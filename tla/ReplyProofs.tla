---------------------------- MODULE ReplyProofs ----------------------------
(***************************************************************************)
(* What goes out.  Module Reply, for slabs of every size, any number of    *)
(* writes and every declared length: what the client has read and what the *)
(* slabs, the coder and the call in progress hold make up, in their order, *)
(* all the handler wrote (Stream), and the client stands where the framing *)
(* puts it (Stand).  Module Json, for every depth, size of slab and length *)
(* of keys and scalars: the text is a prefix of JSON, all of it when the   *)
(* writer is done, and nothing follows a failure.                          *)
(***************************************************************************)
EXTENDS Json, Reply, WellFoundedInduction, NaturalsInduction, SequenceTheorems, TLAPS

\* Induction, as a fact about sets.
LEMMA NatSet ==
    ASSUME NEW S, 0 \in S, \A n \in Nat : n \in S => n + 1 \in S
    PROVE  \A n \in Nat : n \in S
<1> SUFFICES ASSUME Nat \ S # {} PROVE FALSE
  OBVIOUS
<1> DEFINE R == OpToRel(<, Nat)
<1>1. IsWellFoundedOn(R, Nat)
  BY NatLessThanWellFounded
<1>2. \A x, y \in Nat : <<x, y>> \in R <=> x < y
  BY DEF OpToRel
<1> HIDE DEF R
<1>3. PICK x \in Nat \ S : \A y \in Nat \ S : ~ (<<y, x>> \in R)
  BY <1>1, WFMin
<1>4. x # 0 /\ x - 1 \in Nat /\ x - 1 < x
  BY <1>3
<1>5. x - 1 \in S
  BY <1>2, <1>3, <1>4
<1>6. (x - 1) + 1 \in S
  BY <1>4, <1>5
<1> QED BY <1>3, <1>4, <1>6

-----------------------------------------------------------------------------
(* The client, unit by unit.                                               *)

Units    == [k : {"head", "status", "size", "data", "crlf", "last"}, n : Nat]
HeadMark == <<Mark("head")>>

\* The places f of a client that starts at c and reads units one by one.
Places(c, units, n, f) ==
    f = [i \in 0..n |-> IF i = 0 THEN c ELSE Reads(f[i - 1], units[i])]

LEMMA PlacesExist ==
    ASSUME NEW c, NEW units, NEW m \in Nat
    PROVE  \E f : Places(c, units, m, f)
<1> DEFINE S == {n \in Nat : \E f : Places(c, units, n, f)}
<1>1. 0 \in S
  <2>1. Places(c, units, 0, [i \in 0..0 |-> c])
    BY DEF Places
  <2> QED BY <2>1
<1>2. ASSUME NEW n \in Nat, n \in S PROVE n + 1 \in S
  <2>1. PICK f : Places(c, units, n, f)
    BY <1>2
  <2> DEFINE g == [i \in 0..n + 1 |-> IF i = n + 1 THEN Reads(f[n], units[i]) ELSE f[i]]
  <2>2. \A i \in 0..n : g[i] = f[i]
    OBVIOUS
  <2>3. ASSUME NEW i \in 0..n + 1
        PROVE  g[i] = IF i = 0 THEN c ELSE Reads(g[i - 1], units[i])
    <3>1. CASE i = n + 1
      <4>1. i # 0 /\ i - 1 = n /\ n \in 0..n
        BY <3>1
      <4>2. g[i] = Reads(f[n], units[i])
        BY <3>1, Zenon
      <4> HIDE DEF g
      <4>3. g[i - 1] = f[n]
        BY <2>2, <4>1, Zenon
      <4> QED BY <4>1, <4>2, <4>3, Zenon
    <3>2. CASE i \in 0..n
      <4>1. i # 0 => i - 1 \in 0..n
        BY <3>2
      <4>2. f[i] = IF i = 0 THEN c ELSE Reads(f[i - 1], units[i])
        <5>1. f[i] = [j \in 0..n |-> IF j = 0 THEN c ELSE Reads(f[j - 1], units[j])][i]
          BY <2>1, Zenon DEF Places
        <5> QED BY <3>2, <5>1, Zenon
      <4> HIDE DEF g
      <4>3. g[i] = f[i] /\ (i # 0 => g[i - 1] = f[i - 1])
        BY <2>2, <3>2, <4>1, Zenon
      <4> QED BY <4>2, <4>3, Zenon
    <3> QED BY <3>1, <3>2
  <2>4. g = [i \in 0..n + 1 |-> g[i]]
    BY Zenon
  <2> HIDE DEF g
  <2>5. [i \in 0..n + 1 |-> g[i]]
          = [i \in 0..n + 1 |-> IF i = 0 THEN c ELSE Reads(g[i - 1], units[i])]
    BY <2>3, Zenon
  <2>6. Places(c, units, n + 1, g)
    BY <2>4, <2>5, Zenon DEF Places
  <2> QED BY <2>6
<1> HIDE DEF S
<1>3. m \in S
  BY <1>1, <1>2, NatSet
<1> QED BY <1>3 DEF S

PlacesOf(c, units) == CHOOSE f : Places(c, units, Len(units), f)

\* f leads from c to r over the units.
Leads(c, units, f, r) ==
    /\ f[0] = c /\ f[Len(units)] = r
    /\ \A i \in 1..Len(units) : f[i] = Reads(f[i - 1], units[i])

LEMMA AfterLeads ==
    ASSUME NEW c, NEW units, Len(units) \in Nat
    PROVE  Leads(c, units, PlacesOf(c, units), After(c, units))
<1> DEFINE f == PlacesOf(c, units)
<1>1. Places(c, units, Len(units), f)
  BY PlacesExist, Zenon DEF PlacesOf
<1>2. After(c, units) = f[Len(units)]
  BY Zenon DEF After, PlacesOf, Places
<1> HIDE DEF f
<1>3. ASSUME NEW i \in 0..Len(units)
      PROVE  f[i] = IF i = 0 THEN c ELSE Reads(f[i - 1], units[i])
  <2>1. f[i] = [j \in 0..Len(units) |-> IF j = 0 THEN c ELSE Reads(f[j - 1], units[j])][i]
    BY <1>1, Zenon DEF Places
  <2> QED BY <2>1, Zenon
<1>4. 0 \in 0..Len(units) /\ \A i \in 1..Len(units) : i \in 0..Len(units) /\ i # 0
  OBVIOUS
<1>5. f[0] = c /\ \A i \in 1..Len(units) : f[i] = Reads(f[i - 1], units[i])
  BY <1>3, <1>4, Zenon
<1> QED BY <1>2, <1>5, Zenon DEF Leads, f

\* Whatever leads there is where the client is.
LEMMA AfterBy ==
    ASSUME NEW c, NEW units, Len(units) \in Nat, NEW g, NEW r, Leads(c, units, g, r)
    PROVE  After(c, units) = r
<1> DEFINE f == PlacesOf(c, units)
           S == {n \in Nat : n <= Len(units) => f[n] = g[n]}
<1>1. Leads(c, units, f, After(c, units))
  BY AfterLeads
<1> HIDE DEF f
<1>2. 0 \in S
  BY <1>1 DEF Leads
<1>3. ASSUME NEW n \in Nat, n \in S PROVE n + 1 \in S
  <2> SUFFICES ASSUME n + 1 <= Len(units) PROVE f[n + 1] = g[n + 1]
    OBVIOUS
  <2>1. f[n] = g[n]
    BY <1>3
  <2>2. n + 1 \in 1..Len(units) /\ (n + 1) - 1 = n
    OBVIOUS
  <2> QED BY <1>1, <2>1, <2>2, Zenon DEF Leads
<1> HIDE DEF S
<1>4. Len(units) \in S
  BY <1>2, <1>3, NatSet
<1>5. f[Len(units)] = g[Len(units)]
  BY <1>4 DEF S
<1> QED BY <1>1, <1>5, Zenon DEF Leads

LEMMA AfterNone ==
    ASSUME NEW c
    PROVE  After(c, <<>>) = c
<1>1. Len(<<>>) = 0 /\ Len(<<>>) \in Nat
  OBVIOUS
<1>2. Leads(c, <<>>, [i \in 0..0 |-> c], c)
  BY DEF Leads
<1> QED BY <1>1, <1>2, AfterBy

LEMMA AfterOne ==
    ASSUME NEW c, NEW u
    PROVE  After(c, <<u>>) = Reads(c, u)
<1> DEFINE g == [i \in 0..1 |-> IF i = 0 THEN c ELSE Reads(c, u)]
<1>1. Len(<<u>>) = 1 /\ Len(<<u>>) \in Nat /\ <<u>>[1] = u
  OBVIOUS
<1>2. g[0] = c /\ g[1] = Reads(c, u)
  OBVIOUS
<1> HIDE DEF g
<1>3. \A i \in 1..1 : i = 1 /\ i - 1 = 0
  OBVIOUS
<1>4. Leads(c, <<u>>, g, Reads(c, u))
  BY <1>1, <1>2, <1>3, Zenon DEF Leads
<1> QED BY <1>1, <1>4, AfterBy

\* Two runs of units, one behind the other.
LEMMA AfterBoth ==
    ASSUME NEW c, NEW us \in Seq(Units), NEW vs \in Seq(Units)
    PROVE  After(c, us \o vs) = After(After(c, us), vs)
<1> DEFINE d == After(c, us)
           r == After(d, vs)
           f == PlacesOf(c, us)
           h == PlacesOf(d, vs)
           n == Len(us)
           ws == us \o vs
           g == [i \in 0..Len(ws) |-> IF i <= n THEN f[i] ELSE h[i - n]]
<1>1. n \in Nat /\ Len(vs) \in Nat /\ Len(ws) = n + Len(vs)
      /\ \A i \in 1..Len(ws) : ws[i] = IF i <= n THEN us[i] ELSE vs[i - n]
  BY ConcatProperties
<1>2. Leads(c, us, f, d)
  BY <1>1, AfterLeads
<1>3. Leads(d, vs, h, r)
  BY <1>1, AfterLeads
<1> HIDE DEF d, r, f, h, n, ws
<1>4. f[0] = c /\ f[n] = d /\ h[0] = d /\ h[Len(vs)] = r
  BY <1>2, <1>3, Zenon DEF Leads, n
<1>5. \A i \in 0..n : g[i] = f[i]
  BY <1>1
<1>6. \A i \in 0..Len(vs) : g[n + i] = h[i]
  <2> SUFFICES ASSUME NEW i \in 0..Len(vs) PROVE g[n + i] = h[i]
    OBVIOUS
  <2>1. CASE i = 0
    <3>1. n + i = n /\ n \in 0..n
      BY <1>1, <2>1
    <3> HIDE DEF g
    <3> QED BY <1>4, <1>5, <2>1, <3>1, Zenon
  <2>2. CASE i # 0
    <3>1. n + i \in 0..Len(ws) /\ ~(n + i <= n) /\ (n + i) - n = i
      BY <1>1, <2>2
    <3> QED BY <3>1, Zenon
  <2> QED BY <2>1, <2>2
<1> HIDE DEF g
<1>7. ASSUME NEW i \in 1..Len(ws) PROVE g[i] = Reads(g[i - 1], ws[i])
  <2>1. CASE i <= n
    <3>1. i \in 1..n /\ i \in 0..n /\ i - 1 \in 0..n /\ ws[i] = us[i]
      BY <1>1, <2>1
    <3>2. f[i] = Reads(f[i - 1], us[i])
      BY <1>2, <3>1, Zenon DEF Leads, n
    <3> QED BY <1>5, <3>1, <3>2, Zenon
  <2>2. CASE ~(i <= n)
    <3> DEFINE j == i - n
    <3>1. j \in 1..Len(vs) /\ j \in 0..Len(vs) /\ j - 1 \in 0..Len(vs) /\ ws[i] = vs[j]
          /\ n + j = i /\ n + (j - 1) = i - 1
      BY <1>1, <2>2
    <3> HIDE DEF j
    <3>2. h[j] = Reads(h[j - 1], vs[j])
      BY <1>3, <3>1, Zenon DEF Leads
    <3>3. g[n + j] = h[j] /\ g[n + (j - 1)] = h[j - 1]
      BY <1>6, <3>1, Zenon
    <3> QED BY <3>1, <3>2, <3>3, Zenon
  <2> QED BY <2>1, <2>2
<1>8. g[0] = c /\ g[Len(ws)] = r
  <2>1. 0 \in 0..n /\ Len(vs) \in 0..Len(vs)
    BY <1>1
  <2> QED BY <1>1, <1>4, <1>5, <1>6, <2>1, Zenon
<1>9. Leads(c, ws, g, r)
  BY <1>7, <1>8, Zenon DEF Leads
<1>10. After(c, ws) = r
  <2>1. Len(ws) \in Nat
    BY <1>1
  <2> QED BY <1>9, <2>1, AfterBy
<1> QED BY <1>10 DEF ws, r, d

\* b with more and more of xs behind it.
Grown(b, xs) == [n \in 0..Len(xs) |-> b \o SubSeq(xs, 1, n)]

GrownOf(b, xs, g) ==
    /\ g[0] = b /\ g[Len(xs)] = b \o xs
    /\ \A n \in 0..Len(xs) : g[n] \in Seq(Nat) /\ Len(g[n]) = Len(b) + n
    /\ \A n \in 1..Len(xs) : g[n] = Append(g[n - 1], xs[n])

LEMMA GrownIs ==
    ASSUME NEW b \in Seq(Nat), NEW xs \in Seq(Nat)
    PROVE  GrownOf(b, xs, Grown(b, xs))
<1> DEFINE g == Grown(b, xs)
<1>0. Len(xs) \in Nat /\ Len(b) \in Nat
  OBVIOUS
<1>1. \A n \in 0..Len(xs) : g[n] = b \o SubSeq(xs, 1, n)
  BY Zenon DEF Grown
<1> HIDE DEF g
<1>2. ASSUME NEW n \in 0..Len(xs)
      PROVE  /\ g[n] \in Seq(Nat) /\ Len(g[n]) = Len(b) + n
             /\ \A i \in 1..Len(b) + n : g[n][i] = IF i <= Len(b) THEN b[i] ELSE xs[i - Len(b)]
  <2> DEFINE s == SubSeq(xs, 1, n)
  <2>1. s \in Seq(Nat) /\ Len(s) = n /\ \A i \in 1..n : s[i] = xs[i]
    BY <1>0
  <2> HIDE DEF s
  <2>2. /\ b \o s \in Seq(Nat) /\ Len(b \o s) = Len(b) + n
        /\ \A i \in 1..Len(b) + n : (b \o s)[i] = IF i <= Len(b) THEN b[i] ELSE s[i - Len(b)]
    BY <2>1, ConcatProperties
  <2>3. \A i \in 1..Len(b) + n : ~(i <= Len(b)) => i - Len(b) \in 1..n
    BY <1>0
  <2>4. \A i \in 1..Len(b) + n : (b \o s)[i] = IF i <= Len(b) THEN b[i] ELSE xs[i - Len(b)]
    BY <2>1, <2>2, <2>3, Zenon
  <2>5. g[n] = b \o s
    BY <1>1, Zenon DEF s
  <2> QED BY <2>2, <2>4, <2>5, Zenon
<1>3. g[0] = b
  <2>1. 0 \in 0..Len(xs)
    BY <1>0
  <2>2. g[0] \in Seq(Nat) /\ Len(g[0]) = Len(b) /\ \A i \in 1..Len(g[0]) : g[0][i] = b[i]
    BY <1>0, <1>2, <2>1
  <2> QED BY <2>2, SeqEqual
<1>4. g[Len(xs)] = b \o xs
  <2>1. Len(xs) \in 0..Len(xs)
    BY <1>0
  <2>2. SubSeq(xs, 1, Len(xs)) = xs
    BY SubSeqFull
  <2> QED BY <1>1, <2>1, <2>2, Zenon
<1>5. ASSUME NEW n \in 1..Len(xs) PROVE g[n] = Append(g[n - 1], xs[n])
  <2> DEFINE p == g[n - 1]
             q == Append(p, xs[n])
  <2>0. n \in Nat /\ n - 1 \in 0..Len(xs) /\ n \in 0..Len(xs) /\ Len(b) + (n - 1) + 1 = Len(b) + n
    BY <1>0
  <2>1. /\ p \in Seq(Nat) /\ Len(p) = Len(b) + (n - 1)
        /\ \A i \in 1..Len(b) + (n - 1) : p[i] = IF i <= Len(b) THEN b[i] ELSE xs[i - Len(b)]
    BY <1>2, <2>0
  <2>2. xs[n] \in Nat
    BY <1>0
  <2> HIDE DEF p
  <2>3. q \in Seq(Nat) /\ Len(q) = Len(b) + n /\ q[Len(b) + n] = xs[n]
        /\ \A i \in 1..Len(b) + (n - 1) : q[i] = p[i]
    BY <1>0, <2>0, <2>1, <2>2
  <2> HIDE DEF q
  <2>4. ASSUME NEW i \in 1..Len(b) + n PROVE g[n][i] = q[i]
    <3>1. g[n][i] = IF i <= Len(b) THEN b[i] ELSE xs[i - Len(b)]
      BY <1>2, <2>0
    <3>2. CASE i = Len(b) + n
      <4>1. ~(i <= Len(b)) /\ i - Len(b) = n
        BY <1>0, <3>2
      <4> QED BY <2>3, <3>1, <3>2, <4>1, Zenon
    <3>3. CASE i # Len(b) + n
      <4>1. i \in 1..Len(b) + (n - 1)
        <5> DEFINE L == Len(b)
        <5>1. L \in Nat /\ n \in Nat /\ i \in 1..L + n /\ i # L + n
          BY <1>0, <2>0, <3>3
        <5> HIDE DEF L
        <5>2. i \in 1..L + (n - 1)
          BY <5>1
        <5> QED BY <5>2 DEF L
      <4> QED BY <2>1, <2>3, <3>1, <4>1, Zenon
    <3> QED BY <3>2, <3>3
  <2>5. g[n] \in Seq(Nat) /\ Len(g[n]) = Len(q)
    BY <1>2, <2>0, <2>3
  <2>6. g[n] = q
    <3>1. \A i \in 1..Len(g[n]) : g[n][i] = q[i]
      BY <2>3, <2>4, <2>5
    <3> QED BY <2>3, <2>5, <3>1, SeqEqual
  <2> QED BY <2>6 DEF q, p
<1>6. \A n \in 0..Len(xs) : g[n] \in Seq(Nat) /\ Len(g[n]) = Len(b) + n
  BY <1>2
<1> QED BY <1>3, <1>4, <1>5, <1>6, Zenon DEF GrownOf, g

\* A client that was promised len units and got b of them; that waits for a
\* chunk, or has all of them; that reads until the end of the connection.
LenState(len, b) ==
    [at |-> IF Len(b) = len THEN "end" ELSE "length", left |-> len - Len(b), body |-> b]
ChunkState(done, b) == [at |-> IF done THEN "end" ELSE "size", left |-> 0, body |-> b]
CloseState(b) == [at |-> "until_close", left |-> 0, body |-> b]
InChunk(left, b) ==
    [at |-> IF left = 0 THEN "crlf" ELSE "data", left |-> left, body |-> b]

LEMMA ReadsUnit ==
    ASSUME NEW l, NEW b, NEW x
    PROVE  /\ Reads([at |-> "length", left |-> l, body |-> b], Data(x))
                = [at |-> IF l = 1 THEN "end" ELSE "length", left |-> l - 1, body |-> Append(b, x)]
           /\ Reads([at |-> "data", left |-> l, body |-> b], Data(x))
                = [at |-> IF l = 1 THEN "crlf" ELSE "data", left |-> l - 1, body |-> Append(b, x)]
<1> DEFINE u == Data(x)
<1>1. u.k = "data" /\ u.n = x
  BY DEF Data
<1> HIDE DEF u
<1>2. Reads([at |-> "length", left |-> l, body |-> b], u)
        = [at |-> IF l = 1 THEN "end" ELSE "length", left |-> l - 1, body |-> Append(b, x)]
  BY <1>1 DEF Reads
<1>3. Reads([at |-> "data", left |-> l, body |-> b], u)
        = [at |-> IF l = 1 THEN "crlf" ELSE "data", left |-> l - 1, body |-> Append(b, x)]
  BY <1>1 DEF Reads
<1> QED BY <1>2, <1>3 DEF u

LEMMA DatasAre ==
    ASSUME NEW xs \in Seq(Nat)
    PROVE  /\ Len(Datas(xs)) = Len(xs) /\ Len(Datas(xs)) \in Nat
           /\ \A i \in 1..Len(xs) : Datas(xs)[i] = Data(xs[i])
           /\ \A U : (\A n \in Nat : Data(n) \in U) => Datas(xs) \in Seq(U)
BY DEF Datas

LEMMA LenReads ==
    ASSUME NEW len \in Nat, NEW b \in Seq(Nat), NEW xs \in Seq(Nat), Len(b) + Len(xs) <= len
    PROVE  After(LenState(len, b), Datas(xs)) = LenState(len, b \o xs)
<1> DEFINE h == Grown(b, xs)
           g == [n \in 0..Len(xs) |-> LenState(len, h[n])]
           r == LenState(len, b \o xs)
<1>0. Len(xs) \in Nat /\ Len(b) \in Nat /\ 0 \in 0..Len(xs) /\ Len(xs) \in 0..Len(xs)
  OBVIOUS
<1>1. GrownOf(b, xs, h)
  BY GrownIs
<1> HIDE DEF h
<1>2. \A n \in 0..Len(xs) : g[n] = LenState(len, h[n])
  BY Zenon
<1> HIDE DEF g
<1>3. g[0] = LenState(len, b) /\ g[Len(xs)] = r
  BY <1>0, <1>1, <1>2, Zenon DEF GrownOf
<1>4. ASSUME NEW n \in 1..Len(xs) PROVE g[n] = Reads(g[n - 1], Datas(xs)[n])
  <2> DEFINE p == h[n - 1]
  <2>0. n \in 0..Len(xs) /\ n - 1 \in 0..Len(xs)
    BY <1>0
  <2>1. p \in Seq(Nat) /\ Len(p) = Len(b) + (n - 1) /\ h[n] = Append(p, xs[n])
    BY <1>1, <2>0 DEF GrownOf
  <2>2. Datas(xs)[n] = Data(xs[n]) /\ xs[n] \in Nat
    BY DatasAre
  <2> HIDE DEF p
  <2>3. Len(p) \in Nat /\ Len(p) < len /\ Len(Append(p, xs[n])) = Len(p) + 1
    BY <1>0, <2>1, <2>2
  <2>4. Reads(LenState(len, p), Data(xs[n])) = LenState(len, Append(p, xs[n]))
    <3>1. LenState(len, p) = [at |-> "length", left |-> len - Len(p), body |-> p]
      BY <2>3 DEF LenState
    <3>2. LenState(len, Append(p, xs[n]))
            = [at |-> IF len - Len(p) = 1 THEN "end" ELSE "length", left |-> (len - Len(p)) - 1,
               body |-> Append(p, xs[n])]
      <4> DEFINE q == Append(p, xs[n])
      <4>1. Len(q) = Len(p) + 1
        BY <2>3
      <4> HIDE DEF q
      <4>2. (Len(q) = len <=> len - Len(p) = 1) /\ len - Len(q) = (len - Len(p)) - 1
        BY <2>3, <4>1
      <4>3. LenState(len, q)
              = [at |-> IF len - Len(p) = 1 THEN "end" ELSE "length",
                 left |-> (len - Len(p)) - 1, body |-> q]
        <5>1. CASE len - Len(p) = 1
          BY <4>2, <5>1, Zenon DEF LenState
        <5>2. CASE len - Len(p) # 1
          BY <4>2, <5>2, Zenon DEF LenState
        <5> QED BY <5>1, <5>2
      <4> QED BY <4>3 DEF q
    <3> QED BY <3>1, <3>2, ReadsUnit, Zenon
  <2>5. g[n] = LenState(len, Append(p, xs[n])) /\ g[n - 1] = LenState(len, p)
    BY <1>2, <2>0, <2>1, Zenon DEF p
  <2> QED BY <2>2, <2>4, <2>5, Zenon
<1>5. Leads(LenState(len, b), Datas(xs), g, r)
  BY <1>3, <1>4, DatasAre DEF Leads
<1> HIDE DEF r
<1>6. After(LenState(len, b), Datas(xs)) = r
  BY <1>5, AfterBy, DatasAre
<1> QED BY <1>6 DEF r

LEMMA CloseReads ==
    ASSUME NEW b \in Seq(Nat), NEW xs \in Seq(Nat)
    PROVE  After(CloseState(b), Datas(xs)) = CloseState(b \o xs)
<1> DEFINE h == Grown(b, xs)
           g == [n \in 0..Len(xs) |-> CloseState(h[n])]
           r == CloseState(b \o xs)
<1>0. Len(xs) \in Nat /\ Len(b) \in Nat /\ 0 \in 0..Len(xs) /\ Len(xs) \in 0..Len(xs)
  OBVIOUS
<1>1. GrownOf(b, xs, h)
  BY GrownIs
<1> HIDE DEF h
<1>2. \A n \in 0..Len(xs) : g[n] = CloseState(h[n])
  BY Zenon
<1> HIDE DEF g
<1>3. g[0] = CloseState(b) /\ g[Len(xs)] = r
  BY <1>0, <1>1, <1>2, Zenon DEF GrownOf
<1>4. ASSUME NEW n \in 1..Len(xs) PROVE g[n] = Reads(g[n - 1], Datas(xs)[n])
  <2> DEFINE p == h[n - 1]
  <2>0. n \in 0..Len(xs) /\ n - 1 \in 0..Len(xs)
    BY <1>0
  <2>1. h[n] = Append(p, xs[n])
    BY <1>1, <2>0 DEF GrownOf
  <2>2. Datas(xs)[n] = Data(xs[n])
    BY DatasAre
  <2> HIDE DEF p
  <2>3. Reads(CloseState(p), Data(xs[n])) = CloseState(Append(p, xs[n]))
    BY DEF Reads, CloseState, Data
  <2>4. g[n] = CloseState(Append(p, xs[n])) /\ g[n - 1] = CloseState(p)
    BY <1>2, <2>0, <2>1, Zenon DEF p
  <2> QED BY <2>2, <2>3, <2>4, Zenon
<1>5. Leads(CloseState(b), Datas(xs), g, r)
  BY <1>3, <1>4, DatasAre DEF Leads
<1> HIDE DEF r
<1>6. After(CloseState(b), Datas(xs)) = r
  BY <1>5, AfterBy, DatasAre
<1> QED BY <1>6 DEF r

LEMMA InChunkReads ==
    ASSUME NEW b \in Seq(Nat), NEW xs \in Seq(Nat)
    PROVE  After(InChunk(Len(xs), b), Datas(xs)) = InChunk(0, b \o xs)
<1> DEFINE h == Grown(b, xs)
           g == [n \in 0..Len(xs) |-> InChunk(Len(xs) - n, h[n])]
           r == InChunk(0, b \o xs)
<1>0. Len(xs) \in Nat /\ Len(b) \in Nat /\ 0 \in 0..Len(xs) /\ Len(xs) \in 0..Len(xs)
      /\ Len(xs) - 0 = Len(xs) /\ Len(xs) - Len(xs) = 0
  OBVIOUS
<1>1. GrownOf(b, xs, h)
  BY GrownIs
<1> HIDE DEF h
<1>2. \A n \in 0..Len(xs) : g[n] = InChunk(Len(xs) - n, h[n])
  BY Zenon
<1> HIDE DEF g
<1>3. g[0] = InChunk(Len(xs), b) /\ g[Len(xs)] = r
  BY <1>0, <1>1, <1>2, Zenon DEF GrownOf
<1>4. ASSUME NEW n \in 1..Len(xs) PROVE g[n] = Reads(g[n - 1], Datas(xs)[n])
  <2> DEFINE p == h[n - 1]
             k == Len(xs) - n
  <2>0. n \in 0..Len(xs) /\ n - 1 \in 0..Len(xs) /\ k \in Nat /\ Len(xs) - (n - 1) = k + 1
    BY <1>0
  <2>1. h[n] = Append(p, xs[n])
    BY <1>1, <2>0 DEF GrownOf
  <2>2. Datas(xs)[n] = Data(xs[n])
    BY DatasAre
  <2>3. g[n] = InChunk(k, Append(p, xs[n])) /\ g[n - 1] = InChunk(k + 1, p)
    BY <1>2, <2>0, <2>1, Zenon
  <2> HIDE DEF p, k
  <2>4. Reads(InChunk(k + 1, p), Data(xs[n])) = InChunk(k, Append(p, xs[n]))
    <3>1. InChunk(k + 1, p) = [at |-> "data", left |-> k + 1, body |-> p]
      BY <2>0 DEF InChunk
    <3>2. InChunk(k, Append(p, xs[n]))
            = [at |-> IF k + 1 = 1 THEN "crlf" ELSE "data", left |-> (k + 1) - 1,
               body |-> Append(p, xs[n])]
      <4>1. (k = 0 <=> k + 1 = 1) /\ (k + 1) - 1 = k
        BY <2>0
      <4>2. CASE k = 0
        BY <4>1, <4>2, Zenon DEF InChunk
      <4>3. CASE k # 0
        BY <4>1, <4>3, Zenon DEF InChunk
      <4> QED BY <4>2, <4>3
    <3> QED BY <3>1, <3>2, ReadsUnit, ZenonT(40)
  <2> QED BY <2>2, <2>3, <2>4, Zenon
<1>5. Leads(InChunk(Len(xs), b), Datas(xs), g, r)
  BY <1>3, <1>4, DatasAre DEF Leads
<1> HIDE DEF r
<1>6. After(InChunk(Len(xs), b), Datas(xs)) = r
  BY <1>5, AfterBy, DatasAre
<1> QED BY <1>6 DEF r

-----------------------------------------------------------------------------
(* What the client makes of a send.                                        *)

LEMMA UnitsAre ==
    /\ \A n \in Nat : Data(n) \in Units
    /\ \A k \in {"head", "status", "size", "data", "crlf", "last"} : Mark(k) \in Units
    /\ HeadMark \in Seq(Units)
BY DEF Data, Mark, Units, HeadMark

LEMMA DatasUnits ==
    ASSUME NEW xs \in Seq(Nat)
    PROVE  Datas(xs) \in Seq(Units)
BY DatasAre, UnitsAre

LEMMA DatasNone == Datas(<<>>) = <<>>
BY DEF Datas

\* A chunk, and the last one.
LEMMA ChunkReads ==
    ASSUME NEW b \in Seq(Nat), NEW xs \in Seq(Nat), xs # <<>>
    PROVE  LET u == <<[k |-> "size", n |-> Len(xs)]>> \o Datas(xs) \o <<Mark("crlf")>> IN
           /\ u \in Seq(Units)
           /\ After(ChunkState(FALSE, b), u) = ChunkState(FALSE, b \o xs)
<1> DEFINE s  == [k |-> "size", n |-> Len(xs)]
           d  == Datas(xs)
           e  == Mark("crlf")
           c0 == ChunkState(FALSE, b)
<1>1. s \in Units /\ Len(xs) \in Nat /\ Len(xs) > 0
  BY DEF Units
<1>2. d \in Seq(Units) /\ e \in Units
  BY DatasUnits, UnitsAre
<1>3. Reads(c0, s) = InChunk(Len(xs), b)
  <2>1. s.k = "size" /\ s.n = Len(xs)
    OBVIOUS
  <2> HIDE DEF s
  <2>2. Reads(c0, s) = [c0 EXCEPT !.at = "data", !.left = s.n]
    BY <1>1, <2>1 DEF Reads, ChunkState
  <2>3. Len(xs) # 0
    BY <1>1
  <2> QED BY <2>1, <2>2, <2>3 DEF ChunkState, InChunk
<1>4. Reads(InChunk(0, b \o xs), e) = ChunkState(FALSE, b \o xs)
  BY DEF Reads, InChunk, ChunkState, Mark
<1>5. After(InChunk(Len(xs), b), d) = InChunk(0, b \o xs)
  BY InChunkReads
<1> HIDE DEF s, d, e, c0
<1>6. <<s>> \in Seq(Units) /\ <<e>> \in Seq(Units) /\ <<s>> \o d \in Seq(Units)
      /\ (<<s>> \o d) \o <<e>> \in Seq(Units)
  BY <1>1, <1>2
<1>7. After(c0, (<<s>> \o d) \o <<e>>) = After(After(After(c0, <<s>>), d), <<e>>)
  <2>1. After(c0, (<<s>> \o d) \o <<e>>) = After(After(c0, <<s>> \o d), <<e>>)
    BY <1>6, AfterBoth, Zenon
  <2>2. After(c0, <<s>> \o d) = After(After(c0, <<s>>), d)
    BY <1>2, <1>6, AfterBoth, Zenon
  <2> QED BY <2>1, <2>2, Zenon
<1>8. After(c0, <<s>>) = InChunk(Len(xs), b)
  BY <1>3, AfterOne, Zenon
<1>9. After(InChunk(0, b \o xs), <<e>>) = ChunkState(FALSE, b \o xs)
  BY <1>4, AfterOne, Zenon
<1>10. After(c0, (<<s>> \o d) \o <<e>>) = ChunkState(FALSE, b \o xs)
  BY <1>5, <1>7, <1>8, <1>9, Zenon
<1> QED BY <1>6, <1>10, Zenon DEF s, d, e, c0

LEMMA LastReads ==
    ASSUME NEW b
    PROVE  After(ChunkState(FALSE, b), <<Mark("last")>>) = ChunkState(TRUE, b)
<1>1. Reads(ChunkState(FALSE, b), Mark("last")) = ChunkState(TRUE, b)
  BY DEF Reads, ChunkState, Mark
<1> QED BY <1>1, AfterOne, Zenon

\* The head in front is not read.
LEMMA TailCat ==
    ASSUME NEW w \in Seq(Units), NEW u \in Seq(Units), w # <<>>
    PROVE  /\ w \o u \in Seq(Units) /\ w \o u # <<>> /\ (w \o u)[1] = w[1]
           /\ Tail(w) \in Seq(Units) /\ Tail(w \o u) = Tail(w) \o u
<1>1. w \o u \in Seq(Units) /\ Tail(w) \in Seq(Units) /\ Len(w) \in Nat /\ Len(w) >= 1
      /\ Len(u) \in Nat
  OBVIOUS
<1>2. Len(w \o u) = Len(w) + Len(u)
      /\ \A i \in 1..Len(w) + Len(u) : (w \o u)[i] = IF i <= Len(w) THEN w[i] ELSE u[i - Len(w)]
  BY ConcatProperties
<1>3. w \o u # <<>> /\ (w \o u)[1] = w[1]
  BY <1>1, <1>2
<1> DEFINE a == Tail(w \o u)
           t == Tail(w)
           c == t \o u
<1>4. a \in Seq(Units) /\ Len(a) = (Len(w) + Len(u)) - 1
      /\ \A i \in 1..Len(a) : a[i] = (w \o u)[i + 1]
  BY <1>1, <1>2, <1>3
<1>5. t \in Seq(Units) /\ Len(t) = Len(w) - 1 /\ \A i \in 1..Len(t) : t[i] = w[i + 1]
  BY <1>1
<1> HIDE DEF t
<1>6. c \in Seq(Units) /\ Len(c) = Len(t) + Len(u)
      /\ \A i \in 1..Len(t) + Len(u) : c[i] = IF i <= Len(t) THEN t[i] ELSE u[i - Len(t)]
  BY <1>5, ConcatProperties
<1> HIDE DEF a, c
<1>7. Len(a) = Len(c)
  BY <1>1, <1>4, <1>5, <1>6
<1>8. ASSUME NEW i \in 1..Len(a) PROVE a[i] = c[i]
  <2>1. a[i] = IF i + 1 <= Len(w) THEN w[i + 1] ELSE u[(i + 1) - Len(w)]
    BY <1>1, <1>2, <1>4
  <2>2. c[i] = IF i <= Len(t) THEN t[i] ELSE u[i - Len(t)]
    BY <1>6, <1>7
  <2>3. (i + 1 <= Len(w) <=> i <= Len(t)) /\ (i + 1) - Len(w) = i - Len(t)
    BY <1>1, <1>4, <1>5
  <2>4. i <= Len(t) => t[i] = w[i + 1]
    BY <1>1, <1>5, <1>4
  <2> QED BY <2>1, <2>2, <2>3, <2>4, Zenon
<1>9. a = c
  BY <1>4, <1>6, <1>7, <1>8, SeqEqual
<1> QED BY <1>1, <1>3, <1>9 DEF a, c, t

\* The client behind more units.
LEMMA ReadsMore ==
    ASSUME NEW c, NEW w \in Seq(Units), NEW u \in Seq(Units), w # <<>>
    PROVE  After(c, Tail(w \o u)) = After(After(c, Tail(w)), u)
<1>1. Tail(w) \in Seq(Units) /\ Tail(w \o u) = Tail(w) \o u
  BY TailCat
<1>2. After(c, Tail(w) \o u) = After(After(c, Tail(w)), u)
  BY <1>1, AfterBoth
<1> QED BY <1>1, <1>2, Zenon

Smaller(a, b) == Min({a, b}) = IF a <= b THEN a ELSE b

LEMMA MinIs ==
    ASSUME NEW a \in Int, NEW b \in Int
    PROVE  Smaller(a, b)
BY DEF Min, Smaller

-----------------------------------------------------------------------------
(* Sequences of numbers.                                                   *)

LEMMA Cat ==
    /\ <<>> \in Seq(Nat)
    /\ \A x, y \in Seq(Nat) : x \o y \in Seq(Nat) /\ Len(x \o y) = Len(x) + Len(y)
    /\ \A x, y, z \in Seq(Nat) : (x \o y) \o z = x \o (y \o z)
    /\ \A x \in Seq(Nat) : x \o <<>> = x /\ <<>> \o x = x /\ Len(x) \in Nat
<1>1. <<>> \in Seq(Nat) /\ \A x \in Seq(Nat) : Len(x) \in Nat
  OBVIOUS
<1>2. \A x, y \in Seq(Nat) : x \o y \in Seq(Nat) /\ Len(x \o y) = Len(x) + Len(y)
  BY ConcatProperties
<1>3. \A x, y, z \in Seq(Nat) : (x \o y) \o z = x \o (y \o z)
  <2> TAKE x, y, z \in Seq(Nat)
  <2> QED BY ConcatAssociative, SMTT(40)
<1>4. \A x \in Seq(Nat) : x \o <<>> = x /\ <<>> \o x = x
  BY ConcatEmptySeq
<1> QED BY <1>1, <1>2, <1>3, <1>4

Assoc(x, y, z) == (x \o y) \o z = x \o (y \o z)

LEMMA CatAssoc == \A x, y, z \in Seq(Nat) : Assoc(x, y, z)
BY Cat DEF Assoc

LEMMA SplitAt ==
    ASSUME NEW s \in Seq(Nat), NEW n \in 0..Len(s)
    PROVE  /\ SubSeq(s, 1, n) \in Seq(Nat) /\ SubSeq(s, n + 1, Len(s)) \in Seq(Nat)
           /\ Len(SubSeq(s, 1, n)) = n /\ Len(SubSeq(s, n + 1, Len(s))) = Len(s) - n
           /\ SubSeq(s, 1, n) \o SubSeq(s, n + 1, Len(s)) = s
<1>0. Len(s) \in Nat /\ n \in Nat
  OBVIOUS
<1>1. /\ SubSeq(s, 1, n) \in Seq(Nat) /\ SubSeq(s, n + 1, Len(s)) \in Seq(Nat)
      /\ Len(SubSeq(s, 1, n)) = n /\ Len(SubSeq(s, n + 1, Len(s))) = Len(s) - n
  BY <1>0
<1>2. 1 \in 1..Len(s) + 1 /\ n \in 1 - 1..Len(s) /\ Len(s) \in n..Len(s)
  BY <1>0
<1>3. SubSeq(s, 1, n) \o SubSeq(s, n + 1, Len(s)) = SubSeq(s, 1, Len(s))
  BY <1>2, ConcatAdjacentSubSeq
<1>4. SubSeq(s, 1, Len(s)) = s
  BY SubSeqFull
<1> QED BY <1>1, <1>3, <1>4

LEMMA AppendIsCat ==
    ASSUME NEW s \in Seq(Nat), NEW x \in Nat
    PROVE  <<x>> \in Seq(Nat) /\ Append(s, x) = s \o <<x>> /\ Append(s, x) \in Seq(Nat)
           /\ Len(Append(s, x)) = Len(s) + 1
<1>1. <<x>> \in Seq(Nat) /\ Len(<<x>>) = 1 /\ <<x>>[1] = x /\ Len(s) \in Nat
  OBVIOUS
<1> DEFINE a == Append(s, x)
           c == s \o <<x>>
<1>2. a \in Seq(Nat) /\ Len(a) = Len(s) + 1 /\ a[Len(s) + 1] = x
      /\ \A i \in 1..Len(s) : a[i] = s[i]
  BY <1>1
<1>3. c \in Seq(Nat) /\ Len(c) = Len(s) + 1
      /\ \A i \in 1..Len(s) + 1 : c[i] = IF i <= Len(s) THEN s[i] ELSE <<x>>[i - Len(s)]
  BY <1>1, ConcatProperties
<1> HIDE DEF a, c
<1>4. ASSUME NEW i \in 1..Len(a) PROVE a[i] = c[i]
  <2>1. CASE i <= Len(s)
    <3>1. i \in 1..Len(s) /\ i \in 1..Len(s) + 1
      BY <1>1, <1>2, <2>1
    <3> QED BY <1>2, <1>3, <2>1, <3>1, Zenon
  <2>2. CASE ~(i <= Len(s))
    <3>1. i = Len(s) + 1 /\ i - Len(s) = 1 /\ i \in 1..Len(s) + 1
      BY <1>1, <1>2, <2>2
    <3> QED BY <1>1, <1>2, <1>3, <2>2, <3>1, Zenon
  <2> QED BY <2>1, <2>2
<1>5. a = c
  BY <1>2, <1>3, <1>4, SeqEqual
<1> QED BY <1>1, <1>2, <1>5 DEF a, c

\* What is in front of a sequence is its beginning.
LEMMA FrontOf ==
    ASSUME NEW s \in Seq(Nat), NEW t \in Seq(Nat)
    PROVE  SubSeq(s \o t, 1, Len(s)) = s
<1> DEFINE c == s \o t
           a == SubSeq(c, 1, Len(s))
<1>0. Len(s) \in Nat /\ Len(t) \in Nat
  OBVIOUS
<1>1. c \in Seq(Nat) /\ Len(c) = Len(s) + Len(t)
      /\ \A i \in 1..Len(s) + Len(t) : c[i] = IF i <= Len(s) THEN s[i] ELSE t[i - Len(s)]
  BY ConcatProperties
<1> HIDE DEF c
<1>2. a \in Seq(Nat) /\ Len(a) = Len(s) /\ \A i \in 1..Len(s) : a[i] = c[i]
  BY <1>0, <1>1
<1> HIDE DEF a
<1>3. \A i \in 1..Len(a) : a[i] = s[i]
  BY <1>0, <1>1, <1>2
<1>4. a = s
  BY <1>2, <1>3, SeqEqual
<1> QED BY <1>4 DEF a, c

\* The numbers 1..n, and n more.
Count(n) == [i \in 1..n |-> i]
More(a, n) == [i \in 1..n |-> a + i]

LEMMA CountIs ==
    ASSUME NEW a \in Nat, NEW n \in Nat
    PROVE  /\ Count(a) \in Seq(Nat) /\ Len(Count(a)) = a
           /\ \A i \in 1..a : Count(a)[i] = i
           /\ More(a, n) \in Seq(Nat) /\ Len(More(a, n)) = n
           /\ Count(a + n) = Count(a) \o More(a, n)
           /\ n > 0 => More(a, n) # <<>>
<1> DEFINE s == Count(a)
           t == More(a, n)
           u == Count(a + n)
           c == s \o t
<1>1. s \in Seq(Nat) /\ Len(s) = a /\ \A i \in 1..a : s[i] = i
  BY DEF Count
<1>2. t \in Seq(Nat) /\ Len(t) = n /\ \A i \in 1..n : t[i] = a + i
  BY DEF More
<1>3. u \in Seq(Nat) /\ Len(u) = a + n /\ \A i \in 1..a + n : u[i] = i
  BY DEF Count
<1> HIDE DEF s, t, u
<1>4. c \in Seq(Nat) /\ Len(c) = Len(s) + Len(t)
      /\ \A i \in 1..Len(s) + Len(t) : c[i] = IF i <= Len(s) THEN s[i] ELSE t[i - Len(s)]
  BY <1>1, <1>2, ConcatProperties
<1> HIDE DEF c
<1>5. ASSUME NEW i \in 1..Len(u) PROVE u[i] = c[i]
  BY <1>1, <1>2, <1>3, <1>4
<1>6. u = c
  BY <1>1, <1>2, <1>3, <1>4, <1>5, SeqEqual
<1>7. n > 0 => t # <<>>
  BY <1>2
<1> QED BY <1>1, <1>2, <1>6, <1>7 DEF s, t, u, c

LEMMA WrittenIs == Written = Count(written) /\ \A n : New(n) = More(written, n)
BY Zenon DEF Written, New, Count, More

\* One behind the other: the client's body, the coded slab, what the coder has,
\* the slab, what goes out raw behind it and what the call still has.
Join(b, c, d, e, f, g) == b \o (c \o (d \o (e \o (f \o g))))

LEMMA JoinIs ==
    ASSUME NEW b \in Seq(Nat), NEW c \in Seq(Nat), NEW d \in Seq(Nat), NEW e \in Seq(Nat),
           NEW f \in Seq(Nat), NEW g \in Seq(Nat)
    PROVE  /\ Join(b, c, d, e, f, g) \in Seq(Nat)
           /\ Len(Join(b, c, d, e, f, g)) = Len(b) + Len(c) + Len(d) + Len(e) + Len(f) + Len(g)
           /\ c \o (d \o (e \o (f \o g))) \in Seq(Nat)
           /\ d \o (e \o (f \o g)) \in Seq(Nat) /\ e \o (f \o g) \in Seq(Nat)
           /\ f \o g \in Seq(Nat)
<1> DEFINE q4 == f \o g
           q3 == e \o q4
           q2 == d \o q3
           q1 == c \o q2
<1>4. q4 \in Seq(Nat) /\ Len(q4) = Len(f) + Len(g)
  BY Cat
<1> HIDE DEF q4
<1>3. q3 \in Seq(Nat) /\ Len(q3) = Len(e) + Len(q4)
  BY Cat, <1>4
<1> HIDE DEF q3
<1>2. q2 \in Seq(Nat) /\ Len(q2) = Len(d) + Len(q3)
  BY Cat, <1>3
<1> HIDE DEF q2
<1>1. q1 \in Seq(Nat) /\ Len(q1) = Len(c) + Len(q2)
  BY Cat, <1>2
<1> HIDE DEF q1
<1>0. b \o q1 \in Seq(Nat) /\ Len(b \o q1) = Len(b) + Len(q1)
  BY Cat, <1>1
<1>5. Join(b, c, d, e, f, g) = b \o q1
  BY Zenon DEF Join, q1, q2, q3, q4
<1>6. Len(b) \in Nat /\ Len(c) \in Nat /\ Len(d) \in Nat /\ Len(e) \in Nat /\ Len(f) \in Nat
      /\ Len(g) \in Nat
  OBVIOUS
<1>7. Len(b \o q1) = Len(b) + Len(c) + Len(d) + Len(e) + Len(f) + Len(g)
  BY <1>0, <1>1, <1>2, <1>3, <1>4, <1>6
<1> QED BY <1>0, <1>1, <1>2, <1>3, <1>4, <1>5, <1>7, Zenon DEF q1, q2, q3, q4

\* More at the end.
JoinsMore(b, c, d, e, z) ==
    /\ Join(b, c, d, e, <<>>, z) = Join(b, c, d, e, <<>>, <<>>) \o z
    /\ Join(b, c, d, e, z, <<>>) = Join(b, c, d, e, <<>>, <<>>) \o z

LEMMA JoinMore ==
    ASSUME NEW b \in Seq(Nat), NEW c \in Seq(Nat), NEW d \in Seq(Nat), NEW e \in Seq(Nat),
           NEW z \in Seq(Nat)
    PROVE  JoinsMore(b, c, d, e, z)
<1>1. <<>> \o z = z /\ z \o <<>> = z /\ <<>> \o <<>> = <<>> /\ e \o <<>> = e
  BY Cat
<1> DEFINE r == d \o e
           q == c \o r
<1>2. r \in Seq(Nat) /\ q \in Seq(Nat)
  BY Cat
<1>3. r \o z = d \o (e \o z)
  BY Cat, Zenon
<1>4. Join(b, c, d, e, <<>>, <<>>) = b \o q
  BY <1>1, Zenon DEF Join
<1>5. Join(b, c, d, e, <<>>, z) = b \o (c \o (d \o (e \o z)))
  BY <1>1, Zenon DEF Join
<1>6. Join(b, c, d, e, z, <<>>) = b \o (c \o (d \o (e \o z)))
  BY <1>1, Zenon DEF Join
<1> HIDE DEF r
<1>7. q \o z = c \o (r \o z)
  BY <1>2, Cat, ZenonT(40)
<1> HIDE DEF q
<1>8. (b \o q) \o z = b \o (q \o z)
  BY <1>2, Cat, Zenon
<1> QED BY <1>3, <1>4, <1>5, <1>6, <1>7, <1>8, Zenon DEF JoinsMore

\* From the call into the slab.
JoinsSlab(b, c, d, e, p, q) == Join(b, c, d, e, <<>>, p \o q) = Join(b, c, d, e \o p, <<>>, q)

LEMMA JoinSlab ==
    ASSUME NEW b \in Seq(Nat), NEW c \in Seq(Nat), NEW d \in Seq(Nat), NEW e \in Seq(Nat),
           NEW p \in Seq(Nat), NEW q \in Seq(Nat)
    PROVE  JoinsSlab(b, c, d, e, p, q)
<1>1. p \o q \in Seq(Nat)
  BY Cat
<1>2. <<>> \o (p \o q) = p \o q /\ <<>> \o q = q
  BY <1>1, Cat, Zenon
<1>3. (e \o p) \o q = e \o (p \o q)
  BY Cat, Zenon
<1> QED BY <1>2, <1>3, Zenon DEF Join, JoinsSlab

\* Through the coder into the coded slab.
JoinsCoded(b, c, d, e, f, g, y, r) ==
    d \o e = y \o r => Join(b, c, d, e, f, g) = Join(b, c \o y, r, <<>>, f, g)

LEMMA JoinCoded ==
    ASSUME NEW b \in Seq(Nat), NEW c \in Seq(Nat), NEW d \in Seq(Nat), NEW e \in Seq(Nat),
           NEW f \in Seq(Nat), NEW g \in Seq(Nat), NEW y \in Seq(Nat), NEW r \in Seq(Nat)
    PROVE  JoinsCoded(b, c, d, e, f, g, y, r)
<1> SUFFICES ASSUME d \o e = y \o r
             PROVE  Join(b, c, d, e, f, g) = Join(b, c \o y, r, <<>>, f, g)
  BY DEF JoinsCoded
<1> DEFINE t == f \o g
<1>1. t \in Seq(Nat)
  BY Cat
<1> HIDE DEF t
<1>2. r \o t \in Seq(Nat) /\ <<>> \o t = t
  BY <1>1, Cat
<1>3. (d \o e) \o t = d \o (e \o t) /\ (y \o r) \o t = y \o (r \o t)
  <2>1. Assoc(d, e, t) /\ Assoc(y, r, t)
    BY <1>1, CatAssoc, Zenon
  <2> QED BY <2>1, Zenon DEF Assoc
<1>4. (c \o y) \o (r \o t) = c \o (y \o (r \o t))
  BY <1>2, Cat, ZenonT(40)
<1>5. Join(b, c, d, e, f, g) = b \o (c \o (d \o (e \o t)))
  BY Zenon DEF Join, t
<1>6. Join(b, c \o y, r, <<>>, f, g) = b \o ((c \o y) \o (r \o (<<>> \o t)))
  BY Zenon DEF Join, t
<1> QED BY <1>2, <1>3, <1>4, <1>5, <1>6, Zenon

\* Onto the wire.
JoinsSent(b, c, d, e, f, g) ==
    /\ Join(b, c, d, e, f, g) = Join(b \o c, <<>>, d, e, f, g)
    /\ Join(b, <<>>, <<>>, e, f, g) = Join((b \o e) \o f, <<>>, <<>>, <<>>, <<>>, g)
    /\ Join(b, <<>>, <<>>, e, f, g) = ((b \o e) \o f) \o g

LEMMA JoinSent ==
    ASSUME NEW b \in Seq(Nat), NEW c \in Seq(Nat), NEW d \in Seq(Nat), NEW e \in Seq(Nat),
           NEW f \in Seq(Nat), NEW g \in Seq(Nat)
    PROVE  JoinsSent(b, c, d, e, f, g)
<1> DEFINE t == d \o (e \o (f \o g))
<1>1. t \in Seq(Nat) /\ f \o g \in Seq(Nat) /\ e \o (f \o g) \in Seq(Nat) /\ b \o e \in Seq(Nat)
  BY JoinIs, Cat
<1>2. /\ Join(b, c, d, e, f, g) = b \o (c \o t)
      /\ Join(b \o c, <<>>, d, e, f, g) = (b \o c) \o (<<>> \o t)
  BY Zenon DEF Join
<1> HIDE DEF t
<1>3. <<>> \o t = t
  BY <1>1, Cat, Zenon
<1>11. (b \o c) \o t = b \o (c \o t)
  <2>1. Assoc(b, c, t)
    BY <1>1, CatAssoc, Zenon
  <2> QED BY <2>1 DEF Assoc
<1>4. Join(b, c, d, e, f, g) = Join(b \o c, <<>>, d, e, f, g)
  BY <1>2, <1>3, <1>11, Zenon
<1>5. ((b \o e) \o f) \o g = (b \o e) \o (f \o g)
  <2>1. Assoc(b \o e, f, g)
    BY <1>1, CatAssoc, Zenon
  <2> QED BY <2>1 DEF Assoc
<1>6. (b \o e) \o (f \o g) = b \o (e \o (f \o g))
  <2>1. Assoc(b, e, f \o g)
    BY <1>1, CatAssoc, Zenon
  <2> QED BY <2>1 DEF Assoc
<1>7. <<>> \o (e \o (f \o g)) = e \o (f \o g)
  BY <1>1, Cat, Zenon
<1>8. Join(b, <<>>, <<>>, e, f, g) = b \o (e \o (f \o g))
  BY <1>7, Zenon DEF Join
<1>9. <<>> \o g = g
  BY Cat, Zenon
<1>10. Join((b \o e) \o f, <<>>, <<>>, <<>>, <<>>, g) = ((b \o e) \o f) \o g
  BY <1>9, Zenon DEF Join
<1> QED BY <1>4, <1>5, <1>6, <1>8, <1>10, Zenon DEF JoinsSent
-----------------------------------------------------------------------------
(* The invariant.                                                          *)

Stages   == {"none", "begin", "whole", "head", "nobody", "encode", "coded", "send"}

Types ==
    /\ req \in [minor : {0, 1}, head_only : BOOLEAN, keep_alive : BOOLEAN, unread : BOOLEAN]
    /\ res \in [status : {"ok", "none", "304"}, has_length : BOOLEAN, content_length : Nat,
                head_sent : BOOLEAN, chunked : BOOLEAN, failed : BOOLEAN,
                close : BOOLEAN, body_sent : Nat]
    /\ st \in [on_head : BOOLEAN, filter : BOOLEAN, no_body : BOOLEAN]
    /\ pw \in Seq(Nat) /\ cw \in Seq(Nat) /\ pend \in Seq(Nat)
    /\ call \in [op : {"none", "raw", "write", "reserve", "flush", "finish"}, data : Seq(Nat)]
    /\ fl \in [at : Stages, kind : {"none", "full", "asked", "final"}, extra : Seq(Nat),
               head : {<<>>, HeadMark}, coding : BOOLEAN, whole : BOOLEAN]
    /\ wire \in Seq(Units)
    /\ head \in [framing : {"none", "length", "chunked", "until_close"}, len : Nat,
                 keep : BOOLEAN]
    /\ written \in Nat
    /\ over \in {"open", "keep", "closed"}

Live == over = "open" /\ ~res.failed
Done == call.op = "finish" /\ fl.at = "none"

\* The calls and the flush one of them waits for.
Calling ==
    /\ call.op = "none" => fl.at = "none"
    /\ fl.at = "none" => fl.extra = <<>> /\ fl.head = <<>>
    /\ fl.at # "none" => (call.op = "finish" <=> Final)
    /\ call.data # <<>> => call.op \in {"write", "reserve"}
    /\ fl.extra # <<>> => /\ call.op = "raw" /\ ~st.filter /\ ~st.on_head
                          /\ IF res.head_sent THEN ~res.chunked
                             ELSE res.has_length \/ req.minor = 0
    /\ call.op = "reserve" => Len(call.data) <= SlabCap /\ (fl.at = "none" => pw = <<>>)
    /\ Done => res.head_sent

\* What a flush has decided, by its stage.
Staged ==
    /\ fl.at \in {"begin", "whole", "head"} => fl.head = <<>>
    /\ fl.at \in {"nobody", "encode", "coded", "send"} => res.head_sent
    /\ fl.at = "nobody" => NoBody
    /\ fl.at \in {"encode", "coded", "send"} => ~NoBody
    /\ fl.at \notin {"none", "begin"} => /\ fl.coding = (st.filter /\ ~req.head_only)
                                         /\ fl.whole => fl.coding /\ Final
    /\ fl.at = "whole" => fl.whole /\ ~res.head_sent
    /\ fl.at = "head" => (fl.whole <=> fl.coding /\ Final /\ ~res.head_sent)
    /\ fl.at = "head" /\ fl.coding /\ ~fl.whole => ~res.has_length \/ res.head_sent
    /\ fl.at \in {"encode", "coded"} => fl.coding /\ ~fl.whole /\ ~res.has_length

Gone == wire \o fl.head

\* What the head says, and where it is.
Heading ==
    /\ ~res.head_sent => wire = <<>> /\ fl.head = <<>> /\ res.body_sent = 0 /\ ~res.chunked
    /\ res.head_sent =>
         /\ st.no_body = NoBody
         /\ head.keep = (req.keep_alive /\ ~res.close)
         /\ res.chunked = (head.framing = "chunked")
         /\ res.status # "ok" => ~res.chunked
         /\ Gone # <<>> /\ Gone[1] = Mark("head")
         /\ fl.head # <<>> => wire = <<>>
         /\ ~NoBody =>
              /\ head.framing # "none"
              /\ res.has_length => head.framing = "length" /\ head.len = res.content_length
              /\ head.framing = "chunked" => req.minor >= 1
              /\ head.framing = "until_close" => res.close

\* A length that was measured: it is sent at once, by the last flush.
Measured ==
    res.head_sent /\ head.framing = "length" /\ (~res.has_length \/ st.filter) =>
        \/ /\ fl.at = "send" /\ Final /\ res.body_sent = 0 /\ fl.whole = fl.coding
           /\ head.len = Len(IF fl.coding THEN cw ELSE pw)
        \/ Done /\ res.body_sent = head.len

\* What the client has read when all that was decided is sent.
Cl == After(Start, Tail(Gone))
Stand(b) ==
    IF head.framing = "length" THEN LenState(head.len, b)
    ELSE IF head.framing = "chunked" THEN ChunkState(Done, b) ELSE CloseState(b)
Got == IF res.head_sent THEN Cl.body ELSE <<>>
ReadOn ==
    /\ Got \in Seq(Nat) /\ Len(Got) = res.body_sent
    /\ res.head_sent => Cl = Stand(Got)

\* Everything the handler wrote, from the client to the call in progress.
Stream == Join(Got, cw, pend, pw, fl.extra, call.data)
Ended  == Append(Written, Trailer)
Flow ==
    /\ Stream \in {Written, Ended}
    /\ ~st.filter => cw = <<>> /\ pend = <<>>
    /\ ~res.head_sent /\ fl.at # "head" => cw = <<>> /\ pend = <<>>
    /\ Stream = Ended => /\ st.filter /\ call.op = "finish"
                         /\ fl.at \notin {"begin", "whole"}
                         /\ fl.at \in {"encode", "coded"} => pend # <<>>
                         /\ fl.at = "head" => fl.whole
    /\ st.filter /\ (Done \/ (Final /\ fl.at = "send") \/ (fl.at = "head" /\ fl.whole))
          => Stream = Ended
    /\ st.filter /\ fl.at = "send" => pw = <<>>
    /\ fl.at = "send" /\ Final => pend = <<>>
    /\ fl.at = "head" /\ fl.whole => pend = <<>> /\ pw = <<>>
    /\ Done => pw = <<>> /\ cw = <<>> /\ pend = <<>>

Bare == res.head_sent /\ ~Terminated => Gone = HeadMark

LiveInv == /\ Calling /\ Staged /\ Heading
           /\ (~NoBody => Measured /\ ReadOn /\ Flow) /\ (NoBody => Bare)

\* What the properties say of the units w, in a state that is given by the rest.
FineFor(w, start, term, nobody, coded, all, has_length, len) ==
    w # <<>> /\ w[1].k = "head" =>
        LET c == After(start, Tail(w)) IN
        /\ ~term => c.at # "bad"
        /\ ~nobody /\ c.at = "end" =>
              \/ c.body = IF coded THEN Append(all, Trailer) ELSE all
              \/ has_length /\ ~coded /\ c.body = SubSeq(all, 1, len)
Fine(w) ==
    FineFor(w, Start, Terminated, NoBody, Coded, Written, res.has_length, res.content_length)

\* A reply that is over or failed.
Settled ==
    /\ call.op = "none" /\ fl.at = "none" /\ Fine(wire) /\ KeptIsComplete
    /\ res.failed => over # "keep"

IInv == Types /\ Bounded /\ (IF Live THEN LiveInv ELSE Settled)

-----------------------------------------------------------------------------
(* What the invariant says of the client.                                  *)

LEMMA WrittenNotEnded ==
    ASSUME written \in Nat
    PROVE  /\ Written # Ended /\ Written \in Seq(Nat) /\ Len(Written) = written
           /\ Ended \in Seq(Nat) /\ Len(Ended) = written + 1 /\ Ended = Written \o <<Trailer>>
<1>1. Written \in Seq(Nat) /\ Len(Written) = written
  <2>1. 0 \in Nat
    OBVIOUS
  <2> QED BY <2>1, CountIs, WrittenIs
<1>2. Trailer \in Nat
  BY DEF Trailer
<1>3. Ended \in Seq(Nat) /\ Len(Ended) = written + 1 /\ Ended = Written \o <<Trailer>>
  BY <1>1, <1>2, AppendIsCat DEF Ended
<1>4. Written # Ended
  BY <1>1, <1>3
<1> QED BY <1>1, <1>3, <1>4

\* Nothing is behind the head alone.
LEMMA BareReads ==
    /\ Tail(HeadMark) = <<>> /\ HeadMark # <<>> /\ HeadMark[1] = Mark("head")
    /\ Mark("head").k = "head" /\ Mark("status").k # "head" /\ After(Start, Tail(HeadMark)) = Start
<1>1. /\ Tail(HeadMark) = <<>> /\ HeadMark # <<>> /\ HeadMark[1] = Mark("head")
      /\ Mark("head").k = "head" /\ Mark("status").k # "head"
  BY DEF HeadMark, Mark
<1> QED BY <1>1, AfterNone, Zenon

\* With a body to read, the client at its end has all of it.
LEMMA StandIsFine ==
    ASSUME NEW b \in Seq(Nat), NEW rest \in Seq(Nat), NEW s, NEW w, NEW len \in Nat,
           written \in Nat,
           s = Written \/ (s = Ended /\ Coded),
           s = b \o rest,
           After(Start, Tail(w)).body = b,
           After(Start, Tail(w)).at # "bad",
           After(Start, Tail(w)).at = "end" =>
              \/ rest = <<>> /\ (Coded => s = Ended)
              \/ res.has_length /\ ~Coded /\ Len(b) = res.content_length
    PROVE  Fine(w)
<1> DEFINE c == After(Start, Tail(w))
<1> HIDE DEF c
<1>1. c.body = b /\ c.at # "bad"
  BY DEF c
<1>2. ASSUME c.at = "end"
      PROVE  \/ c.body = IF Coded THEN Append(Written, Trailer) ELSE Written
             \/ res.has_length /\ ~Coded /\ c.body = SubSeq(Written, 1, res.content_length)
  <2>1. CASE rest = <<>> /\ (Coded => s = Ended)
    <3>1. s = b
      BY <2>1, Cat, Zenon
    <3> QED BY <1>1, <2>1, <3>1, Zenon DEF Ended
  <2>2. CASE res.has_length /\ ~Coded /\ Len(b) = res.content_length
    <3>1. SubSeq(b \o rest, 1, Len(b)) = b
      BY FrontOf
    <3>2. s = Written
      BY <2>2
    <3> QED BY <1>1, <2>2, <3>1, <3>2, Zenon
  <2> QED BY <1>2, <2>1, <2>2, Zenon DEF c
<1> QED BY <1>1, <1>2, Zenon DEF Fine, FineFor, c

LEMMA StandFields ==
    ASSUME NEW b
    PROVE  /\ Stand(b).body = b /\ Stand(b).at # "bad"
           /\ head.framing = "length" => (Stand(b).at = "end" <=> Len(b) = head.len)
           /\ head.framing = "chunked" => (Stand(b).at = "end" <=> Done)
           /\ head.framing \notin {"length", "chunked"} => Stand(b).at # "end"
<1>1. CASE head.framing = "length"
  <2>1. Stand(b) = [at |-> IF Len(b) = head.len THEN "end" ELSE "length",
                    left |-> head.len - Len(b), body |-> b]
    BY <1>1, Zenon DEF Stand, LenState
  <2> QED BY <1>1, <2>1
<1>2. CASE head.framing = "chunked"
  <2>1. Stand(b) = [at |-> IF Done THEN "end" ELSE "size", left |-> 0, body |-> b]
    BY <1>2 DEF Stand, ChunkState
  <2> QED BY <1>2, <2>1
<1>3. CASE head.framing \notin {"length", "chunked"}
  <2>1. Stand(b) = [at |-> "until_close", left |-> 0, body |-> b]
    BY <1>3 DEF Stand, CloseState
  <2> QED BY <1>3, <2>1
<1> QED BY <1>1, <1>2, <1>3

\* The parts are sequences of numbers.
LEMMA PartsAre ==
    ASSUME Types
    PROVE  /\ cw \in Seq(Nat) /\ pend \in Seq(Nat) /\ pw \in Seq(Nat) /\ fl.extra \in Seq(Nat)
           /\ call.data \in Seq(Nat) /\ fl.head \in Seq(Units) /\ wire \in Seq(Units)
           /\ Gone \in Seq(Units) /\ written \in Nat /\ (fl.head = <<>> => Gone = wire)
           /\ (wire = <<>> => Gone = fl.head)
<1>1. /\ cw \in Seq(Nat) /\ pend \in Seq(Nat) /\ pw \in Seq(Nat) /\ fl.extra \in Seq(Nat)
      /\ call.data \in Seq(Nat) /\ wire \in Seq(Units) /\ written \in Nat
      /\ fl.head \in {<<>>, HeadMark}
  BY DEF Types
<1>2. <<>> \in Seq(Units) /\ HeadMark \in Seq(Units)
  BY UnitsAre
<1>3. fl.head \in Seq(Units)
  BY <1>1, <1>2, Zenon
<1>4. Gone \in Seq(Units)
  BY <1>1, <1>3, ConcatProperties DEF Gone
<1>5. fl.head = <<>> => Gone = wire
  BY <1>1, ConcatEmptySeq DEF Gone
<1>6. wire = <<>> => Gone = fl.head
  BY <1>3, ConcatEmptySeq DEF Gone
<1> QED BY <1>1, <1>3, <1>4, <1>5, <1>6

\* At every moment, and if the head that waits goes out alone.
LEMMA LiveIsFine ==
    ASSUME Types, LiveInv
    PROVE  Fine(wire) /\ Fine(Gone)
<1>0. Calling /\ Staged /\ Heading /\ (~NoBody => Measured /\ ReadOn /\ Flow) /\ (NoBody => Bare)
  BY DEF LiveInv
<1>1. CASE ~res.head_sent
  <2>1. wire = <<>> /\ fl.head = <<>>
    BY <1>0, <1>1 DEF Heading
  <2>2. Gone = <<>>
    BY <2>1, PartsAre
  <2> QED BY <2>1, <2>2, Zenon DEF Fine, FineFor
<1>2. CASE res.head_sent
  <2>1. Fine(Gone)
    <3>1. CASE NoBody
      <4>1. Start.at = "end"
        BY <3>1 DEF Start, Reading
      <4>2. CASE Terminated
        BY <3>1, <4>2, Zenon DEF Fine, FineFor
      <4>3. CASE ~Terminated
        <5>1. Gone = HeadMark
          BY <1>0, <1>2, <3>1, <4>3 DEF Bare
        <5>2. After(Start, Tail(Gone)) = Start
          BY <5>1, BareReads, Zenon
        <5>3. Start.at # "bad"
          BY <4>1
        <5> QED BY <3>1, <5>2, <5>3, Zenon DEF Fine, FineFor
      <4> QED BY <4>2, <4>3
    <3>2. CASE ~NoBody
      <4> DEFINE b == Got
                 rest == cw \o (pend \o (pw \o (fl.extra \o call.data)))
      <4>0. Measured /\ ReadOn /\ Flow
        BY <1>0, <3>2
      <4>1. b \in Seq(Nat) /\ Len(b) = res.body_sent /\ Cl = Stand(b)
        BY <1>2, <4>0 DEF ReadOn
      <4>2. rest \in Seq(Nat) /\ Stream = b \o rest
            /\ (cw = <<>> /\ pend = <<>> /\ pw = <<>> /\ fl.extra = <<>> /\ call.data = <<>>
                  => rest = <<>>)
        <5> HIDE DEF b
        <5>1. rest \in Seq(Nat)
          BY <4>1, PartsAre, JoinIs
        <5>2. Stream = b \o rest
          BY Zenon DEF Stream, Join, b
        <5>3. cw = <<>> /\ pend = <<>> /\ pw = <<>> /\ fl.extra = <<>> /\ call.data = <<>>
                  => rest = <<>>
          <6>1. <<>> \o <<>> = <<>>
            BY Cat
          <6> QED BY <6>1, Zenon
        <5> QED BY <5>1, <5>2, <5>3
      <4> HIDE DEF b, rest
      <4>3. Coded <=> st.filter
        BY <3>2, <1>0 DEF Coded, Types
      <4>4. Stream = Written \/ (Stream = Ended /\ Coded)
        BY <4>0, <4>3 DEF Flow
      <4>5. written \in Nat
        BY DEF Types
      <4>6. After(Start, Tail(Gone)).body = b /\ After(Start, Tail(Gone)).at # "bad"
        BY <4>1, StandFields, Zenon DEF Cl
      <4>7. ASSUME After(Start, Tail(Gone)).at = "end"
            PROVE  \/ rest = <<>> /\ (Coded => Stream = Ended)
                   \/ res.has_length /\ ~Coded /\ Len(b) = res.content_length
        <5>1. Stand(b).at = "end"
          BY <4>1, <4>7, Zenon DEF Cl
        <5>2. CASE head.framing = "length" /\ res.has_length /\ ~st.filter
          <6>1. Len(b) = head.len /\ head.len = res.content_length
            BY <1>0, <1>2, <3>2, <5>1, <5>2, StandFields DEF Heading
          <6> QED BY <4>3, <5>2, <6>1
        <5>3. CASE Done
          <6>1. cw = <<>> /\ pend = <<>> /\ pw = <<>> /\ (st.filter => Stream = Ended)
            BY <4>0, <5>3 DEF Flow
          <6>2. fl.extra = <<>> /\ call.data = <<>>
            BY <1>0, <5>3 DEF Calling, Done
          <6> QED BY <4>2, <4>3, <6>1, <6>2
        <5>4. CASE head.framing = "length" /\ (~res.has_length \/ st.filter) /\ ~Done
          <6>1. /\ fl.at = "send" /\ Final /\ res.body_sent = 0
                /\ head.len = Len(IF fl.coding THEN cw ELSE pw)
            BY <1>2, <4>0, <5>4 DEF Measured
          <6>2. call.op = "finish"
            BY <1>0, <6>1 DEF Calling
          <6>3. fl.extra = <<>> /\ call.data = <<>>
            BY <1>0, <6>2 DEF Calling
          <6>4. /\ pend = <<>> /\ (st.filter => pw = <<>> /\ Stream = Ended)
                /\ (~st.filter => cw = <<>>)
            BY <4>0, <6>1 DEF Flow
          <6>5. fl.coding = (st.filter /\ ~req.head_only) /\ ~req.head_only
            BY <1>0, <6>1 DEF Staged, NoBody
          <6>6. Len(b) = 0 /\ head.len = 0
            BY <4>1, <5>1, <5>4, <6>1, StandFields
          <6>7. cw = <<>> /\ pw = <<>>
            <7>1. cw \in Seq(Nat) /\ pw \in Seq(Nat) /\ st.filter \in BOOLEAN
              BY DEF Types
            <7>2. CASE st.filter
              <8>1. Len(cw) = 0
                BY <6>1, <6>5, <6>6, <7>2
              <8> QED BY <6>4, <7>1, <7>2, <8>1
            <7>3. CASE ~st.filter
              <8>1. Len(pw) = 0
                BY <6>1, <6>5, <6>6, <7>3
              <8> QED BY <6>4, <7>1, <7>3, <8>1
            <7> QED BY <7>2, <7>3
          <6> QED BY <4>2, <4>3, <6>3, <6>4, <6>7
        <5>5. CASE head.framing # "length" /\ ~Done
          BY <5>1, <5>5, StandFields
        <5> QED BY <5>2, <5>3, <5>4, <5>5
      <4> QED BY <4>1, <4>2, <4>4, <4>5, <4>6, <4>7, StandIsFine
    <3> QED BY <3>1, <3>2
  <2>2. CASE fl.head = <<>>
    <3>1. Gone = wire
      BY <2>2, PartsAre
    <3> QED BY <2>1, <3>1, Zenon
  <2>3. CASE fl.head # <<>>
    <3>1. wire = <<>>
      BY <1>0, <1>2, <2>3 DEF Heading
    <3> QED BY <2>1, <3>1, Zenon DEF Fine, FineFor
  <2> QED BY <2>2, <2>3
<1> QED BY <1>1, <1>2 DEF Types

-----------------------------------------------------------------------------
(* Steps of a kind.                                                        *)

LEMMA SameStart ==
    ASSUME req' = req, res'.status = res.status, head' = head
    PROVE  Start' = Start /\ NoBody' = NoBody
<1>1. NoBody' = NoBody
  BY DEF NoBody
<1> QED BY <1>1 DEF Start

\* The units are as fine as before.
LEMMA SameFine ==
    ASSUME req' = req, head' = head, written' = written, st'.filter = st.filter,
           res'.status = res.status, res'.chunked = res.chunked,
           res'.has_length = res.has_length, res'.content_length = res.content_length,
           \/ Fine(wire) /\ wire' = wire
           \/ Fine(Gone) /\ wire' = Gone
           \/ wire' = <<Mark("status")>>
    PROVE  Fine(wire)'
<1>1. Start' = Start /\ NoBody' = NoBody
  BY SameStart
<1>2. Terminated' = Terminated /\ Coded' = Coded /\ Written' = Written
  BY <1>1, Zenon DEF Terminated, Coded, Written
<1>3. Fine(wire)' = FineFor(wire', Start, Terminated, NoBody, Coded, Written,
                            res.has_length, res.content_length)
  BY <1>1, <1>2, Zenon DEF Fine
<1>4. CASE wire' = <<Mark("status")>>
  <2>1. wire'[1].k # "head"
    BY <1>4, BareReads
  <2> QED BY <1>3, <2>1, Zenon DEF FineFor
<1>5. CASE Fine(wire) /\ wire' = wire
  BY <1>3, <1>5, Zenon DEF Fine
<1>6. CASE Fine(Gone) /\ wire' = Gone
  BY <1>3, <1>6, Zenon DEF Fine
<1> QED BY <1>4, <1>5, <1>6

\* A reply fails: nothing, the head or a bare status line went out last.
Fails ==
    /\ res' = [res EXCEPT !.failed = TRUE]
    /\ over' \in {"open", "closed"}
    /\ call' \in {call, NoCall} /\ call'.op = "none"
    /\ fl' \in {fl, NoFlush} /\ fl'.at = "none"
    /\ wire' = wire \/ wire' = Gone \/ wire' = <<Mark("status")>>
    /\ pw' \in {pw, <<>>} /\ cw' \in {cw, <<>>}
    /\ UNCHANGED <<req, st, pend, head, written>>

LEMMA FailStep ==
    ASSUME Types, Bounded, LiveInv, Fails
    PROVE  IInv'
<1>1. res'.failed /\ ~Live'
  BY DEF Fails, Types, Live
<1>2. /\ res'.status = res.status /\ res'.chunked = res.chunked
      /\ res'.has_length = res.has_length /\ res'.content_length = res.content_length
      /\ res'.head_sent = res.head_sent /\ res'.body_sent = res.body_sent
  BY DEF Fails, Types
<1>3. Types'
  <2>1. NoCall \in [op : {"none", "raw", "write", "reserve", "flush", "finish"}, data : Seq(Nat)]
    BY DEF NoCall
  <2>2. NoFlush \in [at : Stages, kind : {"none", "full", "asked", "final"}, extra : Seq(Nat),
                     head : {<<>>, HeadMark}, coding : BOOLEAN, whole : BOOLEAN]
    BY DEF NoFlush, Stages
  <2>3. wire' \in Seq(Units)
    <3>1. <<Mark("status")>> \in Seq(Units)
      BY UnitsAre
    <3> QED BY <3>1, PartsAre DEF Fails
  <2>4. call' \in [op : {"none", "raw", "write", "reserve", "flush", "finish"}, data : Seq(Nat)]
    BY <2>1, Zenon DEF Fails, Types
  <2>5. fl' \in [at : Stages, kind : {"none", "full", "asked", "final"}, extra : Seq(Nat),
                 head : {<<>>, HeadMark}, coding : BOOLEAN, whole : BOOLEAN]
    BY <2>2, Zenon DEF Fails, Types
  <2>6. pw' \in Seq(Nat) /\ cw' \in Seq(Nat) /\ pend' \in Seq(Nat)
    BY Cat, Zenon DEF Fails, Types
  <2>7. res' \in [status : {"ok", "none", "304"}, has_length : BOOLEAN, content_length : Nat,
                  head_sent : BOOLEAN, chunked : BOOLEAN, failed : BOOLEAN,
                  close : BOOLEAN, body_sent : Nat]
    BY DEF Fails, Types
  <2>8. over' \in {"open", "keep", "closed"} /\ UNCHANGED <<req, st, head, written>>
    BY DEF Fails
  <2> QED BY <2>3, <2>4, <2>5, <2>6, <2>7, <2>8 DEF Types
<1>4. Bounded'
  <2>1. Len(<<>>) = 0 /\ SlabCap \in Nat /\ CodedCap \in Nat /\ 0 <= SlabCap /\ 0 <= CodedCap
    BY ReplyAssumption DEF CodedCap
  <2>2. Len(pw') <= SlabCap /\ Len(cw') <= CodedCap
    BY <2>1 DEF Fails, Bounded
  <2> QED BY <1>2, <2>2 DEF Bounded
<1>5. Fine(wire)'
  <2>1. Fine(wire) /\ Fine(Gone)
    BY LiveIsFine
  <2>2. req' = req /\ head' = head /\ written' = written /\ st'.filter = st.filter
    BY DEF Fails
  <2>3. \/ Fine(wire) /\ wire' = wire
        \/ Fine(Gone) /\ wire' = Gone
        \/ wire' = <<Mark("status")>>
    BY <2>1 DEF Fails
  <2> QED BY <1>2, <2>2, <2>3, SameFine
<1>6. over' # "keep" /\ KeptIsComplete'
  BY <1>1 DEF Fails, KeptIsComplete
<1>7. Settled'
  BY <1>5, <1>6 DEF Settled, Fails
<1> QED BY <1>1, <1>3, <1>4, <1>7 DEF IInv

\* A step that sends and decides nothing.
Quiet ==
    /\ UNCHANGED <<req, wire, head, over>>
    /\ fl'.head = fl.head /\ fl.at # "send" /\ ~Done /\ ~Done'
    /\ res'.status = res.status /\ res'.head_sent = res.head_sent /\ res'.chunked = res.chunked
    /\ res'.failed = res.failed /\ res'.close = res.close /\ res'.body_sent = res.body_sent
    /\ st'.no_body = st.no_body
    /\ res.head_sent => /\ res'.has_length = res.has_length
                        /\ res'.content_length = res.content_length
                        /\ st'.filter = st.filter

LEMMA QuietStep ==
    ASSUME Types, Bounded, LiveInv, Live, Quiet
    PROVE  /\ Live' /\ Heading' /\ NoBody' = NoBody
           /\ (~NoBody => Measured' /\ ReadOn' /\ Got' = Got) /\ (NoBody => Bare')
           /\ (res'.has_length /\ res'.head_sent => res'.body_sent <= res'.content_length)
<1>0. Heading /\ (~NoBody => Measured /\ ReadOn) /\ (NoBody => Bare)
  BY DEF LiveInv
<1>1. Live'
  BY DEF Live, Quiet
<1>2. Start' = Start /\ NoBody' = NoBody
  BY SameStart DEF Quiet
<1>3. Gone' = Gone /\ wire' = wire
  BY Zenon DEF Gone, Quiet
<1>4. Heading'
  <2>1. CASE ~res.head_sent
    BY <1>0, <2>1 DEF Heading, Quiet
  <2>2. CASE res.head_sent
    BY <1>0, <1>2, <1>3, <2>2 DEF Heading, Quiet
  <2> QED BY <2>1, <2>2
<1>5. ASSUME ~NoBody PROVE Measured' /\ ReadOn' /\ Got' = Got
  <2>1. Cl' = Cl
    BY <1>2, <1>3, Zenon DEF Cl
  <2>2. Got' = Got
    BY <2>1, Zenon DEF Got, Quiet
  <2>3. Done' = Done
    BY DEF Quiet, Done
  <2>5. ReadOn'
    <3>1. Stand(Got)' = Stand(Got)
      BY <2>2, <2>3, Zenon DEF Stand, Quiet
    <3> QED BY <1>0, <1>5, <2>1, <2>2, <3>1 DEF ReadOn, Quiet
  <2>6. Measured'
    BY <1>0, <1>5 DEF Measured, Quiet
  <2> QED BY <2>2, <2>5, <2>6
<1>6. ASSUME NoBody PROVE Bare'
  <2>1. Terminated' = Terminated
    BY Zenon DEF Terminated, Quiet
  <2> QED BY <1>0, <1>3, <1>6, <2>1 DEF Bare, Quiet
<1>7. res'.has_length /\ res'.head_sent => res'.body_sent <= res'.content_length
  BY DEF Bounded, Quiet
<1> QED BY <1>1, <1>2, <1>4, <1>5, <1>6, <1>7

-----------------------------------------------------------------------------
(* The handler's calls.                                                    *)

CallType  == [op : {"none", "raw", "write", "reserve", "flush", "finish"}, data : Seq(Nat)]
FlushType == [at : Stages, kind : {"none", "full", "asked", "final"}, extra : Seq(Nat),
              head : {<<>>, HeadMark}, coding : BOOLEAN, whole : BOOLEAN]

LEMMA QuietLive ==
    ASSUME Types, Bounded, LiveInv, Live, Quiet, Types', Calling', Staged',
           ~NoBody /\ Flow /\ Got' = Got => Flow', Len(pw') <= SlabCap, Len(cw') <= CodedCap
    PROVE  IInv'
<1>1. /\ Live' /\ Heading' /\ NoBody' = NoBody
      /\ (~NoBody => Measured' /\ ReadOn' /\ Got' = Got) /\ (NoBody => Bare')
      /\ (res'.has_length /\ res'.head_sent => res'.body_sent <= res'.content_length)
  BY QuietStep
<1>2. ~NoBody => Flow'
  BY <1>1 DEF LiveInv
<1>3. LiveInv'
  BY <1>1, <1>2 DEF LiveInv
<1>4. Bounded'
  BY <1>1 DEF Bounded
<1> QED BY <1>1, <1>3, <1>4 DEF IInv

\* Nothing is in progress.
LEMMA AtRest ==
    ASSUME Types, LiveInv, call.op = "none" \/ fl.at = "none"
    PROVE  /\ fl.at = "none" /\ fl.extra = <<>> /\ fl.head = <<>>
           /\ (call.op \notin {"write", "reserve"} => call.data = <<>>)
           /\ (~NoBody /\ call.op # "finish" => Stream = Written)
<1>1. Calling /\ (~NoBody => Flow)
  BY DEF LiveInv
<1> QED BY <1>1 DEF Calling, Flow

LEMMA SameStream ==
    ASSUME Got' = Got, cw' = cw, pend' = pend, pw' = pw, fl'.extra = fl.extra,
           call'.data = call.data, written' = written
    PROVE  Stream' = Stream /\ Written' = Written /\ Ended' = Ended
<1>1. Written' = Written
  BY Zenon DEF Written
<1>2. Stream' = Stream
  BY Zenon DEF Stream
<1>3. Ended' = Ended
  BY <1>1, Zenon DEF Ended
<1> QED BY <1>1, <1>2, <1>3

\* A flush that begins.
Begun(f, how, extra) ==
    /\ f \in FlushType /\ f.at = "begin" /\ f.kind = how /\ f.extra = extra
    /\ f.head = <<>>

LEMMA FlushOfIs ==
    ASSUME NEW how \in {"full", "asked", "final"}, NEW extra \in Seq(Nat)
    PROVE  Begun(FlushOf(how, extra), how, extra)
BY DEF FlushOf, NoFlush, FlushType, Stages, Begun

LEMMA ContentLengthStep ==
    ASSUME Types, Bounded, LiveInv, Live, ContentLength
    PROVE  IInv'
<1>0. Calling /\ Staged
  BY DEF LiveInv
<1>1. PICK n \in Lengths : res' = [res EXCEPT !.content_length = n, !.has_length = TRUE]
  BY DEF ContentLength
<1>2. UNCHANGED <<req, st, pw, cw, pend, call, fl, wire, head, written, over>>
      /\ call.op = "none" /\ ~res.head_sent /\ n \in Nat
  BY ReplyAssumption DEF ContentLength, Handler, Idle
<1>3. fl.at = "none" /\ fl.extra = <<>>
  BY <1>2, AtRest
<1>4. /\ res'.status = res.status /\ res'.head_sent = res.head_sent
      /\ res'.chunked = res.chunked /\ res'.failed = res.failed /\ res'.close = res.close
      /\ res'.body_sent = res.body_sent
  BY <1>1 DEF Types
<1>5. Quiet
  BY <1>2, <1>3, <1>4 DEF Quiet, Done
<1>6. Types'
  <2>1. res' \in [status : {"ok", "none", "304"}, has_length : BOOLEAN, content_length : Nat,
                  head_sent : BOOLEAN, chunked : BOOLEAN, failed : BOOLEAN,
                  close : BOOLEAN, body_sent : Nat]
    BY <1>1, <1>2 DEF Types
  <2> QED BY <1>2, <2>1 DEF Types
<1>7. Calling'
  BY <1>0, <1>2, <1>3 DEF Calling, Done, Final
<1>8. Staged'
  BY <1>2, <1>3 DEF Staged
<1>9. ASSUME ~NoBody, Flow, Got' = Got PROVE Flow'
  <2>1. Stream' = Stream /\ Written' = Written /\ Ended' = Ended
    BY <1>2, <1>9, SameStream
  <2> QED BY <1>2, <1>3, <1>4, <1>9, <2>1 DEF Flow, Done
<1>10. Len(pw') <= SlabCap /\ Len(cw') <= CodedCap
  BY <1>2 DEF Bounded
<1> QED BY <1>5, <1>6, <1>7, <1>8, <1>9, <1>10, QuietLive

LEMMA ReplyFilterStep ==
    ASSUME Types, Bounded, LiveInv, Live, ReplyFilter
    PROVE  IInv'
<1>0. Calling /\ Staged
  BY DEF LiveInv
<1>1. st' = [st EXCEPT !.filter = TRUE]
      /\ UNCHANGED <<req, res, pw, cw, pend, call, fl, wire, head, written, over>>
      /\ call.op = "none" /\ ~res.head_sent
  BY DEF ReplyFilter, Handler, Idle
<1>2. st' \in [on_head : BOOLEAN, filter : BOOLEAN, no_body : BOOLEAN] /\ st'.filter
      /\ st'.no_body = st.no_body
  BY <1>1 DEF Types
<1>3. fl.at = "none" /\ fl.extra = <<>> /\ (~NoBody => Stream = Written)
  BY <1>1, AtRest
<1>5. Quiet
  BY <1>1, <1>2, <1>3 DEF Quiet, Done
<1>6. Types'
  BY <1>1, <1>2 DEF Types
<1>7. Calling'
  BY <1>0, <1>1, <1>3 DEF Calling, Done, Final
<1>8. Staged'
  BY <1>1, <1>3 DEF Staged
<1>9. ASSUME ~NoBody, Flow, Got' = Got PROVE Flow'
  <2>1. Stream' = Stream /\ Written' = Written /\ Ended' = Ended
    BY <1>1, <1>9, SameStream
  <2>2. Written # Ended
    BY WrittenNotEnded DEF Types
  <2> QED BY <1>1, <1>2, <1>3, <1>9, <2>1, <2>2 DEF Flow, Done
<1>10. Len(pw') <= SlabCap /\ Len(cw') <= CodedCap
  BY <1>1 DEF Bounded
<1> QED BY <1>5, <1>6, <1>7, <1>8, <1>9, <1>10, QuietLive

\* A call writes n more units: they are behind all others.
LEMMA MoreStream ==
    ASSUME Types, NEW n \in Nat, written' = written + n, Stream = Written,
           Got \in Seq(Nat), Got' = Got, cw' = cw, pend' = pend,
           fl.extra = <<>>, call.data = <<>>,
           \/ pw' = pw /\ fl'.extra = <<>> /\ call'.data = New(n)
           \/ pw' = pw /\ fl'.extra = New(n) /\ call'.data = <<>>
           \/ pw' = pw \o New(n) /\ fl'.extra = <<>> /\ call'.data = <<>>
    PROVE  Stream' = Written' /\ Written' # Ended'
<1> DEFINE z == New(n)
           b == Got
<1>1. written \in Nat /\ written' \in Nat /\ pw \in Seq(Nat) /\ cw \in Seq(Nat) /\ pend \in Seq(Nat)
  BY DEF Types
<1>2. z \in Seq(Nat) /\ Written' = Written \o z
  <2>1. Count(written + n) = Count(written) \o More(written, n) /\ More(written, n) \in Seq(Nat)
    BY <1>1, CountIs
  <2>2. Written' = Count(written')
    BY Zenon DEF Written, Count
  <2> QED BY <2>1, <2>2, WrittenIs, Zenon
<1>3. Stream = Join(b, cw, pend, pw, <<>>, <<>>)
  BY Zenon DEF Stream
<1> HIDE DEF z, b
<1>4. b \in Seq(Nat)
  BY DEF b
<1>5. /\ Join(b, cw, pend, pw, <<>>, z) = Written \o z
      /\ Join(b, cw, pend, pw, z, <<>>) = Written \o z
  <2>1. JoinsMore(b, cw, pend, pw, z)
    BY <1>1, <1>2, <1>4, JoinMore, Zenon
  <2> QED BY <1>3, <2>1, Zenon DEF JoinsMore
<1>6. Join(b, cw, pend, pw \o z, <<>>, <<>>) = Written \o z
  <2>1. <<>> \in Seq(Nat) /\ z \o <<>> = z
    BY <1>2, Cat
  <2>2. JoinsSlab(b, cw, pend, pw, z, <<>>)
    BY <1>1, <1>2, <1>4, <2>1, JoinSlab, Zenon
  <2> QED BY <1>5, <2>1, <2>2, Zenon DEF JoinsSlab
<1>7. Stream' = Join(b, cw, pend, pw', fl'.extra, call'.data)
  BY Zenon DEF Stream, b
<1>8. Stream' = Written'
  <2>1. CASE pw' = pw /\ fl'.extra = <<>> /\ call'.data = z
    BY <1>2, <1>5, <1>7, <2>1, Zenon
  <2>2. CASE pw' = pw /\ fl'.extra = z /\ call'.data = <<>>
    BY <1>2, <1>5, <1>7, <2>2, Zenon
  <2>3. CASE pw' = pw \o z /\ fl'.extra = <<>> /\ call'.data = <<>>
    BY <1>2, <1>6, <1>7, <2>3, Zenon
  <2> QED BY <2>1, <2>2, <2>3 DEF z
<1>9. Written' # Ended'
  <2>1. Written' = Count(written') /\ Ended' = Append(Written', Trailer) /\ Trailer \in Nat
    BY Zenon DEF Written, Count, Ended, Trailer
  <2>2. Count(written') \in Seq(Nat)
    BY <1>1, CountIs
  <2>3. Len(Append(Written', Trailer)) = Len(Written') + 1 /\ Len(Written') \in Nat
    BY <2>1, <2>2, AppendIsCat
  <2> QED BY <2>1, <2>3
<1> QED BY <1>8, <1>9

LEMMA NewIs ==
    ASSUME written \in Nat, NEW n \in Nat
    PROVE  New(n) \in Seq(Nat) /\ Len(New(n)) = n
BY CountIs, WrittenIs

LEMMA WriteStep ==
    ASSUME Types, Bounded, LiveInv, Live, Write
    PROVE  IInv'
<1>0. Calling /\ Staged /\ (~NoBody => ReadOn)
  BY DEF LiveInv
<1>1. /\ call.op = "none" /\ UNCHANGED <<req, pw, res, st, cw, pend, wire, head, over>>
      /\ written \in Nat /\ MaxBody \in Nat
  BY ReplyAssumption DEF Write, Handler, Idle, sentVars, Types
<1>2. /\ fl.at = "none" /\ fl.extra = <<>> /\ fl.head = <<>> /\ call.data = <<>>
      /\ (~NoBody => Stream = Written)
  BY <1>1, AtRest
<1>3. PICK n \in 1..(MaxBody - written) :
         /\ written' = written + n
         /\ \/ /\ RawFramed
               /\ fl' = FlushOf("full", New(n)) /\ call' = [op |-> "raw", data |-> <<>>]
            \/ call' = [op |-> "write", data |-> New(n)] /\ fl' = fl
  BY DEF Write
<1>4. n \in Nat /\ written' \in Nat
  BY <1>1, <1>3
<1>5. New(n) \in Seq(Nat)
  BY <1>1, <1>4, NewIs
<1>6. /\ Len(pw') <= SlabCap /\ Len(cw') <= CodedCap
  BY <1>1 DEF Bounded
<1>7. ASSUME RawFramed, fl' = FlushOf("full", New(n)), call' = [op |-> "raw", data |-> <<>>]
      PROVE  IInv'
  <2>1. /\ fl' \in FlushType /\ fl'.at = "begin" /\ fl'.kind = "full" /\ fl'.extra = New(n)
        /\ fl'.head = <<>>
    <3>1. Begun(fl', "full", New(n))
      BY <1>5, <1>7, FlushOfIs, Zenon
    <3> QED BY <3>1 DEF Begun
  <2>2. call' \in CallType /\ call'.op = "raw" /\ call'.data = <<>>
    BY <1>7 DEF CallType
  <2>3. Types'
    BY <1>1, <1>4, <2>1, <2>2 DEF Types, FlushType, CallType
  <2>4. Quiet
    BY <1>1, <1>2, <2>1, <2>2 DEF Quiet, Done
  <2>5. Calling'
    BY <1>1, <1>7, <2>1, <2>2 DEF Calling, Done, Final, RawFramed
  <2>6. Staged'
    BY <2>1 DEF Staged
  <2>7. ASSUME ~NoBody, Flow, Got' = Got PROVE Flow'
    <3>1. Stream' = Written' /\ Written' # Ended'
      BY <1>0, <1>1, <1>2, <1>3, <1>4, <2>1, <2>2, <2>7, MoreStream DEF ReadOn
    <3> QED BY <1>1, <1>2, <2>1, <2>2, <2>7, <3>1 DEF Flow, Done
  <2> QED BY <1>6, <2>3, <2>4, <2>5, <2>6, <2>7, QuietLive
<1>8. ASSUME call' = [op |-> "write", data |-> New(n)], fl' = fl
      PROVE  IInv'
  <2>2. call' \in CallType /\ call'.op = "write" /\ call'.data = New(n)
    BY <1>5, <1>8 DEF CallType
  <2>3. Types'
    BY <1>1, <1>4, <1>8, <2>2 DEF Types, CallType
  <2>4. Quiet
    BY <1>1, <1>2, <1>8, <2>2 DEF Quiet, Done
  <2>5. Calling'
    BY <1>0, <1>2, <1>8, <2>2 DEF Calling, Done, Final
  <2>6. Staged'
    BY <1>2, <1>8 DEF Staged
  <2>7. ASSUME ~NoBody, Flow, Got' = Got PROVE Flow'
    <3>1. Stream' = Written' /\ Written' # Ended'
      BY <1>0, <1>1, <1>2, <1>3, <1>4, <1>8, <2>2, <2>7, MoreStream DEF ReadOn
    <3> QED BY <1>1, <1>2, <1>8, <2>2, <2>7, <3>1 DEF Flow, Done
  <2> QED BY <1>6, <2>3, <2>4, <2>5, <2>6, <2>7, QuietLive
<1> QED BY <1>3, <1>7, <1>8

\* A call goes on without a flush: units of it may go into the slab.
LEMMA SlabStream ==
    ASSUME Types, written' = written, Got \in Seq(Nat), Got' = Got, cw' = cw, pend' = pend,
           fl.extra = <<>>, fl'.extra = <<>>,
           NEW p \in Seq(Nat), NEW q \in Seq(Nat), call.data = p \o q,
           pw' = pw \o p, call'.data = q
    PROVE  Stream' = Stream /\ Written' = Written /\ Ended' = Ended
<1>1. Written' = Written
  BY Zenon DEF Written
<1>2. Ended' = Ended
  BY <1>1, Zenon DEF Ended
<1>3. Stream = Join(Got, cw, pend, pw, <<>>, p \o q)
  BY Zenon DEF Stream
<1>4. Stream' = Join(Got, cw, pend, pw \o p, <<>>, q)
  BY Zenon DEF Stream
<1>5. JoinsSlab(Got, cw, pend, pw, p, q)
  BY JoinSlab, Zenon DEF Types
<1> QED BY <1>1, <1>2, <1>3, <1>4, <1>5, Zenon DEF JoinsSlab

LEMMA WriteLoopStep ==
    ASSUME Types, Bounded, LiveInv, Live, WriteLoop
    PROVE  IInv'
<1>0. Calling /\ Staged /\ (~NoBody => ReadOn)
  BY DEF LiveInv
<1>1. /\ call.op = "write" /\ UNCHANGED <<req, res, st, cw, pend, wire, head, over, written>>
      /\ fl.at = "none"
  BY DEF WriteLoop, sentVars
<1>2. /\ fl.extra = <<>> /\ fl.head = <<>> /\ (~NoBody => Stream = Written)
  BY <1>1, AtRest
<1>3. /\ written \in Nat /\ pw \in Seq(Nat) /\ Len(pw) \in Nat /\ call.data \in Seq(Nat)
      /\ Len(call.data) \in Nat /\ SlabCap \in Nat /\ Room \in Nat /\ Len(pw) + Room = SlabCap
  BY ReplyAssumption DEF Types, Bounded, Room
<1>4. Len(cw') <= CodedCap
  BY <1>1 DEF Bounded
<1>5. ASSUME fl' = FlushOf("full", <<>>), pw' = pw, call' = call
      PROVE  IInv'
  <2>1. /\ fl' \in FlushType /\ fl'.at = "begin" /\ fl'.kind = "full" /\ fl'.extra = <<>>
        /\ fl'.head = <<>>
    <3>1. Begun(fl', "full", <<>>)
      BY <1>5, FlushOfIs, Cat, Zenon
    <3> QED BY <3>1 DEF Begun
  <2>3. Types'
    BY <1>1, <1>5, <2>1 DEF Types, FlushType
  <2>4. Quiet
    BY <1>1, <1>2, <1>5, <2>1 DEF Quiet, Done
  <2>5. Calling'
    BY <1>1, <1>5, <2>1 DEF Calling, Done, Final
  <2>6. Staged'
    BY <2>1 DEF Staged
  <2>7. ASSUME ~NoBody, Flow, Got' = Got PROVE Flow'
    <3>1. Stream' = Stream /\ Written' = Written /\ Ended' = Ended
      BY <1>1, <1>2, <1>5, <2>1, <2>7, SameStream
    <3>2. Written # Ended
      BY <1>3, WrittenNotEnded
    <3> QED BY <1>1, <1>2, <1>5, <2>1, <2>7, <3>1, <3>2 DEF Flow, Done
  <2>8. Len(pw') <= SlabCap
    BY <1>5 DEF Bounded
  <2> QED BY <1>4, <2>3, <2>4, <2>5, <2>6, <2>7, <2>8, QuietLive
<1>6. ASSUME fl' = fl,
             LET n == Min({Room, Len(call.data)}) IN
             /\ pw' = pw \o SubSeq(call.data, 1, n)
             /\ call' = IF n = Len(call.data) THEN NoCall
                        ELSE [call EXCEPT !.data = SubSeq(@, n + 1, Len(@))]
      PROVE  IInv'
  <2>0. fl' = fl
    BY <1>6
  <2> DEFINE n == Min({Room, Len(call.data)})
             p == SubSeq(call.data, 1, n)
             q == SubSeq(call.data, n + 1, Len(call.data))
  <2>1. n \in 0..Len(call.data) /\ n <= Room
    <3>1. Room \in Int /\ Len(call.data) \in Int
      BY <1>3
    <3>2. Smaller(Room, Len(call.data))
      BY <3>1, MinIs, Zenon
    <3>3. n = IF Room <= Len(call.data) THEN Room ELSE Len(call.data)
      BY <3>2, Zenon DEF Smaller
    <3> HIDE DEF n
    <3> QED BY <1>3, <3>3
  <2> HIDE DEF n
  <2>2. p \in Seq(Nat) /\ q \in Seq(Nat) /\ Len(p) = n /\ Len(q) = Len(call.data) - n
        /\ call.data = p \o q
    BY <1>3, <2>1, SplitAt
  <2>3. pw' = pw \o p
    BY <1>6 DEF n
  <2>4. call' \in CallType /\ call'.data = q /\ call'.op \in {"none", "write"}
    <3>1. CASE n = Len(call.data)
      <4>1. call' = NoCall
        BY <1>6, <3>1 DEF n
      <4>2. q = <<>>
        BY <2>2, <3>1, <1>3
      <4> HIDE DEF q
      <4> QED BY <4>1, <4>2 DEF NoCall, CallType
    <3>2. CASE n # Len(call.data)
      <4>1. call' = [call EXCEPT !.data = q]
        BY <1>6, <3>2 DEF n
      <4> HIDE DEF q
      <4> QED BY <1>1, <2>2, <4>1 DEF CallType, Types
    <3> QED BY <3>1, <3>2
  <2>41. call'.op = "none" => q = <<>>
    <3>1. CASE n = Len(call.data)
      BY <2>2, <3>1, <1>3
    <3>2. CASE n # Len(call.data)
      <4>1. call' = [call EXCEPT !.data = q]
        BY <1>6, <3>2 DEF n
      <4> HIDE DEF q
      <4> QED BY <1>1, <4>1 DEF Types
    <3> QED BY <3>1, <3>2
  <2> HIDE DEF p, q
  <2>5. pw' \in Seq(Nat) /\ Len(pw') <= SlabCap
    <3>1. pw' \in Seq(Nat) /\ Len(pw') = Len(pw) + Len(p)
      BY <1>3, <2>2, <2>3, Cat
    <3> QED BY <1>3, <2>1, <2>2, <3>1
  <2>6. Types'
    BY <1>1, <2>0, <2>4, <2>5 DEF Types, CallType
  <2>7. Quiet
    BY <1>1, <2>0, <2>4 DEF Quiet, Done
  <2>8. Calling'
    BY <1>1, <1>2, <2>0, <2>4, <2>41 DEF Calling, Done, Final
  <2>9. Staged'
    BY <1>1, <2>0 DEF Staged
  <2>10. ASSUME ~NoBody, Flow, Got' = Got PROVE Flow'
    <3>1. Stream' = Stream /\ Written' = Written /\ Ended' = Ended
      <4>1. Got \in Seq(Nat) /\ fl'.extra = <<>>
        BY <1>0, <1>2, <2>0, <2>10 DEF ReadOn
      <4> QED BY <1>1, <1>2, <2>2, <2>3, <2>4, <2>10, <4>1, SlabStream
    <3>2. Written # Ended
      BY <1>3, WrittenNotEnded
    <3> QED BY <1>1, <1>2, <2>0, <2>4, <2>10, <3>1, <3>2 DEF Flow, Done
  <2> QED BY <1>4, <2>5, <2>6, <2>7, <2>8, <2>9, <2>10, QuietLive
<1> QED BY <1>5, <1>6 DEF WriteLoop

LEMMA ReserveStep ==
    ASSUME Types, Bounded, LiveInv, Live, Reserve
    PROVE  IInv'
<1>0. Calling /\ Staged /\ (~NoBody => ReadOn)
  BY DEF LiveInv
<1>1. /\ call.op = "none" /\ UNCHANGED <<req, res, st, cw, pend, wire, head, over>>
      /\ written \in Nat /\ MaxBody \in Nat /\ SlabCap \in Nat
      /\ pw \in Seq(Nat) /\ Len(pw) \in Nat
  BY ReplyAssumption DEF Reserve, Handler, Idle, sentVars, Types
<1>2. /\ fl.at = "none" /\ fl.extra = <<>> /\ fl.head = <<>> /\ call.data = <<>>
      /\ (~NoBody => Stream = Written)
  BY <1>1, AtRest
<1>3. PICK n \in 1..Min({SlabCap, MaxBody - written}) :
         /\ written' = written + n
         /\ \/ /\ n <= Room
               /\ pw' = pw \o New(n) /\ call' = call /\ fl' = fl
            \/ /\ call' = [op |-> "reserve", data |-> New(n)]
               /\ fl' = FlushOf("full", <<>>) /\ pw' = pw
  BY DEF Reserve
<1>4. n \in Nat /\ written' \in Nat /\ n <= SlabCap
  <2> DEFINE m == Min({SlabCap, MaxBody - written})
  <2>1. SlabCap \in Int /\ MaxBody - written \in Int
    BY <1>1
  <2>2. Smaller(SlabCap, MaxBody - written)
    BY <2>1, MinIs, Zenon
  <2>3. m = IF SlabCap <= MaxBody - written THEN SlabCap ELSE MaxBody - written
    BY <2>2, Zenon DEF Smaller
  <2>4. n \in 1..m /\ written' = written + n
    BY <1>3
  <2> HIDE DEF m
  <2> QED BY <1>1, <2>3, <2>4
<1>5. New(n) \in Seq(Nat) /\ Len(New(n)) = n
  BY <1>1, <1>4, NewIs
<1>6. Len(cw') <= CodedCap
  BY <1>1 DEF Bounded
<1>7. ASSUME n <= Room, pw' = pw \o New(n), call' = call, fl' = fl
      PROVE  IInv'
  <2>1. pw' \in Seq(Nat) /\ Len(pw') <= SlabCap
    <3>1. pw' \in Seq(Nat) /\ Len(pw') = Len(pw) + n
      <4> DEFINE z == New(n)
      <4>1. z \in Seq(Nat) /\ Len(z) = n /\ pw' = pw \o z
        BY <1>5, <1>7
      <4> HIDE DEF z
      <4>2. pw \o z \in Seq(Nat) /\ Len(pw \o z) = Len(pw) + Len(z)
        BY <1>1, <4>1, Cat
      <4> QED BY <4>1, <4>2, Zenon
    <3> QED BY <1>1, <1>4, <1>7, <3>1 DEF Room
  <2>3. Types'
    BY <1>1, <1>4, <1>7, <2>1 DEF Types
  <2>4. Quiet
    BY <1>1, <1>2, <1>7 DEF Quiet, Done
  <2>5. Calling'
    BY <1>0, <1>1, <1>2, <1>7 DEF Calling, Done, Final
  <2>6. Staged'
    BY <1>2, <1>7 DEF Staged
  <2>7. ASSUME ~NoBody, Flow, Got' = Got PROVE Flow'
    <3>1. Stream' = Written' /\ Written' # Ended'
      BY <1>0, <1>1, <1>2, <1>3, <1>4, <1>7, <2>7, MoreStream DEF ReadOn
    <3> QED BY <1>1, <1>2, <1>7, <2>7, <3>1 DEF Flow, Done
  <2> QED BY <1>6, <2>1, <2>3, <2>4, <2>5, <2>6, <2>7, QuietLive
<1>8. ASSUME call' = [op |-> "reserve", data |-> New(n)],
             fl' = FlushOf("full", <<>>), pw' = pw
      PROVE  IInv'
  <2>1. /\ fl' \in FlushType /\ fl'.at = "begin" /\ fl'.kind = "full" /\ fl'.extra = <<>>
        /\ fl'.head = <<>>
    <3>1. Begun(fl', "full", <<>>)
      BY <1>8, FlushOfIs, Cat, Zenon
    <3> QED BY <3>1 DEF Begun
  <2>2. call' \in CallType /\ call'.op = "reserve" /\ call'.data = New(n)
    BY <1>5, <1>8 DEF CallType
  <2>3. Types'
    BY <1>1, <1>4, <1>8, <2>1, <2>2 DEF Types, CallType, FlushType
  <2>4. Quiet
    BY <1>1, <1>2, <2>1, <2>2 DEF Quiet, Done
  <2>5. Calling'
    BY <1>4, <1>5, <2>1, <2>2 DEF Calling, Done, Final
  <2>6. Staged'
    BY <2>1 DEF Staged
  <2>7. ASSUME ~NoBody, Flow, Got' = Got PROVE Flow'
    <3>1. Stream' = Written' /\ Written' # Ended'
      BY <1>0, <1>1, <1>2, <1>3, <1>4, <1>8, <2>1, <2>2, <2>7, MoreStream DEF ReadOn
    <3> QED BY <1>1, <1>2, <1>8, <2>1, <2>2, <2>7, <3>1 DEF Flow, Done
  <2>8. Len(pw') <= SlabCap
    BY <1>8 DEF Bounded
  <2> QED BY <1>6, <2>3, <2>4, <2>5, <2>6, <2>7, <2>8, QuietLive
<1> QED BY <1>3, <1>7, <1>8

LEMMA AdvanceStep ==
    ASSUME Types, Bounded, LiveInv, Live, Advance
    PROVE  IInv'
<1>0. Calling /\ Staged /\ (~NoBody => ReadOn)
  BY DEF LiveInv
<1>1. /\ call.op = "reserve" /\ UNCHANGED <<req, res, st, cw, pend, wire, head, over, fl, written>>
      /\ fl.at = "none" /\ pw' = pw \o call.data /\ call' = NoCall
      /\ pw \in Seq(Nat) /\ call.data \in Seq(Nat) /\ written \in Nat
  BY DEF Advance, sentVars, Types
<1>2. /\ fl.extra = <<>> /\ fl.head = <<>> /\ (~NoBody => Stream = Written)
  BY <1>1, AtRest
<1>3. call' \in CallType /\ call'.op = "none" /\ call'.data = <<>>
  BY <1>1 DEF NoCall, CallType
<1>4. pw' \in Seq(Nat) /\ Len(pw') <= SlabCap /\ Len(cw') <= CodedCap
  <2>1. pw = <<>> /\ Len(call.data) <= SlabCap
    BY <1>0, <1>1 DEF Calling
  <2>2. <<>> \o call.data = call.data
    BY <1>1, Cat
  <2>3. pw' = call.data
    BY <1>1, <2>1, <2>2, Zenon
  <2>4. Len(cw') <= CodedCap
    BY <1>1 DEF Bounded
  <2> QED BY <1>1, <2>1, <2>3, <2>4
<1>5. Types'
  BY <1>1, <1>3, <1>4 DEF Types, CallType
<1>6. Quiet
  BY <1>1, <1>3 DEF Quiet, Done
<1>7. Calling'
  BY <1>1, <1>2, <1>3 DEF Calling, Done, Final
<1>8. Staged'
  BY <1>1 DEF Staged
<1>9. ASSUME ~NoBody, Flow, Got' = Got PROVE Flow'
  <2>1. Stream' = Stream /\ Written' = Written /\ Ended' = Ended
    <3> DEFINE p == call.data
               q == <<>>
    <3>1. Got \in Seq(Nat) /\ fl'.extra = <<>>
      BY <1>0, <1>1, <1>2, <1>9 DEF ReadOn
    <3>2. p \in Seq(Nat) /\ q \in Seq(Nat) /\ call.data = p \o q /\ pw' = pw \o p
          /\ call'.data = q
      BY <1>1, <1>3, Cat
    <3> HIDE DEF p, q
    <3> QED BY <1>1, <1>2, <1>9, <3>1, <3>2, SlabStream
  <2>2. Written # Ended
    BY <1>1, WrittenNotEnded
  <2> QED BY <1>1, <1>2, <1>3, <1>9, <2>1, <2>2 DEF Flow, Done
<1> QED BY <1>4, <1>5, <1>6, <1>7, <1>8, <1>9, QuietLive

\* A call, or finish, begins a flush of the slab.
LEMMA FlushCall ==
    ASSUME Types, Bounded, LiveInv, Live, call.op = "none",
           NEW op \in {"flush", "finish"}, NEW how \in {"asked", "final"},
           op = "finish" <=> how = "final",
           call' = [op |-> op, data |-> <<>>], fl' = FlushOf(how, <<>>),
           UNCHANGED <<req, pw, written, sentVars>>
    PROVE  IInv'
<1>1. UNCHANGED <<req, pw, res, st, cw, pend, wire, head, over, written>> /\ written \in Nat
  BY DEF sentVars, Types
<1>2. /\ fl.at = "none" /\ fl.extra = <<>> /\ fl.head = <<>> /\ call.data = <<>>
      /\ (~NoBody => Stream = Written)
  BY AtRest
<1>3. /\ fl' \in FlushType /\ fl'.at = "begin" /\ fl'.kind = how /\ fl'.extra = <<>>
      /\ fl'.head = <<>>
  <2>1. Begun(fl', how, <<>>)
    <3>1. how \in {"full", "asked", "final"}
      OBVIOUS
    <3> QED BY <3>1, FlushOfIs, Cat, Zenon
  <2> QED BY <2>1 DEF Begun
<1>4. call' \in CallType /\ call'.op = op /\ call'.data = <<>>
  BY DEF CallType
<1>5. Types'
  BY <1>1, <1>3, <1>4 DEF Types, CallType, FlushType
<1>6. Quiet
  BY <1>1, <1>2, <1>3, <1>4 DEF Quiet, Done
<1>7. Calling'
  BY <1>3, <1>4 DEF Calling, Done, Final
<1>8. Staged'
  BY <1>3 DEF Staged
<1>9. ASSUME ~NoBody, Flow, Got' = Got PROVE Flow'
  <2>1. Stream' = Stream /\ Written' = Written /\ Ended' = Ended
    BY <1>1, <1>2, <1>3, <1>4, <1>9, SameStream
  <2>2. Written # Ended
    BY <1>1, WrittenNotEnded
  <2> QED BY <1>1, <1>2, <1>3, <1>4, <1>9, <2>1, <2>2 DEF Flow, Done
<1>10. Len(pw') <= SlabCap /\ Len(cw') <= CodedCap
  BY <1>1 DEF Bounded
<1> QED BY <1>5, <1>6, <1>7, <1>8, <1>9, <1>10, QuietLive

LEMMA FlushStep ==
    ASSUME Types, Bounded, LiveInv, Live, Flush
    PROVE  IInv'
BY FlushCall DEF Flush, Handler, Idle

LEMMA FinishFlushStep ==
    ASSUME Types, Bounded, LiveInv, Live, FinishFlush
    PROVE  IInv'
BY FlushCall DEF FinishFlush, Handler, Idle

LEMMA ReturnStep ==
    ASSUME Types, Bounded, LiveInv, Live, Return
    PROVE  IInv'
<1>1. /\ call.op \in {"flush", "raw"} /\ fl.at = "none" /\ call' = NoCall /\ written \in Nat
      /\ UNCHANGED <<req, pw, res, st, cw, pend, wire, head, over, fl, written>>
  BY DEF Return, sentVars, Types
<1>2. /\ fl.extra = <<>> /\ fl.head = <<>> /\ (~NoBody => Stream = Written) /\ call.data = <<>>
  BY <1>1, AtRest
<1>3. call' \in CallType /\ call'.op = "none" /\ call'.data = <<>>
  BY <1>1 DEF NoCall, CallType
<1>5. Types'
  BY <1>1, <1>3 DEF Types, CallType
<1>6. Quiet
  BY <1>1, <1>3 DEF Quiet, Done
<1>7. Calling'
  BY <1>1, <1>2, <1>3 DEF Calling, Done, Final
<1>8. Staged'
  BY <1>1 DEF Staged
<1>9. ASSUME ~NoBody, Flow, Got' = Got PROVE Flow'
  <2>1. Stream' = Stream /\ Written' = Written /\ Ended' = Ended
    BY <1>1, <1>2, <1>3, <1>9, SameStream
  <2>2. Written # Ended
    BY <1>1, WrittenNotEnded
  <2> QED BY <1>1, <1>2, <1>3, <1>9, <2>1, <2>2 DEF Flow, Done
<1>10. Len(pw') <= SlabCap /\ Len(cw') <= CodedCap
  BY <1>1 DEF Bounded
<1> QED BY <1>5, <1>6, <1>7, <1>8, <1>9, <1>10, QuietLive

-----------------------------------------------------------------------------
(* The flush.                                                              *)

\* A reply with a length and a filter has been measured.
LEMMA CodedHasNoLength ==
    ASSUME Types, LiveInv, ~NoBody, res.head_sent, st.filter, fl.at \notin {"send", "none"}
    PROVE  ~res.has_length
<1>1. Heading /\ Measured
  BY DEF LiveInv
<1> QED BY <1>1 DEF Heading, Measured, Done

LEMMA FlushBeginStep ==
    ASSUME Types, Bounded, LiveInv, Live, FlushBegin
    PROVE  IInv'
<1>0. Calling /\ Staged
  BY DEF LiveInv
<1>1. /\ fl.at = "begin" /\ UNCHANGED <<req, pw, cw, pend, call, wire, head, written, over>>
      /\ written \in Nat
  BY DEF FlushBegin, Types
<1> DEFINE asks == ~res.head_sent /\ st.on_head /\ ~req.head_only
<1>2. PICK installs \in IF asks THEN BOOLEAN ELSE {FALSE} :
         LET coding == (st.filter \/ installs) /\ ~req.head_only
             whole  == coding /\ ~res.head_sent /\ Final
         IN /\ st' = [st EXCEPT !.on_head = @ /\ ~asks, !.filter = @ \/ installs]
            /\ res' = [res EXCEPT !.has_length = @ /\ (coding /\ ~res.head_sent => whole)]
            /\ fl' = [fl EXCEPT !.at = IF whole THEN "whole" ELSE "head",
                                !.coding = coding, !.whole = whole]
  BY DEF FlushBegin
<1> DEFINE coding == (st.filter \/ installs) /\ ~req.head_only
           whole  == coding /\ ~res.head_sent /\ Final
<1>3. installs \in BOOLEAN /\ (installs => asks)
  BY <1>2
<1>4. /\ st' \in [on_head : BOOLEAN, filter : BOOLEAN, no_body : BOOLEAN]
      /\ st'.filter = (st.filter \/ installs) /\ st'.no_body = st.no_body
      /\ st'.on_head = (st.on_head /\ ~asks)
  BY <1>2, <1>3 DEF Types
<1>5. /\ res' \in [status : {"ok", "none", "304"}, has_length : BOOLEAN, content_length : Nat,
                   head_sent : BOOLEAN, chunked : BOOLEAN, failed : BOOLEAN,
                   close : BOOLEAN, body_sent : Nat]
      /\ res'.has_length = (res.has_length /\ (coding /\ ~res.head_sent => whole))
      /\ res'.status = res.status /\ res'.head_sent = res.head_sent
      /\ res'.chunked = res.chunked /\ res'.failed = res.failed /\ res'.close = res.close
      /\ res'.body_sent = res.body_sent /\ res'.content_length = res.content_length
  <2> DEFINE kept == res.has_length /\ (coding /\ ~res.head_sent => whole)
  <2>1. kept \in BOOLEAN
    BY DEF Types
  <2>2. res' = [res EXCEPT !.has_length = kept]
    BY <1>2, Zenon
  <2> HIDE DEF kept
  <2>3. /\ res' \in [status : {"ok", "none", "304"}, has_length : BOOLEAN,
                     content_length : Nat, head_sent : BOOLEAN, chunked : BOOLEAN,
                     failed : BOOLEAN, close : BOOLEAN, body_sent : Nat]
        /\ res'.has_length = kept /\ res'.status = res.status
        /\ res'.head_sent = res.head_sent /\ res'.chunked = res.chunked
        /\ res'.failed = res.failed /\ res'.close = res.close
        /\ res'.body_sent = res.body_sent /\ res'.content_length = res.content_length
    BY <2>1, <2>2 DEF Types
  <2> QED BY <2>3, Zenon DEF kept
<1>6. /\ fl' \in FlushType /\ fl'.at = (IF whole THEN "whole" ELSE "head")
      /\ fl'.coding = coding /\ fl'.whole = whole /\ fl'.kind = fl.kind
      /\ fl'.extra = fl.extra /\ fl'.head = fl.head
  BY <1>2, <1>3 DEF Types, FlushType, Stages, Final
<1>7. /\ req.head_only \in BOOLEAN /\ res.head_sent \in BOOLEAN /\ st.filter \in BOOLEAN
      /\ st.on_head \in BOOLEAN /\ res.has_length \in BOOLEAN
  BY DEF Types
<1>8. Types'
  BY <1>1, <1>4, <1>5, <1>6 DEF Types, FlushType
<1> HIDE DEF asks
<1>9. Quiet
  <2>1. res.head_sent => ~asks
    BY DEF asks
  <2>2. fl'.at \in {"whole", "head"}
    BY <1>6
  <2> QED BY <1>1, <1>3, <1>4, <1>5, <1>6, <1>7, <2>1, <2>2 DEF Quiet, Done
<1>10. Calling'
  <2>1. asks => st.on_head
    BY DEF asks
  <2>2. fl'.at \in {"whole", "head"}
    BY <1>6
  <2>3. fl.extra # <<>> => /\ call.op = "raw" /\ ~st'.filter /\ ~st'.on_head
                           /\ IF res.head_sent THEN ~res.chunked
                              ELSE res'.has_length \/ req.minor = 0
    BY <1>0, <1>3, <1>4, <1>5, <2>1 DEF Calling
  <2> QED BY <1>0, <1>1, <1>5, <1>6, <2>2, <2>3 DEF Calling, Done, Final
<1>11. Staged'
  <2>1. NoBody' = NoBody
    BY <1>1, <1>5 DEF NoBody
  <2>2. fl'.head = <<>>
    BY <1>0, <1>1, <1>6 DEF Staged
  <2> QED BY <1>1, <1>3, <1>4, <1>5, <1>6, <1>7, <2>1, <2>2 DEF Staged, Final
<1>12. ASSUME ~NoBody, Flow, Got' = Got PROVE Flow'
  <2>1. Stream' = Stream /\ Written' = Written /\ Ended' = Ended
    BY <1>1, <1>6, <1>12, SameStream
  <2>2. fl'.at \in {"whole", "head"} /\ (fl'.at = "head" => ~fl'.whole)
    BY <1>6
  <2>3. Stream # Ended
    BY <1>1, <1>12 DEF Flow
  <2> QED BY <1>1, <1>4, <1>5, <1>12, <2>1, <2>2, <2>3 DEF Flow, Done
<1>13. Len(pw') <= SlabCap /\ Len(cw') <= CodedCap
  BY <1>1 DEF Bounded
<1> QED BY <1>8, <1>9, <1>10, <1>11, <1>12, <1>13, QuietLive

LEMMA FlushOnStep ==
    ASSUME Types, Bounded, LiveInv, Live, FlushOn
    PROVE  IInv'
<1>0. Calling /\ Staged /\ Heading
  BY DEF LiveInv
<1>1. /\ fl.at = "head" /\ res.head_sent
      /\ UNCHANGED <<req, pw, call, written, res, st, cw, pend, wire, head, over>>
      /\ fl' = [fl EXCEPT !.at = AfterHead(st.no_body)]
  BY DEF FlushOn, sentVars
<1>2. st.no_body = NoBody /\ ~fl.whole /\ fl.coding = (st.filter /\ ~req.head_only)
  BY <1>0, <1>1 DEF Heading, Staged
<1>3. /\ fl' \in FlushType /\ fl'.at = AfterHead(st.no_body)
      /\ fl'.coding = fl.coding /\ fl'.whole = fl.whole /\ fl'.kind = fl.kind
      /\ fl'.extra = fl.extra /\ fl'.head = fl.head
  BY <1>1 DEF Types, FlushType, Stages, AfterHead
<1>4. fl'.at = IF NoBody THEN "nobody" ELSE IF fl.coding THEN "encode" ELSE "send"
  BY <1>2, <1>3 DEF AfterHead
<1>5. Types'
  BY <1>1, <1>3 DEF Types, FlushType
<1>11. fl'.at \in {"nobody", "encode", "send"}
  BY <1>4
<1>6. Quiet
  <2>1. fl.at # "none" /\ fl'.at # "none" /\ fl.at # "send"
    BY <1>1, <1>11
  <2> QED BY <1>1, <1>3, <2>1 DEF Quiet, Done
<1>7. Calling'
  BY <1>0, <1>1, <1>3, <1>11 DEF Calling, Done, Final
<1>8. Staged'
  <2>1. NoBody' = NoBody
    BY <1>1 DEF NoBody
  <2>2. ~NoBody /\ fl.coding => ~res.has_length
    BY <1>1, <1>2, CodedHasNoLength
  <2>3. fl'.at \in {"nobody", "encode", "send"}
    BY <1>4
  <2> QED BY <1>1, <1>2, <1>3, <1>4, <2>1, <2>2, <2>3 DEF Staged, Final
<1>9. ASSUME ~NoBody, Flow, Got' = Got PROVE Flow'
  <2>1. Stream' = Stream /\ Written' = Written /\ Ended' = Ended
    BY <1>1, <1>3, <1>9, SameStream
  <2>2. ~req.head_only
    BY <1>9 DEF NoBody
  <2>3. Stream # Ended
    BY <1>1, <1>2, <1>9 DEF Flow
  <2>4. fl'.at = IF st.filter THEN "encode" ELSE "send"
    BY <1>2, <1>4, <1>9, <2>2 DEF Types
  <2> QED BY <1>1, <1>3, <1>9, <2>1, <2>3, <2>4 DEF Flow, Done
<1>10. Len(pw') <= SlabCap /\ Len(cw') <= CodedCap
  BY <1>1 DEF Bounded
<1> QED BY <1>5, <1>6, <1>7, <1>8, <1>9, <1>10, QuietLive

\* Fail, in a reply that has not failed yet.
LEMMA FailIs ==
    ASSUME Types, Live, Fail
    PROVE  /\ res' = [res EXCEPT !.failed = TRUE] /\ over' \in {"open", "closed"}
           /\ call' = NoCall /\ call'.op = "none" /\ fl' = NoFlush /\ fl'.at = "none"
BY DEF Fail, Live, NoCall, NoFlush

\* The last of a sequence is that of its end.
LEMMA LastOf ==
    ASSUME NEW x \in Seq(Nat), NEW y \in Seq(Nat), y # <<>>
    PROVE  Last(y) = (x \o y)[Len(x \o y)] /\ Len(x \o y) \in Nat /\ Len(x \o y) > 0
<1>1. Len(x) \in Nat /\ Len(y) \in Nat /\ Len(y) > 0
  OBVIOUS
<1>2. /\ Len(x \o y) = Len(x) + Len(y)
      /\ \A i \in 1..Len(x) + Len(y) : (x \o y)[i] = IF i <= Len(x) THEN x[i] ELSE y[i - Len(x)]
  BY ConcatProperties
<1> DEFINE n == Len(x) + Len(y)
<1>3. n \in 1..n /\ ~(n <= Len(x)) /\ n - Len(x) = Len(y)
  BY <1>1
<1> HIDE DEF n
<1>4. (x \o y)[n] = y[Len(y)]
  BY <1>2, <1>3, Zenon DEF n
<1>5. n \in Nat /\ n > 0
  BY <1>1 DEF n
<1> QED BY <1>2, <1>4, <1>5, Zenon DEF Last, n

\* The trailer is the last of all, or not there yet.
LEMMA TrailerLast ==
    ASSUME written \in Nat, NEW x \in Seq(Nat), NEW y \in Seq(Nat), y # <<>>
    PROVE  /\ x \o y = Ended => Last(y) = Trailer
           /\ x \o y = Written => Last(y) # Trailer
<1>1. Last(y) = (x \o y)[Len(x \o y)] /\ Len(x \o y) \in Nat /\ Len(x \o y) > 0
  BY LastOf
<1>2. /\ Written \in Seq(Nat) /\ Len(Written) = written /\ Len(Ended) = written + 1
      /\ Ended = Append(Written, Trailer)
  BY WrittenNotEnded DEF Ended
<1>3. ASSUME x \o y = Ended PROVE Last(y) = Trailer
  <2>1. Append(Written, Trailer)[written + 1] = Trailer
    BY <1>2
  <2> QED BY <1>1, <1>2, <1>3, <2>1, Zenon
<1>4. ASSUME x \o y = Written PROVE Last(y) # Trailer
  <2>1. Last(y) = Written[written] /\ written > 0
    BY <1>1, <1>2, <1>4, Zenon
  <2>2. \A i \in 1..written : Written[i] = i
    BY Zenon DEF Written
  <2>3. written \in 1..written /\ written # 0
    BY <2>1
  <2>4. Last(y) = written
    BY <2>1, <2>2, <2>3, Zenon
  <2> QED BY <2>3, <2>4 DEF Trailer
<1> QED BY <1>3, <1>4

\* What the coder may give.
Gives(op, all, ys) ==
    /\ ys \in Seq(Nat) /\ SubSeq(all, Len(ys) + 1, Len(all)) \in Seq(Nat)
    /\ op # "finish" => ys \o SubSeq(all, Len(ys) + 1, Len(all)) = all
    /\ op = "finish" => /\ SubSeq(all, Len(ys) + 1, Len(all)) = <<>>
                        /\ \/ all # <<>> /\ Last(all) = Trailer /\ ys = all
                           \/ ~(all # <<>> /\ Last(all) = Trailer) /\ ys = Append(all, Trailer)

LEMMA GivenIs ==
    ASSUME NEW all \in Seq(Nat), NEW op \in {"more", "flush", "finish"}, NEW ys \in Given(op, all)
    PROVE  Gives(op, all, ys)
<1>0. Len(all) \in Nat /\ Trailer \in Nat
  BY DEF Trailer
<1>1. CASE op = "more"
  <2>1. PICK n \in 0..Len(all) : ys = SubSeq(all, 1, n)
    BY <1>1 DEF Given
  <2>2. /\ SubSeq(all, 1, n) \in Seq(Nat) /\ SubSeq(all, n + 1, Len(all)) \in Seq(Nat)
        /\ Len(SubSeq(all, 1, n)) = n
        /\ SubSeq(all, 1, n) \o SubSeq(all, n + 1, Len(all)) = all
    BY <2>1, SplitAt
  <2>3. Len(ys) = n
    BY <2>1, <2>2, Zenon
  <2> QED BY <1>1, <2>1, <2>2, <2>3, Zenon DEF Gives
<1>2. ASSUME ys = all PROVE
        /\ ys \in Seq(Nat) /\ SubSeq(all, Len(ys) + 1, Len(all)) = <<>>
        /\ ys \o SubSeq(all, Len(ys) + 1, Len(all)) = all
  <2>1. SubSeq(all, Len(all) + 1, Len(all)) = <<>>
    BY <1>0
  <2>2. all \o <<>> = all
    BY Cat
  <2> QED BY <1>2, <2>1, <2>2, Zenon
<1>3. CASE op = "flush"
  <2>1. ys = all
    BY <1>3 DEF Given
  <2>2. op # "finish" /\ <<>> \in Seq(Nat)
    BY <1>3
  <2> QED BY <1>2, <2>1, <2>2, Zenon DEF Gives
<1>4. CASE op = "finish" /\ all # <<>> /\ Last(all) = Trailer
  <2>1. ys = all
    BY <1>4 DEF Given
  <2> QED BY <1>2, <1>4, <2>1, Cat, Zenon DEF Gives
<1>5. CASE op = "finish" /\ ~(all # <<>> /\ Last(all) = Trailer)
  <2>1. ys = Append(all, Trailer)
    BY <1>5 DEF Given
  <2>2. ys \in Seq(Nat) /\ Len(ys) = Len(all) + 1
    BY <1>0, <2>1, AppendIsCat
  <2>3. SubSeq(all, Len(ys) + 1, Len(all)) = <<>>
    BY <1>0, <2>2
  <2> QED BY <1>5, <2>1, <2>2, <2>3, Cat, Zenon DEF Gives
<1> QED BY <1>1, <1>3, <1>4, <1>5

\* The trailer goes in behind all that was written.
JoinsTrailer(b, c, d, e, y, r, z) ==
    (d \o e) \o z = y \o r
       => Join(b, c \o y, r, <<>>, <<>>, <<>>) = Join(b, c, d, e, <<>>, <<>>) \o z

LEMMA JoinTrailer ==
    ASSUME NEW b \in Seq(Nat), NEW c \in Seq(Nat), NEW d \in Seq(Nat), NEW e \in Seq(Nat),
           NEW y \in Seq(Nat), NEW r \in Seq(Nat), NEW z \in Seq(Nat)
    PROVE  JoinsTrailer(b, c, d, e, y, r, z)
<1> SUFFICES ASSUME (d \o e) \o z = y \o r
             PROVE  Join(b, c \o y, r, <<>>, <<>>, <<>>)
                      = Join(b, c, d, e, <<>>, <<>>) \o z
  BY DEF JoinsTrailer
<1>1. <<>> \in Seq(Nat) /\ z \o <<>> = z /\ e \o z \in Seq(Nat)
  BY Cat
<1>2. JoinsMore(b, c, d, e, z) /\ JoinsSlab(b, c, d, e, z, <<>>)
  BY <1>1, JoinMore, JoinSlab, Zenon
<1>3. JoinsCoded(b, c, d, e \o z, <<>>, <<>>, y, r)
  BY <1>1, JoinCoded, Zenon
<1>4. d \o (e \o z) = y \o r
  <2>1. Assoc(d, e, z)
    BY CatAssoc, Zenon
  <2> QED BY <2>1, Zenon DEF Assoc
<1> QED BY <1>1, <1>2, <1>3, <1>4, Zenon DEF JoinsMore, JoinsSlab, JoinsCoded

\* What the coder has not given yet is behind the rest.
JoinsAll(b, c, d, e) == Join(b, c, d, e, <<>>, <<>>) = (b \o c) \o (d \o e)

LEMMA JoinAll ==
    ASSUME NEW b \in Seq(Nat), NEW c \in Seq(Nat), NEW d \in Seq(Nat), NEW e \in Seq(Nat)
    PROVE  JoinsAll(b, c, d, e)
<1>1. <<>> \in Seq(Nat) /\ <<>> \o <<>> = <<>> /\ e \o <<>> = e /\ d \o e \in Seq(Nat)
      /\ b \o c \in Seq(Nat)
  BY Cat
<1>2. <<>> \o (d \o e) = d \o e
  BY <1>1, Cat, Zenon
<1>3. JoinsSent(b, c, d, e, <<>>, <<>>)
  BY <1>1, JoinSent, Zenon
<1>4. Join(b \o c, <<>>, d, e, <<>>, <<>>) = (b \o c) \o (d \o e)
  BY <1>1, <1>2, Zenon DEF Join
<1> QED BY <1>3, <1>4, Zenon DEF JoinsSent, JoinsAll

\* A turn of encode's loop moves units, and adds the trailer at the end.
LEMMA EncodeStream ==
    ASSUME Types, LiveInv, ~NoBody, fl.at \in {"whole", "encode"},
           NEW ys \in Given(Op, pend \o pw), NEW y1 \in Seq(Nat), NEW y2 \in Seq(Nat),
           ys = y1 \o y2, Got' = Got, cw' = cw \o y1,
           pend' = y2 \o SubSeq(pend \o pw, Len(ys) + 1, Len(pend \o pw)), pw' = <<>>,
           fl'.extra = fl.extra, call' = call, written' = written
    PROVE  /\ Written' = Written /\ Ended' = Ended
           /\ Final => Stream' = Ended /\ pend' = y2
           /\ ~Final => Stream' = Written
<1>0. Calling /\ Staged /\ ReadOn /\ Flow
  BY DEF LiveInv
<1>1. /\ cw \in Seq(Nat) /\ pend \in Seq(Nat) /\ pw \in Seq(Nat) /\ fl.extra \in Seq(Nat)
      /\ call.data \in Seq(Nat) /\ written \in Nat /\ <<>> \in Seq(Nat)
  BY PartsAre, Cat
<1>2. Got \in Seq(Nat) /\ Stream \in {Written, Ended}
  BY <1>0 DEF ReadOn, Flow
<1> DEFINE all  == pend \o pw
           rest == SubSeq(all, Len(ys) + 1, Len(all))
           r    == y2 \o rest
<1>3. all \in Seq(Nat)
  BY <1>1, Cat
<1>4. Op \in {"more", "flush", "finish"} /\ (Op = "finish" <=> Final)
  BY DEF Op
<1>5. Gives(Op, all, ys)
  BY <1>3, <1>4, GivenIs, Zenon
<1>6. pend' = r
  OBVIOUS
<1> HIDE DEF all
<1>7. rest \in Seq(Nat)
  BY <1>5 DEF Gives
<1> HIDE DEF rest
<1>8. r \in Seq(Nat)
  BY <1>7, Cat
<1> HIDE DEF r
<1>9. Written' = Written /\ Ended' = Ended
  <2>1. Written' = Written
    BY Zenon DEF Written
  <2> QED BY <2>1, Zenon DEF Ended
<1>10. Stream' = Join(Got, cw \o y1, r, <<>>, fl.extra, call.data)
  BY <1>6, Zenon DEF Stream
<1>11. JoinsCoded(Got, cw, pend, pw, fl.extra, call.data, y1, r)
  BY <1>1, <1>2, <1>8, JoinCoded, Zenon
<1>12. ASSUME ~Final PROVE Stream' = Written
  <2>1. ys \o rest = all
    BY <1>4, <1>5, <1>12 DEF Gives, rest
  <2>2. Assoc(y1, y2, rest)
    BY <1>7, CatAssoc, Zenon
  <2>3. all = y1 \o r
    BY <2>1, <2>2, Zenon DEF Assoc, r
  <2>4. Stream' = Stream
    BY <1>10, <1>11, <2>3, Zenon DEF JoinsCoded, Stream, all
  <2>5. Stream # Ended
    BY <1>0, <1>12 DEF Flow, Calling
  <2> QED BY <1>2, <2>4, <2>5
<1>13. ASSUME Final PROVE Stream' = Ended /\ pend' = y2
  <2>1. call.data = <<>> /\ fl.extra = <<>>
    BY <1>0, <1>13 DEF Calling
  <2>2. rest = <<>>
    BY <1>4, <1>5, <1>13 DEF Gives, rest
  <2>3. r = y2
    BY <2>2, Cat, Zenon DEF r
  <2>4. Stream = (Got \o cw) \o all
    <3>1. JoinsAll(Got, cw, pend, pw)
      BY <1>1, <1>2, JoinAll, Zenon
    <3> QED BY <2>1, <3>1, Zenon DEF JoinsAll, Stream, all
  <2>5. Got \o cw \in Seq(Nat)
    BY <1>1, <1>2, Cat
  <2>6. CASE all # <<>> /\ Last(all) = Trailer /\ ys = all
    <3>1. all = y1 \o r
      BY <2>3, <2>6, Zenon
    <3>2. Stream' = Stream
      BY <1>10, <1>11, <3>1, Zenon DEF JoinsCoded, Stream, all
    <3>3. Stream # Written
      BY <1>1, <1>3, <2>4, <2>5, <2>6, TrailerLast, Zenon
    <3> QED BY <1>2, <1>6, <2>3, <3>2, <3>3
  <2>7. CASE ~(all # <<>> /\ Last(all) = Trailer) /\ ys = Append(all, Trailer)
    <3>1. Trailer \in Nat
      BY DEF Trailer
    <3>2. ys = all \o <<Trailer>> /\ <<Trailer>> \in Seq(Nat)
      BY <1>3, <2>7, <3>1, AppendIsCat, Zenon
    <3>3. (pend \o pw) \o <<Trailer>> = y1 \o r
      BY <2>3, <3>2, Zenon DEF all
    <3>4. Stream' = Stream \o <<Trailer>>
      <4>1. JoinsTrailer(Got, cw, pend, pw, y1, r, <<Trailer>>)
        BY <1>1, <1>2, <1>8, <3>2, JoinTrailer, Zenon
      <4> QED BY <1>10, <2>1, <3>3, <4>1, Zenon DEF JoinsTrailer, Stream
    <3>5. Stream # Ended
      <4>1. SUFFICES ASSUME Stream = Ended PROVE FALSE
        OBVIOUS
      <4>2. pend # <<>>
        BY <1>0, <4>1 DEF Flow
      <4>3. all # <<>>
        BY <1>1, <4>2 DEF all
      <4> QED BY <1>1, <1>3, <2>4, <2>5, <2>7, <4>1, <4>3, TrailerLast, Zenon
    <3>6. Ended = Written \o <<Trailer>>
      BY <1>1, WrittenNotEnded
    <3>7. Stream = Written
      BY <1>2, <3>5
    <3>8. Stream' = Ended
      BY <3>4, <3>6, <3>7, Zenon
    <3> QED BY <1>6, <2>3, <3>8
  <2> QED BY <1>4, <1>5, <1>13, <2>6, <2>7 DEF Gives
<1> QED BY <1>9, <1>12, <1>13

LEMMA EncodeMoves ==
    ASSUME Types, Bounded, LiveInv, Live, fl.at \in {"whole", "encode"},
           NEW ys \in Given(Op, pend \o pw), NEW y1 \in Seq(Nat), NEW y2 \in Seq(Nat),
           NEW at, ys = y1 \o y2, cw' = cw \o y1, Len(cw \o y1) <= CodedCap,
           pend' = y2 \o SubSeq(pend \o pw, Len(ys) + 1, Len(pend \o pw)), pw' = <<>>,
           fl' = [fl EXCEPT !.at = at],
           \/ at = "coded" /\ fl.at = "encode" /\ (Final => y2 # <<>>)
           \/ at = (IF fl.whole THEN "head" ELSE "send") /\ y2 = <<>>,
           UNCHANGED <<req, res, st, call, wire, head, written, over>>
    PROVE  IInv'
<1>0. Calling /\ Staged
  BY DEF LiveInv
<1>1. /\ cw \in Seq(Nat) /\ pend \in Seq(Nat) /\ pw \in Seq(Nat) /\ written \in Nat
      /\ <<>> \in Seq(Nat)
  BY PartsAre, Cat
<1>2. /\ fl.coding /\ fl.coding = (st.filter /\ ~req.head_only)
      /\ fl.whole = (fl.at = "whole") /\ (fl.whole => Final /\ ~res.head_sent /\ fl.head = <<>>)
      /\ (fl.at = "encode" => res.head_sent /\ ~NoBody /\ ~res.has_length)
  BY <1>0 DEF Staged, Types
<1>3. at \in {"coded", "head", "send"} /\ (at = "head" <=> fl.at = "whole")
  BY <1>2
<1>4. /\ fl' \in FlushType /\ fl'.at = at
      /\ fl'.coding = fl.coding /\ fl'.whole = fl.whole /\ fl'.kind = fl.kind
      /\ fl'.extra = fl.extra /\ fl'.head = fl.head
  BY <1>3 DEF Types, FlushType, Stages
<1>5. cw' \in Seq(Nat) /\ pend' \in Seq(Nat) /\ pw' \in Seq(Nat)
  <2>1. Op \in {"more", "flush", "finish"}
    BY DEF Op
  <2>2. pend \o pw \in Seq(Nat) /\ cw \o y1 \in Seq(Nat)
    BY <1>1, Cat
  <2>3. Gives(Op, pend \o pw, ys)
    BY <2>1, <2>2, GivenIs, Zenon
  <2>4. SubSeq(pend \o pw, Len(ys) + 1, Len(pend \o pw)) \in Seq(Nat)
    BY <2>3, Zenon DEF Gives
  <2>5. pend' \in Seq(Nat)
    BY <2>4, Cat, Zenon
  <2> QED BY <1>1, <2>2, <2>5, Zenon
<1>6. Types'
  <2>1. UNCHANGED <<req, res, st, call, wire, head, written, over>>
    OBVIOUS
  <2>2. fl' \in [at : Stages, kind : {"none", "full", "asked", "final"}, extra : Seq(Nat),
                 head : {<<>>, HeadMark}, coding : BOOLEAN, whole : BOOLEAN]
    BY <1>4, Zenon DEF FlushType
  <2>3. /\ req' = req /\ res' = res /\ st' = st /\ call' = call /\ wire' = wire
        /\ head' = head /\ written' = written /\ over' = over
    BY <2>1
  <2> QED BY <1>5, <2>2, <2>3, ZenonT(60) DEF Types
<1>7. Quiet
  BY <1>3, <1>4 DEF Quiet, Done
<1>8. Calling'
  BY <1>0, <1>3, <1>4 DEF Calling, Done, Final
<1>9. Staged'
  <2>1. NoBody' = NoBody
    BY DEF NoBody
  <2> QED BY <1>2, <1>3, <1>4, <2>1 DEF Staged, Final
<1>10. ASSUME ~NoBody, Flow, Got' = Got PROVE Flow'
  <2>1. /\ Written' = Written /\ Ended' = Ended
        /\ Final => Stream' = Ended /\ pend' = y2
        /\ ~Final => Stream' = Written
    BY <1>4, <1>10, EncodeStream
  <2>2. Written # Ended
    BY <1>1, WrittenNotEnded
  <2>3. st.filter /\ (Final <=> call.op = "finish") /\ (Final <=> Final')
    BY <1>0, <1>2, <1>4 DEF Calling, Final
  <2>4. ~Done'
    BY <1>3, <1>4 DEF Done
  <2>5. at # "coded" => y2 = <<>>
    BY <1>2
  <2>6. at = "coded" => (Final => y2 # <<>>)
    BY <1>2
  <2>7. res'.head_sent \/ at = "head"
    BY <1>2, <1>3
  <2>8. at = "head" => Final /\ fl'.whole
    BY <1>2, <1>3, <1>4
  <2>9. Stream' \in {Written', Ended'} /\ (Stream' = Ended' => Final) /\ (Final => Stream' = Ended')
    BY <2>1, <2>2
  <2>10. st' = st /\ call' = call /\ res' = res /\ pw' = <<>> /\ (Final => pend' = y2)
    BY <2>1
  <2> QED BY <1>3, <1>4, <2>3, <2>4, <2>5, <2>6, <2>7, <2>8, <2>9, <2>10 DEF Flow
<1>11. Len(pw') <= SlabCap /\ Len(cw') <= CodedCap
  <2>1. Len(<<>>) = 0 /\ 0 <= SlabCap
    BY ReplyAssumption
  <2> QED BY <2>1
<1> QED BY <1>6, <1>7, <1>8, <1>9, <1>10, <1>11, QuietLive

LEMMA EncodeStep ==
    ASSUME Types, Bounded, LiveInv, Live, Encode
    PROVE  IInv'
<1>1. fl.at \in {"whole", "encode"} /\ UNCHANGED <<req, st, wire, head, written>>
  BY DEF Encode
<1> DEFINE all == pend \o pw
           rest(ys) == SubSeq(all, Len(ys) + 1, Len(all))
           n(ys) == Min({CodedCap - Len(cw), Len(ys)})
           fits(ys) == n(ys) = Len(ys)
<1>2. PICK ys \in Given(Op, all) :
         \/ /\ fits(ys)
            /\ cw' = cw \o ys /\ pend' = rest(ys) /\ pw' = <<>>
            /\ fl' = [fl EXCEPT !.at = IF fl.whole THEN "head" ELSE "send"]
            /\ UNCHANGED <<res, call, over>>
         \/ /\ fl.at = "encode"
            /\ ~fits(ys) \/ (Len(cw) + n(ys) = CodedCap /\ ~Final)
            /\ cw' = cw \o SubSeq(ys, 1, n(ys)) /\ pw' = <<>>
            /\ pend' = SubSeq(ys, n(ys) + 1, Len(ys)) \o rest(ys)
            /\ fl' = [fl EXCEPT !.at = "coded"]
            /\ UNCHANGED <<res, call, over>>
         \/ /\ ~fits(ys) /\ fl.at = "whole"
            /\ Fail /\ UNCHANGED <<pw, cw, pend>>
  BY Zenon DEF Encode
<1>3. /\ cw \in Seq(Nat) /\ pend \in Seq(Nat) /\ pw \in Seq(Nat) /\ all \in Seq(Nat)
      /\ <<>> \in Seq(Nat)
  BY PartsAre, Cat
<1>4. ys \in Seq(Nat) /\ rest(ys) \in Seq(Nat)
  <2>1. Op \in {"more", "flush", "finish"}
    BY DEF Op
  <2>2. Gives(Op, all, ys)
    BY <1>3, <2>1, GivenIs, Zenon
  <2> QED BY <2>2, Zenon DEF Gives
<1> HIDE DEF all
<1> DEFINE k == n(ys)
<1>5. k \in Nat /\ k <= Len(ys) /\ Len(cw) + k <= CodedCap /\ (k = Len(ys) <=> fits(ys))
  <2>1. CodedCap \in Nat /\ Len(cw) \in Nat /\ Len(ys) \in Nat /\ Len(cw) <= CodedCap
    BY <1>3, <1>4, ReplyAssumption DEF CodedCap, Bounded
  <2>2. CodedCap - Len(cw) \in Int /\ Len(ys) \in Int
    BY <2>1
  <2>3. Smaller(CodedCap - Len(cw), Len(ys))
    BY <2>2, MinIs, Zenon
  <2>4. k = IF CodedCap - Len(cw) <= Len(ys) THEN CodedCap - Len(cw) ELSE Len(ys)
    BY <2>3, Zenon DEF Smaller
  <2> HIDE DEF k
  <2>5. k \in Nat /\ k <= Len(ys) /\ Len(cw) + k <= CodedCap
    BY <2>1, <2>4
  <2> QED BY <2>5, Zenon DEF k
<1>6. CASE /\ fits(ys)
           /\ cw' = cw \o ys /\ pend' = rest(ys) /\ pw' = <<>>
           /\ fl' = [fl EXCEPT !.at = IF fl.whole THEN "head" ELSE "send"]
           /\ UNCHANGED <<res, call, over>>
  <2> DEFINE at == IF fl.whole THEN "head" ELSE "send"
  <2>1. ys = ys \o <<>> /\ <<>> \o rest(ys) = rest(ys)
    BY <1>4, Cat, Zenon
  <2>2. Len(cw \o ys) <= CodedCap
    <3>1. Len(cw \o ys) = Len(cw) + Len(ys)
      BY <1>3, <1>4, Cat
    <3>2. k = Len(ys)
      BY <1>5, <1>6, Zenon
    <3> HIDE DEF k, fits, rest
    <3> QED BY <1>5, <3>1, <3>2
  <2>3. pend' = <<>> \o SubSeq(pend \o pw, Len(ys) + 1, Len(pend \o pw))
    BY <1>6, <2>1, Zenon DEF all
  <2>4. ys \in Given(Op, pend \o pw)
    BY DEF all
  <2>5. UNCHANGED <<req, res, st, call, wire, head, written, over>>
    BY <1>1, <1>6
  <2>6. fl' = [fl EXCEPT !.at = at] /\ cw' = cw \o ys /\ pw' = <<>>
    BY <1>6, Zenon
  <2>7. \/ at = "coded" /\ fl.at = "encode" /\ (Final => <<>> # <<>>)
        \/ at = (IF fl.whole THEN "head" ELSE "send") /\ <<>> = <<>>
    OBVIOUS
  <2> HIDE DEF at, k, fits, rest
  <2> QED BY <1>1, <1>3, <1>4, <2>1, <2>2, <2>3, <2>4, <2>5, <2>6, <2>7, EncodeMoves
<1>7. CASE /\ fl.at = "encode"
           /\ ~fits(ys) \/ (Len(cw) + n(ys) = CodedCap /\ ~Final)
           /\ cw' = cw \o SubSeq(ys, 1, n(ys)) /\ pw' = <<>>
           /\ pend' = SubSeq(ys, n(ys) + 1, Len(ys)) \o rest(ys)
           /\ fl' = [fl EXCEPT !.at = "coded"]
           /\ UNCHANGED <<res, call, over>>
  <2> DEFINE y1 == SubSeq(ys, 1, k)
             y2 == SubSeq(ys, k + 1, Len(ys))
  <2>1. /\ cw' = cw \o y1 /\ pw' = <<>> /\ fl' = [fl EXCEPT !.at = "coded"]
        /\ pend' = y2 \o SubSeq(pend \o pw, Len(ys) + 1, Len(pend \o pw))
    BY <1>7, Zenon DEF all
  <2>2. (Final => ~fits(ys)) /\ UNCHANGED <<req, res, st, call, wire, head, written, over>>
    BY <1>1, <1>7, Zenon
  <2>3. Final => k # Len(ys)
    BY <1>5, <2>2, Zenon
  <2> HIDE DEF k, fits, rest
  <2>4. k \in 0..Len(ys) /\ Len(ys) \in Nat /\ Len(cw) \in Nat
    BY <1>3, <1>4, <1>5
  <2>5. /\ y1 \in Seq(Nat) /\ y2 \in Seq(Nat) /\ Len(y1) = k /\ Len(y2) = Len(ys) - k
        /\ y1 \o y2 = ys
    BY <1>4, <2>4, SplitAt
  <2> HIDE DEF y1, y2
  <2>6. Len(cw \o y1) <= CodedCap
    <3>1. Len(cw \o y1) = Len(cw) + Len(y1)
      BY <1>3, <2>5, Cat
    <3> QED BY <1>5, <2>5, <3>1
  <2>7. Final => y2 # <<>>
    <3>1. Final => Len(y2) # 0
      BY <2>3, <2>4, <2>5
    <3>2. Len(<<>>) = 0
      OBVIOUS
    <3> QED BY <3>1, <3>2, Zenon
  <2>8. ys \in Given(Op, pend \o pw)
    BY DEF all
  <2>9. \/ "coded" = "coded" /\ fl.at = "encode" /\ (Final => y2 # <<>>)
        \/ "coded" = (IF fl.whole THEN "head" ELSE "send") /\ y2 = <<>>
    BY <1>7, <2>7
  <2>10. ys = y1 \o y2
    BY <2>5
  <2> QED BY <1>1, <2>1, <2>2, <2>5, <2>6, <2>8, <2>9, <2>10, EncodeMoves
<1>8. CASE /\ ~fits(ys) /\ fl.at = "whole"
           /\ Fail /\ UNCHANGED <<pw, cw, pend>>
  <2>1. Fails
    BY <1>1, <1>8, FailIs DEF Fails
  <2> QED BY <2>1, FailStep
<1> QED BY <1>2, <1>6, <1>7, <1>8, Zenon

LEMMA EncodeFailsStep ==
    ASSUME Types, Bounded, LiveInv, Live, EncodeFails
    PROVE  IInv'
<1>1. Fails
  BY FailIs DEF Fails, EncodeFails
<1> QED BY <1>1, FailStep

-----------------------------------------------------------------------------
(* What a send adds to what the client has read.                           *)

ClientAt(framing, len, done, b) ==
    IF framing = "length" THEN LenState(len, b)
    ELSE IF framing = "chunked" THEN ChunkState(done, b) ELSE CloseState(b)

LEMMA StandIs ==
    ASSUME NEW b
    PROVE  Stand(b) = ClientAt(head.framing, head.len, Done, b)
BY Zenon DEF Stand, ClientAt

LEMMA ChunkIs ==
    ASSUME NEW b \in Seq(Nat), NEW xs \in Seq(Nat), head.len \in Nat,
           res.chunked = (head.framing = "chunked"),
           head.framing = "length" => Len(b) + Len(xs) <= head.len
    PROVE  /\ Chunk(xs) \in Seq(Units)
           /\ After(ClientAt(head.framing, head.len, FALSE, b), Chunk(xs))
                = ClientAt(head.framing, head.len, FALSE, b \o xs)
<1>1. CASE head.framing = "chunked" /\ xs # <<>>
  <2> DEFINE u == <<[k |-> "size", n |-> Len(xs)]>> \o Datas(xs) \o <<Mark("crlf")>>
  <2>1. u \in Seq(Units) /\ After(ChunkState(FALSE, b), u) = ChunkState(FALSE, b \o xs)
    BY <1>1, ChunkReads
  <2>2. Chunk(xs) = u
    BY <1>1, Zenon DEF Chunk
  <2> HIDE DEF u
  <2>3. ClientAt(head.framing, head.len, FALSE, b) = ChunkState(FALSE, b)
        /\ ClientAt(head.framing, head.len, FALSE, b \o xs) = ChunkState(FALSE, b \o xs)
    BY <1>1 DEF ClientAt
  <2> QED BY <2>1, <2>2, <2>3, Zenon
<1>2. CASE head.framing = "chunked" /\ xs = <<>>
  <2>1. Chunk(xs) = <<>> /\ b \o xs = b
    BY <1>2, DatasNone, Cat, Zenon DEF Chunk
  <2>2. After(ClientAt(head.framing, head.len, FALSE, b), <<>>)
          = ClientAt(head.framing, head.len, FALSE, b)
    BY AfterNone, Zenon
  <2>3. <<>> \in Seq(Units)
    OBVIOUS
  <2> QED BY <2>1, <2>2, <2>3, Zenon
<1>3. CASE head.framing # "chunked"
  <2>1. Chunk(xs) = Datas(xs)
    BY <1>3, Zenon DEF Chunk
  <2>2. Datas(xs) \in Seq(Units)
    BY DatasUnits
  <2>3. CASE head.framing = "length"
    <3>1. After(LenState(head.len, b), Datas(xs)) = LenState(head.len, b \o xs)
      BY <2>3, LenReads
    <3> QED BY <2>1, <2>2, <2>3, <3>1, Zenon DEF ClientAt
  <2>4. CASE head.framing # "length"
    <3>1. After(CloseState(b), Datas(xs)) = CloseState(b \o xs)
      BY CloseReads
    <3> QED BY <1>3, <2>1, <2>2, <2>4, <3>1, Zenon DEF ClientAt
  <2> QED BY <2>3, <2>4
<1> QED BY <1>1, <1>2, <1>3

\* The slab, the terminator and what goes out raw behind it.
Sends(b, xs, ys) ==
    /\ Chunk(xs) \o LastChunk \o Datas(ys) \in Seq(Units)
    /\ After(ClientAt(head.framing, head.len, FALSE, b), Chunk(xs) \o LastChunk \o Datas(ys))
         = ClientAt(head.framing, head.len, Final, (b \o xs) \o ys)

LEMMA AllSent ==
    ASSUME NEW b \in Seq(Nat), NEW xs \in Seq(Nat), NEW ys \in Seq(Nat), head.len \in Nat,
           res.chunked = (head.framing = "chunked"), res.chunked => ys = <<>>,
           head.framing = "length" => Len(b) + Len(xs) + Len(ys) <= head.len
    PROVE  Sends(b, xs, ys)
<1> DEFINE C(done, s) == ClientAt(head.framing, head.len, done, s)
<1>0. Len(b) \in Nat /\ Len(xs) \in Nat /\ Len(ys) \in Nat
  OBVIOUS
<1>1. Chunk(xs) \in Seq(Units) /\ After(C(FALSE, b), Chunk(xs)) = C(FALSE, b \o xs)
  <2>1. head.framing = "length" => Len(b) + Len(xs) <= head.len
    BY <1>0
  <2> QED BY <2>1, ChunkIs
<1>2. Datas(ys) \in Seq(Units) /\ b \o xs \in Seq(Nat) /\ Len(b \o xs) = Len(b) + Len(xs)
  BY DatasUnits, Cat
<1>3. LastChunk \in Seq(Units)
  <2>1. <<Mark("last")>> \in Seq(Units) /\ <<>> \in Seq(Units)
    BY UnitsAre
  <2> QED BY <2>1 DEF LastChunk
<1>4. After(C(FALSE, b \o xs), LastChunk) = C(Final, b \o xs)
  <2>1. CASE Final /\ res.chunked
    <3>1. /\ C(FALSE, b \o xs) = ChunkState(FALSE, b \o xs)
          /\ C(Final, b \o xs) = ChunkState(TRUE, b \o xs)
      BY <2>1, Zenon DEF ClientAt, ChunkState
    <3>2. LastChunk = <<Mark("last")>>
      BY <2>1, Zenon DEF LastChunk
    <3> QED BY <3>1, <3>2, LastReads, Zenon
  <2>2. CASE ~(Final /\ res.chunked)
    <3>1. LastChunk = <<>>
      BY <2>2, Zenon DEF LastChunk
    <3>2. C(Final, b \o xs) = C(FALSE, b \o xs)
      BY <2>2, Zenon DEF ClientAt, ChunkState
    <3> QED BY <3>1, <3>2, AfterNone, Zenon
  <2> QED BY <2>1, <2>2
<1>5. After(C(Final, b \o xs), Datas(ys)) = C(Final, (b \o xs) \o ys)
  <2> DEFINE s == b \o xs
  <2>0. s \in Seq(Nat) /\ Len(s) = Len(b) + Len(xs)
    BY <1>2
  <2> HIDE DEF s
  <2>1. CASE head.framing = "chunked"
    <3>1. Datas(ys) = <<>> /\ s \o ys = s
      BY <2>0, <2>1, DatasNone, Cat, Zenon
    <3> QED BY <3>1, AfterNone, Zenon DEF s
  <2>2. CASE head.framing = "length"
    <3>1. Len(s) + Len(ys) <= head.len
      BY <1>0, <2>0, <2>2
    <3>2. After(LenState(head.len, s), Datas(ys)) = LenState(head.len, s \o ys)
      BY <2>0, <3>1, LenReads
    <3> QED BY <2>2, <3>2, Zenon DEF ClientAt, s
  <2>3. CASE head.framing \notin {"chunked", "length"}
    <3>1. After(CloseState(s), Datas(ys)) = CloseState(s \o ys)
      BY <2>0, CloseReads
    <3>2. head.framing # "length" /\ head.framing # "chunked"
      BY <2>3
    <3> QED BY <3>1, <3>2, Zenon DEF ClientAt, s
  <2> QED BY <2>1, <2>2, <2>3
<1> DEFINE c == Chunk(xs)
           d == Datas(ys)
<1>6. c \in Seq(Units) /\ d \in Seq(Units)
  BY <1>1, <1>2
<1>7. c \o LastChunk \in Seq(Units)
  BY <1>3, <1>6, ConcatProperties
<1>8. (c \o LastChunk) \o d \in Seq(Units)
  BY <1>6, <1>7, ConcatProperties
<1>9. After(C(FALSE, b), (c \o LastChunk) \o d) = After(After(C(FALSE, b), c \o LastChunk), d)
  BY <1>6, <1>7, AfterBoth, Zenon
<1>10. After(C(FALSE, b), c \o LastChunk) = After(After(C(FALSE, b), c), LastChunk)
  BY <1>3, <1>6, AfterBoth, Zenon
<1> QED BY <1>1, <1>4, <1>5, <1>8, <1>9, <1>10, Zenon DEF Sends

\* The client reads on with what is sent.
LEMMA SentReads ==
    ASSUME Types, Heading, res.head_sent, NEW u \in Seq(Units), Gone' = Gone \o u,
           req' = req, res'.status = res.status, head' = head
    PROVE  /\ Cl' = After(Cl, u) /\ Gone' # <<>> /\ Gone'[1] = Mark("head")
           /\ Gone' \in Seq(Units)
<1>1. Gone \in Seq(Units)
  BY PartsAre
<1>2. Gone # <<>> /\ Gone[1] = Mark("head")
  BY DEF Heading
<1>3. Start' = Start
  BY SameStart
<1>4. Gone \o u \in Seq(Units) /\ Gone \o u # <<>> /\ (Gone \o u)[1] = Gone[1]
  BY <1>1, <1>2, TailCat
<1>5. After(Start, Tail(Gone \o u)) = After(After(Start, Tail(Gone)), u)
  BY <1>1, <1>2, ReadsMore
<1>6. Cl' = After(Cl, u)
  BY <1>3, <1>5, Zenon DEF Cl
<1> QED BY <1>2, <1>4, <1>6, Zenon

\* A send that succeeds: the client has got b.
LEMMA SendStep ==
    ASSUME Types, LiveInv, Live, res.head_sent, ~NoBody, NEW u \in Seq(Units),
           NEW b \in Seq(Nat), Gone' = Gone \o u, fl'.head = <<>>,
           UNCHANGED <<req, head, st, over>>,
           res' = [res EXCEPT !.body_sent = Len(b)],
           After(Cl, u) = ClientAt(head.framing, head.len, Done', b)
    PROVE  /\ Live' /\ Heading' /\ ~NoBody' /\ ReadOn' /\ Got' = b
           /\ res' \in [status : {"ok", "none", "304"}, has_length : BOOLEAN,
                        content_length : Nat, head_sent : BOOLEAN, chunked : BOOLEAN,
                        failed : BOOLEAN, close : BOOLEAN, body_sent : Nat]
           /\ res'.status = res.status /\ res'.has_length = res.has_length
           /\ res'.head_sent = res.head_sent /\ res'.chunked = res.chunked
           /\ res'.failed = res.failed /\ res'.close = res.close
           /\ res'.body_sent = Len(b) /\ res'.content_length = res.content_length
<1>0. Heading
  BY DEF LiveInv
<1>1. /\ res' \in [status : {"ok", "none", "304"}, has_length : BOOLEAN,
                   content_length : Nat, head_sent : BOOLEAN, chunked : BOOLEAN,
                   failed : BOOLEAN, close : BOOLEAN, body_sent : Nat]
      /\ res'.status = res.status /\ res'.has_length = res.has_length
      /\ res'.head_sent = res.head_sent /\ res'.chunked = res.chunked
      /\ res'.failed = res.failed /\ res'.close = res.close
      /\ res'.body_sent = Len(b) /\ res'.content_length = res.content_length
  <2>1. Len(b) \in Nat
    OBVIOUS
  <2> DEFINE n == Len(b)
  <2>2. res' = [res EXCEPT !.body_sent = n] /\ n \in Nat
    BY <2>1
  <2> HIDE DEF n
  <2>3. /\ res' \in [status : {"ok", "none", "304"}, has_length : BOOLEAN,
                     content_length : Nat, head_sent : BOOLEAN, chunked : BOOLEAN,
                     failed : BOOLEAN, close : BOOLEAN, body_sent : Nat]
        /\ res'.status = res.status /\ res'.has_length = res.has_length
        /\ res'.head_sent = res.head_sent /\ res'.chunked = res.chunked
        /\ res'.failed = res.failed /\ res'.close = res.close
        /\ res'.body_sent = n /\ res'.content_length = res.content_length
    BY <2>2 DEF Types
  <2> QED BY <2>3, Zenon DEF n
<1>2. /\ Cl' = After(Cl, u) /\ Gone' # <<>> /\ Gone'[1] = Mark("head")
  <2>1. req' = req /\ head' = head
    OBVIOUS
  <2> QED BY <1>0, <1>1, <2>1, SentReads
<1>3. Live'
  BY <1>1 DEF Live
<1>4. NoBody' = NoBody
  BY <1>1 DEF NoBody
<1>5. Heading'
  BY <1>0, <1>1, <1>2, <1>4 DEF Heading
<1>6. Cl' = ClientAt(head.framing, head.len, Done', b)
  BY <1>2
<1>7. ClientAt(head.framing, head.len, Done', b).body = b
  <2>1. CASE head.framing = "length"
    BY <2>1 DEF ClientAt, LenState
  <2>2. CASE head.framing = "chunked"
    BY <2>2 DEF ClientAt, ChunkState
  <2>3. CASE head.framing \notin {"length", "chunked"}
    BY <2>3 DEF ClientAt, CloseState
  <2> QED BY <2>1, <2>2, <2>3
<1>8. Got' = b
  <2>1. Got' = IF res'.head_sent THEN Cl'.body ELSE <<>>
    BY DEF Got
  <2> QED BY <1>1, <1>6, <1>7, <2>1, Zenon
<1>9. Stand(Got)' = ClientAt(head.framing, head.len, Done', Got')
  <2>1. Stand(Got)' = ClientAt(head'.framing, head'.len, Done', Got')
    BY Zenon DEF Stand, ClientAt
  <2>2. head' = head
    OBVIOUS
  <2> QED BY <2>1, <2>2, Zenon
<1>10. Cl' = Stand(Got)'
  BY <1>6, <1>8, <1>9, Zenon
<1>11. ReadOn'
  <2>1. Got' \in Seq(Nat) /\ Len(Got') = res'.body_sent
    BY <1>1, <1>8, Zenon
  <2> QED BY <1>10, <2>1, Zenon DEF ReadOn
<1> QED BY <1>1, <1>3, <1>4, <1>5, <1>8, <1>11

LEMMA EncodeSendStep ==
    ASSUME Types, Bounded, LiveInv, Live, EncodeSend
    PROVE  IInv'
<1>0. Calling /\ Staged /\ Heading
  BY DEF LiveInv
<1>1. fl.at = "coded" /\ UNCHANGED <<req, st, pw, pend, head, written>>
  BY DEF EncodeSend
<1>2. /\ fl.coding /\ ~fl.whole /\ ~res.has_length /\ res.head_sent /\ ~NoBody /\ st.filter
      /\ fl.coding = (st.filter /\ ~req.head_only)
  BY <1>0, <1>1 DEF Staged
<1>3. Measured /\ ReadOn /\ Flow
  BY <1>2 DEF LiveInv
<1>4. head.framing # "length"
  BY <1>1, <1>2, <1>3 DEF Measured, Done
<1>5. /\ cw \in Seq(Nat) /\ pend \in Seq(Nat) /\ pw \in Seq(Nat) /\ fl.extra \in Seq(Nat)
      /\ call.data \in Seq(Nat) /\ written \in Nat /\ Gone \in Seq(Units) /\ <<>> \in Seq(Nat)
  BY PartsAre, Cat
<1>6. Got \in Seq(Nat) /\ Len(Got) = res.body_sent /\ Cl = Stand(Got)
  BY <1>2, <1>3 DEF ReadOn
<1>7. CASE /\ Sent(fl.head, Chunk(cw))
           /\ res' = [res EXCEPT !.body_sent = @ + Len(cw)]
           /\ fl' = [fl EXCEPT !.head = <<>>, !.at = "encode"]
           /\ cw' = <<>>
           /\ UNCHANGED <<call, over>>
  <2> DEFINE b == Got \o cw
             u == Chunk(cw)
  <2>1. /\ fl' \in FlushType /\ fl'.at = "encode" /\ fl'.head = <<>>
        /\ fl'.coding = fl.coding /\ fl'.whole = fl.whole /\ fl'.kind = fl.kind
        /\ fl'.extra = fl.extra
    BY <1>7 DEF Types, FlushType, Stages
  <2>2. b \in Seq(Nat) /\ Len(b) = res.body_sent + Len(cw)
    <3>1. b \in Seq(Nat) /\ Len(b) = Len(Got) + Len(cw)
      BY <1>5, <1>6, Cat, Zenon
    <3> QED BY <1>6, <3>1, Zenon
  <2>3. u \in Seq(Units) /\ After(Cl, u) = ClientAt(head.framing, head.len, FALSE, b)
    <3>1. Done = FALSE
      BY <1>1 DEF Done
    <3>2. Stand(Got) = ClientAt(head.framing, head.len, FALSE, Got)
      BY <3>1, StandIs, Zenon
    <3>3. res.chunked = (head.framing = "chunked") /\ head.len \in Nat
      BY <1>0, <1>2 DEF Heading, Types
    <3>4. /\ Chunk(cw) \in Seq(Units)
          /\ After(ClientAt(head.framing, head.len, FALSE, Got), Chunk(cw))
               = ClientAt(head.framing, head.len, FALSE, Got \o cw)
      BY <1>4, <1>5, <1>6, <3>3, ChunkIs
    <3> QED BY <1>6, <3>2, <3>4, Zenon
  <2>4. Gone' = Gone \o u /\ wire' \in Seq(Units)
    <3>1. wire' = Gone \o u
      BY <1>7, Zenon DEF Sent, Gone
    <3> HIDE DEF u
    <3>2. wire' \in Seq(Units)
      BY <1>5, <2>3, <3>1, ConcatProperties
    <3>3. wire' \o <<>> = wire'
      BY <3>2, ConcatEmptySeq
    <3>4. Gone' = wire' \o fl'.head
      BY DEF Gone
    <3> QED BY <2>1, <3>1, <3>2, <3>3, <3>4, Zenon
  <2>5. ~Done'
    BY <2>1 DEF Done
  <2>6. UNCHANGED <<req, head, st, over>> /\ res' = [res EXCEPT !.body_sent = Len(b)]
    BY <1>1, <1>7, <2>2, Zenon
  <2>7. After(Cl, u) = ClientAt(head.framing, head.len, Done', b)
    <3>1. Done' = FALSE
      BY <2>1 DEF Done
    <3> QED BY <2>3, <3>1, Zenon
  <2> HIDE DEF b, u
  <2>8. /\ Live' /\ Heading' /\ ~NoBody' /\ ReadOn' /\ Got' = b
        /\ res' \in [status : {"ok", "none", "304"}, has_length : BOOLEAN,
                     content_length : Nat, head_sent : BOOLEAN, chunked : BOOLEAN,
                     failed : BOOLEAN, close : BOOLEAN, body_sent : Nat]
        /\ res'.status = res.status /\ res'.has_length = res.has_length
        /\ res'.head_sent = res.head_sent /\ res'.chunked = res.chunked
        /\ res'.failed = res.failed /\ res'.close = res.close
        /\ res'.body_sent = Len(b) /\ res'.content_length = res.content_length
    BY <1>2, <2>1, <2>2, <2>3, <2>4, <2>6, <2>7, SendStep
  <2>9. call' = call /\ over' = over /\ cw' = <<>>
    BY <1>7
  <2>10. Types'
    BY <1>1, <1>5, <2>1, <2>4, <2>8, <2>9 DEF Types, FlushType
  <2>11. Calling'
    BY <1>0, <1>1, <2>1, <2>5, <2>8, <2>9 DEF Calling, Final
  <2>12. Staged'
    BY <1>1, <1>2, <2>1, <2>8 DEF Staged, Final
  <2>13. Measured'
    BY <1>1, <1>4 DEF Measured
  <2>14. Stream' = Stream /\ Written' = Written /\ Ended' = Ended
    <3>1. JoinsSent(Got, cw, pend, pw, fl.extra, call.data)
      BY <1>5, <1>6, JoinSent, Zenon
    <3>2. Stream' = Join(b, <<>>, pend, pw, fl.extra, call.data)
      BY <1>1, <2>1, <2>8, <2>9, Zenon DEF Stream
    <3>3. Stream' = Stream
      BY <3>1, <3>2, Zenon DEF JoinsSent, Stream, b
    <3>4. Written' = Written
      BY <1>1, Zenon DEF Written
    <3> QED BY <3>3, <3>4, Zenon DEF Ended
  <2>15. Flow'
    <3>1. Final' = Final
      BY <2>1 DEF Final
    <3> QED BY <1>1, <1>2, <1>3, <2>1, <2>5, <2>8, <2>9, <2>14, <3>1 DEF Flow
  <2>16. Bounded'
    <3>1. Len(<<>>) = 0 /\ CodedCap \in Nat /\ 0 <= CodedCap
      BY ReplyAssumption DEF CodedCap
    <3> QED BY <1>1, <1>2, <2>8, <2>9, <3>1 DEF Bounded
  <2>17. LiveInv'
    BY <2>8, <2>11, <2>12, <2>13, <2>15 DEF LiveInv
  <2> QED BY <2>8, <2>10, <2>16, <2>17 DEF IInv
<1>8. CASE /\ Unsent(fl.head)
           /\ Fail
           /\ UNCHANGED cw
  <2>1. Fails
    BY <1>1, <1>8, FailIs DEF Fails, Unsent, Gone
  <2> QED BY <2>1, FailStep
<1> QED BY <1>7, <1>8 DEF EncodeSend

-----------------------------------------------------------------------------
(* The head.                                                               *)

\* Where the client starts, by the head.
Starts ==
    ~NoBody /\ head.len \in Nat /\ head.framing \in {"length", "chunked", "until_close"}
       /\ (head.framing = "chunked" => req.minor >= 1)
    => Start = ClientAt(head.framing, head.len, FALSE, <<>>)

LEMMA StartIs == Starts
<1> SUFFICES ASSUME ~NoBody, head.len \in Nat,
                    head.framing \in {"length", "chunked", "until_close"},
                    head.framing = "chunked" => req.minor >= 1
             PROVE  Start = ClientAt(head.framing, head.len, FALSE, <<>>)
  BY DEF Starts
<1>1. CASE head.framing = "length"
  <2>1. ClientAt(head.framing, head.len, FALSE, <<>>) = LenState(head.len, <<>>)
    BY <1>1, Zenon DEF ClientAt
  <2>2. Len(<<>>) = 0 /\ head.len - 0 = head.len
    OBVIOUS
  <2>3. CASE head.len = 0
    <3>1. Start = [at |-> "end", left |-> 0, body |-> <<>>]
      BY <1>1, <2>3 DEF Start, Reading
    <3>2. LenState(head.len, <<>>) = [at |-> "end", left |-> 0, body |-> <<>>]
      BY <2>2, <2>3 DEF LenState
    <3> QED BY <2>1, <3>1, <3>2
  <2>4. CASE head.len # 0
    <3>1. Start = [at |-> "length", left |-> head.len, body |-> <<>>]
      BY <1>1, <2>4 DEF Start, Reading
    <3>2. LenState(head.len, <<>>) = [at |-> "length", left |-> head.len, body |-> <<>>]
      BY <2>2, <2>4 DEF LenState
    <3> QED BY <2>1, <3>1, <3>2
  <2> QED BY <2>3, <2>4
<1>2. CASE head.framing = "chunked"
  <2>1. Start = [at |-> "size", left |-> 0, body |-> <<>>]
    BY <1>2 DEF Start, Reading
  <2>2. ClientAt(head.framing, head.len, FALSE, <<>>) = [at |-> "size", left |-> 0, body |-> <<>>]
    BY <1>2 DEF ClientAt, ChunkState
  <2> QED BY <2>1, <2>2
<1>3. CASE head.framing = "until_close"
  <2>1. Start = [at |-> "until_close", left |-> 0, body |-> <<>>]
    BY <1>3 DEF Start, Reading
  <2>2. ClientAt(head.framing, head.len, FALSE, <<>>)
          = [at |-> "until_close", left |-> 0, body |-> <<>>]
    BY <1>3 DEF ClientAt, CloseState
  <2> QED BY <2>1, <2>2
<1> QED BY <1>1, <1>2, <1>3

LEMMA StartIsNext == Starts'
BY StartIs, PTL

LEMMA FramingIs ==
    ASSUME Types, NEW final \in BOOLEAN, NEW f, f = Framing(final, res.status, res.has_length)
    PROVE  /\ f \in {"none", "length", "chunked", "until_close"}
           /\ res.status # "ok" => f # "chunked"
           /\ res.status = "ok" => /\ f # "none" /\ (res.has_length \/ final <=> f = "length")
                                   /\ f = "chunked" => req.minor >= 1
           /\ res.has_length \/ req.minor = 0 => f # "chunked"
<1>1. /\ res.status \in {"ok", "none", "304"} /\ res.has_length \in BOOLEAN
      /\ req.minor \in {0, 1}
  BY DEF Types
<1> QED BY <1>1 DEF Framing

LEMMA FlushHeadStep ==
    ASSUME Types, Bounded, LiveInv, Live, FlushHead
    PROVE  IInv'
<1>0. Calling /\ Staged /\ Heading
  BY DEF LiveInv
<1>1. /\ fl.at = "head" /\ ~res.head_sent /\ UNCHANGED <<req, pw, cw, pend, written>>
  BY DEF FlushHead
<1>2. wire = <<>> /\ fl.head = <<>> /\ res.body_sent = 0
  BY <1>0, <1>1 DEF Heading
<1> DEFINE size    == Len(IF fl.coding THEN cw ELSE pw)
           decl    == Declared(Final, NoBody)
           framing == Framing(Final, res.status, res.has_length)
           close   == res.close \/ framing = "until_close" \/ req.unread
<1>3. \/ /\ st' = [st EXCEPT !.no_body = NoBody]
         /\ res' = [res EXCEPT
               !.content_length = IF res.has_length /\ ~decl THEN size ELSE @,
               !.chunked = framing = "chunked", !.close = close,
               !.head_sent = TRUE]
         /\ head' = [framing |-> framing, keep |-> req.keep_alive /\ ~close,
                     len |-> IF decl THEN res.content_length ELSE size]
         /\ fl' = [fl EXCEPT !.head = <<Mark("head")>>, !.at = AfterHead(NoBody)]
         /\ UNCHANGED <<call, wire, over>>
      \/ /\ wire' = <<Mark("status")>>
         /\ Fail
         /\ UNCHANGED <<st, head>>
  BY Zenon DEF FlushHead, NoBody
<1>4. CASE /\ wire' = <<Mark("status")>>
           /\ Fail
           /\ UNCHANGED <<st, head>>
  <2>1. Fails
    BY <1>1, <1>4, FailIs DEF Fails
  <2> QED BY <2>1, FailStep
<1>5. CASE /\ st' = [st EXCEPT !.no_body = NoBody]
           /\ res' = [res EXCEPT
                 !.content_length = IF res.has_length /\ ~decl THEN size ELSE @,
                 !.chunked = framing = "chunked", !.close = close,
                 !.head_sent = TRUE]
           /\ head' = [framing |-> framing, keep |-> req.keep_alive /\ ~close,
                       len |-> IF decl THEN res.content_length ELSE size]
           /\ fl' = [fl EXCEPT !.head = <<Mark("head")>>, !.at = AfterHead(NoBody)]
           /\ UNCHANGED <<call, wire, over>>
  <2>1. /\ cw \in Seq(Nat) /\ pend \in Seq(Nat) /\ pw \in Seq(Nat) /\ fl.extra \in Seq(Nat)
        /\ call.data \in Seq(Nat) /\ written \in Nat /\ <<>> \in Seq(Nat)
    BY PartsAre, Cat
  <2>2. size \in Nat
    <3>1. (IF fl.coding THEN cw ELSE pw) \in Seq(Nat)
      BY <2>1
    <3> QED BY <3>1
  <2>3. /\ framing \in {"none", "length", "chunked", "until_close"}
        /\ res.status # "ok" => framing # "chunked"
        /\ res.status = "ok" => /\ framing # "none"
                                /\ (res.has_length \/ Final <=> framing = "length")
                                /\ framing = "chunked" => req.minor >= 1
        /\ res.has_length \/ req.minor = 0 => framing # "chunked"
    <3>1. Final \in BOOLEAN
      BY DEF Final
    <3> QED BY <3>1, FramingIs
  <2>4. /\ decl = (res.has_length /\ (~Final \/ NoBody)) /\ decl \in BOOLEAN
        /\ NoBody \in BOOLEAN /\ close \in BOOLEAN
    BY DEF Declared, Types, NoBody
  <2>5. /\ fl.coding = (st.filter /\ ~req.head_only) /\ (fl.whole => fl.coding /\ Final)
        /\ (fl.whole <=> fl.coding /\ Final) /\ (fl.coding /\ ~fl.whole => ~res.has_length)
    BY <1>0, <1>1 DEF Staged
  <2>6. framing = "until_close" => close
    OBVIOUS
  <2> HIDE DEF size, decl, framing, close
  <2>7. /\ fl' \in FlushType /\ fl'.head = HeadMark /\ fl'.at = AfterHead(NoBody)
        /\ fl'.coding = fl.coding /\ fl'.whole = fl.whole /\ fl'.kind = fl.kind
        /\ fl'.extra = fl.extra
    BY <1>5, <2>4 DEF Types, FlushType, Stages, AfterHead, HeadMark
  <2>8. /\ (NoBody => fl'.at = "nobody") /\ (~NoBody /\ fl.coding /\ ~fl.whole => fl'.at = "encode")
        /\ (~NoBody /\ ~(fl.coding /\ ~fl.whole) => fl'.at = "send")
        /\ fl'.at \in {"nobody", "encode", "send"}
    BY <2>7, <2>4 DEF AfterHead
  <2>9. /\ res' \in [status : {"ok", "none", "304"}, has_length : BOOLEAN,
                     content_length : Nat, head_sent : BOOLEAN, chunked : BOOLEAN,
                     failed : BOOLEAN, close : BOOLEAN, body_sent : Nat]
        /\ res'.status = res.status /\ res'.has_length = res.has_length
        /\ res'.head_sent = TRUE /\ res'.chunked = (framing = "chunked")
        /\ res'.failed = res.failed /\ res'.close = close
        /\ res'.body_sent = 0
        /\ res'.content_length = IF res.has_length /\ ~decl THEN size ELSE res.content_length
    <3> DEFINE len     == IF res.has_length /\ ~decl THEN size ELSE res.content_length
               chunked == framing = "chunked"
    <3>1. len \in Nat /\ chunked \in BOOLEAN
      BY <2>2 DEF Types
    <3>2. res' = [res EXCEPT !.content_length = len, !.chunked = chunked, !.close = close,
                             !.head_sent = TRUE]
      BY <1>5, Zenon
    <3> HIDE DEF len, chunked
    <3>3. /\ res' \in [status : {"ok", "none", "304"}, has_length : BOOLEAN,
                       content_length : Nat, head_sent : BOOLEAN, chunked : BOOLEAN,
                       failed : BOOLEAN, close : BOOLEAN, body_sent : Nat]
          /\ res'.status = res.status /\ res'.has_length = res.has_length
          /\ res'.head_sent = TRUE /\ res'.chunked = chunked
          /\ res'.failed = res.failed /\ res'.close = close
          /\ res'.body_sent = res.body_sent /\ res'.content_length = len
      BY <2>4, <3>1, <3>2 DEF Types
    <3> QED BY <1>2, <3>3, Zenon DEF len, chunked
  <2>10. /\ head' \in [framing : {"none", "length", "chunked", "until_close"}, len : Nat,
                       keep : BOOLEAN]
         /\ head'.framing = framing /\ head'.keep = (req.keep_alive /\ ~close)
         /\ head'.len = IF decl THEN res.content_length ELSE size
    BY <1>5, <2>2, <2>3, <2>4 DEF Types
  <2>11. /\ st' \in [on_head : BOOLEAN, filter : BOOLEAN, no_body : BOOLEAN]
         /\ st'.no_body = NoBody /\ st'.filter = st.filter /\ st'.on_head = st.on_head
    BY <1>5, <2>4 DEF Types
  <2>12. call' = call /\ wire' = <<>> /\ over' = over
    BY <1>2, <1>5
  <2>13. Gone' = HeadMark
    <3>1. Gone' = <<>> \o HeadMark
      BY <2>7, <2>12, Zenon DEF Gone
    <3>2. HeadMark \in Seq(Units)
      BY UnitsAre
    <3> QED BY <3>1, <3>2, ConcatEmptySeq
  <2>14. NoBody' = NoBody /\ ~Done' /\ (Final' <=> Final) /\ Live'
    BY <1>1, <2>7, <2>8, <2>9, <2>12 DEF NoBody, Done, Final, Live
  <2>15. Types'
    BY <1>1, <2>1, <2>7, <2>9, <2>10, <2>11, <2>12 DEF Types, FlushType
  <2>16. Bounded'
    BY <1>1, <2>9 DEF Bounded
  <2>17. Calling'
    <3>1. fl.extra # <<>> => /\ call.op = "raw" /\ ~st'.filter /\ ~st'.on_head
                             /\ ~res'.chunked
      BY <1>0, <1>1, <2>3, <2>9, <2>11 DEF Calling
    <3> QED BY <1>0, <1>1, <2>7, <2>8, <2>9, <2>12, <2>14, <3>1 DEF Calling
  <2>18. Staged'
    BY <1>1, <2>5, <2>7, <2>8, <2>9, <2>11, <2>14 DEF Staged
  <2>19. Heading'
    <3>1. HeadMark # <<>> /\ HeadMark[1] = Mark("head")
      BY BareReads
    <3>2. ~NoBody => res.status = "ok"
      BY DEF NoBody
    <3>3. ~NoBody /\ res.has_length => head'.len = res'.content_length
      BY <2>9, <2>10
    <3> QED BY <1>1, <2>3, <2>6, <2>9, <2>10, <2>11, <2>12, <2>13, <2>14, <3>1, <3>2, <3>3
            DEF Heading
  <2>20. ASSUME NoBody PROVE Bare'
    BY <2>13 DEF Bare
  <2>21. ASSUME ~NoBody PROVE Measured' /\ ReadOn' /\ Flow'
    <3>0. res.status = "ok" /\ ~req.head_only /\ Flow /\ fl.coding = st.filter
      BY <2>5, <2>21 DEF NoBody, LiveInv, Types
    <3>1. Measured'
      <4>1. SUFFICES ASSUME framing = "length", ~res.has_length \/ st.filter
                     PROVE  /\ fl'.at = "send" /\ Final /\ fl.whole = fl.coding
                            /\ head'.len = size
        BY <1>1, <2>7, <2>9, <2>10, <2>11, <2>14 DEF Measured, size
      <4>2. fl.whole = fl.coding /\ Final
        BY <2>3, <2>5, <3>0, <4>1 DEF Types
      <4>3. ~decl
        BY <2>4, <2>21, <4>2
      <4> QED BY <2>8, <2>10, <2>21, <4>2, <4>3
    <3>2. Cl' = Start'
      <4>1. Tail(HeadMark) = <<>>
        BY BareReads
      <4>2. Cl' = After(Start', Tail(Gone'))
        BY DEF Cl
      <4> QED BY <2>13, <4>1, <4>2, AfterNone, Zenon
    <3>3. Start' = ClientAt(head'.framing, head'.len, FALSE, <<>>)
      <4>1. ~NoBody' /\ head'.len \in Nat /\ head'.framing \in {"length", "chunked", "until_close"}
            /\ (head'.framing = "chunked" => req'.minor >= 1)
        BY <1>1, <2>3, <2>10, <2>14, <2>21, <3>0
      <4> QED BY <4>1, StartIsNext DEF Starts
    <3>4. ClientAt(head'.framing, head'.len, FALSE, <<>>).body = <<>>
      <4>1. CASE head'.framing = "length"
        BY <4>1 DEF ClientAt, LenState
      <4>2. CASE head'.framing = "chunked"
        BY <4>2 DEF ClientAt, ChunkState
      <4>3. CASE head'.framing \notin {"length", "chunked"}
        BY <4>3 DEF ClientAt, CloseState
      <4> QED BY <4>1, <4>2, <4>3
    <3>5. Got' = <<>> /\ Got = <<>>
      <4>1. Got' = Cl'.body
        BY <2>9 DEF Got
      <4>2. Got = <<>>
        BY <1>1 DEF Got
      <4> QED BY <3>2, <3>3, <3>4, <4>1, <4>2, Zenon
    <3>6. ReadOn'
      <4>1. Stand(Got)' = ClientAt(head'.framing, head'.len, Done', Got')
        BY Zenon DEF Stand, ClientAt
      <4>2. Done' = FALSE
        BY <2>8 DEF Done
      <4>3. Cl' = Stand(Got)'
        BY <3>2, <3>3, <3>5, <4>1, <4>2, Zenon
      <4>4. Got' \in Seq(Nat) /\ Len(Got') = res'.body_sent
        BY <2>1, <2>9, <3>5
      <4> QED BY <4>3, <4>4, Zenon DEF ReadOn
    <3>7. Flow'
      <4>1. Stream' = Stream /\ Written' = Written /\ Ended' = Ended
        BY <1>1, <2>7, <2>12, <3>5, SameStream
      <4>2. fl'.at = IF st.filter /\ ~fl.whole THEN "encode" ELSE "send"
        BY <2>8, <2>21, <3>0
      <4>3. Stream = Ended => st.filter /\ call.op = "finish" /\ fl.whole
        BY <1>1, <3>0 DEF Flow
      <4>4. fl.whole => Stream = Ended /\ pend = <<>> /\ pw = <<>>
        BY <1>1, <2>5, <3>0 DEF Flow, Types
      <4>5. Stream \in {Written, Ended} /\ (~st.filter => cw = <<>> /\ pend = <<>>)
        BY <3>0 DEF Flow
      <4>6. fl.whole \in BOOLEAN /\ st.filter \in BOOLEAN
        BY DEF Types
      <4>7. cw' = cw /\ pend' = pend /\ pw' = pw
        BY <1>1
      <4>8. fl'.at \in {"encode", "send"} /\ (fl'.at = "encode" => ~fl.whole)
            /\ (fl'.at = "send" /\ st.filter => fl.whole)
        BY <4>2, <4>6
      <4> QED BY <2>7, <2>9, <2>11, <2>12, <2>14, <4>1, <4>3, <4>4, <4>5, <4>7, <4>8 DEF Flow
    <3> QED BY <3>1, <3>6, <3>7
  <2>22. LiveInv'
    BY <2>14, <2>17, <2>18, <2>19, <2>20, <2>21 DEF LiveInv
  <2> QED BY <2>14, <2>15, <2>16, <2>22 DEF IInv
<1> QED BY <1>3, <1>4, <1>5, Zenon

LEMMA FlushNoBodyStep ==
    ASSUME Types, Bounded, LiveInv, Live, FlushNoBody
    PROVE  IInv'
<1>0. Calling /\ Staged /\ Heading
  BY DEF LiveInv
<1>1. /\ fl.at = "nobody" /\ UNCHANGED <<req, st, pend, head, written>>
      /\ pw' = <<>> /\ cw' = <<>>
  BY DEF FlushNoBody
<1>2. NoBody /\ res.head_sent /\ Bare
  BY <1>0, <1>1 DEF Staged, LiveInv
<1>3. CASE /\ wire' = wire \o fl.head
           /\ fl' = NoFlush
           /\ UNCHANGED <<res, call, over>>
  <2>1. /\ fl' \in FlushType /\ fl'.at = "none" /\ fl'.head = <<>> /\ fl'.extra = <<>>
    BY <1>3 DEF NoFlush, FlushType, Stages
  <2>2. Gone' = Gone /\ wire' = Gone /\ Gone \in Seq(Units)
    <3>1. Gone \in Seq(Units) /\ wire' = Gone
      BY <1>3, PartsAre DEF Gone
    <3>2. Gone \o <<>> = Gone
      BY <3>1, ConcatEmptySeq
    <3>3. Gone' = wire' \o fl'.head
      BY DEF Gone
    <3> QED BY <2>1, <3>1, <3>2, <3>3, Zenon
  <2>3. res' = res /\ call' = call /\ over' = over /\ <<>> \in Seq(Nat)
    BY <1>3, Cat
  <2>4. Types'
    BY <1>1, <2>1, <2>2, <2>3 DEF Types, FlushType
  <2>5. Live' /\ NoBody' /\ Terminated' = Terminated
    BY <1>1, <1>2, <2>3 DEF Live, NoBody, Terminated
  <2>6. Calling'
    BY <1>0, <1>1, <1>2, <2>1, <2>3 DEF Calling, Done, Final
  <2>7. Staged'
    BY <2>1 DEF Staged
  <2>8. Heading'
    <3>1. NoBody' = NoBody
      BY <1>1, <2>3 DEF NoBody
    <3> QED BY <1>0, <1>1, <1>2, <2>1, <2>2, <2>3, <3>1 DEF Heading
  <2>9. Bare'
    BY <1>2, <2>2, <2>3, <2>5 DEF Bare
  <2>10. Bounded'
    <3>1. Len(<<>>) = 0 /\ CodedCap \in Nat /\ 0 <= CodedCap /\ 0 <= SlabCap
      BY ReplyAssumption DEF CodedCap
    <3> QED BY <1>1, <2>3, <3>1 DEF Bounded
  <2>11. LiveInv'
    BY <2>5, <2>6, <2>7, <2>8, <2>9 DEF LiveInv
  <2> QED BY <2>4, <2>5, <2>10, <2>11 DEF IInv
<1>4. CASE /\ fl.head # <<>>
           /\ Fail
           /\ UNCHANGED wire
  <2>1. Fails
    BY <1>1, <1>4, FailIs DEF Fails
  <2> QED BY <2>1, FailStep
<1> QED BY <1>3, <1>4 DEF FlushNoBody

-----------------------------------------------------------------------------
(* The send of the slab.                                                   *)

\* How much of s may go out behind what was sent.
Limited(s, sent) ==
    LET k == Limit(s, sent) IN
    /\ k \in 0..Len(s) /\ Len(s) \in Nat /\ (~res.has_length => k = Len(s))
    /\ res.has_length => sent + k <= res.content_length
    /\ k < Len(s) => res.has_length /\ sent + k = res.content_length

LEMMA LimitIs ==
    ASSUME Types, NEW s \in Seq(Nat), NEW sent \in Nat,
           res.has_length => sent <= res.content_length
    PROVE  Limited(s, sent)
<1>1. Len(s) \in Nat /\ res.content_length \in Nat /\ res.has_length \in BOOLEAN
  BY DEF Types
<1> DEFINE k == Limit(s, sent)
<1>2. CASE res.has_length
  <2>1. Len(s) \in Int /\ res.content_length - sent \in Int
    BY <1>1
  <2>2. Smaller(Len(s), res.content_length - sent)
    BY <2>1, MinIs, Zenon
  <2>3. k = Min({Len(s), res.content_length - sent})
    BY <1>2, Zenon DEF Limit
  <2>4. k = IF Len(s) <= res.content_length - sent THEN Len(s) ELSE res.content_length - sent
    BY <2>2, <2>3, Zenon DEF Smaller
  <2> HIDE DEF k
  <2>5. /\ k \in 0..Len(s) /\ sent + k <= res.content_length
        /\ k < Len(s) => sent + k = res.content_length
    BY <1>1, <1>2, <2>4
  <2> QED BY <1>1, <1>2, <2>5 DEF Limited, k
<1>3. CASE ~res.has_length
  <2>1. k = Len(s)
    BY <1>3, Zenon DEF Limit
  <2> HIDE DEF k
  <2>2. k \in 0..Len(s) /\ ~(k < Len(s))
    BY <1>1, <2>1
  <2> QED BY <1>1, <1>3, <2>1, <2>2 DEF Limited, k
<1> QED BY <1>1, <1>2, <1>3

\* What goes out of the slab and of the data behind it is in front of the rest.
Cuts(g, x, p, y, e, d) ==
    p = <<>> \/ y = <<>> =>
       \E rest \in Seq(Nat) : ((g \o (x \o p)) \o (y \o e)) \o d = ((g \o x) \o y) \o rest

LEMMA CutStream ==
    ASSUME NEW g \in Seq(Nat), NEW x \in Seq(Nat), NEW p \in Seq(Nat), NEW y \in Seq(Nat),
           NEW e \in Seq(Nat), NEW d \in Seq(Nat)
    PROVE  Cuts(g, x, p, y, e, d)
<1> SUFFICES ASSUME p = <<>> \/ y = <<>>
             PROVE  \E rest \in Seq(Nat) :
                       ((g \o (x \o p)) \o (y \o e)) \o d = ((g \o x) \o y) \o rest
  BY DEF Cuts
<1>0. /\ x \o p \in Seq(Nat) /\ y \o e \in Seq(Nat) /\ g \o x \in Seq(Nat) /\ e \o d \in Seq(Nat)
      /\ <<>> \in Seq(Nat)
  BY Cat
<1>1. CASE p = <<>>
  <2> DEFINE h == g \o x
             hy == h \o y
  <2>1. x \o p = x
    BY <1>1, Cat, Zenon
  <2>2. h \in Seq(Nat)
    BY <1>0
  <2> HIDE DEF h
  <2>3. hy \in Seq(Nat)
    BY <2>2, Cat
  <2>4. Assoc(h, y, e)
    BY <2>2, CatAssoc, Zenon
  <2>5. h \o (y \o e) = hy \o e
    BY <2>4, Zenon DEF Assoc
  <2> HIDE DEF hy
  <2>6. Assoc(hy, e, d)
    BY <2>3, CatAssoc, Zenon
  <2>7. (hy \o e) \o d = hy \o (e \o d)
    BY <2>6, Zenon DEF Assoc
  <2>8. ((g \o (x \o p)) \o (y \o e)) \o d = ((g \o x) \o y) \o (e \o d)
    BY <2>1, <2>5, <2>7, Zenon DEF h, hy
  <2> QED BY <1>0, <2>8
<1>2. CASE y = <<>>
  <2> DEFINE h == g \o x
             hp == h \o p
             r  == p \o (e \o d)
  <2>1. y \o e = e
    BY <1>2, Cat, Zenon
  <2>2. h \in Seq(Nat)
    BY <1>0
  <2>3. Assoc(g, x, p)
    BY CatAssoc, Zenon
  <2>4. g \o (x \o p) = hp
    BY <2>3, Zenon DEF Assoc
  <2> HIDE DEF h
  <2>5. hp \in Seq(Nat) /\ h \o y = h
    BY <1>2, <2>2, Cat, Zenon
  <2>6. Assoc(h, p, e \o d)
    BY <1>0, <2>2, CatAssoc, Zenon
  <2>7. hp \o (e \o d) = h \o r
    BY <2>6, Zenon DEF Assoc
  <2> HIDE DEF hp
  <2>8. Assoc(hp, e, d)
    BY <2>5, CatAssoc, Zenon
  <2>9. (hp \o e) \o d = hp \o (e \o d)
    BY <2>8, Zenon DEF Assoc
  <2>10. r \in Seq(Nat)
    BY <1>0, Cat, Zenon
  <2> HIDE DEF r
  <2>11. ((g \o (x \o p)) \o (y \o e)) \o d = ((g \o x) \o y) \o r
    BY <2>1, <2>4, <2>5, <2>7, <2>9, Zenon DEF h
  <2> QED BY <2>10, <2>11
<1> QED BY <1>1, <1>2

Slab     == IF fl.coding THEN cw ELSE pw
Taken    == Limit(Slab, res.body_sent)
Out      == SubSeq(Slab, 1, Taken)
TakenRaw == Limit(fl.extra, res.body_sent + Taken)
OutRaw   == SubSeq(fl.extra, 1, TakenRaw)
Short    == Taken < Len(Slab) \/ TakenRaw < Len(fl.extra)
Sending  == Chunk(Out) \o LastChunk \o Datas(OutRaw)
NowGot   == (Got \o Out) \o OutRaw

\* What a flush decided that sends.
LEMMA SendBegins ==
    ASSUME Types, Bounded, LiveInv, Live, fl.at = "send"
    PROVE  /\ res.head_sent /\ ~NoBody /\ fl.coding = st.filter /\ st.filter \in BOOLEAN
           /\ Calling /\ Heading /\ Measured /\ ReadOn /\ Flow
           /\ Slab \in Seq(Nat) /\ fl.extra \in Seq(Nat) /\ Got \in Seq(Nat)
           /\ Len(Got) = res.body_sent /\ res.body_sent \in Nat /\ head.len \in Nat
           /\ (Final <=> call.op = "finish") /\ (Final => fl.extra = <<>>)
           /\ (st.filter => fl.extra = <<>>) /\ (res.chunked => fl.extra = <<>>)
           /\ res.chunked = (head.framing = "chunked")
<1>1. Staged /\ Calling /\ Heading
  BY DEF LiveInv
<1>2. res.head_sent /\ ~NoBody /\ fl.coding = (st.filter /\ ~req.head_only)
  BY <1>1 DEF Staged
<1>3. ~req.head_only /\ st.filter \in BOOLEAN
  BY <1>2 DEF NoBody, Types
<1>4. Measured /\ ReadOn /\ Flow
  BY <1>2 DEF LiveInv
<1>5. /\ (Final <=> call.op = "finish") /\ (Final => fl.extra = <<>>)
      /\ (st.filter => fl.extra = <<>>) /\ (res.chunked => fl.extra = <<>>)
  BY <1>1, <1>2 DEF Calling
<1>6. Slab \in Seq(Nat) /\ fl.extra \in Seq(Nat)
  BY PartsAre DEF Slab
<1>7. Got \in Seq(Nat) /\ Len(Got) = res.body_sent /\ res.body_sent \in Nat /\ head.len \in Nat
  BY <1>4 DEF ReadOn, Types
<1>8. res.chunked = (head.framing = "chunked")
  BY <1>1, <1>2 DEF Heading
<1> QED BY <1>1, <1>2, <1>3, <1>4, <1>5, <1>6, <1>7, <1>8

LEMMA SendIs ==
    ASSUME Types, Bounded, LiveInv, Live, fl.at = "send"
    PROVE  /\ Taken \in 0..Len(Slab) /\ TakenRaw \in 0..Len(fl.extra)
           /\ Out \in Seq(Nat) /\ OutRaw \in Seq(Nat) /\ NowGot \in Seq(Nat)
           /\ Len(NowGot) = res.body_sent + Taken + TakenRaw
           /\ (res.has_length => Len(NowGot) <= res.content_length)
           /\ (~Short => Out = Slab /\ OutRaw = fl.extra)
           /\ (Short => res.has_length /\ ~st.filter /\ Len(NowGot) = res.content_length)
           /\ (Taken < Len(Slab) => OutRaw = <<>>)
           /\ Sending \in Seq(Units)
           /\ After(Cl, Sending) = ClientAt(head.framing, head.len, Final, NowGot)
<1>0. /\ res.head_sent /\ ~NoBody /\ fl.coding = st.filter /\ st.filter \in BOOLEAN
      /\ Calling /\ Heading /\ Measured /\ ReadOn /\ Flow
      /\ Slab \in Seq(Nat) /\ fl.extra \in Seq(Nat) /\ Got \in Seq(Nat)
      /\ Len(Got) = res.body_sent /\ res.body_sent \in Nat /\ head.len \in Nat
      /\ (Final <=> call.op = "finish") /\ (Final => fl.extra = <<>>)
      /\ (st.filter => fl.extra = <<>>) /\ (res.chunked => fl.extra = <<>>)
      /\ res.chunked = (head.framing = "chunked")
  BY SendBegins
<1>1. Limited(Slab, res.body_sent)
  <2>1. res.has_length => res.body_sent <= res.content_length
    BY <1>0 DEF Bounded
  <2> QED BY <1>0, <2>1, LimitIs, Zenon
<1>2. /\ Taken \in 0..Len(Slab) /\ Len(Slab) \in Nat /\ (~res.has_length => Taken = Len(Slab))
      /\ res.has_length => res.body_sent + Taken <= res.content_length
      /\ Taken < Len(Slab) => res.has_length /\ res.body_sent + Taken = res.content_length
  BY <1>1, Zenon DEF Limited, Taken
<1>3. Taken \in Nat /\ res.body_sent + Taken \in Nat
  BY <1>0, <1>2
<1>4. Limited(fl.extra, res.body_sent + Taken)
  BY <1>0, <1>2, <1>3, LimitIs, Zenon
<1>5. /\ TakenRaw \in 0..Len(fl.extra) /\ Len(fl.extra) \in Nat
      /\ (~res.has_length => TakenRaw = Len(fl.extra))
      /\ res.has_length => res.body_sent + Taken + TakenRaw <= res.content_length
      /\ TakenRaw < Len(fl.extra) =>
           res.has_length /\ res.body_sent + Taken + TakenRaw = res.content_length
  BY <1>4, Zenon DEF Limited, TakenRaw
<1>6. TakenRaw \in Nat /\ res.content_length \in Nat
  BY <1>5 DEF Types
<1>7. Out \in Seq(Nat) /\ Len(Out) = Taken
  BY <1>0, <1>2, SplitAt DEF Out
<1>8. OutRaw \in Seq(Nat) /\ Len(OutRaw) = TakenRaw
  BY <1>0, <1>5, SplitAt DEF OutRaw
<1>9. NowGot \in Seq(Nat) /\ Len(NowGot) = res.body_sent + Taken + TakenRaw
  <2> DEFINE h == Got \o Out
  <2>1. h \in Seq(Nat) /\ Len(h) = Len(Got) + Len(Out)
    BY <1>0, <1>7, Cat, Zenon
  <2> HIDE DEF h
  <2>2. h \o OutRaw \in Seq(Nat) /\ Len(h \o OutRaw) = Len(h) + Len(OutRaw)
    BY <1>8, <2>1, Cat, Zenon
  <2>3. NowGot = h \o OutRaw
    BY Zenon DEF NowGot, h
  <2> QED BY <1>0, <1>7, <1>8, <2>1, <2>2, <2>3, Zenon
<1>10. ~Short => Out = Slab /\ OutRaw = fl.extra
  <2>1. ~Short => Taken = Len(Slab) /\ TakenRaw = Len(fl.extra)
    BY <1>2, <1>3, <1>5, <1>6 DEF Short
  <2>2. SubSeq(Slab, 1, Len(Slab)) = Slab /\ SubSeq(fl.extra, 1, Len(fl.extra)) = fl.extra
    BY <1>0, SubSeqFull
  <2> QED BY <2>1, <2>2, Zenon DEF Out, OutRaw
<1>11. Taken < Len(Slab) => TakenRaw = 0
  BY <1>0, <1>2, <1>3, <1>5, <1>6
<1>12. Taken < Len(Slab) => OutRaw = <<>>
  BY <1>8, <1>11
<1>13. Len(<<>>) = 0
  OBVIOUS
\* A length that was measured fits.
<1>14. ASSUME head.framing = "length", ~res.has_length \/ st.filter
       PROVE  res.body_sent = 0 /\ head.len = Len(Slab) /\ TakenRaw = 0 /\ fl.extra = <<>>
  <2>1. /\ Final /\ res.body_sent = 0 /\ head.len = Len(IF fl.coding THEN cw ELSE pw)
    BY <1>0, <1>14 DEF Measured, Done
  <2>2. fl.extra = <<>> /\ head.len = Len(Slab)
    BY <1>0, <2>1 DEF Slab
  <2>3. Len(fl.extra) = 0
    BY <2>2
  <2> QED BY <1>5, <1>6, <2>1, <2>2, <2>3
<1>15. res.has_length => head.framing = "length" /\ head.len = res.content_length
  BY <1>0 DEF Heading
<1>16. head.framing = "length" => res.body_sent + Taken + TakenRaw <= head.len
  <2>1. CASE res.has_length
    BY <1>5, <1>15, <2>1
  <2>2. CASE ~res.has_length /\ head.framing = "length"
    BY <1>2, <1>14, <2>2
  <2> QED BY <2>1, <2>2 DEF Types
<1>17. Short => res.has_length /\ Len(NowGot) = res.content_length
  BY <1>0, <1>2, <1>3, <1>5, <1>6, <1>9, <1>11 DEF Short
<1>18. Short => ~st.filter
  <2> SUFFICES ASSUME Short, st.filter PROVE FALSE
    OBVIOUS
  <2>1. res.has_length /\ head.framing = "length" /\ head.len = res.content_length
    BY <1>15, <1>17
  <2>2. res.body_sent = 0 /\ head.len = Len(Slab) /\ TakenRaw = 0 /\ fl.extra = <<>>
    BY <1>14, <2>1
  <2>3. Len(fl.extra) = 0
    BY <2>2
  <2>4. ~(TakenRaw < Len(fl.extra))
    BY <2>2, <2>3
  <2>5. ~(Taken < Len(Slab))
    BY <1>2, <1>3, <2>1, <2>2
  <2> QED BY <2>4, <2>5 DEF Short
<1>19. /\ Sending \in Seq(Units)
       /\ After(Cl, Sending) = ClientAt(head.framing, head.len, Final, NowGot)
  <2>1. Done = FALSE
    BY DEF Done
  <2>2. Cl = ClientAt(head.framing, head.len, FALSE, Got)
    <3>1. Cl = Stand(Got)
      BY <1>0 DEF ReadOn
    <3> QED BY <2>1, <3>1, StandIs, Zenon
  <2>3. res.chunked => OutRaw = <<>>
    <3>1. res.chunked => Len(fl.extra) = 0
      BY <1>0
    <3>2. res.chunked => TakenRaw = 0
      BY <1>5, <1>6, <3>1
    <3> QED BY <1>8, <3>2
  <2>4. head.framing = "length" => Len(Got) + Len(Out) + Len(OutRaw) <= head.len
    BY <1>0, <1>7, <1>8, <1>16, Zenon
  <2>5. Sends(Got, Out, OutRaw)
    BY <1>0, <1>7, <1>8, <2>3, <2>4, AllSent, Zenon
  <2> QED BY <2>2, <2>5, Zenon DEF Sends, Sending, NowGot
<1>20. res.has_length => Len(NowGot) <= res.content_length
  BY <1>5, <1>9
<1> QED BY <1>2, <1>5, <1>7, <1>8, <1>9, <1>10, <1>12, <1>17, <1>18, <1>19, <1>20

\* Everything the flush had went out.
LEMMA SendAll ==
    ASSUME Types, Bounded, LiveInv, Live, fl.at = "send", ~Short,
           wire' = Gone \o Sending, fl' = NoFlush, pw' = <<>>, cw' = <<>>,
           res' = [res EXCEPT !.body_sent = Len(NowGot)],
           UNCHANGED <<req, st, pend, call, head, written, over>>
    PROVE  IInv'
<1>0. /\ res.head_sent /\ ~NoBody /\ fl.coding = st.filter /\ st.filter \in BOOLEAN
      /\ Calling /\ Heading /\ Measured /\ ReadOn /\ Flow
      /\ Slab \in Seq(Nat) /\ fl.extra \in Seq(Nat) /\ Got \in Seq(Nat)
      /\ Len(Got) = res.body_sent /\ res.body_sent \in Nat /\ head.len \in Nat
      /\ (Final <=> call.op = "finish") /\ (Final => fl.extra = <<>>)
      /\ (st.filter => fl.extra = <<>>) /\ (res.chunked => fl.extra = <<>>)
      /\ res.chunked = (head.framing = "chunked")
  BY SendBegins
<1>1. /\ NowGot \in Seq(Nat) /\ (res.has_length => Len(NowGot) <= res.content_length)
      /\ Out = Slab /\ OutRaw = fl.extra
      /\ Sending \in Seq(Units)
      /\ After(Cl, Sending) = ClientAt(head.framing, head.len, Final, NowGot)
  BY SendIs
<1>2. /\ cw \in Seq(Nat) /\ pend \in Seq(Nat) /\ pw \in Seq(Nat) /\ fl.extra \in Seq(Nat)
      /\ call.data \in Seq(Nat) /\ written \in Nat /\ Gone \in Seq(Units) /\ <<>> \in Seq(Nat)
  BY PartsAre, Cat
<1>3. /\ fl' \in FlushType /\ fl'.at = "none" /\ fl'.head = <<>> /\ fl'.extra = <<>>
  BY DEF NoFlush, FlushType, Stages
<1>4. Gone' = Gone \o Sending /\ wire' \in Seq(Units)
  <2>1. wire' \in Seq(Units)
    BY <1>1, <1>2, ConcatProperties
  <2>2. wire' \o <<>> = wire'
    BY <2>1, ConcatEmptySeq
  <2>3. Gone' = wire' \o fl'.head
    BY DEF Gone
  <2> QED BY <1>3, <2>1, <2>2, <2>3, Zenon
<1>5. Done' = Final
  BY <1>0, <1>3 DEF Done, Final
<1>6. After(Cl, Sending) = ClientAt(head.framing, head.len, Done', NowGot)
  BY <1>1, <1>5, Zenon
<1> DEFINE b == NowGot
           u == Sending
<1>7. /\ u \in Seq(Units) /\ b \in Seq(Nat) /\ Gone' = Gone \o u
      /\ After(Cl, u) = ClientAt(head.framing, head.len, Done', b)
      /\ res' = [res EXCEPT !.body_sent = Len(b)] /\ UNCHANGED <<req, head, st, over>>
  BY <1>1, <1>4, <1>6
<1> HIDE DEF b, u
<1>8. /\ Live' /\ Heading' /\ ~NoBody' /\ ReadOn' /\ Got' = b
      /\ res' \in [status : {"ok", "none", "304"}, has_length : BOOLEAN,
                   content_length : Nat, head_sent : BOOLEAN, chunked : BOOLEAN,
                   failed : BOOLEAN, close : BOOLEAN, body_sent : Nat]
      /\ res'.status = res.status /\ res'.has_length = res.has_length
      /\ res'.head_sent = res.head_sent /\ res'.chunked = res.chunked
      /\ res'.failed = res.failed /\ res'.close = res.close
      /\ res'.body_sent = Len(b) /\ res'.content_length = res.content_length
  BY <1>0, <1>3, <1>7, SendStep
<1>9. UNCHANGED <<req, st, pend, call, head, written, over>> /\ pw' = <<>> /\ cw' = <<>>
  OBVIOUS
<1>10. Types'
  <2>1. fl' \in [at : Stages, kind : {"none", "full", "asked", "final"}, extra : Seq(Nat),
                 head : {<<>>, HeadMark}, coding : BOOLEAN, whole : BOOLEAN]
    BY <1>3, Zenon DEF FlushType
  <2>2. /\ req' = req /\ st' = st /\ pend' = pend /\ call' = call /\ head' = head
        /\ written' = written /\ over' = over
    BY <1>9
  <2> QED BY <1>2, <1>4, <1>8, <1>9, <2>1, <2>2, ZenonT(60) DEF Types
<1>11. Calling'
  <2>1. call' = call /\ pw' = <<>>
    BY <1>9
  <2>2. /\ call.data # <<>> => call.op \in {"write", "reserve"}
        /\ call.op = "reserve" => Len(call.data) <= SlabCap
    BY <1>0 DEF Calling
  <2> QED BY <1>0, <1>3, <1>8, <2>1, <2>2 DEF Calling
<1>12. Staged'
  BY <1>3 DEF Staged
<1>13. Len(b) = res.body_sent + Len(Slab) + Len(fl.extra)
  <2> DEFINE h == Got \o Slab
  <2>1. h \in Seq(Nat) /\ Len(h) = Len(Got) + Len(Slab)
    BY <1>0, Cat, Zenon
  <2>2. b = h \o fl.extra
    BY <1>1, Zenon DEF b, NowGot
  <2> HIDE DEF h
  <2>3. Len(h \o fl.extra) = Len(h) + Len(fl.extra)
    BY <1>2, <2>1, Cat, Zenon
  <2> QED BY <1>0, <2>1, <2>2, <2>3, Zenon
<1>14. Measured'
  <2>1. SUFFICES ASSUME head.framing = "length", ~res.has_length \/ st.filter
                 PROVE  Done' /\ Len(b) = head.len
    BY <1>0, <1>8, <1>9 DEF Measured
  <2>2. /\ Final /\ res.body_sent = 0 /\ head.len = Len(IF fl.coding THEN cw ELSE pw)
    BY <1>0, <2>1 DEF Measured, Done
  <2>3. fl.extra = <<>> /\ head.len = Len(Slab)
    BY <1>0, <2>2 DEF Slab
  <2>4. Len(fl.extra) = 0
    BY <2>3
  <2> QED BY <1>0, <1>5, <1>13, <2>2, <2>3, <2>4
<1>15. Stream' = Stream /\ Written' = Written /\ Ended' = Ended
  <2>1. JoinsSent(Got, cw, pend, pw, fl.extra, call.data)
    BY <1>0, <1>2, JoinSent, Zenon
  <2>2. Stream' = Join(b, <<>>, pend, <<>>, <<>>, call.data)
    BY <1>3, <1>8, <1>9, Zenon DEF Stream
  <2>3. ASSUME st.filter PROVE Stream' = Stream
    <3>1. pw = <<>> /\ fl.extra = <<>>
      BY <1>0, <2>3 DEF Flow
    <3>2. Slab = cw /\ Got \o cw \in Seq(Nat)
      BY <1>0, <1>2, <2>3, Cat, Zenon DEF Slab
    <3>3. b = Got \o cw
      BY <1>1, <3>1, <3>2, Cat, Zenon DEF b, NowGot
    <3> QED BY <2>1, <2>2, <3>1, <3>3, Zenon DEF JoinsSent, Stream
  <2>4. ASSUME ~st.filter PROVE Stream' = Stream
    <3>1. cw = <<>> /\ pend = <<>>
      BY <1>0, <2>4 DEF Flow
    <3>2. Slab = pw
      BY <1>0, <2>4, Zenon DEF Slab
    <3>3. b = (Got \o pw) \o fl.extra
      BY <1>1, <3>2, Zenon DEF b, NowGot
    <3> QED BY <2>1, <2>2, <3>1, <3>3, Zenon DEF JoinsSent, Stream
  <2>5. Written' = Written
    BY <1>9, Zenon DEF Written
  <2>6. Stream' = Stream
    BY <1>0, <2>3, <2>4, Zenon
  <2> QED BY <2>5, <2>6, Zenon DEF Ended
<1>16. Flow'
  <2>1. /\ Stream \in {Written, Ended} /\ (~st.filter => pend = <<>>)
        /\ (Stream = Ended => st.filter /\ call.op = "finish")
        /\ (st.filter /\ Final => Stream = Ended) /\ (Final => pend = <<>>)
    BY <1>0 DEF Flow
  <2>2. st' = st /\ pend' = pend /\ call' = call /\ pw' = <<>> /\ cw' = <<>>
    BY <1>9
  <2> QED BY <1>0, <1>3, <1>5, <1>8, <1>15, <2>1, <2>2 DEF Flow
<1>17. Bounded'
  <2>1. Len(<<>>) = 0 /\ CodedCap \in Nat /\ 0 <= CodedCap /\ 0 <= SlabCap
    BY ReplyAssumption DEF CodedCap
  <2>2. res'.has_length => res'.body_sent <= res'.content_length
    BY <1>1, <1>8 DEF b
  <2> QED BY <1>9, <2>1, <2>2 DEF Bounded
<1>18. LiveInv'
  BY <1>8, <1>11, <1>12, <1>14, <1>16 DEF LiveInv
<1> QED BY <1>8, <1>10, <1>17, <1>18 DEF IInv

\* The declared length was reached: the rest is dropped and the reply failed.
LEMMA SendCut ==
    ASSUME Types, Bounded, LiveInv, Live, fl.at = "send", Short,
           wire' = Gone \o Sending, fl' = NoFlush, pw' = <<>>, cw' = <<>>, call' = NoCall,
           res' = [res EXCEPT !.body_sent = Len(NowGot), !.failed = TRUE],
           over' \in {"open", "closed"},
           UNCHANGED <<req, st, pend, head, written>>
    PROVE  IInv'
<1>0. /\ res.head_sent /\ ~NoBody /\ fl.coding = st.filter /\ st.filter \in BOOLEAN
      /\ Calling /\ Heading /\ Measured /\ ReadOn /\ Flow
      /\ Slab \in Seq(Nat) /\ fl.extra \in Seq(Nat) /\ Got \in Seq(Nat)
      /\ Len(Got) = res.body_sent /\ res.body_sent \in Nat /\ head.len \in Nat
      /\ (Final <=> call.op = "finish") /\ (Final => fl.extra = <<>>)
      /\ (st.filter => fl.extra = <<>>) /\ (res.chunked => fl.extra = <<>>)
      /\ res.chunked = (head.framing = "chunked")
  BY SendBegins
<1>1. /\ Taken \in 0..Len(Slab) /\ TakenRaw \in 0..Len(fl.extra)
      /\ NowGot \in Seq(Nat) /\ res.has_length /\ ~st.filter
      /\ Len(NowGot) = res.content_length
      /\ (Taken < Len(Slab) => OutRaw = <<>>)
      /\ Sending \in Seq(Units)
      /\ After(Cl, Sending) = ClientAt(head.framing, head.len, Final, NowGot)
  BY SendIs
<1>2. /\ cw \in Seq(Nat) /\ pend \in Seq(Nat) /\ pw \in Seq(Nat) /\ fl.extra \in Seq(Nat)
      /\ call.data \in Seq(Nat) /\ written \in Nat /\ Gone \in Seq(Units) /\ <<>> \in Seq(Nat)
  BY PartsAre, Cat
<1>3. /\ res' \in [status : {"ok", "none", "304"}, has_length : BOOLEAN,
                   content_length : Nat, head_sent : BOOLEAN, chunked : BOOLEAN,
                   failed : BOOLEAN, close : BOOLEAN, body_sent : Nat]
      /\ res'.status = res.status /\ res'.has_length = res.has_length
      /\ res'.chunked = res.chunked /\ res'.failed = TRUE
      /\ res'.body_sent = res.content_length /\ res'.content_length = res.content_length
  <2> DEFINE n == Len(NowGot)
  <2>1. n \in Nat /\ res' = [res EXCEPT !.body_sent = n, !.failed = TRUE]
        /\ n = res.content_length
    BY <1>1
  <2> HIDE DEF n
  <2> QED BY <2>1 DEF Types
<1>4. /\ fl' \in FlushType /\ fl'.at = "none" /\ call' \in CallType /\ call'.op = "none"
  BY DEF NoFlush, FlushType, Stages, NoCall, CallType
<1>5. Gone # <<>>
  BY <1>0 DEF Heading
<1>6. wire' \in Seq(Units)
  BY <1>1, <1>2, ConcatProperties
<1>7. ~Live'
  BY <1>3 DEF Live
<1>8. UNCHANGED <<req, st, pend, head, written>> /\ pw' = <<>> /\ cw' = <<>>
  OBVIOUS
<1>9. Types'
  <2>1. fl' \in [at : Stages, kind : {"none", "full", "asked", "final"}, extra : Seq(Nat),
                 head : {<<>>, HeadMark}, coding : BOOLEAN, whole : BOOLEAN]
    BY <1>4, Zenon DEF FlushType
  <2>2. /\ req' = req /\ st' = st /\ pend' = pend /\ head' = head /\ written' = written
    BY <1>8
  <2>3. over' \in {"open", "keep", "closed"}
    OBVIOUS
  <2>4. call' \in [op : {"none", "raw", "write", "reserve", "flush", "finish"}, data : Seq(Nat)]
    BY <1>4, Zenon DEF CallType
  <2> QED BY <1>2, <1>3, <1>6, <1>8, <2>1, <2>2, <2>3, <2>4, ZenonT(60) DEF Types
<1>10. Bounded'
  <2>1. Len(<<>>) = 0 /\ CodedCap \in Nat /\ 0 <= CodedCap /\ 0 <= SlabCap
    BY ReplyAssumption DEF CodedCap
  <2>2. res'.body_sent <= res'.content_length
    BY <1>3 DEF Types
  <2> QED BY <1>8, <2>1, <2>2 DEF Bounded
<1>11. PICK rest \in Seq(Nat) : Written = NowGot \o rest
  <2>1. cw = <<>> /\ pend = <<>> /\ Stream = Written
    BY <1>0, <1>1 DEF Flow
  <2>2. Slab = pw
    BY <1>0, <1>1, Zenon DEF Slab
  <2>3. JoinsSent(Got, cw, pend, pw, fl.extra, call.data)
    BY <1>0, <1>2, JoinSent, Zenon
  <2>4. Written = ((Got \o pw) \o fl.extra) \o call.data
    BY <2>1, <2>3, Zenon DEF JoinsSent, Stream
  <2> DEFINE p == SubSeq(Slab, Taken + 1, Len(Slab))
             e == SubSeq(fl.extra, TakenRaw + 1, Len(fl.extra))
  <2>5. Out \in Seq(Nat) /\ p \in Seq(Nat) /\ Out \o p = Slab /\ Len(p) = Len(Slab) - Taken
    BY <1>0, <1>1, SplitAt DEF Out
  <2>6. OutRaw \in Seq(Nat) /\ e \in Seq(Nat) /\ OutRaw \o e = fl.extra
    BY <1>0, <1>1, SplitAt DEF OutRaw
  <2> HIDE DEF p, e
  <2>7. p = <<>> \/ OutRaw = <<>>
    <3>1. CASE Taken < Len(Slab)
      BY <1>1, <3>1
    <3>2. CASE ~(Taken < Len(Slab))
      <4>1. Len(Slab) \in Nat
        BY <1>0
      <4>2. Len(p) = 0
        BY <1>1, <2>5, <3>2, <4>1
      <4> QED BY <2>5, <4>2
    <3> QED BY <3>1, <3>2
  <2>8. \E rest \in Seq(Nat) :
           ((Got \o (Out \o p)) \o (OutRaw \o e)) \o call.data = ((Got \o Out) \o OutRaw) \o rest
    <3>1. Cuts(Got, Out, p, OutRaw, e, call.data)
      BY <1>0, <1>2, <2>5, <2>6, CutStream, Zenon
    <3> QED BY <2>7, <3>1, Zenon DEF Cuts
  <2> QED BY <2>2, <2>4, <2>5, <2>6, <2>8, Zenon DEF NowGot
<1>12. Fine(Gone \o Sending)
  <2>1. After(Start, Tail(Gone \o Sending)) = After(Cl, Sending)
    BY <1>1, <1>2, <1>5, ReadsMore DEF Cl
  <2>2. head.framing = "length" /\ head.len = res.content_length
    BY <1>0, <1>1 DEF Heading
  <2>3. After(Cl, Sending) = LenState(head.len, NowGot)
    BY <1>1, <2>2, Zenon DEF ClientAt
  <2>4. /\ LenState(head.len, NowGot).body = NowGot
        /\ LenState(head.len, NowGot).at # "bad"
    BY DEF LenState
  <2>5. ~Coded
    BY <1>1 DEF Coded
  <2> DEFINE w == Gone \o Sending
             b == NowGot
  <2>6. /\ After(Start, Tail(w)).body = b /\ After(Start, Tail(w)).at # "bad"
        /\ Written = b \o rest /\ b \in Seq(Nat) /\ Len(b) = res.content_length
    BY <1>1, <1>11, <2>1, <2>3, <2>4, Zenon
  <2> HIDE DEF w, b
  <2>7. After(Start, Tail(w)).at = "end" =>
              \/ rest = <<>> /\ (Coded => Written = Ended)
              \/ res.has_length /\ ~Coded /\ Len(b) = res.content_length
    BY <1>1, <2>5, <2>6
  <2>8. Fine(w)
    <3>1. 0 \in Nat
      OBVIOUS
    <3> QED BY <1>2, <2>6, <2>7, <3>1, StandIsFine
  <2> QED BY <2>8 DEF w
<1>13. Fine(wire)'
  <2>1. Start' = Start /\ NoBody' = NoBody
    BY <1>3, SameStart
  <2>2. Terminated' = Terminated /\ Coded' = Coded /\ Written' = Written
    BY <1>3, <2>1, Zenon DEF Terminated, Coded, Written
  <2>3. Fine(wire)' = FineFor(wire', Start, Terminated, NoBody, Coded, Written,
                              res.has_length, res.content_length)
    BY <1>3, <2>1, <2>2, Zenon DEF Fine
  <2> QED BY <1>12, <2>3, Zenon DEF Fine
<1>14. over' # "keep" /\ KeptIsComplete'
  BY <1>3 DEF KeptIsComplete
<1>15. Settled'
  BY <1>4, <1>13, <1>14 DEF Settled
<1> QED BY <1>7, <1>9, <1>10, <1>15 DEF IInv

LEMMA FlushSendStep ==
    ASSUME Types, Bounded, LiveInv, Live, FlushSend
    PROVE  IInv'
<1>1. /\ fl.at = "send" /\ pw' = <<>> /\ cw' = <<>> /\ UNCHANGED <<req, st, pend, head, written>>
  BY DEF FlushSend
<1>2. \/ /\ Sent(fl.head, Sending)
         /\ res' = [res EXCEPT !.body_sent = @ + Taken + TakenRaw, !.failed = Short]
         /\ fl' = NoFlush
         /\ call' = IF Short THEN NoCall ELSE call
         /\ over' = IF Short /\ call.op = "finish" THEN "closed" ELSE over
      \/ /\ Unsent(fl.head)
         /\ Fail
  BY Zenon DEF FlushSend, Sending, Short, Out, OutRaw, Taken, TakenRaw, Slab
<1>3. CASE /\ Sent(fl.head, Sending)
           /\ res' = [res EXCEPT !.body_sent = @ + Taken + TakenRaw, !.failed = Short]
           /\ fl' = NoFlush
           /\ call' = IF Short THEN NoCall ELSE call
           /\ over' = IF Short /\ call.op = "finish" THEN "closed" ELSE over
  <2>1. wire' = Gone \o Sending
    BY <1>3, Zenon DEF Sent, Gone
  <2>2. Len(NowGot) = res.body_sent + Taken + TakenRaw
    BY <1>1, SendIs
  <2>3. res' = [res EXCEPT !.body_sent = Len(NowGot), !.failed = Short]
    BY <1>3, <2>2, Zenon
  <2>4. CASE Short
    <3>1. call' = NoCall /\ over' \in {"open", "closed"}
      BY <1>3, <2>4 DEF Live
    <3>2. res' = [res EXCEPT !.body_sent = Len(NowGot), !.failed = TRUE]
      <4>1. Short = TRUE
        BY <2>4 DEF Short
      <4> QED BY <2>3, <4>1, Zenon
    <3> QED BY <1>1, <1>3, <2>1, <2>4, <3>1, <3>2, SendCut
  <2>5. CASE ~Short
    <3>1. UNCHANGED <<call, over>>
      BY <1>3, <2>5
    <3>2. res' = [res EXCEPT !.body_sent = Len(NowGot)]
      <4>1. Short = FALSE
        BY <2>5 DEF Short
      <4> DEFINE n == Len(NowGot)
      <4>2. res' = [res EXCEPT !.body_sent = n, !.failed = FALSE]
        BY <2>3, <4>1, Zenon
      <4> HIDE DEF n
      <4>3. res.failed = FALSE
        BY DEF Live, Types
      <4>4. res' = [res EXCEPT !.body_sent = n]
        BY <4>2, <4>3 DEF Types
      <4> QED BY <4>4 DEF n
    <3> QED BY <1>1, <1>3, <2>1, <2>5, <3>1, <3>2, SendAll
  <2> QED BY <2>4, <2>5
<1>4. CASE /\ Unsent(fl.head)
           /\ Fail
  <2>1. Fails
    BY <1>1, <1>4, FailIs DEF Fails, Unsent, Gone
  <2> QED BY <2>1, FailStep
<1> QED BY <1>2, <1>3, <1>4, Zenon

-----------------------------------------------------------------------------
(* The end of the reply.                                                   *)

LEMMA FinishRestStep ==
    ASSUME Types, Bounded, LiveInv, Live, FinishRest
    PROVE  IInv'
<1>0. Calling /\ Staged /\ Heading
  BY DEF LiveInv
<1>1. /\ call.op = "none" /\ over = "open" /\ ~res.failed /\ res.head_sent /\ pw = <<>>
      /\ ~st.filter /\ UNCHANGED <<req, st, pw, cw, pend, head, written>>
  BY DEF FinishRest, Handler, Idle, Pending
<1>2. /\ fl.at = "none" /\ fl.extra = <<>> /\ fl.head = <<>> /\ call.data = <<>>
      /\ (~NoBody => Stream = Written)
  BY <1>1, AtRest
<1>3. Gone = wire /\ wire \in Seq(Units) /\ written \in Nat /\ <<>> \in Seq(Nat)
  BY <1>2, PartsAre, Cat
<1>4. CASE /\ wire' = IF res.chunked THEN Append(wire, Mark("last")) ELSE wire
           /\ call' = [op |-> "finish", data |-> <<>>]
           /\ UNCHANGED <<res, fl, over>>
  <2> DEFINE u == IF res.chunked THEN <<Mark("last")>> ELSE <<>>
  <2>1. u \in Seq(Units)
    <3>1. <<Mark("last")>> \in Seq(Units) /\ <<>> \in Seq(Units)
      BY UnitsAre
    <3> QED BY <3>1
  <2>2. wire' = wire \o u
    <3>1. CASE res.chunked
      <4>1. Mark("last") \in Units
        BY UnitsAre
      <4>2. Append(wire, Mark("last")) = wire \o <<Mark("last")>>
        BY <1>3, <4>1, AppendIsConcat
      <4> QED BY <1>4, <3>1, <4>2, Zenon
    <3>2. CASE ~res.chunked
      <4>1. wire \o <<>> = wire
        BY <1>3, ConcatEmptySeq
      <4> QED BY <1>4, <3>2, <4>1, Zenon
    <3> QED BY <3>1, <3>2
  <2>3. res.chunked = FALSE => u = <<>>
    OBVIOUS
  <2>31. res.chunked = TRUE => u = <<Mark("last")>>
    OBVIOUS
  <2> HIDE DEF u
  <2>4. res' = res /\ fl' = fl /\ over' = over /\ call'.op = "finish" /\ call'.data = <<>>
        /\ call' \in CallType
    BY <1>4, <1>3 DEF CallType
  <2>5. wire' \in Seq(Units) /\ Gone' = Gone \o u
    <3>1. wire \o u \in Seq(Units)
      BY <1>3, <2>1, ConcatProperties
    <3>2. (wire \o u) \o <<>> = wire \o u
      BY <3>1, ConcatEmptySeq
    <3>3. Gone' = wire' \o fl'.head
      BY DEF Gone
    <3> QED BY <1>2, <1>3, <2>2, <2>4, <3>1, <3>2, <3>3, Zenon
  <2>6. Done' = TRUE /\ Done = FALSE
    BY <1>1, <1>2, <2>4 DEF Done
  <2>7. Types'
    <3>1. call' \in [op : {"none", "raw", "write", "reserve", "flush", "finish"}, data : Seq(Nat)]
      BY <2>4, Zenon DEF CallType
    <3>2. /\ req' = req /\ st' = st /\ pend' = pend /\ head' = head /\ written' = written
          /\ pw' = pw /\ cw' = cw
      BY <1>1
    <3>3. res' = res /\ fl' = fl /\ over' = over /\ wire' \in Seq(Units)
      BY <2>4, <2>5
    <3> QED BY <3>1, <3>2, <3>3 DEF Types
  <2>8. Bounded'
    BY <1>1, <2>4 DEF Bounded
  <2>9. Live' /\ NoBody' = NoBody /\ Terminated' = Terminated
    BY <1>1, <2>4 DEF Live, NoBody, Terminated
  <2>10. Calling'
    BY <1>1, <1>2, <2>4 DEF Calling
  <2>11. Staged'
    BY <1>2, <2>4 DEF Staged
  <2>12. Heading'
    <3>1. /\ Cl' = After(Cl, u) /\ Gone' # <<>> /\ Gone'[1] = Mark("head")
      <4>1. req' = req /\ head' = head /\ res'.status = res.status
        BY <1>1, <2>4
      <4> QED BY <1>0, <1>1, <2>1, <2>5, <4>1, SentReads
    <3> QED BY <1>0, <1>1, <1>2, <2>4, <2>9, <3>1 DEF Heading
  <2>13. ASSUME NoBody PROVE Bare'
    <3>1. CASE Terminated
      BY <2>9, <3>1 DEF Bare
    <3>2. CASE ~Terminated
      <4>1. res.chunked = FALSE
        BY <1>0, <1>1, <2>13, <3>2 DEF Terminated, NoBody, Heading, Types
      <4>2. Gone' = Gone
        BY <1>3, <2>3, <2>5, <4>1, ConcatEmptySeq
      <4>3. Gone = HeadMark
        BY <1>1, <2>13, <3>2 DEF LiveInv, Bare
      <4> QED BY <4>2, <4>3 DEF Bare
    <3> QED BY <3>1, <3>2
  <2>14. ASSUME ~NoBody PROVE Measured' /\ ReadOn' /\ Flow'
    <3>0. Measured /\ ReadOn /\ Flow
      BY <2>14 DEF LiveInv
    <3>1. Got \in Seq(Nat) /\ Len(Got) = res.body_sent /\ Cl = Stand(Got)
      BY <1>1, <3>0 DEF ReadOn
    <3>2. Cl = ClientAt(head.framing, head.len, FALSE, Got)
      BY <2>6, <3>1, StandIs, Zenon
    <3>3. res.chunked = (head.framing = "chunked")
      BY <1>0, <1>1 DEF Heading
    <3>4. After(Cl, u) = ClientAt(head.framing, head.len, TRUE, Got)
      <4>1. CASE head.framing = "chunked"
        <5>1. Cl = ChunkState(FALSE, Got)
              /\ ClientAt(head.framing, head.len, TRUE, Got) = ChunkState(TRUE, Got)
          BY <3>2, <4>1 DEF ClientAt
        <5>2. u = <<Mark("last")>>
          BY <2>31, <3>3, <4>1
        <5> QED BY <5>1, <5>2, LastReads, Zenon
      <4>2. CASE head.framing # "chunked"
        <5>1. u = <<>>
          BY <2>3, <3>3, <4>2
        <5>2. ClientAt(head.framing, head.len, TRUE, Got) = Cl
          BY <3>2, <4>2, Zenon DEF ClientAt
        <5> QED BY <5>1, <5>2, AfterNone, Zenon
      <4> QED BY <4>1, <4>2
    <3>5. After(Cl, u) = ClientAt(head.framing, head.len, Done', Got)
      BY <2>6, <3>4, Zenon
    <3>6. res' = [res EXCEPT !.body_sent = Len(Got)]
      <4>1. res = [res EXCEPT !.body_sent = res.body_sent]
        BY DEF Types
      <4> QED BY <2>4, <3>1, <4>1, Zenon
    <3>7. ReadOn' /\ Got' = Got
      <4>1. UNCHANGED <<req, head, st, over>> /\ fl'.head = <<>>
        BY <1>1, <1>2, <2>4
      <4> QED BY <1>1, <2>1, <2>5, <2>14, <3>1, <3>5, <3>6, <4>1, SendStep
    <3>8. Measured'
      <4>1. ~(head.framing = "length" /\ (~res.has_length \/ st.filter))
        BY <1>1, <1>2, <2>6, <3>0 DEF Measured
      <4> QED BY <1>1, <2>4, <4>1 DEF Measured
    <3>9. Stream' = Stream /\ Written' = Written /\ Ended' = Ended
      BY <1>1, <1>2, <2>4, <3>7, SameStream
    <3>10. Flow'
      <4>1. cw = <<>> /\ pend = <<>> /\ Written # Ended
        BY <1>1, <1>3, <3>0, WrittenNotEnded DEF Flow
      <4> QED BY <1>1, <1>2, <2>4, <2>14, <3>9, <4>1 DEF Flow
    <3> QED BY <3>7, <3>8, <3>10
  <2>15. LiveInv'
    BY <2>9, <2>10, <2>11, <2>12, <2>13, <2>14 DEF LiveInv
  <2> QED BY <2>7, <2>8, <2>9, <2>15 DEF IInv
<1>5. CASE /\ res.chunked
           /\ res' = [res EXCEPT !.failed = TRUE]
           /\ over' = "closed"
           /\ UNCHANGED <<wire, call, fl>>
  <2>1. Fails
    BY <1>1, <1>2, <1>5 DEF Fails
  <2> QED BY <2>1, FailStep
<1> QED BY <1>4, <1>5 DEF FinishRest

\* At the end of a reply that is kept the client is at its end.
LEMMA EndReads ==
    ASSUME Types, LiveInv, Live, Done, ~res.close, ~Mismatch, ~Terminated
    PROVE  HeadOut /\ Client.at = "end"
<1>0. Calling /\ Staged /\ Heading
  BY DEF LiveInv
<1>1. res.head_sent /\ fl.at = "none" /\ call.op = "finish" /\ fl.head = <<>>
  BY <1>0 DEF Calling, Done
<1>2. Gone = wire
  BY <1>1, PartsAre
<1>3. wire # <<>> /\ wire[1].k = "head"
  BY <1>0, <1>1, <1>2, BareReads DEF Heading
<1>4. CASE NoBody
  <2>1. Gone = HeadMark
    BY <1>1, <1>4 DEF LiveInv, Bare
  <2>2. Client = Start
    BY <1>2, <2>1, BareReads, Zenon DEF Client
  <2>3. Start = Reading("end")
    BY <1>4 DEF Start
  <2>4. Client.at = "end"
    BY <2>2, <2>3 DEF Reading
  <2> QED BY <1>3, <2>4 DEF HeadOut
<1>5. CASE ~NoBody
  <2>1. Measured /\ ReadOn
    BY <1>5 DEF LiveInv
  <2>2. Len(Got) = res.body_sent /\ Cl = Stand(Got)
    BY <1>1, <2>1 DEF ReadOn
  <2>3. Client = Stand(Got)
    BY <1>2, <2>2, Zenon DEF Client, Cl
  <2>4. head.framing \in {"length", "chunked"} /\ st.no_body = NoBody
    BY <1>0, <1>1, <1>5 DEF Heading, Types
  <2>5. CASE head.framing = "length"
    <3>1. CASE res.has_length
      <4>1. head.len = res.content_length /\ res.body_sent = res.content_length
        BY <1>0, <1>1, <1>5, <2>4, <3>1 DEF Heading, Mismatch
      <4>2. Len(Got) = head.len
        BY <2>2, <4>1
      <4> QED BY <1>3, <2>3, <2>5, <4>2, StandFields DEF HeadOut
    <3>2. CASE ~res.has_length
      <4>1. Len(Got) = head.len
        BY <1>1, <2>1, <2>2, <2>5, <3>2 DEF Measured
      <4> QED BY <1>3, <2>3, <2>5, <4>1, StandFields DEF HeadOut
    <3> QED BY <3>1, <3>2
  <2>6. CASE head.framing = "chunked"
    BY <1>3, <2>3, <2>6, StandFields DEF HeadOut
  <2> QED BY <2>4, <2>5, <2>6
<1> QED BY <1>4, <1>5

LEMMA FinishEndStep ==
    ASSUME Types, Bounded, LiveInv, Live, FinishEnd
    PROVE  IInv'
<1>0. Calling /\ Staged /\ Heading
  BY DEF LiveInv
<1>1. /\ Done /\ res' = [res EXCEPT !.close = @ \/ Mismatch] /\ call' = NoCall
      /\ over' = (IF req.keep_alive /\ ~res'.close THEN "keep" ELSE "closed")
      /\ UNCHANGED <<req, st, pw, cw, pend, fl, wire, head, written>>
  BY DEF FinishEnd, Done
<1>2. Mismatch \in BOOLEAN
  BY DEF Mismatch, Types
<1>3. /\ res' \in [status : {"ok", "none", "304"}, has_length : BOOLEAN,
                   content_length : Nat, head_sent : BOOLEAN, chunked : BOOLEAN,
                   failed : BOOLEAN, close : BOOLEAN, body_sent : Nat]
      /\ res'.status = res.status /\ res'.has_length = res.has_length
      /\ res'.head_sent = res.head_sent /\ res'.chunked = res.chunked
      /\ res'.failed = res.failed /\ res'.close = (res.close \/ Mismatch)
      /\ res'.body_sent = res.body_sent /\ res'.content_length = res.content_length
  <2> HIDE DEF Mismatch
  <2> QED BY <1>1, <1>2 DEF Types
<1>4. call' \in CallType /\ call'.op = "none" /\ over' \in {"keep", "closed"}
  BY <1>1 DEF NoCall, CallType
<1>5. Types'
  BY <1>1, <1>3, <1>4 DEF Types, CallType
<1>6. Bounded' /\ ~Live'
  BY <1>1, <1>3, <1>4 DEF Bounded, Live
<1>7. Fine(wire)'
  <2>1. Fine(wire)
    BY LiveIsFine
  <2>2. req' = req /\ head' = head /\ written' = written /\ st'.filter = st.filter
        /\ wire' = wire
    BY <1>1
  <2> QED BY <1>3, <2>1, <2>2, SameFine
<1>8. Mismatch' = Mismatch /\ HeadOut' = HeadOut /\ Client' = Client /\ Terminated' = Terminated
  <2>1. Start' = Start
    BY <1>1, <1>3, SameStart
  <2>2. Client' = Client
    BY <1>1, <2>1, Zenon DEF Client
  <2>3. Mismatch' = Mismatch
    BY <1>1, <1>3 DEF Mismatch
  <2> QED BY <1>1, <1>3, <2>2, <2>3 DEF HeadOut, Terminated
<1>9. head.keep = (req.keep_alive /\ ~res.close)
  BY <1>0, <1>1 DEF Heading, Calling
<1>10. KeptIsComplete'
  <2>1. ASSUME over' = "keep", ~Terminated PROVE HeadOut /\ Client.at = "end" /\ head.keep
    <3>1. req.keep_alive /\ ~res.close /\ ~Mismatch
      BY <1>1, <1>3, <2>1
    <3> QED BY <1>1, <1>9, <2>1, <3>1, EndReads
  <2>2. ASSUME over' = "closed", head.keep PROVE Mismatch
    BY <1>1, <1>3, <1>9, <2>2
  <2> QED BY <1>1, <1>8, <2>1, <2>2 DEF KeptIsComplete
<1>11. Settled'
  <2>1. fl'.at = "none" /\ ~res'.failed
    BY <1>1, <1>3 DEF Done, Live
  <2> QED BY <1>4, <1>7, <1>10, <2>1 DEF Settled
<1> QED BY <1>5, <1>6, <1>11 DEF IInv

-----------------------------------------------------------------------------
(* The invariant holds at the start and in every step.                     *)

LEMMA InitIInv == Init => IInv
<1> SUFFICES ASSUME Init PROVE IInv
  OBVIOUS
<1>1. /\ call.op = "none" /\ call.data = <<>> /\ call \in CallType
      /\ fl \in FlushType /\ fl.at = "none" /\ fl.extra = <<>> /\ fl.head = <<>>
      /\ head \in [framing : {"none", "length", "chunked", "until_close"}, len : Nat,
                   keep : BOOLEAN]
  BY DEF Init, NoCall, NoFlush, NoHead, CallType, FlushType, Stages
<1>2. req \in [minor : {0, 1}, head_only : BOOLEAN, keep_alive : BOOLEAN, unread : BOOLEAN]
  <2>1. {m = "HEAD" : m \in Methods} \subseteq BOOLEAN
    OBVIOUS
  <2>2. req \in [minor : {0, 1}, head_only : {m = "HEAD" : m \in Methods},
                 keep_alive : BOOLEAN, unread : BOOLEAN]
    BY Zenon DEF Init
  <2> DEFINE H == {m = "HEAD" : m \in Methods}
  <2>3. H \subseteq BOOLEAN /\ req \in [minor : {0, 1}, head_only : H, keep_alive : BOOLEAN,
                                        unread : BOOLEAN]
    BY <2>1, <2>2
  <2> HIDE DEF H
  <2> QED BY <2>3
<1>3. /\ res \in [status : {"ok", "none", "304"}, has_length : BOOLEAN,
                  content_length : Nat, head_sent : BOOLEAN, chunked : BOOLEAN,
                  failed : BOOLEAN, close : BOOLEAN, body_sent : Nat]
      /\ ~res.head_sent /\ ~res.failed /\ ~res.chunked /\ res.body_sent = 0
  BY DEF Init
<1>4. st \in [on_head : BOOLEAN, filter : BOOLEAN, no_body : BOOLEAN]
  BY DEF Init
<1>5. /\ pw = <<>> /\ cw = <<>> /\ pend = <<>> /\ wire = <<>> /\ written = 0
      /\ over = "open" /\ <<>> \in Seq(Nat) /\ <<>> \in Seq(Units)
  BY Cat DEF Init
<1>6. Types
  BY <1>1, <1>2, <1>3, <1>4, <1>5 DEF Types, CallType, FlushType
<1>7. Bounded
  <2>1. Len(<<>>) = 0 /\ CodedCap \in Nat /\ 0 <= CodedCap /\ 0 <= SlabCap
    BY ReplyAssumption DEF CodedCap
  <2> QED BY <1>3, <1>5, <2>1 DEF Bounded
<1>8. Live /\ ~Done
  BY <1>1, <1>3, <1>5 DEF Live, Done
<1>9. Calling /\ Staged
  BY <1>1, <1>8 DEF Calling, Staged
<1>10. Heading /\ Measured /\ Bare
  BY <1>1, <1>3, <1>5 DEF Heading, Measured, Bare
<1>11. Got = <<>>
  BY <1>3 DEF Got
<1>12. ReadOn
  BY <1>3, <1>5, <1>11 DEF ReadOn
<1>13. Flow
  <2>1. Written = <<>>
    BY <1>5 DEF Written
  <2>2. <<>> \o <<>> = <<>>
    BY Cat
  <2>3. Stream = Written
    BY <1>1, <1>5, <1>11, <2>1, <2>2, Zenon DEF Stream, Join
  <2>4. Written # Ended
    BY <1>5, WrittenNotEnded
  <2> QED BY <1>1, <1>5, <1>8, <2>3, <2>4 DEF Flow
<1> QED BY <1>6, <1>7, <1>8, <1>9, <1>10, <1>12, <1>13 DEF IInv, LiveInv

\* Nothing changes.
LEMMA StutterStep ==
    ASSUME IInv, UNCHANGED vars
    PROVE  IInv'
<1>0. /\ req' = req /\ res' = res /\ st' = st /\ pw' = pw /\ cw' = cw /\ pend' = pend
      /\ call' = call /\ fl' = fl /\ wire' = wire /\ head' = head /\ written' = written
      /\ over' = over
  BY DEF vars
<1>1. Types' = Types /\ Bounded' = Bounded /\ Live' = Live
  BY <1>0, Zenon DEF Types, Bounded, Live
<1>2. Start' = Start /\ NoBody' = NoBody
  BY <1>0, SameStart
<1>3. /\ Done' = Done /\ Final' = Final /\ Gone' = Gone /\ Written' = Written
      /\ Terminated' = Terminated /\ HeadOut' = HeadOut /\ Mismatch' = Mismatch
  BY <1>0, Zenon DEF Done, Final, Gone, Written, Terminated, HeadOut, Mismatch
<1>4. Cl' = Cl /\ Client' = Client /\ Ended' = Ended /\ Coded' = Coded
  BY <1>0, <1>2, <1>3, Zenon DEF Cl, Client, Ended, Coded
<1>5. Got' = Got
  BY <1>0, <1>4, Zenon DEF Got
<1>6. Stream' = Stream /\ Stand(Got)' = Stand(Got)
  BY <1>0, <1>3, <1>5, Zenon DEF Stream, Stand
<1>7. Calling' = Calling
  BY <1>0, <1>3, Zenon DEF Calling
<1>8. Staged' = Staged
  BY <1>0, <1>2, <1>3, Zenon DEF Staged
<1>9. Heading' = Heading
  BY <1>0, <1>2, <1>3, Zenon DEF Heading
<1>10. Measured' = Measured
  BY <1>0, <1>3, Zenon DEF Measured
<1>11. ReadOn' = ReadOn
  BY <1>0, <1>4, <1>5, <1>6, Zenon DEF ReadOn
<1>12. Flow' = Flow
  BY <1>0, <1>3, <1>4, <1>6, Zenon DEF Flow
<1>13. Bare' = Bare
  BY <1>0, <1>3, Zenon DEF Bare
<1>14. LiveInv' = LiveInv
  BY <1>2, <1>7, <1>8, <1>9, <1>10, <1>11, <1>12, <1>13, Zenon DEF LiveInv
<1>15. Fine(wire)' = Fine(wire)
  BY <1>0, <1>2, <1>3, <1>4, Zenon DEF Fine
<1>16. KeptIsComplete' = KeptIsComplete
  BY <1>0, <1>3, <1>4, Zenon DEF KeptIsComplete
<1>17. Settled' = Settled
  BY <1>0, <1>15, <1>16, Zenon DEF Settled
<1> QED BY <1>1, <1>14, <1>17, Zenon DEF IInv

\* The connection of a failed reply closes.
LEMMA FinishFailedStep ==
    ASSUME Types, Bounded, Settled, res.failed, FinishFailed
    PROVE  IInv'
<1>0. /\ req' = req /\ res' = res /\ st' = st /\ pw' = pw /\ cw' = cw /\ pend' = pend
      /\ call' = call /\ fl' = fl /\ wire' = wire /\ head' = head /\ written' = written
      /\ over' = "closed"
  BY DEF FinishFailed
<1>1. Types' /\ Bounded' /\ ~Live'
  BY <1>0 DEF Types, Bounded, Live
<1>2. Fine(wire)'
  <2>1. Fine(wire)
    BY DEF Settled
  <2> QED BY <1>0, <2>1, SameFine
<1>3. KeptIsComplete'
  BY <1>0 DEF KeptIsComplete
<1>4. Settled'
  BY <1>0, <1>2, <1>3 DEF Settled
<1> QED BY <1>1, <1>4 DEF IInv

LEMMA NextIInv == IInv /\ [Next]_vars => IInv'
<1> SUFFICES ASSUME IInv, [Next]_vars PROVE IInv'
  OBVIOUS
<1>1. Types /\ Bounded /\ (Live => LiveInv) /\ (~Live => Settled)
  BY DEF IInv
<1>2. CASE UNCHANGED vars
  BY <1>2, StutterStep
<1>3. CASE Over
  BY <1>3, StutterStep DEF Over
<1>4. CASE Next /\ ~Over /\ Live
  <2>0. Types /\ Bounded /\ LiveInv /\ Live
    BY <1>1, <1>4
  <2>1. CASE ContentLength
    BY <2>0, <2>1, ContentLengthStep
  <2>2. CASE ReplyFilter
    BY <2>0, <2>2, ReplyFilterStep
  <2>3. CASE Write
    BY <2>0, <2>3, WriteStep
  <2>4. CASE WriteLoop
    BY <2>0, <2>4, WriteLoopStep
  <2>5. CASE Reserve
    BY <2>0, <2>5, ReserveStep
  <2>6. CASE Advance
    BY <2>0, <2>6, AdvanceStep
  <2>7. CASE Flush
    BY <2>0, <2>7, FlushStep
  <2>8. CASE Return
    BY <2>0, <2>8, ReturnStep
  <2>9. CASE FlushBegin
    BY <2>0, <2>9, FlushBeginStep
  <2>10. CASE FlushHead
    BY <2>0, <2>10, FlushHeadStep
  <2>11. CASE FlushOn
    BY <2>0, <2>11, FlushOnStep
  <2>12. CASE FlushNoBody
    BY <2>0, <2>12, FlushNoBodyStep
  <2>13. CASE Encode
    BY <2>0, <2>13, EncodeStep
  <2>14. CASE EncodeFails
    BY <2>0, <2>14, EncodeFailsStep
  <2>15. CASE EncodeSend
    BY <2>0, <2>15, EncodeSendStep
  <2>16. CASE FlushSend
    BY <2>0, <2>16, FlushSendStep
  <2>17. CASE FinishFlush
    BY <2>0, <2>17, FinishFlushStep
  <2>18. CASE FinishRest
    BY <2>0, <2>18, FinishRestStep
  <2>19. CASE FinishFailed
    BY <2>0, <2>19 DEF FinishFailed, Live
  <2>20. CASE FinishEnd
    BY <2>0, <2>20, FinishEndStep
  <2> QED BY <1>4, <2>1, <2>2, <2>3, <2>4, <2>5, <2>6, <2>7, <2>8, <2>9, <2>10, <2>11, <2>12,
            <2>13, <2>14, <2>15, <2>16, <2>17, <2>18, <2>19, <2>20
          DEF Next, Calls, Flushes, Finish
<1>5. CASE Next /\ ~Over /\ ~Live
  <2>1. /\ call.op = "none" /\ fl.at = "none" /\ ~(over = "open" /\ ~res.failed)
    BY <1>1, <1>5 DEF Settled, Live
  <2>2. ~Handler
    BY <2>1 DEF Handler, Idle
  <2>3. ~ContentLength /\ ~ReplyFilter /\ ~Write /\ ~Reserve /\ ~Flush /\ ~FinishFlush
        /\ ~FinishRest
    BY <2>2, Zenon DEF ContentLength, ReplyFilter, Write, Reserve, Flush, FinishFlush, FinishRest
  <2>4. ~WriteLoop /\ ~Advance /\ ~Return /\ ~FinishEnd
    BY <2>1 DEF WriteLoop, Advance, Return, FinishEnd
  <2>5. ~FlushBegin /\ ~FlushHead /\ ~FlushOn /\ ~FlushNoBody
    BY <2>1 DEF FlushBegin, FlushHead, FlushOn, FlushNoBody
  <2>6. ~Encode /\ ~EncodeFails /\ ~EncodeSend /\ ~FlushSend
    BY <2>1 DEF Encode, EncodeFails, EncodeSend, FlushSend
  <2>7. FinishFailed
    BY <1>5, <2>3, <2>4, <2>5, <2>6 DEF Next, Calls, Flushes, Finish
  <2>8. res.failed
    BY <2>7 DEF FinishFailed
  <2> QED BY <1>1, <1>5, <2>7, <2>8, FinishFailedStep
<1> QED BY <1>2, <1>3, <1>4, <1>5

\* What the invariant is for.
LEMMA IInvGives == IInv => WellFramed /\ NoFalseEnd /\ KeptIsComplete
<1> SUFFICES ASSUME IInv PROVE WellFramed /\ NoFalseEnd /\ KeptIsComplete
  OBVIOUS
<1>1. Fine(wire) /\ KeptIsComplete
  <2>1. CASE Live
    <3>1. Fine(wire)
      BY <2>1, LiveIsFine DEF IInv
    <3> QED BY <2>1, <3>1 DEF Live, KeptIsComplete
  <2>2. CASE ~Live
    BY <2>2 DEF IInv, Settled
  <2> QED BY <2>1, <2>2
<1>2. Bounded
  BY DEF IInv
<1>3. HeadOut =>
        /\ ~Terminated => Client.at # "bad"
        /\ ~NoBody /\ Client.at = "end" =>
              \/ Client.body = IF Coded THEN Append(Written, Trailer) ELSE Written
              \/ res.has_length /\ ~Coded /\ Client.body = SubSeq(Written, 1, res.content_length)
  BY <1>1, Zenon DEF Fine, FineFor, HeadOut, Client
<1> QED BY <1>1, <1>2, <1>3, Zenon DEF WellFramed, NoFalseEnd

LEMMA AlwaysIInv == Spec => []IInv
BY InitIInv, NextIInv, PTL DEF Spec

-----------------------------------------------------------------------------
\* WellFramedAlways.  Whatever the handler writes, reserves and flushes, in
\* whatever order, whether or not a coder is installed and wherever it cuts its
\* output, and whichever send fails: the client that reads what flush_with and
\* send_coded put on the wire never meets a unit the head's framing does not
\* announce; the slabs keep within their capacity, and body_sent within a
\* declared length (engine.c, ioxd_write to finish).
THEOREM WellFramedAlways == Spec => []WellFramed
BY AlwaysIInv, IInvGives, PTL

\* NoEndTooSoon.  For slabs of every size and any number of writes: a client
\* that reaches the end of the body by its framing (a length, or flush_with's
\* and finish's last chunk) has all the handler wrote, with the coder's trailer
\* if it is coded, or as much as the declared length announced.
THEOREM NoEndTooSoon == Spec => []NoFalseEnd
BY AlwaysIInv, IInvGives, PTL

\* OnlyWholeRepliesAreKept.  finish and after_dispatch keep the connection only
\* behind a reply that the client has read to its end and whose head did not
\* say close, and close it against its head only if the reply failed or missed
\* its declared length.
THEOREM OnlyWholeRepliesAreKept == Spec => []KeptIsComplete
BY AlwaysIInv, IInvGives, PTL
-----------------------------------------------------------------------------
(* The JSON writer, which writes into a reply, a pipe or a buffer.         *)

\* What the writer's fields say of the level it is in.
Standing == IF after_key THEN "key" ELSE IF depth \in has_value THEN "value" ELSE "empty"

\* The two masks and the depth tell all the reader knows: which levels are
\* objects, that every level below the open one waits inside a value, and how
\* far the open one is.
Mirrors ==
    /\ doc.torn = FALSE
    /\ doc.depth = depth
    /\ \A l \in 0..depth : l \in doc.obj <=> l \in is_object
    /\ \A l \in Levels : l < depth => l \in has_value /\ doc.ph[l] = "value"
    /\ doc.ph[depth] = Standing

\* The root is no object; a key stands in an object that has something.
KeysInObjects ==
    /\ 0 \notin is_object
    /\ after_key => depth \in is_object /\ depth \in has_value

Fields ==
    /\ depth \in Levels /\ has_value \subseteq Levels /\ is_object \subseteq Levels
    /\ after_key \in BOOLEAN /\ failed \in BOOLEAN

JsonInv ==
    /\ Fields /\ doc \in Document /\ doc.bad = FALSE
    /\ KeysInObjects
    /\ ~failed => Mirrors

-----------------------------------------------------------------------------
(* The reader.                                                             *)

LEMMA NowType ==
    ASSUME NEW d \in Document, NEW p \in Phases
    PROVE  /\ Now(d, p) \in Document
           /\ Now(d, p).bad = d.bad /\ Now(d, p).torn = d.torn
           /\ Now(d, p).depth = d.depth /\ Now(d, p).obj = d.obj
           /\ Now(d, p).ph = [d.ph EXCEPT ![d.depth] = p]
  BY DEF Now, Document

\* The comma that a value or a key owes is read, and nothing else changes.
LEMMA LeadReads ==
    ASSUME NEW d \in Document, d.torn = FALSE, NEW comma \in BOOLEAN,
           comma => LastIn(d) = "value"
    PROVE  Lead(d, comma) = IF comma THEN Now(d, "comma") ELSE d
  BY DEF Lead, ReadComma, Takes

\* r is what d becomes: not torn, bad only if d was, with these fields.
Becomes(d, r, dep, obj, ph) ==
    /\ r \in Document /\ r.bad = d.bad /\ r.torn = FALSE
    /\ r.depth = dep /\ r.obj = obj /\ r.ph = ph

LEMMA LeadFields ==
    ASSUME NEW d \in Document, d.torn = FALSE, NEW comma \in BOOLEAN,
           comma => LastIn(d) = "value"
    PROVE  /\ Becomes(d, Lead(d, comma), d.depth, d.obj, Lead(d, comma).ph)
           /\ LastIn(Lead(d, comma)) = IF comma THEN "comma" ELSE LastIn(d)
           /\ \A p \in Phases :
                 [Lead(d, comma).ph EXCEPT ![d.depth] = p] = [d.ph EXCEPT ![d.depth] = p]
<1>1. CASE comma
  <2>1. "comma" \in Phases
    BY DEF Phases
  <2>2. Lead(d, comma) = Now(d, "comma")
    BY <1>1, LeadReads
  <2>3. /\ Now(d, "comma") \in Document
        /\ Now(d, "comma").bad = d.bad /\ Now(d, "comma").torn = d.torn
        /\ Now(d, "comma").depth = d.depth /\ Now(d, "comma").obj = d.obj
        /\ Now(d, "comma").ph = [d.ph EXCEPT ![d.depth] = "comma"]
    BY <2>1, NowType
  <2>4. d.ph \in [Levels -> Phases] /\ d.depth \in Levels
    BY DEF Document
  <2> HIDE DEF Document, Levels, Phases
  <2> QED BY <1>1, <2>2, <2>3, <2>4 DEF Becomes, LastIn
<1>2. CASE ~comma
  <2>1. Lead(d, comma) = d
    BY <1>2, LeadReads
  <2> QED BY <1>2, <2>1 DEF Becomes, LastIn
<1> QED BY <1>1, <1>2

\* A value, a key and a bracket where they have their place.
LEMMA ReadsNow ==
    ASSUME NEW d \in Document, d.torn = FALSE, NEW comma \in BOOLEAN,
           comma => LastIn(d) = "value", NEW mark \in {"value", "key"},
           mark = "key" => Object(d) /\ (comma \/ LastIn(d) = "empty"),
           mark = "value" => IF Object(d) THEN ~comma /\ LastIn(d) = "key"
                             ELSE comma \/ LastIn(d) = "empty"
    PROVE  Becomes(d, Read(d, comma, mark), d.depth, d.obj,
                   [d.ph EXCEPT ![d.depth] = mark])
<1> DEFINE e == Lead(d, comma)
<1>1. /\ Becomes(d, e, d.depth, d.obj, e.ph)
      /\ LastIn(e) = IF comma THEN "comma" ELSE LastIn(d)
      /\ \A p \in Phases : [e.ph EXCEPT ![d.depth] = p] = [d.ph EXCEPT ![d.depth] = p]
  BY LeadFields
<1>2. Object(e) <=> Object(d)
  BY <1>1 DEF Becomes, Object
<1>3. e \in Document /\ e.bad = d.bad /\ e.torn = FALSE /\ e.depth = d.depth /\ e.obj = d.obj
  BY <1>1 DEF Becomes
<1> HIDE DEF e
<1>4. CASE mark = "value"
  <2>1. ValueIsDue(e)
    BY <1>1, <1>2, <1>4 DEF ValueIsDue
  <2>2. ReadMark(e, mark) = Now(e, "value")
    BY <1>3, <1>4, <2>1 DEF ReadMark, ReadValue, Takes
  <2>3. "value" \in Phases
    BY DEF Phases
  <2>4. /\ Now(e, "value") \in Document
        /\ Now(e, "value").bad = e.bad /\ Now(e, "value").torn = e.torn
        /\ Now(e, "value").depth = e.depth /\ Now(e, "value").obj = e.obj
        /\ Now(e, "value").ph = [e.ph EXCEPT ![e.depth] = "value"]
    BY <1>3, <2>3, NowType
  <2>5. [e.ph EXCEPT ![d.depth] = "value"] = [d.ph EXCEPT ![d.depth] = "value"]
    BY <1>1, <2>3
  <2>6. Now(e, "value").ph = [d.ph EXCEPT ![d.depth] = "value"]
    BY <1>3, <2>4, <2>5
  <2>7. Becomes(d, Now(e, "value"), d.depth, d.obj, [d.ph EXCEPT ![d.depth] = "value"])
    BY <1>3, <2>4, <2>6 DEF Becomes
  <2> QED BY <1>4, <2>2, <2>7 DEF Read, e
<1>5. CASE mark = "key"
  <2>1. Object(e) /\ LastIn(e) \in {"empty", "comma"}
    BY <1>1, <1>2, <1>5
  <2>2. ReadMark(e, mark) = Now(e, "key")
    BY <1>3, <1>5, <2>1 DEF ReadMark, ReadKey, Takes
  <2>3. "key" \in Phases
    BY DEF Phases
  <2>4. /\ Now(e, "key") \in Document
        /\ Now(e, "key").bad = e.bad /\ Now(e, "key").torn = e.torn
        /\ Now(e, "key").depth = e.depth /\ Now(e, "key").obj = e.obj
        /\ Now(e, "key").ph = [e.ph EXCEPT ![e.depth] = "key"]
    BY <1>3, <2>3, NowType
  <2>5. [e.ph EXCEPT ![d.depth] = "key"] = [d.ph EXCEPT ![d.depth] = "key"]
    BY <1>1, <2>3
  <2>6. Now(e, "key").ph = [d.ph EXCEPT ![d.depth] = "key"]
    BY <1>3, <2>4, <2>5
  <2>7. Becomes(d, Now(e, "key"), d.depth, d.obj, [d.ph EXCEPT ![d.depth] = "key"])
    BY <1>3, <2>4, <2>6 DEF Becomes
  <2> QED BY <1>5, <2>2, <2>7 DEF Read, e
<1> QED BY <1>4, <1>5

LEMMA ReadsOpen ==
    ASSUME NEW d \in Document, d.torn = FALSE, NEW comma \in BOOLEAN,
           comma => LastIn(d) = "value", d.depth < DEPTH, NEW object \in BOOLEAN,
           IF Object(d) THEN ~comma /\ LastIn(d) = "key" ELSE comma \/ LastIn(d) = "empty"
    PROVE  Becomes(d, Read(d, comma, IF object THEN "{" ELSE "["), d.depth + 1,
                   IF object THEN d.obj \cup {d.depth + 1} ELSE d.obj \ {d.depth + 1},
                   [d.ph EXCEPT ![d.depth] = "value", ![d.depth + 1] = "empty"])
<1> DEFINE e == Lead(d, comma)
<1>1. /\ Becomes(d, e, d.depth, d.obj, e.ph)
      /\ LastIn(e) = IF comma THEN "comma" ELSE LastIn(d)
      /\ \A p \in Phases : [e.ph EXCEPT ![d.depth] = p] = [d.ph EXCEPT ![d.depth] = p]
  BY LeadFields
<1>2. Object(e) <=> Object(d)
  BY <1>1 DEF Becomes, Object
<1>3. e \in Document /\ e.bad = d.bad /\ e.torn = FALSE /\ e.depth = d.depth /\ e.obj = d.obj
  BY <1>1 DEF Becomes
<1> HIDE DEF e
<1>4. ValueIsDue(e)
  BY <1>1, <1>2 DEF ValueIsDue
<1> DEFINE opened == [e EXCEPT !.depth = e.depth + 1,
                    !.obj = IF object THEN @ \cup {e.depth + 1} ELSE @ \ {e.depth + 1},
                    !.ph = [@ EXCEPT ![e.depth] = "value", ![e.depth + 1] = "empty"]]
<1>5. ReadOpen(e, object) = opened
  BY <1>3, <1>4 DEF ReadOpen, Takes
<1>6. ReadMark(e, IF object THEN "{" ELSE "[") = ReadOpen(e, object)
  <2>1. CASE object
    BY <2>1 DEF ReadMark
  <2>2. CASE ~object
    BY <2>2 DEF ReadMark
  <2> QED BY <2>1, <2>2
<1>7. d.depth \in Levels /\ d.depth + 1 \in Levels /\ d.ph \in [Levels -> Phases]
      /\ d.obj \in SUBSET Levels
  BY JsonConstants DEF Document, Levels
<1>8. [e.ph EXCEPT ![d.depth] = "value"] = [d.ph EXCEPT ![d.depth] = "value"]
  BY <1>1 DEF Phases
<1>9. [e.ph EXCEPT ![e.depth] = "value", ![e.depth + 1] = "empty"]
        = [d.ph EXCEPT ![d.depth] = "value", ![d.depth + 1] = "empty"]
  BY <1>3, <1>8
<1>10. [d.ph EXCEPT ![d.depth] = "value", ![d.depth + 1] = "empty"] \in [Levels -> Phases]
  BY <1>7 DEF Phases
<1>11. opened.bad = d.bad /\ opened.torn = FALSE /\ opened.depth = d.depth + 1
  BY <1>3 DEF Document
<1>12. opened.obj = IF object THEN d.obj \cup {d.depth + 1} ELSE d.obj \ {d.depth + 1}
  BY <1>3 DEF Document
<1>13. opened.ph = [d.ph EXCEPT ![d.depth] = "value", ![d.depth + 1] = "empty"]
  BY <1>3, <1>9 DEF Document
<1>14. opened.obj \in SUBSET Levels
  BY <1>7, <1>12
<1>15. opened \in Document
  BY <1>3, <1>7, <1>10, <1>11, <1>13, <1>14 DEF Document
<1> QED BY <1>5, <1>6, <1>11, <1>12, <1>13, <1>15 DEF Becomes, Read, e

LEMMA ReadsClose ==
    ASSUME NEW d \in Document, d.torn = FALSE, d.depth > 0,
           NEW object \in BOOLEAN, Object(d) <=> object, LastIn(d) \in {"empty", "value"}
    PROVE  Becomes(d, Read(d, FALSE, IF object THEN "}" ELSE "]"), d.depth - 1, d.obj, d.ph)
<1>1. Object(d) = object
  BY DEF Object
<1>2. ReadClose(d, object) = [d EXCEPT !.depth = d.depth - 1]
  BY <1>1 DEF ReadClose, Takes
<1>3. Read(d, FALSE, IF object THEN "}" ELSE "]") = ReadClose(d, object)
  <2>1. CASE object
    BY <2>1 DEF Read, Lead, ReadMark
  <2>2. CASE ~object
    BY <2>2 DEF Read, Lead, ReadMark
  <2> QED BY <2>1, <2>2
<1>4. d.depth - 1 \in Levels
  BY JsonConstants DEF Document, Levels
<1> QED BY <1>2, <1>3, <1>4 DEF Becomes, Document

\* What is left of marks that were cut is no worse.
LEMMA CutIsGood ==
    ASSUME NEW d \in Document, d.torn = FALSE, NEW comma \in BOOLEAN,
           comma => LastIn(d) = "value", NEW r \in Cut(d, comma)
    PROVE  r \in Document /\ r.bad = d.bad
<1>1. Lead(d, comma) \in Document /\ Lead(d, comma).bad = d.bad
  BY LeadFields DEF Becomes
<1> QED BY <1>1 DEF Cut, Document

-----------------------------------------------------------------------------
(* The writer.                                                             *)

\* Where a value has its place, for the writer and for the reader.
LEMMA Placed ==
    ASSUME JsonInv, ~failed, HasPlace
    PROVE  /\ doc \in Document /\ doc.torn = FALSE /\ doc.depth = depth
           /\ Comma \in BOOLEAN /\ (Comma => LastIn(doc) = "value")
           /\ IF Object(doc) THEN ~Comma /\ LastIn(doc) = "key" ELSE Comma \/ LastIn(doc) = "empty"
<1>1. Mirrors /\ KeysInObjects /\ doc \in Document /\ Fields
  BY DEF JsonInv
<1>2. doc.torn = FALSE /\ doc.depth = depth /\ LastIn(doc) = Standing
  BY <1>1 DEF Mirrors, LastIn
<1>3. Object(doc) <=> depth \in is_object
  BY <1>1, JsonConstants DEF Mirrors, Object, Fields, Levels
<1>4. Comma \in BOOLEAN
  BY DEF Comma
<1>5. Comma => LastIn(doc) = "value"
  BY <1>2 DEF Comma, Standing
<1>6. IF Object(doc) THEN ~Comma /\ LastIn(doc) = "key" ELSE Comma \/ LastIn(doc) = "empty"
  BY <1>1, <1>2, <1>3 DEF Comma, Standing, HasPlace, KeysInObjects
<1> QED BY <1>1, <1>2, <1>4, <1>5, <1>6

\* The sink takes the marks, or the call fails.
LEMMA MarksGoOut ==
    ASSUME NEW outcomes, NEW comma, NEW mark, NEW lost, Writes(outcomes, comma, mark, lost)
    PROVE  \/ doc' = Read(doc, comma, mark) /\ failed' = failed
           \/ doc' \in lost /\ failed' = TRUE
  BY DEF Writes

\* A call that fails leaves the fields in their ranges and the text as it is,
\* or cut.
LEMMA Failing ==
    ASSUME JsonInv, ~failed, failed' = TRUE, Fields', KeysInObjects',
           doc' \in Document, doc'.bad = doc.bad
    PROVE  JsonInv'
  BY DEF JsonInv

LEMMA Breaking ==
    ASSUME JsonInv, ~failed, Breaks
    PROVE  JsonInv'
<1>1. Fields'
  BY DEF JsonInv, Fields, Breaks, Levels
<1>2. KeysInObjects'
  BY DEF JsonInv, KeysInObjects, Breaks
<1> QED BY <1>1, <1>2, Failing DEF Breaks, JsonInv

\* What value_lead does to the fields.
LEMMA Leading ==
    ASSUME JsonInv, ~failed, HasPlace, value_lead, UNCHANGED <<depth, is_object>>,
           failed' \in BOOLEAN
    PROVE  Fields' /\ KeysInObjects' /\ depth \in has_value' /\ after_key' = FALSE
           /\ has_value \subseteq has_value'
<1>1. Fields /\ KeysInObjects
  BY DEF JsonInv
<1>2. depth \in has_value' /\ has_value \subseteq has_value' /\ has_value' \subseteq Levels
  BY <1>1 DEF value_lead, Fields, KeysInObjects
<1>3. after_key' = FALSE
  BY DEF value_lead
<1> QED BY <1>1, <1>2, <1>3 DEF Fields, KeysInObjects, Levels

\* A scalar: put_value and put_string.
LEMMA Valued ==
    ASSUME JsonInv, ~failed, HasPlace, value_lead, UNCHANGED <<depth, is_object>>,
           \/ doc' = Read(doc, Comma, "value") /\ failed' = failed
           \/ doc' \in Cut(doc, Comma) /\ failed' = TRUE
    PROVE  JsonInv'
<1>1. /\ doc \in Document /\ doc.torn = FALSE /\ doc.depth = depth
      /\ Comma \in BOOLEAN /\ (Comma => LastIn(doc) = "value")
      /\ IF Object(doc) THEN ~Comma /\ LastIn(doc) = "key" ELSE Comma \/ LastIn(doc) = "empty"
  BY Placed
<1>2. failed' \in BOOLEAN
  BY DEF JsonInv, Fields
<1>3. /\ Fields' /\ KeysInObjects' /\ depth \in has_value' /\ after_key' = FALSE
      /\ has_value \subseteq has_value'
  BY <1>2, Leading
<1>4. CASE doc' \in Cut(doc, Comma) /\ failed' = TRUE
  <2>1. doc' \in Document /\ doc'.bad = doc.bad
    BY <1>1, <1>4, CutIsGood
  <2> QED BY <1>3, <1>4, <2>1, Failing
<1>5. CASE doc' = Read(doc, Comma, "value") /\ failed' = failed
  <2>1. Becomes(doc, doc', doc.depth, doc.obj, [doc.ph EXCEPT ![doc.depth] = "value"])
    BY <1>1, <1>5, ReadsNow
  <2>2. Mirrors /\ doc.bad = FALSE /\ Fields
    BY DEF JsonInv
  <2>3. /\ doc' \in Document /\ doc'.bad = FALSE /\ doc'.torn = FALSE
        /\ doc'.depth = depth /\ doc'.obj = doc.obj
        /\ doc'.ph = [doc.ph EXCEPT ![depth] = "value"]
    BY <1>1, <2>1, <2>2 DEF Becomes
  <2>4. doc.ph \in [Levels -> Phases] /\ depth \in Levels
    BY <1>1 DEF Document
  <2>5. doc'.ph[depth] = Standing'
    BY <1>3, <2>3, <2>4 DEF Standing
  <2>6. \A l \in Levels : l < depth => l \in has_value' /\ doc'.ph[l] = "value"
    BY <1>3, <2>2, <2>3, <2>4, JsonConstants DEF Mirrors, Levels
  <2>7. \A l \in 0..depth : l \in doc'.obj <=> l \in is_object
    BY <2>2, <2>3 DEF Mirrors
  <2>8. Mirrors'
    BY <2>3, <2>5, <2>6, <2>7 DEF Mirrors, Levels
  <2> QED BY <1>3, <2>3, <2>8 DEF JsonInv
<1> QED BY <1>4, <1>5

LEMMA PutValueInv ==
    ASSUME JsonInv, NEW n, put_value(n)
    PROVE  JsonInv'
<1>1. ~failed
  BY DEF put_value
<1>2. CASE ~HasPlace
  BY <1>1, <1>2, Breaking DEF put_value
<1>3. CASE HasPlace
  <2>1. value_lead /\ InOneRun(Comma, "value", n) /\ UNCHANGED <<depth, is_object>>
    BY <1>3 DEF put_value
  <2>2. \/ doc' = Read(doc, Comma, "value") /\ failed' = failed
        \/ doc' \in {doc} /\ failed' = TRUE
    BY <2>1, MarksGoOut DEF InOneRun
  <2>3. doc \in Cut(doc, Comma)
    BY DEF Cut
  <2> QED BY <1>1, <1>3, <2>1, <2>2, <2>3, Valued
<1> QED BY <1>2, <1>3

LEMMA PutStringInv ==
    ASSUME JsonInv, NEW n, put_string(n)
    PROVE  JsonInv'
<1>1. ~failed
  BY DEF put_string
<1>2. CASE ~HasPlace
  BY <1>1, <1>2, Breaking DEF put_string
<1>3. CASE HasPlace
  <2>1. value_lead /\ InPieces(Comma, "value", n) /\ UNCHANGED <<depth, is_object>>
    BY <1>3 DEF put_string
  <2>2. \/ doc' = Read(doc, Comma, "value") /\ failed' = failed
        \/ doc' \in Cut(doc, Comma) /\ failed' = TRUE
    BY <2>1, MarksGoOut DEF InPieces
  <2> QED BY <1>1, <1>3, <2>1, <2>2, Valued
<1> QED BY <1>2, <1>3

\* A bracket: the level starts empty, whatever bits it had.
LEMMA OpenInv ==
    ASSUME JsonInv, NEW object \in BOOLEAN, open_level(object)
    PROVE  JsonInv'
<1>1. ~failed
  BY DEF open_level
<1>2. CASE depth = DEPTH \/ ~HasPlace
  BY <1>1, <1>2, Breaking DEF open_level
<1>3. CASE ~(depth = DEPTH \/ ~HasPlace)
  <2> DEFINE mark == IF object THEN "{" ELSE "["
  <2>1. /\ after_key' = FALSE
        /\ has_value' = (IF after_key THEN has_value ELSE has_value \cup {depth}) \ {depth + 1}
        /\ depth' = depth + 1
        /\ is_object' = IF object THEN is_object \cup {depth + 1} ELSE is_object \ {depth + 1}
        /\ InOneRun(Comma, mark, 1)
    BY <1>3 DEF open_level
  <2> HIDE DEF mark
  <2>2. /\ doc \in Document /\ doc.torn = FALSE /\ doc.depth = depth
        /\ Comma \in BOOLEAN /\ (Comma => LastIn(doc) = "value")
        /\ IF Object(doc) THEN ~Comma /\ LastIn(doc) = "key" ELSE Comma \/ LastIn(doc) = "empty"
    BY <1>1, <1>3, Placed
  <2>3. Mirrors /\ doc.bad = FALSE /\ Fields /\ KeysInObjects
    BY <1>1 DEF JsonInv
  <2>4. depth \in Nat /\ depth < DEPTH /\ depth + 1 \in Levels
    BY <1>3, <2>3, JsonConstants DEF Fields, Levels
  <2>5. \/ doc' = Read(doc, Comma, mark) /\ failed' = failed
        \/ doc' = doc /\ failed' = TRUE
    <3>1. \/ doc' = Read(doc, Comma, mark) /\ failed' = failed
          \/ doc' \in {doc} /\ failed' = TRUE
      BY <2>1, MarksGoOut DEF InOneRun
    <3> QED BY <3>1
  <2>6. failed' \in BOOLEAN
    BY <2>3, <2>5 DEF Fields
  <2> DEFINE up == depth + 1
  <2>a. up \in Nat /\ up # 0 /\ up # depth /\ \A l \in Levels : l < depth => l # up
    BY <2>4 DEF Levels
  <2>b. /\ \A l : l # up => (l \in is_object' <=> l \in is_object)
        /\ up \in is_object' <=> object
        /\ \A l : l # up /\ l \in has_value => l \in has_value'
        /\ up \notin has_value'
    <3> HIDE DEF up
    <3>1. is_object' = IF object THEN is_object \cup {up} ELSE is_object \ {up}
      BY <2>1 DEF up
    <3>2. has_value' = (IF after_key THEN has_value ELSE has_value \cup {depth}) \ {up}
      BY <2>1 DEF up
    <3> QED BY <3>1, <3>2
  <2>7. Fields'
    BY <2>1, <2>3, <2>4, <2>6 DEF Fields, Levels
  <2>8. KeysInObjects'
    <3>1. 0 \notin is_object'
      BY <2>a, <2>b, <2>3 DEF KeysInObjects
    <3> QED BY <2>1, <3>1 DEF KeysInObjects
  <2>9. CASE doc' = doc /\ failed' = TRUE
    BY <1>1, <2>2, <2>7, <2>8, <2>9, Failing
  <2>10. CASE doc' = Read(doc, Comma, mark) /\ failed' = failed
    <3>1. Becomes(doc, doc', doc.depth + 1,
                  IF object THEN doc.obj \cup {doc.depth + 1} ELSE doc.obj \ {doc.depth + 1},
                  [doc.ph EXCEPT ![doc.depth] = "value", ![doc.depth + 1] = "empty"])
      BY <2>2, <2>4, <2>10, ReadsOpen DEF mark
    <3>2. /\ doc' \in Document /\ doc'.bad = FALSE /\ doc'.torn = FALSE
          /\ doc'.depth = depth + 1
          /\ doc'.obj = IF object THEN doc.obj \cup {depth + 1} ELSE doc.obj \ {depth + 1}
          /\ doc'.ph = [doc.ph EXCEPT ![depth] = "value", ![depth + 1] = "empty"]
      BY <2>2, <2>3, <3>1 DEF Becomes
    <3>3. doc.ph \in [Levels -> Phases] /\ depth \in Levels
      BY <2>2 DEF Document
    <3>4. doc'.ph[depth + 1] = "empty" /\ doc'.ph[depth] = "value"
          /\ \A l \in Levels : l < depth => doc'.ph[l] = doc.ph[l]
      <4>1. doc'.ph = [doc.ph EXCEPT ![depth] = "value", ![up] = "empty"]
        BY <3>2
      <4>2. up \in Levels /\ \A l \in Levels : l < depth => l # depth
        BY <2>4 DEF Levels
      <4>3. doc'.ph[up] = "empty" /\ doc'.ph[depth] = "value"
            /\ \A l \in Levels : l < depth => doc'.ph[l] = doc.ph[l]
        <5> HIDE DEF up, Levels
        <5> QED BY <2>a, <3>3, <4>1, <4>2
      <4> QED BY <4>3
    <3>5. Standing' = "empty"
      BY <2>1 DEF Standing
    <3>6. depth \in has_value'
      <4>1. CASE after_key
        BY <4>1, <2>a, <2>b, <2>3 DEF KeysInObjects
      <4>2. CASE ~after_key
        <5>1. has_value' = (has_value \cup {depth}) \ {up}
          BY <4>2, <2>1
        <5> HIDE DEF up
        <5> QED BY <5>1, <2>a
      <4> QED BY <4>1, <4>2
    <3>7. \A l \in Levels : l < depth => l \in has_value'
      BY <2>a, <2>b, <2>3 DEF Mirrors
    <3>8. \A l \in Levels : l < depth + 1 => l \in has_value' /\ doc'.ph[l] = "value"
      <4> TAKE l \in Levels
      <4> HAVE l < depth + 1
      <4>1. CASE l = depth
        BY <4>1, <3>4, <3>6
      <4>2. CASE l < depth
        BY <4>2, <2>3, <3>4, <3>7 DEF Mirrors
      <4> QED BY <4>1, <4>2, <2>4 DEF Levels
    <3>9. \A l \in 0..depth + 1 : l \in doc'.obj <=> l \in is_object'
      <4> TAKE l \in 0..depth + 1
      <4>1. doc'.obj = IF object THEN doc.obj \cup {up} ELSE doc.obj \ {up}
        BY <3>2
      <4>2. l # up => l \in 0..depth
        BY <2>4
      <4>3. l # up => (l \in doc.obj <=> l \in is_object)
        BY <4>2, <2>3 DEF Mirrors
      <4> HIDE DEF up
      <4> QED BY <2>b, <4>1, <4>3
    <3>10. Mirrors'
      BY <2>1, <3>2, <3>4, <3>5, <3>8, <3>9 DEF Mirrors, Levels
    <3> QED BY <2>7, <2>8, <3>2, <3>10 DEF JsonInv
  <2> QED BY <2>5, <2>9, <2>10
<1> QED BY <1>2, <1>3

\* The closing bracket is the one of the level, which goes on behind a value.
LEMMA EndInv ==
    ASSUME JsonInv, ioxd_json_end
    PROVE  JsonInv'
<1>1. ~failed
  BY DEF ioxd_json_end
<1>2. CASE ~MayEnd
  BY <1>1, <1>2, Breaking DEF ioxd_json_end
<1>3. CASE MayEnd
  <2> DEFINE object == depth \in is_object
             mark == IF object THEN "}" ELSE "]"
  <2>1. depth' = depth - 1 /\ InOneRun(FALSE, mark, 1)
        /\ UNCHANGED <<has_value, is_object, after_key>>
    BY <1>3 DEF ioxd_json_end
  <2>2. depth > 0 /\ ~after_key
    BY <1>3 DEF MayEnd
  <2>3. Mirrors /\ doc.bad = FALSE /\ Fields /\ KeysInObjects /\ doc \in Document
    BY <1>1 DEF JsonInv
  <2>4. depth \in Nat /\ depth - 1 \in Levels /\ depth \in Levels /\ depth - 1 < depth
    BY <2>2, <2>3, JsonConstants DEF Fields, Levels
  <2>5. \/ doc' = Read(doc, FALSE, mark) /\ failed' = failed
        \/ doc' = doc /\ failed' = TRUE
    <3> HIDE DEF mark
    <3>1. \/ doc' = Read(doc, FALSE, mark) /\ failed' = failed
          \/ doc' \in {doc} /\ failed' = TRUE
      BY <2>1, MarksGoOut DEF InOneRun
    <3> QED BY <3>1
  <2>6. failed' \in BOOLEAN
    BY <2>3, <2>5 DEF Fields
  <2>7. after_key' = FALSE
    BY <2>1, <2>2, <2>3 DEF Fields
  <2>8. Fields'
    BY <2>1, <2>3, <2>4, <2>6, <2>7 DEF Fields, Levels
  <2>9. KeysInObjects'
    BY <2>1, <2>3, <2>7 DEF KeysInObjects
  <2>10. CASE doc' = doc /\ failed' = TRUE
    BY <1>1, <2>3, <2>8, <2>9, <2>10, Failing
  <2>11. CASE doc' = Read(doc, FALSE, mark) /\ failed' = failed
    <3>1. doc.torn = FALSE /\ doc.depth = depth /\ LastIn(doc) \in {"empty", "value"}
      BY <2>2, <2>3 DEF Mirrors, LastIn, Standing
    <3>2. Object(doc) <=> object
      BY <2>3, <2>4 DEF Mirrors, Object
    <3>3. object \in BOOLEAN
      OBVIOUS
    <3>4. Becomes(doc, doc', depth - 1, doc.obj, doc.ph)
      <4> HIDE DEF object
      <4> QED BY <2>2, <2>3, <2>11, <3>1, <3>2, <3>3, ReadsClose
    <3>5. /\ doc' \in Document /\ doc'.bad = FALSE /\ doc'.torn = FALSE
          /\ doc'.depth = depth - 1 /\ doc'.obj = doc.obj /\ doc'.ph = doc.ph
      BY <2>3, <3>4 DEF Becomes
    <3>6. Standing' = "value"
      BY <2>1, <2>3, <2>4, <2>7 DEF Standing, Mirrors
    <3>7. doc'.ph[depth - 1] = "value"
      BY <2>3, <2>4, <3>5 DEF Mirrors
    <3>8. \A l \in Levels : l < depth - 1 => l \in has_value' /\ doc'.ph[l] = "value"
      <4>1. \A l \in Levels : l < depth - 1 => l < depth
        BY <2>4 DEF Levels
      <4> QED BY <4>1, <2>1, <2>3, <3>5 DEF Mirrors
    <3>9. \A l \in 0..depth - 1 : l \in doc'.obj <=> l \in is_object'
      <4>1. \A l \in 0..depth - 1 : l \in 0..depth
        BY <2>4
      <4> QED BY <4>1, <2>1, <2>3, <3>5 DEF Mirrors
    <3>10. Mirrors'
      BY <2>1, <3>5, <3>6, <3>7, <3>8, <3>9 DEF Mirrors, Levels
    <3> QED BY <2>8, <2>9, <3>5, <3>10 DEF JsonInv
  <2> QED BY <2>5, <2>10, <2>11
<1> QED BY <1>2, <1>3

LEMMA KeyInv ==
    ASSUME JsonInv, NEW n, ioxd_json_key(n)
    PROVE  JsonInv'
<1>1. ~failed
  BY DEF ioxd_json_key
<1>2. CASE depth \notin is_object \/ after_key
  BY <1>1, <1>2, Breaking DEF ioxd_json_key
<1>3. CASE ~(depth \notin is_object \/ after_key)
  <2> DEFINE comma == depth \in has_value
  <2>1. /\ has_value' = has_value \cup {depth}
        /\ InPieces(comma, "key", n)
        /\ after_key' = ~failed'
        /\ UNCHANGED <<depth, is_object>>
    BY <1>3 DEF ioxd_json_key
  <2>2. Mirrors /\ doc.bad = FALSE /\ Fields /\ KeysInObjects /\ doc \in Document
    BY <1>1 DEF JsonInv
  <2>3. doc.torn = FALSE /\ doc.depth = depth /\ LastIn(doc) = IF comma THEN "value" ELSE "empty"
    BY <1>3, <2>2 DEF Mirrors, LastIn, Standing
  <2>4. comma \in BOOLEAN
    OBVIOUS
  <2>5. depth \in Levels /\ depth \in Nat
    BY <2>2 DEF Fields, Levels
  <2>6. Object(doc)
    BY <1>3, <2>2, <2>5 DEF Mirrors, Object
  <2>7. \/ doc' = Read(doc, comma, "key") /\ failed' = failed
        \/ doc' \in Cut(doc, comma) /\ failed' = TRUE
    BY <2>1, MarksGoOut DEF InPieces
  <2>8. failed' \in BOOLEAN /\ after_key' \in BOOLEAN
    BY <2>1, <2>2, <2>7 DEF Fields
  <2>9. has_value' \subseteq Levels
    BY <2>1, <2>2, <2>5 DEF Fields
  <2>10. Fields'
    BY <2>1, <2>2, <2>8, <2>9 DEF Fields, Levels
  <2>11. KeysInObjects'
    BY <1>3, <2>1, <2>2 DEF KeysInObjects
  <2> HIDE DEF comma
  <2>12. CASE doc' \in Cut(doc, comma) /\ failed' = TRUE
    <3>1. doc' \in Document /\ doc'.bad = doc.bad
      BY <2>2, <2>3, <2>4, <2>12, CutIsGood
    <3> QED BY <1>1, <2>10, <2>11, <2>12, <3>1, Failing
  <2>13. CASE doc' = Read(doc, comma, "key") /\ failed' = failed
    <3>1. Becomes(doc, doc', doc.depth, doc.obj, [doc.ph EXCEPT ![doc.depth] = "key"])
      BY <2>2, <2>3, <2>4, <2>6, <2>13, ReadsNow
    <3>2. /\ doc' \in Document /\ doc'.bad = FALSE /\ doc'.torn = FALSE
          /\ doc'.depth = depth /\ doc'.obj = doc.obj
          /\ doc'.ph = [doc.ph EXCEPT ![depth] = "key"]
      BY <2>2, <2>3, <3>1 DEF Becomes
    <3>3. doc.ph \in [Levels -> Phases]
      BY <2>2 DEF Document
    <3>4. after_key'
      BY <1>1, <2>1, <2>13
    <3>5. doc'.ph[depth] = Standing'
      BY <2>5, <3>2, <3>3, <3>4 DEF Standing
    <3>6. \A l \in Levels : l < depth => l \in has_value' /\ doc'.ph[l] = "value"
      BY <2>1, <2>2, <2>5, <3>2, <3>3 DEF Mirrors, Levels
    <3>7. \A l \in 0..depth : l \in doc'.obj <=> l \in is_object
      BY <2>2, <3>2 DEF Mirrors
    <3>8. Mirrors'
      BY <2>1, <3>2, <3>5, <3>6, <3>7 DEF Mirrors, Levels
    <3> QED BY <2>10, <2>11, <3>2, <3>8 DEF JsonInv
  <2> QED BY <2>7, <2>12, <2>13
<1> QED BY <1>2, <1>3

LEMMA InitJsonInv == JsonInit => JsonInv
<1> SUFFICES ASSUME JsonInit PROVE JsonInv
  OBVIOUS
<1>1. 0 \in Levels
  BY JsonConstants DEF Levels
<1>2. Fields /\ KeysInObjects
  BY <1>1 DEF JsonInit, Fields, KeysInObjects
<1>3. doc \in Document /\ doc.bad = FALSE
  BY <1>1 DEF JsonInit, Document, Phases
<1>4. Mirrors
  BY <1>1 DEF JsonInit, Mirrors, Standing, Levels
<1> QED BY <1>2, <1>3, <1>4 DEF JsonInv

LEMMA Untouched ==
    ASSUME JsonInv, UNCHANGED <<depth, has_value, is_object, after_key, failed, doc>>
    PROVE  JsonInv'
  BY DEF JsonInv, Fields, KeysInObjects, Mirrors, Standing, Levels, Document

LEMMA NextJsonInv == JsonInv /\ [JsonNext]_jsonVars => JsonInv'
<1> SUFFICES ASSUME JsonInv, [JsonNext]_jsonVars PROVE JsonInv'
  OBVIOUS
<1>1. ASSUME NEW n \in Sizes, put_value(n) \/ put_string(n) \/ ioxd_json_key(n)
      PROVE  JsonInv'
  BY <1>1, PutValueInv, PutStringInv, KeyInv
<1>2. CASE NoValue
  BY <1>2, Breaking DEF NoValue
<1>3. ASSUME NEW object \in BOOLEAN, open_level(object) PROVE JsonInv'
  BY <1>3, OpenInv
<1>4. CASE ioxd_json_end
  BY <1>4, EndInv
<1>5. CASE Elsewhere
  BY <1>5, Untouched DEF Elsewhere
<1>6. CASE UNCHANGED jsonVars
  BY <1>6, Untouched DEF jsonVars
<1> QED BY <1>1, <1>2, <1>3, <1>4, <1>5, <1>6 DEF JsonNext, Call

\* TextIsJson.  For every depth and every sink: whatever is called and
\* wherever a flush fails, the text is a prefix of JSON, and when
\* ioxd_json_done says so it is whole.
THEOREM TextIsJson == JsonSpec => []WritesJson
<1>1. JsonInv => WritesJson
  <2> SUFFICES ASSUME JsonInv PROVE WritesJson
    OBVIOUS
  <2>1. PrefixOfJson
    BY DEF JsonInv, PrefixOfJson
  <2>2. ASSUME ioxd_json_done
        PROVE  doc.depth = 0 /\ ~doc.torn /\ doc.ph[0] \in {"empty", "value"}
    <3>1. Mirrors /\ depth = 0 /\ KeysInObjects
      BY <2>2 DEF ioxd_json_done, JsonInv
    <3>2. doc.depth = 0 /\ ~doc.torn
      BY <3>1 DEF Mirrors
    <3>3. ~after_key
      BY <3>1 DEF KeysInObjects
    <3>4. doc.ph[0] = Standing
      BY <3>1 DEF Mirrors
    <3> QED BY <3>1, <3>2, <3>3, <3>4 DEF Standing
  <2> QED BY <2>1, <2>2 DEF WritesJson, DoneIsWhole
<1> QED BY <1>1, InitJsonInv, NextJsonInv, PTL DEF JsonSpec

\* FailureIsFinal.  Once a call has failed, no later one writes a byte or
\* reports success.
THEOREM FailureIsFinal == JsonSpec => FailedIsFinal
<1>1. [JsonNext]_jsonVars => [failed => failed' /\ doc' = doc]_jsonVars
  <2> SUFFICES ASSUME JsonNext, failed PROVE failed' /\ doc' = doc
    BY DEF jsonVars
  <2>1. ~Call
    BY DEF Call, put_value, put_string, ioxd_json_key, NoValue, open_level, ioxd_json_end
  <2> QED BY <2>1 DEF JsonNext, Elsewhere
<1> QED BY <1>1, PTL DEF JsonSpec, FailedIsFinal
=============================================================================
