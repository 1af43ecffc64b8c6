-------------------------- MODULE HandshakeProofs --------------------------
(***************************************************************************)
(* The handover to kernel TLS is right for records of any size, cut        *)
(* anywhere, any number of early ones and any limit on their plaintext.    *)
(*                                                                         *)
(* InOrder speaks of the end, got and garbled once the handler serves; the *)
(* invariant says how the prologue gets there: taken is always a number of *)
(* whole records and the piece in hand (Hand), the early plaintext is what *)
(* those records carry (Early), the kernel starts behind them unless a     *)
(* close_notify stopped the drain (Handover), and goes on record by record *)
(* (Served).                                                               *)
(***************************************************************************)
EXTENDS Handshake, WellFoundedInduction, NaturalsInduction, SequenceTheorems, TLAPS

Kinds == {"hello", "finished", "data", "close", "update", "answered", "other"}
Recs  == [kind : Kinds, n : Nat]
Units == Nat \X Nat

-----------------------------------------------------------------------------
(* Numbers and recursive functions.                                        *)

\* Induction, as a fact about sets.
LEMMA NatSet ==
    ASSUME NEW S, 0 \in S, \A n \in Nat : n \in S => n + 1 \in S
    PROVE  \A n \in Nat : n \in S
<1> SUFFICES ASSUME Nat \ S # {} PROVE FALSE
  OBVIOUS
<1> DEFINE R == OpToRel(<, Nat)
<1>1. IsWellFoundedOn(R, Nat)
  BY NatLessThanWellFounded
<1>2. \A x, y \in Nat : <<x, y>> \in R <=> x < y
  BY DEF OpToRel
<1> HIDE DEF R
<1>3. PICK x \in Nat \ S : \A y \in Nat \ S : ~ (<<y, x>> \in R)
  BY <1>1, WFMin
<1>4. x # 0 /\ x - 1 \in Nat /\ x - 1 < x
  BY <1>3
<1>5. x - 1 \in S
  BY <1>2, <1>3, <1>4
<1>6. (x - 1) + 1 \in S
  BY <1>4, <1>5
<1> QED BY <1>3, <1>4, <1>6

\* ... up to a bound.
LEMMA UpTo ==
    ASSUME NEW S, NEW m \in Nat, 0 \in S,
           \A n \in Nat : n < m /\ n \in S => n + 1 \in S
    PROVE  \A n \in 0..m : n \in S
<1> DEFINE T == {n \in Nat : n <= m => n \in S}
<1>1. 0 \in T
  OBVIOUS
<1>2. ASSUME NEW n \in Nat, n \in T PROVE n + 1 \in T
  BY <1>2
<1> HIDE DEF T
<1>3. \A n \in Nat : n \in T
  BY <1>1, <1>2, NatSet
<1> QED BY <1>3 DEF T

\* A record has a positive size.
LEMMA SizeIs ==
    ASSUME NEW r \in Recs
    PROVE  Size(r) \in Nat /\ Size(r) > Hdr /\ Hdr \in Nat /\ Hdr > 0
BY HandshakeAssumption DEF Recs, Size

\* What Ends(s) is, up to the n-th record.
IsEnds(s, n, f) == f = [j \in 0..n |-> IF j = 0 THEN 0 ELSE f[j - 1] + Size(s[j])]

LEMMA EndsExist ==
    ASSUME NEW s, NEW m \in Nat
    PROVE  \E f : IsEnds(s, m, f)
<1> DEFINE S == {n \in Nat : \E f : IsEnds(s, n, f)}
<1>1. 0 \in S
  <2>1. IsEnds(s, 0, [j \in 0..0 |-> 0])
    BY DEF IsEnds
  <2> QED BY <2>1
<1>2. ASSUME NEW n \in Nat, n \in S PROVE n + 1 \in S
  <2>1. PICK f : IsEnds(s, n, f)
    BY <1>2
  <2> DEFINE g == [j \in 0..n + 1 |-> IF j = n + 1 THEN f[n] + Size(s[n + 1]) ELSE f[j]]
  <2>2. \A j \in 0..n : g[j] = f[j]
    OBVIOUS
  <2>3. ASSUME NEW j \in 0..n + 1
        PROVE  g[j] = IF j = 0 THEN 0 ELSE g[j - 1] + Size(s[j])
    <3>1. CASE j = n + 1
      <4>1. j # 0 /\ j - 1 = n /\ g[j] = f[n] + Size(s[n + 1])
        BY <3>1
      <4> QED BY <2>2, <3>1, <4>1
    <3>2. CASE j \in 0..n
      <4>1. f[j] = IF j = 0 THEN 0 ELSE f[j - 1] + Size(s[j])
        BY <2>1, <3>2 DEF IsEnds
      <4>2. j # 0 => j - 1 \in 0..n
        BY <3>2
      <4> HIDE DEF g
      <4> QED BY <2>2, <3>2, <4>1, <4>2
    <3> QED BY <3>1, <3>2
  <2>4. g = [j \in 0..n + 1 |-> g[j]]
    OBVIOUS
  <2> HIDE DEF g
  <2>5. IsEnds(s, n + 1, g)
    BY <2>3, <2>4 DEF IsEnds
  <2> QED BY <2>5
<1> HIDE DEF S
<1>3. m \in S
  BY <1>1, <1>2, NatSet
<1> QED BY <1>3 DEF S

LEMMA EndsAre ==
    ASSUME NEW s \in Seq(Recs)
    PROVE  /\ Ends(s) \in [0..Len(s) -> Nat] /\ Ends(s)[0] = 0
           /\ \A i \in 1..Len(s) : Ends(s)[i] = Ends(s)[i - 1] + Size(s[i])
<1> DEFINE e == Ends(s)
<1>0. Len(s) \in Nat
  OBVIOUS
<1>1. IsEnds(s, Len(s), e)
  BY <1>0, EndsExist DEF Ends, IsEnds
<1> HIDE DEF e
<1>2. DOMAIN e = 0..Len(s) /\ e[0] = 0 /\ e = [j \in 0..Len(s) |-> e[j]]
  BY <1>0, <1>1 DEF IsEnds
<1>3. ASSUME NEW i \in 1..Len(s) PROVE e[i] = e[i - 1] + Size(s[i])
  BY <1>0, <1>1 DEF IsEnds
<1> DEFINE S == {n \in Nat : e[n] \in Nat}
<1>4. \A n \in 0..Len(s) : n \in S
  <2>1. 0 \in S
    BY <1>2
  <2>2. ASSUME NEW n \in Nat, n < Len(s), n \in S PROVE n + 1 \in S
    <3>1. n + 1 \in 1..Len(s) /\ (n + 1) - 1 = n /\ s[n + 1] \in Recs
      BY <1>0, <2>2
    <3>2. e[n + 1] = e[n] + Size(s[n + 1])
      BY <1>3, <3>1
    <3> QED BY <2>2, <3>1, <3>2, SizeIs
  <2> HIDE DEF S
  <2> QED BY <1>0, <2>1, <2>2, UpTo
<1> QED BY <1>2, <1>3, <1>4 DEF e

\* Records end one behind the other.
LEMMA EndsGrow ==
    ASSUME NEW s \in Seq(Recs), NEW i \in 0..Len(s), NEW j \in 0..Len(s), i < j
    PROVE  Ends(s)[i] + Hdr < Ends(s)[j]
<1> DEFINE e == Ends(s)
<1>0. Len(s) \in Nat /\ Hdr \in Nat
  BY HandshakeAssumption
<1>1. /\ e \in [0..Len(s) -> Nat]
      /\ \A k \in 1..Len(s) : e[k] = e[k - 1] + Size(s[k])
  BY EndsAre
<1> HIDE DEF e
<1> DEFINE S == {n \in Nat : i < n => e[i] + Hdr < e[n]}
<1>2. 0 \in S
  OBVIOUS
<1>3. ASSUME NEW n \in Nat, n < Len(s), n \in S PROVE n + 1 \in S
  <2>0. n + 1 \in 1..Len(s) /\ (n + 1) - 1 = n /\ n \in 0..Len(s)
    BY <1>0, <1>3
  <2>1. (n + 1) - 1 = n /\ s[n + 1] \in Recs /\ e[n] \in Nat /\ e[i] \in Nat
    BY <1>1, <2>0
  <2>2. e[n + 1] = e[n] + Size(s[n + 1])
    BY <1>1, <2>0
  <2>3. Size(s[n + 1]) \in Nat /\ Size(s[n + 1]) > Hdr
    BY <2>1, SizeIs
  <2>4. CASE i = n
    BY <1>0, <2>1, <2>2, <2>3, <2>4
  <2>5. CASE i < n
    BY <1>0, <1>3, <2>1, <2>2, <2>3, <2>5
  <2>6. CASE ~(i < n + 1)
    BY <2>6
  <2> QED BY <2>4, <2>5, <2>6
<1> HIDE DEF S
<1>4. j \in S
  BY <1>0, <1>2, <1>3, UpTo
<1> QED BY <1>4 DEF S, e

\* A record more does not move the others.
LEMMA EndsAppend ==
    ASSUME NEW s \in Seq(Recs), NEW r \in Recs
    PROVE  \A i \in 0..Len(s) : Ends(Append(s, r))[i] = Ends(s)[i]
<1> DEFINE t == Append(s, r)
           e == Ends(s)
           f == Ends(t)
           S == {n \in Nat : f[n] = e[n]}
<1>0. Len(s) \in Nat /\ t \in Seq(Recs) /\ Len(t) = Len(s) + 1 /\ \A k \in 1..Len(s) : t[k] = s[k]
  OBVIOUS
<1>1. e[0] = 0 /\ f[0] = 0
  BY <1>0, EndsAre
<1>2. /\ \A k \in 1..Len(s) : e[k] = e[k - 1] + Size(s[k])
      /\ \A k \in 1..Len(t) : f[k] = f[k - 1] + Size(t[k])
  BY <1>0, EndsAre
<1> HIDE DEF t, e, f
<1>3. 0 \in S
  BY <1>1
<1>4. ASSUME NEW n \in Nat, n < Len(s), n \in S PROVE n + 1 \in S
  <2>1. n + 1 \in 1..Len(s) /\ n + 1 \in 1..Len(t) /\ (n + 1) - 1 = n /\ t[n + 1] = s[n + 1]
    BY <1>0, <1>4
  <2> QED BY <1>2, <1>4, <2>1
<1> HIDE DEF S
<1>5. \A n \in 0..Len(s) : n \in S
  BY <1>0, <1>3, <1>4, UpTo
<1> QED BY <1>5 DEF S, t, e, f

-----------------------------------------------------------------------------
(* What the records carry.                                                 *)

\* What a record adds, behind the ones before it.
Adds(s, i) == IF IsOpen(s, i) THEN PlainOf(s[i], i) ELSE <<>>

\* IsPrefix, unit by unit.
Begins(a, b) == Len(a) <= Len(b) /\ \A k \in 1..Len(a) : a[k] = b[k]

LEMMA Joined ==
    ASSUME NEW a \in Seq(Units), NEW b \in Seq(Units)
    PROVE  a \o b \in Seq(Units) /\ Begins(a, a \o b)
<1> HIDE DEF Units
<1>1. a \o b \in Seq(Units) /\ Len(a \o b) = Len(a) + Len(b) /\ Len(a) \in Nat /\ Len(b) \in Nat
  BY ConcatProperties
<1>2. \A k \in 1..Len(a) : (a \o b)[k] = a[k]
  BY ConcatProperties
<1> QED BY <1>1, <1>2 DEF Begins

LEMMA PlainOfIs ==
    ASSUME NEW r \in Recs, NEW i \in Nat
    PROVE  PlainOf(r, i) \in Seq(Units)
<1>1. CASE r.kind = "data"
  <2>1. r.n \in Nat /\ \A j \in 1..r.n : <<i, j>> \in Units
    BY DEF Recs, Units
  <2>2. PlainOf(r, i) = [j \in 1..r.n |-> <<i, j>>]
    BY <1>1 DEF PlainOf
  <2> HIDE DEF Units
  <2> QED BY <2>1, <2>2, SeqDef
<1>2. CASE r.kind # "data"
  BY <1>2 DEF PlainOf
<1> QED BY <1>1, <1>2

LEMMA AddsIs ==
    ASSUME NEW s \in Seq(Recs), NEW i \in 1..Len(s)
    PROVE  Adds(s, i) \in Seq(Units)
<1>1. s[i] \in Recs /\ i \in Nat
  OBVIOUS
<1>2. PlainOf(s[i], i) \in Seq(Units)
  BY <1>1, PlainOfIs
<1> QED BY <1>2 DEF Adds

IsCarried(s, n, f) == f = [j \in 0..n |-> IF j = 0 THEN <<>> ELSE f[j - 1] \o Adds(s, j)]

LEMMA CarriedExist ==
    ASSUME NEW s, NEW m \in Nat
    PROVE  \E f : IsCarried(s, m, f)
<1> DEFINE S == {n \in Nat : \E f : IsCarried(s, n, f)}
<1>1. 0 \in S
  <2>1. IsCarried(s, 0, [j \in 0..0 |-> <<>>])
    BY DEF IsCarried
  <2> QED BY <2>1
<1>2. ASSUME NEW n \in Nat, n \in S PROVE n + 1 \in S
  <2>1. PICK f : IsCarried(s, n, f)
    BY <1>2
  <2> DEFINE g == [j \in 0..n + 1 |-> IF j = n + 1 THEN f[n] \o Adds(s, n + 1) ELSE f[j]]
  <2>2. \A j \in 0..n : g[j] = f[j]
    OBVIOUS
  <2>3. ASSUME NEW j \in 0..n + 1
        PROVE  g[j] = IF j = 0 THEN <<>> ELSE g[j - 1] \o Adds(s, j)
    <3>1. CASE j = n + 1
      <4>1. j # 0 /\ j - 1 = n /\ n \in 0..n
        BY <3>1
      <4>2. g[j] = f[n] \o Adds(s, j)
        BY <3>1, Zenon
      <4> HIDE DEF g
      <4>3. g[j - 1] = f[n]
        BY <2>2, <4>1
      <4> QED BY <4>1, <4>2, <4>3, Zenon
    <3>2. CASE j \in 0..n
      <4>1. f[j] = IF j = 0 THEN <<>> ELSE f[j - 1] \o Adds(s, j)
        BY <2>1, <3>2 DEF IsCarried
      <4>2. j # 0 => j - 1 \in 0..n
        BY <3>2
      <4> HIDE DEF g
      <4> QED BY <2>2, <3>2, <4>1, <4>2
    <3> QED BY <3>1, <3>2
  <2>4. g = [j \in 0..n + 1 |-> g[j]]
    OBVIOUS
  <2> HIDE DEF g
  <2>5. IsCarried(s, n + 1, g)
    BY <2>3, <2>4 DEF IsCarried
  <2> QED BY <2>5
<1> HIDE DEF S
<1>3. m \in S
  BY <1>1, <1>2, NatSet
<1> QED BY <1>3 DEF S

LEMMA CarriedAre ==
    ASSUME NEW s \in Seq(Recs)
    PROVE  /\ Carried(s) \in [0..Len(s) -> Seq(Units)] /\ Carried(s)[0] = <<>>
           /\ \A i \in 1..Len(s) : Carried(s)[i] = Carried(s)[i - 1] \o Adds(s, i)
<1> DEFINE e == Carried(s)
<1>0. Len(s) \in Nat
  OBVIOUS
<1>1. IsCarried(s, Len(s), e)
  BY <1>0, CarriedExist DEF Carried, IsCarried, Adds
<1> HIDE DEF e
<1>2. DOMAIN e = 0..Len(s) /\ e[0] = <<>> /\ e = [j \in 0..Len(s) |-> e[j]]
  BY <1>0, <1>1 DEF IsCarried
<1>3. ASSUME NEW i \in 1..Len(s) PROVE e[i] = e[i - 1] \o Adds(s, i)
  <2>1. i \in 0..Len(s) /\ i # 0
    BY <1>0
  <2>2. e[i] = [j \in 0..Len(s) |-> IF j = 0 THEN <<>> ELSE e[j - 1] \o Adds(s, j)][i]
    BY <1>1, Zenon DEF IsCarried
  <2> QED BY <2>1, <2>2, Zenon
<1> DEFINE S == {n \in Nat : e[n] \in Seq(Units)}
<1>4. \A n \in 0..Len(s) : n \in S
  <2>1. 0 \in S
    BY <1>2
  <2>2. ASSUME NEW n \in Nat, n < Len(s), n \in S PROVE n + 1 \in S
    <3>1. n + 1 \in 1..Len(s) /\ (n + 1) - 1 = n
      BY <1>0, <2>2
    <3>2. e[n + 1] = e[n] \o Adds(s, n + 1)
      BY <1>3, <3>1
    <3>3. Adds(s, n + 1) \in Seq(Units)
      BY <3>1, AddsIs
    <3>4. e[n + 1] \in Seq(Units)
      BY <2>2, <3>2, <3>3, Joined
    <3> QED BY <3>4
  <2> HIDE DEF S
  <2> QED BY <1>0, <2>1, <2>2, UpTo
<1> QED BY <1>2, <1>3, <1>4 DEF e

\* A record more does not change what the others carry.
LEMMA CarriedAppend ==
    ASSUME NEW s \in Seq(Recs), NEW r \in Recs
    PROVE  \A i \in 0..Len(s) : Carried(Append(s, r))[i] = Carried(s)[i]
<1> DEFINE t == Append(s, r)
           e == Carried(s)
           f == Carried(t)
           S == {n \in Nat : f[n] = e[n]}
<1>0. Len(s) \in Nat /\ t \in Seq(Recs) /\ Len(t) = Len(s) + 1 /\ \A k \in 1..Len(s) : t[k] = s[k]
  OBVIOUS
<1>1. e[0] = <<>> /\ f[0] = <<>>
  BY <1>0, CarriedAre
<1>2. /\ \A k \in 1..Len(s) : e[k] = e[k - 1] \o Adds(s, k)
      /\ \A k \in 1..Len(t) : f[k] = f[k - 1] \o Adds(t, k)
  BY <1>0, CarriedAre
<1> HIDE DEF t, e, f
<1>3. 0 \in S
  BY <1>1
<1>4. ASSUME NEW n \in Nat, n < Len(s), n \in S PROVE n + 1 \in S
  <2>1. n + 1 \in 1..Len(s) /\ n + 1 \in 1..Len(t) /\ (n + 1) - 1 = n /\ t[n + 1] = s[n + 1]
    BY <1>0, <1>4
  <2>2. IsOpen(t, n + 1) <=> IsOpen(s, n + 1)
    BY <1>0, <2>1 DEF IsOpen
  <2>3. Adds(t, n + 1) = Adds(s, n + 1)
    BY <2>1, <2>2 DEF Adds
  <2>4. e[n + 1] = e[n] \o Adds(s, n + 1) /\ f[n + 1] = f[n] \o Adds(s, n + 1)
    <3>1. e[n + 1] = e[(n + 1) - 1] \o Adds(s, n + 1) /\ f[n + 1] = f[(n + 1) - 1] \o Adds(t, n + 1)
      BY <1>2, <2>1, Zenon
    <3> QED BY <2>1, <2>3, <3>1, Zenon
  <2>5. f[n] = e[n]
    BY <1>4
  <2>6. f[n + 1] = e[n + 1]
    BY <2>4, <2>5, Zenon
  <2> QED BY <2>6
<1> HIDE DEF S
<1>5. \A n \in 0..Len(s) : n \in S
  BY <1>0, <1>3, <1>4, UpTo
<1> QED BY <1>5 DEF S, t, e, f

LEMMA BeginsIsPrefix ==
    ASSUME NEW a \in Seq(Units), NEW b \in Seq(Units), Begins(a, b)
    PROVE  IsPrefix(a, b)
<1> USE DEF Begins
<1> HIDE DEF Units
<1>1. Len(a) \in Nat /\ Len(b) \in Nat /\ 1 \in Nat /\ Len(a) <= Len(b)
  OBVIOUS
<1>2. SubSeq(a, 1, Len(a)) = [k \in 1..Len(a) |-> a[k]]
  BY <1>1
<1>3. SubSeq(b, 1, Len(a)) = [k \in 1..Len(a) |-> b[k]]
  BY <1>1
<1> QED BY <1>1, <1>2, <1>3 DEF IsPrefix

LEMMA CarriedBegins ==
    ASSUME NEW s \in Seq(Recs), NEW i \in 0..Len(s), NEW j \in 0..Len(s), i <= j
    PROVE  Begins(Carried(s)[i], Carried(s)[j])
<1> DEFINE e == Carried(s)
<1>0. Len(s) \in Nat
  OBVIOUS
<1>1. /\ e \in [0..Len(s) -> Seq(Units)]
      /\ \A k \in 1..Len(s) : e[k] = e[k - 1] \o Adds(s, k)
  BY CarriedAre
<1> HIDE DEF e, Units
<1> DEFINE S == {n \in Nat : i <= n => Begins(e[i], e[n])}
<1>2. 0 \in S
  BY <1>1 DEF Begins
<1>3. ASSUME NEW n \in Nat, n < Len(s), n \in S PROVE n + 1 \in S
  <2>0. n + 1 \in 1..Len(s) /\ (n + 1) - 1 = n /\ n \in 0..Len(s) /\ n + 1 \in 0..Len(s)
    BY <1>0, <1>3
  <2>1. e[n] \in Seq(Units) /\ e[i] \in Seq(Units) /\ e[n + 1] \in Seq(Units)
    BY <1>1, <2>0
  <2>2. e[n + 1] = e[n] \o Adds(s, n + 1)
    BY <1>1, <2>0
  <2>3. Adds(s, n + 1) \in Seq(Units)
    BY <2>0, AddsIs
  <2>4. Begins(e[n], e[n + 1])
    BY <2>1, <2>2, <2>3, Joined
  <2>5. CASE i = n + 1
    BY <2>1, <2>5 DEF Begins
  <2>6. CASE i <= n
    <3>1. Begins(e[i], e[n])
      BY <1>3, <2>6
    <3> QED BY <2>1, <2>4, <3>1 DEF Begins
  <2>7. CASE ~(i <= n + 1)
    BY <2>7
  <2> QED BY <2>5, <2>6, <2>7
<1> HIDE DEF S
<1>4. j \in S
  BY <1>0, <1>2, <1>3, UpTo
<1> QED BY <1>4 DEF S, e
-----------------------------------------------------------------------------
(* The invariant.                                                          *)

PCs == {"shake", "feed", "pause", "drain", "ulp", "inject", "resume", "serve", "dropped"}

\* The flight comes first; what is taken was delivered, what is delivered
\* arrived, and what arrived was sent.
Streams ==
    /\ sent \in Seq(Recs)
    /\ \A i \in 1..Len(sent) : i <= 2 => sent[i].kind \in {"hello", "finished"}
    /\ taken \in Nat /\ delivered \in Nat /\ arrived \in Nat
    /\ taken <= delivered /\ delivered <= arrived /\ arrived <= End(Len(sent))

\* The whole records taken so far.
W == fed + records

\* What is taken is W whole records and the piece in hand.
Hand ==
    /\ fed \in 0..2 /\ records \in Nat /\ have \in Nat
    /\ W <= Len(sent) /\ taken = End(W) + have
    /\ have > 0 => W < Len(sent) /\ have <= Size(sent[W + 1])
    /\ pc \notin {"feed", "drain"} => have = 0

Phase ==
    /\ pc \in {"shake", "feed", "pause"} => records = 0
    /\ pc = "feed" => fed < 2
    /\ pc \notin {"shake", "feed"} => fed = 2
    /\ pc \in {"drain", "ulp", "inject", "resume"} => recv = "paused"
    /\ pc # "serve" => garbled = FALSE

\* The early plaintext is what the records taken carry, and a close_notify is
\* the last of them.
Early ==
    /\ plain = Carried(sent)[W]
    /\ \A i \in 3..W : /\ sent[i].kind \in {"data", "update", "close"}
                       /\ sent[i].kind = "close" => i = W /\ pc # "drain"

\* The kernel is told what the drain came to: it starts at a boundary, unless
\* a close_notify stopped the drain.
Handover ==
    /\ pc \in {"ulp", "inject", "resume", "serve"} =>
         taken = delivered \/ (records > 0 /\ sent[W].kind = "close")
    /\ pc \in {"inject", "resume"} => rxPos = delivered /\ rxSeq = records
    /\ pc = "resume" /\ taken = delivered => got = plain

\* The kernel goes on record by record, all of them data.
Served ==
    pc = "serve" /\ Followable =>
        /\ garbled = FALSE /\ rxSeq \in Nat /\ rxSeq >= records /\ 2 + rxSeq <= Len(sent)
        /\ rxPos = End(2 + rxSeq)
        /\ got = Carried(sent)[2 + rxSeq]
        /\ \A i \in W + 1..2 + rxSeq : sent[i].kind = "data"

Good == Streams /\ Hand /\ Phase /\ Early /\ Handover /\ Served
Inv == /\ pc \in PCs /\ Len(plain) <= PlainMax
       /\ pc # "dropped" => Good

-----------------------------------------------------------------------------
(* What the invariant says of the record in hand.                          *)

LEMMA FlightIs ==
    /\ Len(Flight) = 2
    /\ \A i \in 1..2 : Flight[i] \in Recs /\ Flight[i].kind \in {"hello", "finished"}
BY DEF Flight, Recs, Kinds

LEMMA AppIs == \A r \in AppRecords : r \in Recs
BY HandshakeAssumption DEF AppRecords, Recs, Kinds

LEMMA NumbersIs ==
    ASSUME Streams, Hand
    PROVE  /\ Len(sent) \in Nat /\ W \in 0..Len(sent) /\ Len(sent) \in 0..Len(sent)
           /\ \A i \in 0..Len(sent) : End(i) \in Nat
<1>1. Len(sent) \in Nat /\ sent \in Seq(Recs)
  BY DEF Streams
<1>2. W \in 0..Len(sent) /\ Len(sent) \in 0..Len(sent)
  BY <1>1 DEF Hand, W
<1>3. Ends(sent) \in [0..Len(sent) -> Nat]
  BY <1>1, EndsAre
<1> QED BY <1>1, <1>2, <1>3 DEF End

\* A boundary belongs to one record.
LEMMA RecordAtIs ==
    ASSUME sent \in Seq(Recs), NEW w \in Nat, w < Len(sent)
    PROVE  /\ RecordAt(End(w)) = w + 1
           /\ \A i \in 1..Len(sent) : End(i - 1) = End(w) => i = w + 1
<1>0. Len(sent) \in Nat /\ Hdr \in Nat
      /\ w + 1 \in 1..Len(sent) /\ (w + 1) - 1 = w /\ w \in 0..Len(sent)
  BY HandshakeAssumption
<1>1. ASSUME NEW i \in 1..Len(sent), End(i - 1) = End(w) PROVE i = w + 1
  <2>1. i - 1 \in 0..Len(sent)
    BY <1>0
  <2>2. End(i - 1) \in Nat /\ End(w) \in Nat
    BY <1>0, <2>1, EndsAre DEF End
  <2>3. CASE i - 1 < w
    <3>1. End(i - 1) + Hdr < End(w)
      BY <1>0, <2>1, <2>3, EndsGrow DEF End
    <3> QED BY <1>0, <1>1, <2>2, <3>1
  <2>4. CASE w < i - 1
    <3>1. End(w) + Hdr < End(i - 1)
      BY <1>0, <2>1, <2>4, EndsGrow DEF End
    <3> QED BY <1>0, <1>1, <2>2, <3>1
  <2> QED BY <1>0, <2>3, <2>4
<1>2. w + 1 \in 1..Len(sent) /\ End((w + 1) - 1) = End(w)
  BY <1>0
<1>3. RecordAt(End(w)) \in 1..Len(sent) /\ End(RecordAt(End(w)) - 1) = End(w)
  BY <1>2, Zenon DEF RecordAt
<1> QED BY <1>1, <1>3

\* A piece in hand is of the record behind the ones taken.
LEMMA InHandIs ==
    ASSUME Streams, Hand, W < Len(sent)
    PROVE  /\ RecordAt(taken - have) = W + 1 /\ W + 1 \in 1..Len(sent)
           /\ sent[W + 1] \in Recs
           /\ End(W + 1) = End(W) + Size(sent[W + 1])
           /\ Need = IF have < Hdr THEN Hdr ELSE Size(sent[W + 1])
<1>0. Len(sent) \in Nat /\ W \in Nat /\ End(W) \in Nat /\ have \in Nat /\ taken = End(W) + have
  BY NumbersIs DEF Hand
<1>1. taken - have = End(W)
  BY <1>0
<1>2. RecordAt(taken - have) = W + 1
  BY <1>0, <1>1, RecordAtIs DEF Streams
<1>3. W + 1 \in 1..Len(sent) /\ (W + 1) - 1 = W
  BY <1>0
<1>4. sent[W + 1] \in Recs /\ sent \in Seq(Recs)
  BY <1>3 DEF Streams
<1>5. End(W + 1) = End(W) + Size(sent[W + 1])
  BY <1>3, <1>4, EndsAre DEF End
<1> QED BY <1>2, <1>3, <1>4, <1>5 DEF Need

LEMMA TakePieceIs ==
    ASSUME Streams, Hand, TakePiece
    PROVE  /\ W < Len(sent) /\ have' \in Nat /\ have' <= Size(sent[W + 1]) /\ have' > 0
           /\ taken' = End(W) + have' /\ taken' \in Nat /\ taken' <= delivered
<1>0. /\ Len(sent) \in Nat /\ W \in 0..Len(sent) /\ End(W) \in Nat /\ have \in Nat
      /\ taken = End(W) + have /\ W \in Nat
  BY NumbersIs DEF Hand
<1>1. taken \in Nat /\ delivered \in Nat /\ arrived \in Nat
      /\ taken < delivered /\ delivered <= arrived
      /\ arrived <= End(Len(sent)) /\ End(Len(sent)) \in Nat
  BY NumbersIs DEF Streams, TakePiece
<1>2. W < Len(sent)
  BY <1>0, <1>1
<1>3. have < Need /\ have' = have + 1 /\ taken' = taken + 1
  BY DEF TakePiece
<1>4. sent[W + 1] \in Recs /\ Need = IF have < Hdr THEN Hdr ELSE Size(sent[W + 1])
  BY <1>2, InHandIs
<1>5. Size(sent[W + 1]) \in Nat /\ Size(sent[W + 1]) > Hdr /\ Hdr \in Nat
  BY <1>4, SizeIs
<1>6. have + 1 <= Size(sent[W + 1])
  BY <1>0, <1>3, <1>4, <1>5
<1> QED BY <1>0, <1>1, <1>2, <1>3, <1>6

LEMMA RestIs ==
    ASSUME Streams, Hand, Rest, ~ Complete
    PROVE  /\ W < Len(sent) /\ have' \in Nat /\ have' <= Size(sent[W + 1]) /\ have' > 0
           /\ taken' = End(W) + have' /\ taken' \in Nat /\ taken' = delivered'
           /\ delivered' \in Nat /\ delivered' <= arrived
<1>0. /\ Len(sent) \in Nat /\ W \in 0..Len(sent) /\ End(W) \in Nat /\ have \in Nat
      /\ taken = End(W) + have /\ W \in Nat
  BY NumbersIs DEF Hand
<1>1. taken \in Nat /\ delivered \in Nat /\ arrived \in Nat
      /\ taken = delivered /\ delivered < arrived
  BY DEF Streams, Rest
<1>2. W < Len(sent) /\ have <= Size(sent[W + 1])
  BY DEF Hand, Rest
<1>3. have' = have + 1 /\ taken' = taken + 1 /\ delivered' = delivered + 1
  BY DEF Rest
<1>4. sent[W + 1] \in Recs /\ Need = IF have < Hdr THEN Hdr ELSE Size(sent[W + 1])
  BY <1>2, InHandIs
<1>5. Size(sent[W + 1]) \in Nat /\ Size(sent[W + 1]) > Hdr /\ Hdr \in Nat
  BY <1>4, SizeIs
<1>6. have + 1 <= Size(sent[W + 1])
  BY <1>0, <1>2, <1>4, <1>5 DEF Complete
<1> QED BY <1>0, <1>1, <1>2, <1>3, <1>6

\* A complete record ends where the next one starts.
LEMMA CompleteIs ==
    ASSUME Streams, Hand, Complete
    PROVE  W < Len(sent) /\ taken = End(W + 1) /\ RecordAt(taken - have) = W + 1
<1>0. /\ Len(sent) \in Nat /\ W \in 0..Len(sent) /\ End(W) \in Nat /\ have \in Nat
      /\ taken = End(W) + have /\ Hdr \in Nat /\ Hdr > 0
  BY NumbersIs, HandshakeAssumption DEF Hand
<1>1. have >= Hdr /\ have = Need
  BY DEF Complete
<1>2. W < Len(sent)
  BY <1>0, <1>1 DEF Hand
<1> QED BY <1>0, <1>1, <1>2, InHandIs
\* A record of the flight adds nothing, nor does one that is no data.
LEMMA AddsNothing ==
    ASSUME sent \in Seq(Recs), NEW i \in 1..Len(sent), sent[i].kind # "data"
    PROVE  Carried(sent)[i] = Carried(sent)[i - 1]
<1>1. Carried(sent)[i] = Carried(sent)[i - 1] \o Adds(sent, i)
  BY CarriedAre
<1>2. Adds(sent, i) = <<>>
  BY DEF Adds, PlainOf
<1>3. i - 1 \in 0..Len(sent)
  OBVIOUS
<1>4. Carried(sent)[i - 1] \in Seq(Units)
  BY <1>3, CarriedAre
<1> QED BY <1>1, <1>2, <1>4, ConcatEmptySeq

\* A data record of an open stream adds its plaintext.
LEMMA AddsData ==
    ASSUME sent \in Seq(Recs), NEW i \in 1..Len(sent), IsOpen(sent, i)
    PROVE  Carried(sent)[i] = Carried(sent)[i - 1] \o Plaintext(i)
BY CarriedAre DEF Adds, Plaintext

-----------------------------------------------------------------------------
(* The client, the network and the recv.                                   *)

LEMMA InitInv == Init => Inv
<1> SUFFICES ASSUME Init PROVE Inv
  OBVIOUS
<1>1. sent \in Seq(Recs) /\ Len(sent) = 0 /\ sent = <<>>
  BY DEF Init
<1>2. End(0) = 0 /\ Carried(sent)[0] = <<>>
  BY <1>1, EndsAre, CarriedAre DEF End
<1>3. W = 0
  BY DEF Init, W
<1>4. Streams
  BY <1>1, <1>2 DEF Init, Streams
<1>5. Hand
  BY <1>1, <1>2, <1>3 DEF Init, Hand
<1>6. Phase /\ Handover /\ Served
  BY DEF Init, Phase, Handover, Served
<1>7. Early
  BY <1>2, <1>3 DEF Init, Early
<1>8. pc \in PCs /\ Len(plain) <= PlainMax
  BY HandshakeAssumption DEF Init, PCs
<1> QED BY <1>4, <1>5, <1>6, <1>7, <1>8 DEF Inv, Good

\* What the client sends behind the records it sent changes none of them.
LEMMA SendStep == Inv /\ Send => Inv'
<1> SUFFICES ASSUME Inv, Send PROVE Inv'
  OBVIOUS
<1>u. /\ fin' = fin /\ arrived' = arrived /\ rxPos' = rxPos /\ rxSeq' = rxSeq
      /\ garbled' = garbled /\ taken' = taken /\ delivered' = delivered /\ have' = have
      /\ recv' = recv /\ pc' = pc /\ fed' = fed /\ records' = records /\ plain' = plain
      /\ got' = got
  BY DEF Send, kernelVars, takeVars
<1> SUFFICES ASSUME pc # "dropped" PROVE Good'
  BY <1>u DEF Inv, PCs
<1>g. Streams /\ Hand /\ Phase /\ Early /\ Handover /\ Served
  BY DEF Inv, Good
<1>0. sent \in Seq(Recs) /\ Len(sent) \in Nat /\ W' = W /\ W \in 0..Len(sent) /\ W \in Nat
  BY <1>g, <1>u, NumbersIs DEF Streams, W
<1>1. PICK r \in Recs : /\ sent' = Append(sent, r)
                        /\ Len(sent) < 2 => r.kind \in {"hello", "finished"}
  <2>1. CASE Len(sent) < 2
    <3>1. Len(sent) + 1 \in 1..2
      BY <1>0, <2>1
    <3>2. sent' = Append(sent, Flight[Len(sent) + 1])
      BY <2>1, FlightIs DEF Send
    <3> QED BY <3>1, <3>2, FlightIs
  <2>2. CASE ~(Len(sent) < 2)
    <3>1. PICK r \in AppRecords : sent' = Append(sent, r)
      BY <2>2, FlightIs DEF Send
    <3> QED BY <2>2, <3>1, AppIs
  <2> QED BY <2>1, <2>2
<1>2. /\ sent' \in Seq(Recs) /\ Len(sent') = Len(sent) + 1
      /\ \A i \in 1..Len(sent) : sent'[i] = sent[i]
      /\ sent'[Len(sent) + 1] = r
  BY <1>0, <1>1
<1>3. \A i \in 0..Len(sent) : End(i)' = End(i) /\ Carried(sent')[i] = Carried(sent)[i]
  BY <1>0, <1>1, EndsAppend, CarriedAppend DEF End
<1>4. End(Len(sent)) <= End(Len(sent))'
  <2>1. Len(sent) \in 0..Len(sent') /\ Len(sent') \in 0..Len(sent') /\ Len(sent) < Len(sent')
    BY <1>0, <1>2
  <2>2. Ends(sent')[Len(sent)] + Hdr < Ends(sent')[Len(sent')]
    BY <1>2, <2>1, EndsGrow
  <2>3. Ends(sent')[Len(sent)] = Ends(sent)[Len(sent)] /\ Ends(sent)[Len(sent)] \in Nat
    BY <1>0, <1>1, EndsAppend, EndsAre
  <2>4. Ends(sent')[Len(sent')] \in Nat
    BY <1>2, <2>1, EndsAre
  <2> QED BY <2>2, <2>3, <2>4, HandshakeAssumption DEF End
<1>5. Streams'
  <2>1. ASSUME NEW i \in 1..Len(sent'), i <= 2 PROVE sent'[i].kind \in {"hello", "finished"}
    <3>1. CASE i \in 1..Len(sent)
      BY <1>2, <1>g, <2>1, <3>1 DEF Streams
    <3>2. CASE i = Len(sent) + 1
      BY <1>0, <1>1, <1>2, <2>1, <3>2
    <3> QED BY <1>0, <1>2, <3>1, <3>2
  <2>2. End(Len(sent)) \in Nat /\ End(Len(sent))' \in Nat
    <3>1. Len(sent) \in 0..Len(sent) /\ Len(sent') \in 0..Len(sent')
      BY <1>0, <1>2
    <3> QED BY <1>0, <1>2, <3>1, EndsAre DEF End
  <2>3. arrived <= End(Len(sent))'
    BY <1>4, <1>g, <2>2 DEF Streams
  <2> QED BY <1>2, <1>g, <1>u, <2>1, <2>3 DEF Streams
<1>6. Hand'
  <2>1. taken' = End(W)' + have' /\ W' <= Len(sent')
    BY <1>0, <1>2, <1>3, <1>g, <1>u DEF Hand
  <2>2. have > 0 => sent'[W + 1] = sent[W + 1] /\ W < Len(sent) /\ W < Len(sent')
    BY <1>0, <1>2, <1>g DEF Hand
  <2> QED BY <1>0, <1>g, <1>u, <2>1, <2>2 DEF Hand, Size
<1>7. Phase'
  BY <1>g, <1>u DEF Phase
<1>8. Early'
  <2>1. \A i \in 3..W : sent'[i] = sent[i]
    BY <1>0, <1>2
  <2>2. plain' = Carried(sent')[W']
    BY <1>0, <1>3, <1>g, <1>u DEF Early
  <2> QED BY <1>0, <1>g, <1>u, <2>1, <2>2 DEF Early
<1>9. Handover'
  <2>1. records > 0 => W \in 1..Len(sent)
    BY <1>0, <1>g DEF Hand, W
  <2> QED BY <1>0, <1>2, <1>g, <1>u, <2>1 DEF Handover
<1>10. Served'
  <2> SUFFICES ASSUME pc = "serve", Followable' PROVE Served'
    BY <1>u DEF Served
  <2>1. fed = 2 /\ records \in Nat /\ W = 2 + records
    BY <1>g DEF Phase, Hand, W
  <2>2. Followable
    <3> SUFFICES ASSUME NEW i \in EarlyRecords
                 PROVE  sent[i].kind # "update" /\ ~ Closes(i)
      BY DEF Followable
    <3>1. i \in EarlyRecords' /\ i \in 1..Len(sent)
      BY <1>0, <1>u, <2>1, FlightIs DEF EarlyRecords
    <3>2. sent'[i] = sent[i] /\ i # Len(sent')
      BY <1>0, <1>2, <3>1
    <3> QED BY <3>1, <3>2 DEF Followable, Closes
  <2>3. /\ garbled = FALSE /\ rxSeq \in Nat /\ rxSeq >= records /\ 2 + rxSeq <= Len(sent)
        /\ rxPos = End(2 + rxSeq)
        /\ got = Carried(sent)[2 + rxSeq]
        /\ \A i \in W + 1..2 + rxSeq : sent[i].kind = "data"
    BY <1>g, <2>2 DEF Served
  <2>4. 2 + rxSeq \in 0..Len(sent) /\ 2 + rxSeq <= Len(sent')
    BY <1>0, <1>2, <2>3
  <2>5. End(2 + rxSeq)' = End(2 + rxSeq) /\ Carried(sent')[2 + rxSeq] = Carried(sent)[2 + rxSeq]
    BY <1>3, <1>u, <2>4
  <2>6. \A i \in W + 1..2 + rxSeq : sent'[i] = sent[i]
    BY <1>0, <1>2, <2>3
  <2> QED BY <1>0, <1>u, <2>3, <2>4, <2>5, <2>6 DEF Served
<1> QED BY <1>5, <1>6, <1>7, <1>8, <1>9, <1>10 DEF Good

\* A step that leaves the records, the prologue and the kernel alone.
LEMMA NetStep ==
    ASSUME Inv, Fin \/ Arrive \/ Deliver \/ RecvEnds \/ RecvStops
    PROVE  Inv'
<1>u. /\ sent' = sent /\ rxPos' = rxPos /\ rxSeq' = rxSeq /\ garbled' = garbled
      /\ taken' = taken /\ have' = have /\ pc' = pc /\ fed' = fed
      /\ records' = records /\ plain' = plain /\ got' = got
  BY DEF Fin, Arrive, Deliver, RecvEnds, RecvStops, clientVars, kernelVars, takeVars
<1> SUFFICES ASSUME pc # "dropped" PROVE Good'
  BY <1>u DEF Inv, PCs
<1>g. Streams /\ Hand /\ Phase /\ Early /\ Handover /\ Served
  BY DEF Inv, Good
<1>1. \A i : End(i)' = End(i)
  BY <1>u DEF End
<1>2. /\ W' = W /\ Followable' = Followable
  BY <1>u DEF W, Followable, EarlyRecords, Closes
<1>3. Hand'
  BY <1>1, <1>2, <1>g, <1>u DEF Hand, Size
<1>4. Early'
  BY <1>2, <1>g, <1>u DEF Early
<1>5. Served'
  BY <1>1, <1>2, <1>g, <1>u DEF Served
<1>6. /\ delivered' \in Nat /\ arrived' \in Nat /\ taken <= delivered' /\ delivered' <= arrived'
      /\ arrived' <= End(Len(sent))
  <2>1. taken \in Nat /\ delivered \in Nat /\ arrived \in Nat /\ End(Len(sent)) \in Nat
        /\ taken <= delivered /\ delivered <= arrived /\ arrived <= End(Len(sent))
    BY <1>g, NumbersIs DEF Streams
  <2>2. \/ arrived' = arrived /\ delivered' = delivered
        \/ arrived < End(Len(sent)) /\ arrived' = arrived + 1 /\ delivered' = delivered
        \/ delivered < arrived /\ delivered' = delivered + 1 /\ arrived' = arrived
    BY DEF Fin, Arrive, Deliver, RecvEnds, RecvStops, kernelVars, takeVars
  <2> QED BY <2>1, <2>2
<1>7. Streams'
  BY <1>1, <1>6, <1>g, <1>u DEF Streams
<1>8. pc \in {"drain", "ulp", "inject", "resume"} => recv' = "paused" /\ delivered' = delivered
  BY <1>g DEF Phase, Fin, Arrive, Deliver, RecvEnds, RecvStops, takeVars
<1>9. pc = "serve" => delivered' = delivered
  BY DEF Fin, Arrive, Deliver, RecvEnds, RecvStops, takeVars
<1>10. Phase'
  BY <1>8, <1>g, <1>u DEF Phase
<1>11. Handover'
  BY <1>2, <1>8, <1>9, <1>g, <1>u DEF Handover
<1> QED BY <1>3, <1>4, <1>5, <1>7, <1>10, <1>11 DEF Good
-----------------------------------------------------------------------------
(* The prologue.                                                           *)

LEMMA ShakeStep == Inv /\ Shake => Inv'
<1> SUFFICES ASSUME Inv, Shake PROVE Inv'
  OBVIOUS
<1>u. /\ sent' = sent /\ arrived' = arrived /\ rxPos' = rxPos /\ rxSeq' = rxSeq
      /\ garbled' = garbled /\ taken' = taken /\ delivered' = delivered /\ have' = have
      /\ recv' = recv /\ fed' = fed /\ records' = records /\ plain' = plain /\ got' = got
  BY DEF Shake, clientVars, kernelVars, takeVars
<1>1. pc = "shake" /\ pc' \in {IF fed = 2 THEN "pause" ELSE "feed", "dropped"}
  BY FlightIs DEF Shake
<1> SUFFICES ASSUME pc' # "dropped" PROVE Good'
  BY <1>1, <1>u DEF Inv, PCs
<1>g. Streams /\ Hand /\ Phase /\ Early
  BY <1>1 DEF Inv, Good
<1>2. /\ W' = W /\ \A i : End(i)' = End(i)
  BY <1>u DEF W, End
<1>3. have = 0 /\ records = 0 /\ fed \in 0..2 /\ W = fed /\ garbled = FALSE
  BY <1>1, <1>g DEF Hand, Phase, W
<1>4. Streams'
  BY <1>2, <1>g, <1>u DEF Streams
<1>5. Hand'
  BY <1>2, <1>3, <1>g, <1>u DEF Hand
<1>6. Phase'
  BY <1>1, <1>3, <1>u DEF Phase
<1>7. Early'
  BY <1>2, <1>3, <1>g, <1>u DEF Early
<1>8. Handover' /\ Served'
  BY <1>1 DEF Handover, Served
<1> QED BY <1>4, <1>5, <1>6, <1>7, <1>8 DEF Good

LEMMA FeedStep == Inv /\ Feed => Inv'
<1> SUFFICES ASSUME Inv, Feed PROVE Inv'
  OBVIOUS
<1>u. /\ sent' = sent /\ arrived' = arrived /\ rxPos' = rxPos /\ rxSeq' = rxSeq
      /\ garbled' = garbled /\ delivered' = delivered
      /\ recv' = recv /\ records' = records /\ plain' = plain /\ got' = got
  BY DEF Feed, clientVars, kernelVars, takeVars, TakePiece
<1>g. pc = "feed" /\ Streams /\ Hand /\ Phase /\ Early /\ Len(plain) <= PlainMax
  BY DEF Inv, Good, Feed
<1>1. \A i : End(i)' = End(i)
  BY <1>u DEF End
<1>2. records = 0 /\ fed \in 0..1 /\ W = fed /\ garbled = FALSE /\ Len(sent) \in Nat
  BY <1>g, NumbersIs DEF Hand, Phase, W
<1>3. CASE TakePiece /\ pc' = pc /\ fed' = fed
  <2>1. W' = W
    BY <1>3, <1>u DEF W
  <2>2. /\ W < Len(sent) /\ have' \in Nat /\ have' <= Size(sent[W + 1]) /\ have' > 0
        /\ taken' = End(W) + have' /\ taken' \in Nat /\ taken' <= delivered
    BY <1>3, <1>g, TakePieceIs
  <2>3. Streams'
    BY <1>1, <1>g, <1>u, <2>2 DEF Streams
  <2>4. Hand'
    BY <1>1, <1>2, <1>3, <1>g, <1>u, <2>1, <2>2 DEF Hand, Size
  <2>5. Phase' /\ Handover' /\ Served'
    BY <1>2, <1>3, <1>g, <1>u DEF Phase, Handover, Served
  <2>6. Early'
    BY <1>2, <1>g, <1>u, <2>1 DEF Early
  <2> QED BY <1>3, <1>g, <1>u, <2>3, <2>4, <2>5, <2>6 DEF Inv, Good, PCs
<1>4. CASE Complete /\ have' = 0 /\ fed' = fed + 1 /\ pc' = "shake" /\ taken' = taken
  <2>1. W' = W + 1 /\ W + 1 \in 1..2 /\ (W + 1) - 1 = W
    BY <1>2, <1>4, <1>u DEF W
  <2>2. W < Len(sent) /\ taken = End(W + 1) /\ sent \in Seq(Recs) /\ taken \in Nat
    BY <1>4, <1>g, CompleteIs DEF Streams
  <2>3. W + 1 \in 1..Len(sent) /\ sent[W + 1].kind \in {"hello", "finished"}
    BY <1>2, <1>g, <2>1, <2>2 DEF Streams
  <2>4. Carried(sent)[W + 1] = Carried(sent)[W]
    BY <2>1, <2>2, <2>3, AddsNothing
  <2>5. Streams'
    BY <1>1, <1>4, <1>g, <1>u DEF Streams
  <2>6. Hand'
    BY <1>1, <1>2, <1>4, <1>g, <1>u, <2>1, <2>2, <2>3 DEF Hand
  <2>7. Phase' /\ Handover' /\ Served'
    BY <1>2, <1>4, <1>u DEF Phase, Handover, Served
  <2>8. Early'
    BY <1>g, <1>u, <2>1, <2>4 DEF Early
  <2> QED BY <1>4, <1>g, <1>u, <2>5, <2>6, <2>7, <2>8 DEF Inv, Good, PCs
<1>5. CASE pc' = "dropped"
  BY <1>5, <1>g, <1>u DEF Inv, PCs
<1> QED BY <1>3, <1>4, <1>5 DEF Feed, Drop

LEMMA PauseStep == Inv /\ Pause => Inv'
<1> SUFFICES ASSUME Inv, Pause PROVE Inv'
  OBVIOUS
<1>u. /\ sent' = sent /\ arrived' = arrived /\ rxPos' = rxPos /\ rxSeq' = rxSeq
      /\ garbled' = garbled /\ taken' = taken /\ delivered' = delivered /\ have' = have
      /\ fed' = fed /\ records' = records /\ plain' = plain /\ got' = got
  BY DEF Pause, clientVars, kernelVars, takeVars
<1>g. pc = "pause" /\ Streams /\ Hand /\ Phase /\ Early /\ Len(plain) <= PlainMax
  BY DEF Inv, Good, Pause
<1>1. \/ pc' = "pause"
      \/ pc' = "drain" /\ recv' = "paused"
      \/ pc' = "dropped"
  BY <1>g DEF Pause, Drop
<1> SUFFICES ASSUME pc' # "dropped" PROVE Good'
  BY <1>1, <1>g, <1>u DEF Inv, PCs
<1>2. /\ W' = W /\ \A i : End(i)' = End(i)
  BY <1>u DEF W, End
<1>3. have = 0 /\ records = 0 /\ fed = 2 /\ W = 2 /\ garbled = FALSE
  BY <1>g DEF Hand, Phase, W
<1>4. Streams'
  BY <1>2, <1>g, <1>u DEF Streams
<1>5. Hand'
  BY <1>2, <1>3, <1>g, <1>u DEF Hand
<1>6. Phase' /\ Handover' /\ Served'
  BY <1>1, <1>3, <1>u DEF Phase, Handover, Served
<1>7. Early'
  BY <1>2, <1>3, <1>g, <1>u DEF Early
<1> QED BY <1>4, <1>5, <1>6, <1>7 DEF Good

LEMMA DrainTakeStep == Inv /\ DrainTake => Inv'
<1> SUFFICES ASSUME Inv, DrainTake PROVE Inv'
  OBVIOUS
<1>u. /\ sent' = sent /\ arrived' = arrived /\ rxPos' = rxPos /\ rxSeq' = rxSeq
      /\ garbled' = garbled /\ fed' = fed
      /\ recv' = recv /\ records' = records /\ plain' = plain /\ got' = got
  BY DEF DrainTake, clientVars, kernelVars
<1>g. pc = "drain" /\ Streams /\ Hand /\ Phase /\ Early /\ Len(plain) <= PlainMax /\ ~ Complete
  BY DEF Inv, Good, DrainTake
<1>1. \A i : End(i)' = End(i)
  BY <1>u DEF End
<1>2. fed = 2 /\ garbled = FALSE /\ recv = "paused" /\ Len(sent) \in Nat
  BY <1>g, NumbersIs DEF Phase
<1>w. W' = W
  BY <1>u DEF W
<1>3. ASSUME pc' = pc, /\ W < Len(sent) /\ have' \in Nat /\ have' <= Size(sent[W + 1]) /\ have' > 0
                       /\ taken' = End(W) + have' /\ taken' \in Nat /\ taken' <= delivered'
                       /\ delivered' \in Nat /\ delivered' <= arrived
      PROVE  Inv'
  <2>1. Streams'
    BY <1>1, <1>3, <1>g, <1>u DEF Streams
  <2>2. Hand'
    BY <1>1, <1>2, <1>3, <1>g, <1>u, <1>w DEF Hand, Size
  <2>3. Phase' /\ Handover' /\ Served'
    BY <1>2, <1>3, <1>g, <1>u DEF Phase, Handover, Served
  <2>4. Early'
    BY <1>3, <1>g, <1>u, <1>w DEF Early
  <2> QED BY <1>3, <1>g, <1>u, <2>1, <2>2, <2>3, <2>4 DEF Inv, Good, PCs
<1>4. CASE TakePiece /\ pc' = pc
  <2>1. delivered' = delivered /\ delivered \in Nat /\ delivered <= arrived
    BY <1>4, <1>g DEF TakePiece, Streams
  <2> QED BY <1>3, <1>4, <1>g, <2>1, TakePieceIs
<1>5. CASE Rest /\ pc' = pc
  BY <1>3, <1>5, <1>g, RestIs
<1>6. CASE pc' = "dropped"
  BY <1>6, <1>g, <1>u DEF Inv, PCs
<1>7. CASE Drained /\ pc' = "ulp" /\ UNCHANGED takeVars
  <2>1. taken' = taken /\ delivered' = delivered /\ have' = have /\ have = 0 /\ taken = delivered
    BY <1>7 DEF takeVars, Drained
  <2>2. Streams'
    BY <1>1, <1>g, <1>u, <2>1 DEF Streams
  <2>3. Hand'
    BY <1>1, <1>7, <1>g, <1>u, <1>w, <2>1 DEF Hand
  <2>4. Phase' /\ Handover' /\ Served'
    BY <1>2, <1>7, <1>u, <2>1 DEF Phase, Handover, Served
  <2>5. Early'
    BY <1>7, <1>g, <1>u, <1>w DEF Early
  <2> QED BY <1>7, <1>g, <1>u, <2>2, <2>3, <2>4, <2>5 DEF Inv, Good, PCs
<1> QED BY <1>4, <1>5, <1>6, <1>7 DEF DrainTake, Drop

LEMMA DrainRecordStep == Inv /\ DrainRecord => Inv'
<1> SUFFICES ASSUME Inv, DrainRecord PROVE Inv'
  OBVIOUS
<1>u. /\ sent' = sent /\ arrived' = arrived /\ rxPos' = rxPos /\ rxSeq' = rxSeq
      /\ garbled' = garbled /\ taken' = taken /\ delivered' = delivered /\ have' = 0
      /\ recv' = recv /\ fed' = fed /\ got' = got
  BY DEF DrainRecord, clientVars, kernelVars
<1>g. pc = "drain" /\ Streams /\ Hand /\ Phase /\ Early /\ Len(plain) <= PlainMax /\ Complete
  BY DEF Inv, Good, DrainRecord
<1>1. W < Len(sent) /\ taken = End(W + 1) /\ InHand = W + 1
  BY <1>g, CompleteIs DEF InHand
<1>2. CASE pc' = "dropped" /\ plain' = plain
  BY <1>2, <1>g DEF Inv, PCs
<1>3. CASE /\ sent[W + 1].kind \in {"data", "update", "close"} /\ Fits(W + 1)
           /\ records' = Counted
           /\ plain' = plain \o Plaintext(W + 1)
           /\ IF Closes(W + 1) THEN pc' = "ulp" ELSE pc' = pc
  <2>1. /\ fed = 2 /\ records \in Nat /\ W = 2 + records /\ Len(sent) \in Nat /\ recv = "paused"
        /\ garbled = FALSE
    BY <1>g, NumbersIs DEF Phase, Hand, W
  <2>2. W' = W + 1 /\ records' = records + 1 /\ W + 1 \in 1..Len(sent) /\ W + 1 \in 0..Len(sent)
        /\ (W + 1) - 1 = W
    BY <1>1, <1>3, <1>u, <2>1 DEF W, Counted
  <2>3. sent \in Seq(Recs) /\ sent[W + 1] \in Recs
    BY <1>g, <2>2 DEF Streams
  <2>4. Plaintext(W + 1) \in Seq(Units) /\ plain \in Seq(Units)
    <3>1. W \in 0..Len(sent) /\ W + 1 \in Nat
      BY <1>1, <2>1
    <3> QED BY <1>g, <2>3, <3>1, CarriedAre, PlainOfIs DEF Early, Plaintext
  <2>5. plain' = Carried(sent)[W + 1]
    <3>1. plain = Carried(sent)[W]
      BY <1>g DEF Early
    <3>2. CASE sent[W + 1].kind = "data"
      <4>1. IsOpen(sent, W + 1)
        <5> SUFFICES ASSUME NEW j \in 1..W + 1 PROVE sent[j].kind # "close"
          BY DEF IsOpen
        <5>1. CASE j <= 2
          BY <1>g, <2>1, <2>2, <5>1 DEF Streams
        <5>2. CASE j \in 3..W
          BY <1>g, <5>2 DEF Early
        <5>3. CASE j = W + 1
          BY <3>2, <5>3
        <5> QED BY <2>1, <5>1, <5>2, <5>3
      <4> QED BY <1>3, <2>2, <2>3, <3>1, <4>1, AddsData
    <3>3. CASE sent[W + 1].kind # "data"
      <4>1. Plaintext(W + 1) = <<>>
        BY <3>3 DEF Plaintext, PlainOf
      <4>2. Carried(sent)[W + 1] = Carried(sent)[W]
        BY <2>2, <2>3, <3>3, AddsNothing
      <4> QED BY <1>3, <2>4, <3>1, <4>1, <4>2, ConcatEmptySeq
    <3> QED BY <3>2, <3>3
  <2>6. Len(plain') <= PlainMax
    BY <1>3, <2>4, ConcatProperties DEF Fits
  <2>7. \A i : End(i)' = End(i)
    BY <1>u DEF End
  <2>8. pc' \in {"ulp", "drain"} /\ (pc' = "ulp" <=> sent[W + 1].kind = "close")
    BY <1>3, <1>g DEF Closes
  <2>9. Streams'
    BY <1>g, <1>u, <2>7 DEF Streams
  <2>10. Hand'
    <3>1. taken \in Nat /\ End(W + 1) \in Nat
      BY <1>1, <1>g DEF Streams
    <3> QED BY <1>1, <1>u, <2>1, <2>2, <2>7, <2>8, <3>1 DEF Hand
  <2>11. Phase' /\ Served'
    BY <1>u, <2>1, <2>8 DEF Phase, Served
  <2>12. Handover'
    BY <1>u, <2>1, <2>2, <2>8 DEF Handover
  <2>13. Early'
    <3> SUFFICES ASSUME NEW i \in 3..W + 1
                 PROVE  /\ sent[i].kind \in {"data", "update", "close"}
                        /\ sent[i].kind = "close" => i = W + 1 /\ pc' # "drain"
      BY <1>u, <2>2, <2>5 DEF Early
    <3>1. CASE i \in 3..W
      BY <1>g, <3>1 DEF Early
    <3>2. CASE i = W + 1
      BY <1>3, <2>8, <3>2
    <3> QED BY <2>1, <3>1, <3>2
  <2> QED BY <2>6, <2>8, <2>9, <2>10, <2>11, <2>12, <2>13 DEF Inv, Good, PCs
<1> QED BY <1>1, <1>2, <1>3 DEF DrainRecord, Drop

LEMMA InstallStep == Inv /\ Install => Inv'
<1> SUFFICES ASSUME Inv, Install PROVE Inv'
  OBVIOUS
<1>u. /\ sent' = sent /\ arrived' = arrived /\ garbled' = garbled
      /\ taken' = taken /\ delivered' = delivered /\ have' = have
      /\ recv' = recv /\ fed' = fed /\ records' = records /\ plain' = plain /\ got' = got
  BY DEF Install, clientVars, takeVars
<1>g. pc = "ulp" /\ Streams /\ Hand /\ Phase /\ Early /\ Handover /\ Len(plain) <= PlainMax
  BY DEF Inv, Good, Install
<1>1. CASE pc' = "dropped"
  BY <1>1, <1>g, <1>u DEF Inv, PCs
<1>2. CASE rxPos' = delivered /\ rxSeq' = records /\ pc' = "inject"
  <2>1. /\ W' = W /\ \A i : End(i)' = End(i)
    BY <1>u DEF W, End
  <2>2. Streams' /\ Hand'
    BY <1>2, <1>g, <1>u, <2>1 DEF Streams, Hand
  <2>3. Phase' /\ Handover' /\ Served'
    BY <1>2, <1>g, <1>u, <2>1 DEF Phase, Handover, Served
  <2>4. Early'
    BY <1>2, <1>g, <1>u, <2>1 DEF Early
  <2> QED BY <1>2, <1>g, <1>u, <2>2, <2>3, <2>4 DEF Inv, Good, PCs
<1> QED BY <1>1, <1>2 DEF Install, Drop

LEMMA InjectStep == Inv /\ Inject => Inv'
<1> SUFFICES ASSUME Inv, Inject PROVE Inv'
  OBVIOUS
<1>u. /\ sent' = sent /\ arrived' = arrived /\ rxPos' = rxPos /\ rxSeq' = rxSeq
      /\ garbled' = garbled /\ taken' = taken /\ delivered' = delivered /\ have' = have
      /\ recv' = recv /\ fed' = fed /\ records' = records /\ plain' = plain
  BY DEF Inject, clientVars, kernelVars, takeVars
<1>g. pc = "inject" /\ Streams /\ Hand /\ Phase /\ Early /\ Handover /\ Len(plain) <= PlainMax
  BY DEF Inv, Good, Inject
<1>1. CASE pc' = "dropped"
  BY <1>1, <1>g, <1>u DEF Inv, PCs
<1>2. CASE got' = Live \o plain /\ pc' = "resume"
  <2>1. /\ W' = W /\ \A i : End(i)' = End(i)
    BY <1>u DEF W, End
  <2>2. taken = delivered => got' = plain
    <3> SUFFICES ASSUME taken = delivered PROVE got' = plain
      OBVIOUS
    <3>1. delivered - taken = 0
      BY <1>g DEF Streams
    <3>2. Live = <<>>
      BY <3>1 DEF Live
    <3>3. plain \in Seq(Units)
      BY <1>g, NumbersIs, CarriedAre DEF Early, Streams
    <3> QED BY <1>2, <3>2, <3>3, ConcatEmptySeq
  <2>3. Streams' /\ Hand'
    BY <1>2, <1>g, <1>u, <2>1 DEF Streams, Hand
  <2>4. Phase' /\ Served'
    BY <1>2, <1>g, <1>u DEF Phase, Served
  <2>5. Handover'
    BY <1>2, <1>g, <1>u, <2>1, <2>2 DEF Handover
  <2>6. Early'
    BY <1>2, <1>g, <1>u, <2>1 DEF Early
  <2> QED BY <1>2, <1>g, <1>u, <2>3, <2>4, <2>5, <2>6 DEF Inv, Good, PCs
<1> QED BY <1>1, <1>2 DEF Inject, Drop

\* A close_notify that stopped the drain is the last record, so nothing is
\* left behind it and the kernel is at a boundary all the same.
LEMMA ResumeStep == Inv /\ Resume => Inv'
<1> SUFFICES ASSUME Inv, Resume PROVE Inv'
  OBVIOUS
<1>u. /\ sent' = sent /\ arrived' = arrived /\ rxPos' = rxPos /\ rxSeq' = rxSeq
      /\ garbled' = garbled /\ taken' = taken /\ delivered' = delivered /\ have' = have
      /\ fed' = fed /\ records' = records /\ plain' = plain /\ got' = got
  BY DEF Resume, clientVars, kernelVars, takeVars
<1>g. pc = "resume" /\ Streams /\ Hand /\ Phase /\ Early /\ Handover /\ Len(plain) <= PlainMax
  BY DEF Inv, Good, Resume
<1>1. CASE pc' = "dropped"
  BY <1>1, <1>g, <1>u DEF Inv, PCs
<1>2. CASE pc' = "serve"
  <2>1. /\ W' = W /\ \A i : End(i)' = End(i)
    BY <1>u DEF W, End
  <2>2. Streams' /\ Hand'
    BY <1>2, <1>g, <1>u, <2>1 DEF Streams, Hand
  <2>3. Phase' /\ Handover'
    BY <1>2, <1>g, <1>u, <2>1 DEF Phase, Handover
  <2>4. Early'
    BY <1>2, <1>g, <1>u, <2>1 DEF Early
  <2>5. Served'
    <3> SUFFICES ASSUME Followable' PROVE Served'
      BY DEF Served
    <3>1. Followable
      BY <1>u DEF Followable, EarlyRecords, Closes
    <3>2. /\ fed = 2 /\ records \in Nat /\ W = 2 + records /\ garbled = FALSE /\ have = 0
          /\ rxPos = delivered /\ rxSeq = records /\ W <= Len(sent) /\ taken = End(W)
          /\ End(W) \in Nat
      BY <1>g, NumbersIs DEF Phase, Hand, Handover, W
    <3>3. taken = delivered
      <4> SUFFICES ASSUME records > 0, sent[W].kind = "close" PROVE taken = delivered
        BY <1>g DEF Handover
      <4>1. W \in EarlyRecords
        BY <3>2, FlightIs DEF EarlyRecords
      <4>2. W = Len(sent)
        BY <3>1, <4>1 DEF Followable, Closes
      <4>3. delivered <= End(W) /\ taken <= delivered /\ delivered \in Nat
        BY <1>g, <4>2, NumbersIs DEF Streams
      <4> QED BY <3>2, <4>3
    <3>4. got = Carried(sent)[2 + rxSeq]
      BY <1>g, <3>2, <3>3 DEF Handover, Early
    <3>5. \A i \in W + 1..2 + rxSeq : FALSE
      BY <3>2
    <3> QED BY <1>u, <2>1, <3>2, <3>3, <3>4, <3>5 DEF Served
  <2> QED BY <1>2, <1>g, <1>u, <2>2, <2>3, <2>4, <2>5 DEF Inv, Good, PCs
<1> QED BY <1>1, <1>2 DEF Resume, Drop

-----------------------------------------------------------------------------
(* Kernel TLS.                                                             *)

\* No key changed among the records before the kernel's: it has the key and
\* the sequence number of the next one.
LEMMA KernelDecrypts ==
    ASSUME Good, pc = "serve", Followable, 2 + rxSeq < Len(sent)
    PROVE  /\ RecordAt(rxPos) = 3 + rxSeq /\ 3 + rxSeq \in 1..Len(sent)
           /\ Decrypts(3 + rxSeq) /\ rxSeq \in Nat
<1>g. Streams /\ Hand /\ Phase /\ Early /\ Served
  BY DEF Good
<1>1. /\ rxSeq \in Nat /\ rxPos = End(2 + rxSeq) /\ rxSeq >= records /\ records \in Nat
      /\ W = 2 + records /\ Len(sent) \in Nat /\ sent \in Seq(Recs)
      /\ \A i \in W + 1..2 + rxSeq : sent[i].kind = "data"
  BY <1>g, NumbersIs DEF Served, Phase, Hand, W, Streams
<1>2. 3 + rxSeq \in 1..Len(sent) /\ (2 + rxSeq) + 1 = 3 + rxSeq /\ 2 + rxSeq \in Nat
  BY <1>1
<1>3. RecordAt(rxPos) = 3 + rxSeq
  BY <1>1, <1>2, RecordAtIs
<1>4. ASSUME NEW j \in 3..2 + rxSeq PROVE sent[j].kind \notin {"update", "answered"}
  <2>1. CASE j \in 3..W
    <3>1. j \in EarlyRecords
      BY <1>1, <2>1, FlightIs DEF EarlyRecords
    <3> QED BY <1>g, <2>1, <3>1 DEF Followable, Early
  <2>2. CASE j \in W + 1..2 + rxSeq
    BY <1>1, <2>2
  <2> QED BY <1>1, <2>1, <2>2
<1>5. Len(Flight) + 1..(3 + rxSeq) - 1 = 3..2 + rxSeq
  BY <1>1, FlightIs
<1>6. Updates(3 + rxSeq) = {}
  BY <1>4, <1>5 DEF Updates
<1>7. Seq_(3 + rxSeq) = rxSeq
  BY <1>1, <1>6, FlightIs DEF Seq_
<1> QED BY <1>1, <1>2, <1>3, <1>6, <1>7 DEF Decrypts

LEMMA KernelStep == Inv /\ KernelRecord => Inv'
<1> SUFFICES ASSUME Inv, KernelRecord PROVE Inv'
  OBVIOUS
<1>u. /\ sent' = sent /\ arrived' = arrived
      /\ taken' = taken /\ delivered' = delivered /\ have' = have
      /\ pc' = pc /\ fed' = fed /\ records' = records /\ plain' = plain
  BY DEF KernelRecord, clientVars, takeVars
<1>g. /\ pc = "serve" /\ Good /\ Len(plain) <= PlainMax
      /\ Streams /\ Hand /\ Phase /\ Early /\ Handover /\ Served
  BY DEF Inv, Good, KernelRecord
<1>1. /\ W' = W /\ \A i : End(i)' = End(i)
  BY <1>u DEF W, End
<1>2. Streams' /\ Hand'
  BY <1>1, <1>g, <1>u DEF Streams, Hand, Size
<1>3. Phase' /\ Handover'
  BY <1>1, <1>g, <1>u DEF Phase, Handover
<1>4. Early'
  BY <1>1, <1>g, <1>u DEF Early
<1>5. Served'
  <2> SUFFICES ASSUME Followable' PROVE Served'
    BY DEF Served
  <2>1. Followable
    BY <1>u DEF Followable, EarlyRecords, Closes
  <2>2. /\ garbled = FALSE /\ rxSeq \in Nat /\ rxSeq >= records /\ 2 + rxSeq <= Len(sent)
        /\ rxPos = End(2 + rxSeq) /\ got = Carried(sent)[2 + rxSeq]
        /\ \A i \in W + 1..2 + rxSeq : sent[i].kind = "data"
    BY <1>g, <2>1 DEF Served
  <2>3. fed = 2 /\ records \in Nat /\ W = 2 + records /\ Len(sent) \in Nat /\ sent \in Seq(Recs)
    BY <1>g, NumbersIs DEF Phase, Hand, W, Streams
  <2>4. rxPos \in Boundaries
    <3>1. 2 + rxSeq \in 0..Len(sent)
      BY <2>2, <2>3
    <3> QED BY <2>2, <3>1 DEF Boundaries
  <2>5. PICK i \in 1..Len(sent) : End(i - 1) = rxPos
    BY <2>4 DEF KernelRecord
  <2>6. 2 + rxSeq < Len(sent)
    <3> SUFFICES ASSUME 2 + rxSeq = Len(sent) PROVE FALSE
      BY <2>2, <2>3
    <3>1. i - 1 \in 0..Len(sent) /\ 2 + rxSeq \in 0..Len(sent) /\ i - 1 < 2 + rxSeq
      BY <2>2, <2>3
    <3>2. End(i - 1) + Hdr < End(2 + rxSeq)
      BY <2>3, <3>1, EndsGrow DEF End
    <3>3. End(i - 1) \in Nat
      BY <1>g, <3>1, NumbersIs
    <3> QED BY <2>2, <2>5, <3>2, <3>3, HandshakeAssumption
  <2>7. RecordAt(rxPos) = 3 + rxSeq /\ 3 + rxSeq \in 1..Len(sent) /\ Decrypts(3 + rxSeq)
    BY <1>g, <2>1, <2>6, KernelDecrypts
  <2>8. CASE sent[3 + rxSeq].kind = "data"
    <3>1. /\ got' = got \o Plaintext(3 + rxSeq) /\ rxPos' = End(3 + rxSeq)
          /\ rxSeq' = rxSeq + 1 /\ garbled' = garbled
      BY <2>4, <2>7, <2>8 DEF KernelRecord
    <3>2. 2 + rxSeq' = 3 + rxSeq /\ rxSeq' \in Nat /\ (3 + rxSeq) - 1 = 2 + rxSeq
      BY <2>2, <3>1
    <3>3. ASSUME NEW j \in W + 1..3 + rxSeq PROVE sent[j].kind = "data"
      <4>1. CASE j = 3 + rxSeq
        BY <2>8, <4>1
      <4>2. CASE j \in W + 1..2 + rxSeq
        BY <2>2, <4>2
      <4> QED BY <2>2, <2>3, <4>1, <4>2
    <3>4. IsOpen(sent, 3 + rxSeq)
      <4> SUFFICES ASSUME NEW j \in 1..3 + rxSeq PROVE sent[j].kind # "close"
        BY DEF IsOpen
      <4>1. CASE j <= 2
        BY <1>g, <2>2, <2>3, <2>7, <4>1 DEF Streams
      <4>2. CASE j \in 3..W
        <5>1. j \in EarlyRecords /\ j # Len(sent)
          BY <2>2, <2>3, <2>6, <4>2, FlightIs DEF EarlyRecords
        <5> QED BY <2>1, <5>1 DEF Followable, Closes
      <4>3. CASE j \in W + 1..3 + rxSeq
        BY <3>3, <4>3
      <4> QED BY <2>2, <2>3, <4>1, <4>2, <4>3
    <3>5. got' = Carried(sent)[3 + rxSeq]
      BY <2>2, <2>3, <2>7, <3>1, <3>2, <3>4, AddsData
    <3>6. rxSeq' >= records /\ 2 + rxSeq' <= Len(sent)
      BY <2>2, <2>3, <2>6, <3>1
    <3> QED BY <1>1, <1>u, <2>2, <3>1, <3>2, <3>3, <3>5, <3>6 DEF Served
  <2>9. CASE sent[3 + rxSeq].kind # "data"
    <3>1. got' = got /\ rxPos' = rxPos /\ rxSeq' = rxSeq /\ garbled' = garbled
      BY <2>4, <2>7, <2>9 DEF KernelRecord
    <3> QED BY <1>1, <1>u, <2>2, <3>1 DEF Served
  <2> QED BY <2>8, <2>9
<1> QED BY <1>2, <1>3, <1>4, <1>5, <1>g, <1>u DEF Inv, Good, PCs

-----------------------------------------------------------------------------
(* The theorem.                                                            *)

LEMMA StutterStep == Inv /\ UNCHANGED vars => Inv'
<1> SUFFICES ASSUME Inv, UNCHANGED vars PROVE Inv'
  OBVIOUS
<1>u. /\ sent' = sent /\ arrived' = arrived /\ rxPos' = rxPos /\ rxSeq' = rxSeq
      /\ garbled' = garbled /\ taken' = taken /\ delivered' = delivered /\ have' = have
      /\ recv' = recv /\ pc' = pc /\ fed' = fed /\ records' = records /\ plain' = plain
      /\ got' = got
  BY DEF vars, clientVars, kernelVars, takeVars
<1>1. W' = W /\ (\A i : End(i)' = End(i)) /\ Followable' = Followable
  BY <1>u DEF W, End, Followable, EarlyRecords, Closes
<1>2. /\ Streams => Streams'
      /\ Hand => Hand'
  BY <1>1, <1>u DEF Streams, Hand, Size
<1>3. /\ Phase => Phase'
      /\ Handover => Handover'
  BY <1>1, <1>u DEF Phase, Handover
<1>4. /\ Early => Early'
      /\ Served => Served'
  BY <1>1, <1>u DEF Early, Served
<1> QED BY <1>2, <1>3, <1>4, <1>u DEF Inv, Good

LEMMA StepInv == Inv /\ [Next]_vars => Inv'
BY SendStep, NetStep, ShakeStep, FeedStep, PauseStep, DrainTakeStep, DrainRecordStep,
   InstallStep, InjectStep, ResumeStep, KernelStep, StutterStep
   DEF Next, Client, Recv, Prologue

LEMMA InvInOrder == Inv => InOrder
<1> SUFFICES ASSUME Inv, pc = "serve", Followable
             PROVE  ~ garbled /\ IsPrefix(got, ClientPlain)
  BY DEF Inv, InOrder
<1>g. Streams /\ Hand /\ Served
  BY DEF Inv, Good
<1>1. /\ garbled = FALSE /\ rxSeq \in Nat /\ 2 + rxSeq <= Len(sent)
      /\ got = Carried(sent)[2 + rxSeq] /\ Len(sent) \in Nat /\ sent \in Seq(Recs)
  BY <1>g, NumbersIs DEF Served, Streams
<1>2. 2 + rxSeq \in 0..Len(sent) /\ Len(sent) \in 0..Len(sent)
  BY <1>1
<1>3. Begins(Carried(sent)[2 + rxSeq], Carried(sent)[Len(sent)])
  BY <1>1, <1>2, CarriedBegins
<1>4. Carried(sent)[2 + rxSeq] \in Seq(Units) /\ Carried(sent)[Len(sent)] \in Seq(Units)
  BY <1>1, <1>2, CarriedAre
<1> QED BY <1>1, <1>3, <1>4, BeginsIsPrefix DEF ClientPlain

\* However the client's records are sized, however TCP cuts them, wherever the
\* pause of the recv falls among them and however many drain_records takes,
\* what the handler reads is what the client sent, in order and without a
\* gap, and the kernel decrypts every record it meets: the position and the
\* sequence number install(c, TLS_RX, s.rx, records) gives it are those of
\* the next record.  The early plaintext stays within PLAIN_MAX.
THEOREM HandoverIsInOrder == Spec => []InOrder
<1>1. Init => Inv
  BY InitInv
<1>2. Inv /\ [Next]_vars => Inv'
  BY StepInv
<1>3. Inv => InOrder
  BY InvInOrder
<1> QED BY <1>1, <1>2, <1>3, PTL DEF Spec
=============================================================================
