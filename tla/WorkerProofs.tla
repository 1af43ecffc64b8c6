---------------------------- MODULE WorkerProofs ----------------------------
(***************************************************************************)
(* The safety of a worker, for any number of connections and buffers and   *)
(* any queue sizes: buffers, starved list, accept and exit.                *)
(*                                                                         *)
(* What a CQE does to a connection depends on what the connection waits    *)
(* for, so the invariant follows each thing under way through the rings:   *)
(* a recv, a one-shot op, an accept, a ready coroutine, a starved          *)
(* connection and a buffer are each counted over every place they can be   *)
(* in, and the connection's record says what the count is.                 *)
(*                                                                         *)
(* Then the refinement: seen from one connection, every step of the worker *)
(* is a step of module Conn or none.  A connection sees the SQEs and CQEs  *)
(* that are its own, picked out of the shared queues; what goes into and   *)
(* out of those is followed through the picking, action by action.         *)
(***************************************************************************)
EXTENDS Worker, Integers, FiniteSetTheorems, SequenceTheorems, WellFoundedInduction,
        NaturalsInduction, TLAPS

-----------------------------------------------------------------------------
(* Types.                                                                  *)

ConnType == [refs : Nat, recv : {"armed", "starved", "paused", "done"},
             pausing : BOOLEAN, cancelling : BOOLEAN, closed : BOOLEAN, eof : BOOLEAN,
             rx : Seq(Buffers), held : SUBSET Buffers,
             co : {"none", "ready", "run", "run_recv", "run_pause", "recv", "pause", "parked"},
             phase : {"serve", "hs", "fail"}]

FrameType == {f \in [c : Conns \cup {None}, k : {"none", "unref", "more", "last"}] :
                f.k # "none" => f.c \in Conns}

SqeType == {e \in [op : {"recv", "cancel", "close", "op", "accept", "cancelaccept", "blanket"},
                   c : Conns \cup {None}] :
              /\ e.op \in {"recv", "cancel", "op"} => e.c \in Conns
              /\ e.op \in {"accept", "cancelaccept", "blanket"} => e.c = None}

CqeType == {e \in [t : {"recv", "op", "drain", "accept"}, c : Conns \cup {None},
                   k : {"data", "fin", "cancelled", "enobufs", "done", "known", "refused",
                        "ok", "exhausted", "failed"},
                   more : BOOLEAN, b : Buffers \cup {None}] :
              /\ e.t \in {"recv", "op"} => e.c \in Conns
              /\ e.t = "recv" => e.k \in {"data", "fin", "cancelled", "enobufs"}
              /\ e.t = "recv" /\ e.more => e.k = "data"
              /\ e.b # None => e.t = "recv" /\ e.k \in {"data", "fin"}
              /\ e.k = "data" => e.b # None}

TypeOK ==
    /\ cfg \in Setups
    /\ conn \in [Conns -> ConnType] /\ frame \in FrameType
    /\ ready \in Seq(Conns) /\ starved \in Seq(Conns)
    /\ live \in Nat /\ returned \in Nat
    /\ staged \subseteq Buffers /\ kfree \subseteq Buffers
    /\ sq \in Seq(SqeType) /\ cq \in Seq(CqeType)
    /\ batch \in Nat /\ batch <= Len(cq)
    /\ krecv \subseteq Conns /\ kop \subseteq Conns
    /\ listener \in [stalled : BOOLEAN, at : Nat]

-----------------------------------------------------------------------------
(* The invariant.                                                          *)

One(p)      == IF p THEN 1 ELSE 0
Count(s, S) == Cardinality({i \in 1..Len(s) : s[i] \in S})

RecvEnds(c) == {e \in CqeType : e.t = "recv" /\ e.c = c /\ ~e.more}
OpDones(c)  == {e \in CqeType : e.t = "op" /\ e.c = c}
Bearing(b)  == {e \in CqeType : e.b = b}
AcceptLast  == {e \in CqeType : e.t = "accept" /\ ~e.more}

(* How often each thing is in each queue.                                  *)
RecvsInSq(c) == Count(sq, {Sqe("recv", c)})
EndsInCq(c)  == Count(cq, RecvEnds(c))
OpsInSq(c)   == Count(sq, {Sqe("op", c)})
DonesInCq(c) == Count(cq, OpDones(c))
Frame(c, k)  == frame.c = c /\ frame.k = k

(* A recv is under way for an armed connection, at one place, and for no   *)
(* other: staged, in the kernel, ended, or behind its last CQE.            *)
RecvOk(c) ==
    LET s == RecvsInSq(c)  k == c \in krecv  e == EndsInCq(c)  f == Frame(c, "last") IN
    IF conn[c].recv = "armed" THEN \/ s = 1 /\ ~k /\ e = 0 /\ ~f
                                   \/ s = 0 /\  k /\ e = 0 /\ ~f
                                   \/ s = 0 /\ ~k /\ e = 1 /\ ~f
                                   \/ s = 0 /\ ~k /\ e = 0 /\  f
                              ELSE    s = 0 /\ ~k /\ e = 0 /\ ~f

(* A coroutine is parked for the one op it awaits.                         *)
OpOk(c) ==
    LET s == OpsInSq(c)  k == c \in kop  e == DonesInCq(c) IN
    IF conn[c].co = "parked" THEN \/ s = 1 /\ ~k /\ e = 0
                                  \/ s = 0 /\  k /\ e = 0
                                  \/ s = 0 /\ ~k /\ e = 1
                             ELSE    s = 0 /\ ~k /\ e = 0

(* What is in the lists.                                                   *)
ListOk(c) == /\ Count(ready, {c}) = One(conn[c].co = "ready")
             /\ Count(starved, {c}) = One(conn[c].recv = "starved")

(* Who has a reference: the coroutine, the recv until it is done, and an   *)
(* on_recv that is about to drop the recv's.                               *)
RefsOk(c) == conn[c].refs = One(conn[c].co # "none") + One(conn[c].recv # "done")
                            + One(Frame(c, "unref"))

(* A connection without a coroutine has no buffers, and gets none.         *)
GoneOk(c) == conn[c].co = "none" =>
                /\ conn[c].rx = <<>> /\ conn[c].held = {}
                /\ conn[c].recv # "done" => conn[c].closed

ConnOk(c) == RecvOk(c) /\ OpOk(c) /\ ListOk(c) /\ RefsOk(c) /\ GoneOk(c)

(* A CQE of a recv that goes on is followed by its end, or it goes on.     *)
EndFollows ==
    \A i \in 1..Len(cq) : cq[i].t = "recv" =>
        \/ cq[i].c \in krecv
        \/ \E j \in i..Len(cq) : cq[j] \in RecvEnds(cq[i].c)

LiveOk == live = Cardinality(Open)

(* A buffer is once with the rings, or once with one connection.           *)
InRings(b)   == One(b \in kfree) + One(b \in staged) + Count(cq, Bearing(b))
With(b, c)   == Count(conn[c].rx, {b}) + One(b \in conn[c].held)
BufferOk(b)  == \/ InRings(b) = 1 /\ \A c \in Conns : With(b, c) = 0
                \/ /\ InRings(b) = 0
                   /\ \E c \in Conns : /\ With(b, c) = 1
                                       /\ \A d \in Conns : d # c => With(b, d) = 0

(* An accept is cancelled behind where it is; nothing else is before the   *)
(* shutdown.                                                               *)
Accepts  == {Sqe("accept", None)}
Cancels  == {Sqe("cancelaccept", None)}
AcceptOk ==
    /\ ~draining => /\ Count(sq, Accepts) + One(kaccept) + Count(cq, AcceptLast)
                         = One(~listener.stalled)
                    /\ \A i \in 1..Len(sq) : sq[i].op # "blanket"
    /\ draining =>
         /\ \A i \in 1..Len(sq) : sq[i] \in Accepts => \E j \in (i + 1)..Len(sq) : sq[j] \in Cancels
         /\ kaccept => \E j \in 1..Len(sq) : sq[j] \in Cancels

Inv ==
    /\ TypeOK
    /\ \A c \in Conns : ConnOk(c)
    /\ EndFollows /\ LiveOk /\ AcceptOk
    /\ \A b \in cfg.buffers : BufferOk(b)

-----------------------------------------------------------------------------
(* Counting in a sequence.                                                 *)

\* A count is a number.
LEMMA CountNat ==
    ASSUME NEW T, NEW s \in Seq(T), NEW S
    PROVE  /\ IsFiniteSet({i \in 1..Len(s) : s[i] \in S})
           /\ Count(s, S) \in Nat
<1>1. Len(s) \in Nat
  BY LenProperties
<1>2. IsFiniteSet(1..Len(s))
  BY <1>1, FS_Interval
<1>3. IsFiniteSet({i \in 1..Len(s) : s[i] \in S})
  BY <1>2, FS_Subset
<1> QED BY <1>3, FS_CardinalityType DEF Count

\* What is there is counted.
LEMMA CountPos ==
    ASSUME NEW T, NEW s \in Seq(T), NEW S, NEW i \in 1..Len(s), s[i] \in S
    PROVE  Count(s, S) >= 1
<1> DEFINE A == {j \in 1..Len(s) : s[j] \in S}
<1>1. {i} \in SUBSET A
  OBVIOUS
<1>2. IsFiniteSet(A) /\ Cardinality(A) = Count(s, S) /\ Count(s, S) \in Nat
  BY CountNat DEF Count
<1>3. Cardinality({i}) = 1
  BY FS_Singleton
<1> HIDE DEF A
<1>4. Cardinality({i}) <= Cardinality(A)
  BY <1>1, <1>2, FS_Subset
<1> QED BY <1>2, <1>3, <1>4

\* What is not is not.
LEMMA CountZero ==
    ASSUME NEW T, NEW s \in Seq(T), NEW S
    PROVE  Count(s, S) = 0 <=> \A i \in 1..Len(s) : s[i] \notin S
<1> DEFINE A == {i \in 1..Len(s) : s[i] \in S}
<1>1. IsFiniteSet(A) /\ Count(s, S) = Cardinality(A)
  BY CountNat DEF Count
<1>2. Cardinality(A) = 0 <=> A = {}
  BY <1>1, FS_EmptySet
<1> QED BY <1>1, <1>2

\* Counts add up.
LEMMA CountCat ==
    ASSUME NEW T, NEW s \in Seq(T), NEW t \in Seq(T), NEW S
    PROVE  s \o t \in Seq(T) /\ Count(s \o t, S) = Count(s, S) + Count(t, S)
<1> DEFINE u == s \o t
           A == {i \in 1..Len(s) : s[i] \in S}
           B == {i \in 1..Len(t) : t[i] \in S}
           D == {i \in (Len(s) + 1)..(Len(s) + Len(t)) : u[i] \in S}
           E == {i \in 1..Len(u) : u[i] \in S}
           f == [i \in B |-> i + Len(s)]
<1>1. /\ u \in Seq(T) /\ Len(u) = Len(s) + Len(t) /\ Len(s) \in Nat /\ Len(t) \in Nat
      /\ \A i \in 1..(Len(s) + Len(t)) : u[i] = IF i <= Len(s) THEN s[i] ELSE t[i - Len(s)]
  BY ConcatProperties, LenProperties
<1>2. IsFiniteSet(A) /\ IsFiniteSet(B)
  BY CountNat
<1> HIDE DEF u
<1>3. E = A \cup D /\ A \cap D = {}
  BY <1>1
<1>4. f \in Bijection(B, D)
  <2>1. f \in [B -> D]
    <3> SUFFICES ASSUME NEW i \in B PROVE i + Len(s) \in D
      OBVIOUS
    <3>1. i + Len(s) \in (Len(s) + 1)..(Len(s) + Len(t)) /\ (i + Len(s)) - Len(s) = i
          /\ ~ (i + Len(s) <= Len(s)) /\ i + Len(s) \in 1..(Len(s) + Len(t))
      BY <1>1
    <3> QED BY <1>1, <3>1
  <2>2. \A a, b \in B : f[a] = f[b] => a = b
    BY <1>1
  <2>3. \A d \in D : \E a \in B : f[a] = d
    <3> TAKE d \in D
    <3>1. d - Len(s) \in 1..Len(t) /\ (d - Len(s)) + Len(s) = d
          /\ ~ (d <= Len(s)) /\ d \in 1..(Len(s) + Len(t))
      BY <1>1
    <3>2. d - Len(s) \in B
      BY <1>1, <3>1
    <3> QED BY <3>1, <3>2
  <2> HIDE DEF B, D, f
  <2> QED BY <2>1, <2>2, <2>3 DEF Bijection, Injection, Surjection, IsInjective
<1>5. IsFiniteSet(D) /\ Cardinality(D) = Cardinality(B)
  BY <1>2, <1>4, FS_Bijection DEF ExistsBijection
<1>6. Cardinality(E) = Cardinality(A) + Cardinality(D) - Cardinality({})
  <2> HIDE DEF A, E, D
  <2> QED BY <1>2, <1>3, <1>5, FS_Union
<1>7. Cardinality({}) = 0 /\ Cardinality(A) \in Nat /\ Cardinality(D) \in Nat
  BY <1>2, <1>5, FS_EmptySet, FS_CardinalityType
<1>8. Count(u, S) = Cardinality(E) /\ Count(s, S) = Cardinality(A) /\ Count(t, S) = Cardinality(B)
  BY DEF Count
<1> HIDE DEF A, B, E, D
<1>9. Count(u, S) = Count(s, S) + Count(t, S)
  BY <1>5, <1>6, <1>7, <1>8
<1> QED BY <1>1, <1>9 DEF u

\* Nothing is in the empty sequence.
LEMMA CountEmpty == \A S : Count(<<>>, S) = 0
<1> SUFFICES ASSUME NEW S PROVE Count(<<>>, S) = 0
  OBVIOUS
<1>1. {i \in 1..Len(<<>>) : <<>>[i] \in S} = {}
  OBVIOUS
<1> QED BY <1>1, FS_EmptySet DEF Count

\* A sequence of one.
LEMMA CountOne ==
    ASSUME NEW T, NEW e \in T, NEW S
    PROVE  <<e>> \in Seq(T) /\ Count(<<e>>, S) = One(e \in S)
<1> DEFINE w == <<e>>
           A == {i \in 1..Len(w) : w[i] \in S}
<1>1. w \in Seq(T) /\ Len(w) = 1 /\ w[1] = e
  OBVIOUS
<1>2. A = IF e \in S THEN {1} ELSE {}
  BY <1>1
<1>3. Cardinality({1}) = 1 /\ Cardinality({}) = 0
  BY FS_Singleton, FS_EmptySet
<1>4. Count(w, S) = Cardinality(A)
  BY DEF Count
<1> HIDE DEF A, w
<1>5. Count(w, S) = One(e \in S)
  BY <1>2, <1>3, <1>4 DEF One
<1> QED BY <1>1, <1>5 DEF w

\* One more at the end.
LEMMA CountAppend ==
    ASSUME NEW T, NEW s \in Seq(T), NEW e \in T, NEW S
    PROVE  Append(s, e) \in Seq(T) /\ Count(Append(s, e), S) = Count(s, S) + One(e \in S)
<1>1. Append(s, e) = s \o <<e>>
  BY AppendIsConcat
<1>2. <<e>> \in Seq(T) /\ Count(<<e>>, S) = One(e \in S)
  BY CountOne
<1> DEFINE w == <<e>>
<1>3. s \o w \in Seq(T) /\ Count(s \o w, S) = Count(s, S) + Count(w, S)
  <2> w \in Seq(T)
    BY <1>2
  <2> HIDE DEF w
  <2> QED BY CountCat
<1> QED BY <1>1, <1>2, <1>3

\* One fewer at the front.
LEMMA CountTail ==
    ASSUME NEW T, NEW s \in Seq(T), s # <<>>, NEW S
    PROVE  /\ Head(s) \in T /\ Tail(s) \in Seq(T) /\ Len(Tail(s)) = Len(s) - 1
           /\ Count(s, S) = One(Head(s) \in S) + Count(Tail(s), S)
<1> DEFINE w == <<Head(s)>>  t == Tail(s)
<1>1. Head(s) \in T /\ t \in Seq(T) /\ s = w \o t /\ Len(t) = Len(s) - 1
  BY HeadTailProperties, ConcatSimplifications
<1>2. w \in Seq(T) /\ Count(w, S) = One(Head(s) \in S)
  BY <1>1, CountOne
<1>3. Count(w \o t, S) = Count(w, S) + Count(t, S)
  <2> HIDE DEF w, t
  <2> QED BY <1>1, <1>2, CountCat
<1> QED BY <1>1, <1>2, <1>3

\* A sequence in two parts.
LEMMA CountSplit ==
    ASSUME NEW T, NEW s \in Seq(T), NEW n \in 0..Len(s), NEW S
    PROVE  /\ SubSeq(s, 1, n) \in Seq(T) /\ SubSeq(s, n + 1, Len(s)) \in Seq(T)
           /\ Len(SubSeq(s, 1, n)) = n
           /\ \A i \in 1..n : SubSeq(s, 1, n)[i] = s[i]
           /\ Count(s, S) = Count(SubSeq(s, 1, n), S) + Count(SubSeq(s, n + 1, Len(s)), S)
<1> DEFINE a == SubSeq(s, 1, n)  b == SubSeq(s, n + 1, Len(s))
<1>1. Len(s) \in Nat /\ \A i \in 1..Len(s) : s[i] \in T
  BY LenProperties, ElementOfSeq
<1>2. a \in Seq(T) /\ Len(a) = n /\ \A i \in 1..n : a[i] = s[i]
  BY <1>1
<1>3. b \in Seq(T) /\ Len(b) = Len(s) - n /\ \A i \in 1..(Len(s) - n) : b[i] = s[n + i]
  BY <1>1
<1> HIDE DEF a, b
<1>4. a \o b = s
  <2>1. 1 \in 1..(Len(s) + 1) /\ n \in (1 - 1)..Len(s) /\ Len(s) \in n..Len(s)
    BY <1>1
  <2> QED BY <2>1, ConcatAdjacentSubSeq, SubSeqFull DEF a, b
<1>5. Count(a \o b, S) = Count(a, S) + Count(b, S)
  BY <1>2, <1>3, CountCat
<1> QED BY <1>2, <1>3, <1>4, <1>5 DEF a, b

\* Without one place.
LEMMA CountRemoveAt ==
    ASSUME NEW T, NEW s \in Seq(T), NEW p \in 1..Len(s), NEW S
    PROVE  /\ RemoveAt(s, p) \in Seq(T)
           /\ Count(s, S) = One(s[p] \in S) + Count(RemoveAt(s, p), S)
<1> DEFINE a == SubSeq(s, 1, p - 1)  d == SubSeq(s, p, Len(s))  b == SubSeq(s, p + 1, Len(s))
<1>1. Len(s) \in Nat /\ p - 1 \in 0..Len(s) /\ (p - 1) + 1 = p
  BY LenProperties
<1>2. a \in Seq(T) /\ d \in Seq(T) /\ Count(s, S) = Count(a, S) + Count(d, S)
  BY <1>1, CountSplit
<1>3. d # <<>> /\ Head(d) = s[p] /\ Tail(d) = b
  <2>1. Len(d) = Len(s) - p + 1
    BY <1>1
  <2>2. d # <<>>
    <3> HIDE DEF d
    <3> QED BY <1>1, <2>1, EmptySeq
  <2> QED BY <1>1, <2>2, HeadTailOfSubSeq
<1>4. b \in Seq(T) /\ Count(d, S) = One(s[p] \in S) + Count(b, S)
  <2> HIDE DEF d, b
  <2> QED BY <1>2, <1>3, CountTail, ZenonT(40)
<1>5. RemoveAt(s, p) = a \o b
  BY DEF RemoveAt
<1> HIDE DEF a, b, d
<1>6. a \o b \in Seq(T) /\ Count(a \o b, S) = Count(a, S) + Count(b, S)
  BY <1>2, <1>4, CountCat
<1>7. Count(a, S) \in Nat /\ Count(b, S) \in Nat /\ One(s[p] \in S) \in Nat
  BY <1>2, <1>4, CountNat DEF One
<1> QED BY <1>2, <1>4, <1>5, <1>6, <1>7

\* Without the last.
LEMMA CountFront ==
    ASSUME NEW T, NEW s \in Seq(T), s # <<>>, NEW S
    PROVE  /\ Front(s) \in Seq(T) /\ Last(s) \in T
           /\ Count(s, S) = One(Last(s) \in S) + Count(Front(s), S)
<1>1. Len(s) \in Nat /\ Len(s) # 0
  BY LenProperties, EmptySeq
<1>2. Len(s) \in 1..Len(s) /\ Last(s) = s[Len(s)] /\ Last(s) \in T
  BY <1>1, ElementOfSeq DEF Last
<1>3. RemoveAt(s, Len(s)) = Front(s)
  <2> DEFINE a == SubSeq(s, 1, Len(s) - 1)  b == SubSeq(s, Len(s) + 1, Len(s))
  <2>1. RemoveAt(s, Len(s)) = a \o b
    BY DEF RemoveAt
  <2>2. a \in Seq(T)
    <3>1. Len(s) - 1 \in 0..Len(s)
      BY <1>1
    <3> QED BY <3>1, CountSplit
  <2>3. b = <<>>
    BY <1>1, SubSeqEmpty
  <2> HIDE DEF a, b
  <2>4. a \o b = a
    BY <2>2, <2>3, ConcatEmptySeq
  <2> QED BY <2>1, <2>4 DEF Front, a
<1>4. Front(s) \in Seq(T) /\ Count(s, S) = One(s[Len(s)] \in S) + Count(Front(s), S)
  BY <1>2, <1>3, CountRemoveAt
<1> QED BY <1>2, <1>4

\* Every element of a set once, in any order.
LEMMA CountListing ==
    ASSUME NEW A, IsFiniteSet(A), NEW s \in SetToSeqs(A), NEW S
    PROVE  s \in Seq(A) /\ Count(s, S) = Cardinality(A \cap S)
<1> DEFINE N == Cardinality(A)
           D == {i \in 1..Len(s) : s[i] \in S}
           f == [i \in D |-> s[i]]
<1>1. N \in Nat
  BY FS_CardinalityType
<1>2. s \in [1..N -> A] /\ \A i, j \in 1..N : i # j => s[i] # s[j]
  BY DEF SetToSeqs
<1>3. s \in Seq(A) /\ Len(s) = N
  BY <1>1, <1>2
<1>4. s \in Injection(1..N, A)
  <2> HIDE DEF N
  <2> QED BY <1>2 DEF Injection, IsInjective
<1>5. IsFiniteSet(1..N) /\ Cardinality(1..N) = N
  BY <1>1, FS_Interval
<1>6. s \in Surjection(1..N, A)
  BY <1>4, <1>5, FS_Injection
<1>7. \A a \in A : \E i \in 1..N : s[i] = a
  <2> HIDE DEF N
  <2> QED BY <1>6 DEF Surjection
<1> HIDE DEF N
<1>8. f \in Bijection(D, A \cap S)
  <2>1. f \in [D -> A \cap S]
    BY <1>2, <1>3
  <2>2. \A i, j \in D : f[i] = f[j] => i = j
    BY <1>2, <1>3
  <2>3. \A a \in A \cap S : \E i \in D : f[i] = a
    BY <1>7, <1>3
  <2> HIDE DEF D, f
  <2> QED BY <2>1, <2>2, <2>3 DEF Bijection, Injection, Surjection, IsInjective
<1>9. IsFiniteSet(D)
  BY <1>3, CountNat
<1>10. Cardinality(A \cap S) = Cardinality(D)
  <2> HIDE DEF D
  <2> QED BY <1>8, <1>9, FS_Bijection DEF ExistsBijection
<1> QED BY <1>3, <1>10 DEF Count

\* None is neither a connection nor a buffer.
LEMMA NoneOut == None \notin Conns /\ None \notin Buffers
BY WorkerAssumption

\* An SQE is its fields.
LEMMA SqeFields ==
    \A o, c : /\ Sqe(o, c).op = o /\ Sqe(o, c).c = c
              /\ \A p, d : Sqe(o, c) = Sqe(p, d) <=> o = p /\ c = d
<1> SUFFICES ASSUME NEW o, NEW c, NEW p, NEW d
             PROVE  /\ Sqe(o, c).op = o /\ Sqe(o, c).c = c
                    /\ Sqe(o, c) = Sqe(p, d) => o = p /\ c = d
  OBVIOUS
<1>1. Sqe(o, c).op = o /\ Sqe(o, c).c = c /\ Sqe(p, d).op = p /\ Sqe(p, d).c = d
  BY DEF Sqe
<1> QED BY <1>1

\* What rearm_starved stages.
LEMMA CountRecvs ==
    ASSUME NEW s \in Seq(Conns), NEW n \in Nat, Len(s) = n
    PROVE  LET t == [i \in 1..n |-> Sqe("recv", s[i])] IN
           /\ t \in Seq(SqeType) /\ Len(t) = n
           /\ \A c \in Conns : /\ Count(t, {Sqe("recv", c)}) = Count(s, {c})
                               /\ Count(t, {Sqe("op", c)}) = 0
           /\ \A i \in 1..n : t[i].op = "recv"
<1> DEFINE t == [i \in 1..n |-> Sqe("recv", s[i])]
<1>1. \A i \in 1..n : s[i] \in Conns
  BY ElementOfSeq
<1>2. \A i \in 1..n : Sqe("recv", s[i]) \in SqeType
  BY <1>1 DEF Sqe, SqeType
<1>3. t \in Seq(SqeType) /\ Len(t) = n /\ \A i \in 1..n : t[i] = Sqe("recv", s[i])
  BY <1>2
<1> HIDE DEF t
<1>4. ASSUME NEW c \in Conns PROVE Count(t, {Sqe("recv", c)}) = Count(s, {c})
  <2>1. \A i \in 1..n : t[i] \in {Sqe("recv", c)} <=> s[i] \in {c}
    BY <1>3, SqeFields
  <2>2. {i \in 1..Len(t) : t[i] \in {Sqe("recv", c)}} = {i \in 1..Len(s) : s[i] \in {c}}
    BY <1>3, <2>1
  <2> QED BY <2>2 DEF Count
<1>5. ASSUME NEW c \in Conns PROVE Count(t, {Sqe("op", c)}) = 0
  <2>1. \A i \in 1..Len(t) : t[i] \notin {Sqe("op", c)}
    BY <1>3, SqeFields
  <2> QED BY <1>3, <2>1, CountZero
<1>6. \A i \in 1..n : t[i].op = "recv"
  BY <1>3, SqeFields
<1> QED BY <1>3, <1>4, <1>5, <1>6 DEF t

-----------------------------------------------------------------------------
(* What a step leaves alone.                                               *)

\* The counts are numbers.
LEMMA Nats ==
    ASSUME TypeOK, NEW c \in Conns
    PROVE  /\ RecvsInSq(c) \in Nat /\ EndsInCq(c) \in Nat /\ OpsInSq(c) \in Nat
           /\ DonesInCq(c) \in Nat /\ Count(ready, {c}) \in Nat /\ Count(starved, {c}) \in Nat
           /\ conn[c] \in ConnType
BY CountNat DEF TypeOK, RecvsInSq, EndsInCq, OpsInSq, DonesInCq

\* The counts of a buffer are numbers.
LEMMA BufNats ==
    ASSUME TypeOK, NEW b
    PROVE  /\ Count(cq, Bearing(b)) \in Nat
           /\ \A c \in Conns : Count(conn[c].rx, {b}) \in Nat
<1>1. \A c \in Conns : conn[c].rx \in Seq(Buffers)
  BY DEF TypeOK, ConnType
<1> QED BY <1>1, CountNat DEF TypeOK

\* The step does nothing to what is counted for d.
Same(d) ==
    /\ conn'[d] = conn[d]
    /\ RecvsInSq(d)' = RecvsInSq(d) /\ OpsInSq(d)' = OpsInSq(d)
    /\ EndsInCq(d)' = EndsInCq(d) /\ DonesInCq(d)' = DonesInCq(d)
    /\ (d \in krecv') <=> (d \in krecv)
    /\ (d \in kop') <=> (d \in kop)
    /\ Count(ready', {d}) = Count(ready, {d})
    /\ Count(starved', {d}) = Count(starved, {d})
    /\ Frame(d, "last")' <=> Frame(d, "last")
    /\ Frame(d, "unref")' <=> Frame(d, "unref")

\* A connection nothing is done to keeps its part.
LEMMA SameOk ==
    ASSUME NEW d \in Conns, Same(d), ConnOk(d)
    PROVE  ConnOk(d)'
<1>1. RecvOk(d)'
  BY DEF Same, ConnOk, RecvOk, One
<1>2. OpOk(d)'
  BY DEF Same, ConnOk, OpOk, One
<1>3. ListOk(d)'
  BY DEF Same, ConnOk, ListOk, One
<1>4. RefsOk(d)'
  BY DEF Same, ConnOk, RefsOk, One
<1>5. GoneOk(d)'
  BY DEF Same, ConnOk, GoneOk
<1> QED BY <1>1, <1>2, <1>3, <1>4, <1>5 DEF ConnOk

\* c's record becomes x, which is in use only if it was.
LEMMA PutOk ==
    ASSUME TypeOK, LiveOk, NEW c \in Conns, NEW x \in ConnType, Put(c, x),
           x.refs > 0 => conn[c].refs > 0
    PROVE  /\ conn' \in [Conns -> ConnType] /\ conn'[c] = x
           /\ \A d \in Conns : d # c => conn'[d] = conn[d]
           /\ live' \in Nat /\ LiveOk'
<1>1. conn' = [conn EXCEPT ![c] = x] /\ conn \in [Conns -> ConnType]
  BY DEF Put, TypeOK
<1>2. /\ conn' \in [Conns -> ConnType] /\ conn'[c] = x
      /\ \A d \in Conns : d # c => conn'[d] = conn[d]
  BY <1>1
<1>3. IsFiniteSet(Open)
  BY WorkerAssumption, FS_Subset DEF Open
<1>4. conn[c].refs \in Nat /\ x.refs \in Nat
  BY <1>1 DEF ConnType
<1>5. CASE conn[c].refs > 0 /\ x.refs = 0
  <2>1. Open' = Open \ {c} /\ c \in Open
    BY <1>2, <1>5 DEF Open
  <2>2. Cardinality(Open') = Cardinality(Open) - 1 /\ IsFiniteSet(Open')
    BY <1>3, <2>1, FS_RemoveElement
  <2>3. Cardinality(Open') \in Nat
    BY <2>2, FS_CardinalityType
  <2>4. live' = live - 1
    BY <1>5 DEF Put
  <2> QED BY <1>2, <2>2, <2>3, <2>4 DEF LiveOk
<1>6. CASE ~ (conn[c].refs > 0 /\ x.refs = 0)
  <2>1. Open' = Open
    BY <1>2, <1>4, <1>6 DEF Open
  <2>2. live' = live
    BY <1>6 DEF Put
  <2> QED BY <1>2, <2>1, <2>2 DEF LiveOk, TypeOK
<1> QED BY <1>5, <1>6

\* A buffer stays in one place, also when c and the rings exchange it.
LEMMA BufMove ==
    ASSUME NEW b, NEW c \in Conns, BufferOk(b),
           InRings(b) \in Nat, InRings(b)' \in Nat, With(b, c) \in Nat, With(b, c)' \in Nat,
           InRings(b)' + With(b, c)' = InRings(b) + With(b, c),
           \A d \in Conns : d # c => With(b, d)' = With(b, d)
    PROVE  BufferOk(b)'
<1>1. CASE InRings(b) = 1 /\ \A d \in Conns : With(b, d) = 0
  <2>1. CASE InRings(b)' = 1
    <3>1. With(b, c)' = 0
      BY <1>1, <2>1
    <3> QED BY <1>1, <2>1, <3>1 DEF BufferOk
  <2>2. CASE InRings(b)' = 0
    <3>1. With(b, c)' = 1
      BY <1>1, <2>2
    <3> QED BY <1>1, <2>2, <3>1 DEF BufferOk
  <2>3. InRings(b)' = 0 \/ InRings(b)' = 1
    BY <1>1
  <2> QED BY <2>1, <2>2, <2>3
<1>2. CASE InRings(b) = 0 /\ With(b, c) = 1 /\ \A d \in Conns : d # c => With(b, d) = 0
  <2>1. CASE InRings(b)' = 1
    <3>1. With(b, c)' = 0
      BY <1>2, <2>1
    <3> QED BY <1>2, <2>1, <3>1 DEF BufferOk
  <2>2. CASE InRings(b)' = 0
    <3>1. With(b, c)' = 1
      BY <1>2, <2>2
    <3> QED BY <1>2, <2>2, <3>1 DEF BufferOk
  <2>3. InRings(b)' = 0 \/ InRings(b)' = 1
    BY <1>2
  <2> QED BY <2>1, <2>2, <2>3
<1>3. CASE InRings(b) = 0 /\ \E e \in Conns : /\ e # c /\ With(b, e) = 1
                                            /\ \A d \in Conns : d # e => With(b, d) = 0
  <2>1. With(b, c) = 0
    BY <1>3
  <2>2. InRings(b)' = 0 /\ With(b, c)' = 0
    BY <1>3, <2>1
  <2> QED BY <1>3, <2>2 DEF BufferOk
<1> QED BY <1>1, <1>2, <1>3 DEF BufferOk

\* The rings alone exchange it.
LEMMA BufRings ==
    ASSUME NEW b, BufferOk(b), InRings(b)' = InRings(b),
           \A d \in Conns : With(b, d)' = With(b, d)
    PROVE  BufferOk(b)'
BY DEF BufferOk

\* What is appended to the SQ.
LEMMA Staged ==
    ASSUME TypeOK, NEW w \in Seq(SqeType), sq' = sq \o w
    PROVE  /\ sq' \in Seq(SqeType)
           /\ \A S : Count(sq', S) = Count(sq, S) + Count(w, S)
           /\ \A d \in Conns : /\ RecvsInSq(d)' = RecvsInSq(d) + Count(w, {Sqe("recv", d)})
                               /\ OpsInSq(d)' = OpsInSq(d) + Count(w, {Sqe("op", d)})
           /\ Len(sq') = Len(sq) + Len(w) /\ Len(sq) \in Nat /\ Len(w) \in Nat
           /\ \A i \in 1..Len(sq') : sq'[i] = IF i <= Len(sq) THEN sq[i] ELSE w[i - Len(sq)]
<1>1. sq \in Seq(SqeType)
  BY DEF TypeOK
<1>2. \A S : sq \o w \in Seq(SqeType) /\ Count(sq \o w, S) = Count(sq, S) + Count(w, S)
  BY <1>1, CountCat
<1>3. Len(sq') = Len(sq) + Len(w) /\ Len(sq) \in Nat /\ Len(w) \in Nat
      /\ \A i \in 1..Len(sq') : sq'[i] = IF i <= Len(sq) THEN sq[i] ELSE w[i - Len(sq)]
  BY <1>1, ConcatProperties, LenProperties
<1> QED BY <1>2, <1>3 DEF RecvsInSq, OpsInSq

\* Cancels and closes are counted nowhere.
Quiet(w) == w \in Seq(SqeType) /\ \A i \in 1..Len(w) : w[i].op \notin {"recv", "op", "accept", "blanket"}

\* ... neither as a recv nor as an op.
LEMMA QuietStaged ==
    ASSUME NEW w, Quiet(w), NEW d
    PROVE  Count(w, {Sqe("recv", d)}) = 0 /\ Count(w, {Sqe("op", d)}) = 0
<1>1. \A i \in 1..Len(w) : w[i] \notin {Sqe("recv", d)} /\ w[i] \notin {Sqe("op", d)}
  BY SqeFields DEF Quiet
<1> QED BY <1>1, CountZero DEF Quiet

\* One of them.
LEMMA QuietOne ==
    ASSUME NEW o \in {"cancel", "close"}, NEW c \in Conns \cup {None}, o = "cancel" => c \in Conns
    PROVE  Quiet(<<Sqe(o, c)>>)
<1>1. Sqe(o, c) \in SqeType /\ Sqe(o, c).op = o
  BY DEF Sqe, SqeType
<1> HIDE DEF Sqe
<1>2. <<Sqe(o, c)>> \in Seq(SqeType) /\ \A i \in 1..Len(<<Sqe(o, c)>>) : <<Sqe(o, c)>>[i] = Sqe(o, c)
  BY <1>1
<1> QED BY <1>1, <1>2 DEF Quiet

\* None of them.
LEMMA QuietNone == Quiet(<<>>)
BY DEF Quiet

\* Some, then some more.
LEMMA QuietCat ==
    ASSUME NEW v, NEW w, Quiet(v), Quiet(w)
    PROVE  Quiet(v \o w)
<1>1. v \in Seq(SqeType) /\ w \in Seq(SqeType)
  BY DEF Quiet
<1>2. /\ v \o w \in Seq(SqeType) /\ Len(v \o w) = Len(v) + Len(w) /\ Len(v) \in Nat /\ Len(w) \in Nat
      /\ \A i \in 1..(Len(v) + Len(w)) : (v \o w)[i] = IF i <= Len(v) THEN v[i] ELSE w[i - Len(v)]
  BY <1>1, ConcatProperties, LenProperties
<1>3. ASSUME NEW i \in 1..Len(v \o w) PROVE (v \o w)[i].op \notin {"recv", "op", "accept", "blanket"}
  <2>1. CASE i <= Len(v)
    BY <1>2, <2>1 DEF Quiet
  <2>2. CASE ~ (i <= Len(v))
    <3>1. i - Len(v) \in 1..Len(w)
      BY <1>2, <2>2
    <3> QED BY <1>2, <2>2, <3>1 DEF Quiet
  <2> QED BY <2>1, <2>2
<1> QED BY <1>2, <1>3 DEF Quiet

\* What cancel_recv stages.
LEMMA QuietCancel ==
    ASSUME NEW c \in Conns, NEW x
    PROVE  Quiet(CancelSqe(c, x))
BY QuietOne, QuietNone DEF CancelSqe

\* One more SQE, as a sequence of one.
LEMMA AppendCat ==
    ASSUME TypeOK, NEW e \in SqeType
    PROVE  Append(sq, e) = sq \o <<e>> /\ <<e>> \in Seq(SqeType) /\ sq = sq \o <<>>
BY AppendIsConcat, ConcatEmptySeq DEF TypeOK

-----------------------------------------------------------------------------
(* The accept.                                                             *)

\* Neither an accept nor the blanket cancel.
NoAccept(w) == w \in Seq(SqeType) /\ \A i \in 1..Len(w) : w[i].op \notin {"accept", "blanket"}

\* Cancels and closes are no accepts.
LEMMA QuietNoAccept == \A w : Quiet(w) => NoAccept(w)
BY DEF Quiet, NoAccept

\* Nor are a recv and an op.
LEMMA RecvNoAccept ==
    ASSUME NEW o \in {"recv", "op"}, NEW c \in Conns
    PROVE  Sqe(o, c) \in SqeType /\ NoAccept(<<Sqe(o, c)>>)
<1>1. Sqe(o, c) \in SqeType /\ Sqe(o, c).op = o
  BY DEF Sqe, SqeType
<1> HIDE DEF Sqe
<1>2. <<Sqe(o, c)>> \in Seq(SqeType) /\ \A i \in 1..Len(<<Sqe(o, c)>>) : <<Sqe(o, c)>>[i] = Sqe(o, c)
  BY <1>1
<1> QED BY <1>1, <1>2 DEF NoAccept

\* Something else is staged behind the accept.
LEMMA AcceptStaged ==
    ASSUME TypeOK, AcceptOk, NEW w, NoAccept(w), sq' = sq \o w, kaccept' = kaccept,
           draining' = draining,
           draining \/ /\ listener'.stalled = listener.stalled
                       /\ Count(cq', AcceptLast) = Count(cq, AcceptLast)
    PROVE  AcceptOk'
<1>1. w \in Seq(SqeType) /\ \A i \in 1..Len(w) : w[i].op \notin {"accept", "blanket"}
  BY DEF NoAccept
<1>2. /\ sq' \in Seq(SqeType) /\ Count(sq', Accepts) = Count(sq, Accepts) + Count(w, Accepts)
      /\ Len(sq') = Len(sq) + Len(w) /\ Len(sq) \in Nat /\ Len(w) \in Nat
      /\ \A i \in 1..Len(sq') : sq'[i] = IF i <= Len(sq) THEN sq[i] ELSE w[i - Len(sq)]
  BY <1>1, Staged
<1>3. \A i \in 1..Len(w) : w[i] \notin Accepts
  BY <1>1, SqeFields DEF Accepts
<1>4. Count(w, Accepts) = 0
  BY <1>1, <1>3, CountZero
<1>5. Count(sq, Accepts) \in Nat
  BY CountNat DEF TypeOK
<1>6. ASSUME NEW i \in 1..Len(sq') PROVE (i \in 1..Len(sq) /\ sq'[i] = sq[i])
                                         \/ (sq'[i] \notin Accepts /\ sq'[i].op # "blanket")
  <2>1. CASE i <= Len(sq)
    BY <1>2, <2>1
  <2>2. CASE ~ (i <= Len(sq))
    <3>1. i - Len(sq) \in 1..Len(w)
      BY <1>2, <2>2
    <3> QED BY <1>1, <1>2, <1>3, <2>2, <3>1
  <2> QED BY <2>1, <2>2
<1>7. \A i \in 1..Len(sq) : i \in 1..Len(sq') /\ sq'[i] = sq[i]
  BY <1>2
<1>8. CASE ~ draining
  <2>1. Count(sq', Accepts) + One(kaccept') + Count(cq', AcceptLast) = One(~listener'.stalled)
    BY <1>2, <1>4, <1>5, <1>8 DEF AcceptOk
  <2>2. \A i \in 1..Len(sq') : sq'[i].op # "blanket"
    BY <1>6, <1>8 DEF AcceptOk
  <2> QED BY <1>8, <2>1, <2>2 DEF AcceptOk
<1>9. CASE draining
  <2>1. ASSUME NEW i \in 1..Len(sq'), sq'[i] \in Accepts
        PROVE  \E j \in (i + 1)..Len(sq') : sq'[j] \in Cancels
    <3>1. i \in 1..Len(sq) /\ sq[i] \in Accepts
      BY <1>6, <2>1
    <3>2. PICK j \in (i + 1)..Len(sq) : sq[j] \in Cancels
      BY <1>9, <3>1 DEF AcceptOk
    <3>3. j \in 1..Len(sq) /\ j \in (i + 1)..Len(sq')
      BY <1>2, <3>1
    <3> QED BY <1>7, <3>2, <3>3
  <2>2. ASSUME kaccept' PROVE \E j \in 1..Len(sq') : sq'[j] \in Cancels
    <3>1. PICK j \in 1..Len(sq) : sq[j] \in Cancels
      BY <1>9, <2>2 DEF AcceptOk
    <3> QED BY <1>7, <3>1
  <2> QED BY <1>9, <2>1, <2>2 DEF AcceptOk
<1> QED BY <1>8, <1>9

\* Nothing of it changes.
LEMMA AcceptSame ==
    ASSUME TypeOK, AcceptOk, sq' = sq, kaccept' = kaccept,
           listener'.stalled = listener.stalled, draining' = draining,
           Count(cq', AcceptLast) = Count(cq, AcceptLast)
    PROVE  AcceptOk'
BY DEF AcceptOk

\* The kernel takes another SQE.
LEMMA SqTaken ==
    ASSUME TypeOK, sq # <<>>, sq' = Tail(sq)
    PROVE  /\ Head(sq) \in SqeType /\ sq' \in Seq(SqeType) /\ Head(sq) = sq[1]
           /\ \A S : Count(sq, S) = One(Head(sq) \in S) + Count(sq', S)
           /\ \A d \in Conns : /\ RecvsInSq(d) = One(Head(sq) = Sqe("recv", d)) + RecvsInSq(d)'
                               /\ OpsInSq(d) = One(Head(sq) = Sqe("op", d)) + OpsInSq(d)'
           /\ Len(sq) \in Nat \ {0} /\ Len(sq') = Len(sq) - 1
           /\ \A i \in 1..Len(sq') : sq'[i] = sq[i + 1]
<1>1. sq \in Seq(SqeType)
  BY DEF TypeOK
<1>2. /\ Head(sq) \in SqeType /\ sq' \in Seq(SqeType)
      /\ \A S : Count(sq, S) = One(Head(sq) \in S) + Count(sq', S)
  BY <1>1, CountTail
<1>3. Len(sq) \in Nat \ {0} /\ Len(sq') = Len(sq) - 1 /\ \A i \in 1..Len(sq') : sq'[i] = sq[i + 1]
  BY <1>1, HeadTailProperties, LenProperties, EmptySeq
<1>4. \A d \in Conns : /\ RecvsInSq(d) = One(Head(sq) = Sqe("recv", d)) + RecvsInSq(d)'
                       /\ OpsInSq(d) = One(Head(sq) = Sqe("op", d)) + OpsInSq(d)'
  BY <1>2 DEF RecvsInSq, OpsInSq, One
<1>5. Head(sq) = sq[1]
  BY <1>1
<1> QED BY <1>2, <1>3, <1>4, <1>5

\* The kernel takes something else, or ends the accept of a draining worker.
LEMMA AcceptTaken ==
    ASSUME TypeOK, AcceptOk, sq # <<>>, sq' = Tail(sq), Head(sq).op \notin {"accept", "cancelaccept"},
           listener' = listener, draining' = draining,
           \/ kaccept' = kaccept /\ Count(cq', AcceptLast) = Count(cq, AcceptLast)
           \/ draining /\ ~kaccept'
    PROVE  AcceptOk'
<1>1. /\ Head(sq) \in SqeType /\ sq' \in Seq(SqeType) /\ Head(sq) = sq[1]
      /\ Count(sq, Accepts) = One(Head(sq) \in Accepts) + Count(sq', Accepts)
      /\ Len(sq) \in Nat \ {0} /\ Len(sq') = Len(sq) - 1
      /\ \A i \in 1..Len(sq') : sq'[i] = sq[i + 1]
  BY SqTaken
<1>2. Head(sq) \notin Accepts /\ Head(sq) \notin Cancels
  BY SqeFields DEF Accepts, Cancels
<1>3. \A i \in 1..Len(sq') : i + 1 \in 2..Len(sq) /\ sq'[i] = sq[i + 1]
  BY <1>1
<1>4. \A i \in 2..Len(sq) : i - 1 \in 1..Len(sq') /\ sq'[i - 1] = sq[i]
  <2> TAKE i \in 2..Len(sq)
  <2>1. i - 1 \in 1..Len(sq') /\ (i - 1) + 1 = i
    BY <1>1
  <2> QED BY <1>1, <2>1
<1>5. Count(sq', Accepts) \in Nat
  BY <1>1, CountNat
<1>6. CASE ~ draining
  <2>1. Count(sq', Accepts) + One(kaccept') + Count(cq', AcceptLast) = One(~listener'.stalled)
    BY <1>1, <1>2, <1>5, <1>6 DEF AcceptOk, One
  <2>2. \A i \in 1..Len(sq') : sq'[i].op # "blanket"
    BY <1>1, <1>3, <1>6 DEF AcceptOk
  <2> QED BY <1>6, <2>1, <2>2 DEF AcceptOk
<1>7. CASE draining
  <2>1. ASSUME NEW i \in 1..Len(sq'), sq'[i] \in Accepts
        PROVE  \E j \in (i + 1)..Len(sq') : sq'[j] \in Cancels
    <3>1. i + 1 \in 1..Len(sq) /\ sq[i + 1] \in Accepts
      BY <1>1, <2>1
    <3>2. PICK j \in ((i + 1) + 1)..Len(sq) : sq[j] \in Cancels
      BY <1>7, <3>1 DEF AcceptOk
    <3>3. j \in 2..Len(sq) /\ j - 1 \in (i + 1)..Len(sq')
      BY <1>1
    <3> QED BY <1>4, <3>2, <3>3
  <2>2. ASSUME kaccept' PROVE \E j \in 1..Len(sq') : sq'[j] \in Cancels
    <3>1. PICK j \in 1..Len(sq) : sq[j] \in Cancels
      BY <1>7, <2>2 DEF AcceptOk
    <3>2. j \in 2..Len(sq)
      BY <1>1, <1>2, <3>1
    <3> QED BY <1>4, <3>1, <3>2
  <2> QED BY <1>7, <2>1, <2>2 DEF AcceptOk
<1> QED BY <1>6, <1>7

-----------------------------------------------------------------------------
(* The CQ.                                                                 *)

\* The next CQE is dispatched.
LEMMA CqTaken ==
    ASSUME TypeOK, batch > 0, cq' = Tail(cq), batch' = batch - 1
    PROVE  /\ cq # <<>> /\ Head(cq) \in CqeType /\ Head(cq) = cq[1]
           /\ cq' \in Seq(CqeType) /\ batch' \in Nat /\ batch' <= Len(cq')
           /\ \A S : Count(cq, S) = One(Head(cq) \in S) + Count(cq', S)
           /\ Len(cq) \in Nat \ {0} /\ Len(cq') = Len(cq) - 1
           /\ \A i \in 1..Len(cq') : cq'[i] = cq[i + 1]
<1>1. cq \in Seq(CqeType) /\ Len(cq) \in Nat \ {0} /\ batch \in Nat /\ batch <= Len(cq)
  BY LenProperties DEF TypeOK
<1>2. cq # <<>>
  BY <1>1, EmptySeq
<1>3. /\ Head(cq) \in CqeType /\ cq' \in Seq(CqeType)
      /\ \A S : Count(cq, S) = One(Head(cq) \in S) + Count(cq', S)
  BY <1>1, <1>2, CountTail
<1>4. Len(cq') = Len(cq) - 1 /\ \A i \in 1..Len(cq') : cq'[i] = cq[i + 1]
  BY <1>1, <1>2, HeadTailProperties
<1>5. Head(cq) = cq[1]
  BY <1>1, <1>2
<1> QED BY <1>1, <1>2, <1>3, <1>4, <1>5

\* A dispatched CQE was the first: what it is followed by is still there.
LEMMA EndTaken ==
    ASSUME TypeOK, EndFollows, batch > 0, cq' = Tail(cq), batch' = batch - 1, krecv' = krecv
    PROVE  EndFollows'
<1>1. /\ Len(cq) \in Nat \ {0} /\ Len(cq') = Len(cq) - 1
      /\ \A i \in 1..Len(cq') : cq'[i] = cq[i + 1]
  BY CqTaken
<1> SUFFICES ASSUME NEW i \in 1..Len(cq'), cq'[i].t = "recv", cq'[i].c \notin krecv
             PROVE  \E j \in i..Len(cq') : cq'[j] \in RecvEnds(cq'[i].c)
  BY DEF EndFollows, RecvEnds
<1>2. i + 1 \in 1..Len(cq) /\ cq'[i] = cq[i + 1]
  BY <1>1
<1>3. PICK j \in (i + 1)..Len(cq) : cq[j] \in RecvEnds(cq'[i].c)
  BY <1>2 DEF EndFollows
<1>4. j - 1 \in i..Len(cq') /\ j - 1 \in 1..Len(cq') /\ (j - 1) + 1 = j
  BY <1>1
<1>5. cq'[j - 1] = cq[j]
  BY <1>1, <1>4
<1> QED BY <1>3, <1>4, <1>5

\* A CQE of a recv belongs to one that is under way.
LEMMA HeadArmed ==
    ASSUME TypeOK, EndFollows, batch > 0, NEW c \in Conns, ConnOk(c),
           Head(cq).t = "recv", Head(cq).c = c
    PROVE  conn[c].recv = "armed"
<1>1. cq \in Seq(CqeType) /\ Len(cq) \in Nat \ {0} /\ batch \in Nat /\ batch <= Len(cq)
  BY LenProperties DEF TypeOK
<1>2. cq # <<>> /\ Head(cq) = cq[1]
  BY <1>1, EmptySeq
<1>3. 1 \in 1..Len(cq)
  BY <1>1
<1>4. c \in krecv \/ EndsInCq(c) >= 1
  <2>1. CASE c \in krecv
    BY <2>1
  <2>2. CASE c \notin krecv
    <3>1. PICK j \in 1..Len(cq) : cq[j] \in RecvEnds(c)
      BY <1>2, <1>3, <2>2 DEF EndFollows
    <3> QED BY <1>1, <3>1, CountPos DEF EndsInCq
  <2> QED BY <2>1, <2>2
<1>5. RecvsInSq(c) \in Nat /\ EndsInCq(c) \in Nat
  BY Nats
<1> QED BY <1>4, <1>5 DEF ConnOk, RecvOk, One, Frame

\* The kernel posts v.
LEMMA Posted ==
    ASSUME TypeOK, NEW v \in Seq(CqeType), cq' = cq \o v, batch' = batch
    PROVE  /\ cq' \in Seq(CqeType) /\ batch' \in Nat /\ batch' <= Len(cq')
           /\ \A S : Count(cq', S) = Count(cq, S) + Count(v, S)
           /\ Len(cq') = Len(cq) + Len(v) /\ Len(cq) \in Nat /\ Len(v) \in Nat
           /\ \A i \in 1..Len(cq') : cq'[i] = IF i <= Len(cq) THEN cq[i] ELSE v[i - Len(cq)]
<1>1. cq \in Seq(CqeType) /\ batch \in Nat /\ batch <= Len(cq)
  BY DEF TypeOK
<1>2. \A S : cq \o v \in Seq(CqeType) /\ Count(cq \o v, S) = Count(cq, S) + Count(v, S)
  BY <1>1, CountCat
<1>3. Len(cq') = Len(cq) + Len(v) /\ Len(cq) \in Nat /\ Len(v) \in Nat
      /\ \A i \in 1..Len(cq') : cq'[i] = IF i <= Len(cq) THEN cq[i] ELSE v[i - Len(cq)]
  BY <1>1, ConcatProperties, LenProperties
<1> QED BY <1>1, <1>2, <1>3

\* A recv that leaves the kernel posts its end behind everything it posted.
LEMMA EndPosted ==
    ASSUME TypeOK, EndFollows, NEW v \in Seq(CqeType), cq' = cq \o v, batch' = batch,
           \A c \in krecv : c \in krecv' \/ \E j \in 1..Len(v) : v[j] \in RecvEnds(c),
           \A i \in 1..Len(v) : v[i].t = "recv" => v[i].c \in krecv' \/ v[i] \in RecvEnds(v[i].c)
    PROVE  EndFollows'
<1>1. /\ Len(cq') = Len(cq) + Len(v) /\ Len(cq) \in Nat /\ Len(v) \in Nat
      /\ \A i \in 1..Len(cq') : cq'[i] = IF i <= Len(cq) THEN cq[i] ELSE v[i - Len(cq)]
  BY Posted
<1> SUFFICES ASSUME NEW i \in 1..Len(cq'), cq'[i].t = "recv", cq'[i].c \notin krecv'
             PROVE  \E j \in i..Len(cq') : cq'[j] \in RecvEnds(cq'[i].c)
  BY DEF EndFollows, RecvEnds
<1>2. \A j \in 1..Len(v) : Len(cq) + j \in 1..Len(cq') /\ cq'[Len(cq) + j] = v[j]
  <2> TAKE j \in 1..Len(v)
  <2>1. Len(cq) + j \in 1..Len(cq') /\ ~ (Len(cq) + j <= Len(cq)) /\ (Len(cq) + j) - Len(cq) = j
    BY <1>1
  <2> QED BY <1>1, <2>1
<1>3. CASE i <= Len(cq)
  <2>1. i \in 1..Len(cq) /\ cq'[i] = cq[i]
    BY <1>1, <1>3
  <2>2. CASE cq[i].c \in krecv
    <3>1. PICK j \in 1..Len(v) : v[j] \in RecvEnds(cq[i].c)
      BY <2>1, <2>2
    <3>2. Len(cq) + j \in i..Len(cq')
      BY <1>1, <1>3
    <3> QED BY <1>2, <2>1, <3>1, <3>2
  <2>3. CASE cq[i].c \notin krecv
    <3>1. PICK j \in i..Len(cq) : cq[j] \in RecvEnds(cq[i].c)
      BY <2>1, <2>3 DEF EndFollows
    <3>2. j \in i..Len(cq') /\ cq'[j] = cq[j]
      BY <1>1, <3>1, <2>1
    <3> QED BY <2>1, <3>1, <3>2
  <2> QED BY <2>2, <2>3
<1>4. CASE ~ (i <= Len(cq))
  <2>1. i - Len(cq) \in 1..Len(v) /\ cq'[i] = v[i - Len(cq)]
    BY <1>1, <1>4
  <2>2. cq'[i] \in RecvEnds(cq'[i].c)
    BY <2>1
  <2>3. i \in i..Len(cq')
    BY <1>1
  <2> QED BY <2>2, <2>3
<1> QED BY <1>3, <1>4

\* One more CQE, as a sequence of one.
LEMMA PostCat ==
    ASSUME TypeOK, NEW e \in CqeType
    PROVE  Append(cq, e) = cq \o <<e>> /\ <<e>> \in Seq(CqeType) /\ Len(<<e>>) = 1 /\ <<e>>[1] = e
           /\ \A S : Count(<<e>>, S) = One(e \in S)
BY AppendIsConcat, CountOne DEF TypeOK

-----------------------------------------------------------------------------
(* Coroutines.                                                             *)

\* c's own part of the invariant, when c's coroutine or on_recv's rest for c stages w.
LEMMA OwnOk ==
    ASSUME TypeOK, NEW c \in Conns, ConnOk(c), NEW x, conn'[c] = x,
           NEW w \in Seq(SqeType), sq' = sq \o w, UNCHANGED <<frame, ready, cq, krecv, kop>>,
           \/ Count(w, {Sqe("recv", c)}) = 0 /\ (x.recv = "armed" <=> conn[c].recv = "armed")
           \/ Count(w, {Sqe("recv", c)}) = 1 /\ x.recv = "armed" /\ conn[c].recv # "armed",
           \/ Count(w, {Sqe("op", c)}) = 0 /\ (x.co = "parked" <=> conn[c].co = "parked")
           \/ Count(w, {Sqe("op", c)}) = 1 /\ x.co = "parked" /\ conn[c].co # "parked",
           x.co = "ready" <=> conn[c].co = "ready",
           Count(starved', {c}) = One(x.recv = "starved"),
           x.refs = One(x.co # "none") + One(x.recv # "done") + One(Frame(c, "unref")),
           x.co = "none" => /\ x.rx = <<>> /\ x.held = {}
                            /\ x.recv # "done" => x.closed
    PROVE  ConnOk(c)'
<1>1. RecvsInSq(c) \in Nat /\ OpsInSq(c) \in Nat
  BY Nats
<1>2. /\ RecvsInSq(c)' = RecvsInSq(c) + Count(w, {Sqe("recv", c)})
      /\ OpsInSq(c)' = OpsInSq(c) + Count(w, {Sqe("op", c)})
  BY Staged
<1>3. /\ EndsInCq(c)' = EndsInCq(c) /\ DonesInCq(c)' = DonesInCq(c)
      /\ Frame(c, "last")' <=> Frame(c, "last")
      /\ Frame(c, "unref")' <=> Frame(c, "unref")
  BY DEF EndsInCq, DonesInCq, Frame
<1>4. RecvOk(c) /\ OpOk(c) /\ ListOk(c)
  BY DEF ConnOk
<1>5. RecvOk(c)'
  BY <1>1, <1>2, <1>3, <1>4 DEF RecvOk
<1>6. OpOk(c)'
  BY <1>1, <1>2, <1>3, <1>4 DEF OpOk
<1>7. ListOk(c)'
  BY <1>4 DEF ListOk, One
<1>8. RefsOk(c)'
  BY <1>3 DEF RefsOk, One
<1>9. GoneOk(c)'
  BY DEF GoneOk
<1> QED BY <1>5, <1>6, <1>7, <1>8, <1>9 DEF ConnOk

\* The rest of the invariant.
LEMMA CoStep ==
    ASSUME Inv, NEW c \in Conns, NEW x \in ConnType, Put(c, x), x.refs > 0 => conn[c].refs > 0,
           NEW w, NoAccept(w), sq' = sq \o w,
           \A d \in Conns : d # c => Count(w, {Sqe("recv", d)}) = 0 /\ Count(w, {Sqe("op", d)}) = 0,
           starved' \in Seq(Conns),
           \A d \in Conns : d # c => Count(starved', {d}) = Count(starved, {d}),
           UNCHANGED <<frame, ready, cq, batch, krecv, kop, kaccept, listener, draining, cfg>>,
           returned' \in Nat, staged' \subseteq Buffers, kfree' \subseteq Buffers,
           ConnOk(c)', \A b \in cfg.buffers : BufferOk(b)'
    PROVE  Inv'
<1>1. TypeOK /\ LiveOk /\ EndFollows /\ AcceptOk /\ w \in Seq(SqeType) /\ \A d \in Conns : ConnOk(d)
  BY DEF Inv, NoAccept
<1>2. /\ conn' \in [Conns -> ConnType] /\ live' \in Nat /\ LiveOk'
      /\ \A d \in Conns : d # c => conn'[d] = conn[d]
  BY <1>1, PutOk
<1>3. /\ sq' \in Seq(SqeType)
      /\ \A d \in Conns : /\ RecvsInSq(d)' = RecvsInSq(d) + Count(w, {Sqe("recv", d)})
                          /\ OpsInSq(d)' = OpsInSq(d) + Count(w, {Sqe("op", d)})
  BY <1>1, Staged
<1>4. TypeOK'
  BY <1>1, <1>2, <1>3 DEF TypeOK
<1>5. ASSUME NEW d \in Conns PROVE ConnOk(d)'
  <2>1. CASE d = c
    BY <2>1
  <2>2. CASE d # c
    <3>1. RecvsInSq(d) \in Nat /\ OpsInSq(d) \in Nat
      BY <1>1, Nats
    <3>2. RecvsInSq(d)' = RecvsInSq(d) /\ OpsInSq(d)' = OpsInSq(d)
      <4>1. Count(w, {Sqe("recv", d)}) = 0 /\ Count(w, {Sqe("op", d)}) = 0
        BY <2>2
      <4>2. /\ RecvsInSq(d)' = RecvsInSq(d) + Count(w, {Sqe("recv", d)})
            /\ OpsInSq(d)' = OpsInSq(d) + Count(w, {Sqe("op", d)})
        BY <1>3
      <4> QED BY <3>1, <4>1, <4>2
    <3>3. Same(d)
      BY <1>2, <2>2, <3>2 DEF Same, EndsInCq, DonesInCq, Frame
    <3> QED BY <1>1, <3>3, SameOk
  <2> QED BY <2>1, <2>2
<1>6. EndFollows'
  BY <1>1 DEF EndFollows, RecvEnds
<1>7. AcceptOk'
  BY <1>1, AcceptStaged
<1> QED BY <1>2, <1>4, <1>5, <1>6, <1>7 DEF Inv

\* A buffer is with one connection at most, and then not with the rings.
LEMMA WithBound ==
    ASSUME TypeOK, NEW b, BufferOk(b), NEW c \in Conns
    PROVE  /\ With(b, c) \in {0, 1} /\ InRings(b) \in {0, 1}
           /\ With(b, c) = 1 => InRings(b) = 0
           /\ \A d \in Conns : d # c /\ With(b, c) = 1 => With(b, d) = 0
BY DEF BufferOk

\* Nobody's buffers change.
LEMMA BufSame ==
    ASSUME Inv, NEW c \in Conns, NEW x, conn'[c] = x,
           x.rx = conn[c].rx, x.held = conn[c].held,
           \A d \in Conns : d # c => conn'[d] = conn[d],
           UNCHANGED <<kfree, staged, cfg>>,
           \A b \in Buffers : Count(cq', Bearing(b)) = Count(cq, Bearing(b))
    PROVE  \A b \in cfg.buffers : BufferOk(b)'
<1> SUFFICES ASSUME NEW b \in cfg.buffers PROVE BufferOk(b)'
  OBVIOUS
<1>0. b \in Buffers
  BY WorkerAssumption DEF Inv, TypeOK, Setup
<1>1. InRings(b)' = InRings(b)
  BY <1>0 DEF InRings, Bearing
<1>2. \A d \in Conns : With(b, d)' = With(b, d)
  BY DEF With
<1> QED BY <1>1, <1>2, BufRings DEF Inv

\* The fields of a connection have their types.
LEMMA ConnFields ==
    ASSUME Inv, NEW c \in Conns
    PROVE  /\ TypeOK /\ LiveOk /\ ConnOk(c) /\ conn[c] \in ConnType
           /\ conn[c].refs = One(conn[c].co # "none") + One(conn[c].recv # "done") + One(Frame(c, "unref"))
           /\ Count(starved, {c}) = One(conn[c].recv = "starved")
           /\ starved \in Seq(Conns) /\ sq = sq \o <<>>
           /\ Runs(c) => conn[c].co \in {"run", "run_recv", "run_pause"} /\ conn[c].refs > 0
<1>1. TypeOK /\ LiveOk /\ ConnOk(c) /\ conn[c] \in ConnType /\ starved \in Seq(Conns)
  BY DEF Inv, TypeOK
<1>2. sq = sq \o <<>>
  BY <1>1, ConcatEmptySeq DEF TypeOK
<1>3. /\ conn[c].refs = One(conn[c].co # "none") + One(conn[c].recv # "done") + One(Frame(c, "unref"))
      /\ Count(starved, {c}) = One(conn[c].recv = "starved")
  BY <1>1 DEF ConnOk, RefsOk, ListOk
<1>5. Runs(c) => conn[c].co \in {"run", "run_recv", "run_pause"} /\ conn[c].refs > 0
  BY <1>3 DEF Runs, One
<1> QED BY <1>1, <1>2, <1>3, <1>5

\* A step that stages nothing.
LEMMA CountNone == \A S : Count(<<>>, S) = 0 /\ NoAccept(<<>>) /\ <<>> \in Seq(SqeType)
BY CountEmpty, QuietNone, QuietNoAccept DEF Quiet

\* A step of c's coroutine, or of on_recv's rest, that stages nothing but cancels and closes.
LEMMA QuietStep ==
    ASSUME Inv, NEW c \in Conns, NEW x \in ConnType, Put(c, x), conn[c].refs > 0,
           NEW w, Quiet(w), sq' = sq \o w,
           UNCHANGED <<frame, ready, cq, batch, krecv, kop, kaccept, listener, draining, cfg>>,
           x.recv = "armed" <=> conn[c].recv = "armed",
           x.co = "parked" <=> conn[c].co = "parked",
           x.co = "ready" <=> conn[c].co = "ready",
           starved' \in Seq(Conns), Count(starved', {c}) = One(x.recv = "starved"),
           \A d \in Conns : d # c => Count(starved', {d}) = Count(starved, {d}),
           x.refs = One(x.co # "none") + One(x.recv # "done") + One(Frame(c, "unref")),
           x.co = "none" => /\ x.rx = <<>> /\ x.held = {}
                            /\ x.recv # "done" => x.closed,
           returned' \in Nat, staged' \subseteq Buffers, kfree' \subseteq Buffers,
           \A b \in cfg.buffers : BufferOk(b)'
    PROVE  Inv'
<1>1. TypeOK /\ LiveOk /\ ConnOk(c) /\ w \in Seq(SqeType) /\ NoAccept(w)
  BY QuietNoAccept DEF Inv, Quiet
<1>2. \A d \in Conns : Count(w, {Sqe("recv", d)}) = 0 /\ Count(w, {Sqe("op", d)}) = 0
  BY QuietStaged
<1>3. conn'[c] = x
  BY <1>1, PutOk
<1>4. ConnOk(c)'
  BY <1>1, <1>2, <1>3, OwnOk
<1> QED BY <1>1, <1>2, <1>4, CoStep

\* ioxd__conn_recv_item: a buffer moves from the queue to the reader, or the coroutine waits.
LEMMA RecvItemInv ==
    ASSUME Inv, NEW c \in Conns, RecvItem(c), cfg' = cfg
    PROVE  Inv'
<1> DEFINE y == conn[c]
           w == <<>>
<1>1. /\ TypeOK /\ LiveOk /\ ConnOk(c) /\ y \in ConnType
      /\ y.refs = One(y.co # "none") + One(y.recv # "done") + One(Frame(c, "unref"))
      /\ Count(starved, {c}) = One(y.recv = "starved") /\ starved \in Seq(Conns)
      /\ y.co \in {"run", "run_recv", "run_pause"} /\ y.refs > 0
      /\ sq = sq \o w /\ Quiet(w)
  BY ConnFields, QuietNone DEF RecvItem
<1>2. /\ UNCHANGED <<frame, ready, starved, cq, batch, krecv, kop, kaccept, listener, draining, cfg>>
      /\ UNCHANGED <<sq, returned, staged, kfree>>
  BY DEF RecvItem, loopVars, bufVars, kVars
<1>3. returned' \in Nat /\ staged' \subseteq Buffers /\ kfree' \subseteq Buffers
  BY <1>1, <1>2 DEF TypeOK
<1> HIDE DEF w
<1>4. CASE y.rx # <<>> /\ Put(c, [y EXCEPT !.rx = Tail(@), !.co = "run", !.held = @ \cup {Head(y.rx)}])
  <2> DEFINE x == [y EXCEPT !.rx = Tail(@), !.co = "run", !.held = @ \cup {Head(y.rx)}]
  <2>1. y.rx \in Seq(Buffers)
    BY <1>1 DEF ConnType
  <2>2. /\ Head(y.rx) \in Buffers /\ Tail(y.rx) \in Seq(Buffers)
        /\ \A S : Count(y.rx, S) = One(Head(y.rx) \in S) + Count(Tail(y.rx), S)
    BY <1>4, <2>1, CountTail
  <2>3. /\ x \in ConnType /\ x.recv = y.recv /\ x.refs = y.refs /\ x.co = "run"
        /\ x.rx = Tail(y.rx) /\ x.held = y.held \cup {Head(y.rx)}
    BY <1>1, <2>2 DEF ConnType
  <2>4. Put(c, x)
    BY <1>4
  <2> HIDE DEF x
  <2>5. conn'[c] = x /\ \A d \in Conns : d # c => conn'[d] = conn[d]
    BY <1>1, <2>3, <2>4, PutOk
  <2>6. ASSUME NEW b \in cfg.buffers PROVE BufferOk(b)'
    <3>1. InRings(b)' = InRings(b)
      BY <1>2 DEF InRings
    <3>2. \A d \in Conns : d # c => With(b, d)' = With(b, d)
      BY <2>5 DEF With
    <3>3. BufferOk(b)
      BY DEF Inv
    <3>4. With(b, c) \in {0, 1} /\ Count(Tail(y.rx), {b}) \in Nat
      BY <1>1, <2>2, <3>3, WithBound, CountNat
    <3>5. With(b, c)' = With(b, c)
      <4>1. With(b, c) = One(Head(y.rx) \in {b}) + Count(Tail(y.rx), {b}) + One(b \in y.held)
        BY <2>2 DEF With
      <4>2. With(b, c)' = Count(Tail(y.rx), {b}) + One(b \in y.held \cup {Head(y.rx)})
        BY <2>3, <2>5 DEF With
      <4>3. CASE Head(y.rx) = b
        BY <3>4, <4>1, <4>2, <4>3 DEF One
      <4>4. CASE Head(y.rx) # b
        BY <3>4, <4>1, <4>2, <4>4 DEF One
      <4> QED BY <4>3, <4>4
    <3> QED BY <3>1, <3>2, <3>3, <3>5, BufRings
  <2> QED BY <1>1, <1>2, <1>3, <2>3, <2>4, <2>6, QuietStep
<1>5. CASE Put(c, [y EXCEPT !.co = IF y.eof THEN "run" ELSE "recv"])
  <2> DEFINE x == [y EXCEPT !.co = IF y.eof THEN "run" ELSE "recv"]
  <2>3. /\ x \in ConnType /\ x.recv = y.recv /\ x.refs = y.refs /\ x.co \in {"run", "recv"}
        /\ x.rx = y.rx /\ x.held = y.held
    BY <1>1 DEF ConnType
  <2>4. Put(c, x)
    BY <1>5
  <2> HIDE DEF x
  <2>5. conn'[c] = x /\ \A d \in Conns : d # c => conn'[d] = conn[d]
    BY <1>1, <2>3, <2>4, PutOk
  <2>6. \A b \in cfg.buffers : BufferOk(b)'
    BY <1>2, <2>3, <2>5, BufSame
  <2> QED BY <1>1, <1>2, <1>3, <2>3, <2>4, <2>6, QuietStep
<1> QED BY <1>4, <1>5 DEF RecvItem

\* ioxd__bufring_return
LEMMA Returned ==
    ASSUME TypeOK, NEW bs \in SUBSET Buffers, Return(bs)
    PROVE  /\ staged' = staged \cup bs /\ kfree' = kfree /\ returned' \in Nat
           /\ staged' \subseteq Buffers /\ kfree' \subseteq Buffers
<1>1. staged' = staged \cup bs /\ kfree' = kfree /\ staged \subseteq Buffers /\ kfree \subseteq Buffers
  BY DEF Return, TypeOK
<1>2. IsFiniteSet(bs) /\ IsFiniteSet(cfg.conns)
  <2>1. cfg.conns \in SUBSET Conns
    BY WorkerAssumption DEF TypeOK, Setup
  <2> QED BY <2>1, WorkerAssumption, FS_Subset
<1>3. Cardinality(bs) \in Nat /\ Cardinality(cfg.conns) \in Nat
  BY <1>2, FS_CardinalityType
<1>4. returned' \in Nat
  BY <1>3 DEF Return, TypeOK
<1> QED BY <1>1, <1>4

\* c gives bs back.
LEMMA BufReturn ==
    ASSUME Inv, NEW c \in Conns, NEW bs, staged' = staged \cup bs, UNCHANGED <<kfree, cq, cfg>>,
           \A d \in Conns : d # c => conn'[d] = conn[d],
           \A b \in cfg.buffers : /\ b \in bs => With(b, c) # 0 /\ With(b, c)' = 0
                                  /\ b \notin bs => With(b, c)' = With(b, c)
    PROVE  \A b \in cfg.buffers : BufferOk(b)'
<1> SUFFICES ASSUME NEW b \in cfg.buffers PROVE BufferOk(b)'
  OBVIOUS
<1>1. TypeOK /\ BufferOk(b)
  BY DEF Inv
<1>2. \A d \in Conns : d # c => With(b, d)' = With(b, d)
  BY DEF With
<1>3. CASE b \in bs
  <2>1. With(b, c) = 1 /\ InRings(b) = 0 /\ With(b, c)' = 0
    BY <1>1, <1>3, WithBound
  <2>2. Count(cq, Bearing(b)) \in Nat
    BY <1>1, BufNats
  <2>3. b \notin kfree /\ b \notin staged /\ Count(cq, Bearing(b)) = 0
    BY <2>1, <2>2 DEF InRings, One
  <2>4. InRings(b)' = 1
    BY <1>3, <2>3 DEF InRings, One
  <2> QED BY <1>1, <1>2, <2>1, <2>4, BufMove
<1>4. CASE b \notin bs
  <2>1. InRings(b)' = InRings(b)
    BY <1>4 DEF InRings, One
  <2>2. \A d \in Conns : With(b, d)' = With(b, d)
    BY <1>2, <1>4
  <2> QED BY <1>1, <2>1, <2>2, BufRings
<1> QED BY <1>3, <1>4

\* What a running coroutine starts from.
LEMMA Running ==
    ASSUME Inv, NEW c \in Conns, Runs(c)
    PROVE  /\ TypeOK /\ LiveOk /\ ConnOk(c) /\ conn[c] \in ConnType
           /\ conn[c].refs = One(conn[c].co # "none") + One(conn[c].recv # "done") + One(Frame(c, "unref"))
           /\ Count(starved, {c}) = One(conn[c].recv = "starved") /\ starved \in Seq(Conns)
           /\ conn[c].co \in {"run", "run_recv", "run_pause"} /\ conn[c].refs > 0
           /\ sq = sq \o <<>> /\ Quiet(<<>>)
           /\ returned \in Nat /\ staged \subseteq Buffers /\ kfree \subseteq Buffers
BY ConnFields, QuietNone DEF TypeOK

\* A buffer the reader is done with moves to the unpublished tail of the ring.
LEMMA GiveBackInv ==
    ASSUME Inv, NEW c \in Conns, GiveBack(c), cfg' = cfg
    PROVE  Inv'
<1> DEFINE y == conn[c]
           w == <<>>
<1>1. /\ TypeOK /\ LiveOk /\ ConnOk(c) /\ y \in ConnType
      /\ y.refs = One(y.co # "none") + One(y.recv # "done") + One(Frame(c, "unref"))
      /\ Count(starved, {c}) = One(y.recv = "starved") /\ starved \in Seq(Conns)
      /\ y.co = "run" /\ y.refs > 0
      /\ sq = sq \o w /\ Quiet(w)
  BY Running DEF GiveBack
<1>2. /\ UNCHANGED <<frame, ready, starved, cq, batch, krecv, kop, kaccept, listener, draining, cfg>>
      /\ UNCHANGED sq
  BY DEF GiveBack, loopVars, kVars
<1>3. PICK b \in y.held : Put(c, [y EXCEPT !.held = @ \ {b}]) /\ Return({b})
  BY DEF GiveBack
<1> DEFINE x == [y EXCEPT !.held = @ \ {b}]
<1>4. /\ x \in ConnType /\ x.recv = y.recv /\ x.refs = y.refs /\ x.co = "run"
      /\ x.rx = y.rx /\ x.held = y.held \ {b} /\ b \in Buffers
  BY <1>1 DEF ConnType
<1>5. Put(c, x) /\ {b} \in SUBSET Buffers
  BY <1>3, <1>4
<1> HIDE DEF x, w
<1>6. /\ staged' = staged \cup {b} /\ kfree' = kfree /\ returned' \in Nat
      /\ staged' \subseteq Buffers /\ kfree' \subseteq Buffers
  BY <1>1, <1>3, <1>5, Returned
<1>7. conn'[c] = x /\ \A d \in Conns : d # c => conn'[d] = conn[d]
  BY <1>1, <1>4, <1>5, PutOk
<1>8. ASSUME NEW e \in cfg.buffers
      PROVE  /\ e \in {b} => With(e, c) # 0 /\ With(e, c)' = 0
             /\ e \notin {b} => With(e, c)' = With(e, c)
  <2>1. With(e, c) = Count(y.rx, {e}) + One(e \in y.held)
    BY DEF With
  <2>2. With(e, c)' = Count(y.rx, {e}) + One(e \in y.held \ {b})
    BY <1>4, <1>7 DEF With
  <2>3. Count(y.rx, {e}) \in Nat /\ With(e, c) \in {0, 1}
    BY <1>1, BufNats, WithBound DEF Inv
  <2>4. CASE e = b
    BY <1>3, <2>1, <2>2, <2>3, <2>4 DEF One
  <2>5. CASE e # b
    BY <2>1, <2>2, <2>5 DEF One
  <2> QED BY <2>4, <2>5
<1>9. \A e \in cfg.buffers : BufferOk(e)'
  BY <1>2, <1>6, <1>7, <1>8, BufReturn
<1> QED BY <1>1, <1>2, <1>4, <1>5, <1>6, <1>9, QuietStep, ZenonT(40)

\* ioxd__io_await: the coroutine is parked for the op it stages.
LEMMA AwaitInv ==
    ASSUME Inv, NEW c \in Conns, Await(c), cfg' = cfg
    PROVE  Inv'
<1> DEFINE y == conn[c]
           x == [y EXCEPT !.co = "parked"]
           w == <<Sqe("op", c)>>
<1>1. /\ TypeOK /\ LiveOk /\ ConnOk(c) /\ y \in ConnType
      /\ y.refs = One(y.co # "none") + One(y.recv # "done") + One(Frame(c, "unref"))
      /\ Count(starved, {c}) = One(y.recv = "starved") /\ starved \in Seq(Conns)
      /\ y.co = "run" /\ y.refs > 0
      /\ returned \in Nat /\ staged \subseteq Buffers /\ kfree \subseteq Buffers
  BY Running DEF Await
<1>2. /\ UNCHANGED <<frame, ready, starved, cq, batch, krecv, kop, kaccept, listener, draining, cfg>>
      /\ UNCHANGED <<returned, staged, kfree>>
  BY DEF Await, loopVars, bufVars, kVars
<1>3. /\ x \in ConnType /\ x.recv = y.recv /\ x.refs = y.refs /\ x.co = "parked"
      /\ x.rx = y.rx /\ x.held = y.held
  BY <1>1 DEF ConnType
<1>4. Put(c, x)
  BY DEF Await
<1>5. NoAccept(w) /\ w \in Seq(SqeType) /\ sq' = sq \o w
  BY <1>1, RecvNoAccept, AppendCat DEF Await
<1>6. \A d \in Conns : /\ Count(w, {Sqe("recv", d)}) = 0
                       /\ Count(w, {Sqe("op", d)}) = One(d = c)
  BY RecvNoAccept, CountOne, SqeFields DEF One
<1> HIDE DEF x, w
<1>7. conn'[c] = x /\ \A d \in Conns : d # c => conn'[d] = conn[d]
  BY <1>1, <1>3, <1>4, PutOk
<1>8. ConnOk(c)'
  <2>1. Count(w, {Sqe("recv", c)}) = 0 /\ Count(w, {Sqe("op", c)}) = 1
    BY <1>6 DEF One
  <2> QED BY <1>1, <1>2, <1>3, <1>5, <1>7, <2>1, OwnOk
<1>9. \A b \in cfg.buffers : BufferOk(b)'
  BY <1>2, <1>3, <1>7, BufSame
<1>10. \A d \in Conns : d # c => Count(w, {Sqe("recv", d)}) = 0 /\ Count(w, {Sqe("op", d)}) = 0
  BY <1>6 DEF One
<1> QED BY <1>1, <1>2, <1>3, <1>4, <1>5, <1>8, <1>9, <1>10, CoStep

\* starved_remove
LEMMA Unlisted ==
    ASSUME Inv, NEW c \in Conns, Unlist(c)
    PROVE  /\ starved' \in Seq(Conns) /\ Count(starved', {c}) = 0
           /\ \A d \in Conns : d # c => Count(starved', {d}) = Count(starved, {d})
<1>1. starved \in Seq(Conns) /\ Count(starved, {c}) = One(conn[c].recv = "starved")
  BY ConnFields
<1>2. CASE conn[c].recv # "starved"
  BY <1>1, <1>2 DEF Unlist, One
<1>3. CASE conn[c].recv = "starved"
  <2> DEFINE p == CHOOSE i \in DOMAIN starved : starved[i] = c
  <2>1. Count(starved, {c}) = 1
    BY <1>1, <1>3 DEF One
  <2>2. \E i \in 1..Len(starved) : starved[i] \in {c}
    BY <1>1, <2>1, CountZero
  <2>3. DOMAIN starved = 1..Len(starved)
    BY <1>1, LenProperties
  <2>4. p \in 1..Len(starved) /\ starved[p] = c
    BY <2>2, <2>3
  <2>5. starved' = RemoveAt(starved, p)
    BY <1>3 DEF Unlist
  <2> HIDE DEF p
  <2>6. /\ starved' \in Seq(Conns)
        /\ \A S : Count(starved, S) = One(starved[p] \in S) + Count(starved', S)
    BY <1>1, <2>4, <2>5, CountRemoveAt
  <2>7. \A d \in Conns : Count(starved', {d}) \in Nat
    BY <2>6, CountNat
  <2>8. Count(starved', {c}) = 0
    BY <2>1, <2>4, <2>6, <2>7 DEF One
  <2>9. ASSUME NEW d \in Conns, d # c PROVE Count(starved', {d}) = Count(starved, {d})
    <3>1. Count(starved, {d}) = 0 + Count(starved', {d})
      BY <2>4, <2>6, <2>9 DEF One
    <3> QED BY <2>7, <3>1
  <2> QED BY <2>6, <2>8, <2>9
<1> QED BY <1>2, <1>3

\* ioxd__conn_recv_pause: a starved connection leaves the list, an armed one waits.
LEMMA PauseInv ==
    ASSUME Inv, NEW c \in Conns, Pause(c), cfg' = cfg
    PROVE  Inv'
<1> DEFINE y == conn[c]
           v == <<>>
<1>1. /\ TypeOK /\ LiveOk /\ ConnOk(c) /\ y \in ConnType
      /\ y.refs = One(y.co # "none") + One(y.recv # "done") + One(Frame(c, "unref"))
      /\ Count(starved, {c}) = One(y.recv = "starved") /\ starved \in Seq(Conns)
      /\ y.co \in {"run", "run_recv", "run_pause"} /\ y.refs > 0
      /\ sq = sq \o v /\ Quiet(v)
      /\ returned \in Nat /\ staged \subseteq Buffers /\ kfree \subseteq Buffers
  BY Running DEF Pause
<1>2. /\ UNCHANGED <<frame, ready, cq, batch, krecv, kop, kaccept, listener, draining, cfg>>
      /\ UNCHANGED <<returned, staged, kfree>>
  BY DEF Pause, loopVars, bufVars, kVars
<1> HIDE DEF v
<1>3. CASE /\ Put(c, [Cancel(y) EXCEPT !.pausing = TRUE, !.co = "pause"])
           /\ sq' = sq \o CancelSqe(c, y) /\ UNCHANGED starved
  <2> DEFINE x == [Cancel(y) EXCEPT !.pausing = TRUE, !.co = "pause"]
             w == CancelSqe(c, y)
  <2>1. /\ x \in ConnType /\ x.recv = y.recv /\ x.refs = y.refs /\ x.co = "pause"
        /\ x.rx = y.rx /\ x.held = y.held
    BY <1>1 DEF ConnType, Cancel
  <2>2. Put(c, x) /\ Quiet(w) /\ sq' = sq \o w
    BY <1>3, QuietCancel
  <2> HIDE DEF x, w
  <2>3. conn'[c] = x /\ \A d \in Conns : d # c => conn'[d] = conn[d]
    BY <1>1, <2>1, <2>2, PutOk
  <2>4. \A b \in cfg.buffers : BufferOk(b)'
    BY <1>2, <2>1, <2>3, BufSame
  <2> QED BY <1>1, <1>2, <1>3, <2>1, <2>2, <2>4, QuietStep
<1>4. CASE Put(c, [y EXCEPT !.co = "pause"]) /\ UNCHANGED <<sq, starved>>
  <2> DEFINE x == [y EXCEPT !.co = "pause"]
  <2>1. /\ x \in ConnType /\ x.recv = y.recv /\ x.refs = y.refs /\ x.co = "pause"
        /\ x.rx = y.rx /\ x.held = y.held
    BY <1>1 DEF ConnType
  <2>2. Put(c, x)
    BY <1>4
  <2> HIDE DEF x
  <2>3. conn'[c] = x /\ \A d \in Conns : d # c => conn'[d] = conn[d]
    BY <1>1, <2>1, <2>2, PutOk
  <2>4. \A b \in cfg.buffers : BufferOk(b)'
    BY <1>2, <2>1, <2>3, BufSame
  <2> QED BY <1>1, <1>2, <1>4, <2>1, <2>2, <2>4, QuietStep
<1>5. CASE y.recv # "armed" /\ Put(c, Paused(y)) /\ Unlist(c) /\ UNCHANGED sq
  <2> DEFINE x == Paused(y)
  <2>1. /\ x \in ConnType /\ x.recv = (IF y.recv = "starved" THEN "paused" ELSE y.recv)
        /\ x.refs = y.refs /\ x.co = "run" /\ x.rx = y.rx /\ x.held = y.held
    BY <1>1 DEF ConnType, Paused
  <2>2. Put(c, x)
    BY <1>5
  <2> HIDE DEF x
  <2>3. conn'[c] = x /\ \A d \in Conns : d # c => conn'[d] = conn[d]
    BY <1>1, <2>1, <2>2, PutOk
  <2>4. \A b \in cfg.buffers : BufferOk(b)'
    BY <1>2, <2>1, <2>3, BufSame
  <2>5. /\ starved' \in Seq(Conns) /\ Count(starved', {c}) = One(x.recv = "starved")
        /\ \A d \in Conns : d # c => Count(starved', {d}) = Count(starved, {d})
    BY <1>5, <2>1, Unlisted DEF One
  <2>6. x.refs = One(x.co # "none") + One(x.recv # "done") + One(Frame(c, "unref"))
    BY <1>1, <2>1 DEF One
  <2> QED BY <1>1, <1>2, <1>5, <2>1, <2>2, <2>4, <2>5, <2>6, QuietStep
<1> QED BY <1>3, <1>4, <1>5 DEF Pause

\* ioxd__conn_recv_resume: the recv is staged again, or its reference dropped.
LEMMA ResumeInv ==
    ASSUME Inv, NEW c \in Conns, Resume(c), cfg' = cfg
    PROVE  Inv'
<1> DEFINE y == conn[c]
           v == <<>>
<1>1. /\ TypeOK /\ LiveOk /\ ConnOk(c) /\ y \in ConnType
      /\ y.refs = One(y.co # "none") + One(y.recv # "done") + One(Frame(c, "unref"))
      /\ Count(starved, {c}) = One(y.recv = "starved") /\ starved \in Seq(Conns)
      /\ y.co = "run" /\ y.refs > 0 /\ y.recv = "paused"
      /\ sq = sq \o v /\ Quiet(v)
      /\ returned \in Nat /\ staged \subseteq Buffers /\ kfree \subseteq Buffers
  BY Running DEF Resume
<1>2. /\ UNCHANGED <<frame, ready, starved, cq, batch, krecv, kop, kaccept, listener, draining, cfg>>
      /\ UNCHANGED <<returned, staged, kfree>>
  BY DEF Resume, loopVars, bufVars, kVars
<1> HIDE DEF v
<1>3. CASE Put(c, [Arm(y) EXCEPT !.phase = "serve"]) /\ sq' = Append(sq, Sqe("recv", c))
  <2> DEFINE x == [Arm(y) EXCEPT !.phase = "serve"]
             w == <<Sqe("recv", c)>>
  <2>1. /\ x \in ConnType /\ x.recv = "armed" /\ x.refs = y.refs /\ x.co = "run"
        /\ x.rx = y.rx /\ x.held = y.held
    BY <1>1 DEF ConnType, Arm
  <2>2. Put(c, x)
    BY <1>3
  <2>3. NoAccept(w) /\ w \in Seq(SqeType) /\ sq' = sq \o w
    BY <1>1, <1>3, RecvNoAccept, AppendCat
  <2>4. \A d \in Conns : /\ Count(w, {Sqe("recv", d)}) = One(d = c)
                         /\ Count(w, {Sqe("op", d)}) = 0
    BY RecvNoAccept, CountOne, SqeFields DEF One
  <2> HIDE DEF x, w
  <2>5. conn'[c] = x /\ \A d \in Conns : d # c => conn'[d] = conn[d]
    BY <1>1, <2>1, <2>2, PutOk
  <2>6. ConnOk(c)'
    <3>1. Count(w, {Sqe("recv", c)}) = 1 /\ Count(w, {Sqe("op", c)}) = 0
      BY <2>4 DEF One
    <3>2. Count(starved', {c}) = One(x.recv = "starved")
      BY <1>1, <1>2, <2>1 DEF One
    <3>3. x.refs = One(x.co # "none") + One(x.recv # "done") + One(Frame(c, "unref"))
      BY <1>1, <2>1 DEF One
    <3> QED BY <1>1, <1>2, <2>1, <2>3, <2>5, <3>1, <3>2, <3>3, OwnOk
  <2>7. \A b \in cfg.buffers : BufferOk(b)'
    BY <1>2, <2>1, <2>5, BufSame
  <2>8. \A d \in Conns : d # c => Count(w, {Sqe("recv", d)}) = 0 /\ Count(w, {Sqe("op", d)}) = 0
    BY <2>4 DEF One
  <2> QED BY <1>1, <1>2, <2>1, <2>2, <2>3, <2>6, <2>7, <2>8, CoStep
<1>4. CASE /\ Put(c, [Unref(y, 1) EXCEPT !.eof = TRUE, !.recv = "done", !.phase = "fail"])
           /\ UNCHANGED sq
  <2> DEFINE x == [Unref(y, 1) EXCEPT !.eof = TRUE, !.recv = "done", !.phase = "fail"]
  <2>0. y.refs - 1 \in Nat
    BY <1>1 DEF ConnType
  <2>1. /\ x \in ConnType /\ x.recv = "done" /\ x.refs = y.refs - 1 /\ x.co = "run"
        /\ x.rx = y.rx /\ x.held = y.held
    BY <1>1, <2>0 DEF ConnType, Unref
  <2>2. Put(c, x)
    BY <1>4
  <2> HIDE DEF x
  <2>3. conn'[c] = x /\ \A d \in Conns : d # c => conn'[d] = conn[d]
    BY <1>1, <2>1, <2>2, PutOk
  <2>4. \A b \in cfg.buffers : BufferOk(b)'
    BY <1>2, <2>1, <2>3, BufSame
  <2>5. Count(starved', {c}) = One(x.recv = "starved")
    BY <1>1, <1>2, <2>1 DEF One
  <2>6. x.refs = One(x.co # "none") + One(x.recv # "done") + One(Frame(c, "unref"))
    BY <1>1, <2>1 DEF One
  <2> QED BY <1>1, <1>2, <1>4, <2>1, <2>2, <2>4, <2>5, <2>6, QuietStep
<1> QED BY <1>3, <1>4 DEF Resume

\* ioxd__conn_close: everything the connection has is given back at once.
LEMMA CloseInv ==
    ASSUME Inv, NEW c \in Conns, Close(c), cfg' = cfg
    PROVE  Inv'
<1> DEFINE y == conn[c]
           g == [y EXCEPT !.closed = TRUE, !.co = "none", !.rx = <<>>, !.held = {}]
           e == <<Sqe("close", c)>>
<1>1. /\ TypeOK /\ LiveOk /\ ConnOk(c) /\ y \in ConnType
      /\ y.refs = One(y.co # "none") + One(y.recv # "done") + One(Frame(c, "unref"))
      /\ y.co = "run" /\ y.refs > 0
  BY Running DEF Close
<1>2. UNCHANGED <<frame, ready, cq, batch, krecv, kop, kaccept, listener, draining, cfg>>
  BY DEF Close, loopVars, kVars
<1>3. Kept(y) \in SUBSET Buffers /\ \A b : b \in Kept(y) <=> b \in y.held \/ Count(y.rx, {b}) # 0
  <2>1. y.rx \in Seq(Buffers) /\ y.held \subseteq Buffers
    BY <1>1 DEF ConnType
  <2>2. ToSet(y.rx) = {y.rx[i] : i \in 1..Len(y.rx)} /\ \A i \in 1..Len(y.rx) : y.rx[i] \in Buffers
    BY <2>1, LenProperties, ElementOfSeq DEF ToSet
  <2>3. \A b : Count(y.rx, {b}) = 0 <=> \A i \in 1..Len(y.rx) : y.rx[i] # b
    BY <2>1, CountZero
  <2>4. \A b : b \in ToSet(y.rx) <=> Count(y.rx, {b}) # 0
    <3> TAKE b
    <3>1. b \in ToSet(y.rx) <=> \E i \in 1..Len(y.rx) : y.rx[i] = b
      BY <2>2
    <3> QED BY <2>3, <3>1
  <2>5. ToSet(y.rx) \subseteq Buffers
    BY <2>2
  <2> QED BY <2>1, <2>4, <2>5 DEF Kept
<1>4. /\ staged' = staged \cup Kept(y) /\ kfree' = kfree /\ returned' \in Nat
      /\ staged' \subseteq Buffers /\ kfree' \subseteq Buffers
  BY <1>1, <1>3, Returned DEF Close
<1>5. /\ starved' \in Seq(Conns) /\ Count(starved', {c}) = 0
      /\ \A d \in Conns : d # c => Count(starved', {d}) = Count(starved, {d})
  BY Unlisted DEF Close
<1>6. /\ g \in ConnType /\ g.recv = y.recv /\ g.refs = y.refs /\ g.co = "none" /\ g.closed
      /\ g.rx = <<>> /\ g.held = {}
  <2>1. <<>> \in Seq(Buffers) /\ {} \in SUBSET Buffers
    BY EmptySeq
  <2> DEFINE n == <<>>
             z == {}
             h == [y EXCEPT !.closed = TRUE, !.co = "none", !.rx = n, !.held = z]
  <2>2. h = g
    OBVIOUS
  <2> HIDE DEF n, z, g
  <2>3. h \in ConnType /\ h.recv = y.recv /\ h.refs = y.refs /\ h.co = "none" /\ h.closed
        /\ h.rx = n /\ h.held = z
    BY <1>1, <2>1 DEF ConnType, n, z
  <2> QED BY <2>2, <2>3 DEF n, z
<1>7. Quiet(e) /\ sq \in Seq(SqeType) /\ Append(sq, Sqe("close", c)) = sq \o e
  <2>1. Sqe("close", c) \in SqeType
    BY DEF Sqe, SqeType
  <2> QED BY <1>1, <2>1, QuietOne, AppendCat DEF TypeOK
<1>8a. PICK x \in ConnType : \E w :
        /\ Put(c, x) /\ Quiet(w) /\ sq' = sq \o w
        /\ x.co = "none" /\ x.rx = <<>> /\ x.held = {} /\ x.closed
        /\ (x.recv = "armed" <=> y.recv = "armed") /\ x.recv # "starved"
        /\ x.refs = One(x.co # "none") + One(x.recv # "done") + One(Frame(c, "unref"))
  <2>1. CASE /\ y.recv = "armed" /\ Put(c, Unref(Cancel(g), 1))
             /\ sq' = sq \o CancelSqe(c, y) \o <<Sqe("close", c)>>
    <3> DEFINE x == Unref(Cancel(g), 1)
               u == CancelSqe(c, y)
               w == u \o e
    <3>1. y.refs - 1 \in Nat
      BY <1>1 DEF ConnType
    <3>2. /\ x \in ConnType /\ x.recv = "armed" /\ x.refs = y.refs - 1 /\ x.co = "none" /\ x.closed
          /\ x.rx = <<>> /\ x.held = {}
      <4> HIDE DEF g
      <4> QED BY <1>6, <2>1, <3>1 DEF ConnType, Cancel, Unref
    <3>3. Quiet(u)
      BY QuietCancel
    <3>4. Quiet(w)
      <4> HIDE DEF u, e
      <4> QED BY <1>7, <3>3, QuietCat
    <3>5. sq' = sq \o w
      <4>1. sq' = (sq \o u) \o e
        BY <2>1
      <4>2. u \in Seq(SqeType) /\ e \in Seq(SqeType)
        BY <1>7, <3>3 DEF Quiet
      <4> HIDE DEF u, e
      <4>3. (sq \o u) \o e = sq \o (u \o e)
        BY <1>7, <4>2, ConcatAssociative
      <4> QED BY <4>1, <4>3
    <3>6. Put(c, x)
      BY <2>1
    <3>7. x.refs = One(x.co # "none") + One(x.recv # "done") + One(Frame(c, "unref"))
      <4> HIDE DEF x
      <4> QED BY <1>1, <2>1, <3>2 DEF One
    <3> HIDE DEF x, w
    <3> QED BY <2>1, <3>2, <3>4, <3>5, <3>6, <3>7
  <2>2. CASE /\ y.recv \in {"starved", "paused"} /\ Put(c, Unref([g EXCEPT !.recv = "done"], 2))
             /\ sq' = Append(sq, Sqe("close", c))
    <3> DEFINE x == Unref([g EXCEPT !.recv = "done"], 2)
    <3>1. y.refs - 2 \in Nat
      BY <1>1, <2>2 DEF ConnType, One
    <3>2. /\ x \in ConnType /\ x.recv = "done" /\ x.refs = y.refs - 2 /\ x.co = "none" /\ x.closed
          /\ x.rx = <<>> /\ x.held = {}
      <4> HIDE DEF g
      <4> QED BY <1>6, <3>1 DEF ConnType, Unref
    <3>6. Put(c, x) /\ sq' = sq \o e
      BY <1>7, <2>2
    <3>7. x.refs = One(x.co # "none") + One(x.recv # "done") + One(Frame(c, "unref"))
      <4> HIDE DEF x
      <4> QED BY <1>1, <2>2, <3>2 DEF One
    <3> HIDE DEF x, e
    <3> QED BY <1>7, <2>2, <3>2, <3>6, <3>7
  <2>3. CASE /\ y.recv = "done" /\ Put(c, Unref(g, 1)) /\ sq' = Append(sq, Sqe("close", c))
    <3> DEFINE x == Unref(g, 1)
    <3>1. y.refs - 1 \in Nat
      BY <1>1 DEF ConnType
    <3>2. /\ x \in ConnType /\ x.recv = "done" /\ x.refs = y.refs - 1 /\ x.co = "none" /\ x.closed
          /\ x.rx = <<>> /\ x.held = {}
      <4> HIDE DEF g
      <4> QED BY <1>6, <2>3, <3>1 DEF ConnType, Unref
    <3>6. Put(c, x) /\ sq' = sq \o e
      BY <1>7, <2>3
    <3>7. x.refs = One(x.co # "none") + One(x.recv # "done") + One(Frame(c, "unref"))
      <4> HIDE DEF x
      <4> QED BY <1>1, <2>3, <3>2 DEF One
    <3> HIDE DEF x, e
    <3> QED BY <1>7, <2>3, <3>2, <3>6, <3>7
  <2> QED BY <2>1, <2>2, <2>3 DEF Close
<1>8. PICK w :
        /\ Put(c, x) /\ Quiet(w) /\ sq' = sq \o w
        /\ x.co = "none" /\ x.rx = <<>> /\ x.held = {} /\ x.closed
        /\ (x.recv = "armed" <=> y.recv = "armed") /\ x.recv # "starved"
        /\ x.refs = One(x.co # "none") + One(x.recv # "done") + One(Frame(c, "unref"))
  BY <1>8a
<1>9. conn'[c] = x /\ \A d \in Conns : d # c => conn'[d] = conn[d]
  BY <1>1, <1>8, PutOk
<1>10. ASSUME NEW b \in cfg.buffers
       PROVE  /\ b \in Kept(y) => With(b, c) # 0 /\ With(b, c)' = 0
              /\ b \notin Kept(y) => With(b, c)' = With(b, c)
  <2>1. With(b, c) = Count(y.rx, {b}) + One(b \in y.held) /\ Count(y.rx, {b}) \in Nat
    BY <1>1, BufNats DEF With
  <2>2. With(b, c)' = 0
    BY <1>8, <1>9, CountEmpty DEF With, One
  <2>3. CASE b \in Kept(y)
    BY <1>3, <2>1, <2>2, <2>3 DEF One
  <2>4. CASE b \notin Kept(y)
    BY <1>3, <2>1, <2>2, <2>4 DEF One
  <2> QED BY <2>3, <2>4
<1>11. \A b \in cfg.buffers : BufferOk(b)'
  BY <1>2, <1>4, <1>9, <1>10, BufReturn
<1>12. Count(starved', {c}) = One(x.recv = "starved")
  BY <1>5, <1>8 DEF One
<1> HIDE DEF g, e
<1> QED BY <1>1, <1>2, <1>4, <1>5, <1>8, <1>11, <1>12, QuietStep

-----------------------------------------------------------------------------
(* Dispatch.                                                               *)

\* The next CQE, in the loop: no on_recv is suspended.
LEMMA TakenHead ==
    ASSUME Inv, LoopAt("batch"), batch > 0, cq' = Tail(cq), batch' = batch - 1
    PROVE  /\ Head(cq) \in CqeType
           /\ Head(cq).t \in {"recv", "op"} => Head(cq).c \in Conns
           /\ \A d \in Conns : ~Frame(d, "last") /\ ~Frame(d, "unref")
           /\ \A d \in Conns :
                /\ EndsInCq(d) \in Nat /\ EndsInCq(d)' \in Nat
                /\ DonesInCq(d) \in Nat /\ DonesInCq(d)' \in Nat
                /\ EndsInCq(d) = One(Head(cq) \in RecvEnds(d)) + EndsInCq(d)'
                /\ DonesInCq(d) = One(Head(cq) \in OpDones(d)) + DonesInCq(d)'
           /\ Count(cq, AcceptLast) = One(Head(cq) \in AcceptLast) + Count(cq', AcceptLast)
           /\ Count(cq, AcceptLast) \in Nat /\ Count(cq', AcceptLast) \in Nat
           /\ \A b : /\ Count(cq, Bearing(b)) = One(Head(cq).b = b) + Count(cq', Bearing(b))
                     /\ Count(cq, Bearing(b)) \in Nat /\ Count(cq', Bearing(b)) \in Nat
           /\ cq' \in Seq(CqeType) /\ batch' \in Nat /\ batch' <= Len(cq')
<1>1. TypeOK /\ frame = NoFrame /\ cq \in Seq(CqeType)
  BY DEF Inv, TypeOK, LoopAt
<1>2. /\ Head(cq) \in CqeType
      /\ cq' \in Seq(CqeType) /\ batch' \in Nat /\ batch' <= Len(cq')
      /\ \A S : Count(cq, S) = One(Head(cq) \in S) + Count(cq', S)
  BY <1>1, CqTaken
<1>3. \A S : Count(cq, S) \in Nat /\ Count(cq', S) \in Nat
  BY <1>1, <1>2, CountNat
<1>4. Head(cq).t \in {"recv", "op"} => Head(cq).c \in Conns
  BY <1>2 DEF CqeType
<1>5. \A d \in Conns : ~Frame(d, "last") /\ ~Frame(d, "unref")
  BY <1>1 DEF NoFrame, Frame
<1>6. ASSUME NEW d \in Conns
      PROVE  /\ EndsInCq(d) \in Nat /\ EndsInCq(d)' \in Nat
             /\ DonesInCq(d) \in Nat /\ DonesInCq(d)' \in Nat
             /\ EndsInCq(d) = One(Head(cq) \in RecvEnds(d)) + EndsInCq(d)'
             /\ DonesInCq(d) = One(Head(cq) \in OpDones(d)) + DonesInCq(d)'
  BY <1>2, <1>3 DEF EndsInCq, DonesInCq, RecvEnds, OpDones
<1>7. /\ Count(cq, AcceptLast) = One(Head(cq) \in AcceptLast) + Count(cq', AcceptLast)
      /\ Count(cq, AcceptLast) \in Nat /\ Count(cq', AcceptLast) \in Nat
  BY <1>2, <1>3
<1>8. ASSUME NEW b
      PROVE  /\ Count(cq, Bearing(b)) = One(Head(cq).b = b) + Count(cq', Bearing(b))
             /\ Count(cq, Bearing(b)) \in Nat /\ Count(cq', Bearing(b)) \in Nat
  <2>1. Head(cq) \in Bearing(b) <=> Head(cq).b = b
    BY <1>2 DEF Bearing
  <2> QED BY <1>2, <1>3, <2>1 DEF One
<1> QED BY <1>2, <1>4, <1>5, <1>6, <1>7, <1>8

\* on_recv or a coroutine's completion, but for c's own part.
LEMMA TakeStep ==
    ASSUME Inv, LoopAt("batch"), batch > 0, cq' = Tail(cq), batch' = batch - 1,
           NEW c \in Conns, Head(cq).c = c, Head(cq).t \in {"recv", "op"},
           NEW x \in ConnType, Put(c, x), conn[c].refs > 0,
           NEW w, Quiet(w), sq' = sq \o w,
           frame' \in FrameType, frame'.c \in {c, None},
           starved' \in Seq(Conns),
           \A d \in Conns : d # c => Count(starved', {d}) = Count(starved, {d}),
           UNCHANGED <<ready, krecv, kop, kaccept, listener, draining, cfg>>,
           returned' \in Nat, staged' \subseteq Buffers, kfree' \subseteq Buffers,
           ConnOk(c)', \A b \in cfg.buffers : BufferOk(b)'
    PROVE  Inv'
<1>1. TypeOK /\ LiveOk /\ EndFollows /\ AcceptOk /\ w \in Seq(SqeType) /\ NoAccept(w)
      /\ \A d \in Conns : ConnOk(d)
  BY QuietNoAccept DEF Inv, Quiet
<1>2. /\ conn' \in [Conns -> ConnType] /\ live' \in Nat /\ LiveOk'
      /\ \A d \in Conns : d # c => conn'[d] = conn[d]
  BY <1>1, PutOk
<1>3. /\ sq' \in Seq(SqeType)
      /\ \A d \in Conns : /\ RecvsInSq(d)' = RecvsInSq(d) + Count(w, {Sqe("recv", d)})
                          /\ OpsInSq(d)' = OpsInSq(d) + Count(w, {Sqe("op", d)})
  BY <1>1, Staged
<1>4. cq' \in Seq(CqeType) /\ batch' \in Nat /\ batch' <= Len(cq')
  BY TakenHead
<1>5. TypeOK'
  BY <1>1, <1>2, <1>3, <1>4 DEF TypeOK
<1>6. ASSUME NEW d \in Conns PROVE ConnOk(d)'
  <2>1. CASE d = c
    BY <2>1
  <2>2. CASE d # c
    <3>1. RecvsInSq(d) \in Nat /\ OpsInSq(d) \in Nat
      BY <1>1, Nats
    <3>2. RecvsInSq(d)' = RecvsInSq(d) /\ OpsInSq(d)' = OpsInSq(d)
      <4>1. Count(w, {Sqe("recv", d)}) = 0 /\ Count(w, {Sqe("op", d)}) = 0
        BY QuietStaged
      <4>2. /\ RecvsInSq(d)' = RecvsInSq(d) + Count(w, {Sqe("recv", d)})
            /\ OpsInSq(d)' = OpsInSq(d) + Count(w, {Sqe("op", d)})
        BY <1>3
      <4> QED BY <3>1, <4>1, <4>2
    <3>3. EndsInCq(d)' = EndsInCq(d) /\ DonesInCq(d)' = DonesInCq(d)
      <4>1. Head(cq) \notin RecvEnds(d) /\ Head(cq) \notin OpDones(d)
        BY <2>2 DEF RecvEnds, OpDones
      <4>2. /\ EndsInCq(d)' \in Nat /\ DonesInCq(d)' \in Nat
            /\ EndsInCq(d) = One(Head(cq) \in RecvEnds(d)) + EndsInCq(d)'
            /\ DonesInCq(d) = One(Head(cq) \in OpDones(d)) + DonesInCq(d)'
        BY TakenHead
      <4> QED BY <4>1, <4>2 DEF One
    <3>4. /\ ~Frame(d, "last") /\ ~Frame(d, "unref")
      BY TakenHead
    <3>5. ~Frame(d, "last")' /\ ~Frame(d, "unref")'
      BY <2>2, NoneOut DEF Frame
    <3>6. Same(d)
      BY <1>2, <2>2, <3>2, <3>3, <3>4, <3>5 DEF Same
    <3> QED BY <1>1, <3>6, SameOk
  <2> QED BY <2>1, <2>2
<1>7. EndFollows'
  BY <1>1, EndTaken
<1>8. AcceptOk'
  <2>1. Head(cq) \notin AcceptLast
    BY DEF AcceptLast
  <2>2. Count(cq', AcceptLast) = Count(cq, AcceptLast)
    BY <2>1, TakenHead DEF One
  <2> QED BY <1>1, <2>2, AcceptStaged
<1> QED BY <1>2, <1>5, <1>6, <1>7, <1>8 DEF Inv

\* on_recv: a recv goes on after a CQE with more, and ends with one without.
LEMMA RecvStep ==
    ASSUME Inv, LoopAt("batch"), batch > 0, cq' = Tail(cq), batch' = batch - 1,
           NEW c \in Conns, Head(cq).c = c, Head(cq).t = "recv",
           NEW x \in ConnType, Put(c, x), conn[c].refs > 0,
           NEW w, Quiet(w), sq' = sq \o w,
           frame' \in FrameType, frame'.c \in {c, None},
           Head(cq).more => x.recv = "armed" /\ ~Frame(c, "last")',
           ~Head(cq).more => (x.recv = "armed" <=> Frame(c, "last")'),
           x.co = "parked" <=> conn[c].co = "parked",
           x.co = "ready" <=> conn[c].co = "ready",
           starved' \in Seq(Conns), Count(starved', {c}) = One(x.recv = "starved"),
           \A d \in Conns : d # c => Count(starved', {d}) = Count(starved, {d}),
           x.refs = One(x.co # "none") + One(x.recv # "done") + One(Frame(c, "unref")'),
           x.co = "none" => /\ x.rx = <<>> /\ x.held = {}
                            /\ x.recv # "done" => x.closed,
           UNCHANGED <<ready, krecv, kop, kaccept, listener, draining, cfg>>,
           returned' \in Nat, staged' \subseteq Buffers, kfree' \subseteq Buffers,
           \A b \in cfg.buffers : BufferOk(b)'
    PROVE  Inv'
<1>1. TypeOK /\ LiveOk /\ EndFollows /\ ConnOk(c) /\ w \in Seq(SqeType)
  BY DEF Inv, Quiet
<1>2. conn'[c] = x
  BY <1>1, PutOk
<1>3. /\ RecvsInSq(c) \in Nat /\ OpsInSq(c) \in Nat
      /\ RecvsInSq(c)' = RecvsInSq(c) /\ OpsInSq(c)' = OpsInSq(c)
  <2>1. RecvsInSq(c) \in Nat /\ OpsInSq(c) \in Nat
    BY <1>1, Nats
  <2>2. Count(w, {Sqe("recv", c)}) = 0 /\ Count(w, {Sqe("op", c)}) = 0
    BY QuietStaged
  <2>3. /\ RecvsInSq(c)' = RecvsInSq(c) + Count(w, {Sqe("recv", c)})
        /\ OpsInSq(c)' = OpsInSq(c) + Count(w, {Sqe("op", c)})
    BY <1>1, Staged
  <2> QED BY <2>1, <2>2, <2>3
<1>4. conn[c].recv = "armed"
  BY <1>1, HeadArmed
<1>5. /\ Head(cq) \in CqeType
      /\ EndsInCq(c) \in Nat /\ EndsInCq(c)' \in Nat
      /\ DonesInCq(c) \in Nat /\ DonesInCq(c)' \in Nat
      /\ EndsInCq(c) = One(Head(cq) \in RecvEnds(c)) + EndsInCq(c)'
      /\ DonesInCq(c) = One(Head(cq) \in OpDones(c)) + DonesInCq(c)'
      /\ ~Frame(c, "last") /\ ~Frame(c, "unref")
  BY TakenHead
<1>6. /\ DonesInCq(c)' = DonesInCq(c)
      /\ EndsInCq(c) = IF Head(cq).more THEN EndsInCq(c)' ELSE 1 + EndsInCq(c)'
  <2>1. Head(cq) \notin OpDones(c) /\ (Head(cq) \in RecvEnds(c) <=> ~Head(cq).more)
    BY <1>5 DEF OpDones, RecvEnds
  <2> QED BY <1>5, <2>1 DEF One
<1>7. RecvOk(c) /\ OpOk(c) /\ ListOk(c)
  BY <1>1 DEF ConnOk
<1>8. RecvOk(c)'
  <2>1. CASE Head(cq).more
    <3>1. EndsInCq(c)' = EndsInCq(c) /\ x.recv = "armed" /\ ~Frame(c, "last")'
      BY <1>6, <2>1
    <3> QED BY <1>2, <1>3, <1>4, <1>5, <1>7, <3>1 DEF RecvOk
  <2>2. CASE ~Head(cq).more
    <3>1. EndsInCq(c) = 1 + EndsInCq(c)' /\ (x.recv = "armed" <=> Frame(c, "last")')
      BY <1>6, <2>2
    <3>2. RecvsInSq(c) = 0 /\ c \notin krecv /\ EndsInCq(c) = 1
      BY <1>3, <1>4, <1>5, <1>7, <3>1 DEF RecvOk
    <3>3. EndsInCq(c)' = 0
      BY <1>5, <3>1, <3>2
    <3> QED BY <1>2, <1>3, <3>1, <3>2, <3>3 DEF RecvOk
  <2> QED BY <2>1, <2>2
<1>9. OpOk(c)'
  BY <1>2, <1>3, <1>6, <1>7 DEF OpOk
<1>10. ListOk(c)'
  BY <1>2, <1>7 DEF ListOk, One
<1>11. RefsOk(c)'
  BY <1>2 DEF RefsOk
<1>12. GoneOk(c)'
  BY <1>2 DEF GoneOk
<1>13. ConnOk(c)'
  BY <1>8, <1>9, <1>10, <1>11, <1>12 DEF ConnOk
<1> QED BY <1>13, TakeStep

\* What on_recv starts from: the recv of c, whose record is y, is under way; s
\* is the record without the cancel, w is nothing.
Arriving(c, y, s, w) ==
    /\ LoopAt("batch") /\ batch > 0 /\ cq' = Tail(cq) /\ batch' = batch - 1
    /\ Head(cq).t = "recv" /\ Head(cq) \in CqeType /\ Head(cq).c = c /\ c \in Conns
    /\ TypeOK /\ LiveOk /\ y \in ConnType /\ y.recv = "armed"
    /\ y.refs = One(y.co # "none") + 1 /\ y.refs > 0
    /\ y.co = "none" => y.rx = <<>> /\ y.held = {} /\ y.closed
    /\ s \in ConnType /\ s.recv = "armed" /\ s.refs = y.refs /\ s.co = y.co
    /\ s.rx = y.rx /\ s.held = y.held /\ s.closed = y.closed
    /\ Count(starved, {c}) = 0 /\ starved \in Seq(Conns)
    /\ returned \in Nat /\ staged \subseteq Buffers /\ kfree \subseteq Buffers
    /\ NoFrame \in FrameType /\ frame = NoFrame
    /\ [c |-> c, k |-> "unref"] \in FrameType
    /\ [c |-> c, k |-> "more"] \in FrameType
    /\ [c |-> c, k |-> "last"] \in FrameType
    /\ sq = sq \o w /\ Quiet(w)

\* The connection whose recv CQE is dispatched.
LEMMA RecvHead ==
    ASSUME Inv, NEW ks, Taking("recv", ks)
    PROVE  Arriving(Head(cq).c, conn[Head(cq).c], Seen, <<>>)
<1> DEFINE c == Head(cq).c
           y == conn[c]
<1>1. /\ LoopAt("batch") /\ batch > 0 /\ cq' = Tail(cq) /\ batch' = batch - 1
      /\ Head(cq).t = "recv" /\ Head(cq).k \in ks
  BY DEF Taking
<1>2. Head(cq) \in CqeType /\ c \in Conns /\ ~Frame(c, "unref")
  BY <1>1, TakenHead
<1>3. /\ TypeOK /\ LiveOk /\ EndFollows /\ ConnOk(c) /\ y \in ConnType
      /\ y.refs = One(y.co # "none") + One(y.recv # "done") + One(Frame(c, "unref"))
      /\ Count(starved, {c}) = One(y.recv = "starved") /\ starved \in Seq(Conns)
      /\ sq = sq \o <<>> /\ Quiet(<<>>)
      /\ returned \in Nat /\ staged \subseteq Buffers /\ kfree \subseteq Buffers
  BY <1>2, ConnFields, QuietNone DEF Inv, TypeOK
<1>4. y.recv = "armed"
  BY <1>1, <1>2, <1>3, HeadArmed
<1>5. y.refs = One(y.co # "none") + 1 /\ y.refs > 0 /\ Count(starved, {c}) = 0
  BY <1>2, <1>3, <1>4 DEF One
<1>6. y.co = "none" => y.rx = <<>> /\ y.held = {} /\ y.closed
  BY <1>3, <1>4 DEF ConnOk, GoneOk
<1>7. Head(cq).more \in BOOLEAN
  BY <1>2 DEF CqeType
<1>8. Seen = [y EXCEPT !.cancelling = y.cancelling /\ Head(cq).more]
  BY <1>3 DEF Seen, ConnType
<1>9. /\ Seen \in ConnType /\ Seen.recv = "armed" /\ Seen.refs = y.refs /\ Seen.co = y.co
      /\ Seen.rx = y.rx /\ Seen.held = y.held /\ Seen.closed = y.closed
  <2> DEFINE v == y.cancelling /\ Head(cq).more
  <2>1. v \in BOOLEAN /\ Seen = [y EXCEPT !.cancelling = v]
    BY <1>8
  <2> HIDE DEF v, y
  <2> QED BY <1>3, <1>4, <2>1 DEF ConnType
<1>10. NoFrame \in FrameType /\ frame = NoFrame
  BY <1>1 DEF LoopAt, NoFrame, FrameType
<1>11. /\ [c |-> c, k |-> "unref"] \in FrameType
       /\ [c |-> c, k |-> "more"] \in FrameType
       /\ [c |-> c, k |-> "last"] \in FrameType
  BY <1>2 DEF FrameType
<1> QED BY <1>1, <1>2, <1>3, <1>4, <1>5, <1>6, <1>9, <1>10, <1>11 DEF Arriving

\* wake_reader makes a waiting coroutine run, and touches nothing else.
LEMMA WakeOk ==
    ASSUME NEW x \in ConnType
    PROVE  /\ Wake(x) \in ConnType /\ Wake(x).recv = x.recv /\ Wake(x).refs = x.refs
           /\ Wake(x).rx = x.rx /\ Wake(x).held = x.held /\ Wake(x).closed = x.closed
           /\ Wake(x).co = "none" <=> x.co = "none"
           /\ Wake(x).co = "parked" <=> x.co = "parked"
           /\ Wake(x).co = "ready" <=> x.co = "ready"
<1> DEFINE v == CASE x.co = "recv"  -> "run_recv"
                  [] x.co = "pause" -> "run_pause"
                  [] OTHER          -> x.co
<1>1. x.co \in {"none", "ready", "run", "run_recv", "run_pause", "recv", "pause", "parked"}
  BY DEF ConnType
<1>2. /\ v \in {"none", "ready", "run", "run_recv", "run_pause", "recv", "pause", "parked"}
      /\ v = "none" <=> x.co = "none"
      /\ v = "parked" <=> x.co = "parked"
      /\ v = "ready" <=> x.co = "ready"
  <2>1. CASE x.co = "recv"
    BY <2>1
  <2>2. CASE x.co = "pause"
    BY <2>2
  <2>3. CASE x.co \notin {"recv", "pause"}
    <3>1. v = x.co
      BY <2>3
    <3> HIDE DEF v
    <3> QED BY <1>1, <3>1
  <2> QED BY <2>1, <2>2, <2>3
<1>3. Wake(x) = [x EXCEPT !.co = v]
  BY DEF Wake
<1> HIDE DEF v
<1> QED BY <1>2, <1>3 DEF ConnType

\* The CQE's buffer goes back to the ring.
LEMMA BufBack ==
    ASSUME Inv, LoopAt("batch"), batch > 0, cq' = Tail(cq), batch' = batch - 1,
           NEW c \in Conns, NEW x, conn'[c] = x, x.rx = conn[c].rx, x.held = conn[c].held,
           \A d \in Conns : d # c => conn'[d] = conn[d],
           staged' = staged \cup {Head(cq).b}, UNCHANGED <<kfree, cfg>>
    PROVE  \A b \in cfg.buffers : BufferOk(b)'
<1> SUFFICES ASSUME NEW b \in cfg.buffers PROVE BufferOk(b)'
  OBVIOUS
<1>1. TypeOK /\ BufferOk(b)
  BY DEF Inv
<1>2. /\ Count(cq, Bearing(b)) = One(Head(cq).b = b) + Count(cq', Bearing(b))
      /\ Count(cq, Bearing(b)) \in Nat /\ Count(cq', Bearing(b)) \in Nat
  BY TakenHead
<1>3. \A d \in Conns : With(b, d)' = With(b, d)
  BY DEF With
<1>4. InRings(b) \in {0, 1}
  BY <1>1, WithBound
<1>5. Bearing(b)' = Bearing(b)
  BY DEF Bearing
<1>6. InRings(b)' = One(b \in kfree) + One(b \in staged \cup {Head(cq).b}) + Count(cq', Bearing(b))
  BY <1>5 DEF InRings
<1>7. InRings(b) = One(b \in kfree) + One(b \in staged) + Count(cq, Bearing(b))
  BY DEF InRings
<1>8. InRings(b)' = InRings(b)
  <2>1. CASE Head(cq).b = b
    BY <1>2, <1>4, <1>6, <1>7, <2>1 DEF One
  <2>2. CASE Head(cq).b # b
    BY <1>2, <1>4, <1>6, <1>7, <2>2 DEF One
  <2> QED BY <2>1, <2>2
<1> QED BY <1>1, <1>3, <1>8, BufRings

\* The CQE's buffer goes into c's queue.
LEMMA BufQueued ==
    ASSUME Inv, LoopAt("batch"), batch > 0, cq' = Tail(cq), batch' = batch - 1, Head(cq).b \in Buffers,
           NEW c \in Conns, NEW x, conn'[c] = x, x.held = conn[c].held,
           x.rx = Append(conn[c].rx, Head(cq).b),
           \A d \in Conns : d # c => conn'[d] = conn[d],
           UNCHANGED <<staged, kfree, cfg>>
    PROVE  \A b \in cfg.buffers : BufferOk(b)'
<1> SUFFICES ASSUME NEW b \in cfg.buffers PROVE BufferOk(b)'
  OBVIOUS
<1>1. TypeOK /\ BufferOk(b) /\ conn[c].rx \in Seq(Buffers)
  BY DEF Inv, TypeOK, ConnType
<1>2. /\ Count(cq, Bearing(b)) = One(Head(cq).b = b) + Count(cq', Bearing(b))
      /\ Count(cq, Bearing(b)) \in Nat /\ Count(cq', Bearing(b)) \in Nat
  BY TakenHead
<1>3. \A d \in Conns : d # c => With(b, d)' = With(b, d)
  BY DEF With
<1>4. InRings(b) \in {0, 1} /\ With(b, c) \in {0, 1}
  BY <1>1, WithBound
<1>5. Bearing(b)' = Bearing(b)
  BY DEF Bearing
<1>6. InRings(b)' = One(b \in kfree) + One(b \in staged) + Count(cq', Bearing(b))
  BY <1>5 DEF InRings
<1>7. InRings(b) = One(b \in kfree) + One(b \in staged) + Count(cq, Bearing(b))
  BY DEF InRings
<1>8. Count(x.rx, {b}) = Count(conn[c].rx, {b}) + One(Head(cq).b \in {b}) /\ Count(conn[c].rx, {b}) \in Nat
  <2> DEFINE r == conn[c].rx
             h == Head(cq).b
  <2>1. r \in Seq(Buffers) /\ h \in Buffers
    BY <1>1
  <2> HIDE DEF r, h
  <2>2. \A S : Count(Append(r, h), S) = Count(r, S) + One(h \in S)
    BY <2>1, CountAppend
  <2>3. Count(r, {b}) \in Nat
    BY <2>1, CountNat
  <2> QED BY <2>2, <2>3 DEF r, h
<1>9. With(b, c)' = Count(x.rx, {b}) + One(b \in x.held)
      /\ With(b, c) = Count(conn[c].rx, {b}) + One(b \in conn[c].held)
  BY DEF With
<1>10. CASE Head(cq).b = b
  <2>1. InRings(b) = 1 /\ InRings(b)' = 0
    BY <1>2, <1>4, <1>6, <1>7, <1>10 DEF One
  <2>2. With(b, c)' = With(b, c) + 1
    BY <1>8, <1>9, <1>10 DEF One
  <2>3. /\ InRings(b) \in Nat /\ InRings(b)' \in Nat /\ With(b, c) \in Nat /\ With(b, c)' \in Nat
        /\ InRings(b)' + With(b, c)' = InRings(b) + With(b, c)
    BY <1>4, <2>1, <2>2
  <2> QED BY <1>1, <1>3, <2>3, BufMove
<1>11. CASE Head(cq).b # b
  <2>1. InRings(b)' = InRings(b)
    BY <1>2, <1>6, <1>7, <1>11 DEF One
  <2>2. With(b, c)' = With(b, c)
    BY <1>8, <1>9, <1>11 DEF One
  <2> QED BY <1>1, <1>3, <2>1, <2>2, BufRings
<1> QED BY <1>10, <1>11

\* The CQE names no buffer.
LEMMA BufUnnamed ==
    ASSUME Inv, LoopAt("batch"), batch > 0, cq' = Tail(cq), batch' = batch - 1, Head(cq).b = None,
           NEW c \in Conns, NEW x, conn'[c] = x, x.rx = conn[c].rx, x.held = conn[c].held,
           \A d \in Conns : d # c => conn'[d] = conn[d],
           UNCHANGED <<staged, kfree, cfg>>
    PROVE  \A b \in cfg.buffers : BufferOk(b)'
<1>1. ASSUME NEW b \in Buffers PROVE Count(cq', Bearing(b)) = Count(cq, Bearing(b))
  <2>1. Head(cq).b # b
    BY NoneOut
  <2>2. /\ Count(cq, Bearing(b)) = One(Head(cq).b = b) + Count(cq', Bearing(b))
        /\ Count(cq', Bearing(b)) \in Nat
    BY TakenHead
  <2> QED BY <2>1, <2>2 DEF One
<1> QED BY <1>1, BufSame

\* on_recv, -ENOBUFS.
LEMMA OnNobufsInv ==
    ASSUME Inv, OnNobufs, cfg' = cfg
    PROVE  Inv'
<1>0. PICK c : c = Head(cq).c
  OBVIOUS
<1> DEFINE y == conn[c]
           s == Seen
           w == <<>>
<1>1. Taking("recv", {"enobufs"})
  BY DEF OnNobufs
<1>2. Arriving(c, y, s, w) /\ Head(cq).k = "enobufs"
  BY <1>0, <1>1, RecvHead DEF Taking
<1> USE DEF Arriving
<1> HIDE DEF w, s
<1>3. Head(cq).b = None /\ ~Head(cq).more
  BY <1>2 DEF CqeType
<1>4. UNCHANGED <<ready, krecv, kop, kaccept, listener, draining, cfg, returned, staged, kfree, sq>>
  BY DEF OnNobufs, loopVars, bufVars, kVars
<1>5. returned' \in Nat /\ staged' \subseteq Buffers /\ kfree' \subseteq Buffers
  BY <1>2, <1>4
<1>6. PICK x \in ConnType :
        /\ Put(c, x) /\ x.rx = y.rx /\ x.held = y.held
        /\ x.recv # "armed" /\ (x.co = "parked" <=> y.co = "parked")
        /\ (x.co = "ready" <=> y.co = "ready") /\ (x.co = "none" <=> y.co = "none")
        /\ x.refs = y.refs
        /\ (x.co = "none" /\ x.recv # "done" => x.closed)
        /\ \/ x.recv = "done" /\ frame' = [c |-> c, k |-> "unref"] /\ starved' = starved
           \/ x.recv = "paused" /\ frame' = frame /\ starved' = starved
           \/ x.recv = "starved" /\ frame' = frame /\ starved' = Append(starved, c)
  <2>1. CASE /\ s.closed /\ Put(c, [s EXCEPT !.recv = "done"]) /\ Suspend("unref")
             /\ UNCHANGED starved
    <3> DEFINE x == [s EXCEPT !.recv = "done"]
    <3>1. /\ x \in ConnType /\ x.recv = "done" /\ x.refs = s.refs /\ x.co = s.co
          /\ x.rx = s.rx /\ x.held = s.held
      <4> QED BY <1>2 DEF ConnType
    <3>2. Put(c, x)
      BY <2>1
    <3> HIDE DEF x
    <3> QED BY <1>2, <2>1, <3>1, <3>2, <1>0 DEF Suspend
  <2>2. CASE /\ ~s.closed /\ Put(c, Wake([s EXCEPT !.pausing = FALSE, !.recv = "paused"]))
             /\ UNCHANGED <<starved, frame>>
    <3> DEFINE z == [s EXCEPT !.pausing = FALSE, !.recv = "paused"]
               x == Wake(z)
    <3>1. /\ z \in ConnType /\ z.recv = "paused" /\ z.refs = s.refs /\ z.co = s.co
          /\ z.rx = s.rx /\ z.held = s.held /\ z.closed = s.closed
      <4> QED BY <1>2 DEF ConnType
    <3>2. Put(c, x)
      BY <2>2
    <3> HIDE DEF z
    <3>3. /\ x \in ConnType /\ x.recv = z.recv /\ x.refs = z.refs
          /\ x.rx = z.rx /\ x.held = z.held /\ x.closed = z.closed
          /\ (x.co = "none" <=> z.co = "none") /\ (x.co = "parked" <=> z.co = "parked")
          /\ (x.co = "ready" <=> z.co = "ready")
      BY <3>1, WakeOk
    <3> HIDE DEF x
    <3> QED BY <1>2, <2>2, <3>1, <3>2, <3>3
  <2>3. CASE /\ ~s.closed /\ Put(c, Wake([s EXCEPT !.recv = "done"])) /\ Suspend("unref")
             /\ UNCHANGED starved
    <3> DEFINE z == [s EXCEPT !.recv = "done"]
               x == Wake(z)
    <3>1. /\ z \in ConnType /\ z.recv = "done" /\ z.refs = s.refs /\ z.co = s.co
          /\ z.rx = s.rx /\ z.held = s.held /\ z.closed = s.closed
      <4> QED BY <1>2 DEF ConnType
    <3>2. Put(c, x)
      BY <2>3
    <3> HIDE DEF z
    <3>3. /\ x \in ConnType /\ x.recv = z.recv /\ x.refs = z.refs
          /\ x.rx = z.rx /\ x.held = z.held /\ x.closed = z.closed
          /\ (x.co = "none" <=> z.co = "none") /\ (x.co = "parked" <=> z.co = "parked")
          /\ (x.co = "ready" <=> z.co = "ready")
      BY <3>1, WakeOk
    <3> HIDE DEF x
    <3> QED BY <1>2, <2>3, <3>1, <3>2, <3>3, <1>0 DEF Suspend
  <2>4. CASE /\ ~s.closed /\ Put(c, [s EXCEPT !.recv = "starved"])
             /\ starved' = Append(starved, c) /\ UNCHANGED frame
    <3> DEFINE x == [s EXCEPT !.recv = "starved"]
    <3>1. /\ x \in ConnType /\ x.recv = "starved" /\ x.refs = s.refs /\ x.co = s.co
          /\ x.rx = s.rx /\ x.held = s.held
      <4> QED BY <1>2 DEF ConnType
    <3>2. Put(c, x)
      BY <2>4
    <3> HIDE DEF x
    <3> QED BY <1>2, <2>4, <3>1, <3>2
  <2> QED BY <1>0, <2>1, <2>2, <2>3, <2>4 DEF OnNobufs, s
<1>7. conn'[c] = x /\ \A d \in Conns : d # c => conn'[d] = conn[d]
  BY <1>2, <1>6, PutOk
<1>8. \A b \in cfg.buffers : BufferOk(b)'
  BY <1>2, <1>3, <1>4, <1>6, <1>7, BufUnnamed
<1>9. /\ starved' \in Seq(Conns) /\ Count(starved', {c}) = One(x.recv = "starved")
      /\ \A d \in Conns : d # c => Count(starved', {d}) = Count(starved, {d})
  <2>1. CASE starved' = starved /\ x.recv # "starved"
    BY <1>2, <2>1 DEF One
  <2>2. CASE starved' = Append(starved, c) /\ x.recv = "starved"
    <3>1. \A S : Append(starved, c) \in Seq(Conns)
                 /\ Count(Append(starved, c), S) = Count(starved, S) + One(c \in S)
                 /\ Count(starved, S) \in Nat
      <4>1. starved \in Seq(Conns) /\ c \in Conns
        BY <1>2
      <4>2. \A S : Append(starved, c) \in Seq(Conns)
                   /\ Count(Append(starved, c), S) = Count(starved, S) + One(c \in S)
        BY <4>1, CountAppend
      <4>3. \A S : Count(starved, S) \in Nat
        BY <4>1, CountNat
      <4> QED BY <4>2, <4>3
    <3>2. Count(starved', {c}) = 1
      BY <1>2, <2>2, <3>1 DEF One
    <3>3. \A d \in Conns : d # c => Count(starved', {d}) = Count(starved, {d})
      <4> SUFFICES ASSUME NEW d \in Conns, d # c PROVE Count(starved', {d}) = Count(starved, {d})
        OBVIOUS
      <4>1. Count(starved', {d}) = Count(starved, {d}) + One(c \in {d}) /\ Count(starved, {d}) \in Nat
        BY <2>2, <3>1
      <4>2. c \notin {d}
        OBVIOUS
      <4> QED BY <4>1, <4>2 DEF One
    <3> QED BY <2>2, <3>1, <3>2, <3>3 DEF One
  <2> QED BY <1>6, <2>1, <2>2
<1>10. /\ frame' \in FrameType /\ frame'.c \in {c, None} /\ ~Frame(c, "last")'
       /\ x.refs = One(x.co # "none") + One(x.recv # "done") + One(Frame(c, "unref")')
  <2>1. CASE x.recv = "done" /\ frame' = [c |-> c, k |-> "unref"]
    <3>1. frame'.c = c /\ frame'.k = "unref" /\ frame' \in FrameType
      BY <1>2, <2>1
    <3>2. Frame(c, "unref")' /\ ~Frame(c, "last")'
      BY <3>1 DEF Frame
    <3>3. y.refs = One(y.co # "none") + 1
      BY <1>2
    <3> QED BY <1>6, <2>1, <3>1, <3>2, <3>3 DEF One
  <2>2. CASE x.recv # "done" /\ frame' = NoFrame
    BY <1>2, <1>6, <2>2, NoneOut DEF Frame, One, NoFrame
  <2> QED BY <1>2, <1>6, <2>1, <2>2
<1>11. x.co = "none" => /\ x.rx = <<>> /\ x.held = {}
                        /\ x.recv # "done" => x.closed
  BY <1>2, <1>6
<1>12. sq' = sq \o w /\ Quiet(w)
  BY <1>2, <1>4
<1>13. x.recv = "armed" <=> Frame(c, "last")'
  BY <1>6, <1>10
<1>14. /\ LoopAt("batch") /\ batch > 0 /\ cq' = Tail(cq) /\ batch' = batch - 1
       /\ Head(cq).t = "recv" /\ Head(cq).c = c /\ c \in Conns /\ conn[c].refs > 0
  BY <1>2
<1> HIDE DEF Arriving
<1> QED BY <1>3, <1>4, <1>5, <1>6, <1>8, <1>9, <1>10, <1>11, <1>12, <1>13, <1>14, RecvStep

\* on_recv, result <= 0: a buffer the CQE names goes back.
LEMMA OnEndInv ==
    ASSUME Inv, OnEnd, cfg' = cfg
    PROVE  Inv'
<1>0. PICK c : c = Head(cq).c
  OBVIOUS
<1> DEFINE y == conn[c]
           s == Seen
           w == <<>>
<1>1. Taking("recv", {"fin", "cancelled"})
  BY DEF OnEnd
<1>2. Arriving(c, y, s, w) /\ Head(cq).k \in {"fin", "cancelled"}
  BY <1>0, <1>1, RecvHead DEF Taking
<1> USE DEF Arriving
<1> HIDE DEF w, s
<1>3. ~Head(cq).more /\ Head(cq).b \in Buffers \cup {None}
  BY <1>2 DEF CqeType
<1>4. UNCHANGED <<ready, krecv, kop, kaccept, listener, draining, cfg, starved, sq>>
  BY DEF OnEnd, loopVars, kVars
<1>5. PICK x \in ConnType :
        /\ Put(c, x) /\ x.rx = y.rx /\ x.held = y.held /\ x.refs = y.refs
        /\ (x.co = "parked" <=> y.co = "parked")
        /\ (x.co = "ready" <=> y.co = "ready") /\ (x.co = "none" <=> y.co = "none")
        /\ \/ x.recv = "done" /\ frame' = [c |-> c, k |-> "unref"]
           \/ x.recv = "paused" /\ frame' = NoFrame /\ ~y.closed
  <2>1. CASE /\ ~s.closed /\ Put(c, Wake([s EXCEPT !.pausing = FALSE, !.recv = "paused"]))
             /\ UNCHANGED frame
    <3> DEFINE z == [s EXCEPT !.pausing = FALSE, !.recv = "paused"]
               x == Wake(z)
    <3>1. /\ z \in ConnType /\ z.recv = "paused" /\ z.refs = s.refs /\ z.co = s.co
          /\ z.rx = s.rx /\ z.held = s.held /\ z.closed = s.closed
      BY <1>2 DEF ConnType
    <3>2. Put(c, x)
      BY <2>1
    <3> HIDE DEF z
    <3>3. /\ x \in ConnType /\ x.recv = z.recv /\ x.refs = z.refs /\ x.rx = z.rx /\ x.held = z.held
          /\ (x.co = "none" <=> z.co = "none") /\ (x.co = "parked" <=> z.co = "parked")
          /\ (x.co = "ready" <=> z.co = "ready")
      BY <3>1, WakeOk
    <3> HIDE DEF x
    <3> QED BY <1>2, <2>1, <3>1, <3>2, <3>3
  <2>2. CASE /\ Put(c, Wake([s EXCEPT !.eof = TRUE, !.recv = "done"])) /\ Suspend("unref")
    <3> DEFINE z == [s EXCEPT !.eof = TRUE, !.recv = "done"]
               x == Wake(z)
    <3>1. /\ z \in ConnType /\ z.recv = "done" /\ z.refs = s.refs /\ z.co = s.co
          /\ z.rx = s.rx /\ z.held = s.held
      BY <1>2 DEF ConnType
    <3>2. Put(c, x)
      BY <2>2
    <3> HIDE DEF z
    <3>3. /\ x \in ConnType /\ x.recv = z.recv /\ x.refs = z.refs /\ x.rx = z.rx /\ x.held = z.held
          /\ (x.co = "none" <=> z.co = "none") /\ (x.co = "parked" <=> z.co = "parked")
          /\ (x.co = "ready" <=> z.co = "ready")
      BY <3>1, WakeOk
    <3> HIDE DEF x
    <3> QED BY <1>0, <1>2, <2>2, <3>1, <3>2, <3>3 DEF Suspend
  <2> QED BY <1>0, <2>1, <2>2 DEF OnEnd, s
<1>6. conn'[c] = x /\ \A d \in Conns : d # c => conn'[d] = conn[d]
  BY <1>2, <1>5, PutOk
<1>7. /\ returned' \in Nat /\ staged' \subseteq Buffers /\ kfree' \subseteq Buffers
      /\ \A b \in cfg.buffers : BufferOk(b)'
  <2>1. CASE Head(cq).b = None
    <3>1. UNCHANGED <<returned, staged, kfree>>
      BY <2>1 DEF OnEnd, EndBuffer, bufVars
    <3>2. \A b \in cfg.buffers : BufferOk(b)'
      BY <1>2, <1>4, <1>5, <1>6, <2>1, <3>1, BufUnnamed
    <3> QED BY <1>2, <3>1, <3>2
  <2>2. CASE Head(cq).b \in Buffers
    <3>1. Return({Head(cq).b}) /\ {Head(cq).b} \in SUBSET Buffers
      BY <2>2, NoneOut DEF OnEnd, EndBuffer
    <3>2. /\ staged' = staged \cup {Head(cq).b} /\ kfree' = kfree /\ returned' \in Nat
          /\ staged' \subseteq Buffers /\ kfree' \subseteq Buffers
      BY <1>2, <3>1, Returned
    <3>3. \A b \in cfg.buffers : BufferOk(b)'
      BY <1>2, <1>4, <1>5, <1>6, <3>2, BufBack
    <3> QED BY <3>2, <3>3
  <2> QED BY <1>3, <2>1, <2>2
<1>8. /\ starved' \in Seq(Conns) /\ Count(starved', {c}) = One(x.recv = "starved")
      /\ \A d \in Conns : d # c => Count(starved', {d}) = Count(starved, {d})
  BY <1>2, <1>4, <1>5 DEF One
<1>9. /\ frame' \in FrameType /\ frame'.c \in {c, None} /\ ~Frame(c, "last")'
      /\ x.refs = One(x.co # "none") + One(x.recv # "done") + One(Frame(c, "unref")')
  <2>1. CASE x.recv = "done" /\ frame' = [c |-> c, k |-> "unref"]
    <3>1. frame'.c = c /\ frame'.k = "unref" /\ frame' \in FrameType
      BY <1>2, <2>1
    <3>2. Frame(c, "unref")' /\ ~Frame(c, "last")'
      BY <3>1 DEF Frame
    <3> QED BY <1>2, <1>5, <2>1, <3>1, <3>2 DEF One
  <2>2. CASE x.recv = "paused" /\ frame' = NoFrame
    BY <1>2, <1>5, <2>2, NoneOut DEF Frame, One, NoFrame
  <2> QED BY <1>5, <2>1, <2>2
<1>10. x.co = "none" => /\ x.rx = <<>> /\ x.held = {}
                        /\ x.recv # "done" => x.closed
  BY <1>2, <1>5
<1>11. sq' = sq \o w /\ Quiet(w)
  BY <1>2, <1>4
<1>12. x.recv = "armed" <=> Frame(c, "last")'
  BY <1>5, <1>9
<1>13. /\ LoopAt("batch") /\ batch > 0 /\ cq' = Tail(cq) /\ batch' = batch - 1
       /\ Head(cq).t = "recv" /\ Head(cq).c = c /\ c \in Conns /\ conn[c].refs > 0
  BY <1>2
<1> HIDE DEF Arriving
<1> QED BY <1>3, <1>4, <1>5, <1>7, <1>8, <1>9, <1>10, <1>11, <1>12, <1>13, RecvStep

\* on_recv with bytes: the buffer is queued, or goes back.
LEMMA OnDataInv ==
    ASSUME Inv, OnData, cfg' = cfg
    PROVE  Inv'
<1>0. PICK c : c = Head(cq).c
  OBVIOUS
<1> DEFINE y == conn[c]
           s == Seen
           n == <<>>
           more == Head(cq).more
<1>1. Taking("recv", {"data"})
  BY DEF OnData
<1>2. Arriving(c, y, s, n) /\ Head(cq).k = "data"
  BY <1>0, <1>1, RecvHead DEF Taking
<1> USE DEF Arriving
<1> HIDE DEF n, s
<1>3. Head(cq).b \in Buffers /\ Head(cq).more \in BOOLEAN
  BY <1>2 DEF CqeType
<1>4. UNCHANGED <<ready, krecv, kop, kaccept, listener, draining, cfg, starved>>
  BY DEF OnData, loopVars, kVars
<1>5. /\ frame' = [c |-> c, k |-> IF more THEN "more" ELSE "last"]
  BY <1>0 DEF OnData, Suspend
<1>6a. PICK x \in ConnType : \E w :
        /\ Put(c, x) /\ x.held = y.held /\ x.refs = y.refs /\ x.recv = "armed" /\ x.closed = y.closed
        /\ (x.co = "parked" <=> y.co = "parked")
        /\ (x.co = "ready" <=> y.co = "ready") /\ (x.co = "none" <=> y.co = "none")
        /\ Quiet(w) /\ sq' = sq \o w
        /\ \/ x.rx = y.rx /\ Return({Head(cq).b})
           \/ x.rx = Append(y.rx, Head(cq).b) /\ UNCHANGED bufVars /\ ~y.closed
  <2>1. CASE Put(c, s) /\ Return({Head(cq).b}) /\ UNCHANGED sq
    BY <1>2, <2>1
  <2>2. CASE /\ Put(c, Wake([IF more THEN Cancel(s) ELSE s EXCEPT !.eof = TRUE]))
             /\ sq' = IF more THEN sq \o CancelSqe(c, s) ELSE sq
             /\ Return({Head(cq).b})
    <3> DEFINE v == IF more THEN Cancel(s) ELSE s
               z == [v EXCEPT !.eof = TRUE]
               x == Wake(z)
               w == IF more THEN CancelSqe(c, s) ELSE n
    <3>1. /\ v \in ConnType /\ v.recv = "armed" /\ v.refs = s.refs /\ v.co = s.co
          /\ v.rx = s.rx /\ v.held = s.held /\ v.closed = s.closed
      BY <1>2 DEF ConnType, Cancel
    <3>2. Put(c, x)
      BY <2>2
    <3> HIDE DEF v
    <3>3. /\ z \in ConnType /\ z.recv = "armed" /\ z.refs = s.refs /\ z.co = s.co
          /\ z.rx = s.rx /\ z.held = s.held /\ z.closed = s.closed
      BY <3>1 DEF ConnType
    <3> HIDE DEF z
    <3>4. /\ x \in ConnType /\ x.recv = z.recv /\ x.refs = z.refs /\ x.rx = z.rx /\ x.held = z.held
          /\ x.closed = z.closed
          /\ (x.co = "none" <=> z.co = "none") /\ (x.co = "parked" <=> z.co = "parked")
          /\ (x.co = "ready" <=> z.co = "ready")
      BY <3>3, WakeOk
    <3>5. Quiet(w) /\ sq' = sq \o w
      BY <1>2, <2>2, QuietCancel
    <3> HIDE DEF x, w
    <3> QED BY <1>2, <2>2, <3>2, <3>3, <3>4, <3>5, ZenonT(40)
  <2>3. CASE /\ ~s.closed /\ Put(c, Wake([s EXCEPT !.rx = Append(@, Head(cq).b)]))
             /\ UNCHANGED <<sq, bufVars>>
    <3> DEFINE r == Append(s.rx, Head(cq).b)
               z == [s EXCEPT !.rx = r]
               x == Wake(z)
    <3>1. r \in Seq(Buffers)
      <4>1. s.rx \in Seq(Buffers)
        BY <1>2 DEF ConnType
      <4> QED BY <1>3, <4>1, AppendProperties
    <3>2. Put(c, x)
      BY <1>2, <2>3 DEF ConnType
    <3>3. r = Append(y.rx, Head(cq).b)
      BY <1>2
    <3> HIDE DEF r
    <3>4. /\ z \in ConnType /\ z.recv = "armed" /\ z.refs = s.refs /\ z.co = s.co
          /\ z.rx = r /\ z.held = s.held /\ z.closed = s.closed
      BY <1>2, <3>1 DEF ConnType
    <3> HIDE DEF z
    <3>5. /\ x \in ConnType /\ x.recv = z.recv /\ x.refs = z.refs /\ x.rx = z.rx /\ x.held = z.held
          /\ x.closed = z.closed
          /\ (x.co = "none" <=> z.co = "none") /\ (x.co = "parked" <=> z.co = "parked")
          /\ (x.co = "ready" <=> z.co = "ready")
      BY <3>4, WakeOk
    <3> HIDE DEF x
    <3> QED BY <1>2, <2>3, <3>2, <3>3, <3>4, <3>5
  <2> QED BY <1>0, <2>1, <2>2, <2>3 DEF OnData, s
<1>6. PICK w :
        /\ Put(c, x) /\ x.held = y.held /\ x.refs = y.refs /\ x.recv = "armed" /\ x.closed = y.closed
        /\ (x.co = "parked" <=> y.co = "parked")
        /\ (x.co = "ready" <=> y.co = "ready") /\ (x.co = "none" <=> y.co = "none")
        /\ Quiet(w) /\ sq' = sq \o w
        /\ \/ x.rx = y.rx /\ Return({Head(cq).b})
           \/ x.rx = Append(y.rx, Head(cq).b) /\ UNCHANGED bufVars /\ ~y.closed
  BY <1>6a
<1>7. conn'[c] = x /\ \A d \in Conns : d # c => conn'[d] = conn[d]
  BY <1>2, <1>6, PutOk
<1>8. /\ returned' \in Nat /\ staged' \subseteq Buffers /\ kfree' \subseteq Buffers
      /\ \A b \in cfg.buffers : BufferOk(b)'
  <2>1. CASE x.rx = y.rx /\ Return({Head(cq).b})
    <3>1. {Head(cq).b} \in SUBSET Buffers
      BY <1>3
    <3>2. /\ staged' = staged \cup {Head(cq).b} /\ kfree' = kfree /\ returned' \in Nat
          /\ staged' \subseteq Buffers /\ kfree' \subseteq Buffers
      BY <1>2, <2>1, <3>1, Returned
    <3>3. \A b \in cfg.buffers : BufferOk(b)'
      BY <1>2, <1>4, <1>6, <1>7, <2>1, <3>2, BufBack
    <3> QED BY <3>2, <3>3
  <2>2. CASE x.rx = Append(y.rx, Head(cq).b) /\ UNCHANGED bufVars
    <3>1. UNCHANGED <<returned, staged, kfree>>
      BY <2>2 DEF bufVars
    <3>2. \A b \in cfg.buffers : BufferOk(b)'
      BY <1>2, <1>3, <1>4, <1>6, <1>7, <2>2, <3>1, BufQueued
    <3> QED BY <1>2, <3>1, <3>2
  <2> QED BY <1>6, <2>1, <2>2
<1>9. /\ starved' \in Seq(Conns) /\ Count(starved', {c}) = One(x.recv = "starved")
      /\ \A d \in Conns : d # c => Count(starved', {d}) = Count(starved, {d})
  BY <1>2, <1>4, <1>6 DEF One
<1>10. /\ frame' \in FrameType /\ frame'.c \in {c, None}
       /\ (Frame(c, "last")' <=> ~more)
       /\ x.refs = One(x.co # "none") + One(x.recv # "done") + One(Frame(c, "unref")')
  <2>1. frame'.c = c /\ frame'.k = (IF more THEN "more" ELSE "last") /\ frame' \in FrameType
    BY <1>2, <1>3, <1>5
  <2>2. (Frame(c, "last")' <=> ~more) /\ ~Frame(c, "unref")'
    BY <1>3, <2>1 DEF Frame
  <2> QED BY <1>2, <1>6, <2>1, <2>2 DEF One
<1>11. x.co = "none" => /\ x.rx = <<>> /\ x.held = {}
                        /\ x.recv # "done" => x.closed
  BY <1>2, <1>6
<1>13. /\ LoopAt("batch") /\ batch > 0 /\ cq' = Tail(cq) /\ batch' = batch - 1
       /\ Head(cq).t = "recv" /\ Head(cq).c = c /\ c \in Conns /\ conn[c].refs > 0
  BY <1>2
<1> HIDE DEF Arriving
<1> QED BY <1>3, <1>4, <1>6, <1>8, <1>9, <1>10, <1>11, <1>13, RecvStep

\* dispatch, TAG_OP
LEMMA OnOpInv ==
    ASSUME Inv, OnOp, cfg' = cfg
    PROVE  Inv'
<1>0. PICK c : c = Head(cq).c
  OBVIOUS
<1> DEFINE y == conn[c]
           x == [y EXCEPT !.co = "run"]
           w == <<>>
<1>1. /\ LoopAt("batch") /\ batch > 0 /\ cq' = Tail(cq) /\ batch' = batch - 1
      /\ Head(cq).t = "op" /\ Put(c, x) /\ frame = NoFrame
  BY <1>0 DEF OnOp, Taking, LoopAt
<1>2. /\ UNCHANGED <<frame, ready, starved, krecv, kop, kaccept, listener, draining, cfg>>
      /\ UNCHANGED <<sq, returned, staged, kfree>>
  BY DEF OnOp, loopVars, bufVars, kVars
<1>3. Head(cq) \in CqeType /\ c \in Conns
  BY <1>0, <1>1, TakenHead
<1>4. /\ TypeOK /\ LiveOk /\ ConnOk(c) /\ y \in ConnType
      /\ RecvsInSq(c) \in Nat /\ OpsInSq(c) \in Nat
      /\ sq = sq \o w /\ Quiet(w)
  BY <1>3, ConnFields, Nats, QuietNone
<1>5. /\ ~Frame(c, "last") /\ ~Frame(c, "unref")
      /\ EndsInCq(c) \in Nat /\ EndsInCq(c)' \in Nat
      /\ DonesInCq(c) \in Nat /\ DonesInCq(c)' \in Nat
      /\ EndsInCq(c) = One(Head(cq) \in RecvEnds(c)) + EndsInCq(c)'
      /\ DonesInCq(c) = One(Head(cq) \in OpDones(c)) + DonesInCq(c)'
  BY <1>1, <1>3, TakenHead
<1>6. Head(cq).b = None /\ Head(cq) \notin RecvEnds(c) /\ Head(cq) \in OpDones(c)
  BY <1>0, <1>1, <1>3 DEF CqeType, RecvEnds, OpDones
<1>7. EndsInCq(c)' = EndsInCq(c) /\ DonesInCq(c) = 1 + DonesInCq(c)'
  BY <1>5, <1>6 DEF One
<1>8. y.co = "parked" /\ OpsInSq(c) = 0 /\ c \notin kop /\ DonesInCq(c)' = 0
  BY <1>4, <1>5, <1>7 DEF ConnOk, OpOk
<1>9. /\ x \in ConnType /\ x.co = "run" /\ x.recv = y.recv /\ x.refs = y.refs
      /\ x.rx = y.rx /\ x.held = y.held
  BY <1>4 DEF ConnType
<1> HIDE DEF x, w
<1>10. y.refs > 0
  BY <1>4, <1>8 DEF ConnOk, RefsOk, One
<1>11. conn'[c] = x /\ \A d \in Conns : d # c => conn'[d] = conn[d]
  BY <1>1, <1>3, <1>4, <1>9, <1>10, PutOk
<1>12. ConnOk(c)'
  <2>1. /\ RecvsInSq(c)' = RecvsInSq(c) /\ OpsInSq(c)' = OpsInSq(c)
        /\ (Frame(c, "last")' <=> Frame(c, "last")) /\ (Frame(c, "unref")' <=> Frame(c, "unref"))
    BY <1>2 DEF RecvsInSq, OpsInSq, Frame
  <2>2. RecvOk(c)'
    BY <1>2, <1>4, <1>7, <1>9, <1>11, <2>1 DEF ConnOk, RecvOk
  <2>3. OpOk(c)'
    BY <1>2, <1>8, <1>9, <1>11, <2>1 DEF OpOk
  <2>4. ListOk(c)'
    BY <1>2, <1>4, <1>8, <1>9, <1>11 DEF ConnOk, ListOk, One
  <2>5. RefsOk(c)' /\ GoneOk(c)'
    BY <1>4, <1>8, <1>9, <1>11, <2>1 DEF ConnOk, RefsOk, GoneOk, One
  <2> QED BY <2>2, <2>3, <2>4, <2>5 DEF ConnOk
<1>13. \A b \in cfg.buffers : BufferOk(b)'
  BY <1>1, <1>2, <1>3, <1>6, <1>9, <1>11, BufUnnamed
<1>14. /\ frame' \in FrameType /\ frame'.c \in {c, None} /\ starved' \in Seq(Conns)
       /\ returned' \in Nat /\ staged' \subseteq Buffers /\ kfree' \subseteq Buffers
  BY <1>1, <1>2, <1>4 DEF TypeOK, NoFrame
<1>15. sq' = sq \o w
  BY <1>2, <1>4
<1> QED BY <1>0, <1>1, <1>2, <1>3, <1>4, <1>9, <1>10, <1>12, <1>13, <1>14, <1>15, TakeStep

\* A CQE that is no connection's is dispatched, and w is staged.
LEMMA OtherTaken ==
    ASSUME Inv, LoopAt("batch"), batch > 0, cq' = Tail(cq), batch' = batch - 1,
           Head(cq).t \in {"drain", "accept"},
           UNCHANGED <<conn, frame, live, ready, starved, returned, staged, kfree, krecv, kop, cfg>>,
           NEW w \in Seq(SqeType), sq' = sq \o w,
           \A d \in Conns : Count(w, {Sqe("recv", d)}) = 0 /\ Count(w, {Sqe("op", d)}) = 0,
           listener' \in [stalled : BOOLEAN, at : Nat], AcceptOk'
    PROVE  Inv'
<1>1. TypeOK /\ LiveOk /\ EndFollows /\ \A d \in Conns : ConnOk(d)
  BY DEF Inv
<1>2. /\ Head(cq) \in CqeType
      /\ cq' \in Seq(CqeType) /\ batch' \in Nat /\ batch' <= Len(cq')
  BY TakenHead
<1>3. sq' \in Seq(SqeType)
  BY <1>1, Staged
<1>4. TypeOK'
  BY <1>1, <1>2, <1>3 DEF TypeOK
<1>5. ASSUME NEW d \in Conns PROVE ConnOk(d)'
  <2>1. RecvsInSq(d)' = RecvsInSq(d) /\ OpsInSq(d)' = OpsInSq(d)
    <3>1. RecvsInSq(d) \in Nat /\ OpsInSq(d) \in Nat
      BY <1>1, Nats
    <3>2. Count(w, {Sqe("recv", d)}) = 0 /\ Count(w, {Sqe("op", d)}) = 0
      OBVIOUS
    <3>3. /\ RecvsInSq(d)' = RecvsInSq(d) + Count(w, {Sqe("recv", d)})
          /\ OpsInSq(d)' = OpsInSq(d) + Count(w, {Sqe("op", d)})
      BY <1>1, Staged
    <3> QED BY <3>1, <3>2, <3>3
  <2>2. EndsInCq(d)' = EndsInCq(d) /\ DonesInCq(d)' = DonesInCq(d)
    <3>1. Head(cq) \notin RecvEnds(d) /\ Head(cq) \notin OpDones(d)
      BY DEF RecvEnds, OpDones
    <3>2. /\ EndsInCq(d)' \in Nat /\ DonesInCq(d)' \in Nat
          /\ EndsInCq(d) = One(Head(cq) \in RecvEnds(d)) + EndsInCq(d)'
          /\ DonesInCq(d) = One(Head(cq) \in OpDones(d)) + DonesInCq(d)'
      BY TakenHead
    <3> QED BY <3>1, <3>2 DEF One
  <2>3. Same(d)
    BY <2>1, <2>2 DEF Same, Frame
  <2> QED BY <1>1, <2>3, SameOk
<1>6. EndFollows'
  BY <1>1, EndTaken
<1>7. LiveOk'
  BY <1>1 DEF LiveOk, Open
<1>8. ASSUME NEW b \in cfg.buffers PROVE BufferOk(b)'
  <2>1. b \in Buffers
    BY <1>1, WorkerAssumption DEF TypeOK, Setup
  <2>2. Head(cq).b # b
    BY <1>2, <2>1, NoneOut DEF CqeType
  <2>3. /\ Count(cq, Bearing(b)) = One(Head(cq).b = b) + Count(cq', Bearing(b))
        /\ Count(cq', Bearing(b)) \in Nat
    BY TakenHead
  <2>4. Count(cq', Bearing(b)) = Count(cq, Bearing(b))
    BY <2>2, <2>3 DEF One
  <2>5. InRings(b)' = InRings(b)
    BY <2>4 DEF InRings, Bearing
  <2>6. \A d \in Conns : With(b, d)' = With(b, d)
    BY DEF With
  <2> QED BY <2>5, <2>6, BufRings DEF Inv
<1> QED BY <1>4, <1>5, <1>6, <1>7, <1>8 DEF Inv

\* dispatch, TAG_DRAIN
LEMMA OnDrainInv ==
    ASSUME Inv, OnDrain, cfg' = cfg
    PROVE  Inv'
<1> DEFINE w == <<>>
<1>1. /\ LoopAt("batch") /\ batch > 0 /\ cq' = Tail(cq) /\ batch' = batch - 1
      /\ Head(cq).t = "drain"
  BY DEF OnDrain, Taking
<1>2. /\ UNCHANGED <<conn, frame, live, ready, starved, returned, staged, kfree, krecv, kop, cfg>>
      /\ UNCHANGED <<sq, listener, draining, kaccept>>
  BY DEF OnDrain, bufVars, kVars
<1>3. TypeOK /\ AcceptOk /\ sq \in Seq(SqeType) /\ listener' \in [stalled : BOOLEAN, at : Nat]
  BY <1>2 DEF Inv, TypeOK
<1>4. sq' = sq \o w /\ w \in Seq(SqeType) /\ \A S : Count(w, S) = 0
  BY <1>2, <1>3, ConcatEmptySeq, CountNone
<1> HIDE DEF w
<1>5. Count(cq', AcceptLast) = Count(cq, AcceptLast)
  <2>1. Head(cq) \notin AcceptLast
    BY <1>1 DEF AcceptLast
  <2> QED BY <1>1, <2>1, TakenHead DEF One
<1>6. AcceptOk'
  BY <1>2, <1>3, <1>5, AcceptSame
<1> QED BY <1>1, <1>2, <1>3, <1>4, <1>6, OtherTaken

\* What arm_accept stages behind v.
LEMMA ArmStaged ==
    ASSUME TypeOK, NEW v \in Seq(SqeType), NEW s, s = sq \o v,
           sq' = s \/ sq' = Append(s, Sqe("accept", None))
    PROVE  \E w \in Seq(SqeType) :
              /\ sq' = sq \o w
              /\ \A d \in Conns : /\ Count(w, {Sqe("recv", d)}) = Count(v, {Sqe("recv", d)})
                                  /\ Count(w, {Sqe("op", d)}) = Count(v, {Sqe("op", d)})
<1> DEFINE a == Sqe("accept", None)
           w == v \o <<a>>
<1>1. a \in SqeType /\ <<a>> \in Seq(SqeType) /\ sq \in Seq(SqeType)
  BY DEF SqeType, Sqe, TypeOK
<1>2. CASE sq' = s
  BY <1>2
<1>3. CASE sq' = Append(s, a)
  <2> DEFINE e == <<a>>
  <2>0. Append(s, a) = s \o e
    <3>1. s \in Seq(SqeType)
      BY <1>1, ConcatProperties
    <3> HIDE DEF a
    <3> QED BY <1>1, <3>1, AppendIsConcat
  <2> HIDE DEF e
  <2>1. e \in Seq(SqeType) /\ w = v \o e
    BY <1>1 DEF e
  <2>2. sq' = sq \o w
    <3>1. (sq \o v) \o e = sq \o (v \o e)
      BY <1>1, <2>1, ConcatAssociative
    <3>2. sq' = (sq \o v) \o e
      BY <1>3, <2>0
    <3> QED BY <2>1, <3>1, <3>2
  <2>3. \A S : Count(e, S) = One(a \in S)
    BY <1>1, CountOne DEF e
  <2>4. w \in Seq(SqeType) /\ \A S : Count(w, S) = Count(v, S) + Count(e, S) /\ Count(v, S) \in Nat
    <3>1. \A S : v \o e \in Seq(SqeType) /\ Count(v \o e, S) = Count(v, S) + Count(e, S)
      BY <2>1, CountCat
    <3>2. \A S : Count(v, S) \in Nat
      BY CountNat
    <3> QED BY <2>1, <3>1, <3>2
  <2>5. ASSUME NEW d \in Conns
        PROVE  /\ Count(w, {Sqe("recv", d)}) = Count(v, {Sqe("recv", d)})
               /\ Count(w, {Sqe("op", d)}) = Count(v, {Sqe("op", d)})
    <3>1. a \notin {Sqe("recv", d)} /\ a \notin {Sqe("op", d)}
      BY SqeFields
    <3>2. Count(e, {Sqe("recv", d)}) = 0 /\ Count(e, {Sqe("op", d)}) = 0
      BY <2>3, <3>1 DEF One
    <3> QED BY <2>4, <3>2
  <2> HIDE DEF w
  <2> QED BY <2>2, <2>4, <2>5
<1> QED BY <1>2, <1>3

\* arm_accept of a listener that has none under way.
LEMMA AcceptArmed ==
    ASSUME TypeOK, AcceptOk, NEW v, NoAccept(v), NEW n \in Nat, ArmAccept(n, sq \o v),
           kaccept' = kaccept, draining' = draining,
           ~draining => Count(sq, Accepts) = 0 /\ ~kaccept /\ Count(cq', AcceptLast) = 0
    PROVE  /\ AcceptOk' /\ listener' \in [stalled : BOOLEAN, at : Nat]
           /\ sq' = sq \o v \/ sq' = Append(sq \o v, Sqe("accept", None))
<1>0. TypeOK /\ v \in Seq(SqeType) /\ listener \in [stalled : BOOLEAN, at : Nat]
  BY DEF NoAccept, TypeOK
<1>1. \/ AcceptRoom(n) /\ listener' = [listener EXCEPT !.stalled = FALSE]
         /\ sq' = Append(sq \o v, Sqe("accept", None))
      \/ ~AcceptRoom(n) /\ listener' = [stalled |-> TRUE, at |-> n] /\ sq' = sq \o v
  BY DEF ArmAccept
<1>2. listener' \in [stalled : BOOLEAN, at : Nat]
  <2>1. [listener EXCEPT !.stalled = FALSE] \in [stalled : BOOLEAN, at : Nat]
    BY <1>0
  <2>2. [stalled |-> TRUE, at |-> n] \in [stalled : BOOLEAN, at : Nat]
    OBVIOUS
  <2> QED BY <1>1, <2>1, <2>2
<1>3. CASE draining
  <2>1. sq' = sq \o v
    BY <1>1, <1>3 DEF AcceptRoom
  <2>2. AcceptOk'
    BY <1>0, <1>3, <2>1, AcceptStaged
  <2> QED BY <1>2, <2>1, <2>2
<1>4. CASE ~draining
  <2> DEFINE s == sq \o v
             a == Sqe("accept", None)
  <2>1. /\ s \in Seq(SqeType) /\ Count(s, Accepts) = Count(sq, Accepts) + Count(v, Accepts)
    <3>1. sq \in Seq(SqeType) /\ v \in Seq(SqeType)
      BY <1>0 DEF TypeOK
    <3> QED BY <3>1, CountCat
  <2>2. \A i \in 1..Len(s) : s[i].op # "blanket"
    <3>1. \A i \in 1..Len(sq) : sq[i].op # "blanket"
      BY <1>4 DEF AcceptOk
    <3>2. \A i \in 1..Len(v) : v[i].op # "blanket"
      BY DEF NoAccept
    <3>3. /\ Len(s) = Len(sq) + Len(v) /\ Len(sq) \in Nat /\ Len(v) \in Nat
          /\ \A i \in 1..Len(s) : s[i] = IF i <= Len(sq) THEN sq[i] ELSE v[i - Len(sq)]
      <4>1. sq \in Seq(SqeType) /\ v \in Seq(SqeType)
        BY <1>0 DEF TypeOK
      <4> QED BY <4>1, ConcatProperties, LenProperties
    <3> HIDE DEF s
    <3> SUFFICES ASSUME NEW i \in 1..Len(s) PROVE s[i].op # "blanket"
      OBVIOUS
    <3>4. CASE i <= Len(sq)
      BY <3>1, <3>3, <3>4
    <3>5. CASE ~ (i <= Len(sq))
      <4>1. i - Len(sq) \in 1..Len(v) /\ s[i] = v[i - Len(sq)]
        BY <3>3, <3>5
      <4> QED BY <3>2, <4>1
    <3> QED BY <3>4, <3>5
  <2>3. Count(v, Accepts) = 0
    <3>1. \A i \in 1..Len(v) : v[i] \notin Accepts
      BY SqeFields DEF NoAccept, Accepts
    <3> QED BY <1>0, <3>1, CountZero
  <2>4. Count(s, Accepts) = 0
    BY <1>4, <2>1, <2>3
  <2>5. CASE ~AcceptRoom(n)
    <3>1. sq' = s /\ listener'.stalled
      BY <1>1, <2>5
    <3> HIDE DEF s
    <3>2. Count(sq', Accepts) + One(kaccept') + Count(cq', AcceptLast) = One(~listener'.stalled)
      BY <1>4, <2>4, <3>1 DEF One
    <3>3. \A i \in 1..Len(sq') : sq'[i].op # "blanket"
      BY <2>2, <3>1
    <3>4. AcceptOk'
      BY <1>4, <3>2, <3>3 DEF AcceptOk, Accepts, AcceptLast
    <3> QED BY <1>2, <3>1, <3>4 DEF s
  <2>6. CASE AcceptRoom(n)
    <3>1. sq' = Append(s, a) /\ ~listener'.stalled
      BY <1>0, <1>1, <2>6
    <3>2. a \in SqeType /\ a \in Accepts /\ a.op = "accept"
      BY DEF SqeType, Sqe, Accepts
    <3> HIDE DEF s, a
    <3>3. Count(Append(s, a), Accepts) = Count(s, Accepts) + One(a \in Accepts)
      BY <2>1, <3>2, CountAppend
    <3>4. Count(sq', Accepts) = 1
      BY <2>4, <3>1, <3>2, <3>3 DEF One
    <3>5. Count(sq', Accepts) + One(kaccept') + Count(cq', AcceptLast) = One(~listener'.stalled)
      BY <1>4, <3>1, <3>4 DEF One
    <3>6. \A i \in 1..Len(sq') : sq'[i].op # "blanket"
      <4>1. Len(s) \in Nat /\ Len(Append(s, a)) = Len(s) + 1
            /\ Append(s, a)[Len(s) + 1] = a
            /\ \A i \in 1..Len(s) : Append(s, a)[i] = s[i]
        BY <2>1, <3>2, AppendProperties, LenProperties
      <4> SUFFICES ASSUME NEW i \in 1..Len(sq') PROVE sq'[i].op # "blanket"
        OBVIOUS
      <4>2. i \in 1..Len(s) \/ i = Len(s) + 1
        BY <3>1, <4>1
      <4> QED BY <2>2, <3>1, <3>2, <4>1, <4>2
    <3>7. AcceptOk'
      BY <1>4, <3>5, <3>6 DEF AcceptOk, Accepts, AcceptLast
    <3> QED BY <1>2, <3>1, <3>7 DEF s, a
  <2> QED BY <2>5, <2>6
<1> QED BY <1>3, <1>4

\* The end of on_accept.
LEMMA AcceptEndOk ==
    ASSUME Inv, LoopAt("batch"), batch > 0, cq' = Tail(cq), batch' = batch - 1,
           Head(cq).t = "accept", NEW n \in Nat, NEW v, NoAccept(v), AcceptEnd(n, sq \o v),
           kaccept' = kaccept, draining' = draining
    PROVE  /\ AcceptOk' /\ listener' \in [stalled : BOOLEAN, at : Nat]
           /\ sq' = sq \o v \/ sq' = Append(sq \o v, Sqe("accept", None))
<1>1. /\ TypeOK /\ AcceptOk /\ listener \in [stalled : BOOLEAN, at : Nat]
      /\ Count(sq, Accepts) \in Nat
  BY CountNat DEF Inv, TypeOK
<1>2. /\ Head(cq) \in CqeType
      /\ Count(cq, AcceptLast) = One(Head(cq) \in AcceptLast) + Count(cq', AcceptLast)
      /\ Count(cq, AcceptLast) \in Nat /\ Count(cq', AcceptLast) \in Nat
  BY TakenHead
<1>3. Head(cq) \in AcceptLast <=> ~Head(cq).more
  BY <1>2 DEF AcceptLast
<1>4. CASE Head(cq).more /\ sq' = sq \o v /\ UNCHANGED listener
  <2>1. Count(cq', AcceptLast) = Count(cq, AcceptLast)
    BY <1>2, <1>3, <1>4 DEF One
  <2>2. AcceptOk'
    BY <1>1, <1>4, <2>1, AcceptStaged
  <2> QED BY <1>1, <1>4, <2>2
<1>5. ~draining /\ ~Head(cq).more => Count(sq, Accepts) = 0 /\ ~kaccept /\ Count(cq', AcceptLast) = 0
  <2> SUFFICES ASSUME ~draining, ~Head(cq).more
               PROVE  Count(sq, Accepts) = 0 /\ ~kaccept /\ Count(cq', AcceptLast) = 0
    OBVIOUS
  <2>1. Count(sq, Accepts) + One(kaccept) + Count(cq, AcceptLast) = One(~listener.stalled)
    BY <1>1 DEF AcceptOk
  <2>2. Count(cq, AcceptLast) = 1 + Count(cq', AcceptLast)
    BY <1>2, <1>3 DEF One
  <2> QED BY <1>1, <1>2, <2>1, <2>2 DEF One
<1>6. CASE ~Head(cq).more /\ ArmAccept(n, sq \o v)
  BY <1>1, <1>5, <1>6, AcceptArmed
<1>7. CASE ~Head(cq).more /\ listener' = [stalled |-> TRUE, at |-> n] /\ sq' = sq \o v
  <2>1. listener' \in [stalled : BOOLEAN, at : Nat] /\ listener'.stalled
    BY <1>7
  <2>2. CASE draining
    BY <1>1, <1>7, <2>1, <2>2, AcceptStaged
  <2>3. CASE ~draining
    <3>1. sq \in Seq(SqeType) /\ v \in Seq(SqeType)
      BY <1>1 DEF TypeOK, NoAccept
    <3>2. Count(sq', Accepts) = Count(sq, Accepts) + Count(v, Accepts)
      BY <1>7, <3>1, CountCat
    <3>3. Count(v, Accepts) = 0
      <4>1. \A i \in 1..Len(v) : v[i] \notin Accepts
        BY SqeFields DEF NoAccept, Accepts
      <4> QED BY <3>1, <4>1, CountZero
    <3>4. Count(sq', Accepts) + One(kaccept') + Count(cq', AcceptLast) = One(~listener'.stalled)
      BY <1>5, <1>7, <2>1, <2>3, <3>2, <3>3 DEF One
    <3>5. \A i \in 1..Len(sq') : sq'[i].op # "blanket"
      <4>1. \A i \in 1..Len(sq) : sq[i].op # "blanket"
        BY <1>1, <2>3 DEF AcceptOk
      <4>2. \A i \in 1..Len(v) : v[i].op # "blanket"
        BY DEF NoAccept
      <4>3. /\ Len(sq') = Len(sq) + Len(v) /\ Len(sq) \in Nat /\ Len(v) \in Nat
            /\ \A i \in 1..Len(sq') : sq'[i] = IF i <= Len(sq) THEN sq[i] ELSE v[i - Len(sq)]
        BY <1>1, <1>7, <3>1, Staged
      <4> SUFFICES ASSUME NEW i \in 1..Len(sq') PROVE sq'[i].op # "blanket"
        OBVIOUS
      <4>4. CASE i <= Len(sq)
        BY <4>1, <4>3, <4>4
      <4>5. CASE ~ (i <= Len(sq))
        <5>1. i - Len(sq) \in 1..Len(v) /\ sq'[i] = v[i - Len(sq)]
          BY <4>3, <4>5
        <5> QED BY <4>2, <5>1
      <4> QED BY <4>4, <4>5
    <3>6. AcceptOk'
      BY <2>3, <3>4, <3>5 DEF AcceptOk, Accepts, AcceptLast
    <3> QED BY <1>7, <2>1, <3>6
  <2> QED BY <2>2, <2>3
<1> QED BY <1>4, <1>6, <1>7 DEF AcceptEnd

\* on_accept that opens no connection.
LEMMA AcceptOther ==
    ASSUME Inv, LoopAt("batch"), batch > 0, cq' = Tail(cq), batch' = batch - 1,
           Head(cq).t = "accept", NEW v, Quiet(v), AcceptEnd(live, sq \o v),
           UNCHANGED <<conn, frame, live, ready, starved, returned, staged, kfree, krecv, kop, cfg>>,
           UNCHANGED <<kaccept, draining>>
    PROVE  Inv'
<1>1. TypeOK /\ live \in Nat /\ NoAccept(v) /\ v \in Seq(SqeType)
  BY QuietNoAccept DEF Inv, TypeOK, Quiet
<1>2. /\ AcceptOk' /\ listener' \in [stalled : BOOLEAN, at : Nat]
      /\ sq' = sq \o v \/ sq' = Append(sq \o v, Sqe("accept", None))
  BY <1>1, AcceptEndOk
<1>3. PICK w \in Seq(SqeType) :
        /\ sq' = sq \o w
        /\ \A d \in Conns : /\ Count(w, {Sqe("recv", d)}) = Count(v, {Sqe("recv", d)})
                            /\ Count(w, {Sqe("op", d)}) = Count(v, {Sqe("op", d)})
  BY <1>1, <1>2, ArmStaged
<1>4. \A d \in Conns : Count(w, {Sqe("recv", d)}) = 0 /\ Count(w, {Sqe("op", d)}) = 0
  BY <1>3, QuietStaged
<1> QED BY <1>2, <1>3, <1>4, OtherTaken

\* on_accept of a socket while draining.
LEMMA OnAcceptLateInv ==
    ASSUME Inv, OnAcceptLate, cfg' = cfg
    PROVE  Inv'
<1> DEFINE v == <<Sqe("close", None)>>
<1>1. /\ LoopAt("batch") /\ batch > 0 /\ cq' = Tail(cq) /\ batch' = batch - 1
      /\ Head(cq).t = "accept"
  BY DEF OnAcceptLate, Taking
<1>2. /\ UNCHANGED <<conn, frame, live, ready, starved, returned, staged, kfree, krecv, kop, cfg>>
      /\ UNCHANGED <<kaccept, draining>>
  BY DEF OnAcceptLate, bufVars, kVars, loopVars
<1>3. TypeOK /\ Sqe("close", None) \in SqeType /\ Quiet(v)
  BY QuietOne DEF Inv, Sqe, SqeType
<1>4. Append(sq, Sqe("close", None)) = sq \o v
  BY <1>3, AppendCat
<1>5. AcceptEnd(live, sq \o v)
  BY <1>4 DEF OnAcceptLate
<1> HIDE DEF v
<1> QED BY <1>1, <1>2, <1>3, <1>5, AcceptOther

\* on_accept of an error.
LEMMA OnAcceptErrorInv ==
    ASSUME Inv, OnAcceptError, cfg' = cfg
    PROVE  Inv'
<1> DEFINE v == <<>>
<1>1. /\ LoopAt("batch") /\ batch > 0 /\ cq' = Tail(cq) /\ batch' = batch - 1
      /\ Head(cq).t = "accept"
  BY DEF OnAcceptError, Taking
<1>2. /\ UNCHANGED <<conn, frame, live, ready, starved, returned, staged, kfree, krecv, kop, cfg>>
      /\ UNCHANGED <<kaccept, draining>>
  BY DEF OnAcceptError, bufVars, kVars, loopVars
<1>3. sq = sq \o v /\ Quiet(v)
  BY ConcatEmptySeq, QuietNone DEF Inv, TypeOK
<1>4. AcceptEnd(live, sq)
  BY DEF OnAcceptError
<1> HIDE DEF v
<1>5. AcceptEnd(live, sq \o v)
  BY <1>3, <1>4
<1> QED BY <1>1, <1>2, <1>3, <1>5, AcceptOther

\* A conn_t out of use is nowhere.
LEMMA Unused ==
    ASSUME Inv, NEW c \in Conns, c \notin Open
    PROVE  /\ conn[c].co = "none" /\ conn[c].recv = "done" /\ conn[c].rx = <<>> /\ conn[c].held = {}
           /\ RecvsInSq(c) = 0 /\ OpsInSq(c) = 0 /\ EndsInCq(c) = 0 /\ DonesInCq(c) = 0
           /\ c \notin krecv /\ c \notin kop /\ ~Frame(c, "last") /\ ~Frame(c, "unref")
           /\ Count(ready, {c}) = 0 /\ Count(starved, {c}) = 0
<1>1. ConnOk(c) /\ conn[c].refs \in Nat /\ ~(conn[c].refs > 0)
  BY DEF Inv, TypeOK, Open, ConnType
<1>2. conn[c].co = "none" /\ conn[c].recv = "done" /\ ~Frame(c, "unref")
  BY <1>1 DEF ConnOk, RefsOk, One
<1>3. /\ RecvsInSq(c) = 0 /\ c \notin krecv /\ EndsInCq(c) = 0 /\ ~Frame(c, "last")
  BY <1>1, <1>2 DEF ConnOk, RecvOk
<1>4. OpsInSq(c) = 0 /\ DonesInCq(c) = 0 /\ c \notin kop
  BY <1>1, <1>2 DEF ConnOk, OpOk
<1>5. Count(ready, {c}) = 0 /\ Count(starved, {c}) = 0
  BY <1>1, <1>2 DEF ConnOk, ListOk, One
<1>6. conn[c].rx = <<>> /\ conn[c].held = {}
  BY <1>1, <1>2 DEF ConnOk, GoneOk
<1> QED BY <1>2, <1>3, <1>4, <1>5, <1>6

\* on_accept of a socket: the conn_t it takes is nowhere in the rings.
LEMMA OnAcceptInv ==
    ASSUME Inv, OnAccept, cfg' = cfg
    PROVE  Inv'
<1>1. /\ LoopAt("batch") /\ batch > 0 /\ cq' = Tail(cq) /\ batch' = batch - 1
      /\ Head(cq).t = "accept"
  BY DEF OnAccept, Taking
<1>2. UNCHANGED <<frame, starved, returned, staged, kfree, krecv, kop, kaccept, draining, cfg>>
  BY DEF OnAccept, bufVars, kVars, loopVars
<1> DEFINE x == [Fresh EXCEPT !.refs = 2, !.recv = "armed", !.co = "ready",
                              !.phase = IF cfg.tls THEN "hs" ELSE "serve"]
<1>3. PICK c \in cfg.conns \ Open :
        /\ conn' = [conn EXCEPT ![c] = x]
        /\ ready' = Append(ready, c) /\ live' = live + 1
        /\ AcceptEnd(live + 1, Append(sq, Sqe("recv", c)))
  BY DEF OnAccept
<1>4. /\ TypeOK /\ LiveOk /\ EndFollows /\ AcceptOk /\ c \in Conns /\ c \notin Open
      /\ conn \in [Conns -> ConnType] /\ ready \in Seq(Conns) /\ live \in Nat
  BY <1>3, WorkerAssumption DEF Inv, TypeOK, Setup
<1>5. /\ x \in ConnType /\ x.refs = 2 /\ x.recv = "armed" /\ x.co = "ready"
      /\ x.rx = <<>> /\ x.held = {}
  <2> DEFINE n == <<>>
             z == {}
             p == IF cfg.tls THEN "hs" ELSE "serve"
  <2>1. n \in Seq(Buffers) /\ z \in SUBSET Buffers /\ p \in {"serve", "hs", "fail"}
    BY EmptySeq
  <2>2. Fresh = [refs |-> 0, recv |-> "done", pausing |-> FALSE, cancelling |-> FALSE,
                 closed |-> FALSE, eof |-> FALSE, rx |-> n, held |-> z,
                 co |-> "none", phase |-> "serve"]
    BY DEF Fresh
  <2> HIDE DEF n, z, p
  <2>3. Fresh \in ConnType /\ Fresh.rx = n /\ Fresh.held = z
    BY <2>1, <2>2 DEF ConnType
  <2>4. x = [Fresh EXCEPT !.refs = 2, !.recv = "armed", !.co = "ready", !.phase = p]
    BY DEF p
  <2>5. /\ x \in ConnType /\ x.refs = 2 /\ x.recv = "armed" /\ x.co = "ready"
        /\ x.rx = n /\ x.held = z
    <3> HIDE DEF x
    <3> QED BY <2>1, <2>3, <2>4 DEF ConnType
  <2> QED BY <2>5 DEF n, z
<1> HIDE DEF x
<1>6. /\ conn' \in [Conns -> ConnType] /\ conn'[c] = x
      /\ \A d \in Conns : d # c => conn'[d] = conn[d]
  BY <1>3, <1>4, <1>5
<1>7. live' \in Nat /\ LiveOk'
  <2>1. IsFiniteSet(Open)
    BY WorkerAssumption, FS_Subset DEF Open
  <2>2. Open' = Open \cup {c}
    BY <1>4, <1>5, <1>6 DEF Open
  <2>3. Cardinality(Open') = Cardinality(Open) + 1
    BY <1>4, <2>1, <2>2, FS_AddElement
  <2>4. live = Cardinality(Open)
    BY <1>4 DEF LiveOk
  <2> QED BY <1>3, <1>4, <2>3, <2>4 DEF LiveOk
<1> DEFINE v == <<Sqe("recv", c)>>
<1>8. /\ NoAccept(v) /\ v \in Seq(SqeType) /\ Append(sq, Sqe("recv", c)) = sq \o v
      /\ \A d \in Conns : /\ Count(v, {Sqe("recv", d)}) = One(d = c)
                          /\ Count(v, {Sqe("op", d)}) = 0
  <2>1. Sqe("recv", c) \in SqeType /\ NoAccept(v)
    BY <1>4, RecvNoAccept
  <2>2. Append(sq, Sqe("recv", c)) = sq \o v /\ v \in Seq(SqeType)
    BY <1>4, <2>1, AppendCat
  <2>3. \A S : Count(v, S) = One(Sqe("recv", c) \in S)
    BY <2>1, CountOne
  <2> QED BY <2>1, <2>2, <2>3, SqeFields DEF One
<1> HIDE DEF v
<1>9. /\ AcceptOk' /\ listener' \in [stalled : BOOLEAN, at : Nat]
      /\ sq' = sq \o v \/ sq' = Append(sq \o v, Sqe("accept", None))
  <2>1. live + 1 \in Nat
    BY <1>4
  <2>0. AcceptEnd(live + 1, sq \o v)
    <3>1. AcceptEnd(live + 1, Append(sq, Sqe("recv", c)))
      BY <1>3
    <3>2. Append(sq, Sqe("recv", c)) = sq \o v
      BY <1>8
    <3> QED BY <3>1, <3>2
  <2> QED BY <1>1, <1>2, <1>8, <2>0, <2>1, AcceptEndOk
<1>10. PICK w \in Seq(SqeType) :
        /\ sq' = sq \o w
        /\ \A d \in Conns : /\ Count(w, {Sqe("recv", d)}) = Count(v, {Sqe("recv", d)})
                            /\ Count(w, {Sqe("op", d)}) = Count(v, {Sqe("op", d)})
  BY <1>4, <1>8, <1>9, ArmStaged
<1>11. /\ sq' \in Seq(SqeType)
       /\ \A d \in Conns : /\ RecvsInSq(d)' = RecvsInSq(d) + Count(w, {Sqe("recv", d)})
                           /\ OpsInSq(d)' = OpsInSq(d) + Count(w, {Sqe("op", d)})
  BY <1>4, <1>10, Staged
<1>12. /\ Head(cq) \in CqeType
       /\ cq' \in Seq(CqeType) /\ batch' \in Nat /\ batch' <= Len(cq')
  BY <1>1, TakenHead
<1>13. ready' \in Seq(Conns) /\ \A d \in Conns : Count(ready', {d}) = Count(ready, {d}) + One(d = c)
  <2>1. \A S : Append(ready, c) \in Seq(Conns) /\ Count(Append(ready, c), S) = Count(ready, S) + One(c \in S)
    BY <1>4, CountAppend
  <2>2. \A d \in Conns : c \in {d} <=> d = c
    OBVIOUS
  <2> QED BY <1>3, <2>1, <2>2 DEF One
<1>14. TypeOK'
  BY <1>2, <1>4, <1>6, <1>7, <1>9, <1>11, <1>12, <1>13 DEF TypeOK
<1>15. ASSUME NEW d \in Conns
       PROVE  /\ EndsInCq(d)' = EndsInCq(d) /\ DonesInCq(d)' = DonesInCq(d)
              /\ RecvsInSq(d)' = RecvsInSq(d) + One(d = c) /\ OpsInSq(d)' = OpsInSq(d)
              /\ (Frame(d, "last")' <=> Frame(d, "last")) /\ (Frame(d, "unref")' <=> Frame(d, "unref"))
              /\ RecvsInSq(d) \in Nat /\ Count(ready, {d}) \in Nat
  <2>1. Head(cq) \notin RecvEnds(d) /\ Head(cq) \notin OpDones(d)
    BY <1>1 DEF RecvEnds, OpDones
  <2>2. /\ EndsInCq(d)' \in Nat /\ DonesInCq(d)' \in Nat
        /\ EndsInCq(d) = One(Head(cq) \in RecvEnds(d)) + EndsInCq(d)'
        /\ DonesInCq(d) = One(Head(cq) \in OpDones(d)) + DonesInCq(d)'
    BY <1>1, TakenHead
  <2>3. EndsInCq(d)' = EndsInCq(d) /\ DonesInCq(d)' = DonesInCq(d)
    BY <2>1, <2>2 DEF One
  <2>4. RecvsInSq(d) \in Nat /\ OpsInSq(d) \in Nat /\ Count(ready, {d}) \in Nat
    BY <1>4, Nats
  <2>5. Count(w, {Sqe("recv", d)}) = One(d = c) /\ Count(w, {Sqe("op", d)}) = 0
    BY <1>8, <1>10
  <2>6. RecvsInSq(d)' = RecvsInSq(d) + One(d = c) /\ OpsInSq(d)' = OpsInSq(d)
    <3>1. /\ RecvsInSq(d)' = RecvsInSq(d) + Count(w, {Sqe("recv", d)})
          /\ OpsInSq(d)' = OpsInSq(d) + Count(w, {Sqe("op", d)})
      BY <1>11
    <3> QED BY <2>4, <2>5, <3>1
  <2>7. (Frame(d, "last")' <=> Frame(d, "last")) /\ (Frame(d, "unref")' <=> Frame(d, "unref"))
    BY <1>2 DEF Frame
  <2> QED BY <2>3, <2>4, <2>6, <2>7
<1>16. ASSUME NEW d \in Conns PROVE ConnOk(d)'
  <2>1. CASE d = c
    <3>0. /\ RecvsInSq(c) = 0 /\ OpsInSq(c) = 0 /\ EndsInCq(c) = 0 /\ DonesInCq(c) = 0
          /\ c \notin krecv /\ c \notin kop /\ ~Frame(c, "last") /\ ~Frame(c, "unref")
          /\ Count(ready, {c}) = 0 /\ Count(starved, {c}) = 0
      BY <1>4, Unused
    <3>1. /\ RecvsInSq(c)' = 1 /\ OpsInSq(c)' = 0 /\ EndsInCq(c)' = 0 /\ DonesInCq(c)' = 0
          /\ ~Frame(c, "last")' /\ ~Frame(c, "unref")'
          /\ Count(ready', {c}) = 1
      <4>1. /\ EndsInCq(c)' = EndsInCq(c) /\ DonesInCq(c)' = DonesInCq(c)
            /\ RecvsInSq(c)' = RecvsInSq(c) + One(c = c) /\ OpsInSq(c)' = OpsInSq(c)
            /\ (Frame(c, "last")' <=> Frame(c, "last")) /\ (Frame(c, "unref")' <=> Frame(c, "unref"))
        BY <1>4, <1>15
      <4>2. Count(ready', {c}) = Count(ready, {c}) + One(c = c)
        BY <1>4, <1>13
      <4> QED BY <3>0, <4>1, <4>2 DEF One
    <3>2. RecvOk(c)'
      BY <1>2, <1>5, <1>6, <3>0, <3>1 DEF RecvOk
    <3>3. OpOk(c)'
      BY <1>2, <1>5, <1>6, <3>0, <3>1 DEF OpOk
    <3>4. ListOk(c)'
      BY <1>2, <1>5, <1>6, <3>0, <3>1 DEF ListOk, One
    <3>5. RefsOk(c)' /\ GoneOk(c)'
      BY <1>5, <1>6, <3>1 DEF RefsOk, GoneOk, One
    <3> QED BY <2>1, <3>2, <3>3, <3>4, <3>5 DEF ConnOk
  <2>2. CASE d # c
    <3>1. /\ RecvsInSq(d)' = RecvsInSq(d) /\ Count(ready', {d}) = Count(ready, {d})
      <4>1. /\ RecvsInSq(d)' = RecvsInSq(d) + One(d = c) /\ RecvsInSq(d) \in Nat
            /\ Count(ready', {d}) = Count(ready, {d}) + One(d = c) /\ Count(ready, {d}) \in Nat
        BY <1>13, <1>15
      <4> QED BY <2>2, <4>1 DEF One
    <3>2. Same(d)
      BY <1>2, <1>6, <1>15, <2>2, <3>1 DEF Same
    <3> QED BY <3>2, SameOk DEF Inv
  <2> QED BY <2>1, <2>2
<1>17. EndFollows'
  BY <1>1, <1>2, <1>4, EndTaken
<1>18. \A b \in cfg.buffers : BufferOk(b)'
  <2>1. conn[c].rx = <<>> /\ conn[c].held = {} /\ Head(cq).b = None
    BY <1>1, <1>4, <1>12, Unused DEF CqeType
  <2>2. x.rx = conn[c].rx /\ x.held = conn[c].held
    BY <1>5, <2>1
  <2> QED BY <1>1, <1>2, <1>4, <1>6, <2>1, <2>2, BufUnnamed
<1> QED BY <1>7, <1>9, <1>14, <1>16, <1>17, <1>18 DEF Inv

-----------------------------------------------------------------------------
(* The rest of on_recv.                                                    *)

\* on_recv goes on for c, but for c's own part.
LEMMA TailStep ==
    ASSUME Inv, NEW c \in Conns, frame.c = c, frame' = NoFrame,
           NEW x \in ConnType, Put(c, x), x.refs > 0 => conn[c].refs > 0,
           x.rx = conn[c].rx, x.held = conn[c].held,
           NEW w, NoAccept(w), sq' = sq \o w,
           \A d \in Conns : d # c => Count(w, {Sqe("recv", d)}) = 0 /\ Count(w, {Sqe("op", d)}) = 0,
           UNCHANGED <<ready, starved, returned, staged, kfree, cq, batch, krecv, kop, kaccept,
                       listener, draining, cfg>>,
           ConnOk(c)'
    PROVE  Inv'
<1>1. TypeOK /\ LiveOk /\ EndFollows /\ AcceptOk /\ w \in Seq(SqeType) /\ \A d \in Conns : ConnOk(d)
  BY DEF Inv, NoAccept
<1>2. /\ conn' \in [Conns -> ConnType] /\ live' \in Nat /\ LiveOk' /\ conn'[c] = x
      /\ \A d \in Conns : d # c => conn'[d] = conn[d]
  BY <1>1, PutOk
<1>3. /\ sq' \in Seq(SqeType)
      /\ \A d \in Conns : /\ RecvsInSq(d)' = RecvsInSq(d) + Count(w, {Sqe("recv", d)})
                          /\ OpsInSq(d)' = OpsInSq(d) + Count(w, {Sqe("op", d)})
  BY <1>1, Staged
<1>4. NoFrame \in FrameType
  BY DEF NoFrame, FrameType
<1>5. TypeOK'
  BY <1>1, <1>2, <1>3, <1>4 DEF TypeOK
<1>6. ASSUME NEW d \in Conns PROVE ConnOk(d)'
  <2>1. CASE d = c
    BY <2>1
  <2>2. CASE d # c
    <3>1. RecvsInSq(d) \in Nat /\ OpsInSq(d) \in Nat
      BY <1>1, Nats
    <3>2. RecvsInSq(d)' = RecvsInSq(d) /\ OpsInSq(d)' = OpsInSq(d)
      <4>1. Count(w, {Sqe("recv", d)}) = 0 /\ Count(w, {Sqe("op", d)}) = 0
        BY <2>2
      <4>2. /\ RecvsInSq(d)' = RecvsInSq(d) + Count(w, {Sqe("recv", d)})
            /\ OpsInSq(d)' = OpsInSq(d) + Count(w, {Sqe("op", d)})
        BY <1>3
      <4> QED BY <3>1, <4>1, <4>2
    <3>3. ~Frame(d, "last") /\ ~Frame(d, "unref")
      BY <2>2 DEF Frame
    <3>4. ~Frame(d, "last")' /\ ~Frame(d, "unref")'
      BY NoneOut DEF Frame, NoFrame
    <3>5. Same(d)
      BY <1>2, <2>2, <3>2, <3>3, <3>4 DEF Same, EndsInCq, DonesInCq
    <3> QED BY <1>1, <3>5, SameOk
  <2> QED BY <2>1, <2>2
<1>7. EndFollows'
  BY <1>1 DEF EndFollows, RecvEnds
<1>8. AcceptOk'
  BY <1>1, AcceptStaged
<1>9. \A b \in cfg.buffers : BufferOk(b)'
  BY <1>2, BufSame
<1> QED BY <1>2, <1>5, <1>6, <1>7, <1>8, <1>9 DEF Inv

\* ... and c's own part.
LEMMA TailOwn ==
    ASSUME Inv, NEW c \in Conns, frame.c = c, frame' = NoFrame,
           NEW x, conn'[c] = x, NEW w \in Seq(SqeType), sq' = sq \o w,
           UNCHANGED <<ready, starved, cq, krecv, kop>>,
           Count(w, {Sqe("op", c)}) = 0, x.co = "parked" <=> conn[c].co = "parked",
           x.co = "ready" <=> conn[c].co = "ready", x.co = "none" <=> conn[c].co = "none",
           \/ frame.k # "last" /\ Count(w, {Sqe("recv", c)}) = 0 /\ x.recv = conn[c].recv
           \/ frame.k = "last" /\ Count(w, {Sqe("recv", c)}) = One(x.recv = "armed") /\ x.recv # "starved",
           x.refs = One(x.co # "none") + One(x.recv # "done"),
           x.rx = conn[c].rx, x.held = conn[c].held,
           x.co = "none" /\ x.recv # "done" => x.closed
    PROVE  ConnOk(c)'
<1>1. /\ RecvOk(c) /\ OpOk(c) /\ ListOk(c) /\ GoneOk(c) /\ TypeOK
  BY DEF Inv, ConnOk
<1>2. /\ RecvsInSq(c) \in Nat /\ OpsInSq(c) \in Nat
      /\ RecvsInSq(c)' = RecvsInSq(c) + Count(w, {Sqe("recv", c)})
      /\ OpsInSq(c)' = OpsInSq(c) + Count(w, {Sqe("op", c)})
  BY <1>1, Nats, Staged
<1>3. /\ EndsInCq(c)' = EndsInCq(c) /\ DonesInCq(c)' = DonesInCq(c)
      /\ ~Frame(c, "last")' /\ ~Frame(c, "unref")'
      /\ (Frame(c, "last") <=> frame.k = "last")
  BY DEF EndsInCq, DonesInCq, Frame, NoFrame
<1>4. RecvOk(c)'
  <2>1. CASE frame.k # "last"
    <3>1. RecvsInSq(c)' = RecvsInSq(c) /\ x.recv = conn[c].recv
      BY <1>2, <2>1
    <3> QED BY <1>1, <1>3, <2>1, <3>1 DEF RecvOk
  <2>2. CASE frame.k = "last"
    <3>1. RecvsInSq(c) = 0 /\ c \notin krecv /\ EndsInCq(c) = 0
      BY <1>1, <1>3, <2>2 DEF RecvOk
    <3>2. RecvsInSq(c)' = One(x.recv = "armed")
      BY <1>2, <2>2, <3>1 DEF One
    <3> QED BY <1>3, <3>1, <3>2 DEF RecvOk, One
  <2> QED BY <2>1, <2>2
<1>5. OpOk(c)'
  <2>1. OpsInSq(c)' = OpsInSq(c)
    BY <1>2
  <2> QED BY <1>1, <1>3, <2>1 DEF OpOk
<1>6. ListOk(c)'
  <2>1. CASE frame.k # "last"
    BY <1>1, <2>1 DEF ListOk, One
  <2>2. CASE frame.k = "last"
    <3>1. conn[c].recv = "armed" /\ x.recv # "starved"
      BY <1>1, <1>3, <2>2 DEF RecvOk
    <3> QED BY <1>1, <3>1 DEF ListOk, One
  <2> QED BY <2>1, <2>2
<1>7. RefsOk(c)'
  BY <1>3 DEF RefsOk, One
<1>8. GoneOk(c)'
  BY <1>1 DEF GoneOk
<1> QED BY <1>4, <1>5, <1>6, <1>7, <1>8 DEF ConnOk

\* What the rest of on_recv starts from.
LEMMA TailHead ==
    ASSUME Inv, NEW k \in {"more", "last", "unref"}, Tailing(k), NEW c, c = frame.c
    PROVE  /\ c \in Conns /\ frame.k = k /\ frame' = NoFrame
           /\ UNCHANGED <<ready, starved, returned, staged, kfree, cq, batch, krecv, kop, kaccept,
                          listener, draining>>
           /\ TypeOK /\ LiveOk /\ conn[c] \in ConnType
           /\ conn[c].refs = One(conn[c].co # "none") + One(conn[c].recv # "done") + One(k = "unref")
           /\ conn[c].co = "none" /\ conn[c].recv # "done" => conn[c].closed
           /\ k = "last" => conn[c].recv = "armed"
<1>1. /\ frame.k = k /\ frame' = NoFrame
      /\ UNCHANGED <<ready, starved, returned, staged, kfree, cq, batch, krecv, kop, kaccept,
                     listener, draining>>
  BY DEF Tailing, loopVars, bufVars, kVars
<1>2. c \in Conns
  BY <1>1 DEF Inv, TypeOK, FrameType
<1>3. TypeOK /\ LiveOk /\ ConnOk(c) /\ conn[c] \in ConnType
  BY <1>2 DEF Inv, TypeOK
<1>4. (Frame(c, "last") <=> k = "last") /\ (Frame(c, "unref") <=> k = "unref")
  BY <1>1 DEF Frame
<1>5. conn[c].refs = One(conn[c].co # "none") + One(conn[c].recv # "done") + One(k = "unref")
  BY <1>3, <1>4 DEF ConnOk, RefsOk, One
<1>6. conn[c].co = "none" /\ conn[c].recv # "done" => conn[c].closed
  BY <1>3 DEF ConnOk, GoneOk
<1>7. k = "last" => conn[c].recv = "armed"
  BY <1>3, <1>4 DEF ConnOk, RecvOk
<1> QED BY <1>1, <1>2, <1>3, <1>5, <1>6, <1>7

\* The rest of on_recv, the recv goes on.
LEMMA TailMoreInv ==
    ASSUME Inv, TailMore, cfg' = cfg
    PROVE  Inv'
<1>0. PICK c : c = frame.c
  OBVIOUS
<1> DEFINE y == conn[c]
<1>1. /\ c \in Conns /\ frame.k = "more" /\ frame' = NoFrame
      /\ UNCHANGED <<ready, starved, returned, staged, kfree, cq, batch, krecv, kop, kaccept,
                     listener, draining>>
      /\ TypeOK /\ LiveOk /\ y \in ConnType
      /\ y.refs = One(y.co # "none") + One(y.recv # "done") + One("more" = "unref")
      /\ y.co = "none" /\ y.recv # "done" => y.closed
  BY <1>0, TailHead DEF TailMore
<1>2a. PICK x \in ConnType : \E w :
        /\ Put(c, x) /\ Quiet(w) /\ sq' = sq \o w
        /\ x.recv = y.recv /\ x.refs = y.refs /\ x.co = y.co /\ x.rx = y.rx /\ x.held = y.held
        /\ x.closed = y.closed
  <2>1. CASE Put(c, Cancel(y)) /\ sq' = sq \o CancelSqe(c, y)
    <3> DEFINE x == Cancel(y)
    <3>1. /\ x \in ConnType /\ x.recv = y.recv /\ x.refs = y.refs /\ x.co = y.co
          /\ x.rx = y.rx /\ x.held = y.held /\ x.closed = y.closed
      BY <1>1 DEF ConnType, Cancel
    <3>2. Quiet(CancelSqe(c, y))
      BY <1>1, QuietCancel
    <3> HIDE DEF x
    <3> QED BY <2>1, <3>1, <3>2 DEF x
  <2>2. CASE UNCHANGED <<conn, live, sq>>
    <3> DEFINE w == <<>>
    <3>1. Put(c, y)
      BY <1>1, <2>2 DEF Put, TypeOK, ConnType
    <3>2. Quiet(w) /\ sq' = sq \o w
      BY <1>1, <2>2, QuietNone, ConcatEmptySeq DEF TypeOK
    <3> HIDE DEF w
    <3> QED BY <1>1, <3>1, <3>2
  <2> QED BY <1>0, <2>1, <2>2 DEF TailMore
<1>2. PICK w :
        /\ Put(c, x) /\ Quiet(w) /\ sq' = sq \o w
        /\ x.recv = y.recv /\ x.refs = y.refs /\ x.co = y.co /\ x.rx = y.rx /\ x.held = y.held
        /\ x.closed = y.closed
  BY <1>2a
<1>3. /\ NoAccept(w) /\ w \in Seq(SqeType)
      /\ \A d \in Conns : Count(w, {Sqe("recv", d)}) = 0 /\ Count(w, {Sqe("op", d)}) = 0
  BY <1>2, QuietNoAccept, QuietStaged DEF Quiet
<1>4. conn'[c] = x
  BY <1>1, <1>2, PutOk
<1>5. x.refs = One(x.co # "none") + One(x.recv # "done")
  BY <1>1, <1>2 DEF One
<1>6. ConnOk(c)'
  BY <1>0, <1>1, <1>2, <1>3, <1>4, <1>5, TailOwn, ZenonT(40)
<1> QED BY <1>0, <1>1, <1>2, <1>3, <1>6, TailStep

\* The rest of on_recv, the recv is done: its reference is dropped.
LEMMA TailUnrefInv ==
    ASSUME Inv, TailUnref, cfg' = cfg
    PROVE  Inv'
<1>0. PICK c : c = frame.c
  OBVIOUS
<1> DEFINE y == conn[c]
           x == Unref(y, 1)
           w == <<>>
<1>1. /\ c \in Conns /\ frame.k = "unref" /\ frame' = NoFrame
      /\ UNCHANGED <<ready, starved, returned, staged, kfree, cq, batch, krecv, kop, kaccept,
                     listener, draining>>
      /\ TypeOK /\ LiveOk /\ y \in ConnType
      /\ y.refs = One(y.co # "none") + One(y.recv # "done") + One("unref" = "unref")
      /\ y.co = "none" /\ y.recv # "done" => y.closed
  BY <1>0, TailHead DEF TailUnref
<1>2. Put(c, x) /\ sq' = sq \o w /\ Quiet(w)
  BY <1>0, <1>1, QuietNone, ConcatEmptySeq DEF TailUnref, TypeOK
<1>3. y.refs > 0 /\ y.refs - 1 \in Nat /\ y.refs - 1 = One(y.co # "none") + One(y.recv # "done")
  BY <1>1 DEF ConnType, One
<1>4. /\ x \in ConnType /\ x.recv = y.recv /\ x.refs = y.refs - 1 /\ x.co = y.co
      /\ x.rx = y.rx /\ x.held = y.held /\ x.closed = y.closed
  BY <1>1, <1>3 DEF ConnType, Unref
<1> HIDE DEF x, w
<1>5. /\ NoAccept(w) /\ w \in Seq(SqeType)
      /\ \A d \in Conns : Count(w, {Sqe("recv", d)}) = 0 /\ Count(w, {Sqe("op", d)}) = 0
  BY <1>2, QuietNoAccept, QuietStaged DEF Quiet
<1>6. conn'[c] = x
  BY <1>1, <1>2, <1>3, <1>4, PutOk
<1>7. x.refs = One(x.co # "none") + One(x.recv # "done")
  BY <1>3, <1>4 DEF One
<1>8. ConnOk(c)'
  BY <1>0, <1>1, <1>2, <1>4, <1>5, <1>6, <1>7, TailOwn, ZenonT(40)
<1> QED BY <1>0, <1>1, <1>2, <1>3, <1>4, <1>5, <1>8, TailStep

\* The rest of on_recv, the recv ended: it is armed again, paused or done.
LEMMA TailLastInv ==
    ASSUME Inv, TailLast, cfg' = cfg
    PROVE  Inv'
<1>0. PICK c : c = frame.c
  OBVIOUS
<1> DEFINE y == conn[c]
<1>1. /\ c \in Conns /\ frame.k = "last" /\ frame' = NoFrame
      /\ UNCHANGED <<ready, starved, returned, staged, kfree, cq, batch, krecv, kop, kaccept,
                     listener, draining>>
      /\ TypeOK /\ LiveOk /\ y \in ConnType
      /\ y.refs = One(y.co # "none") + One(y.recv # "done") + One("last" = "unref")
      /\ y.co = "none" /\ y.recv # "done" => y.closed
      /\ y.recv = "armed"
  BY <1>0, TailHead DEF TailLast
<1>2. y.refs = One(y.co # "none") + 1 /\ y.refs > 0 /\ y.refs - 1 \in Nat
  BY <1>1 DEF ConnType, One
<1>3a. PICK x \in ConnType : \E w :
        /\ Put(c, x) /\ NoAccept(w) /\ sq' = sq \o w
        /\ \A d \in Conns : Count(w, {Sqe("op", d)}) = 0 /\ (d # c => Count(w, {Sqe("recv", d)}) = 0)
        /\ Count(w, {Sqe("recv", c)}) = One(x.recv = "armed")
        /\ x.recv # "starved"
        /\ x.rx = y.rx /\ x.held = y.held
        /\ (x.co = "parked" <=> y.co = "parked")
        /\ (x.co = "ready" <=> y.co = "ready") /\ (x.co = "none" <=> y.co = "none")
        /\ (x.recv # "done" => ~y.closed)
        /\ x.refs = One(y.co # "none") + One(x.recv # "done")
  <2>1. CASE ~y.closed /\ Put(c, Wake([y EXCEPT !.pausing = FALSE, !.recv = "paused"])) /\ UNCHANGED sq
    <3> DEFINE z == [y EXCEPT !.pausing = FALSE, !.recv = "paused"]
               x == Wake(z)
               w == <<>>
    <3>1. /\ z \in ConnType /\ z.recv = "paused" /\ z.refs = y.refs /\ z.co = y.co
          /\ z.rx = y.rx /\ z.held = y.held
      BY <1>1 DEF ConnType
    <3>2. Put(c, x)
      BY <2>1
    <3> HIDE DEF z
    <3>3. /\ x \in ConnType /\ x.recv = z.recv /\ x.refs = z.refs /\ x.rx = z.rx /\ x.held = z.held
          /\ (x.co = "none" <=> z.co = "none") /\ (x.co = "parked" <=> z.co = "parked")
          /\ (x.co = "ready" <=> z.co = "ready")
      BY <3>1, WakeOk
    <3>4. sq' = sq \o w /\ NoAccept(w) /\ \A S : Count(w, S) = 0
      BY <1>1, <2>1, CountNone, ConcatEmptySeq DEF TypeOK
    <3> HIDE DEF x, w
    <3> QED BY <1>2, <2>1, <3>1, <3>2, <3>3, <3>4 DEF One
  <2>2. CASE ~y.closed /\ Put(c, Arm(y)) /\ sq' = Append(sq, Sqe("recv", c))
    <3> DEFINE x == Arm(y)
               w == <<Sqe("recv", c)>>
    <3>1. /\ x \in ConnType /\ x.recv = "armed" /\ x.refs = y.refs /\ x.co = y.co
          /\ x.rx = y.rx /\ x.held = y.held
      BY <1>1 DEF ConnType, Arm
    <3>2. /\ NoAccept(w) /\ Sqe("recv", c) \in SqeType
      BY <1>1, RecvNoAccept
    <3>3. sq' = sq \o w
      BY <1>1, <2>2, <3>2, AppendCat
    <3>4. \A S : Count(w, S) = One(Sqe("recv", c) \in S)
      BY <3>2, CountOne
    <3>5. /\ \A d \in Conns : Count(w, {Sqe("op", d)}) = 0 /\ (d # c => Count(w, {Sqe("recv", d)}) = 0)
          /\ Count(w, {Sqe("recv", c)}) = 1
      BY <3>4, SqeFields DEF One
    <3>6. Put(c, x)
      BY <2>2
    <3> HIDE DEF x, w
    <3> QED BY <1>2, <2>2, <3>1, <3>2, <3>3, <3>5, <3>6 DEF One
  <2>3. CASE Put(c, Unref([y EXCEPT !.recv = "done"], 1)) /\ UNCHANGED sq
    <3> DEFINE z == [y EXCEPT !.recv = "done"]
               x == Unref(z, 1)
               w == <<>>
    <3>1. /\ z \in ConnType /\ z.recv = "done" /\ z.refs = y.refs /\ z.co = y.co
          /\ z.rx = y.rx /\ z.held = y.held
      BY <1>1 DEF ConnType
    <3>2. Put(c, x)
      BY <2>3
    <3> HIDE DEF z
    <3>3. /\ x \in ConnType /\ x.recv = "done" /\ x.refs = y.refs - 1 /\ x.co = y.co
          /\ x.rx = y.rx /\ x.held = y.held
      BY <1>2, <3>1 DEF ConnType, Unref
    <3>4. sq' = sq \o w /\ NoAccept(w) /\ \A S : Count(w, S) = 0
      BY <1>1, <2>3, CountNone, ConcatEmptySeq DEF TypeOK
    <3>5. x.refs = One(y.co # "none") + One(x.recv # "done")
      <4> HIDE DEF x
      <4> QED BY <1>2, <3>3 DEF One
    <3> HIDE DEF x, w
    <3> QED BY <1>2, <3>2, <3>3, <3>4, <3>5 DEF One
  <2> QED BY <1>0, <2>1, <2>2, <2>3 DEF TailLast
<1>3. PICK w :
        /\ Put(c, x) /\ NoAccept(w) /\ sq' = sq \o w
        /\ \A d \in Conns : Count(w, {Sqe("op", d)}) = 0 /\ (d # c => Count(w, {Sqe("recv", d)}) = 0)
        /\ Count(w, {Sqe("recv", c)}) = One(x.recv = "armed")
        /\ x.recv # "starved"
        /\ x.rx = y.rx /\ x.held = y.held
        /\ (x.co = "parked" <=> y.co = "parked")
        /\ (x.co = "ready" <=> y.co = "ready") /\ (x.co = "none" <=> y.co = "none")
        /\ (x.recv # "done" => ~y.closed)
        /\ x.refs = One(y.co # "none") + One(x.recv # "done")
  BY <1>3a
<1>4. w \in Seq(SqeType)
  BY <1>3 DEF NoAccept
<1>5. conn'[c] = x
  BY <1>1, <1>2, <1>3, PutOk
<1>6. x.refs = One(x.co # "none") + One(x.recv # "done")
  BY <1>3 DEF One
<1>7. x.co = "none" /\ x.recv # "done" => x.closed
  BY <1>1, <1>3
<1>8. ConnOk(c)'
  BY <1>0, <1>1, <1>3, <1>4, <1>5, <1>6, <1>7, TailOwn
<1> QED BY <1>0, <1>1, <1>2, <1>3, <1>8, TailStep

-----------------------------------------------------------------------------
(* The loop.                                                               *)

\* A step that only moves the loop.
LEMMA LoopOnly ==
    ASSUME Inv, UNCHANGED <<conn, frame, live, ready, starved, returned, staged, kfree, cfg>>,
           UNCHANGED <<listener, sq, cq, draining, krecv, kop, kaccept>>,
           batch' \in Nat, batch' <= Len(cq)
    PROVE  Inv'
<1>1. TypeOK'
  BY DEF Inv, TypeOK
<1>2. ASSUME NEW c \in Conns PROVE ConnOk(c)'
  <2>1. Same(c)
    BY DEF Same, RecvsInSq, OpsInSq, EndsInCq, DonesInCq, Frame
  <2> QED BY <2>1, SameOk DEF Inv
<1>3. EndFollows'
  BY DEF Inv, EndFollows, RecvEnds
<1>4. LiveOk' /\ AcceptOk'
  BY DEF Inv, LiveOk, Open, AcceptOk
<1>5. ASSUME NEW b \in cfg.buffers PROVE BufferOk(b)'
  <2>1. InRings(b)' = InRings(b) /\ \A d \in Conns : With(b, d)' = With(b, d)
    BY DEF InRings, Bearing, With
  <2> QED BY <2>1, BufRings DEF Inv
<1> QED BY <1>1, <1>2, <1>3, <1>4, <1>5 DEF Inv

\* Steps that only move the loop.
LEMMA PlainInv ==
    ASSUME Inv, Check \/ Fail \/ Stop \/ Deadline \/ Flushed, cfg' = cfg
    PROVE  Inv'
<1>1. /\ UNCHANGED <<conn, frame, live, ready, starved, returned, staged, kfree, cfg>>
      /\ UNCHANGED <<listener, sq, cq, draining, krecv, kop, kaccept, batch>>
  <2>1. CASE Check
    BY <2>1 DEF Check, Goto, bufVars, kVars
  <2>2. CASE Fail \/ Stop \/ Deadline \/ Flushed
    BY <2>2 DEF Fail, Stop, Deadline, Flushed, bufVars, kVars
  <2> QED BY <2>1, <2>2
<1>2. batch' \in Nat /\ batch' <= Len(cq)
  BY <1>1 DEF Inv, TypeOK
<1> QED BY <1>1, <1>2, LoopOnly

\* The enter returned.
LEMMA ReapInv ==
    ASSUME Inv, Reap, cfg' = cfg
    PROVE  Inv'
<1>1. /\ UNCHANGED <<conn, frame, live, ready, starved, returned, staged, kfree, cfg>>
      /\ UNCHANGED <<listener, sq, cq, draining, krecv, kop, kaccept>>
      /\ batch' = Len(cq)
  BY DEF Reap, Goto, bufVars, kVars
<1>2. Len(cq) \in Nat
  BY LenProperties DEF Inv, TypeOK
<1>3. batch' \in Nat /\ batch' <= Len(cq)
  BY <1>1, <1>2
<1> QED BY <1>1, <1>3, LoopOnly

\* ioxd__bufring_publish
LEMMA BufPublish ==
    ASSUME Inv, Publish, UNCHANGED <<cq, cfg>>,
           \A d \in Conns : conn'[d].rx = conn[d].rx /\ conn'[d].held = conn[d].held
    PROVE  /\ \A b \in cfg.buffers : BufferOk(b)'
           /\ kfree' \subseteq Buffers /\ staged' \subseteq Buffers
<1>0. kfree' = kfree \cup staged /\ staged' = {} /\ kfree \subseteq Buffers /\ staged \subseteq Buffers
  BY DEF Publish, Inv, TypeOK
<1>1. ASSUME NEW b \in cfg.buffers PROVE BufferOk(b)'
  <2>1. TypeOK /\ BufferOk(b)
    BY DEF Inv
  <2>2. InRings(b) \in {0, 1} /\ Count(cq, Bearing(b)) \in Nat
    BY <2>1, BufNats DEF BufferOk
  <2>3. InRings(b) = One(b \in kfree) + One(b \in staged) + Count(cq, Bearing(b))
    BY DEF InRings
  <2>4. InRings(b)' = One(b \in kfree \cup staged) + One(b \in {}) + Count(cq, Bearing(b))
    BY <1>0 DEF InRings, Bearing
  <2>5. InRings(b)' = InRings(b)
    <3>1. CASE b \in kfree
      BY <2>2, <2>3, <2>4, <3>1 DEF One
    <3>2. CASE b \notin kfree
      BY <2>2, <2>3, <2>4, <3>2 DEF One
    <3> QED BY <3>1, <3>2
  <2>6. \A d \in Conns : With(b, d)' = With(b, d)
    BY DEF With
  <2> QED BY <2>1, <2>5, <2>6, BufRings
<1> QED BY <1>0, <1>1

\* ioxd__proactor_sqe on a full SQ publishes the buffers.
LEMMA FlushInv ==
    ASSUME Inv, Flush, cfg' = cfg
    PROVE  Inv'
<1>1. /\ UNCHANGED <<conn, frame, live, ready, starved, returned, cfg>> /\ Publish
      /\ UNCHANGED <<listener, sq, cq, draining, krecv, kop, kaccept, batch>>
  BY DEF Flush, kVars
<1>2. /\ \A b \in cfg.buffers : BufferOk(b)'
      /\ kfree' \subseteq Buffers /\ staged' \subseteq Buffers
  BY <1>1, BufPublish
<1>3. TypeOK'
  BY <1>1, <1>2 DEF Inv, TypeOK
<1>4. ASSUME NEW c \in Conns PROVE ConnOk(c)'
  <2>1. Same(c)
    BY <1>1 DEF Same, RecvsInSq, OpsInSq, EndsInCq, DonesInCq, Frame
  <2> QED BY <2>1, SameOk DEF Inv
<1>5. EndFollows'
  BY <1>1 DEF Inv, EndFollows, RecvEnds
<1>6. LiveOk' /\ AcceptOk'
  BY <1>1 DEF Inv, LiveOk, Open, AcceptOk
<1> QED BY <1>2, <1>3, <1>4, <1>5, <1>6 DEF Inv

\* The loop stages something, and is behind its listener.
LEMMA ListenerStep ==
    ASSUME Inv, UNCHANGED <<conn, frame, live, ready, starved, returned, staged, kfree, cfg>>,
           UNCHANGED <<cq, batch, krecv, kop>>,
           NEW w \in Seq(SqeType), sq' = sq \o w,
           \A d \in Conns : Count(w, {Sqe("recv", d)}) = 0 /\ Count(w, {Sqe("op", d)}) = 0,
           listener' \in [stalled : BOOLEAN, at : Nat], AcceptOk'
    PROVE  Inv'
<1>1. TypeOK /\ \A d \in Conns : ConnOk(d)
  BY DEF Inv
<1>2. sq' \in Seq(SqeType)
  BY <1>1, Staged
<1>3. TypeOK'
  BY <1>1, <1>2 DEF TypeOK
<1>4. ASSUME NEW d \in Conns PROVE ConnOk(d)'
  <2>1. RecvsInSq(d)' = RecvsInSq(d) /\ OpsInSq(d)' = OpsInSq(d)
    <3>1. RecvsInSq(d) \in Nat /\ OpsInSq(d) \in Nat
      BY <1>1, Nats
    <3>2. Count(w, {Sqe("recv", d)}) = 0 /\ Count(w, {Sqe("op", d)}) = 0
      OBVIOUS
    <3>3. /\ RecvsInSq(d)' = RecvsInSq(d) + Count(w, {Sqe("recv", d)})
          /\ OpsInSq(d)' = OpsInSq(d) + Count(w, {Sqe("op", d)})
      BY <1>1, Staged
    <3> QED BY <3>1, <3>2, <3>3
  <2>2. Same(d)
    BY <2>1 DEF Same, EndsInCq, DonesInCq, Frame
  <2> QED BY <1>1, <2>2, SameOk
<1>5. EndFollows'
  BY DEF Inv, EndFollows, RecvEnds
<1>6. LiveOk'
  BY DEF Inv, LiveOk, Open
<1>7. ASSUME NEW b \in cfg.buffers PROVE BufferOk(b)'
  <2>1. InRings(b)' = InRings(b) /\ \A d \in Conns : With(b, d)' = With(b, d)
    BY DEF InRings, Bearing, With
  <2> QED BY <2>1, BufRings DEF Inv
<1> QED BY <1>3, <1>4, <1>5, <1>6, <1>7 DEF Inv

\* rearm_stalled.
LEMMA EndBatchInv ==
    ASSUME Inv, EndBatch, cfg' = cfg
    PROVE  Inv'
<1> DEFINE v == <<>>
<1>1. /\ UNCHANGED <<conn, frame, live, ready, starved, returned, staged, kfree, cfg>>
      /\ UNCHANGED <<cq, batch, krecv, kop, kaccept, draining>>
  BY DEF EndBatch, Goto, bufVars, kVars
<1>2. /\ TypeOK /\ AcceptOk /\ live \in Nat /\ sq = sq \o v /\ NoAccept(v) /\ v \in Seq(SqeType)
      /\ Count(sq, Accepts) \in Nat /\ Count(cq, AcceptLast) \in Nat
      /\ \A S : Count(v, S) = 0
  BY ConcatEmptySeq, CountNone, CountNat DEF Inv, TypeOK
<1> HIDE DEF v
<1>3. CASE UNCHANGED <<listener, sq>>
  <2>1. batch' \in Nat /\ batch' <= Len(cq)
    BY <1>1, <1>2 DEF TypeOK
  <2> QED BY <1>1, <1>3, <2>1, LoopOnly
<1>4. CASE listener.stalled /\ ArmAccept(live, sq)
  <2>1. ArmAccept(live, sq \o v)
    BY <1>2, <1>4
  <2>2. ~draining => Count(sq, Accepts) = 0 /\ ~kaccept /\ Count(cq', AcceptLast) = 0
    <3> SUFFICES ASSUME ~draining PROVE Count(sq, Accepts) = 0 /\ ~kaccept /\ Count(cq, AcceptLast) = 0
      BY <1>1
    <3>1. Count(sq, Accepts) + One(kaccept) + Count(cq, AcceptLast) = One(~listener.stalled)
      BY <1>2 DEF AcceptOk
    <3> QED BY <1>2, <1>4, <3>1 DEF One
  <2>3. /\ AcceptOk' /\ listener' \in [stalled : BOOLEAN, at : Nat]
        /\ sq' = sq \o v \/ sq' = Append(sq \o v, Sqe("accept", None))
    BY <1>1, <1>2, <2>1, <2>2, AcceptArmed
  <2>4. PICK w \in Seq(SqeType) :
          /\ sq' = sq \o w
          /\ \A d \in Conns : /\ Count(w, {Sqe("recv", d)}) = Count(v, {Sqe("recv", d)})
                              /\ Count(w, {Sqe("op", d)}) = Count(v, {Sqe("op", d)})
    BY <1>2, <2>3, ArmStaged
  <2>5. \A d \in Conns : Count(w, {Sqe("recv", d)}) = 0 /\ Count(w, {Sqe("op", d)}) = 0
    BY <1>2, <2>4
  <2> QED BY <1>1, <2>3, <2>4, <2>5, ListenerStep
<1> QED BY <1>3, <1>4 DEF EndBatch

\* begin_drain: the accept, wherever it is, has its cancel behind it.
LEMMA BeginDrainInv ==
    ASSUME Inv, BeginDrain, cfg' = cfg
    PROVE  Inv'
<1> DEFINE a == Sqe("cancelaccept", None)
           e == Sqe("blanket", None)
           u == IF listener.stalled THEN <<>> ELSE <<a>>
           t == <<e>>
           w == u \o t
<1>1. /\ UNCHANGED <<conn, frame, live, ready, starved, returned, staged, kfree, cfg>>
      /\ UNCHANGED <<cq, batch, krecv, kop, kaccept>>
      /\ draining' /\ ~draining /\ sq' = (sq \o u) \o t
      /\ listener' = [listener EXCEPT !.stalled = TRUE]
  BY DEF BeginDrain, bufVars, kVars
<1>2. /\ TypeOK /\ AcceptOk /\ sq \in Seq(SqeType) /\ Len(sq) \in Nat /\ Count(sq, Accepts) \in Nat
      /\ Count(cq, AcceptLast) \in Nat /\ listener \in [stalled : BOOLEAN, at : Nat]
  BY CountNat, LenProperties DEF Inv, TypeOK
<1>3. /\ a \in SqeType /\ e \in SqeType /\ u \in Seq(SqeType) /\ t \in Seq(SqeType)
      /\ Len(t) = 1 /\ t[1] = e
      /\ ~listener.stalled => Len(u) = 1 /\ u[1] = a
  <2>1. a \in SqeType /\ e \in SqeType
    BY DEF SqeType, Sqe
  <2> HIDE DEF a, e
  <2>2. /\ <<a>> \in Seq(SqeType) /\ <<>> \in Seq(SqeType) /\ t \in Seq(SqeType)
        /\ Len(t) = 1 /\ t[1] = e /\ Len(<<a>>) = 1 /\ <<a>>[1] = a
    BY <2>1
  <2>3. CASE listener.stalled
    BY <2>1, <2>2, <2>3
  <2>4. CASE ~listener.stalled
    <3>1. u = <<a>>
      BY <2>4
    <3> HIDE DEF u
    <3> QED BY <2>1, <2>2, <2>4, <3>1
  <2> QED BY <2>3, <2>4
<1>4. /\ a.op = "cancelaccept" /\ e.op = "blanket" /\ a \in Cancels /\ a \notin Accepts /\ e \notin Accepts
  BY SqeFields DEF Accepts, Cancels
<1>5. \A i \in 1..Len(u) : u[i] = a
  <2>1. CASE listener.stalled
    <3>1. Len(u) = 0
      BY <2>1
    <3> QED BY <3>1
  <2>2. CASE ~listener.stalled
    BY <1>3, <2>2
  <2> QED BY <2>1, <2>2
<1> HIDE DEF a, e, u, t
<1>6. /\ w \in Seq(SqeType) /\ sq' = sq \o w
      /\ Len(w) = Len(u) + 1 /\ Len(u) \in Nat
      /\ \A i \in 1..Len(w) : w[i] \in {a, e}
      /\ ~listener.stalled => Len(w) = 2 /\ w[1] = a
  <2>1. /\ w \in Seq(SqeType) /\ Len(w) = Len(u) + Len(t) /\ Len(u) \in Nat
        /\ \A i \in 1..(Len(u) + Len(t)) : w[i] = IF i <= Len(u) THEN u[i] ELSE t[i - Len(u)]
    BY <1>3, ConcatProperties, LenProperties
  <2>2. sq' = sq \o w
    <3>1. (sq \o u) \o t = sq \o (u \o t)
      BY <1>2, <1>3, ConcatAssociative, SMTT(30)
    <3> QED BY <1>1, <3>1
  <2> HIDE DEF w
  <2>3. ASSUME NEW i \in 1..Len(w) PROVE w[i] \in {a, e}
    <3>1. CASE i <= Len(u)
      BY <1>5, <2>1, <3>1
    <3>2. CASE ~ (i <= Len(u))
      <4>1. i - Len(u) = 1 /\ w[i] = t[i - Len(u)]
        BY <1>3, <2>1, <3>2
      <4> QED BY <1>3, <4>1
    <3> QED BY <3>1, <3>2
  <2>4. ~listener.stalled => Len(w) = 2 /\ w[1] = a
    BY <1>3, <2>1
  <2> QED BY <1>3, <2>1, <2>2, <2>3, <2>4
<1> HIDE DEF w
<1>7. ASSUME NEW d \in Conns PROVE Count(w, {Sqe("recv", d)}) = 0 /\ Count(w, {Sqe("op", d)}) = 0
  <2>1. \A i \in 1..Len(w) : w[i] \notin {Sqe("recv", d)} /\ w[i] \notin {Sqe("op", d)}
    BY <1>4, <1>6, SqeFields
  <2> QED BY <1>6, <2>1, CountZero
<1>8. listener' \in [stalled : BOOLEAN, at : Nat]
  BY <1>1, <1>2
<1>9. AcceptOk'
  <2>1. /\ Len(sq') = Len(sq) + Len(w) /\ Len(sq) \in Nat /\ Len(w) \in Nat
        /\ \A i \in 1..Len(sq') : sq'[i] = IF i <= Len(sq) THEN sq[i] ELSE w[i - Len(sq)]
    BY <1>2, <1>6, Staged
  <2>2. Count(sq, Accepts) + One(kaccept) + Count(cq, AcceptLast) = One(~listener.stalled)
    BY <1>1, <1>2 DEF AcceptOk
  <2>3. ASSUME NEW i \in 1..Len(sq'), sq'[i] \in Accepts
        PROVE  i \in 1..Len(sq) /\ sq[i] \in Accepts
    <3>1. CASE i <= Len(sq)
      BY <2>1, <2>3, <3>1
    <3>2. CASE ~ (i <= Len(sq))
      <4>1. i - Len(sq) \in 1..Len(w) /\ sq'[i] = w[i - Len(sq)]
        BY <2>1, <3>2
      <4> QED BY <1>4, <1>6, <2>3, <4>1
    <3> QED BY <3>1, <3>2
  <2>4. CASE listener.stalled
    <3>1. Count(sq, Accepts) = 0 /\ ~kaccept
      BY <1>2, <2>2, <2>4 DEF One
    <3>2. \A i \in 1..Len(sq) : sq[i] \notin Accepts
      BY <1>2, <3>1, CountZero
    <3> QED BY <1>1, <2>3, <3>1, <3>2 DEF AcceptOk, Accepts
  <2>5. CASE ~listener.stalled
    <3>1. Len(sq) + 1 \in 1..Len(sq') /\ sq'[Len(sq) + 1] = a
      <4>1. (Len(sq) + 1) - Len(sq) = 1 /\ ~(Len(sq) + 1 <= Len(sq)) /\ Len(sq') = Len(sq) + 2
        BY <1>6, <2>1, <2>5
      <4>2. Len(sq) + 1 \in 1..Len(sq')
        BY <2>1, <4>1
      <4> QED BY <1>6, <2>1, <2>5, <4>1, <4>2
    <3>2. ASSUME NEW i \in 1..Len(sq'), sq'[i] \in Accepts
          PROVE  \E j \in (i + 1)..Len(sq') : sq'[j] \in Cancels
      <4>1. i \in 1..Len(sq)
        BY <2>3, <3>2
      <4>2. Len(sq) + 1 \in (i + 1)..Len(sq')
        BY <2>1, <3>1, <4>1
      <4> QED BY <1>4, <3>1, <4>2
    <3>3. \E j \in 1..Len(sq') : sq'[j] \in Cancels
      BY <1>4, <3>1
    <3> QED BY <1>1, <3>2, <3>3 DEF AcceptOk, Accepts, Cancels
  <2> QED BY <2>4, <2>5
<1> QED BY <1>1, <1>6, <1>7, <1>8, <1>9, ListenerStep

\* begin_drain's sweep of the starved list.
LEMMA SweepInv ==
    ASSUME Inv, Sweep, cfg' = cfg
    PROVE  Inv'
<1>0. PICK c : c = Last(starved)
  OBVIOUS
<1> DEFINE y == conn[c]
           z == [y EXCEPT !.eof = TRUE, !.recv = "done"]
           x == Wake(z)
<1>1. /\ frame = NoFrame /\ starved # <<>> /\ starved' = Front(starved)
      /\ Put(c, x) /\ frame' = [c |-> c, k |-> "unref"]
      /\ UNCHANGED <<ready, returned, staged, kfree, listener, sq, cq, batch, krecv, kop, kaccept,
                     draining, cfg>>
  BY <1>0 DEF Sweep, LoopAt, loopVars, bufVars, kVars
<1>2. TypeOK /\ LiveOk /\ EndFollows /\ AcceptOk /\ starved \in Seq(Conns)
  BY DEF Inv, TypeOK
<1>3. /\ c \in Conns /\ starved' \in Seq(Conns)
      /\ \A S : Count(starved, S) = One(c \in S) + Count(starved', S) /\ Count(starved', S) \in Nat
  <2>1. \A S : Front(starved) \in Seq(Conns) /\ Last(starved) \in Conns
               /\ Count(starved, S) = One(Last(starved) \in S) + Count(Front(starved), S)
    BY <1>1, <1>2, CountFront
  <2>2. \A S : Count(Front(starved), S) \in Nat
    BY <2>1, CountNat
  <2> QED BY <1>0, <1>1, <2>1, <2>2
<1>4. ConnOk(c) /\ y \in ConnType /\ ~Frame(c, "last") /\ ~Frame(c, "unref")
  BY <1>1, <1>2, <1>3 DEF Inv, TypeOK, Frame, NoFrame
<1>5. y.recv = "starved" /\ Count(starved', {c}) = 0
  <2>1. Count(starved, {c}) = One(y.recv = "starved")
    BY <1>4 DEF ConnOk, ListOk
  <2>2. Count(starved, {c}) = 1 + Count(starved', {c}) /\ Count(starved', {c}) \in Nat
    BY <1>3 DEF One
  <2> QED BY <2>1, <2>2 DEF One
<1>6. /\ z \in ConnType /\ z.recv = "done" /\ z.refs = y.refs /\ z.co = y.co
      /\ z.rx = y.rx /\ z.held = y.held
  BY <1>4 DEF ConnType
<1> HIDE DEF z
<1>7. /\ x \in ConnType /\ x.recv = "done" /\ x.refs = y.refs /\ x.rx = y.rx /\ x.held = y.held
      /\ (x.co = "none" <=> y.co = "none") /\ (x.co = "parked" <=> y.co = "parked")
      /\ (x.co = "ready" <=> y.co = "ready")
  BY <1>6, WakeOk
<1> HIDE DEF x
<1>8. /\ conn' \in [Conns -> ConnType] /\ live' \in Nat /\ LiveOk' /\ conn'[c] = x
      /\ \A d \in Conns : d # c => conn'[d] = conn[d]
  BY <1>1, <1>2, <1>3, <1>7, PutOk
<1>9. frame' \in FrameType /\ frame'.c = c /\ frame'.k = "unref"
  BY <1>1, <1>3 DEF FrameType
<1>10. TypeOK'
  BY <1>1, <1>2, <1>3, <1>8, <1>9 DEF TypeOK
<1>11. ASSUME NEW d \in Conns PROVE ConnOk(d)'
  <2>0. /\ RecvsInSq(d)' = RecvsInSq(d) /\ OpsInSq(d)' = OpsInSq(d)
        /\ EndsInCq(d)' = EndsInCq(d) /\ DonesInCq(d)' = DonesInCq(d)
    BY <1>1 DEF RecvsInSq, OpsInSq, EndsInCq, DonesInCq
  <2>1. CASE d = c
    <3>1. Frame(c, "unref")' /\ ~Frame(c, "last")'
      BY <1>9 DEF Frame
    <3>2. RecvOk(c)'
      BY <1>1, <1>4, <1>5, <1>7, <1>8, <2>0, <2>1, <3>1 DEF ConnOk, RecvOk
    <3>3. OpOk(c)'
      BY <1>1, <1>4, <1>7, <1>8, <2>0, <2>1 DEF ConnOk, OpOk
    <3>4. ListOk(c)'
      BY <1>1, <1>4, <1>5, <1>7, <1>8 DEF ConnOk, ListOk, One
    <3>5. RefsOk(c)'
      BY <1>4, <1>5, <1>7, <1>8, <3>1 DEF ConnOk, RefsOk, One
    <3>6. GoneOk(c)'
      BY <1>4, <1>7, <1>8 DEF ConnOk, GoneOk
    <3> QED BY <2>1, <3>2, <3>3, <3>4, <3>5, <3>6 DEF ConnOk
  <2>2. CASE d # c
    <3>1. ~Frame(d, "last") /\ ~Frame(d, "unref") /\ ~Frame(d, "last")' /\ ~Frame(d, "unref")'
      BY <1>1, <1>9, <2>2 DEF Frame, NoFrame
    <3>2. Count(starved', {d}) = Count(starved, {d})
      <4>1. c \notin {d}
        BY <2>2
      <4> QED BY <1>3, <4>1 DEF One
    <3>3. Same(d)
      BY <1>1, <1>8, <2>0, <2>2, <3>1, <3>2 DEF Same
    <3> QED BY <3>3, SameOk DEF Inv
  <2> QED BY <2>1, <2>2
<1>12. EndFollows'
  BY <1>1, <1>2 DEF EndFollows, RecvEnds
<1>13. AcceptOk'
  BY <1>1, <1>2, AcceptSame
<1>14. \A b \in cfg.buffers : BufferOk(b)'
  BY <1>1, <1>3, <1>7, <1>8, BufSame
<1> QED BY <1>8, <1>10, <1>11, <1>12, <1>13, <1>14 DEF Inv

\* run_ready
LEMMA RunReadyInv ==
    ASSUME Inv, RunReady, cfg' = cfg
    PROVE  Inv'
<1>0. PICK c : c = Head(ready)
  OBVIOUS
<1> DEFINE y == conn[c]
           x == [y EXCEPT !.co = "run"]
<1>1. /\ ready # <<>> /\ ready' = Tail(ready) /\ Put(c, x)
      /\ UNCHANGED <<frame, starved, returned, staged, kfree, listener, sq, cq, batch, krecv, kop,
                     kaccept, draining, cfg>>
  BY <1>0 DEF RunReady, loopVars, bufVars, kVars
<1>2. TypeOK /\ LiveOk /\ EndFollows /\ AcceptOk /\ ready \in Seq(Conns)
  BY DEF Inv, TypeOK
<1>3. /\ c \in Conns /\ ready' \in Seq(Conns)
      /\ \A S : Count(ready, S) = One(c \in S) + Count(ready', S) /\ Count(ready', S) \in Nat
  <2>1. \A S : Head(ready) \in Conns /\ Tail(ready) \in Seq(Conns)
               /\ Count(ready, S) = One(Head(ready) \in S) + Count(Tail(ready), S)
    BY <1>1, <1>2, CountTail
  <2>2. \A S : Count(Tail(ready), S) \in Nat
    BY <2>1, CountNat
  <2> QED BY <1>0, <1>1, <2>1, <2>2
<1>4. ConnOk(c) /\ y \in ConnType
  BY <1>2, <1>3 DEF Inv, TypeOK
<1>5. y.co = "ready" /\ Count(ready', {c}) = 0
  <2>1. Count(ready, {c}) = One(y.co = "ready")
    BY <1>4 DEF ConnOk, ListOk
  <2>2. Count(ready, {c}) = 1 + Count(ready', {c}) /\ Count(ready', {c}) \in Nat
    BY <1>3 DEF One
  <2> QED BY <2>1, <2>2 DEF One
<1>6. /\ x \in ConnType /\ x.recv = y.recv /\ x.refs = y.refs /\ x.co = "run"
      /\ x.rx = y.rx /\ x.held = y.held
  BY <1>4 DEF ConnType
<1> HIDE DEF x
<1>8. /\ conn' \in [Conns -> ConnType] /\ live' \in Nat /\ LiveOk' /\ conn'[c] = x
      /\ \A d \in Conns : d # c => conn'[d] = conn[d]
  BY <1>1, <1>2, <1>3, <1>6, PutOk
<1>10. TypeOK'
  BY <1>1, <1>2, <1>3, <1>8 DEF TypeOK
<1>11. ASSUME NEW d \in Conns PROVE ConnOk(d)'
  <2>0. /\ RecvsInSq(d)' = RecvsInSq(d) /\ OpsInSq(d)' = OpsInSq(d)
        /\ EndsInCq(d)' = EndsInCq(d) /\ DonesInCq(d)' = DonesInCq(d)
        /\ (Frame(d, "last")' <=> Frame(d, "last")) /\ (Frame(d, "unref")' <=> Frame(d, "unref"))
    BY <1>1 DEF RecvsInSq, OpsInSq, EndsInCq, DonesInCq, Frame
  <2>1. CASE d = c
    <3>2. RecvOk(c)'
      BY <1>1, <1>4, <1>6, <1>8, <2>0, <2>1 DEF ConnOk, RecvOk
    <3>3. OpOk(c)'
      BY <1>1, <1>4, <1>5, <1>6, <1>8, <2>0, <2>1 DEF ConnOk, OpOk
    <3>4. ListOk(c)'
      BY <1>1, <1>4, <1>5, <1>6, <1>8 DEF ConnOk, ListOk, One
    <3>5. RefsOk(c)' /\ GoneOk(c)'
      BY <1>4, <1>5, <1>6, <1>8, <2>0, <2>1 DEF ConnOk, RefsOk, GoneOk, One
    <3> QED BY <2>1, <3>2, <3>3, <3>4, <3>5 DEF ConnOk
  <2>2. CASE d # c
    <3>2. Count(ready', {d}) = Count(ready, {d})
      <4>1. c \notin {d}
        BY <2>2
      <4> QED BY <1>3, <4>1 DEF One
    <3>3. Same(d)
      BY <1>1, <1>8, <2>0, <2>2, <3>2 DEF Same
    <3> QED BY <3>3, SameOk DEF Inv
  <2> QED BY <2>1, <2>2
<1>12. EndFollows'
  BY <1>1, <1>2 DEF EndFollows, RecvEnds
<1>13. AcceptOk'
  BY <1>1, <1>2, AcceptSame
<1>14. \A b \in cfg.buffers : BufferOk(b)'
  BY <1>1, <1>3, <1>6, <1>8, BufSame
<1> QED BY <1>8, <1>10, <1>11, <1>12, <1>13, <1>14 DEF Inv

\* rearm_starved
LEMMA RearmStarvedInv ==
    ASSUME Inv, RearmStarved, cfg' = cfg
    PROVE  Inv'
<1>0. PICK n : n = IF returned < Len(starved) THEN returned ELSE Len(starved)
  OBVIOUS
<1> DEFINE now == SubSeq(starved, 1, n)
           w == [i \in 1..n |-> Sqe("recv", now[i])]
<1>1. /\ returned' = 0 /\ Publish /\ sq' = sq \o w
      /\ conn' = [c \in Conns |-> IF c \in ToSet(now) THEN Arm(conn[c]) ELSE conn[c]]
      /\ starved' = SubSeq(starved, n + 1, Len(starved))
      /\ UNCHANGED <<frame, live, ready, listener, cq, batch, krecv, kop, kaccept, draining, cfg>>
  BY <1>0 DEF RearmStarved, Goto, kVars
<1>2. /\ TypeOK /\ LiveOk /\ EndFollows /\ AcceptOk /\ starved \in Seq(Conns) /\ returned \in Nat
      /\ conn \in [Conns -> ConnType] /\ Len(starved) \in Nat
  BY LenProperties DEF Inv, TypeOK
<1>3. n \in 0..Len(starved) /\ n \in Nat
  BY <1>0, <1>2
<1>4. /\ now \in Seq(Conns) /\ starved' \in Seq(Conns) /\ Len(now) = n
      /\ \A S : Count(starved, S) = Count(now, S) + Count(starved', S)
  <2>1. \A S : /\ SubSeq(starved, 1, n) \in Seq(Conns) /\ SubSeq(starved, n + 1, Len(starved)) \in Seq(Conns)
               /\ Len(SubSeq(starved, 1, n)) = n
               /\ Count(starved, S) = Count(SubSeq(starved, 1, n), S)
                                      + Count(SubSeq(starved, n + 1, Len(starved)), S)
    BY <1>2, <1>3, CountSplit
  <2> QED BY <1>1, <2>1
<1> HIDE DEF now
<1>5. /\ w \in Seq(SqeType) /\ Len(w) = n
      /\ \A c \in Conns : Count(w, {Sqe("recv", c)}) = Count(now, {c}) /\ Count(w, {Sqe("op", c)}) = 0
      /\ \A i \in 1..n : w[i].op = "recv"
  BY <1>3, <1>4, CountRecvs
<1> HIDE DEF w
<1>6. NoAccept(w)
  BY <1>5 DEF NoAccept
<1>7. /\ sq' \in Seq(SqeType)
      /\ \A d \in Conns : /\ RecvsInSq(d)' = RecvsInSq(d) + Count(w, {Sqe("recv", d)})
                          /\ OpsInSq(d)' = OpsInSq(d) + Count(w, {Sqe("op", d)})
  BY <1>1, <1>2, <1>5, Staged
<1>8. ASSUME NEW c \in Conns PROVE c \in ToSet(now) <=> Count(now, {c}) # 0
  <2>1. ToSet(now) = {now[i] : i \in 1..Len(now)}
    BY <1>4, LenProperties DEF ToSet
  <2>2. Count(now, {c}) = 0 <=> \A i \in 1..Len(now) : now[i] \notin {c}
    BY <1>4, CountZero
  <2> QED BY <2>1, <2>2
<1>9. ASSUME NEW c \in Conns
      PROVE  /\ conn'[c] \in ConnType /\ conn'[c].refs = conn[c].refs /\ conn'[c].co = conn[c].co
             /\ conn'[c].rx = conn[c].rx /\ conn'[c].held = conn[c].held
             /\ conn'[c].closed = conn[c].closed
             /\ c \in ToSet(now) => conn'[c].recv = "armed"
             /\ c \notin ToSet(now) => conn'[c] = conn[c]
  <2>1. conn[c] \in ConnType
    BY <1>2
  <2>2. CASE c \in ToSet(now)
    <3>1. conn'[c] = Arm(conn[c])
      BY <1>1, <2>2
    <3> QED BY <2>1, <2>2, <3>1 DEF ConnType, Arm
  <2>3. CASE c \notin ToSet(now)
    <3>1. conn'[c] = conn[c]
      BY <1>1, <2>3
    <3> QED BY <2>1, <2>3, <3>1
  <2> QED BY <2>2, <2>3
<1>10. conn' \in [Conns -> ConnType]
  <2>1. \A c \in Conns : conn'[c] \in ConnType
    BY <1>9
  <2> QED BY <1>1, <2>1
<1>11. /\ \A b \in cfg.buffers : BufferOk(b)'
       /\ kfree' \subseteq Buffers /\ staged' \subseteq Buffers
  BY <1>1, <1>9, BufPublish
<1>12. TypeOK'
  BY <1>1, <1>2, <1>4, <1>7, <1>10, <1>11 DEF TypeOK
<1>13. ASSUME NEW c \in Conns PROVE ConnOk(c)'
  <2>1. /\ ConnOk(c) /\ RecvsInSq(c) \in Nat /\ OpsInSq(c) \in Nat /\ Count(starved, {c}) \in Nat
    BY <1>2, Nats DEF Inv
  <2>2. /\ RecvsInSq(c)' = RecvsInSq(c) + Count(now, {c}) /\ OpsInSq(c)' = OpsInSq(c)
    <3>1. Count(w, {Sqe("recv", c)}) = Count(now, {c}) /\ Count(w, {Sqe("op", c)}) = 0
      BY <1>5
    <3>2. /\ RecvsInSq(c)' = RecvsInSq(c) + Count(w, {Sqe("recv", c)})
          /\ OpsInSq(c)' = OpsInSq(c) + Count(w, {Sqe("op", c)})
      BY <1>7
    <3> QED BY <2>1, <3>1, <3>2
  <2>3. /\ EndsInCq(c)' = EndsInCq(c) /\ DonesInCq(c)' = DonesInCq(c)
        /\ (Frame(c, "last")' <=> Frame(c, "last")) /\ (Frame(c, "unref")' <=> Frame(c, "unref"))
    BY <1>1 DEF EndsInCq, DonesInCq, Frame
  <2>4. /\ Count(starved, {c}) = Count(now, {c}) + Count(starved', {c})
        /\ Count(now, {c}) \in Nat /\ Count(starved', {c}) \in Nat
    BY <1>4, CountNat
  <2>5. CASE c \notin ToSet(now)
    <3>1. Count(now, {c}) = 0 /\ conn'[c] = conn[c]
      BY <1>8, <1>9, <2>5
    <3>2. Same(c)
      BY <1>1, <2>1, <2>2, <2>3, <2>4, <3>1 DEF Same
    <3> QED BY <2>1, <3>2, SameOk
  <2>6. CASE c \in ToSet(now)
    <3>1. Count(now, {c}) # 0 /\ conn'[c].recv = "armed"
      BY <1>8, <1>9, <2>6
    <3>2. Count(starved, {c}) = One(conn[c].recv = "starved")
      BY <2>1 DEF ConnOk, ListOk
    <3>3. conn[c].recv = "starved" /\ Count(now, {c}) = 1 /\ Count(starved', {c}) = 0
      BY <2>4, <3>1, <3>2 DEF One
    <3>4. RecvOk(c)'
      <4>1. RecvsInSq(c) = 0 /\ c \notin krecv /\ EndsInCq(c) = 0 /\ ~Frame(c, "last")
        BY <2>1, <3>3 DEF ConnOk, RecvOk
      <4>2. RecvsInSq(c)' = 1
        BY <2>2, <3>3, <4>1
      <4> QED BY <1>1, <2>3, <3>1, <4>1, <4>2 DEF RecvOk
    <3>5. OpOk(c)'
      BY <1>1, <1>9, <2>1, <2>2, <2>3 DEF ConnOk, OpOk
    <3>6. ListOk(c)'
      BY <1>1, <1>9, <2>1, <3>1, <3>3 DEF ConnOk, ListOk, One
    <3>7. RefsOk(c)'
      BY <1>9, <2>1, <2>3, <3>1, <3>3 DEF ConnOk, RefsOk, One
    <3>8. GoneOk(c)'
      BY <1>9, <2>1, <3>3 DEF ConnOk, GoneOk
    <3> QED BY <3>4, <3>5, <3>6, <3>7, <3>8 DEF ConnOk
  <2> QED BY <2>5, <2>6
<1>14. EndFollows'
  BY <1>1, <1>2 DEF EndFollows, RecvEnds
<1>15. LiveOk'
  <2>1. Open' = Open
    BY <1>9 DEF Open
  <2> QED BY <1>1, <1>2, <2>1 DEF LiveOk
<1>16. AcceptOk'
  BY <1>1, <1>2, <1>6, AcceptStaged
<1> QED BY <1>11, <1>12, <1>13, <1>14, <1>15, <1>16 DEF Inv

-----------------------------------------------------------------------------
(* The kernel.                                                             *)

\* What the kernel does, when it posts v: each recv and each op stays in one place,
\* a recv that leaves the kernel ends, a buffer that leaves the ring is in a CQE.
LEMMA KernelStep ==
    ASSUME Inv, KFrame, cfg' = cfg, sq' \in Seq(SqeType),
           NEW v \in Seq(CqeType), cq' = cq \o v,
           krecv' \subseteq Conns, kop' \subseteq Conns, kfree' \subseteq Buffers,
           \A d \in Conns : RecvOk(d)' /\ OpOk(d)',
           \A c \in krecv : c \in krecv' \/ \E j \in 1..Len(v) : v[j] \in RecvEnds(c),
           \A i \in 1..Len(v) : v[i].t = "recv" => v[i].c \in krecv' \/ v[i] \in RecvEnds(v[i].c),
           \A b \in cfg.buffers : One(b \in kfree') + Count(v, Bearing(b)) = One(b \in kfree),
           AcceptOk'
    PROVE  Inv'
<1>1. UNCHANGED <<conn, frame, live, ready, starved, returned, staged, listener, batch, draining>>
  BY DEF KFrame, loopVars
<1>2. TypeOK /\ EndFollows /\ LiveOk
  BY DEF Inv
<1>3. /\ cq' \in Seq(CqeType) /\ batch' \in Nat /\ batch' <= Len(cq')
      /\ \A S : Count(cq', S) = Count(cq, S) + Count(v, S)
  BY <1>1, <1>2, Posted
<1>4. TypeOK'
  BY <1>1, <1>2, <1>3 DEF TypeOK
<1>5. ASSUME NEW d \in Conns PROVE ConnOk(d)'
  <2>1. ListOk(d) /\ RefsOk(d) /\ GoneOk(d) /\ (Frame(d, "unref")' <=> Frame(d, "unref"))
    BY <1>1 DEF Inv, ConnOk, Frame
  <2>2. ListOk(d)' /\ RefsOk(d)' /\ GoneOk(d)'
    BY <1>1, <2>1 DEF ListOk, RefsOk, GoneOk, One
  <2> QED BY <2>2 DEF ConnOk
<1>6. EndFollows'
  BY <1>1, <1>2, EndPosted
<1>7. LiveOk'
  BY <1>1, <1>2 DEF LiveOk, Open
<1>8. ASSUME NEW b \in cfg.buffers PROVE BufferOk(b)'
  <2>1. /\ InRings(b) = One(b \in kfree) + One(b \in staged) + Count(cq, Bearing(b))
        /\ InRings(b)' = One(b \in kfree') + One(b \in staged) + Count(cq', Bearing(b))
    BY <1>1 DEF InRings, Bearing
  <2>2. /\ Count(cq', Bearing(b)) = Count(cq, Bearing(b)) + Count(v, Bearing(b))
        /\ Count(cq, Bearing(b)) \in Nat /\ Count(v, Bearing(b)) \in Nat
    BY <1>2, <1>3, BufNats, CountNat
  <2>3. One(b \in kfree') + Count(v, Bearing(b)) = One(b \in kfree)
        /\ One(b \in kfree') \in Nat /\ One(b \in kfree) \in Nat /\ One(b \in staged) \in Nat
    BY DEF One
  <2>4. InRings(b)' = InRings(b)
    BY <2>1, <2>2, <2>3
  <2>5. \A d \in Conns : With(b, d)' = With(b, d)
    BY <1>1 DEF With
  <2> QED BY <2>4, <2>5, BufRings DEF Inv
<1> QED BY <1>4, <1>5, <1>6, <1>7, <1>8 DEF Inv

\* The CQEs there are.
LEMMA CqeTypes ==
    /\ \A c \in Conns : /\ Cqe("recv", c, "enobufs", FALSE, None) \in CqeType
                        /\ Ended(c) \in CqeType
                        /\ Cqe("op", c, "done", FALSE, None) \in CqeType
                        /\ \A b \in Buffers \cup {None} : Cqe("recv", c, "fin", FALSE, b) \in CqeType
                        /\ \A b \in Buffers, m \in BOOLEAN : Cqe("recv", c, "data", m, b) \in CqeType
    /\ \A k \in {"known", "refused"} : Cqe("drain", None, k, FALSE, None) \in CqeType
    /\ \A k \in {"cancelled", "failed", "exhausted"} : AcceptEnds(k) \in CqeType
    /\ \A m \in BOOLEAN : Cqe("accept", None, "ok", m, None) \in CqeType
<1>1. /\ \A c \in Conns : /\ Cqe("recv", c, "enobufs", FALSE, None) \in CqeType
                          /\ Ended(c) \in CqeType
                          /\ Cqe("op", c, "done", FALSE, None) \in CqeType
  BY DEF Cqe, CqeType, Ended
<1>2. \A c \in Conns, b \in Buffers \cup {None} : Cqe("recv", c, "fin", FALSE, b) \in CqeType
  BY DEF Cqe, CqeType
<1>3. \A c \in Conns, b \in Buffers, m \in BOOLEAN : Cqe("recv", c, "data", m, b) \in CqeType
  BY NoneOut DEF Cqe, CqeType
<1>4. /\ \A k \in {"known", "refused"} : Cqe("drain", None, k, FALSE, None) \in CqeType
      /\ \A k \in {"cancelled", "failed", "exhausted"} : AcceptEnds(k) \in CqeType
  BY DEF Cqe, CqeType, AcceptEnds
<1>5. \A m \in BOOLEAN : Cqe("accept", None, "ok", m, None) \in CqeType
  BY DEF Cqe, CqeType
<1> QED BY <1>1, <1>2, <1>3, <1>4, <1>5

\* How the counts go on when v is posted.
LEMMA CqGrows ==
    ASSUME Inv, KFrame, NEW v \in Seq(CqeType), cq' = cq \o v
    PROVE  /\ \A d \in Conns :
                /\ EndsInCq(d) \in Nat /\ DonesInCq(d) \in Nat
                /\ EndsInCq(d)' = EndsInCq(d) + Count(v, RecvEnds(d))
                /\ DonesInCq(d)' = DonesInCq(d) + Count(v, OpDones(d))
                /\ (Frame(d, "last")' <=> Frame(d, "last")) /\ conn'[d] = conn[d]
           /\ Count(cq', AcceptLast) = Count(cq, AcceptLast) + Count(v, AcceptLast)
           /\ Count(cq, AcceptLast) \in Nat
           /\ TypeOK /\ EndFollows /\ AcceptOk
<1>1. UNCHANGED <<conn, frame, batch>> /\ TypeOK /\ cq \in Seq(CqeType) /\ EndFollows /\ AcceptOk
  BY DEF KFrame, Inv, TypeOK
<1>2. \A S : Count(cq', S) = Count(cq, S) + Count(v, S)
  BY <1>1, Posted
<1>3. ASSUME NEW d \in Conns
      PROVE /\ EndsInCq(d) \in Nat /\ DonesInCq(d) \in Nat
            /\ EndsInCq(d)' = EndsInCq(d) + Count(v, RecvEnds(d))
            /\ DonesInCq(d)' = DonesInCq(d) + Count(v, OpDones(d))
            /\ (Frame(d, "last")' <=> Frame(d, "last")) /\ conn'[d] = conn[d]
  BY <1>1, <1>2, Nats DEF EndsInCq, DonesInCq, Frame, RecvEnds, OpDones
<1>4. Count(cq, AcceptLast) \in Nat
  BY <1>1, CountNat
<1> QED BY <1>1, <1>2, <1>3, <1>4

\* Nothing is posted.
LEMMA CqStays ==
    ASSUME Inv, cq' = cq
    PROVE  \E v \in Seq(CqeType) : cq' = cq \o v /\ Len(v) = 0 /\ \A S : Count(v, S) = 0
<1> DEFINE v == <<>>
<1>1. v \in Seq(CqeType) /\ cq' = cq \o v /\ Len(v) = 0 /\ \A S : Count(v, S) = 0
  BY ConcatEmptySeq, CountEmpty DEF Inv, TypeOK
<1> HIDE DEF v
<1> QED BY <1>1

\* One CQE is posted.
LEMMA CqGets ==
    ASSUME Inv, NEW e \in CqeType, Post(e)
    PROVE  \E v \in Seq(CqeType) : /\ cq' = cq \o v /\ Len(v) = 1 /\ v[1] = e
                                   /\ \A S : Count(v, S) = One(e \in S)
<1> DEFINE v == <<e>>
<1>1. v \in Seq(CqeType) /\ cq' = cq \o v /\ Len(v) = 1 /\ v[1] = e /\ \A S : Count(v, S) = One(e \in S)
  BY PostCat DEF Inv, Post
<1> HIDE DEF v
<1> QED BY <1>1

\* The kernel takes an SQE.
LEMMA SqHead ==
    ASSUME Inv, NEW op, KTake(op)
    PROVE  /\ sq # <<>> /\ sq' = Tail(sq) /\ KFrame /\ sq' \in Seq(SqeType)
           /\ Head(sq).op = op /\ Head(sq) = sq[1] /\ 1 \in 1..Len(sq)
           /\ Head(sq) = Sqe(op, Head(sq).c)
           /\ op \in {"recv", "cancel", "op"} => Head(sq).c \in Conns
           /\ \A d \in Conns :
                /\ RecvsInSq(d)' \in Nat /\ OpsInSq(d)' \in Nat
                /\ RecvsInSq(d) = One(op = "recv" /\ Head(sq).c = d) + RecvsInSq(d)'
                /\ OpsInSq(d) = One(op = "op" /\ Head(sq).c = d) + OpsInSq(d)'
<1>1. sq # <<>> /\ sq' = Tail(sq) /\ KFrame /\ Head(sq).op = op /\ TypeOK
  BY DEF KTake, Inv
<1>2. /\ Head(sq) \in SqeType /\ sq' \in Seq(SqeType) /\ Head(sq) = sq[1]
      /\ \A d \in Conns : /\ RecvsInSq(d) = One(Head(sq) = Sqe("recv", d)) + RecvsInSq(d)'
                          /\ OpsInSq(d) = One(Head(sq) = Sqe("op", d)) + OpsInSq(d)'
      /\ Len(sq) \in Nat \ {0}
  BY <1>1, SqTaken
<1>3. /\ Head(sq) = Sqe(op, Head(sq).c)
      /\ op \in {"recv", "cancel", "op"} => Head(sq).c \in Conns
  BY <1>1, <1>2 DEF SqeType, Sqe
<1>4. ASSUME NEW d \in Conns
      PROVE  /\ RecvsInSq(d)' \in Nat /\ OpsInSq(d)' \in Nat
             /\ RecvsInSq(d) = One(op = "recv" /\ Head(sq).c = d) + RecvsInSq(d)'
             /\ OpsInSq(d) = One(op = "op" /\ Head(sq).c = d) + OpsInSq(d)'
  <2>1. RecvsInSq(d)' \in Nat /\ OpsInSq(d)' \in Nat
    BY <1>2, CountNat DEF RecvsInSq, OpsInSq
  <2>2. /\ Head(sq) = Sqe("recv", d) <=> op = "recv" /\ Head(sq).c = d
        /\ Head(sq) = Sqe("op", d) <=> op = "op" /\ Head(sq).c = d
    BY <1>3, SqeFields
  <2> QED BY <1>2, <2>1, <2>2 DEF One
<1>5. 1 \in 1..Len(sq)
  BY <1>2
<1> QED BY <1>1, <1>2, <1>3, <1>4, <1>5

\* A connection whose recv, or whose op, stays where it is.
LEMMA RecvStays ==
    ASSUME NEW d \in Conns, ConnOk(d), conn'[d] = conn[d],
           RecvsInSq(d)' = RecvsInSq(d), EndsInCq(d)' = EndsInCq(d),
           d \in krecv' <=> d \in krecv, Frame(d, "last")' <=> Frame(d, "last")
    PROVE  RecvOk(d)'
BY DEF ConnOk, RecvOk

\* ... and its op.
LEMMA OpStays ==
    ASSUME NEW d \in Conns, ConnOk(d), conn'[d] = conn[d],
           OpsInSq(d)' = OpsInSq(d), DonesInCq(d)' = DonesInCq(d), d \in kop' <=> d \in kop
    PROVE  OpOk(d)'
BY DEF ConnOk, OpOk

\* What a CQE is counted as, by its fields.
LEMMA CqeCounted ==
    ASSUME NEW e \in CqeType
    PROVE  /\ \A d : e \in RecvEnds(d) <=> e.t = "recv" /\ e.c = d /\ ~e.more
           /\ \A d : e \in OpDones(d) <=> e.t = "op" /\ e.c = d
           /\ e \in AcceptLast <=> e.t = "accept" /\ ~e.more
           /\ \A b : e \in Bearing(b) <=> e.b = b
BY DEF RecvEnds, OpDones, AcceptLast, Bearing

\* The SQEs the kernel did not take are as many as before.
SqSame == /\ sq' \in Seq(SqeType)
          /\ \A d \in Conns : RecvsInSq(d)' = RecvsInSq(d) /\ OpsInSq(d)' = OpsInSq(d)

\* A recv ends in the kernel.
LEMMA KEnds ==
    ASSUME Inv, KFrame, cfg' = cfg, SqSame, NEW c \in krecv,
           NEW e \in CqeType, e.t = "recv", e.c = c, ~e.more, Post(e),
           krecv' = krecv \ {c}, kop' = kop, kfree' \subseteq Buffers,
           \A b \in cfg.buffers : One(b \in kfree') + One(e.b = b) = One(b \in kfree),
           Count(cq', AcceptLast) = Count(cq, AcceptLast) => AcceptOk'
    PROVE  Inv'
<1>1. PICK v \in Seq(CqeType) : /\ cq' = cq \o v /\ Len(v) = 1 /\ v[1] = e
                                /\ \A S : Count(v, S) = One(e \in S)
  BY CqGets
<1>2. /\ Count(cq, AcceptLast) \in Nat
      /\ Count(cq', AcceptLast) = Count(cq, AcceptLast) + Count(v, AcceptLast)
      /\ \A d \in Conns :
           /\ EndsInCq(d) \in Nat /\ DonesInCq(d) \in Nat
           /\ EndsInCq(d)' = EndsInCq(d) + Count(v, RecvEnds(d))
           /\ DonesInCq(d)' = DonesInCq(d) + Count(v, OpDones(d))
           /\ (Frame(d, "last")' <=> Frame(d, "last")) /\ conn'[d] = conn[d]
  BY <1>1, CqGrows
<1>3. /\ \A d : Count(v, RecvEnds(d)) = One(c = d) /\ Count(v, OpDones(d)) = 0
      /\ Count(v, AcceptLast) = 0 /\ \A b : Count(v, Bearing(b)) = One(e.b = b)
      /\ e \in RecvEnds(c)
  BY <1>1, CqeCounted DEF One
<1>4. c \in Conns /\ krecv \subseteq Conns /\ kop \subseteq Conns /\ \A d \in Conns : ConnOk(d)
  BY DEF Inv, TypeOK
<1>5. ASSUME NEW d \in Conns PROVE RecvOk(d)' /\ OpOk(d)'
  <2>1. OpOk(d)'
    <3>1. DonesInCq(d)' = DonesInCq(d)
      BY <1>2, <1>3
    <3> QED BY <1>2, <1>4, <3>1, OpStays DEF SqSame
  <2>2. CASE d # c
    <3>1. EndsInCq(d)' = EndsInCq(d)
      BY <1>2, <1>3, <2>2 DEF One
    <3>2. RecvOk(d)'
      BY <1>2, <1>4, <2>2, <3>1, RecvStays DEF SqSame
    <3> QED BY <2>1, <3>2
  <2>3. CASE d = c
    <3>1. conn[c].recv = "armed" /\ RecvsInSq(c) = 0 /\ EndsInCq(c) = 0 /\ ~Frame(c, "last")
      BY <1>4 DEF ConnOk, RecvOk
    <3>2. EndsInCq(c)' = 1
      <4>1. EndsInCq(c)' = EndsInCq(c) + Count(v, RecvEnds(c)) /\ Count(v, RecvEnds(c)) = 1
        BY <1>2, <1>3, <1>4 DEF One
      <4> QED BY <3>1, <4>1
    <3>3. conn'[c] = conn[c] /\ ~Frame(c, "last")' /\ RecvsInSq(c)' = 0 /\ c \notin krecv'
      BY <1>2, <1>4, <3>1 DEF SqSame
    <3>4. RecvOk(c)'
      BY <3>1, <3>2, <3>3 DEF RecvOk
    <3> QED BY <2>1, <2>3, <3>4
  <2> QED BY <2>2, <2>3
<1>6. \A d \in krecv : d \in krecv' \/ \E j \in 1..Len(v) : v[j] \in RecvEnds(d)
  BY <1>1, <1>3
<1>7. \A i \in 1..Len(v) : v[i].t = "recv" => v[i].c \in krecv' \/ v[i] \in RecvEnds(v[i].c)
  BY <1>1, <1>3
<1>8. AcceptOk'
  BY <1>2, <1>3
<1>9. \A b \in cfg.buffers : One(b \in kfree') + Count(v, Bearing(b)) = One(b \in kfree)
  BY <1>3
<1>10. krecv' \subseteq Conns /\ kop' \subseteq Conns
  BY <1>4
<1> QED BY <1>1, <1>5, <1>6, <1>7, <1>8, <1>9, <1>10, KernelStep DEF SqSame

\* No recv and no op moves.
LEMMA KQuiet ==
    ASSUME Inv, KFrame, cfg' = cfg, SqSame, NEW v \in Seq(CqeType), cq' = cq \o v,
           \A i \in 1..Len(v) : v[i].t \in {"drain", "accept"},
           krecv' = krecv, kop' = kop, kfree' = kfree, AcceptOk'
    PROVE  Inv'
<1>1. \A d \in Conns :
           /\ EndsInCq(d) \in Nat /\ DonesInCq(d) \in Nat
           /\ EndsInCq(d)' = EndsInCq(d) + Count(v, RecvEnds(d))
           /\ DonesInCq(d)' = DonesInCq(d) + Count(v, OpDones(d))
           /\ (Frame(d, "last")' <=> Frame(d, "last")) /\ conn'[d] = conn[d]
  BY CqGrows
<1>2. krecv \subseteq Conns /\ kop \subseteq Conns /\ kfree \subseteq Buffers
      /\ (\A d \in Conns : ConnOk(d)) /\ cfg.buffers \subseteq Buffers
  BY WorkerAssumption DEF Inv, TypeOK, Setup
<1>3. ASSUME NEW i \in 1..Len(v) PROVE v[i].b = None /\ v[i].t # "recv" /\ v[i].t # "op"
  <2>1. v[i] \in CqeType
    BY ElementOfSeq
  <2> QED BY <2>1 DEF CqeType
<1>4. ASSUME NEW d \in Conns PROVE Count(v, RecvEnds(d)) = 0 /\ Count(v, OpDones(d)) = 0
  <2>1. \A i \in 1..Len(v) : v[i] \notin RecvEnds(d) /\ v[i] \notin OpDones(d)
    BY <1>3 DEF RecvEnds, OpDones
  <2> QED BY <2>1, CountZero
<1>5. ASSUME NEW b \in Buffers PROVE Count(v, Bearing(b)) = 0
  <2>1. \A i \in 1..Len(v) : v[i] \notin Bearing(b)
    BY <1>3, NoneOut DEF Bearing
  <2> QED BY <2>1, CountZero
<1>6. ASSUME NEW d \in Conns PROVE RecvOk(d)' /\ OpOk(d)'
  <2>1. EndsInCq(d)' = EndsInCq(d) /\ DonesInCq(d)' = DonesInCq(d)
    BY <1>1, <1>4
  <2> QED BY <1>1, <1>2, <2>1, RecvStays, OpStays DEF SqSame
<1>7. \A b \in cfg.buffers : One(b \in kfree') + Count(v, Bearing(b)) = One(b \in kfree)
  BY <1>2, <1>5 DEF One
<1>8. \A i \in 1..Len(v) : v[i].t = "recv" => v[i].c \in krecv' \/ v[i] \in RecvEnds(v[i].c)
  BY <1>3
<1> QED BY <1>2, <1>6, <1>7, <1>8, KernelStep DEF SqSame

\* The kernel takes an SQE that is neither a recv nor an op.
LEMMA SqOther ==
    ASSUME Inv, NEW op \in {"cancel", "close", "accept", "cancelaccept", "blanket"}, KTake(op)
    PROVE  SqSame
<1>1. /\ sq' \in Seq(SqeType)
      /\ \A d \in Conns :
                /\ RecvsInSq(d)' \in Nat /\ OpsInSq(d)' \in Nat
                /\ RecvsInSq(d) = One(op = "recv" /\ Head(sq).c = d) + RecvsInSq(d)'
                /\ OpsInSq(d) = One(op = "op" /\ Head(sq).c = d) + OpsInSq(d)'
  BY SqHead
<1>2. \A d \in Conns : One(op = "recv" /\ Head(sq).c = d) = 0 /\ One(op = "op" /\ Head(sq).c = d) = 0
  BY DEF One
<1> QED BY <1>1, <1>2 DEF SqSame

\* A recv is cancelled by name, or had ended before.
LEMMA KCancelInv ==
    ASSUME Inv, KCancel, cfg' = cfg
    PROVE  Inv'
<1>0. PICK c : c = Head(sq).c
  OBVIOUS
<1>1. KTake("cancel") /\ kop' = kop /\ kaccept' = kaccept /\ kfree' = kfree
  BY DEF KCancel
<1>2. sq # <<>> /\ sq' = Tail(sq) /\ KFrame /\ Head(sq).op = "cancel" /\ c \in Conns
  BY <1>0, <1>1, SqHead
<1>3. SqSame
  BY <1>1, SqOther
<1>4. Count(cq', AcceptLast) = Count(cq, AcceptLast) => AcceptOk'
  BY <1>1, <1>2, AcceptTaken DEF KFrame, loopVars, Inv
<1>5. CASE c \in krecv
  <2>1. krecv' = krecv \ {c} /\ Post(Ended(c))
    BY <1>0, <1>5 DEF KCancel
  <2>2. PICK e : e = Ended(c)
    OBVIOUS
  <2>3. e \in CqeType
    BY <1>2, <2>2, CqeTypes
  <2>4. e.t = "recv" /\ e.c = c /\ ~e.more /\ e.b = None
    BY <2>2 DEF Ended, Cqe
  <2>5. \A b \in cfg.buffers : One(b \in kfree') + One(e.b = b) = One(b \in kfree)
    BY <1>1, <2>4, NoneOut, WorkerAssumption DEF Inv, TypeOK, Setup, One
  <2>6. kfree' \subseteq Buffers
    BY <1>1 DEF Inv, TypeOK
  <2> QED BY <1>1, <1>2, <1>3, <1>4, <1>5, <2>1, <2>2, <2>3, <2>4, <2>5, <2>6, KEnds
<1>6. CASE c \notin krecv
  <2>1. krecv' = krecv /\ cq' = cq
    BY <1>0, <1>6 DEF KCancel
  <2>2. PICK v \in Seq(CqeType) : cq' = cq \o v /\ Len(v) = 0
    BY <2>1, CqStays
  <2>3. AcceptOk'
    BY <1>4, <2>1
  <2>4. \A i \in 1..Len(v) : v[i].t \in {"drain", "accept"}
    BY <2>2
  <2> QED BY <1>1, <1>2, <1>3, <2>1, <2>2, <2>3, <2>4, KQuiet
<1> QED BY <1>5, <1>6

\* A socket is closed.
LEMMA KCloseInv ==
    ASSUME Inv, KClose, cfg' = cfg
    PROVE  Inv'
<1>1. KTake("close") /\ krecv' = krecv /\ kop' = kop /\ kaccept' = kaccept /\ kfree' = kfree /\ cq' = cq
  BY DEF KClose
<1>2. sq # <<>> /\ sq' = Tail(sq) /\ KFrame /\ Head(sq).op = "close"
  BY <1>1, SqHead
<1>3. SqSame
  BY <1>1, SqOther
<1>4. AcceptOk'
  BY <1>1, <1>2, AcceptTaken DEF KFrame, loopVars, Inv
<1>5. PICK v \in Seq(CqeType) : cq' = cq \o v /\ Len(v) = 0
  BY <1>1, CqStays
<1>6. \A i \in 1..Len(v) : v[i].t \in {"drain", "accept"}
  BY <1>5
<1> QED BY <1>1, <1>2, <1>3, <1>4, <1>5, <1>6, KQuiet

\* A recv starts, or ends at once on an empty ring.
LEMMA KRecvInv ==
    ASSUME Inv, KRecv, cfg' = cfg
    PROVE  Inv'
<1>0. PICK c : c = Head(sq).c
  OBVIOUS
<1>1. KTake("recv") /\ kop' = kop /\ kaccept' = kaccept /\ kfree' = kfree
  BY DEF KRecv
<1>2. /\ sq # <<>> /\ sq' = Tail(sq) /\ KFrame /\ sq' \in Seq(SqeType)
      /\ Head(sq).op = "recv" /\ c \in Conns
      /\ \A d \in Conns :
           /\ RecvsInSq(d)' \in Nat /\ OpsInSq(d)' \in Nat
           /\ RecvsInSq(d) = One("recv" = "recv" /\ c = d) + RecvsInSq(d)'
           /\ OpsInSq(d) = One("recv" = "op" /\ c = d) + OpsInSq(d)'
  BY <1>0, <1>1, SqHead
<1>3. \A d \in Conns : /\ RecvsInSq(d) = One(c = d) + RecvsInSq(d)' /\ OpsInSq(d)' = OpsInSq(d)
                       /\ ConnOk(d)
  BY <1>2 DEF One, Inv
<1>4. /\ krecv \subseteq Conns /\ kop \subseteq Conns /\ kfree \subseteq Buffers
      /\ cfg.buffers \subseteq Buffers
  BY WorkerAssumption DEF Inv, TypeOK, Setup
<1>5. conn[c].recv = "armed" /\ c \notin krecv /\ EndsInCq(c) = 0 /\ ~Frame(c, "last")
      /\ RecvsInSq(c)' = 0
  <2>1. RecvsInSq(c) = 1 + RecvsInSq(c)' /\ RecvsInSq(c)' \in Nat /\ RecvOk(c)
    BY <1>2, <1>3 DEF One, ConnOk
  <2> QED BY <2>1 DEF RecvOk
<1>6. PICK v \in Seq(CqeType) :
        /\ cq' = cq \o v /\ krecv' \subseteq Conns /\ krecv \subseteq krecv'
        /\ \A d \in Conns : /\ Count(v, OpDones(d)) = 0
                            /\ d # c => Count(v, RecvEnds(d)) = 0 /\ (d \in krecv' <=> d \in krecv)
        /\ \/ c \in krecv' /\ Count(v, RecvEnds(c)) = 0
           \/ c \notin krecv' /\ Count(v, RecvEnds(c)) = 1
        /\ Count(v, AcceptLast) = 0 /\ \A b \in Buffers : Count(v, Bearing(b)) = 0
        /\ \A i \in 1..Len(v) : v[i] \in RecvEnds(v[i].c)
  <2>1. CASE Post(Cqe("recv", c, "enobufs", FALSE, None)) /\ krecv' = krecv
    <3>1. PICK e : e = Cqe("recv", c, "enobufs", FALSE, None)
      OBVIOUS
    <3>2. e \in CqeType
      BY <1>2, <3>1, CqeTypes
    <3>3. e.t = "recv" /\ e.c = c /\ ~e.more /\ e.b = None
      BY <3>1 DEF Cqe
    <3>4. PICK v \in Seq(CqeType) : /\ cq' = cq \o v /\ Len(v) = 1 /\ v[1] = e
                                    /\ \A S : Count(v, S) = One(e \in S)
      BY <2>1, <3>1, <3>2, CqGets
    <3>5. /\ \A d : Count(v, RecvEnds(d)) = One(c = d) /\ Count(v, OpDones(d)) = 0
          /\ Count(v, AcceptLast) = 0 /\ \A b \in Buffers : Count(v, Bearing(b)) = 0
      BY <3>2, <3>3, <3>4, CqeCounted, NoneOut DEF One
    <3>6. \A i \in 1..Len(v) : v[i] \in RecvEnds(v[i].c)
      BY <3>2, <3>3, <3>4, CqeCounted
    <3>7. /\ \A d \in Conns : /\ Count(v, OpDones(d)) = 0
                              /\ d # c => Count(v, RecvEnds(d)) = 0 /\ (d \in krecv' <=> d \in krecv)
          /\ c \notin krecv' /\ Count(v, RecvEnds(c)) = 1
      BY <1>5, <2>1, <3>5 DEF One
    <3> QED BY <1>4, <2>1, <3>4, <3>5, <3>6, <3>7
  <2>2. CASE krecv' = krecv \cup {c} /\ cq' = cq
    <3>1. PICK v \in Seq(CqeType) : cq' = cq \o v /\ Len(v) = 0 /\ \A S : Count(v, S) = 0
      BY <2>2, CqStays
    <3>2. \A i \in 1..Len(v) : v[i] \in RecvEnds(v[i].c)
      BY <3>1
    <3> QED BY <1>2, <1>4, <2>2, <3>1, <3>2
  <2> QED BY <1>0, <2>1, <2>2 DEF KRecv
<1>8. /\ Count(cq, AcceptLast) \in Nat
      /\ Count(cq', AcceptLast) = Count(cq, AcceptLast) + Count(v, AcceptLast)
      /\ \A d \in Conns :
           /\ EndsInCq(d) \in Nat /\ DonesInCq(d) \in Nat
           /\ EndsInCq(d)' = EndsInCq(d) + Count(v, RecvEnds(d))
           /\ DonesInCq(d)' = DonesInCq(d) + Count(v, OpDones(d))
           /\ (Frame(d, "last")' <=> Frame(d, "last")) /\ conn'[d] = conn[d]
  BY <1>2, <1>6, CqGrows
<1>10. ASSUME NEW d \in Conns PROVE RecvOk(d)' /\ OpOk(d)'
  <2>1. DonesInCq(d)' = DonesInCq(d)
    BY <1>6, <1>8
  <2>2. OpOk(d)'
    BY <1>1, <1>3, <1>8, <2>1, OpStays
  <2>3. CASE d # c
    <3>1. EndsInCq(d)' = EndsInCq(d) /\ (d \in krecv' <=> d \in krecv)
      BY <1>6, <1>8, <2>3
    <3>2. RecvsInSq(d)' = RecvsInSq(d)
      BY <1>2, <1>3, <2>3 DEF One
    <3>4. RecvOk(d)'
      BY <1>3, <1>8, <3>1, <3>2, RecvStays
    <3> QED BY <2>2, <3>4
  <2>4. CASE d = c
    <3>1. conn'[c].recv = "armed" /\ ~Frame(c, "last")' /\ RecvsInSq(c)' = 0
          /\ EndsInCq(c)' = Count(v, RecvEnds(c))
      <4>1. EndsInCq(c)' = EndsInCq(c) + Count(v, RecvEnds(c)) /\ Count(v, RecvEnds(c)) \in Nat
        BY <1>2, <1>6, <1>8, CountNat
      <4> QED BY <1>2, <1>5, <1>8, <4>1
    <3>2. RecvOk(c)'
      BY <1>6, <3>1 DEF RecvOk
    <3> QED BY <2>2, <2>4, <3>2
  <2> QED BY <2>3, <2>4
<1>11. \A b \in cfg.buffers : One(b \in kfree') + Count(v, Bearing(b)) = One(b \in kfree)
  BY <1>1, <1>4, <1>6 DEF One
<1>12. AcceptOk'
  <2>1. Count(cq', AcceptLast) = Count(cq, AcceptLast)
    BY <1>6, <1>8
  <2> QED BY <1>1, <1>2, <2>1, AcceptTaken DEF KFrame, loopVars, Inv
<1>13. kop' \subseteq Conns /\ kfree' \subseteq Buffers
  BY <1>1, <1>4
<1> QED BY <1>2, <1>6, <1>10, <1>11, <1>12, <1>13, KernelStep

\* A recv ends.
LEMMA KFinInv ==
    ASSUME Inv, KFin, cfg' = cfg
    PROVE  Inv'
<1>1. KWork /\ kop' = kop /\ kaccept' = kaccept
  BY DEF KFin
<1>2. KFrame /\ sq' = sq
  BY <1>1 DEF KWork
<1>3. SqSame /\ (Count(cq', AcceptLast) = Count(cq, AcceptLast) => AcceptOk')
  BY <1>1, <1>2, AcceptSame DEF SqSame, RecvsInSq, OpsInSq, Inv, TypeOK, KFrame, loopVars
<1>4. krecv \subseteq Conns /\ kfree \subseteq Buffers /\ cfg.buffers \subseteq Buffers
  BY WorkerAssumption DEF Inv, TypeOK, Setup
<1>5. PICK c \in krecv, b \in kfree \cup {None} :
         Post(Cqe("recv", c, "fin", FALSE, b)) /\ krecv' = krecv \ {c} /\ kfree' = kfree \ {b}
  BY DEF KFin
<1>6. PICK e : e = Cqe("recv", c, "fin", FALSE, b)
  OBVIOUS
<1>7. e \in CqeType
  BY <1>4, <1>6, CqeTypes
<1>8. e.t = "recv" /\ e.c = c /\ ~e.more /\ e.b = b
  BY <1>6 DEF Cqe
<1>9. \A x \in cfg.buffers : One(x \in kfree') + One(e.b = x) = One(x \in kfree)
  BY <1>4, <1>5, <1>8, NoneOut DEF One
<1>10. kfree' \subseteq Buffers
  BY <1>4, <1>5
<1> QED BY <1>1, <1>2, <1>3, <1>5, <1>6, <1>7, <1>8, <1>9, <1>10, KEnds

\* A recv delivers into a buffer of the ring.
LEMMA KDataInv ==
    ASSUME Inv, KData, cfg' = cfg
    PROVE  Inv'
<1>1. KWork /\ kop' = kop /\ kaccept' = kaccept
  BY DEF KData
<1>2. KFrame /\ sq' = sq
  BY <1>1 DEF KWork
<1>3. SqSame /\ (Count(cq', AcceptLast) = Count(cq, AcceptLast) => AcceptOk')
  BY <1>1, <1>2, AcceptSame DEF SqSame, RecvsInSq, OpsInSq, Inv, TypeOK, KFrame, loopVars
<1>4. /\ krecv \subseteq Conns /\ kop \subseteq Conns /\ kfree \subseteq Buffers
      /\ cfg.buffers \subseteq Buffers /\ \A d \in Conns : ConnOk(d)
  BY WorkerAssumption DEF Inv, TypeOK, Setup
<1>5. PICK c \in krecv :
          \/ \E b \in kfree, more \in BOOLEAN :
                /\ Post(Cqe("recv", c, "data", more, b))
                /\ kfree' = kfree \ {b}
                /\ krecv' = IF more THEN krecv ELSE krecv \ {c}
          \/ /\ Post(Cqe("recv", c, "enobufs", FALSE, None))
             /\ krecv' = krecv \ {c}
             /\ kfree' = kfree
  BY DEF KData
<1>6. CASE /\ Post(Cqe("recv", c, "enobufs", FALSE, None))
           /\ krecv' = krecv \ {c}
           /\ kfree' = kfree
  <2>1. PICK e : e = Cqe("recv", c, "enobufs", FALSE, None)
    OBVIOUS
  <2>2. e \in CqeType
    BY <1>4, <2>1, CqeTypes
  <2>3. e.t = "recv" /\ e.c = c /\ ~e.more /\ e.b = None
    BY <2>1 DEF Cqe
  <2>4. \A x \in cfg.buffers : One(x \in kfree') + One(e.b = x) = One(x \in kfree)
    BY <1>4, <1>6, <2>3, NoneOut DEF One
  <2> QED BY <1>1, <1>2, <1>3, <1>4, <1>6, <2>1, <2>2, <2>3, <2>4, KEnds
<1>7. ASSUME NEW b \in kfree, NEW more \in BOOLEAN,
             Post(Cqe("recv", c, "data", more, b)), kfree' = kfree \ {b},
             krecv' = IF more THEN krecv ELSE krecv \ {c}
      PROVE  Inv'
  <2>1. PICK e : e = Cqe("recv", c, "data", more, b)
    OBVIOUS
  <2>2. e \in CqeType
    BY <1>4, <2>1, CqeTypes
  <2>3. e.t = "recv" /\ e.c = c /\ e.more = more /\ e.b = b
    BY <2>1 DEF Cqe
  <2>4. \A x \in cfg.buffers : One(x \in kfree') + One(e.b = x) = One(x \in kfree)
    BY <1>4, <1>7, <2>3 DEF One
  <2>5. kfree' \subseteq Buffers
    BY <1>4, <1>7
  <2>6. CASE ~more
    BY <1>1, <1>2, <1>3, <1>7, <2>1, <2>2, <2>3, <2>4, <2>5, <2>6, KEnds
  <2>7. CASE more
    <3>1. PICK v \in Seq(CqeType) : /\ cq' = cq \o v /\ Len(v) = 1 /\ v[1] = e
                                    /\ \A S : Count(v, S) = One(e \in S)
      BY <1>7, <2>1, <2>2, CqGets
    <3>2. /\ Count(cq, AcceptLast) \in Nat
          /\ Count(cq', AcceptLast) = Count(cq, AcceptLast) + Count(v, AcceptLast)
          /\ \A d \in Conns :
               /\ EndsInCq(d) \in Nat /\ DonesInCq(d) \in Nat
               /\ EndsInCq(d)' = EndsInCq(d) + Count(v, RecvEnds(d))
               /\ DonesInCq(d)' = DonesInCq(d) + Count(v, OpDones(d))
               /\ (Frame(d, "last")' <=> Frame(d, "last")) /\ conn'[d] = conn[d]
      BY <1>2, <3>1, CqGrows
    <3>3. /\ \A d : Count(v, RecvEnds(d)) = 0 /\ Count(v, OpDones(d)) = 0
          /\ Count(v, AcceptLast) = 0 /\ \A x : Count(v, Bearing(x)) = One(e.b = x)
      BY <2>2, <2>3, <2>7, <3>1, CqeCounted, ZenonT(40) DEF One
    <3>4. krecv' = krecv
      BY <1>7, <2>7
    <3>5. ASSUME NEW d \in Conns PROVE RecvOk(d)' /\ OpOk(d)'
      <4>1. EndsInCq(d)' = EndsInCq(d) /\ DonesInCq(d)' = DonesInCq(d)
        BY <3>2, <3>3
      <4> QED BY <1>1, <1>3, <1>4, <3>2, <3>4, <4>1, RecvStays, OpStays DEF SqSame
    <3>6. AcceptOk'
      BY <1>3, <3>2, <3>3
    <3>7. \A x \in cfg.buffers : One(x \in kfree') + Count(v, Bearing(x)) = One(x \in kfree)
      BY <2>4, <3>3
    <3>8. \A i \in 1..Len(v) : v[i].t = "recv" => v[i].c \in krecv' \/ v[i] \in RecvEnds(v[i].c)
      BY <2>3, <3>1, <3>4
    <3>9. \A d \in krecv : d \in krecv' \/ \E j \in 1..Len(v) : v[j] \in RecvEnds(d)
      BY <3>4
    <3>10. krecv' \subseteq Conns /\ kop' \subseteq Conns
      BY <1>1, <1>4, <3>4
    <3> QED BY <1>2, <1>3, <2>5, <3>1, <3>5, <3>6, <3>7, <3>8, <3>9, <3>10, KernelStep DEF SqSame
  <2> QED BY <2>6, <2>7
<1> QED BY <1>5, <1>6, <1>7

\* An op starts.
LEMMA KOpInv ==
    ASSUME Inv, KOp, cfg' = cfg
    PROVE  Inv'
<1>0. PICK c : c = Head(sq).c
  OBVIOUS
<1>1. /\ KTake("op") /\ kop' = kop \cup {c} /\ krecv' = krecv /\ kaccept' = kaccept
      /\ kfree' = kfree /\ cq' = cq
  BY <1>0 DEF KOp
<1>2. /\ sq # <<>> /\ sq' = Tail(sq) /\ KFrame /\ sq' \in Seq(SqeType)
      /\ Head(sq).op = "op" /\ c \in Conns
      /\ \A d \in Conns :
           /\ RecvsInSq(d)' \in Nat /\ OpsInSq(d)' \in Nat
           /\ RecvsInSq(d) = One("op" = "recv" /\ c = d) + RecvsInSq(d)'
           /\ OpsInSq(d) = One("op" = "op" /\ c = d) + OpsInSq(d)'
  BY <1>0, <1>1, SqHead
<1>3. \A d \in Conns : /\ OpsInSq(d) = One(c = d) + OpsInSq(d)' /\ RecvsInSq(d)' = RecvsInSq(d)
                       /\ ConnOk(d)
  BY <1>2 DEF One, Inv
<1>4. /\ krecv \subseteq Conns /\ kop \subseteq Conns /\ kfree \subseteq Buffers
  BY DEF Inv, TypeOK
<1>5. PICK v \in Seq(CqeType) : cq' = cq \o v /\ Len(v) = 0 /\ \A S : Count(v, S) = 0
  BY <1>1, CqStays
<1>6. \A d \in Conns :
           /\ EndsInCq(d)' = EndsInCq(d) /\ DonesInCq(d)' = DonesInCq(d)
           /\ (Frame(d, "last")' <=> Frame(d, "last")) /\ conn'[d] = conn[d]
  BY <1>1, <1>2 DEF EndsInCq, DonesInCq, RecvEnds, OpDones, Frame, KFrame
<1>7. ASSUME NEW d \in Conns PROVE RecvOk(d)' /\ OpOk(d)'
  <2>1. RecvOk(d)'
    BY <1>1, <1>3, <1>6, RecvStays
  <2>2. CASE d # c
    <3>1. OpsInSq(d)' = OpsInSq(d)
      BY <1>2, <1>3, <2>2 DEF One
    <3>2. OpOk(d)'
      BY <1>1, <1>3, <1>6, <2>2, <3>1, OpStays
    <3> QED BY <2>1, <3>2
  <2>3. CASE d = c
    <3>1. OpsInSq(c) = 1 + OpsInSq(c)' /\ OpsInSq(c)' \in Nat /\ OpOk(c)
      BY <1>2, <1>3 DEF One, ConnOk
    <3>2. conn[c].co = "parked" /\ OpsInSq(c)' = 0 /\ DonesInCq(c) = 0
      BY <3>1 DEF OpOk
    <3>3. conn'[c].co = "parked" /\ c \in kop' /\ DonesInCq(c)' = 0
      BY <1>1, <1>2, <1>6, <3>2
    <3>4. OpOk(c)'
      BY <3>2, <3>3 DEF OpOk
    <3> QED BY <2>1, <2>3, <3>4
  <2> QED BY <2>2, <2>3
<1>8. AcceptOk'
  BY <1>1, <1>2, AcceptTaken DEF KFrame, loopVars, Inv
<1>9. \A b \in cfg.buffers : One(b \in kfree') + Count(v, Bearing(b)) = One(b \in kfree)
  BY <1>1, <1>5 DEF One
<1>10. /\ \A i \in 1..Len(v) : v[i].t = "recv" => v[i].c \in krecv' \/ v[i] \in RecvEnds(v[i].c)
       /\ \A d \in krecv : d \in krecv' \/ \E j \in 1..Len(v) : v[j] \in RecvEnds(d)
       /\ krecv' \subseteq Conns /\ kop' \subseteq Conns /\ kfree' \subseteq Buffers
  BY <1>1, <1>2, <1>4, <1>5
<1> QED BY <1>2, <1>5, <1>7, <1>8, <1>9, <1>10, KernelStep

\* An op is done.
LEMMA KOpDoneInv ==
    ASSUME Inv, KOpDone, cfg' = cfg
    PROVE  Inv'
<1>1. KWork /\ krecv' = krecv /\ kaccept' = kaccept /\ kfree' = kfree
  BY DEF KOpDone
<1>2. KFrame /\ sq' = sq
  BY <1>1 DEF KWork
<1>3. SqSame /\ (Count(cq', AcceptLast) = Count(cq, AcceptLast) => AcceptOk')
  BY <1>1, <1>2, AcceptSame DEF SqSame, RecvsInSq, OpsInSq, Inv, TypeOK, KFrame, loopVars
<1>4. /\ krecv \subseteq Conns /\ kop \subseteq Conns /\ kfree \subseteq Buffers
      /\ cfg.buffers \subseteq Buffers /\ \A d \in Conns : ConnOk(d)
  BY WorkerAssumption DEF Inv, TypeOK, Setup
<1>5. PICK c \in kop : Post(Cqe("op", c, "done", FALSE, None)) /\ kop' = kop \ {c}
  BY DEF KOpDone
<1>6. PICK e : e = Cqe("op", c, "done", FALSE, None)
  OBVIOUS
<1>7. e \in CqeType /\ c \in Conns
  BY <1>4, <1>6, CqeTypes
<1>8. e.t = "op" /\ e.c = c /\ e.b = None
  BY <1>6 DEF Cqe
<1>9. PICK v \in Seq(CqeType) : /\ cq' = cq \o v /\ Len(v) = 1 /\ v[1] = e
                                /\ \A S : Count(v, S) = One(e \in S)
  BY <1>5, <1>6, <1>7, CqGets
<1>10. /\ \A d : Count(v, RecvEnds(d)) = 0 /\ Count(v, OpDones(d)) = One(c = d)
       /\ Count(v, AcceptLast) = 0 /\ \A x \in Buffers : Count(v, Bearing(x)) = 0
  BY <1>7, <1>8, <1>9, CqeCounted, NoneOut DEF One
<1>11. /\ Count(cq, AcceptLast) \in Nat
       /\ Count(cq', AcceptLast) = Count(cq, AcceptLast) + Count(v, AcceptLast)
       /\ \A d \in Conns :
            /\ EndsInCq(d) \in Nat /\ DonesInCq(d) \in Nat
            /\ EndsInCq(d)' = EndsInCq(d) + Count(v, RecvEnds(d))
            /\ DonesInCq(d)' = DonesInCq(d) + Count(v, OpDones(d))
            /\ (Frame(d, "last")' <=> Frame(d, "last")) /\ conn'[d] = conn[d]
  BY <1>2, <1>9, CqGrows
<1>12. ASSUME NEW d \in Conns PROVE RecvOk(d)' /\ OpOk(d)'
  <2>1. EndsInCq(d)' = EndsInCq(d)
    BY <1>10, <1>11
  <2>2. RecvOk(d)'
    BY <1>1, <1>3, <1>4, <1>11, <2>1, RecvStays DEF SqSame
  <2>3. CASE d # c
    <3>1. DonesInCq(d)' = DonesInCq(d)
      BY <1>10, <1>11, <2>3 DEF One
    <3>2. OpOk(d)'
      BY <1>3, <1>4, <1>5, <1>11, <2>3, <3>1, OpStays DEF SqSame
    <3> QED BY <2>2, <3>2
  <2>4. CASE d = c
    <3>1. conn[c].co = "parked" /\ OpsInSq(c) = 0 /\ DonesInCq(c) = 0
      BY <1>4, <1>5, <1>7 DEF ConnOk, OpOk
    <3>2. DonesInCq(c)' = DonesInCq(c) + Count(v, OpDones(c)) /\ Count(v, OpDones(c)) = 1
      BY <1>7, <1>10, <1>11 DEF One
    <3>3. DonesInCq(c)' = 1 /\ conn'[c].co = "parked" /\ OpsInSq(c)' = 0 /\ c \notin kop'
      BY <1>3, <1>5, <1>7, <1>11, <3>1, <3>2 DEF SqSame
    <3>4. OpOk(c)'
      BY <3>3 DEF OpOk
    <3> QED BY <2>2, <2>4, <3>4
  <2> QED BY <2>3, <2>4
<1>13. AcceptOk'
  BY <1>3, <1>10, <1>11
<1>14. \A b \in cfg.buffers : One(b \in kfree') + Count(v, Bearing(b)) = One(b \in kfree)
  BY <1>1, <1>4, <1>10 DEF One
<1>15. /\ \A i \in 1..Len(v) : v[i].t = "recv" => v[i].c \in krecv' \/ v[i] \in RecvEnds(v[i].c)
       /\ \A d \in krecv : d \in krecv' \/ \E j \in 1..Len(v) : v[j] \in RecvEnds(d)
  BY <1>1, <1>8, <1>9
<1>16. krecv' \subseteq Conns /\ kop' \subseteq Conns /\ kfree' \subseteq Buffers
  BY <1>1, <1>4, <1>5
<1> QED BY <1>2, <1>3, <1>9, <1>12, <1>13, <1>14, <1>15, <1>16, KernelStep DEF SqSame

\* The kernel starts the accept, or its cancel.
LEMMA AcceptMoved ==
    ASSUME TypeOK, AcceptOk, sq # <<>>, sq' = Tail(sq), listener' = listener, draining' = draining,
           Count(cq, AcceptLast) \in Nat, Count(cq', AcceptLast) \in Nat,
           \/ Head(sq) \in Accepts /\ kaccept' = TRUE /\ Count(cq', AcceptLast) = Count(cq, AcceptLast)
           \/ /\ Head(sq) \in Cancels /\ kaccept' = FALSE
              /\ Count(cq', AcceptLast) = Count(cq, AcceptLast) + One(kaccept)
    PROVE  AcceptOk'
<1>1. /\ Head(sq) \in SqeType /\ sq' \in Seq(SqeType) /\ Head(sq) = sq[1]
      /\ Count(sq, Accepts) = One(Head(sq) \in Accepts) + Count(sq', Accepts)
      /\ Len(sq) \in Nat \ {0} /\ Len(sq') = Len(sq) - 1
      /\ \A i \in 1..Len(sq') : sq'[i] = sq[i + 1]
  BY SqTaken
<1>2. Head(sq) \in Cancels => Head(sq) \notin Accepts
  BY SqeFields DEF Accepts, Cancels
<1>3. \A i \in 1..Len(sq') : i + 1 \in 2..Len(sq) /\ sq'[i] = sq[i + 1]
  BY <1>1
<1>4. \A i \in 2..Len(sq) : i - 1 \in 1..Len(sq') /\ sq'[i - 1] = sq[i]
  <2> TAKE i \in 2..Len(sq)
  <2>1. i - 1 \in 1..Len(sq') /\ (i - 1) + 1 = i
    BY <1>1
  <2> QED BY <1>1, <2>1
<1>5. Count(sq', Accepts) \in Nat
  BY <1>1, CountNat
<1>6. CASE ~ draining
  <2>0. Count(sq, Accepts) + One(kaccept) + Count(cq, AcceptLast) = One(~listener.stalled)
    BY <1>6 DEF AcceptOk
  <2>1. Count(sq', Accepts) + One(kaccept') + Count(cq', AcceptLast) = One(~listener'.stalled)
    <3>1. CASE Head(sq) \in Accepts /\ kaccept' = TRUE /\ Count(cq', AcceptLast) = Count(cq, AcceptLast)
      <4>1. Count(sq, Accepts) = 1 + Count(sq', Accepts) /\ One(kaccept') = 1
        BY <1>1, <3>1 DEF One
      <4>2. ~kaccept
        BY <1>5, <2>0, <4>1 DEF One
      <4>3. One(kaccept) = 0
        BY <4>2 DEF One
      <4> QED BY <1>5, <2>0, <3>1, <4>1, <4>3
    <3>2. CASE /\ Head(sq) \in Cancels /\ kaccept' = FALSE
               /\ Count(cq', AcceptLast) = Count(cq, AcceptLast) + One(kaccept)
      <4>1. Count(sq, Accepts) = Count(sq', Accepts) /\ One(kaccept') = 0 /\ One(kaccept) \in Nat
        BY <1>1, <1>2, <1>5, <3>2 DEF One
      <4> QED BY <1>5, <2>0, <3>2, <4>1
    <3> QED BY <3>1, <3>2
  <2>2. \A i \in 1..Len(sq') : sq'[i].op # "blanket"
    BY <1>1, <1>3, <1>6 DEF AcceptOk
  <2> QED BY <1>6, <2>1, <2>2 DEF AcceptOk
<1>7. CASE draining
  <2>1. ASSUME NEW i \in 1..Len(sq'), sq'[i] \in Accepts
        PROVE  \E j \in (i + 1)..Len(sq') : sq'[j] \in Cancels
    <3>1. i + 1 \in 1..Len(sq) /\ sq[i + 1] \in Accepts
      BY <1>1, <2>1
    <3>2. PICK j \in ((i + 1) + 1)..Len(sq) : sq[j] \in Cancels
      BY <1>7, <3>1 DEF AcceptOk
    <3>3. j \in 2..Len(sq) /\ j - 1 \in (i + 1)..Len(sq')
      BY <1>1
    <3> QED BY <1>4, <3>2, <3>3
  <2>2. ASSUME kaccept' PROVE \E j \in 1..Len(sq') : sq'[j] \in Cancels
    <3>1. sq[1] \in Accepts /\ 1 \in 1..Len(sq)
      BY <1>1, <2>2
    <3>2. PICK j \in (1 + 1)..Len(sq) : sq[j] \in Cancels
      BY <1>7, <3>1 DEF AcceptOk
    <3>3. j \in 2..Len(sq)
      OBVIOUS
    <3> QED BY <1>4, <3>2, <3>3
  <2> QED BY <1>7, <2>1, <2>2 DEF AcceptOk
<1> QED BY <1>6, <1>7

\* The accept ends in the kernel, or goes on.
LEMMA AcceptPosted ==
    ASSUME TypeOK, AcceptOk, sq' = sq, listener' = listener, draining' = draining, kaccept,
           Count(cq, AcceptLast) \in Nat,
           \/ kaccept' = TRUE /\ Count(cq', AcceptLast) = Count(cq, AcceptLast)
           \/ kaccept' = FALSE /\ Count(cq', AcceptLast) = Count(cq, AcceptLast) + 1
    PROVE  AcceptOk'
<1>1. Count(sq, Accepts) \in Nat
  BY CountNat DEF TypeOK
<1>3. CASE ~draining
  <2>1. Count(sq, Accepts) + 1 + Count(cq, AcceptLast) = One(~listener.stalled)
    BY <1>3 DEF AcceptOk, One
  <2>2. Count(sq', Accepts) + One(kaccept') + Count(cq', AcceptLast) = One(~listener'.stalled)
    BY <1>1, <2>1 DEF One
  <2> QED BY <1>3, <2>2 DEF AcceptOk
<1>4. CASE draining
  BY <1>4 DEF AcceptOk
<1> QED BY <1>3, <1>4

\* An SQE that names no connection.
LEMMA SqNone ==
    ASSUME Inv, NEW op \in {"accept", "cancelaccept", "blanket"}, KTake(op)
    PROVE  Head(sq) = Sqe(op, None)
<1>1. Head(sq).op = op /\ Head(sq) = Sqe(op, Head(sq).c) /\ sq # <<>>
  BY SqHead
<1>2. Head(sq) \in SqeType
  BY <1>1 DEF Inv, TypeOK
<1>3. Head(sq).c = None
  BY <1>1, <1>2 DEF SqeType
<1> QED BY <1>1, <1>3

\* The accept starts.
LEMMA KAcceptInv ==
    ASSUME Inv, KAccept, cfg' = cfg
    PROVE  Inv'
<1>1. KTake("accept") /\ krecv' = krecv /\ kop' = kop /\ kaccept' = TRUE /\ kfree' = kfree /\ cq' = cq
  BY DEF KAccept
<1>2. sq # <<>> /\ sq' = Tail(sq) /\ KFrame /\ Head(sq).op = "accept"
  BY <1>1, SqHead
<1>3. SqSame
  BY <1>1, SqOther
<1>4. AcceptOk'
  <2>1. Head(sq) \in Accepts
    BY <1>1, <1>2, SqNone DEF Accepts
  <2>2. Count(cq, AcceptLast) \in Nat /\ Count(cq', AcceptLast) = Count(cq, AcceptLast)
    BY <1>1, CountNat DEF Inv, TypeOK, AcceptLast
  <2> QED BY <1>1, <1>2, <2>1, <2>2, AcceptMoved DEF KFrame, loopVars, Inv
<1>5. PICK v \in Seq(CqeType) : cq' = cq \o v /\ Len(v) = 0
  BY <1>1, CqStays
<1>6. \A i \in 1..Len(v) : v[i].t \in {"drain", "accept"}
  BY <1>5
<1> QED BY <1>1, <1>2, <1>3, <1>4, <1>5, <1>6, KQuiet

\* The accept is cancelled.
LEMMA KCancelAcceptInv ==
    ASSUME Inv, KCancelAccept, cfg' = cfg
    PROVE  Inv'
<1>1. /\ KTake("cancelaccept") /\ krecv' = krecv /\ kop' = kop /\ kaccept' = FALSE /\ kfree' = kfree
      /\ IF kaccept THEN Post(AcceptEnds("cancelled")) ELSE cq' = cq
  BY DEF KCancelAccept
<1>2. sq # <<>> /\ sq' = Tail(sq) /\ KFrame
  BY <1>1, SqHead
<1>3. SqSame
  BY <1>1, SqOther
<1>4. PICK v \in Seq(CqeType) : /\ cq' = cq \o v /\ Count(v, AcceptLast) = One(kaccept)
                                /\ \A i \in 1..Len(v) : v[i].t \in {"drain", "accept"}
  <2>1. CASE kaccept
    <3>1. PICK e : e = AcceptEnds("cancelled")
      OBVIOUS
    <3>2. e \in CqeType
      BY <3>1, CqeTypes
    <3>3. e.t = "accept" /\ ~e.more
      BY <3>1 DEF AcceptEnds, Cqe
    <3>4. PICK v \in Seq(CqeType) : /\ cq' = cq \o v /\ Len(v) = 1 /\ v[1] = e
                                    /\ \A S : Count(v, S) = One(e \in S)
      BY <1>1, <2>1, <3>1, <3>2, CqGets
    <3>5. Count(v, AcceptLast) = One(kaccept)
      BY <2>1, <3>2, <3>3, <3>4, CqeCounted DEF One
    <3>6. \A i \in 1..Len(v) : v[i].t \in {"drain", "accept"}
      BY <3>3, <3>4
    <3> QED BY <3>4, <3>5, <3>6
  <2>2. CASE ~kaccept
    <3>1. PICK v \in Seq(CqeType) : cq' = cq \o v /\ Len(v) = 0 /\ \A S : Count(v, S) = 0
      BY <1>1, <2>2, CqStays
    <3>2. \A i \in 1..Len(v) : v[i].t \in {"drain", "accept"}
      BY <3>1
    <3> QED BY <2>2, <3>1, <3>2 DEF One
  <2> QED BY <2>1, <2>2
<1>5. AcceptOk'
  <2>1. Head(sq) \in Cancels
    BY <1>1, SqNone DEF Cancels
  <2>2. /\ Count(cq, AcceptLast) \in Nat
        /\ Count(cq', AcceptLast) = Count(cq, AcceptLast) + One(kaccept)
    BY <1>2, <1>4, CqGrows
  <2>3. Count(cq', AcceptLast) \in Nat
    BY <2>2 DEF One
  <2> QED BY <1>1, <1>2, <2>1, <2>2, <2>3, AcceptMoved DEF KFrame, loopVars, Inv
<1> QED BY <1>1, <1>2, <1>3, <1>4, <1>5, KQuiet

\* The accept delivers a socket, or ends.
LEMMA KAcceptsInv ==
    ASSUME Inv, KAccepts, cfg' = cfg
    PROVE  Inv'
<1>1. KWork /\ kaccept /\ krecv' = krecv /\ kop' = kop /\ kfree' = kfree
  BY DEF KAccepts
<1>2. KFrame /\ sq' = sq /\ TypeOK /\ AcceptOk
  BY <1>1 DEF KWork, Inv
<1>3. SqSame
  BY <1>2 DEF SqSame, RecvsInSq, OpsInSq, TypeOK
<1>4. PICK e \in CqeType : Post(e) /\ e.t = "accept" /\ kaccept' = e.more /\ e.more \in BOOLEAN
  <2>1. CASE \E more \in BOOLEAN : Post(Cqe("accept", None, "ok", more, None)) /\ kaccept' = more
    <3>1. PICK more \in BOOLEAN : Post(Cqe("accept", None, "ok", more, None)) /\ kaccept' = more
      BY <2>1
    <3>2. PICK e : e = Cqe("accept", None, "ok", more, None)
      OBVIOUS
    <3>3. e \in CqeType
      BY <3>2, CqeTypes
    <3>4. e.t = "accept" /\ e.more = more
      BY <3>2 DEF Cqe
    <3> QED BY <3>1, <3>2, <3>3, <3>4
  <2>2. ASSUME NEW k \in {"failed", "exhausted"}, Post(AcceptEnds(k)), kaccept' = FALSE
        PROVE  \E e \in CqeType : Post(e) /\ e.t = "accept" /\ kaccept' = e.more /\ e.more \in BOOLEAN
    <3>2. PICK e : e = AcceptEnds(k)
      OBVIOUS
    <3>3. e \in CqeType
      BY <3>2, CqeTypes
    <3>4. e.t = "accept" /\ e.more = FALSE
      BY <3>2 DEF AcceptEnds, Cqe
    <3> QED BY <2>2, <3>2, <3>3, <3>4
  <2> QED BY <2>1, <2>2 DEF KAccepts
<1>5. PICK v \in Seq(CqeType) : /\ cq' = cq \o v /\ Len(v) = 1 /\ v[1] = e
                                /\ \A S : Count(v, S) = One(e \in S)
  BY <1>4, CqGets
<1>6. \A i \in 1..Len(v) : v[i].t \in {"drain", "accept"}
  BY <1>4, <1>5
<1>7. AcceptOk'
  <2>1. Count(v, AcceptLast) = IF e.more THEN 0 ELSE 1
    BY <1>4, <1>5, CqeCounted DEF One
  <2>2. /\ Count(cq, AcceptLast) \in Nat
        /\ Count(cq', AcceptLast) = Count(cq, AcceptLast) + Count(v, AcceptLast)
    BY <1>2, <1>5, CqGrows
  <2>3. \/ kaccept' = TRUE /\ Count(cq', AcceptLast) = Count(cq, AcceptLast)
        \/ kaccept' = FALSE /\ Count(cq', AcceptLast) = Count(cq, AcceptLast) + 1
    BY <1>4, <2>1, <2>2
  <2> QED BY <1>1, <1>2, <2>2, <2>3, AcceptPosted DEF KFrame, loopVars
<1> QED BY <1>1, <1>2, <1>3, <1>5, <1>6, <1>7, KQuiet

OpEnded(c) == Cqe("op", c, "done", FALSE, None)

\* What the blanket cancel ends.
Blanketed == {Ended(c) : c \in krecv} \cup {Cqe("op", c, "done", FALSE, None) : c \in kop}
             \cup {AcceptEnds("cancelled") : a \in {kaccept} \ {FALSE}}

\* It can be listed.
LEMMA BlanketIsFinite ==
    ASSUME TypeOK
    PROVE  IsFiniteSet(Blanketed) /\ Blanketed \subseteq CqeType
<1> DEFINE R == {Ended(c) : c \in krecv}
           O == {Cqe("op", c, "done", FALSE, None) : c \in kop}
           L == {AcceptEnds("cancelled") : a \in {kaccept} \ {FALSE}}
           f == [c \in krecv |-> Ended(c)]
           g == [c \in kop |-> Cqe("op", c, "done", FALSE, None)]
<1>1. IsFiniteSet(krecv) /\ IsFiniteSet(kop) /\ krecv \subseteq Conns /\ kop \subseteq Conns
  BY WorkerAssumption, FS_Subset DEF TypeOK
<1>2. f \in Surjection(krecv, R) /\ g \in Surjection(kop, O)
  BY DEF Surjection
<1>3. IsFiniteSet(R) /\ IsFiniteSet(O)
  BY <1>1, <1>2, FS_Surjection
<1>4. IsFiniteSet(L)
  <2>1. L \subseteq {AcceptEnds("cancelled")}
    OBVIOUS
  <2>2. IsFiniteSet({AcceptEnds("cancelled")})
    BY FS_Singleton
  <2> QED BY <2>1, <2>2, FS_Subset
<1>5. R \subseteq CqeType /\ O \subseteq CqeType /\ L \subseteq CqeType
  BY <1>1, CqeTypes
<1>6. Blanketed = (R \cup O) \cup L
  BY DEF Blanketed
<1> HIDE DEF R, O, L
<1> QED BY <1>3, <1>4, <1>5, <1>6, FS_Union

\* ... of one connection, and of a buffer.
LEMMA BlanketOf ==
    ASSUME TypeOK
    PROVE  /\ \A d \in Conns :
                /\ Blanketed \cap RecvEnds(d) = IF d \in krecv THEN {Ended(d)} ELSE {}
                /\ Blanketed \cap OpDones(d) =
                     IF d \in kop THEN {Cqe("op", d, "done", FALSE, None)} ELSE {}
           /\ \A b \in Buffers : Blanketed \cap Bearing(b) = {}
           /\ \A e \in Blanketed : e.t = "recv" => e \in RecvEnds(e.c)
<1>1. krecv \subseteq Conns /\ kop \subseteq Conns /\ Blanketed \subseteq CqeType
  BY BlanketIsFinite DEF TypeOK
<1>2. /\ \A c : Ended(c).t = "recv" /\ Ended(c).c = c /\ Ended(c).more = FALSE /\ Ended(c).b = None
      /\ \A c : /\ OpEnded(c).t = "op" /\ OpEnded(c).c = c
                /\ OpEnded(c).more = FALSE /\ OpEnded(c).b = None
      /\ AcceptEnds("cancelled").t = "accept" /\ AcceptEnds("cancelled").b = None
  BY DEF Ended, AcceptEnds, OpEnded, Cqe
<1>3. \A e : e \in Blanketed <=> \/ \E c \in krecv : e = Ended(c)
                                 \/ \E c \in kop : e = OpEnded(c)
                                 \/ kaccept # FALSE /\ e = AcceptEnds("cancelled")
  BY DEF Blanketed, OpEnded
<1> HIDE DEF OpEnded, Blanketed
<1>4. ASSUME NEW e \in Blanketed
      PROVE  /\ e \in CqeType /\ e.b = None
             /\ \/ e.t = "recv" /\ e = Ended(e.c) /\ e.c \in krecv /\ ~e.more
                \/ e.t = "op" /\ e = OpEnded(e.c) /\ e.c \in kop
                \/ e.t = "accept"
  <2>1. CASE \E c \in krecv : e = Ended(c)
    BY <1>1, <1>2, <2>1
  <2>2. CASE \E c \in kop : e = OpEnded(c)
    BY <1>1, <1>2, <2>2
  <2>3. CASE e = AcceptEnds("cancelled")
    BY <1>1, <1>2, <2>3
  <2> QED BY <1>3, <2>1, <2>2, <2>3
<1>5. \A c \in krecv : Ended(c) \in Blanketed /\ Ended(c) \in CqeType
  BY <1>1, <1>3
<1>6. \A c \in kop : OpEnded(c) \in Blanketed /\ OpEnded(c) \in CqeType
  BY <1>1, <1>3
<1>7. ASSUME NEW d \in Conns
      PROVE  Blanketed \cap RecvEnds(d) = IF d \in krecv THEN {Ended(d)} ELSE {}
  <2>1. \A e : e \in Blanketed \cap RecvEnds(d) <=> d \in krecv /\ e = Ended(d)
    BY <1>2, <1>4, <1>5 DEF RecvEnds
  <2> QED BY <2>1
<1>8. ASSUME NEW d \in Conns
      PROVE  Blanketed \cap OpDones(d) = IF d \in kop THEN {OpEnded(d)} ELSE {}
  <2>1. \A e : e \in Blanketed \cap OpDones(d) <=> d \in kop /\ e = OpEnded(d)
    BY <1>2, <1>4, <1>6 DEF OpDones
  <2> QED BY <2>1
<1>9. \A b \in Buffers : Blanketed \cap Bearing(b) = {}
  BY <1>4, NoneOut DEF Bearing
<1>10. \A e \in Blanketed : e.t = "recv" => e \in RecvEnds(e.c)
  BY <1>4 DEF RecvEnds
<1> QED BY <1>7, <1>8, <1>9, <1>10 DEF OpEnded

\* A blanket is staged by the shutdown.
LEMMA BlanketDrains ==
    ASSUME Inv, KTake("blanket")
    PROVE  draining
<1>1. Head(sq).op = "blanket" /\ Head(sq) = sq[1] /\ 1 \in 1..Len(sq)
  BY SqHead
<1> QED BY <1>1 DEF Inv, AcceptOk

\* Everything in flight ends.
LEMMA KBlanketInv ==
    ASSUME Inv, KBlanket, cfg' = cfg
    PROVE  Inv'
<1>1. KTake("blanket") /\ kfree' = kfree /\ TypeOK
  BY DEF KBlanket, Inv
<1>2. sq # <<>> /\ sq' = Tail(sq) /\ KFrame /\ Head(sq).op = "blanket"
  BY <1>1, SqHead
<1>3. SqSame /\ draining
  BY <1>1, SqOther, BlanketDrains
<1>4. CASE ~cfg.any
  <2>1. Post(Cqe("drain", None, "refused", FALSE, None)) /\ krecv' = krecv /\ kop' = kop /\ kaccept' = kaccept
    BY <1>4 DEF KBlanket
  <2>2. PICK e : e = Cqe("drain", None, "refused", FALSE, None)
    OBVIOUS
  <2>3. e \in CqeType
    BY <2>2, CqeTypes
  <2>4. e.t = "drain"
    BY <2>2 DEF Cqe
  <2>5. PICK v \in Seq(CqeType) : /\ cq' = cq \o v /\ Len(v) = 1 /\ v[1] = e
                                  /\ \A S : Count(v, S) = One(e \in S)
    BY <2>1, <2>2, <2>3, CqGets
  <2>6. \A i \in 1..Len(v) : v[i].t \in {"drain", "accept"}
    BY <2>4, <2>5
  <2>7. Count(cq', AcceptLast) = Count(cq, AcceptLast)
    <3>1. Count(v, AcceptLast) = 0
      BY <2>3, <2>4, <2>5, CqeCounted DEF One
    <3>2. Count(cq', AcceptLast) = Count(cq, AcceptLast) + Count(v, AcceptLast) /\ Count(cq, AcceptLast) \in Nat
      BY <1>2, <2>5, CqGrows
    <3> QED BY <3>1, <3>2
  <2>8. AcceptOk'
    BY <1>2, <2>1, <2>7, AcceptTaken DEF KFrame, loopVars, Inv
  <2> QED BY <1>1, <1>2, <1>3, <2>1, <2>5, <2>6, <2>8, KQuiet
<1>5. CASE cfg.any
  <2>1. PICK s \in SetToSeqs(Blanketed) :
           cq' = cq \o s \o <<Cqe("drain", None, "known", FALSE, None)>>
    BY <1>5 DEF KBlanket, Blanketed
  <2>2. krecv' = {} /\ kop' = {} /\ kaccept' = FALSE
    BY <1>5 DEF KBlanket
  <2>3. PICK e : e = Cqe("drain", None, "known", FALSE, None)
    OBVIOUS
  <2>4. e \in CqeType
    BY <2>3, CqeTypes
  <2>5. e.t = "drain" /\ e.b = None
    BY <2>3 DEF Cqe
  <2>6. IsFiniteSet(Blanketed) /\ Blanketed \subseteq CqeType
    BY <1>1, BlanketIsFinite
  <2>7. s \in Seq(Blanketed) /\ \A S : Count(s, S) = Cardinality(Blanketed \cap S)
    BY <2>6, CountListing
  <2>8. s \in Seq(CqeType)
    BY <2>6, <2>7
  <2>9. PICK w \in Seq(CqeType) : w = <<e>> /\ Len(w) = 1 /\ w[1] = e /\ \A S : Count(w, S) = One(e \in S)
    BY <1>1, <2>4, PostCat
  <2>10. PICK v : v = s \o w
    OBVIOUS
  <2>11. v \in Seq(CqeType) /\ \A S : Count(v, S) = Count(s, S) + Count(w, S)
    <3>1. \A S : s \o w \in Seq(CqeType) /\ Count(s \o w, S) = Count(s, S) + Count(w, S)
      BY <2>8, CountCat
    <3> QED BY <2>10, <3>1
  <2>12. cq' = cq \o v
    <3>1. cq' = (cq \o s) \o w /\ cq \in Seq(CqeType)
      BY <1>1, <2>1, <2>3, <2>9 DEF TypeOK
    <3> QED BY <2>8, <2>9, <2>10, <3>1, ConcatAssociative
  <2>13. \A i \in 1..Len(v) : v[i] \in Blanketed \/ v[i] = e
    <3>1. /\ Len(v) = Len(s) + Len(w) /\ Len(s) \in Nat
          /\ \A i \in 1..(Len(s) + Len(w)) : v[i] = IF i <= Len(s) THEN s[i] ELSE w[i - Len(s)]
      BY <2>8, <2>9, <2>10, ConcatProperties, LenProperties
    <3>2. \A i \in 1..Len(s) : s[i] \in Blanketed
      BY <2>7, ElementOfSeq
    <3> QED BY <2>9, <3>1, <3>2
  <2>14. \A d : e \notin RecvEnds(d) /\ e \notin OpDones(d)
    BY <2>4, <2>5, CqeCounted
  <2>15. \A b \in Buffers : e \notin Bearing(b)
    BY <2>4, <2>5, CqeCounted, NoneOut
  <2>16. ASSUME NEW d \in Conns
         PROVE  /\ Count(v, RecvEnds(d)) = IF d \in krecv THEN 1 ELSE 0
                /\ Count(v, OpDones(d)) = IF d \in kop THEN 1 ELSE 0
    <3>1. Count(w, RecvEnds(d)) = 0 /\ Count(w, OpDones(d)) = 0
      BY <2>9, <2>14 DEF One
    <3>2. /\ Count(s, RecvEnds(d)) = Cardinality(Blanketed \cap RecvEnds(d))
          /\ Count(s, OpDones(d)) = Cardinality(Blanketed \cap OpDones(d))
      BY <2>7
    <3>3. Cardinality(Blanketed \cap RecvEnds(d)) = IF d \in krecv THEN 1 ELSE 0
      BY <1>1, BlanketOf, FS_Singleton, FS_EmptySet
    <3>4. Cardinality(Blanketed \cap OpDones(d)) = IF d \in kop THEN 1 ELSE 0
      BY <1>1, BlanketOf, FS_Singleton, FS_EmptySet
    <3>5. /\ Count(v, RecvEnds(d)) = Count(s, RecvEnds(d)) + Count(w, RecvEnds(d))
          /\ Count(v, OpDones(d)) = Count(s, OpDones(d)) + Count(w, OpDones(d))
      BY <2>11
    <3> QED BY <3>1, <3>2, <3>3, <3>4, <3>5
  <2>17. ASSUME NEW b \in cfg.buffers PROVE Count(v, Bearing(b)) = 0
    <3>1. b \in Buffers
      BY <1>1, WorkerAssumption DEF TypeOK, Setup
    <3>2. Count(w, Bearing(b)) = 0
      BY <2>9, <2>15, <3>1 DEF One
    <3>3. Count(s, Bearing(b)) = 0
      BY <1>1, <2>7, <3>1, BlanketOf, FS_EmptySet
    <3> QED BY <2>11, <3>2, <3>3
  <2>18. \A d \in Conns :
           /\ EndsInCq(d) \in Nat /\ DonesInCq(d) \in Nat
           /\ EndsInCq(d)' = EndsInCq(d) + Count(v, RecvEnds(d))
           /\ DonesInCq(d)' = DonesInCq(d) + Count(v, OpDones(d))
           /\ (Frame(d, "last")' <=> Frame(d, "last")) /\ conn'[d] = conn[d]
    BY <1>2, <2>11, <2>12, CqGrows
  <2>19. ASSUME NEW d \in Conns PROVE RecvOk(d)' /\ OpOk(d)'
    <3>1. RecvsInSq(d)' = RecvsInSq(d) /\ OpsInSq(d)' = OpsInSq(d) /\ ConnOk(d)
          /\ RecvsInSq(d) \in Nat /\ OpsInSq(d) \in Nat
      BY <1>1, <1>3, Nats DEF SqSame, Inv
    <3>2. EndsInCq(d)' = EndsInCq(d) + (IF d \in krecv THEN 1 ELSE 0) /\ d \notin krecv'
          /\ EndsInCq(d) \in Nat
      BY <2>2, <2>16, <2>18
    <3>3. DonesInCq(d)' = DonesInCq(d) + (IF d \in kop THEN 1 ELSE 0) /\ d \notin kop'
          /\ DonesInCq(d) \in Nat
      BY <2>2, <2>16, <2>18
    <3>4. (Frame(d, "last")' <=> Frame(d, "last")) /\ conn'[d] = conn[d]
      BY <2>18
    <3>5. RecvOk(d)'
      BY <3>1, <3>2, <3>4 DEF ConnOk, RecvOk
    <3>6. OpOk(d)'
      BY <3>1, <3>3, <3>4 DEF ConnOk, OpOk
    <3> QED BY <3>5, <3>6
  <2>20. ASSUME NEW d \in krecv PROVE \E j \in 1..Len(v) : v[j] \in RecvEnds(d)
    <3>1. d \in Conns
      BY <1>1 DEF TypeOK
    <3>2. Count(v, RecvEnds(d)) = 1
      BY <2>16, <3>1
    <3> QED BY <2>11, <3>2, CountZero
  <2>21. ASSUME NEW i \in 1..Len(v), v[i].t = "recv" PROVE v[i] \in RecvEnds(v[i].c)
    BY <1>1, <2>5, <2>13, <2>21, BlanketOf
  <2>22. AcceptOk'
    BY <1>2, <1>3, <2>2, AcceptTaken DEF KFrame, loopVars, Inv
  <2>23. \A b \in cfg.buffers : One(b \in kfree') + Count(v, Bearing(b)) = One(b \in kfree)
    BY <1>1, <2>17 DEF One
  <2>24. krecv' \subseteq Conns /\ kop' \subseteq Conns /\ kfree' \subseteq Buffers
    BY <1>1, <2>2 DEF TypeOK
  <2> QED BY <1>2, <1>3, <2>11, <2>12, <2>19, <2>20, <2>21, <2>22, <2>23, <2>24, KernelStep DEF SqSame
<1> QED BY <1>4, <1>5

-----------------------------------------------------------------------------
(* The invariant holds.                                                    *)

\* It holds of a worker that was just set up.
LEMMA InitInv == Init => Inv
<1> SUFFICES ASSUME Init PROVE Inv
  OBVIOUS
<1> DEFINE z == <<>>
<1>0. ready = z /\ starved = z /\ cq = z /\ z \in Seq(Conns) /\ z \in Seq(CqeType) /\ Len(z) = 0
      /\ \A S : Count(z, S) = 0
  BY CountEmpty DEF Init
<1>1. /\ cfg \in Setups /\ frame = NoFrame /\ live = 0 /\ returned = 0 /\ staged = {}
      /\ kfree = cfg.buffers /\ listener = [stalled |-> FALSE, at |-> 0] /\ batch = 0
      /\ krecv = {} /\ kop = {} /\ kaccept = FALSE /\ draining = FALSE
      /\ conn = [c \in Conns |-> Fresh]
  BY DEF Init
<1>2. \A c \in Conns : /\ conn[c] \in ConnType /\ conn[c].refs = 0 /\ conn[c].recv = "done"
                       /\ conn[c].co = "none" /\ conn[c].rx = z /\ conn[c].held = {}
  BY <1>1 DEF Fresh, ConnType
<1>3. PICK w : w = <<Sqe("accept", None)>>
  OBVIOUS
<1>4. sq = w
  BY <1>3 DEF Init
<1>5. Sqe("accept", None) \in SqeType
  BY DEF Sqe, SqeType
<1>6. /\ w \in Seq(SqeType) /\ Len(w) = 1 /\ w[1] = Sqe("accept", None)
      /\ \A S : Count(w, S) = One(Sqe("accept", None) \in S)
  BY <1>3, <1>5, CountOne
<1>7. /\ Count(w, Accepts) = 1
      /\ \A c : Count(w, {Sqe("recv", c)}) = 0 /\ Count(w, {Sqe("op", c)}) = 0
      /\ \A i \in 1..Len(w) : w[i].op # "blanket"
  BY <1>6, SqeFields DEF Accepts, One
<1>8. frame \in FrameType /\ \A c, k : k \in {"last", "unref"} => ~Frame(c, k)
  BY <1>1 DEF NoFrame, FrameType, Frame
<1>9. kfree \subseteq Buffers
  BY <1>1, WorkerAssumption DEF Setup
<1> HIDE DEF z
<1>10. TypeOK
  <2>1. conn \in [Conns -> ConnType]
    BY <1>1, <1>2
  <2>2. listener \in [stalled : BOOLEAN, at : Nat]
    BY <1>1
  <2> QED BY <1>0, <1>1, <1>4, <1>6, <1>8, <1>9, <2>1, <2>2 DEF TypeOK
<1>11. ASSUME NEW c \in Conns PROVE ConnOk(c)
  <2>1. RecvOk(c) /\ OpOk(c)
    BY <1>0, <1>1, <1>2, <1>4, <1>7, <1>8 DEF RecvOk, OpOk, RecvsInSq, OpsInSq, EndsInCq, DonesInCq
  <2>2. ListOk(c) /\ RefsOk(c)
    BY <1>0, <1>2, <1>8 DEF ListOk, RefsOk, One
  <2>3. GoneOk(c)
    BY <1>2 DEF GoneOk, z
  <2> QED BY <2>1, <2>2, <2>3 DEF ConnOk
<1>12. EndFollows
  BY <1>0 DEF EndFollows
<1>13. LiveOk
  <2>1. Open = {}
    BY <1>2 DEF Open
  <2> QED BY <1>1, <2>1, FS_EmptySet DEF LiveOk
<1>14. AcceptOk
  BY <1>0, <1>1, <1>4, <1>7 DEF AcceptOk, One
<1>15. ASSUME NEW b \in cfg.buffers PROVE BufferOk(b)
  <2>1. InRings(b) = 1
    BY <1>0, <1>1 DEF InRings, One
  <2>2. \A c \in Conns : With(b, c) = 0
    BY <1>0, <1>2 DEF With, One
  <2> QED BY <2>1, <2>2 DEF BufferOk
<1> QED BY <1>10, <1>11, <1>12, <1>13, <1>14, <1>15 DEF Inv

\* Every step of the worker keeps it.
LEMMA NextInv == Inv /\ [Next]_allVars => Inv'
<1> SUFFICES ASSUME Inv, [Next]_allVars PROVE Inv'
  OBVIOUS
<1>1. CASE UNCHANGED allVars
  <2>1. UNCHANGED <<conn, frame, live, ready, starved, returned, staged, kfree, cfg>>
        /\ UNCHANGED <<listener, sq, cq, draining, krecv, kop, kaccept>> /\ batch' = batch
    BY <1>1 DEF allVars, vars, loopVars, bufVars, kVars
  <2> QED BY <2>1, LoopOnly DEF Inv, TypeOK
<1>2. CASE Next
  <2>1. cfg' = cfg
    BY <1>2 DEF Next
  <2>2. ASSUME NEW c \in Conns, Coroutine(c) PROVE Inv'
    BY <2>1, <2>2, RecvItemInv, GiveBackInv, AwaitInv, PauseInv, ResumeInv, CloseInv DEF Coroutine
  <2>3. CASE Dispatch
    BY <2>1, <2>3, OnNobufsInv, OnEndInv, OnDataInv, OnOpInv, OnDrainInv, OnAcceptInv,
       OnAcceptLateInv, OnAcceptErrorInv DEF Dispatch
  <2>4. CASE Tails
    BY <2>1, <2>4, TailMoreInv, TailLastInv, TailUnrefInv DEF Tails
  <2>5. CASE Loop
    BY <2>1, <2>5, BeginDrainInv, SweepInv, PlainInv, RunReadyInv, RearmStarvedInv, ReapInv,
       EndBatchInv, FlushInv DEF Loop
  <2>6. CASE Kernel
    BY <2>1, <2>6, KRecvInv, KCancelInv, KCloseInv, KOpInv, KAcceptInv, KCancelAcceptInv,
       KBlanketInv, KDataInv, KFinInv, KOpDoneInv, KAcceptsInv DEF Kernel, KSubmit
  <2>7. CASE Stop \/ Deadline
    BY <2>1, <2>7, PlainInv
  <2> QED BY <1>2, <2>2, <2>3, <2>4, <2>5, <2>6, <2>7 DEF Next
<1> QED BY <1>1, <1>2

\* Every place a recv, an op, an accept, a buffer and a list entry of a worker can be
\* in is accounted for, at every moment of its life.
THEOREM AlwaysInv == Spec => []Inv
BY InitInv, NextInv, PTL DEF Spec

-----------------------------------------------------------------------------
(* What it says.                                                           *)

\* What the properties count, as a Count.
LEMMA ListedCount == \A s, e : Cardinality(Listed(s, e)) = Count(s, {e})
BY DEF Listed, Count

\* StarvedAreListed: p->starved lists the connections in RECV_STARVED, each once,
\* and no other (starved_remove, rearm_starved).
THEOREM StarvedConnsAreListed == Spec => []StarvedAreListed
<1>1. ASSUME Inv PROVE StarvedAreListed
  BY <1>1, ListedCount DEF Inv, ConnOk, ListOk, One, StarvedAreListed
<1> QED BY <1>1, AlwaysInv, PTL

\* AcceptIsArmedOnce: a listener has one accept under way unless it is stalled,
\* and once the cancels of the shutdown are through it has none.
THEOREM AcceptStaysArmed == Spec => []AcceptIsArmedOnce
<1>1. ASSUME Inv PROVE AcceptIsArmedOnce
  <2>1. AcceptOk /\ sq \in Seq(SqeType) /\ cq \in Seq(CqeType)
    BY <1>1 DEF Inv, TypeOK
  <2>2. Cardinality(Listed(sq, Sqe("accept", None))) = Count(sq, Accepts)
    BY ListedCount DEF Accepts
  <2>3. Cardinality({i \in 1..Len(cq) : cq[i].t = "accept" /\ ~cq[i].more}) = Count(cq, AcceptLast)
    <3>1. \A i \in 1..Len(cq) : cq[i] \in AcceptLast <=> cq[i].t = "accept" /\ ~cq[i].more
      BY <2>1, ElementOfSeq DEF AcceptLast
    <3>2. {i \in 1..Len(cq) : cq[i].t = "accept" /\ ~cq[i].more} = {i \in 1..Len(cq) : cq[i] \in AcceptLast}
      BY <3>1
    <3> QED BY <3>2 DEF Count
  <2>4. AcceptOps = Count(sq, Accepts) + One(kaccept) + Count(cq, AcceptLast)
    BY <2>2, <2>3 DEF AcceptOps, One
  <2>5. ASSUME ~draining PROVE AcceptOps = IF listener.stalled THEN 0 ELSE 1
    BY <2>1, <2>4, <2>5 DEF AcceptOk, One
  <2>6. ASSUME draining, Listed(sq, Sqe("cancelaccept", None)) = {}
        PROVE  ~kaccept /\ Listed(sq, Sqe("accept", None)) = {}
    <3>1. \A j \in 1..Len(sq) : sq[j] \notin Cancels
      BY <2>6 DEF Listed, Cancels
    <3>2. ~kaccept
      BY <2>1, <2>6, <3>1 DEF AcceptOk
    <3>3. ASSUME NEW i \in 1..Len(sq), sq[i] \in Accepts PROVE FALSE
      <4>1. PICK j \in (i + 1)..Len(sq) : sq[j] \in Cancels
        BY <2>1, <2>6, <3>3 DEF AcceptOk
      <4>2. j \in 1..Len(sq)
        BY <2>1, LenProperties
      <4> QED BY <3>1, <4>1, <4>2
    <3> QED BY <3>2, <3>3 DEF Listed, Accepts
  <2> QED BY <2>5, <2>6 DEF AcceptIsArmedOnce
<1> QED BY <1>1, AlwaysInv, PTL

\* UnmapIsSafe: p->live counts the conn_t objects in use, and a worker that leaves
\* with p->live = 0 leaves no recv behind that could write into the slab it unmaps.
THEOREM UnmapsSafely == Spec => []UnmapIsSafe
<1>1. ASSUME Inv PROVE UnmapIsSafe
  <2>1. live = Cardinality(Open) /\ TypeOK
    BY <1>1 DEF Inv, LiveOk
  <2>2. ASSUME live = 0
        PROVE /\ krecv = {} /\ \A i \in 1..Len(sq) : sq[i].op # "recv"
              /\ \A c \in Conns : conn[c].co = "none"
    <3>1. IsFiniteSet(Open)
      BY WorkerAssumption, FS_Subset DEF Open
    <3>2. Open = {}
      BY <2>1, <2>2, <3>1, FS_EmptySet
    <3>3. \A c \in Conns : conn[c].co = "none" /\ c \notin krecv /\ RecvsInSq(c) = 0
      BY <1>1, <3>2, Unused
    <3>4. krecv = {}
      BY <2>1, <3>3 DEF TypeOK
    <3>5. ASSUME NEW i \in 1..Len(sq), sq[i].op = "recv" PROVE FALSE
      <4>1. sq \in Seq(SqeType) /\ sq[i] \in SqeType
        BY <2>1, ElementOfSeq DEF TypeOK
      <4>2. PICK c \in Conns : sq[i] = Sqe("recv", c)
        BY <3>5, <4>1 DEF SqeType, Sqe
      <4>3. Count(sq, {Sqe("recv", c)}) = 0
        BY <3>3 DEF RecvsInSq
      <4> QED BY <4>1, <4>2, <4>3, CountZero
    <3> QED BY <3>3, <3>4, <3>5
  <2> QED BY <2>1, <2>2 DEF UnmapIsSafe
<1> QED BY <1>1, AlwaysInv, PTL

\* BufferHasOneHome: no provided buffer is lost and none is handed out twice.
THEOREM BuffersHaveOneHome == Spec => []BufferHasOneHome
<1>1. ASSUME Inv PROVE BufferHasOneHome
  <2> SUFFICES ASSUME NEW b \in cfg.buffers PROVE Cardinality(Homes(b)) = 1
    BY DEF BufferHasOneHome
  <2> DEFINE P == {j \in 1..Len(cq) : cq[j].b = b}
  <2>1. BufferOk(b) /\ cq \in Seq(CqeType) /\ \A c \in Conns : conn[c].rx \in Seq(Buffers)
    BY <1>1 DEF Inv, TypeOK, ConnType
  <2>2. Count(cq, Bearing(b)) = Cardinality(P)
    <3>1. \A j \in 1..Len(cq) : cq[j] \in Bearing(b) <=> cq[j].b = b
      BY <2>1, ElementOfSeq DEF Bearing
    <3>2. P = {j \in 1..Len(cq) : cq[j] \in Bearing(b)}
      BY <3>1
    <3> QED BY <3>2 DEF Count
  <2>3. IsFiniteSet(P) /\ Cardinality(P) \in Nat
    <3>1. IsFiniteSet(1..Len(cq))
      <4>1. Len(cq) \in Nat
        BY <2>1, LenProperties
      <4> QED BY <4>1, FS_Interval
    <3>2. IsFiniteSet(P)
      BY <3>1, FS_Subset
    <3> QED BY <3>2, FS_CardinalityType
  <2>4. \A h : h \in Homes(b) <=>
           \/ b \in kfree /\ h = <<"ring", None, 0>>
           \/ b \in staged /\ h = <<"tail", None, 0>>
           \/ \E i \in P : h = <<"cq", None, i>>
           \/ \E c \in Conns : \E i \in Listed(conn[c].rx, b) : h = <<"rx", c, i>>
           \/ \E c \in Conns : b \in conn[c].held /\ h = <<"held", c, 0>>
    <3> DEFINE H1 == {<<"ring", None, 0>> : x \in kfree \cap {b}}
               H2 == {<<"tail", None, 0>> : x \in staged \cap {b}}
               H3 == {<<"cq", None, i>> : i \in {j \in 1..Len(cq) : cq[j].b = b}}
               H4 == UNION {{<<"rx", c, i>> : i \in Listed(conn[c].rx, b)} : c \in Conns}
               H5 == {<<"held", c, 0>> : c \in {d \in Conns : b \in conn[d].held}}
    <3>1. \A h : h \in H1 <=> b \in kfree /\ h = <<"ring", None, 0>>
      OBVIOUS
    <3>2. \A h : h \in H2 <=> b \in staged /\ h = <<"tail", None, 0>>
      OBVIOUS
    <3>3. \A h : h \in H3 <=> \E i \in P : h = <<"cq", None, i>>
      OBVIOUS
    <3>4. \A h : h \in H4 <=> \E c \in Conns : \E i \in Listed(conn[c].rx, b) : h = <<"rx", c, i>>
      <4>1. \A h : h \in H4 <=> \E c \in Conns : h \in {<<"rx", c, i>> : i \in Listed(conn[c].rx, b)}
        OBVIOUS
      <4> QED BY <4>1
    <3>5. \A h : h \in H5 <=> \E c \in Conns : b \in conn[c].held /\ h = <<"held", c, 0>>
      OBVIOUS
    <3>6. Homes(b) = H1 \cup H2 \cup H3 \cup H5 \cup H4
      BY DEF Homes
    <3> HIDE DEF H1, H2, H3, H4, H5, P
    <3> QED BY <3>1, <3>2, <3>3, <3>4, <3>5, <3>6
  <2>5. ASSUME NEW c \in Conns
        PROVE  /\ With(b, c) = Cardinality(Listed(conn[c].rx, b)) + One(b \in conn[c].held)
               /\ Cardinality(Listed(conn[c].rx, b)) \in Nat /\ IsFiniteSet(Listed(conn[c].rx, b))
    <3>1. Count(conn[c].rx, {b}) \in Nat /\ Cardinality(Listed(conn[c].rx, b)) = Count(conn[c].rx, {b})
      BY <2>1, CountNat, ListedCount
    <3>2. IsFiniteSet(1..Len(conn[c].rx))
      <4>1. Len(conn[c].rx) \in Nat
        BY <2>1, LenProperties
      <4> QED BY <4>1, FS_Interval
    <3>3. IsFiniteSet(Listed(conn[c].rx, b))
      BY <3>2, FS_Subset DEF Listed
    <3> QED BY <3>1, <3>3 DEF With
  <2>6. ASSUME NEW c \in Conns, With(b, c) = 0 PROVE Listed(conn[c].rx, b) = {} /\ b \notin conn[c].held
    <3>1. Cardinality(Listed(conn[c].rx, b)) = 0 /\ b \notin conn[c].held
      BY <2>5, <2>6 DEF One
    <3> QED BY <2>5, <3>1, FS_EmptySet
  <2> HIDE DEF P
  <2>7. ASSUME InRings(b) = 1, \A c \in Conns : With(b, c) = 0
        PROVE  \E h : \A g : g \in Homes(b) <=> g = h
    <3>1. One(b \in kfree) + One(b \in staged) + Cardinality(P) = 1
      BY <2>2, <2>7 DEF InRings
    <3>2. \/ b \in kfree /\ b \notin staged /\ Cardinality(P) = 0
          \/ b \notin kfree /\ b \in staged /\ Cardinality(P) = 0
          \/ b \notin kfree /\ b \notin staged /\ Cardinality(P) = 1
      BY <2>3, <3>1 DEF One
    <3>3. Cardinality(P) = 0 => P = {}
      BY <2>3, FS_EmptySet
    <3>4. Cardinality(P) = 1 => \E i : P = {i}
      BY <2>3, FS_Singleton
    <3>5. \A c \in Conns : Listed(conn[c].rx, b) = {} /\ b \notin conn[c].held
      BY <2>6, <2>7
    <3>6. \A h : h \in Homes(b) <=>
           \/ b \in kfree /\ h = <<"ring", None, 0>>
           \/ b \in staged /\ h = <<"tail", None, 0>>
           \/ \E i \in P : h = <<"cq", None, i>>
      BY <2>4, <3>5
    <3>7. CASE b \in kfree /\ b \notin staged /\ P = {}
      <4>1. PICK h : h = <<"ring", None, 0>>
        OBVIOUS
      <4>2. \A g : g \in Homes(b) <=> g = h
        BY <3>6, <3>7, <4>1
      <4> QED BY <4>2
    <3>8. CASE b \notin kfree /\ b \in staged /\ P = {}
      <4>1. PICK h : h = <<"tail", None, 0>>
        OBVIOUS
      <4>2. \A g : g \in Homes(b) <=> g = h
        BY <3>6, <3>8, <4>1
      <4> QED BY <4>2
    <3>9. CASE b \notin kfree /\ b \notin staged /\ \E i : P = {i}
      <4>1. PICK i : P = {i}
        BY <3>9
      <4>2. PICK h : h = <<"cq", None, i>>
        OBVIOUS
      <4>3. \A g : g \in Homes(b) <=> g = h
        BY <3>6, <3>9, <4>1, <4>2
      <4> QED BY <4>3
    <3> QED BY <3>2, <3>3, <3>4, <3>7, <3>8, <3>9
  <2>8. ASSUME InRings(b) = 0, NEW c \in Conns, With(b, c) = 1, \A d \in Conns : d # c => With(b, d) = 0
        PROVE  \E h : \A g : g \in Homes(b) <=> g = h
    <3>1. One(b \in kfree) + One(b \in staged) + Cardinality(P) = 0
      BY <2>2, <2>8 DEF InRings
    <3>2. b \notin kfree /\ b \notin staged /\ Cardinality(P) = 0
      BY <2>3, <3>1 DEF One
    <3>3. P = {}
      BY <2>3, <3>2, FS_EmptySet
    <3>4. \A d \in Conns : d # c => Listed(conn[d].rx, b) = {} /\ b \notin conn[d].held
      BY <2>6, <2>8
    <3>5. \A h : h \in Homes(b) <=>
           \/ \E i \in Listed(conn[c].rx, b) : h = <<"rx", c, i>>
           \/ b \in conn[c].held /\ h = <<"held", c, 0>>
      BY <2>4, <3>2, <3>3, <3>4
    <3>6. \/ b \in conn[c].held /\ Cardinality(Listed(conn[c].rx, b)) = 0
          \/ b \notin conn[c].held /\ Cardinality(Listed(conn[c].rx, b)) = 1
      BY <2>5, <2>8 DEF One
    <3>7. \/ b \in conn[c].held /\ Listed(conn[c].rx, b) = {}
          \/ b \notin conn[c].held /\ \E i : Listed(conn[c].rx, b) = {i}
      BY <2>5, <3>6, FS_EmptySet, FS_Singleton
    <3>8. CASE b \in conn[c].held /\ Listed(conn[c].rx, b) = {}
      <4>1. PICK h : h = <<"held", c, 0>>
        OBVIOUS
      <4>2. \A g : g \in Homes(b) <=> g = h
        BY <3>5, <3>8, <4>1
      <4> QED BY <4>2
    <3>9. CASE b \notin conn[c].held /\ \E i : Listed(conn[c].rx, b) = {i}
      <4>1. PICK i : Listed(conn[c].rx, b) = {i}
        BY <3>9
      <4>2. PICK h : h = <<"rx", c, i>>
        OBVIOUS
      <4>3. \A g : g \in Homes(b) <=> g = h
        BY <3>5, <3>9, <4>1, <4>2
      <4> QED BY <4>3
    <3> QED BY <3>7, <3>8, <3>9
  <2>9. PICK h : \A g : g \in Homes(b) <=> g = h
    BY <2>1, <2>7, <2>8 DEF BufferOk
  <2>10. Homes(b) = {h}
    BY <2>9
  <2> QED BY <2>10, FS_Singleton
<1> QED BY <1>1, AlwaysInv, PTL

-----------------------------------------------------------------------------
(* Picking entries out of a sequence.                                      *)

\* Induction, as a fact about sets.
LEMMA NatSet ==
    ASSUME NEW S, 0 \in S, \A n \in Nat : n \in S => n + 1 \in S
    PROVE  \A n \in Nat : n \in S
<1> SUFFICES ASSUME Nat \ S # {} PROVE FALSE
  OBVIOUS
<1> DEFINE R == OpToRel(<, Nat)
<1>1. IsWellFoundedOn(R, Nat)
  BY NatLessThanWellFounded
<1>2. \A x, y \in Nat : <<x, y>> \in R <=> x < y
  BY DEF OpToRel
<1> HIDE DEF R
<1>3. PICK x \in Nat \ S : \A y \in Nat \ S : ~ (<<y, x>> \in R)
  BY <1>1, WFMin
<1>4. x # 0 /\ x - 1 \in Nat /\ x - 1 < x
  BY <1>3
<1>5. x - 1 \in S
  BY <1>2, <1>3, <1>4
<1>6. (x - 1) + 1 \in S
  BY <1>4, <1>5
<1> QED BY <1>3, <1>4, <1>6

\* One entry more.
Pick(f, a, e) == IF e \in DOMAIN f THEN Append(a, f[e]) ELSE a

\* g is what was picked up to each entry.
Picks(s, f, n, g) == g = [i \in 0..n |-> IF i = 0 THEN <<>> ELSE Pick(f, g[i - 1], s[i])]
PicksOf(s, f)     == CHOOSE g : Picks(s, f, Len(s), g)

\* There is such a function.
LEMMA PicksExist ==
    ASSUME NEW s, NEW f, NEW m \in Nat
    PROVE  \E g : Picks(s, f, m, g)
<1> DEFINE S == {n \in Nat : \E g : Picks(s, f, n, g)}
<1>1. 0 \in S
  <2>1. Picks(s, f, 0, [i \in 0..0 |-> <<>>])
    BY DEF Picks
  <2> QED BY <2>1
<1>2. ASSUME NEW n \in Nat, n \in S PROVE n + 1 \in S
  <2>1. PICK h : Picks(s, f, n, h)
    BY <1>2
  <2> DEFINE g == [i \in 0..n + 1 |-> IF i = n + 1 THEN Pick(f, h[n], s[i]) ELSE h[i]]
  <2>2. \A i \in 0..n : g[i] = h[i]
    OBVIOUS
  <2>3. ASSUME NEW i \in 0..n + 1
        PROVE  g[i] = IF i = 0 THEN <<>> ELSE Pick(f, g[i - 1], s[i])
    <3>1. CASE i = n + 1
      <4>1. i # 0 /\ i - 1 = n /\ n \in 0..n
        BY <3>1
      <4>2. g[i] = Pick(f, h[n], s[i])
        BY <3>1, Zenon
      <4> HIDE DEF g
      <4>3. g[i - 1] = h[n]
        BY <2>2, <4>1, Zenon
      <4> QED BY <4>1, <4>2, <4>3, Zenon
    <3>2. CASE i \in 0..n
      <4>1. i # 0 => i - 1 \in 0..n
        BY <3>2
      <4>2. h[i] = IF i = 0 THEN <<>> ELSE Pick(f, h[i - 1], s[i])
        <5>1. h[i] = [j \in 0..n |-> IF j = 0 THEN <<>> ELSE Pick(f, h[j - 1], s[j])][i]
          BY <2>1, Zenon DEF Picks
        <5> QED BY <3>2, <5>1, Zenon
      <4> HIDE DEF g
      <4>3. g[i] = h[i] /\ (i # 0 => g[i - 1] = h[i - 1])
        BY <2>2, <3>2, <4>1, Zenon
      <4> QED BY <4>2, <4>3, Zenon
    <3> QED BY <3>1, <3>2
  <2>4. g = [i \in 0..n + 1 |-> g[i]]
    BY Zenon
  <2> HIDE DEF g
  <2>5. [i \in 0..n + 1 |-> g[i]]
          = [i \in 0..n + 1 |-> IF i = 0 THEN <<>> ELSE Pick(f, g[i - 1], s[i])]
    BY <2>3, Zenon
  <2>6. Picks(s, f, n + 1, g)
    BY <2>4, <2>5, Zenon DEF Picks
  <2> QED BY <2>6
<1> HIDE DEF S
<1>3. m \in S
  BY <1>1, <1>2, NatSet
<1> QED BY <1>3 DEF S

\* g shows that r is picked from s.
Shows(s, f, g, r) ==
    /\ g[0] = <<>> /\ g[Len(s)] = r
    /\ \A i \in 1..Len(s) : g[i] = Pick(f, g[i - 1], s[i])

\* It shows Picked, which is its last value.
LEMMA PickedShown ==
    ASSUME NEW s, NEW f, Len(s) \in Nat
    PROVE  Shows(s, f, PicksOf(s, f), Picked(s, f))
<1> DEFINE g == PicksOf(s, f)
<1>1. Picks(s, f, Len(s), g)
  BY PicksExist, Zenon DEF PicksOf
<1>2. Picked(s, f) = g[Len(s)]
  BY Zenon DEF Picked, PicksOf, Picks, Pick
<1> HIDE DEF g
<1>3. ASSUME NEW i \in 0..Len(s)
      PROVE  g[i] = IF i = 0 THEN <<>> ELSE Pick(f, g[i - 1], s[i])
  <2>1. g[i] = [j \in 0..Len(s) |-> IF j = 0 THEN <<>> ELSE Pick(f, g[j - 1], s[j])][i]
    BY <1>1, Zenon DEF Picks
  <2> QED BY <2>1, Zenon
<1>4. 0 \in 0..Len(s) /\ \A i \in 1..Len(s) : i \in 0..Len(s) /\ i # 0
  OBVIOUS
<1>5. g[0] = <<>> /\ \A i \in 1..Len(s) : g[i] = Pick(f, g[i - 1], s[i])
  BY <1>3, <1>4, Zenon
<1> QED BY <1>2, <1>5, Zenon DEF Shows, g

\* Whatever is shown to be picked is.
LEMMA PickedBy ==
    ASSUME NEW s, NEW f, Len(s) \in Nat, NEW g, NEW r, Shows(s, f, g, r)
    PROVE  Picked(s, f) = r
<1> DEFINE h == PicksOf(s, f)
           S == {n \in Nat : n <= Len(s) => h[n] = g[n]}
<1>1. Shows(s, f, h, Picked(s, f))
  BY PickedShown
<1> HIDE DEF h
<1>2. 0 \in S
  BY <1>1 DEF Shows
<1>3. ASSUME NEW n \in Nat, n \in S PROVE n + 1 \in S
  <2> SUFFICES ASSUME n + 1 <= Len(s) PROVE h[n + 1] = g[n + 1]
    OBVIOUS
  <2>1. h[n] = g[n]
    BY <1>3
  <2>2. n + 1 \in 1..Len(s) /\ (n + 1) - 1 = n
    OBVIOUS
  <2> QED BY <1>1, <2>1, <2>2, Zenon DEF Shows
<1> HIDE DEF S
<1>4. Len(s) \in S
  BY <1>2, <1>3, NatSet
<1>5. h[Len(s)] = g[Len(s)]
  BY <1>4 DEF S
<1> QED BY <1>1, <1>5, Zenon DEF Shows

\* What is picked is named by f, and no more than there is.
LEMMA PickedType ==
    ASSUME NEW T, NEW s \in Seq(T), NEW R, NEW f,
           \A i \in 1..Len(s) : s[i] \in DOMAIN f => f[s[i]] \in R
    PROVE  /\ Picked(s, f) \in Seq(R) /\ Len(Picked(s, f)) <= Len(s)
           /\ \A i \in 0..Len(s) : PicksOf(s, f)[i] \in Seq(R)
<1> DEFINE g == PicksOf(s, f)
           S == {n \in Nat : n <= Len(s) => g[n] \in Seq(R) /\ Len(g[n]) <= n}
<1>0. Len(s) \in Nat
  OBVIOUS
<1>1. Shows(s, f, g, Picked(s, f))
  BY <1>0, PickedShown
<1> HIDE DEF g
<1>2. 0 \in S
  <2>1. g[0] = <<>>
    BY <1>1, Zenon DEF Shows
  <2>2. <<>> \in Seq(R) /\ Len(<<>>) <= 0
    OBVIOUS
  <2>3. g[0] \in Seq(R) /\ Len(g[0]) <= 0
    BY <2>1, <2>2, Zenon
  <2> QED BY <2>3
<1>3. ASSUME NEW n \in Nat, n \in S PROVE n + 1 \in S
  <2> SUFFICES ASSUME n + 1 <= Len(s) PROVE g[n + 1] \in Seq(R) /\ Len(g[n + 1]) <= n + 1
    OBVIOUS
  <2>1. g[n] \in Seq(R) /\ Len(g[n]) <= n
    BY <1>0, <1>3
  <2>2. n + 1 \in 1..Len(s) /\ (n + 1) - 1 = n
    BY <1>0
  <2>3. g[n + 1] = Pick(f, g[n], s[n + 1])
    BY <1>1, <2>2, Zenon DEF Shows
  <2>4. CASE s[n + 1] \in DOMAIN f
    <3>1. g[n + 1] = Append(g[n], f[s[n + 1]]) /\ f[s[n + 1]] \in R
      BY <2>2, <2>3, <2>4, Zenon DEF Pick
    <3> QED BY <2>1, <3>1
  <2>5. CASE s[n + 1] \notin DOMAIN f
    <3>1. g[n + 1] = g[n]
      BY <2>3, <2>5, Zenon DEF Pick
    <3> QED BY <2>1, <3>1
  <2> QED BY <2>4, <2>5
<1> HIDE DEF S
<1>4. \A n \in Nat : n \in S
  BY <1>2, <1>3, NatSet
<1>5. \A i \in 0..Len(s) : g[i] \in Seq(R) /\ Len(g[i]) <= i
  BY <1>0, <1>4 DEF S
<1>6. Picked(s, f) = g[Len(s)] /\ Len(s) \in 0..Len(s)
  BY <1>0, <1>1 DEF Shows
<1> QED BY <1>5, <1>6 DEF g

\* Two sequences, one behind the other.
Joined(s, w, f) == Picked(s \o w, f) = Picked(s, f) \o Picked(w, f)

\* Picking from two sequences, one behind the other.
LEMMA PickedCat ==
    ASSUME NEW T, NEW s \in Seq(T), NEW w \in Seq(T),
           NEW R, NEW f, \A e \in DOMAIN f : f[e] \in R
    PROVE  Joined(s, w, f)
<1> DEFINE a == Picked(s, f)
           b == Picked(w, f)
           h == PicksOf(s, f)
           k == PicksOf(w, f)
           n == Len(s)
           m == Len(w)
           t == s \o w
           g == [i \in 0..Len(t) |-> IF i <= n THEN h[i] ELSE a \o k[i - n]]
<1>1. n \in Nat /\ m \in Nat /\ Len(t) = n + m
      /\ \A i \in 1..Len(t) : t[i] = IF i <= n THEN s[i] ELSE w[i - n]
  BY ConcatProperties
<1>2. Shows(s, f, h, a) /\ Shows(w, f, k, b)
  BY <1>1, PickedShown
<1>3. a \in Seq(R) /\ b \in Seq(R) /\ \A i \in 0..m : k[i] \in Seq(R)
  BY PickedType
<1> HIDE DEF a, b, h, k, n, m, t
<1>4. h[0] = <<>> /\ h[n] = a /\ k[0] = <<>> /\ k[m] = b
  BY <1>2, Zenon DEF Shows, n, m
<1>5. \A i \in 0..n : g[i] = h[i]
  BY <1>1
<1>6. \A i \in 0..m : g[n + i] = a \o k[i]
  <2> SUFFICES ASSUME NEW i \in 0..m PROVE g[n + i] = a \o k[i]
    OBVIOUS
  <2>1. CASE i = 0
    <3>1. n + i = n /\ n \in 0..n
      BY <1>1, <2>1
    <3>2. a \o <<>> = a
      BY <1>3, ConcatEmptySeq
    <3> HIDE DEF g
    <3> QED BY <1>4, <1>5, <2>1, <3>1, <3>2, Zenon
  <2>2. CASE i # 0
    <3>1. n + i \in 0..Len(t) /\ ~(n + i <= n) /\ (n + i) - n = i
      BY <1>1, <2>2
    <3> QED BY <3>1, Zenon
  <2> QED BY <2>1, <2>2
<1> HIDE DEF g
<1>7. ASSUME NEW i \in 1..Len(t) PROVE g[i] = Pick(f, g[i - 1], t[i])
  <2>1. CASE i <= n
    <3>1. i \in 1..n /\ i \in 0..n /\ i - 1 \in 0..n /\ t[i] = s[i]
      BY <1>1, <2>1
    <3>2. h[i] = Pick(f, h[i - 1], s[i])
      BY <1>2, <3>1, Zenon DEF Shows, n
    <3> QED BY <1>5, <3>1, <3>2, Zenon
  <2>2. CASE ~(i <= n)
    <3> DEFINE j == i - n
    <3>1. j \in 1..m /\ j \in 0..m /\ j - 1 \in 0..m /\ t[i] = w[j]
          /\ n + j = i /\ n + (j - 1) = i - 1
      BY <1>1, <2>2
    <3> HIDE DEF j
    <3>2. k[j] = Pick(f, k[j - 1], w[j])
      BY <1>2, <3>1, Zenon DEF Shows, m
    <3>3. g[n + j] = a \o k[j] /\ g[n + (j - 1)] = a \o k[j - 1]
      BY <1>6, <3>1, Zenon
    <3>4. a \o Pick(f, k[j - 1], w[j]) = Pick(f, a \o k[j - 1], w[j])
      <4>1. CASE w[j] \in DOMAIN f
        <5> DEFINE x == f[w[j]]
                   p == k[j - 1]
        <5>1. x \in R /\ p \in Seq(R)
          BY <1>3, <3>1, <4>1
        <5> HIDE DEF x, p
        <5>2. a \o Append(p, x) = Append(a \o p, x)
          BY <1>3, <5>1
        <5> QED BY <4>1, <5>2, Zenon DEF Pick, x, p
      <4>2. CASE w[j] \notin DOMAIN f
        BY <4>2, Zenon DEF Pick
      <4> QED BY <4>1, <4>2
    <3> QED BY <3>1, <3>2, <3>3, <3>4, Zenon
  <2> QED BY <2>1, <2>2
<1>8. g[0] = <<>> /\ g[Len(t)] = a \o b
  <2>1. 0 \in 0..n /\ m \in 0..m
    BY <1>1
  <2> QED BY <1>1, <1>4, <1>5, <1>6, <2>1, Zenon
<1>9. Shows(t, f, g, a \o b)
  BY <1>7, <1>8, Zenon DEF Shows
<1>10. Len(t) \in Nat
  BY <1>1
<1>11. Picked(t, f) = a \o b
  BY <1>9, <1>10, PickedBy, Zenon
<1> QED BY <1>11, Zenon DEF t, a, b, Joined

\* A sequence with one entry f knows, and one without any.
LEMMA PickedOnly ==
    ASSUME NEW T, NEW s \in Seq(T), NEW f, NEW i \in 1..Len(s), s[i] \in DOMAIN f,
           \A j \in 1..Len(s) : j # i => s[j] \notin DOMAIN f
    PROVE  Picked(s, f) = <<f[s[i]]>>
<1> DEFINE x == f[s[i]]
           g == [n \in 0..Len(s) |-> IF n < i THEN <<>> ELSE <<x>>]
<1>1. Len(s) \in Nat /\ 0 < i
  OBVIOUS
<1>2. g[0] = <<>> /\ g[Len(s)] = <<x>>
  BY <1>1
<1>3. ASSUME NEW n \in 1..Len(s) PROVE g[n] = Pick(f, g[n - 1], s[n])
  <2>1. CASE n = i
    <3>1. g[n] = <<x>> /\ g[n - 1] = <<>>
      BY <1>1, <2>1
    <3> HIDE DEF g
    <3>2. Append(<<>>, x) = <<x>>
      OBVIOUS
    <3> QED BY <2>1, <3>1, <3>2, Zenon DEF Pick
  <2>2. CASE n # i
    <3>1. g[n] = g[n - 1]
      BY <1>1, <2>2
    <3> HIDE DEF g
    <3> QED BY <2>2, <3>1, Zenon DEF Pick
  <2> QED BY <2>1, <2>2
<1> HIDE DEF g
<1>4. Shows(s, f, g, <<x>>)
  BY <1>2, <1>3, Zenon DEF Shows
<1> QED BY <1>1, <1>4, PickedBy, Zenon

\* Nothing is picked when nothing is known.
LEMMA PickedNone ==
    ASSUME NEW T, NEW s \in Seq(T), NEW f, \A j \in 1..Len(s) : s[j] \notin DOMAIN f
    PROVE  Picked(s, f) = <<>>
<1> DEFINE g == [n \in 0..Len(s) |-> <<>>]
<1>1. Len(s) \in Nat
  OBVIOUS
<1>2. \A n \in 0..Len(s) : g[n] = <<>>
  OBVIOUS
<1> HIDE DEF g
<1>3. 0 \in 0..Len(s) /\ Len(s) \in 0..Len(s) /\ \A n \in 1..Len(s) : n \in 0..Len(s) /\ n - 1 \in 0..Len(s)
  BY <1>1
<1>4. Shows(s, f, g, <<>>)
  BY <1>2, <1>3, Zenon DEF Shows, Pick
<1> QED BY <1>1, <1>4, PickedBy, Zenon

-----------------------------------------------------------------------------
(* The rings, seen from a connection.                                      *)

OnSq(q, c)   == Picked(q, SqNames(c))
OnCq(q, c)   == Picked(q, CqNames(c))
SqMine(e, c) == e.op = "blanket" \/ (e.c = c /\ e.op \in {"recv", "cancel", "close"})
CqMine(e, c) == e.t = "recv" /\ e.c = c
Entry(e)     == [k |-> e.k, more |-> e.more]
Entries      == [k : {"data", "enobufs", "fin", "cancelled"}, more : BOOLEAN]
Names        == {"recv", "cancel", "close", "blanket"}

\* The SQEs Conn speaks of are c's.
LEMMA SqKnown ==
    ASSUME NEW c \in Conns, NEW e \in SqeType
    PROVE  /\ e \in DOMAIN SqNames(c) <=> SqMine(e, c)
           /\ SqMine(e, c) => SqNames(c)[e] = e.op
<1> DEFINE D == [op : {"recv", "cancel", "close"}, c : {c}] \cup {Sqe("blanket", None)}
<1>1. e \in [op : {"recv", "cancel", "close", "op", "accept", "cancelaccept", "blanket"},
             c : Conns \cup {None}] /\ (e.op = "blanket" => e.c = None)
  BY DEF SqeType
<1>2. e \in D <=> SqMine(e, c)
  <2>1. CASE e.op = "blanket"
    <3>1. e = [op |-> "blanket", c |-> None]
      BY <1>1, <2>1
    <3> QED BY <2>1, <3>1 DEF Sqe, SqMine
  <2>2. CASE e.op # "blanket"
    <3>1. e # Sqe("blanket", None)
      BY <2>2 DEF Sqe
    <3>2. e \in [op : {"recv", "cancel", "close"}, c : {c}] <=> SqMine(e, c)
      BY <1>1, <2>2 DEF SqMine
    <3> QED BY <3>1, <3>2
  <2> QED BY <2>1, <2>2
<1>3. DOMAIN SqNames(c) = D
  BY Zenon DEF SqNames
<1>4. e \in D => SqNames(c)[e] = e.op
  BY Zenon DEF SqNames
<1> HIDE DEF D
<1> QED BY <1>2, <1>3, <1>4, Zenon

\* Their names.
LEMMA SqNamed ==
    ASSUME NEW c
    PROVE  \A e \in DOMAIN SqNames(c) : SqNames(c)[e] \in Names
<1> DEFINE D == [op : {"recv", "cancel", "close"}, c : {c}] \cup {Sqe("blanket", None)}
<1>1. DOMAIN SqNames(c) = D /\ \A e \in D : SqNames(c)[e] = e.op
  BY Zenon DEF SqNames
<1>2. \A e \in D : e.op \in Names
  BY DEF Sqe, Names
<1> HIDE DEF D
<1> QED BY <1>1, <1>2, Zenon

\* The CQEs Conn speaks of are c's.
LEMMA CqKnown ==
    ASSUME NEW c \in Conns, NEW e \in CqeType
    PROVE  /\ e \in DOMAIN CqNames(c) <=> CqMine(e, c)
           /\ CqMine(e, c) => CqNames(c)[e] = Entry(e)
<1> DEFINE D == [t : {"recv"}, c : {c}, k : {"data", "enobufs", "fin", "cancelled"},
                 more : BOOLEAN, b : Buffers \cup {None}]
<1>1. e \in [t : {"recv", "op", "drain", "accept"}, c : Conns \cup {None},
             k : {"data", "fin", "cancelled", "enobufs", "done", "known", "refused",
                  "ok", "exhausted", "failed"},
             more : BOOLEAN, b : Buffers \cup {None}]
      /\ (e.t = "recv" => e.k \in {"data", "fin", "cancelled", "enobufs"})
  BY DEF CqeType
<1>2. e \in D <=> CqMine(e, c)
  BY <1>1 DEF CqMine
<1>3. DOMAIN CqNames(c) = D
  BY Zenon DEF CqNames
<1>4. e \in D => CqNames(c)[e] = Entry(e)
  BY Zenon DEF CqNames, Entry
<1> HIDE DEF D
<1> QED BY <1>2, <1>3, <1>4, Zenon

\* Their entries.
LEMMA CqNamed ==
    ASSUME NEW c
    PROVE  \A e \in DOMAIN CqNames(c) : CqNames(c)[e] \in Entries
<1> DEFINE D == [t : {"recv"}, c : {c}, k : {"data", "enobufs", "fin", "cancelled"},
                 more : BOOLEAN, b : Buffers \cup {None}]
<1>1. DOMAIN CqNames(c) = D /\ \A e \in D : CqNames(c)[e] = Entry(e)
  BY Zenon DEF CqNames, Entry
<1>2. \A e \in D : Entry(e) \in Entries
  BY DEF Entry, Entries
<1> HIDE DEF D
<1> QED BY <1>1, <1>2, Zenon

\* What more entries, or one fewer, come to.
LEMMA OnSqCat ==
    ASSUME NEW c \in Conns, NEW q \in Seq(SqeType), NEW w \in Seq(SqeType)
    PROVE  /\ OnSq(q \o w, c) = OnSq(q, c) \o OnSq(w, c)
           /\ OnSq(q, c) \in Seq(Names) /\ OnSq(w, c) \in Seq(Names)
<1>1. \A e \in DOMAIN SqNames(c) : SqNames(c)[e] \in Names
  BY SqNamed
<1> DEFINE f == SqNames(c)
<1>2. \A e \in DOMAIN f : f[e] \in Names
  BY <1>1
<1> HIDE DEF f
<1>3. Joined(q, w, f)
  BY <1>2, PickedCat
<1>4. Picked(q, f) \in Seq(Names) /\ Picked(w, f) \in Seq(Names) /\ Len(Picked(q, f)) <= Len(q)
  BY <1>2, PickedType
<1> QED BY <1>3, <1>4, Zenon DEF OnSq, f, Joined

\* A queue without a blanket cancel shows none.
LEMMA NoBlanket ==
    ASSUME NEW c \in Conns, NEW q \in Seq(SqeType), \A i \in 1..Len(q) : q[i].op # "blanket"
    PROVE  OnSq(q, c) \in Seq(Names \ {"blanket"})
<1>1. \A i \in 1..Len(q) : q[i] \in SqeType
  BY ElementOfSeq
<1>2. ASSUME NEW i \in 1..Len(q), q[i] \in DOMAIN SqNames(c)
      PROVE  SqNames(c)[q[i]] \in Names \ {"blanket"}
  BY <1>1, <1>2, SqKnown, SqNamed
<1> DEFINE f == SqNames(c)
<1>3. \A i \in 1..Len(q) : q[i] \in DOMAIN f => f[q[i]] \in Names \ {"blanket"}
  BY <1>2
<1> HIDE DEF f
<1>4. Picked(q, f) \in Seq(Names \ {"blanket"})
  BY <1>3, PickedType
<1> QED BY <1>4, Zenon DEF OnSq, f

\* Nothing of c's is in w.
LEMMA OnSqNone ==
    ASSUME NEW c \in Conns, NEW w \in Seq(SqeType), \A i \in 1..Len(w) : ~SqMine(w[i], c)
    PROVE  OnSq(w, c) = <<>>
<1>1. \A i \in 1..Len(w) : w[i] \in SqeType
  BY ElementOfSeq
<1>2. \A i \in 1..Len(w) : w[i] \notin DOMAIN SqNames(c)
  BY <1>1, SqKnown
<1> QED BY <1>2, PickedNone DEF OnSq

\* One SQE of w is c's.
LEMMA OnSqOnly ==
    ASSUME NEW c \in Conns, NEW w \in Seq(SqeType), NEW i \in 1..Len(w), SqMine(w[i], c),
           \A j \in 1..Len(w) : j # i => ~SqMine(w[j], c)
    PROVE  OnSq(w, c) = <<w[i].op>>
<1>1. \A j \in 1..Len(w) : w[j] \in SqeType
  BY ElementOfSeq
<1>2. w[i] \in DOMAIN SqNames(c) /\ SqNames(c)[w[i]] = w[i].op
  BY <1>1, SqKnown
<1>3. \A j \in 1..Len(w) : j # i => w[j] \notin DOMAIN SqNames(c)
  BY <1>1, SqKnown
<1>4. Picked(w, SqNames(c)) = <<SqNames(c)[w[i]]>>
  BY <1>2, <1>3, PickedOnly
<1> QED BY <1>2, <1>4, Zenon DEF OnSq

\* A queue of one.
LEMMA OnSqOne ==
    ASSUME NEW c \in Conns, NEW e \in SqeType
    PROVE  OnSq(<<e>>, c) = IF SqMine(e, c) THEN <<e.op>> ELSE <<>>
<1> DEFINE w == <<e>>
<1>1. w \in Seq(SqeType) /\ Len(w) = 1 /\ w[1] = e /\ 1 \in 1..Len(w)
      /\ \A j \in 1..Len(w) : j = 1
  OBVIOUS
<1> HIDE DEF w
<1>2. CASE SqMine(e, c)
  <2>1. OnSq(w, c) = <<w[1].op>>
    BY <1>1, <1>2, OnSqOnly
  <2> QED BY <1>1, <1>2, <2>1, Zenon DEF w
<1>3. CASE ~SqMine(e, c)
  <2>1. OnSq(w, c) = <<>>
    BY <1>1, <1>3, OnSqNone
  <2> QED BY <1>3, <2>1, Zenon DEF w
<1> QED BY <1>2, <1>3

\* ... and of two completion queues; a connection sees no more than there is.
LEMMA OnCqCat ==
    ASSUME NEW c \in Conns, NEW q \in Seq(CqeType), NEW w \in Seq(CqeType)
    PROVE  /\ OnCq(q \o w, c) = OnCq(q, c) \o OnCq(w, c)
           /\ OnCq(q, c) \in Seq(Entries) /\ OnCq(w, c) \in Seq(Entries)
           /\ Len(OnCq(q, c)) <= Len(q)
<1>1. \A e \in DOMAIN CqNames(c) : CqNames(c)[e] \in Entries
  BY CqNamed
<1> DEFINE f == CqNames(c)
<1>2. \A e \in DOMAIN f : f[e] \in Entries
  BY <1>1
<1> HIDE DEF f
<1>3. Joined(q, w, f)
  BY <1>2, PickedCat
<1>4. Picked(q, f) \in Seq(Entries) /\ Picked(w, f) \in Seq(Entries) /\ Len(Picked(q, f)) <= Len(q)
  BY <1>2, PickedType
<1> QED BY <1>3, <1>4, Zenon DEF OnCq, f, Joined

\* Nothing of c's is in w.
LEMMA OnCqNone ==
    ASSUME NEW c \in Conns, NEW w \in Seq(CqeType), \A i \in 1..Len(w) : ~CqMine(w[i], c)
    PROVE  OnCq(w, c) = <<>>
<1>1. \A i \in 1..Len(w) : w[i] \in CqeType
  BY ElementOfSeq
<1>2. \A i \in 1..Len(w) : w[i] \notin DOMAIN CqNames(c)
  BY <1>1, CqKnown
<1> QED BY <1>2, PickedNone DEF OnCq

\* One CQE of w is c's.
LEMMA OnCqOnly ==
    ASSUME NEW c \in Conns, NEW w \in Seq(CqeType), NEW i \in 1..Len(w), CqMine(w[i], c),
           \A j \in 1..Len(w) : j # i => ~CqMine(w[j], c)
    PROVE  OnCq(w, c) = <<Entry(w[i])>>
<1>1. \A j \in 1..Len(w) : w[j] \in CqeType
  BY ElementOfSeq
<1>2. w[i] \in DOMAIN CqNames(c) /\ CqNames(c)[w[i]] = Entry(w[i])
  BY <1>1, CqKnown
<1>3. \A j \in 1..Len(w) : j # i => w[j] \notin DOMAIN CqNames(c)
  BY <1>1, CqKnown
<1>4. Picked(w, CqNames(c)) = <<CqNames(c)[w[i]]>>
  BY <1>2, <1>3, PickedOnly
<1> QED BY <1>2, <1>4, Zenon DEF OnCq

\* A queue of one.
LEMMA OnCqOne ==
    ASSUME NEW c \in Conns, NEW e \in CqeType
    PROVE  OnCq(<<e>>, c) = IF CqMine(e, c) THEN <<Entry(e)>> ELSE <<>>
<1> DEFINE w == <<e>>
<1>1. w \in Seq(CqeType) /\ Len(w) = 1 /\ w[1] = e /\ 1 \in 1..Len(w)
      /\ \A j \in 1..Len(w) : j = 1
  OBVIOUS
<1> HIDE DEF w
<1>2. CASE CqMine(e, c)
  <2>1. OnCq(w, c) = <<Entry(w[1])>>
    BY <1>1, <1>2, OnCqOnly
  <2> QED BY <1>1, <1>2, <2>1, Zenon DEF w
<1>3. CASE ~CqMine(e, c)
  <2>1. OnCq(w, c) = <<>>
    BY <1>1, <1>3, OnCqNone
  <2> QED BY <1>3, <2>1, Zenon DEF w
<1> QED BY <1>2, <1>3

\* The first SQE leaves: it was c's first, or none of c's.
LEMMA OnSqTail ==
    ASSUME NEW c \in Conns, NEW q \in Seq(SqeType), q # <<>>
    PROVE  LET e == Head(q) IN
           /\ e \in SqeType
           /\ SqMine(e, c) => /\ OnSq(q, c) # <<>> /\ Head(OnSq(q, c)) = e.op
                             /\ Tail(OnSq(q, c)) = OnSq(Tail(q), c)
           /\ ~SqMine(e, c) => OnSq(Tail(q), c) = OnSq(q, c)
<1> DEFINE e == Head(q)
           t == Tail(q)
           w == <<e>>
           n == e.op
           r == OnSq(t, c)
<1>1. e \in SqeType /\ t \in Seq(SqeType) /\ q = w \o t /\ w \in Seq(SqeType)
  BY HeadTailProperties, ConcatSimplifications
<1>2. OnSq(w, c) = IF SqMine(e, c) THEN <<n>> ELSE <<>>
  BY <1>1, OnSqOne, Zenon
<1> HIDE DEF e, t, w, n
<1>3. OnSq(w \o t, c) = OnSq(w, c) \o r /\ r \in Seq(Names) /\ OnSq(w, c) \in Seq(Names)
  BY <1>1, OnSqCat, Zenon
<1>4. OnSq(q, c) = OnSq(w, c) \o r
  BY <1>1, <1>3, Zenon
<1> HIDE DEF r
<1>5. ASSUME SqMine(e, c) PROVE OnSq(q, c) # <<>> /\ Head(OnSq(q, c)) = n /\ Tail(OnSq(q, c)) = r
  <2>1. OnSq(q, c) = <<n>> \o r /\ <<n>> \in Seq(Names)
    BY <1>2, <1>3, <1>4, <1>5, Zenon
  <2>2. n \in Names
    BY <2>1
  <2>3. <<n>> \o r # <<>> /\ Head(<<n>> \o r) = n /\ Tail(<<n>> \o r) = r
    BY <1>3, <2>2
  <2> QED BY <2>1, <2>3, Zenon
<1>6. ASSUME ~SqMine(e, c) PROVE r = OnSq(q, c)
  <2>1. OnSq(q, c) = <<>> \o r
    BY <1>2, <1>4, <1>6, Zenon
  <2> QED BY <1>3, <2>1, ConcatEmptySeq
<1> QED BY <1>1, <1>5, <1>6, Zenon DEF e, t, n, r

\* SQEs are staged.
LEMMA SqPushed ==
    ASSUME TypeOK, NEW w \in Seq(SqeType), sq' = sq \o w, NEW d \in Conns
    PROVE  SqOf(d)' = SqOf(d) \o OnSq(w, d) /\ SqOf(d) \in Seq(Names)
<1>1. sq \in Seq(SqeType)
  BY DEF TypeOK
<1>2. SqOf(d)' = OnSq(sq', d) /\ SqOf(d) = OnSq(sq, d)
  BY Zenon DEF SqOf, OnSq
<1>3. OnSq(sq \o w, d) = OnSq(sq, d) \o OnSq(w, d) /\ OnSq(sq, d) \in Seq(Names)
  BY <1>1, OnSqCat, Zenon
<1> QED BY <1>2, <1>3, Zenon

\* The first CQE leaves: it was c's first, or none of c's.
LEMMA OnCqTail ==
    ASSUME NEW c \in Conns, NEW q \in Seq(CqeType), q # <<>>
    PROVE  LET e == Head(q) IN
           /\ e \in CqeType
           /\ CqMine(e, c) => /\ OnCq(q, c) # <<>> /\ Head(OnCq(q, c)) = Entry(e)
                             /\ Tail(OnCq(q, c)) = OnCq(Tail(q), c)
           /\ ~CqMine(e, c) => OnCq(Tail(q), c) = OnCq(q, c)
<1> DEFINE e == Head(q)
           t == Tail(q)
           w == <<e>>
           n == Entry(e)
           r == OnCq(t, c)
<1>1. e \in CqeType /\ t \in Seq(CqeType) /\ q = w \o t /\ w \in Seq(CqeType)
  BY HeadTailProperties, ConcatSimplifications
<1>2. OnCq(w, c) = IF CqMine(e, c) THEN <<n>> ELSE <<>>
  BY <1>1, OnCqOne, Zenon
<1> HIDE DEF e, t, w, n
<1>3. OnCq(w \o t, c) = OnCq(w, c) \o r /\ r \in Seq(Entries) /\ OnCq(w, c) \in Seq(Entries)
  BY <1>1, OnCqCat, Zenon
<1>4. OnCq(q, c) = OnCq(w, c) \o r
  BY <1>1, <1>3, Zenon
<1> HIDE DEF r
<1>5. ASSUME CqMine(e, c) PROVE OnCq(q, c) # <<>> /\ Head(OnCq(q, c)) = n /\ Tail(OnCq(q, c)) = r
  <2>1. OnCq(q, c) = <<n>> \o r /\ <<n>> \in Seq(Entries)
    BY <1>2, <1>3, <1>4, <1>5, Zenon
  <2>2. n \in Entries
    BY <2>1
  <2>3. <<n>> \o r # <<>> /\ Head(<<n>> \o r) = n /\ Tail(<<n>> \o r) = r
    BY <1>3, <2>2
  <2> QED BY <2>1, <2>3, Zenon
<1>6. ASSUME ~CqMine(e, c) PROVE r = OnCq(q, c)
  <2>1. OnCq(q, c) = <<>> \o r
    BY <1>2, <1>4, <1>6, Zenon
  <2> QED BY <1>3, <2>1, ConcatEmptySeq
<1> QED BY <1>1, <1>5, <1>6, Zenon DEF e, t, n, r

\* One more SQE.
LEMMA OnSqAdd ==
    ASSUME NEW d \in Conns, NEW q \in Seq(SqeType), NEW e \in SqeType
    PROVE  /\ Append(q, e) \in Seq(SqeType)
           /\ OnSq(Append(q, e), d) = IF SqMine(e, d) THEN Append(OnSq(q, d), e.op) ELSE OnSq(q, d)
<1> DEFINE w == <<e>>
           n == e.op
           r == OnSq(q, d)
<1>1. w \in Seq(SqeType) /\ Append(q, e) = q \o w /\ Append(q, e) \in Seq(SqeType)
  BY AppendIsConcat
<1>2. OnSq(w, d) = IF SqMine(e, d) THEN <<n>> ELSE <<>>
  BY OnSqOne, Zenon
<1> HIDE DEF w, n
<1>3. OnSq(q \o w, d) = r \o OnSq(w, d) /\ r \in Seq(Names) /\ OnSq(w, d) \in Seq(Names)
  BY <1>1, OnSqCat, Zenon
<1> HIDE DEF r
<1>4. CASE SqMine(e, d)
  <2>1. OnSq(q \o w, d) = r \o <<n>> /\ <<n>> \in Seq(Names)
    BY <1>2, <1>3, <1>4, Zenon
  <2>2. n \in Names
    BY <2>1
  <2>3. r \o <<n>> = Append(r, n)
    BY <1>3, <2>2, AppendIsConcat
  <2> QED BY <1>1, <1>4, <2>1, <2>3, Zenon DEF n, r
<1>5. CASE ~SqMine(e, d)
  <2>1. OnSq(q \o w, d) = r \o <<>>
    BY <1>2, <1>3, <1>5, Zenon
  <2>2. r \o <<>> = r
    BY <1>3, ConcatEmptySeq
  <2> QED BY <1>1, <1>5, <2>1, <2>2, Zenon DEF r
<1> QED BY <1>4, <1>5

\* One more CQE.
LEMMA OnCqAdd ==
    ASSUME NEW d \in Conns, NEW q \in Seq(CqeType), NEW e \in CqeType
    PROVE  /\ Append(q, e) \in Seq(CqeType)
           /\ OnCq(Append(q, e), d) = IF CqMine(e, d) THEN Append(OnCq(q, d), Entry(e)) ELSE OnCq(q, d)
<1> DEFINE w == <<e>>
           n == Entry(e)
           r == OnCq(q, d)
<1>1. w \in Seq(CqeType) /\ Append(q, e) = q \o w /\ Append(q, e) \in Seq(CqeType)
  BY AppendIsConcat
<1>2. OnCq(w, d) = IF CqMine(e, d) THEN <<n>> ELSE <<>>
  BY OnCqOne, Zenon
<1> HIDE DEF w, n
<1>3. OnCq(q \o w, d) = r \o OnCq(w, d) /\ r \in Seq(Entries) /\ OnCq(w, d) \in Seq(Entries)
  BY <1>1, OnCqCat, Zenon
<1> HIDE DEF r
<1>4. CASE CqMine(e, d)
  <2>1. OnCq(q \o w, d) = r \o <<n>> /\ <<n>> \in Seq(Entries)
    BY <1>2, <1>3, <1>4, Zenon
  <2>2. n \in Entries
    BY <2>1
  <2>3. r \o <<n>> = Append(r, n)
    BY <1>3, <2>2, AppendIsConcat
  <2> QED BY <1>1, <1>4, <2>1, <2>3, Zenon DEF n, r
<1>5. CASE ~CqMine(e, d)
  <2>1. OnCq(q \o w, d) = r \o <<>>
    BY <1>2, <1>3, <1>5, Zenon
  <2>2. r \o <<>> = r
    BY <1>3, ConcatEmptySeq
  <2> QED BY <1>1, <1>5, <2>1, <2>2, Zenon DEF r
<1> QED BY <1>4, <1>5

\* The queues of a connection, now and next.
LEMMA OfIs ==
    \A d : /\ SqOf(d) = OnSq(sq, d) /\ CqOf(d) = OnCq(cq, d)
           /\ SqOf(d)' = OnSq(sq', d) /\ CqOf(d)' = OnCq(cq', d)
BY Zenon DEF SqOf, CqOf, OnSq, OnCq

\* cancel_recv stages its SQE behind q, for c alone.
LEMMA OnSqCancel ==
    ASSUME NEW d \in Conns, NEW q \in Seq(SqeType), NEW c \in Conns, NEW x
    PROVE  /\ q \o CancelSqe(c, x) \in Seq(SqeType)
           /\ OnSq(q \o CancelSqe(c, x), d) =
                IF c = d /\ ~x.cancelling THEN Append(OnSq(q, d), "cancel") ELSE OnSq(q, d)
<1>1. CASE x.cancelling
  <2>1. q \o CancelSqe(c, x) = q
    <3>1. CancelSqe(c, x) = <<>>
      BY <1>1, Zenon DEF CancelSqe
    <3>2. q \o <<>> = q
      BY ConcatEmptySeq
    <3> QED BY <3>1, <3>2, Zenon
  <2> QED BY <1>1, <2>1, Zenon
<1>2. CASE ~x.cancelling
  <2> DEFINE e == Sqe("cancel", c)
  <2>1. e \in SqeType /\ e.op = "cancel" /\ e.c = c
    BY DEF Sqe, SqeType
  <2> HIDE DEF e
  <2>2. q \o CancelSqe(c, x) = Append(q, e)
    <3>1. CancelSqe(c, x) = <<e>>
      BY <1>2, Zenon DEF CancelSqe, e
    <3>2. q \o <<e>> = Append(q, e)
      BY <2>1, AppendIsConcat
    <3> QED BY <3>1, <3>2, Zenon
  <2>3. SqMine(e, d) <=> c = d
    BY <2>1 DEF SqMine
  <2> QED BY <1>2, <2>1, <2>2, <2>3, OnSqAdd, Zenon
<1> QED BY <1>1, <1>2

-----------------------------------------------------------------------------
(* What a connection does not see.                                         *)

FrameOf(d) == IF frame.c = d THEN frame.k ELSE "none"
DrainNow   == IF ~draining THEN "off" ELSE IF pc = "sweep" THEN "sweep" ELSE "on"
LiveIn(d)  == IF d \in krecv THEN 1 ELSE 0

\* The record of d, as Conn knows it.
SameConn(d) ==
    /\ conn'[d].refs = conn[d].refs /\ conn'[d].recv = conn[d].recv
    /\ conn'[d].pausing = conn[d].pausing /\ conn'[d].cancelling = conn[d].cancelling
    /\ conn'[d].closed = conn[d].closed /\ conn'[d].eof = conn[d].eof
    /\ Len(conn'[d].rx) = Len(conn[d].rx)
    /\ conn'[d].co = conn[d].co /\ conn'[d].phase = conn[d].phase

Around(d) == /\ FrameOf(d)' = FrameOf(d) /\ DrainNow' = DrainNow /\ canceleach' = canceleach
             /\ LiveIn(d)' = LiveIn(d) /\ CqOf(d)' = CqOf(d)

View(d) == \A any \in BOOLEAN : cfg.any = any => [C(d, any)!Next]_(C(d, any)!vars)

\* A connection that nothing of it changes.
LEMMA NotSeen ==
    ASSUME NEW d \in Conns, SameConn(d), Around(d), SqOf(d)' = SqOf(d)
    PROVE  View(d)
<1> SUFFICES ASSUME NEW any \in BOOLEAN PROVE UNCHANGED C(d, any)!vars
  BY DEF View
<1> QED BY DEF SameConn, Around, FrameOf, DrainNow, LiveIn, C!vars, C!connVars, C!coVars,
               C!loopVars, C!kVars

\* The coroutine of c runs: what Conn calls its other variables stay.
CoVars == UNCHANGED <<frame, loopVars, cq, kVars>>

\* What a coroutine leaves alone.
LEMMA CoAround ==
    ASSUME CoVars, NEW d
    PROVE  Around(d)
<1>1. cq' = cq /\ frame' = frame /\ draining' = draining /\ pc' = pc /\ canceleach' = canceleach
      /\ krecv' = krecv
  BY DEF CoVars, loopVars, kVars
<1>2. CqOf(d)' = CqOf(d)
  BY <1>1, OfIs, Zenon
<1> QED BY <1>1, <1>2 DEF Around, FrameOf, DrainNow, LiveIn

\* Another connection keeps its record.
LEMMA PutOther ==
    ASSUME Inv, NEW c \in Conns, NEW x, conn' = [conn EXCEPT ![c] = x],
           NEW d \in Conns, d # c
    PROVE  SameConn(d)
BY DEF SameConn, Inv, TypeOK

-----------------------------------------------------------------------------
(* Coroutines.                                                             *)

\* The step of c is one of Conn's.
LEMMA StepSeen ==
    ASSUME NEW c, \A any \in BOOLEAN : cfg.any = any => C(c, any)!Next
    PROVE  View(c)
BY DEF View

\* The other connections, when c stages w.
LEMMA CoOthers ==
    ASSUME Inv, NEW c \in Conns, NEW x, conn' = [conn EXCEPT ![c] = x], CoVars,
           NEW d \in Conns, d # c, SqOf(d)' = SqOf(d)
    PROVE  View(d)
BY PutOther, CoAround, NotSeen

\* The steps of a coroutine are steps of its connection alone.
LEMMA RecvItemSeen ==
    ASSUME Inv, NEW c \in Conns, RecvItem(c), NEW d \in Conns
    PROVE  View(d)
<1>1. CoVars /\ sq' = sq
  BY DEF RecvItem, CoVars
<1>2. SqOf(d)' = SqOf(d)
  BY <1>1, OfIs, Zenon
<1>3. PICK x : conn' = [conn EXCEPT ![c] = x]
  BY DEF RecvItem, Put
<1>4. ASSUME d # c PROVE View(d)
  BY <1>1, <1>2, <1>3, <1>4, CoOthers
<1>5. ASSUME d = c PROVE View(d)
  <2>1. conn[c] \in ConnType /\ conn \in [Conns -> ConnType]
    BY DEF Inv, TypeOK
  <2>2. Around(c)
    BY <1>1, CoAround
  <2>3. /\ conn'[c].refs = conn[c].refs /\ conn'[c].recv = conn[c].recv
        /\ conn'[c].pausing = conn[c].pausing /\ conn'[c].cancelling = conn[c].cancelling
        /\ conn'[c].closed = conn[c].closed /\ conn'[c].eof = conn[c].eof
        /\ conn'[c].phase = conn[c].phase
        /\ \/ /\ Len(conn[c].rx) > 0 /\ Len(conn'[c].rx) = Len(conn[c].rx) - 1
              /\ conn'[c].co = "run"
           \/ /\ Len(conn[c].rx) = 0 /\ Len(conn'[c].rx) = Len(conn[c].rx)
              /\ conn'[c].co = IF conn[c].eof THEN "run" ELSE "recv"
    <3>1. /\ conn[c].rx \in Seq(Buffers)
          /\ conn[c].rx # <<>> => Len(conn[c].rx) > 0 /\ Len(Tail(conn[c].rx)) = Len(conn[c].rx) - 1
          /\ conn[c].rx = <<>> => Len(conn[c].rx) = 0
      BY <2>1 DEF ConnType
    <3>2. CASE /\ conn[c].rx # <<>>
               /\ Put(c, [conn[c] EXCEPT !.rx = Tail(@), !.co = "run",
                                         !.held = @ \cup {Head(conn[c].rx)}])
      BY <2>1, <3>1, <3>2 DEF Put, ConnType
    <3>3. CASE /\ conn[c].rx = <<>>
               /\ Put(c, [conn[c] EXCEPT !.co = IF conn[c].eof THEN "run" ELSE "recv"])
      BY <2>1, <3>1, <3>3 DEF Put, ConnType
    <3> QED BY <3>2, <3>3 DEF RecvItem
  <2>4. \/ conn[c].co = "run_recv"
        \/ conn[c].co = "run" /\ conn[c].phase # "fail" /\ (conn[c].recv = "paused" => Len(conn[c].rx) > 0)
    BY <2>1 DEF RecvItem, ConnType
  <2>5. ASSUME NEW any \in BOOLEAN PROVE C(c, any)!RecvItem
    BY <1>2, <1>5, <2>2, <2>3, <2>4
       DEF Around, FrameOf, DrainNow, LiveIn, C!RecvItem, C!loopVars, C!kVars
  <2> QED BY <1>5, <2>5, StepSeen DEF C!Next, C!Coroutine
<1> QED BY <1>4, <1>5

\* ... a buffer given back is none,
LEMMA GiveBackSeen ==
    ASSUME Inv, NEW c \in Conns, GiveBack(c), NEW d \in Conns
    PROVE  View(d)
<1>1. CoVars /\ sq' = sq
  BY DEF GiveBack, CoVars
<1>2. SqOf(d)' = SqOf(d)
  BY <1>1, OfIs, Zenon
<1>3. PICK x : conn' = [conn EXCEPT ![c] = x]
  BY DEF GiveBack, Put
<1>4. ASSUME d # c PROVE View(d)
  BY <1>1, <1>2, <1>3, <1>4, CoOthers
<1>5. ASSUME d = c PROVE View(d)
  <2>1. conn[c] \in ConnType /\ conn \in [Conns -> ConnType]
    BY DEF Inv, TypeOK
  <2>2. SameConn(c)
    BY <2>1 DEF GiveBack, Put, ConnType, SameConn
  <2> QED BY <1>1, <1>2, <1>5, <2>2, CoAround, NotSeen
<1> QED BY <1>4, <1>5

\* ... an await,
LEMMA AwaitSeen ==
    ASSUME Inv, NEW c \in Conns, Await(c), NEW d \in Conns
    PROVE  View(d)
<1>1. CoVars /\ sq' = Append(sq, Sqe("op", c))
  BY DEF Await, CoVars
<1>2. SqOf(d)' = SqOf(d)
  <2>1. sq \in Seq(SqeType) /\ Sqe("op", c) \in SqeType /\ ~SqMine(Sqe("op", c), d)
    BY DEF Inv, TypeOK, Sqe, SqeType, SqMine
  <2> QED BY <1>1, <2>1, OfIs, OnSqAdd, Zenon
<1>3. PICK x : conn' = [conn EXCEPT ![c] = x]
  BY DEF Await, Put
<1>4. ASSUME d # c PROVE View(d)
  BY <1>1, <1>2, <1>3, <1>4, CoOthers
<1>5. ASSUME d = c PROVE View(d)
  <2>1. conn[c] \in ConnType /\ conn \in [Conns -> ConnType]
    BY DEF Inv, TypeOK
  <2>2. Around(c)
    BY <1>1, CoAround
  <2>3. /\ conn'[c].refs = conn[c].refs /\ conn'[c].recv = conn[c].recv
        /\ conn'[c].pausing = conn[c].pausing /\ conn'[c].cancelling = conn[c].cancelling
        /\ conn'[c].closed = conn[c].closed /\ conn'[c].eof = conn[c].eof
        /\ conn'[c].phase = conn[c].phase /\ conn'[c].rx = conn[c].rx
        /\ conn[c].co = "run" /\ conn'[c].co = "parked"
    BY <2>1 DEF Await, Put, ConnType
  <2>5. ASSUME NEW any \in BOOLEAN PROVE C(c, any)!Await
    BY <1>2, <1>5, <2>2, <2>3
       DEF Around, FrameOf, DrainNow, LiveIn, C!Await, C!connVars, C!loopVars, C!kVars
  <2> QED BY <1>5, <2>5, StepSeen DEF C!Next, C!Coroutine
<1> QED BY <1>4, <1>5

\* Only a coroutine inside recv_pause is pausing.
PausingOk(c) == conn[c].pausing => conn[c].co \in {"pause", "run_pause"}

\* ... recv_pause,
LEMMA PauseSeen ==
    ASSUME Inv, NEW c \in Conns, PausingOk(c), Pause(c), NEW d \in Conns
    PROVE  View(d)
<1> DEFINE x == conn[c]
<1>1. CoVars /\ Runs(c) /\ sq \in Seq(SqeType)
  BY DEF Pause, CoVars, Inv, TypeOK
<1>2. PICK y : conn' = [conn EXCEPT ![c] = y]
  BY DEF Pause, Put
<1>3. SqOf(d)' = SqOf(d) \/ d = c
  <2>1. CASE sq' = sq
    BY <2>1, OfIs, Zenon
  <2>2. CASE sq' = sq \o CancelSqe(c, x)
    <3> SUFFICES ASSUME d # c PROVE SqOf(d)' = SqOf(d)
      OBVIOUS
    <3>1. OnSq(sq \o CancelSqe(c, x), d) = OnSq(sq, d)
      BY <1>1, OnSqCancel, Zenon
    <3> QED BY <2>2, <3>1, OfIs, Zenon
  <2> QED BY <2>1, <2>2 DEF Pause
<1>4. ASSUME d # c PROVE View(d)
  BY <1>1, <1>2, <1>3, <1>4, CoOthers
<1>5. ASSUME d = c PROVE View(d)
  <2>1. x \in ConnType /\ conn \in [Conns -> ConnType]
    BY DEF Inv, TypeOK
  <2>2. Around(c)
    BY <1>1, CoAround
  <2>3. CASE /\ x.co = "run" /\ x.phase = "hs" /\ x.recv = "armed"
             /\ Put(c, [Cancel(x) EXCEPT !.pausing = TRUE, !.co = "pause"])
             /\ sq' = sq \o CancelSqe(c, x)
    <3>1. SqOf(c)' = IF x.cancelling THEN SqOf(c) ELSE Append(SqOf(c), "cancel")
      <4>1. OnSq(sq \o CancelSqe(c, x), c)
              = IF c = c /\ ~x.cancelling THEN Append(OnSq(sq, c), "cancel") ELSE OnSq(sq, c)
        BY <1>1, OnSqCancel, Zenon
      <4> QED BY <2>3, <4>1, OfIs, Zenon
    <3>2. /\ conn'[c].refs = x.refs /\ conn'[c].recv = x.recv /\ conn'[c].pausing = TRUE
          /\ conn'[c].cancelling = TRUE /\ conn'[c].closed = x.closed /\ conn'[c].eof = x.eof
          /\ conn'[c].rx = x.rx /\ conn'[c].co = "pause" /\ conn'[c].phase = x.phase
      BY <2>1, <2>3 DEF Put, Cancel, ConnType
    <3>3. ASSUME NEW any \in BOOLEAN PROVE C(c, any)!Pause
      BY <2>2, <2>3, <3>1, <3>2
         DEF Around, FrameOf, DrainNow, LiveIn, C!Pause, C!CancelRecv, C!loopVars, C!kVars
    <3> QED BY <1>5, <3>3, StepSeen DEF C!Next, C!Coroutine
  <2>4. CASE /\ x.co = "run_pause" /\ x.recv = "armed"
             /\ Put(c, [x EXCEPT !.co = "pause"]) /\ sq' = sq
    <3>1. SqOf(c)' = SqOf(c)
      BY <2>4, OfIs, Zenon
    <3>2. /\ conn'[c].refs = x.refs /\ conn'[c].recv = x.recv /\ conn'[c].pausing = x.pausing
          /\ conn'[c].cancelling = x.cancelling /\ conn'[c].closed = x.closed
          /\ conn'[c].eof = x.eof
          /\ conn'[c].rx = x.rx /\ conn'[c].co = "pause" /\ conn'[c].phase = x.phase
      BY <2>1, <2>4 DEF Put, ConnType
    <3>3. ASSUME NEW any \in BOOLEAN PROVE C(c, any)!PauseLoop
      BY <2>2, <2>4, <3>1, <3>2
         DEF Around, FrameOf, DrainNow, LiveIn, C!PauseLoop, C!NoCancel, C!loopVars, C!kVars
    <3> QED BY <1>5, <3>3, StepSeen DEF C!Next, C!Coroutine
  <2>5. CASE /\ \/ x.co = "run_pause" /\ x.recv # "armed"
                \/ x.co = "run" /\ x.phase = "hs" /\ x.recv \in {"starved", "done"}
             /\ Put(c, Paused(x)) /\ sq' = sq
    <3>1. SqOf(c)' = SqOf(c)
      BY <2>5, OfIs, Zenon
    <3>2. /\ conn'[c].refs = x.refs /\ conn'[c].pausing = FALSE
          /\ conn'[c].recv = IF x.recv = "starved" THEN "paused" ELSE x.recv
          /\ conn'[c].cancelling = x.cancelling /\ conn'[c].closed = x.closed
          /\ conn'[c].eof = x.eof /\ conn'[c].rx = x.rx /\ conn'[c].co = "run"
          /\ conn'[c].phase = IF x.eof \/ conn'[c].recv # "paused" THEN "fail" ELSE "hs"
      BY <2>1, <2>5 DEF Put, Paused, ConnType
    <3>3. CASE x.co = "run_pause" /\ x.recv # "armed"
      <4>1. ASSUME NEW any \in BOOLEAN PROVE C(c, any)!PauseLoop
        BY <2>2, <3>1, <3>2, <3>3
           DEF Around, FrameOf, DrainNow, LiveIn, C!PauseLoop, C!PauseTail, C!NoCancel,
               C!loopVars, C!kVars
      <4> QED BY <1>5, <4>1, StepSeen DEF C!Next, C!Coroutine
    <3>4. CASE x.co = "run" /\ x.phase = "hs" /\ x.recv \in {"starved", "done"}
      <4>1. x.pausing = FALSE
        BY <2>1, <3>4 DEF PausingOk, ConnType
      <4>2. ASSUME NEW any \in BOOLEAN PROVE C(c, any)!Pause
        BY <2>2, <3>1, <3>2, <3>4, <4>1
           DEF Around, FrameOf, DrainNow, LiveIn, C!Pause, C!PauseTail, C!NoCancel,
               C!loopVars, C!kVars
      <4> QED BY <1>5, <4>2, StepSeen DEF C!Next, C!Coroutine
    <3> QED BY <2>5, <3>3, <3>4
  <2> QED BY <2>3, <2>4, <2>5 DEF Pause
<1> QED BY <1>4, <1>5

\* ... recv_resume,
LEMMA ResumeSeen ==
    ASSUME Inv, NEW c \in Conns, Resume(c), NEW d \in Conns
    PROVE  View(d)
<1> DEFINE x == conn[c]
           e == Sqe("recv", c)
<1>1. CoVars /\ sq \in Seq(SqeType) /\ x.co = "run" /\ x.phase = "hs" /\ x.recv = "paused"
  BY DEF Resume, CoVars, Inv, TypeOK
<1>2. PICK y : conn' = [conn EXCEPT ![c] = y]
  BY DEF Resume, Put
<1>3. e \in SqeType /\ (SqMine(e, d) <=> d = c) /\ e.op = "recv"
  BY DEF Sqe, SqeType, SqMine
<1>4. SqOf(d)' = SqOf(d) \/ d = c
  <2>1. CASE sq' = sq
    BY <2>1, OfIs, Zenon
  <2>2. CASE sq' = Append(sq, e)
    <3> HIDE DEF e
    <3> SUFFICES ASSUME d # c PROVE SqOf(d)' = SqOf(d)
      OBVIOUS
    <3> QED BY <1>1, <1>3, <2>2, OnSqAdd, OfIs, Zenon
  <2> QED BY <2>1, <2>2 DEF Resume
<1>5. ASSUME d # c PROVE View(d)
  BY <1>1, <1>2, <1>4, <1>5, CoOthers
<1>6. ASSUME d = c PROVE View(d)
  <2>1. x \in ConnType /\ conn \in [Conns -> ConnType]
    BY DEF Inv, TypeOK
  <2>2. Around(c)
    BY <1>1, CoAround
  <2>3. CASE /\ ~draining /\ Put(c, [Arm(x) EXCEPT !.phase = "serve"]) /\ sq' = Append(sq, e)
    <3>1. SqOf(c)' = Append(SqOf(c), "recv")
      <4> HIDE DEF e
      <4> QED BY <1>1, <1>3, <1>6, <2>3, OnSqAdd, OfIs, Zenon
    <3>2. /\ conn'[c].refs = x.refs /\ conn'[c].recv = "armed" /\ conn'[c].pausing = x.pausing
          /\ conn'[c].cancelling = FALSE /\ conn'[c].closed = x.closed /\ conn'[c].eof = x.eof
          /\ conn'[c].rx = x.rx /\ conn'[c].co = x.co /\ conn'[c].phase = "serve"
      BY <2>1, <2>3 DEF Put, Arm, ConnType
    <3>3. ASSUME NEW any \in BOOLEAN PROVE C(c, any)!Resume
      BY <1>1, <2>2, <2>3, <3>1, <3>2
         DEF Around, FrameOf, DrainNow, LiveIn, C!Resume, C!ArmRecv, C!loopVars, C!kVars
    <3> QED BY <1>6, <3>3, StepSeen DEF C!Next, C!Coroutine
  <2>4. CASE /\ draining /\ sq' = sq
             /\ Put(c, [Unref(x, 1) EXCEPT !.eof = TRUE, !.recv = "done", !.phase = "fail"])
    <3>1. SqOf(c)' = SqOf(c)
      BY <2>4, OfIs, Zenon
    <3>2. /\ conn'[c].refs = x.refs - 1 /\ conn'[c].recv = "done" /\ conn'[c].pausing = x.pausing
          /\ conn'[c].cancelling = x.cancelling /\ conn'[c].closed = x.closed /\ conn'[c].eof = TRUE
          /\ conn'[c].rx = x.rx /\ conn'[c].co = x.co /\ conn'[c].phase = "fail"
      BY <2>1, <2>4 DEF Put, Unref, ConnType
    <3>3. ASSUME NEW any \in BOOLEAN PROVE C(c, any)!Resume
      BY <1>1, <2>2, <2>4, <3>1, <3>2
         DEF Around, FrameOf, DrainNow, LiveIn, C!Resume, C!NoCancel, C!loopVars, C!kVars
    <3> QED BY <1>6, <3>3, StepSeen DEF C!Next, C!Coroutine
  <2> QED BY <2>3, <2>4 DEF Resume
<1> QED BY <1>5, <1>6

\* ... and the close.
LEMMA CloseSeen ==
    ASSUME Inv, NEW c \in Conns, Close(c), NEW d \in Conns
    PROVE  View(d)
<1> DEFINE x == conn[c]
           e == Sqe("close", c)
           q == sq \o CancelSqe(c, x)
           gone == [x EXCEPT !.closed = TRUE, !.co = "none", !.rx = <<>>, !.held = {}]
<1>1. CoVars /\ sq \in Seq(SqeType) /\ x.co = "run"
  BY DEF Close, CoVars, Inv, TypeOK
<1>2. PICK y : conn' = [conn EXCEPT ![c] = y]
  BY DEF Close, Put
<1>3. e \in SqeType /\ (SqMine(e, d) <=> d = c) /\ e.op = "close"
  BY DEF Sqe, SqeType, SqMine
<1>4. /\ q \in Seq(SqeType)
      /\ OnSq(q, d) = IF c = d /\ ~x.cancelling THEN Append(OnSq(sq, d), "cancel") ELSE OnSq(sq, d)
  BY <1>1, OnSqCancel, Zenon
<1>5. \A s \in Seq(SqeType) :
         OnSq(Append(s, e), d) = IF d = c THEN Append(OnSq(s, d), "close") ELSE OnSq(s, d)
  <2> HIDE DEF e
  <2> QED BY <1>3, OnSqAdd, Zenon
<1>6. sq' = Append(sq, e) \/ sq' = Append(q, e)
  <2>1. sq \o CancelSqe(c, x) \o <<e>> = Append(q, e)
    <3> HIDE DEF q, e
    <3>1. q \o <<e>> = Append(q, e)
      BY <1>3, <1>4, AppendIsConcat
    <3> QED BY <3>1, Zenon DEF q
  <2> QED BY <2>1 DEF Close
<1> HIDE DEF e
<1>7. SqOf(d)' = SqOf(d) \/ d = c
  <2> HIDE DEF q
  <2> SUFFICES ASSUME d # c PROVE SqOf(d)' = SqOf(d)
    OBVIOUS
  <2> QED BY <1>1, <1>4, <1>5, <1>6, OfIs, Zenon
<1>8. ASSUME d # c PROVE View(d)
  BY <1>1, <1>2, <1>7, <1>8, CoOthers
<1>9. ASSUME d = c PROVE View(d)
  <2>1. x \in ConnType /\ conn \in [Conns -> ConnType]
    BY DEF Inv, TypeOK
  <2>2. Around(c)
    BY <1>1, CoAround
  <2>3. CASE x.recv = "armed" /\ Put(c, Unref(Cancel(gone), 1)) /\ sq' = Append(q, e)
    <3>1. SqOf(c)' = IF x.cancelling THEN Append(SqOf(c), "close")
                     ELSE Append(Append(SqOf(c), "cancel"), "close")
      <4> HIDE DEF q
      <4> QED BY <1>4, <1>5, <1>9, <2>3, OfIs, Zenon
    <3>2. /\ conn'[c].refs = x.refs - 1 /\ conn'[c].recv = x.recv /\ conn'[c].pausing = x.pausing
          /\ conn'[c].cancelling = TRUE /\ conn'[c].closed = TRUE /\ conn'[c].eof = x.eof
          /\ Len(conn'[c].rx) = 0 /\ conn'[c].co = "none" /\ conn'[c].phase = x.phase
      BY <2>1, <2>3 DEF Put, Unref, Cancel, ConnType
    <3>3. ASSUME NEW any \in BOOLEAN PROVE C(c, any)!Close
      BY <1>1, <2>2, <2>3, <3>1, <3>2
         DEF Around, FrameOf, DrainNow, LiveIn, C!Close, C!CloseArmed, C!loopVars, C!kVars
    <3> QED BY <1>9, <3>3, StepSeen DEF C!Next, C!Coroutine
  <2>4. CASE /\ x.recv \in {"starved", "paused"} /\ sq' = Append(sq, e)
             /\ Put(c, Unref([gone EXCEPT !.recv = "done"], 2))
    <3>1. SqOf(c)' = Append(SqOf(c), "close")
      BY <1>1, <1>5, <1>9, <2>4, OfIs, Zenon
    <3>2. /\ conn'[c].refs = x.refs - 2 /\ conn'[c].recv = "done" /\ conn'[c].pausing = x.pausing
          /\ conn'[c].cancelling = x.cancelling /\ conn'[c].closed = TRUE /\ conn'[c].eof = x.eof
          /\ Len(conn'[c].rx) = 0 /\ conn'[c].co = "none" /\ conn'[c].phase = x.phase
      BY <2>1, <2>4 DEF Put, Unref, ConnType
    <3>3. ASSUME NEW any \in BOOLEAN PROVE C(c, any)!Close
      BY <1>1, <2>2, <2>4, <3>1, <3>2
         DEF Around, FrameOf, DrainNow, LiveIn, C!Close, C!loopVars, C!kVars
    <3> QED BY <1>9, <3>3, StepSeen DEF C!Next, C!Coroutine
  <2>5. CASE x.recv = "done" /\ Put(c, Unref(gone, 1)) /\ sq' = Append(sq, e)
    <3>1. SqOf(c)' = Append(SqOf(c), "close")
      BY <1>1, <1>5, <1>9, <2>5, OfIs, Zenon
    <3>2. /\ conn'[c].refs = x.refs - 1 /\ conn'[c].recv = x.recv /\ conn'[c].pausing = x.pausing
          /\ conn'[c].cancelling = x.cancelling /\ conn'[c].closed = TRUE /\ conn'[c].eof = x.eof
          /\ Len(conn'[c].rx) = 0 /\ conn'[c].co = "none" /\ conn'[c].phase = x.phase
      BY <2>1, <2>5 DEF Put, Unref, ConnType
    <3>3. ASSUME NEW any \in BOOLEAN PROVE C(c, any)!Close
      BY <1>1, <2>2, <2>5, <3>1, <3>2
         DEF Around, FrameOf, DrainNow, LiveIn, C!Close, C!loopVars, C!kVars
    <3> QED BY <1>9, <3>3, StepSeen DEF C!Next, C!Coroutine
  <2>6. x.recv = "armed" => sq' = sq \o CancelSqe(c, x) \o <<Sqe("close", c)>>
    BY DEF Close
  <2>7. sq \o CancelSqe(c, x) \o <<Sqe("close", c)>> = Append(q, e)
    <3> HIDE DEF q
    <3>1. q \o <<e>> = Append(q, e)
      BY <1>3, <1>4, AppendIsConcat
    <3> QED BY <3>1, Zenon DEF q, e
  <2> QED BY <2>3, <2>4, <2>5, <2>6, <2>7 DEF Close, e
<1> QED BY <1>8, <1>9

-----------------------------------------------------------------------------
(* Dispatch.                                                               *)

\* A CQE is taken: from where the loop is, and to whom it shows.
LEMMA TakingSeen ==
    ASSUME Inv, NEW t, NEW ks, Taking(t, ks), NEW d \in Conns
    PROVE  /\ Head(cq) \in CqeType /\ Head(cq).t = t /\ Head(cq).k \in ks
           /\ t \in {"recv", "op"} => Head(cq).c \in Conns
           /\ FrameOf(d) = "none" /\ DrainNow # "sweep"
           /\ conn[d].co \notin {"run", "run_recv", "run_pause"}
           /\ CqMine(Head(cq), d) =>
                /\ CqOf(d) # <<>> /\ Head(CqOf(d)).k = Head(cq).k
                /\ Head(CqOf(d)).more = Head(cq).more /\ CqOf(d)' = Tail(CqOf(d))
           /\ ~CqMine(Head(cq), d) => CqOf(d)' = CqOf(d)
<1>1. cq \in Seq(CqeType) /\ cq # <<>> /\ cq' = Tail(cq)
  <2>1. batch \in Nat /\ batch <= Len(cq) /\ batch > 0 /\ cq \in Seq(CqeType)
    BY DEF Inv, TypeOK, Taking
  <2>2. Len(cq) # 0
    BY <2>1
  <2> QED BY <2>1, <2>2 DEF Taking
<1>2. Head(cq) \in CqeType /\ Head(cq).t = t /\ Head(cq).k \in ks
  BY <1>1 DEF Taking
<1>3. t \in {"recv", "op"} => Head(cq).c \in Conns
  BY <1>2 DEF CqeType
<1>4. /\ FrameOf(d) = "none" /\ DrainNow # "sweep"
      /\ conn[d].co \notin {"run", "run_recv", "run_pause"}
  <2>1. pc = "batch" /\ flushing = FALSE /\ frame = NoFrame /\ ~Runs(d)
    BY DEF Taking, LoopAt
  <2> QED BY <2>1, NoneOut DEF FrameOf, DrainNow, Runs, NoFrame
<1>5. /\ CqMine(Head(cq), d) =>
           /\ OnCq(cq, d) # <<>> /\ Head(OnCq(cq, d)) = Entry(Head(cq))
           /\ Tail(OnCq(cq, d)) = OnCq(Tail(cq), d)
      /\ ~CqMine(Head(cq), d) => OnCq(Tail(cq), d) = OnCq(cq, d)
  BY <1>1, OnCqTail, Zenon
<1>6. CqOf(d) = OnCq(cq, d) /\ CqOf(d)' = OnCq(Tail(cq), d)
  BY <1>1, OfIs, Zenon
<1>7. Entry(Head(cq)).k = Head(cq).k /\ Entry(Head(cq)).more = Head(cq).more
  BY DEF Entry
<1>8. CqMine(Head(cq), d) =>
        /\ CqOf(d) # <<>> /\ Head(CqOf(d)).k = Head(cq).k
        /\ Head(CqOf(d)).more = Head(cq).more /\ CqOf(d)' = Tail(CqOf(d))
  BY <1>5, <1>6, <1>7, Zenon
<1>9. ~CqMine(Head(cq), d) => CqOf(d)' = CqOf(d)
  BY <1>5, <1>6, Zenon
<1> QED BY <1>2, <1>3, <1>4, <1>8, <1>9

\* on_recv of c: the others see nothing of it.
LEMMA RecvOthers ==
    ASSUME Inv, NEW ks, Taking("recv", ks), NEW c, c = Head(cq).c,
           NEW x, conn' = [conn EXCEPT ![c] = x], UNCHANGED <<loopVars, kVars>>,
           frame' = frame \/ \E k : frame' = [c |-> c, k |-> k],
           NEW d \in Conns, d # c, SqOf(d)' = SqOf(d)
    PROVE  View(d)
<1>1. c \in Conns /\ FrameOf(d) = "none" /\ CqOf(d)' = CqOf(d)
  <2>1. ~CqMine(Head(cq), d)
    BY DEF CqMine
  <2> QED BY <2>1, TakingSeen
<1>2. FrameOf(d)' = "none"
  BY <1>1 DEF FrameOf
<1>3. Around(d)
  BY <1>1, <1>2 DEF Around, DrainNow, LiveIn, loopVars, kVars
<1> QED BY <1>1, <1>3, PutOther, NotSeen

\* What Conn sees of it.
LEMMA TakeIs ==
    ASSUME Inv, NEW ks, Taking("recv", ks), NEW c, c = Head(cq).c,
           UNCHANGED <<loopVars, kVars>>
    PROVE  /\ c \in Conns /\ conn[c] \in ConnType /\ conn \in [Conns -> ConnType]
           /\ Head(CqOf(c)).k = Head(cq).k /\ Head(CqOf(c)).more = Head(cq).more
           /\ Head(cq).more \in BOOLEAN
           /\ FrameOf(c) = "none" /\ DrainNow' = DrainNow /\ canceleach' = canceleach
           /\ LiveIn(c)' = LiveIn(c) /\ CqOf(c)' = Tail(CqOf(c))
           /\ \A any \in BOOLEAN : C(c, any)!Take(ks)
<1>1. c \in Conns /\ CqMine(Head(cq), c) /\ Head(cq) \in CqeType
  BY TakingSeen DEF CqMine, CqeType, Taking, Inv, TypeOK
<1>2. /\ Head(cq).k \in ks /\ FrameOf(c) = "none" /\ DrainNow # "sweep"
      /\ conn[c].co \notin {"run", "run_recv", "run_pause"}
      /\ CqOf(c) # <<>> /\ Head(CqOf(c)).k = Head(cq).k
      /\ Head(CqOf(c)).more = Head(cq).more /\ CqOf(c)' = Tail(CqOf(c))
  BY <1>1, TakingSeen
<1>3. DrainNow' = DrainNow /\ LiveIn(c)' = LiveIn(c) /\ canceleach' = canceleach
  BY DEF DrainNow, LiveIn, loopVars, kVars
<1>4. ASSUME NEW any \in BOOLEAN PROVE C(c, any)!Take(ks)
  BY <1>2, <1>3 DEF C!Take, C!InLoop, C!Running, FrameOf, DrainNow, LiveIn
<1>5. conn[c] \in ConnType /\ conn \in [Conns -> ConnType] /\ Head(cq).more \in BOOLEAN
  BY <1>1 DEF Inv, TypeOK, CqeType
<1> QED BY <1>1, <1>2, <1>3, <1>4, <1>5

\* The coroutine that wake_reader leaves.
Woken(o) == CASE o = "recv" -> "run_recv" [] o = "pause" -> "run_pause" [] OTHER -> o

\* on_recv, -ENOBUFS.
LEMMA OnNobufsSeen ==
    ASSUME Inv, OnNobufs, NEW d \in Conns
    PROVE  View(d)
<1>0. PICK c : c = Head(cq).c
  OBVIOUS
<1>1. PICK y : conn' = [conn EXCEPT ![c] = y]
  BY <1>0 DEF OnNobufs, Put
<1>2. /\ Taking("recv", {"enobufs"}) /\ sq' = sq /\ UNCHANGED <<loopVars, kVars>>
      /\ frame' = frame \/ \E k : frame' = [c |-> c, k |-> k]
  BY <1>0 DEF OnNobufs, Suspend
<1>3. SqOf(d)' = SqOf(d)
  BY <1>2, OfIs, Zenon
<1>4. ASSUME d # c PROVE View(d)
  BY <1>0, <1>1, <1>2, <1>3, <1>4, RecvOthers
<1>5. ASSUME d = c PROVE View(d)
  <2> DEFINE x == conn[c]
             o == x.cancelling /\ Head(cq).more
  <2>1. /\ c \in Conns /\ x \in ConnType /\ conn \in [Conns -> ConnType]
        /\ Head(CqOf(c)).more = Head(cq).more /\ Head(cq).more \in BOOLEAN
        /\ FrameOf(c) = "none" /\ DrainNow' = DrainNow /\ canceleach' = canceleach
        /\ \A any \in BOOLEAN : C(c, any)!Take({"enobufs"})
    BY <1>0, <1>2, TakeIs
  <2>2. /\ conn'[c].refs = x.refs /\ conn'[c].closed = x.closed /\ conn'[c].eof = x.eof
        /\ conn'[c].rx = x.rx /\ conn'[c].phase = x.phase /\ conn'[c].cancelling = o
        /\ \/ /\ x.closed
              /\ conn'[c].recv = "done" /\ FrameOf(c)' = "unref"
              /\ conn'[c].pausing = x.pausing /\ conn'[c].co = x.co
           \/ /\ ~x.closed /\ x.pausing
              /\ conn'[c].pausing = FALSE /\ conn'[c].recv = "paused"
              /\ conn'[c].co = Woken(x.co) /\ FrameOf(c)' = FrameOf(c)
           \/ /\ ~x.closed /\ ~x.pausing /\ x.eof
              /\ conn'[c].recv = "done" /\ FrameOf(c)' = "unref"
              /\ conn'[c].co = Woken(x.co) /\ conn'[c].pausing = x.pausing
           \/ /\ ~x.closed /\ ~x.pausing /\ ~x.eof
              /\ conn'[c].recv = "starved"
              /\ conn'[c].pausing = x.pausing /\ conn'[c].co = x.co /\ FrameOf(c)' = FrameOf(c)
    <3>1. Seen = [x EXCEPT !.cancelling = o]
      BY <1>0, <2>1 DEF Seen, ConnType
    <3>2. CASE Seen.closed /\ Put(c, [Seen EXCEPT !.recv = "done"]) /\ frame' = [c |-> c, k |-> "unref"]
      BY <2>1, <3>1, <3>2 DEF Put, FrameOf, ConnType
    <3>3. CASE /\ ~Seen.closed /\ Seen.pausing /\ frame' = frame
               /\ Put(c, Wake([Seen EXCEPT !.pausing = FALSE, !.recv = "paused"]))
      BY <2>1, <3>1, <3>3 DEF Put, Wake, Woken, FrameOf, ConnType
    <3>4. CASE /\ ~Seen.closed /\ ~Seen.pausing /\ Seen.eof /\ frame' = [c |-> c, k |-> "unref"]
               /\ Put(c, Wake([Seen EXCEPT !.recv = "done"]))
      BY <2>1, <3>1, <3>4 DEF Put, Wake, Woken, FrameOf, ConnType
    <3>5. CASE /\ ~Seen.closed /\ ~Seen.pausing /\ ~Seen.eof /\ frame' = frame
               /\ Put(c, [Seen EXCEPT !.recv = "starved"])
      BY <2>1, <3>1, <3>5 DEF Put, FrameOf, ConnType
    <3> QED BY <1>0, <3>2, <3>3, <3>4, <3>5 DEF OnNobufs, Suspend
  <2>3. ASSUME NEW any \in BOOLEAN PROVE C(c, any)!OnNobufs
    BY <1>3, <1>5, <2>1, <2>2
       DEF C!OnNobufs, C!Still, C!WakeReader, Woken, FrameOf, DrainNow
  <2> QED BY <1>5, <2>3, StepSeen DEF C!Next, C!Dispatch
<1> QED BY <1>4, <1>5

\* on_recv, the end.
LEMMA OnEndSeen ==
    ASSUME Inv, OnEnd, NEW d \in Conns
    PROVE  View(d)
<1>0. PICK c : c = Head(cq).c
  OBVIOUS
<1>1. PICK y : conn' = [conn EXCEPT ![c] = y]
  BY <1>0 DEF OnEnd, Put
<1>2. /\ Taking("recv", {"fin", "cancelled"}) /\ sq' = sq /\ UNCHANGED <<loopVars, kVars>>
      /\ frame' = frame \/ \E k : frame' = [c |-> c, k |-> k]
  BY <1>0 DEF OnEnd, Suspend
<1>3. SqOf(d)' = SqOf(d)
  BY <1>2, OfIs, Zenon
<1>4. ASSUME d # c PROVE View(d)
  BY <1>0, <1>1, <1>2, <1>3, <1>4, RecvOthers
<1>5. ASSUME d = c PROVE View(d)
  <2> DEFINE x == conn[c]
             o == x.cancelling /\ Head(cq).more
             p == x.pausing /\ ~x.closed /\ Head(cq).k = "cancelled"
  <2>1. /\ c \in Conns /\ x \in ConnType /\ conn \in [Conns -> ConnType]
        /\ Head(CqOf(c)).k = Head(cq).k
        /\ Head(CqOf(c)).more = Head(cq).more /\ Head(cq).more \in BOOLEAN
        /\ FrameOf(c) = "none" /\ DrainNow' = DrainNow /\ canceleach' = canceleach
        /\ \A any \in BOOLEAN : C(c, any)!Take({"fin", "cancelled"})
    BY <1>0, <1>2, TakeIs
  <2>2. /\ conn'[c].refs = x.refs /\ conn'[c].closed = x.closed
        /\ conn'[c].rx = x.rx /\ conn'[c].phase = x.phase /\ conn'[c].cancelling = o
        /\ conn'[c].co = Woken(x.co)
        /\ \/ /\ p /\ conn'[c].pausing = FALSE /\ conn'[c].recv = "paused"
              /\ conn'[c].eof = x.eof /\ FrameOf(c)' = FrameOf(c)
           \/ /\ ~p /\ conn'[c].eof = TRUE /\ conn'[c].recv = "done" /\ FrameOf(c)' = "unref"
              /\ conn'[c].pausing = x.pausing
    <3>1. Seen = [x EXCEPT !.cancelling = o]
      BY <1>0, <2>1 DEF Seen, ConnType
    <3>2. p <=> Seen.pausing /\ ~Seen.closed /\ Head(cq).k = "cancelled"
      BY <2>1, <3>1 DEF ConnType
    <3>3. CASE /\ p /\ frame' = frame
               /\ Put(c, Wake([Seen EXCEPT !.pausing = FALSE, !.recv = "paused"]))
      BY <2>1, <3>1, <3>3 DEF Put, Wake, Woken, FrameOf, ConnType
    <3>4. CASE /\ ~p /\ frame' = [c |-> c, k |-> "unref"]
               /\ Put(c, Wake([Seen EXCEPT !.eof = TRUE, !.recv = "done"]))
      BY <2>1, <3>1, <3>4 DEF Put, Wake, Woken, FrameOf, ConnType
    <3> QED BY <1>0, <3>2, <3>3, <3>4 DEF OnEnd, Suspend
  <2>3. ASSUME NEW any \in BOOLEAN PROVE C(c, any)!OnEnd
    BY <1>3, <1>5, <2>1, <2>2
       DEF C!OnEnd, C!Still, C!WakeReader, Woken, FrameOf, DrainNow
  <2> QED BY <1>5, <2>3, StepSeen DEF C!Next, C!Dispatch
<1> QED BY <1>4, <1>5

\* on_recv, bytes.
LEMMA OnDataSeen ==
    ASSUME Inv, OnData, NEW d \in Conns
    PROVE  View(d)
<1>0. PICK c : c = Head(cq).c
  OBVIOUS
<1> DEFINE x == conn[c]
           more == Head(cq).more
           o == x.cancelling /\ more
<1>1. PICK y : conn' = [conn EXCEPT ![c] = y]
  BY <1>0 DEF OnData, Put
<1>2. /\ Taking("recv", {"data"}) /\ UNCHANGED <<loopVars, kVars>>
      /\ frame' = [c |-> c, k |-> IF more THEN "more" ELSE "last"]
  BY <1>0 DEF OnData, Suspend
<1>3. /\ c \in Conns /\ x \in ConnType /\ conn \in [Conns -> ConnType] /\ sq \in Seq(SqeType)
      /\ Head(CqOf(c)).k = Head(cq).k
      /\ Head(CqOf(c)).more = more /\ more \in BOOLEAN /\ Head(cq).k = "data"
      /\ FrameOf(c) = "none" /\ DrainNow' = DrainNow /\ canceleach' = canceleach
      /\ \A any \in BOOLEAN : C(c, any)!Take({"data"})
  <2>1. sq \in Seq(SqeType)
    BY DEF Inv, TypeOK
  <2>2. Head(cq).k = "data"
    BY <1>2 DEF Taking
  <2> QED BY <1>0, <1>2, <2>1, <2>2, TakeIs
<1>4. sq' = sq \/ sq' = sq \o CancelSqe(c, Seen)
  BY <1>0 DEF OnData
<1>5. /\ OnSq(sq \o CancelSqe(c, Seen), d) =
           IF c = d /\ ~Seen.cancelling THEN Append(OnSq(sq, d), "cancel") ELSE OnSq(sq, d)
      /\ Seen.cancelling = o
  <2>1. Seen.cancelling = o
    BY <1>0, <1>3 DEF Seen, ConnType
  <2> QED BY <1>3, <2>1, OnSqCancel, Zenon
<1>6. ASSUME d # c PROVE View(d)
  <2>1. SqOf(d)' = SqOf(d)
    BY <1>4, <1>5, <1>6, OfIs, Zenon
  <2>2. frame' = frame \/ \E k : frame' = [c |-> c, k |-> k]
    BY <1>2
  <2> QED BY <1>0, <1>1, <1>2, <1>6, <2>1, <2>2, RecvOthers
<1>7. ASSUME d = c PROVE View(d)
  <2>1. FrameOf(c)' = IF more THEN "more" ELSE "last"
    BY <1>2 DEF FrameOf
  <2>2. /\ conn'[c].refs = x.refs /\ conn'[c].closed = x.closed /\ conn'[c].recv = x.recv
        /\ conn'[c].pausing = x.pausing /\ conn'[c].phase = x.phase
        /\ \/ /\ x.closed /\ conn'[c].cancelling = o
              /\ conn'[c].eof = x.eof /\ conn'[c].rx = x.rx /\ conn'[c].co = x.co
              /\ sq' = sq
           \/ /\ ~x.closed /\ Len(x.rx) = RxQueue
              /\ conn'[c].eof = TRUE /\ conn'[c].rx = x.rx /\ conn'[c].co = Woken(x.co)
              /\ conn'[c].cancelling = more
              /\ sq' = IF more THEN sq \o CancelSqe(c, Seen) ELSE sq
           \/ /\ ~x.closed /\ Len(x.rx) < RxQueue
              /\ conn'[c].cancelling = o /\ conn'[c].eof = x.eof
              /\ Len(conn'[c].rx) = Len(x.rx) + 1 /\ conn'[c].co = Woken(x.co)
              /\ sq' = sq
    <3>1. x.rx \in Seq(Buffers) /\ Head(cq).b \in Buffers
      <4>1. Head(cq) \in CqeType /\ Head(cq).k = "data"
        BY <1>2, <1>3, TakingSeen
      <4> QED BY <1>3, <4>1 DEF ConnType, CqeType
    <3>2. Len(Append(x.rx, Head(cq).b)) = Len(x.rx) + 1
      BY <3>1
    <3>3. Seen = [x EXCEPT !.cancelling = o]
      BY <1>0, <1>3 DEF Seen, ConnType
    <3>4. CASE Seen.closed /\ Put(c, Seen) /\ sq' = sq
      BY <1>3, <3>3, <3>4 DEF Put, ConnType
    <3>5. CASE /\ ~Seen.closed /\ Len(Seen.rx) = RxQueue
               /\ Put(c, Wake([IF more THEN Cancel(Seen) ELSE Seen EXCEPT !.eof = TRUE]))
               /\ sq' = IF more THEN sq \o CancelSqe(c, Seen) ELSE sq
      BY <1>3, <3>3, <3>5 DEF Put, Wake, Woken, Cancel, ConnType
    <3>6. CASE /\ ~Seen.closed /\ Len(Seen.rx) < RxQueue
               /\ Put(c, Wake([Seen EXCEPT !.rx = Append(@, Head(cq).b)])) /\ sq' = sq
      BY <1>3, <3>2, <3>3, <3>6 DEF Put, Wake, Woken, ConnType
    <3> QED BY <1>0, <3>4, <3>5, <3>6 DEF OnData
  <2>3. sq' = sq => SqOf(c)' = SqOf(c)
    BY OfIs, Zenon
  <2>4. sq' = sq \o CancelSqe(c, Seen) =>
          SqOf(c)' = IF o THEN SqOf(c) ELSE Append(SqOf(c), "cancel")
    BY <1>5, <1>7, OfIs, Zenon
  <2>5. \A any \in BOOLEAN : C(c, any)!Take({"data", "nobuf"})
    BY <1>3 DEF C!Take
  <2>6. ASSUME NEW any \in BOOLEAN PROVE C(c, any)!OnData
    <3>1. RxQueue \in Nat
      BY WorkerAssumption
    <3>2. CASE x.closed /\ conn'[c].cancelling = o
               /\ conn'[c].eof = x.eof /\ conn'[c].rx = x.rx /\ conn'[c].co = x.co /\ sq' = sq
      BY <1>3, <2>1, <2>2, <2>3, <2>5, <3>2 DEF C!OnData, C!Still, FrameOf, DrainNow
    <3>3. CASE /\ ~x.closed /\ Len(x.rx) = RxQueue
               /\ conn'[c].eof = TRUE /\ conn'[c].rx = x.rx /\ conn'[c].co = Woken(x.co)
               /\ conn'[c].cancelling = more
               /\ sq' = IF more THEN sq \o CancelSqe(c, Seen) ELSE sq
      <4>1. SqOf(c)' = IF more /\ ~x.cancelling THEN Append(SqOf(c), "cancel") ELSE SqOf(c)
        <5>1. CASE more
          BY <2>4, <3>3, <5>1, Zenon
        <5>2. CASE ~more
          BY <2>3, <3>3, <5>2, Zenon
        <5> QED BY <5>1, <5>2
      <4>2. C(c, any)!RxFull
        BY <3>3 DEF C!RxFull
      <4>3. C(c, any)!Overflow
        BY <1>3, <3>3, <4>1 DEF C!Overflow, C!CancelRecv, C!WakeReader, Woken
      <4> QED BY <1>3, <2>1, <2>2, <2>5, <3>3, <4>2, <4>3 DEF C!OnData, FrameOf, DrainNow
    <3>4. CASE /\ ~x.closed /\ Len(x.rx) < RxQueue
               /\ conn'[c].cancelling = o /\ conn'[c].eof = x.eof
               /\ Len(conn'[c].rx) = Len(x.rx) + 1 /\ conn'[c].co = Woken(x.co)
               /\ sq' = sq
      <4>1. ~C(c, any)!RxFull
        BY <3>1, <3>4 DEF C!RxFull
      <4>2. C(c, any)!WakeReader
        BY <3>4 DEF C!WakeReader, Woken
      <4> QED BY <1>3, <2>1, <2>2, <2>3, <2>5, <3>4, <4>1, <4>2
                DEF C!OnData, C!Still, FrameOf, DrainNow
    <3> QED BY <2>2, <3>2, <3>3, <3>4
  <2> QED BY <1>7, <2>6, StepSeen DEF C!Next, C!Dispatch
<1> QED BY <1>6, <1>7

-----------------------------------------------------------------------------
(* The rest of on_recv.                                                    *)

\* Back from the coroutine: what c sees, and what the others do not.
LEMMA TailSeen ==
    ASSUME Inv, NEW k \in {"more", "last", "unref"}, Tailing(k), NEW c, c = frame.c,
           NEW d \in Conns
    PROVE  /\ c \in Conns /\ conn[c] \in ConnType /\ conn \in [Conns -> ConnType]
           /\ sq \in Seq(SqeType)
           /\ FrameOf(c) = k /\ conn[c].co \notin {"run", "run_recv", "run_pause"}
           /\ d # c => FrameOf(d) = "none"
           /\ FrameOf(d)' = "none" /\ FrameOf(c)' = "none"
           /\ DrainNow' = DrainNow /\ canceleach' = canceleach /\ LiveIn(d)' = LiveIn(d)
           /\ CqOf(d)' = CqOf(d)
<1>1. /\ c \in Conns /\ frame.k = k /\ frame' = NoFrame /\ conn[c] \in ConnType
      /\ UNCHANGED <<cq, krecv, draining>>
  BY TailHead
<1>2. conn \in [Conns -> ConnType] /\ sq \in Seq(SqeType) /\ frame \in FrameType
  BY DEF Inv, TypeOK
<1>3. ~flushing /\ ~Runs(c) /\ pc' = pc /\ canceleach' = canceleach
  BY <1>1 DEF Tailing, loopVars
<1>4. CqOf(d)' = CqOf(d)
  BY <1>1, OfIs, Zenon
<1>5. FrameOf(c) = k /\ FrameOf(c)' = "none" /\ FrameOf(d)' = "none" /\ (d # c => FrameOf(d) = "none")
  BY <1>1, NoneOut DEF FrameOf, NoFrame
<1> QED BY <1>1, <1>2, <1>3, <1>4, <1>5 DEF DrainNow, LiveIn, Runs

\* The other connections.
LEMMA TailOthers ==
    ASSUME Inv, NEW k \in {"more", "last", "unref"}, Tailing(k), NEW c, c = frame.c,
           NEW x, conn' = [conn EXCEPT ![c] = x], NEW d \in Conns, d # c, SqOf(d)' = SqOf(d)
    PROVE  View(d)
<1>1. c \in Conns /\ Around(d)
  BY TailSeen DEF Around
<1> QED BY <1>1, PutOther, NotSeen

\* The reference is dropped.
LEMMA TailUnrefSeen ==
    ASSUME Inv, TailUnref, NEW d \in Conns
    PROVE  View(d)
<1>0. PICK c : c = frame.c
  OBVIOUS
<1> DEFINE x == conn[c]
           y == Unref(x, 1)
<1>1. Tailing("unref") /\ conn' = [conn EXCEPT ![c] = y] /\ sq' = sq
  BY <1>0 DEF TailUnref, Put
<1>2. SqOf(d)' = SqOf(d)
  BY <1>1, OfIs, Zenon
<1>3. ASSUME d # c PROVE View(d)
  <2> HIDE DEF y
  <2> QED BY <1>0, <1>1, <1>2, <1>3, TailOthers
<1>4. ASSUME d = c PROVE View(d)
  <2>1. /\ c \in Conns /\ x \in ConnType /\ conn \in [Conns -> ConnType]
        /\ FrameOf(c) = "unref" /\ x.co \notin {"run", "run_recv", "run_pause"}
        /\ FrameOf(c)' = "none"
        /\ DrainNow' = DrainNow /\ canceleach' = canceleach /\ LiveIn(c)' = LiveIn(c)
        /\ CqOf(c)' = CqOf(c)
    BY <1>0, <1>1, <1>4, TailSeen
  <2>2. /\ conn'[c].refs = x.refs - 1 /\ conn'[c].recv = x.recv /\ conn'[c].pausing = x.pausing
        /\ conn'[c].cancelling = x.cancelling /\ conn'[c].closed = x.closed
        /\ conn'[c].eof = x.eof /\ conn'[c].rx = x.rx /\ conn'[c].co = x.co
        /\ conn'[c].phase = x.phase
    BY <1>1, <2>1 DEF Unref, ConnType
  <2>3. ASSUME NEW any \in BOOLEAN PROVE C(c, any)!TailUnref
    BY <1>2, <1>4, <2>1, <2>2
       DEF C!TailUnref, C!Running, C!coVars, C!kVars, FrameOf, DrainNow, LiveIn
  <2> QED BY <1>4, <2>3, StepSeen DEF C!Next, C!Tails
<1> QED BY <1>3, <1>4

\* The recv goes on.
LEMMA TailMoreSeen ==
    ASSUME Inv, TailMore, NEW d \in Conns
    PROVE  View(d)
<1>0. PICK c : c = frame.c
  OBVIOUS
<1> DEFINE x == conn[c]
           p == canceleach /\ ~x.closed
<1>1. Tailing("more")
  BY DEF TailMore
<1>2. /\ c \in Conns /\ x \in ConnType /\ conn \in [Conns -> ConnType] /\ sq \in Seq(SqeType)
      /\ FrameOf(c) = "more" /\ x.co \notin {"run", "run_recv", "run_pause"}
      /\ FrameOf(c)' = "none"
      /\ DrainNow' = DrainNow /\ canceleach' = canceleach
  BY <1>0, <1>1, TailSeen
<1>3. \/ p /\ conn' = [conn EXCEPT ![c] = Cancel(x)] /\ sq' = sq \o CancelSqe(c, x)
      \/ ~p /\ conn' = [conn EXCEPT ![c] = x] /\ sq' = sq
  BY <1>0, <1>2 DEF TailMore, Put
<1>4. OnSq(sq \o CancelSqe(c, x), d) =
        IF c = d /\ ~x.cancelling THEN Append(OnSq(sq, d), "cancel") ELSE OnSq(sq, d)
  BY <1>2, OnSqCancel, Zenon
<1>5. ASSUME d # c PROVE View(d)
  <2>1. SqOf(d)' = SqOf(d)
    BY <1>3, <1>4, <1>5, OfIs, Zenon
  <2>2. PICK y : conn' = [conn EXCEPT ![c] = y]
    BY <1>3
  <2> QED BY <1>0, <1>1, <1>5, <2>1, <2>2, TailOthers
<1>6. ASSUME d = c PROVE View(d)
  <2>1. LiveIn(c)' = LiveIn(c) /\ CqOf(c)' = CqOf(c)
    BY <1>0, <1>1, <1>6, TailSeen
  <2>2. SqOf(c)' = IF p /\ ~x.cancelling THEN Append(SqOf(c), "cancel") ELSE SqOf(c)
    <3>1. CASE p
      BY <1>3, <1>4, <1>6, <3>1, OfIs, Zenon
    <3>2. CASE ~p
      BY <1>3, <3>2, OfIs, Zenon
    <3> QED BY <3>1, <3>2
  <2>3. /\ conn'[c].refs = x.refs /\ conn'[c].recv = x.recv /\ conn'[c].pausing = x.pausing
        /\ conn'[c].cancelling = (p \/ x.cancelling) /\ conn'[c].closed = x.closed
        /\ conn'[c].eof = x.eof /\ conn'[c].rx = x.rx /\ conn'[c].co = x.co
        /\ conn'[c].phase = x.phase
    <3>1. CASE p /\ conn' = [conn EXCEPT ![c] = Cancel(x)]
      BY <1>2, <3>1 DEF Cancel, ConnType
    <3>2. CASE ~p /\ conn' = [conn EXCEPT ![c] = x]
      BY <1>2, <3>2 DEF ConnType
    <3> QED BY <1>3, <3>1, <3>2
  <2>4. x.cancelling \in BOOLEAN
    BY <1>2 DEF ConnType
  <2>5. ASSUME NEW any \in BOOLEAN PROVE C(c, any)!TailMore
    BY <1>2, <1>6, <2>1, <2>2, <2>3, <2>4
       DEF C!TailMore, C!CancelRecv, C!NoCancel, C!Running, C!coVars, C!kVars, FrameOf, DrainNow, LiveIn
  <2> QED BY <1>6, <2>5, StepSeen DEF C!Next, C!Tails
<1> QED BY <1>5, <1>6

\* The recv ended with the bytes.
LEMMA TailLastSeen ==
    ASSUME Inv, TailLast, NEW d \in Conns
    PROVE  View(d)
<1>0. PICK c : c = frame.c
  OBVIOUS
<1> DEFINE x == conn[c]
           e == Sqe("recv", c)
<1>1. Tailing("last")
  BY DEF TailLast
<1>2. /\ c \in Conns /\ x \in ConnType /\ conn \in [Conns -> ConnType] /\ sq \in Seq(SqeType)
      /\ FrameOf(c) = "last" /\ x.co \notin {"run", "run_recv", "run_pause"}
      /\ FrameOf(c)' = "none"
      /\ DrainNow' = DrainNow /\ canceleach' = canceleach
  BY <1>0, <1>1, TailSeen
<1>3. e \in SqeType /\ (SqMine(e, d) <=> d = c) /\ e.op = "recv"
  BY <1>2 DEF Sqe, SqeType, SqMine
<1>4. \/ /\ x.pausing /\ ~x.closed /\ sq' = sq
         /\ conn' = [conn EXCEPT ![c] = Wake([x EXCEPT !.pausing = FALSE, !.recv = "paused"])]
      \/ /\ ~x.pausing /\ ~x.closed /\ ~x.eof /\ sq' = Append(sq, e)
         /\ conn' = [conn EXCEPT ![c] = Arm(x)]
      \/ /\ x.closed \/ (~x.pausing /\ x.eof)
         /\ sq' = sq
         /\ conn' = [conn EXCEPT ![c] = Unref([x EXCEPT !.recv = "done"], 1)]
  BY <1>0 DEF TailLast, Put
<1>5. OnSq(Append(sq, e), d) = IF d = c THEN Append(OnSq(sq, d), "recv") ELSE OnSq(sq, d)
  <2> HIDE DEF e
  <2> QED BY <1>2, <1>3, OnSqAdd, Zenon
<1> HIDE DEF e
<1>6. ASSUME d # c PROVE View(d)
  <2>1. SqOf(d)' = SqOf(d)
    BY <1>4, <1>5, <1>6, OfIs, Zenon
  <2>2. PICK y : conn' = [conn EXCEPT ![c] = y]
    BY <1>4
  <2> QED BY <1>0, <1>1, <1>6, <2>1, <2>2, TailOthers
<1>7. ASSUME d = c PROVE View(d)
  <2>1. LiveIn(c)' = LiveIn(c) /\ CqOf(c)' = CqOf(c)
    BY <1>0, <1>1, <1>7, TailSeen
  <2>2. /\ sq' = sq => SqOf(c)' = SqOf(c)
        /\ sq' = Append(sq, e) => SqOf(c)' = Append(SqOf(c), "recv")
    BY <1>5, <1>7, OfIs, Zenon
  <2>3. CASE /\ x.pausing /\ ~x.closed /\ sq' = sq
             /\ conn' = [conn EXCEPT ![c] = Wake([x EXCEPT !.pausing = FALSE, !.recv = "paused"])]
    <3>1. /\ conn'[c].refs = x.refs /\ conn'[c].recv = "paused" /\ conn'[c].pausing = FALSE
          /\ conn'[c].cancelling = x.cancelling /\ conn'[c].closed = x.closed
          /\ conn'[c].eof = x.eof /\ conn'[c].rx = x.rx /\ conn'[c].co = Woken(x.co)
          /\ conn'[c].phase = x.phase
      BY <1>2, <2>3 DEF Wake, Woken, ConnType
    <3>2. ASSUME NEW any \in BOOLEAN PROVE C(c, any)!TailLast
      BY <1>2, <2>1, <2>2, <2>3, <3>1
         DEF C!TailLast, C!NoCancel, C!WakeReader, C!Running, C!kVars, Woken, FrameOf, DrainNow, LiveIn
    <3> QED BY <1>7, <3>2, StepSeen DEF C!Next, C!Tails
  <2>4. CASE /\ ~x.pausing /\ ~x.closed /\ ~x.eof /\ sq' = Append(sq, e)
             /\ conn' = [conn EXCEPT ![c] = Arm(x)]
    <3>1. /\ conn'[c].refs = x.refs /\ conn'[c].recv = "armed" /\ conn'[c].pausing = x.pausing
          /\ conn'[c].cancelling = FALSE /\ conn'[c].closed = x.closed
          /\ conn'[c].eof = x.eof /\ conn'[c].rx = x.rx /\ conn'[c].co = x.co
          /\ conn'[c].phase = x.phase
      BY <1>2, <2>4 DEF Arm, ConnType
    <3>2. ASSUME NEW any \in BOOLEAN PROVE C(c, any)!TailLast
      BY <1>2, <2>1, <2>2, <2>4, <3>1
         DEF C!TailLast, C!ArmRecv, C!Running, C!kVars, FrameOf, DrainNow, LiveIn
    <3> QED BY <1>7, <3>2, StepSeen DEF C!Next, C!Tails
  <2>5. CASE /\ x.closed \/ (~x.pausing /\ x.eof)
             /\ sq' = sq
             /\ conn' = [conn EXCEPT ![c] = Unref([x EXCEPT !.recv = "done"], 1)]
    <3>1. /\ conn'[c].refs = x.refs - 1 /\ conn'[c].recv = "done" /\ conn'[c].pausing = x.pausing
          /\ conn'[c].cancelling = x.cancelling /\ conn'[c].closed = x.closed
          /\ conn'[c].eof = x.eof /\ conn'[c].rx = x.rx /\ conn'[c].co = x.co
          /\ conn'[c].phase = x.phase
      BY <1>2, <2>5 DEF Unref, ConnType
    <3>2. ASSUME NEW any \in BOOLEAN PROVE C(c, any)!TailLast
      BY <1>2, <2>1, <2>2, <2>5, <3>1
         DEF C!TailLast, C!NoCancel, C!Running, C!kVars, FrameOf, DrainNow, LiveIn
    <3> QED BY <1>7, <3>2, StepSeen DEF C!Next, C!Tails
  <2> QED BY <1>4, <2>3, <2>4, <2>5
<1> QED BY <1>6, <1>7

-----------------------------------------------------------------------------
(* The other completions.                                                  *)

\* The blanket cancel is one SQE of the shutdown, then one CQE; a kernel that knows it
\* does not refuse it; and begin_drain is part of the shutdown.
Blankets == {Sqe("blanket", None)}
Drains   == {e \in CqeType : e.t = "drain"}
Refusals == {e \in CqeType : e.t = "drain" /\ e.k = "refused"}
DrainOk  == /\ Count(sq, Blankets) + Count(cq, Drains) <= One(draining)
            /\ cfg.any => Count(cq, Refusals) = 0
            /\ pc = "sweep" => draining
            /\ canceleach \in BOOLEAN

\* The loop is outside on_recv.
LEMMA LoopSeen ==
    ASSUME NEW p, LoopAt(p), NEW d \in Conns
    PROVE  /\ FrameOf(d) = "none" /\ conn[d].co \notin {"run", "run_recv", "run_pause"}
           /\ p # "sweep" => DrainNow # "sweep"
<1>1. pc = p /\ flushing = FALSE /\ frame = NoFrame /\ ~Runs(d)
  BY DEF LoopAt
<1> QED BY <1>1, NoneOut DEF FrameOf, DrainNow, Runs, NoFrame

\* A CQE that is not of a recv.
LEMMA OtherSeen ==
    ASSUME Inv, NEW t, NEW ks, Taking(t, ks), t # "recv", UNCHANGED <<frame, loopVars, kVars>>,
           NEW d \in Conns
    PROVE  Around(d)
<1>1. CqOf(d)' = CqOf(d)
  <2>1. ~CqMine(Head(cq), d)
    BY DEF CqMine, Taking
  <2> QED BY <2>1, TakingSeen
<1> QED BY <1>1 DEF Around, FrameOf, DrainNow, LiveIn, loopVars, kVars

\* The op of a coroutine.
LEMMA OnOpSeen ==
    ASSUME Inv, OnOp, NEW d \in Conns
    PROVE  View(d)
<1>0. PICK c : c = Head(cq).c
  OBVIOUS
<1> DEFINE x == conn[c]
           y == [x EXCEPT !.co = "run"]
<1>1. /\ Taking("op", {"done"}) /\ conn' = [conn EXCEPT ![c] = y] /\ sq' = sq
      /\ UNCHANGED <<frame, loopVars, kVars>>
  BY <1>0 DEF OnOp, Put
<1>2. SqOf(d)' = SqOf(d)
  BY <1>1, OfIs, Zenon
<1>3. Around(d)
  BY <1>1, OtherSeen
<1>4. c \in Conns /\ Head(cq) \in CqeType /\ Head(cq).t = "op"
  BY <1>0, <1>1, TakingSeen
<1>5. ASSUME d # c PROVE View(d)
  <2> HIDE DEF y
  <2> QED BY <1>1, <1>2, <1>3, <1>4, <1>5, PutOther, NotSeen
<1>6. ASSUME d = c PROVE View(d)
  <2>1. x \in ConnType /\ conn \in [Conns -> ConnType] /\ ConnOk(c)
    BY <1>4 DEF Inv, TypeOK
  <2>2. x.co = "parked"
    <3>1. LoopAt("batch") /\ batch > 0 /\ cq' = Tail(cq) /\ batch' = batch - 1
      BY <1>1 DEF Taking
    <3>2. DonesInCq(c) = One(Head(cq) \in OpDones(c)) + DonesInCq(c)' /\ DonesInCq(c)' \in Nat
      BY <1>4, <3>1, TakenHead
    <3>3. Head(cq) \in OpDones(c)
      BY <1>0, <1>4, CqeCounted
    <3>4. DonesInCq(c) # 0
      BY <3>2, <3>3 DEF One
    <3> QED BY <2>1, <3>4 DEF ConnOk, OpOk
  <2>3. /\ conn'[c].refs = x.refs /\ conn'[c].recv = x.recv /\ conn'[c].pausing = x.pausing
        /\ conn'[c].cancelling = x.cancelling /\ conn'[c].closed = x.closed
        /\ conn'[c].eof = x.eof /\ conn'[c].rx = x.rx /\ conn'[c].co = "run"
        /\ conn'[c].phase = x.phase /\ x.phase # "nodelay"
    BY <1>1, <1>4, <2>1 DEF ConnType
  <2>4. FrameOf(c) = "none"
    BY <1>1, <1>4, LoopSeen DEF Taking
  <2>5. ASSUME NEW any \in BOOLEAN PROVE C(c, any)!Resumed
    BY <1>2, <1>3, <1>6, <2>2, <2>3, <2>4
       DEF Around, C!Resumed, C!Running, C!connVars, C!loopVars, C!kVars, FrameOf, DrainNow, LiveIn
  <2> QED BY <1>6, <2>5, StepSeen DEF C!Next, C!Loop
<1> QED BY <1>5, <1>6

\* The answer to the blanket cancel: each connection may see it refused.
LEMMA OnDrainSeen ==
    ASSUME Inv, DrainOk, OnDrain, NEW d \in Conns
    PROVE  View(d)
<1>1. /\ Taking("drain", {"known", "refused"}) /\ canceleach' = (canceleach \/ Head(cq).k = "refused")
      /\ UNCHANGED <<conn, frame, pc, draining, sq, krecv>>
  BY DEF OnDrain, kVars
<1>2. SqOf(d)' = SqOf(d)
  BY <1>1, OfIs, Zenon
<1>3. /\ CqOf(d)' = CqOf(d) /\ Head(cq) \in CqeType /\ Head(cq).t = "drain"
      /\ FrameOf(d) = "none" /\ DrainNow # "sweep"
      /\ conn[d].co \notin {"run", "run_recv", "run_pause"}
  <2>1. ~CqMine(Head(cq), d)
    BY <1>1 DEF CqMine, Taking
  <2> QED BY <1>1, <2>1, TakingSeen
<1>4. FrameOf(d)' = FrameOf(d) /\ DrainNow' = DrainNow /\ LiveIn(d)' = LiveIn(d) /\ conn' = conn
  BY <1>1 DEF FrameOf, DrainNow, LiveIn
<1>5. CASE canceleach' = canceleach
  BY <1>2, <1>3, <1>4, <1>5, NotSeen DEF Around, SameConn
<1>6. CASE canceleach' # canceleach
  <2>1. Head(cq).k = "refused" /\ ~canceleach /\ canceleach' = TRUE
    BY <1>1, <1>6 DEF DrainOk
  <2>2. /\ cq \in Seq(CqeType) /\ cq # <<>> /\ sq \in Seq(SqeType)
        /\ \A S : Count(cq, S) = One(Head(cq) \in S) + Count(Tail(cq), S) /\ Count(Tail(cq), S) \in Nat
        /\ \A S : Count(sq, S) \in Nat
    <3>1. cq \in Seq(CqeType) /\ sq \in Seq(SqeType) /\ batch \in Nat /\ batch <= Len(cq) /\ batch > 0
      BY <1>1 DEF Inv, TypeOK, Taking
    <3>2. cq # <<>>
      BY <3>1
    <3>3. \A S : Tail(cq) \in Seq(CqeType) /\ Count(cq, S) = One(Head(cq) \in S) + Count(Tail(cq), S)
      BY <3>1, <3>2, CountTail
    <3>4. \A S : Count(Tail(cq), S) \in Nat /\ Count(sq, S) \in Nat
      BY <3>1, <3>3, CountNat
    <3> QED BY <3>1, <3>2, <3>3, <3>4
  <2>3. Count(cq, Drains) >= 1 /\ Count(cq, Drains) \in Nat /\ Count(cq, Refusals) # 0
    <3>1. Head(cq) \in Drains /\ Head(cq) \in Refusals
      BY <1>3, <2>1 DEF Drains, Refusals
    <3> QED BY <2>2, <3>1 DEF One
  <2>4. draining /\ Count(sq, Blankets) = 0 /\ ~cfg.any
    BY <2>2, <2>3 DEF DrainOk, One
  <2>5. \A i \in 1..Len(SqOf(d)) : SqOf(d)[i] # "blanket"
    <3>1. \A i \in 1..Len(sq) : sq[i] \in SqeType /\ sq[i].op # "blanket"
      <4>1. \A i \in 1..Len(sq) : sq[i] \in SqeType /\ sq[i] \notin Blankets
        BY <2>2, <2>4, CountZero, ElementOfSeq
      <4>2. \A e \in SqeType : e.op = "blanket" => e = Sqe("blanket", None)
        BY DEF SqeType, Sqe
      <4> QED BY <4>1, <4>2 DEF Blankets
    <3>2. OnSq(sq, d) \in Seq(Names \ {"blanket"})
      BY <2>2, <3>1, NoBlanket
    <3>3. SqOf(d) \in Seq(Names \ {"blanket"})
      BY <3>2, OfIs, Zenon
    <3> QED BY <3>3, ElementOfSeq
  <2>6. ASSUME NEW any \in BOOLEAN, cfg.any = any PROVE C(d, any)!DrainRefused
    BY <1>2, <1>3, <1>4, <2>1, <2>4, <2>5, <2>6
       DEF C!DrainRefused, C!InLoop, C!Running, C!Has, C!connVars, C!coVars, C!kVars,
           FrameOf, DrainNow, LiveIn
  <2> QED BY <2>6, StepSeen DEF C!Next, C!Shutdown
<1> QED BY <1>5, <1>6

\* on_accept of an error, or of a socket that came too late.
LEMMA AcceptSq ==
    ASSUME NEW d \in Conns, NEW n, NEW s \in Seq(SqeType), AcceptEnd(n, s)
    PROVE  OnSq(sq', d) = OnSq(s, d)
<1> DEFINE e == Sqe("accept", None)
<1>1. sq' = s \/ sq' = Append(s, e)
  BY DEF AcceptEnd, ArmAccept
<1>2. e \in SqeType /\ ~SqMine(e, d)
  BY DEF Sqe, SqeType, SqMine
<1> HIDE DEF e
<1>3. OnSq(Append(s, e), d) = OnSq(s, d)
  BY <1>2, OnSqAdd, Zenon
<1> QED BY <1>1, <1>3, Zenon

\* ... is a step of no connection.
LEMMA OnAcceptLateSeen ==
    ASSUME Inv, OnAcceptLate \/ OnAcceptError, NEW d \in Conns
    PROVE  View(d)
<1>1. sq \in Seq(SqeType)
  BY DEF Inv, TypeOK
<1> DEFINE e == Sqe("close", None)
<1>2. e \in SqeType /\ ~SqMine(e, d)
  BY NoneOut DEF Sqe, SqeType, SqMine
<1>3. /\ \E ks : Taking("accept", ks)
      /\ UNCHANGED <<conn, frame, loopVars, kVars>>
      /\ \E n : AcceptEnd(n, sq) \/ AcceptEnd(n, Append(sq, e))
  BY DEF OnAcceptLate, OnAcceptError
<1> HIDE DEF e
<1>4. OnSq(Append(sq, e), d) = OnSq(sq, d) /\ Append(sq, e) \in Seq(SqeType)
  BY <1>1, <1>2, OnSqAdd, Zenon
<1>5. OnSq(sq', d) = OnSq(sq, d)
  <2>1. PICK n : AcceptEnd(n, sq) \/ AcceptEnd(n, Append(sq, e))
    BY <1>3
  <2>2. CASE AcceptEnd(n, sq)
    BY <1>1, <2>2, AcceptSq, Zenon
  <2>3. CASE AcceptEnd(n, Append(sq, e))
    BY <1>4, <2>3, AcceptSq, Zenon
  <2> QED BY <2>1, <2>2, <2>3
<1>6. SqOf(d)' = SqOf(d)
  BY <1>5, OfIs, Zenon
<1>7. Around(d)
  BY <1>3, OtherSeen
<1>8. SameConn(d)
  BY <1>3 DEF SameConn
<1> QED BY <1>6, <1>7, <1>8, NotSeen

\* on_accept of a socket.
LEMMA OnAcceptSeen ==
    ASSUME Inv, OnAccept, NEW d \in Conns
    PROVE  View(d)
<1> DEFINE x == [Fresh EXCEPT !.refs = 2, !.recv = "armed", !.co = "ready",
                              !.phase = IF cfg.tls THEN "hs" ELSE "serve"]
<1>1. PICK c \in cfg.conns \ Open :
        /\ conn' = [conn EXCEPT ![c] = x]
        /\ AcceptEnd(live + 1, Append(sq, Sqe("recv", c)))
  BY DEF OnAccept
<1>2. /\ Taking("accept", {"ok"}) /\ ~draining /\ UNCHANGED <<frame, loopVars, kVars>>
  BY DEF OnAccept
<1>3. c \in Conns /\ c \notin Open /\ conn \in [Conns -> ConnType] /\ sq \in Seq(SqeType)
  BY <1>1, WorkerAssumption DEF Inv, TypeOK, Setup
<1> DEFINE e == Sqe("recv", c)
<1>4. e \in SqeType /\ (SqMine(e, d) <=> d = c) /\ e.op = "recv"
  BY <1>3 DEF Sqe, SqeType, SqMine
<1>5. AcceptEnd(live + 1, Append(sq, e))
  BY <1>1
<1>6. x.refs = 2 /\ x.recv = "armed" /\ x.co = "ready" /\ x.phase \in {"hs", "serve"}
      /\ x.pausing = FALSE /\ x.cancelling = FALSE /\ x.closed = FALSE /\ x.eof = FALSE
      /\ Len(x.rx) = 0
  BY DEF Fresh
<1> HIDE DEF e, x
<1>7. SqOf(d)' = IF d = c THEN Append(SqOf(d), "recv") ELSE SqOf(d)
  <2>1. /\ Append(sq, e) \in Seq(SqeType)
        /\ OnSq(Append(sq, e), d) = IF d = c THEN Append(OnSq(sq, d), "recv") ELSE OnSq(sq, d)
    BY <1>3, <1>4, OnSqAdd, Zenon
  <2>2. OnSq(sq', d) = OnSq(Append(sq, e), d)
    BY <1>5, <2>1, AcceptSq, Zenon
  <2> QED BY <2>1, <2>2, OfIs, Zenon
<1>8. Around(d)
  BY <1>2, OtherSeen
<1>9. ASSUME d # c PROVE View(d)
  BY <1>1, <1>3, <1>7, <1>8, <1>9, PutOther, NotSeen
<1>10. ASSUME d = c PROVE View(d)
  <2>1. conn[c].refs = 0 /\ conn'[c] = x
    BY <1>1, <1>3 DEF Open, ConnType
  <2>2. /\ FrameOf(c) = "none" /\ DrainNow = "off"
        /\ conn[c].co \notin {"run", "run_recv", "run_pause"}
    BY <1>2, <1>3, LoopSeen DEF Taking, DrainNow
  <2>3. ASSUME NEW any \in BOOLEAN PROVE C(c, any)!Accept
    BY <1>6, <1>7, <1>8, <1>10, <2>1, <2>2
       DEF Around, C!Accept, C!ConnNew, C!InLoop, C!Running, C!loopVars, C!kVars,
           FrameOf, DrainNow, LiveIn
  <2> QED BY <1>10, <2>3, StepSeen DEF C!Next, C!Loop
<1> QED BY <1>9, <1>10

-----------------------------------------------------------------------------
(* The loop.                                                               *)

\* Nothing of a connection moves.
LEMMA LoopOnlySeen ==
    ASSUME UNCHANGED <<conn, frame, draining, canceleach, sq, cq, krecv>>, DrainNow' = DrainNow,
           NEW d \in Conns
    PROVE  View(d)
<1>1. SqOf(d)' = SqOf(d) /\ CqOf(d)' = CqOf(d)
  BY OfIs, Zenon
<1>2. SameConn(d) /\ Around(d)
  BY <1>1 DEF SameConn, Around, FrameOf, LiveIn
<1> QED BY <1>1, <1>2, NotSeen

\* The kernel is left, fails, is entered; stop and deadline.
LEMMA PlainSeen ==
    ASSUME Reap \/ Fail \/ Stop \/ Deadline \/ Flush \/ Flushed, NEW d \in Conns
    PROVE  View(d)
<1>1. CASE Reap
  BY <1>1, LoopOnlySeen DEF Reap, Goto, kVars, DrainNow
<1>2. CASE Fail
  BY <1>2, LoopOnlySeen DEF Fail, kVars, DrainNow
<1>3. CASE Stop \/ Deadline
  BY <1>3, LoopOnlySeen DEF Stop, Deadline, kVars, DrainNow
<1>4. CASE Flush \/ Flushed
  BY <1>4, LoopOnlySeen DEF Flush, Flushed, kVars, DrainNow
<1> QED BY <1>1, <1>2, <1>3, <1>4

\* The accept is no business of a connection.
LEMMA EndBatchSeen ==
    ASSUME Inv, EndBatch, NEW d \in Conns
    PROVE  View(d)
<1> DEFINE e == Sqe("accept", None)
<1>1. sq' = sq \/ sq' = Append(sq, e)
  BY DEF EndBatch, ArmAccept
<1>2. e \in SqeType /\ ~SqMine(e, d) /\ sq \in Seq(SqeType)
  BY DEF Sqe, SqeType, SqMine, Inv, TypeOK
<1>3. /\ UNCHANGED <<conn, frame, draining, canceleach, cq, krecv>> /\ DrainNow' = DrainNow
  BY DEF EndBatch, Goto, LoopAt, kVars, DrainNow
<1> HIDE DEF e
<1>4. SqOf(d)' = SqOf(d)
  BY <1>1, <1>2, OnSqAdd, OfIs, Zenon
<1>5. CqOf(d)' = CqOf(d)
  BY <1>3, OfIs, Zenon
<1>6. SameConn(d) /\ Around(d)
  BY <1>3, <1>5 DEF SameConn, Around, FrameOf, LiveIn
<1> QED BY <1>4, <1>6, NotSeen

\* The sweep is over for every connection at once: none is starved.
LEMMA CheckSeen ==
    ASSUME Inv, DrainOk, Check, NEW d \in Conns
    PROVE  View(d)
<1>1. /\ UNCHANGED <<conn, frame, draining, canceleach, sq, cq, krecv>>
      /\ pc' \in {"exit", "ready"}
  BY DEF Check, Goto, kVars
<1>2. CASE LoopAt("top")
  BY <1>1, <1>2, LoopOnlySeen DEF DrainNow, LoopAt
<1>3. CASE LoopAt("sweep") /\ starved = <<>>
  <2>1. FrameOf(d) = "none" /\ conn[d].co \notin {"run", "run_recv", "run_pause"} /\ pc = "sweep"
    BY <1>3, LoopSeen DEF LoopAt
  <2>2. DrainNow = "sweep" /\ DrainNow' = "on"
    BY <1>1, <2>1 DEF DrainOk, DrainNow
  <2>3. conn[d].recv # "starved"
    <3>1. Count(starved, {d}) = One(conn[d].recv = "starved")
      BY DEF Inv, ConnOk, ListOk
    <3>2. Count(<<>>, {d}) = 0
      BY CountEmpty
    <3> QED BY <1>3, <3>1, <3>2 DEF One
  <2>4. SqOf(d)' = SqOf(d) /\ CqOf(d)' = CqOf(d)
    BY <1>1, OfIs, Zenon
  <2>5. ASSUME NEW any \in BOOLEAN PROVE C(d, any)!EndSweep
    BY <1>1, <2>1, <2>2, <2>3, <2>4
       DEF C!EndSweep, C!Running, C!connVars, C!coVars, C!kVars, FrameOf, DrainNow
  <2> QED BY <2>5, StepSeen DEF C!Next, C!Shutdown
<1> QED BY <1>2, <1>3 DEF Check

\* Every connection sees the blanket cancel staged.
LEMMA BeginDrainSeen ==
    ASSUME Inv, BeginDrain, NEW d \in Conns
    PROVE  View(d)
<1> DEFINE a == Sqe("cancelaccept", None)
           b == Sqe("blanket", None)
           v == IF listener.stalled THEN <<>> ELSE <<a>>
<1>1. /\ UNCHANGED <<conn, frame, canceleach, cq, krecv>> /\ LoopAt("top") /\ ~draining
      /\ draining' = TRUE /\ pc' = "sweep" /\ sq' = sq \o v \o <<b>>
  BY DEF BeginDrain, kVars
<1>2. /\ a \in SqeType /\ ~SqMine(a, d) /\ b \in SqeType /\ SqMine(b, d) /\ b.op = "blanket"
      /\ sq \in Seq(SqeType)
  BY DEF Sqe, SqeType, SqMine, Inv, TypeOK
<1> HIDE DEF a, b
<1>3. sq \o v \in Seq(SqeType) /\ OnSq(sq \o v, d) = OnSq(sq, d)
  <2>1. CASE listener.stalled
    <3>1. v = <<>>
      BY <2>1, Zenon
    <3>2. sq \o <<>> = sq
      BY <1>2, ConcatEmptySeq
    <3> QED BY <1>2, <3>1, <3>2, Zenon
  <2>2. CASE ~listener.stalled
    <3>1. v = <<a>>
      BY <2>2, Zenon
    <3>2. sq \o <<a>> = Append(sq, a)
      BY <1>2, AppendIsConcat
    <3> HIDE DEF v
    <3> QED BY <1>2, <3>1, <3>2, OnSqAdd, Zenon
  <2> QED BY <2>1, <2>2
<1> HIDE DEF v
<1>4. SqOf(d)' = Append(SqOf(d), "blanket")
  <2> DEFINE q == sq \o v
  <2>1. q \o <<b>> = Append(q, b)
    <3> HIDE DEF q
    <3> QED BY <1>2, <1>3, AppendIsConcat DEF q
  <2>2. sq' = Append(q, b)
    BY <1>1, <2>1, Zenon
  <2> HIDE DEF q
  <2>3. q \in Seq(SqeType) /\ OnSq(q, d) = OnSq(sq, d)
    BY <1>3, Zenon DEF q
  <2> QED BY <1>2, <2>2, <2>3, OnSqAdd, OfIs, Zenon
<1>5. CqOf(d)' = CqOf(d)
  BY <1>1, OfIs, Zenon
<1>6. FrameOf(d) = "none" /\ conn[d].co \notin {"run", "run_recv", "run_pause"}
  BY <1>1, LoopSeen
<1>7. ASSUME NEW any \in BOOLEAN PROVE C(d, any)!BeginDrain
  BY <1>1, <1>4, <1>5, <1>6
     DEF C!BeginDrain, C!InLoop, C!Running, C!connVars, C!coVars, C!kVars, FrameOf
<1> QED BY <1>7, StepSeen DEF C!Next, C!Shutdown

\* One starved connection is ended.
LEMMA SweepSeen ==
    ASSUME Inv, DrainOk, Sweep, NEW d \in Conns
    PROVE  View(d)
<1>0. PICK c : c = Last(starved)
  OBVIOUS
<1> DEFINE x == conn[c]
           y == Wake([x EXCEPT !.eof = TRUE, !.recv = "done"])
<1>1. /\ LoopAt("sweep") /\ starved # <<>> /\ conn' = [conn EXCEPT ![c] = y]
      /\ frame' = [c |-> c, k |-> "unref"]
      /\ UNCHANGED <<pc, draining, canceleach, sq, cq, krecv>>
  BY <1>0 DEF Sweep, Put, loopVars, kVars
<1>2. c \in Conns /\ x \in ConnType /\ conn \in [Conns -> ConnType] /\ x.recv = "starved"
  <2>1. starved \in Seq(Conns) /\ conn \in [Conns -> ConnType]
    BY DEF Inv, TypeOK
  <2>2. \A S : Front(starved) \in Seq(Conns) /\ Last(starved) \in Conns
               /\ Count(starved, S) = One(Last(starved) \in S) + Count(Front(starved), S)
    BY <1>1, <2>1, CountFront
  <2>3. \A S : Count(Front(starved), S) \in Nat
    BY <2>2, CountNat
  <2>4. c \in Conns /\ Count(starved, {c}) # 0
    BY <1>0, <2>2, <2>3 DEF One
  <2>5. Count(starved, {c}) = One(conn[c].recv = "starved")
    BY <2>4 DEF Inv, ConnOk, ListOk
  <2> QED BY <2>1, <2>4, <2>5 DEF One
<1>3. SqOf(d)' = SqOf(d) /\ CqOf(d)' = CqOf(d)
  BY <1>1, OfIs, Zenon
<1>4. /\ FrameOf(d) = "none" /\ conn[d].co \notin {"run", "run_recv", "run_pause"}
      /\ FrameOf(d)' = IF d = c THEN "unref" ELSE "none"
  BY <1>1, LoopSeen DEF FrameOf
<1>5. DrainNow = "sweep" /\ DrainNow' = "sweep"
  BY <1>1 DEF DrainNow, DrainOk, LoopAt
<1>6. ASSUME d # c PROVE View(d)
  <2>1. Around(d)
    BY <1>1, <1>3, <1>4, <1>5, <1>6 DEF Around, LiveIn
  <2> HIDE DEF y
  <2> QED BY <1>1, <1>2, <1>3, <1>6, <2>1, PutOther, NotSeen
<1>7. ASSUME d = c PROVE View(d)
  <2>1. /\ conn'[c].refs = x.refs /\ conn'[c].recv = "done" /\ conn'[c].pausing = x.pausing
        /\ conn'[c].cancelling = x.cancelling /\ conn'[c].closed = x.closed
        /\ conn'[c].eof = TRUE /\ conn'[c].rx = x.rx /\ conn'[c].co = Woken(x.co)
        /\ conn'[c].phase = x.phase
    BY <1>1, <1>2 DEF Wake, Woken, ConnType
  <2>2. ASSUME NEW any \in BOOLEAN PROVE C(c, any)!RecvDrain
    BY <1>1, <1>2, <1>3, <1>4, <1>5, <1>7, <2>1
       DEF C!RecvDrain, C!Running, C!WakeReader, C!kVars, Woken, FrameOf, DrainNow
  <2> QED BY <1>7, <2>2, StepSeen DEF C!Next, C!Shutdown
<1> QED BY <1>6, <1>7

\* One coroutine starts.
LEMMA RunReadySeen ==
    ASSUME Inv, RunReady, NEW d \in Conns
    PROVE  View(d)
<1>0. PICK c : c = Head(ready)
  OBVIOUS
<1> DEFINE x == conn[c]
           y == [x EXCEPT !.co = "run"]
<1>1. /\ LoopAt("ready") /\ ready # <<>> /\ conn' = [conn EXCEPT ![c] = y]
      /\ CoVars /\ sq' = sq
  BY <1>0 DEF RunReady, Put, CoVars
<1>2. c \in Conns /\ x \in ConnType /\ conn \in [Conns -> ConnType] /\ x.co = "ready"
  <2>1. ready \in Seq(Conns) /\ conn \in [Conns -> ConnType]
    BY DEF Inv, TypeOK
  <2>2. \A S : Tail(ready) \in Seq(Conns) /\ Head(ready) \in Conns
               /\ Count(ready, S) = One(Head(ready) \in S) + Count(Tail(ready), S)
    BY <1>1, <2>1, CountTail
  <2>3. \A S : Count(Tail(ready), S) \in Nat
    BY <2>2, CountNat
  <2>4. c \in Conns /\ Count(ready, {c}) # 0
    BY <1>0, <2>2, <2>3 DEF One
  <2>5. Count(ready, {c}) = One(conn[c].co = "ready")
    BY <2>4 DEF Inv, ConnOk, ListOk
  <2> QED BY <2>1, <2>4, <2>5 DEF One
<1>3. SqOf(d)' = SqOf(d)
  BY <1>1, OfIs, Zenon
<1>4. ASSUME d # c PROVE View(d)
  <2> HIDE DEF y
  <2> QED BY <1>1, <1>2, <1>3, <1>4, CoOthers
<1>5. ASSUME d = c PROVE View(d)
  <2>1. Around(c)
    BY <1>1, CoAround
  <2>2. FrameOf(c) = "none" /\ DrainNow # "sweep"
    BY <1>1, <1>2, LoopSeen
  <2>3. /\ conn'[c].refs = x.refs /\ conn'[c].recv = x.recv /\ conn'[c].pausing = x.pausing
        /\ conn'[c].cancelling = x.cancelling /\ conn'[c].closed = x.closed
        /\ conn'[c].eof = x.eof /\ conn'[c].rx = x.rx /\ conn'[c].co = "run"
        /\ conn'[c].phase = x.phase
    BY <1>1, <1>2 DEF ConnType
  <2>4. ASSUME NEW any \in BOOLEAN PROVE C(c, any)!Start
    BY <1>2, <1>3, <1>5, <2>1, <2>2, <2>3
       DEF Around, C!Start, C!InLoop, C!Running, C!connVars, C!loopVars, C!kVars,
           FrameOf, DrainNow, LiveIn
  <2> QED BY <1>5, <2>4, StepSeen DEF C!Next, C!Loop
<1> QED BY <1>4, <1>5

\* What is counted once is at one place.
LEMMA CountedOnce ==
    ASSUME NEW T, NEW s \in Seq(T), NEW S, Count(s, S) = 1,
           NEW i \in 1..Len(s), NEW j \in 1..Len(s), s[i] \in S, s[j] \in S
    PROVE  i = j
<1> DEFINE A == {k \in 1..Len(s) : s[k] \in S}
<1>1. IsFiniteSet(A) /\ Cardinality(A) = 1
  BY CountNat DEF Count
<1>2. i \in A /\ j \in A
  OBVIOUS
<1> HIDE DEF A
<1>3. PICK k : A = {k}
  BY <1>1, FS_Singleton
<1> QED BY <1>2, <1>3

\* Those that are due are armed, each with one recv.
LEMMA RearmStarvedSeen ==
    ASSUME Inv, RearmStarved, NEW d \in Conns
    PROVE  View(d)
<1>0. PICK n : n = IF returned < Len(starved) THEN returned ELSE Len(starved)
  OBVIOUS
<1> DEFINE now == SubSeq(starved, 1, n)
           w == [i \in 1..n |-> Sqe("recv", now[i])]
           x == conn[d]
<1>1. /\ LoopAt("ready") /\ pc' = "enter" /\ sq' = sq \o w
      /\ conn' = [c \in Conns |-> IF c \in ToSet(now) THEN Arm(conn[c]) ELSE conn[c]]
      /\ UNCHANGED <<frame, cq, krecv, draining, canceleach>>
  BY <1>0 DEF RearmStarved, Goto, kVars
<1>2. /\ TypeOK /\ starved \in Seq(Conns) /\ returned \in Nat /\ Len(starved) \in Nat /\ ConnOk(d)
      /\ conn \in [Conns -> ConnType] /\ sq \in Seq(SqeType)
  BY LenProperties DEF Inv, TypeOK
<1>3. n \in 0..Len(starved) /\ n \in Nat
  BY <1>0, <1>2
<1>4. /\ now \in Seq(Conns) /\ Len(now) = n
      /\ Count(starved, {d}) >= Count(now, {d}) /\ Count(now, {d}) \in Nat
  <2>1. /\ SubSeq(starved, 1, n) \in Seq(Conns) /\ SubSeq(starved, n + 1, Len(starved)) \in Seq(Conns)
        /\ Len(SubSeq(starved, 1, n)) = n
        /\ Count(starved, {d}) = Count(SubSeq(starved, 1, n), {d})
                                      + Count(SubSeq(starved, n + 1, Len(starved)), {d})
    BY <1>2, <1>3, CountSplit
  <2>2. Count(now, {d}) \in Nat /\ Count(SubSeq(starved, n + 1, Len(starved)), {d}) \in Nat
    BY <2>1, CountNat
  <2> QED BY <2>1, <2>2
<1> HIDE DEF now
<1>5. /\ w \in Seq(SqeType) /\ Len(w) = n
      /\ \A i \in 1..n : w[i] = Sqe("recv", now[i])
  <2>1. w \in Seq(SqeType) /\ Len(w) = n
    BY <1>3, <1>4, CountRecvs
  <2> QED BY <2>1
<1> HIDE DEF w
<1>6. \A i \in 1..n : SqMine(w[i], d) <=> now[i] = d
  BY <1>5, SqeFields DEF SqMine
<1>7. SqOf(d)' = SqOf(d) \o OnSq(w, d) /\ SqOf(d) \in Seq(Names)
  BY <1>1, <1>2, <1>5, SqPushed, Zenon
<1>8. ToSet(now) = {now[i] : i \in 1..n}
  BY <1>4, LenProperties DEF ToSet
<1>9. CqOf(d)' = CqOf(d)
  BY <1>1, OfIs, Zenon
<1>10. FrameOf(d) = "none" /\ x.co \notin {"run", "run_recv", "run_pause"} /\ DrainNow # "sweep"
       /\ FrameOf(d)' = FrameOf(d) /\ DrainNow' = DrainNow /\ LiveIn(d)' = LiveIn(d)
  <2>1. FrameOf(d) = "none" /\ x.co \notin {"run", "run_recv", "run_pause"} /\ DrainNow # "sweep"
    BY <1>1, LoopSeen
  <2> QED BY <1>1, <2>1 DEF FrameOf, DrainNow, LiveIn, LoopAt
<1>11. CASE d \notin ToSet(now)
  <2>1. \A i \in 1..Len(w) : ~SqMine(w[i], d)
    BY <1>5, <1>6, <1>8, <1>11
  <2>2. OnSq(w, d) = <<>>
    BY <1>5, <2>1, OnSqNone
  <2>3. SqOf(d)' = SqOf(d)
    <3>1. SqOf(d) \o <<>> = SqOf(d)
      BY <1>7, ConcatEmptySeq
    <3> QED BY <1>7, <2>2, <3>1, Zenon
  <2>4. conn'[d] = conn[d]
    BY <1>1, <1>11
  <2> QED BY <1>1, <1>9, <1>10, <2>3, <2>4, NotSeen DEF SameConn, Around
<1>12. CASE d \in ToSet(now)
  <2>1. PICK i \in 1..n : now[i] = d
    BY <1>8, <1>12
  <2>2. x.recv = "starved" /\ Count(now, {d}) = 1
    <3>1. Count(starved, {d}) = One(x.recv = "starved")
      BY <1>2 DEF ConnOk, ListOk
    <3>2. Count(now, {d}) >= 1
      BY <1>4, <2>1, CountPos
    <3> QED BY <1>4, <3>1, <3>2 DEF One
  <2>3. \A j \in 1..n : j # i => now[j] # d
    BY <1>4, <2>1, <2>2, CountedOnce
  <2>4. OnSq(w, d) = <<w[i].op>>
    <3>1. i \in 1..Len(w) /\ SqMine(w[i], d) /\ \A j \in 1..Len(w) : j # i => ~SqMine(w[j], d)
      BY <1>5, <1>6, <2>1, <2>3
    <3> QED BY <1>5, <3>1, OnSqOnly
  <2>5. w[i].op = "recv"
    BY <1>5, SqeFields
  <2>6. SqOf(d)' = Append(SqOf(d), "recv")
    <3>1. SqOf(d) \o <<"recv">> = Append(SqOf(d), "recv")
      BY <1>7, AppendIsConcat DEF Names
    <3> QED BY <1>7, <2>4, <2>5, <3>1, Zenon
  <2>7. /\ conn'[d].refs = x.refs /\ conn'[d].recv = "armed" /\ conn'[d].pausing = x.pausing
        /\ conn'[d].cancelling = FALSE /\ conn'[d].closed = x.closed
        /\ conn'[d].eof = x.eof /\ conn'[d].rx = x.rx /\ conn'[d].co = x.co
        /\ conn'[d].phase = x.phase
    <3>1. conn'[d] = Arm(x) /\ x \in ConnType
      BY <1>1, <1>2, <1>12
    <3> QED BY <3>1 DEF Arm, ConnType
  <2>8. ASSUME NEW any \in BOOLEAN PROVE C(d, any)!RearmStarved
    BY <1>1, <1>9, <1>10, <2>2, <2>6, <2>7
       DEF C!RearmStarved, C!ArmRecv, C!InLoop, C!Running, C!coVars, C!loopVars, C!kVars,
           FrameOf, DrainNow, LiveIn
  <2> QED BY <2>8, StepSeen DEF C!Next, C!Loop
<1> QED BY <1>11, <1>12

-----------------------------------------------------------------------------
(* The kernel.                                                             *)

\* It leaves the thread's side alone.
KSeen(d) == /\ conn' = conn /\ SameConn(d) /\ FrameOf(d)' = FrameOf(d) /\ DrainNow' = DrainNow
            /\ canceleach' = canceleach

\* ... as all its steps do.
LEMMA KFrameSeen ==
    ASSUME KFrame, NEW d
    PROVE  KSeen(d)
BY DEF KFrame, KSeen, SameConn, FrameOf, DrainNow, loopVars

\* An SQE is taken, and shows to its connection; the blanket cancel shows to all.
LEMMA KTakeSeen ==
    ASSUME Inv, NEW op, KTake(op), NEW d \in Conns
    PROVE  /\ KSeen(d) /\ Head(sq) \in SqeType /\ Head(sq).op = op
           /\ SqMine(Head(sq), d) => /\ SqOf(d) # <<>> /\ Head(SqOf(d)) = op
                                     /\ SqOf(d)' = Tail(SqOf(d))
           /\ ~SqMine(Head(sq), d) => SqOf(d)' = SqOf(d)
<1>1. sq # <<>> /\ sq' = Tail(sq) /\ KFrame /\ Head(sq).op = op /\ sq \in Seq(SqeType)
  BY DEF KTake, Inv, TypeOK
<1>2. KSeen(d)
  BY <1>1, KFrameSeen
<1>3. /\ Head(sq) \in SqeType
      /\ SqMine(Head(sq), d) => /\ OnSq(sq, d) # <<>> /\ Head(OnSq(sq, d)) = Head(sq).op
                                /\ Tail(OnSq(sq, d)) = OnSq(Tail(sq), d)
      /\ ~SqMine(Head(sq), d) => OnSq(Tail(sq), d) = OnSq(sq, d)
  BY <1>1, OnSqTail, Zenon
<1>4. SqOf(d) = OnSq(sq, d) /\ SqOf(d)' = OnSq(Tail(sq), d)
  BY <1>1, OfIs, Zenon
<1>5. SqMine(Head(sq), d) => SqOf(d) # <<>> /\ Head(SqOf(d)) = op /\ SqOf(d)' = Tail(SqOf(d))
  BY <1>1, <1>3, <1>4, Zenon
<1>6. ~SqMine(Head(sq), d) => SqOf(d)' = SqOf(d)
  BY <1>3, <1>4, Zenon
<1> QED BY <1>1, <1>2, <1>3, <1>5, <1>6

\* A CQE is posted.
LEMMA PostSeen ==
    ASSUME Inv, NEW e \in CqeType, Post(e), NEW d \in Conns
    PROVE  /\ CqMine(e, d) => CqOf(d)' = Append(CqOf(d), Entry(e))
           /\ ~CqMine(e, d) => CqOf(d)' = CqOf(d)
<1>1. cq \in Seq(CqeType) /\ cq' = Append(cq, e)
  BY DEF Inv, TypeOK, Post
<1>2. OnCq(Append(cq, e), d) = IF CqMine(e, d) THEN Append(OnCq(cq, d), Entry(e)) ELSE OnCq(cq, d)
  BY <1>1, OnCqAdd, Zenon
<1> QED BY <1>1, <1>2, OfIs, Zenon

\* It changes nothing of d.
LEMMA KStutter ==
    ASSUME NEW d \in Conns, KSeen(d), SqOf(d)' = SqOf(d), CqOf(d)' = CqOf(d), LiveIn(d)' = LiveIn(d)
    PROVE  View(d)
<1>1. SameConn(d) /\ Around(d)
  BY DEF KSeen, Around
<1> QED BY <1>1, NotSeen

\* What is not a recv of a connection shows to none.
LEMMA KOtherSeen ==
    ASSUME Inv, KOp \/ KAccept \/ KCancelAccept, NEW d \in Conns
    PROVE  View(d)
<1>1. PICK op \in {"op", "accept", "cancelaccept"} : KTake(op)
  BY DEF KOp, KAccept, KCancelAccept
<1>2. krecv' = krecv /\ (cq' = cq \/ Post(AcceptEnds("cancelled")))
  BY DEF KOp, KAccept, KCancelAccept
<1>3. AcceptEnds("cancelled") \in CqeType /\ ~CqMine(AcceptEnds("cancelled"), d)
  BY CqeTypes DEF AcceptEnds, Cqe, CqMine
<1>4. CqOf(d)' = CqOf(d)
  <2>1. CASE cq' = cq
    BY <2>1, OfIs, Zenon
  <2>2. CASE Post(AcceptEnds("cancelled"))
    BY <1>3, <2>2, PostSeen
  <2> QED BY <1>2, <2>1, <2>2
<1>5. KSeen(d) /\ SqOf(d)' = SqOf(d)
  <2>1. KSeen(d) /\ Head(sq).op = op /\ (~SqMine(Head(sq), d) => SqOf(d)' = SqOf(d))
    BY <1>1, KTakeSeen
  <2>2. ~SqMine(Head(sq), d)
    BY <2>1 DEF SqMine
  <2> QED BY <2>1, <2>2
<1> QED BY <1>2, <1>4, <1>5, KStutter DEF LiveIn

\* Ops and accepts complete.
LEMMA KOtherWorkSeen ==
    ASSUME Inv, KOpDone \/ KAccepts, NEW d \in Conns
    PROVE  View(d)
<1>1. KFrame /\ sq' = sq /\ krecv' = krecv
  BY DEF KOpDone, KAccepts, KWork
<1>2. PICK e \in CqeType : Post(e) /\ e.t # "recv"
  <2>1. CASE KOpDone
    <3>1. PICK c \in kop : Post(Cqe("op", c, "done", FALSE, None))
      BY <2>1 DEF KOpDone
    <3>2. c \in Conns
      BY DEF Inv, TypeOK
    <3>3. Cqe("op", c, "done", FALSE, None) \in CqeType
      BY <3>2, CqeTypes
    <3>4. Cqe("op", c, "done", FALSE, None).t # "recv"
      BY DEF Cqe
    <3> QED BY <3>1, <3>3, <3>4
  <2>2. CASE KAccepts
    <3>1. CASE \E more \in BOOLEAN : Post(Cqe("accept", None, "ok", more, None))
      <4>1. PICK m \in BOOLEAN : Post(Cqe("accept", None, "ok", m, None))
        BY <3>1
      <4>2. Cqe("accept", None, "ok", m, None) \in CqeType
        BY CqeTypes
      <4>3. Cqe("accept", None, "ok", m, None).t # "recv"
        BY DEF Cqe
      <4> QED BY <4>1, <4>2, <4>3
    <3>2. CASE \E k \in {"failed", "exhausted"} : Post(AcceptEnds(k))
      <4>1. PICK k \in {"failed", "exhausted"} : Post(AcceptEnds(k))
        BY <3>2
      <4>2. AcceptEnds(k) \in CqeType
        BY CqeTypes
      <4>3. AcceptEnds(k).t # "recv"
        BY DEF AcceptEnds, Cqe
      <4> QED BY <4>1, <4>2, <4>3
    <3> QED BY <2>2, <3>1, <3>2 DEF KAccepts
  <2> QED BY <2>1, <2>2
<1>3. CqOf(d)' = CqOf(d)
  BY <1>2, PostSeen DEF CqMine
<1>4. SqOf(d)' = SqOf(d)
  BY <1>1, OfIs, Zenon
<1>5. KSeen(d)
  BY <1>1, KFrameSeen
<1> QED BY <1>1, <1>3, <1>4, <1>5, KStutter DEF LiveIn

\* A close is taken.
LEMMA KCloseSeen ==
    ASSUME Inv, KClose, NEW d \in Conns
    PROVE  View(d)
<1>1. KTake("close") /\ krecv' = krecv /\ cq' = cq
  BY DEF KClose
<1>2. /\ KSeen(d)
      /\ SqMine(Head(sq), d) => SqOf(d) # <<>> /\ Head(SqOf(d)) = "close" /\ SqOf(d)' = Tail(SqOf(d))
      /\ ~SqMine(Head(sq), d) => SqOf(d)' = SqOf(d)
  BY <1>1, KTakeSeen
<1>3. CqOf(d)' = CqOf(d)
  BY <1>1, OfIs, Zenon
<1>4. LiveIn(d)' = LiveIn(d)
  BY <1>1 DEF LiveIn
<1>5. CASE ~SqMine(Head(sq), d)
  BY <1>2, <1>3, <1>4, <1>5, KStutter
<1>6. CASE SqMine(Head(sq), d)
  <2>1. ASSUME NEW any \in BOOLEAN PROVE C(d, any)!KClose
    BY <1>2, <1>3, <1>4, <1>6
       DEF KSeen, SameConn, C!KClose, C!KTake, C!connVars, C!coVars, C!loopVars, C!kVars,
           FrameOf, DrainNow, LiveIn
  <2> QED BY <2>1, StepSeen DEF C!Next, C!Kernel, C!KSubmit
<1> QED BY <1>5, <1>6

\* A recv is taken.
LEMMA KRecvSeen ==
    ASSUME Inv, KRecv, NEW d \in Conns
    PROVE  View(d)
<1>0. PICK c : c = Head(sq).c
  OBVIOUS
<1> DEFINE e == Cqe("recv", c, "enobufs", FALSE, None)
<1>1. /\ KTake("recv")
      /\ \/ Post(e) /\ krecv' = krecv
         \/ krecv' = krecv \cup {c} /\ cq' = cq
  BY <1>0 DEF KRecv
<1>2. /\ KSeen(d) /\ Head(sq) \in SqeType /\ Head(sq).op = "recv"
      /\ SqMine(Head(sq), d) => SqOf(d) # <<>> /\ Head(SqOf(d)) = "recv" /\ SqOf(d)' = Tail(SqOf(d))
      /\ ~SqMine(Head(sq), d) => SqOf(d)' = SqOf(d)
  BY <1>1, KTakeSeen
<1>3. c \in Conns /\ (SqMine(Head(sq), d) <=> d = c)
  BY <1>0, <1>2 DEF SqeType, SqMine
<1>4. e \in CqeType /\ (CqMine(e, d) <=> d = c) /\ Entry(e) = [k |-> "enobufs", more |-> FALSE]
  <2>1. e \in CqeType
    BY <1>3, CqeTypes
  <2> QED BY <2>1 DEF CqMine, Entry, Cqe
<1> HIDE DEF e
<1>5. /\ Post(e) => /\ d = c => CqOf(d)' = Append(CqOf(d), Entry(e))
                    /\ d # c => CqOf(d)' = CqOf(d)
      /\ cq' = cq => CqOf(d)' = CqOf(d)
  <2>1. Post(e) => /\ d = c => CqOf(d)' = Append(CqOf(d), Entry(e))
                   /\ d # c => CqOf(d)' = CqOf(d)
    BY <1>4, PostSeen
  <2>2. cq' = cq => CqOf(d)' = CqOf(d)
    BY OfIs, Zenon
  <2> QED BY <2>1, <2>2
<1>6. ASSUME d # c PROVE View(d)
  BY <1>1, <1>2, <1>3, <1>5, <1>6, KStutter DEF LiveIn
<1>7. ASSUME d = c PROVE View(d)
  <2>1. c \notin krecv
    <3>1. RecvsInSq(c) = One("recv" = "recv" /\ Head(sq).c = c) + RecvsInSq(c)' /\ RecvsInSq(c)' \in Nat
      BY <1>1, <1>3, SqHead
    <3>2. RecvsInSq(c) # 0
      BY <1>0, <3>1 DEF One
    <3> QED BY <1>3, <3>2 DEF Inv, ConnOk, RecvOk
  <2>2. \/ LiveIn(c)' = LiveIn(c) + 1 /\ CqOf(c)' = CqOf(c)
        \/ LiveIn(c)' = LiveIn(c) /\ CqOf(c)' = Append(CqOf(c), [k |-> "enobufs", more |-> FALSE])
    <3>1. CASE Post(e) /\ krecv' = krecv
      <4>1. CqOf(c)' = Append(CqOf(c), Entry(e))
        BY <1>5, <1>7, <3>1
      <4> QED BY <1>4, <3>1, <4>1 DEF LiveIn
    <3>2. CASE krecv' = krecv \cup {c} /\ cq' = cq
      BY <1>5, <1>7, <2>1, <3>2 DEF LiveIn
    <3> QED BY <1>1, <3>1, <3>2
  <2>3. ASSUME NEW any \in BOOLEAN PROVE C(c, any)!KRecv
    BY <1>2, <1>3, <1>7, <2>2
       DEF KSeen, SameConn, C!KRecv, C!KTake, C!Cqe, C!connVars, C!coVars, C!loopVars, C!kVars,
           FrameOf, DrainNow, LiveIn
  <2> QED BY <1>7, <2>3, StepSeen DEF C!Next, C!Kernel, C!KSubmit
<1> QED BY <1>6, <1>7

\* The recv of c ends in the kernel with e, or nothing of d ends.
LEMMA EndSeen ==
    ASSUME Inv, NEW e \in CqeType, e.t = "recv", ~e.more, Post(e), NEW c \in krecv, e.c = c,
           krecv' = krecv \ {c}, NEW d \in Conns
    PROVE  /\ d # c => LiveIn(d)' = LiveIn(d) /\ CqOf(d)' = CqOf(d)
           /\ d = c => \A any \in BOOLEAN : C(d, any)!KEnd(e.k)
<1>1. /\ d = c => CqOf(d)' = Append(CqOf(d), Entry(e))
      /\ d # c => CqOf(d)' = CqOf(d)
  BY PostSeen DEF CqMine
<1>2. Entry(e) = [k |-> e.k, more |-> FALSE]
  BY DEF Entry, CqeType
<1>3. ASSUME d = c PROVE \A any \in BOOLEAN : C(d, any)!KEnd(e.k)
  <2>1. LiveIn(d) = 1 /\ LiveIn(d)' = 0
    BY <1>3 DEF LiveIn
  <2>2. CqOf(d)' = Append(CqOf(d), [k |-> e.k, more |-> FALSE])
    BY <1>1, <1>2, <1>3
  <2> QED BY <2>1, <2>2 DEF C!KEnd, C!Cqe, LiveIn
<1> QED BY <1>1, <1>3 DEF LiveIn

\* No recv of d is in the kernel, and none ends.
LEMMA NoEnd ==
    ASSUME NEW d, d \notin krecv, d \notin krecv', CqOf(d)' = CqOf(d), NEW any \in BOOLEAN, NEW k
    PROVE  C(d, any)!KEnd(k)
<1>1. (IF d \in krecv THEN 1 ELSE 0) = 0 /\ (IF d \in krecv' THEN 1 ELSE 0) = 0
  OBVIOUS
<1>2. ~((IF d \in krecv THEN 1 ELSE 0) > 0)
  BY <1>1
<1>3. <<IF d \in krecv THEN 1 ELSE 0, CqOf(d)>>' = <<IF d \in krecv THEN 1 ELSE 0, CqOf(d)>>
  BY <1>1
<1> QED BY <1>2, <1>3 DEF C!KEnd, C!kVars

\* A cancel is taken.
LEMMA KCancelSeen ==
    ASSUME Inv, KCancel, NEW d \in Conns
    PROVE  View(d)
<1>0. PICK c : c = Head(sq).c
  OBVIOUS
<1>1. /\ KTake("cancel")
      /\ \/ c \in krecv /\ krecv' = krecv \ {c} /\ Post(Ended(c))
         \/ c \notin krecv /\ krecv' = krecv /\ cq' = cq
  BY <1>0 DEF KCancel
<1>2. /\ KSeen(d) /\ Head(sq) \in SqeType /\ Head(sq).op = "cancel"
      /\ SqMine(Head(sq), d) => SqOf(d) # <<>> /\ Head(SqOf(d)) = "cancel" /\ SqOf(d)' = Tail(SqOf(d))
      /\ ~SqMine(Head(sq), d) => SqOf(d)' = SqOf(d)
  BY <1>1, KTakeSeen
<1>3. c \in Conns /\ (SqMine(Head(sq), d) <=> d = c)
  BY <1>0, <1>2 DEF SqeType, SqMine
<1>4. /\ d # c => LiveIn(d)' = LiveIn(d) /\ CqOf(d)' = CqOf(d)
      /\ d = c => \A any \in BOOLEAN : C(d, any)!KEnd("cancelled")
  <2>1. CASE c \in krecv /\ krecv' = krecv \ {c} /\ Post(Ended(c))
    <3>1. Ended(c) \in CqeType
      BY <1>3, CqeTypes
    <3>2. Ended(c).t = "recv" /\ Ended(c).c = c /\ Ended(c).more = FALSE /\ Ended(c).k = "cancelled"
      BY DEF Ended, Cqe
    <3> DEFINE e == Ended(c)
    <3>3. e \in CqeType /\ e.t = "recv" /\ e.c = c /\ ~e.more /\ e.k = "cancelled" /\ Post(e)
      BY <2>1, <3>1, <3>2
    <3> HIDE DEF e
    <3>4. /\ d # c => LiveIn(d)' = LiveIn(d) /\ CqOf(d)' = CqOf(d)
          /\ d = c => \A any \in BOOLEAN : C(d, any)!KEnd(e.k)
      BY <2>1, <3>3, EndSeen
    <3> QED BY <3>3, <3>4
  <2>2. CASE c \notin krecv /\ krecv' = krecv /\ cq' = cq
    <3>1. CqOf(d)' = CqOf(d)
      BY <2>2, OfIs, Zenon
    <3>2. LiveIn(d)' = LiveIn(d)
      BY <2>2 DEF LiveIn
    <3>3. ASSUME d = c, NEW any \in BOOLEAN PROVE C(d, any)!KEnd("cancelled")
      BY <2>2, <3>1, <3>3, NoEnd
    <3> QED BY <3>1, <3>2, <3>3
  <2> QED BY <1>1, <2>1, <2>2
<1>5. ASSUME d # c PROVE View(d)
  BY <1>2, <1>3, <1>4, <1>5, KStutter
<1>6. ASSUME d = c PROVE View(d)
  <2>1. ASSUME NEW any \in BOOLEAN PROVE C(d, any)!KCancel
    <3>1. C(d, any)!KTake("cancel")
      BY <1>2, <1>3, <1>6
         DEF KSeen, SameConn, C!KTake, C!connVars, C!coVars, C!loopVars, FrameOf, DrainNow
    <3> QED BY <1>4, <1>6, <3>1 DEF C!KCancel
  <2> QED BY <2>1, StepSeen DEF C!Next, C!Kernel, C!KSubmit
<1> QED BY <1>5, <1>6

\* What completes on its own: within the bound of Conn, too.
LEMMA KWorkSeen ==
    ASSUME Inv, KWork, NEW d \in Conns
    PROVE  /\ KSeen(d) /\ SqOf(d)' = SqOf(d) /\ Len(CqOf(d)) < MaxCqes
           /\ \A any \in BOOLEAN : UNCHANGED <<C(d, any)!connVars, C(d, any)!coVars,
                                               C(d, any)!loopVars, SqOf(d)>>
<1>1. KSeen(d)
  BY KFrameSeen DEF KWork
<1>2. sq' = sq /\ Len(cq) < MaxCqes /\ cq \in Seq(CqeType)
  BY DEF KWork, Inv, TypeOK
<1>3. SqOf(d)' = SqOf(d)
  BY <1>2, OfIs, Zenon
<1>4. Len(OnCq(cq, d)) <= Len(cq) /\ OnCq(cq, d) \in Seq(Entries)
  BY <1>2, OnCqCat
<1>5. CqOf(d) = OnCq(cq, d)
  BY OfIs, Zenon
<1>6. Len(CqOf(d)) <= Len(cq) /\ CqOf(d) \in Seq(Entries)
  BY <1>4, <1>5, Zenon
<1>7. Len(CqOf(d)) < MaxCqes
  <2>1. Len(CqOf(d)) \in Nat /\ Len(cq) \in Nat /\ MaxCqes \in Nat
    BY <1>2, <1>6, LenProperties, WorkerAssumption
  <2> QED BY <1>2, <1>6, <2>1
<1>8. \A any \in BOOLEAN : UNCHANGED <<C(d, any)!connVars, C(d, any)!coVars,
                                       C(d, any)!loopVars, SqOf(d)>>
  BY <1>1, <1>3 DEF KSeen, SameConn, C!connVars, C!coVars, C!loopVars, FrameOf, DrainNow
<1> QED BY <1>1, <1>3, <1>7, <1>8

\* A recv ends.
LEMMA KFinSeen ==
    ASSUME Inv, KFin, NEW d \in Conns
    PROVE  View(d)
<1>1. PICK c \in krecv, b \in kfree \cup {None} :
        Post(Cqe("recv", c, "fin", FALSE, b)) /\ krecv' = krecv \ {c}
  BY DEF KFin
<1>2. KWork
  BY DEF KFin
<1>3. /\ KSeen(d) /\ SqOf(d)' = SqOf(d) /\ Len(CqOf(d)) < MaxCqes
      /\ \A any \in BOOLEAN : UNCHANGED <<C(d, any)!connVars, C(d, any)!coVars,
                                          C(d, any)!loopVars, SqOf(d)>>
  BY <1>2, KWorkSeen
<1> DEFINE e == Cqe("recv", c, "fin", FALSE, b)
<1>4. e \in CqeType /\ e.t = "recv" /\ e.c = c /\ ~e.more /\ e.k = "fin"
  <2>1. c \in Conns /\ b \in Buffers \cup {None}
    BY DEF Inv, TypeOK
  <2>2. e \in CqeType
    BY <2>1, CqeTypes
  <2> QED BY <2>2 DEF Cqe
<1>5. Post(e)
  BY <1>1
<1> HIDE DEF e
<1>6. /\ d # c => LiveIn(d)' = LiveIn(d) /\ CqOf(d)' = CqOf(d)
      /\ d = c => \A any \in BOOLEAN : C(d, any)!KEnd(e.k)
  BY <1>1, <1>4, <1>5, EndSeen
<1>7. ASSUME d # c PROVE View(d)
  BY <1>3, <1>6, <1>7, KStutter
<1>8. ASSUME d = c PROVE View(d)
  <2>1. ASSUME NEW any \in BOOLEAN PROVE C(d, any)!KFail
    BY <1>3, <1>4, <1>6, <1>8 DEF C!KFail
  <2> QED BY <2>1, StepSeen DEF C!Next, C!Kernel
<1> QED BY <1>7, <1>8

\* A recv delivers.
LEMMA KDataSeen ==
    ASSUME Inv, KData, NEW d \in Conns
    PROVE  View(d)
<1>1. PICK c \in krecv :
         \/ \E b \in kfree, more \in BOOLEAN :
               /\ Post(Cqe("recv", c, "data", more, b))
               /\ krecv' = IF more THEN krecv ELSE krecv \ {c}
         \/ /\ Post(Cqe("recv", c, "enobufs", FALSE, None))
            /\ krecv' = krecv \ {c}
  BY DEF KData
<1>2. KWork
  BY DEF KData
<1>3. /\ KSeen(d) /\ SqOf(d)' = SqOf(d) /\ Len(CqOf(d)) < MaxCqes
      /\ \A any \in BOOLEAN : UNCHANGED <<C(d, any)!connVars, C(d, any)!coVars,
                                          C(d, any)!loopVars, SqOf(d)>>
  BY <1>2, KWorkSeen
<1>4. PICK e \in CqeType : /\ Post(e) /\ e.t = "recv" /\ e.c = c
                           /\ krecv' = IF e.more THEN krecv ELSE krecv \ {c}
                           /\ e.k = "data" \/ (e.k = "enobufs" /\ ~e.more)
  <2>0. c \in Conns /\ kfree \subseteq Buffers
    BY DEF Inv, TypeOK
  <2>1. ASSUME NEW b \in kfree, NEW m \in BOOLEAN, Post(Cqe("recv", c, "data", m, b)),
               krecv' = IF m THEN krecv ELSE krecv \ {c}
        PROVE  \E e \in CqeType : /\ Post(e) /\ e.t = "recv" /\ e.c = c
                                  /\ krecv' = IF e.more THEN krecv ELSE krecv \ {c}
                                  /\ e.k = "data" \/ (e.k = "enobufs" /\ ~e.more)
    <3> DEFINE e == Cqe("recv", c, "data", m, b)
    <3>1. e \in CqeType
      BY <2>0, CqeTypes
    <3>2. e.t = "recv" /\ e.c = c /\ e.more = m /\ e.k = "data" /\ Post(e)
      BY <2>1 DEF Cqe
    <3> HIDE DEF e
    <3> QED BY <2>1, <3>1, <3>2
  <2>2. ASSUME Post(Cqe("recv", c, "enobufs", FALSE, None)), krecv' = krecv \ {c}
        PROVE  \E e \in CqeType : /\ Post(e) /\ e.t = "recv" /\ e.c = c
                                  /\ krecv' = IF e.more THEN krecv ELSE krecv \ {c}
                                  /\ e.k = "data" \/ (e.k = "enobufs" /\ ~e.more)
    <3> DEFINE e == Cqe("recv", c, "enobufs", FALSE, None)
    <3>1. e \in CqeType
      BY <2>0, CqeTypes
    <3>2. e.t = "recv" /\ e.c = c /\ e.more = FALSE /\ e.k = "enobufs" /\ Post(e)
      BY <2>2 DEF Cqe
    <3> HIDE DEF e
    <3> QED BY <2>2, <3>1, <3>2
  <2> QED BY <1>1, <2>1, <2>2
<1>5. CASE ~e.more
  <2>1. /\ d # c => LiveIn(d)' = LiveIn(d) /\ CqOf(d)' = CqOf(d)
        /\ d = c => \A any \in BOOLEAN : C(d, any)!KEnd(e.k)
    BY <1>4, <1>5, EndSeen
  <2>2. ASSUME d # c PROVE View(d)
    BY <1>3, <2>1, <2>2, KStutter
  <2>3. ASSUME d = c PROVE View(d)
    <3>1. ASSUME NEW any \in BOOLEAN PROVE C(d, any)!KData \/ C(d, any)!KFail
      <4>1. C(d, any)!KEnd(e.k) /\ (IF d \in krecv THEN 1 ELSE 0) > 0
        BY <2>1, <2>3
      <4>2. CASE e.k = "data"
        <5>1. C(d, any)!KEnd("data")
          BY <4>1, <4>2
        <5> QED BY <1>3, <4>1, <5>1 DEF C!KData
      <4>3. CASE e.k = "enobufs"
        <5>1. C(d, any)!KEnd("enobufs")
          BY <4>1, <4>3
        <5> QED BY <1>3, <4>1, <5>1 DEF C!KFail
      <4> QED BY <1>4, <4>2, <4>3
    <3> QED BY <3>1, StepSeen DEF C!Next, C!Kernel
  <2> QED BY <2>2, <2>3
<1>6. CASE e.more
  <2>1. krecv' = krecv /\ LiveIn(d)' = LiveIn(d) /\ e.k = "data" /\ e.more = TRUE
    BY <1>4, <1>6 DEF LiveIn, CqeType
  <2>2. /\ d = c => CqOf(d)' = Append(CqOf(d), Entry(e))
        /\ d # c => CqOf(d)' = CqOf(d)
    BY <1>4, PostSeen DEF CqMine
  <2>3. ASSUME d # c PROVE View(d)
    BY <1>3, <2>1, <2>2, <2>3, KStutter
  <2>4. ASSUME d = c PROVE View(d)
    <3>1. LiveIn(d) = 1
      BY <2>4 DEF LiveIn
    <3>2. CqOf(d)' = Append(CqOf(d), [k |-> "data", more |-> TRUE])
      BY <2>1, <2>2, <2>4 DEF Entry
    <3>3. ASSUME NEW any \in BOOLEAN PROVE C(d, any)!KData
      BY <1>3, <2>1, <3>1, <3>2 DEF C!KData, C!Cqe, LiveIn
    <3> QED BY <3>3, StepSeen DEF C!Next, C!Kernel
  <2> QED BY <2>3, <2>4
<1> QED BY <1>5, <1>6

\* The blanket cancel is taken: it ends the one recv of each connection.
LEMMA KBlanketSeen ==
    ASSUME Inv, KBlanket, NEW d \in Conns
    PROVE  View(d)
<1>1. KTake("blanket") /\ TypeOK /\ cq \in Seq(CqeType)
  BY DEF KBlanket, Inv, TypeOK
<1>2. /\ KSeen(d) /\ SqOf(d) # <<>> /\ Head(SqOf(d)) = "blanket" /\ SqOf(d)' = Tail(SqOf(d))
  <2>1. SqMine(Head(sq), d)
    BY <1>1, KTakeSeen DEF SqMine
  <2> QED BY <1>1, <2>1, KTakeSeen
<1>3. ASSUME NEW any \in BOOLEAN PROVE C(d, any)!KTake("blanket")
  BY <1>2 DEF KSeen, SameConn, C!KTake, C!connVars, C!coVars, C!loopVars, FrameOf, DrainNow
<1>4. CASE ~cfg.any
  <2>1. Post(Cqe("drain", None, "refused", FALSE, None)) /\ krecv' = krecv
    BY <1>4 DEF KBlanket
  <2>2. Cqe("drain", None, "refused", FALSE, None) \in CqeType
    BY CqeTypes
  <2>3. ~CqMine(Cqe("drain", None, "refused", FALSE, None), d)
    BY DEF CqMine, Cqe
  <2>4. CqOf(d)' = CqOf(d)
    BY <2>1, <2>2, <2>3, PostSeen
  <2>5. ASSUME NEW any \in BOOLEAN, cfg.any = any PROVE C(d, any)!KBlanket
    BY <1>3, <1>4, <2>1, <2>4, <2>5 DEF C!KBlanket, C!kVars
  <2> QED BY <2>5, StepSeen DEF C!Next, C!Kernel, C!KSubmit
<1>5. CASE cfg.any
  <2>1. PICK s \in SetToSeqs(Blanketed) :
           cq' = cq \o s \o <<Cqe("drain", None, "known", FALSE, None)>>
    BY <1>5 DEF KBlanket, Blanketed
  <2>2. krecv' = {}
    BY <1>5 DEF KBlanket
  <2> DEFINE e == Cqe("drain", None, "known", FALSE, None)
  <2>3. e \in CqeType /\ ~CqMine(e, d)
    <3>1. e \in CqeType
      BY CqeTypes
    <3> QED BY <3>1 DEF CqMine, Cqe
  <2>4. IsFiniteSet(Blanketed) /\ Blanketed \subseteq CqeType
    BY <1>1, BlanketIsFinite
  <2>5. s \in Seq(Blanketed) /\ Count(s, RecvEnds(d)) = Cardinality(Blanketed \cap RecvEnds(d))
    BY <2>4, CountListing
  <2>6. s \in Seq(CqeType)
    BY <2>4, <2>5
  <2> DEFINE q == cq \o s
  <2>7. cq' = Append(q, e) /\ q \in Seq(CqeType)
    <3>1. q \in Seq(CqeType)
      BY <1>1, <2>6, ConcatProperties
    <3> HIDE DEF e, q
    <3>2. q \o <<e>> = Append(q, e)
      BY <2>3, <3>1, AppendIsConcat
    <3>3. cq' = q \o <<e>>
      BY <2>1, Zenon DEF e, q
    <3> QED BY <3>1, <3>2, <3>3, Zenon
  <2> HIDE DEF e
  <2>8. CqOf(d)' = CqOf(d) \o OnCq(s, d) /\ CqOf(d) \in Seq(Entries)
    <3>1. OnCq(cq \o s, d) = OnCq(cq, d) \o OnCq(s, d) /\ OnCq(cq, d) \in Seq(Entries)
      BY <1>1, <2>6, OnCqCat, Zenon
    <3>2. OnCq(q, d) = OnCq(cq, d) \o OnCq(s, d)
      BY <3>1, Zenon
    <3> HIDE DEF q
    <3>3. OnCq(Append(q, e), d) = OnCq(q, d)
      BY <2>3, <2>7, OnCqAdd, Zenon
    <3> QED BY <2>7, <3>1, <3>2, <3>3, OfIs, Zenon
  <2>9. \A i \in 1..Len(s) : s[i] \in Blanketed /\ (CqMine(s[i], d) <=> s[i] \in RecvEnds(d))
    <3>1. \A i \in 1..Len(s) : s[i] \in Blanketed /\ s[i] \in CqeType
      BY <2>4, <2>5, ElementOfSeq
    <3>2. \A x \in Blanketed : x.t = "recv" => x \in RecvEnds(x.c)
      BY <1>1, BlanketOf
    <3> QED BY <3>1, <3>2 DEF CqMine, RecvEnds
  <2>10. Blanketed \cap RecvEnds(d) = IF d \in krecv THEN {Ended(d)} ELSE {}
    BY <1>1, BlanketOf
  <2>11. CASE d \notin krecv
    <3>1. OnCq(s, d) = <<>>
      <4>1. \A i \in 1..Len(s) : ~CqMine(s[i], d)
        BY <2>9, <2>10, <2>11
      <4> QED BY <2>6, <4>1, OnCqNone
    <3>2. CqOf(d)' = CqOf(d)
      <4>1. CqOf(d) \o <<>> = CqOf(d)
        BY <2>8, ConcatEmptySeq
      <4> QED BY <2>8, <3>1, <4>1, Zenon
    <3>4. ASSUME NEW any \in BOOLEAN, cfg.any = any PROVE C(d, any)!KBlanket
      <4>1. C(d, any)!KEnd("cancelled")
        BY <2>2, <2>11, <3>2, NoEnd
      <4> QED BY <1>3, <1>5, <3>4, <4>1 DEF C!KBlanket
    <3> QED BY <3>4, StepSeen DEF C!Next, C!Kernel, C!KSubmit
  <2>12. CASE d \in krecv
    <3>1. Count(s, RecvEnds(d)) = 1
      BY <2>5, <2>10, <2>12, FS_Singleton
    <3>2. PICK i \in 1..Len(s) : s[i] \in RecvEnds(d)
      BY <2>6, <3>1, CountZero
    <3>3. \A j \in 1..Len(s) : j # i => s[j] \notin RecvEnds(d)
      BY <2>6, <3>1, <3>2, CountedOnce
    <3>4. OnCq(s, d) = <<Entry(s[i])>>
      <4>1. CqMine(s[i], d) /\ \A j \in 1..Len(s) : j # i => ~CqMine(s[j], d)
        BY <2>9, <3>2, <3>3
      <4> QED BY <2>6, <4>1, OnCqOnly
    <3>5. Entry(s[i]) = [k |-> "cancelled", more |-> FALSE]
      <4>1. s[i] = Ended(d)
        BY <2>9, <2>10, <2>12, <3>2
      <4>2. Ended(d).k = "cancelled" /\ Ended(d).more = FALSE
        BY DEF Ended, Cqe
      <4> QED BY <4>1, <4>2 DEF Entry
    <3>6. CqOf(d)' = Append(CqOf(d), [k |-> "cancelled", more |-> FALSE])
      <4> DEFINE n == [k |-> "cancelled", more |-> FALSE]
      <4>0. n \in Entries
        BY DEF Entries
      <4>1. CqOf(d)' = CqOf(d) \o <<n>>
        BY <2>8, <3>4, <3>5, Zenon
      <4> HIDE DEF n
      <4>2. CqOf(d) \o <<n>> = Append(CqOf(d), n)
        BY <2>8, <4>0, AppendIsConcat
      <4> QED BY <4>1, <4>2, Zenon DEF n
    <3>7. LiveIn(d) = 1 /\ LiveIn(d)' = 0
      BY <2>2, <2>12 DEF LiveIn
    <3>8. ASSUME NEW any \in BOOLEAN, cfg.any = any PROVE C(d, any)!KBlanket
      BY <1>3, <1>5, <3>6, <3>7, <3>8 DEF C!KBlanket, C!KEnd, C!Cqe, C!kVars, LiveIn
    <3> QED BY <3>8, StepSeen DEF C!Next, C!Kernel, C!KSubmit
  <2> QED BY <2>11, <2>12
<1> QED BY <1>4, <1>5

-----------------------------------------------------------------------------
(* What the view needs is kept by every step.                              *)

\* A connection is pausing only inside recv_pause: a fact of Conn's steps.
LEMMA PausingStep ==
    ASSUME NEW d, NEW any \in BOOLEAN, C(d, any)!Next, PausingOk(d)
    PROVE  PausingOk(d)'
<1>1. CASE C(d, any)!Dispatch
  <2>1. CASE C(d, any)!OnNobufs
    BY <2>1 DEF C!OnNobufs, C!WakeReader, PausingOk
  <2>2. CASE C(d, any)!OnEnd
    BY <2>2 DEF C!OnEnd, C!WakeReader, PausingOk
  <2>3. CASE C(d, any)!OnData
    BY <2>3 DEF C!OnData, C!Overflow, C!WakeReader, PausingOk
  <2> QED BY <1>1, <2>1, <2>2, <2>3 DEF C!Dispatch
<1>2. CASE C(d, any)!Tails
  BY <1>2 DEF C!Tails, C!TailMore, C!TailLast, C!TailUnref, C!WakeReader, C!coVars, PausingOk
<1>3. CASE C(d, any)!Coroutine
  <2>1. CASE C(d, any)!RecvItem \/ C(d, any)!Await
    BY <2>1 DEF C!RecvItem, C!Await, C!connVars, PausingOk
  <2>2. CASE C(d, any)!Pause \/ C(d, any)!PauseLoop
    BY <2>2 DEF C!Pause, C!PauseLoop, C!PauseTail, PausingOk
  <2>3. CASE C(d, any)!Resume \/ C(d, any)!Close
    BY <2>3 DEF C!Resume, C!Close, PausingOk
  <2> QED BY <1>3, <2>1, <2>2, <2>3 DEF C!Coroutine
<1>4. CASE C(d, any)!Loop
  BY <1>4 DEF C!Loop, C!Accept, C!Start, C!Connect, C!Connected, C!Resumed, C!RearmStarved,
              C!ConnNew, C!connVars, C!coVars, PausingOk
<1>5. CASE C(d, any)!Shutdown
  BY <1>5 DEF C!Shutdown, C!BeginDrain, C!RecvDrain, C!EndSweep, C!DrainRefused, C!WakeReader,
              C!connVars, C!coVars, PausingOk
<1>6. CASE C(d, any)!Kernel
  BY <1>6 DEF C!Kernel, C!KSubmit, C!KRecv, C!KClose, C!KCancel, C!KBlanket, C!KTake, C!KData,
              C!KFail, C!connVars, C!coVars, PausingOk
<1> QED BY <1>1, <1>2, <1>3, <1>4, <1>5, <1>6 DEF C!Next

\* ... and so of the worker's.
LEMMA PausingKept ==
    ASSUME NEW d, View(d), cfg.any \in BOOLEAN, PausingOk(d)
    PROVE  PausingOk(d)'
<1>0. PICK any \in BOOLEAN : cfg.any = any
  OBVIOUS
<1>1. [C(d, any)!Next]_(C(d, any)!vars)
  BY <1>0 DEF View
<1>2. CASE C(d, any)!Next
  BY <1>2, PausingStep
<1>3. CASE UNCHANGED C(d, any)!vars
  BY <1>3 DEF C!vars, C!connVars, C!coVars, PausingOk
<1> QED BY <1>1, <1>2, <1>3

-----------------------------------------------------------------------------
(* The blanket cancel.                                                     *)

\* No blanket cancel is staged, and no answer to one is posted.
SqLess == Count(sq', Blankets) <= Count(sq, Blankets)
CqLess == /\ Count(cq', Drains) <= Count(cq, Drains)
          /\ Count(cq', Refusals) <= Count(cq, Refusals)

\* The counts are numbers.
LEMMA CountsNat ==
    ASSUME TypeOK, TypeOK'
    PROVE  /\ \A S : Count(sq, S) \in Nat /\ Count(cq, S) \in Nat
           /\ \A S : Count(sq', S) \in Nat /\ Count(cq', S) \in Nat
BY CountNat DEF TypeOK

\* Nothing is staged.
LEMMA SqLessSame ==
    ASSUME TypeOK, sq' = sq
    PROVE  SqLess
<1>1. Count(sq, Blankets) \in Nat
  BY CountNat DEF TypeOK
<1> QED BY <1>1 DEF SqLess

\* Nothing is posted.
LEMMA CqLessSame ==
    ASSUME TypeOK, cq' = cq
    PROVE  CqLess
<1>1. Count(cq, Drains) \in Nat /\ Count(cq, Refusals) \in Nat
  BY CountNat DEF TypeOK
<1> QED BY <1>1 DEF CqLess

\* Other SQEs are staged.
LEMMA SqLessCat ==
    ASSUME TypeOK, NEW w \in Seq(SqeType), \A i \in 1..Len(w) : w[i].op # "blanket", sq' = sq \o w
    PROVE  SqLess
<1>1. Count(sq', Blankets) = Count(sq, Blankets) + Count(w, Blankets)
  BY Staged
<1>2. \A i \in 1..Len(w) : w[i] \notin Blankets
  BY DEF Blankets, Sqe
<1>3. Count(w, Blankets) = 0
  BY <1>2, CountZero
<1>4. Count(sq, Blankets) \in Nat
  BY CountNat DEF TypeOK
<1> QED BY <1>1, <1>3, <1>4 DEF SqLess

\* Another SQE is staged.
LEMMA SqLessAdd ==
    ASSUME TypeOK, NEW e \in SqeType, e.op # "blanket", sq' = Append(sq, e)
    PROVE  SqLess
<1>1. sq' = sq \o <<e>> /\ <<e>> \in Seq(SqeType)
  BY AppendCat
<1>2. \A i \in 1..Len(<<e>>) : <<e>>[i].op # "blanket"
  OBVIOUS
<1> QED BY <1>1, <1>2, SqLessCat

\* Cancels and closes are staged.
LEMMA SqLessQuiet ==
    ASSUME TypeOK, NEW w, Quiet(w), sq' = sq \o w
    PROVE  SqLess
BY SqLessCat DEF Quiet

\* The kernel takes one.
LEMMA SqLessTaken ==
    ASSUME TypeOK, NEW op, KTake(op)
    PROVE  /\ SqLess
           /\ op = "blanket" => Count(sq, Blankets) = 1 + Count(sq', Blankets)
<1>1. /\ sq # <<>> /\ sq' = Tail(sq) /\ Head(sq).op = op
  BY DEF KTake
<1>2. /\ Head(sq) \in SqeType /\ sq' \in Seq(SqeType)
      /\ Count(sq, Blankets) = One(Head(sq) \in Blankets) + Count(sq', Blankets)
  BY <1>1, SqTaken
<1>3. Count(sq', Blankets) \in Nat
  BY <1>2, CountNat
<1>4. op = "blanket" => Head(sq) \in Blankets
  BY <1>1, <1>2 DEF Blankets, SqeType, Sqe
<1> QED BY <1>2, <1>3, <1>4 DEF SqLess, One

\* The loop takes a CQE.
LEMMA CqLessTaken ==
    ASSUME TypeOK, NEW t, NEW ks, Taking(t, ks)
    PROVE  CqLess
<1>1. cq \in Seq(CqeType) /\ cq # <<>> /\ cq' = Tail(cq)
  BY DEF Taking, TypeOK
<1>2. \A S : Tail(cq) \in Seq(CqeType) /\ Count(cq, S) = One(Head(cq) \in S) + Count(Tail(cq), S)
  BY <1>1, CountTail
<1>3. \A S : Count(Tail(cq), S) \in Nat
  BY <1>2, CountNat
<1>4. \A S : Count(cq', S) <= Count(cq, S)
  BY <1>1, <1>2, <1>3 DEF One
<1> QED BY <1>4 DEF CqLess

\* The kernel posts another CQE.
LEMMA CqLessPosted ==
    ASSUME TypeOK, NEW e \in CqeType, e.t # "drain", Post(e)
    PROVE  CqLess
<1>1. cq \in Seq(CqeType) /\ cq' = Append(cq, e)
  BY DEF Post, TypeOK
<1>2. \A S : Count(Append(cq, e), S) = Count(cq, S) + One(e \in S)
  BY <1>1, CountAppend
<1>3. Count(cq, Drains) \in Nat /\ Count(cq, Refusals) \in Nat
  BY <1>1, CountNat
<1>4. e \notin Drains /\ e \notin Refusals
  BY DEF Drains, Refusals
<1> QED BY <1>1, <1>2, <1>3, <1>4 DEF CqLess, One

\* Nothing else of it moves.
LEMMA DrainKept ==
    ASSUME TypeOK, TypeOK', DrainOk, SqLess, CqLess, draining' = draining, cfg' = cfg,
           canceleach' \in BOOLEAN, pc' = pc \/ pc' # "sweep"
    PROVE  DrainOk'
<1>1. Count(sq', Blankets) + Count(cq', Drains) <= One(draining)
  <2>1. One(draining) \in Nat
    BY DEF One
  <2> QED BY <2>1, CountsNat DEF DrainOk, SqLess, CqLess
<1>2. cfg'.any => Count(cq', Refusals) = 0
  BY CountsNat DEF DrainOk, CqLess
<1>3. (pc' = "sweep" => draining') /\ One(draining') = One(draining)
  BY DEF DrainOk, One
<1> QED BY <1>1, <1>2, <1>3 DEF DrainOk

\* Coroutines stage none.
LEMMA CoDrain ==
    ASSUME Inv, TypeOK', DrainOk, cfg' = cfg, NEW c \in Conns, Coroutine(c)
    PROVE  DrainOk'
<1> DEFINE x == conn[c]
<1>1. TypeOK
  BY DEF Inv
<1>2. UNCHANGED <<loopVars, cq>>
  BY DEF Coroutine, RecvItem, GiveBack, Await, Pause, Resume, Close
<1>3. /\ Quiet(CancelSqe(c, x)) /\ Quiet(<<Sqe("close", c)>>)
      /\ Quiet(CancelSqe(c, x) \o <<Sqe("close", c)>>)
  BY QuietCancel, QuietOne, QuietCat
<1>4. /\ Sqe("recv", c) \in SqeType /\ Sqe("recv", c).op # "blanket"
      /\ Sqe("op", c) \in SqeType /\ Sqe("op", c).op # "blanket"
      /\ Sqe("close", c) \in SqeType /\ Sqe("close", c).op # "blanket"
  BY DEF Sqe, SqeType
<1>5. SqLess
  <2>1. CASE RecvItem(c) \/ GiveBack(c)
    <3>1. sq' = sq
      BY <2>1 DEF RecvItem, GiveBack
    <3> QED BY <1>1, <3>1, SqLessSame
  <2>2. CASE Await(c)
    <3>1. sq' = Append(sq, Sqe("op", c))
      BY <2>2 DEF Await
    <3> QED BY <1>1, <1>4, <3>1, SqLessAdd
  <2>3. CASE Pause(c)
    <3>1. sq' = sq \/ sq' = sq \o CancelSqe(c, x)
      BY <2>3 DEF Pause
    <3> QED BY <1>1, <1>3, <3>1, SqLessSame, SqLessQuiet
  <2>4. CASE Resume(c)
    <3>1. sq' = sq \/ sq' = Append(sq, Sqe("recv", c))
      BY <2>4 DEF Resume
    <3> QED BY <1>1, <1>4, <3>1, SqLessSame, SqLessAdd
  <2>5. CASE Close(c)
    <3>1. sq' = sq \o CancelSqe(c, x) \o <<Sqe("close", c)>> \/ sq' = Append(sq, Sqe("close", c))
      BY <2>5 DEF Close
    <3>2. CASE sq' = Append(sq, Sqe("close", c))
      BY <1>1, <1>4, <3>2, SqLessAdd
    <3>3. CASE sq' = sq \o CancelSqe(c, x) \o <<Sqe("close", c)>>
      <4> DEFINE v == CancelSqe(c, x)
                 w == <<Sqe("close", c)>>
      <4>1. sq \in Seq(SqeType) /\ v \in Seq(SqeType) /\ w \in Seq(SqeType) /\ Quiet(v \o w)
        BY <1>1, <1>3 DEF TypeOK, Quiet
      <4>2. sq' = (sq \o v) \o w
        BY <3>3
      <4> HIDE DEF v, w
      <4>3. sq' = sq \o (v \o w)
        BY <4>1, <4>2, ConcatAssociative
      <4> QED BY <1>1, <4>1, <4>3, SqLessQuiet
    <3> QED BY <3>1, <3>2, <3>3
  <2> QED BY <2>1, <2>2, <2>3, <2>4, <2>5 DEF Coroutine
<1>6. CqLess
  BY <1>1, <1>2, CqLessSame
<1> QED BY <1>1, <1>2, <1>5, <1>6, DrainKept DEF loopVars, DrainOk

\* The accept alone is staged behind what on_accept stages.
LEMMA SqLessArmed ==
    ASSUME TypeOK, NEW n, NEW e \in SqeType, e.op # "blanket",
           \/ AcceptEnd(n, sq) \/ AcceptEnd(n, Append(sq, e))
           \/ ArmAccept(n, sq) \/ ArmAccept(n, Append(sq, e))
    PROVE  SqLess
<1> DEFINE a == Sqe("accept", None)
<1>1. \E s \in {sq, Append(sq, e)} : sq' = s \/ sq' = Append(s, a)
  BY DEF AcceptEnd, ArmAccept
<1>2. a \in SqeType /\ a.op # "blanket"
  BY DEF Sqe, SqeType
<1> HIDE DEF a
<1>3. CASE sq' = sq
  BY <1>3, SqLessSame
<1>4. CASE sq' = Append(sq, e)
  BY <1>4, SqLessAdd
<1>5. CASE sq' = Append(sq, a)
  BY <1>2, <1>5, SqLessAdd
<1>6. CASE sq' = Append(Append(sq, e), a)
  <2>1. sq \in Seq(SqeType)
    BY DEF TypeOK
  <2>2. /\ Append(Append(sq, e), a) = sq \o <<e, a>> /\ <<e, a>> \in Seq(SqeType)
        /\ \A i \in 1..Len(<<e, a>>) : <<e, a>>[i].op # "blanket"
    BY <1>2, <2>1
  <2> QED BY <1>6, <2>2, SqLessCat
<1> QED BY <1>1, <1>3, <1>4, <1>5, <1>6

\* Nor does the dispatch.
LEMMA DispatchDrain ==
    ASSUME Inv, TypeOK', DrainOk, cfg' = cfg, Dispatch
    PROVE  DrainOk'
<1>1. TypeOK
  BY DEF Inv
<1>2. \E t, ks : Taking(t, ks)
  BY DEF Dispatch, OnNobufs, OnEnd, OnData, OnOp, OnDrain, OnAccept, OnAcceptLate, OnAcceptError
<1>3. CqLess
  BY <1>1, <1>2, CqLessTaken
<1>4. UNCHANGED <<pc, draining>>
  BY DEF Dispatch, OnNobufs, OnEnd, OnData, OnOp, OnDrain, OnAccept, OnAcceptLate, OnAcceptError,
         loopVars
<1>5. canceleach' \in BOOLEAN
  <2>1. CASE OnDrain
    BY <2>1 DEF OnDrain, DrainOk
  <2>2. CASE ~OnDrain
    BY <2>2 DEF Dispatch, OnNobufs, OnEnd, OnData, OnOp, OnAccept, OnAcceptLate, OnAcceptError,
                loopVars, DrainOk
  <2> QED BY <2>1, <2>2
<1>6. SqLess
  <2>1. CASE OnNobufs \/ OnEnd \/ OnOp \/ OnDrain
    <3>1. sq' = sq
      BY <2>1 DEF OnNobufs, OnEnd, OnOp, OnDrain
    <3> QED BY <1>1, <3>1, SqLessSame
  <2>2. CASE OnData
    <3>1. Head(cq).c \in Conns
      <4>1. Taking("recv", {"data"})
        BY <2>2 DEF OnData
      <4>2. cq \in Seq(CqeType) /\ cq # <<>> /\ Head(cq).t = "recv"
        BY <1>1, <4>1 DEF Taking, TypeOK
      <4>3. Head(cq) \in CqeType
        BY <4>2
      <4> QED BY <4>2, <4>3 DEF CqeType
    <3>2. sq' = sq \/ sq' = sq \o CancelSqe(Head(cq).c, Seen)
      BY <2>2 DEF OnData
    <3>3. Quiet(CancelSqe(Head(cq).c, Seen))
      BY <3>1, QuietCancel
    <3> QED BY <1>1, <3>2, <3>3, SqLessSame, SqLessQuiet
  <2>3. CASE OnAccept
    <3>1. PICK c \in cfg.conns : AcceptEnd(live + 1, Append(sq, Sqe("recv", c)))
      BY <2>3 DEF OnAccept
    <3>2. c \in Conns
      BY <1>1, WorkerAssumption DEF TypeOK, Setup
    <3>3. Sqe("recv", c) \in SqeType /\ Sqe("recv", c).op # "blanket"
      BY <3>2 DEF Sqe, SqeType
    <3> QED BY <1>1, <3>1, <3>3, SqLessArmed
  <2>4. CASE OnAcceptLate \/ OnAcceptError
    <3>1. AcceptEnd(live, Append(sq, Sqe("close", None))) \/ AcceptEnd(live, sq)
      BY <2>4 DEF OnAcceptLate, OnAcceptError
    <3>2. Sqe("close", None) \in SqeType /\ Sqe("close", None).op # "blanket"
      BY DEF Sqe, SqeType
    <3> QED BY <1>1, <3>1, <3>2, SqLessArmed
  <2> QED BY <2>1, <2>2, <2>3, <2>4 DEF Dispatch
<1> QED BY <1>1, <1>3, <1>4, <1>5, <1>6, DrainKept

\* Nor the rest of on_recv.
LEMMA TailsDrain ==
    ASSUME Inv, TypeOK', DrainOk, cfg' = cfg, Tails
    PROVE  DrainOk'
<1>1. TypeOK
  BY DEF Inv
<1>2. PICK k \in {"more", "last", "unref"} : Tailing(k)
  BY DEF Tails, TailMore, TailLast, TailUnref
<1>3. UNCHANGED <<loopVars, cq>>
  BY <1>2 DEF Tailing
<1>4. PICK c \in Conns : c = frame.c
  BY <1>1, <1>2 DEF Tailing, TypeOK, FrameType
<1>5. \/ sq' = sq \/ sq' = sq \o CancelSqe(c, conn[c]) \/ sq' = Append(sq, Sqe("recv", c))
  BY <1>4 DEF Tails, TailMore, TailLast, TailUnref
<1>6. Sqe("recv", c) \in SqeType /\ Sqe("recv", c).op # "blanket" /\ Quiet(CancelSqe(c, conn[c]))
  BY QuietCancel DEF Sqe, SqeType
<1>7. SqLess
  BY <1>1, <1>5, <1>6, SqLessSame, SqLessAdd, SqLessQuiet
<1>8. CqLess
  BY <1>1, <1>3, CqLessSame
<1> QED BY <1>1, <1>3, <1>7, <1>8, DrainKept DEF loopVars, DrainOk

\* begin_drain stages the only one.
LEMMA BeginDrainDrain ==
    ASSUME Inv, DrainOk, cfg' = cfg, BeginDrain
    PROVE  DrainOk'
<1> DEFINE a == IF listener.stalled THEN <<>> ELSE <<Sqe("cancelaccept", None)>>
           b == <<Sqe("blanket", None)>>
<1>1. TypeOK /\ sq \in Seq(SqeType) /\ cq \in Seq(CqeType)
  BY DEF Inv, TypeOK
<1>2. /\ sq' = (sq \o a) \o b /\ cq' = cq /\ ~draining /\ draining' = TRUE
      /\ canceleach' = canceleach
  BY DEF BeginDrain
<1>3. /\ Sqe("cancelaccept", None) \in SqeType /\ Sqe("cancelaccept", None) \notin Blankets
      /\ Sqe("blanket", None) \in SqeType /\ Sqe("blanket", None) \in Blankets
  BY DEF Sqe, SqeType, Blankets
<1>4. a \in Seq(SqeType) /\ Count(a, Blankets) = 0
  BY <1>3, CountOne, CountEmpty DEF One
<1>5. b \in Seq(SqeType) /\ Count(b, Blankets) = 1
  BY <1>3, CountOne DEF One
<1> HIDE DEF a, b
<1>6. sq \o a \in Seq(SqeType) /\ Count(sq \o a, Blankets) = Count(sq, Blankets) + Count(a, Blankets)
  BY <1>1, <1>4, CountCat
<1>7. Count(sq', Blankets) = Count(sq \o a, Blankets) + Count(b, Blankets)
  <2>1. PICK q \in Seq(SqeType) : q = sq \o a
    BY <1>6
  <2>2. Count(q \o b, Blankets) = Count(q, Blankets) + Count(b, Blankets)
    BY <1>5, CountCat
  <2> QED BY <1>2, <2>1, <2>2, Zenon
<1>8. Count(sq, Blankets) \in Nat /\ Count(cq, Drains) \in Nat
  BY <1>1, CountNat
<1>9. Count(sq, Blankets) = 0 /\ Count(cq, Drains) = 0
  BY <1>2, <1>8 DEF DrainOk, One
<1> QED BY <1>2, <1>4, <1>5, <1>6, <1>7, <1>9 DEF DrainOk, One

\* The rest of the loop stages none.
LEMMA LoopDrain ==
    ASSUME Inv, TypeOK', DrainOk, cfg' = cfg, Loop \/ Stop \/ Deadline
    PROVE  DrainOk'
<1>1. TypeOK
  BY DEF Inv
<1>2. CASE BeginDrain
  BY <1>2, BeginDrainDrain
<1>3. ASSUME ~BeginDrain
      PROVE  /\ UNCHANGED <<cq, draining, canceleach>>
             /\ pc' = pc \/ pc' # "sweep"
  BY <1>3 DEF Loop, Sweep, Check, RunReady, RearmStarved, Reap, Fail, EndBatch, Flush, Flushed,
              Stop, Deadline, Goto, loopVars
<1>4. CASE EndBatch
  <2>1. sq' = sq \/ ArmAccept(live, sq)
    BY <1>4 DEF EndBatch
  <2>2. Sqe("accept", None) \in SqeType /\ Sqe("accept", None).op # "blanket"
    BY DEF Sqe, SqeType
  <2>3. SqLess
    BY <1>1, <2>1, <2>2, SqLessSame, SqLessArmed
  <2>4. UNCHANGED <<cq, draining, canceleach>> /\ pc' # "sweep"
    BY <1>4 DEF EndBatch, Goto
  <2> QED BY <1>1, <2>3, <2>4, CqLessSame, DrainKept DEF DrainOk
<1>5. CASE RearmStarved
  <2>1. PICK n : n = IF returned < Len(starved) THEN returned ELSE Len(starved)
    OBVIOUS
  <2> DEFINE now == SubSeq(starved, 1, n)
             w == [i \in 1..n |-> Sqe("recv", now[i])]
  <2>2. sq' = sq \o w
    BY <1>5, <2>1 DEF RearmStarved
  <2>3. n \in Nat /\ n <= Len(starved) /\ starved \in Seq(Conns)
    BY <1>1, <2>1, LenProperties DEF TypeOK
  <2>4. \A i \in 1..n : now[i] \in Conns
    BY <2>3
  <2>5. \A i \in 1..n : w[i] \in SqeType /\ w[i].op # "blanket"
    BY <2>4 DEF Sqe, SqeType
  <2>6. w \in Seq(SqeType) /\ Len(w) = n
    BY <2>3, <2>5
  <2> HIDE DEF w
  <2>7. SqLess
    BY <1>1, <2>2, <2>5, <2>6, SqLessCat
  <2>8. UNCHANGED <<cq, draining, canceleach>> /\ pc' # "sweep"
    BY <1>5 DEF RearmStarved, Goto
  <2> QED BY <1>1, <2>7, <2>8, CqLessSame, DrainKept DEF DrainOk
<1>6. CASE ~BeginDrain /\ ~EndBatch /\ ~RearmStarved
  <2>1. sq' = sq
    BY <1>6 DEF Loop, Sweep, Check, RunReady, Reap, Fail, Flush, Flushed, Stop, Deadline
  <2> QED BY <1>1, <1>3, <1>6, <2>1, SqLessSame, CqLessSame, DrainKept DEF DrainOk
<1> QED BY <1>2, <1>4, <1>5, <1>6

\* The kernel answers it once, and refuses it only when it does not know it.
LEMMA KBlanketDrain ==
    ASSUME Inv, DrainOk, cfg' = cfg, KBlanket
    PROVE  DrainOk'
<1>1. TypeOK /\ cq \in Seq(CqeType) /\ KTake("blanket") /\ cfg \in Setups
  BY DEF Inv, TypeOK, KBlanket
<1>2. UNCHANGED <<pc, draining, canceleach>>
  BY <1>1 DEF KTake, KFrame, loopVars
<1>3. Count(sq, Blankets) = 1 + Count(sq', Blankets) /\ Count(sq', Blankets) \in Nat
  <2>1. sq' \in Seq(SqeType)
    BY <1>1, SqTaken DEF KTake
  <2> QED BY <1>1, <2>1, SqLessTaken, CountNat
<1>4. Count(cq, Drains) \in Nat /\ Count(cq, Refusals) \in Nat
  BY <1>1, CountNat
<1>5. CASE ~cfg.any
  <2> DEFINE e == Cqe("drain", None, "refused", FALSE, None)
  <2>1. cq' = Append(cq, e)
    BY <1>5 DEF KBlanket, Post
  <2>2. e \in CqeType
    BY CqeTypes
  <2> HIDE DEF e
  <2>3. Count(cq', Drains) = Count(cq, Drains) + One(e \in Drains)
    <3>1. Count(Append(cq, e), Drains) = Count(cq, Drains) + One(e \in Drains)
      BY <1>1, <2>2, CountAppend
    <3> QED BY <2>1, <3>1, Zenon
  <2>4. Count(sq', Blankets) + Count(cq', Drains) <= One(draining)
    <3>1. One(e \in Drains) \in 0..1 /\ One(draining) \in 0..1
      BY DEF One
    <3> QED BY <1>3, <1>4, <2>3, <3>1 DEF DrainOk
  <2> QED BY <1>2, <1>5, <2>4 DEF DrainOk
<1>6. CASE cfg.any
  <2> DEFINE e == Cqe("drain", None, "known", FALSE, None)
  <2>1. PICK s \in SetToSeqs(Blanketed) : cq' = cq \o s \o <<e>>
    BY <1>6 DEF KBlanket, Blanketed
  <2>2. e \in CqeType /\ e \notin Refusals
    <3>1. e \in CqeType
      BY CqeTypes
    <3> QED BY <3>1 DEF Refusals, Cqe
  <2> HIDE DEF e
  <2>3. IsFiniteSet(Blanketed) /\ Blanketed \subseteq CqeType
    BY <1>1, BlanketIsFinite
  <2>4. s \in Seq(Blanketed)
    BY <2>3, CountListing
  <2>5. s \in Seq(CqeType)
    BY <2>3, <2>4
  <2>6. \A x \in Blanketed : x.t # "drain"
    <3>1. /\ \A c : Ended(c).t # "drain" /\ OpEnded(c).t # "drain"
          /\ AcceptEnds("cancelled").t # "drain"
      BY DEF Ended, OpEnded, AcceptEnds, Cqe
    <3>2. \A x \in Blanketed : \/ \E c : x = Ended(c) \/ x = OpEnded(c)
                              \/ x = AcceptEnds("cancelled")
      BY DEF Blanketed, OpEnded
    <3> QED BY <3>1, <3>2
  <2>7. \A i \in 1..Len(s) : s[i] \notin Drains /\ s[i] \notin Refusals
    <3>1. \A i \in 1..Len(s) : s[i] \in Blanketed
      BY <2>4, ElementOfSeq
    <3> QED BY <2>6, <3>1 DEF Drains, Refusals
  <2>8. Count(s, Drains) = 0 /\ Count(s, Refusals) = 0
    BY <2>5, <2>7, CountZero
  <2>9. ASSUME NEW S PROVE Count(cq', S) = Count(cq, S) + Count(s, S) + One(e \in S)
    <3> DEFINE q == cq \o s
    <3>1. q \in Seq(CqeType) /\ Count(q, S) = Count(cq, S) + Count(s, S)
      BY <1>1, <2>5, CountCat
    <3>2. cq' = q \o <<e>>
      BY <2>1, Zenon
    <3> HIDE DEF q
    <3>3. <<e>> \in Seq(CqeType) /\ Count(<<e>>, S) = One(e \in S)
      BY <2>2, CountOne
    <3>4. PICK w \in Seq(CqeType) : w = <<e>>
      BY <3>3
    <3>5. Count(q \o w, S) = Count(q, S) + Count(w, S)
      BY <3>1, CountCat
    <3> QED BY <3>1, <3>2, <3>3, <3>4, <3>5, Zenon
  <2>10. Count(cq', Drains) = Count(cq, Drains) + One(e \in Drains)
    BY <1>4, <2>8, <2>9
  <2>11. Count(cq', Refusals) = 0
    <3>1. One(e \in Refusals) = 0
      BY <2>2 DEF One
    <3>2. Count(cq, Refusals) = 0
      BY <1>6 DEF DrainOk
    <3> QED BY <2>8, <2>9, <3>1, <3>2
  <2>12. Count(sq', Blankets) + Count(cq', Drains) <= One(draining)
    <3>1. One(e \in Drains) \in 0..1 /\ One(draining) \in 0..1
      BY DEF One
    <3> QED BY <1>3, <1>4, <2>10, <3>1 DEF DrainOk
  <2> QED BY <1>2, <2>11, <2>12 DEF DrainOk
<1> QED BY <1>5, <1>6

\* Nothing else the kernel does is about it.
LEMMA KernelDrain ==
    ASSUME Inv, TypeOK', DrainOk, cfg' = cfg, Kernel
    PROVE  DrainOk'
<1>1. TypeOK /\ krecv \subseteq Conns /\ kop \subseteq Conns /\ kfree \subseteq Buffers
  BY DEF Inv, TypeOK
<1>2. CASE KBlanket
  BY <1>2, KBlanketDrain
<1>3. CASE ~KBlanket
  <2>1. UNCHANGED <<pc, draining, canceleach>>
    BY <1>3 DEF Kernel, KSubmit, KRecv, KCancel, KClose, KOp, KAccept, KCancelAccept, KData, KFin,
                KOpDone, KAccepts, KTake, KWork, KFrame, loopVars
  <2>2. SqLess
    <3>1. (\E op : KTake(op)) \/ sq' = sq
      BY <1>3 DEF Kernel, KSubmit, KRecv, KCancel, KClose, KOp, KAccept, KCancelAccept, KData, KFin,
                  KOpDone, KAccepts, KWork
    <3> QED BY <1>1, <3>1, SqLessTaken, SqLessSame
  <2>3. CqLess
    <3>1. CASE KRecv \/ KCancel
      <4>1. PICK op \in {"recv", "cancel"} : KTake(op)
        BY <3>1 DEF KRecv, KCancel
      <4>2. Head(sq) \in SqeType /\ Head(sq).op = op
        BY <1>1, <4>1, SqTaken DEF KTake
      <4>3. PICK c \in Conns : c = Head(sq).c
        BY <4>2 DEF SqeType
      <4>4. cq' = cq \/ Post(Cqe("recv", c, "enobufs", FALSE, None)) \/ Post(Ended(c))
        BY <3>1, <4>3 DEF KRecv, KCancel
      <4>5. /\ Cqe("recv", c, "enobufs", FALSE, None) \in CqeType /\ Ended(c) \in CqeType
        BY CqeTypes
      <4>6. Cqe("recv", c, "enobufs", FALSE, None).t # "drain" /\ Ended(c).t # "drain"
        BY DEF Ended, Cqe
      <4> QED BY <1>1, <4>4, <4>5, <4>6, CqLessSame, CqLessPosted
    <3>2. CASE KClose \/ KOp \/ KAccept
      <4>1. cq' = cq
        BY <3>2 DEF KClose, KOp, KAccept
      <4> QED BY <1>1, <4>1, CqLessSame
    <3>3. CASE KCancelAccept \/ KAccepts
      <4>1. \/ cq' = cq \/ \E k \in {"cancelled", "failed", "exhausted"} : Post(AcceptEnds(k))
            \/ \E m \in BOOLEAN : Post(Cqe("accept", None, "ok", m, None))
        BY <3>3 DEF KCancelAccept, KAccepts
      <4>2. /\ \A k : AcceptEnds(k).t # "drain"
            /\ \A m : Cqe("accept", None, "ok", m, None).t # "drain"
        BY DEF AcceptEnds, Cqe
      <4>3. /\ \A k \in {"cancelled", "failed", "exhausted"} : AcceptEnds(k) \in CqeType
            /\ \A m \in BOOLEAN : Cqe("accept", None, "ok", m, None) \in CqeType
        BY CqeTypes
      <4> QED BY <1>1, <4>1, <4>2, <4>3, CqLessSame, CqLessPosted
    <3>4. CASE KData \/ KFin
      <4>1. \E c \in Conns : \/ \E b \in Buffers, m \in BOOLEAN : Post(Cqe("recv", c, "data", m, b))
                             \/ Post(Cqe("recv", c, "enobufs", FALSE, None))
                             \/ \E b \in Buffers \cup {None} : Post(Cqe("recv", c, "fin", FALSE, b))
        BY <1>1, <3>4 DEF KData, KFin
      <4>2. \A c, k, m, b : Cqe("recv", c, k, m, b).t # "drain"
        BY DEF Cqe
      <4>3. \A c \in Conns : /\ Cqe("recv", c, "enobufs", FALSE, None) \in CqeType
                             /\ \A b \in Buffers \cup {None} : Cqe("recv", c, "fin", FALSE, b) \in CqeType
                             /\ \A b \in Buffers, m \in BOOLEAN : Cqe("recv", c, "data", m, b) \in CqeType
        BY CqeTypes
      <4> HIDE DEF Cqe
      <4> QED BY <1>1, <4>1, <4>2, <4>3, CqLessPosted
    <3>5. CASE KOpDone
      <4>1. PICK c \in Conns : Post(OpEnded(c))
        BY <1>1, <3>5 DEF KOpDone, OpEnded
      <4>2. OpEnded(c) \in CqeType /\ OpEnded(c).t # "drain"
        BY CqeTypes DEF OpEnded, Cqe
      <4> QED BY <1>1, <4>1, <4>2, CqLessPosted
    <3> QED BY <1>3, <3>1, <3>2, <3>3, <3>4, <3>5 DEF Kernel, KSubmit
  <2> QED BY <1>1, <2>1, <2>2, <2>3, DrainKept DEF DrainOk
<1> QED BY <1>2, <1>3

-----------------------------------------------------------------------------
(* The refinement.                                                         *)

\* Inv, and what else a connection's steps in Conn depend on.
RInv == Inv /\ DrainOk /\ \A c \in Conns : PausingOk(c)

\* Every step of the worker is a step of each connection, or none.
LEMMA NextSeen ==
    ASSUME RInv, [Next]_allVars, NEW d \in Conns
    PROVE  View(d)
<1>1. Inv /\ DrainOk /\ \A c \in Conns : PausingOk(c)
  BY DEF RInv
<1>2. CASE UNCHANGED allVars
  BY <1>2, LoopOnlySeen DEF allVars, vars, loopVars, kVars, DrainNow
<1>3. CASE Next
  <2>1. ASSUME NEW c \in Conns, Coroutine(c) PROVE View(d)
    BY <1>1, <2>1, RecvItemSeen, GiveBackSeen, AwaitSeen, PauseSeen, ResumeSeen, CloseSeen DEF Coroutine
  <2>2. CASE Dispatch
    BY <1>1, <2>2, OnNobufsSeen, OnEndSeen, OnDataSeen, OnOpSeen, OnDrainSeen, OnAcceptSeen,
       OnAcceptLateSeen DEF Dispatch
  <2>3. CASE Tails
    BY <1>1, <2>3, TailMoreSeen, TailLastSeen, TailUnrefSeen DEF Tails
  <2>4. CASE Loop
    BY <1>1, <2>4, BeginDrainSeen, SweepSeen, CheckSeen, RunReadySeen, RearmStarvedSeen, PlainSeen,
       EndBatchSeen DEF Loop
  <2>5. CASE Kernel
    BY <1>1, <2>5, KRecvSeen, KCancelSeen, KCloseSeen, KOtherSeen, KBlanketSeen, KDataSeen,
       KFinSeen, KOtherWorkSeen DEF Kernel, KSubmit
  <2>6. CASE Stop \/ Deadline
    BY <2>6, PlainSeen
  <2> QED BY <1>3, <2>1, <2>2, <2>3, <2>4, <2>5, <2>6 DEF Next
<1> QED BY <1>2, <1>3

\* ... and keeps what that depends on.
LEMMA NextDrain ==
    ASSUME Inv, DrainOk, [Next]_allVars
    PROVE  DrainOk'
<1>1. TypeOK /\ TypeOK'
  BY NextInv DEF Inv
<1>2. CASE UNCHANGED allVars
  BY <1>2 DEF allVars, vars, loopVars, DrainOk
<1>3. CASE Next
  BY <1>1, <1>3, CoDrain, DispatchDrain, TailsDrain, LoopDrain, KernelDrain DEF Next
<1> QED BY <1>2, <1>3

\* The whole is inductive.
LEMMA NextRInv == RInv /\ [Next]_allVars => RInv'
<1> SUFFICES ASSUME RInv, [Next]_allVars PROVE RInv'
  OBVIOUS
<1>1. Inv' /\ DrainOk'
  BY NextInv, NextDrain DEF RInv
<1>2. cfg.any \in BOOLEAN
  BY WorkerAssumption DEF RInv, Inv, TypeOK, Setup
<1>3. \A c \in Conns : PausingOk(c)'
  BY <1>2, NextSeen, PausingKept DEF RInv
<1> QED BY <1>1, <1>3 DEF RInv

\* It holds at first, and every connection is in the pool.
LEMMA InitRInv == Init => RInv /\ \A c \in Conns : C(c, TRUE)!Init
<1> SUFFICES ASSUME Init PROVE RInv /\ \A c \in Conns : C(c, TRUE)!Init
  OBVIOUS
<1> DEFINE a == Sqe("accept", None)
<1>1. Inv
  BY InitInv
<1>2. /\ conn = [c \in Conns |-> Fresh] /\ frame = NoFrame /\ pc = "top" /\ draining = FALSE
      /\ canceleach = FALSE /\ sq = <<a>> /\ cq = <<>> /\ krecv = {}
  BY DEF Init
<1>3. a \in SqeType /\ a \notin Blankets /\ \A c : ~SqMine(a, c)
  BY DEF Sqe, SqeType, SqMine, Blankets
<1> HIDE DEF a
<1>4. DrainOk
  <2>1. Count(sq, Blankets) = 0
    BY <1>2, <1>3, CountOne DEF One
  <2>2. Count(cq, Drains) = 0 /\ Count(cq, Refusals) = 0
    BY <1>2, CountEmpty
  <2>3. Count(sq, Blankets) + Count(cq, Drains) <= One(draining)
    BY <1>2, <2>1, <2>2 DEF One
  <2>4. canceleach \in BOOLEAN /\ pc # "sweep"
    BY <1>2
  <2> QED BY <2>2, <2>3, <2>4, Zenon DEF DrainOk
<1>5. ASSUME NEW c \in Conns PROVE PausingOk(c) /\ C(c, TRUE)!Init
  <2>1. SqOf(c) = <<>>
    <3>1. OnSq(<<a>>, c) = <<>>
      BY <1>3, OnSqOne, Zenon
    <3>2. OnSq(sq, c) = <<>>
      BY <1>2, <3>1, Zenon
    <3> QED BY <3>2, OfIs, Zenon
  <2>2. CqOf(c) = <<>>
    <3> DEFINE z == <<>>
    <3>1. z \in Seq(CqeType) /\ \A i \in 1..Len(z) : ~CqMine(z[i], c)
      OBVIOUS
    <3> HIDE DEF z
    <3>2. OnCq(z, c) = <<>>
      BY <3>1, OnCqNone, Zenon
    <3> QED BY <1>2, <3>2, OfIs, Zenon DEF z
  <2>3. conn[c] = Fresh
    BY <1>2
  <2> QED BY <1>2, <2>1, <2>2, <2>3, NoneOut DEF C!Init, Fresh, NoFrame, PausingOk
<1> QED BY <1>1, <1>4, <1>5 DEF RInv

\* A worker serves each of its connections as module Conn says: seen from one conn_t,
\* whatever the loop, the kernel and the other connections do is a step that Conn allows
\* or no step, over every incarnation of the object.
THEOREM WorkerImplementsConn == Spec => Connections
<1>1. Init => RInv /\ \A c \in Conns : C(c, TRUE)!Init
  BY InitRInv
<1>2. RInv /\ [Next]_allVars => RInv'
  BY NextRInv
<1>3. RInv /\ [Next]_allVars =>
        [\A c \in Conns, any \in BOOLEAN : cfg.any = any => [C(c, any)!Next]_(C(c, any)!vars)]_allVars
  BY NextSeen DEF View
<1> QED BY <1>1, <1>2, <1>3, PTL DEF Spec, Connections
=============================================================================
