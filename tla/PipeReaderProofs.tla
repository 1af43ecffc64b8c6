-------------------------- MODULE PipeReaderProofs --------------------------
(***************************************************************************)
(* For any number and size of kernel buffers, any size of the gathering    *)
(* buffer and any number of bytes: a kernel buffer has one home, bytes     *)
(* stay in order, and what was kept stays where it is.                     *)
(*                                                                         *)
(* What is counted is not inductive alone: cur_done, unpin and close       *)
(* return a buffer because of the reader's flags (has_cur, cur_is_pinned,  *)
(* has_pinned), so Held adds what the flags say of cur and pinned (Own).   *)
(* Each helper of PipeReader keeps Held, then each action does.            *)
(*                                                                         *)
(* The bytes need Held, since a delivery writes into a buffer that is in   *)
(* the ring, and Good: where the live bytes, the run and the frozen runs   *)
(* are, and that the queue holds the bytes that follow.                    *)
(***************************************************************************)
EXTENDS PipeReader, FiniteSetTheorems, TLAPS

\* A reader has the fields of Fresh, a state those of State, whatever is in
\* them.
Rec(r) ==
    r \in [buf : {r.buf}, floor : {r.floor}, live_in_buf : {r.live_in_buf},
           buf_pos : {r.buf_pos}, buf_end : {r.buf_end}, cur : {r.cur},
           has_cur : {r.has_cur}, cur_pos : {r.cur_pos}, pinned : {r.pinned},
           has_pinned : {r.has_pinned}, cur_is_pinned : {r.cur_is_pinned},
           run_in_cur : {r.run_in_cur}, run_start : {r.run_start},
           run_len : {r.run_len}, examined : {r.examined}, eof : {r.eof},
           error : {r.error}, began : {r.began}]
IsState(s) == s \in [r : {s.r}, m : {s.m}, k : {s.k}] /\ Rec(s.r)

\* How often b is queued, and whether the reader holds it.
Occ(q, b)    == Cardinality({i \in 1..Len(q) : q[i] = b})
Holder(r, b) == IF b \in {r.cur, r.pinned} THEN 1 ELSE 0

\* What the reader says of the buffers it holds.
Own(r) ==
    /\ {r.has_cur, r.has_pinned, r.cur_is_pinned, r.run_in_cur, r.live_in_buf} \subseteq BOOLEAN
    /\ {r.cur, r.pinned} \subseteq Buffers \cup {None}
    /\ r.has_cur <=> r.cur # None
    /\ r.has_pinned <=> r.pinned # None
    /\ r.cur_is_pinned => r.has_cur /\ r.cur = r.pinned
    /\ r.has_cur /\ ~r.cur_is_pinned => r.cur # r.pinned
    /\ ~r.has_cur => r.cur_pos = 0
    /\ r.run_len \in Nat
    /\ r.run_in_cur /\ r.run_len > 0 => r.has_cur

\* The property, of a ring k, a queue q and a reader r.
Homes(k, q, r) == \A b \in Buffers : k[b] + Occ(q, b) + Holder(r, b) = 1

\* The inductive invariant, of a state of the helpers and the queue.
Held(s, q) ==
    /\ IsState(s) /\ Own(s.r)
    /\ s.k \in [Buffers -> Nat] /\ q \in Seq(Buffers)
    /\ Homes(s.k, q, s.r)

\* ioxd__bufring_return: one more in the ring, the reader as it was.
LEMMA Returning ==
    ASSUME NEW s, IsState(s), s.k \in [Buffers -> Nat], NEW b \in Buffers
    PROVE  /\ IsState(Return(s, b)) /\ Return(s, b).r = s.r
           /\ Return(s, b).k = [s.k EXCEPT ![b] = @ + 1]
<1>1. Return(s, b).r = s.r
  BY DEF IsState, Return
<1>2. Return(s, b).k = [s.k EXCEPT ![b] = @ + 1]
  BY DEF IsState, Return
<1>3. IsState(Return(s, b))
  BY <1>1 DEF IsState, Return
<1> QED BY <1>1, <1>2, <1>3

\* A buffer is queued a number of times,
LEMMA OccNat ==
    ASSUME NEW q \in Seq(Buffers), NEW b
    PROVE  Occ(q, b) \in Nat
<1>1. IsFiniteSet(1..Len(q))
  BY FS_Interval
<1>2. IsFiniteSet({i \in 1..Len(q) : q[i] = b})
  BY <1>1, FS_Subset
<1> QED BY <1>2, FS_CardinalityType DEF Occ

\* once more when it is delivered,
LEMMA OccAppend ==
    ASSUME NEW q \in Seq(Buffers), NEW b \in Buffers, NEW c \in Buffers
    PROVE  Occ(Append(q, b), c) = Occ(q, c) + (IF b = c THEN 1 ELSE 0)
<1> DEFINE S == {i \in 1..Len(q) : q[i] = c}
           T == {i \in 1..Len(Append(q, b)) : Append(q, b)[i] = c}
<1>1. IsFiniteSet(S)
  <2>1. IsFiniteSet(1..Len(q))
    BY FS_Interval
  <2> QED BY <2>1, FS_Subset
<1>2. T = IF b = c THEN S \cup {Len(q) + 1} ELSE S
  OBVIOUS
<1>3. Len(q) + 1 \notin S
  OBVIOUS
<1>4. Cardinality(S \cup {Len(q) + 1}) = Cardinality(S) + 1
  BY <1>1, <1>3, FS_AddElement
<1>5. Cardinality(S) \in Nat
  BY <1>1, FS_CardinalityType
<1>6. Occ(q, c) = Cardinality(S) /\ Occ(Append(q, b), c) = Cardinality(T)
  BY DEF Occ
<1> HIDE DEF S, T
<1> QED BY <1>2, <1>4, <1>5, <1>6

\* once less when it is taken.
LEMMA OccTail ==
    ASSUME NEW q \in Seq(Buffers), q # <<>>, NEW c \in Buffers
    PROVE  Occ(q, c) = Occ(Tail(q), c) + (IF Head(q) = c THEN 1 ELSE 0)
<1> DEFINE S == {i \in 1..Len(Tail(q)) : Tail(q)[i] = c}
           T == {i \in 1..Len(q) : q[i] = c}
           U == T \ {1}
           f == [i \in S |-> i + 1]
<1>1. IsFiniteSet(S)
  <2>1. IsFiniteSet(1..Len(Tail(q)))
    BY FS_Interval
  <2> QED BY <2>1, FS_Subset
<1>2. f \in Bijection(S, U)
  <2>1. f \in [S -> U]
    OBVIOUS
  <2>2. \A a, b \in S : f[a] = f[b] => a = b
    OBVIOUS
  <2>3. \A u \in U : \E a \in S : f[a] = u
    <3> TAKE u \in U
    <3>1. u \in 2..Len(q) /\ q[u] = c
      OBVIOUS
    <3>2. u - 1 \in 1..Len(Tail(q)) /\ Tail(q)[u - 1] = q[u]
      BY <3>1
    <3>3. u - 1 \in S
      BY <3>1, <3>2
    <3>4. f[u - 1] = (u - 1) + 1
      BY <3>3
    <3>5. f[u - 1] = u
      BY <3>1, <3>4
    <3> QED BY <3>3, <3>5
  <2> HIDE DEF S, U, f
  <2> QED BY <2>1, <2>2, <2>3 DEF Bijection, Injection, Surjection, IsInjective
<1>3. IsFiniteSet(U) /\ Cardinality(U) = Cardinality(S)
  BY <1>1, <1>2, FS_Bijection DEF ExistsBijection
<1>4. T = IF Head(q) = c THEN U \cup {1} ELSE U
  OBVIOUS
<1>5. Cardinality(U \cup {1}) = Cardinality(U) + 1
  BY <1>3, FS_AddElement
<1>6. Cardinality(S) \in Nat
  BY <1>1, FS_CardinalityType
<1>7. Occ(Tail(q), c) = Cardinality(S) /\ Occ(q, c) = Cardinality(T)
  BY DEF Occ
<1> HIDE DEF S, T, U
<1> QED BY <1>3, <1>4, <1>5, <1>6, <1>7

\* A state with the same holders and the same ring.
LEMMA Same ==
    ASSUME NEW s, NEW t, NEW q, Held(s, q), IsState(t), t.k = s.k,
           t.r.cur = s.r.cur, t.r.has_cur = s.r.has_cur,
           t.r.pinned = s.r.pinned, t.r.has_pinned = s.r.has_pinned,
           t.r.cur_is_pinned = s.r.cur_is_pinned,
           t.r.live_in_buf \in BOOLEAN, t.r.run_in_cur \in BOOLEAN, t.r.run_len \in Nat,
           ~t.r.has_cur => t.r.cur_pos = 0,
           t.r.run_in_cur /\ t.r.run_len > 0 => t.r.has_cur
    PROVE  Held(t, q)
<1>1. Own(t.r)
  BY DEF Held, Own
<1>2. Homes(t.k, q, t.r)
  BY DEF Held, Homes, Holder
<1> QED BY <1>1, <1>2 DEF Held

\* A reader with its bytes moved and its holders as they were.
Alike(v, r) ==
    /\ v.cur = r.cur /\ v.has_cur = r.has_cur /\ v.cur_pos = r.cur_pos
    /\ v.pinned = r.pinned /\ v.has_pinned = r.has_pinned
    /\ v.cur_is_pinned = r.cur_is_pinned /\ v.run_len = r.run_len
    /\ v.live_in_buf = r.live_in_buf /\ v.run_in_cur = r.run_in_cur

\* Bytes that moved, and nothing else.
LEMMA Moved ==
    ASSUME NEW s, NEW t, NEW q, Held(s, q), IsState(t), t.k = s.k, Alike(t.r, s.r)
    PROVE  Held(t, q)
<1>1. Own(s.r)
  BY DEF Held
<1> QED BY <1>1, Same DEF Own, Alike

\* The reader without its current buffer.
Gone(t) == [t EXCEPT !.r.has_cur = FALSE, !.r.cur_is_pinned = FALSE,
                     !.r.cur_pos = 0, !.r.cur = None]

\* What Gone leaves alone.
LEMMA LetGo ==
    ASSUME NEW t, IsState(t)
    PROVE  /\ IsState(Gone(t)) /\ Gone(t).k = t.k
           /\ Gone(t).r.has_cur = FALSE /\ Gone(t).r.cur_is_pinned = FALSE
           /\ Gone(t).r.cur_pos = 0 /\ Gone(t).r.cur = None
           /\ Gone(t).r.pinned = t.r.pinned /\ Gone(t).r.has_pinned = t.r.has_pinned
           /\ Gone(t).r.run_in_cur = t.r.run_in_cur /\ Gone(t).r.run_len = t.r.run_len
           /\ Gone(t).r.live_in_buf = t.r.live_in_buf
<1>1. IsState(Gone(t))
  BY ZenonT(40) DEF IsState, Rec, Gone
<1>2. Gone(t).k = t.k
  BY DEF IsState, Gone
<1>3. /\ Gone(t).r.has_cur = FALSE /\ Gone(t).r.cur_is_pinned = FALSE
      /\ Gone(t).r.cur_pos = 0 /\ Gone(t).r.cur = None
      /\ Gone(t).r.pinned = t.r.pinned /\ Gone(t).r.has_pinned = t.r.has_pinned
      /\ Gone(t).r.run_in_cur = t.r.run_in_cur /\ Gone(t).r.run_len = t.r.run_len
      /\ Gone(t).r.live_in_buf = t.r.live_in_buf
  BY DEF IsState, Rec, Gone
<1> QED BY <1>1, <1>2, <1>3

\* cur_done: the buffer goes back unless it is the pinned one.
LEMMA CurDoneHeld ==
    ASSUME NEW s, NEW q, Held(s, q)
    PROVE  Held(CurDone(s), q)
<1> DEFINE stays == ~s.r.has_cur \/ s.r.cur_pos < CurLen(s) \/ (s.r.run_in_cur /\ s.r.run_len > 0)
           t == IF s.r.cur_is_pinned THEN s ELSE Return(s, s.r.cur)
           d == Gone(t)
<1>1. CASE stays
  BY <1>1 DEF CurDone
<1>2. CASE ~stays
  <2>1. CurDone(s) = d
    BY <1>2 DEF CurDone, Gone
  <2>2. s.r.has_cur /\ s.r.cur \in Buffers /\ ~(s.r.run_in_cur /\ s.r.run_len > 0)
    BY <1>2 DEF Held, Own
  <2>3. /\ IsState(t) /\ t.r = s.r
        /\ t.k = IF s.r.cur_is_pinned THEN s.k ELSE [s.k EXCEPT ![s.r.cur] = @ + 1]
    BY <2>2, Returning DEF Held
  <2> HIDE DEF t
  <2>4. /\ IsState(d) /\ d.k = t.k
        /\ d.r.has_cur = FALSE /\ d.r.cur_is_pinned = FALSE /\ d.r.cur_pos = 0 /\ d.r.cur = None
        /\ d.r.pinned = s.r.pinned /\ d.r.has_pinned = s.r.has_pinned
        /\ d.r.run_in_cur = s.r.run_in_cur /\ d.r.run_len = s.r.run_len
        /\ d.r.live_in_buf = s.r.live_in_buf
    <3>1. IsState(t)
      BY <2>3
    <3>2. /\ IsState(d) /\ d.k = t.k
          /\ d.r.has_cur = FALSE /\ d.r.cur_is_pinned = FALSE
          /\ d.r.cur_pos = 0 /\ d.r.cur = None
          /\ d.r.pinned = t.r.pinned /\ d.r.has_pinned = t.r.has_pinned
          /\ d.r.run_in_cur = t.r.run_in_cur /\ d.r.run_len = t.r.run_len
          /\ d.r.live_in_buf = t.r.live_in_buf
      BY <3>1, LetGo, Zenon
    <3> QED BY <3>2, <2>3, Zenon
  <2> HIDE DEF d
  <2>5. Own(d.r)
    BY <2>2, <2>4 DEF Held, Own
  <2>6. d.k \in [Buffers -> Nat]
    BY <2>2, <2>3, <2>4 DEF Held
  <2>7. Homes(d.k, q, d.r)
    <3> SUFFICES ASSUME NEW b \in Buffers PROVE d.k[b] + Occ(q, b) + Holder(d.r, b) = 1
      BY DEF Homes
    <3>1. s.k[b] + Occ(q, b) + Holder(s.r, b) = 1 /\ s.k[b] \in Nat
      BY DEF Held, Homes
    <3>2. Occ(q, b) \in Nat
      BY OccNat DEF Held
    <3>3. b # None
      BY PipeAssumption DEF None
    <3>4. CASE s.r.cur_is_pinned
      BY <3>1, <3>2, <3>3, <3>4, <2>3, <2>4 DEF Held, Own, Holder
    <3>5. CASE ~s.r.cur_is_pinned
      <4>1. d.k[b] = IF b = s.r.cur THEN s.k[b] + 1 ELSE s.k[b]
        BY <2>2, <2>3, <2>4, <3>5 DEF Held
      <4>2. s.r.cur # s.r.pinned
        BY <2>2, <3>5 DEF Held, Own
      <4> QED BY <3>1, <3>2, <3>3, <4>1, <4>2, <2>4 DEF Holder
    <3> QED BY <3>4, <3>5
  <2> QED BY <2>1, <2>4, <2>5, <2>6, <2>7 DEF Held
<1> QED BY <1>1, <1>2

\* Pinning: the buffer is held twice by the same reader, and counted once.
LEMMA PinHeld ==
    ASSUME NEW s, NEW q, Held(s, q)
    PROVE  /\ Held(Pin(s), q)
           /\ Pin(s).r.cur = s.r.cur /\ Pin(s).r.has_cur = s.r.has_cur
<1>1. CASE ~(RunInCur(s) > 0 /\ ~s.r.has_pinned)
  BY <1>1 DEF Pin
<1>2. CASE RunInCur(s) > 0 /\ ~s.r.has_pinned
  <2> DEFINE t == Pin(s)
  <2>1. s.r.has_cur /\ s.r.cur \in Buffers
    BY <1>2 DEF Held, Own, RunInCur
  <2>2. IsState(t) /\ t.k = s.k
    BY <1>2 DEF Held, IsState, Rec, Pin
  <2>3. /\ t.r.pinned = s.r.cur /\ t.r.has_pinned = TRUE /\ t.r.cur_is_pinned = TRUE
        /\ t.r.cur = s.r.cur /\ t.r.has_cur = s.r.has_cur /\ t.r.cur_pos = s.r.cur_pos
        /\ t.r.run_in_cur = s.r.run_in_cur /\ t.r.run_len = s.r.run_len
        /\ t.r.live_in_buf = s.r.live_in_buf
    BY <1>2 DEF Held, IsState, Rec, Pin
  <2> HIDE DEF t
  <2>4. Own(t.r)
    BY <2>1, <2>3 DEF Held, Own
  <2>5. Homes(t.k, q, t.r)
    BY <1>2, <2>1, <2>2, <2>3, PipeAssumption DEF Held, Own, Homes, Holder, None
  <2> QED BY <2>2, <2>3, <2>4, <2>5 DEF Held, t
<1> QED BY <1>1, <1>2

\* Unpinning: it goes back unless it is still the current one.
LEMMA UnpinHeld ==
    ASSUME NEW s, NEW q, Held(s, q)
    PROVE  Held(Unpin(s), q)
<1>1. CASE ~s.r.has_pinned
  BY <1>1 DEF Unpin
<1>2. CASE s.r.has_pinned
  <2> DEFINE u == IF s.r.cur_is_pinned THEN s ELSE Return(s, s.r.pinned)
             t == Unpin(s)
  <2>1. s.r.pinned \in Buffers
    BY <1>2 DEF Held, Own
  <2>2. /\ IsState(u) /\ u.r = s.r
        /\ u.k = IF s.r.cur_is_pinned THEN s.k ELSE [s.k EXCEPT ![s.r.pinned] = @ + 1]
    BY <2>1, Returning DEF Held
  <2>3. t = [u EXCEPT !.r.cur_is_pinned = FALSE, !.r.has_pinned = FALSE, !.r.pinned = None]
    BY <1>2 DEF Unpin
  <2> HIDE DEF u, t
  <2>4. IsState(t) /\ t.k = u.k
    BY <2>2, <2>3 DEF IsState, Rec
  <2>5. /\ t.r.cur_is_pinned = FALSE /\ t.r.has_pinned = FALSE /\ t.r.pinned = None
        /\ t.r.cur = u.r.cur /\ t.r.has_cur = u.r.has_cur /\ t.r.cur_pos = u.r.cur_pos
        /\ t.r.run_in_cur = u.r.run_in_cur /\ t.r.run_len = u.r.run_len
        /\ t.r.live_in_buf = u.r.live_in_buf
    BY <2>2, <2>3 DEF IsState, Rec
  <2>6. Own(t.r)
    BY <2>2, <2>5 DEF Held, Own
  <2>7. t.k \in [Buffers -> Nat]
    BY <2>1, <2>2, <2>4 DEF Held
  <2>8. Homes(t.k, q, t.r)
    <3> SUFFICES ASSUME NEW b \in Buffers PROVE t.k[b] + Occ(q, b) + Holder(t.r, b) = 1
      BY DEF Homes
    <3>1. s.k[b] + Occ(q, b) + Holder(s.r, b) = 1 /\ s.k[b] \in Nat
      BY DEF Held, Homes
    <3>2. Occ(q, b) \in Nat
      BY OccNat DEF Held
    <3>3. b # None
      BY PipeAssumption DEF None
    <3>4. CASE s.r.cur_is_pinned
      BY <3>1, <3>2, <3>3, <3>4, <2>2, <2>4, <2>5 DEF Held, Own, Holder
    <3>5. CASE ~s.r.cur_is_pinned
      <4>1. t.k[b] = IF b = s.r.pinned THEN s.k[b] + 1 ELSE s.k[b]
        BY <2>1, <2>2, <2>4, <3>5 DEF Held
      <4>2. s.r.cur # s.r.pinned
        BY <1>2, <3>5 DEF Held, Own
      <4> QED BY <3>1, <3>2, <3>3, <4>1, <4>2, <2>2, <2>5 DEF Holder
    <3> QED BY <3>4, <3>5
  <2> QED BY <2>4, <2>6, <2>7, <2>8 DEF Held, t
<1> QED BY <1>1, <1>2

\* gather: the run and the live bytes leave the current buffer.
LEMMA GatherHeld ==
    ASSUME NEW s, NEW q, Held(s, q), s.r.has_cur
    PROVE  Held(Gather(s), q)
<1> DEFINE n  == RunInCur(s)
           xs == Span(s.m[s.r.cur], s.r.run_start, n)
           ys == Span(s.m[s.r.cur], s.r.cur_pos, CurLen(s) - s.r.cur_pos)
           f  == s.r.floor + n
           t  == Pin(s)
           v  == [t.r EXCEPT !.buf = Over(Over(@, s.r.floor, xs), f, ys),
                             !.run_start = IF n > 0 THEN s.r.floor ELSE @,
                             !.floor = f, !.run_in_cur = FALSE,
                             !.buf_pos = f, !.buf_end = f + Len(ys),
                             !.live_in_buf = TRUE, !.cur_pos = CurLen(s)]
           u  == [t EXCEPT !.r = v]
<1>1. Gather(s) = CurDone(u)
  BY DEF Gather
<1>2. Held(t, q) /\ t.r.has_cur = s.r.has_cur
  BY PinHeld
<1>3. IsState(t)
  BY <1>2 DEF Held
<1> HIDE DEF t, n, xs, ys, f
<1>4. Rec(v)
  BY <1>3 DEF IsState, Rec
<1>5. /\ v.cur = t.r.cur /\ v.has_cur = t.r.has_cur
      /\ v.pinned = t.r.pinned /\ v.has_pinned = t.r.has_pinned
      /\ v.cur_is_pinned = t.r.cur_is_pinned /\ v.run_len = t.r.run_len
      /\ v.live_in_buf = TRUE /\ v.run_in_cur = FALSE
  BY <1>3 DEF IsState, Rec
<1> HIDE DEF v
<1>6. IsState(u) /\ u.k = t.k /\ u.r = v
  BY <1>3, <1>4 DEF IsState
<1> HIDE DEF u
<1>7. t.r.run_len \in Nat
  BY <1>2 DEF Held, Own
<1>8. Held(u, q)
  BY <1>2, <1>5, <1>6, <1>7, Same
<1> QED BY <1>1, <1>8, CurDoneHeld

\* consume: the last live byte lets the current buffer go.
LEMMA ConsumeHeld ==
    ASSUME NEW s, NEW q, Held(s, q), NEW n
    PROVE  Held(Consume(s, n), q)
<1> DEFINE e == IF s.r.examined > n THEN s.r.examined - n ELSE 0
           a == [s EXCEPT !.r.buf_pos = s.r.floor, !.r.buf_end = s.r.floor,
                          !.r.live_in_buf = FALSE, !.r.examined = e]
           b == [s EXCEPT !.r.buf_pos = @ + n, !.r.examined = e]
           c == [s EXCEPT !.r.cur_pos = @ + n, !.r.examined = e]
           d == [s EXCEPT !.r.examined = e]
<1>1. IsState(s) /\ Own(s.r)
  BY DEF Held
<1> HIDE DEF e
<1>2. Held(a, q)
  <2>1. IsState(a) /\ a.k = s.k
    BY <1>1, ZenonT(40) DEF IsState, Rec
  <2>2. /\ a.r.cur = s.r.cur /\ a.r.has_cur = s.r.has_cur /\ a.r.cur_pos = s.r.cur_pos
        /\ a.r.pinned = s.r.pinned /\ a.r.has_pinned = s.r.has_pinned
        /\ a.r.cur_is_pinned = s.r.cur_is_pinned /\ a.r.run_len = s.r.run_len
        /\ a.r.live_in_buf = FALSE /\ a.r.run_in_cur = s.r.run_in_cur
    BY <1>1 DEF IsState, Rec
  <2> HIDE DEF a
  <2> QED BY <1>1, <2>1, <2>2, Same DEF Own
<1>3. Held(b, q)
  <2>1. IsState(b) /\ b.k = s.k
    BY <1>1 DEF IsState, Rec
  <2>2. Alike(b.r, s.r)
    BY <1>1 DEF Alike, IsState, Rec
  <2> HIDE DEF b
  <2> QED BY <2>1, <2>2, Moved
<1>4. CASE ~s.r.live_in_buf /\ s.r.has_cur
  <2>1. IsState(c) /\ c.k = s.k
    BY <1>1 DEF IsState, Rec
  <2>2. /\ c.r.cur = s.r.cur /\ c.r.has_cur = s.r.has_cur
        /\ c.r.pinned = s.r.pinned /\ c.r.has_pinned = s.r.has_pinned
        /\ c.r.cur_is_pinned = s.r.cur_is_pinned /\ c.r.run_len = s.r.run_len
        /\ c.r.live_in_buf = s.r.live_in_buf /\ c.r.run_in_cur = s.r.run_in_cur
    BY <1>1 DEF IsState, Rec
  <2>3. Consume(s, n) = CurDone(c)
    BY <1>4 DEF Consume, e
  <2> HIDE DEF c
  <2>4. Held(c, q)
    BY <1>1, <1>4, <2>1, <2>2, Same DEF Own
  <2> QED BY <2>3, <2>4, CurDoneHeld
<1>5. CASE ~s.r.live_in_buf /\ ~s.r.has_cur
  <2>1. IsState(d) /\ d.k = s.k
    BY <1>1 DEF IsState, Rec
  <2>2. Alike(d.r, s.r)
    BY <1>1 DEF Alike, IsState, Rec
  <2>3. Consume(s, n) = d
    BY <1>5 DEF Consume, e
  <2> HIDE DEF d
  <2> QED BY <2>1, <2>2, <2>3, Moved
<1>6. CASE s.r.live_in_buf
  <2>1. Consume(s, n) = IF s.r.buf_pos + n >= s.r.buf_end THEN a ELSE b
    BY <1>6 DEF Consume, e
  <2> HIDE DEF a, b
  <2> QED BY <1>2, <1>3, <2>1
<1> QED BY <1>4, <1>5, <1>6

\* Compacting and appending touch the gathering buffer alone.
LEMMA CompactHeld ==
    ASSUME NEW s, NEW q, Held(s, q)
    PROVE  Held([s EXCEPT !.r = Compact(@)], q)
<1> DEFINE v == Compact(s.r)
           t == [s EXCEPT !.r = v]
<1>1. IsState(s) /\ Own(s.r)
  BY DEF Held
<1>2. Rec(v)
  BY <1>1 DEF IsState, Rec, Compact
<1>3. Alike(v, s.r)
  BY <1>1 DEF Alike, IsState, Rec, Compact
<1> HIDE DEF v
<1>4. IsState(t) /\ t.k = s.k /\ t.r = v
  BY <1>1, <1>2 DEF IsState
<1>5. Held(t, q)
  BY <1>3, <1>4, Moved
<1> QED BY <1>5 DEF v

\* Appending, after compacting when it must.
LEMMA AppendHeld ==
    ASSUME NEW s, NEW q, Held(s, q), NEW ys
    PROVE  Held(AppendLive(s, ys), q)
<1> DEFINE t == IF s.r.buf_end + Len(ys) <= Cap THEN s ELSE [s EXCEPT !.r = Compact(@)]
           u == [t EXCEPT !.r.buf = Over(@, t.r.buf_end, ys), !.r.buf_end = @ + Len(ys)]
<1>1. AppendLive(s, ys) = u
  BY DEF AppendLive
<1>2. Held(t, q)
  BY CompactHeld
<1> HIDE DEF t
<1>3. IsState(t) /\ Own(t.r)
  BY <1>2 DEF Held
<1>4. IsState(u) /\ u.k = t.k
  BY <1>3 DEF IsState, Rec
<1>5. Alike(u.r, t.r)
  BY <1>3 DEF Alike, IsState, Rec
<1> HIDE DEF u
<1>6. Held(u, q)
  BY <1>2, <1>4, <1>5, Moved
<1> QED BY <1>1, <1>6

\* The three ways to keep bytes, before the run is counted longer.
LEMMA KeepInBufHeld ==
    ASSUME NEW s, NEW q, Held(s, q), NEW n
    PROVE  Held(KeepInBuf(s, n), q) /\ (KeepInBuf(s, n).r.run_in_cur => KeepInBuf(s, n).r.has_cur)
<1> DEFINE t == IF s.r.run_len = 0
                THEN [s EXCEPT !.r.run_in_cur = FALSE, !.r.run_start = s.r.buf_pos,
                               !.r.floor = s.r.buf_pos]
                ELSE [s EXCEPT !.r.buf = Over(@, s.r.floor, Span(@, s.r.buf_pos, n))]
           u == [t EXCEPT !.r.floor = @ + n]
<1>1. KeepInBuf(s, n) = u
  BY DEF KeepInBuf
<1>2. IsState(s) /\ Own(s.r)
  BY DEF Held
<1>3. IsState(t) /\ t.k = s.k
  BY <1>2 DEF IsState, Rec
<1>4. /\ t.r.cur = s.r.cur /\ t.r.has_cur = s.r.has_cur /\ t.r.cur_pos = s.r.cur_pos
      /\ t.r.pinned = s.r.pinned /\ t.r.has_pinned = s.r.has_pinned
      /\ t.r.cur_is_pinned = s.r.cur_is_pinned /\ t.r.run_len = s.r.run_len
      /\ t.r.live_in_buf = s.r.live_in_buf
      /\ t.r.run_in_cur = IF s.r.run_len = 0 THEN FALSE ELSE s.r.run_in_cur
  BY <1>2 DEF IsState, Rec
<1> HIDE DEF t
<1>5. IsState(u) /\ u.k = t.k
  BY <1>3 DEF IsState, Rec
<1>6. Alike(u.r, t.r)
  BY <1>3 DEF Alike, IsState, Rec
<1> HIDE DEF u
<1>7. Held(t, q)
  BY <1>2, <1>3, <1>4, Same DEF Own
<1>8. t.r.run_in_cur => t.r.has_cur
  <2>1. CASE s.r.run_len = 0
    BY <2>1, <1>4
  <2>2. CASE s.r.run_len # 0
    <3>1. s.r.run_len > 0
      BY <2>2, <1>2 DEF Own
    <3>2. s.r.run_in_cur => s.r.has_cur
      BY <3>1, <1>2 DEF Own
    <3>3. t.r.run_in_cur = s.r.run_in_cur
      BY <2>2, <1>4, Zenon
    <3> QED BY <3>2, <3>3, <1>4, Zenon
  <2> QED BY <2>1, <2>2
<1>9. Held(u, q)
  BY <1>5, <1>6, <1>7, Moved
<1> QED BY <1>1, <1>6, <1>8, <1>9 DEF Alike

\* In place in the current buffer: there is one.
LEMMA KeepInCurHeld ==
    ASSUME NEW s, NEW q, Held(s, q), NEW n, s.r.has_cur
    PROVE  Held(KeepInCur(s, n), q) /\ (KeepInCur(s, n).r.run_in_cur => KeepInCur(s, n).r.has_cur)
<1> DEFINE t  == IF s.r.run_len = 0
                 THEN [s EXCEPT !.r.run_in_cur = TRUE, !.r.run_start = s.r.cur_pos]
                 ELSE s
           at == t.r.run_start + t.r.run_len
           u  == [t EXCEPT !.m[s.r.cur] = Over(@, at, Span(@, s.r.cur_pos, n))]
<1>1. KeepInCur(s, n) = u
  BY DEF KeepInCur
<1>2. IsState(s) /\ Own(s.r)
  BY DEF Held
<1>3. IsState(t) /\ t.k = s.k
  BY <1>2 DEF IsState, Rec
<1>4. /\ t.r.cur = s.r.cur /\ t.r.has_cur = s.r.has_cur /\ t.r.cur_pos = s.r.cur_pos
      /\ t.r.pinned = s.r.pinned /\ t.r.has_pinned = s.r.has_pinned
      /\ t.r.cur_is_pinned = s.r.cur_is_pinned /\ t.r.run_len = s.r.run_len
      /\ t.r.live_in_buf = s.r.live_in_buf
      /\ t.r.run_in_cur = IF s.r.run_len = 0 THEN TRUE ELSE s.r.run_in_cur
  BY <1>2 DEF IsState, Rec
<1> HIDE DEF t, at
<1>5. IsState(u) /\ u.k = t.k /\ u.r = t.r
  BY <1>3 DEF IsState
<1> HIDE DEF u
<1>6. Held(t, q)
  BY <1>2, <1>3, <1>4, Same DEF Own
<1>7. t.r.has_cur
  BY <1>4
<1>8. Held(u, q)
  BY <1>5, <1>6 DEF Held
<1> QED BY <1>1, <1>5, <1>7, <1>8

\* Across, from the current buffer to the gathering one.
LEMMA KeepAcrossHeld ==
    ASSUME NEW s, NEW q, Held(s, q), NEW n, ~s.r.run_in_cur
    PROVE  Held(KeepAcross(s, n), q) /\ ~KeepAcross(s, n).r.run_in_cur
<1> DEFINE u == KeepAcross(s, n)
<1>1. IsState(s)
  BY DEF Held
<1>2. IsState(u) /\ u.k = s.k
  BY <1>1, ZenonT(40) DEF IsState, Rec, KeepAcross
<1>3. Alike(u.r, s.r)
  BY <1>1 DEF Alike, IsState, Rec, KeepAcross
<1> HIDE DEF u
<1>4. Held(u, q)
  BY <1>2, <1>3, Moved
<1>5. ~u.r.run_in_cur
  BY <1>3 DEF Alike
<1> QED BY <1>4, <1>5 DEF u

\* The run, longer by n bytes.
LEMMA LongerHeld ==
    ASSUME NEW s, NEW q, Held(s, q), NEW n \in Nat, s.r.run_in_cur => s.r.has_cur
    PROVE  Held([s EXCEPT !.r.run_len = @ + n], q)
<1> DEFINE u == [s EXCEPT !.r.run_len = @ + n]
<1>1. IsState(s) /\ Own(s.r)
  BY DEF Held
<1>2. IsState(u) /\ u.k = s.k
  BY <1>1 DEF IsState, Rec
<1>3. /\ u.r.cur = s.r.cur /\ u.r.has_cur = s.r.has_cur /\ u.r.cur_pos = s.r.cur_pos
      /\ u.r.pinned = s.r.pinned /\ u.r.has_pinned = s.r.has_pinned
      /\ u.r.cur_is_pinned = s.r.cur_is_pinned /\ u.r.run_len = s.r.run_len + n
      /\ u.r.live_in_buf = s.r.live_in_buf /\ u.r.run_in_cur = s.r.run_in_cur
  BY <1>1 DEF IsState, Rec
<1> HIDE DEF u
<1>4. u.r.run_len \in Nat
  BY <1>1, <1>3 DEF Own
<1>5. Held(u, q)
  BY <1>1, <1>2, <1>3, <1>4, Same DEF Own
<1> QED BY <1>5 DEF u

\* A delivered buffer that goes back once its bytes are taken over.
LEMMA TakeHeld ==
    ASSUME NEW s, NEW q, Held(s, q), q # <<>>
    PROVE  Held(Return(s, Head(q)), Tail(q))
<1> DEFINE h == Head(q)
           t == Return(s, h)
<1>1. /\ IsState(s) /\ Own(s.r) /\ s.k \in [Buffers -> Nat]
      /\ q \in Seq(Buffers) /\ Homes(s.k, q, s.r)
  BY DEF Held
<1>2. h \in Buffers /\ Tail(q) \in Seq(Buffers)
  BY <1>1
<1> HIDE DEF h
<1>3. IsState(t) /\ t.r = s.r /\ t.k = [s.k EXCEPT ![h] = @ + 1]
  BY <1>1, <1>2, Returning
<1> HIDE DEF t
<1>4. Homes(t.k, Tail(q), t.r)
  <2> SUFFICES ASSUME NEW b \in Buffers
               PROVE  t.k[b] + Occ(Tail(q), b) + Holder(t.r, b) = 1
    BY DEF Homes
  <2>1. s.k[b] + Occ(q, b) + Holder(s.r, b) = 1 /\ s.k[b] \in Nat
    BY <1>1 DEF Homes
  <2>2. Occ(q, b) = Occ(Tail(q), b) + (IF h = b THEN 1 ELSE 0)
    BY <1>1, OccTail DEF h
  <2>3. Occ(Tail(q), b) \in Nat
    BY <1>2, OccNat
  <2>4. t.k[b] = IF b = h THEN s.k[b] + 1 ELSE s.k[b]
    BY <1>1, <1>3
  <2>5. Holder(t.r, b) = Holder(s.r, b) /\ Holder(s.r, b) \in Nat
    BY <1>3 DEF Holder
  <2> QED BY <2>1, <2>2, <2>3, <2>4, <2>5
<1>5. t.k \in [Buffers -> Nat]
  BY <1>1, <1>2, <1>3
<1>6. Held(t, Tail(q))
  BY <1>1, <1>2, <1>3, <1>4, <1>5 DEF Held
<1> QED BY <1>6 DEF h, t

\* A step that leaves a state of the helpers behind.
LEMMA SetHeld ==
    ASSUME NEW s, Held(s, rx'), Set(s)
    PROVE  Held(State, rx)'
<1>1. State' = s
  BY DEF Held, IsState, Set, State
<1>2. Held(State', rx')
  BY <1>1
<1> QED BY <1>2 DEF Held, State, IsState, Rec, Own, Homes, Occ, Holder

\* A step of the reader alone, its holders as they were.
LEMMA ReaderHeld ==
    ASSUME Held(State, rx), Rec(pr'), Alike(pr', pr), UNCHANGED <<mem, ring, rx>>
    PROVE  Held(State, rx)'
<1> DEFINE t == [r |-> pr', m |-> mem, k |-> ring]
<1>1. IsState(t) /\ t.k = State.k /\ t.r = pr' /\ State.r = pr
  BY DEF IsState, State
<1>2. Set(t)
  BY DEF Set
<1> HIDE DEF t
<1>3. Held(t, rx)
  BY <1>1, Moved
<1> QED BY <1>2, <1>3, SetHeld

\* A delivery: from the ring to the queue.
LEMMA DeliverHeld ==
    ASSUME Held(State, rx), Deliver
    PROVE  Held(State, rx)'
<1>1. PICK b \in Buffers : /\ ring[b] > 0 /\ ring' = [ring EXCEPT ![b] = @ - 1]
                           /\ rx' = Append(rx, b) /\ pr' = pr
  BY DEF Deliver
<1>2. /\ Rec(pr) /\ Own(pr) /\ ring \in [Buffers -> Nat]
      /\ rx \in Seq(Buffers) /\ Homes(ring, rx, pr)
  BY DEF Held, IsState, State
<1> DEFINE t == [r |-> pr, m |-> mem', k |-> ring']
<1>3. IsState(t) /\ t.r = pr /\ t.k = ring'
  BY <1>2 DEF IsState
<1>4. Set(t)
  BY <1>1 DEF Set
<1> HIDE DEF t
<1>5. rx' \in Seq(Buffers)
  BY <1>1, <1>2
<1>6. ring' \in [Buffers -> Nat]
  BY <1>1, <1>2
<1>7. Homes(ring', rx', pr)
  <2> SUFFICES ASSUME NEW c \in Buffers
               PROVE  ring'[c] + Occ(rx', c) + Holder(pr, c) = 1
    BY DEF Homes
  <2>1. ring[c] + Occ(rx, c) + Holder(pr, c) = 1 /\ ring[c] \in Nat
    BY <1>2 DEF Homes
  <2>2. Occ(rx', c) = Occ(rx, c) + (IF b = c THEN 1 ELSE 0)
    BY <1>1, <1>2, OccAppend
  <2>3. Occ(rx, c) \in Nat
    BY <1>2, OccNat
  <2>4. ring'[c] = IF b = c THEN ring[c] - 1 ELSE ring[c]
    BY <1>1, <1>2
  <2>5. Holder(pr, c) \in Nat
    BY DEF Holder
  <2> QED BY <2>1, <2>2, <2>3, <2>4, <2>5
<1>8. Held(t, rx')
  BY <1>2, <1>3, <1>5, <1>6, <1>7 DEF Held
<1> QED BY <1>4, <1>8, SetHeld

\* more, in place: from the queue to the reader, which did not hold it.
LEMMA MoreInPlaceHeld ==
    ASSUME Held(State, rx), MoreInPlace
    PROVE  Held(State, rx)'
<1> DEFINE h == Head(rx)
<1>1. /\ Rec(pr) /\ Own(pr) /\ ring \in [Buffers -> Nat]
      /\ rx \in Seq(Buffers) /\ Homes(ring, rx, pr)
  BY DEF Held, IsState, State
<1>2. /\ rx # <<>> /\ ~pr.has_cur /\ rx' = Tail(rx) /\ mem' = mem /\ ring' = ring
      /\ pr' = [pr EXCEPT !.cur = h, !.has_cur = TRUE, !.cur_pos = 0,
                          !.cur_is_pinned = FALSE]
  BY DEF MoreInPlace
<1>3. h \in Buffers /\ rx' \in Seq(Buffers)
  BY <1>1, <1>2
<1>4. Occ(rx, h) = Occ(rx', h) + 1
  BY <1>1, <1>2, <1>3, OccTail
<1> HIDE DEF h
<1>5. /\ Rec(pr') /\ pr'.cur = h /\ pr'.has_cur = TRUE /\ pr'.cur_pos = 0
      /\ pr'.cur_is_pinned = FALSE /\ pr'.pinned = pr.pinned
      /\ pr'.has_pinned = pr.has_pinned /\ pr'.run_in_cur = pr.run_in_cur
      /\ pr'.run_len = pr.run_len /\ pr'.live_in_buf = pr.live_in_buf
  BY <1>1, <1>2 DEF Rec
<1>6. h # pr.pinned
  <2>1. ring[h] + Occ(rx, h) + Holder(pr, h) = 1 /\ ring[h] \in Nat
    BY <1>1, <1>3 DEF Homes
  <2>2. Occ(rx', h) \in Nat
    BY <1>3, OccNat
  <2> QED BY <2>1, <2>2, <1>4 DEF Holder
<1>7. h # None /\ pr.cur = None
  BY <1>1, <1>2, <1>3, PipeAssumption DEF None, Own
<1>8. Own(pr')
  BY <1>1, <1>3, <1>5, <1>6, <1>7 DEF Own
<1>9. Homes(ring', rx', pr')
  <2> SUFFICES ASSUME NEW b \in Buffers
               PROVE  ring[b] + Occ(rx', b) + Holder(pr', b) = 1
    BY <1>2 DEF Homes
  <2>1. ring[b] + Occ(rx, b) + Holder(pr, b) = 1 /\ ring[b] \in Nat
    BY <1>1 DEF Homes
  <2>2. Occ(rx, b) = Occ(rx', b) + (IF h = b THEN 1 ELSE 0)
    BY <1>1, <1>2, OccTail DEF h
  <2>3. Occ(rx', b) \in Nat
    BY <1>3, OccNat
  <2>4. b # None
    BY PipeAssumption DEF None
  <2>5. Holder(pr', b) = Holder(pr, b) + (IF h = b THEN 1 ELSE 0)
    BY <2>4, <1>5, <1>6, <1>7 DEF Holder
  <2>6. Holder(pr, b) \in Nat
    BY DEF Holder
  <2> QED BY <2>1, <2>2, <2>3, <2>5, <2>6
<1> DEFINE t == [r |-> pr', m |-> mem', k |-> ring']
<1>10. IsState(t) /\ t.r = pr' /\ t.k = ring' /\ Set(t)
  BY <1>5 DEF IsState, Set
<1> HIDE DEF t
<1>11. Held(t, rx')
  BY <1>1, <1>2, <1>3, <1>8, <1>9, <1>10 DEF Held
<1> QED BY <1>10, <1>11, SetHeld

\* more, gathered: from the queue to the ring, room or no room.
LEMMA MoreGatheredHeld ==
    ASSUME Held(State, rx), MoreGathered
    PROVE  Held(State, rx)'
<1> DEFINE b  == Head(rx)
           ys == mem[b]
           ok == pr.live_in_buf \/ CanGather(State)
           s  == IF pr.live_in_buf \/ ~ok THEN State ELSE Gather(State)
           t  == IF ok THEN [s EXCEPT !.r = Compact(@)] ELSE s
           u  == Return(t, b)
           w  == [u EXCEPT !.r.error = "full"]
<1>1. rx # <<>> /\ rx' = Tail(rx) /\ (pr.live_in_buf \/ pr.has_cur)
  BY DEF MoreGathered
<1>2. Set(Return(AppendLive(s, ys), b)) \/ Set(w)
  BY DEF MoreGathered
<1>3. Held(s, rx)
  <2>1. State.r = pr
    BY DEF State
  <2> QED BY <1>1, <2>1, GatherHeld
<1> HIDE DEF s, ok, ys
<1>4. CASE Set(Return(AppendLive(s, ys), b))
  <2>1. Held(AppendLive(s, ys), rx)
    BY <1>3, AppendHeld
  <2>2. Held(Return(AppendLive(s, ys), b), rx')
    BY <1>1, <2>1, TakeHeld
  <2> QED BY <1>4, <2>2, SetHeld
<1>5. CASE Set(w)
  <2>1. Held(t, rx)
    BY <1>3, CompactHeld
  <2> HIDE DEF t
  <2>2. Held(u, rx')
    BY <1>1, <2>1, TakeHeld
  <2> HIDE DEF u
  <2>3. IsState(u)
    BY <2>2 DEF Held
  <2>4. IsState(w) /\ w.k = u.k
    BY <2>3 DEF IsState, Rec
  <2>5. Alike(w.r, u.r)
    BY <2>3 DEF Alike, IsState, Rec
  <2> HIDE DEF w
  <2>6. Held(w, rx')
    BY <2>2, <2>4, <2>5, Moved
  <2> QED BY <1>5, <2>6, SetHeld
<1> QED BY <1>2, <1>4, <1>5

\* inject: no buffer is taken, gathering may let one go.
LEMMA InjectHeld ==
    ASSUME Held(State, rx), Inject
    PROVE  Held(State, rx)'
<1> DEFINE ys == Bytes(sent, 1)
           ok == pr.live_in_buf \/ ~pr.has_cur \/ CanGather(State)
           e  == [State EXCEPT !.r.buf_pos = pr.floor, !.r.buf_end = pr.floor,
                               !.r.live_in_buf = TRUE]
           s  == IF pr.live_in_buf \/ ~ok THEN State
                 ELSE IF pr.has_cur THEN Gather(State) ELSE e
           t  == IF ok THEN [s EXCEPT !.r = Compact(@)] ELSE s
<1>1. rx' = rx
  BY DEF Inject
<1>2. Set(AppendLive(s, ys)) \/ Set(t)
  BY DEF Inject
<1>3. State.r = pr /\ IsState(State) /\ Own(State.r)
  BY DEF State, Held
<1>4. Held(e, rx)
  <2>1. IsState(e) /\ e.k = State.k
    BY <1>3, ZenonT(40) DEF IsState, Rec
  <2>2. /\ e.r.cur = State.r.cur /\ e.r.has_cur = State.r.has_cur
        /\ e.r.cur_pos = State.r.cur_pos
        /\ e.r.pinned = State.r.pinned /\ e.r.has_pinned = State.r.has_pinned
        /\ e.r.cur_is_pinned = State.r.cur_is_pinned /\ e.r.run_len = State.r.run_len
        /\ e.r.live_in_buf = TRUE /\ e.r.run_in_cur = State.r.run_in_cur
    BY <1>3 DEF IsState, Rec
  <2> HIDE DEF e
  <2> QED BY <1>3, <2>1, <2>2, Same DEF Own
<1> HIDE DEF e
<1>5. Held(s, rx)
  BY <1>3, <1>4, GatherHeld
<1> HIDE DEF s, ok, ys
<1>6. CASE Set(AppendLive(s, ys))
  <2>1. Held(AppendLive(s, ys), rx')
    BY <1>1, <1>5, AppendHeld
  <2> QED BY <1>6, <2>1, SetHeld
<1>7. CASE Set(t)
  <2>1. Held(t, rx')
    BY <1>1, <1>5, CompactHeld
  <2> HIDE DEF t
  <2> QED BY <1>7, <2>1, SetHeld
<1> QED BY <1>2, <1>6, <1>7

\* keep, in its three ways, and refused.
LEMMA KeepHeld ==
    ASSUME Held(State, rx), Keep
    PROVE  Held(State, rx)'
<1>0. Rec(pr) /\ Own(pr) /\ State.r = pr
  BY DEF Held, IsState, State
<1>1. PICK n \in 1..LiveLen(State) :
        LET inCur  == ~pr.live_in_buf /\ (pr.run_len = 0 \/ pr.run_in_cur)
            s == IF pr.live_in_buf THEN KeepInBuf(State, n)
                 ELSE IF inCur THEN KeepInCur(State, n)
                 ELSE KeepAcross(State, n)
        IN \/ Set(Consume([s EXCEPT !.r.run_len = @ + n], n)) /\ rx' = rx
           \/ pr' = [pr EXCEPT !.error = "full"] /\ UNCHANGED <<mem, ring, rx>>
  BY DEF Keep, world
<1> DEFINE inCur == ~pr.live_in_buf /\ (pr.run_len = 0 \/ pr.run_in_cur)
           s == IF pr.live_in_buf THEN KeepInBuf(State, n)
                ELSE IF inCur THEN KeepInCur(State, n)
                ELSE KeepAcross(State, n)
           t == [s EXCEPT !.r.run_len = @ + n]
<1>2. CASE Set(Consume(t, n)) /\ rx' = rx
  <2>1. CASE pr.live_in_buf
    <3>1. s = KeepInBuf(State, n)
      BY <2>1
    <3>2. Held(s, rx) /\ (s.r.run_in_cur => s.r.has_cur)
      BY <3>1, KeepInBufHeld
    <3> HIDE DEF s
    <3> QED BY <3>2, LongerHeld, ConsumeHeld, SetHeld, <1>2
  <2>2. CASE ~pr.live_in_buf /\ inCur
    <3>1. s = KeepInCur(State, n)
      BY <2>2
    <3>2. State.r.has_cur
      BY <2>2, <1>0 DEF LiveLen, CurLen, Own
    <3>3. Held(s, rx) /\ (s.r.run_in_cur => s.r.has_cur)
      BY <3>1, <3>2, KeepInCurHeld
    <3> HIDE DEF s
    <3> QED BY <3>3, LongerHeld, ConsumeHeld, SetHeld, <1>2
  <2>3. CASE ~pr.live_in_buf /\ ~inCur
    <3>1. s = KeepAcross(State, n)
      BY <2>3
    <3>2. ~State.r.run_in_cur
      BY <2>3, <1>0
    <3>3. Held(s, rx) /\ (s.r.run_in_cur => s.r.has_cur)
      BY <3>1, <3>2, KeepAcrossHeld
    <3> HIDE DEF s
    <3> QED BY <3>3, LongerHeld, ConsumeHeld, SetHeld, <1>2
  <2> QED BY <2>1, <2>2, <2>3
<1>3. CASE pr' = [pr EXCEPT !.error = "full"] /\ UNCHANGED <<mem, ring, rx>>
  <2>1. Rec(pr')
    BY <1>0, <1>3 DEF Rec
  <2>2. Alike(pr', pr)
    BY <1>0, <1>3 DEF Rec, Alike
  <2> QED BY <1>3, <2>1, <2>2, ReaderHeld
<1> QED BY <1>1, <1>2, <1>3

\* run_begin: the run is frozen with its buffer pinned.
LEMMA RunBeginHeld ==
    ASSUME Held(State, rx), RunBegin
    PROVE  Held(State, rx)'
<1> DEFINE s == Pin(State)
           t == [s EXCEPT !.r.run_len = 0, !.r.run_in_cur = FALSE, !.r.began = TRUE]
<1>1. Set(CurDone(t)) /\ rx' = rx
  BY DEF RunBegin, world
<1>2. Held(s, rx)
  BY PinHeld
<1> HIDE DEF s
<1>3. IsState(s) /\ Own(s.r)
  BY <1>2 DEF Held
<1>4. IsState(t) /\ t.k = s.k
  BY <1>3 DEF IsState, Rec
<1>5. /\ t.r.cur = s.r.cur /\ t.r.has_cur = s.r.has_cur /\ t.r.cur_pos = s.r.cur_pos
      /\ t.r.pinned = s.r.pinned /\ t.r.has_pinned = s.r.has_pinned
      /\ t.r.cur_is_pinned = s.r.cur_is_pinned /\ t.r.run_len = 0
      /\ t.r.live_in_buf = s.r.live_in_buf /\ t.r.run_in_cur = FALSE
  BY <1>3 DEF IsState, Rec
<1> HIDE DEF t
<1>6. Held(t, rx)
  <2>1. t.r.live_in_buf \in BOOLEAN /\ (~t.r.has_cur => t.r.cur_pos = 0)
    BY <1>3, <1>5, Zenon DEF Own
  <2>2. t.r.run_in_cur \in BOOLEAN /\ ~t.r.run_in_cur
    BY <1>5, Zenon
  <2>3. t.r.run_len \in Nat
    BY <1>5
  <2> QED BY <1>2, <1>4, <1>5, <2>1, <2>2, <2>3, Same
<1> QED BY <1>1, <1>6, CurDoneHeld, SetHeld

\* release, before the buffers: the live bytes at the start of buf, no run and
\* no floor.
Lowered(s) ==
    LET n == s.r.buf_end - s.r.buf_pos
        v == IF s.r.live_in_buf
             THEN [s.r EXCEPT !.buf = Over(@, 0, Span(@, s.r.buf_pos, n)),
                              !.buf_end = n, !.buf_pos = 0]
             ELSE [s.r EXCEPT !.buf_pos = 0, !.buf_end = 0]
    IN [s EXCEPT !.r = [v EXCEPT !.run_len = 0, !.run_in_cur = FALSE, !.floor = 0,
                                 !.began = FALSE]]

LowerIs(s, t) ==
    /\ t.m = s.m /\ t.k = s.k /\ t.r.floor = 0 /\ t.r.buf_pos = 0
    /\ t.r.buf_end = (IF s.r.live_in_buf THEN s.r.buf_end - s.r.buf_pos ELSE 0)
    /\ t.r.buf = (IF s.r.live_in_buf
                  THEN Over(s.r.buf, 0, Span(s.r.buf, s.r.buf_pos, s.r.buf_end - s.r.buf_pos))
                  ELSE s.r.buf)
    /\ t.r.live_in_buf = s.r.live_in_buf
    /\ t.r.cur = s.r.cur /\ t.r.has_cur = s.r.has_cur /\ t.r.cur_pos = s.r.cur_pos
    /\ t.r.pinned = s.r.pinned /\ t.r.has_pinned = s.r.has_pinned
    /\ t.r.cur_is_pinned = s.r.cur_is_pinned
    /\ t.r.run_in_cur = FALSE /\ t.r.run_start = s.r.run_start /\ t.r.run_len = 0
    /\ t.r.error = s.r.error /\ t.r.began = FALSE

LEMMA LoweredIs ==
    ASSUME NEW s, NEW q, Held(s, q)
    PROVE  LowerIs(s, Lowered(s)) /\ Held(Lowered(s), q)
<1> DEFINE n == s.r.buf_end - s.r.buf_pos
           a == [s.r EXCEPT !.buf = Over(@, 0, Span(@, s.r.buf_pos, n)),
                            !.buf_end = n, !.buf_pos = 0]
           b == [s.r EXCEPT !.buf_pos = 0, !.buf_end = 0]
           v == IF s.r.live_in_buf THEN a ELSE b
           x == [v EXCEPT !.run_len = 0, !.run_in_cur = FALSE, !.floor = 0, !.began = FALSE]
           t == [s EXCEPT !.r = x]
<1>0. t = Lowered(s)
  BY DEF Lowered
<1>1. IsState(s) /\ Own(s.r) /\ Rec(s.r)
  BY DEF Held, IsState
<1>2. /\ Rec(v) /\ v.buf_pos = 0
      /\ v.buf_end = (IF s.r.live_in_buf THEN n ELSE 0)
      /\ v.buf = (IF s.r.live_in_buf THEN Over(s.r.buf, 0, Span(s.r.buf, s.r.buf_pos, n))
                  ELSE s.r.buf)
      /\ v.live_in_buf = s.r.live_in_buf
      /\ v.cur = s.r.cur /\ v.has_cur = s.r.has_cur /\ v.cur_pos = s.r.cur_pos
      /\ v.pinned = s.r.pinned /\ v.has_pinned = s.r.has_pinned
      /\ v.cur_is_pinned = s.r.cur_is_pinned
      /\ v.run_start = s.r.run_start /\ v.error = s.r.error
  <2>1. CASE s.r.live_in_buf
    BY <1>1, <2>1 DEF Rec
  <2>2. CASE ~s.r.live_in_buf
    BY <1>1, <2>2 DEF Rec
  <2> QED BY <2>1, <2>2
<1> HIDE DEF v
<1>3. /\ Rec(x) /\ x.run_len = 0 /\ x.run_in_cur = FALSE /\ x.floor = 0 /\ x.began = FALSE
      /\ x.buf_pos = v.buf_pos /\ x.buf_end = v.buf_end /\ x.buf = v.buf
      /\ x.live_in_buf = v.live_in_buf
      /\ x.cur = v.cur /\ x.has_cur = v.has_cur /\ x.cur_pos = v.cur_pos
      /\ x.pinned = v.pinned /\ x.has_pinned = v.has_pinned
      /\ x.cur_is_pinned = v.cur_is_pinned
      /\ x.run_start = v.run_start /\ x.error = v.error
  BY <1>2 DEF Rec
<1> HIDE DEF x
<1>4. IsState(t) /\ t.k = s.k /\ t.m = s.m /\ t.r = x
  BY <1>1, <1>3 DEF IsState
<1> HIDE DEF t
<1>5. LowerIs(s, t)
  BY <1>2, <1>3, <1>4, Zenon DEF LowerIs
<1>6. Held(t, q)
  <2>1. t.r.live_in_buf \in BOOLEAN /\ (~t.r.has_cur => t.r.cur_pos = 0)
    BY <1>1, <1>5, Zenon DEF Own, LowerIs
  <2>2. t.r.run_in_cur \in BOOLEAN /\ ~t.r.run_in_cur
    BY <1>5, Zenon DEF LowerIs
  <2>3. t.r.run_len \in Nat
    BY <1>5 DEF LowerIs
  <2> QED BY <1>4, <1>5, <2>1, <2>2, <2>3, Same DEF LowerIs
<1> QED BY <1>0, <1>5, <1>6

\* release: nothing is kept any more.
LEMMA ReleaseHeld ==
    ASSUME Held(State, rx), Release
    PROVE  Held(State, rx)'
<1>1. State.r = pr
  BY DEF State
<1>2. Set(CurDone(Unpin(Lowered(State)))) /\ rx' = rx
  BY <1>1 DEF Release, Lowered, world
<1>3. Held(Lowered(State), rx)
  BY LoweredIs
<1> QED BY <1>2, <1>3, UnpinHeld, CurDoneHeld, SetHeld

\* close: the current and the pinned buffer go back, once when they are one.
LEMMA CloseHeld ==
    ASSUME Held(State, rx), Close
    PROVE  Held(State, rx)'
<1> DEFINE mine == pr.has_cur /\ ~pr.cur_is_pinned
           s == IF mine THEN Return(State, pr.cur) ELSE State
           t == IF pr.has_pinned THEN Return(s, pr.pinned) ELSE s
           v == [Fresh EXCEPT !.error = "gone", !.eof = TRUE]
           u == [t EXCEPT !.r = v]
<1>1. Set(u) /\ rx' = rx
  BY DEF Close
<1>2. /\ State.r = pr /\ State.k = ring /\ IsState(State) /\ Own(pr)
      /\ ring \in [Buffers -> Nat] /\ rx \in Seq(Buffers) /\ Homes(ring, rx, pr)
  BY DEF Held, State
<1>3. (pr.has_cur => pr.cur \in Buffers) /\ (pr.has_pinned => pr.pinned \in Buffers)
  BY <1>2 DEF Own
<1>4. IsState(s) /\ s.k = IF mine THEN [ring EXCEPT ![pr.cur] = @ + 1] ELSE ring
  <2>1. CASE mine
    <3>1. s = Return(State, pr.cur) /\ pr.cur \in Buffers
      BY <2>1, <1>3
    <3>2. State.k \in [Buffers -> Nat]
      BY <1>2
    <3> HIDE DEF s
    <3>3. IsState(s) /\ s.k = [State.k EXCEPT ![pr.cur] = @ + 1]
      <4>1. IsState(State)
        BY <1>2
      <4>2. /\ IsState(Return(State, pr.cur))
            /\ Return(State, pr.cur).k = [State.k EXCEPT ![pr.cur] = @ + 1]
        BY <4>1, <3>1, <3>2, Returning
      <4> QED BY <3>1, <4>2
    <3>4. s.k = [ring EXCEPT ![pr.cur] = @ + 1]
      BY <1>2, <3>3
    <3> QED BY <2>1, <3>3, <3>4
  <2>2. CASE ~mine
    BY <2>2, <1>2
  <2> QED BY <2>1, <2>2
<1> HIDE DEF s
<1>5. s.k \in [Buffers -> Nat]
  BY <1>2, <1>3, <1>4
<1>6. IsState(t) /\ t.k = IF pr.has_pinned THEN [s.k EXCEPT ![pr.pinned] = @ + 1] ELSE s.k
  BY <1>3, <1>4, <1>5, Returning
<1> HIDE DEF t
<1>7. t.k \in [Buffers -> Nat]
  BY <1>3, <1>5, <1>6
<1>8. /\ Rec(v) /\ v.cur = None /\ v.pinned = None
      /\ v.has_cur = FALSE /\ v.has_pinned = FALSE /\ v.cur_is_pinned = FALSE
      /\ v.run_in_cur = FALSE /\ v.live_in_buf = FALSE /\ v.cur_pos = 0 /\ v.run_len = 0
  BY DEF Rec, Fresh
<1> HIDE DEF v
<1>9. IsState(u) /\ u.k = t.k /\ u.r = v
  BY <1>6, <1>8 DEF IsState
<1> HIDE DEF u
<1>10. Own(v)
  <2>1. {v.has_cur, v.has_pinned, v.cur_is_pinned, v.run_in_cur, v.live_in_buf} \subseteq BOOLEAN
    BY <1>8, Zenon
  <2>2. ~v.has_cur /\ ~v.has_pinned /\ ~v.cur_is_pinned /\ ~v.run_in_cur
    BY <1>8
  <2>3. v.run_len \in Nat
    BY <1>8
  <2> QED BY <1>8, <2>1, <2>2, <2>3 DEF Own
<1>11. Homes(t.k, rx, v)
  <2> SUFFICES ASSUME NEW b \in Buffers PROVE t.k[b] + Occ(rx, b) + Holder(v, b) = 1
    BY DEF Homes
  <2>1. ring[b] + Occ(rx, b) + Holder(pr, b) = 1 /\ ring[b] \in Nat
    BY <1>2 DEF Homes
  <2>2. Occ(rx, b) \in Nat
    BY <1>2, OccNat
  <2>3. b # None /\ Holder(v, b) = 0
    BY <1>8, PipeAssumption DEF None, Holder
  <2>4. s.k[b] = IF mine /\ b = pr.cur THEN ring[b] + 1 ELSE ring[b]
    BY <1>2, <1>3, <1>4
  <2>5. t.k[b] = IF pr.has_pinned /\ b = pr.pinned THEN s.k[b] + 1 ELSE s.k[b]
    BY <1>3, <1>5, <1>6
  <2>6. (mine => pr.cur # pr.pinned) /\ (pr.cur_is_pinned => pr.cur = pr.pinned)
    BY <1>2 DEF Own
  <2>7. (b = pr.cur => pr.has_cur) /\ (b = pr.pinned => pr.has_pinned)
    BY <1>2, <2>3 DEF Own
  <2>8. Holder(pr, b) = IF (mine /\ b = pr.cur) \/ (pr.has_pinned /\ b = pr.pinned)
                        THEN 1 ELSE 0
    BY <2>6, <2>7 DEF Holder
  <2>9. ~((mine /\ b = pr.cur) /\ (pr.has_pinned /\ b = pr.pinned))
    BY <2>6
  <2> HIDE DEF mine
  <2> QED BY <2>1, <2>2, <2>3, <2>4, <2>5, <2>8, <2>9
<1>12. Held(u, rx')
  BY <1>1, <1>2, <1>7, <1>9, <1>10, <1>11 DEF Held
<1> QED BY <1>1, <1>12, SetHeld

\* The other steps of the reader, and the end of the input.
LEMMA OthersHeld ==
    ASSUME Held(State, rx), MoreEnd \/ Examine \/ Drop \/ End
    PROVE  Held(State, rx)'
<1>1. Rec(pr)
  BY DEF Held, IsState, State
<1>2. CASE MoreEnd
  <2>1. PICK e : pr' = [pr EXCEPT !.eof = TRUE, !.error = e] /\ UNCHANGED <<mem, ring, rx>>
    BY <1>2 DEF MoreEnd, world
  <2>2. Rec(pr')
    BY <1>1, <2>1 DEF Rec
  <2>3. Alike(pr', pr)
    BY <1>1, <2>1 DEF Rec, Alike
  <2> QED BY <2>1, <2>2, <2>3, ReaderHeld
<1>3. CASE Examine
  <2>1. pr' = [pr EXCEPT !.examined = LiveLen(State)] /\ UNCHANGED <<mem, ring, rx>>
    BY <1>3 DEF Examine, world
  <2>2. Rec(pr')
    BY <1>1, <2>1 DEF Rec
  <2>3. Alike(pr', pr)
    BY <1>1, <2>1 DEF Rec, Alike
  <2> QED BY <2>1, <2>2, <2>3, ReaderHeld
<1>4. CASE Drop
  <2>1. PICK n : Set(Consume(State, n)) /\ rx' = rx
    BY <1>4 DEF Drop, world
  <2> QED BY <2>1, ConsumeHeld, SetHeld
<1>5. CASE End
  <2>1. UNCHANGED <<pr, mem, ring, rx>>
    BY <1>5 DEF End
  <2>2. Rec(pr') /\ Alike(pr', pr)
    BY <1>1, <2>1 DEF Alike
  <2> QED BY <2>1, <2>2, ReaderHeld
<1> QED BY <1>2, <1>3, <1>4, <1>5

\* All buffers are in the ring at first.
LEMMA InitHeld == Init => Held(State, rx)
<1> SUFFICES ASSUME Init PROVE Held(State, rx)
  OBVIOUS
<1>1. Rec(pr) /\ Own(pr)
  BY DEF Init, Fresh, Rec, Own
<1>2. IsState(State) /\ State.r = pr /\ State.k = ring
  BY <1>1 DEF IsState, State
<1>3. ring \in [Buffers -> Nat] /\ rx \in Seq(Buffers)
  BY DEF Init
<1>4. Homes(ring, rx, pr)
  <2> SUFFICES ASSUME NEW b \in Buffers PROVE ring[b] + Occ(rx, b) + Holder(pr, b) = 1
    BY DEF Homes
  <2>1. Occ(rx, b) = 0
    <3>1. {i \in 1..Len(rx) : rx[i] = b} = {}
      BY DEF Init
    <3> QED BY <3>1, FS_EmptySet DEF Occ
  <2>2. Holder(pr, b) = 0
    BY PipeAssumption DEF Init, Fresh, Holder, None
  <2>3. ring[b] = 1
    BY DEF Init
  <2> QED BY <2>1, <2>2, <2>3
<1> QED BY <1>1, <1>2, <1>3, <1>4 DEF Held

\* Each step keeps the buffers where the reader says they are.
LEMMA StepHeld ==
    ASSUME Held(State, rx), [Next]_vars
    PROVE  Held(State, rx)'
<1>1. CASE Deliver
  BY <1>1, DeliverHeld
<1>2. CASE MoreInPlace
  BY <1>2, MoreInPlaceHeld
<1>3. CASE MoreGathered
  BY <1>3, MoreGatheredHeld
<1>4. CASE Inject
  BY <1>4, InjectHeld
<1>5. CASE Keep
  BY <1>5, KeepHeld
<1>6. CASE RunBegin
  BY <1>6, RunBeginHeld
<1>7. CASE Release
  BY <1>7, ReleaseHeld
<1>8. CASE Close
  BY <1>8, CloseHeld
<1>9. CASE MoreEnd \/ Examine \/ Drop \/ End
  BY <1>9, OthersHeld
<1>10. CASE UNCHANGED vars
  <2>1. Rec(pr') /\ Alike(pr', pr) /\ UNCHANGED <<mem, ring, rx>>
    BY <1>10 DEF vars, Held, IsState, State, Alike
  <2> QED BY <2>1, ReaderHeld
<1> QED
  BY <1>1, <1>2, <1>3, <1>4, <1>5, <1>6, <1>7, <1>8, <1>9, <1>10
  DEF Next, More, Consumer

\* BuffersHaveOneHome.  Whatever is delivered, kept, gathered, pinned and let
\* go, in any order: each kernel buffer is in the ring once, in the queue, or
\* with the reader of lib/io/pipe.c.  None is returned twice, none is lost.
THEOREM BuffersHaveOneHome == Spec => []BufferHasOneHome
<1>1. Init => Held(State, rx)
  BY InitHeld
<1>2. Held(State, rx) /\ [Next]_vars => Held(State, rx)'
  BY StepHeld
<1>3. Held(State, rx) => BufferHasOneHome
  BY DEF Held, Homes, Occ, Holder, State, BufferHasOneHome
<1> QED BY <1>1, <1>2, <1>3, PTL DEF Spec

-----------------------------------------------------------------------------
(* The bytes.  The invariant is stated with n live bytes that are about to *)
(* be consumed: keep has moved them where they stay and does not count     *)
(* them as live any more, consume is yet to say so.  c bytes are consumed  *)
(* and g were given to the reader, ru is the run and fr the frozen bytes.  *)

Places == (Buffers \cup {"buf"}) \X Nat

Typed(s) ==
    /\ s.m \in [Buffers -> Seq(Nat)] /\ s.r.buf \in [1..Cap -> Nat]
    /\ s.r.floor \in Nat /\ s.r.buf_pos \in Nat /\ s.r.buf_end \in Nat
    /\ s.r.cur_pos \in Nat /\ s.r.run_start \in Nat /\ s.r.run_len \in Nat
    /\ s.r.began \in BOOLEAN

\* The indices, and what the flags say of them.
Fits(s, n) ==
    /\ s.r.floor <= Cap /\ s.r.buf_pos <= s.r.buf_end /\ s.r.buf_end <= Cap
    /\ s.r.live_in_buf => s.r.floor <= s.r.buf_pos + n /\ ~s.r.has_cur
    /\ s.r.has_cur => s.r.cur_pos <= Len(s.m[s.r.cur])
    /\ s.r.run_in_cur => /\ s.r.run_len > 0 /\ s.r.has_cur
                         /\ s.r.run_start + s.r.run_len <= s.r.cur_pos + n
    /\ ~s.r.run_in_cur /\ s.r.run_len > 0 => s.r.run_start + s.r.run_len = s.r.floor

\* The live bytes: those of the g that were given and not consumed, without
\* the first n.
Lives(s, n, c, g) ==
    /\ c \in Nat /\ g \in Nat /\ n \in Nat /\ c + n <= g /\ LiveLen(s) = g - c
    /\ s.r.live_in_buf => \A i \in (n + 1)..(g - c) : s.r.buf[s.r.buf_pos + i] = c + i
    /\ s.r.has_cur => \A i \in (n + 1)..(g - c) : s.m[s.r.cur][s.r.cur_pos + i] = c + i

\* The run, as it was kept.
Runs(s, ru) ==
    /\ ru \in Seq(Nat \X Places) /\ s.r.run_len = Len(ru)
    /\ s.r.run_in_cur => \A i \in 1..Len(ru) : s.m[s.r.cur][s.r.run_start + i] = ru[i][1]
    /\ ~s.r.run_in_cur => \A i \in 1..Len(ru) : s.r.buf[s.r.run_start + i] = ru[i][1]

\* Where a kept byte is: below the floor of buf, or in a kernel buffer.
InBuf(s, p) == p[2][1] = "buf" /\ p[2][2] \in 1..s.r.floor /\ s.r.buf[p[2][2]] = p[1]
InMem(s, p) == /\ p[2][1] \in Buffers /\ p[2][2] \in 1..Len(s.m[p[2][1]])
               /\ s.m[p[2][1]][p[2][2]] = p[1]

\* A frozen byte is in the pinned buffer, before all that is done there.
Frozen(s, p) ==
    InBuf(s, p) \/ /\ InMem(s, p) /\ s.r.has_pinned /\ p[2][1] = s.r.pinned
                   /\ s.r.cur_is_pinned => p[2][2] <= s.r.cur_pos
                   /\ s.r.run_in_cur /\ s.r.cur_is_pinned => p[2][2] <= s.r.run_start

\* A byte of the run is in the run, or was when the buffer was pinned.
Kept(s, p) ==
    InBuf(s, p) \/ /\ InMem(s, p)
                   /\ \/ s.r.has_pinned /\ p[2][1] = s.r.pinned
                      \/ /\ s.r.run_in_cur /\ p[2][1] = s.r.cur
                         /\ p[2][2] <= s.r.run_start + s.r.run_len

Stays(s, ru, fr) ==
    /\ fr \subseteq Nat \X Places
    /\ \A p \in fr : Frozen(s, p)
    /\ ~s.r.began => \A i \in 1..Len(ru) : Kept(s, ru[i])
    /\ ~s.r.began /\ s.r.has_pinned => s.r.run_len > 0 /\ ~s.r.run_in_cur /\ ~s.r.cur_is_pinned

Data(s, n, c, g, ru, fr) ==
    Typed(s) /\ Fits(s, n) /\ Lives(s, n, c, g) /\ Runs(s, ru) /\ Stays(s, ru, fr)

\* The queued buffers q hold the bytes from g on, up to the last that arrived.
Fed(q, m, g, t) ==
    \E o \in [0..Len(q) -> Nat] :
        /\ o[0] = g /\ o[Len(q)] = t
        /\ \A i \in 1..Len(q) : o[i - 1] <= o[i] /\ m[q[i]] = Bytes(o[i - 1], o[i] - o[i - 1])

Feed == pr.error = "none" => Fed(rx, mem, got, sent)

Good == Data(State, 0, consumed, got, run, frozen) /\ sent \in Nat /\ Feed
-----------------------------------------------------------------------------
(* Copies.                                                                 *)

\* What a copy out of a sequence reads,
LEMMA SpanIs ==
    ASSUME NEW q, NEW D \in Nat, DOMAIN q = 1..D, \A i \in 1..D : q[i] \in Nat,
           NEW at \in Nat, NEW n \in Nat
    PROVE  /\ Span(q, at, n) \in Seq(Nat) /\ Len(Span(q, at, n)) = n
           /\ \A i \in 1..n : at + i <= D => Span(q, at, n)[i] = q[at + i]
<1>1. Span(q, at, n) \in [1..n -> Nat]
  BY DEF Span, Lost
<1>2. \A i \in 1..n : at + i <= D => Span(q, at, n)[i] = q[at + i]
  BY DEF Span
<1> QED BY <1>1, <1>2

\* which are the n bytes x of w behind position at: all of them (TakenIn), or
\* those that w has (Taken).
TakenIn(x, w, at, n) ==
    x \in Seq(Nat) /\ Len(x) = n /\ \A i \in 1..n : x[i] = w[at + i]
Taken(x, w, at, n) ==
    /\ x \in Seq(Nat) /\ Len(x) = n
    /\ \A i \in 1..n : at + i <= Len(w) => x[i] = w[at + i]

LEMMA SpanBuf ==
    ASSUME NEW q, NEW D \in Nat, q \in [1..D -> Nat], NEW at \in Nat, NEW n \in Nat, at + n <= D
    PROVE  TakenIn(Span(q, at, n), q, at, n)
<1>1. DOMAIN q = 1..D /\ \A i \in 1..D : q[i] \in Nat
  OBVIOUS
<1>2. \A i \in 1..n : at + i <= D
  OBVIOUS
<1> QED BY <1>1, <1>2, SpanIs DEF TakenIn

LEMMA SpanSeq ==
    ASSUME NEW w \in Seq(Nat), NEW at \in Nat, NEW n \in Nat
    PROVE  Taken(Span(w, at, n), w, at, n)
<1>1. DOMAIN w = 1..Len(w) /\ Len(w) \in Nat /\ \A i \in 1..Len(w) : w[i] \in Nat
  OBVIOUS
<1>2. /\ Span(w, at, n) \in Seq(Nat) /\ Len(Span(w, at, n)) = n
      /\ \A i \in 1..n : at + i <= Len(w) => Span(w, at, n)[i] = w[at + i]
  BY <1>1, SpanIs
<1> QED BY <1>2 DEF Taken

\* and what a copy over one leaves: x is q, with ys behind position at.
Laid(x, q, D, at, ys) ==
    /\ x \in [1..D -> Nat]
    /\ \A i \in 1..D : x[i] = IF at < i /\ i <= at + Len(ys) THEN ys[i - at] ELSE q[i]

LEMMA OverIs ==
    ASSUME NEW q, NEW D \in Nat, q \in [1..D -> Nat], NEW at \in Nat, NEW ys \in Seq(Nat)
    PROVE  Laid(Over(q, at, ys), q, D, at, ys)
<1>1. DOMAIN q = 1..D /\ DOMAIN ys = 1..Len(ys) /\ Len(ys) \in Nat
  OBVIOUS
<1>2. \A i \in 1..D : i - at \in 1..Len(ys) <=> at < i /\ i <= at + Len(ys)
  BY <1>1
<1>3. \A i \in 1..D : i - at \in 1..Len(ys) => ys[i - at] \in Nat
  BY <1>1
<1>4. Over(q, at, ys) \in [1..D -> Nat]
  BY <1>1, <1>3 DEF Over
<1>5. \A i \in 1..D : Over(q, at, ys)[i]
                       = IF i - at \in DOMAIN ys THEN ys[i - at] ELSE q[i]
  BY <1>1 DEF Over
<1> QED BY <1>1, <1>2, <1>4, <1>5 DEF Laid

\* The same of a buffer of the kernel, a sequence.
LEMMA OverSeq ==
    ASSUME NEW q \in Seq(Nat), NEW at \in Nat, NEW ys \in Seq(Nat)
    PROVE  /\ Over(q, at, ys) \in Seq(Nat) /\ Len(Over(q, at, ys)) = Len(q)
           /\ \A i \in 1..Len(q) : Over(q, at, ys)[i]
                               = IF at < i /\ i <= at + Len(ys) THEN ys[i - at] ELSE q[i]
<1>1. q \in [1..Len(q) -> Nat] /\ Len(q) \in Nat
  OBVIOUS
<1>2. /\ Over(q, at, ys) \in [1..Len(q) -> Nat]
      /\ \A i \in 1..Len(q) : Over(q, at, ys)[i]
                               = IF at < i /\ i <= at + Len(ys) THEN ys[i - at] ELSE q[i]
  BY <1>1, OverIs DEF Laid
<1> QED BY <1>1, <1>2

\* The bytes behind the first a.
LEMMA BytesAre ==
    ASSUME NEW a \in Nat, NEW n \in Nat
    PROVE  /\ Bytes(a, n) \in Seq(Nat) /\ Len(Bytes(a, n)) = n
           /\ \A i \in 1..n : Bytes(a, n)[i] = a + i
<1>1. Bytes(a, n) \in [1..n -> Nat]
  BY DEF Bytes
<1> QED BY <1>1 DEF Bytes

-----------------------------------------------------------------------------
(* The queue and the reader have different buffers.                        *)

LEMMA Apart ==
    ASSUME NEW s, NEW q, Held(s, q), NEW i \in 1..Len(q)
    PROVE  q[i] \in Buffers /\ q[i] # s.r.cur /\ q[i] # s.r.pinned /\ s.k[q[i]] = 0
<1>1. /\ q \in Seq(Buffers) /\ s.k \in [Buffers -> Nat] /\ q[i] \in Buffers
      /\ Homes(s.k, q, s.r)
  BY DEF Held
<1> PICK b : b = q[i]
  OBVIOUS
<1>2. s.k[b] + Occ(q, b) + Holder(s.r, b) = 1 /\ s.k[b] \in Nat
  BY <1>1 DEF Homes
<1>3. Occ(q, b) \in Nat /\ Occ(q, b) # 0
  <2> DEFINE S == {j \in 1..Len(q) : q[j] = b}
  <2>1. IsFiniteSet(1..Len(q))
    BY FS_Interval, <1>1
  <2>2. IsFiniteSet(S)
    BY <2>1, FS_Subset
  <2>3. i \in S
    OBVIOUS
  <2> HIDE DEF S
  <2>4. Cardinality(S) # 0 /\ Cardinality(S) \in Nat
    BY <2>2, <2>3, FS_EmptySet, FS_CardinalityType
  <2> QED BY <2>4 DEF Occ, S
<1> QED BY <1>1, <1>2, <1>3 DEF Holder

\* The buffer at the head is queued once.
LEMMA HeadOnce ==
    ASSUME NEW s, NEW q, Held(s, q), q # <<>>, NEW i \in 2..Len(q)
    PROVE  q[i] # q[1]
<1>1. /\ q \in Seq(Buffers) /\ s.k \in [Buffers -> Nat] /\ Homes(s.k, q, s.r)
      /\ q[1] \in Buffers /\ q[i] \in Buffers /\ Head(q) = q[1]
  BY DEF Held
<1> SUFFICES ASSUME q[i] = q[1] PROVE FALSE
  OBVIOUS
<1> PICK b : b = q[1]
  OBVIOUS
<1>2. s.k[b] + Occ(q, b) + Holder(s.r, b) = 1 /\ s.k[b] \in Nat
  BY <1>1 DEF Homes
<1>3. Occ(q, b) = Occ(Tail(q), b) + 1
  BY <1>1, OccTail
<1>4. Occ(Tail(q), b) \in Nat /\ Occ(Tail(q), b) # 0
  <2> DEFINE S == {j \in 1..Len(Tail(q)) : Tail(q)[j] = b}
  <2>1. IsFiniteSet(1..Len(Tail(q)))
    BY FS_Interval, <1>1
  <2>2. IsFiniteSet(S)
    BY <2>1, FS_Subset
  <2>3. i - 1 \in S
    BY <1>1
  <2> HIDE DEF S
  <2>4. Cardinality(S) # 0 /\ Cardinality(S) \in Nat
    BY <2>2, <2>3, FS_EmptySet, FS_CardinalityType
  <2> QED BY <2>4 DEF Occ, S
<1> QED BY <1>1, <1>2, <1>3, <1>4 DEF Holder

-----------------------------------------------------------------------------
(* The helpers.                                                            *)

\* What cur_done, pin and unpin leave alone of the reader.
Beside(v, r) ==
    /\ v.buf = r.buf /\ v.floor = r.floor /\ v.live_in_buf = r.live_in_buf
    /\ v.buf_pos = r.buf_pos /\ v.buf_end = r.buf_end
    /\ v.run_in_cur = r.run_in_cur /\ v.run_start = r.run_start /\ v.run_len = r.run_len
    /\ v.error = r.error /\ v.began = r.began

\* The memory that the reader does not hold stays, and it holds nothing new.
Leaves(s, t) ==
    /\ \A b \in Buffers : b # s.r.cur /\ b # s.r.pinned => t.m[b] = s.m[b]
    /\ t.r.cur \in {s.r.cur, s.r.pinned, None} /\ t.r.pinned \in {s.r.cur, s.r.pinned, None}
    /\ t.r.error = s.r.error

\* ioxd__bufring_return, in the memory.
LEMMA ReturnIs ==
    ASSUME NEW s, IsState(s), NEW b \in Buffers, s.m \in [Buffers -> Seq(Nat)],
           s.k \in [Buffers -> Nat]
    PROVE  /\ IsState(Return(s, b)) /\ Return(s, b).r = s.r
           /\ Return(s, b).m = [s.m EXCEPT ![b] = <<>>]
<1>1. Return(s, b).m = [s.m EXCEPT ![b] = <<>>]
  BY DEF IsState, Return
<1> QED BY <1>1, Returning

\* The current buffer gone, its memory with it unless it is pinned.
LetsGo(s, d) ==
    /\ s.r.has_cur /\ s.r.cur_pos >= Len(s.m[s.r.cur]) /\ s.r.cur \in Buffers
    /\ ~(s.r.run_in_cur /\ s.r.run_len > 0)
    /\ d.r.has_cur = FALSE /\ d.r.cur_is_pinned = FALSE
    /\ d.r.cur_pos = 0 /\ d.r.cur = None
    /\ d.r.pinned = s.r.pinned /\ d.r.has_pinned = s.r.has_pinned
    /\ Beside(d.r, s.r)
    /\ d.m = IF s.r.cur_is_pinned THEN s.m ELSE [s.m EXCEPT ![s.r.cur] = <<>>]

\* cur_done, field by field.
LEMMA CurDoneIs ==
    ASSUME NEW s, NEW q, Held(s, q), Typed(s)
    PROVE  \/ /\ CurDone(s) = s
              /\ ~s.r.has_cur \/ s.r.cur_pos < Len(s.m[s.r.cur])
                 \/ (s.r.run_in_cur /\ s.r.run_len > 0)
           \/ LetsGo(s, CurDone(s))
<1> DEFINE stays == ~s.r.has_cur \/ s.r.cur_pos < CurLen(s) \/ (s.r.run_in_cur /\ s.r.run_len > 0)
           t == IF s.r.cur_is_pinned THEN s ELSE Return(s, s.r.cur)
           d == Gone(t)
<1>1. CASE stays
  BY <1>1 DEF CurDone, CurLen
<1>2. CASE ~stays
  <2>1. CurDone(s) = d
    BY <1>2 DEF CurDone, Gone
  <2>2. s.r.has_cur /\ s.r.cur \in Buffers /\ ~(s.r.run_in_cur /\ s.r.run_len > 0)
    BY <1>2 DEF Held, Own
  <2>3. s.r.cur_pos >= Len(s.m[s.r.cur])
    BY <1>2, <2>2 DEF CurLen, Typed
  <2>4. /\ IsState(t) /\ t.r = s.r
        /\ t.m = IF s.r.cur_is_pinned THEN s.m ELSE [s.m EXCEPT ![s.r.cur] = <<>>]
    BY <2>2, ReturnIs DEF Held, Typed
  <2> HIDE DEF t
  <2>5. /\ d.r.has_cur = FALSE /\ d.r.cur_is_pinned = FALSE /\ d.r.cur_pos = 0
        /\ d.r.cur = None /\ d.r.pinned = t.r.pinned /\ d.r.has_pinned = t.r.has_pinned
    BY <2>4, LetGo, Zenon
  <2>6. d.m = t.m
    BY <2>4 DEF Gone, IsState
  <2>7. Beside(d.r, t.r)
    BY <2>4 DEF Gone, IsState, Rec, Beside
  <2> HIDE DEF d, stays
  <2> QED BY <2>1, <2>2, <2>3, <2>4, <2>5, <2>6, <2>7 DEF LetsGo
<1> HIDE DEF stays
<1> QED BY <1>1, <1>2

\* cur_done: what goes with the buffer is neither live nor kept.
LEMMA CurDoneData ==
    ASSUME NEW s, NEW q, Held(s, q), NEW c, NEW g, NEW ru, NEW fr, Data(s, 0, c, g, ru, fr)
    PROVE  Data(CurDone(s), 0, c, g, ru, fr) /\ Leaves(s, CurDone(s))
<1> DEFINE d == CurDone(s)
<1>1. Typed(s) /\ Fits(s, 0) /\ Lives(s, 0, c, g) /\ Runs(s, ru) /\ Stays(s, ru, fr) /\ Own(s.r)
  BY DEF Data, Held
<1>2. CASE d = s
  BY <1>2 DEF Leaves
<1>3. CASE LetsGo(s, d)
  <2> HIDE DEF d
  <2>1. \A b \in Buffers : d.m[b] = IF b = s.r.cur /\ ~s.r.cur_is_pinned THEN <<>> ELSE s.m[b]
    BY <1>1, <1>3 DEF LetsGo, Typed
  <2>2. d.m \in [Buffers -> Seq(Nat)]
    BY <1>1, <1>3 DEF LetsGo, Typed
  <2>3. ~s.r.run_in_cur /\ ~d.r.run_in_cur /\ ~s.r.live_in_buf
    BY <1>1, <1>3 DEF LetsGo, Fits, Beside
  <2>4. Typed(d)
    BY <1>1, <1>3, <2>2 DEF LetsGo, Typed, Beside
  <2>5. Fits(d, 0)
    BY <1>1, <1>3, <2>3 DEF LetsGo, Fits, Beside, Typed
  <2>6. Lives(d, 0, c, g)
    BY <1>1, <1>3, <2>3, SMTT(30) DEF LetsGo, Lives, Beside, Typed, LiveLen, CurLen, Fits
  <2>7. Runs(d, ru)
    BY <1>1, <1>3, <2>3 DEF LetsGo, Runs, Beside
  <2>8. s.r.cur_is_pinned \/ s.r.cur # s.r.pinned
    BY <1>1, <1>3 DEF LetsGo, Own
  <2>9. \A p : InBuf(s, p) => InBuf(d, p)
    BY <1>3 DEF LetsGo, InBuf, Beside
  <2>10. \A p : InMem(s, p) /\ p[2][1] = s.r.pinned => InMem(d, p)
    BY <2>1, <2>8 DEF InMem
  <2>11. \A p \in fr : Frozen(d, p)
    BY <1>1, <1>3, <2>3, <2>9, <2>10 DEF LetsGo, Frozen, Stays
  <2>12. ~d.r.began => \A i \in 1..Len(ru) : Kept(d, ru[i])
    BY <1>1, <1>3, <2>3, <2>9, <2>10 DEF LetsGo, Kept, Stays, Beside
  <2>13. Stays(d, ru, fr)
    BY <1>1, <1>3, <2>3, <2>11, <2>12 DEF LetsGo, Stays, Beside
  <2>14. Leaves(s, d)
    BY <1>3, <2>1 DEF LetsGo, Leaves, Beside
  <2>15. Data(d, 0, c, g, ru, fr)
    BY <2>4, <2>5, <2>6, <2>7, <2>13 DEF Data
  <2> QED BY <2>14, <2>15 DEF d
<1>4. d = s \/ LetsGo(s, d)
  BY <1>1, CurDoneIs
<1> HIDE DEF d
<1> QED BY <1>2, <1>3, <1>4

\* What was kept is left alone: below the floor of buf, and in the buffers held.
Firm(s, t) ==
    /\ \A i \in 1..s.r.floor : t.r.buf[i] = s.r.buf[i]
    /\ \A b \in Buffers : b = s.r.cur \/ b = s.r.pinned => t.m[b] = s.m[b]
    /\ t.r.floor = s.r.floor /\ t.r.cur = s.r.cur /\ t.r.cur_is_pinned = s.r.cur_is_pinned
    /\ t.r.pinned = s.r.pinned /\ t.r.has_pinned = s.r.has_pinned /\ t.r.began = s.r.began
    /\ t.r.run_in_cur = s.r.run_in_cur /\ t.r.run_start = s.r.run_start
    /\ t.r.run_len = s.r.run_len
    /\ t.r.cur_pos \in Nat /\ s.r.cur_pos <= t.r.cur_pos

\* Then it stays, and the run is whole.
LEMMA StaysPut ==
    ASSUME NEW s, NEW t, NEW n, NEW ru, NEW fr, Stays(s, ru, fr), Runs(s, ru), Fits(s, n),
           Typed(s), Own(s.r), Firm(s, t)
    PROVE  Stays(t, ru, fr) /\ Runs(t, ru)
<1>1. \A p : InBuf(s, p) => InBuf(t, p)
  BY DEF InBuf, Firm
<1>2. \A p : InMem(s, p) /\ (p[2][1] = s.r.cur \/ p[2][1] = s.r.pinned) => InMem(t, p)
  BY DEF InMem, Firm
<1>3. \A p \in fr : Frozen(t, p)
  <2> SUFFICES ASSUME NEW p \in fr PROVE Frozen(t, p)
    OBVIOUS
  <2>1. p \in Nat \X Places /\ Frozen(s, p) /\ p[2][2] \in Nat
    BY DEF Stays, Places
  <2> QED BY <1>1, <1>2, <2>1 DEF Frozen, Typed, Firm
<1>4. ASSUME ~t.r.began, NEW i \in 1..Len(ru) PROVE Kept(t, ru[i])
  <2>1. Kept(s, ru[i])
    BY <1>4 DEF Stays, Firm
  <2> QED BY <1>1, <1>2, <2>1 DEF Kept, Firm
<1>5. Stays(t, ru, fr)
  BY <1>3, <1>4 DEF Stays, Firm
<1>6. Runs(t, ru)
  <2>1. ASSUME t.r.run_in_cur, NEW i \in 1..Len(ru)
        PROVE  t.m[t.r.cur][t.r.run_start + i] = ru[i][1]
    <3>1. s.m[s.r.cur][s.r.run_start + i] = ru[i][1]
      BY <2>1 DEF Runs, Firm
    <3>2. s.r.cur \in Buffers
      BY <2>1 DEF Fits, Firm, Own
    <3> QED BY <3>1, <3>2 DEF Firm
  <2>2. ASSUME ~t.r.run_in_cur, NEW i \in 1..Len(ru)
        PROVE  t.r.buf[t.r.run_start + i] = ru[i][1]
    <3>1. s.r.buf[s.r.run_start + i] = ru[i][1] /\ Len(ru) \in Nat /\ s.r.run_len = Len(ru)
      BY <2>2 DEF Runs, Firm
    <3>2. s.r.run_start + s.r.run_len = s.r.floor
      BY <2>2, <3>1 DEF Fits, Firm
    <3>3. s.r.run_start + i \in 1..s.r.floor
      BY <3>1, <3>2 DEF Typed
    <3> QED BY <3>1, <3>3 DEF Firm
  <2> QED BY <2>1, <2>2 DEF Runs, Firm
<1> QED BY <1>5, <1>6

\* The live bytes, without the next n.
LEMMA Fewer ==
    ASSUME NEW s, NEW c, NEW g, NEW ru, NEW fr, Data(s, 0, c, g, ru, fr),
           NEW n \in 1..LiveLen(s)
    PROVE  Data(s, n, c, g, ru, fr)
<1>1. n \in Nat /\ c \in Nat /\ g \in Nat /\ n <= g - c
  BY DEF Data, Lives
<1>2. Lives(s, n, c, g)
  BY <1>1 DEF Data, Lives
<1>3. Fits(s, n)
  <2>1. /\ s.r.floor \in Nat /\ s.r.buf_pos \in Nat /\ s.r.run_start + s.r.run_len \in Nat
        /\ s.r.cur_pos \in Nat
    BY DEF Data, Typed
  <2>2. s.r.live_in_buf => s.r.floor <= s.r.buf_pos + 0
    BY DEF Data, Fits
  <2>3. s.r.live_in_buf => s.r.floor <= s.r.buf_pos + n
    BY <1>1, <2>1, <2>2
  <2>4. s.r.run_in_cur => s.r.run_start + s.r.run_len <= s.r.cur_pos + 0
    BY DEF Data, Fits
  <2>5. s.r.run_in_cur => s.r.run_start + s.r.run_len <= s.r.cur_pos + n
    BY <1>1, <2>1, <2>4
  <2> QED BY <2>3, <2>5 DEF Data, Fits
<1> QED BY <1>2, <1>3 DEF Data

\* consume: what is live is one thing less, wherever it is.
LEMMA ConsumeData ==
    ASSUME NEW s, NEW q, Held(s, q), NEW n, NEW c, NEW g, NEW ru, NEW fr,
           Data(s, n, c, g, ru, fr)
    PROVE  Data(Consume(s, n), 0, c + n, g, ru, fr) /\ Leaves(s, Consume(s, n))
<1> DEFINE e == IF s.r.examined > n THEN s.r.examined - n ELSE 0
           w == [s EXCEPT !.r.buf_pos = s.r.floor, !.r.buf_end = s.r.floor,
                          !.r.live_in_buf = FALSE, !.r.examined = e]
           x == [s EXCEPT !.r.buf_pos = @ + n, !.r.examined = e]
           y == [s EXCEPT !.r.cur_pos = @ + n, !.r.examined = e]
           z == [s EXCEPT !.r.examined = e]
<1>1. /\ Typed(s) /\ Fits(s, n) /\ Lives(s, n, c, g) /\ Runs(s, ru) /\ Stays(s, ru, fr)
      /\ Own(s.r) /\ IsState(s)
  BY DEF Data, Held
<1>2. n \in Nat /\ c \in Nat /\ g \in Nat /\ c + n <= g /\ Len(ru) \in Nat
  BY <1>1 DEF Lives, Runs
<1> HIDE DEF e
<1>3. CASE s.r.live_in_buf /\ s.r.buf_pos + n >= s.r.buf_end
  <2>1. Consume(s, n) = w
    BY <1>3 DEF Consume, e
  <2>2. /\ w.m = s.m /\ w.r.buf_pos = s.r.floor /\ w.r.buf_end = s.r.floor
        /\ w.r.live_in_buf = FALSE /\ w.r.buf = s.r.buf /\ w.r.floor = s.r.floor
        /\ w.r.cur = s.r.cur /\ w.r.has_cur = s.r.has_cur /\ w.r.cur_pos = s.r.cur_pos
        /\ w.r.pinned = s.r.pinned /\ w.r.has_pinned = s.r.has_pinned
        /\ w.r.cur_is_pinned = s.r.cur_is_pinned /\ w.r.run_in_cur = s.r.run_in_cur
        /\ w.r.run_start = s.r.run_start /\ w.r.run_len = s.r.run_len
        /\ w.r.error = s.r.error /\ w.r.began = s.r.began
    BY <1>1 DEF IsState, Rec
  <2> HIDE DEF w
  <2>3. ~s.r.has_cur /\ s.r.cur_pos = 0 /\ c + n = g /\ s.r.buf_pos + n = s.r.buf_end
    <3>1. ~s.r.has_cur /\ s.r.cur_pos = 0
      BY <1>1, <1>3 DEF Fits, Own
    <3>2. g - c = s.r.buf_end - s.r.buf_pos /\ s.r.buf_end \in Nat /\ s.r.buf_pos \in Nat
      BY <1>1, <1>3 DEF Lives, LiveLen, Typed
    <3> QED BY <1>2, <1>3, <3>1, <3>2
  <2>4. Typed(w)
    BY <1>1, <2>2 DEF Typed
  <2>5. Fits(w, 0)
    BY <1>1, <1>3, <2>2, <2>3 DEF Fits, Typed
  <2>6. Lives(w, 0, c + n, g)
    <3>1. LiveLen(w) = 0
      BY <2>2, <2>3 DEF LiveLen, CurLen
    <3>2. g - (c + n) = 0 /\ c + n \in Nat /\ (c + n) + 0 <= g
      BY <1>2, <2>3
    <3> QED BY <1>2, <2>2, <2>3, <3>1, <3>2 DEF Lives
  <2>7. Firm(s, w)
    BY <1>1, <1>2, <2>2 DEF Firm, Typed
  <2>8. Runs(w, ru) /\ Stays(w, ru, fr)
    BY <1>1, <2>7, StaysPut
  <2>9. Leaves(s, w)
    BY <2>2 DEF Leaves
  <2> QED BY <2>1, <2>4, <2>5, <2>6, <2>7, <2>8, <2>9 DEF Data
<1>4. CASE s.r.live_in_buf /\ ~(s.r.buf_pos + n >= s.r.buf_end)
  <2>1. Consume(s, n) = x
    BY <1>4 DEF Consume, e
  <2>2. /\ x.m = s.m /\ x.r.buf_pos = s.r.buf_pos + n /\ x.r.buf_end = s.r.buf_end
        /\ x.r.live_in_buf = s.r.live_in_buf /\ x.r.buf = s.r.buf /\ x.r.floor = s.r.floor
        /\ x.r.cur = s.r.cur /\ x.r.has_cur = s.r.has_cur /\ x.r.cur_pos = s.r.cur_pos
        /\ x.r.pinned = s.r.pinned /\ x.r.has_pinned = s.r.has_pinned
        /\ x.r.cur_is_pinned = s.r.cur_is_pinned /\ x.r.run_in_cur = s.r.run_in_cur
        /\ x.r.run_start = s.r.run_start /\ x.r.run_len = s.r.run_len
        /\ x.r.error = s.r.error /\ x.r.began = s.r.began
    BY <1>1 DEF IsState, Rec
  <2> HIDE DEF x
  <2>3. ~s.r.has_cur
    BY <1>1, <1>4 DEF Fits
  <2>4. Typed(x)
    BY <1>1, <1>2, <2>2 DEF Typed
  <2>5. Fits(x, 0)
    BY <1>1, <1>2, <1>4, <2>2, <2>3 DEF Fits, Typed
  <2>6. Lives(x, 0, c + n, g)
    <3>1. c + n \in Nat /\ c + n <= g /\ LiveLen(x) = g - (c + n)
      <4>1. g - c = s.r.buf_end - s.r.buf_pos /\ s.r.buf_end \in Nat /\ s.r.buf_pos \in Nat
        BY <1>1, <1>4 DEF Lives, LiveLen, Typed
      <4>2. LiveLen(x) = s.r.buf_end - (s.r.buf_pos + n)
        BY <1>4, <2>2 DEF LiveLen
      <4> QED BY <1>2, <4>1, <4>2
    <3>2. ASSUME NEW i \in 1..(g - (c + n)) PROVE x.r.buf[x.r.buf_pos + i] = (c + n) + i
      <4>1. n + i \in (n + 1)..(g - c)
        BY <1>2
      <4>2. s.r.buf[s.r.buf_pos + (n + i)] = c + (n + i)
        BY <1>1, <1>4, <4>1 DEF Lives
      <4>3. s.r.buf_pos + (n + i) = x.r.buf_pos + i /\ c + (n + i) = (c + n) + i
        <5>1. s.r.buf_pos \in Nat /\ x.r.buf_pos = s.r.buf_pos + n
          BY <1>1, <2>2 DEF Typed
        <5> QED BY <1>2, <5>1
      <4> QED BY <2>2, <4>2, <4>3
    <3> QED BY <1>2, <2>2, <2>3, <3>1, <3>2 DEF Lives
  <2>7. Firm(s, x)
    BY <1>1, <1>2, <2>2 DEF Firm, Typed
  <2>8. Runs(x, ru) /\ Stays(x, ru, fr)
    BY <1>1, <2>7, StaysPut
  <2>9. Leaves(s, x)
    BY <2>2 DEF Leaves
  <2> QED BY <2>1, <2>4, <2>5, <2>6, <2>7, <2>8, <2>9 DEF Data
<1>5. CASE ~s.r.live_in_buf /\ s.r.has_cur
  <2>1. Consume(s, n) = CurDone(y)
    BY <1>5 DEF Consume, e
  <2>2. /\ y.m = s.m /\ y.r.buf_pos = s.r.buf_pos /\ y.r.buf_end = s.r.buf_end
        /\ y.r.live_in_buf = s.r.live_in_buf /\ y.r.buf = s.r.buf /\ y.r.floor = s.r.floor
        /\ y.r.cur = s.r.cur /\ y.r.has_cur = s.r.has_cur /\ y.r.cur_pos = s.r.cur_pos + n
        /\ y.r.pinned = s.r.pinned /\ y.r.has_pinned = s.r.has_pinned
        /\ y.r.cur_is_pinned = s.r.cur_is_pinned /\ y.r.run_in_cur = s.r.run_in_cur
        /\ y.r.run_start = s.r.run_start /\ y.r.run_len = s.r.run_len
        /\ y.r.error = s.r.error /\ y.r.began = s.r.began
    BY <1>1 DEF IsState, Rec
  <2>3. IsState(y) /\ y.k = s.k
    BY <1>1 DEF IsState, Rec
  <2> HIDE DEF y
  <2>4. Held(y, q)
    BY <1>1, <1>5, <2>2, <2>3, Same DEF Own
  <2>5. Typed(y)
    BY <1>1, <1>2, <2>2 DEF Typed
  <2>6. LiveLen(s) = Len(s.m[s.r.cur]) - s.r.cur_pos /\ Len(s.m[s.r.cur]) \in Nat
    BY <1>1, <1>5 DEF LiveLen, CurLen, Typed, Own
  <2>7. Fits(y, 0)
    BY <1>1, <1>2, <1>5, <2>2, <2>6, SMTT(30) DEF Fits, Typed, Lives
  <2>8. Lives(y, 0, c + n, g)
    <3>1. c + n \in Nat /\ c + n <= g /\ LiveLen(y) = g - (c + n)
      <4>1. PICK l \in Nat : l = Len(s.m[s.r.cur])
        BY <2>6
      <4>2. g - c = l - s.r.cur_pos /\ s.r.cur_pos \in Nat
        BY <1>1, <2>6, <4>1 DEF Lives, Typed
      <4>3. LiveLen(y) = l - (s.r.cur_pos + n)
        BY <1>5, <2>2, <4>1 DEF LiveLen, CurLen
      <4> QED BY <1>2, <4>2, <4>3
    <3>2. ASSUME NEW i \in 1..(g - (c + n)) PROVE y.m[y.r.cur][y.r.cur_pos + i] = (c + n) + i
      <4>1. n + i \in (n + 1)..(g - c)
        BY <1>2
      <4>2. s.m[s.r.cur][s.r.cur_pos + (n + i)] = c + (n + i)
        BY <1>1, <1>5, <4>1 DEF Lives
      <4>3. s.r.cur_pos + (n + i) = y.r.cur_pos + i /\ c + (n + i) = (c + n) + i
        BY <1>1, <1>2, <2>2 DEF Typed
      <4> QED BY <2>2, <4>2, <4>3
    <3> QED BY <1>2, <1>5, <2>2, <3>1, <3>2 DEF Lives
  <2>9. Firm(s, y)
    BY <1>1, <1>2, <2>2 DEF Firm, Typed
  <2>10. Runs(y, ru) /\ Stays(y, ru, fr)
    BY <1>1, <2>9, StaysPut
  <2>11. Data(y, 0, c + n, g, ru, fr)
    BY <2>5, <2>7, <2>8, <2>9, <2>10 DEF Data
  <2>12. Data(CurDone(y), 0, c + n, g, ru, fr) /\ Leaves(y, CurDone(y))
    BY <2>4, <2>11, CurDoneData
  <2>13. Leaves(s, CurDone(y))
    BY <2>2, <2>12 DEF Leaves
  <2> QED BY <2>1, <2>12, <2>13
<1>6. CASE ~s.r.live_in_buf /\ ~s.r.has_cur
  <2>1. Consume(s, n) = z
    BY <1>6 DEF Consume, e
  <2>2. /\ z.m = s.m /\ z.r.buf_pos = s.r.buf_pos /\ z.r.buf_end = s.r.buf_end
        /\ z.r.live_in_buf = s.r.live_in_buf /\ z.r.buf = s.r.buf /\ z.r.floor = s.r.floor
        /\ z.r.cur = s.r.cur /\ z.r.has_cur = s.r.has_cur /\ z.r.cur_pos = s.r.cur_pos
        /\ z.r.pinned = s.r.pinned /\ z.r.has_pinned = s.r.has_pinned
        /\ z.r.cur_is_pinned = s.r.cur_is_pinned /\ z.r.run_in_cur = s.r.run_in_cur
        /\ z.r.run_start = s.r.run_start /\ z.r.run_len = s.r.run_len
        /\ z.r.error = s.r.error /\ z.r.began = s.r.began
    BY <1>1 DEF IsState, Rec
  <2> HIDE DEF z
  <2>3. n = 0 /\ c = g
    BY <1>1, <1>2, <1>6 DEF Lives, LiveLen, CurLen, Own
  <2>4. Typed(z)
    BY <1>1, <2>2 DEF Typed
  <2>5. Fits(z, 0)
    BY <1>1, <1>6, <2>2, <2>3 DEF Fits, Typed
  <2>6. Lives(z, 0, c + n, g)
    BY <1>1, <1>2, <1>6, <2>2, <2>3 DEF Lives, LiveLen, CurLen
  <2>7. Firm(s, z)
    BY <1>1, <1>2, <2>2 DEF Firm, Typed
  <2>8. Runs(z, ru) /\ Stays(z, ru, fr)
    BY <1>1, <2>7, StaysPut
  <2>9. Leaves(s, z)
    BY <2>2 DEF Leaves
  <2> QED BY <2>1, <2>4, <2>5, <2>6, <2>7, <2>8, <2>9 DEF Data
<1> QED BY <1>3, <1>4, <1>5, <1>6

\* compact, field by field.
LEMMA CompactIs ==
    ASSUME NEW s, IsState(s)
    PROVE  LET t == [s EXCEPT !.r = Compact(@)]
               r == s.r
               n == r.buf_end - r.buf_pos IN
           /\ t.m = s.m /\ t.r = Compact(r)
           /\ t.r.floor = r.floor /\ t.r.live_in_buf = r.live_in_buf
           /\ t.r.cur = r.cur /\ t.r.has_cur = r.has_cur /\ t.r.cur_pos = r.cur_pos
           /\ t.r.pinned = r.pinned /\ t.r.has_pinned = r.has_pinned
           /\ t.r.cur_is_pinned = r.cur_is_pinned /\ t.r.run_in_cur = r.run_in_cur
           /\ t.r.run_start = r.run_start /\ t.r.run_len = r.run_len
           /\ t.r.error = r.error /\ t.r.began = r.began
           /\ ~(r.buf_pos > r.floor) =>
                t.r.buf = r.buf /\ t.r.buf_pos = r.buf_pos /\ t.r.buf_end = r.buf_end
           /\ r.buf_pos > r.floor =>
                /\ t.r.buf = Over(r.buf, r.floor, Span(r.buf, r.buf_pos, n))
                /\ t.r.buf_pos = r.floor /\ t.r.buf_end = r.buf_end - (r.buf_pos - r.floor)
<1> DEFINE v == Compact(s.r)
           t == [s EXCEPT !.r = v]
<1>1. t.m = s.m /\ t.r = v
  BY DEF IsState
<1>2. /\ v.floor = s.r.floor /\ v.live_in_buf = s.r.live_in_buf
      /\ v.cur = s.r.cur /\ v.has_cur = s.r.has_cur /\ v.cur_pos = s.r.cur_pos
      /\ v.pinned = s.r.pinned /\ v.has_pinned = s.r.has_pinned
      /\ v.cur_is_pinned = s.r.cur_is_pinned /\ v.run_in_cur = s.r.run_in_cur
      /\ v.run_start = s.r.run_start /\ v.run_len = s.r.run_len
      /\ v.error = s.r.error /\ v.began = s.r.began
  BY DEF IsState, Rec, Compact
<1>3. ~(s.r.buf_pos > s.r.floor) => v = s.r
  BY DEF Compact
<1>4. ASSUME s.r.buf_pos > s.r.floor
      PROVE  /\ v.buf = Over(s.r.buf, s.r.floor,
                             Span(s.r.buf, s.r.buf_pos, s.r.buf_end - s.r.buf_pos))
             /\ v.buf_pos = s.r.floor /\ v.buf_end = s.r.buf_end - (s.r.buf_pos - s.r.floor)
  BY <1>4 DEF IsState, Rec, Compact
<1> HIDE DEF v
<1>5. /\ t.m = s.m /\ t.r = v
      /\ t.r.floor = s.r.floor /\ t.r.live_in_buf = s.r.live_in_buf
      /\ t.r.cur = s.r.cur /\ t.r.has_cur = s.r.has_cur /\ t.r.cur_pos = s.r.cur_pos
      /\ t.r.pinned = s.r.pinned /\ t.r.has_pinned = s.r.has_pinned
      /\ t.r.cur_is_pinned = s.r.cur_is_pinned /\ t.r.run_in_cur = s.r.run_in_cur
      /\ t.r.run_start = s.r.run_start /\ t.r.run_len = s.r.run_len
      /\ t.r.error = s.r.error /\ t.r.began = s.r.began
      /\ ~(s.r.buf_pos > s.r.floor) =>
           t.r.buf = s.r.buf /\ t.r.buf_pos = s.r.buf_pos /\ t.r.buf_end = s.r.buf_end
      /\ s.r.buf_pos > s.r.floor =>
           /\ t.r.buf = Over(s.r.buf, s.r.floor,
                             Span(s.r.buf, s.r.buf_pos, s.r.buf_end - s.r.buf_pos))
           /\ t.r.buf_pos = s.r.floor /\ t.r.buf_end = s.r.buf_end - (s.r.buf_pos - s.r.floor)
  BY <1>1, <1>2, <1>3, <1>4, Zenon
<1> QED BY <1>5 DEF v

\* compact: the live bytes slide down to the floor.
LEMMA CompactData ==
    ASSUME NEW s, NEW q, Held(s, q), NEW c, NEW g, NEW ru, NEW fr, Data(s, 0, c, g, ru, fr),
           s.r.live_in_buf
    PROVE  LET t == [s EXCEPT !.r = Compact(@)] IN
           /\ Data(t, 0, c, g, ru, fr) /\ Leaves(s, t) /\ t.r.live_in_buf
           /\ t.r.buf_end <= s.r.buf_end /\ t.m = s.m /\ t.r.cur = s.r.cur
           /\ t.r.pinned = s.r.pinned
<1> DEFINE t == [s EXCEPT !.r = Compact(@)]
           n == s.r.buf_end - s.r.buf_pos
<1>1. /\ Typed(s) /\ Fits(s, 0) /\ Lives(s, 0, c, g) /\ Runs(s, ru) /\ Stays(s, ru, fr)
      /\ Own(s.r) /\ IsState(s)
  BY DEF Data, Held
<1>2. /\ t.m = s.m
      /\ t.r.floor = s.r.floor /\ t.r.live_in_buf = s.r.live_in_buf
      /\ t.r.cur = s.r.cur /\ t.r.has_cur = s.r.has_cur /\ t.r.cur_pos = s.r.cur_pos
      /\ t.r.pinned = s.r.pinned /\ t.r.has_pinned = s.r.has_pinned
      /\ t.r.cur_is_pinned = s.r.cur_is_pinned /\ t.r.run_in_cur = s.r.run_in_cur
      /\ t.r.run_start = s.r.run_start /\ t.r.run_len = s.r.run_len
      /\ t.r.error = s.r.error /\ t.r.began = s.r.began
      /\ ~(s.r.buf_pos > s.r.floor) =>
           t.r.buf = s.r.buf /\ t.r.buf_pos = s.r.buf_pos /\ t.r.buf_end = s.r.buf_end
      /\ s.r.buf_pos > s.r.floor =>
           /\ t.r.buf = Over(s.r.buf, s.r.floor, Span(s.r.buf, s.r.buf_pos, n))
           /\ t.r.buf_pos = s.r.floor /\ t.r.buf_end = s.r.buf_end - (s.r.buf_pos - s.r.floor)
  BY <1>1, CompactIs
<1>3. /\ s.r.floor \in Nat /\ s.r.buf_pos \in Nat /\ s.r.buf_end \in Nat /\ Cap \in Nat
      /\ s.r.floor <= s.r.buf_pos /\ s.r.buf_pos <= s.r.buf_end
      /\ s.r.buf_end <= Cap /\ ~s.r.has_cur /\ g - c = n /\ n \in Nat
  <2>1. /\ s.r.floor \in Nat /\ s.r.buf_pos \in Nat /\ s.r.buf_end \in Nat /\ Cap \in Nat
    BY <1>1, PipeAssumption DEF Typed
  <2>2. /\ s.r.floor <= s.r.buf_pos + 0 /\ s.r.buf_pos <= s.r.buf_end
        /\ s.r.buf_end <= Cap /\ ~s.r.has_cur
    BY <1>1 DEF Fits
  <2>3. g - c = n
    BY <1>1 DEF Lives, LiveLen
  <2> QED BY <2>1, <2>2, <2>3
<1>4. CASE ~(s.r.buf_pos > s.r.floor)
  <2> HIDE DEF t
  <2>1. Firm(s, t)
    BY <1>1, <1>2, <1>4 DEF Firm, Typed
  <2>2. Typed(t)
    BY <1>1, <1>2, <1>4 DEF Typed
  <2>3. Fits(t, 0)
    BY <1>1, <1>2, <1>3, <1>4 DEF Fits
  <2>4. Lives(t, 0, c, g)
    BY <1>1, <1>2, <1>3, <1>4 DEF Lives, LiveLen
  <2>5. Data(t, 0, c, g, ru, fr)
    BY <1>1, <2>1, <2>2, <2>3, <2>4, StaysPut DEF Data
  <2>6. Leaves(s, t) /\ t.r.buf_end <= s.r.buf_end /\ t.r.live_in_buf
    BY <1>2, <1>3, <1>4 DEF Leaves
  <2> QED BY <1>2, <2>5, <2>6 DEF t
<1>5. CASE s.r.buf_pos > s.r.floor
  <2> DEFINE ys == Span(s.r.buf, s.r.buf_pos, n)
  <2> HIDE DEF t, n
  <2>1. /\ ys \in Seq(Nat) /\ Len(ys) = n
        /\ \A i \in 1..n : s.r.buf_pos + i <= Cap => ys[i] = s.r.buf[s.r.buf_pos + i]
    <3>1. /\ DOMAIN s.r.buf = 1..Cap /\ (\A i \in 1..Cap : s.r.buf[i] \in Nat) /\ Cap \in Nat
          /\ s.r.buf_pos \in Nat /\ n \in Nat
      BY <1>1, <1>3 DEF Typed
    <3> QED BY <3>1, SpanIs, ZenonT(40)
  <2>2. /\ t.r.buf \in [1..Cap -> Nat]
        /\ \A i \in 1..Cap : t.r.buf[i] = IF s.r.floor < i /\ i <= s.r.floor + Len(ys)
                                          THEN ys[i - s.r.floor] ELSE s.r.buf[i]
    <3>1. s.r.buf \in [1..Cap -> Nat] /\ s.r.floor \in Nat /\ Cap \in Nat /\ ys \in Seq(Nat)
      BY <1>1, <1>3, <2>1 DEF Typed
    <3>2. t.r.buf = Over(s.r.buf, s.r.floor, ys)
      BY <1>2, <1>5
    <3> HIDE DEF ys
    <3>3. /\ Over(s.r.buf, s.r.floor, ys) \in [1..Cap -> Nat]
          /\ \A i \in 1..Cap : Over(s.r.buf, s.r.floor, ys)[i]
                 = IF s.r.floor < i /\ i <= s.r.floor + Len(ys)
                   THEN ys[i - s.r.floor] ELSE s.r.buf[i]
      BY <3>1, OverIs, ZenonT(40) DEF Laid
    <3> QED BY <3>2, <3>3, Zenon
  <2> HIDE DEF ys
  <2>3. /\ t.r.buf_pos = s.r.floor /\ t.r.buf_end = s.r.buf_end - (s.r.buf_pos - s.r.floor)
        /\ t.r.buf_end = s.r.floor + n /\ t.r.buf_end <= s.r.buf_end
        /\ s.r.floor + n <= Cap /\ s.r.buf_pos + n = s.r.buf_end
    <3>1. t.r.buf_pos = s.r.floor /\ t.r.buf_end = s.r.buf_end - (s.r.buf_pos - s.r.floor)
      BY <1>2, <1>5
    <3> QED BY <1>3, <1>5, <3>1 DEF n
  <2>4. Firm(s, t)
    <3>1. ASSUME NEW i \in 1..s.r.floor PROVE t.r.buf[i] = s.r.buf[i]
      <4>1. i \in 1..Cap /\ ~(s.r.floor < i)
        BY <1>3
      <4> QED BY <2>2, <4>1
    <3>2. s.r.cur_pos \in Nat /\ s.r.cur_pos <= s.r.cur_pos
      BY <1>1 DEF Typed
    <3> QED BY <1>2, <3>1, <3>2 DEF Firm
  <2>5. Typed(t)
    <3>1. t.r.buf_pos \in Nat /\ t.r.buf_end \in Nat
      BY <1>3, <2>3
    <3> QED BY <1>1, <1>2, <2>2, <3>1 DEF Typed
  <2>6. Fits(t, 0)
    BY <1>1, <1>2, <1>3, <2>3 DEF Fits
  <2>7. ASSUME NEW i \in 1..(g - c) PROVE t.r.buf[t.r.buf_pos + i] = c + i
    <3>1. i \in 1..n /\ s.r.floor + i \in 1..Cap /\ s.r.buf_pos + i <= Cap
      BY <1>3, <2>3
    <3>2. t.r.buf[s.r.floor + i] = ys[i]
      <4>1. s.r.floor < s.r.floor + i /\ s.r.floor + i <= s.r.floor + Len(ys)
            /\ (s.r.floor + i) - s.r.floor = i
        BY <1>3, <2>1, <3>1, SMTT(30)
      <4> QED BY <2>2, <3>1, <4>1
    <3>3. s.r.buf[s.r.buf_pos + i] = c + i
      BY <1>1 DEF Lives
    <3> QED BY <2>1, <2>3, <3>1, <3>2, <3>3
  <2>8. Lives(t, 0, c, g)
    BY <1>1, <1>2, <1>3, <2>3, <2>7 DEF Lives, LiveLen
  <2>9. Data(t, 0, c, g, ru, fr)
    BY <1>1, <2>4, <2>5, <2>6, <2>8, StaysPut DEF Data
  <2>10. Leaves(s, t) /\ t.r.live_in_buf
    BY <1>2 DEF Leaves
  <2> QED BY <1>2, <2>3, <2>9, <2>10 DEF t
<1> QED BY <1>4, <1>5

\* The bytes behind the first g.
Follows(ys, g) == ys \in Seq(Nat) /\ \A i \in 1..Len(ys) : ys[i] = g + i

\* What follows the live bytes in buf is appended to them.
LEMMA AppendData ==
    ASSUME NEW s, NEW q, Held(s, q), NEW c \in Nat, NEW g \in Nat, NEW ru, NEW fr,
           Data(s, 0, c, g, ru, fr), s.r.live_in_buf, NEW ys, Follows(ys, g), HasRoom(s, Len(ys))
    PROVE  /\ Data(AppendLive(s, ys), 0, c, g + Len(ys), ru, fr)
           /\ Leaves(s, AppendLive(s, ys))
<1> DEFINE t == IF s.r.buf_end + Len(ys) <= Cap THEN s ELSE [s EXCEPT !.r = Compact(@)]
           u == [t EXCEPT !.r.buf = Over(@, t.r.buf_end, ys), !.r.buf_end = @ + Len(ys)]
<1>1. AppendLive(s, ys) = u
  BY DEF AppendLive
<1>2. /\ Data(t, 0, c, g, ru, fr) /\ Leaves(s, t) /\ t.r.live_in_buf /\ Held(t, q)
      /\ t.m = s.m /\ t.r.cur = s.r.cur /\ t.r.pinned = s.r.pinned
      /\ t.r.buf_end + Len(ys) <= Cap
  <2>1. CASE s.r.buf_end + Len(ys) <= Cap
    BY <2>1 DEF Leaves
  <2>2. CASE ~(s.r.buf_end + Len(ys) <= Cap)
    <3>1. t = [s EXCEPT !.r = Compact(@)]
      BY <2>2
    <3>2. t.r = Compact(s.r)
      BY <3>1, CompactIs, ZenonT(40) DEF Held
    <3>3. t.r.buf_end + Len(ys) <= Cap
      BY <2>2, <3>2 DEF HasRoom
    <3> HIDE DEF t
    <3>4. Held(t, q)
      BY <3>1, CompactHeld
    <3> QED BY <3>1, <3>3, <3>4, CompactData
  <2> QED BY <2>1, <2>2
<1> HIDE DEF t
<1>3. /\ Typed(t) /\ Fits(t, 0) /\ Lives(t, 0, c, g) /\ Runs(t, ru) /\ Stays(t, ru, fr)
      /\ Own(t.r) /\ IsState(t)
  BY <1>2 DEF Data, Held
<1>4. /\ u.m = t.m /\ u.r.buf_pos = t.r.buf_pos /\ u.r.buf_end = t.r.buf_end + Len(ys)
      /\ u.r.live_in_buf = t.r.live_in_buf /\ u.r.buf = Over(t.r.buf, t.r.buf_end, ys)
      /\ u.r.floor = t.r.floor
      /\ u.r.cur = t.r.cur /\ u.r.has_cur = t.r.has_cur /\ u.r.cur_pos = t.r.cur_pos
      /\ u.r.pinned = t.r.pinned /\ u.r.has_pinned = t.r.has_pinned
      /\ u.r.cur_is_pinned = t.r.cur_is_pinned /\ u.r.run_in_cur = t.r.run_in_cur
      /\ u.r.run_start = t.r.run_start /\ u.r.run_len = t.r.run_len
      /\ u.r.error = t.r.error /\ u.r.began = t.r.began
  BY <1>3 DEF IsState, Rec
<1> HIDE DEF u
<1>0. PICK l \in Nat : l = Len(ys)
  BY DEF Follows
<1>5. PICK f \in Nat, p \in Nat, e \in Nat, z \in Nat :
        f = t.r.floor /\ p = t.r.buf_pos /\ e = t.r.buf_end /\ z = Cap
  BY <1>3, PipeAssumption DEF Typed
<1>6. /\ f <= p /\ p <= e /\ e + l <= z /\ c <= g /\ g - c = e - p /\ ~t.r.has_cur
  <2>1. f <= p + 0 /\ p <= e /\ ~t.r.has_cur
    BY <1>2, <1>3, <1>5 DEF Fits
  <2>2. c + 0 <= g /\ g - c = e - p
    <3>1. c + 0 <= g /\ LiveLen(t) = g - c
      BY <1>3 DEF Lives
    <3>2. LiveLen(t) = e - p
      BY <1>2, <1>5 DEF LiveLen
    <3> QED BY <3>1, <3>2
  <2>3. e + l <= z
    <3>1. t.r.buf_end + Len(ys) <= Cap
      BY <1>2
    <3> QED BY <1>0, <1>5, <3>1, Zenon
  <2> QED BY <2>1, <2>2, <2>3
<1>7. /\ u.r.buf \in [1..z -> Nat]
      /\ \A i \in 1..z : u.r.buf[i] = IF e < i /\ i <= e + l THEN ys[i - e] ELSE t.r.buf[i]
  <2>1. t.r.buf \in [1..z -> Nat] /\ ys \in Seq(Nat)
    BY <1>3, <1>5 DEF Typed, Follows
  <2>2. Laid(Over(t.r.buf, e, ys), t.r.buf, z, e, ys)
    BY <2>1, OverIs
  <2>3. u.r.buf = Over(t.r.buf, e, ys)
    BY <1>4, <1>5
  <2> QED BY <1>0, <2>2, <2>3 DEF Laid
<1>8. Firm(t, u)
  <2>1. ASSUME NEW i \in 1..f PROVE u.r.buf[i] = t.r.buf[i]
    <3>1. i \in 1..z /\ ~(e < i)
      BY <1>6
    <3> QED BY <1>7, <3>1
  <2>2. t.r.cur_pos \in Nat /\ t.r.cur_pos <= t.r.cur_pos
    BY <1>3 DEF Typed
  <2> QED BY <1>4, <1>5, <2>1, <2>2 DEF Firm
<1>9. Typed(u)
  <2>1. u.r.buf_end \in Nat
    BY <1>0, <1>4, <1>5
  <2> QED BY <1>3, <1>4, <1>5, <1>7, <2>1 DEF Typed
<1>10. Fits(u, 0)
  <2>1. u.r.buf_pos <= u.r.buf_end /\ u.r.buf_end <= Cap
    <3>1. p <= e + l /\ e + l <= z
      BY <1>6
    <3> QED BY <1>0, <1>4, <1>5, <3>1
  <2> QED BY <1>3, <1>4, <2>1 DEF Fits
<1>11. Lives(u, 0, c, g + l)
  <2>1. ASSUME NEW i \in (0 + 1)..((g + l) - c) PROVE u.r.buf[u.r.buf_pos + i] = c + i
    <3>0. i \in 1..((g + l) - c) /\ u.r.buf_pos = p
      BY <1>4, <1>5
    <3>1. p + i \in 1..z
      BY <1>6, <3>0
    <3>2. CASE i <= g - c
      <4>1. i \in 1..(g - c) /\ ~(e < p + i)
        BY <3>0, <3>2, <1>6
      <4>2. t.r.buf[p + i] = c + i
        BY <4>1, <1>2, <1>3, <1>5 DEF Lives
      <4> QED BY <1>7, <3>0, <3>1, <4>1, <4>2
    <3>3. CASE ~(i <= g - c)
      <4>1. /\ e < p + i /\ p + i <= e + l /\ (p + i) - e = i - (g - c)
            /\ i - (g - c) \in 1..l /\ g + (i - (g - c)) = c + i
        BY <3>0, <3>3, <1>6, SMTT(30)
      <4>2. ys[i - (g - c)] = g + (i - (g - c))
        BY <1>0, <4>1 DEF Follows
      <4>3. u.r.buf[p + i] = ys[(p + i) - e]
        BY <1>7, <3>1, <4>1
      <4> QED BY <3>0, <4>1, <4>2, <4>3
    <3> QED BY <3>2, <3>3
  <2>2. LiveLen(u) = (g + l) - c
    <3>1. LiveLen(u) = (e + l) - p
      BY <1>0, <1>2, <1>4, <1>5 DEF LiveLen
    <3> QED BY <3>1, <1>6
  <2>3. c + 0 <= g + l /\ g + l \in Nat
    BY <1>6
  <2>4. ~u.r.has_cur
    BY <1>4, <1>6
  <2> QED BY <2>1, <2>2, <2>3, <2>4 DEF Lives
<1>12. Runs(u, ru) /\ Stays(u, ru, fr)
  BY <1>3, <1>8, StaysPut
<1>13. Data(u, 0, c, g + Len(ys), ru, fr)
  BY <1>0, <1>9, <1>10, <1>11, <1>12 DEF Data
<1>14. Leaves(s, u)
  BY <1>2, <1>4 DEF Leaves
<1> QED BY <1>1, <1>13, <1>14

\* Pinning, field by field.
LEMMA PinIs ==
    ASSUME NEW s, IsState(s)
    PROVE  /\ Pin(s).m = s.m /\ IsState(Pin(s)) /\ Beside(Pin(s).r, s.r)
           /\ Pin(s).r.cur = s.r.cur /\ Pin(s).r.has_cur = s.r.has_cur
           /\ Pin(s).r.cur_pos = s.r.cur_pos
           /\ RunInCur(s) > 0 /\ ~s.r.has_pinned =>
                /\ Pin(s).r.pinned = s.r.cur /\ Pin(s).r.has_pinned = TRUE
                /\ Pin(s).r.cur_is_pinned = TRUE
           /\ ~(RunInCur(s) > 0 /\ ~s.r.has_pinned) => Pin(s) = s
<1>1. CASE ~(RunInCur(s) > 0 /\ ~s.r.has_pinned)
  BY <1>1 DEF Pin, Beside
<1>2. CASE RunInCur(s) > 0 /\ ~s.r.has_pinned
  <2> DEFINE t == [s EXCEPT !.r.pinned = s.r.cur, !.r.has_pinned = TRUE,
                            !.r.cur_is_pinned = TRUE]
  <2>1. Pin(s) = t
    BY <1>2 DEF Pin
  <2>2. t.m = s.m /\ IsState(t)
    BY DEF IsState, Rec
  <2>3. Beside(t.r, s.r)
    BY DEF IsState, Rec, Beside
  <2>4. /\ t.r.cur = s.r.cur /\ t.r.has_cur = s.r.has_cur /\ t.r.cur_pos = s.r.cur_pos
        /\ t.r.pinned = s.r.cur /\ t.r.has_pinned = TRUE /\ t.r.cur_is_pinned = TRUE
    BY DEF IsState, Rec
  <2> HIDE DEF t
  <2> QED BY <1>2, <2>1, <2>2, <2>3, <2>4
<1> QED BY <1>1, <1>2

\* gather, field by field: buf with a run of n bytes and l live ones at the
\* floor f, everything else in its place.
Gathers(s, d, f, n, l) ==
    LET h == s.r.cur
        x == Span(s.m[h], s.r.run_start, n)
        y == Span(s.m[h], s.r.cur_pos, l)
        w == n > 0 /\ ~s.r.has_pinned IN
    /\ d.r.buf = Over(Over(s.r.buf, f, x), f + n, y)
    /\ d.r.floor = f + n /\ d.r.buf_pos = f + n /\ d.r.buf_end = (f + n) + l
    /\ d.r.live_in_buf = TRUE /\ d.r.run_in_cur = FALSE
    /\ d.r.run_start = IF n > 0 THEN f ELSE s.r.run_start
    /\ d.r.run_len = s.r.run_len /\ d.r.error = s.r.error /\ d.r.began = s.r.began
    /\ d.r.has_cur = FALSE /\ d.r.cur = None /\ d.r.cur_pos = 0 /\ d.r.cur_is_pinned = FALSE
    /\ d.r.pinned = IF w THEN h ELSE s.r.pinned
    /\ d.r.has_pinned = IF w THEN TRUE ELSE s.r.has_pinned
    /\ d.m = IF w \/ s.r.cur_is_pinned THEN s.m ELSE [s.m EXCEPT ![h] = <<>>]

LEMMA GatherIs ==
    ASSUME NEW s, NEW q, Held(s, q), NEW c, NEW g, NEW ru, NEW fr, Data(s, 0, c, g, ru, fr),
           s.r.has_cur, NEW f \in Nat, NEW n \in Nat, NEW l \in Nat,
           f = s.r.floor, n = RunInCur(s), l = Len(s.m[s.r.cur]) - s.r.cur_pos
    PROVE  Gathers(s, Gather(s), f, n, l)
<1> DEFINE x == Span(s.m[s.r.cur], s.r.run_start, n)
           y == Span(s.m[s.r.cur], s.r.cur_pos, l)
           t == Pin(s)
           v == [t.r EXCEPT !.buf = Over(Over(@, f, x), f + n, y),
                            !.run_start = IF n > 0 THEN f ELSE @,
                            !.floor = f + n, !.run_in_cur = FALSE,
                            !.buf_pos = f + n, !.buf_end = (f + n) + Len(y),
                            !.live_in_buf = TRUE, !.cur_pos = Len(s.m[s.r.cur])]
           u == [t EXCEPT !.r = v]
           d == CurDone(u)
<1>1. /\ Typed(s) /\ Fits(s, 0) /\ Own(s.r) /\ IsState(s) /\ s.r.cur \in Buffers
      /\ CurLen(s) = Len(s.m[s.r.cur])
  BY DEF Data, Held, Own, CurLen
<1>2. Gather(s) = d
  BY <1>1 DEF Gather
<1>3. Held(t, q) /\ IsState(t)
  BY PinHeld DEF Held
<1>4. /\ t.m = s.m /\ Beside(t.r, s.r)
      /\ t.r.cur = s.r.cur /\ t.r.has_cur = s.r.has_cur /\ t.r.cur_pos = s.r.cur_pos
      /\ n > 0 /\ ~s.r.has_pinned =>
           t.r.pinned = s.r.cur /\ t.r.has_pinned = TRUE /\ t.r.cur_is_pinned = TRUE
      /\ ~(n > 0 /\ ~s.r.has_pinned) => t = s
  BY <1>1, PinIs
<1>5. y \in Seq(Nat) /\ Len(y) = l /\ x \in Seq(Nat)
  <2>1. s.m[s.r.cur] \in Seq(Nat) /\ s.r.run_start \in Nat /\ s.r.cur_pos \in Nat
    BY <1>1 DEF Typed
  <2>2. Taken(x, s.m[s.r.cur], s.r.run_start, n)
    BY <2>1, SpanSeq
  <2>3. Taken(y, s.m[s.r.cur], s.r.cur_pos, l)
    BY <2>1, SpanSeq
  <2> QED BY <2>2, <2>3 DEF Taken
<1> HIDE DEF x, y, t
<1>6. Rec(v)
  BY <1>3 DEF IsState, Rec
<1>7. /\ v.cur = t.r.cur /\ v.has_cur = t.r.has_cur
      /\ v.pinned = t.r.pinned /\ v.has_pinned = t.r.has_pinned
      /\ v.cur_is_pinned = t.r.cur_is_pinned /\ v.run_len = t.r.run_len
      /\ v.live_in_buf = TRUE /\ v.run_in_cur = FALSE
      /\ v.buf = Over(Over(t.r.buf, f, x), f + n, y) /\ v.floor = f + n
      /\ v.buf_pos = f + n /\ v.buf_end = (f + n) + Len(y)
      /\ v.run_start = IF n > 0 THEN f ELSE t.r.run_start
      /\ v.cur_pos = Len(s.m[s.r.cur]) /\ v.error = t.r.error /\ v.began = t.r.began
  BY <1>3 DEF IsState, Rec
<1> HIDE DEF v
<1>8. IsState(u) /\ u.k = t.k /\ u.r = v /\ u.m = t.m
  BY <1>3, <1>6 DEF IsState
<1> HIDE DEF u
<1>9. Held(u, q)
  <2>1. t.r.run_len \in Nat
    BY <1>3 DEF Held, Own
  <2>2. u.r.live_in_buf \in BOOLEAN /\ u.r.run_in_cur \in BOOLEAN /\ ~u.r.run_in_cur
    BY <1>7, <1>8, Zenon
  <2>3. u.r.has_cur
    BY <1>4, <1>7, <1>8
  <2> QED BY <1>3, <1>7, <1>8, <2>1, <2>2, <2>3, Same
<1>10. Typed(u)
  <2>1. s.r.buf \in [1..Cap -> Nat] /\ Cap \in Nat
    BY <1>1, PipeAssumption DEF Typed
  <2>2. Laid(Over(s.r.buf, f, x), s.r.buf, Cap, f, x)
    BY <1>5, <2>1, OverIs
  <2>3. Over(s.r.buf, f, x) \in [1..Cap -> Nat] /\ f + n \in Nat
    BY <2>2 DEF Laid
  <2>4. Laid(Over(Over(s.r.buf, f, x), f + n, y), Over(s.r.buf, f, x), Cap, f + n, y)
    BY <1>5, <2>1, <2>3, OverIs
  <2>5. u.r.buf \in [1..Cap -> Nat]
    BY <1>4, <1>7, <1>8, <2>4 DEF Laid, Beside
  <2>6. /\ u.r.floor \in Nat /\ u.r.buf_pos \in Nat /\ u.r.buf_end \in Nat
        /\ u.r.cur_pos \in Nat /\ u.r.run_start \in Nat
    <3>1. f + n \in Nat /\ (f + n) + l \in Nat
      OBVIOUS
    <3>2. s.m[s.r.cur] \in Seq(Nat) /\ s.r.run_start \in Nat
      BY <1>1 DEF Typed
    <3>3. Len(s.m[s.r.cur]) \in Nat
      BY <3>2
    <3> QED BY <1>4, <1>5, <1>7, <1>8, <3>1, <3>2, <3>3 DEF Beside
  <2> QED BY <1>1, <1>4, <1>7, <1>8, <2>5, <2>6 DEF Typed, Beside
<1>11. u.r.has_cur /\ ~u.r.run_in_cur /\ ~(u.r.cur_pos < Len(u.m[u.r.cur]))
  <2>1. Len(s.m[s.r.cur]) \in Nat
    <3>1. s.m[s.r.cur] \in Seq(Nat)
      BY <1>1 DEF Typed
    <3> QED BY <3>1
  <2>2. u.r.cur_pos = Len(s.m[s.r.cur]) /\ u.m[u.r.cur] = s.m[s.r.cur]
    BY <1>4, <1>7, <1>8
  <2>3. u.r.has_cur /\ ~u.r.run_in_cur
    BY <1>4, <1>7, <1>8
  <2> QED BY <2>1, <2>2, <2>3
<1>12. LetsGo(u, d)
  BY <1>9, <1>10, <1>11, CurDoneIs
<1> HIDE DEF d
<1>13. /\ d.r.pinned = t.r.pinned /\ d.r.has_pinned = t.r.has_pinned
       /\ d.r.has_cur = FALSE /\ d.r.cur = None /\ d.r.cur_pos = 0
       /\ d.r.cur_is_pinned = FALSE
       /\ d.m = IF t.r.cur_is_pinned THEN s.m ELSE [s.m EXCEPT ![s.r.cur] = <<>>]
  BY <1>4, <1>7, <1>8, <1>12 DEF LetsGo
<1>14. /\ d.r.buf = Over(Over(s.r.buf, f, x), f + n, y)
       /\ d.r.floor = f + n /\ d.r.buf_pos = f + n /\ d.r.buf_end = (f + n) + l
       /\ d.r.live_in_buf = TRUE /\ d.r.run_in_cur = FALSE
       /\ d.r.run_start = IF n > 0 THEN f ELSE s.r.run_start
       /\ d.r.run_len = s.r.run_len /\ d.r.error = s.r.error /\ d.r.began = s.r.began
  BY <1>4, <1>5, <1>7, <1>8, <1>12 DEF LetsGo, Beside
<1>15. CASE n > 0 /\ ~s.r.has_pinned
  <2>1. /\ d.r.pinned = s.r.cur /\ d.r.has_pinned = TRUE /\ d.m = s.m
    BY <1>4, <1>13, <1>15
  <2> QED BY <1>2, <1>13, <1>14, <1>15, <2>1 DEF Gathers, x, y
<1>16. CASE ~(n > 0 /\ ~s.r.has_pinned)
  <2>1. t = s
    BY <1>4, <1>16
  <2>2. /\ d.r.pinned = s.r.pinned /\ d.r.has_pinned = s.r.has_pinned
        /\ d.m = IF s.r.cur_is_pinned THEN s.m ELSE [s.m EXCEPT ![s.r.cur] = <<>>]
    BY <1>13, <2>1
  <2> QED BY <1>2, <1>13, <1>14, <1>16, <2>2 DEF Gathers, x, y
<1> QED BY <1>15, <1>16

\* gather: the run and the live bytes are in buf, one behind the other.
LEMMA GatherData ==
    ASSUME NEW s, NEW q, Held(s, q), NEW c \in Nat, NEW g \in Nat, NEW ru, NEW fr,
           Data(s, 0, c, g, ru, fr), s.r.has_cur, CanGather(s)
    PROVE  /\ Data(Gather(s), 0, c, g, ru, fr) /\ Leaves(s, Gather(s))
           /\ Gather(s).r.live_in_buf
<1> DEFINE d == Gather(s)
           h == s.r.cur
<1>1. /\ Typed(s) /\ Fits(s, 0) /\ Lives(s, 0, c, g) /\ Runs(s, ru) /\ Stays(s, ru, fr)
      /\ Own(s.r) /\ IsState(s) /\ h \in Buffers
  BY DEF Data, Held, Own
<1>2. s.m[h] \in Seq(Nat) /\ s.m \in [Buffers -> Seq(Nat)] /\ s.r.buf \in [1..Cap -> Nat]
  BY <1>1 DEF Typed
<1>3. PICK z \in Nat, f \in Nat, p \in Nat, b \in Nat, k \in Nat, r \in Nat :
        /\ z = Cap /\ f = s.r.floor /\ p = s.r.cur_pos /\ b = Len(s.m[h])
        /\ k = s.r.run_len /\ r = s.r.run_start
  <2>1. Len(s.m[h]) \in Nat
    BY <1>2
  <2> QED BY <1>1, <2>1, PipeAssumption DEF Typed
<1>4. ~s.r.live_in_buf /\ p <= b /\ f <= z
  BY <1>1, <1>3 DEF Fits
<1>5. PICK l \in Nat : l = b - p
  BY <1>4
<1>6. PICK n \in Nat : n = RunInCur(s) /\ n = IF s.r.run_in_cur THEN k ELSE 0
  BY <1>3 DEF RunInCur
<1>7. l = g - c /\ c <= g /\ l = Len(s.m[h]) - s.r.cur_pos
  <2>1. LiveLen(s) = g - c /\ c + 0 <= g
    BY <1>1 DEF Lives
  <2>2. LiveLen(s) = b - p
    BY <1>3, <1>4 DEF LiveLen, CurLen
  <2> QED BY <1>3, <1>5, <2>1, <2>2
<1>8. (f + n) + l <= z
  <2>1. s.r.floor + RunInCur(s) + (CurLen(s) - s.r.cur_pos) <= Cap /\ CurLen(s) = Len(s.m[h])
    BY DEF CanGather, CurLen
  <2>2. f + n + (b - p) <= z
    BY <1>3, <1>6, <2>1
  <2> QED BY <1>5, <2>2
<1>9. Gathers(s, d, f, n, l)
  BY <1>3, <1>6, <1>7, GatherIs
<1> HIDE DEF d
<1> DEFINE x == Span(s.m[h], s.r.run_start, n)
           y == Span(s.m[h], s.r.cur_pos, l)
           o == Over(s.r.buf, f, x)
<1>10. Taken(x, s.m[h], r, n) /\ Taken(y, s.m[h], p, l)
  BY <1>2, <1>3, SpanSeq
<1>11. Laid(o, s.r.buf, z, f, x) /\ Laid(d.r.buf, o, z, f + n, y)
  <2>1. x \in Seq(Nat) /\ y \in Seq(Nat) /\ s.r.buf \in [1..z -> Nat]
    BY <1>2, <1>3, <1>10 DEF Taken
  <2>2. d.r.buf = Over(o, f + n, y)
    BY <1>9 DEF Gathers
  <2> HIDE DEF x, y
  <2>3. Laid(o, s.r.buf, z, f, x)
    BY <2>1, OverIs
  <2>4. o \in [1..z -> Nat] /\ f + n \in Nat
    BY <2>3 DEF Laid
  <2> HIDE DEF o
  <2>5. Laid(Over(o, f + n, y), o, z, f + n, y)
    BY <2>1, <2>4, OverIs
  <2> QED BY <2>2, <2>3, <2>5
<1> HIDE DEF x, y, o
<1>12. d.r.buf \in [1..z -> Nat]
  BY <1>11 DEF Laid
<1>13. ASSUME NEW i \in 1..z, i <= f PROVE d.r.buf[i] = s.r.buf[i]
  <2>1. ~(f < i) /\ ~(f + n < i)
    BY <1>13
  <2> QED BY <1>11, <2>1 DEF Laid
<1>14. ASSUME NEW i \in 1..n, r + i <= b PROVE d.r.buf[f + i] = s.m[h][r + i]
  <2>1. f + i \in 1..z /\ f < f + i /\ f + i <= f + n /\ ~(f + n < f + i) /\ (f + i) - f = i
    BY <1>8
  <2>2. Len(x) = n /\ x[i] = s.m[h][r + i]
    BY <1>3, <1>10, <1>14 DEF Taken
  <2>3. o[f + i] = x[i]
    BY <1>11, <2>1, <2>2 DEF Laid
  <2>4. d.r.buf[f + i] = o[f + i]
    BY <1>11, <2>1 DEF Laid
  <2> QED BY <2>2, <2>3, <2>4
<1>15. ASSUME NEW i \in 1..l PROVE d.r.buf[(f + n) + i] = s.m[h][p + i]
  <2>1. /\ (f + n) + i \in 1..z /\ f + n < (f + n) + i /\ (f + n) + i <= (f + n) + l
        /\ ((f + n) + i) - (f + n) = i /\ p + i <= b
    BY <1>4, <1>5, <1>8
  <2>2. Len(y) = l /\ y[i] = s.m[h][p + i]
    BY <1>3, <1>10, <2>1 DEF Taken
  <2> QED BY <1>11, <2>1, <2>2 DEF Laid
<1>16. /\ d.r.floor = f + n /\ d.r.buf_pos = f + n /\ d.r.buf_end = (f + n) + l
       /\ d.r.live_in_buf = TRUE /\ d.r.run_in_cur = FALSE
       /\ d.r.run_start = IF n > 0 THEN f ELSE r
       /\ d.r.run_len = k /\ d.r.error = s.r.error /\ d.r.began = s.r.began
       /\ d.r.has_cur = FALSE /\ d.r.cur = None /\ d.r.cur_pos = 0 /\ d.r.cur_is_pinned = FALSE
  BY <1>3, <1>9 DEF Gathers
<1> DEFINE w == n > 0 /\ ~s.r.has_pinned
<1>17. /\ d.r.pinned = IF w THEN h ELSE s.r.pinned
       /\ d.r.has_pinned = IF w THEN TRUE ELSE s.r.has_pinned
       /\ d.m = IF w \/ s.r.cur_is_pinned THEN s.m ELSE [s.m EXCEPT ![h] = <<>>]
  BY <1>9 DEF Gathers
<1>18. d.m \in [Buffers -> Seq(Nat)]
  BY <1>1, <1>2, <1>17
<1>19. \A e \in Buffers : d.m[e] = IF e = h /\ ~w /\ ~s.r.cur_is_pinned THEN <<>> ELSE s.m[e]
  BY <1>1, <1>2, <1>17
<1> HIDE DEF w, h
<1>20. s.r.run_in_cur => k > 0 /\ r + k <= p /\ n = k
  <2>1. s.r.run_in_cur => k > 0 /\ r + k <= p + 0
    BY <1>1, <1>3 DEF Fits
  <2> QED BY <1>6, <2>1
<1>21. ~s.r.run_in_cur => n = 0 /\ (k > 0 => r + k = f)
  BY <1>1, <1>3, <1>6 DEF Fits
<1>22. Typed(d)
  <2>1. f + n \in Nat /\ (f + n) + l \in Nat
    OBVIOUS
  <2>2. /\ d.r.floor \in Nat /\ d.r.buf_pos \in Nat /\ d.r.buf_end \in Nat
        /\ d.r.cur_pos \in Nat /\ d.r.run_start \in Nat /\ d.r.run_len \in Nat
    BY <1>16, <2>1
  <2>3. d.r.began \in BOOLEAN
    BY <1>1, <1>16, Zenon DEF Typed
  <2>4. d.r.buf \in [1..Cap -> Nat]
    BY <1>3, <1>12, Zenon
  <2> QED BY <1>18, <2>2, <2>3, <2>4, Zenon DEF Typed
<1>23. Fits(d, 0)
  <2>1. f + n <= z /\ f + n <= (f + n) + l /\ f + n <= (f + n) + 0
    BY <1>8
  <2>2. k > 0 => (IF n > 0 THEN f ELSE r) + k = f + n
    BY <1>20, <1>21
  <2>3. ~d.r.has_cur /\ ~d.r.run_in_cur
    BY <1>16
  <2> QED BY <1>3, <1>8, <1>16, <2>1, <2>2, <2>3 DEF Fits
<1>24. Lives(d, 0, c, g)
  <2>1. LiveLen(d) = g - c
    <3>1. LiveLen(d) = ((f + n) + l) - (f + n)
      BY <1>16 DEF LiveLen
    <3> QED BY <1>7, <3>1
  <2>2. ASSUME NEW i \in (0 + 1)..(g - c) PROVE d.r.buf[d.r.buf_pos + i] = c + i
    <3>1. i \in 1..l
      BY <1>7
    <3>2. s.m[s.r.cur][s.r.cur_pos + i] = c + i
      BY <1>1 DEF Lives
    <3> QED BY <1>3, <1>15, <1>16, <3>1, <3>2 DEF h
  <2>3. ~d.r.has_cur /\ c + 0 <= g
    BY <1>7, <1>16
  <2> QED BY <2>1, <2>2, <2>3 DEF Lives
<1>25. Runs(d, ru)
  <2>1. ru \in Seq(Nat \X Places) /\ k = Len(ru)
    BY <1>1, <1>3 DEF Runs
  <2>2. ASSUME NEW i \in 1..k PROVE d.r.buf[d.r.run_start + i] = ru[i][1]
    <3>1. CASE s.r.run_in_cur
      <4>1. i \in 1..n /\ r + i <= b /\ n > 0
        BY <1>4, <1>20, <3>1
      <4>2. s.m[h][r + i] = ru[i][1]
        BY <1>1, <1>3, <2>1, <3>1 DEF Runs, h
      <4> QED BY <1>14, <1>16, <4>1, <4>2
    <3>2. CASE ~s.r.run_in_cur
      <4>1. r + i \in 1..z /\ r + i <= f /\ ~(n > 0)
        BY <1>4, <1>21, <3>2
      <4>2. s.r.buf[r + i] = ru[i][1]
        BY <1>1, <1>3, <2>1, <3>2 DEF Runs
      <4> QED BY <1>13, <1>16, <4>1, <4>2
    <3> QED BY <3>1, <3>2
  <2> QED BY <1>16, <2>1, <2>2 DEF Runs
<1>26. \A a : InBuf(s, a) => InBuf(d, a)
  <2> SUFFICES ASSUME NEW a, InBuf(s, a) PROVE InBuf(d, a)
    OBVIOUS
  <2>1. a[2][1] = "buf" /\ a[2][2] \in 1..f /\ s.r.buf[a[2][2]] = a[1]
    BY <1>3 DEF InBuf
  <2>2. a[2][2] \in 1..z /\ a[2][2] \in 1..(f + n)
    BY <1>4, <2>1
  <2> QED BY <1>13, <1>16, <2>1, <2>2 DEF InBuf
<1>27. s.r.cur_is_pinned \/ h # s.r.pinned
  BY <1>1 DEF Own, h
<1>28. \A a : InMem(s, a) /\ s.r.has_pinned /\ a[2][1] = s.r.pinned => InMem(d, a)
  BY <1>19, <1>27 DEF InMem
<1>29. s.r.has_pinned => d.r.has_pinned /\ d.r.pinned = s.r.pinned
  BY <1>17 DEF w
<1>30. \A a \in fr : Frozen(d, a)
  BY <1>1, <1>16, <1>26, <1>28, <1>29 DEF Stays, Frozen
<1>31. ASSUME ~d.r.began, NEW i \in 1..Len(ru) PROVE Kept(d, ru[i])
  <2>1. Kept(s, ru[i]) /\ ~s.r.began
    BY <1>1, <1>16, <1>31 DEF Stays
  <2>2. CASE InBuf(s, ru[i])
    BY <1>26, <2>2 DEF Kept
  <2>3. CASE InMem(s, ru[i]) /\ s.r.has_pinned /\ ru[i][2][1] = s.r.pinned
    BY <1>28, <1>29, <2>3 DEF Kept
  <2>4. CASE InMem(s, ru[i]) /\ s.r.run_in_cur /\ ru[i][2][1] = s.r.cur
    <3>1. ~s.r.has_pinned
      BY <1>1, <2>1, <2>4 DEF Stays
    <3>2. w
      BY <1>20, <2>4, <3>1 DEF w
    <3>3. d.m = s.m /\ d.r.has_pinned /\ d.r.pinned = h
      BY <1>17, <3>2
    <3>4. InMem(d, ru[i])
      BY <2>4, <3>3 DEF InMem
    <3> QED BY <2>4, <3>3, <3>4 DEF Kept, h
  <2> QED BY <2>1, <2>2, <2>3, <2>4 DEF Kept
<1>32. ~d.r.began /\ d.r.has_pinned => k > 0
  <2>1. w => k > 0
    BY <1>6 DEF w
  <2>2. ~s.r.began /\ s.r.has_pinned => k > 0
    BY <1>1, <1>3 DEF Stays
  <2> QED BY <1>16, <1>17, <2>1, <2>2
<1>33. Stays(d, ru, fr)
  <2>1. fr \subseteq Nat \X Places
    BY <1>1 DEF Stays
  <2> QED BY <1>16, <1>30, <1>31, <1>32, <2>1 DEF Stays
<1>34. Leaves(s, d)
  <2>1. ASSUME NEW e \in Buffers, e # s.r.cur PROVE d.m[e] = s.m[e]
    BY <1>19, <2>1 DEF h
  <2>2. d.r.pinned \in {s.r.cur, s.r.pinned, None}
    BY <1>17 DEF h
  <2> QED BY <1>16, <2>1, <2>2 DEF Leaves
<1>35. Data(d, 0, c, g, ru, fr)
  BY <1>22, <1>23, <1>24, <1>25, <1>33 DEF Data
<1> QED BY <1>16, <1>34, <1>35 DEF d

\* What keep adds to the run: the next n bytes, and where they are.
Added(nw, n, c, at, k) ==
    /\ nw \in Seq(Nat \X Places) /\ Len(nw) = n
    /\ \A i \in 1..n : nw[i] = <<c + i, <<at, k + i>>>>

\* The run with that behind it.
LEMMA RunCat ==
    ASSUME NEW ru \in Seq(Nat \X Places), NEW nw \in Seq(Nat \X Places),
           NEW k \in Nat, NEW n \in Nat, k = Len(ru), n = Len(nw)
    PROVE  /\ ru \o nw \in Seq(Nat \X Places) /\ Len(ru \o nw) = k + n
           /\ \A i \in 1..k : (ru \o nw)[i] = ru[i]
           /\ \A i \in 1..n : (ru \o nw)[k + i] = nw[i]
           /\ \A i \in 1..(k + n) : i \in 1..k \/ (i - k \in 1..n /\ k + (i - k) = i)
<1>1. ru \o nw \in Seq(Nat \X Places) /\ Len(ru \o nw) = k + n
  OBVIOUS
<1>2. \A i \in 1..k : (ru \o nw)[i] = ru[i]
  OBVIOUS
<1>3. ASSUME NEW i \in 1..n PROVE (ru \o nw)[k + i] = nw[i]
  <2>1. k + i \in 1..(Len(ru) + Len(nw)) /\ ~(k + i <= Len(ru)) /\ (k + i) - Len(ru) = i
    OBVIOUS
  <2> QED BY <2>1
<1> QED BY <1>1, <1>2, <1>3

\* Bytes kept in buf: t is s with n bytes behind position b, the new floor
\* behind them, and the run as far as them.
KeepsBehind(s, t, c, b, n) ==
    /\ s.r.floor <= b /\ ~s.r.run_in_cur /\ ~t.r.run_in_cur
    /\ t.r.floor = b + n /\ \A i \in 1..b : t.r.buf[i] = s.r.buf[i]
    /\ \A i \in 1..n : t.r.buf[b + i] = c + i
    /\ t.r.run_start \in Nat /\ t.r.run_start + s.r.run_len = b
    /\ t.r.run_len = s.r.run_len + n /\ (s.r.run_len > 0 => t.r.run_start = s.r.run_start)
    /\ t.m = s.m /\ t.r.pinned = s.r.pinned /\ t.r.has_pinned = s.r.has_pinned
    /\ t.r.cur_is_pinned = s.r.cur_is_pinned /\ t.r.cur_pos = s.r.cur_pos
    /\ t.r.began = s.r.began

LEMMA KeptInBuf ==
    ASSUME NEW s, NEW t, NEW c \in Nat, NEW g \in Nat, NEW ru, NEW fr, NEW nw,
           NEW b \in Nat, NEW n \in Nat, Data(s, 0, c, g, ru, fr), Own(s.r), Own(t.r), n > 0,
           Added(nw, n, c, "buf", b), KeepsBehind(s, t, c, b, n)
    PROVE  Runs(t, ru \o nw) /\ Stays(t, ru \o nw, fr)
<1>0. /\ s.r.floor <= b /\ ~s.r.run_in_cur /\ ~t.r.run_in_cur
      /\ t.r.floor = b + n /\ \A i \in 1..b : t.r.buf[i] = s.r.buf[i]
      /\ \A i \in 1..n : t.r.buf[b + i] = c + i
      /\ t.r.run_start \in Nat /\ t.r.run_start + s.r.run_len = b
      /\ t.r.run_len = s.r.run_len + n /\ (s.r.run_len > 0 => t.r.run_start = s.r.run_start)
      /\ t.m = s.m /\ t.r.pinned = s.r.pinned /\ t.r.has_pinned = s.r.has_pinned
      /\ t.r.cur_is_pinned = s.r.cur_is_pinned /\ t.r.cur_pos = s.r.cur_pos
      /\ t.r.began = s.r.began
  BY DEF KeepsBehind
<1> USE <1>0
<1>1. Typed(s) /\ Fits(s, 0) /\ Runs(s, ru) /\ Stays(s, ru, fr)
  BY DEF Data
<1>2. PICK k \in Nat, f \in Nat, r \in Nat :
        k = s.r.run_len /\ f = s.r.floor /\ r = t.r.run_start
  BY <1>1 DEF Typed
<1>3. f <= b /\ r + k = b
  BY <1>2
<1>4. ru \in Seq(Nat \X Places) /\ k = Len(ru)
  BY <1>1, <1>2 DEF Runs
<1>5. nw \in Seq(Nat \X Places) /\ n = Len(nw)
  BY DEF Added
<1> DEFINE rn == ru \o nw
<1>6. /\ rn \in Seq(Nat \X Places) /\ Len(rn) = k + n
      /\ \A i \in 1..k : rn[i] = ru[i]
      /\ \A i \in 1..n : rn[k + i] = nw[i]
      /\ \A i \in 1..(k + n) : i \in 1..k \/ (i - k \in 1..n /\ k + (i - k) = i)
  BY <1>4, <1>5, RunCat
<1> HIDE DEF rn
<1>7. ASSUME NEW i \in 1..n
      PROVE  /\ rn[k + i][1] = c + i /\ rn[k + i][2][1] = "buf" /\ rn[k + i][2][2] = b + i
             /\ t.r.buf[b + i] = c + i
  <2>1. nw[i] = <<c + i, <<"buf", b + i>>>>
    BY DEF Added
  <2>2. rn[k + i] = nw[i]
    BY <1>6
  <2> QED BY <2>1, <2>2
<1>8. Runs(t, rn)
  <2>1. ASSUME NEW i \in 1..(k + n) PROVE t.r.buf[r + i] = rn[i][1]
    <3>1. CASE i \in 1..k
      <4>1. s.r.buf[s.r.run_start + i] = ru[i][1] /\ s.r.run_start = r
        BY <1>1, <1>2, <1>4, <3>1 DEF Runs
      <4>2. r + i \in 1..b
        BY <1>3, <3>1
      <4> QED BY <1>6, <3>1, <4>1, <4>2
    <3>2. CASE i - k \in 1..n /\ k + (i - k) = i
      <4>1. r + i = b + (i - k)
        BY <1>3
      <4> QED BY <1>7, <3>2, <4>1
    <3> QED BY <1>6, <3>1, <3>2
  <2>2. t.r.run_len = Len(rn)
    BY <1>2, <1>6
  <2> QED BY <1>2, <1>6, <2>1, <2>2 DEF Runs
<1>9. \A a : InBuf(s, a) => InBuf(t, a)
  <2> SUFFICES ASSUME NEW a, InBuf(s, a) PROVE InBuf(t, a)
    OBVIOUS
  <2>1. a[2][1] = "buf" /\ a[2][2] \in 1..f /\ s.r.buf[a[2][2]] = a[1]
    BY <1>2 DEF InBuf
  <2>2. a[2][2] \in 1..b /\ a[2][2] \in 1..(b + n)
    BY <1>3, <2>1
  <2> QED BY <2>1, <2>2 DEF InBuf
<1>10. \A a : InMem(s, a) => InMem(t, a)
  BY DEF InMem
<1>11. \A a \in fr : Frozen(t, a)
  BY <1>1, <1>9, <1>10 DEF Stays, Frozen
<1>12. ASSUME ~t.r.began, NEW i \in 1..Len(rn) PROVE Kept(t, rn[i])
  <2>0. i \in 1..(k + n)
    BY <1>6
  <2>1. CASE i \in 1..k
    <3>1. Kept(s, ru[i]) /\ rn[i] = ru[i]
      BY <1>1, <1>4, <1>6, <1>12, <2>1 DEF Stays
    <3> QED BY <1>9, <1>10, <3>1 DEF Kept
  <2>2. CASE i - k \in 1..n /\ k + (i - k) = i
    <3>1. PICK j \in 1..n : k + j = i
      BY <2>2
    <3>2. b + j \in 1..(b + n)
      OBVIOUS
    <3>3. rn[i][1] = c + j /\ rn[i][2][1] = "buf" /\ rn[i][2][2] = b + j /\ t.r.buf[b + j] = c + j
      BY <1>7, <3>1
    <3> QED BY <3>2, <3>3 DEF Kept, InBuf
  <2> QED BY <1>6, <2>0, <2>1, <2>2
<1>13. t.r.run_len > 0
  <2>1. k + n > 0
    OBVIOUS
  <2> QED BY <1>2, <2>1
<1>14. Stays(t, rn, fr)
  BY <1>1, <1>11, <1>12, <1>13 DEF Stays
<1> QED BY <1>8, <1>14 DEF rn

\* What keep puts behind the run: the next n bytes, where t has them.
Fetched(t, n, c) == [i \in 1..n |-> <<Bytes(c, n)[i], At(t, n, i)>>]

\* The run counted longer, by n bytes.
Longer(t, n) == [t EXCEPT !.r.run_len = @ + n]

Counts(t, s, n) ==
    /\ t.m = s.m /\ t.r.run_len = s.r.run_len + n
    /\ t.r.buf = s.r.buf /\ t.r.floor = s.r.floor
    /\ t.r.live_in_buf = s.r.live_in_buf
    /\ t.r.buf_pos = s.r.buf_pos /\ t.r.buf_end = s.r.buf_end
    /\ t.r.cur = s.r.cur /\ t.r.has_cur = s.r.has_cur /\ t.r.cur_pos = s.r.cur_pos
    /\ t.r.pinned = s.r.pinned /\ t.r.has_pinned = s.r.has_pinned
    /\ t.r.cur_is_pinned = s.r.cur_is_pinned
    /\ t.r.run_in_cur = s.r.run_in_cur /\ t.r.run_start = s.r.run_start
    /\ t.r.error = s.r.error /\ t.r.began = s.r.began

LEMMA LongerIs ==
    ASSUME NEW s, NEW n, IsState(s)
    PROVE  Counts(Longer(s, n), s, n)
BY DEF IsState, Rec, Longer, Counts

\* keep in buf, field by field: the bytes are behind position b.
InBufIs(s, t, n, b) ==
    /\ t.m = s.m
    /\ t.r.buf = IF s.r.run_len = 0 THEN s.r.buf
                 ELSE Over(s.r.buf, s.r.floor, Span(s.r.buf, s.r.buf_pos, n))
    /\ t.r.floor = b + n /\ t.r.live_in_buf = s.r.live_in_buf
    /\ t.r.buf_pos = s.r.buf_pos /\ t.r.buf_end = s.r.buf_end
    /\ t.r.cur = s.r.cur /\ t.r.has_cur = s.r.has_cur /\ t.r.cur_pos = s.r.cur_pos
    /\ t.r.pinned = s.r.pinned /\ t.r.has_pinned = s.r.has_pinned
    /\ t.r.cur_is_pinned = s.r.cur_is_pinned
    /\ t.r.run_in_cur = IF s.r.run_len = 0 THEN FALSE ELSE s.r.run_in_cur
    /\ t.r.run_start = IF s.r.run_len = 0 THEN s.r.buf_pos ELSE s.r.run_start
    /\ t.r.run_len = s.r.run_len /\ t.r.error = s.r.error /\ t.r.began = s.r.began

LEMMA KeepInBufIs ==
    ASSUME NEW s, NEW n, IsState(s), NEW b,
           b = IF s.r.run_len = 0 THEN s.r.buf_pos ELSE s.r.floor
    PROVE  InBufIs(s, KeepInBuf(s, n), n, b)
<1> DEFINE v == [s EXCEPT !.r.run_in_cur = FALSE, !.r.run_start = s.r.buf_pos,
                          !.r.floor = s.r.buf_pos]
           w == [s EXCEPT !.r.buf = Over(@, s.r.floor, Span(@, s.r.buf_pos, n))]
           x == [v EXCEPT !.r.floor = @ + n]
           y == [w EXCEPT !.r.floor = @ + n]
<1>1. CASE s.r.run_len = 0
  <2>1. KeepInBuf(s, n) = x
    BY <1>1 DEF KeepInBuf
  <2>2. InBufIs(s, x, n, b)
    BY <1>1 DEF InBufIs, IsState, Rec
  <2> QED BY <2>1, <2>2
<1>2. CASE s.r.run_len # 0
  <2>1. KeepInBuf(s, n) = y
    BY <1>2 DEF KeepInBuf
  <2>2. InBufIs(s, y, n, b)
    BY <1>2 DEF InBufIs, IsState, Rec
  <2> QED BY <2>1, <2>2
<1> QED BY <1>1, <1>2

\* The places, when they are in buf.
LEMMA FetchedInBuf ==
    ASSUME NEW t, NEW n \in Nat, NEW c \in Nat, NEW b \in Nat,
           ~t.r.run_in_cur, t.r.floor = b + n
    PROVE  Added(Fetched(t, n, c), n, c, "buf", b)
<1>1. ASSUME NEW i \in 1..n PROVE Fetched(t, n, c)[i] = <<c + i, <<"buf", b + i>>>>
  <2>1. At(t, n, i) = <<"buf", (b + n) - n + i>>
    BY DEF At
  <2>2. (b + n) - n + i = b + i
    OBVIOUS
  <2>3. Bytes(c, n)[i] = c + i
    BY BytesAre
  <2> QED BY <2>1, <2>2, <2>3 DEF Fetched
<1>2. ASSUME NEW i \in 1..n PROVE Fetched(t, n, c)[i] \in Nat \X Places
  <2>1. c + i \in Nat /\ b + i \in Nat /\ "buf" \in Buffers \cup {"buf"}
    OBVIOUS
  <2> QED BY <1>1, <2>1 DEF Places
<1>3. DOMAIN Fetched(t, n, c) = 1..n
  BY DEF Fetched
<1>4. Fetched(t, n, c) \in [1..n -> Nat \X Places]
  BY <1>2, <1>3 DEF Fetched
<1> QED BY <1>1, <1>4 DEF Added

\* keep, with the live bytes in buf.
LEMMA KeepInBufData ==
    ASSUME NEW s, NEW q, Held(s, q), NEW c \in Nat, NEW g \in Nat, NEW ru, NEW fr,
           Data(s, 0, c, g, ru, fr), s.r.live_in_buf, NEW n \in 1..LiveLen(s)
    PROVE  LET k == KeepInBuf(s, n) IN
           /\ Data(Longer(k, n), n, c, g, ru \o Fetched(k, n, c), fr)
           /\ Leaves(s, Longer(k, n))
<1> DEFINE k == KeepInBuf(s, n)
           t == Longer(k, n)
           nw == Fetched(k, n, c)
<1>1. /\ Typed(s) /\ Fits(s, 0) /\ Lives(s, 0, c, g) /\ Runs(s, ru) /\ Stays(s, ru, fr)
      /\ Own(s.r) /\ IsState(s)
  BY DEF Data, Held
<1>2. ~s.r.has_cur /\ ~s.r.run_in_cur
  BY <1>1 DEF Fits
<1>3. PICK z \in Nat, f \in Nat, p \in Nat, e \in Nat, l \in Nat, a \in Nat :
        /\ z = Cap /\ f = s.r.floor /\ p = s.r.buf_pos /\ e = s.r.buf_end
        /\ l = s.r.run_len /\ a = s.r.run_start
  BY <1>1, PipeAssumption DEF Typed
<1>4. f <= p /\ p <= e /\ e <= z /\ f <= z
  <2>1. s.r.floor <= s.r.buf_pos + 0
    BY <1>1 DEF Fits
  <2>2. f <= p + 0
    BY <1>3, <2>1
  <2>3. p <= e /\ e <= z /\ f <= z
    BY <1>1, <1>3 DEF Fits
  <2> QED BY <2>2, <2>3
<1>5. e - p = g - c /\ n \in 1..(e - p) /\ n \in Nat /\ n > 0 /\ c + n <= g
  <2>1. LiveLen(s) = e - p /\ LiveLen(s) = g - c
    BY <1>1, <1>3 DEF LiveLen, Lives
  <2>2. n \in 1..(e - p) /\ e - p = g - c
    BY <2>1
  <2>3. n \in Nat /\ n > 0 /\ c + n <= g
    BY <2>2
  <2> QED BY <2>2, <2>3
<1>6. PICK b \in Nat : b = IF s.r.run_len = 0 THEN s.r.buf_pos ELSE s.r.floor
  BY <1>3
<1>7. /\ InBufIs(s, k, n, b) /\ IsState(k) /\ Held(t, q)
  <2>1. InBufIs(s, k, n, b)
    BY <1>1, <1>6, KeepInBufIs
  <2>2. Held(k, q) /\ (k.r.run_in_cur => k.r.has_cur)
    BY KeepInBufHeld
  <2> HIDE DEF k
  <2>3. Held(t, q)
    BY <1>5, <2>2, LongerHeld DEF Longer
  <2> QED BY <2>1, <2>2, <2>3 DEF Held
<1> HIDE DEF k
<1>8. /\ t.m = s.m /\ t.r.floor = b + n /\ t.r.live_in_buf = s.r.live_in_buf
      /\ t.r.buf = IF l = 0 THEN s.r.buf ELSE Over(s.r.buf, f, Span(s.r.buf, p, n))
      /\ t.r.buf_pos = p /\ t.r.buf_end = e
      /\ t.r.cur = s.r.cur /\ t.r.has_cur = s.r.has_cur /\ t.r.cur_pos = s.r.cur_pos
      /\ t.r.pinned = s.r.pinned /\ t.r.has_pinned = s.r.has_pinned
      /\ t.r.cur_is_pinned = s.r.cur_is_pinned
      /\ t.r.run_start = (IF l = 0 THEN p ELSE a)
      /\ t.r.run_len = l + n /\ t.r.error = s.r.error /\ t.r.began = s.r.began
  <2>1. Counts(t, k, n)
    BY <1>7, LongerIs
  <2> HIDE DEF t
  <2> QED BY <1>3, <1>7, <2>1 DEF InBufIs, Counts
<1>9. ~t.r.run_in_cur /\ ~k.r.run_in_cur /\ k.r.floor = b + n
  <2>1. Counts(t, k, n)
    BY <1>7, LongerIs
  <2> HIDE DEF t
  <2> QED BY <1>2, <1>7, <2>1 DEF InBufIs, Counts
<1>10. Added(nw, n, c, "buf", b)
  BY <1>5, <1>9, FetchedInBuf
<1> HIDE DEF nw, t
<1>11. f <= b /\ b <= p /\ b + n <= e /\ b + n <= z /\ b + n <= p + n
  BY <1>3, <1>4, <1>5, <1>6
<1>12. s.r.buf \in [1..z -> Nat] /\ DOMAIN s.r.buf = 1..z /\ \A i \in 1..z : s.r.buf[i] \in Nat
  BY <1>1, <1>3 DEF Typed
<1>13. \A i \in 1..(e - p) : s.r.buf[p + i] = c + i
  <2>1. \A i \in (0 + 1)..(g - c) : s.r.buf[s.r.buf_pos + i] = c + i
    BY <1>1 DEF Lives
  <2>2. \A i \in 1..(e - p) : i \in (0 + 1)..(g - c)
    BY <1>5
  <2> QED BY <1>3, <2>1, <2>2
<1>14. /\ t.r.buf \in [1..z -> Nat] /\ \A i \in 1..b : t.r.buf[i] = s.r.buf[i]
       /\ \A i \in 1..n : t.r.buf[b + i] = c + i
       /\ \A i \in (n + 1)..(g - c) : t.r.buf[p + i] = c + i
  <2>1. CASE l = 0
    <3>1. t.r.buf = s.r.buf /\ b = p
      BY <1>3, <1>6, <1>8, <2>1
    <3>2. \A i \in 1..n : i \in 1..(e - p)
      BY <1>5
    <3>3. \A i \in (n + 1)..(g - c) : i \in 1..(e - p)
      BY <1>5
    <3> QED BY <1>12, <1>13, <3>1, <3>2, <3>3
  <2>2. CASE l # 0
    <3> DEFINE ys == Span(s.r.buf, p, n)
    <3>1. b = f /\ t.r.buf = Over(s.r.buf, f, ys)
      BY <1>3, <1>6, <1>8, <2>2
    <3>2. ys \in Seq(Nat) /\ Len(ys) = n /\ \A i \in 1..n : ys[i] = s.r.buf[p + i]
      <4>1. n \in Nat /\ p + n <= z
        BY <1>4, <1>5
      <4>2. TakenIn(ys, s.r.buf, p, n)
        BY <1>12, <4>1, SpanBuf
      <4> QED BY <4>2 DEF TakenIn
    <3> HIDE DEF ys
    <3>3. Laid(t.r.buf, s.r.buf, z, f, ys)
      BY <1>12, <3>1, <3>2, OverIs
    <3>4. ASSUME NEW i \in 1..b PROVE t.r.buf[i] = s.r.buf[i]
      <4>1. i \in 1..z /\ ~(f < i)
        BY <1>4, <1>11, <3>1
      <4> QED BY <3>3, <4>1 DEF Laid
    <3>5. ASSUME NEW i \in 1..n PROVE t.r.buf[b + i] = c + i
      <4>1. /\ b + i \in 1..z /\ f < b + i /\ b + i <= f + n /\ (b + i) - f = i
            /\ p + i <= z /\ i \in 1..(e - p)
        BY <1>4, <1>5, <1>11, <3>1
      <4>2. t.r.buf[b + i] = ys[i]
        BY <3>2, <3>3, <4>1 DEF Laid
      <4> QED BY <1>13, <3>2, <4>1, <4>2
    <3>6. ASSUME NEW i \in (n + 1)..(g - c) PROVE t.r.buf[p + i] = c + i
      <4>1. p + i \in 1..z /\ ~(p + i <= f + n) /\ i \in 1..(e - p)
        BY <1>4, <1>5
      <4>2. t.r.buf[p + i] = s.r.buf[p + i]
        BY <3>2, <3>3, <4>1 DEF Laid
      <4> QED BY <1>13, <4>1, <4>2
    <3>7. t.r.buf \in [1..z -> Nat]
      BY <3>3 DEF Laid
    <3> QED BY <3>4, <3>5, <3>6, <3>7
  <2> QED BY <2>1, <2>2
<1>15. Typed(t)
  <2>1. b + n \in Nat /\ l + n \in Nat /\ (IF l = 0 THEN p ELSE a) \in Nat
    BY <1>5
  <2> QED BY <1>1, <1>3, <1>8, <1>14, <2>1 DEF Typed
<1>16. (IF l = 0 THEN p ELSE a) + l = b
  <2>1. l > 0 => s.r.run_start + s.r.run_len = s.r.floor
    BY <1>1, <1>2, <1>3 DEF Fits
  <2>2. l > 0 => a + l = f
    BY <1>3, <2>1
  <2> QED BY <1>3, <1>6, <2>2
<1>17. Fits(t, n)
  <2>1. (IF l = 0 THEN p ELSE a) + (l + n) = b + n
    BY <1>5, <1>16
  <2> QED BY <1>2, <1>3, <1>4, <1>8, <1>9, <1>11, <2>1 DEF Fits
<1>18. Lives(t, n, c, g)
  <2>1. LiveLen(t) = g - c
    BY <1>5, <1>8 DEF LiveLen
  <2> QED BY <1>2, <1>5, <1>8, <1>14, <2>1 DEF Lives
<1>19. Runs(t, ru \o nw) /\ Stays(t, ru \o nw, fr)
  <2>1. Own(t.r)
    BY <1>7 DEF Held
  <2>2. t.r.run_start \in Nat /\ t.r.run_start + s.r.run_len = b /\ t.r.run_len = s.r.run_len + n
    BY <1>3, <1>8, <1>16
  <2>3. s.r.run_len > 0 => t.r.run_start = s.r.run_start
    BY <1>3, <1>8
  <2>4. s.r.floor <= b
    BY <1>3, <1>11
  <2>5. KeepsBehind(s, t, c, b, n)
    BY <1>2, <1>8, <1>9, <1>14, <2>2, <2>3, <2>4 DEF KeepsBehind
  <2> QED BY <1>1, <1>5, <1>10, <2>1, <2>5, KeptInBuf
<1>20. Leaves(s, t)
  BY <1>8 DEF Leaves
<1>21. Data(t, n, c, g, ru \o nw, fr)
  BY <1>15, <1>17, <1>18, <1>19 DEF Data
<1> QED BY <1>20, <1>21 DEF t, k, nw

\* Something is live outside buf: there is a current buffer, and the n bytes
\* are in it.
LEMMA LiveInCur ==
    ASSUME NEW s, NEW c \in Nat, NEW g \in Nat, NEW ru, NEW fr, Data(s, 0, c, g, ru, fr),
           Own(s.r), ~s.r.live_in_buf, NEW n \in 1..LiveLen(s)
    PROVE  /\ s.r.has_cur /\ s.r.cur \in Buffers /\ s.m[s.r.cur] \in Seq(Nat)
           /\ s.r.cur_pos \in Nat /\ Len(s.m[s.r.cur]) \in Nat
           /\ Len(s.m[s.r.cur]) - s.r.cur_pos = g - c
           /\ n \in Nat /\ n > 0 /\ c + n <= g
           /\ \A i \in 1..(g - c) : s.m[s.r.cur][s.r.cur_pos + i] = c + i
<1>1. Typed(s) /\ Fits(s, 0) /\ Lives(s, 0, c, g)
  BY DEF Data
<1>2. LiveLen(s) = g - c /\ LiveLen(s) = CurLen(s) - s.r.cur_pos
  BY <1>1 DEF Lives, LiveLen
<1>3. n \in Nat /\ n > 0 /\ c + n <= g
  <2>1. n \in 1..(g - c)
    BY <1>2
  <2> QED BY <2>1
<1>4. s.r.has_cur
  <2> SUFFICES ASSUME ~s.r.has_cur PROVE FALSE
    OBVIOUS
  <2>1. CurLen(s) = 0 /\ s.r.cur_pos = 0
    BY DEF CurLen, Own
  <2>2. n \in 1..(0 - 0)
    BY <1>2, <2>1
  <2> QED BY <2>2
<1>5. s.r.cur \in Buffers
  BY <1>4 DEF Own
<1>6. s.m[s.r.cur] \in Seq(Nat) /\ s.r.cur_pos \in Nat
  BY <1>1, <1>5 DEF Typed
<1>7. Len(s.m[s.r.cur]) - s.r.cur_pos = g - c /\ Len(s.m[s.r.cur]) \in Nat
  BY <1>2, <1>4, <1>6 DEF CurLen
<1>8. ASSUME NEW i \in 1..(g - c) PROVE s.m[s.r.cur][s.r.cur_pos + i] = c + i
  <2>1. i \in (0 + 1)..(g - c)
    OBVIOUS
  <2> QED BY <1>1, <1>4, <2>1 DEF Lives
<1> QED BY <1>3, <1>4, <1>5, <1>6, <1>7, <1>8

\* keep across, field by field.
AcrossIs(s, t, n) ==
    LET f == s.r.floor + n IN
    /\ t.m = s.m
    /\ t.r.buf = Over(s.r.buf, s.r.floor, Span(s.m[s.r.cur], s.r.cur_pos, n))
    /\ t.r.floor = f /\ t.r.live_in_buf = s.r.live_in_buf
    /\ t.r.buf_pos = f /\ t.r.buf_end = f
    /\ t.r.cur = s.r.cur /\ t.r.has_cur = s.r.has_cur /\ t.r.cur_pos = s.r.cur_pos
    /\ t.r.pinned = s.r.pinned /\ t.r.has_pinned = s.r.has_pinned
    /\ t.r.cur_is_pinned = s.r.cur_is_pinned
    /\ t.r.run_in_cur = s.r.run_in_cur /\ t.r.run_start = s.r.run_start
    /\ t.r.run_len = s.r.run_len /\ t.r.error = s.r.error /\ t.r.began = s.r.began

LEMMA KeepAcrossIs ==
    ASSUME NEW s, NEW n, IsState(s)
    PROVE  AcrossIs(s, KeepAcross(s, n), n)
BY DEF AcrossIs, KeepAcross, IsState, Rec

\* keep, with the run in buf and the live bytes in cur.
LEMMA KeepAcrossData ==
    ASSUME NEW s, NEW q, Held(s, q), NEW c \in Nat, NEW g \in Nat, NEW ru, NEW fr,
           Data(s, 0, c, g, ru, fr), ~s.r.live_in_buf, ~s.r.run_in_cur, s.r.run_len # 0,
           NEW n \in 1..LiveLen(s), s.r.floor + n <= Cap
    PROVE  LET k == KeepAcross(s, n) IN
           /\ Data(Longer(k, n), n, c, g, ru \o Fetched(k, n, c), fr)
           /\ Leaves(s, Longer(k, n))
<1> DEFINE k == KeepAcross(s, n)
           t == Longer(k, n)
           nw == Fetched(k, n, c)
           h == s.r.cur
<1>1. /\ Typed(s) /\ Fits(s, 0) /\ Lives(s, 0, c, g) /\ Runs(s, ru) /\ Stays(s, ru, fr)
      /\ Own(s.r) /\ IsState(s)
  BY DEF Data, Held
<1>2. /\ s.r.has_cur /\ h \in Buffers /\ s.m[h] \in Seq(Nat)
      /\ s.r.cur_pos \in Nat /\ Len(s.m[h]) \in Nat /\ Len(s.m[h]) - s.r.cur_pos = g - c
      /\ n \in Nat /\ n > 0 /\ c + n <= g
      /\ \A i \in 1..(g - c) : s.m[h][s.r.cur_pos + i] = c + i
  BY <1>1, LiveInCur
<1>3. PICK z \in Nat, f \in Nat, p \in Nat, e \in Nat, l \in Nat, a \in Nat :
        /\ z = Cap /\ f = s.r.floor /\ p = s.r.cur_pos /\ e = Len(s.m[h])
        /\ l = s.r.run_len /\ a = s.r.run_start
  BY <1>1, <1>2, PipeAssumption DEF Typed
<1>4. /\ f + n <= z /\ e - p = g - c /\ p + n <= e /\ l > 0 /\ a + l = f /\ f + n \in Nat
      /\ l + n \in Nat /\ p <= e
  <2>1. s.r.run_len > 0 /\ s.r.run_len \in Nat
    BY <1>1 DEF Typed
  <2>2. s.r.run_start + s.r.run_len = s.r.floor
    BY <1>1, <2>1 DEF Fits
  <2>3. e - p = g - c /\ c + n <= g /\ n \in Nat /\ n > 0
    BY <1>2, <1>3
  <2>4. p + n <= e /\ p <= e /\ f + n \in Nat /\ l + n \in Nat
    BY <2>3
  <2> QED BY <1>3, <2>1, <2>2, <2>3, <2>4
<1>5. AcrossIs(s, k, n) /\ IsState(k) /\ Held(t, q)
  <2>1. AcrossIs(s, k, n)
    BY <1>1, KeepAcrossIs
  <2>2. Held(k, q) /\ ~k.r.run_in_cur
    BY KeepAcrossHeld
  <2> HIDE DEF k
  <2>3. Held(t, q)
    BY <1>2, <2>2, LongerHeld DEF Longer
  <2> QED BY <2>1, <2>2, <2>3 DEF Held
<1> HIDE DEF k
<1>6. Counts(t, k, n)
  BY <1>5, LongerIs
<1> HIDE DEF t
<1>7. /\ t.m = s.m /\ t.r.floor = f + n /\ t.r.live_in_buf = s.r.live_in_buf
      /\ t.r.buf = Over(s.r.buf, f, Span(s.m[h], p, n))
      /\ t.r.buf_pos = f + n /\ t.r.buf_end = f + n
      /\ t.r.cur = s.r.cur /\ t.r.has_cur = s.r.has_cur /\ t.r.cur_pos = s.r.cur_pos
      /\ t.r.pinned = s.r.pinned /\ t.r.has_pinned = s.r.has_pinned
      /\ t.r.cur_is_pinned = s.r.cur_is_pinned /\ t.r.run_start = s.r.run_start
      /\ t.r.run_len = l + n /\ t.r.error = s.r.error /\ t.r.began = s.r.began
  BY <1>3, <1>5, <1>6 DEF AcrossIs, Counts
<1>8. ~t.r.run_in_cur /\ ~k.r.run_in_cur /\ k.r.floor = f + n
  BY <1>3, <1>5, <1>6 DEF AcrossIs, Counts
<1>9. Added(nw, n, c, "buf", f)
  BY <1>2, <1>8, FetchedInBuf
<1> HIDE DEF nw
<1>10. s.r.buf \in [1..z -> Nat]
  BY <1>1, <1>3 DEF Typed
<1>11. /\ t.r.buf \in [1..z -> Nat] /\ \A i \in 1..f : t.r.buf[i] = s.r.buf[i]
       /\ \A i \in 1..n : t.r.buf[f + i] = c + i
  <2> DEFINE ys == Span(s.m[h], p, n)
  <2>1. Taken(ys, s.m[h], p, n)
    BY <1>2, SpanSeq
  <2> HIDE DEF ys
  <2>2. Laid(t.r.buf, s.r.buf, z, f, ys)
    BY <1>7, <1>10, <2>1, OverIs DEF Taken, ys
  <2>3. ASSUME NEW i \in 1..f PROVE t.r.buf[i] = s.r.buf[i]
    <3>1. i \in 1..z /\ ~(f < i)
      BY <1>2, <1>4
    <3> QED BY <2>2, <3>1 DEF Laid
  <2>4. ASSUME NEW i \in 1..n PROVE t.r.buf[f + i] = c + i
    <3>0. n \in Nat /\ n > 0 /\ c + n <= g
      BY <1>2
    <3>1. /\ f + i \in 1..z /\ f < f + i /\ f + i <= f + n /\ (f + i) - f = i
          /\ p + i <= e /\ i \in 1..(g - c)
      BY <1>4, <3>0
    <3>2. t.r.buf[f + i] = ys[i]
      BY <2>1, <2>2, <3>1 DEF Laid, Taken
    <3>3. ys[i] = s.m[h][p + i]
      BY <1>3, <2>1, <3>1 DEF Taken
    <3> QED BY <1>2, <1>3, <3>1, <3>2, <3>3
  <2>5. t.r.buf \in [1..z -> Nat]
    BY <2>2 DEF Laid
  <2> QED BY <2>3, <2>4, <2>5
<1>12. Typed(t)
  BY <1>1, <1>3, <1>4, <1>7, <1>11 DEF Typed
<1>13. Fits(t, n)
  <2>0. n \in Nat
    BY <1>2
  <2>1. a + (l + n) = f + n /\ f + n <= f + n
    BY <1>4, <2>0
  <2>2. t.r.cur_pos <= Len(t.m[t.r.cur])
    BY <1>3, <1>4, <1>7
  <2> QED BY <1>1, <1>3, <1>4, <1>7, <1>8, <2>1, <2>2 DEF Fits
<1>14. Lives(t, n, c, g)
  <2>1. LiveLen(t) = g - c
    BY <1>2, <1>7 DEF LiveLen, CurLen
  <2>2. ASSUME NEW i \in (n + 1)..(g - c) PROVE t.m[t.r.cur][t.r.cur_pos + i] = c + i
    <3>1. i \in 1..(g - c)
      BY <1>2
    <3> QED BY <1>2, <1>7, <3>1
  <2> QED BY <1>2, <1>7, <2>1, <2>2 DEF Lives
<1>15. Runs(t, ru \o nw) /\ Stays(t, ru \o nw, fr)
  <2>1. Own(t.r)
    BY <1>5 DEF Held
  <2>2. /\ t.r.run_start \in Nat /\ t.r.run_start + s.r.run_len = f
        /\ t.r.run_len = s.r.run_len + n /\ s.r.floor <= f
    BY <1>3, <1>4, <1>7
  <2>3. KeepsBehind(s, t, c, f, n)
    BY <1>7, <1>8, <1>11, <2>2 DEF KeepsBehind
  <2> QED BY <1>1, <1>2, <1>9, <2>1, <2>3, KeptInBuf
<1>16. Leaves(s, t)
  BY <1>7 DEF Leaves
<1>17. Data(t, n, c, g, ru \o nw, fr)
  BY <1>12, <1>13, <1>14, <1>15 DEF Data
<1> QED BY <1>16, <1>17 DEF t, k, nw

\* keep in place, field by field: the run starts at r, the bytes go behind
\* position at.
InCurIs(s, t, n, r, at) ==
    /\ t.m = [s.m EXCEPT ![s.r.cur] = Over(s.m[s.r.cur], at, Span(s.m[s.r.cur], s.r.cur_pos, n))]
    /\ t.r.buf = s.r.buf /\ t.r.floor = s.r.floor /\ t.r.live_in_buf = s.r.live_in_buf
    /\ t.r.buf_pos = s.r.buf_pos /\ t.r.buf_end = s.r.buf_end
    /\ t.r.cur = s.r.cur /\ t.r.has_cur = s.r.has_cur /\ t.r.cur_pos = s.r.cur_pos
    /\ t.r.pinned = s.r.pinned /\ t.r.has_pinned = s.r.has_pinned
    /\ t.r.cur_is_pinned = s.r.cur_is_pinned
    /\ t.r.run_in_cur = (IF s.r.run_len = 0 THEN TRUE ELSE s.r.run_in_cur)
    /\ t.r.run_start = r /\ t.r.run_len = s.r.run_len
    /\ t.r.error = s.r.error /\ t.r.began = s.r.began

LEMMA KeepInCurIs ==
    ASSUME NEW s, NEW n, IsState(s),
           NEW r, r = IF s.r.run_len = 0 THEN s.r.cur_pos ELSE s.r.run_start
    PROVE  InCurIs(s, KeepInCur(s, n), n, r, r + s.r.run_len)
<1> DEFINE v == [s EXCEPT !.r.run_in_cur = TRUE, !.r.run_start = s.r.cur_pos]
           t == IF s.r.run_len = 0 THEN v ELSE s
           x == [t EXCEPT !.m[s.r.cur] = Over(@, t.r.run_start + t.r.run_len,
                                              Span(@, s.r.cur_pos, n))]
<1>1. KeepInCur(s, n) = x
  BY DEF KeepInCur
<1>2. /\ IsState(t) /\ t.m = s.m
      /\ t.r.buf = s.r.buf /\ t.r.floor = s.r.floor /\ t.r.live_in_buf = s.r.live_in_buf
      /\ t.r.buf_pos = s.r.buf_pos /\ t.r.buf_end = s.r.buf_end
      /\ t.r.cur = s.r.cur /\ t.r.has_cur = s.r.has_cur /\ t.r.cur_pos = s.r.cur_pos
      /\ t.r.pinned = s.r.pinned /\ t.r.has_pinned = s.r.has_pinned
      /\ t.r.cur_is_pinned = s.r.cur_is_pinned
      /\ t.r.run_in_cur = (IF s.r.run_len = 0 THEN TRUE ELSE s.r.run_in_cur)
      /\ t.r.run_start = r /\ t.r.run_len = s.r.run_len
      /\ t.r.error = s.r.error /\ t.r.began = s.r.began
  <2>1. CASE s.r.run_len = 0
    BY <2>1 DEF IsState, Rec
  <2>2. CASE s.r.run_len # 0
    BY <2>2
  <2> QED BY <2>1, <2>2
<1> HIDE DEF t
<1>3. x.r = t.r
  BY <1>2 DEF IsState
<1>4. x.m = [s.m EXCEPT ![s.r.cur] = Over(s.m[s.r.cur], r + s.r.run_len,
                                          Span(s.m[s.r.cur], s.r.cur_pos, n))]
  BY <1>2 DEF IsState
<1> HIDE DEF x
<1>5. InCurIs(s, x, n, r, r + s.r.run_len)
  BY <1>2, <1>3, <1>4, Zenon DEF InCurIs
<1> QED BY <1>1, <1>5

\* The places, when they are in the current buffer.
LEMMA FetchedInCur ==
    ASSUME NEW t, NEW n \in Nat, NEW c \in Nat, NEW at \in Nat,
           t.r.run_in_cur, t.r.run_start + t.r.run_len = at, t.r.cur \in Buffers
    PROVE  Added(Fetched(t, n, c), n, c, t.r.cur, at)
<1>1. ASSUME NEW i \in 1..n PROVE Fetched(t, n, c)[i] = <<c + i, <<t.r.cur, at + i>>>>
  <2>1. At(t, n, i) = <<t.r.cur, at + i>>
    BY DEF At
  <2>2. Bytes(c, n)[i] = c + i
    BY BytesAre
  <2> QED BY <2>1, <2>2 DEF Fetched
<1>2. ASSUME NEW i \in 1..n PROVE Fetched(t, n, c)[i] \in Nat \X Places
  <2>1. c + i \in Nat /\ at + i \in Nat /\ t.r.cur \in Buffers \cup {"buf"}
    OBVIOUS
  <2> QED BY <1>1, <2>1 DEF Places
<1>3. DOMAIN Fetched(t, n, c) = 1..n
  BY DEF Fetched
<1>4. Fetched(t, n, c) \in [1..n -> Nat \X Places]
  BY <1>2, <1>3 DEF Fetched
<1> QED BY <1>1, <1>4 DEF Added

\* A copy within a kernel buffer w of e bytes, n live ones behind position p
\* down to position at: what is before them and the other live ones stay.
Slid(x, w, at, n, p, c, g) ==
    /\ x \in Seq(Nat) /\ Len(x) = Len(w)
    /\ \A i \in 1..at : x[i] = w[i]
    /\ \A i \in 1..n : x[at + i] = c + i
    /\ \A i \in (n + 1)..(g - c) : x[p + i] = c + i

LEMMA Sliding ==
    ASSUME NEW w \in Seq(Nat), NEW e \in Nat, e = Len(w), NEW p \in Nat, NEW at \in Nat,
           NEW n \in Nat, NEW c \in Nat, NEW g \in Nat, at <= p, e - p = g - c, c + n <= g,
           \A i \in 1..(g - c) : w[p + i] = c + i
    PROVE  Slid(Over(w, at, Span(w, p, n)), w, at, n, p, c, g)
<1> DEFINE ys == Span(w, p, n)
           x == Over(w, at, ys)
<1>1. Taken(ys, w, p, n)
  BY SpanSeq
<1> HIDE DEF ys
<1>2. ys \in Seq(Nat) /\ Len(ys) = n
  BY <1>1 DEF Taken
<1>3. /\ x \in Seq(Nat) /\ Len(x) = e
      /\ \A i \in 1..e : x[i] = IF at < i /\ i <= at + Len(ys) THEN ys[i - at] ELSE w[i]
  BY <1>2, OverSeq
<1> HIDE DEF x
<1>4. ASSUME NEW i \in 1..at PROVE x[i] = w[i]
  <2>1. i \in 1..e /\ ~(at < i)
    OBVIOUS
  <2> QED BY <1>3, <2>1
<1>5. ASSUME NEW i \in 1..n PROVE x[at + i] = c + i
  <2>1. at + i \in 1..e /\ at < at + i /\ at + i <= at + n /\ (at + i) - at = i
        /\ p + i <= e /\ i \in 1..(g - c)
    OBVIOUS
  <2>2. x[at + i] = ys[i]
    BY <1>2, <1>3, <2>1
  <2>3. ys[i] = w[p + i]
    BY <1>1, <2>1 DEF Taken
  <2> QED BY <2>1, <2>2, <2>3
<1>6. ASSUME NEW i \in (n + 1)..(g - c) PROVE x[p + i] = c + i
  <2>1. p + i \in 1..e /\ ~(p + i <= at + n) /\ i \in 1..(g - c)
    OBVIOUS
  <2>2. x[p + i] = w[p + i]
    BY <1>2, <1>3, <2>1
  <2> QED BY <2>1, <2>2
<1>7. Slid(x, w, at, n, p, c, g)
  BY <1>3, <1>4, <1>5, <1>6 DEF Slid
<1> QED BY <1>7 DEF x, ys

\* keep, in place in cur.
LEMMA KeepInCurData ==
    ASSUME NEW s, NEW q, Held(s, q), NEW c \in Nat, NEW g \in Nat, NEW ru, NEW fr,
           Data(s, 0, c, g, ru, fr), ~s.r.live_in_buf, s.r.run_len = 0 \/ s.r.run_in_cur,
           NEW n \in 1..LiveLen(s)
    PROVE  LET k == KeepInCur(s, n) IN
           /\ Data(Longer(k, n), n, c, g, ru \o Fetched(k, n, c), fr)
           /\ Leaves(s, Longer(k, n))
<1> DEFINE k == KeepInCur(s, n)
           t == Longer(k, n)
           nw == Fetched(k, n, c)
           h == s.r.cur
           rn == ru \o nw
<1>1. /\ Typed(s) /\ Fits(s, 0) /\ Lives(s, 0, c, g) /\ Runs(s, ru) /\ Stays(s, ru, fr)
      /\ Own(s.r) /\ IsState(s)
  BY DEF Data, Held
<1>2. /\ s.r.has_cur /\ h \in Buffers /\ s.m[h] \in Seq(Nat)
      /\ s.r.cur_pos \in Nat /\ Len(s.m[h]) \in Nat /\ Len(s.m[h]) - s.r.cur_pos = g - c
      /\ n \in Nat /\ n > 0 /\ c + n <= g
      /\ \A i \in 1..(g - c) : s.m[h][s.r.cur_pos + i] = c + i
  BY <1>1, LiveInCur
<1>3. PICK p \in Nat, e \in Nat, l \in Nat, r \in Nat :
        /\ p = s.r.cur_pos /\ e = Len(s.m[h]) /\ l = s.r.run_len
        /\ r = IF s.r.run_len = 0 THEN s.r.cur_pos ELSE s.r.run_start
  BY <1>1, <1>2 DEF Typed
<1>4. r + l <= p /\ (l = 0 => r = p) /\ (l > 0 => s.r.run_in_cur /\ r = s.r.run_start)
  <2>1. CASE l = 0
    BY <1>3, <2>1
  <2>2. CASE l # 0
    <3>1. s.r.run_in_cur /\ r = s.r.run_start
      BY <1>3, <2>2
    <3>2. s.r.run_start + s.r.run_len <= s.r.cur_pos + 0
      BY <1>1, <3>1 DEF Fits
    <3>3. r + l <= p + 0
      BY <1>3, <3>1, <3>2
    <3> QED BY <2>2, <3>1, <3>3
  <2> QED BY <2>1, <2>2
<1>5. PICK at \in Nat : at = r + l
  OBVIOUS
<1>6. /\ InCurIs(s, k, n, r, at) /\ IsState(k) /\ Held(t, q)
  <2>1. InCurIs(s, k, n, r, r + s.r.run_len)
    BY <1>1, <1>3, KeepInCurIs
  <2>2. Held(k, q) /\ (k.r.run_in_cur => k.r.has_cur)
    BY <1>2, KeepInCurHeld
  <2> HIDE DEF k
  <2>3. Held(t, q)
    BY <1>2, <2>2, LongerHeld DEF Longer
  <2> QED BY <1>3, <1>5, <2>1, <2>2, <2>3 DEF Held
<1> HIDE DEF k
<1>7. Counts(t, k, n)
  BY <1>6, LongerIs
<1> HIDE DEF t
<1>8. /\ t.m = [s.m EXCEPT ![h] = Over(s.m[h], at, Span(s.m[h], p, n))]
      /\ t.r.buf = s.r.buf /\ t.r.floor = s.r.floor /\ t.r.live_in_buf = s.r.live_in_buf
      /\ t.r.buf_pos = s.r.buf_pos /\ t.r.buf_end = s.r.buf_end
      /\ t.r.cur = h /\ t.r.has_cur = s.r.has_cur /\ t.r.cur_pos = p
      /\ t.r.pinned = s.r.pinned /\ t.r.has_pinned = s.r.has_pinned
      /\ t.r.cur_is_pinned = s.r.cur_is_pinned
      /\ t.r.run_start = r /\ t.r.run_len = l + n
      /\ t.r.error = s.r.error /\ t.r.began = s.r.began
  BY <1>3, <1>6, <1>7 DEF InCurIs, Counts
<1>9. /\ t.r.run_in_cur /\ k.r.run_in_cur /\ k.r.cur = h
      /\ k.r.run_start + k.r.run_len = at
  <2>1. k.r.run_in_cur = (IF s.r.run_len = 0 THEN TRUE ELSE s.r.run_in_cur)
        /\ t.r.run_in_cur = k.r.run_in_cur
    BY <1>6, <1>7 DEF InCurIs, Counts
  <2>2. k.r.cur = h /\ k.r.run_start = r /\ k.r.run_len = l
    BY <1>3, <1>6 DEF InCurIs
  <2> QED BY <1>5, <2>1, <2>2
<1>10. Added(nw, n, c, h, at)
  BY <1>2, <1>9, FetchedInCur
<1> HIDE DEF nw
<1> DEFINE x == t.m[h]
<1>11. /\ t.m \in [Buffers -> Seq(Nat)] /\ \A b \in Buffers : b # h => t.m[b] = s.m[b]
       /\ Slid(x, s.m[h], at, n, p, c, g)
  <2> DEFINE y == Over(s.m[h], at, Span(s.m[h], p, n))
  <2>1. Slid(y, s.m[h], at, n, p, c, g)
    <3>1. at <= p /\ e - p = g - c /\ n \in Nat /\ c + n <= g
      BY <1>2, <1>3, <1>4, <1>5
    <3>2. \A i \in 1..(g - c) : s.m[h][p + i] = c + i
      BY <1>2, <1>3
    <3> QED BY <1>2, <1>3, <3>1, <3>2, Sliding
  <2> HIDE DEF y
  <2>2. t.m = [s.m EXCEPT ![h] = y]
    BY <1>8 DEF y
  <2>3. y \in Seq(Nat)
    BY <2>1 DEF Slid
  <2> QED BY <1>1, <1>2, <2>1, <2>2, <2>3 DEF Typed
<1> HIDE DEF x
<1>12. /\ x \in Seq(Nat) /\ Len(x) = e /\ \A i \in 1..at : x[i] = s.m[h][i]
       /\ \A i \in 1..n : x[at + i] = c + i
       /\ \A i \in (n + 1)..(g - c) : x[p + i] = c + i
  <2>1. Slid(x, s.m[h], at, n, p, c, g) /\ e = Len(s.m[h])
    BY <1>3, <1>11
  <2> QED BY <2>1 DEF Slid
<1>13. at + n <= p + n /\ p + n <= e /\ p <= e /\ l + n \in Nat /\ l + n > 0 /\ r + (l + n) = at + n
       /\ at <= e
  <2>1. e - p = g - c /\ n \in Nat /\ n > 0 /\ c + n <= g
    BY <1>2, <1>3
  <2> QED BY <1>4, <1>5, <2>1
<1>14. Typed(t)
  BY <1>1, <1>3, <1>8, <1>11, <1>13 DEF Typed
<1>15. Fits(t, n)
  <2>1. t.r.cur_pos <= Len(t.m[t.r.cur])
    BY <1>8, <1>12, <1>13 DEF x
  <2>2. r + (l + n) <= p + n
    BY <1>13
  <2> QED BY <1>1, <1>2, <1>8, <1>9, <1>13, <2>1, <2>2 DEF Fits
<1>16. Lives(t, n, c, g)
  <2>1. CurLen(t) = e
    BY <1>2, <1>8, <1>12 DEF CurLen, x
  <2>2. LiveLen(t) = g - c
    BY <1>2, <1>3, <1>8, <2>1 DEF LiveLen
  <2>3. ~t.r.live_in_buf
    BY <1>8
  <2> QED BY <1>2, <1>8, <1>12, <2>2, <2>3 DEF Lives, x
<1>17. ru \in Seq(Nat \X Places) /\ l = Len(ru) /\ nw \in Seq(Nat \X Places) /\ n = Len(nw)
  BY <1>1, <1>3, <1>10 DEF Runs, Added
<1>18. /\ rn \in Seq(Nat \X Places) /\ Len(rn) = l + n
       /\ \A i \in 1..l : rn[i] = ru[i]
       /\ \A i \in 1..n : rn[l + i] = nw[i]
       /\ \A i \in 1..(l + n) : i \in 1..l \/ (i - l \in 1..n /\ l + (i - l) = i)
  <2>1. n \in Nat
    BY <1>2
  <2> QED BY <1>17, <2>1, RunCat
<1> HIDE DEF rn
<1>19. ASSUME NEW i \in 1..n
       PROVE  rn[l + i][1] = c + i /\ rn[l + i][2][1] = h /\ rn[l + i][2][2] = at + i
  <2>1. nw[i] = <<c + i, <<h, at + i>>>>
    BY <1>10 DEF Added
  <2>2. rn[l + i] = nw[i]
    BY <1>18
  <2> QED BY <2>1, <2>2
<1>20. Runs(t, rn)
  <2>1. ASSUME NEW i \in 1..(l + n) PROVE x[r + i] = rn[i][1]
    <3>1. CASE i \in 1..l
      <4>1. l > 0 /\ r + i \in 1..at
        BY <1>5, <3>1
      <4>2. s.r.run_in_cur /\ r = s.r.run_start
        BY <1>4, <4>1
      <4>3. s.m[h][r + i] = ru[i][1]
        BY <1>1, <1>17, <3>1, <4>2 DEF Runs
      <4> QED BY <1>12, <1>18, <3>1, <4>1, <4>3
    <3>2. CASE i - l \in 1..n /\ l + (i - l) = i
      <4>1. PICK j \in 1..n : l + j = i
        BY <3>2
      <4>2. r + i = at + j
        BY <1>5, <4>1
      <4> QED BY <1>12, <1>19, <4>1, <4>2
    <3> QED BY <1>18, <3>1, <3>2
  <2> QED BY <1>8, <1>9, <1>18, <2>1 DEF Runs, x
<1>21. \A a : InBuf(s, a) => InBuf(t, a)
  BY <1>8 DEF InBuf
<1>22. \A a : InMem(s, a) /\ (a[2][1] = h => a[2][2] <= at) => InMem(t, a)
  <2> SUFFICES ASSUME NEW a, InMem(s, a), a[2][1] = h => a[2][2] <= at PROVE InMem(t, a)
    OBVIOUS
  <2>1. CASE a[2][1] = h
    <3>1. a[2][2] \in 1..e /\ s.m[h][a[2][2]] = a[1]
      BY <1>3, <2>1 DEF InMem
    <3>2. a[2][2] \in 1..at
      BY <2>1, <3>1
    <3> QED BY <1>2, <1>12, <2>1, <3>1, <3>2 DEF InMem, x
  <2>2. CASE a[2][1] # h
    BY <1>11, <2>2 DEF InMem
  <2> QED BY <2>1, <2>2
<1>23. ASSUME NEW a \in fr PROVE Frozen(t, a)
  <2>1. Frozen(s, a) /\ a[2][2] \in Nat
    BY <1>1 DEF Stays, Places
  <2>2. CASE InBuf(s, a)
    BY <1>21, <2>2 DEF Frozen
  <2>3. CASE InMem(s, a) /\ s.r.has_pinned /\ a[2][1] = s.r.pinned
             /\ (s.r.cur_is_pinned => a[2][2] <= s.r.cur_pos)
             /\ (s.r.run_in_cur /\ s.r.cur_is_pinned => a[2][2] <= s.r.run_start)
    <3>1. s.r.cur_is_pinned => a[2][2] <= r /\ a[2][2] <= p
      <4>1. s.r.cur_is_pinned => a[2][2] <= p /\ (l > 0 => a[2][2] <= r)
        BY <1>3, <1>4, <2>3
      <4> QED BY <1>4, <4>1
    <3>2. a[2][1] = h => s.r.cur_is_pinned
      BY <1>1, <1>2, <2>3 DEF Own
    <3>3. a[2][1] = h => a[2][2] <= at
      BY <1>5, <2>1, <3>1, <3>2
    <3>4. InMem(t, a)
      BY <1>22, <2>3, <3>3
    <3> QED BY <1>8, <2>3, <3>1, <3>4 DEF Frozen
  <2> QED BY <2>1, <2>2, <2>3 DEF Frozen
<1>24. ~t.r.began => ~s.r.has_pinned
  <2>1. ~s.r.began /\ s.r.has_pinned => s.r.run_len > 0 /\ ~s.r.run_in_cur
    BY <1>1 DEF Stays
  <2>2. s.r.run_len = 0 \/ s.r.run_in_cur
    OBVIOUS
  <2>3. s.r.run_len = 0 => ~(s.r.run_len > 0)
    OBVIOUS
  <2> QED BY <1>8, <2>1, <2>2, <2>3
<1>25. ASSUME ~t.r.began, NEW i \in 1..Len(rn) PROVE Kept(t, rn[i])
  <2>0. i \in 1..(l + n) /\ ~s.r.has_pinned /\ ~s.r.began
    BY <1>8, <1>18, <1>24, <1>25
  <2>1. CASE i \in 1..l
    <3>1. Kept(s, ru[i]) /\ rn[i] = ru[i]
      BY <1>1, <1>17, <1>18, <2>0, <2>1 DEF Stays
    <3>2. CASE InBuf(s, ru[i])
      BY <1>21, <3>1, <3>2 DEF Kept
    <3>3. CASE InMem(s, ru[i]) /\ s.r.run_in_cur /\ ru[i][2][1] = h
               /\ ru[i][2][2] <= s.r.run_start + s.r.run_len
      <4>1. l > 0
        BY <2>1
      <4>2. ru[i][2][2] <= at
        BY <1>3, <1>4, <1>5, <3>3, <4>1
      <4>3. InMem(t, ru[i])
        BY <1>22, <3>3, <4>2
      <4>4. ru[i][2][2] \in Nat
        BY <3>3 DEF InMem
      <4>5. ru[i][2][2] <= r + (l + n)
        <5>1. PICK j \in Nat : j = ru[i][2][2]
          BY <4>4
        <5>2. at <= r + (l + n)
          BY <1>2, <1>5
        <5>3. PICK z \in Nat : z = r + (l + n)
          BY <1>13
        <5>4. j <= at /\ at <= z
          BY <4>2, <5>1, <5>2, <5>3
        <5>5. j <= z
          BY <5>4
        <5> QED BY <5>1, <5>3, <5>5
      <4> QED BY <1>8, <1>9, <3>1, <3>3, <4>3, <4>5 DEF Kept
    <3> QED BY <2>0, <3>1, <3>2, <3>3 DEF Kept
  <2>2. CASE i - l \in 1..n /\ l + (i - l) = i
    <3>1. PICK j \in 1..n : l + j = i
      BY <2>2
    <3>2. rn[i][1] = c + j /\ rn[i][2][1] = h /\ rn[i][2][2] = at + j
      BY <1>19, <3>1
    <3>3. at + j \in 1..e /\ at + j <= r + (l + n)
      BY <1>2, <1>13, SMTT(30)
    <3>4. InMem(t, rn[i])
      BY <1>2, <1>12, <3>2, <3>3 DEF InMem, x
    <3> QED BY <1>8, <1>9, <3>2, <3>3, <3>4 DEF Kept
  <2> QED BY <1>18, <2>0, <2>1, <2>2
<1>26. Stays(t, rn, fr)
  <2>1. fr \subseteq Nat \X Places
    BY <1>1 DEF Stays
  <2> QED BY <1>8, <1>23, <1>24, <1>25, <2>1 DEF Stays
<1>27. Leaves(s, t)
  BY <1>8, <1>11 DEF Leaves
<1>28. Data(t, n, c, g, rn, fr)
  BY <1>14, <1>15, <1>16, <1>20, <1>26 DEF Data
<1> QED BY <1>27, <1>28 DEF t, k, nw, rn

-----------------------------------------------------------------------------
(* What leaves the bytes alone: another error, another memory that the     *)
(* reader does not hold.                                                   *)

\* The fields of the reader that say where bytes are.
Bounds(v, r) ==
    /\ v.buf = r.buf /\ v.floor = r.floor /\ v.live_in_buf = r.live_in_buf
    /\ v.buf_pos = r.buf_pos /\ v.buf_end = r.buf_end
    /\ v.cur = r.cur /\ v.has_cur = r.has_cur /\ v.cur_pos = r.cur_pos
    /\ v.pinned = r.pinned /\ v.has_pinned = r.has_pinned
    /\ v.cur_is_pinned = r.cur_is_pinned
    /\ v.run_in_cur = r.run_in_cur /\ v.run_start = r.run_start /\ v.run_len = r.run_len
    /\ v.began = r.began

Reads(s, t) ==
    /\ Bounds(t.r, s.r) /\ t.m \in [Buffers -> Seq(Nat)]
    /\ \A b \in Buffers : b = s.r.cur \/ b = s.r.pinned => t.m[b] = s.m[b]

LEMMA SameData ==
    ASSUME NEW s, NEW t, NEW c, NEW g, NEW ru, NEW fr, Data(s, 0, c, g, ru, fr), Own(s.r),
           Reads(s, t)
    PROVE  Data(t, 0, c, g, ru, fr)
<1>1. Typed(s) /\ Fits(s, 0) /\ Lives(s, 0, c, g) /\ Runs(s, ru) /\ Stays(s, ru, fr)
  BY DEF Data
<1>2. s.r.has_cur => s.r.cur \in Buffers /\ t.m[s.r.cur] = s.m[s.r.cur]
  BY DEF Own, Reads
<1>3. Typed(t)
  BY <1>1 DEF Typed, Reads, Bounds
<1>4. Fits(t, 0)
  BY <1>1, <1>2 DEF Fits, Reads, Bounds
<1>5. Lives(t, 0, c, g)
  <2>1. LiveLen(t) = LiveLen(s)
    BY <1>2 DEF LiveLen, CurLen, Reads, Bounds
  <2> QED BY <1>1, <1>2, <2>1, SMTT(30) DEF Lives, Reads, Bounds
<1>6. Firm(s, t)
  <2>1. s.r.cur_pos \in Nat /\ s.r.cur_pos <= s.r.cur_pos
    BY <1>1 DEF Typed
  <2> QED BY <2>1 DEF Firm, Reads, Bounds
<1>7. Runs(t, ru) /\ Stays(t, ru, fr)
  BY <1>1, <1>6, StaysPut
<1> QED BY <1>3, <1>4, <1>5, <1>7 DEF Data

\* One helper behind the other.
LEMMA LeavesTwice ==
    ASSUME NEW s, NEW t, NEW u, Leaves(s, t), Leaves(t, u)
    PROVE  Leaves(s, u)
<1>1. ASSUME NEW b \in Buffers, b # s.r.cur, b # s.r.pinned PROVE u.m[b] = s.m[b]
  <2>1. b # None
    BY PipeAssumption DEF None
  <2>2. t.m[b] = s.m[b] /\ b # t.r.cur /\ b # t.r.pinned
    BY <1>1, <2>1 DEF Leaves
  <2> QED BY <2>2 DEF Leaves
<1> QED BY <1>1 DEF Leaves

\* A buffer of the ring is with nobody else.
LEMMA FreeIsApart ==
    ASSUME NEW s, NEW q, Held(s, q), NEW b \in Buffers, s.k[b] > 0
    PROVE  b # s.r.cur /\ b # s.r.pinned /\ \A i \in 1..Len(q) : q[i] # b
<1>1. q \in Seq(Buffers) /\ s.k \in [Buffers -> Nat] /\ Homes(s.k, q, s.r)
  BY DEF Held
<1>2. s.k[b] + Occ(q, b) + Holder(s.r, b) = 1 /\ s.k[b] \in Nat
  BY <1>1 DEF Homes
<1>3. Occ(q, b) \in Nat
  BY <1>1, OccNat
<1>4. Holder(s.r, b) = 0
  BY <1>2, <1>3 DEF Holder
<1>5. ASSUME NEW i \in 1..Len(q) PROVE q[i] # b
  <2>1. s.k[q[i]] = 0
    BY Apart
  <2> QED BY <2>1
<1>6. b # s.r.cur /\ b # s.r.pinned
  BY <1>4 DEF Holder
<1> QED BY <1>5, <1>6

-----------------------------------------------------------------------------
(* The bytes that are queued.                                              *)

\* Another memory, the same in the queue.
LEMMA FedFrame ==
    ASSUME NEW q, NEW m, NEW w, NEW g, NEW x, Fed(q, m, g, x),
           \A i \in 1..Len(q) : w[q[i]] = m[q[i]]
    PROVE  Fed(q, w, g, x)
BY DEF Fed

\* A helper that leaves what the reader does not hold alone.
LEMMA FedBeside ==
    ASSUME NEW s, NEW t, NEW q, Held(s, q), Leaves(s, t), NEW g, NEW x, Fed(q, s.m, g, x)
    PROVE  Fed(q, t.m, g, x)
<1>1. ASSUME NEW i \in 1..Len(q) PROVE t.m[q[i]] = s.m[q[i]]
  <2>1. q[i] \in Buffers /\ q[i] # s.r.cur /\ q[i] # s.r.pinned
    BY Apart
  <2> QED BY <2>1 DEF Leaves
<1> QED BY <1>1, FedFrame

\* A delivery: the bytes behind all that arrived, in a buffer that was free.
LEMMA FedMore ==
    ASSUME NEW q \in Seq(Buffers), NEW m \in [Buffers -> Seq(Nat)], NEW g, NEW x \in Nat,
           Fed(q, m, g, x), NEW b \in Buffers, NEW n \in Nat, \A i \in 1..Len(q) : q[i] # b
    PROVE  Fed(Append(q, b), [m EXCEPT ![b] = Bytes(x, n)], g, x + n)
<1> DEFINE w == [m EXCEPT ![b] = Bytes(x, n)]
           p == Append(q, b)
<1>1. PICK l \in Nat : l = Len(q)
  OBVIOUS
<1>2. PICK o \in [0..l -> Nat] :
        /\ o[0] = g /\ o[l] = x
        /\ \A i \in 1..l : o[i - 1] <= o[i] /\ m[q[i]] = Bytes(o[i - 1], o[i] - o[i - 1])
  BY <1>1 DEF Fed
<1> DEFINE u == [i \in 0..(l + 1) |-> IF i = l + 1 THEN x + n ELSE o[i]]
<1>3. u \in [0..(l + 1) -> Nat] /\ u[l + 1] = x + n /\ \A i \in 0..l : u[i] = o[i]
  OBVIOUS
<1>4. Len(p) = l + 1 /\ p[l + 1] = b /\ \A i \in 1..l : p[i] = q[i]
  BY <1>1
<1>5. w[b] = Bytes(x, n) /\ \A i \in 1..l : w[q[i]] = m[q[i]]
  <2>1. \A i \in 1..l : q[i] \in Buffers /\ q[i] # b
    BY <1>1
  <2> QED BY <2>1
<1> HIDE DEF u, w, p
<1>6. ASSUME NEW i \in 1..(l + 1)
      PROVE  u[i - 1] <= u[i] /\ w[p[i]] = Bytes(u[i - 1], u[i] - u[i - 1])
  <2>1. CASE i \in 1..l
    <3>1. i - 1 \in 0..l /\ i \in 0..l
      BY <2>1
    <3>2. u[i - 1] = o[i - 1] /\ u[i] = o[i]
      BY <1>3, <3>1
    <3> QED BY <1>2, <1>4, <1>5, <2>1, <3>2
  <2>2. CASE i = l + 1
    <3>1. i - 1 = l /\ l \in 0..l
      BY <2>2
    <3>2. u[i - 1] = x /\ u[i] = x + n
      BY <1>2, <1>3, <2>2, <3>1
    <3>3. (x + n) - x = n /\ x <= x + n
      OBVIOUS
    <3> QED BY <1>4, <1>5, <2>2, <3>2, <3>3
  <2>3. i \in 1..l \/ i = l + 1
    OBVIOUS
  <2> QED BY <2>1, <2>2, <2>3
<1>7. u[0] = g /\ u[Len(p)] = x + n
  <2>1. 0 \in 0..l
    OBVIOUS
  <2> QED BY <1>2, <1>3, <1>4, <2>1
<1>8. Fed(p, w, g, x + n)
  BY <1>3, <1>4, <1>6, <1>7 DEF Fed
<1> QED BY <1>8 DEF p, w

\* The head of the queue holds the next bytes, the rest those behind them.
LEMMA FedHead ==
    ASSUME NEW q \in Seq(Buffers), q # <<>>, NEW m, NEW w, NEW g \in Nat, NEW x,
           Fed(q, m, g, x), \A i \in 2..Len(q) : w[q[i]] = m[q[i]]
    PROVE  /\ Follows(m[Head(q)], g) /\ Len(m[Head(q)]) \in Nat
           /\ Fed(Tail(q), w, g + Len(m[Head(q)]), x)
<1>1. PICK l \in Nat : l + 1 = Len(q)
  <2>1. Len(q) \in Nat /\ Len(q) # 0
    OBVIOUS
  <2>2. Len(q) - 1 \in Nat /\ (Len(q) - 1) + 1 = Len(q)
    BY <2>1
  <2> QED BY <2>2
<1>2. PICK o \in [0..(l + 1) -> Nat] :
        /\ o[0] = g /\ o[l + 1] = x
        /\ \A i \in 1..(l + 1) : o[i - 1] <= o[i] /\ m[q[i]] = Bytes(o[i - 1], o[i] - o[i - 1])
  BY <1>1 DEF Fed
<1>3. PICK y \in Nat : y = o[1]
  OBVIOUS
<1>4. g <= y /\ m[Head(q)] = Bytes(g, y - g)
  <2>1. 1 \in 1..(l + 1) /\ 1 - 1 = 0 /\ Head(q) = q[1]
    BY <1>1
  <2> QED BY <1>2, <1>3, <2>1
<1>5. PICK n \in Nat : n = y - g /\ g + n = y
  BY <1>4
<1>6. Follows(m[Head(q)], g) /\ Len(m[Head(q)]) = n
  <2>1. m[Head(q)] = Bytes(g, n)
    BY <1>4, <1>5
  <2>2. /\ Bytes(g, n) \in Seq(Nat) /\ Len(Bytes(g, n)) = n
        /\ \A i \in 1..n : Bytes(g, n)[i] = g + i
    BY BytesAre
  <2> QED BY <2>1, <2>2 DEF Follows
<1> DEFINE u == [i \in 0..l |-> o[i + 1]]
           p == Tail(q)
<1>7. u \in [0..l -> Nat] /\ \A i \in 0..l : u[i] = o[i + 1]
  OBVIOUS
<1>8. Len(p) = l /\ \A i \in 1..l : p[i] = q[i + 1]
  BY <1>1
<1> HIDE DEF u, p
<1>9. ASSUME NEW i \in 1..l
      PROVE  u[i - 1] <= u[i] /\ w[p[i]] = Bytes(u[i - 1], u[i] - u[i - 1])
  <2>1. i - 1 \in 0..l /\ i \in 0..l /\ i + 1 \in 1..(l + 1) /\ (i + 1) - 1 = i /\ (i - 1) + 1 = i
        /\ i + 1 \in 2..Len(q)
    BY <1>1
  <2>2. u[i - 1] = o[i] /\ u[i] = o[i + 1]
    BY <1>7, <2>1
  <2>3. o[i] <= o[i + 1] /\ m[q[i + 1]] = Bytes(o[i], o[i + 1] - o[i])
    BY <1>2, <2>1
  <2> QED BY <1>8, <2>1, <2>2, <2>3
<1>10. u[0] = g + n /\ u[Len(p)] = x
  <2>1. 0 \in 0..l /\ l \in 0..l /\ 0 + 1 = 1
    OBVIOUS
  <2> QED BY <1>2, <1>3, <1>5, <1>7, <1>8, <2>1
<1>11. Fed(p, w, g + n, x)
  BY <1>7, <1>8, <1>9, <1>10 DEF Fed
<1> QED BY <1>6, <1>11 DEF p

\* An empty queue: all that arrived was given.
LEMMA FedNone ==
    ASSUME NEW m, NEW g \in Nat, NEW x
    PROVE  Fed(<<>>, m, g, x) <=> g = x
<1>1. ASSUME Fed(<<>>, m, g, x) PROVE g = x
  BY <1>1 DEF Fed
<1>2. ASSUME g = x PROVE Fed(<<>>, m, g, x)
  <2> DEFINE o == [i \in 0..0 |-> g]
  <2>1. o \in [0..Len(<<>>) -> Nat] /\ o[0] = g /\ o[Len(<<>>)] = g
    OBVIOUS
  <2>2. \A i \in 1..Len(<<>>) : FALSE
    OBVIOUS
  <2> HIDE DEF o
  <2> QED BY <1>2, <2>1, <2>2 DEF Fed
<1> QED BY <1>1, <1>2

-----------------------------------------------------------------------------
(* The steps.                                                              *)

\* A step that leaves a state of the helpers behind.
LEMMA SetGood ==
    ASSUME NEW s, IsState(s), Set(s), Data(s, 0, consumed', got', run', frozen'), sent' \in Nat,
           s.r.error = "none" => Fed(rx', s.m, got', sent')
    PROVE  Good'
<1>1. State' = s /\ pr' = s.r /\ mem' = s.m
  BY DEF IsState, Set, State
<1>2. Data(State, 0, consumed, got, run, frozen)'
  <2>1. Data(State', 0, consumed', got', run', frozen')
    BY <1>1
  <2>2. Typed(State)'
    BY <2>1 DEF Data, Typed, State
  <2>3. Fits(State, 0)'
    BY <2>1 DEF Data, Fits, State
  <2>4. Lives(State, 0, consumed, got)'
    BY <2>1 DEF Data, Lives, LiveLen, CurLen, State
  <2>5. Runs(State, run)'
    BY <2>1 DEF Data, Runs, State, Places
  <2>6. Stays(State, run, frozen)'
    BY <2>1 DEF Data, Stays, Frozen, Kept, InBuf, InMem, State, Places
  <2> QED BY <2>2, <2>3, <2>4, <2>5, <2>6 DEF Data
<1>3. Feed'
  BY <1>1 DEF Feed, Fed, Bytes
<1> QED BY <1>2, <1>3 DEF Good

\* The state the helpers begin with.
LEMMA Begins ==
    ASSUME Held(State, rx), Good
    PROVE  /\ State.r = pr /\ State.m = mem /\ State.k = ring /\ IsState(State) /\ Own(pr)
           /\ Data(State, 0, consumed, got, run, frozen) /\ Typed(State)
           /\ rx \in Seq(Buffers) /\ mem \in [Buffers -> Seq(Nat)]
           /\ consumed \in Nat /\ got \in Nat /\ sent \in Nat
           /\ pr.error = "none" => Fed(rx, mem, got, sent)
BY DEF Held, Good, Data, Typed, Lives, State, Feed

\* A step that changes no byte and no bound.
LEMMA ReaderGood ==
    ASSUME Held(State, rx), Good, Rec(pr'), Bounds(pr', pr),
           pr'.error = "none" => pr.error = "none",
           UNCHANGED <<mem, ring, rx, sent, got, consumed, run, frozen>>
    PROVE  Good'
<1> DEFINE t == [r |-> pr', m |-> mem, k |-> ring]
<1>1. /\ State.r = pr /\ State.m = mem /\ Own(pr) /\ sent \in Nat
      /\ Data(State, 0, consumed, got, run, frozen) /\ mem \in [Buffers -> Seq(Nat)]
      /\ pr.error = "none" => Fed(rx, mem, got, sent)
  BY Begins
<1>2. IsState(t) /\ t.r = pr' /\ t.m = mem
  BY DEF IsState
<1>3. Set(t)
  BY DEF Set
<1> HIDE DEF t
<1>4. Reads(State, t)
  BY <1>1, <1>2 DEF Reads
<1>5. Data(t, 0, consumed, got, run, frozen)
  BY <1>1, <1>4, SameData
<1> QED BY <1>1, <1>2, <1>3, <1>5, SetGood

\* A delivery: into a buffer the reader does not hold.
LEMMA DeliverGood ==
    ASSUME Held(State, rx), Good, Deliver
    PROVE  Good'
<1>1. PICK b \in Buffers, n \in 1..BufSize :
        /\ ring[b] > 0 /\ mem' = [mem EXCEPT ![b] = Bytes(sent, n)]
        /\ rx' = Append(rx, b) /\ sent' = sent + n
        /\ UNCHANGED <<pr, got, consumed, run, frozen>>
  BY DEF Deliver
<1>2. /\ State.r = pr /\ State.m = mem /\ State.k = ring /\ Own(pr) /\ IsState(State)
      /\ sent \in Nat /\ got \in Nat /\ rx \in Seq(Buffers)
      /\ Data(State, 0, consumed, got, run, frozen) /\ mem \in [Buffers -> Seq(Nat)]
      /\ pr.error = "none" => Fed(rx, mem, got, sent)
  BY Begins
<1>3. n \in Nat
  BY PipeAssumption
<1>4. b # pr.cur /\ b # pr.pinned /\ \A i \in 1..Len(rx) : rx[i] # b
  BY <1>1, <1>2, FreeIsApart
<1> DEFINE t == [r |-> pr, m |-> mem', k |-> ring']
<1>5. IsState(t) /\ t.r = pr /\ t.m = mem' /\ Set(t)
  BY <1>1, <1>2 DEF IsState, Set
<1> HIDE DEF t
<1>6. Bytes(sent, n) \in Seq(Nat)
  BY <1>2, <1>3, BytesAre
<1>7. Reads(State, t)
  <2>1. mem' \in [Buffers -> Seq(Nat)]
    BY <1>1, <1>2, <1>6
  <2>2. \A e \in Buffers : e = pr.cur \/ e = pr.pinned => mem'[e] = mem[e]
    BY <1>1, <1>2, <1>4
  <2> QED BY <1>2, <1>5, <2>1, <2>2 DEF Reads, Bounds
<1>8. Data(t, 0, consumed, got, run, frozen)
  BY <1>2, <1>7, SameData
<1>9. pr.error = "none" => Fed(rx', mem', got, sent')
  BY <1>1, <1>2, <1>3, <1>4, FedMore
<1>10. sent' \in Nat
  BY <1>1, <1>2, <1>3
<1> QED BY <1>1, <1>5, <1>8, <1>9, <1>10, SetGood

\* The other steps of the reader, and the end of the input.
LEMMA OthersGood ==
    ASSUME Held(State, rx), Good, MoreEnd \/ Examine \/ End \/ UNCHANGED vars
    PROVE  Good'
<1>1. Rec(pr)
  BY DEF Held, IsState, State
<1>2. CASE MoreEnd
  <2>1. PICK e : pr' = [pr EXCEPT !.eof = TRUE, !.error = e]
    BY <1>2 DEF MoreEnd
  <2>2. UNCHANGED <<mem, ring, rx, sent, got, consumed, run, frozen>> /\ pr.error = "none"
    BY <1>2 DEF MoreEnd, world, Asking
  <2>3. Rec(pr')
    BY <1>1, <2>1 DEF Rec
  <2>4. Bounds(pr', pr)
    BY <1>1, <2>1 DEF Rec, Bounds
  <2> QED BY <2>2, <2>3, <2>4, ReaderGood
<1>3. CASE Examine
  <2>1. /\ pr' = [pr EXCEPT !.examined = LiveLen(State)]
        /\ UNCHANGED <<mem, ring, rx, sent, got, consumed, run, frozen>>
    BY <1>3 DEF Examine, world
  <2>2. Rec(pr')
    BY <1>1, <2>1 DEF Rec
  <2>3. Bounds(pr', pr) /\ pr'.error = pr.error
    BY <1>1, <2>1 DEF Rec, Bounds
  <2> QED BY <2>1, <2>2, <2>3, ReaderGood
<1>4. CASE End \/ UNCHANGED vars
  <2>1. UNCHANGED <<pr, mem, ring, rx, sent, got, consumed, run, frozen>>
    BY <1>4 DEF End, vars
  <2>2. Rec(pr') /\ Bounds(pr', pr) /\ pr'.error = pr.error
    BY <1>1, <2>1 DEF Bounds
  <2> QED BY <2>1, <2>2, ReaderGood
<1> QED BY <1>2, <1>3, <1>4

\* What the helpers make of the reader alone: the queue is as it was.
LEMMA HelperGood ==
    ASSUME Held(State, rx), Good, NEW s, IsState(s), Set(s), Leaves(State, s),
           Data(s, 0, consumed', got', run', frozen'), UNCHANGED <<rx, sent, got>>
    PROVE  Good'
<1>1. /\ State.r = pr /\ State.m = mem /\ sent \in Nat
      /\ pr.error = "none" => Fed(rx, mem, got, sent)
  BY Begins
<1>2. s.r.error = "none" => Fed(rx, s.m, got, sent)
  <2> SUFFICES ASSUME s.r.error = "none" PROVE Fed(rx, s.m, got, sent)
    OBVIOUS
  <2>1. Fed(rx, State.m, got, sent)
    BY <1>1 DEF Leaves
  <2> QED BY <2>1, FedBeside
<1> QED BY <1>1, <1>2, SetGood

\* drop: the next live bytes are forgotten.
LEMMA DropGood ==
    ASSUME Held(State, rx), Good, Drop
    PROVE  Good'
<1>1. PICK n \in 1..LiveLen(State) : Set(Consume(State, n)) /\ consumed' = consumed + n
  BY DEF Drop
<1>2. UNCHANGED <<rx, sent, got, run, frozen>>
  BY DEF Drop, world
<1>3. Data(State, 0, consumed, got, run, frozen)
  BY Begins
<1>4. Data(State, n, consumed, got, run, frozen)
  BY <1>3, Fewer
<1> DEFINE t == Consume(State, n)
<1>5. Data(t, 0, consumed + n, got, run, frozen) /\ Leaves(State, t)
  BY <1>4, ConsumeData
<1>6. IsState(t)
  <2>1. Held(t, rx)
    BY ConsumeHeld
  <2> HIDE DEF t
  <2> QED BY <2>1 DEF Held
<1> HIDE DEF t
<1>7. Data(t, 0, consumed', got', run', frozen') /\ Set(t)
  BY <1>1, <1>2, <1>5 DEF t
<1> QED BY <1>2, <1>5, <1>6, <1>7, HelperGood

\* keep, once the bytes are where they stay: they are consumed.
LEMMA KeptGood ==
    ASSUME Held(State, rx), Good, NEW k, NEW n, Held(Longer(k, n), rx),
           Data(Longer(k, n), n, consumed, got, run \o Fetched(k, n, consumed), frozen),
           Leaves(State, Longer(k, n)), Set(Consume(Longer(k, n), n)),
           consumed' = consumed + n, run' = run \o Fetched(k, n, consumed),
           UNCHANGED <<rx, sent, got, frozen>>
    PROVE  Good'
<1> DEFINE t == Longer(k, n)
           u == Consume(t, n)
<1> HIDE DEF t
<1>1. Data(u, 0, consumed + n, got, run \o Fetched(k, n, consumed), frozen) /\ Leaves(t, u)
  BY ConsumeData DEF t
<1>2. IsState(u)
  <2>1. Held(u, rx)
    BY ConsumeHeld DEF t
  <2> HIDE DEF u
  <2> QED BY <2>1 DEF Held
<1> HIDE DEF u
<1>3. Leaves(State, u)
  BY <1>1, LeavesTwice DEF t
<1>4. Data(u, 0, consumed', got', run', frozen') /\ Set(u)
  BY <1>1 DEF u, t
<1> QED BY <1>2, <1>3, <1>4, HelperGood

LEMMA KeepGood ==
    ASSUME Held(State, rx), Good, Keep
    PROVE  Good'
<1>0. /\ Rec(pr) /\ Own(pr) /\ State.r = pr /\ consumed \in Nat /\ got \in Nat
      /\ Data(State, 0, consumed, got, run, frozen)
  BY Begins DEF IsState
<1>1. PICK n \in 1..LiveLen(State) :
        LET inCur  == ~pr.live_in_buf /\ (pr.run_len = 0 \/ pr.run_in_cur)
            across == ~pr.live_in_buf /\ ~inCur
            s == IF pr.live_in_buf THEN KeepInBuf(State, n)
                 ELSE IF inCur THEN KeepInCur(State, n)
                 ELSE KeepAcross(State, n)
        IN \/ /\ across => pr.floor + n <= Cap
              /\ Set(Consume(Longer(s, n), n)) /\ consumed' = consumed + n
              /\ run' = run \o Fetched(s, n, consumed)
              /\ UNCHANGED <<rx, sent, got, frozen>>
           \/ /\ pr' = [pr EXCEPT !.error = "full"]
              /\ UNCHANGED <<mem, ring, rx, sent, got, consumed, run, frozen>>
  BY DEF Keep, world, Longer, Fetched
<1> DEFINE inCur == ~pr.live_in_buf /\ (pr.run_len = 0 \/ pr.run_in_cur)
           across == ~pr.live_in_buf /\ ~inCur
           k == IF pr.live_in_buf THEN KeepInBuf(State, n)
                ELSE IF inCur THEN KeepInCur(State, n)
                ELSE KeepAcross(State, n)
           t == Longer(k, n)
<1>2. CASE /\ across => pr.floor + n <= Cap
           /\ Set(Consume(t, n)) /\ consumed' = consumed + n
           /\ run' = run \o Fetched(k, n, consumed)
           /\ UNCHANGED <<rx, sent, got, frozen>>
  <2>0. n \in Nat
    BY <1>0 DEF Data, Lives
  <2>1. /\ Held(k, rx) /\ (k.r.run_in_cur => k.r.has_cur)
        /\ Data(t, n, consumed, got, run \o Fetched(k, n, consumed), frozen)
        /\ Leaves(State, t)
    <3>1. CASE pr.live_in_buf
      <4>1. k = KeepInBuf(State, n)
        BY <3>1
      <4> HIDE DEF k
      <4>2. Held(k, rx) /\ (k.r.run_in_cur => k.r.has_cur)
        BY <4>1, KeepInBufHeld
      <4> QED BY <1>0, <3>1, <4>1, <4>2, KeepInBufData
    <3>2. CASE inCur
      <4>1. k = KeepInCur(State, n)
        BY <3>2
      <4> HIDE DEF k
      <4>2. State.r.has_cur
        BY <1>0, <3>2, LiveInCur
      <4>3. Held(k, rx) /\ (k.r.run_in_cur => k.r.has_cur)
        BY <4>1, <4>2, KeepInCurHeld
      <4> QED BY <1>0, <3>2, <4>1, <4>3, KeepInCurData
    <3>3. CASE across
      <4>1. k = KeepAcross(State, n)
        BY <3>3
      <4> HIDE DEF k
      <4>2. ~State.r.run_in_cur /\ ~State.r.live_in_buf /\ State.r.run_len # 0
            /\ State.r.floor + n <= Cap
        BY <1>0, <1>2, <3>3
      <4>3. Held(k, rx) /\ (k.r.run_in_cur => k.r.has_cur)
        BY <4>1, <4>2, KeepAcrossHeld
      <4> QED BY <1>0, <4>1, <4>2, <4>3, KeepAcrossData
    <3> QED BY <3>1, <3>2, <3>3
  <2> HIDE DEF k
  <2>2. Held(t, rx)
    BY <2>0, <2>1, LongerHeld DEF Longer
  <2> QED BY <1>2, <2>1, <2>2, KeptGood
<1>3. CASE /\ pr' = [pr EXCEPT !.error = "full"]
           /\ UNCHANGED <<mem, ring, rx, sent, got, consumed, run, frozen>>
  <2>1. Rec(pr')
    BY <1>0, <1>3 DEF Rec
  <2>2. Bounds(pr', pr) /\ pr'.error = "full"
    BY <1>0, <1>3 DEF Rec, Bounds
  <2> QED BY <1>3, <2>1, <2>2, ReaderGood
<1> QED BY <1>1, <1>2, <1>3

\* What is at the head of the queue: the next bytes; what is behind it, those
\* behind them, once the head is taken and whatever becomes of its memory.
LEMMA NextIs ==
    ASSUME Held(State, rx), Good, rx # <<>>, pr.error = "none"
    PROVE  /\ Head(rx) \in Buffers /\ Follows(mem[Head(rx)], got) /\ Len(mem[Head(rx)]) \in Nat
           /\ mem[Head(rx)] \in Seq(Nat)
           /\ Head(rx) # pr.cur /\ Head(rx) # pr.pinned
           /\ Fed(rx, mem, got, sent)
<1>1. /\ State.r = pr /\ State.m = mem /\ rx \in Seq(Buffers) /\ got \in Nat
      /\ mem \in [Buffers -> Seq(Nat)] /\ Fed(rx, mem, got, sent)
  BY Begins
<1>2. 1 \in 1..Len(rx) /\ Head(rx) = rx[1]
  BY <1>1
<1>3. Head(rx) \in Buffers /\ Head(rx) # pr.cur /\ Head(rx) # pr.pinned
  BY <1>1, <1>2, Apart
<1>4. Follows(mem[Head(rx)], got) /\ Len(mem[Head(rx)]) \in Nat
  BY <1>1, FedHead
<1> QED BY <1>1, <1>3, <1>4

\* more, in place: nothing was live, the next bytes are.
LEMMA MoreInPlaceGood ==
    ASSUME Held(State, rx), Good, MoreInPlace
    PROVE  Good'
<1> DEFINE h == Head(rx)
           w == mem[h]
           t == [r |-> pr', m |-> mem, k |-> ring]
<1>1. /\ rx # <<>> /\ pr.error = "none" /\ ~pr.live_in_buf /\ ~pr.has_cur
      /\ rx' = Tail(rx) /\ got' = got + Len(w)
      /\ pr' = [pr EXCEPT !.cur = h, !.has_cur = TRUE, !.cur_pos = 0, !.cur_is_pinned = FALSE]
      /\ UNCHANGED <<mem, ring, sent, consumed, run, frozen>>
  BY DEF MoreInPlace, Asking
<1>2. /\ State.r = pr /\ State.m = mem /\ IsState(State) /\ Own(pr) /\ Typed(State)
      /\ Data(State, 0, consumed, got, run, frozen) /\ rx \in Seq(Buffers)
      /\ mem \in [Buffers -> Seq(Nat)] /\ consumed \in Nat /\ got \in Nat /\ sent \in Nat
  BY Begins
<1>3. /\ h \in Buffers /\ Follows(w, got) /\ Len(w) \in Nat /\ w \in Seq(Nat)
      /\ h # pr.cur /\ h # pr.pinned /\ Fed(rx, mem, got, sent)
  BY <1>1, NextIs
<1>4. /\ Fits(State, 0) /\ Lives(State, 0, consumed, got) /\ Runs(State, run)
      /\ Stays(State, run, frozen)
  BY <1>2 DEF Data
<1>5. got = consumed
  <2>1. LiveLen(State) = got - consumed /\ LiveLen(State) = 0 - 0
    BY <1>1, <1>2, <1>4 DEF Lives, LiveLen, CurLen, Own
  <2> QED BY <1>2, <2>1
<1>6. ~pr.run_in_cur
  BY <1>1, <1>2, <1>4 DEF Fits
<1>7. IsState(t) /\ t.r = pr' /\ t.m = mem /\ Set(t)
  <2>1. Rec(pr)
    BY <1>2 DEF IsState
  <2>2. Rec(pr')
    BY <1>1, <2>1 DEF Rec
  <2> QED BY <1>1, <2>2 DEF IsState, Set
<1>8. /\ pr'.cur = h /\ pr'.has_cur = TRUE /\ pr'.cur_pos = 0 /\ pr'.cur_is_pinned = FALSE
      /\ pr'.pinned = pr.pinned /\ pr'.has_pinned = pr.has_pinned /\ Beside(pr', pr)
  BY <1>1, <1>2 DEF Beside, IsState, Rec
<1> HIDE DEF t
<1>9. Typed(t)
  BY <1>2, <1>7, <1>8 DEF Typed, Beside
<1>10. Fits(t, 0)
  <2>1. t.r.cur_pos <= Len(t.m[t.r.cur])
    BY <1>3, <1>7, <1>8
  <2>2. ~t.r.run_in_cur /\ ~t.r.live_in_buf
    BY <1>1, <1>6, <1>7, <1>8 DEF Beside
  <2> QED BY <1>2, <1>4, <1>7, <1>8, <2>1, <2>2 DEF Fits, Beside
<1>11. Lives(t, 0, consumed, got')
  <2>1. PICK c \in Nat, l \in Nat : c = consumed /\ l = Len(w)
    BY <1>2, <1>3
  <2>2. got' = c + l /\ (c + l) - c = l /\ c + 0 <= c + l /\ c + l \in Nat
    BY <1>1, <1>5, <2>1
  <2>3. ~t.r.live_in_buf /\ t.r.has_cur
    BY <1>1, <1>7, <1>8 DEF Beside
  <2>4. LiveLen(t) = l - 0
    BY <1>7, <1>8, <2>1, <2>3 DEF LiveLen, CurLen
  <2>5. ASSUME NEW i \in (0 + 1)..((c + l) - c) PROVE t.m[t.r.cur][t.r.cur_pos + i] = c + i
    <3>1. i \in 1..l /\ 0 + i = i
      OBVIOUS
    <3>2. w[i] = c + i
      BY <1>3, <1>5, <2>1, <3>1 DEF Follows
    <3> QED BY <1>7, <1>8, <3>1, <3>2
  <2>6. LiveLen(t) = (c + l) - c
    BY <2>2, <2>4
  <2> QED BY <2>1, <2>2, <2>3, <2>5, <2>6 DEF Lives
<1>12. Runs(t, run)
  BY <1>2, <1>4, <1>6, <1>7, <1>8 DEF Runs, Beside
<1>13. \A a : (InBuf(State, a) => InBuf(t, a)) /\ (InMem(State, a) => InMem(t, a))
  BY <1>2, <1>7, <1>8 DEF InBuf, InMem, Beside
<1>14. Stays(t, run, frozen)
  <2>1. \A a \in frozen : Frozen(t, a)
    BY <1>2, <1>4, <1>7, <1>8, <1>13 DEF Stays, Frozen
  <2>2. ~t.r.began => \A i \in 1..Len(run) : Kept(t, run[i])
    BY <1>2, <1>4, <1>6, <1>7, <1>8, <1>13 DEF Stays, Kept, Beside
  <2>3. t.r.began = pr.began /\ t.r.run_len = pr.run_len /\ t.r.has_pinned = pr.has_pinned
        /\ ~t.r.run_in_cur /\ ~t.r.cur_is_pinned
    BY <1>6, <1>7, <1>8 DEF Beside
  <2> QED BY <1>2, <1>4, <2>1, <2>2, <2>3 DEF Stays
<1>15. Data(t, 0, consumed', got', run', frozen')
  BY <1>1, <1>9, <1>10, <1>11, <1>12, <1>14 DEF Data
<1>16. Fed(rx', mem, got', sent)
  BY <1>1, <1>2, <1>3, FedHead
<1> QED BY <1>1, <1>2, <1>7, <1>15, <1>16, SetGood

\* A delivered buffer that goes back: neither what the reader holds nor what
\* is queued behind it is touched.
LEMMA TakeData ==
    ASSUME NEW s, NEW q, Held(s, q), q # <<>>, NEW c, NEW g, NEW ru, NEW fr,
           Data(s, 0, c, g, ru, fr)
    PROVE  /\ Data(Return(s, Head(q)), 0, c, g, ru, fr)
           /\ IsState(Return(s, Head(q))) /\ Return(s, Head(q)).r = s.r
           /\ \A i \in 2..Len(q) : Return(s, Head(q)).m[q[i]] = s.m[q[i]]
<1> DEFINE h == Head(q)
           t == Return(s, h)
<1>1. /\ IsState(s) /\ Own(s.r) /\ s.k \in [Buffers -> Nat] /\ q \in Seq(Buffers)
      /\ s.m \in [Buffers -> Seq(Nat)]
  BY DEF Held, Data, Typed
<1>2. 1 \in 1..Len(q) /\ h = q[1]
  BY <1>1
<1>3. h \in Buffers /\ h # s.r.cur /\ h # s.r.pinned
  BY <1>2, Apart
<1>4. IsState(t) /\ t.r = s.r /\ t.m = [s.m EXCEPT ![h] = <<>>]
  BY <1>1, <1>3, ReturnIs
<1> HIDE DEF h, t
<1>5. t.m \in [Buffers -> Seq(Nat)] /\ \A b \in Buffers : b # h => t.m[b] = s.m[b]
  BY <1>1, <1>3, <1>4
<1>6. Reads(s, t)
  BY <1>3, <1>4, <1>5 DEF Reads, Bounds
<1>7. Data(t, 0, c, g, ru, fr)
  BY <1>1, <1>6, SameData
<1>8. ASSUME NEW i \in 2..Len(q) PROVE t.m[q[i]] = s.m[q[i]]
  <2>1. q[i] # h /\ q[i] \in Buffers
    BY <1>1, <1>2, HeadOnce
  <2> QED BY <1>5, <2>1
<1> QED BY <1>4, <1>7, <1>8 DEF h, t

\* more, gathered: the next bytes are behind the live ones in buf, or the
\* reader refuses them and is in error from then on.
LEMMA MoreGatheredGood ==
    ASSUME Held(State, rx), Good, MoreGathered
    PROVE  Good'
<1> DEFINE b  == Head(rx)
           ys == mem[b]
           ok == pr.live_in_buf \/ CanGather(State)
           s  == IF pr.live_in_buf \/ ~ok THEN State ELSE Gather(State)
           t  == IF ok THEN [s EXCEPT !.r = Compact(@)] ELSE s
           u  == Return(t, b)
           w  == [u EXCEPT !.r.error = "full"]
<1>1. /\ rx # <<>> /\ rx' = Tail(rx) /\ (pr.live_in_buf \/ pr.has_cur) /\ pr.error = "none"
      /\ UNCHANGED <<sent, consumed, run, frozen>>
  BY DEF MoreGathered, Asking
<1>2. \/ /\ ok /\ HasRoom(s, Len(ys)) /\ Set(Return(AppendLive(s, ys), b))
         /\ got' = got + Len(ys)
      \/ Set(w) /\ got' = got
  BY DEF MoreGathered
<1>3. /\ State.r = pr /\ State.m = mem /\ Data(State, 0, consumed, got, run, frozen)
      /\ consumed \in Nat /\ got \in Nat /\ sent \in Nat /\ rx \in Seq(Buffers)
  BY Begins
<1>4. /\ Held(s, rx) /\ Data(s, 0, consumed, got, run, frozen) /\ Leaves(State, s)
      /\ ok => s.r.live_in_buf
  <2>1. CASE pr.live_in_buf \/ ~ok
    <3>1. s = State
      BY <2>1
    <3>2. Leaves(State, State)
      BY DEF Leaves
    <3> QED BY <1>3, <2>1, <3>1, <3>2
  <2>2. CASE ~(pr.live_in_buf \/ ~ok)
    <3>1. s = Gather(State) /\ State.r.has_cur /\ CanGather(State)
      BY <1>1, <1>3, <2>2
    <3> HIDE DEF s, ok
    <3>2. Held(s, rx)
      BY <3>1, GatherHeld
    <3>3. Data(s, 0, consumed, got, run, frozen) /\ Leaves(State, s) /\ s.r.live_in_buf
      BY <1>3, <3>1, GatherData
    <3> QED BY <3>2, <3>3
  <2> QED BY <2>1, <2>2
<1>5. /\ b \in Buffers /\ Follows(ys, got) /\ Len(ys) \in Nat /\ Fed(rx, mem, got, sent)
  BY <1>1, NextIs
<1> HIDE DEF s, ok, ys
<1>6. CASE /\ ok /\ HasRoom(s, Len(ys)) /\ Set(Return(AppendLive(s, ys), b))
           /\ got' = got + Len(ys)
  <2> DEFINE v == AppendLive(s, ys)
             x == Return(v, b)
  <2>1. Held(v, rx) /\ Data(v, 0, consumed, got + Len(ys), run, frozen) /\ Leaves(s, v)
    BY <1>3, <1>4, <1>5, <1>6, AppendHeld, AppendData
  <2> HIDE DEF v
  <2>2. /\ Data(x, 0, consumed, got + Len(ys), run, frozen) /\ IsState(x)
        /\ \A i \in 2..Len(rx) : x.m[rx[i]] = v.m[rx[i]]
    BY <1>1, <2>1, TakeData
  <2> HIDE DEF x
  <2>3. Leaves(State, v)
    BY <1>4, <2>1, LeavesTwice
  <2>4. ASSUME NEW i \in 2..Len(rx) PROVE x.m[rx[i]] = mem[rx[i]]
    <3>1. i \in 1..Len(rx)
      OBVIOUS
    <3>2. rx[i] \in Buffers /\ rx[i] # State.r.cur /\ rx[i] # State.r.pinned
      BY <3>1, Apart
    <3> QED BY <1>3, <2>2, <2>3, <3>2 DEF Leaves
  <2>5. Fed(rx', x.m, got', sent)
    BY <1>1, <1>3, <1>5, <1>6, <2>4, FedHead DEF ys
  <2>6. Data(x, 0, consumed', got', run', frozen') /\ Set(x)
    BY <1>1, <1>6, <2>2 DEF x, v
  <2> QED BY <1>1, <1>3, <2>2, <2>5, <2>6, SetGood
<1>7. CASE Set(w) /\ got' = got
  <2>1. Held(t, rx) /\ Data(t, 0, consumed, got, run, frozen)
    <3>1. CASE ok
      <4>1. t = [s EXCEPT !.r = Compact(@)]
        BY <3>1
      <4> QED BY <1>4, <3>1, <4>1, CompactHeld, CompactData
    <3>2. CASE ~ok
      BY <1>4, <3>2
    <3> QED BY <3>1, <3>2
  <2> HIDE DEF t
  <2>2. Data(u, 0, consumed, got, run, frozen) /\ IsState(u) /\ u.r = t.r
    BY <1>1, <2>1, TakeData
  <2> HIDE DEF u
  <2>3. IsState(w) /\ w.m = u.m /\ w.r.error = "full" /\ Bounds(w.r, u.r)
    BY <2>2 DEF IsState, Rec, Bounds
  <2> HIDE DEF w
  <2>4. Reads(u, w) /\ Own(u.r)
    BY <2>1, <2>2, <2>3 DEF Reads, Data, Typed, Held
  <2>5. Data(w, 0, consumed, got, run, frozen)
    BY <2>2, <2>4, SameData
  <2>6. Data(w, 0, consumed', got', run', frozen') /\ sent' \in Nat
    BY <1>1, <1>3, <1>7, <2>5
  <2> QED BY <1>7, <2>3, <2>6, SetGood
<1> QED BY <1>2, <1>6, <1>7

\* Nothing is live: the live bytes, of which there are none, are in buf.
LEMMA EmptyData ==
    ASSUME NEW s, NEW t, NEW c \in Nat, NEW g \in Nat, NEW ru, NEW fr, Data(s, 0, c, g, ru, fr),
           Own(s.r), ~s.r.live_in_buf, ~s.r.has_cur, t.m = s.m,
           t.r.buf = s.r.buf, t.r.floor = s.r.floor, t.r.live_in_buf = TRUE,
           t.r.buf_pos = s.r.floor, t.r.buf_end = s.r.floor, t.r.cur = s.r.cur,
           t.r.has_cur = s.r.has_cur, t.r.cur_pos = s.r.cur_pos, t.r.pinned = s.r.pinned,
           t.r.has_pinned = s.r.has_pinned, t.r.cur_is_pinned = s.r.cur_is_pinned,
           t.r.run_in_cur = s.r.run_in_cur, t.r.run_start = s.r.run_start,
           t.r.run_len = s.r.run_len, t.r.began = s.r.began
    PROVE  Data(t, 0, c, g, ru, fr)
<1>1. Typed(s) /\ Fits(s, 0) /\ Lives(s, 0, c, g) /\ Runs(s, ru) /\ Stays(s, ru, fr)
  BY DEF Data
<1>2. g = c
  <2>1. LiveLen(s) = g - c /\ LiveLen(s) = 0 - 0
    BY <1>1 DEF Lives, LiveLen, CurLen, Own
  <2> QED BY <2>1
<1>3. PICK f \in Nat : f = s.r.floor
  BY <1>1 DEF Typed
<1>4. Typed(t)
  BY <1>1 DEF Typed
<1>5. Fits(t, 0)
  <2>1. f <= f + 0 /\ f <= f
    OBVIOUS
  <2> QED BY <1>1, <1>3, <2>1 DEF Fits
<1>6. Lives(t, 0, c, g)
  <2>1. LiveLen(t) = f - f
    BY <1>3 DEF LiveLen
  <2>2. LiveLen(t) = g - c /\ c + 0 <= g /\ \A i \in (0 + 1)..(g - c) : FALSE
    BY <1>2, <2>1
  <2> QED BY <2>2 DEF Lives
<1>7. Firm(s, t)
  <2>1. s.r.cur_pos \in Nat /\ s.r.cur_pos <= s.r.cur_pos
    BY <1>1 DEF Typed
  <2> QED BY <2>1 DEF Firm
<1>8. Runs(t, ru) /\ Stays(t, ru, fr)
  BY <1>1, <1>7, StaysPut
<1> QED BY <1>4, <1>5, <1>6, <1>8 DEF Data

\* inject: bytes behind the live ones, by another route.
LEMMA InjectGood ==
    ASSUME Held(State, rx), Good, Inject
    PROVE  Good'
<1> DEFINE ys == Bytes(sent, 1)
           ok == pr.live_in_buf \/ ~pr.has_cur \/ CanGather(State)
           e  == [State EXCEPT !.r.buf_pos = pr.floor, !.r.buf_end = pr.floor,
                               !.r.live_in_buf = TRUE]
           s  == IF pr.live_in_buf \/ ~ok THEN State
                 ELSE IF pr.has_cur THEN Gather(State) ELSE e
           t  == IF ok THEN [s EXCEPT !.r = Compact(@)] ELSE s
<1>1. pr.error = "none" /\ rx = <<>> /\ UNCHANGED <<rx, consumed, run, frozen>>
  BY DEF Inject
<1>2. \/ ok /\ HasRoom(s, 1) /\ Set(AppendLive(s, ys)) /\ got' = got + 1 /\ sent' = sent + 1
      \/ Set(t) /\ got' = got /\ sent' = sent
  BY DEF Inject
<1>3. /\ State.r = pr /\ State.m = mem /\ Data(State, 0, consumed, got, run, frozen)
      /\ consumed \in Nat /\ got \in Nat /\ sent \in Nat /\ IsState(State) /\ Own(pr)
      /\ Fed(rx, mem, got, sent)
  BY <1>1, Begins
<1>4. got = sent
  BY <1>1, <1>3, FedNone
<1>5. ASSUME ~pr.live_in_buf, ~pr.has_cur
      PROVE  Held(e, rx) /\ Data(e, 0, consumed, got, run, frozen) /\ e.r.live_in_buf
  <2>1. IsState(e) /\ e.k = State.k /\ e.m = State.m
    BY <1>3, ZenonT(40) DEF IsState, Rec
  <2>2. /\ e.r.cur = State.r.cur /\ e.r.has_cur = State.r.has_cur
        /\ e.r.cur_pos = State.r.cur_pos
        /\ e.r.pinned = State.r.pinned /\ e.r.has_pinned = State.r.has_pinned
        /\ e.r.cur_is_pinned = State.r.cur_is_pinned /\ e.r.run_len = State.r.run_len
        /\ e.r.live_in_buf = TRUE /\ e.r.run_in_cur = State.r.run_in_cur
        /\ e.r.buf = State.r.buf /\ e.r.floor = State.r.floor
        /\ e.r.buf_pos = State.r.floor /\ e.r.buf_end = State.r.floor
        /\ e.r.run_start = State.r.run_start /\ e.r.began = State.r.began
    BY <1>3 DEF IsState, Rec
  <2> HIDE DEF e
  <2>3. Held(e, rx)
    BY <1>3, <2>1, <2>2, Same DEF Own
  <2>4. Data(e, 0, consumed, got, run, frozen)
    BY <1>3, <1>5, <2>1, <2>2, EmptyData
  <2> QED BY <2>2, <2>3, <2>4
<1> HIDE DEF e
<1>6. Held(s, rx) /\ Data(s, 0, consumed, got, run, frozen) /\ (ok => s.r.live_in_buf)
  <2>1. CASE pr.live_in_buf \/ ~ok
    BY <1>3, <2>1
  <2>2. CASE ~pr.live_in_buf /\ ok /\ pr.has_cur
    <3>1. s = Gather(State) /\ State.r.has_cur /\ CanGather(State)
      BY <1>3, <2>2
    <3> HIDE DEF s, ok
    <3>2. Held(s, rx)
      BY <3>1, GatherHeld
    <3>3. Data(s, 0, consumed, got, run, frozen) /\ s.r.live_in_buf
      BY <1>3, <3>1, GatherData
    <3> QED BY <3>2, <3>3
  <2>3. CASE ~pr.live_in_buf /\ ~pr.has_cur
    BY <1>5, <2>3
  <2> QED BY <2>1, <2>2, <2>3
<1> HIDE DEF s, ok
<1>7. CASE ok /\ HasRoom(s, 1) /\ Set(AppendLive(s, ys)) /\ got' = got + 1 /\ sent' = sent + 1
  <2> DEFINE v == AppendLive(s, ys)
  <2>1. Len(ys) = 1 /\ Follows(ys, got)
    <3>1. /\ Bytes(sent, 1) \in Seq(Nat) /\ Len(Bytes(sent, 1)) = 1
          /\ \A i \in 1..1 : Bytes(sent, 1)[i] = sent + i
      BY <1>3, BytesAre
    <3> QED BY <1>4, <3>1 DEF Follows
  <2> HIDE DEF ys
  <2>2. Held(v, rx) /\ Data(v, 0, consumed, got + Len(ys), run, frozen)
    BY <1>3, <1>6, <1>7, <2>1, AppendHeld, AppendData
  <2> HIDE DEF v
  <2>3. IsState(v) /\ Set(v)
    BY <1>7, <2>2 DEF Held, v
  <2>4. Data(v, 0, consumed', got', run', frozen')
    BY <1>1, <1>7, <2>1, <2>2
  <2>5. got' = sent' /\ got' \in Nat /\ sent' \in Nat
    BY <1>3, <1>4, <1>7
  <2>6. Fed(rx', v.m, got', sent')
    BY <1>1, <2>5, FedNone
  <2> QED BY <2>3, <2>4, <2>5, <2>6, SetGood
<1>8. CASE Set(t) /\ got' = got /\ sent' = sent
  <2>1. Held(t, rx) /\ Data(t, 0, consumed, got, run, frozen)
    <3>1. CASE ok
      <4>1. t = [s EXCEPT !.r = Compact(@)]
        BY <3>1
      <4> QED BY <1>6, <3>1, <4>1, CompactHeld, CompactData
    <3>2. CASE ~ok
      BY <1>6, <3>2
    <3> QED BY <3>1, <3>2
  <2> HIDE DEF t
  <2>2. IsState(t)
    BY <2>1 DEF Held
  <2>3. Data(t, 0, consumed', got', run', frozen') /\ sent' \in Nat
    BY <1>1, <1>3, <1>8, <2>1
  <2>4. Fed(rx', t.m, got', sent')
    BY <1>1, <1>3, <1>4, <1>8, FedNone
  <2> QED BY <1>8, <2>2, <2>3, <2>4, SetGood
<1> QED BY <1>2, <1>7, <1>8

\* The run is frozen: where its bytes are, they are pinned.
LEMMA FreezeData ==
    ASSUME NEW s, NEW t, NEW q, Held(s, q), NEW c \in Nat, NEW g \in Nat, NEW ru, NEW fr,
           Data(s, 0, c, g, ru, fr), ~s.r.began,
           t = [Pin(s) EXCEPT !.r.run_len = 0, !.r.run_in_cur = FALSE, !.r.began = TRUE]
    PROVE  /\ Data(t, 0, c, g, <<>>, fr \cup ToSet(ru)) /\ Leaves(s, t) /\ Held(t, q)
<1> DEFINE p == Pin(s)
           w == RunInCur(s) > 0 /\ ~s.r.has_pinned
<1>1. /\ Typed(s) /\ Fits(s, 0) /\ Lives(s, 0, c, g) /\ Runs(s, ru) /\ Stays(s, ru, fr)
      /\ Own(s.r) /\ IsState(s)
  BY DEF Data, Held
<1>2. /\ p.m = s.m /\ IsState(p) /\ Beside(p.r, s.r)
      /\ p.r.cur = s.r.cur /\ p.r.has_cur = s.r.has_cur /\ p.r.cur_pos = s.r.cur_pos
      /\ w => p.r.pinned = s.r.cur /\ p.r.has_pinned = TRUE /\ p.r.cur_is_pinned = TRUE
      /\ ~w => p = s
  BY <1>1, PinIs
<1>3. Held(p, q)
  BY PinHeld
<1> HIDE DEF p, w
<1>4. /\ IsState(t) /\ t.m = p.m /\ t.k = p.k /\ t.r.run_len = 0 /\ t.r.run_in_cur = FALSE
      /\ t.r.began = TRUE
      /\ t.r.buf = p.r.buf /\ t.r.floor = p.r.floor /\ t.r.live_in_buf = p.r.live_in_buf
      /\ t.r.buf_pos = p.r.buf_pos /\ t.r.buf_end = p.r.buf_end /\ t.r.run_start = p.r.run_start
      /\ t.r.cur = p.r.cur /\ t.r.has_cur = p.r.has_cur /\ t.r.cur_pos = p.r.cur_pos
      /\ t.r.pinned = p.r.pinned /\ t.r.has_pinned = p.r.has_pinned
      /\ t.r.cur_is_pinned = p.r.cur_is_pinned /\ t.r.error = p.r.error
  BY <1>2 DEF p, IsState, Rec
<1>5. Held(t, q)
  <2>1. Own(p.r)
    BY <1>3 DEF Held
  <2>2. t.r.live_in_buf \in BOOLEAN /\ (~t.r.has_cur => t.r.cur_pos = 0)
    BY <1>4, <2>1, Zenon DEF Own
  <2>3. t.r.run_in_cur \in BOOLEAN /\ ~t.r.run_in_cur
    BY <1>4, Zenon
  <2>4. t.r.run_len \in Nat
    BY <1>4
  <2> QED BY <1>3, <1>4, <2>2, <2>3, <2>4, Same
<1>6. Typed(t)
  <2>1. t.r.began \in BOOLEAN
    BY <1>4, Zenon
  <2>2. t.r.run_len \in Nat
    BY <1>4
  <2> QED BY <1>1, <1>2, <1>4, <2>1, <2>2 DEF Typed, Beside
<1>7. Fits(t, 0)
  BY <1>1, <1>2, <1>4 DEF Fits, Beside
<1>8. Lives(t, 0, c, g)
  <2>1. LiveLen(t) = LiveLen(s)
    BY <1>2, <1>4 DEF LiveLen, CurLen, Beside
  <2> QED BY <1>1, <1>2, <1>4, <2>1 DEF Lives, Beside
<1>9. Runs(t, <<>>)
  BY <1>4 DEF Runs
<1>10. \A a : (InBuf(s, a) => InBuf(t, a)) /\ (InMem(s, a) => InMem(t, a))
  BY <1>2, <1>4 DEF InBuf, InMem, Beside
<1>11. s.r.has_pinned => /\ t.r.has_pinned /\ t.r.pinned = s.r.pinned
                         /\ t.r.cur_is_pinned = s.r.cur_is_pinned
  BY <1>2, <1>4 DEF w
<1>12. ~t.r.run_in_cur /\ t.r.cur_pos = s.r.cur_pos
  BY <1>2, <1>4
<1>13. ASSUME NEW a \in fr PROVE Frozen(t, a)
  <2>1. Frozen(s, a)
    BY <1>1 DEF Stays
  <2> QED BY <1>10, <1>11, <1>12, <2>1 DEF Frozen
<1>14. ASSUME NEW i \in 1..Len(ru) PROVE Frozen(t, ru[i])
  <2>1. Kept(s, ru[i])
    BY <1>1 DEF Stays
  <2>2. CASE InBuf(s, ru[i])
    BY <1>10, <2>2 DEF Frozen
  <2>3. CASE InMem(s, ru[i]) /\ s.r.has_pinned /\ ru[i][2][1] = s.r.pinned
    <3>1. ~s.r.cur_is_pinned
      BY <1>1, <2>3 DEF Stays
    <3> QED BY <1>10, <1>11, <1>12, <2>3, <3>1 DEF Frozen
  <2>4. CASE InMem(s, ru[i]) /\ s.r.run_in_cur /\ ru[i][2][1] = s.r.cur
             /\ ru[i][2][2] <= s.r.run_start + s.r.run_len
    <3>1. ~s.r.has_pinned
      BY <1>1, <2>4 DEF Stays
    <3>2. s.r.run_len > 0 /\ s.r.run_start + s.r.run_len <= s.r.cur_pos + 0
      BY <1>1, <2>4 DEF Fits
    <3>3. w
      BY <2>4, <3>1, <3>2 DEF w, RunInCur
    <3>4. t.r.pinned = s.r.cur /\ t.r.has_pinned
      BY <1>2, <1>4, <3>3
    <3>5. ru[i][2][2] <= s.r.cur_pos
      <4>1. PICK x \in Nat, y \in Nat, z \in Nat :
              x = s.r.run_start /\ y = s.r.run_len /\ z = s.r.cur_pos
        BY <1>1 DEF Typed
      <4>2. PICK j \in Nat : j = ru[i][2][2]
        BY <2>4 DEF InMem
      <4>3. j <= x + y /\ x + y <= z + 0
        BY <2>4, <3>2, <4>1, <4>2
      <4>4. j <= z
        BY <4>3
      <4> QED BY <4>1, <4>2, <4>4
    <3> QED BY <1>10, <1>12, <2>4, <3>4, <3>5 DEF Frozen
  <2> QED BY <2>1, <2>2, <2>3, <2>4 DEF Kept
<1>15. ru \in Seq(Nat \X Places)
  BY <1>1 DEF Runs
<1>16. ASSUME NEW a \in ToSet(ru) PROVE Frozen(t, a) /\ a \in Nat \X Places
  <2>1. PICK i \in 1..Len(ru) : a = ru[i]
    BY <1>15 DEF ToSet
  <2> QED BY <1>14, <1>15, <2>1
<1>17. Stays(t, <<>>, fr \cup ToSet(ru))
  <2>1. fr \cup ToSet(ru) \subseteq Nat \X Places
    BY <1>1, <1>16 DEF Stays
  <2>2. \A a \in fr \cup ToSet(ru) : Frozen(t, a)
    BY <1>13, <1>16
  <2>3. t.r.began
    BY <1>4
  <2> QED BY <2>1, <2>2, <2>3 DEF Stays
<1>18. Leaves(s, t)
  BY <1>2, <1>4 DEF Leaves, Beside
<1>19. Data(t, 0, c, g, <<>>, fr \cup ToSet(ru))
  BY <1>6, <1>7, <1>8, <1>9, <1>17 DEF Data
<1> QED BY <1>5, <1>18, <1>19

\* run_begin: the run is frozen, then its buffer is current as long as
\* something in it is live.
LEMMA RunBeginGood ==
    ASSUME Held(State, rx), Good, RunBegin
    PROVE  Good'
<1> DEFINE t == [Pin(State) EXCEPT !.r.run_len = 0, !.r.run_in_cur = FALSE, !.r.began = TRUE]
           d == CurDone(t)
<1>1. /\ ~pr.began /\ Set(d) /\ frozen' = frozen \cup ToSet(run) /\ run' = <<>>
      /\ UNCHANGED <<rx, sent, got, consumed>>
  BY DEF RunBegin, world
<1>2. State.r = pr /\ Data(State, 0, consumed, got, run, frozen) /\ consumed \in Nat /\ got \in Nat
  BY Begins
<1>3. /\ Data(t, 0, consumed, got, <<>>, frozen \cup ToSet(run)) /\ Leaves(State, t)
      /\ Held(t, rx)
  BY <1>1, <1>2, FreezeData
<1> HIDE DEF t
<1>4. /\ Data(d, 0, consumed, got, <<>>, frozen \cup ToSet(run)) /\ Leaves(t, d)
      /\ Held(d, rx)
  BY <1>3, CurDoneData, CurDoneHeld
<1> HIDE DEF d
<1>5. Leaves(State, d) /\ IsState(d)
  BY <1>3, <1>4, LeavesTwice DEF Held
<1>6. Data(d, 0, consumed', got', run', frozen')
  BY <1>1, <1>4
<1> QED BY <1>1, <1>5, <1>6, HelperGood

\* unpin, field by field.
UnpinsTo(s, t) ==
    /\ Beside(t.r, s.r) /\ t.r.pinned = None /\ t.r.has_pinned = FALSE
    /\ t.r.cur_is_pinned = FALSE
    /\ t.r.cur = s.r.cur /\ t.r.has_cur = s.r.has_cur /\ t.r.cur_pos = s.r.cur_pos
    /\ t.m \in [Buffers -> Seq(Nat)]
    /\ \A b \in Buffers : b # s.r.pinned \/ s.r.cur_is_pinned => t.m[b] = s.m[b]

LEMMA UnpinIs ==
    ASSUME NEW s, NEW q, Held(s, q), s.m \in [Buffers -> Seq(Nat)]
    PROVE  UnpinsTo(s, Unpin(s))
<1>1. IsState(s) /\ Own(s.r) /\ s.k \in [Buffers -> Nat]
  BY DEF Held
<1>2. CASE ~s.r.has_pinned
  <2>1. Unpin(s) = s /\ s.r.pinned = None
    BY <1>1, <1>2 DEF Unpin, Own
  <2>2. s.r.has_pinned = FALSE
    BY <1>1, <1>2 DEF Own
  <2>3. ~s.r.cur_is_pinned
    BY <1>1, <2>1 DEF Own
  <2>4. s.r.cur_is_pinned = FALSE
    BY <1>1, <2>3 DEF Own
  <2> QED BY <2>1, <2>2, <2>4 DEF UnpinsTo, Beside
<1>3. CASE s.r.has_pinned
  <2> DEFINE u == IF s.r.cur_is_pinned THEN s ELSE Return(s, s.r.pinned)
             t == [u EXCEPT !.r.cur_is_pinned = FALSE, !.r.has_pinned = FALSE,
                            !.r.pinned = None]
  <2>1. Unpin(s) = t
    BY <1>3 DEF Unpin
  <2>2. s.r.pinned \in Buffers
    BY <1>1, <1>3 DEF Own
  <2>3. /\ IsState(u) /\ u.r = s.r
        /\ u.m = IF s.r.cur_is_pinned THEN s.m ELSE [s.m EXCEPT ![s.r.pinned] = <<>>]
    BY <1>1, <2>2, ReturnIs
  <2> HIDE DEF u
  <2>4. /\ t.m = u.m /\ t.r.cur_is_pinned = FALSE /\ t.r.has_pinned = FALSE
        /\ t.r.pinned = None
        /\ t.r.cur = u.r.cur /\ t.r.has_cur = u.r.has_cur /\ t.r.cur_pos = u.r.cur_pos
    BY <2>3 DEF IsState, Rec
  <2>5. Beside(t.r, u.r)
    BY <2>3 DEF IsState, Rec, Beside
  <2> HIDE DEF t
  <2>6. u.m \in [Buffers -> Seq(Nat)]
        /\ \A b \in Buffers : b # s.r.pinned \/ s.r.cur_is_pinned => u.m[b] = s.m[b]
    BY <2>2, <2>3
  <2> QED BY <2>1, <2>3, <2>4, <2>5, <2>6 DEF UnpinsTo
<1> QED BY <1>2, <1>3

\* Then nothing is kept, and the live bytes are where they were or at the
\* start of buf.
LEMMA ReleaseData ==
    ASSUME NEW s, NEW q, Held(s, q), NEW c \in Nat, NEW g \in Nat, NEW ru, NEW fr,
           Data(s, 0, c, g, ru, fr)
    PROVE  LET u == Unpin(Lowered(s)) IN
           Data(u, 0, c, g, <<>>, {}) /\ Leaves(s, u) /\ Held(u, q)
<1> DEFINE t == Lowered(s)
           u == Unpin(t)
<1>1. /\ Typed(s) /\ Fits(s, 0) /\ Lives(s, 0, c, g) /\ Own(s.r) /\ IsState(s)
  BY DEF Data, Held
<1>2. LowerIs(s, t) /\ Held(t, q)
  BY LoweredIs
<1> HIDE DEF t
<1>3. UnpinsTo(t, u) /\ Held(u, q)
  <2>1. t.m \in [Buffers -> Seq(Nat)]
    BY <1>1, <1>2 DEF LowerIs, Typed
  <2> QED BY <1>2, <2>1, UnpinIs, UnpinHeld
<1> HIDE DEF u
<1>4. PICK z \in Nat, p \in Nat, e \in Nat :
        z = Cap /\ p = s.r.buf_pos /\ e = s.r.buf_end
  BY <1>1, PipeAssumption DEF Typed
<1>5. p <= e /\ e <= z /\ s.r.buf \in [1..z -> Nat]
  BY <1>1, <1>4 DEF Fits, Typed
<1>6. PICK n \in Nat : n = e - p
  BY <1>5
<1>7. /\ u.r.floor = 0 /\ u.r.buf_pos = 0
      /\ u.r.buf_end = (IF s.r.live_in_buf THEN n ELSE 0)
      /\ u.r.buf = (IF s.r.live_in_buf THEN Over(s.r.buf, 0, Span(s.r.buf, p, n)) ELSE s.r.buf)
      /\ u.r.live_in_buf = s.r.live_in_buf
      /\ u.r.cur = s.r.cur /\ u.r.has_cur = s.r.has_cur /\ u.r.cur_pos = s.r.cur_pos
      /\ u.r.run_start = s.r.run_start /\ u.r.run_len = 0 /\ u.r.error = s.r.error
      /\ u.r.pinned = None
  BY <1>2, <1>3, <1>4, <1>6 DEF LowerIs, UnpinsTo, Beside
<1>8. ~u.r.run_in_cur /\ ~u.r.has_pinned /\ ~u.r.cur_is_pinned /\ u.r.began \in BOOLEAN
  <2>1. u.r.began = FALSE /\ u.r.run_in_cur = FALSE /\ u.r.has_pinned = FALSE
        /\ u.r.cur_is_pinned = FALSE
    BY <1>2, <1>3, Zenon DEF LowerIs, UnpinsTo, Beside
  <2> QED BY <2>1, Zenon
<1>9. /\ u.m \in [Buffers -> Seq(Nat)]
      /\ \A b \in Buffers : b # s.r.pinned \/ s.r.cur_is_pinned => u.m[b] = s.m[b]
  BY <1>2, <1>3 DEF LowerIs, UnpinsTo
<1>10. s.r.has_cur => s.r.cur \in Buffers /\ u.m[s.r.cur] = s.m[s.r.cur]
  BY <1>1, <1>9 DEF Own
<1>11. /\ u.r.buf \in [1..z -> Nat]
       /\ s.r.live_in_buf => \A i \in 1..n : u.r.buf[i] = s.r.buf[p + i]
  <2>1. CASE s.r.live_in_buf
    <3> DEFINE y == Span(s.r.buf, p, n)
    <3>1. p + n <= z
      BY <1>5, <1>6
    <3>2. TakenIn(y, s.r.buf, p, n)
      BY <1>5, <3>1, SpanBuf
    <3> HIDE DEF y
    <3>3. y \in Seq(Nat) /\ Len(y) = n /\ \A i \in 1..n : y[i] = s.r.buf[p + i]
      BY <3>2 DEF TakenIn
    <3>4. u.r.buf = Over(s.r.buf, 0, y)
      BY <1>7, <2>1 DEF y
    <3>5. Laid(u.r.buf, s.r.buf, z, 0, y)
      BY <1>5, <3>3, <3>4, OverIs
    <3>6. ASSUME NEW i \in 1..n PROVE u.r.buf[i] = s.r.buf[p + i]
      <4>1. i \in 1..z /\ 0 < i /\ i <= 0 + n /\ i - 0 = i
        BY <3>1
      <4> QED BY <3>3, <3>5, <4>1 DEF Laid
    <3> QED BY <3>5, <3>6 DEF Laid
  <2>2. CASE ~s.r.live_in_buf
    BY <1>5, <1>7, <2>2
  <2> QED BY <2>1, <2>2
<1>12. Typed(u)
  <2>1. u.r.buf_end \in Nat /\ u.r.floor \in Nat /\ u.r.buf_pos \in Nat /\ u.r.run_len \in Nat
    BY <1>7
  <2>2. u.r.cur_pos \in Nat /\ u.r.run_start \in Nat
    BY <1>1, <1>7 DEF Typed
  <2>3. u.r.buf \in [1..Cap -> Nat]
    BY <1>4, <1>11
  <2> QED BY <1>8, <1>9, <2>1, <2>2, <2>3 DEF Typed
<1>13. Fits(u, 0)
  <2>1. 0 <= (IF s.r.live_in_buf THEN n ELSE 0) /\ (IF s.r.live_in_buf THEN n ELSE 0) <= z
        /\ 0 <= z /\ 0 <= 0 + 0
    BY <1>5, <1>6
  <2>2. s.r.live_in_buf => ~s.r.has_cur
    BY <1>1 DEF Fits
  <2>3. u.r.has_cur => u.r.cur_pos <= Len(u.m[u.r.cur])
    BY <1>1, <1>7, <1>10 DEF Fits
  <2> QED BY <1>4, <1>7, <1>8, <2>1, <2>2, <2>3 DEF Fits
<1>14. Lives(u, 0, c, g)
  <2>1. LiveLen(s) = g - c /\ c + 0 <= g
    BY <1>1 DEF Lives
  <2>2. LiveLen(u) = g - c
    <3>1. CASE s.r.live_in_buf
      <4>1. LiveLen(u) = n - 0 /\ LiveLen(s) = e - p
        BY <1>4, <1>7, <3>1 DEF LiveLen
      <4> QED BY <1>6, <2>1, <4>1
    <3>2. CASE ~s.r.live_in_buf
      BY <1>7, <1>10, <2>1, <3>2 DEF LiveLen, CurLen
    <3> QED BY <3>1, <3>2
  <2>3. ASSUME u.r.live_in_buf, NEW i \in (0 + 1)..(g - c)
        PROVE  u.r.buf[u.r.buf_pos + i] = c + i
    <3>1. s.r.live_in_buf
      BY <1>7, <2>3
    <3>2. g - c = n
      BY <1>4, <1>6, <2>1, <3>1 DEF LiveLen
    <3>3. i \in 1..n /\ 0 + i = i
      BY <3>2
    <3>4. s.r.buf[p + i] = c + i
      BY <1>1, <1>4, <3>1 DEF Lives
    <3> QED BY <1>7, <1>11, <3>1, <3>3, <3>4
  <2>4. u.r.has_cur => \A i \in (0 + 1)..(g - c) : u.m[u.r.cur][u.r.cur_pos + i] = c + i
    BY <1>1, <1>7, <1>10 DEF Lives
  <2> QED BY <2>1, <2>2, <2>3, <2>4 DEF Lives
<1>15. Runs(u, <<>>)
  BY <1>7 DEF Runs
<1>16. Stays(u, <<>>, {})
  BY <1>8 DEF Stays
<1>17. Leaves(s, u)
  BY <1>7, <1>9 DEF Leaves
<1>18. Data(u, 0, c, g, <<>>, {})
  BY <1>12, <1>13, <1>14, <1>15, <1>16 DEF Data
<1> QED BY <1>3, <1>17, <1>18 DEF u, t

\* release: nothing is kept any more.
LEMMA ReleaseGood ==
    ASSUME Held(State, rx), Good, Release
    PROVE  Good'
<1> DEFINE u == Unpin(Lowered(State))
           d == CurDone(u)
<1>1. State.r = pr /\ Data(State, 0, consumed, got, run, frozen) /\ consumed \in Nat /\ got \in Nat
  BY Begins
<1>2. Set(d)
  BY <1>1 DEF Release, Lowered
<1>3. frozen' = {} /\ run' = <<>> /\ UNCHANGED <<rx, sent, got, consumed>>
  BY DEF Release, world
<1>4. Data(u, 0, consumed, got, <<>>, {}) /\ Leaves(State, u) /\ Held(u, rx)
  BY <1>1, ReleaseData
<1> HIDE DEF u
<1>5. Data(d, 0, consumed, got, <<>>, {}) /\ Leaves(u, d) /\ Held(d, rx)
  BY <1>4, CurDoneData, CurDoneHeld
<1> HIDE DEF d
<1>6. Leaves(State, d) /\ IsState(d)
  BY <1>4, <1>5, LeavesTwice DEF Held
<1>7. Data(d, 0, consumed', got', run', frozen')
  BY <1>3, <1>5
<1> QED BY <1>2, <1>3, <1>6, <1>7, HelperGood

\* A reader with nothing in it.
Blank(r) ==
    /\ r.floor = 0 /\ r.buf_pos = 0 /\ r.buf_end = 0 /\ r.cur_pos = 0
    /\ r.run_start = 0 /\ r.run_len = 0 /\ r.buf = [i \in 1..Cap |-> Lost]
    /\ r.began = FALSE /\ r.live_in_buf = FALSE /\ r.has_cur = FALSE
    /\ r.run_in_cur = FALSE /\ r.has_pinned = FALSE

LEMMA FreshData ==
    ASSUME NEW s, s.m \in [Buffers -> Seq(Nat)], Blank(s.r), NEW c \in Nat
    PROVE  Data(s, 0, c, c, <<>>, {})
<1>1. /\ s.r.floor = 0 /\ s.r.buf_pos = 0 /\ s.r.buf_end = 0 /\ s.r.cur_pos = 0
      /\ s.r.run_start = 0 /\ s.r.run_len = 0
      /\ s.r.buf = [i \in 1..Cap |-> Lost]
  BY DEF Blank
<1>2. /\ s.r.began = FALSE /\ s.r.live_in_buf = FALSE /\ s.r.has_cur = FALSE
      /\ s.r.run_in_cur = FALSE /\ s.r.has_pinned = FALSE
  BY Zenon DEF Blank
<1>3. /\ ~s.r.live_in_buf /\ ~s.r.has_cur /\ ~s.r.run_in_cur /\ ~s.r.has_pinned
      /\ s.r.began \in BOOLEAN
  BY <1>2, Zenon
<1>4. s.r.buf \in [1..Cap -> Nat]
  BY <1>1 DEF Lost
<1>5. Typed(s)
  BY <1>1, <1>3, <1>4 DEF Typed
<1>6. Fits(s, 0)
  BY <1>1, <1>3, PipeAssumption DEF Fits
<1>7. Lives(s, 0, c, c)
  <2>1. LiveLen(s) = 0 - 0
    BY <1>1, <1>3 DEF LiveLen, CurLen
  <2>2. LiveLen(s) = c - c /\ c + 0 <= c
    BY <2>1
  <2> QED BY <1>3, <2>2 DEF Lives
<1>8. Runs(s, <<>>) /\ Stays(s, <<>>, {})
  BY <1>1, <1>3 DEF Runs, Stays
<1> QED BY <1>5, <1>6, <1>7, <1>8 DEF Data

\* close: nothing is live, nothing is kept, and nothing comes any more.
LEMMA CloseGood ==
    ASSUME Held(State, rx), Good, Close
    PROVE  Good'
<1> DEFINE s == IF pr.has_cur /\ ~pr.cur_is_pinned THEN Return(State, pr.cur) ELSE State
           t == IF pr.has_pinned THEN Return(s, pr.pinned) ELSE s
           x == [Fresh EXCEPT !.error = "gone", !.eof = TRUE]
           u == [t EXCEPT !.r = x]
<1>1. /\ Set(u) /\ run' = <<>> /\ frozen' = {} /\ consumed' = got
      /\ UNCHANGED <<rx, sent, got>>
  BY DEF Close
<1>2. /\ State.r = pr /\ State.m = mem /\ State.k = ring /\ IsState(State) /\ Own(pr)
      /\ mem \in [Buffers -> Seq(Nat)] /\ got \in Nat /\ sent \in Nat
  BY Begins
<1>3. (pr.has_cur => pr.cur \in Buffers) /\ (pr.has_pinned => pr.pinned \in Buffers)
  BY <1>2 DEF Own
<1>4. IsState(s) /\ s.m \in [Buffers -> Seq(Nat)] /\ s.k \in [Buffers -> Nat]
  <2>1. State.k \in [Buffers -> Nat] /\ State.m \in [Buffers -> Seq(Nat)]
    BY <1>2 DEF Held
  <2>2. CASE pr.has_cur /\ ~pr.cur_is_pinned
    <3>1. s = Return(State, pr.cur) /\ pr.cur \in Buffers
      BY <1>3, <2>2
    <3> HIDE DEF s
    <3>2. IsState(s) /\ s.k = [State.k EXCEPT ![pr.cur] = @ + 1]
          /\ s.m = [State.m EXCEPT ![pr.cur] = <<>>]
      BY <1>2, <2>1, <3>1, ReturnIs, Returning
    <3> QED BY <2>1, <3>1, <3>2
  <2>3. CASE ~(pr.has_cur /\ ~pr.cur_is_pinned)
    BY <1>2, <2>1, <2>3
  <2> QED BY <2>2, <2>3
<1> HIDE DEF s
<1>5. IsState(t) /\ t.m \in [Buffers -> Seq(Nat)]
  <2>1. CASE pr.has_pinned
    <3>1. IsState(t) /\ t.m = [s.m EXCEPT ![pr.pinned] = <<>>]
      BY <1>3, <1>4, <2>1, ReturnIs
    <3> HIDE DEF t
    <3> QED BY <1>3, <1>4, <2>1, <3>1
  <2>2. CASE ~pr.has_pinned
    BY <1>4, <2>2
  <2> QED BY <2>1, <2>2
<1> HIDE DEF t
<1>6. Rec(x) /\ x.error = "gone"
  BY DEF Rec, Fresh
<1>7. IsState(u) /\ u.m = t.m /\ u.r = x
  <2> HIDE DEF x
  <2> QED BY <1>5, <1>6 DEF IsState
<1> HIDE DEF u
<1>8. Data(u, 0, got, got, <<>>, {})
  <2>2. Blank(x)
    BY DEF Blank, Fresh
  <2>3. u.m \in [Buffers -> Seq(Nat)]
    BY <1>5, <1>7
  <2> HIDE DEF x
  <2> QED BY <1>2, <1>7, <2>2, <2>3, FreshData
<1>9. Data(u, 0, consumed', got', run', frozen') /\ sent' \in Nat
  BY <1>1, <1>2, <1>8
<1> QED BY <1>1, <1>6, <1>7, <1>9, SetGood

\* Nothing has arrived at first.
LEMMA InitGood == Init => Good
<1> SUFFICES ASSUME Init PROVE Good
  OBVIOUS
<1>1. /\ pr = Fresh /\ mem = [b \in Buffers |-> <<>>] /\ rx = <<>> /\ sent = 0
      /\ got = 0 /\ consumed = 0 /\ run = <<>> /\ frozen = {}
  BY DEF Init
<1>2. Data(State, 0, 0, 0, <<>>, {})
  <2>2. Blank(State.r)
    BY <1>1 DEF State, Blank, Fresh
  <2>3. State.m \in [Buffers -> Seq(Nat)]
    BY <1>1 DEF State
  <2> QED BY <2>2, <2>3, FreshData
<1>3. Fed(rx, mem, got, sent)
  BY <1>1, FedNone
<1> QED BY <1>1, <1>2, <1>3 DEF Good, Feed

LEMMA StepGood ==
    ASSUME Held(State, rx), Good, [Next]_vars
    PROVE  Good'
<1>1. CASE Deliver
  BY <1>1, DeliverGood
<1>2. CASE MoreInPlace
  BY <1>2, MoreInPlaceGood
<1>3. CASE MoreGathered
  BY <1>3, MoreGatheredGood
<1>4. CASE Inject
  BY <1>4, InjectGood
<1>5. CASE Drop
  BY <1>5, DropGood
<1>6. CASE Keep
  BY <1>6, KeepGood
<1>7. CASE RunBegin
  BY <1>7, RunBeginGood
<1>8. CASE Release
  BY <1>8, ReleaseGood
<1>9. CASE Close
  BY <1>9, CloseGood
<1>10. CASE MoreEnd \/ Examine \/ End \/ UNCHANGED vars
  BY <1>10, OthersGood
<1> QED
  BY <1>1, <1>2, <1>3, <1>4, <1>5, <1>6, <1>7, <1>8, <1>9, <1>10 DEF Next, More, Consumer

-----------------------------------------------------------------------------
(* What the invariant says.                                                *)

LEMMA GoodBounds ==
    ASSUME Held(State, rx), Good
    PROVE  InBounds
<1>1. State.r = pr /\ State.m = mem /\ Own(pr) /\ Typed(State) /\ Fits(State, 0)
  BY Begins DEF Data
<1>2. PICK z \in Nat, f \in Nat, p \in Nat, e \in Nat :
        z = Cap /\ f = pr.floor /\ p = pr.buf_pos /\ e = pr.buf_end
  BY <1>1, PipeAssumption DEF Typed
<1>3. f <= z /\ p <= e /\ e <= z /\ (pr.live_in_buf => f <= p + 0)
  BY <1>1, <1>2 DEF Fits
<1>4. 0 <= f /\ f <= z /\ 0 <= p /\ p <= e /\ e <= z /\ (pr.live_in_buf => f <= p)
  BY <1>3
<1>5. None \notin Buffers
  BY PipeAssumption DEF None
<1>6. (pr.has_cur <=> pr.cur \in Buffers) /\ (pr.has_pinned <=> pr.pinned \in Buffers)
  BY <1>1, <1>5 DEF Own
<1>7. pr.has_cur => pr.cur_pos <= CurLen(State)
  BY <1>1 DEF Fits, CurLen
<1>8. pr.run_in_cur /\ pr.run_len > 0 =>
        pr.has_cur /\ pr.run_start + pr.run_len <= pr.cur_pos
  <2>1. PICK x \in Nat, y \in Nat, c \in Nat :
          x = pr.run_start /\ y = pr.run_len /\ c = pr.cur_pos
    BY <1>1 DEF Typed
  <2>2. pr.run_in_cur => pr.has_cur /\ x + y <= c + 0
    BY <1>1, <2>1 DEF Fits
  <2>3. pr.run_in_cur => pr.has_cur /\ x + y <= c
    BY <2>2
  <2> QED BY <2>1, <2>3
<1>9. ~pr.run_in_cur /\ pr.run_len > 0 => pr.run_start + pr.run_len = pr.floor
  BY <1>1 DEF Fits
<1>10. pr.cur_is_pinned => pr.has_cur /\ pr.cur = pr.pinned
  BY <1>1 DEF Own
<1> QED BY <1>2, <1>4, <1>6, <1>7, <1>8, <1>9, <1>10 DEF InBounds

LEMMA GoodLive ==
    ASSUME Held(State, rx), Good
    PROVE  LiveIsNext
<1>1. /\ State.r = pr /\ State.m = mem /\ Own(pr) /\ Typed(State) /\ Fits(State, 0)
      /\ Lives(State, 0, consumed, got)
  BY Begins DEF Data
<1>2. PICK c \in Nat, g \in Nat, n \in Nat : c = consumed /\ g = got /\ n = g - c
  <2>1. consumed \in Nat /\ got \in Nat /\ consumed + 0 <= got
    BY <1>1 DEF Lives
  <2> QED BY <2>1
<1>3. LiveLen(State) = n
  BY <1>1, <1>2 DEF Lives
<1>4. CASE pr.live_in_buf
  <2>1. PICK z \in Nat, p \in Nat, e \in Nat : z = Cap /\ p = pr.buf_pos /\ e = pr.buf_end
    BY <1>1, PipeAssumption DEF Typed
  <2>2. n = e - p /\ e <= z
    BY <1>1, <1>3, <1>4, <2>1 DEF LiveLen, Fits
  <2>3. p + n <= z
    BY <2>2
  <2>4. \A i \in 1..n : pr.buf[p + i] = c + i
    <3>1. \A i \in (0 + 1)..n : pr.buf[p + i] = c + i
      BY <1>1, <1>2, <1>4, <2>1 DEF Lives
    <3> QED BY <3>1
  <2>5. DOMAIN pr.buf = 1..z
    BY <1>1, <2>1 DEF Typed
  <2>6. Span(pr.buf, p, n) = [i \in 1..n |-> c + i]
    <3>1. \A i \in 1..n : p + i \in 1..z
      BY <2>3
    <3>2. \A i \in 1..n : (IF p + i \in DOMAIN pr.buf THEN pr.buf[p + i] ELSE Lost) = c + i
      BY <2>4, <2>5, <3>1, Zenon
    <3> QED BY <3>2 DEF Span
  <2> QED BY <1>1, <1>2, <1>3, <1>4, <2>1, <2>6 DEF LiveIsNext, Live, Bytes
<1>5. CASE ~pr.live_in_buf /\ pr.has_cur
  <2>1. pr.cur \in Buffers
    BY <1>1, <1>5 DEF Own
  <2>2. PICK w : w = mem[pr.cur]
    OBVIOUS
  <2>3. w \in Seq(Nat)
    BY <1>1, <2>1, <2>2 DEF Typed
  <2>4. PICK z \in Nat, p \in Nat : z = Len(w) /\ p = pr.cur_pos
    BY <1>1, <2>3 DEF Typed
  <2>5. n = z - p
    BY <1>1, <1>3, <1>5, <2>2, <2>4 DEF LiveLen, CurLen
  <2>6. p + n <= z
    BY <2>5
  <2>7. \A i \in 1..n : w[p + i] = c + i
    <3>1. \A i \in (0 + 1)..n : w[p + i] = c + i
      BY <1>1, <1>2, <1>5, <2>2, <2>4 DEF Lives
    <3> QED BY <3>1
  <2>8. DOMAIN w = 1..z
    BY <2>3, <2>4
  <2>9. Span(w, p, n) = [i \in 1..n |-> c + i]
    <3>1. \A i \in 1..n : p + i \in 1..z
      BY <2>6
    <3>2. \A i \in 1..n : (IF p + i \in DOMAIN w THEN w[p + i] ELSE Lost) = c + i
      BY <2>7, <2>8, <3>1, Zenon
    <3> QED BY <3>2 DEF Span
  <2> QED BY <1>1, <1>2, <1>3, <1>5, <2>2, <2>4, <2>9 DEF LiveIsNext, Live, Bytes
<1>6. CASE ~pr.live_in_buf /\ ~pr.has_cur
  <2>1. LiveLen(State) = 0 - 0
    BY <1>1, <1>6 DEF LiveLen, CurLen, Own
  <2>2. n = 0
    BY <1>3, <2>1
  <2>3. Live(State) = <<>>
    BY <1>1, <1>6 DEF Live
  <2>4. Bytes(c, 0) = <<>>
    BY DEF Bytes
  <2> QED BY <1>2, <2>2, <2>3, <2>4 DEF LiveIsNext
<1> QED BY <1>4, <1>5, <1>6

LEMMA GoodRun ==
    ASSUME Held(State, rx), Good
    PROVE  RunIsWhole
<1>1. /\ State.r = pr /\ State.m = mem /\ Own(pr) /\ Typed(State) /\ Fits(State, 0)
      /\ Runs(State, run)
  BY Begins DEF Data
<1>2. PICK a \in Nat, n \in Nat : a = pr.run_start /\ n = pr.run_len /\ n = Len(run)
  BY <1>1 DEF Typed, Runs
<1>3. CASE pr.run_in_cur
  <2>1. pr.has_cur /\ pr.cur \in Buffers
    BY <1>1, <1>3 DEF Fits, Own
  <2>2. PICK w : w = mem[pr.cur]
    OBVIOUS
  <2>3. w \in Seq(Nat)
    BY <1>1, <2>1, <2>2 DEF Typed
  <2>4. PICK z \in Nat, p \in Nat : z = Len(w) /\ p = pr.cur_pos
    BY <1>1, <2>3 DEF Typed
  <2>5. p <= z /\ a + n <= p + 0
    BY <1>1, <1>2, <1>3, <2>1, <2>2, <2>4 DEF Fits
  <2>6. a + n <= z
    BY <2>5
  <2>7. \A i \in 1..n : w[a + i] = run[i][1]
    BY <1>1, <1>2, <1>3, <2>2 DEF Runs
  <2>8. DOMAIN w = 1..z
    BY <2>3, <2>4
  <2>9. Span(w, a, n) = [i \in 1..n |-> run[i][1]]
    BY <2>6, <2>7, <2>8 DEF Span
  <2> QED BY <1>1, <1>2, <1>3, <2>2, <2>9 DEF RunIsWhole, RunSpan
<1>4. CASE ~pr.run_in_cur
  <2>1. PICK z \in Nat, f \in Nat : z = Cap /\ f = pr.floor
    BY <1>1, PipeAssumption DEF Typed
  <2>2. f <= z /\ (n > 0 => a + n = f)
    BY <1>1, <1>2, <1>4, <2>1 DEF Fits
  <2>3. \A i \in 1..n : a + i \in 1..z
    BY <2>2
  <2>4. \A i \in 1..n : pr.buf[a + i] = run[i][1]
    BY <1>1, <1>2, <1>4 DEF Runs
  <2>5. DOMAIN pr.buf = 1..z
    BY <1>1, <2>1 DEF Typed
  <2>6. Span(pr.buf, a, n) = [i \in 1..n |-> run[i][1]]
    BY <2>3, <2>4, <2>5 DEF Span
  <2> QED BY <1>1, <1>2, <1>4, <2>6 DEF RunIsWhole, RunSpan
<1> QED BY <1>3, <1>4

LEMMA GoodKept ==
    ASSUME Held(State, rx), Good
    PROVE  KeptStays
<1>1. /\ State.r = pr /\ State.m = mem /\ Typed(State) /\ Fits(State, 0)
      /\ Runs(State, run) /\ Stays(State, run, frozen)
  BY Begins DEF Data
<1>2. ASSUME NEW a, InBuf(State, a) PROVE Holds(a)
  <2>1. PICK z \in Nat, f \in Nat : z = Cap /\ f = pr.floor /\ f <= z
    BY <1>1, PipeAssumption DEF Typed, Fits
  <2>2. a[2][1] = "buf" /\ a[2][2] \in 1..f /\ pr.buf[a[2][2]] = a[1]
    BY <1>1, <1>2, <2>1 DEF InBuf
  <2>3. a[2][2] \in 1..z /\ DOMAIN pr.buf = 1..z
    BY <1>1, <2>1, <2>2 DEF Typed
  <2> QED BY <2>2, <2>3 DEF Holds
<1>3. ASSUME NEW a, InMem(State, a) PROVE Holds(a)
  <2>1. a[2][1] # "buf" /\ a[2][1] \in Buffers
    BY <1>3, PipeAssumption DEF InMem
  <2>2. mem[a[2][1]] \in Seq(Nat)
    BY <1>1, <2>1 DEF Typed
  <2>3. a[2][2] \in DOMAIN mem[a[2][1]] /\ mem[a[2][1]][a[2][2]] = a[1]
    BY <1>1, <1>3, <2>2 DEF InMem
  <2> QED BY <2>1, <2>3 DEF Holds
<1>4. \A a \in frozen : Holds(a)
  BY <1>1, <1>2, <1>3 DEF Stays, Frozen
<1>5. ASSUME ~pr.began, NEW a \in ToSet(run) PROVE Holds(a)
  <2>1. run \in Seq(Nat \X Places)
    BY <1>1 DEF Runs
  <2>2. PICK i \in 1..Len(run) : a = run[i]
    BY <2>1 DEF ToSet
  <2>3. Kept(State, a)
    BY <1>1, <1>5, <2>2 DEF Stays
  <2> QED BY <1>2, <1>3, <2>3 DEF Kept
<1> QED BY <1>4, <1>5 DEF KeptStays

-----------------------------------------------------------------------------
\* Both invariants, always.
LEMMA AlwaysGood == Spec => [](Held(State, rx) /\ Good)
<1>1. Init => Held(State, rx) /\ Good
  BY InitHeld, InitGood
<1>2. Held(State, rx) /\ Good /\ [Next]_vars => (Held(State, rx) /\ Good)'
  BY StepHeld, StepGood
<1> QED BY <1>1, <1>2, PTL DEF Spec

\* BytesStayInOrder.  However bytes arrive, are read in place, gathered,
\* compacted, kept, dropped, frozen and released by lib/io/pipe.c: every index
\* is inside its buffer, the live span is what was given and not consumed, in
\* the order of arrival, and the run is what was kept since it began.
THEOREM BytesStayInOrder == Spec => []BytesInOrder
<1>1. Held(State, rx) /\ Good => BytesInOrder
  BY GoodBounds, GoodLive, GoodRun DEF BytesInOrder
<1> QED BY <1>1, AlwaysGood, PTL

\* KeptBytesStay.  A pointer that keep of lib/io/pipe.c returned points at its
\* byte until release: those of a frozen run whatever is kept after it, those
\* of the current run as long as none is frozen.
THEOREM KeptBytesStay == Spec => []KeptStays
<1>1. Held(State, rx) /\ Good => KeptStays
  BY GoodKept
<1> QED BY <1>1, AlwaysGood, PTL
=============================================================================
