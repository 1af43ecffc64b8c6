----------------------------- MODULE ConnProofs -----------------------------
(***************************************************************************)
(* Proofs about module Conn, for every queue length, every number of       *)
(* undispatched CQEs and both kinds of kernel.                             *)
(***************************************************************************)
EXTENDS Conn, SequenceTheorems, TLAPS

-----------------------------------------------------------------------------
(* What staging and taking an SQE, posting and dispatching a CQE do to the *)
(* facts the invariants are about.                                         *)

\* Staging one SQE (ioxd__proactor_sqe): it is behind everything staged.
LEMMA Staging ==
    ASSUME NEW q \in Seq(Sqes), NEW e \in Sqes
    PROVE  /\ Append(q, e) \in Seq(Sqes)
           /\ CancelBehindRecv(q) => Has(q, "recv")
           /\ \A x : Has(Append(q, e), x) <=> Has(q, x) \/ x = e
           /\ CancelBehindRecv(Append(q, e))
                <=> CancelBehindRecv(q) \/ (e = "cancel" /\ Has(q, "recv"))
           /\ OneRecv(q) /\ (e = "recv" => ~Has(q, "recv"))
                => OneRecv(Append(q, e))
<1>1. /\ Append(q, e) \in Seq(Sqes)
      /\ Len(Append(q, e)) = Len(q) + 1
      /\ \A i \in 1..Len(q) : Append(q, e)[i] = q[i]
      /\ Append(q, e)[Len(q) + 1] = e
  BY AppendProperties
<1>2. Len(q) \in Nat
  BY LenProperties
<1>3. 1..(Len(q) + 1) = 1..Len(q) \cup {Len(q) + 1}
  BY <1>2
<1>4. ASSUME NEW x PROVE Has(Append(q, e), x) <=> Has(q, x) \/ x = e
  BY <1>1, <1>2, <1>3 DEF Has
<1>5. CancelBehindRecv(Append(q, e))
        <=> CancelBehindRecv(q) \/ (e = "cancel" /\ Has(q, "recv"))
  BY <1>1, <1>2, <1>3 DEF Has, CancelBehindRecv
<1>6. OneRecv(q) /\ (e = "recv" => ~Has(q, "recv")) => OneRecv(Append(q, e))
  BY <1>1, <1>2, <1>3 DEF Has, OneRecv
<1>7. CancelBehindRecv(q) => Has(q, "recv")
  BY DEF CancelBehindRecv, Has
<1> QED
  BY <1>1, <1>4, <1>5, <1>6, <1>7

\* The kernel taking the oldest SQE.
LEMMA Taking ==
    ASSUME NEW q \in Seq(Sqes), q # <<>>
    PROVE  /\ Tail(q) \in Seq(Sqes)
           /\ Head(q) \in Sqes
           /\ CancelBehindRecv(q) => Has(q, "recv")
           /\ \A x : Has(q, x) <=> Has(Tail(q), x) \/ x = Head(q)
           /\ CancelBehindRecv(q)
                <=> CancelBehindRecv(Tail(q))
                    \/ (Head(q) = "recv" /\ Has(Tail(q), "cancel"))
           /\ OneRecv(q) => /\ OneRecv(Tail(q))
                            /\ Head(q) = "recv" => ~Has(Tail(q), "recv")
<1>1. /\ Head(q) \in Sqes
      /\ Tail(q) \in Seq(Sqes)
      /\ Len(Tail(q)) = Len(q) - 1
      /\ \A i \in 1..Len(Tail(q)) : Tail(q)[i] = q[i + 1]
      /\ Head(q) = q[1]
  BY HeadTailProperties
<1>2. Len(q) \in Nat /\ Len(q) > 0
  BY LenProperties, EmptySeq
<1>4. ASSUME NEW x PROVE Has(q, x) <=> Has(Tail(q), x) \/ x = Head(q)
  <2>1. ASSUME Has(q, x) PROVE Has(Tail(q), x) \/ x = Head(q)
    <3>1. PICK i \in 1..Len(q) : q[i] = x
      BY <2>1 DEF Has
    <3>2. CASE i = 1
      BY <3>1, <3>2, <1>1
    <3>3. CASE i # 1
      <4>1. i - 1 \in 1..Len(Tail(q)) /\ Tail(q)[i - 1] = x
        BY <3>1, <3>3, <1>1, <1>2
      <4> QED BY <4>1 DEF Has
    <3> QED BY <3>2, <3>3
  <2>2. ASSUME Has(Tail(q), x) PROVE Has(q, x)
    <3>1. PICK i \in 1..Len(Tail(q)) : Tail(q)[i] = x
      BY <2>2 DEF Has
    <3>2. i + 1 \in 1..Len(q) /\ q[i + 1] = x
      BY <3>1, <1>1, <1>2
    <3> QED BY <3>2 DEF Has
  <2>3. ASSUME x = Head(q) PROVE Has(q, x)
    BY <2>3, <1>1, <1>2 DEF Has
  <2> QED BY <2>1, <2>2, <2>3
<1>5. CancelBehindRecv(q)
        <=> CancelBehindRecv(Tail(q))
            \/ (Head(q) = "recv" /\ Has(Tail(q), "cancel"))
  <2>1. ASSUME CancelBehindRecv(q)
        PROVE  CancelBehindRecv(Tail(q))
               \/ (Head(q) = "recv" /\ Has(Tail(q), "cancel"))
    <3>1. PICK i, j \in 1..Len(q) : i < j /\ q[i] = "recv" /\ q[j] = "cancel"
      BY <2>1 DEF CancelBehindRecv
    <3>2. j - 1 \in 1..Len(Tail(q)) /\ Tail(q)[j - 1] = "cancel"
      BY <3>1, <1>1, <1>2
    <3>3. CASE i = 1
      BY <3>1, <3>2, <3>3, <1>1 DEF Has
    <3>4. CASE i # 1
      <4>1. i - 1 \in 1..Len(Tail(q)) /\ Tail(q)[i - 1] = "recv" /\ i - 1 < j - 1
        BY <3>1, <3>4, <1>1, <1>2
      <4> QED BY <4>1, <3>2 DEF CancelBehindRecv
    <3> QED BY <3>3, <3>4
  <2>2. ASSUME CancelBehindRecv(Tail(q)) PROVE CancelBehindRecv(q)
    <3>1. PICK i, j \in 1..Len(Tail(q)) :
             i < j /\ Tail(q)[i] = "recv" /\ Tail(q)[j] = "cancel"
      BY <2>2 DEF CancelBehindRecv
    <3>2. /\ i + 1 \in 1..Len(q) /\ j + 1 \in 1..Len(q) /\ i + 1 < j + 1
          /\ q[i + 1] = "recv" /\ q[j + 1] = "cancel"
      BY <3>1, <1>1, <1>2
    <3> QED BY <3>2 DEF CancelBehindRecv
  <2>3. ASSUME Head(q) = "recv", Has(Tail(q), "cancel")
        PROVE  CancelBehindRecv(q)
    <3>1. PICK j \in 1..Len(Tail(q)) : Tail(q)[j] = "cancel"
      BY <2>3 DEF Has
    <3>2. /\ 1 \in 1..Len(q) /\ j + 1 \in 1..Len(q) /\ 1 < j + 1
          /\ q[1] = "recv" /\ q[j + 1] = "cancel"
      BY <3>1, <2>3, <1>1, <1>2
    <3> QED BY <3>2 DEF CancelBehindRecv
  <2> QED BY <2>1, <2>2, <2>3
<1>6. ASSUME OneRecv(q)
      PROVE  OneRecv(Tail(q)) /\ (Head(q) = "recv" => ~Has(Tail(q), "recv"))
  <2>1. ASSUME NEW i \in 1..Len(Tail(q)), NEW j \in 1..Len(Tail(q)),
               Tail(q)[i] = "recv", Tail(q)[j] = "recv"
        PROVE  i = j
    <3>1. /\ i + 1 \in 1..Len(q) /\ j + 1 \in 1..Len(q)
          /\ q[i + 1] = "recv" /\ q[j + 1] = "recv"
      BY <2>1, <1>1, <1>2
    <3>2. i + 1 = j + 1
      BY <3>1, <1>6 DEF OneRecv
    <3> QED BY <3>2
  <2>2. ASSUME Head(q) = "recv", Has(Tail(q), "recv") PROVE FALSE
    <3>1. PICK i \in 1..Len(Tail(q)) : Tail(q)[i] = "recv"
      BY <2>2 DEF Has
    <3>2. /\ 1 \in 1..Len(q) /\ i + 1 \in 1..Len(q)
          /\ q[1] = "recv" /\ q[i + 1] = "recv"
      BY <3>1, <2>2, <1>1, <1>2
    <3>3. 1 = i + 1
      BY <3>2, <1>6 DEF OneRecv
    <3> QED BY <3>1, <3>3
  <2> QED BY <2>1, <2>2 DEF OneRecv
<1>7. CancelBehindRecv(q) => Has(q, "recv")
  BY DEF CancelBehindRecv, Has
<1> QED
  BY <1>1, <1>4, <1>5, <1>6, <1>7

\* The kernel posting a CQE of a recv that has not ended.
LEMMA Posting ==
    ASSUME NEW q \in Seq(Cqes), NEW e \in Cqes
    PROVE  /\ Append(q, e) \in Seq(Cqes)
           /\ Append(q, e) # <<>>
           /\ Ended(Append(q, e)) <=> ~e.more
           /\ OnlyLastEnds(q) /\ ~Ended(q) => OnlyLastEnds(Append(q, e))
<1>1. /\ Append(q, e) \in Seq(Cqes)
      /\ Len(Append(q, e)) = Len(q) + 1
      /\ \A i \in 1..Len(q) : Append(q, e)[i] = q[i]
      /\ Append(q, e)[Len(q) + 1] = e
  BY AppendProperties
<1>2. Len(q) \in Nat
  BY LenProperties
<1>3. Append(q, e) # <<>>
  BY <1>1, <1>2, EmptySeq
<1>4. Ended(Append(q, e)) <=> ~e.more
  BY <1>1, <1>3 DEF Ended
<1>5. ASSUME OnlyLastEnds(q), ~Ended(q), NEW i \in 1..(Len(q) + 1), i < Len(q) + 1
      PROVE  Append(q, e)[i].more
  <2>1. i \in 1..Len(q) /\ Append(q, e)[i] = q[i]
    BY <1>1, <1>2, <1>5
  <2>2. CASE i < Len(q)
    BY <2>1, <2>2, <1>5 DEF OnlyLastEnds
  <2>3. CASE i = Len(q)
    <3>1. q # <<>>
      BY <2>1, <2>3, EmptySeq
    <3> QED BY <3>1, <2>1, <2>3, <1>5 DEF Ended
  <2> QED BY <2>1, <2>2, <2>3, <1>2
<1> QED
  BY <1>1, <1>3, <1>4, <1>5 DEF OnlyLastEnds

\* The loop taking the oldest CQE.
LEMMA Dispatching ==
    ASSUME NEW q \in Seq(Cqes), q # <<>>
    PROVE  /\ Tail(q) \in Seq(Cqes)
           /\ Head(q) \in Cqes
           /\ OnlyLastEnds(q) =>
                /\ OnlyLastEnds(Tail(q))
                /\ ~Head(q).more => Tail(q) = <<>> /\ Ended(q)
                /\ Ended(Tail(q)) => Ended(q)
                /\ Head(q).more /\ Ended(q) => Ended(Tail(q))
<1>1. /\ Head(q) \in Cqes
      /\ Tail(q) \in Seq(Cqes)
      /\ Len(Tail(q)) = Len(q) - 1
      /\ \A i \in 1..Len(Tail(q)) : Tail(q)[i] = q[i + 1]
      /\ Head(q) = q[1]
  BY HeadTailProperties
<1>2. Len(q) \in Nat /\ Len(q) > 0 /\ Len(Tail(q)) \in Nat
  BY <1>1, LenProperties, EmptySeq
<1>3. SUFFICES ASSUME OnlyLastEnds(q)
               PROVE  /\ OnlyLastEnds(Tail(q))
                      /\ ~Head(q).more => Tail(q) = <<>> /\ Ended(q)
                      /\ Ended(Tail(q)) => Ended(q)
                      /\ Head(q).more /\ Ended(q) => Ended(Tail(q))
  BY <1>1
<1>4. OnlyLastEnds(Tail(q))
  <2>1. ASSUME NEW i \in 1..Len(Tail(q)), i < Len(Tail(q))
        PROVE  Tail(q)[i].more
    <3>1. i + 1 \in 1..Len(q) /\ i + 1 < Len(q) /\ Tail(q)[i] = q[i + 1]
      BY <2>1, <1>1, <1>2
    <3> QED BY <3>1, <1>3 DEF OnlyLastEnds
  <2> QED BY <2>1 DEF OnlyLastEnds
<1>5. ASSUME ~Head(q).more PROVE Tail(q) = <<>> /\ Ended(q)
  <2>1. ~(1 < Len(q))
    BY <1>5, <1>3, <1>1, <1>2 DEF OnlyLastEnds
  <2>2. Len(q) = 1 /\ Len(Tail(q)) = 0
    BY <2>1, <1>1, <1>2
  <2> QED BY <2>2, <1>1, <1>5, EmptySeq DEF Ended
<1>6. ASSUME Tail(q) # <<>> PROVE Tail(q)[Len(Tail(q))] = q[Len(q)]
  <2>1. Len(Tail(q)) # 0
    BY <1>6, <1>1, EmptySeq
  <2>2. Len(Tail(q)) \in 1..Len(Tail(q)) /\ Len(Tail(q)) + 1 = Len(q)
    BY <2>1, <1>1, <1>2
  <2> QED BY <2>2, <1>1
<1>7. Ended(Tail(q)) => Ended(q)
  BY <1>6 DEF Ended
<1>8. ASSUME Head(q).more, Ended(q) PROVE Ended(Tail(q))
  <2>1. ASSUME Tail(q) = <<>> PROVE FALSE
    <3>1. Len(q) = 1
      BY <2>1, <1>1, <1>2, EmptySeq
    <3> QED BY <3>1, <1>1, <1>8 DEF Ended
  <2> QED BY <2>1, <1>6, <1>8 DEF Ended
<1> QED
  BY <1>4, <1>5, <1>7, <1>8
-----------------------------------------------------------------------------
(* The inductive invariant: the properties, and how the places the thread, *)
(* the coroutine and the recv can be in go together.                       *)

\* What on_recv may rely on when the coroutine has yielded back to it.
FrameInv ==
    /\ frame \in {"more", "last"} => recv = "armed" /\ phase # "nodelay"
    /\ frame = "unref" => recv = "done"

\* Where the coroutine can be, by the state of the recv.
CoInv ==
    /\ refs > 0 => (closed <=> co = "none")
    /\ co = "none" => recv \in {"armed", "done"}
    /\ phase = "nodelay" => co = "parked" /\ recv = "armed" /\ frame = "none"
    /\ recv = "done" /\ co # "none" => eof
    /\ co = "recv" => rx = 0 /\ ~eof /\ recv \in {"armed", "starved"}
    /\ co = "run_recv" => recv # "paused"

\* A pause is under way exactly in recv_pause; it and a close have cancelled.
PauseInv ==
    /\ pausing => co \in {"pause", "run_pause"}
    /\ co = "pause" => pausing /\ recv = "armed"
    /\ co = "run_pause" /\ recv = "armed" => pausing
    /\ (closed \/ pausing) /\ recv = "armed" /\ frame # "last" => cancelling

IInv == /\ TypeOK /\ OneRecvOp /\ RefsCountOwners /\ CancelMatchesFlag
        /\ FrameInv /\ CoInv /\ PauseInv
-----------------------------------------------------------------------------
(* Steps of the proof: the ring lemmas, read at the current state.         *)

\* Staging an SQE of this connection.
LEMMA Staged ==
    ASSUME TypeOK, NEW e \in Sqes
    PROVE  /\ Append(sq, e) \in Seq(Sqes)
           /\ CancelBehindRecv(sq) => Has(sq, "recv")
           /\ \A x : Has(Append(sq, e), x) <=> Has(sq, x) \/ x = e
           /\ CancelBehindRecv(Append(sq, e))
                <=> CancelBehindRecv(sq) \/ (e = "cancel" /\ Has(sq, "recv"))
           /\ OneRecv(sq) /\ (e = "recv" => ~Has(sq, "recv"))
                => OneRecv(Append(sq, e))
BY Staging DEF TypeOK

\* The kernel taking an SQE of this connection.
LEMMA Taken ==
    ASSUME TypeOK, NEW e \in Sqes, KTake(e)
    PROVE  /\ sq' \in Seq(Sqes)
           /\ CancelBehindRecv(sq) => Has(sq, "recv")
           /\ \A x : Has(sq, x) <=> Has(sq', x) \/ x = e
           /\ CancelBehindRecv(sq)
                <=> CancelBehindRecv(sq') \/ (e = "recv" /\ Has(sq', "cancel"))
           /\ OneRecv(sq) => OneRecv(sq') /\ (e = "recv" => ~Has(sq', "recv"))
BY Taking DEF TypeOK, KTake

\* A CQE posted for a recv that has not ended.
LEMMA Posted ==
    ASSUME TypeOK, OneRecvOp, ~Ended(cq),
           NEW k \in {"data", "nobuf", "enobufs", "fin", "cancelled"},
           NEW m \in BOOLEAN, m => k \in {"data", "nobuf"},
           cq' = Append(cq, Cqe(k, m))
    PROVE  /\ cq' \in Seq(Cqes) /\ cq' # <<>>
           /\ Ended(cq') <=> ~m
           /\ OnlyLastEnds(cq')
<1>1. Cqe(k, m) \in Cqes /\ Cqe(k, m).more = m
  BY DEF Cqe, Cqes
<1>2. cq \in Seq(Cqes) /\ OnlyLastEnds(cq)
  BY DEF TypeOK, OneRecvOp
<1> QED
  BY <1>1, <1>2, Posting

\* A CQE dispatched: it is the current recv's, and nothing else is under way.
LEMMA Dispatched ==
    ASSUME TypeOK, OneRecvOp, NEW ks, Take(ks)
    PROVE  /\ recv = "armed" /\ frame = "none" /\ phase # "nodelay"
           /\ Head(cq).more \in BOOLEAN
           /\ Head(cq).k \notin {"data", "nobuf"} => ~Head(cq).more
           /\ cq' \in Seq(Cqes) /\ OnlyLastEnds(cq')
           /\ ~Head(cq).more => cq' = <<>> /\ ~Ended(cq') /\ Ended(cq)
           /\ Head(cq).more => (Ended(cq') <=> Ended(cq))
<1>1. /\ cq \in Seq(Cqes) /\ cq # <<>> /\ OnlyLastEnds(cq) /\ cq' = Tail(cq)
      /\ recv = "armed" /\ frame = "none" /\ phase # "nodelay"
  BY DEF TypeOK, OneRecvOp, OpKernel, OpEnded, OpStaged, Take, InLoop
<1>2. Head(cq) \in Cqes
  BY <1>1, Dispatching
<1>3. /\ Head(cq).more \in BOOLEAN
      /\ Head(cq).k \notin {"data", "nobuf"} => ~Head(cq).more
  BY <1>2 DEF Cqes
<1>4. ~Ended(<<>>)
  BY DEF Ended
<1> QED
  BY <1>1, <1>3, <1>4, Dispatching

\* What a cancel, a failure or a last piece of data leaves of the recv.
LEMMA RecvEnded ==
    ASSUME TypeOK, OneRecvOp,
           NEW k \in {"data", "nobuf", "enobufs", "fin", "cancelled"}, KEnd(k)
    PROVE  /\ krecv' = 0 /\ cq' \in Seq(Cqes) /\ OnlyLastEnds(cq')
           /\ krecv > 0 => cq' # <<>> /\ Ended(cq')
           /\ krecv = 0 => cq' = cq
<1>1. krecv \in 0..1 /\ cq \in Seq(Cqes) /\ OnlyLastEnds(cq)
  BY DEF TypeOK, OneRecvOp
<1>2. CASE krecv > 0
  <2>1. krecv' = 0 /\ cq' = Append(cq, Cqe(k, FALSE))
    BY <1>1, <1>2 DEF KEnd, kVars, Cqe
  <2>2. ~Ended(cq)
    BY <1>2 DEF OneRecvOp, OpKernel, OpEnded
  <2>3. cq' \in Seq(Cqes) /\ cq' # <<>> /\ Ended(cq') /\ OnlyLastEnds(cq')
    BY <2>1, <2>2, Posted
  <2> QED BY <1>1, <1>2, <2>1, <2>3 DEF Cqe
<1>3. CASE krecv = 0
  BY <1>1, <1>3 DEF KEnd, kVars, Cqe
<1> QED BY <1>1, <1>2, <1>3

-----------------------------------------------------------------------------
(* Every action preserves the invariant.                                   *)

\* The multishot that ended on -ENOBUFS (conn.c:168-190) leaves its place in
\* the rings together with RECV_ARMED, whichever of the four ways it goes.
LEMMA OnNobufsStep == IInv /\ OnNobufs => IInv'
<1> SUFFICES ASSUME IInv, OnNobufs PROVE IInv'
  OBVIOUS
<1> USE DEF IInv, connVars, coVars, loopVars, kVars
<1>d. /\ recv = "armed" /\ frame = "none" /\ phase # "nodelay"
      /\ Head(cq).more \in BOOLEAN
      /\ Head(cq).k \notin {"data", "nobuf"} => ~Head(cq).more
      /\ cq' \in Seq(Cqes) /\ OnlyLastEnds(cq')
      /\ ~Head(cq).more => cq' = <<>> /\ ~Ended(cq') /\ Ended(cq)
      /\ Head(cq).more => (Ended(cq') <=> Ended(cq))
  BY Dispatched DEF OnNobufs
<1> USE DEF OnNobufs, Take, Still, WakeReader, InLoop, Running
<1>1. TypeOK'
  <2>1. /\ pausing' \in BOOLEAN /\ cancelling' \in BOOLEAN
        /\ closed' \in BOOLEAN /\ eof' \in BOOLEAN /\ canceleach' \in BOOLEAN
    BY Zenon DEF TypeOK
  <2>2. sq' \in Seq(Sqes) /\ cq' \in Seq(Cqes)
    BY <1>d DEF TypeOK, Sqes
  <2> QED
    BY <2>1, <2>2, ConnAssumption DEF TypeOK, OneRecvOp, RefsCountOwners,
       OpStaged, OpKernel, OpEnded, RecvStates
<1>2. OneRecvOp'
  BY <1>d DEF OneRecvOp, OpStaged, OpKernel, OpEnded
<1>3. RefsCountOwners'
  BY <1>d DEF RefsCountOwners
<1>4. CancelMatchesFlag'
  BY <1>d DEF CancelMatchesFlag, OpStaged, OpKernel, CancelAhead
<1>5. FrameInv'
  BY DEF FrameInv
<1>6. CoInv'
  BY <1>d DEF RefsCountOwners, CoInv, PauseInv
<1>7. PauseInv'
  BY DEF RefsCountOwners, CoInv, PauseInv
<1> QED BY <1>1, <1>2, <1>3, <1>4, <1>5, <1>6, <1>7

\* A pause that completed, or the end of the input (conn.c:192-207).
LEMMA OnEndStep == IInv /\ OnEnd => IInv'
<1> SUFFICES ASSUME IInv, OnEnd PROVE IInv'
  OBVIOUS
<1> USE DEF IInv, connVars, coVars, loopVars, kVars
<1>d. /\ recv = "armed" /\ frame = "none" /\ phase # "nodelay"
      /\ Head(cq).more \in BOOLEAN
      /\ Head(cq).k \notin {"data", "nobuf"} => ~Head(cq).more
      /\ cq' \in Seq(Cqes) /\ OnlyLastEnds(cq')
      /\ ~Head(cq).more => cq' = <<>> /\ ~Ended(cq') /\ Ended(cq)
      /\ Head(cq).more => (Ended(cq') <=> Ended(cq))
  BY Dispatched DEF OnEnd
<1> USE DEF OnEnd, Take, Still, WakeReader, InLoop, Running
<1>1. TypeOK'
  <2>1. /\ pausing' \in BOOLEAN /\ cancelling' \in BOOLEAN
        /\ closed' \in BOOLEAN /\ eof' \in BOOLEAN /\ canceleach' \in BOOLEAN
    BY Zenon DEF TypeOK
  <2>2. sq' \in Seq(Sqes) /\ cq' \in Seq(Cqes)
    BY <1>d DEF TypeOK, Sqes
  <2> QED
    BY <2>1, <2>2, ConnAssumption DEF TypeOK, OneRecvOp, RefsCountOwners,
       OpStaged, OpKernel, OpEnded, RecvStates
<1>2. OneRecvOp'
  BY <1>d DEF OneRecvOp, OpStaged, OpKernel, OpEnded
<1>3. RefsCountOwners'
  BY <1>d DEF RefsCountOwners
<1>4. CancelMatchesFlag'
  BY <1>d DEF CancelMatchesFlag, OpStaged, OpKernel, CancelAhead
<1>5. FrameInv'
  BY DEF FrameInv
<1>6. CoInv'
  BY <1>d DEF CoInv, PauseInv
<1>7. PauseInv'
  BY DEF PauseInv
<1> QED BY <1>1, <1>2, <1>3, <1>4, <1>5, <1>6, <1>7

\* Bytes, queued or refused (conn.c:209-228): the only CQEs that may leave
\* the recv running, and the only place that cancels it without a caller.
LEMMA OnDataStep == IInv /\ OnData => IInv'
<1> SUFFICES ASSUME IInv, OnData PROVE IInv'
  OBVIOUS
<1> USE DEF IInv, connVars, coVars, loopVars, kVars
<1>d. /\ recv = "armed" /\ frame = "none" /\ phase # "nodelay"
      /\ Head(cq).more \in BOOLEAN
      /\ Head(cq).k \notin {"data", "nobuf"} => ~Head(cq).more
      /\ cq' \in Seq(Cqes) /\ OnlyLastEnds(cq')
      /\ ~Head(cq).more => cq' = <<>> /\ ~Ended(cq') /\ Ended(cq)
      /\ Head(cq).more => (Ended(cq') <=> Ended(cq))
  BY Dispatched DEF OnData
<1> USE DEF OnData, Take, Still, WakeReader, Overflow, RxFull, CancelRecv, InLoop,
   Running
<1>1. TypeOK'
  <2>1. /\ pausing' \in BOOLEAN /\ cancelling' \in BOOLEAN
        /\ closed' \in BOOLEAN /\ eof' \in BOOLEAN /\ canceleach' \in BOOLEAN
    BY Zenon DEF TypeOK
  <2>2. sq' \in Seq(Sqes) /\ cq' \in Seq(Cqes)
    BY Staged, <1>d DEF TypeOK, Sqes
  <2> QED
    BY <2>1, <2>2, ConnAssumption DEF TypeOK, OneRecvOp, RefsCountOwners,
       OpStaged, OpKernel, OpEnded, RecvStates
<1>2. OneRecvOp'
  BY Staged, <1>d DEF OneRecvOp, OpStaged, OpKernel, OpEnded, Sqes
<1>3. RefsCountOwners'
  BY Staged, <1>d DEF RefsCountOwners, Sqes
<1>4. CancelMatchesFlag'
  <2>1. ~OpStaged /\ (Head(cq).more \/ ~OpKernel)
    BY <1>d DEF OneRecvOp, OpEnded, OnData, Take
  <2>2. \/ /\ sq' = sq /\ (eof => eof')
           /\ Head(cq).more => cancelling' = cancelling
        \/ sq' = Append(sq, "cancel") /\ cancelling' /\ eof'
        \/ sq' = sq /\ cancelling /\ cancelling' /\ eof'
    BY Zenon DEF OnData, Overflow, RxFull, CancelRecv, Still, TypeOK
  <2>3. /\ ~Has(sq', "recv") /\ ~CancelBehindRecv(sq')
        /\ ~CancelBehindRecv(sq)
        /\ sq' = sq \/ Has(sq', "cancel")
    BY <2>1, <2>2, Staged DEF OpStaged, Sqes
  <2>4. UNCHANGED <<krecv, closed, pausing, canceleach, recv>>
    BY DEF OnData, Take
  <2> QED
    BY <1>d, <2>1, <2>2, <2>3, <2>4
       DEF CancelMatchesFlag, OpStaged, OpKernel, CancelAhead, TypeOK
<1>5. FrameInv'
  BY Staged, <1>d DEF FrameInv, Sqes
<1>6. CoInv'
  BY Staged, <1>d DEF CoInv, Sqes
<1>7. PauseInv'
  BY DEF PauseInv
<1> QED BY <1>1, <1>2, <1>3, <1>4, <1>5, <1>6, <1>7

\* Under a kernel without CANCEL_ANY every recv that goes on is cancelled.
LEMMA TailMoreStep == IInv /\ TailMore => IInv'
<1> SUFFICES ASSUME IInv, TailMore PROVE IInv'
  OBVIOUS
<1> USE DEF IInv, connVars, coVars, loopVars, kVars
<1> USE DEF TailMore, CancelRecv, NoCancel, Running
<1>1. TypeOK'
  <2>1. /\ pausing' \in BOOLEAN /\ cancelling' \in BOOLEAN
        /\ closed' \in BOOLEAN /\ eof' \in BOOLEAN /\ canceleach' \in BOOLEAN
    BY Zenon DEF TypeOK
  <2>2. sq' \in Seq(Sqes) /\ cq' \in Seq(Cqes)
    BY Staged DEF TypeOK, Sqes
  <2> QED
    BY <2>1, <2>2, ConnAssumption DEF TypeOK, OneRecvOp, RefsCountOwners,
       OpStaged, OpKernel, OpEnded, RecvStates
<1>2. OneRecvOp'
  BY Staged DEF OneRecvOp, OpStaged, OpKernel, OpEnded, Sqes
<1>3. RefsCountOwners'
  BY DEF RefsCountOwners
<1>4. CancelMatchesFlag'
  BY Staged DEF CancelMatchesFlag, OpStaged, OpKernel, CancelAhead, Sqes
<1>5. FrameInv'
  BY DEF FrameInv
<1>6. CoInv'
  BY DEF CoInv
<1>7. PauseInv'
  BY DEF PauseInv
<1> QED BY <1>1, <1>2, <1>3, <1>4, <1>5, <1>6, <1>7

\* The recv's last CQE was data (conn.c:230-243): pause, re-arm or let go,
\* with the coroutine having run in between.
LEMMA TailLastStep == IInv /\ TailLast => IInv'
<1> SUFFICES ASSUME IInv, TailLast PROVE IInv'
  OBVIOUS
<1> USE DEF IInv, connVars, coVars, loopVars, kVars
<1> USE DEF TailLast, WakeReader, NoCancel, ArmRecv, Running
<1>1. TypeOK'
  <2>1. /\ pausing' \in BOOLEAN /\ cancelling' \in BOOLEAN
        /\ closed' \in BOOLEAN /\ eof' \in BOOLEAN /\ canceleach' \in BOOLEAN
    BY Zenon DEF TypeOK
  <2>2. sq' \in Seq(Sqes) /\ cq' \in Seq(Cqes)
    BY Staged DEF TypeOK, Sqes
  <2> QED
    BY <2>1, <2>2, ConnAssumption DEF TypeOK, OneRecvOp, RefsCountOwners,
       OpStaged, OpKernel, OpEnded, RecvStates
<1>2. OneRecvOp'
  BY Staged DEF OneRecvOp, FrameInv, OpStaged, OpKernel, OpEnded, Sqes
<1>3. RefsCountOwners'
  BY DEF RefsCountOwners, FrameInv
<1>4. CancelMatchesFlag'
  BY Staged DEF OneRecvOp, CancelMatchesFlag, OpStaged, OpKernel, OpEnded,
     CancelAhead, Sqes
<1>5. FrameInv'
  BY DEF FrameInv
<1>6. CoInv'
  BY DEF RefsCountOwners, CoInv, PauseInv
<1>7. PauseInv'
  BY DEF RefsCountOwners, CoInv, PauseInv
<1> QED BY <1>1, <1>2, <1>3, <1>4, <1>5, <1>6, <1>7

\* The recv's reference is dropped after the wake.
LEMMA TailUnrefStep == IInv /\ TailUnref => IInv'
BY DEF IInv, TypeOK, OneRecvOp, RefsCountOwners, CancelMatchesFlag, FrameInv,
   CoInv, PauseInv, OpStaged, OpKernel, OpEnded,
       CancelAhead, RecvStates, connVars, coVars, loopVars, kVars,
       TailUnref, Running

\* recv_item takes a buffer, reports the end, or parks.
LEMMA RecvItemStep == IInv /\ RecvItem => IInv'
<1> SUFFICES ASSUME IInv, RecvItem PROVE IInv'
  OBVIOUS
<1> USE DEF IInv, connVars, coVars, loopVars, kVars
<1> USE DEF RecvItem
<1>1. TypeOK'
  <2>1. /\ pausing' \in BOOLEAN /\ cancelling' \in BOOLEAN
        /\ closed' \in BOOLEAN /\ eof' \in BOOLEAN /\ canceleach' \in BOOLEAN
    BY Zenon DEF TypeOK
  <2>2. sq' \in Seq(Sqes) /\ cq' \in Seq(Cqes)
    BY DEF TypeOK, Sqes
  <2> QED
    BY <2>1, <2>2, ConnAssumption DEF TypeOK, OneRecvOp, RefsCountOwners,
       OpStaged, OpKernel, OpEnded, RecvStates
<1>2. OneRecvOp'
  BY DEF OneRecvOp, OpStaged, OpKernel, OpEnded
<1>3. RefsCountOwners'
  BY DEF RefsCountOwners
<1>4. CancelMatchesFlag'
  BY DEF CancelMatchesFlag, OpStaged, OpKernel, CancelAhead
<1>5. FrameInv'
  BY DEF FrameInv
<1>6. CoInv'
  BY DEF TypeOK, CoInv, RecvStates
<1>7. PauseInv'
  BY DEF PauseInv
<1> QED BY <1>1, <1>2, <1>3, <1>4, <1>5, <1>6, <1>7

\* Any other await.
LEMMA AwaitStep == IInv /\ Await => IInv'
BY DEF IInv, TypeOK, OneRecvOp, RefsCountOwners, CancelMatchesFlag, FrameInv,
   CoInv, PauseInv, OpStaged, OpKernel, OpEnded,
       CancelAhead, RecvStates, connVars, coVars, loopVars, kVars,
       Await

\* recv_pause cancels an armed recv and parks, or has nothing to wait for.
LEMMA PauseStep == IInv /\ Pause => IInv'
<1> SUFFICES ASSUME IInv, Pause PROVE IInv'
  OBVIOUS
<1> USE DEF IInv, connVars, coVars, loopVars, kVars
<1> USE DEF Pause, CancelRecv, PauseTail, NoCancel
<1>1. TypeOK'
  <2>1. /\ pausing' \in BOOLEAN /\ cancelling' \in BOOLEAN
        /\ closed' \in BOOLEAN /\ eof' \in BOOLEAN /\ canceleach' \in BOOLEAN
    BY Zenon DEF TypeOK
  <2>2. sq' \in Seq(Sqes) /\ cq' \in Seq(Cqes)
    BY Staged DEF TypeOK, Sqes
  <2> QED
    BY <2>1, <2>2, ConnAssumption DEF TypeOK, OneRecvOp, RefsCountOwners,
       OpStaged, OpKernel, OpEnded, RecvStates
<1>2. OneRecvOp'
  BY Staged DEF OneRecvOp, OpStaged, OpKernel, OpEnded, Sqes
<1>3. RefsCountOwners'
  BY DEF RefsCountOwners
<1>4. CancelMatchesFlag'
  BY Staged DEF CancelMatchesFlag, OpStaged, OpKernel, CancelAhead, Sqes
<1>5. FrameInv'
  BY DEF FrameInv
<1>6. CoInv'
  BY DEF CoInv
<1>7. PauseInv'
  BY DEF PauseInv
<1> QED BY <1>1, <1>2, <1>3, <1>4, <1>5, <1>6, <1>7

\* recv_pause, woken.
LEMMA PauseLoopStep == IInv /\ PauseLoop => IInv'
<1> SUFFICES ASSUME IInv, PauseLoop PROVE IInv'
  OBVIOUS
<1> USE DEF IInv, connVars, coVars, loopVars, kVars
<1> USE DEF PauseLoop, PauseTail, NoCancel
<1>1. TypeOK'
  <2>1. /\ pausing' \in BOOLEAN /\ cancelling' \in BOOLEAN
        /\ closed' \in BOOLEAN /\ eof' \in BOOLEAN /\ canceleach' \in BOOLEAN
    BY Zenon DEF TypeOK
  <2>2. sq' \in Seq(Sqes) /\ cq' \in Seq(Cqes)
    BY DEF TypeOK, Sqes
  <2> QED
    BY <2>1, <2>2, ConnAssumption DEF TypeOK, OneRecvOp, RefsCountOwners,
       OpStaged, OpKernel, OpEnded, RecvStates
<1>2. OneRecvOp'
  BY DEF OneRecvOp, OpStaged, OpKernel, OpEnded
<1>3. RefsCountOwners'
  BY DEF RefsCountOwners
<1>4. CancelMatchesFlag'
  BY DEF CancelMatchesFlag, OpStaged, OpKernel, CancelAhead
<1>5. FrameInv'
  BY DEF FrameInv
<1>6. CoInv'
  BY DEF CoInv
<1>7. PauseInv'
  BY DEF PauseInv
<1> QED BY <1>1, <1>2, <1>3, <1>4, <1>5, <1>6, <1>7

\* recv_resume arms the recv again, or ends the input while draining.
LEMMA ResumeStep == IInv /\ Resume => IInv'
<1> SUFFICES ASSUME IInv, Resume PROVE IInv'
  OBVIOUS
<1> USE DEF IInv, connVars, coVars, loopVars, kVars
<1> USE DEF Resume, ArmRecv, NoCancel
<1>1. TypeOK'
  <2>1. /\ pausing' \in BOOLEAN /\ cancelling' \in BOOLEAN
        /\ closed' \in BOOLEAN /\ eof' \in BOOLEAN /\ canceleach' \in BOOLEAN
    BY Zenon DEF TypeOK
  <2>2. sq' \in Seq(Sqes) /\ cq' \in Seq(Cqes)
    BY Staged DEF TypeOK, Sqes
  <2> QED
    BY <2>1, <2>2, ConnAssumption DEF TypeOK, OneRecvOp, RefsCountOwners,
       OpStaged, OpKernel, OpEnded, RecvStates
<1>2. OneRecvOp'
  BY Staged DEF OneRecvOp, FrameInv, OpStaged, OpKernel, OpEnded, Sqes
<1>3. RefsCountOwners'
  BY DEF RefsCountOwners, FrameInv
<1>4. CancelMatchesFlag'
  BY Staged DEF OneRecvOp, CancelMatchesFlag, OpStaged, OpKernel, OpEnded,
     CancelAhead, Sqes
<1>5. FrameInv'
  BY DEF FrameInv
<1>6. CoInv'
  BY DEF RefsCountOwners, CoInv
<1>7. PauseInv'
  BY DEF RefsCountOwners, CoInv, PauseInv
<1> QED BY <1>1, <1>2, <1>3, <1>4, <1>5, <1>6, <1>7

\* conn_close: the coroutine's reference, and the recv's if it is not armed;
\* a cancel of an armed recv goes ahead of the close of the socket.
LEMMA CloseStep == IInv /\ Close => IInv'
<1> SUFFICES ASSUME IInv, Close PROVE IInv'
  OBVIOUS
<1> USE DEF IInv, connVars, coVars, loopVars, kVars
<1> DEFINE cancels == recv = "armed" /\ ~cancelling
           q == IF cancels THEN Append(sq, "cancel") ELSE sq
<1>1. sq' = Append(q, "close")
  BY DEF Close, CloseArmed
<1>2. /\ q \in Seq(Sqes)
      /\ Has(q, "recv") <=> Has(sq, "recv")
      /\ Has(q, "cancel") <=> Has(sq, "cancel") \/ cancels
      /\ CancelBehindRecv(q)
           <=> CancelBehindRecv(sq) \/ (cancels /\ Has(sq, "recv"))
      /\ OneRecv(sq) => OneRecv(q)
  BY Staged DEF Sqes, TypeOK
<1>a. /\ sq' \in Seq(Sqes)
      /\ Has(sq', "recv") <=> Has(sq, "recv")
      /\ Has(sq', "cancel") <=> Has(sq, "cancel") \/ cancels
      /\ CancelBehindRecv(sq')
           <=> CancelBehindRecv(sq) \/ (cancels /\ Has(sq, "recv"))
      /\ OneRecv(sq) => OneRecv(sq')
  <2> HIDE DEF q, cancels
  <2> QED BY <1>1, <1>2, Staging DEF Sqes
<1>b. /\ pausing' = pausing /\ closed' = TRUE /\ eof' = eof /\ rx' = 0
      /\ co' = "none" /\ phase' = phase /\ UNCHANGED <<loopVars, kVars>>
      /\ co = "run"
      /\ recv' = (IF recv = "armed" THEN "armed" ELSE "done")
      /\ refs' = (IF recv \in {"armed", "done"} THEN refs - 1 ELSE refs - 2)
  BY DEF Close, CloseArmed, TypeOK, RecvStates
<1>c. cancelling' = (cancelling \/ recv = "armed")
  BY Zenon DEF Close, CloseArmed, TypeOK, RecvStates
<1> HIDE DEF q
<1>3. TypeOK'
  <2>1. cancelling' \in BOOLEAN
    BY <1>c
  <2> QED
    BY <1>a, <1>b, <2>1, ConnAssumption
       DEF TypeOK, RefsCountOwners, RecvStates, FrameInv
<1>4. OneRecvOp'
  BY <1>a, <1>b
     DEF OneRecvOp, OpStaged, OpKernel, OpEnded, TypeOK, RecvStates, CoInv
<1>5. RefsCountOwners'
  BY <1>b DEF RefsCountOwners, TypeOK, RecvStates, FrameInv, CoInv
<1>6. CancelMatchesFlag'
  BY <1>a, <1>b, <1>c
     DEF CancelMatchesFlag, OneRecvOp, OpStaged, OpKernel, OpEnded,
         CancelAhead, TypeOK, RecvStates
<1>7. FrameInv' /\ CoInv'
  BY <1>b DEF FrameInv, CoInv, RefsCountOwners, TypeOK, RecvStates
<1>8. PauseInv'
  BY <1>b, <1>c DEF PauseInv, TypeOK, RecvStates
<1> QED BY <1>3, <1>4, <1>5, <1>6, <1>7, <1>8

\* conn_new and the first arming, with the previous incarnation's cancels
\* possibly still staged.
LEMMA AcceptStep == IInv /\ Accept => IInv'
<1> SUFFICES ASSUME IInv, Accept PROVE IInv'
  OBVIOUS
<1> USE DEF IInv, connVars, coVars, loopVars, kVars
<1> USE DEF Accept, ConnNew, InLoop, Running
<1>1. TypeOK'
  <2>1. /\ pausing' \in BOOLEAN /\ cancelling' \in BOOLEAN
        /\ closed' \in BOOLEAN /\ eof' \in BOOLEAN /\ canceleach' \in BOOLEAN
    BY Zenon DEF TypeOK
  <2>2. sq' \in Seq(Sqes) /\ cq' \in Seq(Cqes)
    BY Staged DEF TypeOK, Sqes
  <2> QED
    BY <2>1, <2>2, ConnAssumption DEF TypeOK, OneRecvOp, RefsCountOwners,
       OpStaged, OpKernel, OpEnded, RecvStates
<1>2. OneRecvOp'
  BY Staged DEF OneRecvOp, RefsCountOwners, OpStaged, OpKernel, OpEnded,
     Sqes
<1>3. RefsCountOwners'
  BY DEF RefsCountOwners
<1>4. CancelMatchesFlag'
  BY Staged DEF OneRecvOp, RefsCountOwners, CancelMatchesFlag, OpStaged,
     OpKernel, OpEnded, CancelAhead, Sqes
<1>5. FrameInv'
  BY DEF FrameInv
<1>6. CoInv'
  BY DEF CoInv
<1>7. PauseInv'
  BY DEF PauseInv
<1> QED BY <1>1, <1>2, <1>3, <1>4, <1>5, <1>6, <1>7

\* The spawned coroutine starts.
LEMMA StartStep == IInv /\ Start => IInv'
BY DEF IInv, TypeOK, OneRecvOp, RefsCountOwners, CancelMatchesFlag, FrameInv,
   CoInv, PauseInv, OpStaged, OpKernel, OpEnded,
       CancelAhead, RecvStates, connVars, coVars, loopVars, kVars,
       Start, InLoop, Running

\* ioxd_connect: ARMED before there is a recv.
LEMMA ConnectStep == IInv /\ Connect => IInv'
<1> SUFFICES ASSUME IInv, Connect PROVE IInv'
  OBVIOUS
<1> USE DEF IInv, connVars, coVars, loopVars, kVars
<1> USE DEF Connect, ConnNew, InLoop, Running
<1>1. TypeOK'
  <2>1. /\ pausing' \in BOOLEAN /\ cancelling' \in BOOLEAN
        /\ closed' \in BOOLEAN /\ eof' \in BOOLEAN /\ canceleach' \in BOOLEAN
    BY Zenon DEF TypeOK
  <2>2. sq' \in Seq(Sqes) /\ cq' \in Seq(Cqes)
    BY DEF TypeOK, Sqes
  <2> QED
    BY <2>1, <2>2, ConnAssumption DEF TypeOK, OneRecvOp, RefsCountOwners,
       OpStaged, OpKernel, OpEnded, RecvStates
<1>2. OneRecvOp'
  BY DEF OneRecvOp, RefsCountOwners, OpStaged, OpKernel, OpEnded
<1>3. RefsCountOwners'
  BY DEF RefsCountOwners
<1>4. CancelMatchesFlag'
  BY DEF OneRecvOp, RefsCountOwners, CancelMatchesFlag, OpStaged, OpKernel,
     OpEnded, CancelAhead
<1>5. FrameInv'
  BY DEF FrameInv
<1>6. CoInv'
  BY DEF CoInv
<1>7. PauseInv'
  BY DEF PauseInv
<1> QED BY <1>1, <1>2, <1>3, <1>4, <1>5, <1>6, <1>7

\* ioxd_connect, after the setsockopt.
LEMMA ConnectedStep == IInv /\ Connected => IInv'
<1> SUFFICES ASSUME IInv, Connected PROVE IInv'
  OBVIOUS
<1> USE DEF IInv, connVars, coVars, loopVars, kVars
<1> USE DEF Connected, ArmRecv, Running
<1>1. TypeOK'
  <2>1. /\ pausing' \in BOOLEAN /\ cancelling' \in BOOLEAN
        /\ closed' \in BOOLEAN /\ eof' \in BOOLEAN /\ canceleach' \in BOOLEAN
    BY Zenon DEF TypeOK
  <2>2. sq' \in Seq(Sqes) /\ cq' \in Seq(Cqes)
    BY Staged DEF TypeOK, Sqes
  <2> QED
    BY <2>1, <2>2, ConnAssumption DEF TypeOK, OneRecvOp, RefsCountOwners,
       OpStaged, OpKernel, OpEnded, RecvStates
<1>2. OneRecvOp'
  BY Staged DEF OneRecvOp, OpStaged, OpKernel, OpEnded, Sqes
<1>3. RefsCountOwners'
  BY DEF RefsCountOwners, CoInv
<1>4. CancelMatchesFlag'
  BY Staged DEF OneRecvOp, CancelMatchesFlag, OpStaged, OpKernel, OpEnded,
     CancelAhead, Sqes
<1>5. FrameInv'
  BY DEF FrameInv
<1>6. CoInv'
  BY DEF CoInv
<1>7. PauseInv'
  BY DEF RefsCountOwners, CoInv, PauseInv
<1> QED BY <1>1, <1>2, <1>3, <1>4, <1>5, <1>6, <1>7

\* The completion of any other await.
LEMMA ResumedStep == IInv /\ Resumed => IInv'
BY DEF IInv, TypeOK, OneRecvOp, RefsCountOwners, CancelMatchesFlag, FrameInv,
   CoInv, PauseInv, OpStaged, OpKernel, OpEnded,
       CancelAhead, RecvStates, connVars, coVars, loopVars, kVars,
       Resumed, Running

\* rearm_starved.
LEMMA RearmStarvedStep == IInv /\ RearmStarved => IInv'
<1> SUFFICES ASSUME IInv, RearmStarved PROVE IInv'
  OBVIOUS
<1> USE DEF IInv, connVars, coVars, loopVars, kVars
<1> USE DEF RearmStarved, ArmRecv, InLoop, Running
<1>1. TypeOK'
  <2>1. /\ pausing' \in BOOLEAN /\ cancelling' \in BOOLEAN
        /\ closed' \in BOOLEAN /\ eof' \in BOOLEAN /\ canceleach' \in BOOLEAN
    BY Zenon DEF TypeOK
  <2>2. sq' \in Seq(Sqes) /\ cq' \in Seq(Cqes)
    BY Staged DEF TypeOK, Sqes
  <2> QED
    BY <2>1, <2>2, ConnAssumption DEF TypeOK, OneRecvOp, RefsCountOwners,
       OpStaged, OpKernel, OpEnded, RecvStates
<1>2. OneRecvOp'
  BY Staged DEF OneRecvOp, CoInv, OpStaged, OpKernel, OpEnded, Sqes
<1>3. RefsCountOwners'
  BY DEF RefsCountOwners
<1>4. CancelMatchesFlag'
  BY Staged DEF OneRecvOp, CancelMatchesFlag, OpStaged, OpKernel, OpEnded,
     CancelAhead, Sqes
<1>5. FrameInv'
  BY DEF FrameInv
<1>6. CoInv'
  BY DEF CoInv
<1>7. PauseInv'
  BY DEF RefsCountOwners, CoInv, PauseInv
<1> QED BY <1>1, <1>2, <1>3, <1>4, <1>5, <1>6, <1>7

\* begin_drain stages the blanket cancel.
LEMMA BeginDrainStep == IInv /\ BeginDrain => IInv'
<1> SUFFICES ASSUME IInv, BeginDrain PROVE IInv'
  OBVIOUS
<1> USE DEF IInv, connVars, coVars, loopVars, kVars
<1> USE DEF BeginDrain, InLoop, Running
<1>1. TypeOK'
  <2>1. /\ pausing' \in BOOLEAN /\ cancelling' \in BOOLEAN
        /\ closed' \in BOOLEAN /\ eof' \in BOOLEAN /\ canceleach' \in BOOLEAN
    BY Zenon DEF TypeOK
  <2>2. sq' \in Seq(Sqes) /\ cq' \in Seq(Cqes)
    BY Staged DEF TypeOK, Sqes
  <2> QED
    BY <2>1, <2>2, ConnAssumption DEF TypeOK, OneRecvOp, RefsCountOwners,
       OpStaged, OpKernel, OpEnded, RecvStates
<1>2. OneRecvOp'
  BY Staged DEF OneRecvOp, OpStaged, OpKernel, OpEnded, Sqes
<1>3. RefsCountOwners'
  BY DEF RefsCountOwners
<1>4. CancelMatchesFlag'
  BY Staged DEF CancelMatchesFlag, OpStaged, OpKernel, CancelAhead, Sqes
<1>5. FrameInv'
  BY DEF FrameInv
<1>6. CoInv'
  BY DEF CoInv
<1>7. PauseInv'
  BY DEF PauseInv
<1> QED BY <1>1, <1>2, <1>3, <1>4, <1>5, <1>6, <1>7

\* begin_drain ends a starved recv by hand.
LEMMA RecvDrainStep == IInv /\ RecvDrain => IInv'
<1> SUFFICES ASSUME IInv, RecvDrain PROVE IInv'
  OBVIOUS
<1> USE DEF IInv, connVars, coVars, loopVars, kVars
<1> USE DEF RecvDrain, WakeReader, Running
<1>1. TypeOK'
  <2>1. /\ pausing' \in BOOLEAN /\ cancelling' \in BOOLEAN
        /\ closed' \in BOOLEAN /\ eof' \in BOOLEAN /\ canceleach' \in BOOLEAN
    BY Zenon DEF TypeOK
  <2>2. sq' \in Seq(Sqes) /\ cq' \in Seq(Cqes)
    BY DEF TypeOK, Sqes
  <2> QED
    BY <2>1, <2>2, ConnAssumption DEF TypeOK, OneRecvOp, RefsCountOwners,
       OpStaged, OpKernel, OpEnded, RecvStates
<1>2. OneRecvOp'
  BY DEF OneRecvOp, OpStaged, OpKernel, OpEnded
<1>3. RefsCountOwners'
  BY DEF RefsCountOwners
<1>4. CancelMatchesFlag'
  BY DEF CancelMatchesFlag, OpStaged, OpKernel, CancelAhead
<1>5. FrameInv'
  BY DEF FrameInv
<1>6. CoInv'
  BY DEF CoInv
<1>7. PauseInv'
  BY DEF PauseInv
<1> QED BY <1>1, <1>2, <1>3, <1>4, <1>5, <1>6, <1>7

\* begin_drain is done.
LEMMA EndSweepStep == IInv /\ EndSweep => IInv'
BY DEF IInv, TypeOK, OneRecvOp, RefsCountOwners, CancelMatchesFlag, FrameInv,
   CoInv, PauseInv, OpStaged, OpKernel, OpEnded,
       CancelAhead, RecvStates, connVars, coVars, loopVars, kVars,
       EndSweep, Running

\* The kernel refused the blanket cancel.
LEMMA DrainRefusedStep == IInv /\ DrainRefused => IInv'
BY DEF IInv, TypeOK, OneRecvOp, RefsCountOwners, CancelMatchesFlag, FrameInv,
   CoInv, PauseInv, OpStaged, OpKernel, OpEnded,
       CancelAhead, RecvStates, connVars, coVars, loopVars, kVars,
       DrainRefused, InLoop, Running

\* The kernel takes the recv: it is live, or it has ended on an empty ring.
LEMMA KRecvStep == IInv /\ KRecv => IInv'
<1> SUFFICES ASSUME IInv, KRecv PROVE IInv'
  OBVIOUS
<1> USE DEF IInv, connVars, coVars, loopVars, kVars
<1>b. /\ sq' \in Seq(Sqes)
      /\ CancelBehindRecv(sq) => Has(sq, "recv")
      /\ \A x : Has(sq, x) <=> Has(sq', x) \/ x = "recv"
      /\ CancelBehindRecv(sq) <=> CancelBehindRecv(sq') \/ Has(sq', "cancel")
      /\ OneRecv(sq) => OneRecv(sq') /\ ~Has(sq', "recv")
  BY Taken DEF Sqes, KRecv
<1>a. krecv = 0 /\ cq = <<>> /\ ~Ended(cq)
  BY DEF KRecv, KTake, Has, OneRecvOp, OpStaged, OpKernel, OpEnded, TypeOK,
     Ended
<1>c. \/ krecv' = 1 /\ cq' = cq
      \/ /\ krecv' = 0 /\ cq' \in Seq(Cqes) /\ OnlyLastEnds(cq')
         /\ cq' # <<>> /\ Ended(cq')
  <2>1. CASE krecv' = krecv + 1 /\ cq' = cq
    BY <1>a, <2>1
  <2>2. CASE cq' = Append(cq, Cqe("enobufs", FALSE)) /\ krecv' = krecv
    <3>1. /\ cq' \in Seq(Cqes) /\ OnlyLastEnds(cq') /\ cq' # <<>> /\ Ended(cq')
      BY <1>a, <2>2, Posted
    <3> QED BY <1>a, <2>2, <3>1 DEF Cqe
  <2> QED BY <2>1, <2>2 DEF KRecv, Cqe
<1>e. UNCHANGED <<connVars, coVars, loopVars>>
  BY DEF KRecv, KTake
<1>1. TypeOK'
  BY <1>b, <1>c, <1>e DEF TypeOK, Cqes
<1>2. OneRecvOp'
  BY <1>b, <1>a, <1>c, <1>e DEF OneRecvOp, OpStaged, OpKernel, OpEnded
<1>3. RefsCountOwners'
  BY <1>b, <1>a, <1>c, <1>e DEF RefsCountOwners
<1>4. CancelMatchesFlag'
  BY <1>b, <1>a, <1>c, <1>e DEF OneRecvOp, CancelMatchesFlag, OpStaged,
     OpKernel, OpEnded, CancelAhead
<1>5. FrameInv'
  BY <1>b, <1>a, <1>c, <1>e DEF FrameInv
<1>6. CoInv'
  BY <1>b, <1>a, <1>c, <1>e DEF CoInv
<1>7. PauseInv'
  BY <1>b, <1>a, <1>c, <1>e DEF PauseInv
<1> QED BY <1>1, <1>2, <1>3, <1>4, <1>5, <1>6, <1>7

\* The kernel takes the close.
LEMMA KCloseStep == IInv /\ KClose => IInv'
<1> SUFFICES ASSUME IInv, KClose PROVE IInv'
  OBVIOUS
<1> USE DEF IInv, connVars, coVars, loopVars, kVars
<1>b. /\ sq' \in Seq(Sqes)
      /\ CancelBehindRecv(sq) => Has(sq, "recv")
      /\ \A x : Has(sq, x) <=> Has(sq', x) \/ x = "close"
      /\ CancelBehindRecv(sq) <=> CancelBehindRecv(sq')
      /\ OneRecv(sq) => OneRecv(sq')
  BY Taken DEF Sqes, KClose
<1> USE DEF KClose, KTake
<1>1. TypeOK'
  <2>1. /\ pausing' \in BOOLEAN /\ cancelling' \in BOOLEAN
        /\ closed' \in BOOLEAN /\ eof' \in BOOLEAN /\ canceleach' \in BOOLEAN
    BY Zenon DEF TypeOK
  <2>2. sq' \in Seq(Sqes) /\ cq' \in Seq(Cqes)
    BY <1>b DEF TypeOK, Sqes
  <2> QED
    BY <2>1, <2>2, ConnAssumption DEF TypeOK, OneRecvOp, RefsCountOwners,
       OpStaged, OpKernel, OpEnded, RecvStates
<1>2. OneRecvOp'
  BY <1>b DEF OneRecvOp, OpStaged, OpKernel, OpEnded
<1>3. RefsCountOwners'
  BY DEF RefsCountOwners
<1>4. CancelMatchesFlag'
  BY <1>b DEF CancelMatchesFlag, OpStaged, OpKernel, CancelAhead
<1>5. FrameInv'
  BY DEF FrameInv
<1>6. CoInv'
  BY DEF CoInv
<1>7. PauseInv'
  BY DEF PauseInv
<1> QED BY <1>1, <1>2, <1>3, <1>4, <1>5, <1>6, <1>7

\* The kernel takes a cancel: it hits the live recv or nothing.
LEMMA KCancelStep == IInv /\ KCancel => IInv'
<1> SUFFICES ASSUME IInv, KCancel PROVE IInv'
  OBVIOUS
<1> USE DEF IInv, connVars, coVars, loopVars, kVars
<1>b. /\ sq' \in Seq(Sqes)
      /\ CancelBehindRecv(sq) => Has(sq, "recv")
      /\ \A x : Has(sq, x) <=> Has(sq', x) \/ x = "cancel"
      /\ CancelBehindRecv(sq) <=> CancelBehindRecv(sq')
      /\ OneRecv(sq) => OneRecv(sq')
  BY Taken DEF Sqes, KCancel
<1>c. /\ cq' \in Seq(Cqes) /\ OnlyLastEnds(cq')
      /\ krecv' = 0
      /\ krecv > 0 => cq' # <<>> /\ Ended(cq')
      /\ krecv = 0 => cq' = cq
  BY RecvEnded DEF KCancel
<1>e. UNCHANGED <<connVars, coVars, loopVars>>
  BY DEF KCancel, KTake
<1>1. TypeOK'
  BY <1>b, <1>c, <1>e DEF TypeOK, Cqes
<1>2. OneRecvOp'
  BY <1>b, <1>c, <1>e DEF TypeOK, OneRecvOp, OpStaged, OpKernel, OpEnded,
     RecvStates
<1>3. RefsCountOwners'
  BY <1>b, <1>c, <1>e DEF RefsCountOwners
<1>4. CancelMatchesFlag'
  BY <1>b, <1>c, <1>e DEF OneRecvOp, CancelMatchesFlag, OpStaged, OpKernel,
     OpEnded, CancelAhead
<1>5. FrameInv'
  BY <1>b, <1>c, <1>e DEF FrameInv
<1>6. CoInv'
  BY <1>b, <1>c, <1>e DEF CoInv
<1>7. PauseInv'
  BY <1>b, <1>c, <1>e DEF PauseInv
<1> QED BY <1>1, <1>2, <1>3, <1>4, <1>5, <1>6, <1>7

\* The kernel takes the blanket cancel.
LEMMA KBlanketStep == IInv /\ KBlanket => IInv'
<1> SUFFICES ASSUME IInv, KBlanket PROVE IInv'
  OBVIOUS
<1> USE DEF IInv, connVars, coVars, loopVars, kVars
<1>b. /\ sq' \in Seq(Sqes)
      /\ CancelBehindRecv(sq) => Has(sq, "recv")
      /\ \A x : Has(sq, x) <=> Has(sq', x) \/ x = "blanket"
      /\ CancelBehindRecv(sq) <=> CancelBehindRecv(sq')
      /\ OneRecv(sq) => OneRecv(sq')
  BY Taken DEF Sqes, KBlanket
<1>c. \/ kVars' = kVars
      \/ /\ cq' \in Seq(Cqes) /\ OnlyLastEnds(cq')
         /\ krecv' = 0
         /\ krecv > 0 => cq' # <<>> /\ Ended(cq')
         /\ krecv = 0 => cq' = cq
  BY RecvEnded DEF KBlanket
<1>e. UNCHANGED <<connVars, coVars, loopVars>>
  BY DEF KBlanket, KTake
<1>1. TypeOK'
  BY <1>b, <1>c, <1>e DEF TypeOK, Cqes
<1>2. OneRecvOp'
  BY <1>b, <1>c, <1>e DEF TypeOK, OneRecvOp, OpStaged, OpKernel, OpEnded,
     RecvStates
<1>3. RefsCountOwners'
  BY <1>b, <1>c, <1>e DEF RefsCountOwners
<1>4. CancelMatchesFlag'
  BY <1>b, <1>c, <1>e DEF OneRecvOp, CancelMatchesFlag, OpStaged, OpKernel,
     OpEnded, CancelAhead
<1>5. FrameInv'
  BY <1>b, <1>c, <1>e DEF FrameInv
<1>6. CoInv'
  BY <1>b, <1>c, <1>e DEF CoInv
<1>7. PauseInv'
  BY <1>b, <1>c, <1>e DEF PauseInv
<1> QED BY <1>1, <1>2, <1>3, <1>4, <1>5, <1>6, <1>7

\* The kernel delivers bytes.
LEMMA KDataStep == IInv /\ KData => IInv'
<1> SUFFICES ASSUME IInv, KData PROVE IInv'
  OBVIOUS
<1> USE DEF IInv, connVars, coVars, loopVars, kVars
<1>a. krecv = 1 /\ ~Ended(cq) /\ ~Has(sq, "recv")
  BY DEF KData, OneRecvOp, OpStaged, OpKernel, OpEnded, TypeOK
<1>c. /\ cq' \in Seq(Cqes) /\ OnlyLastEnds(cq') /\ cq' # <<>>
      /\ (krecv' = 1 /\ ~Ended(cq')) \/ (krecv' = 0 /\ Ended(cq'))
  <2>1. PICK k \in {"data", "nobuf"} :
          \/ cq' = Append(cq, Cqe(k, TRUE)) /\ krecv' = krecv
          \/ KEnd(k)
    BY DEF KData
  <2>2. CASE cq' = Append(cq, Cqe(k, TRUE)) /\ krecv' = krecv
    <3>1. /\ cq' \in Seq(Cqes) /\ OnlyLastEnds(cq') /\ cq' # <<>> /\ ~Ended(cq')
      BY <1>a, <2>2, Posted
    <3>2. krecv' = krecv
      BY <2>2 DEF Cqe
    <3> QED BY <1>a, <3>2, <3>1
  <2>3. CASE KEnd(k)
    BY <1>a, <2>3, RecvEnded
  <2> QED BY <2>1, <2>2, <2>3
<1>e. UNCHANGED <<connVars, coVars, loopVars, sq>>
  BY DEF KData
<1>1. TypeOK'
  BY <1>c, <1>e DEF TypeOK, Cqes
<1>2. OneRecvOp'
  BY <1>a, <1>c, <1>e DEF OneRecvOp, OpStaged, OpKernel, OpEnded
<1>3. RefsCountOwners'
  BY <1>a, <1>c, <1>e DEF RefsCountOwners
<1>4. CancelMatchesFlag'
  BY <1>a, <1>c, <1>e DEF CancelMatchesFlag, OpStaged, OpKernel, CancelAhead
<1>5. FrameInv'
  BY <1>a, <1>c, <1>e DEF FrameInv
<1>6. CoInv'
  BY <1>a, <1>c, <1>e DEF CoInv
<1>7. PauseInv'
  BY <1>a, <1>c, <1>e DEF PauseInv
<1> QED BY <1>1, <1>2, <1>3, <1>4, <1>5, <1>6, <1>7

\* The recv ends by itself.
LEMMA KFailStep == IInv /\ KFail => IInv'
<1> SUFFICES ASSUME IInv, KFail PROVE IInv'
  OBVIOUS
<1> USE DEF IInv, connVars, coVars, loopVars, kVars
<1>c. /\ cq' \in Seq(Cqes) /\ OnlyLastEnds(cq')
      /\ krecv' = 0
      /\ krecv > 0 => cq' # <<>> /\ Ended(cq')
      /\ krecv = 0 => cq' = cq
  BY RecvEnded DEF KFail
<1>e. UNCHANGED <<connVars, coVars, loopVars, sq>>
  BY DEF KFail
<1>1. TypeOK'
  BY <1>c, <1>e DEF TypeOK, Cqes
<1>2. OneRecvOp'
  BY <1>c, <1>e DEF TypeOK, OneRecvOp, OpStaged, OpKernel, OpEnded,
     RecvStates
<1>3. RefsCountOwners'
  BY <1>c, <1>e DEF RefsCountOwners
<1>4. CancelMatchesFlag'
  BY <1>c, <1>e DEF OneRecvOp, CancelMatchesFlag, OpStaged, OpKernel,
     OpEnded, CancelAhead
<1>5. FrameInv'
  BY <1>c, <1>e DEF FrameInv
<1>6. CoInv'
  BY <1>c, <1>e DEF CoInv
<1>7. PauseInv'
  BY <1>c, <1>e DEF PauseInv
<1> QED BY <1>1, <1>2, <1>3, <1>4, <1>5, <1>6, <1>7

-----------------------------------------------------------------------------
(* The theorems.                                                           *)

\* The pooled object of a worker that has just started.
LEMMA Initially == Init => IInv
<1> SUFFICES ASSUME Init PROVE IInv
  OBVIOUS
<1>1. /\ sq = <<>> /\ cq = <<>> /\ sq \in Seq(Sqes) /\ cq \in Seq(Cqes)
      /\ Len(sq) = 0 /\ Len(cq) = 0
  BY DEF Init
<1>2. /\ ~Has(sq, "recv") /\ ~CancelBehindRecv(sq) /\ OneRecv(sq)
      /\ OnlyLastEnds(cq) /\ ~Ended(cq)
  BY <1>1 DEF Has, CancelBehindRecv, OneRecv, OnlyLastEnds, Ended
<1>3. TypeOK
  <2>1. /\ pausing \in BOOLEAN /\ cancelling \in BOOLEAN /\ closed \in BOOLEAN
        /\ eof \in BOOLEAN /\ canceleach \in BOOLEAN
    BY Zenon DEF Init
  <2> QED
    BY <2>1, <1>1, ConnAssumption DEF Init, TypeOK, RecvStates
<1> QED
  BY <1>1, <1>2, <1>3
     DEF Init, IInv, OneRecvOp, RefsCountOwners, CancelMatchesFlag,
         FrameInv, CoInv, PauseInv, OpStaged, OpKernel, OpEnded, RecvStates

\* The invariant is inductive: one step of the worker, the coroutine or the
\* kernel preserves it.
LEMMA Inductive == IInv /\ [Next]_vars => IInv'
<1> SUFFICES ASSUME IInv, [Next]_vars PROVE IInv'
  OBVIOUS
<1>1. CASE Dispatch
  BY <1>1, OnNobufsStep, OnEndStep, OnDataStep DEF Dispatch
<1>2. CASE Tails
  BY <1>2, TailMoreStep, TailLastStep, TailUnrefStep DEF Tails
<1>3. CASE Coroutine
  BY <1>3, RecvItemStep, AwaitStep, PauseStep, PauseLoopStep, ResumeStep,
     CloseStep DEF Coroutine
<1>4. CASE Loop
  BY <1>4, AcceptStep, StartStep, ConnectStep, ConnectedStep, ResumedStep,
     RearmStarvedStep DEF Loop
<1>5. CASE Shutdown
  BY <1>5, BeginDrainStep, RecvDrainStep, EndSweepStep, DrainRefusedStep
     DEF Shutdown
<1>6. CASE Kernel
  BY <1>6, KRecvStep, KCloseStep, KCancelStep, KBlanketStep, KDataStep,
     KFailStep DEF Kernel, KSubmit
<1>7. CASE UNCHANGED vars
  BY <1>7 DEF vars, connVars, coVars, loopVars, kVars, IInv, TypeOK, OneRecvOp,
     RefsCountOwners, CancelMatchesFlag, FrameInv, CoInv, PauseInv, OpStaged,
     OpKernel, OpEnded, CancelAhead
<1> QED
  BY <1>1, <1>2, <1>3, <1>4, <1>5, <1>6, <1>7 DEF Next

\* The inductive invariant holds in every reachable state.
THEOREM Invariance == Spec => []IInv
<1>1. Init => IInv
  BY Initially
<1>2. IInv /\ [Next]_vars => IInv'
  BY Inductive
<1> QED
  BY <1>1, <1>2, PTL DEF Spec

\* Every field of the conn_t and of the rings keeps its type.
THEOREM TypeCorrect == Spec => []TypeOK
<1>1. IInv => TypeOK
  BY DEF IInv
<1> QED
  BY <1>1, Invariance, PTL

\* At most one multishot recv of a conn_t is anywhere in the rings, and one
\* exactly while c->recv says so: on_recv never meets a recycled conn_t.
THEOREM OneRecvAtATime == Spec => []OneRecvOp
<1>1. IInv => OneRecvOp
  BY DEF IInv
<1> QED
  BY <1>1, Invariance, PTL

\* c->refs counts the owners, and never falls to zero under on_recv.
THEOREM RefsAreOwners == Spec => []RefsCountOwners
<1>1. IInv => RefsCountOwners
  BY DEF IInv
<1> QED
  BY <1>1, Invariance, PTL

\* c->cancelling says whether a cancel is on its way to the live recv, so no
\* cancel of one socket reaches the recv of the next one.
THEOREM CancelFlagIsExact == Spec => []CancelMatchesFlag
<1>1. IInv => CancelMatchesFlag
  BY DEF IInv
<1> QED
  BY <1>1, Invariance, PTL

\* A closed connection never waits for its peer.
THEOREM ClosedNeverWaits == Spec => []ClosedRecvEnds
<1>1. IInv => ClosedRecvEnds
  <2> SUFFICES ASSUME IInv, closed, recv = "armed", frame = "none"
               PROVE  CancelAhead \/ OpEnded
    BY DEF ClosedRecvEnds
  <2>1. refs > 0
    BY DEF IInv, RefsCountOwners, TypeOK
  <2>2. co = "none" /\ phase # "nodelay"
    BY <2>1 DEF IInv, CoInv
  <2>3. OpStaged \/ OpKernel \/ OpEnded
    BY <2>2 DEF IInv, OneRecvOp
  <2>4. cancelling
    BY DEF IInv, PauseInv
  <2> QED
    BY <2>3, <2>4 DEF IInv, CancelMatchesFlag
<1> QED
  BY <1>1, Invariance, PTL

\* No wakeup is lost: a parked reader has nothing to read and a recv that can
\* still deliver, and a parked recv_pause has its cancel under way.
THEOREM ReadersAreWoken == Spec => []ParkedReaderIsWoken
<1>1. IInv => ParkedReaderIsWoken
  <2> SUFFICES ASSUME IInv, frame \in {"none", "more"}
               PROVE  /\ co = "recv" => /\ rx = 0 /\ ~eof
                                        /\ recv \in {"armed", "starved"}
                      /\ co = "pause" => /\ recv = "armed" /\ pausing
                                         /\ CancelAhead \/ OpEnded
    BY DEF ParkedReaderIsWoken
  <2>1. co = "recv" => rx = 0 /\ ~eof /\ recv \in {"armed", "starved"}
    BY DEF IInv, CoInv
  <2>2. ASSUME co = "pause"
        PROVE  recv = "armed" /\ pausing /\ (CancelAhead \/ OpEnded)
    <3>1. recv = "armed" /\ pausing /\ cancelling
      BY <2>2 DEF IInv, PauseInv
    <3>2. OpStaged \/ OpKernel \/ OpEnded
      BY <2>2, <3>1 DEF IInv, OneRecvOp, CoInv
    <3> QED
      BY <3>1, <3>2 DEF IInv, CancelMatchesFlag
  <2> QED
    BY <2>1, <2>2
<1> QED
  BY <1>1, Invariance, PTL

\* Within one incarnation what has ended stays ended.
THEOREM EndsAreFinal == Spec => EndIsFinal
<1> DEFINE Final == refs > 0 /\ refs' > 0 => /\ eof => eof'
                                             /\ closed => closed'
                                             /\ recv = "done" => recv' = "done"
<1>1. IInv /\ [Next]_vars => [Final]_vars
  <2> SUFFICES ASSUME IInv, Next, refs > 0, refs' > 0
               PROVE  /\ eof => eof'
                      /\ closed => closed'
                      /\ recv = "done" => recv' = "done"
    OBVIOUS
  <2> USE DEF connVars, coVars, loopVars, kVars, InLoop, Running
  <2>1. CASE Dispatch
    <3>1. recv = "armed"
      BY <2>1, Dispatched DEF IInv, Dispatch, OnNobufs, OnEnd, OnData
    <3>2. (eof => eof') /\ closed' = closed
      <4>1. CASE OnNobufs
        BY <4>1 DEF OnNobufs
      <4>2. CASE OnEnd
        BY <4>2 DEF OnEnd
      <4>3. CASE OnData
        BY <4>3 DEF OnData, Overflow
      <4> QED BY <2>1, <4>1, <4>2, <4>3 DEF Dispatch
    <3> QED BY <3>1, <3>2
  <2>2. CASE Tails
    <3>1. eof' = eof /\ closed' = closed
      BY <2>2 DEF Tails, TailMore, TailLast, TailUnref
    <3>2. recv = "done" => recv' = "done"
      BY <2>2 DEF Tails, TailMore, TailLast, TailUnref, IInv, FrameInv
    <3> QED BY <3>1, <3>2
  <2>3. CASE Coroutine
    <3>1. (eof => eof') /\ (closed => closed')
      <4>1. CASE Close
        BY <4>1 DEF Close
      <4>2. CASE Resume
        BY <4>2 DEF Resume
      <4>3. CASE RecvItem \/ Await \/ Pause \/ PauseLoop
        BY <4>3 DEF RecvItem, Await, Pause, PauseLoop
      <4> QED BY <2>3, <4>1, <4>2, <4>3 DEF Coroutine
    <3>2. recv = "done" => recv' = "done"
      BY <2>3 DEF Coroutine, RecvItem, Await, Pause, PauseLoop, PauseTail,
         Resume, Close, CloseArmed
    <3> QED BY <3>1, <3>2
  <2>4. CASE Loop
    BY <2>4 DEF Loop, Accept, Start, Connect, Connected, Resumed, RearmStarved,
       ConnNew, ArmRecv, IInv, CoInv
  <2>5. CASE Shutdown
    BY <2>5 DEF Shutdown, BeginDrain, RecvDrain, EndSweep, DrainRefused
  <2>6. CASE Kernel
    <3>1. UNCHANGED connVars
      BY <2>6 DEF Kernel, KSubmit, KRecv, KClose, KCancel, KBlanket, KData,
         KFail, KTake
    <3> QED BY <3>1
  <2> QED
    BY <2>1, <2>2, <2>3, <2>4, <2>5, <2>6 DEF Next
<1> QED
  BY <1>1, Invariance, PTL DEF Spec, EndIsFinal
=============================================================================
