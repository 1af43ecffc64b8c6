-------------------------------- MODULE Conn --------------------------------
(***************************************************************************)
(* One conn_t of a worker (lib/io/conn.c), over all its incarnations: it   *)
(* is taken from the pool for an accepted or connected socket, owned by a  *)
(* handler coroutine and by a multishot recv, closed by the handler, and   *)
(* recycled when both owners have let go - while completions and cancels   *)
(* of the recv are still travelling through the rings.                     *)
(*                                                                         *)
(* The worker is one thread.  A step is what runs between two points where *)
(* another actor can move: the coroutine up to its next await, the loop    *)
(* up to the resume of a coroutine and from its return on (frame), and the *)
(* kernel, which may take SQEs and post CQEs between any two of them.      *)
(* c->waiter is non-null exactly while the coroutine is parked in          *)
(* recv_item or recv_pause (it is set right before the yield and cleared   *)
(* right before the resume), so co stands for it; c->err is abstracted.    *)
(***************************************************************************)
EXTENDS Naturals, Sequences

CONSTANTS
    RxQueue,     \* capacity of c->rx (RX_QUEUE)
    MaxCqes,     \* bound: recv CQEs the kernel has posted and the loop not seen
    CancelAny    \* whether the kernel knows IORING_ASYNC_CANCEL_ANY

ASSUME ConnAssumption ==
    /\ RxQueue \in Nat \ {0}
    /\ MaxCqes \in Nat \ {0}
    /\ CancelAny \in BOOLEAN

VARIABLES
    refs,        \* c->refs; 0 while the object is in the pool
    recv,        \* c->recv, an enum recv_state
    pausing,     \* c->pausing
    cancelling,  \* c->cancelling
    closed,      \* c->closed
    eof,         \* c->eof
    rx,          \* number of buffers queued in c->rx
    co,          \* where the owning coroutine is
    phase,       \* which part of its life the coroutine is in
    frame,       \* what ioxd__conn_on_recv still has to do after wake_reader
    drain,       \* p->draining, and "sweep" while begin_drain ends starved recvs
    canceleach,  \* p->cancel_each
    sq,          \* the SQEs of this connection, in staging order
    krecv,       \* multishot recvs of this connection live in the kernel
    cq           \* its recv CQEs, not dispatched yet

connVars == <<refs, recv, pausing, cancelling, closed, eof, rx>>
coVars   == <<co, phase>>
loopVars == <<frame, drain, canceleach>>
kVars    == <<krecv, cq>>
vars     == <<connVars, coVars, loopVars, sq, kVars>>

RecvStates == {"armed", "starved", "paused", "done"}
Sqes       == {"recv", "cancel", "close", "blanket"}
\* data: bytes in a buffer; nobuf: bytes but no buffer named; enobufs;
\* fin: FIN or an error; cancelled: -ECANCELED.  Only bytes come with F_MORE.
Cqes       == [k: {"data", "nobuf"}, more: BOOLEAN]
              \cup [k: {"enobufs", "fin", "cancelled"}, more: {FALSE}]
Cqe(k, m)  == [k |-> k, more |-> m]

\* The coroutine owns the thread: nothing else of the worker runs.
Running == co \in {"run", "run_recv", "run_pause"}
\* The thread is in the event loop, outside on_recv and begin_drain.
InLoop  == ~Running /\ frame = "none" /\ drain # "sweep"

\* Facts about the rings' contents, named for the code and the properties.
Has(q, e)    == \E i \in 1..Len(q) : q[i] = e
OneRecv(q)   == \A i, j \in 1..Len(q) : q[i] = "recv" /\ q[j] = "recv" => i = j
CancelBehindRecv(q) ==
    \E i, j \in 1..Len(q) : i < j /\ q[i] = "recv" /\ q[j] = "cancel"
\* The multishot's CQEs: all but the last one carry IORING_CQE_F_MORE ...
OnlyLastEnds(q) == \A i \in 1..Len(q) : i < Len(q) => q[i].more
\* ... and the last one is terminal.
Ended(q)        == q # <<>> /\ ~q[Len(q)].more

\* TypeOK.  The fields of a conn_t and the entries of the rings are what the
\* code knows; the rx queue never holds more than RX_QUEUE entries, whatever on_recv
\* is given while nobody reads.
TypeOK ==
    /\ refs \in 0..2
    /\ recv \in RecvStates
    /\ pausing \in BOOLEAN /\ cancelling \in BOOLEAN
    /\ closed \in BOOLEAN /\ eof \in BOOLEAN
    /\ rx \in 0..RxQueue
    /\ co \in {"none", "ready", "run", "run_recv", "run_pause",
               "recv", "pause", "parked"}
    /\ phase \in {"hs", "serve", "fail", "nodelay"}
    /\ frame \in {"none", "more", "last", "unref"}
    /\ drain \in {"off", "sweep", "on"}
    /\ canceleach \in BOOLEAN
    /\ sq \in Seq(Sqes)
    /\ krecv \in 0..1
    /\ cq \in Seq(Cqes)

\* The worker has started and the object is in the pool.
Init ==
    /\ refs = 0 /\ recv = "done" /\ pausing = FALSE /\ cancelling = FALSE
    /\ closed = FALSE /\ eof = FALSE /\ rx = 0
    /\ co = "none" /\ phase = "serve"
    /\ frame = "none" /\ drain = "off" /\ canceleach = FALSE
    /\ sq = <<>> /\ krecv = 0 /\ cq = <<>>

-----------------------------------------------------------------------------
(* Helpers of conn.c.  Each fixes the next value of the fields it names.   *)

\* Mutant of CancelRecv: the flag is set and the SQE is not staged.
CancelRecvFlagOnly == cancelling' = TRUE /\ sq' = sq

\* cancel_recv: at most one cancel in flight.
CancelRecv ==
    /\ cancelling' = TRUE
    /\ sq' = IF cancelling THEN sq ELSE Append(sq, "cancel")

NoCancel == UNCHANGED <<cancelling, sq>>

\* Mutants of ArmRecv: c->recv is not updated; c->cancelling is not cleared.
ArmRecvSilent ==
    /\ sq' = Append(sq, "recv") /\ recv' = recv /\ cancelling' = FALSE
ArmRecvKeepsCancel ==
    /\ sq' = Append(sq, "recv") /\ recv' = "armed" /\ cancelling' = cancelling

\* ioxd__conn_arm_recv: stage the multishot recv, with no cancel in flight.
ArmRecv ==
    /\ sq' = Append(sq, "recv")
    /\ recv' = "armed"
    /\ cancelling' = FALSE

\* wake_reader: a parked reader runs before the caller goes on.
WakeReader ==
    co' = CASE co = "recv"  -> "run_recv"
            [] co = "pause" -> "run_pause"
            [] OTHER        -> co

\* ioxd__conn_new: two owners, the coroutine and the recv.
ConnNew ==
    /\ refs = 0
    /\ refs' = 2
    /\ recv' = "armed"
    /\ pausing' = FALSE /\ cancelling' = FALSE
    /\ closed' = FALSE /\ eof' = FALSE
    /\ rx' = 0

-----------------------------------------------------------------------------
(* Birth: an accept CQE, or ioxd_connect by a handler of this worker.      *)

\* on_accept: a port with certificates starts with the TLS prologue.
Accept ==
    /\ InLoop /\ drain = "off"
    /\ ConnNew
    /\ sq' = Append(sq, "recv")
    /\ co' = "ready"
    /\ phase' \in {"hs", "serve"}
    /\ UNCHANGED <<loopVars, kVars>>

\* run_ready: the loop starts the spawned coroutine.
Start ==
    /\ InLoop /\ co = "ready"
    /\ co' = "run"
    /\ UNCHANGED <<connVars, phase, loopVars, sq, kVars>>

\* ioxd__socket_connect once connected: conn_new says ARMED, but the recv is
\* staged only after the setsockopt the caller awaits.
Connect ==
    /\ InLoop
    /\ ConnNew
    /\ co' = "parked"
    /\ phase' = "nodelay"
    /\ UNCHANGED <<loopVars, sq, kVars>>

\* Its last part: the setsockopt completed, whatever it returned.
Connected ==
    /\ ~Running /\ frame = "none"
    /\ co = "parked" /\ phase = "nodelay"
    /\ co' = "run"
    /\ phase' = "serve"
    /\ ArmRecv
    /\ UNCHANGED <<refs, pausing, closed, eof, rx, loopVars, kVars>>

-----------------------------------------------------------------------------
(* The coroutine.                                                          *)

\* ioxd__conn_recv_item.  While the recv is paused only the TLS prologue
\* reads, through pipereader_avail, which asks for queued items alone.
RecvItem ==
    /\ \/ co = "run_recv"
       \/ /\ co = "run" /\ phase # "fail"
          /\ recv = "paused" => rx > 0
    /\ \/ /\ rx > 0
          /\ rx' = rx - 1
          /\ co' = "run"
       \/ /\ rx = 0
          /\ rx' = rx
          /\ co' = IF eof THEN "run" ELSE "recv"
    /\ UNCHANGED <<refs, recv, pausing, cancelling, closed, eof, phase,
                   loopVars, sq, kVars>>

\* Any other await: a send, recv_exact, setsockopt, a timer, another
\* connection of the same handler.
Await ==
    /\ co = "run"
    /\ co' = "parked"
    /\ UNCHANGED <<connVars, phase, loopVars, sq, kVars>>

\* ... and its completion (dispatch, TAG_OP; or the other connection's wake).
Resumed ==
    /\ ~Running /\ frame = "none"
    /\ co = "parked" /\ phase # "nodelay"
    /\ co' = "run"
    /\ UNCHANGED <<connVars, phase, loopVars, sq, kVars>>

\* The tail of recv_pause, once the recv is not armed any more.
PauseTail(r) ==
    /\ recv' = IF r = "starved" THEN "paused" ELSE r
    /\ phase' = IF eof \/ recv' # "paused" THEN "fail" ELSE "hs"
    /\ co' = "run"

\* ioxd__conn_recv_pause, called by the TLS prologue after the handshake.
Pause ==
    /\ co = "run" /\ phase = "hs" /\ recv # "paused"
    /\ \/ /\ recv = "armed"
          /\ pausing' = TRUE
          /\ CancelRecv
          /\ co' = "pause"
          /\ UNCHANGED <<recv, phase>>
       \/ /\ recv # "armed"
          /\ PauseTail(recv)
          /\ NoCancel
          /\ UNCHANGED pausing
    /\ UNCHANGED <<refs, closed, eof, rx, loopVars, kVars>>

\* Its loop: woken, by data or by the end of the recv.
PauseLoop ==
    /\ co = "run_pause"
    /\ \/ /\ recv = "armed"
          /\ co' = "pause"
          /\ UNCHANGED <<recv, pausing, phase>>
       \/ /\ recv # "armed"
          /\ pausing' = FALSE
          /\ PauseTail(recv)
    /\ NoCancel
    /\ UNCHANGED <<refs, closed, eof, rx, loopVars, kVars>>

\* ioxd__conn_recv_resume, at the end of the prologue.
Resume ==
    /\ co = "run" /\ phase = "hs" /\ recv = "paused"
    /\ \/ /\ drain = "off"
          /\ ArmRecv
          /\ phase' = "serve"
          /\ UNCHANGED <<refs, eof>>
       \/ /\ drain # "off"
          /\ eof' = TRUE
          /\ recv' = "done"
          /\ refs' = refs - 1
          /\ phase' = "fail"
          /\ NoCancel
    /\ UNCHANGED <<pausing, closed, rx, co, loopVars, kVars>>

\* Mutant of CloseArmed: the recv is left to end by itself.
CloseArmedNoCancel ==
    /\ recv = "armed"
    /\ sq' = Append(sq, "close")
    /\ refs' = refs - 1
    /\ UNCHANGED <<recv, cancelling>>

\* conn_close with the recv armed: its cancel goes ahead of the close.
CloseArmed ==
    /\ recv = "armed"
    /\ cancelling' = TRUE
    /\ sq' = IF cancelling THEN Append(sq, "close")
                           ELSE Append(Append(sq, "cancel"), "close")
    /\ refs' = refs - 1
    /\ UNCHANGED recv

\* ioxd__conn_close: the handler returned, or ioxd_disconnect.  The kernel
\* may run while it stages (a full SQ is flushed), which changes nothing it
\* reads, so it is one step.
Close ==
    /\ co = "run"
    /\ closed' = TRUE
    /\ co' = "none"
    /\ rx' = 0
    /\ \/ CloseArmed
       \/ /\ recv \in {"starved", "paused"}
          /\ recv' = "done"
          /\ refs' = refs - 2
          /\ sq' = Append(sq, "close")
          /\ UNCHANGED cancelling
       \/ /\ recv = "done"
          /\ refs' = refs - 1
          /\ sq' = Append(sq, "close")
          /\ UNCHANGED <<recv, cancelling>>
    /\ UNCHANGED <<pausing, eof, phase, loopVars, kVars>>

-----------------------------------------------------------------------------
(* The loop: ioxd__conn_on_recv, up to wake_reader and from there on.      *)

\* The dispatch of this connection's oldest CQE.
Take(ks) ==
    /\ InLoop
    /\ cq # <<>> /\ Head(cq).k \in ks
    /\ cq' = Tail(cq)
    /\ UNCHANGED krecv

\* Clearing of the cancel on a terminal CQE, at the top of on_recv.
Still == cancelling /\ Head(cq).more

\* result == -ENOBUFS
OnNobufs ==
    /\ Take({"enobufs"})
    /\ cancelling' = Still
    /\ \/ /\ closed
          /\ recv' = "done" /\ frame' = "unref"
          /\ UNCHANGED <<pausing, co>>
       \/ /\ ~closed /\ pausing
          /\ pausing' = FALSE /\ recv' = "paused"
          /\ WakeReader
          /\ UNCHANGED frame
       \/ /\ ~closed /\ ~pausing /\ eof
          /\ recv' = "done" /\ frame' = "unref"
          /\ WakeReader
          /\ UNCHANGED pausing
       \/ /\ ~closed /\ ~pausing /\ ~eof
          /\ recv' = "starved"
          /\ UNCHANGED <<pausing, co, frame>>
    /\ UNCHANGED <<refs, closed, eof, rx, phase, drain, canceleach, sq>>

\* result <= 0: the pause asked for, or the end of the input.
OnEnd ==
    /\ Take({"fin", "cancelled"})
    /\ cancelling' = Still
    /\ WakeReader
    /\ \/ /\ pausing /\ ~closed /\ Head(cq).k = "cancelled"
          /\ pausing' = FALSE /\ recv' = "paused"
          /\ UNCHANGED <<eof, frame>>
       \/ /\ ~(pausing /\ ~closed /\ Head(cq).k = "cancelled")
          /\ eof' = TRUE
          /\ recv' = "done" /\ frame' = "unref"
          /\ UNCHANGED pausing
    /\ UNCHANGED <<refs, closed, rx, phase, drain, canceleach, sq>>

RxFull == rx = RxQueue

\* Mutant of Overflow: the input ends and nobody is told.
OverflowSilent ==
    /\ eof' = TRUE
    /\ UNCHANGED co
    /\ IF Head(cq).more THEN CancelRecv ELSE cancelling' = FALSE /\ sq' = sq
    /\ UNCHANGED rx

\* Bytes that cannot be queued end the input, and the recv if it goes on.
Overflow ==
    /\ eof' = TRUE
    /\ WakeReader
    /\ IF Head(cq).more THEN CancelRecv ELSE cancelling' = FALSE /\ sq' = sq
    /\ UNCHANGED rx

\* result > 0
OnData ==
    /\ Take({"data", "nobuf"})
    /\ \/ Head(cq).k = "nobuf" /\ Overflow
       \/ /\ Head(cq).k = "data" /\ closed          \* the buffer goes back
          /\ cancelling' = Still
          /\ UNCHANGED <<eof, rx, co, sq>>
       \/ Head(cq).k = "data" /\ ~closed /\ RxFull /\ Overflow
       \/ /\ Head(cq).k = "data" /\ ~closed /\ ~RxFull
          /\ rx' = rx + 1
          /\ WakeReader
          /\ cancelling' = Still
          /\ UNCHANGED <<eof, sq>>
    /\ frame' = IF Head(cq).more THEN "more" ELSE "last"
    /\ UNCHANGED <<refs, recv, pausing, closed, phase, drain, canceleach>>

\* The rest of on_recv after data.  Here the coroutine has yielded, and may
\* have read, paused or closed the connection.
TailMore ==
    /\ ~Running /\ frame = "more"
    /\ IF canceleach /\ ~closed THEN CancelRecv ELSE NoCancel
    /\ frame' = "none"
    /\ UNCHANGED <<refs, recv, pausing, closed, eof, rx, coVars,
                   drain, canceleach, kVars>>

TailLast ==
    /\ ~Running /\ frame = "last"
    /\ \/ /\ pausing /\ ~closed
          /\ pausing' = FALSE /\ recv' = "paused"
          /\ WakeReader
          /\ NoCancel
          /\ UNCHANGED refs
       \/ /\ ~pausing /\ ~closed /\ ~eof
          /\ ArmRecv
          /\ UNCHANGED <<refs, pausing, co>>
       \/ /\ closed \/ (~pausing /\ eof)
          /\ recv' = "done"
          /\ refs' = refs - 1
          /\ NoCancel
          /\ UNCHANGED <<pausing, co>>
    /\ frame' = "none"
    /\ UNCHANGED <<closed, eof, rx, phase, drain, canceleach, kVars>>

\* conn_unref of the recv's reference, after the wake.
TailUnref ==
    /\ ~Running /\ frame = "unref"
    /\ refs' = refs - 1
    /\ frame' = "none"
    /\ UNCHANGED <<recv, pausing, cancelling, closed, eof, rx, coVars,
                   drain, canceleach, sq, kVars>>

\* Mutant of RearmStarved: p->starved still lists a connection that closed.
RearmStarvedStale ==
    /\ InLoop /\ recv \in {"starved", "done"} /\ (recv = "done" => closed)
    /\ ArmRecv
    /\ UNCHANGED <<refs, pausing, closed, eof, rx, coVars, loopVars, kVars>>

\* rearm_starved, for this connection.
RearmStarved ==
    /\ InLoop /\ recv = "starved"
    /\ ArmRecv
    /\ UNCHANGED <<refs, pausing, closed, eof, rx, coVars, loopVars, kVars>>

-----------------------------------------------------------------------------
(* Shutdown: begin_drain.                                                  *)

\* The blanket cancel is staged, then the starved recvs are ended by hand.
BeginDrain ==
    /\ InLoop /\ drain = "off"
    /\ drain' = "sweep"
    /\ sq' = Append(sq, "blanket")
    /\ UNCHANGED <<connVars, coVars, frame, canceleach, kVars>>

\* ioxd__conn_recv_drain.
RecvDrain ==
    /\ ~Running /\ frame = "none" /\ drain = "sweep"
    /\ recv = "starved"
    /\ eof' = TRUE
    /\ recv' = "done"
    /\ WakeReader
    /\ frame' = "unref"
    /\ UNCHANGED <<refs, pausing, cancelling, closed, rx, phase, drain,
                   canceleach, sq, kVars>>

EndSweep ==
    /\ ~Running /\ frame = "none" /\ drain = "sweep"
    /\ recv # "starved"
    /\ drain' = "on"
    /\ UNCHANGED <<connVars, coVars, frame, canceleach, sq, kVars>>

\* dispatch, TAG_DRAIN: the kernel took the blanket cancel and refused it.
DrainRefused ==
    /\ InLoop /\ drain = "on" /\ ~CancelAny
    /\ ~Has(sq, "blanket") /\ ~canceleach
    /\ canceleach' = TRUE
    /\ UNCHANGED <<connVars, coVars, frame, drain, sq, kVars>>

-----------------------------------------------------------------------------
(* The kernel (io_uring), as far as the code relies on it: SQEs are taken  *)
(* in order; a cancel ends the recv it finds with -ECANCELED and is a      *)
(* no-op when it finds none; a multishot recv posts CQEs until one comes   *)
(* without IORING_CQE_F_MORE.  MaxCqes bounds what it posts on its own.    *)

KTake(s) ==
    /\ sq # <<>> /\ Head(sq) = s
    /\ sq' = Tail(sq)
    /\ UNCHANGED <<connVars, coVars, loopVars>>

\* The multishot recv is armed, or ends at once on an empty buffer ring.
KRecv ==
    /\ KTake("recv")
    /\ \/ krecv' = krecv + 1 /\ UNCHANGED cq
       \/ cq' = Append(cq, Cqe("enobufs", FALSE)) /\ UNCHANGED krecv

KClose == KTake("close") /\ UNCHANGED kVars

KEnd(k) ==
    IF krecv > 0 THEN krecv' = krecv - 1 /\ cq' = Append(cq, Cqe(k, FALSE))
                 ELSE UNCHANGED kVars

KCancel == KTake("cancel") /\ KEnd("cancelled")

KBlanket ==
    /\ KTake("blanket")
    /\ IF CancelAny THEN KEnd("cancelled") ELSE UNCHANGED kVars

KSubmit == KRecv \/ KClose \/ KCancel \/ KBlanket

\* Bytes arrived; the multishot goes on, or ends with them (a CQE the kernel
\* could not post as an intermediate one).
KData ==
    /\ krecv > 0 /\ Len(cq) < MaxCqes
    /\ \E k \in {"data", "nobuf"} :
          \/ cq' = Append(cq, Cqe(k, TRUE)) /\ UNCHANGED krecv
          \/ KEnd(k)
    /\ UNCHANGED <<connVars, coVars, loopVars, sq>>

\* The buffer ring is empty, the peer closed, or the socket failed.
KFail ==
    /\ krecv > 0 /\ Len(cq) < MaxCqes
    /\ \E k \in {"enobufs", "fin"} : KEnd(k)
    /\ UNCHANGED <<connVars, coVars, loopVars, sq>>

-----------------------------------------------------------------------------
Dispatch  == OnNobufs \/ OnEnd \/ OnData
Tails     == TailMore \/ TailLast \/ TailUnref
Coroutine == RecvItem \/ Await \/ Pause \/ PauseLoop \/ Resume \/ Close
Loop      == Accept \/ Start \/ Connect \/ Connected \/ Resumed \/ RearmStarved
Shutdown  == BeginDrain \/ RecvDrain \/ EndSweep \/ DrainRefused
Kernel    == KSubmit \/ KData \/ KFail

Next == Dispatch \/ Tails \/ Coroutine \/ Loop \/ Shutdown \/ Kernel

Spec == Init /\ [][Next]_vars

(* The loop never stops entering the kernel and dispatching what it finds, *)
(* finishes what it began, and a woken coroutine runs at once.  Nothing is *)
(* assumed of peers, of handlers or of the return of buffers.              *)
Fairness ==
    /\ WF_vars(Dispatch) /\ WF_vars(Tails) /\ WF_vars(KSubmit)
    /\ WF_vars(PauseLoop)
    /\ WF_vars(co = "run_recv" /\ RecvItem)
    /\ WF_vars(RecvDrain) /\ WF_vars(EndSweep)

FairSpec == Spec /\ Fairness
-----------------------------------------------------------------------------
(* Safety.                                                                 *)

\* Where the one multishot recv of an incarnation can be.
OpStaged == Has(sq, "recv")
OpKernel == krecv > 0
OpEnded  == Ended(cq)

\* OneRecvOp.  The connection has exactly one multishot recv on its way
\* through the rings - staged, in the kernel, or with its terminal CQE still
\* undispatched - when c->recv says RECV_ARMED, and none otherwise; and only
\* then are there CQEs to dispatch.  So on_recv (conn.c:156) never runs for
\* a conn_t that was recycled, re-armed or closed since its CQE was posted.
OneRecvOp ==
    /\ OneRecv(sq) /\ krecv <= 1 /\ OnlyLastEnds(cq)
    /\ ~(OpStaged /\ OpKernel) /\ ~(OpStaged /\ cq # <<>>)
    /\ ~(OpKernel /\ OpEnded)
    /\ (OpStaged \/ OpKernel \/ OpEnded)
         <=> (recv = "armed" /\ frame # "last" /\ phase # "nodelay")
    /\ cq # <<>> => OpKernel \/ OpEnded

\* RefsCountOwners.  c->refs is the number of owners that still hold the
\* object: the coroutine, from conn_new to the end of conn_close, and the
\* recv, until RECV_DONE and the conn_unref that follows the wake.  So the
\* object is recycled exactly when both have let go, and never while on_recv
\* still has to touch it (conn.c:227-240).
RefsCountOwners ==
    /\ refs = (IF co = "none" THEN 0 ELSE 1)
            + (IF recv = "done" /\ frame # "unref" THEN 0 ELSE 1)
    /\ frame # "none" => refs > 0

\* A cancel is staged behind the live recv, that is, one that will hit it.
CancelAhead == (OpKernel /\ Has(sq, "cancel")) \/ CancelBehindRecv(sq)

\* CancelMatchesFlag.  While the recv runs, c->cancelling is set exactly when
\* a cancel is on its way to it, and then for a reason: the handler closed,
\* a pause was asked for, or the input was ended.  A flag left over would
\* make cancel_recv (conn.c:24) skip the cancel that close or pause waits
\* for; a cancel left over would hit the recv of the next socket.
CancelMatchesFlag ==
    (OpStaged \/ OpKernel) /\ recv = "armed" =>
        /\ cancelling <=> CancelAhead
        /\ cancelling => closed \/ pausing \/ eof \/ canceleach

\* ClosedRecvEnds.  A closed connection still waiting for its recv has the
\* cancel under way or the terminal CQE posted: it never waits on the peer.
ClosedRecvEnds ==
    closed /\ recv = "armed" /\ frame = "none" => CancelAhead \/ OpEnded

\* ParkedReaderIsWoken.  A coroutine parked in recv_item with the loop out of
\* on_recv has nothing queued, no end to report, and a recv that can still
\* deliver one or the other; one parked in recv_pause waits for an armed recv
\* whose cancel is under way or whose terminal CQE is posted.
ParkedReaderIsWoken ==
    frame \in {"none", "more"} =>
        /\ co = "recv" => rx = 0 /\ ~eof /\ recv \in {"armed", "starved"}
        /\ co = "pause" => /\ recv = "armed" /\ pausing
                           /\ CancelAhead \/ OpEnded

-----------------------------------------------------------------------------
(* Steps and liveness.                                                     *)

\* EndIsFinal.  Within one incarnation an ended input stays ended and a recv
\* that posted its terminal CQE for good (RECV_DONE) is not armed again.
EndIsFinal ==
    [][refs > 0 /\ refs' > 0 => /\ eof => eof'
                                /\ closed => closed'
                                /\ recv = "done" => recv' = "done"]_vars

\* ClosedIsRecycled.  A connection whose handler is gone goes back to the
\* pool, whatever its peer does.
ClosedIsRecycled == closed /\ refs > 0 ~> refs = 0

\* PauseCompletes.  recv_pause returns, whatever the peer does.
PauseCompletes == co = "pause" ~> co = "run"
=============================================================================
