------------------------------- MODULE Worker -------------------------------
(***************************************************************************)
(* One worker thread (lib/io/proactor.c): its loop, its listener, the      *)
(* provided buffer ring its recvs deliver into (lib/io/bufring.c) and the  *)
(* connections it serves (lib/io/conn.c), sharing one SQ and one CQ.       *)
(*                                                                         *)
(* The thread is at one place of the loop (pc).  A coroutine it resumes    *)
(* runs to its next await before the loop goes on; what on_recv still has  *)
(* to do after such a resume is in frame.  The ring is DEFER_TASKRUN: the  *)
(* kernel moves only while the thread is inside io_uring_enter, once per   *)
(* iteration (pc = "enter") and when a full SQ is flushed mid-batch        *)
(* (flushing).  Each connection of this module behaves as module Conn      *)
(* says (Connections, below).                                              *)
(***************************************************************************)
EXTENDS Naturals, Sequences, FiniteSets, SequencesExt

CONSTANTS
    Conns,       \* conn_t objects
    Buffers,     \* the provided buffers
    RxQueue,     \* RX_QUEUE
    MaxHeld,     \* bound: buffers one handler's pipe reader keeps at a time
    MaxCqes,     \* bound: undispatched CQEs the kernel posts on its own
    Setups       \* the workers looked at, each a Setup

(* What a worker is set up with and runs on, fixed for its life.           *)
(*   buffers: the ring it registers (cfg.recv_buffers)                     *)
(*   slots: p->file_slots, 0 when there is no file table                   *)
(*   conns: bound: the conn_t objects, as many as are open at one time     *)
(*   tls: whether the port has certificates                                *)
(*   any: whether the kernel knows IORING_ASYNC_CANCEL_ANY                 *)
(*   hiccups: whether enters may be partial and the SQ may fill mid-batch  *)
Setup == [buffers: SUBSET Buffers, slots: Nat, conns: SUBSET Conns,
          tls: BOOLEAN, any: BOOLEAN, hiccups: BOOLEAN]

\* A null pointer, and an SQE or a CQE that names no connection or buffer.
None == "none"

ASSUME WorkerAssumption ==
    /\ IsFiniteSet(Conns) /\ IsFiniteSet(Buffers)
    /\ None \notin Conns \cup Buffers
    /\ RxQueue \in Nat \ {0} /\ MaxHeld \in Nat \ {0}
    /\ MaxCqes \in Nat \ {0} /\ Setups \subseteq Setup

VARIABLES
    cfg,         \* the worker's Setup
    conn,        \* each conn_t, with its coroutine: see Fresh
    frame,       \* the on_recv suspended in wake_reader: its conn and its rest
    pc,          \* where the loop is
    flushing,    \* the thread is in the enter of ioxd__proactor_sqe
    stop,        \* *p->stop
    late,        \* now_ms() >= deadline, once draining
    draining,    \* p->draining
    canceleach,  \* p->cancel_each
    live,        \* p->live
    ready,       \* spawned coroutines, p->ready_head ... ready_tail
    starved,     \* p->starved, the first p->nstarved of it
    returned,    \* p->bufs.returned, saturated at the number of connections
    staged,      \* buffers returned to the ring, tail not published yet
    listener,    \* l->stalled and l->stalled_live
    sq,          \* staged SQEs
    cq, batch,   \* undispatched CQEs; how many of them this batch still takes
    kfree,       \* buffers the kernel may pick
    krecv, kop,  \* connections with a recv, with a one-shot op, in the kernel
    kaccept,     \* the multishot accept is in the kernel
    kslots       \* sockets open in the kernel's table

loopVars == <<pc, flushing, stop, late, draining, canceleach>>
bufVars  == <<returned, staged, kfree>>
kVars    == <<krecv, kop, kaccept, kslots>>
vars     == <<conn, frame, loopVars, live, ready, starved, bufVars, listener,
              sq, cq, batch, kVars>>
allVars  == <<cfg, vars>>

NoFrame  == [c |-> None, k |-> "none"]
Sqe(op, c) == [op |-> op, c |-> c]
\* t: the tag in user_data; k: what the result says; b: the buffer, or None
Cqe(t, c, k, more, b) == [t |-> t, c |-> c, k |-> k, more |-> more, b |-> b]

Open      == {c \in Conns : conn[c].refs > 0}
Runs(c)   == conn[c].co \in {"run", "run_recv", "run_pause"} /\ ~flushing
\* The loop itself moves: no coroutine runs and on_recv is not suspended.
LoopAt(p) == /\ pc = p /\ ~flushing /\ frame = NoFrame
             /\ \A c \in Conns : ~Runs(c)
InKernel  == pc = "enter" \/ flushing

Fresh == [refs |-> 0, recv |-> "done", pausing |-> FALSE, cancelling |-> FALSE,
          closed |-> FALSE, eof |-> FALSE, rx |-> <<>>, held |-> {},
          co |-> "none", phase |-> "serve"]

\* The worker is set up: its accept is staged, every buffer is in the ring.
Init ==
    /\ cfg \in Setups
    /\ conn = [c \in Conns |-> Fresh]
    /\ frame = NoFrame /\ pc = "top" /\ flushing = FALSE
    /\ stop = FALSE /\ late = FALSE /\ draining = FALSE /\ canceleach = FALSE
    /\ live = 0 /\ ready = <<>> /\ starved = <<>>
    /\ returned = 0 /\ staged = {} /\ kfree = cfg.buffers
    /\ listener = [stalled |-> FALSE, at |-> 0]
    /\ sq = <<Sqe("accept", None)>> /\ cq = <<>> /\ batch = 0
    /\ krecv = {} /\ kop = {} /\ kaccept = FALSE /\ kslots = 0

-----------------------------------------------------------------------------
(* conn.c and bufring.c, as functions of a connection's record.            *)

Arm(x)      == [x EXCEPT !.recv = "armed", !.cancelling = FALSE]
Unref(x, n) == [x EXCEPT !.refs = @ - n]
Wake(x)     == [x EXCEPT !.co = CASE @ = "recv"  -> "run_recv"
                                  [] @ = "pause" -> "run_pause"
                                  [] OTHER       -> @]

\* cancel_recv: what it stages, then what it leaves.
CancelSqe(c, x) == IF x.cancelling THEN <<>> ELSE <<Sqe("cancel", c)>>
Cancel(x)       == [x EXCEPT !.cancelling = TRUE]

\* Mutant of Put: the live count falls with the first reference.
PutEarly(c, x) ==
    /\ conn' = [conn EXCEPT ![c] = x]
    /\ live' = IF conn[c].refs = 2 /\ x.refs < 2 THEN live - 1 ELSE live

\* c's record becomes x.  conn_unref at zero: one connection fewer.
Put(c, x) ==
    /\ conn' = [conn EXCEPT ![c] = x]
    /\ live' = IF conn[c].refs > 0 /\ x.refs = 0 THEN live - 1 ELSE live

\* ioxd__bufring_return of a set of buffers.
Return(bs) ==
    /\ staged' = staged \cup bs
    /\ LET n == returned + Cardinality(bs)  most == Cardinality(cfg.conns) IN
       returned' = IF n < most THEN n ELSE most
    /\ UNCHANGED kfree

\* ioxd__bufring_publish
Publish == kfree' = kfree \cup staged /\ staged' = {}

-----------------------------------------------------------------------------
(* Coroutines.                                                             *)

\* ioxd__conn_recv_item, called by the pipe reader.
RecvItem(c) ==
    LET x == conn[c] IN
    /\ Runs(c)
    /\ \/ x.co = "run_recv"
       \/ /\ x.co = "run" /\ x.phase # "fail"
          /\ Cardinality(x.held) < MaxHeld
          /\ x.recv = "paused" => x.rx # <<>>
    /\ \/ /\ x.rx # <<>>
          /\ Put(c, [x EXCEPT !.rx = Tail(@), !.co = "run",
                              !.held = @ \cup {Head(x.rx)}])
       \/ /\ x.rx = <<>>
          /\ Put(c, [x EXCEPT !.co = IF x.eof THEN "run" ELSE "recv"])
    /\ UNCHANGED <<frame, loopVars, ready, starved, bufVars, listener, sq, cq,
                   batch, kVars>>

\* The pipe reader is done with a buffer (cur_done, release, refuse, more).
GiveBack(c) ==
    /\ Runs(c) /\ conn[c].co = "run"
    /\ \E b \in conn[c].held :
          /\ Put(c, [conn[c] EXCEPT !.held = @ \ {b}])
          /\ Return({b})
    /\ UNCHANGED <<frame, loopVars, ready, starved, listener, sq, cq, batch,
                   kVars>>

\* ioxd__io_await: a one-shot op of the coroutine (a send, a setsockopt).
Await(c) ==
    /\ Runs(c) /\ conn[c].co = "run"
    /\ Put(c, [conn[c] EXCEPT !.co = "parked"])
    /\ sq' = Append(sq, Sqe("op", c))
    /\ UNCHANGED <<frame, loopVars, ready, starved, bufVars, listener, cq,
                   batch, kVars>>

\* Mutant of Unlist: the entry stays.
UnlistNot(c) == UNCHANGED starved

\* starved_remove, when the connection is in the list.
Unlist(c) ==
    starved' = IF conn[c].recv = "starved"
               THEN RemoveAt(starved, CHOOSE i \in DOMAIN starved : starved[i] = c)
               ELSE starved

\* The end of recv_pause: the recv is not armed any more.
Paused(x) ==
    LET r == IF x.recv = "starved" THEN "paused" ELSE x.recv IN
    [x EXCEPT !.pausing = FALSE, !.recv = r, !.co = "run",
              !.phase = IF x.eof \/ r # "paused" THEN "fail" ELSE "hs"]

\* ioxd__conn_recv_pause, from the call and from each wake.
Pause(c) ==
    LET x == conn[c] IN
    /\ Runs(c)
    /\ \/ /\ x.co = "run" /\ x.phase = "hs" /\ x.recv = "armed"
          /\ Put(c, [Cancel(x) EXCEPT !.pausing = TRUE, !.co = "pause"])
          /\ sq' = sq \o CancelSqe(c, x)
          /\ UNCHANGED starved
       \/ /\ x.co = "run_pause" /\ x.recv = "armed"
          /\ Put(c, [x EXCEPT !.co = "pause"])
          /\ UNCHANGED <<sq, starved>>
       \/ /\ \/ x.co = "run_pause" /\ x.recv # "armed"
             \/ x.co = "run" /\ x.phase = "hs" /\ x.recv \in {"starved", "done"}
          /\ Put(c, Paused(x))
          /\ Unlist(c)
          /\ UNCHANGED sq
    /\ UNCHANGED <<frame, loopVars, ready, bufVars, listener, cq, batch, kVars>>

\* ioxd__conn_recv_resume
Resume(c) ==
    LET x == conn[c] IN
    /\ Runs(c) /\ x.co = "run" /\ x.phase = "hs" /\ x.recv = "paused"
    /\ \/ /\ ~draining
          /\ Put(c, [Arm(x) EXCEPT !.phase = "serve"])
          /\ sq' = Append(sq, Sqe("recv", c))
       \/ /\ draining
          /\ Put(c, [Unref(x, 1) EXCEPT !.eof = TRUE, !.recv = "done",
                                        !.phase = "fail"])
          /\ UNCHANGED sq
    /\ UNCHANGED <<frame, loopVars, ready, starved, bufVars, listener, cq,
                   batch, kVars>>

\* Mutant of Kept: the queue is forgotten.
KeptByReader(x) == x.held

\* The buffers a connection still has: its reader's and the queued ones.
Kept(x) == x.held \cup ToSet(x.rx)

\* ioxd__conn_main after the handler: pipe_close, then ioxd__conn_close.
Close(c) ==
    LET x == conn[c]
        gone == [x EXCEPT !.closed = TRUE, !.co = "none",
                          !.rx = <<>>, !.held = {}]
    IN
    /\ Runs(c) /\ x.co = "run"
    /\ \/ /\ x.recv = "armed"
          /\ Put(c, Unref(Cancel(gone), 1))
          /\ sq' = sq \o CancelSqe(c, x) \o <<Sqe("close", c)>>
       \/ /\ x.recv \in {"starved", "paused"}
          /\ Put(c, Unref([gone EXCEPT !.recv = "done"], 2))
          /\ sq' = Append(sq, Sqe("close", c))
       \/ /\ x.recv = "done"
          /\ Put(c, Unref(gone, 1))
          /\ sq' = Append(sq, Sqe("close", c))
    /\ Unlist(c)
    /\ Return(Kept(x))
    /\ UNCHANGED <<frame, loopVars, ready, listener, cq, batch, kVars>>

Coroutine(c) == RecvItem(c) \/ GiveBack(c) \/ Await(c) \/ Pause(c)
                \/ Resume(c) \/ Close(c)
-----------------------------------------------------------------------------
(* Dispatch of the batch.                                                  *)

Taking(t, ks) ==
    /\ LoopAt("batch") /\ batch > 0
    /\ Head(cq).t = t /\ Head(cq).k \in ks
    /\ cq' = Tail(cq)
    /\ batch' = batch - 1

\* Mutant of Seen: the flag outlives the recv it cancelled.
SeenStale == conn[Head(cq).c]

\* The record on_recv starts from: a terminal CQE clears the cancel.
Seen == LET x == conn[Head(cq).c] IN
        [x EXCEPT !.cancelling = @ /\ Head(cq).more]

Suspend(k) == frame' = [c |-> Head(cq).c, k |-> k]

\* on_recv, -ENOBUFS
OnNobufs ==
    LET c == Head(cq).c  x == Seen IN
    /\ Taking("recv", {"enobufs"})
    /\ \/ /\ x.closed
          /\ Put(c, [x EXCEPT !.recv = "done"]) /\ Suspend("unref")
          /\ UNCHANGED starved
       \/ /\ ~x.closed /\ x.pausing
          /\ Put(c, Wake([x EXCEPT !.pausing = FALSE, !.recv = "paused"]))
          /\ UNCHANGED <<starved, frame>>
       \/ /\ ~x.closed /\ ~x.pausing /\ x.eof
          /\ Put(c, Wake([x EXCEPT !.recv = "done"])) /\ Suspend("unref")
          /\ UNCHANGED starved
       \/ /\ ~x.closed /\ ~x.pausing /\ ~x.eof
          /\ Put(c, [x EXCEPT !.recv = "starved"])
          /\ starved' = Append(starved, c)
          /\ UNCHANGED frame
    /\ UNCHANGED <<loopVars, ready, bufVars, listener, sq, kVars>>

\* An end may name a buffer too.
EndBuffer == IF Head(cq).b = None THEN UNCHANGED bufVars ELSE Return({Head(cq).b})

\* on_recv, result <= 0
OnEnd ==
    LET c == Head(cq).c  x == Seen IN
    /\ Taking("recv", {"fin", "cancelled"})
    /\ EndBuffer
    /\ IF x.pausing /\ ~x.closed /\ Head(cq).k = "cancelled"
       THEN /\ Put(c, Wake([x EXCEPT !.pausing = FALSE, !.recv = "paused"]))
            /\ UNCHANGED frame
       ELSE /\ Put(c, Wake([x EXCEPT !.eof = TRUE, !.recv = "done"]))
            /\ Suspend("unref")
    /\ UNCHANGED <<loopVars, ready, starved, listener, sq, kVars>>

\* on_recv, bytes in a buffer, up to wake_reader
OnData ==
    LET c == Head(cq).c  x == Seen  b == Head(cq).b  more == Head(cq).more IN
    /\ Taking("recv", {"data"})
    /\ \/ /\ x.closed
          /\ Put(c, x) /\ Return({b})
          /\ UNCHANGED sq
       \/ /\ ~x.closed /\ Len(x.rx) = RxQueue
          /\ Put(c, Wake([IF more THEN Cancel(x) ELSE x EXCEPT !.eof = TRUE]))
          /\ sq' = IF more THEN sq \o CancelSqe(c, x) ELSE sq
          /\ Return({b})
       \/ /\ ~x.closed /\ Len(x.rx) < RxQueue
          /\ Put(c, Wake([x EXCEPT !.rx = Append(@, b)]))
          /\ UNCHANGED <<sq, bufVars>>
    /\ Suspend(IF more THEN "more" ELSE "last")
    /\ UNCHANGED <<loopVars, ready, starved, listener, kVars>>

\* The rest of on_recv (and of recv_drain), back from the coroutine.
Tailing(k) ==
    /\ frame.k = k /\ ~flushing /\ \A c \in Conns : ~Runs(c)
    /\ frame' = NoFrame
    /\ UNCHANGED <<loopVars, ready, starved, bufVars, listener, cq, batch, kVars>>

TailMore ==
    LET c == frame.c  x == conn[c] IN
    /\ Tailing("more")
    /\ IF canceleach /\ ~x.closed
       THEN Put(c, Cancel(x)) /\ sq' = sq \o CancelSqe(c, x)
       ELSE UNCHANGED <<conn, live, sq>>

TailLast ==
    LET c == frame.c  x == conn[c] IN
    /\ Tailing("last")
    /\ \/ /\ x.pausing /\ ~x.closed
          /\ Put(c, Wake([x EXCEPT !.pausing = FALSE, !.recv = "paused"]))
          /\ UNCHANGED sq
       \/ /\ ~x.pausing /\ ~x.closed /\ ~x.eof
          /\ Put(c, Arm(x))
          /\ sq' = Append(sq, Sqe("recv", c))
       \/ /\ x.closed \/ (~x.pausing /\ x.eof)
          /\ Put(c, Unref([x EXCEPT !.recv = "done"], 1))
          /\ UNCHANGED sq

TailUnref ==
    /\ Tailing("unref")
    /\ Put(frame.c, Unref(conn[frame.c], 1))
    /\ UNCHANGED sq

\* dispatch, TAG_OP: the coroutine runs to its next await.
OnOp ==
    /\ Taking("op", {"done"})
    /\ Put(Head(cq).c, [conn[Head(cq).c] EXCEPT !.co = "run"])
    /\ UNCHANGED <<frame, loopVars, ready, starved, bufVars, listener, sq, kVars>>

\* dispatch, TAG_DRAIN
OnDrain ==
    /\ Taking("drain", {"known", "refused"})
    /\ canceleach' = (canceleach \/ Head(cq).k = "refused")
    /\ UNCHANGED <<conn, frame, pc, flushing, stop, late, draining, live, ready,
                   starved, bufVars, listener, sq, kVars>>

-----------------------------------------------------------------------------
(* The listener.                                                           *)

AcceptRoom(n) == ~draining /\ (cfg.slots = 0 \/ n < cfg.slots)

\* Mutant of ArmAccept: the stall is not cleared.
ArmAcceptStalled(n, s) ==
    IF AcceptRoom(n)
    THEN UNCHANGED listener /\ sq' = Append(s, Sqe("accept", None))
    ELSE listener' = [stalled |-> TRUE, at |-> n] /\ sq' = s

\* arm_accept, with n connections open and s staged before it.
ArmAccept(n, s) ==
    IF AcceptRoom(n)
    THEN /\ listener' = [listener EXCEPT !.stalled = FALSE]
         /\ sq' = Append(s, Sqe("accept", None))
    ELSE /\ listener' = [stalled |-> TRUE, at |-> n]
         /\ sq' = s

\* The end of on_accept: the multishot goes on, or it is stalled or re-armed.
AcceptEnd(n, s) ==
    \/ Head(cq).more /\ sq' = s /\ UNCHANGED listener
    \/ /\ ~Head(cq).more /\ Head(cq).k = "exhausted"
       /\ listener' = [stalled |-> TRUE, at |-> n]
       /\ sq' = s
    \/ ~Head(cq).more /\ Head(cq).k # "exhausted" /\ ArmAccept(n, s)

\* on_accept with a socket: conn_new takes an object nobody holds.
OnAccept ==
    /\ Taking("accept", {"ok"}) /\ ~draining
    /\ \E c \in cfg.conns \ Open :
          /\ conn' = [conn EXCEPT ![c] =
                [Fresh EXCEPT !.refs = 2, !.recv = "armed", !.co = "ready",
                              !.phase = IF cfg.tls THEN "hs" ELSE "serve"]]
          /\ ready' = Append(ready, c)
          /\ live' = live + 1
          /\ AcceptEnd(live + 1, Append(sq, Sqe("recv", c)))
    /\ UNCHANGED <<frame, loopVars, starved, bufVars, kVars>>

\* ... with one that came just before the shutdown's cancel: closed again.
OnAcceptLate ==
    /\ Taking("accept", {"ok"}) /\ draining
    /\ AcceptEnd(live, Append(sq, Sqe("close", None)))
    /\ UNCHANGED <<conn, frame, loopVars, live, ready, starved, bufVars, kVars>>

\* ... with an error.
OnAcceptError ==
    /\ Taking("accept", {"exhausted", "failed", "cancelled"})
    /\ AcceptEnd(live, sq)
    /\ UNCHANGED <<conn, frame, loopVars, live, ready, starved, bufVars, kVars>>

Dispatch == OnNobufs \/ OnEnd \/ OnData \/ OnOp \/ OnDrain
            \/ OnAccept \/ OnAcceptLate \/ OnAcceptError
Tails    == TailMore \/ TailLast \/ TailUnref

-----------------------------------------------------------------------------
(* The loop of ioxd__proactor_run.                                         *)

Goto(p) == pc' = p /\ UNCHANGED <<flushing, stop, late, draining, canceleach>>

\* Stop seen: cancel the accept by name, everything else with one blanket.
BeginDrain ==
    /\ LoopAt("top") /\ stop /\ ~draining
    /\ draining' = TRUE
    /\ pc' = "sweep"
    /\ sq' = sq \o (IF listener.stalled THEN <<>>
                    ELSE <<Sqe("cancelaccept", None)>>)
                \o <<Sqe("blanket", None)>>
    /\ listener' = [listener EXCEPT !.stalled = TRUE]
    /\ UNCHANGED <<conn, frame, flushing, stop, late, canceleach, live, ready,
                   starved, bufVars, cq, batch, kVars>>

\* begin_drain, ioxd__conn_recv_drain of the last starved connection.
Sweep ==
    LET c == Last(starved) IN
    /\ LoopAt("sweep") /\ starved # <<>>
    /\ starved' = Front(starved)
    /\ Put(c, Wake([conn[c] EXCEPT !.eof = TRUE, !.recv = "done"]))
    /\ frame' = [c |-> c, k |-> "unref"]
    /\ UNCHANGED <<loopVars, ready, bufVars, listener, sq, cq, batch, kVars>>

\* Mutant of Drained: the worker waits for its last connection.
DrainedByCount == draining /\ live = 0

\* The test that ends the loop.
Drained == draining /\ (live = 0 \/ late)

\* The top of an iteration, and the return of begin_drain: leave or go on.
Check ==
    /\ \/ LoopAt("top") /\ (stop => draining)
       \/ LoopAt("sweep") /\ starved = <<>>
    /\ IF Drained THEN Goto("exit") ELSE Goto("ready")
    /\ UNCHANGED <<conn, frame, live, ready, starved, bufVars, listener, sq, cq,
                   batch, kVars>>

\* run_ready
RunReady ==
    /\ LoopAt("ready") /\ ready # <<>>
    /\ Put(Head(ready), [conn[Head(ready)] EXCEPT !.co = "run"])
    /\ ready' = Tail(ready)
    /\ UNCHANGED <<frame, loopVars, starved, bufVars, listener, sq, cq, batch,
                   kVars>>

\* rearm_starved: at most one per buffer returned since the last sweep, the
\* oldest first; then ioxd__bufring_publish, and into the kernel.
RearmStarved ==
    LET n   == IF returned < Len(starved) THEN returned ELSE Len(starved)
        now == SubSeq(starved, 1, n)
    IN
    /\ LoopAt("ready") /\ ready = <<>>
    /\ returned' = 0
    /\ conn' = [c \in Conns |->
                   IF c \in ToSet(now) THEN Arm(conn[c]) ELSE conn[c]]
    /\ sq' = sq \o [i \in 1..n |-> Sqe("recv", now[i])]
    /\ starved' = SubSeq(starved, n + 1, Len(starved))
    /\ Publish
    /\ Goto("enter")
    /\ UNCHANGED <<frame, live, ready, listener, cq, batch, kVars>>

\* ioxd__uring_submit_wait returned, by a completion or the 100 ms timeout.
Reap ==
    /\ pc = "enter"
    /\ sq = <<>> \/ cfg.hiccups
    /\ Goto("batch")
    /\ batch' = Len(cq)
    /\ UNCHANGED <<conn, frame, live, ready, starved, bufVars, listener, sq, cq,
                   kVars>>

\* ... or failed for good: the worker retires, and every other with it.
Fail ==
    /\ pc = "enter"
    /\ stop' = TRUE
    /\ pc' = "exit"
    /\ UNCHANGED <<conn, frame, flushing, late, draining, canceleach, live,
                   ready, starved, bufVars, listener, sq, cq, batch, kVars>>

\* The batch is done; rearm_stalled, by a close of ours or by the clock.
EndBatch ==
    /\ LoopAt("batch") /\ batch = 0
    /\ \/ /\ listener.stalled
          /\ ArmAccept(live, sq)
       \/ /\ ~(listener.stalled /\ live < listener.at)
          /\ UNCHANGED <<listener, sq>>
    /\ Goto("top")
    /\ UNCHANGED <<conn, frame, live, ready, starved, bufVars, cq, batch, kVars>>

\* The environment of the loop: the signal handler, and the clock.
Stop ==
    /\ ~stop /\ pc # "exit"
    /\ stop' = TRUE
    /\ UNCHANGED <<conn, frame, pc, flushing, late, draining, canceleach, live,
                   ready, starved, bufVars, listener, sq, cq, batch, kVars>>

Deadline ==
    /\ draining /\ ~late /\ pc # "exit"
    /\ late' = TRUE
    /\ UNCHANGED <<conn, frame, pc, flushing, stop, draining, canceleach, live,
                   ready, starved, bufVars, listener, sq, cq, batch, kVars>>

\* ioxd__proactor_sqe on a full SQ: publish the buffers and enter.  One-shot
\* ops of every kind fill the SQ, so this can come whenever SQEs are staged.
Flush ==
    /\ cfg.hiccups /\ ~InKernel /\ pc # "exit" /\ sq # <<>>
    /\ flushing' = TRUE
    /\ Publish
    /\ UNCHANGED <<conn, frame, pc, stop, late, draining, canceleach, live,
                   ready, starved, returned, listener, sq, cq, batch, kVars>>

Flushed ==
    /\ flushing
    /\ flushing' = FALSE
    /\ UNCHANGED <<conn, frame, pc, stop, late, draining, canceleach, live,
                   ready, starved, bufVars, listener, sq, cq, batch, kVars>>

Loop == BeginDrain \/ Sweep \/ Check \/ RunReady \/ RearmStarved \/ Reap
        \/ Fail \/ EndBatch \/ Flush \/ Flushed
-----------------------------------------------------------------------------
(* The kernel, inside an enter.  External: only what the code relies on.   *)

KFrame == UNCHANGED <<conn, frame, loopVars, live, ready, starved, returned,
                      staged, listener, batch>>

KTake(op) == InKernel /\ sq # <<>> /\ Head(sq).op = op /\ sq' = Tail(sq) /\ KFrame

Post(e)    == cq' = Append(cq, e)
Ended(c)   == Cqe("recv", c, "cancelled", FALSE, None)
AcceptEnds(k) == Cqe("accept", None, k, FALSE, None)

\* A recv selects its buffer first: on an empty ring it ends at once.
KRecv ==
    /\ KTake("recv")
    /\ LET c == Head(sq).c IN
       IF kfree = {} THEN /\ Post(Cqe("recv", c, "enobufs", FALSE, None))
                          /\ UNCHANGED krecv
                     ELSE krecv' = krecv \cup {c} /\ UNCHANGED cq
    /\ UNCHANGED <<kop, kaccept, kslots, kfree>>

KCancel ==
    /\ KTake("cancel")
    /\ LET c == Head(sq).c IN
       IF c \in krecv THEN krecv' = krecv \ {c} /\ Post(Ended(c))
                      ELSE UNCHANGED <<krecv, cq>>
    /\ UNCHANGED <<kop, kaccept, kslots, kfree>>

KClose == KTake("close") /\ kslots' = kslots - 1
          /\ UNCHANGED <<krecv, kop, kaccept, kfree, cq>>

KOp == KTake("op") /\ kop' = kop \cup {Head(sq).c}
       /\ UNCHANGED <<krecv, kaccept, kslots, kfree, cq>>

KAccept == KTake("accept") /\ kaccept' = TRUE
           /\ UNCHANGED <<krecv, kop, kslots, kfree, cq>>

KCancelAccept ==
    /\ KTake("cancelaccept")
    /\ IF kaccept THEN Post(AcceptEnds("cancelled")) ELSE UNCHANGED cq
    /\ kaccept' = FALSE
    /\ UNCHANGED <<krecv, kop, kslots, kfree>>

\* IORING_ASYNC_CANCEL_ANY: everything in flight, in any order.
KBlanket ==
    /\ KTake("blanket")
    /\ IF cfg.any
       THEN /\ \E s \in SetToSeqs(
                    {Ended(c) : c \in krecv}
                    \cup {Cqe("op", c, "done", FALSE, None) : c \in kop}
                    \cup {AcceptEnds("cancelled") : a \in {kaccept} \ {FALSE}}) :
                  cq' = cq \o s \o <<Cqe("drain", None, "known", FALSE, None)>>
            /\ krecv' = {} /\ kop' = {} /\ kaccept' = FALSE
       ELSE /\ Post(Cqe("drain", None, "refused", FALSE, None))
            /\ UNCHANGED <<krecv, kop, kaccept>>
    /\ UNCHANGED <<kslots, kfree>>

KSubmit == KRecv \/ KCancel \/ KClose \/ KOp \/ KAccept \/ KCancelAccept
           \/ KBlanket

\* What completes on its own, within the bound on undispatched CQEs.
KWork == InKernel /\ pc # "exit" /\ Len(cq) < MaxCqes /\ KFrame /\ UNCHANGED sq

\* Bytes for c: in a buffer, or none is left.
KData ==
    /\ KWork
    /\ \E c \in krecv :
          \/ \E b \in kfree, more \in BOOLEAN :
                /\ Post(Cqe("recv", c, "data", more, b))
                /\ kfree' = kfree \ {b}
                /\ krecv' = IF more THEN krecv ELSE krecv \ {c}
          \/ /\ kfree = {}
             /\ Post(Cqe("recv", c, "enobufs", FALSE, None))
             /\ krecv' = krecv \ {c}
             /\ UNCHANGED kfree
    /\ UNCHANGED <<kop, kaccept, kslots>>

\* FIN or an error; a FIN may name a buffer it did not fill.
KFin ==
    /\ KWork
    /\ \E c \in krecv, b \in kfree \cup {None} :
          /\ Post(Cqe("recv", c, "fin", FALSE, b))
          /\ krecv' = krecv \ {c}
          /\ kfree' = kfree \ {b}
    /\ UNCHANGED <<kop, kaccept, kslots>>

KOpDone ==
    /\ KWork
    /\ \E c \in kop : /\ Post(Cqe("op", c, "done", FALSE, None))
                      /\ kop' = kop \ {c}
    /\ UNCHANGED <<krecv, kaccept, kslots, kfree>>

Accepted == {i \in 1..Len(cq) : cq[i].t = "accept" /\ cq[i].k = "ok"}

\* A peer connects, or the accept fails: no slot left, or anything else.
KAccepts ==
    /\ KWork /\ kaccept
    /\ \/ /\ Cardinality(Accepted) + Cardinality(Open) < Cardinality(cfg.conns)
          /\ cfg.slots = 0 \/ kslots < cfg.slots
          /\ \E more \in BOOLEAN :
                /\ Post(Cqe("accept", None, "ok", more, None))
                /\ kaccept' = more
          /\ kslots' = kslots + 1
       \/ /\ \/ Post(AcceptEnds("failed"))
             \/ Post(AcceptEnds("exhausted")) /\ cfg.slots > 0 /\ kslots = cfg.slots
          /\ kaccept' = FALSE
          /\ UNCHANGED kslots
    /\ UNCHANGED <<krecv, kop, kfree>>

Kernel == KSubmit \/ KData \/ KFin \/ KOpDone \/ KAccepts

-----------------------------------------------------------------------------
Next == /\ \/ \E c \in Conns : Coroutine(c)
           \/ Dispatch \/ Tails \/ Loop \/ Kernel \/ Stop \/ Deadline
        /\ UNCHANGED cfg

Spec == Init /\ [][Next]_allVars

-----------------------------------------------------------------------------
(* Each connection of the worker is a connection of module Conn.           *)

\* What f makes of the entries of s it knows, in their order.
Picked(s, f) ==
    LET upto[i \in 0..Len(s)] ==
            IF i = 0 THEN <<>>
            ELSE IF s[i] \in DOMAIN f THEN Append(upto[i - 1], f[s[i]]) ELSE upto[i - 1]
    IN  upto[Len(s)]

\* The SQEs and the CQEs that Conn speaks of.
SqNames(c) ==
    [e \in [op : {"recv", "cancel", "close"}, c : {c}] \cup {Sqe("blanket", None)} |-> e.op]
CqNames(c) ==
    [e \in [t : {"recv"}, c : {c}, k : {"data", "enobufs", "fin", "cancelled"},
            more : BOOLEAN, b : Buffers \cup {None}] |-> [k |-> e.k, more |-> e.more]]
SqOf(c) == Picked(sq, SqNames(c))
CqOf(c) == Picked(cq, CqNames(c))

C(c, any) == INSTANCE Conn WITH
    CancelAny <- any,
    refs <- conn[c].refs, recv <- conn[c].recv, pausing <- conn[c].pausing,
    cancelling <- conn[c].cancelling, closed <- conn[c].closed,
    eof <- conn[c].eof, rx <- Len(conn[c].rx),
    co <- conn[c].co, phase <- conn[c].phase,
    frame <- IF frame.c = c THEN frame.k ELSE "none",
    drain <- IF ~draining THEN "off" ELSE IF pc = "sweep" THEN "sweep" ELSE "on",
    sq <- SqOf(c), krecv <- IF c \in krecv THEN 1 ELSE 0, cq <- CqOf(c)

\* Connections.  Every step of the worker is, seen from each connection, a
\* step that module Conn allows or no step at all: what is shown of Conn
\* holds of every connection of the worker.
Connections ==
    /\ \A c \in Conns : C(c, TRUE)!Init
    /\ [][\A c \in Conns, any \in BOOLEAN :
             cfg.any = any => [C(c, any)!Next]_(C(c, any)!vars)]_allVars
-----------------------------------------------------------------------------
(* Safety.                                                                 *)

Listed(s, e) == {i \in 1..Len(s) : s[i] = e}

\* Everywhere a buffer is: the kernel's ring, the unpublished tail of it, a
\* CQE, a connection's queue, a handler's hands.
Homes(b) ==
    {<<"ring", None, 0>> : x \in kfree \cap {b}}
    \cup {<<"tail", None, 0>> : x \in staged \cap {b}}
    \cup {<<"cq", None, i>> : i \in {j \in 1..Len(cq) : cq[j].b = b}}
    \cup {<<"held", c, 0>> : c \in {d \in Conns : b \in conn[d].held}}
    \cup UNION {{<<"rx", c, i>> : i \in Listed(conn[c].rx, b)} : c \in Conns}

\* BufferHasOneHome.  No provided buffer is lost and none is handed out
\* twice, through delivery, overflow, FIN, close and every return.
BufferHasOneHome == \A b \in cfg.buffers : Cardinality(Homes(b)) = 1

\* StarvedAreListed.  p->starved lists the connections in RECV_STARVED, each
\* once: a stale entry would arm a recv on a recycled conn_t (proactor.c:201),
\* a missing one would leave its reader parked for good.
StarvedAreListed ==
    \A c \in Conns :
        Cardinality(Listed(starved, c)) = IF conn[c].recv = "starved" THEN 1 ELSE 0

\* The accepts on their way through the rings.
AcceptOps == Cardinality(Listed(sq, Sqe("accept", None)))
             + (IF kaccept THEN 1 ELSE 0)
             + Cardinality({i \in 1..Len(cq) : cq[i].t = "accept" /\ ~cq[i].more})

\* AcceptIsArmedOnce.  A listener has one accept under way unless it is
\* stalled, and once the shutdown's cancels are through it has none: the port
\* is never left deaf, and never armed twice.
AcceptIsArmedOnce ==
    /\ ~draining => AcceptOps = IF listener.stalled THEN 0 ELSE 1
    /\ draining /\ Listed(sq, Sqe("cancelaccept", None)) = {}
         => ~kaccept /\ Listed(sq, Sqe("accept", None)) = {}

\* UnmapIsSafe.  When the worker leaves with p->live = 0 it unmaps the buffer
\* slab (proactor.c:384): no recv that could write into it is left.  To that
\* end p->live counts the conn_t objects in use at every moment (accept_room
\* and rearm_stalled read it too).
UnmapIsSafe ==
    /\ live = Cardinality(Open)
    /\ pc = "exit" /\ live = 0 =>
        /\ krecv = {} /\ \A i \in 1..Len(sq) : sq[i].op # "recv"
        /\ \A c \in Conns : conn[c].co = "none"

-----------------------------------------------------------------------------
(* Liveness: the thread keeps running, handlers reach their next await, the *)
(* kernel takes what is submitted and the clock reaches the deadline.      *)
Fairness ==
    /\ WF_vars(Dispatch) /\ WF_vars(Tails) /\ WF_vars(KSubmit)
    /\ WF_vars(BeginDrain) /\ WF_vars(Sweep) /\ WF_vars(Check)
    /\ WF_vars(RunReady) /\ WF_vars(RearmStarved) /\ WF_vars(Reap)
    /\ WF_vars(EndBatch) /\ WF_vars(Flushed) /\ WF_vars(Deadline)
    /\ \A c \in Conns : WF_vars(Coroutine(c))

FairSpec == Spec /\ Fairness

\* StopEndsTheWorker.  Once stop is set the worker leaves its loop, whatever
\* its peers and its handlers' recvs do.  (Not stated of hiccups: Flush stands
\* for an SQ that is full, and may come again and again without filling it.)
StopEndsTheWorker == stop /\ ~cfg.hiccups ~> pc = "exit"
=============================================================================
