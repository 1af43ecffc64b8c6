-------------------------------- MODULE Run --------------------------------
(***************************************************************************)
(* src/lib/http/run.c: ports bound, workers started, stopped and joined.   *)
(* The main thread is inside run_workers while main is not "idle".  What   *)
(* is left of a worker here is what this file sees of ioxd__proactor_run:  *)
(* it sets up, loops until it finds the stop flag set, drains and leaves,  *)
(* or its ring fails and it raises the flag itself.  (The loop and the     *)
(* drain in detail are module Worker.)                                     *)
(***************************************************************************)
EXTENDS Naturals

CONSTANTS
    N,               \* the most workers a run is asked for
    MAX_LISTENERS,
    MaxRuns          \* bound: calls of ioxd_run in one process

ASSUME RunConstants == N \in Nat /\ MAX_LISTENERS \in Nat /\ MaxRuns \in Nat

Ids == 0..N - 1

VARIABLES
    main,        \* "idle", "start", "join", or "dead" (the process aborted)
    handler,     \* what the workers serve: "http" or "pipe"
    want, started, joined, rc,
    worker,      \* "none", "init", "loop", "drain" or "exit" of each proactor_t
    failed,      \* the workers whose p->failed is set
    g_stop,
    armed,       \* the handlers of SIGINT and SIGTERM are installed
    g_n_listeners,
    runs         \* calls of ioxd_run so far

runVars == <<main, handler, want, started, joined, rc, worker, failed, g_stop,
             armed, g_n_listeners, runs>>

RunInit ==
    /\ main = "idle" /\ handler = "http"
    /\ want = 0 /\ started = 0 /\ joined = 0 /\ rc = 0
    /\ worker = [k \in Ids |-> "none"]
    /\ failed = {}
    /\ g_stop = FALSE /\ armed = FALSE
    /\ g_n_listeners = 0 /\ runs = 0

Active(k) == worker[k] \in {"init", "loop", "drain"}

\* A port in range while there is room; anything else is refused.
ioxd_bind ==
    /\ main = "idle"
    /\ g_n_listeners' = IF g_n_listeners = MAX_LISTENERS THEN g_n_listeners
                        ELSE g_n_listeners + 1
    /\ UNCHANGED <<main, handler, want, started, joined, rc, worker, failed, g_stop,
                   armed, runs>>

-----------------------------------------------------------------------------
(* The main thread.                                                        *)

\* run_workers up to its loop: nothing bound, no memory, or n workers to start.
run_workers(n, h) ==
    /\ main = "idle" /\ runs < MaxRuns
    /\ runs' = runs + 1
    /\ handler' = h
    /\ IF g_n_listeners = 0
       THEN rc' = 2 /\ UNCHANGED <<main, want, started, joined, g_stop, armed>>
       ELSE /\ g_stop' = FALSE /\ armed' = TRUE
            /\ \/ rc' = 1 /\ UNCHANGED <<main, want, started, joined>>
               \/ /\ main' = "start" /\ want' = n
                  /\ started' = 0 /\ joined' = 0 /\ rc' = 0
    /\ UNCHANGED <<worker, failed, g_n_listeners>>

pthread_create ==
    /\ main = "start" /\ started < want
    /\ worker' = [worker EXCEPT ![started] = "init"]
    /\ started' = started + 1
    /\ UNCHANGED <<main, handler, want, joined, rc, failed, g_stop, armed, g_n_listeners, runs>>

(* Mutant: the run gives up without waiting for those it started.          *)
CreateFailsReturns ==
    /\ main = "start" /\ started < want
    /\ g_stop' = TRUE /\ rc' = 1 /\ main' = "idle"
    /\ UNCHANGED <<handler, want, started, joined, worker, failed, armed, g_n_listeners, runs>>

\* A thread that cannot be made: the ones that run are told to stop.
CreateFails ==
    /\ main = "start" /\ started < want
    /\ g_stop' = TRUE /\ rc' = 1 /\ main' = "join"
    /\ UNCHANGED <<handler, want, started, joined, worker, failed, armed, g_n_listeners, runs>>

AllStarted ==
    /\ main = "start" /\ started = want
    /\ main' = "join"
    /\ UNCHANGED <<handler, want, started, joined, rc, worker, failed, g_stop, armed,
                   g_n_listeners, runs>>

pthread_join ==
    /\ main = "join" /\ joined < started
    /\ worker[joined] = "exit"
    /\ joined' = joined + 1
    /\ UNCHANGED <<main, handler, want, started, rc, worker, failed, g_stop, armed,
                   g_n_listeners, runs>>

(* Mutant: p->failed is not looked at.                                     *)
ReturnBlind ==
    /\ main = "join" /\ joined = started
    /\ main' = "idle"
    /\ worker' = [k \in Ids |-> "none"]
    /\ failed' = {}
    /\ UNCHANGED <<handler, want, started, joined, rc, g_stop, armed, g_n_listeners, runs>>

\* Behind the joins: the failures counted, the proactors freed.
Return ==
    /\ main = "join" /\ joined = started
    /\ rc' = IF failed # {} THEN 1 ELSE rc
    /\ main' = "idle"
    /\ worker' = [k \in Ids |-> "none"]
    /\ failed' = {}
    /\ UNCHANGED <<handler, want, started, joined, g_stop, armed, g_n_listeners, runs>>

-----------------------------------------------------------------------------
(* The workers, and signals.                                               *)

\* A port that cannot be opened, or a ring or buffers that cannot be had.
Aborts == main' = "dead" /\ UNCHANGED worker

\* The ring, the buffers and the ports of worker k; without them it aborts.
SetUp(k) ==
    /\ main # "dead" /\ worker[k] = "init"
    /\ \/ worker' = [worker EXCEPT ![k] = "loop"] /\ UNCHANGED main
       \/ Aborts
    /\ UNCHANGED <<handler, want, started, joined, rc, failed, g_stop, armed, g_n_listeners, runs>>

SeesStop(k) ==
    /\ main # "dead" /\ worker[k] = "loop" /\ g_stop
    /\ worker' = [worker EXCEPT ![k] = "drain"]
    /\ UNCHANGED <<main, handler, want, started, joined, rc, failed, g_stop, armed,
                   g_n_listeners, runs>>

Drained(k) ==
    /\ main # "dead" /\ worker[k] = "drain"
    /\ worker' = [worker EXCEPT ![k] = "exit"]
    /\ UNCHANGED <<main, handler, want, started, joined, rc, failed, g_stop, armed,
                   g_n_listeners, runs>>

(* Mutant: the worker leaves without a word.                               *)
EnterFailsAlone(k) ==
    /\ main # "dead" /\ worker[k] \in {"loop", "drain"}
    /\ failed' = failed \cup {k}
    /\ worker' = [worker EXCEPT ![k] = "exit"]
    /\ UNCHANGED <<main, handler, want, started, joined, rc, g_stop, armed, g_n_listeners, runs>>

\* io_uring_enter fails for good.
EnterFails(k) ==
    /\ main # "dead" /\ worker[k] \in {"loop", "drain"}
    /\ failed' = failed \cup {k}
    /\ g_stop' = TRUE
    /\ worker' = [worker EXCEPT ![k] = "exit"]
    /\ UNCHANGED <<main, handler, want, started, joined, rc, armed, g_n_listeners, runs>>

on_signal ==
    /\ main # "dead" /\ armed
    /\ g_stop' = TRUE
    /\ UNCHANGED <<main, handler, want, started, joined, rc, worker, failed, armed,
                   g_n_listeners, runs>>

Main == pthread_create \/ CreateFails \/ AllStarted \/ pthread_join \/ Return
Leave(k) == Drained(k) \/ EnterFails(k)

RunNext ==
    \/ ioxd_bind
    \/ \E n \in 1..N, h \in {"http", "pipe"} : run_workers(n, h)
    \/ Main
    \/ \E k \in Ids : SetUp(k) \/ SeesStop(k) \/ Leave(k)
    \/ on_signal

RunSpec == RunInit /\ [][RunNext]_runVars

-----------------------------------------------------------------------------

RunTypeOK ==
    /\ main \in {"idle", "start", "join", "dead"}
    /\ handler \in {"http", "pipe"}
    /\ want \in 0..N /\ started \in 0..want /\ joined \in 0..started
    /\ rc \in 0..2
    /\ worker \in [Ids -> {"none", "init", "loop", "drain", "exit"}]
    /\ failed \subseteq Ids
    /\ g_stop \in BOOLEAN /\ armed \in BOOLEAN
    /\ g_n_listeners \in 0..MAX_LISTENERS
    /\ runs \in 0..MaxRuns

\* WorkersWithinRun.  No worker is running once run_workers has returned,
\* whichever of its starts, its ring or its signals ended it: the proactors it
\* frees (run.c:162) and the certificates, handlers and pages the application
\* frees behind it are nobody's any more.  While it joins, the workers
\* it has passed are gone.
WorkersWithinRun ==
    /\ main = "idle" => \A k \in Ids : ~Active(k)
    /\ \A k \in Ids : Active(k) => k >= joined /\ k < started

\* FailureIsReported.  A run that ends with 0 started every worker it was asked
\* for and lost none: with the flag raised for any other reason, a thread that
\* could not be made or a ring that failed, it ends with 1.
FailureIsReported ==
    [][main = "join" /\ main' = "idle" /\ rc' = 0 =>
           started = want /\ failed = {}]_runVars

\* The stop flag is up, or somebody has gone who should have raised it.
MustEnd == g_stop \/ failed # {} \/ (main = "join" /\ started < want)

\* RunReturns.  In a process that does not abort, a signal, a worker whose ring
\* failed, or a worker that could not be started ends the run: the others are
\* told, drain and are joined, and run_workers returns.  (Of a port that could not
\* be opened run.h says that ioxd_run returns; the code aborts, see Aborts.)
RunReturns ==
    [](main # "dead") => ((main \in {"start", "join"} /\ MustEnd) ~> main = "idle")

\* The main thread and each worker keep running; Worker.StopEndsTheWorker is
\* why a worker that drains leaves.
RunFairness ==
    /\ WF_runVars(Main)
    /\ \A k \in Ids : WF_runVars(SetUp(k)) /\ WF_runVars(SeesStop(k)) /\ WF_runVars(Drained(k))
=============================================================================
