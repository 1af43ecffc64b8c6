---------------------------- MODULE ServerProofs ----------------------------
(***************************************************************************)
(* What the workers share and how they end, for any routes, files, sizes   *)
(* and number of workers.                                                  *)
(*                                                                         *)
(* The life of the workers (module Run): no worker outlives its run, and a *)
(* failure is reported.  The routes beside them (module Server, which      *)
(* implements Run): the table does not change once it is built, and a      *)
(* request runs through its chain in order, each link once.                *)
(*                                                                         *)
(* The table of files (module StaticCache): it stays within its budget,    *)
(* what is sent from stays, and what is sent was on the disk revalidate_ms *)
(* before the request came, or later.                                      *)
(* Its invariant is one of a table and of the handlers, apart: make_room   *)
(* goes through several tables in one step, and each of them must be a     *)
(* good one for the next drop.                                             *)
(***************************************************************************)
EXTENDS StaticCache, Server, WellFoundedInduction, NaturalsInduction, SequenceTheorems,
        FiniteSetTheorems, TLAPS

\* Induction, as a fact about sets.
LEMMA NatSet ==
    ASSUME NEW S, 0 \in S, \A n \in Nat : n \in S => n + 1 \in S
    PROVE  \A n \in Nat : n \in S
<1> SUFFICES ASSUME Nat \ S # {} PROVE FALSE
  OBVIOUS
<1> DEFINE R == OpToRel(<, Nat)
<1>1. IsWellFoundedOn(R, Nat)
  BY NatLessThanWellFounded
<1>2. \A x, y \in Nat : <<x, y>> \in R <=> x < y
  BY DEF OpToRel
<1> HIDE DEF R
<1>3. PICK x \in Nat \ S : \A y \in Nat \ S : ~ (<<y, x>> \in R)
  BY <1>1, WFMin
<1>4. x # 0 /\ x - 1 \in Nat /\ x - 1 < x
  BY <1>3
<1>5. x - 1 \in S
  BY <1>2, <1>3, <1>4
<1>6. (x - 1) + 1 \in S
  BY <1>4, <1>5
<1> QED BY <1>3, <1>4, <1>6

-----------------------------------------------------------------------------
(* The life of the workers.                                                *)

\* Where a worker stands against the counters of the main thread: not made,
\* running or gone, gone and joined.
Placed(k) ==
    /\ main = "idle" => worker[k] = "none"
    /\ main # "idle" /\ k < joined => worker[k] = "exit"
    /\ main # "idle" /\ k >= started => worker[k] = "none"
    /\ k \in failed => main # "idle" /\ worker[k] = "exit"

\* What rc holds on the way: nothing until a start fails.
Counted ==
    /\ main = "start" => joined = 0
    /\ main = "join" /\ started < want => rc = 1

RunInv == RunTypeOK /\ Counted /\ \A k \in Ids : Placed(k)

LEMMA InitRunInv == RunInit => RunInv
<1> SUFFICES ASSUME RunInit PROVE RunInv
  OBVIOUS
<1>1. g_stop \in BOOLEAN /\ armed \in BOOLEAN
  BY DEF RunInit
<1>2. RunTypeOK
  BY <1>1, RunConstants DEF RunInit, RunTypeOK, Ids
<1>3. Counted /\ \A k \in Ids : Placed(k)
  BY RunConstants DEF RunInit, Counted, Placed, Ids
<1> QED BY <1>2, <1>3 DEF RunInv

\* Every step of the main thread, of a worker and of a signal keeps the
\* counters and the workers in step.
LEMMA NextRunInv == RunInv /\ [RunNext]_runVars => RunInv'
<1> SUFFICES ASSUME RunInv, [RunNext]_runVars PROVE RunInv'
  OBVIOUS
<1> USE RunConstants DEF RunInv, RunTypeOK, Counted, Placed, Ids
<1>1. CASE ioxd_bind
  BY <1>1 DEF ioxd_bind
<1>2. ASSUME NEW n \in 1..N, NEW h \in {"http", "pipe"}, run_workers(n, h)
      PROVE  RunInv'
  <2>1. g_stop' \in BOOLEAN /\ armed' \in BOOLEAN
    BY <1>2 DEF run_workers
  <2>2. CASE g_n_listeners = 0
    BY <1>2, <2>1, <2>2 DEF run_workers
  <2>3. CASE g_n_listeners # 0 /\ main' = "idle"
    BY <1>2, <2>1, <2>3 DEF run_workers
  <2>4. CASE g_n_listeners # 0 /\ main' = "start"
    BY <1>2, <2>1, <2>4 DEF run_workers
  <2> QED BY <1>2, <2>2, <2>3, <2>4 DEF run_workers
<1>3. CASE pthread_create
  BY <1>3 DEF pthread_create
<1>4. CASE CreateFails
  BY <1>4 DEF CreateFails
<1>5. CASE AllStarted
  BY <1>5 DEF AllStarted
<1>6. CASE pthread_join
  BY <1>6 DEF pthread_join
<1>7. CASE Return
  BY <1>7 DEF Return
<1>8. ASSUME NEW k \in Ids, SetUp(k) PROVE RunInv'
  BY <1>8 DEF SetUp, Aborts
<1>9. ASSUME NEW k \in Ids, SeesStop(k) PROVE RunInv'
  BY <1>9 DEF SeesStop
<1>10. ASSUME NEW k \in Ids, Drained(k) PROVE RunInv'
  BY <1>10 DEF Drained
<1>11. ASSUME NEW k \in Ids, EnterFails(k) PROVE RunInv'
  BY <1>11 DEF EnterFails
<1>12. CASE on_signal
  BY <1>12 DEF on_signal
<1>13. CASE UNCHANGED runVars
  BY <1>13 DEF runVars
<1> QED
  BY <1>1, <1>2, <1>3, <1>4, <1>5, <1>6, <1>7, <1>8, <1>9, <1>10, <1>11, <1>12, <1>13
     DEF RunNext, Main, Leave

\* The counters and the workers of run_workers keep their ranges.
THEOREM RunTypes == RunSpec => []RunTypeOK
<1>1. RunInv => RunTypeOK
  BY DEF RunInv
<1> QED BY <1>1, InitRunInv, NextRunInv, PTL DEF RunSpec

\* No worker runs once run_workers has freed the proactors and returned, and
\* none that it has joined, whatever failed on the way.
THEOREM WorkersEndWithRun == RunSpec => []WorkersWithinRun
<1>1. RunInv => WorkersWithinRun
  BY RunConstants DEF RunInv, RunTypeOK, Placed, WorkersWithinRun, Active, Ids
<1> QED BY <1>1, InitRunInv, NextRunInv, PTL DEF RunSpec

\* A run that ends with 0 had all its workers, to the end.
THEOREM FailuresAreReported == RunSpec => FailureIsReported
<1> DEFINE Step == main = "join" /\ main' = "idle" /\ rc' = 0 =>
                       started = want /\ failed = {}
<1>1. RunInv /\ [RunNext]_runVars => [Step]_runVars
  <2> SUFFICES ASSUME RunInv, RunNext, main = "join", main' = "idle", rc' = 0
               PROVE  started = want /\ failed = {}
    OBVIOUS
  <2>1. Return
    BY DEF RunNext, ioxd_bind, run_workers, Main, pthread_create, CreateFails, AllStarted,
           pthread_join, Leave, SetUp, Aborts, SeesStop, Drained, EnterFails, on_signal
  <2> QED BY <2>1, RunConstants DEF Return, RunInv, RunTypeOK, Counted
<1> QED BY <1>1, InitRunInv, NextRunInv, PTL DEF RunSpec, FailureIsReported

-----------------------------------------------------------------------------
(* The routes and the workers together.                                    *)

\* Every step of the whole is one of the workers' life, or leaves it alone.
LEMMA ServerIsRun ==
    /\ ServerInit => RunInit
    /\ [ServerNext]_serverVars => [RunNext]_runVars
<1>1. ServerInit => RunInit
  BY DEF ServerInit
<1>2. ASSUME [ServerNext]_serverVars PROVE [RunNext]_runVars
  <2>1. CASE Registers
    BY <2>1 DEF Registers
  <2>2. CASE Lifecycle
    BY <2>2 DEF Lifecycle, RunNext
  <2>3. ASSUME NEW n \in 1..N, ioxd_run(n) \/ ioxd_run_pipes(n) PROVE [RunNext]_runVars
    BY <2>3 DEF ioxd_run, ioxd_run_pipes, RunNext
  <2>4. ASSUME NEW k \in Ids, Dispatch(k) \/ Next_(k) \/ Returns(k) \/ Leaves(k)
        PROVE  [RunNext]_runVars
    BY <2>4 DEF Dispatch, Next_, Returns, Leaves, RunNext
  <2>5. CASE UNCHANGED serverVars
    BY <2>5 DEF serverVars
  <2> QED BY <1>2, <2>1, <2>2, <2>3, <2>4, <2>5 DEF ServerNext
<1> QED BY <1>1, <1>2

\* The application, the router and the workers together implement module Run:
\* what is proved of the life of the workers holds with routes registered and
\* requests running beside them.
THEOREM ServerImplementsRun == ServerSpec => RunSpec
BY ServerIsRun, PTL DEF ServerSpec, RunSpec

-----------------------------------------------------------------------------
(* The groups.                                                             *)

GroupType == [parent : Nat, prefix : GroupPaths \cup {<<>>}, mws : Seq(Mws)]

\* A group is made below one that is there: the parents lead up to the root.
Forest(gs) ==
    /\ gs \in Seq(GroupType) /\ Len(gs) >= 1
    /\ \A g \in 1..Len(gs) : gs[g].parent < g

\* Under and Above, up to the n-th group.
IsUnder(gs, n, u) ==
    u = [g \in 0..n |-> IF g = 0 THEN <<>> ELSE u[gs[g].parent] \o gs[g].mws]
IsAbove(gs, n, a) ==
    a = [g \in 0..n |-> IF g = 0 THEN <<>> ELSE Append(a[gs[g].parent], g)]

LEMMA ForestIs ==
    ASSUME NEW gs, Forest(gs), NEW g \in 1..Len(gs)
    PROVE  /\ Len(gs) \in Nat /\ g \in Nat /\ g # 0 /\ gs[g] \in GroupType
           /\ gs[g].parent \in 0..g - 1 /\ gs[g].parent \in 0..Len(gs)
           /\ gs[g].mws \in Seq(Mws)
<1>1. Len(gs) \in Nat /\ gs[g] \in GroupType /\ gs[g].parent < g
  BY DEF Forest
<1>2. gs[g].parent \in Nat /\ gs[g].mws \in Seq(Mws)
  BY <1>1 DEF GroupType
<1> QED BY <1>1, <1>2

LEMMA UnderExist ==
    ASSUME NEW gs, Forest(gs)
    PROVE  \E u : IsUnder(gs, Len(gs), u)
<1> DEFINE S == {n \in Nat : n <= Len(gs) => \E u : IsUnder(gs, n, u)}
<1>0. Len(gs) \in Nat
  BY DEF Forest
<1>1. 0 \in S
  <2>1. IsUnder(gs, 0, [g \in 0..0 |-> <<>>])
    BY DEF IsUnder
  <2> QED BY <2>1
<1>2. ASSUME NEW n \in Nat, n \in S PROVE n + 1 \in S
  <2> SUFFICES ASSUME n + 1 <= Len(gs) PROVE \E u : IsUnder(gs, n + 1, u)
    OBVIOUS
  <2>1. PICK u : IsUnder(gs, n, u)
    BY <1>0, <1>2
  <2> DEFINE v == [g \in 0..n + 1 |-> IF g = n + 1 THEN u[gs[g].parent] \o gs[g].mws ELSE u[g]]
  <2>2. \A g \in 0..n : v[g] = u[g]
    OBVIOUS
  <2>3. ASSUME NEW g \in 0..n + 1
        PROVE  v[g] = IF g = 0 THEN <<>> ELSE v[gs[g].parent] \o gs[g].mws
    <3>1. CASE g = n + 1
      <4>1. g # 0 /\ g \in 1..Len(gs) /\ g - 1 = n
        BY <1>0, <3>1
      <4>2. gs[g].parent \in 0..n
        BY <4>1, ForestIs
      <4>3. v[g] = u[gs[g].parent] \o gs[g].mws
        BY <3>1, Zenon
      <4> HIDE DEF v
      <4>4. v[gs[g].parent] = u[gs[g].parent]
        BY <2>2, <4>2, Zenon
      <4> QED BY <4>1, <4>3, <4>4, Zenon
    <3>2. CASE g \in 0..n
      <4>1. g # 0 => g \in 1..Len(gs) /\ g - 1 < n
        BY <1>0, <3>2
      <4>2. g # 0 => gs[g].parent \in 0..n
        <5> SUFFICES ASSUME g # 0 PROVE gs[g].parent \in 0..n
          OBVIOUS
        <5>1. gs[g].parent \in 0..g - 1
          BY <4>1, ForestIs
        <5> QED BY <3>2, <5>1
      <4>3. u[g] = IF g = 0 THEN <<>> ELSE u[gs[g].parent] \o gs[g].mws
        <5>1. u[g] = [h \in 0..n |-> IF h = 0 THEN <<>> ELSE u[gs[h].parent] \o gs[h].mws][g]
          BY <2>1, Zenon DEF IsUnder
        <5> QED BY <3>2, <5>1, Zenon
      <4> HIDE DEF v
      <4>4. v[g] = u[g] /\ (g # 0 => v[gs[g].parent] = u[gs[g].parent])
        BY <2>2, <3>2, <4>2, Zenon
      <4> QED BY <4>3, <4>4, Zenon
    <3> QED BY <3>1, <3>2
  <2>4. v = [g \in 0..n + 1 |-> v[g]]
    BY Zenon
  <2> HIDE DEF v
  <2>5. [g \in 0..n + 1 |-> v[g]]
          = [g \in 0..n + 1 |-> IF g = 0 THEN <<>> ELSE v[gs[g].parent] \o gs[g].mws]
    BY <2>3, Zenon
  <2>6. IsUnder(gs, n + 1, v)
    BY <2>4, <2>5, Zenon DEF IsUnder
  <2> QED BY <2>6
<1> HIDE DEF S
<1>3. Len(gs) \in S
  BY <1>0, <1>1, <1>2, NatSet
<1> QED BY <1>0, <1>3 DEF S

\* What Under is: the middleware of the parent's, then the group's own.
LEMMA UnderIs ==
    ASSUME NEW gs, Forest(gs), NEW u, IsUnder(gs, Len(gs), u)
    PROVE  /\ u[0] = <<>>
           /\ \A g \in 1..Len(gs) : u[g] = u[gs[g].parent] \o gs[g].mws
           /\ \A g \in 0..Len(gs) : u[g] \in Seq(Mws)
<1>0. Len(gs) \in Nat /\ 0 \in 0..Len(gs)
  BY DEF Forest
<1>1. ASSUME NEW g \in 0..Len(gs)
      PROVE  u[g] = IF g = 0 THEN <<>> ELSE u[gs[g].parent] \o gs[g].mws
  <2>1. u[g] = [h \in 0..Len(gs) |-> IF h = 0 THEN <<>> ELSE u[gs[h].parent] \o gs[h].mws][g]
    BY Zenon DEF IsUnder
  <2> QED BY <2>1, Zenon
<1>2. u[0] = <<>>
  BY <1>0, <1>1
<1>3. ASSUME NEW g \in 1..Len(gs) PROVE u[g] = u[gs[g].parent] \o gs[g].mws
  <2>1. g \in 0..Len(gs) /\ g # 0
    BY <1>0
  <2> QED BY <1>1, <2>1, Zenon
<1> DEFINE S == {n \in Nat : n <= Len(gs) => \A g \in 0..n : u[g] \in Seq(Mws)}
<1>4. 0 \in S
  <2>1. u[0] \in Seq(Mws) /\ \A g \in 0..0 : g = 0
    BY <1>2
  <2> QED BY <2>1
<1>5. ASSUME NEW n \in Nat, n \in S PROVE n + 1 \in S
  <2> SUFFICES ASSUME n + 1 <= Len(gs), NEW g \in 0..n + 1 PROVE u[g] \in Seq(Mws)
    OBVIOUS
  <2>0. \A h \in 0..n : u[h] \in Seq(Mws)
    BY <1>0, <1>5
  <2>1. CASE g = n + 1
    <3>1. g \in 1..Len(gs) /\ g - 1 = n
      BY <1>0, <2>1
    <3>2. gs[g].parent \in 0..n /\ gs[g].mws \in Seq(Mws)
      BY <3>1, ForestIs
    <3>3. u[gs[g].parent] \in Seq(Mws)
      BY <2>0, <3>2
    <3> QED BY <1>3, <3>1, <3>2, <3>3, ConcatProperties
  <2>2. CASE g \in 0..n
    BY <2>0, <2>2
  <2> QED BY <2>1, <2>2
<1> HIDE DEF S
<1>6. Len(gs) \in S
  BY <1>0, <1>4, <1>5, NatSet
<1>7. \A g \in 0..Len(gs) : u[g] \in Seq(Mws)
  BY <1>0, <1>6 DEF S
<1> QED BY <1>2, <1>3, <1>7, Zenon

\* A group more leaves what the others are under.
LEMMA UnderAppend ==
    ASSUME NEW gs, Forest(gs), NEW x, Forest(Append(gs, x)),
           NEW u, IsUnder(gs, Len(gs), u),
           NEW v, IsUnder(Append(gs, x), Len(Append(gs, x)), v)
    PROVE  \A g \in 0..Len(gs) : v[g] = u[g]
<1> DEFINE hs == Append(gs, x)
<1>0. Len(gs) \in Nat /\ Len(hs) = Len(gs) + 1 /\ \A g \in 1..Len(gs) : hs[g] = gs[g]
  BY DEF Forest
<1>1. v[0] = <<>> /\ u[0] = <<>>
  BY UnderIs
<1>2. \A g \in 1..Len(gs) : u[g] = u[gs[g].parent] \o gs[g].mws
  BY UnderIs
<1>3. \A g \in 1..Len(hs) : v[g] = v[hs[g].parent] \o hs[g].mws
  BY UnderIs
<1> HIDE DEF hs
<1> DEFINE S == {n \in Nat : n <= Len(gs) => \A g \in 0..n : v[g] = u[g]}
<1>4. 0 \in S
  BY <1>1
<1>5. ASSUME NEW n \in Nat, n \in S PROVE n + 1 \in S
  <2> SUFFICES ASSUME n + 1 <= Len(gs), NEW g \in 0..n + 1 PROVE v[g] = u[g]
    OBVIOUS
  <2>0. \A h \in 0..n : v[h] = u[h]
    BY <1>0, <1>5
  <2>1. CASE g = n + 1
    <3>1. g \in 1..Len(gs) /\ g - 1 = n /\ g \in 1..Len(hs)
      BY <1>0, <2>1
    <3>2. gs[g].parent \in 0..n
      BY <3>1, ForestIs
    <3>3. v[gs[g].parent] = u[gs[g].parent] /\ hs[g] = gs[g]
      BY <1>0, <2>0, <3>1, <3>2
    <3> QED BY <1>2, <1>3, <3>1, <3>3, Zenon
  <2>2. CASE g \in 0..n
    BY <2>0, <2>2
  <2> QED BY <2>1, <2>2
<1> HIDE DEF S
<1>6. Len(gs) \in S
  BY <1>0, <1>4, <1>5, NatSet
<1> QED BY <1>0, <1>6 DEF S

LEMMA AboveExist ==
    ASSUME NEW gs, Forest(gs)
    PROVE  \E u : IsAbove(gs, Len(gs), u)
<1> DEFINE S == {n \in Nat : n <= Len(gs) => \E u : IsAbove(gs, n, u)}
<1>0. Len(gs) \in Nat
  BY DEF Forest
<1>1. 0 \in S
  <2>1. IsAbove(gs, 0, [g \in 0..0 |-> <<>>])
    BY DEF IsAbove
  <2> QED BY <2>1
<1>2. ASSUME NEW n \in Nat, n \in S PROVE n + 1 \in S
  <2> SUFFICES ASSUME n + 1 <= Len(gs) PROVE \E u : IsAbove(gs, n + 1, u)
    OBVIOUS
  <2>1. PICK u : IsAbove(gs, n, u)
    BY <1>0, <1>2
  <2> DEFINE v == [g \in 0..n + 1 |-> IF g = n + 1 THEN Append(u[gs[g].parent], g) ELSE u[g]]
  <2>2. \A g \in 0..n : v[g] = u[g]
    OBVIOUS
  <2>3. ASSUME NEW g \in 0..n + 1
        PROVE  v[g] = IF g = 0 THEN <<>> ELSE Append(v[gs[g].parent], g)
    <3>1. CASE g = n + 1
      <4>1. g # 0 /\ g \in 1..Len(gs) /\ g - 1 = n
        BY <1>0, <3>1
      <4>2. gs[g].parent \in 0..n
        BY <4>1, ForestIs
      <4>3. v[g] = Append(u[gs[g].parent], g)
        BY <3>1, Zenon
      <4> HIDE DEF v
      <4>4. v[gs[g].parent] = u[gs[g].parent]
        BY <2>2, <4>2, Zenon
      <4> QED BY <4>1, <4>3, <4>4, Zenon
    <3>2. CASE g \in 0..n
      <4>1. g # 0 => g \in 1..Len(gs) /\ g - 1 < n
        BY <1>0, <3>2
      <4>2. g # 0 => gs[g].parent \in 0..n
        <5> SUFFICES ASSUME g # 0 PROVE gs[g].parent \in 0..n
          OBVIOUS
        <5>1. gs[g].parent \in 0..g - 1
          BY <4>1, ForestIs
        <5> QED BY <3>2, <5>1
      <4>3. u[g] = IF g = 0 THEN <<>> ELSE Append(u[gs[g].parent], g)
        <5>1. u[g] = [h \in 0..n |-> IF h = 0 THEN <<>> ELSE Append(u[gs[h].parent], h)][g]
          BY <2>1, Zenon DEF IsAbove
        <5> QED BY <3>2, <5>1, Zenon
      <4> HIDE DEF v
      <4>4. v[g] = u[g] /\ (g # 0 => v[gs[g].parent] = u[gs[g].parent])
        BY <2>2, <3>2, <4>2, Zenon
      <4> QED BY <4>3, <4>4, Zenon
    <3> QED BY <3>1, <3>2
  <2>4. v = [g \in 0..n + 1 |-> v[g]]
    BY Zenon
  <2> HIDE DEF v
  <2>5. [g \in 0..n + 1 |-> v[g]]
          = [g \in 0..n + 1 |-> IF g = 0 THEN <<>> ELSE Append(v[gs[g].parent], g)]
    BY <2>3, Zenon
  <2>6. IsAbove(gs, n + 1, v)
    BY <2>4, <2>5, Zenon DEF IsAbove
  <2> QED BY <2>6
<1> HIDE DEF S
<1>3. Len(gs) \in S
  BY <1>0, <1>1, <1>2, NatSet
<1> QED BY <1>0, <1>3 DEF S

LEMMA AboveIs ==
    ASSUME NEW gs, Forest(gs), NEW a, IsAbove(gs, Len(gs), a)
    PROVE  /\ a[0] = <<>>
           /\ \A g \in 1..Len(gs) : a[g] = Append(a[gs[g].parent], g)
           /\ \A g \in 0..Len(gs) : a[g] \in Seq(1..Len(gs))
<1>0. Len(gs) \in Nat /\ 0 \in 0..Len(gs)
  BY DEF Forest
<1>1. ASSUME NEW g \in 0..Len(gs)
      PROVE  a[g] = IF g = 0 THEN <<>> ELSE Append(a[gs[g].parent], g)
  <2>1. a[g] = [h \in 0..Len(gs) |-> IF h = 0 THEN <<>> ELSE Append(a[gs[h].parent], h)][g]
    BY Zenon DEF IsAbove
  <2> QED BY <2>1, Zenon
<1>2. a[0] = <<>>
  BY <1>0, <1>1
<1>3. ASSUME NEW g \in 1..Len(gs) PROVE a[g] = Append(a[gs[g].parent], g)
  <2>1. g \in 0..Len(gs) /\ g # 0
    BY <1>0
  <2> QED BY <1>1, <2>1, Zenon
<1> DEFINE D == 1..Len(gs)
           S == {n \in Nat : n <= Len(gs) => \A g \in 0..n : a[g] \in Seq(D)}
<1>4. 0 \in S
  <2>1. a[0] \in Seq(D) /\ \A g \in 0..0 : g = 0
    BY <1>2
  <2> QED BY <2>1
<1>5. ASSUME NEW n \in Nat, n \in S PROVE n + 1 \in S
  <2> SUFFICES ASSUME n + 1 <= Len(gs), NEW g \in 0..n + 1 PROVE a[g] \in Seq(D)
    OBVIOUS
  <2>0. \A h \in 0..n : a[h] \in Seq(D)
    BY <1>0, <1>5
  <2>1. CASE g = n + 1
    <3>1. g \in D /\ g - 1 = n
      BY <1>0, <2>1
    <3>2. gs[g].parent \in 0..n
      BY <3>1, ForestIs
    <3>3. a[gs[g].parent] \in Seq(D)
      BY <2>0, <3>2
    <3>4. a[g] = Append(a[gs[g].parent], g)
      BY <1>3, <3>1
    <3> HIDE DEF D
    <3> QED BY <3>1, <3>3, <3>4, AppendProperties
  <2>2. CASE g \in 0..n
    BY <2>0, <2>2
  <2> QED BY <2>1, <2>2
<1> HIDE DEF S
<1>6. Len(gs) \in S
  BY <1>0, <1>4, <1>5, NatSet
<1>7. \A g \in 0..Len(gs) : a[g] \in Seq(D)
  BY <1>0, <1>6 DEF S
<1> QED BY <1>2, <1>3, <1>7, Zenon

-----------------------------------------------------------------------------
(* The chain of an endpoint.                                               *)

IsPrepended(own, parts, n, f) ==
    f = [i \in 0..n |-> IF i = 0 THEN own ELSE parts[Len(parts) + 1 - i] \o f[i - 1]]

LEMMA PrependedExist ==
    ASSUME NEW own, NEW parts, NEW m \in Nat
    PROVE  \E f : IsPrepended(own, parts, m, f)
<1> DEFINE P(i) == parts[Len(parts) + 1 - i]
           S == {n \in Nat : \E f : IsPrepended(own, parts, n, f)}
<1>1. 0 \in S
  <2>1. IsPrepended(own, parts, 0, [i \in 0..0 |-> own])
    BY DEF IsPrepended
  <2> QED BY <2>1
<1>2. ASSUME NEW n \in Nat, n \in S PROVE n + 1 \in S
  <2>1. PICK f : IsPrepended(own, parts, n, f)
    BY <1>2
  <2> DEFINE g == [i \in 0..n + 1 |-> IF i = n + 1 THEN P(i) \o f[n] ELSE f[i]]
  <2>2. \A i \in 0..n : g[i] = f[i]
    OBVIOUS
  <2>3. ASSUME NEW i \in 0..n + 1
        PROVE  g[i] = IF i = 0 THEN own ELSE P(i) \o g[i - 1]
    <3>1. CASE i = n + 1
      <4>1. i # 0 /\ i - 1 = n /\ n \in 0..n
        BY <3>1
      <4>2. g[i] = P(i) \o f[n]
        BY <3>1, Zenon
      <4> HIDE DEF g, P
      <4>3. g[i - 1] = f[n]
        BY <2>2, <4>1
      <4> QED BY <4>1, <4>2, <4>3, Zenon
    <3>2. CASE i \in 0..n
      <4>1. f[i] = IF i = 0 THEN own ELSE P(i) \o f[i - 1]
        <5>1. f[i] = [j \in 0..n |-> IF j = 0 THEN own ELSE P(j) \o f[j - 1]][i]
          BY <2>1, Zenon DEF IsPrepended
        <5> QED BY <3>2, <5>1, Zenon
      <4>2. i # 0 => i - 1 \in 0..n
        BY <3>2
      <4> HIDE DEF g, P
      <4> QED BY <2>2, <3>2, <4>1, <4>2, Zenon
    <3> QED BY <3>1, <3>2
  <2>4. g = [i \in 0..n + 1 |-> g[i]]
    BY Zenon
  <2> HIDE DEF g
  <2>5. [i \in 0..n + 1 |-> g[i]] = [i \in 0..n + 1 |-> IF i = 0 THEN own ELSE P(i) \o g[i - 1]]
    BY <2>3, Zenon
  <2>6. IsPrepended(own, parts, n + 1, g)
    BY <2>4, <2>5, Zenon DEF IsPrepended
  <2> QED BY <2>6
<1> HIDE DEF S
<1>3. m \in S
  BY <1>1, <1>2, NatSet
<1> QED BY <1>3 DEF S

\* The loop of flatten_chain, as a function of the groups it has passed.
Ups(own, parts) == CHOOSE f : IsPrepended(own, parts, Len(parts), f)

UpsOf(own, parts, f) ==
    /\ Prepended(own, parts) = f[Len(parts)]
    /\ f[0] = own
    /\ \A i \in 1..Len(parts) : f[i] = parts[Len(parts) + 1 - i] \o f[i - 1]

LEMMA UpsIs ==
    ASSUME NEW own, NEW parts, Len(parts) \in Nat
    PROVE  UpsOf(own, parts, Ups(own, parts))
<1> DEFINE f == Ups(own, parts)
<1>1. IsPrepended(own, parts, Len(parts), f)
  BY PrependedExist DEF Ups
<1>2. Prepended(own, parts) = f[Len(parts)]
  BY Zenon DEF Prepended, Ups, IsPrepended
<1> HIDE DEF f
<1>3. ASSUME NEW i \in 0..Len(parts)
      PROVE  f[i] = IF i = 0 THEN own ELSE parts[Len(parts) + 1 - i] \o f[i - 1]
  <2>1. f[i] = [j \in 0..Len(parts) |->
                  IF j = 0 THEN own ELSE parts[Len(parts) + 1 - j] \o f[j - 1]][i]
    BY <1>1, Zenon DEF IsPrepended
  <2> QED BY <2>1, Zenon
<1>4. 0 \in 0..Len(parts) /\ \A i \in 1..Len(parts) : i \in 0..Len(parts) /\ i # 0
  OBVIOUS
<1>5. f[0] = own /\ \A i \in 1..Len(parts) : f[i] = parts[Len(parts) + 1 - i] \o f[i - 1]
  BY <1>3, <1>4, Zenon
<1> QED BY <1>2, <1>5, Zenon DEF f, UpsOf

LEMMA ConcatAgain ==
    ASSUME NEW S, NEW x \in Seq(S), NEW y \in Seq(S), NEW z \in Seq(S)
    PROVE  x \o (y \o z) = (x \o y) \o z
BY ConcatAssociative

\* The inmost group's part goes in front first.
LEMMA PrependedAppend ==
    ASSUME NEW own, NEW D, NEW parts \in Seq(D), NEW p \in D
    PROVE  Prepended(own, Append(parts, p)) = Prepended(p \o own, parts)
<1> DEFINE more == Append(parts, p)
           f == Ups(own, more)
           h == Ups(p \o own, parts)
           S == {n \in Nat : f[n + 1] = h[n]}
<1>0. /\ Len(parts) \in Nat /\ Len(more) = Len(parts) + 1 /\ Len(more) \in Nat
      /\ more[Len(parts) + 1] = p /\ \A i \in 1..Len(parts) : more[i] = parts[i]
  BY AppendProperties
<1> HIDE DEF more
<1>1. /\ Prepended(own, more) = f[Len(more)] /\ f[0] = own
      /\ \A i \in 1..Len(more) : f[i] = more[Len(more) + 1 - i] \o f[i - 1]
  <2>1. UpsOf(own, more, f)
    BY <1>0, UpsIs, Zenon
  <2> QED BY <2>1, Zenon DEF UpsOf
<1>2. /\ Prepended(p \o own, parts) = h[Len(parts)] /\ h[0] = p \o own
      /\ \A i \in 1..Len(parts) : h[i] = parts[Len(parts) + 1 - i] \o h[i - 1]
  <2>1. UpsOf(p \o own, parts, h)
    BY <1>0, UpsIs, Zenon
  <2> QED BY <2>1, Zenon DEF UpsOf
<1> HIDE DEF f, h
<1>3. 0 \in S
  <2>1. 1 \in 1..Len(more) /\ Len(more) + 1 - 1 = Len(parts) + 1 /\ 1 - 1 = 0 /\ 0 + 1 = 1
    BY <1>0
  <2>2. f[1] = p \o own
    <3>1. f[1] = more[Len(more) + 1 - 1] \o f[1 - 1]
      BY <1>1, <2>1, Zenon
    <3> QED BY <1>0, <1>1, <2>1, <3>1, Zenon
  <2> QED BY <1>2, <2>1, <2>2
<1>4. ASSUME NEW n \in Nat, n < Len(parts), n \in S PROVE n + 1 \in S
  <2> DEFINE i == n + 1
             j == Len(parts) + 1 - i
  <2>1. /\ i + 1 \in 1..Len(more) /\ i \in 1..Len(parts) /\ j \in 1..Len(parts)
        /\ Len(more) + 1 - (i + 1) = j /\ (i + 1) - 1 = i /\ i - 1 = n
    BY <1>0, <1>4
  <2>2. f[i] = h[n]
    BY <1>4
  <2>3. more[j] = parts[j]
    BY <1>0, <2>1
  <2>4. f[i + 1] = more[Len(more) + 1 - (i + 1)] \o f[(i + 1) - 1]
    BY <1>1, <2>1, Zenon
  <2>5. h[i] = parts[Len(parts) + 1 - i] \o h[i - 1]
    BY <1>2, <2>1, Zenon
  <2> HIDE DEF i
  <2>6. f[i + 1] = h[i]
    BY <2>1, <2>2, <2>3, <2>4, <2>5, Zenon
  <2> QED BY <2>6 DEF i
<1> DEFINE T == {n \in Nat : n <= Len(parts) => n \in S}
<1>5. Len(parts) \in T
  <2>1. 0 \in T
    BY <1>3
  <2>2. ASSUME NEW n \in Nat, n \in T PROVE n + 1 \in T
    <3> HIDE DEF S
    <3> QED BY <1>0, <1>4, <2>2
  <2> HIDE DEF T
  <2> QED BY <1>0, <2>1, <2>2, NatSet
<1>6. f[Len(parts) + 1] = h[Len(parts)]
  BY <1>0, <1>5
<1> QED BY <1>0, <1>1, <1>2, <1>6 DEF more

\* What the groups of a have.
Parts(gs, a) == [i \in DOMAIN a |-> gs[a[i]].mws]

\* Prepending the middleware of the groups above one by one is what the group
\* is under, in front of the endpoint's own.
LEMMA ChainIsUnder ==
    ASSUME NEW gs, Forest(gs), NEW u, IsUnder(gs, Len(gs), u),
           NEW a, IsAbove(gs, Len(gs), a), NEW g \in 0..Len(gs), NEW own \in Seq(Mws)
    PROVE  Prepended(own, Parts(gs, a[g])) = u[g] \o own
<1>0. Len(gs) \in Nat
  BY DEF Forest
<1>1. /\ u[0] = <<>> /\ \A h \in 1..Len(gs) : u[h] = u[gs[h].parent] \o gs[h].mws
      /\ \A h \in 0..Len(gs) : u[h] \in Seq(Mws)
  BY UnderIs
<1>2. /\ a[0] = <<>> /\ \A h \in 1..Len(gs) : a[h] = Append(a[gs[h].parent], h)
      /\ \A h \in 0..Len(gs) : a[h] \in Seq(1..Len(gs))
  BY AboveIs
<1>3. \A h \in 1..Len(gs) : gs[h].mws \in Seq(Mws)
  BY ForestIs
<1> DEFINE Right(h) == \A o \in Seq(Mws) : Prepended(o, Parts(gs, a[h])) = u[h] \o o
           S == {n \in Nat : n <= Len(gs) => \A h \in 0..n : Right(h)}
<1>4. 0 \in S
  <2>1. Right(0)
    <3> SUFFICES ASSUME NEW o \in Seq(Mws) PROVE Prepended(o, Parts(gs, a[0])) = u[0] \o o
      OBVIOUS
    <3>1. Parts(gs, a[0]) = <<>>
      BY <1>2 DEF Parts
    <3>2. Prepended(o, <<>>) = o
      <4>1. Len(<<>>) = 0 /\ 0 \in Nat
        OBVIOUS
      <4>2. UpsOf(o, <<>>, Ups(o, <<>>))
        BY <4>1, UpsIs, Zenon
      <4> QED BY <4>1, <4>2, Zenon DEF UpsOf
    <3> QED BY <1>1, <3>1, <3>2, ConcatEmptySeq
  <2>2. \A h \in 0..0 : h = 0
    OBVIOUS
  <2> HIDE DEF Right
  <2> QED BY <2>1, <2>2
<1>5. ASSUME NEW n \in Nat, n \in S PROVE n + 1 \in S
  <2> HIDE DEF Right
  <2> SUFFICES ASSUME n + 1 <= Len(gs), NEW h \in 0..n + 1 PROVE Right(h)
    OBVIOUS
  <2>0. \A x \in 0..n : Right(x)
    BY <1>0, <1>5
  <2>1. CASE h = n + 1
    <3> DEFINE p == gs[h].parent
               b == a[p]
    <3>1. h \in 1..Len(gs) /\ h - 1 = n
      BY <1>0, <2>1
    <3>2. p \in 0..n /\ p \in 0..Len(gs) /\ gs[h].mws \in Seq(Mws)
      BY <3>1, ForestIs
    <3>3. Right(p)
      BY <2>0, <3>2
    <3>4. b \in Seq(1..Len(gs)) /\ a[h] = Append(b, h)
      BY <1>2, <3>1, <3>2
    <3> HIDE DEF p, b
    <3>5. Parts(gs, b) \in Seq(Seq(Mws))
      <4>1. Len(b) \in Nat /\ DOMAIN b = 1..Len(b) /\ \A i \in 1..Len(b) : b[i] \in 1..Len(gs)
        BY <3>4
      <4>2. Parts(gs, b) = [i \in 1..Len(b) |-> gs[b[i]].mws]
        BY <4>1 DEF Parts
      <4>3. \A i \in 1..Len(b) : gs[b[i]].mws \in Seq(Mws)
        BY <1>3, <4>1
      <4> QED BY <4>1, <4>2, <4>3, SeqDef
    <3>6. Parts(gs, Append(b, h)) = Append(Parts(gs, b), gs[h].mws)
      <4>1. /\ Len(b) \in Nat /\ DOMAIN b = 1..Len(b) /\ Len(Append(b, h)) = Len(b) + 1
            /\ DOMAIN Append(b, h) = 1..Len(b) + 1 /\ Append(b, h)[Len(b) + 1] = h
            /\ \A i \in 1..Len(b) : Append(b, h)[i] = b[i]
        BY <3>1, <3>4
      <4>2. Len(Parts(gs, b)) = Len(b)
        BY <4>1 DEF Parts
      <4> DEFINE x == Append(Parts(gs, b), gs[h].mws)
      <4>3. /\ DOMAIN x = 1..Len(b) + 1 /\ x[Len(b) + 1] = gs[h].mws
            /\ \A i \in 1..Len(b) : x[i] = Parts(gs, b)[i]
            /\ x = [i \in 1..Len(b) + 1 |-> x[i]]
        BY <3>2, <3>5, <4>1, <4>2
      <4>4. \A i \in 1..Len(b) : Parts(gs, b)[i] = gs[b[i]].mws
        BY <4>1 DEF Parts
      <4> HIDE DEF x
      <4>5. \A i \in 1..Len(b) + 1 : x[i] = gs[Append(b, h)[i]].mws
        <5> SUFFICES ASSUME NEW i \in 1..Len(b) + 1 PROVE x[i] = gs[Append(b, h)[i]].mws
          OBVIOUS
        <5>1. CASE i = Len(b) + 1
          BY <4>1, <4>3, <5>1, Zenon
        <5>2. CASE i \in 1..Len(b)
          BY <4>1, <4>3, <4>4, <5>2, Zenon
        <5> QED BY <4>1, <5>1, <5>2
      <4>6. Parts(gs, Append(b, h)) = [i \in 1..Len(b) + 1 |-> gs[Append(b, h)[i]].mws]
        BY <4>1, Zenon DEF Parts
      <4>7. Parts(gs, Append(b, h)) = x
        BY <4>3, <4>5, <4>6, Zenon
      <4> QED BY <4>7 DEF x
    <3>7. ASSUME NEW o \in Seq(Mws) PROVE Prepended(o, Parts(gs, a[h])) = u[h] \o o
      <4> DEFINE m == gs[h].mws
      <4>1. m \o o \in Seq(Mws)
        BY <3>2, ConcatProperties
      <4>2. Prepended(o, Parts(gs, a[h])) = Prepended(m \o o, Parts(gs, b))
        BY <3>2, <3>4, <3>5, <3>6, PrependedAppend
      <4>3. Prepended(m \o o, Parts(gs, b)) = u[p] \o (m \o o)
        BY <3>3, <4>1 DEF Right, b
      <4>4. u[p] \in Seq(Mws) /\ u[h] = u[p] \o m
        BY <1>1, <3>1, <3>2 DEF p
      <4>5. u[p] \o (m \o o) = (u[p] \o m) \o o
        <5>1. m \in Seq(Mws)
          BY <3>2
        <5>2. u[p] \in Seq(Mws)
          BY <4>4
        <5> DEFINE x == u[p]
        <5> HIDE DEF m, x
        <5>3. x \in Seq(Mws) /\ m \in Seq(Mws) /\ o \in Seq(Mws)
          BY <5>1, <5>2 DEF x
        <5>4. x \o (m \o o) = (x \o m) \o o
          BY <5>3, ConcatAgain, SMTT(30)
        <5> QED BY <5>4 DEF x
      <4> QED BY <4>2, <4>3, <4>4, <4>5, Zenon
    <3> QED BY <3>7 DEF Right
  <2>2. CASE h \in 0..n
    BY <2>0, <2>2
  <2> QED BY <2>1, <2>2
<1> HIDE DEF S, Right
<1>6. Len(gs) \in S
  BY <1>0, <1>4, <1>5, NatSet
<1>7. Right(g)
  BY <1>0, <1>6 DEF S
<1> QED BY <1>7 DEF Right

-----------------------------------------------------------------------------
(* The tree, and the walk of a request down it.                            *)

\* A tree whose nodes hold endpoints that are there.
IsTree(t, n) ==
    /\ t = [d \in DOMAIN t |-> t[d]]
    /\ <<>> \in DOMAIN t
    /\ \A d \in DOMAIN t : t[d] \in Seq(1..n)

LEMMA InsertIs ==
    ASSUME NEW n \in Nat, NEW t, IsTree(t, n), NEW e \in 1..n
    PROVE  IsTree(insert(t, e), n)
<1> DEFINE path == full_path(e)
           r    == Reach(path)
           way  == {Edges(SubSeq(path, 1, i)) : i \in 0..r}
           made == [d \in DOMAIN t \cup way |-> IF d \in DOMAIN t THEN t[d] ELSE <<>>]
           last == Edges(path)
           E    == 1..n
           more == [made EXCEPT ![last] = Append(@, e)]
<1>1. insert(t, e) = made \/ insert(t, e) = more
  BY Zenon DEF insert
<1> HIDE DEF path, r, way, last, E
<1>2. /\ DOMAIN made = DOMAIN t \cup way /\ made = [d \in DOMAIN made |-> made[d]]
      /\ <<>> \in DOMAIN made /\ \A d \in DOMAIN made : made[d] \in Seq(E)
  <2>1. \A d \in DOMAIN t : t[d] \in Seq(E)
    BY DEF IsTree, E
  <2>2. <<>> \in Seq(E)
    OBVIOUS
  <2> QED BY <2>1, <2>2 DEF IsTree
<1>3. e \in E
  BY DEF E
<1> HIDE DEF made
<1>4. /\ DOMAIN more = DOMAIN made /\ more = [d \in DOMAIN more |-> more[d]]
      /\ \A d \in DOMAIN made : more[d] = IF d = last THEN Append(made[d], e) ELSE made[d]
  BY <1>2
<1> HIDE DEF more
<1>5. \A d \in DOMAIN more : more[d] \in Seq(E)
  <2> SUFFICES ASSUME NEW d \in DOMAIN made PROVE more[d] \in Seq(E)
    BY <1>4
  <2>1. made[d] \in Seq(E)
    BY <1>2
  <2>2. Append(made[d], e) \in Seq(E)
    BY <1>3, <2>1, AppendProperties
  <2> QED BY <1>4, <2>1, <2>2
<1>6. IsTree(made, n) /\ IsTree(more, n)
  BY <1>2, <1>4, <1>5 DEF IsTree, E
<1> QED BY <1>1, <1>6

IsInserted(n, f) == f = [i \in 0..n |-> IF i = 0 THEN tree ELSE insert(f[i - 1], i)]

LEMMA InsertedExist ==
    ASSUME NEW m \in Nat
    PROVE  \E f : IsInserted(m, f)
<1> DEFINE S == {n \in Nat : \E f : IsInserted(n, f)}
<1>1. 0 \in S
  <2>1. IsInserted(0, [i \in 0..0 |-> tree])
    BY DEF IsInserted
  <2> QED BY <2>1
<1>2. ASSUME NEW n \in Nat, n \in S PROVE n + 1 \in S
  <2>1. PICK f : IsInserted(n, f)
    BY <1>2
  <2> DEFINE g == [i \in 0..n + 1 |-> IF i = n + 1 THEN insert(f[n], i) ELSE f[i]]
  <2>2. \A i \in 0..n : g[i] = f[i]
    OBVIOUS
  <2>3. ASSUME NEW i \in 0..n + 1
        PROVE  g[i] = IF i = 0 THEN tree ELSE insert(g[i - 1], i)
    <3>1. CASE i = n + 1
      <4>1. i # 0 /\ i - 1 = n /\ n \in 0..n
        BY <3>1
      <4>2. g[i] = insert(f[n], i)
        BY <3>1, Zenon
      <4> HIDE DEF g
      <4>3. g[i - 1] = f[n]
        BY <2>2, <4>1
      <4> QED BY <4>1, <4>2, <4>3, Zenon
    <3>2. CASE i \in 0..n
      <4>1. f[i] = IF i = 0 THEN tree ELSE insert(f[i - 1], i)
        <5>1. f[i] = [j \in 0..n |-> IF j = 0 THEN tree ELSE insert(f[j - 1], j)][i]
          BY <2>1, Zenon DEF IsInserted
        <5> QED BY <3>2, <5>1, Zenon
      <4>2. i # 0 => i - 1 \in 0..n
        BY <3>2
      <4> HIDE DEF g
      <4> QED BY <2>2, <3>2, <4>1, <4>2, Zenon
    <3> QED BY <3>1, <3>2
  <2>4. g = [i \in 0..n + 1 |-> g[i]]
    BY Zenon
  <2> HIDE DEF g
  <2>5. [i \in 0..n + 1 |-> g[i]] = [i \in 0..n + 1 |-> IF i = 0 THEN tree ELSE insert(g[i - 1], i)]
    BY <2>3, Zenon
  <2>6. IsInserted(n + 1, g)
    BY <2>4, <2>5, Zenon DEF IsInserted
  <2> QED BY <2>6
<1> HIDE DEF S
<1>3. m \in S
  BY <1>1, <1>2, NatSet
<1> QED BY <1>3 DEF S

LEMMA InsertedIs ==
    ASSUME Len(endpoints) \in Nat, IsTree(tree, Len(endpoints))
    PROVE  IsTree(Inserted[Len(endpoints)], Len(endpoints))
<1> DEFINE m == Len(endpoints)
           f == Inserted
<1>1. IsInserted(m, f)
  <2>1. \E x : IsInserted(m, x)
    BY InsertedExist
  <2> QED BY <2>1, Zenon DEF Inserted, IsInserted
<1> HIDE DEF f
<1>2. ASSUME NEW i \in 0..m PROVE f[i] = IF i = 0 THEN tree ELSE insert(f[i - 1], i)
  <2>1. f[i] = [j \in 0..m |-> IF j = 0 THEN tree ELSE insert(f[j - 1], j)][i]
    BY <1>1, Zenon DEF IsInserted
  <2> QED BY <2>1, Zenon
<1> DEFINE S == {n \in Nat : n <= m => IsTree(f[n], m)}
<1>3. 0 \in S
  <2>1. 0 \in 0..m
    OBVIOUS
  <2>2. f[0] = tree
    BY <1>2, <2>1
  <2> QED BY <2>2
<1>4. ASSUME NEW n \in Nat, n \in S PROVE n + 1 \in S
  <2> SUFFICES ASSUME n + 1 <= m PROVE IsTree(f[n + 1], m)
    OBVIOUS
  <2>1. n + 1 \in 0..m /\ n + 1 \in 1..m /\ n + 1 # 0 /\ (n + 1) - 1 = n
    OBVIOUS
  <2>2. IsTree(f[n], m)
    BY <1>4
  <2>3. f[n + 1] = insert(f[n], n + 1)
    BY <1>2, <2>1, Zenon
  <2>4. IsTree(insert(f[n], n + 1), m)
    BY <2>1, <2>2, InsertIs
  <2> QED BY <2>3, <2>4
<1> HIDE DEF S
<1>5. m \in S
  BY <1>3, <1>4, NatSet
<1> QED BY <1>5 DEF S, f

\* A node answers with an endpoint that is there, or with none.
LEMMA EndpointForIs ==
    ASSUME Len(endpoints) \in Nat, IsTree(tree, Len(endpoints)), NEW node \in DOMAIN tree, NEW m
    PROVE  endpoint_for(node, m) \in 0..Len(endpoints)
<1> DEFINE with(x) == {e \in ToSet(tree[node]) : endpoints[e].method = x}
<1>1. tree[node] \in Seq(1..Len(endpoints))
  BY DEF IsTree
<1>2. \A e \in ToSet(tree[node]) : e \in 0..Len(endpoints)
  BY <1>1 DEF ToSet
<1>3. /\ with(m) # {} => (CHOOSE e \in with(m) : TRUE) \in with(m)
      /\ with("GET") # {} => (CHOOSE e \in with("GET") : TRUE) \in with("GET")
  BY Zenon
<1>4. /\ with(m) # {} => (CHOOSE e \in with(m) : TRUE) \in 0..Len(endpoints)
      /\ with("GET") # {} => (CHOOSE e \in with("GET") : TRUE) \in 0..Len(endpoints)
  BY <1>2, <1>3
<1>5. 0 \in 0..Len(endpoints)
  OBVIOUS
<1>6. CASE with(m) # {}
  <2>1. endpoint_for(node, m) = CHOOSE e \in with(m) : TRUE
    BY <1>6 DEF endpoint_for
  <2> QED BY <1>4, <1>6, <2>1
<1>7. CASE with(m) = {} /\ m = "HEAD" /\ with("GET") # {}
  <2>1. endpoint_for(node, m) = CHOOSE e \in with("GET") : TRUE
    BY <1>7 DEF endpoint_for
  <2> QED BY <1>4, <1>7, <2>1
<1>8. CASE with(m) = {} /\ ~ (m = "HEAD" /\ with("GET") # {})
  <2>1. endpoint_for(node, m) = 0
    BY <1>8 DEF endpoint_for
  <2> QED BY <1>5, <2>1
<1> QED BY <1>6, <1>7, <1>8

\* What the walk from a child may do: take captures, never give back those it
\* was called with.
Walking(rq, below) ==
    \A node \in DOMAIN tree, st \in Walks(rq) :
        /\ below[node][st] \in Walks(rq)
        /\ Len(below[node][st].params) >= Len(st.params)

LEMMA WalkEdits ==
    ASSUME NEW A, NEW B, NEW C, NEW r \in [ep : A, params : B, seen : C],
           NEW a \in A, NEW b \in B, NEW c \in C
    PROVE  /\ [r EXCEPT !.ep = a, !.seen = c] \in [ep : A, params : B, seen : C]
           /\ [r EXCEPT !.ep = a, !.seen = c].params = r.params
           /\ [r EXCEPT !.params = b] \in [ep : A, params : B, seen : C]
           /\ [r EXCEPT !.params = b].params = b
OBVIOUS

LEMMA VisitIs ==
    ASSUME Len(endpoints) \in Nat, IsTree(tree, Len(endpoints)),
           NEW rq, Len(rq.path) \in Nat, DOMAIN rq.path = 1..Len(rq.path),
           NEW n \in 0..Len(rq.path), NEW below, n # 0 => Walking(rq, below),
           NEW node \in DOMAIN tree, NEW st \in Walks(rq)
    PROVE  /\ visit(rq, n, below, node, st) \in Walks(rq)
           /\ Len(visit(rq, n, below, node, st).params) >= Len(st.params)
<1> DEFINE P == ToSet(rq.path)
           T == DOMAIN tree
           E == 0..Len(endpoints)
           v == visit(rq, n, below, node, st)
<1>0. Walks(rq) = [ep : E, params : Seq(P), seen : Seq(T)]
  BY DEF Walks
<1>1. st.ep \in E /\ st.params \in Seq(P) /\ st.seen \in Seq(T) /\ Len(st.params) \in Nat
  BY <1>0
<1>2. CASE n = 0
  <2> DEFINE s == IF tree[node] # <<>> /\ Len(st.seen) < SEEN_MAX
                  THEN Append(st.seen, node) ELSE st.seen
             e == endpoint_for(node, rq.method)
  <2>1. v = [st EXCEPT !.ep = e, !.seen = s]
    BY <1>2 DEF visit
  <2>2. e \in E
    BY EndpointForIs
  <2>3. s \in Seq(T)
    BY <1>1, AppendProperties
  <2> HIDE DEF s, e, v, P, T, E
  <2>4. v \in [ep : E, params : Seq(P), seen : Seq(T)] /\ v.params = st.params
    <3>1. st \in [ep : E, params : Seq(P), seen : Seq(T)]
      BY <1>0
    <3> QED BY <1>1, <2>1, <2>2, <2>3, <3>1, WalkEdits
  <2> QED BY <1>0, <1>1, <2>4 DEF v
<1>3. CASE n # 0
  <2> DEFINE seg    == rq.path[Len(rq.path) + 1 - n]
             kid    == Append(node, Seg(seg))
             param  == Append(node, Param)
             static == IF kid \in DOMAIN tree THEN below[kid][st] ELSE st
             mark   == Len(static.params)
             taken  == [static EXCEPT !.params = Append(@, seg)]
             capture == below[param][taken]
  <2>1. v = IF static.ep # 0 \/ param \notin DOMAIN tree \/ mark >= MAX_ROUTE_PARAMS
            THEN static
            ELSE IF capture.ep # 0 THEN capture
            ELSE GiveBack(capture, mark)
    BY <1>3, Zenon DEF visit
  <2>2. seg \in P
    <3>1. Len(rq.path) + 1 - n \in 1..Len(rq.path)
      BY <1>3
    <3> QED BY <3>1 DEF ToSet
  <2> HIDE DEF seg, kid, param, P, v
  <2>3. static \in Walks(rq) /\ Len(static.params) >= Len(st.params)
    BY <1>1, <1>3 DEF Walking
  <2> HIDE DEF static
  <2>4. mark \in Nat /\ static.params \in Seq(P) /\ static.ep \in E /\ static.seen \in Seq(T)
    BY <1>0, <2>3
  <2>5. taken \in Walks(rq) /\ Len(taken.params) = mark + 1
    <3>1. Append(static.params, seg) \in Seq(P) /\ Len(Append(static.params, seg)) = mark + 1
      BY <2>2, <2>4, AppendProperties
    <3>2. /\ taken.params = Append(static.params, seg)
          /\ taken.ep = static.ep /\ taken.seen = static.seen
      BY <1>0, <2>3
    <3>3. taken \in [ep : E, params : Seq(P), seen : Seq(T)]
      BY <1>0, <2>3, <2>4, <3>1
    <3> QED BY <1>0, <3>1, <3>2, <3>3
  <2> HIDE DEF taken
  <2>6. CASE v = static
    BY <2>3, <2>6 DEF v
  <2>7. CASE param \in DOMAIN tree /\ (v = capture \/ v = GiveBack(capture, mark))
    <3>1. capture \in Walks(rq) /\ Len(capture.params) >= mark + 1
      BY <1>3, <2>5, <2>7 DEF Walking
    <3> HIDE DEF capture
    <3>2. capture.params \in Seq(P) /\ Len(capture.params) \in Nat
      BY <1>0, <3>1
    <3>3. CASE v = capture
      BY <1>1, <2>3, <2>4, <3>1, <3>2, <3>3 DEF v
    <3>4. CASE v = GiveBack(capture, mark)
      <4> DEFINE cut == SubSeq(capture.params, 1, mark)
      <4>1. cut \in Seq(P) /\ Len(cut) = mark
        BY <2>4, <3>1, <3>2, SubSeqProperties
      <4>2. v = [capture EXCEPT !.params = cut]
        BY <3>4 DEF GiveBack
      <4> HIDE DEF cut, E, T
      <4>3. v \in [ep : E, params : Seq(P), seen : Seq(T)] /\ v.params = cut
        <5>1. capture \in [ep : E, params : Seq(P), seen : Seq(T)]
          BY <1>0, <3>1
        <5>2. capture.ep \in E /\ capture.seen \in Seq(T)
          BY <5>1
        <5> QED BY <4>1, <4>2, <5>1, <5>2, WalkEdits
      <4> QED BY <1>0, <1>1, <2>3, <2>4, <4>1, <4>3 DEF v
    <3> QED BY <2>7, <3>3, <3>4
  <2> QED BY <2>1, <2>6, <2>7
<1> QED BY <1>2, <1>3

\* The walk from a node, of n segments.
Down(rq, n, below) ==
    [node \in DOMAIN tree |-> [st \in Walks(rq) |-> visit(rq, n, below, node, st)]]

LEMMA VisitLast ==
    ASSUME NEW rq, NEW x, NEW y
    PROVE  Down(rq, 0, x) = Down(rq, 0, y)
BY DEF Down, visit

LEMMA DownExist ==
    ASSUME NEW rq, NEW m \in Nat
    PROVE  \E f : f = [i \in 0..m |-> Down(rq, i, f[i - 1])]
<1> DEFINE Is(n, f) == f = [i \in 0..n |-> Down(rq, i, f[i - 1])]
           S == {n \in Nat : \E f : Is(n, f)}
<1>1. 0 \in S
  <2> DEFINE f == [i \in 0..0 |-> Down(rq, 0, {})]
  <2>1. \A i \in 0..0 : i = 0
    OBVIOUS
  <2>2. \A i \in 0..0 : Down(rq, 0, {}) = Down(rq, i, f[i - 1])
    BY <2>1, VisitLast
  <2> HIDE DEF Is
  <2>3. f = [i \in 0..0 |-> Down(rq, i, f[i - 1])]
    BY <2>2, Zenon
  <2> HIDE DEF f
  <2>4. Is(0, f)
    BY <2>3 DEF Is
  <2> QED BY <2>4
<1>2. ASSUME NEW n \in Nat, n \in S PROVE n + 1 \in S
  <2>1. PICK f : Is(n, f)
    BY <1>2
  <2> DEFINE g == [i \in 0..n + 1 |-> IF i = n + 1 THEN Down(rq, i, f[n]) ELSE f[i]]
  <2>2. \A i \in 0..n : g[i] = f[i]
    OBVIOUS
  <2>3. ASSUME NEW i \in 0..n + 1 PROVE g[i] = Down(rq, i, g[i - 1])
    <3>1. CASE i = n + 1
      <4>1. i - 1 = n /\ n \in 0..n
        BY <3>1
      <4>2. g[i] = Down(rq, i, f[n])
        BY <3>1, Zenon
      <4> HIDE DEF g
      <4>3. g[i - 1] = f[n]
        BY <2>2, <4>1
      <4> QED BY <4>2, <4>3, Zenon
    <3>2. CASE i \in 0..n
      <4>1. f[i] = Down(rq, i, f[i - 1])
        BY <2>1, <3>2, Zenon
      <4>2. i # 0 => i - 1 \in 0..n
        BY <3>2
      <4> HIDE DEF g
      <4>3. CASE i = 0
        BY <2>2, <3>2, <4>1, <4>3, VisitLast, Zenon
      <4>4. CASE i # 0
        BY <2>2, <3>2, <4>1, <4>2, <4>4, Zenon
      <4> QED BY <4>3, <4>4
    <3> QED BY <3>1, <3>2
  <2>4. g = [i \in 0..n + 1 |-> g[i]]
    BY Zenon
  <2> HIDE DEF g
  <2>5. [i \in 0..n + 1 |-> g[i]] = [i \in 0..n + 1 |-> Down(rq, i, g[i - 1])]
    BY <2>3, Zenon
  <2>6. Is(n + 1, g)
    BY <2>4, <2>5, Zenon
  <2> HIDE DEF Is
  <2> QED BY <2>6
<1> HIDE DEF S
<1>3. m \in S
  BY <1>1, <1>2, NatSet
<1> QED BY <1>3 DEF S

\* Wherever the walk ends, it is at an endpoint that is there, or at none.
LEMMA WalkIs ==
    ASSUME Len(endpoints) \in Nat, IsTree(tree, Len(endpoints)),
           NEW rq, Len(rq.path) \in Nat, DOMAIN rq.path = 1..Len(rq.path)
    PROVE  walk(rq).ep \in 0..Len(endpoints)
<1> DEFINE m == Len(rq.path)
           first == [ep |-> 0, params |-> <<>>, seen |-> <<>>]
<1>1. PICK f : f = [i \in 0..m |-> Down(rq, i, f[i - 1])]
  BY DownExist
<1> DEFINE d == CHOOSE f0 : f0 = [i \in 0..m |-> Down(rq, i, f0[i - 1])]
<1>2. d = [i \in 0..m |-> Down(rq, i, d[i - 1])]
  BY <1>1, Zenon
<1>3. walk(rq) = d[m][<<>>][first]
  BY Zenon DEF walk, Down
<1> HIDE DEF d
<1> DEFINE S == {n \in Nat : n <= m => Walking(rq, d[n])}
<1>4. ASSUME NEW n \in 0..m, n # 0 => Walking(rq, d[n - 1]) PROVE Walking(rq, d[n])
  <2>1. d[n] = Down(rq, n, d[n - 1])
    BY <1>2, Zenon
  <2> SUFFICES ASSUME NEW node \in DOMAIN tree, NEW st \in Walks(rq)
               PROVE  /\ d[n][node][st] \in Walks(rq)
                      /\ Len(d[n][node][st].params) >= Len(st.params)
    BY DEF Walking
  <2>2. d[n][node][st] = visit(rq, n, d[n - 1], node, st)
    <3>1. d[n][node] = [x \in Walks(rq) |-> visit(rq, n, d[n - 1], node, x)]
      BY <2>1 DEF Down
    <3> QED BY <3>1
  <2>3. /\ visit(rq, n, d[n - 1], node, st) \in Walks(rq)
        /\ Len(visit(rq, n, d[n - 1], node, st).params) >= Len(st.params)
    BY <1>4, VisitIs
  <2> QED BY <2>2, <2>3, Zenon
<1>5. 0 \in S
  BY <1>4
<1>6. ASSUME NEW n \in Nat, n \in S PROVE n + 1 \in S
  <2> SUFFICES ASSUME n + 1 <= m PROVE Walking(rq, d[n + 1])
    OBVIOUS
  <2>1. n + 1 \in 0..m /\ (n + 1) - 1 = n
    OBVIOUS
  <2>2. Walking(rq, d[n])
    BY <1>6
  <2> QED BY <1>4, <2>1, <2>2
<1> HIDE DEF S
<1>7. m \in S
  BY <1>5, <1>6, NatSet
<1>8. Walking(rq, d[m])
  BY <1>7 DEF S
<1>9. first \in Walks(rq) /\ <<>> \in DOMAIN tree
  BY DEF Walks, IsTree
<1>10. walk(rq) \in Walks(rq)
  BY <1>3, <1>8, <1>9 DEF Walking
<1> QED BY <1>10 DEF Walks
-----------------------------------------------------------------------------
(* The table: what is registered, and what is resolved of it.              *)

EndpointType == [group : Nat, method : Methods, path : Paths, mws : Seq(Mws)]

\* Under, of any groups.
UnderOf(gs) == CHOOSE u : IsUnder(gs, Len(gs), u)

\* Every endpoint is in a group that is there.
Homes(gs, eps) ==
    /\ eps \in Seq(EndpointType)
    /\ \A e \in 1..Len(eps) : eps[e].group \in 1..Len(gs)

\* The chain of every endpoint is what it was registered under, and its own.
Chains(gs, eps, res) ==
    \A e \in 1..Len(eps) : res[e].chain = UnderOf(gs)[eps[e].group] \o eps[e].mws

RoutesOK ==
    /\ Forest(groups) /\ g_current \in 1..Len(groups)
    /\ Homes(groups, endpoints)
    /\ g_built \in BOOLEAN
    /\ ~g_built => tree = [n \in {<<>>} |-> <<>>]
    /\ g_built => IsTree(tree, Len(endpoints)) /\ Chains(groups, endpoints, resolved)

LEMMA UnderOfIs ==
    ASSUME NEW gs, Forest(gs)
    PROVE  IsUnder(gs, Len(gs), UnderOf(gs))
BY UnderExist, Zenon DEF UnderOf

LEMMA UnderNow == Under = UnderOf(groups)
BY Zenon DEF Under, UnderOf, IsUnder

LEMMA AboveNow ==
    ASSUME Forest(groups)
    PROVE  IsAbove(groups, Len(groups), Above)
<1>1. \E a : IsAbove(groups, Len(groups), a)
  BY AboveExist
<1>2. Above = CHOOSE a : IsAbove(groups, Len(groups), a)
  BY Zenon DEF Above, IsAbove
<1> QED BY <1>1, <1>2, Zenon

LEMMA HomeIs ==
    ASSUME NEW gs, NEW eps, Homes(gs, eps), NEW e \in 1..Len(eps), Forest(gs)
    PROVE  /\ Len(eps) \in Nat /\ eps[e] \in EndpointType
           /\ eps[e].group \in 1..Len(gs) /\ eps[e].group \in 0..Len(gs)
           /\ eps[e].mws \in Seq(Mws)
<1>1. Len(eps) \in Nat /\ eps[e] \in EndpointType /\ eps[e].group \in 1..Len(gs)
  BY DEF Homes
<1>2. eps[e].mws \in Seq(Mws)
  BY <1>1 DEF EndpointType
<1>3. Len(gs) \in Nat
  BY DEF Forest
<1> QED BY <1>1, <1>2, <1>3

LEMMA UsingIs ==
    ASSUME NEW x \in Seq(Mws), NEW y \in Seq(Mws)
    PROVE  Using(x, y) \in Seq(Mws)
<1> DEFINE z == x \o y
           n == IF Len(z) < MAX_MW THEN Len(z) ELSE MAX_MW
<1>1. z \in Seq(Mws) /\ MAX_MW \in Nat
  BY RouterConstants, ConcatProperties
<1>2. n \in 0..Len(z)
  BY <1>1
<1> HIDE DEF z, n
<1>3. SubSeq(z, 1, n) \in Seq(Mws)
  BY <1>1, <1>2
<1> QED BY <1>3 DEF Using, z, n

IsChain(gs, u, a) ==
    \A g \in 0..Len(gs), own \in Seq(Mws) : Prepended(own, Parts(gs, a[g])) = u[g] \o own

LEMMA ChainsAre ==
    ASSUME NEW gs, Forest(gs), NEW u, IsUnder(gs, Len(gs), u), NEW a, IsAbove(gs, Len(gs), a)
    PROVE  IsChain(gs, u, a)
BY ChainIsUnder DEF IsChain

\* A group more keeps the groups a forest and every chain as it was.
LEMMA GroupMore ==
    ASSUME NEW gs, Forest(gs), NEW x \in GroupType, x.parent \in 1..Len(gs)
    PROVE  /\ Forest(Append(gs, x))
           /\ Len(Append(gs, x)) = Len(gs) + 1
           /\ Append(gs, x)[1] = gs[1]
           /\ \A g \in 0..Len(gs) : UnderOf(Append(gs, x))[g] = UnderOf(gs)[g]
           /\ \A eps : Homes(gs, eps) => Homes(Append(gs, x), eps)
<1> DEFINE hs == Append(gs, x)
<1>0. gs \in Seq(GroupType) /\ Len(gs) \in Nat /\ Len(gs) >= 1
      /\ \A g \in 1..Len(gs) : gs[g].parent < g
  BY DEF Forest
<1>1. hs \in Seq(GroupType) /\ Len(hs) = Len(gs) + 1
      /\ (\A g \in 1..Len(gs) : hs[g] = gs[g]) /\ hs[Len(gs) + 1] = x
  BY <1>0
<1>2. Forest(hs)
  <2>1. ASSUME NEW g \in 1..Len(hs) PROVE hs[g].parent < g
    <3>1. CASE g = Len(gs) + 1
      BY <1>0, <1>1, <3>1
    <3>2. CASE g \in 1..Len(gs)
      BY <1>0, <1>1, <3>2
    <3> QED BY <1>0, <1>1, <3>1, <3>2
  <2> HIDE DEF hs
  <2> QED BY <1>0, <1>1, <2>1 DEF Forest
<1>3. \A g \in 0..Len(gs) : UnderOf(hs)[g] = UnderOf(gs)[g]
  <2>1. IsUnder(gs, Len(gs), UnderOf(gs)) /\ IsUnder(hs, Len(hs), UnderOf(hs))
    BY <1>2, UnderOfIs
  <2> QED BY <1>2, <2>1, UnderAppend
<1>4. ASSUME NEW eps, Homes(gs, eps) PROVE Homes(hs, eps)
  <2> HIDE DEF hs
  <2> QED BY <1>0, <1>1, <1>4 DEF Homes
<1>5. hs[1] = gs[1]
  BY <1>0, <1>1
<1> QED BY <1>1, <1>2, <1>3, <1>4, <1>5

\* A middleware more of a group, before the table is built.
LEMMA GroupUses ==
    ASSUME NEW gs, Forest(gs), NEW g \in 1..Len(gs), NEW ms \in Seq(Mws)
    PROVE  /\ Forest([gs EXCEPT ![g].mws = ms])
           /\ Len([gs EXCEPT ![g].mws = ms]) = Len(gs)
<1> DEFINE y == [gs[g] EXCEPT !.mws = ms]
           hs == [gs EXCEPT ![g] = y]
<1>0. gs \in Seq(GroupType) /\ Len(gs) \in Nat /\ Len(gs) >= 1
      /\ \A h \in 1..Len(gs) : gs[h].parent < h
  BY DEF Forest
<1>1. gs[g] \in GroupType
  BY <1>0
<1>2. y \in GroupType /\ y.parent = gs[g].parent
  BY <1>1 DEF GroupType
<1> HIDE DEF y
<1>3. hs \in Seq(GroupType) /\ Len(hs) = Len(gs)
  BY <1>0, <1>2
<1>4. \A h \in 1..Len(gs) : hs[h].parent = gs[h].parent
  BY <1>0, <1>2
<1>5. hs = [gs EXCEPT ![g].mws = ms]
  BY Zenon DEF y
<1> HIDE DEF hs
<1>6. Forest(hs)
  BY <1>0, <1>3, <1>4 DEF Forest
<1> QED BY <1>3, <1>5, <1>6

LEMMA HomesKept ==
    ASSUME NEW gs, NEW hs, Len(hs) = Len(gs), NEW eps, Homes(gs, eps)
    PROVE  Homes(hs, eps)
BY DEF Homes

\* An endpoint more, and a middleware more of one.
LEMMA EndpointMore ==
    ASSUME NEW gs, NEW eps, Homes(gs, eps), NEW x \in EndpointType, x.group \in 1..Len(gs)
    PROVE  Homes(gs, Append(eps, x))
<1> DEFINE fs == Append(eps, x)
<1>0. eps \in Seq(EndpointType) /\ Len(eps) \in Nat
      /\ \A e \in 1..Len(eps) : eps[e].group \in 1..Len(gs)
  BY DEF Homes
<1>1. fs \in Seq(EndpointType) /\ Len(fs) = Len(eps) + 1
      /\ (\A e \in 1..Len(eps) : fs[e] = eps[e]) /\ fs[Len(eps) + 1] = x
  BY <1>0
<1> HIDE DEF fs
<1>2. ASSUME NEW e \in 1..Len(fs) PROVE fs[e].group \in 1..Len(gs)
  <2>1. CASE e = Len(eps) + 1
    BY <1>1, <2>1
  <2>2. CASE e \in 1..Len(eps)
    BY <1>0, <1>1, <2>2
  <2> QED BY <1>0, <1>1, <2>1, <2>2
<1>3. Homes(gs, fs)
  BY <1>1, <1>2 DEF Homes
<1> QED BY <1>3 DEF fs

LEMMA EndpointUses ==
    ASSUME NEW gs, NEW eps, Homes(gs, eps), NEW e \in 1..Len(eps), NEW ms \in Seq(Mws)
    PROVE  Homes(gs, [eps EXCEPT ![e].mws = ms])
<1> DEFINE y == [eps[e] EXCEPT !.mws = ms]
           fs == [eps EXCEPT ![e] = y]
<1>0. eps \in Seq(EndpointType) /\ Len(eps) \in Nat
      /\ \A f \in 1..Len(eps) : eps[f].group \in 1..Len(gs)
  BY DEF Homes
<1>1. eps[e] \in EndpointType
  BY <1>0
<1>2. y \in EndpointType /\ y.group = eps[e].group
  BY <1>1 DEF EndpointType
<1> HIDE DEF y
<1>3. fs \in Seq(EndpointType) /\ Len(fs) = Len(eps)
  BY <1>0, <1>2
<1>4. \A f \in 1..Len(eps) : fs[f].group = eps[f].group
  BY <1>0, <1>2
<1>5. fs = [eps EXCEPT ![e].mws = ms]
  BY Zenon DEF y
<1> HIDE DEF fs
<1>6. Homes(gs, fs)
  BY <1>0, <1>3, <1>4 DEF Homes
<1> QED BY <1>5, <1>6

\* With a group more in the table, or none, what is resolved stays right.
LEMMA RoutesStay ==
    ASSUME RoutesOK, UNCHANGED <<endpoints, g_built, tree, resolved>>,
           g_current' \in 1..Len(groups'),
           \/ groups' = groups
           \/ \E x \in GroupType : x.parent \in 1..Len(groups) /\ groups' = Append(groups, x)
    PROVE  /\ RoutesOK' /\ Len(groups') >= Len(groups) /\ groups'[1] = groups[1]
           /\ \A g \in 0..Len(groups) : UnderOf(groups')[g] = UnderOf(groups)[g]
<1>0. Forest(groups) /\ Homes(groups, endpoints) /\ g_built \in BOOLEAN /\ Len(groups) \in Nat
  BY DEF RoutesOK, Forest
<1> DEFINE Goal ==
             /\ Forest(groups') /\ Homes(groups', endpoints)
             /\ Len(groups') >= Len(groups) /\ groups'[1] = groups[1]
             /\ \A g \in 0..Len(groups) : UnderOf(groups')[g] = UnderOf(groups)[g]
<1>1. Goal
  <2>1. CASE groups' = groups
    BY <1>0, <2>1
  <2>2. ASSUME NEW x \in GroupType, x.parent \in 1..Len(groups), groups' = Append(groups, x)
        PROVE  Goal
    <3>1. /\ Forest(Append(groups, x)) /\ Len(Append(groups, x)) = Len(groups) + 1
          /\ Append(groups, x)[1] = groups[1]
          /\ \A g \in 0..Len(groups) : UnderOf(Append(groups, x))[g] = UnderOf(groups)[g]
          /\ \A eps : Homes(groups, eps) => Homes(Append(groups, x), eps)
      BY <1>0, <2>2, GroupMore
    <3>2. Homes(Append(groups, x), endpoints)
      BY <1>0, <3>1
    <3>3. Len(groups) + 1 >= Len(groups)
      BY <1>0
    <3> QED BY <2>2, <3>1, <3>2, <3>3, Zenon
  <2> QED BY <2>1, <2>2
<1>2. ASSUME g_built PROVE Chains(groups', endpoints, resolved)
  <2>1. ASSUME NEW e \in 1..Len(endpoints)
        PROVE  resolved[e].chain = UnderOf(groups')[endpoints[e].group] \o endpoints[e].mws
    <3>1. resolved[e].chain = UnderOf(groups)[endpoints[e].group] \o endpoints[e].mws
      BY <1>2 DEF RoutesOK, Chains
    <3>2. endpoints[e].group \in 0..Len(groups)
      BY <1>0, HomeIs
    <3>3. UnderOf(groups')[endpoints[e].group] = UnderOf(groups)[endpoints[e].group]
      BY <1>1, <3>2
    <3> QED BY <3>1, <3>3, Zenon
  <2> QED BY <2>1 DEF Chains
<1>3. ~g_built => tree = [n \in {<<>>} |-> <<>>]
  BY DEF RoutesOK
<1>4. g_built => IsTree(tree, Len(endpoints))
  BY DEF RoutesOK
<1>5. RoutesOK'
  BY <1>0, <1>1, <1>2, <1>3, <1>4, Zenon DEF RoutesOK
<1> QED BY <1>1, <1>5

\* Before the table is built, with other groups or endpoints.
LEMMA RoutesFree ==
    ASSUME RoutesOK, ~g_built, UNCHANGED <<g_built, tree>>, Forest(groups'),
           g_current' \in 1..Len(groups'), Homes(groups', endpoints')
    PROVE  RoutesOK'
<1>1. tree = [n \in {<<>>} |-> <<>>] /\ g_built \in BOOLEAN
  BY DEF RoutesOK
<1> QED BY <1>1, Zenon DEF RoutesOK

\* What a step leaves of the table the workers read.
TableKept ==
    /\ RoutesOK' /\ (g_built => g_built')
    /\ g_built => /\ UNCHANGED <<tree, resolved, endpoints, g_fallback>>
                  /\ groups'[1] = groups[1] /\ Len(groups') >= Len(groups)
                  /\ \A g \in 0..Len(groups) : UnderOf(groups')[g] = UnderOf(groups)[g]

\* A registration keeps the table, and once it is built only adds a group.
LEMMA RegisterKeeps ==
    ASSUME RoutesOK, Register
    PROVE  TableKept
<1>0. /\ Forest(groups) /\ Homes(groups, endpoints) /\ g_built \in BOOLEAN
      /\ Len(groups) \in Nat /\ Len(groups) >= 1 /\ DOMAIN groups = 1..Len(groups)
      /\ g_current \in 1..Len(groups)
      /\ endpoints \in Seq(EndpointType) /\ Len(endpoints) \in Nat
      /\ DOMAIN endpoints = 1..Len(endpoints)
  BY DEF RoutesOK, Forest, Homes
<1>a. ASSUME NEW x \in GroupType, x.parent \in 1..Len(groups), groups' = Append(groups, x)
      PROVE  Len(groups') = Len(groups) + 1 /\ 1..Len(groups) \subseteq 1..Len(groups')
             /\ Len(groups') \in 1..Len(groups')
  <2>1. Len(groups') = Len(groups) + 1
    BY <1>0, <1>a, GroupMore
  <2> QED BY <1>0, <2>1
<1>b. ASSUME NEW x \in GroupType, x.parent \in 1..Len(groups), groups' = Append(groups, x),
             g_current' \in {g_current, Len(groups')},
             UNCHANGED <<endpoints, g_fallback, g_built, tree, resolved>>
      PROVE  TableKept
  <2>1. g_current' \in 1..Len(groups')
    BY <1>0, <1>a, <1>b
  <2>2. \E y \in GroupType : y.parent \in 1..Len(groups) /\ groups' = Append(groups, y)
    BY <1>b
  <2>3. /\ RoutesOK' /\ Len(groups') >= Len(groups) /\ groups'[1] = groups[1]
        /\ \A g \in 0..Len(groups) : UnderOf(groups')[g] = UnderOf(groups)[g]
    BY <1>b, <2>1, <2>2, RoutesStay
  <2> QED BY <1>b, <2>3, Zenon DEF TableKept
<1>c. ASSUME groups' = groups, g_current' \in 1..Len(groups), g_built => g_fallback' = g_fallback,
             UNCHANGED <<endpoints, g_built, tree, resolved>>
      PROVE  TableKept
  <2>1. g_current' \in 1..Len(groups')
    BY <1>c
  <2>2. /\ RoutesOK' /\ Len(groups') >= Len(groups) /\ groups'[1] = groups[1]
        /\ \A g \in 0..Len(groups) : UnderOf(groups')[g] = UnderOf(groups)[g]
    BY <1>c, <2>1, RoutesStay
  <2> QED BY <1>c, <2>2, Zenon DEF TableKept
<1>d. ASSUME ~g_built, Forest(groups'), Homes(groups', endpoints'), Len(groups') = Len(groups),
             UNCHANGED <<g_current, g_built, tree, resolved>>
      PROVE  TableKept
  <2>1. RoutesOK'
    BY <1>0, <1>d, RoutesFree
  <2> QED BY <1>d, <2>1, Zenon DEF TableKept
<1>e. <<>> \in Seq(Mws) /\ \A ms \in MwLists : ms \in Seq(Mws)
  <2>1. \A m \in Mws : <<m>> \in Seq(Mws)
    OBVIOUS
  <2> QED BY <2>1, EmptySeq, Zenon DEF MwLists
<1>1. ASSUME NEW p \in GroupPaths, NEW g \in DOMAIN groups, ioxd_group_new(g, p)
      PROVE  TableKept
  <2> DEFINE x == [parent |-> g, prefix |-> p, mws |-> <<>>]
  <2>1. x \in GroupType /\ x.parent \in 1..Len(groups)
    BY <1>0, <1>1, <1>e DEF GroupType
  <2> HIDE DEF x
  <2>2. groups' = Append(groups, x) /\ UNCHANGED <<g_current, endpoints, g_fallback, g_built,
                                                   tree, resolved>>
    BY <1>1 DEF ioxd_group_new, x
  <2> QED BY <1>b, <2>1, <2>2
<1>2. ASSUME NEW m \in Mws, NEW g \in DOMAIN groups, ioxd_group_use(g, m)
      PROVE  TableKept
  <2>1. CASE g_built
    BY <1>0, <1>2, <2>1, <1>c DEF ioxd_group_use, too_late
  <2>2. CASE ~g_built
    <3> DEFINE ms == Using(groups[g].mws, <<m>>)
    <3>1. groups[g].mws \in Seq(Mws) /\ <<m>> \in Seq(Mws)
      BY <1>0, ForestIs
    <3>2. ms \in Seq(Mws)
      BY <3>1, UsingIs
    <3>3. groups' = [groups EXCEPT ![g].mws = ms]
          /\ UNCHANGED <<g_current, endpoints, g_fallback, g_built, tree, resolved>>
      BY <1>2, <2>2 DEF ioxd_group_use, too_late
    <3> HIDE DEF ms
    <3>4. Forest(groups') /\ Len(groups') = Len(groups)
      BY <1>0, <3>2, <3>3, GroupUses
    <3>5. Homes(groups', endpoints')
      BY <1>0, <3>3, <3>4, HomesKept
    <3> QED BY <2>2, <3>3, <3>4, <3>5, <1>d
  <2> QED BY <2>1, <2>2
<1>3. ASSUME NEW p \in Paths, NEW m \in Methods, NEW g \in 1..Len(groups), NEW ms \in MwLists,
             ioxd_route(g, m, p, ms)
      PROVE  TableKept
  <2>1. CASE g_built
    BY <1>0, <1>3, <2>1, <1>c DEF ioxd_route, too_late
  <2>2. CASE ~g_built
    <3> DEFINE x == [group |-> g, method |-> m, path |-> p, mws |-> Using(<<>>, ms)]
    <3>1. Using(<<>>, ms) \in Seq(Mws)
      BY <1>e, UsingIs
    <3>2. x \in EndpointType /\ x.group \in 1..Len(groups)
      BY <1>0, <3>1 DEF EndpointType
    <3>3. endpoints' = Append(endpoints, x)
          /\ UNCHANGED <<groups, g_current, g_fallback, g_built, tree, resolved>>
      BY <1>3, <2>2 DEF ioxd_route, too_late
    <3> HIDE DEF x
    <3>4. Homes(groups', endpoints')
      BY <1>0, <3>2, <3>3, EndpointMore
    <3> QED BY <1>0, <2>2, <3>3, <3>4, <1>d
  <2> QED BY <2>1, <2>2
<1>4. ASSUME NEW e \in DOMAIN endpoints, NEW m \in Mws, ioxd_endpoint_use(e, m)
      PROVE  TableKept
  <2>1. CASE g_built
    BY <1>0, <1>4, <2>1, <1>c DEF ioxd_endpoint_use, too_late
  <2>2. CASE ~g_built
    <3> DEFINE ms == Using(endpoints[e].mws, <<m>>)
    <3>1. endpoints[e].mws \in Seq(Mws) /\ <<m>> \in Seq(Mws)
      BY <1>0, HomeIs
    <3>2. ms \in Seq(Mws)
      BY <3>1, UsingIs
    <3>3. endpoints' = [endpoints EXCEPT ![e].mws = ms]
          /\ UNCHANGED <<groups, g_current, g_fallback, g_built, tree, resolved>>
      BY <1>4, <2>2 DEF ioxd_endpoint_use, too_late
    <3> HIDE DEF ms
    <3>4. Homes(groups', endpoints')
      BY <1>0, <3>2, <3>3, EndpointUses
    <3> QED BY <1>0, <2>2, <3>3, <3>4, <1>d
  <2> QED BY <2>1, <2>2
<1>5. ASSUME NEW p \in GroupPaths, NEW ms \in MwLists, group_begin(p, ms)
      PROVE  TableKept
  <2> DEFINE x == [parent |-> g_current, prefix |-> p,
                   mws |-> IF too_late THEN <<>> ELSE Using(<<>>, ms)]
  <2>1. (IF too_late THEN <<>> ELSE Using(<<>>, ms)) \in Seq(Mws)
    BY <1>e, UsingIs
  <2>2. x \in GroupType /\ x.parent \in 1..Len(groups)
    BY <1>0, <2>1 DEF GroupType
  <2>3. groups' = Append(groups, x) /\ g_current' = Len(groups')
        /\ UNCHANGED <<endpoints, g_fallback, g_built, tree, resolved>>
    BY <1>5 DEF group_begin
  <2> HIDE DEF x
  <2> QED BY <1>b, <2>2, <2>3
<1>6. CASE group_end
  <2>1. groups[g_current].parent \in 1..Len(groups)
    <3>1. groups[g_current].parent \in 0..Len(groups)
      BY <1>0, ForestIs
    <3> QED BY <1>0, <1>6, <3>1 DEF group_end
  <2> QED BY <1>6, <2>1, <1>c DEF group_end
<1>7. CASE ioxd_default
  BY <1>0, <1>7, <1>c DEF ioxd_default, too_late
<1>8. <<>> \in MwLists
  BY DEF MwLists
<1> QED BY <1>0, <1>1, <1>2, <1>3, <1>4, <1>5, <1>6, <1>7, <1>8 DEF Register

\* ioxd__router_build resolves what was registered, once.
LEMMA BuildKeeps ==
    ASSUME RoutesOK, ioxd__router_build
    PROVE  TableKept /\ g_built'
<1>0. /\ Forest(groups) /\ Homes(groups, endpoints) /\ g_built \in BOOLEAN
      /\ Len(groups) \in Nat /\ g_current \in 1..Len(groups)
      /\ endpoints \in Seq(EndpointType) /\ Len(endpoints) \in Nat
      /\ DOMAIN endpoints = 1..Len(endpoints)
  BY DEF RoutesOK, Forest, Homes
<1>1. CASE g_built
  <2>1. /\ UNCHANGED <<groups, g_current, endpoints, g_fallback, tree, resolved>> /\ g_built' = TRUE
    BY <1>1 DEF ioxd__router_build
  <2>2. g_built' = g_built
    BY <1>0, <1>1, <2>1
  <2>3. RoutesOK'
    BY <1>0, <2>1, <2>2, RoutesStay
  <2>4. Len(groups') >= Len(groups)
    BY <1>0, <2>1
  <2> QED BY <2>1, <2>3, <2>4, Zenon DEF TableKept
<1>2. CASE ~g_built
  <2>1. /\ UNCHANGED <<groups, g_current, endpoints, g_fallback>> /\ g_built' = TRUE
        /\ tree' = Inserted[Len(endpoints)]
        /\ resolved' = [e \in DOMAIN endpoints |->
                           [names |-> Names(e), chain |-> flatten_chain(e)]]
    BY <1>2 DEF ioxd__router_build
  <2>2. IsTree(tree, Len(endpoints))
    <3>1. tree = [n \in {<<>>} |-> <<>>]
      BY <1>2 DEF RoutesOK
    <3> QED BY <3>1 DEF IsTree
  <2>3. IsTree(tree', Len(endpoints))
    BY <1>0, <2>1, <2>2, InsertedIs, Zenon
  <2>4. ASSUME NEW e \in 1..Len(endpoints)
        PROVE  resolved'[e].chain = UnderOf(groups)[endpoints[e].group] \o endpoints[e].mws
    <3>1. resolved'[e].chain = flatten_chain(e)
      <4>1. resolved'[e] = [names |-> Names(e), chain |-> flatten_chain(e)]
        BY <1>0, <2>1, Zenon
      <4> QED BY <4>1
    <3>2. flatten_chain(e)
            = Prepended(endpoints[e].mws, Parts(groups, Above[endpoints[e].group]))
      BY Zenon DEF flatten_chain, GroupsOf, Parts
    <3>3. IsUnder(groups, Len(groups), UnderOf(groups)) /\ IsAbove(groups, Len(groups), Above)
      BY <1>0, UnderOfIs, AboveNow
    <3>4. endpoints[e].group \in 0..Len(groups) /\ endpoints[e].mws \in Seq(Mws)
      BY <1>0, HomeIs
    <3>5. Prepended(endpoints[e].mws, Parts(groups, Above[endpoints[e].group]))
            = UnderOf(groups)[endpoints[e].group] \o endpoints[e].mws
      <4>1. IsChain(groups, UnderOf(groups), Above)
        BY <1>0, <3>3, ChainsAre
      <4> QED BY <3>4, <4>1, Zenon DEF IsChain
    <3> QED BY <3>1, <3>2, <3>5, Zenon
  <2>5. Chains(groups, endpoints, resolved')
    BY <2>4 DEF Chains
  <2>6. RoutesOK'
    BY <1>0, <2>1, <2>3, <2>5, Zenon DEF RoutesOK
  <2> QED BY <1>2, <2>1, <2>6, Zenon DEF TableKept
<1> QED BY <1>0, <1>1, <1>2

-----------------------------------------------------------------------------
(* A request in its chain.                                                 *)

Links == [link : Nat, called : BOOLEAN]
Contexts(c) == [req : {c.req}, route : {c.route}, at : Nat, open : Seq(Links),
                ran : Seq(Nat), again : BOOLEAN]

\* The links that ran are the first of the chain, in their order.
Ran(c) ==
    /\ Len(c.route.chain) \in Nat
    /\ c.at = Len(c.ran) /\ c.at <= Len(c.route.chain) + 1
    /\ \A i \in 1..Len(c.ran) : c.ran[i] = i - 1

\* Until one calls ioxd_next_run again those that are open are the first of the
\* chain, and each but the innermost has called it.
Nested(c) ==
    /\ \A i \in 1..Len(c.open) : c.open[i].link = i - 1
    /\ \A i \in 1..Len(c.open) - 1 : c.open[i].called

Running(c) ==
    /\ c \in Contexts(c) /\ Ran(c) /\ c.open # <<>>
    /\ ~c.again => /\ Nested(c)
                   /\ c.open[Len(c.open)].called \/ c.at = Len(c.open)

\* The next link, behind those that called for it.
LEMMA NextRuns ==
    ASSUME NEW c, c \in Contexts(c), Ran(c),
           c.open # <<>> \/ c.at = 0,
           ~c.again => /\ Nested(c) /\ \A i \in 1..Len(c.open) : c.open[i].called
                       /\ c.at = Len(c.open)
    PROVE  /\ Running(ioxd_next_run(c))
           /\ ioxd_next_run(c).req = c.req /\ ioxd_next_run(c).route = c.route
<1> DEFINE n == [link |-> c.at, called |-> FALSE]
           d == [c EXCEPT !.at = @ + 1, !.open = Append(@, n), !.ran = Append(@, c.at)]
<1>0. /\ c.at \in Nat /\ c.open \in Seq(Links) /\ c.ran \in Seq(Nat) /\ c.again \in BOOLEAN
      /\ Len(c.open) \in Nat /\ Len(c.ran) \in Nat /\ Len(c.route.chain) \in Nat
  BY DEF Contexts, Ran
<1>1. CASE c.at > Len(c.route.chain)
  <2>1. c.open # <<>>
    BY <1>0, <1>1
  <2>2. Len(c.open) \in 1..Len(c.open)
    BY <1>0, <2>1
  <2>3. Running(c)
    BY <2>1, <2>2 DEF Running
  <2>4. ioxd_next_run(c) = c
    BY <1>1 DEF ioxd_next_run
  <2> QED BY <2>3, <2>4
<1>2. CASE ~(c.at > Len(c.route.chain))
  <2>1. n \in Links /\ n.link = c.at /\ ~n.called
    BY <1>0 DEF Links
  <2>2. ioxd_next_run(c) = d
    BY <1>2 DEF ioxd_next_run
  <2> HIDE DEF n
  <2>3. /\ d.req = c.req /\ d.route = c.route /\ d.at = c.at + 1 /\ d.open = Append(c.open, n)
        /\ d.ran = Append(c.ran, c.at) /\ d.again = c.again
    BY DEF Contexts
  <2>4. Append(c.open, n) \in Seq(Links) /\ Append(c.ran, c.at) \in Seq(Nat) /\ c.at + 1 \in Nat
    BY <1>0, <2>1
  <2>5. d \in Contexts(d)
    <3> DEFINE a == c.at + 1
               o == Append(c.open, n)
               r == Append(c.ran, c.at)
    <3>1. d = [c EXCEPT !.at = a, !.open = o, !.ran = r]
      OBVIOUS
    <3>2. a \in Nat /\ o \in Seq(Links) /\ r \in Seq(Nat)
      BY <2>4
    <3> HIDE DEF a, o, r
    <3> QED BY <1>0, <2>3, <3>1, <3>2 DEF Contexts
  <2> HIDE DEF d
  <2>6. Ran(d)
    <3>1. Len(d.ran) = Len(c.ran) + 1 /\ d.ran[Len(c.ran) + 1] = c.at
          /\ \A i \in 1..Len(c.ran) : d.ran[i] = c.ran[i]
      BY <1>0, <2>3
    <3>2. c.at = Len(c.ran) /\ \A i \in 1..Len(c.ran) : c.ran[i] = i - 1
      BY DEF Ran
    <3>a. Len(d.ran) = Len(c.ran) + 1
      BY <3>1
    <3>3. ASSUME NEW i \in 1..Len(d.ran) PROVE d.ran[i] = i - 1
      <4>0. i = Len(c.ran) + 1 \/ i \in 1..Len(c.ran)
        BY <1>0, <3>a
      <4>1. CASE i = Len(c.ran) + 1
        <5>1. i - 1 = c.at
          BY <1>0, <3>2, <4>1
        <5> QED BY <3>1, <4>1, <5>1, Zenon
      <4>2. CASE i \in 1..Len(c.ran)
        BY <3>1, <3>2, <4>2, Zenon
      <4> QED BY <4>0, <4>1, <4>2, Zenon
    <3>4. d.at = Len(d.ran) /\ d.at <= Len(d.route.chain) + 1 /\ Len(d.route.chain) \in Nat
      <4>1. c.at = Len(c.ran)
        BY <3>2
      <4>2. c.at + 1 <= Len(c.route.chain) + 1
        BY <1>0, <1>2
      <4> QED BY <1>0, <2>3, <3>a, <4>1, <4>2
    <3> QED BY <3>3, <3>4, Zenon DEF Ran
  <2>7. Len(d.open) = Len(c.open) + 1 /\ d.open[Len(c.open) + 1] = n
        /\ (\A i \in 1..Len(c.open) : d.open[i] = c.open[i]) /\ d.open # <<>>
    <3> DEFINE o == c.open
    <3> HIDE DEF o
    <3>1. o \in Seq(Links) /\ n \in Links /\ d.open = Append(o, n)
      BY <1>0, <2>1, <2>3 DEF o
    <3>2. /\ Len(Append(o, n)) = Len(o) + 1 /\ Append(o, n)[Len(o) + 1] = n
          /\ (\A i \in 1..Len(o) : Append(o, n)[i] = o[i]) /\ Append(o, n) # <<>>
      BY <3>1
    <3> QED BY <3>1, <3>2, Zenon DEF o
  <2>8. ASSUME ~d.again PROVE Nested(d) /\ d.at = Len(d.open)
    <3>1. c.at = Len(c.open) /\ (\A i \in 1..Len(c.open) : c.open[i].link = i - 1)
          /\ \A i \in 1..Len(c.open) : c.open[i].called
      BY <2>3, <2>8 DEF Nested
    <3>2. ASSUME NEW i \in 1..Len(d.open) PROVE d.open[i].link = i - 1
      <4>1. CASE i = Len(c.open) + 1
        BY <1>0, <2>1, <2>7, <3>1, <4>1
      <4>2. CASE i \in 1..Len(c.open)
        BY <2>7, <3>1, <4>2
      <4> QED BY <1>0, <2>7, <4>1, <4>2
    <3>3. ASSUME NEW i \in 1..Len(d.open) - 1 PROVE d.open[i].called
      <4>1. i \in 1..Len(c.open)
        BY <1>0, <2>7
      <4> QED BY <2>7, <3>1, <4>1, Zenon
    <3> QED BY <1>0, <2>3, <2>7, <3>1, <3>2, <3>3 DEF Nested
  <2> QED BY <2>2, <2>3, <2>5, <2>6, <2>7, <2>8 DEF Running
<1> QED BY <1>1, <1>2

\* A middleware calls ioxd_next_run.
LEMMA CallNextRuns ==
    ASSUME NEW c, Running(c), ~InHandler(c)
    PROVE  /\ Running(CallNext(c))
           /\ CallNext(c).req = c.req /\ CallNext(c).route = c.route
<1> DEFINE me == Last(c.open)
           y  == [me EXCEPT !.called = TRUE]
           s  == Append(Front(c.open), y)
           d  == [c EXCEPT !.open = s, !.again = @ \/ me.called]
           L  == Len(c.open)
<1>0. /\ c \in Contexts(c) /\ c.at \in Nat /\ c.open \in Seq(Links) /\ c.again \in BOOLEAN
      /\ L \in Nat /\ L >= 1
  BY DEF Contexts, Running
<1>1. me = c.open[L] /\ me \in Links
  BY <1>0 DEF Last
<1>2. y \in Links /\ y.called /\ y.link = me.link /\ me.called \in BOOLEAN
  BY <1>1 DEF Links
<1>3. Front(c.open) \in Seq(Links) /\ Len(Front(c.open)) = L - 1
      /\ \A i \in 1..L - 1 : Front(c.open)[i] = c.open[i]
  BY <1>0 DEF Front
<1> HIDE DEF y, me
<1>4. s \in Seq(Links) /\ Len(s) = L /\ s[L] = y /\ \A i \in 1..L - 1 : s[i] = c.open[i]
  <2> DEFINE fr == Front(c.open)
  <2> HIDE DEF fr
  <2>1. fr \in Seq(Links) /\ Len(fr) = L - 1 /\ \A i \in 1..L - 1 : fr[i] = c.open[i]
    BY <1>3 DEF fr
  <2>2. /\ Append(fr, y) \in Seq(Links) /\ Len(Append(fr, y)) = L
        /\ Append(fr, y)[L] = y /\ \A i \in 1..L - 1 : Append(fr, y)[i] = fr[i]
    BY <1>0, <1>2, <2>1
  <2> QED BY <2>1, <2>2 DEF fr
<1> HIDE DEF s
<1>5. /\ d.req = c.req /\ d.route = c.route /\ d.at = c.at /\ d.open = s /\ d.ran = c.ran
      /\ d.again = (c.again \/ me.called)
  BY <1>0 DEF Contexts
<1>6. (c.again \/ me.called) \in BOOLEAN
  OBVIOUS
<1>7. d \in Contexts(d)
  <2>1. c.ran \in Seq(Nat)
    BY <1>0 DEF Contexts
  <2> QED BY <1>0, <1>4, <1>5, <1>6, <2>1 DEF Contexts
<1>8. CallNext(c) = ioxd_next_run(d)
  BY Zenon DEF CallNext, me, y, s
<1> HIDE DEF d
<1>9. Ran(d) /\ d.open # <<>>
  BY <1>0, <1>4, <1>5 DEF Ran, Running
<1>10. ASSUME ~d.again
       PROVE  Nested(d) /\ (\A i \in 1..Len(d.open) : d.open[i].called) /\ d.at = Len(d.open)
  <2>1. ~c.again /\ ~me.called
    BY <1>5, <1>10
  <2>2. c.at = L /\ (\A i \in 1..L : c.open[i].link = i - 1)
        /\ \A i \in 1..L - 1 : c.open[i].called
    BY <1>1, <2>1 DEF Running, Nested
  <2>3. ASSUME NEW i \in 1..L PROVE s[i].link = i - 1 /\ s[i].called
    <3>1. CASE i = L
      BY <1>0, <1>1, <1>2, <1>4, <2>2, <3>1
    <3>2. CASE i \in 1..L - 1
      <4>1. s[i] = c.open[i] /\ c.open[i].called
        BY <1>4, <2>2, <3>2, Zenon
      <4> QED BY <2>2, <4>1
    <3> QED BY <1>0, <3>1, <3>2
  <2>4. \A i \in 1..L - 1 : i \in 1..L
    BY <1>0
  <2>5. \A i \in 1..L - 1 : s[i].called
    BY <2>3, <2>4, Zenon
  <2> QED BY <1>4, <1>5, <2>2, <2>3, <2>5, Zenon DEF Nested
<1>11. /\ Running(ioxd_next_run(d))
       /\ ioxd_next_run(d).req = d.req /\ ioxd_next_run(d).route = d.route
  BY <1>7, <1>9, <1>10, NextRuns
<1> QED BY <1>5, <1>8, <1>11, Zenon

\* A middleware, or the handler, returns into the one that called it.
LEMMA ReturnedRuns ==
    ASSUME NEW c, Running(c), Returned(c) # NoRequest
    PROVE  /\ Running(Returned(c))
           /\ Returned(c).req = c.req /\ Returned(c).route = c.route
<1> DEFINE d == [c EXCEPT !.open = Front(@)]
           L == Len(c.open)
<1>0. /\ c \in Contexts(c) /\ c.at \in Nat /\ c.open \in Seq(Links) /\ c.again \in BOOLEAN
      /\ L \in Nat /\ L >= 1
  BY DEF Contexts, Running
<1>1. Returned(c) = d
  BY Zenon DEF Returned
<1>a. L >= 2 /\ L - 1 \in Nat
  <2>1. L # 1
    BY Zenon DEF Returned
  <2> HIDE DEF L
  <2> QED BY <1>0, <2>1
<1>2. Front(c.open) \in Seq(Links) /\ Len(Front(c.open)) = L - 1
      /\ \A i \in 1..L - 1 : Front(c.open)[i] = c.open[i]
  BY <1>0 DEF Front
<1>3. /\ d.req = c.req /\ d.route = c.route /\ d.at = c.at /\ d.open = Front(c.open)
      /\ d.ran = c.ran /\ d.again = c.again
  BY <1>0 DEF Contexts
<1>4. d \in Contexts(d)
  <2>1. c.ran \in Seq(Nat)
    BY <1>0 DEF Contexts
  <2> QED BY <1>0, <1>2, <1>3, <2>1 DEF Contexts
<1> HIDE DEF d
<1>5. Ran(d) /\ d.open # <<>>
  <2>1. Len(d.open) # 0
    BY <1>2, <1>3, <1>a
  <2>2. Ran(c)
    BY DEF Running
  <2> QED BY <1>3, <2>1, <2>2 DEF Ran
<1>6. ASSUME ~d.again PROVE Nested(d) /\ d.open[Len(d.open)].called
  <2>1. (\A i \in 1..L : c.open[i].link = i - 1) /\ \A i \in 1..L - 1 : c.open[i].called
    BY <1>3, <1>6 DEF Running, Nested
  <2>2. (\A i \in 1..L - 1 : i \in 1..L) /\ (\A i \in 1..L - 2 : i \in 1..L - 1)
        /\ L - 1 \in 1..L - 1 /\ (L - 1) - 1 = L - 2
    <3> HIDE DEF L
    <3> QED BY <1>0, <1>a
  <2>3. \A i \in 1..L - 1 : d.open[i].link = i - 1 /\ d.open[i].called
    BY <1>2, <1>3, <2>1, <2>2, Zenon
  <2> QED BY <1>2, <1>3, <2>2, <2>3, Zenon DEF Nested
<1> QED BY <1>1, <1>3, <1>4, <1>5, <1>6 DEF Running

-----------------------------------------------------------------------------
(* The whole.                                                              *)

\* A route takes its request through what its endpoint was registered under,
\* or through the root's middleware.
ChainFor(gs, eps, r) ==
    /\ r.ep \in 0..Len(eps)
    /\ r.chain = IF r.ep = 0 THEN UnderOf(gs)[1]
                 ELSE UnderOf(gs)[eps[r.ep].group] \o eps[r.ep].mws

\* A request that runs was looked up in a table that is built, and stands
\* somewhere in its chain.
CtxOK ==
    /\ ctx = [k \in Ids |-> ctx[k]]
    /\ \A k \in Ids : ctx[k] # NoRequest =>
           g_built /\ Running(ctx[k]) /\ ChainFor(groups, endpoints, ctx[k].route)

ServerInv ==
    /\ RunInv /\ RoutesOK /\ CtxOK
    /\ main # "idle" /\ handler = "http" => g_built

LEMMA RouteIs ==
    ASSUME RoutesOK, g_built, NEW m, NEW p \in Seq(STRING)
    PROVE  /\ ChainFor(groups, endpoints, Route([method |-> m, path |-> p]))
           /\ Len(Route([method |-> m, path |-> p]).chain) \in Nat
<1> DEFINE rq == [method |-> m, path |-> p]
           st  == walk(rq)
           r   == Route(rq)
<1>0. /\ Forest(groups) /\ Homes(groups, endpoints) /\ IsTree(tree, Len(endpoints))
      /\ Chains(groups, endpoints, resolved) /\ Len(endpoints) \in Nat /\ Len(groups) \in Nat
      /\ 1 \in 1..Len(groups) /\ 1 \in 0..Len(groups) /\ groups \in Seq(GroupType)
  BY DEF RoutesOK, Forest, Homes
<1>1. rq.path = p /\ Len(rq.path) \in Nat /\ DOMAIN rq.path = 1..Len(rq.path)
  OBVIOUS
<1> HIDE DEF rq
<1>2. st.ep \in 0..Len(endpoints)
  BY <1>0, <1>1, WalkIs
<1> HIDE DEF st
<1>3. IsUnder(groups, Len(groups), UnderOf(groups))
  BY <1>0, UnderOfIs
<1>4. /\ UnderOf(groups)[0] = <<>>
      /\ \A g \in 1..Len(groups) : UnderOf(groups)[g]
                                     = UnderOf(groups)[groups[g].parent] \o groups[g].mws
      /\ \A g \in 0..Len(groups) : UnderOf(groups)[g] \in Seq(Mws)
  BY <1>0, <1>3, UnderIs
<1>5. CASE st.ep # 0
  <2>1. r.ep = st.ep /\ r.chain = resolved[st.ep].chain
    BY <1>5 DEF Route, st
  <2>2. st.ep \in 1..Len(endpoints)
    BY <1>0, <1>2, <1>5
  <2>3. r.chain = UnderOf(groups)[endpoints[st.ep].group] \o endpoints[st.ep].mws
    BY <1>0, <2>1, <2>2 DEF Chains
  <2>4. endpoints[st.ep].group \in 0..Len(groups) /\ endpoints[st.ep].mws \in Seq(Mws)
    BY <1>0, <2>2, HomeIs
  <2>5. UnderOf(groups)[endpoints[st.ep].group] \in Seq(Mws)
    BY <1>4, <2>4
  <2> HIDE DEF r
  <2>6. r.chain \in Seq(Mws)
    BY <2>3, <2>4, <2>5, ConcatProperties
  <2>7. Len(r.chain) \in Nat
    BY <2>6
  <2>8. ChainFor(groups, endpoints, r)
    BY <1>2, <1>5, <2>1, <2>3, Zenon DEF ChainFor
  <2> QED BY <2>7, <2>8 DEF r, rq
<1>6. CASE st.ep = 0
  <2>1. r.ep = 0 /\ r.chain = groups[1].mws
    BY <1>6 DEF Route, st
  <2>2. groups[1].parent = 0 /\ groups[1].mws \in Seq(Mws)
    <3>1. groups[1].parent \in 0..1 - 1 /\ groups[1].mws \in Seq(Mws)
      BY <1>0, ForestIs
    <3> QED BY <3>1
  <2>3. UnderOf(groups)[1] = <<>> \o groups[1].mws
    BY <1>0, <1>4, <2>2, Zenon
  <2>4. UnderOf(groups)[1] = groups[1].mws
    BY <2>2, <2>3, ConcatEmptySeq
  <2> HIDE DEF r
  <2>5. Len(r.chain) \in Nat
    BY <2>1, <2>2
  <2>6. r.ep \in 0..Len(endpoints)
    BY <1>0, <2>1
  <2>7. ChainFor(groups, endpoints, r)
    BY <2>1, <2>4, <2>6, Zenon DEF ChainFor
  <2> QED BY <2>5, <2>7 DEF r, rq
<1> QED BY <1>5, <1>6

\* What was looked up stays right while the table is kept.
LEMMA ChainForKept ==
    ASSUME RoutesOK, TableKept, g_built, NEW r, ChainFor(groups, endpoints, r)
    PROVE  ChainFor(groups', endpoints', r)
<1>0. /\ Forest(groups) /\ Homes(groups, endpoints) /\ Len(groups) \in Nat
      /\ Len(endpoints) \in Nat /\ 1 \in 0..Len(groups)
  BY DEF RoutesOK, Forest, Homes
<1>1. endpoints' = endpoints
      /\ \A g \in 0..Len(groups) : UnderOf(groups')[g] = UnderOf(groups)[g]
  BY DEF TableKept
<1>2. CASE r.ep = 0
  <2>1. UnderOf(groups')[1] = UnderOf(groups)[1]
    BY <1>0, <1>1
  <2> QED BY <1>1, <1>2, <2>1, Zenon DEF ChainFor
<1>3. CASE r.ep # 0
  <2>1. r.ep \in 1..Len(endpoints)
    BY <1>0, <1>3 DEF ChainFor
  <2>2. endpoints[r.ep].group \in 0..Len(groups)
    BY <1>0, <2>1, HomeIs
  <2>3. UnderOf(groups')[endpoints[r.ep].group] = UnderOf(groups)[endpoints[r.ep].group]
    BY <1>1, <2>2
  <2> QED BY <1>1, <1>3, <2>3, Zenon DEF ChainFor
<1> QED BY <1>2, <1>3

LEMMA CtxKept ==
    ASSUME RoutesOK, TableKept, CtxOK,
           \A k \in Ids : ctx'[k] \in {ctx[k], NoRequest}, ctx' = [k \in Ids |-> ctx'[k]]
    PROVE  CtxOK'
<1>1. ASSUME NEW k \in Ids, ctx'[k] # NoRequest
      PROVE  g_built' /\ Running(ctx'[k]) /\ ChainFor(groups', endpoints', ctx'[k].route)
  <2>1. ctx'[k] = ctx[k]
    BY <1>1
  <2>2. g_built /\ Running(ctx[k]) /\ ChainFor(groups, endpoints, ctx[k].route)
    BY <1>1, <2>1 DEF CtxOK
  <2>3. g_built' /\ ChainFor(groups', endpoints', ctx[k].route)
    BY <2>2, ChainForKept DEF TableKept
  <2> QED BY <2>1, <2>2, <2>3, Zenon
<1> QED BY <1>1, Zenon DEF CtxOK

\* The table is kept by what leaves the router alone.
LEMMA RouterKept ==
    ASSUME RoutesOK, UNCHANGED routerVars
    PROVE  TableKept
<1>1. UNCHANGED <<groups, g_current, endpoints, g_fallback, g_built, tree, resolved>>
  BY DEF routerVars
<1>2. g_current' \in 1..Len(groups')
  BY <1>1 DEF RoutesOK
<1>3. /\ RoutesOK' /\ Len(groups') >= Len(groups) /\ groups'[1] = groups[1]
      /\ \A g \in 0..Len(groups) : UnderOf(groups')[g] = UnderOf(groups)[g]
  BY <1>1, <1>2, RoutesStay
<1> QED BY <1>1, <1>3, Zenon DEF TableKept

\* One request moves on in its chain.
LEMMA CtxMoves ==
    ASSUME RoutesOK, UNCHANGED routerVars, CtxOK, g_built, NEW k \in Ids, NEW c,
           ctx' = [ctx EXCEPT ![k] = c],
           c # NoRequest => Running(c) /\ ChainFor(groups, endpoints, c.route)
    PROVE  CtxOK'
<1>1. UNCHANGED <<groups, endpoints, g_built>>
  BY DEF routerVars
<1>2. ctx = [j \in Ids |-> ctx[j]]
  BY DEF CtxOK
<1>3. ctx' = [j \in Ids |-> IF j = k THEN c ELSE ctx[j]]
  BY <1>2, Zenon
<1>4. ctx' = [j \in Ids |-> ctx'[j]]
  BY <1>3, Zenon
<1>5. ASSUME NEW j \in Ids, ctx'[j] # NoRequest
      PROVE  g_built' /\ Running(ctx'[j]) /\ ChainFor(groups', endpoints', ctx'[j].route)
  <2>1. ctx'[j] = IF j = k THEN c ELSE ctx[j]
    BY <1>3, Zenon
  <2>2. CASE j = k
    BY <1>1, <1>5, <2>1, <2>2, Zenon
  <2>3. CASE j # k
    <3>1. ctx'[j] = ctx[j]
      BY <2>1, <2>3
    <3>2. g_built /\ Running(ctx[j]) /\ ChainFor(groups, endpoints, ctx[j].route)
      BY <1>5, <3>1 DEF CtxOK
    <3> QED BY <1>1, <3>1, <3>2, Zenon
  <2> QED BY <2>2, <2>3
<1> QED BY <1>4, <1>5, Zenon DEF CtxOK

LEMMA InitServerInv == ServerInit => ServerInv
<1> SUFFICES ASSUME ServerInit PROVE ServerInv
  OBVIOUS
<1>1. RunInv /\ main = "idle"
  BY InitRunInv DEF ServerInit, RunInit
<1>2. RoutesOK
  <2> DEFINE root == [parent |-> 0, prefix |-> <<>>, mws |-> <<>>]
  <2>1. /\ groups = <<root>> /\ g_current = 1 /\ endpoints = <<>> /\ g_built = FALSE
        /\ tree = [n \in {<<>>} |-> <<>>]
    BY DEF ServerInit, RouterInit
  <2>2. root \in GroupType /\ root.parent = 0
    BY DEF GroupType
  <2> HIDE DEF root
  <2>3. groups \in Seq(GroupType) /\ Len(groups) = 1 /\ groups[1] = root
    BY <2>1, <2>2
  <2>4. Forest(groups) /\ 1 \in 1..Len(groups)
    BY <2>2, <2>3 DEF Forest
  <2>5. Homes(groups, endpoints)
    BY <2>1 DEF Homes
  <2> QED BY <2>1, <2>4, <2>5 DEF RoutesOK
<1>3. CtxOK
  <2>1. ctx = [k \in Ids |-> NoRequest]
    BY DEF ServerInit
  <2>2. \A k \in Ids : ctx[k] = NoRequest
    BY <2>1, Zenon
  <2>3. ctx = [k \in Ids |-> ctx[k]]
    BY <2>1, Zenon
  <2> QED BY <2>2, <2>3, Zenon DEF CtxOK
<1> QED BY <1>1, <1>2, <1>3 DEF ServerInv

\* Every step keeps the table the workers read.
LEMMA NextTableKept ==
    ASSUME RoutesOK, [ServerNext]_serverVars
    PROVE  TableKept
<1>1. CASE Registers
  BY <1>1, RegisterKeeps DEF Registers
<1>2. CASE Lifecycle
  BY <1>2, RouterKept DEF Lifecycle
<1>3. ASSUME NEW n \in 1..N, ioxd_run(n) PROVE TableKept
  BY <1>3, BuildKeeps DEF ioxd_run
<1>4. ASSUME NEW n \in 1..N, ioxd_run_pipes(n) PROVE TableKept
  <2>1. UNCHANGED routerVars
    BY <1>4 DEF ioxd_run_pipes
  <2> QED BY <2>1, RouterKept
<1>5. ASSUME NEW k \in Ids, Dispatch(k) \/ Next_(k) \/ Returns(k) \/ Leaves(k)
      PROVE  TableKept
  <2>1. UNCHANGED routerVars
    BY <1>5 DEF Dispatch, Next_, Returns, Leaves
  <2> QED BY <2>1, RouterKept
<1>6. CASE UNCHANGED serverVars
  BY <1>6, RouterKept DEF serverVars
<1> QED BY <1>1, <1>2, <1>3, <1>4, <1>5, <1>6 DEF ServerNext

LEMMA NextServerInv == ServerInv /\ [ServerNext]_serverVars => ServerInv'
<1> SUFFICES ASSUME ServerInv, [ServerNext]_serverVars PROVE ServerInv'
  OBVIOUS
<1>0. RunInv /\ RoutesOK /\ CtxOK /\ ctx = [k \in Ids |-> ctx[k]]
  BY DEF ServerInv, CtxOK
<1>1. RunInv'
  BY <1>0, NextRunInv, ServerIsRun
<1>2. TableKept /\ RoutesOK'
  BY <1>0, NextTableKept DEF TableKept
<1>3. main' # "idle" /\ handler' = "http" => g_built'
  <2> SUFFICES ASSUME main' # "idle", handler' = "http" PROVE g_built'
    OBVIOUS
  <2>1. ASSUME NEW n \in 1..N, ioxd_run(n) PROVE g_built'
    BY <1>0, <2>1, BuildKeeps DEF ioxd_run
  <2>2. ASSUME NEW n \in 1..N, ioxd_run_pipes(n) PROVE FALSE
    BY <2>2 DEF ioxd_run_pipes, run_workers
  <2>3. ASSUME main # "idle", handler' = handler PROVE g_built'
    BY <1>2, <2>3 DEF ServerInv, TableKept
  <2>4. CASE Registers \/ UNCHANGED serverVars
    BY <2>3, <2>4 DEF Registers, serverVars, runVars
  <2>5. CASE Lifecycle
    <3>1. CASE ioxd_bind \/ on_signal
      BY <2>3, <3>1 DEF ioxd_bind, on_signal
    <3>2. CASE Main
      BY <2>3, <3>2 DEF Main, pthread_create, CreateFails, AllStarted, pthread_join, Return
    <3>3. ASSUME NEW k \in Ids, SetUp(k) \/ SeesStop(k) PROVE g_built'
      <4>1. main # "idle"
        BY <1>0, <3>3 DEF SetUp, Aborts, SeesStop, RunInv, Placed
      <4> QED BY <2>3, <3>3, <4>1 DEF SetUp, Aborts, SeesStop
    <3> QED BY <2>5, <3>1, <3>2, <3>3 DEF Lifecycle
  <2>6. ASSUME NEW k \in Ids, Dispatch(k) \/ Next_(k) \/ Returns(k) \/ Leaves(k) PROVE g_built'
    BY <2>3, <2>6 DEF Dispatch, Next_, Returns, Leaves, Leave, Drained, EnterFails, runVars
  <2> QED BY <2>1, <2>2, <2>4, <2>5, <2>6 DEF ServerNext
<1>4. ASSUME UNCHANGED ctx PROVE CtxOK'
  <2>1. \A k \in Ids : ctx'[k] \in {ctx[k], NoRequest}
    BY <1>4
  <2>2. ctx' = [k \in Ids |-> ctx'[k]]
    BY <1>0, <1>4
  <2> QED BY <1>0, <1>2, <2>1, <2>2, CtxKept
<1>5. ASSUME Registers \/ Lifecycle \/ UNCHANGED serverVars PROVE CtxOK'
  BY <1>4, <1>5 DEF Registers, Lifecycle, serverVars
<1>6. ASSUME NEW n \in 1..N, ioxd_run(n) \/ ioxd_run_pipes(n) PROVE CtxOK'
  BY <1>4, <1>6 DEF ioxd_run, ioxd_run_pipes
<1>7. ASSUME NEW k \in Ids, Dispatch(k) PROVE CtxOK'
  <2>1. g_built /\ UNCHANGED routerVars
    <3>1. main # "idle"
      BY <1>0, <1>7 DEF Dispatch, Serving, RunInv, Placed
    <3> QED BY <1>7, <3>1 DEF ServerInv, Dispatch
  <2>2. PICK p \in RequestPaths, m \in RequestMethods :
            ctx' = [ctx EXCEPT ![k] = ioxd__router_dispatch([method |-> m, path |-> p])]
    BY <1>7 DEF Dispatch
  <2> DEFINE rq == [method |-> m, path |-> p]
             r == Route(rq)
             c == [req |-> rq, route |-> r, at |-> 0, open |-> <<>>, ran |-> <<>>,
                   again |-> FALSE]
             d == ioxd_next_run(c)
  <2>3. ChainFor(groups, endpoints, r) /\ Len(r.chain) \in Nat
    BY <1>0, <2>1, RouteIs, ServerConstants
  <2> HIDE DEF rq, r
  <2>4. c.route = r /\ c.open = <<>> /\ c.ran = <<>> /\ c.at = 0
    OBVIOUS
  <2>5. c \in Contexts(c)
    BY DEF Contexts
  <2> HIDE DEF c
  <2>6. Ran(c) /\ Nested(c) /\ c.at = Len(c.open) /\ \A i \in 1..Len(c.open) : c.open[i].called
    BY <2>3, <2>4 DEF Ran, Nested
  <2>7. Running(d) /\ d.route = c.route
    BY <2>4, <2>5, <2>6, NextRuns
  <2>8. ctx' = [ctx EXCEPT ![k] = d]
    BY <2>2, Zenon DEF ioxd__router_dispatch, d, c, r, rq
  <2> HIDE DEF d
  <2>9. ChainFor(groups, endpoints, d.route)
    BY <2>3, <2>4, <2>7
  <2> QED BY <1>0, <2>1, <2>7, <2>8, <2>9, CtxMoves
<1>8. ASSUME NEW k \in Ids, Next_(k) PROVE CtxOK'
  <2> DEFINE d == CallNext(ctx[k])
  <2>1. /\ ctx[k] # NoRequest /\ ~InHandler(ctx[k]) /\ UNCHANGED routerVars
        /\ ctx' = [ctx EXCEPT ![k] = d]
    BY <1>8, Zenon DEF Next_
  <2>2. g_built /\ Running(ctx[k]) /\ ChainFor(groups, endpoints, ctx[k].route)
    BY <1>0, <2>1 DEF CtxOK
  <2>3. Running(d) /\ d.route = ctx[k].route
    BY <2>1, <2>2, CallNextRuns
  <2> HIDE DEF d
  <2> QED BY <1>0, <2>1, <2>2, <2>3, CtxMoves
<1>9. ASSUME NEW k \in Ids, Returns(k) PROVE CtxOK'
  <2> DEFINE d == Returned(ctx[k])
  <2>1. ctx[k] # NoRequest /\ UNCHANGED routerVars /\ ctx' = [ctx EXCEPT ![k] = d]
    BY <1>9, Zenon DEF Returns
  <2>2. g_built /\ Running(ctx[k]) /\ ChainFor(groups, endpoints, ctx[k].route)
    BY <1>0, <2>1 DEF CtxOK
  <2>3. d # NoRequest => Running(d) /\ d.route = ctx[k].route
    BY <2>2, ReturnedRuns
  <2> HIDE DEF d
  <2> QED BY <1>0, <2>1, <2>2, <2>3, CtxMoves
<1>10. ASSUME NEW k \in Ids, Leaves(k) PROVE CtxOK'
  <2>1. ctx' = [ctx EXCEPT ![k] = NoRequest]
    BY <1>10 DEF Leaves
  <2>2. ctx' = [j \in Ids |-> IF j = k THEN NoRequest ELSE ctx[j]]
    BY <1>0, <2>1, Zenon
  <2>3. ctx' = [j \in Ids |-> ctx'[j]] /\ \A j \in Ids : ctx'[j] \in {ctx[j], NoRequest}
    BY <2>2, Zenon
  <2> QED BY <1>0, <1>2, <2>3, CtxKept
<1>11. CtxOK'
  BY <1>5, <1>6, <1>7, <1>8, <1>9, <1>10 DEF ServerNext
<1> QED BY <1>1, <1>2, <1>3, <1>11 DEF ServerInv

\* The links of a request's chain run in the order of their registration, the
\* root's first and the handler last, each at most once and, unless one calls
\* ioxd_next_run again, each inside those before it, with any routes, however
\* many registered late from a handler, and any number of workers.
THEOREM ChainsRunOnce == ServerSpec => []ChainRunsOnce
<1>1. ServerInv => ChainRunsOnce
  <2> SUFFICES ASSUME ServerInv, NEW k \in Ids, ctx[k] # NoRequest
               PROVE  LET c == ctx[k] IN
                      /\ c.route.chain = IF c.route.ep = 0 THEN Under[1]
                           ELSE Under[endpoints[c.route.ep].group] \o endpoints[c.route.ep].mws
                      /\ c.ran = [i \in 1..Len(c.ran) |-> i - 1]
                      /\ Len(c.ran) <= Len(c.route.chain) + 1
                      /\ ~c.again => \A i \in DOMAIN c.open : c.open[i].link = i - 1
    BY Zenon DEF ChainRunsOnce
  <2> DEFINE c == ctx[k]
  <2>1. Running(c) /\ ChainFor(groups, endpoints, c.route)
    BY DEF ServerInv, CtxOK
  <2> HIDE DEF c
  <2>2. c.route.chain = IF c.route.ep = 0 THEN Under[1]
            ELSE Under[endpoints[c.route.ep].group] \o endpoints[c.route.ep].mws
    BY <2>1, UnderNow, Zenon DEF ChainFor
  <2>3. c.ran \in Seq(Nat) /\ c.open \in Seq(Links)
    BY <2>1 DEF Running, Contexts
  <2>4. Len(c.ran) <= Len(c.route.chain) + 1 /\ \A i \in 1..Len(c.ran) : c.ran[i] = i - 1
    BY <2>1 DEF Running, Ran
  <2>5. c.ran = [i \in 1..Len(c.ran) |-> i - 1]
    <3>1. c.ran = [i \in 1..Len(c.ran) |-> c.ran[i]]
      BY <2>3
    <3>2. [i \in 1..Len(c.ran) |-> c.ran[i]] = [i \in 1..Len(c.ran) |-> i - 1]
      BY <2>4, Zenon
    <3> QED BY <3>1, <3>2, Zenon
  <2>6. ASSUME ~c.again PROVE \A i \in DOMAIN c.open : c.open[i].link = i - 1
    <3>1. DOMAIN c.open = 1..Len(c.open)
      BY <2>3
    <3> QED BY <2>1, <2>6, <3>1, Zenon DEF Running, Nested
  <2> QED BY <2>2, <2>4, <2>5, <2>6, Zenon DEF c
<1> QED BY <1>1, InitServerInv, NextServerInv, PTL DEF ServerSpec

\* What the workers read without a lock never changes under them: a late
\* registration is refused, or makes a group nobody looks at.
THEOREM TableStaysReadOnly == ServerSpec => TableIsReadOnly
<1> DEFINE Step == g_built => /\ UNCHANGED <<tree, resolved, endpoints, g_fallback>>
                              /\ groups'[1] = groups[1]
<1>1. ServerInv /\ [ServerNext]_serverVars => [Step]_serverVars
  <2> SUFFICES ASSUME ServerInv, [ServerNext]_serverVars PROVE Step
    OBVIOUS
  <2>1. TableKept
    BY NextTableKept DEF ServerInv
  <2> QED BY <2>1, Zenon DEF TableKept
<1> QED BY <1>1, InitServerInv, NextServerInv, PTL DEF ServerSpec, TableIsReadOnly

-----------------------------------------------------------------------------
(* The table of files.                                                     *)

FileType == [here : BOOLEAN, ver : Nat, size : Nat, twin : Nat]
EntryType == [st : {"free", "live"}, file : Files \cup {None}, ver : Nat, size : Nat,
              twin : Nat, refs : Nat, dropped : BOOLEAN, checked : Nat]
CacheType == [mem : [Entries -> EntryType], table : Seq(Entries), bytes : Int]
ReqType == [pc : {"idle", "plain", "twin", "loaded", "send"}, e : Entries \cup {None},
            variant : {"plain", "twin"}, came : Nat]

Loading == {"plain", "twin", "loaded"}

(* What the entries are charged, and the sum of it for those of a table.   *)
Weights(s) == [e \in Entries |-> BytesOf(s, e)]
Sum(W, t) == Total([i \in DOMAIN t |-> W[t[i]]])

(* The table: each entry once, live, charged.                              *)
Charged(s) ==
    /\ IsInjective(s.table)
    /\ \A e \in ToSet(s.table) : s.mem[e].st = "live" /\ ~ s.mem[e].dropped
    /\ s.bytes = Sum(Weights(s), s.table)

Senders(q, e) == {r \in Reqs : q[r].pc = "send" /\ q[r].e = e}

(* The entries that the handlers q hold: as in SendsReadLiveEntries, with  *)
(* what an entry being loaded still has to be when it is inserted.         *)
Held(s, q) ==
    /\ \A e \in Entries : s.mem[e].refs = Cardinality(Senders(q, e))
    /\ \A r \in Reqs : q[r].e = None <=> q[r].pc = "idle"
    /\ \A r \in Reqs : q[r].e # None => s.mem[q[r].e].st = "live"
    /\ \A r \in Reqs : q[r].pc \in Loading =>
         /\ q[r].e \notin ToSet(s.table)
         /\ s.mem[q[r].e].file \in Files
         /\ ~ s.mem[q[r].e].dropped
         /\ \A p \in Reqs : p # r => q[p].e # q[r].e

Good(s, q) == s \in CacheType /\ Charged(s) /\ Held(s, q)

(* An entry that a step leaves live is of the version it was of, and was   *)
(* checked when it was, unless it is dropped.                              *)
Kept(s, t) ==
    \A x \in Entries : t.mem[x].st = "live" =>
        /\ s.mem[x].st = "live"
        /\ t.mem[x].file = s.mem[x].file /\ t.mem[x].ver = s.mem[x].ver
        /\ t.mem[x].dropped \/ (~ s.mem[x].dropped /\ t.mem[x].checked = s.mem[x].checked)

Inv ==
    /\ disk \in [Files -> FileType] /\ now \in Nat
    /\ req \in [Reqs -> ReqType]
    /\ Good(Cache, req)
    /\ bytes <= Budget

-----------------------------------------------------------------------------
(* Sums.                                                                   *)

(* c is the running total of w.                                            *)
Runs(c, w) ==
    /\ c \in [0..Len(w) -> Int]
    /\ c[0] = 0
    /\ \A i \in 1..Len(w) : c[i] = c[i - 1] + w[i]

\* Every sequence of numbers has a running total.
LEMMA RunsExist ==
    ASSUME NEW w \in Seq(Int)
    PROVE  \E c : Runs(c, w)
<1> DEFINE Up(n, c) == /\ c \in [0..n -> Int]
                       /\ c[0] = 0
                       /\ \A i \in 1..n : c[i] = c[i - 1] + w[i]
           S == {n \in Nat : n <= Len(w) => \E c : Up(n, c)}
<1>1. 0 \in S
  <2>1. Up(0, [i \in 0..0 |-> 0])
    OBVIOUS
  <2> QED BY <2>1
<1>2. ASSUME NEW n \in Nat, n \in S PROVE n + 1 \in S
  <2> HIDE DEF Up
  <2> SUFFICES ASSUME n + 1 <= Len(w) PROVE \E c : Up(n + 1, c)
    OBVIOUS
  <2> USE DEF Up
  <2>0. Len(w) \in Nat
    BY LenProperties
  <2>1. n <= Len(w) /\ n + 1 \in 1..Len(w) /\ w[n + 1] \in Int
    BY <2>0, ElementOfSeq
  <2>2. PICK c : Up(n, c)
    BY <1>2, <2>1
  <2> DEFINE d == [i \in 0..(n + 1) |-> IF i <= n THEN c[i] ELSE c[n] + w[n + 1]]
  <2>3. d \in [0..(n + 1) -> Int]
    BY <2>1, <2>2
  <2>4. d[0] = 0
    BY <2>2
  <2>5. ASSUME NEW i \in 1..(n + 1) PROVE d[i] = d[i - 1] + w[i]
    <3>1. CASE i <= n
      BY <2>2, <3>1
    <3>2. CASE i = n + 1
      BY <2>2, <3>2
    <3> QED BY <3>1, <3>2
  <2>6. Up(n + 1, d)
    BY <2>3, <2>4, <2>5
  <2> QED BY <2>6
<1> HIDE DEF S
<1>3. \A n \in Nat : n \in S
  BY <1>1, <1>2, NatSet
<1>4. Len(w) \in Nat /\ Len(w) <= Len(w)
  OBVIOUS
<1>5. \E c : Up(Len(w), c)
  BY <1>3, <1>4 DEF S
<1> QED BY <1>5 DEF Runs

\* The sum is the end of the running total.
LEMMA TotalRuns ==
    ASSUME NEW w \in Seq(Int), NEW c, Runs(c, w)
    PROVE  Total(w) = c[Len(w)] /\ Total(w) \in Int
<1> DEFINE Fix(f) == f = [i \in 0..Len(w) |-> IF i = 0 THEN 0 ELSE f[i - 1] + w[i]]
           sum == CHOOSE f : Fix(f)
<1>1. Fix(c)
  <2>1. \A i \in 0..Len(w) : c[i] = IF i = 0 THEN 0 ELSE c[i - 1] + w[i]
    BY DEF Runs
  <2> QED BY <2>1 DEF Runs
<1>2. Fix(sum)
  <2> HIDE DEF Fix
  <2> QED BY <1>1
<1>3. sum = c
  <2> DEFINE S == {n \in Nat : n <= Len(w) => sum[n] = c[n]}
  <2> HIDE DEF sum
  <2>0. \A i \in 0..Len(w) : sum[i] = IF i = 0 THEN 0 ELSE sum[i - 1] + w[i]
    BY <1>2
  <2>1. 0 \in S
    BY <2>0 DEF Runs
  <2>2. ASSUME NEW n \in Nat, n \in S PROVE n + 1 \in S
    <3> SUFFICES ASSUME n + 1 <= Len(w) PROVE sum[n + 1] = c[n + 1]
      OBVIOUS
    <3>1. n + 1 \in 1..Len(w) /\ n + 1 \in 0..Len(w) /\ (n + 1) - 1 = n /\ n <= Len(w)
      OBVIOUS
    <3> QED BY <2>0, <2>2, <3>1 DEF Runs
  <2> HIDE DEF S
  <2>3. \A n \in Nat : n \in S
    BY <2>1, <2>2, NatSet
  <2>4. \A n \in 0..Len(w) : sum[n] = c[n]
    BY <2>3 DEF S
  <2>5. sum = [i \in 0..Len(w) |-> sum[i]]
    BY <1>2
  <2> QED BY <2>4, <2>5 DEF Runs
<1>4. Total(w) = sum[Len(w)]
  BY DEF Total
<1>5. c[Len(w)] \in Int
  BY DEF Runs
<1> HIDE DEF sum
<1> QED
  BY <1>3, <1>4, <1>5

\* The empty sum.
LEMMA TotalEmpty == Total(<<>>) = 0
<1>1. <<>> \in Seq(Int) /\ Len(<<>>) = 0
  OBVIOUS
<1>2. PICK c : Runs(c, <<>>)
  BY <1>1, RunsExist
<1> QED BY <1>1, <1>2, TotalRuns DEF Runs

\* One more in front.
LEMMA TotalCons ==
    ASSUME NEW w \in Seq(Int), NEW x \in Int
    PROVE  Total(<<x>> \o w) = x + Total(w)
<1> DEFINE v == <<x>> \o w
<1>1. v \in Seq(Int) /\ Len(v) = Len(w) + 1 /\ v[1] = x /\ \A i \in 2..Len(v) : v[i] = w[i - 1]
  OBVIOUS
<1>2. PICK c : Runs(c, w)
  BY RunsExist
<1> DEFINE d == [i \in 0..(Len(w) + 1) |-> IF i = 0 THEN 0 ELSE x + c[i - 1]]
<1> HIDE DEF v
<1>3. Runs(d, v)
  <2>1. d \in [0..Len(v) -> Int] /\ d[0] = 0
    BY <1>1, <1>2 DEF Runs
  <2>2. ASSUME NEW i \in 1..Len(v) PROVE d[i] = d[i - 1] + v[i]
    <3>1. CASE i = 1
      BY <1>1, <1>2, <3>1 DEF Runs
    <3>2. CASE i # 1
      <4>1. i \in 2..Len(v) /\ i - 1 \in 1..Len(w) /\ i - 1 # 0 /\ i \in 0..(Len(w) + 1)
            /\ i - 1 \in 0..(Len(w) + 1) /\ i # 0
        BY <1>1, <3>2
      <4>2. c[i - 1] = c[(i - 1) - 1] + w[i - 1]
        BY <1>2, <4>1 DEF Runs
      <4>5. i - 1 \in 0..Len(w) /\ (i - 1) - 1 \in 0..Len(w)
        BY <4>1
      <4>3. c[i - 1] \in Int /\ c[(i - 1) - 1] \in Int /\ w[i - 1] \in Int
        BY <1>2, <4>1, <4>5, ElementOfSeq DEF Runs
      <4>4. d[i] = x + c[i - 1] /\ d[i - 1] = x + c[(i - 1) - 1] /\ v[i] = w[i - 1]
        BY <1>1, <4>1
      <4> HIDE DEF d
      <4> QED BY <4>2, <4>3, <4>4
    <3> QED BY <3>1, <3>2
  <2> QED BY <2>1, <2>2 DEF Runs
<1>4. Total(v) = d[Len(v)] /\ Total(w) = c[Len(w)]
  BY <1>1, <1>2, <1>3, TotalRuns
<1>5. d[Len(v)] = x + c[Len(w)]
  BY <1>1, <1>2 DEF Runs
<1> QED BY <1>4, <1>5 DEF v

\* What is left of a sequence without one place.
LEMMA RemoveAtProps ==
    ASSUME NEW T, NEW w \in Seq(T), NEW p \in 1..Len(w)
    PROVE  /\ RemoveAt(w, p) \in Seq(T) /\ Len(RemoveAt(w, p)) = Len(w) - 1
           /\ \A i \in 1..(Len(w) - 1) :
                RemoveAt(w, p)[i] = IF i < p THEN w[i] ELSE w[i + 1]
<1> DEFINE v == RemoveAt(w, p)
<1>1. /\ v \in Seq(T) /\ Len(v) = Len(w) - 1
      /\ \A i \in 1..Len(v) : v[i] = IF i < p THEN w[i] ELSE w[i + 1]
  <2> DEFINE a == SubSeq(w, 1, p - 1)
             b == SubSeq(w, p + 1, Len(w))
  <2>1. Len(w) \in Nat /\ p - 1 \in 0..Len(w) /\ p + 1 \in 1..(Len(w) + 1)
    OBVIOUS
  <2>2. /\ a \in Seq(T) /\ Len(a) = p - 1
        /\ \A i \in 1..(p - 1) : a[i] = w[i]
    BY <2>1
  <2>3. /\ b \in Seq(T) /\ Len(b) = Len(w) - p
        /\ \A i \in 1..(Len(w) - p) : b[i] = w[p + i]
    BY <2>1
  <2>4. v = a \o b
    BY DEF RemoveAt
  <2> HIDE DEF a, b, v
  <2>5. /\ v \in Seq(T) /\ Len(v) = Len(a) + Len(b)
        /\ \A i \in 1..(Len(a) + Len(b)) : v[i] = IF i <= Len(a) THEN a[i] ELSE b[i - Len(a)]
    BY <2>2, <2>3, <2>4, ConcatProperties
  <2>6. Len(v) = Len(w) - 1
    BY <2>1, <2>2, <2>3, <2>5
  <2>7. ASSUME NEW i \in 1..Len(v) PROVE v[i] = IF i < p THEN w[i] ELSE w[i + 1]
    <3>1. CASE i < p
      BY <2>1, <2>2, <2>3, <2>5, <2>6, <3>1
    <3>2. CASE ~ (i < p)
      <4>1. i - (p - 1) \in 1..(Len(w) - p) /\ p + (i - (p - 1)) = i + 1
        BY <2>1, <2>6, <3>2
      <4>2. b[i - (p - 1)] = w[i + 1]
        BY <2>3, <4>1
      <4>3. i \in 1..(Len(a) + Len(b)) /\ ~ (i <= Len(a)) /\ i - Len(a) = i - (p - 1)
        BY <2>1, <2>2, <2>3, <2>6, <3>2
      <4>4. v[i] = b[i - Len(a)]
        BY <2>5, <4>3
      <4> QED BY <3>2, <4>2, <4>3, <4>4
    <3> QED BY <3>1, <3>2
  <2> QED BY <2>5, <2>6, <2>7
<1> QED BY <1>1

\* One less.
LEMMA TotalRemoveAt ==
    ASSUME NEW w \in Seq(Int), NEW p \in 1..Len(w)
    PROVE  Total(RemoveAt(w, p)) = Total(w) - w[p]
<1> DEFINE v == RemoveAt(w, p)
<1>1. /\ v \in Seq(Int) /\ Len(v) = Len(w) - 1
      /\ \A i \in 1..Len(v) : v[i] = IF i < p THEN w[i] ELSE w[i + 1]
  BY RemoveAtProps
<1>2. PICK c : Runs(c, w)
  BY RunsExist
<1> DEFINE d == [i \in 0..(Len(w) - 1) |-> IF i < p THEN c[i] ELSE c[i + 1] - w[p]]
<1> HIDE DEF v
<1>3. w[p] \in Int /\ c[p] = c[p - 1] + w[p] /\ c[p - 1] \in Int
  <2>1. p \in 1..Len(w) /\ p - 1 \in 0..Len(w)
    OBVIOUS
  <2> QED BY <1>2, <2>1, ElementOfSeq DEF Runs
<1>4. \A i \in 0..Len(w) : c[i] \in Int
  BY <1>2 DEF Runs
<1>5. d[0] = 0
  BY <1>2, <1>3 DEF Runs
<1>6. ASSUME NEW i \in 1..(Len(w) - 1) PROVE d[i] = d[i - 1] + v[i]
  <2>1. CASE i < p
    BY <1>1, <1>2, <2>1 DEF Runs
  <2>2. CASE i = p
    <3>1. d[i] = c[i + 1] - w[p] /\ d[i - 1] = c[p - 1] /\ v[i] = w[i + 1]
      BY <1>1, <2>2
    <3>2. c[i + 1] = c[i] + w[i + 1] /\ w[i + 1] \in Int
      <4>1. i + 1 \in 1..Len(w) /\ (i + 1) - 1 = i
        OBVIOUS
      <4> QED BY <1>2, <4>1 DEF Runs
    <3> HIDE DEF d
    <3> QED BY <1>3, <2>2, <3>1, <3>2
  <2>3. CASE i > p
    <3>1. d[i] = c[i + 1] - w[p] /\ d[i - 1] = c[(i - 1) + 1] - w[p] /\ v[i] = w[i + 1]
      <4>1. i \in 0..(Len(w) - 1) /\ i - 1 \in 0..(Len(w) - 1) /\ ~ (i < p) /\ ~ (i - 1 < p)
        BY <2>3
      <4> QED BY <1>1, <4>1
    <3>2. c[i + 1] = c[i] + w[i + 1] /\ w[i + 1] \in Int /\ (i - 1) + 1 = i
      <4>1. i + 1 \in 1..Len(w) /\ (i + 1) - 1 = i
        OBVIOUS
      <4> QED BY <1>2, <4>1 DEF Runs
    <3>3. c[i] \in Int
      BY <1>4
    <3> HIDE DEF d
    <3> QED BY <1>3, <3>1, <3>2, <3>3
  <2> QED BY <2>1, <2>2, <2>3
<1>7. \A i \in 0..(Len(w) - 1) : d[i] \in Int
  BY <1>3, <1>4
<1>8. Runs(d, v)
  <2>1. d \in [0..Len(v) -> Int]
    BY <1>1, <1>7
  <2> HIDE DEF d
  <2> QED BY <1>1, <1>5, <1>6, <2>1 DEF Runs
<1>9. Total(v) = d[Len(v)] /\ Total(w) = c[Len(w)]
  BY <1>1, <1>2, <1>8, TotalRuns
<1>10. d[Len(v)] = c[Len(w)] - w[p]
  <2>1. CASE p = Len(w)
    BY <1>1, <1>3, <2>1
  <2>2. CASE p < Len(w)
    BY <1>1, <2>2
  <2> QED BY <2>1, <2>2
<1> QED BY <1>9, <1>10 DEF v

-----------------------------------------------------------------------------
(* The recency list.                                                       *)

\* recency_out takes the entry out, and nothing else.
LEMMA RecencyOutProps ==
    ASSUME NEW t \in Seq(Entries), NEW e \in ToSet(t), IsInjective(t)
    PROVE  /\ RecencyOut(t, e) \in Seq(Entries)
           /\ Len(RecencyOut(t, e)) = Len(t) - 1
           /\ IsInjective(RecencyOut(t, e))
           /\ ToSet(RecencyOut(t, e)) = ToSet(t) \ {e}
           /\ \E p \in 1..Len(t) : t[p] = e /\ RecencyOut(t, e) = RemoveAt(t, p)
<1>0. Len(t) \in Nat /\ DOMAIN t = 1..Len(t)
  BY LenProperties
<1>1. PICK p \in 1..Len(t) : t[p] = e /\ RecencyOut(t, e) = RemoveAt(t, p)
  BY <1>0 DEF RecencyOut, ToSet
<1> DEFINE u == RecencyOut(t, e)
<1>2. /\ u \in Seq(Entries) /\ Len(u) = Len(t) - 1
      /\ \A i \in 1..(Len(t) - 1) : u[i] = IF i < p THEN t[i] ELSE t[i + 1]
  BY <1>1, RemoveAtProps
<1> HIDE DEF u
<1>3. DOMAIN u = 1..(Len(t) - 1)
  BY <1>2, LenProperties
<1>4. ASSUME NEW i \in 1..(Len(t) - 1), NEW j \in 1..(Len(t) - 1), u[i] = u[j] PROVE i = j
  <2> DEFINE I == IF i < p THEN i ELSE i + 1
             J == IF j < p THEN j ELSE j + 1
  <2>1. I \in 1..Len(t) /\ J \in 1..Len(t) /\ u[i] = t[I] /\ u[j] = t[J]
    BY <1>0, <1>2
  <2>2. I = J
    BY <1>0, <1>4, <2>1 DEF IsInjective
  <2> QED BY <1>0, <2>2
<1>5. ASSUME NEW x \in ToSet(u) PROVE x \in ToSet(t) /\ x # e
  <2>1. PICK i \in 1..(Len(t) - 1) : x = u[i]
    BY <1>3 DEF ToSet
  <2> DEFINE I == IF i < p THEN i ELSE i + 1
  <2>2. I \in 1..Len(t) /\ I # p /\ x = t[I]
    BY <1>0, <1>2, <2>1
  <2> HIDE DEF I
  <2> QED BY <1>0, <1>1, <2>2 DEF ToSet, IsInjective
<1>6. ASSUME NEW x \in ToSet(t), x # e PROVE x \in ToSet(u)
  <2>1. PICK k \in 1..Len(t) : x = t[k] /\ k # p
    BY <1>0, <1>1, <1>6 DEF ToSet
  <2> DEFINE i == IF k < p THEN k ELSE k - 1
  <2>2. i \in 1..(Len(t) - 1) /\ u[i] = x
    BY <1>0, <1>2, <2>1
  <2> HIDE DEF i
  <2> QED BY <1>3, <2>2 DEF ToSet
<1>7. IsInjective(u)
  BY <1>3, <1>4 DEF IsInjective
<1>8. ToSet(u) = ToSet(t) \ {e}
  BY <1>5, <1>6
<1> QED BY <1>1, <1>2, <1>7, <1>8 DEF u

\* In front of the list.
LEMMA ConsProps ==
    ASSUME NEW t \in Seq(Entries), NEW e \in Entries, IsInjective(t), e \notin ToSet(t)
    PROVE  /\ <<e>> \o t \in Seq(Entries)
           /\ IsInjective(<<e>> \o t)
           /\ ToSet(<<e>> \o t) = ToSet(t) \cup {e}
<1> DEFINE u == <<e>> \o t
<1>0. Len(t) \in Nat /\ DOMAIN t = 1..Len(t)
  BY LenProperties
<1>1. /\ u \in Seq(Entries) /\ Len(u) = Len(t) + 1 /\ DOMAIN u = 1..(Len(t) + 1)
      /\ u[1] = e
      /\ \A i \in 2..(Len(t) + 1) : u[i] = t[i - 1]
  OBVIOUS
<1> HIDE DEF u
<1>2. \A i \in 2..(Len(t) + 1) : i - 1 \in 1..Len(t) /\ u[i] = t[i - 1] /\ u[i] # e
  BY <1>0, <1>1 DEF ToSet
<1>3. \A i \in 1..Len(t) : i + 1 \in 2..(Len(t) + 1) /\ u[i + 1] = t[i]
  BY <1>0, <1>1
<1>4. ASSUME NEW i \in 1..(Len(t) + 1), NEW j \in 1..(Len(t) + 1), u[i] = u[j] PROVE i = j
  <2>1. CASE i = 1 \/ j = 1
    BY <1>0, <1>1, <1>2, <1>4, <2>1
  <2>2. CASE i # 1 /\ j # 1
    <3>1. i \in 2..(Len(t) + 1) /\ j \in 2..(Len(t) + 1)
      BY <1>0, <2>2
    <3>2. i - 1 = j - 1
      BY <1>0, <1>2, <1>4, <3>1 DEF IsInjective
    <3> QED BY <3>1, <3>2
  <2> QED BY <2>1, <2>2
<1>5. IsInjective(u)
  BY <1>1, <1>4 DEF IsInjective
<1>6. ASSUME NEW x PROVE x \in ToSet(u) <=> x \in ToSet(t) \/ x = e
  <2>1. ASSUME x \in ToSet(u) PROVE x \in ToSet(t) \/ x = e
    <3>1. PICK i \in 1..(Len(t) + 1) : x = u[i]
      BY <1>1, <2>1 DEF ToSet
    <3>2. i = 1 \/ i \in 2..(Len(t) + 1)
      BY <1>0
    <3> QED BY <1>0, <1>1, <1>2, <3>1, <3>2 DEF ToSet
  <2>2. ASSUME x \in ToSet(t) PROVE x \in ToSet(u)
    <3>1. PICK i \in 1..Len(t) : x = t[i]
      BY <1>0, <2>2 DEF ToSet
    <3>2. i + 1 \in 1..(Len(t) + 1) /\ x = u[i + 1]
      BY <1>0, <1>3, <3>1
    <3> QED BY <1>1, <3>2 DEF ToSet
  <2>3. e \in ToSet(u)
    BY <1>0, <1>1 DEF ToSet
  <2> QED BY <2>1, <2>2, <2>3
<1> QED BY <1>1, <1>5, <1>6 DEF u

\* What the entry taken out was charged is taken off the sum.
LEMMA SumOut ==
    ASSUME NEW W \in [Entries -> Int], NEW t \in Seq(Entries), NEW e \in ToSet(t),
           IsInjective(t)
    PROVE  Sum(W, RecencyOut(t, e)) = Sum(W, t) - W[e]
<1> DEFINE w == [i \in DOMAIN t |-> W[t[i]]]
<1>0. Len(t) \in Nat /\ DOMAIN t = 1..Len(t) /\ \A i \in 1..Len(t) : t[i] \in Entries
  BY LenProperties, ElementOfSeq
<1>1. w \in Seq(Int) /\ Len(w) = Len(t) /\ \A i \in 1..Len(t) : w[i] = W[t[i]]
  BY <1>0
<1> HIDE DEF w
<1>2. PICK p \in 1..Len(t) : t[p] = e /\ RecencyOut(t, e) = RemoveAt(t, p)
  BY RecencyOutProps
<1> DEFINE u == RemoveAt(t, p)
           v == [i \in DOMAIN u |-> W[u[i]]]
           z == RemoveAt(w, p)
<1>3. /\ u \in Seq(Entries) /\ Len(u) = Len(t) - 1
      /\ \A i \in 1..(Len(t) - 1) : u[i] = IF i < p THEN t[i] ELSE t[i + 1]
  BY RemoveAtProps
<1>4. /\ z \in Seq(Int) /\ Len(z) = Len(t) - 1
      /\ \A i \in 1..(Len(t) - 1) : z[i] = IF i < p THEN w[i] ELSE w[i + 1]
  BY <1>1, RemoveAtProps
<1>5. DOMAIN u = 1..(Len(t) - 1) /\ DOMAIN z = 1..(Len(t) - 1)
      /\ z = [i \in 1..(Len(t) - 1) |-> z[i]]
  BY <1>3, <1>4, LenProperties
<1> HIDE DEF u, z
<1>6. ASSUME NEW i \in 1..(Len(t) - 1) PROVE z[i] = W[u[i]]
  <2>1. i \in 1..Len(t) /\ i + 1 \in 1..Len(t)
    BY <1>0
  <2>2. CASE i < p
    BY <1>1, <1>3, <1>4, <2>1, <2>2
  <2>3. CASE ~ (i < p)
    BY <1>1, <1>3, <1>4, <2>1, <2>3
  <2> QED BY <2>2, <2>3
<1>7. v = z
  BY <1>5, <1>6
<1>8. Total(z) = Total(w) - w[p]
  BY <1>1, TotalRemoveAt DEF z
<1> QED BY <1>1, <1>2, <1>7, <1>8 DEF Sum, w, u

\* What the entry put in front is charged is added.
LEMMA SumCons ==
    ASSUME NEW W \in [Entries -> Int], NEW t \in Seq(Entries), NEW e \in Entries
    PROVE  Sum(W, <<e>> \o t) = Sum(W, t) + W[e] /\ Sum(W, t) \in Int
<1> DEFINE w == [i \in DOMAIN t |-> W[t[i]]]
           u == <<e>> \o t
           v == [i \in DOMAIN u |-> W[u[i]]]
           z == <<W[e]>> \o w
<1>0. Len(t) \in Nat /\ DOMAIN t = 1..Len(t) /\ \A i \in 1..Len(t) : t[i] \in Entries
  BY LenProperties, ElementOfSeq
<1>1. w \in Seq(Int) /\ Len(w) = Len(t) /\ \A i \in 1..Len(t) : w[i] = W[t[i]]
  BY <1>0
<1> HIDE DEF w
<1>2. /\ u \in Seq(Entries) /\ Len(u) = Len(t) + 1 /\ DOMAIN u = 1..(Len(t) + 1)
      /\ u[1] = e
      /\ \A i \in 2..(Len(t) + 1) : u[i] = t[i - 1]
  OBVIOUS
<1>3. /\ z \in Seq(Int) /\ Len(z) = Len(t) + 1 /\ DOMAIN z = 1..(Len(t) + 1)
      /\ z[1] = W[e]
      /\ \A i \in 2..(Len(t) + 1) : z[i] = w[i - 1]
  BY <1>1
<1>4. z = [i \in 1..(Len(t) + 1) |-> z[i]]
  BY <1>3
<1> HIDE DEF u, z
<1>5. ASSUME NEW i \in 1..(Len(t) + 1) PROVE z[i] = W[u[i]]
  <2>1. CASE i = 1
    BY <1>2, <1>3, <2>1
  <2>2. CASE i # 1
    <3>1. i \in 2..(Len(t) + 1) /\ i - 1 \in 1..Len(t)
      BY <1>0, <2>2
    <3> QED BY <1>1, <1>2, <1>3, <3>1
  <2> QED BY <2>1, <2>2
<1>6. v = z
  BY <1>2, <1>4, <1>5
<1>7. Total(z) = W[e] + Total(w) /\ Total(w) \in Int
  <2>1. PICK c : Runs(c, w)
    BY <1>1, RunsExist
  <2> QED BY <1>1, <2>1, TotalCons, TotalRuns DEF z
<1>8. W[e] \in Int
  OBVIOUS
<1>9. Sum(W, t) = Total(w) /\ Sum(W, u) = Total(v)
  BY DEF Sum, w
<1> HIDE DEF v
<1>10. Sum(W, u) = Sum(W, t) + W[e] /\ Sum(W, t) \in Int
  BY <1>6, <1>7, <1>8, <1>9
<1> QED BY <1>10 DEF u

\* The sum of a table depends on the entries it has.
LEMMA SumSame ==
    ASSUME NEW W \in [Entries -> Int], NEW V \in [Entries -> Int], NEW t \in Seq(Entries),
           \A e \in ToSet(t) : W[e] = V[e]
    PROVE  Sum(W, t) = Sum(V, t)
<1>1. \A i \in DOMAIN t : W[t[i]] = V[t[i]]
  BY DEF ToSet
<1>2. [i \in DOMAIN t |-> W[t[i]]] = [i \in DOMAIN t |-> V[t[i]]]
  BY <1>1
<1> QED BY <1>2 DEF Sum

\* An empty table has no sum.
LEMMA SumEmpty ==
    ASSUME NEW W
    PROVE  Sum(W, <<>>) = 0
<1>1. [i \in DOMAIN <<>> |-> W[<<>>[i]]] = <<>>
  OBVIOUS
<1> QED BY <1>1, TotalEmpty DEF Sum

-----------------------------------------------------------------------------
(* The operations on the table.                                            *)

\* The fields of a cache.
LEMMA CacheFields ==
    ASSUME NEW s \in CacheType, NEW e \in Entries
    PROVE  /\ s.mem \in [Entries -> EntryType] /\ s.table \in Seq(Entries) /\ s.bytes \in Int
           /\ s.mem[e] \in EntryType
           /\ s.mem[e].ver \in Nat /\ s.mem[e].refs \in Nat /\ s.mem[e].dropped \in BOOLEAN
           /\ BytesOf(s, e) \in Nat
           /\ Weights(s) \in [Entries -> Int] /\ Weights(s)[e] = BytesOf(s, e)
<1>1. s.mem \in [Entries -> EntryType] /\ s.table \in Seq(Entries) /\ s.bytes \in Int
  BY DEF CacheType
<1>2. \A x \in Entries : s.mem[x] \in EntryType
  BY <1>1
<1>3. \A x \in Entries : /\ s.mem[x].ver \in Nat /\ s.mem[x].refs \in Nat
                        /\ s.mem[x].size \in Nat /\ s.mem[x].twin \in Nat
                        /\ s.mem[x].dropped \in BOOLEAN
  BY <1>2 DEF EntryType
<1>4. \A x \in Entries : BytesOf(s, x) \in Nat
  BY <1>3 DEF BytesOf
<1> QED BY <1>1, <1>2, <1>3, <1>4 DEF Weights

\* A cache with another entry.
LEMMA SetEntry ==
    ASSUME NEW s \in CacheType, NEW e \in Entries, NEW m \in EntryType
    PROVE  LET u == [s EXCEPT !.mem[e] = m] IN
           /\ u \in CacheType /\ u.table = s.table /\ u.bytes = s.bytes
           /\ u.mem = [s.mem EXCEPT ![e] = m]
           /\ u.mem[e] = m /\ \A x \in Entries : x # e => u.mem[x] = s.mem[x]
BY DEF CacheType

\* A cache with an entry marked as dropped.
LEMMA SetDropped ==
    ASSUME NEW s \in CacheType, NEW e \in Entries
    PROVE  LET u == [s EXCEPT !.mem[e].dropped = TRUE] IN
           /\ u \in CacheType /\ u.table = s.table /\ u.bytes = s.bytes
           /\ u.mem[e] = [s.mem[e] EXCEPT !.dropped = TRUE]
           /\ \A x \in Entries : x # e => u.mem[x] = s.mem[x]
<1>0. s.mem \in [Entries -> EntryType] /\ s.mem[e] \in EntryType
  BY CacheFields
<1>1. LET u == [s EXCEPT !.mem[e].dropped = TRUE] IN u \in CacheType
  BY <1>0 DEF CacheType, EntryType
<1> QED
  BY <1>1 DEF CacheType

\* A cache with an entry held by one more, or one less.
LEMMA SetRefs ==
    ASSUME NEW s \in CacheType, NEW e \in Entries, NEW n \in Nat
    PROVE  LET u == [s EXCEPT !.mem[e].refs = n] IN
           /\ u \in CacheType /\ u.table = s.table /\ u.bytes = s.bytes
           /\ u.mem[e] = [s.mem[e] EXCEPT !.refs = n]
           /\ \A x \in Entries : x # e => u.mem[x] = s.mem[x]
<1>0. s.mem \in [Entries -> EntryType] /\ s.mem[e] \in EntryType
  BY CacheFields
<1>1. LET u == [s EXCEPT !.mem[e].refs = n] IN u \in CacheType
  BY <1>0 DEF CacheType, EntryType
<1> QED
  BY <1>1 DEF CacheType

\* What drop does to each part of the cache.
LEMMA DropFields ==
    ASSUME NEW s \in CacheType, NEW e \in ToSet(s.table), IsInjective(s.table)
    PROVE  /\ e \in Entries
           /\ Drop(s, e) \in CacheType
           /\ Drop(s, e).table = RecencyOut(s.table, e)
           /\ Drop(s, e).bytes = s.bytes - BytesOf(s, e)
           /\ \A x \in Entries : x # e => Drop(s, e).mem[x] = s.mem[x]
           /\ s.mem[e].refs = 0 => Drop(s, e).mem[e] = Free
           /\ s.mem[e].refs # 0 => Drop(s, e).mem[e] = [s.mem[e] EXCEPT !.dropped = TRUE]
<1>0. e \in Entries
  BY ElementOfSeq, LenProperties DEF ToSet, CacheType
<1>1. s.table \in Seq(Entries) /\ s.bytes \in Int /\ BytesOf(s, e) \in Nat
  BY <1>0, CacheFields
<1>2. RecencyOut(s.table, e) \in Seq(Entries) /\ s.bytes - BytesOf(s, e) \in Int
  BY <1>1, RecencyOutProps
<1> DEFINE k == UnlinkEntry(s, e)
           u == [k EXCEPT !.mem[e].dropped = TRUE]
           f == [u EXCEPT !.mem[e] = Free]
<1>3. /\ k \in CacheType /\ k.mem = s.mem /\ k.table = RecencyOut(s.table, e)
      /\ k.bytes = s.bytes - BytesOf(s, e)
  <2> DEFINE t == RecencyOut(s.table, e)
             n == s.bytes - BytesOf(s, e)
  <2>1. k = [s EXCEPT !.table = t, !.bytes = n]
    BY DEF UnlinkEntry
  <2> HIDE DEF k, t, n
  <2>2. t \in Seq(Entries) /\ n \in Int
    BY <1>2 DEF t, n
  <2>3. k \in CacheType /\ k.mem = s.mem /\ k.table = t /\ k.bytes = n
    BY <2>1, <2>2 DEF CacheType
  <2> QED BY <2>3 DEF t, n
<1>4. Free \in EntryType
  BY DEF EntryType, Free
<1>5. Drop(s, e) = IF s.mem[e].refs = 0 THEN f ELSE u
  BY DEF Drop, EntryFree
<1> HIDE DEF k
<1>6. /\ u \in CacheType /\ u.table = k.table /\ u.bytes = k.bytes
      /\ u.mem[e] = [k.mem[e] EXCEPT !.dropped = TRUE]
      /\ \A x \in Entries : x # e => u.mem[x] = k.mem[x]
  BY <1>0, <1>3, SetDropped, Zenon
<1> HIDE DEF u
<1>7. /\ f \in CacheType /\ f.table = u.table /\ f.bytes = u.bytes
      /\ f.mem[e] = Free /\ \A x \in Entries : x # e => f.mem[x] = u.mem[x]
  BY <1>0, <1>4, <1>6, SetEntry
<1> HIDE DEF f
<1> QED BY <1>0, <1>3, <1>5, <1>6, <1>7, Zenon

\* What drop does to the entry itself: it is freed, or marked.
LEMMA DropKept ==
    ASSUME NEW s \in CacheType, NEW e \in ToSet(s.table), IsInjective(s.table),
           NEW c, \A x \in Entries : x # e => s.mem[x] = c.mem[x],
           c.mem[e].st = s.mem[e].st, c.mem[e].file = s.mem[e].file, c.mem[e].ver = s.mem[e].ver
    PROVE  Kept(c, Drop(s, e))
<1> DEFINE d == Drop(s, e)
<1>1. /\ e \in Entries
      /\ \A x \in Entries : x # e => d.mem[x] = s.mem[x]
      /\ s.mem[e].refs = 0 => d.mem[e] = Free
      /\ s.mem[e].refs # 0 => d.mem[e] = [s.mem[e] EXCEPT !.dropped = TRUE]
  BY DropFields
<1>2. s.mem[e] \in EntryType
  BY <1>1, CacheFields
<1>3. \A x \in Entries : s.mem[x].dropped \in BOOLEAN
  BY CacheFields
<1> HIDE DEF d
<1>4. CASE s.mem[e].refs = 0
  <2>1. d.mem[e].st # "live"
    BY <1>1, <1>4 DEF Free
  <2> QED BY <1>1, <1>3, <2>1 DEF Kept, d
<1>5. CASE s.mem[e].refs # 0
  <2>1. /\ d.mem[e].st = s.mem[e].st /\ d.mem[e].file = s.mem[e].file
        /\ d.mem[e].ver = s.mem[e].ver
    BY <1>1, <1>2, <1>5 DEF EntryType
  <2>2. d.mem[e].dropped
    BY <1>1, <1>2, <1>5 DEF EntryType
  <2> QED BY <1>1, <1>3, <2>1, <2>2 DEF Kept, d
<1> QED BY <1>4, <1>5

\* A drop leaves a good cache: what a handler holds is not freed by it.
LEMMA DropIsGood ==
    ASSUME NEW q \in [Reqs -> ReqType], NEW s, Good(s, q), NEW e \in ToSet(s.table)
    PROVE  /\ Good(Drop(s, e), q)
           /\ Len(Drop(s, e).table) = Len(s.table) - 1
           /\ ToSet(Drop(s, e).table) \subseteq ToSet(s.table)
           /\ Drop(s, e).bytes <= s.bytes
           /\ \A x \in Entries : x \notin ToSet(s.table) => Drop(s, e).mem[x] = s.mem[x]
<1> DEFINE d == Drop(s, e)
           t == RecencyOut(s.table, e)
<1>0. s \in CacheType /\ IsInjective(s.table) /\ s.table \in Seq(Entries)
  BY DEF Good, Charged, CacheType
<1>1. /\ e \in Entries /\ d \in CacheType /\ d.table = t
      /\ d.bytes = s.bytes - BytesOf(s, e)
      /\ \A x \in Entries : x # e => d.mem[x] = s.mem[x]
      /\ s.mem[e].refs = 0 => d.mem[e] = Free
      /\ s.mem[e].refs # 0 => d.mem[e] = [s.mem[e] EXCEPT !.dropped = TRUE]
  BY <1>0, DropFields
<1>2. /\ t \in Seq(Entries) /\ IsInjective(t) /\ ToSet(t) = ToSet(s.table) \ {e}
      /\ Len(t) = Len(s.table) - 1
  BY <1>0, RecencyOutProps
<1>3. s.bytes \in Int /\ BytesOf(s, e) \in Nat
      /\ Weights(s) \in [Entries -> Int] /\ Weights(s)[e] = BytesOf(s, e)
  BY <1>0, <1>1, CacheFields
<1>4. Weights(d) \in [Entries -> Int]
  BY <1>1, CacheFields
<1> HIDE DEF d, t
<1>5. ToSet(t) \subseteq Entries
  BY <1>2, ElementOfSeq, LenProperties DEF ToSet
<1>6. Charged(d)
  <2>1. \A x \in ToSet(t) : d.mem[x] = s.mem[x] /\ x \in ToSet(s.table)
    BY <1>1, <1>2, <1>5
  <2>2. \A x \in ToSet(t) : Weights(d)[x] = Weights(s)[x]
    BY <1>5, <2>1 DEF Weights, BytesOf
  <2>3. Sum(Weights(d), t) = Sum(Weights(s), t)
    BY <1>2, <1>3, <1>4, <2>2, SumSame
  <2>4. Sum(Weights(s), t) = Sum(Weights(s), s.table) - BytesOf(s, e)
    BY <1>0, <1>3, SumOut DEF t
  <2>5. s.bytes = Sum(Weights(s), s.table)
    BY DEF Good, Charged
  <2>6. \A x \in ToSet(s.table) : s.mem[x].st = "live" /\ ~ s.mem[x].dropped
    BY DEF Good, Charged
  <2> QED BY <1>1, <1>2, <2>1, <2>3, <2>4, <2>5, <2>6 DEF Charged
<1>7. Held(d, q)
  <2>0. Held(s, q)
    BY DEF Good
  <2>1. \A x \in Entries : d.mem[x].refs = s.mem[x].refs
    <3>1. s.mem[e] \in EntryType
      BY <1>0, <1>1, CacheFields
    <3>2. d.mem[e].refs = s.mem[e].refs
      BY <1>1, <3>1 DEF Free, EntryType
    <3> QED BY <1>1, <3>2
  <2>2. ASSUME s.mem[e].refs = 0, NEW r \in Reqs PROVE q[r].e # e
    <3> SUFFICES ASSUME q[r].e = e PROVE FALSE
      OBVIOUS
    <3>1. Senders(q, e) = {}
      <4>1. IsFiniteSet(Senders(q, e))
        BY StaticAssumption, FS_Subset DEF Senders
      <4>2. Cardinality(Senders(q, e)) = 0
        BY <1>1, <2>0, <2>2 DEF Held
      <4> QED BY <4>1, <4>2, FS_EmptySet
    <3>2. q[r].pc # "send"
      BY <3>1 DEF Senders
    <3>3. q[r].pc \in {"idle", "plain", "twin", "loaded", "send"}
      BY DEF ReqType
    <3>4. e # None
      BY <1>1, StaticAssumption
    <3> QED BY <2>0, <3>2, <3>3, <3>4 DEF Held, Loading
  <2>3. \A r \in Reqs : q[r].e # None =>
          /\ d.mem[q[r].e].st = s.mem[q[r].e].st
          /\ d.mem[q[r].e].ver = s.mem[q[r].e].ver
          /\ d.mem[q[r].e].file = s.mem[q[r].e].file
    <3> SUFFICES ASSUME NEW r \in Reqs, q[r].e # None
                 PROVE  /\ d.mem[q[r].e].st = s.mem[q[r].e].st
                        /\ d.mem[q[r].e].ver = s.mem[q[r].e].ver
                        /\ d.mem[q[r].e].file = s.mem[q[r].e].file
      OBVIOUS
    <3>1. q[r].e \in Entries
      BY DEF ReqType
    <3>2. CASE q[r].e # e
      BY <1>1, <3>1, <3>2
    <3>3. CASE q[r].e = e
      <4>1. d.mem[e] = [s.mem[e] EXCEPT !.dropped = TRUE]
        BY <1>1, <2>2, <3>3
      <4>2. s.mem[e] \in EntryType
        BY <1>0, <1>1, CacheFields
      <4> QED BY <3>3, <4>1, <4>2 DEF EntryType
    <3> QED BY <3>2, <3>3
  <2>4. ASSUME NEW r \in Reqs, q[r].pc \in Loading
        PROVE  /\ q[r].e \notin ToSet(t)
               /\ d.mem[q[r].e] = s.mem[q[r].e]
    <3>1. q[r].e \notin ToSet(s.table) /\ q[r].e # None
      BY <2>0, <2>4 DEF Held, Loading
    <3>2. q[r].e \in Entries
      BY <3>1 DEF ReqType
    <3> QED BY <1>1, <1>2, <3>1, <3>2
  <2>5. \A r \in Reqs : q[r].e # None => d.mem[q[r].e].st = "live"
    BY <2>0, <2>3 DEF Held
  <2>6. \A r \in Reqs : q[r].pc \in Loading =>
          /\ q[r].e \notin ToSet(d.table)
          /\ d.mem[q[r].e].file \in Files
          /\ ~ d.mem[q[r].e].dropped
          /\ \A p \in Reqs : p # r => q[p].e # q[r].e
    BY <1>1, <2>0, <2>4 DEF Held
  <2>7. \A x \in Entries : d.mem[x].refs = Cardinality(Senders(q, x))
    BY <2>0, <2>1 DEF Held
  <2>8. \A r \in Reqs : q[r].e = None <=> q[r].pc = "idle"
    BY <2>0 DEF Held
  <2> QED BY <2>5, <2>6, <2>7, <2>8 DEF Held
<1>8. Good(d, q)
  BY <1>1, <1>6, <1>7 DEF Good
<1>9. d.bytes <= s.bytes
  BY <1>1, <1>3
<1> QED BY <1>1, <1>2, <1>8, <1>9 DEF d

\* The turns of make_room's loop are well defined, and it ends good: what
\* is needed fits, or the table is empty.
LEMMA MakeRoomIsGood ==
    ASSUME NEW q \in [Reqs -> ReqType], NEW s, Good(s, q), NEW need \in Nat
    PROVE  /\ Good(MakeRoom(s, need), q)
           /\ ToSet(MakeRoom(s, need).table) \subseteq ToSet(s.table)
           /\ \A x \in Entries : x \notin ToSet(s.table) => MakeRoom(s, need).mem[x] = s.mem[x]
           /\ \/ MakeRoom(s, need).bytes + need <= Budget
              \/ MakeRoom(s, need).table = <<>>
           /\ Kept(s, MakeRoom(s, need))
<1> DEFINE turns == Len(s.table)
           Turn(t) == IF t.bytes + need > Budget THEN Drop(t, Last(t.table)) ELSE t
           Fix(n, f) == f = [k \in 0..n |-> IF k = 0 THEN s ELSE Turn(f[k - 1])]
           room == CHOOSE f : Fix(turns, f)
<1>0. turns \in Nat
  BY LenProperties DEF Good, CacheType
<1>1. MakeRoom(s, need) = room[turns]
  BY DEF MakeRoom
<1> HIDE DEF Turn, turns
<1>2. \E f : Fix(turns, f)
  <2> DEFINE S == {n \in Nat : \E f : Fix(n, f)}
  <2>1. 0 \in S
    <3>1. Fix(0, [k \in 0..0 |-> s])
      OBVIOUS
    <3> QED BY <3>1
  <2>2. ASSUME NEW n \in Nat, n \in S PROVE n + 1 \in S
    <3>1. PICK f : Fix(n, f)
      BY <2>2
    <3> DEFINE g == [k \in 0..(n + 1) |-> IF k <= n THEN f[k] ELSE Turn(f[n])]
    <3>2. ASSUME NEW k \in 0..(n + 1) PROVE g[k] = IF k = 0 THEN s ELSE Turn(g[k - 1])
      <4>1. CASE k = 0
        BY <3>1, <4>1
      <4>2. CASE k # 0 /\ k <= n
        <5>1. k \in 0..n /\ k - 1 \in 0..(n + 1) /\ k - 1 <= n
          BY <4>2
        <5>2. f[k] = Turn(f[k - 1])
          BY <3>1, <4>2, <5>1
        <5> QED BY <4>2, <5>1, <5>2
      <4>3. CASE k = n + 1
        BY <4>3
      <4> QED BY <4>1, <4>2, <4>3
    <3>3. Fix(n + 1, g)
      <4>1. g = [k \in 0..(n + 1) |-> g[k]]
        OBVIOUS
      <4> HIDE DEF g
      <4> QED BY <3>2, <4>1
    <3>4. n + 1 \in Nat
      OBVIOUS
    <3> HIDE DEF Fix, g
    <3> QED BY <3>3, <3>4
  <2> HIDE DEF S
  <2>3. \A n \in Nat : n \in S
    BY <2>1, <2>2, NatSet
  <2> QED BY <1>0, <2>3 DEF S
<1>3. Fix(turns, room)
  <2> HIDE DEF Fix
  <2> QED BY <1>2
<1> HIDE DEF room
<1>4. \A k \in 0..turns : room[k] = IF k = 0 THEN s ELSE Turn(room[k - 1])
  BY <1>3
<1> HIDE DEF Fix
<1> DEFINE P(k, t) == /\ Good(t, q) /\ Kept(s, t)
                      /\ ToSet(t.table) \subseteq ToSet(s.table)
                      /\ \A x \in Entries : x \notin ToSet(s.table) => t.mem[x] = s.mem[x]
                      /\ Len(t.table) >= turns - k
                      /\ t.bytes + need <= Budget \/ Len(t.table) = turns - k
           S == {k \in Nat : k <= turns => P(k, room[k])}
<1>5. 0 \in S
  <2>1. room[0] = s
    BY <1>0, <1>4
  <2>2. P(0, s)
    <3>1. Kept(s, s)
      BY CacheFields DEF Kept, Good
    <3> QED BY <1>0, <3>1 DEF turns
  <2> QED BY <2>1, <2>2
<1>6. ASSUME NEW k \in Nat, k \in S PROVE k + 1 \in S
  <2> HIDE DEF P
  <2> SUFFICES ASSUME k + 1 <= turns PROVE P(k + 1, room[k + 1])
    OBVIOUS
  <2> USE DEF P
  <2> DEFINE t == room[k]
  <2>0. k + 1 \in 0..turns /\ k + 1 # 0 /\ (k + 1) - 1 = k /\ k <= turns
    BY <1>0
  <2>1. room[k + 1] = Turn(t)
    BY <1>4, <2>0
  <2>2. P(k, t)
    BY <1>6, <2>0
  <2> HIDE DEF t
  <2>3. t.table \in Seq(Entries) /\ Len(t.table) \in Nat /\ t.bytes \in Int
        /\ DOMAIN t.table = 1..Len(t.table)
    BY <2>2, LenProperties DEF Good, CacheType
  <2>4. Budget \in Nat
    BY StaticAssumption
  <2>5. CASE t.bytes + need <= Budget
    <3>1. Turn(t) = t
      BY <2>3, <2>4, <2>5 DEF Turn
    <3> QED BY <1>0, <2>1, <2>2, <2>3, <2>5, <3>1
  <2>6. CASE ~ (t.bytes + need <= Budget)
    <3> DEFINE e == Last(t.table)
               d == Drop(t, e)
    <3>1. Turn(t) = d
      BY <2>3, <2>4, <2>6 DEF Turn
    <3>2. Len(t.table) = turns - k
      BY <2>2, <2>6
    <3>3. Len(t.table) \in 1..Len(t.table)
      BY <1>0, <2>0, <2>3, <3>2
    <3>4. e \in ToSet(t.table)
      BY <2>3, <3>3 DEF Last, ToSet
    <3> HIDE DEF e
    <3>5. /\ Good(d, q)
          /\ Len(d.table) = Len(t.table) - 1
          /\ ToSet(d.table) \subseteq ToSet(t.table)
          /\ \A x \in Entries : x \notin ToSet(t.table) => d.mem[x] = t.mem[x]
      BY <2>2, <3>4, DropIsGood
    <3>10. Kept(t, d)
      BY <2>2, <3>4, DropKept DEF Good, Charged
    <3> HIDE DEF d
    <3>11. Kept(s, d)
      BY <2>2, <3>10 DEF Kept
    <3>6. Len(d.table) = turns - (k + 1)
      BY <1>0, <2>3, <3>2, <3>5
    <3>7. \A x \in Entries : x \notin ToSet(s.table) => d.mem[x] = s.mem[x]
      BY <2>2, <3>5
    <3>8. ToSet(d.table) \subseteq ToSet(s.table)
      BY <2>2, <3>5
    <3>9. Len(d.table) >= turns - (k + 1)
      BY <1>0, <3>6
    <3> QED BY <2>1, <3>1, <3>5, <3>6, <3>7, <3>8, <3>9, <3>11
  <2> QED BY <2>5, <2>6
<1> HIDE DEF S
<1>7. \A k \in Nat : k \in S
  BY <1>5, <1>6, NatSet
<1>8. P(turns, room[turns])
  <2> HIDE DEF P
  <2>1. turns <= turns
    BY <1>0
  <2> QED BY <1>0, <1>7, <2>1 DEF S
<1>9. Len(room[turns].table) = turns - turns => room[turns].table = <<>>
  <2>1. room[turns].table \in Seq(Entries)
    BY <1>8 DEF Good, CacheType
  <2> QED BY <1>0, <2>1, EmptySeq
<1> QED BY <1>1, <1>8, <1>9

-----------------------------------------------------------------------------
(* The handlers.                                                           *)

(* The handlers, r's back at the start.                                    *)
Retired(q, r) == [q EXCEPT ![r] = Idle]

\* The fields of a handler's state.
LEMMA ReqFields ==
    ASSUME NEW q \in [Reqs -> ReqType], NEW r \in Reqs
    PROVE  /\ q[r].pc \in {"idle", "plain", "twin", "loaded", "send"}
           /\ q[r].e \in Entries \cup {None} /\ q[r].came \in Nat
           /\ None \notin Entries
BY StaticAssumption DEF ReqType

\* A retired handler holds nothing, and the others what they did.
LEMMA RetiredFields ==
    ASSUME NEW q \in [Reqs -> ReqType], NEW r \in Reqs
    PROVE  /\ Retired(q, r) \in [Reqs -> ReqType]
           /\ Retired(q, r)[r] = Idle
           /\ Idle.pc = "idle" /\ Idle.e = None
           /\ \A p \in Reqs : p # r => Retired(q, r)[p] = q[p]
<1>1. Idle \in ReqType
  BY DEF Idle, ReqType
<1> QED BY <1>1 DEF Retired, Idle

\* Who sends from an entry is a finite set.
LEMMA SendersFinite ==
    ASSUME NEW q, NEW e
    PROVE  IsFiniteSet(Senders(q, e)) /\ Cardinality(Senders(q, e)) \in Nat
           /\ (Cardinality(Senders(q, e)) = 0 <=> Senders(q, e) = {})
<1>1. IsFiniteSet(Senders(q, e))
  BY StaticAssumption, FS_Subset DEF Senders
<1> QED BY <1>1, FS_EmptySet, FS_CardinalityType

\* A handler that is not sending may go: its entry is left to itself.
LEMMA RetireIsGood ==
    ASSUME NEW q \in [Reqs -> ReqType], NEW s, Good(s, q), NEW r \in Reqs, q[r].pc # "send"
    PROVE  Good(s, Retired(q, r))
<1> DEFINE q0 == Retired(q, r)
<1>1. /\ q0 \in [Reqs -> ReqType] /\ q0[r] = Idle
      /\ Idle.pc = "idle" /\ Idle.e = None
      /\ \A p \in Reqs : p # r => q0[p] = q[p]
  BY RetiredFields
<1> HIDE DEF q0
<1>2. \A x : Senders(q0, x) = Senders(q, x)
  BY <1>1 DEF Senders
<1>3. Held(s, q)
  BY DEF Good
<1>4. \A x \in Entries : s.mem[x].refs = Cardinality(Senders(q0, x))
  BY <1>2, <1>3 DEF Held
<1>5. \A p \in Reqs : q0[p].e = None <=> q0[p].pc = "idle"
  BY <1>1, <1>3 DEF Held
<1>6. \A p \in Reqs : q0[p].e # None  => s.mem[q0[p].e].st = "live"
  BY <1>1, <1>3 DEF Held
<1>7. ASSUME NEW p \in Reqs, q0[p].pc \in Loading
      PROVE  /\ q0[p].e \notin ToSet(s.table)
             /\ s.mem[q0[p].e].file \in Files
             /\ ~ s.mem[q0[p].e].dropped
             /\ \A o \in Reqs : o # p => q0[o].e # q0[p].e
  <2>1. p # r /\ q0[p] = q[p]
    BY <1>1, <1>7 DEF Loading
  <2>2. q[p].e # None
    BY <1>3, <1>7, <2>1 DEF Held, Loading
  <2> QED BY <1>1, <1>3, <1>7, <2>1, <2>2 DEF Held
<1>8. Held(s, q0)
  BY <1>4, <1>5, <1>6, <1>7 DEF Held
<1> QED BY <1>8 DEF Good, q0

\* What SetCache leaves.
LEMMA SetCacheGood ==
    ASSUME NEW s \in CacheType, SetCache(s)
    PROVE  Cache' = s /\ bytes' = s.bytes
<1>1. s = [mem |-> s.mem, table |-> s.table, bytes |-> s.bytes]
  BY DEF CacheType
<1> QED BY <1>1 DEF SetCache, Cache

\* A reply from an entry that is live, fresh and nobody's own.
LEMMA ReplyIsGood ==
    ASSUME NEW r \in Reqs, NEW s, NEW e \in Entries, NEW came \in Nat,
           req \in [Reqs -> ReqType],
           Good(s, Retired(req, r)), s.mem[e].st = "live",
           \A p \in Reqs \ {r} : req[p].pc \in Loading => req[p].e # e,
           Reply(r, s, e, came)
    PROVE  /\ Good(Cache, req)' /\ bytes' = s.bytes
           /\ req' \in [Reqs -> ReqType]
<1> DEFINE q0 == Retired(req, r)
<1>0. /\ q0 \in [Reqs -> ReqType] /\ q0[r] = Idle
      /\ Idle.pc = "idle" /\ Idle.e = None
      /\ \A p \in Reqs : p # r => q0[p] = req[p]
  BY RetiredFields
<1>1. s \in CacheType /\ Charged(s) /\ Held(s, q0)
  BY DEF Good
<1>2. CASE SetCache(s) /\ req' = [req EXCEPT ![r] = Idle]
  <2>1. Cache' = s /\ bytes' = s.bytes /\ req' = q0
    BY <1>1, <1>2, SetCacheGood DEF Retired
  <2> QED BY <1>0, <2>1 DEF Good
<1>3. ASSUME NEW v \in {"plain", "twin"},
             SetCache([s EXCEPT !.mem[e].refs = @ + 1]),
             req' = [req EXCEPT ![r] = [pc |-> "send", e |-> e, variant |-> v, came |-> came]]
      PROVE  /\ Good(Cache', req') /\ bytes' = s.bytes
             /\ req' \in [Reqs -> ReqType]
  <2> DEFINE n == s.mem[e].refs + 1
             u == [s EXCEPT !.mem[e].refs = n]
             a == [pc |-> "send", e |-> e, variant |-> v, came |-> came]
             q1 == req'
  <2>1. n \in Nat /\ s.mem[e].refs \in Nat /\ s.mem[e] \in EntryType
    BY <1>1, CacheFields
  <2>2. /\ u \in CacheType /\ u.table = s.table /\ u.bytes = s.bytes
        /\ u.mem[e] = [s.mem[e] EXCEPT !.refs = n]
        /\ \A x \in Entries : x # e => u.mem[x] = s.mem[x]
    <3> HIDE DEF n
    <3> QED BY <1>1, <2>1, SetRefs, Zenon
  <2>3. Cache' = u /\ bytes' = s.bytes
    BY <1>3, <2>2, SetCacheGood
  <2>4. a \in ReqType
    BY DEF ReqType
  <2>5. /\ q1 \in [Reqs -> ReqType] /\ q1[r] = a
        /\ \A p \in Reqs : p # r => q1[p] = q0[p]
    BY <1>0, <1>3, <2>4
  <2>6. a.pc = "send" /\ a.e = e /\ e # None
    BY StaticAssumption
  <2> HIDE DEF a, u, n, q1, q0
  <2>7. /\ u.mem[e].refs = n /\ u.mem[e].st = s.mem[e].st /\ u.mem[e].ver = s.mem[e].ver
        /\ u.mem[e].file = s.mem[e].file /\ u.mem[e].dropped = s.mem[e].dropped
        /\ u.mem[e].size = s.mem[e].size /\ u.mem[e].twin = s.mem[e].twin
    BY <2>1, <2>2 DEF EntryType
  <2>8. \A x \in Entries :
          /\ u.mem[x].st = s.mem[x].st /\ u.mem[x].ver = s.mem[x].ver
          /\ u.mem[x].file = s.mem[x].file /\ u.mem[x].dropped = s.mem[x].dropped
          /\ u.mem[x].size = s.mem[x].size /\ u.mem[x].twin = s.mem[x].twin
    BY <2>2, <2>7
  <2>9. ToSet(s.table) \subseteq Entries
    BY <1>1, ElementOfSeq, LenProperties DEF ToSet, CacheType
  <2>10. Charged(u)
    <3>1. Weights(u) = Weights(s)
      BY <2>8 DEF Weights, BytesOf
    <3> QED BY <1>1, <2>2, <2>8, <2>9, <3>1 DEF Charged
  <2>11. ASSUME NEW x \in Entries PROVE u.mem[x].refs = Cardinality(Senders(q1, x))
    <3>1. CASE x = e
      <4>1. Senders(q1, e) = Senders(q0, e) \cup {r} /\ r \notin Senders(q0, e)
        BY <1>0, <2>5, <2>6 DEF Senders
      <4>2. Cardinality(Senders(q1, e)) = Cardinality(Senders(q0, e)) + 1
        BY <4>1, SendersFinite, FS_AddElement
      <4>3. s.mem[e].refs = Cardinality(Senders(q0, e))
        BY <1>1 DEF Held
      <4> QED BY <2>7, <3>1, <4>2, <4>3 DEF n
    <3>2. CASE x # e
      <4>1. Senders(q1, x) = Senders(q0, x)
        BY <1>0, <2>5, <2>6, <3>2 DEF Senders
      <4> QED BY <1>1, <2>2, <3>2, <4>1 DEF Held
    <3> QED BY <3>1, <3>2
  <2>12. \A p \in Reqs : q1[p].e = None <=> q1[p].pc = "idle"
    BY <1>1, <2>5, <2>6 DEF Held
  <2>13. ASSUME NEW p \in Reqs, q1[p].e # None
         PROVE  u.mem[q1[p].e].st = "live"
    <3>1. CASE p = r
      BY <2>5, <2>6, <2>7, <3>1
    <3>2. CASE p # r
      <4>1. q1[p] = q0[p] /\ q0[p].e \in Entries
        BY <1>0, <2>5, <2>13, <3>2, ReqFields
      <4> QED BY <1>1, <2>8, <2>13, <4>1 DEF Held
    <3> QED BY <3>1, <3>2
  <2>14. ASSUME NEW p \in Reqs, q1[p].pc \in Loading
         PROVE  /\ q1[p].e \notin ToSet(u.table)
                /\ u.mem[q1[p].e].file \in Files
                /\ ~ u.mem[q1[p].e].dropped
                /\ \A o \in Reqs : o # p => q1[o].e # q1[p].e
    <3>1. p # r /\ q1[p] = q0[p] /\ q0[p] = req[p]
      BY <1>0, <2>5, <2>6, <2>14 DEF Loading
    <3>2. q0[p].e \in Entries /\ q0[p].e # e
      <4>1. q0[p].e # None
        BY <1>1, <2>14, <3>1 DEF Held, Loading
      <4> QED BY <1>0, <2>14, <3>1, <4>1, ReqFields
    <3>3. /\ q0[p].e \notin ToSet(s.table) /\ s.mem[q0[p].e].file \in Files
          /\ ~ s.mem[q0[p].e].dropped
          /\ \A o \in Reqs : o # p => q0[o].e # q0[p].e
      BY <1>1, <2>14, <3>1 DEF Held
    <3>4. ASSUME NEW o \in Reqs, o # p PROVE q1[o].e # q1[p].e
      <4>1. CASE o = r
        BY <2>5, <2>6, <3>1, <3>2, <4>1
      <4>2. CASE o # r
        BY <2>5, <3>1, <3>3, <3>4, <4>2
      <4> QED BY <4>1, <4>2
    <3> QED BY <2>2, <2>8, <3>1, <3>2, <3>3, <3>4
  <2>15. Held(u, q1)
    BY <2>11, <2>12, <2>13, <2>14 DEF Held
  <2>16. Good(u, q1)
    BY <2>2, <2>10, <2>15 DEF Good
  <2> QED BY <2>3, <2>5, <2>16 DEF q1
<1> QED
  BY <1>2, <1>3 DEF Reply

\* What the handlers hold is held in another cache that has the same of it.
LEMMA HeldToo ==
    ASSUME NEW q \in [Reqs -> ReqType], NEW s, NEW u, Held(s, q),
           \A x \in Entries : u.mem[x].refs = s.mem[x].refs,
           \A r \in Reqs : q[r].e # None =>
             /\ u.mem[q[r].e].st = s.mem[q[r].e].st
             /\ u.mem[q[r].e].ver = s.mem[q[r].e].ver
             /\ u.mem[q[r].e].file = s.mem[q[r].e].file,
           \A r \in Reqs : q[r].pc \in Loading =>
             /\ q[r].e \notin ToSet(u.table)
             /\ u.mem[q[r].e].dropped = s.mem[q[r].e].dropped
    PROVE  Held(u, q)
<1>1. \A r \in Reqs : q[r].pc \in Loading => q[r].e # None
  BY DEF Held, Loading
<1> QED BY <1>1 DEF Held

\* touch moves an entry and no more.
LEMMA TouchIsGood ==
    ASSUME NEW q \in [Reqs -> ReqType], NEW s, Good(s, q), NEW e \in ToSet(s.table)
    PROVE  /\ Good(Touch(s, e), q)
           /\ Touch(s, e).mem = s.mem /\ Touch(s, e).bytes = s.bytes
<1> DEFINE t == RecencyOut(s.table, e)
           u == Touch(s, e)
<1>0. s \in CacheType /\ IsInjective(s.table) /\ s.table \in Seq(Entries) /\ Held(s, q)
  BY DEF Good, Charged, CacheType
<1>1. e \in Entries /\ ToSet(s.table) \subseteq Entries
  BY <1>0, ElementOfSeq, LenProperties DEF ToSet
<1>2. /\ t \in Seq(Entries) /\ IsInjective(t) /\ ToSet(t) = ToSet(s.table) \ {e}
  BY <1>0, RecencyOutProps
<1>3. /\ <<e>> \o t \in Seq(Entries) /\ IsInjective(<<e>> \o t)
      /\ ToSet(<<e>> \o t) = ToSet(s.table)
  <2>1. ToSet(<<e>> \o t) = ToSet(t) \cup {e}
    BY <1>1, <1>2, ConsProps
  <2> QED BY <1>1, <1>2, <2>1, ConsProps, ZenonT(40)
<1>4. u \in CacheType /\ u.mem = s.mem /\ u.bytes = s.bytes /\ u.table = <<e>> \o t
  BY <1>0, <1>3 DEF Touch, CacheType
<1>5. Weights(s) \in [Entries -> Int] /\ Weights(u) = Weights(s) /\ s.bytes \in Int
      /\ Weights(s)[e] \in Int
  BY <1>0, <1>1, <1>4, CacheFields DEF Weights, BytesOf
<1>6. Sum(Weights(s), <<e>> \o t) = Sum(Weights(s), s.table)
  <2>1. Sum(Weights(s), t) = Sum(Weights(s), s.table) - Weights(s)[e]
    BY <1>0, <1>5, SumOut
  <2>2. Sum(Weights(s), <<e>> \o t) = Sum(Weights(s), t) + Weights(s)[e]
    BY <1>1, <1>2, <1>5, SumCons
  <2>3. Sum(Weights(s), s.table) = s.bytes
    BY DEF Good, Charged
  <2> QED BY <1>5, <2>1, <2>2, <2>3
<1> HIDE DEF u, t
<1>7. Charged(u)
  BY <1>3, <1>4, <1>5, <1>6 DEF Good, Charged
<1>8. Held(u, q)
  BY <1>0, <1>3, <1>4 DEF Held
<1> QED BY <1>4, <1>7, <1>8 DEF Good, u

\* insert: an entry that is live and that no handler is loading.
LEMMA InsertIsGood ==
    ASSUME NEW q \in [Reqs -> ReqType], NEW s, Good(s, q),
           NEW e \in Entries, e \notin ToSet(s.table),
           s.mem[e].st = "live", ~ s.mem[e].dropped,
           \A r \in Reqs : q[r].pc \in Loading => q[r].e # e
    PROVE  /\ Good(Insert(s, e), q)
           /\ Insert(s, e).mem = s.mem /\ Insert(s, e).bytes = s.bytes + BytesOf(s, e)
<1> DEFINE u == Insert(s, e)
           t == <<e>> \o s.table
<1>0. s \in CacheType /\ IsInjective(s.table) /\ s.table \in Seq(Entries) /\ Held(s, q)
  BY DEF Good, Charged, CacheType
<1>1. t \in Seq(Entries) /\ IsInjective(t) /\ ToSet(t) = ToSet(s.table) \cup {e}
  BY <1>0, ConsProps
<1>2. /\ Weights(s) \in [Entries -> Int] /\ Weights(s)[e] = BytesOf(s, e)
      /\ s.bytes \in Int /\ BytesOf(s, e) \in Nat
  BY <1>0, CacheFields
<1>3. u \in CacheType /\ u.mem = s.mem /\ u.bytes = s.bytes + BytesOf(s, e) /\ u.table = t
  <2> DEFINE n == s.bytes + BytesOf(s, e)
  <2>1. u = [s EXCEPT !.table = t, !.bytes = n]
    BY DEF Insert
  <2>2. n \in Int
    BY <1>2
  <2> HIDE DEF u, t, n
  <2>3. u \in CacheType /\ u.mem = s.mem /\ u.bytes = n /\ u.table = t
    BY <1>0, <1>1, <2>1, <2>2 DEF CacheType
  <2> QED BY <2>3 DEF n
<1>4. Sum(Weights(s), t) = Sum(Weights(s), s.table) + BytesOf(s, e)
  BY <1>0, <1>2, SumCons
<1>5. Weights(u) = Weights(s)
  BY <1>3 DEF Weights, BytesOf
<1> HIDE DEF u, t
<1>6. Charged(u)
  BY <1>1, <1>3, <1>4, <1>5 DEF Good, Charged
<1>7. Held(u, q)
  BY <1>0, <1>1, <1>3 DEF Held
<1> QED BY <1>3, <1>6, <1>7 DEF Good, u

\* An entry that is not in the table and that no handler has may be
\* anything that is not held.
LEMMA UnheldIsGood ==
    ASSUME NEW q \in [Reqs -> ReqType], NEW s, Good(s, q),
           NEW e \in Entries, e \notin ToSet(s.table),
           \A r \in Reqs : q[r].e # e,
           NEW m \in EntryType, m.refs = 0
    PROVE  LET u == [s EXCEPT !.mem[e] = m] IN
           /\ Good(u, q) /\ u.table = s.table /\ u.bytes = s.bytes
           /\ u.mem[e] = m /\ \A x \in Entries : x # e => u.mem[x] = s.mem[x]
<1> DEFINE u == [s EXCEPT !.mem[e] = m]
<1>0. s \in CacheType /\ s.table \in Seq(Entries) /\ Held(s, q)
  BY DEF Good, CacheType
<1>1. ToSet(s.table) \subseteq Entries
  BY <1>0, ElementOfSeq, LenProperties DEF ToSet
<1>2. /\ u \in CacheType /\ u.table = s.table /\ u.bytes = s.bytes
      /\ u.mem[e] = m /\ \A x \in Entries : x # e => u.mem[x] = s.mem[x]
  BY <1>0, SetEntry
<1>3. Weights(s) \in [Entries -> Int] /\ Weights(u) \in [Entries -> Int]
  BY <1>0, <1>2, CacheFields
<1> HIDE DEF u
<1>4. \A x \in ToSet(s.table) : u.mem[x] = s.mem[x]
  BY <1>1, <1>2
<1>5. \A x \in ToSet(s.table) : Weights(u)[x] = Weights(s)[x]
  BY <1>1, <1>4 DEF Weights, BytesOf
<1>6. Sum(Weights(u), s.table) = Sum(Weights(s), s.table)
  BY <1>0, <1>3, <1>5, SumSame
<1>7. Charged(u)
  BY <1>2, <1>4, <1>6 DEF Good, Charged
<1>8. s.mem[e].refs = 0
  <2>1. Senders(q, e) = {}
    BY DEF Senders
  <2>2. s.mem[e].refs = Cardinality(Senders(q, e))
    BY <1>0 DEF Held
  <2> QED BY <2>1, <2>2, SendersFinite
<1>9. \A x \in Entries : u.mem[x].refs = s.mem[x].refs
  BY <1>2, <1>8
<1>10. \A r \in Reqs : q[r].e # None => q[r].e \in Entries /\ u.mem[q[r].e] = s.mem[q[r].e]
  BY <1>2, ReqFields
<1>11. \A r \in Reqs : q[r].pc \in Loading => q[r].e # None /\ q[r].e \notin ToSet(s.table)
  BY <1>0 DEF Held, Loading
<1>12. Held(u, q)
  BY <1>0, <1>2, <1>9, <1>10, <1>11, HeldToo
<1>13. Good(u, q)
  BY <1>2, <1>7, <1>12 DEF Good
<1> QED BY <1>2, <1>13 DEF u

\* An entry that is not in the table and that no handler is loading may be
\* marked as dropped.
LEMMA DroppedIsGood ==
    ASSUME NEW q \in [Reqs -> ReqType], NEW s, Good(s, q),
           NEW e \in Entries, e \notin ToSet(s.table),
           \A r \in Reqs : q[r].pc \in Loading => q[r].e # e
    PROVE  LET u == [s EXCEPT !.mem[e].dropped = TRUE] IN
           /\ Good(u, q) /\ u.bytes = s.bytes
           /\ u.mem[e].st = s.mem[e].st /\ u.mem[e].ver = s.mem[e].ver
<1> DEFINE u == [s EXCEPT !.mem[e].dropped = TRUE]
<1>0. s \in CacheType /\ s.table \in Seq(Entries) /\ Held(s, q)
  BY DEF Good, CacheType
<1>1. ToSet(s.table) \subseteq Entries
  BY <1>0, ElementOfSeq, LenProperties DEF ToSet
<1>2. /\ u \in CacheType /\ u.table = s.table /\ u.bytes = s.bytes
      /\ u.mem[e] = [s.mem[e] EXCEPT !.dropped = TRUE]
      /\ \A x \in Entries : x # e => u.mem[x] = s.mem[x]
  BY <1>0, SetDropped, Zenon
<1>3. Weights(s) \in [Entries -> Int] /\ Weights(u) \in [Entries -> Int]
      /\ s.mem[e] \in EntryType
  BY <1>0, <1>2, CacheFields
<1> HIDE DEF u
<1>4. \A x \in ToSet(s.table) : u.mem[x] = s.mem[x]
  BY <1>1, <1>2
<1>5. \A x \in ToSet(s.table) : Weights(u)[x] = Weights(s)[x]
  BY <1>1, <1>4 DEF Weights, BytesOf
<1>6. Sum(Weights(u), s.table) = Sum(Weights(s), s.table)
  BY <1>0, <1>3, <1>5, SumSame
<1>7. Charged(u)
  BY <1>2, <1>4, <1>6 DEF Good, Charged
<1>8. /\ u.mem[e].refs = s.mem[e].refs /\ u.mem[e].st = s.mem[e].st
      /\ u.mem[e].ver = s.mem[e].ver /\ u.mem[e].file = s.mem[e].file
  BY <1>2, <1>3 DEF EntryType
<1>9. \A x \in Entries :
        /\ u.mem[x].refs = s.mem[x].refs /\ u.mem[x].st = s.mem[x].st
        /\ u.mem[x].ver = s.mem[x].ver /\ u.mem[x].file = s.mem[x].file
  BY <1>2, <1>8
<1>10. \A r \in Reqs : q[r].e # None => q[r].e \in Entries
  BY ReqFields
<1>11. \A r \in Reqs : q[r].pc \in Loading => q[r].e # None /\ q[r].e \notin ToSet(s.table)
  BY <1>0 DEF Held, Loading
<1>12. Held(u, q)
  BY <1>0, <1>2, <1>9, <1>10, <1>11, HeldToo
<1>13. Good(u, q)
  BY <1>2, <1>7, <1>12 DEF Good
<1> QED BY <1>2, <1>8, <1>13 DEF u

\* A release after a send: the last one frees what was dropped.
LEMMA ReleaseIsGood ==
    ASSUME NEW q \in [Reqs -> ReqType], NEW s, Good(s, q),
           NEW r \in Reqs, q[r].pc = "send"
    PROVE  /\ Good(Release(s, q[r].e), Retired(q, r))
           /\ Release(s, q[r].e).bytes = s.bytes
<1> DEFINE q0 == Retired(q, r)
           e == q[r].e
           u == Release(s, e)
<1>0. /\ q0 \in [Reqs -> ReqType] /\ q0[r] = Idle
      /\ Idle.pc = "idle" /\ Idle.e = None
      /\ \A p \in Reqs : p # r => q0[p] = q[p]
  BY RetiredFields
<1>1. s \in CacheType /\ s.table \in Seq(Entries) /\ Held(s, q) /\ Charged(s)
  BY DEF Good, CacheType
<1>2. e # None /\ e \in Entries
  BY <1>1, ReqFields DEF Held
<1>3. ToSet(s.table) \subseteq Entries
  BY <1>1, ElementOfSeq, LenProperties DEF ToSet
<1> HIDE DEF e, q0
<1>4. /\ Cardinality(Senders(q0, e)) = s.mem[e].refs - 1
      /\ s.mem[e].refs \in Nat /\ s.mem[e].refs # 0 /\ s.mem[e] \in EntryType
  <2>1. Senders(q, e) = Senders(q0, e) \cup {r} /\ r \notin Senders(q0, e)
    BY <1>0 DEF Senders, e
  <2>2. Cardinality(Senders(q, e)) = Cardinality(Senders(q0, e)) + 1
    BY <2>1, SendersFinite, FS_AddElement
  <2>3. s.mem[e].refs = Cardinality(Senders(q, e)) /\ Cardinality(Senders(q0, e)) \in Nat
    BY <1>1, <1>2, SendersFinite DEF Held
  <2>4. s.mem[e] \in EntryType
    BY <1>1, <1>2, CacheFields
  <2> QED BY <2>2, <2>3, <2>4
<1>5. \A x \in Entries : x # e => Senders(q0, x) = Senders(q, x)
  BY <1>0 DEF Senders, e
<1>6. \A p \in Reqs : q0[p].e = None <=> q0[p].pc = "idle"
  BY <1>0, <1>1 DEF Held
<1>7. \A p \in Reqs : q0[p].e # None =>
        /\ p # r /\ q0[p] = q[p] /\ q0[p].e \in Entries
        /\ s.mem[q0[p].e].st = "live"
  BY <1>0, <1>1, ReqFields DEF Held
<1>8. ASSUME NEW p \in Reqs, q0[p].pc \in Loading
      PROVE  /\ q0[p].e \notin ToSet(s.table) /\ q0[p].e # e /\ q0[p].e \in Entries
             /\ s.mem[q0[p].e].file \in Files
             /\ ~ s.mem[q0[p].e].dropped
             /\ \A o \in Reqs : o # p => q0[o].e # q0[p].e
  <2>1. p # r /\ q0[p] = q[p] /\ q0[p].e # None
    BY <1>0, <1>6, <1>8 DEF Loading
  <2>2. /\ q[p].e \notin ToSet(s.table)
        /\ s.mem[q[p].e].file \in Files
        /\ ~ s.mem[q[p].e].dropped
        /\ \A o \in Reqs : o # p => q[o].e # q[p].e
    BY <1>1, <1>8, <2>1 DEF Held
  <2>3. \A o \in Reqs : o # p => q0[o].e # q0[p].e
    BY <1>0, <2>1, <2>2
  <2> QED BY <1>7, <2>1, <2>2, <2>3 DEF e
<1>9. CASE s.mem[e].refs = 1 /\ s.mem[e].dropped
  <2>1. u = [s EXCEPT !.mem[e] = Free]
    BY <1>9 DEF Release, EntryFree
  <2>2. Free \in EntryType /\ Free.refs = 0
    BY DEF EntryType, Free
  <2>3. /\ u \in CacheType /\ u.table = s.table /\ u.bytes = s.bytes
        /\ u.mem[e] = Free /\ \A x \in Entries : x # e => u.mem[x] = s.mem[x]
    BY <1>1, <1>2, <2>1, <2>2, SetEntry
  <2>4. Weights(s) \in [Entries -> Int] /\ Weights(u) \in [Entries -> Int]
    BY <1>1, <1>2, <2>3, CacheFields
  <2> HIDE DEF u
  <2>5. e \notin ToSet(s.table)
    BY <1>1, <1>9 DEF Charged
  <2>6. \A x \in ToSet(s.table) : u.mem[x] = s.mem[x]
    BY <1>3, <2>3, <2>5
  <2>7. \A x \in ToSet(s.table) : Weights(u)[x] = Weights(s)[x]
    BY <1>3, <2>6 DEF Weights, BytesOf
  <2>8. Sum(Weights(u), s.table) = Sum(Weights(s), s.table)
    BY <1>1, <2>4, <2>7, SumSame
  <2>9. Charged(u)
    BY <1>1, <2>3, <2>6, <2>8 DEF Charged
  <2>10. \A p \in Reqs : q0[p].e # e
    <3>1. Senders(q0, e) = {}
      BY <1>4, <1>9, SendersFinite
    <3> SUFFICES ASSUME NEW p \in Reqs, q0[p].e = e PROVE FALSE
      OBVIOUS
    <3>2. q0[p].pc # "send"
      BY <3>1 DEF Senders
    <3>3. q0[p].pc # "idle"
      BY <1>2, <1>6
    <3>4. q0[p].pc \in Loading
      BY <1>0, <3>2, <3>3, ReqFields DEF Loading
    <3> QED BY <1>8, <3>4
  <2>11. ASSUME NEW x \in Entries PROVE u.mem[x].refs = Cardinality(Senders(q0, x))
    <3>1. CASE x = e
      BY <1>4, <1>9, <2>2, <2>3, <3>1
    <3>2. CASE x # e
      BY <1>1, <1>5, <2>3, <3>2 DEF Held
    <3> QED BY <3>1, <3>2
  <2>12. \A p \in Reqs : q0[p].e # None => u.mem[q0[p].e].st = "live"
    BY <1>7, <2>3, <2>10
  <2>13. \A p \in Reqs : q0[p].pc \in Loading =>
             /\ q0[p].e \notin ToSet(u.table)
             /\ u.mem[q0[p].e].file \in Files
             /\ ~ u.mem[q0[p].e].dropped
             /\ \A o \in Reqs : o # p => q0[o].e # q0[p].e
    BY <1>8, <2>3
  <2>14. Held(u, q0)
    BY <1>6, <2>11, <2>12, <2>13 DEF Held
  <2> QED BY <2>3, <2>9, <2>14 DEF Good, u, e, q0
<1>10. CASE ~ (s.mem[e].refs = 1 /\ s.mem[e].dropped)
  <2> DEFINE n == s.mem[e].refs - 1
             w == [s EXCEPT !.mem[e].refs = n]
  <2>1. u = w
    BY <1>10 DEF Release
  <2>2. n \in Nat
    BY <1>4
  <2> HIDE DEF n, u
  <2>3. /\ u \in CacheType /\ u.table = s.table /\ u.bytes = s.bytes
        /\ u.mem[e] = [s.mem[e] EXCEPT !.refs = n]
        /\ \A x \in Entries : x # e => u.mem[x] = s.mem[x]
    <3>1. /\ w \in CacheType /\ w.table = s.table /\ w.bytes = s.bytes
          /\ w.mem[e] = [s.mem[e] EXCEPT !.refs = n]
          /\ \A x \in Entries : x # e => w.mem[x] = s.mem[x]
      BY <1>1, <1>2, <2>2, SetRefs, Zenon
    <3> HIDE DEF w
    <3> QED BY <2>1, <3>1
  <2>4. /\ u.mem[e].refs = n /\ u.mem[e].st = s.mem[e].st /\ u.mem[e].ver = s.mem[e].ver
        /\ u.mem[e].file = s.mem[e].file /\ u.mem[e].dropped = s.mem[e].dropped
        /\ u.mem[e].size = s.mem[e].size /\ u.mem[e].twin = s.mem[e].twin
    BY <1>4, <2>3 DEF EntryType
  <2>5. \A x \in Entries :
          /\ u.mem[x].st = s.mem[x].st /\ u.mem[x].ver = s.mem[x].ver
          /\ u.mem[x].file = s.mem[x].file /\ u.mem[x].dropped = s.mem[x].dropped
          /\ u.mem[x].size = s.mem[x].size /\ u.mem[x].twin = s.mem[x].twin
    BY <2>3, <2>4
  <2>6. Charged(u)
    <3>1. Weights(u) = Weights(s)
      BY <2>5 DEF Weights, BytesOf
    <3> QED BY <1>1, <1>3, <2>3, <2>5, <3>1 DEF Charged
  <2>7. ASSUME NEW x \in Entries PROVE u.mem[x].refs = Cardinality(Senders(q0, x))
    <3>1. CASE x = e
      BY <1>4, <2>4, <3>1 DEF n
    <3>2. CASE x # e
      BY <1>1, <1>5, <2>3, <3>2 DEF Held
    <3> QED BY <3>1, <3>2
  <2>8. \A p \in Reqs : q0[p].e # None => u.mem[q0[p].e].st = "live"
    BY <1>7, <2>5
  <2>9. \A p \in Reqs : q0[p].pc \in Loading =>
             /\ q0[p].e \notin ToSet(u.table)
             /\ u.mem[q0[p].e].file \in Files
             /\ ~ u.mem[q0[p].e].dropped
             /\ \A o \in Reqs : o # p => q0[o].e # q0[p].e
    BY <1>8, <2>3, <2>5
  <2>10. Held(u, q0)
    BY <1>6, <2>7, <2>8, <2>9 DEF Held
  <2> QED BY <2>3, <2>6, <2>10 DEF Good, u, e, q0
<1> QED BY <1>9, <1>10

-----------------------------------------------------------------------------
(* The steps.                                                              *)

\* The empty table is good, and nobody holds anything.
LEMMA InitInv == Init => Inv
<1> SUFFICES ASSUME Init PROVE Inv
  OBVIOUS
<1>0. Free \in EntryType /\ Free.refs = 0
  BY DEF EntryType, Free
<1>1. Idle \in ReqType /\ Idle.pc = "idle" /\ Idle.e = None
  BY DEF ReqType, Idle
<1>2. disk \in [Files -> FileType]
  <2>1. [here |-> TRUE, ver |-> 1, size |-> 1, twin |-> 0] \in FileType
    BY DEF FileType
  <2> QED BY <2>1 DEF Init
<1>3. req \in [Reqs -> ReqType] /\ \A r \in Reqs : req[r].pc = "idle" /\ req[r].e = None
  BY <1>1 DEF Init
<1>4. mem \in [Entries -> EntryType] /\ \A e \in Entries : mem[e].refs = 0
  BY <1>0 DEF Init
<1>5. Cache.mem = mem /\ Cache.table = <<>> /\ Cache.bytes = 0
  BY DEF Init, Cache
<1>6. Cache \in CacheType
  BY <1>4 DEF Cache, CacheType, Init
<1>7. Charged(Cache)
  <2>1. IsInjective(<<>>) /\ ToSet(<<>>) = {}
    BY DEF IsInjective, ToSet
  <2> QED BY <1>5, <2>1, SumEmpty DEF Charged
<1>8. Held(Cache, req)
  <2>1. \A e \in Entries : Cardinality(Senders(req, e)) = 0
    <3>1. \A e \in Entries : Senders(req, e) = {}
      BY <1>3 DEF Senders
    <3> QED BY <3>1, SendersFinite
  <2> QED BY <1>3, <1>4, <1>5, <2>1 DEF Held, Loading
<1>9. bytes <= Budget /\ now \in Nat
  BY StaticAssumption DEF Init
<1> QED BY <1>2, <1>3, <1>6, <1>7, <1>8, <1>9 DEF Inv, Good

\* The handler goes, with a cache that is good without it.
LEMMA EndsInv ==
    ASSUME Inv, NEW r \in Reqs, NEW s, Good(s, Retired(req, r)), s.bytes <= Budget,
           Ends(r, s), UNCHANGED outside
    PROVE  Inv'
<1>1. Cache' = s /\ bytes' = s.bytes
  BY SetCacheGood DEF Ends, Good
<1>2. req' = Retired(req, r) /\ req' \in [Reqs -> ReqType]
  BY RetiredFields DEF Ends, Retired, Inv
<1>3. disk' \in [Files -> FileType] /\ now' \in Nat
  BY DEF Inv, outside
<1> QED BY <1>1, <1>2, <1>3 DEF Inv

\* A load begins: the entry was free, so nobody had it.
LEMMA LoadBeginInv ==
    ASSUME Inv, NEW r \in Reqs, NEW f \in Files, NEW s, Good(s, req), s.bytes <= Budget,
           req[r].pc = "idle", LoadBegin(r, s, f), UNCHANGED outside
    PROVE  Inv'
<1>0. /\ req \in [Reqs -> ReqType] /\ disk[f] \in FileType
      /\ s \in CacheType /\ Held(s, req) /\ Charged(s)
  BY DEF Inv, Good
<1> DEFINE m == [Free EXCEPT !.st = "live", !.file = f, !.ver = disk[f].ver, !.size = disk[f].size,
                          !.checked = IF Revalidate > 0 THEN now ELSE 0]
           a(e) == [Idle EXCEPT !.pc = "plain", !.e = e, !.came = now]
           u(e) == [s EXCEPT !.mem[e] = m]
<1>1. PICK e \in Entries : /\ s.mem[e].st = "free"
                           /\ SetCache(u(e))
                           /\ req' = [req EXCEPT ![r] = a(e)]
  BY DEF LoadBegin
<1>2. disk[f].ver \in Nat /\ disk[f].size \in Nat /\ now \in Nat
      /\ (IF Revalidate > 0 THEN now ELSE 0) \in Nat
  BY <1>0 DEF FileType, Inv
<1>3. /\ m \in EntryType /\ m.refs = 0 /\ m.st = "live" /\ m.ver = disk[f].ver
      /\ m.file = f /\ ~ m.dropped
  BY <1>2 DEF EntryType, Free
<1>4. /\ a(e) \in ReqType /\ a(e).pc = "plain" /\ a(e).e = e
  BY <1>2 DEF ReqType, Idle
<1>5. e # None
  BY StaticAssumption
<1>6. e \notin ToSet(s.table)
  BY <1>0, <1>1 DEF Charged
<1>7. \A p \in Reqs : req[p].e # e
  BY <1>0, <1>1, <1>5 DEF Held
<1> DEFINE w == u(e)
           b == a(e)
           q == req'
<1> HIDE DEF m
<1>8. /\ Good(w, req) /\ w.table = s.table /\ w.bytes = s.bytes
      /\ w.mem[e] = m /\ \A x \in Entries : x # e => w.mem[x] = s.mem[x]
  BY <1>0, <1>3, <1>6, <1>7, UnheldIsGood
<1>9. Cache' = w /\ bytes' = s.bytes
  BY <1>1, <1>8, SetCacheGood DEF Good
<1> HIDE DEF u
<1>10. q \in [Reqs -> ReqType] /\ q[r] = b /\ \A p \in Reqs : p # r => q[p] = req[p]
  BY <1>0, <1>1, <1>4
<1>11. b.pc = "plain" /\ b.e = e
  BY <1>4
<1> HIDE DEF a, w, b, q
<1>12. Held(w, req)
  BY <1>8 DEF Good
<1>13. \A x \in Entries : Senders(q, x) = Senders(req, x)
  BY <1>10, <1>11 DEF Senders
<1>14. \A x \in Entries : w.mem[x].refs = Cardinality(Senders(q, x))
  BY <1>12, <1>13 DEF Held
<1>15. \A p \in Reqs : q[p].e = None <=> q[p].pc = "idle"
  BY <1>5, <1>10, <1>11, <1>12 DEF Held
<1>16. ASSUME NEW p \in Reqs, q[p].e # None
       PROVE  w.mem[q[p].e].st = "live"
  <2>1. CASE p = r
    BY <1>2, <1>3, <1>8, <1>10, <1>11, <2>1
  <2>2. CASE p # r
    BY <1>10, <1>12, <1>16, <2>2 DEF Held
  <2> QED BY <2>1, <2>2
<1>17. ASSUME NEW p \in Reqs, q[p].pc \in Loading
       PROVE  /\ q[p].e \notin ToSet(w.table)
              /\ w.mem[q[p].e].file \in Files
              /\ ~ w.mem[q[p].e].dropped
              /\ \A o \in Reqs : o # p => q[o].e # q[p].e
  <2>1. CASE p = r
    BY <1>3, <1>6, <1>7, <1>8, <1>10, <1>11, <2>1
  <2>2. CASE p # r
    <3>1. q[p] = req[p] /\ req[p].pc \in Loading
      BY <1>10, <1>17, <2>2
    <3>2. /\ req[p].e \notin ToSet(w.table)
          /\ w.mem[req[p].e].file \in Files
          /\ ~ w.mem[req[p].e].dropped
          /\ \A o \in Reqs : o # p => req[o].e # req[p].e
      BY <1>12, <3>1 DEF Held
    <3>3. ASSUME NEW o \in Reqs, o # p PROVE q[o].e # q[p].e
      <4>1. CASE o = r
        BY <1>7, <1>10, <1>11, <3>1, <4>1
      <4>2. CASE o # r
        BY <1>10, <3>1, <3>2, <3>3, <4>2
      <4> QED BY <4>1, <4>2
    <3> QED BY <3>1, <3>2, <3>3
  <2> QED BY <2>1, <2>2
<1>18. Held(w, q)
  BY <1>14, <1>15, <1>16, <1>17 DEF Held
<1>19. Good(w, q)
  BY <1>8, <1>18 DEF Good
<1>20. disk' \in [Files -> FileType] /\ now' \in Nat
  BY DEF Inv, outside
<1> QED BY <1>9, <1>10, <1>19, <1>20 DEF Inv, q

\* What serve does behind open_file.
LEMMA OpenInv ==
    ASSUME Inv, NEW r \in Reqs, NEW f \in Files, NEW s, Good(s, req), s.bytes <= Budget,
           req[r].pc = "idle", Open(r, s, f), UNCHANGED outside
    PROVE  Inv'
<1>1. Good(s, Retired(req, r))
  BY RetireIsGood DEF Inv
<1>2. CASE Ends(r, s)
  BY <1>1, <1>2, EndsInv
<1>3. CASE LoadBegin(r, s, f)
  BY <1>3, LoadBeginInv
<1> QED BY <1>2, <1>3 DEF Open

\* A lookup finds an entry of the table, of the file.
LEMMA LookupFields ==
    ASSUME Inv, NEW f \in Files, NEW e \in Lookup(f)
    PROVE  /\ e \in ToSet(Cache.table) /\ e \in Entries
           /\ Cache.mem[e].st = "live" /\ mem[e].file = f
           /\ Cache.mem = mem /\ Cache.bytes = bytes /\ Cache.table = table
           /\ Cache \in CacheType /\ Charged(Cache) /\ Held(Cache, req)
<1>1. Cache.mem = mem /\ Cache.bytes = bytes /\ Cache.table = table
  BY DEF Cache
<1>2. Cache \in CacheType /\ Charged(Cache) /\ Held(Cache, req)
  BY DEF Inv, Good
<1>3. e \in ToSet(Cache.table) /\ mem[e].file = f
  BY <1>1 DEF Lookup
<1>4. e \in Entries
  BY <1>2, <1>3, ElementOfSeq, LenProperties DEF ToSet, CacheType
<1> QED BY <1>1, <1>2, <1>3, <1>4 DEF Charged

\* A cache with an entry checked at another time.
LEMMA SetChecked ==
    ASSUME NEW s \in CacheType, NEW e \in Entries, NEW n \in Nat
    PROVE  LET u == [s EXCEPT !.mem[e].checked = n] IN
           /\ u \in CacheType /\ u.table = s.table /\ u.bytes = s.bytes
           /\ u.mem[e] = [s.mem[e] EXCEPT !.checked = n]
           /\ \A x \in Entries : x # e => u.mem[x] = s.mem[x]
<1>0. s.mem \in [Entries -> EntryType] /\ s.mem[e] \in EntryType
  BY CacheFields
<1>1. LET u == [s EXCEPT !.mem[e].checked = n] IN u \in CacheType
  BY <1>0 DEF CacheType, EntryType
<1> QED
  BY <1>1 DEF CacheType

\* current() changes the time of the entry, or nothing.
LEMMA CheckedFields ==
    ASSUME Inv, NEW e \in Entries
    PROVE  LET u == Checked(Cache, e) IN
           /\ Good(u, req) /\ u.table = Cache.table /\ u.bytes = Cache.bytes
           /\ u = Cache \/ u.mem[e] = [Cache.mem[e] EXCEPT !.checked = now]
           /\ \A x \in Entries : x # e => u.mem[x] = Cache.mem[x]
           /\ \A x \in Entries : u.mem[x].st = Cache.mem[x].st
<1> DEFINE s == Cache
           u == [s EXCEPT !.mem[e].checked = now]
<1>0. s \in CacheType /\ s.table \in Seq(Entries) /\ Held(s, req) /\ Charged(s) /\ now \in Nat
      /\ Good(s, req)
  BY DEF Inv, Good, CacheType
<1>1. CASE Checked(Cache, e) = Cache
  BY <1>0, <1>1
<1>2. CASE Checked(Cache, e) = u
  <2> HIDE DEF s
  <2>1. /\ u \in CacheType /\ u.table = s.table /\ u.bytes = s.bytes
        /\ u.mem[e] = [s.mem[e] EXCEPT !.checked = now]
        /\ \A x \in Entries : x # e => u.mem[x] = s.mem[x]
    BY <1>0, SetChecked, Zenon
  <2>2. s.mem[e] \in EntryType
    BY <1>0, CacheFields
  <2> HIDE DEF u
  <2>3. /\ u.mem[e].refs = s.mem[e].refs /\ u.mem[e].st = s.mem[e].st
        /\ u.mem[e].ver = s.mem[e].ver /\ u.mem[e].file = s.mem[e].file
        /\ u.mem[e].dropped = s.mem[e].dropped
        /\ u.mem[e].size = s.mem[e].size /\ u.mem[e].twin = s.mem[e].twin
    BY <2>1, <2>2 DEF EntryType
  <2>4. \A x \in Entries :
          /\ u.mem[x].refs = s.mem[x].refs /\ u.mem[x].st = s.mem[x].st
          /\ u.mem[x].ver = s.mem[x].ver /\ u.mem[x].file = s.mem[x].file
          /\ u.mem[x].dropped = s.mem[x].dropped
          /\ u.mem[x].size = s.mem[x].size /\ u.mem[x].twin = s.mem[x].twin
    BY <2>1, <2>3
  <2>5. ToSet(s.table) \subseteq Entries
    BY <1>0, ElementOfSeq, LenProperties DEF ToSet
  <2>6. Charged(u)
    <3>1. Weights(u) = Weights(s)
      BY <2>4 DEF Weights, BytesOf
    <3> QED BY <1>0, <2>1, <2>4, <2>5, <3>1 DEF Charged
  <2>7. \A p \in Reqs : req[p].e # None => req[p].e \in Entries
    BY ReqFields DEF Inv
  <2>8. \A p \in Reqs : req[p].pc \in Loading => req[p].e # None /\ req[p].e \notin ToSet(s.table)
    BY <1>0 DEF Held, Loading
  <2>9. Held(u, req)
    BY <1>0, <2>1, <2>4, <2>7, <2>8, HeldToo DEF Inv
  <2>10. Good(u, req)
    BY <2>1, <2>6, <2>9 DEF Good
  <2> QED BY <1>2, <2>1, <2>4, <2>10 DEF s
<1> QED BY <1>1, <1>2 DEF Checked

\* A hit: the entry is current, and is sent from.
LEMMA ServeHitInv ==
    ASSUME Inv, NEW r \in Reqs, NEW f \in Files, ServeHit(r, f)
    PROVE  Inv'
<1>1. PICK e \in Lookup(f) : Reply(r, Touch(Checked(Cache, e), e), e, now)
  BY DEF ServeHit
<1>2. /\ e \in ToSet(Cache.table) /\ e \in Entries
      /\ Cache.mem[e].st = "live" /\ Cache.bytes = bytes
      /\ Held(Cache, req)
  BY LookupFields
<1>3. req \in [Reqs -> ReqType] /\ req[r].pc = "idle" /\ bytes <= Budget
      /\ now \in Nat /\ disk' \in [Files -> FileType] /\ now' \in Nat
  BY DEF Inv, ServeHit, outside
<1> DEFINE c == Checked(Cache, e)
           s == Touch(c, e)
<1>4. /\ Good(c, req) /\ c.table = Cache.table /\ c.bytes = Cache.bytes
      /\ \A x \in Entries : c.mem[x].st = Cache.mem[x].st
  BY <1>2, CheckedFields
<1> HIDE DEF c
<1>5. Good(s, req) /\ s.mem = c.mem /\ s.bytes = bytes
  BY <1>2, <1>3, <1>4, TouchIsGood
<1> HIDE DEF s
<1>6. Good(s, Retired(req, r)) /\ s.mem[e].st = "live"
  BY <1>2, <1>3, <1>4, <1>5, RetireIsGood
<1>7. \A p \in Reqs \ {r} : req[p].pc \in Loading => req[p].e # e
  BY <1>2 DEF Held
<1>8. Good(Cache, req)' /\ bytes' = s.bytes /\ req' \in [Reqs -> ReqType]
  BY <1>1, <1>2, <1>3, <1>6, <1>7, ReplyIsGood DEF s, c
<1> QED BY <1>3, <1>5, <1>8 DEF Inv

\* An entry that is not current goes, and the file is opened.
LEMMA ServeStaleInv ==
    ASSUME Inv, NEW r \in Reqs, NEW f \in Files, ServeStale(r, f)
    PROVE  Inv'
<1>1. PICK e \in Lookup(f) : \/ Open(r, Drop(Checked(Cache, e), e), f)
                             \/ Ends(r, Drop(Checked(Cache, e), e))
  BY DEF ServeStale
<1>2. e \in ToSet(Cache.table) /\ e \in Entries /\ Cache.bytes = bytes /\ Cache.bytes \in Int
  BY LookupFields DEF CacheType
<1>3. req \in [Reqs -> ReqType] /\ req[r].pc = "idle" /\ bytes <= Budget /\ UNCHANGED outside
  BY DEF Inv, ServeStale
<1> DEFINE c == Checked(Cache, e)
           s == Drop(c, e)
<1>4. Good(c, req) /\ c.table = Cache.table /\ c.bytes = Cache.bytes
  BY <1>2, CheckedFields
<1> HIDE DEF c
<1>5. Good(s, req) /\ s.bytes <= Cache.bytes
  BY <1>2, <1>3, <1>4, DropIsGood
<1>6. s.bytes \in Int /\ Budget \in Int
  BY <1>5, StaticAssumption DEF Good, CacheType
<1> HIDE DEF s
<1>7. s.bytes <= Budget
  BY <1>2, <1>3, <1>5, <1>6
<1>8. Good(s, Retired(req, r))
  BY <1>3, <1>5, RetireIsGood
<1>9. CASE Open(r, s, f)
  BY <1>3, <1>5, <1>7, <1>9, OpenInv
<1>10. CASE Ends(r, s)
  BY <1>3, <1>7, <1>8, <1>10, EndsInv
<1> QED BY <1>1, <1>9, <1>10 DEF s, c

\* A miss: the file is opened, or there is none.
LEMMA ServeMissInv ==
    ASSUME Inv, NEW r \in Reqs, NEW f \in Files, ServeMiss(r, f) \/ ServeGone(r, f)
    PROVE  Inv'
<1>1. Open(r, Cache, f) \/ Ends(r, Cache)
  BY DEF ServeMiss, ServeGone
<1>2. req \in [Reqs -> ReqType] /\ Good(Cache, req) /\ req[r].pc = "idle"
      /\ Cache.bytes <= Budget /\ UNCHANGED outside
  BY DEF Inv, ServeMiss, ServeGone, Cache
<1>3. Good(Cache, Retired(req, r))
  BY <1>2, RetireIsGood
<1>4. CASE Open(r, Cache, f)
  BY <1>2, <1>4, OpenInv
<1>5. CASE Ends(r, Cache)
  BY <1>2, <1>3, <1>5, EndsInv
<1> QED BY <1>1, <1>4, <1>5

\* What a handler that is loading has.
LEMMA LoadingFields ==
    ASSUME Inv, NEW r \in Reqs, req[r].pc \in Loading
    PROVE  /\ req \in [Reqs -> ReqType] /\ Good(Cache, req) /\ Held(Cache, req)
           /\ Cache \in CacheType /\ Cache.mem = mem /\ Cache.table = table /\ Cache.bytes = bytes
           /\ req[r].e \in Entries /\ req[r].e # None /\ req[r].came \in Nat
           /\ req[r].e \notin ToSet(Cache.table)
           /\ mem[req[r].e].st = "live"
           /\ mem[req[r].e].file \in Files /\ ~ mem[req[r].e].dropped
           /\ \A p \in Reqs : p # r => req[p].e # req[r].e
           /\ bytes <= Budget
<1>1. Cache.mem = mem /\ Cache.table = table /\ Cache.bytes = bytes
  BY DEF Cache
<1>2. req \in [Reqs -> ReqType] /\ Good(Cache, req) /\ Held(Cache, req) /\ Cache \in CacheType
      /\ bytes <= Budget
  BY DEF Inv, Good
<1>3. req[r].e # None
  BY <1>2 DEF Held, Loading
<1>4. req[r].e \in Entries /\ req[r].came \in Nat
  BY <1>2, <1>3, ReqFields
<1> QED BY <1>1, <1>2, <1>3, <1>4 DEF Held

\* A load goes on to its next part.
LEMMA NextPartIsGood ==
    ASSUME NEW q \in [Reqs -> ReqType], NEW s, Good(s, q), NEW r \in Reqs, q[r].pc \in Loading,
           NEW c \in Loading
    PROVE  /\ Good(s, [q EXCEPT ![r].pc = c])
           /\ [q EXCEPT ![r].pc = c] \in [Reqs -> ReqType]
<1> DEFINE q1 == [q EXCEPT ![r].pc = c]
<1>1. q1 \in [Reqs -> ReqType]
  BY DEF ReqType, Loading
<1>2. \A p \in Reqs : q1[p].e = q[p].e /\ q1[p].came = q[p].came
  BY DEF ReqType
<1>3. q1[r].pc = c /\ \A p \in Reqs : p # r => q1[p].pc = q[p].pc
  BY DEF ReqType
<1> HIDE DEF q1
<1>4. \A p \in Reqs : /\ q1[p].pc = "send" <=> q[p].pc = "send"
                      /\ q1[p].pc = "idle" <=> q[p].pc = "idle"
                      /\ q1[p].pc \in Loading <=> q[p].pc \in Loading
  BY <1>3 DEF Loading
<1>5. \A x : Senders(q1, x) = Senders(q, x)
  BY <1>2, <1>4 DEF Senders
<1>6. Held(s, q1)
  BY <1>2, <1>4, <1>5 DEF Good, Held
<1>7. Good(s, q1)
  BY <1>6 DEF Good
<1> QED BY <1>1, <1>7 DEF q1

\* The file has been read.
LEMMA LoadPlainInv ==
    ASSUME Inv, NEW r \in Reqs, LoadPlain(r)
    PROVE  Inv'
<1>1. req[r].pc \in Loading /\ "twin" \in Loading /\ req' = [req EXCEPT ![r].pc = "twin"]
  BY DEF LoadPlain, Loading
<1>2. Good(Cache, req') /\ req' \in [Reqs -> ReqType]
  BY <1>1, LoadingFields, NextPartIsGood
<1>3. Cache' = Cache /\ UNCHANGED <<disk, now, bytes>>
  BY DEF LoadPlain, Cache, outside
<1> QED BY <1>2, <1>3 DEF Inv

\* The file could not be read: the entry was the handler's own.
LEMMA LoadFailsInv ==
    ASSUME Inv, NEW r \in Reqs, LoadFails(r)
    PROVE  Inv'
<1> DEFINE e == req[r].e
           s == EntryFree(Cache, e)
           q0 == Retired(req, r)
<1>1. req[r].pc \in Loading /\ req[r].pc # "send" /\ Ends(r, s) /\ UNCHANGED outside
  BY DEF LoadFails, Loading
<1>2. /\ req \in [Reqs -> ReqType] /\ Good(Cache, req) /\ e \in Entries /\ e # None
      /\ e \notin ToSet(Cache.table) /\ Cache.bytes = bytes
      /\ \A p \in Reqs : p # r => req[p].e # e
      /\ bytes <= Budget
  BY <1>1, LoadingFields
<1>3. Good(Cache, q0)
  BY <1>1, <1>2, RetireIsGood
<1>4. q0 \in [Reqs -> ReqType] /\ \A p \in Reqs : q0[p].e # e
  BY <1>2, RetiredFields
<1>5. Free \in EntryType /\ Free.refs = 0
  BY DEF Free, EntryType
<1> HIDE DEF q0, e
<1>6. Good(s, q0) /\ s.bytes = Cache.bytes
  BY <1>2, <1>3, <1>4, <1>5, UnheldIsGood DEF EntryFree
<1> QED BY <1>1, <1>2, <1>6, EndsInv DEF q0

\* The twin has been read, or there is none.
LEMMA LoadTwinInv ==
    ASSUME Inv, NEW r \in Reqs, LoadTwin(r)
    PROVE  Inv'
<1> DEFINE e == req[r].e
           s == Cache
           u == Cache'
<1>1. req[r].pc \in Loading /\ "loaded" \in Loading /\ req' = [req EXCEPT ![r].pc = "loaded"]
      /\ UNCHANGED <<disk, now, table, bytes>>
  BY DEF LoadTwin, Loading, outside
<1>2. /\ req \in [Reqs -> ReqType] /\ Good(s, req) /\ Held(s, req) /\ s \in CacheType
      /\ e \in Entries /\ e \notin ToSet(s.table) /\ mem[e].file \in Files
      /\ s.mem = mem /\ s.table = table /\ s.bytes = bytes
  BY <1>1, LoadingFields
<1>3. PICK t \in Nat : mem' = [mem EXCEPT ![e].twin = t]
  <2>1. disk[mem[e].file] \in FileType
    BY <1>2 DEF Inv
  <2>2. disk[mem[e].file].twin \in Nat
    BY <2>1 DEF FileType
  <2> QED BY <2>2 DEF LoadTwin
<1>4. mem \in [Entries -> EntryType] /\ mem[e] \in EntryType
  BY <1>2, CacheFields
<1>5. /\ mem' \in [Entries -> EntryType]
      /\ \A x \in Entries : x # e => mem'[x] = mem[x]
      /\ mem'[e] = [mem[e] EXCEPT !.twin = t]
  BY <1>2, <1>3, <1>4 DEF EntryType
<1>6. \A x \in Entries : /\ mem'[x].refs = mem[x].refs /\ mem'[x].st = mem[x].st
                         /\ mem'[x].ver = mem[x].ver /\ mem'[x].file = mem[x].file
                         /\ mem'[x].dropped = mem[x].dropped
  <2>1. /\ mem'[e].refs = mem[e].refs /\ mem'[e].st = mem[e].st
        /\ mem'[e].ver = mem[e].ver /\ mem'[e].file = mem[e].file
        /\ mem'[e].dropped = mem[e].dropped
    BY <1>4, <1>5 DEF EntryType
  <2> QED BY <1>5, <2>1
<1>7. u.mem = mem' /\ u.table = s.table /\ u.bytes = s.bytes
  BY <1>1 DEF Cache
<1>8. u \in CacheType
  BY <1>1, <1>2, <1>5 DEF Cache, CacheType
<1> HIDE DEF s, u, e
<1>9. ToSet(s.table) \subseteq Entries /\ s.table \in Seq(Entries)
  BY <1>2, ElementOfSeq, LenProperties DEF ToSet, CacheType
<1>10. Weights(s) \in [Entries -> Int] /\ Weights(u) \in [Entries -> Int]
  BY <1>2, <1>8, CacheFields
<1>11. \A x \in ToSet(s.table) : Weights(u)[x] = Weights(s)[x]
  <2>1. \A x \in ToSet(s.table) : u.mem[x] = s.mem[x]
    BY <1>2, <1>5, <1>7, <1>9
  <2> QED BY <1>9, <2>1 DEF Weights, BytesOf
<1>12. Sum(Weights(u), s.table) = Sum(Weights(s), s.table)
  BY <1>9, <1>10, <1>11, SumSame
<1>13. Charged(u)
  BY <1>2, <1>6, <1>7, <1>9, <1>12 DEF Good, Charged
<1>14. \A p \in Reqs : req[p].e # None => req[p].e \in Entries
  BY <1>2, ReqFields
<1>15. \A p \in Reqs : req[p].pc \in Loading => req[p].e # None /\ req[p].e \notin ToSet(s.table)
  BY <1>2 DEF Held, Loading
<1>16. Held(u, req)
  BY <1>2, <1>6, <1>7, <1>14, <1>15, HeldToo
<1>17. Good(u, req)
  BY <1>8, <1>13, <1>16 DEF Good
<1>18. Good(u, req') /\ req' \in [Reqs -> ReqType]
  BY <1>1, <1>2, <1>17, NextPartIsGood
<1> QED BY <1>1, <1>18 DEF Inv, u

\* The end of a load: there is room, or the entry is not kept.
LEMMA LoadEndInv ==
    ASSUME Inv, NEW r \in Reqs, LoadEnd(r)
    PROVE  Inv'
<1> DEFINE e == req[r].e
           n == BytesOf(Cache, e)
           q0 == Retired(req, r)
<1>1. req[r].pc \in Loading /\ req[r].pc # "send" /\ UNCHANGED outside
  BY DEF LoadEnd, Loading
<1>2. /\ req \in [Reqs -> ReqType] /\ Good(Cache, req) /\ Cache \in CacheType
      /\ e \in Entries /\ e # None /\ e \notin ToSet(Cache.table)
      /\ Cache.bytes = bytes /\ Cache.mem = mem
      /\ mem[e].st = "live" /\ ~ mem[e].dropped
      /\ req[r].came \in Nat
      /\ \A p \in Reqs : p # r => req[p].e # e
      /\ bytes <= Budget
  BY <1>1, LoadingFields
<1>3. q0 \in [Reqs -> ReqType] /\ \A p \in Reqs : q0[p].e # e
  BY <1>2, RetiredFields
<1>4. n \in Nat /\ Budget \in Nat
  BY <1>2, CacheFields, StaticAssumption
<1>5. disk' \in [Files -> FileType] /\ now' \in Nat
  BY <1>1 DEF Inv, outside
<1>6. \A p \in Reqs \ {r} : req[p].pc \in Loading => req[p].e # e
  BY <1>2
<1>7. CASE n <= Budget
  <2> DEFINE m == MakeRoom(Cache, n)
             u == Insert(m, e)
  <2>1. Reply(r, u, e, req[r].came)
    BY <1>7 DEF LoadEnd
  <2> HIDE DEF e, n, q0
  <2>2. /\ Good(m, req)
        /\ ToSet(m.table) \subseteq ToSet(Cache.table)
        /\ \A x \in Entries : x \notin ToSet(Cache.table) => m.mem[x] = Cache.mem[x]
        /\ m.bytes + n <= Budget \/ m.table = <<>>
    BY <1>2, <1>4, MakeRoomIsGood
  <2> HIDE DEF m
  <2>3. m.mem[e] = mem[e] /\ e \notin ToSet(m.table)
    BY <1>2, <2>2
  <2>4. BytesOf(m, e) = n
    BY <1>2, <2>3 DEF BytesOf, n
  <2>5. Good(m, q0)
    BY <1>1, <1>2, <2>2, RetireIsGood DEF q0
  <2>6. Good(u, q0) /\ u.mem = m.mem /\ u.bytes = m.bytes + n
    BY <1>2, <1>3, <2>3, <2>4, <2>5, InsertIsGood
  <2> HIDE DEF u
  <2>7. u.bytes <= Budget
    <3>1. CASE m.bytes + n <= Budget
      BY <2>6, <3>1
    <3>2. CASE m.table = <<>>
      <4>1. m.bytes = 0
        BY <2>2, <3>2, SumEmpty DEF Good, Charged
      <4> QED BY <1>4, <1>7, <2>6, <4>1
    <3> QED BY <2>2, <3>1, <3>2
  <2>8. Good(Cache, req)' /\ bytes' = u.bytes /\ req' \in [Reqs -> ReqType]
    BY <1>2, <1>6, <2>1, <2>3, <2>6, ReplyIsGood DEF q0
  <2> QED BY <1>5, <2>7, <2>8 DEF Inv
<1>8. CASE ~ (n <= Budget)
  <2> DEFINE u == [Cache EXCEPT !.mem[e].dropped = TRUE]
  <2>1. Reply(r, u, e, req[r].came)
    BY <1>8 DEF LoadEnd
  <2>2. Good(Cache, q0)
    BY <1>1, <1>2, RetireIsGood
  <2> HIDE DEF e, n, q0
  <2>3. /\ Good(u, q0) /\ u.bytes = Cache.bytes
        /\ u.mem[e].st = Cache.mem[e].st /\ u.mem[e].ver = Cache.mem[e].ver
    <3>1. \A p \in Reqs : q0[p].pc \in Loading => q0[p].e # e
      BY <1>3
    <3> QED BY <1>2, <1>3, <2>2, <3>1, DroppedIsGood
  <2> HIDE DEF u
  <2>4. Good(Cache, req)' /\ bytes' = u.bytes /\ req' \in [Reqs -> ReqType]
    BY <1>2, <1>6, <2>1, <2>3, ReplyIsGood DEF q0
  <2> QED BY <1>2, <1>5, <2>3, <2>4 DEF Inv
<1> QED BY <1>7, <1>8

\* The body is sent.
LEMMA SentInv ==
    ASSUME Inv, NEW r \in Reqs, Sent(r)
    PROVE  Inv'
<1> DEFINE s == Release(Cache, req[r].e)
<1>1. req[r].pc = "send" /\ Ends(r, s) /\ UNCHANGED outside
  BY DEF Sent
<1>2. req \in [Reqs -> ReqType] /\ Good(Cache, req) /\ Cache.bytes = bytes /\ bytes <= Budget
  BY DEF Inv, Cache
<1>3. Good(s, Retired(req, r)) /\ s.bytes = Cache.bytes
  BY <1>1, <1>2, ReleaseIsGood
<1> HIDE DEF s
<1> QED BY <1>1, <1>2, <1>3, EndsInv

\* What happens in the directory touches nothing that is held.
LEMMA DirectoryInv ==
    ASSUME Inv, NEW f \in Files, Replace(f) \/ ReplaceTwin(f) \/ Unlink(f)
    PROVE  Inv'
<1>1. Cache' = Cache /\ UNCHANGED <<bytes, req, now>>
  BY DEF Replace, ReplaceTwin, Unlink, Cache
<1>2. disk[f] \in FileType /\ disk \in [Files -> FileType]
  BY DEF Inv
<1>3. disk' \in [Files -> FileType]
  <2>1. CASE Replace(f)
    <3>1. PICK n \in Sizes :
            disk' = [disk EXCEPT ![f].here = TRUE, ![f].ver = @ + 1, ![f].size = n]
      BY <2>1 DEF Replace
    <3>2. n \in Nat /\ disk[f].ver + 1 \in Nat
      BY <1>2, StaticAssumption DEF FileType
    <3> QED BY <1>2, <3>1, <3>2 DEF FileType
  <2>2. CASE ReplaceTwin(f)
    BY <1>2, <2>2 DEF ReplaceTwin, FileType
  <2>3. CASE Unlink(f)
    BY <1>2, <2>3 DEF Unlink, FileType
  <2> QED BY <2>1, <2>2, <2>3
<1> QED BY <1>1, <1>3 DEF Inv

\* Every step keeps the invariant.
LEMMA NextInv == Inv /\ [Next]_vars => Inv'
<1> SUFFICES ASSUME Inv, [Next]_vars PROVE Inv'
  OBVIOUS
<1>1. CASE UNCHANGED vars
  <2>1. Cache' = Cache /\ UNCHANGED <<disk, now, bytes, req>>
    BY <1>1 DEF vars, outside, Cache
  <2> QED BY <2>1 DEF Inv
<1>2. ASSUME NEW r \in Reqs, Serve(r) PROVE Inv'
  BY <1>2, ServeHitInv, ServeStaleInv, ServeMissInv DEF Serve
<1>3. ASSUME NEW r \in Reqs, Load(r) PROVE Inv'
  BY <1>3, LoadPlainInv, LoadFailsInv, LoadTwinInv, LoadEndInv DEF Load
<1>4. ASSUME NEW r \in Reqs, Sent(r) PROVE Inv'
  BY <1>4, SentInv
<1>5. ASSUME NEW f \in Files, Replace(f) \/ ReplaceTwin(f) \/ Unlink(f) PROVE Inv'
  BY <1>5, DirectoryInv
<1>6. CASE Tick
  <2>1. Cache' = Cache /\ UNCHANGED <<disk, bytes, req>> /\ now' = now + 1
    BY <1>6 DEF Tick, Cache
  <2> QED BY <2>1 DEF Inv
<1> QED BY <1>1, <1>2, <1>3, <1>4, <1>5, <1>6 DEF Next

\* The invariant holds in every state.
LEMMA AlwaysInv == Spec => []Inv
BY InitInv, NextInv, PTL DEF Spec

-----------------------------------------------------------------------------
(* The theorems.                                                           *)

(* However many requests load, drop and make room in turn, the table holds *)
(* each entry once and live, c->bytes is the sum of what it holds, and the *)
(* sum is within the budget: make_room's loop ends with enough room or an  *)
(* empty table, and load inserts only what fits in an empty one.           *)
THEOREM StaysInBudget == Spec => []BudgetIsKept
<1>1. Inv => BudgetIsKept
  <2> SUFFICES ASSUME Inv PROVE BudgetIsKept
    OBVIOUS
  <2>1. Cache.mem = mem /\ Cache.table = table /\ Cache.bytes = bytes
    BY DEF Cache
  <2>2. Cache \in CacheType /\ Charged(Cache) /\ bytes <= Budget
    BY DEF Inv, Good
  <2>3. table \in Seq(Entries)
    BY <2>1, <2>2 DEF CacheType
  <2>4. \A i \in DOMAIN table : table[i] \in Entries
    BY <2>3, LenProperties, ElementOfSeq
  <2>5. \A i \in DOMAIN table : Weights(Cache)[table[i]] = BytesOf(Cache, table[i])
    BY <2>4 DEF Weights
  <2>6. Sum(Weights(Cache), table) = Total([i \in DOMAIN table |-> BytesOf(Cache, table[i])])
    <3>1. [i \in DOMAIN table |-> Weights(Cache)[table[i]]]
            = [i \in DOMAIN table |-> BytesOf(Cache, table[i])]
      BY <2>5
    <3> QED BY <3>1 DEF Sum
  <2> QED BY <2>1, <2>2, <2>6 DEF Charged, BudgetIsKept
<1> QED BY <1>1, AlwaysInv, PTL

(* An entry's refs is the number of sends that read from it, so drop and   *)
(* release free no entry that a send or a load still uses, whatever other  *)
(* requests drop in between.                                               *)
THEOREM SendsAreSafe == Spec => []SendsReadLiveEntries
<1>1. Inv => SendsReadLiveEntries
  <2> SUFFICES ASSUME Inv PROVE SendsReadLiveEntries
    OBVIOUS
  <2>1. Cache.mem = mem /\ Cache.table = table /\ Held(Cache, req)
    BY DEF Cache, Inv, Good
  <2> QED BY <2>1 DEF Held, SendsReadLiveEntries, Senders, Loading
<1> QED BY <1>1, AlwaysInv, PTL

-----------------------------------------------------------------------------
(* What is served, and when it was on the disk.                            *)

(* The clock, and what it said of every version.                           *)
SeenType == [Files -> [1..MaxVersion -> Nat]]
Times ==
    /\ now \in Nat /\ seen \in SeenType
    /\ \A f \in Files, v \in 1..MaxVersion : seen[f][v] <= now
    /\ \A f \in Files : disk[f].ver \in 1..MaxVersion
    /\ \A f \in Files : disk[f].here => seen[f][disk[f].ver] = now

(* An entry that may be found was checked when its version was there, and  *)
(* a handler holds no version that went revalidate_ms before it came.  An  *)
(* entry found stale is stamped too, but no lookup finds it again.         *)
Timely(s, q, w) ==
    /\ \A x \in Entries : s.mem[x].st = "live" =>
         /\ s.mem[x].file \in Files /\ s.mem[x].ver \in 1..MaxVersion
         /\ s.mem[x].dropped \/ Revalidate = 0
              \/ s.mem[x].checked <= w[s.mem[x].file][s.mem[x].ver]
    /\ \A r \in Reqs : q[r].e # None =>
         q[r].came <= w[s.mem[q[r].e].file][s.mem[q[r].e].ver] + Revalidate

TimedInv == Inv /\ Times /\ Timely(Cache, req, seen)

\* What is kept is as timely as it was.
LEMMA KeptIsTimely ==
    ASSUME NEW q \in [Reqs -> ReqType], NEW w, NEW s, NEW t,
           Timely(s, q, w), Kept(s, t), Held(t, q)
    PROVE  Timely(t, q, w)
<1>1. \A r \in Reqs : q[r].e # None => q[r].e \in Entries /\ t.mem[q[r].e].st = "live"
  BY ReqFields DEF Held
<1>2. \A r \in Reqs : q[r].e # None =>
        /\ t.mem[q[r].e].file = s.mem[q[r].e].file
        /\ t.mem[q[r].e].ver = s.mem[q[r].e].ver
  BY <1>1 DEF Kept
<1>3. \A r \in Reqs : q[r].e # None =>
        q[r].came <= w[t.mem[q[r].e].file][t.mem[q[r].e].ver] + Revalidate
  BY <1>2 DEF Timely
<1>4. ASSUME NEW x \in Entries, t.mem[x].st = "live"
      PROVE  /\ t.mem[x].file \in Files /\ t.mem[x].ver \in 1..MaxVersion
             /\ t.mem[x].dropped \/ Revalidate = 0
                  \/ t.mem[x].checked <= w[t.mem[x].file][t.mem[x].ver]
  <2>1. /\ s.mem[x].st = "live"
        /\ t.mem[x].file = s.mem[x].file /\ t.mem[x].ver = s.mem[x].ver
        /\ t.mem[x].dropped \/ (~ s.mem[x].dropped /\ t.mem[x].checked = s.mem[x].checked)
    BY <1>4 DEF Kept
  <2>2. /\ s.mem[x].file \in Files /\ s.mem[x].ver \in 1..MaxVersion
        /\ s.mem[x].dropped \/ Revalidate = 0
             \/ s.mem[x].checked <= w[s.mem[x].file][s.mem[x].ver]
    BY <2>1 DEF Timely
  <2> QED BY <2>1, <2>2, Zenon
<1> QED BY <1>3, <1>4 DEF Timely

\* A handler that is done holds nothing.
LEMMA RetiredIsTimely ==
    ASSUME NEW q \in [Reqs -> ReqType], NEW r \in Reqs, NEW w, NEW s, Timely(s, q, w)
    PROVE  Timely(s, Retired(q, r), w)
BY RetiredFields DEF Timely

\* The handler goes: the rest is kept.
LEMMA EndsTimely ==
    ASSUME TimedInv, Inv', NEW r \in Reqs, NEW s \in CacheType, Kept(Cache, s), Ends(r, s),
           UNCHANGED outside
    PROVE  Timely(Cache', req', seen')
<1>1. Cache' = s /\ req' = Retired(req, r) /\ seen' = seen
  BY SetCacheGood DEF Ends, Retired, outside
<1>2. req \in [Reqs -> ReqType] /\ Timely(Cache, req, seen)
  BY DEF TimedInv, Inv
<1>3. req' \in [Reqs -> ReqType] /\ Held(Cache', req')
  BY DEF Inv, Good
<1>4. Timely(Cache, req', seen)
  BY <1>1, <1>2, RetiredIsTimely
<1> QED BY <1>1, <1>3, <1>4, KeptIsTimely

\* A reply sends from an entry that is recent enough.
LEMMA ReplyTimely ==
    ASSUME TimedInv, NEW r \in Reqs, NEW s \in CacheType, NEW e \in Entries, NEW came \in Nat,
           Timely(s, Retired(req, r), seen), s.mem[e].st = "live",
           came <= seen[s.mem[e].file][s.mem[e].ver] + Revalidate,
           Reply(r, s, e, came), UNCHANGED outside
    PROVE  Timely(Cache', req', seen')
<1> DEFINE q0 == Retired(req, r)
<1>0. /\ q0 \in [Reqs -> ReqType] /\ q0[r] = Idle
      /\ \A p \in Reqs : p # r => q0[p] = req[p]
      /\ req \in [Reqs -> ReqType] /\ seen' = seen
  BY RetiredFields DEF TimedInv, Inv, outside
<1>1. CASE SetCache(s) /\ req' = [req EXCEPT ![r] = Idle]
  <2>1. Cache' = s /\ req' = q0
    BY <1>1, SetCacheGood DEF Retired
  <2> QED BY <1>0, <2>1
<1>2. ASSUME NEW v \in {"plain", "twin"},
             SetCache([s EXCEPT !.mem[e].refs = @ + 1]),
             req' = [req EXCEPT ![r] = [pc |-> "send", e |-> e, variant |-> v, came |-> came]]
      PROVE  Timely(Cache', req', seen')
  <2> DEFINE n == s.mem[e].refs + 1
             u == [s EXCEPT !.mem[e].refs = n]
  <2>1. n \in Nat /\ s.mem[e] \in EntryType
    BY CacheFields
  <2>2. /\ u \in CacheType
        /\ u.mem[e] = [s.mem[e] EXCEPT !.refs = n]
        /\ \A x \in Entries : x # e => u.mem[x] = s.mem[x]
    <3> HIDE DEF n
    <3> QED BY <2>1, SetRefs, Zenon
  <2>3. Cache' = u
    BY <1>2, <2>2, SetCacheGood
  <2>4. /\ req'[r].e = e /\ req'[r].came = came
        /\ \A p \in Reqs : p # r => req'[p] = q0[p]
    BY <1>0, <1>2
  <2> HIDE DEF u, n, q0
  <2>5. /\ u.mem[e].st = s.mem[e].st /\ u.mem[e].ver = s.mem[e].ver
        /\ u.mem[e].file = s.mem[e].file /\ u.mem[e].dropped = s.mem[e].dropped
        /\ u.mem[e].checked = s.mem[e].checked
    BY <2>1, <2>2 DEF EntryType
  <2>6. \A x \in Entries :
          /\ u.mem[x].st = s.mem[x].st /\ u.mem[x].ver = s.mem[x].ver
          /\ u.mem[x].file = s.mem[x].file /\ u.mem[x].dropped = s.mem[x].dropped
          /\ u.mem[x].checked = s.mem[x].checked
    BY <2>2, <2>5
  <2>7. \A x \in Entries : u.mem[x].st = "live" =>
          /\ u.mem[x].file \in Files /\ u.mem[x].ver \in 1..MaxVersion
          /\ u.mem[x].dropped \/ Revalidate = 0
               \/ u.mem[x].checked <= seen[u.mem[x].file][u.mem[x].ver]
    BY <2>6 DEF Timely, q0
  <2>8. ASSUME NEW p \in Reqs, req'[p].e # None
        PROVE  req'[p].came <= seen[u.mem[req'[p].e].file][u.mem[req'[p].e].ver] + Revalidate
    <3>1. CASE p = r
      BY <2>4, <2>6, <3>1
    <3>2. CASE p # r
      <4>1. req'[p] = q0[p] /\ q0[p].e \in Entries
        BY <1>0, <2>4, <2>8, <3>2, ReqFields
      <4> QED BY <2>6, <2>8, <4>1 DEF Timely, q0
    <3> QED BY <3>1, <3>2
  <2> QED BY <1>0, <2>3, <2>7, <2>8 DEF Timely
<1> QED BY <1>1, <1>2 DEF Reply

\* A load begins with what is on the disk.
LEMMA LoadBeginTimely ==
    ASSUME TimedInv, Inv', NEW r \in Reqs, NEW f \in Files, NEW s \in CacheType,
           Kept(Cache, s), Held(s, req), disk[f].here,
           LoadBegin(r, s, f), UNCHANGED outside
    PROVE  Timely(Cache', req', seen')
<1> DEFINE m == [Free EXCEPT !.st = "live", !.file = f, !.ver = disk[f].ver, !.size = disk[f].size,
                          !.checked = IF Revalidate > 0 THEN now ELSE 0]
           a(e) == [Idle EXCEPT !.pc = "plain", !.e = e, !.came = now]
           u(e) == [s EXCEPT !.mem[e] = m]
<1>0. /\ req \in [Reqs -> ReqType] /\ disk[f] \in FileType /\ now \in Nat
      /\ Timely(Cache, req, seen) /\ seen' = seen
      /\ disk[f].ver \in 1..MaxVersion /\ seen[f][disk[f].ver] = now
      /\ Revalidate \in Nat
  BY StaticAssumption DEF TimedInv, Inv, Times, outside
<1>1. PICK e \in Entries : /\ s.mem[e].st = "free"
                           /\ SetCache(u(e))
                           /\ req' = [req EXCEPT ![r] = a(e)]
  BY DEF LoadBegin
<1>2. disk[f].ver \in Nat /\ disk[f].size \in Nat
      /\ (IF Revalidate > 0 THEN now ELSE 0) \in Nat
  BY <1>0 DEF FileType
<1>3. /\ m \in EntryType /\ m.st = "live" /\ m.ver = disk[f].ver /\ m.file = f
      /\ m.checked = IF Revalidate > 0 THEN now ELSE 0
  BY <1>2 DEF EntryType, Free
<1>4. a(e).e = e /\ a(e).came = now
  BY DEF Idle
<1> HIDE DEF m
<1>5. /\ u(e) \in CacheType /\ u(e).mem[e] = m
      /\ \A x \in Entries : x # e => u(e).mem[x] = s.mem[x]
  BY <1>3, SetEntry
<1>6. Cache' = u(e)
  BY <1>1, <1>5, SetCacheGood
<1> DEFINE w == u(e)
<1> HIDE DEF u
<1>7. /\ req'[r].e = e /\ req'[r].came = now
      /\ \A p \in Reqs : p # r => req'[p] = req[p]
  BY <1>0, <1>1, <1>4
<1> HIDE DEF a, w
<1>8. Timely(s, req, seen)
  BY <1>0, KeptIsTimely
<1>9. ASSUME NEW x \in Entries, w.mem[x].st = "live"
      PROVE  /\ w.mem[x].file \in Files /\ w.mem[x].ver \in 1..MaxVersion
             /\ w.mem[x].dropped \/ Revalidate = 0
                  \/ w.mem[x].checked <= seen[w.mem[x].file][w.mem[x].ver]
  <2>1. CASE x = e
    <3>1. w.mem[x] = m
      BY <1>5, <2>1 DEF w
    <3>2. Revalidate = 0 \/ m.checked <= seen[m.file][m.ver]
      BY <1>0, <1>3
    <3> QED BY <1>0, <1>3, <3>1, <3>2
  <2>2. CASE x # e
    <3>1. w.mem[x] = s.mem[x]
      BY <1>5, <2>2 DEF w
    <3> QED BY <1>8, <1>9, <3>1 DEF Timely
  <2> QED BY <2>1, <2>2
<1>10. ASSUME NEW p \in Reqs, req'[p].e # None
       PROVE  req'[p].came <= seen[w.mem[req'[p].e].file][w.mem[req'[p].e].ver] + Revalidate
  <2>1. CASE p = r
    <3>1. w.mem[req'[p].e] = m
      BY <1>5, <1>7, <2>1 DEF w
    <3> QED BY <1>0, <1>3, <1>7, <2>1, <3>1
  <2>2. CASE p # r
    <3>1. req'[p] = req[p] /\ req[p].e \in Entries /\ s.mem[req[p].e].st = "live"
      BY <1>0, <1>7, <1>10, <2>2, ReqFields DEF Held
    <3>2. w.mem[req[p].e] = s.mem[req[p].e]
      BY <1>1, <1>5, <3>1 DEF w
    <3> QED BY <1>8, <1>10, <3>1, <3>2 DEF Timely
  <2> QED BY <2>1, <2>2
<1> QED BY <1>0, <1>6, <1>9, <1>10 DEF Timely, w

\* What serve does behind open_file.
LEMMA OpenTimely ==
    ASSUME TimedInv, Inv', NEW r \in Reqs, NEW f \in Files, NEW s \in CacheType,
           Kept(Cache, s), Held(s, req), disk[f].here,
           Open(r, s, f), UNCHANGED outside
    PROVE  Timely(Cache', req', seen')
BY EndsTimely, LoadBeginTimely DEF Open

\* A hit, looked at just now or less than revalidate_ms ago.
LEMMA ServeHitTimely ==
    ASSUME TimedInv, NEW r \in Reqs, NEW f \in Files, ServeHit(r, f)
    PROVE  Timely(Cache', req', seen')
<1>1. PICK e \in Lookup(f) : Current(e) /\ Reply(r, Touch(Checked(Cache, e), e), e, now)
  BY DEF ServeHit
<1>2. /\ e \in ToSet(Cache.table) /\ e \in Entries
      /\ Cache.mem[e].st = "live" /\ mem[e].file = f /\ Cache.mem = mem
      /\ Charged(Cache) /\ Cache \in CacheType
  BY LookupFields DEF TimedInv
<1>3. /\ req \in [Reqs -> ReqType] /\ UNCHANGED outside /\ now \in Nat /\ Inv
      /\ Timely(Cache, req, seen) /\ seen \in SeenType /\ Revalidate \in Nat
      /\ disk[f].here => seen[f][disk[f].ver] = now
  BY StaticAssumption DEF TimedInv, Times, Inv, ServeHit
<1>4. /\ mem[e] \in EntryType /\ ~ mem[e].dropped
      /\ mem[e].ver \in 1..MaxVersion
      /\ Revalidate = 0 \/ mem[e].checked <= seen[f][mem[e].ver]
  <2>1. mem[e] \in EntryType
    BY <1>2, CacheFields
  <2>2. ~ mem[e].dropped
    BY <1>2 DEF Charged
  <2>3. /\ mem[e].ver \in 1..MaxVersion
        /\ mem[e].dropped \/ Revalidate = 0 \/ mem[e].checked <= seen[f][mem[e].ver]
    BY <1>2, <1>3 DEF Timely
  <2> QED BY <2>1, <2>2, <2>3
<1>5. mem[e].checked \in Nat /\ seen[f][mem[e].ver] \in Nat
  BY <1>3, <1>4 DEF EntryType, SeenType
<1>6. \/ Unchecked(e)
      \/ seen[f][mem[e].ver] = now
  BY <1>1, <1>2, <1>3 DEF Current, OnDisk
<1>7. now <= seen[f][mem[e].ver] + Revalidate
  <2>1. CASE Unchecked(e)
    BY <1>3, <1>4, <1>5, <2>1 DEF Unchecked
  <2>2. CASE seen[f][mem[e].ver] = now
    BY <1>3, <1>5, <2>2
  <2> QED BY <1>6, <2>1, <2>2
<1> DEFINE c == Checked(Cache, e)
           s == Touch(c, e)
<1>8. /\ Good(c, req) /\ c.table = Cache.table
      /\ \A x \in Entries : x # e => c.mem[x] = Cache.mem[x]
  BY <1>2, <1>3, CheckedFields
<1>9. /\ c.mem[e].st = "live" /\ c.mem[e].file = f /\ c.mem[e].ver = mem[e].ver
      /\ Revalidate = 0 \/ c.mem[e].checked <= seen[f][mem[e].ver]
  <2>1. CASE c = Cache
    BY <1>2, <1>4, <2>1
  <2>2. CASE c # Cache
    <3>1. seen[f][mem[e].ver] = now
      BY <1>6, <2>2 DEF Checked
    <3>2. c.mem[e] = [mem[e] EXCEPT !.checked = now]
      BY <1>2, <1>3, <2>2, CheckedFields
    <3> HIDE DEF c
    <3>3. /\ c.mem[e].st = mem[e].st /\ c.mem[e].file = mem[e].file
          /\ c.mem[e].ver = mem[e].ver /\ c.mem[e].checked = now
      BY <1>4, <3>2 DEF EntryType
    <3> QED BY <1>2, <1>3, <3>1, <3>3
  <2> QED BY <2>1, <2>2
<1> HIDE DEF c
<1>10. Good(s, req) /\ s.mem = c.mem
  BY <1>2, <1>3, <1>8, TouchIsGood
<1> HIDE DEF s
<1>11. ASSUME NEW x \in Entries, s.mem[x].st = "live"
       PROVE  /\ s.mem[x].file \in Files /\ s.mem[x].ver \in 1..MaxVersion
              /\ s.mem[x].dropped \/ Revalidate = 0
                   \/ s.mem[x].checked <= seen[s.mem[x].file][s.mem[x].ver]
  <2>1. CASE x = e
    BY <1>4, <1>9, <1>10, <2>1
  <2>2. CASE x # e
    <3>1. s.mem[x] = Cache.mem[x]
      BY <1>8, <1>10, <2>2
    <3> QED BY <1>3, <1>11, <3>1 DEF Timely
  <2> QED BY <2>1, <2>2
<1>12. ASSUME NEW p \in Reqs, req[p].e # None
       PROVE  req[p].came <= seen[s.mem[req[p].e].file][s.mem[req[p].e].ver] + Revalidate
  <2>1. req[p].e \in Entries
    BY <1>3, <1>12, ReqFields
  <2>2. /\ s.mem[req[p].e].file = Cache.mem[req[p].e].file
        /\ s.mem[req[p].e].ver = Cache.mem[req[p].e].ver
    BY <1>2, <1>8, <1>9, <1>10, <2>1
  <2> QED BY <1>3, <1>12, <2>2 DEF Timely
<1>13. Timely(s, req, seen)
  BY <1>11, <1>12 DEF Timely
<1>14. Timely(s, Retired(req, r), seen)
  BY <1>3, <1>13, RetiredIsTimely
<1>15. s \in CacheType /\ s.mem[e].st = "live" /\ s.mem[e].file = f /\ s.mem[e].ver = mem[e].ver
  BY <1>9, <1>10 DEF Good
<1> QED BY <1>1, <1>2, <1>3, <1>7, <1>14, <1>15, ReplyTimely DEF s, c

\* What is stale is stamped, and dropped.
LEMMA ServeStaleTimely ==
    ASSUME TimedInv, Inv', NEW r \in Reqs, NEW f \in Files, ServeStale(r, f)
    PROVE  Timely(Cache', req', seen')
<1>1. PICK e \in Lookup(f) : \/ disk[f].here /\ Open(r, Drop(Checked(Cache, e), e), f)
                             \/ Ends(r, Drop(Checked(Cache, e), e))
  BY DEF ServeStale
<1>2. /\ e \in ToSet(Cache.table) /\ e \in Entries /\ Inv
      /\ Cache \in CacheType /\ req \in [Reqs -> ReqType] /\ UNCHANGED outside
  BY LookupFields DEF TimedInv, Inv, ServeStale
<1> DEFINE c == Checked(Cache, e)
           s == Drop(c, e)
<1>3. /\ Good(c, req) /\ c.table = Cache.table
      /\ c = Cache \/ c.mem[e] = [Cache.mem[e] EXCEPT !.checked = now]
      /\ \A x \in Entries : x # e => c.mem[x] = Cache.mem[x]
  BY <1>2, CheckedFields
<1>4. Cache.mem[e] \in EntryType
  BY <1>2, CacheFields
<1> HIDE DEF c
<1>5. /\ c.mem[e].st = Cache.mem[e].st /\ c.mem[e].file = Cache.mem[e].file
      /\ c.mem[e].ver = Cache.mem[e].ver
  <2>1. CASE c = Cache
    BY <2>1
  <2>2. CASE c.mem[e] = [Cache.mem[e] EXCEPT !.checked = now]
    BY <1>4, <2>2 DEF EntryType
  <2> QED BY <1>3, <2>1, <2>2
<1>6. Kept(Cache, s)
  BY <1>2, <1>3, <1>5, DropKept DEF Good, Charged
<1>7. Good(s, req)
  BY <1>2, <1>3, DropIsGood
<1> HIDE DEF s
<1>8. s \in CacheType /\ Held(s, req)
  BY <1>7 DEF Good
<1> QED BY <1>1, <1>2, <1>6, <1>8, OpenTimely, EndsTimely DEF s, c

\* Every cache is kept by what does not touch it.
LEMMA CacheKept ==
    ASSUME Inv
    PROVE  Kept(Cache, Cache) /\ Cache \in CacheType /\ Held(Cache, req) /\ Cache.mem = mem
BY CacheFields DEF Kept, Inv, Good, Cache

\* A miss.
LEMMA ServeMissTimely ==
    ASSUME TimedInv, Inv', NEW r \in Reqs, NEW f \in Files, ServeMiss(r, f) \/ ServeGone(r, f)
    PROVE  Timely(Cache', req', seen')
<1>1. Kept(Cache, Cache) /\ Cache \in CacheType /\ Held(Cache, req)
  BY CacheKept DEF TimedInv
<1>2. CASE ServeMiss(r, f)
  BY <1>1, <1>2, OpenTimely DEF ServeMiss
<1>3. CASE ServeGone(r, f)
  BY <1>1, <1>3, EndsTimely DEF ServeGone
<1> QED BY <1>2, <1>3

\* A load that goes on to its next part is of the version it was of.
LEMMA NextPartTimely ==
    ASSUME TimedInv, Inv', NEW r \in Reqs, NEW c, req' = [req EXCEPT ![r].pc = c],
           Kept(Cache, Cache'), seen' = seen
    PROVE  Timely(Cache', req', seen')
<1>1. req \in [Reqs -> ReqType] /\ Timely(Cache, req, seen) /\ req' \in [Reqs -> ReqType]
      /\ Held(Cache', req')
  BY DEF TimedInv, Inv, Good
<1>2. \A p \in Reqs : req'[p].e = req[p].e /\ req'[p].came = req[p].came
  BY <1>1 DEF ReqType
<1>3. Timely(Cache, req', seen)
  BY <1>1, <1>2 DEF Timely
<1> QED BY <1>1, <1>3, KeptIsTimely

\* The parts of a load.
LEMMA LoadPartTimely ==
    ASSUME TimedInv, Inv', NEW r \in Reqs, LoadPlain(r) \/ LoadTwin(r)
    PROVE  Timely(Cache', req', seen')
<1>1. Kept(Cache, Cache) /\ Cache \in CacheType /\ Cache.mem = mem /\ Cache'.mem = mem'
  BY CacheKept DEF TimedInv, Cache
<1>2. seen' = seen
  BY DEF LoadPlain, LoadTwin, outside
<1>3. CASE LoadPlain(r)
  <2>1. Cache' = Cache /\ req' = [req EXCEPT ![r].pc = "twin"]
    BY <1>3 DEF LoadPlain, Cache
  <2> QED BY <1>1, <1>2, <2>1, NextPartTimely
<1>4. CASE LoadTwin(r)
  <2> DEFINE e == req[r].e
  <2>1. e \in Entries
    BY <1>4, LoadingFields DEF LoadTwin, Loading, TimedInv
  <2>2. PICK t : mem' = [mem EXCEPT ![e].twin = t]
    BY <1>4 DEF LoadTwin
  <2>3. mem \in [Entries -> EntryType] /\ mem[e] \in EntryType
    BY <1>1, <2>1, CacheFields
  <2>4. /\ mem'[e].st = mem[e].st /\ mem'[e].ver = mem[e].ver /\ mem'[e].file = mem[e].file
        /\ mem'[e].dropped = mem[e].dropped /\ mem'[e].checked = mem[e].checked
        /\ \A x \in Entries : x # e => mem'[x] = mem[x]
    BY <2>1, <2>2, <2>3 DEF EntryType
  <2> HIDE DEF e
  <2>5. Kept(Cache, Cache')
    BY <1>1, <2>4 DEF Kept
  <2> QED BY <1>2, <1>4, <2>5, NextPartTimely DEF LoadTwin
<1> QED BY <1>3, <1>4

\* A load that fails frees its own entry.
LEMMA LoadFailsTimely ==
    ASSUME TimedInv, Inv', NEW r \in Reqs, LoadFails(r)
    PROVE  Timely(Cache', req', seen')
<1> DEFINE e == req[r].e
           s == EntryFree(Cache, e)
<1>1. Kept(Cache, Cache) /\ Cache \in CacheType
  BY CacheKept DEF TimedInv
<1>2. e \in Entries
  BY LoadingFields DEF LoadFails, Loading, TimedInv
<1>3. Free \in EntryType /\ Free.st = "free"
  BY DEF Free, EntryType
<1> HIDE DEF e
<1>4. s \in CacheType /\ s.mem[e] = Free /\ \A x \in Entries : x # e => s.mem[x] = Cache.mem[x]
  BY <1>1, <1>2, <1>3, SetEntry DEF EntryFree
<1> HIDE DEF s
<1>5. Kept(Cache, s)
  BY <1>1, <1>3, <1>4 DEF Kept
<1> QED BY <1>4, <1>5, EndsTimely DEF LoadFails, s, e

\* A load that ends, however late, sends what was there when it began.
LEMMA LoadEndTimely ==
    ASSUME TimedInv, Inv', NEW r \in Reqs, LoadEnd(r)
    PROVE  Timely(Cache', req', seen')
<1> DEFINE e == req[r].e
           n == BytesOf(Cache, e)
           q0 == Retired(req, r)
<1>1. /\ req[r].pc \in Loading /\ req[r].pc # "send" /\ UNCHANGED outside
      /\ Inv /\ Timely(Cache, req, seen)
  BY DEF LoadEnd, Loading, TimedInv
<1>2. /\ req \in [Reqs -> ReqType] /\ Good(Cache, req) /\ Cache \in CacheType
      /\ e \in Entries /\ e # None /\ e \notin ToSet(Cache.table)
      /\ Cache.mem = mem /\ mem[e].st = "live" /\ ~ mem[e].dropped
      /\ req[r].came \in Nat
      /\ \A p \in Reqs : p # r => req[p].e # e
  BY <1>1, LoadingFields
<1>3. q0 \in [Reqs -> ReqType] /\ \A p \in Reqs : q0[p].e # e
  BY <1>2, RetiredFields
<1>4. n \in Nat
  BY <1>2, CacheFields
<1>5. req[r].came <= seen[mem[e].file][mem[e].ver] + Revalidate
  BY <1>1, <1>2 DEF Timely
<1>6. Good(Cache, q0) /\ Timely(Cache, q0, seen)
  BY <1>1, <1>2, RetireIsGood, RetiredIsTimely
<1>7. CASE n <= Budget
  <2> DEFINE m == MakeRoom(Cache, n)
             u == Insert(m, e)
  <2>1. Reply(r, u, e, req[r].came)
    BY <1>7 DEF LoadEnd
  <2> HIDE DEF e, n, q0
  <2>2. /\ Good(m, q0) /\ Kept(Cache, m)
        /\ ToSet(m.table) \subseteq ToSet(Cache.table)
        /\ \A x \in Entries : x \notin ToSet(Cache.table) => m.mem[x] = Cache.mem[x]
    BY <1>3, <1>4, <1>6, MakeRoomIsGood
  <2> HIDE DEF m
  <2>3. m.mem[e] = mem[e] /\ e \notin ToSet(m.table)
    BY <1>2, <2>2
  <2>4. Good(u, q0) /\ u.mem = m.mem
    BY <1>2, <1>3, <2>2, <2>3, InsertIsGood
  <2> HIDE DEF u
  <2>5. u \in CacheType /\ Held(u, q0) /\ Kept(Cache, u)
    BY <2>2, <2>4 DEF Good, Kept
  <2>6. Timely(u, q0, seen)
    BY <1>3, <1>6, <2>5, KeptIsTimely
  <2> QED BY <1>1, <1>2, <1>5, <2>1, <2>3, <2>4, <2>5, <2>6, ReplyTimely DEF q0
<1>8. CASE ~ (n <= Budget)
  <2> DEFINE u == [Cache EXCEPT !.mem[e].dropped = TRUE]
  <2>1. Reply(r, u, e, req[r].came)
    BY <1>8 DEF LoadEnd
  <2> HIDE DEF e, n, q0
  <2>2. /\ u \in CacheType
        /\ u.mem[e] = [Cache.mem[e] EXCEPT !.dropped = TRUE]
        /\ \A x \in Entries : x # e => u.mem[x] = Cache.mem[x]
    BY <1>2, SetDropped, Zenon
  <2>3. Good(u, q0)
    BY <1>2, <1>3, <1>6, DroppedIsGood
  <2>4. mem[e] \in EntryType
    BY <1>2, CacheFields
  <2> HIDE DEF u
  <2>5. u.mem[e].st = "live" /\ u.mem[e].file = mem[e].file /\ u.mem[e].ver = mem[e].ver
    BY <1>2, <2>2, <2>4 DEF EntryType
  <2>6. u.mem[e].dropped
    BY <1>2, <2>2, <2>4 DEF EntryType
  <2>7. Kept(Cache, u)
    BY <1>1, <1>2, <2>2, <2>5, <2>6, CacheKept DEF Kept
  <2>8. Timely(u, q0, seen)
    BY <1>3, <1>6, <2>3, <2>7, KeptIsTimely DEF Good
  <2> QED BY <1>1, <1>2, <1>5, <2>1, <2>2, <2>5, <2>8, ReplyTimely DEF q0
<1> QED BY <1>7, <1>8

\* A release changes a count, or frees.
LEMMA SentTimely ==
    ASSUME TimedInv, Inv', NEW r \in Reqs, Sent(r)
    PROVE  Timely(Cache', req', seen')
<1> DEFINE e == req[r].e
           s == Release(Cache, e)
           n == Cache.mem[e].refs - 1
<1>1. /\ Inv /\ Kept(Cache, Cache) /\ Cache \in CacheType /\ Held(Cache, req)
      /\ req \in [Reqs -> ReqType] /\ req[r].pc = "send" /\ Good(Cache, req)
  BY CacheKept DEF TimedInv, Inv, Sent
<1>2. e \in Entries
  BY <1>1, ReqFields DEF Held
<1>3. s \in CacheType
  BY <1>1, ReleaseIsGood DEF Good
<1>4. Ends(r, s) /\ UNCHANGED outside
  BY DEF Sent
<1>5. Cache.mem[e] \in EntryType
  BY <1>1, <1>2, CacheFields
<1>6. \A x \in Entries : x # e => s.mem[x] = Cache.mem[x]
  BY <1>1, <1>2 DEF Release, EntryFree, CacheType
<1>7. s.mem[e] = Free \/ s.mem[e] = [Cache.mem[e] EXCEPT !.refs = n]
  BY <1>1, <1>2 DEF Release, EntryFree, CacheType
<1> HIDE DEF s, e, n
<1>8. Kept(Cache, s)
  <2>1. CASE s.mem[e] = Free
    <3>1. s.mem[e].st = "free"
      BY <2>1 DEF Free
    <3> QED BY <1>1, <1>6, <3>1 DEF Kept
  <2>2. CASE s.mem[e] = [Cache.mem[e] EXCEPT !.refs = n]
    <3>1. /\ s.mem[e].st = Cache.mem[e].st /\ s.mem[e].ver = Cache.mem[e].ver
          /\ s.mem[e].file = Cache.mem[e].file /\ s.mem[e].dropped = Cache.mem[e].dropped
          /\ s.mem[e].checked = Cache.mem[e].checked
      BY <1>5, <2>2 DEF EntryType
    <3> QED BY <1>1, <1>6, <3>1 DEF Kept
  <2> QED BY <1>7, <2>1, <2>2
<1> QED BY <1>3, <1>4, <1>8, EndsTimely

\* Time goes on: a version was last seen no earlier than it was.
LEMMA LaterIsTimely ==
    ASSUME TimedInv, seen' \in SeenType, Cache' = Cache, req' = req,
           \A f \in Files, v \in 1..MaxVersion : seen[f][v] <= seen'[f][v]
    PROVE  Timely(Cache', req', seen')
<1>0. /\ Timely(Cache, req, seen) /\ Held(Cache, req) /\ Cache \in CacheType
      /\ req \in [Reqs -> ReqType] /\ seen \in SeenType /\ Revalidate \in Nat
  BY StaticAssumption DEF TimedInv, Times, Inv, Good
<1>1. \A f \in Files, v \in 1..MaxVersion : seen[f][v] \in Nat /\ seen'[f][v] \in Nat
  BY <1>0 DEF SeenType
<1>2. \A x \in Entries : Cache.mem[x] \in EntryType
  BY <1>0, CacheFields
<1>3. \A x \in Entries : Cache.mem[x].checked \in Nat
  BY <1>2 DEF EntryType
<1>4. ASSUME NEW x \in Entries, Cache.mem[x].st = "live"
      PROVE  /\ Cache.mem[x].file \in Files /\ Cache.mem[x].ver \in 1..MaxVersion
             /\ Cache.mem[x].dropped \/ Revalidate = 0
                  \/ Cache.mem[x].checked <= seen'[Cache.mem[x].file][Cache.mem[x].ver]
  <2>1. /\ Cache.mem[x].file \in Files /\ Cache.mem[x].ver \in 1..MaxVersion
        /\ Cache.mem[x].dropped \/ Revalidate = 0
             \/ Cache.mem[x].checked <= seen[Cache.mem[x].file][Cache.mem[x].ver]
    BY <1>0, <1>4 DEF Timely
  <2>2. CASE Cache.mem[x].checked <= seen[Cache.mem[x].file][Cache.mem[x].ver]
    <3>1. Cache.mem[x].checked <= seen'[Cache.mem[x].file][Cache.mem[x].ver]
      BY <1>1, <1>3, <2>1, <2>2
    <3> QED BY <2>1, <3>1
  <2> QED BY <2>1, <2>2
<1>5. ASSUME NEW r \in Reqs, req[r].e # None
      PROVE  req[r].came <= seen'[Cache.mem[req[r].e].file][Cache.mem[req[r].e].ver] + Revalidate
  <2>1. req[r].e \in Entries /\ Cache.mem[req[r].e].st = "live" /\ req[r].came \in Nat
    BY <1>0, <1>5, ReqFields DEF Held
  <2>2. Cache.mem[req[r].e].file \in Files /\ Cache.mem[req[r].e].ver \in 1..MaxVersion
    BY <1>4, <2>1
  <2>3. req[r].came <= seen[Cache.mem[req[r].e].file][Cache.mem[req[r].e].ver] + Revalidate
    BY <1>0, <1>5 DEF Timely
  <2> QED BY <1>0, <1>1, <2>1, <2>2, <2>3
<1> QED BY <1>4, <1>5 DEF Timely

\* The steps of the server leave the clock and the disk alone.
LEMMA OutsideTimes ==
    ASSUME Times, UNCHANGED outside
    PROVE  Times'
BY DEF Times, outside

\* What happens in the directory, and the clock.
LEMMA OutsideTimely ==
    ASSUME TimedInv,
           Tick \/ \E f \in Files : Replace(f) \/ ReplaceTwin(f) \/ Unlink(f)
    PROVE  Times' /\ Timely(Cache', req', seen')
<1>0. /\ disk \in [Files -> FileType] /\ now \in Nat /\ seen \in SeenType
      /\ \A f \in Files, v \in 1..MaxVersion : seen[f][v] <= now
      /\ \A f \in Files : disk[f].ver \in 1..MaxVersion
      /\ \A f \in Files : disk[f].here => seen[f][disk[f].ver] = now
      /\ MaxVersion \in Nat
  BY StaticAssumption DEF TimedInv, Times, Inv
<1>1. \A f \in Files, v \in 1..MaxVersion : seen[f][v] \in Nat
  BY <1>0 DEF SeenType
<1>2. Cache' = Cache /\ req' = req
  BY DEF Tick, Replace, ReplaceTwin, Unlink, Cache
<1>3. CASE Tick
  <2>1. /\ now' = now + 1 /\ disk' = disk
        /\ seen' = [f \in Files |-> [v \in 1..MaxVersion |->
                      IF OnDisk(f, v) THEN now + 1 ELSE seen[f][v]]]
    BY <1>3 DEF Tick
  <2>2. \A f \in Files, v \in 1..MaxVersion :
          seen'[f][v] = IF OnDisk(f, v) THEN now + 1 ELSE seen[f][v]
    BY <2>1
  <2>3. \A f \in Files, v \in 1..MaxVersion : (IF OnDisk(f, v) THEN now + 1 ELSE seen[f][v]) \in Nat
    BY <1>0, <1>1
  <2>4. seen' \in SeenType
    BY <2>1, <2>3 DEF SeenType
  <2>5. \A f \in Files, v \in 1..MaxVersion : seen[f][v] <= seen'[f][v] /\ seen'[f][v] <= now'
    BY <1>0, <1>1, <2>1, <2>2
  <2>6. \A f \in Files : disk[f].here => seen'[f][disk[f].ver] = now + 1
    BY <1>0, <2>2 DEF OnDisk
  <2>7. Times'
    BY <1>0, <2>1, <2>4, <2>5, <2>6 DEF Times
  <2> QED BY <1>2, <2>4, <2>5, <2>7, LaterIsTimely
<1>4. ASSUME NEW f \in Files, Replace(f)
      PROVE  Times' /\ Timely(Cache', req', seen')
  <2> DEFINE k == disk[f].ver + 1
  <2>1. PICK n \in Sizes :
          disk' = [disk EXCEPT ![f].here = TRUE, ![f].ver = @ + 1, ![f].size = n]
    BY <1>4 DEF Replace
  <2>2. k \in 1..MaxVersion /\ now' = now
    <3>1. disk[f].ver < MaxVersion /\ now' = now
      BY <1>4 DEF Replace
    <3>2. disk[f].ver \in 1..MaxVersion /\ MaxVersion \in Nat
      BY <1>0
    <3> QED BY <3>1, <3>2
  <2>3. disk[f] \in FileType
    BY <1>0
  <2>4. disk'[f].ver = k /\ \A g \in Files : g # f => disk'[g] = disk[g]
    BY <1>0, <2>1, <2>3 DEF FileType
  <2>5. seen' = [seen EXCEPT ![f][k] = now]
    BY <1>4 DEF Replace
  <2> HIDE DEF k
  <2>6. seen' \in SeenType
    BY <1>0, <2>2, <2>5 DEF SeenType
  <2>7. /\ seen'[f][k] = now
        /\ \A v \in 1..MaxVersion : v # k => seen'[f][v] = seen[f][v]
        /\ \A g \in Files : g # f => seen'[g] = seen[g]
    BY <1>0, <2>2, <2>5 DEF SeenType
  <2>8. \A g \in Files, v \in 1..MaxVersion :
          seen'[g][v] = IF g = f /\ v = k THEN now ELSE seen[g][v]
    BY <2>7
  <2>9. \A g \in Files, v \in 1..MaxVersion : seen[g][v] <= seen'[g][v] /\ seen'[g][v] <= now
    BY <1>0, <1>1, <2>8
  <2>10. \A g \in Files : disk'[g].ver \in 1..MaxVersion
    BY <1>0, <2>2, <2>4
  <2>11. ASSUME NEW g \in Files, disk'[g].here PROVE seen'[g][disk'[g].ver] = now
    <3>1. CASE g = f
      BY <2>4, <2>7, <3>1
    <3>2. CASE g # f
      BY <1>0, <2>4, <2>7, <2>11, <3>2
    <3> QED BY <3>1, <3>2
  <2>12. Times'
    BY <1>0, <2>2, <2>6, <2>9, <2>10, <2>11 DEF Times
  <2> QED BY <1>2, <2>6, <2>9, <2>12, LaterIsTimely
<1>5. ASSUME NEW f \in Files, ReplaceTwin(f) \/ Unlink(f)
      PROVE  Times' /\ Timely(Cache', req', seen')
  <2>1. now' = now /\ seen' = seen
    BY <1>5 DEF ReplaceTwin, Unlink
  <2>2. disk[f] \in FileType
    BY <1>0
  <2>3. \A g \in Files : g # f => disk'[g] = disk[g]
    BY <1>0, <1>5 DEF ReplaceTwin, Unlink
  <2>4. disk'[f].ver = disk[f].ver
    BY <1>0, <1>5, <2>2 DEF ReplaceTwin, Unlink, FileType
  <2>5. disk'[f].here => disk[f].here
    <3>1. CASE ReplaceTwin(f)
      BY <3>1 DEF ReplaceTwin
    <3>2. CASE Unlink(f)
      <4>1. disk'[f].here = FALSE
        BY <1>0, <2>2, <3>2 DEF Unlink, FileType
      <4> QED BY <4>1
    <3> QED BY <1>5, <3>1, <3>2
  <2>6. \A g \in Files : disk'[g].ver = disk[g].ver /\ (disk'[g].here => disk[g].here)
    BY <2>3, <2>4, <2>5
  <2>7. Times'
    BY <1>0, <2>1, <2>6 DEF Times
  <2>8. \A g \in Files, v \in 1..MaxVersion : seen[g][v] <= seen'[g][v]
    BY <1>1, <2>1
  <2> QED BY <1>0, <1>2, <2>1, <2>7, <2>8, LaterIsTimely
<1> QED BY <1>3, <1>4, <1>5

\* Nothing is served yet.
LEMMA InitTimed == Init => TimedInv
<1> SUFFICES ASSUME Init PROVE TimedInv
  OBVIOUS
<1>1. Times
  <2>1. seen \in SeenType /\ \A f \in Files, v \in 1..MaxVersion : seen[f][v] = 0
    BY DEF Init, SeenType
  <2>2. 1 \in 1..MaxVersion
    BY StaticAssumption
  <2>3. \A f \in Files : disk[f].ver = 1
    BY DEF Init
  <2>4. now = 0
    BY DEF Init
  <2> QED BY <2>1, <2>2, <2>3, <2>4 DEF Times
<1>2. Timely(Cache, req, seen)
  <2>1. \A e \in Entries : Cache.mem[e].st = "free"
    BY DEF Init, Cache, Free
  <2>2. \A r \in Reqs : req[r].e = None
    BY DEF Init, Idle
  <2> QED BY <2>1, <2>2 DEF Timely
<1> QED BY <1>1, <1>2, InitInv DEF TimedInv

\* Every step keeps to the times.
LEMMA NextTimed == TimedInv /\ [Next]_vars => TimedInv'
<1> SUFFICES ASSUME TimedInv, [Next]_vars PROVE TimedInv'
  OBVIOUS
<1>0. Inv' /\ Inv /\ Times
  BY NextInv DEF TimedInv
<1>1. CASE UNCHANGED vars
  <2>1. Cache' = Cache /\ req' = req /\ seen' = seen /\ UNCHANGED outside
    BY <1>1 DEF vars, outside, Cache
  <2> QED BY <1>0, <2>1, OutsideTimes DEF TimedInv
<1>2. ASSUME NEW r \in Reqs, Serve(r) \/ Load(r) \/ Sent(r) PROVE TimedInv'
  <2>1. UNCHANGED outside
    BY <1>2 DEF Serve, ServeHit, ServeStale, ServeMiss, ServeGone,
                Load, LoadPlain, LoadFails, LoadTwin, LoadEnd, Sent
  <2>2. Timely(Cache', req', seen')
    <3>1. CASE Serve(r)
      BY <1>0, <3>1, ServeHitTimely, ServeStaleTimely, ServeMissTimely DEF Serve
    <3>2. CASE Load(r)
      BY <1>0, <3>2, LoadPartTimely, LoadFailsTimely, LoadEndTimely DEF Load
    <3>3. CASE Sent(r)
      BY <1>0, <3>3, SentTimely
    <3> QED BY <1>2, <3>1, <3>2, <3>3
  <2> QED BY <1>0, <2>1, <2>2, OutsideTimes DEF TimedInv
<1>3. CASE Tick \/ \E f \in Files : Replace(f) \/ ReplaceTwin(f) \/ Unlink(f)
  BY <1>0, <1>3, OutsideTimely DEF TimedInv
<1> QED BY <1>1, <1>2, <1>3 DEF Next

(* Whatever a request sends of a file was on the disk revalidate_ms before *)
(* the request came, or later: an entry is stamped with the time its load  *)
(* opened the file, or with that of a check that found it the same, a hit  *)
(* inside the time leaves the stamp, and what a check finds stale is       *)
(* dropped before anybody finds it again.                                  *)
THEOREM ServesInTime == Spec => []ServedInTime
<1>1. TimedInv => ServedInTime
  <2> SUFFICES ASSUME TimedInv, NEW r \in Reqs, req[r].pc = "send"
               PROVE  req[r].came <= seen[mem[req[r].e].file][mem[req[r].e].ver] + Revalidate
    BY DEF ServedInTime
  <2>1. Cache.mem = mem /\ Held(Cache, req) /\ Timely(Cache, req, seen)
    BY DEF Cache, TimedInv, Inv, Good
  <2>2. req[r].e # None
    BY <2>1 DEF Held
  <2> QED BY <2>1, <2>2 DEF Timely
<1> QED BY <1>1, InitTimed, NextTimed, PTL DEF Spec
=============================================================================
