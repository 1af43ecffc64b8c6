----------------------------- MODULE CertsProofs -----------------------------
(***************************************************************************)
(* Proofs about module Certs, for every number of threads, tables,         *)
(* contexts and hosts.                                                     *)
(***************************************************************************)
EXTENDS Certs, FiniteSetTheorems, TLAPS

-----------------------------------------------------------------------------
(* The inductive invariant.                                                *)

InReload == {"locked", "open", "load", "swap", "drop2", "drop", "unlock"}

(* Which pointers a process has, and whether it has the mutex, by where it *)
(* is; "open" and "load" are met in the first load too.                    *)
PlaceInv ==
    \A w \in Procs :
        /\ mine[w] # NoTable <=>
             \/ pc[w] \in {"new", "hello", "shaken", "out", "swap", "drop2", "drop"}
             \/ pc[w] \in {"open", "load"} /\ reload = w
        /\ fresh[w] # NoTable <=> pc[w] \in {"load", "swap", "publish"}
        /\ reload = w => pc[w] \in InReload
        /\ pc[w] \in InReload \ {"open", "load"} => reload = w

(* The table a reload replaces is the one it read: nobody else writes the  *)
(* pointer while it has the mutex.                                         *)
OldInv ==
    \A w \in Procs :
        /\ pc[w] = "locked" => table # NoTable
        /\ reload = w /\ pc[w] \in {"open", "load", "swap"} => mine[w] = table

(* The first load is alone.                                                *)
FirstInv ==
    \A w \in Procs :
        pc[w] \in {"open", "load", "publish"} /\ reload # w =>
            /\ table = NoTable
            /\ \A q \in Procs : q # w => pc[q] = "idle"

(* A table that is being filled is known to its loader only.               *)
FreshInv ==
    \A w \in Procs : fresh[w] # NoTable =>
        /\ table # fresh[w]
        /\ \A q \in Procs : mine[q] # fresh[w] /\ (fresh[q] = fresh[w] => q = w)

IInv ==
    /\ TablesOK
    /\ RefsCountOwners
    /\ NoTableFreedInUse
    /\ NothingLeaks
    /\ PlaceInv
    /\ OldInv
    /\ FirstInv
    /\ FreshInv

(* OpenSSL's counts: what a load has not come to yet is blank, and only a  *)
(* handshake between SSL_new and SSL_free has an SSL.                      *)
CtxInv ==
    /\ IsFiniteSet(live)
    /\ ctx \in [Ctxs -> Nat]
    /\ ContextsCounted
    /\ \A w \in Procs : ssl[w] # NoCtx => pc[w] \in {"hello", "shaken"}
    /\ \A w \in Procs : fresh[w] # NoTable =>
         \A h \in todo[w] : hosts[fresh[w]][h] = NoCtx

(* The host of table t that answers for unmatched names: `default`, or the *)
(* one that answered for them in old.                                      *)
Answers(t, old, h) ==
    /\ h \in Served(t)
    /\ hosts[t][h] = fallback[t]
    /\ h = Default \/ hosts[old][h] = fallback[old]

(* What a reload has loaded so far, against the table it will replace.     *)
Keeps(w) ==
    /\ pc[w] \in {"load", "swap"} =>
         Served(mine[w]) \ (gone[w] \cup todo[w]) \subseteq Served(fresh[w])
    /\ pc[w] = "load" => fallback[fresh[w]] = hosts[fresh[w]][Default]
    /\ pc[w] = "swap" => /\ todo[w] = {}
                         /\ \E h \in Hosts : Answers(fresh[w], mine[w], h)

KeepInv == \A w \in Procs : reload = w => Keeps(w)

-----------------------------------------------------------------------------
(* Counting.                                                               *)

\* A set of processes is finite, and has no members exactly when it counts 0.
LEMMA Counting ==
    ASSUME NEW S \in SUBSET Procs
    PROVE  /\ IsFiniteSet(S)
           /\ Cardinality(S) \in Nat
           /\ Cardinality(S) = 0 <=> S = {}
BY CertsAssumption, FS_Subset, FS_CardinalityType, FS_EmptySet

\* One process more.
LEMMA OneMore ==
    ASSUME NEW S \in SUBSET Procs, NEW w \in Procs, w \notin S
    PROVE  /\ Cardinality(S \cup {w}) = Cardinality(S) + 1
           /\ S \cup {w} \in SUBSET Procs
BY Counting, FS_AddElement

\* One process less.
LEMMA OneLess ==
    ASSUME NEW S \in SUBSET Procs, NEW w \in S
    PROVE  /\ Cardinality(S \ {w}) = Cardinality(S) - 1
           /\ S \ {w} \in SUBSET Procs
BY Counting, FS_RemoveElement

\* The three kinds of owners of a table are sets of processes.
LEMMA OwnerSets ==
    ASSUME NEW t
    PROVE  /\ Holding(t) \in SUBSET Procs
           /\ Filling(t) \in SUBSET Procs
           /\ Owing(t) \in SUBSET Procs
           /\ Holding(t)' \in SUBSET Procs
           /\ Filling(t)' \in SUBSET Procs
           /\ Owing(t)' \in SUBSET Procs
BY DEF Holding, Filling, Owing

\* A count of 1 means one owner.
LEMMA LastOwner ==
    ASSUME RefsCountOwners, NEW t \in Tables, refs[t] = 1
    PROVE  /\ table = t => Holding(t) = {} /\ Filling(t) = {} /\ Owing(t) = {}
           /\ Holding(t) # {} =>
                table # t /\ Filling(t) = {} /\ Owing(t) = {} /\ Cardinality(Holding(t)) = 1
           /\ Filling(t) # {} =>
                table # t /\ Holding(t) = {} /\ Owing(t) = {} /\ Cardinality(Filling(t)) = 1
<1>1. /\ Cardinality(Holding(t)) \in Nat /\ (Cardinality(Holding(t)) = 0 <=> Holding(t) = {})
      /\ Cardinality(Filling(t)) \in Nat /\ (Cardinality(Filling(t)) = 0 <=> Filling(t) = {})
      /\ Cardinality(Owing(t)) \in Nat /\ (Cardinality(Owing(t)) = 0 <=> Owing(t) = {})
  BY OwnerSets, Counting
<1>2. 1 = (IF table = t THEN 1 ELSE 0) + Cardinality(Holding(t))
            + Cardinality(Filling(t)) + Cardinality(Owing(t))
  BY DEF RefsCountOwners
<1> QED
  BY <1>1, <1>2

\* A held table has a count.
LEMMA HeldCounts ==
    ASSUME RefsCountOwners, NEW t \in Tables, Held(t)
    PROVE  refs[t] > 0
<1>1. /\ Cardinality(Holding(t)) \in Nat /\ (Cardinality(Holding(t)) = 0 <=> Holding(t) = {})
      /\ Cardinality(Filling(t)) \in Nat /\ (Cardinality(Filling(t)) = 0 <=> Filling(t) = {})
      /\ Cardinality(Owing(t)) \in Nat
  BY OwnerSets, Counting
<1>2. table = t \/ Holding(t) # {} \/ Filling(t) # {}
  BY DEF Held, Holding, Filling
<1> QED
  BY <1>1, <1>2 DEF RefsCountOwners

-----------------------------------------------------------------------------
(* Steps.                                                                  *)

\* A step that touches neither the tables' pointers nor their counts keeps
\* the three invariants about them.
LEMMA Quiet ==
    ASSUME IInv, UNCHANGED <<table, mine, fresh, refs, live, dying>>,
           \A w \in Procs : pc'[w] = "drop2" <=> pc[w] = "drop2"
    PROVE  RefsCountOwners' /\ NoTableFreedInUse' /\ NothingLeaks' /\ FreshInv'
<1>1. ASSUME NEW t \in Tables
      PROVE  /\ Holding(t)' = Holding(t)
             /\ Filling(t)' = Filling(t)
             /\ Owing(t)' = Owing(t)
  BY DEF Holding, Filling, Owing
<1>2. RefsCountOwners'
  BY <1>1 DEF IInv, RefsCountOwners
<1>3. NoTableFreedInUse'
  BY DEF IInv, NoTableFreedInUse, Held
<1>4. FreshInv'
  BY DEF IInv, FreshInv
<1>5. NothingLeaks'
  BY DEF IInv, NothingLeaks
<1> QED
  BY <1>2, <1>3, <1>4, <1>5

\* ioxd__certs_acquire adds one holder of the table that serves.
LEMMA Acquiring ==
    ASSUME IInv, NEW w \in Procs, table # NoTable, mine[w] = NoTable, Acquire(w),
           UNCHANGED <<table, fresh, live, dying>>,
           pc[w] # "drop2", pc'[w] # "drop2",
           \A q \in Procs : q # w => pc'[q] = pc[q]
    PROVE  RefsCountOwners' /\ NoTableFreedInUse' /\ NothingLeaks' /\ FreshInv'
<1>1. table \in Tables /\ table' = table /\ mine' = [mine EXCEPT ![w] = table]
      /\ mine'[w] = table /\ \A q \in Procs : q # w => mine'[q] = mine[q]
  BY DEF IInv, TablesOK, Acquire
<1>2. ASSUME NEW t \in Tables
      PROVE  refs'[t] = (IF table' = t THEN 1 ELSE 0) + Cardinality(Holding(t)')
                         + Cardinality(Filling(t)') + Cardinality(Owing(t)')
  <2>1. Filling(t)' = Filling(t) /\ Owing(t)' = Owing(t)
    BY <1>1 DEF Filling, Owing
  <2>2. refs[t] = (IF table = t THEN 1 ELSE 0) + Cardinality(Holding(t))
                  + Cardinality(Filling(t)) + Cardinality(Owing(t))
    BY DEF IInv, RefsCountOwners
  <2>3. CASE t = table
    <3>1. w \notin Holding(t) /\ Holding(t)' = Holding(t) \cup {w}
      BY <1>1, <2>3 DEF Holding
    <3>2. Cardinality(Holding(t)') = Cardinality(Holding(t)) + 1
      BY <3>1, OneMore, OwnerSets
    <3>3. refs'[t] = refs[t] + 1
      BY <1>1, <2>3 DEF Acquire, IInv, TablesOK
    <3>4. Cardinality(Holding(t)) \in Nat /\ Cardinality(Filling(t)) \in Nat
          /\ Cardinality(Owing(t)) \in Nat
      BY OwnerSets, Counting
    <3> QED
      BY <1>1, <2>1, <2>2, <3>2, <3>3, <3>4
  <2>4. CASE t # table
    <3>1. Holding(t)' = Holding(t)
      BY <1>1, <2>4, CertsAssumption DEF Holding, IInv, TablesOK
    <3>2. refs'[t] = refs[t]
      BY <1>1, <2>4 DEF Acquire, IInv, TablesOK
    <3> QED
      BY <1>1, <2>1, <2>2, <3>1, <3>2
  <2> QED
    BY <2>3, <2>4
<1>3. RefsCountOwners'
  BY <1>2 DEF RefsCountOwners
<1>4. \A t : Held(t)' => Held(t)
  BY <1>1 DEF Held
<1>5. NoTableFreedInUse'
  BY <1>4 DEF IInv, NoTableFreedInUse
<1>6. FreshInv'
  BY <1>1 DEF IInv, FreshInv
<1>7. NothingLeaks'
  <2>1. \A t \in Tables : refs[t] \in Nat /\ refs'[t] \in {refs[t], refs[t] + 1}
    BY <1>1 DEF IInv, TablesOK, Acquire
  <2> QED
    BY <2>1 DEF IInv, TablesOK, NothingLeaks
<1> QED
  BY <1>3, <1>5, <1>6, <1>7

\* ioxd__certs_release of the holder's own reference, which is its last use
\* of the table.
LEMMA Releasing ==
    ASSUME IInv, NEW w \in Procs, mine[w] # NoTable, Release(w, mine[w]),
           mine' = [mine EXCEPT ![w] = NoTable],
           UNCHANGED <<table, fresh, live>>,
           pc[w] # "drop2", pc'[w] # "drop2",
           \A q \in Procs : q # w => pc'[q] = pc[q],
           dying[w] = NoTable
    PROVE  RefsCountOwners' /\ NoTableFreedInUse' /\ NothingLeaks' /\ FreshInv' /\ refs' \in [Tables -> Nat]
<1>0. PICK m \in Tables : m = mine[w]
  BY DEF IInv, TablesOK
<1>1. m \in Tables /\ table' = table /\ mine'[w] = NoTable
      /\ \A q \in Procs : q # w => mine'[q] = mine[q]
  BY <1>0 DEF IInv, TablesOK
<1>2. Held(m) /\ refs[m] > 0 /\ refs[m] \in Nat
  BY <1>0, <1>1, HeldCounts DEF IInv, TablesOK, Held
<1>3. refs' = [refs EXCEPT ![m] = refs[m] - 1] /\ refs' \in [Tables -> Nat]
  BY <1>0, <1>1, <1>2 DEF Release, IInv, TablesOK
<1>4. w \in Holding(m) /\ Holding(m)' = Holding(m) \ {w}
      /\ Cardinality(Holding(m)') = Cardinality(Holding(m)) - 1
  <2>1. w \in Holding(m)
    BY <1>0 DEF Holding
  <2>2. Holding(m)' = Holding(m) \ {w}
    BY <1>0, <1>1, CertsAssumption DEF Holding
  <2> QED
    BY <2>1, <2>2, OneLess, OwnerSets
<1>5. ASSUME NEW t \in Tables
      PROVE  /\ Filling(t)' = Filling(t) /\ Owing(t)' = Owing(t)
             /\ t # m => Holding(t)' = Holding(t)
  <2>1. Filling(t)' = Filling(t) /\ Owing(t)' = Owing(t)
    BY <1>1, CertsAssumption DEF Filling, Owing
  <2>2. t # m => Holding(t)' = Holding(t)
    BY <1>0, <1>1, CertsAssumption DEF Holding
  <2> QED
    BY <2>1, <2>2
<1>6. RefsCountOwners'
  <2> SUFFICES ASSUME NEW t \in Tables
               PROVE  refs'[t] = (IF table' = t THEN 1 ELSE 0) + Cardinality(Holding(t)')
                         + Cardinality(Filling(t)') + Cardinality(Owing(t)')
    BY DEF RefsCountOwners
  <2>1. refs[t] = (IF table = t THEN 1 ELSE 0) + Cardinality(Holding(t))
                  + Cardinality(Filling(t)) + Cardinality(Owing(t))
    BY DEF IInv, RefsCountOwners
  <2>2. Cardinality(Holding(t)) \in Nat /\ Cardinality(Filling(t)) \in Nat
        /\ Cardinality(Owing(t)) \in Nat
    BY OwnerSets, Counting
  <2>3. refs'[t] = IF t = m THEN refs[m] - 1 ELSE refs[t]
    BY <1>1, <1>3 DEF IInv, TablesOK
  <2>4. CASE t = m
    <3>1. w \in Holding(t) /\ Holding(t)' = Holding(t) \ {w}
      BY <1>0, <1>1, <2>4, CertsAssumption DEF Holding
    <3>2. Cardinality(Holding(t)') = Cardinality(Holding(t)) - 1
      BY <3>1, OneLess, OwnerSets
    <3> QED
      BY <1>1, <1>5, <2>1, <2>2, <2>3, <2>4, <3>2
  <2>5. CASE t # m
    BY <1>1, <1>5, <2>1, <2>3, <2>5
  <2> QED
    BY <2>4, <2>5
<1>7. refs[m] = 1 => ~ Held(m)'
  <2> SUFFICES ASSUME refs[m] = 1 PROVE ~ Held(m)'
    OBVIOUS
  <2>1. table # m /\ Filling(m) = {} /\ Cardinality(Holding(m)) = 1
    BY <1>1, <1>4, LastOwner DEF IInv
  <2>2. Holding(m)' = {}
    BY <1>4, <2>1, Counting, OwnerSets
  <2>3. Filling(m)' = {}
    BY <1>1, <1>5, <2>1
  <2> QED
    BY <1>1, <2>1, <2>2, <2>3 DEF Held, Holding, Filling
<1>8. \A t : Held(t)' /\ t # NoTable => Held(t)
  BY <1>1 DEF Held
<1>9. NoTableFreedInUse'
  <2> SUFFICES ASSUME NEW t \in Tables
               PROVE  /\ Held(t)' => t \in live'
                      /\ \A q \in Procs : dying'[q] = t =>
                           /\ t \in live'
                           /\ ~ Held(t)'
                           /\ \A p \in Procs : dying'[p] = t => p = q
    BY DEF NoTableFreedInUse
  <2>1. live' = live /\ t # NoTable
    BY CertsAssumption
  <2>2. \A q \in Procs : dying'[q] = IF q = w THEN IF refs[m] = 1 THEN m ELSE NoTable
                                     ELSE dying[q]
    BY <1>0 DEF Release, IInv, TablesOK
  <2>3. m \in live /\ \A q \in Procs : dying[q] # m
    BY <1>1, <1>2 DEF IInv, NoTableFreedInUse
  <2>4. /\ Held(t) => t \in live
        /\ \A q \in Procs : dying[q] = t =>
             t \in live /\ ~ Held(t) /\ \A p \in Procs : dying[p] = t => p = q
    BY DEF IInv, NoTableFreedInUse
  <2>5. CASE t = m
    BY <1>7, <2>1, <2>2, <2>3, <2>5
  <2>6. CASE t # m
    BY <1>8, <2>1, <2>2, <2>4, <2>6
  <2> QED
    BY <2>5, <2>6
<1>10. FreshInv'
  BY <1>1 DEF IInv, FreshInv
<1>11. NothingLeaks'
  <2> SUFFICES ASSUME NEW t \in live' PROVE refs'[t] > 0 \/ \E q \in Procs : dying'[q] = t
    BY DEF NothingLeaks
  <2>1. t \in live /\ t \in Tables /\ t # NoTable
    BY CertsAssumption DEF IInv, TablesOK
  <2>2. dying'[w] = (IF refs[m] = 1 THEN m ELSE NoTable)
        /\ \A q \in Procs : q # w => dying'[q] = dying[q]
    BY <1>0 DEF Release, IInv, TablesOK
  <2>3. CASE t = m
    BY <1>1, <1>2, <1>3, <2>2, <2>3 DEF IInv, TablesOK
  <2>4. CASE t # m
    <3>1. refs'[t] = refs[t]
      BY <1>3, <2>1, <2>4 DEF IInv, TablesOK
    <3> QED
      BY <2>1, <2>2, <3>1 DEF IInv, NothingLeaks
  <2> QED
    BY <2>3, <2>4
<1> QED
  BY <1>3, <1>6, <1>9, <1>10, <1>11

\* A release of a reference that no pointer stands for any more: the one
\* the store had (CertsFree), or the one a reload took over from it.
LEMMA ReleasingStores ==
    ASSUME IInv, NEW w \in Procs, NEW m \in Tables, Release(w, m),
           UNCHANGED <<mine, fresh, live>>,
           \/ /\ table = m /\ table' = NoTable
              /\ \A q \in Procs : (pc'[q] = "drop2") <=> (pc[q] = "drop2")
           \/ /\ table' = table /\ mine[w] = m /\ pc[w] = "drop2" /\ pc'[w] # "drop2"
              /\ \A q \in Procs : q # w => pc'[q] = pc[q],
           dying[w] = NoTable
    PROVE  RefsCountOwners' /\ NoTableFreedInUse' /\ NothingLeaks' /\ FreshInv' /\ refs' \in [Tables -> Nat]
<1>1. Held(m) /\ refs[m] > 0 /\ refs[m] \in Nat /\ m # NoTable
  BY HeldCounts, CertsAssumption DEF IInv, TablesOK, Held
<1>2. refs' = [refs EXCEPT ![m] = refs[m] - 1] /\ refs' \in [Tables -> Nat]
  BY <1>1 DEF Release, IInv, TablesOK
<1>3. RefsCountOwners'
  <2> SUFFICES ASSUME NEW t \in Tables
               PROVE  refs'[t] = (IF table' = t THEN 1 ELSE 0) + Cardinality(Holding(t)')
                         + Cardinality(Filling(t)') + Cardinality(Owing(t)')
    BY DEF RefsCountOwners
  <2>1. refs[t] = (IF table = t THEN 1 ELSE 0) + Cardinality(Holding(t))
                  + Cardinality(Filling(t)) + Cardinality(Owing(t))
    BY DEF IInv, RefsCountOwners
  <2>2. Cardinality(Holding(t)) \in Nat /\ Cardinality(Filling(t)) \in Nat
        /\ Cardinality(Owing(t)) \in Nat
    BY OwnerSets, Counting
  <2>3. refs'[t] = (IF t = m THEN refs[m] - 1 ELSE refs[t]) /\ t # NoTable
    BY <1>2, CertsAssumption DEF IInv, TablesOK
  <2>4. Holding(t)' = Holding(t) /\ Filling(t)' = Filling(t)
    BY DEF Holding, Filling
  <2>5. CASE table = m /\ table' = NoTable
              /\ \A q \in Procs : (pc'[q] = "drop2") <=> (pc[q] = "drop2")
    <3>1. Owing(t)' = Owing(t)
      BY <2>5 DEF Owing
    <3> QED
      BY <2>1, <2>2, <2>3, <2>4, <2>5, <3>1
  <2>6. CASE table' = table /\ mine[w] = m /\ pc[w] = "drop2" /\ pc'[w] # "drop2"
              /\ \A q \in Procs : q # w => pc'[q] = pc[q]
    <3>1. CASE t = m
      <4>1. w \in Owing(t) /\ Owing(t)' = Owing(t) \ {w}
        BY <2>6, <3>1 DEF Owing
      <4>2. Cardinality(Owing(t)') = Cardinality(Owing(t)) - 1
        BY <4>1, OneLess, OwnerSets
      <4> QED
        BY <2>1, <2>2, <2>3, <2>4, <2>6, <3>1, <4>2
    <3>2. CASE t # m
      <4>1. Owing(t)' = Owing(t)
        BY <2>6, <3>2 DEF Owing
      <4> QED
        BY <2>1, <2>3, <2>4, <2>6, <3>2, <4>1
    <3> QED
      BY <3>1, <3>2
  <2> QED
    BY <2>5, <2>6
<1>4. refs[m] = 1 => ~ Held(m)'
  <2> SUFFICES ASSUME refs[m] = 1 PROVE ~ Held(m)'
    OBVIOUS
  <2>1. CASE table = m /\ table' = NoTable
    <3>1. Holding(m) = {} /\ Filling(m) = {}
      BY <2>1, LastOwner DEF IInv
    <3> QED
      BY <1>1, <2>1, <3>1 DEF Held, Holding, Filling
  <2>2. CASE table' = table /\ mine[w] = m /\ pc[w] = "drop2"
    <3>1. w \in Holding(m) /\ w \in Owing(m)
      BY <2>2 DEF Holding, Owing
    <3> QED
      BY <3>1, LastOwner DEF IInv
  <2> QED
    BY <2>1, <2>2
<1>5. \A t \in Tables : Held(t)' => Held(t)
  BY CertsAssumption DEF Held
<1>6. NoTableFreedInUse'
  <2> SUFFICES ASSUME NEW t \in Tables
               PROVE  /\ Held(t)' => t \in live'
                      /\ \A q \in Procs : dying'[q] = t =>
                           /\ t \in live'
                           /\ ~ Held(t)'
                           /\ \A p \in Procs : dying'[p] = t => p = q
    BY DEF NoTableFreedInUse
  <2>1. live' = live /\ t # NoTable
    BY CertsAssumption
  <2>2. \A q \in Procs : dying'[q] = IF q = w THEN IF refs[m] = 1 THEN m ELSE NoTable
                                     ELSE dying[q]
    BY DEF Release, IInv, TablesOK
  <2>3. m \in live /\ \A q \in Procs : dying[q] # m
    BY <1>1 DEF IInv, NoTableFreedInUse
  <2>4. /\ Held(t) => t \in live
        /\ \A q \in Procs : dying[q] = t =>
             t \in live /\ ~ Held(t) /\ \A p \in Procs : dying[p] = t => p = q
    BY DEF IInv, NoTableFreedInUse
  <2>5. CASE t = m
    BY <1>4, <1>5, <2>1, <2>2, <2>3, <2>5
  <2>6. CASE t # m
    BY <1>5, <2>1, <2>2, <2>4, <2>6
  <2> QED
    BY <2>5, <2>6
<1>7. FreshInv'
  BY DEF IInv, FreshInv
<1>8. NothingLeaks'
  <2> SUFFICES ASSUME NEW t \in live' PROVE refs'[t] > 0 \/ \E q \in Procs : dying'[q] = t
    BY DEF NothingLeaks
  <2>1. t \in live /\ t \in Tables /\ t # NoTable
    BY CertsAssumption DEF IInv, TablesOK
  <2>2. dying'[w] = (IF refs[m] = 1 THEN m ELSE NoTable)
        /\ \A q \in Procs : q # w => dying'[q] = dying[q]
    BY DEF Release, IInv, TablesOK
  <2>3. CASE t = m
    BY <1>1, <1>2, <2>2, <2>3 DEF IInv, TablesOK
  <2>4. CASE t # m
    <3>1. refs'[t] = refs[t]
      BY <1>2, <2>1, <2>4 DEF IInv, TablesOK
    <3> QED
      BY <2>1, <2>2, <3>1 DEF IInv, NothingLeaks
  <2> QED
    BY <2>3, <2>4
<1> QED
  BY <1>2, <1>3, <1>6, <1>7, <1>8

\* table_free of a table nobody has a pointer to but, at most, the loader
\* that gives it up.
LEMMA Freeing ==
    ASSUME IInv, NEW w \in Procs, NEW m \in Tables, TableFree(m),
           UNCHANGED <<table, mine>>,
           \A q \in Procs : (pc'[q] = "drop2") <=> (pc[q] = "drop2"),
           \/ /\ dying[w] = m /\ dying' = [dying EXCEPT ![w] = NoTable] /\ fresh' = fresh
           \/ /\ fresh[w] = m /\ fresh' = [fresh EXCEPT ![w] = NoTable] /\ dying' = dying
    PROVE  RefsCountOwners' /\ NoTableFreedInUse' /\ NothingLeaks' /\ FreshInv'
<1>1. table # m /\ \A q \in Procs : mine[q] # m
  BY CertsAssumption DEF IInv, NoTableFreedInUse, Held, FreshInv
<1>2. \A q \in Procs : fresh'[q] # m /\ (fresh[q] # m => fresh'[q] = fresh[q])
                        /\ (fresh'[q] # NoTable => fresh'[q] = fresh[q])
  BY CertsAssumption DEF IInv, NoTableFreedInUse, Held, FreshInv, TablesOK
<1>3. \A q \in Procs : dying'[q] # m /\ (dying'[q] # NoTable => dying'[q] = dying[q])
  BY CertsAssumption DEF IInv, NoTableFreedInUse, Held, TablesOK
<1>4. RefsCountOwners'
  <2> SUFFICES ASSUME NEW t \in Tables
               PROVE  refs'[t] = (IF table' = t THEN 1 ELSE 0) + Cardinality(Holding(t)')
                         + Cardinality(Filling(t)') + Cardinality(Owing(t)')
    BY DEF RefsCountOwners
  <2>1. CASE t = m
    <3>1. Holding(t)' = {} /\ Filling(t)' = {} /\ Owing(t)' = {}
      BY <1>1, <1>2, <2>1 DEF Holding, Filling, Owing
    <3>2. refs'[t] = 0
      BY <2>1 DEF TableFree, IInv, TablesOK
    <3> QED
      BY <1>1, <2>1, <3>1, <3>2, FS_EmptySet
  <2>2. CASE t # m
    <3>1. Holding(t)' = Holding(t) /\ Filling(t)' = Filling(t) /\ Owing(t)' = Owing(t)
      BY <1>2, <2>2, CertsAssumption DEF Holding, Filling, Owing
    <3>2. refs'[t] = refs[t]
      BY <2>2 DEF TableFree, IInv, TablesOK
    <3> QED
      BY <3>1, <3>2 DEF IInv, RefsCountOwners
  <2> QED
    BY <2>1, <2>2
<1>5. \A t \in Tables : Held(t)' => Held(t) /\ t # m
  BY <1>1, <1>2, CertsAssumption DEF Held
<1>6. NoTableFreedInUse'
  BY <1>3, <1>5, CertsAssumption DEF IInv, NoTableFreedInUse, TableFree
<1>7. FreshInv'
  BY <1>2 DEF IInv, FreshInv
<1>8. NothingLeaks'
  <2> SUFFICES ASSUME NEW t \in live' PROVE refs'[t] > 0 \/ \E q \in Procs : dying'[q] = t
    BY DEF NothingLeaks
  <2>1. t \in live /\ t \in Tables /\ t # m
    BY DEF TableFree, IInv, TablesOK
  <2>2. refs'[t] = refs[t]
    BY <2>1 DEF TableFree, IInv, TablesOK
  <2>3. \A q \in Procs : dying[q] = t => dying'[q] = t
    BY <2>1 DEF IInv, TablesOK
  <2> QED
    BY <2>1, <2>2, <2>3 DEF IInv, NothingLeaks
<1> QED
  BY <1>4, <1>6, <1>7, <1>8

\* calloc gives load() a table that nobody knows.
LEMMA Allocating ==
    ASSUME IInv, NEW w \in Procs, NEW m \in Tables \ live, fresh[w] = NoTable,
           live' = live \cup {m}, refs' = [refs EXCEPT ![m] = 1],
           fresh' = [fresh EXCEPT ![w] = m], UNCHANGED <<table, mine, dying>>,
           \A q \in Procs : (pc'[q] = "drop2") <=> (pc[q] = "drop2")
    PROVE  RefsCountOwners' /\ NoTableFreedInUse' /\ NothingLeaks' /\ FreshInv'
<1>1. ~ Held(m) /\ \A q \in Procs : dying[q] # m
  BY DEF IInv, NoTableFreedInUse
<1>2. \A q \in Procs : fresh'[q] = IF q = w THEN m ELSE fresh[q]
  BY DEF IInv, TablesOK
<1>3. RefsCountOwners'
  <2> SUFFICES ASSUME NEW t \in Tables
               PROVE  refs'[t] = (IF table' = t THEN 1 ELSE 0) + Cardinality(Holding(t)')
                         + Cardinality(Filling(t)') + Cardinality(Owing(t)')
    BY DEF RefsCountOwners
  <2>1. CASE t = m
    <3>1. Holding(t)' = {} /\ Filling(t)' = {w} /\ Owing(t)' = {} /\ table' # t
      BY <1>1, <1>2, <2>1 DEF Held, Holding, Filling, Owing
    <3>2. refs'[t] = 1
      BY <2>1 DEF IInv, TablesOK
    <3>3. Cardinality(Holding(t)') = 0 /\ Cardinality(Filling(t)') = 1
          /\ Cardinality(Owing(t)') = 0
      BY <3>1, FS_EmptySet, FS_Singleton
    <3> QED
      BY <3>1, <3>2, <3>3
  <2>2. CASE t # m
    <3>1. Holding(t)' = Holding(t) /\ Filling(t)' = Filling(t) /\ Owing(t)' = Owing(t)
      BY <1>2, <2>2, CertsAssumption DEF Holding, Filling, Owing
    <3>2. refs'[t] = refs[t]
      BY <2>2 DEF IInv, TablesOK
    <3> QED
      BY <3>1, <3>2 DEF IInv, RefsCountOwners
  <2> QED
    BY <2>1, <2>2
<1>4. \A t \in Tables : Held(t)' => Held(t) \/ t = m
  BY <1>2 DEF Held
<1>5. NoTableFreedInUse'
  BY <1>1, <1>4 DEF IInv, NoTableFreedInUse
<1>6. FreshInv'
  BY <1>1, <1>2 DEF IInv, FreshInv, Held
<1>7. NothingLeaks'
  <2>1. \A t \in Tables : refs'[t] = IF t = m THEN 1 ELSE refs[t]
    BY DEF IInv, TablesOK
  <2> QED
    BY <2>1 DEF IInv, TablesOK, NothingLeaks
<1> QED
  BY <1>3, <1>5, <1>6, <1>7

\* The table that was filled becomes the store's; the reference the store
\* had to the one before, if there was one, is now the reload's to drop.
LEMMA Publishing ==
    ASSUME IInv, NEW w \in Procs, fresh[w] # NoTable, table' = fresh[w],
           fresh' = [fresh EXCEPT ![w] = NoTable],
           UNCHANGED <<live, refs, mine, dying>>,
           mine[w] = table, pc[w] # "drop2",
           pc'[w] = "drop2" <=> table # NoTable,
           \A q \in Procs : q # w => pc'[q] = pc[q]
    PROVE  RefsCountOwners' /\ NoTableFreedInUse' /\ NothingLeaks' /\ FreshInv'
<1>0. PICK m \in Tables : m = fresh[w]
  BY DEF IInv, TablesOK
<1>1. table' = m /\ table # m /\ \A q \in Procs : mine[q] # m /\ (fresh[q] = m => q = w)
  BY <1>0 DEF IInv, FreshInv
<1>2. \A q \in Procs : fresh'[q] = IF q = w THEN NoTable ELSE fresh[q]
  BY DEF IInv, TablesOK
<1>3. RefsCountOwners'
  <2> SUFFICES ASSUME NEW t \in Tables
               PROVE  refs'[t] = (IF table' = t THEN 1 ELSE 0) + Cardinality(Holding(t)')
                         + Cardinality(Filling(t)') + Cardinality(Owing(t)')
    BY DEF RefsCountOwners
  <2>1. refs[t] = (IF table = t THEN 1 ELSE 0) + Cardinality(Holding(t))
                  + Cardinality(Filling(t)) + Cardinality(Owing(t))
    BY DEF IInv, RefsCountOwners
  <2>2. Cardinality(Holding(t)) \in Nat /\ Cardinality(Filling(t)) \in Nat
        /\ Cardinality(Owing(t)) \in Nat
    BY OwnerSets, Counting
  <2>3. Holding(t)' = Holding(t) /\ t # NoTable
    BY CertsAssumption DEF Holding
  <2>4. CASE t = m
    <3>1. Filling(t) = {w} /\ Filling(t)' = {} /\ Owing(t) = {} /\ Owing(t)' = {}
      BY <1>0, <1>1, <1>2, <2>3, <2>4 DEF Filling, Owing
    <3>2. Cardinality(Filling(t)) = 1 /\ Cardinality(Filling(t)') = 0
          /\ Owing(t)' = Owing(t)
      BY <3>1, FS_EmptySet, FS_Singleton
    <3> QED
      BY <1>1, <2>1, <2>2, <2>3, <2>4, <3>2
  <2>5. CASE t = table
    <3>1. Filling(t)' = Filling(t)
      BY <1>0, <1>1, <1>2, <2>3, <2>5 DEF Filling
    <3>2. w \notin Owing(t) /\ Owing(t)' = Owing(t) \cup {w}
      BY <2>3, <2>5 DEF Owing
    <3>3. Cardinality(Owing(t)') = Cardinality(Owing(t)) + 1
      BY <3>2, OneMore, OwnerSets
    <3> QED
      BY <1>1, <2>1, <2>2, <2>3, <2>5, <3>1, <3>3
  <2>6. CASE t # m /\ t # table
    <3>1. Filling(t)' = Filling(t) /\ Owing(t)' = Owing(t)
      BY <1>0, <1>1, <1>2, <2>3, <2>6 DEF Filling, Owing
    <3> QED
      BY <1>1, <2>1, <2>3, <2>6, <3>1
  <2> QED
    BY <2>4, <2>5, <2>6
<1>4. \A t \in Tables : Held(t)' => Held(t)
  BY <1>0, <1>1, <1>2, CertsAssumption DEF Held
<1>5. NoTableFreedInUse'
  BY <1>4 DEF IInv, NoTableFreedInUse
<1>6. FreshInv'
  BY <1>0, <1>1, <1>2 DEF IInv, FreshInv
<1>7. NothingLeaks'
  BY DEF IInv, NothingLeaks
<1> QED
  BY <1>3, <1>5, <1>6, <1>7

-----------------------------------------------------------------------------
(* One lemma per action.                                                   *)

\* A handshake starts.
LEMMA PrologueStep ==
    ASSUME IInv, NEW w \in Procs, Prologue(w)
    PROVE  IInv'
<1>1. TablesOK'
  BY DEF IInv, TablesOK, PCs, Goto, At, Prologue, Acquire, loadVars
<1>2. PlaceInv'
  BY CertsAssumption DEF IInv, TablesOK, PlaceInv, InReload, FirstInv, At, Goto, Prologue,
     Acquire, loadVars
<1>3. OldInv' /\ FirstInv'
  BY CertsAssumption DEF IInv, TablesOK, PlaceInv, OldInv, FirstInv, InReload, At, Goto,
     Prologue, Acquire, loadVars
<1>4. RefsCountOwners' /\ NoTableFreedInUse' /\ NothingLeaks' /\ FreshInv'
  BY Acquiring DEF IInv, TablesOK, PlaceInv, At, Goto, loadVars, Prologue
<1> QED
  BY <1>1, <1>2, <1>3, <1>4 DEF IInv

\* Its SSL is made.
LEMMA SslNewStep ==
    ASSUME IInv, NEW w \in Procs, SslNew(w)
    PROVE  IInv'
<1>1. TablesOK'
  BY DEF IInv, TablesOK, PCs, Goto, At, SslNew, tableVars, loadVars, PlaceInv
<1>2. PlaceInv'
  BY CertsAssumption DEF IInv, TablesOK, PlaceInv, InReload, FirstInv, At, Goto, SslNew,
     tableVars, loadVars, PlaceInv
<1>3. OldInv' /\ FirstInv'
  BY CertsAssumption DEF IInv, TablesOK, PlaceInv, OldInv, FirstInv, InReload, At, Goto,
     SslNew, tableVars, loadVars, PlaceInv
<1>4. RefsCountOwners' /\ NoTableFreedInUse' /\ NothingLeaks' /\ FreshInv'
  BY Quiet DEF IInv, TablesOK, At, Goto, SslNew, tableVars, loadVars
<1> QED
  BY <1>1, <1>2, <1>3, <1>4 DEF IInv

\* Or is not.
LEMMA SslNewFailsStep ==
    ASSUME IInv, NEW w \in Procs, SslNewFails(w)
    PROVE  IInv'
<1>1. TablesOK'
  BY DEF IInv, TablesOK, PCs, Goto, At, SslNewFails, tableVars, loadVars
<1>2. PlaceInv'
  BY CertsAssumption DEF IInv, TablesOK, PlaceInv, InReload, FirstInv, At, Goto,
     SslNewFails, tableVars, loadVars
<1>3. OldInv' /\ FirstInv'
  BY CertsAssumption DEF IInv, TablesOK, PlaceInv, OldInv, FirstInv, InReload, At, Goto,
     SslNewFails, tableVars, loadVars
<1>4. RefsCountOwners' /\ NoTableFreedInUse' /\ NothingLeaks' /\ FreshInv'
  BY Quiet DEF IInv, TablesOK, At, Goto, SslNewFails, tableVars, loadVars
<1> QED
  BY <1>1, <1>2, <1>3, <1>4 DEF IInv

\* It is freed.
LEMMA SslFreeStep ==
    ASSUME IInv, NEW w \in Procs, SslFree(w)
    PROVE  IInv'
<1>1. TablesOK'
  BY DEF IInv, TablesOK, PCs, Goto, At, SslFree, tableVars, loadVars
<1>2. PlaceInv'
  BY CertsAssumption DEF IInv, TablesOK, PlaceInv, InReload, FirstInv, At, Goto, SslFree,
     tableVars, loadVars
<1>3. OldInv' /\ FirstInv'
  BY CertsAssumption DEF IInv, TablesOK, PlaceInv, OldInv, FirstInv, InReload, At, Goto,
     SslFree, tableVars, loadVars
<1>4. RefsCountOwners' /\ NoTableFreedInUse' /\ NothingLeaks' /\ FreshInv'
  BY Quiet DEF IInv, TablesOK, At, Goto, SslFree, tableVars, loadVars
<1> QED
  BY <1>1, <1>2, <1>3, <1>4 DEF IInv

\* The handshake lets its table go.
LEMMA PrologueOutStep ==
    ASSUME IInv, NEW w \in Procs, PrologueOut(w)
    PROVE  IInv'
<1>1. TablesOK'
  BY Releasing DEF IInv, TablesOK, PCs, Goto, At, PrologueOut, Release, loadVars, PlaceInv
<1>2. PlaceInv'
  BY CertsAssumption DEF IInv, TablesOK, PlaceInv, InReload, FirstInv, At, Goto,
     PrologueOut, Release, loadVars, PlaceInv
<1>3. OldInv' /\ FirstInv'
  BY CertsAssumption DEF IInv, TablesOK, PlaceInv, OldInv, FirstInv, InReload, At, Goto,
     PrologueOut, Release, loadVars, PlaceInv
<1>4. RefsCountOwners' /\ NoTableFreedInUse' /\ NothingLeaks' /\ FreshInv'
  BY Releasing DEF IInv, TablesOK, PlaceInv, At, Goto, loadVars, PrologueOut
<1> QED
  BY <1>1, <1>2, <1>3, <1>4 DEF IInv

\* One host is loaded, kept or left out.
LEMMA LoadHostStep ==
    ASSUME IInv, NEW w \in Procs, NEW h \in Hosts, LoadHost(w, h)
    PROVE  IInv'
<1>1. TablesOK'
  <2>1. fresh[w] \in Tables
    BY DEF IInv, TablesOK, PlaceInv, LoadHost, At
  <2>2. ASSUME NEW c \in Ctxs, AddHost(w, h, c)
        PROVE  hosts' \in [Tables -> [Hosts -> Ctxs \cup {NoCtx}]]
               /\ fallback' \in [Tables -> Ctxs \cup {NoCtx}]
    <3>1. hosts[fresh[w]] \in [Hosts -> Ctxs \cup {NoCtx}]
      BY <2>1 DEF IInv, TablesOK
    <3>2. [hosts[fresh[w]] EXCEPT ![h] = c] \in [Hosts -> Ctxs \cup {NoCtx}]
      BY <3>1
    <3> QED
      BY <2>1, <2>2, <3>2 DEF IInv, TablesOK, AddHost
  <2>3. OldCtx(w, h) \in Ctxs \cup {NoCtx}
    BY DEF IInv, TablesOK, OldCtx
  <2>4. hosts' \in [Tables -> [Hosts -> Ctxs \cup {NoCtx}]]
        /\ fallback' \in [Tables -> Ctxs \cup {NoCtx}]
    BY <2>2, <2>3 DEF IInv, TablesOK, LoadHost
  <2>5. gone' \in [Procs -> SUBSET Hosts] /\ todo' \in [Procs -> SUBSET Hosts]
    BY DEF IInv, TablesOK, LoadHost
  <2> QED
    BY <2>4, <2>5 DEF IInv, TablesOK, LoadHost
<1>2. PlaceInv'
  BY CertsAssumption DEF IInv, TablesOK, PlaceInv, InReload, FirstInv, At, Goto, LoadHost,
     AddHost, OldCtx, PlaceInv
<1>3. OldInv' /\ FirstInv'
  BY CertsAssumption DEF IInv, TablesOK, PlaceInv, OldInv, FirstInv, InReload, At, Goto,
     LoadHost, AddHost, OldCtx, PlaceInv
<1>4. RefsCountOwners' /\ NoTableFreedInUse' /\ NothingLeaks' /\ FreshInv'
  BY Quiet DEF IInv, TablesOK, At, Goto, LoadHost
<1> QED
  BY <1>1, <1>2, <1>3, <1>4 DEF IInv

\* The first load begins.
LEMMA CertsLoadStep ==
    ASSUME IInv, NEW w \in Procs, CertsLoad(w)
    PROVE  IInv'
<1>1. TablesOK'
  BY DEF IInv, TablesOK, PCs, Goto, At, CertsLoad, tableVars, loadVars
<1>2. PlaceInv'
  BY CertsAssumption DEF IInv, TablesOK, PlaceInv, InReload, FirstInv, At, Goto, CertsLoad,
     tableVars, loadVars
<1>3. OldInv' /\ FirstInv'
  BY CertsAssumption DEF IInv, TablesOK, PlaceInv, OldInv, FirstInv, InReload, At, Goto,
     CertsLoad, tableVars, loadVars
<1>4. RefsCountOwners' /\ NoTableFreedInUse' /\ NothingLeaks' /\ FreshInv'
  BY Quiet DEF IInv, TablesOK, At, Goto, CertsLoad, tableVars, loadVars
<1> QED
  BY <1>1, <1>2, <1>3, <1>4 DEF IInv

\* The store is given back.
LEMMA CertsFreeStep ==
    ASSUME IInv, NEW w \in Procs, CertsFree(w)
    PROVE  IInv'
<1>1. TablesOK'
  BY ReleasingStores, CertsAssumption DEF IInv, TablesOK, PCs, Goto, At, CertsFree,
     Release, loadVars
<1>2. PlaceInv'
  BY CertsAssumption DEF IInv, TablesOK, PlaceInv, InReload, FirstInv, At, Goto, CertsFree,
     Release, loadVars
<1>3. OldInv' /\ FirstInv'
  BY CertsAssumption DEF IInv, TablesOK, PlaceInv, OldInv, FirstInv, InReload, At, Goto,
     CertsFree, Release, loadVars
<1>4. RefsCountOwners' /\ NoTableFreedInUse' /\ NothingLeaks' /\ FreshInv'
  BY ReleasingStores DEF IInv, TablesOK, At, loadVars, CertsFree
<1> QED
  BY <1>1, <1>2, <1>3, <1>4 DEF IInv

\* A reload begins.
LEMMA ReloadLockStep ==
    ASSUME IInv, NEW w \in Procs, ReloadLock(w)
    PROVE  IInv'
<1>1. TablesOK'
  BY DEF IInv, TablesOK, PCs, Goto, At, ReloadLock, tableVars, loadVars
<1>2. PlaceInv'
  BY CertsAssumption DEF IInv, TablesOK, PlaceInv, InReload, FirstInv, At, Goto,
     ReloadLock, tableVars, loadVars
<1>3. OldInv' /\ FirstInv'
  BY CertsAssumption DEF IInv, TablesOK, PlaceInv, OldInv, FirstInv, InReload, At, Goto,
     ReloadLock, tableVars, loadVars
<1>4. RefsCountOwners' /\ NoTableFreedInUse' /\ NothingLeaks' /\ FreshInv'
  BY Quiet DEF IInv, TablesOK, At, Goto, ReloadLock, tableVars, loadVars
<1> QED
  BY <1>1, <1>2, <1>3, <1>4 DEF IInv

\* It takes its reference.
LEMMA ReloadAcquireStep ==
    ASSUME IInv, NEW w \in Procs, ReloadAcquire(w)
    PROVE  IInv'
<1>1. TablesOK'
  BY DEF IInv, TablesOK, PCs, Goto, At, ReloadAcquire, Acquire, loadVars, OldInv
<1>2. PlaceInv'
  BY CertsAssumption DEF IInv, TablesOK, PlaceInv, InReload, FirstInv, At, Goto,
     ReloadAcquire, Acquire, loadVars, OldInv
<1>3. OldInv' /\ FirstInv'
  BY CertsAssumption DEF IInv, TablesOK, PlaceInv, OldInv, FirstInv, InReload, At, Goto,
     ReloadAcquire, Acquire, loadVars, OldInv
<1>4. RefsCountOwners' /\ NoTableFreedInUse' /\ NothingLeaks' /\ FreshInv'
  BY Acquiring DEF IInv, TablesOK, PlaceInv, OldInv, At, Goto, loadVars, ReloadAcquire
<1> QED
  BY <1>1, <1>2, <1>3, <1>4 DEF IInv

\* It publishes what it loaded.
LEMMA ReloadSwapStep ==
    ASSUME IInv, NEW w \in Procs, ReloadSwap(w)
    PROVE  IInv'
<1>1. TablesOK'
  BY DEF IInv, TablesOK, PCs, Goto, At, ReloadSwap, Forget, tableVars
<1>2. PlaceInv'
  BY CertsAssumption DEF IInv, TablesOK, PlaceInv, InReload, FirstInv, At, Goto,
     ReloadSwap, Forget, tableVars
<1>3. OldInv' /\ FirstInv'
  BY CertsAssumption DEF IInv, TablesOK, PlaceInv, OldInv, FirstInv, InReload, At, Goto,
     ReloadSwap, Forget, tableVars
<1>4. RefsCountOwners' /\ NoTableFreedInUse' /\ NothingLeaks' /\ FreshInv'
  <2>1. reload = w /\ mine[w] = table /\ table # NoTable /\ fresh[w] # NoTable
    BY DEF IInv, PlaceInv, OldInv, InReload, At, ReloadSwap
  <2> QED
    BY <2>1, Publishing DEF IInv, TablesOK, At, Goto, Forget, tableVars, ReloadSwap
<1> QED
  BY <1>1, <1>2, <1>3, <1>4 DEF IInv

\* It drops the store's reference to the old table.
LEMMA ReloadDropStoresStep ==
    ASSUME IInv, NEW w \in Procs, ReloadDropStores(w)
    PROVE  IInv'
<1>1. TablesOK'
  BY ReleasingStores DEF IInv, TablesOK, PCs, Goto, At, ReloadDropStores, Release,
     loadVars, PlaceInv
<1>2. PlaceInv'
  BY CertsAssumption DEF IInv, TablesOK, PlaceInv, InReload, FirstInv, At, Goto,
     ReloadDropStores, Release, loadVars, PlaceInv
<1>3. OldInv' /\ FirstInv'
  BY CertsAssumption DEF IInv, TablesOK, PlaceInv, OldInv, FirstInv, InReload, At, Goto,
     ReloadDropStores, Release, loadVars, PlaceInv
<1>4. RefsCountOwners' /\ NoTableFreedInUse' /\ NothingLeaks' /\ FreshInv'
  BY ReleasingStores DEF IInv, TablesOK, PlaceInv, At, Goto, loadVars, ReloadDropStores
<1> QED
  BY <1>1, <1>2, <1>3, <1>4 DEF IInv

\* And its own.
LEMMA ReloadDropOwnStep ==
    ASSUME IInv, NEW w \in Procs, ReloadDropOwn(w)
    PROVE  IInv'
<1>1. TablesOK'
  BY Releasing DEF IInv, TablesOK, PCs, Goto, At, ReloadDropOwn, Release, loadVars, PlaceInv
<1>2. PlaceInv'
  BY CertsAssumption DEF IInv, TablesOK, PlaceInv, InReload, FirstInv, At, Goto,
     ReloadDropOwn, Release, loadVars, PlaceInv
<1>3. OldInv' /\ FirstInv'
  BY CertsAssumption DEF IInv, TablesOK, PlaceInv, OldInv, FirstInv, InReload, At, Goto,
     ReloadDropOwn, Release, loadVars, PlaceInv
<1>4. RefsCountOwners' /\ NoTableFreedInUse' /\ NothingLeaks' /\ FreshInv'
  BY Releasing DEF IInv, TablesOK, PlaceInv, At, Goto, loadVars, ReloadDropOwn
<1> QED
  BY <1>1, <1>2, <1>3, <1>4 DEF IInv

\* The reload ends.
LEMMA ReloadUnlockStep ==
    ASSUME IInv, NEW w \in Procs, ReloadUnlock(w)
    PROVE  IInv'
<1>1. TablesOK'
  BY DEF IInv, TablesOK, PCs, Goto, At, ReloadUnlock, tableVars, loadVars
<1>2. PlaceInv'
  BY CertsAssumption DEF IInv, TablesOK, PlaceInv, InReload, FirstInv, At, Goto,
     ReloadUnlock, tableVars, loadVars
<1>3. OldInv' /\ FirstInv'
  BY CertsAssumption DEF IInv, TablesOK, PlaceInv, OldInv, FirstInv, InReload, At, Goto,
     ReloadUnlock, tableVars, loadVars
<1>4. RefsCountOwners' /\ NoTableFreedInUse' /\ NothingLeaks' /\ FreshInv'
  BY Quiet DEF IInv, TablesOK, At, Goto, ReloadUnlock, tableVars, loadVars
<1> QED
  BY <1>1, <1>2, <1>3, <1>4 DEF IInv

\* The last one out frees the table.
LEMMA FreeDyingStep ==
    ASSUME IInv, NEW w \in Procs, FreeDying(w)
    PROVE  IInv'
<1>1. TablesOK'
  BY DEF IInv, TablesOK, PCs, Goto, At, FreeDying, TableFree, loadVars, NoHosts
<1>2. PlaceInv'
  BY CertsAssumption DEF IInv, TablesOK, PlaceInv, InReload, FirstInv, At, Goto, FreeDying,
     TableFree, loadVars, NoHosts
<1>3. OldInv' /\ FirstInv'
  BY CertsAssumption DEF IInv, TablesOK, PlaceInv, OldInv, FirstInv, InReload, At, Goto,
     FreeDying, TableFree, loadVars, NoHosts
<1>4. RefsCountOwners' /\ NoTableFreedInUse' /\ NothingLeaks' /\ FreshInv'
  <2>1. PICK m \in Tables : m = dying[w]
    BY DEF IInv, TablesOK, FreeDying
  <2> QED
    BY <2>1, Freeing DEF loadVars, FreeDying
<1> QED
  BY <1>1, <1>2, <1>3, <1>4 DEF IInv

\* The context a ClientHello names is one of the table's.
LEMMA LookupType ==
    ASSUME TablesOK, NEW t \in Tables, NEW name \in Names
    PROVE  Lookup(t, name) \in Ctxs \cup {NoCtx}
<1>1. hosts[t] \in [Hosts -> Ctxs \cup {NoCtx}]
  BY DEF TablesOK
<1>2. Wild[name] # NoHost => Wild[name] \in Hosts
  BY CertsAssumption
<1> QED
  BY <1>1, <1>2 DEF Lookup

\* The ClientHello picks a host.
LEMMA ClientHelloStep ==
    ASSUME IInv, NEW w \in Procs, ClientHello(w)
    PROVE  IInv'
<1>1. TablesOK'
  <2>1. mine[w] \in Tables
    BY DEF IInv, TablesOK, PlaceInv, ClientHello, At
  <2>2. PICK c \in {Lookup(mine[w], name) : name \in Names} \cup {NoCtx} :
          IF c # NoCtx THEN ssl' = [ssl EXCEPT ![w] = c] ELSE ssl' = ssl
    BY DEF ClientHello
  <2>3. c \in Ctxs \cup {NoCtx}
    BY <2>1, <2>2, LookupType DEF IInv
  <2>4. ssl' \in [Procs -> Ctxs \cup {NoCtx}]
    BY <2>2, <2>3 DEF IInv, TablesOK
  <2> QED
    BY <2>4 DEF IInv, TablesOK, PCs, Goto, At, ClientHello, tableVars, loadVars
<1>2. PlaceInv'
  BY DEF IInv, TablesOK, PlaceInv, InReload, At, Goto, ClientHello, tableVars, loadVars
<1>3. OldInv' /\ FirstInv'
  BY DEF IInv, TablesOK, OldInv, FirstInv, At, Goto, ClientHello, tableVars, loadVars
<1>4. RefsCountOwners' /\ NoTableFreedInUse' /\ NothingLeaks' /\ FreshInv'
  BY Quiet DEF IInv, TablesOK, At, Goto, ClientHello, tableVars, loadVars
<1> QED
  BY <1>1, <1>2, <1>3, <1>4 DEF IInv

\* load() gets its table, or NULL.
LEMMA LoadBeginStep ==
    ASSUME IInv, NEW w \in Procs, LoadBegin(w)
    PROVE  IInv'
<1>0. pc[w] = "open" /\ fresh[w] = NoTable
  BY DEF IInv, PlaceInv, LoadBegin, At
<1>1. CASE /\ GiveUp(w)
           /\ UNCHANGED <<tableVars, loadVars>>
           /\ UNCHANGED <<table, reload, ctx, mine, dying, ssl>>
  <2>1. TablesOK'
    BY <1>1 DEF IInv, TablesOK, PCs, Goto, GiveUp, Reloading, tableVars, loadVars
  <2>2. PlaceInv'
    BY <1>0, <1>1 DEF IInv, TablesOK, PlaceInv, InReload, Goto, GiveUp, Reloading,
       tableVars, loadVars
  <2>3. OldInv' /\ FirstInv'
    BY <1>0, <1>1 DEF IInv, TablesOK, OldInv, FirstInv, Goto, GiveUp, Reloading, tableVars,
       loadVars
  <2>4. RefsCountOwners' /\ NoTableFreedInUse' /\ NothingLeaks' /\ FreshInv'
    BY <1>0, <1>1, Quiet DEF IInv, TablesOK, Goto, GiveUp, Reloading, tableVars, loadVars
  <2> QED
    BY <2>1, <2>2, <2>3, <2>4 DEF IInv
<1>2. ASSUME NEW t \in Tables \ live,
             live' = live \cup {t},
             refs' = [refs EXCEPT ![t] = 1],
             hosts' = [hosts EXCEPT ![t] = NoHosts],
             fallback' = [fallback EXCEPT ![t] = NoCtx],
             fresh' = [fresh EXCEPT ![w] = t],
             todo' = [todo EXCEPT ![w] = Hosts],
             Goto(w, "load"),
             UNCHANGED gone,
             UNCHANGED <<table, reload, ctx, mine, dying, ssl>>
      PROVE  IInv'
  <2>1. TablesOK'
    <3>1. hosts' \in [Tables -> [Hosts -> Ctxs \cup {NoCtx}]]
      BY <1>2 DEF IInv, TablesOK, NoHosts
    <3>2. refs' \in [Tables -> Nat] /\ live' \in SUBSET Tables
          /\ fallback' \in [Tables -> Ctxs \cup {NoCtx}]
      BY <1>2 DEF IInv, TablesOK
    <3>3. fresh' \in [Procs -> Tables \cup {NoTable}] /\ todo' \in [Procs -> SUBSET Hosts]
          /\ pc' \in [Procs -> PCs]
      BY <1>2 DEF IInv, TablesOK, PCs, Goto
    <3> QED
      BY <1>2, <3>1, <3>2, <3>3 DEF IInv, TablesOK
  <2>2. PlaceInv'
    BY <1>0, <1>2, CertsAssumption DEF IInv, TablesOK, PlaceInv, InReload, Goto
  <2>3. OldInv' /\ FirstInv'
    BY <1>0, <1>2 DEF IInv, TablesOK, OldInv, FirstInv, Goto
  <2>4. RefsCountOwners' /\ NoTableFreedInUse' /\ NothingLeaks' /\ FreshInv'
    BY <1>0, <1>2, Allocating DEF IInv, TablesOK, Goto
  <2> QED
    BY <2>1, <2>2, <2>3, <2>4 DEF IInv
<1> QED
  BY <1>1, <1>2 DEF LoadBegin

\* load() ends with a table to publish, or frees it.
LEMMA LoadEndStep ==
    ASSUME IInv, NEW w \in Procs, LoadEnd(w)
    PROVE  IInv'
<1>0. PICK m \in Tables : m = fresh[w]
  BY DEF IInv, TablesOK, PlaceInv, LoadEnd, At
<1>1. /\ pc[w] = "load"
      /\ UNCHANGED <<table, reload, mine, todo, dying, ssl>>
  BY DEF LoadEnd, At
<1>2. CASE /\ fallback' \in [Tables -> Ctxs \cup {NoCtx}]
           /\ Goto(w, IF Reloading(w) THEN "swap" ELSE "publish")
           /\ UNCHANGED <<live, refs, hosts, ctx, fresh, gone>>
  <2>1. TablesOK'
    BY <1>1, <1>2 DEF IInv, TablesOK, PCs, Goto, Reloading
  <2>2. PlaceInv'
    BY <1>1, <1>2 DEF IInv, TablesOK, PlaceInv, InReload, Goto, Reloading
  <2>3. OldInv' /\ FirstInv'
    BY <1>1, <1>2 DEF IInv, TablesOK, OldInv, FirstInv, Goto, Reloading
  <2>4. RefsCountOwners' /\ NoTableFreedInUse' /\ NothingLeaks' /\ FreshInv'
    BY <1>1, <1>2, Quiet DEF IInv, TablesOK, Goto, Reloading
  <2> QED
    BY <2>1, <2>2, <2>3, <2>4 DEF IInv
<1>3. CASE TableFree(m) /\ Forget(w) /\ GiveUp(w)
  <2>1. TablesOK'
    BY <1>1, <1>3 DEF IInv, TablesOK, PCs, Goto, GiveUp, Reloading, Forget, TableFree,
       NoHosts
  <2>2. PlaceInv'
    BY <1>1, <1>3 DEF IInv, TablesOK, PlaceInv, InReload, Goto, GiveUp, Reloading, Forget
  <2>3. OldInv' /\ FirstInv'
    BY <1>1, <1>3 DEF IInv, TablesOK, OldInv, FirstInv, Goto, GiveUp, Reloading
  <2>4. RefsCountOwners' /\ NoTableFreedInUse' /\ NothingLeaks' /\ FreshInv'
    BY <1>0, <1>1, <1>3, Freeing DEF IInv, TablesOK, Goto, GiveUp, Reloading, Forget
  <2> QED
    BY <2>1, <2>2, <2>3, <2>4 DEF IInv
<1>4. \A c \in Previous(w, m) : c \in Ctxs \cup {NoCtx}
  <2>1. \A h \in Hosts : hosts[m][h] \in Ctxs \cup {NoCtx}
    BY DEF IInv, TablesOK
  <2> QED
    BY <2>1 DEF Previous, Served
<1>5. ASSUME NEW c \in Previous(w, m), fallback' = [fallback EXCEPT ![m] = c]
      PROVE  fallback' \in [Tables -> Ctxs \cup {NoCtx}]
  BY <1>4, <1>5 DEF IInv, TablesOK
<1>6. fallback' = fallback => fallback' \in [Tables -> Ctxs \cup {NoCtx}]
  BY DEF IInv, TablesOK
<1> QED
  BY <1>0, <1>2, <1>3, <1>5, <1>6 DEF LoadEnd

\* The first table is the store's, or is freed with a store that failed.
LEMMA CertsLoadedStep ==
    ASSUME IInv, NEW w \in Procs, CertsLoaded(w)
    PROVE  IInv'
<1>0. PICK m \in Tables : m = fresh[w]
  BY DEF IInv, TablesOK, PlaceInv, CertsLoaded, At
<1>1. /\ pc[w] = "publish" /\ reload # w /\ table = NoTable /\ mine[w] = NoTable
      /\ Forget(w) /\ Goto(w, "idle")
      /\ UNCHANGED <<reload, mine, todo, dying, ssl>>
  BY DEF IInv, PlaceInv, FirstInv, InReload, CertsLoaded, At
<1>2. PlaceInv'
  BY <1>1 DEF IInv, TablesOK, PlaceInv, InReload, Goto, Forget
<1>3. \A q \in Procs : pc'[q] = "idle"
  BY <1>1 DEF IInv, TablesOK, FirstInv, Goto
<1>4. OldInv' /\ FirstInv'
  BY <1>3 DEF OldInv, FirstInv
<1>5. CASE table' = fresh[w] /\ UNCHANGED <<tableVars, ctx>>
  <2>1. TablesOK'
    BY <1>0, <1>1, <1>5 DEF IInv, TablesOK, PCs, Goto, Forget, tableVars
  <2>2. RefsCountOwners' /\ NoTableFreedInUse' /\ NothingLeaks' /\ FreshInv'
    BY <1>0, <1>1, <1>5, Publishing, CertsAssumption DEF IInv, TablesOK, Goto, Forget,
       tableVars
  <2> QED
    BY <1>2, <1>4, <2>1, <2>2 DEF IInv
<1>6. CASE TableFree(m) /\ UNCHANGED table
  <2>1. TablesOK'
    BY <1>1, <1>6 DEF IInv, TablesOK, PCs, Goto, Forget, TableFree, NoHosts
  <2>2. RefsCountOwners' /\ NoTableFreedInUse' /\ NothingLeaks' /\ FreshInv'
    BY <1>0, <1>1, <1>6, Freeing DEF IInv, TablesOK, Goto, Forget
  <2> QED
    BY <1>2, <1>4, <2>1, <2>2 DEF IInv
<1> QED
  BY <1>0, <1>5, <1>6 DEF CertsLoaded

-----------------------------------------------------------------------------
(* The theorems.                                                           *)

\* At the start there is no store and no table.
LEMMA Initially == Init => IInv
<1> SUFFICES ASSUME Init PROVE IInv
  OBVIOUS
<1>1. TablesOK
  BY DEF Init, TablesOK, NoHosts, PCs
<1>2. \A t \in Tables : ~ Held(t) /\ Holding(t) = {} /\ Filling(t) = {} /\ Owing(t) = {}
  BY CertsAssumption DEF Init, Held, Holding, Filling, Owing
<1>3. RefsCountOwners
  <2>1. Cardinality({}) = 0
    BY FS_EmptySet
  <2>2. ASSUME NEW t \in Tables
        PROVE  refs[t] = 0 /\ table # t
    BY CertsAssumption DEF Init
  <2> QED
    BY <1>2, <2>1, <2>2 DEF RefsCountOwners
<1>4. NoTableFreedInUse
  BY <1>2, CertsAssumption DEF Init, NoTableFreedInUse
<1>5. NothingLeaks /\ PlaceInv /\ OldInv /\ FirstInv /\ FreshInv
  BY CertsAssumption DEF Init, NothingLeaks, PlaceInv, OldInv, FirstInv, FreshInv, InReload
<1> QED
  BY <1>1, <1>3, <1>4, <1>5 DEF IInv

\* Every step of every thread keeps the invariant.
LEMMA Inductive == IInv /\ [Next]_vars => IInv'
<1> SUFFICES ASSUME IInv, [Next]_vars PROVE IInv'
  OBVIOUS
<1>1. CASE UNCHANGED vars
  <2>1. TablesOK' /\ PlaceInv' /\ OldInv' /\ FirstInv'
    BY <1>1 DEF vars, tableVars, loadVars, IInv, TablesOK, PlaceInv, OldInv, FirstInv
  <2> QED
    BY <1>1, <2>1, Quiet DEF vars, tableVars, loadVars, IInv
<1>2. ASSUME NEW w \in Procs, Handshake(w) PROVE IInv'
  BY <1>2, PrologueStep, SslNewStep, SslNewFailsStep, ClientHelloStep, SslFreeStep,
     PrologueOutStep DEF Handshake
<1>3. ASSUME NEW w \in Procs, Load(w) PROVE IInv'
  BY <1>3, LoadBeginStep, LoadHostStep, LoadEndStep DEF Load
<1>4. ASSUME NEW w \in Procs, Reload(w) PROVE IInv'
  BY <1>4, ReloadAcquireStep, ReloadSwapStep, ReloadDropStoresStep, ReloadDropOwnStep,
     ReloadUnlockStep DEF Reload
<1> QED
  BY <1>1, <1>2, <1>3, <1>4, ReloadLockStep, FreeDyingStep, CertsLoadStep, CertsLoadedStep,
     CertsFreeStep DEF Next

\* The invariant holds throughout.
LEMMA Invariance == Spec => []IInv
BY Initially, Inductive, PTL DEF Spec

\* t->refs of every table of certs.c is exactly the number of its owners,
\* however many threads shake hands and reload.
THEOREM RefsCounted == Spec => []RefsCountOwners
<1>1. IInv => RefsCountOwners
  BY DEF IInv
<1> QED
  BY <1>1, Invariance, PTL

\* A table is allocated exactly as long as it is needed: none is freed while
\* a handshake, a reload or the store has a pointer to it, none twice, and
\* none is left without a count or somebody about to free it
\* (ioxd__certs_release, table_free).
THEOREM TablesLiveAsLongAsUsed == Spec => []TableLifetime
<1>1. IInv => TableLifetime
  BY DEF IInv, TableLifetime
<1> QED
  BY <1>1, Invariance, PTL

-----------------------------------------------------------------------------
(* OpenSSL's counts.                                                       *)

InTables(c) == {s \in live \X Hosts : hosts[s[1]][s[2]] = c}
InSsls(c) == {w \in Procs : ssl[w] = c}

\* The places of a context are finitely many.
LEMMA Places ==
    ASSUME NEW c
    PROVE  /\ Cardinality(InSsls(c)) \in Nat
           /\ IsFiniteSet(live) =>
                IsFiniteSet(InTables(c)) /\ Cardinality(InTables(c)) \in Nat
<1>1. InSsls(c) \in SUBSET Procs
  BY DEF InSsls
<1>2. ASSUME IsFiniteSet(live)
      PROVE  IsFiniteSet(InTables(c)) /\ Cardinality(InTables(c)) \in Nat
  <2>1. IsFiniteSet(live \X Hosts)
    BY <1>2, FS_Product, CertsAssumption
  <2>2. InTables(c) \subseteq live \X Hosts
    BY DEF InTables
  <2> QED
    BY <2>1, <2>2, FS_Subset, FS_CardinalityType
<1> QED
  BY <1>1, <1>2, Counting

\* The same after a step.
LEMMA PlacesAfter ==
    ASSUME NEW c
    PROVE  /\ Cardinality(InSsls(c)') \in Nat
           /\ IsFiniteSet(live') =>
                IsFiniteSet(InTables(c)') /\ Cardinality(InTables(c)') \in Nat
<1>1. InSsls(c)' \in SUBSET Procs
  BY DEF InSsls
<1>2. ASSUME IsFiniteSet(live')
      PROVE  IsFiniteSet(InTables(c)') /\ Cardinality(InTables(c)') \in Nat
  <2>1. IsFiniteSet(live' \X Hosts)
    BY <1>2, FS_Product, CertsAssumption
  <2>2. InTables(c)' \subseteq live' \X Hosts
    BY DEF InTables
  <2> QED
    BY <2>1, <2>2, FS_Subset, FS_CardinalityType
<1> QED
  BY <1>1, <1>2, Counting

\* A step that touches neither tables nor SSLs keeps the counts.
LEMMA CountsStay ==
    ASSUME ContextsCounted, UNCHANGED <<live, hosts, ctx, ssl>>
    PROVE  ContextsCounted'
BY DEF ContextsCounted

\* SSL_new, SSL_set_SSL_CTX and SSL_free move one reference.
LEMMA SslMoves ==
    ASSUME TablesOK, CtxInv, NEW w \in Procs, NEW new \in Ctxs \cup {NoCtx},
           ssl' = [ssl EXCEPT ![w] = new], ctx' = Swapped(new, ssl[w]),
           UNCHANGED <<live, hosts>>
    PROVE  ContextsCounted' /\ ctx' \in [Ctxs -> Nat]
<1>1. ASSUME NEW c \in Ctxs
      PROVE  /\ ctx'[c] = Cardinality(InTables(c)') + Cardinality(InSsls(c)')
             /\ ctx'[c] \in Nat
  <2>1. InTables(c)' = InTables(c)
    BY DEF InTables
  <2>2. ctx[c] = Cardinality(InTables(c)) + Cardinality(InSsls(c))
    BY DEF CtxInv, ContextsCounted, InTables, InSsls
  <2>3. ctx'[c] = ctx[c] + (IF c = new THEN 1 ELSE 0) - (IF c = ssl[w] THEN 1 ELSE 0)
    BY DEF Swapped
  <2>4. /\ Cardinality(InTables(c)) \in Nat
        /\ Cardinality(InSsls(c)) \in Nat
        /\ Cardinality(InSsls(c)') \in Nat
    BY Places, PlacesAfter DEF CtxInv
  <2>5. InSsls(c) \in SUBSET Procs /\ (w \in InSsls(c) <=> c = ssl[w])
    BY DEF InSsls
  <2>6. CASE c = new /\ c = ssl[w]
    <3>1. InSsls(c)' = InSsls(c)
      BY <2>6 DEF InSsls, TablesOK
    <3> QED
      BY <2>1, <2>2, <2>3, <2>4, <2>6, <3>1
  <2>7. CASE c = new /\ c # ssl[w]
    <3>1. InSsls(c)' = InSsls(c) \cup {w}
      BY <2>7 DEF InSsls, TablesOK
    <3>2. Cardinality(InSsls(c)') = Cardinality(InSsls(c)) + 1
      BY <2>5, <2>7, <3>1, OneMore
    <3> QED
      BY <2>1, <2>2, <2>3, <2>4, <2>7, <3>2
  <2>8. CASE c # new /\ c = ssl[w]
    <3>1. InSsls(c)' = InSsls(c) \ {w}
      BY <2>8 DEF InSsls, TablesOK
    <3>2. Cardinality(InSsls(c)') = Cardinality(InSsls(c)) - 1
      BY <2>5, <2>8, <3>1, OneLess
    <3> QED
      BY <2>1, <2>2, <2>3, <2>4, <2>8, <3>2
  <2>9. CASE c # new /\ c # ssl[w]
    <3>1. InSsls(c)' = InSsls(c)
      BY <2>9 DEF InSsls, TablesOK
    <3> QED
      BY <2>1, <2>2, <2>3, <2>4, <2>9, <3>1
  <2> QED
    BY <2>6, <2>7, <2>8, <2>9
<1>2. ContextsCounted'
  BY <1>1 DEF ContextsCounted, InTables, InSsls
<1>3. ctx' \in [Ctxs -> Nat]
  BY <1>1 DEF Swapped
<1> QED
  BY <1>2, <1>3

\* table_free gives back one reference for every host of the table.
LEMMA CountsAfterFree ==
    ASSUME TablesOK, CtxInv, NEW m \in live, TableFree(m), UNCHANGED ssl
    PROVE  /\ ContextsCounted' /\ ctx' \in [Ctxs -> Nat] /\ IsFiniteSet(live')
<1>0. m \in Tables /\ IsFiniteSet(live) /\ live' = live \ {m}
      /\ hosts' = [hosts EXCEPT ![m] = NoHosts]
  BY DEF TablesOK, CtxInv, TableFree
<1>1. IsFiniteSet(live')
  BY <1>0, FS_RemoveElement
<1>2. ASSUME NEW c \in Ctxs
      PROVE  /\ ctx'[c] = Cardinality(InTables(c)') + Cardinality(InSsls(c)')
             /\ ctx'[c] \in Nat
  <2>1. InSsls(c)' = InSsls(c)
    BY DEF InSsls
  <2>2. ctx[c] = Cardinality(InTables(c)) + Cardinality(InSsls(c))
    BY DEF CtxInv, ContextsCounted, InTables, InSsls
  <2>3. ctx'[c] = ctx[c] - Cardinality(Slots(m, c))
    BY DEF TableFree
  <2>4. IsFiniteSet(Slots(m, c)) /\ Cardinality(Slots(m, c)) \in Nat
    <3>1. Slots(m, c) \subseteq Hosts
      BY DEF Slots
    <3> QED
      BY <3>1, CertsAssumption, FS_Subset, FS_CardinalityType
  <2>5. /\ IsFiniteSet({m} \X Slots(m, c))
        /\ Cardinality({m} \X Slots(m, c)) = Cardinality(Slots(m, c))
    <3>1. IsFiniteSet({m}) /\ Cardinality({m}) = 1
      BY FS_Singleton
    <3> QED
      BY <2>4, <3>1, FS_Product
  <2>6. {m} \X Slots(m, c) \subseteq InTables(c)
    BY DEF Slots, InTables
  <2>7. InTables(c)' = InTables(c) \ ({m} \X Slots(m, c))
    <3>1. ASSUME NEW s \in live \X Hosts
          PROVE  s \in InTables(c)' <=> s \in InTables(c) \ ({m} \X Slots(m, c))
      <4>1. PICK t \in live, h \in Hosts : s = <<t, h>>
        OBVIOUS
      <4>2. s[1] = t /\ s[2] = h /\ t \in Tables
        BY <4>1 DEF TablesOK
      <4>3. s \in InTables(c)' <=> t # m /\ hosts'[t][h] = c
        BY <1>0, <4>1, <4>2 DEF InTables
      <4>4. t # m => hosts'[t] = hosts[t]
        BY <1>0, <4>2 DEF TablesOK
      <4>5. s \in InTables(c) <=> hosts[t][h] = c
        BY <4>1, <4>2 DEF InTables
      <4>6. s \in {m} \X Slots(m, c) <=> t = m /\ hosts[m][h] = c
        BY <4>1 DEF Slots
      <4> QED
        BY <4>3, <4>4, <4>5, <4>6
    <3>2. InTables(c)' \subseteq live \X Hosts /\ InTables(c) \subseteq live \X Hosts
      BY <1>0 DEF InTables
    <3> QED
      BY <3>1, <3>2
  <2>8. Cardinality(InTables(c)') = Cardinality(InTables(c)) - Cardinality(Slots(m, c))
    <3>1. IsFiniteSet(InTables(c))
      BY <1>0, Places
    <3>2. InTables(c) \cap ({m} \X Slots(m, c)) = {m} \X Slots(m, c)
      BY <2>6
    <3>3. Cardinality(InTables(c) \ ({m} \X Slots(m, c)))
            = Cardinality(InTables(c)) - Cardinality(InTables(c) \cap ({m} \X Slots(m, c)))
      BY <3>1, FS_Difference
    <3> QED
      BY <2>5, <2>7, <3>2, <3>3
  <2>9. /\ Cardinality(InTables(c)) \in Nat
        /\ Cardinality(InTables(c)') \in Nat
        /\ Cardinality(InSsls(c)) \in Nat
    BY <1>0, <1>1, Places, PlacesAfter
  <2> QED
    BY <2>1, <2>2, <2>3, <2>4, <2>8, <2>9
<1>3. ContextsCounted'
  BY <1>2 DEF ContextsCounted, InTables, InSsls
<1>4. ctx' \in [Ctxs -> Nat]
  BY <1>2 DEF TableFree
<1> QED
  BY <1>1, <1>3, <1>4

\* A host added to a table in which it was blank.
LEMMA CountsAfterAdd ==
    ASSUME TablesOK, CtxInv, NEW t \in live, NEW h \in Hosts, NEW c \in Ctxs,
           hosts[t][h] = NoCtx,
           ctx' = [ctx EXCEPT ![c] = @ + 1], hosts' = [hosts EXCEPT ![t][h] = c],
           UNCHANGED <<live, ssl>>
    PROVE  ContextsCounted' /\ ctx' \in [Ctxs -> Nat]
<1>0. t \in Tables /\ IsFiniteSet(live) /\ c # NoCtx
  BY CertsAssumption DEF TablesOK, CtxInv
<1>1. ASSUME NEW d \in Ctxs
      PROVE  ctx'[d] = Cardinality(InTables(d)') + Cardinality(InSsls(d)')
  <2>1. InSsls(d)' = InSsls(d)
    BY DEF InSsls
  <2>2. ctx[d] = Cardinality(InTables(d)) + Cardinality(InSsls(d))
    BY DEF CtxInv, ContextsCounted, InTables, InSsls
  <2>3. ctx'[d] = IF d = c THEN ctx[d] + 1 ELSE ctx[d]
    BY DEF CtxInv
  <2>4. \A u \in live, g \in Hosts :
          hosts'[u][g] = IF u = t /\ g = h THEN c ELSE hosts[u][g]
    BY DEF TablesOK
  <2>5. \A u \in live, g \in Hosts :
          /\ <<u, g>> \in InTables(d) <=> hosts[u][g] = d
          /\ <<u, g>> \in InTables(d)' <=> hosts'[u][g] = d
    BY DEF InTables
  <2>6. InTables(d)' \subseteq live \X Hosts /\ InTables(d) \subseteq live \X Hosts
    BY DEF InTables
  <2>7. IsFiniteSet(InTables(d)) /\ Cardinality(InTables(d)) \in Nat
        /\ Cardinality(InSsls(d)) \in Nat
    BY <1>0, Places
  <2>8. CASE d = c
    <3>1. <<t, h>> \notin InTables(d)
      BY <1>0, <2>5, <2>8
    <3>2. InTables(d)' = InTables(d) \cup {<<t, h>>}
      <4>1. ASSUME NEW u \in live, NEW g \in Hosts
            PROVE  <<u, g>> \in InTables(d)' <=> <<u, g>> \in InTables(d) \/ <<u, g>> = <<t, h>>
        BY <2>4, <2>5, <2>8
      <4>2. <<t, h>> \in live \X Hosts
        OBVIOUS
      <4> QED BY <2>6, <4>1, <4>2
    <3>3. Cardinality(InTables(d)') = Cardinality(InTables(d)) + 1
      BY <2>7, <3>1, <3>2, FS_AddElement
    <3> QED
      BY <2>1, <2>2, <2>3, <2>7, <2>8, <3>3
  <2>9. CASE d # c
    <3>1. \A u \in live, g \in Hosts : hosts'[u][g] = d <=> hosts[u][g] = d
      BY <2>4, <2>9, CertsAssumption
    <3>2. InTables(d)' = InTables(d)
      <4>1. ASSUME NEW u \in live, NEW g \in Hosts
            PROVE  <<u, g>> \in InTables(d)' <=> <<u, g>> \in InTables(d)
        BY <2>5, <3>1
      <4> QED BY <2>6, <4>1
    <3> QED
      BY <2>1, <2>2, <2>3, <2>9, <3>2
  <2> QED
    BY <2>8, <2>9
<1>2. ContextsCounted'
  BY <1>1 DEF ContextsCounted, InTables, InSsls
<1>3. ctx' \in [Ctxs -> Nat]
  BY DEF CtxInv
<1> QED
  BY <1>2, <1>3

\* A new table has no hosts.
LEMMA CountsAfterAlloc ==
    ASSUME TablesOK, CtxInv, NEW t \in Tables \ live, live' = live \cup {t},
           hosts' = [hosts EXCEPT ![t] = NoHosts], UNCHANGED <<ctx, ssl>>
    PROVE  ContextsCounted' /\ ctx' \in [Ctxs -> Nat] /\ IsFiniteSet(live')
<1>0. IsFiniteSet(live')
  BY FS_AddElement DEF CtxInv
<1>1. ASSUME NEW d \in Ctxs
      PROVE  ctx'[d] = Cardinality(InTables(d)') + Cardinality(InSsls(d)')
  <2>1. InSsls(d)' = InSsls(d)
    BY DEF InSsls
  <2>2. ctx[d] = Cardinality(InTables(d)) + Cardinality(InSsls(d))
    BY DEF CtxInv, ContextsCounted, InTables, InSsls
  <2>4. \A u \in live', g \in Hosts :
          hosts'[u][g] = IF u = t THEN NoCtx ELSE hosts[u][g]
    BY DEF TablesOK, NoHosts
  <2>5. /\ \A u \in live, g \in Hosts : <<u, g>> \in InTables(d) <=> hosts[u][g] = d
        /\ \A u \in live', g \in Hosts : <<u, g>> \in InTables(d)' <=> hosts'[u][g] = d
    BY DEF InTables
  <2>6. InTables(d)' \subseteq live' \X Hosts /\ InTables(d) \subseteq live \X Hosts
    BY DEF InTables
  <2>7. d # NoCtx
    BY CertsAssumption
  <2>8. InTables(d)' = InTables(d)
    <3>1. \A u \in live', g \in Hosts : <<u, g>> \in InTables(d)' <=> <<u, g>> \in InTables(d)
      <4>1. ASSUME NEW u \in live', NEW g \in Hosts
            PROVE  <<u, g>> \in InTables(d)' <=> <<u, g>> \in InTables(d)
        <5>1. CASE u = t
          <6>1. <<u, g>> \notin live \X Hosts
            BY <5>1
          <6> QED
            BY <2>4, <2>5, <2>6, <2>7, <5>1, <6>1
        <5>2. CASE u # t
          BY <2>4, <2>5, <5>2
        <5> QED
          BY <5>1, <5>2
      <4> QED
        BY <4>1
    <3>2. InTables(d) \subseteq live' \X Hosts
      BY <2>6
    <3> QED
      BY <2>6, <3>1, <3>2
  <2> QED
    BY <2>1, <2>2, <2>8
<1>2. ContextsCounted'
  BY <1>1 DEF ContextsCounted, InTables, InSsls
<1> QED
  BY <1>0, <1>2 DEF CtxInv

\* A step that leaves tables, contexts and SSLs alone keeps the counts, if it
\* neither starts a load nor takes a process with an SSL out of its handshake.
LEMMA CtxQuiet ==
    ASSUME CtxInv, UNCHANGED <<live, hosts, ctx, ssl>>,
           \A q \in Procs : fresh'[q] # NoTable => fresh'[q] = fresh[q] /\ todo'[q] = todo[q],
           \A q \in Procs : ssl[q] # NoCtx => pc'[q] \in {"hello", "shaken"}
    PROVE  CtxInv'
BY CountsStay DEF CtxInv

\* A table is freed that no loader fills.
LEMMA CtxFree ==
    ASSUME IInv, CtxInv, NEW m \in live, TableFree(m), UNCHANGED <<ssl, todo>>,
           \A q \in Procs : fresh'[q] # NoTable => fresh'[q] = fresh[q] /\ fresh[q] # m,
           \A q \in Procs : ssl[q] # NoCtx => pc'[q] \in {"hello", "shaken"}
    PROVE  CtxInv'
<1>1. ContextsCounted' /\ ctx' \in [Ctxs -> Nat] /\ IsFiniteSet(live')
  BY CountsAfterFree DEF IInv
<1>2. ASSUME NEW q \in Procs, fresh'[q] # NoTable, NEW h \in todo'[q]
      PROVE  hosts'[fresh'[q]][h] = NoCtx
  <2>1. fresh'[q] = fresh[q] /\ fresh[q] # m /\ fresh[q] \in Tables
    BY <1>2 DEF IInv, TablesOK
  <2>2. hosts'[fresh[q]] = hosts[fresh[q]]
    BY <2>1 DEF TableFree, IInv, TablesOK
  <2> QED
    BY <1>2, <2>1, <2>2 DEF CtxInv
<1> QED
  BY <1>1, <1>2 DEF CtxInv

\* A handshake's steps.
LEMMA HandshakeCtx ==
    ASSUME IInv, CtxInv, NEW w \in Procs, Handshake(w)
    PROVE  CtxInv'
<1>1. CASE Prologue(w)
  BY <1>1, CtxQuiet DEF Prologue, At, Goto, IInv, TablesOK, CtxInv, loadVars
<1>2. CASE SslNewFails(w)
  BY <1>2, CtxQuiet DEF SslNewFails, At, Goto, IInv, TablesOK, CtxInv, loadVars, tableVars
<1>3. CASE PrologueOut(w)
  BY <1>3, CtxQuiet DEF PrologueOut, At, Goto, IInv, TablesOK, CtxInv, loadVars
<1>4. ASSUME NEW new \in Ctxs \cup {NoCtx},
             ssl' = [ssl EXCEPT ![w] = new], ctx' = Swapped(new, ssl[w]),
             \A q \in Procs : q # w => pc'[q] = pc[q],
             new # NoCtx => pc'[w] \in {"hello", "shaken"},
             UNCHANGED <<tableVars, loadVars>>
      PROVE  CtxInv'
  <2>1. ContextsCounted' /\ ctx' \in [Ctxs -> Nat]
    BY <1>4, SslMoves DEF IInv, tableVars
  <2>2. \A q \in Procs : ssl'[q] # NoCtx => pc'[q] \in {"hello", "shaken"}
    BY <1>4 DEF IInv, TablesOK, CtxInv
  <2> QED
    BY <1>4, <2>1, <2>2 DEF CtxInv, tableVars, loadVars
<1>5. CASE SslNew(w)
  <2>1. mine[w] \in Tables /\ fallback[mine[w]] \in Ctxs \cup {NoCtx}
    BY <1>5 DEF SslNew, At, IInv, TablesOK, PlaceInv
  <2>2. ssl[w] = NoCtx
    BY <1>5 DEF SslNew, At, CtxInv
  <2> QED
    BY <1>4, <1>5, <2>1, <2>2 DEF SslNew, Goto, IInv, TablesOK
<1>6. CASE ClientHello(w)
  <2>1. mine[w] \in Tables
    BY <1>6 DEF ClientHello, At, IInv, TablesOK, PlaceInv
  <2>2. PICK c \in {Lookup(mine[w], name) : name \in Names} \cup {NoCtx} :
          IF c # NoCtx THEN ctx' = Swapped(c, ssl[w]) /\ ssl' = [ssl EXCEPT ![w] = c]
          ELSE UNCHANGED <<ctx, ssl>>
    BY <1>6 DEF ClientHello
  <2>3. c \in Ctxs \cup {NoCtx}
    BY <2>1, <2>2, LookupType DEF IInv
  <2>4. CASE c # NoCtx
    BY <1>4, <1>6, <2>2, <2>3, <2>4 DEF ClientHello, Goto, IInv, TablesOK
  <2>5. CASE c = NoCtx
    BY <1>6, <2>2, <2>5, CtxQuiet
       DEF ClientHello, At, Goto, IInv, TablesOK, CtxInv, tableVars, loadVars
  <2> QED
    BY <2>4, <2>5
<1>7. CASE SslFree(w)
  BY <1>4, <1>7 DEF SslFree, Goto, IInv, TablesOK
<1> QED
  BY <1>1, <1>2, <1>3, <1>5, <1>6, <1>7 DEF Handshake

\* A load's steps.
LEMMA LoadCtx ==
    ASSUME IInv, CtxInv, NEW w \in Procs, Load(w)
    PROVE  CtxInv'
<1>1. CASE LoadBegin(w)
  <2>1. ssl[w] = NoCtx /\ fresh[w] = NoTable
    BY <1>1 DEF LoadBegin, At, CtxInv, IInv, PlaceInv
  <2>2. CASE GiveUp(w) /\ UNCHANGED <<tableVars, loadVars, ctx, ssl>>
    BY <2>1, <2>2, CtxQuiet DEF GiveUp, Goto, IInv, TablesOK, CtxInv, tableVars, loadVars
  <2>3. ASSUME NEW t \in Tables \ live,
               live' = live \cup {t},
               hosts' = [hosts EXCEPT ![t] = NoHosts],
               fresh' = [fresh EXCEPT ![w] = t],
               todo' = [todo EXCEPT ![w] = Hosts],
               Goto(w, "load"),
               UNCHANGED <<ctx, ssl>>
        PROVE  CtxInv'
    <3>1. ContextsCounted' /\ ctx' \in [Ctxs -> Nat] /\ IsFiniteSet(live')
      BY <2>3, CountsAfterAlloc DEF IInv
    <3>2. \A q \in Procs : ssl'[q] # NoCtx => pc'[q] \in {"hello", "shaken"}
      BY <2>1, <2>3 DEF Goto, IInv, TablesOK, CtxInv
    <3>3. ASSUME NEW q \in Procs, fresh'[q] # NoTable, NEW h \in todo'[q]
          PROVE  hosts'[fresh'[q]][h] = NoCtx
      <4>1. CASE q = w
        <5>1. h \in Hosts /\ fresh'[q] = t /\ hosts'[t] = NoHosts
          BY <2>3, <3>3, <4>1 DEF IInv, TablesOK
        <5> QED
          BY <5>1 DEF NoHosts
      <4>2. CASE q # w
        <5>1. fresh'[q] = fresh[q] /\ todo'[q] = todo[q] /\ fresh[q] \in Tables
          BY <2>3, <3>3, <4>2 DEF IInv, TablesOK
        <5>2. fresh[q] \in live
          BY <5>1 DEF IInv, NoTableFreedInUse, Held
        <5>3. hosts'[fresh[q]] = hosts[fresh[q]]
          BY <2>3, <5>1, <5>2 DEF IInv, TablesOK
        <5> QED
          BY <3>3, <5>1, <5>3 DEF CtxInv
      <4> QED
        BY <4>1, <4>2
    <3> QED
      BY <3>1, <3>2, <3>3 DEF CtxInv
  <2> QED
    BY <1>1, <2>2, <2>3 DEF LoadBegin
<1>2. ASSUME NEW h \in Hosts, LoadHost(w, h) PROVE CtxInv'
  <2>1. PICK t \in Tables : t = fresh[w]
    BY <1>2 DEF LoadHost, At, IInv, TablesOK, PlaceInv
  <2>2. t \in live /\ hosts[t][h] = NoCtx
    BY <1>2, <2>1, CertsAssumption DEF LoadHost, IInv, NoTableFreedInUse, Held, CtxInv
  <2>3. /\ todo' = [todo EXCEPT ![w] = todo[w] \ {h}]
        /\ UNCHANGED <<live, pc, fresh, ssl>>
    BY <1>2 DEF LoadHost
  <2>4. \A q \in Procs : todo'[q] \subseteq todo[q]
    BY <2>3 DEF IInv, TablesOK
  <2>5. CASE UNCHANGED <<ctx, hosts>>
    BY <2>3, <2>4, <2>5, CountsStay DEF CtxInv
  <2>6. ASSUME NEW c \in Ctxs, AddHost(w, h, c) PROVE CtxInv'
    <3>1. ctx' = [ctx EXCEPT ![c] = @ + 1] /\ hosts' = [hosts EXCEPT ![t][h] = c]
      BY <2>1, <2>6 DEF AddHost
    <3>2. ContextsCounted' /\ ctx' \in [Ctxs -> Nat]
      BY <2>2, <2>3, <3>1, CountsAfterAdd DEF IInv
    <3>3. ASSUME NEW q \in Procs, fresh'[q] # NoTable, NEW g \in todo'[q]
          PROVE  hosts'[fresh'[q]][g] = NoCtx
      <4>0. PICK u \in Tables : u = fresh[q]
        BY <2>3, <3>3 DEF IInv, TablesOK
      <4>1. g \in todo[q] /\ g \in Hosts /\ hosts[u][g] = NoCtx
        BY <2>3, <2>4, <3>3, <4>0 DEF CtxInv, IInv, TablesOK
      <4>2. u # t \/ g # h
        BY <2>1, <2>3, <3>3, <4>0 DEF IInv, TablesOK, FreshInv
      <4>3. hosts'[u][g] = hosts[u][g]
        BY <3>1, <4>1, <4>2 DEF IInv, TablesOK
      <4> QED
        BY <2>3, <4>0, <4>1, <4>3
    <3> QED
      BY <2>3, <3>2, <3>3 DEF CtxInv
  <2>7. OldCtx(w, h) \in Ctxs \cup {NoCtx}
    BY DEF OldCtx, IInv, TablesOK
  <2> QED
    BY <1>2, <2>5, <2>6, <2>7 DEF LoadHost
<1>3. CASE LoadEnd(w)
  <2>1. PICK m \in Tables : m = fresh[w]
    BY <1>3 DEF LoadEnd, At, IInv, TablesOK, PlaceInv
  <2>2. m \in live /\ ssl[w] = NoCtx
    BY <1>3, <2>1, CertsAssumption DEF LoadEnd, At, IInv, NoTableFreedInUse, Held, CtxInv
  <2>3. CASE /\ Goto(w, IF Reloading(w) THEN "swap" ELSE "publish")
             /\ UNCHANGED <<live, hosts, ctx, fresh, todo, ssl>>
    BY <2>2, <2>3, CtxQuiet DEF Goto, IInv, TablesOK, CtxInv
  <2>4. CASE TableFree(m) /\ Forget(w) /\ GiveUp(w) /\ UNCHANGED <<todo, ssl>>
    <3>1. \A q \in Procs : fresh'[q] # NoTable => fresh'[q] = fresh[q] /\ fresh[q] # m
      BY <2>1, <2>4 DEF Forget, IInv, TablesOK, FreshInv
    <3>2. \A q \in Procs : ssl[q] # NoCtx => pc'[q] \in {"hello", "shaken"}
      BY <2>2, <2>4 DEF GiveUp, Goto, IInv, TablesOK, CtxInv
    <3> QED
      BY <2>2, <2>4, <3>1, <3>2, CtxFree
  <2> QED
    BY <1>3, <2>1, <2>3, <2>4 DEF LoadEnd
<1> QED
  BY <1>1, <1>2, <1>3 DEF Load

\* The store's and the reloads' other steps.
LEMMA StoreCtx ==
    ASSUME IInv, CtxInv, NEW w \in Procs,
           \/ Reload(w) \/ ReloadLock(w) \/ FreeDying(w)
           \/ CertsLoad(w) \/ CertsLoaded(w) \/ CertsFree(w)
    PROVE  CtxInv'
<1>1. CASE ReloadLock(w) \/ CertsLoad(w)
  BY <1>1, CtxQuiet
     DEF ReloadLock, CertsLoad, At, Goto, IInv, TablesOK, CtxInv, tableVars, loadVars
<1>2. CASE ReloadAcquire(w)
  BY <1>2, CtxQuiet DEF ReloadAcquire, At, Goto, IInv, TablesOK, CtxInv, loadVars
<1>3. CASE ReloadSwap(w)
  BY <1>3, CtxQuiet DEF ReloadSwap, Forget, At, Goto, IInv, TablesOK, CtxInv, tableVars
<1>4. CASE ReloadDropStores(w) \/ ReloadDropOwn(w)
  BY <1>4, CtxQuiet
     DEF ReloadDropStores, ReloadDropOwn, At, Goto, IInv, TablesOK, CtxInv, loadVars
<1>5. CASE ReloadUnlock(w)
  BY <1>5, CtxQuiet DEF ReloadUnlock, At, Goto, IInv, TablesOK, CtxInv, tableVars, loadVars
<1>6. CASE CertsFree(w)
  BY <1>6, CtxQuiet DEF CertsFree, IInv, TablesOK, CtxInv, loadVars
<1>7. CASE FreeDying(w)
  <2>1. PICK m \in Tables : m = dying[w]
    BY <1>7 DEF FreeDying, IInv, TablesOK
  <2>2. m \in live /\ ~ Held(m)
    BY <2>1 DEF IInv, NoTableFreedInUse
  <2>3. \A q \in Procs : fresh[q] # m
    BY <2>2 DEF Held
  <2> QED
    BY <1>7, <2>1, <2>2, <2>3, CtxFree DEF FreeDying, CtxInv, loadVars
<1>8. CASE CertsLoaded(w)
  <2>1. PICK m \in Tables : m = fresh[w]
    BY <1>8 DEF CertsLoaded, At, IInv, TablesOK, PlaceInv
  <2>2. m \in live /\ ssl[w] = NoCtx
    BY <1>8, <2>1, CertsAssumption DEF CertsLoaded, At, IInv, NoTableFreedInUse, Held, CtxInv
  <2>3. Forget(w) /\ Goto(w, "idle") /\ UNCHANGED <<todo, ssl>>
    BY <1>8 DEF CertsLoaded
  <2>4. \A q \in Procs : fresh'[q] # NoTable => fresh'[q] = fresh[q] /\ fresh[q] # m
    BY <2>1, <2>3 DEF Forget, IInv, TablesOK, FreshInv
  <2>5. \A q \in Procs : ssl[q] # NoCtx => pc'[q] \in {"hello", "shaken"}
    BY <2>2, <2>3 DEF Goto, IInv, TablesOK, CtxInv
  <2>6. CASE UNCHANGED <<tableVars, ctx>>
    BY <2>3, <2>4, <2>5, <2>6, CtxQuiet DEF tableVars
  <2>7. CASE TableFree(m)
    BY <2>2, <2>3, <2>4, <2>5, <2>7, CtxFree
  <2> QED
    BY <1>8, <2>1, <2>6, <2>7 DEF CertsLoaded
<1> QED
  BY <1>1, <1>2, <1>3, <1>4, <1>5, <1>6, <1>7, <1>8 DEF Reload

\* At the start no context is in use.
LEMMA CtxInitially == Init => CtxInv
<1> SUFFICES ASSUME Init PROVE CtxInv
  OBVIOUS
<1>1. IsFiniteSet(live)
  BY FS_EmptySet DEF Init
<1>2. ASSUME NEW c \in Ctxs
      PROVE  InTables(c) = {} /\ InSsls(c) = {} /\ ctx[c] = 0
  BY CertsAssumption DEF Init, InTables, InSsls
<1>3. ContextsCounted
  <2>1. ASSUME NEW c \in Ctxs
        PROVE  ctx[c] = Cardinality(InTables(c)) + Cardinality(InSsls(c))
    BY <1>2, FS_EmptySet
  <2> QED
    BY <2>1 DEF ContextsCounted, InTables, InSsls
<1> QED
  BY <1>1, <1>3 DEF Init, CtxInv

\* Every step keeps them.
LEMMA CtxInductive == IInv /\ CtxInv /\ [Next]_vars => CtxInv'
<1> SUFFICES ASSUME IInv, CtxInv, [Next]_vars PROVE CtxInv'
  OBVIOUS
<1>1. CASE UNCHANGED vars
  BY <1>1, CtxQuiet DEF vars, tableVars, loadVars, CtxInv
<1> QED
  BY <1>1, HandshakeCtx, LoadCtx, StoreCtx DEF Next

\* OpenSSL's count of every SSL_CTX is exactly the number of tables' hosts and
\* of SSLs that have it, however reloads share contexts between tables
\* (SSL_CTX_up_ref in load) and whichever table dies first.
THEOREM ContextsAreCounted == Spec => []ContextsCounted
<1>1. CtxInv => ContextsCounted
  BY DEF CtxInv
<1> QED
  BY <1>1, Invariance, CtxInitially, CtxInductive, PTL DEF Spec

-----------------------------------------------------------------------------
(* What a reload keeps.                                                    *)

\* Nobody writes a table that is in use but the process that fills it.
LEMMA TableStays ==
    ASSUME IInv, NEW q \in Procs,
           \/ Handshake(q) \/ Load(q) \/ Reload(q) \/ ReloadLock(q)
           \/ FreeDying(q) \/ CertsLoad(q) \/ CertsLoaded(q) \/ CertsFree(q),
           NEW t \in Tables, Held(t), fresh[q] # t
    PROVE  hosts'[t] = hosts[t] /\ fallback'[t] = fallback[t]
<1>0. t \in live /\ \A w \in Procs : dying[w] # t
  BY DEF IInv, NoTableFreedInUse
<1>1. CASE Handshake(q)
  BY <1>1 DEF Handshake, Prologue, SslNew, SslNewFails, ClientHello, SslFree, PrologueOut,
     tableVars
<1>2. CASE LoadBegin(q)
  BY <1>0, <1>2 DEF LoadBegin, tableVars, IInv, TablesOK
<1>3. ASSUME NEW h \in Hosts, LoadHost(q, h)
      PROVE  hosts'[t] = hosts[t] /\ fallback'[t] = fallback[t]
  BY <1>3 DEF LoadHost, AddHost, IInv, TablesOK
<1>4. CASE LoadEnd(q)
  BY <1>4 DEF LoadEnd, TableFree, IInv, TablesOK
<1>5. CASE Reload(q) \/ ReloadLock(q) \/ CertsLoad(q) \/ CertsFree(q)
  BY <1>5 DEF Reload, ReloadAcquire, ReloadSwap, ReloadDropStores, ReloadDropOwn,
     ReloadUnlock, ReloadLock, CertsLoad, CertsFree, tableVars
<1>6. CASE FreeDying(q)
  BY <1>0, <1>6 DEF FreeDying, TableFree, IInv, TablesOK
<1>7. CASE CertsLoaded(q)
  BY <1>7 DEF CertsLoaded, TableFree, tableVars, IInv, TablesOK
<1> QED
  BY <1>1, <1>2, <1>3, <1>4, <1>5, <1>6, <1>7 DEF Load

\* The tables of a reload that is at "load" or at "swap".
LEMMA ReloadTables ==
    ASSUME IInv, NEW w \in Procs, reload = w, pc[w] \in {"load", "swap"}
    PROVE  /\ mine[w] \in Tables /\ Held(mine[w])
           /\ fresh[w] \in Tables /\ Held(fresh[w])
           /\ mine[w] # fresh[w]
BY DEF IInv, TablesOK, PlaceInv, FreshInv, Held

\* A reload whose own state and tables stay as they are keeps what it has.
LEMMA KeepsOn ==
    ASSUME NEW w \in Procs, Keeps(w),
           pc'[w] \in {"load", "swap"} =>
              /\ pc'[w] = pc[w] /\ mine'[w] = mine[w] /\ fresh'[w] = fresh[w]
              /\ todo'[w] = todo[w] /\ gone'[w] = gone[w]
              /\ hosts'[mine[w]] = hosts[mine[w]] /\ fallback'[mine[w]] = fallback[mine[w]]
              /\ hosts'[fresh[w]] = hosts[fresh[w]] /\ fallback'[fresh[w]] = fallback[fresh[w]]
    PROVE  Keeps(w)'
<1> SUFFICES ASSUME pc'[w] \in {"load", "swap"} PROVE Keeps(w)'
  BY DEF Keeps
<1>1. /\ Served(mine[w])' = Served(mine[w])
      /\ Served(fresh[w])' = Served(fresh[w])
  BY DEF Served
<1>2. ASSUME NEW h \in Hosts, Answers(fresh[w], mine[w], h)
      PROVE  Answers(fresh[w], mine[w], h)'
  BY <1>1, <1>2 DEF Answers
<1> QED
  BY <1>1, <1>2 DEF Keeps

\* A step of another process is such a step.
LEMMA KeepsOthers ==
    ASSUME IInv, NEW q \in Procs, NEW w \in Procs, w # q,
           \/ Handshake(q) \/ Load(q) \/ Reload(q) \/ ReloadLock(q)
           \/ FreeDying(q) \/ CertsLoad(q) \/ CertsLoaded(q) \/ CertsFree(q),
           reload = w => Keeps(w), reload' = w
    PROVE  Keeps(w)'
<1>1. /\ reload = w
      /\ pc'[w] = pc[w] /\ mine'[w] = mine[w] /\ fresh'[w] = fresh[w]
      /\ todo'[w] = todo[w] /\ gone'[w] = gone[w]
  <2>1. CASE Handshake(q)
    BY <2>1 DEF Handshake, Prologue, SslNew, SslNewFails, ClientHello, SslFree, PrologueOut,
       Acquire, Goto, loadVars, IInv, TablesOK
  <2>2. CASE LoadBegin(q) \/ LoadEnd(q)
    BY <2>2 DEF LoadBegin, LoadEnd, GiveUp, Forget, Goto, loadVars, IInv, TablesOK
  <2>3. ASSUME NEW h \in Hosts, LoadHost(q, h)
        PROVE  /\ reload = w
               /\ pc'[w] = pc[w] /\ mine'[w] = mine[w] /\ fresh'[w] = fresh[w]
               /\ todo'[w] = todo[w] /\ gone'[w] = gone[w]
    BY <2>3 DEF LoadHost, IInv, TablesOK
  <2>4. CASE Reload(q)
    BY <2>4, CertsAssumption DEF Reload, ReloadAcquire, ReloadSwap, ReloadDropStores,
       ReloadDropOwn, ReloadUnlock, Acquire, Forget, Goto, loadVars, IInv, TablesOK
  <2>5. CASE ReloadLock(q) \/ FreeDying(q) \/ CertsLoad(q) \/ CertsFree(q)
    BY <2>5 DEF ReloadLock, FreeDying, CertsLoad, CertsFree, Goto, loadVars, IInv, TablesOK
  <2>6. CASE CertsLoaded(q)
    BY <2>6 DEF CertsLoaded, Forget, Goto, IInv, TablesOK
  <2> QED
    BY <2>1, <2>2, <2>3, <2>4, <2>5, <2>6 DEF Load
<1>2. ASSUME pc[w] \in {"load", "swap"}
      PROVE  /\ hosts'[mine[w]] = hosts[mine[w]] /\ fallback'[mine[w]] = fallback[mine[w]]
             /\ hosts'[fresh[w]] = hosts[fresh[w]] /\ fallback'[fresh[w]] = fallback[fresh[w]]
  <2>1. fresh[q] # mine[w] /\ fresh[q] # fresh[w]
    BY <1>1, <1>2, ReloadTables, CertsAssumption DEF IInv, FreshInv
  <2> QED
    BY <1>1, <1>2, <2>1, ReloadTables, TableStays
<1> QED
  BY <1>1, <1>2, KeepsOn

\* The load of a reload keeps its own.
LEMMA KeepsLoading ==
    ASSUME IInv, NEW w \in Procs, Load(w), reload = w, Keeps(w),
           \A h \in todo[w] : fresh[w] # NoTable => hosts[fresh[w]][h] = NoCtx
    PROVE  Keeps(w)'
<1>1. CASE LoadBegin(w)
  <2>1. CASE GiveUp(w)
    <3>1. pc'[w] = "drop"
      BY <2>1 DEF GiveUp, Goto, Reloading, IInv, TablesOK
    <3> QED
      BY <3>1 DEF Keeps
  <2>2. ASSUME NEW t \in Tables,
               hosts' = [hosts EXCEPT ![t] = NoHosts],
               fallback' = [fallback EXCEPT ![t] = NoCtx],
               fresh' = [fresh EXCEPT ![w] = t],
               todo' = [todo EXCEPT ![w] = Hosts],
               Goto(w, "load")
        PROVE  Keeps(w)'
    <3>1. pc'[w] = "load" /\ todo'[w] = Hosts /\ fresh'[w] = t
          /\ fallback'[t] = NoCtx /\ hosts'[t] = NoHosts
      BY <2>2 DEF Goto, IInv, TablesOK
    <3>2. hosts'[t][Default] = NoCtx
      BY <3>1, CertsAssumption DEF NoHosts
    <3> QED
      BY <3>1, <3>2 DEF Keeps, Served
  <2> QED
    BY <1>1, <2>1, <2>2 DEF LoadBegin
<1>2. ASSUME NEW h \in Hosts, LoadHost(w, h) PROVE Keeps(w)'
  <2>0. PICK t \in Tables : t = fresh[w]
    BY <1>2, ReloadTables DEF LoadHost, At
  <2>1. PICK m \in Tables : m = mine[w] /\ m # t
    BY <1>2, <2>0, ReloadTables DEF LoadHost, At
  <2>2. /\ pc[w] = "load" /\ pc' = pc /\ mine' = mine /\ fresh' = fresh
        /\ todo'[w] = todo[w] \ {h} /\ h \in todo[w]
    BY <1>2 DEF LoadHost, At, IInv, TablesOK
  <2>3. /\ Served(m) \ (gone[w] \cup todo[w]) \subseteq Served(t)
        /\ fallback[t] = hosts[t][Default]
        /\ hosts[t][h] = NoCtx
    BY <2>0, <2>1, <2>2, CertsAssumption DEF Keeps
  <2> SUFFICES /\ Served(m)' \ (gone'[w] \cup todo'[w]) \subseteq Served(t)'
               /\ fallback'[t] = hosts'[t][Default]
    BY <2>0, <2>1, <2>2 DEF Keeps
  <2>4. CASE gone' = [gone EXCEPT ![w] = @ \cup {h}] /\ UNCHANGED <<hosts, fallback>>
    BY <2>2, <2>3, <2>4 DEF Served, IInv, TablesOK
  <2>5. ASSUME NEW c \in Ctxs, AddHost(w, h, c), UNCHANGED gone
        PROVE  /\ Served(m)' \ (gone'[w] \cup todo'[w]) \subseteq Served(t)'
               /\ fallback'[t] = hosts'[t][Default]
    <3>1. hosts' = [hosts EXCEPT ![t][h] = c]
          /\ fallback' = IF h = Default THEN [fallback EXCEPT ![t] = c] ELSE fallback
      BY <2>0, <2>5 DEF AddHost
    <3>2. hosts'[m] = hosts[m] /\ c # NoCtx
      BY <2>1, <3>1, CertsAssumption DEF IInv, TablesOK
    <3>3. \A g \in Hosts : hosts'[t][g] = IF g = h THEN c ELSE hosts[t][g]
      BY <3>1 DEF IInv, TablesOK
    <3>4. fallback'[t] = IF h = Default THEN c ELSE fallback[t]
      BY <3>1 DEF IInv, TablesOK
    <3>5. Served(m)' = Served(m) /\ Served(t)' = Served(t) \cup {h}
      BY <3>2, <3>3 DEF Served
    <3> QED
      BY <2>2, <2>3, <2>5, <3>3, <3>4, <3>5, CertsAssumption
  <2>6. CASE OldCtx(w, h) = NoCtx /\ UNCHANGED <<hosts, fallback, gone>>
    <3>1. h \notin Served(m)
      BY <2>1, <2>6, CertsAssumption DEF OldCtx, Served
    <3>2. Served(m)' = Served(m) /\ Served(t)' = Served(t)
      BY <2>6 DEF Served
    <3> QED
      BY <2>2, <2>3, <2>6, <3>1, <3>2
  <2>7. OldCtx(w, h) \in Ctxs \cup {NoCtx}
    BY DEF OldCtx, IInv, TablesOK
  <2> QED
    BY <1>2, <2>4, <2>5, <2>6, <2>7 DEF LoadHost
<1>3. CASE LoadEnd(w)
  <2>0. PICK t \in Tables : t = fresh[w]
    BY <1>3, ReloadTables DEF LoadEnd, At
  <2>1. PICK m \in Tables : m = mine[w] /\ m # t
    BY <1>3, <2>0, ReloadTables DEF LoadEnd, At
  <2>2. pc[w] = "load" /\ todo[w] = {} /\ mine' = mine /\ todo' = todo
    BY <1>3 DEF LoadEnd, At
  <2>3. /\ Served(m) \ (gone[w] \cup todo[w]) \subseteq Served(t)
        /\ fallback[t] = hosts[t][Default]
    BY <2>0, <2>1, <2>2 DEF Keeps
  <2>4. CASE GiveUp(w)
    <3>1. pc'[w] = "drop"
      BY <2>4 DEF GiveUp, Goto, Reloading, IInv, TablesOK
    <3> QED
      BY <3>1 DEF Keeps
  <2>5. CASE /\ \/ fallback[t] # NoCtx /\ UNCHANGED fallback
                \/ /\ fallback[t] = NoCtx
                   /\ \E c \in Previous(w, t) : fallback' = [fallback EXCEPT ![t] = c]
             /\ Goto(w, IF Reloading(w) THEN "swap" ELSE "publish")
             /\ UNCHANGED <<hosts, fresh, gone>>
    <3>1. pc'[w] = "swap"
      BY <2>5 DEF Goto, Reloading, IInv, TablesOK
    <3>2. Served(m)' = Served(m) /\ Served(t)' = Served(t)
      BY <2>5 DEF Served
    <3>3. \E h \in Hosts : Answers(t, m, h)'
      <4>1. CASE fallback[t] # NoCtx /\ UNCHANGED fallback
        BY <2>3, <2>5, <4>1, CertsAssumption DEF Answers, Served
      <4>2. ASSUME NEW c \in Previous(w, t), fallback' = [fallback EXCEPT ![t] = c]
            PROVE  \E h \in Hosts : Answers(t, m, h)'
        <5>1. PICK h \in Served(t) : hosts[m][h] = fallback[m] /\ c = hosts[t][h]
          BY <2>1, <4>2, CertsAssumption DEF Previous
        <5>2. fallback'[t] = c /\ fallback'[m] = fallback[m]
          BY <2>1, <4>2 DEF IInv, TablesOK
        <5>3. Answers(t, m, h)'
          BY <2>5, <3>2, <5>1, <5>2 DEF Answers
        <5> QED
          BY <5>1, <5>3 DEF Served
      <4> QED
        BY <2>5, <4>1, <4>2
    <3> QED
      BY <2>0, <2>1, <2>2, <2>3, <2>5, <3>1, <3>2, <3>3 DEF Keeps
  <2> QED
    BY <1>3, <2>0, <2>4, <2>5 DEF LoadEnd
<1> QED
  BY <1>1, <1>2, <1>3 DEF Load

\* The reload's other steps leave its load behind.
LEMMA KeepsOwn ==
    ASSUME IInv, NEW w \in Procs,
           \/ Handshake(w) \/ Reload(w) \/ ReloadLock(w)
           \/ FreeDying(w) \/ CertsLoad(w) \/ CertsLoaded(w) \/ CertsFree(w),
           reload = w => Keeps(w), reload' = w
    PROVE  Keeps(w)'
<1>1. CASE Handshake(w)
  <2>1. reload = w /\ pc[w] \notin {"load", "swap"} /\ pc'[w] \notin {"load", "swap"}
    BY <1>1 DEF Handshake, Prologue, SslNew, SslNewFails, ClientHello, SslFree, PrologueOut,
       At, Goto, IInv, TablesOK
  <2> QED
    BY <2>1 DEF Keeps
<1>2. CASE Reload(w) \/ ReloadLock(w)
  <2>1. pc'[w] \notin {"load", "swap"}
    BY <1>2 DEF Reload, ReloadAcquire, ReloadSwap, ReloadDropStores, ReloadDropOwn,
       ReloadUnlock, ReloadLock, Goto, IInv, TablesOK
  <2> QED
    BY <2>1 DEF Keeps
<1>3. CASE CertsLoad(w) \/ CertsLoaded(w) \/ CertsFree(w)
  <2>1. pc'[w] \notin {"load", "swap"}
    BY <1>3 DEF CertsLoad, CertsLoaded, CertsFree, At, Goto, IInv, TablesOK
  <2> QED
    BY <2>1 DEF Keeps
<1>4. CASE FreeDying(w)
  <2>1. reload = w /\ UNCHANGED <<pc, mine, fresh, todo, gone>>
    BY <1>4 DEF FreeDying, loadVars
  <2>2. ASSUME NEW t \in Tables, Held(t)
        PROVE  hosts'[t] = hosts[t] /\ fallback'[t] = fallback[t]
    BY <1>4, <2>2 DEF FreeDying, TableFree, IInv, TablesOK, NoTableFreedInUse
  <2> QED
    BY <2>1, <2>2, ReloadTables, KeepsOn
<1> QED
  BY <1>1, <1>2, <1>3, <1>4

\* Every step keeps what the reload under way has kept so far.
LEMMA KeepInductive == IInv /\ CtxInv /\ KeepInv /\ [Next]_vars => KeepInv'
<1> SUFFICES ASSUME IInv, CtxInv, KeepInv, [Next]_vars, NEW w \in Procs, reload' = w
             PROVE  Keeps(w)'
  BY DEF KeepInv
<1>0. reload = w => Keeps(w)
  BY DEF KeepInv
<1>1. CASE UNCHANGED vars
  BY <1>0, <1>1, KeepsOn DEF vars, tableVars, loadVars
<1>2. ASSUME NEW q \in Procs,
             \/ Handshake(q) \/ Load(q) \/ Reload(q) \/ ReloadLock(q)
             \/ FreeDying(q) \/ CertsLoad(q) \/ CertsLoaded(q) \/ CertsFree(q)
      PROVE  Keeps(w)'
  <2>1. CASE q # w
    BY <1>0, <1>2, <2>1, KeepsOthers
  <2>2. CASE q = w /\ Load(w)
    <3>1. reload = w
      BY <2>2 DEF Load, LoadBegin, LoadHost, LoadEnd
    <3> QED
      BY <1>0, <2>2, <3>1, KeepsLoading DEF CtxInv
  <2>3. CASE q = w /\ ~ Load(w)
    BY <1>0, <1>2, <2>3, KeepsOwn
  <2> QED
    BY <2>1, <2>2, <2>3
<1> QED
  BY <1>1, <1>2 DEF Next

\* A swap publishes a table that serves whatever the old one served and the
\* directory still has, and in which unmatched names go to `default` or to
\* the host they went to before (load, ioxd_certs_reload).
THEOREM ReloadsKeepHosts == Spec => ReloadKeepsHosts
<1>1. Init => KeepInv
  BY CertsAssumption DEF Init, KeepInv
<1>2. ASSUME IInv, KeepInv, NEW w \in Procs, ReloadSwap(w)
      PROVE  /\ Served(table) \ gone[w] \subseteq Served(table')
             /\ \E h \in Served(table') :
                  /\ hosts[table'][h] = fallback[table']
                  /\ h = Default \/ hosts[table][h] = fallback[table]
  <2>1. reload = w /\ pc[w] = "swap" /\ mine[w] = table /\ table' = fresh[w]
    BY <1>2 DEF ReloadSwap, At, IInv, PlaceInv, OldInv, InReload
  <2> QED
    BY <1>2, <2>1 DEF KeepInv, Keeps, Answers
<1>3. IInv /\ KeepInv /\ [Next]_vars =>
        [\A w \in Procs : ReloadSwap(w) =>
           /\ Served(table) \ gone[w] \subseteq Served(table')
           /\ \E h \in Served(table') :
                /\ hosts[table'][h] = fallback[table']
                /\ h = Default \/ hosts[table][h] = fallback[table]]_vars
  BY <1>2
<1> QED
  BY <1>1, <1>3, Invariance, CtxInitially, CtxInductive, KeepInductive, PTL
     DEF Spec, ReloadKeepsHosts
=============================================================================
