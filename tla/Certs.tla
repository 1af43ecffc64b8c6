------------------------------- MODULE Certs -------------------------------
(***************************************************************************)
(* The certificate store (lib/tls/certs.c): reference-counted tables of    *)
(* hosts, each host with an SSL_CTX that OpenSSL counts as well.  Worker   *)
(* threads run handshakes on the table that serves when they start, and    *)
(* any thread may reload the store meanwhile.                              *)
(*                                                                         *)
(* A process is one activity of one thread: a handshake or a reload.  What *)
(* the code does under certs->lock is one step here, and each stretch      *)
(* between two locks is at least one more, so that every interleaving the  *)
(* mutexes allow is a behaviour.  The contents of the directory are not    *)
(* state: each entry the loader reads turns out not to be a host, to load  *)
(* or to fail, as the files of that moment have it.                        *)
(***************************************************************************)
EXTENDS Integers, FiniteSets

CONSTANTS
    Procs,      \* the activities of the worker threads
    Tables,     \* the addresses calloc gives to struct table
    Ctxs,       \* the addresses OpenSSL gives to SSL_CTX
    Hosts,      \* the names of the directory's entries
    Default,    \* the entry `default`
    Names,      \* the server names clients send
    Wild,       \* the `_.parent` entry that stands for a name, or NoHost
    NoTable, NoCtx, NoProc, NoHost

ASSUME CertsAssumption ==
    /\ Default \in Hosts
    /\ IsFiniteSet(Procs)
    /\ IsFiniteSet(Hosts)
    /\ Wild \in [Names -> Hosts \cup {NoHost}]
    /\ NoTable \notin Tables
    /\ NoCtx \notin Ctxs
    /\ NoProc \notin Procs
    /\ NoHost \notin Hosts \cup Names

VARIABLES
    table,      \* certs->table; NoTable while there is no store
    reload,     \* the holder of certs->reload
    live,       \* the tables that are allocated
    refs,       \* t->refs
    hosts,      \* t->hosts: the context of each host the table has
    fallback,   \* t->fallback
    ctx,        \* OpenSSL's reference count of each context, 0 when freed
    pc,         \* where each process is
    mine,       \* the prologue's t, or the reload's old
    fresh,      \* the table load() is filling
    todo,       \* the entries readdir has still to give
    gone,       \* history: the entries this load found not to be hosts
    dying,      \* the table a release counted down to 0 and must free
    ssl         \* the context of the handshake's SSL

tableVars == <<live, refs, hosts, fallback>>
loadVars == <<fresh, todo, gone>>
vars == <<table, reload, tableVars, ctx, pc, mine, loadVars, dying, ssl>>

PCs == {"idle", "new", "hello", "shaken", "out",
        "open", "load", "publish",
        "locked", "swap", "drop2", "drop", "unlock"}

(* The state without OpenSSL's counts.                                     *)
TablesOK ==
    /\ table \in Tables \cup {NoTable}
    /\ reload \in Procs \cup {NoProc}
    /\ live \in SUBSET Tables
    /\ refs \in [Tables -> Nat]
    /\ hosts \in [Tables -> [Hosts -> Ctxs \cup {NoCtx}]]
    /\ fallback \in [Tables -> Ctxs \cup {NoCtx}]
    /\ pc \in [Procs -> PCs]
    /\ mine \in [Procs -> Tables \cup {NoTable}]
    /\ fresh \in [Procs -> Tables \cup {NoTable}]
    /\ todo \in [Procs -> SUBSET Hosts]
    /\ gone \in [Procs -> SUBSET Hosts]
    /\ dying \in [Procs -> Tables \cup {NoTable}]
    /\ ssl \in [Procs -> Ctxs \cup {NoCtx}]

NoHosts == [h \in Hosts |-> NoCtx]

Init ==
    /\ table = NoTable
    /\ reload = NoProc
    /\ live = {}
    /\ refs = [t \in Tables |-> 0]
    /\ hosts = [t \in Tables |-> NoHosts]
    /\ fallback = [t \in Tables |-> NoCtx]
    /\ ctx = [c \in Ctxs |-> 0]
    /\ pc = [w \in Procs |-> "idle"]
    /\ mine = [w \in Procs |-> NoTable]
    /\ fresh = [w \in Procs |-> NoTable]
    /\ todo = [w \in Procs |-> {}]
    /\ gone = [w \in Procs |-> {}]
    /\ dying = [w \in Procs |-> NoTable]
    /\ ssl = [w \in Procs |-> NoCtx]

----------------------------------------------------------------------------
(* Steps of a process.                                                     *)

(* A process that counted a table down to 0 frees it before anything else. *)
At(w, here) == pc[w] = here /\ dying[w] = NoTable

Goto(w, there) == pc' = [pc EXCEPT ![w] = there]

(* Mutant: the pointer is taken without counting.                          *)
AcquireUncounted(w) ==
    /\ mine' = [mine EXCEPT ![w] = table]
    /\ refs' = refs

(* certs_acquire: the table pointer and its count under one lock.          *)
Acquire(w) ==
    /\ mine' = [mine EXCEPT ![w] = table]
    /\ refs' = [refs EXCEPT ![table] = @ + 1]

(* Mutant: freed while one reference is left.                              *)
ReleaseEarly(w, t) ==
    /\ refs' = [refs EXCEPT ![t] = @ - 1]
    /\ dying' = [dying EXCEPT ![w] = IF refs[t] \in {1, 2} THEN t ELSE NoTable]

(* certs_release: the count goes down under the lock, and what it came to  *)
(* is looked at after the unlock.                                          *)
Release(w, t) ==
    /\ refs' = [refs EXCEPT ![t] = @ - 1]
    /\ dying' = [dying EXCEPT ![w] = IF refs[t] = 1 THEN t ELSE NoTable]

(* What table_free gives back of a context: one reference for each host.   *)
Slots(t, c) == {h \in Hosts : hosts[t][h] = c}

(* table_free; what it held is cleared, as nobody may read it any more.     *)
TableFree(t) ==
    /\ ctx' = [c \in Ctxs |-> ctx[c] - Cardinality(Slots(t, c))]
    /\ live' = live \ {t}
    /\ refs' = [refs EXCEPT ![t] = 0]
    /\ hosts' = [hosts EXCEPT ![t] = NoHosts]
    /\ fallback' = [fallback EXCEPT ![t] = NoCtx]

(* What a release that came to 0 does next.                                *)
FreeDying(w) ==
    /\ dying[w] # NoTable
    /\ TableFree(dying[w])
    /\ dying' = [dying EXCEPT ![w] = NoTable]
    /\ UNCHANGED <<table, reload, pc, mine, loadVars, ssl>>

----------------------------------------------------------------------------
(* The handshake, as far as it touches the store.                          *)

(* A context more in use and one less; either may be NoCtx.                *)
Swapped(up, down) ==
    [c \in Ctxs |-> ctx[c] + (IF c = up THEN 1 ELSE 0) - (IF c = down THEN 1 ELSE 0)]

(* The prologue starts: a listener uses the store, so there is one.        *)
Prologue(w) ==
    /\ At(w, "idle")
    /\ table # NoTable
    /\ Acquire(w)
    /\ Goto(w, "new")
    /\ UNCHANGED <<table, reload, live, hosts, fallback, ctx, loadVars, dying, ssl>>

(* SSL_new on the fallback's context, and the table bound to the SSL.      *)
SslNew(w) ==
    /\ At(w, "new")
    /\ ssl' = [ssl EXCEPT ![w] = fallback[mine[w]]]
    /\ ctx' = Swapped(fallback[mine[w]], NoCtx)
    /\ Goto(w, "hello")
    /\ UNCHANGED <<table, reload, tableVars, mine, loadVars, dying>>

(* Out of memory: no SSL to free, the table still to release.              *)
SslNewFails(w) ==
    /\ At(w, "new")
    /\ Goto(w, "out")
    /\ UNCHANGED <<table, reload, tableVars, ctx, mine, loadVars, dying, ssl>>

(* lookup: the name itself, then the wildcard of its parent domain.        *)
Lookup(t, name) ==
    IF name \in Hosts /\ hosts[t][name] # NoCtx THEN hosts[t][name]
    ELSE IF Wild[name] # NoHost THEN hosts[t][Wild[name]]
    ELSE NoCtx

(* The ClientHello names a host of the table the SSL is bound to, and      *)
(* SSL_set_SSL_CTX moves the SSL's reference; or it names none.            *)
ClientHello(w) ==
    /\ At(w, "hello")
    /\ \E c \in {Lookup(mine[w], name) : name \in Names} \cup {NoCtx} :
         IF c # NoCtx
           THEN /\ ctx' = Swapped(c, ssl[w])
                /\ ssl' = [ssl EXCEPT ![w] = c]
           ELSE UNCHANGED <<ctx, ssl>>
    /\ Goto(w, "shaken")
    /\ UNCHANGED <<table, reload, tableVars, mine, loadVars, dying>>

(* The prologue ends, well or at any of its failures: SSL_free.            *)
SslFree(w) ==
    /\ At(w, "hello") \/ At(w, "shaken")
    /\ ctx' = Swapped(NoCtx, ssl[w])
    /\ ssl' = [ssl EXCEPT ![w] = NoCtx]
    /\ Goto(w, "out")
    /\ UNCHANGED <<table, reload, tableVars, mine, loadVars, dying>>

(* and then the reference to the table.                                    *)
PrologueOut(w) ==
    /\ At(w, "out")
    /\ Release(w, mine[w])
    /\ mine' = [mine EXCEPT ![w] = NoTable]
    /\ Goto(w, "idle")
    /\ UNCHANGED <<table, reload, live, hosts, fallback, ctx, loadVars, ssl>>

----------------------------------------------------------------------------
(* load(dir, old), for the first table (mine is NoTable) and for a reload. *)

Reloading(w) == reload = w

(* Where load() returns NULL to: ioxd_certs_load gives up, a reload still  *)
(* has its reference to drop.                                              *)
GiveUp(w) == Goto(w, IF Reloading(w) THEN "drop" ELSE "idle")

(* opendir and calloc: a new table of no hosts, or NULL.                   *)
LoadBegin(w) ==
    /\ At(w, "open")
    /\ \/ \E t \in Tables \ live :
            /\ live' = live \cup {t}
            /\ refs' = [refs EXCEPT ![t] = 1]
            /\ hosts' = [hosts EXCEPT ![t] = NoHosts]
            /\ fallback' = [fallback EXCEPT ![t] = NoCtx]
            /\ fresh' = [fresh EXCEPT ![w] = t]
            /\ todo' = [todo EXCEPT ![w] = Hosts]
            /\ Goto(w, "load")
            /\ UNCHANGED gone
       \/ /\ GiveUp(w)
          /\ UNCHANGED <<tableVars, loadVars>>
    /\ UNCHANGED <<table, reload, ctx, mine, dying, ssl>>

(* Mutant: a host that fails to load is dropped.                           *)
OldCtxNever(w, h) == NoCtx

(* The context of a host in the table being replaced, which load() keeps   *)
(* for a host that fails to load.                                          *)
OldCtx(w, h) == IF mine[w] = NoTable THEN NoCtx ELSE hosts[mine[w]][h]

(* Mutant: an old context is shared without SSL_CTX_up_ref.                *)
AddHostNoUpRef(w, h, c) ==
    /\ ctx' = IF ctx[c] = 0 THEN [ctx EXCEPT ![c] = 1] ELSE ctx
    /\ hosts' = [hosts EXCEPT ![fresh[w]][h] = c]
    /\ fallback' = IF h = Default THEN [fallback EXCEPT ![fresh[w]] = c] ELSE fallback

(* A host of the new table: its context is one reference richer.           *)
AddHost(w, h, c) ==
    /\ ctx' = [ctx EXCEPT ![c] = @ + 1]
    /\ hosts' = [hosts EXCEPT ![fresh[w]][h] = c]
    /\ fallback' = IF h = Default THEN [fallback EXCEPT ![fresh[w]] = c] ELSE fallback

(* One directory entry: not a host; loaded; or failed, when the old        *)
(* context is shared if there is one.                                      *)
LoadHost(w, h) ==
    /\ At(w, "load")
    /\ h \in todo[w]
    /\ todo' = [todo EXCEPT ![w] = @ \ {h}]
    /\ \/ /\ gone' = [gone EXCEPT ![w] = @ \cup {h}]
          /\ UNCHANGED <<ctx, hosts, fallback>>
       \/ /\ \E c \in Ctxs : ctx[c] = 0 /\ AddHost(w, h, c)
          /\ UNCHANGED gone
       \/ /\ IF OldCtx(w, h) # NoCtx
               THEN AddHost(w, h, OldCtx(w, h))
               ELSE UNCHANGED <<ctx, hosts, fallback>>
          /\ UNCHANGED gone
    /\ UNCHANGED <<table, reload, live, refs, pc, mine, fresh, dying, ssl>>

(* load() is over, one way or the other.                                   *)
Forget(w) ==
    /\ fresh' = [fresh EXCEPT ![w] = NoTable]
    /\ gone' = [gone EXCEPT ![w] = {}]

Served(t) == {h \in Hosts : hosts[t][h] # NoCtx}

(* Mutant: the old table's own context goes on answering.                  *)
PreviousOld(w, t) == IF mine[w] = NoTable THEN {} ELSE {fallback[mine[w]]}

(* The context in t of the host that was answering for unmatched names, if *)
(* t has that host as well.                                                *)
Previous(w, t) ==
    IF mine[w] = NoTable THEN {}
    ELSE {hosts[t][h] : h \in {g \in Served(t) : hosts[mine[w]][g] = fallback[mine[w]]}}

(* The end of the directory: no host, or none to fall back on, is NULL.    *)
LoadEnd(w) ==
    /\ At(w, "load")
    /\ todo[w] = {}
    /\ LET t == fresh[w] IN
       \/ /\ \/ fallback[t] # NoCtx /\ UNCHANGED fallback
             \/ /\ fallback[t] = NoCtx
                /\ \E c \in Previous(w, t) : fallback' = [fallback EXCEPT ![t] = c]
          /\ Goto(w, IF Reloading(w) THEN "swap" ELSE "publish")
          /\ UNCHANGED <<live, refs, hosts, ctx, fresh, gone>>
       \/ /\ fallback[t] = NoCtx
          /\ Previous(w, t) = {}
          /\ TableFree(t)
          /\ Forget(w)
          /\ GiveUp(w)
    /\ UNCHANGED <<table, reload, mine, todo, dying, ssl>>

----------------------------------------------------------------------------
(* The store.                                                              *)

(* ioxd_certs_load: before anything listens with it.                       *)
CertsLoad(w) ==
    /\ \A q \in Procs : At(q, "idle")
    /\ table = NoTable
    /\ Goto(w, "open")
    /\ UNCHANGED <<table, reload, tableVars, ctx, mine, loadVars, dying, ssl>>

(* Its table is the store's, unless the store itself cannot be allocated.  *)
CertsLoaded(w) ==
    /\ At(w, "publish")
    /\ \/ /\ table' = fresh[w]
          /\ UNCHANGED <<tableVars, ctx>>
       \/ /\ TableFree(fresh[w])
          /\ UNCHANGED table
    /\ Forget(w)
    /\ Goto(w, "idle")
    /\ UNCHANGED <<reload, mine, todo, dying, ssl>>

(* ioxd_certs_free: called after ioxd_run returned, so nothing is under    *)
(* way.                                                                    *)
CertsFree(w) ==
    /\ \A q \in Procs : At(q, "idle")
    /\ table # NoTable
    /\ Release(w, table)
    /\ table' = NoTable
    /\ UNCHANGED <<reload, live, hosts, fallback, ctx, pc, mine, loadVars, ssl>>

(* ioxd_certs_reload: the mutex, the reference to the old table, load();   *)
ReloadLock(w) ==
    /\ At(w, "idle")
    /\ table # NoTable
    /\ reload = NoProc
    /\ reload' = w
    /\ Goto(w, "locked")
    /\ UNCHANGED <<table, tableVars, ctx, mine, loadVars, dying, ssl>>

ReloadAcquire(w) ==
    /\ At(w, "locked")
    /\ Acquire(w)
    /\ Goto(w, "open")
    /\ UNCHANGED <<table, reload, live, hosts, fallback, ctx, loadVars, dying, ssl>>

(* the new table in place of the old under the lock;                       *)
ReloadSwap(w) ==
    /\ At(w, "swap")
    /\ table' = fresh[w]
    /\ Forget(w)
    /\ Goto(w, "drop2")
    /\ UNCHANGED <<reload, tableVars, ctx, mine, todo, dying, ssl>>

(* Mutant: the old table is waited for until no handshake is on it.        *)
ReloadDropStoresWaits(w) ==
    /\ At(w, "drop2")
    /\ refs[mine[w]] = 2
    /\ Release(w, mine[w])
    /\ Goto(w, "drop")
    /\ UNCHANGED <<table, reload, live, hosts, fallback, ctx, mine, loadVars, ssl>>

(* the store's own reference to the old table;                             *)
ReloadDropStores(w) ==
    /\ At(w, "drop2")
    /\ Release(w, mine[w])
    /\ Goto(w, "drop")
    /\ UNCHANGED <<table, reload, live, hosts, fallback, ctx, mine, loadVars, ssl>>

(* the reload's; and the mutex.                                            *)
ReloadDropOwn(w) ==
    /\ At(w, "drop")
    /\ Release(w, mine[w])
    /\ mine' = [mine EXCEPT ![w] = NoTable]
    /\ Goto(w, "unlock")
    /\ UNCHANGED <<table, reload, live, hosts, fallback, ctx, loadVars, ssl>>

ReloadUnlock(w) ==
    /\ At(w, "unlock")
    /\ reload' = NoProc
    /\ Goto(w, "idle")
    /\ UNCHANGED <<table, tableVars, ctx, mine, loadVars, dying, ssl>>

----------------------------------------------------------------------------
Handshake(w) ==
    \/ Prologue(w) \/ SslNew(w) \/ SslNewFails(w)
    \/ ClientHello(w) \/ SslFree(w) \/ PrologueOut(w)

Load(w) == LoadBegin(w) \/ (\E h \in Hosts : LoadHost(w, h)) \/ LoadEnd(w)

Reload(w) ==
    \/ ReloadAcquire(w) \/ ReloadSwap(w) \/ ReloadDropStores(w)
    \/ ReloadDropOwn(w) \/ ReloadUnlock(w)

Next ==
    \E w \in Procs :
        \/ Handshake(w) \/ Load(w) \/ Reload(w) \/ ReloadLock(w)
        \/ FreeDying(w) \/ CertsLoad(w) \/ CertsLoaded(w) \/ CertsFree(w)

Spec == Init /\ [][Next]_vars

(* A thread in a reload has no await in it: it runs on.  Of handshakes     *)
(* nothing is assumed: a peer may never send its ClientHello.              *)
FairSpec ==
    Spec /\ \A w \in Procs : WF_vars(Load(w) \/ Reload(w) \/ FreeDying(w))

----------------------------------------------------------------------------
(* Properties.                                                             *)

(* Who owns a reference to a table besides the store: a handshake or a     *)
(* reload that holds it, the loader that fills it, and the reload that has *)
(* taken over the store's reference to the table it replaced.              *)
Holding(t) == {w \in Procs : mine[w] = t}
Filling(t) == {w \in Procs : fresh[w] = t}
Owing(t) == {w \in Procs : pc[w] = "drop2" /\ mine[w] = t}

(* t->refs is exactly the number of those and of the store: acquire, the   *)
(* two releases of a reload and the swap never lose a reference or count   *)
(* one twice.                                                              *)
RefsCountOwners ==
    \A t \in Tables :
        refs[t] = (IF table = t THEN 1 ELSE 0) + Cardinality(Holding(t))
                  + Cardinality(Filling(t)) + Cardinality(Owing(t))

Held(t) == table = t \/ \E w \in Procs : mine[w] = t \/ fresh[w] = t

(* A table somebody still has a pointer to is allocated, whatever reloads  *)
(* and other handshakes did; and a table is freed by one process only, the *)
(* one whose release was the last (ioxd__certs_release looks at the count  *)
(* after it unlocked).                                                     *)
NoTableFreedInUse ==
    \A t \in Tables :
        /\ Held(t) => t \in live
        /\ \A w \in Procs : dying[w] = t =>
             /\ t \in live
             /\ ~ Held(t)
             /\ \A q \in Procs : dying[q] = t => q = w

(* And no other table is allocated: one that is has a count, or a process  *)
(* that is about to free it.                                               *)
NothingLeaks ==
    \A t \in live : refs[t] > 0 \/ \E w \in Procs : dying[w] = t

(* A table lives exactly as long as it is needed.                          *)
TableLifetime == NoTableFreedInUse /\ NothingLeaks

(* A context can be in several tables (a host that failed to load keeps    *)
(* its old one) and in SSLs that outlive their table's turn: it is freed   *)
(* with the last of them, and no earlier or later.                         *)
ContextsCounted ==
    \A c \in Ctxs :
        ctx[c] = Cardinality({s \in live \X Hosts : hosts[s[1]][s[2]] = c})
                 + Cardinality({w \in Procs : ssl[w] = c})

(* A reload takes nothing away but entries that are no hosts any more: a   *)
(* host that fails to load is served on, and unmatched names go to         *)
(* `default` or to the host they went to before.                           *)
ReloadKeepsHosts ==
    [][\A w \in Procs :
         ReloadSwap(w) =>
           /\ Served(table) \ gone[w] \subseteq Served(table')
           /\ \E h \in Served(table') :
                /\ hosts[table'][h] = fallback[table']
                /\ h = Default \/ hosts[table][h] = fallback[table]]_vars

(* A reload ends even if handshakes never do: it waits for none of them.   *)
ReloadReturns == \A w \in Procs : Reloading(w) ~> ~ Reloading(w)
=============================================================================
