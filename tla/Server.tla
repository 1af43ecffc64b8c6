------------------------------- MODULE Server -------------------------------
(***************************************************************************)
(* The application, the router and the workers together: routes are        *)
(* registered from the main thread, or too late from a handler; ioxd_run   *)
(* resolves them and starts the workers, which look requests up in the     *)
(* table they share without a lock and run them through their chains.      *)
(* Module Run is the life of the workers, module Router the table.         *)
(***************************************************************************)
EXTENDS Router, Run

CONSTANTS
    RequestPaths,     \* sequences of raw segments
    RequestMethods,
    SmallSize         \* bound: a larger application binds its port first, is run
                      \* once, on one worker, and is not stopped

ASSUME ServerConstants == RequestPaths \subseteq Seq(STRING)

VARIABLE ctx          \* the request each worker runs (the chain of Router), if any;
                      \* bound: one of them at a time

serverVars == <<routerVars, runVars, ctx>>

ServerInit == RouterInit /\ RunInit /\ ctx = [k \in Ids |-> NoRequest]

Small == Size <= SmallSize
NoneRuns == \A k \in Ids : ctx[k] = NoRequest
Serving(k) == main # "dead" /\ worker[k] \in {"loop", "drain"}

\* ioxd__run_http: the table is resolved, whether or not the run then starts.
ioxd_run(n) ==
    /\ Small \/ (n = 1 /\ runs = 0)
    /\ run_workers(n, "http") /\ ioxd__router_build
    /\ UNCHANGED ctx

\* ioxd_run_pipes leaves the router alone.
ioxd_run_pipes(n) ==
    /\ Small /\ run_workers(n, "pipe")
    /\ UNCHANGED <<routerVars, ctx>>

\* The application registers from the main thread, or from inside a handler.
Registers ==
    /\ main = "idle" \/ \E k \in Ids : Serving(k) /\ ctx[k] # NoRequest /\ InHandler(ctx[k])
    /\ Small \/ (g_n_listeners > 0 /\ ~g_built)
    /\ Register
    /\ UNCHANGED <<runVars, ctx>>

\* The engine hands a parsed request to the router.
Dispatch(k) ==
    /\ Serving(k) /\ handler = "http" /\ NoneRuns
    /\ \E p \in RequestPaths, m \in RequestMethods :
           ctx' = [ctx EXCEPT ![k] = ioxd__router_dispatch([method |-> m, path |-> p])]
    /\ UNCHANGED <<routerVars, runVars>>

Next_(k) ==
    /\ Serving(k) /\ ctx[k] # NoRequest /\ ~InHandler(ctx[k])
    /\ ctx' = [ctx EXCEPT ![k] = CallNext(@)]
    /\ UNCHANGED <<routerVars, runVars>>

Returns(k) ==
    /\ Serving(k) /\ ctx[k] # NoRequest
    /\ ctx' = [ctx EXCEPT ![k] = Returned(@)]
    /\ UNCHANGED <<routerVars, runVars>>

\* A worker that leaves abandons the coroutine it never resumes again.
Leaves(k) ==
    /\ Small /\ Leave(k)
    /\ ctx' = [ctx EXCEPT ![k] = NoRequest]
    /\ UNCHANGED routerVars

Lifecycle ==
    /\ \/ ioxd_bind \/ Main
       \/ Small /\ on_signal
       \/ \E k \in Ids : SetUp(k) \/ SeesStop(k)
    /\ UNCHANGED <<routerVars, ctx>>

ServerNext ==
    \/ Registers \/ Lifecycle
    \/ \E n \in 1..N : ioxd_run(n) \/ ioxd_run_pipes(n)
    \/ \E k \in Ids : Dispatch(k) \/ Next_(k) \/ Returns(k) \/ Leaves(k)

ServerSpec == ServerInit /\ [][ServerNext]_serverVars
FairServer == ServerSpec /\ RunFairness

-----------------------------------------------------------------------------
(* What a lookup must find, said of the registrations alone.               *)

Full(e) == full_path(e)

\* A registration counts unless it has too many captures or an earlier one
\* has its method on a path of the same shape.
Counts(e) ==
    /\ Len(Captures(Full(e))) <= MAX_ROUTE_PARAMS
    /\ \A f \in 1..e - 1 : endpoints[f].method = endpoints[e].method
                               => Edges(Full(f)) # Edges(Full(e))

Matching(path) ==
    {e \in DOMAIN endpoints :
        /\ Counts(e) /\ Len(Full(e)) = Len(path)
        /\ \A i \in DOMAIN path : Full(e)[i].cap \/ Full(e)[i].s = path[i]}

\* Static beats capture at the first segment where two routes differ.
Beats(e, f) ==
    \E i \in DOMAIN Full(e) :
        /\ ~Full(e)[i].cap /\ Full(f)[i].cap
        /\ \A j \in 1..i - 1 : Full(e)[j].cap = Full(f)[j].cap

\* The matching routes that answer the method: their own, or HEAD with a GET
\* that has no HEAD beside it.
Answering(req) ==
    {e \in Matching(req.path) :
        \/ endpoints[e].method = req.method
        \/ /\ req.method = "HEAD" /\ endpoints[e].method = "GET"
           /\ \A f \in Matching(req.path) :
                  endpoints[f].method = "HEAD" => Edges(Full(f)) # Edges(Full(e))}

Positions(e) == SelectSeq([i \in DOMAIN Full(e) |-> i], LAMBDA i : Full(e)[i].cap)

\* DispatchIsRight.  Whatever was registered, in whatever order and however the
\* walk had to turn back: the route that answers is the matching one with the
\* method that wins at the first differing segment, with exactly its captures;
\* a path that has the method nowhere is a 405 that lists the methods it has
\* (router.h:55 of the public headers), within the limits the walk keeps; and
\* a path nobody registered is the fallback's.
DispatchIsRight ==
    \A k \in Ids : ctx[k] # NoRequest =>
        LET r    == ctx[k].route
            req  == ctx[k].req
            all  == Matching(req.path)
            able == Answering(req)
            ends == {Edges(Full(e)) : e \in all}
            meth == {endpoints[e].method : e \in all}
            offered == meth \cup IF "GET" \in meth THEN {"HEAD"} ELSE {}
        IN CASE able # {} ->
                  /\ r.to = "endpoint" /\ r.ep \in able
                  /\ \A f \in able \ {r.ep} : Beats(r.ep, f)
                  /\ Len(r.params) = Len(Positions(r.ep))
                  /\ \A i \in DOMAIN r.params :
                        /\ r.params[i].key = Full(r.ep)[Positions(r.ep)[i]].s
                        /\ r.params[i].value.seg = req.path[Positions(r.ep)[i]]
                        /\ r.params[i].value.raw => RawLen * Len(r.params) > ROUTE_ARENA
             [] able = {} /\ all # {} ->
                  /\ r.to = "not_allowed" /\ r.params = <<>>
                  /\ ToSet(r.allow) \subseteq offered /\ IsInjective(r.allow)
                  /\ req.method \notin ToSet(r.allow)
                  /\ (/\ Cardinality(ends) <= SEEN_MAX /\ Cardinality(meth) <= ALLOW_MAX
                      /\ r.allow # <<>>) => ToSet(r.allow) = offered
             [] OTHER -> r.to = g_fallback /\ r.params = <<>>

\* The middleware an endpoint was registered under, outermost first.
Under[g \in 0..Len(groups)] ==
    IF g = 0 THEN <<>> ELSE Under[groups[g].parent] \o groups[g].mws

\* ChainRunsOnce.  The links of a chain run in the order of their registration,
\* the root's first, each at most once however often a middleware calls
\* ioxd_next_run, and the handler last.  Unless one of them called it again, a
\* link runs only inside all those before it: a middleware that does not
\* call it keeps the handler from running.
ChainRunsOnce ==
    \A k \in Ids : ctx[k] # NoRequest =>
        LET c == ctx[k] IN
        /\ c.route.chain = IF c.route.ep = 0 THEN Under[1]
                           ELSE Under[endpoints[c.route.ep].group] \o endpoints[c.route.ep].mws
        /\ c.ran = [i \in 1..Len(c.ran) |-> i - 1] /\ Len(c.ran) <= Len(c.route.chain) + 1
        /\ ~c.again => \A i \in DOMAIN c.open : c.open[i].link = i - 1

\* TableIsReadOnly.  What the workers read without a lock never changes under
\* them, nor under the next run.
TableIsReadOnly ==
    [][g_built => /\ UNCHANGED <<tree, resolved, endpoints, g_fallback>>
                  /\ groups'[1] = groups[1]]_serverVars
=============================================================================
