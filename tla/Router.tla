------------------------------- MODULE Router -------------------------------
(***************************************************************************)
(* src/lib/http/router.c: groups, endpoints and middleware registered by   *)
(* the application, resolved once into a tree of path segments, and the    *)
(* walk of a request down that tree.                                       *)
(*                                                                         *)
(* A path is the sequence of its segments: slashes are what next_segment   *)
(* and prepend make of them, a separator however often repeated.  A node   *)
(* of the tree is named by the edges that lead to it, so that the children *)
(* of a node are the nodes one edge longer.  A group, and an endpoint, is  *)
(* its place in the order of registration; 0 stands for nullptr.           *)
(***************************************************************************)
EXTENDS Naturals, Sequences, SequencesExt, FiniteSets

CONSTANTS
    Paths,        \* what an application registers: sequences of Seg and Cap
    GroupPaths,     \* of its groups
    Methods,      \* the methods it registers
    Mws,          \* its middleware
    Escaped,      \* the raw segments of requests that hold a %XX
    MAX_MW, MAX_ROUTE_PARAMS, SEEN_MAX, ALLOW_MAX, ROUTE_ARENA,
    MaxSize       \* bound: groups, endpoints, middleware and fallback registered

ASSUME RouterConstants ==
    {MAX_MW, MAX_ROUTE_PARAMS, SEEN_MAX, ALLOW_MAX, ROUTE_ARENA, MaxSize} \subseteq Nat

Seg(s) == [cap |-> FALSE, s |-> s]
Cap(s) == [cap |-> TRUE, s |-> s]

VARIABLES
    groups,       \* ioxd_group: parent, prefix, middleware; the first is g_root
    g_current,    \* the group the script form registers into
    endpoints,    \* g_first .. g_last, in the order of their seq
    g_fallback,   \* "not_found", or the application's own
    g_built,
    tree,         \* g_tree: the endpoints of each node
    resolved      \* of each endpoint: the names of its captures, its chain

routerVars == <<groups, g_current, endpoints, g_fallback, g_built, tree, resolved>>

RouterInit ==
    /\ groups = <<[parent |-> 0, prefix |-> <<>>, mws |-> <<>>]>>
    /\ g_current = 1
    /\ endpoints = <<>>
    /\ g_fallback = "not_found"
    /\ g_built = FALSE
    /\ tree = [n \in {<<>>} |-> <<>>]
    /\ resolved = <<>>

-----------------------------------------------------------------------------
(* Registration.                                                           *)

(* Mutant: late registrations are taken.                                   *)
too_lateNever == FALSE

(* Once the table is built everything but a new group is ignored.          *)
too_late == g_built

Added(s) == FoldLeft(LAMBDA n, x : n + Len(x.mws), 0, s)
Size == Len(groups) - 1 + Len(endpoints) + Added(groups) + Added(endpoints)
        + (IF g_fallback = "custom" THEN 1 ELSE 0)

\* The middleware a list gets to hold: past IOXD_MAX_MW one is dropped.
Using(mws, new) == SubSeq(mws \o new, 1, IF Len(mws \o new) < MAX_MW THEN Len(mws \o new) ELSE MAX_MW)

ioxd_group_new(parent, prefix) ==
    /\ Size < MaxSize
    /\ groups' = Append(groups, [parent |-> parent, prefix |-> prefix, mws |-> <<>>])
    /\ UNCHANGED <<g_current, endpoints, g_fallback, g_built, tree, resolved>>

ioxd_group_use(g, mw) ==
    /\ Size < MaxSize
    /\ groups' = IF too_late THEN groups
                 ELSE [groups EXCEPT ![g].mws = Using(@, <<mw>>)]
    /\ UNCHANGED <<g_current, endpoints, g_fallback, g_built, tree, resolved>>

ioxd_route(g, method, path, mws) ==
    /\ Size + Len(mws) < MaxSize
    /\ endpoints' = IF too_late THEN endpoints
                    ELSE Append(endpoints, [group |-> g, method |-> method,
                                            path |-> path, mws |-> Using(<<>>, mws)])
    /\ UNCHANGED <<groups, g_current, g_fallback, g_built, tree, resolved>>

ioxd_endpoint_use(e, mw) ==
    /\ Size < MaxSize
    /\ endpoints' = IF too_late THEN endpoints
                    ELSE [endpoints EXCEPT ![e].mws = Using(@, <<mw>>)]
    /\ UNCHANGED <<groups, g_current, g_fallback, g_built, tree, resolved>>

\* The script form: a group opened below the current one with its middleware,
\* and closed (group_end, or group_pop when the block is left early).
group_begin(prefix, mws) ==
    /\ Size + Len(mws) < MaxSize
    /\ groups' = Append(groups, [parent |-> g_current, prefix |-> prefix,
                                 mws |-> IF too_late THEN <<>> ELSE Using(<<>>, mws)])
    /\ g_current' = Len(groups')
    /\ UNCHANGED <<endpoints, g_fallback, g_built, tree, resolved>>

group_end ==
    /\ groups[g_current].parent # 0
    /\ g_current' = groups[g_current].parent
    /\ UNCHANGED <<groups, endpoints, g_fallback, g_built, tree, resolved>>

ioxd_default ==
    /\ Size < MaxSize
    /\ g_fallback' = IF too_late THEN g_fallback ELSE "custom"
    /\ UNCHANGED <<groups, g_current, endpoints, g_built, tree, resolved>>

MwLists == {<<>>} \cup {<<m>> : m \in Mws}

Register ==
    \/ \E p \in GroupPaths, g \in DOMAIN groups : ioxd_group_new(g, p)
    \/ \E m \in Mws, g \in DOMAIN groups : ioxd_group_use(g, m)
    \/ \E p \in Paths, m \in Methods, g \in DOMAIN groups : ioxd_route(g, m, p, <<>>)
    \/ \E e \in DOMAIN endpoints, m \in Mws : ioxd_endpoint_use(e, m)
    \/ \E p \in GroupPaths, ms \in MwLists : group_begin(p, ms)
    \/ \E p \in Paths, m \in Methods, ms \in MwLists : ioxd_route(g_current, m, p, ms)
    \/ group_end
    \/ ioxd_default

-----------------------------------------------------------------------------
(* Resolution, once, from ioxd_run.                                        *)

\* The group and all above it, outermost first.
Above[g \in 0..Len(groups)] == IF g = 0 THEN <<>> ELSE Append(Above[groups[g].parent], g)
GroupsOf(e) == Above[endpoints[e].group]

\* An endpoint's own with what its groups have prepended, from the inmost up.
Prepended(own, parts) ==
    LET up[i \in 0..Len(parts)] ==
            IF i = 0 THEN own ELSE parts[Len(parts) + 1 - i] \o up[i - 1]
    IN up[Len(parts)]

full_path(e) ==
    Prepended(endpoints[e].path, [i \in DOMAIN GroupsOf(e) |-> groups[GroupsOf(e)[i]].prefix])

flatten_chain(e) ==
    Prepended(endpoints[e].mws, [i \in DOMAIN GroupsOf(e) |-> groups[GroupsOf(e)[i]].mws])

Param == Cap("")
Edges(path) == [i \in DOMAIN path |-> IF path[i].cap THEN Param ELSE path[i]]
Captures(path) == SelectSeq(path, LAMBDA s : s.cap)

\* The steps of insert down an endpoint's path: all of it, or up to the
\* capture past IOXD_MAX_ROUTE_PARAMS, where it gives the endpoint up.
Reach(path) == CHOOSE n \in 0..Len(path) :
    /\ Len(Captures(SubSeq(path, 1, n))) <= MAX_ROUTE_PARAMS
    /\ n < Len(path) => Len(Captures(SubSeq(path, 1, n + 1))) > MAX_ROUTE_PARAMS

\* Put an endpoint into the tree: the nodes on its way made if missing, and
\* the endpoint at the last of them unless its method is there already.
insert(t, e) ==
    LET path == full_path(e)
        n    == Reach(path)
        way  == {Edges(SubSeq(path, 1, i)) : i \in 0..n}
        made == [d \in DOMAIN t \cup way |-> IF d \in DOMAIN t THEN t[d] ELSE <<>>]
        last == Edges(path)
    IN IF n < Len(path) \/ \E i \in DOMAIN made[last] :
                               endpoints[made[last][i]].method = endpoints[e].method
       THEN made
       ELSE [made EXCEPT ![last] = Append(@, e)]

\* The tree with the first endpoints in it, in the order they were registered.
Inserted[n \in 0..Len(endpoints)] == IF n = 0 THEN tree ELSE insert(Inserted[n - 1], n)

\* ep->names, an array of zeros (here "") before insert fills it.
Names(e) == LET path == full_path(e)
                caps == Captures(SubSeq(path, 1, Reach(path)))
            IN [i \in 1..MAX_ROUTE_PARAMS |-> IF i <= Len(caps) THEN caps[i].s ELSE ""]

ioxd__router_build ==
    /\ g_built' = TRUE
    /\ IF g_built THEN UNCHANGED <<tree, resolved>>
       ELSE /\ tree' = Inserted[Len(endpoints)]
            /\ resolved' = [e \in DOMAIN endpoints |->
                               [names |-> Names(e), chain |-> flatten_chain(e)]]
    /\ UNCHANGED <<groups, g_current, endpoints, g_fallback>>

-----------------------------------------------------------------------------
(* A request: [method, path], the path a sequence of raw segments.         *)

\* The endpoint of a node for a method, its GET for a HEAD it has not; or 0.
endpoint_for(node, method) ==
    LET with(m) == {e \in ToSet(tree[node]) : endpoints[e].method = m} IN
    CASE with(method) # {}                     -> CHOOSE e \in with(method) : TRUE
      [] method = "HEAD" /\ with(method) = {}
                         /\ with("GET") # {}   -> CHOOSE e \in with("GET") : TRUE
      [] OTHER                                 -> 0

(* Mutant: what the failed branch captured stays in the request.           *)
GiveBackNot(st, mark) == st

\* A branch that came to nothing gives back what it captured.
GiveBack(st, mark) == [st EXCEPT !.params = SubSeq(@, 1, mark)]

\* What the walk leaves in the request (the captured segments) and in seen
\* (the ends of the path it reached).
Walks(req) == [ep : 0..Len(endpoints), params : Seq(ToSet(req.path)), seen : Seq(DOMAIN tree)]

\* One node, with n segments of the path to go: its static child, and then its
\* capture; below is the walk from a child.
visit(req, n, below, node, st) ==
    IF n = 0
    THEN [st EXCEPT !.ep = endpoint_for(node, req.method),
                    !.seen = IF tree[node] # <<>> /\ Len(@) < SEEN_MAX
                             THEN Append(@, node) ELSE @]
    ELSE LET seg    == req.path[Len(req.path) + 1 - n]
             kid    == Append(node, Seg(seg))
             param  == Append(node, Param)
             static == IF kid \in DOMAIN tree THEN below[kid][st] ELSE st
             mark   == Len(static.params)
             capture == below[param][[static EXCEPT !.params = Append(@, seg)]]
         IN IF static.ep # 0 \/ param \notin DOMAIN tree \/ mark >= MAX_ROUTE_PARAMS
            THEN static
            ELSE IF capture.ep # 0 THEN capture
            ELSE GiveBack(capture, mark)

walk(req) ==
    LET down[n \in 0..Len(req.path)] ==
            [node \in DOMAIN tree |-> [st \in Walks(req) |-> visit(req, n, down[n - 1], node, st)]]
    IN down[Len(req.path)][<<>>][[ep |-> 0, params |-> <<>>, seen |-> <<>>]]

\* The captured segments percent-decoded, each while the arena has room for
\* its raw bytes.  An escaped segment has RawLen bytes and decodes to a third.
RawLen == 12
decoded(values) ==
    LET put(st, seg) ==
            IF seg \in Escaped /\ st.used + RawLen <= ROUTE_ARENA
            THEN [used |-> st.used + RawLen \div 3,
                  out |-> Append(st.out, [seg |-> seg, raw |-> FALSE])]
            ELSE [st EXCEPT !.out = Append(@, [seg |-> seg, raw |-> seg \in Escaped])]
    IN FoldLeft(put, [used |-> 0, out |-> <<>>], values).out

\* The endpoints of every node seen, each method once, sorted by seq.
allowed_endpoints(seen) ==
    LET add(out, e) ==
            IF Len(out) = ALLOW_MAX \/ \E i \in DOMAIN out :
                   endpoints[out[i]].method = endpoints[e].method
            THEN out
            ELSE LET before == SelectSeq(out, LAMBDA f : f < e) IN
                 before \o <<e>> \o SubSeq(out, Len(before) + 1, Len(out))
    IN FoldLeft(add, <<>>, FlattenSeq([i \in DOMAIN seen |-> tree[seen[i]]]))

\* The allow header: HEAD is written behind a GET that answers it; nothing at
\* all (<<>>) when the list does not fit the arena.
allow_value(seen) ==
    LET eps  == allowed_endpoints(seen)
        ms   == [i \in DOMAIN eps |-> endpoints[eps[i]].method]
        add  == "GET" \in ToSet(ms) /\ "HEAD" \notin ToSet(ms)
        out  == FlattenSeq([i \in DOMAIN ms |->
                    IF add /\ ms[i] = "GET" THEN <<"GET", "HEAD">> ELSE <<ms[i]>>])
        size == FoldLeft(LAMBDA n, m : n + Len(m) + 2, 0, out)
    IN IF size > ROUTE_ARENA + 1 THEN <<>> ELSE out

\* Where a request goes: to an endpoint behind its chain, or to one of the
\* fallbacks behind the root's.
Route(req) ==
    LET st == walk(req)
        values == decoded(st.params)
    IN IF st.ep # 0
       THEN [to |-> "endpoint", ep |-> st.ep, chain |-> resolved[st.ep].chain, allow |-> <<>>,
             params |-> [i \in DOMAIN values |->
                            [key |-> resolved[st.ep].names[i], value |-> values[i]]]]
       ELSE [to |-> IF st.seen # <<>> THEN "not_allowed" ELSE g_fallback, ep |-> 0,
             chain |-> groups[1].mws, params |-> <<>>, allow |-> allow_value(st.seen)]

-----------------------------------------------------------------------------
(* The chain of a request: n middleware and, last, the handler.  at is the *)
(* cursor of struct ioxd_next, open the links that are running, innermost  *)
(* last, ran every link that was started, again whether some middleware    *)
(* called ioxd_next_run more than once.                                    *)

NoRequest == [at |-> 0, open |-> <<>>]

(* Mutant: each link has a cursor of its own.                              *)
ioxd_next_runReplays(c) ==
    LET at == IF c.open = <<>> THEN 0 ELSE Last(c.open).link + 1 IN
    IF at > Len(c.route.chain) THEN c
    ELSE [c EXCEPT !.at = at + 1, !.open = Append(@, [link |-> at, called |-> FALSE]),
                   !.ran = Append(@, at)]

\* The next link, the handler behind the last; nothing once the handler ran.
ioxd_next_run(c) ==
    IF c.at > Len(c.route.chain) THEN c
    ELSE [c EXCEPT !.at = @ + 1, !.open = Append(@, [link |-> c.at, called |-> FALSE]),
                   !.ran = Append(@, c.at)]

\* ioxd__router_dispatch, up to the first middleware or the handler.
ioxd__router_dispatch(req) ==
    ioxd_next_run([req |-> req, route |-> Route(req), at |-> 0,
                   open |-> <<>>, ran |-> <<>>, again |-> FALSE])

InHandler(c) == c.open # <<>> /\ Last(c.open).link = Len(c.route.chain)

\* The innermost middleware calls ioxd_next_run, for the first time or again.
CallNext(c) ==
    LET me == Last(c.open) IN
    ioxd_next_run([c EXCEPT !.open = Append(Front(@), [me EXCEPT !.called = TRUE]),
                            !.again = @ \/ me.called])

\* The innermost middleware, or the handler, returns.
Returned(c) == IF Len(c.open) = 1 THEN NoRequest ELSE [c EXCEPT !.open = Front(@)]

=============================================================================
