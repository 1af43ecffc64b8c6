----------------------------- MODULE BodyProofs -----------------------------
(***************************************************************************)
(* The request loop keeps its place, answers once and keeps its promise,   *)
(* for any heads, any sizes of chunks, reads and buffers and any input.    *)
(*                                                                         *)
(* Where the server stands is not enough to know where it will stand: the  *)
(* tokens that wait were given their roles when they were written.  The    *)
(* invariant is a chain of positions through the queue, from the server's  *)
(* to the peer's, each one RFC 9112's step behind the one before.          *)
(***************************************************************************)
EXTENDS Body, WellFoundedInduction, SequenceTheorems, TLAPS

-----------------------------------------------------------------------------
(* The invariant.                                                          *)

Places == {"start", "size", "data", "chunk", "crlf", "trailer", "bad"}
Positions == {r \in [at : Places, left : Nat] : r.at \in {"data", "chunk"} => r.left > 0}
Items == [t : Tokens, role : Places]

PCs == {"head", "handler", "body", "chunk_end", "trailers", "drain", "finish", "closed"}
ReqType == [chunked : BOOLEAN, len : Nat, keep : BOOLEAN, expect : BOOLEAN]
StType == [body_read : Nat, body_done : BOOLEAN, body_whole : BOOLEAN, body_err : Int,
           chunk_left : Nat, continue_sent : BOOLEAN, taken : Nat]
Words == {"100", "head", "status", "500"}
ResType == [head_sent : BOOLEAN, close : BOOLEAN, failed : BOOLEAN, out : Seq(Words),
            said : {"none", "keep", "close"}, asked : BOOLEAN, short : BOOLEAN]
CallType == [op : {"none", "until", "next", "all", "drain"}, want : Nat, got : Nat,
             drained : Nat]

TypeOK ==
    /\ queue \in Seq(Items) /\ ref \in Positions
    /\ pc \in PCs /\ req \in ReqType /\ st \in StType
    /\ res \in ResType /\ call \in CallType

(* Where the server stands in the message.                                 *)
Server ==
    IF pc = "head" THEN At("start")
    ELSE IF pc = "chunk_end" THEN At("crlf")
    ELSE IF pc = "trailers" THEN At("trailer")
    ELSE IF st.body_done THEN At("start")
    ELSE IF ~req.chunked THEN [at |-> "data", left |-> req.len - st.body_read]
    ELSE IF st.chunk_left > 0 THEN [at |-> "chunk", left |-> st.chunk_left]
    ELSE At("size")

(* p leads from one position to the other through the tokens of q.         *)
Chain(p, q, from, to) ==
    /\ p \in [0..Len(q) -> Positions]
    /\ p[0] = from /\ p[Len(q)] = to
    /\ \A i \in 1..Len(q) :
         /\ p[i] = RefStep(p[i - 1], q[i].t)
         /\ q[i].role = IF p[i].at = "bad" THEN "bad" ELSE p[i - 1].at

Linked == pc # "closed" /\ st.body_err = 0 => \E p : Chain(p, queue, Server, ref)

(* The body's counters, by where the coroutine is.                         *)
Counted ==
    /\ ~req.chunked => /\ st.body_read <= req.len
                       /\ st.body_done <=> st.body_read = req.len
    /\ pc = "body" => ~st.body_done
    /\ pc = "body" /\ call.op = "all" /\ ~req.chunked => st.body_read = 0
    /\ pc \in {"chunk_end", "trailers"} => req.chunked /\ ~st.body_done /\ st.chunk_left = 0
    /\ pc = "head" => st.body_done /\ st.body_err = 0
    /\ pc = "finish" => st.body_err = 0 /\ (st.body_done \/ res.close)

(* What drain_body has taken so far.                                       *)
Drained == IF call.op # "drain" THEN 0
           ELSE call.drained + (IF pc = "body" THEN call.got ELSE 0)

(* What the reply's head said, and what is left of the body when it said   *)
(* that the connection stays open: no more than will be drained.           *)
Promised ==
    /\ pc = "drain" => call.op = "drain"
    /\ pc \in {"head", "handler", "finish"} => call.op # "drain"
    /\ res.head_sent <=> res.said # "none"
    /\ res.said = "close" => ~req.keep \/ res.close
    /\ res.said = "keep" => req.keep
    /\ pc # "closed" /\ res.said = "keep" /\ st.body_err = 0 => ~res.close \/ res.asked
    /\ res.asked => res.close
    /\ pc # "closed" => ~res.short
    /\ pc \notin {"head", "closed"} /\ res.said = "keep" /\ st.body_err = 0 /\ ~st.body_done =>
         /\ ~req.chunked
         /\ ~(req.expect /\ ~st.continue_sent)
         /\ req.len - st.body_read + Drained <= DrainMax

(* What was sent with the request unanswered, and with the 500 of a head   *)
(* that could not be built.                                                *)
Unanswered == {<<>>, <<"100">>}
Answers    == {<<"head">>, <<"100", "head">>}
Statuses   == {<<"status">>, <<"100", "status">>}
Dead       == {<<"500">>, <<"100", "500">>, <<"500", "100">>}
DeadTwice  == {<<"500", "status">>, <<"100", "500", "status">>, <<"500", "100", "status">>}

(* What was sent, by where the coroutine is.                               *)
Sent ==
    /\ pc \notin {"head", "closed"} =>
         /\ ~res.head_sent => /\ res.out \in Unanswered \/ (res.failed /\ res.out \in Dead)
                              /\ ~st.continue_sent => res.out \in {<<>>, <<"500">>}
         /\ res.head_sent => res.out \in Answers
    /\ pc = "head" => res.out \in {<<>>} \cup Answers
    /\ pc = "closed" => \/ res.out \in Unanswered \cup Answers \cup Statuses
                        \/ res.failed /\ res.out \in Dead \cup DeadTwice

Inv == TypeOK /\ Linked /\ Counted /\ Promised /\ Sent

-----------------------------------------------------------------------------
(* Numbers.                                                                *)

\* Induction, as a fact about sets.
LEMMA NatSet ==
    ASSUME NEW S, 0 \in S, \A n \in Nat : n \in S => n + 1 \in S
    PROVE  \A n \in Nat : n \in S
<1> SUFFICES ASSUME Nat \ S # {} PROVE FALSE
  OBVIOUS
<1> DEFINE R == OpToRel(<, Nat)
<1>1. IsWellFoundedOn(R, Nat)
  BY NatLessThanWellFounded
<1>2. \A x, y \in Nat : <<x, y>> \in R <=> x < y
  BY DEF OpToRel
<1> HIDE DEF R
<1>3. PICK x \in Nat \ S : \A y \in Nat \ S : ~ (<<y, x>> \in R)
  BY <1>1, WFMin
<1>4. x # 0 /\ x - 1 \in Nat /\ x - 1 < x
  BY <1>3
<1>5. x - 1 \in S
  BY <1>2, <1>3, <1>4
<1>6. (x - 1) + 1 \in S
  BY <1>4, <1>5
<1> QED BY <1>3, <1>4, <1>6

\* The least of two or three numbers is none greater.
LEMMA Least ==
    ASSUME NEW a \in Int, NEW b \in Int, NEW c \in Int
    PROVE  /\ Min({a, b}) \in {a, b} /\ Min({a, b}) <= a /\ Min({a, b}) <= b
           /\ Min({a, b, c}) \in {a, b, c}
           /\ Min({a, b, c}) <= a /\ Min({a, b, c}) <= b /\ Min({a, b, c}) <= c
<1>1. ASSUME NEW S, NEW x \in S, \A y \in S : x =< y
      PROVE  Min(S) \in S /\ \A y \in S : Min(S) =< y
  BY <1>1 DEF Min
<1>2. \E x \in {a, b} : \A y \in {a, b} : x =< y
  OBVIOUS
<1>3. \E x \in {a, b, c} : \A y \in {a, b, c} : x =< y
  OBVIOUS
<1> QED
  BY <1>1, <1>2, <1>3

-----------------------------------------------------------------------------
(* The chain.                                                              *)

\* A token has a kind, and what its kind has.
LEMMA TokenFields ==
    ASSUME NEW t \in Tokens
    PROVE  /\ t.k \in {"head", "size", "crlf", "junk"}
           /\ t.k = "head" => t \in HeadType
           /\ t.k = "size" => t.n \in Nat
BY BodyAssumption DEF Tokens, Line, Empty, Other, HeadType

\* RFC 9112's step leads from a position to a position.
LEMMA RefStepType ==
    ASSUME NEW r \in Positions, NEW t \in Tokens
    PROVE  RefStep(r, t) \in Positions
<1>1. r \in [at : Places, left : Nat] /\ (r.at \in {"data", "chunk"} => r.left > 0)
  BY DEF Positions
<1>2. CASE r.at = "start"
  BY <1>1, <1>2, TokenFields DEF RefStep, Positions, Places, At, HeadType
<1>3. CASE r.at = "size"
  BY <1>1, <1>3, TokenFields DEF RefStep, Positions, Places, At
<1>4. CASE r.at \in {"data", "chunk"}
  BY <1>1, <1>4 DEF RefStep, Positions, Places, At
<1>5. CASE r.at \in {"crlf", "trailer", "bad"}
  BY <1>1, <1>5 DEF RefStep, Positions, Places, At
<1> QED
  BY <1>1, <1>2, <1>3, <1>4, <1>5 DEF Places

\* The chain from the n-th token on.
LEMMA ChainTake ==
    ASSUME NEW q \in Seq(Items), NEW from, NEW to, NEW p, Chain(p, q, from, to),
           NEW n \in 0..Len(q)
    PROVE  \E c : Chain(c, SubSeq(q, n + 1, Len(q)), p[n], to)
<1> DEFINE s == SubSeq(q, n + 1, Len(q))
           c == [i \in 0..Len(q) - n |-> p[i + n]]
<1>0. Len(q) \in Nat
  OBVIOUS
<1>1. Len(s) = Len(q) - n /\ \A i \in 1..Len(s) : s[i] = q[i + n]
  BY <1>0
<1>2. c \in [0..Len(s) -> Positions] /\ c[0] = p[n] /\ c[Len(s)] = to
  BY <1>0, <1>1 DEF Chain
<1>3. ASSUME NEW i \in 1..Len(s)
      PROVE  /\ c[i] = RefStep(c[i - 1], s[i].t)
             /\ s[i].role = IF c[i].at = "bad" THEN "bad" ELSE c[i - 1].at
  <2>1. /\ i + n \in 1..Len(q) /\ s[i] = q[i + n] /\ c[i] = p[i + n]
        /\ c[i - 1] = p[(i + n) - 1]
    BY <1>0, <1>1
  <2> HIDE DEF s, c
  <2> QED
    BY <2>1 DEF Chain
<1> HIDE DEF s, c
<1>4. Chain(c, s, p[n], to)
  BY <1>2, <1>3 DEF Chain
<1> QED
  BY <1>4 DEF s

\* The peer writes on.
LEMMA ChainAppend ==
    ASSUME NEW q \in Seq(Items), NEW from, NEW to, NEW p, Chain(p, q, from, to),
           NEW x \in Items, NEW next \in Positions, next = RefStep(to, x.t),
           x.role = IF next.at = "bad" THEN "bad" ELSE to.at
    PROVE  \E c : Chain(c, Append(q, x), from, next)
<1> DEFINE s == Append(q, x)
           c == [i \in 0..Len(q) + 1 |-> IF i <= Len(q) THEN p[i] ELSE next]
<1>0. Len(q) \in Nat
  OBVIOUS
<1>1. Len(s) = Len(q) + 1 /\ s[Len(q) + 1] = x /\ \A i \in 1..Len(q) : s[i] = q[i]
  OBVIOUS
<1>2. c \in [0..Len(s) -> Positions] /\ c[0] = from /\ c[Len(s)] = next /\ c[Len(q)] = to
  BY <1>0, <1>1 DEF Chain
<1>3. \A i \in 0..Len(q) : c[i] = p[i]
  BY <1>0
<1>4. ASSUME NEW i \in 1..Len(s)
      PROVE  /\ c[i] = RefStep(c[i - 1], s[i].t)
             /\ s[i].role = IF c[i].at = "bad" THEN "bad" ELSE c[i - 1].at
  <2> HIDE DEF s, c
  <2>1. CASE i = Len(q) + 1
    <3>1. i - 1 = Len(q) /\ c[i] = next /\ s[i] = x
      BY <1>0, <1>1, <1>2, <2>1
    <3> QED
      BY <1>2, <3>1
  <2>2. CASE i \in 1..Len(q)
    <3>1. i - 1 \in 0..Len(q) /\ c[i] = p[i] /\ c[i - 1] = p[i - 1] /\ s[i] = q[i]
      BY <1>0, <1>1, <1>3, <2>2
    <3> QED
      BY <2>2, <3>1 DEF Chain
  <2> QED
    BY <1>0, <1>1, <2>1, <2>2
<1> HIDE DEF s, c
<1>5. Chain(c, s, from, next)
  BY <1>2, <1>4 DEF Chain
<1> QED
  BY <1>5 DEF s

(* The position n units into data of which left units are left.            *)
Into(where, left, n, behind) ==
    IF n < left THEN [at |-> where, left |-> left - n] ELSE At(behind)

\* As many units as are left of a body or of a chunk are its data, whatever
\* they look like.
LEMMA DataRun ==
    ASSUME NEW q \in Seq(Items), NEW to, NEW p, NEW left \in Nat, left > 0,
           NEW where, NEW behind, <<where, behind>> \in {<<"data", "start">>, <<"chunk", "crlf">>},
           Chain(p, q, [at |-> where, left |-> left], to),
           NEW n \in 0..Len(q), n <= left
    PROVE  p[n] = Into(where, left, n, behind)
<1> DEFINE S == {k \in Nat : k <= Len(q) /\ k <= left => p[k] = Into(where, left, k, behind)}
<1>0. Len(q) \in Nat
  OBVIOUS
<1>1. 0 \in S
  BY DEF Chain, Into
<1>2. ASSUME NEW k \in Nat, k \in S PROVE k + 1 \in S
  <2> SUFFICES ASSUME k + 1 <= Len(q), k + 1 <= left
               PROVE  p[k + 1] = Into(where, left, k + 1, behind)
    OBVIOUS
  <2>1. p[k] = [at |-> where, left |-> left - k]
    BY <1>0, <1>2 DEF Into
  <2>2. k + 1 \in 1..Len(q) /\ (k + 1) - 1 = k
    BY <1>0
  <2>3. p[k + 1] = RefStep(p[k], q[k + 1].t)
    BY <2>2 DEF Chain
  <2>4. CASE where = "data" /\ behind = "start"
    BY <2>1, <2>3, <2>4 DEF RefStep, Into, At
  <2>5. CASE where = "chunk" /\ behind = "crlf"
    BY <2>1, <2>3, <2>5 DEF RefStep, Into, At
  <2> QED
    BY <2>4, <2>5
<1> HIDE DEF S
<1>3. \A k \in Nat : k \in S
  BY <1>1, <1>2, NatSet
<1> QED
  BY <1>0, <1>3 DEF S

-----------------------------------------------------------------------------
(* What is sent.                                                           *)

\* Two words one after the other.
LEMMA TwoWords ==
    ASSUME NEW x \in Words, NEW y \in Words
    PROVE  Append(<<x>>, y) = <<x, y>> /\ <<x, y>> \in Seq(Words)
<1> DEFINE s == Append(<<x>>, y)
           t == <<x, y>>
<1>1. <<x>> \in Seq(Words) /\ Len(<<x>>) = 1
  OBVIOUS
<1>2. s \in Seq(Words) /\ Len(s) = 2 /\ s[1] = x /\ s[2] = y
  BY <1>1
<1>3. t \in Seq(Words) /\ Len(t) = 2 /\ t[1] = x /\ t[2] = y
  OBVIOUS
<1> HIDE DEF s, t
<1>4. \A i \in 1..Len(s) : s[i] = t[i]
  BY <1>2, <1>3
<1>5. s = t
  BY <1>2, <1>3, <1>4, SeqEqual
<1> QED BY <1>3, <1>5 DEF s, t

\* And a third.
LEMMA ThreeWords ==
    ASSUME NEW x \in Words, NEW y \in Words, NEW z \in Words
    PROVE  Append(<<x, y>>, z) = <<x, y, z>> /\ <<x, y, z>> \in Seq(Words)
<1> DEFINE s == Append(<<x, y>>, z)
           t == <<x, y, z>>
<1>1. <<x, y>> \in Seq(Words) /\ Len(<<x, y>>) = 2
  OBVIOUS
<1>2. s \in Seq(Words) /\ Len(s) = 3 /\ s[1] = x /\ s[2] = y /\ s[3] = z
  BY <1>1
<1>3. t \in Seq(Words) /\ Len(t) = 3 /\ t[1] = x /\ t[2] = y /\ t[3] = z
  OBVIOUS
<1> HIDE DEF s, t
<1>4. \A i \in 1..Len(s) : s[i] = t[i]
  BY <1>2, <1>3
<1>5. s = t
  BY <1>2, <1>3, <1>4, SeqEqual
<1> QED BY <1>3, <1>5 DEF s, t

\* What a request can get is made of words.
LEMMA Says ==
    /\ Unanswered \subseteq Seq(Words) /\ Answers \subseteq Seq(Words)
    /\ Statuses \subseteq Seq(Words) /\ Dead \subseteq Seq(Words)
    /\ DeadTwice \subseteq Seq(Words)
<1>1. "100" \in Words /\ "head" \in Words /\ "status" \in Words /\ "500" \in Words
  BY DEF Words
<1>2. /\ <<>> \in Seq(Words) /\ <<"100">> \in Seq(Words) /\ <<"head">> \in Seq(Words)
      /\ <<"status">> \in Seq(Words) /\ <<"500">> \in Seq(Words)
  BY <1>1
<1> QED
  BY <1>1, <1>2, TwoWords, ThreeWords DEF Unanswered, Answers, Statuses, Dead, DeadTwice

\* What one more word makes of it.
LEMMA SaysMore ==
    ASSUME NEW o
    PROVE  /\ o \in Unanswered => /\ Append(o, "head") \in Answers
                                 /\ Append(o, "status") \in Statuses
                                 /\ Append(o, "500") \in Dead
           /\ o \in Dead => Append(o, "status") \in DeadTwice
           /\ o = <<>> => Append(o, "100") \in Unanswered /\ Append(o, "500") = <<"500">>
           /\ o = <<"500">> => Append(o, "100") \in Dead
<1>1. "100" \in Words /\ "head" \in Words /\ "status" \in Words /\ "500" \in Words
  BY DEF Words
<1>2. \A x \in Words : Append(<<>>, x) = <<x>>
  OBVIOUS
<1>3. \A x \in Words, y \in Words : Append(<<x>>, y) = <<x, y>>
  BY TwoWords
<1>4. \A x \in Words, y \in Words, z \in Words : Append(<<x, y>>, z) = <<x, y, z>>
  BY ThreeWords
<1>5. \A y \in Words : Append(<<"100">>, y) = <<"100", y>> /\ Append(<<"500">>, y) = <<"500", y>>
  BY <1>1, <1>3
<1>6. /\ Append(<<"100", "500">>, "status") = <<"100", "500", "status">>
      /\ Append(<<"500", "100">>, "status") = <<"500", "100", "status">>
  BY <1>1, <1>4
<1> QED
  BY <1>1, <1>2, <1>5, <1>6 DEF Unanswered, Answers, Statuses, Dead, DeadTwice

-----------------------------------------------------------------------------
(* The parts of the steps.                                                 *)

\* A step that takes nothing keeps the chain, if the server stands where it
\* stood.
LEMMA LinkedStays ==
    ASSUME Linked, queue' = queue, ref' = ref,
           pc' # "closed" /\ st'.body_err = 0 =>
              pc # "closed" /\ st.body_err = 0 /\ Server' = Server
    PROVE  Linked'
BY DEF Linked

\* A step that takes n tokens keeps it, if the server then stands where they
\* lead.
LEMMA LinkedTakes ==
    ASSUME TypeOK, Linked, NEW n \in 0..Len(queue), Took(n), pc # "closed",
           st'.body_err = 0 => st.body_err = 0,
           \A p : Chain(p, queue, Server, ref) => Server' = p[n]
    PROVE  Linked' /\ queue' \in Seq(Items) /\ ref' \in Positions
<1>1. queue' = SubSeq(queue, n + 1, Len(queue)) /\ ref' = ref
  BY DEF Took, Take
<1>2. queue' \in Seq(Items)
  BY <1>1 DEF TypeOK
<1>3. ASSUME st'.body_err = 0
      PROVE  \E p : Chain(p, queue', Server', ref')
  <2>1. PICK p : Chain(p, queue, Server, ref)
    BY <1>3 DEF Linked
  <2>2. \E c : Chain(c, SubSeq(queue, n + 1, Len(queue)), p[n], ref)
    BY <2>1, ChainTake DEF TypeOK
  <2> QED
    BY <1>1, <2>1, <2>2
<1>4. Linked'
  <2>1. (\E p : Chain(p, queue, Server, ref))' <=> \E p : Chain(p, queue', Server', ref')
    BY DEF Chain, RefStep, At
  <2> QED
    BY <1>3, <2>1 DEF Linked
<1> QED
  BY <1>1, <1>2, <1>4 DEF TypeOK

\* A read that fails.
LEMMA Refuses ==
    ASSUME TypeOK, NEW err \in Int, Refuse(err)
    PROVE  /\ st' = [st EXCEPT !.body_err = err] /\ st' \in StType /\ st'.body_err = err
           /\ st'.body_read = st.body_read /\ st'.body_done = st.body_done
           /\ st'.continue_sent = st.continue_sent
           /\ pc' \in {"drain", "handler"} /\ call' \in CallType
           /\ pc' = "drain" => call'.op = "drain"
           /\ pc' = "handler" => call'.op # "drain"
<1>1. st' = [st EXCEPT !.body_err = err] /\ st' \in StType
  BY DEF Refuse, Back, TypeOK, StType
<1>2. /\ st'.body_err = err /\ st'.body_read = st.body_read /\ st'.body_done = st.body_done
      /\ st'.continue_sent = st.continue_sent
  BY <1>1 DEF TypeOK, StType
<1>3. [call EXCEPT !.got = 0] \in CallType /\ [call EXCEPT !.got = 0].op = call.op
      /\ [call EXCEPT !.got = 0].got = 0
  BY DEF TypeOK, CallType
<1>4. CASE call.op = "drain"
  <2> DEFINE c == [call EXCEPT !.got = 0]
  <2>1. pc' = "drain" /\ call' = [c EXCEPT !.drained = @ + c.got]
    BY <1>3, <1>4 DEF Refuse, Back
  <2>2. c \in CallType /\ c.op = "drain" /\ c.got = 0
    BY <1>3, <1>4
  <2> HIDE DEF c
  <2>3. call' \in CallType /\ call'.op = "drain"
    BY <2>1, <2>2 DEF CallType
  <2> QED
    BY <1>1, <1>2, <2>1, <2>3
<1>5. CASE call.op # "drain"
  BY <1>1, <1>2, <1>3, <1>5 DEF Refuse, Back, NoCall, CallType
<1> QED
  BY <1>4, <1>5

\* A read that goes on, or has enough.
LEMMA GoesOn ==
    ASSUME NEW s \in StType, NEW c \in CallType, Goes(s, c)
    PROVE  /\ st' \in StType
           /\ st'.body_read = s.body_read /\ st'.body_done = s.body_done
           /\ st'.body_err = s.body_err /\ st'.chunk_left = s.chunk_left
           /\ st'.continue_sent = s.continue_sent
           /\ call' \in CallType
           /\ pc' \in {"body", "handler", "drain"}
           /\ pc' = "body" => ~s.body_done /\ call'.op = c.op
           /\ pc' = "drain" => call'.op = "drain"
           /\ pc' = "handler" => call'.op # "drain"
           /\ Drained' = IF c.op = "drain" THEN c.drained + c.got ELSE 0
<1> DEFINE t == [s EXCEPT !.body_whole = @ \/ (c.op = "all" /\ s.body_done)]
<1>1. /\ t \in StType
      /\ t.body_read = s.body_read /\ t.body_done = s.body_done
      /\ t.body_err = s.body_err /\ t.chunk_left = s.chunk_left
      /\ t.continue_sent = s.continue_sent
  BY DEF StType
<1>2. CASE Enough(s, c)
  <2>1. Back(t, c)
    BY <1>2 DEF Goes
  <2> HIDE DEF t
  <2>2. st' = t
    BY <2>1 DEF Back
  <2>3. CASE c.op = "drain"
    <3>1. pc' = "drain" /\ call' = [c EXCEPT !.drained = @ + c.got]
      BY <2>1, <2>3 DEF Back
    <3>2. call' \in CallType /\ call'.op = "drain" /\ call'.drained = c.drained + c.got
      BY <2>3, <3>1 DEF CallType
    <3>3. Drained' = c.drained + c.got
      BY <3>1, <3>2 DEF Drained, CallType
    <3> QED
      BY <1>1, <2>2, <2>3, <3>1, <3>2, <3>3
  <2>4. CASE c.op # "drain"
    <3>1. pc' = "handler" /\ call' = NoCall
      BY <2>1, <2>4 DEF Back
    <3>2. call' \in CallType /\ call'.op = "none" /\ Drained' = 0
      BY <3>1 DEF CallType, NoCall, Drained
    <3> QED
      BY <1>1, <2>2, <2>4, <3>1, <3>2
  <2> QED
    BY <2>3, <2>4
<1>3. CASE ~Enough(s, c)
  <2>1. st' = t /\ call' = c /\ pc' = "body"
    BY <1>3 DEF Goes
  <2>2. ~s.body_done
    BY <1>3 DEF Enough
  <2>3. Drained' = IF c.op = "drain" THEN c.drained + c.got ELSE 0
    BY <2>1 DEF Drained
  <2> HIDE DEF t
  <2> QED
    BY <1>1, <2>1, <2>2, <2>3
<1> QED
  BY <1>2, <1>3

\* What a read leaves alone: the reply, and the promise if it drains no more
\* than it takes.
LEMMA ReadsOn ==
    ASSUME TypeOK, Promised, Sent, pc \in {"body", "chunk_end", "trailers"}, More,
           st' \in StType, call' \in CallType,
           pc' \in {"body", "handler", "drain", "chunk_end", "trailers"},
           pc' = "drain" => call'.op = "drain", pc' = "handler" => call'.op # "drain",
           st'.continue_sent = st.continue_sent,
           st'.body_err = 0 => st.body_err = 0, st.body_done => st'.body_done,
           st'.body_err = 0 /\ ~st'.body_done /\ ~req.chunked =>
              Drained' - Drained <= st'.body_read - st.body_read
    PROVE  Promised' /\ Sent'
<1>1. req' = req /\ res' = res
  BY DEF More
<1>2. Sent'
  BY <1>1 DEF Sent
<1>3. ASSUME res.said = "keep", st'.body_err = 0, ~st'.body_done
      PROVE  /\ ~req.chunked
             /\ ~(req.expect /\ ~st'.continue_sent)
             /\ req.len - st'.body_read + Drained' <= DrainMax
  <2>1. /\ ~req.chunked
        /\ ~(req.expect /\ ~st.continue_sent)
        /\ req.len - st.body_read + Drained <= DrainMax
    BY <1>3 DEF Promised
  <2>2. Drained' - Drained <= st'.body_read - st.body_read
    BY <1>3, <2>1
  <2>3. Drained \in Int /\ Drained' \in Int
    BY DEF Drained, TypeOK, CallType
  <2>4. st.body_read \in Int /\ st'.body_read \in Int /\ req.len \in Int /\ DrainMax \in Int
    BY BodyAssumption DEF TypeOK, StType, ReqType
  <2>5. req.len - st'.body_read + Drained' <= DrainMax
    BY <2>1, <2>2, <2>3, <2>4
  <2> QED
    BY <2>1, <2>5
<1>4. Promised'
  BY <1>1, <1>3 DEF Promised
<1> QED
  BY <1>2, <1>4

\* A read that fails keeps everything.
LEMMA RefusesOn ==
    ASSUME Inv, NEW err \in Int \ {0}, Refuse(err), Stay, More,
           pc \in {"body", "chunk_end", "trailers"}
    PROVE  Inv'
<1>1. /\ st' \in StType /\ st'.body_err = err
      /\ st'.body_read = st.body_read /\ st'.body_done = st.body_done
      /\ st'.continue_sent = st.continue_sent
      /\ pc' \in {"drain", "handler"} /\ call' \in CallType
      /\ pc' = "drain" => call'.op = "drain"
      /\ pc' = "handler" => call'.op # "drain"
  BY Refuses DEF Inv
<1>2. TypeOK'
  BY <1>1 DEF Inv, TypeOK, Stay, More, input, PCs
<1>3. Linked'
  BY <1>1 DEF Linked
<1>4. Counted'
  BY <1>1 DEF Inv, Counted, More
<1>5. Promised' /\ Sent'
  BY <1>1, ReadsOn DEF Inv
<1> QED
  BY <1>2, <1>3, <1>4, <1>5 DEF Inv

(* Where a server stands that is not at the end of a chunk or of a body.   *)
Within(s) ==
    IF s.body_done THEN At("start")
    ELSE IF ~req.chunked THEN [at |-> "data", left |-> req.len - s.body_read]
    ELSE IF s.chunk_left > 0 THEN [at |-> "chunk", left |-> s.chunk_left]
    ELSE At("size")

\* A read that goes on, or has enough, keeps everything but the chain.
LEMMA GoesKeeps ==
    ASSUME Inv, NEW s \in StType, NEW c \in CallType, Goes(s, c), More,
           pc \in {"body", "chunk_end", "trailers"},
           s.body_err = 0 => st.body_err = 0, s.continue_sent = st.continue_sent,
           ~req.chunked => s.body_read <= req.len /\ (s.body_done <=> s.body_read = req.len),
           c.op = "all" /\ ~req.chunked /\ ~s.body_done => s.body_read = 0,
           ~req.chunked /\ ~s.body_done =>
              (IF c.op = "drain" THEN c.drained + c.got ELSE 0) - Drained
                 <= s.body_read - st.body_read
    PROVE  /\ Counted' /\ Promised' /\ Sent'
           /\ pc' \in PCs \ {"closed"} /\ req' \in ReqType /\ st' \in StType
           /\ res' \in ResType /\ call' \in CallType
           /\ Server' = Within(s)
           /\ st'.body_err = s.body_err
<1>1. /\ st' \in StType
      /\ st'.body_read = s.body_read /\ st'.body_done = s.body_done
      /\ st'.body_err = s.body_err /\ st'.chunk_left = s.chunk_left
      /\ st'.continue_sent = s.continue_sent
      /\ call' \in CallType
      /\ pc' \in {"body", "handler", "drain"}
      /\ pc' = "body" => ~s.body_done /\ call'.op = c.op
      /\ pc' = "drain" => call'.op = "drain"
      /\ pc' = "handler" => call'.op # "drain"
      /\ Drained' = IF c.op = "drain" THEN c.drained + c.got ELSE 0
  BY GoesOn
<1>2. req' = req /\ res' = res
  BY DEF More
<1>3. Counted'
  BY <1>1, <1>2 DEF Counted
<1>4. ~st.body_done
  BY DEF Inv, Counted
<1>5. Promised' /\ Sent'
  BY <1>1, <1>4, ReadsOn DEF Inv
<1>6. Server' = Within(s)
  BY <1>1, <1>2 DEF Server, Within, At
<1> QED
  BY <1>1, <1>2, <1>3, <1>5, <1>6 DEF Inv, TypeOK, PCs

-----------------------------------------------------------------------------
(* The reads' steps.                                                       *)

\* The peer goes while a read waits.
LEMMA BodyGoneStep == ASSUME Inv, BodyGone PROVE Inv'
<1>1. Refuse(-1) /\ Stay /\ More /\ pc \in {"body", "chunk_end", "trailers"}
  BY DEF BodyGone
<1> QED
  BY <1>1, RefusesOn

\* fixed_data
LEMMA FixedDataStep == ASSUME Inv, FixedData PROVE Inv'
<1>0. /\ pc = "body" /\ ~req.chunked /\ call.op # "all" /\ More /\ ~st.body_done
      /\ st \in StType /\ call \in CallType /\ req \in ReqType /\ queue \in Seq(Items)
      /\ st.body_read <= req.len /\ st.body_read # req.len
  BY DEF FixedData, InBody, Inv, TypeOK, Counted
<1>1. PICK n \in 1..Min({Len(queue), call.want - call.got, Remaining}) :
        /\ Took(n)
        /\ Goes([st EXCEPT !.body_read = @ + n, !.body_done = st.body_read + n = req.len],
                [call EXCEPT !.got = @ + n])
  BY DEF FixedData
<1>2. n \in 1..Len(queue) /\ n <= req.len - st.body_read
  <2>1. Len(queue) \in Int /\ call.want - call.got \in Int /\ Remaining \in Int
    BY <1>0 DEF StType, CallType, ReqType, Remaining
  <2>2. /\ Min({Len(queue), call.want - call.got, Remaining}) \in Int
        /\ Min({Len(queue), call.want - call.got, Remaining}) <= Len(queue)
        /\ Min({Len(queue), call.want - call.got, Remaining}) <= Remaining
    BY <2>1, Least
  <2> QED
    BY <2>1, <2>2 DEF Remaining
<1> DEFINE s == [st EXCEPT !.body_read = @ + n, !.body_done = st.body_read + n = req.len]
           c == [call EXCEPT !.got = @ + n]
<1>3. /\ s \in StType /\ s.body_read = st.body_read + n
      /\ s.body_err = st.body_err /\ s.continue_sent = st.continue_sent
  <2>1. st.body_read + n \in Nat
    BY <1>0, <1>2 DEF StType
  <2>2. (st.body_read + n = req.len) \in BOOLEAN
    OBVIOUS
  <2>3. \A i \in Nat, b \in BOOLEAN :
          [st EXCEPT !.body_read = i, !.body_done = b] \in StType
    BY <1>0 DEF StType
  <2>4. s \in StType
    BY <2>1, <2>2, <2>3, Zenon
  <2>5. /\ s.body_read = st.body_read + n
        /\ s.body_err = st.body_err /\ s.continue_sent = st.continue_sent
    BY <1>0 DEF StType
  <2> QED
    BY <2>4, <2>5
<1>4. s.body_done <=> st.body_read + n = req.len
  BY <1>0 DEF StType
<1>5. /\ c \in CallType /\ c.op = call.op /\ c.drained = call.drained
      /\ c.got = call.got + n
  BY <1>0, <1>2 DEF CallType
<1>6. Goes(s, c)
  BY <1>1
<1> HIDE DEF s, c
<1>7. /\ st.body_read \in Nat /\ req.len \in Nat /\ call.drained \in Nat /\ call.got \in Nat
  BY <1>0 DEF StType, ReqType, CallType
<1>8. Drained = IF call.op = "drain" THEN call.drained + call.got ELSE 0
  BY <1>0 DEF Drained
<1>9. /\ Counted' /\ Promised' /\ Sent'
      /\ pc' \in PCs /\ req' \in ReqType /\ st' \in StType /\ res' \in ResType
      /\ call' \in CallType /\ Server' = Within(s) /\ st'.body_err = s.body_err
  <2>1. s.body_read <= req.len /\ (s.body_done <=> s.body_read = req.len)
    BY <1>2, <1>3, <1>4, <1>7
  <2>2. (IF c.op = "drain" THEN c.drained + c.got ELSE 0) - Drained
          <= s.body_read - st.body_read
    BY <1>2, <1>3, <1>5, <1>7, <1>8
  <2> QED
    BY <1>0, <1>3, <1>5, <1>6, <2>1, <2>2, GoesKeeps
<1>10. ASSUME NEW p, Chain(p, queue, Server, ref) PROVE Server' = p[n]
  <2>1. Server = [at |-> "data", left |-> req.len - st.body_read]
    BY <1>0 DEF Server
  <2>2. req.len - st.body_read \in Nat /\ req.len - st.body_read > 0
    BY <1>0, <1>7
  <2>3. p[n] = Into("data", req.len - st.body_read, n, "start")
    BY <1>0, <1>2, <1>10, <2>1, <2>2, DataRun
  <2>4. n < req.len - st.body_read <=> ~s.body_done
    BY <1>2, <1>4, <1>7
  <2>5. (req.len - st.body_read) - n = req.len - s.body_read
    BY <1>2, <1>3, <1>7
  <2> QED
    BY <1>0, <1>9, <2>3, <2>4, <2>5 DEF Into, Within, At
<1>11. Linked' /\ queue' \in Seq(Items) /\ ref' \in Positions
  BY <1>0, <1>1, <1>2, <1>3, <1>9, <1>10, LinkedTakes DEF Inv
<1> QED
  BY <1>9, <1>11 DEF Inv, TypeOK

\* body_all of a body with a length
LEMMA FixedAllStep == ASSUME Inv, FixedAll PROVE Inv'
<1>0. /\ pc = "body" /\ ~req.chunked /\ call.op = "all" /\ More /\ ~st.body_done
      /\ st \in StType /\ call \in CallType /\ req \in ReqType /\ queue \in Seq(Items)
      /\ st.body_read = 0 /\ req.len # 0 /\ req.len \in Nat
  BY DEF FixedAll, InBody, Inv, TypeOK, Counted, ReqType
<1>1. CASE Refuse(413) /\ Stay
  BY <1>0, <1>1, RefusesOn
<1>2. CASE /\ Len(queue) >= req.len /\ Took(req.len)
           /\ Goes([st EXCEPT !.body_read = req.len, !.body_done = TRUE], call)
  <2> DEFINE s == [st EXCEPT !.body_read = req.len, !.body_done = TRUE]
  <2>1. /\ s \in StType /\ s.body_read = req.len
        /\ s.body_err = st.body_err /\ s.continue_sent = st.continue_sent
    BY <1>0 DEF StType
  <2>2. s.body_done
    BY <1>0 DEF StType
  <2>3. Goes(s, call)
    BY <1>2
  <2> HIDE DEF s
  <2>4. /\ Counted' /\ Promised' /\ Sent'
        /\ pc' \in PCs /\ req' \in ReqType /\ st' \in StType /\ res' \in ResType
        /\ call' \in CallType /\ Server' = Within(s) /\ st'.body_err = s.body_err
    BY <1>0, <2>1, <2>2, <2>3, GoesKeeps
  <2>5. ASSUME NEW p, Chain(p, queue, Server, ref) PROVE Server' = p[req.len]
    <3>1. Server = [at |-> "data", left |-> req.len - 0]
      BY <1>0 DEF Server
    <3>2. req.len - 0 = req.len /\ req.len > 0 /\ req.len \in 0..Len(queue)
      BY <1>0, <1>2
    <3>3. p[req.len] = Into("data", req.len, req.len, "start")
      BY <1>0, <2>5, <3>1, <3>2, DataRun
    <3> QED
      BY <1>0, <2>2, <2>4, <3>3 DEF Into, Within
  <2>6. Linked' /\ queue' \in Seq(Items) /\ ref' \in Positions
    <3>1. req.len \in 0..Len(queue)
      BY <1>0, <1>2
    <3> QED
      BY <1>0, <1>2, <2>1, <2>4, <2>5, <3>1, LinkedTakes DEF Inv
  <2> QED
    BY <2>4, <2>6 DEF Inv, TypeOK
<1> QED
  BY <1>1, <1>2 DEF FixedAll

\* One token: the chain's next position.
LEMMA OneToken ==
    ASSUME TypeOK, Here, NEW p, Chain(p, queue, Server, ref)
    PROVE  p[1] = RefStep(Server, Next1)
<1>1. Len(queue) \in Nat /\ Len(queue) > 0 /\ Head(queue) = queue[1]
  BY DEF TypeOK, Here
<1>2. 1 \in 1..Len(queue) /\ 1 - 1 = 0
  BY <1>1
<1> QED
  BY <1>1, <1>2 DEF Chain, Next1

\* What is next is a token.
LEMMA NextToken ==
    ASSUME TypeOK, Here
    PROVE  Next1 \in Tokens /\ 1 \in 0..Len(queue)
<1>1. Len(queue) \in Nat /\ Len(queue) > 0 /\ Head(queue) = queue[1] /\ queue[1] \in Items
  BY DEF TypeOK, Here
<1> QED
  BY <1>1 DEF Items, Next1

\* chunk_header
LEMMA ChunkHeaderStep == ASSUME Inv, ChunkHeader PROVE Inv'
<1>0. /\ pc = "body" /\ req.chunked /\ st.chunk_left = 0 /\ Here /\ More /\ ~st.body_done
      /\ TypeOK /\ st \in StType /\ call \in CallType
  BY DEF ChunkHeader, InBody, Inv, Counted, TypeOK
<1>1. CASE Refuse(400) /\ Stay
  BY <1>0, <1>1, RefusesOn
<1>2. Server = At("size")
  BY <1>0 DEF Server, StType
<1>3. CASE /\ Next1.k = "size" /\ Next1.n = 0 /\ Took(1)
           /\ pc' = "trailers" /\ st' = [st EXCEPT !.taken = 0] /\ UNCHANGED call
  <2>1. /\ st' \in StType /\ st'.body_read = st.body_read /\ st'.body_done = st.body_done
        /\ st'.body_err = st.body_err /\ st'.continue_sent = st.continue_sent
        /\ st'.chunk_left = st.chunk_left
    BY <1>0, <1>3 DEF StType
  <2>2. Server' = At("trailer")
    BY <1>3 DEF Server, At
  <2>3. RefStep(At("size"), Next1) = At("trailer")
    BY <1>3 DEF RefStep, At
  <2>4. Linked' /\ queue' \in Seq(Items) /\ ref' \in Positions
    BY <1>0, <1>2, <1>3, <2>1, <2>2, <2>3, OneToken, NextToken, LinkedTakes DEF Inv
  <2>5. Counted'
    BY <1>0, <1>3, <2>1 DEF Counted, More
  <2>6. Promised' /\ Sent'
    BY <1>0, <1>3, <2>1, ReadsOn DEF Inv
  <2> QED
    BY <1>0, <1>3, <2>1, <2>4, <2>5, <2>6 DEF Inv, TypeOK, PCs, More
<1>4. CASE /\ Next1.k = "size" /\ Next1.n > 0
           /\ Goes([st EXCEPT !.chunk_left = Next1.n], call) /\ Took(1)
  <2> DEFINE s == [st EXCEPT !.chunk_left = Next1.n]
  <2>0. Next1.n \in Nat
    BY <1>0, <1>4, NextToken, TokenFields
  <2>1. /\ s \in StType /\ s.body_done = st.body_done /\ s.chunk_left = Next1.n
        /\ s.body_err = st.body_err /\ s.continue_sent = st.continue_sent
    BY <1>0, <2>0 DEF StType
  <2>2. Goes(s, call)
    BY <1>4
  <2> HIDE DEF s
  <2>3. /\ Counted' /\ Promised' /\ Sent'
        /\ pc' \in PCs /\ req' \in ReqType /\ st' \in StType /\ res' \in ResType
        /\ call' \in CallType /\ Server' = Within(s) /\ st'.body_err = s.body_err
    BY <1>0, <2>1, <2>2, GoesKeeps
  <2>4. Server' = RefStep(At("size"), Next1)
    BY <1>0, <1>4, <2>0, <2>1, <2>3 DEF RefStep, At, Within
  <2>5. Linked' /\ queue' \in Seq(Items) /\ ref' \in Positions
    BY <1>0, <1>2, <1>4, <2>1, <2>3, <2>4, OneToken, NextToken, LinkedTakes DEF Inv
  <2> QED
    BY <2>3, <2>5 DEF Inv, TypeOK
<1> QED
  BY <1>1, <1>3, <1>4 DEF ChunkHeader

\* read_next_chunk, of a chunk that is too large
LEMMA ChunkTooLargeStep == ASSUME Inv, ChunkTooLarge PROVE Inv'
BY RefusesOn DEF ChunkTooLarge, InBody

\* chunk_data
LEMMA ChunkDataStep == ASSUME Inv, ChunkData PROVE Inv'
<1>0. /\ pc = "body" /\ req.chunked /\ st.chunk_left > 0 /\ More /\ ~st.body_done
      /\ TypeOK /\ st \in StType /\ call \in CallType /\ queue \in Seq(Items)
      /\ st.chunk_left \in Nat /\ st.body_read \in Nat
  BY DEF ChunkData, InBody, Inv, Counted, TypeOK, StType
<1>1. CASE Refuse(413) /\ Stay
  BY <1>0, <1>1, RefusesOn
<1>2. ASSUME NEW n \in 1..ChunkTake, NEW s, NEW c,
             s = [st EXCEPT !.body_read = @ + n, !.chunk_left = IF n < @ THEN @ - n ELSE 0],
             c = [call EXCEPT !.got = @ + n],
             Took(n),
             IF s.chunk_left = 0 THEN st' = s /\ call' = c /\ pc' = "chunk_end" ELSE Goes(s, c)
      PROVE  Inv'
  <2>1. n \in 0..Len(queue) /\ n <= st.chunk_left
    <3>1. Len(queue) \in Int /\ st.chunk_left \in Int /\ call.want - call.got \in Int
      BY <1>0 DEF CallType
    <3>2. CASE call.op \in {"until", "drain"}
      <4>1. {Len(queue), st.chunk_left} \cup {call.want - call.got}
              = {Len(queue), st.chunk_left, call.want - call.got}
        OBVIOUS
      <4>2. ChunkTake = Min({Len(queue), st.chunk_left, call.want - call.got})
        BY <3>2, <4>1 DEF ChunkTake
      <4>3. ChunkTake \in Int /\ ChunkTake <= Len(queue) /\ ChunkTake <= st.chunk_left
        BY <3>1, <4>2, Least
      <4> QED
        BY <3>1, <4>3
    <3>3. CASE call.op \notin {"until", "drain"}
      <4>1. {Len(queue), st.chunk_left} \cup {} = {Len(queue), st.chunk_left}
        OBVIOUS
      <4>2. ChunkTake = Min({Len(queue), st.chunk_left})
        BY <3>3, <4>1 DEF ChunkTake
      <4>3. ChunkTake \in Int /\ ChunkTake <= Len(queue) /\ ChunkTake <= st.chunk_left
        BY <3>1, <4>2, Least
      <4> QED
        BY <3>1, <4>3
    <3> QED
      BY <3>2, <3>3
  <2>2. /\ s \in StType /\ s.body_done = st.body_done
        /\ s.chunk_left = IF n < st.chunk_left THEN st.chunk_left - n ELSE 0
        /\ s.body_err = st.body_err /\ s.continue_sent = st.continue_sent
    <3>1. st.body_read + n \in Nat
          /\ (IF n < st.chunk_left THEN st.chunk_left - n ELSE 0) \in Nat
      BY <1>0, <2>1
    <3> QED
      BY <1>0, <1>2, <3>1 DEF StType
  <2>3. c \in CallType /\ c.op = call.op
    BY <1>0, <1>2, <2>1 DEF CallType
  <2>4. Server = [at |-> "chunk", left |-> st.chunk_left]
    BY <1>0 DEF Server
  <2>5. ASSUME NEW p, Chain(p, queue, Server, ref)
        PROVE  p[n] = IF s.chunk_left = 0 THEN At("crlf")
                      ELSE [at |-> "chunk", left |-> s.chunk_left]
    <3>1. p[n] = Into("chunk", st.chunk_left, n, "crlf")
      BY <1>0, <2>1, <2>4, <2>5, DataRun
    <3> QED
      BY <1>0, <2>1, <2>2, <3>1 DEF Into
  <2>6. CASE s.chunk_left = 0
    <3>0. st' = s /\ call' = c /\ pc' = "chunk_end"
      BY <1>2, <2>6
    <3>1. Server' = At("crlf")
      BY <3>0 DEF Server, At
    <3>2. Linked' /\ queue' \in Seq(Items) /\ ref' \in Positions
      BY <1>0, <1>2, <2>1, <2>2, <2>5, <2>6, <3>0, <3>1, LinkedTakes DEF Inv
    <3>3. Counted'
      BY <1>0, <2>2, <2>6, <3>0 DEF Counted, More
    <3>4. Promised' /\ Sent'
      BY <1>0, <2>2, <2>3, <3>0, ReadsOn DEF Inv
    <3> QED
      BY <1>0, <2>2, <2>3, <3>0, <3>2, <3>3, <3>4 DEF Inv, TypeOK, PCs, More
  <2>7. CASE s.chunk_left # 0
    <3>0. Goes(s, c)
      BY <1>2, <2>7
    <3>1. /\ Counted' /\ Promised' /\ Sent'
          /\ pc' \in PCs /\ req' \in ReqType /\ st' \in StType /\ res' \in ResType
          /\ call' \in CallType /\ Server' = Within(s) /\ st'.body_err = s.body_err
      BY <1>0, <2>2, <2>3, <3>0, GoesKeeps
    <3>2. Within(s) = [at |-> "chunk", left |-> s.chunk_left]
      BY <1>0, <2>2, <2>7 DEF Within, StType
    <3>3. Linked' /\ queue' \in Seq(Items) /\ ref' \in Positions
      BY <1>0, <1>2, <2>1, <2>2, <2>5, <2>7, <3>1, <3>2, LinkedTakes DEF Inv
    <3> QED
      BY <3>1, <3>3 DEF Inv, TypeOK
  <2> QED
    BY <2>6, <2>7
<1> QED
  BY <1>1, <1>2 DEF ChunkData

\* chunk_end
LEMMA ChunkEndStep == ASSUME Inv, ChunkEnd PROVE Inv'
<1>0. /\ pc = "chunk_end" /\ req.chunked /\ st.chunk_left = 0 /\ Here /\ More /\ ~st.body_done
      /\ TypeOK /\ st \in StType /\ call \in CallType
  BY DEF ChunkEnd, Inv, Counted, TypeOK
<1>1. CASE EndsChunk(Next1) /\ Took(1) /\ Goes(st, call)
  <2>1. /\ Counted' /\ Promised' /\ Sent'
        /\ pc' \in PCs /\ req' \in ReqType /\ st' \in StType /\ res' \in ResType
        /\ call' \in CallType /\ Server' = Within(st) /\ st'.body_err = st.body_err
    BY <1>0, <1>1, GoesKeeps
  <2>2. Server = At("crlf")
    BY <1>0 DEF Server
  <2>3. Within(st) = RefStep(At("crlf"), Next1)
    BY <1>0, <1>1 DEF Within, RefStep, At, EndsChunk
  <2>4. Linked' /\ queue' \in Seq(Items) /\ ref' \in Positions
    BY <1>0, <1>1, <2>1, <2>2, <2>3, OneToken, NextToken, LinkedTakes DEF Inv
  <2> QED
    BY <2>1, <2>4 DEF Inv, TypeOK
<1>2. ASSUME NEW s, s = [st EXCEPT !.body_err = 400], Stay,
             IF call.op = "all" THEN Back(s, call) ELSE Goes(s, call)
      PROVE  Inv'
  <2>1. /\ s \in StType /\ s.body_done = st.body_done /\ s.body_err = 400
        /\ s.continue_sent = st.continue_sent
    BY <1>0, <1>2 DEF StType
  <2>2. CASE call.op = "all"
    <3>1. st' = s /\ pc' = "handler" /\ call' = NoCall
      BY <1>2, <2>2 DEF Back
    <3>2. NoCall \in CallType /\ NoCall.op # "drain"
      BY DEF NoCall, CallType
    <3>3. Linked'
      BY <2>1, <3>1 DEF Linked
    <3>4. Counted'
      BY <1>0, <2>1, <3>1 DEF Counted, More
    <3>5. Promised' /\ Sent'
      BY <1>0, <2>1, <3>1, <3>2, ReadsOn DEF Inv
    <3> QED
      BY <1>0, <1>2, <2>1, <3>1, <3>2, <3>3, <3>4, <3>5 DEF Inv, TypeOK, PCs, More, Stay, input
  <2>3. CASE call.op # "all"
    <3>0. Goes(s, call)
      BY <1>2, <2>3
    <3>1. /\ Counted' /\ Promised' /\ Sent'
          /\ pc' \in PCs /\ req' \in ReqType /\ st' \in StType /\ res' \in ResType
          /\ call' \in CallType /\ st'.body_err = s.body_err
      BY <1>0, <2>1, <3>0, GoesKeeps
    <3>2. Linked'
      BY <2>1, <3>1 DEF Linked
    <3> QED
      BY <1>2, <1>0, <3>1, <3>2 DEF Inv, TypeOK, Stay, input
  <2> QED
    BY <2>2, <2>3
<1> QED
  BY <1>1, <1>2 DEF ChunkEnd

\* chunk_trailers
LEMMA ChunkTrailersStep == ASSUME Inv, ChunkTrailers PROVE Inv'
<1>0. /\ pc = "trailers" /\ req.chunked /\ st.chunk_left = 0 /\ Here /\ More /\ ~st.body_done
      /\ TypeOK /\ st \in StType /\ call \in CallType
  BY DEF ChunkTrailers, Inv, Counted, TypeOK
<1>1. CASE Refuse(400) /\ Stay
  BY <1>0, <1>1, RefusesOn
<1>2. Server = At("trailer")
  BY <1>0 DEF Server
<1>3. CASE Took(1) /\ Next1.k \in {"crlf", "head"} /\ Goes([st EXCEPT !.body_done = TRUE], call)
  <2> DEFINE s == [st EXCEPT !.body_done = TRUE]
  <2>1. s \in StType /\ s.body_err = st.body_err /\ s.continue_sent = st.continue_sent
    BY <1>0 DEF StType
  <2>2. s.body_done
    BY <1>0 DEF StType
  <2>3. Goes(s, call)
    BY <1>3
  <2> HIDE DEF s
  <2>4. /\ Counted' /\ Promised' /\ Sent'
        /\ pc' \in PCs /\ req' \in ReqType /\ st' \in StType /\ res' \in ResType
        /\ call' \in CallType /\ Server' = Within(s) /\ st'.body_err = s.body_err
    BY <1>0, <2>1, <2>2, <2>3, GoesKeeps
  <2>5. Within(s) = RefStep(At("trailer"), Next1)
    BY <1>3, <2>2 DEF Within, RefStep, At
  <2>6. Linked' /\ queue' \in Seq(Items) /\ ref' \in Positions
    BY <1>0, <1>2, <1>3, <2>1, <2>4, <2>5, OneToken, NextToken, LinkedTakes DEF Inv
  <2> QED
    BY <2>4, <2>6 DEF Inv, TypeOK
<1>4. CASE /\ Took(1) /\ Next1.k \notin {"crlf", "head"}
           /\ st' = [st EXCEPT !.taken = @ + 1] /\ UNCHANGED <<call, pc>>
  <2>1. /\ st' \in StType /\ st'.body_read = st.body_read /\ st'.body_done = st.body_done
        /\ st'.body_err = st.body_err /\ st'.continue_sent = st.continue_sent
        /\ st'.chunk_left = st.chunk_left
    BY <1>0, <1>4 DEF StType
  <2>2. Server' = At("trailer")
    BY <1>0, <1>4 DEF Server, At
  <2>3. RefStep(At("trailer"), Next1) = At("trailer")
    BY <1>4 DEF RefStep, At
  <2>4. Linked' /\ queue' \in Seq(Items) /\ ref' \in Positions
    BY <1>0, <1>2, <1>4, <2>1, <2>2, <2>3, OneToken, NextToken, LinkedTakes DEF Inv
  <2>5. Counted'
    BY <1>0, <1>4, <2>1 DEF Counted, More
  <2>6. Promised' /\ Sent'
    BY <1>0, <1>4, <2>1, ReadsOn DEF Inv
  <2> QED
    BY <1>0, <1>4, <2>1, <2>4, <2>5, <2>6 DEF Inv, TypeOK, PCs, More
<1> QED
  BY <1>1, <1>3, <1>4 DEF ChunkTrailers

-----------------------------------------------------------------------------
(* The peer's steps.                                                       *)

\* A token arrives.
LEMMA ArriveStep == ASSUME Inv, Arrive PROVE Inv'
<1>0. UNCHANGED <<pc, req, st, res, call>>
  BY DEF Arrive
<1>1. PICK t \in Tokens :
        /\ ref' = RefStep(ref, t)
        /\ queue' = Append(queue, [t |-> t, role |-> IF ref'.at = "bad" THEN "bad" ELSE ref.at])
  BY DEF Arrive
<1>2. ref' \in Positions /\ ref \in Positions
  BY <1>1, RefStepType DEF Inv, TypeOK
<1> DEFINE x == [t |-> t, role |-> IF ref'.at = "bad" THEN "bad" ELSE ref.at]
<1>3. x \in Items /\ x.t = t /\ x.role = IF ref'.at = "bad" THEN "bad" ELSE ref.at
  BY <1>2 DEF Items, Positions, Places
<1> HIDE DEF x
<1>4. queue' = Append(queue, x) /\ queue \in Seq(Items) /\ queue' \in Seq(Items)
  BY <1>1, <1>3 DEF x, Inv, TypeOK
<1>5. TypeOK'
  BY <1>0, <1>2, <1>4 DEF Inv, TypeOK
<1>6. Linked'
  <2>1. Server' = Server
    BY <1>0 DEF Server, At
  <2>2. ASSUME pc # "closed", st.body_err = 0
        PROVE  \E p : Chain(p, queue', Server, ref')
    <3>1. PICK p : Chain(p, queue, Server, ref)
      BY <2>2 DEF Inv, Linked
    <3>2. \E c : Chain(c, Append(queue, x), Server, ref')
      BY <1>1, <1>2, <1>3, <1>4, <3>1, ChainAppend
    <3> QED
      BY <1>4, <3>2
  <2>3. (\E p : Chain(p, queue, Server, ref))' <=> \E p : Chain(p, queue', Server', ref')
    BY DEF Chain, RefStep, At
  <2> QED
    BY <1>0, <2>1, <2>2, <2>3 DEF Linked
<1>7. Counted' /\ Sent'
  BY <1>0 DEF Inv, Counted, Sent
<1>8. Promised'
  BY <1>0 DEF Inv, Promised, Drained
<1> QED
  BY <1>5, <1>6, <1>7, <1>8 DEF Inv

\* A step of nobody, or the peer leaves.
LEMMA SameStep ==
    ASSUME Inv, UNCHANGED <<queue, ref, pc, req, st, res, call>>
    PROVE  Inv'
<1>1. TypeOK' /\ Counted' /\ Sent'
  BY DEF Inv, TypeOK, Counted, Sent
<1>2. Linked'
  <2>1. Server' = Server
    BY DEF Server, At
  <2> QED
    BY <2>1, LinkedStays DEF Inv
<1>3. Promised'
  BY DEF Inv, Promised, Drained
<1> QED
  BY <1>1, <1>2, <1>3 DEF Inv

-----------------------------------------------------------------------------
(* The handler's steps.                                                    *)

\* body_begin
LEMMA Begins ==
    ASSUME Inv, pc = "handler", st.body_err = 0, ~st.body_done, Stay, UNCHANGED req,
           NEW c \in CallType, c.op # "drain",
           c.op = "all" => st.body_read = 0, Begin(c)
    PROVE  Inv'
<1>0. /\ st \in StType /\ res \in ResType /\ call \in CallType /\ req \in ReqType
      /\ call.op # "drain" /\ req' = req
  BY DEF Inv, TypeOK, Promised
<1>1. CASE ~Continue /\ call' = c /\ pc' = "body" /\ UNCHANGED <<st, res>>
  <2>1. TypeOK'
    BY <1>0, <1>1 DEF Inv, TypeOK, PCs, Stay, input
  <2>2. Server' = Server
    BY <1>0, <1>1 DEF Server, At
  <2>3. Linked'
    BY <1>1, <2>2, LinkedStays DEF Inv, Stay, input
  <2>4. Counted' /\ Sent'
    BY <1>0, <1>1 DEF Inv, Counted, Sent
  <2>5. Drained = 0 /\ Drained' = 0
    BY <1>0, <1>1 DEF Drained
  <2>6. Promised'
    BY <1>0, <1>1, <2>5 DEF Inv, Promised
  <2> QED
    BY <2>1, <2>3, <2>4, <2>6 DEF Inv
<1>2. ASSUME Continue
      PROVE  /\ ~res.head_sent /\ res.said = "none"
             /\ res.out = <<>> \/ (res.failed /\ res.out = <<"500">>)
  <2>1. <<>> \notin Dead
    BY DEF Dead
  <2>2. <<"500">> \notin Unanswered
    BY DEF Unanswered
  <2> QED
    BY <1>2, <2>1, <2>2 DEF Continue, Inv, Promised, Sent
<1>3. CASE /\ Continue /\ st' = [st EXCEPT !.continue_sent = TRUE]
           /\ res' = [res EXCEPT !.out = Append(@, "100")]
           /\ call' = c /\ pc' = "body"
  <2>1. /\ st' \in StType /\ st'.body_read = st.body_read /\ st'.body_done = st.body_done
        /\ st'.body_err = st.body_err /\ st'.chunk_left = st.chunk_left
    BY <1>0, <1>3 DEF StType
  <2>2. st'.continue_sent
    BY <1>0, <1>3 DEF StType
  <2>3. /\ res' \in ResType /\ res'.head_sent = res.head_sent /\ res'.close = res.close
        /\ res'.said = res.said /\ res'.failed = res.failed
        /\ res'.asked = res.asked /\ res'.short = res.short
        /\ res'.out \in Unanswered \/ (res.failed /\ res'.out \in Dead)
    <3>1. PICK o : o = Append(res.out, "100")
      OBVIOUS
    <3>2. o \in Unanswered \/ (res.failed /\ o \in Dead)
      BY <1>2, <1>3, <3>1, SaysMore
    <3>3. o \in Seq(Words)
      BY <3>2, Says
    <3>4. res' = [res EXCEPT !.out = o]
      BY <1>3, <3>1
    <3> QED
      BY <1>0, <3>2, <3>3, <3>4 DEF ResType
  <2>5. TypeOK'
    BY <1>0, <1>3, <2>1, <2>3 DEF Inv, TypeOK, PCs, Stay, input
  <2>6. Server' = Server
    BY <1>0, <1>3, <2>1 DEF Server, At
  <2>7. Linked'
    BY <2>1, <2>6, LinkedStays DEF Inv, Stay, input
  <2>8. Counted'
    BY <1>0, <1>3, <2>1 DEF Inv, Counted
  <2>9. Sent'
    BY <1>2, <1>3, <2>2, <2>3 DEF Sent
  <2>10. Promised'
    BY <1>0, <1>2, <1>3, <2>3 DEF Inv, Promised
  <2> QED
    BY <2>5, <2>7, <2>8, <2>9, <2>10 DEF Inv
<1>4. CASE /\ Continue /\ st' = [st EXCEPT !.continue_sent = TRUE, !.body_err = -1]
           /\ UNCHANGED <<res, call, pc>>
  <2>1. /\ st' \in StType /\ st'.body_read = st.body_read /\ st'.body_done = st.body_done
        /\ st'.body_err = -1
    <3>1. \A i \in Int :
            LET t == [st EXCEPT !.continue_sent = TRUE, !.body_err = i]
            IN  /\ t \in StType /\ t.body_read = st.body_read
                /\ t.body_done = st.body_done /\ t.body_err = i
      BY <1>0 DEF StType
    <3>2. -1 \in Int
      OBVIOUS
    <3> QED
      BY <1>4, <3>1, <3>2
  <2>2. st'.continue_sent
    BY <1>0, <1>4 DEF StType
  <2>3. TypeOK'
    BY <1>0, <1>4, <2>1 DEF Inv, TypeOK, PCs, Stay, input
  <2>4. Linked'
    BY <2>1 DEF Linked
  <2>5. Counted'
    BY <1>0, <1>4, <2>1 DEF Inv, Counted
  <2>6. Sent'
    BY <1>0, <1>2, <1>4, <2>2 DEF Inv, Sent
  <2>7. Promised'
    BY <1>0, <1>2, <1>4 DEF Inv, Promised
  <2> QED
    BY <2>3, <2>4, <2>5, <2>6, <2>7 DEF Inv
<1> QED
  BY <1>1, <1>3, <1>4 DEF Begin

\* ioxd_body_read_until and ioxd_body_read_next_chunk
LEMMA ReadsStep == ASSUME Inv, ReadUntil \/ ReadNextChunk PROVE Inv'
<1>1. ASSUME NEW n \in Reads
      PROVE  /\ [NoCall EXCEPT !.op = "until", !.want = n] \in CallType
             /\ [NoCall EXCEPT !.op = "until", !.want = n].op = "until"
             /\ [NoCall EXCEPT !.op = "next", !.want = n] \in CallType
             /\ [NoCall EXCEPT !.op = "next", !.want = n].op = "next"
  BY BodyAssumption DEF NoCall, CallType
<1>2. CASE ReadUntil
  BY <1>1, <1>2, Begins DEF ReadUntil
<1>3. CASE ReadNextChunk
  BY <1>1, <1>3, Begins DEF ReadNextChunk
<1> QED
  BY <1>2, <1>3

\* ioxd_body_all
LEMMA BodyAllStep == ASSUME Inv, BodyAll PROVE Inv'
<1>0. pc = "handler" /\ st.body_err = 0 /\ st.body_read = 0 /\ Stay /\ UNCHANGED req
  BY DEF BodyAll
<1>1. CASE ~st.body_done /\ Begin([NoCall EXCEPT !.op = "all"])
  <2>1. [NoCall EXCEPT !.op = "all"] \in CallType /\ [NoCall EXCEPT !.op = "all"].op = "all"
    BY DEF NoCall, CallType
  <2> QED
    BY <1>0, <1>1, <2>1, Begins
<1>2. CASE st' = [st EXCEPT !.body_whole = TRUE] /\ UNCHANGED <<res, call, pc>>
  <2>1. /\ st' \in StType /\ st'.body_read = st.body_read /\ st'.body_done = st.body_done
        /\ st'.body_err = st.body_err /\ st'.chunk_left = st.chunk_left
        /\ st'.continue_sent = st.continue_sent
    BY <1>2 DEF Inv, TypeOK, StType
  <2>2. TypeOK'
    BY <1>0, <1>2, <2>1 DEF Inv, TypeOK, Stay, input
  <2>3. Server' = Server
    BY <1>0, <1>2, <2>1 DEF Server, At
  <2>4. Linked'
    BY <1>0, <1>2, <2>1, <2>3, LinkedStays DEF Inv, Stay, input
  <2>5. Counted' /\ Sent'
    BY <1>0, <1>2, <2>1 DEF Inv, Counted, Sent
  <2>6. Promised'
    BY <1>0, <1>2, <2>1 DEF Inv, Promised, Drained
  <2> QED
    BY <2>2, <2>4, <2>5, <2>6 DEF Inv
<1> QED
  BY <1>1, <1>2 DEF BodyAll

-----------------------------------------------------------------------------
(* The reply's steps, and the end of a request.                            *)

(* The reply behind a flush of its first part: the head went, or was lost, *)
(* and said what the body allows; or it did not, and the reply is dead.    *)
Flushed(r) ==
    /\ r \in ResType /\ (res.close => r.close)
    /\ r.asked = res.asked /\ r.short = res.short
    /\ \/ /\ r.head_sent /\ r.out \in Answers
          /\ r.said \in {"keep", "close"}
          /\ r.said = "keep" <=> req.keep /\ ~r.close
          /\ r.said = "keep" /\ st.body_err = 0 /\ ~st.body_done =>
               /\ ~req.chunked
               /\ ~(req.expect /\ ~st.continue_sent)
               /\ req.len - st.body_read <= DrainMax
       \/ /\ ~r.head_sent /\ r.said = "none" /\ r.failed
          /\ r.out \in Unanswered \cup Dead
          /\ ~st.continue_sent => r.out \in {<<>>, <<"500">>}

\* The reply's head: what it says, and what that means for the body.
LEMMA HeadSays ==
    ASSUME Inv, pc \in {"handler", "finish"}, ~res.head_sent, ~res.failed,
           NEW until \in BOOLEAN
    PROVE  /\ WithHead(until) \in ResType /\ Flushed(WithHead(until))
           /\ Flushed(Unbuilt(until))
<1> DEFINE close == \/ res.close \/ until
                    \/ /\ ~st.body_done /\ st.body_err = 0
                       /\ TooMuchLeft \/ (req.expect /\ ~st.continue_sent)
           said == IF req.keep /\ ~close THEN "keep" ELSE "close"
           out == Append(res.out, "head")
           bad == Append(res.out, "500")
<1>0. res \in ResType /\ res.out \in Unanswered /\ res.said = "none"
  BY DEF Inv, TypeOK, Sent, Promised
<1>1. /\ out \in Answers /\ out \in Seq(Words) /\ bad \in Dead /\ bad \in Seq(Words)
      /\ ~st.continue_sent => bad = <<"500">>
  <2>1. out \in Answers /\ bad \in Dead
    BY <1>0, SaysMore
  <2>2. ~st.continue_sent => res.out = <<>>
    BY <1>0 DEF Inv, Sent, Unanswered
  <2> QED
    BY <2>1, <2>2, Says, SaysMore
<1>2. close \in BOOLEAN
  BY <1>0 DEF ResType
<1>3. said \in {"keep", "close"} /\ (said = "keep" <=> req.keep /\ ~close)
  OBVIOUS
<1>6. close \/ st.body_err # 0 \/ st.body_done \/
        (~TooMuchLeft /\ ~(req.expect /\ ~st.continue_sent))
  OBVIOUS
<1>7. res.close => close
  OBVIOUS
<1>8. PICK r : r = [res EXCEPT !.close = close]
  OBVIOUS
<1>9. Closing(until) = r
  BY <1>8, Zenon DEF Closing
<1> HIDE DEF close, out, bad
<1>10. /\ r \in ResType /\ r.head_sent = res.head_sent /\ r.said = res.said
       /\ r.out = res.out /\ r.asked = res.asked /\ r.short = res.short
  BY <1>0, <1>2, <1>8 DEF ResType
<1>11. r.close = close
  BY <1>0, <1>8, Zenon DEF ResType
<1>12. PICK w : w = [r EXCEPT !.head_sent = TRUE, !.out = out, !.said = said]
  OBVIOUS
<1>13. WithHead(until) = w
  BY <1>9, <1>10, <1>11, <1>12, Zenon DEF WithHead, out
<1> HIDE DEF said
<1>14. /\ w \in ResType /\ w.out = out /\ w.said = said /\ w.close = r.close
       /\ w.asked = r.asked /\ w.short = r.short
  BY <1>1, <1>3, <1>10, <1>12 DEF ResType
<1>15. w.head_sent
  BY <1>10, <1>12 DEF ResType
<1>16. PICK u : u = [r EXCEPT !.failed = TRUE, !.out = bad]
  OBVIOUS
<1>17. Unbuilt(until) = u
  BY <1>9, <1>10, <1>16, Zenon DEF Unbuilt, bad
<1>18. /\ u \in ResType /\ u.out = bad /\ u.said = r.said /\ u.close = r.close
       /\ u.head_sent = r.head_sent /\ u.asked = r.asked /\ u.short = r.short
  BY <1>1, <1>10, <1>16 DEF ResType
<1>19. u.failed
  BY <1>10, <1>16 DEF ResType
<1>20. ~TooMuchLeft => ~req.chunked /\ req.len - st.body_read <= DrainMax
  <2>1. req.len - st.body_read \in Int /\ DrainMax \in Int
    BY BodyAssumption DEF Inv, TypeOK, StType, ReqType
  <2> QED
    BY <2>1 DEF TooMuchLeft
<1>21. Flushed(w)
  BY <1>1, <1>3, <1>6, <1>7, <1>10, <1>11, <1>14, <1>15, <1>20 DEF Flushed
<1>22. Flushed(u)
  BY <1>0, <1>1, <1>7, <1>10, <1>11, <1>18, <1>19 DEF Flushed
<1> QED
  BY <1>13, <1>14, <1>17, <1>21, <1>22

\* Whatever a flush of the first part comes to.
LEMMA FlushSays ==
    ASSUME Inv, pc \in {"handler", "finish"}, ~res.head_sent, ~res.failed,
           NEW until \in BOOLEAN, NEW r \in Flushes(until)
    PROVE  Flushed(r)
<1>0. res \in ResType /\ res.out \in Unanswered /\ res.said = "none"
      /\ (~st.continue_sent => res.out \in {<<>>, <<"500">>})
  BY DEF Inv, TypeOK, Sent, Promised
<1>1. PICK w : w = WithHead(until)
  OBVIOUS
<1>2. w \in ResType /\ Flushed(w) /\ Flushed(Unbuilt(until))
  BY <1>1, HeadSays
<1>3. CASE r = [w EXCEPT !.failed = TRUE]
  <2>1. /\ r \in ResType /\ r.out = w.out /\ r.said = w.said /\ r.close = w.close
        /\ r.head_sent = w.head_sent /\ r.asked = w.asked /\ r.short = w.short
    BY <1>2, <1>3 DEF ResType
  <2>2. r.failed
    BY <1>2, <1>3 DEF ResType
  <2> QED
    BY <1>2, <2>1, <2>2 DEF Flushed
<1>4. CASE r = [res EXCEPT !.failed = TRUE]
  <2>1. /\ r \in ResType /\ r.out = res.out /\ r.said = res.said /\ r.close = res.close
        /\ r.head_sent = res.head_sent /\ r.asked = res.asked /\ r.short = res.short
    BY <1>0, <1>4 DEF ResType
  <2>2. r.failed
    BY <1>0, <1>4 DEF ResType
  <2> QED
    BY <1>0, <2>1, <2>2 DEF Flushed
<1> QED
  BY <1>1, <1>2, <1>3, <1>4 DEF Flushes

\* The handler's reply outgrows the slab, or it flushes.
LEMMA SendHeadStep == ASSUME Inv, SendHead PROVE Inv'
<1>0. /\ pc = "handler" /\ ~res.head_sent /\ ~res.failed /\ Stay
      /\ UNCHANGED <<pc, req, st, call>> /\ call.op # "drain"
  BY DEF SendHead, Inv, Promised
<1>1. PICK until \in BOOLEAN : res' \in Flushes(until)
  BY DEF SendHead
<1>2. Flushed(res')
  BY <1>0, <1>1, FlushSays
<1>4. TypeOK'
  BY <1>0, <1>2 DEF Inv, TypeOK, Stay, input, Flushed
<1>5. Server' = Server
  BY <1>0 DEF Server, At
<1>6. Linked'
  BY <1>0, <1>5, LinkedStays DEF Inv, Stay, input
<1>7. Counted'
  BY <1>0 DEF Inv, Counted
<1>8. Sent'
  BY <1>0, <1>2 DEF Sent, Flushed
<1>9. Promised'
  <2>1. Drained' = 0
    BY <1>0 DEF Drained
  <2>2. req.len - st.body_read \in Int
    BY DEF Inv, TypeOK, StType, ReqType
  <2>3. (res.asked => res.close) /\ ~res.short
    BY <1>0 DEF Inv, Promised
  <2> QED
    BY <1>0, <1>2, <2>1, <2>2, <2>3 DEF Promised, Flushed
<1> QED
  BY <1>4, <1>6, <1>7, <1>8, <1>9 DEF Inv

\* The handler asks for a close.
LEMMA AsksToCloseStep == ASSUME Inv, AsksToClose PROVE Inv'
<1>0. /\ pc = "handler" /\ Stay /\ UNCHANGED <<pc, req, st, call>>
      /\ res \in ResType /\ TypeOK /\ res' = [res EXCEPT !.close = TRUE, !.asked = res.head_sent]
  BY DEF AsksToClose, Inv, TypeOK
<1>1. /\ res' \in ResType /\ res'.out = res.out /\ res'.said = res.said
      /\ res'.head_sent = res.head_sent /\ res'.failed = res.failed
      /\ res'.short = res.short /\ res'.asked = res.head_sent
  BY <1>0 DEF ResType
<1>2. res'.close
  BY <1>0 DEF ResType
<1>3. TypeOK'
  BY <1>0, <1>1 DEF TypeOK, Stay, input
<1>4. Server' = Server
  BY <1>0 DEF Server, At
<1>5. Linked'
  BY <1>0, <1>4, LinkedStays DEF Inv, Stay, input
<1>6. Counted' /\ Sent'
  BY <1>0, <1>1 DEF Inv, Counted, Sent
<1>7. Drained' = Drained
  BY <1>0 DEF Drained
<1>8. Promised'
  BY <1>0, <1>1, <1>2, <1>7 DEF Inv, Promised
<1> QED
  BY <1>3, <1>5, <1>6, <1>8 DEF Inv

\* The handler returns.
LEMMA HandlerReturnsStep == ASSUME Inv, HandlerReturns PROVE Inv'
<1>0. /\ pc = "handler" /\ Stay /\ UNCHANGED <<req, st>> /\ call.op # "drain"
      /\ res \in ResType /\ st \in StType /\ req \in ReqType /\ TypeOK
  BY DEF HandlerReturns, Inv, Promised, TypeOK
<1>1. CASE /\ st.body_err # 0
           /\ res' = IF st.body_err > 0 /\ ~res.head_sent
                     THEN [res EXCEPT !.out = Append(@, "status")] ELSE res
           /\ Closes
  <2>1. pc' = "closed" /\ call' = NoCall /\ NoCall \in CallType
    BY <1>1 DEF Closes, NoCall, CallType
  <2>2. /\ res' \in ResType /\ res'.head_sent = res.head_sent
        /\ res'.close = res.close /\ res'.said = res.said
        /\ res'.asked = res.asked
        /\ \/ res'.out \in Unanswered \cup Answers \cup Statuses
           \/ res'.failed /\ res'.out \in Dead \cup DeadTwice
    <3>1. CASE res' = res
      BY <1>0, <3>1 DEF Inv, Sent
    <3>2. CASE ~res.head_sent /\ res' = [res EXCEPT !.out = Append(@, "status")]
      <4>1. PICK o : o = Append(res.out, "status")
        OBVIOUS
      <4>2. o \in Statuses \/ (res.failed /\ o \in DeadTwice)
        BY <1>0, <3>2, <4>1, SaysMore DEF Inv, Sent
      <4>3. o \in Seq(Words)
        BY <4>2, Says
      <4>4. res' = [res EXCEPT !.out = o]
        BY <3>2, <4>1
      <4>5. /\ res' \in ResType /\ res'.head_sent = res.head_sent
            /\ res'.close = res.close /\ res'.said = res.said /\ res'.out = o
            /\ res'.asked = res.asked /\ res'.failed = res.failed
        BY <1>0, <4>3, <4>4 DEF ResType
      <4> QED
        BY <4>2, <4>5
    <3> QED
      BY <1>1, <3>1, <3>2
  <2>3. TypeOK'
    BY <1>0, <2>1, <2>2 DEF TypeOK, PCs, Stay, input
  <2>4. Linked' /\ Counted' /\ Sent'
    BY <1>0, <2>1, <2>2 DEF Inv, Linked, Counted, Sent
  <2>5. Promised'
    BY <1>0, <2>1, <2>2 DEF Inv, Promised
  <2> QED
    BY <2>3, <2>4, <2>5 DEF Inv
<1>2. CASE /\ st.body_err = 0 /\ req.expect /\ ~st.continue_sent /\ ~st.body_done
           /\ res' = [res EXCEPT !.close = TRUE]
           /\ pc' = "finish" /\ UNCHANGED call
  <2>1. /\ res' \in ResType /\ res'.head_sent = res.head_sent
        /\ res'.said = res.said /\ res'.out = res.out /\ res'.failed = res.failed
        /\ res'.asked = res.asked /\ res'.short = res.short
    BY <1>0, <1>2 DEF ResType
  <2>2. res'.close
    BY <1>0, <1>2 DEF ResType
  <2>3. res.said # "keep"
    BY <1>0, <1>2 DEF Inv, Promised
  <2>4. TypeOK'
    BY <1>0, <1>2, <2>1 DEF TypeOK, PCs, Stay, input
  <2>5. Server' = Server
    BY <1>0, <1>2 DEF Server, At
  <2>6. Linked'
    BY <1>0, <1>2, <2>5, LinkedStays DEF Inv, Stay, input
  <2>7. Counted'
    BY <1>0, <1>2, <2>2 DEF Inv, Counted
  <2>8. Sent'
    BY <1>0, <1>2, <2>1 DEF Inv, Sent
  <2>9. Promised'
    BY <1>0, <1>2, <2>1, <2>2, <2>3 DEF Inv, Promised
  <2> QED
    BY <2>4, <2>6, <2>7, <2>8, <2>9 DEF Inv
<1>3. CASE /\ st.body_err = 0
           /\ pc' = "drain" /\ call' = [NoCall EXCEPT !.op = "drain", !.want = DrainBuf]
           /\ UNCHANGED res
  <2>1. call' \in CallType /\ call'.op = "drain" /\ call'.drained = 0
    BY <1>3, BodyAssumption DEF NoCall, CallType
  <2>2. TypeOK'
    BY <1>0, <1>3, <2>1 DEF TypeOK, PCs, Stay, input
  <2>3. Server' = Server
    BY <1>0, <1>3 DEF Server, At
  <2>4. Linked'
    BY <1>0, <1>3, <2>3, LinkedStays DEF Inv, Stay, input
  <2>5. Counted' /\ Sent'
    BY <1>0, <1>3 DEF Inv, Counted, Sent
  <2>6. Drained = 0 /\ Drained' = 0
    BY <1>0, <1>3, <2>1 DEF Drained
  <2>7. Promised'
    BY <1>0, <1>3, <2>1, <2>6 DEF Inv, Promised
  <2> QED
    BY <2>2, <2>4, <2>5, <2>7 DEF Inv
<1> QED
  BY <1>1, <1>2, <1>3 DEF HandlerReturns

\* One turn of drain_body: when it gives up, the reply did not say that the
\* connection stays open.
LEMMA DrainStep == ASSUME Inv, Drain PROVE Inv'
<1>0. /\ pc = "drain" /\ Stay /\ UNCHANGED <<req, st>> /\ call.op = "drain"
      /\ res \in ResType /\ st \in StType /\ req \in ReqType /\ call \in CallType /\ TypeOK
  BY DEF Drain, Inv, Promised, TypeOK
<1>1. CASE st.body_err # 0 /\ Closes /\ UNCHANGED res
  <2>1. pc' = "closed" /\ call' = NoCall /\ NoCall \in CallType
    BY <1>1 DEF Closes, NoCall, CallType
  <2>2. TypeOK'
    BY <1>0, <1>1, <2>1 DEF TypeOK, PCs, Stay, input
  <2>3. Linked' /\ Counted' /\ Sent'
    BY <1>0, <1>1, <2>1 DEF Inv, Linked, Counted, Sent
  <2>4. Promised'
    BY <1>0, <1>1, <2>1 DEF Inv, Promised
  <2> QED
    BY <2>2, <2>3, <2>4 DEF Inv
<1>2. CASE /\ st.body_err = 0 /\ (st.body_done \/ DrainedOut)
           /\ res' = [res EXCEPT !.close = @ \/ ~st.body_done]
           /\ pc' = "finish" /\ call' = NoCall
  <2>1. /\ res' \in ResType /\ res'.head_sent = res.head_sent
        /\ res'.said = res.said /\ res'.out = res.out /\ res'.failed = res.failed
        /\ res'.asked = res.asked /\ res'.short = res.short
    BY <1>0, <1>2 DEF ResType
  <2>2. res'.close <=> res.close \/ ~st.body_done
    BY <1>0, <1>2 DEF ResType
  <2>3. NoCall \in CallType /\ NoCall.op # "drain"
    BY DEF NoCall, CallType
  <2>4. res.said = "keep" => st.body_done
    <3> SUFFICES ASSUME res.said = "keep", ~st.body_done PROVE FALSE
      OBVIOUS
    <3>1. /\ ~req.chunked /\ req.len - st.body_read + Drained <= DrainMax
          /\ st.body_read <= req.len /\ st.body_read # req.len
      BY <1>0, <1>2 DEF Inv, Promised, Counted
    <3>2. Drained = call.drained + 0 /\ call.drained >= DrainMax
      BY <1>0, <1>2 DEF Drained, DrainedOut
    <3>3. req.len \in Nat /\ st.body_read \in Nat /\ call.drained \in Nat /\ DrainMax \in Nat
      BY <1>0, BodyAssumption DEF ReqType, StType, CallType
    <3> QED
      BY <3>1, <3>2, <3>3
  <2>5. TypeOK'
    BY <1>0, <1>2, <2>1, <2>3 DEF TypeOK, PCs, Stay, input
  <2>6. Server' = Server
    BY <1>0, <1>2 DEF Server, At
  <2>7. Linked'
    BY <1>0, <1>2, <2>6, LinkedStays DEF Inv, Stay, input
  <2>8. Counted'
    BY <1>0, <1>2, <2>2 DEF Inv, Counted
  <2>9. Sent'
    BY <1>0, <1>2, <2>1 DEF Inv, Sent
  <2>10. Promised'
    BY <1>0, <1>2, <2>1, <2>2, <2>3, <2>4 DEF Inv, Promised
  <2> QED
    BY <2>5, <2>7, <2>8, <2>9, <2>10 DEF Inv
<1>3. CASE /\ st.body_err = 0 /\ ~st.body_done
           /\ pc' = "body" /\ call' = [call EXCEPT !.got = 0]
           /\ UNCHANGED res
  <2>1. call' \in CallType /\ call'.op = "drain" /\ call'.drained = call.drained
        /\ call'.got = 0
    BY <1>0, <1>3 DEF CallType
  <2>2. TypeOK'
    BY <1>0, <1>3, <2>1 DEF TypeOK, PCs, Stay, input
  <2>3. Server' = Server
    BY <1>0, <1>3 DEF Server, At
  <2>4. Linked'
    BY <1>0, <1>3, <2>3, LinkedStays DEF Inv, Stay, input
  <2>5. Counted' /\ Sent'
    BY <1>0, <1>3, <2>1 DEF Inv, Counted, Sent
  <2>6. Drained' = Drained
    BY <1>0, <1>3, <2>1 DEF Drained
  <2>7. Promised'
    BY <1>0, <1>3, <2>1, <2>6 DEF Inv, Promised
  <2> QED
    BY <2>2, <2>4, <2>5, <2>7 DEF Inv
<1> QED
  BY <1>1, <1>2, <1>3 DEF Drain

\* What finish makes of the reply, and what it decides by.
LEMMA FinishSays ==
    ASSUME Inv, Finish
    PROVE  /\ res' \in ResType /\ (res.close => res'.close)
           /\ res'.head_sent <=> res'.said # "none"
           /\ res'.said = "keep" => req.keep
           /\ res'.said = "close" => ~req.keep \/ res'.close
           /\ res'.head_sent \/ res'.failed
           /\ res'.said = "keep" /\ res'.close => res'.short \/ res'.asked
           /\ res'.asked \/ res'.short => res'.close
           /\ res'.head_sent => res'.out \in Answers
           /\ ~res'.head_sent => res'.out \in Unanswered \cup Dead
<1>0. /\ pc = "finish" /\ st.body_err = 0 /\ res \in ResType
  BY DEF Finish, Inv, Counted, TypeOK
<1>1. /\ res.head_sent <=> res.said # "none"
      /\ res.said = "keep" => req.keep
      /\ res.said = "close" => ~req.keep \/ res.close
      /\ res.said = "keep" /\ res.close => res.asked
      /\ (res.asked => res.close) /\ ~res.short
      /\ res.head_sent => res.out \in Answers
      /\ ~res.head_sent => res.out \in Unanswered \cup Dead
  BY <1>0 DEF Inv, Promised, Sent
<1>2. CASE res' = res /\ (res.failed \/ res.head_sent)
  BY <1>0, <1>1, <1>2
<1>3. CASE res' = CutShort /\ res.head_sent
  <2>1. /\ res' \in ResType /\ res'.head_sent = res.head_sent /\ res'.said = res.said
        /\ res'.out = res.out /\ res'.asked = res.asked
    BY <1>0, <1>3 DEF CutShort, ResType
  <2>2. res'.close /\ res'.short
    BY <1>0, <1>3 DEF CutShort, ResType
  <2> QED
    BY <1>1, <1>3, <2>1, <2>2
<1>4. CASE res' = [res EXCEPT !.failed = TRUE] /\ res.head_sent
  <2>1. /\ res' \in ResType /\ res'.head_sent = res.head_sent /\ res'.said = res.said
        /\ res'.out = res.out /\ res'.asked = res.asked /\ res'.close = res.close
        /\ res'.short = res.short
    BY <1>0, <1>4 DEF ResType
  <2> QED
    BY <1>1, <1>4, <2>1
<1>5. CASE res' \in Flushes(FALSE) /\ ~res.head_sent /\ ~res.failed
  <2>1. Flushed(res')
    BY <1>0, <1>5, FlushSays
  <2> QED
    BY <1>1, <2>1 DEF Flushed
<1> QED
  BY <1>2, <1>3, <1>4, <1>5 DEF Finish

\* finish, and the next turn.
LEMMA FinishStep == ASSUME Inv, Finish PROVE Inv'
<1>0. /\ pc = "finish" /\ Stay /\ UNCHANGED <<req, st>> /\ TypeOK
      /\ st.body_err = 0 /\ (st.body_done \/ res.close)
  BY DEF Finish, Inv, Counted
<1>2. /\ res' \in ResType /\ (res.close => res'.close)
      /\ res'.head_sent <=> res'.said # "none"
      /\ res'.said = "keep" => req.keep
      /\ res'.said = "close" => ~req.keep \/ res'.close
      /\ res'.head_sent \/ res'.failed
      /\ res'.asked \/ res'.short => res'.close
      /\ res'.head_sent => res'.out \in Answers
      /\ ~res'.head_sent => res'.out \in Unanswered \cup Dead
  BY FinishSays
<1>3. NoCall \in CallType
  BY DEF NoCall, CallType
<1>4. CASE req.keep /\ ~res'.close /\ ~res'.failed /\ pc' = "head" /\ UNCHANGED call
  <2>1. TypeOK'
    BY <1>0, <1>2, <1>4 DEF TypeOK, PCs, Stay, input
  <2>2. Server' = Server
    BY <1>0, <1>2, <1>4 DEF Server, At
  <2>3. Linked'
    BY <1>0, <1>2, <1>4, <2>2, LinkedStays DEF Inv, Stay, input
  <2>4. Counted'
    BY <1>0, <1>2, <1>4 DEF Inv, Counted
  <2>5. Sent'
    BY <1>2, <1>4 DEF Sent
  <2>6. Promised'
    BY <1>0, <1>2, <1>4 DEF Inv, Promised
  <2> QED
    BY <2>1, <2>3, <2>4, <2>5, <2>6 DEF Inv
<1>5. CASE Closes
  <2>1. pc' = "closed" /\ call' = NoCall
    BY <1>5 DEF Closes
  <2>3. TypeOK'
    BY <1>0, <1>2, <1>3, <2>1 DEF TypeOK, PCs, Stay, input
  <2>4. Linked' /\ Counted' /\ Sent'
    BY <1>0, <1>2, <2>1 DEF Inv, Linked, Counted, Sent
  <2>5. Promised'
    BY <1>0, <1>2, <2>1 DEF Promised
  <2> QED
    BY <2>3, <2>4, <2>5 DEF Inv
<1> QED
  BY <1>4, <1>5 DEF Finish

\* The peer is gone, or the head is refused.
LEMMA NoRequest ==
    ASSUME Inv, pc = "head", res' \in {NoRes, [NoRes EXCEPT !.out = <<"status">>]},
           Closes, Stay, UNCHANGED <<req, st>>
    PROVE  Inv'
<1>1. pc' = "closed" /\ call' = NoCall /\ NoCall \in CallType
  BY DEF Closes, NoCall, CallType
<1>2. /\ res' \in ResType /\ ~res'.head_sent /\ res'.said = "none"
      /\ res'.out \in Unanswered \cup Statuses /\ ~res'.asked
  <2>0. <<>> \in Unanswered /\ <<"status">> \in Statuses
    BY DEF Unanswered, Statuses
  <2>1. /\ NoRes \in ResType /\ NoRes.head_sent = FALSE /\ NoRes.said = "none"
        /\ NoRes.out = <<>> /\ NoRes.asked = FALSE
    BY <2>0, Says DEF NoRes, ResType
  <2>2. ASSUME NEW o \in Seq(Words)
        PROVE  LET r == [NoRes EXCEPT !.out = o]
               IN  /\ r \in ResType /\ r.head_sent = NoRes.head_sent /\ r.said = NoRes.said
                   /\ r.out = o /\ r.asked = NoRes.asked
    BY <2>1 DEF ResType
  <2> QED
    BY <2>0, <2>1, <2>2, Says
<1>3. TypeOK'
  BY <1>1, <1>2 DEF Inv, TypeOK, PCs, Stay, input
<1>4. Linked' /\ Counted' /\ Sent'
  BY <1>1, <1>2 DEF Inv, Linked, Counted, Sent
<1>5. Promised'
  BY <1>1, <1>2 DEF Promised
<1> QED
  BY <1>3, <1>4, <1>5 DEF Inv

\* read_head and fill_request
LEMMA ReadHeadStep == ASSUME Inv, ReadHead PROVE Inv'
<1>0. pc = "head" /\ Here /\ TypeOK /\ st.body_done /\ st.body_err = 0
  BY DEF ReadHead, Inv, Counted
<1>1. CASE ~Parsed
  BY <1>0, <1>1, NoRequest DEF ReadHead
<1>2. CASE Parsed
  <2>0. /\ Took(1) /\ st' = FreshBody(Next1) /\ res' = NoRes
        /\ pc' = "handler" /\ UNCHANGED call
        /\ req' = [chunked |-> Next1.chunked, len |-> Next1.len, keep |-> Next1.keep,
                   expect |-> Next1.expect]
    BY <1>2 DEF ReadHead
  <2>1. Next1 \in HeadType /\ Next1.k = "head" /\ ~Next1.refused
    BY <1>0, <1>2, NextToken, TokenFields DEF Parsed
  <2>2. /\ req' \in ReqType /\ req'.len = Next1.len /\ req'.chunked = Next1.chunked
        /\ Next1.len \in Nat /\ Next1.chunked \in BOOLEAN
    BY <2>0, <2>1 DEF ReqType, HeadType
  <2>3. /\ st' \in StType /\ st'.body_read = 0 /\ st'.chunk_left = 0 /\ st'.body_err = 0
    <3>1. (~Next1.chunked /\ Next1.len = 0) \in BOOLEAN
      OBVIOUS
    <3>0. /\ NoBody \in StType /\ NoBody.body_read = 0 /\ NoBody.chunk_left = 0
          /\ NoBody.body_err = 0
      BY DEF NoBody, StType
    <3>2. \A b \in BOOLEAN :
            LET t == [NoBody EXCEPT !.body_done = b]
            IN  t \in StType /\ t.body_read = 0 /\ t.chunk_left = 0 /\ t.body_err = 0
      BY <3>0 DEF StType
    <3>3. st' = [NoBody EXCEPT !.body_done = ~Next1.chunked /\ Next1.len = 0]
      BY <2>0 DEF FreshBody
    <3> QED
      BY <3>1, <3>2, <3>3, Zenon
  <2>4. st'.body_done <=> ~Next1.chunked /\ Next1.len = 0
    BY <2>0 DEF FreshBody, NoBody
  <2>5. /\ res' \in ResType /\ ~res'.head_sent /\ res'.said = "none" /\ res'.out = <<>>
        /\ ~res'.asked /\ ~res'.short
    BY <2>0, Says DEF NoRes, ResType, Unanswered
  <2>6. call'.op # "drain"
    BY <2>0, <1>0 DEF Inv, Promised
  <2>7. Server' = RefStep(Server, Next1)
    <3>1. Server = At("start")
      BY <1>0 DEF Server
    <3>2. Server' = IF st'.body_done THEN At("start")
                    ELSE IF ~req'.chunked THEN [at |-> "data", left |-> req'.len]
                    ELSE At("size")
      BY <2>0, <2>2, <2>3 DEF Server, At
    <3>3. RefStep(At("start"), Next1) =
            IF Next1.chunked THEN At("size")
            ELSE IF Next1.len > 0 THEN [at |-> "data", left |-> Next1.len] ELSE At("start")
      BY <2>1 DEF RefStep, At
    <3> QED
      BY <2>2, <2>4, <3>1, <3>2, <3>3
  <2>8. Linked' /\ queue' \in Seq(Items) /\ ref' \in Positions
    BY <1>0, <2>0, <2>7, OneToken, NextToken, LinkedTakes DEF Inv
  <2>9. TypeOK'
    BY <1>0, <2>0, <2>2, <2>3, <2>5, <2>8 DEF TypeOK, PCs
  <2>10. Counted'
    BY <2>0, <2>2, <2>3, <2>4 DEF Counted
  <2>11. Sent' /\ Promised'
    BY <2>0, <2>5, <2>6 DEF Sent, Promised, Unanswered
  <2> QED
    BY <2>8, <2>9, <2>10, <2>11 DEF Inv
<1> QED
  BY <1>1, <1>2

-----------------------------------------------------------------------------
(* The theorems.                                                           *)

\* A connection starts in front of a message.
LEMMA Initially == Init => Inv
<1> SUFFICES ASSUME Init PROVE Inv
  OBVIOUS
<1>1. TypeOK
  BY Says DEF Init, TypeOK, Positions, Places, PCs, At, NoReq, NoBody, NoRes, NoCall, ReqType,
     StType, ResType, CallType, Unanswered
<1>2. Counted /\ Sent /\ Promised
  BY DEF Init, Counted, Sent, Promised, NoReq, NoBody, NoRes, NoCall
<1>3. Linked
  <2> DEFINE p == [i \in 0..0 |-> At("start")]
  <2>1. At("start") \in Positions
    BY DEF At, Positions, Places
  <2>2. Server = At("start") /\ ref = At("start") /\ Len(queue) = 0
    BY DEF Init, Server
  <2>3. Chain(p, queue, Server, ref)
    BY <2>1, <2>2 DEF Chain
  <2> QED
    BY <2>3 DEF Linked
<1> QED
  BY <1>1, <1>2, <1>3 DEF Inv

\* Every step keeps the invariant.
LEMMA Inductive == Inv /\ [Next]_vars => Inv'
<1> SUFFICES ASSUME Inv, [Next]_vars PROVE Inv'
  OBVIOUS
<1>1. CASE UNCHANGED vars \/ Closed \/ Leave
  BY <1>1, SameStep DEF vars, Closed, Leave
<1>2. CASE Handler
  BY <1>2, ReadsStep, BodyAllStep, SendHeadStep, AsksToCloseStep DEF Handler
<1>3. CASE Reading
  BY <1>3, BodyGoneStep, FixedDataStep, FixedAllStep, ChunkHeaderStep, ChunkTooLargeStep,
     ChunkDataStep, ChunkEndStep, ChunkTrailersStep DEF Reading
<1>4. CASE NoHead
  BY <1>4, NoRequest DEF NoHead
<1> QED
  BY <1>1, <1>2, <1>3, <1>4, ArriveStep, HandlerReturnsStep, ReadHeadStep, DrainStep,
     FinishStep DEF Next, Peer, Serving

\* The invariant holds throughout.
LEMMA Invariance == Spec => []Inv
BY Initially, Inductive, PTL DEF Spec

\* Whatever mix of reads the handlers of a connection make, and wherever they
\* stop, the server of engine.c takes each token for what RFC 9112 makes of it.
THEOREM StaysInStep == Spec => []InStep
<1>1. Inv => InStep
  <2> SUFFICES ASSUME Inv, pc # "closed", st.body_err = 0
               PROVE  Role \in {Expects, "bad"} /\ (ref.at = "bad" => queue # <<>>)
    BY DEF InStep, Inv, Counted
  <2>1. PICK p : Chain(p, queue, Server, ref)
    BY DEF Inv, Linked
  <2>2. Server.at = Expects /\ Server.at # "bad"
    <3>1. CASE pc \in {"head", "chunk_end", "trailers"}
      BY <3>1 DEF Server, Expects, At, Inv, TypeOK, StType, Counted
    <3>2. CASE pc \notin {"head", "chunk_end", "trailers"} /\ st.body_done
      BY <3>2 DEF Server, Expects, At
    <3>3. CASE pc \notin {"head", "chunk_end", "trailers"} /\ ~st.body_done /\ ~req.chunked
      BY <3>3 DEF Server, Expects
    <3>4. CASE pc \notin {"head", "chunk_end", "trailers"} /\ ~st.body_done /\ req.chunked
      BY <3>4 DEF Server, Expects, At
    <3> QED
      BY <3>1, <3>2, <3>3, <3>4
  <2>3. CASE queue = <<>>
    <3>1. Server = ref
      BY <2>1, <2>3 DEF Chain
    <3> QED
      BY <2>2, <2>3, <3>1 DEF Role
  <2>4. CASE queue # <<>>
    <3>1. Head(queue) = queue[1] /\ 1 \in 1..Len(queue) /\ 1 - 1 = 0
      BY <2>4 DEF Inv, TypeOK
    <3>2. Head(queue).role \in {Server.at, "bad"}
      BY <2>1, <3>1 DEF Chain
    <3> QED
      BY <2>2, <2>4, <3>2 DEF Role
  <2> QED
    BY <2>3, <2>4
<1> QED
  BY <1>1, Invariance, PTL

\* A request is answered once, with an interim reply before that or none
\* (flush_with, body_begin, after_dispatch, finish), and the connection goes on
\* only behind a reply's head; when the head could not be built, the reply is dead
\* and no head goes out.
THEOREM RepliesOnce == Spec => []OneReply
<1>1. Inv => OneReply
  <2> SUFFICES ASSUME Inv PROVE OneReply
    OBVIOUS
  <2>1. \A o \in Answers : Last(o) = "head"
    BY DEF Last, Answers
  <2>2. pc \in PCs
    BY DEF Inv, TypeOK
  <2>3. ASSUME NEW o \in Dead \cup DeadTwice
        PROVE  "500" \in ToSet(o) /\ "head" \notin ToSet(o)
    BY DEF Dead, DeadTwice, ToSet
  <2>4. ASSUME NEW o \in Unanswered \cup Answers \cup Statuses
        PROVE  "500" \notin ToSet(o)
    BY DEF Unanswered, Answers, Statuses, ToSet
  <2>5. \/ res.out \in Unanswered \cup Answers \cup Statuses
        \/ res.failed /\ res.out \in Dead \cup DeadTwice
    BY DEF Inv, Sent, Unanswered
  <2>6. pc = "head" /\ res.out # <<>> => Last(res.out) = "head"
    BY <2>1 DEF Inv, Sent
  <2> QED
    BY <2>3, <2>4, <2>5, <2>6 DEF OneReply, Unanswered, Answers, Statuses
<1> QED
  BY <1>1, Invariance, PTL

\* A connection goes on only behind a whole reply whose head said so, and closes
\* behind such a head only for what came after it: the peer failed, the body was
\* refused, the stream came short of its length, or the handler asked late.  The
\* close drain_body or after_dispatch decides on never comes too late for the head.
THEOREM PromisesAreKept == Spec => PromiseKept
<1>1. ASSUME Inv, Next
      PROVE  /\ pc = "finish" /\ pc' = "head" =>
                  res'.said = "keep" /\ ~res'.failed /\ ~res'.short /\ ~res'.asked
             /\ pc \notin {"head", "closed"} /\ pc' = "closed" /\ res'.said = "keep" =>
                  res'.failed \/ st'.body_err # 0 \/ res'.short \/ res'.asked
  <2>1. CASE Finish
    <3>1. /\ res' \in ResType
          /\ res'.head_sent <=> res'.said # "none"
          /\ res'.said = "keep" => req.keep
          /\ res'.said = "close" => ~req.keep \/ res'.close
          /\ res'.head_sent \/ res'.failed
          /\ res'.said = "keep" /\ res'.close => res'.short \/ res'.asked
          /\ res'.asked \/ res'.short => res'.close
      BY <1>1, <2>1, FinishSays
    <3>2. CASE req.keep /\ ~res'.close /\ ~res'.failed /\ pc' = "head"
      BY <3>1, <3>2 DEF ResType
    <3>3. CASE ~(req.keep /\ ~res'.close /\ ~res'.failed) /\ pc' = "closed"
      BY <2>1, <3>1, <3>3
    <3> QED
      BY <2>1, <3>2, <3>3 DEF Finish, Closes
  <2>2. CASE Drain \/ HandlerReturns
    BY <2>2 DEF Drain, HandlerReturns, Closes
  <2>3. CASE Peer \/ Handler \/ Closed
    BY <2>3 DEF Peer, Arrive, Leave, Handler, ReadUntil, ReadNextChunk, BodyAll, SendHead,
       AsksToClose, Begin, Closed, vars
  <2>4. CASE ReadHead \/ NoHead
    BY <2>4 DEF ReadHead, NoHead
  <2>5. CASE Reading
    <3>1. pc' \notin {"head", "closed"}
      BY <2>5 DEF Reading, BodyGone, FixedData, FixedAll, ChunkHeader, ChunkTooLarge, ChunkData,
         ChunkEnd, ChunkTrailers, Goes, Refuse, Back
    <3> QED
      BY <3>1
  <2> QED
    BY <1>1, <2>1, <2>2, <2>3, <2>4, <2>5 DEF Next, Serving
<1>2. Inv /\ [Next]_vars =>
        [/\ pc = "finish" /\ pc' = "head" =>
              res'.said = "keep" /\ ~res'.failed /\ ~res'.short /\ ~res'.asked
         /\ pc \notin {"head", "closed"} /\ pc' = "closed" /\ res'.said = "keep" =>
              res'.failed \/ st'.body_err # 0 \/ res'.short \/ res'.asked]_vars
  BY <1>1
<1> QED
  BY <1>2, Invariance, PTL DEF Spec, PromiseKept
=============================================================================
