-------------------------------- MODULE Body --------------------------------
(***************************************************************************)
(* The connection loop of the HTTP engine (lib/http/engine.c, the request  *)
(* half): a head is read, the handler reads as much of the body as it      *)
(* likes, by three kinds of read, the rest is drained, and the next head   *)
(* begins where the body ended.                                            *)
(*                                                                         *)
(* The input is a sequence of tokens: a request head, a chunk's size line, *)
(* an empty line, or anything else.  What a token means depends on where   *)
(* it stands: inside a body each is one unit of data.  ref is the position *)
(* in the message by RFC 9112, kept where the peer writes, and each token  *)
(* carries the role it has there; the server must find the same roles.     *)
(***************************************************************************)
EXTENDS Naturals, Integers, Sequences, SequencesExt, FiniteSetsExt

CONSTANTS
    Heads,          \* request heads: records, see HeadType
    Sizes,          \* sizes of chunks
    PipeCap,        \* units the reader can keep (pr->cap)
    DrainMax,       \* IOXD_DRAIN_MAX
    DrainBuf,       \* what drain_body reads at a time
    TrailerMax,     \* IOXD_TRAILER_MAX
    Reads,          \* sizes of the handler's reads
    MaxQueue,       \* bound: tokens arrived and not taken
    MaxTokens       \* bound: tokens in all

HeadType == [k : {"head"}, chunked : BOOLEAN, len : Nat, keep : BOOLEAN,
             expect : BOOLEAN, refused : BOOLEAN]

ASSUME BodyAssumption ==
    /\ Heads \subseteq HeadType
    /\ 0 \in Sizes /\ Sizes \subseteq Nat /\ Reads \subseteq Nat \ {0}
    /\ PipeCap \in Nat /\ DrainMax \in Nat /\ DrainBuf \in Nat \ {0}

VARIABLES
    queue,      \* tokens arrived and not taken, each with its role
    ref,        \* the peer's position
    arrived,    \* how many arrived
    fin,        \* the peer closed its side
    pc,         \* where the connection's coroutine is
    req,        \* the request's head
    st,         \* the serve_state: the body's part
    res,        \* the reply: head_sent, close, failed, the messages that were begun
                \* on the wire, what the head said, and why it closes in spite of it
    call        \* the read in progress

vars  == <<queue, ref, arrived, fin, pc, req, st, res, call>>
input == <<queue, ref, arrived, fin>>

Line(n) == [k |-> "size", n |-> n]
Empty   == [k |-> "crlf"]
Other   == [k |-> "junk"]
Tokens  == Heads \cup {Line(n) : n \in Sizes} \cup {Empty, Other}

NoReq  == [chunked |-> FALSE, len |-> 0, keep |-> FALSE, expect |-> FALSE]
NoBody == [body_read |-> 0, body_done |-> TRUE, body_whole |-> FALSE, body_err |-> 0,
           chunk_left |-> 0, continue_sent |-> FALSE, taken |-> 0]
NoRes  == [head_sent |-> FALSE, close |-> FALSE, failed |-> FALSE, out |-> <<>>,
           said |-> "none", asked |-> FALSE, short |-> FALSE]
NoCall == [op |-> "none", want |-> 0, got |-> 0, drained |-> 0]

At(where) == [at |-> where, left |-> 0]

Init ==
    /\ queue = <<>> /\ ref = At("start") /\ arrived = 0 /\ fin = FALSE
    /\ pc = "head" /\ req = NoReq /\ st = NoBody /\ res = NoRes /\ call = NoCall

-----------------------------------------------------------------------------
(* The peer.                                                               *)

\* RFC 9112: where a message is behind token t.
RefStep(r, t) ==
    CASE r.at = "start" /\ t.k = "head" /\ ~t.refused ->
            IF t.chunked THEN At("size")
            ELSE IF t.len > 0 THEN [at |-> "data", left |-> t.len] ELSE r
      [] r.at = "size" /\ t.k = "size" ->
            IF t.n = 0 THEN At("trailer") ELSE [at |-> "chunk", left |-> t.n]
      [] r.at = "data"  -> IF r.left = 1 THEN At("start") ELSE [r EXCEPT !.left = @ - 1]
      [] r.at = "chunk" -> IF r.left = 1 THEN At("crlf") ELSE [r EXCEPT !.left = @ - 1]
      [] r.at = "crlf" /\ t.k = "crlf" -> At("size")
      [] r.at = "trailer" -> IF t.k \in {"crlf", "head"} THEN At("start") ELSE r
      [] OTHER -> At("bad")

\* A token arrives.  (No empty line in front of a head: the parser would skip
\* one.)
Arrive ==
    /\ ~fin /\ arrived < MaxTokens /\ Len(queue) < MaxQueue
    /\ \E t \in Tokens :
          /\ ref.at = "start" => t.k # "crlf"
          /\ ref' = RefStep(ref, t)
          /\ queue' = Append(queue, [t |-> t, role |-> IF ref'.at = "bad" THEN "bad"
                                                       ELSE ref.at])
    /\ arrived' = arrived + 1
    /\ UNCHANGED <<fin, pc, req, st, res, call>>

Leave ==
    /\ ~fin
    /\ fin' = TRUE
    /\ UNCHANGED <<queue, ref, arrived, pc, req, st, res, call>>

-----------------------------------------------------------------------------
(* What the coroutine sees of the input.                                   *)

Next1    == Head(queue).t
Here     == queue # <<>>
Gone     == queue = <<>> /\ fin
Take(n)  == queue' = SubSeq(queue, n + 1, Len(queue))
Stay     == UNCHANGED input
Took(n)  == Take(n) /\ UNCHANGED <<ref, arrived, fin>>

Closes   == pc' = "closed" /\ call' = NoCall

\* init_body_state
FreshBody(h) == [NoBody EXCEPT !.body_done = ~h.chunked /\ h.len = 0]

\* phr_parse_request and fill_request take it.
Parsed == Next1.k = "head" /\ ~Next1.refused

\* read_head and fill_request: a whole head is parsed and kept, the context
\* is made; a refused request is answered and ends the connection.
ReadHead ==
    /\ pc = "head" /\ Here
    /\ \/ /\ Parsed
          /\ Took(1)
          /\ req' = [chunked |-> Next1.chunked, len |-> Next1.len, keep |-> Next1.keep,
                     expect |-> Next1.expect]
          /\ st' = FreshBody(Next1)
          /\ res' = NoRes
          /\ pc' = "handler" /\ UNCHANGED call
       \/ /\ ~Parsed
          /\ res' = [NoRes EXCEPT !.out = <<"status">>]
          /\ Closes /\ Stay /\ UNCHANGED <<req, st>>

\* The peer is gone between two requests.
NoHead ==
    /\ pc = "head" /\ Gone
    /\ res' = NoRes
    /\ Closes /\ Stay /\ UNCHANGED <<req, st>>

-----------------------------------------------------------------------------
(* The reads.  A read that may wait leaves pc = "body".                    *)

\* Mutant of Continue: asked for again by every read.
ContinueAgain == req.expect /\ ~res.head_sent

\* body_begin: the interim reply the first read of such a body sends.
Continue == req.expect /\ ~st.continue_sent /\ ~res.head_sent

Begin(c) ==
    \/ /\ Continue
       /\ st' = [st EXCEPT !.continue_sent = TRUE]
       /\ res' = [res EXCEPT !.out = Append(@, "100")]
       /\ call' = c /\ pc' = "body"
    \/ /\ Continue
       /\ st' = [st EXCEPT !.continue_sent = TRUE, !.body_err = -1]
       /\ UNCHANGED <<res, call, pc>>
    \/ /\ ~Continue
       /\ call' = c /\ pc' = "body"
       /\ UNCHANGED <<st, res>>

\* ioxd_body_read_until, called by the handler.
ReadUntil ==
    /\ pc = "handler" /\ st.body_err = 0 /\ ~st.body_done
    /\ \E n \in Reads : Begin([NoCall EXCEPT !.op = "until", !.want = n])
    /\ Stay /\ UNCHANGED req

\* ioxd_body_read_next_chunk
ReadNextChunk ==
    /\ pc = "handler" /\ st.body_err = 0 /\ req.chunked /\ ~st.body_done
    /\ \E n \in Reads : Begin([NoCall EXCEPT !.op = "next", !.want = n])
    /\ Stay /\ UNCHANGED req

\* ioxd_body_all
BodyAll ==
    /\ pc = "handler" /\ st.body_err = 0 /\ ~st.body_whole /\ st.body_read = 0
    /\ \/ ~st.body_done /\ Begin([NoCall EXCEPT !.op = "all"])
       \/ /\ st.body_done
          /\ st' = [st EXCEPT !.body_whole = TRUE]
          /\ UNCHANGED <<res, call, pc>>
    /\ Stay /\ UNCHANGED req

\* The read returns: to the handler, or to drain_body.
Back(s, c) ==
    /\ st' = s
    /\ pc' = IF c.op = "drain" THEN "drain" ELSE "handler"
    /\ call' = IF c.op = "drain" THEN [c EXCEPT !.drained = @ + c.got] ELSE NoCall

\* Mutant of Refuse: the end of the input is not recorded.
RefuseUnlessGone(err) ==
    Back([st EXCEPT !.body_err = IF err = -1 THEN 0 ELSE err], [call EXCEPT !.got = 0])

\* body_fail, or the peer is gone: the read fails.
Refuse(err) == Back([st EXCEPT !.body_err = err], [call EXCEPT !.got = 0])

\* Has the read what it wanted?
Enough(s, c) ==
    \/ s.body_done
    \/ c.op \in {"until", "drain"} /\ c.got >= c.want
    \/ c.op = "next" /\ c.got > 0 /\ s.chunk_left = 0

Goes(s, c) ==
    LET t == [s EXCEPT !.body_whole = @ \/ (c.op = "all" /\ s.body_done)] IN
    IF Enough(s, c) THEN Back(t, c) ELSE st' = t /\ call' = c /\ pc' = "body"

InBody == pc = "body"
More   == UNCHANGED <<req, res>>

\* The peer goes while a read waits.
BodyGone ==
    /\ pc \in {"body", "chunk_end", "trailers"} /\ Gone
    /\ Refuse(-1)
    /\ Stay /\ More

Remaining == req.len - st.body_read

\* fixed_data: as much as is here, is wanted and is left.
FixedData ==
    /\ InBody /\ ~req.chunked /\ call.op # "all"
    /\ \E n \in 1..Min({Len(queue), call.want - call.got, Remaining}) :
          /\ Took(n)
          /\ Goes([st EXCEPT !.body_read = @ + n, !.body_done = st.body_read + n = req.len],
                  [call EXCEPT !.got = @ + n])
    /\ More

\* body_all of a body with a length: once all of it is here; 413 for one that
\* cannot fit, or that does not fit beside the head.
FixedAll ==
    /\ InBody /\ ~req.chunked /\ call.op = "all"
    /\ \/ /\ req.len > PipeCap \/ Here
          /\ Refuse(413) /\ Stay
       \/ /\ req.len <= PipeCap /\ Len(queue) >= req.len
          /\ Took(req.len)
          /\ Goes([st EXCEPT !.body_read = req.len, !.body_done = TRUE], call)
    /\ More

\* chunk_header: the size line; the last chunk's goes on with the trailers.
ChunkHeader ==
    /\ InBody /\ req.chunked /\ st.chunk_left = 0 /\ Here
    /\ \/ /\ Next1.k # "size"
          /\ Refuse(400) /\ Stay
       \/ /\ Next1.k = "size" /\ Next1.n = 0
          /\ Took(1)
          /\ pc' = "trailers" /\ st' = [st EXCEPT !.taken = 0] /\ UNCHANGED call
       \/ /\ Next1.k = "size" /\ Next1.n > 0
          /\ Goes([st EXCEPT !.chunk_left = Next1.n], call)
          /\ Took(1)
    /\ More

\* read_next_chunk, of a chunk that is larger than its buffer.
ChunkTooLarge ==
    /\ InBody /\ call.op = "next" /\ call.got = 0 /\ st.chunk_left > call.want
    /\ Refuse(413)
    /\ Stay /\ More

\* Mutant of ChunkTake: the whole read, beyond the chunk.
ChunkTakeWant == Min({Len(queue), IF call.op \in {"until", "drain"}
                                  THEN call.want - call.got ELSE st.chunk_left})

\* What a read may take of the chunk.
ChunkTake == Min({Len(queue), st.chunk_left}
                 \cup IF call.op \in {"until", "drain"} THEN {call.want - call.got} ELSE {})

\* chunk_data, and body_all's keep, which may have no room.
ChunkData ==
    /\ InBody /\ req.chunked /\ st.chunk_left > 0
    /\ ~(call.op = "next" /\ call.got = 0 /\ st.chunk_left > call.want)
    /\ \/ /\ call.op = "all" /\ Here
          /\ Refuse(413) /\ Stay
       \/ /\ \E n \in 1..ChunkTake :
                LET s == [st EXCEPT !.body_read = @ + n,
                             !.chunk_left = IF n < @ THEN @ - n ELSE 0]
                    c == [call EXCEPT !.got = @ + n]
                IN /\ Took(n)
                   /\ IF s.chunk_left = 0
                      THEN st' = s /\ call' = c /\ pc' = "chunk_end"
                      ELSE Goes(s, c)
    /\ More

EndsChunk(t) == t.k = "crlf"

\* chunk_end.  A chunk that does not end as it must is a 400; read_until goes on
\* in its loop all the same.
ChunkEnd ==
    /\ pc = "chunk_end" /\ Here
    /\ \/ /\ EndsChunk(Next1)
          /\ Took(1)
          /\ Goes(st, call)
       \/ /\ ~EndsChunk(Next1)
          /\ LET s == [st EXCEPT !.body_err = 400] IN
             IF call.op = "all" THEN Back(s, call) ELSE Goes(s, call)
          /\ Stay
    /\ More

\* chunk_trailers: dropped up to an empty line (a head has one too), bounded.
ChunkTrailers ==
    /\ pc = "trailers" /\ Here
    /\ \/ /\ st.taken + 1 > TrailerMax
          /\ Refuse(400) /\ Stay
       \/ /\ st.taken + 1 <= TrailerMax
          /\ Took(1)
          /\ IF Next1.k \in {"crlf", "head"}
             THEN Goes([st EXCEPT !.body_done = TRUE], call)
             ELSE st' = [st EXCEPT !.taken = @ + 1] /\ UNCHANGED <<call, pc>>
    /\ More

-----------------------------------------------------------------------------
(* The reply, as far as the request's body matters to it, and the end.     *)

\* Mutant of TooMuchLeft: what will be drained is not counted.
TooMuchLeftNot == FALSE

\* flush_with: more of the body is left than will be drained.
TooMuchLeft == req.chunked \/ req.len - st.body_read > DrainMax

\* flush_with, up to the head: the connection closes behind a body that is not
\* drained, and behind a reply that only the close ends (until).
Closing(until) ==
    [res EXCEPT !.close = \/ @ \/ until
                          \/ /\ ~st.body_done /\ st.body_err = 0
                             /\ TooMuchLeft \/ (req.expect /\ ~st.continue_sent)]

WithHead(until) ==
    LET r == Closing(until)
    IN [r EXCEPT !.head_sent = TRUE, !.out = Append(@, "head"),
                 !.said = IF req.keep /\ ~r.close THEN "keep" ELSE "close"]

\* build_head fails: a 500 goes out, and the reply is dead with its head unsent.
Unbuilt(until) == [Closing(until) EXCEPT !.failed = TRUE, !.out = Append(@, "500")]

\* What a flush with the head unsent comes to: the head goes, or is lost on its
\* way; it cannot be built; nothing of the body can be made (encode of a whole
\* body, write_formatted_heap), and nothing is sent.
Flushes(until) ==
    {WithHead(until), [WithHead(until) EXCEPT !.failed = TRUE], Unbuilt(until),
     [res EXCEPT !.failed = TRUE]}

\* The handler's reply outgrows the slab, or it flushes.
SendHead ==
    /\ pc = "handler" /\ ~res.head_sent /\ ~res.failed
    /\ \E until \in BOOLEAN : res' \in Flushes(until)
    /\ Stay /\ UNCHANGED <<pc, req, st, call>>

\* The handler sets res.close, in time for the head or behind it.
AsksToClose ==
    /\ pc = "handler" /\ ~res.close
    /\ res' = [res EXCEPT !.close = TRUE, !.asked = res.head_sent]
    /\ Stay /\ UNCHANGED <<pc, req, st, call>>

\* The handler returns: after_dispatch up to the drain.
HandlerReturns ==
    /\ pc = "handler"
    /\ \/ /\ st.body_err # 0
          /\ res' = IF st.body_err > 0 /\ ~res.head_sent
                    THEN [res EXCEPT !.out = Append(@, "status")] ELSE res
          /\ Closes
       \/ /\ st.body_err = 0 /\ req.expect /\ ~st.continue_sent /\ ~st.body_done
          /\ res' = [res EXCEPT !.close = TRUE]
          /\ pc' = "finish" /\ UNCHANGED call
       \/ /\ st.body_err = 0 /\ ~(req.expect /\ ~st.continue_sent /\ ~st.body_done)
          /\ pc' = "drain" /\ call' = [NoCall EXCEPT !.op = "drain", !.want = DrainBuf]
          /\ UNCHANGED res
    /\ Stay /\ UNCHANGED <<req, st>>

\* The limit of drain_body.
DrainedOut == call.drained >= DrainMax

\* One turn of drain_body's loop.
Drain ==
    /\ pc = "drain"
    /\ \/ /\ st.body_err # 0
          /\ Closes /\ UNCHANGED res
       \/ /\ st.body_err = 0 /\ (st.body_done \/ DrainedOut)
          /\ res' = [res EXCEPT !.close = @ \/ ~st.body_done]
          /\ pc' = "finish" /\ call' = NoCall
       \/ /\ st.body_err = 0 /\ ~st.body_done /\ ~DrainedOut
          /\ pc' = "body" /\ call' = [call EXCEPT !.got = 0]
          /\ UNCHANGED res
    /\ Stay /\ UNCHANGED <<req, st>>

\* finish: a reply that streamed, with a declared length, and came short of it.
CutShort == [res EXCEPT !.close = TRUE, !.short = TRUE]

\* finish, and the next turn of the connection's loop.  What is left goes out, or
\* does not; a reply with its head still unsent goes out whole.
Finish ==
    /\ pc = "finish"
    /\ res' \in IF res.failed THEN {res}
               ELSE IF res.head_sent THEN {res, CutShort, [res EXCEPT !.failed = TRUE]}
               ELSE Flushes(FALSE)
    /\ IF req.keep /\ ~res'.close /\ ~res'.failed
         THEN pc' = "head" /\ UNCHANGED call ELSE Closes
    /\ Stay /\ UNCHANGED <<req, st>>

Closed == pc = "closed" /\ UNCHANGED vars

Peer    == Arrive \/ Leave
Handler == ReadUntil \/ ReadNextChunk \/ BodyAll \/ SendHead \/ AsksToClose
Reading == \/ BodyGone \/ FixedData \/ FixedAll \/ ChunkHeader \/ ChunkTooLarge
           \/ ChunkData \/ ChunkEnd \/ ChunkTrailers
Serving == ReadHead \/ NoHead \/ Reading \/ Drain \/ Finish

Next == Peer \/ Handler \/ HandlerReturns \/ Serving \/ Closed

\* The coroutine runs when it can; a handler returns; the peer sends on or leaves.
Fairness == WF_vars(Serving) /\ SF_vars(HandlerReturns) /\ WF_vars(Peer)

Spec     == Init /\ [][Next]_vars
FairSpec == Spec /\ Fairness
-----------------------------------------------------------------------------
(* Properties.                                                             *)

\* What the server takes the next token for, and what it is.
Expects ==
    CASE pc = "head"                    -> "start"
      [] pc = "chunk_end"               -> "crlf"
      [] pc = "trailers"                -> "trailer"
      [] st.body_done                   -> "start"
      [] ~st.body_done /\ ~req.chunked  -> "data"
      [] OTHER -> IF st.chunk_left > 0 THEN "chunk" ELSE "size"
Role == IF queue = <<>> THEN ref.at ELSE Head(queue).role

\* InStep.  Whatever mix of reads the handler made and wherever it stopped,
\* the server stands where the message does: a body ends where its framing says,
\* the next head begins right behind it, and of malformed framing nothing is
\* taken.  A read of a body with a length never takes more than the length
\* (fixed_data).
InStep ==
    /\ ~req.chunked => st.body_read <= req.len
    /\ pc # "closed" /\ st.body_err = 0 =>
        /\ Role \in {Expects, "bad"}
        /\ ref.at = "bad" => queue # <<>>

\* OneReply.  A request is answered once, an interim reply only before that, and
\* the connection goes on only behind a reply's own head.  The exception is a head
\* that could not be built: body_begin and after_dispatch ask only whether the
\* head was sent, so a 100 or the status of a refused body may follow the 500; the
\* reply is then dead, no head follows, and the connection is not kept.
OneReply ==
    /\ "500" \notin ToSet(res.out) =>
         res.out \in {<<>>, <<"100">>, <<"head">>, <<"status">>, <<"100", "head">>,
                      <<"100", "status">>}
    /\ "500" \in ToSet(res.out) => res.failed /\ "head" \notin ToSet(res.out)
    /\ pc = "head" /\ res.out # <<>> => Last(res.out) = "head"

\* PromiseKept.  The connection goes on to another request only when the reply's
\* head said so, the reply was whole and the handler did not ask for a close, even
\* late.  Behind a head that kept it, it closes only for what came after the head:
\* the peer failed, the body was refused, a streamed reply came short of its length
\* (include/ioxd/http.h: it "closes the connection when it streamed"), or the
\* handler asked late.  A close that drain_body or after_dispatch decides is never
\* too late for the head.
PromiseKept ==
    [][/\ pc = "finish" /\ pc' = "head" =>
            res'.said = "keep" /\ ~res'.failed /\ ~res'.short /\ ~res'.asked
       /\ pc \notin {"head", "closed"} /\ pc' = "closed" /\ res'.said = "keep" =>
            res'.failed \/ st'.body_err # 0 \/ res'.short \/ res'.asked]_vars

\* Answered.  A request that reached its handler is finished, whatever the
\* handler left of the body, if the peer does not fall silent.
Answered == pc = "handler" ~> pc \in {"head", "closed"}
=============================================================================
