------------------------------- MODULE Reply -------------------------------
(***************************************************************************)
(* One HTTP reply (lib/http/engine.c, the reply half, over the pipe        *)
(* writer): what a handler writes waits in a slab, is coded by a filter if *)
(* one is installed, and is framed and sent at each flush; the head goes   *)
(* out in front of the first.                                              *)
(*                                                                         *)
(* Body units are numbered as the handler writes them; Trailer is what the *)
(* coder adds at the end.  wire is what the client receives, unit by unit. *)
(***************************************************************************)
EXTENDS Naturals, Sequences, SequencesExt, FiniteSetsExt

CONSTANTS
    SlabCap,        \* IOXD_PIPE_CAP: units the slab holds
    CodedSlack,     \* CODED_SLACK: what the coded slab holds beyond that
    MaxBody,        \* bound: units the handler writes in all
    Lengths,        \* the lengths a handler declares
    Methods         \* {"GET", "HEAD"} or less

ASSUME ReplyAssumption ==
    /\ SlabCap \in Nat \ {0} /\ CodedSlack \in Nat \ {0}
    /\ MaxBody \in Nat /\ Lengths \subseteq Nat

VARIABLES
    req,        \* what matters of the request
    res,        \* the ioxd_response
    st,         \* of the serve_state: on_head, filter, no_body
    pw, cw,     \* data pending in the slab and in the coded slab
    pend,       \* what the coder took and did not give yet
    call,       \* the handler's call in progress, or finish
    fl,         \* the flush in progress
    wire,       \* what was sent
    head,       \* the head that was sent
    written,    \* units the handler wrote
    over        \* "open", then "keep" or "closed"

vars == <<req, res, st, pw, cw, pend, call, fl, wire, head, written, over>>

Trailer   == 0
Data(n)   == [k |-> "data", n |-> n]
Datas(xs) == [i \in 1..Len(xs) |-> Data(xs[i])]
Mark(k)   == [k |-> k, n |-> 0]
CodedCap  == SlabCap + CodedSlack

NoCall  == [op |-> "none", data |-> <<>>]
NoFlush == [at |-> "none", kind |-> "none", extra |-> <<>>, head |-> <<>>,
            coding |-> FALSE, whole |-> FALSE]
NoHead  == [framing |-> "none", len |-> 0, keep |-> FALSE]

\* init_response; unread: more of the request's body is left than is drained.
Init ==
    /\ req \in [minor : {0, 1}, head_only : {m = "HEAD" : m \in Methods},
                keep_alive : BOOLEAN, unread : BOOLEAN]
    /\ req.unread => req.keep_alive
    /\ \E s \in {"ok", "none", "304"} :
          res = [status |-> s, has_length |-> FALSE, content_length |-> 0,
                 head_sent |-> FALSE, chunked |-> FALSE, failed |-> FALSE,
                 close |-> FALSE, body_sent |-> 0]
    /\ \E f \in BOOLEAN :
          st = [on_head |-> f, filter |-> FALSE, no_body |-> FALSE]
    /\ pw = <<>> /\ cw = <<>> /\ pend = <<>>
    /\ call = NoCall /\ fl = NoFlush
    /\ wire = <<>> /\ head = NoHead /\ written = 0 /\ over = "open"

-----------------------------------------------------------------------------
(* The handler's calls.  A call that has to flush leaves call set.         *)

Room       == SlabCap - Len(pw)
FlushOf(kind, extra) == [NoFlush EXCEPT !.at = "begin", !.kind = kind, !.extra = extra]
Idle       == over = "open" /\ call.op = "none"
Handler    == Idle /\ ~res.failed
New(n)     == [i \in 1..n |-> written + i]
sentVars   == <<res, st, cw, pend, wire, head, over>>

\* ioxd_content_length
ContentLength ==
    /\ Handler /\ ~res.head_sent
    /\ \E n \in Lengths : res' = [res EXCEPT !.content_length = n, !.has_length = TRUE]
    /\ UNCHANGED <<req, st, pw, cw, pend, call, fl, wire, head, written, over>>

\* ioxd_reply_filter, by the handler or its middleware.
ReplyFilter ==
    /\ Handler /\ ~res.head_sent /\ ~st.filter
    /\ st' = [st EXCEPT !.filter = TRUE]
    /\ UNCHANGED <<req, res, pw, cw, pend, call, fl, wire, head, written, over>>

\* raw_framed: the data may go out behind the slab without being framed.
RawFramed ==
    /\ ~st.on_head /\ ~st.filter
    /\ IF res.head_sent THEN ~res.chunked ELSE res.has_length \/ req.minor = 0

\* ioxd_write, from its call: straight out, or through the slab.
Write ==
    /\ Handler
    /\ \E n \in 1..(MaxBody - written) :
          /\ written' = written + n
          /\ \/ /\ n > Room /\ RawFramed
                /\ fl' = FlushOf("full", New(n))
                /\ call' = [op |-> "raw", data |-> <<>>]
             \/ /\ ~(n > Room /\ RawFramed)
                /\ call' = [op |-> "write", data |-> New(n)]
                /\ UNCHANGED fl
    /\ UNCHANGED <<req, pw, sentVars>>

\* One turn of its loop.
WriteLoop ==
    /\ call.op = "write" /\ fl.at = "none"
    /\ \/ /\ Room = 0 /\ call.data # <<>>
          /\ fl' = FlushOf("full", <<>>)
          /\ UNCHANGED <<pw, call>>
       \/ /\ Room > 0 \/ call.data = <<>>
          /\ LET n == Min({Room, Len(call.data)}) IN
             /\ pw' = pw \o SubSeq(call.data, 1, n)
             /\ call' = IF n = Len(call.data) THEN NoCall
                        ELSE [call EXCEPT !.data = SubSeq(@, n + 1, Len(@))]
          /\ UNCHANGED fl
    /\ UNCHANGED <<req, written, sentVars>>

\* ioxd_reserve and ioxd_advance; ioxd_printf of less than a slab.  The first
\* flushes when n units do not fit, the second when its NUL does not either.
Reserve ==
    /\ Handler
    /\ \E n \in 1..Min({SlabCap, MaxBody - written}) :
          /\ written' = written + n
          /\ \/ /\ n <= Room
                /\ pw' = pw \o New(n)
                /\ UNCHANGED <<call, fl>>
             \/ /\ n >= Room /\ pw # <<>>
                /\ call' = [op |-> "reserve", data |-> New(n)]
                /\ fl' = FlushOf("full", <<>>)
                /\ UNCHANGED pw
    /\ UNCHANGED <<req, sentVars>>

\* Its slab was flushed: the units go in.
Advance ==
    /\ call.op = "reserve" /\ fl.at = "none"
    /\ pw' = pw \o call.data
    /\ call' = NoCall
    /\ UNCHANGED <<req, fl, written, sentVars>>

\* ioxd_flush
Flush ==
    /\ Handler
    /\ call' = [op |-> "flush", data |-> <<>>]
    /\ fl' = FlushOf("asked", <<>>)
    /\ UNCHANGED <<req, pw, written, sentVars>>

\* ioxd_flush, or a write that went straight out, returns.
Return ==
    /\ call.op \in {"flush", "raw"} /\ fl.at = "none"
    /\ call' = NoCall
    /\ UNCHANGED <<req, pw, fl, written, sentVars>>

-----------------------------------------------------------------------------
(* flush_with, in its stages: begin, (whole,) head, (encode,) send.        *)

Final == fl.kind = "final"

\* A failed reply: the call returns -1; after finish the connection closes.
Fail ==
    /\ res' = [res EXCEPT !.failed = TRUE]
    /\ over' = IF call.op = "finish" THEN "closed" ELSE over
    /\ call' = NoCall /\ fl' = NoFlush

\* The on_head delegate may install a filter; a coded stream has no length.
FlushBegin ==
    /\ fl.at = "begin"
    /\ LET asks == ~res.head_sent /\ st.on_head /\ ~req.head_only IN
       \E installs \in IF asks THEN BOOLEAN ELSE {FALSE} :
       LET coding == (st.filter \/ installs) /\ ~req.head_only
           whole  == coding /\ ~res.head_sent /\ Final
       IN /\ st' = [st EXCEPT !.on_head = @ /\ ~asks, !.filter = @ \/ installs]
          /\ res' = [res EXCEPT !.has_length = @ /\ (coding /\ ~res.head_sent => whole)]
          /\ fl' = [fl EXCEPT !.at = IF whole THEN "whole" ELSE "head",
                              !.coding = coding, !.whole = whole]
    /\ UNCHANGED <<req, pw, cw, pend, call, wire, head, written, over>>

\* Mutant of Framing: a stream without a length on HTTP/1.0 is chunked too.
FramingChunked(final, status, has_length) ==
    IF status # "ok" THEN IF status = "304" /\ has_length THEN "length" ELSE "none"
    ELSE IF has_length \/ final THEN "length" ELSE "chunked"

\* How the head says the body is delimited.
Framing(final, status, has_length) ==
    IF status # "ok" THEN IF status = "304" /\ has_length THEN "length" ELSE "none"
    ELSE IF has_length \/ final THEN "length"
    ELSE IF req.minor >= 1 THEN "chunked" ELSE "until_close"

\* The declared length counts unless the reply is here whole: then it is measured.
Declared(final, no_body) == res.has_length /\ (~final \/ no_body)

\* Where the flush goes on behind the head.
AfterHead(no_body) ==
    IF no_body THEN "nobody" ELSE IF fl.coding /\ ~fl.whole THEN "encode" ELSE "send"

\* The head is decided and built; one too long for its buffer is a 500.
FlushHead ==
    /\ fl.at = "head" /\ ~res.head_sent
    /\ LET no_body == req.head_only \/ res.status # "ok"
           size    == Len(IF fl.coding THEN cw ELSE pw)
           decl    == Declared(Final, no_body)
           framing == Framing(Final, res.status, res.has_length)
           close   == res.close \/ framing = "until_close" \/ req.unread
       IN \/ /\ st' = [st EXCEPT !.no_body = no_body]
             /\ res' = [res EXCEPT
                   !.content_length = IF res.has_length /\ ~decl THEN size ELSE @,
                   !.chunked = framing = "chunked", !.close = close,
                   !.head_sent = TRUE]
             /\ head' = [framing |-> framing, keep |-> req.keep_alive /\ ~close,
                         len |-> IF decl THEN res.content_length ELSE size]
             /\ fl' = [fl EXCEPT !.head = <<Mark("head")>>, !.at = AfterHead(no_body)]
             /\ UNCHANGED <<call, wire, over>>
          \/ /\ wire' = <<Mark("status")>>
             /\ Fail
             /\ UNCHANGED <<st, head>>
    /\ UNCHANGED <<req, pw, cw, pend, written>>

\* It went out with an earlier flush.
FlushOn ==
    /\ fl.at = "head" /\ res.head_sent
    /\ fl' = [fl EXCEPT !.at = AfterHead(st.no_body)]
    /\ UNCHANGED <<req, pw, call, written, sentVars>>

\* A reply without a body: its head alone.
FlushNoBody ==
    /\ fl.at = "nobody"
    /\ pw' = <<>> /\ cw' = <<>>
    /\ \/ /\ wire' = wire \o fl.head
          /\ fl' = NoFlush
          /\ UNCHANGED <<res, call, over>>
       \/ /\ fl.head # <<>>
          /\ Fail
          /\ UNCHANGED wire
    /\ UNCHANGED <<req, st, pend, head, written>>

\* A chunk around what is sent, when the reply is chunked.
Chunk(xs) == IF res.chunked /\ xs # <<>>
             THEN <<[k |-> "size", n |-> Len(xs)]>> \o Datas(xs) \o <<Mark("crlf")>>
             ELSE Datas(xs)

\* A send delivers everything, or fails after at most the head.
Sent(h, xs) == wire' = wire \o h \o xs
Unsent(h)   == wire' \in {wire, wire \o h}

\* What the coder can give now: a part, all it took, or that and its trailer.
Given(op, all) ==
    IF op = "more" THEN {SubSeq(all, 1, n) : n \in 0..Len(all)}
    ELSE IF op = "flush" \/ (all # <<>> /\ Last(all) = Trailer) THEN {all}
    ELSE {Append(all, Trailer)}

Op == IF Final THEN "finish" ELSE IF fl.kind = "asked" THEN "flush" ELSE "more"

\* One turn of encode's loop: the filter runs, and what it gave is in cw; or it
\* has, or may have, more than fits: cw is sent, which a whole body cannot be.
Encode ==
    /\ fl.at \in {"whole", "encode"}
    /\ \E ys \in Given(Op, pend \o pw) :
       LET rest  == SubSeq(pend \o pw, Len(ys) + 1, Len(pend \o pw))
           n     == Min({CodedCap - Len(cw), Len(ys)})
           fits  == n = Len(ys)
       IN \/ /\ fits
             /\ cw' = cw \o ys /\ pend' = rest /\ pw' = <<>>
             /\ fl' = [fl EXCEPT !.at = IF fl.whole THEN "head" ELSE "send"]
             /\ UNCHANGED <<res, call, over>>
          \/ /\ fl.at = "encode"
             /\ ~fits \/ (Len(cw) + n = CodedCap /\ ~Final)
             /\ cw' = cw \o SubSeq(ys, 1, n) /\ pw' = <<>>
             /\ pend' = SubSeq(ys, n + 1, Len(ys)) \o rest
             /\ fl' = [fl EXCEPT !.at = "coded"]
             /\ UNCHANGED <<res, call, over>>
          \/ /\ ~fits /\ fl.at = "whole"
             /\ Fail /\ UNCHANGED <<pw, cw, pend>>
    /\ UNCHANGED <<req, st, wire, head, written>>

\* The coder fails.
EncodeFails ==
    /\ fl.at \in {"whole", "encode"}
    /\ Fail
    /\ UNCHANGED <<req, st, pw, cw, pend, wire, head, written>>

\* send_coded: the full coded slab goes out and the loop goes on.
EncodeSend ==
    /\ fl.at = "coded"
    /\ \/ /\ Sent(fl.head, Chunk(cw))
          /\ res' = [res EXCEPT !.body_sent = @ + Len(cw)]
          /\ fl' = [fl EXCEPT !.head = <<>>, !.at = "encode"]
          /\ cw' = <<>>
          /\ UNCHANGED <<call, over>>
       \/ /\ Unsent(fl.head)
          /\ Fail
          /\ UNCHANGED cw
    /\ UNCHANGED <<req, st, pw, pend, head, written>>

\* How many of the units may still be sent, with sent of them out already.
Limit(xs, sent) ==
    IF res.has_length THEN Min({Len(xs), res.content_length - sent}) ELSE Len(xs)

\* The terminator rides the last send.
LastChunk == IF Final /\ res.chunked THEN <<Mark("last")>> ELSE <<>>

FlushSend ==
    /\ fl.at = "send"
    /\ LET sw == IF fl.coding THEN cw ELSE pw
           n  == Limit(sw, res.body_sent)
           xs == SubSeq(sw, 1, n)
           m  == Limit(fl.extra, res.body_sent + n)
           ys == SubSeq(fl.extra, 1, m)
           ov == n < Len(sw) \/ m < Len(fl.extra)
       IN \/ /\ Sent(fl.head, Chunk(xs) \o LastChunk \o Datas(ys))
             /\ res' = [res EXCEPT !.body_sent = @ + n + m, !.failed = ov]
             /\ fl' = NoFlush
             /\ call' = IF ov THEN NoCall ELSE call
             /\ over' = IF ov /\ call.op = "finish" THEN "closed" ELSE over
          \/ /\ Unsent(fl.head)
             /\ Fail
    /\ pw' = <<>> /\ cw' = <<>>
    /\ UNCHANGED <<req, st, pend, head, written>>

-----------------------------------------------------------------------------
(* The handler is done: finish, and what after_dispatch makes of it.       *)

\* Mutant of Pending: what is left in the slab is not flushed.
PendingNot == ~res.head_sent \/ st.filter

\* Something is left for a last flush.
Pending == ~res.head_sent \/ pw # <<>> \/ st.filter

FinishFlush ==
    /\ Handler /\ Pending
    /\ call' = [op |-> "finish", data |-> <<>>]
    /\ fl' = FlushOf("final", <<>>)
    /\ UNCHANGED <<req, pw, written, sentVars>>

\* Everything went out: a chunked reply still needs its terminator.
FinishRest ==
    /\ Handler /\ ~Pending
    /\ \/ /\ wire' = IF res.chunked THEN Append(wire, Mark("last")) ELSE wire
          /\ call' = [op |-> "finish", data |-> <<>>]
          /\ UNCHANGED <<res, fl, over>>
       \/ /\ res.chunked
          /\ res' = [res EXCEPT !.failed = TRUE]
          /\ over' = "closed"
          /\ UNCHANGED <<wire, call, fl>>
    /\ UNCHANGED <<req, st, pw, cw, pend, head, written>>

FinishFailed ==
    /\ Idle /\ res.failed
    /\ over' = "closed"
    /\ UNCHANGED <<req, res, st, pw, cw, pend, call, fl, wire, head, written>>

\* Mutant of Mismatch: a length not kept does not close the connection.
MismatchNever == FALSE

\* The declared length was not what was sent.
Mismatch == res.has_length /\ ~st.no_body /\ res.body_sent # res.content_length

FinishEnd ==
    /\ call.op = "finish" /\ fl.at = "none"
    /\ res' = [res EXCEPT !.close = @ \/ Mismatch]
    /\ over' = IF req.keep_alive /\ ~res'.close THEN "keep" ELSE "closed"
    /\ call' = NoCall
    /\ UNCHANGED <<req, st, pw, cw, pend, fl, wire, head, written>>

\* The reply is over; the connection goes on with another one, or closes.
Over == over # "open" /\ UNCHANGED vars

Calls   == ContentLength \/ ReplyFilter \/ Write \/ WriteLoop \/ Reserve \/ Advance
           \/ Flush \/ Return
Flushes == FlushBegin \/ FlushHead \/ FlushOn \/ FlushNoBody \/ Encode \/ EncodeFails
           \/ EncodeSend \/ FlushSend
Finish  == FinishFlush \/ FinishRest \/ FinishFailed \/ FinishEnd

Next == Calls \/ Flushes \/ Finish \/ Over

Spec == Init /\ [][Next]_vars
-----------------------------------------------------------------------------
(* A client that reads the wire by the head's framing.                     *)

Reading(at) == [at |-> at, left |-> 0, body |-> <<>>]

\* One more unit: where the client is then, "bad" once it cannot be right.
Reads(c, u) ==
    IF c.at = "size" /\ u.k = "size" /\ u.n > 0 THEN [c EXCEPT !.at = "data", !.left = u.n]
    ELSE IF c.at = "size" /\ u.k = "last" THEN [c EXCEPT !.at = "end"]
    ELSE IF c.at = "data" /\ u.k = "data"
         THEN [c EXCEPT !.at = IF c.left = 1 THEN "crlf" ELSE "data",
                        !.left = @ - 1, !.body = Append(@, u.n)]
    ELSE IF c.at = "crlf" /\ u.k = "crlf" THEN [c EXCEPT !.at = "size"]
    ELSE IF c.at = "length" /\ u.k = "data"
         THEN [c EXCEPT !.at = IF c.left = 1 THEN "end" ELSE "length",
                        !.left = @ - 1, !.body = Append(@, u.n)]
    ELSE IF c.at = "until_close" /\ u.k = "data" THEN [c EXCEPT !.body = Append(@, u.n)]
    ELSE [c EXCEPT !.at = "bad"]

NoBody == req.head_only \/ res.status # "ok"

\* The client behind the head, and behind the units that followed.
Start ==
    CASE NoBody \/ (head.framing = "length" /\ head.len = 0) -> Reading("end")
      [] ~NoBody /\ head.framing = "length" /\ head.len # 0
             -> [Reading("length") EXCEPT !.left = head.len]
      [] ~NoBody /\ head.framing = "chunked" /\ req.minor >= 1 -> Reading("size")
      [] OTHER -> Reading("until_close")
After(c, units) ==
    LET at[i \in 0..Len(units)] == IF i = 0 THEN c ELSE Reads(at[i - 1], units[i])
    IN  at[Len(units)]
Client == After(Start, Tail(wire))

HeadOut == wire # <<>> /\ wire[1].k = "head"
Coded   == st.filter /\ ~NoBody
Written == [i \in 1..written |-> i]

\* The terminator that finish adds to a chunked reply to HEAD (see
\* NothingBehindHead) is set aside in the properties below.
Terminated == req.head_only /\ res.chunked

\* Bounded.  The slabs keep within their capacity, and body_sent within a
\* declared length: content_length - body_sent (flush_with) never wraps.
Bounded ==
    /\ Len(pw) <= SlabCap /\ Len(cw) <= CodedCap
    /\ res.has_length /\ res.head_sent => res.body_sent <= res.content_length

\* WellFramed.  At every moment the client's reading of the wire goes on: the
\* head first and once, never a unit the framing does not announce, across
\* raw sends, full slabs, coded sends and the final flush; and within the
\* bounds above.
WellFramed == Bounded /\ (HeadOut /\ ~Terminated => Client.at # "bad")

\* NoFalseEnd.  A client that sees the end of the body got all of it: what the
\* handler wrote, coded to its trailer if it is coded, or as much as a declared
\* length announced.
NoFalseEnd ==
    HeadOut /\ ~NoBody /\ Client.at = "end" =>
        \/ Client.body = IF Coded THEN Append(Written, Trailer) ELSE Written
        \/ res.has_length /\ ~Coded
              /\ Client.body = SubSeq(Written, 1, res.content_length)

\* KeptIsComplete.  The connection is kept only behind a reply that the client
\* has read to its end, and whose head did not announce a close; it is closed
\* in spite of the head only when the reply failed or missed its length.
KeptIsComplete ==
    /\ over = "keep" /\ ~Terminated => HeadOut /\ Client.at = "end" /\ head.keep
    /\ over = "closed" /\ HeadOut /\ head.keep => res.failed \/ Mismatch

\* NothingBehindHead.  include/ioxd/http.h:77: "a reply to HEAD, a 1xx, 204 or
\* 304 carries no body whatever was written".
NothingBehindHead == HeadOut /\ NoBody => Len(wire) = 1
=============================================================================
