-------------------------------- MODULE Json --------------------------------
(***************************************************************************)
(* src/lib/json/json.c: the forward-only JSON writer.  It keeps two masks  *)
(* with a bit per level, the depth, whether a key waits for its value and  *)
(* whether it failed; the document itself is nowhere but in the bytes it   *)
(* has written.  Those are followed here by a reader of JSON text, doc,    *)
(* that knows nothing of the writer's fields.                              *)
(*                                                                         *)
(* The text is a sequence of marks: the brackets, the comma, a quoted key  *)
(* with its colon, a scalar.  What is left of the bytes is their number,   *)
(* for the room they need, and that a mark may be cut short.               *)
(***************************************************************************)
EXTENDS Naturals

CONSTANTS
    DEPTH,       \* IOXD_JSON_DEPTH
    Cap,         \* the size of the slab, or of the buffer
    Sizes        \* of keys and scalars, in bytes

ASSUME JsonConstants ==
    DEPTH \in Nat /\ Cap \in Nat \ {0} /\ Sizes \subseteq Nat \ {0}

Levels == 0..DEPTH

VARIABLES
    depth, has_value, is_object,    \* the masks as the sets of their levels
    after_key, failed,
    kind,        \* IOXD_JSON_TO_: "reply", "pipe" or "mem"
    sink,        \* room: what is free at its tail; pw, res: pw->failed (the
                 \* peer is gone) and res.failed (the reply is given up)
    doc          \* the reader of what was written

jsonVars == <<depth, has_value, is_object, after_key, failed, kind, sink, doc>>

-----------------------------------------------------------------------------
(* The reader.  ph says of each open level what came last in it: nothing,  *)
(* a comma, a key, or a whole value.  The root is read as a list of values *)
(* separated by commas.  torn: the last mark is not whole.                 *)

Phases == {"empty", "comma", "key", "value"}

Document == [bad: BOOLEAN, torn: BOOLEAN, depth: Levels, obj: SUBSET Levels,
             ph: [Levels -> Phases]]

Takes(d, ok, next) == IF ok /\ ~d.torn THEN next ELSE [d EXCEPT !.bad = TRUE]

Object(d) == d.depth \in d.obj
LastIn(d) == d.ph[d.depth]
Now(d, p) == [d EXCEPT !.ph = [@ EXCEPT ![d.depth] = p]]

\* A value has its place behind a key, or first or behind a comma in a list.
ValueIsDue(d) == IF Object(d) THEN LastIn(d) = "key" ELSE LastIn(d) \in {"empty", "comma"}

ReadComma(d) == Takes(d, LastIn(d) = "value", Now(d, "comma"))
ReadKey(d)   == Takes(d, Object(d) /\ LastIn(d) \in {"empty", "comma"}, Now(d, "key"))
ReadValue(d) == Takes(d, ValueIsDue(d), Now(d, "value"))
ReadOpen(d, object) ==
    Takes(d, ValueIsDue(d) /\ d.depth < DEPTH,
          [d EXCEPT !.depth = d.depth + 1,
                    !.obj = IF object THEN @ \cup {d.depth + 1} ELSE @ \ {d.depth + 1},
                    !.ph = [@ EXCEPT ![d.depth] = "value", ![d.depth + 1] = "empty"]])
ReadClose(d, object) ==
    Takes(d, d.depth > 0 /\ Object(d) = object /\ LastIn(d) \in {"empty", "value"},
          [d EXCEPT !.depth = @ - 1])

ReadMark(d, mark) ==
    CASE mark = "key"   -> ReadKey(d)
      [] mark = "value" -> ReadValue(d)
      [] mark = "{"     -> ReadOpen(d, TRUE)
      [] mark = "["     -> ReadOpen(d, FALSE)
      [] mark = "}"     -> ReadClose(d, TRUE)
      [] mark = "]"     -> ReadClose(d, FALSE)

Lead(d, comma) == IF comma THEN ReadComma(d) ELSE d
Read(d, comma, mark) == ReadMark(Lead(d, comma), mark)

\* What is read when the marks are cut: nothing, the comma, a piece of the rest.
Cut(d, comma) == {d, Lead(d, comma), [Lead(d, comma) EXCEPT !.torn = TRUE]}

-----------------------------------------------------------------------------
(* The sink.  An operation on it has a set of outcomes: whether the bytes  *)
(* were had, and the sink it leaves.                                       *)

Yes(s) == [ok |-> TRUE, s |-> s]
No(s) == [ok |-> FALSE, s |-> s]
Commit(s, n) == [s EXCEPT !.room = @ - n]

sink_failed(s) == kind # "mem" /\ (s.pw \/ (kind = "reply" /\ s.res))

\* A flush of the slab.  A reply's may succeed though pw has failed: with a
\* filter what goes out is another slab, with a mark of its own, and nothing
\* goes out behind the head of a reply without a body.  It may also fail alone,
\* on a head that does not fit, a filter, or more than the declared length.
PipeFlushed(s) == {Yes([s EXCEPT !.room = Cap]), No([s EXCEPT !.pw = TRUE])}
ReplyFlushed(s) ==
    {Yes([s EXCEPT !.room = Cap]), No([s EXCEPT !.res = TRUE]),
     No([s EXCEPT !.res = TRUE, !.pw = TRUE])}
Flushed(s) == IF kind = "reply" THEN ReplyFlushed(s) ELSE PipeFlushed(s)

\* ioxd_reserve looks at res.failed alone, ioxd_pipe_reserve at pw->failed; a
\* buffer has no more.
Refused(s) == kind = "mem" \/ (IF kind = "reply" THEN s.res ELSE s.pw)
make_room(s, n) ==
    IF Refused(s) \/ n > Cap THEN {No(s)}
    ELSE IF n <= s.room THEN {Yes(s)}
    ELSE Flushed(s)

\* n bytes in one run, or nothing.
want(s, n) ==
    IF n <= s.room /\ ~sink_failed(s) THEN {Yes(Commit(s, n))}
    ELSE {IF r.ok THEN Yes(Commit(r.s, n)) ELSE r : r \in make_room(s, n)}

\* n bytes piece by piece (of RUN_MAX, less than a slab), a flush whenever the
\* tail is full.
put(s, n) ==
    IF n <= s.room THEN want(s, n)
    ELSE IF Refused(s) THEN {No(IF kind = "mem" THEN [s EXCEPT !.room = 0] ELSE s)}
    ELSE {IF r.ok THEN Yes(Commit(r.s, ((n - s.room - 1) % Cap) + 1)) ELSE r : r \in Flushed(s)}

\* The marks go out with one of the outcomes, or are lost; a run is lost whole,
\* pieces are cut anywhere.
Writes(outcomes, comma, mark, lost) ==
    \E r \in outcomes :
        /\ sink' = r.s
        /\ IF r.ok THEN doc' = Read(doc, comma, mark) /\ UNCHANGED failed
           ELSE doc' \in lost /\ failed' = TRUE
        /\ UNCHANGED kind

Bytes(comma, n) == IF comma THEN n + 1 ELSE n
InOneRun(comma, mark, n) == Writes(want(sink, Bytes(comma, n)), comma, mark, {doc})
InPieces(comma, mark, n) == Writes(put(sink, Bytes(comma, n)), comma, mark, Cut(doc, comma))

-----------------------------------------------------------------------------
(* The calls.  One that finds the writer failed does nothing.              *)

\* The call has no place in the document.
Breaks == failed' = TRUE /\ UNCHANGED <<depth, has_value, is_object, after_key, kind, sink, doc>>

\* value_lead: may a value start here, the comma it owes, the level's bit.
HasPlace == after_key \/ depth \notin is_object
Comma == ~after_key /\ depth \in has_value
value_lead ==
    /\ after_key' = FALSE
    /\ has_value' = IF after_key THEN has_value ELSE has_value \cup {depth}

\* ioxd_json_int, _uint, _bool, _null, and _double and _float once formatted.
put_value(n) ==
    /\ ~failed
    /\ IF ~HasPlace THEN Breaks
       ELSE /\ value_lead /\ InOneRun(Comma, "value", n)
            /\ UNCHANGED <<depth, is_object>>

\* ioxd_json_string, _cstr and _raw: of any length, escaped on the way.
put_string(n) ==
    /\ ~failed
    /\ IF ~HasPlace THEN Breaks
       ELSE /\ value_lead /\ InPieces(Comma, "value", n)
            /\ UNCHANGED <<depth, is_object>>

\* A raw value of no bytes, or a number that cannot be formatted.
NoValue == ~failed /\ Breaks

(* Mutant: the bit of the level's last container stays.                    *)
open_levelStale(object) ==
    /\ ~failed
    /\ IF depth = DEPTH \/ ~HasPlace THEN Breaks
       ELSE /\ value_lead
            /\ depth' = depth + 1
            /\ is_object' = IF object THEN is_object \cup {depth + 1} ELSE is_object \ {depth + 1}
            /\ InOneRun(Comma, IF object THEN "{" ELSE "[", 1)

\* The level opened starts empty, whatever it held before.
open_level(object) ==
    /\ ~failed
    /\ IF depth = DEPTH \/ ~HasPlace THEN Breaks
       ELSE /\ after_key' = FALSE
            /\ has_value' = (IF after_key THEN has_value ELSE has_value \cup {depth}) \ {depth + 1}
            /\ depth' = depth + 1
            /\ is_object' = IF object THEN is_object \cup {depth + 1} ELSE is_object \ {depth + 1}
            /\ InOneRun(Comma, IF object THEN "{" ELSE "[", 1)

MayEnd == depth > 0 /\ ~after_key

(* Mutant: a writer that failed is not looked at.                          *)
ioxd_json_endBlind ==
    /\ MayEnd
    /\ depth' = depth - 1
    /\ InOneRun(FALSE, IF depth \in is_object THEN "}" ELSE "]", 1)
    /\ UNCHANGED <<has_value, is_object, after_key>>

ioxd_json_end ==
    /\ ~failed
    /\ IF ~MayEnd THEN Breaks
       ELSE /\ depth' = depth - 1
            /\ InOneRun(FALSE, IF depth \in is_object THEN "}" ELSE "]", 1)
            /\ UNCHANGED <<has_value, is_object, after_key>>

ioxd_json_key(n) ==
    /\ ~failed
    /\ IF depth \notin is_object \/ after_key THEN Breaks
       ELSE /\ has_value' = has_value \cup {depth}
            /\ InPieces(depth \in has_value, "key", n)
            /\ after_key' = ~failed'
            /\ UNCHANGED <<depth, is_object>>

ioxd_json_done == ~failed /\ depth = 0

\* What happens to the sink between two calls: the handler writes to the same
\* slab, or flushes it; the peer leaves; the reply is given up.
Elsewhere ==
    /\ kind # "mem"
    /\ \/ \E n \in 0..Cap : sink' = [sink EXCEPT !.room = n]
       \/ sink' = [sink EXCEPT !.pw = TRUE]
       \/ kind = "reply" /\ sink' = [sink EXCEPT !.res = TRUE]
    /\ UNCHANGED <<depth, has_value, is_object, after_key, failed, kind, doc>>

\* ioxd_json_reply, _pipe and _mem (a buffer may be shorter, or missing).
JsonInit ==
    /\ depth = 0 /\ has_value = {} /\ is_object = {}
    /\ after_key = FALSE /\ failed = FALSE
    /\ kind \in {"reply", "pipe", "mem"}
    /\ sink \in [room: 0..Cap, pw: {FALSE}, res: {FALSE}]
    /\ doc = [bad |-> FALSE, torn |-> FALSE, depth |-> 0, obj |-> {},
              ph |-> [l \in Levels |-> "empty"]]

Call ==
    \/ \E n \in Sizes : put_value(n) \/ put_string(n) \/ ioxd_json_key(n)
    \/ NoValue
    \/ \E object \in BOOLEAN : open_level(object)
    \/ ioxd_json_end

JsonNext == Call \/ Elsewhere
JsonSpec == JsonInit /\ [][JsonNext]_jsonVars

-----------------------------------------------------------------------------
Sinks == [room: 0..Cap, pw: BOOLEAN, res: BOOLEAN]

TypeOK ==
    /\ depth \in Levels /\ has_value \subseteq Levels /\ is_object \subseteq Levels
    /\ after_key \in BOOLEAN /\ failed \in BOOLEAN
    /\ kind \in {"reply", "pipe", "mem"} /\ sink \in Sinks
    /\ doc \in Document

\* PrefixOfJson.  Whatever is called, in whatever order, and wherever the sink
\* fails or is full: what was written is the beginning of a list of JSON
\* values.  No comma is missing, doubled or left over, no key is without its
\* value, every bracket closes the one that is open, at any depth.
PrefixOfJson == ~doc.bad

\* DoneIsWhole.  When ioxd_json_done says so, everything that was opened is
\* closed and the last value is whole ("the document is whole", json.h).
DoneIsWhole ==
    ioxd_json_done => doc.depth = 0 /\ ~doc.torn /\ doc.ph[0] \in {"empty", "value"}

\* WritesJson.  The two together: a prefix of JSON at every moment, and all of
\* it when the writer says so.
WritesJson == PrefixOfJson /\ DoneIsWhole

\* FailedIsFinal.  Once a call has failed nothing more is written: checking
\* the last one is enough (json.h of the public headers, line 37).
FailedIsFinal == [][failed => failed' /\ doc' = doc]_jsonVars
=============================================================================
