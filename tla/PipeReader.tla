----------------------------- MODULE PipeReader -----------------------------
(***************************************************************************)
(* The reader of a pipe (lib/io/pipe.c): received bytes handed out as one  *)
(* contiguous span, in place in the kernel's buffer (cur) when they lie in *)
(* one, gathered in the reader's own buffer (buf) when they do not, while  *)
(* bytes the consumer keeps stay where they are until release.             *)
(*                                                                         *)
(* The memory is explicit.  A byte is its number in the order of arrival,  *)
(* Lost is a byte that means nothing any more.  A kernel buffer given back *)
(* to the ring loses its bytes: the kernel may fill it again at once.      *)
(***************************************************************************)
EXTENDS Naturals, Sequences, FiniteSets, SequencesExt

CONSTANTS
    Buffers,    \* the provided buffers
    BufSize,    \* bytes of one (recv_buffer_size)
    Cap,        \* bytes of the gathering buffer (pr->cap)
    MaxBytes    \* bound: bytes that ever arrive

ASSUME PipeAssumption ==
    /\ IsFiniteSet(Buffers) /\ Buffers \cap {"none", "buf"} = {}
    /\ BufSize \in Nat \ {0}
    /\ Cap \in Nat \ {0} /\ MaxBytes \in Nat

VARIABLES
    pr,         \* the ioxd_pipereader
    mem,        \* what each kernel buffer holds
    ring,       \* how often each kernel buffer is in the ring
    rx,         \* delivered buffers, not taken yet (conn->rx)
    sent,       \* bytes that arrived so far
    fin,        \* the input ended
    got,        \* bytes the reader was given
    consumed,   \* how many of them were consumed
    run, frozen \* kept bytes: in the run, in earlier runs; with where they are

vars == <<pr, mem, ring, rx, sent, fin, got, consumed, run, frozen>>
world == <<rx, sent, fin>>

None == "none"
Lost == 0
Bytes(from, n) == [i \in 1..n |-> from + i]

Fresh == [buf |-> [i \in 1..Cap |-> Lost], floor |-> 0, live_in_buf |-> FALSE,
          buf_pos |-> 0, buf_end |-> 0, cur |-> None, has_cur |-> FALSE,
          cur_pos |-> 0, pinned |-> None, has_pinned |-> FALSE,
          cur_is_pinned |-> FALSE, run_in_cur |-> FALSE, run_start |-> 0,
          run_len |-> 0, examined |-> 0, eof |-> FALSE, error |-> "none",
          began |-> FALSE]

Init ==
    /\ pr = Fresh
    /\ mem = [b \in Buffers |-> <<>>] /\ ring = [b \in Buffers |-> 1]
    /\ rx = <<>> /\ sent = 0 /\ fin = FALSE
    /\ got = 0 /\ consumed = 0 /\ run = <<>> /\ frozen = {}

-----------------------------------------------------------------------------
(* The memory the helpers work on: the reader r, the buffers' contents m   *)
(* and what went back to the ring k.                                       *)

State       == [r |-> pr, m |-> mem, k |-> ring]
Set(s)      == pr' = s.r /\ mem' = s.m /\ ring' = s.k

\* n bytes from position at (counted from 0) of a buffer or of buf.
Span(q, at, n)   == [i \in 1..n |-> IF at + i \in DOMAIN q THEN q[at + i] ELSE Lost]
\* memcpy: the bytes ys over q, from position at.
Over(q, at, ys)  == [i \in DOMAIN q |-> IF i - at \in DOMAIN ys THEN ys[i - at] ELSE q[i]]

CurLen(s)   == IF s.r.has_cur THEN Len(s.m[s.r.cur]) ELSE 0
LiveLen(s)  == IF s.r.live_in_buf THEN s.r.buf_end - s.r.buf_pos
               ELSE CurLen(s) - s.r.cur_pos
\* live_span
Live(s)     == IF s.r.live_in_buf THEN Span(s.r.buf, s.r.buf_pos, LiveLen(s))
               ELSE IF s.r.has_cur THEN Span(s.m[s.r.cur], s.r.cur_pos, LiveLen(s))
               ELSE <<>>
\* ioxd__pipereader_run
RunSpan(s)  == Span(IF s.r.run_in_cur THEN s.m[s.r.cur] ELSE s.r.buf,
                    s.r.run_start, s.r.run_len)

\* ioxd__bufring_return
Return(s, b) == [s EXCEPT !.k[b] = @ + 1, !.m[b] = <<>>]

\* cur_done: let the buffer go when neither live bytes nor the run are in it.
CurDone(s) ==
    IF ~s.r.has_cur \/ s.r.cur_pos < CurLen(s)
       \/ (s.r.run_in_cur /\ s.r.run_len > 0)
    THEN s
    ELSE LET t == IF s.r.cur_is_pinned THEN s ELSE Return(s, s.r.cur) IN
         [t EXCEPT !.r.has_cur = FALSE, !.r.cur_is_pinned = FALSE,
                   !.r.cur_pos = 0, !.r.cur = None]

\* Mutant of Compact: down to the start of buf.
CompactAll(r) ==
    IF r.buf_pos > r.floor
    THEN [r EXCEPT !.buf = Over(@, 0, Span(@, r.buf_pos, r.buf_end - r.buf_pos)),
                   !.buf_end = @ - r.buf_pos, !.buf_pos = 0]
    ELSE r

\* compact
Compact(r) ==
    IF r.buf_pos > r.floor
    THEN [r EXCEPT !.buf = Over(@, r.floor, Span(@, r.buf_pos, r.buf_end - r.buf_pos)),
                   !.buf_end = @ - (r.buf_pos - r.floor), !.buf_pos = r.floor]
    ELSE r

-----------------------------------------------------------------------------
(* gather: the run and the live bytes of cur move to buf.                  *)

RunInCur(s)  == IF s.r.run_in_cur THEN s.r.run_len ELSE 0
CanGather(s) == s.r.floor + RunInCur(s) + (CurLen(s) - s.r.cur_pos) <= Cap

\* Mutant of Pin: the buffer the kept bytes are in is not held.
PinNot(s) == s

\* The run was kept in place: its buffer stays, unless another one is held.
Pin(s) == IF RunInCur(s) > 0 /\ ~s.r.has_pinned
          THEN [s EXCEPT !.r.pinned = s.r.cur, !.r.has_pinned = TRUE,
                         !.r.cur_is_pinned = TRUE]
          ELSE s

Gather(s) ==
    LET n  == RunInCur(s)
        xs == Span(s.m[s.r.cur], s.r.run_start, n)
        ys == Span(s.m[s.r.cur], s.r.cur_pos, CurLen(s) - s.r.cur_pos)
        f  == s.r.floor + n
        t  == Pin(s)
        u  == [t.r EXCEPT !.buf = Over(Over(@, s.r.floor, xs), f, ys),
                          !.run_start = IF n > 0 THEN s.r.floor ELSE @,
                          !.floor = f, !.run_in_cur = FALSE,
                          !.buf_pos = f, !.buf_end = f + Len(ys),
                          !.live_in_buf = TRUE, !.cur_pos = CurLen(s)]
    IN CurDone([t EXCEPT !.r = u])

-----------------------------------------------------------------------------
(* Where the bytes come from: a delivery by the recv, or its end.          *)

Deliver ==
    /\ ~fin
    /\ \E b \in Buffers, n \in 1..BufSize :
          /\ ring[b] > 0 /\ sent + n <= MaxBytes
          /\ ring' = [ring EXCEPT ![b] = @ - 1]
          /\ mem' = [mem EXCEPT ![b] = Bytes(sent, n)]
          /\ rx' = Append(rx, b)
          /\ sent' = sent + n
    /\ UNCHANGED <<pr, fin, got, consumed, run, frozen>>

End ==
    /\ ~fin
    /\ fin' = TRUE
    /\ UNCHANGED <<pr, mem, ring, rx, sent, got, consumed, run, frozen>>

-----------------------------------------------------------------------------
(* more, called by read, avail and copy when nothing unexamined is live.   *)

\* Bytes ys appended to the live bytes in buf, which have room for them.
AppendLive(s, ys) ==
    LET fits == s.r.buf_end + Len(ys) <= Cap
        t    == IF fits THEN s ELSE [s EXCEPT !.r = Compact(@)]
    IN [t EXCEPT !.r.buf = Over(@, t.r.buf_end, ys),
                 !.r.buf_end = @ + Len(ys)]
HasRoom(s, n) ==
    s.r.buf_end + n <= Cap \/ Compact(s.r).buf_end + n <= Cap

\* The next buffer, and the reader once its live bytes are in buf.
Asking == pr.error = "none" /\ LiveLen(State) <= pr.examined /\ ~pr.eof

\* Nothing live: the delivered buffer is read in place.
MoreInPlace ==
    /\ Asking /\ rx # <<>>
    /\ ~pr.live_in_buf /\ ~pr.has_cur
    /\ pr' = [pr EXCEPT !.cur = Head(rx), !.has_cur = TRUE, !.cur_pos = 0,
                        !.cur_is_pinned = FALSE]
    /\ rx' = Tail(rx)
    /\ got' = got + Len(mem[Head(rx)])
    /\ UNCHANGED <<mem, ring, sent, fin, consumed, run, frozen>>

\* Something live, or a run in the current buffer: appended in buf, or refused.
MoreGathered ==
    /\ Asking /\ rx # <<>>
    /\ pr.live_in_buf \/ pr.has_cur
    /\ rx' = Tail(rx)
    /\ LET b  == Head(rx)
           ys == mem[b]
           ok == pr.live_in_buf \/ CanGather(State)
           s  == IF pr.live_in_buf \/ ~ok THEN State ELSE Gather(State)
       IN \/ /\ ok /\ HasRoom(s, Len(ys))
             /\ Set(Return(AppendLive(s, ys), b))
             /\ got' = got + Len(ys)
          \/ /\ ~ok \/ ~HasRoom(s, Len(ys))
             /\ LET t == IF ok THEN [s EXCEPT !.r = Compact(@)] ELSE s IN
                Set([Return(t, b) EXCEPT !.r.error = "full"])
             /\ UNCHANGED got
    /\ UNCHANGED <<sent, fin, consumed, run, frozen>>

\* recv_item reports the end: a FIN, or a dead peer.
MoreEnd ==
    /\ Asking /\ rx = <<>> /\ fin
    /\ \E e \in {"none", "gone"} : pr' = [pr EXCEPT !.eof = TRUE, !.error = e]
    /\ UNCHANGED <<mem, ring, world, got, consumed, run, frozen>>

\* ioxd__pipereader_inject: bytes that came by another route (the TLS prologue,
\* with the recv paused and its queue read); no room changes nothing but gathers.
Inject ==
    /\ pr.error = "none" /\ rx = <<>>
    /\ sent < MaxBytes
    /\ LET ys == Bytes(sent, 1)
           ok == pr.live_in_buf \/ ~pr.has_cur \/ CanGather(State)
           s  == IF pr.live_in_buf \/ ~ok THEN State
                 ELSE IF pr.has_cur THEN Gather(State)
                 ELSE [State EXCEPT !.r.buf_pos = pr.floor, !.r.buf_end = pr.floor,
                                    !.r.live_in_buf = TRUE]
       IN \/ /\ ok /\ HasRoom(s, 1)
             /\ Set(AppendLive(s, ys))
             /\ got' = got + 1 /\ sent' = sent + 1
          \/ /\ ~ok \/ ~HasRoom(s, 1)
             /\ Set(IF ok THEN [s EXCEPT !.r = Compact(@)] ELSE s)
             /\ UNCHANGED <<got, sent>>
    /\ UNCHANGED <<rx, fin, consumed, run, frozen>>

-----------------------------------------------------------------------------
(* The consumer.                                                           *)

\* ioxd__pipereader_examine: callers pass all that is live.
Examine ==
    /\ pr' = [pr EXCEPT !.examined = LiveLen(State)]
    /\ UNCHANGED <<mem, ring, world, got, consumed, run, frozen>>

\* consume: n live bytes are forgotten where they are.
Consume(s, n) ==
    LET e == IF s.r.examined > n THEN s.r.examined - n ELSE 0 IN
    IF s.r.live_in_buf
    THEN IF s.r.buf_pos + n >= s.r.buf_end
         THEN [s EXCEPT !.r.buf_pos = s.r.floor, !.r.buf_end = s.r.floor,
                        !.r.live_in_buf = FALSE, !.r.examined = e]
         ELSE [s EXCEPT !.r.buf_pos = @ + n, !.r.examined = e]
    ELSE IF s.r.has_cur
         THEN CurDone([s EXCEPT !.r.cur_pos = @ + n, !.r.examined = e])
         ELSE [s EXCEPT !.r.examined = e]

\* ioxd__pipereader_drop, and copy once something is live.
Drop ==
    /\ \E n \in 1..LiveLen(State) :
          /\ Set(Consume(State, n))
          /\ consumed' = consumed + n
    /\ UNCHANGED <<world, got, run, frozen>>

\* keep, with the live bytes in buf: they follow the run, sliding over dropped
\* bytes.
KeepInBuf(s, n) ==
    LET t == IF s.r.run_len = 0
             THEN [s EXCEPT !.r.run_in_cur = FALSE, !.r.run_start = s.r.buf_pos,
                            !.r.floor = s.r.buf_pos]
             ELSE [s EXCEPT !.r.buf = Over(@, s.r.floor, Span(@, s.r.buf_pos, n))]
    IN [t EXCEPT !.r.floor = @ + n]

\* keep, in place in cur.
KeepInCur(s, n) ==
    LET t  == IF s.r.run_len = 0
              THEN [s EXCEPT !.r.run_in_cur = TRUE, !.r.run_start = s.r.cur_pos]
              ELSE s
        at == t.r.run_start + t.r.run_len
    IN [t EXCEPT !.m[s.r.cur] = Over(@, at, Span(@, s.r.cur_pos, n))]

\* keep, with the run in buf and the live bytes in cur: copied across.
KeepAcross(s, n) ==
    LET f == s.r.floor + n IN
    [s EXCEPT !.r.buf = Over(@, s.r.floor, Span(s.m[s.r.cur], s.r.cur_pos, n)),
              !.r.floor = f, !.r.buf_pos = f, !.r.buf_end = f]

\* Where the n bytes just kept are: the pointer keep returns.
At(s, n, i) ==
    IF s.r.run_in_cur THEN <<s.r.cur, s.r.run_start + s.r.run_len + i>>
                      ELSE <<"buf", s.r.floor - n + i>>

\* ioxd__pipereader_keep
Keep ==
    \E n \in 1..LiveLen(State) :
       LET inCur  == ~pr.live_in_buf /\ (pr.run_len = 0 \/ pr.run_in_cur)
           across == ~pr.live_in_buf /\ ~inCur
           s == IF pr.live_in_buf THEN KeepInBuf(State, n)
                ELSE IF inCur THEN KeepInCur(State, n)
                ELSE KeepAcross(State, n)
           ys == Bytes(consumed, n)
       IN \/ /\ across => pr.floor + n <= Cap
             /\ Set(Consume([s EXCEPT !.r.run_len = @ + n], n))
             /\ consumed' = consumed + n
             /\ run' = run \o [i \in 1..n |-> <<ys[i], At(s, n, i)>>]
             /\ UNCHANGED <<world, got, frozen>>
          \/ /\ across /\ pr.floor + n > Cap
             /\ pr' = [pr EXCEPT !.error = "full"]
             /\ UNCHANGED <<mem, ring, world, got, consumed, run, frozen>>

\* ioxd__pipereader_run_begin.  Its one caller, read_head, freezes the head
\* once per request, so no other buffer is pinned yet and the branch that
\* moves the run (pipe.c:203-209) is not reached.
RunBegin ==
    /\ ~pr.began
    /\ LET s == Pin(State) IN
       Set(CurDone([s EXCEPT !.r.run_len = 0, !.r.run_in_cur = FALSE,
                             !.r.began = TRUE]))
    /\ frozen' = frozen \cup ToSet(run)
    /\ run' = <<>>
    /\ UNCHANGED <<world, got, consumed>>

\* Mutant of Unpin: the pinned buffer goes back although it is still current.
UnpinAlways(s) ==
    IF s.r.has_pinned
    THEN [Return(s, s.r.pinned) EXCEPT !.r.cur_is_pinned = FALSE,
            !.r.has_pinned = FALSE, !.r.pinned = None]
    ELSE s

\* The pinned buffer goes back, or lives on as the current one.
Unpin(s) ==
    IF s.r.has_pinned
    THEN [IF s.r.cur_is_pinned THEN s ELSE Return(s, s.r.pinned) EXCEPT
            !.r.cur_is_pinned = FALSE, !.r.has_pinned = FALSE, !.r.pinned = None]
    ELSE s

\* ioxd__pipereader_release
Release ==
    /\ LET n == pr.buf_end - pr.buf_pos
           r == IF pr.live_in_buf
                THEN [pr EXCEPT !.buf = Over(@, 0, Span(@, pr.buf_pos, n)),
                                !.buf_end = n, !.buf_pos = 0]
                ELSE [pr EXCEPT !.buf_pos = 0, !.buf_end = 0]
       IN Set(CurDone(Unpin([State EXCEPT !.r =
               [r EXCEPT !.run_len = 0, !.run_in_cur = FALSE, !.floor = 0,
                         !.began = FALSE]])))
    /\ run' = <<>> /\ frozen' = {}
    /\ UNCHANGED <<world, got, consumed>>

\* ioxd__pipereader_close, at the end of the connection; the pipe is not used
\* after it, and the queue goes back with conn_close.
Close ==
    /\ LET s == IF pr.has_cur /\ ~pr.cur_is_pinned THEN Return(State, pr.cur)
                                                  ELSE State
           t == IF pr.has_pinned THEN Return(s, pr.pinned) ELSE s
       IN Set([t EXCEPT !.r = [Fresh EXCEPT !.error = "gone", !.eof = TRUE]])
    /\ fin' = TRUE /\ run' = <<>> /\ frozen' = {} /\ consumed' = got
    /\ UNCHANGED <<rx, sent, got>>

Consumer == Examine \/ Drop \/ Keep \/ RunBegin \/ Release \/ Close
More     == MoreInPlace \/ MoreGathered \/ MoreEnd

Next == Deliver \/ End \/ More \/ Inject \/ Consumer

Spec == Init /\ [][Next]_vars
-----------------------------------------------------------------------------
(* Properties.                                                             *)

\* InBounds.  Every index stays inside the buffer it belongs to: no copy in
\* pipe.c runs past the gathering buffer or past a kernel buffer.
InBounds ==
    /\ 0 <= pr.floor /\ pr.floor <= Cap
    /\ 0 <= pr.buf_pos /\ pr.buf_pos <= pr.buf_end /\ pr.buf_end <= Cap
    /\ pr.live_in_buf => pr.floor <= pr.buf_pos
    /\ pr.has_cur <=> pr.cur \in Buffers
    /\ pr.has_cur => pr.cur_pos <= CurLen(State)
    /\ pr.has_pinned <=> pr.pinned \in Buffers
    /\ pr.cur_is_pinned => pr.has_cur /\ pr.cur = pr.pinned
    /\ pr.run_in_cur /\ pr.run_len > 0 =>
         pr.has_cur /\ pr.run_start + pr.run_len <= pr.cur_pos
    /\ ~pr.run_in_cur /\ pr.run_len > 0 => pr.run_start + pr.run_len = pr.floor

\* LiveIsNext.  The live span is exactly the bytes the reader was given and
\* the consumer has not consumed, in the order they arrived: through reading
\* in place, gathering, compacting, keeping and releasing, nothing is lost,
\* repeated or swapped.
LiveIsNext == Live(State) = Bytes(consumed, got - consumed)

\* RunIsWhole.  ioxd__pipereader_run is what was kept since the run began,
\* contiguous and in order, wherever it moved to.
RunIsWhole == RunSpan(State) = [i \in 1..Len(run) |-> run[i][1]]

\* BytesInOrder.  The three together: no compacting, gathering, appending or
\* sliding of the two memories loses, repeats or mixes up a byte.
BytesInOrder == InBounds /\ LiveIsNext /\ RunIsWhole

\* A pointer keep returned still points at its byte.
Holds(p) == LET q == IF p[2][1] = "buf" THEN pr.buf ELSE mem[p[2][1]] IN
            p[2][2] \in DOMAIN q /\ q[p[2][2]] = p[1]

\* KeptStays.  ioxd/pipe.h: keep "leaves the bytes where they are and valid
\* until release".  The frozen ones (a request's head, parsed into pointers)
\* always; those of the run unless it moved because a frozen buffer is pinned.
KeptStays ==
    /\ \A p \in frozen : Holds(p)
    /\ ~pr.began => \A p \in ToSet(run) : Holds(p)

\* BufferHasOneHome.  Each kernel buffer is in the ring once, in the queue, or
\* with the reader: never returned twice, never lost.
BufferHasOneHome ==
    \A b \in Buffers :
        ring[b] + Cardinality({i \in 1..Len(rx) : rx[i] = b})
                + (IF b \in {pr.cur, pr.pinned} THEN 1 ELSE 0) = 1
=============================================================================
