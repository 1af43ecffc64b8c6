---------------------------- MODULE StaticCache ----------------------------
(***************************************************************************)
(* One worker's table of the files it keeps (lib/http/static.c).  The      *)
(* worker has one thread, and a handler gives way where it reads from the  *)
(* disk and where it sends: between these points other requests look the   *)
(* table up, drop entries and insert theirs.  Outside the server, files    *)
(* are replaced and removed at any time.                                   *)
(*                                                                         *)
(* A file is its version, which stands for the inode, the size and the     *)
(* modification time that current() compares, a size, and the version its  *)
(* pre-compressed twin was made from (0: there is none).  The two twins    *)
(* .br and .gz are one here.  A kept file is compared with the disk when   *)
(* it is asked for, unless that was done less than revalidate_ms ago: the  *)
(* clock is a variable, and so is what it said when each version of a file *)
(* was last on the disk, which the server does not know.                   *)
(***************************************************************************)
EXTENDS Integers, Sequences, SequencesExt, FiniteSets

CONSTANTS
    Reqs,           \* the handlers that may be under way at once
    Files,
    Entries,        \* the memory for struct entry
    None,
    Sizes,          \* of a file; a twin has size 1
    FileMax,        \* a larger file is streamed
    Budget,         \* cache_bytes
    Revalidate,     \* revalidate_ms
    MaxVersion,     \* bound: versions of a file
    MaxTime         \* bound: of the clock

ASSUME StaticAssumption ==
    /\ None \notin Entries
    /\ IsFiniteSet(Reqs)
    /\ Sizes \subseteq Nat
    /\ {FileMax, Budget, Revalidate, MaxTime} \subseteq Nat
    /\ MaxVersion \in Nat \ {0}

VARIABLES
    disk,           \* what the directory holds
    mem,            \* the entries, allocated or free
    table,          \* the entries in the table, the newest first
    bytes,          \* c->bytes
    req,            \* where each handler is
    now,            \* now_ms()
    seen            \* when a version of a file was last on the disk

outside == <<disk, now, seen>>
vars == <<mem, table, bytes, req, outside>>

Free == [st |-> "free", file |-> None, ver |-> 0, size |-> 0, twin |-> 0,
         refs |-> 0, dropped |-> FALSE, checked |-> 0]
Idle == [pc |-> "idle", e |-> None, variant |-> "plain", came |-> 0]

Init ==
    /\ disk = [f \in Files |-> [here |-> TRUE, ver |-> 1, size |-> 1, twin |-> 0]]
    /\ mem = [e \in Entries |-> Free]
    /\ table = <<>>
    /\ bytes = 0
    /\ req = [r \in Reqs |-> Idle]
    /\ now = 0
    /\ seen = [f \in Files |-> [v \in 1..MaxVersion |-> 0]]

(* What the operations on the table work on.                               *)
Cache == [mem |-> mem, table |-> table, bytes |-> bytes]
SetCache(s) == mem' = s.mem /\ table' = s.table /\ bytes' = s.bytes

----------------------------------------------------------------------------
(* The table.                                                              *)

(* What an entry is charged.                                               *)
BytesOf(s, e) == s.mem[e].size + (IF s.mem[e].twin > 0 THEN 1 ELSE 0)

EntryFree(s, e) == [s EXCEPT !.mem[e] = Free]

(* recency_out: the list without the entry, which is in it once.           *)
RecencyOut(t, e) == RemoveAt(t, CHOOSE i \in DOMAIN t : t[i] = e)

(* touch: recency_out and recency_in.                                      *)
Touch(s, e) == [s EXCEPT !.table = <<e>> \o RecencyOut(@, e)]

(* unlink_entry: out of the bucket and the recency list, and uncharged.    *)
UnlinkEntry(s, e) == [s EXCEPT !.table = RecencyOut(@, e), !.bytes = @ - BytesOf(s, e)]

(* Mutant: freed at once, whoever reads from it.                           *)
DropNow(s, e) == EntryFree(UnlinkEntry(s, e), e)

(* drop: freed when no send reads from it.                                 *)
Drop(s, e) ==
    LET u == [UnlinkEntry(s, e) EXCEPT !.mem[e].dropped = TRUE]
    IN  IF s.mem[e].refs = 0 THEN EntryFree(u, e) ELSE u

(* Mutant: room is made for one more byte at most.                         *)
MakeRoomByte(s, need) ==
    LET room[k \in 0..Len(s.table)] ==
          IF k = 0 THEN s
          ELSE IF room[k - 1].bytes + 1 > Budget
                 THEN Drop(room[k - 1], Last(room[k - 1].table))
                 ELSE room[k - 1]
    IN  room[Len(s.table)]

(* make_room: the oldest goes, until what is needed fits or none is left.  *)
MakeRoom(s, need) ==
    LET room[k \in 0..Len(s.table)] ==       \* after k turns of the loop
          IF k = 0 THEN s
          ELSE IF room[k - 1].bytes + need > Budget
                 THEN Drop(room[k - 1], Last(room[k - 1].table))
                 ELSE room[k - 1]
    IN  room[Len(s.table)]

Insert(s, e) == [s EXCEPT !.table = <<e>> \o @, !.bytes = @ + BytesOf(s, e)]

(* release, at the end of a send.                                          *)
Release(s, e) ==
    IF s.mem[e].refs = 1 /\ s.mem[e].dropped
      THEN EntryFree(s, e)
      ELSE [s EXCEPT !.mem[e].refs = @ - 1]

(* lookup: two requests may have loaded the same file, and grow() turns    *)
(* the order of a bucket around, so any of the entries of the name may be  *)
(* the one found.                                                          *)
Lookup(f) == {e \in ToSet(table) : mem[e].file = f}

OnDisk(f, v) == disk[f].here /\ disk[f].ver = v

(* Inside revalidate_ms since it was checked, an entry goes unchecked.     *)
Unchecked(e) == Revalidate > 0 /\ now - mem[e].checked < Revalidate

(* Mutant: every hit begins the time anew.                                 *)
CheckedAlways(s, e) == [s EXCEPT !.mem[e].checked = now]

(* current: the time it is looked at, if it is; checked_at is left at 0    *)
(* when every request checks.                                              *)
Checked(s, e) ==
    IF Revalidate = 0 \/ Unchecked(e) THEN s ELSE [s EXCEPT !.mem[e].checked = now]

(* current: is it what the disk has?                                       *)
Current(e) ==
    \/ Unchecked(e)
    \/ OnDisk(mem[e].file, mem[e].ver)

----------------------------------------------------------------------------
(* A request.                                                              *)

(* reply: a HEAD, a 304 and a 416 end here; a body is written from the     *)
(* entry, which is held while the send reads from it.                      *)
Reply(r, s, e, came) ==
    \/ /\ SetCache(s)
       /\ req' = [req EXCEPT ![r] = Idle]
    \/ \E v \in {"plain"} \cup (IF s.mem[e].twin > 0 THEN {"twin"} ELSE {}) :
         /\ SetCache([s EXCEPT !.mem[e].refs = @ + 1])
         /\ req' = [req EXCEPT ![r] = [pc |-> "send", e |-> e, variant |-> v, came |-> came]]

(* The handler is done with nothing to send from the table: a 404, a 500,  *)
(* or a file too large to keep, streamed from its descriptor.              *)
Ends(r, s) == SetCache(s) /\ req' = [req EXCEPT ![r] = Idle]

(* load, up to where it first reads: the entry is the handler's own.       *)
LoadBegin(r, s, f) ==
    \E e \in {x \in Entries : s.mem[x].st = "free"} :
        /\ SetCache([s EXCEPT !.mem[e] =
                        [Free EXCEPT !.st = "live", !.file = f, !.ver = disk[f].ver,
                                     !.size = disk[f].size,
                                     !.checked = IF Revalidate > 0 THEN now ELSE 0]])
        /\ req' = [req EXCEPT ![r] = [Idle EXCEPT !.pc = "plain", !.e = e, !.came = now]]

(* serve behind open_file.                                                 *)
Open(r, s, f) ==
    \/ disk[f].size > FileMax /\ Ends(r, s)
    \/ disk[f].size <= FileMax /\ LoadBegin(r, s, f)
    \/ disk[f].size <= FileMax /\ Ends(r, s)

(* serve: the table first, then the disk.                                  *)
ServeHit(r, f) ==
    /\ req[r].pc = "idle"
    /\ \E e \in Lookup(f) : Current(e) /\ Reply(r, Touch(Checked(Cache, e), e), e, now)
    /\ UNCHANGED outside

ServeStale(r, f) ==
    /\ req[r].pc = "idle"
    /\ \E e \in Lookup(f) :
         /\ ~ Current(e)
         /\ \/ disk[f].here /\ Open(r, Drop(Checked(Cache, e), e), f)
            \/ ~ disk[f].here /\ Ends(r, Drop(Checked(Cache, e), e))
    /\ UNCHANGED outside

ServeMiss(r, f) ==
    /\ req[r].pc = "idle"
    /\ Lookup(f) = {}
    /\ disk[f].here /\ Open(r, Cache, f)
    /\ UNCHANGED outside

(* The name is not in the table, and there is no such file.  It may be the *)
(* name of a directory: then its index is opened before it is looked up,   *)
(* and the table may well have it.                                         *)
ServeGone(r, f) ==
    /\ req[r].pc = "idle"
    /\ ~ disk[f].here
    /\ Ends(r, Cache)
    /\ UNCHANGED outside

(* read_whole of the file, from the descriptor that was opened.            *)
LoadPlain(r) ==
    /\ req[r].pc = "plain"
    /\ req' = [req EXCEPT ![r].pc = "twin"]
    /\ UNCHANGED <<mem, table, bytes, outside>>

LoadFails(r) ==
    /\ req[r].pc = "plain"
    /\ Ends(r, EntryFree(Cache, req[r].e))
    /\ UNCHANGED outside

(* twin: opened now, not when the file was; it may fail.                   *)
LoadTwin(r) ==
    /\ req[r].pc = "twin"
    /\ \E t \in {0, disk[mem[req[r].e].file].twin} : mem' = [mem EXCEPT ![req[r].e].twin = t]
    /\ req' = [req EXCEPT ![r].pc = "loaded"]
    /\ UNCHANGED <<table, bytes, outside>>

(* The end of load: kept when it fits the budget.                          *)
LoadEnd(r) ==
    /\ req[r].pc = "loaded"
    /\ LET e == req[r].e IN
       IF BytesOf(Cache, e) <= Budget
         THEN Reply(r, Insert(MakeRoom(Cache, BytesOf(Cache, e)), e), e, req[r].came)
         ELSE Reply(r, [Cache EXCEPT !.mem[e].dropped = TRUE], e, req[r].came)
    /\ UNCHANGED outside

(* The write has returned, with the body sent or the peer gone.            *)
Sent(r) ==
    /\ req[r].pc = "send"
    /\ Ends(r, Release(Cache, req[r].e))
    /\ UNCHANGED outside

----------------------------------------------------------------------------
(* The directory and the clock.                                            *)

Replace(f) ==
    /\ disk[f].ver < MaxVersion
    /\ \E n \in Sizes : disk' = [disk EXCEPT ![f].here = TRUE, ![f].ver = @ + 1, ![f].size = n]
    /\ seen' = [seen EXCEPT ![f][disk[f].ver + 1] = now]
    /\ UNCHANGED <<mem, table, bytes, req, now>>

ReplaceTwin(f) ==
    /\ disk[f].here
    /\ disk' = [disk EXCEPT ![f].twin = disk[f].ver]
    /\ UNCHANGED <<mem, table, bytes, req, now, seen>>

Unlink(f) ==
    /\ disk' = [disk EXCEPT ![f].here = FALSE, ![f].twin = 0]
    /\ UNCHANGED <<mem, table, bytes, req, now, seen>>

Tick ==
    /\ now < MaxTime
    /\ now' = now + 1
    /\ seen' = [f \in Files |-> [v \in 1..MaxVersion |->
                  IF OnDisk(f, v) THEN now + 1 ELSE seen[f][v]]]
    /\ UNCHANGED <<mem, table, bytes, req, disk>>

Serve(r) == \E f \in Files : ServeHit(r, f) \/ ServeStale(r, f) \/ ServeMiss(r, f) \/ ServeGone(r, f)
Load(r) == LoadPlain(r) \/ LoadFails(r) \/ LoadTwin(r) \/ LoadEnd(r)

Next ==
    \/ \E r \in Reqs : Serve(r) \/ Load(r) \/ Sent(r)
    \/ \E f \in Files : Replace(f) \/ ReplaceTwin(f) \/ Unlink(f)
    \/ Tick

Spec == Init /\ [][Next]_vars

----------------------------------------------------------------------------
(* Properties.                                                             *)

(* The sum of a sequence of numbers.                                       *)
Total(w) ==
    LET sum[i \in 0..Len(w)] == IF i = 0 THEN 0 ELSE sum[i - 1] + w[i]
    IN  sum[Len(w)]

(* The table holds each entry once, none that was dropped, and is charged  *)
(* for what it holds, which is never more than the budget.                 *)
BudgetIsKept ==
    /\ IsInjective(table)
    /\ \A e \in ToSet(table) : mem[e].st = "live" /\ ~ mem[e].dropped
    /\ bytes = Total([i \in DOMAIN table |-> BytesOf(Cache, table[i])])
    /\ bytes <= Budget

(* Whatever other requests drop to make room or find changed while one is  *)
(* sending, what it sends from stays: an entry's count is the number of    *)
(* sends that read from it, and an entry that is free has none.  The same  *)
(* of an entry a handler is still loading.                                 *)
SendsReadLiveEntries ==
    /\ \A e \in Entries : mem[e].refs = Cardinality({r \in Reqs : req[r].pc = "send" /\ req[r].e = e})
    /\ \A r \in Reqs : req[r].e # None => mem[req[r].e].st = "live"
    /\ \A r \in Reqs : req[r].pc \in {"plain", "twin", "loaded"} =>
         req[r].e \notin ToSet(table) /\ \A q \in Reqs : q # r => req[q].e # req[r].e

(* include/ioxd/static.h: revalidate_ms is "how long a kept file goes      *)
(* unchecked against the disk".  Whatever loads were under way when the    *)
(* file was replaced or removed, however long they took, and whichever     *)
(* entry of the name a request found: what it sends of the file itself was *)
(* on the disk revalidate_ms before the request came, or later.            *)
ServedInTime ==
    \A r \in Reqs : req[r].pc = "send" /\ req[r].variant = "plain" =>
        LET e == mem[req[r].e] IN req[r].came <= seen[e.file][e.ver] + Revalidate

(* lib/http/static.h of load: an entry is "kept when it fits the budget,   *)
(* served once and freed otherwise".  Violated: the free is in the release *)
(* after the body's write, and a HEAD, a 304 or a 416 returns before it.   *)
ServedOnceAndFreed ==
    \A e \in Entries : mem[e].st = "live" => e \in ToSet(table) \/ \E r \in Reqs : req[r].e = e
=============================================================================
