----------------------------- MODULE Handshake -----------------------------
(***************************************************************************)
(* The prologue of a TLS connection (lib/tls/handshake.c): an OpenSSL      *)
(* handshake over the pipe, then a handover of the socket to kernel TLS in *)
(* the middle of the client's stream.  The client may already have sent    *)
(* application records; some of their bytes were delivered to the reader,  *)
(* some are still in the socket, and a record may be cut between the two.  *)
(* The prologue stops the recv, takes whole records until it is at a       *)
(* record boundary, and tells the kernel how many it took.                 *)
(*                                                                         *)
(* A record is a kind and a number of plaintext units; on the wire it has  *)
(* Hdr units of header, one of tag and its plaintext.  The stream is a     *)
(* sequence of records, and arrived, delivered and taken are positions in  *)
(* it: what is in the socket, what the multishot recv passed to the        *)
(* reader, and what take_record consumed.                                  *)
(***************************************************************************)
EXTENDS Integers, Sequences, SequencesExt

CONSTANTS
    Hdr,            \* the length of a record header (5)
    MaxPlain,       \* the longest plaintext a record carries
    PlainMax,       \* PLAIN_MAX: early plaintext the reader can take
    MaxRecords      \* bound: application records of the client

ASSUME HandshakeAssumption ==
    /\ {Hdr, PlainMax} \subseteq Nat \ {0}
    /\ {MaxPlain, MaxRecords} \subseteq Nat

VARIABLES
    sent,           \* the client's records, handshake records first
    fin,            \* the client closed its side
    arrived, delivered, taken,
    recv,           \* the recv: armed, pausing, paused, ended
    pc,             \* where the prologue is
    have,           \* take_record's have: units of the record in hand
    fed,            \* handshake records OpenSSL was given
    records,        \* drain_records' count
    plain,          \* the early plaintext
    rxPos, rxSeq,   \* the kernel's RX: where it starts, the next sequence
    got,            \* the plaintext the handler's reader was given
    garbled         \* a record did not decrypt under the kernel's keys

clientVars == <<sent, fin>>
kernelVars == <<arrived, rxPos, rxSeq, garbled>>
takeVars == <<taken, delivered, have>>
vars == <<clientVars, kernelVars, takeVars, recv, pc, fed, records, plain, got>>

(* ClientHello and Finished.                                               *)
Flight == <<[kind |-> "hello", n |-> 0], [kind |-> "finished", n |-> 0]>>

(* What follows them: data; a close_notify; a KeyUpdate, with or without a  *)
(* request to answer it; a record that is no application data outside.     *)
AppRecords ==
    [kind : {"data"}, n : 0..MaxPlain]
        \cup [kind : {"close", "update", "answered", "other"}, n : {0}]

Size(r) == Hdr + 1 + r.n

(* Where the records of a stream end, and the i-th of the client's.        *)
Ends(s) ==
    LET e[j \in 0..Len(s)] == IF j = 0 THEN 0 ELSE e[j - 1] + Size(s[j])
    IN  e
End(i) == Ends(sent)[i]

Boundaries == {End(i) : i \in 0..Len(sent)}
RecordAt(p) == CHOOSE i \in 1..Len(sent) : End(i - 1) = p

(* The plaintext of the i-th record, r, unit by unit.                      *)
PlainOf(r, i) == IF r.kind = "data" THEN [j \in 1..r.n |-> <<i, j>>] ELSE <<>>
Plaintext(i) == PlainOf(sent[i], i)

Closes(i) == sent[i].kind = "close"
IsApp(i) == i > Len(Flight)

(* The sequence number the client gave the i-th record and the generation  *)
(* of its key: a KeyUpdate starts both anew.                               *)
Updates(i) == {j \in Len(Flight) + 1..i - 1 : sent[j].kind \in {"update", "answered"}}
Seq_(i) == i - 1 - (IF Updates(i) = {} THEN Len(Flight) ELSE CHOOSE j \in Updates(i) : \A k \in Updates(i) : k <= j)

Init ==
    /\ sent = <<>> /\ fin = FALSE
    /\ arrived = 0 /\ delivered = 0 /\ taken = 0
    /\ recv = "armed" /\ pc = "shake"
    /\ have = 0 /\ fed = 0 /\ records = 0 /\ plain = <<>>
    /\ rxPos = -1 /\ rxSeq = 0
    /\ got = <<>> /\ garbled = FALSE

----------------------------------------------------------------------------
(* The client.  Its Finished answers the server's flight; application data *)
(* may follow at once.                                                     *)
Send ==
    /\ ~ fin
    /\ IF Len(sent) < Len(Flight)
         THEN /\ Len(sent) <= fed
              /\ sent' = Append(sent, Flight[Len(sent) + 1])
         ELSE /\ Len(sent) < Len(Flight) + MaxRecords
              /\ \E r \in AppRecords : sent' = Append(sent, r)
    /\ UNCHANGED <<fin, kernelVars, takeVars, recv, pc, fed, records, plain, got>>

Fin ==
    /\ ~ fin
    /\ fin' = TRUE
    /\ UNCHANGED <<sent, kernelVars, takeVars, recv, pc, fed, records, plain, got>>

(* TCP brings the stream in pieces of any size.                            *)
Arrive ==
    /\ arrived < End(Len(sent))
    /\ arrived' = arrived + 1
    /\ UNCHANGED <<clientVars, rxPos, rxSeq, garbled, takeVars, recv, pc, fed, records, plain, got>>

(* The multishot recv passes on what is in the socket, until it is stopped *)
(* and, between the cancel and its end, still.                             *)
Deliver ==
    /\ recv \in {"armed", "pausing"}
    /\ pc # "serve"
    /\ delivered < arrived
    /\ delivered' = delivered + 1
    /\ UNCHANGED <<clientVars, kernelVars, taken, have, recv, pc, fed, records, plain, got>>

RecvEnds ==
    /\ recv \in {"armed", "pausing"}
    /\ fin
    /\ arrived = End(Len(sent))
    /\ pc = "serve" \/ delivered = arrived
    /\ recv' = "ended"
    /\ UNCHANGED <<clientVars, kernelVars, takeVars, pc, fed, records, plain, got>>

RecvStops ==
    /\ recv = "pausing"
    /\ recv' = "paused"
    /\ UNCHANGED <<clientVars, kernelVars, takeVars, pc, fed, records, plain, got>>

----------------------------------------------------------------------------
(* The prologue.                                                           *)

(* Any failure: the connection is dropped.                                 *)
Drop == pc' = "dropped"

(* SSL_do_handshake and flush_outbound: it is done, it wants a record, it  *)
(* fails, or the peer is gone; the secrets of a handshake that is done may *)
(* be missing.                                                             *)
Shake ==
    /\ pc = "shake"
    /\ pc' \in {IF fed = Len(Flight) THEN "pause" ELSE "feed", "dropped"}
    /\ UNCHANGED <<clientVars, kernelVars, takeVars, recv, fed, records, plain, got>>

(* take_record: the header first, then as much as it says.                 *)
Need == IF have < Hdr THEN Hdr ELSE Size(sent[RecordAt(taken - have)])

(* A piece of the record in hand out of what the reader has.               *)
TakePiece ==
    /\ taken < delivered
    /\ have < Need
    /\ have' = have + 1
    /\ taken' = taken + 1
    /\ UNCHANGED delivered

Complete == have >= Hdr /\ have = Need

(* During the handshake: it waits for the rest, and fails at the end.      *)
Feed ==
    /\ pc = "feed"
    /\ \/ /\ TakePiece
          /\ UNCHANGED <<pc, fed>>
       \/ /\ Complete
          /\ have' = 0
          /\ fed' = fed + 1
          /\ pc' = "shake"
          /\ UNCHANGED <<taken, delivered>>
       \/ /\ ~ Complete
          /\ taken = delivered
          /\ recv = "ended"
          /\ Drop
          /\ UNCHANGED <<takeVars, fed>>
    /\ UNCHANGED <<clientVars, kernelVars, recv, records, plain, got>>

(* ioxd__conn_recv_pause: a cancel, and a wait for the recv to be over; a  *)
(* recv that ended by itself is the end of the input.                      *)
Pause ==
    /\ pc = "pause"
    /\ \/ recv = "armed" /\ recv' = "pausing" /\ UNCHANGED pc
       \/ recv = "paused" /\ pc' = "drain" /\ UNCHANGED recv
       \/ recv = "ended" /\ Drop /\ UNCHANGED recv
    /\ UNCHANGED <<clientVars, kernelVars, takeVars, fed, records, plain, got>>

(* The tail of a record cut by the pause, straight from the socket.        *)
Rest ==
    /\ taken = delivered
    /\ have > 0
    /\ delivered < arrived
    /\ have' = have + 1
    /\ taken' = taken + 1
    /\ delivered' = delivered + 1

(* It may fail: the peer is gone, or a shutdown cancels it.                *)
RestFails == taken = delivered /\ have > 0

(* Mutant: nothing more was delivered, even in the middle of a record.     *)
DrainedAnywhere == taken = delivered /\ ~ Complete

(* Nothing delivered is left.                                              *)
Drained == taken = delivered /\ have = 0

(* drain_records: records as they come, the tail of the last one from the  *)
(* socket; done when nothing delivered is left.                            *)
DrainTake ==
    /\ pc = "drain"
    /\ ~ Complete
    /\ \/ TakePiece /\ UNCHANGED pc
       \/ ~ Drained /\ Rest /\ UNCHANGED pc
       \/ ~ Drained /\ RestFails /\ Drop /\ UNCHANGED takeVars
       \/ Drained /\ pc' = "ulp" /\ UNCHANGED takeVars
    /\ UNCHANGED <<clientVars, kernelVars, recv, fed, records, plain, got>>

(* The whole record in hand.                                               *)
InHand == RecordAt(taken - have)

(* Every record OpenSSL takes is counted.                                  *)
Counted == records + 1

(* SSL_read until the plaintext is out or PLAIN_MAX is full.               *)
Fits(i) == Len(plain) < PlainMax /\ Len(plain) + Len(Plaintext(i)) <= PlainMax

(* One record through OpenSSL.  What is no application record on the       *)
(* outside, what does not fit and what OpenSSL answers end the connection; *)
(* a close_notify ends the drain; OpenSSL may refuse any record.           *)
DrainRecord ==
    /\ pc = "drain"
    /\ Complete
    /\ have' = 0
    /\ LET i == InHand IN
       \/ /\ sent[i].kind \in {"other", "answered"} \/ ~ Fits(i)
          /\ Drop
          /\ UNCHANGED <<records, plain>>
       \/ /\ sent[i].kind \in {"data", "update", "close"} /\ Fits(i)
          /\ records' = Counted
          /\ plain' = plain \o Plaintext(i)
          /\ IF Closes(i) THEN pc' = "ulp" ELSE UNCHANGED pc
       \/ /\ Drop
          /\ UNCHANGED <<records, plain>>
    /\ UNCHANGED <<clientVars, kernelVars, taken, delivered, recv, fed, got>>

(* TCP_ULP, TLS_TX from sequence 0, TLS_RX from the count; each may fail.  *)
Install ==
    /\ pc = "ulp"
    /\ \/ /\ rxPos' = delivered
          /\ rxSeq' = records
          /\ pc' = "inject"
       \/ Drop /\ UNCHANGED <<rxPos, rxSeq>>
    /\ UNCHANGED <<clientVars, arrived, garbled, takeVars, recv, fed, records, plain, got>>

(* ioxd__pipereader_inject: the early plaintext behind what is live in the *)
(* reader.                                                                 *)
Cipher == <<0, 0>>
Live == [j \in 1..delivered - taken |-> Cipher]

Inject ==
    /\ pc = "inject"
    /\ IF Len(Live) + Len(plain) <= PlainMax \/ plain = <<>>
         THEN got' = Live \o plain /\ pc' = "resume"
         ELSE Drop /\ UNCHANGED got
    /\ UNCHANGED <<clientVars, kernelVars, takeVars, recv, fed, records, plain>>

(* ioxd__conn_recv_resume: refused when the worker is draining.            *)
Resume ==
    /\ pc = "resume"
    /\ \/ recv' = "armed" /\ pc' = "serve"
       \/ recv' = "ended" /\ Drop
    /\ UNCHANGED <<clientVars, kernelVars, takeVars, fed, records, plain, got>>

----------------------------------------------------------------------------
(* Kernel TLS, once the recv is armed again: a record decrypts if it       *)
(* starts where the kernel thinks and has its sequence and its key; one    *)
(* that is no data ends the input.                                         *)
Decrypts(i) == Seq_(i) = rxSeq /\ Updates(i) = {}

KernelRecord ==
    /\ pc = "serve" /\ recv = "armed"
    /\ rxPos \in Boundaries => \E i \in 1..Len(sent) : End(i - 1) = rxPos /\ End(i) <= arrived
    /\ IF rxPos \in Boundaries /\ Decrypts(RecordAt(rxPos))
         THEN IF sent[RecordAt(rxPos)].kind = "data"
                THEN /\ got' = got \o Plaintext(RecordAt(rxPos))
                     /\ rxPos' = End(RecordAt(rxPos))
                     /\ rxSeq' = rxSeq + 1
                     /\ UNCHANGED <<recv, garbled>>
                ELSE recv' = "ended" /\ UNCHANGED <<rxPos, rxSeq, garbled, got>>
         ELSE /\ garbled' = TRUE
              /\ recv' = "ended"
              /\ UNCHANGED <<rxPos, rxSeq, got>>
    /\ UNCHANGED <<clientVars, arrived, takeVars, pc, fed, records, plain>>

Client == Send \/ Fin \/ Arrive
Recv == Deliver \/ RecvEnds \/ RecvStops
Prologue == Shake \/ Feed \/ Pause \/ DrainTake \/ DrainRecord \/ Install \/ Inject \/ Resume

Next == Client \/ Recv \/ Prologue \/ KernelRecord

Spec == Init /\ [][Next]_vars

----------------------------------------------------------------------------
(* Properties.                                                             *)

(* What the first i records of a stream carry, up to a close_notify, in    *)
(* order; and everything the client sent.                                  *)
IsOpen(s, i) == \A j \in 1..i : s[j].kind # "close"
Carried(s) ==
    LET all[i \in 0..Len(s)] ==
            IF i = 0 THEN <<>>
            ELSE all[i - 1] \o (IF IsOpen(s, i) THEN PlainOf(s[i], i) ELSE <<>>)
    IN  all
ClientPlain == Carried(sent)[Len(sent)]

(* The records drain_records took, and what is expected of them: that no   *)
(* key changed without an answer, and nothing was sent behind a            *)
(* close_notify.  In either case the code hands over all the same, with    *)
(* the old key, or with ciphertext left in the reader.                     *)
EarlyRecords == Len(Flight) + 1..Len(Flight) + records
Followable ==
    \A i \in EarlyRecords : sent[i].kind # "update" /\ (Closes(i) => i = Len(sent))

(* What the handler reads is what the client sent, each unit once and in   *)
(* order, wherever the handover cut the stream: the early plaintext that   *)
(* drain_records kept, then what the kernel decrypts; and the kernel never *)
(* meets a record it cannot decrypt, having been told to start at a record *)
(* boundary and at the sequence number the client gave that record         *)
(* (install(c, TLS_RX, s.rx, records)).  The early plaintext stays within  *)
(* what the reader can take (PLAIN_MAX).                                   *)
InOrder ==
    /\ Len(plain) <= PlainMax
    /\ pc = "serve" /\ Followable => ~ garbled /\ IsPrefix(got, ClientPlain)
=============================================================================
