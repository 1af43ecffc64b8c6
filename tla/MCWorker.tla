------------------------------ MODULE MCWorker ------------------------------
(* Three workers: two connections compete for a buffer and for the file    *)
(* table; a TLS connection has more buffers than its queue, on a kernel    *)
(* that knows the blanket cancel; and one whose SQ fills up and whose      *)
(* enters may be partial.                                                  *)
EXTENDS Worker

CONSTANTS c1, c2, b1, b2

MCSetups == {
    [conns |-> {c1, c2}, buffers |-> {b1}, slots |-> 2,
     tls |-> FALSE, any |-> FALSE, hiccups |-> FALSE],
    [conns |-> {c1}, buffers |-> {b1, b2}, slots |-> 1,
     tls |-> TRUE, any |-> TRUE, hiccups |-> FALSE],
    [conns |-> {c1}, buffers |-> {b1}, slots |-> 1,
     tls |-> TRUE, any |-> TRUE, hiccups |-> TRUE]}
=============================================================================
