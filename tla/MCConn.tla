------------------------------- MODULE MCConn -------------------------------
(* Conn on small instances: a queue of two buffers, two undispatched CQEs. *)
EXTENDS Conn
=============================================================================
