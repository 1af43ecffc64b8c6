------------------------------ MODULE MCCerts ------------------------------
(* Instances of Certs for TLC.                                             *)
EXTENDS Certs, TLC

CONSTANTS other, unknown

(* Clients ask for a host by its name, or for a name only a wildcard entry *)
(* covers; `other` stands for that entry too.                              *)
MCHosts == {Default, other}
MCNames == {other, unknown}
MCWild == (unknown :> other) @@ (other :> NoHost)
=============================================================================
