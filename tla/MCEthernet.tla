---------------------------- MODULE MCEthernet ----------------------------
(* TLC instance of Ethernet: a header of two units, files of two and four. *)
EXTENDS Ethernet

SomeFiles == {[id |-> 1, size |-> 2], [id |-> 2, size |-> 4]}
=============================================================================
