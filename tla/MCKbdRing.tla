----------------------------- MODULE MCKbdRing -----------------------------
(* TLC instance of KbdRing: a ring of three slots, two different bytes.     *)
EXTENDS KbdRing
=============================================================================
