----------------------------- MODULE MCBiosDisk -----------------------------
(* TLC instances of BiosDisk: a card of three sectors of two bytes.        *)
EXTENDS BiosDisk
=============================================================================
