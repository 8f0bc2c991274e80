------------------------------ MODULE MCPicoBus ------------------------------
(* TLC instances of PicoBus.                                               *)
EXTENDS PicoBus
=============================================================================
