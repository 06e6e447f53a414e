--------------------------- MODULE MCContentCheck ---------------------------
(* TLC instances of ContentCheck.                                             *)
EXTENDS ContentCheck
=============================================================================
