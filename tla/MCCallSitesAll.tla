--------------------------- MODULE MCCallSitesAll ---------------------------
(***************************************************************************)
(* CallSitesAll for TLC.  The constants are given in the .cfg file.        *)
(***************************************************************************)
EXTENDS CallSitesAll

====
