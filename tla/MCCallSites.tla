---------------------------- MODULE MCCallSites ----------------------------
(***************************************************************************)
(* CallSites for TLC.  The constants are given in the .cfg files.          *)
(***************************************************************************)
EXTENDS CallSites

====
