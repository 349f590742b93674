---------------------------- MODULE MCHsmEngine ----------------------------
(***************************************************************************)
(* Model-checking instance of HsmEngine: model values for the pointers    *)
(* and small bounds, given in the .cfg files.                              *)
(***************************************************************************)
EXTENDS HsmEngine

=============================================================================
