---------------------------- MODULE MCNameIndex ----------------------------
(* Names of up to five entries over two NIDs, searched for either of them *)
(* and for a third NID no entry carries.                                   *)
EXTENDS NameIndex

CONSTANTS CN, O, OU

MCNids == {CN, O}
MCQueryNids == {CN, O, OU}
MCKnownNids == {CN, O, OU}

=============================================================================
