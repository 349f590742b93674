--------------------------- MODULE MCSerialNumber ---------------------------
(* The serial-number wrappers with a 4-bit long and 2-bit bytes, and       *)
(* parsed certificates whose serials fall on both sides of every bound.    *)
EXTENDS SerialNumber

MCCertSerials == {-5, -1, 0, 3, 7, 8, 19}

=============================================================================
