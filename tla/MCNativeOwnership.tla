-------------------------- MODULE MCNativeOwnership --------------------------
(* Five wrapper calls in a row, with buffers of at most three bytes.      *)
EXTENDS NativeOwnership
=============================================================================
