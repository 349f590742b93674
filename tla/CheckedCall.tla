---------------------------- MODULE CheckedCall ----------------------------
(***************************************************************************)
(* The checked-call layer of openssl_wrap.cpp: the four return-check       *)
(* policies, the error policy that throws OpenSSLException, and the        *)
(* OpenSSL error queue that the exception's message is read from.          *)
(*                                                                         *)
(* The error queue is OpenSSL's per-thread FIFO of error codes.  A failing *)
(* native call appends one or more entries; ERR_get_error returns the      *)
(* OLDEST entry and removes it, and returns 0 on an empty queue.  An entry *)
(* is abstracted to the tag of the native call that pushed it, so a        *)
(* report can be traced back to the call it came from; 0 is "no error".    *)
(***************************************************************************)
EXTENDS Naturals, Sequences

CONSTANT Null   \* the null pointer a pointer-returning native call fails with

\* OpenSSLIsOneReturnCheckPolicy::returnValueIsOk
IsOneOk(rv) == rv = 1

\* OpenSSLPositiveReturnCheckPolicy::returnValueIsOk
PositiveOk(rv) == rv > 0

\* OpenSSLNonNegativeReturnCheckPolicy::returnValueIsOk
NonNegativeOk(rv) == rv >= 0

\* cppc::IsNotNullptrReturnCheckPolicy, used by OpensslCallPtr
NotNullOk(rv) == rv # Null

\* The CallCheckContext aliases: each call site selects one policy.
Policies == {"IsOne", "IsPositive", "IsNonNegative", "Ptr"}

ReturnValueIsOk(policy, rv) ==
  CASE policy = "IsOne"         -> IsOneOk(rv)
    [] policy = "IsPositive"    -> PositiveOk(rv)
    [] policy = "IsNonNegative" -> NonNegativeOk(rv)
    [] policy = "Ptr"           -> NotNullOk(rv)

\* ERR_get_error: the code generateOpenSSLErrorString puts in the message.
NoErrorCode == 0

ERR_get_error(q) == IF q = <<>> THEN NoErrorCode ELSE Head(q)

\* The queue after generateOpenSSLErrorString has read one entry.
ErrQueueAfterGet(q) == IF q = <<>> THEN q ELSE Tail(q)

\* The entries a failing native call with tag c appends: n of them.
Pushed(c, n) == [i \in 1..n |-> c]

=============================================================================
