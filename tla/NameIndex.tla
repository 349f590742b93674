----------------------------- MODULE NameIndex -----------------------------
(***************************************************************************)
(* _X509_NAME_get_index_by_NID (openssl_wrap.cpp): the positions of all    *)
(* entries of an X509_NAME with a given NID, collected by calling          *)
(* X509_NAME_get_index_by_NID with lastpos -1 and then with the position   *)
(* it returned last, until it returns -1.                                  *)
(*                                                                         *)
(* An X509_NAME is the sequence of its entries' NIDs.  The loop's          *)
(* iterations are steps of their own so that its termination can be       *)
(* checked; nothing else runs meanwhile (one thread, no callbacks).        *)
(***************************************************************************)
EXTENDS Integers, Sequences, SequencesExt, FiniteSetsExt

CONSTANTS
  Nids,          \* NIDs the entries of a name carry
  QueryNids,     \* NIDs the client asks for
  KnownNids,     \* NIDs OBJ_nid2obj knows
  MaxNameLen     \* most entries a name has

ASSUME Nids \subseteq KnownNids /\ MaxNameLen \in Nat \ {0}

VARIABLES
  pc,        \* "idle", "loop" (in the while loop) or "done" (returned)
  name,      \* the X509_NAME searched, as its entries' NIDs
  nid,       \* the NID searched for
  rv,        \* the last return value of X509_NAME_get_index_by_NID
  result     \* the std::vector<int> built so far

vars == <<pc, name, nid, rv, result>>

Names == UNION {[1..n -> Nids] : n \in 0..MaxNameLen}
Positions == 0..(MaxNameLen - 1)

TypeOK ==
  /\ pc \in {"idle", "loop", "done"}
  /\ name \in Names
  /\ nid \in QueryNids
  /\ rv \in Positions \cup {-1, -2}
  /\ result \in BoundedSeq(Positions, MaxNameLen)

\* OpenSSL's X509_NAME_get_index_by_NID(name, nid, lastpos): -2 for a NID
\* OBJ_nid2obj does not know; otherwise the first position after lastpos
\* (a negative lastpos counts as -1) holding nid, or -1.
X509_NAME_get_index_by_NID(nm, n, lastpos) ==
  LET from == IF lastpos < 0 THEN 0 ELSE lastpos + 1
      hits == {i \in from..(Len(nm) - 1) : nm[i + 1] = n}
  IN  IF n \notin KnownNids THEN -2
      ELSE IF hits = {} THEN -1 ELSE Min(hits)

Init ==
  /\ pc = "idle"
  /\ name = <<>>
  /\ nid \in QueryNids
  /\ rv = -1
  /\ result = <<>>

\* The first call with lastpos 0 instead of -1.
CallFromZero(nm, n) ==
  /\ pc \in {"idle", "done"}
  /\ pc' = "loop"
  /\ name' = nm
  /\ nid' = n
  /\ rv' = X509_NAME_get_index_by_NID(nm, n, 0)
  /\ result' = <<>>

\* The client calls _X509_NAME_get_index_by_NID(name, nid): an empty
\* result, then the first call with lastpos -1.
Call(nm, n) ==
  /\ pc \in {"idle", "done"}
  /\ pc' = "loop"
  /\ name' = nm
  /\ nid' = n
  /\ rv' = X509_NAME_get_index_by_NID(nm, n, -1)
  /\ result' = <<>>

\* An iteration that calls again before pushing the value it had.
LoopStepSwapped ==
  /\ pc = "loop"
  /\ rv # -1
  /\ rv' = X509_NAME_get_index_by_NID(name, nid, rv)
  /\ result' = Append(result, rv')
  /\ UNCHANGED <<pc, name, nid>>

\* An iteration that passes -1 as lastpos every time (the vector stops
\* growing at MaxNameLen entries to keep the state space finite).
LoopStepFromStart ==
  /\ pc = "loop"
  /\ rv # -1
  /\ result' = IF Len(result) < MaxNameLen THEN Append(result, rv) ELSE result
  /\ rv' = X509_NAME_get_index_by_NID(name, nid, -1)
  /\ UNCHANGED <<pc, name, nid>>

\* One iteration of while (rv != -1): push rv, call again from rv.
LoopStep ==
  /\ pc = "loop"
  /\ rv # -1
  /\ result' = Append(result, rv)
  /\ rv' = X509_NAME_get_index_by_NID(name, nid, rv)
  /\ UNCHANGED <<pc, name, nid>>

\* rv == -1 ends the loop and the function returns result.
Return ==
  /\ pc = "loop"
  /\ rv = -1
  /\ pc' = "done"
  /\ UNCHANGED <<name, nid, rv, result>>

Next ==
  \/ \E nm \in Names, n \in QueryNids : Call(nm, n)
  \/ LoopStep
  \/ Return

\* The loop is straight-line code on the calling thread: once in it, it
\* keeps taking steps.
Fairness == WF_vars(LoopStep) /\ WF_vars(Return)

Spec == Init /\ [][Next]_vars /\ Fairness

(***************************************************************************)
(* Properties.                                                             *)
(***************************************************************************)

\* Reference: the positions of the entries holding n, in increasing order.
RefIndices(nm, n) == SetToSortSeq({i \in 0..(Len(nm) - 1) : nm[i + 1] = n}, <)

\* When _X509_NAME_get_index_by_NID returns, its vector lists every
\* position of an entry with the NID, each once, in increasing order; and
\* while it loops, what it has collected is a prefix of that list.
ResultIsReference ==
  /\ pc = "done" => result = RefIndices(name, nid)
  /\ pc = "loop" => IsPrefix(result, RefIndices(name, nid))

\* Every call of _X509_NAME_get_index_by_NID returns.
Terminates == pc = "loop" ~> pc = "done"

=============================================================================
