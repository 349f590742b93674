---------------------------- MODULE HsmSession ----------------------------
(***************************************************************************)
(* What an engine-backed HSM object promises its owner (spec.md 4.4): the  *)
(* constructor takes it from Uninitialized to Ready in one atomic step or  *)
(* fails and leaves it never Ready; only a Ready object loads keys; the    *)
(* destructor takes it from Ready to Terminated and releases the engine    *)
(* handle, unconditionally.  An object that is never Ready or Terminated   *)
(* holds no engine handle.  Objects are created one after another, at      *)
(* most MaxSessions of them.                                               *)
(***************************************************************************)
EXTENDS Naturals

CONSTANTS
  MaxSessions,   \* how many objects are created over the run
  MaxKeyLoads    \* how many key loads one Ready object serves

VARIABLES
  session,       \* life-cycle state of the current object
  handles,       \* engine handles the current object holds (0 or 1)
  keyLoads,      \* key loads served by the current object
  sessions       \* objects created so far

vars == <<session, handles, keyLoads, sessions>>

States == {"none", "uninitialized", "ready", "terminated", "never_ready"}

\* States in which no object is alive.
Gone == {"none", "terminated", "never_ready"}

TypeOK ==
  /\ session \in States
  /\ handles \in 0..1
  /\ keyLoads \in 0..MaxKeyLoads
  /\ sessions \in 0..MaxSessions

Init ==
  /\ session = "none"
  /\ handles = 0
  /\ keyLoads = 0
  /\ sessions = 0

Create ==
  /\ session \in Gone
  /\ sessions < MaxSessions
  /\ session' = "uninitialized"
  /\ sessions' = sessions + 1
  /\ keyLoads' = 0
  /\ UNCHANGED handles

ConstructOk ==
  /\ session = "uninitialized"
  /\ session' = "ready"
  /\ handles' = 1
  /\ UNCHANGED <<keyLoads, sessions>>

ConstructFail ==
  /\ session = "uninitialized"
  /\ session' = "never_ready"
  /\ handles' = 0
  /\ UNCHANGED <<keyLoads, sessions>>

LoadKey ==
  /\ session = "ready"
  /\ keyLoads < MaxKeyLoads
  /\ keyLoads' = keyLoads + 1
  /\ UNCHANGED <<session, handles, sessions>>

Destroy ==
  /\ session = "ready"
  /\ session' = "terminated"
  /\ handles' = 0
  /\ UNCHANGED <<keyLoads, sessions>>

Next ==
  \/ Create
  \/ ConstructOk
  \/ ConstructFail
  \/ LoadKey
  \/ Destroy

Spec == Init /\ [][Next]_vars

=============================================================================
