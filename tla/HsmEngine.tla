----------------------------- MODULE HsmEngine -----------------------------
(***************************************************************************)
(* The engine-backed HSM (class HsmEngine, hsm.h) over the ENGINE wrappers *)
(* of openssl_wrap.cpp and the checked-call layer.                         *)
(*                                                                         *)
(* A client thread creates HsmEngine objects one after another.  The       *)
(* constructor runs _ENGINE_by_id, _ENGINE_ctrl_cmd_string("MODULE_PATH"), *)
(* _ENGINE_ctrl_cmd_string("PIN") and _ENGINE_init, each a checked call    *)
(* that throws OpenSSLException on failure; when it throws, the members    *)
(* already built are destroyed, so an _engine that holds an ENGINE frees   *)
(* it (ENGINE_free).  A constructed object serves loadPublicKey and        *)
(* loadPrivateKey; its destructor calls _ENGINE_finish, and then the       *)
(* members are destroyed in the reverse of their declaration order: the    *)
(* strings _pin, _modulePath and _id first, the _engine member, which      *)
(* frees the ENGINE, last.  The destructor is implicitly noexcept (~HSM()  *)
(* is defaulted), so an exception out of it is std::terminate.             *)
(*                                                                         *)
(* The native ENGINE is abstracted to the references this program holds   *)
(* on it: structural (ENGINE_by_id +1, ENGINE_free -1) and functional      *)
(* (ENGINE_init +1 functional and +1 structural, ENGINE_finish the         *)
(* reverse; a failing ENGINE_finish has already dropped the functional     *)
(* reference but keeps the structural one, as engine_unlocked_finish       *)
(* does).  Every native call gets a tag 1, 2, ... so that the error-queue  *)
(* entries it pushes can be traced back to it.                             *)
(***************************************************************************)
EXTENDS Naturals, Sequences, CheckedCall

CONSTANTS
  Engine,         \* the ENGINE* that ENGINE_by_id returns
  Key,            \* an EVP_PKEY* that ENGINE_load_*_key returns
  MaxPush,        \* most error-queue entries one failing native call pushes
  MaxSessions,    \* HsmEngine objects created over the run
  MaxKeyLoads,    \* key loads issued on one constructed object
  FinishMayFail   \* whether ENGINE_finish may return 0

ASSUME
  /\ {Engine, Key, Null} \cap Nat = {}
  /\ MaxPush \in Nat \ {0}
  /\ MaxSessions \in Nat \ {0}
  /\ MaxKeyLoads \in Nat
  /\ FinishMayFail \in BOOLEAN

VARIABLES
  pc,          \* where the current object is in its life
  enginePtr,   \* HsmEngine::_engine (SSL_ENGINE_Ptr): Null or Engine
  structRef,   \* structural references the program holds on the ENGINE
  functRef,    \* functional references the program holds on the ENGINE
  keyLoads,    \* key loads issued on the current object
  sessions,    \* objects created so far
  errq,        \* the thread's OpenSSL error queue (tags of pushing calls)
  ncalls,      \* native calls issued so far; the next call's tag is ncalls+1
  lastExc      \* last OpenSSLException: failing call's tag, reported tag

vars == <<pc, enginePtr, structRef, functRef, keyLoads, sessions,
          errq, ncalls, lastExc>>

\* Constructor steps: the object is being built.
CtorSteps == {"by_id", "module_path", "pin", "init"}

\* Destructor body done; the string members, then _engine, are destroyed.
MemberDtorSteps == {"finished", "strings_released"}

\* No object is alive.
Ended == {"idle", "destroyed", "ctor_failed"}

MaxCalls == MaxSessions * (5 + MaxKeyLoads)

TypeOK ==
  /\ pc \in CtorSteps \cup Ended \cup MemberDtorSteps \cup {"ready", "aborted"}
  /\ enginePtr \in {Null, Engine}
  /\ structRef \in 0..2
  /\ functRef \in 0..1
  /\ keyLoads \in 0..MaxKeyLoads
  /\ sessions \in 0..MaxSessions
  /\ errq \in Seq(1..MaxCalls)
  /\ ncalls \in 0..MaxCalls
  /\ lastExc \in [call : 0..MaxCalls, reported : 0..MaxCalls]

Init ==
  /\ pc = "idle"
  /\ enginePtr = Null
  /\ structRef = 0
  /\ functRef = 0
  /\ keyLoads = 0
  /\ sessions = 0
  /\ errq = <<>>
  /\ ncalls = 0
  /\ lastExc = [call |-> 0, reported |-> 0]

(***************************************************************************)
(* The checked call with tag c succeeded, or failed: the native call       *)
(* pushed n entries, OpenSSLExceptionErrorPolicy::handleError threw, and   *)
(* generateOpenSSLErrorString read one entry into the message.             *)
(***************************************************************************)
CallOk == UNCHANGED <<errq, lastExc>>

CallThrows(c) ==
  \E n \in 1..MaxPush :
    LET q == errq \o Pushed(c, n) IN
    /\ errq' = ErrQueueAfterGet(q)
    /\ lastExc' = [call |-> c, reported |-> ERR_get_error(q)]

NextTag == ncalls + 1

IssueCall == ncalls' = ncalls + 1

(***************************************************************************)
(* The constructor throws: the members are destroyed; an _engine holding   *)
(* the ENGINE frees it.                                                    *)
(***************************************************************************)
CtorThrowsFreeingTwice ==
  /\ pc' = "ctor_failed"
  /\ enginePtr' = Null
  /\ structRef' = structRef - 2

CtorThrows ==
  /\ pc' = "ctor_failed"
  /\ enginePtr' = Null
  /\ structRef' = IF enginePtr = Null THEN structRef ELSE structRef - 1

\* The client constructs HsmEngine(id, modulePath, pin).
Create ==
  /\ pc \in Ended
  /\ sessions < MaxSessions
  /\ pc' = "by_id"
  /\ sessions' = sessions + 1
  /\ keyLoads' = 0
  /\ UNCHANGED <<enginePtr, structRef, functRef, errq, ncalls, lastExc>>

\* _engine = _ENGINE_by_id(_id): OpensslCallPtr on ENGINE_by_id.
ByIdStepUnowned ==
  /\ pc = "by_id"
  /\ IssueCall
  /\ \E rv \in {Engine, Null} :
       \/ /\ ReturnValueIsOk("Ptr", rv)
          /\ structRef' = structRef + 1
          /\ pc' = "module_path"
          /\ UNCHANGED enginePtr
          /\ CallOk
       \/ /\ ~ReturnValueIsOk("Ptr", rv)
          /\ CtorThrows
          /\ CallThrows(NextTag)
  /\ UNCHANGED <<functRef, keyLoads, sessions>>

ByIdStep ==
  /\ pc = "by_id"
  /\ IssueCall
  /\ \E rv \in {Engine, Null} :
       \/ /\ ReturnValueIsOk("Ptr", rv)
          /\ enginePtr' = rv
          /\ structRef' = structRef + 1
          /\ pc' = "module_path"
          /\ CallOk
       \/ /\ ~ReturnValueIsOk("Ptr", rv)
          /\ CtorThrows
          /\ CallThrows(NextTag)
  /\ UNCHANGED <<functRef, keyLoads, sessions>>

\* _ENGINE_ctrl_cmd_string(_engine.get(), cmd, arg): OpensslCallIsOne,
\* non-optional command; "MODULE_PATH" then "PIN".
CtrlCmdStep ==
  /\ pc \in {"module_path", "pin"}
  /\ IssueCall
  /\ \E rv \in {0, 1} :
       \/ /\ ReturnValueIsOk("IsOne", rv)
          /\ pc' = IF pc = "module_path" THEN "pin" ELSE "init"
          /\ UNCHANGED <<enginePtr, structRef>>
          /\ CallOk
       \/ /\ ~ReturnValueIsOk("IsOne", rv)
          /\ CtorThrows
          /\ CallThrows(NextTag)
  /\ UNCHANGED <<functRef, keyLoads, sessions>>

\* _ENGINE_init(_engine.get()): OpensslCallIsOne on ENGINE_init.
InitStep ==
  /\ pc = "init"
  /\ IssueCall
  /\ \E rv \in {0, 1} :
       \/ /\ ReturnValueIsOk("IsOne", rv)
          /\ functRef' = functRef + 1
          /\ structRef' = structRef + 1
          /\ pc' = "ready"
          /\ UNCHANGED enginePtr
          /\ CallOk
       \/ /\ ~ReturnValueIsOk("IsOne", rv)
          /\ CtorThrows
          /\ UNCHANGED functRef
          /\ CallThrows(NextTag)
  /\ UNCHANGED <<keyLoads, sessions>>

(***************************************************************************)
(* _ENGINE_load_{public,private}_key(_engine.get(), keyID): OpensslCallPtr *)
(* with null UI method and callback data; the EVP_PKEY is wrapped in an    *)
(* SSL_EVP_PKEY_Ptr owned by the caller.  A failed load throws to the      *)
(* caller and leaves the object as it was.                                 *)
(***************************************************************************)
EngineLoadKeyBeforeInit ==
  /\ pc \in {"init", "ready"}
  /\ keyLoads < MaxKeyLoads
  /\ keyLoads' = keyLoads + 1
  /\ IssueCall
  /\ \E rv \in {Key, Null} :
       \/ ReturnValueIsOk("Ptr", rv) /\ CallOk
       \/ ~ReturnValueIsOk("Ptr", rv) /\ CallThrows(NextTag)
  /\ UNCHANGED <<pc, enginePtr, structRef, functRef, sessions>>

EngineLoadKey ==
  /\ pc = "ready"
  /\ keyLoads < MaxKeyLoads
  /\ keyLoads' = keyLoads + 1
  /\ IssueCall
  /\ \E rv \in {Key, Null} :
       \/ ReturnValueIsOk("Ptr", rv) /\ CallOk
       \/ ~ReturnValueIsOk("Ptr", rv) /\ CallThrows(NextTag)
  /\ UNCHANGED <<pc, enginePtr, structRef, functRef, sessions>>

LoadPublicKey == EngineLoadKey

LoadPrivateKey == EngineLoadKey

(***************************************************************************)
(* ~HsmEngine(): _ENGINE_finish(_engine.get()) (OpensslCallIsOne), which  *)
(* drops the functional reference and the structural one ENGINE_init      *)
(* took.  If ENGINE_finish returns 0 the exception leaves a noexcept       *)
(* destructor: std::terminate, and the program ends holding the            *)
(* structural references.                                                  *)
(***************************************************************************)
Destroy ==
  /\ pc = "ready"
  /\ IssueCall
  /\ functRef' = functRef - 1
  /\ \E rv \in IF FinishMayFail THEN {0, 1} ELSE {1} :
       \/ /\ ReturnValueIsOk("IsOne", rv)
          /\ structRef' = structRef - 1
          /\ pc' = "finished"
          /\ UNCHANGED enginePtr
          /\ CallOk
       \/ /\ ~ReturnValueIsOk("IsOne", rv)
          /\ pc' = "aborted"
          /\ UNCHANGED <<structRef, enginePtr>>
          /\ CallThrows(NextTag)
  /\ UNCHANGED <<keyLoads, sessions>>

\* After the destructor body: ~basic_string of _pin, _modulePath and _id,
\* declared after _engine and so destroyed before it.
StringMembersDtor ==
  /\ pc = "finished"
  /\ pc' = "strings_released"
  /\ UNCHANGED <<enginePtr, structRef, functRef, keyLoads, sessions,
                 errq, ncalls, lastExc>>

\* Last, the _engine member (SSL_ENGINE_Ptr) calls ENGINE_free if not null.
EngineMemberDtor ==
  /\ pc = "strings_released"
  /\ pc' = "destroyed"
  /\ enginePtr' = Null
  /\ structRef' = IF enginePtr = Null THEN structRef ELSE structRef - 1
  /\ UNCHANGED <<functRef, keyLoads, sessions, errq, ncalls, lastExc>>

\* The program has created its last object, or was terminated.
Done ==
  /\ \/ pc \in Ended /\ sessions = MaxSessions
     \/ pc = "aborted"
  /\ UNCHANGED vars

Next ==
  \/ Create
  \/ ByIdStep
  \/ CtrlCmdStep
  \/ InitStep
  \/ LoadPublicKey
  \/ LoadPrivateKey
  \/ Destroy
  \/ StringMembersDtor
  \/ EngineMemberDtor
  \/ Done

Spec == Init /\ [][Next]_vars

-----------------------------------------------------------------------------
(***************************************************************************)
(* Properties.                                                             *)
(***************************************************************************)

(* No engine leak: once an object's life is over, whether its constructor *)
(* threw at any of its four steps or its destructor ran, the program      *)
(* holds no structural and no functional reference on the ENGINE; that is *)
(* every ENGINE_by_id is matched by exactly one ENGINE_free and every     *)
(* successful ENGINE_init by one ENGINE_finish (spec.md section 8).       *)
NoEngineLeak ==
  pc \in Ended => structRef = 0 /\ functRef = 0

(* The identifying strings outlive the teardown (spec.md section 3): once  *)
(* an object has been Ready, the storage of _id, _modulePath and _pin is   *)
(* released only after ENGINE_finish and ENGINE_free have dropped every    *)
(* reference the program held on the ENGINE, since the engine was handed   *)
(* their c_str() pointers.  The strings die in the member destruction of   *)
(* ~HsmEngine, or with the whole process when it is terminated.            *)
TeardownBeforeStringsReleased ==
  pc \in {"strings_released", "aborted"} => structRef = 0 /\ functRef = 0

(***************************************************************************)
(* Refinement: HsmEngine implements the HsmSession life cycle.  The        *)
(* constructor steps are Uninitialized; the object holds an engine handle  *)
(* when, outside the constructor, _engine is not null.                     *)
(***************************************************************************)
AbstractState ==
  CASE pc = "idle"                       -> "none"
    [] pc \in CtorSteps                  -> "uninitialized"
    [] pc \in {"ready"} \cup MemberDtorSteps -> "ready"
    [] pc \in {"destroyed", "aborted"}   -> "terminated"
    [] pc = "ctor_failed"                -> "never_ready"

Session == INSTANCE HsmSession
  WITH session <- AbstractState,
       handles <- IF pc \in CtorSteps \/ enginePtr = Null THEN 0 ELSE 1

(* The object follows the life cycle spec.md 4.4 promises: construction   *)
(* is all-or-nothing, keys are loaded only from a Ready object, and       *)
(* destruction of a Ready object ends with the engine handle released.    *)
SessionSpec == Session!Spec

=============================================================================
