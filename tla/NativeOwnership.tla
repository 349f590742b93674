--------------------------- MODULE NativeOwnership ---------------------------
(***************************************************************************)
(* Ownership of native memory in the wrappers of openssl_wrap.cpp.         *)
(*                                                                         *)
(* Output buffers: the caller-sized wrappers (_HMAC_Final, _CMAC_Final,    *)
(* _BIO_read, _EVP_derive_key) size a std::vector, let the call fill it    *)
(* and report a length, and return the vector; the OpenSSL-allocated ones *)
(* (_i2d_ECDSA_SIG with OpenSSLGuardedOutputBuffer, _EC_KEY_key2buf with   *)
(* an explicit OPENSSL_free) copy the buffer into a vector and free it.    *)
(*                                                                         *)
(* Reference-counted objects: EVP_PKEY, EC_KEY and EVP_PKEY_CTX handles   *)
(* that the wrappers create and hand to the caller in SSL_*_Ptr holders,   *)
(* that other objects keep references to (a key's EC_KEY after            *)
(* EVP_PKEY_set1_EC_KEY, a context's key), and that get0 accessors lend    *)
(* without a reference.  The caller may drop any holder at any time.       *)
(*                                                                         *)
(* Each wrapper is one atomic step of the calling thread.  Bytes are       *)
(* abstracted to counts.  An OpenSSL-allocated buffer is an object of     *)
(* kind "buffer"; one the wrapper frees is left freed (rc 0), so that a   *)
(* wrapper that fails to free it is seen.  Constructing a std::vector may throw         *)
(* bad_alloc when VectorAllocMayFail holds.  A holder moved into a wrapper *)
(* may be empty when EmptyHolderArgs holds.  Sizes are scaled.             *)
(***************************************************************************)
EXTENDS Integers, FiniteSets, Sequences, CheckedCall
LOCAL INSTANCE Functions

CONSTANTS
  EVP_MAX_MD_SIZE,     \* capacity _HMAC_Final gives HMAC_Final
  EVP_MAX_BLOCK_LENGTH,\* capacity _CMAC_Final gives CMAC_Final
  MaxSecret,           \* largest size EVP_PKEY_derive reports
  MaxDer,              \* largest encoding OpenSSL allocates
  MaxRead,             \* largest numBytes passed to _BIO_read
  IntMax,              \* std::numeric_limits<int>::max()
  DeriveWritesLess,    \* whether EVP_PKEY_derive may write fewer bytes than it sized
  VectorAllocMayFail,  \* whether std::vector construction may throw bad_alloc
  MaxCalls,            \* wrapper calls over the run
  MaxHandles,          \* native objects created over the run
  GenLeavesKeyOnFailure, \* whether a failing EVP_PKEY_keygen/paramgen may leave *ppkey set
  EmptyHolderArgs,     \* whether the caller may move an empty SSL_BIGNUM_Ptr into a wrapper
  None, Throw

ASSUME
  /\ {EVP_MAX_MD_SIZE, EVP_MAX_BLOCK_LENGTH, MaxSecret, MaxDer, MaxRead, IntMax, MaxCalls,
      MaxHandles}
       \subseteq Nat \ {0}
  /\ DeriveWritesLess \in BOOLEAN /\ VectorAllocMayFail \in BOOLEAN
  /\ GenLeavesKeyOnFailure \in BOOLEAN /\ EmptyHolderArgs \in BOOLEAN

VARIABLES
  last,     \* the last wrapper call: [op, written, returned]
  ncalls,   \* wrapper calls so far
  obj       \* handle -> [kind, rc: OpenSSL reference count (0: freed),
            \*   refs: the handles it keeps a reference to, held: the
            \*   caller's SSL_*_Ptr holders of it]

vars == <<last, ncalls, obj>>

Ops == {"HMAC_Final", "CMAC_Final", "EVP_derive_key", "BIO_read", "i2d_ECDSA_SIG", "EC_KEY_key2buf",
        "EVP_PKEY_new", "EVP_PKEY_CTX_new", "EVP_PKEY_CTX_new_id", "EVP_PKEY_keygen",
        "EVP_PKEY_paramgen", "EC_KEY_oct2key", "EVP_PKEY_set1_EC_KEY", "BN_bin2bn",
        "ECDSA_SIG_new", "ECDSA_SIG_set0", "createOpenSSLObject", "X509_STORE_add_cert",
        "addObjectToStack", "X509_STORE_CTX_init"}
Handles == 1..MaxHandles
\* The verification objects createOpenSSLObject<T> makes for the caller.
VerifyKinds == {"X509", "X509_STORE", "X509_STORE_CTX", "STACK_OF_X509"}
Kinds == {"EVP_PKEY", "EC_KEY", "EVP_PKEY_CTX", "BIGNUM", "ECDSA_SIG", "buffer"} \cup VerifyKinds
Sizes == 0..(EVP_MAX_MD_SIZE + EVP_MAX_BLOCK_LENGTH + MaxSecret + MaxDer + MaxRead)

VectorAllocFails == IF VectorAllocMayFail THEN BOOLEAN ELSE {FALSE}

TypeOK ==
  /\ last \in [op : Ops \cup {None}, written : Sizes \cup {None},
               returned : Sizes \cup {None, Throw}]
  /\ ncalls \in 0..MaxCalls
  /\ obj \in [Handles -> [kind : Kinds \cup {None}, rc : 0..MaxHandles,
                          refs : Seq(Handles), held : 0..1]]

Init ==
  /\ last = [op |-> None, written |-> None, returned |-> None]
  /\ ncalls = 0
  /\ obj = [h \in Handles |-> [kind |-> None, rc |-> 0, refs |-> <<>>, held |-> 0]]

\* The wrapper op returned a vector of ret bytes (or threw: ret = Throw)
\* after the native call wrote w bytes (None: it wrote nothing usable).
Called(op, w, ret) ==
  /\ last' = [op |-> op, written |-> w, returned |-> ret]
  /\ ncalls' = ncalls + 1

CanCall == ncalls < MaxCalls

\* A wrapper that creates or changes native objects returned (ok) or threw.
CalledHandle(op, ok) == Called(op, None, IF ok THEN None ELSE Throw)

(***************************************************************************)
(* Reference-counted native objects.                                       *)
(***************************************************************************)

Unallocated == {h \in Handles : obj[h].kind = None}
HeldOf(k) == {h \in Handles : obj[h].held > 0 /\ obj[h].kind = k}

\* The next object OpenSSL allocates, and the one after it.
NewHandle == CHOOSE h \in Unallocated : \A g \in Unallocated : h <= g
NextHandle == CHOOSE h \in Unallocated \ {NewHandle} :
                \A g \in Unallocated \ {NewHandle} : h <= g

\* A new object with one reference, kept by a holder of the caller
\* (Created) or by another object (Internal).
Created(k, r) == [kind |-> k, rc |-> 1, refs |-> r, held |-> 1]
Internal(k) == [kind |-> k, rc |-> 1, refs |-> <<>>, held |-> 0]

\* *_up_ref: one more reference to h.
UpRef(o, h) == [o EXCEPT ![h].rc = @ + 1]

\* *_free of every handle in todo: a count that reaches 0 frees the object,
\* which drops the references it keeps in turn.
RECURSIVE Unref(_, _)
Unref(o, todo) ==
  IF todo = <<>> THEN o
  ELSE LET h == Head(todo) IN
       IF o[h].rc = 1 THEN Unref([o EXCEPT ![h].rc = 0], Tail(todo) \o o[h].refs)
       ELSE Unref([o EXCEPT ![h].rc = @ - 1], Tail(todo))

\* The destructor of one SSL_*_Ptr holder of h (its deleter is *_free).
DropHolder(o, h) == Unref([o EXCEPT ![h].held = @ - 1], <<h>>)

\* The EC_KEY a key refers to, as EVP_PKEY_get0_EC_KEY returns it (no
\* reference is taken); Null for a key without one.
Get0EcKey(p) == IF obj[p].refs = <<>> THEN Null ELSE obj[p].refs[1]

\* The owners of h: the caller's holders and the live objects that keep a
\* reference to it (a context may keep two references to one key).
Owners(h) ==
  obj[h].held +
  SumFunctionOnSet([g \in Handles |-> Cardinality({i \in DOMAIN obj[g].refs : obj[g].refs[i] = h})],
                   {g \in Handles : obj[g].rc > 0})

(***************************************************************************)
(* Caller-sized buffers.                                                   *)
(***************************************************************************)

\* _HMAC_Final without md.resize(length).
HMAC_FinalNoResize ==
  /\ CanCall
  /\ \E rc \in {0, 1}, w \in 1..EVP_MAX_MD_SIZE :
       Called("HMAC_Final", IF rc = 1 THEN w ELSE None,
              IF ReturnValueIsOk("IsOne", rc) THEN EVP_MAX_MD_SIZE ELSE Throw)
  /\ UNCHANGED obj

\* _HMAC_Final: md of EVP_MAX_MD_SIZE bytes, checked HMAC_Final writes the
\* digest and its length, md.resize(length).
HMAC_Final ==
  /\ CanCall
  /\ \E rc \in {0, 1}, w \in 1..EVP_MAX_MD_SIZE :
       Called("HMAC_Final", IF rc = 1 THEN w ELSE None,
              IF ReturnValueIsOk("IsOne", rc) THEN w ELSE Throw)
  /\ UNCHANGED obj

\* _CMAC_Final: cmac of EVP_MAX_BLOCK_LENGTH bytes, checked CMAC_Final,
\* assert(length <= cmac.size()), cmac.resize(length).
CMAC_Final ==
  /\ CanCall
  /\ \E rc \in {0, 1}, w \in 1..EVP_MAX_BLOCK_LENGTH :
       Called("CMAC_Final", IF rc = 1 THEN w ELSE None,
              IF ReturnValueIsOk("IsOne", rc) /\ w <= EVP_MAX_BLOCK_LENGTH THEN w ELSE Throw)
  /\ UNCHANGED obj

\* The context of _EVP_derive_key in its SSL_EVP_PKEY_CTX_Ptr: a reference
\* to key (ecdh_), and to peerkey once derive_set_peer has taken one.
DeriveCtx(key, peer, peerSet) ==
  LET withKey == [UpRef(obj, key) EXCEPT ![NewHandle] = Created("EVP_PKEY_CTX", <<key>>)]
  IN  IF peerSet THEN [UpRef(withKey, peer) EXCEPT ![NewHandle].refs = <<key, peer>>]
      ELSE withKey

\* _EVP_derive_key with the context in a raw pointer freed before the
\* return only: a throw after EVP_PKEY_CTX_new leaves it allocated.
DeriveCtxFreedLeaking(c, ok) ==
  IF ok THEN DropHolder(c, NewHandle) ELSE [c EXCEPT ![NewHandle].held = 0]

\* The SSL_EVP_PKEY_CTX_Ptr frees the context on every path, and with it
\* the context's references to key and peerkey.
DeriveCtxFreed(c, ok) == DropHolder(c, NewHandle)

\* _EVP_derive_key(peerkey, key): checked EVP_PKEY_CTX_new(key) in an
\* SSL_EVP_PKEY_CTX_Ptr, checked derive_init and derive_set_peer(peerkey),
\* checked EVP_PKEY_derive(ctx, nullptr, &secret_len) reports the size q,
\* result(secret_len), checked EVP_PKEY_derive writes w <= q bytes and
\* stores w in secret_len; result is returned as sized.
EVP_derive_key ==
  /\ CanCall
  /\ \E peer, key \in HeldOf("EVP_PKEY"), ctx \in {"ctx", Null},
        rcInit, rcPeer, rcSize, rcDerive \in {0, 1}, q \in 1..MaxSecret :
     \E w \in (IF DeriveWritesLess THEN 1..q ELSE {q}) :
       LET made == ReturnValueIsOk("Ptr", ctx)
           peerSet == ReturnValueIsOk("IsOne", rcInit) /\ ReturnValueIsOk("IsOne", rcPeer)
           ok == made /\ peerSet /\ ReturnValueIsOk("IsOne", rcSize)
                 /\ ReturnValueIsOk("IsOne", rcDerive)
       IN /\ made => Unallocated # {}
          /\ Called("EVP_derive_key", IF ok THEN w ELSE None, IF ok THEN q ELSE Throw)
          /\ obj' = IF made THEN DeriveCtxFreed(DeriveCtx(key, peer, peerSet), ok) ELSE obj

\* _BIO_read(bio, buf, numBytes): numBytes above INT_MAX throws; buf is
\* resized to numBytes, BIO_read returns rv: -2 throws, a positive rv
\* truncates buf to rv, anything else empties it.
BIO_read ==
  /\ CanCall
  /\ \E numBytes \in 0..MaxRead :
       \/ /\ numBytes > IntMax
          /\ Called("BIO_read", None, Throw)
       \/ /\ numBytes <= IntMax
          /\ \E rv \in {-2, -1, 0} \cup 1..numBytes :
               Called("BIO_read", IF rv > 0 THEN rv ELSE 0,
                      IF rv = -2 THEN Throw ELSE IF rv > 0 THEN rv ELSE 0)
  /\ UNCHANGED obj

(***************************************************************************)
(* OpenSSL-allocated buffers.                                              *)
(***************************************************************************)

\* An output buffer OpenSSL allocated for the wrapper: one reference, held
\* in a raw pointer or a guard of the wrapper, so no owner once it returns.
NewBuffer == [obj EXCEPT ![NewHandle] = Internal("buffer")]

\* _i2d_ECDSA_SIG freeing the buffer itself before the guard does.
i2d_ECDSA_SIGFreeTwice ==
  /\ CanCall
  /\ \E result \in {-1, 0} \cup 1..MaxDer, badAlloc \in VectorAllocFails :
       \/ /\ result <= 0
          /\ Called("i2d_ECDSA_SIG", None, Throw)
          /\ UNCHANGED obj
       \/ /\ result > 0
          /\ Unallocated # {}
          /\ Called("i2d_ECDSA_SIG", result, IF badAlloc THEN Throw ELSE result)
          /\ obj' = LET once == Unref(NewBuffer, <<NewHandle>>) IN
                    IF badAlloc THEN once ELSE Unref(once, <<NewHandle>>)

\* _i2d_ECDSA_SIG with a raw output pointer that is never freed.
i2d_ECDSA_SIGNoFree ==
  /\ CanCall
  /\ \E result \in {-1, 0} \cup 1..MaxDer, badAlloc \in VectorAllocFails :
       \/ /\ result <= 0
          /\ Called("i2d_ECDSA_SIG", None, Throw)
          /\ UNCHANGED obj
       \/ /\ result > 0
          /\ Unallocated # {}
          /\ Called("i2d_ECDSA_SIG", result, IF badAlloc THEN Throw ELSE result)
          /\ obj' = NewBuffer

\* _i2d_ECDSA_SIG: i2d_ECDSA_SIG allocates the encoding into the guard's
\* pointer and returns its length, or fails (<= 0) without a buffer; a
\* failure throws.  (The "Returned no data" check cannot fire: OpenSSL
\* returns a positive length only with the buffer allocated.)  A vector is
\* copied from the buffer, which may throw bad_alloc; on either path the
\* guard's destructor frees the buffer.
i2d_ECDSA_SIG ==
  /\ CanCall
  /\ \E result \in {-1, 0} \cup 1..MaxDer, badAlloc \in VectorAllocFails :
       \/ /\ result <= 0
          /\ Called("i2d_ECDSA_SIG", None, Throw)
          /\ UNCHANGED obj
       \/ /\ result > 0
          /\ Unallocated # {}
          /\ Called("i2d_ECDSA_SIG", result, IF badAlloc THEN Throw ELSE result)
          /\ obj' = Unref(NewBuffer, <<NewHandle>>)

\* _EC_KEY_key2buf keeping the borrowed EC_KEY in an SSL_EC_KEY_Ptr, whose
\* destructor frees a reference the wrapper never took.
EC_KEY_key2bufOwnedGet0 ==
  /\ CanCall
  /\ \E evp \in HeldOf("EVP_PKEY"), length \in 0..MaxDer, badAlloc \in VectorAllocFails :
     LET key == Get0EcKey(evp) IN
       \/ /\ ~ReturnValueIsOk("Ptr", key)
          /\ Called("EC_KEY_key2buf", None, Throw)
          /\ UNCHANGED obj
       \/ /\ ReturnValueIsOk("Ptr", key)
          /\ Called("EC_KEY_key2buf", IF length > 0 THEN length ELSE None,
                    IF length > 0 /\ ~badAlloc THEN length ELSE Throw)
          /\ obj' = Unref(obj, <<key>>)

\* _EC_KEY_key2buf(evp): checked EVP_PKEY_get0_EC_KEY lends the key's
\* EC_KEY (no reference), checked-positive EC_KEY_key2buf allocates pbuf and
\* returns its length, a vector is copied from pbuf, then OPENSSL_free(pbuf).
\* A bad_alloc while copying leaves before OPENSSL_free: pbuf stays allocated.
EC_KEY_key2buf ==
  /\ CanCall
  /\ \E evp \in HeldOf("EVP_PKEY"), length \in 0..MaxDer, badAlloc \in VectorAllocFails :
     LET key == Get0EcKey(evp) IN
       \/ /\ ~ReturnValueIsOk("Ptr", key)
          /\ Called("EC_KEY_key2buf", None, Throw)
          /\ UNCHANGED obj
       \/ /\ ReturnValueIsOk("Ptr", key)
          /\ ~ReturnValueIsOk("IsPositive", length)
          /\ Called("EC_KEY_key2buf", None, Throw)
          /\ UNCHANGED obj
       \/ /\ ReturnValueIsOk("Ptr", key)
          /\ ReturnValueIsOk("IsPositive", length)
          /\ badAlloc => Unallocated # {}
          /\ Called("EC_KEY_key2buf", length, IF badAlloc THEN Throw ELSE length)
          /\ obj' = IF badAlloc THEN NewBuffer ELSE obj

(***************************************************************************)
(* Key objects.  Every wrapper below passes pointers the caller's holders  *)
(* own (.get()) and hands new objects back in a holder.                    *)
(***************************************************************************)

\* _EVP_PKEY_new: checked EVP_PKEY_new in an SSL_EVP_PKEY_Ptr.
EVP_PKEY_new ==
  /\ CanCall
  /\ Unallocated # {}
  /\ \E pkey \in {"pkey", Null} :
       \/ /\ ReturnValueIsOk("Ptr", pkey)
          /\ CalledHandle("EVP_PKEY_new", TRUE)
          /\ obj' = [obj EXCEPT ![NewHandle] = Created("EVP_PKEY", <<>>)]
       \/ /\ ~ReturnValueIsOk("Ptr", pkey)
          /\ CalledHandle("EVP_PKEY_new", FALSE)
          /\ UNCHANGED obj

\* _EVP_PKEY_CTX_new(pkey): checked EVP_PKEY_CTX_new in an
\* SSL_EVP_PKEY_CTX_Ptr; the context keeps a reference to pkey.
EVP_PKEY_CTX_new ==
  /\ CanCall
  /\ Unallocated # {}
  /\ \E pkey \in HeldOf("EVP_PKEY"), ctx \in {"ctx", Null} :
       \/ /\ ReturnValueIsOk("Ptr", ctx)
          /\ CalledHandle("EVP_PKEY_CTX_new", TRUE)
          /\ obj' = [UpRef(obj, pkey) EXCEPT ![NewHandle] = Created("EVP_PKEY_CTX", <<pkey>>)]
       \/ /\ ~ReturnValueIsOk("Ptr", ctx)
          /\ CalledHandle("EVP_PKEY_CTX_new", FALSE)
          /\ UNCHANGED obj

\* _EVP_PKEY_CTX_new_id(id): checked EVP_PKEY_CTX_new_id in an
\* SSL_EVP_PKEY_CTX_Ptr; the context refers to no key.
EVP_PKEY_CTX_new_id ==
  /\ CanCall
  /\ Unallocated # {}
  /\ \E ctx \in {"ctx", Null} :
       \/ /\ ReturnValueIsOk("Ptr", ctx)
          /\ CalledHandle("EVP_PKEY_CTX_new_id", TRUE)
          /\ obj' = [obj EXCEPT ![NewHandle] = Created("EVP_PKEY_CTX", <<>>)]
       \/ /\ ~ReturnValueIsOk("Ptr", ctx)
          /\ CalledHandle("EVP_PKEY_CTX_new_id", FALSE)
          /\ UNCHANGED obj

\* Whether a failing EVP_PKEY_keygen/paramgen leaves a key in *ppkey.
PartialKey == IF GenLeavesKeyOnFailure THEN BOOLEAN ELSE {FALSE}

\* The key a failing generation left in ptr: one reference, no owner yet.
LeftKey == [obj EXCEPT ![NewHandle] = [kind |-> "EVP_PKEY", rc |-> 1, refs |-> <<>>, held |-> 0]]

\* A generated key in the caller's holder and the EC_KEY inside it.
GeneratedKey == [obj EXCEPT ![NewHandle] = Created("EVP_PKEY", <<NextHandle>>),
                            ![NextHandle] = Internal("EC_KEY")]

\* _EVP_PKEY_keygen(ctx): ptr = nullptr, checked EVP_PKEY_keygen(ctx, &ptr);
\* the catch frees a key the failing call left in ptr and rethrows;
\* otherwise ptr is returned in an SSL_EVP_PKEY_Ptr.
EVP_PKEY_keygen ==
  /\ CanCall
  /\ Cardinality(Unallocated) >= 2
  /\ \E ctx \in HeldOf("EVP_PKEY_CTX"), rv \in {1, 0, -2}, left \in PartialKey :
       \/ /\ ReturnValueIsOk("IsOne", rv)
          /\ CalledHandle("EVP_PKEY_keygen", TRUE)
          /\ obj' = GeneratedKey
       \/ /\ ~ReturnValueIsOk("IsOne", rv)
          /\ CalledHandle("EVP_PKEY_keygen", FALSE)
          /\ obj' = IF left THEN Unref(LeftKey, <<NewHandle>>) ELSE obj

\* _EVP_PKEY_paramgen(ctx): ptr = nullptr, checked EVP_PKEY_paramgen(ctx,
\* &ptr), ptr returned in an SSL_EVP_PKEY_Ptr.  No catch: a key the failing
\* call left in ptr is not freed.
EVP_PKEY_paramgen ==
  /\ CanCall
  /\ Cardinality(Unallocated) >= 2
  /\ \E ctx \in HeldOf("EVP_PKEY_CTX"), rv \in {1, 0, -2}, left \in PartialKey :
       \/ /\ ReturnValueIsOk("IsOne", rv)
          /\ CalledHandle("EVP_PKEY_paramgen", TRUE)
          /\ obj' = GeneratedKey
       \/ /\ ~ReturnValueIsOk("IsOne", rv)
          /\ CalledHandle("EVP_PKEY_paramgen", FALSE)
          /\ obj' = IF left THEN LeftKey ELSE obj

\* The EC_KEY of EC_KEY_new_by_curve_name in the wrapper's holder.
NewEcKey == [obj EXCEPT ![NewHandle] = Created("EC_KEY", <<>>)]

\* _EC_KEY_oct2key(nid, buf): checked EC_KEY_new_by_curve_name into the
\* SSL_EC_KEY_Ptr key, checked EC_KEY_oct2key(key.get(), ...), key
\* returned.  A failing oct2key throws, and the holder frees the key.
EC_KEY_oct2key ==
  /\ CanCall
  /\ Unallocated # {}
  /\ \E key \in {"ec_key", Null}, rv \in {1, 0} :
       \/ /\ ~ReturnValueIsOk("Ptr", key)
          /\ CalledHandle("EC_KEY_oct2key", FALSE)
          /\ UNCHANGED obj
       \/ /\ ReturnValueIsOk("Ptr", key)
          /\ ReturnValueIsOk("IsOne", rv)
          /\ CalledHandle("EC_KEY_oct2key", TRUE)
          /\ obj' = NewEcKey
       \/ /\ ReturnValueIsOk("Ptr", key)
          /\ ~ReturnValueIsOk("IsOne", rv)
          /\ CalledHandle("EC_KEY_oct2key", FALSE)
          /\ obj' = DropHolder(NewEcKey, NewHandle)

\* _EVP_PKEY_set1_EC_KEY(pkey, key): checked EVP_PKEY_set1_EC_KEY, which
\* drops pkey's old key and then takes a reference to key; the caller's
\* holder of key keeps its own.
EVP_PKEY_set1_EC_KEY ==
  /\ CanCall
  /\ \E pkey \in HeldOf("EVP_PKEY"), key \in HeldOf("EC_KEY"), rv \in {1, 0} :
       \/ /\ ReturnValueIsOk("IsOne", rv)
          /\ CalledHandle("EVP_PKEY_set1_EC_KEY", TRUE)
          /\ obj' = UpRef([Unref(obj, obj[pkey].refs) EXCEPT ![pkey].refs = <<key>>], key)
       \/ /\ ~ReturnValueIsOk("IsOne", rv)
          /\ CalledHandle("EVP_PKEY_set1_EC_KEY", FALSE)
          /\ UNCHANGED obj

\* _BN_bin2bn(data, dataLen): dataLen above INT_MAX throws; checked
\* BN_bin2bn in an SSL_BIGNUM_Ptr.
BN_bin2bn ==
  /\ CanCall
  /\ Unallocated # {}
  /\ \E dataLen \in 0..MaxRead, bn \in {"bignum", Null} :
       \/ /\ dataLen > IntMax
          /\ CalledHandle("BN_bin2bn", FALSE)
          /\ UNCHANGED obj
       \/ /\ dataLen <= IntMax
          /\ ReturnValueIsOk("Ptr", bn)
          /\ CalledHandle("BN_bin2bn", TRUE)
          /\ obj' = [obj EXCEPT ![NewHandle] = Created("BIGNUM", <<>>)]
       \/ /\ dataLen <= IntMax
          /\ ~ReturnValueIsOk("Ptr", bn)
          /\ CalledHandle("BN_bin2bn", FALSE)
          /\ UNCHANGED obj

\* createOpenSSLObject<ECDSA_SIG>: checked ECDSA_SIG_new, a signature
\* without r and s; the caller puts the raw pointer in its holder.
ECDSA_SIG_new ==
  /\ CanCall
  /\ Unallocated # {}
  /\ \E sig \in {"sig", Null} :
       \/ /\ ReturnValueIsOk("Ptr", sig)
          /\ CalledHandle("ECDSA_SIG_new", TRUE)
          /\ obj' = [obj EXCEPT ![NewHandle] = Created("ECDSA_SIG", <<>>)]
       \/ /\ ~ReturnValueIsOk("Ptr", sig)
          /\ CalledHandle("ECDSA_SIG_new", FALSE)
          /\ UNCHANGED obj

\* The BIGNUM holders the caller may move into a wrapper: its own, or an
\* empty one (Null).
BignumArgs == HeldOf("BIGNUM") \cup (IF EmptyHolderArgs THEN {Null} ELSE {})

\* The objects after the holders of hs (Null: empty) were released.
Released(o, hs) == [h \in Handles |-> IF h \in hs THEN [o[h] EXCEPT !.held = 0] ELSE o[h]]

\* _ECDSA_SIG_set0(sig, r, s): the holders r and s are moved in and
\* released, then checked ECDSA_SIG_set0 runs; it returns 0 for a null r or
\* s and then takes neither, else it frees sig's old r and s and keeps the
\* new ones.
ECDSA_SIG_set0 ==
  /\ CanCall
  /\ \E sig \in HeldOf("ECDSA_SIG"), r, s \in BignumArgs :
       LET ok == r # Null /\ s # Null IN
       /\ ok => r # s
       /\ CalledHandle("ECDSA_SIG_set0", ReturnValueIsOk("IsOne", IF ok THEN 1 ELSE 0))
       /\ obj' = IF ok THEN [Released(Unref(obj, obj[sig].refs), {r, s})
                               EXCEPT ![sig].refs = <<r, s>>]
                 ELSE Released(obj, {r, s})

(***************************************************************************)
(* Verification objects.  Their holders' deleters are the *_free functions *)
(* OpenSSLLib declares: X509_STORE_free drops the store's certificates,    *)
(* sk_X509_free frees the stack only (there is no pop_free), and           *)
(* X509_STORE_CTX_free the context only.                                   *)
(***************************************************************************)

\* createOpenSSLObject<T> for a verification object T: checked T_new (or
\* sk_T_new_null); the caller wraps the pointer in its holder.
createOpenSSLObject ==
  /\ CanCall
  /\ Unallocated # {}
  /\ \E k \in VerifyKinds, p \in {"object", Null} :
       \/ /\ ReturnValueIsOk("Ptr", p)
          /\ CalledHandle("createOpenSSLObject", TRUE)
          /\ obj' = [obj EXCEPT ![NewHandle] = Created(k, <<>>)]
       \/ /\ ~ReturnValueIsOk("Ptr", p)
          /\ CalledHandle("createOpenSSLObject", FALSE)
          /\ UNCHANGED obj

\* _X509_STORE_add_cert(store, cert): checked X509_STORE_add_cert, which
\* takes a reference to cert for the store, or returns 1 without one when
\* the store has cert already (OpenSSL 1.1.1).
X509_STORE_add_cert ==
  /\ CanCall
  /\ \E store \in HeldOf("X509_STORE"), cert \in HeldOf("X509"), rv \in {1, 0} :
       \/ /\ ReturnValueIsOk("IsOne", rv)
          /\ CalledHandle("X509_STORE_add_cert", TRUE)
          /\ obj' = IF cert \in Range(obj[store].refs) THEN obj
                    ELSE [UpRef(obj, cert) EXCEPT ![store].refs = Append(@, cert)]
       \/ /\ ~ReturnValueIsOk("IsOne", rv)
          /\ CalledHandle("X509_STORE_add_cert", FALSE)
          /\ UNCHANGED obj

\* addObjectToStack<STACK_OF(X509), X509> taking a reference to the
\* certificate it pushes.
addObjectToStackUpRef ==
  /\ CanCall
  /\ \E stack \in HeldOf("STACK_OF_X509"), cert \in HeldOf("X509"), rv \in {1, 0} :
       /\ CalledHandle("addObjectToStack", ReturnValueIsOk("IsPositive", rv))
       /\ obj' = IF ReturnValueIsOk("IsPositive", rv) THEN UpRef(obj, cert) ELSE obj

\* addObjectToStack<STACK_OF(X509), X509>(stack, cert): checked-positive
\* sk_X509_push stores the pointer; the stack takes no reference, so the
\* certificate stays the caller's.
addObjectToStack ==
  /\ CanCall
  /\ \E stack \in HeldOf("STACK_OF_X509"), cert \in HeldOf("X509"), rv \in {1, 0} :
       /\ CalledHandle("addObjectToStack", ReturnValueIsOk("IsPositive", rv))
       /\ UNCHANGED obj

\* _X509_STORE_CTX_init(ctx, store, x509, chain): checked
\* X509_STORE_CTX_init, which keeps the three pointers without references.
X509_STORE_CTX_init ==
  /\ CanCall
  /\ \E ctx \in HeldOf("X509_STORE_CTX"), store \in HeldOf("X509_STORE"),
        x509 \in HeldOf("X509"), chain \in HeldOf("STACK_OF_X509"), rv \in {1, 0} :
       /\ CalledHandle("X509_STORE_CTX_init", ReturnValueIsOk("IsOne", rv))
       /\ UNCHANGED obj

\* The caller destroys one of its SSL_*_Ptr holders.
Release ==
  /\ \E h \in Handles : obj[h].held > 0 /\ obj' = DropHolder(obj, h)
  /\ UNCHANGED <<last, ncalls>>

\* The program stops after its last call.
Done ==
  /\ ncalls = MaxCalls
  /\ UNCHANGED vars

Next ==
  \/ HMAC_Final
  \/ CMAC_Final
  \/ EVP_derive_key
  \/ BIO_read
  \/ i2d_ECDSA_SIG
  \/ EC_KEY_key2buf
  \/ EVP_PKEY_new
  \/ EVP_PKEY_CTX_new
  \/ EVP_PKEY_CTX_new_id
  \/ EVP_PKEY_keygen
  \/ EVP_PKEY_paramgen
  \/ EC_KEY_oct2key
  \/ EVP_PKEY_set1_EC_KEY
  \/ BN_bin2bn
  \/ ECDSA_SIG_new
  \/ ECDSA_SIG_set0
  \/ createOpenSSLObject
  \/ X509_STORE_add_cert
  \/ addObjectToStack
  \/ X509_STORE_CTX_init
  \/ Release
  \/ Done

Spec == Init /\ [][Next]_vars

(***************************************************************************)
(* Properties.                                                             *)
(***************************************************************************)

\* A wrapper that returns a vector returns exactly the bytes the native
\* call wrote: no trailing bytes of the buffer's original size (the
\* resize/truncate step of each query-size/fill/truncate wrapper).
ReturnedIsWritten ==
  last.returned \in Sizes => last.returned = last.written

\* Every native object's OpenSSL reference count equals its owners: the
\* caller's SSL_*_Ptr holders and the live objects keeping a reference to
\* it.  A larger count is a leak (a context or key nobody frees, e.g. a
\* throw between creating an object and handing it to a holder); a
\* smaller one frees an object that is still in use (a lent get0 pointer
\* freed like an owned one, a set1 taken for a transfer).
RefcountIsOwners == \A h \in Handles : obj[h].rc = Owners(h)

=============================================================================
