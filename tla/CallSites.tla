----------------------------- MODULE CallSites -----------------------------
(***************************************************************************)
(* The call sites of openssl_wrap.cpp and the thread's OpenSSL error       *)
(* queue.  A client thread calls any sequence of wrappers; each call is    *)
(* one atomic step.                                                        *)
(*                                                                         *)
(* Most wrappers are one OpensslCall<Policy>::callChecked of one native    *)
(* function: the site tables below list them by region of the file, as     *)
(* <<native function, policy>>.  A native call fails exactly when its      *)
(* policy rejects what it returned, and a failure appends n entries to the *)
(* queue for n in PushCounts.  Three sites handle the result themselves    *)
(* and are actions of their own: _EVP_PKEY_keygen's catch and rethrow,     *)
(* the EVP_CIPHER_CTX length checks and _ASN1_TIME_copy.  The sites that   *)
(* leave or take entries of other calls are added by CallSitesAll.         *)
(*                                                                         *)
(* A queue entry is the number of the call that pushed it.  The queue is   *)
(* OpenSSL's ring of ErrQueueCap entries: pushing onto a full ring drops    *)
(* the oldest entry.  Nothing in the library clears the queue.             *)
(***************************************************************************)
EXTENDS Integers, Sequences, CheckedCall

CONSTANTS
  PushCounts,    \* how many entries a failing native call may append
  ErrQueueCap,   \* entries the ring holds (ERR_NUM_ERRORS - 1)
  MaxCalls,      \* wrapper calls over the run
  None,          \* no exception thrown yet
  Own            \* an OpenSSLException with the site's own message

ASSUME
  /\ PushCounts \subseteq Nat
  /\ ErrQueueCap \in Nat \ {0} /\ MaxCalls \in Nat \ {0}

VARIABLES
  errq,      \* the thread's error queue, oldest entry first
  lastExc,   \* the last OpenSSLException: [call, reported], or None
  ncalls     \* wrapper calls so far; call k pushes entries tagged k

vars == <<errq, lastExc, ncalls>>

Calls == 1..MaxCalls

(***************************************************************************)
(* The callChecked sites, as <<native function, policy>>.                  *)
(***************************************************************************)
KeySites ==
  { <<"EVP_PKEY_new", "Ptr">>, <<"X509_REQ_new", "Ptr">>,
    <<"EVP_DigestFinal_ex", "IsOne">>, <<"EVP_DigestUpdate", "IsOne">>,
    <<"EVP_DigestInit_ex", "IsOne">>, <<"EVP_PKEY_CTX_new", "Ptr">>,
    <<"EVP_PKEY_CTX_new_id", "Ptr">>, <<"EVP_PKEY_keygen_init", "IsOne">>,
    <<"EVP_PKEY_CTX_set_rsa_keygen_bits", "IsOne">>,
    <<"EVP_PKEY_paramgen_init", "IsOne">>, <<"EVP_PKEY_paramgen", "IsOne">>,
    <<"EC_KEY_get0_group", "Ptr">>, <<"EC_GROUP_get_degree", "IsPositive">>,
    <<"EC_GROUP_get_curve_name", "IsPositive">>, <<"EVP_PKEY_type", "IsPositive">>,
    <<"EVP_PKEY_size", "IsPositive">> }

RequestSites ==
  { <<"X509_NAME_new", "Ptr">>, <<"X509_NAME_add_entry_by_NID", "IsOne">>,
    <<"X509_REQ_set_subject_name", "IsOne">>, <<"X509_REQ_set_pubkey", "IsOne">>,
    <<"X509_REQ_set_version", "IsOne">>, <<"X509_REQ_get_subject_name", "Ptr">>,
    <<"X509_REQ_get_pubkey", "Ptr">>, <<"X509_REQ_verify", "IsOne">>,
    <<"PEM_write_bio_X509_REQ", "IsOne">>, <<"PEM_write_bio_X509", "IsOne">>,
    <<"PEM_read_bio_X509_REQ", "Ptr">>, <<"BIO_new", "Ptr">>,
    <<"BIO_new_file", "Ptr">>, <<"d2i_X509_bio", "Ptr">>,
    <<"d2i_X509_REQ_bio", "Ptr">>, <<"i2d_X509_bio", "IsOne">>,
    <<"i2d_X509_REQ_bio", "IsOne">>, <<"X509_REQ_sign_ctx", "IsPositive">> }

SignStoreSites ==
  { <<"EVP_DigestSign", "IsOne">>,
    <<"EVP_MD_CTX_create", "Ptr">>, <<"PEM_write_bio_PKCS8PrivateKey", "IsOne">>,
    <<"PEM_write_bio_PUBKEY", "IsOne">>, <<"PEM_read_bio_PrivateKey", "Ptr">>,
    <<"PEM_read_bio_PUBKEY", "Ptr">>, <<"PEM_read_bio_X509", "Ptr">>,
    <<"X509_STORE_add_cert", "IsOne">>, <<"X509_STORE_CTX_init", "IsOne">>,
    <<"X509_STORE_CTX_get0_param", "Ptr">>, <<"X509_VERIFY_PARAM_set_flags", "IsOne">>,
    <<"ASN1_INTEGER_new", "Ptr">>, <<"X509_STORE_new", "Ptr">>,
    <<"sk_X509_CRL_new_null", "Ptr">>, <<"X509_STORE_CTX_new", "Ptr">>,
    <<"sk_X509_new_null", "Ptr">>, <<"X509_new", "Ptr">>, <<"X509_CRL_new", "Ptr">>,
    <<"HMAC_CTX_new", "Ptr">>, <<"CMAC_CTX_new", "Ptr">>, <<"ECDSA_SIG_new", "Ptr">>,
    <<"sk_X509_push", "IsPositive">>, <<"sk_X509_CRL_push", "IsPositive">>,
    <<"X509_get_subject_name", "Ptr">>, <<"X509_get_issuer_name", "Ptr">> }

TimeSites ==
  { <<"ASN1_TIME_diff", "IsOne">>, <<"ASN1_TIME_set", "Ptr">>,
    <<"ASN1_TIME_new", "Ptr">>, <<"ASN1_TIME_set_string", "IsPositive">>,
    <<"X509_get_notBefore", "Ptr">>, <<"X509_get_notAfter", "Ptr">>,
    <<"X509_get_pubkey", "Ptr">> }

CertCipherSites ==
  { <<"X509_set_subject_name", "IsOne">>, <<"X509_set_issuer_name", "IsOne">>,
    <<"X509_set_pubkey", "IsOne">>, <<"X509_set_notBefore", "IsOne">>,
    <<"X509_set_notAfter", "IsOne">>, <<"X509_sign", "IsPositive">>,
    <<"X509_NAME_get_entry", "Ptr">>, <<"X509_NAME_ENTRY_get_data", "Ptr">>,
    <<"EVP_CIPHER_CTX_new", "Ptr">>, <<"EVP_CIPHER_CTX_reset", "IsOne">>,
    <<"EVP_CIPHER_CTX_ctrl", "IsOne">>, <<"EVP_CipherInit_ex", "IsOne">>,
    <<"EVP_CipherUpdate", "IsOne">>, <<"EVP_CipherFinal_ex", "IsOne">>,
    <<"EVP_CIPHER_CTX_set_padding", "IsOne">>, <<"EVP_aes_256_cbc", "Ptr">>,
    <<"X509V3_EXT_conf_nid", "Ptr">>, <<"X509_add_ext", "IsOne">> }

IntegerCrlSites ==
  { <<"ASN1_INTEGER_set", "IsOne">>, <<"ASN1_INTEGER_to_BN", "Ptr">>,
    <<"BN_bn2dec", "Ptr">>, <<"BN_num_bytes", "IsPositive">>,
    <<"BN_bn2bin", "IsPositive">>, <<"BN_bin2bn", "Ptr">>,
    <<"BN_bn2binpad", "IsPositive">>, <<"X509_get_serialNumber", "Ptr">>,
    <<"ASN1_INTEGER_set", "IsPositive">>, <<"X509_set_serialNumber", "IsPositive">>,
    <<"d2i_X509_CRL_bio", "Ptr">>, <<"PEM_read_bio_X509_CRL", "Ptr">>,
    <<"PEM_write_bio_X509_CRL", "IsOne">>, <<"X509_CRL_get_issuer", "Ptr">>,
    <<"X509_CRL_verify", "IsOne">>, <<"X509_CRL_get_lastUpdate", "Ptr">>,
    <<"ASN1_TIME_adj", "Ptr">> }

PkeyOpSites ==
  { <<"ASN1_STRING_print_ex", "IsNonNegative">>, <<"EVP_PKEY_sign", "IsPositive">>,
    <<"EVP_PKEY_sign_init", "IsPositive">>, <<"EVP_PKEY_verify_init", "IsPositive">>,
    <<"EVP_PKEY_verify", "IsPositive">>,
    <<"EVP_DigestVerify", "IsOne">>, <<"EVP_PKEY_CTX_set_rsa_padding", "IsPositive">>,
    <<"EVP_PKEY_CTX_set_signature_md", "IsPositive">>,
    <<"EVP_PKEY_CTX_set_rsa_pss_saltlen", "IsPositive">>,
    <<"EVP_PKEY_CTX_set_rsa_mgf1_md", "IsPositive">>,
    <<"EVP_PKEY_encrypt_init", "IsPositive">>, <<"EVP_PKEY_encrypt", "IsPositive">>,
    <<"EVP_PKEY_decrypt_init", "IsPositive">>, <<"EVP_PKEY_decrypt", "IsPositive">>,
    <<"EVP_PKEY_CTX_set_rsa_oaep_md", "IsPositive">>,
    <<"EVP_PKEY_CTX_set_rsa_oaep_label", "IsNonNegative">>,
    <<"OPENSSL_malloc", "Ptr">> }

EcdsaMacSites ==
  { <<"RAND_bytes", "IsOne">>, <<"EVP_PKEY_get0_EC_KEY", "Ptr">>,
    <<"ECDSA_SIG_set0", "IsOne">>, <<"d2i_ECDSA_SIG", "Ptr">>,
    <<"PKCS5_PBKDF2_HMAC", "IsOne">>, <<"ECDH_KDF_X9_63", "IsOne">>,
    <<"HMAC_Init_ex", "IsOne">>, <<"HMAC_Final", "IsOne">>, <<"HMAC_Update", "IsOne">>,
    <<"CMAC_Init", "IsOne">>, <<"CMAC_Update", "IsOne">>, <<"CMAC_Final", "IsOne">> }

EcEngineSites ==
  { <<"EC_KEY_new_by_curve_name", "Ptr">>, <<"EC_KEY_oct2key", "IsOne">>,
    <<"EVP_PKEY_set1_EC_KEY", "IsOne">>, <<"EVP_PKEY_get0_EC_KEY", "Ptr">>,
    <<"EC_KEY_key2buf", "IsPositive">>, <<"EVP_PKEY_CTX_new", "Ptr">>,
    <<"EVP_PKEY_derive_init", "IsOne">>, <<"EVP_PKEY_derive_set_peer", "IsOne">>,
    <<"EVP_PKEY_derive", "IsOne">>, <<"ENGINE_by_id", "Ptr">>,
    <<"ENGINE_init", "IsOne">>, <<"ENGINE_ctrl_cmd_string", "IsOne">>,
    <<"ENGINE_load_private_key", "Ptr">>, <<"ENGINE_load_public_key", "Ptr">>,
    <<"ENGINE_finish", "IsOne">> }

CheckedSites ==
  KeySites \cup RequestSites \cup SignStoreSites \cup TimeSites \cup CertCipherSites
    \cup IntegerCrlSites \cup PkeyOpSites \cup EcdsaMacSites \cup EcEngineSites

\* What a native call checked with a policy may return: a pointer or null,
\* or 1, 0 and -1, which every integer policy splits into success and
\* failure (0 is a success of IsNonNegative only).
NativeResults(policy) == IF policy = "Ptr" THEN {"obj", Null} ELSE {1, 0, -1}

Init ==
  /\ errq = <<>>
  /\ lastExc = None
  /\ ncalls = 0

CanCall == ncalls < MaxCalls

\* The number of the call being made.
Id == ncalls + 1

\* ERR_put_error n times for call c: the ring keeps the newest ErrQueueCap.
Push(q, c, n) ==
  LET full == q \o Pushed(c, n)
  IN  IF Len(full) <= ErrQueueCap THEN full
      ELSE SubSeq(full, Len(full) - ErrQueueCap + 1, Len(full))

\* The call returns normally, leaving the queue q.
Returns(q) ==
  /\ errq' = q
  /\ ncalls' = Id
  /\ UNCHANGED lastExc

\* throw OpenSSLException(): generateOpenSSLErrorString reads the queue q.
ThrowsFromQueue(q) ==
  /\ lastExc' = [call |-> Id, reported |-> ERR_get_error(q)]
  /\ errq' = ErrQueueAfterGet(q)
  /\ ncalls' = Id

\* throw OpenSSLException(message): the queue q is left as it is.
ThrowsOwn(q) ==
  /\ lastExc' = [call |-> Id, reported |-> Own]
  /\ errq' = q
  /\ ncalls' = Id

(***************************************************************************)
(* The sites.                                                              *)
(***************************************************************************)

\* OpensslCall<Policy>::callChecked(native, ...): a result the policy
\* accepts is returned; otherwise OpenSSLExceptionErrorPolicy::handleError
\* throws OpenSSLException(), after the failing call pushed its entries.
CheckedSite(site) ==
  /\ CanCall
  /\ \E rv \in NativeResults(site[2]) :
       \/ /\ ReturnValueIsOk(site[2], rv)
          /\ Returns(errq)
       \/ /\ ~ReturnValueIsOk(site[2], rv)
          /\ \E n \in PushCounts : ThrowsFromQueue(Push(errq, Id, n))

\* _EVP_PKEY_keygen catching with throw OpenSSLException() instead of throw e.
KeygenRethrowFresh ==
  /\ CanCall
  /\ \E rv \in NativeResults("IsOne") :
       \/ /\ ReturnValueIsOk("IsOne", rv)
          /\ Returns(errq)
       \/ /\ ~ReturnValueIsOk("IsOne", rv)
          /\ \E n \in PushCounts :
               ThrowsFromQueue(ErrQueueAfterGet(Push(errq, Id, n)))

\* _EVP_PKEY_keygen: callChecked IsOne of EVP_PKEY_keygen inside try; the
\* catch frees ptr when set (EVP_PKEY_keygen has freed and nulled it on
\* failure) and rethrows the caught exception with throw e, which copies it
\* without reading the queue again.
Keygen ==
  /\ CanCall
  /\ \E rv \in NativeResults("IsOne") :
       \/ /\ ReturnValueIsOk("IsOne", rv)
          /\ Returns(errq)
       \/ /\ ~ReturnValueIsOk("IsOne", rv)
          /\ \E n \in PushCounts : ThrowsFromQueue(Push(errq, Id, n))

\* _EVP_CIPHER_CTX_key_length (res <= 0) and _EVP_CIPHER_CTX_iv_length
\* (res == 0) throw their own message; the accessors push nothing.
CipherLength ==
  /\ CanCall
  /\ \E res \in {1, 0} :
       \/ /\ res > 0
          /\ Returns(errq)
       \/ /\ res = 0
          /\ ThrowsOwn(errq)

\* _ASN1_TIME_copy: ASN1_STRING_dup returns null after pushing a malloc
\* failure, and the site throws OpenSSLException().
Asn1TimeCopy ==
  /\ CanCall
  /\ \E s \in {"obj", Null} :
       \/ /\ s # Null
          /\ Returns(errq)
       \/ /\ s = Null
          /\ \E n \in PushCounts : ThrowsFromQueue(Push(errq, Id, n))

\* The program stops after its last call.
Done ==
  /\ ncalls = MaxCalls
  /\ UNCHANGED vars

\* The DigestTypes _getMDPtrFromDigestType maps to an EVP_MD; any other
\* value reaches its default branch.
KnownDigests == {"SHA1", "SHA256", "SHA384", "SHA512", "SHA3_256", "SHA3_384", "SHA3_512"}
DigestTypeArgs == {"NONE", "SHA256", "unknown"}

\* _EVP_DigestSignInit and _EVP_DigestVerifyInit: NONE gives a null md,
\* a known type its EVP_MD, and any other type throws std::runtime_error
\* from _getMDPtrFromDigestType before any native call (not an
\* OpenSSLException, so no report); then the IsOne-checked Init call.
DigestInit(native) ==
  /\ CanCall
  /\ \E type \in DigestTypeArgs :
       \/ /\ type \notin KnownDigests \cup {"NONE"}
          /\ ncalls' = Id
          /\ UNCHANGED <<errq, lastExc>>
       \/ /\ type \in KnownDigests \cup {"NONE"}
          /\ CheckedSite(<<native, "IsOne">>)

Next ==
  \/ \E site \in CheckedSites : CheckedSite(site)
  \/ \E native \in {"EVP_DigestSignInit", "EVP_DigestVerifyInit"} : DigestInit(native)
  \/ Keygen
  \/ CipherLength
  \/ Asn1TimeCopy
  \/ Done

Spec == Init /\ [][Next]_vars

(***************************************************************************)
(* Properties.                                                             *)
(***************************************************************************)

\* Every OpenSSLException whose message generateOpenSSLErrorString read
\* from the error queue reports an entry pushed by the very native call
\* whose failure raised it (spec.md 4.1: the message comes from the queue
\* entry of the failing call, drained at the failure site), whatever
\* wrappers the thread called before.
ErrorsAttributed ==
  lastExc # None /\ lastExc.reported # Own => lastExc.reported = lastExc.call

====
