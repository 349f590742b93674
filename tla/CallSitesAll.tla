---------------------------- MODULE CallSitesAll ----------------------------
(***************************************************************************)
(* CallSites with the sites of openssl_wrap.cpp that do not drain exactly  *)
(* what their own failing native call pushed: the EC parameter ctrls       *)
(* checked as non-negative, _EVP_PKEY_cmp, the BIO -2 checks and           *)
(* _X509_verify_cert, and the getters whose NULL is a value, not an error.*)
(***************************************************************************)
EXTENDS CallSites

\* _EVP_PKEY_CTX_set_ec_paramgen_curve_nid and _EVP_PKEY_CTX_set_ec_param_enc:
\* EVP_PKEY_CTX_ctrl returns 1, or 0, -1 or -2 after pushing an error (0
\* for an unknown curve, or for an encoding set before any curve); checked
\* IsNonNegative, so 0 returns normally with the entry queued.
EcCtrlSite ==
  /\ CanCall
  /\ \E rv \in {1, 0, -1, -2} :
       \/ /\ rv = 1
          /\ Returns(errq)
       \/ /\ rv <= 0
          /\ ReturnValueIsOk("IsNonNegative", rv)
          /\ \E n \in PushCounts : Returns(Push(errq, Id, n))
       \/ /\ rv <= 0
          /\ ~ReturnValueIsOk("IsNonNegative", rv)
          /\ \E n \in PushCounts : ThrowsFromQueue(Push(errq, Id, n))

\* _EVP_PKEY_cmp: EVP_PKEY_cmp returns 1, 0 or -1, or -2 (comparison not
\* supported) without pushing an error; -2 throws OpenSSLException().
PkeyCmp ==
  /\ CanCall
  /\ \E result \in {1, 0, -1, -2} :
       \/ /\ result \in {1, 0, -1}
          /\ Returns(errq)
       \/ /\ result = -2
          /\ ThrowsFromQueue(errq)

\* _BIO_gets, _BIO_puts, _BIO_write, _BIO_read: write and read first throw
\* their own message for a size above INT_MAX; the BIO call returns -2
\* after pushing BIO_R_UNSUPPORTED_METHOD, which throws the site's own
\* message; any other result is returned.
BioSite ==
  /\ CanCall
  /\ \/ ThrowsOwn(errq)
     \/ Returns(errq)
     \/ ThrowsOwn(Push(errq, Id, 1))

\* _X509_verify_cert: a result other than 1 throws with the verify error
\* string of the context; a failed verification (0) pushes nothing, an
\* internal error (-1) pushes entries.
VerifyCert ==
  /\ CanCall
  /\ \/ Returns(errq)
     \/ ThrowsOwn(errq)
     \/ \E n \in PushCounts : ThrowsOwn(Push(errq, Id, n))

\* _X509_CRL_get_nextUpdate, _ECDSA_SIG_get0_r and _ECDSA_SIG_get0_s: the
\* getters return the field, which is NULL without an error pushed for a
\* CRL without nextUpdate and for a signature from ECDSA_SIG_new before
\* set0; checked Ptr, so NULL throws with whatever the queue holds.
NullGetterSites == {"X509_CRL_get_nextUpdate", "ECDSA_SIG_get0_r", "ECDSA_SIG_get0_s"}

NullGetter(site) ==
  /\ CanCall
  /\ \/ Returns(errq)
     \/ ThrowsFromQueue(errq)

NextAll ==
  \/ Next
  \/ EcCtrlSite
  \/ PkeyCmp
  \/ BioSite
  \/ VerifyCert
  \/ \E site \in NullGetterSites : NullGetter(site)

SpecAll == Init /\ [][NextAll]_vars

====
