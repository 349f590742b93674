# TLA+ models of MoCOCrW's HSM engine and checked-call layer

This directory holds TLA+ models of the MoCOCrW crypto wrapper, checked with TLC. The models cover the engine-backed HSM, the checked-call discipline around OpenSSL and its error queue at every call site, the serial-number and validity-time conversions, the X509 name lookup loop, the wrappers that return native output buffers, and the ownership of the reference-counted key objects the wrappers create, link and lend. They are written from `src/src/openssl_wrap.cpp` and `src/src/mococrw/hsm.h`. Where the sources lack the code, they are written from `spec.md`, and those definitions are marked `spec_modelled` in `PROJECT.json`.

## 1. The system

### Components and their state

| Component | Source | State it keeps | Operations |
|---|---|---|---|
| Checked-call layer | `openssl_wrap.cpp` 44-131 | none of its own; reads the OpenSSL per-thread error queue | `callChecked` with policy IsOne / IsPositive / IsNonNegative / Ptr; `handleError` throws `OpenSSLException`; `generateOpenSSLErrorString` pops one queue entry |
| HSM capability interface `HSM` | `hsm.h` 23-56 | none | `loadPublicKey(keyID)`, `loadPrivateKey(keyID)` (protected, friends only) |
| Engine-backed HSM `HsmEngine` | `hsm.h` 58-80; ENGINE wrappers `openssl_wrap.cpp` 1560-1598; `hsm.cpp` is **not** in the sources | `_engine` (owning `SSL_ENGINE_Ptr`), `_id`, `_modulePath`, `_pin`; behind `_engine` are the ENGINE's structural and functional references | constructor: by_id, ctrl MODULE_PATH, ctrl PIN, init; key loads; destructor: finish, then the string members are destroyed, then `_engine` frees the ENGINE |
| Native handle ownership | `SSL_*_Ptr` holders (header not in sources); `OpenSSLGuardedOutputBuffer` 133-160 | whether each native object is owned, and by whom | wrap at acquisition, `release()`, free on scope exit |
| ASN1 time conversion | 685-831 | none (pure) | `compare`, `checkAsn1TimeFitsIntoLimits`, `_asn1TimeToTimePoint`, `_asn1TimeToTimeT`, `secondsDiffToEpoch` |
| Serial numbers | 1036-1126 | none (pure) | `_X509_set_serialNumber`, `Asn1IntegerToInt64`, `Asn1IntegerToBinary`, `Asn1IntegerToString` |
| Name lookup | 905-915 | loop cursor `lastpos` | `_X509_NAME_get_index_by_NID` |
| Output buffers | 384-431, 1347-1367, 1422-1462, 1490-1558 | buffer length and ownership | query size, fill, truncate |
| Key objects | 162-246, 657-661, 1077-1084, 1326-1335, 1476-1558 | OpenSSL reference counts of EVP_PKEY, EC_KEY, EVP_PKEY_CTX, BIGNUM, ECDSA_SIG; the caller's holders | create into a holder, `set1`/`set0` links, `get0` lends, holder destructor frees |
| Verification objects | 566-578, 622-638, 663-667; deleters in `openssl_lib.h` 311-335 | reference counts of X509, X509_STORE, X509_STORE_CTX, STACK_OF(X509) | create into a holder, `add_cert` (the store takes a reference), push and `CTX_init` (lend, no reference) |
| Other primitive wrappers | the rest of `openssl_wrap.cpp` | none | one checked native call each |
| `OpenSSLLib` | `openssl_lib.h` | none | one-to-one forwarding to OpenSSL; which `*_free` deleters exist (no `sk_X509_pop_free`) |

`AsymmetricPublicKey` and `AsymmetricKeypair` are the key-material consumers. They call the HSM through its friend interface. They are not in the sources.

### How the parts interact

All interaction is synchronous calls on one thread. The code has no threads, callbacks or messages of its own. An HSM consumer calls `loadPrivateKey` on an `HsmEngine`. That calls `_ENGINE_load_private_key`, which calls `OpensslCallPtr::callChecked` on `OpenSSLLib::SSL_ENGINE_load_private_key`. On a null result the error policy throws `OpenSSLException`. Its constructor reads the thread's OpenSSL error queue with `ERR_get_error`. The one piece of state the components share is that error queue. It lives in OpenSSL, per thread, and outlives every call and object.

### What is hard

* **Partial failure.** Any of the four constructor calls can fail after the ENGINE is already held. The failing object's destructor never runs, so release is left to the destruction of the `_engine` member. An `ENGINE_finish` failure in the destructor throws out of a `noexcept` destructor.
* **Stale diagnostics.** The error queue is FIFO and shared by every call of the thread. `ERR_get_error` pops the *oldest* entry, and only one. Sites that throw their own message leave entries behind, and `_EVP_PKEY_cmp` pops an entry it did not push. In each case a later failure reports an earlier call's error.
* **Numeric edges.** Serial number 0, `LONG_MAX` bounds, the `time_t` and `time_point` limits, and buffer lengths that a second native call changes.
* **Termination.** The `lastpos` loop of `_X509_NAME_get_index_by_NID` ends only when OpenSSL returns -1.

### What makes each component correct

* Checked-call layer: an exception is raised exactly when the policy rejects the return value. The message carries the error of the call that failed.
* HsmEngine: no ENGINE reference outlives the object, whichever step fails. `ENGINE_finish` is called only after a successful `ENGINE_init`. Keys are loaded only from a Ready object. Destruction releases the handle.
* Ownership: every native object acquired is freed exactly once, on every path. For reference-counted objects: the count always equals the number of owners (the caller's holders and the objects that keep a reference).
* Pure conversions: each agrees with a reference definition on every input of its domain. Each rejects exactly the inputs outside its range.

## 2. Plan

The modules are listed in the order they were built. The most important behaviour comes first. All eight are done.

1. **`CheckedCall`**: the policies and the error-queue read, as operators.
2. **`HsmSession`**: the abstract life cycle of spec.md 4.4.
3. **`HsmEngine`**: constructor, key loads and destructor over `CheckedCall`, with ENGINE reference counts. It refines `HsmSession`.
4. **`SerialNumber`**: setting and reading the serial over a scaled `long` width, for the serial-0, sign and `LONG_MAX` edges.
5. **`Asn1Time`**: `compare`, the limit checks and the setters and readers of the validity times, over scaled widths.
6. **`NameIndex`**: the `lastpos` loop. Its result is checked against a reference selection. Termination is a liveness property under weak fairness.
7. **`NativeOwnership`**: the query-size, fill and truncate wrappers, the OpenSSL-allocated buffers, and the reference-counted key objects.
8. **`CallSites`** and **`CallSitesAll`**: the table of every `callChecked` site with its policy, and the sites that handle the result themselves. A thread calls any sequence of them against the error queue.

What is left for later work:

* Ownership of the `SSL_*_Ptr` results of the remaining one-call wrappers (CSR, CRL, CRL stack, BIO, digest and MAC contexts). Each is one checked call into a holder, with nothing between acquisition and wrapping.
* The `-2` return of `X509_NAME_get_index_by_NID` in `NameIndex`, which needs a NID outside OpenSSL's table.
* The objects that `_X509_STORE_CTX_init`, `_X509_STORE_CTX_set0_crls` and `addObjectToStack` lend without a reference (store, certificate, chain, CRL stack). How long they must live is up to the verification code that calls these wrappers, which is not in the sources.

## 3. Modules

### `CheckedCall`

Operators only, no variables.

* `IsOneOk`, `PositiveOk`, `NonNegativeOk` and `NotNullOk` are the four `returnValueIsOk` policies. `ReturnValueIsOk(policy, rv)` selects one of them, as `callChecked` does.
* An error-queue entry is abstracted to the *tag of the native call that pushed it*. That is enough to tell whether a report belongs to the failing call.
* `ERR_get_error` returns the head of the queue, or `NoErrorCode` (0) if the queue is empty. `ErrQueueAfterGet` is the queue after that read.

### `HsmSession` (abstract)

Variables:

* `session` is one of none, uninitialized, ready, terminated or never_ready.
* `handles` is the number of engine handles held: 0 or 1.
* `keyLoads` and `sessions` count key loads and objects.

Actions: `Create`, `ConstructOk`, `ConstructFail`, `LoadKey` and `Destroy`. An object that is gone holds no handle.

### `HsmEngine` (detailed)

Variables:

* `pc` is the object's place in its life.
* `enginePtr` is `_engine`.
* `structRef` and `functRef` are the references the program holds on the native ENGINE.
* `errq` is the error queue, `ncalls` tags native calls, and `lastExc` holds the failing call and the call whose entry the message reports. Error attribution is checked across all call sites in `CallSites`.

Each action and the code it models:

| Action | Code |
|---|---|
| `Create` | the client constructs `HsmEngine(id, modulePath, pin)` |
| `ByIdStep` | `_engine = _ENGINE_by_id(_id)`: Ptr policy, +1 structural |
| `CtrlCmdStep` | `_ENGINE_ctrl_cmd_string` for MODULE_PATH, then for PIN: IsOne |
| `InitStep` | `_ENGINE_init`: IsOne, +1 functional, +1 structural |
| `LoadPublicKey`, `LoadPrivateKey` | `_ENGINE_load_*_key`: Ptr. Failure throws to the caller and leaves the object Ready |
| `Destroy` | the body of `~HsmEngine`: `_ENGINE_finish` (IsOne), which drops the functional reference and the structural one `ENGINE_init` took (`pc = "finished"`). A failing finish drops the functional reference but not the structural one, as OpenSSL's `engine_unlocked_finish` does. It then throws: `std::terminate` (`pc = "aborted"`) |
| `StringMembersDtor` | after the body, `_pin`, `_modulePath` and `_id` are destroyed first, because they are declared after `_engine` (hsm.h 67-75) |
| `EngineMemberDtor` | last, the `_engine` member calls `ENGINE_free` and drops the last structural reference |
| `CtorThrows` | the exception path of any constructor step: `_engine` is destroyed and frees the ENGINE if it holds one. The destructor does not run |
| `Done` | the program stops after its last object, or after `std::terminate` |

Every failing native call pushes between 1 and `MaxPush` entries. The error policy then pops one entry (`CallThrows`). The bodies of the constructor and destructor come from spec.md, because `hsm.cpp` is missing. The order by_id, MODULE_PATH, PIN, init is the one `test_hsm.cpp` expects.

The refinement mapping (`Session`) maps constructor steps to uninitialized, ready and the two member-destruction steps to ready (the object still holds the handle), destroyed and aborted to terminated, and ctor_failed to never_ready. `handles` maps to "outside the constructor, `_engine` is not null".

### `SerialNumber`

Variables:

* `serial` is the certificate's ASN1_INTEGER.
* `written` is the last value that `_X509_set_serialNumber` stored.
* `intRead`, `decRead` and `binRead` are the last outcomes of the three readers. They are forgotten when the serial changes.

Actions:

* `SetSerial(s)`: the `LONG_MAX` check, then `ASN1_INTEGER_set` of the value cast to `long`.
* `LoadCert(v)`: a certificate parsed from DER with any serial, negative ones and ones wider than `long` included.
* `GetSerial`, `GetSerialDec` and `GetSerialBin` read the serial through `Asn1IntegerToInt64`, `Asn1IntegerToString` and `Asn1IntegerToBinary`.

OpenSSL's conversions are modelled by what they compute. `BN_bn2dec` gives a sign and decimal digits, and `BN_bn2bin` gives the big-endian bytes of the magnitude (the recursive `Digits`). `ASN1_INTEGER_get` gives -1 when the value does not fit. Widths are scaled: `long` has `LongBits` = 4 bits and a byte has `ByteBits` = 2. The two's-complement casts are kept.

### `Asn1Time`

Variables: `asn1`, `written`, `tpRead` and `ttRead`, each a function from {notBefore, notAfter}.

Actions:

* `SetTime(f, tp)` is `_X509_set_notBefore`/`notAfter`: `to_time_t`, `ASN1_TIME_set` (which may return null), then the checked set.
* `LoadCert`: a parsed certificate.
* `GetTimePoint(f)` is `_asn1TimeToTimePoint`, with the limits taken from `to_time_t` of the `time_point` extremes.
* `GetTimeT(f)` is `_asn1TimeToTimeT`.

`compare`, `checkAsn1TimeFitsIntoLimits`, `secondsDiffToEpoch` and `ASN1_TIME_diff` are operators. They use C++ truncating division (`Quot`, `Rem`). Integer widths wrap (`Wrap`).

### `NameIndex`

Variables:

* `pc` is idle, loop or done.
* `name` is the X509_NAME, as a sequence of NIDs.
* `nid` is the NID searched for.
* `rv` is the last return of `X509_NAME_get_index_by_NID`.
* `result` is the vector built so far.

Actions:

* `Call` makes the first native call, with `lastpos` -1.
* `LoopStep` is one iteration: push `rv`, then call again from `rv`.
* `Return` happens when `rv` is -1.

The reference `RefIndices` is the sorted set of matching positions (`SetToSortSeq`).

### `NativeOwnership`

Variables:

* `last` is the last call: the wrapper, the bytes its native call wrote, and what it returned.
* `ncalls` counts calls.
* `obj` maps each handle to its kind, its OpenSSL reference count `rc` (0 once freed), the handles it keeps a reference to `refs`, and the caller's `SSL_*_Ptr` holders of it `held`. An OpenSSL-allocated output buffer that outlives its wrapper is an object of kind `"buffer"` with no owner; one the wrapper frees is not seen after the step.

Buffer actions: `HMAC_Final`, `CMAC_Final`, `EVP_derive_key`, `BIO_read`, `i2d_ECDSA_SIG` and `EC_KEY_key2buf`. Key-object actions: `EVP_PKEY_new`, `EVP_PKEY_CTX_new`, `EVP_PKEY_CTX_new_id`, `EVP_PKEY_keygen`, `EVP_PKEY_paramgen`, `EC_KEY_oct2key`, `EVP_PKEY_set1_EC_KEY`, `BN_bin2bn`, `ECDSA_SIG_new` and `ECDSA_SIG_set0`. Verification-object actions: `createOpenSSLObject` (an X509, store, store context or certificate stack, `VerifyKinds`), `X509_STORE_add_cert`, `addObjectToStack` and `X509_STORE_CTX_init`. The store takes a reference to each certificate it does not have yet (OpenSSL 1.1.1); a stack and a store context keep pointers without references, since `OpenSSLLib` declares `sk_X509_free` and no `pop_free`. Each one is the whole wrapper, including every checked native call inside it and every failure path. Wrappers that take a key, context or signature take one the caller holds. `Release` is the caller destroying a holder at any time. `Unref` is OpenSSL's `*_free`: it frees an object whose count reaches 0, and that object drops its own references in turn (context, then key, then EC_KEY). `EC_KEY_key2buf` borrows the key's EC_KEY through `Get0EcKey` and takes no reference. `EVP_derive_key` creates its context with a reference to the key and, once `derive_set_peer` succeeds, to the peer key. The holder frees the context on every path, so the context is left freed and the keys' counts are as before. `i2d_ECDSA_SIG` likewise leaves its buffer freed, because the guard frees it. A wrapper that leaked either object would leave an object with a count and no owner.

Four named BOOLEAN constants enable outcomes the code must survive:

* `DeriveWritesLess`: the second `EVP_PKEY_derive` writes fewer bytes than the first one sized. Finite-field DH strips leading zero bytes.
* `VectorAllocMayFail`: the `std::vector` copy throws `bad_alloc`.
* `EmptyHolderArgs`: the caller moves an empty `SSL_BIGNUM_Ptr` into `_ECDSA_SIG_set0` (`BignumArgs`). The wrapper releases both holders before `ECDSA_SIG_set0`, which then returns 0 and takes neither pointer.
* `GenLeavesKeyOnFailure`: a failing `EVP_PKEY_keygen`/`paramgen` leaves a key in `*ppkey`. `_EVP_PKEY_keygen` frees it in its catch; `_EVP_PKEY_paramgen` has no catch.

`RefcountIsOwners` says every object's count equals its holders plus the live objects that refer to it. A leak (a buffer or object nobody owns) and a premature free both break it, and no single step does: a premature free shows only after a holder is dropped or an object is linked.

### `CallSites` and `CallSitesAll`

Variables:

* `errq` is the thread's error queue. An entry is the number of the call that pushed it. The queue is a ring of `ErrQueueCap` entries that drops its oldest entry when full, as OpenSSL's does.
* `lastExc` is the last `OpenSSLException`: the call that threw it, and the entry its message reports (or `Own`, for a message of the site's own).
* `ncalls` counts calls.

The tables `KeySites` ... `EcEngineSites` list every `callChecked` site of `openssl_wrap.cpp`, region by region, as a pair of the native function and its policy. `CheckedSite(site)` is `callChecked`: the native call fails exactly when its policy rejects the result. A failure pushes `n` entries, for `n` in `PushCounts`, and `handleError` throws `OpenSSLException()`, which pops one. Three sites handle the result themselves and drain what they push, or push nothing:

* `Keygen`: catches the exception and rethrows it with `throw e`.
* `CipherLength`: own message; the accessors push nothing.
* `Asn1TimeCopy`.
* `DigestInit`: `_EVP_DigestSignInit` and `_EVP_DigestVerifyInit`. A `DigestTypes` value that `_getMDPtrFromDigestType` does not know throws `std::runtime_error` before any native call. That is not an `OpenSSLException`, so nothing is reported and the queue is untouched. The other types make the checked `IsOne` call.

`CallSitesAll` adds the sites that do not follow the pattern:

* `EcCtrlSite`: the two EC parameter ctrls checked `IsNonNegative`. `EVP_PKEY_CTX_ctrl` returns 0 after pushing an error.
* `PkeyCmp`: -2, with no error pushed, throws `OpenSSLException()`.
* `BioSite`: -2 pushes `BIO_R_UNSUPPORTED_METHOD` and throws an own message.
* `VerifyCert`: throws the verify error string and never reads the queue.
* `NullGetter`: `_X509_CRL_get_nextUpdate`, `_ECDSA_SIG_get0_r` and `_ECDSA_SIG_get0_s` check a getter as a `Ptr` call. The getter returns NULL as a value, with no error pushed: a CRL without nextUpdate, or a signature before `set0`. These three sites are not rows of the `CallSites` tables.

Which entries a native call pushes is OpenSSL's behaviour, not this repository's. It is the only part of these modules that is not a translation of the sources, and its comments name the OpenSSL behaviour each action assumes.

## 4. Runs

| Run | Config | Expect | Checks | What it shows |
|---|---|---|---|---|
| `hsm_lifecycle` | `MCHsmEngine.cfg` | pass | `TypeOK`, `NoEngineLeak`, `SessionSpec` | Three objects in a row, where every constructor call and key load may fail. No ENGINE reference is left on any failure path, and the implementation refines `HsmSession`. |
| `hsm_finish_fails` | `MCHsmEngineFinishFails.cfg` | violation | `TeardownBeforeStringsReleased` | spec.md 3 requires the teardown (finish, then handle release) before the identifying strings' storage is released. If `ENGINE_finish` returns 0, destruction of a Ready object ends in `std::terminate` with the ENGINE still referenced (the trace TLC reports). With `FinishMayFail = FALSE`, the member order alone violates it: the three strings are destroyed before `_engine` calls `ENGINE_free`. |
| `serial_roundtrip` | `MCSerialNumber.cfg` | pass | `TypeOK`, `RoundTrip`, `ReadersAgree` | A serial that the setter accepts reads back unchanged. Whenever the integer reader returns, the decimal reader denotes the same value. So does the binary reader, except at serial 0, where it throws: that is the one value it throws for (see `serial_bin_vs_dec`). |
| `serial_bin_vs_dec` | `MCSerialNumberBin.cfg` | violation | `BinaryAgreesWithDecimal` | For a negative serial, the binary reader drops the sign. For serial 0, it throws. |
| `validity_times` | `MCAsn1Time.cfg` | pass | `TypeOK`, `ReadersExact`, `SetStoresTime` | With 64-bit `time_t`, the readers return the field's time exactly or throw exactly when it does not fit. The setters store times to the second and keep notBefore ≤ notAfter. |
| `validity_time_t32` | `MCAsn1TimeT32.cfg` | violation | `SetGetRoundTrip` | With 32-bit `time_t`, a `time_point` set is read back as another time, with no exception. The setter narrows the time with `to_time_t`. The reader's limits are also computed with `to_time_t`; they wrap to a narrower window (about ±633,437,444 s in real widths, ±2 s scaled) and accept the narrowed time. In the trace, notBefore is set to `time_point::min()` (-10 s) and read back as -2 s. |
| `name_index` | `MCNameIndex.cfg` | pass | `TypeOK`, `ResultIsReference`, `Terminates` | The lookup returns every matching position once, in order, and always terminates. |
| `native_ownership` | `MCNativeOwnership.cfg` | pass | `TypeOK`, `ReturnedIsWritten`, `RefcountIsOwners` | When native calls write what they sized, every returned vector holds exactly the bytes written, and every OpenSSL buffer is freed. Under any order of wrapper calls, failures and holder drops, every key and verification object's reference count equals its owners. |
| `derive_shorter_secret` | `MCNativeOwnershipDerive.cfg` | violation | `ReturnedIsWritten` | `_EVP_derive_key` returns the first call's size, with trailing bytes, when the second call writes less. |
| `native_leaks` | `MCNativeOwnershipLeaks.cfg` | violation | `RefcountIsOwners` | A `bad_alloc` while copying `pbuf` skips `OPENSSL_free` (the trace TLC reports). An empty holder passed to `_ECDSA_SIG_set0` leaks the other BIGNUM, which is released before the failing call. Each leak is reached with the other constant off. |
| `call_sites` | `MCCallSites.cfg` | pass | `ErrorsAttributed` | Assume every failing native call pushes one entry. Over any ten calls of the `callChecked` sites, keygen, the cipher length checks and `_ASN1_TIME_copy`, every exception reports its own call's entry. |
| `call_sites_stale_errors` | `MCCallSitesAll.cfg` | violation | `ErrorsAttributed` | With the sites of `CallSitesAll`, and natives that push two entries, an exception reports another call's entry or code 0. The reported trace is `_EVP_PKEY_cmp` returning -2. Each of the other mechanisms reproduces the violation alone: an EC ctrl returning 0 and then a checked failure, a BIO -2 and then a checked failure, a verify error and then a checked failure, a NULL getter alone (it reports 0), or a two-entry push and then a checked failure. |

Every passing property has a mutant in `PROJECT.json`: a plausible bug in the mapped definition that TLC catches under the run's own configuration.

**Bounds.**

* HsmEngine:
  * `MaxSessions = 3` lets a failed constructor be followed by a successful one and by another failure.
  * `MaxKeyLoads = 2` gives a failed load, then a successful one, then destruction.
  * `MaxPush = 1`: a single entry per failure.
* SerialNumber:
  * A 4-bit `long` (`LONG_MAX` = 7) and 2-bit bytes, so a serial of several bytes is reached.
  * Parsed serials {-5, -1, 0, 3, 7, 8, 19} cover negatives, 0, `LONG_MAX`, `LONG_MAX`+1 and a value beyond `uint64_t`.
* Asn1Time:
  * 3 ticks per second, a 3-second day and a 6-bit `time_point` (seconds -10..10).
  * ASN1_TIME range -12..12, with 5-bit `time_t` (covers that range, as 64-bit does) or 3-bit `time_t` (inside the `time_point` range, as 32-bit is).
  * The widths are chosen so that `to_time_t` of the `time_point` limits wraps as it does in real widths. Real: int64 nanoseconds into a 32-bit `time_t` gives ±633,437,444 s. Scaled: ±10 s into 3 bits gives ±2 s. In both, the window is narrower than `time_t` and is not inverted; with 2 ticks per second and a 5-bit `time_point`, the limits would invert and every read would throw.
  * The ticks set and the times parsed sit at every one of these boundaries.
* NameIndex: names of up to 5 entries over 2 NIDs, and queries for a third NID. This covers no match, one match, runs of three adjacent matches and matches separated by others; with two NIDs, longer names only repeat these patterns.
* NativeOwnership: capacities of 2-3 bytes and `INT_MAX` = 2. A read may then exceed `INT_MAX`, and a shorter write is possible. There are 4 handles, enough for a generated key with its EC_KEY plus a context, a signature with two BIGNUMs, or a store context with its store, certificate and chain. The pass run makes 5 calls, which is enough for oct2key, new key, set1 and key2buf, for a signature, two BIGNUMs and set0, and for the four verification objects and `X509_STORE_CTX_init`. It has 2.9 million states and takes about 2.5 minutes. The holder drops in between are free. `set0` on a signature that already has r and s takes 7 calls and 5 handles. With 6 calls and 5 handles the model without the verification objects already had 4.6 million states and took 4 minutes, so the pass run does not reach it. `set1` over a generated key's EC_KEY is reached, and that exercises the same cascade of `Unref`. The violation runs make 2 and 3 calls, the fewest that reach a key for derive, and a key for key2buf or a signature and a BIGNUM for set0.
* CallSites:
  * The pass run makes 10 calls. With one entry per failure and one pop per checked failure, the queue never holds an entry between calls there, so the length only repeats the same states.
  * The violation run makes 3 calls with a ring of 3. A stale entry needs two calls.

**Fairness.**

* Only `NameIndex` checks liveness. Its loop is straight-line code on the calling thread, so `WF_vars(LoopStep)` and `WF_vars(Return)` are what the code guarantees.
* The other runs check safety and assume no fairness.
* `Done` actions make the end of a program explicit, so deadlock checking stays on everywhere.

## 5. Not modelled, and why

* `AsymmetricPublicKey` and `AsymmetricKeypair` are not in the sources.
* `OpenSSLLib` only forwards calls one to one.
* Friend-only visibility is a compile-time matter.
* Concurrency: the code starts no threads. OpenSSL's error queue is per thread, so the models have one thread.
* Whether keys loaded through an ENGINE keep it alive after `~HsmEngine` depends on the engine implementation (its reference counting). That is outside the sources.
* The `SSL_*_Ptr` holder types are declared in `openssl_wrap.h`, which is not in the sources. Their destructor calling the type's `*_free` (`DropHolder`) is modelled from `spec.md`. The holders of objects that are not linked to others here (CSR, CRL, CRL stack, BIO, MD/HMAC/CMAC contexts) are not separate actions.
* OpenSSL's reference counting (`*_up_ref`, `*_free`, the references `EVP_PKEY_CTX_new`, `set1` and `set0` take) is the environment. `UpRef` and `Unref` model it as in OpenSSL 1.1. `GenLeavesKeyOnFailure` = FALSE follows OpenSSL 1.1, whose `EVP_PKEY_keygen`/`paramgen` free `*ppkey` themselves on failure.
* Native error pushes are OpenSSL's behaviour. `CallSites` assumes one entry per failure in the pass run, and one or two in the violation run. The exceptions are named per site.
* The formatting of the message (`"%s: %d"`) is not modelled. Only which entry it reports matters to the properties.
