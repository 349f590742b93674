------------------------------ MODULE Asn1Time ------------------------------
(***************************************************************************)
(* The validity times of one X509 certificate and the conversions of       *)
(* openssl_wrap.cpp between ASN1_TIME, time_t and                          *)
(* std::chrono::system_clock::time_point: _X509_set_notBefore/notAfter     *)
(* (time_point -> to_time_t -> _ASN1_TIME_from_time_t), the readers        *)
(* _X509_get_notBefore/notAfter (_asn1TimeToTimePoint) and                 *)
(* _asn1TimeToTimeT, with the helpers compare,                             *)
(* checkAsn1TimeFitsIntoLimits, secondsDiffToEpoch and _ASN1_TIME_diff.    *)
(*                                                                         *)
(* Times are integers of seconds since the epoch; a time_point is an       *)
(* integer of ticks, TicksPerSecond to the second (nanoseconds in the      *)
(* code).  Widths are scaled but keep the code's order of ranges:          *)
(* time_point seconds lie inside the ASN1_TIME range (years 0000-9999),    *)
(* and time_t covers that range when it has 64 bits and lies inside the    *)
(* time_point range when it has 32.  A day has SecondsPerDay seconds.      *)
(***************************************************************************)
EXTENDS Integers, CheckedCall

CONSTANTS
  SecondsPerDay,     \* 24 * 60 * 60
  TicksPerSecond,    \* time_point periods in one second
  TimePointBits,     \* width of time_point's tick count (int64)
  TimeTBits,         \* width of time_t
  MinAsn1TimeAsTimeT, MaxAsn1TimeAsTimeT,  \* constants of compare()
  SetTicks,          \* time_points the client sets
  CertTimes,         \* validity times a parsed certificate may carry
  None, Throw

ASSUME
  /\ SecondsPerDay \in Nat \ {0} /\ TicksPerSecond \in Nat \ {0}
  /\ TimePointBits \in Nat \ {0} /\ TimeTBits \in Nat \ {0}
  /\ CertTimes \subseteq MinAsn1TimeAsTimeT..MaxAsn1TimeAsTimeT

VARIABLES
  asn1,      \* field -> the certificate's ASN1_TIME, seconds since epoch
  written,   \* field -> time_point last passed to the setter, or None
  tpRead,    \* field -> last outcome of the time_point reader
  ttRead     \* field -> last outcome of _asn1TimeToTimeT on the field

vars == <<asn1, written, tpRead, ttRead>>

Fields == {"notBefore", "notAfter"}

\* Signed ranges of a given width, and the two's complement wrap into them.
Range(bits) == -(2^(bits - 1))..(2^(bits - 1) - 1)
Wrap(x, bits) == ((x + 2^(bits - 1)) % 2^bits) - 2^(bits - 1)

TimePoints == Range(TimePointBits)
TimeTs == Range(TimeTBits)
Asn1Times == MinAsn1TimeAsTimeT..MaxAsn1TimeAsTimeT

\* C++ integer division and remainder: truncation toward zero.
Quot(a, b) == IF a >= 0 THEN a \div b ELSE -((-a) \div b)
Rem(a, b) == a - b * Quot(a, b)

\* system_clock::to_time_t: duration_cast to seconds (toward zero), then
\* the conversion of the int64 count to time_t.
ToTimeT(tp) == Wrap(Quot(tp, TicksPerSecond), TimeTBits)

\* ASN1_TIME_diff(&days, &secs, from, to): to - from split into whole days
\* and the remaining seconds, both with the sign of the difference.
ASN1_TIME_diff(from, to) ==
  [days |-> Quot(to - from, SecondsPerDay), secs |-> Rem(to - from, SecondsPerDay)]

Lesser == "Lesser"
Greater == "Greater"
Equal == "Equal"

TypeOK ==
  /\ asn1 \in [Fields -> Asn1Times]
  /\ written \in [Fields -> SetTicks \cup {None}]
  /\ tpRead \in [Fields -> TimePoints \cup {None, Throw}]
  /\ ttRead \in [Fields -> TimeTs \cup {None, Throw}]

(***************************************************************************)
(* The conversions.                                                        *)
(***************************************************************************)

\* secondsDiffToEpoch: 24*60*60*days + seconds of the diff from epoch.
secondsDiffToEpoch(a) ==
  LET d == ASN1_TIME_diff(0, a) IN SecondsPerDay * d.days + d.secs

\* compare() with the out-of-range results swapped.
compareSwapped(a, t) ==
  IF t > MaxAsn1TimeAsTimeT THEN Greater
  ELSE IF t < MinAsn1TimeAsTimeT THEN Lesser
  ELSE LET d == ASN1_TIME_diff(a, t) IN
       IF d.days < 0 \/ d.secs < 0 THEN Greater
       ELSE IF d.days > 0 \/ d.secs > 0 THEN Lesser ELSE Equal

\* compare(asn1Time, timeT): a time_t outside the ASN1_TIME range decides
\* at once; otherwise the sign of the diff from asn1Time to timeT.
compare(a, t) ==
  IF t > MaxAsn1TimeAsTimeT THEN Lesser
  ELSE IF t < MinAsn1TimeAsTimeT THEN Greater
  ELSE LET d == ASN1_TIME_diff(a, t) IN
       IF d.days < 0 \/ d.secs < 0 THEN Greater
       ELSE IF d.days > 0 \/ d.secs > 0 THEN Lesser ELSE Equal

\* checkAsn1TimeFitsIntoLimits: TRUE when it does not throw.
checkAsn1TimeFitsIntoLimits(a, minValue, maxValue) ==
  /\ compare(a, minValue) # Lesser
  /\ compare(a, maxValue) # Greater

\* _asn1TimeToTimePoint: limits are to_time_t of time_point min and max;
\* the result is epoch + 1s * secondsDiffToEpoch (seconds to ticks in int64).
asn1TimeToTimePoint(a) ==
  IF ~checkAsn1TimeFitsIntoLimits(a, ToTimeT(-(2^(TimePointBits - 1))),
                                     ToTimeT(2^(TimePointBits - 1) - 1))
  THEN Throw
  ELSE Wrap(TicksPerSecond * secondsDiffToEpoch(a), TimePointBits)

\* _asn1TimeToTimeT: limits are those of time_t; the int64 is cast to time_t.
asn1TimeToTimeT(a) ==
  IF ~checkAsn1TimeFitsIntoLimits(a, -(2^(TimeTBits - 1)), 2^(TimeTBits - 1) - 1)
  THEN Throw
  ELSE Wrap(secondsDiffToEpoch(a), TimeTBits)

\* ASN1_TIME_set(nullptr, t): NULL (OpensslCallPtr throws) when t is not a
\* year 0000-9999 time, and whenever its allocation fails.
ASN1_TIME_set(t) == IF t \in Asn1Times THEN {t, Null} ELSE {Null}

(***************************************************************************)
(* The certificate and the client.                                         *)
(***************************************************************************)

Init ==
  /\ asn1 \in [Fields -> CertTimes]
  /\ written = [f \in Fields |-> None]
  /\ tpRead = [f \in Fields |-> None]
  /\ ttRead = [f \in Fields |-> None]

\* The field f now holds the ASN1_TIME a; readings of f are forgotten.
FieldBecomes(f, a) ==
  /\ asn1' = [asn1 EXCEPT ![f] = a]
  /\ tpRead' = [tpRead EXCEPT ![f] = None]
  /\ ttRead' = [ttRead EXCEPT ![f] = None]

\* The setter storing the unchecked result of ASN1_TIME_set.
SetTimeUnchecked(f, tp) ==
  \E r \in ASN1_TIME_set(ToTimeT(tp)) :
     /\ FieldBecomes(f, r)
     /\ written' = [written EXCEPT ![f] = tp]

\* The setter passing the tick count instead of to_time_t(t).
SetTimeCount(f, tp) ==
  \E r \in ASN1_TIME_set(tp) :
     /\ ReturnValueIsOk("Ptr", r)
     /\ FieldBecomes(f, r)
     /\ written' = [written EXCEPT ![f] = tp]

\* _X509_set_notBefore / _X509_set_notAfter(x, t): _ASN1_TIME_from_time_t
\* of to_time_t(t), then the checked X509_set_notBefore/notAfter, which
\* copies the time into x.
SetTime(f, tp) ==
  \E r \in ASN1_TIME_set(ToTimeT(tp)) :
     \/ /\ ReturnValueIsOk("Ptr", r)
        /\ FieldBecomes(f, r)
        /\ written' = [written EXCEPT ![f] = tp]
     \/ /\ ~ReturnValueIsOk("Ptr", r)
        /\ UNCHANGED vars

\* The certificate is replaced by one parsed from DER.
LoadCert(nb, na) ==
  /\ asn1' = [notBefore |-> nb, notAfter |-> na]
  /\ written' = [f \in Fields |-> None]
  /\ tpRead' = [f \in Fields |-> None]
  /\ ttRead' = [f \in Fields |-> None]

\* _X509_get_notBefore / _X509_get_notAfter.
GetTimePoint(f) ==
  /\ tpRead' = [tpRead EXCEPT ![f] = asn1TimeToTimePoint(asn1[f])]
  /\ UNCHANGED <<asn1, written, ttRead>>

\* _asn1TimeToTimeT(_X509_get_notBefore_ASN1 / _notAfter_ASN1 (x)).
GetTimeT(f) ==
  /\ ttRead' = [ttRead EXCEPT ![f] = asn1TimeToTimeT(asn1[f])]
  /\ UNCHANGED <<asn1, written, tpRead>>

Next ==
  \/ \E f \in Fields, tp \in SetTicks : SetTime(f, tp)
  \/ \E nb, na \in CertTimes : LoadCert(nb, na)
  \/ \E f \in Fields : GetTimePoint(f)
  \/ \E f \in Fields : GetTimeT(f)

Spec == Init /\ [][Next]_vars

(***************************************************************************)
(* Properties.                                                             *)
(***************************************************************************)

\* Reference: the ASN1_TIME a as a time_point, when that can hold it.
RefTimePoint(a) == IF TicksPerSecond * a \in TimePoints THEN TicksPerSecond * a ELSE Throw
RefTimeT(a) == IF a \in TimeTs THEN a ELSE Throw

\* The readers are exact: _X509_get_notBefore/notAfter return the field's
\* time whenever a time_point can hold it and throw otherwise, and
\* _asn1TimeToTimeT does the same for time_t; compare() and the limits
\* computed with to_time_t must agree at every boundary.
ReadersExact ==
  \A f \in Fields :
    /\ tpRead[f] # None => tpRead[f] = RefTimePoint(asn1[f])
    /\ ttRead[f] # None => ttRead[f] = RefTimeT(asn1[f])

\* A time_point set through _X509_set_notBefore/notAfter is stored in the
\* certificate within one second of itself, and a validity period set in
\* order (notBefore not after notAfter) is stored in order.
SetStoresTime ==
  /\ \A f \in Fields :
       written[f] # None
         => TicksPerSecond * asn1[f] - written[f] \in -(TicksPerSecond - 1)..(TicksPerSecond - 1)
  /\ (\A f \in Fields : written[f] # None) /\ written.notBefore <= written.notAfter
       => asn1.notBefore <= asn1.notAfter

\* A time_point set through _X509_set_notBefore/notAfter is read back by
\* _X509_get_notBefore/notAfter, within one second of itself, whenever a
\* time_point can hold the time set.
SetGetRoundTrip ==
  \A f \in Fields :
    written[f] # None /\ tpRead[f] # None
      => /\ tpRead[f] \in TimePoints
         /\ tpRead[f] - written[f] \in -(TicksPerSecond - 1)..(TicksPerSecond - 1)

=============================================================================
