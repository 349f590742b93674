----------------------------- MODULE MCAsn1Time -----------------------------
(* Validity times with a 3-second day, 3 ticks per second and a 6-bit      *)
(* tick count (time_points span seconds -10..10), inside an ASN1_TIME      *)
(* range of -12..12; time_t has 5 bits (a 64-bit time_t: it covers the     *)
(* ASN1 range) or 3 bits (a 32-bit time_t: inside the time_point range).   *)
(* As with int64 nanoseconds and a 32-bit time_t, where to_time_t of the   *)
(* time_point limits wraps to +-633437444 s, the 3-bit to_time_t of the    *)
(* limits +-10 s wraps to +-2 s: a narrower range, not an inverted one.    *)
EXTENDS Asn1Time

MCSetTicks == {-32, -31, -4, -2, -1, 0, 1, 2, 4, 30, 31}
MCCertTimes == {-12, -11, -10, -5, -4, -1, 0, 3, 4, 10, 11, 12}
MCMinAsn1TimeAsTimeT == -12

=============================================================================
