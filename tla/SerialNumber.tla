---------------------------- MODULE SerialNumber ----------------------------
(***************************************************************************)
(* The serial number of one X509 certificate and the wrappers that write   *)
(* and read it (openssl_wrap.cpp): _X509_set_serialNumber, and the three   *)
(* readers _X509_get_serialNumber (through Asn1IntegerToInt64),            *)
(* _X509_get_serialNumber_dec (Asn1IntegerToString) and                    *)
(* _X509_get_serialNumber_bin (Asn1IntegerToBinary).                       *)
(*                                                                         *)
(* The certificate's serial is an ASN1_INTEGER: any integer.  The program  *)
(* writes it from a uint64_t through ASN1_INTEGER_set, which takes a       *)
(* long; a certificate parsed from DER may carry any value, negative ones  *)
(* and ones wider than long included.  Widths are scaled: long has         *)
(* LongBits bits, uint64_t as many, and a byte ByteBits bits.              *)
(*                                                                         *)
(* What the readers return is modelled by what it means: the decimal       *)
(* string BN_bn2dec produces is a sign and a digit sequence, the binary    *)
(* form BN_bn2bin produces is the big-endian bytes of the magnitude.       *)
(* Each reader's last outcome is kept, and forgotten when the serial       *)
(* changes, so the readers can be compared on the same serial.             *)
(***************************************************************************)
EXTENDS Integers, Sequences, SequencesExt, CheckedCall

CONSTANTS
  LongBits,      \* width of long and of uint64_t
  ByteBits,      \* width of a byte
  CertSerials,   \* serials a parsed certificate may carry
  None,          \* a reader not run since the serial last changed
  Throw          \* a call that threw OpenSSLException

ASSUME
  /\ LongBits \in Nat \ {0, 1}
  /\ ByteBits \in Nat \ {0}
  /\ CertSerials \subseteq Int

VARIABLES
  serial,    \* the certificate's ASN1_INTEGER serial
  written,   \* the uint64_t last stored by _X509_set_serialNumber, or None
  intRead,   \* last outcome of _X509_get_serialNumber
  decRead,   \* last outcome of _X509_get_serialNumber_dec
  binRead    \* last outcome of _X509_get_serialNumber_bin

vars == <<serial, written, intRead, decRead, binRead>>

LongMax == 2^(LongBits - 1) - 1          \* std::numeric_limits<long>::max()
Uint64Max == 2^LongBits - 1              \* largest uint64_t
Uint64Values == 0..Uint64Max
ByteBase == 2^ByteBits

(***************************************************************************)
(* What OpenSSL computes.  Magnitude digits are most significant first.    *)
(***************************************************************************)
Abs(v) == IF v < 0 THEN -v ELSE v

RECURSIVE Digits(_, _)
Digits(n, base) == IF n = 0 THEN <<>> ELSE Digits(n \div base, base) \o <<n % base>>

\* Value of a digit sequence, most significant digit first.
DigitsValue(s, base) == FoldLeft(LAMBDA acc, d : acc * base + d, 0, s)

\* BN_bn2dec: a sign and the decimal digits; zero is "0".
BN_bn2dec(v) ==
  [neg |-> v < 0, digits |-> IF v = 0 THEN <<0>> ELSE Digits(Abs(v), 10)]

DecValue(d) == IF d.neg THEN -DigitsValue(d.digits, 10) ELSE DigitsValue(d.digits, 10)

\* BN_num_bytes: bytes of the magnitude; 0 for zero.
BN_num_bytes(v) == Len(Digits(Abs(v), ByteBase))

\* BN_bn2bin: the magnitude's bytes; the sign is not written.
BN_bn2bin(v) == Digits(Abs(v), ByteBase)

\* ASN1_INTEGER_get: the value as a long, -1 when it does not fit.
ASN1_INTEGER_get(v) == IF v \in -(LongMax + 1)..LongMax THEN v ELSE -1

\* Conversion of a long to uint64_t, and of a uint64_t to long (two's
\* complement, as both casts are on the supported platforms).
LongToUint64(v) == v % 2^LongBits
Uint64ToLong(u) == IF u > LongMax THEN u - 2^LongBits ELSE u

DecStrings == {BN_bn2dec(v) : v \in CertSerials \cup Uint64Values}
ByteStrings == {BN_bn2bin(v) : v \in CertSerials \cup Uint64Values}

TypeOK ==
  /\ serial \in CertSerials \cup Uint64Values
  /\ written \in (0..LongMax) \cup {None}
  /\ intRead \in Uint64Values \cup {None, Throw}
  /\ decRead \in DecStrings \cup {None, Throw}
  /\ binRead \in ByteStrings \cup {None, Throw}

(***************************************************************************)
(* The wrappers, as results of the ASN1_INTEGER they read.                 *)
(***************************************************************************)

\* Asn1IntegerToInt64 with the zero comparison left out.
Asn1IntegerToInt64NoLowerBound(v) ==
  IF v > LongMax THEN Throw ELSE LongToUint64(ASN1_INTEGER_get(v))

\* Asn1IntegerToInt64 comparing with >= against LONG_MAX.
Asn1IntegerToInt64AtMost(v) ==
  IF v >= LongMax \/ v < 0 THEN Throw ELSE LongToUint64(ASN1_INTEGER_get(v))

\* Range check against the ASN1_INTEGERs 0 and LONG_MAX, then
\* static_cast<uint64_t>(ASN1_INTEGER_get(number)).
Asn1IntegerToInt64(v) ==
  IF v > LongMax \/ v < 0 THEN Throw ELSE LongToUint64(ASN1_INTEGER_get(v))

\* ASN1_INTEGER_to_BN, then BN_bn2dec, copied into a std::string.
Asn1IntegerToString(v) == BN_bn2dec(v)

\* resize(BN_num_bytes) checked IsPositive, BN_bn2bin checked IsPositive,
\* then truncated to what BN_bn2bin wrote.
Asn1IntegerToBinary(v) ==
  IF ~ReturnValueIsOk("IsPositive", BN_num_bytes(v)) THEN Throw
  ELSE LET out == BN_bn2bin(v) IN
       IF ~ReturnValueIsOk("IsPositive", Len(out)) THEN Throw ELSE out

Init ==
  /\ serial \in CertSerials
  /\ written = None
  /\ intRead = None
  /\ decRead = None
  /\ binRead = None

\* A new serial forgets what the readers returned for the old one.
SerialBecomes(v) ==
  /\ serial' = v
  /\ intRead' = None
  /\ decRead' = None
  /\ binRead' = None

\* _X509_set_serialNumber without the LONG_MAX check.
SetSerialUnchecked(s) ==
  /\ SerialBecomes(Uint64ToLong(s))
  /\ written' = s

\* _X509_set_serialNumber(x, serial): a serial above LONG_MAX throws and
\* leaves the certificate alone; otherwise ASN1_INTEGER_set stores it
\* (passed as long) and X509_set_serialNumber copies it into x.
SetSerial(s) ==
  \/ /\ s > LongMax
     /\ UNCHANGED vars
  \/ /\ s <= LongMax
     /\ SerialBecomes(Uint64ToLong(s))
     /\ written' = s

\* The certificate is replaced by one parsed from DER with serial v.
LoadCert(v) ==
  /\ SerialBecomes(v)
  /\ written' = None

GetSerial ==
  /\ intRead' = Asn1IntegerToInt64(serial)
  /\ UNCHANGED <<serial, written, decRead, binRead>>

GetSerialDec ==
  /\ decRead' = Asn1IntegerToString(serial)
  /\ UNCHANGED <<serial, written, intRead, binRead>>

GetSerialBin ==
  /\ binRead' = Asn1IntegerToBinary(serial)
  /\ UNCHANGED <<serial, written, intRead, decRead>>

Next ==
  \/ \E s \in Uint64Values : SetSerial(s)
  \/ \E v \in CertSerials : LoadCert(v)
  \/ GetSerial
  \/ GetSerialDec
  \/ GetSerialBin

Spec == Init /\ [][Next]_vars

(***************************************************************************)
(* Properties.                                                             *)
(***************************************************************************)

\* A serial stored by _X509_set_serialNumber is read back unchanged by
\* _X509_get_serialNumber: the uint64_t -> long -> ASN1_INTEGER -> range
\* check -> uint64_t chain loses nothing for every serial set accepts.
RoundTrip ==
  written # None /\ intRead # None => intRead = written

\* Whenever _X509_get_serialNumber returns a value, the decimal reader,
\* run on the same serial, denotes that value, and so does the binary
\* reader except at serial 0, the one value it throws for (BN_num_bytes
\* is 0 there; serial_bin_vs_dec reports it): the range check and the
\* long/uint64_t casts agree with what BN_bn2dec and BN_bn2bin print.
ReadersAgree ==
  /\ intRead \in Uint64Values /\ decRead # None
       => decRead \in DecStrings /\ DecValue(decRead) = intRead
  /\ intRead \in Uint64Values /\ binRead # None
       => IF intRead = 0 THEN binRead = Throw
          ELSE binRead \in ByteStrings /\ DigitsValue(binRead, ByteBase) = intRead

\* _X509_get_serialNumber_bin and _X509_get_serialNumber_dec, run on the
\* same serial, agree: whenever the decimal reader returns a number, the
\* binary reader returns the bytes of that same number.
BinaryAgreesWithDecimal ==
  decRead \in DecStrings /\ binRead # None
    => /\ binRead \in ByteStrings
       /\ DigitsValue(binRead, ByteBase) = DecValue(decRead)

=============================================================================
