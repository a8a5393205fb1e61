-------------------------------- MODULE Tls --------------------------------
(***************************************************************************)
(* src/enumeration/tls.rs: fetch_cert completes a handshake that accepts   *)
(* any certificate, inspect_cert reports on the leaf.  A certificate's     *)
(* time left is counted in quarters of a day from the moment it is looked  *)
(* at, negative once it is over.                                           *)
(***************************************************************************)
EXTENDS EnumStage

CONSTANT Certificates     \* [parses, dns_names, left]

ASSUME TlsAssumption ==
  \A c \in Certificates : {c.parses, c.dns_names} \subseteq BOOLEAN /\ c.left \in Int

QuartersPerDay == 4

\* The subtraction of two times has no result unless the first is the later one.
Remaining(left) == IF left > 0 THEN <<left>> ELSE <<>>

\* whole_days.
WholeDays(left) == left \div QuartersPerDay

TlsFinding(kind, severity) == <<Finding(kind, Here, severity, "cert")>>

\* Mutant: the days left are rounded up.
ExpiryRoundedUp(left) ==
  IF left < 0 THEN TlsFinding("expired", "High")
  ELSE IF Remaining(left) = <<>> THEN <<>>
  ELSE IF WholeDays(left + 3) <= 30 THEN TlsFinding("expiring_soon", "Medium")
  ELSE TlsFinding("validity", "Info")

Expiry(left) ==
  IF left < 0 THEN TlsFinding("expired", "High")
  ELSE IF Remaining(left) = <<>> THEN <<>>
  ELSE IF WholeDays(left) <= 30 THEN TlsFinding("expiring_soon", "Medium")
  ELSE TlsFinding("validity", "Info")

\* inspect_cert.
Inspected(cert) ==
  IF ~cert.parses THEN <<>>
  ELSE TlsFinding("issuer", "Info") \o TlsFinding("subject", "Info")
       \o (IF cert.dns_names THEN TlsFinding("san", "Info") ELSE <<>>)
       \o Expiry(cert.left)

-----------------------------------------------------------------------------
TlsConnect ==
  /\ Begins("tls")
  /\ Touch(Head(todo).host)
  /\ Conclude(<<>>) \/ Continue("handshake", <<>>)
  /\ UNCHANGED seen

\* The handshake fails, times out or presents no certificate, or it has a leaf.
TlsHandshake ==
  /\ At("tls", "handshake")
  /\ \/ Conclude(<<>>) /\ UNCHANGED seen
     \/ \E cert \in Certificates : Conclude(Inspected(cert)) /\ Saw(Here, {cert})
  /\ UNCHANGED contacts

TlsStep == TlsConnect \/ TlsHandshake

-----------------------------------------------------------------------------
(* A certificate that was presented and parses falls into exactly one class *)
(* of expiry, and the right one: expired once its time is over, expiring    *)
(* soon with less than 31 days left, valid with more; only at the very      *)
(* instant it runs out is it in none.  Nothing is said of a port that no    *)
(* certificate gave reason for.                                             *)
ExpiryClassified ==
  \A r \in ToSet(summary) :
    LET p == Place(r)
        certs == {c \in Certificates : Happened("tls", p, c) /\ c.parses}
        Said(kind) == Found("tls", kind, p) # {}
    IN /\ Said("expired") <=> \E c \in certs : c.left < 0
       /\ Said("expiring_soon") <=> \E c \in certs : c.left \in 1..(31 * QuartersPerDay - 1)
       /\ Said("validity") <=> \E c \in certs : c.left >= 31 * QuartersPerDay
       /\ Said("san") <=> \E c \in certs : c.dns_names
       /\ Said("issuer") <=> certs # {}

=============================================================================
