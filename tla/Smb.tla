-------------------------------- MODULE Smb --------------------------------
(***************************************************************************)
(* src/enumeration/smb.rs: three probes of a port, each on a connection of *)
(* its own and each whatever became of the others: an SMB2 negotiation, an *)
(* SMB1 negotiation, and a session without credentials with the shares it  *)
(* can list.                                                               *)
(*                                                                         *)
(* A reply is the length its NBSS prefix announces, the signature it       *)
(* begins with, the signing bit, and whether all of it arrives.            *)
(***************************************************************************)
EXTENDS EnumStage

CONSTANT Replies     \* [len, sig, signing, whole]

\* The bound of nbss_request, and the largest length three bytes can announce.
MaxFrame == 2^20
Announced == 0..(2^24 - 1)

ASSUME SmbAssumption ==
  \A r \in Replies : /\ r.len \in Announced /\ r.sig \in {"smb1", "smb2", "other"}
                     /\ r.len < 4 => r.sig = "other"
                     /\ {r.signing, r.whole} \subseteq BOOLEAN

\* The body of a negotiate response begins after this header; the fields read
\* from it end six bytes further on (MS-SMB2 2.2.4).
HeaderLen == 64
FieldsEnd == HeaderLen + 6

\* nbss_request: a connection, a write or a read that fails gives nothing either.
Received == {r \in Replies : r.len > 0 /\ r.len <= MaxFrame /\ r.whole}

SmbFinding(kind, severity) == <<Finding(kind, Here, severity, "smb")>>

\* What probe_negotiate makes of a reply.
Negotiated(r) ==
  IF r.len < FieldsEnd \/ r.sig # "smb2" THEN <<>>
  ELSE SmbFinding("dialect", "Info") \o
       SmbFinding("signing", IF r.signing THEN "Info" ELSE "Medium")

\* What probe_smb1 makes of one.
Legacy(r) ==
  IF r.len >= 4 /\ r.sig = "smb1" THEN SmbFinding("smbv1", "High") ELSE <<>>

-----------------------------------------------------------------------------
SmbNegotiate ==
  /\ Begins("smb")
  /\ Touch(Head(todo).host)
  /\ \/ Continue("smb1", [found |-> <<>>]) /\ UNCHANGED seen
     \/ \E r \in Received :
          /\ Continue("smb1", [found |-> Negotiated(r)])
          /\ Saw(Here, {<<"negotiate", r>>})

\* Mutant: no answer to the SMB1 request ends the port, as the ? of a function
\* for all three probes would.
SmbLegacyOrNothing ==
  /\ At("smb", "smb1")
  /\ \/ Conclude(<<>>) /\ UNCHANGED seen
     \/ \E r \in Received :
          /\ Continue("session", [found |-> local.found \o Legacy(r)])
          /\ Saw(Here, {<<"legacy", r>>})
  /\ UNCHANGED contacts

SmbLegacy ==
  /\ At("smb", "smb1")
  /\ \/ Continue("session", local) /\ UNCHANGED seen
     \/ \E r \in Received :
          /\ Continue("session", [found |-> local.found \o Legacy(r)])
          /\ Saw(Here, {<<"legacy", r>>})
  /\ UNCHANGED contacts

\* ipc_connect as guest is refused, fails or times out; or it is granted.
SmbSession ==
  /\ At("smb", "session")
  /\ \/ Conclude(local.found) /\ UNCHANGED seen
     \/ /\ Continue("shares", [found |-> local.found \o SmbFinding("null_session", "High")])
        /\ Saw(Here, {<<"session">>})
  /\ UNCHANGED contacts

\* list_shares fails or returns no share with a name; or it lists some.
SmbShares ==
  /\ At("smb", "shares")
  /\ \/ Conclude(local.found) /\ UNCHANGED seen
     \/ Conclude(local.found \o SmbFinding("shares", "High")) /\ Saw(Here, {<<"shares">>})
  /\ UNCHANGED contacts

SmbStep == SmbNegotiate \/ SmbLegacy \/ SmbSession \/ SmbShares

-----------------------------------------------------------------------------
(* When a port is done, each finding is on it exactly if the server gave    *)
(* reason for it, whichever of the three probes failed: dialect and signing *)
(* come from an SMB2 reply long enough to hold both fields, with the        *)
(* severity its signing bit calls for, SMBv1 from an SMB1 reply, and shares *)
(* only ever beside the null session that listed them.                      *)
SmbAsServed ==
  \A r \in ToSet(summary) :
    LET p == Place(r)
        Said(kind) == Found("smb", kind, p) # {}
        Got(probe) == {q \in Replies : Happened("smb", p, <<probe, q>>)}
        negotiated == {q \in Got("negotiate") : q.sig = "smb2" /\ q.len >= FieldsEnd}
    IN DoneWith("smb", p) =>
         /\ Said("dialect") <=> negotiated # {}
         /\ {f.severity : f \in Found("smb", "signing", p)} =
              {IF q.signing THEN "Info" ELSE "Medium" : q \in negotiated}
         /\ Said("smbv1") <=> \E q \in Got("legacy") : q.sig = "smb1"
         /\ Said("null_session") <=> Happened("smb", p, <<"session">>)
         /\ Said("shares") <=> Happened("smb", p, <<"shares">>)
         /\ Said("shares") => Said("null_session")

=============================================================================
