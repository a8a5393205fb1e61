---------------------------- MODULE ScanPromise ----------------------------
(***************************************************************************)
(* What run_scan (src/engine/mod.rs) promises its caller, with nothing     *)
(* said about streams, buffers, permits or the order in which probes end:  *)
(* every (target, port) pair is given one verdict, once; the report comes  *)
(* after the last of them; and a host is reported up exactly when one of   *)
(* its own verdicts is not Filtered.                                       *)
(***************************************************************************)
EXTENDS ScanModel, FiniteSets

CONSTANTS
  Probes,        \* the (target, port) pairs to scan
  HostOf(_),     \* the address a probe is for
  NoVerdict      \* a probe that has none yet

VARIABLES
  recorded,      \* the verdict of each probe
  published,     \* whether the report has been returned
  up,            \* hosts the report calls up
  hostsUp        \* the report's hosts_up counter

vars == <<recorded, published, up, hostsUp>>

Scanned == {HostOf(p) : p \in Probes}

VerdictsOf(ip) == {recorded[p] : p \in {q \in Probes : HostOf(q) = ip}}

Init ==
  /\ recorded = [p \in Probes |-> NoVerdict]
  /\ published = FALSE
  /\ up = {}
  /\ hostsUp = 0

Record(p) ==
  /\ ~published
  /\ recorded[p] = NoVerdict
  /\ \E v \in PortStatus : recorded' = [recorded EXCEPT ![p] = v]
  /\ UNCHANGED <<published, up, hostsUp>>

Publish ==
  /\ ~published
  /\ \A p \in Probes : recorded[p] # NoVerdict
  /\ published' = TRUE
  /\ up' = {ip \in Scanned : AnyAnswer(VerdictsOf(ip))}
  /\ hostsUp' = Cardinality(up')
  /\ UNCHANGED recorded

Next == Publish \/ \E p \in Probes : Record(p)

Safety == Init /\ [][Next]_vars

Spec == Safety /\ WF_vars(Next)

=============================================================================
