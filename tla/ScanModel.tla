----------------------------- MODULE ScanModel -----------------------------
(***************************************************************************)
(* The vocabulary of src/model.rs that the other modules share: verdicts   *)
(* on ports and hosts, the transport of a probe and how a service label    *)
(* was obtained.                                                           *)
(***************************************************************************)

\* A port's verdict.  OpenFiltered is the UDP "no response" verdict.
PortStatus == {"Open", "Closed", "Filtered", "OpenFiltered"}

HostStatus == {"Up", "Down"}

TransportProtocol == {"Tcp", "Udp"}

\* The engine's test for a live host: some port did not come out Filtered.
AnyAnswer(statuses) == \E s \in statuses : s # "Filtered"

\* What the stages after the scan treat as worth another look.
PlausiblyOpen(status) == status \in {"Open", "OpenFiltered"}

=============================================================================
