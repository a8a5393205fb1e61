---------------------------- MODULE MCScanEngine ----------------------------
(* Instances of ScanEngine for TLC.                                         *)
EXTENDS ScanEngine

\* Two hosts, the first named again at a distance, and two ports: six probes,
\* more than the buffer holds.
HostAgain == <<1, 2, 1>>
TwoPorts == <<22, 80>>

TcpVerdicts == {"Open", "Closed", "Filtered"}

=============================================================================
