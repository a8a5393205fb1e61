--------------------------- MODULE MCPortScanners ---------------------------
(* Instances of PortScanners for TLC.                                       *)
EXTENDS PortScanners

\* Two ports of one host, probed at once.
TwoPorts == [web |-> [ip |-> 1, port |-> 80], ssh |-> [ip |-> 1, port |-> 22]]

=============================================================================
