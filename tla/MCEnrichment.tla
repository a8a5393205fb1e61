---------------------------- MODULE MCEnrichment ----------------------------
(* Instances of Enrichment for TLC.                                         *)
EXTENDS Enrichment

\* The same port on two hosts, which Nmap is asked about together.
OnTwoHosts == <<[ip |-> 1, port |-> 80], [ip |-> 2, port |-> 80]>>

\* The verdicts that lead the stages different ways.
BothProtocols ==
  [Tcp |-> {"Open", "Closed", "Filtered"}, Udp |-> {"OpenFiltered", "Closed"}]

\* A full match, a bare name with a confidence beyond Nmap's scale, a version
\* without a name.
SomeServices ==
  {[name |-> "nmapname", conf |-> NoConfidence, cpe |-> TRUE,
    version |-> <<"version">>],
   [name |-> "nmapname", conf |-> 26, cpe |-> FALSE,
    version |-> <<>>],
   [name |-> None, conf |-> 3, cpe |-> FALSE,
    version |-> <<"version">>]}

=============================================================================
