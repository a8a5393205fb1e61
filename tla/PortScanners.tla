---------------------------- MODULE PortScanners ----------------------------
(***************************************************************************)
(* The PortScanner behind a run (src/main.rs): the command line and the    *)
(* privileges found decide, once and for every probe, between the raw      *)
(* SynScanner and the two scanners that own a socket per probe.            *)
(***************************************************************************)
EXTENDS SynScanner, SocketScanner

VARIABLE
  settings         \* cli.udp, cli.syn and caps.has_raw_socket

scannerVars == <<settings, vars, socketVars>>

-----------------------------------------------------------------------------
\* UDP comes first, and a SYN scan without the privilege falls back to connects.
UsesSyn == ~settings.udp /\ settings.syn /\ settings.has_raw_socket

ScannersInit ==
  /\ settings \in [udp : BOOLEAN, syn : BOOLEAN, has_raw_socket : BOOLEAN]
  /\ Init
  /\ SocketInit /\ protocol = (IF settings.udp THEN "Udp" ELSE "Tcp")

\* A step of the SynScanner, and one of a scanner with sockets.
Syn(step) == UsesSyn /\ step /\ UNCHANGED <<settings, socketVars>>

Socket(step) == ~UsesSyn /\ step /\ UNCHANGED <<settings, vars>>

ScannersNext == Syn(Next) \/ Socket(SocketNext)

(***************************************************************************)
(* A blocking thread runs on, the runtime polls what was woken, and timers *)
(* fire.  What the network sends, and when, is its own choice.             *)
(***************************************************************************)
Fairness ==
  /\ \A p \in Probes :
       /\ WF_scannerVars(Syn(Proceed(p))) /\ WF_scannerVars(Syn(Receive(p)))
       /\ WF_scannerVars(Syn(Tick(p))) /\ WF_scannerVars(Syn(TimeOut(p)))
  /\ \A p \in Sockets :
       /\ WF_scannerVars(Socket(Begin(p))) /\ WF_scannerVars(Socket(Expire(p)))
       /\ WF_scannerVars(Socket(Poll(p)))

FairSpec == ScannersInit /\ [][ScannersNext]_scannerVars /\ Fairness

-----------------------------------------------------------------------------
(* Every probe ends, whichever scanner runs it: unanswered, or (SYN) though *)
(* unrelated traffic may never stop, since the time left shrinks across the *)
(* packets looked at.                                                       *)
EveryProbeEnds == <>(IF UsesSyn THEN AllEnded ELSE AllClosed)

=============================================================================
