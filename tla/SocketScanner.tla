--------------------------- MODULE SocketScanner ---------------------------
(***************************************************************************)
(* scan_port of the ConnectScanner (src/scanners/connect.rs) and of the    *)
(* UdpScanner (src/scanners/udp.rs): one socket per probe, and a timer     *)
(* that runs against the answer.  tokio's timeout looks at the answer      *)
(* before it looks at the clock, whenever it is polled.                    *)
(***************************************************************************)
EXTENDS ScanModel

CONSTANT Sockets  \* the probes

VARIABLES
  protocol,      \* "Tcp" for the ConnectScanner, "Udp" for the UdpScanner
  socket,        \* how far each probe has come
  answer,        \* what the kernel holds for its socket
  expired,       \* whether its timer has run out
  verdict        \* its verdict

socketVars == <<protocol, socket, answer, expired, verdict>>

-----------------------------------------------------------------------------
None == "None"

\* A connection or a datagram, a reset or an ICMP port unreachable, or any
\* other error (no route, host unreachable).
Outcomes == {"reply", "refused", "error"}

\* The match on the result of the connect or the recv.
OnOutcome(outcome) ==
  CASE outcome = "reply" -> "Open"
    [] outcome = "refused" -> "Closed"
    [] outcome = "error" -> "Filtered"

\* The verdict when the time is up.
OnSilence == IF protocol = "Tcp" THEN "Filtered" ELSE "OpenFiltered"

-----------------------------------------------------------------------------
SocketInit ==
  /\ protocol \in TransportProtocol
  /\ socket = [p \in Sockets |-> "idle"]
  /\ answer = [p \in Sockets |-> None]
  /\ expired = [p \in Sockets |-> FALSE]
  /\ verdict = [p \in Sockets |-> None]

Resolve(p, v) ==
  /\ socket' = [socket EXCEPT ![p] = "done"]
  /\ verdict' = [verdict EXCEPT ![p] = v]

\* The connect is issued, or the datagram has left: the timer is armed.
Begin(p) ==
  /\ socket[p] = "idle"
  /\ socket' = [socket EXCEPT ![p] = "waiting"]
  /\ UNCHANGED <<protocol, answer, expired, verdict>>

\* UDP: no socket, no peer, or the datagram is refused by the machine itself.
DatagramFails(p) ==
  /\ socket[p] = "idle" /\ protocol = "Udp"
  /\ Resolve(p, "Filtered")
  /\ UNCHANGED <<protocol, answer, expired>>

\* Mutant: a refused send is noted, and the answer awaited all the same.
RefusalIgnored(p) ==
  /\ socket[p] = "idle" /\ protocol = "Udp"
  /\ verdict' = [verdict EXCEPT ![p] = "Closed"]
  /\ socket' = [socket EXCEPT ![p] = "waiting"]
  /\ UNCHANGED <<protocol, answer, expired>>

\* UDP: send reports a port unreachable.
DatagramRefused(p) ==
  /\ socket[p] = "idle" /\ protocol = "Udp"
  /\ answer' = [answer EXCEPT ![p] = "refused"]
  /\ Resolve(p, "Closed")
  /\ UNCHANGED <<protocol, expired>>

\* The network's first answer reaches the socket, before the timer or after.
Arrive(p) ==
  /\ socket[p] = "waiting" /\ answer[p] = None
  /\ \E outcome \in Outcomes : answer' = [answer EXCEPT ![p] = outcome]
  /\ UNCHANGED <<protocol, socket, expired, verdict>>

Expire(p) ==
  /\ socket[p] = "waiting" /\ ~expired[p]
  /\ expired' = [expired EXCEPT ![p] = TRUE]
  /\ UNCHANGED <<protocol, socket, answer, verdict>>

\* Mutant: the clock is looked at first.
PollClockFirst(p) ==
  /\ socket[p] = "waiting" /\ (answer[p] # None \/ expired[p])
  /\ Resolve(p, IF expired[p] THEN OnSilence ELSE OnOutcome(answer[p]))
  /\ UNCHANGED <<protocol, answer, expired>>

\* The future is polled because one of the two is there.
Poll(p) ==
  /\ socket[p] = "waiting" /\ (answer[p] # None \/ expired[p])
  /\ Resolve(p, IF answer[p] # None THEN OnOutcome(answer[p]) ELSE OnSilence)
  /\ UNCHANGED <<protocol, answer, expired>>

AllClosed == \A p \in Sockets : socket[p] = "done"

SocketsClosed == AllClosed /\ UNCHANGED socketVars

SocketNext ==
  \/ \E p \in Sockets : \/ Begin(p) \/ DatagramFails(p) \/ DatagramRefused(p)
                       \/ Arrive(p) \/ Expire(p) \/ Poll(p)
  \/ SocketsClosed

SocketSpec == SocketInit /\ [][SocketNext]_socketVars

-----------------------------------------------------------------------------
SocketTypeOK ==
  /\ protocol \in TransportProtocol
  /\ socket \in [Sockets -> {"idle", "waiting", "done"}]
  /\ answer \in [Sockets -> Outcomes \cup {None}]
  /\ expired \in [Sockets -> BOOLEAN]
  /\ verdict \in [Sockets -> PortStatus \cup {None}]
  /\ \A p \in Sockets : verdict[p] # None <=> socket[p] = "done"

(* An answer that was there when the probe ended decides it, however close  *)
(* the timer was; a UDP probe that ran into its timer unanswered is         *)
(* OpenFiltered (README.md:189), and OpenFiltered means nothing else        *)
(* (model.rs:11).                                                           *)
AnswerDecides ==
  \A p \in Sockets :
    /\ socket[p] = "done" /\ answer[p] # None => verdict[p] = OnOutcome(answer[p])
    /\ socket[p] = "done" /\ answer[p] = None /\ expired[p] /\ protocol = "Udp"
         => verdict[p] = "OpenFiltered"
    /\ verdict[p] = "OpenFiltered" => protocol = "Udp" /\ answer[p] = None

=============================================================================
