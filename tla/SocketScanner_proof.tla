------------------------ MODULE SocketScanner_proof -------------------------
(***************************************************************************)
(* The safety of the connect and UDP probes, for any set of probes and the *)
(* protocol of either scanner.                                             *)
(***************************************************************************)
EXTENDS SocketScanner, TLAPS

\* Before a probe begins its socket holds nothing and its timer does not run.
NothingYet == \A p \in Sockets : socket[p] = "idle" => answer[p] = None /\ ~expired[p]

IInv == SocketTypeOK /\ NothingYet /\ AnswerDecides

-----------------------------------------------------------------------------
(* What the match on a socket's result returns is a verdict, and never the  *)
(* one of a silent probe.                                                   *)
LEMMA OutcomeVerdict ==
  \A outcome \in Outcomes : /\ OnOutcome(outcome) \in PortStatus \ {"OpenFiltered"}
                            /\ OnOutcome(outcome) # None
                            /\ outcome # None
BY DEF Outcomes, OnOutcome, PortStatus, None

LEMMA Initially == SocketInit => IInv
BY DEF SocketInit, IInv, SocketTypeOK, NothingYet, AnswerDecides, None, Outcomes

(* The verdict of one probe, and what decides it, stay together when the    *)
(* probe is left alone.                                                     *)
LEMMA OneStep ==
  ASSUME IInv, NEW p \in Sockets,
         Begin(p) \/ DatagramFails(p) \/ DatagramRefused(p) \/ Arrive(p) \/ Expire(p) \/ Poll(p)
  PROVE  IInv'
<1> USE DEF IInv, SocketTypeOK, NothingYet, AnswerDecides
<1>1. CASE Begin(p)
  BY <1>1 DEF Begin, None
<1>2. CASE DatagramFails(p)
  BY <1>2 DEF DatagramFails, Resolve, PortStatus, None
<1>3. CASE DatagramRefused(p)
  BY <1>3 DEF DatagramRefused, Resolve, PortStatus, None, Outcomes, OnOutcome
<1>4. CASE Arrive(p)
  BY <1>4, OutcomeVerdict DEF Arrive, None
<1>5. CASE Expire(p)
  BY <1>5 DEF Expire, None
<1>6. CASE Poll(p)
  BY <1>6, OutcomeVerdict DEF Poll, Resolve, OnSilence, PortStatus, None, TransportProtocol
<1> QED BY <1>1, <1>2, <1>3, <1>4, <1>5, <1>6

LEMMA Inductive == IInv /\ [SocketNext]_socketVars => IInv'
<1> SUFFICES ASSUME IInv, [SocketNext]_socketVars PROVE IInv'
  OBVIOUS
<1>1. CASE UNCHANGED socketVars
  BY <1>1 DEF IInv, SocketTypeOK, NothingYet, AnswerDecides, socketVars
<1>2. CASE SocketNext /\ ~UNCHANGED socketVars
  BY <1>2, OneStep DEF SocketNext, SocketsClosed
<1> QED BY <1>1, <1>2

LEMMA Safe == SocketSpec => []IInv
BY Initially, Inductive, PTL DEF SocketSpec

(* Every probe has its stage, and a verdict exactly when it has ended.      *)
THEOREM TypeCorrect == SocketSpec => []SocketTypeOK
<1>1. IInv => SocketTypeOK
  BY DEF IInv
<1> QED BY <1>1, Safe, PTL

(* However the answer and the timer race, an answer that was there when the *)
(* probe ended decides its verdict, and OpenFiltered is a silent datagram.  *)
THEOREM AnAnswerDecides == SocketSpec => []AnswerDecides
<1>1. IInv => AnswerDecides
  BY DEF IInv
<1> QED BY <1>1, Safe, PTL

=============================================================================
