-------------------------- MODULE SynScanner_proof --------------------------
(***************************************************************************)
(* For any set of concurrent SYN probes, of any targets, source ports and  *)
(* time limits: the types, the truth of every verdict, and what becomes of *)
(* the handshakes the scanner began.                                       *)
(***************************************************************************)
EXTENDS SynScanner, TLAPS

\* What waits in a channel is an answer some target of ours really sends.
PacketsTrue ==
  \A q \in Probes : \A i \in DOMAIN rx[q] :
    /\ rx[q][i].flags = "SynAck" =>
         \E p \in Probes : /\ Target[p].ip = rx[q][i].ip
                           /\ Target[p].port = rx[q][i].source
                           /\ service[Target[p]] = "open"
    /\ rx[q][i].flags = "Rst" =>
         \E p \in Probes : /\ Target[p].ip = rx[q][i].ip
                           /\ Target[p].port = rx[q][i].source
                           /\ service[Target[p]] = "closed"

\* A probe listens only after its SYN has left, and has not left since.
SentBeforeListening ==
  \A p \in Probes :
    /\ p \in syn_sent => stage[p] \in {"listening", "done"}
    /\ stage[p] = "listening" => p \in syn_sent
    /\ status[p] = "Open" => p \in syn_sent

IInv ==
  /\ TypeOK
  /\ PacketsTrue
  /\ SentBeforeListening
  /\ VerdictTrue
  /\ HalfOpenExplained

-----------------------------------------------------------------------------
\* A matching packet comes from the very port the probe asked about.
LEMMA MatchingIsOwn ==
  ASSUME NEW p \in Probes, NEW q \in Probes, NEW packet \in Packets,
         Matches(q, packet),
         Target[p].ip = packet.ip, Target[p].port = packet.source
  PROVE  Target[p] = Target[q]
<1>1. Target[p] \in [ip : Nat, port : Nat] /\ Target[q] \in [ip : Nat, port : Nat]
  BY SynAssumption DEF SynAssumption
<1>2. Target[p].ip = Target[q].ip /\ Target[p].port = Target[q].port
  BY DEF Matches
<1> QED BY <1>1, <1>2

\* The head of a channel, and what is left of it.
LEMMA HeadAndTail ==
  ASSUME NEW s \in Seq(Packets), s # <<>>
  PROVE  /\ Head(s) \in Packets /\ 1 \in DOMAIN s /\ Head(s) = s[1]
         /\ Tail(s) \in Seq(Packets) /\ Len(Tail(s)) <= Len(s)
         /\ \A i \in DOMAIN Tail(s) : i + 1 \in DOMAIN s /\ Tail(s)[i] = s[i + 1]
  OBVIOUS

LEMMA InitInv == Init => IInv
<1> SUFFICES ASSUME Init PROVE IInv
  OBVIOUS
<1> USE SynAssumption DEF SynAssumption, Init
<1>1. TypeOK
  BY DEF TypeOK, Stages, NoVerdict
<1>2. PacketsTrue
  BY DEF PacketsTrue
<1>3. SentBeforeListening /\ VerdictTrue /\ HalfOpenExplained
  BY DEF SentBeforeListening, VerdictTrue, HalfOpenExplained, NoVerdict
<1> QED BY <1>1, <1>2, <1>3 DEF IInv

-----------------------------------------------------------------------------
\* A probe that ends with a verdict it may give, and resets what it must.
LEMMA ReturnInv ==
  ASSUME IInv, NEW p \in Probes,
         NEW v \in {"Open", "Closed", "Filtered"},
         Return(p, v), stage[p] # "done",
         UNCHANGED <<src_port, service, syn_sent>>,
         no_channel' \in {no_channel, no_channel \cup {p}},
         IF v = "Open" THEN Reset(p) ELSE UNCHANGED <<rst_sent, rst_failed>>,
         v = "Open" => service[Target[p]] = "open" /\ stage[p] = "listening",
         v = "Closed" => \/ service[Target[p]] = "closed"
                         \/ p \in no_channel' /\ stage[p] = "bound"
  PROVE  IInv'
<1> USE DEF IInv, Return
<1>1. TypeOK'
  <2>1. rx' \in [Probes -> Seq(Packets)] /\ \A q \in Probes : Len(rx'[q]) <= RxBound
    BY SynAssumption DEF TypeOK, SynAssumption
  <2>2. elapsed' \in [Probes -> 0..Timeout]
    BY SynAssumption DEF TypeOK, SynAssumption
  <2>3. rst_failed' \subseteq Probes
    BY DEF TypeOK, Reset
  <2> QED BY <2>1, <2>2, <2>3 DEF TypeOK, Stages, NoVerdict
<1>2. PacketsTrue'
  <2>1. \A q \in Probes : rx'[q] = rx[q] \/ rx'[q] = <<>>
    BY DEF TypeOK
  <2> QED BY <2>1 DEF PacketsTrue
<1>3. SentBeforeListening'
  BY DEF TypeOK, SentBeforeListening
<1>4. VerdictTrue'
  BY DEF TypeOK, VerdictTrue
<1>5. HalfOpenExplained'
  <2>1. \A q \in Probes : Connection(q)' = Connection(q)
    BY DEF Connection
  <2>2. /\ rst_sent \subseteq rst_sent' /\ rst_failed \subseteq rst_failed'
        /\ v = "Open" => Connection(p) \in rst_sent' \/ p \in rst_failed'
        /\ \A c \in rst_sent' : c \in rst_sent \/ (c = Connection(p) /\ v = "Open")
    <3>1. CASE v = "Open" /\ rst_sent' = rst_sent \cup {Connection(p)} /\ UNCHANGED rst_failed
      BY <3>1
    <3>2. CASE v = "Open" /\ rst_failed' = rst_failed \cup {p} /\ UNCHANGED rst_sent
      BY <3>2
    <3>3. CASE v # "Open" /\ UNCHANGED <<rst_sent, rst_failed>>
      BY <3>3
    <3> QED BY <3>1, <3>2, <3>3 DEF Reset
  <2>3. \A q \in Probes : stage'[q] = (IF q = p THEN "done" ELSE stage[q])
                          /\ status'[q] = (IF q = p THEN v ELSE status[q])
    BY DEF TypeOK
  <2>4. ASSUME NEW q \in syn_sent, stage'[q] = "done", service[Target[q]] = "open",
               Connection(q) \notin rst_sent'
        PROVE  status'[q] = "Filtered" \/ q \in rst_failed'
    <3>1. q \in Probes
      BY DEF TypeOK
    <3>2. CASE q = p
      BY <2>2, <2>3, <2>4, <3>2 DEF SentBeforeListening
    <3>3. CASE q # p
      BY <2>2, <2>3, <2>4, <3>1, <3>3 DEF HalfOpenExplained
    <3> QED BY <3>2, <3>3
  <2>5. ASSUME NEW c \in rst_sent'
        PROVE  \E q \in syn_sent : /\ Connection(q) = c
                                   /\ status'[q] = "Open" /\ service[Target[q]] = "open"
    <3>1. CASE c \in rst_sent
      <4>1. PICK q \in syn_sent : /\ Connection(q) = c
                                  /\ status[q] = "Open" /\ service[Target[q]] = "open"
        BY <3>1 DEF HalfOpenExplained
      <4>2. q \in Probes /\ q # p
        BY <4>1 DEF TypeOK, NoVerdict
      <4> QED BY <2>3, <4>1, <4>2
    <3>2. CASE c = Connection(p) /\ v = "Open"
      BY <2>3, <3>2 DEF SentBeforeListening
    <3> QED BY <2>2, <3>1, <3>2
  <2>6. \A q \in syn_sent : q \in Probes
    BY DEF TypeOK
  <2> QED BY <2>1, <2>4, <2>5, <2>6 DEF HalfOpenExplained
<1> QED BY <1>1, <1>2, <1>3, <1>4, <1>5

\* Before the SYN leaves.
LEMMA ProceedInv ==
  ASSUME IInv, NEW p \in Probes, Proceed(p)
  PROVE  IInv'
<1>1. CASE NoRoute(p)
  BY <1>1, ReturnInv DEF NoRoute, Histories
<1>2. CASE PickPort(p)
  <2> USE <1>2 DEF PickPort, IInv, Histories
  <2>1. TypeOK'
    BY SynAssumption DEF TypeOK, Stages, SynAssumption
  <2>2. PacketsTrue'
    BY DEF PacketsTrue
  <2>3. SentBeforeListening' /\ VerdictTrue'
    BY DEF TypeOK, SentBeforeListening, VerdictTrue
  <2>4. HalfOpenExplained'
    <3>1. \A q \in Probes : q # p => Connection(q)' = Connection(q)
      BY DEF Connection, TypeOK
    <3>2. \A q \in syn_sent : q \in Probes /\ q # p /\ stage'[q] = stage[q]
      BY DEF SentBeforeListening, TypeOK
    <3> QED BY <3>1, <3>2 DEF HalfOpenExplained
  <2> QED BY <2>1, <2>2, <2>3, <2>4
<1>3. CASE OpenChannel(p)
  <2> USE <1>3 DEF OpenChannel, IInv, Histories
  <2>1. TypeOK'
    BY DEF TypeOK, Stages
  <2>2. PacketsTrue' /\ VerdictTrue'
    BY DEF PacketsTrue, VerdictTrue
  <2>3. SentBeforeListening'
    BY DEF TypeOK, SentBeforeListening
  <2>4. HalfOpenExplained'
    <3>1. \A q \in Probes : stage'[q] = "done" => stage[q] = "done"
      BY DEF TypeOK
    <3>2. \A q \in syn_sent : q \in Probes
      BY DEF TypeOK
    <3> QED BY <3>1, <3>2 DEF HalfOpenExplained, Connection
  <2> QED BY <2>1, <2>2, <2>3, <2>4
<1>4. CASE ChannelFails(p)
  BY <1>4, ReturnInv DEF ChannelFails
<1>5. CASE Send(p)
  <2> USE <1>5 DEF Send, IInv
  <2>1. TypeOK'
    BY DEF TypeOK, Stages
  <2>2. PacketsTrue' /\ VerdictTrue'
    BY DEF PacketsTrue, VerdictTrue
  <2>3. SentBeforeListening'
    BY DEF TypeOK, SentBeforeListening
  <2>4. HalfOpenExplained'
    <3>1. stage'[p] # "done" /\ \A q \in Probes : q # p => stage'[q] = stage[q]
      BY DEF TypeOK
    <3>2. \A q \in syn_sent' : q = p \/ (q \in syn_sent /\ q \in Probes)
      BY DEF TypeOK
    <3> QED BY <3>1, <3>2 DEF HalfOpenExplained, Connection
  <2> QED BY <2>1, <2>2, <2>3, <2>4
<1>6. CASE SendFails(p)
  BY <1>6, ReturnInv DEF SendFails, Histories
<1> QED BY <1>1, <1>2, <1>3, <1>4, <1>5, <1>6 DEF Proceed

\* A packet is taken from the channel.
LEMMA ReceiveInv ==
  ASSUME IInv, NEW p \in Probes, Receive(p)
  PROVE  IInv'
<1> DEFINE packet == Head(rx[p])
<1>1. packet \in Packets /\ 1 \in DOMAIN rx[p] /\ packet = rx[p][1]
  BY HeadAndTail DEF IInv, TypeOK, Receive
<1>2. CASE Matches(p, packet) /\ packet.flags = "SynAck"
  <2>1. service[Target[p]] = "open"
    <3>1. PICK q \in Probes : /\ Target[q].ip = packet.ip
                              /\ Target[q].port = packet.source
                              /\ service[Target[q]] = "open"
      BY <1>1, <1>2 DEF IInv, PacketsTrue
    <3> QED BY <1>1, <1>2, <3>1, MatchingIsOwn
  <2>2. Return(p, OnSynAck(packet)) /\ OnSynAck(packet) \in {"Open", "Filtered"}
    BY <1>2 DEF Receive, OnSynAck
  <2>4. IF OnSynAck(packet) = "Open" THEN Reset(p) ELSE UNCHANGED <<rst_sent, rst_failed>>
    BY <1>2 DEF Receive
  <2>5. stage[p] = "listening" /\ UNCHANGED <<src_port, service, syn_sent, no_channel>>
    BY DEF Receive
  <2> HIDE DEF packet
  <2> QED BY <2>1, <2>2, <2>4, <2>5, ReturnInv
<1>3. CASE Matches(p, packet) /\ packet.flags = "Rst"
  <2>1. service[Target[p]] = "closed"
    <3>1. PICK q \in Probes : /\ Target[q].ip = packet.ip
                              /\ Target[q].port = packet.source
                              /\ service[Target[q]] = "closed"
      BY <1>1, <1>3 DEF IInv, PacketsTrue
    <3> QED BY <1>1, <1>3, <3>1, MatchingIsOwn
  <2>2. Return(p, "Closed") /\ UNCHANGED <<rst_sent, rst_failed>>
    BY <1>3 DEF Receive
  <2>3. stage[p] = "listening" /\ UNCHANGED <<src_port, service, syn_sent, no_channel>>
    BY DEF Receive
  <2> QED BY <2>1, <2>2, <2>3, ReturnInv
<1>4. CASE ~(Matches(p, packet) /\ packet.flags \in {"SynAck", "Rst"})
  <2>1. /\ rx' = [rx EXCEPT ![p] = Tail(@)]
        /\ UNCHANGED <<stage, src_port, elapsed, status, service, Histories>>
    BY <1>4 DEF Receive, Histories
  <2>2. /\ rx[p] \in Seq(Packets) /\ rx[p] # <<>> /\ Len(rx[p]) <= RxBound
        /\ Len(rx[p]) \in Nat /\ RxBound \in Nat
    BY SynAssumption DEF IInv, TypeOK, Receive, SynAssumption
  <2>3. /\ Tail(rx[p]) \in Seq(Packets) /\ Len(Tail(rx[p])) <= Len(rx[p])
        /\ Len(Tail(rx[p])) \in Nat
        /\ \A i \in DOMAIN Tail(rx[p]) :
             i + 1 \in DOMAIN rx[p] /\ Tail(rx[p])[i] = rx[p][i + 1]
    BY <2>2, HeadAndTail
  <2>4. \A q \in Probes : rx'[q] = IF q = p THEN Tail(rx[p]) ELSE rx[q]
    BY <2>1 DEF IInv, TypeOK
  <2>5. TypeOK'
    <3>1. rx' \in [Probes -> Seq(Packets)]
      BY <2>1, <2>3 DEF IInv, TypeOK
    <3>2. \A q \in Probes : Len(rx'[q]) <= RxBound
      <4> SUFFICES ASSUME NEW q \in Probes PROVE Len(rx'[q]) <= RxBound
        OBVIOUS
      <4>1. CASE q = p
        <5>1. rx'[q] = Tail(rx[p])
          BY <2>4, <4>1
        <5>2. Len(Tail(rx[p])) <= RxBound
          BY <2>2, <2>3
        <5> QED BY <5>1, <5>2
      <4>2. CASE q # p
        BY <2>4, <4>2 DEF IInv, TypeOK
      <4> QED BY <4>1, <4>2
    <3> QED BY <2>1, <3>1, <3>2 DEF IInv, TypeOK, Histories
  <2>6. PacketsTrue'
    BY <2>1, <2>3, <2>4 DEF IInv, PacketsTrue
  <2>7. SentBeforeListening' /\ VerdictTrue' /\ HalfOpenExplained'
    BY <2>1 DEF IInv, SentBeforeListening, VerdictTrue, HalfOpenExplained, Connection,
                Histories
  <2> QED BY <2>5, <2>6, <2>7 DEF IInv
<1> QED BY <1>1, <1>2, <1>3, <1>4 DEF Packets

\* A packet reaches the open channels.
LEMMA AnswerInv ==
  ASSUME IInv, NEW p \in Probes, Answer(p)
  PROVE  IInv'
<1>1. PICK packet \in Answers(p) :
        rx' = [q \in Probes |->
                 IF stage[q] \in {"open", "listening"} /\ Len(rx[q]) < RxBound
                 THEN Append(rx[q], packet) ELSE rx[q]]
  BY DEF Answer
<1>2. UNCHANGED <<stage, src_port, elapsed, status, service, Histories>>
  BY DEF Answer
<1>3. packet \in Packets
  <2>1. Target[p].ip \in Nat /\ Target[p].port \in Nat /\ src_port[p] \in Nat
    <3>1. Target[p] \in [ip : Nat, port : Nat]
      BY SynAssumption DEF SynAssumption
    <3>2. src_port[p] \in SourcePorts \cup {Fallback, 0}
      BY DEF IInv, TypeOK
    <3>3. src_port[p] \in Nat
      <4>1. \A port \in SourcePorts \cup {Fallback, 0} : port \in Nat
        BY SynAssumption DEF SynAssumption
      <4> QED BY <3>2, <4>1
    <3> QED BY <3>1, <3>3
  <2>2. PICK flags \in {"SynAck", "Rst", "Ack"}, top \in BOOLEAN :
          packet = Segment(p, flags, top)
    <3>1. service[Target[p]] \in {"open", "closed", "silent"}
      BY DEF IInv, TypeOK, Targets
    <3> QED BY <3>1 DEF Answers
  <2> QED BY <2>1, <2>2 DEF Packets, Segment
<1>4. /\ packet.ip = Target[p].ip /\ packet.source = Target[p].port
      /\ packet.flags = "SynAck" => service[Target[p]] = "open"
      /\ packet.flags = "Rst" => service[Target[p]] = "closed"
  <2>1. service[Target[p]] \in {"open", "closed", "silent"}
    BY DEF IInv, TypeOK, Targets
  <2> QED BY <2>1 DEF Answers, Segment
<1>5. TypeOK'
  <2>1. rx' \in [Probes -> Seq(Packets)]
    BY <1>1, <1>3 DEF IInv, TypeOK
  <2>2. \A q \in Probes : Len(rx'[q]) <= RxBound
    <3> SUFFICES ASSUME NEW q \in Probes PROVE Len(rx'[q]) <= RxBound
      OBVIOUS
    <3>1. rx[q] \in Seq(Packets) /\ Len(rx[q]) <= RxBound /\ RxBound \in Nat
      BY SynAssumption DEF IInv, TypeOK, SynAssumption
    <3>2. Len(Append(rx[q], packet)) = Len(rx[q]) + 1
      BY <1>3, <3>1
    <3> QED BY <1>1, <3>1, <3>2
  <2> QED BY <1>2, <2>1, <2>2 DEF IInv, TypeOK, Histories
<1>6. PacketsTrue'
  <2> SUFFICES ASSUME NEW q \in Probes, NEW i \in DOMAIN rx'[q]
               PROVE  \/ i \in DOMAIN rx[q] /\ rx'[q][i] = rx[q][i]
                      \/ rx'[q][i] = packet
    BY <1>2, <1>4 DEF IInv, PacketsTrue
  <2>1. rx[q] \in Seq(Packets)
    BY DEF IInv, TypeOK
  <2> QED BY <1>1, <1>3, <2>1
<1>7. SentBeforeListening' /\ VerdictTrue' /\ HalfOpenExplained'
  BY <1>2 DEF IInv, SentBeforeListening, VerdictTrue, HalfOpenExplained, Connection,
              Histories
<1> QED BY <1>5, <1>6, <1>7 DEF IInv

\* Time passes.
LEMMA TickInv ==
  ASSUME IInv, NEW p \in Probes, Tick(p)
  PROVE  IInv'
<1> USE DEF IInv, Tick
<1>1. TypeOK'
  <2>1. elapsed' \in [Probes -> 0..Timeout]
    BY SynAssumption DEF TypeOK, SynAssumption
  <2> QED BY <2>1 DEF TypeOK, Histories
<1>2. PacketsTrue'
  BY DEF PacketsTrue
<1>3. SentBeforeListening' /\ VerdictTrue' /\ HalfOpenExplained'
  BY DEF SentBeforeListening, VerdictTrue, HalfOpenExplained, Connection, Histories
<1> QED BY <1>1, <1>2, <1>3

LEMMA StutterInv == IInv /\ UNCHANGED vars => IInv'
<1> SUFFICES ASSUME IInv, UNCHANGED vars PROVE IInv'
  OBVIOUS
<1> USE DEF IInv, vars
<1>1. TypeOK'
  BY DEF TypeOK
<1>2. PacketsTrue'
  BY DEF PacketsTrue
<1>3. SentBeforeListening' /\ VerdictTrue' /\ HalfOpenExplained'
  BY DEF SentBeforeListening, VerdictTrue, HalfOpenExplained, Connection
<1> QED BY <1>1, <1>2, <1>3

LEMMA NextInv == IInv /\ [Next]_vars => IInv'
<1> SUFFICES ASSUME IInv, [Next]_vars PROVE IInv'
  OBVIOUS
<1>1. ASSUME NEW p \in Probes, Proceed(p) PROVE IInv'
  BY <1>1, ProceedInv
<1>2. ASSUME NEW p \in Probes, Receive(p) PROVE IInv'
  BY <1>2, ReceiveInv
<1>3. ASSUME NEW p \in Probes, Tick(p) PROVE IInv'
  BY <1>3, TickInv
<1>4. ASSUME NEW p \in Probes, TimeOut(p) PROVE IInv'
  BY <1>4, ReturnInv DEF TimeOut, Histories
<1>5. ASSUME NEW p \in Probes, ReceiverFails(p) PROVE IInv'
  BY <1>5, ReturnInv DEF ReceiverFails, Histories
<1>6. ASSUME NEW p \in Probes, Answer(p) PROVE IInv'
  BY <1>6, AnswerInv
<1>7. CASE UNCHANGED vars
  BY <1>7, StutterInv
<1> QED BY <1>1, <1>2, <1>3, <1>4, <1>5, <1>6, <1>7 DEF Next, Done

-----------------------------------------------------------------------------
LEMMA InvHolds == Spec => []IInv
BY InitInv, NextInv, PTL DEF Spec

\* The types, and the places of a probe's port, channel and verdict (syn.rs).
THEOREM TypeCorrect == Spec => []TypeOK
<1>1. IInv => TypeOK
  BY DEF IInv
<1> QED BY <1>1, InvHolds, PTL

\* However many probes share the machine's TCP traffic, Open and Closed tell
\* the truth about the port that was probed.
THEOREM VerdictsAreTrue == Spec => []VerdictTrue
<1>1. IInv => VerdictTrue
  BY DEF IInv
<1> QED BY <1>1, InvHolds, PTL

\* Of an open port whose SYN left, the connection stays half open only if its
\* probe never saw the answer, or the reset did not leave; and a reset goes only
\* to a connection whose own probe found its port open.
THEOREM HalfOpenIsExplained == Spec => []HalfOpenExplained
<1>1. IInv => HalfOpenExplained
  BY DEF IInv
<1> QED BY <1>1, InvHolds, PTL

=============================================================================
