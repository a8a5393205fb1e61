----------------------------- MODULE SynScanner -----------------------------
(***************************************************************************)
(* SynScanner::scan_port of src/scanners/syn.rs.  Several probes run at    *)
(* once, each on a blocking thread with a raw channel of its own, and      *)
(* every raw channel is handed a copy of every TCP packet that reaches the *)
(* machine: a probe has to pick its own answer out of everybody's.  The    *)
(* source port is borrowed from a UDP socket that is closed again, so two  *)
(* probes may be using the same one.                                       *)
(***************************************************************************)
EXTENDS ScanModel, Integers, Sequences, FiniteSets

CONSTANTS
  Probes,
  Target,          \* probe -> [ip, port]
  IPv6,            \* addresses that are IPv6
  SourcePorts,     \* ephemeral ports the system hands out
  Fallback,        \* 54321, when it hands out none
  Timeout,         \* the probe timeout, in ticks
  RxBound,         \* packets a channel holds; it drops the rest
  OverflowChecks   \* the build panics on integer overflow (debug profile)

ASSUME SynAssumption ==
  /\ IsFiniteSet(Probes)
  /\ \A p \in Probes : Target[p] \in [ip : Nat, port : Nat]
  /\ SourcePorts \subseteq Nat \ {0} /\ Fallback \in Nat \ {0}
  /\ Timeout \in Nat /\ RxBound \in Nat
  /\ OverflowChecks \in BOOLEAN

VARIABLES
  stage,           \* how far each probe has come
  src_port,        \* its source port, 0 before it has one
  rx,              \* the packets waiting in its channel
  elapsed,         \* ticks since its SYN left
  status,          \* its verdict
  service,         \* what each target does: "open", "closed" or "silent"
  syn_sent,        \* history: the probes whose SYN left
  no_channel,      \* history: the probes whose channel could not be opened
  rst_sent,        \* history: the connections reset, [ip, port, src]
  rst_failed       \* history: the probes whose reset could not be sent

vars == <<stage, src_port, rx, elapsed, status, service, syn_sent, no_channel,
          rst_sent, rst_failed>>

-----------------------------------------------------------------------------
NoVerdict == "None"

Targets == {Target[p] : p \in Probes}

Stages == {"idle", "bound", "open", "listening", "done"}

Connection(p) == [ip |-> Target[p].ip, port |-> Target[p].port, src |-> src_port[p]]

\* A segment of the target's connection with p.  top: its sequence number is
\* the largest a u32 holds.
Segment(p, flags, top) ==
  [ip |-> Target[p].ip, source |-> Target[p].port, dest |-> src_port[p],
   flags |-> flags, top |-> top]

Packets ==
  [ip : Nat, source : Nat, dest : Nat, flags : {"SynAck", "Rst", "Ack"}, top : BOOLEAN]

\* What a target sends to a SYN: the answer its port calls for, or a bare ACK
\* for a connection it still remembers.
Answers(p) ==
  {Segment(p, "Ack", FALSE)} \cup
  CASE service[Target[p]] = "open" -> {Segment(p, "SynAck", top) : top \in BOOLEAN}
    [] service[Target[p]] = "closed" -> {Segment(p, "Rst", FALSE)}
    [] service[Target[p]] = "silent" -> {}

\* Mutant: the port the packet comes from is not looked at.
MatchesAnyPort(p, packet) ==
  packet.ip = Target[p].ip /\ packet.dest = src_port[p]

\* Validate packet sender, source port, and destination port.
Matches(p, packet) ==
  /\ packet.ip = Target[p].ip
  /\ packet.source = Target[p].port
  /\ packet.dest = src_port[p]

\* The verdict on a SYN-ACK.  get_sequence() + 1 panics where overflow is
\* checked, and the panic of the blocking thread is read as Filtered.
OnSynAck(packet) == IF packet.top /\ OverflowChecks THEN "Filtered" ELSE "Open"

-----------------------------------------------------------------------------
Init ==
  /\ stage = [p \in Probes |-> "idle"]
  /\ src_port = [p \in Probes |-> 0]
  /\ rx = [p \in Probes |-> <<>>]
  /\ elapsed = [p \in Probes |-> 0]
  /\ status = [p \in Probes |-> NoVerdict]
  /\ service \in [Targets -> {"open", "closed", "silent"}]
  /\ syn_sent = {} /\ no_channel = {} /\ rst_sent = {} /\ rst_failed = {}

\* scan_port returns v; the channel is closed.
Return(p, v) ==
  /\ stage' = [stage EXCEPT ![p] = "done"]
  /\ status' = [status EXCEPT ![p] = v]
  /\ rx' = [rx EXCEPT ![p] = <<>>]
  /\ elapsed' = [elapsed EXCEPT ![p] = 0]

Histories == <<syn_sent, no_channel, rst_sent, rst_failed>>

\* get_source_ip finds no route.  It binds an IPv4 socket, which cannot be
\* connected to an IPv6 address.
NoRoute(p) ==
  /\ stage[p] = "idle"
  /\ Return(p, "Filtered")
  /\ UNCHANGED <<src_port, service, Histories>>

\* Mutant: no port is chosen when the system hands out none.
PickPortOrNone(p) ==
  /\ stage[p] = "idle" /\ Target[p].ip \notin IPv6
  /\ \E port \in SourcePorts \cup {0} : src_port' = [src_port EXCEPT ![p] = port]
  /\ stage' = [stage EXCEPT ![p] = "bound"]
  /\ UNCHANGED <<rx, elapsed, status, service, Histories>>

\* A route is found, and a source port nobody else was using a moment ago.
PickPort(p) ==
  /\ stage[p] = "idle" /\ Target[p].ip \notin IPv6
  /\ \E port \in SourcePorts \cup {Fallback} : src_port' = [src_port EXCEPT ![p] = port]
  /\ stage' = [stage EXCEPT ![p] = "bound"]
  /\ UNCHANGED <<rx, elapsed, status, service, Histories>>

\* transport_channel fails: no descriptor or no privilege is left.
ChannelFails(p) ==
  /\ stage[p] = "bound"
  /\ Return(p, "Closed")
  /\ no_channel' = no_channel \cup {p}
  /\ UNCHANGED <<src_port, service, syn_sent, rst_sent, rst_failed>>

OpenChannel(p) ==
  /\ stage[p] = "bound"
  /\ stage' = [stage EXCEPT ![p] = "open"]
  /\ UNCHANGED <<src_port, rx, elapsed, status, service, Histories>>

SendFails(p) ==
  /\ stage[p] = "open"
  /\ Return(p, "Filtered")
  /\ UNCHANGED <<src_port, service, Histories>>

\* The SYN leaves and the clock starts.
Send(p) ==
  /\ stage[p] = "open"
  /\ stage' = [stage EXCEPT ![p] = "listening"]
  /\ syn_sent' = syn_sent \cup {p}
  /\ UNCHANGED <<src_port, rx, elapsed, status, service, no_channel, rst_sent,
                 rst_failed>>

\* The target of a SYN answers it, now, late or again, and every open channel
\* that has room receives the packet.
Answer(p) ==
  /\ p \in syn_sent
  /\ \E packet \in Answers(p) :
       rx' = [q \in Probes |->
                IF stage[q] \in {"open", "listening"} /\ Len(rx[q]) < RxBound
                THEN Append(rx[q], packet) ELSE rx[q]]
  /\ UNCHANGED <<stage, src_port, elapsed, status, service, Histories>>

\* Mutant: every packet that is not the answer restarts the clock.
ReceiveRestarting(p) ==
  /\ stage[p] = "listening" /\ elapsed[p] < Timeout /\ rx[p] # <<>>
  /\ LET packet == Head(rx[p]) IN
       IF Matches(p, packet) /\ packet.flags \in {"SynAck", "Rst"}
       THEN Return(p, IF packet.flags = "Rst" THEN "Closed" ELSE OnSynAck(packet))
       ELSE /\ rx' = [rx EXCEPT ![p] = Tail(@)]
            /\ elapsed' = [elapsed EXCEPT ![p] = 0]
            /\ UNCHANGED <<stage, status>>
  /\ UNCHANGED <<src_port, service, Histories>>

\* The reset of p's half-open connection.  What send_to returns is not looked
\* at: it may not leave.
Reset(p) ==
  \/ rst_sent' = rst_sent \cup {Connection(p)} /\ UNCHANGED rst_failed
  \/ rst_failed' = rst_failed \cup {p} /\ UNCHANGED rst_sent

\* Mutant: whatever answered as an open port does is reset, and only then is
\* the packet looked at for whose it is.
ReceiveResettingFirst(p) ==
  /\ stage[p] = "listening" /\ elapsed[p] < Timeout /\ rx[p] # <<>>
  /\ LET packet == Head(rx[p])
         mine == Matches(p, packet)
     IN /\ IF packet.flags = "SynAck" THEN Reset(p) ELSE UNCHANGED <<rst_sent, rst_failed>>
        /\ IF mine /\ packet.flags \in {"SynAck", "Rst"}
           THEN Return(p, IF packet.flags = "Rst" THEN "Closed" ELSE OnSynAck(packet))
           ELSE rx' = [rx EXCEPT ![p] = Tail(@)] /\ UNCHANGED <<stage, status, elapsed>>
  /\ UNCHANGED <<src_port, service, syn_sent, no_channel>>

\* The loop, with time left, takes the next packet of the channel.
Receive(p) ==
  /\ stage[p] = "listening" /\ elapsed[p] < Timeout /\ rx[p] # <<>>
  /\ LET packet == Head(rx[p])
         mine == Matches(p, packet)
     IN \/ /\ mine /\ packet.flags = "SynAck"
           /\ Return(p, OnSynAck(packet))
           /\ IF OnSynAck(packet) = "Open" THEN Reset(p)
              ELSE UNCHANGED <<rst_sent, rst_failed>>
        \/ /\ mine /\ packet.flags = "Rst"
           /\ Return(p, "Closed")
           /\ UNCHANGED <<rst_sent, rst_failed>>
        \/ /\ ~(mine /\ packet.flags \in {"SynAck", "Rst"})
           /\ rx' = [rx EXCEPT ![p] = Tail(@)]
           /\ UNCHANGED <<stage, status, elapsed, rst_sent, rst_failed>>
  /\ UNCHANGED <<src_port, service, syn_sent, no_channel>>

Tick(p) ==
  /\ stage[p] = "listening" /\ elapsed[p] < Timeout
  /\ elapsed' = [elapsed EXCEPT ![p] = @ + 1]
  /\ UNCHANGED <<stage, src_port, rx, status, service, Histories>>

\* elapsed >= timeout, whatever still waits in the channel.
TimeOut(p) ==
  /\ stage[p] = "listening" /\ elapsed[p] >= Timeout
  /\ Return(p, "Filtered")
  /\ UNCHANGED <<src_port, service, Histories>>

\* The channel reports an error.
ReceiverFails(p) ==
  /\ stage[p] = "listening" /\ elapsed[p] < Timeout
  /\ Return(p, "Filtered")
  /\ UNCHANGED <<src_port, service, Histories>>

AllEnded == \A p \in Probes : stage[p] = "done"

Done == AllEnded /\ UNCHANGED vars

Proceed(p) ==
  \/ NoRoute(p) \/ PickPort(p)
  \/ OpenChannel(p) \/ ChannelFails(p)
  \/ Send(p) \/ SendFails(p)

Next ==
  \/ \E p \in Probes :
       \/ Proceed(p) \/ Receive(p) \/ Tick(p) \/ TimeOut(p) \/ ReceiverFails(p)
       \/ Answer(p)
  \/ Done

Spec == Init /\ [][Next]_vars

-----------------------------------------------------------------------------
TypeOK ==
  /\ stage \in [Probes -> Stages]
  /\ src_port \in [Probes -> SourcePorts \cup {Fallback, 0}]
  /\ rx \in [Probes -> Seq(Packets)]
  /\ elapsed \in [Probes -> 0..Timeout]
  /\ status \in [Probes -> {"Open", "Closed", "Filtered", NoVerdict}]
  /\ service \in [Targets -> {"open", "closed", "silent"}]
  /\ syn_sent \subseteq Probes /\ no_channel \subseteq Probes
  /\ rst_failed \subseteq Probes
  /\ \A p \in Probes :
       /\ Len(rx[p]) <= RxBound
       /\ status[p] # NoVerdict <=> stage[p] = "done"
       /\ stage[p] \in {"bound", "open", "listening"} => src_port[p] # 0

(* However the answers to concurrent probes mix on the channels, and though *)
(* probes may share a source port, no probe is decided by an answer meant   *)
(* for another port: Open and Closed say what the probed port really is.    *)
(* (Closed is also what a probe without a channel returns, syn.rs:62.)      *)
VerdictTrue ==
  \A p \in Probes :
    /\ status[p] = "Open" => service[Target[p]] = "open"
    /\ status[p] = "Closed" => service[Target[p]] = "closed" \/ p \in no_channel

(* A target that answered our SYN remembers the connection until it is      *)
(* reset (syn.rs:114).  Of an open port whose SYN left, the connection is   *)
(* left half open only by a probe that never saw the answer (Filtered), or  *)
(* whose reset did not leave the machine (syn.rs:136 takes no notice); and, *)
(* source ports and channels shared, a reset only ever goes to a connection *)
(* whose own probe found its port open.                                     *)
HalfOpenExplained ==
  /\ \A p \in syn_sent :
       stage[p] = "done" /\ service[Target[p]] = "open" /\ Connection(p) \notin rst_sent
         => status[p] = "Filtered" \/ p \in rst_failed
  /\ \A c \in rst_sent :
       \E p \in syn_sent : /\ Connection(p) = c
                           /\ status[p] = "Open" /\ service[Target[p]] = "open"

=============================================================================
