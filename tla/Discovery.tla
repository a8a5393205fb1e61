----------------------------- MODULE Discovery -----------------------------
(***************************************************************************)
(* run_discovery of src/discovery/mod.rs with arp_discover of              *)
(* src/discovery/arp.rs: which targets are worth scanning.  A batch of ARP *)
(* requests per local interface comes first; what it leaves is pinged, and *)
(* then probed by TCP connects to every configured port at once, at most   *)
(* Concurrency hosts at a time.                                            *)
(*                                                                         *)
(* Taking a host from the stream and taking its permit is one step: the    *)
(* buffer and the semaphore have the same size, so the permit is free (the *)
(* same pair is kept apart, and shown to be so, in ScanEngine).            *)
(***************************************************************************)
EXTENDS Lists, FiniteSets

CONSTANTS
  IPv4,          \* the addresses that are IPv4
  Interfaces,    \* local interfaces
  IfaceOf(_),    \* the first of them whose network holds an address, or NoIface
  Strangers,     \* addresses on the local networks that are no targets
  Configs,       \* possible [targets, arp, ping, ports]: the list to scan, whether ARP may
                 \* be used, ping_discovery and tcp_ping_ports; both lists may have repeats
  Concurrency

NoIface == "none"

ASSUME DiscoveryAssumption ==
  /\ Concurrency \in Nat
  /\ \A c \in Configs : /\ c.targets \in Seq(Nat)
                        /\ {c.arp, c.ping} \subseteq BOOLEAN
                        /\ c.ports \in Seq(Nat)
  /\ IsFiniteSet(Interfaces)

VARIABLES
  config,        \* the configuration of this run
  pc,
  groups,        \* interfaces whose group has not been probed yet
  iface,         \* the interface whose replies are being awaited
  pending,       \* its targets that have not replied
  found,         \* addresses ARP found alive
  remaining,     \* remaining_targets
  stage,         \* of each remaining target's future
  connects,      \* the places in tcp_ping_ports each of them has a connect open for
  alive_hosts,
  answers        \* history: <<address, how>> for each sign of life received

vars == <<config, pc, groups, iface, pending, found, remaining, stage, connects,
          alive_hosts, answers>>

-----------------------------------------------------------------------------
TargetSet == ToSet(config.targets)

\* groups of arp_discover: the IPv4 targets behind one interface.
GroupOf(i) == {ip \in TargetSet \cap IPv4 : IfaceOf(ip) = i}

\* Who may send an ARP reply: parse_arp_reply believes any frame.
Repliers == TargetSet \cup Strangers

Busy == {j \in DOMAIN stage : stage[j] \in {"ping", "connect", "alive", "dead"}}

Probing == {j \in DOMAIN stage : stage[j] \in {"ping", "connect"}}

Queued == {j \in DOMAIN stage : stage[j] = "queued"}

\* is_host_alive: where a host's future is once it may try TCP.
AfterPing == IF config.ports = <<>> THEN "dead" ELSE "connect"

\* tcp_ping_host: a connect for every entry of the list, a repeated one included.
Entered(s) == IF s = "connect" THEN DOMAIN config.ports ELSE {}

-----------------------------------------------------------------------------
Init ==
  /\ config \in Configs
  /\ pc = IF config.targets = <<>> THEN "done" ELSE "start"
  /\ groups = {} /\ iface = NoIface /\ pending = {} /\ found = {}
  /\ remaining = config.targets
  /\ stage = <<>> /\ connects = <<>>
  /\ alive_hosts = <<>>
  /\ answers = {}

BeginArp ==
  /\ pc = "start"
  /\ config.arp /\ TargetSet \cap IPv4 # {}
  /\ pc' = "arp"
  /\ groups' = {i \in Interfaces : GroupOf(i) # {}}
  /\ UNCHANGED <<config, iface, pending, found, remaining, stage, connects, alive_hosts, answers>>

\* probe_group: the requests go out on an interface whose channel opened.
OpenGroup(i) ==
  /\ pc = "arp" /\ iface = NoIface /\ i \in groups
  /\ groups' = groups \ {i}
  /\ \/ iface' = i /\ pending' = GroupOf(i)
     \/ UNCHANGED <<iface, pending>>
  /\ UNCHANGED <<config, pc, found, remaining, stage, connects, alive_hosts, answers>>

\* Mutant: whoever sends a reply is taken for a target.
ArpReplyAnyone(ip) ==
  /\ pc = "arp" /\ iface # NoIface /\ pending # {}
  /\ pending' = pending \ {ip}
  /\ found' = found \cup {ip}
  /\ answers' = IF ip \in TargetSet THEN answers \cup {<<ip, "arp">>} ELSE answers
  /\ UNCHANGED <<config, pc, groups, iface, remaining, stage, connects, alive_hosts>>

\* An ARP reply arrives: from a target that is still pending, or from another
\* host of the network, late, repeated or unasked.
ArpReply(ip) ==
  /\ pc = "arp" /\ iface # NoIface /\ pending # {}
  /\ IF ip \in pending
     THEN /\ pending' = pending \ {ip}
          /\ found' = found \cup {ip}
          /\ answers' = answers \cup {<<ip, "arp">>}
     ELSE UNCHANGED <<pending, found, answers>>
  /\ UNCHANGED <<config, pc, groups, iface, remaining, stage, connects, alive_hosts>>

\* Nobody is pending, time is up, or the channel failed.
CloseGroup ==
  /\ pc = "arp" /\ iface # NoIface
  /\ iface' = NoIface /\ pending' = {}
  /\ UNCHANGED <<config, pc, groups, found, remaining, stage, connects, alive_hosts, answers>>

\* Mutant: the hosts found stay in the list to sweep.
EndArpWithoutRetain ==
  /\ pc = "arp" /\ iface = NoIface /\ groups = {}
  /\ alive_hosts' = SetToSeq(found)
  /\ pc' = "arped"
  /\ UNCHANGED <<config, groups, iface, pending, found, remaining, stage, connects, answers>>

\* The blocking thread has returned the set; retain and extend (in some order,
\* which the final sort hides).  A thread that panicked returns nothing
\* (unwrap_or_default).
EndArp ==
  /\ pc = "arp" /\ iface = NoIface /\ groups = {}
  /\ \E got \in {found, {}} :
       /\ remaining' = Kept(remaining, ToSet(remaining) \ got)
       /\ alive_hosts' = SetToSeq(got)
       /\ found' = got
  /\ pc' = "arped"
  /\ UNCHANGED <<config, groups, iface, pending, stage, connects, answers>>

\* Nothing is left to sweep.
SkipSweep ==
  /\ pc = "arped" /\ remaining = <<>>
  /\ alive_hosts' = Sorted(alive_hosts)
  /\ pc' = "done"
  /\ UNCHANGED <<config, groups, iface, pending, found, remaining, stage, connects, answers>>

BeginSweep ==
  /\ \/ pc = "start" /\ ~(config.arp /\ TargetSet \cap IPv4 # {})
     \/ pc = "arped" /\ remaining # <<>>
  /\ pc' = "sweep"
  /\ stage' = [j \in DOMAIN remaining |-> "queued"]
  /\ connects' = [j \in DOMAIN remaining |-> {}]
  /\ UNCHANGED <<config, groups, iface, pending, found, remaining, alive_hosts, answers>>

\* Mutant: the limit is not applied.
StartUnbounded(j) ==
  /\ pc = "sweep" /\ j \in Queued /\ \A k \in Queued : j <= k
  /\ LET first == IF config.ping THEN "ping" ELSE AfterPing
     IN /\ stage' = [stage EXCEPT ![j] = first]
        /\ connects' = [connects EXCEPT ![j] = Entered(first)]
  /\ UNCHANGED <<config, pc, groups, iface, pending, found, remaining, alive_hosts, answers>>

\* The next future of the stream enters the buffer and takes its permit.
Start(j) ==
  /\ pc = "sweep" /\ j \in Queued /\ \A k \in Queued : j <= k
  /\ Cardinality(Busy) < Concurrency
  /\ LET first == IF config.ping THEN "ping" ELSE AfterPing
     IN /\ stage' = [stage EXCEPT ![j] = first]
        /\ connects' = [connects EXCEPT ![j] = Entered(first)]
  /\ UNCHANGED <<config, pc, groups, iface, pending, found, remaining, alive_hosts, answers>>

\* ping exits with success.
PingAnswered(j) ==
  /\ pc = "sweep" /\ stage[j] = "ping"
  /\ stage' = [stage EXCEPT ![j] = "alive"]
  /\ answers' = answers \cup {<<remaining[j], "ping">>}
  /\ UNCHANGED <<config, pc, groups, iface, pending, found, remaining, connects, alive_hosts>>

\* Mutant: a ping without an answer puts the host back in the queue.
PingFailedRequeued(j) ==
  /\ pc = "sweep" /\ stage[j] = "ping"
  /\ stage' = [stage EXCEPT ![j] = "queued"]
  /\ UNCHANGED <<config, pc, groups, iface, pending, found, remaining, connects,
                 alive_hosts, answers>>

\* ping is not installed, fails, or is killed when its time is up.
PingFailed(j) ==
  /\ pc = "sweep" /\ stage[j] = "ping"
  /\ stage' = [stage EXCEPT ![j] = AfterPing]
  /\ connects' = [connects EXCEPT ![j] = Entered(AfterPing)]
  /\ UNCHANGED <<config, pc, groups, iface, pending, found, remaining, alive_hosts, answers>>

\* A connect is accepted or refused: the host lives, and the attempts on its
\* other ports are dropped.
ConnectAnswered(j) ==
  /\ pc = "sweep" /\ stage[j] = "connect"
  /\ stage' = [stage EXCEPT ![j] = "alive"]
  /\ connects' = [connects EXCEPT ![j] = {}]
  /\ \E how \in {"accepted", "refused"} : answers' = answers \cup {<<remaining[j], how>>}
  /\ UNCHANGED <<config, pc, groups, iface, pending, found, remaining, alive_hosts>>

\* A connect times out or fails otherwise; the last one to do so ends the host.
ConnectFailed(j, k) ==
  /\ pc = "sweep" /\ stage[j] = "connect" /\ k \in connects[j]
  /\ connects' = [connects EXCEPT ![j] = @ \ {k}]
  /\ stage' = [stage EXCEPT ![j] = IF connects[j] = {k} THEN "dead" ELSE @]
  /\ UNCHANGED <<config, pc, groups, iface, pending, found, remaining, alive_hosts, answers>>

\* results.next() yields (ip, alive).
Collect(j) ==
  /\ pc = "sweep" /\ stage[j] \in {"alive", "dead"}
  /\ alive_hosts' =
       IF stage[j] = "alive" THEN Append(alive_hosts, remaining[j]) ELSE alive_hosts
  /\ stage' = [stage EXCEPT ![j] = "collected"]
  /\ UNCHANGED <<config, pc, groups, iface, pending, found, remaining, connects, answers>>

\* Mutant: the hosts ARP found are forgotten when a sweep follows.
EndSweepForgettingArp ==
  /\ pc = "sweep" /\ \A j \in DOMAIN stage : stage[j] = "collected"
  /\ alive_hosts' = Sorted(Kept(alive_hosts, ToSet(alive_hosts) \ found))
  /\ pc' = "done"
  /\ UNCHANGED <<config, groups, iface, pending, found, remaining, stage, connects, answers>>

\* The stream has ended: the order of alive_hosts is made stable.
EndSweep ==
  /\ pc = "sweep" /\ \A j \in DOMAIN stage : stage[j] = "collected"
  /\ alive_hosts' = Sorted(alive_hosts)
  /\ pc' = "done"
  /\ UNCHANGED <<config, groups, iface, pending, found, remaining, stage, connects, answers>>

Done == pc = "done" /\ UNCHANGED vars

Sweep(j) ==
  \/ Start(j) \/ PingAnswered(j) \/ PingFailed(j)
  \/ ConnectAnswered(j) \/ Collect(j)
  \/ \E k \in DOMAIN config.ports : ConnectFailed(j, k)

Next ==
  \/ BeginArp \/ CloseGroup \/ EndArp \/ SkipSweep \/ BeginSweep \/ EndSweep \/ Done
  \/ \E i \in Interfaces : OpenGroup(i)
  \/ \E ip \in Repliers : ArpReply(ip)
  \/ \E j \in DOMAIN stage : Sweep(j)

(***************************************************************************)
(* ARP replies are the network's choice.  Everything else happens: awaits  *)
(* carry a timeout, and the ARP loop leaves when its time is up.           *)
(***************************************************************************)
Fairness ==
  /\ WF_vars(BeginArp) /\ WF_vars(CloseGroup) /\ WF_vars(EndArp)
  /\ WF_vars(SkipSweep) /\ WF_vars(BeginSweep) /\ WF_vars(EndSweep)
  /\ \A i \in Interfaces : WF_vars(OpenGroup(i))
  /\ \A j \in UNION {DOMAIN c.targets : c \in Configs} : WF_vars(j \in DOMAIN stage /\ Sweep(j))

Spec == Init /\ [][Next]_vars

FairSpec == Spec /\ Fairness

-----------------------------------------------------------------------------
Stages == {"queued", "ping", "connect", "alive", "dead", "collected"}

TypeOK ==
  /\ config \in Configs
  /\ pc \in {"start", "arp", "arped", "sweep", "done"}
  /\ groups \subseteq Interfaces /\ iface \in Interfaces \cup {NoIface}
  /\ found \subseteq TargetSet /\ pending \subseteq TargetSet
  /\ DOMAIN stage = DOMAIN connects
  /\ \A j \in DOMAIN stage : stage[j] \in Stages /\ connects[j] \subseteq DOMAIN config.ports
  /\ ToSet(remaining) \cup ToSet(alive_hosts) \subseteq TargetSet

Answered(ip) == \E a \in answers : a[1] = ip

(* What is handed to the scan, in ascending order, are the targets that     *)
(* showed a sign of life to a probe still listening, and no others: a stray *)
(* ARP reply adds no neighbour that nobody asked to scan, and no failed     *)
(* ping or port buries a host that answers another.  (A panic of the ARP    *)
(* thread loses its answers and EndArp empties found: those targets are     *)
(* swept.)                                                                  *)
AliveMeansAnswered ==
  pc = "done" =>
    /\ \A i, j \in DOMAIN alive_hosts : i < j => alive_hosts[i] <= alive_hosts[j]
    /\ \A ip \in ToSet(alive_hosts) : ip \in TargetSet /\ Answered(ip)
    /\ found \subseteq ToSet(alive_hosts)
    /\ \A a \in answers : a[2] # "arp" => a[1] \in ToSet(alive_hosts)

(* ARP and the sweep share the work: when discovery ends, every target was  *)
(* either found by ARP or swept to the end, never both and never neither.   *)
EveryTargetJudged ==
  pc = "done" =>
    \A ip \in TargetSet :
      ip \in found <=> ~\E j \in DOMAIN stage :
                          remaining[j] = ip /\ stage[j] = "collected"

OpenConnects == {c \in (DOMAIN connects) \X (DOMAIN config.ports) : c[2] \in connects[c[1]]}

(* However the pings and connects of many hosts end, no more than           *)
(* Concurrency hosts are being probed, and every connect that is open       *)
(* belongs to one of them: none outlives the permit of its host.            *)
ProbesBounded ==
  /\ Cardinality(Probing) <= Concurrency
  /\ \A c \in OpenConnects : c[1] \in Probing

(* What cli.rs:14 says of --concurrency: it is the limit of concurrent      *)
(* connection attempts.                                                     *)
ConnectsLimited == Cardinality(OpenConnects) <= Concurrency

(* Discovery ends whatever answers and however late.                        *)
DiscoveryEnds == <>(pc = "done")

=============================================================================
