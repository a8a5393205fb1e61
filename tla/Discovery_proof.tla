-------------------------- MODULE Discovery_proof --------------------------
(***************************************************************************)
(* Proofs of the invariants of Discovery, for every list of targets, every *)
(* network and every limit.                                                *)
(***************************************************************************)
EXTENDS Discovery, Lists_proof

-----------------------------------------------------------------------------
(***************************************************************************)
(* The inductive invariant.                                                *)
(***************************************************************************)
Shape ==
  /\ remaining \in Seq(Nat) /\ alive_hosts \in Seq(Nat)
  /\ stage \in [DOMAIN stage -> Stages]
  /\ connects \in [DOMAIN stage -> SUBSET DOMAIN config.ports]
  /\ DOMAIN stage = IF pc \in {"sweep", "done"} THEN DOMAIN remaining ELSE {}
  /\ pc = "start" => found = {}
  /\ pc \in {"start", "arp"} => alive_hosts = <<>> /\ remaining = config.targets
  /\ pc = "done" => Ordered(alive_hosts, TRUE)

\* ARP and the sweep share the targets out.
Shared ==
  /\ pc \in {"arped", "sweep", "done"} => ToSet(remaining) = TargetSet \ found
  /\ pc = "done" => \A j \in DOMAIN stage : stage[j] = "collected"

\* Who is found, alive or collected has answered, and who has answered a probe
\* of the sweep is on the way to alive_hosts.
Alive ==
  /\ \A ip \in found \cup ToSet(alive_hosts) : Answered(ip)
  /\ pc \in {"arped", "sweep", "done"} => found \subseteq ToSet(alive_hosts)
  /\ \A j \in DOMAIN stage : stage[j] = "alive" => Answered(remaining[j])
  /\ \A a \in answers : a[2] # "arp" =>
       \/ a[1] \in ToSet(alive_hosts)
       \/ \E j \in DOMAIN stage : stage[j] = "alive" /\ remaining[j] = a[1]

\* The buffer keeps to its size, and only hosts that try TCP have connects open.
Slots ==
  /\ Cardinality(Busy) <= Concurrency
  /\ \A j \in DOMAIN stage : connects[j] # {} => stage[j] = "connect"

IInv == TypeOK /\ Shape /\ Shared /\ Alive /\ Slots

\* What the assumption says about the configuration of a run.
LEMMA ConfigProperties ==
  ASSUME config \in Configs
  PROVE  /\ config.targets \in Seq(Nat) /\ config.ports \in Seq(Nat)
         /\ TargetSet \subseteq Nat /\ IsFiniteSet(TargetSet)
<1>1. config.targets \in Seq(Nat) /\ config.ports \in Seq(Nat)
  BY DiscoveryAssumption
<1>2. IsFiniteSet(TargetSet)
  BY <1>1, FiniteElements DEF TargetSet
<1>3. \A i \in DOMAIN config.targets : config.targets[i] \in Nat
  BY <1>1
<1>4. TargetSet \subseteq Nat
  BY <1>3 DEF TargetSet, ToSet
<1> QED BY <1>1, <1>2, <1>4

LEMMA InitInv == Init => IInv
<1> SUFFICES ASSUME Init PROVE IInv
  OBVIOUS
<1> USE DEF Init
<1>1. config.targets \in Seq(Nat) /\ ToSet(<<>>) = {}
  BY ConfigProperties DEF ToSet
<1>2. TypeOK
  BY <1>1 DEF TypeOK, TargetSet
<1>3. Shape
  BY <1>1 DEF Shape, Ordered
<1>4. Shared
  BY <1>1 DEF Shared, TargetSet
<1>5. Alive
  BY <1>1 DEF Alive
<1>6. Busy = {}
  BY DEF Busy
<1>7. Slots
  BY <1>6, FS_EmptySet, DiscoveryAssumption DEF Slots
<1> QED BY <1>2, <1>3, <1>4, <1>5, <1>7 DEF IInv

\* The steps of ARP before its thread returns.
LEMMA ArpInv ==
  ASSUME IInv,
         \/ BeginArp \/ CloseGroup
         \/ \E i \in Interfaces : OpenGroup(i)
         \/ \E ip \in Repliers : ArpReply(ip)
  PROVE  IInv'
<1> USE DEF IInv
<1>1. /\ UNCHANGED <<config, remaining, stage, connects, alive_hosts>>
      /\ pc \in {"start", "arp"} /\ pc' = "arp"
      /\ \/ UNCHANGED <<found, answers>>
         \/ \E ip \in pending : found' = found \cup {ip} /\ answers' = answers \cup {<<ip, "arp">>}
  BY DEF BeginArp, CloseGroup, OpenGroup, ArpReply
<1>2. groups' \subseteq Interfaces /\ iface' \in Interfaces \cup {NoIface} /\ pending' \subseteq TargetSet
  BY DEF BeginArp, CloseGroup, OpenGroup, ArpReply, TypeOK, GroupOf
<1>3. TypeOK'
  BY <1>1, <1>2 DEF TypeOK, TargetSet
<1>4. Shape'
  BY <1>1 DEF Shape
<1>5. Shared'
  BY <1>1 DEF Shared
<1>6. Alive'
  <2>1. DOMAIN stage = {} /\ ToSet(alive_hosts) = {}
    <3>1. DOMAIN stage = {} /\ alive_hosts = <<>>
      BY <1>1 DEF Shape
    <3>2. ToSet(<<>>) = {}
      BY DEF ToSet
    <3> QED BY <3>1, <3>2
  <2>2. \A ip \in found' : \E a \in answers' : a[1] = ip
    <3>1. \A ip \in found : \E a \in answers : a[1] = ip
      BY DEF Alive, Answered
    <3>2. CASE UNCHANGED <<found, answers>>
      BY <3>1, <3>2
    <3>3. CASE \E ip \in pending : found' = found \cup {ip} /\ answers' = answers \cup {<<ip, "arp">>}
      <4>1. PICK ip \in pending : found' = found \cup {ip} /\ answers' = answers \cup {<<ip, "arp">>}
        BY <3>3
      <4>2. <<ip, "arp">> \in answers' /\ <<ip, "arp">>[1] = ip
        BY <4>1
      <4> QED BY <3>1, <4>1, <4>2
    <3> QED BY <1>1, <3>2, <3>3
  <2>3. \A a \in answers' : a[2] = "arp"
    BY <1>1, <2>1 DEF Alive
  <2> QED BY <1>1, <2>1, <2>2, <2>3 DEF Alive, Answered
<1>7. Slots'
  BY <1>1 DEF Slots, Busy
<1> QED BY <1>3, <1>4, <1>5, <1>6, <1>7

LEMMA EndArpInv == IInv /\ EndArp => IInv'
<1> SUFFICES ASSUME IInv, EndArp PROVE IInv'
  OBVIOUS
<1> USE DEF IInv
<1>1. PICK got \in {found, {}} :
        /\ remaining' = Kept(remaining, ToSet(remaining) \ got)
        /\ alive_hosts' = SetToSeq(got)
        /\ found' = got
  BY DEF EndArp
<1>2. /\ pc = "arp" /\ pc' = "arped"
      /\ UNCHANGED <<config, groups, iface, pending, stage, connects, answers>>
  BY DEF EndArp
<1>3. got \subseteq found /\ found \subseteq TargetSet
  BY DEF TypeOK
<1>4. IsFiniteSet(got) /\ got \subseteq Nat
  BY <1>3, ConfigProperties, FS_Subset DEF TypeOK
<1>5. alive_hosts' \in Seq(Nat) /\ ToSet(alive_hosts') = got
  <2> DEFINE listed == SetToSeq(got)
  <2>1. listed \in Seq(got) /\ ToSet(listed) = got
    BY <1>4, SetToSeqElements
  <2> HIDE DEF listed
  <2>2. listed \in Seq(Nat)
    BY <1>4, <2>1, SeqOfMore
  <2> QED BY <1>1, <2>1, <2>2 DEF listed
<1>6. remaining' \in Seq(Nat) /\ ToSet(remaining') = ToSet(remaining) \ got
  <2>1. remaining \in Seq(Nat)
    BY DEF Shape
  <2>2. ToSet(remaining) \cap (ToSet(remaining) \ got) = ToSet(remaining) \ got
    OBVIOUS
  <2> QED BY <1>1, <2>1, <2>2, KeptProperties
<1>7. ToSet(remaining) = TargetSet /\ DOMAIN stage = {}
  BY <1>2 DEF Shape, TargetSet
<1>8. TargetSet' = TargetSet
  BY <1>2 DEF TargetSet
<1>9. TypeOK'
  BY <1>1, <1>2, <1>3, <1>5, <1>6, <1>7, <1>8 DEF TypeOK
<1>10. Shape'
  BY <1>2, <1>5, <1>6 DEF Shape
<1>11. Shared'
  BY <1>1, <1>2, <1>6, <1>7, <1>8 DEF Shared
<1>12. Alive'
  <2>1. \A ip \in got : Answered(ip)
    BY <1>3 DEF Alive
  <2>2. \A a \in answers : a[2] = "arp"
    <3>1. ToSet(alive_hosts) = {}
      BY <1>2 DEF Shape, ToSet
    <3> QED BY <1>7, <3>1 DEF Alive
  <2> QED BY <1>1, <1>2, <1>5, <1>7, <2>1, <2>2 DEF Alive, Answered
<1>13. Slots'
  BY <1>2 DEF Slots, Busy
<1> QED BY <1>9, <1>10, <1>11, <1>12, <1>13

LEMMA BeginSweepInv == IInv /\ BeginSweep => IInv'
<1> SUFFICES ASSUME IInv, BeginSweep PROVE IInv'
  OBVIOUS
<1> USE DEF IInv
<1>1. /\ pc \in {"start", "arped"} /\ pc' = "sweep"
      /\ stage' = [j \in DOMAIN remaining |-> "queued"]
      /\ connects' = [j \in DOMAIN remaining |-> {}]
      /\ UNCHANGED <<config, groups, iface, pending, found, remaining, alive_hosts, answers>>
  BY DEF BeginSweep
<1>2. TypeOK'
  BY <1>1 DEF TypeOK, TargetSet, Stages
<1>3. Shape'
  BY <1>1 DEF Shape, Stages
<1>4. Shared'
  BY <1>1 DEF Shared, Shape, TargetSet
<1>5. Alive'
  <2>1. \A j \in DOMAIN stage : stage[j] # "alive"
    BY <1>1 DEF Shape
  <2> QED BY <1>1, <2>1 DEF Alive, Answered, Shape
<1>6. Slots'
  <2>1. Busy' = {}
    BY <1>1 DEF Busy
  <2> QED BY <1>1, <2>1, FS_EmptySet, DiscoveryAssumption DEF Slots
<1> QED BY <1>2, <1>3, <1>4, <1>5, <1>6

\* Both ways to the end: the order of alive_hosts is made stable.
LEMMA EndInv == IInv /\ (SkipSweep \/ EndSweep) => IInv'
<1> SUFFICES ASSUME IInv, SkipSweep \/ EndSweep PROVE IInv'
  OBVIOUS
<1> USE DEF IInv
<1>1. /\ pc \in {"arped", "sweep"} /\ pc' = "done" /\ alive_hosts' = Sorted(alive_hosts)
      /\ UNCHANGED <<config, groups, iface, pending, found, remaining, stage, connects, answers>>
      /\ DOMAIN stage = DOMAIN remaining
      /\ \A j \in DOMAIN stage : stage[j] = "collected"
  BY DEF SkipSweep, EndSweep, Shape
<1>2. /\ alive_hosts' \in Seq(Nat) /\ ToSet(alive_hosts') = ToSet(alive_hosts)
      /\ Ordered(alive_hosts', TRUE)
  <2>1. alive_hosts \in Seq(Nat) /\ Nat \in SUBSET Int
    BY DEF Shape
  <2> QED BY <1>1, <2>1, SortedElements, SortedOrdered
<1>3. TypeOK'
  BY <1>1, <1>2 DEF TypeOK, TargetSet
<1>4. Shape'
  BY <1>1, <1>2 DEF Shape
<1>5. Shared'
  BY <1>1 DEF Shared, TargetSet
<1>6. Alive'
  BY <1>1, <1>2 DEF Alive, Answered
<1>7. Slots'
  BY <1>1 DEF Slots, Busy
<1> QED BY <1>3, <1>4, <1>5, <1>6, <1>7

\* What the steps of the sweep on one host have in common.
LEMMA SweepShape ==
  ASSUME IInv, pc = "sweep", NEW j \in DOMAIN stage, NEW x \in Stages, NEW c \in SUBSET DOMAIN config.ports,
         stage' = [stage EXCEPT ![j] = x], connects' = [connects EXCEPT ![j] = c],
         UNCHANGED <<config, pc, groups, iface, pending, found, remaining>>,
         alive_hosts' \in Seq(Nat), ToSet(alive_hosts') \subseteq TargetSet,
         c # {} => x = "connect",
         stage[j] # "collected", stage[j] = "queued" => Cardinality(Busy) < Concurrency
  PROVE  TypeOK' /\ Shape' /\ Shared' /\ Slots'
<1> USE DEF IInv
<1>1. /\ DOMAIN stage' = DOMAIN stage /\ stage'[j] = x /\ connects'[j] = c
      /\ \A k \in DOMAIN stage : k # j => stage'[k] = stage[k] /\ connects'[k] = connects[k]
      /\ stage' \in [DOMAIN stage -> Stages] /\ connects' \in [DOMAIN stage -> SUBSET DOMAIN config.ports]
  BY DEF Shape
<1>2. TypeOK'
  BY <1>1 DEF TypeOK, TargetSet
<1>3. Shape'
  BY <1>1 DEF Shape
<1>4. Shared'
  BY DEF Shared, TargetSet
<1>5. Cardinality(Busy') <= Concurrency
  <2>1. IsFiniteSet(Busy) /\ IsFiniteSet(Busy')
    <3>1. remaining \in Seq(Nat) /\ DOMAIN stage = DOMAIN remaining
      BY DEF Shape
    <3>2. IsFiniteSet(DOMAIN stage)
      BY <3>1, FiniteElements
    <3>3. Busy \subseteq DOMAIN stage /\ Busy' \subseteq DOMAIN stage
      BY <1>1 DEF Busy
    <3> QED BY <3>2, <3>3, FS_Subset
  <2>2. Cardinality(Busy) \in Nat /\ Cardinality(Busy') \in Nat /\ Concurrency \in Nat
    BY <2>1, FS_CardinalityType, DiscoveryAssumption
  <2>3. CASE stage[j] = "queued"
    <3>1. Busy' \subseteq Busy \cup {j}
      BY <1>1 DEF Busy
    <3>2. /\ IsFiniteSet(Busy \cup {j})
          /\ Cardinality(Busy \cup {j}) = IF j \in Busy THEN Cardinality(Busy) ELSE Cardinality(Busy) + 1
      BY <2>1, FS_AddElement
    <3>3. Cardinality(Busy') <= Cardinality(Busy \cup {j})
      BY <3>1, <3>2, FS_Subset
    <3> QED BY <2>2, <2>3, <3>2, <3>3
  <2>4. CASE stage[j] # "queued"
    <3>1. j \in Busy
      BY <2>4 DEF Busy, Shape, Stages
    <3>2. Busy' \subseteq Busy
      BY <1>1, <3>1 DEF Busy
    <3>3. Cardinality(Busy') <= Cardinality(Busy)
      BY <2>1, <3>2, FS_Subset
    <3> QED BY <2>2, <3>3 DEF Slots
  <2> QED BY <2>3, <2>4
<1>6. \A k \in DOMAIN stage' : connects'[k] # {} => stage'[k] = "connect"
  BY <1>1 DEF Slots
<1>7. Slots'
  BY <1>5, <1>6 DEF Slots
<1> QED BY <1>2, <1>3, <1>4, <1>7

\* One host goes on, and this is no sign of life.
LEMMA AliveUnmoved ==
  ASSUME IInv, NEW j \in DOMAIN stage, NEW x, stage' = [stage EXCEPT ![j] = x],
         UNCHANGED <<pc, found, remaining, alive_hosts, answers>>,
         stage[j] # "alive", x # "alive"
  PROVE  Alive'
BY DEF IInv, Alive, Answered, Shape

\* One host answers.
LEMMA AliveAnswered ==
  ASSUME IInv, NEW j \in DOMAIN stage, stage' = [stage EXCEPT ![j] = "alive"],
         NEW how, answers' = answers \cup {<<remaining[j], how>>},
         UNCHANGED <<pc, found, remaining, alive_hosts>>
  PROVE  Alive'
<1> USE DEF IInv
<1>1. /\ DOMAIN stage' = DOMAIN stage /\ stage'[j] = "alive"
      /\ \A k \in DOMAIN stage : k # j => stage'[k] = stage[k]
  BY DEF Shape
<1>2. \A ip : Answered(ip) \/ ip = remaining[j] => Answered(ip)'
  <2>1. <<remaining[j], how>> \in answers' /\ <<remaining[j], how>>[1] = remaining[j]
    OBVIOUS
  <2> QED BY <2>1 DEF Answered
<1>3. (\A k \in DOMAIN stage : stage[k] = "alive" => Answered(remaining[k]))'
  BY <1>1, <1>2 DEF Alive
<1>4. \A a \in answers' : a[2] # "arp" =>
        \/ a[1] \in ToSet(alive_hosts')
        \/ \E k \in DOMAIN stage' : stage'[k] = "alive" /\ remaining'[k] = a[1]
  <2> SUFFICES ASSUME NEW a \in answers', a[2] # "arp"
               PROVE  \/ a[1] \in ToSet(alive_hosts')
                      \/ \E k \in DOMAIN stage' : stage'[k] = "alive" /\ remaining'[k] = a[1]
    OBVIOUS
  <2>1. CASE a \in answers
    BY <1>1, <2>1 DEF Alive
  <2>2. CASE a = <<remaining[j], how>>
    BY <1>1, <2>2
  <2> QED BY <2>1, <2>2
<1> QED BY <1>2, <1>3, <1>4 DEF Alive

LEMMA StartInv == ASSUME IInv, NEW j \in DOMAIN stage, Start(j) PROVE IInv'
<1> DEFINE first == IF config.ping THEN "ping" ELSE AfterPing
<1>1. /\ pc = "sweep" /\ stage[j] = "queued" /\ Cardinality(Busy) < Concurrency
      /\ stage' = [stage EXCEPT ![j] = first]
      /\ connects' = [connects EXCEPT ![j] = Entered(first)]
      /\ UNCHANGED <<config, pc, groups, iface, pending, found, remaining, alive_hosts, answers>>
  BY DEF Start, Queued
<1>2. /\ first \in Stages /\ first # "alive" /\ Entered(first) \in SUBSET DOMAIN config.ports
      /\ Entered(first) # {} => first = "connect"
  BY DEF AfterPing, Entered, Stages
<1> HIDE DEF first
<1>3. alive_hosts' \in Seq(Nat) /\ ToSet(alive_hosts') \subseteq TargetSet
  BY <1>1 DEF IInv, Shape, TypeOK
<1>4. TypeOK' /\ Shape' /\ Shared' /\ Slots'
  BY <1>1, <1>2, <1>3, SweepShape
<1>5. Alive'
  BY <1>1, <1>2, AliveUnmoved
<1> QED BY <1>4, <1>5 DEF IInv

LEMMA PingAnsweredInv == ASSUME IInv, NEW j \in DOMAIN stage, PingAnswered(j) PROVE IInv'
<1>1. /\ pc = "sweep" /\ stage[j] = "ping" /\ stage' = [stage EXCEPT ![j] = "alive"]
      /\ answers' = answers \cup {<<remaining[j], "ping">>}
      /\ UNCHANGED <<config, pc, groups, iface, pending, found, remaining, connects, alive_hosts>>
  BY DEF PingAnswered
<1>2. connects[j] = {} /\ connects' = [connects EXCEPT ![j] = {}]
  BY <1>1 DEF IInv, Slots, Shape
<1>3. alive_hosts' \in Seq(Nat) /\ ToSet(alive_hosts') \subseteq TargetSet /\ "alive" \in Stages
  BY <1>1 DEF IInv, Shape, TypeOK, Stages
<1>4. TypeOK' /\ Shape' /\ Shared' /\ Slots'
  BY <1>1, <1>2, <1>3, SweepShape
<1>5. Alive'
  BY <1>1, AliveAnswered
<1> QED BY <1>4, <1>5 DEF IInv

LEMMA PingFailedInv == ASSUME IInv, NEW j \in DOMAIN stage, PingFailed(j) PROVE IInv'
<1>1. /\ pc = "sweep" /\ stage[j] = "ping" /\ stage' = [stage EXCEPT ![j] = AfterPing]
      /\ connects' = [connects EXCEPT ![j] = Entered(AfterPing)]
      /\ UNCHANGED <<config, pc, groups, iface, pending, found, remaining, alive_hosts, answers>>
  BY DEF PingFailed
<1>2. /\ AfterPing \in Stages /\ AfterPing # "alive" /\ Entered(AfterPing) \in SUBSET DOMAIN config.ports
      /\ Entered(AfterPing) # {} => AfterPing = "connect"
  BY DEF AfterPing, Entered, Stages
<1>3. alive_hosts' \in Seq(Nat) /\ ToSet(alive_hosts') \subseteq TargetSet
  BY <1>1 DEF IInv, Shape, TypeOK
<1>4. TypeOK' /\ Shape' /\ Shared' /\ Slots'
  BY <1>1, <1>2, <1>3, SweepShape
<1>5. Alive'
  BY <1>1, <1>2, AliveUnmoved
<1> QED BY <1>4, <1>5 DEF IInv

LEMMA ConnectAnsweredInv == ASSUME IInv, NEW j \in DOMAIN stage, ConnectAnswered(j) PROVE IInv'
<1>1. PICK how : answers' = answers \cup {<<remaining[j], how>>}
  BY DEF ConnectAnswered
<1>2. /\ pc = "sweep" /\ stage[j] = "connect" /\ stage' = [stage EXCEPT ![j] = "alive"]
      /\ connects' = [connects EXCEPT ![j] = {}]
      /\ UNCHANGED <<config, pc, groups, iface, pending, found, remaining, alive_hosts>>
  BY DEF ConnectAnswered
<1>3. alive_hosts' \in Seq(Nat) /\ ToSet(alive_hosts') \subseteq TargetSet /\ "alive" \in Stages
  BY <1>2 DEF IInv, Shape, TypeOK, Stages
<1>4. TypeOK' /\ Shape' /\ Shared' /\ Slots'
  BY <1>2, <1>3, SweepShape
<1>5. Alive'
  BY <1>1, <1>2, AliveAnswered
<1> QED BY <1>4, <1>5 DEF IInv

LEMMA ConnectFailedInv ==
  ASSUME IInv, NEW j \in DOMAIN stage, NEW k, ConnectFailed(j, k)
  PROVE  IInv'
<1> DEFINE x == IF connects[j] = {k} THEN "dead" ELSE "connect"
           c == connects[j] \ {k}
<1>1. /\ pc = "sweep" /\ stage[j] = "connect" /\ k \in connects[j]
      /\ stage' = [stage EXCEPT ![j] = x] /\ connects' = [connects EXCEPT ![j] = c]
      /\ UNCHANGED <<config, pc, groups, iface, pending, found, remaining, alive_hosts, answers>>
  BY DEF ConnectFailed
<1>2. x \in Stages /\ x # "alive" /\ c \in SUBSET DOMAIN config.ports /\ (c # {} => x = "connect")
  BY <1>1 DEF IInv, Shape, Stages
<1> HIDE DEF x, c
<1>3. alive_hosts' \in Seq(Nat) /\ ToSet(alive_hosts') \subseteq TargetSet
  BY <1>1 DEF IInv, Shape, TypeOK
<1>4. TypeOK' /\ Shape' /\ Shared' /\ Slots'
  BY <1>1, <1>2, <1>3, SweepShape
<1>5. Alive'
  BY <1>1, <1>2, AliveUnmoved
<1> QED BY <1>4, <1>5 DEF IInv

LEMMA CollectInv == ASSUME IInv, NEW j \in DOMAIN stage, Collect(j) PROVE IInv'
<1>1. /\ pc = "sweep" /\ stage[j] \in {"alive", "dead"}
      /\ alive_hosts' = IF stage[j] = "alive" THEN Append(alive_hosts, remaining[j]) ELSE alive_hosts
      /\ stage' = [stage EXCEPT ![j] = "collected"]
      /\ UNCHANGED <<config, pc, groups, iface, pending, found, remaining, connects, answers>>
  BY DEF Collect
<1>2. connects[j] = {} /\ connects' = [connects EXCEPT ![j] = {}]
  BY <1>1 DEF IInv, Slots, Shape
<1>3. remaining[j] \in ToSet(remaining) /\ remaining[j] \in Nat /\ remaining[j] \in TargetSet
  <2>1. j \in DOMAIN remaining /\ remaining \in Seq(Nat)
    BY <1>1 DEF IInv, Shape
  <2> QED BY <2>1 DEF ToSet, IInv, TypeOK
<1>4. /\ alive_hosts' \in Seq(Nat)
      /\ ToSet(alive_hosts') =
           ToSet(alive_hosts) \cup IF stage[j] = "alive" THEN {remaining[j]} ELSE {}
  <2>1. alive_hosts \in Seq(Nat)
    BY DEF IInv, Shape
  <2>2. CASE stage[j] = "alive"
    <3>1. alive_hosts' = alive_hosts \o <<remaining[j]>>
      BY <1>1, <1>3, <2>1, <2>2
    <3>2. <<remaining[j]>> \in Seq(Nat) /\ ToSet(<<remaining[j]>>) = {remaining[j]}
      BY <1>3 DEF ToSet
    <3>3. \A u, v \in Seq(Nat) : u \o v \in Seq(Nat) /\ ToSet(u \o v) = ToSet(u) \cup ToSet(v)
      BY ConcatElements
    <3> QED BY <2>1, <2>2, <3>1, <3>2, <3>3
  <2>3. CASE stage[j] # "alive"
    BY <1>1, <2>1, <2>3
  <2> QED BY <2>2, <2>3
<1>5. ToSet(alive_hosts') \subseteq TargetSet /\ "collected" \in Stages
  BY <1>3, <1>4 DEF IInv, TypeOK, Stages
<1>6. TypeOK' /\ Shape' /\ Shared' /\ Slots'
  BY <1>1, <1>2, <1>4, <1>5, SweepShape
<1>7. Alive'
  <2> USE DEF IInv
  <2>1. /\ DOMAIN stage' = DOMAIN stage /\ stage'[j] = "collected"
        /\ \A k \in DOMAIN stage : k # j => stage'[k] = stage[k]
    BY <1>1 DEF Shape
  <2>2. (\A ip \in found \cup ToSet(alive_hosts) : Answered(ip))'
    BY <1>1, <1>4 DEF Alive, Answered
  <2>3. found' \subseteq ToSet(alive_hosts')
    BY <1>1, <1>4 DEF Alive
  <2>4. (\A k \in DOMAIN stage : stage[k] = "alive" => Answered(remaining[k]))'
    BY <1>1, <2>1 DEF Alive, Answered
  <2>5. \A a \in answers' : a[2] # "arp" =>
          \/ a[1] \in ToSet(alive_hosts')
          \/ \E k \in DOMAIN stage' : stage'[k] = "alive" /\ remaining'[k] = a[1]
    BY <1>1, <1>4, <2>1 DEF Alive
  <2> QED BY <1>1, <2>2, <2>3, <2>4, <2>5 DEF Alive
<1> QED BY <1>6, <1>7 DEF IInv

LEMMA StutterInv == IInv /\ UNCHANGED vars => IInv'
BY DEF IInv, vars, TypeOK, Shape, Shared, Alive, Slots, Answered, Busy, TargetSet, Ordered

LEMMA NextInv == IInv /\ [Next]_vars => IInv'
<1>1. ASSUME IInv, NEW j \in DOMAIN stage, Sweep(j) PROVE IInv'
  BY <1>1, StartInv, PingAnsweredInv, PingFailedInv, ConnectAnsweredInv, ConnectFailedInv, CollectInv
     DEF Sweep
<1> QED BY <1>1, ArpInv, EndArpInv, BeginSweepInv, EndInv, StutterInv DEF Next, Done

LEMMA InvHolds == Spec => []IInv
BY InitInv, NextInv, PTL DEF Spec

-----------------------------------------------------------------------------
(* The variables keep their shape, and nothing but targets is ever found,   *)
(* awaited, swept or reported alive.                                        *)
THEOREM TypeCorrect == Spec => []TypeOK
<1>1. IInv => TypeOK
  BY DEF IInv
<1> QED BY <1>1, InvHolds, PTL

(* Whatever replies, fails or panics, the hosts handed to the scan are in   *)
(* ascending order and targets that answered, with all that ARP found and   *)
(* all that answered a probe of the sweep among them.                       *)
THEOREM AliveAreThoseThatAnswered == Spec => []AliveMeansAnswered
<1>1. IInv => AliveMeansAnswered
  <2> SUFFICES ASSUME IInv, pc = "done" PROVE AliveMeansAnswered
    BY DEF AliveMeansAnswered
  <2> USE DEF IInv
  <2>1. \A j \in DOMAIN stage : stage[j] # "alive"
    BY DEF Shared
  <2>2. \A a \in answers : a[2] # "arp" => a[1] \in ToSet(alive_hosts)
    BY <2>1 DEF Alive
  <2>3. \A ip \in ToSet(alive_hosts) : ip \in TargetSet /\ Answered(ip)
    BY DEF TypeOK, Alive
  <2>4. found \subseteq ToSet(alive_hosts)
    BY DEF Alive
  <2>5. \A i, j \in DOMAIN alive_hosts : i < j => alive_hosts[i] <= alive_hosts[j]
    <3>3. alive_hosts \in Seq(Nat)
      BY DEF Shape
    <3>4. Ordered(alive_hosts, TRUE)
      BY DEF Shape
    <3>1. DOMAIN alive_hosts = 1..Len(alive_hosts)
      BY <3>3
    <3>2. \A i \in DOMAIN alive_hosts : alive_hosts[i] \in Nat
      BY <3>3
    <3> QED BY <3>4, <3>1, <3>2 DEF Ordered
  <2> QED BY <2>2, <2>3, <2>4, <2>5 DEF AliveMeansAnswered
<1> QED BY <1>1, InvHolds, PTL

(* ARP and the sweep share the targets out: each is found by the one or     *)
(* swept to the end by the other, never both and never neither.             *)
THEOREM TargetsAreSharedOut == Spec => []EveryTargetJudged
<1>1. IInv => EveryTargetJudged
  <2> SUFFICES ASSUME IInv, pc = "done", NEW ip \in TargetSet
               PROVE  ip \in found <=> ~\E j \in DOMAIN stage :
                                          remaining[j] = ip /\ stage[j] = "collected"
    BY DEF EveryTargetJudged
  <2>1. /\ ToSet(remaining) = TargetSet \ found /\ DOMAIN stage = DOMAIN remaining
        /\ \A j \in DOMAIN stage : stage[j] = "collected"
    BY DEF IInv, Shared, Shape
  <2>2. ip \in ToSet(remaining) <=> \E j \in DOMAIN remaining : remaining[j] = ip
    BY DEF ToSet
  <2> QED BY <2>1, <2>2
<1> QED BY <1>1, InvHolds, PTL

(* However many targets and ports there are, no more than Concurrency hosts *)
(* are probed at a time, and no connect is open that none of them made.     *)
THEOREM ProbesAreBounded == Spec => []ProbesBounded
<1>1. IInv => ProbesBounded
  <2> SUFFICES ASSUME IInv PROVE ProbesBounded
    OBVIOUS
  <2> USE DEF IInv
  <2>1. DOMAIN stage = {} \/ (remaining \in Seq(Nat) /\ DOMAIN stage = DOMAIN remaining)
    BY DEF Shape
  <2>2. IsFiniteSet(DOMAIN stage)
    BY <2>1, FiniteElements, FS_EmptySet
  <2>3. Busy \subseteq DOMAIN stage /\ Probing \subseteq Busy
    BY DEF Busy, Probing
  <2>4. IsFiniteSet(Busy)
    BY <2>2, <2>3, FS_Subset
  <2>5. IsFiniteSet(Probing) /\ Cardinality(Probing) <= Cardinality(Busy)
    BY <2>3, <2>4, FS_Subset
  <2>6. /\ Cardinality(Busy) \in Nat /\ Cardinality(Probing) \in Nat /\ Concurrency \in Nat
        /\ Cardinality(Busy) <= Concurrency
    BY <2>4, <2>5, FS_CardinalityType, DiscoveryAssumption DEF Slots
  <2>7. \A c \in OpenConnects : c[1] \in Probing
    BY DEF OpenConnects, TypeOK, Slots, Probing
  <2> QED BY <2>5, <2>6, <2>7 DEF ProbesBounded
<1> QED BY <1>1, InvHolds, PTL

=============================================================================
