-------------------------- MODULE ScanEngine_proof --------------------------
(***************************************************************************)
(* Proofs about ScanEngine, for every list of targets and ports, every     *)
(* limit and every scanner.                                                *)
(***************************************************************************)
EXTENDS ScanEngine, FiniteSetTheorems, FunctionTheorems,
        SequenceTheorems, TLAPS

-----------------------------------------------------------------------------
(* Facts about the constants.                                               *)

LEMMA JobsFinite == IsFiniteSet(Jobs)
<1>1. DOMAIN Targets = 1..Len(Targets) /\ DOMAIN Ports = 1..Len(Ports)
  BY EngineAssumption
<1>2. Len(Targets) \in Nat /\ Len(Ports) \in Nat
  BY EngineAssumption
<1>3. IsFiniteSet(DOMAIN Targets) /\ IsFiniteSet(DOMAIN Ports)
  BY <1>1, <1>2, FS_Interval
<1> QED
  BY <1>3, FS_Product DEF Jobs

LEMMA AddressesFinite ==
  IsFiniteSet(Addresses) /\ Cardinality(Addresses) <= Len(Targets)
<1>1. /\ DOMAIN Targets = 1..Len(Targets)
      /\ Len(Targets) \in Nat
  BY EngineAssumption
<1>2. IsFiniteSet(DOMAIN Targets) /\ Cardinality(DOMAIN Targets) = Len(Targets)
  <2>1. /\ IsFiniteSet(1..Len(Targets))
        /\ Cardinality(1..Len(Targets)) =
             IF 1 > Len(Targets) THEN 0 ELSE Len(Targets) - 1 + 1
    BY <1>1, FS_Interval
  <2>2. Cardinality(1..Len(Targets)) = Len(Targets)
    BY <1>1, <2>1
  <2> QED
    BY <1>1, <2>1, <2>2
<1>3. Targets \in [DOMAIN Targets -> Addresses]
  BY EngineAssumption DEF Addresses
<1>4. \A a \in Addresses : \E i \in DOMAIN Targets : Targets[i] = a
  BY DEF Addresses
<1>5. Targets \in Surjection(DOMAIN Targets, Addresses)
  BY <1>3, <1>4, Fun_IsSurj
<1> QED
  BY <1>2, <1>5, FS_Surjection

\* A job names an address of the target list and a port of the port list.
LEMMA JobParts ==
  ASSUME NEW j \in Jobs
  PROVE  JobHost(j) \in Addresses /\ JobPort(j) \in Nat
<1>1. j[1] \in DOMAIN Targets /\ j[2] \in DOMAIN Ports
  BY DEF Jobs
<1>2. Ports[j[2]] \in Nat
  BY <1>1, EngineAssumption
<1> QED
  BY <1>1, <1>2 DEF JobHost, JobPort, Addresses

\* How many jobs are in a stage, after one job has moved from s to t.
LEMMA MoveCounts ==
  ASSUME NEW S, IsFiniteSet(S), NEW j
  PROVE  /\ j \notin S => Cardinality(S \cup {j}) = Cardinality(S) + 1
         /\ j \in S => Cardinality(S \ {j}) = Cardinality(S) - 1
         /\ Cardinality(S) \in Nat
         /\ j \in S => Cardinality(S) > 0
<1>1. Cardinality(S) \in Nat
  BY FS_CardinalityType
<1>2. IsFiniteSet(S \ {j}) /\ Cardinality(S \ {j}) \in Nat
  BY FS_RemoveElement, FS_CardinalityType
<1>3. ASSUME j \notin S
      PROVE  Cardinality(S \cup {j}) = Cardinality(S) + 1
  BY <1>3, FS_AddElement
<1>4. ASSUME j \in S
      PROVE  Cardinality(S \ {j}) = Cardinality(S) - 1
  BY <1>4, FS_RemoveElement
<1>5. ASSUME j \in S
      PROVE  Cardinality(S) > 0
  BY <1>1, <1>2, <1>4, <1>5
<1> QED
  BY <1>1, <1>3, <1>4, <1>5

-----------------------------------------------------------------------------
(* The inductive invariant: what each future's stage says about its value,  *)
(* and that the buffer never outgrows the limit.                            *)
VerdictWithStage ==
  \A j \in Jobs :
    /\ stage[j] \in {"ready", "collected"} => verdict[j] \in Verdicts
    /\ stage[j] \notin {"ready", "collected"} => verdict[j] = NoVerdict

BufferBounded == Cardinality(Buffered) <= Concurrency

ReturnedWhenAllCollected ==
  returned => \A j \in Jobs : stage[j] = "collected"

IInv ==
  /\ TypeOK
  /\ PermitsConserved
  /\ BufferBounded
  /\ VerdictWithStage
  /\ FiledUnderOwnHost
  /\ ReturnedWhenAllCollected

LEMMA SetsFinite ==
  IsFiniteSet(Buffered) /\ \A s : IsFiniteSet(In(s))
<1>1. Buffered \subseteq Jobs /\ \A s : In(s) \subseteq Jobs
  BY DEF Buffered, In
<1> QED
  BY <1>1, JobsFinite, FS_Subset

-----------------------------------------------------------------------------
LEMMA InitInv == Init => IInv
<1> SUFFICES ASSUME Init PROVE IInv
  OBVIOUS
<1>1. TypeOK
  <2>1. Len(Targets) \in Nat /\ Concurrency \in Nat
    BY EngineAssumption
  <2>2. <<>> \in Seq(PortEntry)
    BY EmptySeq
  <2>3. host_ports \in [Addresses -> Seq(PortEntry)]
    BY <2>2 DEF Init
  <2>4. summary.targets_scanned \in 0..Len(Targets) /\ summary.hosts_up \in 0..Len(Targets)
    BY <2>1 DEF Init, NoSummary
  <2>5. stage \in [Jobs -> Stages] /\ verdict \in [Jobs -> Verdicts \cup {NoVerdict}]
    BY DEF Init, Stages
  <2>6. permits \in 0..Concurrency
    BY <2>1 DEF Init
  <2>7. returned \in BOOLEAN
    BY DEF Init
  <2> QED
    BY <2>3, <2>4, <2>5, <2>6, <2>7 DEF TypeOK
<1>2. In("probing") = {} /\ Buffered = {} /\ In("collected") = {}
  BY DEF Init, In, Buffered
<1>3. PermitsConserved /\ BufferBounded
  <2>1. Cardinality(In("probing")) = 0 /\ Cardinality(Buffered) = 0
    BY <1>2, FS_EmptySet
  <2> QED
    BY <2>1, EngineAssumption DEF PermitsConserved, BufferBounded, Init
<1>4. VerdictWithStage
  BY DEF Init, VerdictWithStage
<1>5. FiledUnderOwnHost
  BY <1>2 DEF Init, FiledUnderOwnHost
<1>6. ReturnedWhenAllCollected
  BY DEF Init, ReturnedWhenAllCollected
<1> QED
  BY <1>1, <1>3, <1>4, <1>5, <1>6 DEF IInv

LEMMA PullInv ==
  ASSUME IInv, NEW j \in Jobs, Pull(j)
  PROVE  IInv'
<1> USE DEF IInv
<1>1. /\ stage \in [Jobs -> Stages]
      /\ stage[j] = "queued"
      /\ stage' = [stage EXCEPT ![j] = "waiting"]
  BY DEF Pull, In, TypeOK
<1>2. TypeOK'
  BY <1>1 DEF Pull, TypeOK, Stages
<1>3. In("probing")' = In("probing") /\ In("collected")' = In("collected")
  BY <1>1 DEF In
<1>4. PermitsConserved'
  BY <1>3 DEF Pull, PermitsConserved
<1>5. Buffered' = Buffered \cup {j} /\ j \notin Buffered
  BY <1>1 DEF Buffered
<1>6. BufferBounded'
  <2>1. /\ Cardinality(Buffered') = Cardinality(Buffered) + 1
        /\ Cardinality(Buffered) \in Nat
    BY <1>5, SetsFinite, MoveCounts
  <2>2. Cardinality(Buffered) < Concurrency
    BY DEF Pull
  <2> QED
    BY <2>1, <2>2, EngineAssumption DEF BufferBounded
<1>7. VerdictWithStage'
  BY <1>1 DEF Pull, VerdictWithStage
<1>8. FiledUnderOwnHost'
  BY <1>3 DEF Pull, FiledUnderOwnHost
<1>9. ReturnedWhenAllCollected'
  BY <1>1 DEF Pull, ReturnedWhenAllCollected
<1> QED
  BY <1>2, <1>4, <1>6, <1>7, <1>8, <1>9

LEMMA AcquireInv ==
  ASSUME IInv, NEW j \in Jobs, Acquire(j)
  PROVE  IInv'
<1> USE DEF IInv
<1>1. /\ stage \in [Jobs -> Stages]
      /\ stage[j] = "waiting"
      /\ stage' = [stage EXCEPT ![j] = "probing"]
  BY DEF Acquire, TypeOK
<1>2. TypeOK'
  BY <1>1, EngineAssumption DEF Acquire, TypeOK, Stages
<1>3. In("collected")' = In("collected") /\ Buffered' = Buffered
  BY <1>1 DEF In, Buffered
<1>4. In("probing")' = In("probing") \cup {j} /\ j \notin In("probing")
  BY <1>1 DEF In
<1>5. PermitsConserved'
  <2>1. /\ Cardinality(In("probing")') = Cardinality(In("probing")) + 1
        /\ Cardinality(In("probing")) \in Nat
    BY <1>4, SetsFinite, MoveCounts
  <2>2. permits' = permits - 1 /\ permits \in 0..Concurrency
    BY DEF Acquire, TypeOK
  <2> QED
    BY <2>1, <2>2, EngineAssumption DEF PermitsConserved
<1>6. BufferBounded'
  BY <1>3 DEF BufferBounded
<1>7. VerdictWithStage'
  BY <1>1 DEF Acquire, VerdictWithStage
<1>8. FiledUnderOwnHost'
  BY <1>3 DEF Acquire, FiledUnderOwnHost
<1>9. ReturnedWhenAllCollected'
  BY <1>1 DEF Acquire, ReturnedWhenAllCollected
<1> QED
  BY <1>2, <1>5, <1>6, <1>7, <1>8, <1>9

LEMMA ResolveInv ==
  ASSUME IInv, NEW j \in Jobs, Resolve(j)
  PROVE  IInv'
<1> USE DEF IInv
<1>1. /\ stage \in [Jobs -> Stages]
      /\ stage[j] = "probing"
      /\ stage' = [stage EXCEPT ![j] = "ready"]
  BY DEF Resolve, EndProbe, TypeOK
<1>2. PICK v \in Verdicts : verdict' = [verdict EXCEPT ![j] = v]
  BY DEF Resolve, EndProbe
<1>3. In("collected")' = In("collected") /\ Buffered' = Buffered
  BY <1>1 DEF In, Buffered
<1>4. In("probing")' = In("probing") \ {j} /\ j \in In("probing")
  BY <1>1 DEF In
<1>5. PermitsConserved' /\ permits' \in 0..Concurrency
  <2>1. /\ Cardinality(In("probing")') = Cardinality(In("probing")) - 1
        /\ Cardinality(In("probing")) \in Nat
        /\ Cardinality(In("probing")) > 0
    BY <1>4, SetsFinite, MoveCounts
  <2>2. permits' = permits + 1 /\ permits \in 0..Concurrency
    BY DEF Resolve, EndProbe, TypeOK
  <2> QED
    BY <2>1, <2>2, EngineAssumption DEF PermitsConserved
<1>6. TypeOK'
  BY <1>1, <1>2, <1>5 DEF Resolve, EndProbe, TypeOK, Stages
<1>7. BufferBounded'
  BY <1>3 DEF BufferBounded
<1>8. VerdictWithStage'
  BY <1>1, <1>2 DEF Resolve, EndProbe, VerdictWithStage, TypeOK
<1>9. FiledUnderOwnHost'
  <2>1. \A k \in In("collected") : verdict'[k] = verdict[k]
    BY <1>1, <1>2 DEF In, TypeOK
  <2> QED
    BY <1>3, <2>1 DEF Resolve, EndProbe, FiledUnderOwnHost
<1>10. ReturnedWhenAllCollected'
  BY <1>1 DEF Resolve, EndProbe, ReturnedWhenAllCollected
<1> QED
  BY <1>5, <1>6, <1>7, <1>8, <1>9, <1>10

LEMMA CollectInv ==
  ASSUME IInv, NEW j \in Jobs, Collect(j)
  PROVE  IInv'
<1> USE DEF IInv
<1> DEFINE entry == [port |-> JobPort(j), status |-> verdict[j]]
<1>1. /\ stage \in [Jobs -> Stages]
      /\ stage[j] = "ready"
      /\ stage' = [stage EXCEPT ![j] = "collected"]
  BY DEF Collect, TypeOK
<1>2. entry \in PortEntry /\ JobHost(j) \in Addresses
  BY <1>1, JobParts, EngineAssumption DEF VerdictWithStage, PortEntry
<1>3. host_ports \in [Addresses -> Seq(PortEntry)]
  BY DEF TypeOK
<1>4. host_ports' =
        [host_ports EXCEPT ![JobHost(j)] = Append(host_ports[JobHost(j)], entry)]
  BY DEF Collect
<1>5. host_ports' \in [Addresses -> Seq(PortEntry)]
  BY <1>2, <1>3, <1>4
<1>6. TypeOK'
  BY <1>1, <1>5 DEF Collect, TypeOK, Stages
<1>7. In("collected")' = In("collected") \cup {j} /\ In("probing")' = In("probing")
  BY <1>1 DEF In
<1>8. Buffered' = Buffered \ {j} /\ j \in Buffered
  BY <1>1 DEF Buffered
<1>9. PermitsConserved'
  BY <1>7 DEF Collect, PermitsConserved
<1>10. BufferBounded'
  BY <1>8, SetsFinite, MoveCounts, EngineAssumption DEF BufferBounded
<1>11. VerdictWithStage'
  BY <1>1 DEF Collect, VerdictWithStage
<1>12. FiledUnderOwnHost'
  <2> SUFFICES ASSUME NEW ip \in Addresses
               PROVE  {host_ports'[ip][i] : i \in DOMAIN host_ports'[ip]} =
                        {[port |-> JobPort(k), status |-> verdict[k]] :
                           k \in {m \in In("collected") \cup {j} : JobHost(m) = ip}}
    BY <1>7 DEF FiledUnderOwnHost, Collect
  <2>1. {host_ports[ip][i] : i \in DOMAIN host_ports[ip]} =
          {[port |-> JobPort(k), status |-> verdict[k]] :
             k \in {m \in In("collected") : JobHost(m) = ip}}
    BY DEF FiledUnderOwnHost
  <2>2. CASE ip = JobHost(j)
    <3>1. host_ports'[ip] = Append(host_ports[ip], entry)
      BY <1>3, <1>4, <2>2
    <3>2. {host_ports'[ip][i] : i \in DOMAIN host_ports'[ip]} =
            {host_ports[ip][i] : i \in DOMAIN host_ports[ip]} \cup {entry}
      <4> DEFINE list == host_ports[ip]
      <4>1. list \in Seq(PortEntry)
        BY <1>3
      <4>2. /\ DOMAIN Append(list, entry) = 1..(Len(list) + 1)
            /\ DOMAIN list = 1..Len(list)
            /\ Len(list) \in Nat
            /\ Append(list, entry)[Len(list) + 1] = entry
            /\ \A i \in DOMAIN list : Append(list, entry)[i] = list[i]
        BY <1>2, <4>1
      <4>3. DOMAIN Append(list, entry) = DOMAIN list \cup {Len(list) + 1}
        BY <4>2
      <4> HIDE DEF list, entry
      <4> QED
        BY <3>1, <4>2, <4>3 DEF list
    <3> QED
      BY <2>1, <2>2, <3>2
  <2>3. CASE ip # JobHost(j)
    <3>1. host_ports'[ip] = host_ports[ip]
      BY <1>3, <1>4, <2>3
    <3> QED
      BY <2>1, <2>3, <3>1
  <2> QED
    BY <2>2, <2>3
<1>13. ReturnedWhenAllCollected'
  BY <1>1 DEF Collect, ReturnedWhenAllCollected
<1> QED
  BY <1>6, <1>9, <1>10, <1>11, <1>12, <1>13

LEMMA FinalizeInv ==
  ASSUME IInv, Finalize
  PROVE  IInv'
<1> USE DEF IInv
<1> DEFINE up == {ip \in Addresses : HostVerdict(host_ports[ip]) = "Up"}
<1>1. IsFiniteSet(up) /\ Cardinality(up) <= Cardinality(Addresses)
  BY AddressesFinite, FS_Subset
<1>2. Cardinality(up) \in 0..Len(Targets)
  BY <1>1, AddressesFinite, FS_CardinalityType, EngineAssumption
<1>3. summary'.targets_scanned = Len(Targets) /\ summary'.hosts_up = Cardinality(up)
  BY DEF Finalize
<1>4. Len(Targets) \in Nat
  BY EngineAssumption
<1>5. TypeOK'
  BY <1>2, <1>3, <1>4 DEF Finalize, TypeOK
<1>6. /\ In("probing")' = In("probing")
      /\ In("collected")' = In("collected")
      /\ Buffered' = Buffered
  BY DEF Finalize, In, Buffered
<1>7. PermitsConserved' /\ BufferBounded'
  BY <1>6 DEF Finalize, PermitsConserved, BufferBounded
<1>8. VerdictWithStage'
  BY DEF Finalize, VerdictWithStage
<1>9. FiledUnderOwnHost'
  BY <1>6 DEF Finalize, FiledUnderOwnHost
<1>10. ReturnedWhenAllCollected'
  BY DEF Finalize, ReturnedWhenAllCollected, In, Buffered, TypeOK, Stages
<1> QED
  BY <1>5, <1>7, <1>8, <1>9, <1>10

LEMMA StutterInv ==
  ASSUME IInv, UNCHANGED vars
  PROVE  IInv'
BY DEF IInv, vars, TypeOK, PermitsConserved, BufferBounded, VerdictWithStage,
       FiledUnderOwnHost, ReturnedWhenAllCollected, In, Buffered

LEMMA NextInv == IInv /\ [Next]_vars => IInv'
BY PullInv, AcquireInv, ResolveInv, CollectInv, FinalizeInv, StutterInv
DEF Next, Done

LEMMA InvHolds == Spec => []IInv
BY InitInv, NextInv, PTL DEF Spec

-----------------------------------------------------------------------------
(* Every variable of run_scan keeps its type, whatever the inputs: the      *)
(* permit count stays within the limit and hosts_up within the targets.     *)
THEOREM TypeCorrect == Spec => []TypeOK
<1>1. IInv => TypeOK
  BY DEF IInv
<1> QED
  BY <1>1, InvHolds, PTL

(* The semaphore of engine/mod.rs:33 leaks no permit and admits at most     *)
(* Concurrency probes at once.                                              *)
THEOREM PermitsAreConserved == Spec => []PermitsConserved
<1>1. IInv => PermitsConserved
  BY DEF IInv
<1> QED
  BY <1>1, InvHolds, PTL

(* Whoever reaches sem.acquire() (engine/mod.rs:42) finds a permit: the     *)
(* buffer of line 49 is already as tight as the semaphore.                  *)
THEOREM SemaphoreUncontended == Spec => []AcquireNeverBlocks
<1>1. IInv => AcquireNeverBlocks
  <2> SUFFICES ASSUME IInv, NEW j \in In("waiting")
               PROVE  permits > 0
    BY DEF AcquireNeverBlocks
  <2>1. /\ In("probing") \subseteq Buffered \ {j}
        /\ j \in Buffered
    BY DEF In, Buffered
  <2>2. IsFiniteSet(Buffered) /\ IsFiniteSet(Buffered \ {j})
    BY SetsFinite, FS_RemoveElement
  <2>3. /\ Cardinality(Buffered \ {j}) = Cardinality(Buffered) - 1
        /\ Cardinality(In("probing")) <= Cardinality(Buffered \ {j})
    BY <2>1, <2>2, MoveCounts, FS_Subset
  <2>4. /\ Cardinality(Buffered) \in Nat
        /\ Cardinality(In("probing")) \in Nat
    BY SetsFinite, FS_CardinalityType
  <2> QED
    BY <2>3, <2>4, EngineAssumption
    DEF IInv, TypeOK, PermitsConserved, BufferBounded
<1> QED
  BY <1>1, InvHolds, PTL

(* No result is lost, invented or filed under another host, in whatever     *)
(* order results.next() (engine/mod.rs:62) yields them.                     *)
THEOREM ResultsFiledUnderOwnHost == Spec => []FiledUnderOwnHost
<1>1. IInv => FiledUnderOwnHost
  BY DEF IInv
<1> QED
  BY <1>1, InvHolds, PTL

-----------------------------------------------------------------------------
(* The stable sort of the results of a host.                                *)

\* The positions whose entries come no later than the one at i.
Upto(list, i) ==
  {k \in DOMAIN list : \/ list[k].port < list[i].port
                       \/ list[k].port = list[i].port /\ k <= i}

Rank(list) == [i \in DOMAIN list |-> Cardinality(Upto(list, i))]

\* The position the n-th entry comes from.
Origin(list, n) == CHOOSE i \in DOMAIN list : Cardinality(Upto(list, i)) = n

LEMMA PortNumbers ==
  ASSUME NEW list \in Seq(PortEntry)
  PROVE  \A k \in DOMAIN list : k \in Int /\ list[k].port \in Int
<1>1. \A E : \A s \in Seq(E) : \A k \in DOMAIN s : k \in Int /\ s[k] \in E
  OBVIOUS
<1>2. \A k \in DOMAIN list : k \in Int /\ list[k] \in PortEntry
  BY <1>1
<1>3. \A e \in PortEntry : e.port \in Int
  BY DEF PortEntry
<1> QED BY <1>2, <1>3

LEMMA UptoGrows ==
  ASSUME NEW list \in Seq(PortEntry), NEW i \in DOMAIN list, NEW j \in DOMAIN list, i # j
  PROVE  /\ i \in Upto(list, i) /\ Upto(list, i) \subseteq DOMAIN list
         /\ i \in Upto(list, j) => Upto(list, i) \subseteq Upto(list, j) /\ j \notin Upto(list, i)
         /\ i \in Upto(list, j) \/ j \in Upto(list, i)
<1>1. \A k \in DOMAIN list : k \in Int /\ list[k].port \in Int
  BY PortNumbers
<1> DEFINE port == [k \in DOMAIN list |-> list[k].port]
<1>2. \A k \in DOMAIN list : port[k] = list[k].port /\ port[k] \in Int
  BY <1>1
<1>3. \A m \in DOMAIN list :
        Upto(list, m) = {k \in DOMAIN list : port[k] < port[m] \/ (port[k] = port[m] /\ k <= m)}
  BY <1>2 DEF Upto
<1> HIDE DEF port
<1>4. \A k \in DOMAIN list : port[k] \in Int
  BY <1>2
<1> QED BY <1>1, <1>3, <1>4

LEMMA RankProperties ==
  ASSUME NEW list \in Seq(PortEntry)
  PROVE  /\ Rank(list) \in Bijection(DOMAIN list, DOMAIN list)
         /\ \A i, j \in DOMAIN list : Rank(list)[i] < Rank(list)[j] => list[i].port <= list[j].port
<1> DEFINE D == DOMAIN list
           f == Rank(list)
<1>1. /\ D = 1..Len(list) /\ Len(list) \in Nat
      /\ f = [i \in D |-> Cardinality(Upto(list, i))]
  BY DEF Rank
<1>2. IsFiniteSet(D) /\ Cardinality(D) = Len(list)
  BY <1>1, FS_Interval
<1>3. \A i \in D : /\ i \in Upto(list, i) /\ Upto(list, i) \subseteq D
  <2> TAKE i \in D
  <2>1. list[i].port \in Int /\ i \in Int
    BY PortNumbers
  <2> QED BY <2>1 DEF Upto
<1> HIDE DEF D, f
<1>4. \A i \in D : f[i] \in D
  <2> TAKE i \in D
  <2>1. /\ IsFiniteSet(Upto(list, i)) /\ Cardinality(Upto(list, i)) <= Cardinality(D)
        /\ Cardinality(Upto(list, i)) \in Nat
    BY <1>2, <1>3, FS_Subset, FS_CardinalityType
  <2>2. Cardinality(Upto(list, i)) > 0
    BY <1>3, <2>1, MoveCounts
  <2>3. f[i] = Cardinality(Upto(list, i))
    BY <1>1
  <2> QED BY <1>1, <1>2, <2>1, <2>2, <2>3
<1>5. \A i, j \in D : i # j /\ i \in Upto(list, j) => f[i] < f[j]
  <2> SUFFICES ASSUME NEW i \in D, NEW j \in D, i # j, i \in Upto(list, j)
               PROVE  f[i] < f[j]
    OBVIOUS
  <2>1. /\ Upto(list, i) \subseteq Upto(list, j) \ {j}
        /\ j \in Upto(list, j) /\ Upto(list, j) \subseteq D
    BY <1>3, UptoGrows DEF D
  <2>2. IsFiniteSet(Upto(list, j)) /\ IsFiniteSet(Upto(list, j) \ {j})
    BY <1>2, <2>1, FS_Subset, FS_RemoveElement
  <2>3. /\ Cardinality(Upto(list, j) \ {j}) = Cardinality(Upto(list, j)) - 1
        /\ Cardinality(Upto(list, i)) <= Cardinality(Upto(list, j) \ {j})
        /\ Cardinality(Upto(list, j)) \in Nat
    BY <2>1, <2>2, MoveCounts, FS_Subset
  <2>4. IsFiniteSet(Upto(list, i)) /\ Cardinality(Upto(list, i)) \in Nat
    BY <2>1, <2>2, FS_Subset, FS_CardinalityType
  <2>5. f[i] = Cardinality(Upto(list, i)) /\ f[j] = Cardinality(Upto(list, j))
    BY <1>1
  <2> QED BY <2>3, <2>4, <2>5
<1>6. \A i, j \in D : i # j => i \in Upto(list, j) \/ j \in Upto(list, i)
  BY UptoGrows DEF D
<1>7. \A i, j \in D : f[i] = f[j] => i = j
  <2> SUFFICES ASSUME NEW i \in D, NEW j \in D, i # j
               PROVE  f[i] # f[j]
    OBVIOUS
  <2>1. f[i] \in Int /\ f[j] \in Int
    BY <1>1, <1>4
  <2>2. f[i] < f[j] \/ f[j] < f[i]
    BY <1>5, <1>6
  <2> QED BY <2>1, <2>2
<1>8. f \in [D -> D]
  BY <1>1, <1>4
<1>9. f \in Injection(D, D)
  BY <1>7, <1>8, Fun_IsInj
<1>10. f \in Surjection(D, D)
  BY <1>2, <1>9, FS_Injection
<1>11. f \in Bijection(D, D)
  BY <1>9, <1>10 DEF Bijection
<1>12. \A i, j \in D : f[i] < f[j] => list[i].port <= list[j].port
  <2> SUFFICES ASSUME NEW i \in D, NEW j \in D, f[i] < f[j]
               PROVE  list[i].port <= list[j].port
    OBVIOUS
  <2>1. f[i] \in Int /\ f[j] \in Int
    BY <1>1, <1>4
  <2>2. i # j /\ ~(f[j] < f[i])
    BY <2>1
  <2>3. i \in Upto(list, j)
    BY <1>5, <1>6, <2>2
  <2>4. list[i].port \in Int /\ list[j].port \in Int
    BY PortNumbers DEF D
  <2> QED BY <2>3, <2>4 DEF Upto
<1> QED BY <1>11, <1>12 DEF D, f

(* SortByPort puts the entries in ascending order of their ports, and lists *)
(* each exactly as often as it was there.                                   *)
LEMMA SortedByPort ==
  ASSUME NEW list \in Seq(PortEntry)
  PROVE  LET sorted == SortByPort(list) IN
         /\ DOMAIN sorted = DOMAIN list
         /\ \A m, n \in DOMAIN list : m < n => sorted[m].port <= sorted[n].port
         /\ \A entry : Cardinality({i \in DOMAIN sorted : sorted[i] = entry})
                        = Cardinality({i \in DOMAIN list : list[i] = entry})
<1> DEFINE D == DOMAIN list
           f == Rank(list)
           sorted == SortByPort(list)
<1>1. f \in Bijection(D, D) /\ IsFiniteSet(D)
  <2>1. D = 1..Len(list) /\ Len(list) \in Nat
    OBVIOUS
  <2> QED BY <2>1, RankProperties, FS_Interval
<1>2. \A i, j \in D : f[i] < f[j] => list[i].port <= list[j].port
  BY RankProperties
<1>3. sorted = [n \in D |-> list[Origin(list, n)]]
  BY DEF SortByPort, Origin, Upto
<1>4. \A n \in D : Origin(list, n) \in D /\ f[Origin(list, n)] = n
  <2>1. \A n \in D : \E i \in D : f[i] = n
    BY <1>1 DEF Bijection, Surjection
  <2>2. \A i \in D : f[i] = Cardinality(Upto(list, i))
    BY DEF Rank
  <2> HIDE DEF D, f
  <2> QED BY <2>1, <2>2 DEF Origin, D
<1>5. \A i, j \in D : f[i] = f[j] => i = j
  BY <1>1 DEF Bijection, Injection, IsInjective
<1>6. \A i \in D : f[i] \in D /\ sorted[f[i]] = list[i]
  <2>1. \A i \in D : f[i] \in D
    BY <1>1 DEF Bijection, Injection
  <2>2. \A i \in D : Origin(list, f[i]) = i
    <3> HIDE DEF D, f
    <3> QED BY <1>4, <1>5, <2>1
  <2> HIDE DEF D, f, sorted
  <2> QED BY <1>3, <2>1, <2>2
<1> HIDE DEF D, f, sorted
<1>7. DOMAIN sorted = D
  BY <1>3
<1>8. \A m, n \in D : m < n => sorted[m].port <= sorted[n].port
  <2> SUFFICES ASSUME NEW m \in D, NEW n \in D, m < n
               PROVE  sorted[m].port <= sorted[n].port
    OBVIOUS
  <2> DEFINE a == Origin(list, m)
             b == Origin(list, n)
  <2>1. a \in D /\ b \in D /\ f[a] = m /\ f[b] = n /\ sorted[m] = list[a] /\ sorted[n] = list[b]
    BY <1>3, <1>4
  <2> HIDE DEF a, b
  <2> QED BY <1>2, <2>1
<1>9. ASSUME NEW entry
      PROVE  Cardinality({i \in D : sorted[i] = entry}) = Cardinality({i \in D : list[i] = entry})
  <2> DEFINE S == {i \in D : list[i] = entry}
             T == {i \in D : sorted[i] = entry}
             g == [i \in S |-> f[i]]
  <2>1. g \in [S -> T]
    BY <1>6
  <2>2. \A i, j \in S : g[i] = g[j] => i = j
    BY <1>5
  <2>3. \A n \in T : \E i \in S : g[i] = n
    <3> TAKE n \in T
    <3>1. Origin(list, n) \in D /\ f[Origin(list, n)] = n /\ list[Origin(list, n)] = entry
      BY <1>3, <1>4
    <3> QED BY <3>1
  <2> HIDE DEF g
  <2>4. g \in Bijection(S, T)
    BY <2>1, <2>2, <2>3, Fun_IsBij
  <2>5. IsFiniteSet(S)
    BY <1>1, FS_Subset
  <2>6. ExistsBijection(S, T)
    BY <2>4 DEF ExistsBijection
  <2> HIDE DEF S, T
  <2>7. Cardinality(T) = Cardinality(S)
    BY <2>5, <2>6, FS_Bijection
  <2> QED BY <2>7 DEF S, T
<1> QED BY <1>7, <1>8, <1>9 DEF D, sorted

-----------------------------------------------------------------------------
(* What has been filed, counted.                                            *)

FiledFor(ip, entry) == {i \in DOMAIN host_ports[ip] : host_ports[ip][i] = entry}

CollectedFor(ip, entry) ==
  {j \in In("collected") : JobHost(j) = ip
                           /\ [port |-> JobPort(j), status |-> verdict[j]] = entry}

FiledAsOften ==
  \A ip \in Addresses : \A entry \in PortEntry :
    Cardinality(FiledFor(ip, entry)) = Cardinality(CollectedFor(ip, entry))

ReportSorted ==
  returned => \A ip \in Addresses : summary.hosts[ip].ports = SortByPort(host_ports[ip])

CountInv == IInv /\ FiledAsOften /\ ReportSorted

LEMMA FiledForUnchanged ==
  ASSUME FiledAsOften, UNCHANGED host_ports, In("collected")' = In("collected"),
         \A j \in In("collected") : verdict'[j] = verdict[j]
  PROVE  FiledAsOften'
<1>1. \A ip \in Addresses : \A entry \in PortEntry :
        FiledFor(ip, entry)' = FiledFor(ip, entry) /\ CollectedFor(ip, entry)' = CollectedFor(ip, entry)
  BY DEF FiledFor, CollectedFor
<1> QED BY <1>1 DEF FiledAsOften

LEMMA CollectCounts ==
  ASSUME IInv, FiledAsOften, NEW j \in Jobs, Collect(j)
  PROVE  FiledAsOften'
<1> DEFINE filed == [port |-> JobPort(j), status |-> verdict[j]]
<1>1. /\ stage[j] = "ready" /\ stage' = [stage EXCEPT ![j] = "collected"]
      /\ host_ports' = [host_ports EXCEPT ![JobHost(j)] = Append(host_ports[JobHost(j)], filed)]
      /\ verdict' = verdict
  BY DEF Collect
<1>2. stage \in [Jobs -> Stages] /\ host_ports \in [Addresses -> Seq(PortEntry)]
  BY DEF IInv, TypeOK
<1>3. In("collected")' = In("collected") \cup {j} /\ j \notin In("collected")
  BY <1>1, <1>2 DEF In
<1>4. filed \in PortEntry /\ JobHost(j) \in Addresses
  BY <1>1, JobParts, EngineAssumption DEF IInv, VerdictWithStage, PortEntry
<1> HIDE DEF filed
<1> SUFFICES ASSUME NEW ip \in Addresses, NEW entry \in PortEntry
             PROVE  Cardinality(FiledFor(ip, entry)') = Cardinality(CollectedFor(ip, entry)')
  BY DEF FiledAsOften
<1> DEFINE list == host_ports[ip]
<1>5. list \in Seq(PortEntry) /\ DOMAIN list = 1..Len(list) /\ Len(list) \in Nat
  BY <1>2
<1>6. /\ Cardinality(FiledFor(ip, entry)) = Cardinality(CollectedFor(ip, entry))
      /\ IsFiniteSet(FiledFor(ip, entry)) /\ IsFiniteSet(CollectedFor(ip, entry))
  <2>1. IsFiniteSet(DOMAIN list)
    BY <1>5, FS_Interval
  <2>2. FiledFor(ip, entry) \subseteq DOMAIN list /\ CollectedFor(ip, entry) \subseteq In("collected")
    BY DEF FiledFor, CollectedFor
  <2>3. IsFiniteSet(In("collected"))
    BY SetsFinite
  <2> QED BY <2>1, <2>2, <2>3, FS_Subset DEF FiledAsOften
<1>7. CASE ip = JobHost(j) /\ entry = filed
  <2>1. host_ports'[ip] = Append(list, filed)
    BY <1>1, <1>2, <1>7
  <2>2. FiledFor(ip, entry)' = FiledFor(ip, entry) \cup {Len(list) + 1}
        /\ Len(list) + 1 \notin FiledFor(ip, entry)
    <3>1. /\ DOMAIN Append(list, filed) = 1..(Len(list) + 1)
          /\ Append(list, filed)[Len(list) + 1] = filed
          /\ \A i \in DOMAIN list : Append(list, filed)[i] = list[i]
      BY <1>4, <1>5
    <3>2. 1..(Len(list) + 1) = DOMAIN list \cup {Len(list) + 1} /\ Len(list) + 1 \notin DOMAIN list
      BY <1>5
    <3>3. FiledFor(ip, entry)' = {i \in DOMAIN Append(list, filed) : Append(list, filed)[i] = entry}
      BY <2>1 DEF FiledFor
    <3>4. FiledFor(ip, entry) = {i \in DOMAIN list : list[i] = entry}
      BY DEF FiledFor
    <3> HIDE DEF list
    <3> QED BY <1>7, <3>1, <3>2, <3>3, <3>4
  <2>3. CollectedFor(ip, entry)' = CollectedFor(ip, entry) \cup {j} /\ j \notin CollectedFor(ip, entry)
    BY <1>1, <1>3, <1>7 DEF CollectedFor, filed
  <2> QED BY <1>6, <2>2, <2>3, MoveCounts
<1>8. CASE ip # JobHost(j)
  <2>1. host_ports'[ip] = host_ports[ip]
    BY <1>1, <1>2, <1>8
  <2>2. FiledFor(ip, entry)' = FiledFor(ip, entry)
    BY <2>1 DEF FiledFor
  <2>3. CollectedFor(ip, entry)' = CollectedFor(ip, entry)
    BY <1>1, <1>3, <1>8 DEF CollectedFor
  <2> QED BY <1>6, <2>2, <2>3
<1>9. CASE ip = JobHost(j) /\ entry # filed
  <2>1. host_ports'[ip] = Append(list, filed)
    BY <1>1, <1>2, <1>9
  <2>2. FiledFor(ip, entry)' = FiledFor(ip, entry)
    <3>1. /\ DOMAIN Append(list, filed) = 1..(Len(list) + 1)
          /\ Append(list, filed)[Len(list) + 1] = filed
          /\ \A i \in DOMAIN list : Append(list, filed)[i] = list[i]
      BY <1>4, <1>5
    <3>2. 1..(Len(list) + 1) = DOMAIN list \cup {Len(list) + 1} /\ Len(list) + 1 \notin DOMAIN list
      BY <1>5
    <3>3. FiledFor(ip, entry)' = {i \in DOMAIN Append(list, filed) : Append(list, filed)[i] = entry}
      BY <2>1 DEF FiledFor
    <3>4. FiledFor(ip, entry) = {i \in DOMAIN list : list[i] = entry}
      BY DEF FiledFor
    <3> HIDE DEF list
    <3> QED BY <1>9, <3>1, <3>2, <3>3, <3>4
  <2>3. CollectedFor(ip, entry)' = CollectedFor(ip, entry)
    BY <1>1, <1>3, <1>9 DEF CollectedFor, filed
  <2> QED BY <1>6, <2>2, <2>3
<1> QED BY <1>7, <1>8, <1>9

LEMMA CountInit == Init => CountInv
<1> SUFFICES ASSUME Init PROVE CountInv
  OBVIOUS
<1>1. IInv
  BY InitInv
<1>2. FiledAsOften
  <2>1. \A ip \in Addresses : \A entry \in PortEntry :
          FiledFor(ip, entry) = {} /\ CollectedFor(ip, entry) = {}
    BY DEF Init, FiledFor, CollectedFor, In
  <2> QED BY <2>1 DEF FiledAsOften
<1>3. ReportSorted
  BY DEF Init, ReportSorted
<1> QED BY <1>1, <1>2, <1>3 DEF CountInv

LEMMA CountNext == CountInv /\ [Next]_vars => CountInv'
<1> SUFFICES ASSUME CountInv, [Next]_vars PROVE CountInv'
  OBVIOUS
<1> USE DEF CountInv
<1>1. IInv'
  BY NextInv
<1>2. ASSUME NEW j \in Jobs, Pull(j)
      PROVE  FiledAsOften' /\ ReportSorted'
  <2>1. In("collected")' = In("collected")
    BY <1>2 DEF Pull, In, IInv, TypeOK
  <2> QED BY <1>2, <2>1, FiledForUnchanged DEF Pull, ReportSorted
<1>3. ASSUME NEW j \in Jobs, Acquire(j)
      PROVE  FiledAsOften' /\ ReportSorted'
  <2>1. In("collected")' = In("collected")
    BY <1>3 DEF Acquire, In, IInv, TypeOK
  <2> QED BY <1>3, <2>1, FiledForUnchanged DEF Acquire, ReportSorted
<1>4. ASSUME NEW j \in Jobs, Resolve(j)
      PROVE  FiledAsOften' /\ ReportSorted'
  <2>1. In("collected")' = In("collected") /\ j \notin In("collected")
    BY <1>4 DEF Resolve, EndProbe, In, IInv, TypeOK
  <2>2. \A k \in In("collected") : verdict'[k] = verdict[k]
    BY <1>4, <2>1 DEF Resolve, EndProbe, In, IInv, TypeOK
  <2> QED BY <1>4, <2>1, <2>2, FiledForUnchanged DEF Resolve, EndProbe, ReportSorted
<1>5. ASSUME NEW j \in Jobs, Collect(j)
      PROVE  FiledAsOften' /\ ReportSorted'
  <2>1. ~returned /\ returned' = returned
    BY <1>5 DEF Collect, IInv, ReturnedWhenAllCollected
  <2> QED BY <1>5, <2>1, CollectCounts DEF ReportSorted
<1>6. CASE Finalize
  <2>1. In("collected")' = In("collected") /\ UNCHANGED <<host_ports, verdict>>
    BY <1>6 DEF Finalize, In
  <2>2. \A ip \in Addresses : summary'.hosts[ip].ports = SortByPort(host_ports[ip])
    BY <1>6 DEF Finalize
  <2> QED BY <2>1, <2>2, <1>1, FiledForUnchanged DEF ReportSorted
<1>7. CASE UNCHANGED vars
  <2>1. In("collected")' = In("collected") /\ UNCHANGED <<host_ports, verdict, returned, summary>>
    BY <1>7 DEF vars, In
  <2>2. FiledAsOften'
    <3>1. \A j \in In("collected") : verdict'[j] = verdict[j]
      BY <2>1
    <3> QED BY <2>1, <3>1, FiledForUnchanged
  <2>3. ReportSorted'
    BY <2>1 DEF ReportSorted
  <2> QED BY <1>1, <2>2, <2>3
<1> QED BY <1>1, <1>2, <1>3, <1>4, <1>5, <1>6, <1>7 DEF Next, Done

LEMMA CountHolds == Spec => []CountInv
BY CountInit, CountNext, PTL DEF Spec

(* Whatever order the probes completed in, the report lists under each      *)
(* address the ports in ascending order, and each result exactly as often   *)
(* as a probe of that pair found it (engine/mod.rs:93-94).                  *)
THEOREM ReportDoesNotRace == Spec => []ReportOrderIndependent
<1>1. CountInv => ReportOrderIndependent
  <2> SUFFICES ASSUME CountInv, returned, NEW ip \in Addresses
               PROVE  /\ \A m, n \in DOMAIN summary.hosts[ip].ports :
                           m < n => summary.hosts[ip].ports[m].port <= summary.hosts[ip].ports[n].port
                      /\ \A entry \in [port : {Ports[n] : n \in DOMAIN Ports}, status : PortStatus] :
                           Listed(ip, entry) = Probed(ip, entry)
    BY DEF ReportOrderIndependent
  <2> DEFINE list == host_ports[ip]
             sorted == SortByPort(list)
  <2>1. summary.hosts[ip].ports = sorted
    BY DEF CountInv, ReportSorted
  <2>2. list \in Seq(PortEntry)
    BY DEF CountInv, IInv, TypeOK
  <2>3. /\ DOMAIN sorted = DOMAIN list
        /\ \A m, n \in DOMAIN list : m < n => sorted[m].port <= sorted[n].port
        /\ \A entry : Cardinality({i \in DOMAIN sorted : sorted[i] = entry})
                       = Cardinality({i \in DOMAIN list : list[i] = entry})
    <3> HIDE DEF list
    <3> QED BY <2>2, SortedByPort
  <2> HIDE DEF sorted
  <2>4. ASSUME NEW entry \in [port : {Ports[n] : n \in DOMAIN Ports}, status : PortStatus]
        PROVE  Listed(ip, entry) = Probed(ip, entry)
    <3>1. entry \in PortEntry
      BY EngineAssumption DEF PortEntry
    <3>2. Listed(ip, entry) = Cardinality(FiledFor(ip, entry))
      BY <2>1, <2>3 DEF Listed, FiledFor
    <3>3. Probed(ip, entry) = Cardinality(CollectedFor(ip, entry))
      <4>1. In("collected") = Jobs
        BY DEF CountInv, IInv, ReturnedWhenAllCollected, In
      <4> QED BY <4>1 DEF Probed, CollectedFor
    <3> QED BY <3>1, <3>2, <3>3 DEF CountInv, FiledAsOften
  <2> QED BY <2>1, <2>3, <2>4
<1> QED BY <1>1, CountHolds, PTL

-----------------------------------------------------------------------------
(* Refinement of ScanPromise.                                               *)

LEMMA NoVerdictIsNone ==
  ASSUME NEW v \in Verdicts
  PROVE  v \in PortStatus /\ v # NoVerdict
BY EngineAssumption DEF PortStatus, NoVerdict

LEMMA PromiseInit == Init => Promise!Init
<1> SUFFICES ASSUME Init PROVE Promise!Init
  OBVIOUS
<1>1. Recorded = [j \in Jobs |-> NoVerdict]
  BY DEF Init, Recorded
<1>2. returned = FALSE /\ ReportedUp = {} /\ summary.hosts_up = 0
  BY DEF Init, ReportedUp, NoSummary
<1> QED
  BY <1>1, <1>2 DEF Promise!Init

\* Before the last result is filed nothing of the promise's state moves.
LEMMA QuietStep ==
  ASSUME IInv, stage' \in [Jobs -> Stages],
         In("collected")' = In("collected"),
         \A j \in In("collected") : verdict'[j] = verdict[j],
         UNCHANGED <<returned, summary>>
  PROVE  UNCHANGED Promise!vars
<1>1. \A j \in Jobs : (stage'[j] = "collected") <=> (stage[j] = "collected")
  BY DEF In
<1>2. Recorded' = Recorded
  BY <1>1 DEF Recorded, In
<1>3. ReportedUp' = ReportedUp
  BY DEF ReportedUp
<1> QED
  BY <1>2, <1>3 DEF Promise!vars

LEMMA CollectRecords ==
  ASSUME IInv, NEW j \in Jobs, Collect(j)
  PROVE  Promise!Record(j)
<1>1. /\ stage \in [Jobs -> Stages]
      /\ stage[j] = "ready"
      /\ stage' = [stage EXCEPT ![j] = "collected"]
      /\ verdict' = verdict /\ returned' = returned /\ summary' = summary
  BY DEF IInv, TypeOK, Collect
<1>2. ~returned
  BY <1>1 DEF IInv, ReturnedWhenAllCollected
<1>3. verdict[j] \in PortStatus
  BY <1>1, NoVerdictIsNone DEF IInv, VerdictWithStage
<1>4. Recorded[j] = NoVerdict
  BY <1>1 DEF Recorded
<1>5. Recorded' = [Recorded EXCEPT ![j] = verdict[j]]
  BY <1>1 DEF Recorded
<1>6. ReportedUp' = ReportedUp
  BY <1>1 DEF ReportedUp
<1>7. Promise!PortStatus = PortStatus
  BY DEF Promise!PortStatus, PortStatus
<1> QED
  BY <1>1, <1>2, <1>3, <1>4, <1>5, <1>6, <1>7 DEF Promise!Record

\* Once all is collected, the statuses filed under an address are the
\* verdicts of its own probes.
LEMMA FiledStatuses ==
  ASSUME IInv, \A j \in Jobs : stage[j] = "collected", NEW ip \in Addresses
  PROVE  StatusesIn(host_ports[ip]) = Promise!VerdictsOf(ip)
<1> DEFINE list == host_ports[ip]
           own == {j \in Jobs : JobHost(j) = ip}
           Entry(j) == [port |-> JobPort(j), status |-> verdict[j]]
<1>1. {k \in In("collected") : JobHost(k) = ip} = own
  BY DEF In
<1>2. {list[i] : i \in DOMAIN list} = {Entry(j) : j \in own}
  BY <1>1 DEF IInv, FiledUnderOwnHost
<1>3. \A j \in own : Recorded[j] = verdict[j] /\ Entry(j).status = verdict[j]
  BY DEF Recorded
<1>4. Promise!VerdictsOf(ip) = {verdict[j] : j \in own}
  BY <1>3 DEF Promise!VerdictsOf
<1>5. StatusesIn(list) = {list[i].status : i \in DOMAIN list}
  BY DEF StatusesIn
<1>6. ASSUME NEW i \in DOMAIN list
      PROVE  list[i].status \in {verdict[j] : j \in own}
  <2>1. PICK j \in own : list[i] = Entry(j)
    BY <1>2
  <2> QED
    BY <1>3, <2>1
<1>7. ASSUME NEW j \in own
      PROVE  verdict[j] \in {list[i].status : i \in DOMAIN list}
  <2>1. PICK i \in DOMAIN list : list[i] = Entry(j)
    BY <1>2
  <2> QED
    BY <1>3, <2>1
<1> QED
  BY <1>4, <1>5, <1>6, <1>7

LEMMA FinalizePublishes ==
  ASSUME IInv, Finalize
  PROVE  Promise!Publish
<1> DEFINE up == {ip \in Addresses : HostVerdict(host_ports[ip]) = "Up"}
<1>1. ~returned /\ returned'
  BY DEF Finalize
<1>2. \A j \in Jobs : stage[j] = "collected"
  BY DEF Finalize, In, Buffered, IInv, TypeOK, Stages
<1>3. \A j \in Jobs : Recorded[j] # NoVerdict
  BY <1>2, NoVerdictIsNone DEF Recorded, IInv, VerdictWithStage
<1>4. \A ip \in Addresses :
        HostVerdict(host_ports[ip]) = "Up" <=> AnyAnswer(Promise!VerdictsOf(ip))
  BY <1>2, FiledStatuses DEF HostVerdict
<1>5. up = {ip \in Promise!Scanned : AnyAnswer(Promise!VerdictsOf(ip))}
  <2>1. Promise!Scanned \subseteq Addresses
    BY JobParts DEF Promise!Scanned
  <2>2. \A ip \in Addresses :
          AnyAnswer(Promise!VerdictsOf(ip)) => ip \in Promise!Scanned
    BY DEF AnyAnswer, Promise!VerdictsOf, Promise!Scanned
  <2> QED
    BY <1>4, <2>1, <2>2
<1>6. summary' = [targets_scanned |-> Len(Targets),
                  hosts_up |-> Cardinality(up),
                  hosts |-> [ip \in Addresses |->
                               [status |-> HostVerdict(host_ports[ip]),
                                ports |-> SortByPort(host_ports[ip])]]]
  BY DEF Finalize
<1>7. ReportedUp' = up
  <2>1. \A ip \in Addresses : summary'.hosts[ip].status = HostVerdict(host_ports[ip])
    BY <1>6
  <2> QED
    BY <1>1, <2>1 DEF ReportedUp
<1>8. summary'.hosts_up = Cardinality(ReportedUp')
  BY <1>6, <1>7
<1>9. Recorded' = Recorded
  BY DEF Finalize, Recorded
<1>10. ReportedUp' = {ip \in Promise!Scanned : AnyAnswer(Promise!VerdictsOf(ip))}
  BY <1>5, <1>7
<1>11. /\ \A S : Promise!Cardinality(S) = Cardinality(S)
       /\ \A S : Promise!AnyAnswer(S) = AnyAnswer(S)
  BY DEF Promise!Cardinality, Cardinality, Promise!AnyAnswer, AnyAnswer
<1> QED
  BY <1>1, <1>3, <1>8, <1>9, <1>10, <1>11 DEF Promise!Publish

LEMMA PromiseNext == IInv /\ [Next]_vars => [Promise!Next]_Promise!vars
<1> SUFFICES ASSUME IInv, [Next]_vars PROVE [Promise!Next]_Promise!vars
  OBVIOUS
<1>0. stage \in [Jobs -> Stages]
  BY DEF IInv, TypeOK
<1>1. ASSUME NEW j \in Jobs, Pull(j) PROVE UNCHANGED Promise!vars
  <2>1. stage' = [stage EXCEPT ![j] = "waiting"] /\ stage[j] = "queued"
    BY <1>1 DEF Pull, In
  <2>2. /\ stage' \in [Jobs -> Stages]
        /\ In("collected")' = In("collected")
    BY <1>0, <2>1 DEF In, Stages
  <2> QED
    BY <1>1, <2>2, QuietStep DEF Pull
<1>2. ASSUME NEW j \in Jobs, Acquire(j) PROVE UNCHANGED Promise!vars
  <2>1. stage' = [stage EXCEPT ![j] = "probing"] /\ stage[j] = "waiting"
    BY <1>2 DEF Acquire
  <2>2. /\ stage' \in [Jobs -> Stages]
        /\ In("collected")' = In("collected")
    BY <1>0, <2>1 DEF In, Stages
  <2> QED
    BY <1>2, <2>2, QuietStep DEF Acquire
<1>3. ASSUME NEW j \in Jobs, Resolve(j) PROVE UNCHANGED Promise!vars
  <2>1. stage' = [stage EXCEPT ![j] = "ready"] /\ stage[j] = "probing"
    BY <1>3 DEF Resolve, EndProbe
  <2>2. /\ stage' \in [Jobs -> Stages]
        /\ In("collected")' = In("collected")
    BY <1>0, <2>1 DEF In, Stages
  <2>3. \A k \in In("collected") : verdict'[k] = verdict[k]
    BY <1>3, <2>1 DEF Resolve, EndProbe, In, IInv, TypeOK
  <2> QED
    BY <1>3, <2>2, <2>3, QuietStep DEF Resolve, EndProbe
<1>4. ASSUME NEW j \in Jobs, Collect(j) PROVE Promise!Next
  BY <1>4, CollectRecords DEF Promise!Next
<1>5. ASSUME Finalize PROVE Promise!Next
  BY <1>5, FinalizePublishes DEF Promise!Next
<1>6. ASSUME UNCHANGED vars PROVE UNCHANGED Promise!vars
  <2>1. /\ stage' \in [Jobs -> Stages]
        /\ In("collected")' = In("collected")
    BY <1>0, <1>6 DEF vars, In
  <2> QED
    BY <1>6, <2>1, QuietStep DEF vars
<1> QED
  BY <1>1, <1>2, <1>3, <1>4, <1>5, <1>6 DEF Next, Done

(* run_scan (engine/mod.rs:10-125) gives every (target, port) pair one      *)
(* verdict, once, reports only after the last of them, and calls a host up, *)
(* and counts it in hosts_up, exactly when a verdict of its own is not      *)
(* Filtered: it implements the safety part of ScanPromise.                  *)
THEOREM ScanKeepsPromise == Spec => Promise!Safety
BY InvHolds, PromiseInit, PromiseNext, PTL DEF Spec, Promise!Safety

=============================================================================
