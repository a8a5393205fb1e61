------------------------- MODULE Orchestrator_proof -------------------------
(***************************************************************************)
(* What main keeps to, for every command line, every machine, every        *)
(* network and every answer: whom it contacts, with which settings, what   *)
(* its enumeration stages report of what they were told, and what becomes  *)
(* of the report file.                                                     *)
(***************************************************************************)
EXTENDS Orchestrator, Lists_proof

\* The places before the policy has been applied to the targets.
Unscoped == {"authorize", "policy", "profile", "resolve", "scope"}

\* The places before anything may be sent.
Early == Unscoped \cup {"ports"}

Ends == {"exited", "killed"}

PortRecord ==
  [host : cli.allowed, port : ToSet(ports), protocol : {Protocol}, status : PortStatus,
   service : machine.labels \cup {{}}]

\* Where the run is, and the plan it follows.
Course ==
  /\ \E plan \in Plans : cli = plan.cli /\ machine = plan.machine
  /\ pc \in Pcs
  /\ exit \in {Running, 0, 1} /\ (exit # Running <=> pc = "exited")
  /\ pc \notin Ends \cup {"authorize"} => cli.authorized
  /\ caps.raw => machine.raw

\* What the run works on.
Work ==
  /\ hosts \in Seq(ToSet(Addresses)) /\ ports \in Seq(U16)
  /\ pc \notin Unscoped \cup Ends => ToSet(hosts) \subseteq cli.allowed
  /\ summary \in Seq(PortRecord)
  /\ pc \in Early => contacts = {} /\ summary = <<>> /\ ports = <<>>

\* What an enumeration stage works on.
Probing ==
  /\ pc \notin StageSet \cup {"killed"} => step = "enter"
  /\ pc # "killed" /\ step = "enter" => todo = <<>>
  /\ pc \in StageSet /\ step # "enter" => pc \in cli.enumerate
  /\ pc \in StageSet /\ step \notin {"enter", "idle"} => todo # <<>>
  /\ todo \in Seq(ToSet(cli.names) \cup ToSet(summary))
  /\ pc \in StageSet \ {"dns"} => todo \in Seq(ToSet(summary))

\* What a dialogue with a server, and a walk through an agent's table, hold.
FtpDialogue ==
  step \notin {"enter", "idle"} =>
    /\ step \in {"greeting", "user", "pass"}
    /\ local.wire \in Seq(Int) /\ Len(local.wire) >= 1
    /\ Len(local.wire) <= (IF step = "greeting" THEN 2 ELSE IF step = "user" THEN 3 ELSE 4)

SnmpDialogue ==
  step \notin {"enter", "idle"} =>
    /\ step \in {"get", "name", "walk"}
    /\ local.c \in 1..2
    /\ step = "walk" =>
         /\ local \in [c : 1..2, found : {local.found}, gathered : {local.gathered},
                       rows : Nat, current : Nat, names : Seq(Nat)]
         /\ local.current <= local.rows /\ Len(local.names) <= MaxInterfaces

Dialogues == (pc = "ftp" => FtpDialogue) /\ (pc = "snmp" => SnmpDialogue)

\* The file until it is written.
Saving ==
  /\ pc \notin Ends \cup {"write"} => report = "old" /\ told = "nothing"
  /\ pc = "write" => report = "empty" /\ told = "nothing" /\ cli.output
  /\ pc = "killed" => told = "nothing"
  /\ report \in {"old", "empty", "partial", "new"} /\ told \in {"nothing", "saved", "error"}

\* How the settings and the ports came about.
Settings ==
  /\ Ready => /\ ~ProfileError
              /\ \E name \in Candidates :
                   config = Merged(IF name = NoName THEN NoProfile ELSE machine.profiles[name])
  /\ ports # <<>> => /\ ports = ParsePorts(cli.ports)
                     /\ \A i \in DOMAIN cli.ports : WellFormed(cli.ports[i])

IInv ==
  /\ Course /\ Work /\ Probing /\ Dialogues /\ Saving /\ Settings
  /\ ContactsAllowed /\ ReportFileHonest

-----------------------------------------------------------------------------
LEMMA StageNames == StageSet = {"dns", "http", "tls", "ftp", "snmp", "smb"}
<1>1. DOMAIN Stages = 1..6
  BY DEF Stages
<1> QED BY <1>1 DEF StageSet, ToSet, Stages

LEMMA NextStage == \A stage \in StageSet : After(stage) \in StageSet \cup {"save"}
<1>1. Stages \in Seq(StageSet) /\ Len(Stages) = 6 /\ DOMAIN Stages = 1..6
  BY StageNames DEF Stages
<1> SUFFICES ASSUME NEW stage \in StageSet PROVE After(stage) \in StageSet \cup {"save"}
  OBVIOUS
<1> DEFINE i == CHOOSE k \in DOMAIN Stages : Stages[k] = stage
<1>2. i \in 1..6
  BY <1>1, StageNames DEF StageSet, ToSet
<1>3. i # 6 => Stages[i + 1] \in StageSet
  <2> HIDE DEF i
  <2>1. i # 6 => i + 1 \in 1..6
    BY <1>2
  <2> QED BY <1>1, <2>1 DEF StageSet, ToSet
<1> QED BY <1>1, <1>3 DEF After

LEMMA LookupNames == ToSet(Lookups) = {"cname", "ns", "mx", "txt", "ptr"}
<1>1. DOMAIN Lookups = 1..5
  BY DEF Lookups
<1> QED BY <1>1 DEF ToSet, Lookups

LEMMA NextLookup ==
  \A kind \in ToSet(Lookups) : FollowedBy(kind) \in ToSet(Lookups) \cup {"axfr"}
<1>1. Lookups \in Seq(ToSet(Lookups)) /\ Len(Lookups) = 5 /\ DOMAIN Lookups = 1..5
  BY LookupNames DEF Lookups
<1> SUFFICES ASSUME NEW kind \in ToSet(Lookups)
             PROVE  FollowedBy(kind) \in ToSet(Lookups) \cup {"axfr"}
  OBVIOUS
<1> DEFINE i == CHOOSE k \in DOMAIN Lookups : Lookups[k] = kind
<1>2. i \in 1..5
  BY <1>1 DEF ToSet
<1>3. i # 5 => Lookups[i + 1] \in ToSet(Lookups)
  <2> HIDE DEF i
  <2>1. i # 5 => i + 1 \in 1..5
    BY <1>2
  <2> QED BY <1>1, <2>1 DEF ToSet
<1> QED BY <1>1, <1>3 DEF FollowedBy

-----------------------------------------------------------------------------
\* A step inside a stage: the probe under way goes on or is over, and only its
\* host is contacted.
Probed ==
  /\ pc \in StageSet /\ step # "enter" /\ step' # "enter"
  /\ UNCHANGED <<cli, pc, summary>>
  /\ \/ todo' = todo /\ step' # "idle"
     \/ todo' = Tail(todo) /\ step' = "idle"
  /\ step = "idle" => todo # <<>>
  /\ \/ contacts' = contacts
     \/ contacts' = contacts \cup {[who |-> Head(todo).host, by |-> pc]} /\ (pc = "dns" \/ todo # <<>>)

LEMMA DnsProbed ==
  ASSUME DnsStep \/ DnsTransfer
  PROVE  Probed /\ pc = "dns"
<1> USE DEF At, Begins, Touch, Continue, Conclude, Probed
<1>1. CASE DnsResolve
  BY <1>1, StageNames DEF DnsResolve
<1>2. CASE DnsAsk
  BY <1>2, StageNames DEF DnsAsk, Domain
<1>3. CASE DnsDone
  BY <1>3, StageNames DEF DnsDone
<1>4. CASE DnsTransfer
  BY <1>4, StageNames DEF DnsTransfer
<1>5. ASSUME NEW kind \in ToSet(Lookups), DnsLookup(kind)
      PROVE  Probed /\ pc = "dns"
  <2>1. step = kind /\ kind # "enter" /\ kind # "idle" /\ pc = "dns" /\ contacts' = contacts
    BY <1>5, LookupNames DEF DnsLookup
  <2>2. UNCHANGED <<cli, pc, todo, summary>> /\ step' = FollowedBy(kind)
    BY <1>5 DEF DnsLookup
  <2>3. FollowedBy(kind) # "enter" /\ FollowedBy(kind) # "idle"
    BY NextLookup, LookupNames
  <2> QED BY <2>1, <2>2, <2>3, StageNames
<1> QED BY <1>1, <1>2, <1>3, <1>4, <1>5 DEF DnsStep

LEMMA HttpProbed ==
  ASSUME HttpStep
  PROVE  Probed /\ pc = "http"
BY StageNames DEF HttpStep, HttpConnect, HttpRead, At, Begins, Touch, Continue, Conclude, Probed

LEMMA TlsProbed ==
  ASSUME TlsStep
  PROVE  Probed /\ pc = "tls"
BY StageNames
   DEF TlsStep, TlsConnect, TlsHandshake, At, Begins, Touch, Continue, Conclude, Probed

LEMMA FtpProbed ==
  ASSUME FtpStep
  PROVE  Probed /\ pc = "ftp"
<1> USE DEF At, Begins, Touch, Continue, Conclude, Probed
<1>1. CASE FtpConnect
  BY <1>1, StageNames DEF FtpConnect
<1>2. CASE FtpGreeting
  BY <1>2, StageNames DEF FtpGreeting
<1>3. CASE FtpUser
  <2>1. pc = "ftp" /\ step = "user" /\ contacts' = contacts
    BY <1>3 DEF FtpUser
  <2> DEFINE IsOver == todo' = Tail(todo) /\ step' = "idle" /\ UNCHANGED <<cli, pc, summary>>
             GoesOn == todo' = todo /\ step' = "pass" /\ UNCHANGED <<cli, pc, summary>>
  <2>2. IsOver \/ GoesOn
    <3>1. CASE Conclude(FtpFindings(local.banner, FALSE))
      BY <3>1
    <3>2. CASE ~Conclude(FtpFindings(local.banner, FALSE))
      <4>1. PICK n \in 1..Len(local.wire) :
              IF Code(local.wire, n) # 331
              THEN /\ Conclude(FtpFindings(local.banner, Code(local.wire, n) = 230))
                   /\ Saw(Here, Remains(local.wire, n))
              ELSE \/ Conclude(<<>>) /\ Saw(Here, {"lost"})
                   \/ \E reply \in {230, 530} : \E cut \in Cuts(reply) :
                        /\ Continue("pass", [wire |-> Rest(local.wire, n) \o cut,
                                             banner |-> local.banner])
                        /\ Saw(Here, Remains(local.wire, n) \cup Meant(reply, cut))
        BY <1>3, <3>2 DEF FtpUser
      <4>2. CASE Code(local.wire, n) # 331
        BY <4>1, <4>2
      <4>3. CASE Code(local.wire, n) = 331
        <5> DEFINE Asks(reply, cut) ==
                     Continue("pass", [wire |-> Rest(local.wire, n) \o cut,
                                       banner |-> local.banner])
                   Shows(reply, cut) == Saw(Here, Remains(local.wire, n) \cup Meant(reply, cut))
        <5>1. \/ Conclude(<<>>)
              \/ \E reply \in {230, 530} : \E cut \in Cuts(reply) :
                   Asks(reply, cut) /\ Shows(reply, cut)
          <6> HIDE DEF Conclude, Continue
          <6> QED BY <4>1, <4>3
        <5>2. \A reply, cut : Asks(reply, cut) => GoesOn
          OBVIOUS
        <5>3. Conclude(<<>>) => IsOver
          OBVIOUS
        <5> HIDE DEF Asks, Shows, IsOver, GoesOn, Conclude
        <5> QED BY <5>1, <5>2, <5>3
      <4> QED BY <4>2, <4>3
    <3> QED BY <3>1, <3>2
  <2> QED BY <2>1, <2>2, StageNames
<1>4. CASE FtpPass
  BY <1>4, StageNames DEF FtpPass
<1> QED BY <1>1, <1>2, <1>3, <1>4 DEF FtpStep

LEMMA SnmpProbed ==
  ASSUME SnmpStep
  PROVE  Probed /\ pc = "snmp"
<1> USE DEF At, Begins, Touch, Continue, Conclude, Probed, NextCommunity, EndWalk
<1>1. CASE SnmpBegin
  BY <1>1, StageNames DEF SnmpBegin
<1>2. CASE SnmpGet
  BY <1>2, StageNames DEF SnmpGet
<1>3. CASE SnmpName
  BY <1>3, StageNames DEF SnmpName
<1>4. CASE SnmpWalk
  BY <1>4, StageNames DEF SnmpWalk
<1> QED BY <1>1, <1>2, <1>3, <1>4 DEF SnmpStep

LEMMA SmbProbed ==
  ASSUME SmbStep
  PROVE  Probed /\ pc = "smb"
<1> USE DEF At, Begins, Touch, Continue, Conclude, Probed
<1>1. CASE SmbNegotiate
  BY <1>1, StageNames DEF SmbNegotiate
<1>2. CASE SmbLegacy
  BY <1>2, StageNames DEF SmbLegacy
<1>3. CASE SmbSession
  BY <1>3, StageNames DEF SmbSession
<1>4. CASE SmbShares
  BY <1>4, StageNames DEF SmbShares
<1> QED BY <1>1, <1>2, <1>3, <1>4 DEF SmbStep

\* A step of the enumeration stages as a whole.
LEMMA StageEffect ==
  ASSUME Enumerate \/ AwaitTransfer
  PROVE  (Probed \/ EnterStage \/ LeaveStage) /\ UNCHANGED mainVars
BY DnsProbed, HttpProbed, TlsProbed, FtpProbed, SnmpProbed, SmbProbed
   DEF Enumerate, AwaitTransfer, DnsStep

LEMMA StageCourse ==
  ASSUME Enumerate \/ AwaitTransfer
  PROVE  /\ pc \in StageSet /\ pc' \in StageSet \cup {"save"}
         /\ UNCHANGED <<cli, summary, mainVars>>
<1>1. CASE Probed
  BY <1>1, StageEffect DEF Probed
<1>2. CASE EnterStage
  BY <1>2, StageEffect, NextStage DEF EnterStage
<1>3. CASE LeaveStage
  BY <1>3, StageEffect, NextStage DEF LeaveStage
<1> QED BY <1>1, <1>2, <1>3, StageEffect

-----------------------------------------------------------------------------
LEMMA CourseStep ==
  ASSUME Course, [Next]_vars
  PROVE  Course'
<1> USE DEF Course, Pcs, Ends, GoTo, Leave, Idle, Running
<1>1. CASE Authorize
  BY <1>1 DEF Authorize
<1>2. CASE BuildPolicy
  BY <1>2 DEF BuildPolicy, Detected
<1>3. CASE LoadProfile
  BY <1>3 DEF LoadProfile
<1>4. CASE ResolveTargets \/ ApplyScope \/ ParsePortList
  BY <1>4 DEF ResolveTargets, ApplyScope, ParsePortList
<1>5. CASE SkipDiscovery \/ Discover
  BY <1>5 DEF SkipDiscovery, Discover
<1>6. CASE Scan \/ GrabBanners
  BY <1>6 DEF Scan, GrabBanners
<1>7. CASE SkipPlugins \/ RunPlugins
  BY <1>7 DEF SkipPlugins, RunPlugins
<1>8. CASE SkipNmap \/ RunNmap
  <2>1. pc = "nmap" /\ pc' = "dns" /\ UNCHANGED <<cli, exit, machine, caps>>
    BY <1>8 DEF SkipNmap, RunNmap, Stages
  <2> QED BY <2>1, StageNames
<1>9. CASE Enumerate \/ AwaitTransfer
  <2>1. pc \in StageSet /\ pc' \in StageSet \cup {"save"}
        /\ UNCHANGED <<cli, exit, machine, caps>>
    BY <1>9, StageCourse DEF mainVars
  <2> QED BY <2>1, StageNames
<1>10. CASE Save \/ WriteReport
  BY <1>10 DEF Save, WriteReport
<1>11. CASE Kill
  BY <1>11 DEF Kill
<1>12. CASE Ended \/ UNCHANGED vars
  BY <1>12 DEF Ended, vars, enumVars, mainVars
<1> QED BY <1>1, <1>2, <1>3, <1>4, <1>5, <1>6, <1>7, <1>8, <1>9, <1>10, <1>11, <1>12
        DEF Next, Bounded

LEMMA SavingStep ==
  ASSUME Course, Saving, ReportFileHonest, [Next]_vars
  PROVE  Saving' /\ ReportFileHonest'
<1> USE DEF Course, Saving, ReportFileHonest, Ends, GoTo, Leave, Idle, Running
<1>1. CASE Authorize \/ BuildPolicy \/ LoadProfile
  BY <1>1 DEF Authorize, BuildPolicy, LoadProfile
<1>2. CASE ResolveTargets \/ ApplyScope \/ ParsePortList
  BY <1>2 DEF ResolveTargets, ApplyScope, ParsePortList
<1>3. CASE SkipDiscovery \/ Discover
  BY <1>3 DEF SkipDiscovery, Discover
<1>4. CASE Scan \/ GrabBanners
  BY <1>4 DEF Scan, GrabBanners
<1>5. CASE SkipPlugins \/ RunPlugins
  BY <1>5 DEF SkipPlugins, RunPlugins
<1>6. CASE SkipNmap \/ RunNmap
  BY <1>6 DEF SkipNmap, RunNmap, Stages
<1>7. CASE Enumerate \/ AwaitTransfer
  <2>1. pc \in StageSet /\ pc' \in StageSet \cup {"save"}
        /\ UNCHANGED <<cli, exit, report, told, hosts>>
    BY <1>7, StageCourse DEF mainVars
  <2> QED BY <2>1, StageNames
<1>8. CASE Save
  BY <1>8 DEF Save
<1>9. CASE WriteReport
  BY <1>9 DEF WriteReport
<1>10. CASE Kill
  BY <1>10 DEF Kill
<1>11. CASE Ended \/ UNCHANGED vars
  BY <1>11 DEF Ended, vars, enumVars, mainVars
<1> QED BY <1>1, <1>2, <1>3, <1>4, <1>5, <1>6, <1>7, <1>8, <1>9, <1>10, <1>11
        DEF Next, Bounded

-----------------------------------------------------------------------------
\* A u16 as a number.
LEMMA U16Numbers ==
  IsFiniteSet(U16) /\ MaxU16 \in Int /\ \A n : n \in U16 <=> n \in Int /\ 0 <= n /\ n <= MaxU16
<1>1. MaxU16 \in Int
  BY DEF MaxU16
<1>2. IsFiniteSet(U16)
  BY <1>1, FS_Interval DEF U16
<1> QED BY <1>1, <1>2 DEF U16

(* A well-formed part of the port list stands for the ports from its first  *)
(* number to its last.                                                      *)
LEMMA WrittenPorts ==
  ASSUME NEW part \in Seq(Int), WellFormed(part)
  PROVE  /\ part[1] \in U16 /\ Last(part) \in U16 /\ part[1] <= Last(part)
         /\ Written(part) \subseteq U16
         /\ \A p \in Written(part) : part[1] <= p /\ p <= Last(part)
<1>1. DOMAIN part = 1..Len(part) /\ Len(part) \in {1, 2}
  BY DEF WellFormed
<1>2. 1 \in DOMAIN part /\ Len(part) \in DOMAIN part
  BY <1>1
<1>3. part[1] \in U16 /\ Last(part) \in U16
  BY <1>2 DEF WellFormed, ToSet, Last
<1>4. part[1] <= Last(part)
  <2>1. CASE Len(part) = 1
    <3>1. Last(part) = part[1]
      BY <2>1 DEF Last
    <3>2. part[1] \in Int
      BY <1>3, U16Numbers
    <3> QED BY <3>1, <3>2
  <2>2. CASE Len(part) = 2
    BY <2>2 DEF Last, WellFormed
  <2> QED BY <1>1, <2>1, <2>2
<1> DEFINE first == part[1]
           last == Last(part)
<1>5. /\ first \in U16 /\ last \in U16 /\ first <= last /\ Written(part) = first..last
      /\ first \in Int /\ last \in Int /\ 0 <= first /\ last <= MaxU16
  BY <1>3, <1>4, U16Numbers DEF Written
<1> HIDE DEF first, last
<1>6. /\ \A p \in Written(part) : p \in Int /\ 0 <= p /\ p <= MaxU16
      /\ \A p \in Written(part) : first <= p /\ p <= last
  BY <1>5, U16Numbers
<1> QED BY <1>5, <1>6, U16Numbers DEF first, last

(* parse_ports: the ports written, each once and in ascending order.        *)
LEMMA ParsedPorts ==
  ASSUME NEW parts \in Seq(Seq(Int)), \A i \in DOMAIN parts : WellFormed(parts[i])
  PROVE  /\ ParsePorts(parts) \in Seq(U16)
         /\ ToSet(ParsePorts(parts)) = UNION {Written(parts[i]) : i \in DOMAIN parts}
         /\ Ascends(ParsePorts(parts))
<1> DEFINE W == UNION {Written(parts[i]) : i \in DOMAIN parts}
<1>1. \A i \in DOMAIN parts : Written(parts[i]) \subseteq U16
  <2> TAKE i \in DOMAIN parts
  <2>1. parts[i] \in Seq(Int) /\ WellFormed(parts[i])
    OBVIOUS
  <2> HIDE DEF W
  <2> QED BY <2>1, WrittenPorts
<1>2. W \subseteq U16
  BY <1>1
<1> HIDE DEF W
<1>3. IsFiniteSet(W)
  <2>1. IsFiniteSet(U16)
    BY U16Numbers
  <2> QED BY <1>2, <2>1, FS_Subset
<1>4. SetToSeq(W) \in Seq(W) /\ ToSet(SetToSeq(W)) = W /\ IsInjective(SetToSeq(W))
  BY <1>3, SetToSeqElements
<1> DEFINE s == SetToSeq(W)
<1>5. W \in SUBSET Int
  BY <1>2, U16Numbers
<1>6. ParsePorts(parts) = Sorted(s)
  BY DEF ParsePorts, W
<1>7. s \in Seq(W) /\ ToSet(s) = W /\ IsInjective(s)
  BY <1>4
<1> HIDE DEF s
<1>8. Sorted(s) \in Seq(W) /\ ToSet(Sorted(s)) = W
  BY <1>5, <1>7, SortedElements
<1>9. Ascends(Sorted(s))
  BY <1>5, <1>7, SortedAscends
<1>10. Sorted(s) \in Seq(U16)
  BY <1>2, <1>8, SeqOfMore
<1> QED BY <1>6, <1>8, <1>9, <1>10 DEF W

(* A list put together address by address holds what the lists of the       *)
(* addresses hold.                                                          *)
LEMMA AscendingElements ==
  ASSUME NEW E, NEW lists, \A h \in ToSet(Addresses) : lists[h] \in Seq(E)
  PROVE  Ascending(lists) \in Seq(E)
<1>1. Addresses \in Seq(ToSet(Addresses))
  BY PlansAssumption DEF PlansAssumption
<1>2. DOMAIN Addresses = 1..Len(Addresses) /\ Len(Addresses) \in Nat
      /\ \A a \in DOMAIN Addresses : Addresses[a] \in ToSet(Addresses)
  BY <1>1
<1> DEFINE rows == [a \in DOMAIN Addresses |-> lists[Addresses[a]]]
<1>3. rows \in [1..Len(Addresses) -> Seq(E)]
  BY <1>2
<1> HIDE DEF rows
<1>4. rows \in Seq(Seq(E))
  BY <1>2, <1>3
<1>5. FlattenSeq(rows) \in Seq(E)
  BY <1>4, FlattenElements
<1> QED BY <1>5 DEF Ascending, rows

LEMMA RepeatedElements ==
  ASSUME NEW E, NEW n \in Nat, NEW x, n # 0 => x \in E
  PROVE  Repeated(x, n) \in Seq(E)
<1>1. Repeated(x, n) \in [1..n -> E]
  BY DEF Repeated
<1> QED BY <1>1

(* What run_discovery leaves of the hosts.                                  *)
LEMMA DiscoveredHosts ==
  ASSUME hosts \in Seq(ToSet(Addresses)), NEW arped \in SUBSET ToSet(hosts),
         NEW swept \in SUBSET DOMAIN hosts
  PROVE  Ascending([h \in ToSet(Addresses) |->
                      Repeated(h, IF h \in arped THEN 1
                                  ELSE Cardinality({i \in swept : hosts[i] = h}))])
           \in Seq(ToSet(hosts))
<1> DEFINE times(h) == IF h \in arped THEN 1 ELSE Cardinality({i \in swept : hosts[i] = h})
           lists == [h \in ToSet(Addresses) |-> Repeated(h, times(h))]
<1>1. IsFiniteSet(DOMAIN hosts)
  BY FiniteElements
<1>2. ASSUME NEW h \in ToSet(Addresses)
      PROVE  lists[h] \in Seq(ToSet(hosts))
  <2> DEFINE those == {i \in swept : hosts[i] = h}
  <2>1. those \subseteq DOMAIN hosts
    OBVIOUS
  <2>2. IsFiniteSet(those)
    BY <1>1, <2>1, FS_Subset
  <2>3. Cardinality(those) \in Nat /\ (Cardinality(those) # 0 => those # {})
    BY <2>2, FS_CardinalityType, FS_EmptySet
  <2>4. those # {} => h \in ToSet(hosts)
    BY DEF ToSet
  <2>5. times(h) \in Nat /\ (times(h) # 0 => h \in ToSet(hosts))
    BY <2>3, <2>4
  <2> HIDE DEF times
  <2>6. Repeated(h, times(h)) \in Seq(ToSet(hosts))
    BY <2>5, RepeatedElements
  <2> QED BY <2>6
<1> HIDE DEF lists
<1>3. Ascending(lists) \in Seq(ToSet(hosts))
  BY <1>2, AscendingElements
<1> QED BY <1>3 DEF lists

(* The places run_scan goes through: a host and a port each.                *)
LEMMA ScannedPlaces ==
  ASSUME hosts \in Seq(ToSet(Addresses)), ports \in Seq(U16)
  PROVE  Ascending([h \in ToSet(Addresses) |-> PortsOf(h)])
           \in Seq(ToSet(hosts) \X ToSet(ports))
<1> DEFINE E == ToSet(hosts) \X ToSet(ports)
           lists == [h \in ToSet(Addresses) |-> PortsOf(h)]
<1>1. IsFiniteSet(DOMAIN hosts)
  BY FiniteElements
<1>2. DOMAIN ports = 1..Len(ports) /\ Len(ports) \in Nat
  OBVIOUS
<1>3. ASSUME NEW h \in ToSet(Addresses)
      PROVE  PortsOf(h) \in Seq(E)
  <2> DEFINE those == {i \in DOMAIN hosts : hosts[i] = h}
             times == Cardinality(those)
             rows == [k \in DOMAIN ports |-> Repeated(<<h, ports[k]>>, times)]
  <2>1. IsFiniteSet(those)
    BY <1>1, FS_Subset
  <2>2. times \in Nat /\ (times # 0 => those # {})
    BY <2>1, FS_CardinalityType, FS_EmptySet
  <2>3. times \in Nat /\ (times # 0 => h \in ToSet(hosts))
    BY <2>2 DEF ToSet
  <2>4. PortsOf(h) = FlattenSeq(rows)
    BY DEF PortsOf
  <2> HIDE DEF times
  <2>5. ASSUME NEW k \in DOMAIN ports
        PROVE  Repeated(<<h, ports[k]>>, times) \in Seq(E)
    <3>1. ports[k] \in ToSet(ports)
      BY DEF ToSet
    <3>2. times # 0 => <<h, ports[k]>> \in E
      BY <2>3, <3>1
    <3> HIDE DEF E
    <3> QED BY <2>3, <3>2, RepeatedElements
  <2> HIDE DEF E
  <2>6. rows \in [1..Len(ports) -> Seq(E)]
    BY <1>2, <2>5
  <2> HIDE DEF rows
  <2>7. rows \in Seq(Seq(E))
    BY <1>2, <2>6
  <2>8. FlattenSeq(rows) \in Seq(E)
    BY <2>7, FlattenElements
  <2> QED BY <2>4, <2>8
<1>4. \A h \in ToSet(Addresses) : lists[h] \in Seq(E)
  BY <1>3
<1> HIDE DEF E, lists
<1>5. Ascending(lists) \in Seq(E)
  BY <1>4, AscendingElements
<1> QED BY <1>5 DEF E, lists

(* The summary of a scan: a record for each of them.                        *)
LEMMA ScannedRecords ==
  ASSUME NEW places \in Seq(ToSet(hosts) \X ToSet(ports)), ToSet(hosts) \subseteq cli.allowed,
         NEW v \in [DOMAIN places -> Verdicts]
  PROVE  [n \in DOMAIN places |-> Entry(places[n], v[n])] \in Seq(PortRecord)
<1>1. Verdicts \subseteq PortStatus
  BY DEF Verdicts
<1>2. DOMAIN places = 1..Len(places) /\ Len(places) \in Nat
      /\ \A n \in DOMAIN places : places[n] \in ToSet(hosts) \X ToSet(ports)
  OBVIOUS
<1>3. ASSUME NEW n \in DOMAIN places
      PROVE  Entry(places[n], v[n]) \in PortRecord
  <2>1. places[n][1] \in cli.allowed /\ places[n][2] \in ToSet(ports) /\ v[n] \in PortStatus
    BY <1>1, <1>2
  <2> QED BY <2>1 DEF Entry, PortRecord
<1> DEFINE new == [n \in DOMAIN places |-> Entry(places[n], v[n])]
<1>4. new \in [1..Len(places) -> PortRecord]
  BY <1>2, <1>3
<1> HIDE DEF new
<1>6. Len(places) \in Nat
  OBVIOUS
<1>5. new \in Seq(PortRecord)
  <2> DEFINE l == Len(places)
             R == PortRecord
  <2>1. l \in Nat /\ new \in [1..l -> R]
    BY <1>4, <1>6
  <2> HIDE DEF l, R
  <2>2. new \in Seq(R)
    BY <2>1
  <2> QED BY <2>2 DEF R
<1> QED BY <1>5 DEF new

(* Labels, old or new, leave a record on its host and port, with its        *)
(* verdict.                                                                 *)
LEMMA RelabelledRecords ==
  ASSUME NEW records, NEW new \in Relabelled(records), summary \in Seq(PortRecord)
  PROVE  /\ new \in Seq(PortRecord) /\ DOMAIN new = DOMAIN summary
         /\ \A i \in DOMAIN summary :
              new[i].host = summary[i].host /\ new[i].port = summary[i].port
<1>1. PICK l \in [DOMAIN summary -> machine.labels] :
        new = [i \in DOMAIN summary |->
                 IF summary[i] \in records THEN [summary[i] EXCEPT !.service = l[i]]
                                           ELSE summary[i]]
  BY DEF Relabelled
<1>2. DOMAIN summary = 1..Len(summary) /\ Len(summary) \in Nat
      /\ \A i \in DOMAIN summary : summary[i] \in PortRecord
  OBVIOUS
<1>3. ASSUME NEW i \in DOMAIN summary
      PROVE  /\ new[i] \in PortRecord
             /\ new[i].host = summary[i].host /\ new[i].port = summary[i].port
  BY <1>1, <1>2 DEF PortRecord
<1>4. new \in [1..Len(summary) -> PortRecord]
  BY <1>1, <1>2, <1>3
<1> QED BY <1>1, <1>2, <1>3, <1>4

-----------------------------------------------------------------------------
LEMMA SeqWithin ==
  ASSUME NEW E, NEW F, NEW s \in Seq(E), ToSet(s) \subseteq F
  PROVE  s \in Seq(F)
<1>1. s \in [1..Len(s) -> F] /\ Len(s) \in Nat
  BY DEF ToSet
<1> QED BY <1>1

\* Records stay records while the ports and the plan stay.
LEMMA SameRecords ==
  ASSUME UNCHANGED <<cli, machine, ports>>
  PROVE  PortRecord' = PortRecord
BY DEF PortRecord, Protocol

LEMMA WorkStep ==
  ASSUME Course, Work, [Next]_vars
  PROVE  Work'
<1> USE DEF GoTo, Leave, Idle
<1>1. CASE Authorize \/ BuildPolicy \/ LoadProfile
  <2>1. UNCHANGED <<cli, machine, hosts, ports, summary, contacts>>
        /\ pc \in Unscoped /\ pc' \in Unscoped \cup Ends
    BY <1>1 DEF Authorize, BuildPolicy, LoadProfile, Unscoped, Ends
  <2>2. PortRecord' = PortRecord
    BY <2>1, SameRecords
  <2> QED BY <2>1, <2>2 DEF Work, Early, Unscoped, Ends
<1>2. CASE ResolveTargets
  <2>1. UNCHANGED <<cli, machine, ports, summary, contacts>> /\ pc \in Unscoped
        /\ pc' \in Unscoped \cup Ends /\ (hosts' = hosts \/ hosts' = cli.targets)
    BY <1>2 DEF ResolveTargets, Unscoped, Ends
  <2>2. cli.targets \in Seq(ToSet(Addresses))
    BY PlansAssumption DEF PlansAssumption, Course
  <2>3. PortRecord' = PortRecord
    BY <2>1, SameRecords
  <2> QED BY <2>1, <2>2, <2>3 DEF Work, Early, Unscoped, Ends
<1>3. CASE ApplyScope
  <2>1. UNCHANGED <<cli, machine, ports, summary, contacts>> /\ pc \in Unscoped
        /\ pc' \in {"ports"} \cup Ends /\ hosts' = Kept(hosts, cli.allowed)
    BY <1>3 DEF ApplyScope, Unscoped, Ends
  <2>2. hosts \in Seq(ToSet(Addresses))
    BY DEF Work
  <2>3. hosts' \in Seq(ToSet(Addresses)) /\ ToSet(hosts') \subseteq cli.allowed
    BY <2>1, <2>2, KeptProperties
  <2>4. PortRecord' = PortRecord
    BY <2>1, SameRecords
  <2> QED BY <2>1, <2>3, <2>4 DEF Work, Early, Unscoped, Ends
<1>4. CASE ParsePortList
  <2>1. UNCHANGED <<cli, machine, hosts, summary, contacts>> /\ pc = "ports"
        /\ \/ pc' = "exited" /\ ports' = ports
           \/ pc' = "discover" /\ ports' = ParsePorts(cli.ports)
              /\ \A i \in DOMAIN cli.ports : WellFormed(cli.ports[i])
    BY <1>4 DEF ParsePortList
  <2>2. cli.ports \in Seq(Seq(Int))
    BY PlansAssumption DEF PlansAssumption, Course
  <2>3. ports' \in Seq(U16)
    BY <2>1, <2>2, ParsedPorts DEF Work
  <2>4. hosts \in Seq(ToSet(Addresses)) /\ ToSet(hosts) \subseteq cli.allowed /\ summary = <<>>
    BY <2>1 DEF Work, Early, Unscoped, Ends
  <2>5. summary' \in Seq(PortRecord')
    BY <2>1, <2>4
  <2> QED BY <2>1, <2>3, <2>4, <2>5 DEF Work, Early, Unscoped, Ends
<1>5. CASE SkipDiscovery
  <2>1. UNCHANGED <<cli, machine, hosts, ports, summary>> /\ pc = "discover" /\ pc' = "scan"
    BY <1>5 DEF SkipDiscovery
  <2>2. PortRecord' = PortRecord
    BY <2>1, SameRecords
  <2> QED BY <2>1, <2>2 DEF Work, Early, Unscoped, Ends
<1>6. CASE Discover
  <2>1. UNCHANGED <<cli, machine, ports, summary>> /\ pc = "discover" /\ pc' \in {"scan", "exited"}
    BY <1>6 DEF Discover
  <2> DEFINE Leaves(arped, swept) ==
               hosts' = Ascending(
                 [h \in ToSet(Addresses) |->
                    Repeated(h, IF h \in arped THEN 1
                                ELSE Cardinality({i \in swept : hosts[i] = h}))])
  <2>2. \E arped \in SUBSET ToSet(hosts) : \E swept \in SUBSET DOMAIN hosts : Leaves(arped, swept)
    <3>1. \E arped \in SUBSET ToSet(hosts) :
            \E swept \in SUBSET {i \in DOMAIN hosts : hosts[i] \notin arped} : Leaves(arped, swept)
      BY <1>6 DEF Discover
    <3> HIDE DEF Leaves
    <3> QED BY <3>1
  <2>3. hosts' \in Seq(ToSet(Addresses)) /\ ToSet(hosts') \subseteq ToSet(hosts)
    <3>1. hosts \in Seq(ToSet(Addresses))
      BY DEF Work
    <3>2. ASSUME NEW arped \in SUBSET ToSet(hosts), NEW swept \in SUBSET DOMAIN hosts,
                 Leaves(arped, swept)
          PROVE  hosts' \in Seq(ToSet(hosts))
      BY <3>1, <3>2, DiscoveredHosts
    <3>3. hosts' \in Seq(ToSet(hosts))
      <4> HIDE DEF Leaves
      <4> QED BY <2>2, <3>2
    <3>4. ToSet(hosts) \subseteq ToSet(Addresses)
      BY <3>1 DEF ToSet
    <3>5. hosts' \in Seq(ToSet(Addresses))
      BY <3>3, <3>4, SeqOfMore
    <3>6. \A E : \A s \in Seq(E) : ToSet(s) \subseteq E
      BY DEF ToSet
    <3> QED BY <3>3, <3>5, <3>6
  <2>4. PortRecord' = PortRecord
    BY <2>1, SameRecords
  <2> QED BY <2>1, <2>3, <2>4 DEF Work, Early, Unscoped, Ends
<1>7. CASE Scan
  <2> DEFINE places == Ascending([h \in ToSet(Addresses) |-> PortsOf(h)])
  <2>1. UNCHANGED <<cli, machine, hosts, ports>> /\ pc = "scan" /\ pc' = "banners"
    BY <1>7 DEF Scan
  <2>2. PICK v \in [DOMAIN places -> Verdicts] :
          summary' = [n \in DOMAIN places |-> Entry(places[n], v[n])]
    BY <1>7 DEF Scan
  <2>3. ToSet(hosts) \subseteq cli.allowed /\ ports \in Seq(U16) /\ hosts \in Seq(ToSet(Addresses))
    BY <2>1 DEF Work, Unscoped, Ends
  <2>4. places \in Seq(ToSet(hosts) \X ToSet(ports))
    BY <2>3, ScannedPlaces
  <2> HIDE DEF places
  <2>6. summary' \in Seq(PortRecord)
    BY <2>2, <2>3, <2>4, ScannedRecords
  <2>7. PortRecord' = PortRecord
    BY <2>1, SameRecords
  <2> QED BY <2>1, <2>6, <2>7 DEF Work, Early, Unscoped, Ends
<1>8. CASE GrabBanners \/ RunNmap
  <2>1. UNCHANGED <<cli, machine, hosts, ports>> /\ pc \in {"banners", "nmap"}
        /\ pc' \in {"plugins", "dns"} /\ \E records : summary' \in Relabelled(records)
    BY <1>8 DEF GrabBanners, RunNmap, Stages
  <2>2. summary' \in Seq(PortRecord)
    BY <2>1, RelabelledRecords DEF Work
  <2>3. PortRecord' = PortRecord
    BY <2>1, SameRecords
  <2> QED BY <2>1, <2>2, <2>3 DEF Work, Early, Unscoped, Ends
<1>9. CASE SkipPlugins \/ RunPlugins \/ SkipNmap \/ Enumerate \/ AwaitTransfer
  <2>1. UNCHANGED <<cli, machine, hosts, ports, summary>>
    BY <1>9, StageCourse DEF SkipPlugins, RunPlugins, SkipNmap, mainVars
  <2>2. pc \notin Early \cup Ends /\ pc' \notin Early \cup Ends
    BY <1>9, StageCourse, StageNames DEF SkipPlugins, RunPlugins, SkipNmap, Stages, Early, Unscoped, Ends
  <2>3. PortRecord' = PortRecord
    BY <2>1, SameRecords
  <2> QED BY <2>1, <2>2, <2>3 DEF Work, Early, Unscoped, Ends
<1>10. CASE Save \/ WriteReport \/ Kill
  <2>1. UNCHANGED <<cli, machine, hosts, ports, summary, contacts>> /\ pc' \in {"write"} \cup Ends
        /\ (pc' = "write" => pc = "save")
    BY <1>10 DEF Save, WriteReport, Kill, Ends
  <2>2. PortRecord' = PortRecord
    BY <2>1, SameRecords
  <2> QED BY <2>1, <2>2 DEF Work, Early, Unscoped, Ends
<1>11. CASE Ended \/ UNCHANGED vars
  <2>1. UNCHANGED <<cli, machine, hosts, ports, summary, contacts, pc>>
    BY <1>11 DEF Ended, vars, enumVars, mainVars
  <2>2. PortRecord' = PortRecord
    BY <2>1, SameRecords
  <2> QED BY <2>1, <2>2 DEF Work
<1> QED BY <1>1, <1>2, <1>3, <1>4, <1>5, <1>6, <1>7, <1>8, <1>9, <1>10, <1>11
        DEF Next, Bounded

-----------------------------------------------------------------------------
\* The ports a stage goes through are ports of the summary.
LEMMA WorklistPorts ==
  ASSUME Course, Work, NEW stage \in StageSet
  PROVE  /\ Worklist(stage) \in Seq(ToSet(cli.names) \cup ToSet(summary))
         /\ stage # "dns" => Worklist(stage) \in Seq(ToSet(summary))
<1>1. cli.names \in Seq(ToSet(cli.names))
  BY PlansAssumption DEF PlansAssumption, Course
<1>2. summary \in Seq(ToSet(summary))
  BY SeqWithin DEF Work
<1> DEFINE S == {r \in ToSet(summary) : HostUp(r.host) /\ Eligible(stage, r)}
           N == ToSet(cli.names)
           E == ToSet(summary)
<1> HIDE DEF S, N, E
<1>3. Kept(summary, S) \in Seq(E)
  BY <1>2, KeptProperties DEF E
<1>4. Kept(summary, S) \in Seq(N \cup E) /\ cli.names \in Seq(N \cup E)
  BY <1>1, <1>3, SeqOfMore DEF N
<1> QED BY <1>3, <1>4 DEF Worklist, S, N, E

LEMMA ProbingStep ==
  ASSUME Course, Work, Probing, [Next]_vars
  PROVE  Probing'
<1>1. CASE Enumerate \/ AwaitTransfer
  <2>1. UNCHANGED <<cli, summary>> /\ pc \in StageSet
    BY <1>1, StageCourse
  <2>2. pc # "killed" /\ todo \in Seq(ToSet(cli.names) \cup ToSet(summary))
    BY <2>1, StageNames DEF Probing
  <2>3. CASE Probed
    <3>1. pc' = pc /\ pc \in cli.enumerate /\ step' # "enter"
      BY <2>3 DEF Probed, Probing
    <3>2. CASE todo' = todo /\ step' # "idle"
      BY <2>1, <2>2, <2>3, <3>1, <3>2 DEF Probed, Probing
    <3>3. CASE todo' = Tail(todo) /\ step' = "idle"
      <4>1. todo # <<>>
        BY <2>3 DEF Probed, Probing
      <4>2. todo' \in Seq(ToSet(cli.names) \cup ToSet(summary))
        BY <2>2, <3>3, <4>1
      <4>3. pc # "dns" => todo' \in Seq(ToSet(summary))
        BY <2>1, <3>3, <4>1 DEF Probing
      <4> QED BY <2>1, <2>2, <3>1, <3>3, <4>2, <4>3 DEF Probing
    <3> QED BY <2>3, <3>2, <3>3 DEF Probed
  <2>4. CASE EnterStage
    <3>1. CASE pc \in cli.enumerate
      <4>1. pc' = pc /\ step' = "idle" /\ todo' = Worklist(pc)
        BY <2>4, <3>1 DEF EnterStage
      <4> QED BY <2>1, <2>2, <3>1, <4>1, WorklistPorts DEF Probing
    <3>2. CASE pc \notin cli.enumerate
      <4>1. pc' = After(pc) /\ step' = "enter" /\ todo' = todo /\ todo = <<>>
        BY <2>2, <2>4, <3>2 DEF EnterStage, Probing
      <4> QED BY <2>1, <4>1, NextStage DEF Probing
    <3> QED BY <3>1, <3>2
  <2>5. CASE LeaveStage
    <3>1. pc' = After(pc) /\ step' = "enter" /\ todo' = todo /\ todo = <<>>
      BY <2>5 DEF LeaveStage
    <3> QED BY <2>1, <3>1, NextStage DEF Probing
  <2> QED BY <1>1, <2>3, <2>4, <2>5, StageEffect
<1>2. CASE Kill
  <2>1. UNCHANGED <<cli, summary, todo, step>> /\ pc' = "killed"
    BY <1>2 DEF Kill, Idle
  <2> QED BY <2>1, StageNames DEF Probing
<1>3. CASE Ended \/ UNCHANGED vars
  <2>1. UNCHANGED <<cli, summary, todo, step, pc>>
    BY <1>3 DEF Ended, vars, enumVars, mainVars
  <2> QED BY <2>1 DEF Probing
<1>4. CASE \/ Authorize \/ BuildPolicy \/ LoadProfile \/ ResolveTargets \/ ApplyScope
           \/ ParsePortList \/ SkipDiscovery \/ Discover \/ Scan \/ GrabBanners \/ SkipPlugins
           \/ RunPlugins \/ SkipNmap \/ RunNmap \/ Save \/ WriteReport
  <2>1. pc \notin StageSet \cup {"killed"}
    BY <1>4, StageNames
       DEF Authorize, BuildPolicy, LoadProfile, ResolveTargets, ApplyScope, ParsePortList,
           SkipDiscovery, Discover, Scan, GrabBanners, SkipPlugins, RunPlugins, SkipNmap, RunNmap,
           Save, WriteReport
  <2>2. UNCHANGED <<cli, step, todo>>
    BY <1>4
       DEF Authorize, BuildPolicy, LoadProfile, ResolveTargets, ApplyScope, ParsePortList,
           SkipDiscovery, Discover, Scan, GrabBanners, SkipPlugins, RunPlugins, SkipNmap, RunNmap,
           Save, WriteReport, Idle
  <2>3. step' = "enter" /\ todo' = <<>>
    BY <2>1, <2>2 DEF Probing
  <2> QED BY <2>3 DEF Probing
<1> QED BY <1>1, <1>2, <1>3, <1>4 DEF Next, Bounded

-----------------------------------------------------------------------------
LEMMA CutPieces ==
  ASSUME NEW code \in Int, NEW cut \in Cuts(code)
  PROVE  cut \in Seq(Int) /\ Len(cut) \in {1, 2}
<1>1. -code \in Int /\ Text \in Int /\ {code, Text} \cup Lookalikes \subseteq Int
  BY DEF Text, Lookalikes
<1>2. CASE cut = <<code>>
  BY <1>2
<1>3. CASE cut = <<-code, Text>>
  BY <1>1, <1>3
<1>4. CASE \E piece \in {code, Text} \cup Lookalikes : cut = <<code, piece>>
  <2>1. PICK piece \in Int : cut = <<code, piece>>
    BY <1>1, <1>4
  <2> QED BY <2>1
<1> QED BY <1>2, <1>3, <1>4 DEF Cuts

\* What is still on the wire after a read, and the next reply behind it.
LEMMA RestAndReply ==
  ASSUME NEW wire \in Seq(Int), NEW n \in 1..Len(wire), NEW code \in Int, NEW cut \in Cuts(code)
  PROVE  /\ Rest(wire, n) \o cut \in Seq(Int)
         /\ Len(Rest(wire, n) \o cut) >= 1 /\ Len(Rest(wire, n) \o cut) <= Len(wire) + 1
<1> DEFINE rest == Rest(wire, n)
<1>1. rest \in Seq(Int) /\ Len(rest) = Len(wire) - n
  BY DEF Rest
<1>2. cut \in Seq(Int) /\ Len(cut) \in {1, 2}
  BY CutPieces
<1> HIDE DEF rest
<1>3. \A a, b \in Seq(Int) : a \o b \in Seq(Int) /\ Len(a \o b) = Len(a) + Len(b)
  OBVIOUS
<1>4. rest \o cut \in Seq(Int) /\ Len(rest \o cut) = Len(wire) - n + Len(cut)
  BY <1>1, <1>2, <1>3
<1>5. Len(wire) \in Nat /\ n \in Int /\ 1 <= n /\ n <= Len(wire)
  OBVIOUS
<1>6. Len(rest \o cut) >= 1 /\ Len(rest \o cut) <= Len(wire) + 1
  <2>1. \A a, r, m, l \in Int :
          /\ l = a - r + m
          /\ 1 <= r /\ r <= a /\ m \in {1, 2}
          => l >= 1 /\ l <= a + 1
    OBVIOUS
  <2> DEFINE all == Len(wire)
             more == Len(cut)
             now == Len(rest \o cut)
  <2>2. /\ now = all - n + more /\ now \in Int
        /\ all \in Int /\ n \in Int /\ more \in Int
        /\ 1 <= n /\ n <= all /\ more \in {1, 2}
    BY <1>2, <1>4, <1>5
  <2> HIDE DEF all, more, now
  <2>3. now >= 1 /\ now <= all + 1
    BY <2>1, <2>2
  <2> QED BY <2>3 DEF all, more, now
<1> QED BY <1>4, <1>6 DEF rest

LEMMA FtpDialogueStep ==
  ASSUME FtpDialogue, FtpStep
  PROVE  FtpDialogue'
<1>1. CASE step' = "idle"
  BY <1>1 DEF FtpDialogue
<1>2. CASE step' # "idle"
  <2>1. CASE FtpConnect
    <3>1. PICK cut \in Greetings : step' = "greeting" /\ local' = [wire |-> cut, banner |-> Text]
      BY <1>2, <2>1 DEF FtpConnect, Conclude, Continue
    <3>2. cut \in Seq(Int) /\ Len(cut) \in {1, 2}
      <4>1. CASE cut \in Cuts(220)
        BY <4>1, CutPieces
      <4>2. CASE cut = <<Blank>>
        <5>1. Blank \in Int
          BY DEF Blank
        <5> QED BY <4>2, <5>1
      <4> QED BY <4>1, <4>2 DEF Greetings
    <3>3. step' = "greeting" /\ local'.wire = cut
      BY <3>1
    <3>4. local'.wire \in Seq(Int) /\ Len(local'.wire) >= 1 /\ Len(local'.wire) <= 2
      <4>1. \A l \in {1, 2} : l >= 1 /\ l <= 2
        OBVIOUS
      <4>2. Len(cut) >= 1 /\ Len(cut) <= 2
        BY <3>2, <4>1
      <4> QED BY <3>2, <3>3, <4>2
    <3> QED BY <3>3, <3>4 DEF FtpDialogue
  <2>2. CASE FtpGreeting
    <3>1. step = "greeting"
      BY <2>2 DEF FtpGreeting, At
    <3>2. PICK n \in 1..Len(local.wire), reply \in {230, 331, 530} : \E cut \in Cuts(reply) :
            /\ Continue("user", [wire |-> Rest(local.wire, n) \o cut,
                                 banner |-> Code(local.wire, n)])
            /\ Saw(Here, Remains(local.wire, n) \cup Meant(reply, cut))
      <4>1. ~Conclude(<<>>)
        BY <1>2 DEF Conclude
      <4> QED BY <2>2, <4>1 DEF FtpGreeting
    <3> DEFINE GoesOn(cut) == Continue("user", [wire |-> Rest(local.wire, n) \o cut,
                                                banner |-> Code(local.wire, n)])
               Seen(cut) == Saw(Here, Remains(local.wire, n) \cup Meant(reply, cut))
    <3>3. PICK cut \in Cuts(reply) : GoesOn(cut)
      <4>1. \E cut \in Cuts(reply) : GoesOn(cut) /\ Seen(cut)
        BY <3>2
      <4> HIDE DEF GoesOn, Seen
      <4> QED BY <4>1
    <3>4. local.wire \in Seq(Int) /\ Len(local.wire) <= 2
      BY <3>1 DEF FtpDialogue
    <3>5. step' = "user" /\ local'.wire = Rest(local.wire, n) \o cut
      BY <3>3 DEF Continue
    <3> QED BY <3>4, <3>5, RestAndReply DEF FtpDialogue
  <2>3. CASE FtpUser
    <3>1. step = "user"
      BY <2>3 DEF FtpUser, At
    <3>2. ~Conclude(FtpFindings(local.banner, FALSE))
      BY <1>2 DEF Conclude
    <3>3. PICK n \in 1..Len(local.wire) :
            IF Code(local.wire, n) # 331
            THEN /\ Conclude(FtpFindings(local.banner, Code(local.wire, n) = 230))
                 /\ Saw(Here, Remains(local.wire, n))
            ELSE \/ Conclude(<<>>) /\ Saw(Here, {"lost"})
                 \/ \E reply \in {230, 530} : \E cut \in Cuts(reply) :
                      /\ Continue("pass", [wire |-> Rest(local.wire, n) \o cut,
                                           banner |-> local.banner])
                      /\ Saw(Here, Remains(local.wire, n) \cup Meant(reply, cut))
      BY <2>3, <3>2 DEF FtpUser
    <3> DEFINE GoesOn(cut) == Continue("pass", [wire |-> Rest(local.wire, n) \o cut,
                                                banner |-> local.banner])
               Seen(reply, cut) == Saw(Here, Remains(local.wire, n) \cup Meant(reply, cut))
               Asked == \E reply \in {230, 530} : \E cut \in Cuts(reply) :
                          GoesOn(cut) /\ Seen(reply, cut)
               IsOver == /\ Conclude(FtpFindings(local.banner, Code(local.wire, n) = 230))
                         /\ Saw(Here, Remains(local.wire, n))
    <3>4. IF Code(local.wire, n) # 331 THEN IsOver
          ELSE (Conclude(<<>>) /\ Saw(Here, {"lost"})) \/ Asked
      BY <3>3
    <3>5. Asked
      <4>1. ~Conclude(<<>>) /\ ~IsOver
        BY <1>2 DEF Conclude
      <4> HIDE DEF IsOver, Asked
      <4> QED BY <3>4, <4>1
    <3>6. \E reply \in {230, 530} : \E cut \in Cuts(reply) : GoesOn(cut)
      <4> HIDE DEF GoesOn, Seen
      <4> QED BY <3>5
    <3> HIDE DEF GoesOn
    <3>9. PICK reply \in {230, 530} : \E cut \in Cuts(reply) : GoesOn(cut)
      BY <3>6
    <3>10. PICK cut \in Cuts(reply) : GoesOn(cut)
      BY <3>9
    <3>7. local.wire \in Seq(Int) /\ Len(local.wire) <= 3
      BY <3>1 DEF FtpDialogue
    <3>8. step' = "pass" /\ local'.wire = Rest(local.wire, n) \o cut
      BY <3>10 DEF GoesOn, Continue
    <3> QED BY <3>7, <3>8, RestAndReply DEF FtpDialogue
  <2>4. CASE FtpPass
    BY <1>2, <2>4 DEF FtpPass, Conclude
  <2> QED BY <2>1, <2>2, <2>3, <2>4 DEF FtpStep
<1> QED BY <1>1, <1>2

\* The other community's turn, or the end of the port.
LEMMA NextCommunityDialogue ==
  ASSUME local.c \in 1..2, NEW found, NEW gathered, NextCommunity(found, gathered)
  PROVE  SnmpDialogue'
<1>1. Len(COMMUNITY_STRINGS) = 2
  BY DEF COMMUNITY_STRINGS
<1>2. CASE local.c = 2
  BY <1>1, <1>2 DEF NextCommunity, Conclude, SnmpDialogue
<1>3. CASE local.c = 1
  <2>1. step' = "get" /\ local' = [c |-> 2, found |-> found, gathered |-> gathered]
    BY <1>1, <1>3 DEF NextCommunity, Continue
  <2> QED BY <2>1 DEF SnmpDialogue
<1> QED BY <1>2, <1>3

LEMMA SnmpDialogueStep ==
  ASSUME SnmpDialogue, SnmpStep
  PROVE  SnmpDialogue'
<1>1. CASE SnmpBegin
  <2>1. step' = "get" /\ local' = [c |-> 1, found |-> <<>>, gathered |-> FALSE]
    BY <1>1 DEF SnmpBegin, Continue
  <2> QED BY <2>1 DEF SnmpDialogue
<1>2. CASE SnmpGet
  <2>1. local.c \in 1..2
    BY <1>2 DEF SnmpGet, At, SnmpDialogue
  <2>2. \/ \E found, gathered : NextCommunity(found, gathered)
        \/ \E found : step' = "name" /\ local' = [c |-> local.c, gathered |-> TRUE, found |-> found]
    BY <1>2 DEF SnmpGet, Continue
  <2>3. ASSUME NEW found,
               step' = "name" /\ local' = [c |-> local.c, gathered |-> TRUE, found |-> found]
        PROVE  SnmpDialogue'
    BY <2>1, <2>3 DEF SnmpDialogue
  <2> QED BY <2>1, <2>2, <2>3, NextCommunityDialogue
<1>3. CASE SnmpName
  <2>1. local.c \in 1..2
    BY <1>3 DEF SnmpName, At, SnmpDialogue
  <2>2. PICK name \in {<<>>, SnmpFinding("sysname", "Info", "name")}, rows \in InterfaceRows :
          Continue("walk", [c |-> local.c, gathered |-> TRUE, found |-> local.found \o name,
                            rows |-> rows, current |-> 0, names |-> <<>>])
    BY <1>3 DEF SnmpName
  <2>3. rows \in Nat /\ 0 <= rows /\ MaxInterfaces \in Nat
    BY SnmpAssumption DEF SnmpAssumption
  <2>4. step' = "walk"
        /\ local' = [c |-> local.c, gathered |-> TRUE, found |-> local.found \o name,
                     rows |-> rows, current |-> 0, names |-> <<>>]
    BY <2>2 DEF Continue
  <2>5. /\ local' \in [c : 1..2, found : {local'.found}, gathered : {local'.gathered},
                        rows : Nat, current : Nat, names : Seq(Nat)]
        /\ local'.c = local.c /\ local'.current = 0 /\ local'.rows = rows /\ local'.names = <<>>
    <3>1. <<>> \in Seq(Nat)
      OBVIOUS
    <3> QED BY <2>1, <2>3, <2>4, <3>1
  <2>6. Len(local'.names) <= MaxInterfaces
    BY <2>3, <2>5
  <2> QED BY <2>1, <2>3, <2>4, <2>5, <2>6 DEF SnmpDialogue
<1>4. CASE SnmpWalk
  <2>1. local.c \in 1..2 /\ local.rows \in Nat /\ local.current \in Nat
        /\ local.names \in Seq(Nat)
        /\ local \in [c : 1..2, found : {local.found}, gathered : {local.gathered},
                      rows : Nat, current : Nat, names : Seq(Nat)]
    BY <1>4 DEF SnmpWalk, At, SnmpDialogue
  <2>2. CASE EndWalk
    BY <2>1, <2>2, NextCommunityDialogue DEF EndWalk
  <2>3. ASSUME NEW row \in 1..local.rows, Len(local.names) < MaxInterfaces,
               Continue("walk", [local EXCEPT !.current = row, !.names = Append(@, row)])
        PROVE  SnmpDialogue'
    <3>1. step' = "walk"
          /\ local' = [local EXCEPT !.current = row, !.names = Append(local.names, row)]
      BY <2>1, <2>3 DEF Continue
    <3>2. row \in Nat /\ row <= local.rows /\ MaxInterfaces \in Nat
      BY <2>1, SnmpAssumption DEF SnmpAssumption
    <3>3. Append(local.names, row) \in Seq(Nat)
          /\ Len(Append(local.names, row)) <= MaxInterfaces
      BY <2>1, <2>3, <3>2
    <3>4. local' \in [c : 1..2, found : {local'.found}, gathered : {local'.gathered},
                      rows : Nat, current : Nat, names : Seq(Nat)]
          /\ local'.c = local.c /\ local'.current = row /\ local'.rows = local.rows
          /\ local'.names = Append(local.names, row)
      BY <2>1, <3>1, <3>2, <3>3
    <3> QED BY <2>1, <3>1, <3>2, <3>3, <3>4 DEF SnmpDialogue
  <2> QED BY <1>4, <2>2, <2>3 DEF SnmpWalk
<1> QED BY <1>1, <1>2, <1>3, <1>4 DEF SnmpStep

LEMMA DialoguesStep ==
  ASSUME Course, Probing, Dialogues, [Next]_vars
  PROVE  Dialogues'
<1>1. CASE step' \in {"enter", "idle"}
  BY <1>1 DEF Dialogues, FtpDialogue, SnmpDialogue
<1>2. CASE pc' = "killed"
  BY <1>2 DEF Dialogues
<1>3. CASE UNCHANGED <<pc, step, local>>
  BY <1>3 DEF Dialogues, FtpDialogue, SnmpDialogue
<1>4. CASE Enumerate \/ AwaitTransfer
  <2>1. CASE DnsStep \/ DnsTransfer
    BY <2>1, DnsProbed DEF Probed, Dialogues
  <2>2. CASE HttpStep
    BY <2>2, HttpProbed DEF Probed, Dialogues
  <2>3. CASE TlsStep
    BY <2>3, TlsProbed DEF Probed, Dialogues
  <2>4. CASE FtpStep
    <3>1. pc = "ftp" /\ pc' = "ftp"
      BY <2>4, FtpProbed DEF Probed
    <3> QED BY <2>4, <3>1, FtpDialogueStep DEF Dialogues
  <2>5. CASE SnmpStep
    <3>1. pc = "snmp" /\ pc' = "snmp"
      BY <2>5, SnmpProbed DEF Probed
    <3> QED BY <2>5, <3>1, SnmpDialogueStep DEF Dialogues
  <2>6. CASE SmbStep
    BY <2>6, SmbProbed DEF Probed, Dialogues
  <2>7. CASE EnterStage \/ LeaveStage
    BY <1>1, <2>7 DEF EnterStage, LeaveStage
  <2> QED BY <1>4, <2>1, <2>2, <2>3, <2>4, <2>5, <2>6, <2>7 DEF Enumerate, AwaitTransfer
<1>5. CASE Kill
  BY <1>2, <1>5 DEF Kill
<1>6. CASE Ended \/ UNCHANGED vars
  BY <1>3, <1>6 DEF Ended, vars, enumVars
<1>7. CASE \/ Authorize \/ BuildPolicy \/ LoadProfile \/ ResolveTargets \/ ApplyScope
           \/ ParsePortList \/ SkipDiscovery \/ Discover \/ Scan \/ GrabBanners \/ SkipPlugins
           \/ RunPlugins \/ SkipNmap \/ RunNmap \/ Save \/ WriteReport
  <2>1. pc \notin StageSet \cup {"killed"}
    BY <1>7, StageNames
       DEF Authorize, BuildPolicy, LoadProfile, ResolveTargets, ApplyScope, ParsePortList,
           SkipDiscovery, Discover, Scan, GrabBanners, SkipPlugins, RunPlugins, SkipNmap, RunNmap,
           Save, WriteReport
  <2>2. step' = step
    BY <1>7
       DEF Authorize, BuildPolicy, LoadProfile, ResolveTargets, ApplyScope, ParsePortList,
           SkipDiscovery, Discover, Scan, GrabBanners, SkipPlugins, RunPlugins, SkipNmap, RunNmap,
           Save, WriteReport, Idle
  <2> QED BY <1>1, <2>1, <2>2 DEF Probing
<1> QED BY <1>4, <1>5, <1>6, <1>7 DEF Next, Bounded

-----------------------------------------------------------------------------
LEMMA SettingsKept ==
  ASSUME Settings, UNCHANGED <<cli, machine, config, ports>>, Ready' => Ready
  PROVE  Settings'
BY DEF Settings, Candidates, ProfileError, Merged

LEMMA SettingsStep ==
  ASSUME Course, Work, Settings, [Next]_vars
  PROVE  Settings'
<1> USE DEF Ready
<1>1. CASE Authorize \/ BuildPolicy
  <2>1. UNCHANGED <<cli, machine, config, ports>> /\ ~Ready'
    BY <1>1 DEF Authorize, BuildPolicy, GoTo, Leave, Idle, Course, Running
  <2> QED BY <2>1, SettingsKept
<1>2. CASE LoadProfile
  <2>1. UNCHANGED <<cli, machine, ports>> /\ pc = "profile" /\ ports = <<>>
    BY <1>2 DEF LoadProfile, Idle, Work, Early, Unscoped
  <2>2. CASE ProfileError
    <3>1. UNCHANGED config /\ ~Ready'
      BY <1>2, <2>2 DEF LoadProfile, Leave
    <3> QED BY <2>1, <3>1, SettingsKept
  <2>3. CASE ~ProfileError
    <3>1. \E name \in Candidates :
            config' = Merged(IF name = NoName THEN NoProfile ELSE machine.profiles[name])
      BY <1>2, <2>3 DEF LoadProfile
    <3> QED BY <2>1, <2>3, <3>1 DEF Settings, Candidates, ProfileError, Merged
  <2> QED BY <2>2, <2>3
<1>3. CASE ParsePortList
  <2>1. UNCHANGED <<cli, machine, config>> /\ pc = "ports" /\ exit # 1
    BY <1>3 DEF ParsePortList, Idle, Course, Running
  <2>2. CASE \E i \in DOMAIN cli.ports : ~WellFormed(cli.ports[i])
    <3>1. UNCHANGED ports /\ ~Ready'
      BY <1>3, <2>2 DEF ParsePortList, Leave
    <3> QED BY <2>1, <3>1, SettingsKept
  <2>3. CASE ~\E i \in DOMAIN cli.ports : ~WellFormed(cli.ports[i])
    <3>1. ports' = ParsePorts(cli.ports) /\ Ready
      BY <1>3, <2>1, <2>3 DEF ParsePortList
    <3> QED BY <2>1, <2>3, <3>1 DEF Settings, Candidates, ProfileError, Merged
  <2> QED BY <2>2, <2>3
<1>4. CASE ResolveTargets \/ ApplyScope
  <2>1. UNCHANGED <<cli, machine, config, ports>> /\ (Ready' => Ready)
    BY <1>4 DEF ResolveTargets, ApplyScope, GoTo, Leave, Idle, Course, Running
  <2> QED BY <2>1, SettingsKept
<1>5. CASE SkipDiscovery \/ Discover
  <2>1. UNCHANGED <<cli, machine, config, ports>> /\ (Ready' => Ready)
    BY <1>5 DEF SkipDiscovery, Discover, GoTo, Leave, Idle, Course, Running
  <2> QED BY <2>1, SettingsKept
<1>6. CASE Scan \/ GrabBanners
  <2>1. UNCHANGED <<cli, machine, config, ports>> /\ (Ready' => Ready)
    BY <1>6 DEF Scan, GrabBanners, GoTo, Idle, Course, Running
  <2> QED BY <2>1, SettingsKept
<1>7. CASE SkipPlugins \/ RunPlugins \/ SkipNmap \/ RunNmap
  <2>1. UNCHANGED <<cli, machine, config, ports>> /\ (Ready' => Ready)
    BY <1>7 DEF SkipPlugins, RunPlugins, SkipNmap, RunNmap, GoTo, Idle, Course, Running
  <2> QED BY <2>1, SettingsKept
<1>8. CASE Enumerate \/ AwaitTransfer
  <2>1. UNCHANGED <<cli, machine, config, ports, exit>> /\ pc \in StageSet
    BY <1>8, StageCourse DEF mainVars
  <2> QED BY <2>1, StageNames, SettingsKept
<1>9. CASE Save \/ WriteReport \/ Kill
  <2>1. UNCHANGED <<cli, machine, config, ports>> /\ (Ready' => Ready)
    BY <1>9 DEF Save, WriteReport, Kill, GoTo, Leave, Idle, Course, Running
  <2> QED BY <2>1, SettingsKept
<1>10. CASE Ended \/ UNCHANGED vars
  <2>1. UNCHANGED <<cli, machine, config, ports, pc, exit>>
    BY <1>10 DEF Ended, vars, enumVars, mainVars
  <2> QED BY <2>1, SettingsKept
<1> QED BY <1>1, <1>2, <1>3, <1>4, <1>5, <1>6, <1>7, <1>8, <1>9, <1>10 DEF Next, Bounded

-----------------------------------------------------------------------------
\* What has to be true of every contact.
Permitted(c) ==
  /\ cli.authorized
  /\ c.by = "dns" \/ c.who \in cli.allowed
  /\ c.by \in {"arp", "syn", "nmap -O"} => machine.raw
  /\ c.by \in StageSet => c.by \in cli.enumerate

LEMMA MainContacts ==
  ASSUME cli.authorized, NEW whom \in SUBSET cli.allowed, NEW means,
         means \cap {"arp", "syn", "nmap -O"} # {} => machine.raw,
         means \subseteq {"arp", "ping", "tcp", "syn", "connect", "udp", "banner", "plugin",
                         "nmap", "nmap -O"}
  PROVE  \A c \in By(whom, means) : Permitted(c)
BY StageNames DEF By, Permitted

\* Nothing that is not permitted is added, and the run is not refused.
LEMMA ContactsGrow ==
  ASSUME ContactsAllowed, UNCHANGED <<cli, machine>>, exit' # 1,
         \A c \in contacts' : c \in contacts \/ Permitted(c)
  PROVE  ContactsAllowed'
BY DEF ContactsAllowed, Permitted

LEMMA SummaryRecords ==
  ASSUME Work
  PROVE  ToSet(summary) \subseteq PortRecord
BY DEF Work, ToSet

LEMMA HostsAllowed ==
  ASSUME Work
  PROVE  \A r \in ToSet(summary) : r.host \in cli.allowed
BY SummaryRecords DEF PortRecord

LEMMA ContactsStep ==
  ASSUME Course, Work, Probing, ContactsAllowed, [Next]_vars
  PROVE  ContactsAllowed'
<1> USE DEF GoTo, Leave, Idle, Running
<1>1. CASE Authorize \/ BuildPolicy \/ LoadProfile
  <2>1. contacts' = {}
    BY <1>1 DEF Authorize, BuildPolicy, LoadProfile, Work, Early, Unscoped
  <2> QED BY <2>1 DEF ContactsAllowed
<1>2. CASE ResolveTargets \/ ApplyScope \/ ParsePortList
  <2>1. contacts' = {}
    BY <1>2 DEF ResolveTargets, ApplyScope, ParsePortList, Work, Early, Unscoped
  <2> QED BY <2>1 DEF ContactsAllowed
<1>3. CASE SkipDiscovery \/ SkipPlugins \/ SkipNmap
  <2>1. UNCHANGED <<cli, machine, contacts, exit>> /\ exit # 1
    BY <1>3 DEF SkipDiscovery, SkipPlugins, SkipNmap, Course
  <2> QED BY <2>1, ContactsGrow
<1>4. CASE Discover
  <2>1. UNCHANGED <<cli, machine>> /\ exit' # 1 /\ pc = "discover"
    BY <1>4 DEF Discover, Course
  <2>2. ToSet(hosts) \subseteq cli.allowed /\ cli.authorized
    BY <2>1 DEF Course, Work, Unscoped, Ends
  <2>3. PICK arped \in SUBSET ToSet(hosts) : contacts' = contacts
            \cup (IF ArpEnabled THEN By(ToSet(hosts), {"arp"}) ELSE {})
            \cup By(ToSet(hosts) \ arped, Sweeps)
    BY <1>4 DEF Discover
  <2>4. ArpEnabled => \A c \in By(ToSet(hosts), {"arp"}) : Permitted(c)
    <3>1. ArpEnabled => machine.raw
      BY DEF ArpEnabled, Course
    <3> QED BY <2>2, <3>1, MainContacts
  <2>5. \A c \in By(ToSet(hosts) \ arped, Sweeps) : Permitted(c)
    <3>1. Sweeps \subseteq {"ping", "tcp"}
      BY DEF Sweeps
    <3> QED BY <2>2, <3>1, MainContacts
  <2> QED BY <2>1, <2>3, <2>4, <2>5, ContactsGrow
<1>5. CASE Scan
  <2>1. UNCHANGED <<cli, machine, exit>> /\ exit # 1 /\ pc = "scan"
        /\ contacts' = contacts \cup By(ToSet(hosts), {Scanner})
    BY <1>5 DEF Scan, Course
  <2>2. ToSet(hosts) \subseteq cli.allowed /\ cli.authorized
    BY <2>1 DEF Course, Work, Unscoped, Ends
  <2>3. Scanner \in {"udp", "syn", "connect"} /\ (Scanner = "syn" => machine.raw)
    BY DEF Scanner, Course
  <2>4. \A c \in By(ToSet(hosts), {Scanner}) : Permitted(c)
    BY <2>2, <2>3, MainContacts
  <2> QED BY <2>1, <2>4, ContactsGrow
<1>6. CASE GrabBanners \/ RunPlugins
  <2>1. UNCHANGED <<cli, machine, exit>> /\ exit # 1 /\ cli.authorized
    BY <1>6 DEF GrabBanners, RunPlugins, Course, Ends
  <2>2. \E records \in SUBSET ToSet(summary), means \in {{"banner"}, {"plugin"}} :
          contacts' = contacts \cup By(Hosts(records), means)
    BY <1>6 DEF GrabBanners, RunPlugins, Promising
  <2>3. PICK records \in SUBSET ToSet(summary), means \in {{"banner"}, {"plugin"}} :
          contacts' = contacts \cup By(Hosts(records), means)
    BY <2>2
  <2>4. Hosts(records) \subseteq cli.allowed
    BY HostsAllowed DEF Hosts
  <2>5. \A c \in By(Hosts(records), means) : Permitted(c)
    BY <2>1, <2>4, MainContacts
  <2> QED BY <2>1, <2>3, <2>5, ContactsGrow
<1>7. CASE RunNmap
  <2>1. UNCHANGED <<cli, machine, exit>> /\ exit # 1 /\ cli.authorized
        /\ contacts' = contacts \cup By({h \in Hosts(ToSet(summary)) : HostUp(h)}, Scans)
    BY <1>7 DEF RunNmap, Course, Ends
  <2> DEFINE whom == {h \in Hosts(ToSet(summary)) : HostUp(h)}
  <2>2. whom \subseteq cli.allowed
    BY HostsAllowed DEF Hosts
  <2>3. Scans \subseteq {"nmap", "nmap -O"} /\ ("nmap -O" \in Scans => machine.raw)
        /\ "arp" \notin Scans /\ "syn" \notin Scans
    BY DEF Scans, Course
  <2> HIDE DEF whom
  <2>4. \A c \in By(whom, Scans) : Permitted(c)
    BY <2>1, <2>2, <2>3, MainContacts
  <2> QED BY <2>1, <2>4, ContactsGrow DEF whom
<1>8. CASE Enumerate \/ AwaitTransfer
  <2>1. UNCHANGED <<cli, machine, exit>> /\ exit # 1 /\ cli.authorized /\ pc \in StageSet
    BY <1>8, StageCourse, StageNames DEF mainVars, Course, Ends
  <2>2. CASE contacts' = contacts
    BY <2>1, <2>2, ContactsGrow
  <2>3. CASE /\ contacts' = contacts \cup {[who |-> Head(todo).host, by |-> pc]}
             /\ pc = "dns" \/ todo # <<>>
             /\ step # "enter"
    <3>1. pc # "dns" => Head(todo).host \in cli.allowed
      <4>1. pc # "dns" => Head(todo) \in ToSet(summary)
        BY <2>1, <2>3 DEF Probing
      <4> QED BY <4>1, HostsAllowed
    <3>2. pc \in cli.enumerate
      BY <2>1, <2>3 DEF Probing
    <3>3. pc \notin {"arp", "syn", "nmap -O"}
      BY <2>1, StageNames
    <3>4. Permitted([who |-> Head(todo).host, by |-> pc])
      BY <2>1, <3>1, <3>2, <3>3 DEF Permitted
    <3> QED BY <2>1, <2>3, <3>4, ContactsGrow
  <2> QED BY <1>8, <2>2, <2>3, StageEffect DEF Probed, EnterStage, LeaveStage
<1>9. CASE Save \/ WriteReport \/ Kill
  <2>1. UNCHANGED <<cli, machine, contacts>> /\ exit' # 1
    BY <1>9 DEF Save, WriteReport, Kill, Course
  <2> QED BY <2>1, ContactsGrow
<1>10. CASE Ended \/ UNCHANGED vars
  BY <1>10 DEF Ended, vars, enumVars, mainVars, ContactsAllowed
<1> QED BY <1>1, <1>2, <1>3, <1>4, <1>5, <1>6, <1>7, <1>8, <1>9, <1>10 DEF Next, Bounded

-----------------------------------------------------------------------------
LEMMA Initially == Init => IInv
<1> SUFFICES ASSUME Init PROVE IInv
  OBVIOUS
<1> USE DEF Init
<1>1. Course /\ Saving /\ ReportFileHonest /\ ContactsAllowed
  BY DEF Course, Pcs, Ends, Saving, ReportFileHonest, ContactsAllowed, Running
<1>2. Work
  <2>1. /\ <<>> \in Seq(ToSet(Addresses)) /\ <<>> \in Seq(U16)
        /\ <<>> \in Seq(PortRecord)
    OBVIOUS
  <2> QED BY <2>1 DEF Work, Unscoped
<1>3. Probing /\ Dialogues
  <2>1. <<>> \in Seq(ToSet(cli.names) \cup ToSet(summary)) /\ <<>> \in Seq(ToSet(summary))
    OBVIOUS
  <2> QED BY <2>1, StageNames DEF Probing, Dialogues
<1>4. Settings
  BY DEF Settings, Ready
<1> QED BY <1>1, <1>2, <1>3, <1>4 DEF IInv

LEMMA Inductive == IInv /\ [Next]_vars => IInv'
BY CourseStep, WorkStep, ProbingStep, DialoguesStep, SavingStep, SettingsStep, ContactsStep DEF IInv

LEMMA Always == Spec => []IInv
BY Initially, Inductive, PTL DEF Spec

(* The places, the exit status, the ports and the records have their types, *)
(* and so have what an FTP dialogue and an SNMP walk keep.                  *)
THEOREM TypeCorrect == Spec => []TypeOK
<1>1. IInv => TypeOK
  <2> SUFFICES ASSUME IInv PROVE TypeOK
    OBVIOUS
  <2> USE DEF IInv
  <2>1. /\ pc \in Pcs /\ exit \in {Running, 0, 1} /\ (exit # Running <=> pc = "exited")
        /\ report \in {"old", "empty", "partial", "new"}
        /\ told \in {"nothing", "saved", "error"}
    BY DEF Course, Saving
  <2>2. ToSet(ports) \subseteq U16
    BY DEF Work, ToSet
  <2>3. todo # <<>> => pc \in StageSet \cup {"killed"}
    BY DEF Probing
  <2>4. \A r \in ToSet(summary) :
          r.status \in PortStatus /\ r.protocol = Protocol /\ r.port \in ToSet(ports)
    <3>1. \A r \in PortRecord :
            r.status \in PortStatus /\ r.protocol = Protocol /\ r.port \in ToSet(ports)
      BY DEF PortRecord
    <3> QED BY <3>1, SummaryRecords
  <2>5. FtpLocals
    BY DEF Dialogues, FtpDialogue, FtpLocals
  <2>6. SnmpLocals
    <3>1. DOMAIN COMMUNITY_STRINGS = 1..2
      BY DEF COMMUNITY_STRINGS
    <3> QED BY <3>1 DEF Dialogues, SnmpDialogue, SnmpLocals
  <2> QED BY <2>1, <2>2, <2>3, <2>4, <2>5, <2>6 DEF TypeOK
<1> QED BY <1>1, Always, PTL

(* Nothing is sent without the authorization, to an address the policy      *)
(* excludes, with raw packets the machine does not grant, or from a stage   *)
(* that was not asked for; and a run that is refused has sent nothing.      *)
THEOREM OnlyAllowedContacts == Spec => []ContactsAllowed
<1>1. IInv => ContactsAllowed
  BY DEF IInv
<1> QED BY <1>1, Always, PTL

(* What is said about the report file is true of it, and an old report is   *)
(* lost only under an error message or a kill.                              *)
THEOREM ReportIsHonest == Spec => []ReportFileHonest
<1>1. IInv => ReportFileHonest
  BY DEF IInv
<1> QED BY <1>1, Always, PTL

\* What the candidate that was taken says is what holds.
LEMMA TakenProfile ==
  ASSUME Course, ~ProfileError, NEW name \in Candidates,
         config = Merged(IF name = NoName THEN NoProfile ELSE machine.profiles[name])
  PROVE  /\ cli.no_ping => ~config.ping_discovery
         /\ \/ Ungoverned
            \/ \E n \in DOMAIN machine.profiles : MayGovern(n) /\ Governs(machine.profiles[n])
<1>1. /\ NoName \notin DOMAIN machine.profiles
      /\ \A n \in DOMAIN machine.profiles :
           machine.profiles[n].discovery \in Seq([ping : BOOLEAN, tcp_ports : Seq(U16)])
  BY PlansAssumption DEF PlansAssumption, Course
<1>2. cli.no_ping => ~config.ping_discovery
  BY DEF Merged
<1>3. CASE name = NoName
  <2>1. cli.profile_path = NoName \/ DOMAIN machine.profiles = {}
    BY <1>1, <1>3 DEF Candidates
  <2>2. config.concurrency = cli.concurrency /\ config.timeout_ms = cli.timeout
    BY <1>3 DEF Merged, NoProfile, OrElse
  <2> QED BY <1>2, <2>1, <2>2 DEF Ungoverned
<1>4. CASE name # NoName
  <2> DEFINE profile == machine.profiles[name]
  <2>1. name \in DOMAIN machine.profiles /\ MayGovern(name)
    BY <1>4 DEF Candidates, ProfileError, MayGovern
  <2>2. profile.discovery \in Seq([ping : BOOLEAN, tcp_ports : Seq(U16)])
    BY <1>1, <2>1
  <2>3. config = Merged(profile)
    BY <1>4
  <2> HIDE DEF profile
  <2>4. Governs(profile)
    <3>1. profile.discovery # <<>> => profile.discovery[1] \in [ping : BOOLEAN, tcp_ports : Seq(U16)]
      <4>1. \A E : \A s \in Seq(E) : s # <<>> => s[1] \in E
        OBVIOUS
      <4> QED BY <2>2, <4>1
    <3>2. /\ config.concurrency = OrElse(profile.concurrency, cli.concurrency)
          /\ config.timeout_ms = OrElse(profile.timeout_ms, cli.timeout)
      BY <2>3 DEF Merged
    <3>3. profile.discovery # <<>> =>
            /\ config.tcp_ping_ports = profile.discovery[1].tcp_ports
            /\ config.ping_discovery = (profile.discovery[1].ping /\ ~cli.no_ping)
      BY <2>3 DEF Merged, OrElse
    <3>4. profile.discovery # <<>> => profile.discovery[1].ping \in BOOLEAN
      BY <3>1
    <3> QED BY <3>2, <3>3, <3>4 DEF Governs
  <2> QED BY <1>2, <2>1, <2>4 DEF profile
<1> QED BY <1>3, <1>4

(* The settings of a run are those of the profile it may take and, where it *)
(* is silent, of the command line; its ports are those written, ascending.  *)
THEOREM SettingsAreThoseGiven == Spec => []SettingsAsGiven
<1>1. IInv => SettingsAsGiven
  <2> SUFFICES ASSUME IInv PROVE SettingsAsGiven
    OBVIOUS
  <2> USE DEF IInv
  <2>1. Ready => /\ cli.no_ping => ~config.ping_discovery
                 /\ \/ Ungoverned
                    \/ \E n \in DOMAIN machine.profiles :
                         MayGovern(n) /\ Governs(machine.profiles[n])
    BY TakenProfile DEF Settings
  <2>2. ASSUME ports # <<>>
        PROVE  /\ \A i, j \in DOMAIN ports : i < j => ports[i] < ports[j]
               /\ \A i \in DOMAIN cli.ports :
                    cli.ports[i][1]..Last(cli.ports[i]) \subseteq ToSet(ports)
               /\ \A p \in ToSet(ports) : \E i \in DOMAIN cli.ports :
                    cli.ports[i][1] <= p /\ p <= Last(cli.ports[i])
    <3>1. /\ ports = ParsePorts(cli.ports)
          /\ \A i \in DOMAIN cli.ports : WellFormed(cli.ports[i])
      BY <2>2 DEF Settings
    <3>2. cli.ports \in Seq(Seq(Int))
      BY PlansAssumption DEF PlansAssumption, Course
    <3>3. ToSet(ports) = UNION {Written(cli.ports[i]) : i \in DOMAIN cli.ports} /\ Ascends(ports)
      BY <3>1, <3>2, ParsedPorts
    <3>4. \A i \in DOMAIN cli.ports :
            /\ cli.ports[i][1]..Last(cli.ports[i]) = Written(cli.ports[i])
            /\ \A p \in Written(cli.ports[i]) : cli.ports[i][1] <= p /\ p <= Last(cli.ports[i])
      <4> TAKE i \in DOMAIN cli.ports
      <4>1. cli.ports[i] \in Seq(Int) /\ WellFormed(cli.ports[i])
        BY <3>1, <3>2
      <4> QED BY <4>1, WrittenPorts DEF Written
    <3>5. \A i, j \in DOMAIN ports : i < j => ports[i] < ports[j]
      BY <3>3 DEF Ascends
    <3>6. \A i \in DOMAIN cli.ports :
            cli.ports[i][1]..Last(cli.ports[i]) \subseteq ToSet(ports)
      BY <3>3, <3>4
    <3>7. \A p \in ToSet(ports) : \E i \in DOMAIN cli.ports :
            cli.ports[i][1] <= p /\ p <= Last(cli.ports[i])
      BY <3>3, <3>4
    <3> QED BY <3>5, <3>6, <3>7
  <2> QED BY <2>1, <2>2 DEF SettingsAsGiven
<1> QED BY <1>1, Always, PTL

-----------------------------------------------------------------------------
(* The enumeration stages one after the other.                              *)

\* When a stage's turn comes.
Turn(stage) == CHOOSE k \in DOMAIN Stages : Stages[k] = stage

LEMMA Turns ==
  /\ \A stage \in StageSet : Turn(stage) \in 1..6 /\ Stages[Turn(stage)] = stage
  /\ \A stage \in StageSet : After(stage) \in StageSet => Turn(After(stage)) = Turn(stage) + 1
  /\ Turn("dns") = 1
<1>1. Len(Stages) = 6 /\ DOMAIN Stages = 1..6 /\ Stages[1] = "dns"
  BY DEF Stages
<1>2. \A i, j \in 1..6 : Stages[i] = Stages[j] => i = j
  <2>1. /\ Stages[1] = "dns" /\ Stages[2] = "http" /\ Stages[3] = "tls"
        /\ Stages[4] = "ftp" /\ Stages[5] = "snmp" /\ Stages[6] = "smb"
    BY DEF Stages
  <2> QED BY <2>1
<1>3. \A stage \in StageSet : Turn(stage) \in 1..6 /\ Stages[Turn(stage)] = stage
  BY <1>1 DEF Turn, StageSet, ToSet
<1>4. \A k \in 1..6 : Stages[k] \in StageSet /\ Turn(Stages[k]) = k
  <2> TAKE k \in 1..6
  <2>1. Stages[k] \in StageSet
    BY <1>1 DEF StageSet, ToSet
  <2> QED BY <1>2, <1>3, <2>1
<1>5. \A stage \in StageSet : After(stage) = IF Turn(stage) = 6 THEN "save" ELSE Stages[Turn(stage) + 1]
  BY <1>1 DEF After, Turn
<1>6. ASSUME NEW stage \in StageSet, After(stage) \in StageSet
      PROVE  Turn(After(stage)) = Turn(stage) + 1
  <2>1. Turn(stage) # 6
    BY <1>5, <1>6, StageNames
  <2>2. Turn(stage) + 1 \in 1..6 /\ After(stage) = Stages[Turn(stage) + 1]
    BY <1>3, <1>5, <2>1
  <2> QED BY <1>4, <2>2
<1>7. Turn("dns") = 1
  BY <1>1, <1>4
<1> QED BY <1>3, <1>6, <1>7

-----------------------------------------------------------------------------
\* A list without its first record.
LEMMA RestOf ==
  ASSUME NEW E, NEW s \in Seq(E), s # <<>>
  PROVE  /\ 1 \in DOMAIN s /\ Head(s) = s[1]
         /\ \A i \in DOMAIN Tail(s) : i + 1 \in DOMAIN s /\ i + 1 # 1 /\ Tail(s)[i] = s[i + 1]
         /\ \A i \in DOMAIN s : i # 1 => i - 1 \in DOMAIN Tail(s) /\ Tail(s)[i - 1] = s[i]
<1>1. Len(s) \in Nat \ {0} /\ DOMAIN s = 1..Len(s)
  OBVIOUS
<1>2. /\ DOMAIN Tail(s) = 1..(Len(s) - 1)
      /\ \A i \in 1..(Len(s) - 1) : Tail(s)[i] = s[i + 1]
  BY <1>1
<1> QED BY <1>1, <1>2

-----------------------------------------------------------------------------
(* What a stage records of a place, in seen and in findings.                *)

\* A probe is under way.
Under == pc \in StageSet /\ step \notin {"enter", "idle"}

\* A finding of the probe under way.
Ours(f) == f.id[1] = pc /\ IF pc = "dns" THEN f.id[3][1] = Domain ELSE f.id[3] = Here

OurFindings(list) == list \in Seq(ToSet(list)) /\ \A f \in ToSet(list) : Ours(f)

\* What the locals of a probe hold of its findings, and where it got its names.
Gathering ==
  /\ Under /\ pc \in {"dns", "snmp", "smb"} => OurFindings(local.found)
  /\ Under /\ pc = "dns" =>
       /\ local \in [found : {local.found}, nameservers : Seq(ToSet(local.nameservers))]
       /\ step = "transfer" => local.nameservers # <<>>
  /\ pc = "dns" => todo \in Seq(ToSet(cli.names))

\* A step of a probe adds to seen what happened at its place, and to the
\* findings, when it is over, what was found there.
Noted ==
  \E new : /\ seen' = seen \cup new
           /\ \A e \in new : e[1] = pc /\ IF pc = "dns" THEN e[2][1] = Domain ELSE e[2] = Here

Advanced ==
  \/ todo' = todo /\ findings' = findings /\ step' \notin {"enter", "idle"}
  \/ /\ todo' = Tail(todo) /\ step' = "idle"
     /\ \E new : OurFindings(new) /\ findings' = findings \o new

Recorded == Noted /\ Advanced

LEMMA SeenByUs ==
  ASSUME NEW facts, Saw(Here, facts), pc # "dns"
  PROVE  Noted
<1> DEFINE new == {<<pc, Here, fact>> : fact \in facts}
<1>1. seen' = seen \cup new
  BY DEF Saw
<1>2. \A e \in new : e[1] = pc /\ e[2] = Here
  OBVIOUS
<1> QED BY <1>1, <1>2 DEF Noted

LEMMA NothingSeen ==
  ASSUME UNCHANGED seen
  PROVE  Noted
<1> DEFINE new == {}
<1>1. seen' = seen \cup new
  OBVIOUS
<1>2. \A e \in new : FALSE
  OBVIOUS
<1> HIDE DEF new
<1> QED BY <1>1, <1>2 DEF Noted

LEMMA NoFinding == OurFindings(<<>>)
BY DEF OurFindings, ToSet

LEMMA OneFinding ==
  ASSUME NEW f, Ours(f)
  PROVE  OurFindings(<<f>>) /\ ToSet(<<f>>) = {f}
<1>1. ToSet(<<f>>) = {f}
  BY DEF ToSet
<1> QED BY <1>1 DEF OurFindings

LEMMA JoinedElements ==
  ASSUME NEW a, NEW b, a \in Seq(ToSet(a)), b \in Seq(ToSet(b))
  PROVE  a \o b \in Seq(ToSet(a \o b)) /\ ToSet(a \o b) = ToSet(a) \cup ToSet(b)
<1> DEFINE E == ToSet(a) \cup ToSet(b)
<1>1. a \in Seq(E) /\ b \in Seq(E)
  <2>1. ToSet(a) \subseteq E /\ ToSet(b) \subseteq E
    OBVIOUS
  <2> HIDE DEF E
  <2> QED BY <2>1, SeqOfMore
<1> HIDE DEF E
<1>2. a \o b \in Seq(E) /\ ToSet(a \o b) = ToSet(a) \cup ToSet(b)
  BY <1>1, ConcatElements
<1> QED BY <1>2 DEF E

LEMMA JoinedFindings ==
  ASSUME NEW a, NEW b, OurFindings(a), OurFindings(b)
  PROVE  OurFindings(a \o b) /\ ToSet(a \o b) = ToSet(a) \cup ToSet(b)
BY JoinedElements DEF OurFindings

\* A finding put together by make_finding is one of the probe under way.
LEMMA MadeHere ==
  ASSUME NEW kind, NEW severity, NEW evidence, pc # "dns"
  PROVE  LET f == Finding(kind, Here, severity, evidence) IN
         /\ Ours(f) /\ OurFindings(<<f>>) /\ ToSet(<<f>>) = {f}
         /\ f.id = <<pc, kind, Here>> /\ f.severity = severity /\ f.evidence = evidence
<1> DEFINE f == Finding(kind, Here, severity, evidence)
<1>1. f.id = <<pc, kind, Here>> /\ f.severity = severity /\ f.evidence = evidence
  BY DEF Finding
<1>2. Ours(f)
  BY <1>1 DEF Ours
<1> HIDE DEF f
<1>3. OurFindings(<<f>>) /\ ToSet(<<f>>) = {f}
  BY <1>2, OneFinding
<1> QED BY <1>1, <1>2, <1>3 DEF f

LEMMA Concluded ==
  ASSUME NEW new, Conclude(new), OurFindings(new)
  PROVE  Advanced
BY DEF Conclude, Advanced

LEMMA Continued ==
  ASSUME NEW s, NEW locals, Continue(s, locals), s \notin {"enter", "idle"}
  PROVE  Advanced
BY DEF Continue, Advanced

-----------------------------------------------------------------------------
LEMMA Inspections ==
  ASSUME NEW cert, pc = "tls"
  PROVE  OurFindings(Inspected(cert))
<1>1. \A kind, severity : OurFindings(TlsFinding(kind, severity))
  BY MadeHere DEF TlsFinding
<1>2. \A a, b : OurFindings(a) /\ OurFindings(b) => OurFindings(a \o b)
  BY JoinedFindings
<1>3. OurFindings(Expiry(cert.left))
  BY <1>1, NoFinding DEF Expiry
<1>4. OurFindings(IF cert.dns_names THEN TlsFinding("san", "Info") ELSE <<>>)
  BY <1>1, NoFinding
<1>5. OurFindings(TlsFinding("issuer", "Info") \o TlsFinding("subject", "Info"))
  BY <1>1, <1>2
<1>6. OurFindings((TlsFinding("issuer", "Info") \o TlsFinding("subject", "Info"))
                  \o (IF cert.dns_names THEN TlsFinding("san", "Info") ELSE <<>>))
  BY <1>2, <1>4, <1>5
<1>7. OurFindings(((TlsFinding("issuer", "Info") \o TlsFinding("subject", "Info"))
                   \o (IF cert.dns_names THEN TlsFinding("san", "Info") ELSE <<>>))
                  \o Expiry(cert.left))
  BY <1>2, <1>3, <1>6
<1> QED BY <1>7, NoFinding DEF Inspected

LEMMA TlsRecorded ==
  ASSUME TlsStep
  PROVE  Recorded
<1>1. pc = "tls"
  BY TlsProbed
<1>2. CASE TlsConnect
  BY <1>2, NothingSeen, NoFinding, Concluded, Continued DEF TlsConnect, Recorded
<1>3. CASE TlsHandshake
  <2>1. CASE Conclude(<<>>) /\ UNCHANGED seen
    BY <2>1, NothingSeen, NoFinding, Concluded DEF Recorded
  <2>2. ASSUME NEW cert, Conclude(Inspected(cert)), Saw(Here, {cert})
        PROVE  Recorded
    BY <1>1, <2>2, SeenByUs, Inspections, Concluded DEF Recorded
  <2> QED BY <1>3, <2>1, <2>2 DEF TlsHandshake
<1> QED BY <1>2, <1>3 DEF TlsStep

LEMMA SmbRecorded ==
  ASSUME SmbStep, Gathering
  PROVE  Recorded
<1>1. pc = "smb" /\ pc \in StageSet
  BY SmbProbed, StageNames
<1>2. \A kind, severity : OurFindings(SmbFinding(kind, severity))
  BY <1>1, MadeHere DEF SmbFinding
<1>3. \A a, b : OurFindings(a) /\ OurFindings(b) => OurFindings(a \o b)
  BY JoinedFindings
<1>4. CASE SmbNegotiate
  <2>1. CASE Continue("smb1", [found |-> <<>>]) /\ UNCHANGED seen
    BY <2>1, NothingSeen, Continued DEF Recorded
  <2>2. ASSUME NEW r, Continue("smb1", [found |-> Negotiated(r)]), Saw(Here, {<<"negotiate", r>>})
        PROVE  Recorded
    BY <1>1, <2>2, SeenByUs, Continued DEF Recorded
  <2> QED BY <1>4, <2>1, <2>2 DEF SmbNegotiate
<1>5. CASE SmbLegacy
  <2>1. CASE Continue("session", local) /\ UNCHANGED seen
    BY <2>1, NothingSeen, Continued DEF Recorded
  <2>2. ASSUME NEW r, Continue("session", [found |-> local.found \o Legacy(r)]),
               Saw(Here, {<<"legacy", r>>})
        PROVE  Recorded
    BY <1>1, <2>2, SeenByUs, Continued DEF Recorded
  <2> QED BY <1>5, <2>1, <2>2 DEF SmbLegacy
<1>6. CASE SmbSession
  <2>0. OurFindings(local.found)
    BY <1>1, <1>6 DEF SmbSession, At, Under, Gathering
  <2>1. CASE Conclude(local.found) /\ UNCHANGED seen
    BY <2>0, <2>1, NothingSeen, Concluded DEF Recorded
  <2>2. CASE /\ Continue("shares", [found |-> local.found \o SmbFinding("null_session", "High")])
             /\ Saw(Here, {<<"session">>})
    BY <1>1, <2>2, SeenByUs, Continued DEF Recorded
  <2> QED BY <1>6, <2>1, <2>2 DEF SmbSession
<1>7. CASE SmbShares
  <2>0. OurFindings(local.found)
    BY <1>1, <1>7 DEF SmbShares, At, Under, Gathering
  <2>1. CASE Conclude(local.found) /\ UNCHANGED seen
    BY <2>0, <2>1, NothingSeen, Concluded DEF Recorded
  <2>2. CASE Conclude(local.found \o SmbFinding("shares", "High")) /\ Saw(Here, {<<"shares">>})
    <3>1. OurFindings(local.found \o SmbFinding("shares", "High"))
      BY <1>2, <1>3, <2>0
    <3> QED BY <1>1, <2>2, <3>1, SeenByUs, Concluded DEF Recorded
  <2> QED BY <1>7, <2>1, <2>2 DEF SmbShares
<1> QED BY <1>4, <1>5, <1>6, <1>7 DEF SmbStep

LEMMA FtpRecorded ==
  ASSUME FtpStep
  PROVE  Recorded
<1>1. pc = "ftp"
  BY FtpProbed
<1>2. \A banner, anonymous : OurFindings(FtpFindings(banner, anonymous))
  <2> TAKE banner, anonymous
  <2> DEFINE a == IF banner = Blank THEN <<>> ELSE <<Finding("banner", Here, "Info", banner)>>
             b == IF anonymous THEN <<Finding("anonymous", Here, "High", "accepted")>> ELSE <<>>
  <2>1. OurFindings(a) /\ OurFindings(b)
    BY <1>1, MadeHere, NoFinding
  <2> HIDE DEF a, b
  <2>2. OurFindings(a \o b)
    BY <2>1, JoinedFindings
  <2> QED BY <2>2 DEF FtpFindings, a, b
<1>3. CASE FtpConnect
  <2>1. CASE Conclude(<<>>) /\ UNCHANGED seen
    BY <2>1, NothingSeen, NoFinding, Concluded DEF Recorded
  <2>2. ASSUME NEW cut, Continue("greeting", [wire |-> cut, banner |-> Text]),
               Saw(Here, Meant(220, cut))
        PROVE  Recorded
    BY <1>1, <2>2, SeenByUs, Continued DEF Recorded
  <2> QED BY <1>3, <2>1, <2>2 DEF FtpConnect
<1>4. CASE FtpGreeting
  <2>1. CASE Conclude(<<>>) /\ Saw(Here, {"lost"})
    BY <1>1, <2>1, SeenByUs, NoFinding, Concluded DEF Recorded
  <2>2. CASE ~(Conclude(<<>>) /\ Saw(Here, {"lost"}))
    <3> DEFINE Answer(n, cut) == [wire |-> Rest(local.wire, n) \o cut,
                                  banner |-> Code(local.wire, n)]
               Facts(n, reply, cut) == Remains(local.wire, n) \cup Meant(reply, cut)
    <3>1. PICK n \in 1..Len(local.wire), reply \in {230, 331, 530} :
            \E cut \in Cuts(reply) : Continue("user", Answer(n, cut)) /\ Saw(Here, Facts(n, reply, cut))
      BY <1>4, <2>2 DEF FtpGreeting
    <3> HIDE DEF Answer, Facts
    <3>2. UNCHANGED <<todo, findings>> /\ step' = "user" /\ \E facts : Saw(Here, facts)
      BY <3>1 DEF Continue
    <3> QED BY <1>1, <3>2, SeenByUs DEF Advanced, Recorded
  <2> QED BY <2>1, <2>2
<1>5. ASSUME NEW new, NEW facts, Conclude(new), OurFindings(new), Saw(Here, facts)
      PROVE  Recorded
  BY <1>1, <1>5, SeenByUs, Concluded DEF Recorded
<1>6. CASE FtpUser
  <2>1. CASE Conclude(FtpFindings(local.banner, FALSE)) /\ Saw(Here, {"lost"})
    BY <1>2, <1>5, <2>1
  <2>2. CASE ~(Conclude(FtpFindings(local.banner, FALSE)) /\ Saw(Here, {"lost"}))
    <3>1. PICK n \in 1..Len(local.wire) :
            IF Code(local.wire, n) # 331
            THEN /\ Conclude(FtpFindings(local.banner, Code(local.wire, n) = 230))
                 /\ Saw(Here, Remains(local.wire, n))
            ELSE \/ Conclude(<<>>) /\ Saw(Here, {"lost"})
                 \/ \E reply \in {230, 530} : \E cut \in Cuts(reply) :
                      /\ Continue("pass", [wire |-> Rest(local.wire, n) \o cut,
                                           banner |-> local.banner])
                      /\ Saw(Here, Remains(local.wire, n) \cup Meant(reply, cut))
      BY <1>6, <2>2 DEF FtpUser
    <3>2. CASE Code(local.wire, n) # 331
      BY <1>2, <1>5, <3>1, <3>2
    <3>3. CASE Code(local.wire, n) = 331
      <4>1. CASE Conclude(<<>>) /\ Saw(Here, {"lost"})
        BY <1>5, <4>1, NoFinding
      <4>2. CASE ~(Conclude(<<>>) /\ Saw(Here, {"lost"}))
        <5>1. /\ UNCHANGED <<todo, findings>> /\ step' = "pass"
              /\ \E facts : Saw(Here, facts)
          BY <3>1, <3>3, <4>2 DEF Continue
        <5> QED BY <1>1, <5>1, SeenByUs DEF Advanced, Recorded
      <4> QED BY <4>1, <4>2
    <3> QED BY <3>2, <3>3
  <2> QED BY <2>1, <2>2
<1>7. CASE FtpPass
  BY <1>2, <1>5, <1>7 DEF FtpPass
<1> QED BY <1>3, <1>4, <1>6, <1>7 DEF FtpStep

LEMMA SnmpRecorded ==
  ASSUME SnmpStep, Gathering
  PROVE  Recorded
<1>1. pc = "snmp" /\ pc \in StageSet
  BY SnmpProbed, StageNames
<1>2. \A kind, severity, evidence : OurFindings(SnmpFinding(kind, severity, evidence))
  BY <1>1, MadeHere DEF SnmpFinding
<1>3. \A a, b : OurFindings(a) /\ OurFindings(b) => OurFindings(a \o b)
  BY JoinedFindings
<1>4. ASSUME NEW found, NEW gathered, NEW facts, NextCommunity(found, gathered),
             OurFindings(found), Saw(Here, facts) \/ UNCHANGED seen
      PROVE  Recorded
  BY <1>1, <1>4, SeenByUs, NothingSeen, Concluded, Continued DEF NextCommunity, Recorded
<1>5. ASSUME NEW s \in {"get", "name", "walk"}, NEW locals, NEW facts, Continue(s, locals),
             Saw(Here, facts) \/ UNCHANGED seen
      PROVE  Recorded
  BY <1>1, <1>5, SeenByUs, NothingSeen, Continued DEF Recorded
<1>6. SnmpBegin \/ OurFindings(local.found)
  BY <1>1 DEF SnmpStep, SnmpGet, SnmpName, SnmpWalk, At, Under, Gathering
<1>7. CASE SnmpBegin
  BY <1>5, <1>7 DEF SnmpBegin
<1>8. CASE SnmpGet /\ OurFindings(local.found)
  <2> DEFINE found == local.found \o SnmpFinding("community", "High", Community)
             facts(o) == IF o = "silence" THEN {} ELSE {<<o, Community>>}
  <2>1. PICK outcome \in Outcomes :
          /\ Saw(Here, facts(outcome))
          /\ IF outcome # "value" THEN NextCommunity(local.found, local.gathered)
             ELSE IF local.gathered THEN NextCommunity(found, TRUE)
             ELSE Continue("name", [c |-> local.c, gathered |-> TRUE, found |->
                                      found \o SnmpFinding("sysdescr", "Info", "descr")])
    BY <1>8 DEF SnmpGet
  <2>2. OurFindings(found)
    BY <1>2, <1>3, <1>8
  <2> HIDE DEF found, facts
  <2>3. CASE outcome # "value"
    BY <1>4, <1>8, <2>1, <2>3
  <2>4. CASE outcome = "value" /\ local.gathered
    BY <1>4, <2>1, <2>2, <2>4
  <2>5. CASE outcome = "value" /\ ~local.gathered
    BY <1>5, <2>1, <2>5
  <2> QED BY <2>3, <2>4, <2>5
<1>9. CASE SnmpName
  BY <1>5, <1>9 DEF SnmpName
<1>10. CASE SnmpWalk /\ OurFindings(local.found)
  <2>1. ASSUME EndWalk, NEW facts, Saw(Here, facts) \/ UNCHANGED seen
        PROVE  Recorded
    <3> DEFINE found == local.found \o (IF local.names = <<>> THEN <<>>
                                        ELSE SnmpFinding("interfaces", "Info", local.names))
    <3>1. OurFindings(IF local.names = <<>> THEN <<>>
                      ELSE SnmpFinding("interfaces", "Info", local.names))
      BY <1>2, NoFinding
    <3>2. OurFindings(found)
      BY <1>3, <1>10, <3>1
    <3>3. NextCommunity(found, TRUE)
      BY <2>1 DEF EndWalk
    <3> HIDE DEF found
    <3> QED BY <1>4, <2>1, <3>2, <3>3
  <2>2. CASE EndWalk /\ UNCHANGED seen
    BY <2>1, <2>2
  <2>3. CASE EndWalk /\ Saw(Here, IF local.current = local.rows THEN {} ELSE {<<"broke off">>})
    BY <2>1, <2>3
  <2>4. ASSUME NEW locals, NEW facts, Continue("walk", locals), Saw(Here, facts)
        PROVE  Recorded
    BY <1>5, <2>4
  <2> QED BY <1>10, <2>2, <2>3, <2>4 DEF SnmpWalk
<1> QED BY <1>6, <1>7, <1>8, <1>9, <1>10 DEF SnmpStep

-----------------------------------------------------------------------------
LEMMA HeadOf ==
  ASSUME NEW E, NEW s \in Seq(E), s # <<>>
  PROVE  Head(s) \in E /\ Tail(s) \in Seq(E)
OBVIOUS

\* The records a name has are lists.
LEMMA DataLists ==
  ASSUME Course, Gathering, pc = "dns", todo # <<>>, NEW kind \in ToSet(Lookups) \cup {"a"}
  PROVE  /\ Head(todo) \in ToSet(cli.names)
         /\ Data(kind) \in Seq(ToSet(Data(kind)))
<1>1. Head(todo) \in ToSet(cli.names)
  BY HeadOf DEF Gathering
<1>2. Domain \in DOMAIN RecordData
  BY <1>1, PlansAssumption DEF PlansAssumption, Course, Domain
<1> QED BY <1>1, <1>2, DnsAssumption DEF DnsAssumption, Data

LEMMA RecordsFound ==
  ASSUME pc = "dns", NEW kind, NEW list, list \in Seq(ToSet(list))
  PROVE  /\ OurFindings(Records(kind, list))
         /\ ToSet(Records(kind, list)) = {Record(kind, data) : data \in ToSet(list)}
<1> DEFINE found == Records(kind, list)
<1>1. DOMAIN list = 1..Len(list) /\ Len(list) \in Nat
  OBVIOUS
<1>2. ToSet(found) = {Record(kind, data) : data \in ToSet(list)}
  BY DEF Records, ToSet
<1>3. found \in [1..Len(list) -> ToSet(found)]
  BY <1>1 DEF Records, ToSet
<1>4. found \in Seq(ToSet(found))
  BY <1>1, <1>3
<1>5. \A data : Ours(Record(kind, data))
  BY DEF Record, Finding, Ours
<1> QED BY <1>2, <1>4, <1>5 DEF OurFindings

LEMMA AllNoted ==
  ASSUME NEW kind, NEW list, AllSeen(kind, list), pc = "dns"
  PROVE  Noted
<1> DEFINE new == {<<pc, <<Domain, data>>, kind>> : data \in ToSet(list)}
<1>1. seen' = seen \cup new
  BY DEF AllSeen
<1>2. \A e \in new : e[1] = pc /\ e[2][1] = Domain
  OBVIOUS
<1> QED BY <1>1, <1>2 DEF Noted

LEMMA DnsRecorded ==
  ASSUME DnsStep \/ DnsTransfer, Gathering
  PROVE  Recorded
<1>1. pc = "dns" /\ pc \in StageSet
  BY DnsProbed, StageNames
<1>2. CASE DnsResolve
  <2>1. CASE Conclude(<<>>) /\ UNCHANGED seen
    BY <2>1, NothingSeen, NoFinding, Concluded DEF Recorded
  <2>2. CASE /\ Continue("cname", [found |-> Records("a", Data("a")), nameservers |-> <<>>])
             /\ AllSeen("a", Data("a"))
    BY <1>1, <2>2, AllNoted, Continued DEF Recorded
  <2> QED BY <1>2, <2>1, <2>2 DEF DnsResolve
<1>3. ASSUME NEW kind \in ToSet(Lookups), DnsLookup(kind)
      PROVE  Recorded
  <2> DEFINE Locals(data) ==
               [found |-> local.found \o Records(kind, data),
                nameservers |-> IF kind = "ns" THEN data ELSE local.nameservers]
  <2>1. PICK data \in {<<>>, Data(kind)} :
          Continue(FollowedBy(kind), Locals(data)) /\ AllSeen(kind, data)
    BY <1>3 DEF DnsLookup
  <2> HIDE DEF Locals
  <2>2. FollowedBy(kind) \notin {"enter", "idle"}
    BY NextLookup, LookupNames
  <2> QED BY <1>1, <2>1, <2>2, AllNoted, Continued DEF Recorded
<1>4. CASE DnsAsk
  BY <1>4, NothingSeen DEF DnsAsk, Continue, Advanced, Recorded
<1>5. CASE DnsTransfer
  <2>1. UNCHANGED <<todo, findings>> /\ step' = "axfr"
    BY <1>5 DEF DnsTransfer, Continue
  <2>2. UNCHANGED seen \/ AllSeen("axfr", <<Head(local.nameservers)>>)
    BY <1>5 DEF DnsTransfer
  <2> QED BY <1>1, <2>1, <2>2, AllNoted, NothingSeen DEF Advanced, Recorded
<1>6. CASE DnsDone
  <2>1. OurFindings(local.found)
    BY <1>1, <1>6 DEF DnsDone, At, Under, Gathering
  <2> QED BY <1>6, <2>1, NothingSeen, Concluded DEF DnsDone, Recorded
<1> QED BY <1>2, <1>3, <1>4, <1>5, <1>6 DEF DnsStep

-----------------------------------------------------------------------------
\* What has arrived of a response is a list.
LEMMA ArrivedLists ==
  ASSUME NEW page \in Pages, NEW raw \in Arrivals(page)
  PROVE  raw \in Seq(ToSet(raw)) /\ Len(Split(raw).body) \in Nat
<1>1. \A E : \A s \in Seq(E) : \A n \in 0..Len(s) : SubSeq(s, 1, n) \in Seq(E)
  OBVIOUS
<1>2. \A E : \A s \in Seq(E) : s \in Seq(ToSet(s))
  <2> SUFFICES ASSUME NEW E, NEW s \in Seq(E) PROVE s \in Seq(ToSet(s))
    OBVIOUS
  <2> QED BY SeqWithin
<1>3. page \in Seq(ToSet(page)) /\ Len(page) \in Nat /\ DOMAIN page = 1..Len(page)
  BY HttpAssumption DEF HttpAssumption
<1>4. raw \in Seq(ToSet(raw))
  <2>1. CASE raw \in {SubSeq(page, 1, n) : n \in 0..Len(page)}
    BY <1>1, <1>2, <1>3, <2>1
  <2>2. CASE raw \notin {SubSeq(page, 1, n) : n \in 0..Len(page)}
    <3>1. PICK n \in DOMAIN page : raw = Append(SubSeq(page, 1, n - 1), Cut(page[n]))
      BY <2>2 DEF Arrivals
    <3> DEFINE E == ToSet(page) \cup {Cut(page[n])}
    <3>2. SubSeq(page, 1, n - 1) \in Seq(ToSet(page))
      <4>1. n - 1 \in 0..Len(page)
        BY <1>3
      <4> QED BY <1>1, <1>3, <4>1
    <3>3. SubSeq(page, 1, n - 1) \in Seq(E)
      <4>1. ToSet(page) \subseteq E
        OBVIOUS
      <4> HIDE DEF E
      <4> QED BY <3>2, <4>1, SeqOfMore
    <3>4. Cut(page[n]) \in E
      OBVIOUS
    <3> HIDE DEF E
    <3>5. raw \in Seq(E)
      BY <3>1, <3>3, <3>4
    <3> QED BY <1>2, <3>5
  <2> QED BY <2>1, <2>2
<1>5. Len(Split(raw).body) \in Nat
  <2>1. CASE Positions(raw, EmptyLine) = {}
    BY <2>1 DEF Split
  <2>2. CASE Positions(raw, EmptyLine) # {}
    <3> DEFINE P == Positions(raw, EmptyLine)
    <3>1. P \subseteq 1..Len(raw) /\ Len(raw) \in Nat
      BY <1>4 DEF Positions
    <3>2. \E m \in P : \A k \in P : m <= k
      <4>1. P \in SUBSET Nat /\ P # {}
        BY <2>2, <3>1
      <4> HIDE DEF P
      <4> QED BY <4>1, LeastNumber
    <3>3. Min(P) \in P
      <4> HIDE DEF P
      <4> QED BY <3>2 DEF Min
    <3> DEFINE i == Min(P)
    <3>4. Split(raw).body = SubSeq(raw, i + 1, Len(raw))
      BY <2>2 DEF Split
    <3>5. i \in 1..Len(raw)
      BY <3>1, <3>3
    <3> HIDE DEF i, P
    <3>6. \A E : \A s \in Seq(E) : \A k \in 1..Len(s) : Len(SubSeq(s, k + 1, Len(s))) \in Nat
      OBVIOUS
    <3> QED BY <1>4, <3>4, <3>5, <3>6
  <2> QED BY <2>1, <2>2
<1> QED BY <1>4, <1>5

\* There are finitely many candidates for a title.
LEMMA TitlesFinite ==
  ASSUME NEW body, Len(body) \in Nat
  PROVE  IsFiniteSet(Titles(body))
<1>1. \A from, to : IsFiniteSet(Slice(body, from, to))
  <2> TAKE from, to
  <2> DEFINE B == 0..Len(body)
             S == B \X B
             f == [b \in S |-> SubSeq(body, b[1] + 1, b[2])]
             T == {f[b] : b \in S}
  <2>1. IsFiniteSet(B)
    BY FS_Interval
  <2>2. IsFiniteSet(S)
    <3> HIDE DEF B
    <3> QED BY <2>1, FS_Product
  <2>3. f \in Surjection(S, T)
    BY DEF Surjection
  <2>4. IsFiniteSet(T)
    <3> HIDE DEF S, T, f
    <3> QED BY <2>2, <2>3, FS_Surjection
  <2>5. \A m, n \in B : SubSeq(body, m + 1, n) \in T
    <3> TAKE m, n \in B
    <3>1. <<m, n>> \in S /\ f[<<m, n>>] = SubSeq(body, m + 1, n)
      OBVIOUS
    <3> HIDE DEF f, S
    <3> QED BY <3>1
  <2>6. Slice(body, from, to) \subseteq T
    <3> HIDE DEF T
    <3> SUFFICES ASSUME NEW t \in Slice(body, from, to) PROVE t \in T
      OBVIOUS
    <3> DEFINE Chosen(m, n) == SubSeq(body, m + 1, n)
               Boundary(offset) == {n \in B : Offset(body, n) = offset}
    <3>1. Slice(body, from, to) =
            {Chosen(m, n) : m \in Boundary(from), n \in Boundary(to)}
      BY DEF Slice
    <3>2. Boundary(from) \subseteq B /\ Boundary(to) \subseteq B
      OBVIOUS
    <3>3. \A m, n \in B : Chosen(m, n) \in T
      BY <2>5
    <3> HIDE DEF Boundary, B, Chosen
    <3> QED BY <3>1, <3>2, <3>3
  <2> HIDE DEF T
  <2> QED BY <2>4, <2>6, FS_Subset
<1>2. IsFiniteSet({})
  BY FS_EmptySet
<1>3. \A from, to : IsFiniteSet(Slice(body, from, to) \ {<<>>})
  <2> TAKE from, to
  <2>1. IsFiniteSet(Slice(body, from, to))
    BY <1>1
  <2> QED BY <2>1, FS_Subset
<1> QED BY <1>2, <1>3 DEF Titles

LEMMA FlattenedFindings ==
  ASSUME NEW lists, lists \in Seq(ToSet(lists)), \A l \in ToSet(lists) : OurFindings(l)
  PROVE  OurFindings(FlattenSeq(lists))
<1> DEFINE E == UNION {ToSet(l) : l \in ToSet(lists)}
<1>1. \A l \in ToSet(lists) : l \in Seq(E)
  <2> TAKE l \in ToSet(lists)
  <2>1. l \in Seq(ToSet(l)) /\ ToSet(l) \subseteq E
    BY DEF OurFindings
  <2> HIDE DEF E
  <2> QED BY <2>1, SeqOfMore
<1>2. \A f \in E : Ours(f)
  BY DEF OurFindings
<1> HIDE DEF E
<1>3. lists \in Seq(Seq(E))
  <2>1. ToSet(lists) \subseteq Seq(E)
    BY <1>1
  <2> QED BY <2>1, SeqOfMore
<1>4. FlattenSeq(lists) \in Seq(E)
  BY <1>3, FlattenElements
<1>5. FlattenSeq(lists) \in Seq(ToSet(FlattenSeq(lists))) /\ ToSet(FlattenSeq(lists)) \subseteq E
  <2> DEFINE t == FlattenSeq(lists)
  <2> HIDE DEF t
  <2>1. t \in Seq(E)
    BY <1>4 DEF t
  <2>2. t \in Seq(ToSet(t)) /\ ToSet(t) \subseteq E
    <3>1. ToSet(t) \subseteq E
      BY <2>1 DEF ToSet
    <3> QED BY <2>1, <3>1, SeqWithin
  <2> QED BY <2>2 DEF t
<1> QED BY <1>2, <1>5 DEF OurFindings

LEMMA PageFindings ==
  ASSUME NEW page \in Pages, NEW raw \in Arrivals(page), pc = "http"
  PROVE  OurFindings(HttpFindings(raw))
<1> DEFINE headers == Headers(Split(raw).head)
           Header(name) ==
             IF name \in DOMAIN headers THEN HttpFinding(name, headers[name]) ELSE <<>>
           ofHeaders == [i \in DOMAIN TECH_HEADERS |-> Header(TECH_HEADERS[i])]
           titles == {HttpFinding("title", t) : t \in Titles(Split(raw).body)}
<1>1. \A kind, evidence : OurFindings(HttpFinding(kind, evidence))
  BY MadeHere DEF HttpFinding
<1>2. \A name : OurFindings(Header(name))
  BY <1>1, NoFinding
<1>3. ofHeaders \in Seq(ToSet(ofHeaders)) /\ \A l \in ToSet(ofHeaders) : OurFindings(l)
  <2>1. DOMAIN TECH_HEADERS = 1..2
    BY DEF TECH_HEADERS
  <2> HIDE DEF Header
  <2>2. ofHeaders \in [1..2 -> ToSet(ofHeaders)]
    BY <2>1 DEF ToSet
  <2>3. \A l \in ToSet(ofHeaders) : OurFindings(l)
    BY <1>2 DEF ToSet
  <2> QED BY <2>2, <2>3
<1>4. IsFiniteSet(titles)
  <2> DEFINE S == Titles(Split(raw).body)
             f == [t \in S |-> HttpFinding("title", t)]
  <2>1. IsFiniteSet(S)
    BY ArrivedLists, TitlesFinite
  <2>2. f \in Surjection(S, titles)
    BY DEF Surjection
  <2> HIDE DEF S, f, titles
  <2> QED BY <2>1, <2>2, FS_Surjection
<1>5. \A l \in titles : OurFindings(l)
  BY <1>1
<1> HIDE DEF titles, ofHeaders
<1>6. SetToSeq(titles) \in Seq(ToSet(SetToSeq(titles)))
      /\ \A l \in ToSet(SetToSeq(titles)) : OurFindings(l)
  BY <1>4, <1>5, SetToSeqElements
<1>7. OurFindings(FlattenSeq(ofHeaders)) /\ OurFindings(FlattenSeq(SetToSeq(titles)))
  BY <1>3, <1>6, FlattenedFindings
<1>8. OurFindings(FlattenSeq(ofHeaders) \o FlattenSeq(SetToSeq(titles)))
  BY <1>7, JoinedFindings
<1>9. HttpFindings(raw) \in {<<>>, FlattenSeq(ofHeaders) \o FlattenSeq(SetToSeq(titles))}
  BY DEF HttpFindings, ofHeaders, titles
<1> QED BY <1>8, <1>9, NoFinding

LEMMA HttpRecorded ==
  ASSUME HttpStep
  PROVE  Recorded
<1>1. pc = "http"
  BY HttpProbed
<1>2. CASE HttpConnect
  BY <1>2, NothingSeen, NoFinding, Concluded, Continued DEF HttpConnect, Recorded
<1>3. CASE HttpRead
  <2>1. PICK page \in Pages : \E raw \in Arrivals(page) :
          Conclude(HttpFindings(raw)) /\ Saw(Here, {raw})
    BY <1>3 DEF HttpRead
  <2>2. PICK raw \in Arrivals(page) : Conclude(HttpFindings(raw)) /\ Saw(Here, {raw})
    BY <2>1
  <2> QED BY <1>1, <2>2, SeenByUs, PageFindings, Concluded DEF Recorded
<1> QED BY <1>2, <1>3 DEF HttpStep

-----------------------------------------------------------------------------
\* A stage that is still to come.
Ahead(stage) ==
  pc \in StageSet /\ (Turn(pc) < Turn(stage) \/ (pc = stage /\ step = "enter"))

\* Before the stages nothing is on record, and of a stage to come nothing is.
Ledger ==
  /\ findings \in Seq(ToSet(findings))
  /\ pc \notin StageSet \cup {"save", "write"} \cup Ends => seen = {} /\ findings = <<>>
  /\ \A stage \in StageSet : Ahead(stage) =>
       /\ \A e \in seen : e[1] # stage
       /\ \A f \in ToSet(findings) : f.id[1] # stage

\* A step that is not one of a probe.
Calm ==
  /\ UNCHANGED <<seen, findings>>
  /\ (UNCHANGED <<summary, cli>>) \/ (seen = {} /\ findings = <<>>)
  /\ \A stage \in StageSet : \A p : DoneWith(stage, p)' => DoneWith(stage, p)
  /\ Under' => UNCHANGED <<pc, step, todo, local>>

Probes ==
  DnsStep \/ DnsTransfer \/ HttpStep \/ TlsStep \/ FtpStep \/ SnmpStep \/ SmbStep

LEMMA ProbesRecord ==
  ASSUME Probes, Gathering
  PROVE  Probed /\ Recorded /\ cli' = cli /\ pc' = pc /\ summary' = summary
<1>1. Probed
  BY DnsProbed, HttpProbed, TlsProbed, FtpProbed, SnmpProbed, SmbProbed DEF Probes
<1>2. Recorded
  BY DnsRecorded, HttpRecorded, TlsRecorded, FtpRecorded, SnmpRecorded, SmbRecorded DEF Probes
<1> QED BY <1>1, <1>2 DEF Probed

LEMMA NotInStage ==
  ASSUME pc \notin StageSet \cup {"killed"}
  PROVE  \A stage \in StageSet : \A p : DoneWith(stage, p)
BY DEF DoneWith

LEMMA CalmOrProbe ==
  ASSUME Course, Probing, Ledger, [Next]_vars
  PROVE  Calm \/ Probes
<1>1. CASE Enumerate \/ AwaitTransfer
  <2>1. CASE Probes
    BY <2>1
  <2>2. CASE EnterStage \/ LeaveStage
    <3>1. UNCHANGED <<seen, findings, summary, cli>> /\ pc \in StageSet /\ todo = <<>>
      BY <2>2, StageNames DEF EnterStage, LeaveStage, Probing
    <3>2. step' \in {"enter", "idle"}
      BY <2>2 DEF EnterStage, LeaveStage
    <3>3. \A stage \in StageSet : \A p : DoneWith(stage, p)
      BY <3>1 DEF DoneWith
    <3> QED BY <3>1, <3>2, <3>3 DEF Calm, Under
  <2> QED BY <1>1, <2>1, <2>2 DEF Enumerate, AwaitTransfer, Probes
<1>2. CASE Kill
  <2>1. UNCHANGED <<seen, findings, summary, cli, todo>> /\ pc' = "killed" /\ pc # "killed"
    BY <1>2 DEF Kill, Idle
  <2>2. \A stage \in StageSet : \A p : DoneWith(stage, p)' => DoneWith(stage, p)
    BY <2>1 DEF DoneWith
  <2>3. ~Under'
    BY <2>1, StageNames DEF Under
  <2> QED BY <2>1, <2>2, <2>3 DEF Calm
<1>3. CASE Ended \/ UNCHANGED vars
  <2>1. UNCHANGED <<seen, findings, summary, cli, todo, pc, step, local>>
    BY <1>3 DEF Ended, vars, enumVars
  <2> QED BY <2>1 DEF Calm, DoneWith
<1>4. CASE Authorize \/ BuildPolicy \/ LoadProfile \/ ResolveTargets \/ ApplyScope \/ ParsePortList
           \/ SkipDiscovery \/ Discover \/ Scan \/ GrabBanners \/ SkipPlugins \/ RunPlugins
           \/ SkipNmap \/ RunNmap
  <2>1. UNCHANGED <<seen, findings, step>> /\ pc \notin StageSet \cup {"save", "write"} \cup Ends
    BY <1>4, StageNames
       DEF Authorize, BuildPolicy, LoadProfile, ResolveTargets, ApplyScope, ParsePortList,
           SkipDiscovery, Discover, Scan, GrabBanners, SkipPlugins, RunPlugins, SkipNmap, RunNmap,
           Idle, Ends
  <2>2. seen = {} /\ findings = <<>> /\ step = "enter"
    BY <2>1 DEF Ledger, Probing, Ends
  <2> QED BY <2>1, <2>2, NotInStage DEF Calm, Under, Ends
<1>5. CASE Save \/ WriteReport
  <2>1. UNCHANGED <<seen, findings, summary, cli, step>> /\ pc \in {"save", "write"}
    BY <1>5 DEF Save, WriteReport, Idle
  <2>2. pc \notin StageSet \cup {"killed"} /\ step = "enter"
    BY <2>1, StageNames DEF Probing
  <2> QED BY <2>1, <2>2, NotInStage DEF Calm, Under
<1> QED BY <1>1, <1>2, <1>3, <1>4, <1>5 DEF Next, Bounded

\* A step that leaves a stage's record of a place as it is.
Still(stage, p) ==
  /\ \A fact : Happened(stage, p, fact)' <=> Happened(stage, p, fact)
  /\ \A kind : Found(stage, kind, p)' = Found(stage, kind, p)
  /\ DoneWith(stage, p)' => DoneWith(stage, p)

\* Of what was recorded elsewhere a step of a probe changes nothing.
LEMMA Elsewhere ==
  ASSUME Ledger, Probing, Probed, Recorded,
         NEW stage \in StageSet, NEW p, stage # pc \/ (pc # "dns" /\ p # Here)
  PROVE  Still(stage, p)
<1>1. PICK noted : /\ seen' = seen \cup noted
                   /\ \A e \in noted : e[1] = pc /\ IF pc = "dns" THEN e[2][1] = Domain ELSE e[2] = Here
  BY DEF Recorded, Noted
<1>2. \A fact : <<stage, p, fact>> \notin noted
  <2> TAKE fact
  <2>1. <<stage, p, fact>>[1] = stage /\ <<stage, p, fact>>[2] = p
    OBVIOUS
  <2> QED BY <1>1, <2>1
<1>3. \A fact : Happened(stage, p, fact)' <=> Happened(stage, p, fact)
  BY <1>1, <1>2 DEF Happened
<1>4. \A f : Ours(f) => \A kind : f.id # <<stage, kind, p>>
  BY DEF Ours
<1>5. \A kind : Found(stage, kind, p)' = Found(stage, kind, p)
  <2>1. CASE findings' = findings
    BY <2>1 DEF Found
  <2>2. CASE findings' # findings
    <3>1. PICK new : OurFindings(new) /\ findings' = findings \o new
      BY <2>2 DEF Recorded, Advanced
    <3>2. ToSet(findings') = ToSet(findings) \cup ToSet(new)
      BY <3>1, JoinedElements DEF Ledger, OurFindings
    <3>3. \A f \in ToSet(new) : \A kind : f.id # <<stage, kind, p>>
      BY <1>4, <3>1 DEF OurFindings
    <3> QED BY <3>2, <3>3 DEF Found
  <2> QED BY <2>1, <2>2
<1>6. DoneWith(stage, p)' => DoneWith(stage, p)
  <2>1. pc' = pc /\ pc \in StageSet /\ pc # "killed"
    BY StageNames DEF Probed
  <2>2. CASE stage # pc
    BY <2>1, <2>2 DEF DoneWith
  <2>3. CASE stage = pc
    <3>1. p # Place(Head(todo)) /\ pc # "dns"
      BY <2>3 DEF Here
    <3>2. todo' = todo \/ (todo' = Tail(todo) /\ todo # <<>> /\ todo \in Seq(ToSet(summary)))
      BY <2>1, <3>1 DEF Probed, Probing
    <3>3. CASE todo' = todo
      BY <2>1, <3>3 DEF DoneWith
    <3>4. CASE todo' = Tail(todo) /\ todo # <<>> /\ todo \in Seq(ToSet(summary))
      <4>1. \A i \in DOMAIN todo : Place(todo[i]) = p =>
              i - 1 \in DOMAIN todo' /\ todo'[i - 1] = todo[i]
        BY <3>1, <3>4, RestOf
      <4> QED BY <2>1, <2>3, <4>1 DEF DoneWith, Place
    <3> QED BY <3>2, <3>3, <3>4
  <2> QED BY <2>2, <2>3
<1> QED BY <1>3, <1>5, <1>6 DEF Still

LEMMA Calmly ==
  ASSUME Calm, NEW stage \in StageSet, NEW p
  PROVE  Still(stage, p)
BY DEF Calm, Happened, Found, Still


\* The findings of a list that have an id.
Of(list, id) == {f \in ToSet(list) : f.id = id}

\* What a probe reports is, when it is over, added to what there is of its place.
LEMMA FoundHere ==
  ASSUME Ledger, NEW stage, NEW p, NEW new, OurFindings(new), findings' = findings \o new
  PROVE  \A kind : Found(stage, kind, p)' = Found(stage, kind, p) \cup Of(new, <<stage, kind, p>>)
<1>1. ToSet(findings') = ToSet(findings) \cup ToSet(new)
  BY JoinedElements DEF Ledger, OurFindings
<1> QED BY <1>1 DEF Found, Of

\* What a step saw is all that is new of its place.
LEMMA SeenHere ==
  ASSUME NEW stage, stage = pc, NEW p, NEW facts, Saw(p, facts)
  PROVE  \A fact : Happened(stage, p, fact)' <=> Happened(stage, p, fact) \/ fact \in facts
BY DEF Saw, Happened

-----------------------------------------------------------------------------
\* A step that is not one of a probe, by what it does to the course of the stages.
Between ==
  /\ cli' = cli
  /\ \/ /\ pc \notin StageSet \cup {"save", "write"} \cup Ends
        /\ step = "enter" /\ step' = "enter" /\ todo = <<>> /\ todo' = <<>>
        /\ pc' \notin StageSet \ {"dns"}
     \/ /\ pc \in StageSet /\ step = "enter"
        /\ pc' = pc /\ step' = "idle" /\ todo' = Worklist(pc) /\ summary' = summary
     \/ pc \in StageSet /\ pc' = After(pc) /\ step' = "enter" /\ todo = <<>> /\ todo' = <<>>
     \/ pc \in {"save", "write"} \cup StageSet /\ pc' \in {"write"} \cup Ends
     \/ pc' \in Ends
     \/ UNCHANGED <<pc, step, todo, local, summary>>

LEMMA BetweenProbes ==
  ASSUME Course, Probing, [Next]_vars, ~Probes
  PROVE  Between
<1>1. CASE Enumerate \/ AwaitTransfer
  <2>1. EnterStage \/ LeaveStage
    BY <1>1 DEF Enumerate, AwaitTransfer, Probes
  <2>2. pc \in StageSet /\ pc # "killed"
    BY <2>1, StageNames DEF EnterStage, LeaveStage
  <2>3. CASE EnterStage
    BY <2>2, <2>3 DEF EnterStage, Probing, Between
  <2>4. CASE LeaveStage
    BY <2>2, <2>4 DEF LeaveStage, Between
  <2> QED BY <2>1, <2>3, <2>4
<1>2. CASE Kill
  BY <1>2 DEF Kill, Between, Ends, Idle
<1>3. CASE Ended \/ UNCHANGED vars
  BY <1>3 DEF Ended, vars, enumVars, Between
<1>4. CASE Authorize \/ BuildPolicy \/ LoadProfile \/ ResolveTargets \/ ApplyScope \/ ParsePortList
           \/ SkipDiscovery \/ Discover \/ Scan \/ GrabBanners \/ SkipPlugins \/ RunPlugins
           \/ SkipNmap \/ RunNmap
  <2>1. /\ UNCHANGED <<cli, step, todo>> /\ pc \notin StageSet \cup {"save", "write"} \cup Ends
        /\ pc' \notin StageSet \ {"dns"}
    BY <1>4, StageNames
       DEF Authorize, BuildPolicy, LoadProfile, ResolveTargets, ApplyScope, ParsePortList,
           SkipDiscovery, Discover, Scan, GrabBanners, SkipPlugins, RunPlugins, SkipNmap, RunNmap,
           Idle, Ends, GoTo, Leave, Stages
  <2> QED BY <2>1 DEF Between, Probing, Ends
<1>5. CASE Save \/ WriteReport
  <2>1. pc \in {"save", "write"} /\ pc' \in {"write"} \cup Ends /\ cli' = cli
    BY <1>5 DEF Save, WriteReport, GoTo, Leave, Ends, Idle
  <2> QED BY <2>1 DEF Between
<1> QED BY <1>1, <1>2, <1>3, <1>4, <1>5 DEF Next, Bounded

LEMMA LedgerCalm ==
  ASSUME Course, Probing, Ledger, [Next]_vars, ~Probes
  PROVE  Ledger'
<1>1. Calm /\ Between
  BY CalmOrProbe, BetweenProbes
<1>2. seen' = seen /\ findings' = findings
  BY <1>1 DEF Calm
<1>3. findings' \in Seq(ToSet(findings'))
  BY <1>2 DEF Ledger
<1> USE DEF Ends
<1>4. CASE /\ pc \notin StageSet \cup {"save", "write"} \cup Ends
           /\ step = "enter" /\ step' = "enter" /\ todo = <<>> /\ todo' = <<>>
           /\ pc' \notin StageSet \ {"dns"}
  <2>1. seen' = {} /\ findings' = <<>>
    BY <1>2, <1>4 DEF Ledger
  <2>2. \A f \in ToSet(findings') : FALSE
    BY <2>1 DEF ToSet
  <2> QED BY <1>3, <2>1, <2>2 DEF Ledger
<1>5. CASE pc \in StageSet /\ step = "enter" /\ pc' = pc /\ step' = "idle" /\ todo' = Worklist(pc)
  <2>1. \A stage \in StageSet : Ahead(stage)' => Ahead(stage)
    BY <1>5 DEF Ahead
  <2> QED BY <1>2, <1>3, <1>5, <2>1 DEF Ledger
<1>6. CASE pc \in StageSet /\ pc' = After(pc) /\ step' = "enter" /\ todo = <<>> /\ todo' = <<>>
  <2>1. \A stage \in StageSet : Ahead(stage)' => Ahead(stage)
    <3> SUFFICES ASSUME NEW stage \in StageSet, Ahead(stage)' PROVE Ahead(stage)
      OBVIOUS
    <3>1. After(pc) \in StageSet
      BY <1>6 DEF Ahead
    <3>2. Turn(After(pc)) = Turn(pc) + 1 /\ Turn(pc) \in Int /\ Turn(stage) \in Int
      BY <1>6, <3>1, Turns
    <3>3. Turn(pc)' = Turn(After(pc))
      BY <1>6 DEF Turn
    <3>4. Turn(After(pc)) < Turn(stage) \/ After(pc) = stage
      BY <1>6, <3>3 DEF Ahead, Turn
    <3>5. Turn(pc) < Turn(stage)
      BY <3>2, <3>4
    <3> QED BY <1>6, <3>5 DEF Ahead
  <2>2. pc' \in StageSet \cup {"save"}
    BY <1>6, NextStage
  <2> QED BY <1>2, <1>3, <1>6, <2>1, <2>2 DEF Ledger
<1>7. CASE pc \in {"save", "write"} \cup StageSet /\ pc' \in {"write"} \cup Ends
  <2>1. pc' \notin StageSet /\ pc' \in {"save", "write"} \cup Ends
    BY <1>7, StageNames
  <2> QED BY <1>3, <2>1 DEF Ledger, Ahead
<1>8. CASE pc' \in Ends
  <2>1. pc' \notin StageSet /\ pc' \in {"save", "write"} \cup Ends
    BY <1>8, StageNames
  <2> QED BY <1>3, <2>1 DEF Ledger, Ahead
<1>9. CASE UNCHANGED <<pc, step, todo, local>>
  <2>1. UNCHANGED <<pc, step, todo, seen, findings>>
    BY <1>2, <1>9
  <2>2. \A stage : Ahead(stage)' <=> Ahead(stage)
    BY <2>1 DEF Ahead
  <2> QED BY <1>3, <2>1, <2>2 DEF Ledger
<1> QED BY <1>1, <1>4, <1>5, <1>6, <1>7, <1>8, <1>9 DEF Between

LEMMA LedgerProbe ==
  ASSUME Ledger, Gathering, Probes
  PROVE  Ledger'
<1>1. Probed /\ Recorded /\ UNCHANGED <<cli, pc, summary>> /\ pc \in StageSet /\ step' # "enter"
  BY ProbesRecord DEF Probed
<1>2. PICK noted : /\ seen' = seen \cup noted
                   /\ \A e \in noted : e[1] = pc /\ IF pc = "dns" THEN e[2][1] = Domain ELSE e[2] = Here
  BY <1>1 DEF Recorded, Noted
<1>3. \E new : OurFindings(new) /\ findings' \in {findings, findings \o new}
  BY <1>1, NoFinding DEF Recorded, Advanced
<1>4. PICK new : OurFindings(new) /\ findings' \in {findings, findings \o new}
  BY <1>3
<1>5. /\ findings' \in Seq(ToSet(findings'))
      /\ ToSet(findings') \subseteq ToSet(findings) \cup ToSet(new)
  BY <1>4, JoinedElements DEF Ledger, OurFindings
<1>6. \A stage \in StageSet : Ahead(stage)' =>
        /\ \A e \in seen' : e[1] # stage
        /\ \A f \in ToSet(findings') : f.id[1] # stage
  <2> SUFFICES ASSUME NEW stage \in StageSet, Ahead(stage)'
               PROVE  /\ \A e \in seen' : e[1] # stage
                      /\ \A f \in ToSet(findings') : f.id[1] # stage
    OBVIOUS
  <2>1. Turn(pc) < Turn(stage) /\ Turn(pc) \in Int /\ Turn(stage) \in Int
    <3>1. Turn(pc)' = Turn(pc)
      BY <1>1 DEF Turn
    <3>2. Turn(pc)' < Turn(stage) \/ (pc' = stage /\ step' = "enter")
      BY DEF Ahead, Turn
    <3> QED BY <1>1, <3>1, <3>2, Turns
  <2>2. stage # pc
    BY <2>1
  <2>3. Ahead(stage)
    BY <1>1, <2>1 DEF Ahead
  <2>4. \A f \in ToSet(new) : f.id[1] = pc
    BY <1>4 DEF OurFindings, Ours
  <2> QED BY <1>2, <1>5, <2>2, <2>3, <2>4 DEF Ledger
<1> QED BY <1>1, <1>5, <1>6 DEF Ledger

LEMMA LedgerStep ==
  ASSUME Course, Probing, Ledger, Gathering, [Next]_vars
  PROVE  Ledger'
BY LedgerCalm, LedgerProbe

LEMMA DnsGathers ==
  ASSUME DnsStep \/ DnsTransfer, Course, Gathering, todo # <<>>
  PROVE  step' # "idle" =>
           /\ OurFindings(local'.found)
           /\ local' \in [found : {local'.found}, nameservers : Seq(ToSet(local'.nameservers))]
           /\ step' = "transfer" => local'.nameservers # <<>>
<1>1. pc = "dns" /\ pc \in StageSet
  BY DnsProbed, StageNames
<1> DEFINE Good(l) == /\ OurFindings(l.found)
                      /\ l \in [found : {l.found}, nameservers : Seq(ToSet(l.nameservers))]
<1>2. \A found, ns : OurFindings(found) /\ ns \in Seq(ToSet(ns)) =>
        Good([found |-> found, nameservers |-> ns])
  OBVIOUS
<1>3. <<>> \in Seq(ToSet(<<>>))
  OBVIOUS
<1>4. \A kind \in ToSet(Lookups) \cup {"a"} : Data(kind) \in Seq(ToSet(Data(kind)))
  BY <1>1, DataLists
<1>5. \A E : \A s \in Seq(E) : s # <<>> => Tail(s) \in Seq(ToSet(Tail(s)))
  <2> SUFFICES ASSUME NEW E, NEW s \in Seq(E), s # <<>> PROVE Tail(s) \in Seq(ToSet(Tail(s)))
    OBVIOUS
  <2>1. Tail(s) \in Seq(E)
    OBVIOUS
  <2> DEFINE t == Tail(s)
  <2> HIDE DEF t
  <2>2. t \in Seq(ToSet(t))
    BY <2>1, SeqWithin DEF t
  <2> QED BY <2>2 DEF t
<1>6. step # "idle" => Good(local)
  <2>1. step # "enter"
    BY DnsProbed DEF Probed
  <2> QED BY <1>1, <2>1 DEF Gathering, Under
<1>7. CASE DnsResolve
  <2>1. CASE Conclude(<<>>)
    BY <2>1 DEF Conclude
  <2>2. CASE Continue("cname", [found |-> Records("a", Data("a")), nameservers |-> <<>>])
    <3>1. Good([found |-> Records("a", Data("a")), nameservers |-> <<>>])
      BY <1>1, <1>2, <1>3, <1>4, RecordsFound
    <3> HIDE DEF Good
    <3>2. Good(local')
      BY <2>2, <3>1 DEF Continue
    <3> QED BY <2>2, <3>2 DEF Good, Continue
  <2> QED BY <1>7, <2>1, <2>2 DEF DnsResolve
<1>8. ASSUME NEW kind \in ToSet(Lookups), DnsLookup(kind)
      PROVE  Good(local') /\ step' # "transfer"
  <2> DEFINE Found1(data) == local.found \o Records(kind, data)
             Servers(data) == IF kind = "ns" THEN data ELSE local.nameservers
             Locals(data) == [found |-> Found1(data), nameservers |-> Servers(data)]
  <2>1. PICK data \in {<<>>, Data(kind)} : Continue(FollowedBy(kind), Locals(data))
    BY <1>8 DEF DnsLookup
  <2>2. step = kind /\ step # "idle"
    BY <1>8, LookupNames DEF DnsLookup, At
  <2>3. data \in Seq(ToSet(data))
    BY <1>3, <1>4, <2>1
  <2>4. OurFindings(Found1(data))
    BY <1>1, <1>6, <2>2, <2>3, RecordsFound, JoinedFindings
  <2>5. local.nameservers \in Seq(ToSet(local.nameservers))
    BY <1>6, <2>2
  <2>6. Servers(data) \in Seq(ToSet(Servers(data)))
    BY <2>3, <2>5
  <2> HIDE DEF Found1, Servers
  <2>7. Good(Locals(data))
    BY <1>2, <2>4, <2>6
  <2> HIDE DEF Good
  <2>8. FollowedBy(kind) # "transfer"
    BY NextLookup, LookupNames
  <2> QED BY <2>1, <2>7, <2>8 DEF Continue
<1>9. CASE DnsAsk
  <2>1. step = "axfr" /\ local.nameservers # <<>> /\ Good(local)
    BY <1>6, <1>9 DEF DnsAsk, At
  <2> DEFINE rest == Tail(local.nameservers)
  <2>2. rest \in Seq(ToSet(rest))
    BY <1>5, <2>1
  <2> HIDE DEF rest
  <2>3. Good([found |-> local.found, nameservers |-> rest])
    BY <1>2, <2>1, <2>2
  <2>4. [local EXCEPT !.nameservers = rest] = [found |-> local.found, nameservers |-> rest]
    BY <2>1
  <2> HIDE DEF Good
  <2>5. local' = local \/ local' = [local EXCEPT !.nameservers = rest]
    BY <1>9 DEF DnsAsk, Continue, rest
  <2>6. Good(local')
    BY <2>1, <2>3, <2>4, <2>5
  <2>7. step' = "transfer" => local' = local
    BY <1>9 DEF DnsAsk, Continue
  <2> QED BY <2>1, <2>6, <2>7 DEF Good
<1>10. CASE DnsTransfer
  <2>1. step = "transfer" /\ Good(local) /\ local.nameservers # <<>>
    BY <1>1, <1>6, <1>10, StageNames DEF DnsTransfer, At, Gathering, Under
  <2> DEFINE ns == Head(local.nameservers)
             rest == Tail(local.nameservers)
             given == Finding("axfr", <<Domain, ns>>, "High", ns)
             kept == [local EXCEPT !.nameservers = rest]
             more == [nameservers |-> rest, found |-> Append(local.found, given)]
  <2>2. rest \in Seq(ToSet(rest))
    BY <1>5, <2>1
  <2>3. Ours(given)
    BY <1>1 DEF Finding, Ours
  <2>4. step' = "axfr" /\ local' \in {kept, more}
    BY <1>10 DEF DnsTransfer, Continue
  <2> HIDE DEF ns, rest, given
  <2>5. kept = [found |-> local.found, nameservers |-> rest]
    BY <2>1
  <2>6. Append(local.found, given) = local.found \o <<given>>
    BY <2>1 DEF OurFindings
  <2>7. OurFindings(Append(local.found, given))
    BY <2>1, <2>3, <2>6, OneFinding, JoinedFindings
  <2>8. Good([found |-> local.found, nameservers |-> rest])
        /\ Good([found |-> Append(local.found, given), nameservers |-> rest])
    BY <1>2, <2>1, <2>2, <2>7
  <2>9. more = [found |-> Append(local.found, given), nameservers |-> rest]
    OBVIOUS
  <2> HIDE DEF kept, more, Good
  <2>10. Good(local')
    BY <2>4, <2>5, <2>8, <2>9
  <2> QED BY <2>4, <2>10 DEF Good
<1>11. CASE DnsDone
  BY <1>11 DEF DnsDone, Conclude
<1> QED BY <1>7, <1>8, <1>9, <1>10, <1>11 DEF DnsStep

LEMMA SmbGathers ==
  ASSUME SmbStep, Gathering
  PROVE  step' # "idle" => OurFindings(local'.found)
<1>1. pc = "smb" /\ pc \in StageSet
  BY SmbProbed, StageNames
<1>2. \A kind, severity : OurFindings(SmbFinding(kind, severity))
  BY <1>1, MadeHere DEF SmbFinding
<1>3. \A a, b : OurFindings(a) /\ OurFindings(b) => OurFindings(a \o b)
  BY JoinedFindings
<1>4. \A r : OurFindings(Negotiated(r)) /\ OurFindings(Legacy(r))
  <2> TAKE r
  <2>1. OurFindings(Legacy(r))
    BY <1>2, NoFinding DEF Legacy
  <2>2. \A severity : OurFindings(SmbFinding("dialect", "Info") \o SmbFinding("signing", severity))
    BY <1>2, <1>3
  <2> QED BY <2>1, <2>2, NoFinding DEF Negotiated
<1>5. step # "idle" => OurFindings(local.found)
  <2>1. step # "enter"
    BY SmbProbed DEF Probed
  <2> QED BY <1>1, <2>1 DEF Gathering, Under
<1>6. CASE SmbNegotiate
  <2>1. PICK found : OurFindings(found) /\ local' = [found |-> found]
    BY <1>4, <1>6, NoFinding DEF SmbNegotiate, Continue
  <2> QED BY <2>1
<1>7. CASE SmbLegacy
  <2>1. OurFindings(local.found)
    BY <1>5, <1>7 DEF SmbLegacy, At
  <2>2. CASE local' = local
    BY <2>1, <2>2
  <2>3. CASE local' # local
    <3>1. PICK r : local' = [found |-> local.found \o Legacy(r)]
      BY <1>7, <2>3 DEF SmbLegacy, Continue
    <3> DEFINE found == local.found \o Legacy(r)
    <3>2. OurFindings(found)
      BY <1>3, <1>4, <2>1
    <3> HIDE DEF found
    <3>3. local'.found = found
      BY <3>1 DEF found
    <3> QED BY <3>2, <3>3
  <2> QED BY <2>2, <2>3
<1>8. CASE SmbSession
  <2> DEFINE found == local.found \o SmbFinding("null_session", "High")
  <2>1. OurFindings(found)
    BY <1>2, <1>3, <1>5, <1>8 DEF SmbSession, At
  <2>2. step' = "idle" \/ local' = [found |-> found]
    BY <1>8 DEF SmbSession, Continue, Conclude
  <2> HIDE DEF found
  <2> QED BY <2>1, <2>2
<1>9. CASE SmbShares
  BY <1>9 DEF SmbShares, Conclude
<1> QED BY <1>6, <1>7, <1>8, <1>9 DEF SmbStep

LEMMA SnmpGathers ==
  ASSUME SnmpStep, Gathering
  PROVE  step' # "idle" => OurFindings(local'.found)
<1>1. pc = "snmp" /\ pc \in StageSet
  BY SnmpProbed, StageNames
<1>2. \A kind, severity, evidence : OurFindings(SnmpFinding(kind, severity, evidence))
  BY <1>1, MadeHere DEF SnmpFinding
<1>3. \A a, b : OurFindings(a) /\ OurFindings(b) => OurFindings(a \o b)
  BY JoinedFindings
<1>4. step # "idle" => OurFindings(local.found)
  <2>1. step # "enter"
    BY SnmpProbed DEF Probed
  <2> QED BY <1>1, <2>1 DEF Gathering, Under
<1>5. ASSUME NEW found, NEW gathered, NextCommunity(found, gathered), OurFindings(found)
      PROVE  step' # "idle" => OurFindings(local'.found)
  BY <1>5 DEF NextCommunity, Conclude, Continue
<1>6. CASE SnmpBegin
  <2>1. local'.found = <<>>
    BY <1>6 DEF SnmpBegin, Continue
  <2> QED BY <2>1, NoFinding
<1>7. CASE SnmpGet
  <2> DEFINE found == local.found \o SnmpFinding("community", "High", Community)
             more == found \o SnmpFinding("sysdescr", "Info", "descr")
  <2>1. PICK outcome \in Outcomes :
          IF outcome # "value" THEN NextCommunity(local.found, local.gathered)
          ELSE IF local.gathered THEN NextCommunity(found, TRUE)
          ELSE Continue("name", [c |-> local.c, gathered |-> TRUE, found |-> more])
    BY <1>7 DEF SnmpGet
  <2>2. OurFindings(local.found)
    BY <1>4, <1>7 DEF SnmpGet, At
  <2>3. OurFindings(found)
    BY <1>2, <1>3, <2>2
  <2> HIDE DEF found
  <2>4. OurFindings(more)
    BY <1>2, <1>3, <2>3
  <2> HIDE DEF more
  <2>5. CASE Continue("name", [c |-> local.c, gathered |-> TRUE, found |-> more])
    <3>1. local'.found = more
      BY <2>5 DEF Continue
    <3> QED BY <2>4, <3>1
  <2> QED BY <1>5, <2>1, <2>2, <2>3, <2>5
<1>8. CASE SnmpName
  <2> DEFINE Joined(name) == local.found \o name
  <2>1. PICK name \in {<<>>, SnmpFinding("sysname", "Info", "name")} :
          \E rows : Continue("walk", [c |-> local.c, gathered |-> TRUE, found |-> Joined(name),
                                      rows |-> rows, current |-> 0, names |-> <<>>])
    BY <1>8 DEF SnmpName
  <2>2. OurFindings(local.found)
    BY <1>4, <1>8 DEF SnmpName, At
  <2>3. OurFindings(Joined(name))
    BY <1>2, <1>3, <2>1, <2>2, NoFinding
  <2> HIDE DEF Joined
  <2>4. local'.found = Joined(name)
    BY <2>1 DEF Continue
  <2> QED BY <2>3, <2>4
<1>9. CASE SnmpWalk
  <2>1. OurFindings(local.found)
    BY <1>4, <1>9 DEF SnmpWalk, At
  <2>2. CASE EndWalk
    <3> DEFINE last == IF local.names = <<>> THEN <<>>
                       ELSE SnmpFinding("interfaces", "Info", local.names)
    <3>1. OurFindings(local.found \o last)
      BY <1>2, <1>3, <2>1, NoFinding
    <3>2. NextCommunity(local.found \o last, TRUE)
      BY <2>2 DEF EndWalk
    <3> HIDE DEF last
    <3> QED BY <1>5, <3>1, <3>2
  <2>3. CASE ~EndWalk
    <3> DEFINE With(row) == [local EXCEPT !.current = row, !.names = Append(@, row)]
    <3>1. PICK row : Continue("walk", With(row))
      BY <1>9, <2>3 DEF SnmpWalk
    <3>2. With(row).found = local.found
      OBVIOUS
    <3> HIDE DEF With
    <3>3. local' = With(row)
      BY <3>1 DEF Continue
    <3> QED BY <2>1, <3>2, <3>3
  <2> QED BY <2>2, <2>3
<1> QED BY <1>6, <1>7, <1>8, <1>9 DEF SnmpStep

LEMMA GatheringStep ==
  ASSUME Course, Work, Probing, Ledger, Gathering, [Next]_vars
  PROVE  Gathering'
<1>1. CASE Probes
  <2>1. /\ Probed /\ pc' = pc /\ cli' = cli /\ todo # <<>> /\ pc \in StageSet
        /\ step' # "enter" /\ ((todo' = todo /\ step' # "idle") \/ (todo' = Tail(todo) /\ step' = "idle"))
    BY <1>1, ProbesRecord DEF Probed, Probing
  <2>2. pc = "dns" => todo' \in Seq(ToSet(cli.names))'
    BY <2>1, HeadOf DEF Gathering
  <2>3. pc = "dns" => DnsStep \/ DnsTransfer
    BY <1>1, HttpProbed, TlsProbed, FtpProbed, SnmpProbed, SmbProbed DEF Probes
  <2>4. pc = "snmp" => SnmpStep
    BY <1>1, HttpProbed, TlsProbed, FtpProbed, DnsProbed, SmbProbed DEF Probes
  <2>5. pc = "smb" => SmbStep
    BY <1>1, HttpProbed, TlsProbed, FtpProbed, SnmpProbed, DnsProbed DEF Probes
  <2>6. pc \in {"dns", "snmp", "smb"} /\ step' # "idle" => OurFindings(local'.found)
    BY <2>1, <2>3, <2>4, <2>5, DnsGathers, SnmpGathers, SmbGathers
  <2>7. pc = "dns" /\ step' # "idle" =>
          /\ local' \in [found : {local'.found}, nameservers : Seq(ToSet(local'.nameservers))]
          /\ step' = "transfer" => local'.nameservers # <<>>
    BY <2>1, <2>3, DnsGathers
  <2>8. ASSUME step' # "idle"
        PROVE  \A list : OurFindings(list) => OurFindings(list)'
    BY <2>1, <2>8 DEF OurFindings, Ours, Here, Domain
  <2> QED BY <2>1, <2>2, <2>6, <2>7, <2>8 DEF Gathering, Under
<1>2. CASE ~Probes
  <2>1. Calm /\ Between
    BY <1>2, CalmOrProbe, BetweenProbes
  <2>2. ASSUME Under'
        PROVE  /\ Under /\ UNCHANGED <<pc, step, todo, local>>
               /\ \A list : OurFindings(list) => OurFindings(list)'
    <3>1. UNCHANGED <<pc, step, todo, local>>
      BY <2>1, <2>2 DEF Calm
    <3>2. Under
      BY <2>2, <3>1 DEF Under
    <3> QED BY <3>1, <3>2 DEF OurFindings, Ours, Here, Domain
  <2>3. ASSUME pc' = "dns" PROVE todo' \in Seq(ToSet(cli.names))'
    <3>1. cli' = cli /\ cli.names \in Seq(ToSet(cli.names))
      BY <2>1, PlansAssumption DEF Between, PlansAssumption, Course
    <3>2. todo' = <<>> \/ (pc = "dns" /\ todo' \in {todo, cli.names})
      BY <2>1, <2>3, StageNames DEF Between, Ends, Worklist
    <3>3. <<>> \in Seq(ToSet(cli.names))
      OBVIOUS
    <3> QED BY <3>1, <3>2, <3>3 DEF Gathering
  <2>4. Under' /\ pc' \in {"dns", "snmp", "smb"} => OurFindings(local.found)'
    BY <2>2 DEF Gathering
  <2>5. Under' /\ pc' = "dns" =>
           /\ local' \in [found : {local'.found}, nameservers : Seq(ToSet(local'.nameservers))]
           /\ step' = "transfer" => local'.nameservers # <<>>
    BY <2>2 DEF Gathering
  <2> QED BY <2>3, <2>4, <2>5 DEF Gathering
<1> QED BY <1>1, <1>2

LEMMA StillOrHere ==
  ASSUME Course, Probing, Ledger, Gathering, [Next]_vars, NEW stage \in StageSet \ {"dns"}, NEW p
  PROVE  Still(stage, p) \/ (Probes /\ Probed /\ pc = stage /\ p = Here)
<1>1. CASE Probes
  BY <1>1, ProbesRecord, Elsewhere
<1>2. CASE ~Probes
  BY <1>2, CalmOrProbe, Calmly
<1> QED BY <1>1, <1>2

\* A probe that is under way after a step that is none was so before it.
LEMMA StillUnder ==
  ASSUME Course, Probing, Ledger, [Next]_vars, ~Probes, Under'
  PROVE  Under /\ UNCHANGED <<pc, step, todo, local, seen, findings>>
<1>1. Calm
  BY CalmOrProbe
<1> QED BY <1>1 DEF Calm, Under

\* The probe under way is one of this stage at this place.
ProbeOf(stage, p) == Under /\ pc = stage /\ p = Here

\* What a stage has found at a place is all in the findings.
Settled(stage, p) == ~ProbeOf(stage, p) /\ (pc = "killed" => DoneWith(stage, p))

LEMMA NotDoneHere ==
  ASSUME Probing, NEW stage \in StageSet \ {"dns"}, NEW p, p = Here, pc = stage, todo # <<>>
  PROVE  ~DoneWith(stage, p)
<1>1. todo \in Seq(ToSet(summary))
  BY DEF Probing
<1>2. 1 \in DOMAIN todo /\ Head(todo) = todo[1]
  BY <1>1, RestOf
<1> QED BY <1>2 DEF DoneWith, Here

LEMMA DoneIsSettled ==
  ASSUME Probing, NEW stage \in StageSet \ {"dns"}, NEW p, DoneWith(stage, p)
  PROVE  Settled(stage, p)
<1>1. Under => todo # <<>>
  BY DEF Probing, Under
<1> QED BY <1>1, NotDoneHere DEF Settled, ProbeOf

\* Only a probe at the place leaves it settled that was not.
LEMMA SettledOrHere ==
  ASSUME Course, Probing, Ledger, Gathering, [Next]_vars, NEW stage \in StageSet \ {"dns"}, NEW p
  PROVE  \/ Still(stage, p) /\ (Settled(stage, p)' => Settled(stage, p))
         \/ Probes /\ Probed /\ pc = stage /\ p = Here
<1>1. CASE Probes
  <2>1. Probed /\ pc # "killed"
    BY <1>1, ProbesRecord, StageNames DEF Probed
  <2>2. (pc = stage /\ p = Here) \/ Still(stage, p)
    BY <2>1, StillOrHere
  <2> QED BY <1>1, <2>1, <2>2 DEF Settled, ProbeOf
<1>2. CASE ~Probes
  <2>1. Still(stage, p) /\ Between
    BY <1>2, CalmOrProbe, Calmly, BetweenProbes
  <2>2. CASE DoneWith(stage, p)'
    BY <2>1, <2>2, DoneIsSettled DEF Still
  <2>3. CASE ~DoneWith(stage, p)' /\ Settled(stage, p)'
    <3>1. pc' = stage /\ todo' # <<>>
      <4>1. pc' = stage
        BY <2>3 DEF DoneWith, Settled
      <4> QED BY <2>3, <4>1 DEF DoneWith
    <3>2. CASE pc = stage /\ step = "enter"
      BY <2>1, <3>2, StageNames DEF Settled, ProbeOf, Under
    <3>3. CASE UNCHANGED <<pc, step, todo, local, summary>>
      BY <2>1, <2>3, <3>1, <3>3, StageNames DEF Settled, ProbeOf, Under, Here, Place
    <3> QED BY <2>1, <3>1, <3>2, <3>3, StageNames DEF Between, Ends
  <2> QED BY <2>1, <2>2, <2>3
<1> QED BY <1>1, <1>2

-----------------------------------------------------------------------------
(* TLS: what a certificate is reported as.                                  *)

\* ExpiryClassified of one place.
ClassifiedAt(p) ==
  LET certs == {c \in Certificates : Happened("tls", p, c) /\ c.parses}
      Said(kind) == Found("tls", kind, p) # {}
  IN /\ Said("expired") <=> \E c \in certs : c.left < 0
     /\ Said("expiring_soon") <=> \E c \in certs : c.left \in 1..(31 * QuartersPerDay - 1)
     /\ Said("validity") <=> \E c \in certs : c.left >= 31 * QuartersPerDay
     /\ Said("san") <=> \E c \in certs : c.dns_names
     /\ Said("issuer") <=> certs # {}

\* The class of expiry.
ClassOf(left) ==
  IF left < 0 THEN {"expired"} ELSE IF left = 0 THEN {}
  ELSE IF left < 31 * QuartersPerDay THEN {"expiring_soon"} ELSE {"validity"}

LEMMA ExpiryKinds ==
  ASSUME pc = "tls", NEW left \in Int
  PROVE  /\ OurFindings(Expiry(left))
         /\ {f.id : f \in ToSet(Expiry(left))} = {<<"tls", kind, Here>> : kind \in ClassOf(left)}
<1>1. \A kind, severity : /\ OurFindings(TlsFinding(kind, severity))
                          /\ {f.id : f \in ToSet(TlsFinding(kind, severity))} = {<<"tls", kind, Here>>}
  BY MadeHere DEF TlsFinding
<1>2. left > 0 => (WholeDays(left) <= 30 <=> left < 31 * QuartersPerDay)
  BY DEF WholeDays, QuartersPerDay
<1>3. Remaining(left) = <<>> <=> ~(left > 0)
  BY DEF Remaining
<1>4. ToSet(<<>>) = {} /\ OurFindings(<<>>)
  BY NoFinding DEF ToSet
<1>5. CASE left < 0
  BY <1>1, <1>5 DEF Expiry, ClassOf
<1>6. CASE left = 0
  BY <1>3, <1>4, <1>6 DEF Expiry, ClassOf
<1>7. CASE left > 0 /\ left < 31 * QuartersPerDay
  BY <1>1, <1>2, <1>3, <1>7 DEF Expiry, ClassOf
<1>8. CASE left >= 31 * QuartersPerDay
  <2>1. left > 0 /\ ~(left < 31 * QuartersPerDay)
    BY <1>8 DEF QuartersPerDay
  <2> QED BY <1>1, <1>2, <1>3, <2>1 DEF Expiry, ClassOf
<1>9. left < 0 \/ left = 0 \/ (left > 0 /\ left < 31 * QuartersPerDay) \/ left >= 31 * QuartersPerDay
  BY DEF QuartersPerDay
<1> QED BY <1>5, <1>6, <1>7, <1>8, <1>9

\* What inspect_cert says.
LEMMA InspectedKinds ==
  ASSUME pc = "tls", NEW cert \in Certificates, NEW p, p = Here
  PROVE  \A kind : Of(Inspected(cert), <<"tls", kind, p>>) # {} <=>
           /\ cert.parses
           /\ kind \in {"issuer", "subject"} \cup (IF cert.dns_names THEN {"san"} ELSE {})
                       \cup ClassOf(cert.left)
<1> DEFINE Ids(list) == {f.id : f \in ToSet(list)}
           Tagged(kinds) == {<<"tls", kind, p>> : kind \in kinds}
           san == IF cert.dns_names THEN TlsFinding("san", "Info") ELSE <<>>
           names == TlsFinding("issuer", "Info") \o TlsFinding("subject", "Info")
           sans == IF cert.dns_names THEN {"san"} ELSE {}
<1>1. \A kind, severity : /\ OurFindings(TlsFinding(kind, severity))
                          /\ Ids(TlsFinding(kind, severity)) = Tagged({kind})
  BY MadeHere DEF TlsFinding
<1>2. \A a, b : OurFindings(a) /\ OurFindings(b) =>
        OurFindings(a \o b) /\ Ids(a \o b) = Ids(a) \cup Ids(b)
  <2> SUFFICES ASSUME NEW a, NEW b, OurFindings(a), OurFindings(b)
               PROVE  OurFindings(a \o b) /\ Ids(a \o b) = Ids(a) \cup Ids(b)
    OBVIOUS
  <2>1. OurFindings(a \o b) /\ ToSet(a \o b) = ToSet(a) \cup ToSet(b)
    BY JoinedFindings
  <2> QED BY <2>1
<1>3. OurFindings(<<>>) /\ Ids(<<>>) = {}
  BY NoFinding DEF ToSet
<1>4. cert.left \in Int /\ cert.parses \in BOOLEAN /\ cert.dns_names \in BOOLEAN
  BY TlsAssumption DEF TlsAssumption
<1>5. OurFindings(Expiry(cert.left)) /\ Ids(Expiry(cert.left)) = Tagged(ClassOf(cert.left))
  BY <1>4, ExpiryKinds
<1>6. \A kind, list : Of(list, <<"tls", kind, p>>) # {} <=> <<"tls", kind, p>> \in Ids(list)
  BY DEF Of
<1>7. \A kind, kinds : <<"tls", kind, p>> \in Tagged(kinds) <=> kind \in kinds
  OBVIOUS
<1>8. \A a, b : Tagged(a) \cup Tagged(b) = Tagged(a \cup b)
  OBVIOUS
<1>9. OurFindings(san) /\ Ids(san) = Tagged(sans)
  <2>1. Tagged({}) = {}
    OBVIOUS
  <2> HIDE DEF Ids, Tagged
  <2> QED BY <1>1, <1>3, <1>4, <2>1
<1> HIDE DEF Ids, Tagged, san, sans
<1>10. OurFindings(names) /\ Ids(names) = Tagged({"issuer", "subject"})
  <2> DEFINE a == TlsFinding("issuer", "Info")
             b == TlsFinding("subject", "Info")
  <2>1. {"issuer"} \cup {"subject"} = {"issuer", "subject"}
    OBVIOUS
  <2>2. OurFindings(a) /\ OurFindings(b) /\ Ids(a) = Tagged({"issuer"}) /\ Ids(b) = Tagged({"subject"})
    BY <1>1
  <2>3. Tagged({"issuer"}) \cup Tagged({"subject"}) = Tagged({"issuer", "subject"})
    BY <1>8, <2>1
  <2> HIDE DEF a, b
  <2>4. OurFindings(a \o b) /\ Ids(a \o b) = Tagged({"issuer", "subject"})
    BY <1>2, <2>2, <2>3
  <2> QED BY <2>4 DEF names, a, b
<1> HIDE DEF names
<1>11. Ids((names \o san) \o Expiry(cert.left))
         = Tagged({"issuer", "subject"} \cup sans \cup ClassOf(cert.left))
  <2> DEFINE kinds == {"issuer", "subject"}
             class == ClassOf(cert.left)
             expiry == Expiry(cert.left)
  <2> HIDE DEF kinds, class, expiry
  <2>1. OurFindings(names \o san) /\ Ids(names \o san) = Tagged(kinds \cup sans)
    BY <1>2, <1>8, <1>9, <1>10 DEF kinds
  <2>2. Ids((names \o san) \o expiry) = Tagged((kinds \cup sans) \cup class)
    <3>1. OurFindings(expiry) /\ Ids(expiry) = Tagged(class)
      BY <1>5 DEF class, expiry
    <3>2. Tagged(kinds \cup sans) \cup Tagged(class) = Tagged((kinds \cup sans) \cup class)
      BY <1>8
    <3> QED BY <1>2, <2>1, <3>1, <3>2
  <2> QED BY <2>2 DEF kinds, class, expiry
<1>12. Inspected(cert) = IF ~cert.parses THEN <<>> ELSE (names \o san) \o Expiry(cert.left)
  BY DEF Inspected, names, san
<1>13. CASE cert.parses
  BY <1>6, <1>7, <1>11, <1>12, <1>13 DEF sans
<1>14. CASE ~cert.parses
  BY <1>3, <1>6, <1>12, <1>14
<1> QED BY <1>13, <1>14

LEMMA TlsStays ==
  ASSUME NEW p, Still("tls", p), ClassifiedAt(p)
  PROVE  ClassifiedAt(p)'
BY DEF Still, ClassifiedAt

\* Another certificate at the place, and what is said of it.
LEMMA AnotherCertificate ==
  ASSUME NEW p, NEW cert \in Certificates, ClassifiedAt(p),
         \A fact : Happened("tls", p, fact)' <=> Happened("tls", p, fact) \/ fact = cert,
         \A kind : Found("tls", kind, p)' # {} <=>
           \/ Found("tls", kind, p) # {}
           \/ /\ cert.parses
              /\ kind \in {"issuer", "subject"} \cup (IF cert.dns_names THEN {"san"} ELSE {})
                          \cup ClassOf(cert.left)
  PROVE  ClassifiedAt(p)'
<1> DEFINE certs == {c \in Certificates : Happened("tls", p, c) /\ c.parses}
           more == {c \in Certificates : Happened("tls", p, c)' /\ c.parses}
           new == IF cert.parses THEN {cert} ELSE {}
<1>1. more = certs \cup new
  OBVIOUS
<1>2. cert.left \in Int /\ cert.dns_names \in BOOLEAN
  BY TlsAssumption DEF TlsAssumption
<1>3. /\ "expired" \in ClassOf(cert.left) <=> cert.left < 0
      /\ "expiring_soon" \in ClassOf(cert.left) <=> cert.left \in 1..(31 * QuartersPerDay - 1)
      /\ "validity" \in ClassOf(cert.left) <=> cert.left >= 31 * QuartersPerDay
      /\ "san" \notin ClassOf(cert.left) /\ "issuer" \notin ClassOf(cert.left)
  BY <1>2 DEF ClassOf, QuartersPerDay
<1> DEFINE Said(kind) == Found("tls", kind, p) # {}
           SaidThen(kind) == Found("tls", kind, p)' # {}
<1>4. /\ SaidThen("expired") <=> Said("expired") \/ \E c \in new : c.left < 0
      /\ SaidThen("expiring_soon") <=>
           Said("expiring_soon") \/ \E c \in new : c.left \in 1..(31 * QuartersPerDay - 1)
      /\ SaidThen("validity") <=> Said("validity") \/ \E c \in new : c.left >= 31 * QuartersPerDay
      /\ SaidThen("san") <=> Said("san") \/ \E c \in new : c.dns_names
      /\ SaidThen("issuer") <=> Said("issuer") \/ new # {}
  BY <1>2, <1>3
<1>5. /\ Said("expired") <=> \E c \in certs : c.left < 0
      /\ Said("expiring_soon") <=> \E c \in certs : c.left \in 1..(31 * QuartersPerDay - 1)
      /\ Said("validity") <=> \E c \in certs : c.left >= 31 * QuartersPerDay
      /\ Said("san") <=> \E c \in certs : c.dns_names
      /\ Said("issuer") <=> certs # {}
  BY DEF ClassifiedAt
<1> HIDE DEF new, certs, more, Said, SaidThen
<1>6. /\ SaidThen("expired") <=> \E c \in more : c.left < 0
      /\ SaidThen("expiring_soon") <=> \E c \in more : c.left \in 1..(31 * QuartersPerDay - 1)
      /\ SaidThen("validity") <=> \E c \in more : c.left >= 31 * QuartersPerDay
      /\ SaidThen("san") <=> \E c \in more : c.dns_names
      /\ SaidThen("issuer") <=> more # {}
  BY <1>1, <1>4, <1>5
<1> QED BY <1>6 DEF ClassifiedAt, more, SaidThen

LEMMA TlsStageStep ==
  ASSUME Course, Probing, Ledger, Gathering, [Next]_vars, \A p : ClassifiedAt(p)
  PROVE  \A p : ClassifiedAt(p)'
<1>1. "tls" \in StageSet \ {"dns"}
  BY StageNames
<1>2. ASSUME Probes, pc = "tls"
      PROVE  TlsStep
  BY <1>2, HttpProbed, DnsProbed, FtpProbed, SnmpProbed, SmbProbed DEF Probes
<1> SUFFICES ASSUME NEW p PROVE ClassifiedAt(p)'
  OBVIOUS
<1>3. CASE Still("tls", p)
  BY <1>3, TlsStays
<1>4. CASE ~Still("tls", p)
  <2>1. Probes /\ Probed /\ pc = "tls" /\ p = Here /\ TlsStep
    BY <1>1, <1>2, <1>4, StillOrHere
  <2>2. ASSUME NEW new, Conclude(new), OurFindings(new)
        PROVE  \A kind : Found("tls", kind, p)' = Found("tls", kind, p) \cup Of(new, <<"tls", kind, p>>)
    BY <2>2, FoundHere DEF Conclude
  <2>3. CASE Conclude(<<>>) /\ UNCHANGED seen
    <3>0. \A id : Of(<<>>, id) = {}
      BY DEF Of, ToSet
    <3>1. \A kind : Found("tls", kind, p)' = Found("tls", kind, p) \cup Of(<<>>, <<"tls", kind, p>>)
      BY <2>2, <2>3, NoFinding
    <3>2. \A fact : Happened("tls", p, fact)' <=> Happened("tls", p, fact)
      BY <2>3 DEF Happened
    <3>3. \A kind : Found("tls", kind, p)' = Found("tls", kind, p)
      BY <3>0, <3>1
    <3> QED BY <3>2, <3>3 DEF ClassifiedAt
  <2>4. ASSUME NEW cert \in Certificates, Conclude(Inspected(cert)), Saw(Here, {cert})
        PROVE  ClassifiedAt(p)'
    <3>1. \A fact : Happened("tls", p, fact)' <=> Happened("tls", p, fact) \/ fact = cert
      BY <2>1, <2>4, SeenHere
    <3>2. OurFindings(Inspected(cert))
      BY <2>1, Inspections
    <3>3. \A kind : Found("tls", kind, p)' =
                      Found("tls", kind, p) \cup Of(Inspected(cert), <<"tls", kind, p>>)
      BY <2>2, <2>4, <3>2
    <3>4. \A kind : Of(Inspected(cert), <<"tls", kind, p>>) # {} <=>
            /\ cert.parses
            /\ kind \in {"issuer", "subject"} \cup (IF cert.dns_names THEN {"san"} ELSE {})
                        \cup ClassOf(cert.left)
      BY <2>1, InspectedKinds
    <3>5. \A kind : Found("tls", kind, p)' # {} <=>
            Found("tls", kind, p) # {} \/ Of(Inspected(cert), <<"tls", kind, p>>) # {}
      BY <3>3
    <3> QED BY <3>1, <3>4, <3>5, AnotherCertificate
  <2>5. CASE TlsConnect /\ step' = "handshake"
    <3>1. UNCHANGED <<seen, findings>>
      BY <2>5 DEF TlsConnect, Conclude, Continue
    <3> QED BY <3>1 DEF ClassifiedAt, Found, Happened
  <2> QED BY <2>1, <2>3, <2>4, <2>5 DEF TlsStep, TlsConnect, TlsHandshake, Conclude, Continue
<1> QED BY <1>3, <1>4

-----------------------------------------------------------------------------
LEMMA OfJoined ==
  ASSUME NEW a, NEW b, a \in Seq(ToSet(a)), b \in Seq(ToSet(b))
  PROVE  \A id : Of(a \o b, id) = Of(a, id) \cup Of(b, id)
<1>1. ToSet(a \o b) = ToSet(a) \cup ToSet(b)
  BY JoinedElements
<1> QED BY <1>1 DEF Of

LEMMA OfNone == \A id : Of(<<>>, id) = {}
BY DEF Of, ToSet

LEMMA OfOne ==
  ASSUME NEW kind, NEW severity, NEW evidence, pc # "dns"
  PROVE  LET f == Finding(kind, Here, severity, evidence) IN
         \A k : Of(<<f>>, <<pc, k, Here>>) = IF k = kind THEN {f} ELSE {}
<1> DEFINE f == Finding(kind, Here, severity, evidence)
<1>1. ToSet(<<f>>) = {f} /\ f.id = <<pc, kind, Here>>
  BY MadeHere
<1> HIDE DEF f
<1>2. \A k : Of(<<f>>, <<pc, k, Here>>) = IF k = kind THEN {f} ELSE {}
  BY <1>1 DEF Of
<1> QED BY <1>2 DEF f

-----------------------------------------------------------------------------
(* SMB: what a port has said and what is reported of it.                    *)

SmbFacts ==
  {<<"negotiate", q>> : q \in Replies} \cup {<<"legacy", q>> : q \in Replies}
    \cup {<<"session">>, <<"shares">>}

SmbHeard(p) == {fact \in SmbFacts : Happened("smb", p, fact)}

\* The findings of a list on the place are what the facts give reason for.
SmbFits(list, p, facts) ==
  LET Said(kind) == Of(list, <<"smb", kind, p>>) # {}
      negotiated == {q \in Replies : /\ <<"negotiate", q>> \in facts
                                     /\ q.sig = "smb2" /\ q.len >= FieldsEnd}
  IN /\ Said("dialect") <=> negotiated # {}
     /\ {f.severity : f \in Of(list, <<"smb", "signing", p>>)} =
          {IF q.signing THEN "Info" ELSE "Medium" : q \in negotiated}
     /\ Said("smbv1") <=> \E q \in Replies : <<"legacy", q>> \in facts /\ q.sig = "smb1"
     /\ Said("null_session") <=> <<"session">> \in facts
     /\ Said("shares") <=> <<"shares">> \in facts

LEMMA SmbFitsTogether ==
  ASSUME NEW a, NEW b, a \in Seq(ToSet(a)), b \in Seq(ToSet(b)), NEW p, NEW F, NEW G,
         SmbFits(a, p, F), SmbFits(b, p, G)
  PROVE  SmbFits(a \o b, p, F \cup G)
<1>1. \A id : Of(a \o b, id) = Of(a, id) \cup Of(b, id)
  BY OfJoined
<1> DEFINE N(facts) == {q \in Replies : /\ <<"negotiate", q>> \in facts
                                        /\ q.sig = "smb2" /\ q.len >= FieldsEnd}
           Severities(list) == {f.severity : f \in Of(list, <<"smb", "signing", p>>)}
           Called(replies) == {IF q.signing THEN "Info" ELSE "Medium" : q \in replies}
           L(facts) == \E q \in Replies : <<"legacy", q>> \in facts /\ q.sig = "smb1"
<1>2. N(F \cup G) = N(F) \cup N(G)
  OBVIOUS
<1>3. Severities(a \o b) = Severities(a) \cup Severities(b)
  BY <1>1
<1>4. \A s, t : Called(s \cup t) = Called(s) \cup Called(t)
  OBVIOUS
<1>5. L(F \cup G) <=> L(F) \/ L(G)
  OBVIOUS
<1>6. Severities(a) = Called(N(F)) /\ Severities(b) = Called(N(G))
  BY DEF SmbFits
<1>7. Severities(a \o b) = Called(N(F \cup G))
  <2> HIDE DEF N, Severities, Called
  <2>1. Called(N(F) \cup N(G)) = Called(N(F)) \cup Called(N(G))
    BY <1>4
  <2>2. Severities(a \o b) = Called(N(F)) \cup Called(N(G))
    BY <1>3, <1>6
  <2> QED BY <1>2, <2>1, <2>2
<1>8. /\ Of(a \o b, <<"smb", "dialect", p>>) # {} <=> N(F \cup G) # {}
      /\ Of(a \o b, <<"smb", "smbv1", p>>) # {} <=> L(F \cup G)
  <2>1. /\ Of(a, <<"smb", "dialect", p>>) # {} <=> N(F) # {}
        /\ Of(b, <<"smb", "dialect", p>>) # {} <=> N(G) # {}
        /\ Of(a, <<"smb", "smbv1", p>>) # {} <=> L(F)
        /\ Of(b, <<"smb", "smbv1", p>>) # {} <=> L(G)
    BY DEF SmbFits
  <2> HIDE DEF N, L
  <2> QED BY <1>1, <1>2, <1>5, <2>1
<1>9. /\ Of(a \o b, <<"smb", "null_session", p>>) # {} <=> <<"session">> \in F \cup G
      /\ Of(a \o b, <<"smb", "shares", p>>) # {} <=> <<"shares">> \in F \cup G
  BY <1>1 DEF SmbFits
<1> QED BY <1>7, <1>8, <1>9 DEF SmbFits

\* Facts of different kinds are different.
LEMMA SmbFactsDiffer ==
  /\ \A q, r : <<"negotiate", q>> # <<"legacy", r>>
  /\ \A q, r : <<"negotiate", q>> = <<"negotiate", r>> => q = r
  /\ \A q, r : <<"legacy", q>> = <<"legacy", r>> => q = r
  /\ \A q : <<"negotiate", q>> # <<"session">> /\ <<"negotiate", q>> # <<"shares">>
  /\ \A q : <<"legacy", q>> # <<"session">> /\ <<"legacy", q>> # <<"shares">>
  /\ <<"session">> # <<"shares">>
<1>1. \A x, y : <<x, y>>[1] = x /\ <<x, y>>[2] = y /\ <<x>>[1] = x
  OBVIOUS
<1> QED BY <1>1

LEMMA SmbFitsOne ==
  ASSUME pc = "smb", NEW p, p = Here
  PROVE  /\ SmbFits(<<>>, p, {})
         /\ \A r \in Replies : SmbFits(Negotiated(r), p, {<<"negotiate", r>>})
         /\ \A r \in Received : SmbFits(Legacy(r), p, {<<"legacy", r>>})
         /\ SmbFits(SmbFinding("null_session", "High"), p, {<<"session">>})
         /\ SmbFits(SmbFinding("shares", "High"), p, {<<"shares">>})
<1>1. \A kind, severity :
        /\ OurFindings(SmbFinding(kind, severity))
        /\ \A k : Of(SmbFinding(kind, severity), <<"smb", k, p>>) =
                    IF k = kind THEN {Finding(kind, Here, severity, "smb")} ELSE {}
  BY MadeHere, OfOne DEF SmbFinding
<1>2. \A kind, severity : Finding(kind, Here, severity, "smb").severity = severity
  BY DEF Finding
<1> DEFINE One(kind, severity) == SmbFinding(kind, severity)
<1>8. ASSUME NEW kind, NEW severity
      PROVE  \A k : Of(One(kind, severity), <<"smb", k, p>>) # {} <=> k = kind
  <2> DEFINE f == Finding(kind, Here, severity, "smb")
  <2>1. \A k : Of(One(kind, severity), <<"smb", k, p>>) = IF k = kind THEN {f} ELSE {}
    BY <1>1
  <2> HIDE DEF f, One
  <2> QED BY <2>1
<1>3. SmbFits(<<>>, p, {})
  BY OfNone DEF SmbFits
<1> DEFINE N(facts) == {q \in Replies : /\ <<"negotiate", q>> \in facts
                                        /\ q.sig = "smb2" /\ q.len >= FieldsEnd}
\* A list without a dialect or the word on signing, and facts without a negotiation.
<1>4. ASSUME NEW list, NEW facts, \A q \in Replies : <<"negotiate", q>> \notin facts,
             Of(list, <<"smb", "dialect", p>>) = {}, Of(list, <<"smb", "signing", p>>) = {},
             Of(list, <<"smb", "smbv1", p>>) # {} <=>
               \E q \in Replies : <<"legacy", q>> \in facts /\ q.sig = "smb1",
             Of(list, <<"smb", "null_session", p>>) # {} <=> <<"session">> \in facts,
             Of(list, <<"smb", "shares", p>>) # {} <=> <<"shares">> \in facts
      PROVE  SmbFits(list, p, facts)
  <2>1. N(facts) = {}
    BY <1>4
  <2>2. {f.severity : f \in Of(list, <<"smb", "signing", p>>)} = {}
    BY <1>4
  <2>3. {IF q.signing THEN "Info" ELSE "Medium" : q \in N(facts)} = {}
    <3> HIDE DEF N
    <3> QED BY <2>1
  <2> QED BY <1>4, <2>1, <2>2, <2>3 DEF SmbFits
<1>5. /\ SmbFits(SmbFinding("null_session", "High"), p, {<<"session">>})
      /\ SmbFits(SmbFinding("shares", "High"), p, {<<"shares">>})
  <2>1. ASSUME NEW kind \in {"null_session", "shares"}
        PROVE  \A k : Of(SmbFinding(kind, "High"), <<"smb", k, p>>) # {} <=> k = kind
    BY <1>8
  <2>2. /\ \A q : <<"negotiate", q>> \notin {<<"session">>} /\ <<"legacy", q>> \notin {<<"session">>}
        /\ \A q : <<"negotiate", q>> \notin {<<"shares">>} /\ <<"legacy", q>> \notin {<<"shares">>}
        /\ <<"session">> \notin {<<"shares">>} /\ <<"shares">> \notin {<<"session">>}
        /\ <<"session">> \in {<<"session">>} /\ <<"shares">> \in {<<"shares">>}
    BY SmbFactsDiffer
  <2>3. ASSUME NEW kind \in {"null_session", "shares"}, NEW fact,
               fact = IF kind = "shares" THEN <<"shares">> ELSE <<"session">>
        PROVE  SmbFits(SmbFinding(kind, "High"), p, {fact})
    <3> DEFINE list == SmbFinding(kind, "High")
               facts == {fact}
    <3>1. /\ \A q : <<"negotiate", q>> \notin facts /\ <<"legacy", q>> \notin facts
          /\ <<"session">> \in facts <=> kind = "null_session"
          /\ <<"shares">> \in facts <=> kind = "shares"
      BY <2>2, <2>3
    <3>2. \A k : Of(list, <<"smb", k, p>>) # {} <=> k = kind
      BY <2>1
    <3> HIDE DEF list, facts
    <3>3. /\ Of(list, <<"smb", "dialect", p>>) = {} /\ Of(list, <<"smb", "signing", p>>) = {}
          /\ Of(list, <<"smb", "smbv1", p>>) = {}
          /\ Of(list, <<"smb", "null_session", p>>) # {} <=> kind = "null_session"
          /\ Of(list, <<"smb", "shares", p>>) # {} <=> kind = "shares"
      BY <3>2
    <3>4. SmbFits(list, p, facts)
      BY <1>4, <3>1, <3>3
    <3> QED BY <3>4 DEF list, facts
  <2>4. /\ SmbFits(SmbFinding("null_session", "High"), p, {<<"session">>})
        /\ SmbFits(SmbFinding("shares", "High"), p, {<<"shares">>})
    BY <2>3
  <2> QED BY <2>4
<1>6. ASSUME NEW r \in Received
      PROVE  SmbFits(Legacy(r), p, {<<"legacy", r>>})
  <2>1. r \in Replies /\ (r.sig = "smb1" => r.len >= 4)
    BY SmbAssumption DEF Received, SmbAssumption, Announced
  <2>2. \A k : Of(Legacy(r), <<"smb", k, p>>) # {} <=> k = "smbv1" /\ r.sig = "smb1"
    <3>1. CASE r.sig = "smb1"
      <4>1. Legacy(r) = SmbFinding("smbv1", "High")
        BY <2>1, <3>1 DEF Legacy
      <4> QED BY <1>8, <3>1, <4>1
    <3>2. CASE r.sig # "smb1"
      BY <3>2, OfNone DEF Legacy
    <3> QED BY <3>1, <3>2
  <2>3. /\ \A q : <<"negotiate", q>> \notin {<<"legacy", r>>}
        /\ \A q : <<"legacy", q>> \in {<<"legacy", r>>} <=> q = r
        /\ <<"session">> \notin {<<"legacy", r>>} /\ <<"shares">> \notin {<<"legacy", r>>}
    BY SmbFactsDiffer
  <2> DEFINE list == Legacy(r)
             facts == {<<"legacy", r>>}
  <2> HIDE DEF list, facts
  <2>4. /\ Of(list, <<"smb", "dialect", p>>) = {} /\ Of(list, <<"smb", "signing", p>>) = {}
        /\ Of(list, <<"smb", "null_session", p>>) = {} /\ Of(list, <<"smb", "shares", p>>) = {}
        /\ Of(list, <<"smb", "smbv1", p>>) # {} <=> r.sig = "smb1"
    BY <2>2 DEF list
  <2>5. /\ \A q \in Replies : <<"negotiate", q>> \notin facts
        /\ (\E q \in Replies : <<"legacy", q>> \in facts /\ q.sig = "smb1") <=> r.sig = "smb1"
        /\ <<"session">> \notin facts /\ <<"shares">> \notin facts
    BY <2>1, <2>3 DEF facts
  <2>6. SmbFits(list, p, facts)
    BY <1>4, <2>4, <2>5
  <2> QED BY <2>6 DEF list, facts
<1>7. ASSUME NEW r \in Replies
      PROVE  SmbFits(Negotiated(r), p, {<<"negotiate", r>>})
  <2> DEFINE severity == IF r.signing THEN "Info" ELSE "Medium"
             Full == r.sig = "smb2" /\ r.len >= FieldsEnd
  <2>1. r.len < FieldsEnd <=> ~(r.len >= FieldsEnd)
    BY SmbAssumption DEF SmbAssumption, Announced, FieldsEnd, HeaderLen
  <2>2. CASE ~Full
    <3>1. Negotiated(r) = <<>>
      BY <2>1, <2>2 DEF Negotiated
    <3>2. {q \in Replies : /\ <<"negotiate", q>> \in {<<"negotiate", r>>}
                           /\ q.sig = "smb2" /\ q.len >= FieldsEnd} = {}
      BY <2>2, SmbFactsDiffer
    <3> QED BY <3>1, <3>2, OfNone, SmbFactsDiffer DEF SmbFits
  <2>3. CASE Full
    <3> DEFINE a == SmbFinding("dialect", "Info")
               b == SmbFinding("signing", severity)
    <3>1. Negotiated(r) = a \o b
      BY <2>1, <2>3 DEF Negotiated
    <3>2. {q \in Replies : /\ <<"negotiate", q>> \in {<<"negotiate", r>>}
                           /\ q.sig = "smb2" /\ q.len >= FieldsEnd} = {r}
      BY <2>3, SmbFactsDiffer
    <3>3. OurFindings(a) /\ OurFindings(b)
      BY <1>1
    <3>4. \A k : Of(Negotiated(r), <<"smb", k, p>>) =
                   IF k = "dialect" THEN {Finding("dialect", Here, "Info", "smb")}
                   ELSE IF k = "signing" THEN {Finding("signing", Here, severity, "smb")} ELSE {}
      <4>1. \A id : Of(a \o b, id) = Of(a, id) \cup Of(b, id)
        BY <3>3, OfJoined DEF OurFindings
      <4>2. \A k : /\ Of(a, <<"smb", k, p>>) =
                        IF k = "dialect" THEN {Finding("dialect", Here, "Info", "smb")} ELSE {}
                   /\ Of(b, <<"smb", k, p>>) =
                        IF k = "signing" THEN {Finding("signing", Here, severity, "smb")} ELSE {}
        BY <1>1
      <4> HIDE DEF a, b, severity
      <4> QED BY <3>1, <4>1, <4>2
    <3>5. {f.severity : f \in Of(Negotiated(r), <<"smb", "signing", p>>)} = {severity}
      BY <1>2, <3>4
    <3> QED BY <3>2, <3>4, <3>5, SmbFactsDiffer DEF SmbFits
  <2> QED BY <2>2, <2>3
<1> QED BY <1>3, <1>5, <1>6, <1>7

\* What a probe under way has noted so far, together with what there is already.
SmbSoFar ==
  pc = "smb" /\ Under =>
    /\ SmbFits(findings \o local.found, Here, SmbHeard(Here))
    /\ step = "shares" => Happened("smb", Here, <<"session">>)

\* SmbAsServed of one place.
SmbServedAt(p) ==
  /\ Settled("smb", p) => SmbFits(findings, p, SmbHeard(p))
  /\ Happened("smb", p, <<"shares">>) => Happened("smb", p, <<"session">>)

LEMMA SmbServedImplies ==
  ASSUME Probing, \A p : SmbServedAt(p)
  PROVE  SmbAsServed
<1> SUFFICES ASSUME NEW r \in ToSet(summary), NEW p, p = Place(r), DoneWith("smb", p)
             PROVE  LET Said(kind) == Found("smb", kind, p) # {}
                        Got(probe) == {q \in Replies : Happened("smb", p, <<probe, q>>)}
                        negotiated == {q \in Got("negotiate") : q.sig = "smb2" /\ q.len >= FieldsEnd}
                    IN /\ Said("dialect") <=> negotiated # {}
                       /\ {f.severity : f \in Found("smb", "signing", p)} =
                            {IF q.signing THEN "Info" ELSE "Medium" : q \in negotiated}
                       /\ Said("smbv1") <=> \E q \in Got("legacy") : q.sig = "smb1"
                       /\ Said("null_session") <=> Happened("smb", p, <<"session">>)
                       /\ Said("shares") <=> Happened("smb", p, <<"shares">>)
                       /\ Said("shares") => Said("null_session")
  BY DEF SmbAsServed
<1> DEFINE Got(probe) == {q \in Replies : Happened("smb", p, <<probe, q>>)}
           negotiated == {q \in Got("negotiate") : q.sig = "smb2" /\ q.len >= FieldsEnd}
           heard == SmbHeard(p)
<1>1. SmbFits(findings, p, heard)
      /\ (Happened("smb", p, <<"shares">>) => Happened("smb", p, <<"session">>))
  BY DoneIsSettled, StageNames DEF SmbServedAt
<1>2. \A q \in Replies : /\ <<"negotiate", q>> \in heard <=> q \in Got("negotiate")
                         /\ <<"legacy", q>> \in heard <=> q \in Got("legacy")
  BY DEF SmbHeard, SmbFacts
<1>3. /\ <<"session">> \in heard <=> Happened("smb", p, <<"session">>)
      /\ <<"shares">> \in heard <=> Happened("smb", p, <<"shares">>)
  BY DEF SmbHeard, SmbFacts
<1>4. negotiated = {q \in Replies : <<"negotiate", q>> \in heard /\ q.sig = "smb2" /\ q.len >= FieldsEnd}
  BY <1>2
<1>5. (\E q \in Got("legacy") : q.sig = "smb1") <=>
        \E q \in Replies : <<"legacy", q>> \in heard /\ q.sig = "smb1"
  BY <1>2
<1>6. \A kind : Found("smb", kind, p) = Of(findings, <<"smb", kind, p>>)
  BY DEF Found, Of
<1> HIDE DEF heard
<1> QED BY <1>1, <1>3, <1>4, <1>5, <1>6 DEF SmbFits

LEMMA SmbFitsAlike ==
  ASSUME NEW a, NEW b, NEW p, NEW facts, SmbFits(a, p, facts),
         \A kind : Of(b, <<"smb", kind, p>>) = Of(a, <<"smb", kind, p>>)
  PROVE  SmbFits(b, p, facts)
BY DEF SmbFits

LEMMA SmbStays ==
  ASSUME NEW p, Still("smb", p), Settled("smb", p)' => Settled("smb", p), SmbServedAt(p)
  PROVE  SmbServedAt(p)'
<1>1. SmbHeard(p)' = SmbHeard(p)
  BY DEF Still, SmbHeard
<1>2. \A kind : Of(findings', <<"smb", kind, p>>) = Of(findings, <<"smb", kind, p>>)
  BY DEF Still, Found, Of
<1>3. \A facts : SmbFits(findings, p, facts) => SmbFits(findings', p, facts)
  BY <1>2, SmbFitsAlike
<1> QED BY <1>1, <1>3 DEF Still, SmbServedAt

\* What the probe under way has found so far.
Held == IF step = "idle" THEN <<>> ELSE local.found

\* A step of a probe, by what it saw and noted.
SmbMoves(p, new, facts) ==
  /\ facts \subseteq SmbFacts
  /\ \A fact : Happened("smb", p, fact)' <=> Happened("smb", p, fact) \/ fact \in facts
  /\ OurFindings(new) /\ SmbFits(new, p, facts)
  /\ \/ UNCHANGED <<pc, todo, findings>> /\ step' \notin {"idle", "enter"} /\ local'.found = Held \o new
     \/ Conclude(Held \o new)
  /\ step' = "shares" => <<"session">> \in facts
  /\ <<"shares">> \in facts => step = "shares"

LEMMA SmbMoving ==
  ASSUME Gathering, SmbStep, NEW p, p = Here
  PROVE  OurFindings(Held) /\ \E new, facts : SmbMoves(p, new, facts)
<1>1. pc = "smb" /\ pc \in StageSet \ {"dns"} /\ Probed
  BY SmbProbed, StageNames
<1>2. OurFindings(Held)
  BY <1>1, NoFinding DEF Probed, Gathering, Under, Held
<1> SUFFICES \E new, facts : SmbMoves(p, new, facts)
  BY <1>2
<1>3. \A kind, severity : OurFindings(SmbFinding(kind, severity))
  BY <1>1, MadeHere DEF SmbFinding
<1>4. /\ SmbFits(<<>>, p, {})
      /\ \A r \in Replies : SmbFits(Negotiated(r), p, {<<"negotiate", r>>})
      /\ \A r \in Received : SmbFits(Legacy(r), p, {<<"legacy", r>>})
      /\ SmbFits(SmbFinding("null_session", "High"), p, {<<"session">>})
      /\ SmbFits(SmbFinding("shares", "High"), p, {<<"shares">>})
  BY <1>1, SmbFitsOne
<1>5. \A r : OurFindings(Negotiated(r)) /\ OurFindings(Legacy(r))
  <2> TAKE r
  <2>1. OurFindings(Legacy(r))
    BY <1>3, NoFinding DEF Legacy
  <2>2. \A severity : OurFindings(SmbFinding("dialect", "Info") \o SmbFinding("signing", severity))
    BY <1>3, JoinedFindings
  <2> QED BY <2>1, <2>2, NoFinding DEF Negotiated
<1>6. /\ \A r \in Replies : <<"negotiate", r>> \in SmbFacts /\ <<"legacy", r>> \in SmbFacts
      /\ <<"session">> \in SmbFacts /\ <<"shares">> \in SmbFacts
  BY DEF SmbFacts
<1>7. \A r : <<"negotiate", r>> # <<"shares">> /\ <<"legacy", r>> # <<"shares">>
      /\ <<"session">> # <<"shares">>
  BY SmbFactsDiffer
\* A step that brings some findings, with the facts that they come from.
<1> DEFINE Grounds(new, facts) ==
             /\ OurFindings(new) /\ SmbFits(new, p, facts) /\ facts \subseteq SmbFacts
             /\ <<"shares">> \in facts => step = "shares"
             /\ Saw(Here, facts)
           Leads(new, facts) ==
             \/ /\ UNCHANGED <<pc, todo, findings>> /\ step' \notin {"idle", "enter"}
                /\ step' = "shares" => <<"session">> \in facts
                /\ local'.found = Held \o new
             \/ Conclude(Held \o new)
<1>8. \A new, facts : Grounds(new, facts) /\ Leads(new, facts) => \E n, f : SmbMoves(p, n, f)
  <2> SUFFICES ASSUME NEW new, NEW facts, Grounds(new, facts), Leads(new, facts)
               PROVE  SmbMoves(p, new, facts)
    OBVIOUS
  <2>1. \A fact : Happened("smb", p, fact)' <=> Happened("smb", p, fact) \/ fact \in facts
    BY <1>1, SeenHere
  <2>2. Conclude(Held \o new) => step' = "idle"
    BY DEF Conclude
  <2> QED BY <2>1, <2>2 DEF SmbMoves
<1>9. UNCHANGED seen => Saw(Here, {})
  BY DEF Saw
<1>10. \A list : OurFindings(list) => list \o <<>> = list /\ <<>> \o list = list
  BY DEF OurFindings
<1> USE DEF At, Begins, Continue
<1>11. CASE SmbNegotiate
  <2>1. Held = <<>>
    BY <1>11 DEF SmbNegotiate, Held
  <2>2. CASE Continue("smb1", [found |-> <<>>]) /\ UNCHANGED seen
    <3>1. local'.found = Held \o <<>> /\ Saw(Here, {})
      BY <1>9, <1>10, <2>1, <2>2, NoFinding
    <3>2. Grounds(<<>>, {}) /\ Leads(<<>>, {})
      BY <1>4, <2>2, <3>1, NoFinding
    <3> HIDE DEF Grounds, Leads
    <3> QED BY <1>8, <3>2
  <2>3. CASE ~(Continue("smb1", [found |-> <<>>]) /\ UNCHANGED seen)
    <3>1. PICK r \in Received : /\ Continue("smb1", [found |-> Negotiated(r)])
                                /\ Saw(Here, {<<"negotiate", r>>})
      BY <1>11, <2>3 DEF SmbNegotiate
    <3> DEFINE facts == {<<"negotiate", r>>}
               new == Negotiated(r)
    <3>2. /\ OurFindings(new) /\ SmbFits(new, p, facts)
          /\ facts \subseteq SmbFacts /\ <<"shares">> \notin facts
      BY <1>4, <1>5, <1>6, <1>7 DEF Received
    <3>3. local'.found = Held \o new
      BY <1>5, <1>10, <2>1, <3>1
    <3>4. Grounds(new, facts) /\ Leads(new, facts)
      BY <3>1, <3>2, <3>3
    <3> HIDE DEF Grounds, Leads, new, facts
    <3> QED BY <1>8, <3>4
  <2> QED BY <2>2, <2>3
<1>12. CASE SmbLegacy
  <2>1. Held = local.found
    BY <1>12 DEF SmbLegacy, Held
  <2>2. CASE Continue("session", local) /\ UNCHANGED seen
    <3>1. local'.found = Held \o <<>> /\ Saw(Here, {})
      BY <1>2, <1>9, <1>10, <2>1, <2>2
    <3>2. Grounds(<<>>, {}) /\ Leads(<<>>, {})
      BY <1>4, <2>2, <3>1, NoFinding
    <3> HIDE DEF Grounds, Leads
    <3> QED BY <1>8, <3>2
  <2>3. CASE ~(Continue("session", local) /\ UNCHANGED seen)
    <3>1. PICK r \in Received : /\ Continue("session", [found |-> local.found \o Legacy(r)])
                                /\ Saw(Here, {<<"legacy", r>>})
      BY <1>12, <2>3 DEF SmbLegacy
    <3> DEFINE facts == {<<"legacy", r>>}
               new == Legacy(r)
    <3>2. /\ OurFindings(new) /\ SmbFits(new, p, facts)
          /\ facts \subseteq SmbFacts /\ <<"shares">> \notin facts
      BY <1>4, <1>5, <1>6, <1>7 DEF Received
    <3>3. local'.found = Held \o new
      BY <2>1, <3>1
    <3>4. Grounds(new, facts) /\ Leads(new, facts)
      BY <3>1, <3>2, <3>3
    <3> HIDE DEF Grounds, Leads, new, facts
    <3> QED BY <1>8, <3>4
  <2> QED BY <2>2, <2>3
<1>13. CASE SmbSession
  <2>1. Held = local.found
    BY <1>13 DEF SmbSession, Held
  <2>2. CASE Conclude(local.found) /\ UNCHANGED seen
    <3>1. Conclude(Held \o <<>>) /\ Saw(Here, {})
      BY <1>2, <1>9, <1>10, <2>1, <2>2
    <3>2. Grounds(<<>>, {}) /\ Leads(<<>>, {})
      BY <1>4, <3>1, NoFinding
    <3> HIDE DEF Grounds, Leads
    <3> QED BY <1>8, <3>2
  <2>3. CASE /\ Continue("shares", [found |-> local.found \o SmbFinding("null_session", "High")])
             /\ Saw(Here, {<<"session">>})
    <3> DEFINE facts == {<<"session">>}
               new == SmbFinding("null_session", "High")
    <3>1. /\ OurFindings(new) /\ SmbFits(new, p, facts)
          /\ facts \subseteq SmbFacts /\ <<"shares">> \notin facts /\ <<"session">> \in facts
      BY <1>3, <1>4, <1>6, <1>7
    <3>2. local'.found = Held \o new
      BY <2>1, <2>3
    <3>3. Grounds(new, facts) /\ Leads(new, facts)
      BY <2>3, <3>1, <3>2
    <3> HIDE DEF Grounds, Leads, new, facts
    <3> QED BY <1>8, <3>3
  <2> QED BY <1>13, <2>2, <2>3 DEF SmbSession
<1>14. CASE SmbShares
  <2>1. Held = local.found /\ step = "shares"
    BY <1>14 DEF SmbShares, Held
  <2>2. CASE Conclude(local.found) /\ UNCHANGED seen
    <3>1. Conclude(Held \o <<>>) /\ Saw(Here, {})
      BY <1>2, <1>9, <1>10, <2>1, <2>2
    <3>2. Grounds(<<>>, {}) /\ Leads(<<>>, {})
      BY <1>4, <3>1, NoFinding
    <3> HIDE DEF Grounds, Leads
    <3> QED BY <1>8, <3>2
  <2>3. CASE Conclude(local.found \o SmbFinding("shares", "High")) /\ Saw(Here, {<<"shares">>})
    <3> DEFINE facts == {<<"shares">>}
               new == SmbFinding("shares", "High")
    <3>1. OurFindings(new) /\ SmbFits(new, p, facts) /\ facts \subseteq SmbFacts
      BY <1>3, <1>4, <1>6
    <3>2. Grounds(new, facts) /\ Leads(new, facts)
      BY <2>1, <2>3, <3>1
    <3> HIDE DEF Grounds, Leads, new, facts
    <3> QED BY <1>8, <3>2
  <2> QED BY <1>14, <2>2, <2>3 DEF SmbShares
<1>15. SmbNegotiate \/ SmbLegacy \/ SmbSession \/ SmbShares
  BY DEF SmbStep
<1> QED BY <1>2, <1>11, <1>12, <1>13, <1>14, <1>15

LEMMA OfAllThree ==
  ASSUME NEW a, NEW b, NEW c, a \in Seq(ToSet(a)), b \in Seq(ToSet(b)), c \in Seq(ToSet(c))
  PROVE  /\ a \o b \in Seq(ToSet(a \o b)) /\ b \o c \in Seq(ToSet(b \o c))
         /\ \A id : Of(a \o (b \o c), id) = Of((a \o b) \o c, id)
<1>1. a \o b \in Seq(ToSet(a \o b)) /\ b \o c \in Seq(ToSet(b \o c))
  BY JoinedElements
<1>2. /\ \A id : Of(a \o b, id) = Of(a, id) \cup Of(b, id)
      /\ \A id : Of(b \o c, id) = Of(b, id) \cup Of(c, id)
  BY OfJoined
<1>3. \A id : Of(a \o (b \o c), id) = Of(a, id) \cup Of(b \o c, id)
  BY <1>1, OfJoined
<1>4. \A id : Of((a \o b) \o c, id) = Of(a \o b, id) \cup Of(c, id)
  BY <1>1, OfJoined
<1>5. \A id : Of(a \o (b \o c), id) = Of((a \o b) \o c, id)
  BY <1>2, <1>3, <1>4
<1> QED BY <1>1, <1>5

LEMMA SmbStageStep ==
  ASSUME Course, Probing, Ledger, Gathering, [Next]_vars, SmbSoFar, \A p : SmbServedAt(p)
  PROVE  SmbSoFar' /\ \A p : SmbServedAt(p)'
<1>1. "smb" \in StageSet \ {"dns"}
  BY StageNames
<1>2. ASSUME Probes, pc = "smb"
      PROVE  SmbStep /\ Probed /\ UNCHANGED <<pc, summary>> /\ pc # "killed"
  BY <1>2, HttpProbed, DnsProbed, FtpProbed, SnmpProbed, TlsProbed, SmbProbed DEF Probes, Probed
<1>3. ASSUME Probes, pc = "smb", NEW p, p = Here
      PROVE  /\ SmbServedAt(p)'
             /\ Under' => /\ SmbFits(findings' \o local'.found, p, SmbHeard(p)') /\ todo' = todo
                          /\ step' = "shares" => Happened("smb", p, <<"session">>)'
  <2>0. OurFindings(Held) /\ \E new, facts : SmbMoves(p, new, facts)
    BY <1>2, <1>3, SmbMoving
  <2>1. PICK new, facts : SmbMoves(p, new, facts)
    BY <2>0
  <2>2. SmbHeard(p)' = SmbHeard(p) \cup facts
    BY <2>1 DEF SmbMoves, SmbHeard
  <2>3. Happened("smb", p, <<"shares">>)' => Happened("smb", p, <<"session">>)'
    <3>1. pc \in StageSet /\ step = "shares" => Under
      BY <1>1, <1>3 DEF Under
    <3> QED BY <1>1, <1>3, <2>1, <3>1 DEF SmbMoves, SmbSoFar, SmbServedAt
  <2>4. /\ findings \in Seq(ToSet(findings)) /\ Held \in Seq(ToSet(Held))
        /\ new \in Seq(ToSet(new)) /\ OurFindings(new)
    BY <2>0, <2>1 DEF Ledger, OurFindings, SmbMoves
  <2>5. SmbFits(findings \o Held, p, SmbHeard(p))
    <3>1. CASE step = "idle"
      <4>1. Settled("smb", p)
        BY <1>2, <1>3, <3>1 DEF Settled, ProbeOf, Under
      <4>2. findings \o Held = findings
        BY <2>4, <3>1 DEF Held
      <4> QED BY <4>1, <4>2 DEF SmbServedAt
    <3>2. CASE step # "idle"
      <4>1. Under
        BY <1>2, <1>3, <3>2 DEF Under, Probed
      <4> QED BY <1>3, <3>2, <4>1 DEF SmbSoFar, Held
    <3> QED BY <3>1, <3>2
  <2>6. /\ (findings \o Held) \in Seq(ToSet(findings \o Held))
        /\ (Held \o new) \in Seq(ToSet(Held \o new))
        /\ \A id : Of(findings \o (Held \o new), id) = Of((findings \o Held) \o new, id)
    BY <2>4, OfAllThree
  <2>7. SmbFits(findings \o (Held \o new), p, SmbHeard(p)')
    <3>1. SmbFits((findings \o Held) \o new, p, SmbHeard(p) \cup facts)
      BY <2>1, <2>4, <2>5, <2>6, SmbFitsTogether DEF SmbMoves
    <3> QED BY <2>2, <2>6, <3>1, SmbFitsAlike
  <2>8. CASE UNCHANGED <<pc, todo, findings>> /\ step' \notin {"idle", "enter"} /\ local'.found = Held \o new
    <3>1. ~Settled("smb", p)'
      BY <1>1, <1>3, <2>8 DEF Settled, ProbeOf, Under, Here, Place
    <3>2. SmbFits(findings' \o local'.found, p, SmbHeard(p)')
      BY <2>7, <2>8
    <3> QED BY <2>1, <2>3, <2>8, <3>1, <3>2 DEF SmbMoves, SmbServedAt
  <2>9. CASE Conclude(Held \o new)
    <3>1. findings' = findings \o (Held \o new) /\ ~Under'
      BY <2>9 DEF Conclude, Under
    <3>2. SmbFits(findings', p, SmbHeard(p)')
      BY <2>7, <3>1
    <3> QED BY <2>3, <3>1, <3>2 DEF SmbServedAt
  <2> QED BY <2>1, <2>8, <2>9 DEF SmbMoves
<1>4. SmbSoFar'
  <2> SUFFICES ASSUME pc' = "smb", Under'
               PROVE  /\ SmbFits(findings \o local.found, Here, SmbHeard(Here))'
                      /\ step' = "shares" => Happened("smb", Here, <<"session">>)'
    BY DEF SmbSoFar
  <2>1. CASE ~Probes
    <3>1. Under /\ UNCHANGED <<pc, step, todo, local, seen, findings>>
      BY <2>1, StillUnder
    <3>2. SmbFits(findings \o local.found, Here, SmbHeard(Here))
          /\ (step = "shares" => Happened("smb", Here, <<"session">>))
      BY <3>1 DEF SmbSoFar
    <3>3. Here' = Here
      BY <3>1 DEF Here, Place
    <3>4. SmbHeard(Here)' = SmbHeard(Here)
      BY <3>1, <3>3 DEF SmbHeard, Happened
    <3>5. SmbFits(findings \o local.found, Here, SmbHeard(Here))'
      BY <3>1, <3>2, <3>3, <3>4 DEF SmbFits
    <3> QED BY <3>1, <3>2, <3>3, <3>5 DEF Happened
  <2>2. CASE Probes
    <3>1. pc = "smb"
      BY <2>2, ProbesRecord
    <3>2. \A p : p = Here =>
            /\ SmbFits(findings' \o local'.found, p, SmbHeard(p)') /\ todo' = todo
            /\ step' = "shares" => Happened("smb", p, <<"session">>)'
      BY <1>3, <2>2, <3>1
    <3>3. todo' = todo
      BY <3>2
    <3>4. \A p : p = Here => p = Here'
      BY <3>3 DEF Here, Place
    <3>5. \A p : p = Here' => SmbHeard(p)' = SmbHeard(Here)'
      BY DEF SmbHeard, Happened
    <3> QED BY <3>2, <3>4, <3>5 DEF SmbFits, Happened
  <2> QED BY <2>1, <2>2
<1>5. ASSUME NEW p PROVE SmbServedAt(p)'
  BY <1>1, <1>3, SettledOrHere, SmbStays
<1> QED BY <1>4, <1>5

-----------------------------------------------------------------------------
(* FTP: what a login is taken from.                                         *)

\* A piece of the code, or of half of it, is on its way.
Speaks(wire, code) == \E i \in DOMAIN wire : wire[i] \in {code, -code}

Granted(p) == Happened("ftp", p, "granted")
Misled(p) == Happened("ftp", p, "misleading")
LeftOver(p) == Happened("ftp", p, "leftover")
InStep(p) == ~LeftOver(p) /\ ~Happened("ftp", p, "lost")

LoggedIn(p) == Found("ftp", "anonymous", p) # {}

\* A dialogue: nothing speaks of a login but one that was granted or a text
\* that is misleading, and as long as nothing was left over exactly one reply
\* is on its way.
InDialogue(at, wire, p) ==
  /\ Speaks(wire, 230) => Granted(p) \/ Misled(p)
  /\ at = "greeting" /\ Granted(p) /\ InStep(p) => LoggedIn(p)
  /\ at \in {"user", "pass"} /\ ~LeftOver(p) =>
       \E reply \in {230, 331, 530} :
         /\ wire \in Cuts(reply)
         /\ reply = 230 => Granted(p)
         /\ Granted(p) /\ InStep(p) => reply = 230 \/ LoggedIn(p)

FtpSoFar == pc = "ftp" /\ Under => InDialogue(step, local.wire, Here)

\* LoginAsGranted of one place.
LoginAt(p) ==
  /\ LoggedIn(p) => Granted(p) \/ (LeftOver(p) /\ Misled(p))
  /\ Settled("ftp", p) /\ Granted(p) /\ InStep(p) => LoggedIn(p)

LEMMA LoginImplies ==
  ASSUME Probing, \A p : LoginAt(p)
  PROVE  LoginAsGranted
<1>1. \A p : DoneWith("ftp", p) => Settled("ftp", p)
  BY DoneIsSettled, StageNames
<1> QED BY <1>1 DEF LoginAsGranted, LoginAt, Granted, Misled, LeftOver, InStep, LoggedIn

LEMMA WholeReply ==
  ASSUME NEW code \in {220, 230, 331, 530}, NEW cut \in Cuts(code)
  PROVE  /\ Code(cut, Len(cut)) = code
         /\ \A n \in 1..Len(cut) : Code(cut, n) \in {code, Text}
         /\ Speaks(cut, 230) => code = 230 \/ 230 \in ToSet(cut)
<1>1. cut = <<code>> \/ cut = <<-code, Text>> \/ \E piece \in {code, Text, 230, 331} : cut = <<code, piece>>
  BY DEF Cuts, Lookalikes
<1>2. code \in Int /\ code > 0 /\ Text = 0
  BY DEF Text
<1>3. CASE cut = <<code>>
  BY <1>2, <1>3 DEF Code, Speaks
<1>4. ASSUME NEW piece \in {code, Text, 230, 331}, cut = <<code, piece>>
      PROVE  /\ Code(cut, Len(cut)) = code
             /\ \A n \in 1..Len(cut) : Code(cut, n) \in {code, Text}
             /\ Speaks(cut, 230) => code = 230 \/ 230 \in ToSet(cut)
  <2>1. Head(cut) = code /\ Len(cut) = 2 /\ DOMAIN cut = 1..2 /\ cut[1] = code /\ cut[2] = piece
    BY <1>4
  <2>2. piece \in Int /\ piece >= 0
    BY <1>2
  <2>3. Speaks(cut, 230) => code = 230 \/ piece = 230
    BY <1>2, <2>1, <2>2 DEF Speaks
  <2>4. piece \in ToSet(cut)
    BY <2>1 DEF ToSet
  <2> QED BY <1>2, <2>1, <2>3, <2>4 DEF Code
<1>6. CASE cut = <<-code, Text>>
  <2>1. Head(cut) = -code /\ Len(cut) = 2 /\ DOMAIN cut = 1..2 /\ cut[1] = -code /\ cut[2] = 0
    BY <1>2, <1>6
  <2> QED BY <1>2, <2>1 DEF Code, Speaks
<1> QED BY <1>1, <1>3, <1>4, <1>6

LEMMA GreetingSilent ==
  ASSUME NEW cut \in Greetings, Speaks(cut, 230)
  PROVE  230 \in ToSet(cut)
<1>1. CASE cut \in Cuts(220)
  BY <1>1, WholeReply
<1>2. CASE cut = <<Blank>>
  <2>1. DOMAIN cut = {1} /\ cut[1] = 1
    BY <1>2 DEF Blank
  <2> QED BY <2>1 DEF Speaks
<1> QED BY <1>1, <1>2 DEF Greetings

LEMMA CodeSpeaks ==
  ASSUME NEW wire \in Seq(Int), NEW n \in 1..Len(wire), Code(wire, n) = 230
  PROVE  Speaks(wire, 230)
<1>1. 1 \in DOMAIN wire /\ Head(wire) = wire[1] /\ wire[1] \in Int
  OBVIOUS
<1>2. Text # 230
  BY DEF Text
<1>3. wire[1] \in {230, -230}
  BY <1>1, <1>2 DEF Code
<1> QED BY <1>1, <1>3 DEF Speaks

\* What is on its way after a read and another reply.
Behind(wire, n, cut) == Rest(wire, n) \o cut

LEMMA RestSpeaks ==
  ASSUME NEW wire \in Seq(Int), NEW n \in 1..Len(wire), NEW cut \in Seq(Int)
  PROVE  /\ Speaks(Behind(wire, n, cut), 230) => Speaks(wire, 230) \/ Speaks(cut, 230)
         /\ n = Len(wire) => Behind(wire, n, cut) = cut
<1> DEFINE rest == Rest(wire, n)
<1>1. /\ rest \in Seq(Int) /\ Len(rest) = Len(wire) - n
      /\ \A i \in DOMAIN rest : i + n \in DOMAIN wire /\ rest[i] = wire[i + n]
  BY DEF Rest
<1> HIDE DEF rest
<1>2. \A a, b \in Seq(Int) : \A i \in DOMAIN (a \o b) :
        (i \in DOMAIN a /\ (a \o b)[i] = a[i])
        \/ (i - Len(a) \in DOMAIN b /\ (a \o b)[i] = b[i - Len(a)])
  OBVIOUS
<1>3. Speaks(rest \o cut, 230) => Speaks(wire, 230) \/ Speaks(cut, 230)
  <2> SUFFICES ASSUME NEW i \in DOMAIN (rest \o cut), (rest \o cut)[i] \in {230, -230}
               PROVE  Speaks(wire, 230) \/ Speaks(cut, 230)
    BY DEF Speaks
  <2>1. CASE i \in DOMAIN rest /\ (rest \o cut)[i] = rest[i]
    BY <1>1, <2>1 DEF Speaks
  <2>2. CASE i - Len(rest) \in DOMAIN cut /\ (rest \o cut)[i] = cut[i - Len(rest)]
    BY <2>2 DEF Speaks
  <2>3. \/ i \in DOMAIN rest /\ (rest \o cut)[i] = rest[i]
        \/ i - Len(rest) \in DOMAIN cut /\ (rest \o cut)[i] = cut[i - Len(rest)]
    BY <1>1, <1>2
  <2> QED BY <2>1, <2>2, <2>3
<1>4. ASSUME n = Len(wire) PROVE rest \o cut = cut
  <2>1. rest = <<>>
    BY <1>1, <1>4
  <2> QED BY <2>1
<1> QED BY <1>3, <1>4 DEF rest, Behind

\* What a read says of a login.
LEMMA ReadInStep ==
  ASSUME NEW p, step \in {"user", "pass"}, local.wire \in Seq(Int), NEW n \in 1..Len(local.wire),
         InDialogue(step, local.wire, p)
  PROVE  /\ Code(local.wire, n) = 230 => Granted(p) \/ (LeftOver(p) /\ Misled(p))
         /\ Granted(p) /\ InStep(p) /\ n = Len(local.wire) =>
              Code(local.wire, n) = 230 \/ LoggedIn(p)
<1>1. Code(local.wire, n) = 230 => Granted(p) \/ Misled(p)
  BY CodeSpeaks DEF InDialogue
<1>2. ASSUME ~LeftOver(p)
      PROVE  /\ Code(local.wire, n) = 230 => Granted(p)
             /\ Granted(p) /\ InStep(p) /\ n = Len(local.wire) =>
                  Code(local.wire, n) = 230 \/ LoggedIn(p)
  <2>1. PICK reply \in {230, 331, 530} :
          /\ local.wire \in Cuts(reply)
          /\ reply = 230 => Granted(p)
          /\ Granted(p) /\ InStep(p) => reply = 230 \/ LoggedIn(p)
    BY <1>2 DEF InDialogue
  <2>2. /\ n = Len(local.wire) => Code(local.wire, n) = reply
        /\ Code(local.wire, n) \in {reply, Text}
    BY <2>1, WholeReply
  <2>3. Text # 230
    BY DEF Text
  <2> QED BY <2>1, <2>2, <2>3
<1> QED BY <1>1, <1>2 DEF InStep

LEMMA NextInStep ==
  ASSUME NEW p, NEW wire \in Seq(Int), NEW n \in 1..Len(wire), NEW reply \in {230, 331, 530},
         NEW cut \in Cuts(reply),
         Speaks(wire, 230) => Granted(p) \/ Misled(p),
         Granted(p) /\ InStep(p) /\ n = Len(wire) => LoggedIn(p),
         Granted(p)' <=> Granted(p) \/ reply = 230,
         Misled(p)' <=> Misled(p) \/ (reply # 230 /\ 230 \in ToSet(cut)),
         LeftOver(p)' <=> LeftOver(p) \/ n < Len(wire),
         InStep(p)' => InStep(p), LoggedIn(p)' <=> LoggedIn(p),
         step' \in {"user", "pass"}, local'.wire = Behind(wire, n, cut)
  PROVE  InDialogue(step, local.wire, p)'
<1>1. cut \in Seq(Int)
  BY CutPieces
<1>2. Speaks(local'.wire, 230) => Granted(p)' \/ Misled(p)'
  BY <1>1, RestSpeaks, WholeReply
<1>3. ASSUME ~LeftOver(p)'
      PROVE  /\ local'.wire \in Cuts(reply)
             /\ reply = 230 => Granted(p)'
             /\ Granted(p)' /\ InStep(p)' => reply = 230 \/ LoggedIn(p)'
  <2>1. n = Len(wire)
    BY <1>3
  <2>2. Behind(wire, n, cut) = cut
    <3>1. n = Len(wire) => Behind(wire, n, cut) = cut
      BY <1>1, RestSpeaks
    <3> QED BY <2>1, <3>1
  <2> QED BY <2>1, <2>2
<1>4. ~LeftOver(p)' =>
        \E code \in {230, 331, 530} :
          /\ local'.wire \in Cuts(code)
          /\ code = 230 => Granted(p)'
          /\ Granted(p)' /\ InStep(p)' => code = 230 \/ LoggedIn(p)'
  BY <1>3
<1> QED BY <1>2, <1>4 DEF InDialogue

LEMMA AnonymousReported ==
  ASSUME pc = "ftp", NEW p, p = Here, NEW banner, NEW anonymous \in BOOLEAN
  PROVE  /\ OurFindings(FtpFindings(banner, anonymous))
         /\ Of(FtpFindings(banner, anonymous), <<"ftp", "anonymous", p>>) # {} <=> anonymous
<1> DEFINE a == IF banner = Blank THEN <<>> ELSE <<Finding("banner", Here, "Info", banner)>>
           b == IF anonymous THEN <<Finding("anonymous", Here, "High", "accepted")>> ELSE <<>>
<1>1. OurFindings(a) /\ OurFindings(b)
  BY MadeHere, NoFinding
<1>2. Of(a, <<"ftp", "anonymous", p>>) = {}
  <2>1. Of(<<Finding("banner", Here, "Info", banner)>>, <<pc, "anonymous", Here>>) = {}
    BY OfOne
  <2> QED BY <2>1, OfNone
<1>3. Of(b, <<"ftp", "anonymous", p>>) # {} <=> anonymous
  <2> DEFINE f == Finding("anonymous", Here, "High", "accepted")
  <2>1. Of(<<f>>, <<pc, "anonymous", Here>>) = {f}
    <3>1. \A k : Of(<<f>>, <<pc, k, Here>>) = IF k = "anonymous" THEN {f} ELSE {}
      BY OfOne
    <3> HIDE DEF f
    <3> QED BY <3>1
  <2> HIDE DEF f
  <2> QED BY <2>1, OfNone DEF f
<1> HIDE DEF a, b
<1>4. OurFindings(a \o b) /\ Of(a \o b, <<"ftp", "anonymous", p>>)
                               = Of(a, <<"ftp", "anonymous", p>>) \cup Of(b, <<"ftp", "anonymous", p>>)
  BY <1>1, JoinedFindings, OfJoined DEF OurFindings
<1> QED BY <1>2, <1>3, <1>4 DEF FtpFindings, a, b

\* A step of a dialogue goes on with it, or ends it with what it found.
FtpOver(p, new) ==
  LET logged_in == Of(new, <<"ftp", "anonymous", p>>) # {} IN
  /\ Conclude(new) /\ OurFindings(new)
  /\ logged_in => Granted(p)' \/ (LeftOver(p)' /\ Misled(p)')
  /\ Granted(p)' /\ InStep(p)' => logged_in \/ LoggedIn(p)

FtpMoves(p) ==
  \/ /\ UNCHANGED <<pc, todo, findings>> /\ step' \notin {"idle", "enter"}
     /\ InDialogue(step, local.wire, p)'
  \/ \E new : FtpOver(p, new)

\* A read of n pieces, and a reply to what is sent then.
FtpReads(at, n, reply, cut, banner) ==
  /\ Continue(at, [wire |-> Behind(local.wire, n, cut), banner |-> banner])
  /\ Saw(Here, Remains(local.wire, n) \cup Meant(reply, cut))

LEMMA FtpMoving ==
  ASSUME FtpDialogue, FtpSoFar, FtpStep, NEW p, p = Here, LoginAt(p)
  PROVE  FtpMoves(p)
<1>1. pc = "ftp" /\ pc \in StageSet \ {"dns"} /\ Probed /\ step # "enter"
  BY FtpProbed, StageNames DEF Probed
<1>2. ASSUME NEW banner, NEW anonymous \in BOOLEAN, Conclude(FtpFindings(banner, anonymous)),
             anonymous => Granted(p)' \/ (LeftOver(p)' /\ Misled(p)'),
             Granted(p)' /\ InStep(p)' => anonymous \/ LoggedIn(p)
      PROVE  FtpMoves(p)
  <2> DEFINE new == FtpFindings(banner, anonymous)
  <2>1. OurFindings(new) /\ (Of(new, <<"ftp", "anonymous", p>>) # {} <=> anonymous) /\ Conclude(new)
    BY <1>1, <1>2, AnonymousReported
  <2> HIDE DEF new
  <2>2. FtpOver(p, new)
    BY <1>2, <2>1 DEF FtpOver
  <2> QED BY <2>2 DEF FtpMoves
<1>3. ASSUME Conclude(<<>>), Granted(p)' /\ InStep(p)' => LoggedIn(p)
      PROVE  FtpMoves(p)
  <2>1. FtpOver(p, <<>>)
    BY <1>3, NoFinding, OfNone DEF FtpOver
  <2> QED BY <2>1 DEF FtpMoves
<1>4. ASSUME NEW facts, Saw(Here, facts)
      PROVE  /\ Granted(p)' <=> Granted(p) \/ "granted" \in facts
             /\ Misled(p)' <=> Misled(p) \/ "misleading" \in facts
             /\ LeftOver(p)' <=> LeftOver(p) \/ "leftover" \in facts
             /\ InStep(p)' <=> InStep(p) /\ "lost" \notin facts /\ "leftover" \notin facts
  <2>1. \A fact : Happened("ftp", p, fact)' <=> Happened("ftp", p, fact) \/ fact \in facts
    BY <1>1, <1>4, SeenHere
  <2> QED BY <2>1 DEF Granted, Misled, LeftOver, InStep
<1>6. step # "idle" => local.wire \in Seq(Int) /\ InDialogue(step, local.wire, p)
  BY <1>1 DEF FtpSoFar, Under, FtpDialogue
<1>7. ASSUME NEW n \in 1..Len(local.wire)
      PROVE  /\ "leftover" \in Remains(local.wire, n) <=> n < Len(local.wire)
             /\ Remains(local.wire, n) \subseteq {"leftover"}
  BY DEF Remains
<1>14. ASSUME step \in {"user", "pass"}, NEW n \in 1..Len(local.wire)
       PROVE  /\ Code(local.wire, n) = 230 => Granted(p) \/ (LeftOver(p) /\ Misled(p))
              /\ Granted(p) /\ InStep(p) /\ n = Len(local.wire) =>
                   Code(local.wire, n) = 230 \/ LoggedIn(p)
  BY <1>6, <1>14, ReadInStep
<1>15. \A reply, cut : /\ "granted" \in Meant(reply, cut) <=> reply = 230
                       /\ "misleading" \in Meant(reply, cut) <=> reply # 230 /\ 230 \in ToSet(cut)
                       /\ Meant(reply, cut) \subseteq {"granted", "misleading"}
  BY DEF Meant
\* A read of n pieces and the reply to what is sent then.
<1>8. ASSUME step # "idle", NEW n \in 1..Len(local.wire), NEW reply \in {230, 331, 530},
             NEW cut \in Cuts(reply), NEW at \in {"user", "pass"}, NEW banner,
             Granted(p) /\ InStep(p) /\ n = Len(local.wire) => LoggedIn(p),
             FtpReads(at, n, reply, cut, banner)
      PROVE  FtpMoves(p)
  <2> DEFINE facts == Remains(local.wire, n) \cup Meant(reply, cut)
             left == Remains(local.wire, n)
             meant == Meant(reply, cut)
  <2>1. /\ "granted" \in facts <=> reply = 230
        /\ "misleading" \in facts <=> reply # 230 /\ 230 \in ToSet(cut)
        /\ "leftover" \in facts <=> n < Len(local.wire)
    <3>1. /\ "leftover" \in left <=> n < Len(local.wire)
          /\ left \subseteq {"leftover"}
      BY <1>7
    <3>2. /\ "granted" \in meant <=> reply = 230
          /\ "misleading" \in meant <=> reply # 230 /\ 230 \in ToSet(cut)
          /\ meant \subseteq {"granted", "misleading"}
      BY <1>15
    <3> HIDE DEF left, meant
    <3>3. facts = left \cup meant
      BY DEF left, meant
    <3> HIDE DEF facts
    <3>4. "granted" \in facts <=> "granted" \in meant
      BY <3>1, <3>3
    <3>5. "misleading" \in facts <=> "misleading" \in meant
      BY <3>1, <3>3
    <3>6. "leftover" \in facts <=> "leftover" \in left
      BY <3>2, <3>3
    <3> QED BY <3>1, <3>2, <3>4, <3>5, <3>6
  <2>2. Saw(Here, facts)
    BY <1>8 DEF FtpReads
  <2> HIDE DEF facts, left, meant
  <2>8. /\ Granted(p)' <=> Granted(p) \/ "granted" \in facts
        /\ Misled(p)' <=> Misled(p) \/ "misleading" \in facts
        /\ LeftOver(p)' <=> LeftOver(p) \/ "leftover" \in facts
        /\ InStep(p)' <=> InStep(p) /\ "lost" \notin facts /\ "leftover" \notin facts
    BY <1>4, <2>2
  <2>3. /\ Granted(p)' <=> Granted(p) \/ reply = 230
        /\ Misled(p)' <=> Misled(p) \/ (reply # 230 /\ 230 \in ToSet(cut))
        /\ LeftOver(p)' <=> LeftOver(p) \/ n < Len(local.wire)
        /\ InStep(p)' => InStep(p)
    <3>1. Granted(p)' <=> Granted(p) \/ reply = 230
      BY <2>1, <2>8
    <3>2. Misled(p)' <=> Misled(p) \/ (reply # 230 /\ 230 \in ToSet(cut))
      BY <2>1, <2>8
    <3>3. LeftOver(p)' <=> LeftOver(p) \/ n < Len(local.wire)
      BY <2>1, <2>8
    <3>4. InStep(p)' => InStep(p)
      BY <2>8
    <3> QED BY <3>1, <3>2, <3>3, <3>4
  <2> DEFINE wire == Behind(local.wire, n, cut)
  <2>4. UNCHANGED <<pc, todo, findings>> /\ step' = at /\ local'.wire = wire
    BY <1>8 DEF Continue, FtpReads
  <2> HIDE DEF wire
  <2>5. LoggedIn(p)' <=> LoggedIn(p)
    BY <2>4 DEF LoggedIn, Found
  <2>6. local.wire \in Seq(Int) /\ (Speaks(local.wire, 230) => Granted(p) \/ Misled(p))
    BY <1>6, <1>8 DEF InDialogue
  <2>7. InDialogue(step, local.wire, p)'
    BY <1>8, <2>3, <2>4, <2>5, <2>6, NextInStep DEF wire
  <2> QED BY <2>4, <2>7 DEF FtpMoves
\* A read of n pieces that ends the dialogue.
<1>9. ASSUME step \in {"user", "pass"}, NEW n \in 1..Len(local.wire),
             Conclude(FtpFindings(local.banner, Code(local.wire, n) = 230)),
             Saw(Here, Remains(local.wire, n))
      PROVE  FtpMoves(p)
  <2>1. /\ Code(local.wire, n) = 230 => Granted(p) \/ (LeftOver(p) /\ Misled(p))
        /\ Granted(p) /\ InStep(p) /\ n = Len(local.wire) =>
             Code(local.wire, n) = 230 \/ LoggedIn(p)
    BY <1>9, <1>14
  <2>2. ~(n < Len(local.wire)) => n = Len(local.wire)
    BY <1>6, <1>9
  <2>3. /\ Granted(p)' <=> Granted(p)
        /\ Misled(p) => Misled(p)'
        /\ LeftOver(p) => LeftOver(p)'
        /\ InStep(p)' => InStep(p) /\ n = Len(local.wire)
    BY <1>4, <1>7, <1>9, <2>2
  <2> QED BY <1>2, <1>9, <2>1, <2>3
<1>10. CASE FtpConnect
  <2>1. step = "idle" /\ (Granted(p) /\ InStep(p) => LoggedIn(p))
    BY <1>1, <1>10, StageNames DEF FtpConnect, Begins, At, LoginAt, Settled, ProbeOf, Under
  <2>2. CASE Conclude(<<>>) /\ UNCHANGED seen
    <3>1. (Granted(p)' <=> Granted(p)) /\ (InStep(p)' <=> InStep(p))
      BY <2>2 DEF Granted, InStep, LeftOver, Happened
    <3> QED BY <1>3, <2>1, <2>2, <3>1
  <2>3. CASE ~(Conclude(<<>>) /\ UNCHANGED seen)
    <3>1. PICK cut \in Greetings : /\ Continue("greeting", [wire |-> cut, banner |-> Text])
                                  /\ Saw(Here, Meant(220, cut))
      BY <1>10, <2>3 DEF FtpConnect
    <3>2. /\ Granted(p)' <=> Granted(p)
          /\ 230 \in ToSet(cut) => Misled(p)'
          /\ InStep(p)' <=> InStep(p)
      <4> DEFINE facts == Meant(220, cut)
      <4>1. /\ "granted" \notin facts /\ "leftover" \notin facts /\ "lost" \notin facts
            /\ 230 \in ToSet(cut) => "misleading" \in facts
        <5>1. /\ "granted" \in facts <=> 220 = 230
              /\ "misleading" \in facts <=> 220 # 230 /\ 230 \in ToSet(cut)
              /\ facts \subseteq {"granted", "misleading"}
          BY <1>15
        <5> HIDE DEF facts
        <5>2. "granted" \notin facts
          BY <5>1
        <5>3. "leftover" \notin facts /\ "lost" \notin facts
          BY <5>1
        <5>4. 230 \in ToSet(cut) => "misleading" \in facts
          BY <5>1
        <5> QED BY <5>2, <5>3, <5>4
      <4>2. Saw(Here, facts)
        BY <3>1
      <4> HIDE DEF facts
      <4> QED BY <1>4, <4>1, <4>2
    <3>3. LoggedIn(p)' <=> LoggedIn(p)
      BY <3>1 DEF LoggedIn, Found, Continue
    <3>4. UNCHANGED <<pc, todo, findings>> /\ step' = "greeting" /\ local'.wire = cut
      BY <3>1 DEF Continue
    <3>5. InDialogue(step, local.wire, p)'
      BY <2>1, <3>2, <3>3, <3>4, GreetingSilent DEF InDialogue
    <3> QED BY <3>4, <3>5 DEF FtpMoves
  <2> QED BY <2>2, <2>3
<1>16. ASSUME Saw(Here, {"lost"}) PROVE ~InStep(p)' /\ (Granted(p)' <=> Granted(p))
  <2> DEFINE facts == {"lost"}
  <2>1. "lost" \in facts /\ "granted" \notin facts /\ Saw(Here, facts)
    BY <1>16
  <2> HIDE DEF facts
  <2>2. /\ Granted(p)' <=> Granted(p) \/ "granted" \in facts
        /\ InStep(p)' <=> InStep(p) /\ "lost" \notin facts /\ "leftover" \notin facts
    BY <1>4, <2>1
  <2> QED BY <2>1, <2>2
<1>11. CASE FtpGreeting
  <2>1. step = "greeting" /\ (Granted(p) /\ InStep(p) => LoggedIn(p))
    BY <1>6, <1>11 DEF FtpGreeting, At, InDialogue
  <2>2. CASE Conclude(<<>>) /\ Saw(Here, {"lost"})
    BY <1>3, <1>16, <2>2
  <2>3. CASE ~(Conclude(<<>>) /\ Saw(Here, {"lost"}))
    <3> DEFINE Answer(n, cut) == [wire |-> Behind(local.wire, n, cut), banner |-> Code(local.wire, n)]
               Facts(n, reply, cut) == Remains(local.wire, n) \cup Meant(reply, cut)
    <3>1. PICK n \in 1..Len(local.wire), reply \in {230, 331, 530} :
            \E cut \in Cuts(reply) : Continue("user", Answer(n, cut)) /\ Saw(Here, Facts(n, reply, cut))
      BY <1>11, <2>3 DEF FtpGreeting, Behind
    <3> HIDE DEF Answer, Facts
    <3>2. PICK cut \in Cuts(reply) : Continue("user", Answer(n, cut)) /\ Saw(Here, Facts(n, reply, cut))
      BY <3>1
    <3>3. FtpReads("user", n, reply, cut, Code(local.wire, n))
      BY <3>2 DEF Answer, Facts, FtpReads
    <3> QED BY <1>8, <2>1, <3>3
  <2> QED BY <2>2, <2>3
<1>12. CASE FtpUser
  <2>1. step = "user"
    BY <1>12 DEF FtpUser, At
  <2>2. CASE Conclude(FtpFindings(local.banner, FALSE)) /\ Saw(Here, {"lost"})
    BY <1>2, <1>16, <2>2
  <2>3. CASE ~(Conclude(FtpFindings(local.banner, FALSE)) /\ Saw(Here, {"lost"}))
    <3> DEFINE Answer(n, cut) == [wire |-> Behind(local.wire, n, cut), banner |-> local.banner]
               Facts(n, reply, cut) == Remains(local.wire, n) \cup Meant(reply, cut)
               Asked(n) == \E reply \in {230, 530} : \E cut \in Cuts(reply) :
                             Continue("pass", Answer(n, cut)) /\ Saw(Here, Facts(n, reply, cut))
    <3>1. PICK n \in 1..Len(local.wire) :
            IF Code(local.wire, n) # 331
            THEN /\ Conclude(FtpFindings(local.banner, Code(local.wire, n) = 230))
                 /\ Saw(Here, Remains(local.wire, n))
            ELSE (Conclude(<<>>) /\ Saw(Here, {"lost"})) \/ Asked(n)
      BY <1>12, <2>3 DEF FtpUser, Behind
    <3>2. CASE Code(local.wire, n) # 331
      BY <1>9, <2>1, <3>1, <3>2
    <3>3. CASE Code(local.wire, n) = 331
      <4>1. CASE Conclude(<<>>) /\ Saw(Here, {"lost"})
        BY <1>3, <1>16, <4>1
      <4>2. CASE Asked(n)
        <5> HIDE DEF Answer, Facts
        <5>1. PICK reply \in {230, 530} : \E cut \in Cuts(reply) :
                Continue("pass", Answer(n, cut)) /\ Saw(Here, Facts(n, reply, cut))
          BY <4>2
        <5>2. PICK cut \in Cuts(reply) : Continue("pass", Answer(n, cut)) /\ Saw(Here, Facts(n, reply, cut))
          BY <5>1
        <5>3. Granted(p) /\ InStep(p) /\ n = Len(local.wire) => LoggedIn(p)
          <6>1. Granted(p) /\ InStep(p) /\ n = Len(local.wire) =>
                  Code(local.wire, n) = 230 \/ LoggedIn(p)
            BY <1>14, <2>1
          <6> QED BY <3>3, <6>1
        <5>4. FtpReads("pass", n, reply, cut, local.banner)
          BY <5>2 DEF Answer, Facts, FtpReads
        <5>5. step # "idle" /\ reply \in {230, 331, 530}
          BY <2>1, <5>1
        <5> QED BY <1>8, <5>3, <5>4, <5>5
      <4> HIDE DEF Asked
      <4> QED BY <3>1, <3>3, <4>1, <4>2
    <3> QED BY <3>2, <3>3
  <2> QED BY <2>2, <2>3
<1>13. CASE FtpPass
  <2>1. CASE Conclude(FtpFindings(local.banner, FALSE)) /\ Saw(Here, {"lost"})
    BY <1>2, <1>16, <2>1
  <2>2. CASE ~(Conclude(FtpFindings(local.banner, FALSE)) /\ Saw(Here, {"lost"}))
    BY <1>9, <1>13, <2>2 DEF FtpPass, At
  <2> QED BY <2>1, <2>2
<1> QED BY <1>10, <1>11, <1>12, <1>13 DEF FtpStep

LEMMA FtpStays ==
  ASSUME NEW p, Still("ftp", p), Settled("ftp", p)' => Settled("ftp", p), LoginAt(p)
  PROVE  LoginAt(p)'
<1>1. /\ (Granted(p)' <=> Granted(p)) /\ (Misled(p)' <=> Misled(p))
      /\ (LeftOver(p)' <=> LeftOver(p)) /\ (InStep(p)' <=> InStep(p))
  BY DEF Still, Granted, Misled, LeftOver, InStep
<1>2. LoggedIn(p)' <=> LoggedIn(p)
  BY DEF Still, LoggedIn
<1> QED BY <1>1, <1>2 DEF LoginAt

LEMMA SeenGrows ==
  ASSUME Probes, Gathering
  PROVE  \A stage, p, fact : Happened(stage, p, fact) => Happened(stage, p, fact)'
<1>1. seen \subseteq seen'
  BY ProbesRecord DEF Recorded, Noted
<1> QED BY <1>1 DEF Happened

LEMMA FtpStageStep ==
  ASSUME Course, Probing, Dialogues, Ledger, Gathering, [Next]_vars, FtpSoFar, \A p : LoginAt(p)
  PROVE  FtpSoFar' /\ \A p : LoginAt(p)'
<1>1. "ftp" \in StageSet \ {"dns"}
  BY StageNames
<1>2. ASSUME Probes, pc = "ftp"
      PROVE  FtpStep /\ Probed /\ UNCHANGED <<pc, summary>>
  BY <1>2, HttpProbed, DnsProbed, SmbProbed, SnmpProbed, TlsProbed, FtpProbed DEF Probes, Probed
<1>3. ASSUME Probes, pc = "ftp", NEW p, p = Here
      PROVE  /\ LoginAt(p)'
             /\ Under' => /\ InDialogue(step, local.wire, p)' /\ todo' = todo
  <2>1. FtpMoves(p)
    BY <1>2, <1>3, FtpMoving DEF Dialogues
  <2>2. /\ Granted(p) => Granted(p)'
        /\ LeftOver(p) /\ Misled(p) => LeftOver(p)' /\ Misled(p)'
    BY <1>3, SeenGrows DEF Granted, LeftOver, Misled
  <2>3. CASE /\ UNCHANGED <<pc, todo, findings>> /\ step' \notin {"idle", "enter"}
             /\ InDialogue(step, local.wire, p)'
    <3>1. ~Settled("ftp", p)'
      BY <1>1, <1>3, <2>3 DEF Settled, ProbeOf, Under, Here, Place
    <3>2. LoggedIn(p)' <=> LoggedIn(p)
      BY <2>3 DEF LoggedIn, Found
    <3> QED BY <2>2, <2>3, <3>1, <3>2 DEF LoginAt
  <2>4. CASE \E new : FtpOver(p, new)
    <3>1. PICK new : FtpOver(p, new)
      BY <2>4
    <3>2. \A kind : Found("ftp", kind, p)' = Found("ftp", kind, p) \cup Of(new, <<"ftp", kind, p>>)
      BY <3>1, FoundHere DEF FtpOver, Conclude
    <3>3. LoggedIn(p)' <=> LoggedIn(p) \/ Of(new, <<"ftp", "anonymous", p>>) # {}
      BY <3>2 DEF LoggedIn
    <3>4. ~Under'
      BY <3>1 DEF FtpOver, Conclude, Under
    <3> QED BY <2>2, <3>1, <3>3, <3>4 DEF FtpOver, LoginAt
  <2> QED BY <2>1, <2>3, <2>4 DEF FtpMoves
<1>4. FtpSoFar'
  <2> SUFFICES ASSUME pc' = "ftp", Under'
               PROVE  InDialogue(step, local.wire, Here)'
    BY DEF FtpSoFar
  <2>1. CASE ~Probes
    <3>1. Under /\ UNCHANGED <<pc, step, todo, local, seen, findings>>
      BY <2>1, StillUnder
    <3>2. InDialogue(step, local.wire, Here)
      BY <3>1 DEF FtpSoFar
    <3>3. Here' = Here
      BY <3>1 DEF Here, Place
    <3>4. /\ (Granted(Here)' <=> Granted(Here)) /\ (Misled(Here)' <=> Misled(Here))
          /\ (LeftOver(Here)' <=> LeftOver(Here)) /\ (InStep(Here)' <=> InStep(Here))
          /\ LoggedIn(Here)' <=> LoggedIn(Here)
      BY <3>1, <3>3 DEF Granted, Misled, LeftOver, InStep, LoggedIn, Happened, Found
    <3> QED BY <3>1, <3>2, <3>4 DEF InDialogue
  <2>2. CASE Probes
    <3>1. pc = "ftp"
      BY <2>2, ProbesRecord
    <3>2. \A p : p = Here => todo' = todo /\ InDialogue(step, local.wire, p)'
      BY <1>3, <2>2, <3>1
    <3>3. todo' = todo
      BY <3>2
    <3>4. \A p : p = Here => p = Here'
      BY <3>3 DEF Here, Place
    <3>5. \A p : p = Here' => /\ (Granted(p)' <=> Granted(Here)') /\ (Misled(p)' <=> Misled(Here)')
                             /\ (LeftOver(p)' <=> LeftOver(Here)') /\ (InStep(p)' <=> InStep(Here)')
                             /\ LoggedIn(p)' <=> LoggedIn(Here)'
      BY DEF Granted, Misled, LeftOver, InStep, LoggedIn, Happened, Found
    <3> QED BY <3>2, <3>4, <3>5 DEF InDialogue
  <2> QED BY <2>1, <2>2
<1>5. ASSUME NEW p PROVE LoginAt(p)'
  BY <1>1, <1>3, SettledOrHere, FtpStays
<1> QED BY <1>4, <1>5

-----------------------------------------------------------------------------
(* DNS: what a list tells of the names, and what the resolver returned.     *)

\* A record by its kind, its name and its data.
Pairs(list) == {<<f.id[2], f.id[3]>> : f \in {g \in ToSet(list) : g.id[1] = "dns"}}

Answers(facts) == {<<e[3], e[2]>> : e \in {q \in facts : q[1] = "dns"}}

NewPairs(kind, data) == {<<kind, <<Domain, x>>>> : x \in data}

DnsSoFar ==
  pc # "killed" =>
    Pairs(findings) \cup (IF pc = "dns" /\ Under THEN Pairs(local.found) ELSE {}) = Answers(seen)

\* What a killed run leaves in memory is as true as what was there before.
DnsKept == pc = "killed" => DnsAsAnswered

LEMMA PairsJoined ==
  ASSUME NEW a, NEW b, a \in Seq(ToSet(a)), b \in Seq(ToSet(b))
  PROVE  Pairs(a \o b) = Pairs(a) \cup Pairs(b)
<1>1. ToSet(a \o b) = ToSet(a) \cup ToSet(b)
  BY JoinedElements
<1> QED BY <1>1 DEF Pairs

LEMMA PairsNone == Pairs(<<>>) = {}
BY DEF Pairs, ToSet

LEMMA PairsElsewhere ==
  ASSUME NEW list, OurFindings(list), pc # "dns"
  PROVE  Pairs(list) = {}
BY DEF Pairs, OurFindings, Ours

LEMMA PairsRecorded ==
  ASSUME pc = "dns", NEW kind, NEW list, list \in Seq(ToSet(list))
  PROVE  Pairs(Records(kind, list)) = NewPairs(kind, ToSet(list))
<1> DEFINE R == Records(kind, list)
           F == {Record(kind, x) : x \in ToSet(list)}
<1>1. ToSet(R) = F
  BY RecordsFound
<1>2. \A x : Record(kind, x).id = <<"dns", kind, <<Domain, x>>>>
  BY DEF Record, Finding
<1>3. \A x : /\ Record(kind, x).id[1] = "dns" /\ Record(kind, x).id[2] = kind
             /\ Record(kind, x).id[3] = <<Domain, x>>
  BY <1>2
<1> HIDE DEF R
<1>4. Pairs(R) = NewPairs(kind, ToSet(list))
  <2> DEFINE new == NewPairs(kind, ToSet(list))
  <2>1. \A f \in F : f.id[1] = "dns" /\ <<f.id[2], f.id[3]>> \in new
    BY <1>3 DEF NewPairs
  <2>2. \A y \in new : \E f \in F : y = <<f.id[2], f.id[3]>>
    BY <1>3 DEF NewPairs
  <2> HIDE DEF F, new
  <2> QED BY <1>1, <2>1, <2>2 DEF Pairs, new
<1> QED BY <1>4 DEF R

LEMMA AnswersGrow ==
  ASSUME pc = "dns", NEW kind, NEW list, AllSeen(kind, list)
  PROVE  Answers(seen') = Answers(seen) \cup NewPairs(kind, ToSet(list))
<1> DEFINE new == {<<pc, <<Domain, x>>, kind>> : x \in ToSet(list)}
<1>1. seen' = seen \cup new
  BY DEF AllSeen
<1>2. Answers(new) = NewPairs(kind, ToSet(list))
  <2>1. \A x : LET e == <<pc, <<Domain, x>>, kind>> IN
               e[1] = "dns" /\ e[2] = <<Domain, x>> /\ e[3] = kind
    OBVIOUS
  <2>2. \A q \in new : q[1] = "dns" /\ <<q[3], q[2]>> \in NewPairs(kind, ToSet(list))
    BY <2>1 DEF NewPairs
  <2>3. \A y \in NewPairs(kind, ToSet(list)) : \E q \in new : y = <<q[3], q[2]>>
    BY <2>1 DEF NewPairs
  <2> HIDE DEF new
  <2> QED BY <2>2, <2>3 DEF Answers
<1> HIDE DEF new
<1>3. Answers(seen \cup new) = Answers(seen) \cup Answers(new)
  BY DEF Answers
<1> QED BY <1>1, <1>2, <1>3

LEMMA DnsTells ==
  ASSUME DnsStep \/ DnsTransfer, Course, Probing, Ledger, Gathering, DnsSoFar
  PROVE  Pairs(findings') \cup (IF step' # "idle" THEN Pairs(local'.found) ELSE {}) = Answers(seen')
<1>1. /\ pc = "dns" /\ pc \in StageSet /\ pc # "killed" /\ step # "enter" /\ todo # <<>>
      /\ findings \in Seq(ToSet(findings))
  BY DnsProbed, StageNames DEF Probed, Probing, Ledger
<1>2. step = "idle" => Pairs(findings) = Answers(seen)
  BY <1>1 DEF DnsSoFar, Under
<1>3. step # "idle" => /\ Pairs(findings) \cup Pairs(local.found) = Answers(seen)
                       /\ local.found \in Seq(ToSet(local.found))
  BY <1>1 DEF DnsSoFar, Under, Gathering, OurFindings
<1>4. \A kind \in ToSet(Lookups) \cup {"a"} : Data(kind) \in Seq(ToSet(Data(kind)))
  BY <1>1, DataLists
<1>5. \A s, locals : Continue(s, locals) => step' = s /\ local' = locals /\ findings' = findings
  BY DEF Continue
<1>6. CASE DnsResolve
  <2>1. step = "idle"
    BY <1>6 DEF DnsResolve, Begins, At
  <2>2. CASE Conclude(<<>>) /\ UNCHANGED seen
    <3>1. findings' = findings \o <<>> /\ step' = "idle"
      BY <2>2 DEF Conclude
    <3>2. findings' = findings
      BY <1>1, <3>1
    <3> QED BY <1>2, <2>1, <2>2, <3>1, <3>2
  <2>3. CASE /\ Continue("cname", [found |-> Records("a", Data("a")), nameservers |-> <<>>])
             /\ AllSeen("a", Data("a"))
    <3>1. step' = "cname" /\ local'.found = Records("a", Data("a")) /\ findings' = findings
      BY <2>3, <1>5
    <3>2. Pairs(Records("a", Data("a"))) = NewPairs("a", ToSet(Data("a")))
      BY <1>1, <1>4, PairsRecorded
    <3>3. Answers(seen') = Answers(seen) \cup NewPairs("a", ToSet(Data("a")))
      BY <1>1, <2>3, AnswersGrow
    <3> QED BY <1>2, <2>1, <3>1, <3>2, <3>3
  <2> QED BY <1>6, <2>2, <2>3 DEF DnsResolve
<1>7. ASSUME NEW kind \in ToSet(Lookups), DnsLookup(kind)
      PROVE  Pairs(findings') \cup Pairs(local'.found) = Answers(seen')
  <2> DEFINE Found1(data) == local.found \o Records(kind, data)
             Servers(data) == IF kind = "ns" THEN data ELSE local.nameservers
             Locals(data) == [found |-> Found1(data), nameservers |-> Servers(data)]
  <2>1. PICK data \in {<<>>, Data(kind)} :
          Continue(FollowedBy(kind), Locals(data)) /\ AllSeen(kind, data)
    BY <1>7 DEF DnsLookup
  <2>2. step = kind /\ step # "idle"
    BY <1>7, LookupNames DEF DnsLookup, At
  <2>3. data \in Seq(ToSet(data))
    <3>1. <<>> \in Seq(ToSet(<<>>))
      OBVIOUS
    <3> QED BY <1>4, <2>1, <3>1
  <2>4. Pairs(Found1(data)) = Pairs(local.found) \cup NewPairs(kind, ToSet(data))
    <3>1. Records(kind, data) \in Seq(ToSet(Records(kind, data)))
      BY <1>1, <2>3, RecordsFound DEF OurFindings
    <3>2. Pairs(Records(kind, data)) = NewPairs(kind, ToSet(data))
      BY <1>1, <2>3, PairsRecorded
    <3> QED BY <1>3, <2>2, <3>1, <3>2, PairsJoined
  <2>5. Answers(seen') = Answers(seen) \cup NewPairs(kind, ToSet(data))
    BY <1>1, <2>1, AnswersGrow
  <2> HIDE DEF Found1, Servers
  <2>6. Locals(data).found = Found1(data)
    OBVIOUS
  <2> HIDE DEF Locals
  <2>7. local' = Locals(data) /\ findings' = findings
    BY <1>5, <2>1
  <2> QED BY <1>3, <2>2, <2>4, <2>5, <2>6, <2>7
<1>8. CASE DnsAsk
  <2>1. step = "axfr" /\ findings' = findings /\ seen' = seen /\ step' \in {"axfr", "transfer"}
    BY <1>8 DEF DnsAsk, At, Continue
  <2>2. local'.found = local.found
    <3> DEFINE rest == Tail(local.nameservers)
    <3> HIDE DEF rest
    <3>1. local \in [found : {local.found}, nameservers : Seq(ToSet(local.nameservers))]
      BY <1>1, <2>1 DEF Gathering, Under
    <3>2. [local EXCEPT !.nameservers = rest].found = local.found
      BY <3>1
    <3>3. local' = local \/ local' = [local EXCEPT !.nameservers = rest]
      BY <1>8 DEF DnsAsk, Continue, rest
    <3> QED BY <3>2, <3>3
  <2> QED BY <1>3, <2>1, <2>2
<1>9. CASE DnsTransfer
  <2> DEFINE ns == Head(local.nameservers)
             rest == Tail(local.nameservers)
             given == Finding("axfr", <<Domain, ns>>, "High", ns)
             kept == [local EXCEPT !.nameservers = rest]
             more == [nameservers |-> rest, found |-> Append(local.found, given)]
  <2>1. step = "transfer" /\ findings' = findings /\ step' = "axfr"
    BY <1>9 DEF DnsTransfer, At, Continue
  <2>2. (local' = kept /\ seen' = seen) \/ (local' = more /\ AllSeen("axfr", <<ns>>))
    BY <1>9 DEF DnsTransfer, Continue
  <2>3. local \in [found : {local.found}, nameservers : Seq(ToSet(local.nameservers))]
    BY <1>1, <2>1 DEF Gathering, Under
  <2>4. given.id[1] = "dns" /\ <<given.id[2], given.id[3]>> = <<"axfr", <<Domain, ns>>>>
    BY <1>1 DEF Finding
  <2>5. ToSet(<<ns>>) = {ns} /\ ToSet(<<given>>) = {given} /\ <<given>> \in Seq({given})
    BY DEF ToSet
  <2> HIDE DEF ns, rest, given
  <2>6. kept.found = local.found /\ more.found = Append(local.found, given)
    BY <2>3
  <2>7. Pairs(<<given>>) = NewPairs("axfr", ToSet(<<ns>>))
    BY <2>4, <2>5 DEF Pairs, NewPairs
  <2>8. Pairs(Append(local.found, given)) = Pairs(local.found) \cup NewPairs("axfr", ToSet(<<ns>>))
    <3>1. Append(local.found, given) = local.found \o <<given>>
      BY <1>3, <2>1
    <3>2. Pairs(local.found \o <<given>>) = Pairs(local.found) \cup Pairs(<<given>>)
      BY <1>3, <2>1, <2>5, PairsJoined
    <3> QED BY <2>7, <3>1, <3>2
  <2> HIDE DEF kept, more
  <2>9. CASE local' = kept /\ seen' = seen
    BY <1>3, <2>1, <2>6, <2>9
  <2>10. CASE local' = more /\ AllSeen("axfr", <<ns>>)
    <3>1. Answers(seen') = Answers(seen) \cup NewPairs("axfr", ToSet(<<ns>>))
      BY <1>1, <2>10, AnswersGrow
    <3> QED BY <1>3, <2>1, <2>6, <2>8, <2>10, <3>1
  <2> QED BY <2>2, <2>9, <2>10
<1>10. CASE DnsDone
  <2>1. step = "axfr" /\ findings' = findings \o local.found /\ step' = "idle" /\ seen' = seen
    BY <1>10 DEF DnsDone, At, Conclude
  <2>2. Pairs(findings \o local.found) = Pairs(findings) \cup Pairs(local.found)
    BY <1>1, <1>3, <2>1, PairsJoined
  <2> QED BY <1>3, <2>1, <2>2
<1>11. ASSUME NEW kind \in ToSet(Lookups), DnsLookup(kind)
       PROVE  step' # "idle"
  BY <1>11, NextLookup, LookupNames DEF DnsLookup, Continue
<1> QED BY <1>6, <1>7, <1>8, <1>9, <1>10, <1>11 DEF DnsStep

\* A probe of another stage tells nothing of a name.
LEMMA DnsSilent ==
  ASSUME Probes, pc # "dns", Ledger, Gathering
  PROVE  Pairs(findings') = Pairs(findings) /\ Answers(seen') = Answers(seen)
<1>1. Recorded
  BY ProbesRecord
<1>2. PICK noted : /\ seen' = seen \cup noted
                   /\ \A e \in noted : e[1] = pc /\ IF pc = "dns" THEN e[2][1] = Domain ELSE e[2] = Here
  BY <1>1 DEF Recorded, Noted
<1>3. Answers(seen') = Answers(seen)
  BY <1>2 DEF Answers
<1>4. CASE findings' = findings
  BY <1>3, <1>4
<1>5. CASE findings' # findings
  <2>1. PICK new : OurFindings(new) /\ findings' = findings \o new
    BY <1>1, <1>5 DEF Recorded, Advanced
  <2>2. Pairs(new) = {}
    BY <2>1, PairsElsewhere
  <2>3. Pairs(findings \o new) = Pairs(findings) \cup Pairs(new)
    BY <2>1, PairsJoined DEF Ledger, OurFindings
  <2> QED BY <1>3, <2>1, <2>2, <2>3
<1> QED BY <1>4, <1>5

LEMMA KilledForGood ==
  ASSUME pc = "killed", [Next]_vars
  PROVE  UNCHANGED vars
<1>1. ~Probes
  BY DnsProbed, HttpProbed, TlsProbed, FtpProbed, SnmpProbed, SmbProbed DEF Probes
<1>2. ~(EnterStage \/ LeaveStage \/ Kill)
  BY StageNames DEF EnterStage, LeaveStage, Kill
<1>3. ~(\/ Authorize \/ BuildPolicy \/ LoadProfile \/ ResolveTargets \/ ApplyScope \/ ParsePortList
        \/ SkipDiscovery \/ Discover \/ Scan \/ GrabBanners \/ SkipPlugins \/ RunPlugins
        \/ SkipNmap \/ RunNmap \/ Save \/ WriteReport)
  BY DEF Authorize, BuildPolicy, LoadProfile, ResolveTargets, ApplyScope, ParsePortList,
         SkipDiscovery, Discover, Scan, GrabBanners, SkipPlugins, RunPlugins, SkipNmap, RunNmap,
         Save, WriteReport
<1> QED BY <1>1, <1>2, <1>3 DEF Next, Bounded, Enumerate, AwaitTransfer, Probes, Ended

\* A probe under way goes on, unless the run is killed.
LEMMA UnderWay ==
  ASSUME Under, Probing, [Next]_vars, ~Probes
  PROVE  Kill \/ UNCHANGED vars
<1>1. pc \in StageSet /\ step \notin {"enter", "idle"}
  BY DEF Under
<1>2. ~(EnterStage \/ LeaveStage)
  BY <1>1 DEF EnterStage, LeaveStage
<1>3. ~(\/ Authorize \/ BuildPolicy \/ LoadProfile \/ ResolveTargets \/ ApplyScope \/ ParsePortList
        \/ SkipDiscovery \/ Discover \/ Scan \/ GrabBanners \/ SkipPlugins \/ RunPlugins
        \/ SkipNmap \/ RunNmap \/ Save \/ WriteReport)
  BY <1>1, StageNames
     DEF Authorize, BuildPolicy, LoadProfile, ResolveTargets, ApplyScope, ParsePortList,
         SkipDiscovery, Discover, Scan, GrabBanners, SkipPlugins, RunPlugins, SkipNmap, RunNmap,
         Save, WriteReport
<1> QED BY <1>2, <1>3 DEF Next, Bounded, Enumerate, AwaitTransfer, Probes, Ended

LEMMA DnsStageStep ==
  ASSUME Course, Probing, Ledger, Gathering, [Next]_vars, DnsSoFar, DnsKept
  PROVE  DnsSoFar'
<1>1. CASE Probes
  <2>1. pc' = pc /\ pc \in StageSet /\ pc # "killed" /\ step' # "enter"
    BY <1>1, ProbesRecord, StageNames DEF Probed
  <2>2. CASE pc = "dns"
    <3>1. DnsStep \/ DnsTransfer
      BY <1>1, <2>2, HttpProbed, TlsProbed, FtpProbed, SnmpProbed, SmbProbed DEF Probes
    <3> DEFINE pending == IF step' # "idle" THEN Pairs(local'.found) ELSE {}
    <3>2. Pairs(findings') \cup pending = Answers(seen')
      BY <3>1, DnsTells
    <3>3. (IF pc' = "dns" /\ Under' THEN Pairs(local'.found) ELSE {}) = pending
      BY <2>1, <2>2 DEF Under
    <3> HIDE DEF pending
    <3> QED BY <3>2, <3>3 DEF DnsSoFar, Pairs, Answers
  <2>3. CASE pc # "dns"
    <3>1. Pairs(findings') = Pairs(findings) /\ Answers(seen') = Answers(seen)
      BY <1>1, <2>3, DnsSilent
    <3>2. Pairs(findings) = Answers(seen)
      BY <2>1, <2>3 DEF DnsSoFar
    <3>3. pc' # "dns"
      BY <2>1, <2>3
    <3> QED BY <3>1, <3>2, <3>3 DEF DnsSoFar, Pairs, Answers
  <2> QED BY <2>2, <2>3
<1>2. CASE ~Probes
  <2>1. Calm /\ Between
    BY <1>2, CalmOrProbe, BetweenProbes
  <2>2. seen' = seen /\ findings' = findings
    BY <2>1 DEF Calm
  <2>3. CASE pc' = "killed"
    BY <2>3 DEF DnsSoFar
  <2>4. CASE pc' # "killed" /\ Under'
    <3>1. UNCHANGED <<pc, step, todo, local>>
      BY <2>1, <2>4 DEF Calm
    <3> QED BY <2>2, <2>4, <3>1 DEF DnsSoFar, Under, Pairs, Answers
  <2>5. CASE pc' # "killed" /\ ~Under'
    <3>1. pc # "killed"
      BY <2>5, KilledForGood DEF vars, enumVars
    <3>2. ~Under
      BY <1>2, <2>5, UnderWay DEF vars, enumVars, Under, Kill
    <3>3. Pairs(findings) = Answers(seen)
      BY <3>1, <3>2 DEF DnsSoFar
    <3> QED BY <2>2, <2>5, <3>3 DEF DnsSoFar, Pairs, Answers
  <2> QED BY <2>3, <2>4, <2>5
<1> QED BY <1>1, <1>2

LEMMA DnsAnswered ==
  ASSUME Course, Probing, Gathering, DnsSoFar, pc # "killed"
  PROVE  DnsAsAnswered
<1> SUFFICES ASSUME NEW d \in ToSet(cli.names), DoneWith("dns", Place(d))
             PROVE  {<<f.id[2], f.id[3]>> :
                       f \in {g \in ToSet(findings) : g.id[1] = "dns" /\ g.id[3][1] = d.host}}
                      = {<<s[3], s[2]>> : s \in {q \in seen : q[1] = "dns" /\ q[2][1] = d.host}}
  BY DEF DnsAsAnswered
<1> DEFINE pending == IF pc = "dns" /\ Under THEN Pairs(local.found) ELSE {}
           At1(x) == x[2][1]
<1>1. Pairs(findings) \cup pending = Answers(seen)
  BY DEF DnsSoFar
<1>2. \A x \in pending : At1(x) # d.host
  <2>1. CASE pc = "dns" /\ Under
    <3>1. todo # <<>> /\ OurFindings(local.found) /\ todo \in Seq(ToSet(cli.names))
      BY <2>1 DEF Gathering, Probing, Under
    <3>2. Head(todo) \in ToSet(cli.names) /\ 1 \in DOMAIN todo /\ Head(todo) = todo[1]
      BY <3>1, HeadOf, RestOf
    <3>3. Head(todo).port = d.port
      BY <3>2, PlansAssumption DEF PlansAssumption, Course
    <3>4. Place(Head(todo)) # Place(d)
      BY <2>1, <3>2 DEF DoneWith
    <3>5. Domain # d.host
      BY <3>3, <3>4 DEF Place, Domain
    <3>6. \A f \in ToSet(local.found) : f.id[3][1] = Domain
      BY <2>1, <3>1 DEF OurFindings, Ours
    <3>7. \A x \in Pairs(local.found) : At1(x) = Domain
      BY <3>6 DEF Pairs
    <3> QED BY <3>5, <3>7
  <2>2. CASE ~(pc = "dns" /\ Under)
    BY <2>2
  <2> QED BY <2>1, <2>2
<1>3. {<<f.id[2], f.id[3]>> :
         f \in {g \in ToSet(findings) : g.id[1] = "dns" /\ g.id[3][1] = d.host}}
        = {x \in Pairs(findings) : At1(x) = d.host}
  BY DEF Pairs
<1>4. {<<s[3], s[2]>> : s \in {q \in seen : q[1] = "dns" /\ q[2][1] = d.host}}
        = {x \in Answers(seen) : At1(x) = d.host}
  BY DEF Answers
<1>5. {x \in Pairs(findings) : At1(x) = d.host} = {x \in Answers(seen) : At1(x) = d.host}
  <2> HIDE DEF pending, At1
  <2> QED BY <1>1, <1>2
<1> QED BY <1>3, <1>4, <1>5

LEMMA OnlyKill ==
  ASSUME pc' = "killed", pc # "killed", Course, Probing, Ledger, Gathering, [Next]_vars
  PROVE  Kill
<1>1. ~Probes
  BY ProbesRecord DEF Probed
<1>2. ~(EnterStage \/ LeaveStage)
  BY StageNames, NextStage DEF EnterStage, LeaveStage
<1>3. ~(\/ Authorize \/ BuildPolicy \/ LoadProfile \/ ResolveTargets \/ ApplyScope \/ ParsePortList
        \/ SkipDiscovery \/ Discover \/ Scan \/ GrabBanners \/ SkipPlugins \/ RunPlugins
        \/ SkipNmap \/ RunNmap \/ Save \/ WriteReport)
  BY DEF Authorize, BuildPolicy, LoadProfile, ResolveTargets, ApplyScope, ParsePortList,
         SkipDiscovery, Discover, Scan, GrabBanners, SkipPlugins, RunPlugins, SkipNmap, RunNmap,
         Save, WriteReport, GoTo, Leave, Stages
<1>4. pc' # pc
  OBVIOUS
<1> QED BY <1>1, <1>2, <1>3, <1>4 DEF Next, Bounded, Enumerate, AwaitTransfer, Probes, Ended, vars, enumVars

LEMMA DnsKeptStep ==
  ASSUME Course, Probing, Ledger, Gathering, [Next]_vars, DnsSoFar, DnsKept
  PROVE  DnsKept'
<1> SUFFICES ASSUME pc' = "killed" PROVE DnsAsAnswered'
  BY DEF DnsKept
<1>1. UNCHANGED <<cli, todo, findings, seen>> /\ DnsAsAnswered
  <2>1. CASE pc = "killed"
    BY <2>1, KilledForGood DEF vars, enumVars, DnsKept
  <2>2. CASE pc # "killed"
    BY <2>2, OnlyKill, DnsAnswered DEF Kill, Idle
  <2> QED BY <2>1, <2>2
<1>2. \A p : DoneWith("dns", p)' => DoneWith("dns", p)
  BY <1>1 DEF DoneWith
<1> QED BY <1>1, <1>2 DEF DnsAsAnswered, Place

-----------------------------------------------------------------------------
(* SNMP: how many findings a list has of a kind, and what they say.         *)

Tally(list, id) == Cardinality({i \in DOMAIN list : list[i].id = id})

Count(list, kind, p) == Tally(list, <<"snmp", kind, p>>)

Evidence(list, kind, p) == {f.evidence : f \in Of(list, <<"snmp", kind, p>>)}

LEMMA TallyAppended ==
  ASSUME NEW list, list \in Seq(ToSet(list)), NEW f, NEW id
  PROVE  /\ Tally(Append(list, f), id) = Tally(list, id) + (IF f.id = id THEN 1 ELSE 0)
         /\ Tally(list, id) \in Nat
         /\ Tally(list, id) = 0 <=> Of(list, id) = {}
<1> DEFINE I == {i \in DOMAIN list : list[i].id = id}
           more == Append(list, f)
           J == {i \in DOMAIN more : more[i].id = id}
           n == Len(list) + 1
<1>1. DOMAIN list = 1..Len(list) /\ Len(list) \in Nat
  OBVIOUS
<1>2. DOMAIN more = 1..n /\ (\A i \in 1..Len(list) : more[i] = list[i]) /\ more[n] = f
  BY <1>1
<1>3. IsFiniteSet(I) /\ Cardinality(I) \in Nat /\ n \notin I
  <2>1. IsFiniteSet(1..Len(list))
    BY <1>1, FS_Interval
  <2>2. IsFiniteSet(I)
    BY <1>1, <2>1, FS_Subset
  <2> QED BY <1>1, <2>2, FS_CardinalityType
<1>4. J = IF f.id = id THEN I \cup {n} ELSE I
  <2> HIDE DEF more
  <2>1. \A i \in DOMAIN more : i \in DOMAIN list \/ i = n
    BY <1>1, <1>2
  <2>2. DOMAIN list \subseteq DOMAIN more /\ n \in DOMAIN more
    BY <1>1, <1>2
  <2>3. \A i \in DOMAIN list : more[i] = list[i]
    BY <1>1, <1>2
  <2> HIDE DEF n
  <2> QED BY <1>2, <2>1, <2>2, <2>3
<1>5. Cardinality(J) = Cardinality(I) + (IF f.id = id THEN 1 ELSE 0)
  <2> HIDE DEF I, J, n
  <2>1. Cardinality(I \cup {n}) = Cardinality(I) + 1
    BY <1>3, FS_AddElement
  <2> QED BY <1>3, <1>4, <2>1
<1>6. I = {} <=> Of(list, id) = {}
  BY DEF Of, ToSet
<1>7. Cardinality(I) = 0 <=> I = {}
  BY <1>3, FS_EmptySet
<1> QED BY <1>3, <1>5, <1>6, <1>7 DEF Tally

LEMMA TallyNone == \A id : Tally(<<>>, id) = 0
<1> TAKE id
<1>1. {i \in DOMAIN <<>> : <<>>[i].id = id} = {}
  OBVIOUS
<1> QED BY <1>1, FS_EmptySet DEF Tally

\* A finding more of a place.
LEMMA SnmpNoted ==
  ASSUME pc = "snmp", NEW p, p = Here, NEW list, list \in Seq(ToSet(list)),
         NEW kind, NEW severity, NEW evidence
  PROVE  LET more == list \o SnmpFinding(kind, severity, evidence) IN
         /\ more \in Seq(ToSet(more))
         /\ \A k : /\ Count(list, k, p) \in Nat /\ (Count(list, k, p) = 0 <=> Evidence(list, k, p) = {})
                   /\ Count(more, k, p) = Count(list, k, p) + (IF k = kind THEN 1 ELSE 0)
                   /\ k = kind => Evidence(more, k, p) = Evidence(list, k, p) \cup {evidence}
                   /\ k # kind => Evidence(more, k, p) = Evidence(list, k, p)
<1> DEFINE f == Finding(kind, Here, severity, evidence)
           more == list \o SnmpFinding(kind, severity, evidence)
<1>1. OurFindings(<<f>>) /\ f.id = <<"snmp", kind, p>> /\ f.evidence = evidence
      /\ SnmpFinding(kind, severity, evidence) = <<f>> /\ ToSet(<<f>>) = {f}
  BY MadeHere DEF SnmpFinding
<1>2. more = list \o <<f>> /\ <<f>> \in Seq(ToSet(<<f>>))
  BY <1>1 DEF OurFindings
<1> HIDE DEF f
<1>3. list \o <<f>> = Append(list, f)
  BY <1>2
<1>4. more \in Seq(ToSet(more)) /\ ToSet(more) = ToSet(list) \cup {f}
  BY <1>1, <1>2, JoinedElements
<1>5. more = Append(list, f)
  BY <1>2, <1>3
<1> HIDE DEF more
<1>6. ASSUME NEW k
      PROVE  /\ Count(list, k, p) \in Nat /\ (Count(list, k, p) = 0 <=> Evidence(list, k, p) = {})
             /\ Count(more, k, p) = Count(list, k, p) + (IF k = kind THEN 1 ELSE 0)
             /\ k = kind => Evidence(more, k, p) = Evidence(list, k, p) \cup {evidence}
             /\ k # kind => Evidence(more, k, p) = Evidence(list, k, p)
  <2> DEFINE id == <<"snmp", k, p>>
  <2>1. f.id = id <=> k = kind
    BY <1>1
  <2>2. Of(more, id) = Of(list, id) \cup (IF k = kind THEN {f} ELSE {})
    BY <1>4, <2>1 DEF Of
  <2>3. /\ Tally(more, id) = Tally(list, id) + (IF k = kind THEN 1 ELSE 0)
        /\ Tally(list, id) \in Nat /\ (Tally(list, id) = 0 <=> Of(list, id) = {})
    <3> HIDE DEF id
    <3>1. /\ Tally(Append(list, f), id) = Tally(list, id) + (IF f.id = id THEN 1 ELSE 0)
          /\ Tally(list, id) \in Nat /\ (Tally(list, id) = 0 <=> Of(list, id) = {})
      BY <1>2, TallyAppended
    <3> QED BY <1>5, <2>1, <3>1
  <2>4. /\ k = kind => Evidence(more, k, p) = Evidence(list, k, p) \cup {evidence}
        /\ k # kind => Evidence(more, k, p) = Evidence(list, k, p)
    <3>1. CASE k = kind
      BY <1>1, <2>2, <3>1 DEF Evidence
    <3>2. CASE k # kind
      BY <2>2, <3>2 DEF Evidence
    <3> QED BY <3>1, <3>2
  <2>5. Of(list, id) = {} <=> Evidence(list, k, p) = {}
    BY DEF Evidence
  <2> QED BY <2>3, <2>4, <2>5 DEF Count
<1> QED BY <1>4, <1>6 DEF more

\* What is joined in three can be joined in either order.
LEMMA AllThree ==
  ASSUME NEW a, NEW b, NEW c, a \in Seq(ToSet(a)), b \in Seq(ToSet(b)), c \in Seq(ToSet(c))
  PROVE  a \o (b \o c) = (a \o b) \o c
<1> DEFINE E == ToSet(a) \cup ToSet(b) \cup ToSet(c)
<1>1. a \in Seq(E) /\ b \in Seq(E) /\ c \in Seq(E)
  <2>1. ToSet(a) \subseteq E /\ ToSet(b) \subseteq E /\ ToSet(c) \subseteq E
    OBVIOUS
  <2> HIDE DEF E
  <2> QED BY <2>1, SeqOfMore
<1> HIDE DEF E
<1>2. \A s, t \in Seq(E) : Len(s) = Len(t) /\ (\A i \in 1..Len(s) : s[i] = t[i]) => s = t
  OBVIOUS
<1>3. \A s, t \in Seq(E) : /\ s \o t \in Seq(E) /\ Len(s \o t) = Len(s) + Len(t)
                           /\ Len(s) \in Nat /\ Len(t) \in Nat
                           /\ \A i \in 1..Len(s) : (s \o t)[i] = s[i]
                           /\ \A i \in 1..Len(t) : (s \o t)[Len(s) + i] = t[i]
  OBVIOUS
<1> DEFINE l == a \o (b \o c)
           r == (a \o b) \o c
<1>4. l \in Seq(E) /\ r \in Seq(E) /\ Len(l) = Len(a) + Len(b) + Len(c) /\ Len(r) = Len(l)
      /\ Len(a) \in Nat /\ Len(b) \in Nat /\ Len(c) \in Nat
  BY <1>1, <1>3
<1>5. \A i \in 1..Len(a) : l[i] = a[i] /\ r[i] = a[i]
  <2> SUFFICES ASSUME NEW i \in 1..Len(a) PROVE l[i] = a[i] /\ r[i] = a[i]
    OBVIOUS
  <2>1. i \in 1..Len(a \o b) /\ a \o b \in Seq(E) /\ b \o c \in Seq(E)
    BY <1>1, <1>3, <1>4
  <2> QED BY <1>1, <1>3, <2>1
<1>6. \A i \in 1..Len(b) : l[Len(a) + i] = b[i] /\ r[Len(a) + i] = b[i]
  <2> SUFFICES ASSUME NEW i \in 1..Len(b) PROVE l[Len(a) + i] = b[i] /\ r[Len(a) + i] = b[i]
    OBVIOUS
  <2>1. Len(a) + i \in 1..Len(a \o b) /\ i \in 1..Len(b \o c) /\ a \o b \in Seq(E) /\ b \o c \in Seq(E)
    BY <1>1, <1>3, <1>4
  <2> QED BY <1>1, <1>3, <2>1
<1>7. \A i \in 1..Len(c) : /\ l[Len(a) + Len(b) + i] = c[i]
                           /\ r[Len(a) + Len(b) + i] = c[i]
  <2> SUFFICES ASSUME NEW i \in 1..Len(c)
               PROVE  l[Len(a) + Len(b) + i] = c[i] /\ r[Len(a) + Len(b) + i] = c[i]
    OBVIOUS
  <2>1. Len(b) + i \in 1..Len(b \o c) /\ a \o b \in Seq(E) /\ b \o c \in Seq(E)
        /\ (b \o c)[Len(b) + i] = c[i] /\ Len(a \o b) = Len(a) + Len(b)
    BY <1>1, <1>3, <1>4
  <2>2. l[Len(a) + (Len(b) + i)] = c[i] /\ r[Len(a \o b) + i] = c[i]
    BY <1>1, <1>3, <2>1
  <2>3. Len(a) + Len(b) + i = Len(a) + (Len(b) + i)
    BY <1>4
  <2> QED BY <2>1, <2>2, <2>3
<1> HIDE DEF l, r
<1>8. \A i \in 1..Len(l) : l[i] = r[i]
  <2> SUFFICES ASSUME NEW i \in 1..Len(l) PROVE l[i] = r[i]
    OBVIOUS
  <2>1. CASE i \in 1..Len(a)
    BY <1>5, <2>1
  <2>2. CASE i - Len(a) \in 1..Len(b)
    <3>1. i = Len(a) + (i - Len(a))
      BY <1>4
    <3> QED BY <1>6, <2>2, <3>1
  <2>3. CASE i - Len(a) - Len(b) \in 1..Len(c)
    <3>1. i = Len(a) + Len(b) + (i - Len(a) - Len(b))
      BY <1>4
    <3> QED BY <1>7, <2>3, <3>1
  <2> QED BY <1>4, <2>1, <2>2, <2>3
<1>9. l = r
  BY <1>2, <1>4, <1>8
<1> QED BY <1>9 DEF l, r

-----------------------------------------------------------------------------
\* How often a place is in a list of ports.
Listed(list, p) == Cardinality({i \in DOMAIN list : Place(list[i]) = p})

LEMMA ListedFinite ==
  ASSUME NEW E, NEW list \in Seq(E), NEW p
  PROVE  /\ IsFiniteSet({i \in DOMAIN list : Place(list[i]) = p})
         /\ Listed(list, p) \in Nat
<1> DEFINE I == {i \in DOMAIN list : Place(list[i]) = p}
<1>1. IsFiniteSet(1..Len(list)) /\ DOMAIN list = 1..Len(list)
  BY FS_Interval
<1>2. I \subseteq 1..Len(list)
  BY <1>1
<1> HIDE DEF I
<1>3. IsFiniteSet(I)
  BY <1>1, <1>2, FS_Subset
<1> QED BY <1>3, FS_CardinalityType DEF I, Listed

\* A place taken from the front of a list.
LEMMA ListedTail ==
  ASSUME NEW E, NEW list \in Seq(E), list # <<>>, NEW p
  PROVE  /\ Tail(list) \in Seq(E)
         /\ Listed(list, p) = Listed(Tail(list), p) + (IF p = Place(Head(list)) THEN 1 ELSE 0)
<1> DEFINE tail == Tail(list)
           I == {i \in DOMAIN tail : Place(tail[i]) = p}
           J == {i \in DOMAIN list : Place(list[i]) = p}
           shift == [i \in I |-> i + 1]
<1>1. tail \in Seq(E)
  OBVIOUS
<1>2. /\ 1 \in DOMAIN list /\ Head(list) = list[1]
      /\ \A i \in DOMAIN tail : i + 1 \in DOMAIN list /\ i + 1 # 1 /\ tail[i] = list[i + 1]
      /\ \A i \in DOMAIN list : i # 1 => i - 1 \in DOMAIN tail /\ tail[i - 1] = list[i]
  BY RestOf
<1>3. DOMAIN tail \subseteq Int /\ DOMAIN list \subseteq Int
  BY <1>1
<1>4. IsFiniteSet(I) /\ IsFiniteSet(J) /\ Listed(list, p) = Cardinality(J)
      /\ Listed(tail, p) = Cardinality(I) /\ Cardinality(I) \in Nat
  BY <1>1, ListedFinite DEF Listed
<1> HIDE DEF tail
<1>5. \A i \in I : i + 1 \in J \ {1} /\ i \in Int
  BY <1>2, <1>3
<1>6. \A j \in J \ {1} : j - 1 \in I /\ j \in Int
  BY <1>2, <1>3
<1>7. 1 \in J <=> p = Place(Head(list))
  BY <1>2
<1> HIDE DEF I, J
<1>8. shift \in Bijection(I, J \ {1})
  <2>1. shift \in [I -> J \ {1}]
    BY <1>5
  <2>2. \A i, j \in I : shift[i] = shift[j] => i = j
    BY <1>5
  <2>3. \A j \in J \ {1} : \E i \in I : shift[i] = j
    <3> SUFFICES ASSUME NEW j \in J \ {1} PROVE \E i \in I : shift[i] = j
      OBVIOUS
    <3>1. j - 1 \in I /\ (j - 1) + 1 = j
      BY <1>6
    <3> QED BY <3>1
  <2> QED BY <2>1, <2>2, <2>3 DEF Bijection, Injection, Surjection, IsInjective
<1>9. Cardinality(J \ {1}) = Cardinality(I)
  BY <1>4, <1>8, FS_Bijection DEF ExistsBijection
<1>10. Cardinality(J \ {1}) = (IF 1 \in J THEN Cardinality(J) - 1 ELSE Cardinality(J))
       /\ Cardinality(J) \in Nat
  BY <1>4, FS_RemoveElement, FS_CardinalityType
<1>11. Listed(list, p) = Listed(tail, p) + (IF p = Place(Head(list)) THEN 1 ELSE 0)
  BY <1>4, <1>7, <1>9, <1>10
<1> QED BY <1>1, <1>11 DEF tail

\* Of what is kept of a list no place is there more often than in the list.
LEMMA ListedKept ==
  ASSUME NEW E, NEW list \in Seq(E), NEW S, NEW p
  PROVE  Listed(Kept(list, S), p) <= Listed(list, p)
<1> DEFINE kept == Kept(list, S)
           I == {i \in DOMAIN kept : Place(kept[i]) = p}
           J == {i \in DOMAIN list : Place(list[i]) = p}
<1>1. kept \in Seq(E) /\ \E at : Picks(at, kept, list, Len(list))
  BY KeptProperties
<1>2. PICK at : Picks(at, kept, list, Len(list))
  BY <1>1
<1> HIDE DEF kept
<1>3. DOMAIN kept = 1..Len(kept) /\ DOMAIN list = 1..Len(list)
  BY <1>1
<1>4. /\ \A i \in DOMAIN kept : at[i] \in DOMAIN list /\ kept[i] = list[at[i]]
      /\ \A i, j \in DOMAIN kept : at[i] = at[j] => i = j
  <2>1. \A i, j \in DOMAIN kept : i < j => at[i] < at[j]
    BY <1>2, <1>3 DEF Picks
  <2>2. \A i \in DOMAIN kept : at[i] \in DOMAIN list /\ kept[i] = list[at[i]]
    BY <1>2, <1>3 DEF Picks
  <2>3. DOMAIN kept \subseteq Int /\ DOMAIN list \subseteq Int
    BY <1>3
  <2>4. ASSUME NEW i \in DOMAIN kept, NEW j \in DOMAIN kept, at[i] = at[j]
        PROVE  i = j
    <3>1. ~(at[i] < at[j]) /\ ~(at[j] < at[i])
      BY <2>2, <2>3, <2>4
    <3>2. ~(i < j) /\ ~(j < i)
      BY <2>1, <3>1
    <3> QED BY <2>3, <3>2
  <2> QED BY <2>2, <2>4
<1> DEFINE f == [i \in I |-> at[i]]
<1>5. \A i \in I : i \in DOMAIN kept /\ at[i] \in J
  BY <1>4
<1>6. IsFiniteSet(J)
  BY ListedFinite
<1> HIDE DEF I, J
<1>7. f \in Injection(I, J)
  <2>1. f \in [I -> J]
    BY <1>5
  <2>2. \A i, j \in I : f[i] = f[j] => i = j
    BY <1>4, <1>5
  <2> QED BY <2>1, <2>2 DEF Injection, IsInjective
<1>8. Cardinality(I) <= Cardinality(J)
  BY <1>6, <1>7, FS_Injection
<1> QED BY <1>8 DEF I, J, kept, Listed

-----------------------------------------------------------------------------
\* The communities whose GET brought a value.
Working(facts) == {c \in ToSet(COMMUNITY_STRINGS) : <<"value", c>> \in facts}

SnmpFacts ==
  {<<"value", c>> : c \in ToSet(COMMUNITY_STRINGS)}
    \cup {<<"valueless", c>> : c \in ToSet(COMMUNITY_STRINGS)}
    \cup {<<"rows", n>> : n \in Nat} \cup {<<"strayed">>, <<"broke off">>}

SnmpHeard(p) == {fact \in SnmpFacts : Happened("snmp", p, fact)}

\* The names of the interfaces are those of the table.
WalkedAs(names, facts) ==
  /\ Len(names) <= MaxInterfaces
  /\ <<"strayed">> \notin facts =>
       /\ names = [i \in 1..Len(names) |-> i]
       /\ <<"broke off">> \notin facts => <<"rows", Len(names)>> \in facts \/ Len(names) = MaxInterfaces

\* The findings of a list on the place are what the facts give reason for.
SnmpFits(list, p, facts) ==
  /\ Evidence(list, "community", p) = Working(facts)
  /\ (Evidence(list, "sysdescr", p) = {}) <=> (Working(facts) = {})
  /\ Count(list, "sysname", p) <= Count(list, "sysdescr", p)
  /\ Count(list, "interfaces", p) <= Count(list, "sysdescr", p)
  /\ \A names \in Evidence(list, "interfaces", p) : WalkedAs(names, facts)

\* What there is, the findings of the probe under way included, before its next
\* request.  The entries of the port behind it, room many, have brought at most
\* one description each, and this probe brings at most another.
Tried(list, gathered, p, facts, room) ==
  /\ list \in Seq(ToSet(list)) /\ SnmpFits(list, p, facts)
  /\ gathered \in BOOLEAN /\ (gathered => Evidence(list, "sysdescr", p) # {})
  /\ Count(list, "sysdescr", p) <= room + (IF gathered THEN 1 ELSE 0)

\* A probe under way.
SnmpGoing(s, l, list, p, facts, room) ==
  /\ l.c \in 1..2 /\ Tried(list, l.gathered, p, facts, room)
  /\ s \in {"name", "walk"} => l.gathered /\ Count(list, "interfaces", p) < Count(list, "sysdescr", p)
  /\ s = "name" => Count(list, "sysname", p) < Count(list, "sysdescr", p)
  /\ s = "walk" =>
       /\ l.names \in Seq(Nat) /\ Len(l.names) <= MaxInterfaces /\ <<"rows", l.rows>> \in facts
       /\ <<"strayed">> \notin facts =>
            l.names = [i \in 1..Len(l.names) |-> i] /\ l.current = Len(l.names)

\* The entries of the port in the summary that the stage has been through.
Room(p) == Listed(summary, p) - Listed(todo, p)

SnmpSoFar ==
  pc = "snmp" /\ Under =>
    SnmpGoing(step, local, findings \o local.found, Here, SnmpHeard(Here), Room(Here))

\* The entries of the port that the stage has still to go through.
Due(p) == IF pc = "snmp" /\ step # "enter" THEN Listed(todo, p) ELSE 0

\* SnmpAsAnswered of one place.
SnmpAnsweredAt(p) ==
  Settled("snmp", p) =>
    /\ SnmpFits(findings, p, SnmpHeard(p))
    /\ Count(findings, "sysdescr", p) + Due(p) <= Listed(summary, p)

LEMMA Communities ==
  /\ COMMUNITY_STRINGS[1] = "public" /\ COMMUNITY_STRINGS[2] = "private"
  /\ Len(COMMUNITY_STRINGS) = 2 /\ ToSet(COMMUNITY_STRINGS) = {"public", "private"}
  /\ \A k \in 1..2 : COMMUNITY_STRINGS[k] \in ToSet(COMMUNITY_STRINGS)
<1>1. DOMAIN COMMUNITY_STRINGS = 1..2
  BY DEF COMMUNITY_STRINGS
<1> QED BY <1>1 DEF COMMUNITY_STRINGS, ToSet

\* Facts of different kinds are different.
LEMMA SnmpFactsDiffer ==
  /\ \A c, d : <<"value", c>> # <<"rows", d>> /\ <<"value", c>> # <<"valueless", d>>
  /\ \A c, d : <<"value", c>> = <<"value", d>> => c = d
  /\ \A c : <<"value", c>> # <<"strayed">> /\ <<"value", c>> # <<"broke off">>
  /\ \A n : <<"rows", n>> # <<"strayed">> /\ <<"rows", n>> # <<"broke off">>
  /\ <<"strayed">> # <<"broke off">>
<1>1. \A x, y : <<x, y>>[1] = x /\ <<x, y>>[2] = y /\ <<x>>[1] = x
  OBVIOUS
<1> QED BY <1>1

\* A fact that is not about a community that works.
LEMMA SameWorking ==
  ASSUME NEW facts, NEW more, \A c : <<"value", c>> \notin more
  PROVE  Working(facts \cup more) = Working(facts)
BY DEF Working

\* What is known more does not make what was reported wrong.
LEMMA WalkedOn ==
  ASSUME NEW names, NEW facts, WalkedAs(names, facts), NEW more
  PROVE  WalkedAs(names, facts \cup more)
<1>1. /\ <<"strayed">> \notin facts \cup more => <<"strayed">> \notin facts
      /\ <<"broke off">> \notin facts \cup more => <<"broke off">> \notin facts
      /\ <<"rows", Len(names)>> \in facts => <<"rows", Len(names)>> \in facts \cup more
  OBVIOUS
<1> QED BY <1>1 DEF WalkedAs

LEMMA OtherFacts ==
  ASSUME NEW list, NEW gathered, NEW p, NEW facts, NEW room, NEW more,
         \A c : <<"value", c>> \notin more
  PROVE  /\ SnmpFits(list, p, facts) => SnmpFits(list, p, facts \cup more)
         /\ Tried(list, gathered, p, facts, room) => Tried(list, gathered, p, facts \cup more, room)
<1>1. Working(facts \cup more) = Working(facts)
  BY SameWorking
<1>2. \A names : WalkedAs(names, facts) => WalkedAs(names, facts \cup more)
  BY WalkedOn
<1> DEFINE F == facts \cup more
<1> HIDE DEF F
<1>3. SnmpFits(list, p, facts) => SnmpFits(list, p, F)
  BY <1>1, <1>2 DEF SnmpFits, F
<1> QED BY <1>3 DEF Tried, F

\* What a community that works comes to.
CommunityOutcome(c, list, gathered, p, facts, room) ==
  LET F == facts \cup {<<"value", c>>}
      more == list \o SnmpFinding("community", "High", c)
      first == more \o SnmpFinding("sysdescr", "Info", "descr")
  IN /\ gathered => Tried(more, TRUE, p, F, room)
     /\ ~gathered => /\ Tried(first, TRUE, p, F, room)
                     /\ Count(first, "interfaces", p) < Count(first, "sysdescr", p)
                     /\ Count(first, "sysname", p) < Count(first, "sysdescr", p)

LEMMA CommunityTried ==
  ASSUME pc = "snmp", NEW p, p = Here, NEW list, NEW gathered, NEW facts, NEW room \in Int,
         Tried(list, gathered, p, facts, room), NEW c \in ToSet(COMMUNITY_STRINGS)
  PROVE  CommunityOutcome(c, list, gathered, p, facts, room)
<1> DEFINE F == facts \cup {<<"value", c>>}
           more == list \o SnmpFinding("community", "High", c)
           first == more \o SnmpFinding("sysdescr", "Info", "descr")
<1>1. SnmpFits(list, p, facts) /\ list \in Seq(ToSet(list)) /\ gathered \in BOOLEAN
      /\ (gathered => Evidence(list, "sysdescr", p) # {})
      /\ Count(list, "sysdescr", p) <= room + (IF gathered THEN 1 ELSE 0)
  BY DEF Tried
<1>2. Working(F) = Working(facts) \cup {c}
  BY SnmpFactsDiffer DEF Working
<1>3. \A names : WalkedAs(names, facts) => WalkedAs(names, F)
  BY WalkedOn
<1>4. /\ more \in Seq(ToSet(more))
      /\ \A j : /\ Count(list, j, p) \in Nat /\ (Count(list, j, p) = 0 <=> Evidence(list, j, p) = {})
                /\ Count(more, j, p) = Count(list, j, p) + (IF j = "community" THEN 1 ELSE 0)
                /\ j = "community" => Evidence(more, j, p) = Evidence(list, j, p) \cup {c}
                /\ j # "community" => Evidence(more, j, p) = Evidence(list, j, p)
  BY <1>1, SnmpNoted
<1>5. /\ first \in Seq(ToSet(first))
      /\ \A j : /\ Count(more, j, p) \in Nat /\ (Count(more, j, p) = 0 <=> Evidence(more, j, p) = {})
                /\ Count(first, j, p) = Count(more, j, p) + (IF j = "sysdescr" THEN 1 ELSE 0)
                /\ j = "sysdescr" => Evidence(first, j, p) = Evidence(more, j, p) \cup {"descr"}
                /\ j # "sysdescr" => Evidence(first, j, p) = Evidence(more, j, p)
  <2> HIDE DEF more
  <2> QED BY <1>4, SnmpNoted
<1> HIDE DEF F, more, first
<1>6. ASSUME gathered PROVE Tried(more, TRUE, p, F, room)
  <2>1. /\ Evidence(more, "community", p) = Working(F)
        /\ Evidence(more, "sysdescr", p) = Evidence(list, "sysdescr", p)
        /\ Evidence(more, "interfaces", p) = Evidence(list, "interfaces", p)
        /\ Count(more, "sysdescr", p) = Count(list, "sysdescr", p)
        /\ Count(more, "sysname", p) = Count(list, "sysname", p)
        /\ Count(more, "interfaces", p) = Count(list, "interfaces", p)
    <3>1. Evidence(more, "community", p) = Evidence(list, "community", p) \cup {c}
      BY <1>4
    <3>2. /\ Evidence(more, "sysdescr", p) = Evidence(list, "sysdescr", p)
          /\ Count(more, "sysdescr", p) = Count(list, "sysdescr", p)
      BY <1>4
    <3>3. /\ Evidence(more, "interfaces", p) = Evidence(list, "interfaces", p)
          /\ Count(more, "interfaces", p) = Count(list, "interfaces", p)
      BY <1>4
    <3>4. Count(more, "sysname", p) = Count(list, "sysname", p)
      BY <1>4
    <3>5. Evidence(list, "community", p) = Working(facts)
      BY <1>1 DEF SnmpFits
    <3> QED BY <1>2, <3>1, <3>2, <3>3, <3>4, <3>5
  <2>2. SnmpFits(more, p, F)
    BY <1>1, <1>2, <1>3, <1>6, <2>1 DEF SnmpFits
  <2> QED BY <1>1, <1>4, <1>6, <2>1, <2>2 DEF Tried
<1>7. ASSUME ~gathered
      PROVE  /\ Tried(first, TRUE, p, F, room)
             /\ Count(first, "interfaces", p) < Count(first, "sysdescr", p)
             /\ Count(first, "sysname", p) < Count(first, "sysdescr", p)
  <2>1. /\ Evidence(first, "community", p) = Working(F)
        /\ Evidence(first, "sysdescr", p) # {}
        /\ Evidence(first, "interfaces", p) = Evidence(list, "interfaces", p)
    <3>1. Evidence(first, "community", p) = Evidence(list, "community", p) \cup {c}
      BY <1>4, <1>5
    <3>2. "descr" \in Evidence(first, "sysdescr", p)
      BY <1>5
    <3>3. Evidence(first, "interfaces", p) = Evidence(list, "interfaces", p)
      BY <1>4, <1>5
    <3>4. Evidence(list, "community", p) = Working(facts)
      BY <1>1 DEF SnmpFits
    <3> QED BY <1>2, <3>1, <3>2, <3>3, <3>4
  <2>2. /\ Count(first, "sysdescr", p) = Count(list, "sysdescr", p) + 1
        /\ Count(first, "sysname", p) = Count(list, "sysname", p)
        /\ Count(first, "interfaces", p) = Count(list, "interfaces", p)
        /\ Count(list, "sysdescr", p) \in Nat /\ Count(list, "sysname", p) \in Nat
        /\ Count(list, "interfaces", p) \in Nat
    BY <1>4, <1>5
  <2>3. /\ Count(list, "sysname", p) <= Count(list, "sysdescr", p)
        /\ Count(list, "interfaces", p) <= Count(list, "sysdescr", p)
        /\ Count(list, "sysdescr", p) <= room
    BY <1>1, <1>7 DEF SnmpFits
  <2>4. SnmpFits(first, p, F)
    BY <1>1, <1>2, <1>3, <2>1, <2>2, <2>3 DEF SnmpFits
  <2> QED BY <1>5, <2>1, <2>2, <2>3, <2>4 DEF Tried
<1> QED BY <1>6, <1>7 DEF F, more, first, CommunityOutcome

\* The details of an agent come in between.
LEMMA DetailNoted ==
  ASSUME pc = "snmp", NEW p, p = Here, NEW list, NEW facts, NEW room \in Int,
         Tried(list, TRUE, p, facts, room),
         NEW kind \in {"sysname", "interfaces"}, Count(list, kind, p) < Count(list, "sysdescr", p),
         NEW evidence, kind = "interfaces" => WalkedAs(evidence, facts)
  PROVE  LET more == list \o SnmpFinding(kind, "Info", evidence) IN
         /\ Tried(more, TRUE, p, facts, room)
         /\ kind = "sysname" => /\ Count(more, "interfaces", p) = Count(list, "interfaces", p)
                                /\ Count(more, "sysdescr", p) = Count(list, "sysdescr", p)
<1> DEFINE more == list \o SnmpFinding(kind, "Info", evidence)
<1>1. /\ more \in Seq(ToSet(more))
      /\ \A j : /\ Count(list, j, p) \in Nat /\ (Count(list, j, p) = 0 <=> Evidence(list, j, p) = {})
                /\ Count(more, j, p) = Count(list, j, p) + (IF j = kind THEN 1 ELSE 0)
                /\ j = kind => Evidence(more, j, p) = Evidence(list, j, p) \cup {evidence}
                /\ j # kind => Evidence(more, j, p) = Evidence(list, j, p)
  <2>1. list \in Seq(ToSet(list))
    BY DEF Tried
  <2> QED BY <2>1, SnmpNoted
<1> HIDE DEF more
<1>2. SnmpFits(list, p, facts)
  BY DEF Tried
<1>3. SnmpFits(more, p, facts)
  <2>1. /\ Evidence(more, "community", p) = Evidence(list, "community", p)
        /\ Evidence(more, "sysdescr", p) = Evidence(list, "sysdescr", p)
        /\ Count(more, "sysdescr", p) = Count(list, "sysdescr", p)
    <3>1. kind # "community" /\ kind # "sysdescr"
      OBVIOUS
    <3> QED BY <1>1, <3>1
  <2>2. \A k \in {"sysname", "interfaces"} : Count(more, k, p) <= Count(more, "sysdescr", p)
    <3> SUFFICES ASSUME NEW k \in {"sysname", "interfaces"}
                 PROVE  Count(more, k, p) <= Count(more, "sysdescr", p)
      OBVIOUS
    <3>1. Count(list, k, p) <= Count(list, "sysdescr", p)
      BY <1>2 DEF SnmpFits
    <3>2. /\ Count(more, k, p) = Count(list, k, p) + (IF k = kind THEN 1 ELSE 0)
          /\ Count(list, k, p) \in Nat
      BY <1>1
    <3>3. Count(list, "sysdescr", p) \in Nat
      BY <1>1
    <3> QED BY <2>1, <3>1, <3>2, <3>3
  <2>3. \A names \in Evidence(more, "interfaces", p) : WalkedAs(names, facts)
    <3>1. /\ kind = "interfaces" =>
                Evidence(more, "interfaces", p) = Evidence(list, "interfaces", p) \cup {evidence}
          /\ kind # "interfaces" =>
                Evidence(more, "interfaces", p) = Evidence(list, "interfaces", p)
      BY <1>1
    <3> QED BY <1>2, <3>1 DEF SnmpFits
  <2> QED BY <1>2, <2>1, <2>2, <2>3 DEF SnmpFits
<1>4. Tried(more, TRUE, p, facts, room)
  BY <1>1, <1>3 DEF Tried
<1>5. kind = "sysname" => /\ Count(more, "interfaces", p) = Count(list, "interfaces", p)
                          /\ Count(more, "sysdescr", p) = Count(list, "sysdescr", p)
  BY <1>1
<1> QED BY <1>4, <1>5 DEF more

\* A step of a probe, by what it saw and what it has come to.
SnmpOn(p, F, room) ==
  /\ UNCHANGED <<pc, todo, findings>> /\ step' \notin {"idle", "enter"}
  /\ SnmpGoing(step', local', findings \o local'.found, p, F, room)

SnmpOver(p, F, room) ==
  \E new : /\ OurFindings(new) /\ Conclude(new) /\ SnmpFits(findings \o new, p, F)
           /\ Count(findings \o new, "sysdescr", p) <= room + 1

SnmpMoves(p, facts, room) ==
  /\ facts \subseteq SnmpFacts
  /\ \A fact : Happened("snmp", p, fact)' <=> Happened("snmp", p, fact) \/ fact \in facts
  /\ SnmpOn(p, SnmpHeard(p) \cup facts, room) \/ SnmpOver(p, SnmpHeard(p) \cup facts, room)

\* What a probe found last comes at the end of what there is.
With(found, kind, severity, evidence) == found \o SnmpFinding(kind, severity, evidence)

LEMMA FoundLast ==
  ASSUME Ledger, pc = "snmp", NEW found, OurFindings(found), NEW kind, NEW severity, NEW evidence
  PROVE  LET more == With(found, kind, severity, evidence) IN
         OurFindings(more) /\ findings \o more = With(findings \o found, kind, severity, evidence)
<1>1. OurFindings(SnmpFinding(kind, severity, evidence))
  BY MadeHere DEF SnmpFinding
<1>2. OurFindings(found \o SnmpFinding(kind, severity, evidence))
  BY <1>1, JoinedFindings
<1>3. findings \o (found \o SnmpFinding(kind, severity, evidence))
        = (findings \o found) \o SnmpFinding(kind, severity, evidence)
  BY <1>1, AllThree DEF Ledger, OurFindings
<1> QED BY <1>2, <1>3 DEF With

LEMMA NextTried ==
  ASSUME NEW found, NEW gathered, NextCommunity(found, gathered), NEW p, NEW F, NEW room \in Int,
         local.c \in 1..2, OurFindings(found), Tried(findings \o found, gathered, p, F, room)
  PROVE  SnmpOn(p, F, room) \/ SnmpOver(p, F, room)
<1>1. Len(COMMUNITY_STRINGS) = 2
  BY Communities
<1>2. CASE local.c = 2
  <2>1. Conclude(found)
    BY <1>1, <1>2 DEF NextCommunity
  <2> DEFINE list == findings \o found
  <2>2. Tried(list, gathered, p, F, room)
    OBVIOUS
  <2> HIDE DEF list
  <2>3. list \in Seq(ToSet(list)) /\ SnmpFits(list, p, F)
        /\ Count(list, "sysdescr", p) <= room + (IF gathered THEN 1 ELSE 0)
    BY <2>2 DEF Tried
  <2>4. Count(list, "sysdescr", p) \in Nat
    BY <2>3, TallyAppended DEF Count
  <2>5. Count(list, "sysdescr", p) <= room + 1
    BY <2>3, <2>4
  <2> QED BY <2>1, <2>3, <2>5 DEF SnmpOver, list
<1>3. CASE local.c = 1
  <2> DEFINE l == [c |-> local.c + 1, found |-> found, gathered |-> gathered]
  <2>1. Continue("get", l)
    BY <1>1, <1>3 DEF NextCommunity
  <2>2. l.c = 2 /\ l.found = found /\ l.gathered = gathered
    BY <1>3
  <2> HIDE DEF l
  <2>3. SnmpGoing("get", l, findings \o l.found, p, F, room)
    BY <2>2 DEF SnmpGoing
  <2> QED BY <2>1, <2>3 DEF Continue, SnmpOn
<1> QED BY <1>2, <1>3

LEMMA SnmpGetMoves ==
  ASSUME Ledger, SnmpGet, NEW p, p = Here, NEW room \in Int, OurFindings(local.found),
         SnmpGoing("get", local, findings \o local.found, p, SnmpHeard(p), room)
  PROVE  \E facts : SnmpMoves(p, facts, room)
<1>1. pc = "snmp"
  BY DEF SnmpGet, At
<1> DEFINE c == Community
           F == SnmpHeard(p)
           list == findings \o local.found
           more == local.found \o SnmpFinding("community", "High", c)
           first == more \o SnmpFinding("sysdescr", "Info", "descr")
           l == [c |-> local.c, gathered |-> TRUE, found |-> first]
<1>2. /\ local.c \in 1..2 /\ Tried(list, local.gathered, p, F, room)
      /\ local.gathered \in BOOLEAN
  BY DEF SnmpGoing, Tried
<1>3. c \in ToSet(COMMUNITY_STRINGS)
  BY <1>2, Communities DEF Community
<1>4. PICK outcome \in Outcomes :
        /\ Saw(Here, IF outcome = "silence" THEN {} ELSE {<<outcome, Community>>})
        /\ IF outcome # "value" THEN NextCommunity(local.found, local.gathered)
           ELSE IF local.gathered THEN NextCommunity(more, TRUE) ELSE Continue("name", l)
  BY DEF SnmpGet
<1>5. /\ OurFindings(more) /\ OurFindings(first)
      /\ findings \o more = list \o SnmpFinding("community", "High", c)
      /\ findings \o first = (findings \o more) \o SnmpFinding("sysdescr", "Info", "descr")
  <2>1. OurFindings(more) /\ findings \o more = list \o SnmpFinding("community", "High", c)
    <3>1. LET longer == With(local.found, "community", "High", c) IN
          OurFindings(longer) /\ findings \o longer = With(list, "community", "High", c)
      BY <1>1, FoundLast
    <3> QED BY <3>1 DEF With
  <2> HIDE DEF more
  <2>2. OurFindings(first)
        /\ findings \o first = (findings \o more) \o SnmpFinding("sysdescr", "Info", "descr")
    <3>1. LET longer == With(more, "sysdescr", "Info", "descr") IN
          OurFindings(longer) /\ findings \o longer = With(findings \o more, "sysdescr", "Info", "descr")
      <4>1. OurFindings(more)
        BY <2>1
      <4> QED BY <1>1, <4>1, FoundLast
    <3> QED BY <3>1 DEF With
  <2> QED BY <2>1, <2>2
<1> DEFINE G == F \cup {<<"value", c>>}
<1>6. /\ local.gathered => Tried(findings \o more, TRUE, p, G, room)
      /\ ~local.gathered => /\ Tried(findings \o first, TRUE, p, G, room)
                            /\ Count(findings \o first, "interfaces", p)
                                 < Count(findings \o first, "sysdescr", p)
                            /\ Count(findings \o first, "sysname", p)
                                 < Count(findings \o first, "sysdescr", p)
  <2>1. CommunityOutcome(c, list, local.gathered, p, F, room)
    <3> HIDE DEF c, F, list
    <3> QED BY <1>1, <1>2, <1>3, CommunityTried
  <2> HIDE DEF c, F, list, more, first
  <2> QED BY <1>5, <2>1 DEF CommunityOutcome
<1> HIDE DEF c, F, G, list, more, first
\* A step that brings facts without a value.
<1>7. ASSUME NEW facts, facts \subseteq SnmpFacts, \A d : <<"value", d>> \notin facts, Saw(p, facts),
             NextCommunity(local.found, local.gathered)
      PROVE  SnmpMoves(p, facts, room)
  <2>1. \A fact : Happened("snmp", p, fact)' <=> Happened("snmp", p, fact) \/ fact \in facts
    BY <1>1, <1>7, SeenHere
  <2> DEFINE H == F \cup facts
  <2>2. Tried(list, local.gathered, p, H, room)
    BY <1>2, <1>7, OtherFacts
  <2> HIDE DEF H
  <2>3. SnmpOn(p, H, room) \/ SnmpOver(p, H, room)
    BY <1>2, <1>7, <2>2, NextTried DEF list
  <2> QED BY <1>7, <2>1, <2>3 DEF SnmpMoves, H, F
<1>8. CASE outcome = "silence"
  <2>1. Saw(p, {}) /\ NextCommunity(local.found, local.gathered)
    BY <1>4, <1>8
  <2>2. SnmpMoves(p, {}, room)
    <3> DEFINE facts == {}
    <3>1. facts \subseteq SnmpFacts /\ (\A d : <<"value", d>> \notin facts) /\ Saw(p, facts)
      BY <2>1
    <3> HIDE DEF facts
    <3>2. SnmpMoves(p, facts, room)
      BY <1>7, <2>1, <3>1
    <3> QED BY <3>2 DEF facts
  <2> QED BY <2>2
<1>9. CASE outcome = "valueless"
  <2> DEFINE facts == {<<"valueless", c>>}
  <2>1. Saw(p, facts) /\ NextCommunity(local.found, local.gathered)
    BY <1>4, <1>9 DEF c
  <2>2. facts \subseteq SnmpFacts
    BY <1>3 DEF SnmpFacts
  <2>3. \A d : <<"value", d>> \notin facts
    BY SnmpFactsDiffer
  <2> HIDE DEF facts
  <2>4. SnmpMoves(p, facts, room)
    BY <1>7, <2>1, <2>2, <2>3
  <2> QED BY <2>4
<1>10. CASE outcome = "value"
  <2> DEFINE facts == {<<"value", c>>}
  <2>1. Saw(p, facts) /\ (IF local.gathered THEN NextCommunity(more, TRUE) ELSE Continue("name", l))
    BY <1>4, <1>10 DEF c
  <2>2. facts \subseteq SnmpFacts
    BY <1>3 DEF SnmpFacts
  <2>3. G = F \cup facts
    BY DEF G
  <2> HIDE DEF facts
  <2>4. \A fact : Happened("snmp", p, fact)' <=> Happened("snmp", p, fact) \/ fact \in facts
    BY <1>1, <2>1, SeenHere
  <2>5. SnmpOn(p, G, room) \/ SnmpOver(p, G, room)
    <3>1. CASE local.gathered
      BY <1>2, <1>5, <1>6, <2>1, <3>1, NextTried
    <3>2. CASE ~local.gathered
      <4>1. Continue("name", l) /\ l.c = local.c /\ l.found = first /\ l.gathered = TRUE
        BY <2>1, <3>2
      <4> HIDE DEF l
      <4>2. SnmpGoing("name", l, findings \o l.found, p, G, room)
        BY <1>2, <1>6, <3>2, <4>1 DEF SnmpGoing
      <4> QED BY <4>1, <4>2 DEF Continue, SnmpOn
    <3> QED BY <1>2, <3>1, <3>2
  <2>6. SnmpMoves(p, facts, room)
    BY <2>2, <2>3, <2>4, <2>5 DEF SnmpMoves, F
  <2> QED BY <2>6
<1> QED BY <1>8, <1>9, <1>10 DEF Outcomes

LEMMA SnmpNameMoves ==
  ASSUME Ledger, SnmpName, NEW p, p = Here, NEW room \in Int, OurFindings(local.found),
         SnmpGoing("name", local, findings \o local.found, p, SnmpHeard(p), room)
  PROVE  \E facts : SnmpMoves(p, facts, room)
<1>1. pc = "snmp"
  BY DEF SnmpName, At
<1> DEFINE F == SnmpHeard(p)
           list == findings \o local.found
           Joined(name) == local.found \o name
           Locals(name, rows) == [c |-> local.c, gathered |-> TRUE, found |-> Joined(name),
                                  rows |-> rows, current |-> 0, names |-> <<>>]
<1>2. PICK name \in {<<>>, SnmpFinding("sysname", "Info", "name")}, rows \in InterfaceRows :
        Continue("walk", Locals(name, rows)) /\ Saw(Here, {<<"rows", rows>>})
  BY DEF SnmpName
<1>3. rows \in Nat
  BY SnmpAssumption DEF SnmpAssumption
<1> DEFINE facts == {<<"rows", rows>>}
           G == F \cup facts
           found == Joined(name)
           l == Locals(name, rows)
<1>4. /\ facts \subseteq SnmpFacts /\ (\A c : <<"value", c>> \notin facts)
      /\ <<"rows", rows>> \in G
  BY <1>3, SnmpFactsDiffer DEF SnmpFacts
<1>5. /\ local.c \in 1..2 /\ local.gathered = TRUE /\ Tried(list, TRUE, p, F, room)
      /\ Count(list, "interfaces", p) < Count(list, "sysdescr", p)
      /\ Count(list, "sysname", p) < Count(list, "sysdescr", p)
  BY DEF SnmpGoing, Tried
<1> HIDE DEF F, list
<1>6. /\ Tried(findings \o found, TRUE, p, F, room)
      /\ Count(findings \o found, "interfaces", p) < Count(findings \o found, "sysdescr", p)
  <2>1. CASE name = <<>>
    <3>1. found = local.found
      BY <2>1 DEF OurFindings
    <3> QED BY <1>5, <3>1 DEF list
  <2>2. CASE name = SnmpFinding("sysname", "Info", "name")
    <3>1. findings \o found = list \o SnmpFinding("sysname", "Info", "name")
      <4>1. LET longer == With(local.found, "sysname", "Info", "name") IN
            findings \o longer = With(findings \o local.found, "sysname", "Info", "name")
        BY <1>1, FoundLast
      <4> QED BY <2>2, <4>1 DEF With, list
    <3> DEFINE more == list \o SnmpFinding("sysname", "Info", "name")
    <3>2. /\ Tried(more, TRUE, p, F, room)
          /\ Count(more, "interfaces", p) = Count(list, "interfaces", p)
          /\ Count(more, "sysdescr", p) = Count(list, "sysdescr", p)
      BY <1>1, <1>5, DetailNoted
    <3> HIDE DEF found, more
    <3>3. findings \o found = more
      BY <3>1 DEF more
    <3> QED BY <1>5, <3>2, <3>3
  <2> QED BY <1>2, <2>1, <2>2
<1>7. Saw(p, facts)
  BY <1>2
<1>8. l.c = local.c /\ l.gathered = TRUE /\ l.found = found /\ l.rows = rows /\ l.current = 0
      /\ l.names = <<>>
  OBVIOUS
<1>9. Continue("walk", l)
  BY <1>2
<1> HIDE DEF facts, found, Joined, l
<1>10. Tried(findings \o found, TRUE, p, G, room)
  <2> DEFINE longer == findings \o found
  <2>1. Tried(longer, TRUE, p, F, room)
    BY <1>6
  <2> HIDE DEF longer
  <2>2. Tried(longer, TRUE, p, G, room)
    BY <1>4, <2>1, OtherFacts
  <2> QED BY <2>2 DEF longer
<1> HIDE DEF G
<1>11. <<>> = [i \in 1..0 |-> i] /\ <<>> \in Seq(Nat) /\ Len(<<>>) = 0 /\ 0 <= MaxInterfaces
  BY SnmpAssumption DEF SnmpAssumption
<1>12. SnmpGoing("walk", l, findings \o l.found, p, G, room)
  BY <1>4, <1>5, <1>6, <1>8, <1>10, <1>11 DEF SnmpGoing
<1>13. \A fact : Happened("snmp", p, fact)' <=> Happened("snmp", p, fact) \/ fact \in facts
  BY <1>1, <1>7, SeenHere
<1>14. SnmpMoves(p, facts, room)
  BY <1>4, <1>9, <1>12, <1>13 DEF SnmpMoves, SnmpOn, Continue, G, F
<1> QED BY <1>14

LEMMA SnmpWalkMoves ==
  ASSUME Ledger, SnmpWalk, NEW p, p = Here, NEW room \in Int, OurFindings(local.found), SnmpDialogue,
         SnmpGoing("walk", local, findings \o local.found, p, SnmpHeard(p), room)
  PROVE  \E facts : SnmpMoves(p, facts, room)
<1>1. pc = "snmp" /\ step = "walk"
  BY DEF SnmpWalk, At
<1> DEFINE F == SnmpHeard(p)
           list == findings \o local.found
<1>2. /\ local \in [c : 1..2, found : {local.found}, gathered : {local.gathered},
                    rows : Nat, current : Nat, names : Seq(Nat)]
      /\ Len(local.names) <= MaxInterfaces /\ MaxInterfaces \in Nat
  BY <1>1, SnmpAssumption DEF SnmpDialogue, SnmpAssumption
<1>3. /\ local.c \in 1..2 /\ local.gathered = TRUE /\ Tried(list, TRUE, p, F, room)
      /\ Count(list, "interfaces", p) < Count(list, "sysdescr", p)
      /\ local.names \in Seq(Nat) /\ <<"rows", local.rows>> \in F
      /\ <<"strayed">> \notin F =>
           local.names = [i \in 1..Len(local.names) |-> i] /\ local.current = Len(local.names)
  BY DEF SnmpGoing, Tried
<1> HIDE DEF F, list
<1>5. ASSUME NEW facts, facts \subseteq SnmpFacts, \A c : <<"value", c>> \notin facts,
             \A fact : Happened("snmp", p, fact)' <=> Happened("snmp", p, fact) \/ fact \in facts,
             EndWalk, WalkedAs(local.names, F \cup facts)
      PROVE  SnmpMoves(p, facts, room)
  <2> DEFINE G == F \cup facts
             last == IF local.names = <<>> THEN <<>> ELSE SnmpFinding("interfaces", "Info", local.names)
             found == local.found \o last
  <2>1. Tried(list, TRUE, p, G, room)
    BY <1>3, <1>5, OtherFacts
  <2>2. OurFindings(found) /\ Tried(findings \o found, TRUE, p, G, room)
    <3>1. CASE local.names = <<>>
      <4>1. found = local.found
        BY <3>1 DEF OurFindings
      <4> QED BY <2>1, <4>1 DEF list
    <3>2. CASE local.names # <<>>
      <4>1. LET longer == With(local.found, "interfaces", "Info", local.names) IN
            /\ OurFindings(longer)
            /\ findings \o longer = With(findings \o local.found, "interfaces", "Info", local.names)
        BY <1>1, FoundLast
      <4>2. OurFindings(found) /\ findings \o found = list \o SnmpFinding("interfaces", "Info", local.names)
        BY <3>2, <4>1 DEF With, list
      <4> DEFINE more == list \o SnmpFinding("interfaces", "Info", local.names)
      <4> HIDE DEF G, found
      <4>3. Tried(more, TRUE, p, G, room)
        BY <1>1, <1>3, <1>5, <2>1, DetailNoted DEF G
      <4> HIDE DEF more
      <4>4. findings \o found = more
        BY <4>2 DEF more
      <4> QED BY <4>2, <4>3, <4>4
    <3> QED BY <3>1, <3>2
  <2>3. NextCommunity(found, TRUE)
    BY <1>5 DEF EndWalk
  <2> HIDE DEF found, G
  <2>4. SnmpOn(p, G, room) \/ SnmpOver(p, G, room)
    BY <1>3, <2>2, <2>3, NextTried
  <2> QED BY <1>5, <2>4 DEF SnmpMoves, G, F
<1>6. CASE EndWalk /\ UNCHANGED seen /\ Len(local.names) = MaxInterfaces
  <2>1. \A fact : Happened("snmp", p, fact)' <=> Happened("snmp", p, fact) \/ fact \in {}
    BY <1>6 DEF Happened
  <2>2. WalkedAs(local.names, F)
    BY <1>2, <1>3, <1>6 DEF WalkedAs
  <2>3. F \cup {} = F
    OBVIOUS
  <2>4. SnmpMoves(p, {}, room)
    BY <1>5, <1>6, <2>1, <2>2, <2>3
  <2> QED BY <2>4
<1>7. CASE /\ EndWalk
           /\ Saw(Here, IF local.current = local.rows THEN {} ELSE {<<"broke off">>})
  <2> DEFINE facts == IF local.current = local.rows THEN {} ELSE {<<"broke off">>}
             G == F \cup facts
  <2>1. Saw(p, facts) /\ facts \subseteq SnmpFacts /\ \A c : <<"value", c>> \notin facts
    BY <1>7, SnmpFactsDiffer DEF SnmpFacts
  <2>2. <<"broke off">> \notin G => local.current = local.rows
    OBVIOUS
  <2>3. <<"strayed">> \notin G => <<"strayed">> \notin F
    OBVIOUS
  <2>4. <<"rows", local.rows>> \in G
    BY <1>3
  <2> HIDE DEF facts, G
  <2>5. WalkedAs(local.names, G)
    BY <1>2, <1>3, <2>2, <2>3, <2>4 DEF WalkedAs
  <2>6. \A fact : Happened("snmp", p, fact)' <=> Happened("snmp", p, fact) \/ fact \in facts
    BY <1>1, <2>1, SeenHere
  <2>7. SnmpMoves(p, facts, room)
    BY <1>5, <1>7, <2>1, <2>5, <2>6 DEF G
  <2> QED BY <2>7
<1>8. ASSUME NEW row \in 1..local.rows, Len(local.names) < MaxInterfaces,
             Continue("walk", [local EXCEPT !.current = row, !.names = Append(@, row)]),
             Saw(Here, IF row = local.current + 1 THEN {} ELSE {<<"strayed">>})
      PROVE  \E facts : SnmpMoves(p, facts, room)
  <2> DEFINE facts == IF row = local.current + 1 THEN {} ELSE {<<"strayed">>}
             G == F \cup facts
             names == Append(local.names, row)
             l == [local EXCEPT !.current = row, !.names = names]
  <2>1. Saw(p, facts) /\ facts \subseteq SnmpFacts /\ \A c : <<"value", c>> \notin facts
    BY <1>8, SnmpFactsDiffer DEF SnmpFacts
  <2>2. /\ l.c = local.c /\ l.found = local.found /\ l.gathered = local.gathered
        /\ l.rows = local.rows /\ l.current = row /\ l.names = names
    BY <1>2
  <2>3. Continue("walk", l)
    BY <1>2, <1>8
  <2>4. <<"strayed">> \notin G => <<"strayed">> \notin F /\ row = local.current + 1
    OBVIOUS
  <2>5. <<"rows", local.rows>> \in G
    BY <1>3
  <2>6. row \in Nat /\ names \in Seq(Nat) /\ Len(names) = Len(local.names) + 1
        /\ Len(names) <= MaxInterfaces
    BY <1>2, <1>3, <1>8
  <2> HIDE DEF facts, l
  <2>7. Tried(list, TRUE, p, G, room)
    BY <1>3, <2>1, OtherFacts
  <2>8. <<"strayed">> \notin G => names = [i \in 1..Len(names) |-> i] /\ row = Len(names)
    <3> SUFFICES ASSUME <<"strayed">> \notin G
                 PROVE  names = [i \in 1..Len(names) |-> i] /\ row = Len(names)
      OBVIOUS
    <3> DEFINE n == Len(local.names)
    <3>1. local.names = [i \in 1..n |-> i] /\ local.current = n /\ row = n + 1 /\ n \in Nat
      BY <1>2, <1>3, <2>4
    <3>2. Len(names) = n + 1 /\ names \in Seq(Nat)
      BY <2>6
    <3>3. \A i \in 1..(n + 1) : names[i] = i
      BY <1>3, <3>1
    <3> HIDE DEF names, n
    <3>4. DOMAIN names = 1..(n + 1) /\ names = [i \in DOMAIN names |-> names[i]]
      BY <3>1, <3>2
    <3> QED BY <3>1, <3>2, <3>3, <3>4
  <2> HIDE DEF G, names
  <2>9. SnmpGoing("walk", l, findings \o l.found, p, G, room)
    BY <1>3, <2>2, <2>5, <2>6, <2>7, <2>8 DEF SnmpGoing, list
  <2>10. \A fact : Happened("snmp", p, fact)' <=> Happened("snmp", p, fact) \/ fact \in facts
    BY <1>1, <2>1, SeenHere
  <2>11. SnmpMoves(p, facts, room)
    BY <2>1, <2>3, <2>9, <2>10 DEF SnmpMoves, SnmpOn, Continue, G, F
  <2> QED BY <2>11
<1> QED BY <1>6, <1>7, <1>8 DEF SnmpWalk

\* Before a stage has come to a place nothing has been found or heard there.
LEMMA NoneTried ==
  ASSUME NEW p
  PROVE  SnmpFits(<<>>, p, {})
<1> DEFINE none == <<>>
           nothing == {}
<1>1. Working(nothing) = {}
  BY DEF Working
<1>2. \A kind : Count(none, kind, p) = 0 /\ Evidence(none, kind, p) = {}
  BY TallyNone, OfNone DEF Count, Evidence
<1> HIDE DEF none, nothing
<1>3. SnmpFits(none, p, nothing)
  BY <1>1, <1>2 DEF SnmpFits
<1> QED BY <1>3 DEF none, nothing

LEMMA SnmpMoving ==
  ASSUME Course, Probing, Dialogues, Ledger, Gathering, SnmpSoFar, SnmpStep, NEW p, p = Here,
         SnmpAnsweredAt(p), Listed(summary, p) \in Nat, Listed(todo, p) \in Nat
  PROVE  \E facts : SnmpMoves(p, facts, Room(p))
<1>1. pc = "snmp" /\ pc \in StageSet \ {"dns"} /\ step # "enter" /\ SnmpDialogue
  BY SnmpProbed, StageNames DEF Probed, Dialogues
<1>2. step # "idle" => /\ SnmpGoing(step, local, findings \o local.found, p, SnmpHeard(p), Room(p))
                       /\ OurFindings(local.found)
  BY <1>1 DEF SnmpSoFar, Under, Gathering
<1>7. Room(p) \in Int
  BY DEF Room
<1>3. CASE SnmpBegin
  <2> DEFINE l == [c |-> 1, found |-> <<>>, gathered |-> FALSE]
             F == SnmpHeard(p)
             list == findings \o l.found
  <2>1. step = "idle" /\ Settled("snmp", p)
    BY <1>1, <1>3, StageNames DEF SnmpBegin, Begins, At, Settled, ProbeOf, Under
  <2>2. list = findings /\ findings \in Seq(ToSet(findings))
    BY DEF Ledger
  <2>3. Continue("get", l) /\ seen' = seen
    BY <1>3 DEF SnmpBegin
  <2>4. l.c = 1 /\ l.found = <<>> /\ l.gathered = FALSE
    OBVIOUS
  <2>5. SnmpFits(list, p, F) /\ Count(list, "sysdescr", p) + Due(p) <= Listed(summary, p)
    BY <2>1, <2>2 DEF SnmpAnsweredAt
  <2> HIDE DEF l, F, list
  <2>6. Tried(list, l.gathered, p, F, Room(p))
    <3>1. Count(list, "sysdescr", p) \in Nat
      BY <2>2, TallyAppended DEF Count
    <3>2. Due(p) = Listed(todo, p)
      BY <1>1 DEF Due
    <3>4. Count(list, "sysdescr", p) <= Room(p)
      BY <2>5, <3>1, <3>2 DEF Room
    <3>5. Room(p) + (IF l.gathered THEN 1 ELSE 0) = Room(p)
      BY <1>7, <2>4
    <3> QED BY <2>2, <2>4, <2>5, <3>4, <3>5 DEF Tried
  <2>7. SnmpGoing("get", l, list, p, F \cup {}, Room(p))
    <3>1. F \cup {} = F
      OBVIOUS
    <3>2. SnmpGoing("get", l, list, p, F, Room(p))
      BY <2>4, <2>6 DEF SnmpGoing
    <3> QED BY <3>1, <3>2
  <2>8. \A fact : Happened("snmp", p, fact)' <=> Happened("snmp", p, fact) \/ fact \in {}
    BY <2>3 DEF Happened
  <2>9. SnmpOn(p, F \cup {}, Room(p))
    BY <2>3, <2>7 DEF SnmpOn, Continue, list
  <2>10. SnmpMoves(p, {}, Room(p))
    BY <2>8, <2>9 DEF SnmpMoves, F
  <2> QED BY <2>10
<1>4. CASE SnmpGet
  BY <1>2, <1>4, <1>7, SnmpGetMoves DEF SnmpGet, At
<1>5. CASE SnmpName
  BY <1>2, <1>5, <1>7, SnmpNameMoves DEF SnmpName, At
<1>6. CASE SnmpWalk
  BY <1>1, <1>2, <1>6, <1>7, SnmpWalkMoves DEF SnmpWalk, At
<1> QED BY <1>3, <1>4, <1>5, <1>6 DEF SnmpStep

\* What is added of another id changes nothing of this one.
LEMMA TallyBefore ==
  ASSUME NEW a, NEW b, a \in Seq(ToSet(a)), b \in Seq(ToSet(b)), NEW id, \A f \in ToSet(b) : f.id # id
  PROVE  Tally(a \o b, id) = Tally(a, id)
<1> DEFINE both == a \o b
           n == Len(a)
<1>1. /\ DOMAIN a = 1..n /\ DOMAIN b = 1..Len(b) /\ n \in Nat /\ Len(b) \in Nat
      /\ DOMAIN both = 1..(n + Len(b))
      /\ \A i \in 1..n : both[i] = a[i]
      /\ \A i \in 1..(n + Len(b)) : i \notin 1..n => both[i] = b[i - n] /\ i - n \in 1..Len(b)
  <2>1. both \in Seq(ToSet(a) \cup ToSet(b)) /\ Len(both) = n + Len(b)
    BY JoinedElements
  <2> QED BY <2>1
<1> HIDE DEF both, n
<1>2. \A i \in DOMAIN b : b[i].id # id
  BY <1>1 DEF ToSet
<1>3. {i \in DOMAIN both : both[i].id = id} = {i \in DOMAIN a : a[i].id = id}
  BY <1>1, <1>2
<1> QED BY <1>3 DEF Tally, both

LEMMA CountElsewhere ==
  ASSUME Course, Probing, Ledger, Gathering, [Next]_vars, NEW p,
         ~(Probes /\ pc = "snmp" /\ p = Here)
  PROVE  \A kind : Count(findings', kind, p) = Count(findings, kind, p)
<1>1. CASE ~Probes
  BY <1>1, CalmOrProbe DEF Calm
<1>2. CASE Probes
  <2>1. findings' = findings \/ \E new : OurFindings(new) /\ findings' = findings \o new
    BY <1>2, ProbesRecord DEF Recorded, Advanced
  <2>2. ASSUME NEW new, OurFindings(new), findings' = findings \o new, NEW kind
        PROVE  Count(findings', kind, p) = Count(findings, kind, p)
    <3> DEFINE id == <<"snmp", kind, p>>
    <3>1. \A f \in ToSet(new) : f.id # id
      BY <1>2, <2>2 DEF OurFindings, Ours
    <3>2. findings \in Seq(ToSet(findings)) /\ new \in Seq(ToSet(new))
      BY <2>2 DEF Ledger, OurFindings
    <3> HIDE DEF id
    <3>3. Tally(findings \o new, id) = Tally(findings, id)
      BY <3>1, <3>2, TallyBefore
    <3> QED BY <2>2, <3>3 DEF Count, id
  <2> QED BY <2>1, <2>2
<1> QED BY <1>1, <1>2

\* Elsewhere the entries of a port leave no more room than they did.
LEMMA RoomElsewhere ==
  ASSUME Course, Work, Work', Probing, Ledger, Gathering, [Next]_vars, NEW p,
         ~(Probes /\ pc = "snmp" /\ p = Here),
         Count(findings, "sysdescr", p) + Due(p) <= Listed(summary, p)
  PROVE  Count(findings', "sysdescr", p) + Due(p)' <= Listed(summary', p)
<1> DEFINE count == Count(findings, "sysdescr", p)
           listed == Listed(summary, p)
<1>1. Count(findings', "sysdescr", p) = count
  BY CountElsewhere
<1>8. count + Due(p) <= listed
  OBVIOUS
<1>2. count \in Nat
  BY TallyAppended DEF Ledger, Count
<1>3. Listed(summary, p) \in Nat /\ Listed(summary', p) \in Nat
  <2>1. summary \in Seq(PortRecord) /\ summary' \in Seq(PortRecord')
    BY DEF Work
  <2> QED BY <2>1, ListedFinite
<1>4. Listed(todo, p) \in Nat
  BY ListedFinite DEF Probing
<1>5. ASSUME findings = <<>> PROVE count = 0
  BY <1>5, TallyNone DEF Count
<1>9. listed \in Nat /\ Listed(summary', p) \in Nat /\ (summary' = summary => Listed(summary', p) = listed)
  BY <1>3
<1> HIDE DEF count, listed
<1> SUFFICES count + Due(p)' <= Listed(summary', p)
  BY <1>1
<1>6. CASE Probes
  <2>1. /\ pc' = pc /\ summary' = summary /\ step # "enter" /\ step' # "enter"
        /\ todo' = todo \/ (todo' = Tail(todo) /\ (step = "idle" => todo # <<>>))
        /\ pc \in StageSet
    BY <1>6, ProbesRecord DEF Probed
  <2>2. CASE pc # "snmp"
    <3>1. Due(p)' = Due(p)
      BY <2>1, <2>2 DEF Due
    <3> QED BY <1>8, <1>9, <2>1, <3>1
  <2>3. CASE pc = "snmp" /\ todo' = todo
    <3>1. Due(p)' = Due(p)
      BY <2>1, <2>3 DEF Due, Listed, Place
    <3> QED BY <1>8, <1>9, <2>1, <3>1
  <2>4. CASE pc = "snmp" /\ todo' = Tail(todo) /\ (step = "idle" => todo # <<>>)
    <3>1. todo # <<>> /\ todo \in Seq(ToSet(summary))
      BY <2>1, <2>4, StageNames DEF Probing
    <3>2. Listed(todo, p) = Listed(Tail(todo), p) + (IF p = Place(Head(todo)) THEN 1 ELSE 0)
          /\ Listed(Tail(todo), p) \in Nat
      BY <3>1, ListedTail, ListedFinite
    <3>3. Listed(todo', p) <= Listed(todo, p)
      BY <1>4, <2>4, <3>2
    <3>4. Due(p) = Listed(todo, p) /\ Due(p)' = Listed(todo', p) /\ Listed(todo', p) \in Nat
      BY <2>1, <2>4, <3>2 DEF Due, Listed
    <3> QED BY <1>2, <1>4, <1>8, <1>9, <2>1, <3>3, <3>4
  <2> QED BY <2>1, <2>2, <2>3, <2>4
<1>7. CASE ~Probes
  <2>1. Between /\ (summary' = summary \/ findings = <<>>)
    BY <1>7, BetweenProbes, CalmOrProbe DEF Calm
  <2>2. Due(p) \in Nat
    BY <1>4 DEF Due
  <2>3. CASE pc' # "snmp" \/ step' = "enter"
    <3>1. Due(p)' = 0
      BY <2>3 DEF Due
    <3>2. count <= Listed(summary', p)
      BY <1>2, <1>5, <1>8, <1>9, <2>1, <2>2
    <3> QED BY <1>2, <1>9, <3>1, <3>2
  <2>4. CASE pc' = "snmp" /\ step' # "enter" /\ pc \in StageSet /\ step = "enter" /\ pc' = pc
             /\ todo' = Worklist(pc) /\ summary' = summary
    <3>1. count = 0
      <4>1. Ahead("snmp")
        BY <2>4 DEF Ahead
      <4>2. \A f \in ToSet(findings) : f.id[1] # "snmp"
        BY <2>4, <4>1 DEF Ledger
      <4>3. Of(findings, <<"snmp", "sysdescr", p>>) = {}
        BY <4>2 DEF Of
      <4> QED BY <4>3, TallyAppended DEF Ledger, Count, count
    <3>2. Listed(todo', p) <= Listed(summary, p)
      <4>1. summary \in Seq(PortRecord)
        BY DEF Work
      <4>2. todo' = Kept(summary, {r \in ToSet(summary) : HostUp(r.host) /\ Eligible("snmp", r)})
        BY <2>4 DEF Worklist
      <4> QED BY <4>1, <4>2, ListedKept
    <3>3. Due(p)' = Listed(todo', p)
      BY <2>4 DEF Due, Listed
    <3>4. Listed(todo', p) \in Nat
      <4>1. Probing => todo \in Seq(ToSet(cli.names) \cup ToSet(summary))
        BY DEF Probing
      <4>2. summary \in Seq(PortRecord)
        BY DEF Work
      <4>3. todo' \in Seq(PortRecord)
        BY <2>4, <4>2, KeptProperties DEF Worklist
      <4> QED BY <4>3, ListedFinite
    <3> QED BY <1>9, <2>4, <3>1, <3>2, <3>3, <3>4 DEF listed
  <2>5. CASE UNCHANGED <<pc, step, todo, local, summary>>
    <3>1. Due(p)' = Due(p)
      BY <2>5 DEF Due, Listed
    <3> QED BY <1>8, <1>9, <2>5, <3>1
  <2> QED BY <2>1, <2>3, <2>4, <2>5, StageNames DEF Between, Ends
<1> QED BY <1>6, <1>7

LEMMA SnmpStays ==
  ASSUME NEW p, Still("snmp", p), SnmpFits(findings, p, SnmpHeard(p)),
         \A kind : Count(findings', kind, p) = Count(findings, kind, p)
  PROVE  SnmpFits(findings', p, SnmpHeard(p)')
<1>1. SnmpHeard(p)' = SnmpHeard(p)
  BY DEF Still, SnmpHeard
<1>2. \A kind : Evidence(findings', kind, p) = Evidence(findings, kind, p)
  <2> TAKE kind
  <2>1. Of(findings', <<"snmp", kind, p>>) = Of(findings, <<"snmp", kind, p>>)
    BY DEF Still, Found, Of
  <2> QED BY <2>1 DEF Evidence
<1>3. \A facts : SnmpFits(findings, p, facts) => SnmpFits(findings', p, facts)
  BY <1>2 DEF SnmpFits
<1> QED BY <1>1, <1>3

LEMMA SnmpStageStep ==
  ASSUME Course, Work, Work', Probing, Dialogues, Ledger, Gathering, [Next]_vars, SnmpSoFar,
         \A p : SnmpAnsweredAt(p)
  PROVE  SnmpSoFar' /\ \A p : SnmpAnsweredAt(p)'
<1>1. "snmp" \in StageSet \ {"dns"}
  BY StageNames
<1>2. ASSUME Probes, pc = "snmp"
      PROVE  SnmpStep /\ Probed /\ UNCHANGED <<pc, summary>>
  BY <1>2, HttpProbed, DnsProbed, FtpProbed, SnmpProbed, TlsProbed, SmbProbed DEF Probes, Probed
<1>3. ASSUME Probes, pc = "snmp", NEW p, p = Here
      PROVE  /\ SnmpAnsweredAt(p)'
             /\ Under' => /\ SnmpGoing(step', local', findings' \o local'.found, p, SnmpHeard(p)', Room(p))
                          /\ todo' = todo /\ summary' = summary
  <2>0. todo # <<>> /\ todo \in Seq(ToSet(summary)) /\ step # "enter"
    BY <1>1, <1>2, <1>3 DEF Probing, Probed
  <2>1. Listed(todo, p) \in Nat /\ Listed(summary, p) \in Nat /\ Room(p) \in Int
    <3>1. summary \in Seq(PortRecord)
      BY DEF Work
    <3>2. Listed(todo, p) \in Nat /\ Listed(summary, p) \in Nat
      BY <2>0, <3>1, ListedFinite
    <3> QED BY <3>2 DEF Room
  <2> DEFINE room == Room(p)
  <2>2. PICK facts : SnmpMoves(p, facts, room)
    BY <1>2, <1>3, <2>1, SnmpMoving
  <2> HIDE DEF room
  <2>3. SnmpHeard(p)' = SnmpHeard(p) \cup facts
    BY <2>2 DEF SnmpMoves, SnmpHeard
  <2> DEFINE F == SnmpHeard(p) \cup facts
  <2>4. CASE SnmpOn(p, F, room)
    <3>1. ~Settled("snmp", p)'
      BY <1>1, <1>3, <2>4 DEF SnmpOn, Settled, ProbeOf, Under, Here, Place
    <3> QED BY <1>2, <1>3, <2>3, <2>4, <3>1 DEF SnmpOn, SnmpAnsweredAt, room
  <2>5. CASE SnmpOver(p, F, room)
    <3>1. PICK new : /\ OurFindings(new) /\ Conclude(new) /\ SnmpFits(findings \o new, p, F)
                     /\ Count(findings \o new, "sysdescr", p) <= room + 1
      BY <2>5 DEF SnmpOver
    <3>2. findings' = findings \o new /\ todo' = Tail(todo) /\ step' = "idle" /\ ~Under'
      BY <3>1 DEF Conclude, Under
    <3>3. SnmpFits(findings', p, SnmpHeard(p)')
      BY <2>3, <3>1, <3>2
    <3>4. Count(findings', "sysdescr", p) \in Nat
      <4>1. findings' \in Seq(ToSet(findings'))
        BY <3>1, <3>2, JoinedElements DEF Ledger, OurFindings
      <4> QED BY <4>1, TallyAppended DEF Count
    <3>5. Listed(todo, p) = Listed(Tail(todo), p) + 1 /\ Listed(Tail(todo), p) \in Nat
      <4>1. p = Place(Head(todo))
        BY <1>3 DEF Here
      <4> QED BY <2>0, <4>1, ListedTail, ListedFinite
    <3>6. Due(p)' = Listed(Tail(todo), p)
      <4>1. pc' = "snmp" /\ step' # "enter"
        BY <1>2, <1>3, <3>2
      <4> QED BY <3>2, <4>1 DEF Due, Listed, Place
    <3>7. Count(findings', "sysdescr", p) + Due(p)' <= Listed(summary, p)
      BY <2>1, <3>1, <3>2, <3>4, <3>5, <3>6 DEF room, Room
    <3>8. Listed(summary, p)' = Listed(summary, p) /\ Count(findings, "sysdescr", p)' = Count(findings', "sysdescr", p)
      BY <1>2, <1>3 DEF Listed, Place
    <3> QED BY <3>2, <3>3, <3>7, <3>8 DEF SnmpAnsweredAt
  <2> QED BY <2>2, <2>4, <2>5 DEF SnmpMoves
<1>4. SnmpSoFar'
  <2> SUFFICES ASSUME pc' = "snmp", Under'
               PROVE  SnmpGoing(step, local, findings \o local.found, Here, SnmpHeard(Here), Room(Here))'
    BY DEF SnmpSoFar
  <2>1. CASE ~Probes
    <3>1. Under /\ UNCHANGED <<pc, step, todo, local, seen, findings, summary>>
      <4>1. Under /\ UNCHANGED <<pc, step, todo, local, seen, findings>>
        BY <2>1, StillUnder
      <4>2. Between /\ step # "enter" /\ step' # "idle" /\ step' # "enter" /\ pc' \notin Ends
        BY <2>1, <4>1, BetweenProbes, StageNames DEF Under, Ends
      <4>3. summary' = summary
        BY <4>1, <4>2, StageNames DEF Between, Ends
      <4> QED BY <4>1, <4>3
    <3>2. SnmpGoing(step, local, findings \o local.found, Here, SnmpHeard(Here), Room(Here))
      BY <3>1 DEF SnmpSoFar
    <3>3. Here' = Here
      BY <3>1 DEF Here, Place
    <3>4. SnmpHeard(Here)' = SnmpHeard(Here) /\ Room(Here)' = Room(Here)
      BY <3>1, <3>3 DEF SnmpHeard, Happened, Room, Listed, Place
    <3> QED BY <3>1, <3>2, <3>3, <3>4 DEF SnmpGoing, Tried, SnmpFits
  <2>2. CASE Probes
    <3>1. pc = "snmp"
      BY <2>2, ProbesRecord
    <3>2. \A p : p = Here =>
            /\ SnmpGoing(step', local', findings' \o local'.found, p, SnmpHeard(p)', Room(p))
            /\ todo' = todo /\ summary' = summary
      BY <1>3, <2>2, <3>1
    <3>3. todo' = todo /\ summary' = summary
      BY <3>2
    <3>4. Here' = Here
      BY <3>3 DEF Here, Place
    <3>5. \A p : p = Here => p = Here' /\ Room(p) = Room(Here)'
      BY <3>3, <3>4 DEF Room, Listed, Place
    <3>6. \A p : p = Here' => SnmpHeard(p)' = SnmpHeard(Here)'
      BY DEF SnmpHeard, Happened
    <3> QED BY <3>2, <3>5, <3>6 DEF SnmpGoing, Tried, SnmpFits
  <2> QED BY <2>1, <2>2
<1>5. ASSUME NEW p PROVE SnmpAnsweredAt(p)'
  <2>1. CASE Probes /\ Probed /\ pc = "snmp" /\ p = Here
    BY <1>3, <2>1
  <2>2. CASE ~(Probes /\ pc = "snmp" /\ p = Here)
    <3>1. Still("snmp", p) /\ (Settled("snmp", p)' => Settled("snmp", p))
      BY <1>1, <2>2, SettledOrHere
    <3>2. \A kind : Count(findings', kind, p) = Count(findings, kind, p)
      BY <2>2, CountElsewhere
    <3>3. ASSUME Settled("snmp", p)'
          PROVE  /\ SnmpFits(findings', p, SnmpHeard(p)')
                 /\ Count(findings', "sysdescr", p) + Due(p)' <= Listed(summary', p)
      <4>1. /\ SnmpFits(findings, p, SnmpHeard(p))
            /\ Count(findings, "sysdescr", p) + Due(p) <= Listed(summary, p)
        BY <3>1, <3>3 DEF SnmpAnsweredAt
      <4> QED BY <2>2, <3>1, <3>2, <4>1, SnmpStays, RoomElsewhere
    <3>4. Listed(summary, p)' = Listed(summary', p) /\ Count(findings, "sysdescr", p)' = Count(findings', "sysdescr", p)
      BY DEF Listed, Place
    <3> QED BY <3>3, <3>4 DEF SnmpAnsweredAt, SnmpFits
  <2> QED BY <1>2, <2>1, <2>2
<1> QED BY <1>4, <1>5

LEMMA SnmpAnsweredImplies ==
  ASSUME Work, Probing, Ledger, \A p : SnmpAnsweredAt(p)
  PROVE  SnmpAsAnswered
<1> SUFFICES ASSUME NEW r \in ToSet(summary), NEW p, p = Place(r), DoneWith("snmp", p)
             PROVE  LET Asked(outcome) == {c \in ToSet(COMMUNITY_STRINGS) :
                                             Happened("snmp", p, <<outcome, c>>)}
                        Said(kind) == {f.evidence : f \in Found("snmp", kind, p)}
                        Times(kind) ==
                          Cardinality({i \in DOMAIN findings : findings[i].id = <<"snmp", kind, p>>})
                    IN /\ Asked("value") \subseteq Said("community")
                       /\ Said("community") \subseteq Asked("value") \cup Asked("valueless")
                       /\ (Said("sysdescr") = {}) <=> (Asked("value") = {})
                       /\ Times("sysdescr") <= Cardinality({i \in DOMAIN summary : Place(summary[i]) = p})
                       /\ Times("sysname") <= Times("sysdescr")
                       /\ Times("interfaces") <= Times("sysdescr")
                       /\ \A names \in Said("interfaces") :
                            /\ Len(names) <= MaxInterfaces
                            /\ ~Happened("snmp", p, <<"strayed">>) =>
                                 /\ names = [i \in 1..Len(names) |-> i]
                                 /\ ~Happened("snmp", p, <<"broke off">>) =>
                                      \/ Happened("snmp", p, <<"rows", Len(names)>>)
                                      \/ Len(names) = MaxInterfaces
  BY DEF SnmpAsAnswered
<1> DEFINE facts == SnmpHeard(p)
           working == {c \in ToSet(COMMUNITY_STRINGS) : Happened("snmp", p, <<"value", c>>)}
<1>1. SnmpFits(findings, p, facts) /\ Count(findings, "sysdescr", p) + Due(p) <= Listed(summary, p)
  BY DoneIsSettled, StageNames DEF SnmpAnsweredAt
<1>2. Working(facts) = working
  BY DEF Working, SnmpHeard, SnmpFacts
<1>3. /\ <<"strayed">> \in facts <=> Happened("snmp", p, <<"strayed">>)
      /\ <<"broke off">> \in facts <=> Happened("snmp", p, <<"broke off">>)
      /\ \A n : <<"rows", n>> \in facts => Happened("snmp", p, <<"rows", n>>)
  BY DEF SnmpHeard, SnmpFacts
<1>4. \A kind : /\ Count(findings, kind, p) =
                     Cardinality({i \in DOMAIN findings : findings[i].id = <<"snmp", kind, p>>})
                /\ Evidence(findings, kind, p) = {f.evidence : f \in Found("snmp", kind, p)}
  BY DEF Count, Tally, Evidence, Of, Found
<1> HIDE DEF facts, working
<1>5. \A names \in Evidence(findings, "interfaces", p) : WalkedAs(names, facts)
  BY <1>1 DEF SnmpFits
<1>6. /\ Evidence(findings, "community", p) = working
      /\ (Evidence(findings, "sysdescr", p) = {}) <=> (working = {})
      /\ Count(findings, "sysname", p) <= Count(findings, "sysdescr", p)
      /\ Count(findings, "interfaces", p) <= Count(findings, "sysdescr", p)
  BY <1>1, <1>2 DEF SnmpFits
<1>7. \A names \in Evidence(findings, "interfaces", p) :
        /\ Len(names) <= MaxInterfaces
        /\ ~Happened("snmp", p, <<"strayed">>) =>
             /\ names = [i \in 1..Len(names) |-> i]
             /\ ~Happened("snmp", p, <<"broke off">>) =>
                  \/ Happened("snmp", p, <<"rows", Len(names)>>)
                  \/ Len(names) = MaxInterfaces
  BY <1>3, <1>5 DEF WalkedAs
<1>8. Count(findings, "sysdescr", p) <= Cardinality({i \in DOMAIN summary : Place(summary[i]) = p})
  <2>1. Due(p) \in Nat
    BY ListedFinite DEF Due, Probing
  <2>2. Count(findings, "sysdescr", p) + Due(p) <= Listed(summary, p)
    BY <1>1
  <2>3. Count(findings, "sysdescr", p) \in Int /\ Listed(summary, p) \in Int
    <3>1. summary \in Seq(PortRecord)
      BY DEF Work
    <3>2. Listed(summary, p) \in Nat
      BY <3>1, ListedFinite
    <3>3. Count(findings, "sysdescr", p) \in Nat
      BY TallyAppended DEF Count, Ledger
    <3> QED BY <3>2, <3>3
  <2> QED BY <2>1, <2>2, <2>3 DEF Listed
<1> QED BY <1>4, <1>6, <1>7, <1>8 DEF working

-----------------------------------------------------------------------------
(* HTTP: where the characters of a body end.                                *)

\* A fold over a set whose elements count one each returns their number.
Adding(w, S, g) ==
  g = [s \in SUBSET S |-> IF s = {} THEN 0
                          ELSE LET x == CHOOSE x \in s : TRUE IN w[x] + g[s \ {x}]]

LEMMA OnesAdded ==
  ASSUME NEW S, IsFiniteSet(S), NEW w, \A x \in S : w[x] = 1
  PROVE  /\ \E g : Adding(w, S, g)
         /\ \A g : Adding(w, S, g) => g[S] = Cardinality(S)
<1>1. \A s \in SUBSET S : IsFiniteSet(s) /\ Cardinality(s) \in Nat
  BY FS_Subset, FS_CardinalityType
<1>2. ASSUME NEW s \in SUBSET S, s # {}, NEW x, x = CHOOSE y \in s : TRUE
      PROVE  /\ x \in S /\ s \ {x} \in SUBSET S
             /\ Cardinality(s \ {x}) = Cardinality(s) - 1
             /\ Cardinality(s) = w[x] + Cardinality(s \ {x})
  <2>1. x \in s
    BY <1>2
  <2>2. Cardinality(s \ {x}) = Cardinality(s) - 1
    BY <1>1, <2>1, FS_RemoveElement
  <2> QED BY <1>1, <2>1, <2>2
<1>3. Adding(w, S, [s \in SUBSET S |-> Cardinality(s)])
  <2> DEFINE g == [s \in SUBSET S |-> Cardinality(s)]
  <2>1. ASSUME NEW s \in SUBSET S
        PROVE  g[s] = IF s = {} THEN 0 ELSE LET x == CHOOSE x \in s : TRUE IN w[x] + g[s \ {x}]
    <3>1. CASE s = {}
      BY <3>1, FS_EmptySet
    <3>2. CASE s # {}
      <4> DEFINE x == CHOOSE y \in s : TRUE
      <4> HIDE DEF x
      <4>1. s \ {x} \in SUBSET S /\ Cardinality(s) = w[x] + Cardinality(s \ {x})
        BY <1>2, <3>2 DEF x
      <4>2. g[s] = w[x] + g[s \ {x}]
        BY <4>1
      <4> QED BY <3>2, <4>2 DEF x
    <3> QED BY <3>1, <3>2
  <2>2. g = [s \in SUBSET S |-> g[s]]
    OBVIOUS
  <2> HIDE DEF g
  <2> QED BY <2>1, <2>2 DEF Adding, g
<1>4. ASSUME NEW g, Adding(w, S, g)
      PROVE  g[S] = Cardinality(S)
  <2>1. \A s \in SUBSET S :
          g[s] = IF s = {} THEN 0 ELSE LET x == CHOOSE x \in s : TRUE IN w[x] + g[s \ {x}]
    <3> DEFINE h == [s \in SUBSET S |-> IF s = {} THEN 0
                                         ELSE LET x == CHOOSE x \in s : TRUE IN w[x] + g[s \ {x}]]
    <3>1. \A s \in SUBSET S :
            h[s] = IF s = {} THEN 0 ELSE LET x == CHOOSE x \in s : TRUE IN w[x] + g[s \ {x}]
      OBVIOUS
    <3>2. g = h
      BY <1>4 DEF Adding
    <3> HIDE DEF h
    <3> QED BY <3>1, <3>2
  <2> DEFINE Wrong == {n \in Nat : \E s \in SUBSET S : Cardinality(s) = n /\ g[s] # n}
  <2>2. Wrong = {}
    <3> SUFFICES ASSUME Wrong # {} PROVE FALSE
      OBVIOUS
    <3>1. PICK n \in Wrong : \A m \in Wrong : n <= m
      <4>1. Wrong \in SUBSET Nat
        OBVIOUS
      <4> HIDE DEF Wrong
      <4> QED BY <4>1, LeastNumber
    <3>2. PICK s \in SUBSET S : Cardinality(s) = n /\ g[s] # n
      OBVIOUS
    <3>3. s # {}
      BY <2>1, <3>2, FS_EmptySet
    <3> DEFINE x == CHOOSE y \in s : TRUE
    <3>4. g[s] = w[x] + g[s \ {x}]
      BY <2>1, <3>3
    <3> HIDE DEF x
    <3>5. /\ x \in S /\ s \ {x} \in SUBSET S /\ Cardinality(s \ {x}) = n - 1 /\ w[x] = 1
          /\ n - 1 \in Nat /\ n \in Nat
      BY <1>1, <1>2, <3>2, <3>3 DEF x
    <3>6. n - 1 \notin Wrong
      <4> HIDE DEF Wrong
      <4> QED BY <3>1, <3>5
    <3>7. g[s \ {x}] = n - 1
      BY <3>5, <3>6
    <3> QED BY <3>2, <3>4, <3>5, <3>7
  <2> QED BY <1>1, <2>2
<1> QED BY <1>3, <1>4

LEMMA PlainOffsets ==
  ASSUME NEW body, \A i \in 1..Len(body) : body[i] \notin Odd, NEW n \in 0..Len(body), Len(body) \in Nat
  PROVE  Offset(body, n) = n /\ LowerOffset(body, n) = n
<1> DEFINE S == 1..n
           w == [i \in S |-> 1]
           F(g) == [s \in SUBSET S |-> IF s = {} THEN 0
                       ELSE LET x == CHOOSE x \in s : TRUE IN Bytes(body[x]) + g[s \ {x}]]
           L(g) == [s \in SUBSET S |-> IF s = {} THEN 0
                       ELSE LET x == CHOOSE x \in s : TRUE IN LowerBytes(body[x]) + g[s \ {x}]]
           W(g) == [s \in SUBSET S |-> IF s = {} THEN 0
                       ELSE LET x == CHOOSE x \in s : TRUE IN w[x] + g[s \ {x}]]
<1>1. IsFiniteSet(S) /\ Cardinality(S) = n
  BY FS_Interval
<1>2. \A x \in S : w[x] = 1 /\ Bytes(body[x]) = 1 /\ LowerBytes(body[x]) = 1
  BY DEF Odd, Bytes, LowerBytes
<1>3. \A s \in SUBSET S : s # {} => (CHOOSE x \in s : TRUE) \in S
  OBVIOUS
<1>4. \A g : F(g) = W(g) /\ L(g) = W(g)
  <2> HIDE DEF S, w
  <2> QED BY <1>2, <1>3
<1>5. \A g : Adding(w, S, g) <=> g = W(g)
  BY DEF Adding
<1>6. /\ \E g : Adding(w, S, g)
      /\ \A g : Adding(w, S, g) => g[S] = n
  <2> HIDE DEF S, w
  <2> QED BY <1>1, <1>2, OnesAdded
<1>7. Offset(body, n) = (CHOOSE g : g = F(g))[S] /\ LowerOffset(body, n) = (CHOOSE g : g = L(g))[S]
  BY DEF Offset, LowerOffset, MapThenSumSet, MapThenFoldSet
<1> HIDE DEF S, w, F, L, W
<1>8. (CHOOSE g : g = F(g))[S] = n
  BY <1>4, <1>5, <1>6
<1>9. (CHOOSE g : g = L(g))[S] = n
  BY <1>4, <1>5, <1>6
<1> QED BY <1>7, <1>8, <1>9

-----------------------------------------------------------------------------
(* HTTP: what the parts of a response are.                                  *)

\* The greatest number, as FiniteSetsExt finds it.
LEMMA ExtremeNumbers ==
  ASSUME NEW n \in Nat, NEW T \in SUBSET (1..n), T # {}
  PROVE  /\ Min(T) \in T /\ \A y \in T : Min(T) <= y
         /\ Max(T) \in T /\ \A y \in T : y <= Max(T)
<1>1. T \in SUBSET Nat /\ \A x \in T : x \in Int /\ n - x \in Nat /\ n - (n - x) = x
  OBVIOUS
<1>2. \E x \in T : \A y \in T : x <= y
  BY <1>1, LeastNumber
<1> DEFINE U == {n - x : x \in T}
<1>3. U \in SUBSET Nat /\ U # {}
  BY <1>1
<1> HIDE DEF U
<1>4. PICK u \in U : \A v \in U : u <= v
  BY <1>3, LeastNumber
<1>5. PICK x \in T : u = n - x
  BY <1>4 DEF U
<1>6. \A y \in T : y <= x
  <2> TAKE y \in T
  <2>1. n - x <= n - y
    BY <1>4, <1>5 DEF U
  <2> QED BY <1>1, <2>1
<1>7. \E z \in T : \A y \in T : z >= y
  BY <1>1, <1>6
<1>8. Min(T) \in T /\ \A y \in T : Min(T) <= y
  BY <1>2 DEF Min
<1>9. Max(T) \in T /\ \A y \in T : Max(T) >= y
  BY <1>7 DEF Max
<1> QED BY <1>1, <1>8, <1>9

\* What holds of a response, however little of it has arrived.
Shaped(raw) ==
  /\ raw \in Seq(ToSet(raw))
  /\ \A i \in DOMAIN raw : raw[i] = <<raw[i][1], raw[i][2]>>
  /\ \A i, j \in DOMAIN raw : i < j /\ raw[i] = EmptyLine => raw[j][1] = "body"
  /\ \A j \in DOMAIN raw : raw[j][1] = "body" => \E i \in 1..(j - 1) : raw[i] = EmptyLine
  /\ \A i \in DOMAIN raw : IsHeader(raw[i]) /\ raw[i][2] = "cut" => EmptyLine \notin ToSet(raw)

LEMMA ArrivedShape ==
  ASSUME NEW page \in Pages, NEW raw \in Arrivals(page)
  PROVE  Shaped(raw)
<1> DEFINE N == Len(page)
<1>1. /\ page \in Seq(ToSet(page)) /\ N \in Nat /\ DOMAIN page = 1..N
      /\ \A i \in 1..N : page[i] = <<page[i][1], page[i][2]>> /\ page[i][2] # "cut"
      /\ \A i, j \in 1..N : i < j /\ page[i] = EmptyLine => page[j][1] = "body"
      /\ \A j \in 1..N : page[j][1] = "body" => \E i \in 1..(j - 1) : page[i] = EmptyLine
  <2>1. page \in Seq(ToSet(page))
    BY HttpAssumption DEF HttpAssumption
  <2>2. N \in Nat /\ DOMAIN page = 1..N
    BY <2>1
  <2> QED BY <2>1, <2>2, HttpAssumption DEF HttpAssumption
<1>2. raw \in Seq(ToSet(raw))
  BY ArrivedLists
<1>3. CASE raw \in {SubSeq(page, 1, n) : n \in 0..N}
  <2>1. PICK n \in 0..N : raw = SubSeq(page, 1, n)
    BY <1>3
  <2>2. DOMAIN raw = 1..n /\ \A i \in 1..n : raw[i] = page[i]
    BY <1>1, <2>1
  <2> HIDE DEF N
  <2>3. \A i \in 1..n : i \in 1..N
    BY <1>1
  <2>4. ASSUME NEW j \in 1..n, raw[j][1] = "body"
        PROVE  \E i \in 1..(j - 1) : raw[i] = EmptyLine
    <3>1. PICK i \in 1..(j - 1) : page[i] = EmptyLine
      BY <1>1, <2>2, <2>3, <2>4
    <3>2. i \in 1..n
      BY <1>1, <3>1
    <3> QED BY <2>2, <3>1, <3>2
  <2> QED BY <1>1, <1>2, <2>2, <2>3, <2>4 DEF Shaped
<1>4. CASE raw \notin {SubSeq(page, 1, n) : n \in 0..N}
  <2>1. PICK n \in 1..N : IsHeader(page[n]) /\ raw = Append(SubSeq(page, 1, n - 1), Cut(page[n]))
    BY <1>1, <1>4 DEF Arrivals
  <2>2. /\ DOMAIN raw = 1..n /\ raw[n] = Cut(page[n])
        /\ \A i \in 1..(n - 1) : raw[i] = page[i]
    <3> DEFINE s == SubSeq(page, 1, n - 1)
    <3>1. s \in Seq(ToSet(page)) /\ Len(s) = n - 1 /\ \A i \in 1..(n - 1) : s[i] = page[i]
      BY <1>1
    <3> HIDE DEF s
    <3>2. raw = Append(s, Cut(page[n]))
      BY <2>1 DEF s
    <3> QED BY <1>1, <3>1, <3>2
  <2> HIDE DEF N
  <2>3. \A i \in 1..n : i \in 1..N /\ i \in Int /\ (i = n \/ i \in 1..(n - 1))
    BY <1>1
  <2>4. /\ raw[n] = <<raw[n][1], raw[n][2]>>
        /\ raw[n][1] \notin {"status", "empty", "body"} /\ raw[n] # EmptyLine
    <3>1. raw[n] = <<page[n][1], "cut">> /\ page[n][1] \notin {"status", "empty", "body"}
      BY <2>1, <2>2 DEF Cut, IsHeader
    <3>2. EmptyLine[1] = "empty"
      BY DEF EmptyLine
    <3> QED BY <3>1, <3>2
  <2>5. \A i \in 1..(n - 1) : raw[i] # EmptyLine
    <3> SUFFICES ASSUME NEW i \in 1..(n - 1), raw[i] = EmptyLine PROVE FALSE
      OBVIOUS
    <3>1. page[i] = EmptyLine /\ i < n /\ i \in 1..N
      BY <1>1, <2>2
    <3> QED BY <1>1, <2>1, <3>1 DEF IsHeader
  <2>6. \A i \in 1..n : raw[i] # EmptyLine
    BY <2>3, <2>4, <2>5
  <2>7. EmptyLine \notin ToSet(raw)
    BY <2>2, <2>6 DEF ToSet
  <2>8. \A j \in 1..n : raw[j][1] # "body"
    <3> SUFFICES ASSUME NEW j \in 1..n, raw[j][1] = "body" PROVE FALSE
      OBVIOUS
    <3>1. j \in 1..(n - 1)
      BY <2>3, <2>4
    <3>2. PICK i \in 1..(j - 1) : page[i] = EmptyLine
      BY <1>1, <2>2, <2>3, <3>1
    <3>3. i \in 1..(n - 1)
      BY <1>1, <3>1, <3>2
    <3> QED BY <2>2, <2>5, <3>2, <3>3
  <2>9. \A i \in 1..n : raw[i] = <<raw[i][1], raw[i][2]>>
    BY <1>1, <2>2, <2>3, <2>4
  <2> QED BY <1>2, <2>2, <2>6, <2>7, <2>8, <2>9 DEF Shaped
<1> QED BY <1>3, <1>4

\* The empty line, and what is in front of it and behind it.
Parted(raw, e) ==
  LET head == Split(raw).head
      body == Split(raw).body
      m == Len(raw) - e
  IN /\ raw[e] = EmptyLine
     /\ head \in Seq(ToSet(raw)) /\ Len(head) = e - 1
     /\ \A i \in 1..(e - 1) : head[i] = raw[i]
     /\ body \in Seq(ToSet(raw)) /\ Len(body) = m /\ m \in Nat
     /\ \A k \in 1..m : body[k] = raw[e + k]
     /\ \A j \in 1..Len(raw) : raw[j][1] = "body" <=> e < j

LEMMA Parts ==
  ASSUME NEW raw, Shaped(raw), EmptyLine \in ToSet(raw)
  PROVE  \E e \in 1..Len(raw) : Parted(raw, e)
<1> DEFINE N == Len(raw)
           P == Positions(raw, EmptyLine)
           e == Min(P)
           E == ToSet(raw)
<1>1. raw \in Seq(E) /\ N \in Nat /\ DOMAIN raw = 1..N
  BY DEF Shaped
<1>2. P \in SUBSET (1..N) /\ P # {}
  BY <1>1 DEF Positions, ToSet
<1>3. e \in P
  <2> HIDE DEF P, N
  <2> QED BY <1>1, <1>2, ExtremeNumbers
<1>4. /\ Split(raw).head = SubSeq(raw, 1, e - 1)
      /\ Split(raw).body = SubSeq(raw, e + 1, N)
  BY <1>2 DEF Split
<1>5. e \in 1..N /\ raw[e] = EmptyLine /\ e \in Int
  BY <1>1, <1>3 DEF Positions
<1> HIDE DEF e, P
<1>6. ASSUME NEW s \in Seq(E), NEW c \in 1..Len(s)
      PROVE  /\ SubSeq(s, 1, c - 1) \in Seq(E) /\ Len(SubSeq(s, 1, c - 1)) = c - 1
             /\ \A i \in 1..(c - 1) : SubSeq(s, 1, c - 1)[i] = s[i]
             /\ SubSeq(s, c + 1, Len(s)) \in Seq(E)
             /\ Len(SubSeq(s, c + 1, Len(s))) = Len(s) - c /\ Len(s) - c \in Nat
             /\ \A k \in 1..(Len(s) - c) : SubSeq(s, c + 1, Len(s))[k] = s[c + k]
  <2> HIDE DEF E, N
  <2> QED OBVIOUS
<1>7. /\ EmptyLine[1] = "empty"
      /\ \A i, j \in 1..N : i < j /\ raw[i] = EmptyLine => raw[j][1] = "body"
      /\ \A j \in 1..N : raw[j][1] = "body" => \E i \in 1..(j - 1) : raw[i] = EmptyLine
  BY <1>1 DEF Shaped, EmptyLine
<1> HIDE DEF N
<1>8. ASSUME NEW j \in 1..N PROVE raw[j][1] = "body" <=> e < j
  <2>1. e < j => raw[j][1] = "body"
    BY <1>5, <1>7
  <2>2. ASSUME raw[j][1] = "body" PROVE e < j
    <3>1. PICK i \in 1..(j - 1) : raw[i] = EmptyLine
      BY <1>7, <2>2
    <3>2. i \in 1..N /\ i < j /\ j \in Int /\ i \in Int
      BY <1>1
    <3>3. ~(i < e) /\ ~(e < i)
      BY <1>5, <1>7, <3>1, <3>2
    <3> QED BY <1>5, <3>2, <3>3
  <2> QED BY <2>1, <2>2
<1>9. Parted(raw, e)
  <2>1. /\ SubSeq(raw, 1, e - 1) \in Seq(E) /\ Len(SubSeq(raw, 1, e - 1)) = e - 1
        /\ \A i \in 1..(e - 1) : SubSeq(raw, 1, e - 1)[i] = raw[i]
        /\ SubSeq(raw, e + 1, N) \in Seq(E)
        /\ Len(SubSeq(raw, e + 1, N)) = N - e /\ N - e \in Nat
        /\ \A k \in 1..(N - e) : SubSeq(raw, e + 1, N)[k] = raw[e + k]
    BY <1>1, <1>5, <1>6 DEF N
  <2> DEFINE a == SubSeq(raw, 1, e - 1)
             b == SubSeq(raw, e + 1, N)
  <2> HIDE DEF a, b
  <2>2. /\ a \in Seq(E) /\ Len(a) = e - 1 /\ \A i \in 1..(e - 1) : a[i] = raw[i]
        /\ b \in Seq(E) /\ Len(b) = N - e /\ N - e \in Nat
        /\ \A k \in 1..(N - e) : b[k] = raw[e + k]
    BY <2>1 DEF a, b
  <2>3. Split(raw).head = a /\ Split(raw).body = b
    BY <1>4 DEF a, b
  <2> QED BY <1>5, <1>8, <2>2, <2>3 DEF Parted, N
<1> QED BY <1>5, <1>9 DEF N

\* Without a character whose lower case has another length, offsets in the copy
\* are offsets in the body.
LEMMA PlainSlice ==
  ASSUME NEW body, Len(body) \in Nat, \A i \in 1..Len(body) : body[i] \notin Odd,
         NEW i \in 0..Len(body), NEW k \in 0..Len(body)
  PROVE  Slice(body, LowerOffset(body, i), LowerOffset(body, k)) = {SubSeq(body, i + 1, k)}
<1> DEFINE Boundary(offset) == {n \in 0..Len(body) : Offset(body, n) = offset}
           Chosen(m, n) == SubSeq(body, m + 1, n)
<1>1. \A n \in 0..Len(body) : Offset(body, n) = n /\ LowerOffset(body, n) = n
  BY PlainOffsets
<1>2. Boundary(i) = {i} /\ Boundary(k) = {k}
  BY <1>1
<1>3. Slice(body, i, k) = {Chosen(m, n) : m \in Boundary(i), n \in Boundary(k)}
  BY DEF Slice
<1> HIDE DEF Boundary, Chosen
<1>4. Slice(body, i, k) = {Chosen(i, k)}
  BY <1>2, <1>3
<1> QED BY <1>1, <1>4 DEF Chosen

\* A tag is behind the empty line.
LEMMA TagPositions ==
  ASSUME NEW raw, Shaped(raw), NEW e \in 1..Len(raw), Parted(raw, e), NEW tag, tag[1] = "body"
  PROVE  /\ \A j \in Positions(raw, tag) : j - e \in Positions(Split(raw).body, tag)
         /\ \A k \in Positions(Split(raw).body, tag) : e + k \in Positions(raw, tag)
<1> DEFINE N == Len(raw)
           body == Split(raw).body
           m == N - e
<1>1. raw \in Seq(ToSet(raw)) /\ N \in Nat /\ DOMAIN raw = 1..N
  BY DEF Shaped
<1>2. /\ body \in Seq(ToSet(raw)) /\ Len(body) = m /\ m \in Nat /\ e \in 1..N
      /\ \A k \in 1..m : body[k] = raw[e + k]
      /\ \A j \in 1..N : raw[j][1] = "body" <=> e < j
  BY DEF Parted
<1>3. DOMAIN body = 1..m
  BY <1>2
<1> HIDE DEF body, N
<1>4. ASSUME NEW j \in Positions(raw, tag) PROVE j - e \in Positions(body, tag)
  <2>1. j \in 1..N /\ raw[j] = tag
    BY <1>1 DEF Positions
  <2>2. e < j
    BY <1>2, <2>1
  <2>3. j - e \in 1..m /\ e + (j - e) = j
    BY <1>1, <1>2, <2>1, <2>2
  <2>4. body[j - e] = tag
    BY <1>2, <2>1, <2>3
  <2> QED BY <1>3, <2>3, <2>4 DEF Positions
<1>5. ASSUME NEW k \in Positions(body, tag) PROVE e + k \in Positions(raw, tag)
  <2>1. k \in 1..m /\ body[k] = tag
    BY <1>3 DEF Positions
  <2>2. e + k \in 1..N
    BY <1>1, <1>2, <2>1
  <2>3. raw[e + k] = tag
    BY <1>2, <2>1
  <2> QED BY <1>1, <2>2, <2>3 DEF Positions
<1> QED BY <1>4, <1>5 DEF body

\* From a tag to a tag, in the response and in its body.
LEMMA SameText ==
  ASSUME NEW raw, Shaped(raw), NEW e \in 1..Len(raw), Parted(raw, e),
         NEW i \in 1..Len(Split(raw).body), NEW k \in 1..Len(Split(raw).body), i < k
  PROVE  SubSeq(raw, e + i + 1, e + k - 1) = SubSeq(Split(raw).body, i + 1, k - 1)
<1> DEFINE E == ToSet(raw)
           N == Len(raw)
           body == Split(raw).body
           a == SubSeq(raw, e + i + 1, e + k - 1)
           b == SubSeq(body, i + 1, k - 1)
           n == k - 1 - i
<1>1. raw \in Seq(E) /\ N \in Nat
  BY DEF Shaped
<1>2. /\ body \in Seq(E) /\ Len(body) = N - e /\ N - e \in Nat /\ e \in 1..N
      /\ \A j \in 1..(N - e) : body[j] = raw[e + j]
  BY DEF Parted
<1> HIDE DEF body, E, N
<1>3. i \in 1..(N - e) /\ k \in 1..(N - e) /\ n \in Nat
  BY <1>1, <1>2 DEF body
<1>4. a \in Seq(E) /\ Len(a) = n /\ \A j \in 1..n : a[j] = raw[e + i + j]
  <2>1. ASSUME NEW s \in Seq(E), NEW x \in 1..(Len(s) + 1), NEW y \in 0..Len(s), x <= y + 1
        PROVE  /\ SubSeq(s, x, y) \in Seq(E) /\ Len(SubSeq(s, x, y)) = y + 1 - x
               /\ \A j \in 1..(y + 1 - x) : SubSeq(s, x, y)[j] = s[x + j - 1]
    <3> HIDE DEF n
    <3> QED BY <2>1
  <2>2. e + i + 1 \in 1..(N + 1) /\ e + k - 1 \in 0..N /\ e + i + 1 <= e + k - 1 + 1
        /\ e + k - 1 + 1 - (e + i + 1) = n
    BY <1>1, <1>2, <1>3
  <2> DEFINE x == e + i + 1
             y == e + k - 1
  <2>3. \A j \in 1..n : x + j - 1 = e + i + j
    BY <1>2, <1>3
  <2> HIDE DEF x, y, n
  <2>4. /\ SubSeq(raw, x, y) \in Seq(E) /\ Len(SubSeq(raw, x, y)) = y + 1 - x
        /\ \A j \in 1..(y + 1 - x) : SubSeq(raw, x, y)[j] = raw[x + j - 1]
    BY <1>1, <2>1, <2>2 DEF x, y, N
  <2> QED BY <2>2, <2>3, <2>4 DEF x, y
<1>5. b \in Seq(E) /\ Len(b) = n /\ \A j \in 1..n : b[j] = body[i + j]
  <2>1. ASSUME NEW s \in Seq(E), NEW x \in 1..(Len(s) + 1), NEW y \in 0..Len(s), x <= y + 1
        PROVE  /\ SubSeq(s, x, y) \in Seq(E) /\ Len(SubSeq(s, x, y)) = y + 1 - x
               /\ \A j \in 1..(y + 1 - x) : SubSeq(s, x, y)[j] = s[x + j - 1]
    <3> HIDE DEF n
    <3> QED BY <2>1
  <2>2. i + 1 \in 1..(N - e + 1) /\ k - 1 \in 0..(N - e) /\ i + 1 <= k - 1 + 1
        /\ k - 1 + 1 - (i + 1) = n
    BY <1>2, <1>3
  <2> DEFINE x == i + 1
             y == k - 1
  <2>3. \A j \in 1..n : x + j - 1 = i + j
    BY <1>3
  <2> HIDE DEF x, y, n
  <2>4. /\ SubSeq(body, x, y) \in Seq(E) /\ Len(SubSeq(body, x, y)) = y + 1 - x
        /\ \A j \in 1..(y + 1 - x) : SubSeq(body, x, y)[j] = body[x + j - 1]
    BY <1>2, <2>1, <2>2 DEF x, y
  <2> QED BY <2>2, <2>3, <2>4 DEF x, y
<1> HIDE DEF a, b
<1>6. \A j \in 1..n : a[j] = b[j]
  <2> TAKE j \in 1..n
  <2>1. i + j \in 1..(N - e) /\ e + (i + j) = e + i + j
    BY <1>2, <1>3
  <2> QED BY <1>2, <1>4, <1>5, <2>1
<1> HIDE DEF n
<1>7. a = b
  BY <1>4, <1>5, <1>6
<1> QED BY <1>7 DEF a, b, body

\* The tags of the title that is served: from the first start tag to the first
\* end tag behind it.
Tagged(raw, i, k) ==
  /\ i \in Positions(raw, OpenTag) /\ k \in Positions(raw, CloseTag) /\ i < k
  /\ \A j \in Positions(raw, OpenTag) : i <= j
  /\ \A j \in Positions(raw, CloseTag) : i < j => k <= j

LEMMA ServedByTags ==
  ASSUME NEW raw, Shaped(raw)
  PROVE  \A t : t \in Served(raw) <=>
           t # <<>> /\ \E i, k : Tagged(raw, i, k) /\ t = SubSeq(raw, i + 1, k - 1)
<1> DEFINE N == Len(raw)
           Title(i, k) == SubSeq(raw, i + 1, k - 1)
           P == Positions(raw, OpenTag)
           Q == Positions(raw, CloseTag)
           S == {ik \in P \X Q :
                   /\ ik[1] < ik[2]
                   /\ \A j \in 1..(ik[2] - 1) : raw[j] = OpenTag => j >= ik[1]
                   /\ \A j \in (ik[1] + 1)..(ik[2] - 1) : raw[j] # CloseTag}
<1>1. N \in Nat /\ DOMAIN raw = 1..N
  BY DEF Shaped
<1>2. \A i \in P : i \in 1..N /\ raw[i] = OpenTag
  BY <1>1 DEF Positions
<1>3. \A i \in Q : i \in 1..N /\ raw[i] = CloseTag
  BY <1>1 DEF Positions
<1>4. \A i \in 1..N : (i \in P <=> raw[i] = OpenTag) /\ (i \in Q <=> raw[i] = CloseTag)
  BY <1>1 DEF Positions
<1>5. ASSUME NEW i \in P, NEW k \in Q
      PROVE  Tagged(raw, i, k) <=>
               /\ i < k
               /\ \A j \in 1..(k - 1) : raw[j] = OpenTag => j >= i
               /\ \A j \in (i + 1)..(k - 1) : raw[j] # CloseTag
  <2>1. i \in 1..N /\ k \in 1..N /\ i \in Int /\ k \in Int /\ N \in Int
    BY <1>1, <1>2, <1>3
  <2>2. ASSUME Tagged(raw, i, k)
        PROVE  /\ i < k
               /\ \A j \in 1..(k - 1) : raw[j] = OpenTag => j >= i
               /\ \A j \in (i + 1)..(k - 1) : raw[j] # CloseTag
    <3>1. /\ i < k /\ \A j \in P : i <= j
          /\ \A j \in Q : i < j => k <= j
      BY <2>2 DEF Tagged
    <3>2. /\ \A j \in 1..(k - 1) : j \in 1..N
          /\ \A j \in (i + 1)..(k - 1) : j \in 1..N /\ i < j /\ ~(k <= j)
      BY <2>1
    <3> HIDE DEF P, Q, N
    <3> QED BY <1>4, <3>1, <3>2
  <2>3. ASSUME i < k,
               \A j \in 1..(k - 1) : raw[j] = OpenTag => j >= i,
               \A j \in (i + 1)..(k - 1) : raw[j] # CloseTag
        PROVE  Tagged(raw, i, k)
    <3>1. ASSUME NEW j \in P PROVE i <= j
      <4>1. j \in 1..N /\ raw[j] = OpenTag
        BY <1>2
      <4>2. j \in 1..(k - 1) \/ k <= j
        BY <2>1, <4>1
      <4> QED BY <2>1, <2>3, <4>1, <4>2
    <3>2. ASSUME NEW j \in Q, i < j PROVE k <= j
      <4>1. j \in 1..N /\ raw[j] = CloseTag
        BY <1>3
      <4>2. j \in (i + 1)..(k - 1) \/ k <= j
        BY <2>1, <3>2, <4>1
      <4> QED BY <2>3, <4>1, <4>2
    <3> QED BY <2>3, <3>1, <3>2 DEF Tagged
  <2> QED BY <2>2, <2>3
<1>6. \A i, k : Tagged(raw, i, k) => i \in P /\ k \in Q
  BY DEF Tagged
<1>7. Served(raw) = {Title(tags[1], tags[2]) : tags \in S} \ {<<>>}
  BY DEF Served
<1>8. \A i \in P, k \in Q : <<i, k>> \in S <=> Tagged(raw, i, k)
  <2> TAKE i \in P, k \in Q
  <2>1. <<i, k>> \in P \X Q /\ <<i, k>>[1] = i /\ <<i, k>>[2] = k
    OBVIOUS
  <2> HIDE DEF P, Q
  <2> QED BY <1>5, <2>1
<1>9. \A tags \in S : tags[1] \in P /\ tags[2] \in Q /\ tags = <<tags[1], tags[2]>>
  <2> HIDE DEF P, Q
  <2> QED OBVIOUS
<1> HIDE DEF S, P, Q, Title
<1>10. ASSUME NEW t
       PROVE  t \in Served(raw) <=> t # <<>> /\ \E i, k : Tagged(raw, i, k) /\ t = Title(i, k)
  <2>1. ASSUME NEW tags \in S
        PROVE  \E i, k : Tagged(raw, i, k) /\ Title(tags[1], tags[2]) = Title(i, k)
    BY <1>8, <1>9
  <2>2. ASSUME NEW i, NEW k, Tagged(raw, i, k)
        PROVE  \E tags \in S : Title(tags[1], tags[2]) = Title(i, k)
    <3>1. <<i, k>> \in S
      BY <1>6, <1>8, <2>2
    <3>2. <<i, k>>[1] = i /\ <<i, k>>[2] = k
      OBVIOUS
    <3> QED BY <3>1, <3>2
  <2> QED BY <1>7, <2>1, <2>2
<1> QED BY <1>10 DEF Title

\* At most one pair of tags.
LEMMA TagsUnique ==
  ASSUME NEW raw, Shaped(raw), NEW i, NEW k, Tagged(raw, i, k)
  PROVE  Served(raw) = {SubSeq(raw, i + 1, k - 1)} \ {<<>>}
<1> DEFINE Title(m, n) == SubSeq(raw, m + 1, n - 1)
           N == Len(raw)
<1>1. N \in Nat /\ DOMAIN raw = 1..N
  BY DEF Shaped
<1>2. \A m, n : Tagged(raw, m, n) => m \in 1..N /\ n \in 1..N
  BY <1>1 DEF Tagged, Positions
<1>3. \A m, n : Tagged(raw, m, n) => m = i /\ n = k
  <2> SUFFICES ASSUME NEW m, NEW n, Tagged(raw, m, n) PROVE m = i /\ n = k
    OBVIOUS
  <2>1. i \in 1..N /\ k \in 1..N /\ m \in 1..N /\ n \in 1..N
    BY <1>2
  <2>2. m <= i /\ i <= m
    BY DEF Tagged
  <2>3. m = i
    BY <1>1, <2>1, <2>2
  <2>4. n <= k /\ k <= n
    BY <2>3 DEF Tagged
  <2> QED BY <1>1, <2>1, <2>3, <2>4
<1>4. \A t : t \in Served(raw) <=>
        t # <<>> /\ \E m, n : Tagged(raw, m, n) /\ t = Title(m, n)
  BY ServedByTags
<1> HIDE DEF Title
<1>5. Served(raw) = {Title(i, k)} \ {<<>>}
  BY <1>3, <1>4
<1> QED BY <1>5 DEF Title

LEMMA NoTags ==
  ASSUME NEW raw, Shaped(raw), \A i, k : ~Tagged(raw, i, k)
  PROVE  Served(raw) = {}
<1>1. \A t : t \notin Served(raw)
  BY ServedByTags
<1> QED BY <1>1

\* extract_title finds the title that is served.
LEMMA TitlesServed ==
  ASSUME NEW raw, Shaped(raw), ToSet(raw) \cap Odd = {}
  PROVE  Titles(Split(raw).body) = Served(raw)
<1> DEFINE N == Len(raw)
           body == Split(raw).body
           B == Positions(body, OpenTag)
           C == Positions(body, CloseTag)
           ends(i) == {k \in C : k > i}
<1>1. N \in Nat /\ DOMAIN raw = 1..N
  BY DEF Shaped
<1>2. OpenTag[1] = "body" /\ CloseTag[1] = "body"
  BY DEF OpenTag, CloseTag, Body
<1>3. Titles(body) = IF B = {} \/ ends(Min(B)) = {} THEN {}
                     ELSE Slice(body, LowerOffset(body, Min(B)),
                                LowerOffset(body, Min(ends(Min(B))) - 1)) \ {<<>>}
  BY DEF Titles
<1>4. CASE EmptyLine \notin ToSet(raw)
  <2>1. body = <<>>
    BY <1>4 DEF Split, Positions, ToSet
  <2>2. B = {}
    BY <2>1 DEF Positions
  <2>3. \A i, k : ~Tagged(raw, i, k)
    <3> SUFFICES ASSUME NEW i, NEW k, Tagged(raw, i, k) PROVE FALSE
      OBVIOUS
    <3>1. i \in 1..N /\ raw[i][1] = "body"
      BY <1>1, <1>2 DEF Tagged, Positions
    <3>2. PICK j \in 1..(i - 1) : raw[j] = EmptyLine
      BY <1>1, <3>1 DEF Shaped
    <3>3. j \in 1..N
      BY <1>1, <3>1
    <3> QED BY <1>1, <1>4, <3>2, <3>3 DEF ToSet
  <2> QED BY <1>3, <2>2, <2>3, NoTags
<1>5. CASE EmptyLine \in ToSet(raw)
  <2>1. PICK e \in 1..N : Parted(raw, e)
    BY <1>5, Parts
  <2>2. /\ body \in Seq(ToSet(raw)) /\ Len(body) = N - e /\ N - e \in Nat /\ e \in Int
    <3>1. body \in Seq(ToSet(raw)) /\ Len(body) = N - e /\ N - e \in Nat
      BY <2>1 DEF Parted
    <3>2. e \in Int
      BY <1>1, <2>1
    <3> HIDE DEF body, N
    <3> QED BY <3>1, <3>2
  <2>3. DOMAIN body = 1..(N - e) /\ B \in SUBSET (1..(N - e)) /\ C \in SUBSET (1..(N - e))
    BY <2>2 DEF Positions
  <2>4. /\ \A j \in Positions(raw, OpenTag) : j - e \in B
        /\ \A k \in B : e + k \in Positions(raw, OpenTag)
        /\ \A j \in Positions(raw, CloseTag) : j - e \in C
        /\ \A k \in C : e + k \in Positions(raw, CloseTag)
    BY <1>2, <2>1, TagPositions
  <2>5. Positions(raw, OpenTag) \subseteq 1..N /\ Positions(raw, CloseTag) \subseteq 1..N
    BY <1>1 DEF Positions
  <2> HIDE DEF N
  <2>6. CASE B = {}
    BY <1>3, <2>4, <2>6, NoTags DEF Tagged
  <2>7. CASE B # {}
    <3> DEFINE i == Min(B)
    <3>1. i \in B /\ \A y \in B : i <= y
      <4> HIDE DEF B
      <4> QED BY <2>2, <2>3, <2>7, ExtremeNumbers
    <3> HIDE DEF i
    <3>2. i \in 1..(N - e)
      BY <2>3, <3>1
    <3>3. CASE ends(i) = {}
      <4>1. \A m, k : ~Tagged(raw, m, k)
        <5> SUFFICES ASSUME NEW m, NEW k, Tagged(raw, m, k) PROVE FALSE
          OBVIOUS
        <5>1. /\ m \in Positions(raw, OpenTag) /\ k \in Positions(raw, CloseTag) /\ m < k
              /\ m <= e + i
          BY <2>4, <3>1 DEF Tagged
        <5>2. m \in 1..N /\ k \in 1..N /\ m - e \in B /\ k - e \in C
          BY <2>4, <2>5, <5>1
        <5>3. i <= m - e
          BY <3>1, <5>2
        <5>4. k - e > i
          BY <2>2, <3>2, <5>1, <5>2, <5>3
        <5> QED BY <3>3, <5>2, <5>4
      <4> QED BY <1>3, <3>3, <4>1, NoTags DEF i
    <3>4. CASE ends(i) # {}
      <4> DEFINE k == Min(ends(i))
      <4>1. k \in C /\ k > i /\ \A y \in ends(i) : k <= y
        <5> DEFINE T == ends(i)
        <5>1. T \in SUBSET (1..(N - e)) /\ T # {}
          BY <2>3, <3>4
        <5> HIDE DEF T
        <5>2. Min(T) \in T /\ \A y \in T : Min(T) <= y
          BY <2>2, <5>1, ExtremeNumbers
        <5> QED BY <5>2 DEF T
      <4>2. k \in 1..(N - e)
        BY <2>3, <4>1
      <4> HIDE DEF k
      <4>3. Tagged(raw, e + i, e + k)
        <5>1. e + i < e + k
          BY <2>2, <3>2, <4>1, <4>2
        <5>2. ASSUME NEW j \in Positions(raw, OpenTag) PROVE e + i <= j
          <6>1. i <= j - e /\ j \in 1..N
            BY <2>4, <2>5, <3>1
          <6> QED BY <2>2, <3>2, <6>1
        <5>3. ASSUME NEW j \in Positions(raw, CloseTag), e + i < j PROVE e + k <= j
          <6>1. j \in 1..N /\ j - e \in C
            BY <2>4, <2>5
          <6>2. j - e > i
            BY <2>2, <3>2, <5>3, <6>1
          <6>3. k <= j - e
            BY <4>1, <6>1, <6>2
          <6> QED BY <2>2, <4>2, <6>1, <6>3
        <5> QED BY <2>4, <3>1, <4>1, <5>1, <5>2, <5>3 DEF Tagged
      <4>4. Served(raw) = {SubSeq(raw, e + i + 1, e + k - 1)} \ {<<>>}
        <5>1. \A x, y : Tagged(raw, x, y) => Served(raw) = {SubSeq(raw, x + 1, y - 1)} \ {<<>>}
          BY TagsUnique
        <5> DEFINE x == e + i
                   y == e + k
        <5>2. Tagged(raw, x, y)
          BY <4>3
        <5> HIDE DEF x, y
        <5>3. Served(raw) = {SubSeq(raw, x + 1, y - 1)} \ {<<>>}
          BY <5>1, <5>2
        <5>4. x + 1 = e + i + 1 /\ y - 1 = e + k - 1
          BY <2>2, <3>2, <4>2 DEF x, y
        <5> QED BY <5>3, <5>4
      <4>5. SubSeq(raw, e + i + 1, e + k - 1) = SubSeq(body, i + 1, k - 1)
        BY <2>1, <2>2, <3>2, <4>1, <4>2, SameText DEF N
      <4>6. Slice(body, LowerOffset(body, i), LowerOffset(body, k - 1)) = {SubSeq(body, i + 1, k - 1)}
        <5>1. i \in 0..Len(body) /\ k - 1 \in 0..Len(body) /\ Len(body) \in Nat
          BY <2>2, <3>2, <4>2
        <5>2. \A j \in 1..Len(body) : body[j] \notin Odd
          BY <2>2
        <5> HIDE DEF body
        <5> QED BY <5>1, <5>2, PlainSlice
      <4>7. Titles(body) = Slice(body, LowerOffset(body, i), LowerOffset(body, k - 1)) \ {<<>>}
        BY <1>3, <2>7, <3>4 DEF i, k
      <4> QED BY <4>4, <4>5, <4>6, <4>7
    <3> QED BY <3>3, <3>4
  <2> QED BY <2>6, <2>7
<1> QED BY <1>4, <1>5

\* The map of headers holds what was served last under each name.
LEMMA HeaderLines ==
  ASSUME NEW raw, Shaped(raw), NEW name, name \notin {"status", "empty", "body"}
  PROVE  /\ name \in DOMAIN Headers(Split(raw).head) =>
              LastServed(raw, name) = {Headers(Split(raw).head)[name]}
         /\ name \notin DOMAIN Headers(Split(raw).head) => LastServed(raw, name) = {}
         /\ "cut" \in LastServed(raw, name) => EmptyLine \notin ToSet(raw)
<1> DEFINE N == Len(raw)
           head == Split(raw).head
           L == Len(head)
           T == {i \in 2..L : head[i][1] = name}
           K == {k \in 2..N : raw[k][1] = name /\ \A j \in (k + 1)..N : raw[j][1] # name}
           m == Max(T)
<1>1. raw \in Seq(ToSet(raw)) /\ N \in Nat /\ DOMAIN raw = 1..N
  BY DEF Shaped
<1>2. /\ L \in 0..N /\ \A i \in 1..L : head[i] = raw[i]
      /\ \A i \in (L + 1)..N : raw[i][1] \in {"empty", "body"}
  <2>1. CASE EmptyLine \notin ToSet(raw)
    <3>1. head = raw
      BY <2>1 DEF Split, Positions, ToSet
    <3> HIDE DEF head
    <3> QED BY <1>1, <3>1
  <2>2. CASE EmptyLine \in ToSet(raw)
    <3>1. PICK e \in 1..N : Parted(raw, e)
      BY <2>2, Parts
    <3>2. /\ L = e - 1 /\ \A i \in 1..(e - 1) : head[i] = raw[i]
          /\ raw[e] = EmptyLine /\ \A j \in 1..N : raw[j][1] = "body" <=> e < j
      BY <3>1 DEF Parted
    <3>3. e \in Int /\ EmptyLine[1] = "empty"
      BY <1>1, <3>1 DEF EmptyLine
    <3> HIDE DEF head, L, N
    <3>4. ASSUME NEW i \in (L + 1)..N PROVE raw[i][1] \in {"empty", "body"}
      <4>1. i = e \/ (e < i /\ i \in 1..N)
        BY <1>1, <3>1, <3>2, <3>3
      <4> QED BY <3>2, <3>3, <4>1
    <3> QED BY <1>1, <3>1, <3>2, <3>3, <3>4
  <2> QED BY <2>1, <2>2
<1>3. /\ name \in DOMAIN Headers(head) <=> T # {}
      /\ name \in DOMAIN Headers(head) => Headers(head)[name] = head[m][2]
  BY DEF Headers
<1>4. LastServed(raw, name) = {raw[k][2] : k \in K}
  BY DEF LastServed
<1> HIDE DEF head, N, L
<1>5. ASSUME NEW k \in 2..N, raw[k][1] = name PROVE k \in T
  <2>1. k \in 2..L \/ k \in (L + 1)..N
    BY <1>1, <1>2
  <2>2. k \in 2..L
    BY <1>2, <1>5, <2>1
  <2> QED BY <1>2, <1>5, <2>2
<1>6. \A k \in T : k \in 2..N /\ k \in 2..L /\ raw[k] = head[k] /\ raw[k][1] = name
  BY <1>1, <1>2
<1>7. T # {} => m \in T /\ \A y \in T : y <= m
  <2>1. T \in SUBSET (1..L) /\ L \in Nat
    BY <1>1, <1>2
  <2> HIDE DEF T
  <2> QED BY <2>1, ExtremeNumbers
<1> HIDE DEF m, T
<1>8. ASSUME T # {}
      PROVE  K = {m} /\ raw[m][2] = head[m][2]
  <2>1. m \in T /\ m \in 2..N /\ raw[m] = head[m] /\ raw[m][1] = name
    BY <1>6, <1>7, <1>8
  <2>2. ASSUME NEW j \in (m + 1)..N PROVE raw[j][1] # name
    <3>1. j \in 2..N /\ j > m /\ m \in Int /\ j \in Int
      BY <1>1, <2>1
    <3>2. j \in T => j <= m
      BY <1>7, <1>8
    <3> QED BY <1>5, <3>1, <3>2
  <2>3. ASSUME NEW k \in K PROVE k = m
    <3>1. k \in 2..N /\ raw[k][1] = name /\ \A j \in (k + 1)..N : raw[j][1] # name
      OBVIOUS
    <3>2. k <= m
      BY <1>5, <1>7, <3>1
    <3>3. m \notin (k + 1)..N
      BY <2>1, <3>1
    <3> QED BY <1>1, <2>1, <3>1, <3>2, <3>3
  <2> QED BY <2>1, <2>2, <2>3
<1>9. T = {} => K = {}
  BY <1>5
<1>10. "cut" \in LastServed(raw, name) => EmptyLine \notin ToSet(raw)
  <2>1. ASSUME NEW k \in K, raw[k][2] = "cut" PROVE EmptyLine \notin ToSet(raw)
    <3>1. k \in DOMAIN raw /\ raw[k][1] = name
      BY <1>1
    <3>2. IsHeader(raw[k])
      BY <3>1 DEF IsHeader
    <3> QED BY <2>1, <3>1, <3>2 DEF Shaped
  <2> HIDE DEF K
  <2> QED BY <1>4, <2>1
<1> HIDE DEF K
<1>11. name \in DOMAIN Headers(head) => LastServed(raw, name) = {Headers(head)[name]}
  BY <1>3, <1>4, <1>8
<1>12. name \notin DOMAIN Headers(head) => LastServed(raw, name) = {}
  BY <1>3, <1>4, <1>9
<1> QED BY <1>10, <1>11, <1>12 DEF head

-----------------------------------------------------------------------------
LEMMA FlattenedElements ==
  ASSUME NEW lists, lists \in Seq(ToSet(lists)), \A l \in ToSet(lists) : OurFindings(l)
  PROVE  \A f : f \in ToSet(FlattenSeq(lists)) <=> \E l \in ToSet(lists) : f \in ToSet(l)
<1> DEFINE E == UNION {ToSet(l) : l \in ToSet(lists)}
<1>1. \A l \in ToSet(lists) : l \in Seq(E)
  <2> TAKE l \in ToSet(lists)
  <2>1. l \in Seq(ToSet(l)) /\ ToSet(l) \subseteq E
    BY DEF OurFindings
  <2> HIDE DEF E
  <2> QED BY <2>1, SeqOfMore
<1> HIDE DEF E
<1>2. lists \in Seq(Seq(E))
  <2>1. ToSet(lists) \subseteq Seq(E)
    BY <1>1
  <2> QED BY <2>1, SeqOfMore
<1>3. ToSet(FlattenSeq(lists)) = UNION {ToSet(lists[i]) : i \in 1..Len(lists)}
  BY <1>2, FlattenElements
<1>4. DOMAIN lists = 1..Len(lists)
  OBVIOUS
<1>5. \A l : l \in ToSet(lists) <=> \E i \in 1..Len(lists) : l = lists[i]
  BY <1>4 DEF ToSet
<1> QED BY <1>3, <1>5

\* The findings a response leads to.
Telling(raw) ==
  LET headers == Headers(Split(raw).head)
  IN  {Finding(name, Here, "Info", headers[name]) : name \in ToSet(TECH_HEADERS) \cap DOMAIN headers}
      \cup {Finding("title", Here, "Info", t) : t \in Titles(Split(raw).body)}

LEMMA PageTold ==
  ASSUME NEW page \in Pages, NEW raw \in Arrivals(page), pc = "http"
  PROVE  ToSet(HttpFindings(raw)) =
           IF raw # <<>> /\ raw[1] = StatusLine THEN Telling(raw) ELSE {}
<1> DEFINE headers == Headers(Split(raw).head)
           Header(name) ==
             IF name \in DOMAIN headers THEN HttpFinding(name, headers[name]) ELSE <<>>
           ofHeaders == [i \in DOMAIN TECH_HEADERS |-> Header(TECH_HEADERS[i])]
           titles == {HttpFinding("title", t) : t \in Titles(Split(raw).body)}
           A == {Finding(name, Here, "Info", headers[name]) :
                   name \in ToSet(TECH_HEADERS) \cap DOMAIN headers}
           B == {Finding("title", Here, "Info", t) : t \in Titles(Split(raw).body)}
<1>1. \A kind, evidence : /\ OurFindings(HttpFinding(kind, evidence))
                          /\ ToSet(HttpFinding(kind, evidence)) = {Finding(kind, Here, "Info", evidence)}
  BY MadeHere DEF HttpFinding
<1>2. \A name : OurFindings(Header(name))
  BY <1>1, NoFinding
<1>3. ToSet(<<>>) = {}
  BY DEF ToSet
<1>4. /\ ofHeaders \in Seq(ToSet(ofHeaders)) /\ \A l \in ToSet(ofHeaders) : OurFindings(l)
      /\ \A l : l \in ToSet(ofHeaders) <=> \E name \in ToSet(TECH_HEADERS) : l = Header(name)
  <2>1. DOMAIN TECH_HEADERS = 1..2
    BY DEF TECH_HEADERS
  <2> HIDE DEF Header
  <2>2. ofHeaders \in [1..2 -> ToSet(ofHeaders)]
    BY <2>1 DEF ToSet
  <2>3. \A l \in ToSet(ofHeaders) : OurFindings(l)
    BY <1>2 DEF ToSet
  <2>4. \A l : l \in ToSet(ofHeaders) <=> \E name \in ToSet(TECH_HEADERS) : l = Header(name)
    BY DEF ToSet
  <2> QED BY <2>2, <2>3, <2>4
<1>5. IsFiniteSet(titles)
  <2> DEFINE S == Titles(Split(raw).body)
             f == [t \in S |-> HttpFinding("title", t)]
  <2>1. IsFiniteSet(S)
    BY ArrivedLists, TitlesFinite
  <2>2. f \in Surjection(S, titles)
    BY DEF Surjection
  <2> HIDE DEF S, f, titles
  <2> QED BY <2>1, <2>2, FS_Surjection
<1>6. \A l \in titles : OurFindings(l)
  BY <1>1
<1>7. \A f : f \in A <=> \E name \in ToSet(TECH_HEADERS) : f \in ToSet(Header(name))
  <2> HIDE DEF headers
  <2> QED BY <1>1, <1>3
<1>8. \A f : f \in B <=> \E l \in titles : f \in ToSet(l)
  BY <1>1
<1> HIDE DEF titles, ofHeaders, Header, A, B
<1>9. SetToSeq(titles) \in Seq(ToSet(SetToSeq(titles))) /\ ToSet(SetToSeq(titles)) = titles
  BY <1>5, SetToSeqElements
<1>10. /\ \A f : f \in ToSet(FlattenSeq(ofHeaders)) <=> f \in A
       /\ OurFindings(FlattenSeq(ofHeaders))
  <2>1. \A f : f \in ToSet(FlattenSeq(ofHeaders)) <=> \E l \in ToSet(ofHeaders) : f \in ToSet(l)
    BY <1>4, FlattenedElements
  <2>2. OurFindings(FlattenSeq(ofHeaders))
    BY <1>4, FlattenedFindings
  <2> QED BY <1>4, <1>7, <2>1, <2>2
<1>11. /\ \A f : f \in ToSet(FlattenSeq(SetToSeq(titles))) <=> f \in B
       /\ OurFindings(FlattenSeq(SetToSeq(titles)))
  <2> DEFINE s == SetToSeq(titles)
  <2> HIDE DEF s
  <2>1. s \in Seq(ToSet(s)) /\ ToSet(s) = titles /\ \A l \in ToSet(s) : OurFindings(l)
    BY <1>6, <1>9 DEF s
  <2>2. \A f : f \in ToSet(FlattenSeq(s)) <=> \E l \in ToSet(s) : f \in ToSet(l)
    BY <2>1, FlattenedElements
  <2>3. OurFindings(FlattenSeq(s))
    BY <2>1, FlattenedFindings
  <2>4. \A f : f \in ToSet(FlattenSeq(s)) <=> f \in B
    BY <1>8, <2>1, <2>2
  <2> QED BY <2>3, <2>4 DEF s
<1>12. ToSet(FlattenSeq(ofHeaders) \o FlattenSeq(SetToSeq(titles))) = A \cup B
  <2>1. ToSet(FlattenSeq(ofHeaders) \o FlattenSeq(SetToSeq(titles)))
          = ToSet(FlattenSeq(ofHeaders)) \cup ToSet(FlattenSeq(SetToSeq(titles)))
    BY <1>10, <1>11, JoinedFindings
  <2> QED BY <1>10, <1>11, <2>1
<1>13. HttpFindings(raw) = IF raw = <<>> \/ raw[1] # StatusLine THEN <<>>
                           ELSE FlattenSeq(ofHeaders) \o FlattenSeq(SetToSeq(titles))
  BY DEF HttpFindings, ofHeaders, titles, Header
<1>14. A \cup B = Telling(raw)
  BY DEF A, B, Telling
<1> QED BY <1>3, <1>12, <1>13, <1>14

\* A response at a place that is HTTP.
Answer(p, raw) == Happened("http", p, raw) /\ raw # <<>> /\ raw[1] = StatusLine

\* The evidence of some findings.
Shown(said, v) == \E f \in said : f.evidence = v

\* PageAsReceived of one place: what is said of its titles and its headers.
TitlesFit(p) ==
  (\A raw : Happened("http", p, raw) => ToSet(raw) \cap Odd = {}) =>
    \A t : Shown(Found("http", "title", p), t) <=> \E raw : Answer(p, raw) /\ t \in Served(raw)

HeadersFit(p, name) ==
  /\ \A v : Shown(Found("http", name, p), v) <=> \E raw : Answer(p, raw) /\ v \in LastServed(raw, name)
  /\ \A raw : Answer(p, raw) /\ "cut" \in LastServed(raw, name) => EmptyLine \notin ToSet(raw)

PageAt(p) == TitlesFit(p) /\ \A name \in ToSet(TECH_HEADERS) : HeadersFit(p, name)

\* What has been seen of a place is a response.
HttpSoFar == \A s \in seen : s[1] = "http" => s = <<s[1], s[2], s[3]>>

LEMMA PageImplies ==
  ASSUME HttpSoFar, \A p : PageAt(p)
  PROVE  PageAsReceived
<1> SUFFICES ASSUME NEW p
             PROVE  LET raws == {s[3] : s \in {q \in seen : q[1] = "http" /\ q[2] = p}}
                        answers == {raw \in raws : raw # <<>> /\ raw[1] = StatusLine}
                    IN /\ (\A raw \in raws : ToSet(raw) \cap Odd = {}) =>
                            ReportedTitles(p) = UNION {Served(raw) : raw \in answers}
                       /\ \A name \in ToSet(TECH_HEADERS) :
                            LET values == {f.evidence : f \in Found("http", name, p)} IN
                            /\ values = UNION {LastServed(raw, name) : raw \in answers}
                            /\ "cut" \in values => \E raw \in answers : EmptyLine \notin ToSet(raw)
  BY DEF PageAsReceived
<1> DEFINE raws == {s[3] : s \in {q \in seen : q[1] = "http" /\ q[2] = p}}
           answers == {raw \in raws : raw # <<>> /\ raw[1] = StatusLine}
<1>1. \A raw : raw \in raws <=> Happened("http", p, raw)
  <2>1. \A s \in seen : s[1] = "http" /\ s[2] = p => Happened("http", p, s[3])
    BY DEF HttpSoFar, Happened
  <2>2. ASSUME NEW raw, Happened("http", p, raw) PROVE raw \in raws
    <3>1. /\ <<"http", p, raw>> \in seen
          /\ <<"http", p, raw>>[1] = "http" /\ <<"http", p, raw>>[2] = p /\ <<"http", p, raw>>[3] = raw
      BY <2>2 DEF Happened
    <3> QED BY <3>1
  <2> QED BY <2>1, <2>2
<1>2. \A raw : raw \in answers <=> Answer(p, raw)
  BY <1>1 DEF Answer
<1> HIDE DEF raws, answers
<1>3. (\A raw \in raws : ToSet(raw) \cap Odd = {}) =>
         ReportedTitles(p) = UNION {Served(raw) : raw \in answers}
  <2> SUFFICES ASSUME \A raw \in raws : ToSet(raw) \cap Odd = {}
               PROVE  ReportedTitles(p) = UNION {Served(raw) : raw \in answers}
    OBVIOUS
  <2>1. \A t : Shown(Found("http", "title", p), t) <=> \E raw : Answer(p, raw) /\ t \in Served(raw)
    BY <1>1 DEF PageAt, TitlesFit
  <2>2. \A t : t \in ReportedTitles(p) <=> Shown(Found("http", "title", p), t)
    BY DEF ReportedTitles, Shown
  <2> QED BY <1>2, <2>1, <2>2
<1>4. ASSUME NEW name \in ToSet(TECH_HEADERS), NEW values,
             values = {f.evidence : f \in Found("http", name, p)}
      PROVE  /\ values = UNION {LastServed(raw, name) : raw \in answers}
             /\ "cut" \in values => \E raw \in answers : EmptyLine \notin ToSet(raw)
  <2>1. \A v : v \in values <=> Shown(Found("http", name, p), v)
    BY <1>4 DEF Shown
  <2>2. /\ \A v : Shown(Found("http", name, p), v) <=>
                    \E raw : Answer(p, raw) /\ v \in LastServed(raw, name)
        /\ \A raw : Answer(p, raw) /\ "cut" \in LastServed(raw, name) => EmptyLine \notin ToSet(raw)
    BY DEF PageAt, HeadersFit
  <2>3. \A v : v \in values <=> \E raw \in answers : v \in LastServed(raw, name)
    BY <1>2, <2>1, <2>2
  <2>4. values = UNION {LastServed(raw, name) : raw \in answers}
    BY <2>3
  <2>5. "cut" \in values => \E raw \in answers : EmptyLine \notin ToSet(raw)
    BY <1>2, <2>2, <2>3
  <2> QED BY <2>4, <2>5
<1> QED BY <1>3, <1>4 DEF raws, answers

LEMMA TechNames ==
  /\ ToSet(TECH_HEADERS) = {"server", "via"}
  /\ \A name \in ToSet(TECH_HEADERS) : name \notin {"status", "empty", "body", "title"}
<1>1. ToSet(TECH_HEADERS) = {"server", "via"}
  BY DEF ToSet, TECH_HEADERS
<1> QED BY <1>1

\* What is made of a response fits it.
LEMMA PageSaid ==
  ASSUME NEW page \in Pages, NEW raw \in Arrivals(page), pc = "http", NEW p, p = Here
  PROVE  LET http == raw # <<>> /\ raw[1] = StatusLine
             About(kind) == Of(HttpFindings(raw), <<"http", kind, p>>)
         IN /\ ToSet(raw) \cap Odd = {} =>
                 \A t : Shown(About("title"), t) <=> http /\ t \in Served(raw)
            /\ \A name \in ToSet(TECH_HEADERS) :
                 /\ \A v : Shown(About(name), v) <=> http /\ v \in LastServed(raw, name)
                 /\ "cut" \in LastServed(raw, name) => EmptyLine \notin ToSet(raw)
<1> DEFINE http == raw # <<>> /\ raw[1] = StatusLine
           headers == Headers(Split(raw).head)
           Made(kind, evidence) == Finding(kind, Here, "Info", evidence)
           listed == ToSet(HttpFindings(raw))
           titles == Titles(Split(raw).body)
           About(kind) == Of(HttpFindings(raw), <<"http", kind, p>>)
<1>1. Shaped(raw)
  BY ArrivedShape
<1>2. /\ ~http => listed = {}
      /\ http => listed = {Made(name, headers[name]) : name \in ToSet(TECH_HEADERS) \cap DOMAIN headers}
                          \cup {Made("title", t) : t \in titles}
  BY PageTold DEF Telling
<1>3. \A kind, evidence : Made(kind, evidence).id = <<"http", kind, p>>
                          /\ Made(kind, evidence).evidence = evidence
  BY DEF Finding
<1>4. \A a, b : <<"http", a, p>> = <<"http", b, p>> => a = b
  OBVIOUS
<1>5. \A kind : About(kind) = {f \in listed : f.id = <<"http", kind, p>>}
  BY DEF Of
<1>6. ToSet(raw) \cap Odd = {} => titles = Served(raw)
  BY <1>1, TitlesServed
<1>7. \A name \in ToSet(TECH_HEADERS) :
        /\ name \in DOMAIN headers => LastServed(raw, name) = {headers[name]}
        /\ name \notin DOMAIN headers => LastServed(raw, name) = {}
        /\ "cut" \in LastServed(raw, name) => EmptyLine \notin ToSet(raw)
  BY <1>1, HeaderLines, TechNames
<1> HIDE DEF http, headers, Made, listed, titles, About
<1>8. ASSUME NEW t PROVE Shown(About("title"), t) <=> http /\ t \in titles
  <2>1. ASSUME NEW f \in listed, f.id = <<"http", "title", p>>
        PROVE  http /\ f.evidence \in titles
    <3>1. http
      BY <1>2
    <3>2. \E x \in titles : f = Made("title", x)
      BY <1>2, <1>3, <1>4, <2>1, <3>1, TechNames
    <3> QED BY <1>3, <3>1, <3>2
  <2>2. http /\ t \in titles => Made("title", t) \in About("title")
    BY <1>2, <1>3, <1>5
  <2> QED BY <1>3, <1>5, <2>1, <2>2 DEF Shown
<1>9. ASSUME NEW name \in ToSet(TECH_HEADERS), NEW v
      PROVE  Shown(About(name), v) <=> http /\ v \in LastServed(raw, name)
  <2>1. ASSUME NEW f \in listed, f.id = <<"http", name, p>>
        PROVE  http /\ f.evidence \in LastServed(raw, name)
    <3>1. http
      BY <1>2
    <3>2. PICK other \in ToSet(TECH_HEADERS) \cap DOMAIN headers : f = Made(other, headers[other])
      BY <1>2, <1>3, <1>4, <2>1, <3>1, TechNames
    <3>3. other = name /\ f.evidence = headers[name]
      BY <1>3, <1>4, <2>1, <3>2
    <3> QED BY <1>7, <3>1, <3>2, <3>3
  <2>2. ASSUME http, v \in LastServed(raw, name) PROVE Shown(About(name), v)
    <3>1. name \in DOMAIN headers /\ v = headers[name]
      BY <1>7, <2>2
    <3>2. Made(name, headers[name]) \in listed
      BY <1>2, <2>2, <3>1
    <3> QED BY <1>3, <1>5, <3>1, <3>2 DEF Shown
  <2> QED BY <1>5, <2>1, <2>2 DEF Shown
<1> QED BY <1>6, <1>7, <1>8, <1>9 DEF http, About

LEMMA PageStays ==
  ASSUME NEW p, PageAt(p),
         \A fact : Happened("http", p, fact)' <=> Happened("http", p, fact),
         \A kind : Found("http", kind, p)' = Found("http", kind, p)
  PROVE  PageAt(p)'
<1>1. \A raw : Answer(p, raw)' <=> Answer(p, raw)
  BY DEF Answer
<1>2. TitlesFit(p)'
  BY <1>1 DEF PageAt, TitlesFit
<1>3. ASSUME NEW name \in ToSet(TECH_HEADERS) PROVE HeadersFit(p, name)'
  BY <1>1 DEF PageAt, HeadersFit
<1> QED BY <1>2, <1>3 DEF PageAt

\* One more response.
LEMMA PageGrows ==
  ASSUME NEW page \in Pages, NEW raw \in Arrivals(page), pc = "http", NEW p, p = Here, PageAt(p),
         \A fact : Happened("http", p, fact)' <=> Happened("http", p, fact) \/ fact = raw,
         \A kind : Found("http", kind, p)' =
                     Found("http", kind, p) \cup Of(HttpFindings(raw), <<"http", kind, p>>)
  PROVE  PageAt(p)'
<1> DEFINE http == raw # <<>> /\ raw[1] = StatusLine
           About(kind) == Of(HttpFindings(raw), <<"http", kind, p>>)
<1>1. /\ ToSet(raw) \cap Odd = {} =>
           \A t : Shown(About("title"), t) <=> http /\ t \in Served(raw)
      /\ \A name \in ToSet(TECH_HEADERS) :
           /\ \A v : Shown(About(name), v) <=> http /\ v \in LastServed(raw, name)
           /\ "cut" \in LastServed(raw, name) => EmptyLine \notin ToSet(raw)
  BY PageSaid
<1>2. \A r : Answer(p, r)' <=> Answer(p, r) \/ (r = raw /\ http)
  BY DEF Answer
<1>3. \A kind, v : Shown(Found("http", kind, p), v)' <=>
                     Shown(Found("http", kind, p), v) \/ Shown(About(kind), v)
  BY DEF Shown
<1> HIDE DEF http, About
<1>4. TitlesFit(p)'
  <2> SUFFICES ASSUME \A r : Happened("http", p, r)' => ToSet(r) \cap Odd = {},
                      NEW t
               PROVE  Shown(Found("http", "title", p), t)' <=>
                        \E r : Answer(p, r)' /\ t \in Served(r)
    BY DEF TitlesFit, Shown
  <2>1. /\ \A r : Happened("http", p, r) => ToSet(r) \cap Odd = {}
        /\ ToSet(raw) \cap Odd = {}
    OBVIOUS
  <2>2. Shown(Found("http", "title", p), t) <=> \E r : Answer(p, r) /\ t \in Served(r)
    BY <2>1 DEF PageAt, TitlesFit
  <2>3. Shown(About("title"), t) <=> http /\ t \in Served(raw)
    BY <1>1, <2>1
  <2> QED BY <1>2, <1>3, <2>2, <2>3
<1>5. ASSUME NEW name \in ToSet(TECH_HEADERS) PROVE HeadersFit(p, name)'
  <2>1. /\ \A v : Shown(Found("http", name, p), v) <=>
                    \E r : Answer(p, r) /\ v \in LastServed(r, name)
        /\ \A r : Answer(p, r) /\ "cut" \in LastServed(r, name) => EmptyLine \notin ToSet(r)
    BY DEF PageAt, HeadersFit
  <2>2. \A v : Shown(Found("http", name, p), v)' <=>
                 \E r : Answer(p, r)' /\ v \in LastServed(r, name)
    BY <1>1, <1>2, <1>3, <2>1
  <2>3. \A r : Answer(p, r)' /\ "cut" \in LastServed(r, name) => EmptyLine \notin ToSet(r)
    BY <1>1, <1>2, <2>1
  <2> QED BY <2>2, <2>3 DEF HeadersFit, Shown
<1> QED BY <1>4, <1>5 DEF PageAt

LEMMA HttpSoFarStep ==
  ASSUME Course, Probing, Ledger, Gathering, [Next]_vars, HttpSoFar
  PROVE  HttpSoFar'
<1>1. ASSUME Probes, pc = "http"
      PROVE  HttpStep
  BY <1>1, TlsProbed, DnsProbed, FtpProbed, SnmpProbed, SmbProbed DEF Probes
<1>2. CASE Probes
  <2>1. Probed /\ Recorded /\ pc' = pc
    BY <1>2, ProbesRecord DEF Probed
  <2>2. PICK noted : /\ seen' = seen \cup noted
                     /\ \A e \in noted : e[1] = pc
    BY <2>1 DEF Recorded, Noted
  <2>3. CASE pc # "http"
    BY <2>2, <2>3 DEF HttpSoFar
  <2>4. CASE HttpConnect
    BY <2>4 DEF HttpConnect, HttpSoFar
  <2>5. CASE HttpRead
    <3>1. pc = "http" /\ \E raw : Saw(Here, {raw})
      BY <2>5 DEF HttpRead, At
    <3>2. PICK raw : Saw(Here, {raw})
      BY <3>1
    <3>3. seen' = seen \cup {<<"http", Here, raw>>}
      BY <3>1, <3>2 DEF Saw
    <3>4. <<"http", Here, raw>>[1] = "http" /\ <<"http", Here, raw>>[2] = Here
          /\ <<"http", Here, raw>>[3] = raw
      OBVIOUS
    <3> QED BY <3>3, <3>4 DEF HttpSoFar
  <2> QED BY <1>1, <1>2, <2>3, <2>4, <2>5 DEF HttpStep
<1>3. CASE ~Probes
  <2>1. seen' = seen
    BY <1>3, CalmOrProbe DEF Calm
  <2> QED BY <2>1 DEF HttpSoFar
<1> QED BY <1>2, <1>3

LEMMA HttpStageStep ==
  ASSUME Course, Probing, Ledger, Gathering, [Next]_vars, HttpSoFar, \A p : PageAt(p)
  PROVE  HttpSoFar' /\ \A p : PageAt(p)'
<1>1. "http" \in StageSet \ {"dns"}
  BY StageNames
<1>2. ASSUME Probes, pc = "http"
      PROVE  HttpStep
  BY <1>2, TlsProbed, DnsProbed, FtpProbed, SnmpProbed, SmbProbed DEF Probes
<1>3. ASSUME NEW p PROVE PageAt(p)'
  <2>1. CASE Still("http", p)
    BY <2>1, PageStays DEF Still
  <2>2. CASE ~Still("http", p)
    <3>1. Probes /\ Probed /\ pc = "http" /\ p = Here /\ HttpStep
      BY <1>1, <1>2, <2>2, StillOrHere
    <3>2. CASE HttpConnect
      <4>1. \A fact : Happened("http", p, fact)' <=> Happened("http", p, fact)
        BY <3>2 DEF HttpConnect, Happened
      <4>2. CASE Conclude(<<>>)
        <5>1. \A kind : Found("http", kind, p)' =
                          Found("http", kind, p) \cup Of(<<>>, <<"http", kind, p>>)
          BY <4>2, NoFinding, FoundHere DEF Conclude
        <5>2. \A kind : Found("http", kind, p)' = Found("http", kind, p)
          BY <5>1, OfNone
        <5> QED BY <4>1, <5>2, PageStays
      <4>3. CASE Continue("asked", <<>>)
        <5>1. \A kind : Found("http", kind, p)' = Found("http", kind, p)
          BY <4>3 DEF Continue, Found
        <5> QED BY <4>1, <5>1, PageStays
      <4> QED BY <3>2, <4>2, <4>3 DEF HttpConnect
    <3>3. CASE HttpRead
      <4>1. PICK page \in Pages : \E raw \in Arrivals(page) :
              Conclude(HttpFindings(raw)) /\ Saw(Here, {raw})
        BY <3>3 DEF HttpRead
      <4>2. PICK raw \in Arrivals(page) : Conclude(HttpFindings(raw)) /\ Saw(Here, {raw})
        BY <4>1
      <4>3. \A fact : Happened("http", p, fact)' <=> Happened("http", p, fact) \/ fact = raw
        BY <3>1, <4>2, SeenHere
      <4>4. OurFindings(HttpFindings(raw))
        BY <3>1, PageFindings
      <4>5. \A kind : Found("http", kind, p)' =
                        Found("http", kind, p) \cup Of(HttpFindings(raw), <<"http", kind, p>>)
        BY <4>2, <4>4, FoundHere DEF Conclude
      <4> QED BY <3>1, <4>3, <4>5, PageGrows
    <3> QED BY <3>1, <3>2, <3>3 DEF HttpStep
  <2> QED BY <2>1, <2>2
<1> QED BY <1>3, HttpSoFarStep

-----------------------------------------------------------------------------
(* The stages of a whole run.                                               *)
StagesInv ==
  /\ Ledger /\ Gathering
  /\ DnsSoFar /\ DnsKept
  /\ HttpSoFar /\ \A p : PageAt(p)
  /\ \A p : ClassifiedAt(p)
  /\ FtpSoFar /\ \A p : LoginAt(p)
  /\ SnmpSoFar /\ \A p : SnmpAnsweredAt(p)
  /\ SmbSoFar /\ \A p : SmbServedAt(p)

LEMMA NothingYet ==
  ASSUME Init
  PROVE  StagesInv
<1>1. pc = "authorize" /\ seen = {} /\ findings = <<>> /\ summary = <<>>
  BY DEF Init
<1>2. "authorize" \notin StageSet \cup {"save", "write"} \cup Ends
  BY StageNames DEF Ends
<1>3. \A stage, kind, p : Found(stage, kind, p) = {}
  BY <1>1 DEF Found, ToSet
<1>4. \A stage, p, fact : ~Happened(stage, p, fact)
  BY <1>1 DEF Happened
<1>5. ToSet(findings) = {} /\ <<>> \in Seq(ToSet(findings))
  BY <1>1 DEF ToSet
<1>6. Ledger
  BY <1>1, <1>2, <1>5, StageNames DEF Ledger
<1>7. Gathering /\ HttpSoFar /\ SmbSoFar /\ FtpSoFar /\ SnmpSoFar
  BY <1>1, <1>2, StageNames DEF Gathering, Under, HttpSoFar, SmbSoFar, FtpSoFar, SnmpSoFar
<1>8. DnsSoFar /\ DnsKept
  BY <1>1, PairsNone DEF DnsSoFar, DnsKept, Answers
<1>9. \A p : ClassifiedAt(p)
  BY <1>3, <1>4 DEF ClassifiedAt
<1>10. \A p : LoginAt(p)
  BY <1>3, <1>4 DEF LoginAt, LoggedIn, Granted
<1>11. ASSUME NEW p PROVE SmbServedAt(p)
  <2>1. SmbHeard(p) = {} /\ \A id : Of(findings, id) = {}
    BY <1>1, <1>4, OfNone DEF SmbHeard
  <2>2. SmbFits(findings, p, {})
    BY <2>1 DEF SmbFits
  <2> QED BY <1>4, <2>1, <2>2 DEF SmbServedAt
<1>12. ASSUME NEW p PROVE SnmpAnsweredAt(p)
  <2>1. SnmpHeard(p) = {}
    BY <1>4 DEF SnmpHeard
  <2>2. SnmpFits(<<>>, p, {})
    BY NoneTried
  <2>3. Count(<<>>, "sysdescr", p) = 0
    BY TallyNone DEF Count
  <2>4. Listed(summary, p) \in Nat
    <3>1. summary \in Seq({})
      BY <1>1
    <3> QED BY <3>1, ListedFinite
  <2>5. Due(p) = 0
    BY <1>1 DEF Due
  <2> QED BY <1>1, <2>1, <2>2, <2>3, <2>4, <2>5 DEF SnmpAnsweredAt
<1>13. \A p : PageAt(p)
  BY <1>3, <1>4 DEF PageAt, TitlesFit, HeadersFit, Answer, Shown
<1> QED BY <1>6, <1>7, <1>8, <1>9, <1>10, <1>11, <1>12, <1>13 DEF StagesInv

LEMMA StagesStep ==
  ASSUME IInv, StagesInv, [Next]_vars
  PROVE  StagesInv'
<1>1. /\ Course /\ Work /\ Probing /\ Dialogues /\ Settings
      /\ Ledger /\ Gathering
  BY DEF IInv, StagesInv
<1>0. Work'
  BY Inductive DEF IInv
<1>2. Ledger' /\ Gathering'
  BY <1>1, LedgerStep, GatheringStep
<1>3. DnsSoFar' /\ DnsKept'
  BY <1>1, DnsStageStep, DnsKeptStep DEF StagesInv
<1>4. \A p : ClassifiedAt(p)'
  BY <1>1, TlsStageStep DEF StagesInv
<1>5. FtpSoFar' /\ \A p : LoginAt(p)'
  BY <1>1, FtpStageStep DEF StagesInv
<1>6. SnmpSoFar' /\ \A p : SnmpAnsweredAt(p)'
  BY <1>0, <1>1, SnmpStageStep DEF StagesInv
<1>7. SmbSoFar' /\ \A p : SmbServedAt(p)'
  BY <1>1, SmbStageStep DEF StagesInv
<1>8. HttpSoFar' /\ \A p : PageAt(p)'
  BY <1>1, HttpStageStep DEF StagesInv
<1> QED BY <1>2, <1>3, <1>4, <1>5, <1>6, <1>7, <1>8 DEF StagesInv

LEMMA StagesAlways == Spec => [](IInv /\ StagesInv)
<1>1. Init => StagesInv
  BY NothingYet
<1>2. IInv /\ StagesInv /\ [Next]_vars => StagesInv'
  BY StagesStep
<1> QED BY <1>1, <1>2, Always, PTL DEF Spec

(* Once dns.rs has enumerated a name, its findings are exactly the records  *)
(* the lookups returned and the nameservers that gave away the zone.        *)
THEOREM DnsIsAsAnswered == Spec => []DnsAsAnswered
<1>1. IInv /\ StagesInv => DnsAsAnswered
  BY DnsAnswered DEF IInv, StagesInv, DnsKept
<1> QED BY <1>1, StagesAlways, PTL

(* However little of a response has arrived, http.rs reports exactly the    *)
(* telling headers that have, with their last values, and the title that is *)
(* served, once it is all there, of bodies in which lower case changes no   *)
(* length.                                                                  *)
THEOREM PageIsAsReceived == Spec => []PageAsReceived
<1>1. StagesInv => PageAsReceived
  BY PageImplies DEF StagesInv
<1> QED BY <1>1, StagesAlways, PTL

(* As soon as tls.rs has looked into a certificate, exactly the finding of  *)
(* its days left is among the findings, and its alternative names if it has *)
(* some.                                                                    *)
THEOREM ExpiryIsClassified == Spec => []ExpiryClassified
<1>1. StagesInv => ExpiryClassified
  BY DEF StagesInv, ClassifiedAt, ExpiryClassified
<1> QED BY <1>1, StagesAlways, PTL

(* An anonymous login that ftp.rs reports was granted by the server, unless *)
(* what was left of a reply was read for the next one and began with the    *)
(* digits of a grant; one that was granted is reported, unless the replies  *)
(* no longer answered the commands they were read for.                      *)
THEOREM LoginIsAsGranted == Spec => []LoginAsGranted
<1>1. IInv /\ StagesInv => LoginAsGranted
  BY LoginImplies DEF IInv, StagesInv
<1> QED BY <1>1, StagesAlways, PTL

(* Once snmp.rs is done with a port, it has reported the communities that   *)
(* brought a value, the details of the agent, no more often than the port   *)
(* is in the summary, and no more interfaces than the cap lets through.     *)
THEOREM SnmpIsAsAnswered == Spec => []SnmpAsAnswered
<1>1. IInv /\ StagesInv => SnmpAsAnswered
  BY SnmpAnsweredImplies DEF IInv, StagesInv
<1> QED BY <1>1, StagesAlways, PTL

(* What smb.rs reports of a server is what the replies of the connections   *)
(* it opened one after the other said, each finding from its own reply.     *)
THEOREM SmbIsAsServed == Spec => []SmbAsServed
<1>1. IInv /\ StagesInv => SmbAsServed
  BY SmbServedImplies DEF IInv, StagesInv
<1> QED BY <1>1, StagesAlways, PTL
=============================================================================
