---------------------------- MODULE Orchestrator ----------------------------
(***************************************************************************)
(* main of src/main.rs from the command line to the exit: the checks that  *)
(* may end the run before anything is sent, discovery, the scan, the       *)
(* stages that enrich the summary, the enumeration stages (composed from   *)
(* their own modules) and the report.  What TargetScope, Discovery, the    *)
(* scanners, ScanEngine and Enrichment model in detail is one step each.   *)
(***************************************************************************)
EXTENDS Dns, Http, Tls, Ftp, Snmp, Smb

CONSTANTS
  Addresses,   \* the addresses there are, in ascending order
  Plans        \* [cli, machine]: what is asked, and where it runs

NoName == "none"
MaxU16 == 65535
U16 == 0..MaxU16

\* The command line parser has excluded --syn with --udp, and a name stands for
\* one of the targets.  A target may be there more than once (resolver.rs:65
\* removes only repeats that stand side by side), and is then scanned as often.
ASSUME PlansAssumption ==
  /\ Addresses \in Seq(ToSet(Addresses)) /\ IsInjective(Addresses)
  /\ \A plan \in Plans :
       LET c == plan.cli IN
         /\ c.targets \in Seq(ToSet(Addresses))
         /\ c.concurrency \in Nat /\ ~(c.syn /\ c.udp)
         /\ c.ports \in Seq(Seq(Int)) /\ c.ports # <<>>
         /\ \A i \in DOMAIN c.ports : c.ports[i] # <<>>
         /\ c.names \in Seq(ToSet(c.names))
         /\ \A d \in ToSet(c.names) :
              d.address \in ToSet(c.targets) /\ d.port = 53 /\ d.host \in DOMAIN RecordData
  /\ \A plan \in Plans :
       LET profiles == plan.machine.profiles IN
         /\ NoName \notin DOMAIN profiles
         /\ \A name \in DOMAIN profiles :
              profiles[name].discovery \in Seq([ping : BOOLEAN, tcp_ports : Seq(U16)])

VARIABLES
  machine,   \* what the program is run on: [raw, nmap, plugins, profiles, labels]
  caps,      \* Capabilities
  config,    \* scan_config
  hosts,     \* the addresses main is working on, in order
  ports,     \* what parse_ports made of cli.ports
  exit,      \* the exit status, or Running
  report,    \* the file named by --output
  told       \* what was said about saving it

mainVars == <<machine, caps, config, hosts, ports, exit, report, told>>
vars == <<enumVars, mainVars>>

Running == -1

-----------------------------------------------------------------------------
\* Options are sequences of at most one element.
OrElse(option, default) == IF option = <<>> THEN default ELSE option[1]

DefaultPingPorts == <<22, 80, 443, 445>>

\* The profiles that may be taken: by name, or "default", or else whichever one
\* the HashMap yields first; none without a file or from an empty one.
Candidates ==
  LET names == DOMAIN machine.profiles IN
  IF cli.profile_path = NoName THEN {NoName}
  ELSE IF cli.profile_name # NoName THEN {cli.profile_name}
  ELSE IF "default" \in names THEN {"default"}
  ELSE IF names = {} THEN {NoName} ELSE names

ProfileError ==
  \/ cli.profile_path = "unreadable"
  \/ /\ cli.profile_name # NoName
     /\ cli.profile_path = NoName \/ cli.profile_name \notin DOMAIN machine.profiles

NoProfile == [concurrency |-> <<>>, timeout_ms |-> <<>>, discovery |-> <<>>]

\* ScanConfig::merge, and --no-ping after it.
Merged(profile) ==
  LET discovery == OrElse(profile.discovery, [ping |-> TRUE, tcp_ports |-> DefaultPingPorts])
  IN [concurrency |-> OrElse(profile.concurrency, cli.concurrency),
      timeout_ms |-> OrElse(profile.timeout_ms, cli.timeout),
      ping_discovery |-> discovery.ping /\ ~cli.no_ping,
      tcp_ping_ports |-> discovery.tcp_ports]

\* A part of the port list is the sequence of numbers between its dashes; only
\* a u16 is a number to parse.
WellFormed(part) ==
  /\ ToSet(part) \subseteq U16
  /\ \/ Len(part) = 1
     \/ Len(part) = 2 /\ part[1] <= part[2]

\* Mutant: of a range only the bounds are put on the list.
WrittenBounds(part) == {part[1], Last(part)}

Written(part) == part[1]..Last(part)

\* parse_ports: sorted, each once.
ParsePorts(parts) == Sorted(SetToSeq(UNION {Written(parts[i]) : i \in DOMAIN parts}))

-----------------------------------------------------------------------------
Init ==
  /\ \E plan \in Plans : cli = plan.cli /\ machine = plan.machine
  /\ pc = "authorize" /\ step = "enter" /\ todo = <<>> /\ local = <<>>
  /\ summary = <<>> /\ findings = <<>> /\ contacts = {} /\ seen = {}
  /\ caps = [raw |-> FALSE, nmap |-> FALSE]
  /\ config = Merged(NoProfile)
  /\ hosts = <<>> /\ ports = <<>>
  /\ exit = Running /\ report = "old" /\ told = "nothing"

GoTo(next) == pc' = next /\ UNCHANGED exit

Leave(status) == pc' = "exited" /\ exit' = status

Idle == UNCHANGED <<cli, machine, step, todo, local, findings, seen>>

Authorize ==
  /\ pc = "authorize"
  /\ IF cli.authorized THEN GoTo("policy") ELSE Leave(1)
  /\ Idle /\ UNCHANGED <<summary, contacts, caps, config, hosts, ports, report, told>>

\* Capabilities::detect.
Detected == [raw |-> machine.raw, nmap |-> machine.nmap]

\* ScopePolicy::build, in detail in TargetScope.
BuildPolicy ==
  /\ pc = "policy"
  /\ IF cli.scope = "malformed" THEN Leave(1) /\ UNCHANGED caps
     ELSE GoTo("profile") /\ caps' = Detected
  /\ Idle /\ UNCHANGED <<summary, contacts, config, hosts, ports, report, told>>

LoadProfile ==
  /\ pc = "profile"
  /\ IF ProfileError THEN Leave(1) /\ UNCHANGED config
     ELSE \E name \in Candidates :
            /\ config' = Merged(IF name = NoName THEN NoProfile ELSE machine.profiles[name])
            /\ GoTo("resolve")
  /\ Idle /\ UNCHANGED <<summary, contacts, caps, hosts, ports, report, told>>

\* resolve_targets, in detail in TargetScope; an error and an empty list end
\* the run alike.
ResolveTargets ==
  /\ pc = "resolve"
  /\ \/ Leave(1) /\ UNCHANGED hosts
     \/ GoTo("scope") /\ hosts' = cli.targets
  /\ Idle /\ UNCHANGED <<summary, contacts, caps, config, ports, report, told>>

\* Mutant: what the policy excludes is only announced.
ApplyScopeAnnouncing ==
  /\ pc = "scope"
  /\ hosts' = hosts
  /\ IF Kept(hosts, cli.allowed) = <<>> THEN Leave(1) ELSE GoTo("ports")
  /\ Idle /\ UNCHANGED <<summary, contacts, caps, config, ports, report, told>>

\* scope_policy.partition; nothing left to scan ends the run.
ApplyScope ==
  /\ pc = "scope"
  /\ hosts' = Kept(hosts, cli.allowed)
  /\ IF hosts' = <<>> THEN Leave(1) ELSE GoTo("ports")
  /\ Idle /\ UNCHANGED <<summary, contacts, caps, config, ports, report, told>>

\* A list always has a part and a part at least a port, so the check for an
\* empty result behind parse_ports never applies.
ParsePortList ==
  /\ pc = "ports"
  /\ IF \E i \in DOMAIN cli.ports : ~WellFormed(cli.ports[i])
     THEN Leave(1) /\ UNCHANGED ports
     ELSE GoTo("discover") /\ ports' = ParsePorts(cli.ports)
  /\ Idle /\ UNCHANGED <<summary, contacts, caps, config, hosts, report, told>>

-----------------------------------------------------------------------------
Repeated(x, n) == [k \in 1..n |-> x]

\* What there is of each address, in the order of the addresses.
Ascending(lists) == FlattenSeq([a \in DOMAIN Addresses |-> lists[Addresses[a]]])

By(whom, means) == [who : whom, by : means]

ArpEnabled == cli.arp /\ caps.raw

Sweeps ==
  (IF config.ping_discovery THEN {"ping"} ELSE {})
    \cup (IF config.tcp_ping_ports # <<>> THEN {"tcp"} ELSE {})

SkipDiscovery ==
  /\ pc = "discover" /\ cli.skip_discovery
  /\ GoTo("scan")
  /\ Idle /\ UNCHANGED <<summary, contacts, caps, config, hosts, ports, report, told>>

\* run_discovery, in detail in Discovery: ARP finds some hosts, each once, and
\* the sweep, which needs a slot, some of the other entries of the list.
Discover ==
  /\ pc = "discover" /\ ~cli.skip_discovery
  /\ \E arped \in SUBSET ToSet(hosts) :
     \E swept \in SUBSET {i \in DOMAIN hosts : hosts[i] \notin arped} :
       /\ arped # {} => ArpEnabled
       /\ swept # {} => Sweeps # {}
       /\ arped # ToSet(hosts) => config.concurrency > 0
       /\ contacts' = contacts
            \cup (IF ArpEnabled THEN By(ToSet(hosts), {"arp"}) ELSE {})
            \cup By(ToSet(hosts) \ arped, Sweeps)
       /\ hosts' = Ascending(
            [h \in ToSet(Addresses) |->
               Repeated(h, IF h \in arped THEN 1 ELSE Cardinality({i \in swept : hosts[i] = h}))])
  /\ IF hosts' = <<>> THEN Leave(0) ELSE GoTo("scan")
  /\ Idle /\ UNCHANGED <<summary, caps, config, ports, report, told>>

Protocol == IF cli.udp THEN "Udp" ELSE "Tcp"

Verdicts ==
  IF cli.udp THEN PortStatus ELSE PortStatus \ {"OpenFiltered"}

\* Without the capability a SYN scan falls back to connects.
Scanner ==
  IF cli.udp THEN "udp" ELSE IF cli.syn /\ caps.raw THEN "syn" ELSE "connect"

Entry(place, status) ==
  [host |-> place[1], port |-> place[2], protocol |-> Protocol, status |-> status,
   service |-> {}]

\* A host that is in the list twice has each of its ports twice.
PortsOf(h) ==
  LET times == Cardinality({i \in DOMAIN hosts : hosts[i] = h})
  IN  FlattenSeq([k \in DOMAIN ports |-> Repeated(<<h, ports[k]>>, times)])

\* run_scan, in detail in ScanEngine and the scanners; without a slot it never
\* takes a step.
Scan ==
  /\ pc = "scan" /\ config.concurrency > 0
  /\ LET places == Ascending([h \in ToSet(Addresses) |-> PortsOf(h)]) IN
     \E v \in [DOMAIN places -> Verdicts] :
       summary' = [n \in DOMAIN places |-> Entry(places[n], v[n])]
  /\ contacts' = contacts \cup By(ToSet(hosts), {Scanner})
  /\ GoTo("banners")
  /\ Idle /\ UNCHANGED <<caps, config, hosts, ports, report, told>>

Hosts(records) == {r.host : r \in records}

\* The records worth a banner or a UDP probe.
Promising ==
  {r \in ToSet(summary) :
     HostUp(r.host) /\ IF cli.udp THEN PlausiblyOpen(r.status) ELSE r.status = "Open"}

\* The summary with some of the records of a set labelled.
Relabelled(records) ==
  {[i \in DOMAIN summary |->
      IF summary[i] \in records THEN [summary[i] EXCEPT !.service = l[i]] ELSE summary[i]] :
     l \in [DOMAIN summary -> machine.labels]}

\* grab_banners and identify_services, in detail in Enrichment.
GrabBanners ==
  /\ pc = "banners"
  /\ summary' \in Relabelled(Promising)
  /\ contacts' = contacts \cup By(Hosts(Promising), {"banner"})
  /\ GoTo("plugins")
  /\ Idle /\ UNCHANGED <<caps, config, hosts, ports, report, told>>

\* run_plugins without a script to run.
SkipPlugins ==
  /\ pc = "plugins" /\ ~machine.plugins
  /\ GoTo("nmap")
  /\ Idle /\ UNCHANGED <<summary, contacts, caps, config, hosts, ports, report, told>>

\* run_plugins has come to its end, which nothing but the scripts decides.
RunPlugins ==
  /\ pc = "plugins" /\ machine.plugins
  /\ contacts' = contacts \cup
       By(Hosts({r \in ToSet(summary) : r.status = "Open" /\ r.protocol = "Tcp"}), {"plugin"})
  /\ GoTo("nmap")
  /\ Idle /\ UNCHANGED <<summary, caps, config, hosts, ports, report, told>>

NmapWanted ==
  /\ ~cli.no_nmap /\ caps.nmap
  /\ \E r \in ToSet(summary) : HostUp(r.host) /\ PlausiblyOpen(r.status)

\* The capability is asked for once more before -O is.
Scans == IF caps.raw THEN {"nmap", "nmap -O"} ELSE {"nmap"}

SkipNmap ==
  /\ pc = "nmap" /\ ~NmapWanted
  /\ GoTo(Stages[1])
  /\ Idle /\ UNCHANGED <<summary, contacts, caps, config, hosts, ports, report, told>>

\* The nmap process has ended; whether it failed only shows in the labels.
RunNmap ==
  /\ pc = "nmap" /\ NmapWanted
  /\ summary' \in Relabelled(ToSet(summary))
  /\ contacts' = contacts \cup By({h \in Hosts(ToSet(summary)) : HostUp(h)}, Scans)
  /\ GoTo(Stages[1])
  /\ Idle /\ UNCHANGED <<caps, config, hosts, ports, report, told>>

Enumerate ==
  /\ EnterStage \/ LeaveStage \/ DnsStep \/ HttpStep \/ TlsStep \/ FtpStep \/ SnmpStep \/ SmbStep
  /\ UNCHANGED mainVars

\* What becomes of a zone transfer is the nameserver's affair.
AwaitTransfer == DnsTransfer /\ UNCHANGED mainVars

-----------------------------------------------------------------------------
\* File::create empties the old report, or fails and leaves it.
Save ==
  /\ pc = "save"
  /\ IF cli.output
     THEN \/ Leave(0) /\ told' = "error" /\ UNCHANGED report
          \/ GoTo("write") /\ report' = "empty" /\ UNCHANGED told
     ELSE Leave(0) /\ UNCHANGED <<report, told>>
  /\ Idle /\ UNCHANGED <<summary, contacts, caps, config, hosts, ports>>

\* Mutant: whether the write went well is not asked.
WriteReportUnchecked ==
  /\ pc = "write"
  /\ report' \in {"new", "partial", "empty"} /\ told' = "saved"
  /\ Leave(0)
  /\ Idle /\ UNCHANGED <<summary, contacts, caps, config, hosts, ports>>

\* write_all; an error, too, ends in exit status 0.
WriteReport ==
  /\ pc = "write"
  /\ \/ report' = "new" /\ told' = "saved"
     \/ report' \in {"partial", "empty"} /\ told' = "error"
  /\ Leave(0)
  /\ Idle /\ UNCHANGED <<summary, contacts, caps, config, hosts, ports>>

\* The process is killed, perhaps in the middle of a write.
Kill ==
  /\ pc \notin {"exited", "killed"}
  /\ pc' = "killed"
  /\ report' \in IF pc = "write" THEN {"empty", "partial", "new"} ELSE {report}
  /\ Idle
  /\ UNCHANGED <<summary, contacts, caps, config, hosts, ports, exit, told>>

Ended == pc \in {"exited", "killed"} /\ UNCHANGED vars

\* The steps the program comes to the end of by itself.
Bounded ==
  \/ Authorize \/ BuildPolicy \/ LoadProfile \/ ResolveTargets \/ ApplyScope \/ ParsePortList
  \/ SkipDiscovery \/ Discover \/ Scan \/ GrabBanners \/ SkipPlugins \/ SkipNmap
  \/ Enumerate \/ Save \/ WriteReport

Next == Bounded \/ RunPlugins \/ RunNmap \/ AwaitTransfer \/ Kill \/ Ended

(***************************************************************************)
(* One task does it all, and whatever it awaits in a bounded step is local *)
(* or has a timeout, of this program or of the name resolver it uses.      *)
(* Plugins, nmap and a nameserver's stream have none in this program, and  *)
(* nobody has to kill it.                                                  *)
(***************************************************************************)
Spec == Init /\ [][Next]_vars /\ WF_vars(Bounded)

-----------------------------------------------------------------------------
Pcs ==
  {"authorize", "policy", "profile", "resolve", "scope", "ports", "discover", "scan",
   "banners", "plugins", "nmap", "save", "write", "exited", "killed"} \cup StageSet

TypeOK ==
  /\ pc \in Pcs
  /\ exit \in {Running, 0, 1} /\ (exit # Running <=> pc = "exited")
  /\ report \in {"old", "empty", "partial", "new"} /\ told \in {"nothing", "saved", "error"}
  /\ ToSet(ports) \subseteq U16
  /\ todo # <<>> => pc \in StageSet \cup {"killed"}
  /\ \A r \in ToSet(summary) :
       r.status \in PortStatus /\ r.protocol = Protocol /\ r.port \in ToSet(ports)
  /\ FtpLocals /\ SnmpLocals

(* Whatever the run has come to, it has sent something only under an        *)
(* authorization, only to addresses the scope policy lets through (a zone   *)
(* transfer goes to a nameserver), with raw packets and -O only where the   *)
(* capability was found, from an enumeration stage only if it was asked for, *)
(* and nothing at all if it ends with the status 1 of a refusal             *)
(* (main.rs:37-45, 120-126, 157-165, 183-186).                              *)
ContactsAllowed ==
  /\ exit = 1 => contacts = {}
  /\ \A c \in contacts :
       /\ cli.authorized
       /\ c.by = "dns" \/ c.who \in cli.allowed
       /\ c.by \in {"arp", "syn", "nmap -O"} => machine.raw
       /\ c.by \in StageSet => c.by \in cli.enumerate

Ready == pc \notin {"authorize", "policy", "profile", "killed"} /\ exit # 1

Ungoverned ==
  /\ cli.profile_path = NoName \/ DOMAIN machine.profiles = {}
  /\ config.concurrency = cli.concurrency /\ config.timeout_ms = cli.timeout

MayGovern(name) ==
  /\ cli.profile_path # NoName
  /\ cli.profile_name \in {name, NoName}
  /\ cli.profile_name = NoName /\ "default" \in DOMAIN machine.profiles => name = "default"

Governs(profile) ==
  /\ config.concurrency = OrElse(profile.concurrency, cli.concurrency)
  /\ config.timeout_ms = OrElse(profile.timeout_ms, cli.timeout)
  /\ profile.discovery # <<>> =>
       /\ config.tcp_ping_ports = profile.discovery[1].tcp_ports
       /\ ~cli.no_ping => config.ping_discovery = profile.discovery[1].ping

(* The settings of a run are those of a profile that the user chose, or     *)
(* that is called default, or, only where there is neither, of any other in *)
(* the file; each field it leaves out is that of the command line;          *)
(* --no-ping holds against any profile; and the ports are all those of the  *)
(* parts written and no others, each once and in ascending order, whatever  *)
(* the order and overlap of the parts.                                      *)
SettingsAsGiven ==
  /\ Ready =>
       /\ cli.no_ping => ~config.ping_discovery
       /\ \/ Ungoverned
          \/ \E name \in DOMAIN machine.profiles : MayGovern(name) /\ Governs(machine.profiles[name])
  /\ ports # <<>> =>
       /\ \A i, j \in DOMAIN ports : i < j => ports[i] < ports[j]
       /\ \A i \in DOMAIN cli.ports : cli.ports[i][1]..Last(cli.ports[i]) \subseteq ToSet(ports)
       /\ \A p \in ToSet(ports) : \E i \in DOMAIN cli.ports :
            cli.ports[i][1] <= p /\ p <= Last(cli.ports[i])

(* "Results saved" means that the file holds all of them.  An old report is *)
(* lost without a new one only under an error message or a kill in the      *)
(* middle of writing, and it is left in place without a word only if        *)
(* nobody was found alive (main.rs:193-196, 393-401).                       *)
ReportFileHonest ==
  /\ told = "saved" => report = "new"
  /\ report \in {"empty", "partial"} => told = "error" \/ pc \in {"write", "killed"}
  /\ report # "old" => cli.output /\ exit # 1
  /\ exit = 0 /\ cli.output /\ told = "nothing" => hosts = <<>> /\ report = "old"

\* The places where the run may stay for ever.
WithoutLimit ==
  \/ pc \in {"discover", "scan"} /\ config.concurrency = 0
  \/ pc = "plugins" /\ machine.plugins
  \/ pc = "nmap" /\ NmapWanted
  \/ At("dns", "transfer")

(* The run comes to an end, unless it stays at one of four places: a limit  *)
(* of 0 probes, a plugin, nmap, or the stream of a zone transfer.           *)
RunEnds == <>(pc \in {"exited", "killed"}) \/ <>[]WithoutLimit

=============================================================================
