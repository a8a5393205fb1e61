# netenum in TLA+

This directory holds a TLA+ model of `netenum`, the asynchronous network
enumeration tool of this repository: modules for the parts of the program that
decide what is scanned, how probes run at the same time and what the report
says, TLC configurations that check them on small instances, and proofs that
TLAPS checks for every value of the constants. Paths below are relative to the
root of the repository.

## The system

`main` (`src/main.rs`) runs one tokio task through a fixed sequence of stages.
The only concurrency is inside stages: futures multiplexed by
`buffer_unordered` under a semaphore, blocking threads for raw sockets, and
external processes (ping, Nmap). Nothing is persisted before the final report.

| Component | State it keeps | Operations | Interacts through | What is hard | What makes it correct |
|---|---|---|---|---|---|
| Target resolution (`src/targets/resolver.rs`) | list of addresses, hint map | `resolve_targets`, `hostname_targets`, `hostname_ip_map` | name service, asked twice | a lookup fails or answers differently the second time; repeats | all targets resolved or no scan; order kept; hints are what the second lookup said, first name first |
| Scope policy (`src/scope.rs`) | allow and deny networks | `build`, `is_allowed`, `partition` | filters the resolved list | overlapping entries from flags and files | deny wins; allow, if any, is exhaustive; nothing lost |
| Discovery (`src/discovery/`) | hosts remaining, alive, pending ARP replies | `run_discovery`, `arp_discover`, `ping_host`, `tcp_ping_host` | raw channel on a blocking thread, ping processes, connects | stray and late replies, a panicking thread, time running out, several probes of one host | alive means answered; every target judged once by ARP or by the sweep; bounded probes; it ends |
| Scan engine (`src/engine/mod.rs`) | job stream, permits, results per host | `run_scan` | calls the scanner, returns the summary | completion order, permits, limits | each probe reported once and under its host, whatever the order; permits conserved; it ends |
| SYN scanner (`src/scanners/syn.rs`) | raw channel, source port, time left | `scan_port` | the kernel copies every TCP packet to every raw channel | answers to other probes, shared source ports, endless traffic, sequence overflow | no verdict from another's answer; resets only for own open ports, and every handshake left half open explained; it ends |
| Connect and UDP scanners (`src/scanners/connect.rs`, `udp.rs`) | one socket | `scan_port` | kernel, timer | answer against timer, refused sends | an answer that is there decides; UDP silence is `open\|filtered` |
| Enrichment (`src/banner.rs`, `src/udp_identify.rs`, `src/scripting/mod.rs`, `src/nmap/`) | the `PortResult` of each port | `grab_banners`, `identify_services`, `run_plugins`, `enrich` | all write the same records, in turn | four writers, each deciding by what the earlier ones left; Nmap answers for the union of all ports | labels complete and heard, evidence kept, Nmap's answers on their own host and port |
| DNS enumeration (`src/enumeration/dns.rs`) | findings and nameservers of a name | `enumerate`, `try_axfr` | resolver, every nameserver | lookups fail one by one; no limit on a transfer; names the policy excludes | exactly what was answered is reported |
| HTTP fingerprinting (`src/enumeration/http.rs`) | what has arrived | `fetch`, `extract_title` | a TCP connection | responses cut off anywhere; offsets taken from a copy | exactly the telling headers that have arrived are reported, with their last values; a title is the served one, and there once its end tag is |
| TLS inspection (`src/enumeration/tls.rs`) | the leaf certificate | `fetch_cert`, `inspect_cert` | a TLS handshake | expiry at its boundaries | one class of expiry, the right one |
| FTP enumeration (`src/enumeration/ftp.rs`) | one control connection | `probe_ftp`, `build_findings` | greeting, USER, PASS | replies in pieces put the dialogue out of step; a piece may begin at digits of the text | a login is reported only if granted, or if a read had left a text behind that looks like a grant |
| SNMP enumeration (`src/enumeration/snmp.rs`) | a session per community | `probe_port`, `walk_interfaces` | GET and GETNEXT | agents that are silent, lie or go round in circles | communities that bring a value reported, details no more often than the port is probed, walk capped |
| SMB enumeration (`src/enumeration/smb.rs`) | a connection per probe | three probes | framed requests, a client library | announced lengths; each probe fails alone | each finding exactly if the server gave reason |
| CLI, profiles, capabilities (`src/cli.rs`, `src/config.rs`, `src/capabilities.rs`) | none | `parse_ports`, `ScanConfig::merge`, `detect` | produce the parameters of everything else | precedence, limits, boundary values | ports and settings are those given |
| Report (`src/report/json.rs`) | the output file | `save_to_json` | file system | truncation before writing | "saved" means saved |
| Orchestration (`src/main.rs`) | the stage, the summary, the exit status | `main` | calls all of the above in turn | the order of refusals and contacts; stages without a limit | nothing sent without leave; the run ends but at known places |

The complete list, with the status of each part, is under `components` in
`PROJECT.json`; the hazards each property is aimed at are under `hazards`.

## Modules

| Module | Models | Reads as |
|---|---|---|
| `Lists` | what the code does to vectors through the standard library: filter, retain and partition (`Kept`), sort (`Sorted`) | definitions only |
| `ScanModel` | verdict and transport types of `src/model.rs`; the two tests on verdicts that several stages share | definitions only |
| `ScanPromise` | what `run_scan` promises its caller, without streams, permits or order | abstract specification |
| `ScanEngine` | `run_scan` | refines `ScanPromise` |
| `TargetScope` | `resolve_targets`, `ScopePolicy`, `hostname_ip_map`, in the order of `main` | one task, free name service |
| `Discovery` | `run_discovery` with ARP, ping and TCP connects | interleaved hosts, free network |
| `SynScanner` | concurrent `SynScanner::scan_port` calls | interleaved threads, shared traffic |
| `SocketScanner` | `ConnectScanner::scan_port` and `UdpScanner::scan_port` | answer against timer |
| `PortScanners` | the choice of a scanner in `main` | composes `SynScanner` and `SocketScanner` |
| `Enrichment` | every write to a port record after the scan | one task, free answers |
| `EnumStage` | what the enumeration stages share: which ports a stage is for, its loop, findings | extended by the next six |
| `Dns`, `Http`, `Tls`, `Ftp`, `Snmp`, `Smb` | the modules of `src/enumeration/`, one each | one task against a free server |
| `Orchestrator` | `main`, `parse_ports`, `ScanConfig::merge`, `detect`, `save_to_json` | composes the six stages; one step for each part that has a module of its own above |
| `Lists_proof` | | lemmas about `Lists` and about sequences, used by `TargetScope_proof`, `Discovery_proof` and `Orchestrator_proof` |
| `TargetScope_proof`, `Discovery_proof`, `Orchestrator_proof`, `ScanEngine_proof`, `SynScanner_proof`, `SocketScanner_proof`, `Enrichment_proof` | | theorems and proofs |
| `MC*` | | the instances TLC checks |

### ScanEngine

`stage[j]` is where the future of job `j` is: still in the stream (`queued`),
in the buffer before the semaphore (`waiting`), inside `scan_port` (`probing`),
resolved (`ready`) or yielded by `results.next()` (`collected`). `Pull` is
`buffer_unordered` taking the next job of the stream, `Acquire` is
`sem.acquire()`, `Resolve` is the end of `scan_port` with the permit dropped,
`Collect` is the body of the `while let`, `Finalize` everything after it. Futures
are polled only from `results.next()`, which refills the buffer first; this is
the guard `Refilled`. With a limit of 0 the stream is never looked at, and so
never seen to be exhausted: `Finalize` needs `Concurrency > 0`. Which verdict a
probe has is a free choice from `Verdicts`; the scanner modules say which ones
are possible and when they are right. `host_ports` keeps the order of completion,
and `SortByPort` is the stable sort at the end.

### TargetScope

A target string is modelled by its form (blank, address, network, hostname,
hostname with a port), which is all the code branches on. The scope lists are
read in `BuildPolicy`; a malformed entry, like an unreadable file, ends the run.
`Expand` and `LookUp` are one iteration of the loop each; `Partition` is
`dedup()`, `partition` and the emptiness checks of `main`; `MapHostname` is one
iteration of `hostname_ip_map`, with answers chosen again. `sources` and
`looked_up` are histories for the properties and change no behaviour.

### Discovery

`groups`, `iface`, `pending` and `found` are the locals of `arp_discover` and
`probe_group`; `ArpReply` may come from any address of `Repliers`, at any time,
again and again. `EndArp` includes the thread that panicked (`unwrap_or_default`).
In the sweep `stage` and `connects` follow each host's future: the ping, then
all connects at once, one for every entry of the port list (a port that a profile
repeats is connected to as often), the first success dropping the others. Taking a host from
the stream and taking its permit is one step, because the pair has been treated
separately in `ScanEngine` and never waits there.

### SynScanner

Each probe goes through the steps of `scan_port`; `rx` is what its raw channel
holds. `Answer` is the network: a target that has been sent a SYN answers it
according to what its port is, any number of times, and each open channel with
room receives a copy. A source port is taken from a socket that is already
closed again, so `PickPort` may give two probes the same one. `Receive` is one
turn of the loop with time left; `Tick` and `TimeOut` are the clock. The reset that
answers a SYN-ACK may fail to be sent, which the code does not look at (`Reset`,
history `rst_failed`): the port is then reported `Open` and its handshake stays half
open. Where the
build checks overflow (`OverflowChecks`), `OnSynAck` is the panic that
`unwrap_or(Filtered)` hides: an open port whose SYN-ACK carries the largest
sequence number is reported `Filtered`. A probe whose channel cannot be opened
reports `Closed` though it sent nothing; `VerdictTrue` makes that one exception.

### SocketScanner

`answer` is what the kernel holds for the socket and `expired` the timer;
`Poll` follows `tokio::time::timeout`, which polls the inner future before it
looks at the clock. `protocol` is chosen once, for all probes: a run has one scanner.

### PortScanners

The scanner of a run: UDP before SYN, and connects where the capability for SYN is
missing (`UsesSyn`). `Syn` and `Socket` let only the steps of the chosen one happen, so
that one run checks what both modules promise, under every choice.

### Enrichment

`pc` walks through the stages of `main` and `at` through the ports (and, for
plugins, the scripts). A port record keeps service, confidence, source, banner
and whether it has a CPE. A banner is the sequence of the parts it was assembled
from, so that a lost part shows; separators are left out. `MergeService`,
`MergeScripts` and `MergeNothing` are the three shapes a `<port>` of Nmap's XML
can have, `MergeOs` the `<os>` of a host; Nmap may answer for every pair that
its command line asks about (`Asked`). `MergedConfidence` computes in eight bits,
as the code does.

### Orchestrator and EnumStage

`pc` is the stage of `main`; a run starts from one of `Plans`, a command line
(`cli`) and the machine it runs on. `Authorize` to `ParsePortList` are the
refusals in the order of the code, each with exit status 1. `Discover`, `Scan`,
`GrabBanners`, `RunPlugins` and `RunNmap` are one step each with every outcome
their own modules allow: any subset of the hosts, any verdicts, any labels.
`EnterStage` and `LeaveStage` are the `if cli.<stage>` of `main` and the loops of
`enumerate_host`; `Worklist` is which ports a stage goes through. A target that the
resolver leaves on the list twice is discovered, scanned and listed twice: `Repeated`
keeps how often a host is there, `PortsOf` how often each of its ports is, and the
enumeration stages go through each entry. A service label
is the set of the words that `looks_like_*` searches it for. `Save` and
`WriteReport` are `save_to_json`, with the file opened (and emptied) and written
in two steps, each of which may fail; `Kill` may come anywhere, in the middle of
the write too. `contacts` is a history of who was sent something and by which
stage, `seen` of what the other ends really did, so that findings can be held
against it. Options of the command line and of profiles are sequences of at most
one element; a part of a port list is the sequence of numbers between its dashes,
where -1 stands for anything that is not a number of 16 bits, and neither is
65536.

### Dns, Http, Tls, Ftp, Snmp, Smb

In each module a probe is a few steps (`DnsResolve`, `FtpUser`, ...), between
which the other end may answer, lie, stay silent or break off. What is not in the
code is what that end does: `RecordData`, `Pages`, `Certificates` and `Replies` are
what it may have, and the choices in the actions what it may do with it.

* `Dns`: five lookups that may each fail, then `DnsAsk` and `DnsTransfer` for every
  nameserver. A transfer's records are not counted, only whether there were any.
* `Http`: a response is a sequence of tokens (status line, header lines, empty
  line, characters); `Arrivals` are its prefixes, also those that end inside a
  header's value. `Offset` and `LowerOffset` count the bytes of the body and of its
  lower-case copy, because `extract_title` finds offsets in the one and cuts
  the other.
* `Tls`: a certificate's time left in quarters of a day; `Expiry` has the three
  classes and the instant that belongs to none.
* `Ftp`: `wire` is the queue of pieces on their way and a read takes any number of
  them, so that a reply cut in two is read as two. `Cuts` lists the ways to cut: also
  in front of three digits of the text that look like a code (`Lookalikes`), since a
  segment may end anywhere and a read has room for 512 bytes only. What the server
  meant by a reply is kept in `seen` (`Meant`): `granted` a login, or only sent a text
  that is `misleading` when read from its middle; `leftover` and `lost` are what
  became of the dialogue.
* `Snmp`: both communities; a GET ends in silence, in an answer without a value or
  with one; the agent answers a GETNEXT with any row it likes.
* `Smb`: a reply is the length it announces, its signature, its signing bit and
  whether it is all there.

## What the runs check

| Run | Shows | Instance |
|---|---|---|
| `scan_tcp` | permits, filing and report under every completion order; `run_scan` returns; it refines `ScanPromise` | 3 targets (one address repeated) x 2 ports, limit 2, 3 verdicts |
| `scan_no_slots` (violated) | with a limit of 0 the scan never returns | limit 0 |
| `targets_scope` | scope, order, completeness and hints | 6 targets, 6 policies, 2 or 3 answers per name |
| `targets_repeated` (violated) | repeats that are not adjacent stay | 3 targets |
| `discovery_arp` | ARP, ping and connects; no probes to sweep with; a network ARP finds complete; no ARP; no targets | 4 targets (1 repeated, 1 IPv6) on two LANs, 2 local, 2 remote or none, 1 stranger, at most 2 ping ports or the same one twice, limit 2 |
| `discovery_connects` (violated) | more connects are open at a time than the limit says | 1 target, 3 ping ports, limit 2 |
| `enrich` | the label and the banner through all stages | 2 hosts, 1 port, 1 script, 3 service elements |
| `enrich_closed` (violated) | a closed port is enriched | as `enrich` |
| `scanners` | for every choice of scanner: SYN probes on shared traffic, with sends that fail; answer against timer over sockets | 2 probes, 1 ephemeral port + the fallback, time 2, channel 2; 2 sockets; 251,508 states |
| `main_run` | whole runs: refusals, settings, contacts, the report, what each enumeration stage reports, and where a run may stay for ever | 763,427 states |
| `excluded_names` (violated) | `--dns` contacts the nameservers of a name that the scope policy excluded | 2 names |
| `snmp_no_value` (violated) | a GET that completes without a value is not taken for an accepted community | 1 SNMP port |

The properties of `main_run`:

* `ContactsAllowed`: nothing is sent without authorization, to addresses the policy
  excludes (nameservers aside), with raw packets without the capability, from a
  stage that was not asked for, or at all in a run that ends with status 1.
* `SettingsAsGiven`: the ports are all those of the ranges written and no others,
  ascending and each once; a profile wins over
  flags, `--no-ping` over a profile; which profile may be the one.
* `ReportFileHonest`: "saved" means the file is complete; an older report is lost
  without a new one only under an error message or a kill, and left in place
  without a word only if nobody was alive.
* `DnsAsAnswered`, `PageAsReceived`, `ExpiryClassified`, `LoginAsGranted`,
  `SnmpAsAnswered`, `SmbAsServed`: the findings of each stage are what the other end
  gave reason for, whatever was lost, cut, repeated or refused on the way. Where they
  fall short of that they say so: a login may be read from a text whose front an
  earlier read had taken (`LoginAsGranted`), SNMP answers without a value count for
  neither side (`SnmpAsAnswered`; `snmp_no_value` is about them), and titles of bodies
  with characters whose lower case has another length are left out
  (`PageAsReceived`).
* `RunEnds`: a run ends unless it stays at a limit of 0 probes, a plugin, Nmap, or
  the stream of a zone transfer.

The runs marked violated each check one statement of a comment, a help text or
the repository's `README.md` that the code does not keep; `findings` in
`PROJECT.json` quotes the statement and the line. All other runs pass.

Every property of a passing run has a mutant: a definition with a plausible bug
(`UnsortedPorts`, `ResolveLeakingPermit`, `MatchesAnyPort`, ...), defined just before
the definition it would replace and not used by the specification. With it in
place TLC reports that property violated, which shows that the property can fail.

### Bounds

* `scan_tcp`: six jobs against two slots fill, refill and drain the buffer with
  jobs of both hosts in it; the repeated address is what filing and the final
  sort could get wrong. The proofs cover every other size.
* `targets_scope`: one target of every form; a second hostname shares an
  address with the first, which is what the order of hints depends on; a
  network contains a single address given before it.
* `discovery_arp`: the limit is smaller than the number of swept hosts, two
  ports are enough for "one fails, another answers", one stranger for a stray
  reply, and two LANs for a reply that comes while the other group is probed.
  `OpenConnects` is above the limit in `discovery_connects`, and never above the number
  of hosts under way times the ports.
* `enrich`: the same port number on two hosts is what can confuse the merge; a
  confidence of 26 is the least that leaves eight bits when scaled.
* `scanners`: two probes of one host are what can confuse the match; `RxBound`
  is the channel's capacity (a full socket buffer drops packets) and `Timeout`
  counts ticks, so a probe sees up to two packets queued and any number over
  time. `service` ranges over what the ports can be. Two
  sockets, of the same kind, are independent in the code; the proofs cover any number.
* `main_run`: each plan turns on one part (`Refused`, `PortLists`, `Discoveries`,
  `Reports`, one per stage), so that the plans add up; two stages that share a port
  run together in `WebPlan`, and FTP, SNMP and TLS meet a host that is on the list twice
  (`Twice`). Port lists overlap, repeat, have ranges with an interior and touch 0 and
  65535.
  `InterfaceRows` is one more than `MaxInterfaces`, so that the cap is reached by an
  honest agent and by one that circles; the code's cap is 32. Certificates have
  -1, 0, 1, 120, 123 and 124 quarter days left: both sides of now, of 30 and of 31
  days. Replies of SMB have 0, 3, 69, 70, 2^20 and 2^20 + 1 bytes: both sides of
  every bound. FTP replies have three codes and six ways to be
  cut, two of them in front of digits that look like a code. Pages
  have repeated headers, a second title, an empty title, a first line that is no
  HTTP, and characters whose lower case is longer or shorter.
* No other counter is cut off: stages, ports and jobs are finite in the program.

### Fairness

* `ScanEngine`: weak fairness of each kind of step over all jobs. The runtime
  polls a ready task, and every await of a scanner is under the scan timeout, so
  a probe that has begun ends. That is what `EveryProbeEnds` of
  `PortScanners` shows of them.
* `TargetScope`: weak fairness of the next step; a lookup ends with an answer or
  an error.
* `Discovery`: weak fairness of every step of the program, none of the
  network's (`ArpReply`). `CloseGroup` is fair because the loop leaves when its
  time is up and reads have a timeout of 100 ms.
* `PortScanners`: weak fairness of each thread and of time, none
  of answers.
* `Orchestrator`: weak fairness of `Bounded`, the steps that are local or under a
  timeout of the program or of the resolver. None of `RunPlugins`, `RunNmap`
  and `AwaitTransfer`, which wait for scripts, a process and a nameserver without
  one, and none of `Kill`.
* `Enrichment` states no liveness: neither the Nmap process nor a Lua script is
  under a timeout, so no end can be promised.

Deadlock is checked in every run but `scan_no_slots`, which is about a system
that stops. In `main_run` a run that has ended stutters (`Ended`), so that any other
stop would be a deadlock.

### Where comments and code differ

Besides the findings, which runs show:

* `src/engine/mod.rs:96` says that a host is up if a port is open or closed; by
  the test below it one whose UDP ports are all `open|filtered` is up as well
  (`AnyAnswer` of `ScanModel`).
* `README.md:33` promises the real hostname as SNI where the target was given as one.
  A target `host:port` is resolved and scanned, but `src/targets/resolver.rs:90-91` looks
  up its literal string, so that it has no hint and its TLS handshake no server name.
* `src/scanners/syn.rs:136` drops the result of sending the reset: `Open` does not mean
  that the handshake was torn down (`HalfOpenExplained` says when it may not have been).
* `src/enumeration/http.rs:128` promises the contents of the first title; with a
  character before it whose lower case has another length they are shifted or
  lost. `PageAsReceived` leaves such bodies out, `OddPages` are in the run.
* `src/enumeration/snmp.rs:94`: the findings for both communities have the same
  id, against `src/model.rs:122-126` if both work, and so have those of a port that is
  probed twice.
* `src/main.rs:136`: the check for an empty list of ports never applies, because
  no part of a list is empty and each is a port or an error (`ParsePorts`).
* A run that cannot save its report, or finds nobody alive, ends with status 0.

## What is proved

Every theorem below holds for all values of the constants that satisfy the named
assumption, and states an invariant (or an action property) that a run checks on
a small instance. Each module follows one pattern: an inductive invariant `IInv`
that strengthens what is to be shown, `Init => IInv`, `IInv /\ [Next]_vars =>
IInv'` with a step per action, and the theorems as consequences. TLC has checked
each `IInv` on the instance of its run, and the parts of `StagesInv` on that of
`main_run`, with the places of the summary for `\A p`.

| Module | Theorems | Assumption on the constants |
|---|---|---|
| `ScanEngine_proof` | `TypeCorrect`, `PermitsAreConserved`, `SemaphoreUncontended`, `ResultsFiledUnderOwnHost`, `ReportDoesNotRace`, `ScanKeepsPromise` | any sequences of targets and ports, repeats included; any limit, 0 included |
| `SynScanner_proof` | `TypeCorrect`, `VerdictsAreTrue`, `HalfOpenIsExplained` | finitely many probes, any addresses, ports, timeout and channel size |
| `SocketScanner_proof` | `TypeCorrect`, `AnAnswerDecides` | any probes, each over TCP or UDP |
| `TargetScope_proof` | `TypeCorrect`, `ScopeIsRespected`, `OrderIsKept`, `AllTargetsResolved`, `HintsAreThoseLookedUp` | any list of target strings, any answers of the name service, any scope lists |
| `Discovery_proof` | `TypeCorrect`, `AliveAreThoseThatAnswered`, `TargetsAreSharedOut`, `ProbesAreBounded` | any limit, targets and networks; finitely many interfaces and ping ports |
| `Enrichment_proof` | `TypeCorrect`, `LabelsAreComplete`, `NativeLabelsWereHeard`, `NmapLabelsWereReported`, `EvidenceIsKept` | any ports, verdicts, scripts and service elements |
| `Orchestrator_proof` | `TypeCorrect`, `OnlyAllowedContacts`, `SettingsAreThoseGiven`, `ReportIsHonest` | any plans of well-formed command lines and profiles, any addresses and servers |
| `Orchestrator_proof` (stages) | `DnsIsAsAnswered`, `PageIsAsReceived`, `ExpiryIsClassified`, `LoginIsAsGranted`, `SnmpIsAsAnswered`, `SmbIsAsServed` | the same; any records, responses, certificates and replies, any size of an interface table and any cap on it |

The arguments, and why the invariants have to be strengthened:

* `ScanEngine`. `PermitsConserved` alone does not show that a waiting future finds
  a permit: that needs `BufferBounded` (at most `Concurrency` futures are
  buffered), since the waiting one is buffered and not probing, so fewer than
  `Concurrency` are probing. `FiledUnderOwnHost` needs `VerdictWithStage` (a verdict
  exists exactly from `ready` on), since a later verdict would change what has been
  filed. The refinement of `ScanPromise` (its safety part) needs
  `ReturnedWhenAllCollected`, so that the report is published after the last record.
  Cardinalities are argued from `FiniteSetTheorems`.
  `ReportOrderIndependent` needs two things more, kept in `CountInv`: an entry is
  filed under a host as often as collected probes found it (`FiledAsOften`), and the
  report holds the sorted lists (`ReportSorted`). That the stable sort orders and
  keeps every occurrence is `SortedByPort`: the rank of a position, the number of
  entries that come no later, is injective from the positions to themselves, hence a
  permutation of them (`RankProperties`).
* `SynScanner`. `PacketsTrue` (a packet in any channel says what the port it comes
  from really is: a SYN-ACK only from an open one, a reset only from a closed one)
  is what a match by address and port turns into a true verdict, and
  `SentBeforeListening` ties a reset to a SYN of ours. `HalfOpenExplained` is inductive with
  these: a connection is reset only in the step in which its own probe returns `Open`,
  and a second probe with the same source port changes no verdict.
* `SocketScanner`. `NothingYet`: before a probe begins its socket holds nothing and
  its timer does not run, so that what is there at the end came in its time.
* `TargetScope`. `PolicyApplied` (the policy is the one the lists describe, and
  every host to scan passed it), `ResolvedSoFar` (every hostname before `next` left
  an address behind), and `HintsRight` with `NotYetLookedUp`: the hint map is
  right for the names looked up so far, in every state and not only at the end.
* `Discovery`. `Shared` (what remains is what ARP did not find), `Alive` (an answer
  to a sweep is in `alive_hosts` or on the way there, as a future that has resolved;
  the list ascends at the end because `EndSweep` sorts it) and `Slots`.
* `Enrichment`. `Right` says of one record what all four writers keep, in terms of
  the histories `heard` and `reported`, which only grow; so a write to one record
  disturbs no other. `EvidenceKept` is an action property: every step leaves each
  verdict alone and each banner a prefix of the next (`RecordsGrow`).
* `Orchestrator`. `Course` (the plan never changes, and behind `authorize` it is
  authorized), `Work` (from the end of `ApplyScope` on, the hosts and the hosts of
  all records are allowed; before, nothing was contacted), `Probing` (a stage that
  probes was asked for, and its list holds records of the summary, names for DNS),
  `Dialogues` (what the locals of an FTP dialogue and of an SNMP walk hold),
  `Saving` (the file before it is written) and `Settings` (how the settings and the
  ports came about). `ContactsAllowed` follows by looking at whom each action
  contacts; that the six stages are no exception is one lemma each (`DnsProbed`,
  ..., `SmbProbed`): a step of theirs contacts nobody but the host of the port
  under way.

What the six stages report rests on a second invariant, `StagesInv`, which is shown to
hold together with `IInv`:

* `Ledger`: before the stages nothing is on record, and of a stage that has not begun
  nothing has been seen or reported. `Gathering`: what a probe under way holds of
  findings is about its own place, a host with a port. So a step changes what is known
  of one place only (`Elsewhere`, `StillOrHere`), and each stage can be argued for the
  place under way, `Here`. A place may be in the summary more than once, if its host is
  on the list more than once; the claims are therefore about whatever entries of it are
  behind, and hold while no probe is there (`Settled`).
* DNS: the findings about names, together with those that the probe under way still
  holds, are the answers in `seen` (`DnsSoFar`), whichever lookup comes next. The names
  a report is held against are those the stage is done with, so none of them is the
  one under way.
* HTTP: what is reported of a place is the union over the responses that arrived
  there, one for each time it was probed (`PageAt`, `PageGrows`), so the proof comes
  down to one response and `HttpFindings`. The entry of the header map is the last line
  of its name, and every such line has one (`HeaderLines`, in both directions). Where
  no character's lower case has another length, offsets are positions
  (`PlainOffsets`: the sum of `MapThenSumSet`, unrolled by the least cardinality at
  which it could be wrong), so the slice between the first start tag and the first end
  tag behind it is the title that is served (`TitlesServed`).
* TLS: a certificate is seen and reported in one step; `ClassOf` separates the classes.
* FTP: `FtpSoFar` says of a dialogue under way that a piece that reads as a grant
  is on its way only where the server granted a login or sent a text that is
  misleading; and that, unless a read has left something behind, one reply is on its
  way, which tells whether the login was granted.
* SNMP: the list of a probe under way is judged by the communities tried so far
  (`Tried`, `SnmpGoing`). How many findings of a kind there are is counted, not only
  whether there is one: of each entry of a port that is behind (`Room`) and of the
  probe under way there is at most one description, so that with the entries still to
  come (`Due`) there are never more than the port is listed. The names of a walk are
  those of the table up to `current` unless the agent strayed (`WalkedAs`).
* SMB: the findings of three probes on three connections are independent
  (`SmbFits` is one equivalence for each kind), and each reply adds its own.

`Lists_proof` is about the two operators everything else rests on. `Kept` is a
recursive function, and what it does is shown by an induction that is made
first-order: a set of numbers that contains 0 and with every number the next is
all of them (`InductionUpTo`, from the least number of its complement), applied to
the set of lengths for which the claim holds. `StepwiseFunction` is the existence
of such a function, `KeptUnrolled` and `SortedUnrolled` its equations. From these:
`KeptProperties` (which elements, in the same order, picked by ascending
positions), `SortedElements` and `SortedAscends` (a sort loses nothing, adds nothing, and
ascends strictly if no number is there twice), `FlattenElements` and
`SetToSeqElements`. `Kept` and `Sorted` stand where `SelectSeq` and `SortSeq` would
do: the provers cannot look into those.

`PlansAssumption` of `Orchestrator` says what the argument parser, the resolver and the
reader of profiles guarantee: targets are addresses, `--syn` and `--udp` not together, a list of ports has a part and
a part a number, the ping ports of a profile are 16-bit numbers, and a name stands for one of the targets
and is enumerated at port 53. It does not exclude repeated targets, since the resolver
removes only those that stand side by side (`targets_repeated`). `DnsAssumption` (what a lookup returns is a list) and
`HttpAssumption` (behind the empty line of a response comes its body and nothing
else, and no value reads like the mark of a value cut off) say what the data of the
model is; TLC evaluates them on every run of `main_run` and `excluded_names`.

### What stays with TLC

* Liveness under fairness (`ScanCompletes`, `DiscoveryEnds`, `EveryProbeEnds`,
  `RunEnds`), the liveness half of the refinement, and whatever needs `ENABLED`,
  which this prover does not handle.
* That a zone transfer asked of an excluded nameserver, a limit of 0 and the other
  statements of the runs marked violated fail: TLC shows the behaviours.

Every invariant and every action property of the passing runs is stated by a
theorem. No module uses a `RECURSIVE` operator, so that all of them can be proved about.

## What is not modelled

* The syntax of addresses, ports, profiles and arguments as text, and what `clap`,
  the TOML reader and serde do with it.
* The scripts that `auto_select_scripts` attaches to Nmap: which ones run is between
  Nmap and the user.
* The libraries behind DNS, TLS, SNMP and SMB sessions: what they return is a free
  choice. Whether the DNS library ends a transfer that stalls is not assumed.
* The table that `main` prints, messages, progress, time stamps and recommendations.
* `scratch/` and the scripts in `plugins/` and `NSE/`: data of a user, not
  part of the program.
* The contents of packets, probes, banners and Lua scripts beyond what decides
  a branch; progress output; the order of equal findings.
* The limit of tokio's blocking pool: a SYN probe that waits for a thread
  has not started its clock, so it only delays the probe.
* Whether Nmap probed a name or looked it up in its table of ports: the code does
  not read the attribute that tells, and reports both as identified by probes
  (against `src/model.rs:29`).
* Truth of external answers: a firewall that forges a reset makes a port
  `Closed` to any scanner. `VerdictTrue` says that the program does not mix answers
  up, not that the network is honest.

## Plan

1. Done: all modules above, their runs, and the theorems listed under "What is
   proved".
2. Done: the properties of the six enumeration stages, by `StagesInv`.
3. Next: lemmas that tie the single steps `Discover`, `Scan` and `GrabBanners` ... of
   `Orchestrator` to what `Discovery`, `ScanEngine` and `Enrichment` allow at their end,
   so that "every outcome their own modules allow" is a theorem too.

## Running

    tlc -config scan_tcp.cfg MCScanEngine.tla
    tlapm ScanEngine_proof.tla

`runs` in `PROJECT.json` names the module and configuration of every run. The
longest (`main_run`) takes two to three minutes. `tlapm Orchestrator_proof.tla` takes
about a quarter of an hour, each other proof a few minutes at most.
