----------------------------- MODULE ScanEngine -----------------------------
(***************************************************************************)
(* run_scan of src/engine/mod.rs: the list of (ip, port) jobs is turned    *)
(* into a stream of futures, buffer_unordered keeps at most Concurrency of *)
(* them alive, a semaphore with as many permits is taken around the probe, *)
(* and results are filed per host in the order in which they complete.     *)
(*                                                                         *)
(* Everything runs in one task: futures are polled only by results.next(), *)
(* which first refills the buffer.  A probe is one step here; what a       *)
(* scanner does inside it is left to the choice of a verdict.              *)
(***************************************************************************)
EXTENDS ScanModel, Integers, Sequences, FiniteSets

CONSTANTS
  Targets,       \* hosts: Vec<IpAddr>, in order; an address may be repeated
  Ports,         \* ports: Vec<u16>, ascending and distinct (parse_ports)
  Concurrency,   \* the configured limit, 0 included
  Verdicts       \* what the chosen scanner's scan_port can return

ASSUME EngineAssumption ==
  /\ Targets \in Seq(Nat)
  /\ Ports \in Seq(Nat)
  /\ Concurrency \in Nat
  /\ Verdicts \subseteq PortStatus

VARIABLES
  stage,         \* where each job's future is
  permits,       \* free permits of the semaphore
  verdict,       \* the value each future resolved to
  host_ports,    \* the results filed so far, per address
  returned,      \* whether run_scan has returned
  summary        \* what it returned

vars == <<stage, permits, verdict, host_ports, returned, summary>>

-----------------------------------------------------------------------------
NoVerdict == "None"

\* scan_jobs: every position of hosts with every position of ports.
Jobs == (DOMAIN Targets) \X (DOMAIN Ports)
JobHost(j) == Targets[j[1]]
JobPort(j) == Ports[j[2]]

\* The order in which the nested loops push the jobs.
Before(j, k) == j[1] < k[1] \/ (j[1] = k[1] /\ j[2] < k[2])

Addresses == {Targets[i] : i \in DOMAIN Targets}

Stages == {"queued", "waiting", "probing", "ready", "collected"}

In(s) == {j \in Jobs : stage[j] = s}

\* buffer_unordered's in-progress queue.
Buffered == {j \in Jobs : stage[j] \in {"waiting", "probing", "ready"}}

\* Futures are polled only once the refill loop has stopped.
Refilled == Cardinality(Buffered) >= Concurrency \/ In("queued") = {}

StatusesIn(list) == {list[i].status : i \in DOMAIN list}

\* Mutant: the list is left in completion order.
UnsortedPorts(list) == list

\* sort_by_key is stable: equal ports keep their completion order.
SortByPort(list) ==
  LET place(i) == Cardinality({k \in DOMAIN list :
                     \/ list[k].port < list[i].port
                     \/ list[k].port = list[i].port /\ k <= i})
  IN  [n \in DOMAIN list |-> list[CHOOSE i \in DOMAIN list : place(i) = n]]

\* Mutant: only an open port makes a host live.
UpByOpenPort(list) == IF "Open" \in StatusesIn(list) THEN "Up" ELSE "Down"

HostVerdict(list) == IF AnyAnswer(StatusesIn(list)) THEN "Up" ELSE "Down"

NoSummary == [targets_scanned |-> 0, hosts_up |-> 0, hosts |-> <<>>]

-----------------------------------------------------------------------------
Init ==
  /\ stage = [j \in Jobs |-> "queued"]
  /\ permits = Concurrency
  /\ verdict = [j \in Jobs |-> NoVerdict]
  /\ host_ports = [ip \in Addresses |-> <<>>]
  /\ returned = FALSE
  /\ summary = NoSummary

\* Mutant: the buffer takes one future too many.
PullOneMore(j) ==
  /\ j \in In("queued")
  /\ \A k \in In("queued") : k = j \/ Before(j, k)
  /\ Cardinality(Buffered) <= Concurrency
  /\ stage' = [stage EXCEPT ![j] = "waiting"]
  /\ UNCHANGED <<permits, verdict, host_ports, returned, summary>>

\* results.next() pulls the next job of the stream while the buffer has room.
Pull(j) ==
  /\ j \in In("queued")
  /\ \A k \in In("queued") : k = j \/ Before(j, k)
  /\ Cardinality(Buffered) < Concurrency
  /\ stage' = [stage EXCEPT ![j] = "waiting"]
  /\ UNCHANGED <<permits, verdict, host_ports, returned, summary>>

\* sem.acquire() of a polled future.
Acquire(j) ==
  /\ Refilled
  /\ stage[j] = "waiting"
  /\ permits > 0
  /\ stage' = [stage EXCEPT ![j] = "probing"]
  /\ permits' = permits - 1
  /\ UNCHANGED <<verdict, host_ports, returned, summary>>

\* The probe of job j ends with a verdict and hands back n permits.
EndProbe(j, n) ==
  /\ Refilled
  /\ stage[j] = "probing"
  /\ stage' = [stage EXCEPT ![j] = "ready"]
  /\ permits' = permits + n
  /\ \E v \in Verdicts : verdict' = [verdict EXCEPT ![j] = v]
  /\ UNCHANGED <<host_ports, returned, summary>>

\* Mutant: the permit is released by hand and again when it is dropped.
ResolveReleasingTwice(j) == EndProbe(j, 2)

\* Mutant: a failing probe forgets its permit.
ResolveLeakingPermit(j) == EndProbe(j, 0) \/ EndProbe(j, 1)

\* Mutant: a filtered port is probed again, without limit.
ResolveRetrying(j) ==
  \/ EndProbe(j, 1) /\ verdict'[j] # "Filtered"
  \/ /\ Refilled
     /\ stage[j] = "probing"
     /\ stage' = [stage EXCEPT ![j] = "waiting"]
     /\ permits' = permits + 1
     /\ UNCHANGED <<verdict, host_ports, returned, summary>>

\* scan_port resolves; the permit is dropped with the async block.
Resolve(j) == EndProbe(j, 1)

\* Mutant: a host keeps only the last result filed.
CollectOverwriting(j) ==
  /\ Refilled
  /\ stage[j] = "ready"
  /\ stage' = [stage EXCEPT ![j] = "collected"]
  /\ host_ports' = [host_ports EXCEPT ![JobHost(j)] =
                      <<[port |-> JobPort(j), status |-> verdict[j]]>>]
  /\ UNCHANGED <<permits, verdict, returned, summary>>

\* results.next() yields (ip, port, status) and the loop body files it.
Collect(j) ==
  /\ Refilled
  /\ stage[j] = "ready"
  /\ stage' = [stage EXCEPT ![j] = "collected"]
  /\ host_ports' = [host_ports EXCEPT ![JobHost(j)] =
                      Append(@, [port |-> JobPort(j), status |-> verdict[j]])]
  /\ UNCHANGED <<permits, verdict, returned, summary>>

\* results.next() returns None: stream and buffer are both empty.
Finalize ==
  /\ ~returned
  /\ In("queued") = {}
  /\ Buffered = {}
  /\ Concurrency > 0
  /\ returned' = TRUE
  /\ LET up == {ip \in Addresses : HostVerdict(host_ports[ip]) = "Up"}
     IN  summary' = [targets_scanned |-> Len(Targets),
                     hosts_up |-> Cardinality(up),
                     hosts |-> [ip \in Addresses |->
                                  [status |-> HostVerdict(host_ports[ip]),
                                   ports |-> SortByPort(host_ports[ip])]]]
  /\ UNCHANGED <<stage, permits, verdict, host_ports>>

\* The caller has its summary.
Done == returned /\ UNCHANGED vars

Next ==
  \/ \E j \in Jobs : Pull(j) \/ Acquire(j) \/ Resolve(j) \/ Collect(j)
  \/ Finalize
  \/ Done

(***************************************************************************)
(* The runtime keeps polling the main task, and every scan_port ends:      *)
(* each await in it is under the scan timeout.                             *)
(***************************************************************************)
Fairness ==
  /\ WF_vars(\E j \in Jobs : Pull(j))
  /\ WF_vars(\E j \in Jobs : Acquire(j))
  /\ WF_vars(\E j \in Jobs : Resolve(j))
  /\ WF_vars(\E j \in Jobs : Collect(j))
  /\ WF_vars(Finalize)

Spec == Init /\ [][Next]_vars

FairSpec == Spec /\ Fairness

-----------------------------------------------------------------------------
(* Types of the variables (model.rs PortResult, HostResult, the summary).   *)
PortEntry == [port : Nat, status : PortStatus]

TypeOK ==
  /\ stage \in [Jobs -> Stages]
  /\ permits \in 0..Concurrency
  /\ verdict \in [Jobs -> Verdicts \cup {NoVerdict}]
  /\ host_ports \in [Addresses -> Seq(PortEntry)]
  /\ returned \in BOOLEAN
  /\ summary.targets_scanned \in 0..Len(Targets)
  /\ summary.hosts_up \in 0..Len(Targets)

(* No permit leaks and none is minted: at every moment the probes on the    *)
(* wire and the free permits add up to the limit, so at most Concurrency    *)
(* probes run (the semaphore of engine/mod.rs:33 and 42).                   *)
PermitsConserved == permits + Cardinality(In("probing")) = Concurrency

(* The semaphore is never contended: buffer_unordered already admits no     *)
(* more than Concurrency futures, so whoever reaches sem.acquire() finds a  *)
(* permit, and a buffered future never waits behind another one.            *)
AcquireNeverBlocks == In("waiting") # {} => permits > 0

(* While results arrive in any order, what is filed under an address is     *)
(* what its own collected probes found: no result is lost, invented or      *)
(* filed under another host.                                                *)
FiledUnderOwnHost ==
  \A ip \in Addresses :
    {host_ports[ip][i] : i \in DOMAIN host_ports[ip]} =
      {[port |-> JobPort(j), status |-> verdict[j]] :
         j \in {k \in In("collected") : JobHost(k) = ip}}

\* How often the report lists a result for an address, and how often it was found.
Listed(ip, entry) ==
  Cardinality({i \in DOMAIN summary.hosts[ip].ports : summary.hosts[ip].ports[i] = entry})

Probed(ip, entry) ==
  Cardinality({j \in Jobs : /\ JobHost(j) = ip
                            /\ [port |-> JobPort(j), status |-> verdict[j]] = entry})

(* The finished report is the same whatever order the probes completed in,  *)
(* but for repeats of one pair: under each address the ports ascend, and    *)
(* each result is listed exactly as often as a probe of a requested pair    *)
(* found it, so a host given twice has each port twice and no other has.    *)
ReportOrderIndependent ==
  returned =>
    \A ip \in Addresses :
      /\ \A m, n \in DOMAIN summary.hosts[ip].ports :
           m < n => summary.hosts[ip].ports[m].port <= summary.hosts[ip].ports[n].port
      /\ \A entry \in [port : {Ports[n] : n \in DOMAIN Ports}, status : PortStatus] :
           Listed(ip, entry) = Probed(ip, entry)

(* The scan ends: whatever the verdicts and their order, run_scan returns.  *)
ScanCompletes == <>returned

-----------------------------------------------------------------------------
(* run_scan keeps the promise of ScanPromise: a probe is recorded when its  *)
(* result is filed, and the report is published when run_scan returns.      *)
Recorded ==
  [j \in Jobs |-> IF stage[j] = "collected" THEN verdict[j] ELSE NoVerdict]

ReportedUp ==
  IF returned THEN {ip \in Addresses : summary.hosts[ip].status = "Up"} ELSE {}

Promise == INSTANCE ScanPromise WITH
  Probes <- Jobs, HostOf <- JobHost, NoVerdict <- NoVerdict,
  recorded <- Recorded, published <- returned,
  up <- ReportedUp, hostsUp <- summary.hosts_up

KeepsPromise == Promise!Spec

=============================================================================
