----------------------------- MODULE EnumStage -----------------------------
(***************************************************************************)
(* What the six enumeration stages of src/enumeration/ have in common: the *)
(* loop main.rs and every enumerate_host run over the ports of the hosts   *)
(* that are up, which port is worth which stage, and the list of findings. *)
(* The modules Dns, Http, Tls, Ftp, Snmp and Smb extend this one with what *)
(* happens on one port, and Orchestrator composes them.                    *)
(*                                                                         *)
(* One task does all of this, so a stage's own list of findings and the    *)
(* summary's, to which it is appended when the stage is over, are one      *)
(* sequence here.                                                          *)
(***************************************************************************)
EXTENDS ScanModel, Lists, FiniteSets

VARIABLES
  cli,       \* the command line
  pc,        \* the stage main has come to
  step,      \* inside a stage: "enter", "idle" between probes, or the probe's own
  todo,      \* what the stage has still to probe, the probe under way first
  local,     \* the locals of that probe
  summary,   \* the port records of summary.hosts, host by host
  findings,  \* summary.findings
  contacts,  \* history: [who, by], whom the program has sent something and how
  seen       \* history: <<stage, place, fact>>, what the other ends really did

enumVars == <<cli, pc, step, todo, local, summary, findings, contacts, seen>>

-----------------------------------------------------------------------------
Stages == <<"dns", "http", "tls", "ftp", "snmp", "smb">>

StageSet == ToSet(Stages)

\* The stage of main that comes after an enumeration stage.
After(stage) ==
  LET i == CHOOSE k \in DOMAIN Stages : Stages[k] = stage
  IN  IF i = Len(Stages) THEN "save" ELSE Stages[i + 1]

\* Ports that make looks_like_* true whatever the label.
WellKnown(stage) ==
  CASE stage = "ftp" -> {21} [] stage = "snmp" -> {161} [] stage = "smb" -> {139, 445}
    [] stage = "tls" -> {443, 465, 636, 993, 995, 8443, 8883} [] OTHER -> {}

\* Words one of which the service label contains otherwise.
Words(stage) ==
  CASE stage = "tls" -> {"ssl", "tls", "https"}
    [] stage = "smb" -> {"smb", "microsoft-ds", "netbios"} [] OTHER -> {stage}

\* A record's service is the set of those words its label contains.
LooksLike(stage, r) == r.port \in WellKnown(stage) \/ r.service \cap Words(stage) # {}

Eligible(stage, r) ==
  /\ IF stage = "snmp" THEN PlausiblyOpen(r.status) /\ r.protocol = "Udp"
                       ELSE r.status = "Open" /\ r.protocol = "Tcp"
  /\ LooksLike(stage, r)

HostUp(h) == AnyAnswer({r.status : r \in {q \in ToSet(summary) : q.host = h}})

\* The ports that enumerate_host goes through, for every host that is up; DNS
\* goes by hostname_targets instead.
Worklist(stage) ==
  IF stage = "dns" THEN cli.names
  ELSE Kept(summary, {r \in ToSet(summary) : HostUp(r.host) /\ Eligible(stage, r)})

-----------------------------------------------------------------------------
\* Where a probe is: a host's port.
Place(r) == <<r.host, r.port>>

\* make_finding: the id is put together from the stage, the kind and the place.
Finding(kind, place, severity, evidence) ==
  [id |-> <<pc, kind, place>>, severity |-> severity, evidence |-> evidence]

Found(stage, kind, place) ==
  {f \in ToSet(findings) : f.id = <<stage, kind, place>>}

At(stage, s) == pc = stage /\ step = s

\* The next port is due, and the first thing sent to it goes out.
Begins(stage) == At(stage, "idle") /\ todo # <<>>

Touch(who) == contacts' = contacts \cup {[who |-> who, by |-> pc]}

Saw(place, facts) == seen' = seen \cup {<<pc, place, fact>> : fact \in facts}

Happened(stage, place, fact) == <<stage, place, fact>> \in seen

\* The probe under way.
Here == Place(Head(todo))

Continue(s, locals) ==
  step' = s /\ local' = locals /\ UNCHANGED <<cli, pc, todo, summary, findings>>

Conclude(new) ==
  /\ findings' = findings \o new
  /\ todo' = Tail(todo) /\ step' = "idle" /\ local' = <<>>
  /\ UNCHANGED <<cli, pc, summary>>

\* The stage is done with a place, or never comes to it.
DoneWith(stage, place) ==
  ~(pc \in {stage, "killed"} /\ \E i \in DOMAIN todo : Place(todo[i]) = place)

-----------------------------------------------------------------------------
\* if cli.<stage> { ... } of main.rs.
EnterStage ==
  /\ pc \in StageSet /\ step = "enter"
  /\ IF pc \in cli.enumerate
     THEN step' = "idle" /\ todo' = Worklist(pc) /\ UNCHANGED pc
     ELSE pc' = After(pc) /\ UNCHANGED <<step, todo>>
  /\ UNCHANGED <<cli, local, summary, findings, contacts, seen>>

LeaveStage ==
  /\ pc \in StageSet /\ step = "idle" /\ todo = <<>>
  /\ pc' = After(pc) /\ step' = "enter"
  /\ UNCHANGED <<cli, todo, local, summary, findings, contacts, seen>>

=============================================================================
