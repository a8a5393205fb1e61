-------------------------------- MODULE Snmp --------------------------------
(***************************************************************************)
(* probe_port of src/enumeration/snmp.rs: both default communities are     *)
(* tried with a GET of sysDescr; the first one that gets a value is used   *)
(* for sysName and for a walk of the interface table.                      *)
(*                                                                         *)
(* An interface is its row of the table, and the agent need not be honest: *)
(* it may answer a GETNEXT with any row.                                   *)
(***************************************************************************)
EXTENDS EnumStage

CONSTANTS
  InterfaceRows,   \* how many rows an agent's interface table may have
  MaxInterfaces    \* MAX_INTERFACES

ASSUME SnmpAssumption == InterfaceRows \subseteq Nat /\ MaxInterfaces \in Nat \ {0}

COMMUNITY_STRINGS == <<"public", "private">>

\* What a request for one object may come to.  A response without a value
\* (noSuchObject, or no binding at all) is None to get_value_string, as silence is.
Outcomes == {"silence", "valueless", "value"}

Community == COMMUNITY_STRINGS[local.c]

SnmpFinding(kind, severity, evidence) == <<Finding(kind, Here, severity, evidence)>>

\* Mutant: a community that fails is tried again after the other one.
NextCommunityRetrying(found, gathered) ==
  IF local.c = 2 /\ gathered THEN Conclude(found)
  ELSE Continue("get", [c |-> 3 - local.c, found |-> found, gathered |-> gathered])

\* The loop over the communities goes on, or the port is done.
NextCommunity(found, gathered) ==
  IF local.c = Len(COMMUNITY_STRINGS) THEN Conclude(found)
  ELSE Continue("get", [c |-> local.c + 1, found |-> found, gathered |-> gathered])

-----------------------------------------------------------------------------
SnmpBegin ==
  /\ Begins("snmp")
  /\ Touch(Head(todo).host)
  /\ Continue("get", [c |-> 1, found |-> <<>>, gathered |-> FALSE])
  /\ UNCHANGED seen

\* Mutant: the details are gathered for every community that works.
SnmpGetAgain ==
  /\ At("snmp", "get")
  /\ \E outcome \in Outcomes :
       /\ Saw(Here, IF outcome = "silence" THEN {} ELSE {<<outcome, Community>>})
       /\ LET found == local.found \o SnmpFinding("community", "High", Community) IN
          IF outcome # "value" THEN NextCommunity(local.found, local.gathered)
          ELSE Continue("name", [c |-> local.c, gathered |-> TRUE, found |->
                                   found \o SnmpFinding("sysdescr", "Info", "descr")])
  /\ UNCHANGED contacts

\* A session that cannot be opened sends nothing; it is a silence too.
SnmpGet ==
  /\ At("snmp", "get")
  /\ \E outcome \in Outcomes :
       /\ Saw(Here, IF outcome = "silence" THEN {} ELSE {<<outcome, Community>>})
       /\ LET found == local.found \o SnmpFinding("community", "High", Community) IN
          IF outcome # "value" THEN NextCommunity(local.found, local.gathered)
          ELSE IF local.gathered THEN NextCommunity(found, TRUE)
          ELSE Continue("name", [c |-> local.c, gathered |-> TRUE, found |->
                                   found \o SnmpFinding("sysdescr", "Info", "descr")])
  /\ UNCHANGED contacts

\* sysName, or none, and the table that is about to be walked.
SnmpName ==
  /\ At("snmp", "name")
  /\ \E name \in {<<>>, SnmpFinding("sysname", "Info", "name")}, rows \in InterfaceRows :
       /\ Continue("walk", [c |-> local.c, gathered |-> TRUE, found |-> local.found \o name,
                            rows |-> rows, current |-> 0, names |-> <<>>])
       /\ Saw(Here, {<<"rows", rows>>})
  /\ UNCHANGED contacts

EndWalk ==
  NextCommunity(local.found \o
                  (IF local.names = <<>> THEN <<>>
                   ELSE SnmpFinding("interfaces", "Info", local.names)), TRUE)

\* Mutant: the cap is not applied.
SnmpWalkUncapped ==
  /\ At("snmp", "walk")
  /\ \/ EndWalk /\ UNCHANGED seen
     \/ \E row \in 1..local.rows :
          /\ Len(local.names) < 3 * MaxInterfaces
          /\ Continue("walk", [local EXCEPT !.current = row, !.names = Append(@, row)])
          /\ Saw(Here, IF row = local.current + 1 THEN {} ELSE {<<"strayed">>})
  /\ UNCHANGED contacts

\* One GETNEXT of walk_interfaces.  Past the last row the agent leaves the
\* subtree or signals the end of the view; it may do so too early, or not answer.
SnmpWalk ==
  /\ At("snmp", "walk")
  /\ \/ /\ Len(local.names) = MaxInterfaces
        /\ EndWalk /\ UNCHANGED seen
     \/ /\ Len(local.names) < MaxInterfaces
        /\ EndWalk
        /\ Saw(Here, IF local.current = local.rows THEN {} ELSE {<<"broke off">>})
     \/ \E row \in 1..local.rows :
          /\ Len(local.names) < MaxInterfaces
          /\ Continue("walk", [local EXCEPT !.current = row, !.names = Append(@, row)])
          /\ Saw(Here, IF row = local.current + 1 THEN {} ELSE {<<"strayed">>})
  /\ UNCHANGED contacts

SnmpStep == SnmpBegin \/ SnmpGet \/ SnmpName \/ SnmpWalk

-----------------------------------------------------------------------------
SnmpLocals ==
  pc = "snmp" /\ step \notin {"enter", "idle"} =>
    /\ step \in {"get", "name", "walk"}
    /\ local.c \in DOMAIN COMMUNITY_STRINGS
    /\ step = "walk" => /\ local.current \in 0..local.rows
                        /\ Len(local.names) <= MaxInterfaces

(* When a port is done, every community whose GET brought a value is        *)
(* reported and none whose GETs were never answered (of an answer without a *)
(* value snmp.rs:87-89 and the code say different things); the description  *)
(* is there if one of them works, no more often than the port is in the     *)
(* summary, however many of them work; and the interfaces are the first     *)
(* rows of the table, as many as the cap lets through: fewer only where the *)
(* walk broke off, others only where the agent strayed, more never          *)
(* (snmp.rs:149-152).                                                       *)
SnmpAsAnswered ==
  \A r \in ToSet(summary) :
    LET p == Place(r)
        Asked(outcome) == {c \in ToSet(COMMUNITY_STRINGS) : Happened("snmp", p, <<outcome, c>>)}
        Evidence(kind) == {f.evidence : f \in Found("snmp", kind, p)}
        Count(kind) == Cardinality({i \in DOMAIN findings : findings[i].id = <<"snmp", kind, p>>})
    IN DoneWith("snmp", p) =>
         /\ Asked("value") \subseteq Evidence("community")
         /\ Evidence("community") \subseteq Asked("value") \cup Asked("valueless")
         /\ Evidence("sysdescr") = {} <=> Asked("value") = {}
         /\ Count("sysdescr") <= Cardinality({i \in DOMAIN summary : Place(summary[i]) = p})
         /\ Count("sysname") <= Count("sysdescr")
         /\ Count("interfaces") <= Count("sysdescr")
         /\ \A names \in Evidence("interfaces") :
              /\ Len(names) <= MaxInterfaces
              /\ ~Happened("snmp", p, <<"strayed">>) =>
                   /\ names = [i \in 1..Len(names) |-> i]
                   /\ ~Happened("snmp", p, <<"broke off">>) =>
                        \/ Happened("snmp", p, <<"rows", Len(names)>>)
                        \/ Len(names) = MaxInterfaces

(* snmp.rs:87-89: that a GET completes before it times out is itself the    *)
(* sign that its community string was accepted, whatever the answer holds.  *)
CompletedGetAccepts ==
  \A r \in ToSet(summary), c \in ToSet(COMMUNITY_STRINGS) :
    DoneWith("snmp", Place(r)) /\ Happened("snmp", Place(r), <<"valueless", c>>) =>
      \E f \in Found("snmp", "community", Place(r)) : f.evidence = c

=============================================================================
