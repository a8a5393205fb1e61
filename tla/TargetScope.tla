---------------------------- MODULE TargetScope ----------------------------
(***************************************************************************)
(* How the target strings of the command line become the addresses that    *)
(* are scanned (src/targets/resolver.rs), which of them the scope policy   *)
(* lets through (src/scope.rs), and, after the scan, which hostname each   *)
(* address is inspected under (hostname_ip_map), in the order main.rs runs *)
(* them.  The name service is asked twice and may answer differently.      *)
(***************************************************************************)
EXTENDS Lists, FiniteSets

CONSTANTS
  Given,         \* cli.targets, each already told apart by its form
  Scopes,        \* possible [allow, deny] lists: flag entries, then file lines
  Answers        \* what a lookup of each name may return, NoAnswer for an error

NoAnswer == <<>>

\* The forms of a target string.  WithPort: the "host:port" form.
Blank == [form |-> "blank"]
Address(ip) == [form |-> "addr", ip |-> ip]
Network(ips) == [form |-> "net", ips |-> ips]
Hostname(n) == [form |-> "name", name |-> n, port |-> FALSE]
WithPort(n) == [form |-> "name", name |-> n, port |-> TRUE]

\* A target string, and a scope entry: addresses are numbers.
TargetString ==
  [form : {"blank"}] \cup [form : {"addr"}, ip : Nat] \cup [form : {"net"}, ips : Seq(Nat)]
    \cup [form : {"name"}, name : DOMAIN Answers, port : BOOLEAN]

ScopeEntry == [form : {"blank", "bad"}] \cup [form : {"net"}, ips : Seq(Nat)]

ASSUME TargetScopeAssumption ==
  /\ Given \in Seq(TargetString)
  /\ \A name \in DOMAIN Answers : Answers[name] \subseteq Seq(Nat)
  /\ \A s \in Scopes : s.allow \in Seq(ScopeEntry) /\ s.deny \in Seq(ScopeEntry)

VARIABLES
  pc,            \* where main is
  scope,         \* the scope lists this run was given
  policy,        \* the ScopePolicy that was built
  next,          \* the target string to look at next
  resolved,      \* every address pushed to resolved_ips, repeats included
  sources,       \* history: which name each resolved address came from
  hosts,         \* the addresses to scan
  out_of_scope,  \* those the policy excluded
  looked_up,     \* history: what the second lookup of each name returned
  sni_map        \* the hostname to present to each address

vars == <<pc, scope, policy, next, resolved, sources, hosts, out_of_scope,
          looked_up, sni_map>>

-----------------------------------------------------------------------------
\* parse_entries: blank lines and comments are dropped, the rest are networks.
Entries(list) == Kept(list, {e \in ToSet(list) : e.form # "blank"})
Malformed(list) == \E i \in DOMAIN list : list[i].form = "bad"
Nets(list) == {e.ips : e \in ToSet(Entries(list))}

InSome(nets, ip) == \E net \in nets : ip \in ToSet(net)

\* Mutant: an allow entry overrides the denylist.
IsAllowedAllowFirst(pol, ip) ==
  \/ InSome(pol.allow, ip)
  \/ pol.allow = {} /\ ~InSome(pol.deny, ip)

IsAllowed(pol, ip) ==
  /\ ~InSome(pol.deny, ip)
  /\ pol.allow = {} \/ InSome(pol.allow, ip)

\* Mutant: the addresses are sorted before repeats are dropped.
SortDedup(s) == SetToSortSeq(ToSet(s), <)

\* Vec::dedup: drops an element equal to the one kept just before it, which
\* leaves the first of every run of equals.
Dedup(s) ==
  LET firsts == Kept([i \in DOMAIN s |-> i], {i \in DOMAIN s : i = 1 \/ s[i - 1] # s[i]})
  IN  [n \in DOMAIN firsts |-> s[firsts[n]]]

\* hostname_targets: the positions whose string is neither address nor CIDR.
HostnameTargets == {i \in DOMAIN Given : Given[i].form = "name"}

\* lookup_host(host:443): a target that carries a port of its own makes a
\* malformed query and fails.
HintLookups(i) == IF Given[i].port THEN {NoAnswer} ELSE Answers[Given[i].name]

\* Mutant: the last hostname wins (insert for or_insert_with).
HintsOverwriting(map, name, ips) ==
  [ip \in DOMAIN map \cup ToSet(ips) |-> IF ip \in ToSet(ips) THEN name ELSE map[ip]]

\* Mutant: what is kept is the string that was looked up, port and all.
HintsOfQueries(map, name, ips) ==
  [ip \in DOMAIN map \cup ToSet(ips) |-> IF ip \in DOMAIN map THEN map[ip] ELSE name \o ":443"]

\* map.entry(ip).or_insert_with(hostname) for every address of an answer.
Hints(map, name, ips) ==
  [ip \in DOMAIN map \cup ToSet(ips) |-> IF ip \in DOMAIN map THEN map[ip] ELSE name]

-----------------------------------------------------------------------------
Init ==
  /\ pc = "policy"
  /\ scope \in Scopes
  /\ policy = [allow |-> {}, deny |-> {}]
  /\ next = 1
  /\ resolved = <<>> /\ sources = {}
  /\ hosts = <<>> /\ out_of_scope = <<>>
  /\ looked_up = [i \in HostnameTargets |-> NoAnswer]
  /\ sni_map = <<>>

\* ScopePolicy::build; an entry that is neither address nor CIDR ends the run.
BuildPolicy ==
  /\ pc = "policy"
  /\ IF Malformed(scope.allow) \/ Malformed(scope.deny)
     THEN pc' = "exit" /\ UNCHANGED policy
     ELSE /\ pc' = "resolve"
          /\ policy' = [allow |-> Nets(scope.allow), deny |-> Nets(scope.deny)]
  /\ UNCHANGED <<scope, next, resolved, sources, hosts, out_of_scope, looked_up, sni_map>>

\* One target string that needs no lookup.
Expand ==
  /\ pc = "resolve" /\ next \in DOMAIN Given
  /\ Given[next].form # "name"
  /\ resolved' = resolved \o (CASE Given[next].form = "blank" -> <<>>
                                [] Given[next].form = "addr" -> <<Given[next].ip>>
                                [] Given[next].form = "net" -> Given[next].ips)
  /\ next' = next + 1
  /\ UNCHANGED <<pc, scope, policy, sources, hosts, out_of_scope, looked_up, sni_map>>

\* Mutant: a failed lookup is passed over.
LookUpSkipping ==
  /\ pc = "resolve" /\ next \in DOMAIN Given
  /\ Given[next].form = "name"
  /\ \E ips \in Answers[Given[next].name] :
       /\ resolved' = resolved \o ips
       /\ sources' = sources \cup {<<ip, next>> : ip \in ToSet(ips)}
  /\ next' = next + 1
  /\ UNCHANGED <<pc, scope, policy, hosts, out_of_scope, looked_up, sni_map>>

\* lookup_host of a hostname; an error or an empty answer ends the run.
LookUp ==
  /\ pc = "resolve" /\ next \in DOMAIN Given
  /\ Given[next].form = "name"
  /\ \E ips \in Answers[Given[next].name] :
       IF ips = NoAnswer
       THEN pc' = "exit" /\ UNCHANGED <<resolved, sources, next>>
       ELSE /\ resolved' = resolved \o ips
            /\ sources' = sources \cup {<<ip, next>> : ip \in ToSet(ips)}
            /\ next' = next + 1
            /\ UNCHANGED pc
  /\ UNCHANGED <<scope, policy, hosts, out_of_scope, looked_up, sni_map>>

\* resolved_ips.dedup(), the emptiness checks of main and partition.
Partition ==
  /\ pc = "resolve" /\ next > Len(Given)
  /\ LET deduped == Dedup(resolved)
         allowed == {ip \in ToSet(deduped) : IsAllowed(policy, ip)}
         inside == Kept(deduped, allowed)
     IN /\ hosts' = inside
        /\ out_of_scope' = Kept(deduped, ToSet(deduped) \ allowed)
        /\ IF inside = <<>> THEN pc' = "exit" /\ UNCHANGED next
           ELSE pc' = "scanned" /\ next' = 1
  /\ UNCHANGED <<scope, policy, resolved, sources, looked_up, sni_map>>

\* hostname_ip_map, one hostname at a time; a failed lookup is passed over.
MapHostname ==
  /\ pc = "scanned" /\ next \in HostnameTargets
  /\ \E ips \in HintLookups(next) :
       /\ sni_map' = Hints(sni_map, Given[next].name, ips)
       /\ looked_up' = [looked_up EXCEPT ![next] = ips]
  /\ next' = next + 1
  /\ UNCHANGED <<pc, scope, policy, resolved, sources, hosts, out_of_scope>>

\* hostname_targets has filtered this string out.
NotAHostname ==
  /\ pc = "scanned" /\ next \in DOMAIN Given \ HostnameTargets
  /\ next' = next + 1
  /\ UNCHANGED <<pc, scope, policy, resolved, sources, hosts, out_of_scope,
                 looked_up, sni_map>>

Inspect ==
  /\ pc = "scanned" /\ next > Len(Given)
  /\ pc' = "inspected"
  /\ UNCHANGED <<scope, policy, next, resolved, sources, hosts, out_of_scope,
                 looked_up, sni_map>>

Ended == pc \in {"exit", "inspected"} /\ UNCHANGED vars

Next ==
  \/ BuildPolicy \/ Expand \/ LookUp \/ Partition
  \/ MapHostname \/ NotAHostname \/ Inspect \/ Ended

\* One task runs all of this, and a lookup ends with an answer or an error.
Spec == Init /\ [][Next]_vars /\ WF_vars(Next)

-----------------------------------------------------------------------------
\* s is what is left of t when some of its elements are dropped.
IsSubsequence(s, t) ==
  \E kept \in kSubset(Len(s), DOMAIN t) :
    \A n \in DOMAIN s : \E i \in kept :
      s[n] = t[i] /\ Cardinality({k \in kept : k <= i}) = n

Started == pc \in {"scanned", "inspected"}

TypeOK ==
  /\ pc \in {"policy", "resolve", "scanned", "inspected", "exit"}
  /\ next \in 1..(Len(Given) + 1)
  /\ ToSet(hosts) \cup ToSet(out_of_scope) \subseteq ToSet(resolved)
  /\ \A src \in sources : src[1] \in ToSet(resolved) /\ src[2] \in HostnameTargets
  /\ \A ip \in DOMAIN sni_map : \E i \in HostnameTargets : sni_map[ip] = Given[i].name

(* What scope.rs:7 promises: nothing inside a deny entry is scanned, and if *)
(* any allow entry was given nothing outside all of them is, wherever the   *)
(* entry stood (flag or file) and however the address was named.            *)
ScopeRespected ==
  Started =>
    \A ip \in ToSet(hosts) :
      /\ \A e \in ToSet(Entries(scope.deny)) : ip \notin ToSet(e.ips)
      /\ Entries(scope.allow) # <<>> =>
           \E e \in ToSet(Entries(scope.allow)) : ip \in ToSet(e.ips)

(* Removing repeats and splitting by scope keep the order the targets were  *)
(* given in, and account for every resolved address (resolver.rs:64).       *)
OrderKeptNothingLost ==
  Started =>
    /\ IsSubsequence(hosts, resolved)
    /\ IsSubsequence(out_of_scope, resolved)
    /\ ToSet(hosts) \cup ToSet(out_of_scope) = ToSet(resolved)
    /\ ToSet(hosts) \cap ToSet(out_of_scope) = {}

(* Resolution is all or nothing: the scan starts only if every hostname     *)
(* that was given resolved to at least one address.                         *)
EveryTargetResolved ==
  Started => \A i \in HostnameTargets : \E src \in sources : src[2] = i

(* The hint for an address is the first given hostname whose second lookup  *)
(* returned it, and every address so returned has one, whatever the answers *)
(* of the first lookup were.                                                *)
HintsFollowLookups ==
  pc = "inspected" =>
    /\ DOMAIN sni_map = UNION {ToSet(looked_up[i]) : i \in HostnameTargets}
    /\ \A ip \in DOMAIN sni_map :
         \E i \in HostnameTargets :
           /\ ip \in ToSet(looked_up[i])
           /\ sni_map[ip] = Given[i].name
           /\ \A k \in HostnameTargets : k < i => ip \notin ToSet(looked_up[k])

(* The comment of resolver.rs:64: the resolved list is de-duplicated.       *)
NoTargetTwice == Started => \A i, j \in DOMAIN hosts : hosts[i] = hosts[j] => i = j

=============================================================================
