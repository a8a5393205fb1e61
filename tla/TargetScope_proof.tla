------------------------- MODULE TargetScope_proof -------------------------
(***************************************************************************)
(* Proofs of the invariants of TargetScope, for every list of targets,     *)
(* every scope and every answer of the name service.                       *)
(***************************************************************************)
EXTENDS TargetScope, Lists_proof, FiniteSetTheorems

-----------------------------------------------------------------------------
\* What is picked out in order is a subsequence.
LEMMA PickedIsSubsequence ==
  ASSUME NEW E, NEW s \in Seq(E), NEW t \in Seq(E), NEW at, Picks(at, s, t, Len(t))
  PROVE  IsSubsequence(s, t)
<1> DEFINE L == Len(s)
           kept == {at[i] : i \in 1..L}
<1>1. L \in Nat /\ Len(t) \in Nat /\ DOMAIN s = 1..L /\ DOMAIN t = 1..Len(t)
  OBVIOUS
<1>2. /\ \A i \in 1..L : at[i] \in 1..Len(t)
      /\ \A i, j \in 1..L : i < j => at[i] < at[j]
      /\ \A i \in 1..L : s[i] = t[at[i]]
  BY DEF Picks
<1> HIDE DEF L
<1>3. \A i, j \in 1..L : at[i] <= at[j] <=> i <= j
  <2> SUFFICES ASSUME NEW i \in 1..L, NEW j \in 1..L PROVE at[i] <= at[j] <=> i <= j
    OBVIOUS
  <2>1. i < j \/ i = j \/ j < i
    BY <1>1
  <2> QED BY <1>1, <1>2, <2>1
<1>4. \A n \in 0..L : Cardinality({at[i] : i \in 1..n}) = n
  <2> SUFFICES ASSUME NEW n \in 0..L PROVE Cardinality({at[i] : i \in 1..n}) = n
    OBVIOUS
  <2> DEFINE U == {at[i] : i \in 1..n}
             b == [i \in 1..n |-> at[i]]
  <2>1. \A i \in 1..n : i \in 1..L
    BY <1>1
  <2>2. \A i, j \in 1..n : at[i] = at[j] => i = j
    <3> SUFFICES ASSUME NEW i \in 1..n, NEW j \in 1..n, at[i] = at[j] PROVE i = j
      OBVIOUS
    <3>1. i <= j /\ j <= i
      BY <1>1, <1>2, <1>3, <2>1
    <3> QED BY <3>1
  <2>3. b \in Bijection(1..n, U)
    BY <2>2 DEF Bijection, Injection, Surjection, IsInjective
  <2> HIDE DEF U
  <2>4. IsFiniteSet(1..n) /\ Cardinality(1..n) = n
    <3>1. n \in Int /\ 1 \in Int /\ (1 > n => n = 0)
      BY <1>1
    <3>2. IsFiniteSet(1..n) /\ Cardinality(1..n) = IF 1 > n THEN 0 ELSE n - 1 + 1
      BY <3>1, FS_Interval
    <3> QED BY <3>1, <3>2
  <2>5. Cardinality(U) = Cardinality(1..n)
    BY <2>3, <2>4, FS_Bijection DEF ExistsBijection
  <2> QED BY <2>4, <2>5 DEF U
<1>5. kept \in kSubset(L, DOMAIN t)
  BY <1>1, <1>2, <1>4 DEF kSubset
<1>6. ASSUME NEW n \in 1..L
      PROVE  at[n] \in kept /\ Cardinality({k \in kept : k <= at[n]}) = n
  <2>1. {k \in kept : k <= at[n]} = {at[i] : i \in 1..n}
    BY <1>1, <1>3
  <2> QED BY <1>1, <1>4, <2>1
<1>7. \A n \in DOMAIN s : \E i \in kept :
        s[n] = t[i] /\ Cardinality({k \in kept : k <= i}) = n
  <2> HIDE DEF kept
  <2> QED BY <1>1, <1>2, <1>6
<1> HIDE DEF kept
<1> QED BY <1>5, <1>7 DEF IsSubsequence, L

\* dedup keeps every value, in the order of the list.
LEMMA DedupProperties ==
  ASSUME NEW E, NEW s \in Seq(E)
  PROVE  /\ Dedup(s) \in Seq(E)
         /\ ToSet(Dedup(s)) = ToSet(s)
         /\ \E at : Picks(at, Dedup(s), s, Len(s))
<1> DEFINE N == Len(s)
           places == [i \in DOMAIN s |-> i]
           S == {i \in DOMAIN s : i = 1 \/ s[i - 1] # s[i]}
           firsts == Kept(places, S)
<1>1. N \in Nat /\ DOMAIN s = 1..N
  OBVIOUS
<1>2. places \in Seq(1..N) /\ Len(places) = N /\ \A i \in 1..N : places[i] = i
  BY <1>1
<1>3. ToSet(places) = 1..N
  BY <1>1, <1>2 DEF ToSet
<1>4. S \subseteq 1..N
  BY <1>1
<1> HIDE DEF places, N
<1>5. PICK at : Picks(at, firsts, places, N)
  BY <1>2, KeptProperties
<1>6. firsts \in Seq(1..N) /\ ToSet(firsts) = S
  <2> HIDE DEF S
  <2>1. firsts \in Seq(1..N) /\ ToSet(firsts) = ToSet(places) \cap S
    BY <1>2, KeptProperties
  <2> QED BY <1>3, <1>4, <2>1
<1>7. Dedup(s) = [n \in DOMAIN firsts |-> s[firsts[n]]]
  BY DEF Dedup, places
<1> HIDE DEF firsts, S
<1>8. DOMAIN firsts = 1..Len(firsts) /\ Len(firsts) \in Nat
  BY <1>6
<1>9. \A n \in 1..Len(firsts) : firsts[n] = at[n] /\ firsts[n] \in 1..N
  BY <1>2, <1>5 DEF Picks
<1>10. \A n \in 1..N : s[n] \in E
  BY DEF N
<1>11. Dedup(s) \in Seq(E) /\ Len(Dedup(s)) = Len(firsts)
  BY <1>7, <1>8, <1>9, <1>10
<1>12. Picks(firsts, Dedup(s), s, N)
  <2>1. firsts \in [1..Len(firsts) -> 1..N]
    <3> DEFINE P == 1..N
    <3>1. firsts \in Seq(P)
      BY <1>6
    <3> HIDE DEF P
    <3>2. firsts \in [1..Len(firsts) -> P]
      BY <3>1
    <3> QED BY <3>2 DEF P
  <2>2. \A i, j \in 1..Len(firsts) : i < j => firsts[i] < firsts[j]
    BY <1>5, <1>9 DEF Picks
  <2>3. \A i \in 1..Len(firsts) : Dedup(s)[i] = s[firsts[i]]
    BY <1>7, <1>8
  <2> QED BY <1>11, <2>1, <2>2, <2>3 DEF Picks
<1>13. ToSet(Dedup(s)) = {s[i] : i \in S}
  <2>1. ToSet(Dedup(s)) = {s[firsts[n]] : n \in DOMAIN firsts}
    BY <1>7 DEF ToSet
  <2>2. S = {firsts[n] : n \in DOMAIN firsts}
    BY <1>6 DEF ToSet
  <2> QED BY <2>1, <2>2
<1>14. {s[i] : i \in S} = {s[i] : i \in 1..N}
  <2> DEFINE T == {n \in 0..N : n = 0 \/ s[n] \in {s[i] : i \in S}}
  <2>1. 0 \in T
    BY <1>1
  <2>2. ASSUME NEW n \in 1..N, n - 1 \in T PROVE n \in T
    <3>1. n \in S \/ (n # 1 /\ s[n - 1] = s[n])
      BY <1>1 DEF S
    <3> QED BY <1>1, <2>2, <3>1
  <2> HIDE DEF T
  <2>3. 0..N \subseteq T
    BY <1>1, <2>1, <2>2, InductionUpTo
  <2>4. \A n \in 1..N : n \in T /\ n # 0
    BY <1>1, <2>3
  <2>5. \A n \in 1..N : s[n] \in {s[i] : i \in S}
    BY <2>4 DEF T
  <2> QED BY <1>4, <2>5
<1>15. ToSet(s) = {s[i] : i \in 1..N}
  BY <1>1, Zenon DEF ToSet
<1> QED BY <1>11, <1>12, <1>13, <1>14, <1>15 DEF N

\* What dedup and partition make of a list: two subsequences that share
\* nothing and leave nothing out.
LEMMA PartitionProperties ==
  ASSUME NEW r \in Seq(Nat), NEW A
  PROVE  LET D == Dedup(r)
             inside == Kept(D, A)
             outside == Kept(D, ToSet(D) \ A)
         IN  /\ inside \in Seq(Nat) /\ outside \in Seq(Nat)
             /\ IsSubsequence(inside, r) /\ IsSubsequence(outside, r)
             /\ ToSet(inside) = ToSet(r) \cap A
             /\ ToSet(outside) = ToSet(r) \ A
<1> DEFINE D == Dedup(r)
<1>1. D \in Seq(Nat) /\ ToSet(D) = ToSet(r) /\ \E at : Picks(at, D, r, Len(r))
  BY DedupProperties
<1> HIDE DEF D
<1>2. ASSUME NEW S
      PROVE  /\ Kept(D, S) \in Seq(Nat) /\ IsSubsequence(Kept(D, S), r)
             /\ ToSet(Kept(D, S)) = ToSet(r) \cap S
  <2> DEFINE K == Kept(D, S)
  <2>1. K \in Seq(Nat) /\ ToSet(K) = ToSet(D) \cap S
    BY <1>1, KeptProperties
  <2>2. \E at : Picks(at, K, D, Len(D))
    BY <1>1, KeptProperties
  <2> HIDE DEF K
  <2>3. Len(K) \in Nat /\ Len(D) \in Nat /\ Len(r) \in Nat
    BY <1>1, <2>1
  <2>4. \E at : Picks(at, K, r, Len(r))
    BY <1>1, <2>2, <2>3, PicksCompose
  <2>5. IsSubsequence(K, r)
    BY <2>1, <2>4, PickedIsSubsequence
  <2> QED BY <1>1, <2>1, <2>5 DEF K
<1>3. ToSet(r) \cap (ToSet(D) \ A) = ToSet(r) \ A
  BY <1>1
<1> QED BY <1>2, <1>3 DEF D

\* The entries of a scope list are the lines that are not blank.
LEMMA EntriesProperties ==
  ASSUME NEW list \in Seq(ScopeEntry)
  PROVE  Entries(list) # <<>> => \E e : e \in ToSet(Entries(list))
<1>1. Entries(list) \in Seq(ScopeEntry)
  BY KeptProperties DEF Entries
<1> DEFINE E == Entries(list)
<1> HIDE DEF E
<1>2. E \in Seq(ScopeEntry)
  BY <1>1 DEF E
<1>3. E # <<>> => 1 \in DOMAIN E /\ E[1] \in ToSet(E)
  BY <1>2 DEF ToSet
<1> QED BY <1>3 DEF E

-----------------------------------------------------------------------------
(***************************************************************************)
(* The inductive invariant.                                                *)
(***************************************************************************)
Shape ==
  /\ scope \in Scopes
  /\ resolved \in Seq(Nat) /\ hosts \in Seq(Nat) /\ out_of_scope \in Seq(Nat)
  /\ looked_up \in [HostnameTargets -> Seq(Nat)]
  /\ pc = "policy" => next = 1

\* The policy is the one the lists describe, and it decided about the hosts.
PolicyApplied ==
  /\ pc \in {"resolve", "scanned", "inspected"} =>
       policy = [allow |-> Nets(scope.allow), deny |-> Nets(scope.deny)]
  /\ Started => \A ip \in ToSet(hosts) : IsAllowed(policy, ip)

\* Every hostname passed so far has left an address.
ResolvedSoFar ==
  /\ pc = "resolve" => \A i \in HostnameTargets : i < next => \E src \in sources : src[2] = i
  /\ Started => \A i \in HostnameTargets : \E src \in sources : src[2] = i

\* The hints are right for the lookups made so far, in any state.
HintsRight ==
  /\ DOMAIN sni_map = UNION {ToSet(looked_up[i]) : i \in HostnameTargets}
  /\ \A ip \in DOMAIN sni_map :
       \E i \in HostnameTargets :
         /\ ip \in ToSet(looked_up[i])
         /\ sni_map[ip] = Given[i].name
         /\ \A k \in HostnameTargets : k < i => ip \notin ToSet(looked_up[k])

\* A name that is not due yet has not been looked up a second time.
NotYetLookedUp ==
  \A i \in HostnameTargets :
    (pc \in {"policy", "resolve"} \/ (pc = "scanned" /\ next <= i)) => looked_up[i] = <<>>

IInv ==
  /\ TypeOK /\ Shape /\ PolicyApplied /\ ResolvedSoFar
  /\ HintsRight /\ NotYetLookedUp /\ OrderKeptNothingLost

LEMMA InitInv == Init => IInv
<1> SUFFICES ASSUME Init PROVE IInv
  OBVIOUS
<1> USE DEF Init
<1>1. ToSet(<<>>) = {}
  BY DEF ToSet
<1>2. Len(Given) \in Nat /\ DOMAIN sni_map = {}
  BY TargetScopeAssumption
<1>3. TypeOK
  BY <1>1, <1>2 DEF TypeOK
<1>4. Shape
  BY DEF Shape, NoAnswer
<1>5. PolicyApplied /\ ResolvedSoFar /\ OrderKeptNothingLost
  BY DEF PolicyApplied, ResolvedSoFar, OrderKeptNothingLost, Started
<1>6. NotYetLookedUp
  BY DEF NotYetLookedUp, NoAnswer
<1>7. HintsRight
  <2>1. DOMAIN sni_map = {}
    OBVIOUS
  <2>2. \A i \in HostnameTargets : ToSet(looked_up[i]) = {}
    BY <1>1 DEF NoAnswer
  <2>3. UNION {ToSet(looked_up[i]) : i \in HostnameTargets} = {}
    BY <2>2
  <2> QED BY <2>1, <2>3 DEF HintsRight
<1> QED BY <1>3, <1>4, <1>5, <1>6, <1>7 DEF IInv

\* Nothing the hints are about changes.
LEMMA HintsKept ==
  ASSUME HintsRight, UNCHANGED <<looked_up, sni_map>>
  PROVE  HintsRight'
BY DEF HintsRight

\* Outside resolution and its end, the lists of addresses are left alone.
LEMMA HostsKept ==
  ASSUME OrderKeptNothingLost, Started' => Started, UNCHANGED <<hosts, out_of_scope, resolved>>
  PROVE  OrderKeptNothingLost'
BY DEF OrderKeptNothingLost

LEMMA BuildPolicyInv == IInv /\ BuildPolicy => IInv'
<1> SUFFICES ASSUME IInv, BuildPolicy PROVE IInv'
  OBVIOUS
<1> USE DEF IInv, BuildPolicy
<1>1. TypeOK' /\ Shape'
  BY DEF TypeOK, Shape
<1>2. PolicyApplied' /\ ResolvedSoFar'
  <2>1. ~Started'
    BY DEF Started
  <2>2. pc' = "resolve" => policy' = [allow |-> Nets(scope'.allow), deny |-> Nets(scope'.deny)]
    OBVIOUS
  <2>3. \A i \in HostnameTargets : ~(i < next')
    BY TargetScopeAssumption DEF HostnameTargets, Shape
  <2> QED BY <2>1, <2>2, <2>3 DEF PolicyApplied, ResolvedSoFar, Started
<1>3. HintsRight'
  BY HintsKept
<1>4. NotYetLookedUp'
  BY DEF NotYetLookedUp
<1>5. OrderKeptNothingLost'
  BY DEF OrderKeptNothingLost, Started
<1> QED BY <1>1, <1>2, <1>3, <1>4, <1>5

\* More addresses are resolved: what all kinds of target string have in common.
LEMMA ResolveInv ==
  ASSUME IInv, pc = "resolve", next \in DOMAIN Given, NEW added \in Seq(Nat),
         resolved' = resolved \o added, next' = next + 1,
         sources' = sources \cup IF next \in HostnameTargets
                                 THEN {<<ip, next>> : ip \in ToSet(added)} ELSE {},
         next \in HostnameTargets => added # <<>>,
         UNCHANGED <<pc, scope, policy, hosts, out_of_scope, looked_up, sni_map>>
  PROVE  IInv'
<1> USE DEF IInv
<1>1. resolved' \in Seq(Nat) /\ ToSet(resolved') = ToSet(resolved) \cup ToSet(added)
  BY ConcatElements DEF Shape
<1>2. TypeOK'
  BY <1>1, TargetScopeAssumption DEF TypeOK
<1>3. Shape'
  BY <1>1 DEF Shape
<1>4. PolicyApplied'
  BY DEF PolicyApplied, Started
<1>5. ResolvedSoFar'
  <2>1. ASSUME NEW i \in HostnameTargets, i < next' PROVE \E src \in sources' : src[2] = i
    <3>1. CASE i = next
      <4>1. 1 \in DOMAIN added /\ added[1] \in ToSet(added)
        BY <3>1 DEF ToSet
      <4>2. <<added[1], next>> \in sources'
        BY <3>1, <4>1
      <4> QED BY <3>1, <4>2
    <3>2. CASE i # next
      <4>1. i < next
        BY <2>1, <3>2, TargetScopeAssumption DEF HostnameTargets, TypeOK
      <4> QED BY <4>1 DEF ResolvedSoFar
    <3> QED BY <3>1, <3>2
  <2>2. ~Started'
    BY DEF Started
  <2> QED BY <2>1, <2>2 DEF ResolvedSoFar
<1>6. HintsRight'
  BY HintsKept
<1>7. NotYetLookedUp'
  BY DEF NotYetLookedUp
<1>8. OrderKeptNothingLost'
  BY DEF OrderKeptNothingLost, Started
<1> QED BY <1>2, <1>3, <1>4, <1>5, <1>6, <1>7, <1>8

LEMMA ExpandInv == IInv /\ Expand => IInv'
<1> SUFFICES ASSUME IInv, Expand PROVE IInv'
  OBVIOUS
<1> DEFINE added == CASE Given[next].form = "blank" -> <<>>
                      [] Given[next].form = "addr" -> <<Given[next].ip>>
                      [] Given[next].form = "net" -> Given[next].ips
<1>1. Given[next] \in TargetString /\ Given[next].form # "name"
  BY TargetScopeAssumption DEF Expand
<1>2. added \in Seq(Nat)
  BY <1>1 DEF TargetString
<1>3. next \notin HostnameTargets
  BY <1>1 DEF HostnameTargets
<1>4. resolved' = resolved \o added
  BY DEF Expand
<1> HIDE DEF added
<1>5. sources' = sources \cup IF next \in HostnameTargets
                              THEN {<<ip, next>> : ip \in ToSet(added)} ELSE {}
  BY <1>3 DEF Expand
<1> QED BY <1>2, <1>3, <1>4, <1>5, ResolveInv DEF Expand

LEMMA LookUpInv == IInv /\ LookUp => IInv'
<1> SUFFICES ASSUME IInv, LookUp PROVE IInv'
  OBVIOUS
<1>1. next \in HostnameTargets /\ Given[next].name \in DOMAIN Answers
  <2>1. Given[next] \in TargetString
    BY TargetScopeAssumption DEF LookUp
  <2> QED BY <2>1 DEF LookUp, HostnameTargets, TargetString
<1>2. PICK ips \in Answers[Given[next].name] :
        IF ips = NoAnswer
        THEN pc' = "exit" /\ UNCHANGED <<resolved, sources, next>>
        ELSE /\ resolved' = resolved \o ips
             /\ sources' = sources \cup {<<ip, next>> : ip \in ToSet(ips)}
             /\ next' = next + 1
             /\ UNCHANGED pc
  BY DEF LookUp
<1>3. ips \in Seq(Nat)
  BY <1>1, TargetScopeAssumption
<1>4. CASE ips = NoAnswer
  <2> USE DEF IInv
  <2>1. pc' = "exit" /\ UNCHANGED <<resolved, sources, next, scope, policy, hosts, out_of_scope,
                                    looked_up, sni_map>>
    BY <1>2, <1>4 DEF LookUp
  <2>2. TypeOK' /\ Shape'
    BY <2>1 DEF TypeOK, Shape
  <2>3. PolicyApplied' /\ ResolvedSoFar' /\ OrderKeptNothingLost'
    BY <2>1 DEF PolicyApplied, ResolvedSoFar, OrderKeptNothingLost, Started
  <2>4. HintsRight' /\ NotYetLookedUp'
    BY <2>1, HintsKept DEF NotYetLookedUp
  <2> QED BY <2>2, <2>3, <2>4
<1>5. CASE ips # NoAnswer
  <2>1. /\ resolved' = resolved \o ips /\ next' = next + 1 /\ ips # <<>>
        /\ sources' = sources \cup IF next \in HostnameTargets
                                   THEN {<<ip, next>> : ip \in ToSet(ips)} ELSE {}
        /\ UNCHANGED <<pc, scope, policy, hosts, out_of_scope, looked_up, sni_map>>
    BY <1>1, <1>2, <1>5 DEF LookUp, NoAnswer
  <2> QED BY <1>3, <2>1, ResolveInv DEF LookUp
<1> QED BY <1>4, <1>5

LEMMA PartitionInv == IInv /\ Partition => IInv'
<1> SUFFICES ASSUME IInv, Partition PROVE IInv'
  OBVIOUS
<1> USE DEF IInv
<1> DEFINE deduped == Dedup(resolved)
           allowed == {ip \in ToSet(deduped) : IsAllowed(policy, ip)}
           inside == Kept(deduped, allowed)
           outside == Kept(deduped, ToSet(deduped) \ allowed)
<1>1. /\ hosts' = inside /\ out_of_scope' = outside
      /\ \/ pc' = "exit" /\ UNCHANGED next
         \/ pc' = "scanned" /\ next' = 1
      /\ UNCHANGED <<scope, policy, resolved, sources, looked_up, sni_map>>
      /\ pc = "resolve" /\ next > Len(Given)
  BY DEF Partition
<1>2. /\ inside \in Seq(Nat) /\ outside \in Seq(Nat)
      /\ IsSubsequence(inside, resolved) /\ IsSubsequence(outside, resolved)
      /\ ToSet(inside) = ToSet(resolved) \cap allowed
      /\ ToSet(outside) = ToSet(resolved) \ allowed
  BY PartitionProperties DEF Shape
<1>3. \A ip \in allowed : IsAllowed(policy, ip)
  OBVIOUS
<1> HIDE DEF inside, outside, allowed, deduped
<1>4. TypeOK'
  BY <1>1, <1>2, TargetScopeAssumption DEF TypeOK
<1>5. Shape'
  BY <1>1, <1>2 DEF Shape
<1>6. PolicyApplied'
  <2>1. \A ip \in ToSet(hosts') : IsAllowed(policy', ip)
    BY <1>1, <1>2, <1>3
  <2>2. policy' = [allow |-> Nets(scope'.allow), deny |-> Nets(scope'.deny)]
    BY <1>1 DEF PolicyApplied
  <2> QED BY <2>1, <2>2 DEF PolicyApplied
<1>7. ResolvedSoFar'
  <2>1. \A i \in HostnameTargets : i < next
    BY <1>1, TargetScopeAssumption DEF HostnameTargets, TypeOK
  <2>2. \A i \in HostnameTargets : \E src \in sources' : src[2] = i
    BY <1>1, <2>1 DEF ResolvedSoFar
  <2> QED BY <1>1, <2>2 DEF ResolvedSoFar
<1>8. HintsRight'
  BY <1>1, HintsKept
<1>9. NotYetLookedUp'
  BY <1>1 DEF NotYetLookedUp
<1>10. OrderKeptNothingLost'
  <2>1. /\ IsSubsequence(hosts', resolved') /\ IsSubsequence(out_of_scope', resolved')
        /\ ToSet(hosts') \cup ToSet(out_of_scope') = ToSet(resolved')
        /\ ToSet(hosts') \cap ToSet(out_of_scope') = {}
    BY <1>1, <1>2
  <2> QED BY <2>1 DEF OrderKeptNothingLost
<1> QED BY <1>4, <1>5, <1>6, <1>7, <1>8, <1>9, <1>10

LEMMA MapHostnameInv == IInv /\ MapHostname => IInv'
<1> SUFFICES ASSUME IInv, MapHostname PROVE IInv'
  OBVIOUS
<1> USE DEF IInv
<1>1. PICK ips \in HintLookups(next) :
        /\ sni_map' = Hints(sni_map, Given[next].name, ips)
        /\ looked_up' = [looked_up EXCEPT ![next] = ips]
  BY DEF MapHostname
<1>2. /\ pc = "scanned" /\ next \in HostnameTargets /\ next' = next + 1
      /\ UNCHANGED <<pc, scope, policy, resolved, sources, hosts, out_of_scope>>
  BY DEF MapHostname
<1>3. ips \in Seq(Nat)
  <2>1. Given[next] \in TargetString /\ Given[next].form = "name"
    BY <1>2, TargetScopeAssumption DEF HostnameTargets
  <2>2. Given[next].name \in DOMAIN Answers
    BY <2>1 DEF TargetString
  <2>3. HintLookups(next) = {NoAnswer} \/ HintLookups(next) = Answers[Given[next].name]
    BY DEF HintLookups
  <2>4. NoAnswer \in Seq(Nat)
    BY DEF NoAnswer
  <2> QED BY <2>2, <2>3, <2>4, TargetScopeAssumption
<1>4. TypeOK'
  <2>1. \A ip \in DOMAIN sni_map' : \E i \in HostnameTargets : sni_map'[ip] = Given[i].name
    BY <1>1, <1>2 DEF Hints, TypeOK
  <2> QED BY <1>2, <2>1, TargetScopeAssumption DEF TypeOK, HostnameTargets
<1>5. Shape'
  BY <1>1, <1>2, <1>3 DEF Shape
<1>6. PolicyApplied' /\ ResolvedSoFar' /\ OrderKeptNothingLost'
  BY <1>2 DEF PolicyApplied, ResolvedSoFar, OrderKeptNothingLost, Started
<1>7. /\ looked_up'[next] = ips /\ looked_up[next] = <<>>
      /\ \A i \in HostnameTargets : i # next => looked_up'[i] = looked_up[i]
      /\ \A i \in HostnameTargets : next <= i => looked_up[i] = <<>>
      /\ HostnameTargets \subseteq Int
  BY <1>1, <1>2, TargetScopeAssumption DEF NotYetLookedUp, Shape, HostnameTargets
<1>8. NotYetLookedUp'
  BY <1>2, <1>7 DEF NotYetLookedUp
<1>9. HintsRight'
  <2>1. /\ DOMAIN sni_map' = DOMAIN sni_map \cup ToSet(ips)
        /\ \A ip \in DOMAIN sni_map : sni_map'[ip] = sni_map[ip]
        /\ \A ip \in ToSet(ips) \ DOMAIN sni_map : sni_map'[ip] = Given[next].name
    BY <1>1 DEF Hints
  <2>2. ToSet(<<>>) = {}
    BY DEF ToSet
  <2>3. DOMAIN sni_map' = UNION {ToSet(looked_up'[i]) : i \in HostnameTargets}
    <3>1. \A ip : ip \in DOMAIN sni_map <=> \E i \in HostnameTargets : ip \in ToSet(looked_up[i])
      BY DEF HintsRight
    <3>2. \A ip : ip \in DOMAIN sni_map' <=> \E i \in HostnameTargets : ip \in ToSet(looked_up'[i])
      BY <1>2, <1>7, <2>1, <2>2, <3>1
    <3> QED BY <3>2
  <2>4. ASSUME NEW ip \in DOMAIN sni_map'
        PROVE  \E i \in HostnameTargets :
                 /\ ip \in ToSet(looked_up'[i])
                 /\ sni_map'[ip] = Given[i].name
                 /\ \A k \in HostnameTargets : k < i => ip \notin ToSet(looked_up'[k])
    <3>1. CASE ip \in DOMAIN sni_map
      <4>1. PICK i \in HostnameTargets :
              /\ ip \in ToSet(looked_up[i])
              /\ sni_map[ip] = Given[i].name
              /\ \A k \in HostnameTargets : k < i => ip \notin ToSet(looked_up[k])
        BY <3>1 DEF HintsRight
      <4>2. i # next /\ ~(next < i)
        BY <1>2, <1>7, <2>2, <4>1
      <4>3. \A k \in HostnameTargets : k < i => k # next
        BY <1>2, <1>7, <4>2
      <4> QED BY <1>7, <2>1, <3>1, <4>1, <4>2, <4>3
    <3>2. CASE ip \notin DOMAIN sni_map
      <4>1. ip \in ToSet(ips) /\ sni_map'[ip] = Given[next].name
        BY <2>1, <3>2
      <4>2. \A k \in HostnameTargets : ip \notin ToSet(looked_up[k])
        BY <3>2 DEF HintsRight
      <4>3. \A k \in HostnameTargets : k < next => ip \notin ToSet(looked_up'[k])
        BY <1>7, <4>2
      <4> QED BY <1>2, <1>7, <4>1, <4>3
    <3> QED BY <3>1, <3>2
  <2> QED BY <2>3, <2>4 DEF HintsRight
<1> QED BY <1>4, <1>5, <1>6, <1>8, <1>9

\* The two steps that look nothing up.
LEMMA PassingInv == IInv /\ (NotAHostname \/ Inspect) => IInv'
<1> SUFFICES ASSUME IInv, NotAHostname \/ Inspect PROVE IInv'
  OBVIOUS
<1> USE DEF IInv, NotAHostname, Inspect
<1>1. TypeOK'
  BY TargetScopeAssumption DEF TypeOK
<1>2. Shape'
  BY DEF Shape
<1>3. PolicyApplied' /\ ResolvedSoFar'
  BY DEF PolicyApplied, ResolvedSoFar, Started
<1>4. HintsRight'
  BY HintsKept
<1>5. NotYetLookedUp'
  BY TargetScopeAssumption DEF NotYetLookedUp, HostnameTargets, TypeOK
<1>6. OrderKeptNothingLost'
  BY DEF OrderKeptNothingLost, Started
<1> QED BY <1>1, <1>2, <1>3, <1>4, <1>5, <1>6

LEMMA StutterInv == IInv /\ UNCHANGED vars => IInv'
<1> SUFFICES ASSUME IInv, UNCHANGED vars PROVE IInv'
  OBVIOUS
<1> USE DEF IInv, vars
<1>1. TypeOK' /\ Shape'
  BY DEF TypeOK, Shape
<1>2. PolicyApplied' /\ ResolvedSoFar' /\ OrderKeptNothingLost'
  BY DEF PolicyApplied, ResolvedSoFar, OrderKeptNothingLost, Started
<1>3. HintsRight' /\ NotYetLookedUp'
  BY HintsKept DEF NotYetLookedUp
<1> QED BY <1>1, <1>2, <1>3

LEMMA NextInv == IInv /\ [Next]_vars => IInv'
BY BuildPolicyInv, ExpandInv, LookUpInv, PartitionInv, MapHostnameInv, PassingInv, StutterInv
   DEF Next, Ended

LEMMA InvHolds == Spec => []IInv
BY InitInv, NextInv, PTL DEF Spec

-----------------------------------------------------------------------------
(* The variables keep their shape: the lists hold resolved addresses only,  *)
(* a source is always one of the hostnames given, and a hint is always the  *)
(* name of one of them.                                                     *)
THEOREM TypeCorrect == Spec => []TypeOK
<1>1. IInv => TypeOK
  BY DEF IInv
<1> QED BY <1>1, InvHolds, PTL

(* What scope.rs:7 promises, for any two lists and any targets: no address  *)
(* inside a deny entry is scanned, and with an allow entry none outside.    *)
THEOREM ScopeIsRespected == Spec => []ScopeRespected
<1>1. IInv => ScopeRespected
  <2> SUFFICES ASSUME IInv, Started, NEW ip \in ToSet(hosts)
               PROVE  /\ \A e \in ToSet(Entries(scope.deny)) : ip \notin ToSet(e.ips)
                      /\ Entries(scope.allow) # <<>> =>
                           \E e \in ToSet(Entries(scope.allow)) : ip \in ToSet(e.ips)
    BY DEF ScopeRespected
  <2>1. policy = [allow |-> Nets(scope.allow), deny |-> Nets(scope.deny)]
    BY DEF IInv, PolicyApplied, Started
  <2>2. IsAllowed(policy, ip)
    BY DEF IInv, PolicyApplied
  <2>3. scope.allow \in Seq(ScopeEntry)
    BY TargetScopeAssumption DEF IInv, Shape
  <2>4. ASSUME NEW e \in ToSet(Entries(scope.deny)) PROVE ip \notin ToSet(e.ips)
    <3>1. e.ips \in policy.deny
      BY <2>1 DEF Nets
    <3> QED BY <2>2, <3>1 DEF IsAllowed, InSome
  <2>5. ASSUME Entries(scope.allow) # <<>>
        PROVE  \E e \in ToSet(Entries(scope.allow)) : ip \in ToSet(e.ips)
    <3>1. PICK e : e \in ToSet(Entries(scope.allow))
      BY <2>3, <2>5, EntriesProperties
    <3>2. policy.allow # {}
      BY <2>1, <3>1 DEF Nets
    <3>3. \E net \in policy.allow : ip \in ToSet(net)
      BY <2>2, <3>2 DEF IsAllowed, InSome
    <3> QED BY <2>1, <3>3 DEF Nets
  <2> QED BY <2>4, <2>5
<1> QED BY <1>1, InvHolds, PTL

(* Removing repeats and splitting by scope keep the order of the targets    *)
(* and account for every resolved address (resolver.rs:64).                 *)
THEOREM OrderIsKept == Spec => []OrderKeptNothingLost
<1>1. IInv => OrderKeptNothingLost
  BY DEF IInv
<1> QED BY <1>1, InvHolds, PTL

(* Resolution is all or nothing: a scan starts only if every hostname that  *)
(* was given resolved to an address.                                        *)
THEOREM AllTargetsResolved == Spec => []EveryTargetResolved
<1>1. IInv => EveryTargetResolved
  BY DEF IInv, ResolvedSoFar, EveryTargetResolved
<1> QED BY <1>1, InvHolds, PTL

(* Whatever the two lookups of a name return, the hint of an address is the *)
(* first given hostname whose second lookup returned it.                    *)
THEOREM HintsAreThoseLookedUp == Spec => []HintsFollowLookups
<1>1. IInv => HintsFollowLookups
  BY DEF IInv, HintsRight, HintsFollowLookups
<1> QED BY <1>1, InvHolds, PTL

=============================================================================
