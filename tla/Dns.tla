-------------------------------- MODULE Dns --------------------------------
(***************************************************************************)
(* enumerate of src/enumeration/dns.rs for one hostname target: its        *)
(* addresses, five further lookups of which each may fail on its own, and  *)
(* a zone transfer asked of every nameserver.                              *)
(*                                                                         *)
(* Main runs it over cli.names, whose records hold the name as host, the   *)
(* port 53 and the address the name stands for.  A finding's place is the  *)
(* name and the record's data.                                             *)
(***************************************************************************)
EXTENDS EnumStage

CONSTANT RecordData    \* name -> kind of lookup -> what it returns if it does

Lookups == <<"cname", "ns", "mx", "txt", "ptr">>

ASSUME DnsAssumption ==
  \A name \in DOMAIN RecordData :
    /\ DOMAIN RecordData[name] = ToSet(Lookups) \cup {"a"}
    /\ \A kind \in DOMAIN RecordData[name] :
         RecordData[name][kind] \in Seq(ToSet(RecordData[name][kind]))

Domain == Head(todo).host
Data(kind) == RecordData[Domain][kind]

\* record_finding.
Record(kind, data) == Finding(kind, <<Domain, data>>, "Info", data)
Records(kind, list) == [i \in DOMAIN list |-> Record(kind, list[i])]

AllSeen(kind, list) == seen' = seen \cup {<<pc, <<Domain, data>>, kind>> : data \in ToSet(list)}

FollowedBy(kind) ==
  LET i == CHOOSE k \in DOMAIN Lookups : Lookups[k] = kind
  IN  IF i = Len(Lookups) THEN "axfr" ELSE Lookups[i + 1]

-----------------------------------------------------------------------------
\* lookup_ip fails or is empty, which ends the enumeration of the name.
DnsResolve ==
  /\ Begins("dns")
  /\ \/ Conclude(<<>>) /\ UNCHANGED seen
     \/ /\ Continue("cname", [found |-> Records("a", Data("a")), nameservers |-> <<>>])
        /\ AllSeen("a", Data("a"))
  /\ UNCHANGED contacts

\* Mutant: a lookup that fails ends the enumeration of the name.
DnsLookupOrNothing(kind) ==
  /\ At("dns", kind)
  /\ \/ Conclude(<<>>) /\ UNCHANGED seen
     \/ LET data == Data(kind) IN
        /\ Continue(FollowedBy(kind),
             [found |-> local.found \o Records(kind, data),
              nameservers |-> IF kind = "ns" THEN data ELSE local.nameservers])
        /\ AllSeen(kind, data)
  /\ UNCHANGED contacts

\* if let Ok(...): one of the five lookups.
DnsLookup(kind) ==
  /\ At("dns", kind)
  /\ \E data \in {<<>>, Data(kind)} :
       /\ Continue(FollowedBy(kind),
            [found |-> local.found \o Records(kind, data),
             nameservers |-> IF kind = "ns" THEN data ELSE local.nameservers])
       /\ AllSeen(kind, data)
  /\ UNCHANGED contacts

\* try_axfr up to the request.  The nameserver has no address, cannot be
\* connected to, or has been asked for the zone.
DnsAsk ==
  /\ At("dns", "axfr") /\ local.nameservers # <<>>
  /\ Touch(Domain)
  /\ \/ Continue("axfr", [local EXCEPT !.nameservers = Tail(@)])
     \/ Continue("transfer", local)
  /\ UNCHANGED seen

\* The stream of responses is over, by its end or by an error: any records that
\* came before it count as a success.  Nothing here limits the time it takes.
DnsTransfer ==
  /\ At("dns", "transfer")
  /\ LET ns == Head(local.nameservers)
         rest == Tail(local.nameservers)
     IN \/ Continue("axfr", [local EXCEPT !.nameservers = rest]) /\ UNCHANGED seen
        \/ /\ Continue("axfr",
                [nameservers |-> rest,
                 found |-> Append(local.found,
                                  Finding("axfr", <<Domain, ns>>, "High", ns))])
           /\ AllSeen("axfr", <<ns>>)
  /\ UNCHANGED contacts

DnsDone ==
  /\ At("dns", "axfr") /\ local.nameservers = <<>>
  /\ Conclude(local.found)
  /\ UNCHANGED <<contacts, seen>>

\* Every step of the stage that ends by itself.
DnsStep ==
  DnsResolve \/ DnsAsk \/ DnsDone \/ \E kind \in ToSet(Lookups) : DnsLookup(kind)

-----------------------------------------------------------------------------
(* When a name has been enumerated, its findings are exactly the records    *)
(* the lookups returned and the nameservers that gave away the zone: a      *)
(* lookup or a transfer that fails takes none of the others with it.        *)
DnsAsAnswered ==
  \A d \in ToSet(cli.names) :
    DoneWith("dns", Place(d)) =>
      {<<f.id[2], f.id[3]>> : f \in {g \in ToSet(findings) : g.id[1] = "dns" /\ g.id[3][1] = d.host}}
        = {<<s[3], s[2]>> : s \in {q \in seen : q[1] = "dns" /\ q[2][1] = d.host}}

(* cli.rs:74-75: targets outside the allowed networks are skipped even if   *)
(* they are passed on the command line.                                     *)
ExcludedNamesLeftAlone ==
  \A d \in ToSet(cli.names) :
    d.address \notin cli.allowed => ~\E c \in contacts : c.who = d.host /\ c.by = "dns"

=============================================================================
