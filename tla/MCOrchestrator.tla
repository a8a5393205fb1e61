--------------------------- MODULE MCOrchestrator ---------------------------
(* Instances of Orchestrator for TLC.  Every plan turns on one part of the  *)
(* program, so that the plans add up instead of multiplying.                *)
EXTENDS Orchestrator

\* A run that goes straight to the scan of one allowed host's port and past
\* all that may be left out.
Plain ==
  [authorized |-> TRUE, scope |-> "given", allowed |-> {"h1", "h3"},
   profile_path |-> NoName, profile_name |-> NoName,
   concurrency |-> 2, timeout |-> 1500, no_ping |-> FALSE,
   targets |-> <<"h1">>, ports |-> <<<<80>>>>,
   udp |-> FALSE, syn |-> FALSE, arp |-> FALSE, skip_discovery |-> TRUE, no_nmap |-> TRUE,
   names |-> <<>>, enumerate |-> {}, output |-> FALSE]

Profile(concurrency, timeout, discovery) ==
  [concurrency |-> concurrency, timeout_ms |-> timeout, discovery |-> discovery]

Quiet == Profile(<<>>, <<3000>>, <<[ping |-> FALSE, tcp_ports |-> <<>>]>>)
Loud == Profile(<<5>>, <<>>, <<[ping |-> TRUE, tcp_ports |-> <<22>>]>>)
NoSlots == Profile(<<0>>, <<>>, <<>>)

AllAddresses == <<"h1", "h2", "h3">>

Machine(raw, nmap, profiles, labels) ==
  [raw |-> raw, nmap |-> nmap, plugins |-> nmap, profiles |-> profiles, labels |-> labels]

Basic == Machine(FALSE, FALSE, <<>>, {{}})

On(machines, clis) == [cli : clis, machine : machines]

\* Command lines that are refused, or come close to it.
Refused ==
  On({Basic},
     {[Plain EXCEPT !.authorized = FALSE],
      [Plain EXCEPT !.scope = "malformed"],
      [Plain EXCEPT !.targets = <<"h2">>],
      [Plain EXCEPT !.profile_name = "loud"],
      [Plain EXCEPT !.profile_path = "unreadable"],
      [Plain EXCEPT !.profile_path = "file"]}
     \cup {[Plain EXCEPT !.ports = <<part>>] :
             part \in {<<65536>>, <<80, -1>>, <<2, 1>>, <<1, 2, 3>>}})

\* Port lists that overlap, repeat and reach both ends of the range.
PortLists ==
  On({Basic},
     {[Plain EXCEPT !.ports = list] :
        list \in {<<<<65535>>, <<65534, 65535>>>>, <<<<3, 3>>, <<0>>>>, <<<<2>>, <<1, 4>>, <<2>>>>}})

\* Discovery with every mixture of capability, profile and flag.
Discoveries ==
  On({Machine(raw, FALSE, profiles, {{}}) :
        raw \in BOOLEAN,
        profiles \in {[default |-> Loud, quiet |-> Quiet], [quiet |-> Quiet, zero |-> NoSlots],
                      [default |-> NoSlots]}},
     {[Plain EXCEPT !.targets = <<"h3", "h2", "h1", "h3">>, !.skip_discovery = FALSE,
                    !.profile_path = path, !.profile_name = name,
                    !.no_ping = no_ping, !.arp = arp, !.syn = arp] :
        path \in {NoName, "file"}, name \in {NoName, "quiet"},
        no_ping \in BOOLEAN, arp \in BOOLEAN})

\* A report is asked for; plugins and nmap relabel what the scan found.
Reports ==
  On({Machine(raw, TRUE, <<>>, {{}, {"http"}}) : raw \in BOOLEAN},
     {[Plain EXCEPT !.output = output, !.udp = udp, !.no_nmap = FALSE,
                    !.skip_discovery = skip] :
        output \in BOOLEAN, udp \in BOOLEAN, skip \in BOOLEAN})

\* With "h2" excluded, a host that is left on the list twice.
Twice == <<"h1", "h2", "h1">>

\* One enumeration stage, or two that share ports.
Stage(stages, targets, list, labels) ==
  On({Machine(FALSE, FALSE, <<>>, labels)},
     {[Plain EXCEPT !.enumerate = stages, !.targets = targets, !.ports = list,
                    !.udp = "snmp" \in stages]})

\* "web" is an allowed address, "old" an excluded one.
Name(host, address) == [host |-> host, port |-> 53, address |-> address]

DnsPlan(targets, names) ==
  On({Basic}, {[Plain EXCEPT !.enumerate = {"dns"}, !.targets = targets, !.names = names]})
DnsPlans == DnsPlan(<<"h1">>, <<Name("web", "h1"), Name("alt", "h1")>>)
ExcludedName == DnsPlan(<<"h1", "h2">>, <<Name("web", "h1"), Name("old", "h2")>>)

WebPlan == Stage({"http", "tls"}, <<"h1">>, <<<<443>>>>, {{}, {"http"}, {"http", "https"}})
FtpPlan == Stage({"ftp"}, Twice, <<<<21>>>>, {{}})
SnmpPlan == Stage({"snmp"}, Twice, <<<<161>>>>, {{}})
SnmpOnce == Stage({"snmp"}, <<"h1">>, <<<<161>>>>, {{}})
SmbPlan == Stage({"smb"}, <<"h1">>, <<<<445>>>>, {{}})
TlsPlan == Stage({"tls"}, Twice, <<<<443>>>>, {{}})

MainPlans ==
  UNION {Refused, PortLists, Discoveries, Reports, DnsPlans, WebPlan, TlsPlan, FtpPlan, SnmpPlan,
         SmbPlan}

-----------------------------------------------------------------------------
\* Of "alt" there is little to know, so that the names' outcomes do not multiply.
SomeRecords ==
  [domain \in {"web", "alt", "old"} |->
     IF domain = "alt"
     THEN [a |-> <<"h1">>, cname |-> <<>>, ns |-> <<"ns1">>, mx |-> <<>>, txt |-> <<>>, ptr |-> <<>>]
     ELSE [a |-> <<"h1">>, cname |-> <<"front">>, ns |-> <<"ns1", "ns2">>, mx |-> <<"mail">>,
           txt |-> <<"spf", "key">>, ptr |-> <<"host">>]]

Paragraph == Body("p")
Letter == Body("x")
Second == Body("y")
Titled(before, title) ==
  <<StatusLine, <<"server", "a">>, <<"date", "d">>, <<"server", "b">>, EmptyLine>>
    \o before \o <<OpenTag>> \o title \o <<CloseTag, Paragraph>>

PlainPages ==
  {Titled(<<Paragraph>>, <<Letter, Second>>),
   Titled(<<>>, <<>>) \o <<OpenTag, Letter, CloseTag>>,
   <<<<"status", "220">>, <<"via", "v">>, EmptyLine, OpenTag, Letter, CloseTag>>}

\* A character before the title, or in it, whose lower case is longer or shorter.
OddPages ==
  {Titled(<<Growing>>, <<Letter, Second>>), Titled(<<Shrinking>>, <<Letter, Second>>),
   Titled(<<>>, <<Letter, Growing>>)}

SomePages == PlainPages \cup OddPages

\* Quarter days around the ends of the classes: now, 30 days and 31 days.
SomeCertificates ==
  {[parses |-> TRUE, dns_names |-> left > 0, left |-> left] : left \in {-1, 0, 1, 120, 123, 124}}
    \cup {[parses |-> FALSE, dns_names |-> FALSE, left |-> 1]}

\* Lengths on both sides of every bound.
SomeReplies ==
  {[len |-> len, sig |-> sig, signing |-> sig = "smb2" /\ signing, whole |-> whole] :
     len \in {69, 70, MaxFrame}, sig \in {"smb1", "smb2"}, signing \in BOOLEAN,
     whole \in BOOLEAN}
   \cup {[len |-> len, sig |-> "other", signing |-> FALSE, whole |-> TRUE] :
           len \in {0, 3, 70, MaxFrame + 1}}

=============================================================================
