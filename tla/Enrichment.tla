----------------------------- MODULE Enrichment -----------------------------
(***************************************************************************)
(* What happens to a port's record between the scan and the report: the    *)
(* native banner grab (src/banner.rs), the UDP re-probes                   *)
(* (src/udp_identify.rs), the Lua plugins (src/scripting/mod.rs) and the   *)
(* merge of Nmap's results (src/nmap/mod.rs), in the order of main.rs.     *)
(* The stages run one after the other in one task; what the ports, the     *)
(* plugins and Nmap answer is chosen freely.                               *)
(*                                                                         *)
(* A banner is the sequence of the parts it was put together from, so that *)
(* "who wrote what" survives; the empty banner is Some(""), NoBanner None. *)
(***************************************************************************)
EXTENDS ScanModel, Integers, Sequences, FiniteSets, SequencesExt

CONSTANTS
  Ports,         \* the scanned (ip, port) pairs, in the order of the report
  Statuses,      \* protocol -> the verdicts a scan over it may leave
  Scripts,       \* number of plugin scripts loaded
  Services,      \* what a <service> element may hold
  UseNmap,       \* Nmap is present and not disabled
  RawSocket      \* raw sockets are permitted, so Nmap is asked for the OS

ASSUME EnrichmentAssumption ==
  /\ Ports \in Seq([ip : Nat, port : Nat])
  /\ \A t \in DOMAIN Statuses : t \in TransportProtocol /\ Statuses[t] \subseteq PortStatus
  /\ Scripts \in Nat /\ UseNmap \in BOOLEAN /\ RawSocket \in BOOLEAN

None == "none"
NoConfidence == -1
NoBanner == [some |-> FALSE, parts |-> <<>>]
Banner(parts) == [some |-> TRUE, parts |-> parts]

\* A <service> of Nmap's XML: its fields, and what product, version and extra
\* information come to.
ServiceElement ==
  [name : STRING, conf : -1..255, cpe : BOOLEAN, version : Seq(STRING)]

ASSUME ServicesAssumption == Services \subseteq ServiceElement

VARIABLES
  pc,            \* the stage that is running
  at,            \* the next port (and script) of the stage
  port_res,      \* the port records
  todo,          \* the (ip, port) pairs Nmap was asked for and not merged yet
  os,            \* the hosts that carry an OsInfo
  reported,      \* history: the pairs for which Nmap named a service
  heard          \* history: <<port, name>> for each signature seen in a live answer

vars == <<pc, at, port_res, todo, os, reported, heard>>

-----------------------------------------------------------------------------
\* The names identify_banner knows, and None for a banner it does not match.
BannerNames == {"ssh", "http"}
BannerConfidence(name) == IF name = "ssh" THEN 90 ELSE 85

\* What grab_one may bring back: one cleaned line, which may come out empty.
Responses == {<<>>, <<"live">>}

\* What identify_one tries in turn, dns first; the first answer with the right
\* structure decides.
UdpNames == {"dns", "ntp", "snmp"}
UdpConfidence(name) ==
  CASE name = "dns" -> 90 [] name = "ntp" -> 85 [] name = "snmp" -> 80

HostUp(ip) ==
  AnyAnswer({port_res[i].status : i \in {k \in DOMAIN Ports : Ports[k].ip = ip}})

Labelled(r, name, conf, source) ==
  [r EXCEPT !.service = name, !.confidence = conf, !.source = source]

\* Mutant: a service without a confidence leaves it unset.
MergedConfidenceOrNone(conf) ==
  IF conf = NoConfidence THEN NoConfidence ELSE IF conf * 10 > 100 THEN 100 ELSE conf * 10

\* Mutant: the scale is left at the width of a u8.
MergedConfidenceUncapped(conf) ==
  IF conf = NoConfidence THEN 70 ELSE IF conf * 10 > 255 THEN 255 ELSE conf * 10

\* Saved as u8: conf.saturating_mul(10).min(100), 70 when Nmap omits it.
MergedConfidence(conf) ==
  IF conf = NoConfidence THEN 70
  ELSE LET tenfold == IF conf * 10 > 255 THEN 255 ELSE conf * 10
       IN  IF tenfold > 100 THEN 100 ELSE tenfold

\* Mutant: the host is not looked at.
FoundByPort(pair) ==
  {i \in DOMAIN Ports : /\ Ports[i].port = pair.port
                        /\ \A k \in 1..(i - 1) : Ports[k].port # pair.port}

\* position of the record the merge looks for: the first of that host with
\* that port number.
Found(pair) ==
  {i \in DOMAIN Ports : Ports[i] = pair /\ \A k \in 1..(i - 1) : Ports[k] # pair}

\* Mutant: the version banner replaces what was there.
ReplacedBanner(b, parts) == IF parts = <<>> THEN b ELSE Banner(parts)

\* take(), extend, and put back unless the result is empty.
ExtendedBanner(b, parts) ==
  LET whole == b.parts \o parts IN IF whole = <<>> THEN NoBanner ELSE Banner(whole)

-----------------------------------------------------------------------------
Init ==
  /\ \E t \in DOMAIN Statuses : \E s \in [DOMAIN Ports -> Statuses[t]] :
       port_res = [i \in DOMAIN Ports |->
                     [status |-> s[i], protocol |-> t, service |-> None,
                      confidence |-> NoConfidence, source |-> None,
                      banner |-> NoBanner, cpe |-> FALSE]]
  /\ pc = "banner" /\ at = <<1, 1>>
  /\ todo = {} /\ os = {} /\ reported = {} /\ heard = {}

Current == at[1]
Advance == at' = <<at[1] + 1, 1>>

WantsBanner(i) ==
  /\ HostUp(Ports[i].ip)
  /\ port_res[i].status = "Open" /\ port_res[i].protocol = "Tcp"
  /\ ~port_res[i].banner.some

Heard(i, name) == IF name = None THEN heard ELSE heard \cup {<<i, name>>}

\* Mutant: an unmatched banner is named after the port's usual service.
GrabBannerGuessing ==
  /\ pc = "banner" /\ Current \in DOMAIN Ports /\ WantsBanner(Current)
  /\ \E name \in BannerNames \cup {None} :
       LET guess == IF name = None THEN "http" ELSE name
       IN /\ port_res' = [port_res EXCEPT ![Current] =
               [Labelled(@, guess, BannerConfidence(guess), "NativeBanner")
                  EXCEPT !.banner = Banner(<<"live">>)]]
          /\ heard' = Heard(Current, name)
  /\ Advance /\ UNCHANGED <<pc, todo, os, reported>>

\* grab_one got a response.
GrabBanner ==
  /\ pc = "banner" /\ Current \in DOMAIN Ports /\ WantsBanner(Current)
  /\ \E name \in BannerNames \cup {None} : \E parts \in Responses :
       /\ name # None => parts # <<>>
       /\ LET r == port_res[Current]
              named == IF name # None /\ r.service = None
                       THEN Labelled(r, name, BannerConfidence(name), "NativeBanner") ELSE r
          IN port_res' = [port_res EXCEPT ![Current] = [named EXCEPT !.banner = Banner(parts)]]
       /\ heard' = Heard(Current, name)
  /\ Advance /\ UNCHANGED <<pc, todo, os, reported>>

WantsUdp(i) ==
  /\ HostUp(Ports[i].ip)
  /\ port_res[i].protocol = "Udp"
  /\ PlausiblyOpen(port_res[i].status)
  /\ port_res[i].service = None

IdentifyUdp ==
  /\ pc = "udp" /\ Current \in DOMAIN Ports /\ WantsUdp(Current)
  /\ \E name \in UdpNames :
       /\ port_res' = [port_res EXCEPT ![Current] =
                         Labelled(@, name, UdpConfidence(name), "NativeBanner")]
       /\ heard' = Heard(Current, name)
  /\ Advance /\ UNCHANGED <<pc, todo, os, reported>>

WantsPlugins(i) == port_res[i].status = "Open" /\ port_res[i].protocol = "Tcp"

\* One script has run on the port: a finding, which may be empty, goes behind
\* the banner.  An error, a missing function or an applies_to that declines is
\* the same as no finding.
RunPlugin ==
  /\ pc = "plugins" /\ Current \in DOMAIN Ports /\ WantsPlugins(Current) /\ at[2] <= Scripts
  /\ \/ \E finding \in {<<>>, <<"plugin">>} :
          port_res' = [port_res EXCEPT ![Current].banner = Banner(@.parts \o finding)]
     \/ UNCHANGED port_res
  /\ at' = <<at[1], at[2] + 1>>
  /\ UNCHANGED <<pc, todo, os, reported, heard>>

\* The stage's filter, or a silent port, passes the record by.
PassBy ==
  /\ Current \in DOMAIN Ports
  /\ \/ pc = "banner"
     \/ pc = "udp"
     \/ pc = "plugins" /\ (WantsPlugins(Current) => at[2] > Scripts)
  /\ Advance /\ UNCHANGED <<pc, port_res, todo, os, reported, heard>>

EndStage ==
  /\ Current \notin DOMAIN Ports
  /\ \/ pc = "banner" /\ pc' = "udp"
     \/ pc = "udp" /\ pc' = "plugins"
     \/ pc = "plugins" /\ pc' = IF UseNmap THEN "collect" ELSE "done"
  /\ at' = <<1, 1>> /\ UNCHANGED <<port_res, todo, os, reported, heard>>

\* enrich: the live hosts, each with the union of all plausibly open ports.
LiveHosts == {ip \in {Ports[i].ip : i \in DOMAIN Ports} : HostUp(ip)}
OpenPorts ==
  {Ports[i].port : i \in {k \in DOMAIN Ports : PlausiblyOpen(port_res[k].status)}}

\* The command line pairs every target with every port.
Asked == [ip : LiveHosts, port : OpenPorts]

CollectForNmap ==
  /\ pc = "collect"
  /\ todo' = Asked
  /\ pc' = IF todo' = {} THEN "done" ELSE "nmap"
  /\ UNCHANGED <<at, port_res, os, reported, heard>>

\* Nmap cannot be started, exits with an error, or writes what does not parse.
NmapFails ==
  /\ pc = "nmap" /\ pc' = "done" /\ todo' = {}
  /\ UNCHANGED <<at, port_res, os, reported, heard>>

NmapSucceeds ==
  /\ pc = "nmap" /\ pc' = "merge"
  /\ UNCHANGED <<at, port_res, todo, os, reported, heard>>

\* if let Some(name): the label, its confidence and its source.
WithLabel(r, svc) ==
  IF svc.name = None THEN r
  ELSE Labelled(r, svc.name, MergedConfidence(svc.conf), "NmapProbe")

\* The <os> of a host, merged ahead of its ports.
MergeOs(ip) ==
  /\ pc = "merge" /\ RawSocket
  /\ \A port \in OpenPorts : [ip |-> ip, port |-> port] \in todo
  /\ os' = os \cup {ip}
  /\ UNCHANGED <<pc, at, port_res, todo, reported, heard>>

\* A <port> of the XML with a service.
MergeService(pair) ==
  /\ pc = "merge" /\ pair \in todo
  /\ \E svc \in Services : \E scripts \in {<<>>, <<"script">>} :
       /\ port_res' = [i \in DOMAIN Ports |->
            IF i \notin Found(pair) THEN port_res[i]
            ELSE LET r == WithLabel(port_res[i], svc)
                     b == ExtendedBanner(r.banner, svc.version)
                 IN [r EXCEPT !.cpe = @ \/ svc.cpe,
                              !.banner = ExtendedBanner(b, scripts)]]
       /\ reported' = IF svc.name = None THEN reported
                       ELSE reported \cup {pair}
  /\ todo' = todo \ {pair}
  /\ UNCHANGED <<pc, at, os, heard>>

\* A <port> with nothing but script output.
MergeScripts(pair) ==
  /\ pc = "merge" /\ pair \in todo
  /\ port_res' = [i \in DOMAIN Ports |->
       IF i \notin Found(pair) THEN port_res[i]
       ELSE [port_res[i] EXCEPT !.banner = ExtendedBanner(@, <<"script">>)]]
  /\ todo' = todo \ {pair}
  /\ UNCHANGED <<pc, at, os, reported, heard>>

\* Nmap leaves the port out.
MergeNothing(pair) ==
  /\ pc = "merge" /\ pair \in todo
  /\ todo' = todo \ {pair}
  /\ UNCHANGED <<pc, at, port_res, os, reported, heard>>

EndMerge ==
  /\ pc = "merge" /\ todo = {} /\ pc' = "done"
  /\ UNCHANGED <<at, port_res, todo, os, reported, heard>>

Done == pc = "done" /\ UNCHANGED vars

Next ==
  \/ GrabBanner \/ IdentifyUdp \/ RunPlugin \/ PassBy \/ EndStage
  \/ CollectForNmap \/ NmapFails \/ NmapSucceeds \/ EndMerge \/ Done
  \/ \E ip \in LiveHosts : MergeOs(ip)
  \/ \E pair \in todo : MergeService(pair) \/ MergeScripts(pair) \/ MergeNothing(pair)

Spec == Init /\ [][Next]_vars

-----------------------------------------------------------------------------
Names == BannerNames \cup UdpNames \cup {svc.name : svc \in Services} \cup {None}

TypeOK ==
  /\ pc \in {"banner", "udp", "plugins", "collect", "nmap", "merge", "done"}
  /\ DOMAIN port_res = DOMAIN Ports
  /\ \A i \in DOMAIN Ports :
       /\ port_res[i].service \in Names
       /\ port_res[i].confidence \in 0..100 \cup {NoConfidence}
       /\ port_res[i].source \in {"NmapProbe", "NativeBanner", None}
       /\ ~port_res[i].banner.some => port_res[i].banner.parts = <<>>
  /\ todo \subseteq Asked
  /\ os \subseteq LiveHosts

(* model.rs:45: through all the stages that write it, a label, its          *)
(* confidence and its source are present together or absent together.       *)
LabelComplete ==
  \A i \in DOMAIN Ports :
    /\ port_res[i].service = None <=> port_res[i].confidence = NoConfidence
    /\ port_res[i].service = None <=> port_res[i].source = None

(* No stage loses what the scan or an earlier stage found: a verdict stays  *)
(* as it is, though every writer holds the whole record (and the Nmap merge *)
(* looks at no verdict), and a banner's text is only ever added to, behind  *)
(* what is there, though the merge takes it out and puts it back            *)
(* (nmap/mod.rs:149-151).                                                   *)
EvidenceKept ==
  [][\A i \in DOMAIN Ports :
       /\ port_res'[i].status = port_res[i].status
       /\ IsPrefix(port_res[i].banner.parts, port_res'[i].banner.parts)]_vars

(* A native label is never a guess: it names a signature that this very     *)
(* port showed in a live answer (README.md:25, banner.rs:41).               *)
NativeLabelHeard ==
  \A i \in DOMAIN Ports :
    port_res[i].source = "NativeBanner" => <<i, port_res[i].service>> \in heard

(* A label from Nmap is on the host and port Nmap reported it for.          *)
NmapLabelReported ==
  \A i \in DOMAIN Ports :
    port_res[i].source = "NmapProbe" => Ports[i] \in reported

(* README.md:7: Nmap enriches open ports only.                              *)
OnlyOpenPortsEnriched ==
  \A i \in DOMAIN Ports :
    port_res[i].source = "NmapProbe" => PlausiblyOpen(port_res[i].status)

=============================================================================
