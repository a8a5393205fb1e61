-------------------------- MODULE Enrichment_proof --------------------------
(***************************************************************************)
(* The record of a port from the scan to the report, for any ports, any    *)
(* number of plugin scripts and whatever the ports, the scripts and Nmap   *)
(* answer.                                                                 *)
(***************************************************************************)
EXTENDS Enrichment, SequenceTheorems, TLAPS

\* The texts a banner is put together from.
Texts == STRING \cup {"live", "plugin", "script"}

Banners == [some : BOOLEAN, parts : Seq(Texts)]

PortRecord ==
  [status : PortStatus, protocol : TransportProtocol, service : Names,
   confidence : (0..100) \cup {NoConfidence},
   source : {"NmapProbe", "NativeBanner", None}, banner : Banners, cpe : BOOLEAN]

\* What is right about the record r of the port at position i, when `known`
\* are the signatures heard and `named` the pairs Nmap named.
Right(i, r, known, named) ==
  /\ r \in PortRecord
  /\ ~r.banner.some => r.banner.parts = <<>>
  /\ r.service = None <=> r.confidence = NoConfidence
  /\ r.service = None <=> r.source = None
  /\ r.source = "NativeBanner" => <<i, r.service>> \in known
  /\ r.source = "NmapProbe" => Ports[i] \in named

RecordsRight ==
  /\ port_res = [i \in DOMAIN Ports |-> port_res[i]]
  /\ \A i \in DOMAIN Ports : Right(i, port_res[i], heard, reported)

IInv == TypeOK /\ RecordsRight

\* What no stage does to a record: change its verdict, or take from its banner.
Grown(r, s) ==
  /\ s.status = r.status
  /\ IsPrefix(r.banner.parts, s.banner.parts)

RecordsGrow == \A i \in DOMAIN Ports : Grown(port_res[i], port_res'[i])

-----------------------------------------------------------------------------
LEMMA StartsWithItself == \A s \in Seq(Texts) : IsPrefix(s, s)
BY DEF IsPrefix

LEMMA StartsWithFirst == \A s, t \in Seq(Texts) : s \o t \in Seq(Texts) /\ IsPrefix(s, s \o t)
BY DEF IsPrefix

LEMMA TextsOfBanners ==
  /\ <<>> \in Seq(Texts)
  /\ \A x \in Texts : <<x>> \in Seq(Texts)
  /\ <<"live">> \in Seq(Texts) /\ <<"plugin">> \in Seq(Texts) /\ <<"script">> \in Seq(Texts)
  /\ Seq(STRING) \subseteq Seq(Texts)
<1>1. \A x \in Texts : <<x>> \in Seq(Texts)
  OBVIOUS
<1>2. "live" \in Texts /\ "plugin" \in Texts /\ "script" \in Texts /\ STRING \subseteq Texts
  BY DEF Texts
<1>3. Seq(STRING) \subseteq Seq(Texts)
  BY <1>2, SeqMonotonic
<1>4. <<>> \in Seq(Texts)
  OBVIOUS
<1> QED BY <1>1, <1>2, <1>3, <1>4

LEMMA StartsThrough ==
  \A s, t, u \in Seq(Texts) : IsPrefix(s, t) /\ IsPrefix(t, u) => IsPrefix(s, u)
<1> SUFFICES ASSUME NEW s \in Seq(Texts), NEW t \in Seq(Texts), NEW u \in Seq(Texts),
                    IsPrefix(s, t), IsPrefix(t, u)
             PROVE  IsPrefix(s, u)
  OBVIOUS
<1>1. Len(s) <= Len(t) /\ Len(t) <= Len(u)
  BY DEF IsPrefix
<1>2. \A k \in 1..Len(s) : s[k] = t[k]
  <2> TAKE k \in 1..Len(s)
  <2>1. SubSeq(s, 1, Len(s))[k] = SubSeq(t, 1, Len(s))[k]
    BY DEF IsPrefix
  <2> QED BY <1>1, <2>1
<1>3. \A k \in 1..Len(t) : t[k] = u[k]
  <2> TAKE k \in 1..Len(t)
  <2>1. SubSeq(t, 1, Len(t))[k] = SubSeq(u, 1, Len(t))[k]
    BY DEF IsPrefix
  <2> QED BY <1>1, <2>1
<1> QED BY <1>1, <1>2, <1>3 DEF IsPrefix

(* ExtendedBanner (take, extend, put back) only adds behind the banner.     *)
LEMMA Extended ==
  ASSUME NEW b \in Banners, ~b.some => b.parts = <<>>, NEW parts \in Seq(Texts)
  PROVE  /\ ExtendedBanner(b, parts) \in Banners
         /\ ~ExtendedBanner(b, parts).some => ExtendedBanner(b, parts).parts = <<>>
         /\ IsPrefix(b.parts, ExtendedBanner(b, parts).parts)
<1>1. b.parts \o parts \in Seq(Texts) /\ IsPrefix(b.parts, b.parts \o parts)
  BY StartsWithFirst DEF Banners
<1>2. ExtendedBanner(b, parts).parts = b.parts \o parts
  BY DEF ExtendedBanner, NoBanner, Banner
<1>3. ExtendedBanner(b, parts) \in Banners
  BY <1>1 DEF ExtendedBanner, NoBanner, Banner, Banners
<1>4. ~ExtendedBanner(b, parts).some => ExtendedBanner(b, parts).parts = <<>>
  BY DEF ExtendedBanner, NoBanner, Banner
<1> QED BY <1>1, <1>2, <1>3, <1>4

(* The u8 arithmetic on Nmap's confidence always ends on the scale.         *)
LEMMA ConfidenceOnScale ==
  \A svc \in Services : MergedConfidence(svc.conf) \in 0..100
<1> SUFFICES ASSUME NEW svc \in Services PROVE MergedConfidence(svc.conf) \in 0..100
  OBVIOUS
<1>1. svc.conf \in -1..255
  BY ServicesAssumption DEF ServicesAssumption, ServiceElement
<1> QED BY <1>1 DEF MergedConfidence, NoConfidence

(* A record whose banner has grown, and that kept its label.                *)
LEMMA BannerAdded ==
  ASSUME NEW i, NEW r, NEW known, NEW named, Right(i, r, known, named),
         NEW b \in Banners, ~b.some => b.parts = <<>>, IsPrefix(r.banner.parts, b.parts)
  PROVE  Right(i, [r EXCEPT !.banner = b], known, named) /\ Grown(r, [r EXCEPT !.banner = b])
BY DEF Right, Grown, PortRecord

(* A record that got its label, confidence and source together.             *)
LEMMA LabelGiven ==
  ASSUME NEW i, NEW r, NEW known, NEW named, Right(i, r, known, named),
         NEW name \in Names, name # None, NEW conf \in 0..100,
         NEW source \in {"NmapProbe", "NativeBanner"},
         source = "NativeBanner" => <<i, name>> \in known,
         source = "NmapProbe" => Ports[i] \in named
  PROVE  Right(i, Labelled(r, name, conf, source), known, named)
         /\ Grown(r, Labelled(r, name, conf, source))
<1>1. Labelled(r, name, conf, source) \in PortRecord
  BY DEF Right, PortRecord, Labelled
<1>2. r.banner.parts \in Seq(Texts)
  BY DEF Right, PortRecord, Banners
<1>3. r \in PortRecord
  BY DEF Right
<1>4. LET s == Labelled(r, name, conf, source)
      IN  /\ s.status = r.status /\ s.banner = r.banner /\ s.service = name
          /\ s.confidence = conf /\ s.source = source
  BY <1>3 DEF PortRecord, Labelled
<1> QED BY <1>1, <1>2, <1>4, StartsWithItself DEF Right, Grown, NoConfidence, None

LEMMA LabelOnly ==
  ASSUME NEW r \in PortRecord, NEW name, NEW conf, NEW source
  PROVE  Labelled(r, name, conf, source).banner = r.banner
BY DEF PortRecord, Labelled

(* More heard, or more reported, makes nothing wrong.                       *)
LEMMA MoreKnown ==
  ASSUME NEW i, NEW r, NEW known, NEW named, Right(i, r, known, named),
         NEW more, NEW others, known \subseteq more, named \subseteq others
  PROVE  Right(i, r, more, others)
BY DEF Right

LEMMA Untouched ==
  ASSUME NEW i, NEW r, NEW known, NEW named, Right(i, r, known, named)
  PROVE  Grown(r, r)
<1>1. r.banner.parts \in Seq(Texts)
  BY DEF Right, PortRecord, Banners
<1> QED BY <1>1, StartsWithItself DEF Grown

(* A stage that writes one record, and may have heard or been told more.    *)
LEMMA OneRecord ==
  ASSUME RecordsRight, NEW c \in DOMAIN Ports, NEW r,
         port_res' = [port_res EXCEPT ![c] = r],
         heard \subseteq heard', reported \subseteq reported',
         Right(c, r, heard', reported'), Grown(port_res[c], r)
  PROVE  RecordsRight' /\ RecordsGrow
<1>1. port_res' = [i \in DOMAIN Ports |-> IF i = c THEN r ELSE port_res[i]]
  BY DEF RecordsRight
<1>2. \A i \in DOMAIN Ports : Right(i, port_res[i], heard', reported')
  BY MoreKnown DEF RecordsRight
<1>3. \A i \in DOMAIN Ports : Grown(port_res[i], port_res[i])
  BY Untouched DEF RecordsRight
<1>4. RecordsRight'
  BY <1>1, <1>2 DEF RecordsRight
<1>5. RecordsGrow
  BY <1>1, <1>3 DEF RecordsGrow
<1> QED BY <1>4, <1>5

LEMMA NoRecord ==
  ASSUME RecordsRight, UNCHANGED <<port_res, heard, reported>>
  PROVE  RecordsRight' /\ RecordsGrow
<1>1. RecordsGrow
  BY Untouched DEF RecordsRight, RecordsGrow
<1> QED BY <1>1 DEF RecordsRight

(* Verdicts stay, so what they decide stays: the hosts that are up and the  *)
(* pairs Nmap is asked about.                                               *)
LEMMA VerdictsStay ==
  ASSUME RecordsRight, RecordsRight', RecordsGrow
  PROVE  LiveHosts' = LiveHosts /\ OpenPorts' = OpenPorts /\ Asked' = Asked
<1>1. DOMAIN port_res = DOMAIN Ports /\ DOMAIN port_res' = DOMAIN Ports
  BY DEF RecordsRight
<1>2. \A i \in DOMAIN Ports : port_res'[i].status = port_res[i].status
  BY DEF RecordsGrow, Grown
<1>3. OpenPorts' = OpenPorts
  BY <1>2 DEF OpenPorts
<1>4. LiveHosts' = LiveHosts
  BY <1>2 DEF LiveHosts, HostUp, AnyAnswer
<1> QED BY <1>3, <1>4 DEF Asked

-----------------------------------------------------------------------------
\* Each step of each stage keeps the records right and lets them only grow.

LEMMA GrabBannerStep ==
  ASSUME RecordsRight, GrabBanner
  PROVE  RecordsRight' /\ RecordsGrow
<1> DEFINE c == Current
           r == port_res[c]
<1>1. PICK name \in BannerNames \cup {None}, parts \in Responses :
        /\ name # None => parts # <<>>
        /\ port_res' = [port_res EXCEPT ![c] =
             [(IF name # None /\ r.service = None
               THEN Labelled(r, name, BannerConfidence(name), "NativeBanner") ELSE r)
                EXCEPT !.banner = Banner(parts)]]
        /\ heard' = Heard(c, name)
  BY DEF GrabBanner
<1>2. c \in DOMAIN Ports /\ ~r.banner.some /\ reported' = reported
  BY DEF GrabBanner, WantsBanner
<1>3. heard \subseteq heard' /\ (name # None => <<c, name>> \in heard')
  BY <1>1 DEF Heard
<1>4. Right(c, r, heard', reported')
  BY <1>2, <1>3, MoreKnown DEF RecordsRight
<1> DEFINE named == IF name # None /\ r.service = None
                    THEN Labelled(r, name, BannerConfidence(name), "NativeBanner") ELSE r
<1>5. Right(c, named, heard', reported') /\ Grown(r, named) /\ named.banner = r.banner
  <2>1. CASE name # None /\ r.service = None
    <3>1. name \in Names /\ BannerConfidence(name) \in 0..100
      BY <1>1, <2>1 DEF Names, BannerConfidence
    <3> DEFINE s == Labelled(r, name, BannerConfidence(name), "NativeBanner")
    <3>2. Right(c, s, heard', reported') /\ Grown(r, s)
      BY <1>3, <1>4, <2>1, <3>1, LabelGiven
    <3>3. s.banner = r.banner
      BY <1>4, LabelOnly DEF Right
    <3>4. named = s
      BY <2>1
    <3> HIDE DEF s, named
    <3> QED BY <3>2, <3>3, <3>4
  <2>2. CASE ~(name # None /\ r.service = None)
    BY <1>4, <2>2, Untouched
  <2> QED BY <2>1, <2>2
<1>6. Banner(parts) \in Banners /\ Banner(parts).some
  <2>1. parts = <<>> \/ parts = <<"live">>
    BY DEF Responses
  <2>2. parts \in Seq(Texts)
    BY <2>1, TextsOfBanners
  <2> QED BY <2>2 DEF Banner, Banners
<1>7. IsPrefix(named.banner.parts, Banner(parts).parts)
  <2>1. r.banner.parts = <<>>
    BY <1>2, <1>4 DEF Right
  <2>2. Banner(parts).parts \in Seq(Texts) /\ <<>> \o Banner(parts).parts = Banner(parts).parts
    BY <1>6 DEF Banners
  <2>3. <<>> \in Seq(Texts)
    OBVIOUS
  <2> QED BY <1>5, <2>1, <2>2, <2>3, StartsWithFirst
<1> HIDE DEF named
<1>8. /\ Right(c, [named EXCEPT !.banner = Banner(parts)], heard', reported')
      /\ Grown(named, [named EXCEPT !.banner = Banner(parts)])
  BY <1>5, <1>6, <1>7, BannerAdded
<1>9. Grown(r, [named EXCEPT !.banner = Banner(parts)])
  BY <1>5, <1>8 DEF Grown
<1>10. port_res' = [port_res EXCEPT ![c] = [named EXCEPT !.banner = Banner(parts)]]
  BY <1>1 DEF named
<1> HIDE DEF c, r
<1> QED BY <1>2, <1>3, <1>8, <1>9, <1>10, OneRecord DEF r

LEMMA IdentifyUdpStep ==
  ASSUME RecordsRight, IdentifyUdp
  PROVE  RecordsRight' /\ RecordsGrow
<1> DEFINE c == Current
           r == port_res[c]
<1>1. PICK name \in UdpNames :
        /\ port_res' = [port_res EXCEPT ![c] =
                          Labelled(r, name, UdpConfidence(name), "NativeBanner")]
        /\ heard' = Heard(c, name)
  BY DEF IdentifyUdp
<1>2. c \in DOMAIN Ports /\ reported' = reported
  BY DEF IdentifyUdp
<1>3. name \in Names /\ name # None /\ UdpConfidence(name) \in 0..100
  BY DEF UdpNames, Names, None, UdpConfidence
<1>4. heard \subseteq heard' /\ <<c, name>> \in heard'
  BY <1>1, <1>3 DEF Heard
<1>5. Right(c, r, heard', reported')
  BY <1>2, <1>4, MoreKnown DEF RecordsRight
<1> DEFINE s == Labelled(r, name, UdpConfidence(name), "NativeBanner")
<1>6. Right(c, s, heard', reported') /\ Grown(r, s)
  BY <1>3, <1>4, <1>5, LabelGiven
<1>7. port_res' = [port_res EXCEPT ![c] = s]
  BY <1>1
<1> HIDE DEF c, r, s
<1> QED BY <1>2, <1>4, <1>6, <1>7, OneRecord DEF r

LEMMA RunPluginStep ==
  ASSUME RecordsRight, RunPlugin
  PROVE  RecordsRight' /\ RecordsGrow
<1> DEFINE c == Current
           r == port_res[c]
<1>1. c \in DOMAIN Ports /\ heard' = heard /\ reported' = reported
  BY DEF RunPlugin
<1>2. CASE UNCHANGED port_res
  BY <1>1, <1>2, NoRecord
<1>3. ASSUME NEW finding \in {<<>>, <<"plugin">>},
             port_res' = [port_res EXCEPT ![c].banner = Banner(@.parts \o finding)]
      PROVE  RecordsRight' /\ RecordsGrow
  <2> DEFINE b == Banner(r.banner.parts \o finding)
             s == [r EXCEPT !.banner = b]
  <2>1. Right(c, r, heard', reported')
    BY <1>1 DEF RecordsRight
  <2>2. r.banner.parts \in Seq(Texts) /\ finding \in Seq(Texts)
    <3>1. r.banner.parts \in Seq(Texts)
      BY <2>1 DEF Right, PortRecord, Banners
    <3> QED BY <1>3, <3>1, TextsOfBanners
  <2>3. b \in Banners /\ b.some /\ IsPrefix(r.banner.parts, b.parts)
    BY <2>2, StartsWithFirst DEF Banner, Banners
  <2> HIDE DEF b
  <2>4. Right(c, s, heard', reported') /\ Grown(r, s)
    BY <2>1, <2>3, BannerAdded
  <2>5. port_res' = [port_res EXCEPT ![c] = s]
    BY <1>1, <1>3 DEF RecordsRight, b
  <2> HIDE DEF c, r, s
  <2> QED BY <1>1, <2>4, <2>5, OneRecord DEF r
<1> QED BY <1>2, <1>3 DEF RunPlugin

\* One record of Nmap's, and the script output that may follow the banner.
LEMMA WithLabelRight ==
  ASSUME NEW i, NEW r, NEW svc \in Services, Right(i, r, heard', reported'),
         svc.name # None => Ports[i] \in reported'
  PROVE  /\ Right(i, WithLabel(r, svc), heard', reported')
         /\ Grown(r, WithLabel(r, svc)) /\ WithLabel(r, svc).banner = r.banner
<1>1. CASE svc.name = None
  BY <1>1, Untouched DEF WithLabel
<1>2. CASE svc.name # None
  <2>1. svc.name \in Names
    BY DEF Names
  <2>2. MergedConfidence(svc.conf) \in 0..100
    BY ConfidenceOnScale
  <2> DEFINE s == Labelled(r, svc.name, MergedConfidence(svc.conf), "NmapProbe")
  <2>3. Right(i, s, heard', reported') /\ Grown(r, s)
    BY <1>2, <2>1, <2>2, LabelGiven
  <2>4. s.banner = r.banner
    BY LabelOnly DEF Right
  <2>5. WithLabel(r, svc) = s
    BY <1>2 DEF WithLabel
  <2> HIDE DEF s
  <2> QED BY <2>3, <2>4, <2>5
<1> QED BY <1>1, <1>2

LEMMA MergeServiceStep ==
  ASSUME RecordsRight, NEW pair \in todo, MergeService(pair)
  PROVE  RecordsRight' /\ RecordsGrow
<1>1. PICK svc \in Services, scripts \in {<<>>, <<"script">>} :
        /\ port_res' = [i \in DOMAIN Ports |->
             IF i \notin Found(pair) THEN port_res[i]
             ELSE [WithLabel(port_res[i], svc) EXCEPT
                     !.cpe = @ \/ svc.cpe,
                     !.banner = ExtendedBanner(
                        ExtendedBanner(WithLabel(port_res[i], svc).banner, svc.version),
                        scripts)]]
        /\ reported' = IF svc.name = None THEN reported ELSE reported \cup {pair}
  BY DEF MergeService
<1>2. heard' = heard /\ reported \subseteq reported'
  BY <1>1 DEF MergeService
<1>3. svc.version \in Seq(Texts) /\ scripts \in Seq(Texts) /\ svc.cpe \in BOOLEAN
  <2>1. svc \in ServiceElement
    BY ServicesAssumption DEF ServicesAssumption
  <2>2. svc.version \in Seq(STRING) /\ svc.cpe \in BOOLEAN
    BY <2>1 DEF ServiceElement
  <2> QED BY <2>2, TextsOfBanners
<1>4. ASSUME NEW i \in DOMAIN Ports
      PROVE  Right(i, port_res'[i], heard', reported') /\ Grown(port_res[i], port_res'[i])
  <2>1. Right(i, port_res[i], heard', reported')
    BY <1>2, MoreKnown DEF RecordsRight
  <2>2. CASE i \notin Found(pair)
    BY <1>1, <2>1, <2>2, Untouched
  <2>3. CASE i \in Found(pair)
    <3>1. svc.name # None => Ports[i] \in reported'
      BY <1>1, <2>3 DEF Found
    <3> DEFINE r == WithLabel(port_res[i], svc)
               b == ExtendedBanner(r.banner, svc.version)
               e == ExtendedBanner(b, scripts)
               q == [r EXCEPT !.cpe = @ \/ svc.cpe]
    <3>2. Right(i, r, heard', reported') /\ Grown(port_res[i], r)
          /\ r.banner = port_res[i].banner
      BY <2>1, <3>1, WithLabelRight
    <3> HIDE DEF r
    <3>3. /\ b \in Banners /\ (~b.some => b.parts = <<>>)
          /\ IsPrefix(r.banner.parts, b.parts)
      <4>1. r.banner \in Banners /\ (~r.banner.some => r.banner.parts = <<>>)
        BY <3>2 DEF Right, PortRecord
      <4> QED BY <1>3, <4>1, Extended
    <3> HIDE DEF b
    <3>4. /\ e \in Banners /\ (~e.some => e.parts = <<>>)
          /\ IsPrefix(b.parts, e.parts)
      BY <1>3, <3>3, Extended
    <3> HIDE DEF e
    <3>5. Right(i, q, heard', reported') /\ q.status = r.status /\ q.banner = r.banner
      <4>1. r \in PortRecord
        BY <3>2 DEF Right
      <4>2. q \in PortRecord /\ q.banner = r.banner /\ q.status = r.status
            /\ q.service = r.service /\ q.confidence = r.confidence /\ q.source = r.source
        BY <1>3, <4>1 DEF PortRecord
      <4> HIDE DEF q
      <4> QED BY <3>2, <4>2 DEF Right
    <3>6. r.banner.parts \in Seq(Texts) /\ b.parts \in Seq(Texts) /\ e.parts \in Seq(Texts)
      BY <3>2, <3>3, <3>4 DEF Right, PortRecord, Banners
    <3>7. IsPrefix(q.banner.parts, e.parts)
      BY <3>3, <3>4, <3>5, <3>6, StartsThrough
    <3>8. r \in PortRecord
      BY <3>2 DEF Right
    <3>9. port_res'[i] = [q EXCEPT !.banner = e]
      BY <1>1, <2>3, <3>8 DEF r, b, e, PortRecord
    <3> HIDE DEF q
    <3>10. /\ Right(i, [q EXCEPT !.banner = e], heard', reported')
           /\ Grown(q, [q EXCEPT !.banner = e])
      BY <3>4, <3>5, <3>7, BannerAdded
    <3> QED BY <3>2, <3>5, <3>9, <3>10 DEF Grown
  <2> QED BY <2>2, <2>3
<1>5. port_res' = [i \in DOMAIN Ports |-> port_res'[i]]
  BY <1>1
<1> QED BY <1>4, <1>5 DEF RecordsRight, RecordsGrow

LEMMA MergeScriptsStep ==
  ASSUME RecordsRight, NEW pair \in todo, MergeScripts(pair)
  PROVE  RecordsRight' /\ RecordsGrow
<1>1. port_res' = [i \in DOMAIN Ports |->
        IF i \notin Found(pair) THEN port_res[i]
        ELSE [port_res[i] EXCEPT !.banner = ExtendedBanner(port_res[i].banner, <<"script">>)]]
  BY DEF MergeScripts
<1>2. heard' = heard /\ reported' = reported
  BY DEF MergeScripts
<1>3. ASSUME NEW i \in DOMAIN Ports
      PROVE  Right(i, port_res'[i], heard', reported') /\ Grown(port_res[i], port_res'[i])
  <2>1. Right(i, port_res[i], heard', reported')
    BY <1>2 DEF RecordsRight
  <2>2. CASE i \notin Found(pair)
    BY <1>1, <2>1, <2>2, Untouched
  <2>3. CASE i \in Found(pair)
    <3> DEFINE e == ExtendedBanner(port_res[i].banner, <<"script">>)
    <3>1. port_res[i].banner \in Banners
          /\ (~port_res[i].banner.some => port_res[i].banner.parts = <<>>)
      BY <2>1 DEF Right, PortRecord
    <3>2. <<"script">> \in Seq(Texts)
      BY TextsOfBanners
    <3>3. e \in Banners /\ (~e.some => e.parts = <<>>)
          /\ IsPrefix(port_res[i].banner.parts, e.parts)
      BY <3>1, <3>2, Extended
    <3>4. port_res'[i] = [port_res[i] EXCEPT !.banner = e]
      BY <1>1, <2>3
    <3> HIDE DEF e
    <3> QED BY <2>1, <3>3, <3>4, BannerAdded
  <2> QED BY <2>2, <2>3
<1>4. port_res' = [i \in DOMAIN Ports |-> port_res'[i]]
  BY <1>1
<1> QED BY <1>3, <1>4 DEF RecordsRight, RecordsGrow

LEMMA RecordStep ==
  ASSUME RecordsRight, [Next]_vars
  PROVE  RecordsRight' /\ RecordsGrow
<1>1. CASE GrabBanner
  BY <1>1, GrabBannerStep
<1>2. CASE IdentifyUdp
  BY <1>2, IdentifyUdpStep
<1>3. CASE RunPlugin
  BY <1>3, RunPluginStep
<1>4. CASE PassBy \/ EndStage \/ CollectForNmap \/ NmapFails \/ NmapSucceeds \/ EndMerge
           \/ Done \/ UNCHANGED vars
  BY <1>4, NoRecord
     DEF PassBy, EndStage, CollectForNmap, NmapFails, NmapSucceeds, EndMerge, Done, vars
<1>5. ASSUME NEW ip \in LiveHosts, MergeOs(ip)
      PROVE  RecordsRight' /\ RecordsGrow
  BY <1>5, NoRecord DEF MergeOs
<1>6. ASSUME NEW pair \in todo, MergeService(pair) \/ MergeScripts(pair) \/ MergeNothing(pair)
      PROVE  RecordsRight' /\ RecordsGrow
  BY <1>6, MergeServiceStep, MergeScriptsStep, NoRecord DEF MergeNothing
<1> QED BY <1>1, <1>2, <1>3, <1>4, <1>5, <1>6 DEF Next

-----------------------------------------------------------------------------
LEMMA Initially == Init => IInv
<1> SUFFICES ASSUME Init PROVE IInv
  OBVIOUS
<1>1. PICK t \in DOMAIN Statuses : \E s \in [DOMAIN Ports -> Statuses[t]] :
        port_res = [i \in DOMAIN Ports |->
                      [status |-> s[i], protocol |-> t, service |-> None,
                       confidence |-> NoConfidence, source |-> None,
                       banner |-> NoBanner, cpe |-> FALSE]]
  BY DEF Init
<1>2. PICK s \in [DOMAIN Ports -> Statuses[t]] :
        port_res = [i \in DOMAIN Ports |->
                      [status |-> s[i], protocol |-> t, service |-> None,
                       confidence |-> NoConfidence, source |-> None,
                       banner |-> NoBanner, cpe |-> FALSE]]
  BY <1>1
<1>3. t \in TransportProtocol /\ Statuses[t] \subseteq PortStatus
  BY EnrichmentAssumption DEF EnrichmentAssumption
<1>4. NoBanner \in Banners /\ ~NoBanner.some /\ NoBanner.parts = <<>>
  BY TextsOfBanners DEF NoBanner, Banners
<1>5. RecordsRight
  <2>1. \A i \in DOMAIN Ports : Right(i, port_res[i], heard, reported)
    <3> TAKE i \in DOMAIN Ports
    <3>1. s[i] \in PortStatus /\ None \in Names
      BY <1>2, <1>3 DEF Names
    <3>2. port_res[i] = [status |-> s[i], protocol |-> t, service |-> None,
                         confidence |-> NoConfidence, source |-> None,
                         banner |-> NoBanner, cpe |-> FALSE]
      BY <1>2
    <3>3. port_res[i] \in PortRecord
      BY <1>3, <1>4, <3>1, <3>2 DEF PortRecord
    <3> QED BY <1>4, <3>2, <3>3 DEF Right, None
  <2> QED BY <1>2, <2>1 DEF RecordsRight
<1>6. pc = "banner" /\ todo = {} /\ os = {}
  BY DEF Init
<1> QED BY <1>5, <1>6 DEF IInv, TypeOK, RecordsRight, Right, PortRecord

(* Nothing is asked of Nmap, and no host gets an OS, beyond what the scan   *)
(* found worth it.                                                          *)
LEMMA Inductive == IInv /\ [Next]_vars => IInv' /\ RecordsGrow
<1> SUFFICES ASSUME IInv, [Next]_vars PROVE IInv' /\ RecordsGrow
  OBVIOUS
<1>1. RecordsRight' /\ RecordsGrow
  BY RecordStep DEF IInv
<1>2. LiveHosts' = LiveHosts /\ Asked' = Asked
  BY <1>1, VerdictsStay DEF IInv
<1>3. todo \subseteq Asked /\ os \subseteq LiveHosts
      /\ pc \in {"banner", "udp", "plugins", "collect", "nmap", "merge", "done"}
  BY DEF IInv, TypeOK
<1>4. todo' \subseteq Asked /\ os' \subseteq LiveHosts
      /\ pc' \in {"banner", "udp", "plugins", "collect", "nmap", "merge", "done"}
  <2>1. CASE GrabBanner \/ IdentifyUdp \/ RunPlugin \/ PassBy \/ EndStage \/ Done
             \/ UNCHANGED vars
    BY <1>3, <2>1 DEF GrabBanner, IdentifyUdp, RunPlugin, PassBy, EndStage, Done, vars
  <2>2. CASE CollectForNmap \/ NmapFails \/ NmapSucceeds \/ EndMerge
    BY <1>3, <2>2 DEF CollectForNmap, NmapFails, NmapSucceeds, EndMerge
  <2>3. ASSUME NEW ip \in LiveHosts, MergeOs(ip)
        PROVE  todo' = todo /\ os' \subseteq LiveHosts /\ pc' = pc
    BY <1>3, <2>3 DEF MergeOs
  <2>4. ASSUME NEW pair \in todo,
               MergeService(pair) \/ MergeScripts(pair) \/ MergeNothing(pair)
        PROVE  todo' \subseteq todo /\ os' = os /\ pc' = pc
    BY <2>4 DEF MergeService, MergeScripts, MergeNothing
  <2> QED BY <1>3, <2>1, <2>2, <2>3, <2>4 DEF Next
<1>5. \A i \in DOMAIN Ports : port_res'[i] \in PortRecord
                              /\ (~port_res'[i].banner.some => port_res'[i].banner.parts = <<>>)
  BY <1>1 DEF RecordsRight, Right
<1>6. TypeOK'
  <2>1. DOMAIN port_res' = DOMAIN Ports
    BY <1>1 DEF RecordsRight
  <2> QED BY <1>2, <1>4, <1>5, <2>1 DEF TypeOK, PortRecord
<1> QED BY <1>1, <1>6 DEF IInv

LEMMA Safe == Spec => []IInv
<1>1. IInv /\ [Next]_vars => IInv'
  BY Inductive
<1> QED BY Initially, <1>1, PTL DEF Spec

(* Through every stage a record keeps its types, a confidence stays on the  *)
(* scale, and Nmap is asked only about live hosts and plausibly open ports. *)
THEOREM TypeCorrect == Spec => []TypeOK
<1>1. IInv => TypeOK
  BY DEF IInv
<1> QED BY <1>1, Safe, PTL

(* A label, its confidence and its source come and go together, whichever   *)
(* of the stages wrote them (model.rs:45).                                  *)
THEOREM LabelsAreComplete == Spec => []LabelComplete
<1>1. IInv => LabelComplete
  BY DEF IInv, RecordsRight, Right, LabelComplete
<1> QED BY <1>1, Safe, PTL

(* A native label names a signature seen in an answer of that very port.    *)
THEOREM NativeLabelsWereHeard == Spec => []NativeLabelHeard
<1>1. IInv => NativeLabelHeard
  BY DEF IInv, RecordsRight, Right, NativeLabelHeard
<1> QED BY <1>1, Safe, PTL

(* A label from Nmap is on the host and port Nmap reported it for, even     *)
(* when the same port is open on several hosts.                             *)
THEOREM NmapLabelsWereReported == Spec => []NmapLabelReported
<1>1. IInv => NmapLabelReported
  BY DEF IInv, RecordsRight, Right, NmapLabelReported
<1> QED BY <1>1, Safe, PTL

(* No stage changes a verdict, or loses what an earlier one wrote into a    *)
(* banner.                                                                  *)
THEOREM EvidenceIsKept == Spec => EvidenceKept
<1>1. IInv /\ [Next]_vars
        => [\A i \in DOMAIN Ports :
              /\ port_res'[i].status = port_res[i].status
              /\ IsPrefix(port_res[i].banner.parts, port_res'[i].banner.parts)]_vars
  BY Inductive DEF RecordsGrow, Grown
<1> QED BY <1>1, Safe, PTL DEF Spec, EvidenceKept

=============================================================================
