-------------------------------- MODULE Ftp --------------------------------
(***************************************************************************)
(* probe_ftp of src/enumeration/ftp.rs: greeting, USER, PASS.  A reply is  *)
(* whatever one read returns, so a reply that arrives in pieces puts the   *)
(* dialogue out of step with the server.                                   *)
(*                                                                         *)
(* A piece is the code a read that begins with it would find: a code the   *)
(* server sent, Text where there is none, or, since the network and the    *)
(* 512 bytes a read has room for may cut anywhere, three digits of a       *)
(* reply's text that only look like one.  The pieces on their way are a    *)
(* queue, and a read takes what has arrived of it, at least one piece.     *)
(***************************************************************************)
EXTENDS EnumStage

Text == 0

\* An empty line: clean() leaves nothing of it.
Blank == 1

\* Numbers in front of which the text of a reply may be cut.
Lookalikes == {230, 331}

\* The ways a server or the network may cut up a reply: not at all, after a
\* line of its own code, inside its text, inside the code (the first piece is
\* then the negative of it).
Cuts(code) ==
  {<<code>>, <<-code, Text>>} \cup {<<code, piece>> : piece \in {code, Text} \cup Lookalikes}

Greetings == Cuts(220) \cup {<<Blank>>}

\* reply_code of what a read of n pieces returns, and what the read leaves.
Code(wire, n) ==
  IF Head(wire) >= 0 THEN Head(wire) ELSE IF n > 1 THEN -Head(wire) ELSE Text
Rest(wire, n) == SubSeq(wire, n + 1, Len(wire))

\* A read that leaves something behind is out of step from there on.
Remains(wire, n) == IF n < Len(wire) THEN {"leftover"} ELSE {}

\* What the server has done by sending such a reply: granted the login, or
\* only written a text in which a login granted may be read.
Meant(reply, cut) ==
  IF reply = 230 THEN {"granted"}
  ELSE IF 230 \in ToSet(cut) THEN {"misleading"} ELSE {}

\* build_findings.
FtpFindings(banner, anonymous) ==
  (IF banner = Blank THEN <<>> ELSE <<Finding("banner", Here, "Info", banner)>>)
  \o (IF anonymous THEN <<Finding("anonymous", Here, "High", "accepted")>> ELSE <<>>)

-----------------------------------------------------------------------------
\* The connect fails or times out, or the server's greeting is on its way.
FtpConnect ==
  /\ Begins("ftp")
  /\ Touch(Head(todo).host)
  /\ \/ Conclude(<<>>) /\ UNCHANGED seen
     \/ \E cut \in Greetings :
          /\ Continue("greeting", [wire |-> cut, banner |-> Text])
          /\ Saw(Here, Meant(220, cut))

\* No greeting in time ends the probe, and so does a USER that cannot be sent:
\* the greeting that was read is dropped with it.
FtpGreeting ==
  /\ At("ftp", "greeting")
  /\ \/ Conclude(<<>>) /\ Saw(Here, {"lost"})
     \/ \E n \in 1..Len(local.wire), reply \in {230, 331, 530} : \E cut \in Cuts(reply) :
          /\ Continue("user", [wire |-> Rest(local.wire, n) \o cut,
                               banner |-> Code(local.wire, n)])
          /\ Saw(Here, Remains(local.wire, n) \cup Meant(reply, cut))
  /\ UNCHANGED contacts

\* Mutant: the request for a password is taken for a login.
FtpUserEager ==
  /\ At("ftp", "user")
  /\ \/ Conclude(FtpFindings(local.banner, FALSE)) /\ Saw(Here, {"lost"})
     \/ \E n \in 1..Len(local.wire) :
          /\ Conclude(FtpFindings(local.banner, Code(local.wire, n) \in {230, 331}))
          /\ Saw(Here, Remains(local.wire, n))
  /\ UNCHANGED contacts

\* The reply to USER, or what is taken for it.
FtpUser ==
  /\ At("ftp", "user")
  /\ \/ Conclude(FtpFindings(local.banner, FALSE)) /\ Saw(Here, {"lost"})
     \/ \E n \in 1..Len(local.wire) :
          IF Code(local.wire, n) # 331
          THEN /\ Conclude(FtpFindings(local.banner, Code(local.wire, n) = 230))
               /\ Saw(Here, Remains(local.wire, n))
          ELSE \/ Conclude(<<>>) /\ Saw(Here, {"lost"})
               \/ \E reply \in {230, 530} : \E cut \in Cuts(reply) :
                    /\ Continue("pass", [wire |-> Rest(local.wire, n) \o cut,
                                         banner |-> local.banner])
                    /\ Saw(Here, Remains(local.wire, n) \cup Meant(reply, cut))
  /\ UNCHANGED contacts

\* The reply to PASS, or what is taken for it.
FtpPass ==
  /\ At("ftp", "pass")
  /\ \/ Conclude(FtpFindings(local.banner, FALSE)) /\ Saw(Here, {"lost"})
     \/ \E n \in 1..Len(local.wire) :
          /\ Conclude(FtpFindings(local.banner, Code(local.wire, n) = 230))
          /\ Saw(Here, Remains(local.wire, n))
  /\ UNCHANGED contacts

FtpStep == FtpConnect \/ FtpGreeting \/ FtpUser \/ FtpPass

-----------------------------------------------------------------------------
FtpLocals ==
  pc = "ftp" /\ step \notin {"enter", "idle"} =>
    /\ step \in {"greeting", "user", "pass"}
    /\ local.wire # <<>> /\ Len(local.wire) <= 4

(* An anonymous login is reported (High) only where the server granted one, *)
(* however its replies were cut up and whatever read they ended up in,      *)
(* unless a read left behind a text that was cut in front of the digits of  *)
(* a login granted; and where each read returned one whole reply and        *)
(* nothing was lost, a granted login is reported (ftp.rs:133-144).          *)
LoginAsGranted ==
  \A r \in ToSet(summary) :
    LET p == Place(r)
        granted == Happened("ftp", p, "granted")
        misread == Happened("ftp", p, "leftover") /\ Happened("ftp", p, "misleading")
        in_step == ~Happened("ftp", p, "leftover") /\ ~Happened("ftp", p, "lost")
        logged_in == Found("ftp", "anonymous", p) # {}
    IN /\ logged_in => granted \/ misread
       /\ granted /\ in_step /\ DoneWith("ftp", p) => logged_in

=============================================================================
