-------------------------------- MODULE Http --------------------------------
(***************************************************************************)
(* src/enumeration/http.rs: fetch asks for "/" and keeps what arrives in   *)
(* time, enumerate_host reports telling headers and extract_title the      *)
(* title.  The title is found in a lower-case copy of the body and cut out *)
(* of the body itself at the same offsets, so what matters of a character  *)
(* is how many bytes it and its lower case take.                           *)
(*                                                                         *)
(* A response is a sequence of tokens <<kind, text>>: the status line,     *)
(* header lines (of the kind that is their lower-case name), the empty     *)
(* line, and the body, character by character.  Of a tag's bytes, all      *)
(* plain characters, one is kept.                                          *)
(***************************************************************************)
EXTENDS EnumStage, FiniteSetsExt

CONSTANT Pages       \* the responses served

\* A response that is no HTTP has another text in its first line.
StatusLine == <<"status", "HTTP/">>
EmptyLine == <<"empty", "">>
Body(c) == <<"body", c>>

\* The characters behind the empty line are the body, and only they are.  No
\* value reads like the mark of a value that is not all there.
ASSUME HttpAssumption ==
  \A page \in Pages :
    /\ page \in Seq(ToSet(page))
    /\ \A i \in DOMAIN page : page[i] = <<page[i][1], page[i][2]>> /\ page[i][2] # "cut"
    /\ \A i, j \in DOMAIN page : i < j /\ page[i] = EmptyLine => page[j][1] = "body"
    /\ \A j \in DOMAIN page :
         page[j][1] = "body" => \E i \in 1..(j - 1) : page[i] = EmptyLine

OpenTag == Body("<title>")
CloseTag == Body("</title>")

\* Characters whose lower case takes more bytes, or fewer.
Growing == Body("dotted I")
Shrinking == Body("Kelvin K")

Odd == {Growing, Shrinking}

\* Bytes of a character, and of its lower case.
Bytes(t) == CASE t = Growing -> 2 [] t = Shrinking -> 3 [] OTHER -> 1
LowerBytes(t) == CASE t = Growing -> 3 [] t = Shrinking -> 1 [] OTHER -> 1

\* Two of the eight names in the list.
TECH_HEADERS == <<"server", "via">>

\* A token that is a header line, and such a line with the end of its value
\* not there yet.
IsHeader(t) == t[1] \notin {"status", "empty", "body"}
Cut(t) == <<t[1], "cut">>

\* What has arrived when the read ends, for whatever reason it does: some of
\* the response, which may end in the middle of a header's value.
Arrivals(page) ==
  {SubSeq(page, 1, n) : n \in 0..Len(page)} \cup
  {Append(SubSeq(page, 1, n - 1), Cut(page[n])) : n \in {k \in DOMAIN page : IsHeader(page[k])}}

\* splitn at the first empty line; there is no body without one.
Positions(raw, t) == {i \in DOMAIN raw : raw[i] = t}
Split(raw) ==
  IF Positions(raw, EmptyLine) = {} THEN [head |-> raw, body |-> <<>>]
  ELSE LET i == Min(Positions(raw, EmptyLine))
       IN  [head |-> SubSeq(raw, 1, i - 1), body |-> SubSeq(raw, i + 1, Len(raw))]

\* headers: a HashMap, so the last line of a name is the one that stays.
Headers(head) ==
  [name \in {head[i][1] : i \in 2..Len(head)} |->
     head[Max({i \in 2..Len(head) : head[i][1] = name})][2]]

-----------------------------------------------------------------------------
\* Where the first n characters end, in the body and in its lower case.
Offset(body, n) == MapThenSumSet(LAMBDA i : Bytes(body[i]), 1..n)
LowerOffset(body, n) == MapThenSumSet(LAMBDA i : LowerBytes(body[i]), 1..n)

\* body.get(from..to): nothing if an offset is past the end or inside a
\* character.
Slice(body, from, to) ==
  LET Boundary(offset) == {n \in 0..Len(body) : Offset(body, n) = offset}
  IN  {SubSeq(body, m + 1, n) : m \in Boundary(from), n \in Boundary(to)}

\* extract_title, as the set of at most one title; an empty one is None.
Titles(body) ==
  LET ends(i) == {k \in Positions(body, CloseTag) : k > i}
  IN  IF Positions(body, OpenTag) = {} \/ ends(Min(Positions(body, OpenTag))) = {} THEN {}
      ELSE LET i == Min(Positions(body, OpenTag))
           IN  Slice(body, LowerOffset(body, i), LowerOffset(body, Min(ends(i)) - 1)) \ {<<>>}

HttpFinding(kind, evidence) == <<Finding(kind, Here, "Info", evidence)>>

\* Mutant: a body whose read did not come to its end is not looked at.
HttpFindingsOfWhole(raw) ==
  LET split == Split(raw)
      headers == Headers(split.head)
      Header(name) ==
        IF name \in DOMAIN headers THEN HttpFinding(name, headers[name]) ELSE <<>>
  IN  IF raw = <<>> \/ raw[1] # StatusLine THEN <<>>
      ELSE FlattenSeq([i \in DOMAIN TECH_HEADERS |-> Header(TECH_HEADERS[i])])
           \o (IF raw \notin Pages THEN <<>>
               ELSE FlattenSeq(SetToSeq({HttpFinding("title", t) : t \in Titles(split.body)})))

\* What enumerate_host makes of what has arrived.
HttpFindings(raw) ==
  LET split == Split(raw)
      headers == Headers(split.head)
      Header(name) ==
        IF name \in DOMAIN headers THEN HttpFinding(name, headers[name]) ELSE <<>>
  IN  IF raw = <<>> \/ raw[1] # StatusLine THEN <<>>
      ELSE FlattenSeq([i \in DOMAIN TECH_HEADERS |-> Header(TECH_HEADERS[i])])
           \o FlattenSeq(SetToSeq({HttpFinding("title", t) : t \in Titles(split.body)}))

HttpConnect ==
  /\ Begins("http")
  /\ Touch(Head(todo).host)
  /\ Conclude(<<>>) \/ Continue("asked", <<>>)
  /\ UNCHANGED seen

\* read_to_end ends with the response, with an error or with the time.
HttpRead ==
  /\ At("http", "asked")
  /\ \E page \in Pages : \E raw \in Arrivals(page) :
       Conclude(HttpFindings(raw)) /\ Saw(Here, {raw})
  /\ UNCHANGED contacts

HttpStep == HttpConnect \/ HttpRead

-----------------------------------------------------------------------------
\* The title of what has arrived, as the server wrote it.
Served(raw) ==
  {SubSeq(raw, tags[1] + 1, tags[2] - 1) :
     tags \in {ik \in Positions(raw, OpenTag) \X Positions(raw, CloseTag) :
                 /\ ik[1] < ik[2]
                 /\ \A j \in 1..(ik[2] - 1) : raw[j] = OpenTag => j >= ik[1]
                 /\ \A j \in (ik[1] + 1)..(ik[2] - 1) : raw[j] # CloseTag}} \ {<<>>}

ReportedTitles(p) == {f.evidence : f \in Found("http", "title", p)}

\* What was served last under a name.
LastServed(raw, name) ==
  {raw[i][2] : i \in {k \in 2..Len(raw) :
     raw[k][1] = name /\ \A j \in (k + 1)..Len(raw) : raw[j][1] # name}}

(* However little of a response has arrived, and however often the port is  *)
(* asked: of bodies without characters whose lower case has another length, *)
(* the titles reported are the ones served, as soon as the end tag is       *)
(* there; the header values reported are the last ones to arrive under      *)
(* their names, none left out, and one is cut short only where the end of   *)
(* the head has not arrived (http.rs:101-116).                              *)
PageAsReceived ==
  \A r \in ToSet(summary) :
    LET p == Place(r)
        raws == {s[3] : s \in {q \in seen : q[1] = "http" /\ q[2] = p}}
        answers == {raw \in raws : raw # <<>> /\ raw[1] = StatusLine}
    IN /\ (\A raw \in raws : ToSet(raw) \cap Odd = {}) =>
            ReportedTitles(p) = UNION {Served(raw) : raw \in answers}
       /\ \A name \in ToSet(TECH_HEADERS) :
            LET values == {f.evidence : f \in Found("http", name, p)} IN
            /\ values = UNION {LastServed(raw, name) : raw \in answers}
            /\ "cut" \in values => \E raw \in answers : EmptyLine \notin ToSet(raw)

=============================================================================
