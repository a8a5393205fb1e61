---------------------------- MODULE MCTargetScope ----------------------------
(* Instances of TargetScope for TLC.                                        *)
EXTENDS TargetScope

\* A network that holds the single address, a hostname that may resolve into
\* it, a second hostname behind the same front end and a blank string.
MixedTargets ==
  <<Address(3), Hostname("web"), Blank, Network(<<3, 4>>), Hostname("cdn"),
    WithPort("dev")>>

SomeAnswers ==
  [web |-> {NoAnswer, <<1>>, <<2, 1>>}, cdn |-> {NoAnswer, <<2>>, <<5, 2>>},
   dev |-> {<<6>>, <<4>>}]

\* No scope, a denied address, a denied address inside an allowed network,
\* an allow list of comments only and a malformed line.
NoScope == {[allow |-> <<>>, deny |-> <<>>]}
SomeScopes ==
  NoScope \cup
  {[allow |-> <<>>, deny |-> <<Network(<<3>>)>>],
   [allow |-> <<Network(<<1, 2, 3, 4>>), Blank>>, deny |-> <<Blank, Network(<<3>>)>>],
   [allow |-> <<Blank, Network(<<6>>)>>, deny |-> <<Network(<<1, 2>>)>>],
   [allow |-> <<Blank>>, deny |-> <<Blank>>],
   [allow |-> <<Network(<<1>>), [form |-> "bad"]>>, deny |-> <<>>]}

\* A hostname that names an address given before.
RepeatedTargets == <<Hostname("web"), Address(4), Hostname("web")>>
FixedAnswers == [web |-> {<<1>>}]

=============================================================================
