-------------------------------- MODULE MCCheck --------------------------------
(* The parts of `check` that share no state, for TLC in one run: a behaviour *)
(* is one of one part, and the others stay where they begin.                 *)
EXTENDS MCAnalysis, Config, Intake, Consult, Capture, Keys

VARIABLE part

checkVars == <<part, vars, configVars, intakeVars, consultVars, captureVars, keyVars>>

-----------------------------------------------------------------------------
\* Config files of up to three lines, loaded by one command; and a file that is
\* edited while two commands run.
Setting(k, v) == [key |-> k, value |-> v]
MCDefault == [mode |-> "shadow", budget |-> "3"]
MCValid == [mode |-> {"shadow", "confirm"}, budget |-> {"3", "9"}]
MCSettings ==
  {Setting("mode", v) : v \in {"confirm", "shadow", "bad"}}
    \cup {Setting("budget", v) : v \in {"9", "bad"}}
    \cup {Setting("other", "9"), Setting("no equals sign", ""), Setting("blank", "")}
OneMistake == <<Setting("mode", "bad")>>
TwoMistakes == <<Setting("mode", "bad"), Setting("other", "9")>>
ConfigStarts ==
  \/ \E f \in Upto(MCSettings, 3) \cup {NoFile}, p \in Commands : ConfigStart(f, {}, {p})
  \/ \E f \in {OneMistake, TwoMistakes} : ConfigStart(f, {OneMistake, TwoMistakes}, Commands)

-----------------------------------------------------------------------------
\* Command lines that end before, at and after the cap, also inside a character;
\* names and recency lines good and bad.
As(n) == [k \in 1..n |-> "a"]
NoPayload == [buffer |-> <<>>, names |-> <<>>, recency |-> <<>>, sections |-> 1]
MCKinds == {"a", "lead", "cont", "bad", "0", "1", "9", "w", "s", "$", Nul, Newline}
MCPayloads ==
  [buffer : {<<"a">>, <<"a", "lead", "cont">>, <<"lead", "cont", "bad">>}
              \cup {As(n) : n \in {InputCap - 8, InputCap - 6, InputCap, InputCap + 1}}
              \cup {As(n) \o <<"lead", "cont">> : n \in {InputCap - 2, InputCap - 1}},
   names : {<<>>, <<<<"a">>, <<"a", "bad">>, <<"a", "lead", "cont">>, <<"a">>>>},
   recency : {<<>>, <<<<"1", "0", "w", "s">>, <<"9", "0">>, <<"1", "1", "$">>>>},
   sections : 1..3]
MCFlagLists ==
  {<<>>, <<"--res", "none">>, <<"--later", "--res", "alias", "--res">>, <<"--res", "--res", "none">>}

-----------------------------------------------------------------------------
\* Replies of a model server: whole, torn, padded, or wrongly framed.
Doc(n) == SubSeq(<<"d1", "d2", "d3", "d4">>, 1, n)
Header == <<"h", Blank>>
MCSizeOf == ("0" :> 0) @@ ("1" :> 1) @@ ("2" :> 2) @@ ("3" :> 3)
Reply(status, framing, length, body) ==
  [status |-> status, framing |-> framing, length |-> length, head |-> Header, body |-> body,
   doc |-> Doc(2), good |-> TRUE]
ChunkedBodies ==
  {<<"2", "d1", "d2", Crlf, "0">>, <<"1", "d1", Crlf, Pad, "1", "d2", Crlf, "0", "n">>,
   <<"1", "d1", Crlf, "bad">>, <<"2", "d1", "d2", "n", "0">>, <<"2", "d1", "d2", Crlf>>,
   <<"3", "d1", "d2", "d3", Crlf, "0">>, [k \in 1..12 |-> Pad],
   <<"1", "d1", Crlf>> \o [k \in 1..12 |-> Pad]}
MCReplies ==
  {[Reply("2xx", "close", 2, b) EXCEPT !.good = g] : b \in {Doc(1), Doc(2)}, g \in BOOLEAN}
    \cup {[Reply("2xx", "close", 2, <<>>) EXCEPT !.head = <<"h", "h", "h", "h">>]}
    \cup {Reply("2xx", "length", n, b) : n \in {2, 9}, b \in {Doc(1), Doc(2), Doc(2) \o <<"n">>}}
    \cup {Reply(s, "length", 2, Doc(2)) : s \in {"5xx", "garbled"}}
    \cup {Reply("2xx", "chunked", 0, b) : b \in ChunkedBodies}

-----------------------------------------------------------------------------
\* Keys, and escape sequences that end early, late or in a byte that is a key.
MCBytes ==
  {"y", "n", "tab", "enter", "ctrlC", "e", "c", "r", "x", "esc", "O", "[", "A", "1", ";"}
MCEvents ==
  {<<k>> : k \in {"y", "n", "tab", "enter", "ctrlC", "e", "c", "r", "x", "esc"}}
    \cup {<<"esc", k>> : k \in {"y", "r", "enter"}}
    \cup {<<"esc", "O", k>> : k \in {"y", "r", "A"}}
    \cup {<<"esc", "[">> \o p \o <<k>> :
            k \in {"y", "r", "A"}, p \in {<<>>, <<"1">>, <<"1", ";">>, <<"1", ";", "1">>}}

-----------------------------------------------------------------------------
AnalysisIdle == CheckStart([line |-> <<>>, resolved |-> TRUE])
ConfigIdle == ConfigStart(<<>>, {}, {})
IntakeIdle == IntakeStart(NoPayload, <<>>)
ConsultIdle == ConsultStart(4)
KeysIdle == KeysStart("typo")

MCInit ==
  \/ /\ part = "analysis" /\ Init
     /\ ConfigIdle /\ IntakeIdle /\ ConsultIdle /\ CaptureInit /\ KeysIdle
  \/ /\ part = "config" /\ ConfigStarts
     /\ AnalysisIdle /\ IntakeIdle /\ ConsultIdle /\ CaptureInit /\ KeysIdle
  \/ /\ part = "intake" /\ IntakeInit
     /\ AnalysisIdle /\ ConfigIdle /\ ConsultIdle /\ CaptureInit /\ KeysIdle
  \/ /\ part = "consult" /\ ConsultInit
     /\ AnalysisIdle /\ ConfigIdle /\ IntakeIdle /\ CaptureInit /\ KeysIdle
  \/ /\ part = "capture" /\ CaptureInit
     /\ AnalysisIdle /\ ConfigIdle /\ IntakeIdle /\ ConsultIdle /\ KeysIdle
  \/ /\ part = "keys" /\ KeysInit
     /\ AnalysisIdle /\ ConfigIdle /\ IntakeIdle /\ ConsultIdle /\ CaptureInit

MCNext ==
  \/ /\ part = "analysis" /\ Next
     /\ UNCHANGED <<part, configVars, intakeVars, consultVars, captureVars, keyVars>>
  \/ /\ part = "config" /\ ConfigNext
     /\ UNCHANGED <<part, vars, intakeVars, consultVars, captureVars, keyVars>>
  \/ /\ part = "intake" /\ IntakeNext
     /\ UNCHANGED <<part, vars, configVars, consultVars, captureVars, keyVars>>
  \/ /\ part = "consult" /\ ConsultNext
     /\ UNCHANGED <<part, vars, configVars, intakeVars, captureVars, keyVars>>
  \/ /\ part = "capture" /\ CaptureNext
     /\ UNCHANGED <<part, vars, configVars, intakeVars, consultVars, keyVars>>
  \/ /\ part = "keys" /\ KeysNext
     /\ UNCHANGED <<part, vars, configVars, intakeVars, consultVars, captureVars>>

MCSpec == MCInit /\ [][MCNext]_checkVars
===============================================================================
