--------------------------------- MODULE Keys ---------------------------------
(***************************************************************************)
(* The keys of a prompt (src/ui.rs): how bytes from the terminal become    *)
(* keys, and keys an answer.                                               *)
(*                                                                         *)
(* The terminal sends events: one byte for most keys, an escape sequence   *)
(* for the others.  Its bytes may be apart by any time; a gap longer than  *)
(* the drain timeout ends a sequence for the reader, and the prompt with   *)
(* it.  A lone ESC is followed by such a gap.                              *)
(***************************************************************************)
EXTENDS Integers, Sequences

CONSTANTS
  Bytes,      \* what a byte may be
  Events,     \* what the terminal may send
  Final,      \* bytes that end a CSI sequence
  Parameter,  \* bytes that go on with one
  CsiBytes,   \* CSI_FAST_BYTES + CSI_DRAIN_BYTES
  MaxKeys     \* MAX_PROMPT_KEYS

Esc == "esc"

\* One byte; Alt and a character; SS3, with one more byte; or CSI, at most the
\* last byte of which ends it.
OneSequence(e) ==
  \/ Len(e) = 1
  \/ e[1] = Esc /\ Len(e) = 2 /\ e[2] \notin {"[", "O"}
  \/ e[1] = Esc /\ Len(e) = 3 /\ e[2] = "O"
  \/ e[1] = Esc /\ Len(e) > 2 /\ e[2] = "[" /\ \A k \in 3..(Len(e) - 1) : e[k] \notin Final

ASSUME KeysAssumption ==
  /\ CsiBytes \in Nat \ {0} /\ MaxKeys \in Nat \ {0}
  /\ \A e \in Events : e \in Seq(Bytes) /\ OneSequence(e)

VARIABLES
  prompt,     \* "typo" or "warning"
  reading,    \* what is read next, or "done"
  room,       \* bytes a CSI sequence may still have
  left,       \* keys that will still be examined
  focus,      \* the choice Enter would take
  lit,        \* history variable: the choice that is highlighted on the screen
  event,      \* the terminal's current event
  pending,    \* its bytes that have not been read
  drawn,      \* the last write to the terminal succeeded
  choice      \* the answer, or "none"

input == <<event, pending>>
keyVars == <<prompt, reading, room, left, focus, lit, input, drawn, choice>>

Flip(f) == IF f = "correction" THEN "original" ELSE "correction"

\* The answers of single keys; a prompt goes on at any other.
TypoAnswers ==
  [y |-> "correct", Y |-> "correct", n |-> "original", N |-> "original", ctrlC |-> "cancel"]
WarningAnswers ==
  [e |-> "edit", E |-> "edit", c |-> "cancel", C |-> "cancel", ctrlC |-> "cancel",
   r |-> "run", R |-> "run"]

KeysStart(p) ==
  /\ prompt = p /\ reading = "draw" /\ room = 0 /\ left = MaxKeys
  /\ focus = "original" /\ lit = "nothing"
  /\ event = <<>> /\ pending = <<>> /\ drawn = TRUE /\ choice = "none"
KeysInit == \E p \in {"typo", "warning"} : KeysStart(p)

Answered(a) == reading' = "done" /\ choice' = a /\ UNCHANGED left

\* A key that decides nothing; with the last of them the prompt is over.
Exhausted == IF prompt = "typo" THEN "original" ELSE "timeout"
GoOn ==
  /\ left' = left - 1
  /\ IF left = 1 THEN reading' = "done" /\ choice' = Exhausted
                 ELSE reading' = "key" /\ UNCHANGED choice

\* The prompt is drawn, the original highlighted; otherwise nothing is asked.
Draw ==
  /\ reading = "draw"
  /\ \E ok \in BOOLEAN :
       /\ drawn' = ok
       /\ IF ok THEN /\ reading' = "key" /\ lit' = focus /\ UNCHANGED <<left, choice>>
                ELSE /\ Answered(IF prompt = "typo" THEN "original" ELSE "not shown")
                     /\ UNCHANGED lit
  /\ UNCHANGED <<prompt, room, focus, input>>

-----------------------------------------------------------------------------
(* A key *)

Highlight(f) == lit' = f

\* Tab redraws the choices; when that fails the original runs.
Toggle ==
  /\ focus' = Flip(focus)
  /\ \E ok \in BOOLEAN :
       /\ drawn' = ok
       /\ IF ok THEN Highlight(Flip(focus)) /\ GoOn ELSE Answered("original") /\ UNCHANGED lit

\* Any other key of a typo prompt is the answer that changes nothing.
TypoKey(b) ==
  IF b = "tab" THEN Toggle
  ELSE /\ Answered(IF b \in DOMAIN TypoAnswers THEN TypoAnswers[b]
                   ELSE IF b = "enter" /\ focus = "correction" THEN "correct" ELSE "original")
       /\ UNCHANGED <<focus, lit, drawn>>

WarningKey(b) ==
  /\ IF b \in DOMAIN WarningAnswers THEN Answered(WarningAnswers[b]) ELSE GoOn
  /\ UNCHANGED <<focus, lit, drawn>>

-----------------------------------------------------------------------------
(* Bytes *)

\* What may be read: the rest of the current event, or a new one for a new key.
Upcoming == IF pending # <<>> THEN {pending} ELSE IF reading = "key" THEN Events ELSE {}
Take(e) == pending' = Tail(e) /\ event' = IF pending = <<>> THEN e ELSE event

ReadKey ==
  /\ reading = "key"
  /\ \E e \in Upcoming :
       /\ Take(e)
       /\ IF Head(e) = Esc
          THEN reading' = "escape" /\ UNCHANGED <<left, focus, lit, drawn, choice>>
          ELSE IF prompt = "typo" THEN TypoKey(Head(e)) ELSE WarningKey(Head(e))
  /\ UNCHANGED <<prompt, room>>

\* What the byte after ESC begins: CSI, SS3, or nothing more.
ReadEscape ==
  /\ reading = "escape"
  /\ \E e \in Upcoming :
       /\ Take(e)
       /\ IF Head(e) = "[" THEN reading' = "csi" /\ room' = CsiBytes /\ UNCHANGED <<left, choice>>
          ELSE IF Head(e) = "O" THEN reading' = "ss3" /\ UNCHANGED <<room, left, choice>>
          ELSE GoOn /\ UNCHANGED room
  /\ UNCHANGED <<prompt, focus, lit, drawn>>

\* InvalidSequence: the answer nobody gave, and no more is read.
Invalid == Answered("timeout")

\* A plausible error: a sequence that is too long counts as over.
TooLongGoesOn == GoOn

TooLong == Invalid

ReadCsi ==
  /\ reading = "csi"
  /\ \E e \in Upcoming :
       /\ Take(e)
       /\ IF Head(e) \in Final THEN GoOn
          ELSE IF Head(e) \notin Parameter THEN Invalid
          ELSE IF room = 1 THEN TooLong
          ELSE UNCHANGED <<reading, left, choice>>
  /\ room' = room - 1
  /\ UNCHANGED <<prompt, focus, lit, drawn>>

ReadSs3 ==
  /\ reading = "ss3"
  /\ \E e \in Upcoming : Take(e)
  /\ GoOn
  /\ UNCHANGED <<prompt, room, focus, lit, drawn>>

\* Nothing came in time, or the read failed.  After ESC that is the key Esc,
\* within a sequence it is invalid.
Unanswered ==
  IF reading = "escape" THEN Answered(IF prompt = "typo" THEN "original" ELSE "cancel")
  ELSE Answered("timeout")

NothingComes ==
  /\ reading \in {"key", "escape", "csi", "ss3"}
  /\ Unanswered
  /\ UNCHANGED <<prompt, room, focus, lit, input, drawn>>

KeysOver == reading = "done" /\ UNCHANGED keyVars

KeysNext ==
  \/ Draw \/ ReadKey \/ ReadEscape \/ ReadCsi \/ ReadSs3 \/ NothingComes \/ KeysOver

KeysSpec == KeysInit /\ [][KeysNext]_keyVars

-----------------------------------------------------------------------------
(* Properties *)

\* An escape sequence is "consumed in full": when a key is awaited, no byte of
\* an earlier event is still to come that could be taken for it (ui.rs:250-252,
\* 286-326).
SequencesConsumedWhole == reading = "key" => pending = <<>>

\* An answer that is recorded as the user's was given by a key of its own, never
\* by a byte of a sequence: the only other ways to "run original" are a screen
\* that cannot be drawn, keys that decide nothing until none is left, and an ESC
\* whose sequence is late, which also cancels a warning (ui.rs:262-326, 389-411).
Pressed(keys) == Len(event) = 1 /\ event[1] \in keys
AnswerHasItsKey ==
  /\ choice = "correct" => Pressed({"y", "Y", "enter"})
  /\ choice = "edit" => Pressed({"e", "E"})
  /\ choice = "run" => Pressed({"r", "R"})
  /\ choice = "cancel" =>
       Pressed({"c", "C", "ctrlC"}) \/ (prompt = "warning" /\ event # <<>> /\ event[1] = Esc)
  /\ choice = "original" =>
       Len(event) = 1 \/ left = 0 \/ ~drawn \/ (event # <<>> /\ event[1] = Esc)

\* Enter takes the choice that is highlighted, however often Tab was pressed
\* (ui.rs:357-368, 393-401).
EnterTakesHighlighted ==
  reading = "done" /\ Pressed({"enter"}) /\ prompt = "typo"
    => choice = (IF lit = "correction" THEN "correct" ELSE "original")

\* The answer is the user's, as the keys gave it and the screen showed it.
AnswerWasTyped == SequencesConsumedWhole /\ AnswerHasItsKey /\ EnterTakesHighlighted
=============================================================================
