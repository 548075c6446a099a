------------------------------- MODULE Consent -------------------------------
(***************************************************************************)
(* What oopsinput promises about each command line submitted to the shell: *)
(* it runs as typed unless the mode the user chose lets the program ask,   *)
(* and the user's own answer (in mode confirm also the lack of one) asks   *)
(* for something else.  The exit-code contract of src/main.rs:9-15, the    *)
(* modes of SPEC section 8 and the fail-open rule of SPEC section 9 in one *)
(* machine.  Guard, with its watchdog, crashes and half-written            *)
(* replacements, is shown to implement it.                                 *)
(***************************************************************************)
VARIABLES
  mode,     \* the configured mode, a ceiling on what may be asked
  answer,   \* what the user answered for this line
  line      \* what became of the line

vars == <<mode, answer, line>>

Modes == {"shadow", "suggest", "warn", "confirm"}

\* The answers a mode lets the program obtain.
Offers(m) ==
  CASE m = "shadow"  -> {}
    [] m = "suggest" -> {"correct", "keep", "cancel"}
    [] m = "warn"    -> {"correct", "keep", "cancel", "edit", "run"}
    [] m = "confirm" -> {"correct", "keep", "cancel", "edit", "run", "expired"}

\* Running the line as typed is always allowed (fail open); anything else
\* needs the answer that asks for it.
MayBecome(l, a) ==
  \/ l = "original"
  \/ l = "replacement" /\ a = "correct"
  \/ l = "returned"    /\ a = "edit"
  \/ l = "discarded"   /\ a \in {"cancel", "expired"}

Init == mode \in Modes /\ answer = "none" /\ line = "pending"

Reply(a) ==
  /\ line = "pending" /\ answer = "none"
  /\ a \in Offers(mode)
  /\ answer' = a
  /\ UNCHANGED <<mode, line>>

Settle(l) ==
  /\ line = "pending"
  /\ MayBecome(l, answer)
  /\ line' = l
  /\ UNCHANGED <<mode, answer>>

NextLine ==
  /\ line # "pending"
  /\ mode' \in Modes /\ answer' = "none" /\ line' = "pending"

Next ==
  \/ \E a \in Offers(mode) : Reply(a)
  \/ \E l \in {"original", "replacement", "returned", "discarded"} : Settle(l)
  \/ NextLine

Spec == Init /\ [][Next]_vars
=============================================================================
