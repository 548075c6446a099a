-------------------------------- MODULE Config --------------------------------
(***************************************************************************)
(* The configuration (src/policy.rs): what each line of the file does, and *)
(* the complaints about lines that do nothing, which are shown once.       *)
(*                                                                         *)
(* A marker in the state directory holds the fingerprint of the complaints *)
(* last shown.  The comparison with it, the display and the new marker are *)
(* one section under the state lock (StateLock), here a single holder.     *)
(* Commands run at the same time and die at any point (the watchdog is     *)
(* armed before they complain); the user edits the file and deletes the    *)
(* state.  A fingerprint is its set of complaints: no two have the same.   *)
(***************************************************************************)
EXTENDS Integers, Sequences, FiniteSets

CONSTANTS
  Commands,    \* `check` processes
  Default,     \* the settings of Config::default(), by key
  Valid,       \* the values that each key accepts
  Overrides,   \* values of OOPSINPUT_MODE, "absent" and "not unicode" among them
  NoFile       \* a config file that cannot be used; otherwise it is its lines

ASSUME ConfigAssumption ==
  /\ "mode" \in DOMAIN Default
  /\ "blank" \notin DOMAIN Default /\ "no equals sign" \notin DOMAIN Default
  /\ Default \in [DOMAIN Valid -> UNION {Valid[key] : key \in DOMAIN Valid}]
  /\ \A key \in DOMAIN Default : Default[key] \in Valid[key]
  /\ "none" \notin Commands

VARIABLES
  file,      \* NoFile, or the file's lines [key, value]
  edits,     \* the files the user may still write
  marker,    \* config_warned: the complaints it stands for, <<>> when there is none
  holder,    \* the command that has the state lock, or "none"
  step,      \* where each command is
  cfg,       \* the configuration each has loaded
  updates,   \* the commands that will replace the marker
  shown      \* history variable: every set of complaints displayed

configVars == <<file, edits, marker, holder, step, cfg, updates, shown>>

Known == DOMAIN Default

-----------------------------------------------------------------------------
(* Loading *)

\* A line that is not blank or a comment has a key; one without `=` has none.
Complaint(n, about) == [line |-> n, about |-> about]

\* A plausible error: only a value that is accepted makes a key seen.
SeenWhenValid(acc, line) ==
  IF line.value \in Valid[line.key] THEN acc.seen \cup {line.key} ELSE acc.seen

Seen(acc, line) == acc.seen \cup {line.key}

\* The effect of the line after acc.n others.
ParseLine(acc, line) ==
  LET n == acc.n + 1
      Complain(about) == [acc EXCEPT !.n = n, !.warnings = Append(@, Complaint(n, about))]
      first == [acc EXCEPT !.n = n, !.seen = Seen(acc, line)]
  IN IF line.key = "blank" THEN [acc EXCEPT !.n = n]
     ELSE IF line.key = "no equals sign" THEN Complain("not key = value")
     ELSE IF line.key \notin Known THEN Complain("unknown key")
     ELSE IF line.key \in acc.seen THEN [acc EXCEPT !.n = n]
     ELSE IF line.value \in Valid[line.key]
          THEN [first EXCEPT !.set[line.key] = line.value]
          ELSE [first EXCEPT !.warnings = Append(@, Complaint(n, line.key))]

ParseConfig(lines) ==
  LET Parsed[k \in 0..Len(lines)] ==
        IF k = 0 THEN [n |-> 0, seen |-> {}, set |-> Default, warnings |-> <<>>]
        ELSE ParseLine(Parsed[k - 1], lines[k])
  IN Parsed[Len(lines)]

\* OOPSINPUT_MODE overrides the file; an invalid one means shadow, silently.
OverriddenMode(v, mode) ==
  IF v \in {"absent", "not unicode"} THEN mode
  ELSE IF v \in Valid["mode"] THEN v ELSE Default["mode"]

\* A file that is missing, is no regular file, is too large or cannot be read
\* leaves the defaults, without a complaint.
InspectConfig(f, v) ==
  LET parsed == ParseConfig(IF f = NoFile THEN <<>> ELSE f)
  IN [from |-> f, override |-> v, warnings |-> parsed.warnings,
      set |-> [parsed.set EXCEPT !["mode"] = OverriddenMode(v, @)]]

-----------------------------------------------------------------------------
(* Complaining once *)

Unloaded == [from |-> NoFile, override |-> "absent", warnings |-> <<>>, set |-> Default]

ConfigStart(f, es, running) ==
  /\ file = f /\ edits = es /\ marker = <<>> /\ holder = "none"
  /\ step = [p \in Commands |-> IF p \in running THEN "load" ELSE "done"]
  /\ cfg = [p \in Commands |-> Unloaded]
  /\ updates = {} /\ shown = {}

Goto(p, s) == step' = [step EXCEPT ![p] = s]

\* With complaints and a state directory the command goes on to show them.
LoadConfig(p) ==
  /\ step[p] = "load"
  /\ \E v \in Overrides, stateDir \in BOOLEAN :
       LET c == InspectConfig(file, v)
       IN /\ cfg' = [cfg EXCEPT ![p] = c]
          /\ Goto(p, IF c.warnings # <<>> /\ stateDir THEN "lock" ELSE "done")
  /\ UNCHANGED <<file, edits, marker, holder, updates, shown>>

\* A plausible error: the marker is compared without the lock.
CompareUnlocked(p) ==
  IF marker = cfg[p].warnings THEN Goto(p, "done") /\ UNCHANGED <<holder, updates>>
  ELSE Goto(p, "show") /\ updates' = updates \cup {p} /\ UNCHANGED holder

\* begin_small_file_update, once the lock is free: nothing to do when the marker
\* says that these complaints were shown.
LockAndCompare(p) ==
  /\ holder = "none"
  /\ IF marker = cfg[p].warnings THEN Goto(p, "done") /\ UNCHANGED <<holder, updates>>
     ELSE /\ Goto(p, "show") /\ holder' = p /\ updates' = updates \cup {p}

BeginUpdate(p) ==
  /\ step[p] = "lock"
  /\ LockAndCompare(p)
  /\ UNCHANGED <<file, edits, marker, cfg, shown>>

\* The lock or the marker cannot be had: the complaints are shown all the same.
BeginUpdateFails(p) ==
  /\ step[p] = "lock"
  /\ Goto(p, "show")
  /\ UNCHANGED <<file, edits, marker, holder, cfg, updates, shown>>

Unlock(p) == holder' = IF holder = p THEN "none" ELSE holder

Display(p) ==
  /\ step[p] = "show"
  /\ shown' = shown \cup {cfg[p].warnings}
  /\ Goto(p, IF p \in updates THEN "commit" ELSE "done")
  /\ UNCHANGED <<file, edits, marker, holder, cfg, updates>>

\* The marker means "shown": it stays absent and a later command tries again.
NotShown(p) == Goto(p, "done") /\ Unlock(p) /\ updates' = updates \ {p}

DisplayFails(p) ==
  /\ step[p] = "show"
  /\ NotShown(p)
  /\ UNCHANGED <<file, edits, marker, cfg, shown>>

\* The marker is replaced by a rename, or not at all.
Commit(p) ==
  /\ step[p] = "commit"
  /\ marker' \in {marker, cfg[p].warnings}
  /\ Goto(p, "done") /\ Unlock(p) /\ updates' = updates \ {p}
  /\ UNCHANGED <<file, edits, cfg, shown>>

\* The watchdog, or a signal: the kernel gives the lock back.
Dies(p) ==
  /\ step[p] # "done"
  /\ Goto(p, "done") /\ Unlock(p) /\ updates' = updates \ {p}
  /\ UNCHANGED <<file, edits, marker, cfg, shown>>

EditConfig ==
  /\ \E f \in edits : file' = f /\ edits' = edits \ {f}
  /\ UNCHANGED <<marker, holder, step, cfg, updates, shown>>

\* `purge` deletes the marker with the rest, and has the lock while it does.
PurgeMarker ==
  /\ holder = "none"
  /\ marker' = <<>>
  /\ UNCHANGED <<file, edits, holder, step, cfg, updates, shown>>

ConfigOver == (\A p \in Commands : step[p] = "done") /\ UNCHANGED configVars

ConfigNext ==
  \/ \E p \in Commands :
       \/ LoadConfig(p) \/ BeginUpdate(p) \/ BeginUpdateFails(p)
       \/ Display(p) \/ DisplayFails(p) \/ Commit(p) \/ Dies(p)
  \/ EditConfig \/ PurgeMarker \/ ConfigOver

-----------------------------------------------------------------------------
(* Properties *)

\* Is the nth line the first with its key, does it take effect, is it a repetition;
\* and is it one to complain about.
IsFirst(lines, n) == \A m \in 1..(n - 1) : lines[m].key # lines[n].key
IsUsed(lines, n) ==
  IsFirst(lines, n) /\ lines[n].key \in Known /\ lines[n].value \in Valid[lines[n].key]
IsRepeated(lines, n) == lines[n].key \in Known /\ ~IsFirst(lines, n)
IsUseless(lines, n) == lines[n].key # "blank" /\ ~IsUsed(lines, n) /\ ~IsRepeated(lines, n)

About(warnings) == {warnings[k].line : k \in DOMAIN warnings}
ByFile(c, key) == key # "mode" \/ c.override \in {"absent", "not unicode"}

\* What the complaints say is so: a line that is neither blank nor a repetition
\* takes effect or has a complaint, no other line has one, and the key a
\* complaint is about has its default even if a later line would set it
\* ("first occurrence wins", policy.rs:807-809; SPEC.md:608-609).
IsTrue(c) ==
  LET lines == IF c.from = NoFile THEN <<>> ELSE c.from
  IN /\ About(c.warnings) = {n \in DOMAIN lines : IsUseless(lines, n)}
     /\ \A key \in Known : ByFile(c, key) =>
          \/ \E n \in DOMAIN lines :
               lines[n].key = key /\ IsUsed(lines, n) /\ c.set[key] = lines[n].value
          \/ c.set[key] = Default[key]
               /\ ~\E n \in DOMAIN lines : lines[n].key = key /\ IsUsed(lines, n)
ComplaintsAreTrue == \A p \in Commands : IsTrue(cfg[p])

\* Complaints are shown once: while their marker is there, no command that could
\* look at it shows them again, however many run at the same time
\* ("concurrent processes cannot all pass the comparison", state.rs:234-237).
\* And the marker comes only after them: whatever failed or died in between, it
\* stands for complaints that were displayed (policy.rs:916-918).
SaidOnce ==
  [][/\ \A p \in Commands : p \in updates /\ Display(p) => marker # cfg[p].warnings
     /\ marker' # <<>> => marker' \in shown']_configVars
=============================================================================
