------------------------------ MODULE CheckProofs ------------------------------
(***************************************************************************)
(* Proofs about the parts of `check` that share no state: its config, its  *)
(* payload, its prompts, the model it consults and its helper processes.   *)
(*                                                                         *)
(* Config: a command that displays looks at the marker in an earlier step. *)
(* MarkerInv says why it still is as it was: from the comparison to the    *)
(* commit the command has the lock, and without the lock nobody replaces   *)
(* or purges the marker.  That complaints are true is a fact about every   *)
(* prefix of a file: Told is what ParseLine keeps of the lines so far.     *)
(*                                                                         *)
(* Payload: what is read is the beginning of a buffer, or a buffer and the *)
(* beginning of the names, or both and the beginning of the recency lines; *)
(* Right is proved of what parse_payload makes of each.  PrintedIsSplit    *)
(* says that lines come out as they went in, CutLines what a cut leaves of *)
(* them, CutText what it leaves of text.                                   *)
(*                                                                         *)
(* Prompts: KeysInv says at each place of the reader what may be left of   *)
(* the event it is in: nothing when a key is read, so that the answer is   *)
(* never a byte of a sequence.                                             *)
(*                                                                         *)
(* Consultation: TimeInv ties the deadline of an exchange to the overall   *)
(* one.  PeerInv carries the answer of verify_peer to the writes that      *)
(* follow it.  BufferInv bounds what is read: while the head may still     *)
(* come, by its cap; after it, by the length the head then has and the cap *)
(* of the encoded body.  For what a reply amounts to, DecodeEquation says  *)
(* what the decoder of a chunked body computes and FedByIsFed what the     *)
(* reference reader does; Agrees holds of both at every chunk, by          *)
(* induction from the last one back, and EvidenceInv carries it over.      *)
(*                                                                         *)
(* Helper: PollInv, it is never slept past the deadline by more than one   *)
(* poll.  FlowInv: what was written is in the pipe, kept, or past the cap; *)
(* so when the reader is finished, and only its own end finishes it,       *)
(* nothing is missing and nobody is left to add to it.                     *)
(***************************************************************************)
EXTENDS Config, Intake, Consult, Capture, Keys, Recursions

-----------------------------------------------------------------------------
(* The config and the marker of its complaints *)

Functions ==
  step \in [Commands -> {"load", "lock", "show", "commit", "done"}] /\ DOMAIN cfg = Commands

UpdatersHold ==
  \A p \in updates : p \in Commands /\ holder = p /\ step[p] \in {"show", "commit"}

Compared == \A p \in updates : step[p] = "show" => marker # cfg[p].warnings

CommitsShown ==
  \A p \in Commands : step[p] = "commit" => p \in updates /\ cfg[p].warnings \in shown

MarkerMeansShown == marker # <<>> => marker \in shown

MarkerInv == Functions /\ UpdatersHold /\ Compared /\ CommitsShown /\ MarkerMeansShown

LEMMA StartMarker ==
  ASSUME NEW f, NEW es, NEW running, ConfigStart(f, es, running)
  PROVE  MarkerInv
BY DEF ConfigStart, MarkerInv, Functions, UpdatersHold, Compared, CommitsShown, MarkerMeansShown

\* One step per action; Commit alone replaces the marker by complaints.
LEMMA MarkerStep == MarkerInv /\ [ConfigNext]_configVars => MarkerInv'
<1> SUFFICES ASSUME MarkerInv, [ConfigNext]_configVars PROVE MarkerInv'
  OBVIOUS
<1>0. "none" \notin Commands
  BY ConfigAssumption
<1> USE <1>0
    DEF MarkerInv, Functions, UpdatersHold, Compared, CommitsShown, MarkerMeansShown, Goto, Unlock
<1>1. CASE UNCHANGED configVars
  BY <1>1 DEF configVars
<1>2. ASSUME NEW p \in Commands, LoadConfig(p) PROVE MarkerInv'
  <2>1. p \notin updates /\ step[p] # "commit"
    BY <1>2 DEF LoadConfig
  <2>2. PICK c : /\ cfg' = [cfg EXCEPT ![p] = c]
                 /\ Goto(p, IF c.warnings # <<>> THEN "lock" ELSE "done") \/ Goto(p, "done")
    BY <1>2 DEF LoadConfig
  <2> QED BY <1>2, <2>1, <2>2 DEF LoadConfig
<1>3. ASSUME NEW p \in Commands, BeginUpdate(p) PROVE MarkerInv'
  BY <1>3 DEF BeginUpdate, LockAndCompare
<1>4. ASSUME NEW p \in Commands, BeginUpdateFails(p) PROVE MarkerInv'
  BY <1>4 DEF BeginUpdateFails
<1>5. ASSUME NEW p \in Commands, Display(p) PROVE MarkerInv'
  BY <1>5 DEF Display
<1>6. ASSUME NEW p \in Commands, DisplayFails(p) PROVE MarkerInv'
  BY <1>6 DEF DisplayFails, NotShown
<1>7. ASSUME NEW p \in Commands, Commit(p) PROVE MarkerInv'
  <2>1. updates = {p}
    BY <1>7 DEF Commit
  <2> QED BY <1>7, <2>1 DEF Commit
<1>8. ASSUME NEW p \in Commands, Dies(p) PROVE MarkerInv'
  BY <1>8 DEF Dies
<1>9. CASE EditConfig
  BY <1>9 DEF EditConfig
<1>10. CASE PurgeMarker
  <2>1. updates = {}
    BY <1>10 DEF PurgeMarker
  <2> QED BY <1>10, <2>1 DEF PurgeMarker
<1>11. CASE ConfigOver
  BY <1>11 DEF ConfigOver, configVars
<1> QED BY <1>1, <1>2, <1>3, <1>4, <1>5, <1>6, <1>7, <1>8, <1>9, <1>10, <1>11 DEF ConfigNext

\* Complaints are shown once while their marker is there, and a marker stands
\* for complaints that were displayed (emit_config_warnings_once).
THEOREM ComplaintsSaidOnce ==
  ASSUME NEW f, NEW es, NEW running
  PROVE  ConfigStart(f, es, running) /\ [][ConfigNext]_configVars => SaidOnce
<1> DEFINE Once == /\ \A p \in Commands : p \in updates /\ Display(p) => marker # cfg[p].warnings
                   /\ marker' # <<>> => marker' \in shown'
<1>1. ConfigStart(f, es, running) => MarkerInv
  BY StartMarker
<1>2. MarkerInv /\ MarkerInv' => Once
  BY DEF MarkerInv, Compared, MarkerMeansShown, Display
<1> QED BY <1>1, <1>2, MarkerStep, PTL DEF SaidOnce

-----------------------------------------------------------------------------
(* The lines of a file *)

\* What parsing has after each of the first N lines.
ParseBegin == [n |-> 0, seen |-> {}, set |-> Default, warnings |-> <<>>]
ParseRun(g, lines, N) ==
  /\ DOMAIN g = 0..N /\ g[0] = ParseBegin
  /\ \A k \in 1..N : g[k] = ParseLine(g[k - 1], lines[k])

LEMMA StepsExist ==
  ASSUME NEW N \in Nat, NEW lines
  PROVE  \E g : ParseRun(g, lines, N)
<1> DEFINE S == {n \in 0..N : \E g : ParseRun(g, lines, n)}
<1>1. 0 \in S
  <2> DEFINE g == [k \in 0..0 |-> ParseBegin]
  <2>1. DOMAIN g = 0..0 /\ g[0] = ParseBegin
    OBVIOUS
  <2> HIDE DEF g
  <2>2. ParseRun(g, lines, 0)
    BY <2>1 DEF ParseRun
  <2> QED BY <2>2
<1>2. ASSUME NEW n \in 0..(N - 1), n \in S PROVE n + 1 \in S
  <2>1. PICK g : ParseRun(g, lines, n)
    BY <1>2
  <2> DEFINE h == [k \in 0..(n + 1) |-> IF k = n + 1 THEN ParseLine(g[n], lines[n + 1]) ELSE g[k]]
  <2>2. ParseRun(h, lines, n + 1)
    BY <2>1 DEF ParseRun
  <2> HIDE DEF h
  <2> QED BY <2>2
<1> HIDE DEF S
<1>3. 0..N \subseteq S
  BY <1>1, <1>2, NatSteps
<1> QED BY <1>3 DEF S

\* ParseConfig takes these steps.
LEMMA ParseSteps ==
  ASSUME NEW lines, Len(lines) \in Nat
  PROVE  \E g : ParseRun(g, lines, Len(lines)) /\ ParseConfig(lines) = g[Len(lines)]
<1> DEFINE N == Len(lines)
           P == CHOOSE P : P = [k \in 0..N |-> IF k = 0 THEN ParseBegin
                                               ELSE ParseLine(P[k - 1], lines[k])]
<1>1. PICK g : ParseRun(g, lines, N)
  BY StepsExist
<1> DEFINE h == [k \in 0..N |-> g[k]]
<1>2. h = [k \in 0..N |-> IF k = 0 THEN ParseBegin ELSE ParseLine(h[k - 1], lines[k])]
  BY <1>1 DEF ParseRun
<1> HIDE DEF h
<1>3. P = [k \in 0..N |-> IF k = 0 THEN ParseBegin ELSE ParseLine(P[k - 1], lines[k])]
  BY <1>2
<1>4. ParseConfig(lines) = P[N]
  BY DEF ParseConfig, ParseBegin
<1> HIDE DEF P
<1>5. ParseRun(P, lines, N)
  BY <1>3 DEF ParseRun
<1> QED BY <1>4, <1>5

-----------------------------------------------------------------------------
(* What the complaints of the first lines say *)

Values == UNION {Valid[key] : key \in Known}
Complaints == [line : Nat, about : Known \cup {"not key = value", "unknown key"}]
ParseType == [n : Nat, seen : SUBSET Known, set : [Known -> Values], warnings : Seq(Complaints)]

Told(lines, k, acc) ==
  /\ acc \in ParseType
  /\ acc.n = k
  /\ acc.seen = {key \in Known : \E n \in 1..k : lines[n].key = key}
  /\ About(acc.warnings) = {n \in 1..k : IsUseless(lines, n)}
  /\ \A key \in Known :
       \/ \E n \in 1..k : lines[n].key = key /\ IsUsed(lines, n) /\ acc.set[key] = lines[n].value
       \/ acc.set[key] = Default[key] /\ ~\E n \in 1..k : lines[n].key = key /\ IsUsed(lines, n)

LEMMA ToldBegin == ASSUME NEW lines PROVE Told(lines, 0, ParseBegin)
<1>1. Default \in [Known -> Values]
  BY ConfigAssumption DEF Known, Values
<1>2. ParseBegin \in ParseType
  <2>1. <<>> \in Seq(Complaints)
    BY EmptySeq
  <2> QED BY <1>1, <2>1 DEF ParseBegin, ParseType
<1>3. ParseBegin.n = 0 /\ ParseBegin.seen = {} /\ ParseBegin.set = Default
      /\ ParseBegin.warnings = <<>>
  BY DEF ParseBegin
<1>4. About(<<>>) = {}
  BY DEF About
<1> QED BY <1>2, <1>3, <1>4 DEF Told

\* One more complaint is about one more line.
LEMMA AboutAppend ==
  ASSUME NEW w \in Seq(Complaints), NEW c \in Complaints
  PROVE  About(Append(w, c)) = About(w) \cup {c.line} /\ Append(w, c) \in Seq(Complaints)
<1>1. /\ Append(w, c) \in Seq(Complaints) /\ Len(Append(w, c)) = Len(w) + 1
      /\ \A k \in 1..Len(w) : Append(w, c)[k] = w[k]
      /\ Append(w, c)[Len(w) + 1] = c
  OBVIOUS
<1>2. DOMAIN w = 1..Len(w) /\ DOMAIN Append(w, c) = 1..(Len(w) + 1) /\ Len(w) \in Nat
  BY <1>1
<1> QED BY <1>1, <1>2 DEF About

\* What a line does to the record.
LEMMA ParseLineDoes ==
  ASSUME NEW acc \in ParseType, NEW line
  PROVE  LET new == ParseLine(acc, line)
         IN  /\ new \in ParseType /\ new.n = acc.n + 1
             /\ new.seen = IF line.key \in Known THEN acc.seen \cup {line.key} ELSE acc.seen
             /\ IF line.key = "blank" \/ line.key \in acc.seen
                THEN new.set = acc.set /\ About(new.warnings) = About(acc.warnings)
                ELSE IF line.key \in Known /\ line.value \in Valid[line.key]
                THEN /\ new.set = [acc.set EXCEPT ![line.key] = line.value]
                     /\ About(new.warnings) = About(acc.warnings)
                ELSE /\ new.set = acc.set
                     /\ About(new.warnings) = About(acc.warnings) \cup {acc.n + 1}
<1> DEFINE n == acc.n + 1
           new == ParseLine(acc, line)
           said(about) == Append(acc.warnings, Complaint(n, about))
<1>1. /\ acc.n \in Nat /\ n \in Nat /\ acc.seen \in SUBSET Known /\ acc.set \in [Known -> Values]
      /\ acc.warnings \in Seq(Complaints)
  BY DEF ParseType
<1>2. ASSUME NEW about \in Known \cup {"not key = value", "unknown key"}
      PROVE  /\ said(about) \in Seq(Complaints)
             /\ About(said(about)) = About(acc.warnings) \cup {n}
  <2> DEFINE c == Complaint(n, about)
  <2>1. c \in Complaints /\ c.line = n
    BY <1>1 DEF Complaint, Complaints
  <2> HIDE DEF c
  <2>2. /\ Append(acc.warnings, c) \in Seq(Complaints)
        /\ About(Append(acc.warnings, c)) = About(acc.warnings) \cup {n}
    BY <1>1, <2>1, AboutAppend
  <2> QED BY <2>2 DEF c
<1>3. "blank" \notin Known /\ "no equals sign" \notin Known
  BY ConfigAssumption DEF Known
<1> HIDE DEF n
<1>4. CASE line.key = "blank"
  <2>1. new = [acc EXCEPT !.n = n]
    BY <1>4 DEF ParseLine, n
  <2> HIDE DEF new
  <2>2. /\ new \in ParseType /\ new.n = n /\ new.seen = acc.seen /\ new.set = acc.set
        /\ new.warnings = acc.warnings
    BY <1>1, <2>1 DEF ParseType
  <2> QED BY <1>3, <1>4, <2>2 DEF new, n
<1>5. CASE line.key # "blank" /\ line.key \notin Known
  <2>1. PICK about \in {"not key = value", "unknown key"} :
          new = [acc EXCEPT !.n = n, !.warnings = said(about)]
    BY <1>5 DEF ParseLine, n
  <2>2. said(about) \in Seq(Complaints) /\ About(said(about)) = About(acc.warnings) \cup {n}
    BY <1>2
  <2> HIDE DEF new, said
  <2>3. /\ new \in ParseType /\ new.n = n /\ new.seen = acc.seen /\ new.set = acc.set
        /\ new.warnings = said(about)
    BY <1>1, <2>1, <2>2 DEF ParseType
  <2> QED BY <1>1, <1>5, <2>2, <2>3 DEF new, n
<1>6. CASE line.key \in Known /\ line.key \in acc.seen
  <2>1. new = [acc EXCEPT !.n = n]
    BY <1>3, <1>6 DEF ParseLine, n
  <2> HIDE DEF new
  <2>2. /\ new \in ParseType /\ new.n = n /\ new.seen = acc.seen /\ new.set = acc.set
        /\ new.warnings = acc.warnings
    BY <1>1, <2>1 DEF ParseType
  <2> QED BY <1>6, <2>2 DEF new, n
<1>7. CASE line.key \in Known /\ line.key \notin acc.seen /\ line.value \in Valid[line.key]
  <2> DEFINE seen == acc.seen \cup {line.key}
             set == [acc.set EXCEPT ![line.key] = line.value]
  <2>1. seen \in SUBSET Known /\ set \in [Known -> Values]
    BY <1>1, <1>7 DEF Values
  <2>2. new = [[acc EXCEPT !.n = n, !.seen = seen] EXCEPT !.set[line.key] = line.value]
    BY <1>3, <1>7 DEF ParseLine, Seen, n
  <2>3. new = [[acc EXCEPT !.n = n, !.seen = seen] EXCEPT !.set = set]
    BY <2>2 DEF ParseType
  <2> HIDE DEF new, seen, set
  <2>4. /\ new \in ParseType /\ new.n = n /\ new.seen = seen /\ new.set = set
        /\ new.warnings = acc.warnings
    BY <1>1, <2>1, <2>3 DEF ParseType
  <2> QED BY <1>3, <1>7, <2>4 DEF new, n, seen, set
<1>8. CASE line.key \in Known /\ line.key \notin acc.seen /\ line.value \notin Valid[line.key]
  <2> DEFINE seen == acc.seen \cup {line.key}
  <2>1. seen \in SUBSET Known
    BY <1>1, <1>8
  <2>2. said(line.key) \in Seq(Complaints) /\ About(said(line.key)) = About(acc.warnings) \cup {n}
    BY <1>2, <1>8
  <2>3. new = [[acc EXCEPT !.n = n, !.seen = seen] EXCEPT !.warnings = said(line.key)]
    BY <1>3, <1>8 DEF ParseLine, Seen, n
  <2> HIDE DEF new, seen, said
  <2>4. /\ new \in ParseType /\ new.n = n /\ new.seen = seen /\ new.set = acc.set
        /\ new.warnings = said(line.key)
    BY <1>1, <2>1, <2>2, <2>3 DEF ParseType
  <2> QED BY <1>3, <1>8, <2>2, <2>4 DEF new, n, seen
<1> QED BY <1>4, <1>5, <1>6, <1>7, <1>8

\* One line more is one line more told.
LEMMA ToldStep ==
  ASSUME NEW lines, NEW k \in Nat, NEW acc, Told(lines, k, acc)
  PROVE  Told(lines, k + 1, ParseLine(acc, lines[k + 1]))
<1> DEFINE line == lines[k + 1]
           new == ParseLine(acc, line)
<1>1. /\ acc \in ParseType /\ acc.n = k
      /\ acc.seen = {key \in Known : \E n \in 1..k : lines[n].key = key}
  BY DEF Told
<1>2. /\ new \in ParseType /\ new.n = k + 1
      /\ new.seen = IF line.key \in Known THEN acc.seen \cup {line.key} ELSE acc.seen
      /\ IF line.key = "blank" \/ line.key \in acc.seen
         THEN new.set = acc.set /\ About(new.warnings) = About(acc.warnings)
         ELSE IF line.key \in Known /\ line.value \in Valid[line.key]
         THEN /\ new.set = [acc.set EXCEPT ![line.key] = line.value]
              /\ About(new.warnings) = About(acc.warnings)
         ELSE new.set = acc.set /\ About(new.warnings) = About(acc.warnings) \cup {k + 1}
  <2> HIDE DEF line
  <2> QED BY <1>1, ParseLineDoes
<1> HIDE DEF new
<1>3. "blank" \notin Known
  BY ConfigAssumption DEF Known
<1>4. line.key \in Known => (IsFirst(lines, k + 1) <=> line.key \notin acc.seen)
  BY <1>1 DEF IsFirst
<1>5. 1..(k + 1) = 1..k \cup {k + 1}
  OBVIOUS
<1>6. new.seen = {key \in Known : \E n \in 1..(k + 1) : lines[n].key = key}
  BY <1>1, <1>2, <1>5
<1>7. IsUsed(lines, k + 1) <=>
        line.key \in Known /\ line.key \notin acc.seen /\ line.value \in Valid[line.key]
  BY <1>4 DEF IsUsed
<1>8. IsUseless(lines, k + 1) <=>
        line.key # "blank" /\ line.key \notin acc.seen
          /\ ~(line.key \in Known /\ line.value \in Valid[line.key])
  BY <1>1, <1>4, <1>7 DEF IsUseless, IsRepeated
<1>9. About(new.warnings) = {n \in 1..(k + 1) : IsUseless(lines, n)}
  <2>1. About(acc.warnings) = {n \in 1..k : IsUseless(lines, n)}
    BY DEF Told
  <2>2. About(new.warnings) = About(acc.warnings) \cup (IF IsUseless(lines, k + 1) THEN {k + 1} ELSE {})
    BY <1>2, <1>8
  <2> QED BY <1>5, <2>1, <2>2
<1>10. ASSUME NEW key \in Known
       PROVE  \/ \E n \in 1..(k + 1) : lines[n].key = key /\ IsUsed(lines, n)
                                         /\ new.set[key] = lines[n].value
              \/ new.set[key] = Default[key]
                   /\ ~\E n \in 1..(k + 1) : lines[n].key = key /\ IsUsed(lines, n)
  <2>1. \/ \E n \in 1..k : lines[n].key = key /\ IsUsed(lines, n) /\ acc.set[key] = lines[n].value
        \/ acc.set[key] = Default[key] /\ ~\E n \in 1..k : lines[n].key = key /\ IsUsed(lines, n)
    BY DEF Told
  <2>2. acc.set \in [Known -> Values]
    BY <1>1 DEF ParseType
  <2>3. CASE key = line.key /\ IsUsed(lines, k + 1)
    <3>1. new.set[key] = line.value
      BY <1>2, <1>3, <1>7, <2>2, <2>3
    <3> QED BY <1>5, <2>3, <3>1
  <2>4. CASE ~(key = line.key /\ IsUsed(lines, k + 1))
    <3>1. new.set[key] = acc.set[key]
      BY <1>2, <1>7, <2>2, <2>4
    <3> QED BY <1>5, <2>1, <2>4, <3>1
  <2> QED BY <2>3, <2>4
<1> QED BY <1>2, <1>6, <1>9, <1>10 DEF Told, new

\* What parsing tells of a whole file.
LEMMA ToldAll ==
  ASSUME NEW lines, Len(lines) \in Nat
  PROVE  Told(lines, Len(lines), ParseConfig(lines))
<1> DEFINE N == Len(lines)
<1>1. PICK g : ParseRun(g, lines, N) /\ ParseConfig(lines) = g[N]
  BY ParseSteps
<1> DEFINE S == {k \in 0..N : Told(lines, k, g[k])}
<1>2. 0 \in S
  BY <1>1, ToldBegin DEF ParseRun
<1>3. ASSUME NEW k \in 0..(N - 1), k \in S PROVE k + 1 \in S
  <2>1. g[k + 1] = ParseLine(g[k], lines[k + 1])
    BY <1>1 DEF ParseRun
  <2>2. Told(lines, k + 1, g[k + 1])
    BY <1>3, <2>1, ToldStep
  <2> QED BY <2>2
<1> HIDE DEF S
<1>4. 0..N \subseteq S
  BY <1>2, <1>3, NatSteps
<1> QED BY <1>1, <1>4 DEF S

-----------------------------------------------------------------------------
(* Complaints are true *)

LEMMA InspectedIsTrue ==
  ASSUME NEW Lines, NEW f \in Seq(Lines) \cup {NoFile}, NEW v
  PROVE  IsTrue(InspectConfig(f, v))
<1> DEFINE lines == IF f = NoFile THEN <<>> ELSE f
           c == InspectConfig(f, v)
           acc == ParseConfig(lines)
           set == [acc.set EXCEPT !["mode"] = OverriddenMode(v, @)]
<1>1. lines \in Seq(Lines)
  BY EmptySeq
<1> HIDE DEF lines
<1>2. Len(lines) \in Nat /\ DOMAIN lines = 1..Len(lines)
  BY <1>1, LenProperties
<1>3. Told(lines, Len(lines), acc)
  BY <1>2, ToldAll
<1>4. c.from = f /\ c.override = v /\ c.warnings = acc.warnings /\ c.set = set
  BY DEF InspectConfig, lines
<1>5. acc.set \in [Known -> Values]
  BY <1>3 DEF Told, ParseType
<1>6. \A key \in Known : key # "mode" \/ v \in {"absent", "not unicode"} => set[key] = acc.set[key]
  BY <1>5 DEF OverriddenMode
<1> HIDE DEF c, acc, set
<1>7. About(c.warnings) = {n \in DOMAIN lines : IsUseless(lines, n)}
  BY <1>2, <1>3, <1>4 DEF Told
<1>8. ASSUME NEW key \in Known, ByFile(c, key)
      PROVE  \/ \E n \in DOMAIN lines :
                  lines[n].key = key /\ IsUsed(lines, n) /\ c.set[key] = lines[n].value
             \/ /\ c.set[key] = Default[key]
                /\ ~\E n \in DOMAIN lines : lines[n].key = key /\ IsUsed(lines, n)
  <2>1. c.set[key] = acc.set[key]
    BY <1>4, <1>6, <1>8 DEF ByFile
  <2>2. \/ \E n \in 1..Len(lines) : lines[n].key = key /\ IsUsed(lines, n)
                                      /\ acc.set[key] = lines[n].value
        \/ /\ acc.set[key] = Default[key]
           /\ ~\E n \in 1..Len(lines) : lines[n].key = key /\ IsUsed(lines, n)
    BY <1>3 DEF Told
  <2> QED BY <1>2, <2>1, <2>2
<1>9. lines = IF c.from = NoFile THEN <<>> ELSE c.from
  BY <1>4 DEF lines
<1>10. IsTrue(c)
  BY <1>7, <1>8, <1>9 DEF IsTrue
<1> QED BY <1>10 DEF c

LEMMA UnloadedIsTrue == IsTrue(Unloaded)
<1>1. About(<<>>) = {}
  BY DEF About
<1>2. /\ Unloaded.from = NoFile /\ Unloaded.warnings = <<>> /\ Unloaded.set = Default
  BY DEF Unloaded
<1> QED BY <1>1, <1>2 DEF IsTrue

Loaded(Lines) ==
  /\ file \in Seq(Lines) \cup {NoFile} /\ edits \subseteq Seq(Lines) \cup {NoFile}
  /\ DOMAIN cfg = Commands /\ \A p \in Commands : IsTrue(cfg[p])

LEMMA LoadedStep ==
  ASSUME NEW Lines, Loaded(Lines), [ConfigNext]_configVars
  PROVE  Loaded(Lines)'
<1>1. ASSUME NEW p \in Commands, LoadConfig(p) PROVE Loaded(Lines)'
  <2>1. PICK v \in Overrides : cfg' = [cfg EXCEPT ![p] = InspectConfig(file, v)]
    BY <1>1 DEF LoadConfig
  <2>2. IsTrue(InspectConfig(file, v))
    BY InspectedIsTrue DEF Loaded
  <2> DEFINE c == InspectConfig(file, v)
  <2> HIDE DEF c
  <2>3. /\ DOMAIN cfg' = Commands
        /\ \A q \in Commands : cfg'[q] = IF q = p THEN c ELSE cfg[q]
    BY <2>1 DEF Loaded, c
  <2>4. \A q \in Commands : IsTrue(cfg'[q])
    <3>1. IsTrue(c)
      BY <2>2 DEF c
    <3> QED BY <2>3, <3>1 DEF Loaded
  <2>5. (\A q \in Commands : IsTrue(cfg[q]))'
    BY <2>4 DEF IsTrue
  <2>6. UNCHANGED <<file, edits>>
    BY <1>1 DEF LoadConfig
  <2> QED BY <2>3, <2>5, <2>6 DEF Loaded
<1>2. CASE EditConfig
  BY <1>2 DEF EditConfig, Loaded, IsTrue
<1>3. CASE UNCHANGED <<file, edits, cfg>>
  BY <1>3 DEF Loaded, IsTrue
<1>4. \/ \E p \in Commands : LoadConfig(p)
      \/ EditConfig
      \/ UNCHANGED <<file, edits, cfg>>
  BY DEF ConfigNext, configVars, BeginUpdate, LockAndCompare, BeginUpdateFails, Display,
     DisplayFails, Commit, Dies, PurgeMarker, ConfigOver
<1> QED BY <1>1, <1>2, <1>3, <1>4

\* What the complaints about a file say is so, however long the file is: a line
\* takes effect or has a complaint, a blank or repeated one neither, and a key
\* that no line sets has its default (policy.rs:807-809; SPEC.md:608-609).
THEOREM ComplaintsTellTheTruth ==
  ASSUME NEW Lines, NEW f \in Seq(Lines) \cup {NoFile},
         NEW es \in SUBSET (Seq(Lines) \cup {NoFile}), NEW running
  PROVE  ConfigStart(f, es, running) /\ [][ConfigNext]_configVars => []ComplaintsAreTrue
<1>1. ConfigStart(f, es, running) => Loaded(Lines)
  BY UnloadedIsTrue DEF ConfigStart, Loaded
<1>2. Loaded(Lines) => ComplaintsAreTrue
  BY DEF Loaded, ComplaintsAreTrue
<1> QED BY <1>1, <1>2, LoadedStep, PTL

-----------------------------------------------------------------------------
(* The keys of a prompt *)

InSequence == {"escape", "csi", "ss3"}

KeysTypeOK ==
  /\ prompt \in {"typo", "warning"}
  /\ reading \in {"draw", "key", "done"} \cup InSequence
  /\ left \in Nat
  /\ focus \in {"correction", "original"}
  /\ event \in Seq(Bytes) /\ pending \in Seq(Bytes)

\* What is left of the event while a sequence is read.
Remainder ==
  /\ reading \in {"draw", "key"} => pending = <<>>
  /\ reading = "escape" =>
       \/ pending = <<>>
       \/ Len(pending) = 1 /\ pending[1] \notin {"[", "O"}
       \/ Len(pending) = 2 /\ pending[1] = "O"
       \/ Len(pending) > 1 /\ pending[1] = "["
            /\ \A k \in 2..(Len(pending) - 1) : pending[k] \notin Final
  /\ reading = "ss3" => Len(pending) = 1
  /\ reading = "csi" => \A k \in 1..(Len(pending) - 1) : pending[k] \notin Final
  /\ reading \in InSequence => Len(event) > 0 /\ event[1] = Esc

\* While a prompt goes on nothing is decided, and the screen shows the focus.
GoesOn ==
  reading # "done" =>
    /\ choice = "none" /\ left > 0
    /\ reading # "draw" => lit = focus
    /\ prompt = "typo" => ~Pressed({"enter"})

KeysInv ==
  /\ KeysTypeOK
  /\ Remainder
  /\ GoesOn
  /\ AnswerHasItsKey
  /\ EnterTakesHighlighted

\* A prompt begins within the invariant.
LEMMA KeysInvInit == KeysInit => KeysInv
<1> SUFFICES ASSUME NEW p \in {"typo", "warning"}, KeysStart(p) PROVE KeysInv
  BY DEF KeysInit
<1> QED BY KeysAssumption DEF KeysStart, KeysInv, KeysTypeOK, Remainder, GoesOn, AnswerHasItsKey,
     EnterTakesHighlighted, InSequence, Pressed

\* A sequence of bytes that is read has a first byte and a rest.
LEMMA ReadByte ==
  ASSUME NEW e \in Seq(Bytes), Len(e) > 0
  PROVE  /\ Head(e) = e[1] /\ Tail(e) \in Seq(Bytes) /\ Len(Tail(e)) = Len(e) - 1
         /\ \A k \in 1..(Len(e) - 1) : Tail(e)[k] = e[k + 1]
         /\ Len(e) = 1 => Tail(e) = <<>>
<1>1. Head(e) = e[1]
  OBVIOUS
<1>2. Tail(e) \in Seq(Bytes) /\ Len(Tail(e)) = Len(e) - 1
  BY HeadTailProperties
<1>3. \A k \in 1..(Len(e) - 1) : Tail(e)[k] = e[k + 1]
  OBVIOUS
<1>4. Len(e) = 1 => Tail(e) = <<>>
  <2> DEFINE t == Tail(e)
  <2>1. ASSUME Len(e) = 1 PROVE t \in Seq(Bytes) /\ ~(Len(t) \in Nat \ {0})
    BY <1>2, <2>1
  <2> HIDE DEF t
  <2>2. ASSUME Len(e) = 1 PROVE t = <<>>
    BY <2>1, <2>2, EmptySeq
  <2> QED BY <2>2 DEF t
<1> QED BY <1>1, <1>2, <1>3, <1>4

\* A key is the first byte of a new event.
LEMMA KeyIsNew ==
  ASSUME KeysInv, reading = "key", NEW e \in Upcoming, Take(e)
  PROVE  /\ e \in Events /\ event' = e /\ pending' = Tail(e)
         /\ e \in Seq(Bytes) /\ Len(e) > 0 /\ OneSequence(e)
<1>1. e \in Events /\ event' = e /\ pending' = Tail(e)
  BY DEF KeysInv, Remainder, Upcoming, Take
<1>2. e \in Seq(Bytes) /\ OneSequence(e)
  BY <1>1, KeysAssumption
<1>3. Len(e) > 0
  BY <1>2 DEF OneSequence
<1> QED BY <1>1, <1>2, <1>3

\* The rest of a sequence is the rest of the event.
LEMMA RestIsOld ==
  ASSUME KeysInv, reading \in InSequence, NEW e \in Upcoming, Take(e)
  PROVE  /\ e = pending /\ event' = event /\ pending' = Tail(pending)
         /\ pending \in Seq(Bytes) /\ Len(pending) > 0
<1>1. e = pending /\ pending # <<>> /\ event' = event /\ pending' = Tail(pending)
  BY DEF Upcoming, Take, InSequence
<1> QED BY <1>1 DEF KeysInv, KeysTypeOK

\* After a key that decides nothing the prompt goes on, or its keys are used up.
LEMMA GoOnStep ==
  ASSUME left \in Nat, left > 0, choice = "none", GoOn
  PROVE  /\ left' \in Nat
         /\ \/ reading' = "key" /\ left' > 0 /\ choice' = "none"
            \/ reading' = "done" /\ left' = 0 /\ choice' = Exhausted
BY DEF GoOn

\* Drawing keeps the invariant.
LEMMA DrawKeeps == KeysInv /\ Draw => KeysInv'
<1> SUFFICES ASSUME KeysInv, Draw PROVE KeysInv'
  OBVIOUS
<1> USE DEF KeysInv, KeysTypeOK, Remainder, GoesOn, AnswerHasItsKey, EnterTakesHighlighted,
      InSequence, Pressed
<1>1. /\ reading = "draw" /\ pending = <<>> /\ UNCHANGED <<prompt, focus, event, pending>>
      /\ choice = "none" /\ (prompt = "typo" => ~Pressed({"enter"}))
  BY DEF Draw, input
<1>2. CASE reading' = "key" /\ lit' = focus /\ UNCHANGED <<left, choice>>
  BY <1>1, <1>2
<1>3. CASE /\ ~drawn' /\ reading' = "done" /\ UNCHANGED <<left, lit>>
           /\ choice' = IF prompt = "typo" THEN "original" ELSE "not shown"
  BY <1>1, <1>3
<1>4. PICK ok \in BOOLEAN :
        /\ drawn' = ok
        /\ IF ok THEN reading' = "key" /\ lit' = focus /\ UNCHANGED <<left, choice>>
                 ELSE /\ reading' = "done" /\ UNCHANGED <<left, lit>>
                      /\ choice' = IF prompt = "typo" THEN "original" ELSE "not shown"
  BY DEF Draw, Answered
<1> QED BY <1>2, <1>3, <1>4

\* Reading a key keeps the invariant: whatever was read before was read whole.
LEMMA ReadKeyKeeps == KeysInv /\ ReadKey => KeysInv'
<1> SUFFICES ASSUME KeysInv, ReadKey PROVE KeysInv'
  OBVIOUS
<1>1. PICK e \in Upcoming :
        /\ Take(e)
        /\ IF Head(e) = Esc
           THEN reading' = "escape" /\ UNCHANGED <<left, focus, lit, drawn, choice>>
           ELSE IF prompt = "typo" THEN TypoKey(Head(e)) ELSE WarningKey(Head(e))
  BY DEF ReadKey
<1>2. reading = "key" /\ UNCHANGED <<prompt, room>>
  BY DEF ReadKey
<1>3. /\ e \in Events /\ event' = e /\ pending' = Tail(e)
      /\ e \in Seq(Bytes) /\ Len(e) > 0 /\ OneSequence(e)
  BY <1>1, <1>2, KeyIsNew
<1>4. /\ Head(e) = e[1] /\ Tail(e) \in Seq(Bytes) /\ Len(Tail(e)) = Len(e) - 1
      /\ \A k \in 1..(Len(e) - 1) : Tail(e)[k] = e[k + 1]
      /\ Len(e) = 1 => Tail(e) = <<>>
  BY <1>3, ReadByte
<1>5. /\ prompt \in {"typo", "warning"} /\ left \in Nat /\ left > 0 /\ choice = "none"
      /\ lit = focus /\ focus \in {"correction", "original"}
  BY <1>2 DEF KeysInv, KeysTypeOK, GoesOn
<1> USE DEF KeysInv, KeysTypeOK, Remainder, GoesOn, AnswerHasItsKey, EnterTakesHighlighted,
      InSequence, Pressed
<1>6. CASE Head(e) = Esc
  <2>1. /\ reading' = "escape" /\ UNCHANGED <<prompt, left, focus, lit, drawn, choice>>
        /\ event'[1] = Esc /\ Len(event') > 0
    BY <1>1, <1>2, <1>3, <1>4, <1>6
  <2>2. Remainder'
    BY <1>3, <1>4, <1>6, <2>1 DEF OneSequence
  <2> QED BY <1>3, <1>4, <1>5, <2>1, <2>2 DEF Esc
<1>7. CASE Head(e) # Esc
  <2> DEFINE b == Head(e)
  <2>1. Len(e) = 1 /\ pending' = <<>> /\ Len(event') = 1 /\ event'[1] = b
    BY <1>3, <1>4, <1>7 DEF OneSequence
  <2> HIDE DEF b
  <2>2. CASE prompt = "warning"
    <3>1. WarningKey(b)
      BY <1>1, <1>7, <2>2 DEF b
    <3>2. CASE b \in DOMAIN WarningAnswers
      <4>1. /\ reading' = "done" /\ choice' = WarningAnswers[b] /\ UNCHANGED <<left, focus, lit, drawn>>
        BY <3>1, <3>2 DEF WarningKey, Answered
      <4> QED BY <1>2, <1>3, <1>4, <1>5, <2>1, <2>2, <3>2, <4>1 DEF WarningAnswers
    <3>3. CASE b \notin DOMAIN WarningAnswers
      BY <1>2, <1>3, <1>4, <1>5, <2>1, <2>2, <3>1, <3>3, GoOnStep DEF WarningKey, Exhausted
    <3> QED BY <3>2, <3>3
  <2>3. CASE prompt = "typo"
    <3>1. TypoKey(b)
      BY <1>1, <1>7, <2>3 DEF b
    <3>2. CASE b = "tab"
      <4>1. CASE GoOn /\ lit' = Flip(focus) /\ focus' = Flip(focus)
        <5>1. focus' \in {"correction", "original"} /\ lit' = focus'
          BY <4>1 DEF Flip
        <5> QED BY <1>2, <1>3, <1>4, <1>5, <2>1, <2>3, <3>2, <4>1, <5>1, GoOnStep DEF Exhausted
      <4>2. CASE Answered("original") /\ drawn' = FALSE /\ focus' = Flip(focus) /\ UNCHANGED lit
        BY <1>2, <1>3, <1>4, <1>5, <2>1, <2>3, <3>2, <4>2 DEF Answered, Flip
      <4> QED BY <3>1, <3>2, <4>1, <4>2 DEF TypoKey, Toggle, Highlight
    <3>3. CASE b # "tab"
      <4>1. /\ reading' = "done" /\ UNCHANGED <<left, focus, lit, drawn>>
            /\ choice' = IF b \in DOMAIN TypoAnswers THEN TypoAnswers[b]
                         ELSE IF b = "enter" /\ focus = "correction" THEN "correct" ELSE "original"
        BY <3>1, <3>3 DEF TypoKey, Answered
      <4> QED BY <1>2, <1>3, <1>4, <1>5, <2>1, <2>3, <3>3, <4>1 DEF TypoAnswers
    <3> QED BY <3>2, <3>3
  <2> QED BY <1>5, <2>2, <2>3
<1> QED BY <1>6, <1>7

\* The reads within an escape sequence keep the invariant.
LEMMA SequenceKeeps ==
  ASSUME KeysInv, ReadEscape \/ ReadCsi \/ ReadSs3 \/ NothingComes
  PROVE  KeysInv'
<1>1. /\ prompt \in {"typo", "warning"} /\ left \in Nat /\ left > 0 /\ choice = "none"
      /\ lit = focus
  BY DEF ReadEscape, ReadCsi, ReadSs3, NothingComes, KeysInv, KeysTypeOK, GoesOn
<1> USE DEF KeysInv, KeysTypeOK, Remainder, GoesOn, AnswerHasItsKey, EnterTakesHighlighted,
      InSequence, Pressed
\* Within a sequence the prompt is over, or the next key may come.
<1>2. ASSUME event' = event, event \in Seq(Bytes), Len(event) > 0, event[1] = Esc,
             pending' \in Seq(Bytes), UNCHANGED <<prompt, focus, lit, drawn>>,
             \/ GoOn /\ (reading' = "key" => pending' = <<>>)
             \/ Invalid
      PROVE  KeysInv'
  BY <1>1, <1>2, GoOnStep DEF Invalid, Answered, Exhausted, Esc
<1>3. CASE ReadEscape
  <2>1. PICK e \in Upcoming :
          /\ Take(e)
          /\ IF Head(e) = "[" THEN reading' = "csi" /\ UNCHANGED <<left, choice>>
             ELSE IF Head(e) = "O" THEN reading' = "ss3" /\ UNCHANGED <<left, choice>>
             ELSE GoOn
    BY <1>3 DEF ReadEscape
  <2>2. /\ e = pending /\ event' = event /\ pending' = Tail(pending)
        /\ pending \in Seq(Bytes) /\ Len(pending) > 0
        /\ reading = "escape" /\ UNCHANGED <<prompt, focus, lit, drawn>>
    BY <1>3, <2>1, RestIsOld DEF ReadEscape
  <2>3. /\ Head(pending) = pending[1] /\ Tail(pending) \in Seq(Bytes)
        /\ Len(Tail(pending)) = Len(pending) - 1
        /\ \A k \in 1..(Len(pending) - 1) : Tail(pending)[k] = pending[k + 1]
        /\ Len(pending) = 1 => Tail(pending) = <<>>
    BY <2>2, ReadByte
  <2>4. CASE Head(pending) = "["
    BY <1>1, <2>1, <2>2, <2>3, <2>4 DEF Esc
  <2>5. CASE Head(pending) = "O"
    BY <1>1, <2>1, <2>2, <2>3, <2>5 DEF Esc
  <2>6. CASE Head(pending) \notin {"[", "O"}
    <3>1. GoOn /\ pending' = <<>>
      BY <2>1, <2>2, <2>3, <2>6
    <3> QED BY <1>2, <2>2, <2>3, <3>1
  <2> QED BY <2>4, <2>5, <2>6
<1>4. CASE ReadCsi
  <2>1. PICK e \in Upcoming :
          /\ Take(e)
          /\ IF Head(e) \in Final THEN GoOn
             ELSE IF Head(e) \notin Parameter THEN Invalid
             ELSE IF room = 1 THEN TooLong
             ELSE UNCHANGED <<reading, left, choice>>
    BY <1>4 DEF ReadCsi
  <2>2. /\ e = pending /\ event' = event /\ pending' = Tail(pending)
        /\ pending \in Seq(Bytes) /\ Len(pending) > 0
        /\ reading = "csi" /\ UNCHANGED <<prompt, focus, lit, drawn>>
    BY <1>4, <2>1, RestIsOld DEF ReadCsi
  <2>3. /\ Head(pending) = pending[1] /\ Tail(pending) \in Seq(Bytes)
        /\ Len(Tail(pending)) = Len(pending) - 1
        /\ \A k \in 1..(Len(pending) - 1) : Tail(pending)[k] = pending[k + 1]
        /\ Len(pending) = 1 => Tail(pending) = <<>>
    BY <2>2, ReadByte
  <2>4. CASE Head(pending) \in Final
    <3>1. Len(pending) = 1
      BY <2>2, <2>3, <2>4
    <3> QED BY <1>2, <2>1, <2>2, <2>3, <2>4, <3>1
  <2>5. CASE Invalid
    BY <1>2, <2>2, <2>3, <2>5
  <2>6. CASE UNCHANGED <<reading, left, choice>>
    BY <1>1, <2>2, <2>3, <2>6 DEF Esc
  <2> QED BY <2>1, <2>2, <2>4, <2>5, <2>6 DEF TooLong
<1>5. CASE ReadSs3
  <2>1. PICK e \in Upcoming : Take(e)
    BY <1>5 DEF ReadSs3
  <2>2. /\ event' = event /\ pending' = Tail(pending)
        /\ pending \in Seq(Bytes) /\ Len(pending) > 0
        /\ reading = "ss3" /\ UNCHANGED <<prompt, focus, lit, drawn>>
    BY <1>5, <2>1, RestIsOld DEF ReadSs3
  <2>3. pending' = <<>>
    BY <2>2, ReadByte
  <2> QED BY <1>2, <1>5, <2>2, <2>3 DEF ReadSs3
<1>6. CASE NothingComes
  <2>1. /\ reading' = "done" /\ UNCHANGED <<prompt, focus, lit, event, pending, drawn, left>>
        /\ choice' = IF reading = "escape" THEN IF prompt = "typo" THEN "original" ELSE "cancel"
                     ELSE "timeout"
    BY <1>6 DEF NothingComes, Unanswered, Answered, input
  <2> QED BY <1>1, <2>1 DEF Esc
<1> QED BY <1>3, <1>4, <1>5, <1>6

\* Every reachable state of a prompt has the invariant: where the reader is in an
\* event is where the event is (ui.rs:286-345).
THEOREM KeysInvariant == KeysSpec => []KeysInv
<1>1. KeysInv /\ [KeysNext]_keyVars => KeysInv'
  <2> SUFFICES ASSUME KeysInv, [KeysNext]_keyVars PROVE KeysInv'
    OBVIOUS
  <2>1. CASE UNCHANGED keyVars
    BY <2>1 DEF keyVars, input, KeysInv, KeysTypeOK, Remainder, GoesOn, AnswerHasItsKey,
       EnterTakesHighlighted, InSequence, Pressed
  <2> QED BY <2>1, DrawKeeps, ReadKeyKeeps, SequenceKeeps DEF KeysNext, KeysOver
<1> QED BY <1>1, KeysInvInit, PTL DEF KeysSpec

\* An answer that is told as the user's was given by a key of its own, never by a
\* byte of an escape sequence, and Enter takes the choice that is highlighted.
THEOREM AnswersAreTyped == KeysSpec => []AnswerWasTyped
<1>1. KeysInv => AnswerWasTyped
  BY DEF KeysInv, Remainder, AnswerWasTyped, SequencesConsumedWhole
<1> QED BY <1>1, KeysInvariant, PTL

-----------------------------------------------------------------------------
(* The consultation *)

TimeInv ==
  /\ clock \in Nat /\ timeout \in Nat /\ cutoff \in Nat
  /\ clock <= cutoff
  /\ exchange \in {"probe", "chat"}
  /\ cutoff = IF exchange = "probe" THEN ProbeCutoff(timeout) ELSE timeout
  /\ ProbeLeavesTime

PeerInv ==
  /\ exchange \in {"probe", "chat"}
  /\ at = "verify" => owner \in Owners
  /\ at \in {"write", "read"} => owner \in {"self", "system"} \/ vouched = "unowned"
  /\ CommandOnlyToTrusted

\* The probe's window is within the timeout, and no longer than the timeout's
\* share or the least window.
LEMMA ProbeIsShort ==
  ASSUME NEW t \in Nat
  PROVE  /\ ProbeCutoff(t) \in Nat /\ ProbeCutoff(t) <= t
         /\ ProbeCutoff(t) <= t \div ProbeShare \/ ProbeCutoff(t) <= ProbeMin
<1>1. t \div ProbeShare \in Nat
  BY ConsultAssumption
<1>2. ProbeMin \in Nat /\ ProbeMax \in Nat
  BY ConsultAssumption
<1> QED BY <1>1, <1>2 DEF ProbeCutoff

LEMMA LessUsedMoreLeft ==
  ASSUME NEW t \in Int, NEW c \in Int, NEW s \in Int, NEW m \in Int, c <= s \/ c <= m
  PROVE  t - c >= t - s \/ t - c >= t - m
OBVIOUS

\* The end of an exchange, by a call that returned within its deadline.
LEMMA FinishKeepsTime ==
  ASSUME TimeInv, NEW result, Finish(result), UNCHANGED timeout,
         clock' \in Nat, clock' <= cutoff
  PROVE  TimeInv'
<1>1. CASE exchange = "probe"
  <2>1. exchange' = "chat" /\ cutoff' = timeout
    BY <1>1 DEF Finish
  <2>2. clock' <= timeout /\ (clock' <= timeout \div ProbeShare \/ clock' <= ProbeMin)
    <3>1. timeout \div ProbeShare \in Int /\ ProbeMin \in Int
      BY ConsultAssumption DEF TimeInv
    <3> QED BY <1>1, <3>1, ProbeIsShort DEF TimeInv
  <2>3. timeout \div ProbeShare \in Int /\ ProbeMin \in Int
    BY ConsultAssumption DEF TimeInv
  <2>4. ProbeLeavesTime'
    <3> DEFINE share == timeout \div ProbeShare
    <3>1. /\ timeout \in Int /\ clock' \in Int /\ share \in Int /\ ProbeMin \in Int
          /\ clock' <= share \/ clock' <= ProbeMin
      BY <2>2, <2>3 DEF TimeInv
    <3>2. timeout - clock' >= timeout - share \/ timeout - clock' >= timeout - ProbeMin
      <4> HIDE DEF share
      <4> QED BY <3>1, LessUsedMoreLeft
    <3> QED BY <3>2 DEF ProbeLeavesTime
  <2> QED BY <2>1, <2>2, <2>4 DEF TimeInv
<1>2. CASE exchange # "probe"
  <2>1. exchange' = exchange /\ cutoff' = cutoff /\ at' = "over"
    BY <1>2 DEF Finish
  <2> QED BY <1>2, <2>1 DEF TimeInv, ProbeLeavesTime
<1> QED BY <1>1, <1>2

LEMMA TimeStep == TimeInv /\ [ConsultNext]_consultVars => TimeInv'
<1> SUFFICES ASSUME TimeInv, [ConsultNext]_consultVars PROVE TimeInv'
  OBVIOUS
<1>1. CASE UNCHANGED consultVars
  BY <1>1 DEF consultVars, TimeInv, ProbeLeavesTime
<1>2. CASE CallTimesOut
  <2>1. clock' \in Nat /\ clock' <= cutoff
    BY <1>2 DEF CallTimesOut, Late, Takes, Patience, TimeInv
  <2> QED BY <1>2, <2>1, FinishKeepsTime DEF CallTimesOut
<1>3. CASE CallFails
  <2>1. clock' \in Nat /\ clock' <= cutoff
    BY <1>3 DEF CallFails, Takes, Patience, TimeInv
  <2> QED BY <1>3, <2>1, FinishKeepsTime DEF CallFails
<1>4. CASE Connect
  <2>1. clock' \in Nat /\ clock' <= cutoff
    BY <1>4 DEF Connect, Takes, Patience, TimeInv
  <2> QED BY <1>4, <2>1 DEF Connect, TimeInv, ProbeLeavesTime
<1>5. CASE VerifyPeer
  <2>1. CASE at' = "write" /\ UNCHANGED <<exchange, cutoff>>
    BY <1>5, <2>1 DEF VerifyPeer, TimeInv, ProbeLeavesTime
  <2>2. CASE Finish(Decoded("untrusted_peer", <<>>))
    BY <1>5, <2>2, FinishKeepsTime DEF VerifyPeer, TimeInv
  <2> QED BY <1>5, <2>1, <2>2 DEF VerifyPeer
<1>6. CASE Write
  <2>1. clock' \in Nat /\ clock' <= cutoff /\ at' # "connect"
    BY <1>6 DEF Write, Takes, Patience, TimeInv
  <2> QED BY <1>6, <2>1 DEF Write, TimeInv, ProbeLeavesTime
<1>7. CASE Read
  <2>1. clock' \in Nat /\ clock' <= cutoff /\ at' # "connect"
    BY <1>7 DEF Read, Takes, Patience, TimeInv
  <2> QED BY <1>7, <2>1 DEF Read, TimeInv, ProbeLeavesTime
<1>8. CASE ReadEnds
  <2>1. clock' \in Nat /\ clock' <= cutoff
    BY <1>8 DEF ReadEnds, Takes, Patience, TimeInv
  <2> QED BY <1>8, <2>1, FinishKeepsTime DEF ReadEnds
<1>9. CASE ReadDecides
  BY <1>9, FinishKeepsTime DEF ReadDecides, TimeInv
<1>10. CASE ConsultOver
  BY <1>10 DEF ConsultOver, consultVars, TimeInv, ProbeLeavesTime
<1>11. CASE ServerAccepts
  BY <1>11 DEF ServerAccepts, TimeInv, ProbeLeavesTime
<1> QED BY <1>1, <1>2, <1>3, <1>4, <1>5, <1>6, <1>7, <1>8, <1>9, <1>10, <1>11 DEF ConsultNext

\* However the server trickles, no call returns after its exchange's deadline,
\* and the probe leaves the chat its time (remaining, write_all, read_some).
THEOREM ConsultEndsInTime == ConsultSpec => []EndsByDeadline
<1>1. ConsultInit => TimeInv
  <2> SUFFICES ASSUME NEW t \in Timeouts, ConsultStart(t) PROVE TimeInv
    BY DEF ConsultInit
  <2>1. t \in Nat
    BY ConsultAssumption
  <2> QED BY <2>1, ProbeIsShort DEF ConsultStart, TimeInv, ProbeLeavesTime
<1>2. TimeInv => EndsByDeadline
  BY ProbeIsShort DEF TimeInv, EndsByDeadline
<1> QED BY <1>1, <1>2, TimeStep, PTL DEF ConsultSpec

LEMMA FinishKeepsPeers ==
  ASSUME PeerInv, NEW result, Finish(result)
  PROVE  PeerInv'
<1>1. told' = told /\ at' \in {"connect", "over"}
  BY DEF Finish
<1>2. exchange' \in {exchange, "chat"}
  BY DEF Finish
<1> QED BY <1>1, <1>2 DEF PeerInv, CommandOnlyToTrusted

LEMMA PeerStep == PeerInv /\ [ConsultNext]_consultVars => PeerInv'
<1> SUFFICES ASSUME PeerInv, [ConsultNext]_consultVars PROVE PeerInv'
  OBVIOUS
<1>1. CASE UNCHANGED consultVars
  BY <1>1 DEF consultVars, connection, PeerInv, CommandOnlyToTrusted
<1>2. CASE CallTimesOut \/ CallFails \/ ReadEnds \/ ReadDecides
  BY <1>2, FinishKeepsPeers DEF CallTimesOut, CallFails, ReadEnds, ReadDecides
<1>3. CASE Connect
  BY <1>3 DEF Connect, PeerInv, CommandOnlyToTrusted
<1>4. CASE VerifyPeer
  <2>1. ASSUME NEW row \in {owner, "unowned"}, Trusted(row), vouched' = row, at' = "write",
               UNCHANGED <<exchange, owner, told>>
        PROVE  PeerInv'
    <3>1. owner \in Owners
      BY <1>4 DEF VerifyPeer, PeerInv
    <3>2. owner \in {"self", "system"} \/ vouched' = "unowned"
      BY <2>1, <3>1 DEF Trusted, Owners
    <3> QED BY <2>1, <3>2 DEF PeerInv, CommandOnlyToTrusted
  <2>2. CASE Finish(Decoded("untrusted_peer", <<>>))
    BY <2>2, FinishKeepsPeers
  <2> QED BY <1>4, <2>1, <2>2 DEF VerifyPeer
<1>8. CASE ServerAccepts
  BY <1>8 DEF ServerAccepts, PeerInv, CommandOnlyToTrusted
<1>5. CASE Write
  BY <1>5 DEF Write, Content, PeerInv, CommandOnlyToTrusted
<1>6. CASE Read
  BY <1>6 DEF Read, PeerInv, CommandOnlyToTrusted
<1>7. CASE ConsultOver
  BY <1>7 DEF ConsultOver, consultVars, connection, PeerInv, CommandOnlyToTrusted
<1> QED BY <1>1, <1>2, <1>3, <1>4, <1>5, <1>6, <1>7, <1>8 DEF ConsultNext

\* Nothing is written to another user's process that had accepted its connection
\* when it was checked, and the command only in the chat, whoever has the port when
\* and whenever it accepts (verify_peer, peer_uid_trusted).
THEOREM OnlyTrustedPeersAreTold == ConsultSpec => []CommandOnlyToTrusted
<1>1. ConsultInit => PeerInv
  BY DEF ConsultInit, ConsultStart, PeerInv, CommandOnlyToTrusted
<1>2. PeerInv => CommandOnlyToTrusted
  BY DEF PeerInv
<1> QED BY <1>1, <1>2, PeerStep, PTL DEF ConsultSpec

-----------------------------------------------------------------------------
(* What a server can make the process hold                                   *)

BodyCap == IF ChatCap > PsCap THEN 2 * ChatCap + Slack ELSE 2 * PsCap + Slack

BufferInv ==
  /\ came \in Nat
  /\ at \in {"verify", "write", "read"} => reply \in Replies
  /\ \/ came <= HeadCap + ReadSize
     \/ /\ at \in {"read", "over"}
        /\ Len(reply.head) <= HeadCap + ReadSize
        /\ came <= Len(reply.head) + BodyCap + ReadSize

LEMMA CapsAreNumbers ==
  /\ HeadCap \in Nat /\ ReadSize \in Nat /\ BodyCap \in Nat /\ Cap \in Nat /\ EncodedCap \in Nat
  /\ Cap <= BodyCap /\ EncodedCap <= BodyCap
<1>1. /\ HeadCap \in Nat /\ ReadSize \in Nat
      /\ PsCap \in Nat /\ ChatCap \in Nat /\ Slack \in Nat
  BY ConsultAssumption
<1> QED BY <1>1 DEF BodyCap, Cap, EncodedCap

\* A reply is its head and its body, and only the last atom of a head is blank.
LEMMA StreamParts ==
  ASSUME reply \in Replies
  PROVE  /\ Len(reply.head) \in Nat /\ Len(Stream) \in Nat
         /\ \E S : Stream \in Seq(S)
         /\ \A k \in 1..Len(Stream) : Stream[k] = Blank => k >= Len(reply.head)
<1> DEFINE h == reply.head
           b == reply.body
           H == {h[k] : k \in DOMAIN h}
           B == {b[k] : k \in DOMAIN b}
           S == H \cup B
<1>1. h \in Seq(H) /\ b \in Seq(B) /\ \A k \in DOMAIN h : h[k] = Blank => k = Len(h)
  BY ReplyAssumption
<1>2. Stream = h \o b
  BY DEF Stream
<1> HIDE DEF h, b, H, B
<1>3. h \in Seq(S) /\ b \in Seq(S)
  BY <1>1, SeqMonotonic
<1> HIDE DEF S
<1>4. Len(h) \in Nat /\ Len(b) \in Nat /\ DOMAIN h = 1..Len(h)
  BY <1>3, LenProperties
<1>5. /\ Stream \in Seq(S) /\ Len(Stream) = Len(h) + Len(b)
      /\ \A k \in 1..Len(h) + Len(b) : Stream[k] = IF k <= Len(h) THEN h[k] ELSE b[k - Len(h)]
  BY <1>2, <1>3, ConcatProperties
<1>6. \A k \in 1..Len(Stream) : Stream[k] = Blank => k >= Len(h)
  BY <1>1, <1>4, <1>5
<1> QED BY <1>4, <1>5, <1>6 DEF h

\* Another read is asked for only while the head, or what the head announced,
\* may still be within its cap.
LEMMA MoreMeansWithin ==
  ASSUME reply \in Replies, came \in Nat, came <= Len(Stream), Progress.kind = "more"
  PROVE  \/ came <= HeadCap
         \/ Len(reply.head) <= came /\ came <= Len(reply.head) + BodyCap
<1>1. TooLarge.kind # "more" /\ came \in 0..Len(Stream)
  BY StreamParts DEF TooLarge, Decoded
<1>2. CASE \A k \in 1..came : Stream[k] # Blank
  <2>1. Progress = IF came > HeadCap THEN TooLarge ELSE More
    BY <1>2 DEF Progress
  <2> QED BY <1>1, <2>1, CapsAreNumbers
<1>3. CASE \E k \in 1..came : Stream[k] = Blank
  <2> DEFINE h == Len(reply.head)
             body == SubSeq(Stream, h + 1, came)
  <2>1. h \in Nat /\ h <= came
    BY <1>1, <1>3, StreamParts
  <2> HIDE DEF h
  <2>2. Len(body) = came - h
    <3>1. PICK S : Stream \in Seq(S)
      BY StreamParts
    <3>2. CASE h + 1 <= came
      BY <1>1, <2>1, <3>1, <3>2, SubSeqProperties
    <3>3. CASE h = came
      BY <1>1, <2>1, <3>1, <3>3, SubSeqProperties
    <3> QED BY <2>1, <3>2, <3>3
  <2> HIDE DEF body
  <2>3. Body(body).kind = "more"
    <3>1. Progress = IF reply.status # "2xx" THEN Decoded(reply.status, <<>>) ELSE Body(body)
      BY <1>3 DEF Progress, body, h
    <3>2. reply.status # "more"
      BY ReplyAssumption
    <3> QED BY <3>1, <3>2 DEF Decoded
  <2>4. Len(body) <= BodyCap
    <3>1. reply.length \in Nat
      BY ReplyAssumption
    <3>2. Len(body) \in Int
      BY <2>1, <2>2
    <3>3. \/ Len(body) <= EncodedCap \/ Len(body) <= Cap
          \/ Len(body) < reply.length /\ reply.length <= Cap
      BY <1>1, <2>3, <3>1, <3>2, CapsAreNumbers DEF Body, More, Decoded
    <3> QED BY <3>1, <3>2, <3>3, CapsAreNumbers
  <2> QED BY <2>1, <2>2, <2>4, CapsAreNumbers DEF h
<1> QED BY <1>2, <1>3

LEMMA FinishKeepsBuffer ==
  ASSUME BufferInv, NEW result, Finish(result)
  PROVE  BufferInv'
<1>1. CASE came' = 0 /\ at' = "connect"
  BY <1>1, CapsAreNumbers DEF BufferInv
<1>2. CASE UNCHANGED <<reply, came>> /\ at' = "over"
  BY <1>2 DEF BufferInv
<1> QED BY <1>1, <1>2 DEF Finish, connection

LEMMA BufferStep == BufferInv /\ [ConsultNext]_consultVars => BufferInv'
<1> SUFFICES ASSUME BufferInv, [ConsultNext]_consultVars PROVE BufferInv'
  OBVIOUS
<1>1. CASE UNCHANGED consultVars
  BY <1>1 DEF consultVars, connection, BufferInv
<1>2. CASE CallTimesOut \/ CallFails \/ ReadEnds \/ ReadDecides
  BY <1>2, FinishKeepsBuffer DEF CallTimesOut, CallFails, ReadEnds, ReadDecides
<1>3. CASE Connect
  BY <1>3 DEF Connect, BufferInv
<1>4. CASE VerifyPeer
  <2>1. CASE at = "verify" /\ at' = "write" /\ UNCHANGED <<reply, came>>
    BY <2>1 DEF BufferInv
  <2>2. CASE Finish(Decoded("untrusted_peer", <<>>))
    BY <2>2, FinishKeepsBuffer
  <2> QED BY <1>4, <2>1, <2>2 DEF VerifyPeer
<1>5. CASE Write
  BY <1>5 DEF Write, BufferInv
<1>6. CASE Read
  <2>1. PICK n \in 1..ReadSize : came + n <= Len(Stream) /\ came' = came + n
    BY <1>6 DEF Read
  <2>2. reply \in Replies /\ came \in Nat /\ Progress.kind = "more"
        /\ UNCHANGED <<at, reply>> /\ at = "read"
    BY <1>6 DEF Read, BufferInv
  <2>3. came <= Len(Stream) /\ Len(reply.head) \in Nat
    BY <2>1, <2>2, StreamParts, CapsAreNumbers
  <2>4. CASE came <= HeadCap
    BY <2>1, <2>2, <2>4, CapsAreNumbers DEF BufferInv
  <2>5. CASE Len(reply.head) <= came /\ came <= Len(reply.head) + BodyCap
    <3>1. Len(reply.head) <= HeadCap + ReadSize
      BY <2>2, <2>3, <2>5, CapsAreNumbers DEF BufferInv
    <3> QED BY <2>1, <2>2, <2>3, <2>5, <3>1, CapsAreNumbers DEF BufferInv
  <2> QED BY <2>2, <2>3, <2>4, <2>5, MoreMeansWithin
<1>7. CASE ConsultOver
  BY <1>7 DEF ConsultOver, consultVars, connection, BufferInv
<1>8. CASE ServerAccepts
  BY <1>8 DEF ServerAccepts, BufferInv
<1> QED BY <1>1, <1>2, <1>3, <1>4, <1>5, <1>6, <1>7, <1>8 DEF ConsultNext

\* Whatever a server announces and however long it sends, what the process holds
\* of it is bounded by the caps (http_exchange, decode_chunked).
THEOREM BufferIsBounded == ConsultSpec => []BufferBounded
<1>1. ConsultInit => BufferInv
  BY CapsAreNumbers DEF ConsultInit, ConsultStart, BufferInv
<1>2. BufferInv => BufferBounded
  <2> SUFFICES ASSUME BufferInv PROVE came <= HeadCap + ReadSize + BodyCap + ReadSize
    BY DEF BufferBounded, BodyCap
  <2> QED BY CapsAreNumbers DEF BufferInv
<1> QED BY <1>1, <1>2, BufferStep, PTL DEF ConsultSpec

-----------------------------------------------------------------------------
(* What a chunked body amounts to                                            *)

\* The part of a sequence up to one more place.
LEMMA OneMore ==
  ASSUME NEW T, NEW s \in Seq(T), NEW m \in 1..(Len(s) + 1), NEW n \in (m - 1)..(Len(s) - 1)
  PROVE  SubSeq(s, m, n + 1) = Append(SubSeq(s, m, n), s[n + 1])
<1>1. Len(s) \in Nat
  BY LenProperties
<1>2. m \in 1..Len(s) /\ n + 1 \in m..Len(s) /\ n + 1 \in 1..Len(s) /\ (n + 1) - 1 = n
  BY <1>1
<1>3. SubSeq(s, m, n + 1) = SubSeq(s, m, n) \o <<s[n + 1]>>
  BY <1>2, SubSeqRecursiveSecond
<1>4. SubSeq(s, m, n) \in Seq(T) /\ s[n + 1] \in T
  <2>1. s[n + 1] \in T
    BY <1>2, ElementOfSeq
  <2>2. \A i \in m..n : i \in 1..Len(s)
    BY <1>1
  <2>3. \A i \in m..n : s[i] \in T
    BY <2>2, ElementOfSeq
  <2>4. m \in Int /\ n \in Int
    BY <1>1
  <2> QED BY <2>1, <2>3, <2>4, SubSeqProperties
<1> QED BY <1>3, <1>4, AppendIsConcat

\* What the reader that is fed atom by atom may be, and what F, its states after
\* each atom of b, are.
Readers(T) == [mode : {"size", "data", "end", "done", "bad"}, left : Int, got : Seq(T)]
FedOn(F, b, T) ==
  /\ F[0] = ChunkStart /\ \A k \in 0..Len(b) : F[k] \in Readers(T)
  /\ \A k \in 0..(Len(b) - 1) : F[k + 1] = Feed(F[k], b[k + 1])

\* A reader stays a reader.
LEMMA FeedTyped ==
  ASSUME NEW T, NEW r \in Readers(T), NEW a \in T
  PROVE  Feed(r, a) \in Readers(T)
<1>1. /\ r.mode \in {"size", "data", "end", "done", "bad"} /\ r.left \in Int /\ r.got \in Seq(T)
      /\ r = [mode |-> r.mode, left |-> r.left, got |-> r.got]
  BY DEF Readers
<1>2. r.left - 1 \in Int /\ Append(r.got, a) \in Seq(T)
  BY <1>1, AppendProperties
<1>3. a \in DOMAIN SizeOf => SizeOf[a] \in Int
  <2>1. SizeOf \in [DOMAIN SizeOf -> Nat]
    BY ConsultAssumption
  <2> QED BY <2>1
<1>4. CASE r.mode = "size" /\ a = Pad
  BY <1>4 DEF Feed
<1>5. CASE r.mode = "size" /\ a # Pad /\ a \in DOMAIN SizeOf
  <2>1. Feed(r, a) = [r EXCEPT !.mode = IF SizeOf[a] = 0 THEN "done" ELSE "data", !.left = SizeOf[a]]
    BY <1>5 DEF Feed
  <2> QED BY <1>1, <1>3, <1>5, <2>1 DEF Readers
<1>6. CASE r.mode = "data"
  <2>1. Feed(r, a) = [mode |-> IF r.left = 1 THEN "end" ELSE "data", left |-> r.left - 1,
                      got |-> Append(r.got, a)]
    BY <1>6 DEF Feed
  <2> QED BY <1>1, <1>2, <2>1 DEF Readers
<1>7. CASE r.mode = "end" /\ a = Crlf
  <2>1. Feed(r, a) = [r EXCEPT !.mode = "size"]
    BY <1>7 DEF Feed
  <2> QED BY <1>1, <2>1 DEF Readers
<1>8. CASE r.mode = "done"
  BY <1>8 DEF Feed
<1>9. CASE \/ r.mode = "size" /\ a # Pad /\ a \notin DOMAIN SizeOf
           \/ r.mode = "end" /\ a # Crlf
           \/ r.mode = "bad"
  <2>1. Feed(r, a) = [r EXCEPT !.mode = "bad"]
    BY <1>9 DEF Feed
  <2> QED BY <1>1, <2>1 DEF Readers
<1> QED BY <1>1, <1>4, <1>5, <1>6, <1>7, <1>8, <1>9

\* FedBy gives the states.
LEMMA FedByIsFed ==
  ASSUME NEW T, NEW b \in Seq(T)
  PROVE  FedOn(FedBy(b), b, T)
<1> DEFINE N == Len(b)
           D == 0..N
           V == Readers(T)
           G == [k \in 1..N |-> [r \in V |-> Feed(r, b[k])]]
           body(f) == [k \in D |-> IF k = 0 THEN ChunkStart ELSE Feed(f[k - 1], b[k])]
           f == CHOOSE f : f = body(f)
<1>1. N \in Nat /\ \A k \in 1..N : b[k] \in T
  BY LenProperties, ElementOfSeq
<1>2. FedBy(b) = f
  BY DEF FedBy
<1>3. ChunkStart \in V
  <2>1. <<>> \in Seq(T)
    BY EmptySeq
  <2> QED BY <2>1 DEF ChunkStart, Readers
<1>4. \A k \in 1..N : \A r \in V : G[k][r] = Feed(r, b[k]) /\ G[k][r] \in V
  BY <1>1, FeedTyped
<1> HIDE DEF G, V, N, body, D
<1>5. StepsIn(N, V, ChunkStart, G)
  BY <1>3, <1>4 DEF StepsIn
<1>6. PICK g : Steps(g, N, V, ChunkStart, G)
  BY <1>1, <1>5, ForwardRecursion
<1>7. g \in [0..N -> V] /\ g[0] = ChunkStart /\ \A k \in 1..N : g[k] = G[k][g[k - 1]]
  BY <1>6 DEF Steps
<1>8. ASSUME NEW k \in 0..N, k # 0 PROVE g[k] = Feed(g[k - 1], b[k])
  <2>1. k \in 1..N /\ k - 1 \in 0..N
    BY <1>1, <1>8
  <2>2. g[k - 1] \in V
    BY <1>7, <2>1
  <2> QED BY <1>4, <1>7, <2>1, <2>2
<1>9. g = body(g)
  BY <1>7, <1>8 DEF body, D
<1>10. f = body(f)
  BY <1>9
<1> HIDE DEF f
<1>11. f[0] = ChunkStart
  <2>1. 0 \in D
    BY <1>1 DEF D
  <2> QED BY <1>10, <2>1 DEF body
<1>12. ASSUME NEW k \in 0..(N - 1) PROVE f[k + 1] = Feed(f[k], b[k + 1])
  <2>1. k + 1 \in D /\ k + 1 # 0 /\ (k + 1) - 1 = k
    BY <1>1 DEF D
  <2> QED BY <1>10, <2>1 DEF body
<1> DEFINE Ok == {k \in 0..N : f[k] \in V}
<1>13. 0 \in Ok
  BY <1>1, <1>3, <1>11
<1>14. ASSUME NEW k \in 0..(N - 1), k \in Ok PROVE k + 1 \in Ok
  <2>1. k + 1 \in 1..N /\ k + 1 \in 0..N
    BY <1>1
  <2>2. f[k] \in V
    BY <1>14
  <2>3. Feed(f[k], b[k + 1]) \in V
    BY <1>1, <2>1, <2>2, FeedTyped DEF V
  <2> QED BY <1>12, <2>1, <2>3
<1> HIDE DEF Ok
<1>15. 0..N \subseteq Ok
  BY <1>1, <1>13, <1>14, NatSteps
<1>16. \A k \in 0..N : f[k] \in V
  BY <1>15 DEF Ok
<1> QED BY <1>2, <1>11, <1>12, <1>16 DEF FedOn, N, V

\* What never changes back: the end of a body and what has been got of it.
LEMMA FedStays ==
  ASSUME NEW T, NEW b \in Seq(T), NEW F, FedOn(F, b, T), NEW k \in 0..Len(b), NEW n \in k..Len(b)
  PROVE  /\ F[k].mode = "done" => F[n] = F[k]
         /\ F[k].mode = "bad" => F[n].mode = "bad"
         /\ Len(F[k].got) \in Nat /\ Len(F[n].got) \in Nat /\ Len(F[k].got) <= Len(F[n].got)
<1> DEFINE N == Len(b)
           stays(j) == /\ F[k].mode = "done" => F[j] = F[k]
                       /\ F[k].mode = "bad" => F[j].mode = "bad"
                       /\ Len(F[k].got) <= Len(F[j].got)
           Ok == {i \in 0..(N - k) : stays(k + i)}
<1>1. N \in Nat /\ k \in Nat /\ N - k \in Nat /\ \A j \in 0..N : Len(F[j].got) \in Nat
  BY LenProperties DEF FedOn, Readers
<1>2. 0 \in Ok
  BY <1>1
<1>3. ASSUME NEW i \in 0..((N - k) - 1), i \in Ok PROVE i + 1 \in Ok
  <2> DEFINE j == k + i
  <2>1. j \in 0..(N - 1) /\ j \in 0..N /\ j + 1 \in 0..N /\ k + (i + 1) = j + 1
        /\ i + 1 \in 0..(N - k) /\ j + 1 \in 1..N
    BY <1>1
  <2>2. stays(j)
    BY <1>3
  <2> HIDE DEF j
  <2>3. F[j + 1] = Feed(F[j], b[j + 1]) /\ F[j] \in Readers(T) /\ b[j + 1] \in T
    BY <2>1, ElementOfSeq DEF FedOn
  <2>4. F[j].mode = "done" => F[j + 1] = F[j]
    BY <2>3 DEF Feed
  <2>5. F[j].mode = "bad" => F[j + 1].mode = "bad"
    BY <2>3 DEF Feed, Readers
  <2>6. Len(F[j].got) <= Len(F[j + 1].got)
    <3>1. F[j + 1].got = F[j].got \/ F[j + 1].got = Append(F[j].got, b[j + 1])
      BY <2>3 DEF Feed, Readers
    <3>2. F[j].got \in Seq(T)
      BY <2>3 DEF Readers
    <3>3. Len(Append(F[j].got, b[j + 1])) = Len(F[j].got) + 1
      BY <2>3, <3>2, AppendProperties
    <3>4. Len(F[j].got) \in Nat
      BY <1>1, <2>1
    <3> DEFINE len == Len(F[j].got)
    <3> HIDE DEF len
    <3>5. len \in Nat /\ (Len(F[j + 1].got) = len \/ Len(F[j + 1].got) = len + 1)
      BY <3>1, <3>3, <3>4 DEF len
    <3>6. len <= Len(F[j + 1].got)
      BY <3>5
    <3> QED BY <3>6 DEF len
  <2>7. Len(F[k].got) <= Len(F[j + 1].got)
    <3>1. k \in 0..N
      BY <1>1
    <3> DEFINE x == Len(F[k].got)
               y == Len(F[j].got)
               z == Len(F[j + 1].got)
    <3>2. x \in Nat /\ y \in Nat /\ z \in Nat
      BY <1>1, <2>1, <3>1
    <3>3. x <= y /\ y <= z
      BY <2>2, <2>6
    <3> HIDE DEF x, y, z
    <3>4. x <= z
      BY <3>2, <3>3
    <3> QED BY <3>4 DEF x, z
  <2>8. stays(j + 1)
    BY <2>2, <2>4, <2>5, <2>7
  <2> HIDE DEF stays
  <2> QED BY <2>1, <2>8
<1> HIDE DEF Ok
<1>4. 0..(N - k) \subseteq Ok
  BY <1>1, <1>2, <1>3, NatSteps
<1>5. n - k \in Ok /\ k + (n - k) = n
  BY <1>1, <1>4
<1>6. stays(n)
  BY <1>5 DEF Ok
<1> QED BY <1>1, <1>6

\* Padding before a size is passed over.
Padded(b, k, n) == \A j \in (k + 1)..n : b[j] = Pad
LEMMA FedPads ==
  ASSUME NEW T, NEW b \in Seq(T), NEW F, FedOn(F, b, T), NEW k \in 0..Len(b), NEW n \in k..Len(b),
         F[k].mode = "size", Padded(b, k, n)
  PROVE  F[n] = F[k]
<1> DEFINE N == Len(b)
           Ok == {i \in 0..(n - k) : F[k + i] = F[k]}
<1>1. N \in Nat /\ k \in Nat /\ n - k \in Nat /\ n <= N /\ n \in Nat
  BY LenProperties
<1>2. 0 \in Ok
  BY <1>1
<1>3. ASSUME NEW i \in 0..((n - k) - 1), i \in Ok PROVE i + 1 \in Ok
  <2>1. /\ k + i \in 0..(N - 1) /\ (k + i) + 1 \in (k + 1)..n /\ k + (i + 1) = (k + i) + 1
        /\ i + 1 \in 0..(n - k)
    <3>1. i \in Nat /\ i + 1 <= n - k
      BY <1>1
    <3> HIDE DEF N, Ok
    <3>2. k + i + 1 <= n /\ k + i + 1 <= N
      BY <1>1, <3>1
    <3> QED BY <1>1, <3>1, <3>2
  <2>2. F[(k + i) + 1] = Feed(F[k], Pad)
    BY <1>3, <2>1 DEF FedOn, Padded
  <2>3. Feed(F[k], Pad) = F[k]
    BY DEF Feed
  <2> QED BY <2>1, <2>2, <2>3
<1> HIDE DEF Ok
<1>4. 0..(n - k) \subseteq Ok
  BY <1>1, <1>2, <1>3, NatSteps
<1>5. n - k \in Ok /\ k + (n - k) = n
  BY <1>1, <1>4
<1> QED BY <1>5 DEF Ok

\* The data of a chunk is taken as it is.
Taken(F, b, k, d, n) ==
  /\ F[n].got = F[k].got \o SubSeq(b, k + 1, n)
  /\ F[n].mode = IF n = k + d THEN "end" ELSE "data"
LEMMA FedData ==
  ASSUME NEW T, NEW b \in Seq(T), NEW F, FedOn(F, b, T), NEW k \in 0..Len(b), NEW n \in k..Len(b),
         NEW d \in Nat \ {0}, F[k].mode = "data", F[k].left = d, n <= k + d
  PROVE  Taken(F, b, k, d, n)
<1> DEFINE N == Len(b)
           g == F[k].got
           is(i) == /\ F[k + i].got = g \o SubSeq(b, k + 1, k + i) /\ F[k + i].left = d - i
                    /\ F[k + i].mode = IF i = d THEN "end" ELSE "data"
           Ok == {i \in 0..(n - k) : is(i)}
<1>1. N \in Nat /\ k \in Nat /\ n - k \in Nat /\ n <= N /\ n \in Nat
  BY LenProperties
<1>2. d \in Int /\ d # 0 /\ g \in Seq(T)
  BY DEF FedOn, Readers
<1>3. 0 \in Ok
  <2>1. SubSeq(b, k + 1, k) = <<>>
    BY <1>1, SubSeqProperties
  <2>2. g \o <<>> = g
    BY <1>2, ConcatEmptySeq
  <2>3. k + 0 = k /\ d - 0 = d /\ 0 # d /\ 0 \in 0..(n - k)
    BY <1>1, <1>2
  <2> QED BY <2>1, <2>2, <2>3
<1>4. ASSUME NEW i \in 0..((n - k) - 1), i \in Ok PROVE i + 1 \in Ok
  <2> DEFINE j == k + i
  <2>1. /\ j \in 0..(N - 1) /\ j \in 0..N /\ j + 1 \in 1..N /\ k + (i + 1) = j + 1
        /\ i + 1 \in 0..(n - k) /\ i < d /\ j \in k..N /\ j \in Nat
    BY <1>1, <1>2
  <2>2. F[j].got = g \o SubSeq(b, k + 1, j) /\ F[j].left = d - i /\ F[j].mode = "data"
    <3>1. is(i)
      BY <1>4
    <3>2. i # d
      BY <1>2, <2>1
    <3> HIDE DEF g
    <3> QED BY <3>1, <3>2
  <2> HIDE DEF j, g
  <2>3. F[j + 1] = Feed(F[j], b[j + 1]) /\ b[j + 1] \in T
    BY <2>1, ElementOfSeq DEF FedOn
  <2>4. F[j + 1] = [mode |-> IF d - i = 1 THEN "end" ELSE "data", left |-> (d - i) - 1,
                    got |-> Append(F[j].got, b[j + 1])]
    BY <2>2, <2>3 DEF Feed
  <2>5. d - i = 1 <=> i + 1 = d
    BY <1>2, <2>1
  <2>6. (d - i) - 1 = d - (i + 1)
    BY <1>2, <2>1
  <2>7. Append(F[j].got, b[j + 1]) = g \o SubSeq(b, k + 1, j + 1)
    <3> DEFINE u == SubSeq(b, k + 1, j)
    <3>1. k + 1 \in 1..(N + 1) /\ j \in k..N /\ j + 1 \in (k + 1)..N
      BY <1>1, <2>1
    <3>2. u \in Seq(T)
      BY <1>1, <2>1, <3>1, SubSeqProperties
    <3>3. SubSeq(b, k + 1, j + 1) = Append(u, b[j + 1])
      BY <1>1, <2>1, <3>1, OneMore
    <3> HIDE DEF u
    <3>4. g \in Seq(T) /\ b[j + 1] \in T
      BY <1>2, <2>3
    <3> DEFINE e == b[j + 1]
    <3> HIDE DEF e
    <3>5. g \in Seq(T) /\ u \in Seq(T) /\ e \in T
      BY <3>2, <3>4 DEF e
    <3>6. Append(g \o u, e) = g \o Append(u, e)
      <4>1. g \o u \in Seq(T) /\ <<e>> \in Seq(T)
        BY <3>5, ConcatProperties, EmptySeq
      <4>2. Append(g \o u, e) = (g \o u) \o <<e>>
        BY <3>5, <4>1, AppendIsConcat
      <4>3. Append(u, e) = u \o <<e>>
        BY <3>5, AppendIsConcat
      <4>4. (g \o u) \o <<e>> = g \o (u \o <<e>>)
        BY SMTT(60), <3>5, <4>1, ConcatAssociative
      <4> QED BY <4>2, <4>3, <4>4
    <3> QED BY <2>2, <3>3, <3>6 DEF u, e
  <2>8. /\ F[j + 1].got = g \o SubSeq(b, k + 1, j + 1) /\ F[j + 1].left = d - (i + 1)
        /\ F[j + 1].mode = IF i + 1 = d THEN "end" ELSE "data"
    <3> DEFINE y == Append(F[j].got, b[j + 1])
               l == (d - i) - 1
               x == F[j + 1]
    <3> HIDE DEF y, l, x
    <3>1. x = [mode |-> IF d - i = 1 THEN "end" ELSE "data", left |-> l, got |-> y]
      BY <2>4 DEF y, l, x
    <3>2. x.got = y /\ x.left = l /\ x.mode = IF i + 1 = d THEN "end" ELSE "data"
      BY <2>5, <3>1
    <3> QED BY <2>6, <2>7, <3>2 DEF y, l, x
  <2>9. is(i + 1)
    BY <2>1, <2>8
  <2> HIDE DEF is
  <2> QED BY <2>1, <2>9
<1> HIDE DEF Ok
<1>5. 0..(n - k) \subseteq Ok
  BY <1>1, <1>3, <1>4, NatSteps
<1>6. n - k \in Ok /\ k + (n - k) = n
  BY <1>1, <1>5
<1>7. is(n - k)
  BY <1>6 DEF Ok
<1>8. n - k = d <=> n = k + d
  BY <1>1, <1>2
<1> QED BY <1>6, <1>7, <1>8 DEF Taken

\* The decoder at c, chunk and room, given its values f further on.
LineFrom(raw, p) == {q \in p..Len(raw) : raw[q] # Pad /\ \A k \in p..(q - 1) : raw[k] = Pad}
SizeAt(raw, p) == CHOOSE q \in LineFrom(raw, p) : TRUE
DecodedAt(f, raw, c) ==
  LET q == SizeAt(raw, c[1])
      size == SizeOf[raw[q]]
      last == q + size
      rest == f[<<last + 2, c[2] - size>>]
  IN  IF LineFrom(raw, c[1]) = {} THEN More
      ELSE IF raw[q] \notin DOMAIN SizeOf THEN Malformed
      ELSE IF size = 0 THEN Decoded("done", <<>>)
      ELSE IF size > c[2] THEN TooLarge
      ELSE IF Len(raw) < last + 1 THEN More
      ELSE IF raw[last + 1] # Crlf THEN Malformed
      ELSE IF rest.kind = "done" THEN Decoded("done", SubSeq(raw, q + 1, last) \o rest.body)
      ELSE rest
Results(T) == [kind : {"more", "too large", "malformed", "done"}, body : Seq(T)]
Decodes(f, raw, cap, T) ==
  \A c \in (1..(Len(raw) + 1)) \X (0..cap) : f[c] = DecodedAt(f, raw, c) /\ f[c] \in Results(T)

\* A line that is there is found, and only padding is before it.
LEMMA SizeFound ==
  ASSUME NEW T, NEW raw \in Seq(T), NEW p \in 1..(Len(raw) + 1)
  PROVE  /\ LineFrom(raw, p) = {} => \A k \in p..Len(raw) : raw[k] = Pad
         /\ LineFrom(raw, p) # {} =>
              /\ SizeAt(raw, p) \in p..Len(raw) /\ raw[SizeAt(raw, p)] # Pad
              /\ \A k \in p..(SizeAt(raw, p) - 1) : raw[k] = Pad
<1>1. Len(raw) \in Nat /\ p \in Nat /\ p >= 1
  BY LenProperties
<1>2. LineFrom(raw, p) # {} => SizeAt(raw, p) \in LineFrom(raw, p)
  BY DEF SizeAt
<1>3. ASSUME LineFrom(raw, p) = {}, NEW k \in p..Len(raw), raw[k] # Pad PROVE FALSE
  <2> DEFINE S == {j \in p..Len(raw) : raw[j] # Pad}
  <2>1. S \in SUBSET Nat /\ S # {}
    BY <1>1, <1>3
  <2>2. PICK q \in S : \A j \in S : q <= j
    BY <2>1, LeastNat
  <2>3. \A j \in p..(q - 1) : j \in p..Len(raw) /\ ~(q <= j)
    BY <1>1, <2>2
  <2>4. \A j \in p..(q - 1) : raw[j] = Pad
    BY <2>2, <2>3
  <2> QED BY <1>3, <2>2, <2>4 DEF LineFrom
<1> QED BY <1>2, <1>3 DEF LineFrom

\* What the decoder computes follows its equation.
LEMMA DecodeEquation ==
  ASSUME NEW T, NEW raw \in Seq(T), NEW cap \in Nat
  PROVE  \E f : DecodeChunked(raw, cap) = f[<<1, cap>>] /\ Decodes(f, raw, cap, T)
<1> DEFINE N == Len(raw)
           D == (1..(N + 1)) \X (0..cap)
           V == Results(T)
           m == [c \in D |-> N + 1 - c[1]]
           q(c) == SizeAt(raw, c[1])
           size(c) == SizeOf[raw[q(c)]]
           Goes(c) == /\ LineFrom(raw, c[1]) # {} /\ raw[q(c)] \in DOMAIN SizeOf /\ size(c) # 0
                      /\ ~(size(c) > c[2]) /\ ~(N < q(c) + size(c) + 1)
                      /\ raw[q(c) + size(c) + 1] = Crlf
           Stop == {c \in D : ~Goes(c)}
           nxt == [c \in D |-> <<q(c) + size(c) + 2, c[2] - size(c)>>]
           chunk(c) == SubSeq(raw, q(c) + 1, q(c) + size(c))
           G == [c \in D |-> [v \in V |-> IF v.kind = "done" THEN Decoded("done", chunk(c) \o v.body)
                                          ELSE v]]
           none == [c \in D |-> More]
           val == [c \in D |-> DecodedAt(none, raw, c)]
           body(f) == [c \in D |-> DecodedAt(f, raw, c)]
           f == CHOOSE f : f = body(f)
<1>1. N \in Nat /\ \A k \in 1..N : raw[k] \in T
  BY LenProperties, ElementOfSeq
<1>2. DecodeChunked(raw, cap) = f[<<1, cap>>]
  BY DEF DecodeChunked, DecodedAt, LineFrom, SizeAt
<1>3. /\ More \in V /\ TooLarge \in V /\ Malformed \in V /\ Decoded("done", <<>>) \in V
      /\ \A s \in Seq(T) : Decoded("done", s) \in V
  <2>1. <<>> \in Seq(T)
    BY EmptySeq
  <2> QED BY <2>1 DEF More, TooLarge, Malformed, Decoded, Results
<1>4. \A c \in D : c = <<c[1], c[2]>> /\ c[1] \in 1..(N + 1) /\ c[2] \in 0..cap
  OBVIOUS
<1>5. m \in [D -> 0..N]
  BY <1>1
<1>6. ASSUME NEW c \in D, Goes(c)
      PROVE  nxt[c] \in D /\ m[nxt[c]] < m[c] /\ chunk(c) \in Seq(T) /\ size(c) \in Nat \ {0}
  <2>1. q(c) \in c[1]..N /\ c[1] \in 1..(N + 1) /\ c[2] \in 0..cap
    BY <1>4, <1>6, SizeFound
  <2>2. size(c) \in Nat
    <3>1. SizeOf \in [DOMAIN SizeOf -> Nat]
      BY ConsultAssumption
    <3> QED BY <1>6, <3>1
  <2>3. size(c) # 0 /\ ~(size(c) > c[2]) /\ ~(N < q(c) + size(c) + 1)
    BY <1>6
  <2>4. nxt[c] = <<q(c) + size(c) + 2, c[2] - size(c)>>
    OBVIOUS
  <2> DEFINE a == q(c)
             z == size(c)
  <2> HIDE DEF a, z, N
  <2>5. a + z + 2 \in 1..(N + 1) /\ c[2] - z \in 0..cap /\ N + 1 - (a + z + 2) < N + 1 - c[1]
        /\ \A k \in (a + 1)..(a + z) : k \in 1..N
    <3>1. a \in c[1]..N /\ z \in Nat /\ z # 0 /\ ~(z > c[2]) /\ ~(N < a + z + 1)
      BY <2>1, <2>2, <2>3 DEF a, z
    <3> QED BY <1>1, <2>1, <3>1
  <2>6. nxt[c] \in D /\ nxt[c][1] = a + z + 2
    BY <2>4, <2>5 DEF a, z
  <2>7. m[nxt[c]] < m[c]
    BY <2>5, <2>6
  <2>8. chunk(c) \in Seq(T)
    <3>1. \A k \in (a + 1)..(a + z) : raw[k] \in T
      BY <1>1, <2>5
    <3>2. a + 1 \in Int /\ a + z \in Int
      BY <1>1, <2>1, <2>2 DEF a, z
    <3> QED BY <3>1, <3>2, SubSeqProperties DEF a, z
  <2> QED BY <2>2, <2>3, <2>6, <2>7, <2>8
<1>7. \A g : \A c \in Stop : DecodedAt(g, raw, c) = val[c] /\ val[c] \in V
  <2> SUFFICES ASSUME NEW g, NEW c \in D, ~Goes(c)
               PROVE  DecodedAt(g, raw, c) = val[c] /\ val[c] \in V
    OBVIOUS
  <2>1. val[c] = DecodedAt(none, raw, c)
    OBVIOUS
  <2> HIDE DEF V, val, none, D
  <2> QED BY <1>3, <2>1 DEF DecodedAt, N
<1>8. \A g : \A c \in D : c \notin Stop =>
        DecodedAt(g, raw, c) = IF g[nxt[c]].kind = "done"
                               THEN Decoded("done", chunk(c) \o g[nxt[c]].body) ELSE g[nxt[c]]
  <2>1. \A c \in D : nxt[c] = <<q(c) + size(c) + 2, c[2] - size(c)>>
    OBVIOUS
  <2>2. \A c \in D : c \notin Stop => Goes(c)
    <3> HIDE DEF D, Goes
    <3> QED OBVIOUS
  <2> HIDE DEF nxt, D, Stop
  <2> SUFFICES ASSUME NEW g, NEW c \in D, Goes(c)
               PROVE  DecodedAt(g, raw, c) = IF g[nxt[c]].kind = "done"
                               THEN Decoded("done", chunk(c) \o g[nxt[c]].body) ELSE g[nxt[c]]
    <3> HIDE DEF Goes, chunk
    <3> QED BY <2>2
  <2> QED BY <2>1 DEF DecodedAt, N
<1>9. \A c \in D : c \notin Stop => \A v \in V :
        G[c][v] = (IF v.kind = "done" THEN Decoded("done", chunk(c) \o v.body) ELSE v) /\ G[c][v] \in V
  <2> SUFFICES ASSUME NEW c \in D, Goes(c), NEW v \in V
               PROVE  G[c][v] = (IF v.kind = "done" THEN Decoded("done", chunk(c) \o v.body) ELSE v)
                      /\ G[c][v] \in V
    OBVIOUS
  <2>1. G[c][v] = IF v.kind = "done" THEN Decoded("done", chunk(c) \o v.body) ELSE v
    OBVIOUS
  <2>2. chunk(c) \in Seq(T) /\ v.body \in Seq(T)
    BY <1>6 DEF Results
  <2> DEFINE u == chunk(c)
  <2> HIDE DEF u, G, V
  <2>3. u \o v.body \in Seq(T)
    BY <2>2, ConcatProperties DEF u
  <2> QED BY <1>3, <2>1, <2>3 DEF u
<1>10. \A c \in D : c \notin Stop => nxt[c] \in D /\ m[nxt[c]] < m[c]
  BY <1>6
<1> HIDE DEF D, V, m, nxt, G, val, Stop
<1>11. WellMade(D, V, N, m, Stop, val, nxt, G)
  BY <1>5, <1>7, <1>9, <1>10 DEF WellMade
<1>12. PICK g : Made(g, D, V, Stop, val, nxt, G)
  BY <1>1, <1>11, Recursion
<1>13. g \in [D -> V] /\ \A c \in D : g[c] = IF c \in Stop THEN val[c] ELSE G[c][g[nxt[c]]]
  BY <1>12 DEF Made
<1>14. ASSUME NEW c \in D PROVE g[c] = DecodedAt(g, raw, c)
  <2>1. CASE c \in Stop
    BY <1>7, <1>13, <2>1
  <2>2. CASE c \notin Stop
    <3>1. nxt[c] \in D /\ g[nxt[c]] \in V
      BY <1>10, <1>13, <2>2
    <3> QED BY <1>8, <1>9, <1>13, <2>2, <3>1
  <2> QED BY <2>1, <2>2
<1> HIDE DEF f
<1>15. g = body(g)
  BY <1>13, <1>14
<1>16. f = body(f)
  BY <1>15 DEF f
<1>17. \A c \in D : f[c] = DecodedAt(f, raw, c)
  BY <1>16
<1> DEFINE Ok == {c \in D : f[c] \in V}
<1>18. ASSUME NEW c \in D, \A e \in D : m[e] < m[c] => e \in Ok PROVE c \in Ok
  <2>1. CASE c \in Stop
    BY <1>7, <1>17, <2>1
  <2>2. CASE c \notin Stop
    <3>1. nxt[c] \in Ok
      BY <1>10, <1>18, <2>2
    <3>2. f[nxt[c]] \in V
      BY <3>1
    <3>3. f[c] = G[c][f[nxt[c]]]
      BY <1>8, <1>9, <1>17, <2>2, <3>2
    <3> QED BY <1>9, <2>2, <3>2, <3>3
  <2> QED BY <2>1, <2>2
<1> HIDE DEF Ok
<1>19. D \subseteq Ok
  BY <1>1, <1>5, <1>18, MeasureInduction
<1>20. \A c \in D : f[c] \in V
  BY <1>19 DEF Ok
<1> QED BY <1>2, <1>17, <1>20 DEF Decodes, D, V

\* At c the decoder of the first n atoms of b, f, and the reader of b, F, stand at the
\* same place with as much room left; they agree when what the decoder calls done is
\* what the reader gets in the end, and when the decoder never refuses, and at the end
\* of b has, what the reader gets within the cap.
Together(F, c, cap) == F[c[1] - 1].mode = "size" /\ c[2] = cap - Len(F[c[1] - 1].got)
Agrees(f, F, b, n, cap, c) ==
  Together(F, c, cap) =>
    /\ f[c].kind = "done" =>
         F[Len(b)].mode = "done" /\ F[Len(b)].got = F[c[1] - 1].got \o f[c].body
    /\ F[Len(b)].mode = "done" /\ Len(F[Len(b)].got) <= cap =>
         f[c].kind \in {"more", "done"} /\ (n = Len(b) => f[c].kind = "done")

\* A reader at a size is past it when the next atom that is no padding came.
LEMMA FedSize ==
  ASSUME NEW T, NEW b \in Seq(T), NEW F, FedOn(F, b, T), NEW p \in 1..Len(b), NEW q \in p..Len(b),
         F[p - 1].mode = "size", \A k \in p..(q - 1) : b[k] = Pad, b[q] # Pad
  PROVE  /\ b[q] \notin DOMAIN SizeOf => F[Len(b)].mode = "bad"
         /\ b[q] \in DOMAIN SizeOf =>
              /\ F[q].got = F[p - 1].got /\ F[q].left = SizeOf[b[q]] /\ SizeOf[b[q]] \in Nat
              /\ F[q].mode = IF SizeOf[b[q]] = 0 THEN "done" ELSE "data"
<1>1. Len(b) \in Nat /\ p - 1 \in 0..Len(b) /\ q - 1 \in (p - 1)..Len(b) /\ (p - 1) + 1 = p
      /\ q \in 0..Len(b) /\ q - 1 \in 0..(Len(b) - 1) /\ (q - 1) + 1 = q /\ Len(b) \in q..Len(b)
  BY LenProperties
<1>2. F[q - 1] = F[p - 1]
  <2> DEFINE k == p - 1
             n == q - 1
  <2>1. k \in 0..Len(b) /\ n \in k..Len(b) /\ F[k].mode = "size" /\ Padded(b, k, n)
    BY <1>1 DEF Padded
  <2> HIDE DEF k, n
  <2>2. F[n] = F[k]
    BY <2>1, FedPads
  <2> QED BY <2>2 DEF k, n
<1>3. F[q] = Feed(F[p - 1], b[q])
  BY <1>1, <1>2 DEF FedOn
<1>4. F[p - 1] \in Readers(T)
  BY <1>1 DEF FedOn
<1>5. CASE b[q] \notin DOMAIN SizeOf
  <2>1. F[q].mode = "bad"
    BY <1>3, <1>4, <1>5 DEF Feed, Readers
  <2> QED BY <1>1, <1>5, <2>1, FedStays
<1>6. CASE b[q] \in DOMAIN SizeOf
  <2> DEFINE z == SizeOf[b[q]]
  <2>1. z \in Nat
    <3>1. SizeOf \in [DOMAIN SizeOf -> Nat]
      BY ConsultAssumption
    <3> QED BY <1>6, <3>1
  <2>2. F[q] = [F[p - 1] EXCEPT !.mode = IF z = 0 THEN "done" ELSE "data", !.left = z]
    BY <1>3, <1>6 DEF Feed
  <2> HIDE DEF z
  <2>3. F[q].got = F[p - 1].got /\ F[q].left = z /\ F[q].mode = IF z = 0 THEN "done" ELSE "data"
    BY <1>4, <2>2 DEF Readers
  <2> QED BY <1>6, <2>1, <2>3 DEF z
<1> QED BY <1>5, <1>6

\* A chunk: whatever follows its data must be its end, and a body may not stop in it.
ChunkGoes(F, b, q, z, T) ==
  /\ Len(b) < q + z + 1 => F[Len(b)].mode # "done"
  /\ q + z <= Len(b) => /\ F[q + z].got = F[q].got \o SubSeq(b, q + 1, q + z)
                        /\ SubSeq(b, q + 1, q + z) \in Seq(T)
                        /\ Len(F[q + z].got) = Len(F[q].got) + z
  /\ q + z + 1 <= Len(b) =>
       /\ b[q + z + 1] # Crlf => F[Len(b)].mode = "bad"
       /\ b[q + z + 1] = Crlf =>
            F[q + z + 1].mode = "size" /\ F[q + z + 1].got = F[q + z].got
LEMMA FedChunk ==
  ASSUME NEW T, NEW b \in Seq(T), NEW F, FedOn(F, b, T), NEW q \in 0..Len(b), NEW z \in Nat \ {0},
         F[q].mode = "data", F[q].left = z
  PROVE  ChunkGoes(F, b, q, z, T)
<1> DEFINE N == Len(b)
           last == q + z
<1>1. N \in Nat /\ q \in Nat /\ z \in Nat /\ z >= 1 /\ last \in Nat
  BY LenProperties
<1>2. \A n \in q..N : n <= last =>
        /\ F[n].got = F[q].got \o SubSeq(b, q + 1, n)
        /\ F[n].mode = IF n = last THEN "end" ELSE "data"
  <2> SUFFICES ASSUME NEW n \in q..N, n <= last
               PROVE  /\ F[n].got = F[q].got \o SubSeq(b, q + 1, n)
                      /\ F[n].mode = IF n = last THEN "end" ELSE "data"
    OBVIOUS
  <2>1. n <= q + z
    OBVIOUS
  <2>2. Taken(F, b, q, z, n)
    <3> HIDE DEF last
    <3> QED BY <2>1, FedData
  <2> QED BY <2>2 DEF Taken
<1> HIDE DEF last, N
<1>3. N < last + 1 => F[N].mode # "done"
  <2>1. N \in q..N /\ (N < last + 1 => N <= last)
    BY <1>1 DEF N
  <2> QED BY <1>2, <2>1
<1>4. ASSUME last <= N
      PROVE  /\ F[last].got = F[q].got \o SubSeq(b, q + 1, last) /\ F[last].mode = "end"
             /\ SubSeq(b, q + 1, last) \in Seq(T) /\ Len(F[last].got) = Len(F[q].got) + z
  <2>1. last \in q..N /\ last <= last
    BY <1>1, <1>4 DEF last
  <2>2. F[last].got = F[q].got \o SubSeq(b, q + 1, last) /\ F[last].mode = "end"
    BY <1>1, <1>2, <2>1
  <2>3. SubSeq(b, q + 1, last) \in Seq(T) /\ Len(SubSeq(b, q + 1, last)) = z
    <3>1. \A k \in (q + 1)..last : k \in 1..Len(b)
      BY <1>1, <1>4 DEF N
    <3>2. \A k \in (q + 1)..last : b[k] \in T
      BY <3>1, ElementOfSeq
    <3>3. q + 1 \in Int /\ last \in Int
      BY <1>1
    <3>4. SubSeq(b, q + 1, last) \in Seq(T)
          /\ Len(SubSeq(b, q + 1, last)) = IF q + 1 <= last THEN last - (q + 1) + 1 ELSE 0
      BY <3>2, <3>3, SubSeqProperties
    <3>5. q + 1 <= last /\ last - (q + 1) + 1 = z
      BY <1>1 DEF last
    <3> QED BY <3>4, <3>5
  <2>4. F[q].got \in Seq(T)
    BY DEF FedOn, Readers
  <2> DEFINE u == SubSeq(b, q + 1, last)
             g == F[q].got
  <2> HIDE DEF u, g
  <2>5. Len(g \o u) = Len(g) + Len(u)
    BY <2>3, <2>4, ConcatProperties DEF u, g
  <2> QED BY <2>2, <2>3, <2>5 DEF u, g
<1>5. ASSUME last + 1 <= N
      PROVE  /\ b[last + 1] # Crlf => F[N].mode = "bad"
             /\ b[last + 1] = Crlf => F[last + 1].mode = "size" /\ F[last + 1].got = F[last].got
  <2>1. last <= N /\ last \in 0..(N - 1) /\ last \in 0..N /\ last + 1 \in 0..N /\ N \in (last + 1)..N
    BY <1>1, <1>5
  <2>2. F[last].mode = "end"
    BY <1>4, <2>1
  <2>3. F[last + 1] = Feed(F[last], b[last + 1]) /\ F[last] \in Readers(T)
    BY <2>1 DEF FedOn, N
  <2>4. CASE b[last + 1] = Crlf
    BY <2>2, <2>3, <2>4 DEF Feed, Readers
  <2>5. CASE b[last + 1] # Crlf
    <3>1. F[last + 1].mode = "bad"
      BY <2>2, <2>3, <2>5 DEF Feed, Readers
    <3> QED BY <2>1, <2>5, <3>1, FedStays DEF N
  <2> QED BY <2>4, <2>5
<1> QED BY <1>3, <1>4, <1>5 DEF last, N, ChunkGoes

\* raw is the first n atoms of b.
Begins(raw, b, n, T) ==
  /\ b \in Seq(T) /\ raw \in Seq(T) /\ n \in 0..Len(b) /\ Len(raw) = n
  /\ \A k \in 1..n : raw[k] = b[k]
  /\ \A j \in 1..n : \A k \in 1..n : SubSeq(raw, j, k) = SubSeq(b, j, k)
LEMMA BeginsBy ==
  ASSUME NEW T, NEW b \in Seq(T), NEW n \in 0..Len(b)
  PROVE  Begins(SubSeq(b, 1, n), b, n, T)
<1> DEFINE raw == SubSeq(b, 1, n)
<1>1. Len(b) \in Nat /\ n \in Nat
  BY LenProperties
<1>2. \A k \in 1..n : k \in 1..Len(b)
  BY <1>1
<1>3. \A k \in 1..n : b[k] \in T
  BY <1>2, ElementOfSeq
<1>4. raw \in Seq(T) /\ Len(raw) = (IF 1 <= n THEN n - 1 + 1 ELSE 0)
      /\ \A i \in 1..(n - 1 + 1) : raw[i] = b[1 + i - 1]
  BY <1>1, <1>3, SubSeqProperties
<1> HIDE DEF raw
<1>5. Len(raw) = n
  <2>1. (IF 1 <= n THEN n - 1 + 1 ELSE 0) = n
    BY <1>1
  <2> QED BY <1>4, <2>1
<1>6. ASSUME NEW k \in 1..n PROVE raw[k] = b[k]
  <2>1. k \in 1..(n - 1 + 1) /\ 1 + k - 1 = k
    BY <1>1
  <2> QED BY <1>4, <2>1
<1>7. ASSUME NEW j \in 1..n, NEW k \in 1..n PROVE SubSeq(raw, j, k) = SubSeq(b, j, k)
  <2> DEFINE u == SubSeq(raw, j, k)
             v == SubSeq(b, j, k)
  <2>1. \A i \in j..k : i \in 1..n
    BY <1>1
  <2>2. \A i \in j..k : raw[i] = b[i] /\ b[i] \in T
    BY <1>3, <1>6, <2>1
  <2>3. j \in Int /\ k \in Int
    BY <1>1
  <2>4. /\ u \in Seq(T) /\ Len(u) = (IF j <= k THEN k - j + 1 ELSE 0)
        /\ \A i \in 1..(k - j + 1) : u[i] = raw[j + i - 1]
    BY <2>2, <2>3, SubSeqProperties
  <2>5. /\ v \in Seq(T) /\ Len(v) = (IF j <= k THEN k - j + 1 ELSE 0)
        /\ \A i \in 1..(k - j + 1) : v[i] = b[j + i - 1]
    BY <2>2, <2>3, SubSeqProperties
  <2> HIDE DEF u, v
  <2>6. Len(u) = Len(v)
    BY <2>4, <2>5
  <2>7. ASSUME NEW i \in 1..Len(u) PROVE u[i] = v[i]
    <3>1. i \in 1..(k - j + 1) /\ j + i - 1 \in j..k
      BY <2>3, <2>4
    <3> QED BY <2>2, <2>4, <2>5, <3>1
  <2> QED BY <2>4, <2>5, <2>6, <2>7, SeqEqual DEF u, v
<1> QED BY <1>4, <1>5, <1>6, <1>7 DEF Begins, raw

\* They agree at a chunk when they do at all that follow.
LEMMA AgreesHere ==
  ASSUME NEW T, NEW b, NEW n, NEW raw, Begins(raw, b, n, T), NEW F, FedOn(F, b, T),
         NEW cap \in Nat, NEW f, Decodes(f, raw, cap, T), NEW c \in (1..(n + 1)) \X (0..cap),
         \A d \in (1..(n + 1)) \X (0..cap) : c[1] < d[1] => Agrees(f, F, b, n, cap, d)
  PROVE  Agrees(f, F, b, n, cap, c)
<1> SUFFICES ASSUME Together(F, c, cap)
             PROVE  /\ f[c].kind = "done" =>
                         F[Len(b)].mode = "done" /\ F[Len(b)].got = F[c[1] - 1].got \o f[c].body
                    /\ F[Len(b)].mode = "done" /\ Len(F[Len(b)].got) <= cap =>
                         f[c].kind \in {"more", "done"} /\ (n = Len(b) => f[c].kind = "done")
  BY DEF Agrees
<1> DEFINE N == Len(b)
           p == c[1]
           q == SizeAt(raw, p)
           z == SizeOf[raw[q]]
           last == q + z
           next == <<last + 2, c[2] - z>>
<1>1. /\ b \in Seq(T) /\ raw \in Seq(T) /\ n \in 0..N /\ Len(raw) = n /\ N \in Nat /\ n \in Nat
      /\ \A k \in 1..n : raw[k] = b[k]
      /\ \A j \in 1..n : \A k \in 1..n : SubSeq(raw, j, k) = SubSeq(b, j, k)
  BY LenProperties DEF Begins
<1>2. p \in 1..(n + 1) /\ c[2] \in 0..cap /\ p - 1 \in 0..N /\ p \in Nat
  BY <1>1
<1>3. f[c] = DecodedAt(f, raw, c) /\ f[c] \in Results(T)
  BY <1>1 DEF Decodes
<1>4. F[p - 1].mode = "size" /\ c[2] = cap - Len(F[p - 1].got)
  BY DEF Together
<1>5. F[p - 1].got \in Seq(T)
  BY <1>2 DEF FedOn, Readers
<1>6. More.kind = "more" /\ Malformed.kind = "malformed" /\ TooLarge.kind = "too large"
      /\ \A s : Decoded("done", s).kind = "done" /\ Decoded("done", s).body = s
  BY DEF More, Malformed, TooLarge, Decoded
<1>7. CASE LineFrom(raw, p) = {}
  <2>1. f[c] = More
    BY <1>3, <1>7 DEF DecodedAt
  <2>2. F[n] = F[p - 1]
    <3>1. p - 1 \in 0..N /\ n \in (p - 1)..N /\ (p - 1) + 1 = p
      BY <1>1, <1>2
    <3>2. \A k \in p..n : raw[k] = Pad
      BY <1>1, <1>2, <1>7, SizeFound
    <3>3. \A k \in p..n : b[k] = Pad
      <4>1. \A k \in p..n : k \in 1..n
        BY <1>1, <1>2
      <4> QED BY <1>1, <3>2, <4>1
    <3> DEFINE k == p - 1
    <3>4. k \in 0..N /\ n \in k..N /\ F[k].mode = "size" /\ Padded(b, k, n)
      BY <1>1, <1>4, <3>1, <3>3 DEF Padded
    <3> HIDE DEF k
    <3>5. F[n] = F[k]
      BY <1>1, <3>4, FedPads
    <3> QED BY <3>5 DEF k
  <2> QED BY <1>4, <1>6, <2>1, <2>2
<1>8. CASE LineFrom(raw, p) # {}
  <2>1. /\ q \in p..n /\ q \in 1..n /\ q \in p..N /\ q \in 0..N /\ raw[q] = b[q] /\ b[q] # Pad
        /\ \A k \in p..(q - 1) : b[k] = Pad
        /\ p \in 1..N /\ N \in q..N
    <3>1. q \in p..Len(raw) /\ raw[q] # Pad /\ \A k \in p..(q - 1) : raw[k] = Pad
      BY <1>1, <1>2, <1>8, SizeFound
    <3> HIDE DEF q, p
    <3>2. /\ q \in p..n /\ q \in 1..n /\ q \in p..N /\ q \in 0..N /\ p \in 1..N /\ N \in q..N
          /\ \A k \in p..(q - 1) : k \in 1..n
      BY <1>1, <1>2, <3>1
    <3> QED BY <1>1, <3>1, <3>2
  <2>2. /\ raw[q] \notin DOMAIN SizeOf => F[N].mode = "bad"
        /\ raw[q] \in DOMAIN SizeOf =>
              /\ F[q].got = F[p - 1].got /\ F[q].left = z /\ z \in Nat
              /\ F[q].mode = IF z = 0 THEN "done" ELSE "data"
    <3> HIDE DEF q, p
    <3> QED BY <1>1, <1>4, <2>1, FedSize DEF z
  <2>3. CASE raw[q] \notin DOMAIN SizeOf
    <3>1. f[c] = Malformed
      BY <1>3, <1>8, <2>3 DEF DecodedAt
    <3> QED BY <1>6, <2>2, <2>3, <3>1
  <2>4. CASE raw[q] \in DOMAIN SizeOf /\ z = 0
    <3>1. f[c] = Decoded("done", <<>>)
      BY <1>3, <1>8, <2>4 DEF DecodedAt
    <3>2. F[N] = F[q]
      <4>1. F[q].mode = "done"
        BY <2>2, <2>4
      <4> HIDE DEF q
      <4> QED BY <1>1, <2>1, <4>1, FedStays
    <3>3. F[p - 1].got \o <<>> = F[p - 1].got
      BY <1>5, ConcatEmptySeq
    <3> QED BY <1>6, <2>2, <2>4, <3>1, <3>2, <3>3
  <2>5. CASE raw[q] \in DOMAIN SizeOf /\ z # 0
    <3>1. f[c] = IF z > c[2] THEN TooLarge
                 ELSE IF n < last + 1 THEN More
                 ELSE IF raw[last + 1] # Crlf THEN Malformed
                 ELSE IF f[next].kind = "done"
                      THEN Decoded("done", SubSeq(raw, q + 1, last) \o f[next].body)
                 ELSE f[next]
      BY <1>1, <1>3, <1>8, <2>5 DEF DecodedAt
    <3>2. /\ z \in Nat /\ z \in Nat \ {0} /\ F[q].got = F[p - 1].got /\ F[q].left = z
          /\ F[q].mode = "data" /\ last \in Nat /\ q \in Nat
      BY <2>1, <2>2, <2>5
    <3>3. /\ N < last + 1 => F[N].mode # "done"
          /\ last <= N => /\ F[last].got = F[q].got \o SubSeq(b, q + 1, last)
                          /\ SubSeq(b, q + 1, last) \in Seq(T)
                          /\ Len(F[last].got) = Len(F[q].got) + z
          /\ last + 1 <= N =>
               /\ b[last + 1] # Crlf => F[N].mode = "bad"
               /\ b[last + 1] = Crlf =>
                    F[last + 1].mode = "size" /\ F[last + 1].got = F[last].got
      <4> HIDE DEF q, z
      <4>1. /\ b \in Seq(T) /\ q \in 0..Len(b) /\ z \in Nat \ {0}
            /\ F[q].mode = "data" /\ F[q].left = z
        BY <1>1, <2>1, <3>2
      <4>2. ChunkGoes(F, b, q, z, T)
        BY <4>1, FedChunk
      <4> QED BY <4>2 DEF ChunkGoes
    <3> HIDE DEF q, z, next, last, p, N
    <3>4. Len(F[p - 1].got) \in Nat
      BY <1>5, LenProperties
    <3>5. CASE z > c[2]
      <4>1. f[c] = TooLarge
        BY <3>1, <3>5
      <4>2. ASSUME F[N].mode = "done" PROVE ~(Len(F[N].got) <= cap)
        <5>1. last <= N
          BY <1>1, <3>2, <3>3, <4>2
        <5>2. Len(F[last].got) = Len(F[p - 1].got) + z
          BY <3>2, <3>3, <5>1
        <5>3. Len(F[N].got) \in Nat /\ Len(F[last].got) <= Len(F[N].got)
          <6>1. last \in 0..N /\ N \in last..N
            BY <1>1, <3>2, <5>1
          <6> QED BY <1>1, <6>1, FedStays DEF N
        <5> DEFINE l == Len(F[p - 1].got)
                   m == Len(F[last].got)
                   o == Len(F[N].got)
        <5> HIDE DEF l, m, o
        <5>4. l \in Nat /\ m = l + z /\ o \in Nat /\ m <= o /\ c[2] = cap - l
          BY <1>4, <3>4, <5>2, <5>3 DEF l, m, o
        <5>5. ~(o <= cap)
          BY <3>2, <3>5, <5>4
        <5> QED BY <5>5 DEF o
      <4> QED BY <1>6, <4>1, <4>2 DEF N
    <3>6. CASE ~(z > c[2]) /\ n < last + 1
      <4>1. f[c] = More
        BY <3>1, <3>6
      <4> QED BY <1>6, <3>3, <3>6, <4>1 DEF N
    <3>7. CASE ~(z > c[2]) /\ ~(n < last + 1)
      <4>1. last + 1 <= n /\ last + 1 <= N /\ last <= N /\ last + 1 \in 1..n
        BY <1>1, <3>2, <3>7
      <4>2. raw[last + 1] = b[last + 1]
        BY <1>1, <4>1
      <4>3. CASE raw[last + 1] # Crlf
        <5>1. f[c] = Malformed
          BY <3>1, <3>7, <4>3
        <5> QED BY <1>6, <3>3, <4>1, <4>2, <4>3, <5>1 DEF N
      <4>4. CASE raw[last + 1] = Crlf
        <5> DEFINE u == SubSeq(b, q + 1, last)
                   g == F[p - 1].got
        <5>1. f[c] = IF f[next].kind = "done" THEN Decoded("done", u \o f[next].body) ELSE f[next]
          <6>1. q + 1 \in 1..n /\ last \in 1..n
            BY <1>1, <3>2, <4>1 DEF last
          <6>2. SubSeq(raw, q + 1, last) = u
            BY <1>1, <6>1
          <6> HIDE DEF u
          <6> QED BY <3>1, <3>7, <4>4, <6>2
        <5>2. F[last + 1].mode = "size" /\ F[last + 1].got = g \o u /\ u \in Seq(T)
              /\ Len(F[last + 1].got) = Len(g) + z
          BY <3>2, <3>3, <4>1, <4>2, <4>4
        <5> HIDE DEF u, g
        <5>3. /\ last + 2 \in 1..(n + 1) /\ (last + 2) - 1 = last + 1 /\ c[2] - z \in 0..cap
              /\ p < last + 2 /\ c[2] - z = cap - (Len(g) + z)
          <6>1. c[2] = cap - Len(g) /\ Len(g) \in Nat /\ p \in Nat /\ q \in p..n /\ z \in Nat \ {0}
                /\ c[2] \in 0..cap /\ ~(z > c[2])
            BY <1>2, <1>4, <2>1, <3>2, <3>4, <3>7 DEF g
          <6> DEFINE y == Len(g)
          <6> HIDE DEF y
          <6>2. c[2] = cap - y /\ y \in Nat
            BY <6>1 DEF y
          <6>3. c[2] - z \in 0..cap /\ c[2] - z = cap - (y + z)
            BY <6>1, <6>2
          <6>4. last + 2 \in 1..(n + 1) /\ (last + 2) - 1 = last + 1
            BY <1>1, <3>2, <4>1
          <6>5. p < last + 2
            BY <3>2, <6>1 DEF last
          <6> QED BY <6>3, <6>4, <6>5 DEF y
        <5>4. next \in (1..(n + 1)) \X (0..cap) /\ next[1] = last + 2 /\ next[2] = c[2] - z
          BY <5>3 DEF next
        <5>5. Agrees(f, F, b, n, cap, next)
          BY <5>3, <5>4 DEF p
        <5>6. Together(F, next, cap)
          BY <5>2, <5>3, <5>4 DEF Together
        <5>7. F[next[1] - 1].got = g \o u
          BY <5>2, <5>3, <5>4
        <5>8. /\ f[next].kind = "done" =>
                   F[N].mode = "done" /\ F[N].got = (g \o u) \o f[next].body
              /\ F[N].mode = "done" /\ Len(F[N].got) <= cap =>
                   f[next].kind \in {"more", "done"} /\ (n = N => f[next].kind = "done")
          BY <5>5, <5>6, <5>7 DEF Agrees, N
        <5>9. f[next].kind = "done" => (g \o u) \o f[next].body = g \o (u \o f[next].body)
          <6>1. f[next] \in Results(T)
            BY <1>1, <5>4 DEF Decodes
          <6>2. f[next].body \in Seq(T) /\ g \in Seq(T)
            BY <1>5, <6>1 DEF Results, g
          <6> DEFINE x == f[next].body
          <6> HIDE DEF x
          <6>3. g \in Seq(T) /\ u \in Seq(T) /\ x \in Seq(T)
            BY <5>2, <6>2 DEF x
          <6>4. (g \o u) \o x = g \o (u \o x)
            BY <6>3, ConcatAssociative, SMTT(60)
          <6> QED BY <6>4 DEF x
        <5> DEFINE v == u \o f[next].body
                   w == f[next]
        <5> HIDE DEF v, w
        <5>10. f[c] = IF w.kind = "done" THEN Decoded("done", v) ELSE w
          BY <5>1 DEF v, w
        <5>11. w.kind = "done" => F[N].mode = "done" /\ F[N].got = g \o v
          BY <5>8, <5>9 DEF v, w
        <5>12. F[N].mode = "done" /\ Len(F[N].got) <= cap =>
                 w.kind \in {"more", "done"} /\ (n = N => w.kind = "done")
          BY <5>8 DEF w
        <5>13. f[c].kind = w.kind /\ (w.kind = "done" => f[c].body = v)
          BY <1>6, <5>10
        <5> QED BY <5>11, <5>12, <5>13 DEF N, g, p
      <4> QED BY <4>3, <4>4
    <3> QED BY <3>5, <3>6, <3>7
  <2> QED BY <2>3, <2>4, <2>5
<1> QED BY <1>7, <1>8

\* They agree at every chunk.
LEMMA AgreesEverywhere ==
  ASSUME NEW T, NEW b, NEW n, NEW raw, Begins(raw, b, n, T), NEW F, FedOn(F, b, T),
         NEW cap \in Nat, NEW f, Decodes(f, raw, cap, T)
  PROVE  \A c \in (1..(n + 1)) \X (0..cap) : Agrees(f, F, b, n, cap, c)
<1> DEFINE D == (1..(n + 1)) \X (0..cap)
           m == [c \in D |-> n + 1 - c[1]]
           Ok == {c \in D : Agrees(f, F, b, n, cap, c)}
<1>1. n \in Nat
  BY LenProperties DEF Begins
<1>2. m \in [D -> 0..n]
  BY <1>1
<1>3. ASSUME NEW c \in D, \A d \in D : m[d] < m[c] => d \in Ok PROVE c \in Ok
  <2>1. ASSUME NEW d \in D, c[1] < d[1] PROVE Agrees(f, F, b, n, cap, d)
    <3>1. m[d] < m[c]
      BY <1>1, <2>1
    <3> HIDE DEF D, m
    <3> QED BY <1>3, <2>1, <3>1
  <2>2. Agrees(f, F, b, n, cap, c)
    <3>1. \A d \in (1..(n + 1)) \X (0..cap) : c[1] < d[1] => Agrees(f, F, b, n, cap, d)
      BY <2>1
    <3>2. c \in (1..(n + 1)) \X (0..cap)
      OBVIOUS
    <3> HIDE DEF D, m, Ok
    <3> QED BY <3>1, <3>2, AgreesHere
  <2> QED BY <2>2
<1> HIDE DEF D, m, Ok
<1>4. D \subseteq Ok
  BY <1>1, <1>2, <1>3, MeasureInduction
<1> QED BY <1>4 DEF D, Ok

\* What the decoder makes of the first n atoms of a chunked body.
LEMMA DecodedIsRead ==
  ASSUME NEW T, NEW b \in Seq(T), NEW n \in 0..Len(b), NEW cap \in Nat, NEW doc \in Seq(T)
  PROVE  LET d == DecodeChunked(SubSeq(b, 1, n), cap)
         IN  /\ d.kind = "done" /\ d.body = doc => Chunked(b, doc)
             /\ Chunked(b, doc) /\ Len(doc) <= cap =>
                  \/ d.kind = "more" /\ n # Len(b)
                  \/ d.kind = "done" /\ d.body = doc
<1> DEFINE raw == SubSeq(b, 1, n)
           d == DecodeChunked(raw, cap)
           F == FedBy(b)
           c == <<1, cap>>
<1>1. Begins(raw, b, n, T) /\ FedOn(F, b, T)
  BY BeginsBy, FedByIsFed
<1>2. raw \in Seq(T) /\ Len(raw) = n /\ n \in Nat
  BY <1>1, LenProperties DEF Begins
<1> HIDE DEF raw, F
<1>3. PICK f : d = f[c] /\ Decodes(f, raw, cap, T)
  BY <1>2, DecodeEquation
<1>4. c \in (1..(n + 1)) \X (0..cap)
  BY <1>2
<1> HIDE DEF d
<1>5. Agrees(f, F, b, n, cap, c)
  <2> HIDE DEF c
  <2> QED BY <1>1, <1>3, <1>4, AgreesEverywhere
<1>6. F[c[1] - 1].mode = "size" /\ F[c[1] - 1].got = <<>> /\ c[2] = cap
  <2>1. c[1] - 1 = 0 /\ c[2] = cap
    OBVIOUS
  <2> QED BY <1>1, <2>1 DEF FedOn, ChunkStart
<1>7. Len(<<>>) = 0 /\ cap - 0 = cap
  BY EmptySeq
<1>8. Together(F, c, cap)
  BY <1>6, <1>7 DEF Together
<1>9. d.body \in Seq(T) /\ <<>> \o d.body = d.body
  <2>1. f[c] \in Results(T)
    BY <1>2, <1>3, <1>4 DEF Decodes
  <2>2. d.body \in Seq(T)
    BY <1>3, <2>1 DEF Results
  <2> QED BY <2>2, ConcatEmptySeq
<1> HIDE DEF c
<1>10. /\ d.kind = "done" => F[Len(b)].mode = "done" /\ F[Len(b)].got = d.body
       /\ F[Len(b)].mode = "done" /\ Len(F[Len(b)].got) <= cap =>
            d.kind \in {"more", "done"} /\ (n = Len(b) => d.kind = "done")
  BY <1>3, <1>5, <1>6, <1>8, <1>9 DEF Agrees
<1>11. Chunked(b, doc) <=> F[Len(b)].mode = "done" /\ F[Len(b)].got = doc
  BY DEF Chunked, F
<1> QED BY <1>10, <1>11 DEF d, raw

\* The parts of a reply, when its head is over.
Parted(h, b, S) ==
  /\ Len(h) \in Nat /\ Len(b) \in Nat /\ Len(S) = Len(h) + Len(b)
  /\ \A k \in 1..Len(h) : S[k] = h[k]
LEMMA ReplyParts ==
  ASSUME reply \in Replies
  PROVE  /\ Parted(reply.head, reply.body, Stream)
         /\ \E T : reply.head \in Seq(T) /\ reply.body \in Seq(T) /\ reply.doc \in Seq(T)
<1> DEFINE h == reply.head
           b == reply.body
           d == reply.doc
           H == {h[k] : k \in DOMAIN h}
           B == {b[k] : k \in DOMAIN b}
           C == {d[k] : k \in DOMAIN d}
           T == H \cup B \cup C
<1>1. h \in Seq(H) /\ b \in Seq(B) /\ d \in Seq(C)
  BY ReplyAssumption
<1>2. Stream = h \o b
  BY DEF Stream
<1> HIDE DEF h, b, d, H, B, C
<1>3. h \in Seq(T) /\ b \in Seq(T) /\ d \in Seq(T)
  BY <1>1, SeqMonotonic
<1> HIDE DEF T
<1>4. Len(h) \in Nat /\ Len(b) \in Nat
  BY <1>3, LenProperties
<1>5. Len(Stream) = Len(h) + Len(b) /\ \A k \in 1..Len(h) : Stream[k] = h[k]
  <2>1. /\ Len(Stream) = Len(h) + Len(b)
        /\ \A k \in 1..Len(h) + Len(b) : Stream[k] = IF k <= Len(h) THEN h[k] ELSE b[k - Len(h)]
    BY <1>2, <1>3, ConcatProperties
  <2> QED BY <1>4, <2>1
<1> QED BY <1>3, <1>4, <1>5 DEF Parted, h, b, d

\* When a blank has come the head has, and what came after it is of the body.
LEMMA HeadIsOver ==
  ASSUME reply \in Replies, came \in 0..Len(Stream), \E k \in 1..came : Stream[k] = Blank
  PROVE  /\ reply.head # <<>> /\ reply.head[Len(reply.head)] = Blank
         /\ came - Len(reply.head) \in 0..Len(reply.body)
         /\ SubSeq(Stream, Len(reply.head) + 1, came) = SubSeq(reply.body, 1, came - Len(reply.head))
<1> DEFINE h == reply.head
           b == reply.body
           n == came - Len(h)
<1>1. PICK T : h \in Seq(T) /\ b \in Seq(T)
  BY ReplyParts
<1>2. /\ Len(h) \in Nat /\ Len(b) \in Nat /\ Len(Stream) = Len(h) + Len(b)
      /\ \A k \in 1..Len(h) : Stream[k] = h[k]
  BY ReplyParts DEF Parted
<1>3. /\ \A k \in DOMAIN h : h[k] = Blank => k = Len(h)
      /\ b # <<>> => h # <<>> /\ h[Len(h)] = Blank
  BY ReplyAssumption
<1>4. PICK k \in 1..came : Stream[k] = Blank
  OBVIOUS
<1>5. Stream = h \o b
  BY DEF Stream
<1>6. k >= Len(h) /\ k \in 1..Len(Stream)
  <2>1. Len(Stream) \in Nat /\ \A j \in 1..Len(Stream) : Stream[j] = Blank => j >= Len(h)
    BY StreamParts
  <2>2. k \in 1..Len(Stream)
    BY <2>1
  <2> QED BY <1>4, <2>1, <2>2
<1> HIDE DEF h, b
<1>7. n \in 0..Len(b) /\ came \in Nat
  <2> DEFINE x == Len(h)
             y == Len(b)
  <2>1. x \in Nat /\ y \in Nat /\ came \in 0..(x + y) /\ k >= x /\ k \in 1..came
    BY <1>2, <1>4, <1>6
  <2> HIDE DEF x, y
  <2>2. came - x \in 0..y /\ came \in Nat
    BY <2>1
  <2> QED BY <2>2 DEF x, y
<1>8. h # <<>> /\ h[Len(h)] = Blank
  <2>1. CASE b = <<>>
    <3>1. Len(b) = 0
      BY <2>1, EmptySeq
    <3>2. k = Len(h) /\ k \in 1..Len(h) /\ Len(h) # 0
      BY <1>2, <1>6, <3>1
    <3> QED BY <1>2, <1>4, <3>2, EmptySeq
  <2>2. CASE b # <<>>
    BY <1>3, <2>2
  <2> QED BY <2>1, <2>2
<1>9. SubSeq(Stream, Len(h) + 1, came) = SubSeq(b, 1, n)
  <2>1. CASE n = 0
    <3>1. came < Len(h) + 1 /\ n < 1 /\ came \in Int /\ n \in Int /\ Len(h) + 1 \in Int
      BY <1>2, <1>7, <2>1
    <3> HIDE DEF n
    <3> QED BY <3>1, SubSeqEmpty
  <2>2. CASE n # 0
    <3>1. Len(h) + 1 \in (Len(h) + 1)..(Len(h) + Len(b)) /\ came \in (Len(h) + 1)..(Len(h) + Len(b))
          /\ (Len(h) + 1) - Len(h) = 1
      BY <1>2, <1>7, <2>2
    <3>2. SubSeq(h \o b, Len(h) + 1, came) = SubSeq(b, (Len(h) + 1) - Len(h), came - Len(h))
      BY <1>1, <3>1, SubSeqOfConcat2
    <3> QED BY <1>5, <3>1, <3>2
  <2> QED BY <2>1, <2>2
<1> QED BY <1>7, <1>8, <1>9 DEF h, b

\* In the chat, what the bytes so far amount to is a sound answer when it is an
\* answer, and never keeps a sound one away.
LEMMA ProgressIsRight ==
  ASSUME reply \in Replies, came \in 0..Len(Stream), exchange = "chat"
  PROVE  /\ Progress.kind = "done" /\ Progress.body = reply.doc /\ reply.good => Whole(reply)
         /\ Whole(reply) /\ WithinCaps(reply) =>
              \/ Progress.kind = "more" /\ (came = Len(Stream) => reply.framing = "close")
              \/ Progress.kind = "done" /\ Progress.body = reply.doc
<1> DEFINE h == reply.head
           b == reply.body
           d == reply.doc
           n == came - Len(h)
<1>1. PICK T : h \in Seq(T) /\ b \in Seq(T) /\ d \in Seq(T)
  BY ReplyParts
<1>2. /\ Len(h) \in Nat /\ Len(b) \in Nat /\ Len(Stream) = Len(h) + Len(b) /\ Len(d) \in Nat
      /\ \A k \in 1..Len(h) : Stream[k] = h[k]
  BY <1>1, ReplyParts, LenProperties DEF Parted
<1>3. /\ reply.status \in {"2xx", "5xx", "garbled"} /\ reply.length \in Nat
      /\ reply.framing \in {"close", "length", "chunked"}
  BY ReplyAssumption
<1>4. Cap = ChatCap /\ Cap \in Nat /\ HeadCap \in Nat /\ EncodedCap = 2 * ChatCap + Slack
      /\ EncodedCap \in Nat
  BY CapsAreNumbers DEF Cap, EncodedCap
<1>5. More.kind = "more" /\ TooLarge.kind = "too large"
      /\ \A k, s : Decoded(k, s).kind = k /\ Decoded(k, s).body = s
  BY DEF More, TooLarge, Decoded
<1>6. CASE \A k \in 1..came : Stream[k] # Blank
  <2>1. Progress = IF came > HeadCap THEN TooLarge ELSE More
    BY <1>6 DEF Progress
  <2>2. ASSUME Whole(reply), WithinCaps(reply) PROVE came < Len(h) /\ Len(h) <= HeadCap
    <3>1. h # <<>> /\ h[Len(h)] = Blank /\ Len(h) <= HeadCap
      BY <2>2 DEF Whole, WithinCaps
    <3>2. Len(h) # 0
      BY <1>1, <3>1, EmptySeq
    <3>3. Len(h) \in 1..Len(h)
      BY <1>2, <3>2
    <3>4. Stream[Len(h)] = Blank
      BY <1>2, <3>1, <3>3
    <3>5. Len(h) \notin 1..came
      BY <1>6, <3>4
    <3> HIDE DEF h
    <3> QED BY <1>2, <3>1, <3>2, <3>5
  <2>3. came \in Nat
    BY <1>2
  <2>4. ASSUME Whole(reply), WithinCaps(reply) PROVE Progress = More /\ came # Len(Stream)
    <3> HIDE DEF h, b
    <3>1. ~(came > HeadCap) /\ came # Len(Stream)
      BY <1>2, <1>4, <2>2, <2>3, <2>4
    <3> QED BY <2>1, <3>1
  <2> QED BY <1>5, <2>1, <2>4
<1>7. CASE \E k \in 1..came : Stream[k] = Blank
  <2> DEFINE raw == SubSeq(b, 1, n)
  <2>1. h # <<>> /\ h[Len(h)] = Blank /\ n \in 0..Len(b) /\ SubSeq(Stream, Len(h) + 1, came) = raw
    BY <1>7, HeadIsOver
  <2>2. Progress = IF reply.status # "2xx" THEN Decoded(reply.status, <<>>) ELSE Body(raw)
    BY <1>7, <2>1 DEF Progress
  <2>3. came = Len(Stream) <=> n = Len(b)
    <3> DEFINE x == Len(h)
               y == Len(b)
    <3>1. x \in Nat /\ y \in Nat /\ Len(Stream) = x + y /\ came \in 0..Len(Stream)
      BY <1>2
    <3> HIDE DEF x, y
    <3>2. came = Len(Stream) <=> came - x = y
      BY <3>1
    <3> QED BY <3>2 DEF x, y
  <2>4. raw \in Seq(T) /\ Len(raw) = n /\ n \in Nat
    <3>1. Begins(raw, b, n, T)
      BY <1>1, <2>1, BeginsBy
    <3> HIDE DEF raw, n, b
    <3>2. raw \in Seq(T) /\ Len(raw) = n
      BY <3>1 DEF Begins
    <3>3. n \in Nat
      BY <2>1
    <3> QED BY <3>2, <3>3
  <2>5. CASE reply.status # "2xx"
    <3>1. Progress.kind # "done"
      BY <1>3, <1>5, <2>2, <2>5
    <3> QED BY <2>5, <3>1 DEF Whole
  <2>6. CASE reply.status = "2xx" /\ reply.framing = "chunked"
    <3> DEFINE e == DecodeChunked(raw, Cap)
    <3>1. Progress = IF e.kind = "more" /\ Len(raw) > EncodedCap THEN TooLarge ELSE e
      BY <2>2, <2>6 DEF Body
    <3>2. /\ e.kind = "done" /\ e.body = d => Chunked(b, d)
          /\ Chunked(b, d) /\ Len(d) <= Cap =>
               \/ e.kind = "more" /\ n # Len(b)
               \/ e.kind = "done" /\ e.body = d
      <4> HIDE DEF h, b, d, n
      <4> QED BY <1>1, <1>4, <2>1, DecodedIsRead
    <3> HIDE DEF e
    <3>3. Whole(reply) <=> reply.good /\ Chunked(b, d)
      BY <2>1, <2>6 DEF Whole
    <3>4. WithinCaps(reply) => Len(d) <= Cap /\ ~(Len(raw) > EncodedCap)
      <4> DEFINE y == Len(b)
      <4>1. WithinCaps(reply) => Len(d) <= Cap /\ y <= EncodedCap
        BY <1>4, <2>6 DEF WithinCaps
      <4>2. y \in Nat /\ n \in 0..y
        BY <1>2, <2>1
      <4> HIDE DEF y, n, raw
      <4> QED BY <1>4, <2>4, <4>1, <4>2
    <3> HIDE DEF raw, n, h, b, d
    <3>5. Progress.kind = "done" => Progress = e
      BY <1>5, <3>1
    <3>6. WithinCaps(reply) => Progress = e
      BY <3>1, <3>4
    <3> QED BY <2>3, <3>2, <3>3, <3>4, <3>5, <3>6 DEF d
  <2>7. CASE reply.status = "2xx" /\ reply.framing = "length"
    <3> DEFINE l == reply.length
    <3>1. Progress = IF l > Cap THEN TooLarge ELSE IF Len(raw) < l THEN More
                     ELSE Decoded("done", SubSeq(raw, 1, l))
      BY <2>2, <2>7 DEF Body, Advertised
    <3>2. Whole(reply) <=> reply.good /\ l = Len(d) /\ Len(d) <= Len(b) /\ SubSeq(b, 1, Len(d)) = d
      BY <2>1, <2>7 DEF Whole, Starts
    <3>3. ASSUME l <= n PROVE SubSeq(raw, 1, l) = SubSeq(b, 1, l) /\ Len(SubSeq(b, 1, l)) = l
      <4>1. CASE l = 0
        <5>1. l < 1 /\ l \in Int /\ 1 \in Int
          BY <4>1
        <5> HIDE DEF l, raw, b
        <5>2. SubSeq(raw, 1, l) = <<>> /\ SubSeq(b, 1, l) = <<>>
          BY <5>1, SubSeqEmpty
        <5> QED BY <4>1, <5>2, EmptySeq
      <4>2. CASE l # 0
        <5>1. Begins(raw, b, n, T)
          BY <1>1, <2>1, BeginsBy
        <5>2. 1 \in 1..n /\ l \in 1..n /\ l \in 0..Len(b)
          <6> HIDE DEF n, l, b
          <6>1. l \in Nat
            BY <1>3 DEF l
          <6> QED BY <1>2, <2>1, <3>3, <4>2, <6>1
        <5>3. SubSeq(raw, 1, l) = SubSeq(b, 1, l)
          <6> HIDE DEF n, l, b, raw
          <6> QED BY <5>1, <5>2 DEF Begins
        <5>4. Begins(SubSeq(b, 1, l), b, l, T)
          <6> HIDE DEF l, b
          <6> QED BY <1>1, <5>2, BeginsBy
        <5> QED BY <5>3, <5>4 DEF Begins
      <4> QED BY <4>1, <4>2
    <3>4. l \in Nat
      BY <1>3
    <3> HIDE DEF raw, n, l, h, b, d
    <3>5. Progress.kind = "done" =>
            ~(l > Cap) /\ l <= n /\ Progress.body = SubSeq(b, 1, l) /\ Len(SubSeq(b, 1, l)) = l
      <4>1. ASSUME Progress.kind = "done" PROVE ~(l > Cap) /\ ~(n < l)
        BY <1>5, <2>4, <3>1, <4>1
      <4>2. ASSUME Progress.kind = "done" PROVE Progress.body = SubSeq(raw, 1, l)
        BY <1>5, <3>1, <4>2
      <4>3. ~(n < l) => l <= n
        BY <2>4, <3>4
      <4> QED BY <3>3, <4>1, <4>2, <4>3
    <3>6. Progress.kind = "done" /\ Progress.body = d => l = Len(d) /\ l <= Len(b)
      BY <1>2, <2>1, <3>4, <3>5
    <3>7. ASSUME Whole(reply), WithinCaps(reply) PROVE ~(l > Cap)
      <4>1. Len(d) <= ChatCap
        BY <3>7 DEF WithinCaps, d
      <4> QED BY <1>2, <1>4, <3>2, <3>7, <4>1
    <3>8. ASSUME Whole(reply), WithinCaps(reply), n < l PROVE Progress.kind = "more" /\ n # Len(b)
      <4>1. Progress = More
        BY <2>4, <3>1, <3>7, <3>8
      <4>2. l <= Len(b)
        BY <3>2, <3>8
      <4>3. n # Len(b)
        <5> DEFINE y == Len(b)
        <5>1. y \in Nat /\ l <= y
          BY <1>2, <4>2
        <5> HIDE DEF y
        <5>2. n # y
          BY <2>4, <3>4, <3>8, <5>1
        <5> QED BY <5>2 DEF y
      <4> QED BY <1>5, <4>1, <4>3
    <3>9. ASSUME Whole(reply), WithinCaps(reply), ~(n < l)
          PROVE  Progress.kind = "done" /\ Progress.body = d
      <4>1. l <= n
        BY <2>4, <3>4, <3>9
      <4>2. Progress = Decoded("done", SubSeq(raw, 1, l))
        BY <2>4, <3>1, <3>7, <3>9
      <4> QED BY <1>5, <3>2, <3>3, <3>9, <4>1, <4>2
    <3> QED BY <2>3, <3>2, <3>5, <3>6, <3>8, <3>9 DEF d
  <2>8. CASE reply.status = "2xx" /\ reply.framing = "close"
    <3>1. Progress = IF Len(raw) > Cap THEN TooLarge ELSE More
      BY <2>2, <2>8 DEF Body
    <3>2. Progress.kind # "done"
      BY <1>5, <3>1
    <3>3. ASSUME Whole(reply), WithinCaps(reply) PROVE Progress.kind = "more"
      <4>1. b = d /\ Len(d) <= Cap
        BY <1>4, <2>8, <3>3 DEF Whole, WithinCaps
      <4>2. ~(Len(raw) > Cap)
        <5> DEFINE y == Len(b)
        <5>1. y <= Cap /\ y \in Nat /\ n \in 0..y
          BY <1>2, <2>1, <4>1
        <5> HIDE DEF y, n, raw
        <5> QED BY <1>4, <2>4, <5>1
      <4> QED BY <1>5, <3>1, <4>2
    <3> QED BY <2>8, <3>2, <3>3
  <2> QED BY <1>3, <2>5, <2>6, <2>7, <2>8
<1> QED BY <1>6, <1>7

\* A sound answer, and what the consultation makes of it.
VerdictIsRight ==
  /\ outcome = "evidence" => Whole(reply)
  /\ outcome \in {"error", "invalid"} /\ ~broken => ~(Whole(reply) /\ WithinCaps(reply))

EvidenceInv ==
  /\ exchange \in {"probe", "chat"}
  /\ at = "connect" => came = 0
  /\ at \in {"verify", "write", "read"} => reply \in Replies /\ came \in 0..Len(Stream)
  /\ at = "over" => VerdictIsRight

\* A result that is no answer is not taken for one, and one that is is sound.
LEMMA FinishKeepsEvidence ==
  ASSUME NEW result, Finish(result), exchange \in {"probe", "chat"},
         exchange = "chat" =>
           /\ result.kind = "done" /\ result.body = reply.doc /\ reply.good => Whole(reply)
           /\ \/ result.kind \in {"unreachable", "untrusted_peer", "timeout", "io"}
              \/ Whole(reply) /\ WithinCaps(reply) =>
                   result.kind = "done" /\ result.body = reply.doc
  PROVE  EvidenceInv'
<1>1. CASE exchange = "probe"
  <2>1. came' = 0 /\ at' = "connect" /\ exchange' = "chat"
    BY <1>1 DEF Finish
  <2> QED BY <2>1 DEF EvidenceInv
<1>2. CASE exchange = "chat"
  <2> DEFINE sound == result.kind = "done" /\ reply.good /\ result.body = reply.doc
  <2>0. /\ at' = "over" /\ reply' = reply /\ exchange' = exchange
        /\ outcome' = IF result.kind \in {"unreachable", "untrusted_peer", "timeout"}
                      THEN result.kind
                      ELSE IF result.kind # "done" THEN "error"
                      ELSE IF sound THEN "evidence" ELSE "invalid"
        /\ result.kind = "io" => broken'
    BY <1>2 DEF Finish, connection
  <2>1. outcome' = "evidence" => Whole(reply)
    BY <1>2, <2>0
  <2>2. Whole(reply) => reply.good
    BY DEF Whole
  <2>3. outcome' \in {"error", "invalid"} /\ ~broken' => ~(Whole(reply) /\ WithinCaps(reply))
    BY <1>2, <2>0, <2>2
  <2>4. Whole(reply)' = Whole(reply) /\ WithinCaps(reply)' = WithinCaps(reply)
    BY <2>0
  <2>5. VerdictIsRight'
    BY <2>1, <2>3, <2>4 DEF VerdictIsRight
  <2> QED BY <1>2, <2>0, <2>5 DEF EvidenceInv
<1> QED BY <1>1, <1>2

\* A reply has a length, whichever it is.
LEMMA StreamIsLong == \A r \in Replies : Len(r.head \o r.body) \in Nat
<1> SUFFICES ASSUME NEW r \in Replies PROVE Len(r.head \o r.body) \in Nat
  OBVIOUS
<1> DEFINE h == r.head
           b == r.body
           H == {h[k] : k \in DOMAIN h}
           B == {b[k] : k \in DOMAIN b}
<1>1. h \in Seq(H) /\ b \in Seq(B)
  BY ReplyAssumption
<1> HIDE DEF h, b, H, B
<1>2. h \in Seq(H \cup B) /\ b \in Seq(H \cup B)
  BY <1>1, SeqMonotonic
<1>3. h \o b \in Seq(H \cup B)
  BY <1>2, ConcatProperties
<1>4. Len(h \o b) \in Nat
  BY <1>3, LenProperties
<1> QED BY <1>4 DEF h, b

LEMMA EvidenceStep == EvidenceInv /\ [ConsultNext]_consultVars => EvidenceInv'
<1> SUFFICES ASSUME EvidenceInv, [ConsultNext]_consultVars PROVE EvidenceInv'
  OBVIOUS
<1>1. CASE UNCHANGED consultVars
  <2>1. Stream' = Stream /\ UNCHANGED <<exchange, at, came, reply, outcome, broken>>
    BY <1>1 DEF consultVars, connection, results, Stream
  <2>2. VerdictIsRight' = VerdictIsRight
    BY <2>1 DEF VerdictIsRight
  <2> QED BY <2>1, <2>2 DEF EvidenceInv
<1>2. exchange \in {"probe", "chat"} /\ \A k, s : Decoded(k, s).kind = k /\ Decoded(k, s).body = s
  BY DEF Decoded, EvidenceInv
<1>3. CASE CallTimesOut
  <2>1. Finish(Decoded("timeout", <<>>))
    BY <1>3 DEF CallTimesOut
  <2> QED BY <1>2, <2>1, FinishKeepsEvidence
<1>4. CASE CallFails
  <2>1. Finish(Decoded(IF at = "connect" THEN "unreachable" ELSE "io", <<>>))
    BY <1>4 DEF CallFails
  <2> QED BY <1>2, <2>1, FinishKeepsEvidence
<1>5. CASE Connect
  <2>1. came' = 0 /\ reply' \in Replies /\ at' = "verify" /\ exchange' = exchange
    BY <1>5 DEF Connect, EvidenceInv
  <2>2. (Len(Stream) \in Nat)'
    BY <2>1, StreamIsLong DEF Stream
  <2>3. 0 \in 0..Len(Stream)'
    BY <2>2
  <2> QED BY <1>2, <2>1, <2>3 DEF EvidenceInv
<1>6. CASE VerifyPeer
  <2>1. CASE at = "verify" /\ at' = "write" /\ UNCHANGED <<exchange, reply, came>>
    <3>1. UNCHANGED <<came, reply>> /\ Stream' = Stream
      BY <2>1 DEF Stream
    <3> QED BY <2>1, <3>1 DEF EvidenceInv
  <2>2. CASE Finish(Decoded("untrusted_peer", <<>>))
    BY <1>2, <2>2, FinishKeepsEvidence
  <2> QED BY <1>6, <2>1, <2>2 DEF VerifyPeer
<1>7. CASE Write
  <2>1. UNCHANGED <<exchange, came, reply>> /\ Stream' = Stream /\ at = "write" /\ at' \in {"write", "read"}
    BY <1>7 DEF Write, Stream
  <2> QED BY <2>1 DEF EvidenceInv
<1>8. CASE Read
  <2>1. PICK n \in 1..ReadSize : came + n <= Len(Stream) /\ came' = came + n
    BY <1>8 DEF Read
  <2>2. reply \in Replies /\ came \in 0..Len(Stream) /\ reply' = reply /\ Stream' = Stream
        /\ at' = "read" /\ exchange' = exchange
    BY <1>8 DEF Read, EvidenceInv, Stream
  <2>3. came' \in 0..Len(Stream)
    BY <2>1, <2>2, StreamParts, CapsAreNumbers
  <2> QED BY <1>2, <2>2, <2>3 DEF EvidenceInv
<1>9. CASE ReadEnds
  <2> DEFINE closed == reply.framing = "close" /\ Blank \in {Stream[k] : k \in DOMAIN Stream}
             result == IF closed THEN Decoded("done", reply.body) ELSE Malformed
  <2>1. Finish(result) /\ reply \in Replies /\ came \in 0..Len(Stream) /\ Progress.kind = "more"
        /\ came = Len(Stream)
    BY <1>9 DEF ReadEnds, EvidenceInv
  <2>2. result.kind = IF closed THEN "done" ELSE "malformed"
    BY DEF Malformed, Decoded
  <2>3. closed => result.body = reply.body
    BY <1>2
  <2>4. closed <=> reply.framing = "close" /\ \E k \in 1..came : Stream[k] = Blank
    <3>1. PICK S : Stream \in Seq(S)
      BY <2>1, StreamParts
    <3>2. DOMAIN Stream = 1..came
      BY <2>1, <3>1, LenProperties
    <3> QED BY <3>2
  <2> HIDE DEF closed, result
  <2>5. ASSUME closed, reply.body = reply.doc, reply.good PROVE Whole(reply)
    <3>1. reply.head # <<>> /\ reply.head[Len(reply.head)] = Blank
      BY <2>1, <2>4, <2>5, HeadIsOver
    <3>2. reply.status = "2xx"
      <4>1. \E k \in 1..came : Stream[k] = Blank
        BY <2>4, <2>5
      <4>2. reply.status # "2xx" => Progress = Decoded(reply.status, <<>>)
        BY <4>1 DEF Progress
      <4>3. reply.status # "more"
        BY <2>1, ReplyAssumption
      <4> QED BY <1>2, <2>1, <4>2, <4>3
    <3> QED BY <2>4, <2>5, <3>1, <3>2 DEF Whole
  <2>6. ASSUME exchange = "chat", Whole(reply), WithinCaps(reply)
        PROVE  closed /\ reply.body = reply.doc
    <3>1. reply.framing = "close"
      BY <2>1, <2>6, ProgressIsRight
    <3>2. reply.body = reply.doc /\ reply.head # <<>> /\ reply.head[Len(reply.head)] = Blank
      BY <2>6, <3>1 DEF Whole
    <3>3. Len(reply.head) \in 1..came /\ Stream[Len(reply.head)] = reply.head[Len(reply.head)]
      <4> DEFINE h == reply.head
                 b == reply.body
      <4>1. PICK T : h \in Seq(T)
        BY <2>1, ReplyParts
      <4>2. /\ Len(h) \in Nat /\ Len(b) \in Nat /\ Len(Stream) = Len(h) + Len(b)
            /\ \A k \in 1..Len(h) : Stream[k] = h[k]
        BY <2>1, ReplyParts DEF Parted
      <4>3. Len(h) # 0
        BY <3>2, <4>1, EmptySeq
      <4> HIDE DEF h, b
      <4>4. Len(h) \in 1..Len(h) /\ Len(h) \in 1..came
        BY <2>1, <4>2, <4>3
      <4> QED BY <4>2, <4>4 DEF h
    <3> QED BY <2>4, <3>1, <3>2, <3>3
  <2> QED BY <1>2, <2>1, <2>2, <2>3, <2>5, <2>6, FinishKeepsEvidence
<1>10. CASE ReadDecides
  <2>1. Finish(Progress) /\ reply \in Replies /\ came \in 0..Len(Stream) /\ Progress.kind # "more"
    BY <1>10 DEF ReadDecides, EvidenceInv
  <2> DEFINE result == Progress
  <2>2. exchange = "chat" =>
           /\ result.kind = "done" /\ result.body = reply.doc /\ reply.good => Whole(reply)
           /\ Whole(reply) /\ WithinCaps(reply) => result.kind = "done" /\ result.body = reply.doc
    BY <2>1, ProgressIsRight
  <2>3. Finish(result)
    BY <2>1
  <2> HIDE DEF result
  <2> QED BY <1>2, <2>2, <2>3, FinishKeepsEvidence
<1>11. CASE ConsultOver
  <2>1. UNCHANGED consultVars
    BY <1>11 DEF ConsultOver
  <2> QED BY <1>1, <2>1
<1>12. CASE ServerAccepts
  <2>1. UNCHANGED <<exchange, at, came, reply>> /\ Stream' = Stream /\ at # "over"
    BY <1>12 DEF ServerAccepts, Stream
  <2> QED BY <2>1 DEF EvidenceInv
<1> QED BY <1>1, <1>3, <1>4, <1>5, <1>6, <1>7, <1>8, <1>9, <1>10, <1>11, <1>12 DEF ConsultNext

\* Whatever a server sends, in whatever portions and with whatever padding, chunk
\* sizes and framing, and whenever it closes: what is taken for evidence arrived
\* whole and sound, and a sound answer within the caps is refused only for a call
\* that failed or an answer that was late (http_exchange, decode_chunked, classify).
THEOREM EvidenceIsSound == ConsultSpec => []EvidenceIffSound
<1>1. ConsultInit => EvidenceInv
  BY DEF ConsultInit, ConsultStart, EvidenceInv
<1>2. EvidenceInv /\ BufferBounded => EvidenceIffSound
  BY DEF EvidenceInv, VerdictIsRight, EvidenceIffSound
<1> QED BY <1>1, <1>2, EvidenceStep, BufferIsBounded, PTL DEF ConsultSpec

-----------------------------------------------------------------------------
(* The helper *)

Min2(a, b) == IF a < b THEN a ELSE b

PollInv ==
  /\ time \in Nat /\ wake \in Nat
  /\ parent \in {"waiting", "joining", "returned"}
  /\ parent # "returned" => time <= wake /\ wake < Limit + PollEvery

ChildInv ==
  /\ child \in {"running", "exited", "reaped"}
  /\ child = "running" => "child" \in holders
  /\ parent # "waiting" => child = "reaped"

FlowInv ==
  /\ pipe \in Nat /\ written \in Nat /\ kept \in Nat
  /\ reader \in {"taking", "draining", "finished"}
  /\ reader = "taking" => kept + pipe = written /\ kept < KeepCap
  /\ reader = "draining" => kept = KeepCap /\ kept + pipe <= written
  /\ reader = "finished" =>
       holders = {} /\ pipe = 0 /\ child # "running" /\ kept = Min2(written, KeepCap)
  /\ captured = "output" => reader = "finished"

HelperInv == PollInv /\ ChildInv /\ FlowInv

LEMMA HelperStarts == CaptureInit => HelperInv
BY CaptureAssumption DEF CaptureInit, HelperInv, PollInv, ChildInv, FlowInv

\* What the processes at the pipe and the reader do.
LEMMA FlowStep ==
  ASSUME HelperInv,
         \/ ChildForks \/ HolderWrites \/ GrandchildExits
         \/ \E ok \in BOOLEAN : ChildExits(ok)
         \/ ReaderTakes \/ ReaderDrains \/ ReaderEnds
  PROVE  HelperInv'
<1> USE CaptureAssumption
    DEF HelperInv, PollInv, ChildInv, FlowInv, Min2, pipeVars, readerVars
<1>1. CASE ChildForks
  BY <1>1 DEF ChildForks
<1>2. CASE HolderWrites
  BY <1>2 DEF HolderWrites
<1>3. CASE GrandchildExits
  BY <1>3 DEF GrandchildExits
<1>4. ASSUME NEW ok \in BOOLEAN, ChildExits(ok) PROVE HelperInv'
  <2>1. parent = "waiting" /\ reader # "finished"
    BY <1>4 DEF ChildExits
  <2> QED BY <1>4, <2>1 DEF ChildExits
<1>5. CASE ReaderTakes
  BY <1>5 DEF ReaderTakes, AfterCap
<1>6. CASE ReaderDrains
  BY <1>6 DEF ReaderDrains
<1>7. CASE ReaderEnds
  BY <1>7 DEF ReaderEnds
<1> QED BY <1>1, <1>2, <1>3, <1>4, <1>5, <1>6, <1>7

\* What the check does, and the clock.
LEMMA PollStep ==
  ASSUME HelperInv,
         Reap \/ AwaitChild \/ Kill \/ JoinReader \/ AwaitReader \/ TimePasses
  PROVE  HelperInv'
<1> USE CaptureAssumption
    DEF HelperInv, PollInv, ChildInv, FlowInv, Min2, pipeVars, readerVars,
        Due, Expired, Return, Sleep
<1>1. CASE Reap
  BY <1>1 DEF Reap
<1>2. CASE AwaitChild
  BY <1>2 DEF AwaitChild
<1>3. CASE Kill
  BY <1>3 DEF Kill
<1>4. CASE JoinReader
  BY <1>4 DEF JoinReader, ReaderDone
<1>5. CASE AwaitReader
  BY <1>5 DEF AwaitReader, ReaderDone
<1>6. CASE TimePasses
  BY <1>6 DEF TimePasses
<1> QED BY <1>1, <1>2, <1>3, <1>4, <1>5, <1>6

LEMMA HelperStep == HelperInv /\ [CaptureNext]_captureVars => HelperInv'
<1> SUFFICES ASSUME HelperInv, UNCHANGED captureVars PROVE HelperInv'
  BY FlowStep, PollStep DEF CaptureNext, CaptureOver
<1> QED
  BY DEF captureVars, pipeVars, readerVars, HelperInv, PollInv, ChildInv, FlowInv, Min2

\* The helper costs no more than its deadline and one poll, leaves no zombie,
\* is never blocked by a reader that stopped, and what is returned is its whole
\* output up to the cap (run_capture, wait_or_kill).
THEOREM HelperStaysBounded == CaptureSpec => []HelperIsBounded
<1>1. HelperInv => HelperIsBounded
  BY CaptureAssumption
     DEF HelperInv, PollInv, ChildInv, FlowInv, Min2, HelperIsBounded, CaptureInTime,
         OutputIsWhole, ChildIsDrained, NoZombie
<1> QED BY <1>1, HelperStarts, HelperStep, PTL DEF CaptureSpec

-----------------------------------------------------------------------------
(* What a payload is taken apart with *)

\* Two tables that are made by the same steps are the same.
LEMMA StepsAgree ==
  ASSUME NEW N \in Nat, NEW M \in Nat, NEW V, NEW begin, NEW F, NEW G, NEW f, NEW g,
         Steps(f, N, V, begin, F), Steps(g, M, V, begin, G), NEW n \in Nat, n <= N, n <= M,
         \A k \in 1..n : F[k] = G[k]
  PROVE  f[n] = g[n]
<1> DEFINE Same == {k \in 0..n : f[k] = g[k]}
<1>1. 0 \in Same
  BY DEF Steps
<1>2. ASSUME NEW k \in 0..(n - 1), k \in Same PROVE k + 1 \in Same
  <2>1. k + 1 \in 1..n /\ k + 1 \in 1..N /\ k + 1 \in 1..M /\ (k + 1) - 1 = k /\ k + 1 \in 0..n
    OBVIOUS
  <2>2. f[k + 1] = F[k + 1][f[k]] /\ g[k + 1] = G[k + 1][g[k]]
    BY <2>1 DEF Steps
  <2> QED BY <1>2, <2>1, <2>2
<1> HIDE DEF Same
<1>3. 0..n \subseteq Same
  BY <1>1, <1>2, NatSteps
<1> QED BY <1>3 DEF Same

\* The steps that Sifted, Terminated and SplitLines take.
SiftSteps(lines, good, T) ==
  [k \in 1..Len(lines) |-> [v \in Seq(T) |-> IF lines[k] \in good THEN Append(v, lines[k]) ELSE v]]
PrintSteps(lines, T) ==
  [k \in 1..Len(lines) |-> [v \in Seq(T) |-> v \o Append(lines[k], Newline)]]
Splits(T) == [lines : Seq(Seq(T)), last : Seq(T)]
SplitOn(v, b) ==
  IF b = Newline THEN [lines |-> Append(v.lines, v.last), last |-> <<>>]
                 ELSE [v EXCEPT !.last = Append(@, b)]
SplitSteps(bytes, T) == [k \in 1..Len(bytes) |-> [v \in Splits(T) |-> SplitOn(v, bytes[k])]]

\* Sifted takes them.
LEMMA SiftedIs ==
  ASSUME NEW T, NEW lines \in Seq(T), NEW good
  PROVE  \E f : /\ Steps(f, Len(lines), Seq(T), <<>>, SiftSteps(lines, good, T))
                /\ Sifted(lines, good) = f[Len(lines)]
<1> DEFINE N == Len(lines)
           D == 0..N
           V == Seq(T)
           F == SiftSteps(lines, good, T)
           body(f) == [n \in D |-> IF n = 0 THEN <<>>
                                   ELSE IF lines[n] \in good THEN Append(f[n - 1], lines[n])
                                                             ELSE f[n - 1]]
           f == CHOOSE f : f = body(f)
<1>1. N \in Nat /\ \A k \in 1..N : lines[k] \in T
  BY LenProperties, ElementOfSeq
<1>2. Sifted(lines, good) = f[N]
  BY DEF Sifted
<1>3. <<>> \in V
  BY EmptySeq
<1>4. \A k \in 1..N : \A v \in V :
        F[k][v] = IF lines[k] \in good THEN Append(v, lines[k]) ELSE v
  BY DEF SiftSteps
<1>5. ASSUME NEW k \in 1..N, NEW v \in V PROVE F[k][v] \in V
  <2>1. Append(v, lines[k]) \in V
    BY <1>1, AppendProperties
  <2> QED BY <1>4, <2>1
<1> HIDE DEF F, V, N, body, D
<1>6. StepsIn(N, V, <<>>, F)
  BY <1>3, <1>5 DEF StepsIn
<1>7. PICK g : Steps(g, N, V, <<>>, F)
  BY <1>1, <1>6, ForwardRecursion
<1>8. g \in [0..N -> V] /\ g[0] = <<>> /\ \A k \in 1..N : g[k] = F[k][g[k - 1]]
  BY <1>7 DEF Steps
<1>9. ASSUME NEW k \in 0..N, k # 0
      PROVE  g[k] = IF lines[k] \in good THEN Append(g[k - 1], lines[k]) ELSE g[k - 1]
  <2>1. k \in 1..N /\ k - 1 \in 0..N
    BY <1>1, <1>9
  <2>2. g[k - 1] \in V
    BY <1>8, <2>1
  <2> QED BY <1>4, <1>8, <2>1, <2>2
<1>10. g = body(g)
  BY <1>8, <1>9 DEF body, D
<1>11. f = body(f)
  BY <1>10
<1> HIDE DEF f
<1> DEFINE Same == {k \in 0..N : f[k] = g[k]}
<1>12. 0 \in Same
  BY <1>1, <1>8, <1>11 DEF body, D
<1>13. ASSUME NEW k \in 0..(N - 1), k \in Same PROVE k + 1 \in Same
  <2>1. k + 1 \in D /\ k + 1 # 0 /\ (k + 1) - 1 = k /\ k + 1 \in 0..N
    BY <1>1 DEF D
  <2>2. f[k + 1] = IF lines[k + 1] \in good THEN Append(f[k], lines[k + 1]) ELSE f[k]
    BY <1>11, <2>1 DEF body
  <2> QED BY <1>9, <1>13, <2>1, <2>2
<1> HIDE DEF Same
<1>14. 0..N \subseteq Same
  BY <1>1, <1>12, <1>13, NatSteps
<1>15. f[N] = g[N]
  BY <1>1, <1>14 DEF Same
<1> QED BY <1>2, <1>7, <1>15 DEF N, V, F

\* Nothing is made of lines but some of them.
LEMMA SiftedTyped ==
  ASSUME NEW T, NEW lines \in Seq(T), NEW good
  PROVE  Sifted(<<>>, good) = <<>> /\ Sifted(lines, good) \in Seq(T)
<1>1. Sifted(<<>>, good) = <<>>
  <2>1. <<>> \in Seq(T) /\ Len(<<>>) = 0
    BY EmptySeq
  <2>2. PICK h : Steps(h, 0, Seq(T), <<>>, SiftSteps(<<>>, good, T)) /\ Sifted(<<>>, good) = h[0]
    BY <2>1, SiftedIs
  <2> QED BY <2>2 DEF Steps
<1>2. Sifted(lines, good) \in Seq(T)
  <2>1. PICK f : /\ Steps(f, Len(lines), Seq(T), <<>>, SiftSteps(lines, good, T))
                 /\ Sifted(lines, good) = f[Len(lines)]
    BY SiftedIs
  <2>2. Len(lines) \in 0..Len(lines)
    BY LenProperties
  <2> QED BY <2>1, <2>2 DEF Steps
<1> QED BY <1>1, <1>2

\* One line more is one decision more.
LEMMA SiftedMore ==
  ASSUME NEW T, NEW lines \in Seq(T), NEW l \in T, NEW good
  PROVE  Sifted(Append(lines, l), good) =
           IF l \in good THEN Append(Sifted(lines, good), l) ELSE Sifted(lines, good)
<1> DEFINE N == Len(lines)
           more == Append(lines, l)
           V == Seq(T)
           F == SiftSteps(lines, good, T)
           G == SiftSteps(more, good, T)
<1>1. /\ N \in Nat /\ more \in Seq(T) /\ Len(more) = N + 1
      /\ \A k \in 1..N : more[k] = lines[k]
      /\ more[N + 1] = l
  BY LenProperties, AppendProperties
<1>2. PICK f : Steps(f, N, V, <<>>, F) /\ Sifted(lines, good) = f[N]
  BY SiftedIs
<1>3. PICK g : Steps(g, N + 1, V, <<>>, G) /\ Sifted(more, good) = g[N + 1]
  BY <1>1, SiftedIs
<1>4. \A k \in 1..N : F[k] = G[k]
  <2>1. \A k \in 1..N : k \in 1..(N + 1)
    BY <1>1
  <2> QED BY <1>1, <2>1 DEF SiftSteps
<1>5. \A v \in V : G[N + 1][v] = IF l \in good THEN Append(v, l) ELSE v
  <2>1. N + 1 \in 1..(N + 1)
    BY <1>1
  <2> QED BY <1>1, <2>1 DEF SiftSteps
<1> HIDE DEF F, G, V, more
<1>6. f[N] = g[N]
  <2> HIDE DEF N
  <2> QED BY <1>1, <1>2, <1>3, <1>4, StepsAgree
<1>7. f[N] \in V /\ g[N + 1] = G[N + 1][g[N]]
  <2>1. N \in 0..N /\ N + 1 \in 1..(N + 1) /\ (N + 1) - 1 = N
    BY <1>1
  <2> QED BY <1>2, <1>3, <2>1 DEF Steps
<1> QED BY <1>2, <1>3, <1>5, <1>6, <1>7 DEF more
\* Terminated takes them.
LEMMA TerminatedIs ==
  ASSUME NEW T, NEW lines \in Seq(Seq(T)), Newline \in T
  PROVE  \E f : /\ Steps(f, Len(lines), Seq(T), <<>>, PrintSteps(lines, T))
                /\ Terminated(lines) = f[Len(lines)]
<1> DEFINE N == Len(lines)
           D == 0..N
           V == Seq(T)
           F == PrintSteps(lines, T)
           body(f) == [n \in D |-> IF n = 0 THEN <<>>
                                   ELSE f[n - 1] \o Append(lines[n], Newline)]
           f == CHOOSE f : f = body(f)
<1>1. N \in Nat /\ \A k \in 1..N : lines[k] \in Seq(T)
  BY LenProperties, ElementOfSeq
<1>2. Terminated(lines) = f[N]
  BY DEF Terminated
<1>3. <<>> \in V
  BY EmptySeq
<1>4. \A k \in 1..N : \A v \in V : F[k][v] = v \o Append(lines[k], Newline)
  BY DEF PrintSteps
<1>5. ASSUME NEW k \in 1..N, NEW v \in V PROVE F[k][v] \in V
  <2>1. Append(lines[k], Newline) \in V
    BY <1>1, AppendProperties
  <2>2. v \o Append(lines[k], Newline) \in V
    BY <2>1, ConcatProperties
  <2> QED BY <1>4, <2>2
<1> HIDE DEF F, V, N, body, D
<1>6. StepsIn(N, V, <<>>, F)
  BY <1>3, <1>5 DEF StepsIn
<1>7. PICK g : Steps(g, N, V, <<>>, F)
  BY <1>1, <1>6, ForwardRecursion
<1>8. g \in [0..N -> V] /\ g[0] = <<>> /\ \A k \in 1..N : g[k] = F[k][g[k - 1]]
  BY <1>7 DEF Steps
<1>9. ASSUME NEW k \in 0..N, k # 0
      PROVE  g[k] = g[k - 1] \o Append(lines[k], Newline)
  <2>1. k \in 1..N /\ k - 1 \in 0..N
    BY <1>1, <1>9
  <2>2. g[k - 1] \in V
    BY <1>8, <2>1
  <2> QED BY <1>4, <1>8, <2>1, <2>2
<1>10. g = body(g)
  BY <1>8, <1>9 DEF body, D
<1>11. f = body(f)
  BY <1>10
<1> HIDE DEF f
<1> DEFINE Same == {k \in 0..N : f[k] = g[k]}
<1>12. 0 \in Same
  BY <1>1, <1>8, <1>11 DEF body, D
<1>13. ASSUME NEW k \in 0..(N - 1), k \in Same PROVE k + 1 \in Same
  <2>1. k + 1 \in D /\ k + 1 # 0 /\ (k + 1) - 1 = k /\ k + 1 \in 0..N
    BY <1>1 DEF D
  <2>2. f[k + 1] = f[k] \o Append(lines[k + 1], Newline)
    BY <1>11, <2>1 DEF body
  <2> QED BY <1>9, <1>13, <2>1, <2>2
<1> HIDE DEF Same
<1>14. 0..N \subseteq Same
  BY <1>1, <1>12, <1>13, NatSteps
<1>15. f[N] = g[N]
  BY <1>1, <1>14 DEF Same
<1> QED BY <1>2, <1>7, <1>15 DEF N, V, F

\* So one line more is printed last.
LEMMA TerminatedMore ==
  ASSUME NEW T, NEW lines \in Seq(Seq(T)), NEW l \in Seq(T), Newline \in T
  PROVE  /\ Terminated(<<>>) = <<>>
         /\ Terminated(lines) \in Seq(T)
         /\ Terminated(Append(lines, l)) = Terminated(lines) \o Append(l, Newline)
<1> DEFINE N == Len(lines)
           more == Append(lines, l)
           V == Seq(T)
           F == PrintSteps(lines, T)
           G == PrintSteps(more, T)
<1>1. /\ N \in Nat /\ more \in Seq(Seq(T)) /\ Len(more) = N + 1
      /\ \A k \in 1..N : more[k] = lines[k]
      /\ more[N + 1] = l
  BY LenProperties, AppendProperties
<1>2. PICK f : Steps(f, N, V, <<>>, F) /\ Terminated(lines) = f[N]
  BY TerminatedIs
<1>3. PICK g : Steps(g, N + 1, V, <<>>, G) /\ Terminated(more) = g[N + 1]
  BY <1>1, TerminatedIs
<1>4. \A k \in 1..N : F[k] = G[k]
  <2>1. \A k \in 1..N : k \in 1..(N + 1)
    BY <1>1
  <2> QED BY <1>1, <2>1 DEF PrintSteps
<1>5. \A v \in V : G[N + 1][v] = v \o Append(l, Newline)
  <2>1. N + 1 \in 1..(N + 1)
    BY <1>1
  <2> QED BY <1>1, <2>1 DEF PrintSteps
<1> HIDE DEF F, G, V, more
<1>6. f[N] = g[N]
  <2> HIDE DEF N
  <2> QED BY <1>1, <1>2, <1>3, <1>4, StepsAgree
<1>7. f[N] \in V /\ g[N + 1] = G[N + 1][g[N]]
  <2>1. N \in 0..N /\ N + 1 \in 1..(N + 1) /\ (N + 1) - 1 = N
    BY <1>1
  <2> QED BY <1>2, <1>3, <2>1 DEF Steps
<1>8. Terminated(<<>>) = <<>>
  <2>1. <<>> \in Seq(Seq(T)) /\ Len(<<>>) = 0
    BY EmptySeq
  <2>2. PICK h : Steps(h, 0, Seq(T), <<>>, PrintSteps(<<>>, T)) /\ Terminated(<<>>) = h[0]
    BY <2>1, TerminatedIs
  <2> QED BY <2>2 DEF Steps
<1> QED BY <1>2, <1>3, <1>5, <1>6, <1>7, <1>8 DEF V, more
\* A byte more leaves lines and a rest.
LEMMA SplitOnTyped ==
  ASSUME NEW T, NEW v \in Splits(T), NEW b \in T
  PROVE  SplitOn(v, b) \in Splits(T)
<1>1. v.lines \in Seq(Seq(T)) /\ v.last \in Seq(T) /\ v = [lines |-> v.lines, last |-> v.last]
  BY DEF Splits
<1>2. Append(v.lines, v.last) \in Seq(Seq(T)) /\ Append(v.last, b) \in Seq(T) /\ <<>> \in Seq(T)
  BY <1>1, AppendProperties, EmptySeq
<1>3. CASE b = Newline
  BY <1>2, <1>3 DEF SplitOn, Splits
<1>4. CASE b # Newline
  <2>1. SplitOn(v, b) = [lines |-> v.lines, last |-> Append(v.last, b)]
    BY <1>1, <1>4 DEF SplitOn
  <2> QED BY <1>1, <1>2, <2>1 DEF Splits
<1> QED BY <1>3, <1>4

\* SplitLines takes them.
LEMMA SplitLinesIs ==
  ASSUME NEW T, NEW bytes \in Seq(T)
  PROVE  \E f : /\ Steps(f, Len(bytes), Splits(T), [lines |-> <<>>, last |-> <<>>],
                      SplitSteps(bytes, T))
                /\ SplitLines(bytes) = f[Len(bytes)]
<1> DEFINE N == Len(bytes)
           D == 0..N
           V == Splits(T)
           none == [lines |-> <<>>, last |-> <<>>]
           F == SplitSteps(bytes, T)
           body(f) == [n \in D |-> IF n = 0 THEN [lines |-> <<>>, last |-> <<>>]
                                   ELSE IF bytes[n] = Newline
                                   THEN [lines |-> Append(f[n - 1].lines, f[n - 1].last),
                                         last |-> <<>>]
                                   ELSE [f[n - 1] EXCEPT !.last = Append(@, bytes[n])]]
           f == CHOOSE f : f = body(f)
<1>1. N \in Nat /\ \A k \in 1..N : bytes[k] \in T
  BY LenProperties, ElementOfSeq
<1>2. SplitLines(bytes) = f[N]
  BY DEF SplitLines
<1>3. none \in V
  BY EmptySeq DEF Splits
<1>4. \A k \in 1..N : \A v \in V : F[k][v] = SplitOn(v, bytes[k])
  BY DEF SplitSteps
<1>5. ASSUME NEW k \in 1..N, NEW v \in V PROVE F[k][v] \in V
  <2>1. SplitOn(v, bytes[k]) \in V
    BY <1>1, SplitOnTyped
  <2> QED BY <1>4, <2>1
<1> HIDE DEF F, V, N, body, D, none
<1>6. StepsIn(N, V, none, F)
  BY <1>3, <1>5 DEF StepsIn
<1>7. PICK g : Steps(g, N, V, none, F)
  BY <1>1, <1>6, ForwardRecursion
<1>8. g \in [0..N -> V] /\ g[0] = none /\ \A k \in 1..N : g[k] = F[k][g[k - 1]]
  BY <1>7 DEF Steps
<1>9. ASSUME NEW k \in 0..N, k # 0
      PROVE  g[k] = SplitOn(g[k - 1], bytes[k])
  <2>1. k \in 1..N /\ k - 1 \in 0..N
    BY <1>1, <1>9
  <2>2. g[k - 1] \in V
    BY <1>8, <2>1
  <2> QED BY <1>4, <1>8, <2>1, <2>2
<1>10. g = body(g)
  BY <1>8, <1>9 DEF body, D, none, SplitOn
<1>11. f = body(f)
  BY <1>10
<1> HIDE DEF f
<1> DEFINE Same == {k \in 0..N : f[k] = g[k]}
<1>12. 0 \in Same
  BY <1>1, <1>8, <1>11 DEF body, D, none, SplitOn
<1>13. ASSUME NEW k \in 0..(N - 1), k \in Same PROVE k + 1 \in Same
  <2>1. k + 1 \in D /\ k + 1 # 0 /\ (k + 1) - 1 = k /\ k + 1 \in 0..N
    BY <1>1 DEF D
  <2>2. f[k + 1] = SplitOn(f[k], bytes[k + 1])
    BY <1>11, <2>1 DEF body, SplitOn
  <2> QED BY <1>9, <1>13, <2>1, <2>2
<1> HIDE DEF Same
<1>14. 0..N \subseteq Same
  BY <1>1, <1>12, <1>13, NatSteps
<1>15. f[N] = g[N]
  BY <1>1, <1>14 DEF Same
<1> QED BY <1>2, <1>7, <1>15 DEF N, V, F, none

\* So one byte more is added last.
LEMMA SplitMore ==
  ASSUME NEW T, NEW bytes \in Seq(T), NEW b \in T
  PROVE  /\ SplitLines(<<>>) = [lines |-> <<>>, last |-> <<>>]
         /\ SplitLines(bytes) \in Splits(T)
         /\ SplitLines(Append(bytes, b)) = SplitOn(SplitLines(bytes), b)
<1> DEFINE N == Len(bytes)
           more == Append(bytes, b)
           V == Splits(T)
           none == [lines |-> <<>>, last |-> <<>>]
           F == SplitSteps(bytes, T)
           G == SplitSteps(more, T)
<1>1. /\ N \in Nat /\ more \in Seq(T) /\ Len(more) = N + 1
      /\ \A k \in 1..N : more[k] = bytes[k]
      /\ more[N + 1] = b
  BY LenProperties, AppendProperties
<1>2. PICK f : Steps(f, N, V, none, F) /\ SplitLines(bytes) = f[N]
  BY SplitLinesIs
<1>3. PICK g : Steps(g, N + 1, V, none, G) /\ SplitLines(more) = g[N + 1]
  BY <1>1, SplitLinesIs
<1>4. \A k \in 1..N : F[k] = G[k]
  <2>1. \A k \in 1..N : k \in 1..(N + 1)
    BY <1>1
  <2> QED BY <1>1, <2>1 DEF SplitSteps
<1>5. \A v \in V : G[N + 1][v] = SplitOn(v, b)
  <2>1. N + 1 \in 1..(N + 1)
    BY <1>1
  <2> QED BY <1>1, <2>1 DEF SplitSteps
<1> HIDE DEF F, G, V, more
<1>6. f[N] = g[N]
  <2> HIDE DEF N
  <2> QED BY <1>1, <1>2, <1>3, <1>4, StepsAgree
<1>7. f[N] \in V /\ g[N + 1] = G[N + 1][g[N]]
  <2>1. N \in 0..N /\ N + 1 \in 1..(N + 1) /\ (N + 1) - 1 = N
    BY <1>1
  <2> QED BY <1>2, <1>3, <2>1 DEF Steps
<1>8. SplitLines(<<>>) = none
  <2>1. <<>> \in Seq(T) /\ Len(<<>>) = 0
    BY EmptySeq
  <2>2. PICK h : Steps(h, 0, Splits(T), none, SplitSteps(<<>>, T)) /\ SplitLines(<<>>) = h[0]
    BY <2>1, SplitLinesIs
  <2> QED BY <2>2 DEF Steps
<1> QED BY <1>2, <1>3, <1>5, <1>6, <1>7, <1>8 DEF V, more

\* The beginnings of a sequence.
LEMMA Beginning ==
  ASSUME NEW T, NEW s \in Seq(T), NEW n \in 0..Len(s)
  PROVE  /\ SubSeq(s, 1, n) \in Seq(T) /\ Len(SubSeq(s, 1, n)) = n
         /\ \A k \in 1..n : SubSeq(s, 1, n)[k] = s[k]
         /\ SubSeq(s, 1, 0) = <<>> /\ SubSeq(s, 1, Len(s)) = s
         /\ n < Len(s) => SubSeq(s, 1, n + 1) = Append(SubSeq(s, 1, n), s[n + 1]) /\ s[n + 1] \in T
<1>1. Len(s) \in Nat /\ n \in Int /\ 1 \in Int
  BY LenProperties
<1>2. \A i \in 1..n : s[i] \in T
  <2>1. \A i \in 1..n : i \in 1..Len(s)
    BY <1>1
  <2> QED BY <2>1, ElementOfSeq
<1>3. /\ SubSeq(s, 1, n) \in Seq(T) /\ Len(SubSeq(s, 1, n)) = IF 1 <= n THEN n - 1 + 1 ELSE 0
      /\ \A i \in 1..(n - 1 + 1) : SubSeq(s, 1, n)[i] = s[1 + i - 1]
  BY <1>1, <1>2, SubSeqProperties
<1>4. Len(SubSeq(s, 1, n)) = n /\ \A k \in 1..n : SubSeq(s, 1, n)[k] = s[k]
  BY <1>1, <1>3
<1>5. SubSeq(s, 1, 0) = <<>> /\ SubSeq(s, 1, Len(s)) = s
  BY SubSeqEmpty, SubSeqFull
<1>6. ASSUME n < Len(s)
      PROVE  SubSeq(s, 1, n + 1) = Append(SubSeq(s, 1, n), s[n + 1]) /\ s[n + 1] \in T
  <2>1. n \in (1 - 1)..(Len(s) - 1) /\ 1 \in 1..(Len(s) + 1) /\ n + 1 \in 1..Len(s)
    BY <1>1, <1>6
  <2> QED BY <2>1, OneMore, ElementOfSeq
<1> QED BY <1>3, <1>4, <1>5, <1>6

\* The beginnings of two sequences in a row.
LEMMA BeginningOfBoth ==
  ASSUME NEW T, NEW a \in Seq(T), NEW b \in Seq(T), NEW n \in 0..(Len(a) + Len(b))
  PROVE  /\ n <= Len(a) => SubSeq(a \o b, 1, n) = SubSeq(a, 1, n)
         /\ n >= Len(a) => SubSeq(a \o b, 1, n) = a \o SubSeq(b, 1, n - Len(a))
<1>1. /\ a \o b \in Seq(T) /\ Len(a \o b) = Len(a) + Len(b)
      /\ \A i \in 1..(Len(a) + Len(b)) : (a \o b)[i] = IF i <= Len(a) THEN a[i] ELSE b[i - Len(a)]
  BY ConcatProperties
<1>2. Len(a) \in Nat /\ Len(b) \in Nat
  BY LenProperties
<1> DEFINE s == SubSeq(a \o b, 1, n)
<1>3. s \in Seq(T) /\ Len(s) = n /\ \A k \in 1..n : s[k] = (a \o b)[k]
  BY <1>1, Beginning
<1>4. ASSUME n <= Len(a) PROVE s = SubSeq(a, 1, n)
  <2>1. n \in 0..Len(a)
    BY <1>2, <1>4
  <2> DEFINE t == SubSeq(a, 1, n)
  <2>2. t \in Seq(T) /\ Len(t) = n /\ \A k \in 1..n : t[k] = a[k]
    BY <2>1, Beginning
  <2>3. \A k \in 1..n : s[k] = t[k]
    BY <1>1, <1>2, <1>3, <1>4, <2>2
  <2> HIDE DEF s, t
  <2> QED BY <1>3, <2>2, <2>3, SeqEqual
<1>5. ASSUME n >= Len(a) PROVE s = a \o SubSeq(b, 1, n - Len(a))
  <2>1. n - Len(a) \in 0..Len(b)
    BY <1>2, <1>5
  <2> DEFINE t == SubSeq(b, 1, n - Len(a))
             u == a \o t
  <2>2. t \in Seq(T) /\ Len(t) = n - Len(a) /\ \A k \in 1..(n - Len(a)) : t[k] = b[k]
    BY <2>1, Beginning
  <2> HIDE DEF t
  <2>3. /\ u \in Seq(T) /\ Len(u) = Len(a) + Len(t)
        /\ \A i \in 1..(Len(a) + Len(t)) : u[i] = IF i <= Len(a) THEN a[i] ELSE t[i - Len(a)]
    BY <2>2, ConcatProperties
  <2>4. Len(u) = n
    BY <1>2, <2>2, <2>3
  <2>5. ASSUME NEW k \in 1..n PROVE s[k] = u[k]
    <3>1. CASE k <= Len(a)
      BY <1>1, <1>2, <1>3, <2>2, <2>3, <3>1
    <3>2. CASE k > Len(a)
      <4>1. k - Len(a) \in 1..(n - Len(a)) /\ k \in 1..(Len(a) + Len(b)) /\ k \in 1..(Len(a) + Len(t))
        BY <1>2, <2>2, <3>2
      <4>2. s[k] = b[k - Len(a)]
        BY <1>1, <1>2, <1>3, <3>2, <4>1
      <4>3. ~(k <= Len(a))
        BY <1>2, <3>2
      <4>4. u[k] = t[k - Len(a)]
        BY <2>3, <4>1, <4>3
      <4> QED BY <2>2, <4>1, <4>2, <4>4
    <3>3. k <= Len(a) \/ k > Len(a)
      BY <1>2
    <3> QED BY <3>1, <3>2, <3>3
  <2> HIDE DEF s, u
  <2>6. s = u
    BY <1>3, <2>3, <2>4, <2>5, SeqEqual
  <2> QED BY <2>6 DEF t, u
<1> QED BY <1>4, <1>5 DEF s

\* Appending to the second of two sequences in a row.
LEMMA AppendToBoth ==
  ASSUME NEW T, NEW a \in Seq(T), NEW b \in Seq(T), NEW e \in T
  PROVE  a \o Append(b, e) = Append(a \o b, e)
<1>1. Append(b, e) = b \o <<e>> /\ a \o b \in Seq(T) /\ <<e>> \in Seq(T)
  BY AppendIsConcat, ConcatProperties
<1>2. Append(a \o b, e) = (a \o b) \o <<e>>
  BY <1>1, AppendIsConcat
<1> QED BY <1>1, <1>2, ConcatAssociative

\* What follows the last newline is added to the rest.
LEMMA SplitRest ==
  ASSUME NEW T, NEW L, L \subseteq T, Newline \in T, Newline \notin L,
         NEW bytes \in Seq(T), NEW x \in Seq(L),
         SplitLines(bytes).last = <<>>
  PROVE  SplitLines(bytes \o x) = [lines |-> SplitLines(bytes).lines, last |-> x]
<1> DEFINE N == Len(x)
           ls == SplitLines(bytes).lines
           S == {n \in 0..N : SplitLines(bytes \o SubSeq(x, 1, n)) =
                              [lines |-> ls, last |-> SubSeq(x, 1, n)]}
<1>1. N \in Nat /\ x \in Seq(T) /\ SplitLines(bytes) \in Splits(T)
  <2>1. x \in Seq(T)
    BY SeqMonotonic
  <2>2. SplitLines(bytes) \in Splits(T)
    BY SplitMore
  <2> QED BY <2>1, <2>2, LenProperties
<1>2. 0 \in S
  <2>1. SubSeq(x, 1, 0) = <<>> /\ bytes \o <<>> = bytes
    BY <1>1, SubSeqEmpty, ConcatEmptySeq
  <2>2. SplitLines(bytes) = [lines |-> ls, last |-> <<>>]
    BY <1>1 DEF Splits
  <2>3. 0 \in 0..N
    BY <1>1
  <2> HIDE DEF ls, N
  <2>4. SplitLines(bytes \o SubSeq(x, 1, 0)) = [lines |-> ls, last |-> SubSeq(x, 1, 0)]
    BY <2>1, <2>2
  <2> QED BY <2>3, <2>4
<1>3. ASSUME NEW n \in 0..(N - 1), n \in S PROVE n + 1 \in S
  <2> DEFINE y == SubSeq(x, 1, n)
             e == x[n + 1]
  <2>1. /\ y \in Seq(L) /\ e \in L /\ SubSeq(x, 1, n + 1) = Append(y, e)
        /\ n \in 0..N /\ n + 1 \in 0..N
    BY <1>1, Beginning
  <2>2. y \in Seq(T) /\ e \in T /\ e # Newline
    BY <2>1, SeqMonotonic
  <2>3. SplitLines(bytes \o y) = [lines |-> ls, last |-> y]
    BY <1>3
  <2> HIDE DEF y, e, ls
  <2>4. bytes \o Append(y, e) = Append(bytes \o y, e) /\ bytes \o y \in Seq(T)
    BY <2>2, AppendToBoth, ConcatProperties
  <2>5. SplitLines(Append(bytes \o y, e)) = SplitOn(SplitLines(bytes \o y), e)
    BY <2>2, <2>4, SplitMore
  <2>6. SplitLines(bytes \o Append(y, e)) = [lines |-> ls, last |-> Append(y, e)]
    <3>1. [[lines |-> ls, last |-> y] EXCEPT !.last = Append(@, e)] =
            [lines |-> ls, last |-> Append(y, e)]
      <4>1. [lines |-> ls, last |-> y].last = y
        OBVIOUS
      <4> DEFINE z == Append(y, e)
      <4> HIDE DEF z
      <4>2. [[lines |-> ls, last |-> y] EXCEPT !.last = z] = [lines |-> ls, last |-> z]
        OBVIOUS
      <4> QED BY <4>1, <4>2 DEF z
    <3>2. SplitOn([lines |-> ls, last |-> y], e) = [lines |-> ls, last |-> Append(y, e)]
      BY <2>2, <3>1 DEF SplitOn
    <3> QED BY <2>3, <2>4, <2>5, <3>2
  <2> QED BY <2>1, <2>6
<1> HIDE DEF S
<1>4. 0..N \subseteq S
  BY <1>1, <1>2, <1>3, NatSteps
<1>5. N \in S /\ SubSeq(x, 1, N) = x
  BY <1>1, <1>4, SubSeqFull
<1> QED BY <1>5 DEF S

\* The beginnings of a sequence to which something is appended.
LEMMA FirstOfAppend ==
  ASSUME NEW T, NEW s \in Seq(T), NEW e \in T, NEW n \in 0..Len(s)
  PROVE  SubSeq(Append(s, e), 1, n) = SubSeq(s, 1, n)
<1>1. Append(s, e) = s \o <<e>> /\ <<e>> \in Seq(T) /\ Len(s) \in Nat
  BY AppendIsConcat, LenProperties
<1>2. n \in 0..(Len(s) + Len(<<e>>)) /\ n <= Len(s)
  BY <1>1
<1> QED BY <1>1, <1>2, BeginningOfBoth

-----------------------------------------------------------------------------
(* Lines that are printed, cut and split *)

\* Printed lines are split into those lines, whatever is left of one after them.
LEMMA PrintedIsSplit ==
  ASSUME NEW T, NEW L, L \subseteq T, Newline \in T, Newline \notin L,
         NEW lines \in Seq(Seq(L)), NEW x \in Seq(L)
  PROVE  SplitLines(Terminated(lines) \o x) = [lines |-> lines, last |-> x]
<1> DEFINE N == Len(lines)
           First(n) == SubSeq(lines, 1, n)
           S == {n \in 0..N : SplitLines(Terminated(First(n))) = [lines |-> First(n), last |-> <<>>]}
<1>1. N \in Nat /\ Seq(L) \subseteq Seq(T) /\ lines \in Seq(Seq(T))
  <2>1. Seq(L) \subseteq Seq(T)
    BY SeqMonotonic
  <2> QED BY <2>1, SeqMonotonic, LenProperties
<1>2. 0 \in S
  <2>1. First(0) = <<>>
    BY SubSeqEmpty
  <2>2. Terminated(<<>>) = <<>>
    <3>1. <<>> \in Seq(T)
      BY EmptySeq
    <3> QED BY <1>1, <3>1, TerminatedMore
  <2>3. SplitLines(<<>>) = [lines |-> <<>>, last |-> <<>>]
    BY EmptySeq, SplitMore
  <2>4. 0 \in 0..N
    BY <1>1
  <2> HIDE DEF First, N
  <2>5. SplitLines(Terminated(First(0))) = [lines |-> First(0), last |-> <<>>]
    BY <2>1, <2>2, <2>3
  <2> QED BY <2>4, <2>5
<1>3. ASSUME NEW n \in 0..(N - 1), n \in S PROVE n + 1 \in S
  <2> DEFINE ls == First(n)
             l == lines[n + 1]
             bytes == Terminated(ls)
  <2>1. ls \in Seq(Seq(L)) /\ l \in Seq(L) /\ First(n + 1) = Append(ls, l) /\ n + 1 \in 0..N
    <3> DEFINE U == Seq(L)
    <3>1. n \in 0..N /\ n + 1 \in 0..N /\ n < N
      BY <1>1
    <3>2. lines \in Seq(U)
      OBVIOUS
    <3> HIDE DEF U
    <3>3. ls \in Seq(U) /\ l \in U /\ First(n + 1) = Append(ls, l)
      BY <3>1, <3>2, Beginning
    <3> QED BY <3>1, <3>3 DEF U
  <2>2. ls \in Seq(Seq(T)) /\ l \in Seq(T)
    BY <1>1, <2>1, SeqMonotonic
  <2>3. SplitLines(bytes) = [lines |-> ls, last |-> <<>>]
    BY <1>3
  <2> HIDE DEF ls, l, First
  <2>4. bytes \in Seq(T) /\ Terminated(Append(ls, l)) = bytes \o Append(l, Newline)
    BY <2>2, TerminatedMore
  <2> HIDE DEF bytes
  <2>5. SplitLines(bytes \o l) = [lines |-> ls, last |-> l]
    <3>1. SplitLines(bytes).last = <<>> /\ SplitLines(bytes).lines = ls
      BY <2>3
    <3> QED BY <2>1, <2>4, <3>1, SplitRest, ZenonT(60)
  <2>6. bytes \o Append(l, Newline) = Append(bytes \o l, Newline) /\ bytes \o l \in Seq(T)
    BY SMTT(60), <2>2, <2>4, AppendToBoth, ConcatProperties
  <2>7. SplitLines(Append(bytes \o l, Newline)) = SplitOn(SplitLines(bytes \o l), Newline)
    BY <2>6, SplitMore
  <2>8. SplitOn([lines |-> ls, last |-> l], Newline) = [lines |-> Append(ls, l), last |-> <<>>]
    BY DEF SplitOn
  <2> HIDE DEF N
  <2>9. SplitLines(Terminated(First(n + 1))) = [lines |-> First(n + 1), last |-> <<>>]
    BY <2>1, <2>4, <2>5, <2>6, <2>7, <2>8
  <2> QED BY <2>1, <2>9
<1> HIDE DEF S
<1>4. 0..N \subseteq S
  BY <1>1, <1>2, <1>3, NatSteps
<1>5. N \in S /\ First(N) = lines
  BY <1>1, <1>4, SubSeqFull
<1>6. SplitLines(Terminated(lines)) = [lines |-> lines, last |-> <<>>]
  <2> HIDE DEF First, N
  <2> QED BY <1>5 DEF S
<1>7. Terminated(lines) \in Seq(T)
  <2>1. <<>> \in Seq(T)
    BY EmptySeq
  <2> QED BY <1>1, <2>1, TerminatedMore
<1>8. SplitLines(Terminated(lines)).last = <<>> /\ SplitLines(Terminated(lines)).lines = lines
  BY <1>6
<1> QED BY <1>7, <1>8, SplitRest

\* What the cut of printed lines after m bytes leaves: k lines and the beginning x of
\* the next.
LinesUpTo(lines, m, k, x, T) ==
  /\ k \in 0..Len(lines) /\ x \in Seq(T)
  /\ SubSeq(Terminated(lines), 1, m) = Terminated(SubSeq(lines, 1, k)) \o x
  /\ Len(Terminated(SubSeq(lines, 1, k))) <= m
  /\ k < Len(lines) => m < Len(Terminated(SubSeq(lines, 1, k + 1)))
  /\ k = Len(lines) => x = <<>>

\* One line more, cut.
LEMMA CutMore ==
  ASSUME NEW T, NEW L, L \subseteq T, Newline \in T,
         NEW lines \in Seq(Seq(L)), NEW l \in Seq(L),
         \A m \in 0..Len(Terminated(lines)) : \E k, x : LinesUpTo(lines, m, k, x, L),
         NEW m \in 0..Len(Terminated(Append(lines, l)))
  PROVE  \E k, x : LinesUpTo(Append(lines, l), m, k, x, L)
<1> DEFINE N == Len(lines)
           more == Append(lines, l)
           A == Terminated(lines)
           B == Append(l, Newline)
<1>1. Seq(L) \subseteq Seq(T)
  BY SeqMonotonic
<1>2. lines \in Seq(Seq(T)) /\ l \in Seq(T) /\ more \in Seq(Seq(L)) /\ more \in Seq(Seq(T))
  BY <1>1, SeqMonotonic, AppendProperties
<1>3. A \in Seq(T) /\ B \in Seq(T) /\ Terminated(more) = A \o B /\ Terminated(<<>>) = <<>>
  BY <1>2, TerminatedMore, AppendProperties
<1>4. N \in Nat /\ Len(A) \in Nat /\ Len(l) \in Nat /\ Len(B) = Len(l) + 1
  BY <1>2, <1>3, LenProperties, AppendProperties
<1>5. Len(A \o B) = Len(A) + Len(B)
  BY <1>3, ConcatProperties
<1>6. Len(more) = N + 1 /\ SubSeq(more, 1, N + 1) = more /\ SubSeq(more, 1, N) = lines
  <2>1. Len(more) = N + 1
    BY AppendProperties
  <2>2. SubSeq(more, 1, N + 1) = more
    BY <1>2, <2>1, SubSeqFull
  <2>3. SubSeq(more, 1, N) = lines
    BY FirstOfAppend, <1>4, SubSeqFull
  <2> QED BY <2>1, <2>2, <2>3
<1>7. \A k \in 0..N : SubSeq(more, 1, k) = SubSeq(lines, 1, k)
  BY FirstOfAppend
<1> HIDE DEF more, A, B, N
<1>8. m \in 0..(Len(A) + Len(B)) /\ m \in Nat
  BY <1>3, <1>4, <1>5 DEF more
<1>9. CASE m <= Len(A)
  <2>1. m \in 0..Len(A)
    BY <1>4, <1>8, <1>9
  <2>2. PICK k, x : LinesUpTo(lines, m, k, x, L)
    BY <2>1 DEF A
  <2>3. SubSeq(A \o B, 1, m) = SubSeq(A, 1, m)
    BY <1>3, <1>8, <1>9, BeginningOfBoth
  <2>4. k \in 0..N /\ k \in 0..(N + 1) /\ k < N + 1
    BY <1>4, <2>2 DEF LinesUpTo, N
  <2>5. SubSeq(Terminated(more), 1, m) = Terminated(SubSeq(more, 1, k)) \o x
    BY <1>3, <1>7, <2>2, <2>3, <2>4 DEF LinesUpTo, A
  <2>6. Len(Terminated(SubSeq(more, 1, k))) <= m
    BY <1>7, <2>2, <2>4 DEF LinesUpTo
  <2>7. m < Len(Terminated(SubSeq(more, 1, k + 1)))
    <3>1. CASE k = N
      <4>1. m < Len(A \o B)
        BY <1>4, <1>5, <1>8, <1>9
      <4> QED BY <1>3, <1>6, <3>1, <4>1
    <3>2. CASE k < N
      <4>1. k + 1 \in 0..N
        BY <1>4, <2>4, <3>2
      <4> QED BY <1>7, <2>2, <3>2, <4>1 DEF LinesUpTo, N
    <3> QED BY <1>4, <2>4, <3>1, <3>2
  <2>8. x \in Seq(L) /\ k # N + 1
    BY <1>4, <2>2, <2>4 DEF LinesUpTo
  <2>9. LinesUpTo(more, m, k, x, L)
    BY <1>6, <2>4, <2>5, <2>6, <2>7, <2>8 DEF LinesUpTo
  <2> QED BY <2>9 DEF more
<1>10. CASE m > Len(A) /\ m < Len(A) + Len(B)
  <2> DEFINE x == SubSeq(l, 1, m - Len(A))
  <2>1. m - Len(A) \in 0..Len(l) /\ m - Len(A) \in 0..Len(B)
    BY <1>4, <1>8, <1>10
  <2>2. x \in Seq(L)
    BY <2>1, Beginning
  <2>3. SubSeq(A \o B, 1, m) = A \o SubSeq(B, 1, m - Len(A))
    <3>1. m >= Len(A)
      BY <1>4, <1>8, <1>10
    <3> QED BY <1>3, <1>8, <3>1, BeginningOfBoth
  <2>4. SubSeq(B, 1, m - Len(A)) = x
    BY <1>2, <2>1, FirstOfAppend DEF B
  <2> HIDE DEF x
  <2>5. N \in 0..(N + 1) /\ N < N + 1 /\ N # N + 1
    BY <1>4
  <2>6. SubSeq(Terminated(more), 1, m) = Terminated(SubSeq(more, 1, N)) \o x
    BY <1>3, <1>6, <2>3, <2>4 DEF A
  <2>7. Len(Terminated(SubSeq(more, 1, N))) <= m
    <3>1. Len(A) <= m
      BY <1>4, <1>8, <1>10
    <3> QED BY <1>6, <3>1 DEF A
  <2>8. m < Len(Terminated(SubSeq(more, 1, N + 1)))
    BY <1>3, <1>5, <1>6, <1>10
  <2>9. LinesUpTo(more, m, N, x, L)
    BY <1>6, <2>2, <2>5, <2>6, <2>7, <2>8 DEF LinesUpTo
  <2> QED BY <2>9 DEF more
<1>11. CASE m = Len(A) + Len(B)
  <2>1. SubSeq(Terminated(more), 1, m) = Terminated(more)
    <3>1. Terminated(more) \in Seq(T) /\ m = Len(Terminated(more))
      BY <1>3, <1>5, <1>11, ConcatProperties
    <3> QED BY <3>1, SubSeqFull
  <2>2. Terminated(more) \o <<>> = Terminated(more) /\ <<>> \in Seq(L)
    BY <1>3, ConcatProperties, ConcatEmptySeq, EmptySeq
  <2>3. N + 1 \in 0..(N + 1) /\ ~(N + 1 < N + 1)
    BY <1>4
  <2>4. Len(Terminated(SubSeq(more, 1, N + 1))) <= m
    <3>1. Len(Terminated(more)) = m /\ m <= m
      BY <1>3, <1>5, <1>8, <1>11
    <3> QED BY <1>6, <3>1
  <2>5. LinesUpTo(more, m, N + 1, <<>>, L)
    BY <1>6, <2>1, <2>2, <2>3, <2>4 DEF LinesUpTo
  <2> QED BY <2>5 DEF more
<1> QED BY <1>4, <1>8, <1>9, <1>10, <1>11

\* So wherever printed lines are cut, whole lines and the beginning of one are left.
LEMMA CutLines ==
  ASSUME NEW T, NEW L, L \subseteq T, Newline \in T, NEW lines \in Seq(Seq(L)),
         NEW m \in 0..Len(Terminated(lines))
  PROVE  \E k, x : LinesUpTo(lines, m, k, x, L)
<1> DEFINE N == Len(lines)
           First(n) == SubSeq(lines, 1, n)
           S == {n \in 0..N : \A j \in 0..Len(Terminated(First(n))) :
                                \E k, x : LinesUpTo(First(n), j, k, x, L)}
<1>1. N \in Nat /\ <<>> \in Seq(T) /\ <<>> \in Seq(L)
  BY LenProperties, EmptySeq
<1>2. 0 \in S
  <2>1. First(0) = <<>> /\ Len(<<>>) = 0
    BY SubSeqEmpty
  <2>2. Terminated(<<>>) = <<>>
    <3>1. <<>> \in Seq(Seq(T))
      BY EmptySeq
    <3> QED BY <1>1, <3>1, TerminatedMore
  <2>3. SubSeq(<<>>, 1, 0) = <<>> /\ <<>> \o <<>> = <<>>
    BY SubSeqEmpty, <1>1, ConcatEmptySeq
  <2>4. LinesUpTo(<<>>, 0, 0, <<>>, L)
    <3>1. SubSeq(Terminated(<<>>), 1, 0) = Terminated(SubSeq(<<>>, 1, 0)) \o <<>>
      BY <2>2, <2>3, Zenon
    <3>2. Len(Terminated(SubSeq(<<>>, 1, 0))) <= 0
      <4>1. Len(Terminated(SubSeq(<<>>, 1, 0))) = 0
        BY <2>1, <2>2, <2>3, Zenon
      <4> QED BY <4>1
    <3>3. 0 \in 0..Len(<<>>) /\ ~(0 < Len(<<>>))
      BY <2>1
    <3> QED BY <1>1, <3>1, <3>2, <3>3, Zenon DEF LinesUpTo
  <2>5. 0 \in 0..N
    BY <1>1
  <2> HIDE DEF First, N
  <2>6. \A j \in 0..Len(Terminated(First(0))) : \E k, x : LinesUpTo(First(0), j, k, x, L)
    <3>1. \A j \in 0..Len(Terminated(First(0))) : j = 0
      BY <2>1, <2>2
    <3> QED BY <2>1, <2>4, <3>1
  <2> QED BY <2>5, <2>6
<1>3. ASSUME NEW n \in 0..(N - 1), n \in S PROVE n + 1 \in S
  <2> DEFINE ls == First(n)
             l == lines[n + 1]
  <2>1. ls \in Seq(Seq(L)) /\ l \in Seq(L) /\ First(n + 1) = Append(ls, l) /\ n + 1 \in 0..N
    BY <1>1, Beginning
  <2>2. \A j \in 0..Len(Terminated(ls)) : \E k, x : LinesUpTo(ls, j, k, x, L)
    BY <1>3
  <2> HIDE DEF ls, l, First, N
  <2>3. ASSUME NEW j \in 0..Len(Terminated(Append(ls, l)))
        PROVE  \E k, x : LinesUpTo(Append(ls, l), j, k, x, L)
    BY <2>1, <2>2, CutMore
  <2>4. \A j \in 0..Len(Terminated(First(n + 1))) : \E k, x : LinesUpTo(First(n + 1), j, k, x, L)
    BY <2>1, <2>3
  <2> QED BY <2>1, <2>4
<1> HIDE DEF S
<1>4. 0..N \subseteq S
  BY <1>1, <1>2, <1>3, NatSteps
<1>5. N \in S /\ First(N) = lines
  BY <1>1, <1>4, SubSeqFull
<1> HIDE DEF First, N
<1> QED BY <1>5 DEF S

\* More lines are not shorter.
LEMMA PrintedGrows ==
  ASSUME NEW T, Newline \in T, NEW lines \in Seq(Seq(T)),
         NEW j \in 0..Len(lines), NEW k \in j..Len(lines)
  PROVE  /\ Len(Terminated(SubSeq(lines, 1, j))) \in Nat
         /\ Len(Terminated(SubSeq(lines, 1, j))) <= Len(Terminated(SubSeq(lines, 1, k)))
<1> DEFINE N == Len(lines)
           Size(n) == Len(Terminated(SubSeq(lines, 1, n)))
           S == {n \in 0..(N - j) : Size(j) <= Size(j + n)}
<1>1. N \in Nat /\ j \in Nat /\ k \in Nat
  BY LenProperties
<1>2. ASSUME NEW n \in 0..N
      PROVE  Size(n) \in Nat /\ (n < N => Size(n) <= Size(n + 1) /\ Size(n + 1) \in Nat)
  <2> DEFINE ls == SubSeq(lines, 1, n)
             l == lines[n + 1]
  <2>1. ls \in Seq(Seq(T)) /\ (n < N => SubSeq(lines, 1, n + 1) = Append(ls, l) /\ l \in Seq(T))
    BY Beginning
  <2> HIDE DEF ls, l
  <2>2. Terminated(ls) \in Seq(T)
    <3>1. <<>> \in Seq(T)
      BY EmptySeq
    <3> QED BY <2>1, <3>1, TerminatedMore
  <2>3. Len(Terminated(ls)) \in Nat
    BY <2>2, LenProperties
  <2>4. ASSUME n < N PROVE /\ Len(Terminated(Append(ls, l))) \in Nat
                           /\ Len(Terminated(ls)) <= Len(Terminated(Append(ls, l)))
    <3>1. l \in Seq(T) /\ Append(l, Newline) \in Seq(T)
      BY <2>1, <2>4, AppendProperties
    <3>2. Terminated(Append(ls, l)) = Terminated(ls) \o Append(l, Newline)
      BY <2>1, <3>1, TerminatedMore
    <3>3. Len(Terminated(Append(ls, l))) = Len(Terminated(ls)) + Len(Append(l, Newline))
      BY <2>2, <3>1, <3>2, ConcatProperties
    <3>4. Len(Append(l, Newline)) \in Nat
      BY <3>1, LenProperties
    <3> QED BY <2>3, <3>3, <3>4
  <2> QED BY <2>1, <2>3, <2>4 DEF ls
<1> HIDE DEF Size
<1>3. 0 \in S
  BY <1>1, <1>2
<1>4. ASSUME NEW n \in 0..((N - j) - 1), n \in S PROVE n + 1 \in S
  <2>1. j + n \in 0..N /\ j + n < N /\ (j + n) + 1 = j + (n + 1) /\ n + 1 \in 0..(N - j)
    BY <1>1
  <2>2. Size(j) <= Size(j + n) /\ Size(j + n) <= Size(j + (n + 1)) /\ Size(j) \in Nat
        /\ Size(j + n) \in Nat /\ Size(j + (n + 1)) \in Nat
    BY <1>2, <1>4, <2>1
  <2> QED BY <2>1, <2>2
<1> HIDE DEF S
<1>5. 0..(N - j) \subseteq S
  <2>1. N - j \in Nat
    BY <1>1
  <2> HIDE DEF N
  <2> QED BY <1>3, <1>4, <2>1, NatSteps
<1>6. k - j \in S /\ j + (k - j) = k
  BY <1>1, <1>5
<1>7. Size(j) <= Size(k)
  BY <1>6 DEF S
<1> QED BY <1>2, <1>7 DEF Size

\* A beginning of a beginning is one.
LEMMA BeginningTwice ==
  ASSUME NEW T, NEW s \in Seq(T), NEW n \in 0..Len(s), NEW m \in 0..n
  PROVE  SubSeq(SubSeq(s, 1, n), 1, m) = SubSeq(s, 1, m)
<1> DEFINE a == SubSeq(s, 1, n)
           b == SubSeq(a, 1, m)
           c == SubSeq(s, 1, m)
<1>1. m \in 0..Len(s) /\ \A k \in 1..m : k \in 1..n
  BY LenProperties
<1>2. a \in Seq(T) /\ Len(a) = n /\ \A k \in 1..n : a[k] = s[k]
  BY Beginning
<1>3. c \in Seq(T) /\ Len(c) = m /\ \A k \in 1..m : c[k] = s[k]
  BY <1>1, Beginning
<1> HIDE DEF a, c
<1>4. b \in Seq(T) /\ Len(b) = m /\ \A k \in 1..m : b[k] = a[k]
  BY <1>2, Beginning
<1> HIDE DEF b
<1>5. b = c
  BY <1>1, <1>2, <1>3, <1>4, SeqEqual
<1> QED BY <1>5 DEF a, b, c

\* The prefixes of a sequence are its beginnings.
LEMMA PrefixIs ==
  ASSUME NEW T, NEW s \in Seq(T)
  PROVE  /\ \A n \in 0..Len(s) : IsPrefix(SubSeq(s, 1, n), s)
         /\ \A a \in Seq(T) : IsPrefix(a, s) => Len(a) \in 0..Len(s) /\ a = SubSeq(s, 1, Len(a))
<1>1. ASSUME NEW n \in 0..Len(s) PROVE IsPrefix(SubSeq(s, 1, n), s)
  <2>1. Len(SubSeq(s, 1, n)) = n /\ Len(s) \in Nat
    BY Beginning, LenProperties
  <2>2. SubSeq(SubSeq(s, 1, n), 1, n) = SubSeq(s, 1, n)
    <3>1. n \in 0..n
      BY <2>1
    <3> QED BY <3>1, BeginningTwice
  <2> QED BY <2>1, <2>2 DEF IsPrefix
<1>2. ASSUME NEW a \in Seq(T), IsPrefix(a, s)
      PROVE  Len(a) \in 0..Len(s) /\ a = SubSeq(s, 1, Len(a))
  <2>1. SubSeq(a, 1, Len(a)) = a /\ Len(a) \in Nat /\ Len(s) \in Nat
    BY SubSeqFull, LenProperties
  <2> QED BY <1>2, <2>1 DEF IsPrefix
<1> QED BY <1>1, <1>2

\* A prefix of a prefix is one.
LEMMA PrefixTwice ==
  ASSUME NEW T, NEW a \in Seq(T), NEW b \in Seq(T), NEW s \in Seq(T), IsPrefix(a, b), IsPrefix(b, s)
  PROVE  IsPrefix(a, s)
<1>1. Len(b) \in 0..Len(s) /\ b = SubSeq(s, 1, Len(b)) /\ Len(a) \in 0..Len(b)
      /\ a = SubSeq(b, 1, Len(a))
  BY PrefixIs
<1>2. SubSeq(SubSeq(s, 1, Len(b)), 1, Len(a)) = SubSeq(s, 1, Len(a))
  BY <1>1, BeginningTwice
<1>3. Len(a) \in 0..Len(s)
  BY <1>1, LenProperties
<1>4. a = SubSeq(s, 1, Len(a))
  BY <1>1, <1>2
<1>5. IsPrefix(SubSeq(s, 1, Len(a)), s)
  BY <1>3, PrefixIs
<1> QED BY <1>4, <1>5

\* The first n of a sequence are a beginning of it.
LEMMA FirstNIs ==
  ASSUME NEW T, NEW s \in Seq(T), NEW n \in Int
  PROVE  /\ FirstN(s, n) \in Seq(T) /\ IsPrefix(FirstN(s, n), s)
         /\ n >= 0 => Len(FirstN(s, n)) = IF Len(s) < n THEN Len(s) ELSE n
         /\ n <= Len(s) => FirstN(s, n) = SubSeq(s, 1, n)
         /\ n >= Len(s) => FirstN(s, n) = s
         /\ FirstN(s, 0) = <<>>
<1>1. Len(s) \in Nat /\ SubSeq(s, 1, Len(s)) = s /\ SubSeq(s, 1, 0) = <<>>
  BY LenProperties, SubSeqFull, SubSeqEmpty
<1>2. CASE n < 0
  <2>1. FirstN(s, n) = SubSeq(s, 1, n) /\ SubSeq(s, 1, n) = <<>>
    <3>1. ~(Len(s) < n) /\ n < 1 /\ 1 \in Int
      BY <1>1, <1>2
    <3> QED BY <3>1, SubSeqEmpty DEF FirstN
  <2>2. 0 \in 0..Len(s) /\ ~(Len(s) < 0) /\ ~(n >= 0) /\ ~(n >= Len(s))
    BY <1>1, <1>2
  <2>3. FirstN(s, 0) = <<>>
    BY <1>1, <2>2 DEF FirstN
  <2>4. IsPrefix(<<>>, s)
    BY <1>1, <2>2, PrefixIs
  <2> QED BY <2>1, <2>2, <2>3, <2>4, EmptySeq
<1>3. CASE n >= 0 /\ n <= Len(s)
  <2>1. n \in 0..Len(s) /\ ~(Len(s) < n) /\ ~(Len(s) < 0)
    BY <1>1, <1>3
  <2>2. FirstN(s, n) = SubSeq(s, 1, n) /\ FirstN(s, 0) = <<>>
    BY <1>1, <2>1 DEF FirstN
  <2>3. SubSeq(s, 1, n) \in Seq(T) /\ Len(SubSeq(s, 1, n)) = n /\ IsPrefix(SubSeq(s, 1, n), s)
    BY SMTT(60), <2>1, Beginning, PrefixIs
  <2>4. n >= Len(s) => FirstN(s, n) = s
    <3>1. n >= Len(s) => n = Len(s)
      <4> DEFINE N == Len(s)
      <4>1. N \in Nat /\ n \in 0..N
        BY <1>1, <2>1
      <4> HIDE DEF N
      <4>2. n >= N => n = N
        BY SMTT(60), <4>1
      <4> QED BY <4>2 DEF N
    <3> QED BY <1>1, <2>2, <3>1
  <2> QED BY <2>1, <2>2, <2>3, <2>4
<1>4. CASE n > Len(s)
  <2>1. Len(s) \in 0..Len(s) /\ Len(s) < n /\ ~(Len(s) < 0) /\ ~(n <= Len(s))
    BY <1>1, <1>4
  <2>2. FirstN(s, n) = s /\ FirstN(s, 0) = <<>>
    BY <1>1, <2>1 DEF FirstN
  <2>3. IsPrefix(SubSeq(s, 1, Len(s)), s)
    BY <2>1, PrefixIs
  <2> QED BY ZenonT(60), <1>1, <2>1, <2>2, <2>3
<1> QED BY <1>1, <1>2, <1>3, <1>4

\* What is kept of the first lines is kept first.
LEMMA SiftedGrows ==
  ASSUME NEW T, NEW lines \in Seq(T), NEW k \in 0..Len(lines), NEW good
  PROVE  IsPrefix(Sifted(SubSeq(lines, 1, k), good), Sifted(lines, good))
<1> DEFINE N == Len(lines)
           Upon(n) == Sifted(SubSeq(lines, 1, n), good)
           S == {n \in 0..(N - k) : IsPrefix(Upon(k), Upon(k + n))}
<1>1. N \in Nat /\ k \in Nat /\ SubSeq(lines, 1, N) = lines
  BY LenProperties, SubSeqFull
<1>2. ASSUME NEW n \in 0..N
      PROVE  /\ Upon(n) \in Seq(T) /\ IsPrefix(Upon(n), Upon(n))
             /\ n < N => Upon(n + 1) \in Seq(T) /\ IsPrefix(Upon(n), Upon(n + 1))
  <2> DEFINE ls == SubSeq(lines, 1, n)
             l == lines[n + 1]
             sifted == Sifted(ls, good)
  <2>1. ls \in Seq(T) /\ (n < N => l \in T /\ SubSeq(lines, 1, n + 1) = Append(ls, l))
    BY Beginning
  <2> HIDE DEF ls, l
  <2>2. sifted \in Seq(T)
    BY <2>1, SiftedTyped
  <2>3. IsPrefix(sifted, sifted)
    <3>1. Len(sifted) \in 0..Len(sifted) /\ SubSeq(sifted, 1, Len(sifted)) = sifted
      BY <2>2, LenProperties, SubSeqFull
    <3> QED BY <2>2, <3>1, PrefixIs
  <2>4. ASSUME n < N
        PROVE  Sifted(Append(ls, l), good) \in Seq(T) /\ IsPrefix(sifted, Sifted(Append(ls, l), good))
    <3>1. Sifted(Append(ls, l), good) = IF l \in good THEN Append(sifted, l) ELSE sifted
      BY <2>1, <2>4, SiftedMore
    <3>2. Append(sifted, l) \in Seq(T) /\ Len(Append(sifted, l)) = Len(sifted) + 1 /\ Len(sifted) \in Nat
      BY <2>1, <2>2, <2>4, AppendProperties, LenProperties
    <3>3. SubSeq(Append(sifted, l), 1, Len(sifted)) = sifted
      <4>1. Len(sifted) \in 0..Len(sifted)
        BY <3>2
      <4> QED BY <2>1, <2>2, <2>4, <4>1, FirstOfAppend, SubSeqFull
    <3>4. IsPrefix(sifted, Append(sifted, l))
      <4>1. Len(sifted) \in 0..Len(Append(sifted, l))
        BY <3>2
      <4>2. IsPrefix(SubSeq(Append(sifted, l), 1, Len(sifted)), Append(sifted, l))
        BY <3>2, <4>1, PrefixIs
      <4> QED BY <3>3, <4>2
    <3> QED BY <2>2, <2>3, <3>1, <3>2, <3>4
  <2> QED BY <2>1, <2>2, <2>3, <2>4 DEF ls
<1> HIDE DEF Upon
<1>3. 0 \in S
  BY <1>1, <1>2
<1>4. ASSUME NEW n \in 0..((N - k) - 1), n \in S PROVE n + 1 \in S
  <2>1. /\ k + n \in 0..N /\ k + n < N /\ (k + n) + 1 = k + (n + 1) /\ n + 1 \in 0..(N - k)
        /\ k \in 0..N
    BY <1>1
  <2>2. IsPrefix(Upon(k), Upon(k + n)) /\ IsPrefix(Upon(k + n), Upon(k + (n + 1)))
    BY <1>2, <1>4, <2>1
  <2>3. Upon(k) \in Seq(T) /\ Upon(k + n) \in Seq(T) /\ Upon(k + (n + 1)) \in Seq(T)
    BY <1>2, <2>1
  <2>4. IsPrefix(Upon(k), Upon(k + (n + 1)))
    BY <2>2, <2>3, PrefixTwice
  <2> QED BY <2>1, <2>4
<1> HIDE DEF S
<1>5. 0..(N - k) \subseteq S
  <2>1. N - k \in Nat
    BY <1>1
  <2> HIDE DEF N
  <2> QED BY <1>3, <1>4, <2>1, NatSteps
<1>6. N - k \in S /\ k + (N - k) = N
  BY <1>1, <1>5
<1>7. IsPrefix(Upon(k), Upon(N))
  BY <1>6 DEF S
<1> QED BY <1>1, <1>7 DEF Upon

\* A function on 1..n is a sequence.
LEMMA SequenceIs ==
  ASSUME NEW n \in Nat, NEW T, NEW f \in [1..n -> T]
  PROVE  f \in Seq(T) /\ Len(f) = n
OBVIOUS

\* What the entries of lines may be.
EntrySet == {Entry(l) : l \in Seq(ByteKinds)}

\* The entries of the first lines come first.
LEMMA EntriesGrow ==
  ASSUME NEW lines \in Seq(Seq(ByteKinds)), NEW k \in 0..Len(lines)
  PROVE  IsPrefix(Entries(SubSeq(lines, 1, k)), Entries(lines))
<1> DEFINE a == Sifted(SubSeq(lines, 1, k), RecencyLines)
           b == Sifted(lines, RecencyLines)
           T == Seq(ByteKinds)
           m == Len(FirstN(a, MaxRecency))
           n == Len(FirstN(b, MaxRecency))
           ea == Entries(SubSeq(lines, 1, k))
           eb == Entries(lines)
<1>1. a \in Seq(T) /\ b \in Seq(T) /\ IsPrefix(a, b)
  <2>1. SubSeq(lines, 1, k) \in Seq(T)
    BY Beginning
  <2> HIDE DEF T
  <2>2. lines \in Seq(T)
    BY DEF T
  <2> QED BY <2>1, <2>2, SiftedTyped, SiftedGrows
<1>2. ea = [i \in DOMAIN FirstN(a, MaxRecency) |-> Entry(a[i])]
  BY DEF Entries
<1>3. eb = [i \in DOMAIN FirstN(b, MaxRecency) |-> Entry(b[i])]
  BY DEF Entries
<1> HIDE DEF a, b, T, ea, eb
<1>4. /\ FirstN(a, MaxRecency) \in Seq(T) /\ m = IF Len(a) < MaxRecency THEN Len(a) ELSE MaxRecency
      /\ FirstN(b, MaxRecency) \in Seq(T) /\ n = IF Len(b) < MaxRecency THEN Len(b) ELSE MaxRecency
  <2>1. MaxRecency \in Int /\ MaxRecency >= 0
    BY IntakeAssumption
  <2> QED BY <1>1, <2>1, FirstNIs
<1>5. DOMAIN FirstN(a, MaxRecency) = 1..m /\ DOMAIN FirstN(b, MaxRecency) = 1..n
  BY <1>4, LenProperties
<1>6. Len(a) \in 0..Len(b) /\ a = SubSeq(b, 1, Len(a)) /\ Len(b) \in Nat
  BY <1>1, PrefixIs, LenProperties
<1> HIDE DEF m, n
<1>7. m \in 0..n /\ m <= Len(a) /\ n <= Len(b) /\ n \in Nat /\ m \in Nat
  <2>1. MaxRecency \in Nat
    BY IntakeAssumption
  <2> DEFINE A == Len(a)
             B == Len(b)
  <2>2. /\ A \in Nat /\ B \in Nat /\ A <= B /\ m = IF A < MaxRecency THEN A ELSE MaxRecency
        /\ n = IF B < MaxRecency THEN B ELSE MaxRecency
    BY <1>4, <1>6
  <2> HIDE DEF A, B
  <2>3. m \in 0..n /\ m <= A /\ n <= B /\ n \in Nat /\ m \in Nat
    BY <2>1, <2>2
  <2> QED BY <2>3 DEF A, B
<1>8. \A i \in 1..m : a[i] = b[i]
  <2>1. \A i \in 1..Len(a) : SubSeq(b, 1, Len(a))[i] = b[i]
    BY <1>1, <1>6, Beginning
  <2>2. \A i \in 1..m : i \in 1..Len(a)
    BY <1>6, <1>7
  <2> QED BY <1>6, <2>1, <2>2
<1>9. ea \in Seq(EntrySet) /\ Len(ea) = m /\ \A i \in 1..m : ea[i] = Entry(a[i])
  <2>1. \A i \in 1..m : i \in 1..Len(a)
    BY <1>6, <1>7
  <2>2. \A i \in 1..m : a[i] \in T
    BY <1>1, <2>1, ElementOfSeq
  <2>3. \A i \in 1..m : Entry(a[i]) \in EntrySet
    BY <2>2 DEF EntrySet, T
  <2>4. ea \in [1..m -> EntrySet] /\ \A i \in 1..m : ea[i] = Entry(a[i])
    BY <1>2, <1>5, <2>3
  <2> QED BY <1>7, <2>4, SequenceIs
<1>10. eb \in Seq(EntrySet) /\ Len(eb) = n /\ \A i \in 1..n : eb[i] = Entry(b[i])
  <2>1. \A i \in 1..n : i \in 1..Len(b)
    BY <1>6, <1>7
  <2>2. \A i \in 1..n : b[i] \in T
    BY <1>1, <2>1, ElementOfSeq
  <2>3. \A i \in 1..n : Entry(b[i]) \in EntrySet
    BY <2>2 DEF EntrySet, T
  <2>4. eb \in [1..n -> EntrySet] /\ \A i \in 1..n : eb[i] = Entry(b[i])
    BY <1>3, <1>5, <2>3
  <2> QED BY <1>7, <2>4, SequenceIs
<1>11. ea = SubSeq(eb, 1, m)
  <2>1. /\ SubSeq(eb, 1, m) \in Seq(EntrySet) /\ Len(SubSeq(eb, 1, m)) = m
        /\ \A i \in 1..m : SubSeq(eb, 1, m)[i] = eb[i]
    BY <1>7, <1>10, Beginning
  <2>2. \A i \in 1..m : i \in 1..n
    BY <1>7
  <2>3. \A i \in 1..m : ea[i] = SubSeq(eb, 1, m)[i]
    BY <1>8, <1>9, <1>10, <2>1, <2>2
  <2> QED BY <1>9, <2>1, <2>3, SeqEqual
<1>12. IsPrefix(SubSeq(eb, 1, m), eb)
  BY <1>7, <1>10, PrefixIs
<1> QED BY <1>11, <1>12 DEF ea, eb

-----------------------------------------------------------------------------
(* Text and separators *)

\* Valid text that is cut is valid, or becomes it without a last lead byte.
LEMMA CutText ==
  ASSUME NEW T, NEW s \in Seq(T), Utf8(s), NEW n \in 1..Len(s)
  PROVE  LET c == SubSeq(s, 1, n)
         IN  (c[n] = "lead" /\ Utf8(SubSeq(c, 1, n - 1))) \/ Utf8(c)
<1> DEFINE c == SubSeq(s, 1, n)
           d == SubSeq(c, 1, n - 1)
<1>1. n \in 0..Len(s) /\ Len(s) \in Nat /\ n - 1 \in 0..n
  BY LenProperties
<1>2. c \in Seq(T) /\ Len(c) = n /\ \A k \in 1..n : c[k] = s[k]
  BY <1>1, Beginning
<1> HIDE DEF c
<1>3. d \in Seq(T) /\ Len(d) = n - 1 /\ \A k \in 1..(n - 1) : d[k] = c[k]
  BY <1>1, <1>2, Beginning
<1> HIDE DEF d
<1>4. DOMAIN s = 1..Len(s) /\ DOMAIN c = 1..n /\ DOMAIN d = 1..(n - 1)
  BY <1>2, <1>3, LenProperties
<1>5. \A k \in 1..Len(s) : /\ s[k] # "bad"
                           /\ s[k] = "lead" => k < Len(s) /\ s[k + 1] = "cont"
                           /\ s[k] = "cont" => k > 1 /\ s[k - 1] = "lead"
  BY <1>4 DEF Utf8
<1>6. CASE c[n] = "lead"
  <2>1. ASSUME NEW k \in 1..(n - 1)
        PROVE  /\ d[k] # "bad"
               /\ d[k] = "lead" => k < n - 1 /\ d[k + 1] = "cont"
               /\ d[k] = "cont" => k > 1 /\ d[k - 1] = "lead"
    <3>1. k \in 1..Len(s) /\ k \in 1..n /\ n \in 1..n
      BY <1>1
    <3>2. d[k] = s[k] /\ s[n] = "lead"
      BY <1>2, <1>3, <1>6, <3>1
    <3>3. ASSUME d[k] = "lead" PROVE k < n - 1 /\ d[k + 1] = "cont"
      <4>1. s[k + 1] = "cont"
        BY <1>5, <3>1, <3>2, <3>3
      <4>2. k + 1 # n
        BY <3>2, <4>1
      <4>3. k < n - 1 /\ k + 1 \in 1..(n - 1) /\ k + 1 \in 1..n
        BY <1>1, <4>2
      <4> QED BY <1>2, <1>3, <4>1, <4>3
    <3>4. ASSUME d[k] = "cont" PROVE k > 1 /\ d[k - 1] = "lead"
      <4>1. k > 1 /\ s[k - 1] = "lead"
        BY <1>5, <3>1, <3>2, <3>4
      <4>2. k - 1 \in 1..(n - 1) /\ k - 1 \in 1..n
        BY <1>1, <4>1
      <4> QED BY <1>2, <1>3, <4>1, <4>2
    <3> QED BY <1>5, <3>1, <3>2, <3>3, <3>4
  <2>2. Utf8(d)
    BY <1>3, <1>4, <2>1 DEF Utf8
  <2> QED BY <1>6, <2>2 DEF c, d
<1>7. CASE c[n] # "lead"
  <2>1. ASSUME NEW k \in 1..n
        PROVE  /\ c[k] # "bad"
               /\ c[k] = "lead" => k < n /\ c[k + 1] = "cont"
               /\ c[k] = "cont" => k > 1 /\ c[k - 1] = "lead"
    <3>1. k \in 1..Len(s)
      BY <1>1
    <3>2. c[k] = s[k]
      BY <1>2
    <3>3. ASSUME c[k] = "lead" PROVE k < n /\ c[k + 1] = "cont"
      <4>1. s[k + 1] = "cont" /\ k # n
        BY <1>5, <1>7, <3>1, <3>2, <3>3
      <4>2. k < n /\ k + 1 \in 1..n
        BY <1>1, <4>1
      <4> QED BY <1>2, <4>1, <4>2
    <3>4. ASSUME c[k] = "cont" PROVE k > 1 /\ c[k - 1] = "lead"
      <4>1. k > 1 /\ s[k - 1] = "lead"
        BY <1>5, <3>1, <3>2, <3>4
      <4>2. k - 1 \in 1..n
        BY <1>1, <4>1
      <4> QED BY <1>2, <4>1, <4>2
    <3> QED BY <1>5, <3>1, <3>2, <3>3, <3>4
  <2>2. Utf8(c)
    BY <1>2, <1>4, <2>1 DEF Utf8
  <2> QED BY <2>2 DEF c
<1> QED BY <1>6, <1>7

\* The first NUL.
LEMMA NoNul ==
  ASSUME NEW T, NEW s \in Seq(T), Nul \notin T
  PROVE  NulAt(s) = 0
<1>1. \A k \in DOMAIN s : s[k] \in T
  BY LenProperties, ElementOfSeq
<1>2. {k \in DOMAIN s : s[k] = Nul} = {}
  BY <1>1
<1> QED BY <1>2 DEF NulAt

\* The first NUL of s is between a and b.
Apart(a, b, s) ==
  /\ Len(s) = Len(a) + 1 + Len(b) /\ NulAt(s) # 0
  /\ SubSeq(s, 1, NulAt(s) - 1) = a /\ SubSeq(s, NulAt(s) + 1, Len(s)) = b

\* Where there is a NUL after bytes without one.
LEMMA NulFound ==
  ASSUME NEW T, Nul \in T, NEW a \in Seq(T \ {Nul}), NEW b \in Seq(T)
  PROVE  a \o (<<Nul>> \o b) \in Seq(T) /\ Apart(a, b, a \o (<<Nul>> \o b))
<1> DEFINE t == <<Nul>> \o b
           s == a \o t
           U == T \ {Nul}
<1>1. a \in Seq(T) /\ Len(a) \in Nat /\ Len(b) \in Nat /\ <<Nul>> \in Seq(T)
  <2>1. a \in Seq(T)
    BY SeqMonotonic
  <2> QED BY <2>1, LenProperties
<1>2. /\ t \in Seq(T) /\ Len(t) = 1 + Len(b) /\ t[1] = Nul
      /\ \A i \in 1..Len(b) : t[i + 1] = b[i]
  <2>1. /\ t \in Seq(T) /\ Len(t) = Len(<<Nul>>) + Len(b)
        /\ \A i \in 1..(Len(<<Nul>>) + Len(b)) :
             t[i] = IF i <= Len(<<Nul>>) THEN <<Nul>>[i] ELSE b[i - Len(<<Nul>>)]
    BY <1>1, ConcatProperties
  <2>2. Len(<<Nul>>) = 1 /\ <<Nul>>[1] = Nul
    OBVIOUS
  <2> HIDE DEF t
  <2>3. Len(t) = 1 + Len(b) /\ \A i \in 1..(1 + Len(b)) : t[i] = IF i <= 1 THEN <<Nul>>[i] ELSE b[i - 1]
    BY <2>1, <2>2
  <2>4. t[1] = Nul
    BY <1>1, <2>2, <2>3
  <2>5. ASSUME NEW i \in 1..Len(b) PROVE t[i + 1] = b[i]
    <3>1. i + 1 \in 1..(1 + Len(b)) /\ ~(i + 1 <= 1) /\ (i + 1) - 1 = i
      BY <1>1
    <3> QED BY <2>3, <3>1
  <2> QED BY <2>1, <2>3, <2>4, <2>5
<1> HIDE DEF t
<1>3. /\ s \in Seq(T) /\ Len(s) = Len(a) + Len(t)
      /\ \A i \in 1..(Len(a) + Len(t)) : s[i] = IF i <= Len(a) THEN a[i] ELSE t[i - Len(a)]
  <2>1. a \in Seq(T) /\ t \in Seq(T)
    BY <1>1, <1>2
  <2> QED BY <2>1, ConcatProperties
<1> HIDE DEF s
<1>4. Len(s) = Len(a) + 1 + Len(b) /\ DOMAIN s = 1..Len(s)
  BY <1>1, <1>2, <1>3, LenProperties
<1>5. s[Len(a) + 1] = Nul
  <2>1. Len(a) + 1 \in 1..(Len(a) + Len(t)) /\ ~(Len(a) + 1 <= Len(a)) /\ (Len(a) + 1) - Len(a) = 1
    BY <1>1, <1>2
  <2> QED BY <1>2, <1>3, <2>1
<1>6. ASSUME NEW i \in 1..Len(a) PROVE s[i] # Nul
  <2>1. i \in 1..(Len(a) + Len(t)) /\ i <= Len(a)
    BY <1>1, <1>2
  <2>2. a[i] \in U
    BY ElementOfSeq
  <2> QED BY <1>3, <2>1, <2>2
<1>7. NulAt(s) = Len(a) + 1
  <2> DEFINE nuls == {k \in DOMAIN s : s[k] = Nul}
  <2>1. Len(a) + 1 \in nuls /\ nuls \in SUBSET Nat
    BY <1>1, <1>4, <1>5
  <2>2. \A k \in nuls : k >= Len(a) + 1
    BY <1>1, <1>4, <1>6
  <2>3. NulAt(s) = IF nuls = {} THEN 0 ELSE Min(nuls)
    BY DEF NulAt
  <2> HIDE DEF nuls
  <2>4. Min(nuls) \in nuls /\ Min(nuls) <= Len(a) + 1
    BY <2>1, MinProperties
  <2>5. Min(nuls) >= Len(a) + 1 /\ Min(nuls) \in Nat
    BY <2>1, <2>2, <2>4
  <2>6. Min(nuls) = Len(a) + 1
    BY <1>1, <2>4, <2>5
  <2> QED BY <2>1, <2>3, <2>6
<1>8. SubSeq(s, 1, Len(a)) = a
  <2>1. Len(a) \in 0..(Len(a) + Len(t)) /\ Len(a) <= Len(a)
    BY <1>1, <1>2
  <2>2. SubSeq(a \o t, 1, Len(a)) = SubSeq(a, 1, Len(a))
    BY <1>1, <1>2, <2>1, BeginningOfBoth
  <2> QED BY <1>1, <2>2, SubSeqFull DEF s
<1>9. SubSeq(s, Len(a) + 2, Len(s)) = b
  <2> DEFINE r == SubSeq(s, Len(a) + 2, Len(s))
  <2>1. \A i \in (Len(a) + 2)..Len(s) : s[i] \in T
    <3>1. \A i \in (Len(a) + 2)..Len(s) : i \in 1..Len(s)
      BY <1>1, <1>4
    <3> QED BY <1>3, <3>1, ElementOfSeq
  <2>2. Len(a) + 2 \in Int /\ Len(s) \in Int
    BY <1>1, <1>4
  <2>3. /\ r \in Seq(T) /\ Len(r) = IF Len(a) + 2 <= Len(s) THEN Len(s) - (Len(a) + 2) + 1 ELSE 0
        /\ \A i \in 1..(Len(s) - (Len(a) + 2) + 1) : r[i] = s[(Len(a) + 2) + i - 1]
    BY <2>1, <2>2, SubSeqProperties
  <2> HIDE DEF r
  <2>4. Len(r) = Len(b)
    BY <1>1, <1>4, <2>3
  <2>5. ASSUME NEW i \in 1..Len(b) PROVE r[i] = b[i]
    <3>1. i \in 1..(Len(s) - (Len(a) + 2) + 1) /\ (Len(a) + 2) + i - 1 = Len(a) + (i + 1)
      BY <1>1, <1>4
    <3>2. /\ Len(a) + (i + 1) \in 1..(Len(a) + Len(t)) /\ ~(Len(a) + (i + 1) <= Len(a))
          /\ (Len(a) + (i + 1)) - Len(a) = i + 1
      BY <1>1, <1>2
    <3>3. r[i] = s[Len(a) + (i + 1)]
      BY <2>3, <3>1
    <3>4. s[Len(a) + (i + 1)] = t[i + 1]
      BY <1>3, <3>2
    <3> QED BY <1>2, <3>3, <3>4
  <2>6. r = b
    BY <2>3, <2>4, <2>5, SeqEqual
  <2> QED BY <2>6 DEF r
<1>10. NulAt(s) # 0 /\ NulAt(s) - 1 = Len(a) /\ NulAt(s) + 1 = Len(a) + 2
  BY <1>1, <1>7
<1>11. Apart(a, b, s)
  BY <1>4, <1>8, <1>9, <1>10, Zenon DEF Apart
<1> QED BY <1>3, <1>11, Zenon DEF s, t

-----------------------------------------------------------------------------
(* Sections *)

\* The bytes of a section, and those of a line in it.
SectionBytes == ByteKinds \ {Nul}
LineBytes == ByteKinds \ {Nul, Newline}

\* An empty line is neither a name nor a recency line.
LEMMA EmptyLineIsNothing == <<>> \notin NameLines /\ <<>> \notin RecencyLines
<1>1. <<>> \notin NameLines
  BY DEF NameLines
<1>2. ~(Len(<<>>) >= 2)
  <2>1. Len(<<>>) = 0
    OBVIOUS
  <2> QED BY <2>1
<1>3. <<>> \notin RecencyLines
  BY <1>2 DEF RecencyLines, Parses
<1> QED BY <1>1, <1>3

\* Lines are sections and lines of the bytes there are.
LEMMA LinesTyped ==
  ASSUME NEW lines \in Seq(Seq(LineBytes))
  PROVE  /\ lines \in Seq(Seq(ByteKinds)) /\ lines \in Seq(Seq(SectionBytes))
         /\ Terminated(lines) \in Seq(SectionBytes) /\ Terminated(lines) \in Seq(ByteKinds)
         /\ Newline \in SectionBytes /\ Newline \in ByteKinds /\ Newline \notin LineBytes
         /\ LineBytes \subseteq ByteKinds
<1>1. /\ LineBytes \subseteq SectionBytes /\ SectionBytes \subseteq ByteKinds
      /\ Newline \in SectionBytes /\ Newline \in ByteKinds /\ Newline \notin LineBytes
  BY IntakeAssumption DEF LineBytes, SectionBytes, Nul, Newline
<1>2. Seq(LineBytes) \subseteq Seq(SectionBytes) /\ Seq(SectionBytes) \subseteq Seq(ByteKinds)
  BY <1>1, SeqMonotonic
<1>3. lines \in Seq(Seq(SectionBytes))
  BY <1>2, SeqMonotonic
<1>4. lines \in Seq(Seq(ByteKinds))
  BY <1>2, <1>3, SeqMonotonic
<1>5. <<>> \in Seq(SectionBytes)
  BY EmptySeq
<1>6. Terminated(lines) \in Seq(SectionBytes)
  BY <1>1, <1>3, <1>5, TerminatedMore
<1> QED BY <1>1, <1>2, <1>3, <1>4, <1>6

\* Whole lines are split into themselves and an empty one.
LEMMA WholeSplit ==
  ASSUME NEW lines \in Seq(Seq(LineBytes))
  PROVE  SplitLines(Terminated(lines)) = [lines |-> lines, last |-> <<>>]
<1>1. <<>> \in Seq(LineBytes) /\ Terminated(lines) \o <<>> = Terminated(lines)
  BY EmptySeq, LinesTyped, ConcatEmptySeq
<1>2. SplitLines(Terminated(lines) \o <<>>) = [lines |-> lines, last |-> <<>>]
  BY <1>1, LinesTyped, PrintedIsSplit
<1> QED BY <1>1, <1>2

\* And an empty line after them changes nothing.
LEMMA OneEmptyLine ==
  ASSUME NEW lines \in Seq(Seq(LineBytes))
  PROVE  /\ Sifted(Append(lines, <<>>), NameLines) = Sifted(lines, NameLines)
         /\ Sifted(Append(lines, <<>>), RecencyLines) = Sifted(lines, RecencyLines)
<1>1. <<>> \in Seq(LineBytes)
  BY EmptySeq
<1> QED BY <1>1, EmptyLineIsNothing, SiftedMore

\* A names section that arrived whole.
LEMMA NamesWhole ==
  ASSUME NEW lines \in Seq(Seq(LineBytes))
  PROVE  NamesSection(Terminated(lines), FALSE) = FirstN(Sifted(lines, NameLines), MaxNames)
<1>1. AllOf(SplitLines(Terminated(lines))) = Append(lines, <<>>)
  BY WholeSplit DEF AllOf
<1> QED BY <1>1, OneEmptyLine DEF NamesSection

\* A names section that was cut.
LEMMA NamesCut ==
  ASSUME NEW lines \in Seq(Seq(LineBytes)), NEW m \in 0..Len(Terminated(lines))
  PROVE  IsPrefix(NamesSection(SubSeq(Terminated(lines), 1, m), TRUE), Sifted(lines, NameLines))
<1> DEFINE T == Seq(LineBytes)
           bytes == SubSeq(Terminated(lines), 1, m)
<1>1. PICK k, x : LinesUpTo(lines, m, k, x, LineBytes)
  BY LinesTyped, CutLines
<1> DEFINE ls == SubSeq(lines, 1, k)
           S == Sifted(ls, NameLines)
           A == Sifted(lines, NameLines)
           M == Sifted(Append(ls, x), NameLines)
           F == FirstN(M, MaxNames)
<1>2. k \in 0..Len(lines) /\ x \in T /\ bytes = Terminated(ls) \o x
  BY <1>1 DEF LinesUpTo
<1>3. ls \in Seq(T)
  BY <1>2, Beginning
<1>4. SplitLines(bytes) = [lines |-> ls, last |-> x]
  <2> HIDE DEF ls, bytes
  <2>1. SplitLines(Terminated(ls) \o x) = [lines |-> ls, last |-> x]
    BY <1>2, <1>3, LinesTyped, PrintedIsSplit
  <2> QED BY <1>2, <2>1
<1>5. IsPrefix(S, A)
  BY <1>2, SiftedGrows
<1>6. S \in Seq(T) /\ A \in Seq(T) /\ M = IF x \in NameLines THEN Append(S, x) ELSE S
  <2> HIDE DEF ls, T
  <2>1. lines \in Seq(T) /\ x \in T
    BY <1>2 DEF T
  <2> QED BY <1>3, <2>1, SiftedTyped, SiftedMore
<1>7. NamesSection(bytes, TRUE) = FirstN(F, Len(F) - 1)
  <2> HIDE DEF bytes, ls
  <2>1. AllOf(SplitLines(bytes)) = Append(ls, x)
    BY <1>4 DEF AllOf
  <2> QED BY <2>1 DEF NamesSection
<1> HIDE DEF T, bytes, ls, S, A, M
<1>8. MaxNames \in Nat /\ MaxNames \in Int /\ MaxNames >= 0
  BY IntakeAssumption
<1>9. M \in Seq(T)
  <2>1. x \in NameLines => Append(S, x) \in Seq(T)
    BY <1>2, <1>6, AppendProperties
  <2> QED BY <1>6, <2>1
<1>10. F \in Seq(T) /\ IsPrefix(F, M) /\ Len(F) = IF Len(M) < MaxNames THEN Len(M) ELSE MaxNames
  BY <1>8, <1>9, FirstNIs
<1> HIDE DEF F
<1>11. Len(F) \in Nat /\ Len(M) \in Nat /\ Len(S) \in Nat
  BY <1>6, <1>9, <1>10, LenProperties
<1> DEFINE G == FirstN(F, Len(F) - 1)
<1>12. G \in Seq(T) /\ IsPrefix(G, F)
  <2>1. Len(F) - 1 \in Int
    BY <1>11
  <2> QED BY <1>10, <2>1, FirstNIs
<1>13. IsPrefix(G, S)
  <2>1. IsPrefix(G, M)
    BY <1>9, <1>10, <1>12, PrefixTwice
  <2>2. CASE x \notin NameLines
    BY <1>6, <2>1, <2>2
  <2>3. CASE x \in NameLines
    <3>1. M = Append(S, x) /\ Len(M) = Len(S) + 1
      BY <1>2, <1>6, <2>3, AppendProperties
    <3>2. Len(G) \in 0..Len(S)
      <4>1. Len(G) \in Nat /\ Len(G) <= Len(F) /\ Len(F) <= Len(M)
        BY <1>9, <1>10, <1>12, PrefixIs
      <4>2. CASE Len(F) = 0
        <5>1. Len(G) = 0
          BY <4>1, <4>2
        <5> QED BY <1>11, <5>1
      <4>3. CASE Len(F) > 0
        <5>1. Len(F) - 1 \in Int /\ Len(F) - 1 >= 0 /\ ~(Len(F) < Len(F) - 1)
          BY <1>11, <4>3
        <5>2. Len(G) = Len(F) - 1
          BY <1>10, <5>1, FirstNIs
        <5> QED BY <1>11, <3>1, <4>1, <5>2
      <4> QED BY <1>11, <4>2, <4>3
    <3>3. G = SubSeq(M, 1, Len(G))
      BY <1>9, <1>12, <2>1, PrefixIs
    <3>4. SubSeq(M, 1, Len(G)) = SubSeq(S, 1, Len(G))
      BY <1>2, <1>6, <3>1, <3>2, FirstOfAppend
    <3>5. IsPrefix(SubSeq(S, 1, Len(G)), S)
      BY <1>6, <3>2, PrefixIs
    <3> QED BY <3>3, <3>4, <3>5
  <2> QED BY <2>2, <2>3
<1>14. IsPrefix(G, A)
  BY <1>5, <1>6, <1>12, <1>13, PrefixTwice
<1> QED BY <1>7, <1>14 DEF A, bytes

\* A recency section that is missing, whole, or cut.
LEMMA RecencyNone == Entries(<<>>) = <<>> /\ RecencySection(<<>>, FALSE) = <<>>
<1>1. Sifted(<<>>, RecencyLines) = <<>> /\ Sifted(<<<<>>>>, RecencyLines) = <<>>
  <2>1. <<>> \in Seq(Seq(LineBytes)) /\ Append(<<>>, <<>>) = <<<<>>>>
    BY EmptySeq
  <2> QED BY <2>1, SiftedTyped, OneEmptyLine
<1>2. SplitLines(<<>>) = [lines |-> <<>>, last |-> <<>>]
  <2>1. <<>> \in Seq(ByteKinds) /\ Newline \in ByteKinds
    BY EmptySeq, IntakeAssumption
  <2> QED BY <2>1, SplitMore
<1>3. AllOf(SplitLines(<<>>)) = <<<<>>>>
  <2>1. SplitLines(<<>>).lines = <<>> /\ SplitLines(<<>>).last = <<>>
    <3>1. \A e : [lines |-> e, last |-> e].lines = e /\ [lines |-> e, last |-> e].last = e
      OBVIOUS
    <3> QED BY <1>2, <3>1, Zenon
  <2>2. Append(<<>>, <<>>) = <<<<>>>>
    OBVIOUS
  <2> QED BY <2>1, <2>2, Zenon DEF AllOf
<1>4. DOMAIN FirstN(<<>>, MaxRecency) = {}
  <2>1. <<>> \in Seq(ByteKinds) /\ MaxRecency \in Int /\ MaxRecency >= Len(<<>>)
    BY EmptySeq, IntakeAssumption
  <2>2. FirstN(<<>>, MaxRecency) = <<>>
    BY <2>1, FirstNIs
  <2> QED BY <2>2
<1>5. \A lines : Sifted(lines, RecencyLines) = <<>> => Entries(lines) = <<>>
  BY <1>4 DEF Entries
<1> QED BY <1>1, <1>3, <1>5 DEF RecencySection

\* A recency section that arrived whole.
LEMMA RecencyWhole ==
  ASSUME NEW lines \in Seq(Seq(LineBytes))
  PROVE  RecencySection(Terminated(lines), FALSE) = Entries(lines)
<1>1. AllOf(SplitLines(Terminated(lines))) = Append(lines, <<>>)
  BY WholeSplit DEF AllOf
<1>2. Entries(Append(lines, <<>>)) = Entries(lines)
  BY OneEmptyLine DEF Entries
<1> QED BY <1>1, <1>2 DEF RecencySection

\* One that was cut: what was read to its end.
LEMMA RecencyCut ==
  ASSUME NEW lines \in Seq(Seq(LineBytes)), NEW m, NEW k, NEW x,
         LinesUpTo(lines, m, k, x, LineBytes)
  PROVE  RecencySection(SubSeq(Terminated(lines), 1, m), TRUE) = Entries(SubSeq(lines, 1, k))
<1> DEFINE ls == SubSeq(lines, 1, k)
           bytes == SubSeq(Terminated(lines), 1, m)
<1>1. k \in 0..Len(lines) /\ x \in Seq(LineBytes) /\ bytes = Terminated(ls) \o x
  BY DEF LinesUpTo
<1>2. ls \in Seq(Seq(LineBytes))
  BY <1>1, Beginning
<1> HIDE DEF ls, bytes
<1>3. SplitLines(bytes) = [lines |-> ls, last |-> x]
  BY <1>1, <1>2, LinesTyped, PrintedIsSplit
<1>4. RecencySection(bytes, TRUE) = Entries(ls)
  BY <1>3 DEF RecencySection
<1> QED BY <1>4 DEF ls, bytes

-----------------------------------------------------------------------------
(* What is read of a payload *)

\* What is sent, and where its parts begin.
IsPayload(p) ==
  /\ p.buffer \in Seq(SectionBytes) /\ p.sections \in 1..3
  /\ p.names \in Seq(Seq(LineBytes)) /\ p.recency \in Seq(Seq(LineBytes))

\* A payload, with fewer sections or lines too.
LEMMA PayloadIs ==
  ASSUME NEW p \in Payloads
  PROVE  /\ IsPayload(p) /\ IsPayload([p EXCEPT !.sections = 2])
         /\ \A k \in Nat : IsPayload([p EXCEPT !.recency = FirstN(@, k)])
         /\ \A k : /\ [p EXCEPT !.recency = FirstN(@, k)].buffer = p.buffer
                   /\ [p EXCEPT !.recency = FirstN(@, k)].names = p.names
                   /\ [p EXCEPT !.recency = FirstN(@, k)].sections = p.sections
                   /\ [p EXCEPT !.recency = FirstN(@, k)].recency = FirstN(p.recency, k)
         /\ [p EXCEPT !.sections = 2].buffer = p.buffer
         /\ [p EXCEPT !.sections = 2].names = p.names
         /\ [p EXCEPT !.sections = 2].sections = 2
<1>1. p \in [buffer : Seq(SectionBytes), sections : 1..3, names : Seq(Seq(LineBytes)),
             recency : Seq(Seq(LineBytes))]
  BY IntakeAssumption DEF SectionBytes, LineBytes
<1>2. IsPayload(p)
  BY <1>1 DEF IsPayload
<1>3. ASSUME NEW r
      PROVE  LET q == [p EXCEPT !.recency = r]
             IN  q.buffer = p.buffer /\ q.names = p.names /\ q.sections = p.sections /\ q.recency = r
  BY <1>1
<1>4. LET q == [p EXCEPT !.sections = 2]
      IN  q.buffer = p.buffer /\ q.names = p.names /\ q.sections = 2 /\ q.recency = p.recency
  BY <1>1
<1>5. \A k \in Nat : FirstN(p.recency, k) \in Seq(Seq(LineBytes))
  BY <1>2, FirstNIs DEF IsPayload
<1>6. IsPayload([p EXCEPT !.sections = 2])
  BY <1>2, <1>4 DEF IsPayload
<1>7. \A k \in Nat : IsPayload([p EXCEPT !.recency = FirstN(@, k)])
  BY <1>2, <1>3, <1>5 DEF IsPayload
<1> QED BY <1>2, <1>3, <1>4, <1>6, <1>7

\* Its bytes.
LEMMA EncodedIs ==
  ASSUME NEW p, IsPayload(p)
  PROVE  LET TN == Terminated(p.names)
             TR == Terminated(p.recency)
         IN  /\ Encoded(p) \in Seq(ByteKinds)
             /\ p.sections = 1 => Encoded(p) = p.buffer
             /\ p.sections = 2 => /\ Encoded(p) = p.buffer \o (<<Nul>> \o TN)
                                  /\ Len(Encoded(p)) = Len(p.buffer) + 1 + Len(TN)
             /\ p.sections = 3 => /\ Encoded(p) = p.buffer \o (<<Nul>> \o (TN \o (<<Nul>> \o TR)))
                                  /\ Len(Encoded(p)) = Len(p.buffer) + 1 + Len(TN) + 1 + Len(TR)
<1> DEFINE b == p.buffer
           TN == Terminated(p.names)
           TR == Terminated(p.recency)
           T == ByteKinds
           n == <<Nul>>
<1>1. SectionBytes \subseteq T /\ Nul \in T
  BY IntakeAssumption DEF SectionBytes
<1>2. b \in Seq(SectionBytes) /\ TN \in Seq(T) /\ TR \in Seq(T) /\ n \in Seq(T)
  BY <1>1, LinesTyped DEF IsPayload
<1>3. b \in Seq(T)
  BY <1>1, <1>2, SeqMonotonic
<1>4. Len(b) \in Nat /\ Len(TN) \in Nat /\ Len(TR) \in Nat /\ Len(n) = 1
  BY <1>2, <1>3, LenProperties
<1>5. p.sections \in 1..3
  BY DEF IsPayload
<1>6. Encoded(p) = b \o (IF p.sections > 1 THEN n \o TN ELSE <<>>) \o (IF p.sections > 2 THEN n \o TR ELSE <<>>)
  BY DEF Encoded
<1> HIDE DEF b, TN, TR, T, n
<1>7. b \o <<>> = b
  BY <1>3, ConcatEmptySeq
<1> DEFINE E == Encoded(p)
           G == /\ E \in Seq(T)
                /\ p.sections = 1 => E = b
                /\ p.sections = 2 => /\ E = b \o (n \o TN)
                                     /\ Len(E) = Len(b) + 1 + Len(TN)
                /\ p.sections = 3 => /\ E = b \o (n \o (TN \o (n \o TR)))
                                     /\ Len(E) = Len(b) + 1 + Len(TN) + 1 + Len(TR)
<1>14. E = b \o (IF p.sections > 1 THEN n \o TN ELSE <<>>) \o (IF p.sections > 2 THEN n \o TR ELSE <<>>)
  BY <1>6
<1> HIDE DEF E
<1>8. ASSUME p.sections = 1 PROVE G
  <2>1. E = b
    BY <1>3, <1>14, <1>7, <1>8
  <2> QED BY <1>3, <1>8, <2>1
<1>9. n \o TN \in Seq(T) /\ Len(n \o TN) = 1 + Len(TN)
  BY ZenonT(60), <1>2, <1>4, ConcatProperties
<1>10. n \o TR \in Seq(T) /\ Len(n \o TR) = 1 + Len(TR)
  BY ZenonT(60), <1>2, <1>4, ConcatProperties
<1>11. b \o (n \o TN) \in Seq(T) /\ Len(b \o (n \o TN)) = Len(b) + 1 + Len(TN)
  <2>1. b \o (n \o TN) \in Seq(T) /\ Len(b \o (n \o TN)) = Len(b) + Len(n \o TN)
    BY <1>3, <1>9, ConcatProperties
  <2> QED BY <1>4, <1>9, <2>1
<1>12. ASSUME p.sections = 2 PROVE G
  <2>1. E = (b \o (n \o TN)) \o <<>>
    BY <1>14, <1>12
  <2>2. (b \o (n \o TN)) \o <<>> = b \o (n \o TN)
    BY <1>11, ConcatEmptySeq
  <2>3. E = b \o (n \o TN)
    BY <2>1, <2>2
  <2>4. E \in Seq(T) /\ Len(E) = Len(b) + 1 + Len(TN)
    BY <1>11, <2>3, Zenon
  <2>5. p.sections # 1 /\ p.sections # 3
    BY <1>12
  <2> QED BY <2>3, <2>4, <2>5, Zenon
<1>13. ASSUME p.sections = 3 PROVE G
  <2>1. E = (b \o (n \o TN)) \o (n \o TR)
    BY <1>14, <1>13
  <2>2. (b \o (n \o TN)) \o (n \o TR) = b \o ((n \o TN) \o (n \o TR))
    BY SMTT(60), <1>3, <1>9, <1>10, ConcatAssociative
  <2>3. (n \o TN) \o (n \o TR) = n \o (TN \o (n \o TR))
    BY SMTT(60), <1>2, <1>10, ConcatAssociative
  <2>4. E = b \o (n \o (TN \o (n \o TR)))
    BY <2>1, <2>2, <2>3
  <2>5. /\ E \in Seq(T)
        /\ Len(E) = Len(b \o (n \o TN)) + Len(n \o TR)
    BY <1>10, <1>11, <2>1, ConcatProperties
  <2>6. Len(E) = Len(b) + 1 + Len(TN) + 1 + Len(TR)
    BY <1>4, <1>10, <1>11, <2>5
  <2>7. p.sections # 1 /\ p.sections # 2
    BY <1>13
  <2> QED BY <2>4, <2>5, <2>6, <2>7, Zenon
<1>15. G
  BY SMTT(60), <1>5, <1>8, <1>12, <1>13
<1> QED BY <1>15, Zenon DEF b, TN, TR, n, T, E

\* The first bytes of two sequences in a row.
LEMMA FirstNOfBoth ==
  ASSUME NEW T, NEW a \in Seq(T), NEW b \in Seq(T), NEW n \in Nat
  PROVE  /\ n <= Len(a) => FirstN(a \o b, n) = FirstN(a, n)
         /\ n >= Len(a) => FirstN(a \o b, n) = a \o FirstN(b, n - Len(a))
<1>1. /\ a \o b \in Seq(T) /\ Len(a \o b) = Len(a) + Len(b)
      /\ Len(a) \in Nat /\ Len(b) \in Nat /\ n \in Int
  BY ConcatProperties, LenProperties
<1>2. ASSUME n <= Len(a) PROVE FirstN(a \o b, n) = FirstN(a, n)
  <2>1. n \in 0..(Len(a) + Len(b)) /\ n <= Len(a \o b)
    BY <1>1, <1>2
  <2>2. FirstN(a \o b, n) = SubSeq(a \o b, 1, n)
    BY <1>1, <2>1, FirstNIs
  <2>3. FirstN(a, n) = SubSeq(a, 1, n)
    BY <1>1, <1>2, FirstNIs
  <2>4. SubSeq(a \o b, 1, n) = SubSeq(a, 1, n)
    BY <1>2, <2>1, BeginningOfBoth
  <2> QED BY <2>2, <2>3, <2>4
<1>3. ASSUME n >= Len(a) PROVE FirstN(a \o b, n) = a \o FirstN(b, n - Len(a))
  <2>1. n - Len(a) \in Int
    BY <1>1
  <2>2. CASE n <= Len(a) + Len(b)
    <3>1. n \in 0..(Len(a) + Len(b)) /\ n - Len(a) <= Len(b) /\ n <= Len(a \o b)
      BY <1>1, <2>2
    <3>2. FirstN(a \o b, n) = SubSeq(a \o b, 1, n)
      BY <1>1, <3>1, FirstNIs
    <3>3. FirstN(b, n - Len(a)) = SubSeq(b, 1, n - Len(a))
      BY <2>1, <3>1, FirstNIs
    <3> QED BY <1>3, <3>1, <3>2, <3>3, BeginningOfBoth
  <2>3. CASE n > Len(a) + Len(b)
    <3>1. n >= Len(a \o b) /\ n - Len(a) >= Len(b)
      BY <1>1, <2>3
    <3>2. FirstN(a \o b, n) = a \o b
      BY <1>1, <3>1, FirstNIs
    <3>3. FirstN(b, n - Len(a)) = b
      BY <2>1, <3>1, FirstNIs
    <3> QED BY <3>2, <3>3
  <2> QED BY <1>1, <2>2, <2>3
<1> QED BY <1>2, <1>3

\* The first bytes of a section, a separator and what follows.
LEMMA FirstNOfSections ==
  ASSUME NEW a \in Seq(ByteKinds), NEW b \in Seq(ByteKinds), NEW n \in Nat
  PROVE  /\ n <= Len(a) => FirstN(a \o (<<Nul>> \o b), n) = FirstN(a, n)
         /\ n > Len(a) => FirstN(a \o (<<Nul>> \o b), n) = a \o (<<Nul>> \o FirstN(b, n - Len(a) - 1))
<1>1. <<Nul>> \in Seq(ByteKinds) /\ Len(<<Nul>>) = 1 /\ Len(a) \in Nat
  BY IntakeAssumption, LenProperties
<1>2. <<Nul>> \o b \in Seq(ByteKinds)
  BY <1>1, ConcatProperties
<1>3. n <= Len(a) => FirstN(a \o (<<Nul>> \o b), n) = FirstN(a, n)
  BY <1>2, FirstNOfBoth
<1>4. ASSUME n > Len(a)
      PROVE  FirstN(a \o (<<Nul>> \o b), n) = a \o (<<Nul>> \o FirstN(b, n - Len(a) - 1))
  <2>1. n >= Len(a) /\ n - Len(a) \in Nat /\ n - Len(a) >= 1
    BY <1>1, <1>4
  <2>2. FirstN(a \o (<<Nul>> \o b), n) = a \o FirstN(<<Nul>> \o b, n - Len(a))
    BY <1>2, <2>1, FirstNOfBoth
  <2> DEFINE j == n - Len(a)
  <2> HIDE DEF j
  <2>3. j \in Nat /\ j >= Len(<<Nul>>)
    BY <1>1, <2>1 DEF j
  <2>4. FirstN(<<Nul>> \o b, j) = <<Nul>> \o FirstN(b, j - Len(<<Nul>>))
    BY <1>1, <2>3, FirstNOfBoth
  <2>5. FirstN(<<Nul>> \o b, j) = <<Nul>> \o FirstN(b, j - 1)
    BY <1>1, <2>4
  <2> QED BY <2>2, <2>5 DEF j
<1> QED BY <1>3, <1>4

\* What is read of a payload.
FirstRead(p) == FirstN(Encoded(p), InputCap + 1)

\* It is the beginning of the buffer; or the buffer and the beginning of the names; or
\* both and the beginning of the recency lines.
LEMMA FirstReadIs ==
  ASSUME NEW p, IsPayload(p)
  PROVE  LET b == p.buffer
             TN == Terminated(p.names)
             TR == Terminated(p.recency)
             space == (InputCap + 1) - Len(b) - 1
             more == space - Len(TN) - 1
         IN  /\ FirstRead(p) \in Seq(ByteKinds)
             /\ p.sections = 1 \/ space < 0 => FirstRead(p) = FirstN(b, InputCap + 1)
             /\ p.sections > 1 /\ space >= 0 /\ (p.sections = 2 \/ more < 0) =>
                  FirstRead(p) = b \o (<<Nul>> \o FirstN(TN, space))
             /\ p.sections = 3 /\ space >= 0 /\ more >= 0 =>
                  FirstRead(p) = b \o (<<Nul>> \o (TN \o (<<Nul>> \o FirstN(TR, more))))
<1> DEFINE b == p.buffer
           TN == Terminated(p.names)
           TR == Terminated(p.recency)
           E == Encoded(p)
           C == InputCap + 1
           space == C - Len(b) - 1
           more == space - Len(TN) - 1
<1>1. E \in Seq(ByteKinds) /\ C \in Nat
  <2>1. E \in Seq(ByteKinds)
    BY EncodedIs, Zenon
  <2> QED BY <2>1, IntakeAssumption
<1>2. SectionBytes \subseteq ByteKinds /\ <<Nul>> \in Seq(ByteKinds)
  BY IntakeAssumption DEF SectionBytes
<1>3. b \in Seq(ByteKinds) /\ TN \in Seq(ByteKinds) /\ TR \in Seq(ByteKinds)
  BY <1>2, LinesTyped, SeqMonotonic DEF IsPayload
<1>4. Len(b) \in Nat /\ Len(TN) \in Nat /\ p.sections \in 1..3
  BY <1>3, LenProperties DEF IsPayload
<1>5. /\ p.sections = 1 => E = b
      /\ p.sections = 2 => E = b \o (<<Nul>> \o TN)
      /\ p.sections = 3 => E = b \o (<<Nul>> \o (TN \o (<<Nul>> \o TR)))
  BY EncodedIs
<1>6. TN \o (<<Nul>> \o TR) \in Seq(ByteKinds)
  BY <1>2, <1>3, ConcatProperties
<1> HIDE DEF b, TN, TR, E, C
<1>7. FirstN(E, C) \in Seq(ByteKinds)
  BY <1>1, FirstNIs
<1> DEFINE last == TN \o (<<Nul>> \o TR)
<1> HIDE DEF last
<1>8. space < 0 <=> C <= Len(b)
  BY <1>1, <1>4
<1>9. ASSUME p.sections = 1 \/ space < 0 PROVE FirstN(E, C) = FirstN(b, C)
  <2>1. CASE p.sections = 1
    BY <1>5, <2>1
  <2>2. CASE p.sections = 2 /\ space < 0
    <3>1. E = b \o (<<Nul>> \o TN) /\ C <= Len(b)
      BY <1>5, <1>8, <2>2
    <3> QED BY <1>1, <1>3, <3>1, FirstNOfSections
  <2>3. CASE p.sections = 3 /\ space < 0
    <3>1. E = b \o (<<Nul>> \o last) /\ last \in Seq(ByteKinds)
      BY <1>5, <1>6, <2>3 DEF last
    <3> QED BY <1>1, <1>3, <1>8, <2>3, <3>1, FirstNOfSections
  <2> QED BY <1>4, <1>9, <2>1, <2>2, <2>3
<1>10. ASSUME space >= 0 PROVE C > Len(b) /\ C - Len(b) - 1 = space /\ space \in Nat
  BY <1>1, <1>4, <1>10
<1>11. ASSUME p.sections = 2, space >= 0 PROVE FirstN(E, C) = b \o (<<Nul>> \o FirstN(TN, space))
  <2>1. E = b \o (<<Nul>> \o TN) /\ C > Len(b)
    BY <1>5, <1>10, <1>11
  <2> QED BY <1>1, <1>3, <2>1, FirstNOfSections
<1>12. ASSUME p.sections = 3, space >= 0
       PROVE  FirstN(E, C) = b \o (<<Nul>> \o FirstN(last, space))
  <2>1. E = b \o (<<Nul>> \o last) /\ last \in Seq(ByteKinds)
    BY <1>5, <1>6, <1>12 DEF last
  <2> QED BY <1>1, <1>3, <1>10, <1>12, <2>1, FirstNOfSections
<1>13. space \in Int /\ (more < 0 <=> space <= Len(TN))
  BY <1>1, <1>4
<1>14. ASSUME space >= 0 PROVE space \in Nat
  BY <1>10, <1>14
<1> HIDE DEF space
<1>15. ASSUME space >= 0, more < 0 PROVE FirstN(last, space) = FirstN(TN, space)
  BY <1>3, <1>13, <1>14, <1>15, FirstNOfSections DEF last
<1>16. ASSUME space >= 0, more >= 0 PROVE FirstN(last, space) = TN \o (<<Nul>> \o FirstN(TR, more))
  <2>1. space > Len(TN)
    BY <1>4, <1>13, <1>16
  <2> QED BY <1>3, <1>14, <1>16, <2>1, FirstNOfSections DEF last
<1> DEFINE F == FirstN(E, C)
<1> HIDE DEF F, more
<1>17. ASSUME p.sections > 1, space >= 0, p.sections = 2 \/ more < 0
       PROVE  F = b \o (<<Nul>> \o FirstN(TN, space))
  BY SMTT(60), <1>4, <1>11, <1>12, <1>15, <1>17 DEF F
<1>18. ASSUME p.sections = 3, space >= 0, more >= 0
       PROVE  F = b \o (<<Nul>> \o (TN \o (<<Nul>> \o FirstN(TR, more))))
  BY <1>12, <1>16, <1>18 DEF F
<1>19. F = FirstRead(p)
  BY DEF F, E, C, FirstRead
<1>20. /\ FirstRead(p) \in Seq(ByteKinds)
       /\ p.sections = 1 \/ space < 0 => FirstRead(p) = FirstN(b, C)
       /\ p.sections > 1 /\ space >= 0 /\ (p.sections = 2 \/ more < 0) =>
            FirstRead(p) = b \o (<<Nul>> \o FirstN(TN, space))
       /\ p.sections = 3 /\ space >= 0 /\ more >= 0 =>
            FirstRead(p) = b \o (<<Nul>> \o (TN \o (<<Nul>> \o FirstN(TR, more))))
  <2>1. F \in Seq(ByteKinds) /\ (p.sections = 1 \/ space < 0 => F = FirstN(b, C))
    BY <1>7, <1>9 DEF F
  <2> QED BY <1>17, <1>18, <1>19, <2>1, Zenon
<1> QED BY <1>20, Zenon DEF space, more, b, C, TN, TR

\* The first separator in what is read.
LEMMA Separated ==
  ASSUME NEW a \in Seq(SectionBytes), NEW b \in Seq(ByteKinds)
  PROVE  a \o (<<Nul>> \o b) \in Seq(ByteKinds) /\ Apart(a, b, a \o (<<Nul>> \o b))
<1>1. Nul \in ByteKinds /\ a \in Seq(ByteKinds \ {Nul})
  BY IntakeAssumption DEF SectionBytes
<1> QED BY <1>1, NulFound

\* What parse_payload makes of bytes without a separator: a buffer alone.
LEMMA NoSeparator ==
  ASSUME NEW a \in Seq(SectionBytes)
  PROVE  LET x == BufferFromBytes(a)
         IN  ParsePayload(a) = [ok |-> x.ok, buffer |-> x.text, capped |-> x.capped, names |-> <<>>,
                                namesCapped |-> FALSE, recency |-> <<>>]
<1>1. NulAt(a) = 0
  BY NoNul DEF SectionBytes
<1> QED BY <1>1 DEF ParsePayload

\* With one separator: the buffer and its names.
LEMMA OneSeparator ==
  ASSUME NEW a \in Seq(SectionBytes), NEW m \in Seq(SectionBytes), NEW s, s = a \o (<<Nul>> \o m)
  PROVE  LET over == Len(s) > InputCap
         IN  ParsePayload(s) = [ok |-> Utf8(a), buffer |-> a, capped |-> FALSE,
                                names |-> NamesSection(m, over), namesCapped |-> over,
                                recency |-> <<>>]
<1> DEFINE over == Len(s) > InputCap
           pos == NulAt(s)
           text == SubSeq(s, 1, pos - 1)
           rest == SubSeq(s, pos + 1, Len(s))
           end == NulAt(rest)
<1>1. m \in Seq(ByteKinds)
  BY SeqMonotonic DEF SectionBytes
<1>4. pos # 0 /\ text = a /\ rest = m
  <2>1. Apart(a, m, a \o (<<Nul>> \o m))
    BY <1>1, Separated
  <2>2. Apart(a, m, s)
    BY <2>1, Zenon
  <2> QED BY <2>2, Zenon DEF Apart
<1>5. end = 0
  BY <1>4, NoNul DEF SectionBytes
<1>6. (over /\ end = 0) = over /\ (over /\ end # 0) = FALSE
  BY <1>5
<1>7. ParsePayload(s) =
        [ok |-> Utf8(text), buffer |-> text, capped |-> FALSE,
         names |-> NamesSection(IF end = 0 THEN rest ELSE SubSeq(rest, 1, end - 1), over /\ end = 0),
         namesCapped |-> (over /\ end = 0),
         recency |-> RecencySection(IF end = 0 THEN <<>> ELSE SubSeq(rest, end + 1, Len(rest)),
                                    over /\ end # 0)]
  BY <1>4 DEF ParsePayload
<1>8. (IF end = 0 THEN rest ELSE SubSeq(rest, 1, end - 1)) = m
  BY <1>4, <1>5
<1>9. (IF end = 0 THEN <<>> ELSE SubSeq(rest, end + 1, Len(rest))) = <<>>
  BY <1>5
<1> HIDE DEF over, text, rest, end
<1>10. ParsePayload(s) = [ok |-> Utf8(a), buffer |-> a, capped |-> FALSE,
                          names |-> NamesSection(m, over), namesCapped |-> over,
                          recency |-> RecencySection(<<>>, FALSE)]
  BY <1>4, <1>6, <1>7, <1>8, <1>9, Zenon
<1> QED BY <1>10, RecencyNone, Zenon DEF over

\* With two: the recency lines too.
LEMMA TwoSeparators ==
  ASSUME NEW a \in Seq(SectionBytes), NEW m \in Seq(SectionBytes), NEW q \in Seq(SectionBytes),
         NEW s, s = a \o (<<Nul>> \o (m \o (<<Nul>> \o q)))
  PROVE  ParsePayload(s) = [ok |-> Utf8(a), buffer |-> a, capped |-> FALSE,
                            names |-> NamesSection(m, FALSE), namesCapped |-> FALSE,
                            recency |-> RecencySection(q, Len(s) > InputCap)]
<1> DEFINE over == Len(s) > InputCap
           pos == NulAt(s)
           text == SubSeq(s, 1, pos - 1)
           rest == SubSeq(s, pos + 1, Len(s))
           end == NulAt(rest)
           w == m \o (<<Nul>> \o q)
<1>1. q \in Seq(ByteKinds)
  BY SeqMonotonic DEF SectionBytes
<1>2. /\ w \in Seq(ByteKinds) /\ NulAt(w) # 0
      /\ SubSeq(w, 1, NulAt(w) - 1) = m /\ SubSeq(w, NulAt(w) + 1, Len(w)) = q
  <2>1. w \in Seq(ByteKinds) /\ Apart(m, q, w)
    BY <1>1, Separated
  <2> QED BY <2>1, Zenon DEF Apart
<1> HIDE DEF w
<1>3. s = a \o (<<Nul>> \o w)
  BY DEF w
<1>4. pos # 0 /\ text = a /\ rest = w
  <2>1. Apart(a, w, a \o (<<Nul>> \o w))
    BY <1>2, Separated
  <2>2. Apart(a, w, s)
    BY <1>3, <2>1, Zenon
  <2> QED BY <2>2, Zenon DEF Apart
<1>5. end # 0 /\ SubSeq(rest, 1, end - 1) = m /\ SubSeq(rest, end + 1, Len(rest)) = q
  BY <1>2, <1>4, Zenon
<1>6. end # 0
  BY <1>5
<1>7. (over /\ end = 0) = FALSE /\ (over /\ end # 0) = over
  BY <1>6
<1>8. ParsePayload(s) =
        [ok |-> Utf8(text), buffer |-> text, capped |-> FALSE,
         names |-> NamesSection(IF end = 0 THEN rest ELSE SubSeq(rest, 1, end - 1), over /\ end = 0),
         namesCapped |-> (over /\ end = 0),
         recency |-> RecencySection(IF end = 0 THEN <<>> ELSE SubSeq(rest, end + 1, Len(rest)),
                                    over /\ end # 0)]
  BY <1>4 DEF ParsePayload
<1>9. (IF end = 0 THEN rest ELSE SubSeq(rest, 1, end - 1)) = m
  BY <1>5
<1>10. (IF end = 0 THEN <<>> ELSE SubSeq(rest, end + 1, Len(rest))) = q
  BY <1>5
<1> HIDE DEF over, text, rest, end
<1>11. ParsePayload(s) = [ok |-> Utf8(a), buffer |-> a, capped |-> FALSE,
                          names |-> NamesSection(m, FALSE), namesCapped |-> FALSE,
                          recency |-> RecencySection(q, over)]
  BY <1>4, <1>7, <1>8, <1>9, <1>10, Zenon
<1> QED BY <1>11, Zenon DEF over

-----------------------------------------------------------------------------
(* What is taken of it is what was sent *)

\* A buffer that arrived alone: whole, or cut at a character boundary of its text.
LEMMA BufferTaken ==
  ASSUME NEW b \in Seq(SectionBytes)
  PROVE  LET x == BufferFromBytes(FirstN(b, InputCap + 1))
         IN  /\ x.capped <=> Len(b) > InputCap
             /\ x.capped => IsPrefix(x.text, b)
             /\ ~x.capped => x.text = b
             /\ Utf8(b) => x.ok
<1> DEFINE C == InputCap + 1
           a == FirstN(b, C)
           capped == Len(a) > InputCap
           first == FirstN(a, InputCap)
           midway == capped /\ Last(first) = "lead" /\ Utf8(Front(first))
           x == BufferFromBytes(a)
<1>1. InputCap \in Nat /\ InputCap >= 1 /\ C \in Nat /\ Len(b) \in Nat
  BY IntakeAssumption, LenProperties
<1>2. /\ a \in Seq(SectionBytes) /\ Len(a) = IF Len(b) < C THEN Len(b) ELSE C
      /\ C >= Len(b) => a = b
      /\ C <= Len(b) => a = SubSeq(b, 1, C)
  <2>1. C \in Int /\ C >= 0
    BY <1>1
  <2> HIDE DEF C
  <2> QED BY <2>1, FirstNIs
<1>3. x = [text |-> IF midway THEN Front(first) ELSE first, capped |-> capped,
           ok |-> midway \/ Utf8(first)]
  BY DEF BufferFromBytes
<1> HIDE DEF x, a, first
<1>4. x.text = (IF midway THEN Front(first) ELSE first) /\ x.capped = capped /\ x.ok = (midway \/ Utf8(first))
  BY <1>3
<1>5. capped <=> Len(b) > InputCap
  <2> DEFINE L == Len(b)
             A == Len(a)
  <2>1. A = (IF L < C THEN L ELSE C) /\ L \in Nat
    BY <1>1, <1>2
  <2> HIDE DEF L, A
  <2>2. A > InputCap <=> L > InputCap
    BY <1>1, <2>1
  <2> QED BY <2>2 DEF L, A
<1>6. CASE ~capped
  <2>1. C >= Len(b)
    BY <1>1, <1>5, <1>6
  <2>2. a = b /\ InputCap \in Int /\ InputCap >= Len(a)
    BY <1>1, <1>2, <1>5, <1>6, <2>1
  <2>3. first = b
    BY <2>2, FirstNIs DEF first
  <2>4. ~midway
    BY <1>6
  <2> HIDE DEF midway, capped
  <2>5. ~x.capped /\ ~(Len(b) > InputCap) /\ x.text = b /\ (Utf8(b) => x.ok)
    BY <1>4, <1>5, <1>6, <2>3, <2>4, Zenon
  <2> QED BY <2>5 DEF x, a
<1>7. CASE capped
  <2>1. C <= Len(b) /\ InputCap \in 0..C /\ C \in 0..Len(b) /\ InputCap \in 1..Len(b)
    BY <1>1, <1>5, <1>7
  <2>2. InputCap \in Int /\ InputCap <= Len(a) /\ a = SubSeq(b, 1, C)
    BY <1>1, <1>2, <1>7, <2>1
  <2>3. first = SubSeq(a, 1, InputCap)
    BY <1>2, <2>2, FirstNIs DEF first
  <2> HIDE DEF C, capped
  <2>4. first = SubSeq(b, 1, InputCap)
    BY <2>1, <2>2, <2>3, BeginningTwice
  <2>5. InputCap \in 0..Len(b) /\ InputCap - 1 \in 0..InputCap /\ InputCap - 1 \in 0..Len(b)
    BY <1>1, <2>1
  <2>6. Len(first) = InputCap
    BY <2>4, <2>5, Beginning
  <2>7. Front(first) = SubSeq(first, 1, InputCap - 1) /\ Last(first) = first[InputCap]
    BY <2>6 DEF Front, Last
  <2>8. Front(first) = SubSeq(b, 1, InputCap - 1)
    BY <2>4, <2>5, <2>7, BeginningTwice
  <2>9. IsPrefix(first, b) /\ IsPrefix(Front(first), b)
    BY <2>4, <2>5, <2>8, PrefixIs
  <2>10. ASSUME Utf8(b) PROVE midway \/ Utf8(first)
    <3>1. (first[InputCap] = "lead" /\ Utf8(SubSeq(first, 1, InputCap - 1))) \/ Utf8(first)
      BY <2>1, <2>4, <2>10, CutText
    <3> QED BY <1>7, <2>7, <3>1
  <2> HIDE DEF midway
  <2>11. x.capped /\ IsPrefix(x.text, b) /\ (Utf8(b) => x.ok)
    BY <1>4, <1>7, <2>9, <2>10
  <2> QED BY <1>5, <1>7, <2>11 DEF x, a, C
<1> QED BY <1>6, <1>7

\* All of a payload up to its k-th recency line is read.
Fits(p, k) == Len(Encoded([p EXCEPT !.recency = FirstN(@, k)])) <= InputCap + 1

\* What is taken of a payload is right.
Right(p, r) ==
  /\ IF r.capped THEN IsPrefix(r.buffer, p.buffer) ELSE r.buffer = p.buffer
  /\ IsPrefix(r.names, Sifted(p.names, NameLines))
  /\ IsPrefix(r.recency, Entries(p.recency))
  /\ r.capped => Len(p.buffer) > InputCap
  /\ r.namesCapped => Len(Encoded([p EXCEPT !.sections = 2])) > InputCap
  /\ p.sections > 1 /\ ~r.capped /\ ~r.namesCapped =>
       r.names = FirstN(Sifted(p.names, NameLines), MaxNames)
  /\ p.sections = 3 =>
       \A k \in 0..Len(p.recency) :
         (k > 0 => Fits(p, k)) /\ (k < Len(p.recency) => ~Fits(p, k + 1))
           => r.recency = Entries(FirstN(p.recency, k))

\* A recency line fits when what is printed up to it fits in what is left.
LEMMA FitsIs ==
  ASSUME NEW p \in Payloads, p.sections = 3, NEW k \in 0..Len(p.recency)
  PROVE  /\ Fits(p, k) <=>
              Len(Terminated(SubSeq(p.recency, 1, k)))
                <= ((InputCap + 1) - Len(p.buffer) - 1) - Len(Terminated(p.names)) - 1
         /\ FirstN(p.recency, k) = SubSeq(p.recency, 1, k)
         /\ Len(Terminated(SubSeq(p.recency, 1, k))) \in Nat
<1> DEFINE q == [p EXCEPT !.recency = FirstN(@, k)]
           T == Seq(LineBytes)
           B == Len(p.buffer)
           N == Len(Terminated(p.names))
           R == Len(Terminated(SubSeq(p.recency, 1, k)))
<1>1. IsPayload(p) /\ p.recency \in Seq(Seq(LineBytes)) /\ p.names \in Seq(Seq(LineBytes))
  BY PayloadIs DEF IsPayload
<1>2. k \in Nat /\ k \in Int /\ k <= Len(p.recency)
  BY <1>1, LenProperties
<1>3. FirstN(p.recency, k) = SubSeq(p.recency, 1, k)
  BY <1>1, <1>2, FirstNIs
<1>4. SubSeq(p.recency, 1, k) \in Seq(Seq(LineBytes))
  BY <1>1, Beginning
<1>5. R \in Nat
  BY <1>4, LinesTyped, LenProperties
<1>6. IsPayload(q) /\ q.buffer = p.buffer /\ q.names = p.names /\ q.sections = p.sections
      /\ q.recency = FirstN(p.recency, k)
  BY <1>2, PayloadIs
<1>7. B \in Nat /\ N \in Nat /\ InputCap \in Nat
  BY <1>1, LinesTyped, LenProperties, IntakeAssumption DEF IsPayload
<1> HIDE DEF q
<1>8. Len(Encoded(q)) = Len(q.buffer) + 1 + Len(Terminated(q.names)) + 1 + Len(Terminated(q.recency))
  <2>1. q.sections = 3
    BY <1>6
  <2> QED BY <1>6, <2>1, EncodedIs
<1>9. Len(Encoded(q)) = B + 1 + N + 1 + R
  BY <1>3, <1>6, <1>8
<1>10. Fits(p, k) <=> Len(Encoded(q)) <= InputCap + 1
  BY DEF Fits, q
<1> HIDE DEF B, N, R
<1>11. Fits(p, k) <=> R <= ((InputCap + 1) - B - 1) - N - 1
  BY <1>5, <1>7, <1>9, <1>10
<1> QED BY <1>3, <1>5, <1>11 DEF B, N, R

\* When nothing is left for them, no recency line fits, and none is what must be taken.
LEMMA NoneFits ==
  ASSUME NEW p \in Payloads, p.sections = 3,
         ((InputCap + 1) - Len(p.buffer) - 1) - Len(Terminated(p.names)) - 1 < 0,
         NEW k \in 0..Len(p.recency), k > 0 => Fits(p, k)
  PROVE  Entries(FirstN(p.recency, k)) = <<>>
<1> DEFINE more == ((InputCap + 1) - Len(p.buffer) - 1) - Len(Terminated(p.names)) - 1
           R == Len(Terminated(SubSeq(p.recency, 1, k)))
<1>1. IsPayload(p) /\ p.recency \in Seq(Seq(LineBytes)) /\ p.names \in Seq(Seq(LineBytes))
  BY PayloadIs DEF IsPayload
<1>2. more \in Int
  BY <1>1, LinesTyped, LenProperties, IntakeAssumption DEF IsPayload
<1>3. (Fits(p, k) <=> R <= more) /\ R \in Nat
  BY FitsIs
<1> HIDE DEF R
<1>4. more < 0
  OBVIOUS
<1> HIDE DEF more
<1>5. ~(R <= more)
  BY <1>2, <1>3, <1>4
<1>6. k = 0
  BY <1>1, <1>3, <1>5, LenProperties
<1>7. FirstN(p.recency, 0) = <<>>
  <2>1. 0 \in Int
    OBVIOUS
  <2> QED BY <1>1, <2>1, FirstNIs
<1> QED BY <1>6, <1>7, RecencyNone

\* Nothing comes before everything.
LEMMA NothingIsPrefix ==
  ASSUME NEW p \in Payloads
  PROVE  IsPrefix(<<>>, Sifted(p.names, NameLines)) /\ IsPrefix(<<>>, Entries(p.recency))
<1>1. IsPayload(p) /\ p.recency \in Seq(Seq(LineBytes)) /\ p.names \in Seq(Seq(LineBytes))
  BY PayloadIs DEF IsPayload
<1>2. /\ p.recency \in Seq(Seq(ByteKinds)) /\ 0 \in 0..Len(p.recency) /\ 0 \in 0..Len(p.names)
      /\ SubSeq(p.recency, 1, 0) = <<>> /\ SubSeq(p.names, 1, 0) = <<>>
  <2>1. 0 \in 0..Len(p.recency) /\ 0 \in 0..Len(p.names)
    BY <1>1, LenProperties
  <2> QED BY <1>1, <2>1, LinesTyped, Beginning
<1>3. IsPrefix(<<>>, Entries(p.recency))
  <2>1. IsPrefix(Entries(SubSeq(p.recency, 1, 0)), Entries(p.recency))
    BY <1>2, EntriesGrow
  <2> QED BY <1>2, <2>1, RecencyNone
<1>4. IsPrefix(<<>>, Sifted(p.names, NameLines))
  <2>1. IsPrefix(Sifted(SubSeq(p.names, 1, 0), NameLines), Sifted(p.names, NameLines))
    BY <1>1, <1>2, SiftedGrows
  <2>2. Sifted(<<>>, NameLines) = <<>>
    BY <1>1, SiftedTyped
  <2> QED BY <1>2, <2>1, <2>2
<1> QED BY <1>3, <1>4

\* What is left after the buffer and its separator, and after the names and theirs.
LEMMA Room ==
  ASSUME NEW p, IsPayload(p)
  PROVE  LET B == Len(p.buffer)
             N == Len(Terminated(p.names))
             space == (InputCap + 1) - B - 1
             more == space - N - 1
         IN  /\ B \in Nat /\ N \in Nat /\ space \in Int /\ more \in Int
             /\ space < 0 <=> B > InputCap
             /\ space < 0 => more < 0
             /\ space >= 0 => space \in Nat
             /\ more < 0 <=> space <= N
             /\ more >= 0 => more \in Nat
             /\ space <= N <=> B + 1 + N > InputCap
             /\ \A M \in Nat : M = (IF N < space THEN N ELSE space) => (B + 1 + M > InputCap <=> space <= N)
             /\ \A R \in Nat, M \in Nat :
                  M = (IF R < more THEN R ELSE more) => (B + 1 + (N + 1 + M) > InputCap <=> more <= R)
<1> DEFINE B == Len(p.buffer)
           N == Len(Terminated(p.names))
           space == (InputCap + 1) - B - 1
           more == space - N - 1
<1>1. B \in Nat /\ N \in Nat /\ InputCap \in Nat
  BY LinesTyped, LenProperties, IntakeAssumption DEF IsPayload
<1> HIDE DEF B, N
<1>2. /\ space \in Int /\ more \in Int
      /\ space < 0 <=> B > InputCap
      /\ space < 0 => more < 0
      /\ space >= 0 => space \in Nat
      /\ more < 0 <=> space <= N
      /\ more >= 0 => more \in Nat
      /\ space <= N <=> B + 1 + N > InputCap
  BY <1>1
<1>3. \A M \in Nat : M = (IF N < space THEN N ELSE space) => (B + 1 + M > InputCap <=> space <= N)
  BY <1>1
<1>4. \A R \in Nat, M \in Nat :
        M = (IF R < more THEN R ELSE more) => (B + 1 + (N + 1 + M) > InputCap <=> more <= R)
  BY <1>1
<1> QED BY <1>1, <1>2, <1>3, <1>4, Zenon DEF B, N

\* When not even a separator fits after it, the buffer alone is taken, and so it is when
\* nothing else was sent.
LEMMA BufferRight ==
  ASSUME NEW p \in Payloads, p.sections = 1 \/ (InputCap + 1) - Len(p.buffer) - 1 < 0
  PROVE  LET r == ParsePayload(FirstRead(p)) IN (Utf8(p.buffer) => r.ok) /\ Right(p, r)
<1> DEFINE b == p.buffer
           a == FirstN(b, InputCap + 1)
           x == BufferFromBytes(a)
           r == ParsePayload(FirstRead(p))
<1>1. IsPayload(p) /\ b \in Seq(SectionBytes) /\ p.sections \in 1..3
  BY PayloadIs DEF IsPayload
<1>2. InputCap + 1 \in Int /\ InputCap \in Nat /\ Len(b) \in Nat
  BY <1>1, IntakeAssumption, LenProperties
<1>3. FirstRead(p) = a
  BY <1>1, FirstReadIs
<1>4. a \in Seq(SectionBytes)
  BY <1>1, <1>2, FirstNIs
<1>5. /\ x.capped <=> Len(b) > InputCap
      /\ x.capped => IsPrefix(x.text, b)
      /\ ~x.capped => x.text = b
      /\ Utf8(b) => x.ok
  BY <1>1, BufferTaken
<1>11. p.sections = 1 \/ Len(b) > InputCap
  BY <1>1, Room
<1> HIDE DEF a, x
<1>6. r = [ok |-> x.ok, buffer |-> x.text, capped |-> x.capped, names |-> <<>>,
           namesCapped |-> FALSE, recency |-> <<>>]
  BY <1>3, <1>4, NoSeparator DEF x
<1> HIDE DEF r
<1>7. /\ r.ok = x.ok /\ r.buffer = x.text /\ r.capped = x.capped /\ r.names = <<>>
      /\ r.namesCapped = FALSE /\ r.recency = <<>>
  BY <1>6
<1>8. p.sections > 1 => r.capped
  <2>1. ASSUME p.sections > 1 PROVE Len(b) > InputCap
    BY <1>11, <2>1
  <2> QED BY <1>5, <1>7, <2>1
<1>9. ASSUME p.sections = 3, NEW k \in 0..Len(p.recency), k > 0 => Fits(p, k)
      PROVE  r.recency = Entries(FirstN(p.recency, k))
  <2>1. (InputCap + 1) - Len(p.buffer) - 1 < 0
    BY <1>9
  <2>3. ((InputCap + 1) - Len(p.buffer) - 1) - Len(Terminated(p.names)) - 1 < 0
    BY <1>1, <2>1, Room
  <2> QED BY <1>7, <1>9, <2>3, NoneFits
<1>10. Right(p, r)
  BY <1>5, <1>7, <1>8, <1>9, NothingIsPrefix DEF Right
<1> QED BY <1>5, <1>7, <1>10 DEF r

\* When the names are the last that is read, cut or not.
LEMMA NamesRight ==
  ASSUME NEW p \in Payloads, p.sections > 1, (InputCap + 1) - Len(p.buffer) - 1 >= 0,
         \/ p.sections = 2
         \/ ((InputCap + 1) - Len(p.buffer) - 1) - Len(Terminated(p.names)) - 1 < 0
  PROVE  LET r == ParsePayload(FirstRead(p)) IN (Utf8(p.buffer) => r.ok) /\ Right(p, r)
<1> DEFINE b == p.buffer
           TN == Terminated(p.names)
           space == (InputCap + 1) - Len(b) - 1
           more == space - Len(TN) - 1
           m == FirstN(TN, space)
           s == FirstRead(p)
           r == ParsePayload(s)
           over == Len(s) > InputCap
           A == Sifted(p.names, NameLines)
<1>1. /\ IsPayload(p) /\ b \in Seq(SectionBytes) /\ p.sections \in 2..3
      /\ p.names \in Seq(Seq(LineBytes)) /\ TN \in Seq(SectionBytes)
  BY PayloadIs, LinesTyped DEF IsPayload
<1> DEFINE B == Len(b)
           N == Len(TN)
<1>2. /\ B \in Nat /\ N \in Nat /\ space \in Nat /\ space \in Int /\ space >= 0
      /\ more < 0 <=> space <= N
      /\ space <= N <=> B + 1 + N > InputCap
      /\ \A M \in Nat : M = (IF N < space THEN N ELSE space) => (B + 1 + M > InputCap <=> space <= N)
  <2>1. space >= 0
    OBVIOUS
  <2> QED BY <1>1, <2>1, Room
<1>19. p.sections = 2 \/ more < 0
  OBVIOUS
<1>5. p.sections = 2 \/ space <= N
  BY <1>2, <1>19, Zenon
<1>3. s = b \o (<<Nul>> \o m)
  BY <1>1, FirstReadIs
<1>4. /\ m \in Seq(SectionBytes) /\ Len(m) = IF Len(TN) < space THEN Len(TN) ELSE space
      /\ space <= Len(TN) => m = SubSeq(TN, 1, space)
      /\ space >= Len(TN) => m = TN
  <2>1. Len(TN) \in Nat /\ space \in Int /\ space >= 0
    BY <1>2
  <2> HIDE DEF TN, space
  <2> QED BY <1>1, <2>1, FirstNIs
<1>6. Len(s) = Len(b) + 1 + Len(m)
  <2>1. m \in Seq(ByteKinds)
    BY <1>4, SeqMonotonic DEF SectionBytes
  <2>2. Apart(b, m, s)
    BY <1>1, <1>3, <2>1, Separated, Zenon
  <2> QED BY <2>2 DEF Apart
<1> HIDE DEF m, s, space
<1>7. over <=> space <= N
  <2>1. Len(m) \in Nat
    BY <1>4, LenProperties
  <2>2. B + 1 + Len(m) > InputCap <=> space <= N
    BY <1>2, <1>4, <2>1, Zenon
  <2> QED BY <1>6, <2>2, Zenon
<1>8. r = [ok |-> Utf8(b), buffer |-> b, capped |-> FALSE, names |-> NamesSection(m, over),
           namesCapped |-> over, recency |-> <<>>]
  BY <1>1, <1>3, <1>4, OneSeparator
<1> HIDE DEF r, over
<1>9. /\ r.ok = Utf8(b) /\ r.buffer = b /\ r.capped = FALSE /\ r.names = NamesSection(m, over)
      /\ r.namesCapped = over /\ r.recency = <<>>
  BY <1>8
<1>10. ASSUME over PROVE NamesSection(m, over) = NamesSection(SubSeq(TN, 1, space), TRUE)
  <2>1. over = TRUE
    BY <1>10 DEF over
  <2> QED BY <1>4, <1>7, <1>10, <2>1
<1>11. ASSUME ~over PROVE NamesSection(m, over) = NamesSection(TN, FALSE)
  <2>1. over = FALSE
    BY <1>11
  <2>2. m = TN
    <3>1. space \in Int /\ N \in Int /\ ~(space <= N)
      BY <1>2, <1>7, <1>11
    <3> HIDE DEF N
    <3>2. space >= N
      BY <3>1
    <3> QED BY <1>4, <3>2 DEF N
  <2> QED BY <2>1, <2>2
<1>12. ASSUME ~over PROVE r.names = FirstN(A, MaxNames)
  BY <1>1, <1>9, <1>11, <1>12, NamesWhole
<1>13. A \in Seq(Seq(LineBytes)) /\ MaxNames \in Int
  BY <1>1, SiftedTyped, IntakeAssumption
<1>14. IsPrefix(r.names, A)
  <2>1. CASE over
    <3>2. space \in Nat /\ N \in Nat /\ space <= N
      BY <1>2, <1>7, <2>1
    <3> HIDE DEF N
    <3>3. space \in 0..N
      BY <3>2
    <3>1. space \in 0..Len(TN)
      BY <3>3 DEF N
    <3> QED BY <1>1, <1>9, <1>10, <2>1, <3>1, NamesCut
  <2>2. CASE ~over
    BY <1>12, <1>13, <2>2, FirstNIs
  <2> QED BY <2>1, <2>2
<1>15. ASSUME over PROVE Len(Encoded([p EXCEPT !.sections = 2])) > InputCap
  <2> DEFINE q == [p EXCEPT !.sections = 2]
  <2>1. IsPayload(q) /\ q.buffer = p.buffer /\ q.names = p.names /\ q.sections = 2
    BY PayloadIs
  <2> HIDE DEF q
  <2>2. Len(Encoded(q)) = Len(q.buffer) + 1 + Len(Terminated(q.names))
    BY <2>1, EncodedIs
  <2>3. Len(Encoded(q)) = B + 1 + N
    BY <2>1, <2>2
  <2>4. Len(Encoded(q)) > InputCap
    BY <1>2, <1>7, <1>15, <2>3, Zenon
  <2> QED BY <2>4 DEF q
<1>16. ASSUME p.sections = 3, NEW k \in 0..Len(p.recency), k > 0 => Fits(p, k)
       PROVE  r.recency = Entries(FirstN(p.recency, k))
  <2>1. ((InputCap + 1) - Len(p.buffer) - 1) - Len(Terminated(p.names)) - 1 < 0
    BY <1>2, <1>5, <1>16 DEF space, N, B
  <2> QED BY <1>9, <1>16, <2>1, NoneFits
<1>17. /\ ~r.capped /\ r.buffer = p.buffer /\ IsPrefix(r.names, A)
       /\ IsPrefix(r.recency, Entries(p.recency))
       /\ r.namesCapped => Len(Encoded([p EXCEPT !.sections = 2])) > InputCap
       /\ ~r.namesCapped => r.names = FirstN(A, MaxNames)
  BY <1>9, <1>12, <1>14, <1>15, NothingIsPrefix
<1>18. Right(p, r)
  BY <1>16, <1>17 DEF Right
<1> QED BY <1>9, <1>18 DEF r, s

\* When recency lines are read, cut or not.
LEMMA RecencyRight ==
  ASSUME NEW p \in Payloads, p.sections = 3, (InputCap + 1) - Len(p.buffer) - 1 >= 0,
         ((InputCap + 1) - Len(p.buffer) - 1) - Len(Terminated(p.names)) - 1 >= 0
  PROVE  LET r == ParsePayload(FirstRead(p)) IN (Utf8(p.buffer) => r.ok) /\ Right(p, r)
<1> DEFINE b == p.buffer
           TN == Terminated(p.names)
           TR == Terminated(p.recency)
           B == Len(b)
           N == Len(TN)
           more == ((InputCap + 1) - B - 1) - N - 1
           q == FirstN(TR, more)
           s == FirstRead(p)
           r == ParsePayload(s)
           over == Len(s) > InputCap
           A == Sifted(p.names, NameLines)
           lines == p.recency
           K == Len(lines)
           R(k) == Len(Terminated(SubSeq(lines, 1, k)))
<1>1. /\ IsPayload(p) /\ b \in Seq(SectionBytes) /\ p.names \in Seq(Seq(LineBytes))
      /\ lines \in Seq(Seq(LineBytes)) /\ TN \in Seq(SectionBytes) /\ TR \in Seq(SectionBytes)
  BY PayloadIs, LinesTyped DEF IsPayload
<1>2. /\ more \in Int /\ more >= 0 /\ more \in Nat
      /\ \A L \in Nat, M \in Nat :
           M = (IF L < more THEN L ELSE more) => (B + 1 + (N + 1 + M) > InputCap <=> more <= L)
  <2>1. more >= 0
    OBVIOUS
  <2> QED BY <1>1, <2>1, Room
<1>3. s = b \o (<<Nul>> \o (TN \o (<<Nul>> \o q)))
  BY <1>1, FirstReadIs
<1> HIDE DEF more
<1>4. Len(TR) \in Nat /\ K \in Nat
  BY <1>1, LenProperties
<1>5. /\ q \in Seq(SectionBytes) /\ Len(q) = IF Len(TR) < more THEN Len(TR) ELSE more
      /\ more <= Len(TR) => q = SubSeq(TR, 1, more)
      /\ more >= Len(TR) => q = TR
  <2> HIDE DEF TR
  <2> QED BY <1>1, <1>2, FirstNIs
<1>6. Len(s) = B + 1 + (N + 1 + Len(q))
  <2> DEFINE w == TN \o (<<Nul>> \o q)
  <2>1. q \in Seq(ByteKinds)
    BY <1>5, SeqMonotonic DEF SectionBytes
  <2>2. w \in Seq(ByteKinds) /\ Apart(TN, q, w)
    BY <1>1, <2>1, Separated
  <2>3. Apart(b, w, b \o (<<Nul>> \o w))
    BY <1>1, <2>2, Separated
  <2> HIDE DEF w
  <2>4. s = b \o (<<Nul>> \o w)
    BY <1>3 DEF w
  <2>5. Len(s) = Len(b) + 1 + Len(w)
    BY <2>3, <2>4, Zenon DEF Apart
  <2>6. Len(w) = Len(TN) + 1 + Len(q)
    BY <2>2, Zenon DEF Apart
  <2> QED BY <2>5, <2>6, Zenon
<1>7. over <=> more <= Len(TR)
  <2>1. Len(q) \in Nat
    BY <1>5, LenProperties
  <2>2. B + 1 + (N + 1 + Len(q)) > InputCap <=> more <= Len(TR)
    BY <1>2, <1>4, <1>5, <2>1, Zenon
  <2> QED BY <1>6, <2>2, Zenon
<1>8. r = [ok |-> Utf8(b), buffer |-> b, capped |-> FALSE, names |-> NamesSection(TN, FALSE),
           namesCapped |-> FALSE, recency |-> RecencySection(q, over)]
  BY <1>1, <1>3, <1>5, TwoSeparators
<1> HIDE DEF q, s, r, over
<1>9. /\ r.ok = Utf8(b) /\ r.buffer = b /\ r.capped = FALSE /\ r.names = NamesSection(TN, FALSE)
      /\ r.namesCapped = FALSE /\ r.recency = RecencySection(q, over)
  BY <1>8
<1>10. r.names = FirstN(A, MaxNames)
  BY <1>1, <1>9, NamesWhole
<1>11. IsPrefix(r.names, A)
  <2>1. A \in Seq(Seq(LineBytes)) /\ MaxNames \in Int
    BY <1>1, SiftedTyped, IntakeAssumption
  <2> QED BY <1>10, <2>1, FirstNIs
<1>12. lines \in Seq(Seq(ByteKinds)) /\ Newline \in ByteKinds /\ LineBytes \subseteq ByteKinds
  BY <1>1, LinesTyped
<1>13. \A k \in 0..K : (Fits(p, k) <=> R(k) <= more) /\ FirstN(lines, k) = SubSeq(lines, 1, k)
  BY FitsIs DEF more
<1>14. \A j \in 0..K : \A k \in j..K : R(j) \in Nat /\ R(k) \in Nat /\ R(j) <= R(k)
  <2> TAKE j \in 0..K
  <2> TAKE k \in j..K
  <2>1. k \in 0..K
    BY <1>4
  <2>2. R(k) \in Nat
    BY <1>12, <2>1, PrintedGrows
  <2> QED BY <1>12, <2>2, PrintedGrows
<1>15. R(K) = Len(TR) /\ SubSeq(lines, 1, K) = lines
  <2>1. K \in 0..K
    BY <1>4
  <2>2. SubSeq(lines, 1, K) = lines
    BY <1>1, <2>1, Beginning
  <2> QED BY <2>2
\* The lines that are taken are those up to some k that fits, the next one not.
<1> DEFINE UpTo(k) == /\ k \in 0..K /\ R(k) <= more /\ (k < K => more < R(k + 1))
                       /\ r.recency = Entries(SubSeq(lines, 1, k))
<1>16. \E k : UpTo(k)
  <2>1. CASE ~over
    <3>1. over = FALSE /\ Len(TR) <= more /\ q = TR
      <4> DEFINE L == Len(TR)
      <4>1. ~(more <= L) /\ L \in Nat
        BY <1>4, <1>7, <2>1
      <4> HIDE DEF L
      <4>2. L <= more /\ more >= L
        BY <1>2, <4>1
      <4>3. over = FALSE
        BY <2>1
      <4> QED BY <1>5, <4>2, <4>3, Zenon DEF L
    <3>2. r.recency = Entries(lines)
      BY <1>1, <1>9, <3>1, RecencyWhole
    <3>3. K \in 0..K /\ ~(K < K)
      BY <1>4
    <3>4. UpTo(K)
      BY <1>15, <3>1, <3>2, <3>3
    <3> QED BY <3>4, Zenon
  <2>2. CASE over
    <3>1. over = TRUE
      BY <2>2 DEF over
    <3>2. more \in 0..Len(TR)
      BY <1>2, <1>4, <1>7, <2>2
    <3>3. PICK k, x : LinesUpTo(lines, more, k, x, LineBytes)
      BY <1>1, <1>12, <3>2, CutLines
    <3>4. q = SubSeq(TR, 1, more)
      BY <1>5, <1>7, <2>2
    <3>5. r.recency = Entries(SubSeq(lines, 1, k))
      BY <1>1, <1>9, <3>1, <3>3, <3>4, RecencyCut
    <3>6. UpTo(k)
      BY <3>3, <3>5 DEF LinesUpTo
    <3> QED BY <3>6, Zenon
  <2> QED BY <2>1, <2>2
<1>17. PICK t : UpTo(t)
  BY <1>16
<1>18. ASSUME NEW k \in 0..K, k > 0 => Fits(p, k), k < K => ~Fits(p, k + 1)
       PROVE  r.recency = Entries(FirstN(lines, k))
  <2> HIDE DEF R, K, lines
  <2>1. t \in 0..K /\ R(t) <= more /\ (t < K => more < R(t + 1))
    BY <1>17
  <2>2. ~(k < t)
    <3>1. SUFFICES ASSUME k < t PROVE FALSE
      OBVIOUS
    <3>2. k + 1 \in 0..K /\ t \in (k + 1)..K /\ k < K
      BY <1>4, <2>1, <3>1
    <3>3. ~(R(k + 1) <= more)
      BY <1>13, <1>18, <3>2
    <3>4. R(k + 1) \in Nat /\ R(t) \in Nat /\ R(k + 1) <= R(t)
      BY <1>14, <3>2
    <3> QED BY <1>2, <2>1, <3>3, <3>4
  <2>3. ~(t < k)
    <3>1. SUFFICES ASSUME t < k PROVE FALSE
      OBVIOUS
    <3>2. t + 1 \in 0..K /\ k \in (t + 1)..K /\ t < K /\ k > 0
      BY <1>4, <2>1, <3>1
    <3>3. R(k) <= more /\ more < R(t + 1)
      BY <1>13, <1>18, <2>1, <3>2
    <3>4. R(t + 1) \in Nat /\ R(k) \in Nat /\ R(t + 1) <= R(k)
      BY <1>14, <3>2
    <3> QED BY <1>2, <3>3, <3>4
  <2>4. k = t
    BY <1>4, <2>1, <2>2, <2>3
  <2> QED BY <1>13, <1>17, <2>4
<1>19. IsPrefix(r.recency, Entries(lines))
  BY <1>12, <1>17, EntriesGrow
<1>20. Right(p, r)
  BY <1>9, <1>10, <1>11, <1>18, <1>19 DEF Right
<1> QED BY <1>9, <1>20 DEF r, s

\* Whatever is sent, what is taken of it is right.
LEMMA ReadIsRight ==
  ASSUME NEW p \in Payloads
  PROVE  LET r == ParsePayload(FirstRead(p)) IN (Utf8(p.buffer) => r.ok) /\ Right(p, r)
<1> DEFINE space == (InputCap + 1) - Len(p.buffer) - 1
           more == space - Len(Terminated(p.names)) - 1
<1>1. IsPayload(p) /\ p.sections \in 1..3
  BY PayloadIs DEF IsPayload
<1>2. space \in Int /\ more \in Int
  BY <1>1, Room
<1>3. CASE p.sections = 1 \/ space < 0
  BY <1>3, BufferRight
<1>4. CASE p.sections > 1 /\ space >= 0 /\ (p.sections = 2 \/ more < 0)
  BY <1>4, NamesRight
<1>5. CASE p.sections = 3 /\ space >= 0 /\ more >= 0
  BY <1>5, RecencyRight
<1> HIDE DEF space, more
<1>6. \/ p.sections = 1 \/ space < 0
      \/ p.sections > 1 /\ space >= 0 /\ (p.sections = 2 \/ more < 0)
      \/ p.sections = 3 /\ space >= 0 /\ more >= 0
  BY <1>1, <1>2
<1> QED BY <1>3, <1>4, <1>5, <1>6

\* Until the end of the reading nothing is taken.
IntakeIInv == sent.payload \in Payloads /\ TakenIsSent

\* What is analysed is what was sent, and what is not analysed was cut by the cap
\* (proposal.rs:148-221).
THEOREM TakenIsWhatWasSent == IntakeSpec => []TakenIsSent
<1>1. IntakeInit => IntakeIInv
  <2> SUFFICES ASSUME NEW p \in Payloads, NEW f \in FlagLists, IntakeStart(p, f) PROVE IntakeIInv
    BY DEF IntakeInit
  <2>1. sent.payload = p /\ intake = "reading"
    BY DEF IntakeStart
  <2> QED BY <2>1 DEF IntakeIInv, TakenIsSent, NothingInvented, NothingLost
<1>2. IntakeIInv /\ [IntakeNext]_intakeVars => IntakeIInv'
  <2> SUFFICES ASSUME IntakeIInv, [IntakeNext]_intakeVars PROVE IntakeIInv'
    OBVIOUS
  <2>1. CASE ReadPortion
    BY <2>1 DEF ReadPortion, IntakeIInv, TakenIsSent, NothingInvented, NothingLost
  <2>2. CASE StdinFails
    BY <2>2 DEF StdinFails, IntakeIInv, TakenIsSent, NothingInvented, NothingLost
  <2>3. CASE FromCheckInvocation
    <3> DEFINE p == sent.payload
               r == ParsePayload(FirstRead(p))
    <3>1. p \in Payloads /\ sent' = sent /\ got = FirstRead(p)
      BY <2>3 DEF IntakeIInv, FromCheckInvocation, FirstRead
    <3>2. (Utf8(p.buffer) => r.ok) /\ Right(p, r)
      BY <3>1, ReadIsRight
    <3>3. CASE r.ok
      <4>1. intake' = "parsed" /\ taken'.p = r
        BY <2>3, <3>1, <3>3 DEF FromCheckInvocation
      <4>2. (sent.payload)' = p
        BY <3>1
      <4> HIDE DEF r, p
      <4>3. NothingInvented'
        BY <3>2, <4>1, <4>2 DEF NothingInvented, Right
      <4>4. NothingLost'
        BY <3>2, <4>1, <4>2 DEF NothingLost, Right, Fits
      <4> QED BY <3>1, <4>2, <4>3, <4>4 DEF IntakeIInv, TakenIsSent
    <3>4. CASE ~r.ok
      <4>1. intake' = "unreadable"
        BY <2>3, <3>1, <3>4 DEF FromCheckInvocation
      <4> QED BY <3>1, <3>2, <3>4, <4>1 DEF IntakeIInv, TakenIsSent, NothingInvented, NothingLost
    <3> QED BY <3>3, <3>4
  <2>4. CASE IntakeOver \/ UNCHANGED intakeVars
    BY <2>4 DEF IntakeOver, intakeVars, IntakeIInv, TakenIsSent, NothingInvented, NothingLost
  <2> QED BY <2>1, <2>2, <2>3, <2>4 DEF IntakeNext
<1>3. IntakeIInv => TakenIsSent
  BY DEF IntakeIInv
<1> QED BY <1>1, <1>2, <1>3, PTL DEF IntakeSpec
=============================================================================
