-------------------------------- MODULE Intake --------------------------------
(***************************************************************************)
(* What `check` is given (src/proposal.rs): the command line as typed, how *)
(* the shell resolved its command word, the names only the shell knows and *)
(* a summary of the last commands.                                         *)
(*                                                                         *)
(* The plugin writes `buffer NUL names NUL recency` to a pipe, names and   *)
(* recency as lines (zsh/oopsinput.zsh:185-192); an older one may stop     *)
(* after a section.  The binary reads one byte more than its cap and takes *)
(* what it has apart.  Bytes are a few kinds: letters, Lead and Cont of a  *)
(* character of two bytes, Bad in none.  A recency line has one byte for   *)
(* each of its fields and none between them.                               *)
(***************************************************************************)
EXTENDS Integers, Sequences, SequencesExt

CONSTANTS
  ByteKinds,   \* the kinds of bytes
  Payloads,    \* what the plugin may send: [buffer, names, recency, sections]
  FlagLists,   \* argument lists it may pass
  InputCap,    \* MAX_INPUT_BYTES
  MaxNames,    \* MAX_NAMES
  MaxRecency   \* MAX_RECENCY

Nul == "nul"
Newline == "newline"

\* The widget relies on it that none of its strings has a NUL
\* (zsh/oopsinput.zsh:172).  That no name has a newline is assumed: zsh allows one
\* in the name of an alias or a function, which `print -rl` then sends as two names.
ASSUME IntakeAssumption ==
  /\ InputCap \in Nat \ {0} /\ MaxNames \in Nat /\ MaxRecency \in Nat
  /\ {Nul, Newline} \subseteq ByteKinds
  /\ Payloads \subseteq [buffer : Seq(ByteKinds \ {Nul}), sections : 1..3,
                         names : Seq(Seq(ByteKinds \ {Nul, Newline})),
                         recency : Seq(Seq(ByteKinds \ {Nul, Newline}))]

VARIABLES
  sent,       \* the payload and the flags of this call
  got,        \* bytes read so far
  intake,     \* "reading", "parsed", "unreadable", or "failed" when stdin did
  taken       \* what `check` works on, once parsed

intakeVars == <<sent, got, intake, taken>>

\* print -rl
Terminated(lines) ==
  LET bytes[n \in 0..Len(lines)] ==
        IF n = 0 THEN <<>> ELSE bytes[n - 1] \o Append(lines[n], Newline)
  IN bytes[Len(lines)]

\* The bytes of a payload.
Encoded(p) ==
  p.buffer \o (IF p.sections > 1 THEN <<Nul>> \o Terminated(p.names) ELSE <<>>)
           \o (IF p.sections > 2 THEN <<Nul>> \o Terminated(p.recency) ELSE <<>>)

IntakeStart(p, f) ==
  /\ sent = [payload |-> p, flags |-> f] /\ got = <<>>
  /\ intake = "reading" /\ taken = <<>>
IntakeInit == \E p \in Payloads, f \in FlagLists : IntakeStart(p, f)

-----------------------------------------------------------------------------
(* Taking bytes apart *)

\* split(|&b| b == b'\n'): the lines that end in a newline, and what follows.
SplitLines(bytes) ==
  LET upto[n \in 0..Len(bytes)] ==
        IF n = 0 THEN [lines |-> <<>>, last |-> <<>>]
        ELSE IF bytes[n] = Newline
        THEN [lines |-> Append(upto[n - 1].lines, upto[n - 1].last), last |-> <<>>]
        ELSE [upto[n - 1] EXCEPT !.last = Append(@, bytes[n])]
  IN upto[Len(bytes)]
AllOf(split) == Append(split.lines, split.last)

\* filter
Sifted(lines, good) ==
  LET sifted[n \in 0..Len(lines)] ==
        IF n = 0 THEN <<>>
        ELSE IF lines[n] \in good THEN Append(sifted[n - 1], lines[n]) ELSE sifted[n - 1]
  IN sifted[Len(lines)]

Utf8(s) ==
  \A k \in DOMAIN s :
    /\ s[k] # "bad"
    /\ s[k] = "lead" => k < Len(s) /\ s[k + 1] = "cont"
    /\ s[k] = "cont" => k > 1 /\ s[k - 1] = "lead"

FirstN(s, n) == SubSeq(s, 1, IF Len(s) < n THEN Len(s) ELSE n)
NulAt(bytes) ==
  LET nuls == {k \in DOMAIN bytes : bytes[k] = Nul} IN IF nuls = {} THEN 0 ELSE Min(nuls)

\* A payload of the buffer alone: capped at a character boundary.
BufferFromBytes(bytes) ==
  LET capped == Len(bytes) > InputCap
      kept == FirstN(bytes, InputCap)
      midway == capped /\ Last(kept) = "lead" /\ Utf8(Front(kept))
  IN [text |-> IF midway THEN Front(kept) ELSE kept, capped |-> capped, ok |-> midway \/ Utf8(kept)]

\* parse_names_section: the line that may have been cut is dropped.
NameLines == {n \in Seq(ByteKinds) : n # <<>> /\ Utf8(n)}
NamesSection(bytes, cut) ==
  LET names == FirstN(Sifted(AllOf(SplitLines(bytes)), NameLines), MaxNames)
  IN IF cut THEN FirstN(names, Len(names) - 1) ELSE names

\* sanitize_word; an absent word is "_" too.
Field(line, k) == IF Len(line) >= k /\ line[k] # "$" THEN line[k] ELSE "_"

\* parse_recency_line
Parses(line) == Len(line) >= 2 /\ line[1] = "1" /\ line[2] \in {"0", "1"}
Entry(line) == [age |-> 1, shares |-> line[2] = "1", cmd |-> Field(line, 3), sub |-> Field(line, 4)]
RecencyLines == {l \in Seq(ByteKinds) : Utf8(l) /\ Parses(l)}
Entries(lines) ==
  LET kept == Sifted(lines, RecencyLines)
  IN [k \in DOMAIN FirstN(kept, MaxRecency) |-> Entry(kept[k])]

\* A plausible error: the cut line is looked for after parsing, when it has
\* often gone by itself.
RecencySectionParsedFirst(bytes, cut) ==
  LET entries == Entries(AllOf(SplitLines(bytes)))
  IN IF cut /\ entries # <<>> THEN Front(entries) ELSE entries

\* parse_recency_section: the raw line that may have been cut is dropped first.
RecencySection(bytes, cut) ==
  LET split == SplitLines(bytes) IN Entries(IF cut THEN split.lines ELSE AllOf(split))

\* parse_payload.  A separator is looked for in all that was read: one just past
\* the cap still says that the buffer is complete.
ParsePayload(bytes) ==
  LET pos == NulAt(bytes)
      overCap == Len(bytes) > InputCap
      text == SubSeq(bytes, 1, pos - 1)
      rest == SubSeq(bytes, pos + 1, Len(bytes))
      end == NulAt(rest)
      namesCapped == overCap /\ end = 0
  IN IF pos = 0
     THEN LET b == BufferFromBytes(bytes)
          IN [ok |-> b.ok, buffer |-> b.text, capped |-> b.capped, names |-> <<>>,
              namesCapped |-> FALSE, recency |-> <<>>]
     ELSE [ok |-> Utf8(text), buffer |-> text, capped |-> FALSE,
           names |-> NamesSection(IF end = 0 THEN rest ELSE SubSeq(rest, 1, end - 1), namesCapped),
           namesCapped |-> namesCapped,
           recency |-> RecencySection(IF end = 0 THEN <<>> ELSE SubSeq(rest, end + 1, Len(rest)),
                                      overCap /\ end # 0)]

\* ResolutionKind::parse
Kinds == {"alias", "function", "builtin", "command", "hashed", "reserved", "none", "unknown"}
KindOf(v) == IF v \in Kinds THEN v ELSE "other"

\* The argument loop of from_check_invocation: --res takes the next argument as
\* its value whatever it is, the last one counts, any other flag is skipped.
Resolution(args) ==
  FoldLeft(LAMBDA acc, a : IF acc.flag THEN [flag |-> FALSE, kind |-> KindOf(a)]
                           ELSE [acc EXCEPT !.flag = (a = "--res")],
           [flag |-> FALSE, kind |-> "unknown"], args).kind

-----------------------------------------------------------------------------
(* Reading *)

\* read_to_end over a pipe: any number of bytes at a time.
ReadPortion ==
  /\ intake = "reading"
  /\ \E n \in 1..Len(FirstN(Encoded(sent.payload), InputCap + 1)) - Len(got) :
       got' = FirstN(Encoded(sent.payload), Len(got) + n)
  /\ UNCHANGED <<sent, intake, taken>>

StdinFails ==
  /\ intake = "reading"
  /\ intake' = "failed"
  /\ UNCHANGED <<sent, got, taken>>

\* The end of the input, or of what is read of it.
FromCheckInvocation ==
  /\ intake = "reading" /\ got = FirstN(Encoded(sent.payload), InputCap + 1)
  /\ LET p == ParsePayload(got)
     IN IF p.ok THEN intake' = "parsed" /\ taken' = [p |-> p, res |-> Resolution(sent.flags)]
                ELSE intake' = "unreadable" /\ UNCHANGED taken
  /\ UNCHANGED <<sent, got>>

IntakeOver == intake # "reading" /\ UNCHANGED intakeVars

IntakeNext == ReadPortion \/ StdinFails \/ FromCheckInvocation \/ IntakeOver

IntakeSpec == IntakeInit /\ [][IntakeNext]_intakeVars

-----------------------------------------------------------------------------
(* Properties *)

\* Nothing is analysed that was not sent: the command line, or, capped, a prefix
\* of it; names and commands in the order sent, never the half of one that the
\* cap cut ("dropped, never guessed at", proposal.rs:183-184, 212-215).
NothingInvented ==
  intake = "parsed" =>
    LET p == taken.p
        s == sent.payload
    IN /\ IF p.capped THEN IsPrefix(p.buffer, s.buffer) ELSE p.buffer = s.buffer
       /\ IsPrefix(p.names, Sifted(s.names, NameLines))
       /\ IsPrefix(p.recency, Entries(s.recency))

\* Nothing is lost but by the cap, and where it is, that is said: a command line is
\* capped only when it is longer than the cap itself, and only invalid bytes that it
\* had when it was sent make it unreadable; names are missing only past MAX_NAMES
\* or with one of the two flags set, which the event records; and of the recency
\* lines every one that was read to its end is taken (proposal.rs:56-59, 65-67,
\* 150-152, 212-215, 268-270; main.rs:309-314).
NothingLost ==
  LET s == sent.payload
      p == taken.p
      Read(k) == Len(Encoded([s EXCEPT !.recency = FirstN(@, k)])) <= InputCap + 1
  IN /\ intake = "unreadable" => ~Utf8(s.buffer)
     /\ intake = "parsed" =>
          /\ p.capped => Len(s.buffer) > InputCap
          /\ p.namesCapped => Len(Encoded([s EXCEPT !.sections = 2])) > InputCap
          /\ s.sections > 1 /\ ~p.capped /\ ~p.namesCapped =>
               p.names = FirstN(Sifted(s.names, NameLines), MaxNames)
          /\ s.sections = 3 =>
               \A k \in 0..Len(s.recency) :
                 (k > 0 => Read(k)) /\ (k < Len(s.recency) => ~Read(k + 1))
                   => p.recency = Entries(FirstN(s.recency, k))

\* What is analysed is what was sent.
TakenIsSent == NothingInvented /\ NothingLost
=============================================================================
