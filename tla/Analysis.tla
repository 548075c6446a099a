------------------------------- MODULE Analysis -------------------------------
(***************************************************************************)
(* What one check finds in a line (check in src/main.rs, up to the         *)
(* intervention): lex, look for a typo when the shell could not resolve    *)
(* the first word, run the danger rules over every segment, collect the    *)
(* context when one fired, assess, ask the model about what stays open,    *)
(* and cap the verdict for the mode.                                       *)
(*                                                                         *)
(* The layers are operators of Lexer, Typo, Danger and Context; here is    *)
(* their order, and what the outside may answer in between: the entries    *)
(* of a directory in any order, the files, git and the model.  Admission   *)
(* and the prompts come after (Guard).                                     *)
(***************************************************************************)
EXTENDS Typo, Danger, Context, SequencesExt

CONSTANTS
  Inputs,         \* [line, resolved]: a line, and whether the shell resolved
                  \* its first word
  Shells,         \* [names, path, dirs]: names the shell supplies, directories
                  \* on PATH, and the entries of those that can be read
  Worlds,         \* see Context
  MaxDirEntries   \* MAX_DIR_ENTRIES

\* Lines and paths are sequences, the end of a line is no character, names are
\* words, and a directory has finitely many entries.  A status lists the tracked
\* changes before the untracked files, as git does, and the caps leave room for a
\* whole line of it.
ASSUME AnalysisAssumption ==
  /\ MaxDirEntries \in Nat
  /\ \A in \in Inputs : in.line \in Seq({in.line[k] : k \in DOMAIN in.line} \ {End})
  /\ \A sh \in Shells :
       /\ sh.names \in Seq(Seq(LetterSet))
       /\ sh.path \in Seq({sh.path[k] : k \in DOMAIN sh.path})
       /\ \A d \in DOMAIN sh.dirs :
            IsFiniteSet(sh.dirs[d]) /\ \A e \in sh.dirs[d] : e.name \in Seq(LetterSet)
  /\ LineCap \in Nat /\ LineCap > 1 /\ OutputCap \in Nat /\ OutputCap > 1
  /\ \A w \in Worlds : w.status # Unavailable =>
       /\ w.status \in Seq({"M", "??"})
       /\ \A j, k \in DOMAIN w.status : j < k /\ w.status[k] = "M" => w.status[j] = "M"

VARIABLES
  line, resolved,   \* the proposal
  stage,            \* the layer at work
  lx,               \* the lexer
  shell,            \* what the typo search searches
  search,           \* the typo search
  dirs,             \* directories still to read
  entries,          \* entries of the current directory still to come
  examined,         \* how many of them came
  suggestion,       \* the candidate
  rest,             \* tokens the danger layer has not seen
  an,               \* the danger analysis
  world, ctx,       \* the files, and what was collected of them
  warranted,        \* the assessment of the matrix
  answer,           \* the model's
  action            \* what is to be done

proposal == <<line, resolved>>
typo == <<shell, search, dirs, entries, examined, suggestion>>
facts == <<world, ctx>>
vars == <<proposal, stage, lx, typo, rest, an, facts, warranted, answer, action>>

NoShell == [names |-> <<>>, path |-> <<>>, dirs |-> <<>>]
NoWorld == [dotgit |-> <<>>, head |-> NoRepo, status |-> <<>>, fs |-> <<>>]
NoAction == [ask |-> "nothing", capped |-> Assess("allow", "none"), replacement |-> <<>>]

CheckStart(in) ==
  /\ line = in.line /\ resolved = in.resolved
  /\ stage = "lex" /\ lx = Start
  /\ shell = NoShell /\ search = NoSearch /\ suggestion = NoName
  /\ dirs = <<>> /\ entries = {} /\ examined = 0
  /\ rest = <<>> /\ an = Nowhere
  /\ world = NoWorld /\ ctx = NoContext
  /\ warranted = Assess("allow", "none") /\ answer = "none" /\ action = NoAction
Init == \E in \in Inputs : CheckStart(in)

Word == LiteralCommandWord(lx.tokens)

LexNext ==
  /\ stage = "lex" /\ lx.i <= Len(line)
  /\ lx' = LexStep(line, lx)
  /\ UNCHANGED <<proposal, stage, typo, rest, an, facts, warranted, answer, action>>

Lexed ==
  /\ stage = "lex" /\ lx.i > Len(line)
  /\ stage' = IF ~resolved /\ Word # NoName THEN "names" ELSE "danger"
  /\ rest' = lx.tokens
  /\ UNCHANGED <<proposal, lx, typo, an, facts, warranted, answer, action>>

-----------------------------------------------------------------------------
(* The typo search                                                           *)

SearchNames ==
  /\ stage = "names"
  /\ \E sh \in Shells :
       /\ shell' = sh /\ dirs' = sh.path
       /\ search' = TakeNames(Word, sh.names)
  /\ stage' = "scan"
  /\ UNCHANGED <<proposal, lx, entries, examined, suggestion, rest, an, facts, warranted,
                 answer, action>>

ReadOn == entries # {} /\ examined < MaxDirEntries

\* A directory is read once, however often it is on PATH.
OpenDir ==
  /\ stage = "scan" /\ ~ReadOn /\ dirs # <<>>
  /\ LET before == {shell.path[k] : k \in 1..(Len(shell.path) - Len(dirs))}
     IN  entries' = IF Head(dirs) \in DOMAIN shell.dirs \ before
                    THEN shell.dirs[Head(dirs)] ELSE {}
  /\ examined' = 0 /\ dirs' = Tail(dirs)
  /\ UNCHANGED <<proposal, stage, lx, shell, search, suggestion, rest, an, facts, warranted,
                 answer, action>>

\* Whichever entry the directory gives next.
ScanEntry ==
  /\ stage = "scan" /\ ReadOn
  /\ \E e \in entries :
       /\ search' = TakeEntry(search, Word, e)
       /\ entries' = entries \ {e}
  /\ examined' = examined + 1
  /\ UNCHANGED <<proposal, stage, lx, shell, dirs, suggestion, rest, an, facts, warranted,
                 answer, action>>

Searched ==
  /\ stage = "scan" /\ ~ReadOn /\ dirs = <<>>
  /\ suggestion' = Suggestion(search)
  /\ stage' = "danger"
  /\ UNCHANGED <<proposal, lx, shell, search, dirs, entries, examined, rest, an, facts,
                 warranted, answer, action>>

-----------------------------------------------------------------------------
(* Danger, context, verdict                                                  *)

\* One segment, through the operator that ends it.  A panic ends the process.
NextSegment ==
  /\ stage = "danger"
  /\ LET e == SegmentEnd(rest)
         found == AnalyzeSegment(SubSeq(rest, 1, e - 1), an)
     IN  /\ an' = found
         /\ rest' = Drop(rest, e)
         /\ stage' = IF found.panicked THEN "panicked"
                     ELSE IF e <= Len(rest) THEN "danger"
                     ELSE IF found.codes = {} THEN "matrix" ELSE "collect"
  /\ UNCHANGED <<proposal, lx, typo, facts, warranted, answer, action>>

CollectContext ==
  /\ stage = "collect"
  /\ \E w \in Worlds : world' = w /\ ctx' = Collect(w, an.targets)
  /\ stage' = "matrix"
  /\ UNCHANGED <<proposal, lx, typo, rest, an, warranted, answer, action>>

Warrant ==
  /\ stage = "matrix"
  /\ warranted' = Warranted(an, ctx)
  /\ stage' = "model"
  /\ UNCHANGED <<proposal, lx, typo, rest, an, facts, answer, action>>

\* Without a configured model, or past a closed gate, there is no answer.
ConsultModel ==
  /\ stage = "model"
  /\ answer' \in IF L4Gate(an, warranted) THEN Answers ELSE {"none"}
  /\ stage' = "decide"
  /\ UNCHANGED <<proposal, lx, typo, rest, an, facts, warranted, action>>

Assessed == ApplyModelEvidence(warranted, answer)

\* A warning goes before a correction; a correction is offered only when its
\* line can be built.
Decide(mode) ==
  LET capped == CapForMode(Assessed, mode)
      replacement == ReplacementBuffer(line, Word, suggestion)
  IN  /\ stage = "decide"
      /\ stage' = "done"
      /\ action' =
           IF capped.verdict \in {"warn", "confirm"}
           THEN [NoAction EXCEPT !.ask = "warning", !.capped = capped]
           ELSE IF suggestion # NoName /\ mode # "shadow" /\ replacement # <<>>
           THEN [ask |-> "typo", capped |-> capped, replacement |-> replacement]
           ELSE [NoAction EXCEPT !.capped = capped]
      /\ UNCHANGED <<proposal, lx, typo, rest, an, facts, warranted, answer>>

Step ==
  \/ LexNext \/ Lexed
  \/ SearchNames \/ OpenDir \/ ScanEntry \/ Searched
  \/ NextSegment \/ CollectContext \/ Warrant \/ ConsultModel
  \/ \E mode \in Modes : Decide(mode)

Over == stage \in {"done", "panicked"} /\ UNCHANGED vars
Next == Step \/ Over

Spec == Init /\ [][Next]_vars

-----------------------------------------------------------------------------
(* References the layers are compared with                                   *)

\* Quoting as a shell reads it, a character at a time.  words has the texts and
\* the operators in order; active: something is expanded or left unclosed; skip:
\* constructs this reference does not read, line continuation among them.
ActiveDollar(s, i, extra) ==
  s[i] = "$" /\ At(s, i + 1) \in NameAtoms \cup Digits \cup Specials \cup {"(", "{"} \cup extra
Reads(s) ==
  LET close(r) == IF r.open THEN [r EXCEPT !.words = Append(@, <<"word", r.cur>>),
                                           !.cur = <<>>, !.open = FALSE] ELSE r
      add(r, c) == [r EXCEPT !.cur = Append(@, c), !.open = TRUE, !.mode = "plain"]
      inside(r, c) == [r EXCEPT !.cur = Append(@, c)]
      enter(r, mode) == [r EXCEPT !.mode = mode, !.open = TRUE]
      plain(r, i) ==
        LET c == s[i]
        IN  IF c = "\\" THEN [r EXCEPT !.mode = "escape"]
            ELSE IF c = "'" THEN enter(r, "single")
            ELSE IF c = "\"" THEN enter(r, "double")
            ELSE IF c \in {"<", ">", "(", ")", Backquote} THEN [r EXCEPT !.skip = TRUE]
            ELSE IF c = " " THEN close(r)
            ELSE IF c \in {"\n", "&", "|", ";"}
            THEN [close(r) EXCEPT !.words = Append(@, <<"op", c>>)]
            ELSE [add(r, c) EXCEPT !.active = \/ @ \/ c \in Globs \/ ActiveDollar(s, i, {"'"})
                                              \/ (c = "=" /\ ~r.open)]
      step(r, i) ==
        IF r.skip \/ r.active THEN r
        ELSE IF r.mode = "plain" THEN plain(r, i)
        ELSE IF r.mode = "escape"
        THEN IF s[i] = "\n" THEN [r EXCEPT !.skip = TRUE] ELSE add(r, s[i])
        ELSE IF r.mode = "single"
        THEN IF s[i] = "'" THEN [r EXCEPT !.mode = "plain"] ELSE inside(r, s[i])
        ELSE IF r.mode = "inner"
        THEN IF s[i] = "\n" THEN [r EXCEPT !.skip = TRUE]
             ELSE [r EXCEPT !.cur = @ \o IF s[i] \in Escapable THEN <<s[i]>> ELSE <<"\\", s[i]>>,
                            !.mode = "double"]
        ELSE IF s[i] = "\"" THEN [r EXCEPT !.mode = "plain"]
        ELSE IF s[i] = "\\" THEN [r EXCEPT !.mode = "inner"]
        ELSE [inside(r, s[i]) EXCEPT !.active = @ \/ s[i] = Backquote \/ ActiveDollar(s, i, {})]
      end == FoldLeftDomain(step, [mode |-> "plain", cur |-> <<>>, open |-> FALSE,
                                   words |-> <<>>, active |-> FALSE, skip |-> FALSE], s)
  IN  [close(end) EXCEPT !.active = @ \/ end.mode \in {"single", "double", "inner"}]

\* The lexer's tokens in the same form.
Flat(tokens) ==
  FoldLeft(LAMBDA acc, t : acc \o IF IsWord(t) THEN <<<<"word", t.text>>>>
                                  ELSE [k \in DOMAIN t.text |-> <<"op", t.text[k]>>], <<>>, tokens)

\* The least cost of turning a into b, from their first letters on.
AlignmentCost(a, b) ==
  LET cost[p \in (1..(Len(a) + 1)) \X (1..(Len(b) + 1))] ==
        LET i == p[1]
            j == p[2]
            swaps == i < Len(a) /\ j < Len(b) /\ a[i] = b[j + 1] /\ a[i + 1] = b[j]
        IN  IF i > Len(a) THEN Len(b) + 1 - j ELSE IF j > Len(b) THEN Len(a) + 1 - i
            ELSE Min({cost[<<i + 1, j + 1>>] + Cost(a[i], b[j]),
                      cost[<<i + 1, j>>] + 1, cost[<<i, j + 1>>] + 1}
                     \cup IF swaps THEN {cost[<<i + 2, j + 2>>] + 1} ELSE {})
  IN  cost[<<1, 1>>]

\* The segments of a line and what each is found to be by itself.
Cuts(tokens) == {0, Len(tokens) + 1} \cup {k \in DOMAIN tokens : IsOp(tokens[k])}
SegmentAt(tokens, j) == SubSeq(tokens, j + 1, Min({k \in Cuts(tokens) : k > j}) - 1)
Segments(tokens) == {SegmentAt(tokens, j) : j \in Cuts(tokens) \ {Len(tokens) + 1}}
Alone(t) == AnalyzeSegment(t, Nowhere)

\* What a whole line is found to be, a segment after the other.
AnalyzeAll(tokens) ==
  LET upto[j \in Cuts(tokens)] ==
        LET i == Max({k \in Cuts(tokens) : k < j})
        IN  IF j = 0 THEN Nowhere ELSE AnalyzeSegment(SegmentAt(tokens, i), upto[i])
  IN  upto[Len(tokens) + 1]

-----------------------------------------------------------------------------
(* Properties                                                                *)

\* "This lexer must tokenize the way the shell will" (lexer.rs:36-43): where
\* nothing is expanded the words are the shell's, after quote removal, and where
\* something is, the lexer says so: some word expands or some span is uncertain.
WordsAreTheShells ==
  stage # "lex" =>
    LET r == Reads(line)
        expands == \E k \in DOMAIN lx.tokens : lx.tokens[k].expands
    IN  r.skip \/ IF r.active THEN expands \/ lx.uncertainty # {}
                  ELSE Flat(lx.tokens) = r.words /\ ~expands /\ lx.uncertainty = {}

\* The body of a heredoc is data: the line that opens it is not followed by
\* another one's tokens (lexer.rs:139-150).
HeredocBodyIsData ==
  \A k \in DOMAIN lx.tokens :
    IsRedirect(lx.tokens[k]) /\ lx.tokens[k].text \in {<<"<", "<">>, <<"<", "<", "-">>} =>
      \A j \in (k + 1)..Len(lx.tokens) : ~(IsOp(lx.tokens[j]) /\ lx.tokens[j].text = <<"\n">>)

\* Every turn of the lexer's loop moves on, so the loop ends: "i is strictly
\* increasing" (lexer.rs:132-133).
LexerAdvances ==
  stage = "lex" /\ lx.i <= Len(line) => LexStep(line, lx).i > lx.i

\* "Quoting is the shell's business": putting any bare word in quotes changes
\* nothing of what the danger layer finds (danger.rs:13-15).
Bare(k) ==
  /\ line[k] \in NameAtoms \cup Dashed
  /\ k = 1 \/ line[k - 1] \in Blanks
  /\ At(line, k + 1) \in Blanks \cup {End, ";", "|"}
QuotingHidesNothing ==
  stage = "matrix" =>
    \A k \in {j \in DOMAIN line : Bare(j)} :
      \A q \in {"'", "\""} :
        LET quoted == SubSeq(line, 1, k - 1) \o <<q, line[k], q>> \o SubSeq(line, k + 1, Len(line))
        IN  Reads(line).skip \/ Reads(line).active \/ AnalyzeAll(Lex(quoted).tokens) = an

\* The lexer ends, with the words the shell will see and none it will not, and what
\* the danger layer makes of them is what the shell would run.
LexesAsTheShell ==
  WordsAreTheShells /\ HeredocBodyIsData /\ LexerAdvances /\ QuotingHidesNothing

\* Nothing one segment does hides what another is found to be by itself.  Only
\* priv.sudo may be missing: it is noted when the wrapped command adds a code,
\* and an earlier segment may have added the same (danger.rs:145-155).
NoSegmentShields ==
  stage = "matrix" =>
    \A t \in Segments(lx.tokens) :
      /\ Alone(t).codes \ {"priv.sudo"} \subseteq an.codes
      /\ Alone(t).catastrophic => an.catastrophic

\* What the search could find: the shell's names, and the executables of the
\* directories on PATH that can be read.
PathEntries == UNION {shell.dirs[d] : d \in {shell.path[k] : k \in DOMAIN shell.path} \cap DOMAIN shell.dirs}
Available == {n \in ToSet(shell.names) \cup {e.name : e \in {x \in PathEntries : x.exec}} :
                Plausible(n) /\ Len(n) <= MaxNameBytes}
Limited == search.stats >= MaxStats \/ \E d \in DOMAIN shell.dirs :
                                         Cardinality(shell.dirs[d]) > MaxDirEntries

\* In whatever order the directories list their entries, a search that met none
\* of its limits suggests the nearest name there is, the first in order among
\* equals, and nothing when the word itself is one (typo.rs:86-147).
NearestWins ==
  stage = "danger" /\ shell # NoShell /\ ~Limited =>
    LET dist(n) == AlignmentCost(Word, n)
        near == {n \in Available : dist(n) <= MaxDistance(Len(Word))}
        first(n) == \A o \in near : \/ dist(n) < dist(o) \/ o = n
                                    \/ dist(n) = dist(o) /\ Precedes(n, o)
    IN  IF near = {} \/ Word \in near THEN suggestion = NoName
        ELSE suggestion \in near /\ first(suggestion)

\* Even when the stat budget is spent, a word that is an executable on PATH gets
\* no suggestion (typo.rs:125-133).
ExactMatchSilences ==
  stage = "danger" /\ shell # NoShell /\ Word \in Available
    /\ (\A d \in DOMAIN shell.dirs : Cardinality(shell.dirs[d]) <= MaxDirEntries)
    => suggestion = NoName

\* The suggestion is the right one, or none.
SuggestionIsNearest == NearestWins /\ ExactMatchSilences

\* A correction that is offered reads as the line did, the first word aside:
\* "every other byte preserved", and the shell parses it no differently
\* (typo.rs:153-159, 223-230). A name of digits just before a redirection becomes its
\* descriptor instead (lexer.rs:165-178): in that case the property does not hold.
Corrects(new, old) ==
  /\ Tail(new.tokens) = Tail(old.tokens)
  /\ new.tokens[1] = [old.tokens[1] EXCEPT !.text = suggestion]
  /\ new.uncertainty = old.uncertainty
IsDescriptor ==
  /\ \A k \in DOMAIN suggestion : suggestion[k] \in Digits
  /\ At(line, SkipAll(line, 1, Blanks) + Len(Word)) \in {"<", ">"}
ReplacementKeepsTheRest ==
  action.ask = "typo" /\ ~IsDescriptor => Corrects(Lex(action.replacement), lx)

\* The operands of every recursive rm of the line.
RmOperands ==
  UNION {LET ws == SegmentWords(t)
         IN  IF ws # <<>> /\ CommandName(ws[1].text) = <<"rm">>
                /\ "fs.rm_recursive" \in Alone(t).codes
             THEN {ws[k] : k \in {j \in 2..Len(ws) : ~LooksLikeFlag(ws[j])}} ELSE {}
         : t \in Segments(lx.tokens)}

\* "Context affirmatively clean" is true of the files: a cleared reset has no
\* tracked change to lose, a cleared clean no untracked file, and of a cleared rm
\* every operand has a known value and exists, or is empty and names nothing.
\* Assumed is that no cap cut the evidence: a status of LineCap or OutputCap
\* lines, or MaxTargets targets.
AllowIsVouched ==
  warranted = Clear =>
    /\ "git.reset_hard" \in an.codes => ~Contains(world.status, "M")
    /\ "git.clean_force" \in an.codes /\ Len(world.status) < Min({LineCap, OutputCap})
         => ~Contains(world.status, "??")
    /\ an.codes \cap {"git.reset_hard", "git.clean_force", "git.push_force"} = {}
         /\ Len(an.targets) < MaxTargets
         => \A w \in RmOperands : ~w.expands /\ (w.text = <<>> \/ w.text \in DOMAIN world.fs)

\* The model is evidence, not authority: it is asked only where the facts leave
\* a question, never lowers a verdict, and a confirmation comes from the
\* catastrophic rules alone (policy.rs:136-175).
EvidenceNeverDecides ==
  stage = "done" =>
    /\ Rank[Assessed.verdict] >= Rank[warranted.verdict]
    /\ Assessed.verdict = "confirm" <=> an.catastrophic
    /\ answer # "none" => an.codes # {} /\ warranted.verdict = "observe"

\* A line is cleared by facts that are so, and the model decides nothing.
VerdictIsEarned == AllowIsVouched /\ EvidenceNeverDecides

\* "Catastrophic deletes ask for confirmation, always" (ARCHITECTURE.md:659):
\* when the analysis is over, a line with such a delete warrants confirmation.
CatastrophicConfirmed ==
  stage \in {"done", "panicked"} =>
    \A t \in Segments(lx.tokens) : Alone(t).catastrophic => warranted.verdict = "confirm"
===============================================================================
