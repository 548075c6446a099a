------------------------------- MODULE Context -------------------------------
(***************************************************************************)
(* The context layer (src/layers/context.rs) and the decision matrix and   *)
(* its gates (src/policy.rs): what the working directory says about a      *)
(* command the danger layer marked, and the verdict that warrants.         *)
(*                                                                         *)
(* A world is what the files are at that moment: dotgit, per directory     *)
(* from the working directory up, what .git is; head, what HEAD names;     *)
(* status, the lines git status would print, "M" for a tracked change and  *)
(* "??" for an untracked file, or Unavailable when it fails or is late;    *)
(* and fs, what each existing path is.                                     *)
(***************************************************************************)
EXTENDS Integers, Sequences, FiniteSets, Distance, FiniteSetsExt

CONSTANTS
  WalkUpCap,    \* WALK_UP_CAP
  LineCap,      \* STATUS_LINE_CAP
  OutputCap,    \* GIT_OUTPUT_CAP, in lines
  Unavailable,  \* a fact that could not be had
  NoRepo        \* the facts of a directory in no repository

-----------------------------------------------------------------------------
(* Facts                                                                     *)

\* The first .git on the way up; only a directory or a well-formed gitfile
\* leads to a HEAD.
RepoHead(world) ==
  LET found == {k \in DOMAIN world.dotgit : k <= WalkUpCap /\ world.dotgit[k] # "absent"}
  IN  IF found # {} /\ world.dotgit[Min(found)] \in {"dir", "gitfile"} THEN world.head ELSE NoRepo

\* The lines that are parsed; when the output was cut, its last line is not.
Parsed(status) ==
  LET cut == Len(status) >= OutputCap
      lines == SubSeq(status, 1, Min({Len(status), OutputCap, LineCap}))
  IN  IF cut THEN SubSeq(lines, 1, Len(lines) - 1) ELSE lines

\* dirty and untracked are Unavailable together.
GitFacts(world) ==
  LET lines == Parsed(world.status)
      known == world.status # Unavailable
  IN  IF RepoHead(world) = NoRepo THEN NoRepo
      ELSE [detached |-> world.head = "detached",
            mainLike |-> world.head \in {"main", "master", "trunk"},
            dirty |-> IF known THEN Cardinality({k \in DOMAIN lines : lines[k] # "??"}) ELSE Unavailable,
            untracked |-> IF known THEN \E k \in DOMAIN lines : lines[k] = "??" ELSE Unavailable]

\* A name beside the missing one within typo distance of it.
HasNearSibling(world, text) ==
  /\ Len(text) >= 2
  /\ \E s \in DOMAIN world.fs :
       BoundedOsa(text, s, MaxDistance(Len(text))) \in 1..MaxDistance(Len(text))

\* A symbolic link is there even when it leads nowhere; only a path that can be
\* resolved is compared with the working directory.
TargetFact(world, text) ==
  LET exists == text \in DOMAIN world.fs
      node == IF exists THEN world.fs[text] ELSE "absent"
  IN  [exists |-> exists, isCwd |-> node = "cwd", isParent |-> node = "parent",
       nearMiss |-> ~exists /\ HasNearSibling(world, text)]

Collect(world, targets) ==
  [git |-> GitFacts(world), targets |-> [k \in DOMAIN targets |-> TargetFact(world, targets[k])]]
NoContext == [git |-> NoRepo, targets |-> <<>>]

-----------------------------------------------------------------------------
(* The matrix                                                                *)

Rank == [allow |-> 0, observe |-> 1, warn |-> 2, confirm |-> 3]
Assess(verdict, reason) == [verdict |-> verdict, reason |-> reason]
Unknowable == Assess("observe", "policy.evidence_unavailable")
Clear == Assess("allow", "policy.context_clear")

WorkLoss(an, git) ==
  LET reset == "git.reset_hard" \in an.codes
      clean == "git.clean_force" \in an.codes
      dirty == git.dirty # Unavailable /\ git.dirty # 0
  IN  IF git = NoRepo THEN Unknowable
      ELSE IF (reset /\ dirty) \/ (clean /\ git.untracked = TRUE)
      THEN Assess("warn", "policy.dirty_work_at_risk")
      ELSE IF git.dirty # Unavailable THEN Clear ELSE Unknowable

\* A plausible error: the operands rm could not read are forgotten.
RmVerdictKnownOnly(an, targets) ==
  IF \/ an.codes \cap {"fs.target_cwd", "fs.target_parent"} # {}
     \/ \E k \in DOMAIN targets : targets[k].isCwd \/ targets[k].isParent \/ targets[k].nearMiss
  THEN Assess("warn", "policy.target_context")
  ELSE IF targets # <<>> /\ \A k \in DOMAIN targets : targets[k].exists
  THEN Clear ELSE Unknowable

RmVerdict(an, targets) ==
  IF \/ an.codes \cap {"fs.target_cwd", "fs.target_parent"} # {}
     \/ \E k \in DOMAIN targets : targets[k].isCwd \/ targets[k].isParent \/ targets[k].nearMiss
  THEN Assess("warn", "policy.target_context")
  ELSE IF /\ "fs.rm_target_unknown" \notin an.codes
          /\ targets # <<>> /\ \A k \in DOMAIN targets : targets[k].exists
  THEN Clear ELSE Unknowable

\* The first row that applies, from the most severe.
Warranted(an, ctx) ==
  LET has(code) == code \in an.codes
  IN  IF an.codes = {} THEN Assess("allow", "shadow.observed")
      ELSE IF an.catastrophic THEN Assess("confirm", "policy.direct_catastrophic")
      ELSE IF has("git.reset_hard") \/ has("git.clean_force") THEN WorkLoss(an, ctx.git)
      ELSE IF has("git.push_force")
      THEN IF ctx.git = NoRepo THEN Unknowable
           ELSE IF ctx.git.mainLike THEN Assess("warn", "policy.main_branch_force") ELSE Clear
      ELSE IF has("fs.target_blockdev") THEN Assess("warn", "policy.blockdev_write")
      ELSE IF has("fs.rm_recursive") THEN RmVerdict(an, ctx.targets)
      ELSE Assess("observe", "policy.candidate_observed")

\* The model is asked only about what the facts leave open.
L4Gate(an, assessed) ==
  /\ an.codes # {} /\ ~an.catastrophic
  /\ assessed.verdict = "observe"
  /\ assessed.reason \in {"policy.evidence_unavailable", "policy.candidate_observed"}

Answers == {"none", "unavailable", "consistent", "uncertain", "mismatch", "adversarial"}
ApplyModelEvidence(assessed, answer) ==
  IF answer = "mismatch" THEN Assess("warn", "policy.model_mismatch")
  ELSE IF answer = "adversarial" THEN Assess("warn", "policy.model_adversarial")
  ELSE assessed

Modes == {"shadow", "suggest", "warn", "confirm"}
\* The mode is a ceiling; the reason is kept.
CapForMode(assessed, mode) ==
  IF mode \in {"shadow", "suggest"} /\ assessed.verdict \in {"warn", "confirm"}
  THEN Assess("observe", assessed.reason)
  ELSE IF mode = "warn" /\ assessed.verdict = "confirm" THEN Assess("warn", assessed.reason)
  ELSE assessed
=============================================================================
