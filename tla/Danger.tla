-------------------------------- MODULE Danger --------------------------------
(***************************************************************************)
(* The danger layer (src/layers/danger.rs): the rule tables that find      *)
(* high-consequence operations in the segments of a lexed line, and the    *)
(* literal words the context layer is to look up.                          *)
(*                                                                         *)
(* A flag is one atom; Clusters gives the letters of the short ones.  An   *)
(* analysis is the set of its codes, whether it is direct-catastrophic,    *)
(* its targets, at most MaxTargets, and whether the process panicked.      *)
(***************************************************************************)
EXTENDS Lexer

CONSTANTS
  Clusters,     \* short flags: a function to the set of their letters
  LongFlags,    \* "--" and the words that begin with it
  BlockNames,   \* names in /dev that the prefixes of block devices match
  Home,         \* the text of $HOME without a trailing slash
  MaxTargets    \* MAX_TARGETS

ASSUME DangerAssumption == MaxTargets \in Nat /\ "--" \in LongFlags

Nowhere == [codes |-> {}, catastrophic |-> FALSE, targets |-> <<>>,
            panicked |-> FALSE]
\* A plausible error: only the first finding of a line is kept.
NoteFirst(an, codes) == IF an.codes = {} THEN [an EXCEPT !.codes = codes] ELSE an
Note(an, codes) == [an EXCEPT !.codes = @ \cup codes]

NoteText(an, text, expands) ==
  IF ~expands /\ text # <<>> /\ Len(an.targets) < MaxTargets /\ text \notin {an.targets[k] : k \in DOMAIN an.targets}
  THEN [an EXCEPT !.targets = Append(@, text)] ELSE an
NoteTargets(an, ws) ==
  LET noted[k \in 0..Len(ws)] ==
        IF k = 0 THEN an ELSE NoteText(noted[k - 1], ws[k].text, ws[k].expands)
  IN  noted[Len(ws)]

TextIn(w, S) == w.text \in {<<a>> : a \in S}
Drop(ws, n) == SubSeq(ws, n + 1, Len(ws))

\* The elements of ws at the positions in K, in their order.
Kept(ws, K) ==
  LET kept[k \in 0..Len(ws)] ==
        IF k = 0 THEN <<>> ELSE IF k \in K THEN Append(kept[k - 1], ws[k]) ELSE kept[k - 1]
  IN  kept[Len(ws)]

-----------------------------------------------------------------------------
(* What a target points at                                                   *)

Evaluated(text) == \E k \in DOMAIN text : text[k] \in {"$", Backquote}

Blockdev(text) ==
  IF /\ ~Evaluated(text) /\ Len(text) >= 4
     /\ SubSeq(text, 1, 3) = <<"/", "dev", "/">> /\ text[4] \in BlockNames
  THEN {"fs.target_blockdev"} ELSE {}

\* Texts with a meaning of their own, and the code of each: those the shell
\* expands, and the literal ones.
ExpandingShapes ==
  {<<<<"~">>, "fs.target_home">>, <<<<"/", "*">>, "fs.target_root">>,
   <<<<"*">>, "fs.target_cwd">>, <<<<".", "/", "*">>, "fs.target_cwd">>,
   <<<<"..", "/", "*">>, "fs.target_parent">>}
LiteralShapes ==
  {<<<<"/">>, "fs.target_root">>, <<Home, "fs.target_home">>, <<Home \o <<"/">>, "fs.target_home">>,
   <<<<".">>, "fs.target_cwd">>, <<<<".", "/">>, "fs.target_cwd">>,
   <<<<"..">>, "fs.target_parent">>, <<<<"..", "/">>, "fs.target_parent">>}
HomeVariable == {<<"$", "HOME">>, <<"$", "{", "HOME", "}">>}

\* The code of a target, or none.
Classify(text, expands) ==
  LET shapes == IF expands THEN ExpandingShapes ELSE LiteralShapes
      curated == {p[2] : p \in {q \in shapes : q[1] = text}}
  IN  IF Evaluated(text) THEN {c \in {"fs.target_home"} : expands /\ text \in HomeVariable}
      ELSE IF curated # {} THEN curated ELSE Blockdev(text)

ClassifyAll(ws) == UNION {Classify(ws[k].text, ws[k].expands) : k \in DOMAIN ws}

-----------------------------------------------------------------------------
(* Flags, operands, subcommands                                              *)

Dashed == DOMAIN Clusters \cup LongFlags

\* A plausible error: only a bare word can be a flag.
LooksLikeFlagBare(w) == ~w.expands /\ ~w.quoted /\ w.text # <<>> /\ w.text[1] \in Dashed

LooksLikeFlag(w) == ~w.expands /\ w.text # <<>> /\ w.text[1] \in Dashed
EndOfOptions(w) == ~w.expands /\ w.text = <<"--">>

\* Words before the first "--" that look like flags; the others are operands.
OptionsEnd(args) == Min({k \in DOMAIN args : EndOfOptions(args[k])} \cup {Len(args) + 1})
Flags(args) == Kept(args, {k \in 1..(OptionsEnd(args) - 1) : LooksLikeFlag(args[k])})
Operands(args) ==
  Kept(args, {k \in DOMAIN args : IF k < OptionsEnd(args) THEN ~LooksLikeFlag(args[k])
                                                          ELSE k > OptionsEnd(args)})

\* A cluster counts only if the tool knows every letter of it.
ClusterHas(w, flag, letters) ==
  /\ TextIn(w, DOMAIN Clusters)
  /\ flag \in Clusters[w.text[1]] /\ Clusters[w.text[1]] \subseteq letters
AnyFlag(flags, longs, shorts, letters) ==
  \E k \in DOMAIN flags :
    TextIn(flags[k], longs) \/ \E c \in shorts : ClusterHas(flags[k], c, letters)

\* The position after leading flags and the arguments of those that take one.
\* It is two past the end when the last word is a flag without its argument.
FlagsEnd(args, argFlags) ==
  LET end[k \in 1..(Len(args) + 2)] ==
        IF k > Len(args) \/ (k <= Len(args) /\ ~LooksLikeFlag(args[k])) THEN k
        ELSE end[IF TextIn(args[k], argFlags) THEN k + 2 ELSE k + 1]
  IN  end[1]
PastFlags(args, argFlags) == Drop(args, FlagsEnd(args, argFlags) - 1)

WrapperArgFlags == {"-u", "-g", "-p", "-h", "-C", "-D", "-R", "-T", "-U", "-r", "-t", "-a",
                    "--user", "--group", "--prompt"}
GitArgFlags == {"-C", "-c", "--git-dir", "--work-tree", "--namespace"}
Subcommand(args, argFlags, S) ==
  LET rest == PastFlags(args, argFlags)
  IN  rest # <<>> /\ ~rest[1].expands /\ TextIn(rest[1], S)

-----------------------------------------------------------------------------
(* Rules                                                                     *)

RmLetters == {"r", "R", "f", "i", "I", "d", "v"}
PermLetters == {"R", "v", "f", "c", "h"}
CopyLetters == {"a", "b", "d", "f", "i", "l", "L", "n", "p", "P", "r", "R", "s", "S", "t", "T",
                "u", "v", "x", "Z", "H"}

If(condition, code) == IF condition THEN {code} ELSE {}

\* An operand with an unknown value is marked, so that the targets that are
\* known do not speak for it.
Unknown(w) == w.expands /\ Classify(w.text, w.expands) = {}

RuleRm(args, an) ==
  LET flags == Flags(args)
      ops == Operands(args)
      recursive == AnyFlag(flags, {"--recursive"}, {"r", "R"}, RmLetters)
      force == AnyFlag(flags, {"--force"}, {"f"}, RmLetters)
      found == If(recursive, "fs.rm_recursive") \cup If(force, "fs.rm_force")
               \cup ClassifyAll(ops)
               \cup If(\E k \in DOMAIN ops : Unknown(ops[k]), "fs.rm_target_unknown")
  IN  IF ~recursive /\ ~force THEN an
      ELSE [Note(NoteTargets(an, ops), found) EXCEPT
              !.catastrophic = @ \/ (recursive /\ ClassifyAll(ops)
                                       \cap {"fs.target_root", "fs.target_home"} # {})]

\* The first operand is the mode or the owner.
RulePerm(args, code, an) ==
  LET ops == Operands(args)
  IN  IF ~AnyFlag(Flags(args), {"--recursive"}, {"R"}, PermLetters) THEN an
      ELSE Note(NoteTargets(an, Drop(ops, 1)), {code} \cup ClassifyAll(ops))

RuleCopyMove(args, an) ==
  LET ops == Operands(args)
      force == AnyFlag(Flags(args), {"--force"}, {"f"}, CopyLetters)
      dest == SubSeq(ops, Len(ops), Len(ops))
      device == IF ops = <<>> THEN {} ELSE Blockdev(dest[1].text)
      noted == Note(an, If(force, "fs.force_overwrite") \cup device)
  IN  IF ops # <<>> /\ (force \/ device # {}) THEN NoteTargets(noted, dest) ELSE noted

RuleGit(args, an) ==
  LET rest == PastFlags(args, GitArgFlags)
      sub(name) == Subcommand(args, GitArgFlags, {name})
      flags == Flags(Tail(rest))
      ops == Operands(Tail(rest))
      clean == {"d", "f", "i", "n", "q", "x", "X", "e"}
      push == {"d", "f", "n", "o", "q", "u", "v", "4", "6"}
      branch == {"a", "c", "C", "d", "D", "f", "i", "l", "m", "M", "q", "r", "t", "u", "v"}
      lease == \E k \in DOMAIN flags : flags[k].text[1] = "--force-with-lease"
      refspec == \E k \in DOMAIN ops :
                   ~ops[k].expands /\ Len(ops[k].text) > 1 /\ ops[k].text[1] = ":"
  IN  IF rest = <<>> THEN an
      ELSE Note(an,
        If(sub("reset") /\ AnyFlag(flags, {"--hard"}, {}, {}), "git.reset_hard")
        \cup If(sub("clean") /\ AnyFlag(flags, {"--force"}, {"f"}, clean), "git.clean_force")
        \cup If(sub("push") /\ (lease \/ AnyFlag(flags, {"--force"}, {"f"}, push)),
                "git.push_force")
        \cup If(sub("push") /\ (refspec \/ AnyFlag(flags, {"--delete"}, {"d"}, push)),
                "git.push_delete")
        \cup If(/\ sub("branch")
                /\ AnyFlag(flags, {"--delete"}, {"d", "D"}, branch)
                /\ AnyFlag(flags, {"--force"}, {"f", "D"}, branch), "git.branch_delete_force")
        \cup If(sub("filter-branch"), "git.filter_branch"))

RuleDd(args, an) ==
  LET outs == Kept(args, {k \in DOMAIN args : Len(args[k].text) >= 2
                                                /\ SubSeq(args[k].text, 1, 2) = <<"of", "=">>})
      files == [k \in DOMAIN outs |-> [text |-> Drop(outs[k].text, 2), expands |-> outs[k].expands]]
  IN  Note(NoteTargets(an, files),
           If(outs # <<>>, "system.dd_of") \cup UNION {Blockdev(files[k].text) : k \in DOMAIN files})

RuleMkfs(args, an) ==
  LET first == Kept(Operands(args), {1})
  IN  Note(NoteTargets(an, first),
           {"system.mkfs"} \cup UNION {Blockdev(first[k].text) : k \in DOMAIN first})

\* "-1" after a KILL signal is every process; before one it is a signal.
RuleKill(args, an) ==
  LET kills(k) ==
        \/ TextIn(args[k], {"-9", "-KILL", "-SIGKILL"})
        \/ /\ TextIn(args[k], {"-s", "--signal"}) /\ k < Len(args)
           /\ TextIn(args[k + 1], {"9", "KILL", "SIGKILL"})
  IN  Note(an, If(\E k \in DOMAIN args : TextIn(args[k], {"-1"}) /\ \E j \in 1..(k - 1) : kills(j),
                  "system.kill_all"))

\* A pattern of three characters or fewer, which here is one atom of Short.
RulePkill(args, Short, an) == Note(an, If(Subcommand(args, {}, Short), "system.pkill_broad"))

RuleStop(stops, an) == Note(an, If(stops, "system.service_stop"))
RuleRemove(removes, an) == Note(an, If(removes, "system.pkg_remove"))

-----------------------------------------------------------------------------
(* A command, a segment, a line                                              *)

\* The last part of an absolute path; nothing is known of a relative one.
CommandName(text) ==
  LET slashes == {k \in DOMAIN text : text[k] = "/"}
      last == Max(slashes)
  IN  IF slashes = {} THEN text
      ELSE IF 1 \in slashes THEN Drop(text, last) ELSE <<>>

\* A rule for each command.
RuleOf(name, args, an) ==
  LET is(S) == Len(name) = 1 /\ name[1] \in S
  IN  CASE is({"rm"}) -> RuleRm(args, an)
        [] is({"chmod"}) -> RulePerm(args, "fs.chmod_recursive", an)
        [] is({"chown"}) -> RulePerm(args, "fs.chown_recursive", an)
        [] is({"cp", "mv"}) -> RuleCopyMove(args, an)
        [] is({"git"}) -> RuleGit(args, an)
        [] is({"dd"}) -> RuleDd(args, an)
        [] is({"kill"}) -> RuleKill(args, an)
        [] is({"pkill"}) -> RulePkill(args, {".", "sh"}, an)
        [] is({"systemctl"}) -> RuleStop(Subcommand(args, {}, {"stop", "disable", "mask"}), an)
        [] is({"service"}) -> RuleStop(Len(args) >= 2 /\ TextIn(args[2], {"stop"}), an)
        [] is({"apt", "apt-get", "dnf", "yum"}) ->
             RuleRemove(Subcommand(args, {}, {"remove", "purge", "autoremove", "erase"}), an)
        [] is({"pacman"}) ->
             RuleRemove(\E k \in DOMAIN args : ~args[k].expands /\ TextIn(args[k], {"-R", "-Rs"}), an)
        [] is({"mkfs", "mkfs.ext4"}) -> RuleMkfs(args, an)
        [] OTHER -> an

Wrappers == {<<"sudo">>, <<"doas">>}

\* The command that begins with the kth word; what is after the flags of a wrapper
\* is a command again.  strip_wrapper_flags slices from where the flags end: past
\* the end of the words that is a panic.
AnalyzeCommand(ws, an) ==
  LET from[k \in 1..(Len(ws) + 1)] ==
        LET name == CommandName(ws[k].text)
            args == Drop(ws, k)
            end == FlagsEnd(args, WrapperArgFlags)
            inner == from[k + end]
        IN  IF k > Len(ws) \/ (k <= Len(ws) /\ ws[k].expands) THEN an
            ELSE IF name \notin Wrappers THEN RuleOf(name, args, an)
            ELSE IF end > Len(args) + 1 THEN [an EXCEPT !.panicked = TRUE]
            ELSE IF inner.codes # an.codes THEN Note(inner, {"priv.sudo"}) ELSE inner
  IN  from[1]

\* The operators that truncate a file, whatever descriptor is before them.
IsTruncating(op) ==
  Drop(op, SkipAll(op, 1, Digits) - 1)
    \in {<<">">>, <<">", "|">>, <<">", "&">>, <<"&", ">">>}

\* Redirections of known targets that are neither /dev/null nor, after ">&",
\* a descriptor to copy or to close.
Truncates(op, w) ==
  /\ IsTruncating(op) /\ ~Evaluated(w.text) /\ w.text # <<"/", "dev", "/", "null">>
  /\ ~(op[Len(op)] = "&"
       /\ (w.text = <<"-">> \/ \A k \in DOMAIN w.text : w.text[k] \in Digits))

RuleRedirects(redirects, an) ==
  LET cut == Kept(redirects, {k \in DOMAIN redirects : Truncates(redirects[k][1], redirects[k][2])})
      files == [k \in DOMAIN cut |-> cut[k][2]]
  IN  Note(NoteTargets(an, files),
           If(cut # <<>>, "fs.redirect_truncate")
             \cup UNION {Blockdev(files[k].text) : k \in DOMAIN files})

\* The words of the segment t from its command on, and its redirections that
\* have a target.
SegmentWords(t) ==
  LET from == Min({k \in DOMAIN t : Candidate(t, k)} \cup {Len(t) + 1})
  IN  Kept(t, {k \in DOMAIN t : k >= from /\ IsWord(t[k]) /\ ~IsTarget(t, k)})
SegmentRedirects(t) ==
  LET at == Kept([k \in DOMAIN t |-> k], {k \in DOMAIN t : IsTarget(t, k)})
  IN  [n \in DOMAIN at |-> <<t[at[n] - 1].text, t[at[n]]>>]

AnalyzeSegment(t, an) ==
  RuleRedirects(SegmentRedirects(t), AnalyzeCommand(SegmentWords(t), an))

\* Where the first segment of t ends: at an operator, or past the tokens.
SegmentEnd(t) == Min({k \in DOMAIN t : IsOp(t[k])} \cup {Len(t) + 1})
===============================================================================
