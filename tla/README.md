# oopsinput in TLA+

oopsinput asks before a zsh command line runs that is probably not what its
author meant. A zsh widget starts `oopsinput check` for every submitted line; the
process analyses the line, may ask one question on the terminal, and tells the
widget by its exit code whether to run, replace, return or discard the line. What
it learns it keeps in JSONL logs that every shell of the user shares.

This directory holds a model of the parts of that program where order, time,
other processes and failures decide what happens, the TLC runs that check them,
and TLAPS proofs of the results that matter most. Source references are relative
to the repository root.

## The system

| Component | State | Operations | Works with |
|---|---|---|---|
| **Zsh widget** `zsh/oopsinput.zsh` | the edit buffer, fd 3, the exit code | `_oopsinput_handle` | starts *check*, acts on its exit code |
| **Check** `src/main.rs` | statics `PROMPT_ACTIVE`, `MODEL_EXTENSION_MS` | `check`, `typo_intervention`, `warning_intervention`, `write_replacement_fd3` | all layers, *prompts*, *admission*, *events* |
| **Watchdog** `src/main.rs` | its sleep | `arm_watchdog` | shares the two statics with *check*; ends the process |
| **Prompts** `src/ui.rs` | terminal modes | `prompt_typo`, `prompt_warning`, `SttyRestore` | terminal, `stty` children |
| **Admission** `src/policy.rs` | `policy.jsonl`: outcomes and reservations | `admit_intervention`, `release_admission`, `record_admitted_outcome` | *state log* under the *state lock* |
| **Decision matrix, modes, config** `src/policy.rs` | the config file (read only) | `decide`, `cap_for_mode`, `parse_config` | *check* |
| **Config warnings** `src/policy.rs` | the `config_warned` marker | `emit_config_warnings_once` | *state lock* |
| **State lock** `src/state.rs` | an anchor file, its inode, `flock` | `acquire`, `acquire_after_prompt`, `unlink_anchor`, `purge` | every writer of every shell |
| **State log** `src/state.rs`, `src/events.rs` | a JSONL file, a retention marker, temporary files | `append_jsonl`, `append_jsonl_after_prompt`, `maybe_prune_log`, `purge`, `report_text` | *state lock*; the report reads without it |
| **Proposal parsing** `src/proposal.rs` | bytes read so far | `from_check_invocation`, `parse_payload` | the widget's pipe |
| **Lexer** `src/lexer.rs` | position, current word, pending heredocs | `lex`, `command_words` | *typo*, *danger* |
| **Typo search** `src/layers/typo.rs`, `src/distance.rs` | best candidate, checks spent | `best_candidate`, `replacement_buffer`, `bounded_osa` | names from the shell, directories on PATH |
| **Danger, context** `src/layers/danger.rs`, `src/layers/context.rs`, `src/proc.rs` | findings so far; a child and a reader thread | `analyze`, `collect`, `run_capture`, `wait_or_kill` | file system, `git` |
| **Model consultation** `src/layers/infer.rs`, `src/model.rs` | a socket | `consult`, `request_json`, deadlines per call | *check*, *watchdog*, the server on the port |
| **Installer, uninstaller** `zsh/install.zsh`, `zsh/uninstall.zsh` | `.zshrc` block, installed files | install, update, uninstall | user's files |
| **Doctor, report, display escaping** | none | read and format | state directory |

Where it is hard:

* **Two threads, two flags.** The watchdog and the main thread of a check share
  two atomics and nothing else. The watchdog may end the process at any moment
  until it has seen `PROMPT_ACTIVE`.
* **A lock file that is deleted while others wait for it.** `purge` unlinks the
  anchor and its directory; waiters then hold a lock on a file without a name.
* **One history, many shells.** Budget and cooldown are decided from a log that
  all shells append to, minutes before the outcome is known.
* **Fail open, but tell the truth.** Any step may fail or be killed; the line must
  then run as typed, and nothing may be recorded that the user did not do.
* **Torn writes.** A process may die in the middle of a line of the log.
* **Bytes that come in pieces.** The pipe from the widget, the terminal, git's
  output and the model's reply arrive in any portions at any time, under a cap
  and mostly under a deadline.
* **Text that another program reads too.** The lexer must see what zsh will run,
  and a correction is spliced by a second reading of the same line.

What makes each part correct:

* *Check, widget, prompts*: a line is altered only by the user's answer to a
  question the mode permits; the answer is honoured whatever fails later; the
  shell gets its line back, within the deadlines during analysis, and afterwards as
  long as the terminal takes output; the terminal is restored.
* *State lock*: mutual exclusion in spite of anchor replacement; nobody is stuck
  behind a dead or stuck holder; purge removes everything and loses nothing that
  came later.
* *State log*: a record becomes readable once or never and stays so for the
  retention window; old records go; the report sees all of it.
* *Lexer, typo, danger*: the words are the shell's; the suggestion is the nearest
  name whatever the order of the search; no quoting and no neighbouring command
  hides a finding; "allow" rests on facts that are so.
* *Proposal, keys, consultation, capture*: nothing is invented or lost but by a
  named cap; no deadline is outlived; no byte of one thing is read as another.
* *Config*: complaints are true and shown once.
* *Admission*: the hourly budget over all shells; no slot spent on a warning
  nobody saw; silence is earned by deliberate answers only.

## Modules

    Consent   <--refines--  Guard      <--  GuardProofs      MCGuard
    Mutex     <--refines--  StateLock  <--  StateLockProofs  MCStateLock
    RecordLog <--refines--  StateLog   <--  StateLogProofs   MCStateLog
                            Admission  <--  AdmissionProofs  MCAdmission

    Distance <-- Typo    <--+
    Lexer    <-- Typo       +-- Analysis <-- MCAnalysis <--+
    Lexer    <-- Danger  <--+      ^                       |
    Distance <-- Context <--+      |                       +-- MCCheck
                     VerdictProofs, LineProofs             |
                       Config, Intake, Consult, Capture, Keys

    CheckProofs  about Config, Consult, Capture and Keys
    Recursions   lemmas on recursion, used by VerdictProofs and LineProofs

`Consent`, `Mutex` and `RecordLog` say what a component promises; the detailed
module implements it through an `INSTANCE ... WITH`. `StateLog` and `Admission`
use the lock as `Mutex` describes it: one holder, released when its process ends.
`Guard` sees admission only as *refused*, *held* or *without reservation*, what the
analysis finds as a free choice, and the consultation as a step of bounded length.
`Analysis`, `Consult` and `Keys` are the insides of those steps: what may be found,
that the length is bounded (`EndsByDeadline`), and which replies the keys allow
(`AnswerWasTyped`). `Config` takes the lock as one holder.
Operators like `NoteFirst` or `SingleQuoteEscaping`, which no specification uses, are
wrong versions of the definition that follows them, against which each property was
tried.

### Guard: one check from Enter to the accepted line

`pc` is the main thread: `analyze` (`check`, main.rs 156-202), `announced` (the
extension is stored, the consultation has not yet read the clock for its own
deadline), `consult` (`consult_model_if_gated`), `decide` (`cap_for_mode`, the choice
between warning and typo), `admit`, `build` (the replacement is built before asking),
`present` (`PROMPT_ACTIVE` is set), `open`/`draw`/`ask`/`redraw`/`ending`/`restore`
(ui.rs; `ending` writes the prompt's last line), `act`/`sentinel` (the two writes on
fd 3, the outcome record), `log` (event and exit code), `done`.
`wd` is the watchdog thread: `sleep`, `expired` (it has loaded `PROMPT_ACTIVE`
as false, so loading and exiting are two steps), `granted`, `exiting`, `retired`.
`tty`, `shown`, `keys`, `choice`, `answer` are the prompt; `answer` is the key that
decided, kept to compare everything else with; `keys` counts those that decided
nothing, `MaxKeys` of which end a prompt (`KeysSpent`), and `shown` says that the
question stands complete on the terminal, which a redraw that fails undoes. A prompt
that is never seen, or that no key decides, returns what the code returns for it:
`Original` for the typo question, hence the event `declined` without an answer.
`slot` and `event` are what the logs will say, `channel` what fd 3 holds, `line` what
the widget did. Verdict, suggestion and model answer are free choices. A new line starts
a new process (`Fresh`).

The clock is the one the watchdog sleeps by. `Tick` does not pass a due wake-up: the
watchdog is timely. The main thread need not be. It may stall between any two steps,
also between storing the extension and reading the clock, while the watchdog wakes,
reads the extension and sleeps on.

### StateLock: acquisition and purge, call by call

One action per system call of `acquire_until`, `lock_file`, `unlink_anchor`,
`purge_from_dir` and `remove_state_dir_if_empty`. `anchor` is the inode the path
names, `fd` what each process has open, `flock` who has locked which inode. An
inode number is handed out again once no name and no handle has it. `late` is the
25 ms deadline of writes after a prompt. `Kill` may happen between any two calls.

### StateLog: appends, retention, purge, report

A file is the set of its readable records, whether it has lines that do not
parse, and how it ends: in a newline (`Clean`), in part of a line (`Torn`), or in
a whole record whose newline is missing. The last two are what a death inside
`write_all` leaves (`WritePart`, `WriteBody`, `WriteNewline`). `Acquire` gets the
lock and decides whether a sweep is due; `OpenSource`, `Copy`, `Swap` are
`prune_jsonl`; `Mark`, `SwapMarker` replace the marker. `RemoveLog`,
`RemoveMarker`, `RemoveTemps` are purge. `Fail` is an error return at any step
(temporary file removed by `TempCleanup`); `Crash` is a death (it stays). The
report opens the log, checks that the name still leads to the file, and reads
while everything else goes on; when the log is replaced it keeps the old content.

### Admission: budget, reservations, cooldown

Each locked transaction is one action. `shown` and `reserved` are what
`try_load_history_from` folds `policy.jsonl` to. `Submit` reads the clock before
the lock is waited for, `Admit` is the locked read-and-reserve with or without a
sweep, `AdmitFails` the same with an error in it: after the sweep, or in the append,
whose record may then be readable without its newline. `Show` puts the question on
the terminal, `NotShown` and `Answer` are the two ways a reservation ends. Lost and
torn appends, deaths and a process suspended past its time are faults a run may
allow. Each
outcome has its place in the log (`written` is the last one's), since two may have the
same stamp. `seen`, `runs` and `orphans` no part of the program remembers: they are
what the properties compare the log with. A warning in `seen` has two dates, the stamp
of its admission, which is what the log knows, and the moment it became visible, which
is what the user knows; `BudgetHeld` and `BurstHeld` count by the second.

### Analysis: from the line to the verdict

A line is a sequence of atoms: a blank, a quote, an operator character, or a name
that the code compares as a whole (`rm`, `-rf`, `HOME`). `Lexer`, `Distance`, `Typo`,
`Danger` and `Context` are operators, one for each function of the source, over such
lines. `Analysis` runs them in the order of `check`: each turn of the lexer's loop is
a step (`LexNext`), as are each directory and each entry of the typo search
(`OpenDir`, `ScanEntry`, in whichever order the directory lists them) and each
segment of the danger layer (`NextSegment`); then the facts (`CollectContext`), the
matrix (`Warrant`), the model (`ConsultModel`) and the cap of the mode (`Decide`). A
panic is the stage `panicked`, in which the process has ended.

The references the layers are compared with stand below the specification: `Reads`,
a shell's quoting a character at a time; `AlignmentCost`, edit distance as a
recursion from the first letters on; `Alone`, a segment judged by itself.

### Intake: the payload

Bytes of a few kinds come through the pipe in any portions up to one past the cap
(`ReadPortion`); `ParsePayload` takes them apart as `parse_payload` does, with the
capped buffer cut back to a character, the section that was cut short of its last
line, the limits on names and lines, and the two flags that say what was cut (`capped`,
`namesCapped`). A name is what `print -rl` ends with a newline; that it has none
inside is assumed (zsh allows one in the name of an alias or a function, which then
arrives as two names). `Resolution` is the loop over the flags. `NothingInvented`
compares what is taken with what was sent; `NothingLost` says that what is missing was
cut by the cap or by `MAX_NAMES`, that a flag tells when it was the cap, and that every
recency line that was read to its end is taken.

### Config: settings and complaints

`ParseLine` is one turn of `parse_config`. Commands load the file (`LoadConfig`), get
the lock and compare the marker (`BeginUpdate`), display and commit, or fail or die
at each step, while the file is edited and the marker purged.

### Consult: two exchanges under one deadline

The probe and the chat are the same sequence of calls: `Connect`, `VerifyPeer`,
`Write`, `Read` until the reply is complete, too large or malformed (`Progress`).
`Connect` ends with the kernel's handshake; the listener takes the connection in a step
of its own (`ServerAccepts`), any time later or never. Until then the row that
`VerifyPeer` reads in the kernel's table may be the listener's or nobody's, which is
uid 0 and trusted. `told` keeps for each write whose process it reached and what
`VerifyPeer` had read.
Each call takes any time up to what its timeout was set to (`Patience`), times out or
fails. `DecodeChunked` and `Body` are the framings with their caps. `Replies` are
what a server may send: a status, a length it announces, and the atoms of a head and a
body, `Blank` being the empty line between them.

### Capture: the bounded helper

The check's polling loop (`AwaitChild`, `Reap`, `Kill`, `AwaitReader`, `JoinReader`),
the reader thread, the child and a grandchild that keeps the pipe open, with a clock.

### Keys: bytes to an answer

`ReadKey`, `ReadEscape`, `ReadCsi`, `ReadSs3` read one byte each, `NothingComes` is a
read that times out, `TypoKey` and `WarningKey` are what a key does. `Events` are what
the user's keys send, each one byte or, by `OneSequence`, one sequence of the three
shapes; `event` and `pending` are the one that is coming in and what is left of it.

## Runs

| Run | What it checks | States |
|---|---|---|
| `guard_safety` | types, consent, delivery of replacements, truthful records, both deadlines, and that the shell gets its line back unless the terminal keeps it | 545 k |
| `guard_terminal` | *violated*: the terminal is restored (finding) | |
| `guard_capped` | *violated*: a correction keeps every other byte (finding) | |
| `lock_safety` | exclusion, current anchor, purge, refinement of `Mutex` | 3 processes, 4 inodes |
| `lock_progress` | a write after a prompt ends though the holder is stuck; waiters finish once purges stop | 2 processes, 3 inodes |
| `lock_replaced_anchor` | *violated*: a replaced anchor is joined (finding) | |
| `log_safety` | refinement of `RecordLog`, retention, temporary files, purge, report | 2.9 M |
| `admission_budget` | the hourly budget without faults | 1.4 M |
| `admission_faults` | budget within a reservation lifetime less a prompt, slots, cooldown, with every fault | 6.0 M |
| `admission_lost` | *violated*: the hourly budget when one outcome is lost (finding) | |
| `check_parts` | the insides of a check: analysis, configuration, intake, consultation, helper process, keys | 1.4 M |
| `analysis_panic` | *violated*: a catastrophic delete is confirmed always (finding) | |

`check_parts` takes together parts that share no state: a behaviour of `MCCheck` is
one of one part, and the variables of the others stay as they began. Its states are
the sum of the parts', not their product, and each of its properties speaks of the
variables of one part.

| Part of `check_parts` | Properties | of which |
|---|---|---|
| `Lexer`, `Danger` | `LexesAsTheShell` | `WordsAreTheShells`, `HeredocBodyIsData`, `LexerAdvances`, `QuotingHidesNothing` |
| `Danger` | `NoSegmentShields` | |
| `Typo`, `Distance` | `SuggestionIsNearest` | `NearestWins`, `ExactMatchSilences` |
| `Typo`, `Lexer` | `ReplacementKeepsTheRest` | |
| `Context` | `VerdictIsEarned` | `AllowIsVouched`, `EvidenceNeverDecides` |
| `Config` | `ComplaintsAreTrue`, `SaidOnce` | |
| `Intake` | `TakenIsSent` | `NothingInvented`, `NothingLost` |
| `Consult` | `EndsByDeadline`, `CommandOnlyToTrusted`, `EvidenceIffSound` | `ProbeLeavesTime` in the first, `BufferBounded` in the last |
| `Capture` | `HelperIsBounded` | `CaptureInTime`, `OutputIsWhole`, `ChildIsDrained`, `NoZombie` |
| `Keys` | `AnswerWasTyped` | `SequencesConsumedWhole`, `AnswerHasItsKey`, `EnterTakesHighlighted` |

Bounds and why they suffice:

* *Guard*: `Det = ModelT = 2`, `Margin = 1` let analysis, gate, the consultation's
  clock reading and the consultation each fall before, on and after each deadline;
  `MaxKeys = 2` lets a key that decides nothing be followed by one that does, by a
  redraw that fails, or by the last one; one check is explored fully and
  the next begins from the same state, so one line is enough. The proofs cover
  all other values.
* *StateLock*: three processes are a holder, a waiter on its anchor and a third
  one that replaces it; four inodes let a number be reused while an old handle is
  open. The liveness run uses two processes, three inodes and no symmetry.
* *StateLog*: with `Retention = 1`, `Interval = 2` and a clock to 3, a record can
  expire, a sweep can be skipped, fail and be repeated. Three records are the one
  that expires, the one whose append dies and the one that comes after. One death
  leaves a torn line or a temporary file for the others to meet; failures are
  unlimited.
* *Admission*: three shells compete for two slots over more than an hour
  (`Hour = 3`, clock to 5); the fault run has two shells and one slot with all
  faults and both severities (`PromptMax = 1`, `TTL = 3`, `Hour = 4`, clock to 4): a
  reservation expires while its shell is suspended, another takes the slot, and both
  warnings become visible.

* *Analysis*: every line of up to three of 18 atoms, and of four and five atoms of
  quotes and of redirections, for the lexer; every word of two to five letters of
  two against one name each, a letter with a digit against the bare digit, and two
  directories in three orders with a directory that is gone, against three checks and
  three entries, for the search; some 200
  commands (each rule with its flags, targets and wrappers) and 280 pairs of commands
  over four operators for danger, each in 20 worlds and with every answer of the
  model and every mode. Words beyond five letters, where a second edit in a longer
  word is the only news, and lists longer than the caps of three add no new case.
* *Intake*: a cap of 14 bytes, with buffers that end before, at and past it and
  inside a character, names and lines that cross it.
* *Config*: every file of up to three lines of eight kinds for one command, and two
  commands with a file that changes between two sets of mistakes.
* *Consult*: timeouts of 4 and 8 units and a probe of 1, replies with bodies of one to
  twelve atoms against caps of two, reads of up to three atoms.
* *Capture*: a limit of 4 and polls every 2 units, five bytes through a pipe of two
  with two kept: the pipe fills, the cap is passed, and the clock outlasts both.
* *Keys*: four keys of a prompt, CSI sequences of up to four bytes against a limit
  of three.

`CHECK_DEADLOCK FALSE` is set for `Admission` alone, whose clock and ids end.

### Fairness

* `FairSpec` of Guard: the watchdog runs, time passes, the widget reads an exit
  code that is there. The main thread has fairness only once `PROMPT_ACTIVE` is
  set, and not in the three steps that write to the terminal (`TerminalWrites`: the
  question, its redraw, its last line), which wait as long as its output is stopped.
  Every other step bounds itself: reads time out in the terminal driver, `stty`
  children are killed after 2 s, appends give up after 25 ms (a disk that never
  answers is outside). Analysis gets none, since a layer may hang; that the line comes
  back rests on the watchdog. `ShellRegainsControl` therefore has one exception,
  `HeldByTerminal`: the watchdog has retired and the main thread stays in such a write.
* `FairSpec` of StateLock schedules only the writers after a prompt, so a holder may
  stop with the lock in hand. `WaitersFinish` assumes more, and says so in its
  premise `SchedulerRunsAll`: every process is scheduled (WF), and the kernel serves a
  waiter of an `flock` eventually (SF).
* The parts of `check_parts` have no fairness. That they end is shown as a bound on
  their clock (`EndsByDeadline`, `CaptureInTime`), on their keys, or as a measure that
  every turn increases (`LexerAdvances`). Where a thread is due it runs at once
  (`Capture`), and a process takes no time between calls (`Consult`).

## Findings

1. `guard_terminal`: the watchdog loads `PROMPT_ACTIVE` and exits in two steps. A
   prompt that opens in between is ended in single-key mode, which ui.rs 18-20
   says its caller excludes.
2. `guard_capped`: a buffer longer than 1 MiB is cut, and a correction built from
   the cut buffer replaces the whole line (typo.rs 154-155: every other byte
   preserved).
3. `lock_replaced_anchor`: when purge and another writer replace the anchor
   between open and check, the writer gives up instead of joining the replacement
   (comment at state.rs 329).
4. `admission_lost`: an outcome that could not be written leaves a reservation
   that expires after ten minutes, and one more warning is shown in that hour
   (SPEC.md 564: no extra budget slot).
5. `analysis_panic`: in `sudo -u` (danger.rs 199) the flag's argument is missing, the
   index passes the end of the words and the slice panics. The process ends, the
   widget runs the line, and a catastrophic delete further on in it is not asked
   about (ARCHITECTURE.md 659: always).

Other observations, none of them checked by a run of its own:

* A name of digits is a plausible command name (typo.rs 231), and a word may end at a
  redirection: with an alias `2`, `a2>x` is corrected to `2>x`, a redirection of
  descriptor 2 and no command (typo.rs 223: one bare command word).
  `ReplacementKeepsTheRest` excludes that case, which the inputs of the run contain.
* A clean work tree clears a whole line: with `git reset --hard` in it, other findings
  of the line do not raise the verdict, although policy.rs 103-104 lists them below.
  `AllowIsVouched` speaks of what was cleared, not of what was not looked at.
* Where git's output is cut, an untracked file past the cap counts as absent
  (context.rs 9-10 demands that unknown stays unknown), and operands past
  `MAX_TARGETS` are not looked at when an `rm` is cleared. `AllowIsVouched` excludes
  both by its bounds.
* A backslash before a newline stays in the word (lexer.rs 39 says the shell's way);
  brace expansion does not make a word expand. `Reads` does not read the first.
* `priv.sudo` is missing when an earlier segment has noted the same code
  (SPEC.md 156); `NoSegmentShields` leaves that code out.
* Sequences of other shapes than the three of ui.rs 250-252 (`ESC [ [ A`,
  `ESC ESC [ A`, X10 mouse reports) leave bytes behind that are read as keys;
  `Events` has only the three.
* The names the widget sends include reserved words (oopsinput.zsh 188): a line that is
  corrected to begin with `if` or `do` has the same tokens and another grammar.
* `typo.declined` is logged for every `Original` (main.rs 423): also for a question that
  could not be opened or drawn (ui.rs 155-159, 381-387) or redrawn, and for 32 keys that
  decide nothing, where ui.rs 27-29 promises that evaluation never credits the user with
  a choice they did not make. `RecordsAreTruthful` says that it happens in these cases
  and in no other.
* If the main thread stalls for the margin of 1 s or longer between storing
  `MODEL_EXTENSION_MS` and the consultation's clock reading, while the watchdog reads the
  extension, the consultation's deadline is not "strictly shorter" (main.rs 130-133): the
  watchdog cuts it off before it is over. `ConsultOutlivedByGrant` has that premise.
* Once the watchdog has retired (main.rs 126) nothing bounds a write to a terminal whose
  output is stopped; the line waits with it.
* A process suspended between its admission and its question shows the warning when it
  goes on, although its reservation may have expired and its slot been given to another:
  it does not ask again (main.rs 447-474). `BurstHeld` counts the warnings that became
  visible within a prompt's time of their admission.
* A connection that is not yet accepted may stand in the kernel's table with uid 0,
  which `peer_uid_trusted` takes for a system account (model.rs 158-160), although
  model.rs 129-130 wants any doubt to refuse. `CommandOnlyToTrusted` leaves these out.
* An alias or a function whose name has a newline is sent as two names
  (oopsinput.zsh 188), either of which may be suggested.
* The cap that cuts a names section exactly at the end of a name loses that name,
  without effect on the line.
* A configuration that is repaired and later broken in the same way is not complained
  about again: nothing clears the marker (policy.rs 899-902). An invalid
  `OOPSINPUT_MODE` means shadow without a complaint.

## Proofs

All theorems are about the whole specification for every value of the constants
under the assumptions the modules state, each of which TLC evaluates on the instance
it checks:

* Guard: the three times and the number of keys are positive.
* StateLock, StateLog: the values standing for "none" are no process, inode, record or
  file; the retention window and the sweep interval are at least one unit of a clock
  that is coarser than an operation.
* Admission: a prompt is shorter than the life of a reservation, that than the hour,
  the hour is at most the cooldown, and the cooldown at most the retention window
  (32 reads of 10 s, 10 min, 1 h, 24 h and 30 days in the code), and an hour and a
  prompt together are at most that window; the trigger is not zero.
* Config: every default is a valid value of its key, and "blank" and "no equals sign",
  the two kinds of lines without a key, are no keys.
* Consult, Capture: times and sizes are natural numbers, the divisor, the poll, the cap
  and the pipe are not zero; a chunk's size is a natural number. Of a reply, that its
  parts are sequences, that a blank atom, the one that ends a head, is the last of it,
  and that what has no such atom has no body: all of it is head.
* Intake: the cap is not zero; the sections of a payload have no NUL, on which the
  separator relies (oopsinput.zsh 172); a name or recency line has no newline, which zsh
  does not guarantee for the names of aliases and functions.
* Keys: every event is one byte or one sequence of the three shapes of ui.rs 250-252.
* Analysis: git lists tracked changes before untracked files, as `git status
  --porcelain` does; the caps of lines and bytes are more than one; "--" is a word
  that begins with two dashes. Lines, names and PATH are sequences, the names words of
  the alphabet, and the end of a line is no character; a directory has finitely many
  entries; the caps of the search are natural numbers.

**`StateLockProofs`.** Mutual exclusion is not inductive, since it knows nothing
of a process on its way in. `LockInv` adds what each stage has established: from
the recheck on, the inode a process has open is locked by it; inside the section
that inode is the anchor; an anchor has a directory. Two holders would then have
one inode locked. From it follow `LockExcludes`, `LockIsCurrent`,
`PurgeIsComplete`, the action property `StateChangesUnderLock` and
`LockImplementsMutex` (each step enters, leaves or stutters).

**`GuardProofs`.** The exit code is several steps from the key that justifies it.
`GuardInv` carries the answer from stage to stage: which question the mode
allowed, what the prompt returned for which key, which code that choice led to,
and that the process ends with that code or is cut down. `GuardImplementsConsent`,
`TenIsDelivered` and, with two further conjuncts on what is still owed,
`AnswersHonoured` follow. `RecordsInv` follows what will be written about an answer to
the two logs, whichever of the writes are dropped, and for a prompt that returns
`Original` without an answer that it was not whole on the terminal or its keys were
spent (`RecordsTellTheTruth`). `TimeInv` relates where the watchdog is to how late it
can be, and the consultation's deadline to the moment its clock was read; it proves both
deadlines, `AnalysisIsBounded` and, for a consultation that read its clock in time,
`ConsultIsNotCutOff`.

**`StateLogProofs`.** What the log holds depends on who may write it when.
`LogInv` says what the lock's holder has established at each step: how the file
ends while a line is written part by part, and that the copy a sweep made is what
the log still holds and has not expired, since nobody else writes and no stamp of
a record in the log changes. With it `LogKeepsPromise` maps every step to a step
of `RecordLog` or to none. Three further invariants carry one property each:
`MarkerSwept` and `Windows` (nothing in the log is older than the marker allows,
because the marker is replaced only after the log was swept) for
`RetentionCorrect`; `Orphans` (a temporary file is in use or its process died)
for `OrphansCorrect`; `StillThere` (what a report has left to read is in the file
it has open) for `ReportCorrect`. `Removing` lists what a purge has removed by
when, for `PurgeCorrect`.

**`CheckProofs`: Config.** A command displays some steps after it compared the marker.
`MarkerInv` says why the marker is still as it was: from the comparison to the commit
the command has the lock (`UpdatersHold`), and commit and purge need it; a commit
comes only after its display (`CommitsShown`). `ComplaintsSaidOnce` follows for any
number of commands and any file.

That complaints are true (`ComplaintsTellTheTruth`) is an induction over the lines of
a file, carried out as one over the least line for which it would fail: `Told` is what
`ParseLine` knows of every prefix, namely which keys were seen, what they were set to
and which lines were complained about.

**`AdmissionProofs`.** The gate counts what the log says; the promise is about what the
user saw. `BookInv` ties the two: ids are handed out once, a slot has the shell that
reserved it unless what would have freed it was lost, and every warning that was
visible within the retention window is backed in the log by its slot or by an outcome
that is no older. Hence the ids that are live within a window are never more than what
`ShownWithinHour` counts (`LiveIsCounted`), and only a step that passed the gate adds
one (`AdmitIsBounded`), an append reported as failed included. Windows are of one of
two kinds (`Date`). By the stamp of admission, which is all the log has, the bound holds
for the life of a reservation with every fault; what becomes visible within `PromptMax`
of it, in a window shorter by `PromptMax`, was admitted within such a life
(`BurstIsHeld`). By the moment of visibility it holds for the hour if nothing fails
(`BudgetIsHeld` assumes `Faults = {}`); finding 4 is what happens otherwise. `SlotsAreHeld` is a part of the books; `CooldownIsEarned`
compares the runs in the log with the answers the user gave (`RunsCounted`).

**`CheckProofs`: Consult, Capture.** For the consultation, `TimeInv` ties the deadline of an exchange
to the overall one; a call takes at most what is left, and the arithmetic of the
probe's window is `ProbeIsShort`. `PeerInv` carries what `verify_peer` read to the
writes after it: the owner, or nobody because the connection was not accepted. `BufferInv` bounds what is held of a reply whatever the server
announces: by the cap of the head while the head may still come, after it by the length
the head then has and the cap of the encoded body. That an answer is evidence exactly
when it is sound (`EvidenceIsSound`) is a matter of every beginning of a reply, since a
read may end anywhere. In a chunked body the decoder starts over with every read and
goes from chunk to chunk, while the reference, `FedBy`, takes one atom at a time and
remembers the rest of its chunk; `Agrees` says that wherever both stand before a chunk
with as much room, what the decoder calls done is what the reader gets in the end, and
the decoder refuses nothing the reader gets within the cap. It is proved from the last
chunk back (`AgreesHere`). `ProgressIsRight` adds the head and the other framings, and
`EvidenceInv` the calls that fail, time out or meet another user's process. For the helper, `PollInv` bounds the
check's next look; `FlowInv` accounts for every byte as in the pipe, kept or past the
cap, so that a finished reader has missed none and no process is left to add one.

**`CheckProofs`: Intake.** Of a payload the first bytes are read, up to one past the cap
(`FirstReadIs`): the beginning of the buffer; or the buffer and the beginning of the
names; or both and the beginning of the recency lines. A separator is found where it was
put, since no section has one (`NulFound`), so each of the three is taken apart by
itself (`NoSeparator`, `OneSeparator`, `TwoSeparators`). Three lemmas, for any number of
lines of any length, say what the taking apart yields: `PrintedIsSplit`, printed lines
are split into the same lines; `CutLines`, a cut leaves some of them whole and the
beginning of one; `CutText`, a cut of valid text is valid or ends with half a character.
`Right` states both parts of
`TakenIsSent` for a payload and a result, and `BufferRight`, `NamesRight` and
`RecencyRight` prove it in the three cases. In the last, the number of lines taken is
the only one that fits while one more does not, because what is printed only grows
(`PrintedGrows`). `TakenIsWhatWasSent` carries it to the steps.

**`CheckProofs`: Keys.** The bytes that answer a prompt also occur in escape sequences.
`KeysInv` says at each place of the reader what may be left of the event it is in, for
sequences of any length: nothing when a key is read (`KeysInvariant`). So no answer is
a byte of a sequence, and what Enter took was highlighted (`AnswersAreTyped`).

**`VerdictProofs`.** The danger layer hands one analysis from segment to segment, so
what it makes of a segment could depend on what went before. It does not: every rule is
`Additive`, that is, it adds the same codes, and is catastrophic or not, whatever it is
given, and its operands are noted while there is room (`RuleAdditive`, and through the
wrappers `CommandAdditive`); only `priv.sudo` depends on what was there. So each
segment is `Heard` and `Unshielded`, and since the layer walks from cut to cut of the
tokens (`NextCut`), at the end all are. `VerdictInv` adds that facts, assessment and
model answer belong to this line. `NothingShields` and `VerdictEarned` are read off it.
The recursive functions of `Danger` (the words that are kept, the end of the flags, the
commands behind wrappers) are unfolded by a recursion lemma whose induction is over
numbers, `LeastNat`; they are functions, not RECURSIVE operators.

**`LineProofs`: the lexer.** A turn of the loop may read a whole word of any number of
pieces, nested groups among them, so that it moves on rests on what each piece reads:
`ParenEndWithin`, `BraceEndWithin`, `DoubleQuoteTyped`, `JoinedTyped` and the like say
that a piece takes at least one atom and ends within the line, with text of the line,
for lines of any length. `WordFromTyped` puts the pieces together by induction on what is
left of the line, and `LexStepTurn` sums a turn up as `Turn`. Neither property is
inductive by itself: `Reading` holds the position within the line, every token made of
its text, and, for heredocs, that behind the redirection that opens one no token ends a
line and the lexer remembers that one is pending (`Held`). `ReadingInvariant` gives
`LexerEnds` and `HeredocBodyStaysData`.

**`LineProofs`: the typo search.** Three facts make the suggestion independent of the
order of the entries. The distance is right: `BoundedIsExact` shows that the table of
`bounded_osa`, filled from the words' first letters and left at the first row past the
bound, is the least cost `AlignmentCost`, a recursion towards their ends. The order of
candidates, by distance and then by letters, is a strict total order
(`PrecedesOrders`). And what the search holds is the least of what it has seen:
`Sound` (the best is available and at its distance; an exact match was one) and
`Complete` (no available name within the bound is nearer, unless the stat budget was
spent, and the word itself is not missed even then) are kept by every name and every
entry (`AcceptKeeps`, `TakeEntryKeeps`, `TakeNamesKeeps`), though the search asks for
executability only where a name would improve it. `SearchInv` says over which names, at
each step: those of the shell, of the directories already opened, less the entries
still to come. `NearestSuggested` states both parts of `SuggestionIsNearest`.

Model-checked only:

* liveness (`ShellRegainsControl`, `AfterPromptReturns`, `WaitersFinish`), which TLAPS
  does not reach;
* of `LexesAsTheShell`, the parts `WordsAreTheShells` and `QuotingHidesNothing`, which
  compare the lexer with a second reading of the same line, or of a changed one, through
  many recursive functions of each (`HeredocBodyIsData` and `LexerAdvances` are proved);
* `ReplacementKeepsTheRest`, which reads the corrected line again in the same way.

## What is not modelled

* Foreign objects at the paths (symbolic links, wrong modes): they turn an
  operation into an error, which the models have at every step.
* A wall clock that is set back; records over the size cap.
* In the analysis: the tables' other names (one or two of each kind stand for them),
  and Unicode.
* In the consultation: the request's text, JSON (an answer is sound or not), and a
  signal that interrupts a call, after which its timeout starts again.
* In the intake: a widget that dies while it writes, which ends the check with it.
* Fingerprints of complaints are taken to be different for different complaints.
* Installer and uninstaller: zsh scripts that a user runs by hand, once; they share
  no state with a running check but the files they copy.
* Doctor, report layout, display escaping, the other subcommands' dispatch, release
  scripts: reading and formatting, or tooling.

## What could come next

1. `QuotingHidesNothing` and `ReplacementKeepsTheRest`: both compare what the lexer makes
   of two lines that agree but for one word. A lemma about `WordFrom` on two such lines,
   beside `WordFromTyped`, would carry either.
2. `WordsAreTheShells`: an invariant of the lexer and of `Reads`, step by step, like
   `Agrees` for the two decoders.
