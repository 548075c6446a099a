--------------------------------- MODULE Typo ---------------------------------
(***************************************************************************)
(* The typo layer (src/layers/typo.rs): the nearest command name to a word *)
(* the shell could not resolve, and the line with the word replaced.       *)
(*                                                                         *)
(* Here a word and a name are sequences of one-letter atoms; Letters is    *)
(* the alphabet in its order.  A search is the best candidate so far,      *)
(* whether the word itself turned up, and the executability checks spent.  *)
(***************************************************************************)
EXTENDS Distance, Lexer

CONSTANTS
  Letters,        \* a sequence: the order of letters in names
  MaxWordChars,   \* MAX_WORD_CHARS
  MaxNameBytes,   \* MAX_NAME_BYTES
  MaxStats,       \* MAX_STATS
  NoName          \* no candidate

\* Names are words of the alphabet.
LetterSet == {Letters[k] : k \in DOMAIN Letters}
ASSUME TypoAssumption ==
  /\ Letters \in Seq(LetterSet) /\ NoName \notin Seq(LetterSet)
  /\ MaxNameBytes \in Nat /\ MaxStats \in Nat

\* The first word, when it is the command, unquoted and literal.
LiteralCommandWord(tokens) ==
  LET w == tokens[1]
  IN  IF /\ tokens # <<>> /\ 1 \in CommandWords(tokens)
         /\ ~w.quoted /\ ~w.expands /\ Len(w.text) \in 2..MaxWordChars
         /\ \A k \in DOMAIN w.text : w.text[k] # "/"
      THEN w.text ELSE NoName

\* A plausible error: a name that exists will do, whatever is in it.
PlausibleAny(name) == name # <<>>

\* Characters that would not be typed as part of one bare word.
Forbidden == Blanks \cup {"'", "\"", "\\", "$", Backquote, "&", "|", ";", "<", ">", "(", ")",
                          "{", "}", "*", "?", "[", "]", "#", "~", "!", "="}
Plausible(name) == name # <<>> /\ \A k \in DOMAIN name : name[k] \notin Forbidden

LetterRank(c) == CHOOSE k \in DOMAIN Letters : Letters[k] = c
Precedes(a, b) ==
  LET k == Min({i \in 1..(Len(a) + 1) : i > Len(a) \/ i > Len(b) \/ a[i] # b[i]})
  IN  a # b /\ (k > Len(a) \/ (k <= Len(b) /\ LetterRank(a[k]) < LetterRank(b[k])))

NoSearch == [best |-> NoName, distance |-> NoDistance, exact |-> FALSE, stats |-> 0]

Improves(search, d, name) ==
  \/ search.best = NoName
  \/ d < search.distance
  \/ d = search.distance /\ Precedes(name, search.best)

\* The distance, when it is within the budget and would improve the best.
UsefulDistance(search, word, name) ==
  LET d == BoundedOsa(word, name, MaxDistance(Len(word)))
  IN  IF /\ Len(name) <= MaxNameBytes /\ Plausible(name)
         /\ d # NoDistance /\ (d = 0 \/ Improves(search, d, name))
      THEN d ELSE NoDistance

Accept(search, d, name) ==
  IF d = 0 THEN [search EXCEPT !.exact = TRUE]
  ELSE IF Improves(search, d, name) THEN [search EXCEPT !.best = name, !.distance = d]
  ELSE search

\* A name the shell supplied.
TakeName(search, word, name) ==
  LET d == UsefulDistance(search, word, name)
  IN  IF d = NoDistance THEN search ELSE Accept(search, d, name)

TakeNames(word, names) ==
  LET after[k \in 0..Len(names)] ==
        IF k = 0 THEN NoSearch ELSE TakeName(after[k - 1], word, names[k])
  IN  after[Len(names)]

\* An entry of a directory on PATH counts when it would run.  An exact name is
\* looked at outside the budget.
TakeEntry(search, word, entry) ==
  LET d == UsefulDistance(search, word, entry.name)
      spent == IF d = 0 THEN search ELSE [search EXCEPT !.stats = @ + 1]
  IN  IF d = NoDistance \/ (d # 0 /\ search.stats >= MaxStats) THEN search
      ELSE IF entry.exec THEN Accept(spent, d, entry.name) ELSE spent

Suggestion(search) == IF search.exact THEN NoName ELSE search.best

\* The line with its first word replaced, or <<>> when it does not begin with
\* exactly the typed word.
ReplacementBuffer(s, typed, candidate) ==
  LET i == SkipAll(s, 1, Blanks)
      j == i + Len(typed)
  IN  IF /\ j - 1 <= Len(s) /\ SubSeq(s, i, j - 1) = typed
         /\ At(s, j) \in Blanks \cup {End, "|", "&", ";", "<", ">", "(", ")"}
      THEN SubSeq(s, 1, i - 1) \o candidate \o SubSeq(s, j, Len(s)) ELSE <<>>
===============================================================================
