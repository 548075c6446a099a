-------------------------------- MODULE Lexer --------------------------------
(***************************************************************************)
(* The lexer (src/lexer.rs): from the text of a command line to its words, *)
(* control operators and redirections.  Every check relies on it: the typo *)
(* search looks at the first word, the danger rules at the words of each   *)
(* segment.                                                                *)
(*                                                                         *)
(* A line is a sequence of atoms.  A character that means something to the *)
(* shell is an atom of its own; a run of ordinary ones is one atom, such   *)
(* as "rm" or "-rf", for no step of the lexer tells its characters apart.  *)
(* Only right after "$" a "-" would be cut off such a run; no line has one *)
(* there.  NameAtoms are the runs that begin with a letter or "_" and have *)
(* only letters, digits and "_".                                           *)
(***************************************************************************)
EXTENDS Integers, Sequences, FiniteSets, FiniteSetsExt

CONSTANT NameAtoms

Blanks == {" ", "\t", "\n"}
Digits == {"0", "1", "2", "9"}
Backquote == "backquote"          \* a string cannot hold the character itself
Globs == {"*", "?", "[", "~", "^", "#"}
Specials == {"?", "!", "#", "@", "*", "-", "$"}   \* parameters of one character
End == "end of input"

At(s, i) == IF i <= Len(s) THEN s[i] ELSE End
Clip(s, i) == IF i > Len(s) THEN Len(s) + 1 ELSE i

\* The first position from i on that is not in S, or is in S; one past the end
\* when there is none.
SkipAll(s, i, S) == Min({j \in i..Len(s) : s[j] \notin S} \cup {Len(s) + 1})
SkipTo(s, i, S) == Min({j \in i..Len(s) : s[j] \in S} \cup {Len(s) + 1})

-----------------------------------------------------------------------------
(* Spans that are copied as they stand.  Each operator gives the position    *)
(* one past the span.                                                        *)

Outside == "outside quotes"

\* Positions up to n, each with the depths it can have in brackets.
Depths(s, n) == {p \in (1..n) \X (0..(Len(s) + 1)) : p[2] < p[1]}

\* Through the ")" that matches the "(" at i; not counted in quotes.
ParenEnd(s, i) ==
  LET end[p \in Depths(s, Len(s) + 2) \X {Outside, "'", "\""}] ==
        LET k == p[1][1]
            depth == p[1][2]
            quote == p[2]
            c == At(s, k)
            inside(d) == end[<<<<k + 1, d>>, quote>>]
        IN  IF c = End THEN Clip(s, k)
            ELSE IF c = "\\" /\ quote # "'" THEN end[<<<<k + 2, depth>>, quote>>]
            ELSE IF c = quote THEN end[<<<<k + 1, depth>>, Outside>>]
            ELSE IF quote # Outside THEN inside(depth)
            ELSE IF c \in {"'", "\""} THEN end[<<<<k + 1, depth>>, c>>]
            ELSE IF c = "(" THEN inside(depth + 1)
            ELSE IF c # ")" THEN inside(depth)
            ELSE IF depth <= 1 THEN k + 1 ELSE inside(depth - 1)
  IN  end[<<<<i, 0>>, Outside>>]

BraceEnd(s, i) ==
  LET end[p \in Depths(s, Len(s) + 1)] ==
        LET k == p[1]
            depth == p[2]
            c == At(s, k)
        IN  IF c = End THEN Clip(s, k)
            ELSE IF c = "}" /\ depth <= 1 THEN k + 1
            ELSE end[<<k + 1, depth + (IF c = "{" THEN 1 ELSE IF c = "}" THEN -1 ELSE 0)>>]
  IN  end[<<i, 0>>]

\* The position of the closing quote of $'...', or one past the end.
AnsiQuote(s, i) ==
  LET end[k \in 1..(Len(s) + 2)] ==
        LET c == At(s, k)
        IN  IF c \in {End, "'"} THEN Clip(s, k) ELSE end[IF c = "\\" THEN k + 2 ELSE k + 1]
  IN  end[i]

-----------------------------------------------------------------------------
(* Pieces of a word: the text one adds, where it ends, and what it tells.    *)
(* A word begins with its first piece (has).                                 *)

Piece(to, text, quoted, expands, notes) ==
  [to |-> to, text |-> text, quoted |-> quoted, expands |-> expands,
   has |-> TRUE, notes |-> notes]
NoPiece(i) == [Piece(i, <<>>, FALSE, FALSE, {}) EXCEPT !.has = FALSE]
Raw(s, i, to) == SubSeq(s, i, to - 1)
Literal(s, i, to) == Piece(to, Raw(s, i, to), FALSE, FALSE, {})
Opaque(s, i, to, notes) == Piece(to, Raw(s, i, to), FALSE, TRUE, notes)

Join(p, q) ==
  [to |-> q.to, text |-> p.text \o q.text, quoted |-> p.quoted \/ q.quoted,
   expands |-> p.expands \/ q.expands, has |-> p.has \/ q.has, notes |-> p.notes \cup q.notes]

Substitution == {"syntax.opaque_substitution"}
Unclosed(s, i) == IF i > Len(s) THEN {"syntax.unclosed_quote"} ELSE {}

\* A plausible error: a backslash keeps the quote open, as in double quotes.
SingleQuoteEscaping(s, i) ==
  LET e == AnsiQuote(s, i + 1)
  IN  Piece(Clip(s, e + 1), Raw(s, i + 1, e), TRUE, FALSE, Unclosed(s, e))

SingleQuote(s, i) ==
  LET e == SkipTo(s, i + 1, {"'"})
  IN  Piece(Clip(s, e + 1), Raw(s, i + 1, e), TRUE, FALSE, Unclosed(s, e))

Backtick(s, i) == Opaque(s, i, Clip(s, SkipTo(s, i + 1, {Backquote}) + 1), Substitution)

Dollar(s, i, inDquote) ==
  LET c == At(s, i + 1)
      e == AnsiQuote(s, i + 2)
  IN  CASE c = "(" -> Opaque(s, i, ParenEnd(s, i + 1), Substitution)
        [] c = "{" -> Opaque(s, i, BraceEnd(s, i + 1), {})
        [] c = "'" /\ ~inDquote ->
             Piece(Clip(s, e + 1), <<"$">> \o Raw(s, i + 2, e), TRUE, TRUE, Unclosed(s, e))
        [] c \in NameAtoms -> Opaque(s, i, SkipAll(s, i + 1, NameAtoms \cup Digits), {})
        [] c \in Digits \cup Specials -> Opaque(s, i, i + 2, {})
        [] OTHER -> Literal(s, i, i + 1)

\* In double quotes a backslash escapes only these.
Escapable == {"$", Backquote, "\"", "\\"}

\* From after the opening quote through the closing one.
DoubleQuote(s, i) ==
  LET from[k \in 1..(Len(s) + 1)] ==
        LET c == At(s, k)
            n == At(s, k + 1)
            then(p) == Join(p, from[p.to])
        IN  CASE c = End -> Piece(k, <<>>, TRUE, FALSE, Unclosed(s, k))
              [] c = "\"" -> Piece(k + 1, <<>>, TRUE, FALSE, {})
              [] c = "\\" /\ n \in Escapable -> then(Literal(s, k + 1, k + 2))
              [] c = "\\" /\ n \notin Escapable -> then(Literal(s, k, Clip(s, k + 2)))
              [] c = "$" -> then(Dollar(s, k, TRUE))
              [] c = Backquote -> then(Backtick(s, k))
              [] OTHER -> then(Literal(s, k, k + 1))
  IN  from[i]

\* A backslash outside quotes: the next character as it is.
Escape(s, i) ==
  IF i = Len(s) THEN [NoPiece(i + 1) EXCEPT !.quoted = TRUE]
  ELSE Piece(i + 2, <<s[i + 1]>>, TRUE, FALSE, {})

\* A process substitution, <(...) or >(...), is part of a word.
Substitutes(s, i) == At(s, i) \in {"<", ">"} /\ At(s, i + 1) = "("

EndsWord(s, i) ==
  \/ At(s, i) \in Blanks \cup {End, "&", "|", ";", ")"}
  \/ At(s, i) \in {"<", ">"} /\ ~Substitutes(s, i)

NextPiece(s, i, has) ==
  LET c == At(s, i)
  IN  CASE Substitutes(s, i) -> Opaque(s, i, ParenEnd(s, i + 1), Substitution)
        [] c = "'" -> SingleQuote(s, i)
        [] c = "\"" -> DoubleQuote(s, i + 1)
        [] c = "\\" -> Escape(s, i)
        [] c = "$" -> Dollar(s, i, FALSE)
        [] c = Backquote -> Backtick(s, i)
        [] c = "(" -> Opaque(s, i, ParenEnd(s, i), {"syntax.zsh_glob"})
        [] c \in Globs \/ (c = "=" /\ ~has) -> Opaque(s, i, i + 1, {})
        [] OTHER -> Literal(s, i, i + 1)

\* The word from i on; has says whether it has begun.
WordFrom(s, i) ==
  LET from[b \in (1..(Len(s) + 1)) \X BOOLEAN] ==
        LET then(p) == Join(p, from[<<p.to, b[2] \/ p.has>>])
        IN  IF EndsWord(s, b[1]) THEN NoPiece(b[1]) ELSE then(NextPiece(s, b[1], b[2]))
  IN  from[<<i, FALSE>>]

-----------------------------------------------------------------------------
(* Tokens.  A lexer is where it stands, the tokens so far, the evidence of   *)
(* what it could not see through, and whether a heredoc's body is to come.   *)

WordToken(p) ==
  [kind |-> "word", text |-> p.text, quoted |-> p.quoted, expands |-> p.expands]
Token(kind, text) == [kind |-> kind, text |-> text, quoted |-> FALSE, expands |-> FALSE]
IsWord(t) == t.kind = "word"
IsOp(t) == t.kind = "op"
IsRedirect(t) == t.kind = "redirect"

Start == [i |-> 1, tokens |-> <<>>, uncertainty |-> {}, pendingHeredoc |-> FALSE]
Emit(lx, to, t) == [lx EXCEPT !.i = to, !.tokens = Append(@, t)]

LexWord(s, lx) ==
  LET read(p) == [lx EXCEPT !.i = p.to, !.uncertainty = @ \cup p.notes]
      take(p) == IF p.has THEN Emit(read(p), p.to, WordToken(p)) ELSE read(p)
  IN  take(WordFrom(s, lx.i))

Doubles == {<<"&", "&">>, <<"|", "|">>, <<"|", "&">>, <<";", ";">>}
LexControl(s, lx) ==
  LET two == <<At(s, lx.i), At(s, lx.i + 1)>>
  IN  IF two \in Doubles THEN Emit(lx, lx.i + 2, Token("op", two))
      ELSE Emit(lx, lx.i + 1, Token("op", <<At(s, lx.i)>>))

\* One past the redirection operator at j.
RedirectEnd(s, j) ==
  LET a == At(s, j)
      b == At(s, j + 1)
      c == At(s, j + 2)
      three == \/ a = "<" /\ b = "<" /\ c \in {"<", "-"}     \* <<< <<-
               \/ a = ">" /\ b = ">" /\ c = "&"              \* >>&
               \/ a = "&" /\ c = ">"                         \* &>>
      two == \/ a = "<" /\ b \in {"<", "&", ">"}
             \/ a = ">" /\ b \in {">", "&", "|"}
             \/ a = "&"                                      \* &>
  IN  IF three THEN j + 3 ELSE IF two THEN j + 2 ELSE j + 1

Heredoc(s, j) == At(s, j) = "<" /\ At(s, j + 1) = "<" /\ At(s, j + 2) # "<"

\* The operator is at j, the digits of a descriptor before it.
LexRedirect(s, lx, j) ==
  LET e == RedirectEnd(s, j)
      read == Emit(lx, e, Token("redirect", Raw(s, lx.i, e)))
  IN  IF Heredoc(s, j)
      THEN [read EXCEPT !.pendingHeredoc = TRUE, !.uncertainty = @ \cup {"syntax.heredoc"}]
      ELSE read

\* What follows the line of a heredoc is its body: not commands.
LexNewline(s, lx) ==
  IF lx.pendingHeredoc THEN [lx EXCEPT !.i = Len(s) + 1]
  ELSE Emit(lx, lx.i + 1, Token("op", <<"\n">>))

\* One turn of the loop.
LexStep(s, lx) ==
  LET c == At(s, lx.i)
      j == SkipAll(s, lx.i, Digits)
  IN  CASE c = "\n" -> LexNewline(s, lx)
        [] c \in Blanks \ {"\n"} -> [lx EXCEPT !.i = @ + 1]
        [] c \in {"|", ";"} \/ (c = "&" /\ At(s, lx.i + 1) # ">") -> LexControl(s, lx)
        [] c = "&" /\ At(s, lx.i + 1) = ">" -> LexRedirect(s, lx, lx.i)
        [] c \in {"(", ")"} -> Emit(lx, lx.i + 1, Token("op", <<c>>))
        [] c \in {"<", ">"} /\ ~Substitutes(s, lx.i) -> LexRedirect(s, lx, lx.i)
        [] c \in Digits /\ At(s, j) \in {"<", ">"} -> LexRedirect(s, lx, j)
        [] OTHER -> LexWord(s, lx)

\* The loop, at most one turn for each atom.
Lex(s) ==
  LET after[n \in 0..Len(s)] ==
        LET lx == after[n - 1]
        IN  IF n = 0 THEN Start ELSE IF lx.i > Len(s) THEN lx ELSE LexStep(s, lx)
  IN  after[Len(s)]

-----------------------------------------------------------------------------
(* Which word is a command                                                   *)

\* NAME=... or NAME+=..., unquoted.
IsAssignment(w) ==
  LET eq == SkipTo(w.text, 1, {"="})
      name == IF eq > 1 /\ w.text[eq - 1] = "+" THEN eq - 2 ELSE eq - 1
  IN  /\ ~w.quoted /\ eq <= Len(w.text)
      /\ name >= 1 /\ w.text[1] \in NameAtoms
      /\ \A k \in 1..name : w.text[k] \in NameAtoms \cup Digits

\* The word right after a redirection is its target.
IsTarget(t, k) == k > 1 /\ IsWord(t[k]) /\ IsRedirect(t[k - 1])
Candidate(t, k) == IsWord(t[k]) /\ ~IsTarget(t, k) /\ ~IsAssignment(t[k])

\* The first word of each segment that is neither an assignment nor a target.
CommandWords(t) ==
  {k \in DOMAIN t :
     /\ Candidate(t, k)
     /\ \A j \in 1..(k - 1) : Candidate(t, j) => \E o \in (j + 1)..(k - 1) : IsOp(t[o])}
=============================================================================
