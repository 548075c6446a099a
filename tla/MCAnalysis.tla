------------------------------ MODULE MCAnalysis ------------------------------
(* Lines, search paths and directories for TLC.                              *)
EXTENDS Analysis, TLC

MCLetters == <<"2", ";", "a", "b">>
MCNames == {"a", "b", "x", "A", "D", "HOME", "EOF", "rm", "git", "sudo", "reset", "clean", "push",
            "main", "of", "dd", "dev", "home", "cp", "kill", "pkill", "sh", "chmod", "mkfs",
            "service", "stop", "systemctl", "apt", "remove", "pacman", "branch", "root"}
MCClusters ==
  ("-rf" :> {"r", "f"}) @@ ("-r" :> {"r"}) @@ ("-f" :> {"f"}) @@ ("-fx" :> {"f", "x"})
    @@ ("-R" :> {"R"}) @@ ("-u" :> {"u"}) @@ ("-D" :> {"D"}) @@ ("-d" :> {"d"}) @@ ("-C" :> {"C"})
    @@ ("-9" :> {"9"}) @@ ("-1" :> {"1"}) @@ ("-s" :> {"s"}) @@ ("-Rs" :> {"R", "s"})
MCLongFlags == {"--", "--recursive", "--force", "--hard", "--delete", "--force-with-lease"}
MCHome == <<"/", "home">>

Upto(S, n) == UNION {[1..k -> S] : k \in 0..n}
From(S, m, n) == UNION {[1..k -> S] : k \in m..n}
Spaced(words) == FoldLeft(LAMBDA acc, w : IF acc = <<>> THEN w ELSE acc \o <<" ">> \o w, <<>>, words)

-----------------------------------------------------------------------------
\* Every line of three atoms, longer ones of quotes and of operators.
SyntaxLines ==
  Upto({" ", "\n", "'", "\"", "\\", "$", Backquote, "(", "<", ">", "&", "|", ";", "a", "=",
        "2", "*", "{"}, 3)
    \cup From({"'", "\"", "\\", "$", "a", ";"}, 4, 5)
    \cup From({"<", ">", "&", "a", "\n"}, 4, 5)
    \cup {<<"a", " ", "$", "(", "a", "\"", ")", "\"", ")", ";", "b">>,
          <<"a", " ", "$", "{", "a", "{", "}", ";", "}", "b">>,
          <<"a", "(", "'", ")", "'", "(", ")", ")", "b">>,
          <<"\"", "$", "(", "a", ";", "b", ")", "\"", "|", "b">>}

-----------------------------------------------------------------------------
\* Words to be corrected, what may follow them, and where names are found.
Typed == From({"a", "b"}, 2, 5)
Followed == {<<"a", "b">>, <<"b", "a", "b">>, <<"a", "b", "b", "a", "b">>, <<"a", "2">>}
Followings == {<<" ", "x">>, <<">", "x">>, <<";", "a">>, <<"=", "x">>, <<"'", "a", "'">>, <<"|", "a">>,
             <<"(", ")">>, <<"2", ">", "x">>, <<" ", "<", "<", "EOF", "\n", "a">>, <<"\n">>,
             <<Backquote, "a">>, <<"$", "x">>}
TypoLines ==
  Typed \cup {t \o s : t \in Followed, s \in Followings} \cup {<<" ">> \o t : t \in Followed}
    \cup {<<"A", "=", "x", " ">> \o t : t \in Followed}

Name(n, x) == [name |-> n, exec |-> x]
OneName == {[names |-> <<n>>, path |-> <<>>, dirs |-> <<>>] : n \in Upto({"a", "b"}, 5) \cup {<<"2">>}}
Dirs(here, there) == ("d1" :> here) @@ ("d2" :> there)
OnPath ==
  {[names |-> <<>>, path |-> p, dirs |-> Dirs(here, there)] :
     p \in {<<"d1", "d2">>, <<"d2", "d1", "d2">>, <<"gone", "d1">>},
     here \in {{Name(<<"a", "a">>, TRUE), Name(<<"b", "b">>, TRUE), Name(<<"a", "b">>, x)} : x \in BOOLEAN},
     there \in {{Name(<<"b", "a">>, TRUE)}, {Name(<<"b", "a", "a">>, TRUE), Name(<<"a", ";", "b">>, TRUE)}}}
MCShells == OneName \cup OnPath

-----------------------------------------------------------------------------
\* Commands as sequences of words.
Targets == {<<"/">>, <<"~">>, <<"'", "~", "'">>, <<"\\", "~">>, <<"$", "HOME">>, <<"$", "D">>, <<"*">>, <<"..">>, <<"/", "home", "/">>,
            <<"a", "b">>, <<"a", "b", "b">>, <<"x">>, <<"/", "dev", "/", "sda">>}
Removes ==
  {<<<<"rm">>, <<f>>, t>> : f \in {"-rf", "-r", "-f", "-fx", "--recursive"}, t \in Targets}
    \cup {<<<<"rm">>, <<"-rf">>, t, u>> : t \in Targets, u \in {<<"x">>, <<"$", "D">>, <<"a", "b", "b">>}}
    \cup {<<<<"rm">>, <<"--">>, <<"-rf">>, <<"/">>>>, <<<<"/", "bin", "/", "rm">>, <<"-r">>, <<"/">>>>,
          <<<<".", "/", "rm">>, <<"-r">>, <<"/">>>>, <<<<"A", "=", "x">>, <<"rm">>, <<"-r">>, <<"/">>>>,
          <<<<"rm">>, <<"-r">>, <<"'", "'">>, <<"x">>>>}
Gits ==
  {<<<<"git">>, <<"reset">>, <<"--hard">>>>, <<<<"git">>, <<"-C">>, <<"x">>, <<"reset">>, <<"--hard">>>>,
   <<<<"git">>, <<"clean">>, <<"-fx">>>>, <<<<"git">>, <<"push">>, <<"-f">>>>,
   <<<<"git">>, <<"push">>, <<"--force-with-lease">>>>, <<<<"git">>, <<"push">>, <<":", "main">>>>,
   <<<<"git">>, <<"branch">>, <<"-D">>, <<"x">>>>, <<<<"git">>, <<"branch">>, <<"-d">>, <<"x">>>>, <<<<"git">>>>}
Systems ==
  {<<<<"dd">>, <<"of", "=", "/", "dev", "/", "sda">>>>, <<<<"dd">>, <<"of", "=", "x">>>>,
   <<<<"kill">>, <<"-9">>, <<"-1">>>>, <<<<"kill">>, <<"-1">>, <<"-9">>>>,
   <<<<"kill">>, <<"-s">>, <<"9">>, <<"-1">>>>, <<<<"pkill">>, <<"sh">>>>,
   <<<<"chmod">>, <<"-R">>, <<"x">>, <<"..">>>>, <<<<"cp">>, <<"-f">>, <<"x">>, <<"a", "b">>>>,
   <<<<"cp">>, <<"x">>, <<"/", "dev", "/", "sda">>>>, <<<<"mkfs">>, <<"/", "dev", "/", "sda">>>>,
   <<<<"service">>, <<"a">>, <<"stop">>>>, <<<<"systemctl">>, <<"stop">>, <<"a">>>>,
   <<<<"apt">>, <<"remove">>, <<"a">>>>, <<<<"pacman">>, <<"-Rs">>, <<"a">>>>,
   <<<<"a">>, <<">">>, <<"a", "b">>>>, <<<<"a">>, <<"2">>, <<">", "&">>, <<"1">>>>,
   <<<<"a">>, <<"&", ">">>, <<"/", "dev", "/", "sda">>>>}
Wrapped == {<<<<"sudo">>>> \o c : c \in Systems \cup {r \in Removes : r[2] = <<"-rf">>}}
             \cup {<<<<"sudo">>, <<"-u">>, <<"root">>>> \o c : c \in Gits}
Many == {<<<<"rm">>, <<"-f">>, <<"x">>, <<"a", "b">>, <<"a", "b", "b">>, <<"..">>, <<"/">>>>}
Panics == {<<<<"sudo">>, <<"-u">>>>}
Few == {<<<<"rm">>, <<"-rf">>, <<"/">>>>, <<<<"rm">>, <<"-r">>, <<"a", "b", "b">>>>,
        <<<<"rm">>, <<"-r">>, <<"$", "D">>>>, <<<<"sudo">>, <<"rm">>, <<"-rf">>, <<"x">>>>,
        <<<<"git">>, <<"reset">>, <<"--hard">>>>, <<<<"dd">>, <<"of", "=", "x">>>>,
        <<<<"a">>, <<">">>, <<"a", "b", "b">>>>, <<<<"a">>, <<"<">>>>}
Between == {<<";">>, <<"&", "&">>, <<" ", "|", " ">>, <<"\n">>}
CommandLines ==
  {Spaced(c) : c \in Many \cup Removes \cup Gits \cup Systems \cup Wrapped \cup Panics}
    \cup {Spaced(c) \o o \o Spaced(d) : c \in Few, o \in Between, d \in Few \cup Panics}

MCInputs ==
  {[line |-> l, resolved |-> TRUE] : l \in SyntaxLines \cup CommandLines}
    \cup {[line |-> l, resolved |-> FALSE] : l \in TypoLines}

-----------------------------------------------------------------------------
Fs(xs) == (<<"a", "b", "b">> :> "plain") @@ (<<"..">> :> "parent") @@ (<<"/">> :> "plain") @@ xs
World(dotgit, head, status, fs) == [dotgit |-> dotgit, head |-> head, status |-> status, fs |-> fs]
MCWorlds ==
  {World(<<"absent", "dir">>, h, s, Fs(<<>>)) :
     h \in {"main", "topic"},
     s \in {Unavailable, <<>>, <<"M">>, <<"??">>, <<"M", "??">>, <<"M", "M", "??">>}}
    \cup {World(g, "detached", <<>>, Fs(<<>>)) :
            g \in {<<"absent">>, <<"garbage", "dir">>, <<"gitfile">>, <<"absent", "absent", "dir">>}}
    \cup {World(<<"absent">>, "main", <<>>, Fs(f)) :
            f \in {<<"a", "b">> :> "plain", <<"a", "b">> :> "cwd", <<"x">> :> "plain",
                   (<<"x">> :> "plain") @@ (<<"a", "b">> :> "dangling")}}
===============================================================================
