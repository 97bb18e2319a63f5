----------------------------- MODULE MCConsole ------------------------------
(* A window with every menu entry and short lines.                         *)
EXTENDS Console

MCChoices == {"0", "x"} \cup {Digits[i] : i \in DOMAIN Digits}

Vertical(words, where) == [words |-> words, vertical |-> where]

MCFields ==
    {Blank, Line(<<"0">>), Line(<<"1">>), Line(<<"a">>), Line(<<"a", "1">>),
     Line(<<"1", "1">>), Vertical(<<>>, "first"), Vertical(<<"1">>, "first"),
     Vertical(<<"a", "1">>, "later")}

MCRawLines ==
    {Blank, Vertical(<<>>, "first")}
        \cup {Line(<<word>>) : word \in {"help", "exit", "quit", "save"}}
        \cup {Line(<<"exit", "1">>), Line(<<"kill_pcb", "1">>)}
        \cup {Vertical(<<"exit">>, where) : where \in {"first", "later"}}
        \cup {Vertical(<<"quit", "1">>, where) : where \in {"first", "later"}}

MCTags == {"0", "1", "a"}

MCNumbers == {"0", "1"}
=============================================================================
