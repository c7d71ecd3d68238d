------------------------------ MODULE MCQuery ------------------------------
EXTENDS DbProxy

\* those of the program, and of the words below
Characters == {Space, CR, LF, NUL, "*", "$"} \cup ToSet(Digit)
  \cup {"a", "b", "d", "e", "g", "j", "l", "n", "o", "r", "s", "t", "v"}

World(cuts, forms, faults, most) ==
  [cuts |-> cuts, forms |-> forms, faults |-> faults, most |-> most]

\* requests that arrive whole, the same with a failing disk, lines that
\* arrive in parts, and what client.cpp sends
Usual == {World(FALSE, {"line", "crlf", "array"}, FALSE, 3),
          World(FALSE, {"crlf", "array"}, TRUE, 2),
          World(TRUE, {"line", "crlf"}, FALSE, 2)}
File == {World(FALSE, {"file"}, FALSE, 1)}

\* What the theorems about DbProxy suppose is true of the first ones.
ASSUME UsualReadable == \A w \in Usual : CanRead(w)

Set(key, val) == [op |-> "set", key |-> key, val |-> val]
Get(key) == [op |-> "get", key |-> key]
Del(key) == [op |-> "del", key |-> key]

\* short words, some of them commands
A == <<"a">>
B == <<"b", "b">>

\* a key with a space or a line feed can be written with its length only
Spaced == <<"a", " ", LF>>

Few == {<<Set(A, Spelled.get), Get(A)>>, <<Set(B, A), Get(B), Get(A)>>,
        <<Set(Spaced, B), Del(A)>>, <<Get(Spaced), Set(B, Spelled.del)>>}

\* query.txt
FileText == {<<Set(<<"j", "a", "s", "o", "n", " ", "j", "a", "g", "a">>,
                   <<"d", "a", "n", "t", "e", " ", "n", "e", "r", "o", " ",
                     "a", "n", "d", " ", "v">>),
               Get(<<"j", "a", "s", "o", "n", " ", "j", "a", "g", "a">>)>>}
=============================================================================
