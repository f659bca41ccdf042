------------------------------- MODULE MCShell -------------------------------
(* Shell for TLC: every line of up to four of some tokens, lines with the    *)
(* rest of them, and lines where # and spaces matter.                        *)
EXTENDS Shell

Short(A, n) == UNION {[1..k -> A] : k \in 0..n}
Apart(ts) == [i \in 1..2 * Len(ts) |-> IF i % 2 = 1 THEN ts[(i + 1) \div 2] ELSE " "]
MCLines == {Apart(ts) : ts \in
              Short({"prog", "|", "<", "and"}, 4)
              \cup {<<"pwd">>, <<"cd">>, <<"exit">>, <<"die">>, <<"missing">>,
                    <<"or", "pwd">>, <<"or", "exit">>, <<"and", "missing">>,
                    <<"prog", ">", "prog">>, <<"missing", ">", "prog">>,
                    <<"prog", "|", "pwd">>, <<"exit", "|", "die", ">", "prog">>}}
           \cup {<<"#", "exit">>, <<"and", " ", "#", "prog">>, <<" ", "prog", "#">>,
                 <<"prog", "<", "prog">>, <<"or", "|", " ", "prog">>,
                 <<"prog", " ", "|", "#", " ", "prog">>}
Few     == {Apart(ts) : ts \in
              {<<>>, <<"pwd">>, <<"prog">>, <<"missing">>, <<"and", "pwd">>,
               <<"or", "pwd">>, <<"and", "|">>, <<"prog", "|", "cd">>, <<"or", "exit">>}}
=============================================================================
