------------------------------- MODULE MCSpell -------------------------------
(* Spell for TLC: a directory with a file that has the suffix, a hidden one   *)
(* and a subdirectory with one that has not.                                  *)
EXTENDS Spell

MCDirs     == {"d", "sub"}
MCEntries  == [d |-> {"sub", "a.txt", ".c.txt"}, sub |-> {"b"}]
MCArgs     == {<<>>, <<"d">>, <<"b", "d">>}
MCHidden   == {".c.txt"}
MCSuffixed == {"a.txt", ".c.txt"}
=============================================================================
