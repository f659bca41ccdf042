----------------------------- MODULE MCMemgrind ------------------------------
(* MyMalloc and its clients for TLC: a heap the test programs fill to the    *)
(* last word, and, for any other program, data that reads as a free header.  *)
EXTENDS Memgrind

EvenData == {Header(0, FALSE), Header(3, FALSE)}
=============================================================================
