----------------------------- MODULE MCMyMalloc -----------------------------
(* MyMalloc for TLC: a small heap, data that reads as a free header.         *)
EXTENDS MyMalloc

EvenData == {Header(0, FALSE), Header(3, FALSE)}
=============================================================================
