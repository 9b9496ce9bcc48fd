------------------------------- MODULE MCRuntime -------------------------------
(* Room for two of three threads.  .data is empty or one word, and nothing *)
(* a program stores is its initial value.  Main calls _sbrk before the     *)
(* kernel runs, one thread afterwards.                                     *)
EXTENDS Runtime

Pointers == 21 .. 23
NoneOrOneWord == {<<>>, <<7>>}
MainAndOne == {Main, 21}
GrowAndShrink == {-1, 2}
================================================================================
