--------------------------- MODULE MCSignalTrace ---------------------------
(* Stacks that are empty, shorter than, as deep as and deeper than the context. *)
EXTENDS SignalTrace

SomeStacks == {<<>>, <<5>>, <<5, 7>>, <<5, 7, 9>>, <<5, 7, 7, 5>>}
=============================================================================
