---------------------------- MODULE MCWinCapture ----------------------------
(* Instances of WinCapture: frames of two stacks are told apart by parity. *)
EXTENDS WinCapture

CONSTANT Lengths    \* lengths of the stacks

Addresses == 1 .. 1000

StackOf(n, g) == [k \in 1 .. n |-> 2 * k + g]

TwoGenerations == {StackOf(n, g) : n \in Lengths, g \in {0, 1}}
=============================================================================
