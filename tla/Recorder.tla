------------------------------ MODULE Recorder ------------------------------
(***************************************************************************)
(* What the stack-walking calls of include/backwalk/backwalk.h promise,    *)
(* with the unwinder abstracted away: a call finds the thread's stack, a   *)
(* sequence of return addresses, innermost first, and reports it, records  *)
(* it, or replays the record.                                              *)
(***************************************************************************)
EXTENDS Naturals, Sequences

CONSTANTS Stacks,   \* the stacks a call may find
          Caps      \* capacities of a record; 0 also stands for none

VARIABLES
    op,     \* the call in progress, or "none"
    stack,  \* what that call found
    rec,    \* the record
    cap,    \* its capacity
    got,    \* what the last finished call gave to its callback
    ret     \* what it returned

rvars == <<op, stack, rec, cap, got, ret>>

RecorderInit ==
    /\ op = "none" /\ stack = <<>> /\ rec = <<>> /\ cap = 0
    /\ got = <<>> /\ ret = TRUE

Begin(o) ==
    /\ op = "none"
    /\ op' = o
    /\ IF o = "process" THEN stack' = rec ELSE stack' \in Stacks
    /\ got' = <<>>
    /\ UNCHANGED <<rec, cap, ret>>

Finish(g, r) ==
    /\ op' = "none"
    /\ stack' = <<>>
    /\ got' = g
    /\ ret' = r

\* The callback stops the call at frame n, or sees the whole stack.
FinishReport ==
    /\ op \in {"backtrace", "process"}
    /\ \/ \E n \in 1 .. Len(stack) : Finish(SubSeq(stack, 1, n), FALSE)
       \/ Finish(stack, TRUE)
    /\ UNCHANGED <<rec, cap>>

Keep ==
    /\ op = "collect"
    /\ \E n \in 1 .. Len(stack) : n <= cap /\ rec' = SubSeq(stack, 1, n)
    /\ UNCHANGED <<op, stack, cap, got, ret>>

\* The answer tells whether the stack fitted.  An empty stack leaves the
\* record of an earlier call in place.
FinishCollect ==
    /\ op = "collect"
    /\ IF Len(stack) <= cap
       THEN (stack = <<>> \/ rec = stack) /\ Finish(<<>>, TRUE)
       ELSE (cap = 0 \/ rec = SubSeq(stack, 1, cap)) /\ Finish(<<>>, FALSE)
    /\ UNCHANGED <<rec, cap>>

\* A record is created or destroyed, and is then empty.
Reset ==
    /\ op = "none"
    /\ cap' \in Caps
    /\ rec' = <<>>
    /\ ret' \in BOOLEAN
    /\ UNCHANGED <<op, stack, got>>

\* Creating a record may fail and then changes nothing but the answer.
Refuse ==
    /\ op = "none"
    /\ ret' = FALSE
    /\ UNCHANGED <<op, stack, rec, cap, got>>

RecorderNext ==
    \/ \E o \in {"backtrace", "collect", "process"} : Begin(o)
    \/ FinishReport \/ Keep \/ FinishCollect \/ Reset \/ Refuse

RecorderSpec == RecorderInit /\ [][RecorderNext]_rvars
=============================================================================
