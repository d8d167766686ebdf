------------------------------- MODULE Ticket -------------------------------
(***************************************************************************)
(* The one-shot event of src/src/common.c: ticket_signal and ticket_wait   *)
(* on a mutex, a condition variable and a flag.  Each thread makes one     *)
(* call.  The pthread objects are external and modelled by POSIX:          *)
(* pthread_cond_wait releases the mutex and blocks in one step, may wake   *)
(* up spuriously and takes the mutex again before it returns;              *)
(* pthread_cond_signal unblocks a waiter if there is one.                  *)
(***************************************************************************)
EXTENDS Integers, FiniteSets

CONSTANTS Waiters, Signallers, NoOwner

ASSUME ThreadsAssumption ==
    /\ IsFiniteSet(Waiters) /\ IsFiniteSet(Signallers)
    /\ Waiters \cap Signallers = {}
    /\ NoOwner \notin Waiters \cup Signallers

\* pthread_cond_signal unblocks one waiter, so a waiter is sure to be woken
\* only if there are as many signals as waiters; the uses of the ticket have
\* one of each.
ASSUME EnoughSignals == Cardinality(Waiters) <= Cardinality(Signallers)

VARIABLES
    mtx,    \* owner of the mutex
    state,  \* the flag
    wpc,    \* where each waiter is
    spc     \* where each signaller is

vars == <<mtx, state, wpc, spc>>

Blocked == {w \in Waiters : wpc[w] = "blocked"}

\* ticket_init
Init ==
    /\ mtx = NoOwner
    /\ state = FALSE
    /\ wpc = [w \in Waiters |-> "start"]
    /\ spc = [s \in Signallers |-> "start"]

----------------------------------------------------------------------------
(* ticket_signal *)

\* The variant that sets the flag without the mutex.
SignalSetUnlocked(s) ==
    /\ spc[s] = "start"
    /\ state' = TRUE
    /\ spc' = [spc EXCEPT ![s] = "notify"]
    /\ UNCHANGED <<mtx, wpc>>

SignalLock(s) ==
    /\ spc[s] = "start"
    /\ mtx = NoOwner
    /\ mtx' = s
    /\ spc' = [spc EXCEPT ![s] = "locked"]
    /\ UNCHANGED <<state, wpc>>

SignalSet(s) ==
    /\ spc[s] = "locked"
    /\ state' = TRUE
    /\ mtx' = NoOwner
    /\ spc' = [spc EXCEPT ![s] = "notify"]
    /\ UNCHANGED wpc

SignalNotify(s) ==
    /\ spc[s] = "notify"
    /\ IF Blocked = {}
       THEN UNCHANGED wpc
       ELSE \E w \in Blocked : wpc' = [wpc EXCEPT ![w] = "woken"]
    /\ spc' = [spc EXCEPT ![s] = "done"]
    /\ UNCHANGED <<mtx, state>>

----------------------------------------------------------------------------
(* ticket_wait *)

\* The variant that trusts a wake-up.
WaitLockTrusting(w) ==
    /\ wpc[w] \in {"start", "woken"}
    /\ mtx = NoOwner
    /\ mtx' = w
    /\ wpc' = [wpc EXCEPT ![w] = IF wpc[w] = "woken" THEN "leave" ELSE "check"]
    /\ UNCHANGED <<state, spc>>

\* The lock on entry, and the one pthread_cond_wait takes before it returns.
WaitLock(w) ==
    /\ wpc[w] \in {"start", "woken"}
    /\ mtx = NoOwner
    /\ mtx' = w
    /\ wpc' = [wpc EXCEPT ![w] = "check"]
    /\ UNCHANGED <<state, spc>>

\* The loop condition.
WaitCheck(w) ==
    /\ wpc[w] = "check"
    /\ wpc' = [wpc EXCEPT ![w] = IF state THEN "leave" ELSE "block"]
    /\ UNCHANGED <<mtx, state, spc>>

\* pthread_cond_wait
WaitBlock(w) ==
    /\ wpc[w] = "block"
    /\ mtx' = NoOwner
    /\ wpc' = [wpc EXCEPT ![w] = "blocked"]
    /\ UNCHANGED <<state, spc>>

SpuriousWakeup(w) ==
    /\ wpc[w] = "blocked"
    /\ wpc' = [wpc EXCEPT ![w] = "woken"]
    /\ UNCHANGED <<mtx, state, spc>>

WaitLeave(w) ==
    /\ wpc[w] = "leave"
    /\ mtx' = NoOwner
    /\ wpc' = [wpc EXCEPT ![w] = "done"]
    /\ UNCHANGED <<state, spc>>

----------------------------------------------------------------------------
SignalStep(s) == SignalLock(s) \/ SignalSet(s) \/ SignalNotify(s)

WaitStep(w) == WaitLock(w) \/ WaitCheck(w) \/ WaitBlock(w) \/ WaitLeave(w)

Next ==
    \/ \E s \in Signallers : SignalStep(s)
    \/ \E w \in Waiters : WaitStep(w) \/ SpuriousWakeup(w)

Spec == Init /\ [][Next]_vars

----------------------------------------------------------------------------
TypeOK ==
    /\ mtx \in Waiters \cup Signallers \cup {NoOwner}
    /\ state \in BOOLEAN
    /\ wpc \in [Waiters -> {"start", "check", "block", "blocked", "woken", "leave", "done"}]
    /\ spc \in [Signallers -> {"start", "locked", "notify", "done"}]

\* The signallers that have yet to call pthread_cond_signal.
Pending == {s \in Signallers : spc[s] # "done"}

\* ticket_wait: no wake-up, spurious or stolen, lets a waiter return before
\* the ticket has been signalled.
NoEarlyReturn == \A w \in Waiters : wpc[w] \in {"leave", "done"} => state

\* ticket_signal: setting the flag under the mutex and notifying after the
\* unlock loses no wake-up: once the flag is set, there is a notification
\* still to come for every waiter that is blocked.
NoLostWakeup == state => Cardinality(Blocked) <= Cardinality(Pending)
=============================================================================
