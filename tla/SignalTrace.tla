---------------------------- MODULE SignalTrace ----------------------------
(***************************************************************************)
(* The split between collecting and processing that bw_context_t is for,   *)
(* as src/test/signal_test.c uses it: a signal handler, which may only     *)
(* call bw_backtrace_collect, fills a context, and a worker thread calls   *)
(* bw_backtrace_process on it.  A ticket (module Ticket) tells the main    *)
(* thread that the worker runs, a pipe tells the worker that the trace is  *)
(* there, and the join tells the main thread that it may free the context. *)
(* The context itself has no synchronisation.                              *)
(***************************************************************************)
EXTENDS Ticket, Sequences

CONSTANTS
    Main, Worker,
    Stacks,     \* the stacks the handler may find
    Depth       \* the argument of mkbw_context

ASSUME HandshakeAssumption == Main \in Waiters /\ Worker \in Signallers
ASSUME StackAssumption == Stacks \subseteq Seq(Nat) /\ Depth \in Nat

VARIABLES
    main,       \* where the main thread is, the handler it runs included
    work,       \* where the worker is
    stack,      \* the frames below the handler
    ctx,        \* the context: [live, ip (the written elements), ip_cnt]
    pipe,       \* bytes in the pipe
    seen        \* what the worker's callback was given

ticket == vars
traceVars == <<ticket, main, work, stack, ctx, pipe, seen>>

NoContext == [live |-> FALSE, ip |-> <<>>, ip_cnt |-> 0]

TraceInit ==
    /\ Init
    /\ main = "create" /\ work = "none"
    /\ stack \in Stacks
    /\ ctx = NoContext /\ pipe = 0 /\ seen = <<>>

\* _exit, from either thread, and the return of the test end the process.
Running == main \notin {"exit", "failed", "passed"}

----------------------------------------------------------------------------
(* The main thread *)

MainTo(from, to) == Running /\ main = from /\ main' = to

Create ==
    /\ \/ MainTo("create", "ticket_wait") /\ work' = "ticket_signal"
       \/ MainTo("create", "failed") /\ UNCHANGED work
    /\ UNCHANGED <<ticket, stack, ctx, pipe, seen>>

TicketWait ==
    /\ Running /\ main = "ticket_wait"
    /\ WaitStep(Main)
    /\ main' = IF wpc'[Main] = "done" THEN "make" ELSE main
    /\ UNCHANGED <<work, stack, ctx, pipe, seen>>

\* A wake-up of pthread_cond_wait that nobody sent.
Spurious ==
    /\ Running /\ main = "ticket_wait"
    /\ SpuriousWakeup(Main)
    /\ UNCHANGED <<main, work, stack, ctx, pipe, seen>>

Make ==
    /\ \/ MainTo("make", "signal") /\ ctx' = [NoContext EXCEPT !.live = TRUE]
       \/ MainTo("make", "failed") /\ UNCHANGED ctx
    /\ UNCHANGED <<ticket, work, stack, pipe, seen>>

\* The handler is installed and the signal raised, or one of the two fails.
Raise ==
    /\ MainTo("signal", "collect") \/ MainTo("signal", "failed")
    /\ UNCHANGED <<ticket, work, stack, ctx, pipe, seen>>

\* Variant: the count is published one behind.
CountBehind(n) == n - 1

Count(n) == n

\* One turn of the loop of bw_backtrace_collect.
Collect ==
    LET n == Len(ctx.ip) + 1
    IN  /\ n <= Len(stack)
        /\ IF n > Depth
           THEN MainTo("collect", "exit") /\ UNCHANGED ctx
           ELSE /\ MainTo("collect", "collect")
                /\ ctx' = [ctx EXCEPT !.ip = Append(@, stack[n]), !.ip_cnt = Count(n)]
        /\ UNCHANGED <<ticket, work, stack, pipe, seen>>

CollectEnd ==
    /\ Len(ctx.ip) = Len(stack)
    /\ MainTo("collect", "write")
    /\ UNCHANGED <<ticket, work, stack, ctx, pipe, seen>>

\* Variant: the byte is not written.
SentNone == 0

\* sizeof(signal)
Sent == 1

Write ==
    /\ \/ MainTo("write", "join") /\ pipe' = pipe + Sent
       \/ MainTo("write", "exit") /\ UNCHANGED pipe
    /\ UNCHANGED <<ticket, work, stack, ctx, seen>>

\* Variant: the worker is not waited for.
JoinableAlways == TRUE

Joinable == work = "done"

\* pthread_join, which does not fail for a thread that was created, and the
\* assertion of the test.
Join ==
    /\ Joinable
    /\ MainTo("join", IF seen # <<>> THEN "fini" ELSE "failed")
    /\ UNCHANGED <<ticket, work, stack, ctx, pipe, seen>>

Fini ==
    /\ MainTo("fini", "passed")
    /\ ctx' = NoContext
    /\ UNCHANGED <<ticket, work, stack, pipe, seen>>

MainStep == Create \/ TicketWait \/ Make \/ Raise \/ Collect \/ CollectEnd \/ Write \/ Join \/ Fini

----------------------------------------------------------------------------
(* The worker *)

TicketSignal ==
    /\ Running /\ work = "ticket_signal"
    /\ SignalStep(Worker)
    /\ work' = IF spc'[Worker] = "done" THEN "read" ELSE work
    /\ UNCHANGED <<main, stack, ctx, pipe, seen>>

\* Variant: the worker looks at the context instead of the pipe.
ReadableContext == ctx.ip_cnt > 0

Readable == pipe > 0

Read ==
    /\ Running /\ work = "read"
    /\ Readable
    /\ \/ work' = "process" /\ pipe' = pipe - 1 /\ UNCHANGED main
       \/ main' = "exit" /\ UNCHANGED <<work, pipe>>
    /\ UNCHANGED <<ticket, stack, ctx, seen>>

\* One turn of the loop of bw_backtrace_process; the callback answers true.
Process ==
    /\ Running /\ work = "process"
    /\ IF Len(seen) < ctx.ip_cnt
       THEN seen' = Append(seen, ctx.ip[Len(seen) + 1]) /\ UNCHANGED work
       ELSE work' = "done" /\ UNCHANGED seen
    /\ UNCHANGED <<ticket, main, stack, ctx, pipe>>

WorkerStep == TicketSignal \/ Read \/ Process

----------------------------------------------------------------------------
TraceNext == MainStep \/ WorkerStep \/ Spurious

TraceSpec == TraceInit /\ [][TraceNext]_traceVars

\* Both threads are scheduled, and a lock that keeps coming free is granted;
\* nothing is owed by failures and spurious wake-ups.
FairTraceSpec ==
    /\ TraceSpec
    /\ WF_traceVars(MainStep) /\ WF_traceVars(WorkerStep)
    /\ SF_traceVars(TicketWait /\ WaitLock(Main))
    /\ SF_traceVars(TicketSignal /\ SignalLock(Worker))

----------------------------------------------------------------------------
\* bw_backtrace_collect writes the context without a lock while only the
\* handshake keeps the worker away: no element is read while the handler may
\* still write.
NoRace == ~(main = "collect" /\ work = "process")

\* bw_context_fini: nobody is inside collect or process when the context is
\* freed, or has it before it is made.
ContextAlive == (main = "collect" \/ work = "process") => ctx.live

\* bw_backtrace_process: what the worker has processed when it ends is the
\* whole stack that the handler found, innermost frame first.
WholeTrace == work = "done" => seen = stack

\* The two threads and the handler never wait for one another for good: the
\* test comes to an end, whichever call fails.
TestEnds == <>(main \in {"exit", "failed", "passed"})
=============================================================================
