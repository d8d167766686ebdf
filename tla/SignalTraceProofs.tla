------------------------- MODULE SignalTraceProofs -------------------------
(***************************************************************************)
(* The ticket is safe for any number of threads: nobody returns early, and *)
(* no wake-up is lost.  The hand-over of a trace from the signal handler   *)
(* to the worker is safe for every stack and every depth: by the ticket,   *)
(* which the two threads use as its specification allows, and by the pipe. *)
(***************************************************************************)
EXTENDS SignalTrace, SequenceTheorems, FiniteSetTheorems, TLAPS

-----------------------------------------------------------------------------
(* The ticket *)

\* A waiter that is about to block holds the mutex and has seen the flag
\* unset since it took it; a signaller that is about to set the flag holds
\* the mutex.
MutexInv ==
    /\ \A w \in Waiters : wpc[w] \in {"check", "block", "leave"} => mtx = w
    /\ \A s \in Signallers : spc[s] = "locked" => mtx = s

\* No signaller has got past setting the flag unless it is set, and then
\* nobody is about to block.
FlagInv ==
    /\ state => \A w \in Waiters : wpc[w] # "block"
    /\ ~state => \A s \in Signallers : spc[s] \in {"start", "locked"}

Inv == TypeOK /\ MutexInv /\ FlagInv /\ NoEarlyReturn /\ NoLostWakeup

\* The sets of threads that the properties count are finite.
LEMMA FiniteThreads ==
    ASSUME TypeOK
    PROVE  /\ IsFiniteSet(Blocked) /\ IsFiniteSet(Pending)
           /\ Cardinality(Blocked) \in Nat /\ Cardinality(Pending) \in Nat
           /\ Cardinality(Waiters) \in Nat /\ Cardinality(Signallers) \in Nat
           /\ Cardinality(Blocked) <= Cardinality(Waiters)
  <1>1. Blocked \subseteq Waiters /\ Pending \subseteq Signallers
    BY DEF Blocked, Pending
  <1>2. IsFiniteSet(Blocked) /\ IsFiniteSet(Pending)
    BY <1>1, ThreadsAssumption, FS_Subset
  <1>3. Cardinality(Blocked) <= Cardinality(Waiters)
    BY <1>1, ThreadsAssumption, FS_Subset
  <1> QED BY <1>2, <1>3, ThreadsAssumption, FS_CardinalityType

\* ticket_init establishes the invariant.
LEMMA InitInv == Init => Inv
  <1> SUFFICES ASSUME Init PROVE Inv
    OBVIOUS
  <1> QED BY DEF Init, Inv, TypeOK, MutexInv, FlagInv, NoEarlyReturn, NoLostWakeup

\* A step that blocks nobody and finishes no signal cannot lose a wake-up
\* once the flag is set.
LEMMA FewerBlocked ==
    ASSUME TypeOK, TypeOK', NoLostWakeup, state, Blocked' \subseteq Blocked, Pending' = Pending
    PROVE  NoLostWakeup'
  <1>1. Cardinality(Blocked') <= Cardinality(Blocked) /\ Cardinality(Blocked') \in Nat
    BY FiniteThreads, FS_Subset, FS_CardinalityType
  <1> QED BY <1>1, FiniteThreads DEF NoLostWakeup

\* ticket_signal
LEMMA SignalInv ==
    ASSUME Inv, NEW s \in Signallers, SignalStep(s)
    PROVE  Inv'
  <1> USE DEF Inv
  <1>1. TypeOK'
    BY DEF SignalStep, SignalLock, SignalSet, SignalNotify, TypeOK, Blocked
  <1>2. CASE SignalLock(s)
    <2>1. MutexInv' /\ FlagInv' /\ NoEarlyReturn'
      BY <1>2, ThreadsAssumption DEF SignalLock, TypeOK, MutexInv, FlagInv, NoEarlyReturn
    <2>2. Blocked' = Blocked /\ Pending' = Pending /\ state' = state
      BY <1>2 DEF SignalLock, TypeOK, Blocked, Pending
    <2> QED BY <1>1, <2>1, <2>2 DEF NoLostWakeup
  <1>3. CASE SignalSet(s)
    <2>1. MutexInv' /\ NoEarlyReturn'
      BY <1>3, ThreadsAssumption DEF SignalSet, TypeOK, MutexInv, NoEarlyReturn
    <2>2. \A w \in Waiters : wpc[w] # "block"
      BY <1>3, ThreadsAssumption DEF SignalSet, MutexInv
    <2>3. FlagInv'
      BY <1>3, <2>2 DEF SignalSet, TypeOK, FlagInv
    <2>4. Blocked' = Blocked /\ Pending' = Pending
      BY <1>3 DEF SignalSet, TypeOK, Blocked, Pending
    <2>5. NoLostWakeup'
      <3>1. CASE state
        BY <3>1, <2>4 DEF NoLostWakeup
      <3>2. CASE ~state
        <4>1. Pending = Signallers
          BY <3>2 DEF FlagInv, Pending
        <4> QED BY <2>4, <4>1, FiniteThreads, EnoughSignals DEF NoLostWakeup
      <3> QED BY <3>1, <3>2
    <2> QED BY <1>1, <2>1, <2>3, <2>5
  <1>4. CASE SignalNotify(s)
    <2>1. MutexInv' /\ FlagInv' /\ NoEarlyReturn' /\ state /\ state' = state
      BY <1>4 DEF SignalNotify, TypeOK, MutexInv, FlagInv, NoEarlyReturn, Blocked
    <2>2. s \in Pending /\ Pending' = Pending \ {s}
      BY <1>4 DEF SignalNotify, TypeOK, Pending
    <2>3. Cardinality(Pending') = Cardinality(Pending) - 1
      BY <2>2, FiniteThreads, FS_RemoveElement
    <2>4. CASE Blocked = {}
      <3>1. Blocked' = {}
        BY <1>4, <2>4 DEF SignalNotify, Blocked
      <3>2. Cardinality(Blocked') = 0
        BY <3>1, FS_EmptySet
      <3>3. Cardinality(Pending') \in Nat
        BY <2>2, FiniteThreads, FS_RemoveElement, FS_CardinalityType
      <3>4. NoLostWakeup'
        BY <3>2, <3>3 DEF NoLostWakeup
      <3> QED BY <1>1, <2>1, <3>4
    <2>5. CASE Blocked # {}
      <3>1. PICK w \in Blocked : wpc' = [wpc EXCEPT ![w] = "woken"]
        BY <1>4, <2>5 DEF SignalNotify
      <3>2. Blocked' = Blocked \ {w}
        BY <3>1 DEF Blocked, TypeOK
      <3>3. Cardinality(Blocked') = Cardinality(Blocked) - 1
        BY <3>2, FiniteThreads, FS_RemoveElement
      <3> QED BY <1>1, <2>1, <2>3, <3>3, FiniteThreads DEF NoLostWakeup
    <2> QED BY <2>4, <2>5
  <1> QED BY <1>2, <1>3, <1>4 DEF SignalStep

\* ticket_wait
LEMMA WaitInv ==
    ASSUME Inv, NEW w \in Waiters, WaitStep(w) \/ SpuriousWakeup(w)
    PROVE  Inv'
  <1> USE DEF Inv
  <1>1. TypeOK'
    BY DEF WaitStep, WaitLock, WaitCheck, WaitBlock, WaitLeave, SpuriousWakeup, TypeOK
  <1>2. state' = state /\ Pending' = Pending
    BY DEF WaitStep, WaitLock, WaitCheck, WaitBlock, WaitLeave, SpuriousWakeup, Pending
  <1>3. MutexInv'
    BY ThreadsAssumption
       DEF WaitStep, WaitLock, WaitCheck, WaitBlock, WaitLeave, SpuriousWakeup, TypeOK, MutexInv
  <1>4. FlagInv' /\ NoEarlyReturn'
    BY DEF WaitStep, WaitLock, WaitCheck, WaitBlock, WaitLeave, SpuriousWakeup, TypeOK,
           FlagInv, NoEarlyReturn
  <1>5. state => Blocked' \subseteq Blocked
    BY DEF WaitStep, WaitLock, WaitCheck, WaitBlock, WaitLeave, SpuriousWakeup, TypeOK,
           FlagInv, Blocked
  <1>6. NoLostWakeup'
    <2>1. CASE state
      BY <1>1, <1>2, <1>5, <2>1, FewerBlocked
    <2>2. CASE ~state
      BY <1>2, <2>2 DEF NoLostWakeup
    <2> QED BY <2>1, <2>2
  <1> QED BY <1>1, <1>3, <1>4, <1>6

-----------------------------------------------------------------------------
\* The invariant holds for any number of waiters and signallers.
THEOREM Invariance == Spec => []Inv
  <1>1. Inv /\ [Next]_vars => Inv'
    <2> SUFFICES ASSUME Inv, [Next]_vars PROVE Inv'
      OBVIOUS
    <2>1. CASE UNCHANGED vars
      BY <2>1 DEF vars, Inv, TypeOK, MutexInv, FlagInv, NoEarlyReturn, NoLostWakeup,
                  Blocked, Pending
    <2> QED BY <2>1, SignalInv, WaitInv DEF Next
  <1> QED BY InitInv, <1>1, PTL DEF Spec

\* No call of ticket_wait returns before the ticket has been signalled.
THEOREM NeverEarly == Spec => []NoEarlyReturn
  BY Invariance, PTL DEF Inv

\* Once the ticket has been signalled, every blocked waiter has a
\* notification still to come.
THEOREM NeverLost == Spec => []NoLostWakeup
  BY Invariance, PTL DEF Inv

-----------------------------------------------------------------------------
(* The test around it *)

\* Every step of the test is a step of the ticket or leaves it alone.
LEMMA TicketSteps == [TraceNext]_traceVars => [Next]_vars
  <1> SUFFICES ASSUME TraceNext PROVE Next \/ UNCHANGED vars
    BY DEF traceVars, ticket
  <1>1. CASE TicketWait \/ Spurious
    BY <1>1, HandshakeAssumption DEF TicketWait, Spurious, Next
  <1>2. CASE TicketSignal
    BY <1>2, HandshakeAssumption DEF TicketSignal, Next
  <1>3. CASE Create \/ Make \/ Raise \/ Collect \/ CollectEnd \/ Write \/ Join \/ Fini
    BY <1>3 DEF Create, Make, Raise, Collect, CollectEnd, Write, Join, Fini, ticket
  <1>4. CASE Read \/ Process
    BY <1>4 DEF Read, Process, ticket
  <1> QED BY <1>1, <1>2, <1>3, <1>4 DEF TraceNext, MainStep, WorkerStep

\* The test uses the ticket as Ticket specifies it.
THEOREM TicketRefined == TraceSpec => Spec
  <1>1. TraceInit => Init
    BY DEF TraceInit
  <1> QED BY <1>1, TicketSteps, PTL DEF TraceSpec, Spec

\* So in the test, too, ticket_wait does not return early.
THEOREM HandshakeSafe == TraceSpec => [](NoEarlyReturn /\ NoLostWakeup)
  BY TicketRefined, NeverEarly, NeverLost, PTL

-----------------------------------------------------------------------------
TraceType ==
    /\ main \in {"create", "ticket_wait", "make", "signal", "collect", "write", "join", "fini",
                 "exit", "failed", "passed"}
    /\ work \in {"none", "ticket_signal", "read", "process", "done"}
    /\ stack \in Seq(Nat) /\ seen \in Seq(Nat)
    /\ ctx \in [live : BOOLEAN, ip : Seq(Nat), ip_cnt : Nat]
    /\ pipe \in {0, 1}

\* The context holds the first frames of the stack, and all of them by the
\* time the byte is written.
ContextInv ==
    /\ ctx.ip_cnt = Len(ctx.ip)
    /\ Len(ctx.ip) <= Len(stack) /\ \A k \in 1 .. Len(ctx.ip) : ctx.ip[k] = stack[k]
    /\ main \in {"signal", "collect", "write", "join", "fini"} => ctx.live
    /\ main \in {"write", "join"} => Len(ctx.ip) = Len(stack)

\* The worker gets past the pipe only when the main thread is in the join.
PipeInv ==
    /\ pipe = 1 => main \in {"join", "exit"} /\ work \in {"none", "ticket_signal", "read"}
    /\ work = "process" => main = "join"
    /\ work = "done" => main \in {"join", "fini", "failed", "passed"}

\* The callback has been given the first frames, and all of them at the end.
SeenInv ==
    /\ work \in {"none", "ticket_signal", "read"} => seen = <<>>
    /\ Len(seen) <= Len(stack) /\ \A k \in 1 .. Len(seen) : seen[k] = stack[k]
    /\ work = "done" => Len(seen) = Len(stack)

TraceInv == TraceType /\ ContextInv /\ PipeInv /\ SeenInv

\* Before the threads run there is no context and the pipe is empty.
LEMMA InitTrace == TraceInit => TraceInv
  <1> SUFFICES ASSUME TraceInit PROVE TraceInv
    OBVIOUS
  <1>1. stack \in Seq(Nat) /\ Len(stack) \in Nat
    BY StackAssumption, LenProperties DEF TraceInit
  <1>2. NoContext \in [live : BOOLEAN, ip : Seq(Nat), ip_cnt : Nat]
    BY EmptySeq DEF NoContext
  <1>3. TraceType /\ PipeInv
    BY <1>1, <1>2, EmptySeq DEF TraceInit, TraceType, PipeInv
  <1>4. ContextInv /\ SeenInv
    BY <1>1, EmptySeq DEF TraceInit, ContextInv, SeenInv, NoContext
  <1> QED BY <1>3, <1>4 DEF TraceInv

\* The steps that touch neither the context nor what has been seen.
LEMMA QuietStep ==
    ASSUME TraceInv, Create \/ TicketWait \/ Spurious \/ Raise \/ CollectEnd \/ Join \/ TicketSignal
    PROVE  TraceInv'
  <1> USE DEF TraceInv
  <1>1. UNCHANGED <<stack, ctx, pipe, seen>>
    BY DEF Create, TicketWait, Spurious, Raise, CollectEnd, Join, TicketSignal
  <1>2. CASE Create
    BY <1>1, <1>2 DEF Create, MainTo, TraceType, ContextInv, PipeInv, SeenInv
  <1>3. CASE TicketWait \/ Spurious \/ TicketSignal
    BY <1>1, <1>3 DEF TicketWait, Spurious, TicketSignal, TraceType, ContextInv, PipeInv, SeenInv
  <1>4. CASE Raise \/ CollectEnd
    BY <1>1, <1>4 DEF Raise, CollectEnd, MainTo, TraceType, ContextInv, PipeInv, SeenInv
  <1>5. CASE Join
    BY <1>1, <1>5 DEF Join, Joinable, MainTo, TraceType, ContextInv, PipeInv, SeenInv
  <1> QED BY <1>2, <1>3, <1>4, <1>5

\* bw_context_make, bw_context_fini and the pipe.
LEMMA HandStep ==
    ASSUME TraceInv, Make \/ Fini \/ Write \/ Read
    PROVE  TraceInv'
  <1> USE DEF TraceInv
  <1>1. UNCHANGED <<stack, seen>> /\ Len(stack) \in Nat
    BY LenProperties DEF Make, Fini, Write, Read, TraceType
  <1>2. CASE Make
    <2>1. \/ main' = "signal" /\ ctx' = [NoContext EXCEPT !.live = TRUE]
          \/ main' = "failed" /\ ctx' = ctx
      BY <1>2 DEF Make, MainTo
    <2> DEFINE new == [NoContext EXCEPT !.live = TRUE]
    <2>2. NoContext \in [live : BOOLEAN, ip : Seq(Nat), ip_cnt : Nat]
      BY EmptySeq DEF NoContext
    <2>3. /\ new \in [live : BOOLEAN, ip : Seq(Nat), ip_cnt : Nat]
          /\ new.live = TRUE /\ new.ip = NoContext.ip /\ new.ip_cnt = NoContext.ip_cnt
      BY <2>2
    <2> HIDE DEF new
    <2>4. main = "make" /\ work' = work /\ pipe' = pipe
      BY <1>2 DEF Make, MainTo
    <2>5. TraceType' /\ PipeInv' /\ SeenInv'
      BY <1>1, <2>1, <2>2, <2>3, <2>4 DEF TraceType, PipeInv, SeenInv
    <2>6. ContextInv'
      BY <1>1, <2>1, <2>3, EmptySeq DEF ContextInv, NoContext
    <2> QED BY <2>5, <2>6
  <1>3. CASE Fini
    <2>1. main = "fini" /\ main' = "passed" /\ ctx' = NoContext /\ work' = work /\ pipe' = pipe
      BY <1>3 DEF Fini, MainTo
    <2>2. NoContext \in [live : BOOLEAN, ip : Seq(Nat), ip_cnt : Nat]
      BY EmptySeq DEF NoContext
    <2>3. TraceType' /\ PipeInv' /\ SeenInv'
      BY <1>1, <2>1, <2>2 DEF TraceType, PipeInv, SeenInv
    <2>4. ContextInv'
      BY <1>1, <2>1, EmptySeq DEF ContextInv, NoContext
    <2> QED BY <2>3, <2>4
  <1>4. CASE Write
    BY <1>1, <1>4 DEF Write, MainTo, Sent, TraceType, ContextInv, PipeInv, SeenInv
  <1>5. CASE Read
    BY <1>1, <1>5 DEF Read, Readable, Running, TraceType, ContextInv, PipeInv, SeenInv
  <1> QED BY <1>2, <1>3, <1>4, <1>5

\* One turn of bw_backtrace_collect.
LEMMA CollectTurn ==
    ASSUME TraceInv, Collect
    PROVE  TraceInv'
  <1> USE DEF TraceInv
  <1> DEFINE n == Len(ctx.ip) + 1
  <1>1. /\ UNCHANGED <<work, stack, pipe, seen>> /\ main = "collect" /\ n <= Len(stack)
        /\ \/ main' = "exit" /\ ctx' = ctx
           \/ main' = "collect" /\ ctx' = [ctx EXCEPT !.ip = Append(@, stack[n]), !.ip_cnt = n]
    BY DEF Collect, MainTo, Count
  <1>2. ctx.ip \in Seq(Nat) /\ Len(ctx.ip) \in Nat /\ Len(stack) \in Nat
    BY LenProperties DEF TraceType
  <1>3. CASE main' = "exit" /\ ctx' = ctx
    BY <1>1, <1>3 DEF TraceType, ContextInv, PipeInv, SeenInv
  <1>4. CASE main' = "collect" /\ ctx' = [ctx EXCEPT !.ip = Append(@, stack[n]), !.ip_cnt = n]
    <2>1. stack[n] \in Nat
      BY <1>1, <1>2, ElementOfSeq DEF TraceType
    <2>2. /\ Append(ctx.ip, stack[n]) \in Seq(Nat) /\ Len(Append(ctx.ip, stack[n])) = n
          /\ \A k \in 1 .. n : Append(ctx.ip, stack[n])[k] = stack[k]
      BY <1>2, <2>1, AppendProperties DEF ContextInv
    <2>3. ctx'.ip = Append(ctx.ip, stack[n]) /\ ctx'.ip_cnt = n /\ ctx'.live = ctx.live
      BY <1>4 DEF TraceType
    <2>4. TraceType'
      <3>1. ctx' \in [live : BOOLEAN, ip : Seq(Nat), ip_cnt : Nat]
        <4>1. ctx \in [live : BOOLEAN, ip : Seq(Nat), ip_cnt : Nat] /\ n \in Nat
          BY <1>2 DEF TraceType
        <4> HIDE DEF n
        <4> QED BY <1>4, <2>2, <4>1
      <3> QED BY <1>1, <1>4, <3>1 DEF TraceType
    <2>5. ContextInv'
      BY <1>1, <1>2, <1>4, <2>2, <2>3 DEF ContextInv
    <2> QED BY <1>1, <1>4, <2>4, <2>5 DEF PipeInv, SeenInv
  <1> QED BY <1>1, <1>3, <1>4

\* One turn of bw_backtrace_process.
LEMMA ProcessTurn ==
    ASSUME TraceInv, Process
    PROVE  TraceInv'
  <1> USE DEF TraceInv
  <1>1. /\ UNCHANGED <<main, stack, ctx, pipe>> /\ work = "process" /\ main = "join"
        /\ ctx.ip_cnt = Len(stack) /\ \A k \in 1 .. Len(stack) : ctx.ip[k] = stack[k]
    BY DEF Process, PipeInv, ContextInv
  <1>2. seen \in Seq(Nat) /\ stack \in Seq(Nat) /\ Len(seen) \in Nat /\ Len(stack) \in Nat
    BY LenProperties DEF TraceType
  <1>3. CASE Len(seen) < ctx.ip_cnt
    <2>1. ctx.ip[Len(seen) + 1] = stack[Len(seen) + 1] /\ stack[Len(seen) + 1] \in Nat
      BY <1>1, <1>2, <1>3, ElementOfSeq
    <2>2. work' = work /\ seen' = Append(seen, stack[Len(seen) + 1])
      BY <1>3, <2>1 DEF Process
    <2>3. /\ seen' \in Seq(Nat) /\ Len(seen') = Len(seen) + 1
          /\ \A k \in 1 .. Len(seen') : seen'[k] = stack[k]
      BY <1>2, <2>1, <2>2, AppendProperties DEF SeenInv
    <2>4. TraceType' /\ ContextInv' /\ PipeInv'
      BY <1>1, <2>2, <2>3 DEF TraceType, ContextInv, PipeInv
    <2>5. SeenInv'
      BY <1>1, <1>2, <1>3, <2>2, <2>3 DEF SeenInv
    <2> QED BY <2>4, <2>5
  <1>4. CASE ~(Len(seen) < ctx.ip_cnt)
    <2>1. work' = "done" /\ seen' = seen
      BY <1>4 DEF Process
    <2>2. Len(seen) = Len(stack)
      BY <1>1, <1>2, <1>4 DEF SeenInv
    <2> QED BY <1>1, <2>1, <2>2 DEF TraceType, ContextInv, PipeInv, SeenInv
  <1> QED BY <1>3, <1>4

-----------------------------------------------------------------------------
\* The hand-over keeps its invariant for every stack and every depth.
THEOREM TraceInvariance == TraceSpec => []TraceInv
  <1>1. TraceInv /\ [TraceNext]_traceVars => TraceInv'
    <2> SUFFICES ASSUME TraceInv, [TraceNext]_traceVars PROVE TraceInv'
      OBVIOUS
    <2>1. CASE UNCHANGED traceVars
      BY <2>1 DEF traceVars, TraceInv, TraceType, ContextInv, PipeInv, SeenInv
    <2> QED BY <2>1, QuietStep, HandStep, CollectTurn, ProcessTurn DEF TraceNext, MainStep, WorkerStep
  <1> QED BY InitTrace, <1>1, PTL DEF TraceSpec

\* The handler and the worker are never inside the context together.
THEOREM RaceFree == TraceSpec => []NoRace
  <1>1. TraceInv => NoRace
    BY DEF TraceInv, PipeInv, NoRace
  <1> QED BY <1>1, TraceInvariance, PTL

\* Nobody uses the context before it is made or after it is freed.
THEOREM AliveWhenUsed == TraceSpec => []ContextAlive
  <1>1. TraceInv => ContextAlive
    BY DEF TraceInv, PipeInv, ContextInv, ContextAlive
  <1> QED BY <1>1, TraceInvariance, PTL

\* What the worker has processed at its end is the stack the handler found.
THEOREM TraceComplete == TraceSpec => []WholeTrace
  <1>1. TraceInv => WholeTrace
    BY SeqEqual DEF TraceInv, TraceType, SeenInv, WholeTrace
  <1> QED BY <1>1, TraceInvariance, PTL
============================================================================
