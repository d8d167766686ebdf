------------------------------ MODULE Backwalk ------------------------------
(***************************************************************************)
(* The public interface of src/src/backwalk.c on Unix, driven by one       *)
(* thread that makes any sequence of calls: bw_backtrace, mkbw_context,    *)
(* bw_backtrace_collect, bw_backtrace_process and bw_context_fini.  Every  *)
(* walk meets a stack of its own (a member of Memories), because the       *)
(* thread has called and returned in between.  Name resolution in          *)
(* bw_frame_process has no effect on this state and is left to other       *)
(* modules; what matters here is the address it is given and what the      *)
(* callback answers.                                                       *)
(***************************************************************************)
EXTENDS Context, Sequences

CONSTANTS
    Memories,   \* the stacks a walk may meet
    Starts,     \* frame addresses the unwinder may start at
    Residues,   \* what the uninitialised data[1] may hold
    Depths,     \* arguments of mkbw_context
    MaxTrace    \* bound of the history variables out, said and trace

ASSUME StackAssumption == /\ Memories \subseteq [Cell -> Word]
                          /\ Starts \subseteq Word
                          /\ Residues \subseteq Word
ASSUME DepthAssumption == /\ Depths \subseteq Nat
                          /\ MaxTrace \in Nat
                          /\ \A d \in Depths : d < MaxTrace

Junk == -1  \* an element of the malloc'ed array that was never written

VARIABLES
    pc,     \* where the thread is: "idle" or inside a call
    mem,    \* the stack the current walk reads
    ctx,    \* the context_t of the current walk
    bw,     \* the bw_context: [live, ip, ip_cnt, ip_max_cnt]
    heap,   \* blocks obtained from malloc and not freed
    i,      \* local counter: ip_cnt of collect, i of process
    out,    \* history: addresses this call (or the last) gave the callback
    said,   \* history: what the callback answered to each of them
    trace,  \* history: addresses this collect (or the last call) stepped to
    res     \* history: [call, ret], the last call and what it returned

vars == <<pc, mem, ctx, bw, heap, i, out, said, trace, res>>

\* The record a bw_context_t* points to; live is FALSE for NULL.
NoContext == [live |-> FALSE, ip |-> <<>>, ip_cnt |-> 0, ip_max_cnt |-> 0]

NewContext(depth) ==
    [live |-> TRUE, ip |-> [k \in 1 .. depth |-> Junk],
     ip_cnt |-> 0, ip_max_cnt |-> depth]

ResultT == [call : {"none", "backtrace", "make", "fini", "collect", "process"},
            ret : BOOLEAN]

NoStack == [a \in Cell |-> 0]

NoWalk == [fp |-> 0, ip |-> 0]

Record(h, x) == IF Len(h) < MaxTrace THEN Append(h, x) ELSE h

Return(call, ret) ==
    /\ pc' = "idle"
    /\ res' = [call |-> call, ret |-> ret]
    /\ mem' = NoStack
    /\ ctx' = NoWalk
    /\ i' = 0

----------------------------------------------------------------------------
Init ==
    /\ pc = "idle"
    /\ mem = NoStack /\ ctx = NoWalk
    /\ bw = NoContext /\ heap = 0 /\ i = 0
    /\ out = <<>> /\ said = <<>> /\ trace = <<>>
    /\ res = [call |-> "none", ret |-> TRUE]

\* context_init: data[0] is the frame pointer of the library function that
\* calls it; data[1] is left uninitialised.
context_init(m, a) ==
    /\ mem' = m
    /\ \E w \in Residues : ctx' = [fp |-> a, ip |-> w]

----------------------------------------------------------------------------
(* bw_backtrace *)

CallBacktrace(m, a) ==
    /\ pc = "idle"
    /\ pc' = "backtrace"
    /\ context_init(m, a)
    /\ out' = <<>> /\ said' = <<>>
    /\ trace' = <<>>
    /\ UNCHANGED <<bw, heap, i, res>>

\* One turn of the loop; keep is what the callback answers (always TRUE for
\* a NULL callback).
BacktraceFrame(keep) ==
    /\ pc = "backtrace"
    /\ StepOk(mem, ctx)
    /\ LET c == context_step(mem, ctx)
       IN  /\ out' = Record(out, context_get_ip(c))
           /\ said' = Record(said, keep)
           /\ IF keep THEN ctx' = c /\ UNCHANGED <<pc, mem, i, res>>
                      ELSE Return("backtrace", FALSE)
    /\ UNCHANGED <<bw, heap, trace>>

BacktraceEnd ==
    /\ pc = "backtrace"
    /\ ~StepOk(mem, ctx)
    /\ Return("backtrace", TRUE)
    /\ UNCHANGED <<bw, heap, out, said, trace>>

----------------------------------------------------------------------------
(* mkbw_context and bw_context_fini *)

MakeHeader ==
    /\ pc = "idle"
    /\ ~bw.live
    /\ \/ pc' = "make" /\ heap' = heap + 1 /\ UNCHANGED res
       \/ res' = [call |-> "make", ret |-> FALSE] /\ UNCHANGED <<pc, heap>>
    /\ UNCHANGED <<mem, ctx, bw, i, out, said, trace>>

\* malloc(0) too may return NULL or a block of no elements.
MakeArray(depth) ==
    /\ pc = "make"
    /\ bw' = NewContext(depth)
    /\ heap' = heap + 1
    /\ pc' = "idle"
    /\ res' = [call |-> "make", ret |-> TRUE]
    /\ trace' = <<>>
    /\ UNCHANGED <<mem, ctx, i, out, said>>

\* Variant: the header is not freed.
FreedNever == 0

\* Variant: the header is freed twice.
FreedTwice == 2

\* free(ctx)
Freed == 1

MakeArrayFails ==
    /\ pc = "make"
    /\ heap' = heap - Freed
    /\ pc' = "idle"
    /\ res' = [call |-> "make", ret |-> FALSE]
    /\ UNCHANGED <<mem, ctx, bw, i, out, said, trace>>

bw_context_fini ==
    /\ pc = "idle"
    /\ bw.live
    /\ heap' = heap - 2
    /\ bw' = NoContext
    /\ trace' = <<>>
    /\ res' = [call |-> "fini", ret |-> TRUE]
    /\ UNCHANGED <<pc, mem, ctx, i, out, said>>

----------------------------------------------------------------------------
(* bw_backtrace_collect *)

CallCollect(m, a) ==
    /\ pc = "idle"
    /\ bw.live
    /\ pc' = "collect"
    /\ context_init(m, a)
    /\ i' = 0
    /\ out' = <<>> /\ said' = <<>>
    /\ trace' = <<>>
    /\ UNCHANGED <<bw, heap, res>>

\* Variant: the last element is never used.
ArrayFullOffByOne == i + 1 >= bw.ip_max_cnt

\* ip_cnt >= ctx->ip_max_cnt
ArrayFull == i >= bw.ip_max_cnt

\* Variant: the frames that do not fit are walked to the last, to count them.
CollectFullCounting ==
    /\ pc = "collect"
    /\ StepOk(mem, ctx)
    /\ ArrayFull
    /\ LET c == context_step(mem, ctx)
       IN  /\ trace' = IF Len(trace) = i THEN Record(trace, context_get_ip(c)) ELSE trace
           /\ IF StepOk(mem, c)
              THEN ctx' = c /\ UNCHANGED <<pc, mem, i, res>>
              ELSE Return("collect", FALSE)
    /\ UNCHANGED <<bw, heap, out, said>>

\* The context of the walk is already one frame further when the array turns
\* out to be full.
CollectFull ==
    /\ pc = "collect"
    /\ StepOk(mem, ctx)
    /\ ArrayFull
    /\ trace' = Record(trace, context_get_ip(context_step(mem, ctx)))
    /\ Return("collect", FALSE)
    /\ UNCHANGED <<bw, heap, out, said>>

\* Variant: the address is taken before the step.
TakenBeforeStep(c) == context_get_ip(ctx)

\* The address that is stored, c being the context after the step.
Taken(c) == context_get_ip(c)

\* Variant: ip_cnt only ever grows.
StoredCountGrowing == IF bw.ip_cnt > i + 1 THEN bw.ip_cnt ELSE i + 1

\* ctx->ip_cnt, written with every frame.
StoredCount == i + 1

CollectFrame ==
    /\ pc = "collect"
    /\ StepOk(mem, ctx)
    /\ ~ArrayFull
    /\ LET c == context_step(mem, ctx)
       IN  /\ ctx' = c
           /\ bw' = [bw EXCEPT !.ip[i + 1] = Taken(c), !.ip_cnt = StoredCount]
           /\ trace' = Record(trace, context_get_ip(c))
    /\ i' = i + 1
    /\ UNCHANGED <<pc, mem, heap, out, said, res>>

CollectEnd ==
    /\ pc = "collect"
    /\ ~StepOk(mem, ctx)
    /\ Return("collect", TRUE)
    /\ UNCHANGED <<bw, heap, out, said, trace>>

----------------------------------------------------------------------------
(* bw_backtrace_process *)

\* Variant: the loop starts at 1.
FirstIndexOne == 1

FirstIndex == 0

CallProcess ==
    /\ pc = "idle"
    /\ bw.live
    /\ pc' = "process"
    /\ i' = FirstIndex
    /\ out' = <<>> /\ said' = <<>>
    /\ trace' = <<>>
    /\ UNCHANGED <<mem, ctx, bw, heap, res>>

ProcessFrame(keep) ==
    /\ pc = "process"
    /\ i < bw.ip_cnt
    /\ out' = Record(out, bw.ip[i + 1])
    /\ said' = Record(said, keep)
    /\ IF keep THEN i' = i + 1 /\ UNCHANGED <<pc, mem, ctx, res>>
               ELSE Return("process", FALSE)
    /\ UNCHANGED <<bw, heap, trace>>

ProcessEnd ==
    /\ pc = "process"
    /\ i >= bw.ip_cnt
    /\ Return("process", TRUE)
    /\ UNCHANGED <<bw, heap, out, said, trace>>

----------------------------------------------------------------------------
Call ==
    \/ \E m \in Memories, a \in Starts : CallBacktrace(m, a) \/ CallCollect(m, a)
    \/ CallProcess
    \/ MakeHeader
    \/ bw_context_fini

\* A step inside a call: the library's, with a callback that goes on ...
Proceed ==
    \/ BacktraceFrame(TRUE) \/ BacktraceEnd
    \/ \E depth \in Depths : MakeArray(depth)
    \/ MakeArrayFails
    \/ CollectFull \/ CollectFrame \/ CollectEnd
    \/ ProcessFrame(TRUE) \/ ProcessEnd

\* ... or one that stops the call.
Refuse == BacktraceFrame(FALSE) \/ ProcessFrame(FALSE)

Next == Call \/ Proceed \/ Refuse

Spec == Init /\ [][Next]_vars

\* The thread keeps executing inside a call: nothing in the walk blocks.  No
\* callback is obliged to refuse.
FairSpec == Spec /\ WF_vars(Proceed)

----------------------------------------------------------------------------
First(s, n) == [k \in 1 .. n |-> s[k]]

\* The stored addresses of a bw_context: the first ip_cnt elements.
Stored == First(bw.ip, bw.ip_cnt)

TypeOK ==
    /\ pc \in {"idle", "backtrace", "make", "collect", "process"}
    /\ mem \in [Cell -> Word]
    /\ ctx \in ContextT
    /\ bw \in [live : BOOLEAN, ip : Seq(Word \cup {Junk}),
               ip_cnt : Nat, ip_max_cnt : Nat]
    /\ Len(bw.ip) = bw.ip_max_cnt
    /\ heap \in Nat
    /\ i \in Nat
    /\ out \in Seq(Word)
    /\ said \in Seq(BOOLEAN)
    /\ trace \in Seq(Word)
    /\ res \in ResultT

\* bw_frame_process: every address that reaches the callback, straight from a
\* walk or through a bw_context of an earlier collect, is a user address; so
\* the probe ip - 1 never wraps and no uninitialised word is reported.
FramesValid == \A k \in 1 .. Len(out) : out[k] \in UserAddr

\* bw_backtrace_collect: after any sequence of collects into one context,
\* each of them complete, cut short or empty, every element below ip_cnt
\* has been written with a user address and ip_cnt is within the array.
StoredInitialised ==
    /\ bw.ip_cnt <= bw.ip_max_cnt
    /\ \A k \in 1 .. bw.ip_cnt : bw.ip[k] \in UserAddr

\* bw_backtrace_collect: a return of false means that the array is full of
\* the innermost frames and that at least one more was dropped; a return of
\* true after a walk of at least one frame means that all of them are there.
CollectVerdict ==
    (pc = "idle" /\ res.call = "collect") =>
        IF res.ret
        THEN trace # <<>> => Stored = trace
        ELSE /\ Stored = First(trace, bw.ip_max_cnt)
             /\ Len(trace) = bw.ip_max_cnt + 1

\* bw_backtrace_collect: the record changes only by becoming exactly the
\* frames that the walk in progress has stepped to so far, or empty with its
\* context.  So at no moment does it hold frames of two walks, and a walk that
\* finds none leaves an earlier record whole.
RecordUnmixed == [][Stored' # Stored => Stored' \in {trace', <<>>}]_vars

\* bw_backtrace_process: the callback is given the stored addresses in order,
\* from the first, and nothing after one that it refuses.  The call answers
\* true exactly when the callback refused none, and it has then been given
\* all of them; otherwise the last one given is the one refused.
ProcessReplays ==
    (pc = "idle" /\ res.call = "process") =>
        /\ Len(out) <= bw.ip_cnt
        /\ out = First(bw.ip, Len(out))
        /\ Len(said) = Len(out)
        /\ \A k \in 1 .. (Len(said) - 1) : said[k]
        /\ IF res.ret
           THEN out = Stored /\ \A k \in 1 .. Len(said) : said[k]
           ELSE Len(said) > 0 /\ ~said[Len(said)]

\* mkbw_context: no path, the failure of the second malloc included, leaves
\* a block behind that no context owns.
HeapBalanced ==
    pc = "idle" => heap = IF bw.live THEN 2 ELSE 0

\* bw_backtrace_collect returns on every stack, frame-pointer cycles
\* included: each turn of its loop uses up an element of the array.
CollectReturns == pc = "collect" ~> pc = "idle"

\* bw_backtrace returns on every stack whose frame-pointer chain has no cycle
\* longer than a frame that points to itself.
BacktraceReturns == pc = "backtrace" ~> pc = "idle"
=============================================================================
