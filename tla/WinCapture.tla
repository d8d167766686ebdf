----------------------------- MODULE WinCapture -----------------------------
(***************************************************************************)
(* The stack-walking calls on Windows: bw_win_capture of src/src/win.c and *)
(* the _WIN32 branches of src/src/backwalk.c around it.  The stack is a    *)
(* sequence of frames, innermost first, below the two skipped ones.        *)
(* CaptureStackBackTrace is external: it writes the first frames, at most  *)
(* as many as it is asked for, and returns their number.                   *)
(***************************************************************************)
EXTENDS Integers, Sequences

CONSTANTS
    UShortRange,    \* USHORT values are 0 .. UShortRange - 1
    MaxFrames,      \* BW_WIN_MAX_FRAMES
    Addrs,          \* return addresses
    Stacks,         \* the stacks a call may find
    Depths          \* arguments of mkbw_context

ASSUME WidthAssumption == /\ UShortRange \in Nat /\ MaxFrames \in Nat \ {0}
                          /\ MaxFrames < UShortRange
ASSUME CallAssumption == /\ Depths \subseteq Nat
                         /\ Stacks \subseteq Seq(Addrs)

VARIABLES
    pc,     \* "idle", or the call whose callbacks are running
    bw,     \* the bw_context: [live, ip_cnt, ip_max_cnt]
    ips,    \* the written elements of its array, always a prefix of it
    todo,   \* addresses the running call has yet to give to the callback
    out,    \* history: those it has given
    said,   \* history: what the callback answered to each of them
    found,  \* history: the stack the last walk found
    res     \* history: [call, ret]

captureVars == <<pc, bw, ips, todo, out, said, found, res>>

NoContext == [live |-> FALSE, ip_cnt |-> 0, ip_max_cnt |-> 0]

Least(a, b) == IF a <= b THEN a ELSE b

\* Variant: no cap.
CaptureCountUncapped(max) == max % UShortRange

\* (USHORT)max, then the cap.
CaptureCount(max) == Least(max % UShortRange, MaxFrames)

\* The frames that bw_win_capture copies to ips.
bw_win_capture(stack, max) ==
    SubSeq(stack, 1, Least(Len(stack), CaptureCount(max)))

\* The array after its first elements have been overwritten by new ones.
Overwrite(old, new) ==
    [k \in 1 .. (IF Len(new) >= Len(old) THEN Len(new) ELSE Len(old)) |->
        IF k <= Len(new) THEN new[k] ELSE old[k]]

----------------------------------------------------------------------------
CaptureInit ==
    /\ pc = "idle"
    /\ bw = NoContext
    /\ ips = <<>> /\ todo = <<>> /\ out = <<>> /\ said = <<>> /\ found = <<>>
    /\ res = [call |-> "none", ret |-> TRUE]

\* A call that runs no callback, on a stack it may not even look at.
Atomic(call, ret, stack) ==
    /\ pc = "idle"
    /\ res' = [call |-> call, ret |-> ret]
    /\ out' = <<>> /\ said' = <<>> /\ found' = stack
    /\ UNCHANGED <<pc, todo>>

mkbw_context(depth) ==
    /\ ~bw.live
    /\ bw' = [live |-> TRUE, ip_cnt |-> 0, ip_max_cnt |-> depth]
    /\ ips' = <<>>
    /\ Atomic("make", TRUE, <<>>)

mkbw_context_fails ==
    /\ ~bw.live
    /\ Atomic("make", FALSE, <<>>)
    /\ UNCHANGED <<bw, ips>>

bw_context_fini ==
    /\ bw.live
    /\ bw' = NoContext
    /\ ips' = <<>>
    /\ Atomic("fini", TRUE, <<>>)

\* A NULL context or one of no elements is refused before the walk.
CollectRefused ==
    /\ ~bw.live \/ bw.ip_max_cnt = 0
    /\ Atomic("refused", FALSE, <<>>)
    /\ UNCHANGED <<bw, ips>>

\* Variant: a walk of no frames leaves ip_cnt as it was.
StoredCountKeep(new) == IF new = <<>> THEN bw.ip_cnt ELSE Len(new)

\* ctx->ip_cnt
StoredCount(new) == Len(new)

bw_backtrace_collect(stack) ==
    LET new == bw_win_capture(stack, bw.ip_max_cnt)
    IN  /\ bw.live /\ bw.ip_max_cnt # 0
        /\ ips' = Overwrite(ips, new)
        /\ bw' = [bw EXCEPT !.ip_cnt = StoredCount(new)]
        /\ Atomic("collect", Len(new) < bw.ip_max_cnt, stack)

\* The calls that run callbacks: on the frames give.
Begin(call, give, stack) ==
    /\ pc = "idle"
    /\ pc' = call
    /\ todo' = give
    /\ out' = <<>> /\ said' = <<>> /\ found' = stack
    /\ UNCHANGED <<bw, ips, res>>

CallProcess == bw.live /\ Begin("process", SubSeq(ips, 1, bw.ip_cnt), <<>>)

\* bw_backtrace has an array of its own, of BW_WIN_MAX_FRAMES elements.
CallBacktrace(stack) == Begin("backtrace", bw_win_capture(stack, MaxFrames), stack)

\* Variant: the callback's false is not passed on.
AnswerTrue(keep) == TRUE

\* What bw_frame_process returns to the loop.
Answer(keep) == keep

\* A turn of the loop that bw_backtrace and bw_backtrace_process share.
Frame(keep) ==
    /\ todo # <<>>
    /\ out' = Append(out, Head(todo))
    /\ said' = Append(said, keep)
    /\ IF keep THEN todo' = Tail(todo) /\ UNCHANGED <<pc, res>>
               ELSE /\ todo' = <<>> /\ pc' = "idle"
                    /\ res' = [call |-> pc, ret |-> Answer(keep)]
    /\ UNCHANGED <<bw, ips, found>>

ReportEnd ==
    /\ pc # "idle"
    /\ todo = <<>>
    /\ pc' = "idle"
    /\ res' = [call |-> pc, ret |-> TRUE]
    /\ UNCHANGED <<bw, ips, todo, out, said, found>>

CaptureNext ==
    \/ \E depth \in Depths : mkbw_context(depth)
    \/ mkbw_context_fails
    \/ bw_context_fini
    \/ CollectRefused
    \/ \E stack \in Stacks : bw_backtrace_collect(stack) \/ CallBacktrace(stack)
    \/ CallProcess
    \/ \E keep \in BOOLEAN : Frame(keep)
    \/ ReportEnd

CaptureSpec == CaptureInit /\ [][CaptureNext]_captureVars

----------------------------------------------------------------------------
\* The elements below ip_cnt.
Stored == SubSeq(ips, 1, bw.ip_cnt)

\* bw_win_capture: no walk writes beyond the array or beyond frames[], and
\* process never reads an element that no walk has written.
CaptureInBounds ==
    /\ Len(ips) <= bw.ip_max_cnt
    /\ Len(ips) <= MaxFrames
    /\ bw.ip_cnt <= Len(ips)

\* bw_backtrace_collect: the context then holds the innermost frames of the
\* stack it found, as many as fit the array or the cap, and of no earlier
\* stack; false is answered only with a full array.  Depths that USHORT can
\* represent.
CollectFresh ==
    (res.call = "collect" /\ bw.ip_max_cnt < UShortRange /\ pc = "idle") =>
        /\ Stored = SubSeq(found, 1, Least(Len(found), Least(bw.ip_max_cnt, MaxFrames)))
        /\ ~res.ret => bw.ip_cnt = bw.ip_max_cnt

\* Nothing is given to the callback after it has refused, and the call answers
\* true exactly when it has refused nothing.
AnswerIsTheCallbacks ==
    /\ Len(said) = Len(out)
    /\ \A k \in 1 .. (Len(said) - 1) : said[k]
    /\ res.ret <=> \A k \in 1 .. Len(said) : said[k]

\* bw_backtrace and bw_backtrace_process: the callback is given the first
\* frames in order, up to the first that it refuses; the answer is true exactly
\* when it refuses none, and it has then been given all of them.
ReportFaithful ==
    pc = "idle" =>
        /\ res.call = "backtrace" =>
              /\ AnswerIsTheCallbacks
              /\ out = SubSeq(found, 1, Len(out))
              /\ res.ret => Len(out) = Least(Len(found), MaxFrames)
        /\ res.call = "process" =>
              /\ AnswerIsTheCallbacks
              /\ out = SubSeq(Stored, 1, Len(out))
              /\ res.ret => out = Stored
=============================================================================
