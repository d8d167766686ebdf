------------------------------ MODULE WinProofs ------------------------------
(***************************************************************************)
(* Proofs about the Windows half: WinCapture for any width of USHORT, any  *)
(* cap, any stacks and any sequence of calls, and WinResolve for any       *)
(* number of threads, bases and images.  Of the latter, what the critical  *)
(* section protects (SafeInv) holds in every process; what the names are   *)
(* worth (NamesInv) in those that do not unload images.                    *)
(***************************************************************************)
EXTENDS WinCapture, WinResolve, SequenceTheorems, TLAPS

(***************************************************************************)
(* Walking the stack                                                       *)
(***************************************************************************)

CaptureTypeInv ==
    /\ pc \in {"idle", "process", "backtrace"}
    /\ bw \in [live : BOOLEAN, ip_cnt : Nat, ip_max_cnt : Nat]
    /\ ips \in Seq(Addrs) /\ todo \in Seq(Addrs) /\ out \in Seq(Addrs) /\ found \in Seq(Addrs)
    /\ said \in Seq(BOOLEAN)
    /\ res \in [call : {"none", "make", "fini", "refused", "collect", "process", "backtrace"},
                ret : BOOLEAN]

\* The frames that a running call is to report.
Reported == IF pc = "process" THEN Stored ELSE SubSeq(found, 1, Least(Len(found), MaxFrames))

\* The running call has given the callback the first of them, none of which it
\* has refused, and the others are still to do.
LoopInv ==
    /\ pc = "idle" => todo = <<>>
    /\ pc # "idle" => /\ Len(out) + Len(todo) = Len(Reported)
                      /\ \A k \in 1 .. Len(out) : out[k] = Reported[k]
                      /\ \A k \in 1 .. Len(todo) : todo[k] = Reported[Len(out) + k]
                      /\ Len(said) = Len(out) /\ \A k \in 1 .. Len(said) : said[k]

CaptureInv == CaptureTypeInv /\ CaptureInBounds /\ LoopInv /\ CollectFresh /\ ReportFaithful

-----------------------------------------------------------------------------
\* The number of frames a walk asks for fits the array and frames[], and for
\* depths that USHORT can represent it is the smaller of the two.
LEMMA CaptureCountBounds ==
    ASSUME NEW max \in Nat
    PROVE  /\ CaptureCount(max) \in Nat
           /\ CaptureCount(max) <= max /\ CaptureCount(max) <= MaxFrames
           /\ max < UShortRange => CaptureCount(max) = Least(max, MaxFrames)
  <1>1. UShortRange \in Nat \ {0}
    BY WidthAssumption
  <1>2. max % UShortRange \in 0 .. (UShortRange - 1) /\ max \div UShortRange \in Nat
        /\ max = UShortRange * (max \div UShortRange) + (max % UShortRange)
    BY <1>1, Z3
  <1>3. max % UShortRange \in Nat /\ max % UShortRange <= max
        /\ (max < UShortRange => max % UShortRange = max)
    BY <1>1, <1>2, Z3
  <1> QED BY <1>3, WidthAssumption DEF CaptureCount, Least

\* A walk copies the innermost frames, in order.
LEMMA CaptureFrames ==
    ASSUME NEW stack \in Seq(Addrs), NEW max \in Nat
    PROVE  /\ bw_win_capture(stack, max) \in Seq(Addrs)
           /\ Len(bw_win_capture(stack, max)) = Least(Len(stack), CaptureCount(max))
           /\ Len(bw_win_capture(stack, max)) <= max
           /\ Len(bw_win_capture(stack, max)) <= MaxFrames
           /\ \A k \in 1 .. Len(bw_win_capture(stack, max)) :
                 bw_win_capture(stack, max)[k] = stack[k]
  <1> DEFINE n == Least(Len(stack), CaptureCount(max))
  <1>1. n \in Nat /\ n <= Len(stack) /\ n <= max /\ n <= MaxFrames
    BY CaptureCountBounds, LenProperties, WidthAssumption DEF Least
  <1>2. \A k \in 1 .. n : stack[k] \in Addrs
    BY <1>1, ElementOfSeq
  <1> HIDE DEF n
  <1>3. /\ SubSeq(stack, 1, n) \in Seq(Addrs) /\ Len(SubSeq(stack, 1, n)) = n
        /\ \A k \in 1 .. n : SubSeq(stack, 1, n)[k] = stack[k]
    BY <1>1, <1>2, SubSeqProperties
  <1> QED BY <1>1, <1>3 DEF bw_win_capture, n

\* Overwriting keeps the array a sequence, no longer than the longer one, with
\* the new elements in front.
LEMMA OverwriteFront ==
    ASSUME NEW old \in Seq(Addrs), NEW new \in Seq(Addrs)
    PROVE  /\ Overwrite(old, new) \in Seq(Addrs)
           /\ Len(new) <= Len(Overwrite(old, new))
           /\ Len(Overwrite(old, new)) \in {Len(old), Len(new)}
           /\ SubSeq(Overwrite(old, new), 1, Len(new)) = new
  <1> DEFINE n == IF Len(new) >= Len(old) THEN Len(new) ELSE Len(old)
             w == Overwrite(old, new)
  <1>1. n \in Nat /\ Len(new) \in Nat /\ Len(old) \in Nat /\ Len(new) <= n
    BY LenProperties
  <1>2. w \in [1 .. n -> Addrs]
    BY <1>1, ElementOfSeq DEF Overwrite
  <1>3. w \in Seq(Addrs) /\ Len(w) = n
    BY <1>1, <1>2, SeqDef, LenProperties
  <1>4. \A k \in 1 .. Len(new) : w[k] = new[k] /\ w[k] \in Addrs
    BY <1>1, <1>2, ElementOfSeq DEF Overwrite
  <1> HIDE DEF w
  <1>5. SubSeq(w, 1, Len(new)) = new
    <2>1. /\ SubSeq(w, 1, Len(new)) \in Seq(Addrs)
          /\ Len(SubSeq(w, 1, Len(new))) = Len(new)
          /\ \A k \in 1 .. Len(new) : SubSeq(w, 1, Len(new))[k] = new[k]
      BY <1>1, <1>4, SubSeqProperties
    <2> QED BY <2>1, SeqEqual
  <1> QED BY <1>1, <1>3, <1>5 DEF w

\* The stored elements and the frames to report are sequences of addresses.
LEMMA StoredFrames ==
    ASSUME CaptureTypeInv, CaptureInBounds
    PROVE  /\ Stored \in Seq(Addrs) /\ Len(Stored) = bw.ip_cnt
           /\ Reported \in Seq(Addrs)
           /\ pc # "process" => Len(Reported) = Least(Len(found), MaxFrames)
           /\ pc # "process" => \A k \in 1 .. Len(Reported) : Reported[k] = found[k]
  <1> DEFINE m == Least(Len(found), MaxFrames)
             r == SubSeq(found, 1, m)
  <1>1. /\ Len(ips) \in Nat /\ Len(found) \in Nat /\ bw.ip_cnt \in Nat /\ bw.ip_cnt <= Len(ips)
        /\ m \in Nat /\ m <= Len(found)
    BY LenProperties, WidthAssumption DEF CaptureTypeInv, CaptureInBounds, Least
  <1>2. (\A k \in 1 .. bw.ip_cnt : ips[k] \in Addrs) /\ (\A k \in 1 .. m : found[k] \in Addrs)
    BY <1>1, ElementOfSeq DEF CaptureTypeInv
  <1> HIDE DEF m
  <1>3. Stored \in Seq(Addrs) /\ Len(Stored) = bw.ip_cnt
    BY <1>1, <1>2, SubSeqProperties DEF Stored
  <1>4. r \in Seq(Addrs) /\ Len(r) = m /\ \A k \in 1 .. m : r[k] = found[k]
    BY <1>1, <1>2, SubSeqProperties
  <1> QED BY <1>3, <1>4 DEF Reported, m

\* Before the first call there is no context.
LEMMA CaptureInitInv == CaptureInit => CaptureInv
  <1> SUFFICES ASSUME CaptureInit PROVE CaptureInv
    OBVIOUS
  <1>1. CaptureTypeInv
    BY EmptySeq DEF CaptureInit, CaptureTypeInv, NoContext
  <1>2. CaptureInBounds /\ LoopInv
    BY EmptySeq, WidthAssumption DEF CaptureInit, CaptureInBounds, LoopInv, NoContext
  <1>3. CollectFresh /\ ReportFaithful
    BY DEF CaptureInit, CollectFresh, ReportFaithful
  <1> QED BY <1>1, <1>2, <1>3 DEF CaptureInv

\* The calls that only make, free or refuse.
LEMMA ContextStep ==
    ASSUME CaptureInv,
           \/ \E depth \in Depths : mkbw_context(depth)
           \/ mkbw_context_fails \/ bw_context_fini \/ CollectRefused
    PROVE  CaptureInv'
  <1> USE DEF CaptureInv
  <1>1. /\ pc = "idle" /\ pc' = "idle" /\ todo' = todo /\ out' = <<>> /\ said' = <<>> /\ found' = <<>>
        /\ \E c \in {"make", "fini", "refused"}, r \in BOOLEAN : res' = [call |-> c, ret |-> r]
    BY DEF mkbw_context, mkbw_context_fails, bw_context_fini, CollectRefused, Atomic
  <1>2. \/ UNCHANGED <<bw, ips>>
        \/ /\ ips' = <<>>
           /\ \E depth \in Depths : bw' = [live |-> TRUE, ip_cnt |-> 0, ip_max_cnt |-> depth]
        \/ ips' = <<>> /\ bw' = NoContext
    BY DEF mkbw_context, mkbw_context_fails, bw_context_fini, CollectRefused
  <1>3. CaptureTypeInv'
    <2>1. bw' \in [live : BOOLEAN, ip_cnt : Nat, ip_max_cnt : Nat] /\ ips' \in Seq(Addrs)
      <3>1. ASSUME NEW d \in Nat, NEW l \in BOOLEAN
            PROVE  [live |-> l, ip_cnt |-> 0, ip_max_cnt |-> d]
                      \in [live : BOOLEAN, ip_cnt : Nat, ip_max_cnt : Nat]
        OBVIOUS
      <3>2. NoContext \in [live : BOOLEAN, ip_cnt : Nat, ip_max_cnt : Nat]
        BY <3>1 DEF NoContext
      <3>3. \A d \in Depths : d \in Nat
        BY CallAssumption
      <3>4. CASE UNCHANGED <<bw, ips>>
        BY <3>4 DEF CaptureTypeInv
      <3>5. CASE ips' = <<>> /\ bw' = NoContext
        BY <3>2, <3>5, EmptySeq
      <3>6. ASSUME NEW d \in Depths, ips' = <<>>,
                   bw' = [live |-> TRUE, ip_cnt |-> 0, ip_max_cnt |-> d]
            PROVE  bw' \in [live : BOOLEAN, ip_cnt : Nat, ip_max_cnt : Nat] /\ ips' \in Seq(Addrs)
        BY <3>1, <3>3, <3>6, EmptySeq
      <3> QED BY <1>2, <3>4, <3>5, <3>6
    <2>2. res' \in [call : {"none", "make", "fini", "refused", "collect", "process", "backtrace"},
                    ret : BOOLEAN]
      BY <1>1
    <2> QED BY <1>1, <2>1, <2>2, EmptySeq DEF CaptureTypeInv
  <1>4. CaptureInBounds'
    BY <1>2, EmptySeq, CallAssumption, WidthAssumption DEF CaptureInBounds, NoContext
  <1>5. LoopInv' /\ CollectFresh' /\ ReportFaithful'
    BY <1>1 DEF LoopInv, CollectFresh, ReportFaithful
  <1> QED BY <1>3, <1>4, <1>5

\* bw_backtrace_collect
LEMMA CollectStep ==
    ASSUME CaptureInv, NEW stack \in Stacks, bw_backtrace_collect(stack)
    PROVE  CaptureInv'
  <1> USE DEF CaptureInv
  <1> DEFINE new == bw_win_capture(stack, bw.ip_max_cnt)
             max == bw.ip_max_cnt
  <1>1. stack \in Seq(Addrs) /\ max \in Nat /\ ips \in Seq(Addrs)
    BY CallAssumption DEF CaptureTypeInv
  <1>2. /\ new \in Seq(Addrs) /\ Len(new) \in Nat
        /\ Len(new) = Least(Len(stack), CaptureCount(max))
        /\ Len(new) <= max /\ Len(new) <= MaxFrames
    BY <1>1, CaptureFrames, LenProperties
  <1> HIDE DEF new
  <1>3. /\ ips' = Overwrite(ips, new)
        /\ bw' = [bw EXCEPT !.ip_cnt = Len(new)]
        /\ pc = "idle" /\ pc' = "idle" /\ todo' = todo /\ out' = <<>> /\ said' = <<>> /\ found' = stack
        /\ res' = [call |-> "collect", ret |-> Len(new) < max]
    BY DEF bw_backtrace_collect, Atomic, StoredCount, new
  <1>4. bw'.ip_cnt = Len(new) /\ bw'.ip_max_cnt = max
    BY <1>3 DEF CaptureTypeInv
  <1>5. CaptureTypeInv'
    <2>1. (Len(new) < max) \in BOOLEAN
      BY <1>1, <1>2
    <2>2. res' \in [call : {"none", "make", "fini", "refused", "collect", "process", "backtrace"},
                    ret : BOOLEAN]
      BY <1>3, <2>1
    <2>3. bw' \in [live : BOOLEAN, ip_cnt : Nat, ip_max_cnt : Nat]
      BY <1>2, <1>3 DEF CaptureTypeInv
    <2>4. ips' \in Seq(Addrs)
      BY <1>1, <1>2, <1>3, OverwriteFront
    <2> QED BY <1>1, <1>3, <2>2, <2>3, <2>4, EmptySeq DEF CaptureTypeInv
  <1>6. CaptureInBounds'
    BY <1>1, <1>2, <1>3, <1>4, OverwriteFront DEF CaptureInBounds
  <1>7. CollectFresh'
    <2>1. Stored' = new
      BY <1>1, <1>2, <1>3, <1>4, OverwriteFront DEF Stored
    <2>2. max < UShortRange => new = SubSeq(stack, 1, Least(Len(stack), Least(max, MaxFrames)))
      BY <1>1, CaptureCountBounds DEF new, bw_win_capture
    <2>3. ~(Len(new) < max) => Len(new) = max
      BY <1>1, <1>2
    <2> QED BY <1>3, <1>4, <2>1, <2>2, <2>3 DEF CollectFresh
  <1>8. LoopInv' /\ ReportFaithful'
    BY <1>3 DEF LoopInv, ReportFaithful
  <1> QED BY <1>5, <1>6, <1>7, <1>8

\* The calls of bw_backtrace and bw_backtrace_process begin.
LEMMA BeginStep ==
    ASSUME CaptureInv, CallProcess \/ \E stack \in Stacks : CallBacktrace(stack)
    PROVE  CaptureInv'
  <1> USE DEF CaptureInv
  <1>1. UNCHANGED <<bw, ips, res>> /\ out' = <<>> /\ said' = <<>> /\ pc' \in {"process", "backtrace"}
    BY DEF CallBacktrace, CallProcess, Begin
  <1>2. CASE CallProcess
    <2>1. pc' = "process" /\ todo' = Stored /\ found' = <<>> /\ Stored' = Stored
      BY <1>2 DEF CallProcess, Begin, Stored
    <2>2. CaptureTypeInv'
      BY <1>1, <2>1, StoredFrames, EmptySeq DEF CaptureTypeInv
    <2>3. Reported' = Stored
      BY <2>1 DEF Reported
    <2>4. LoopInv'
      BY <1>1, <2>1, <2>3, StoredFrames, LenProperties, EmptySeq DEF LoopInv
    <2> QED BY <1>1, <2>2, <2>4 DEF CaptureInBounds, CollectFresh, ReportFaithful
  <1>3. ASSUME NEW stack \in Stacks, CallBacktrace(stack) PROVE CaptureInv'
    <2>1. pc' = "backtrace" /\ todo' = bw_win_capture(stack, MaxFrames) /\ found' = stack
      BY <1>3 DEF CallBacktrace, Begin
    <2>2. stack \in Seq(Addrs)
      BY CallAssumption
    <2>3. CaptureCount(MaxFrames) = MaxFrames
      BY CaptureCountBounds, WidthAssumption DEF Least
    <2>4. Reported' = bw_win_capture(stack, MaxFrames)
      BY <2>1, <2>3 DEF Reported, bw_win_capture
    <2>5. bw_win_capture(stack, MaxFrames) \in Seq(Addrs)
      BY <2>2, CaptureFrames, WidthAssumption
    <2>6. CaptureTypeInv'
      BY <1>1, <2>1, <2>2, <2>5, EmptySeq DEF CaptureTypeInv
    <2>7. LoopInv'
      BY <1>1, <2>1, <2>4, <2>5, LenProperties, EmptySeq DEF LoopInv
    <2> QED BY <1>1, <2>6, <2>7 DEF CaptureInBounds, CollectFresh, ReportFaithful
  <1> QED BY <1>2, <1>3

\* What the finished report of the whole or of a first part is worth.
LEMMA ReportDone ==
    ASSUME CaptureTypeInv, CaptureInBounds, CaptureTypeInv', pc # "idle", UNCHANGED <<bw, ips, found>>, pc' = "idle",
           res'.call = pc, Len(out') <= Len(Reported),
           \A k \in 1 .. Len(out') : out'[k] = Reported[k],
           res'.ret => Len(out') = Len(Reported), AnswerIsTheCallbacks'
    PROVE  CollectFresh' /\ ReportFaithful'
  <1>1. Stored' = Stored /\ Stored \in Seq(Addrs) /\ Reported \in Seq(Addrs) /\ out' \in Seq(Addrs)
    BY StoredFrames DEF Stored, CaptureTypeInv
  <1>2. Len(out') \in Nat /\ Len(Reported) \in Nat /\ Len(found) \in Nat
    BY <1>1, LenProperties DEF CaptureTypeInv
  <1>3. CASE pc = "process"
    <2>1. Reported = Stored
      BY <1>3 DEF Reported
    <2>2. \A k \in 1 .. Len(out') : Stored[k] \in Addrs
      BY <1>1, <1>2, <2>1, ElementOfSeq
    <2>3. out' = SubSeq(Stored, 1, Len(out'))
      BY <1>1, <1>2, <2>1, <2>2, SubSeqProperties, SeqEqual
    <2>4. res'.ret => out' = Stored
      BY <1>1, <2>1, SeqEqual
    <2> QED BY <1>1, <1>3, <2>3, <2>4 DEF CollectFresh, ReportFaithful
  <1>4. CASE pc = "backtrace"
    <2>1. Len(Reported) = Least(Len(found), MaxFrames) /\ Len(Reported) <= Len(found)
          /\ \A k \in 1 .. Len(Reported) : Reported[k] = found[k]
      BY <1>2, <1>4, StoredFrames, WidthAssumption DEF Least
    <2>2. \A k \in 1 .. Len(out') : found[k] \in Addrs /\ out'[k] = found[k]
      BY <1>2, <2>1, ElementOfSeq DEF CaptureTypeInv
    <2>3. out' = SubSeq(found, 1, Len(out'))
      BY <1>1, <1>2, <2>2, SubSeqProperties, SeqEqual
    <2> QED BY <1>4, <2>1, <2>3 DEF CollectFresh, ReportFaithful
  <1> QED BY <1>3, <1>4 DEF CaptureTypeInv

\* One turn of the loop, and its end.
LEMMA ReportStep ==
    ASSUME CaptureInv, (\E keep \in BOOLEAN : Frame(keep)) \/ ReportEnd
    PROVE  CaptureInv'
  <1> USE DEF CaptureInv
  <1>1. /\ UNCHANGED <<bw, ips, found>> /\ CaptureInBounds' /\ pc # "idle"
        /\ Len(out) \in Nat /\ Len(todo) \in Nat /\ Len(Reported) \in Nat
    BY StoredFrames, LenProperties DEF Frame, ReportEnd, CaptureInBounds, LoopInv, CaptureTypeInv
  <1>2. CASE ReportEnd
    <2>1. /\ todo = <<>> /\ UNCHANGED <<todo, out, said>> /\ pc' = "idle"
          /\ res' = [call |-> pc, ret |-> TRUE]
      BY <1>2 DEF ReportEnd
    <2>2. CaptureTypeInv' /\ LoopInv'
      BY <1>1, <2>1 DEF CaptureTypeInv, LoopInv
    <2>3. Len(out') = Len(Reported) /\ \A k \in 1 .. Len(out') : out'[k] = Reported[k]
      BY <1>1, <2>1, EmptySeq DEF LoopInv
    <2>5. AnswerIsTheCallbacks'
      <3>1. Len(said) = Len(out) /\ \A k \in 1 .. Len(said) : said[k]
        BY <1>1 DEF LoopInv
      <3> QED BY <1>1, <2>1, <3>1 DEF AnswerIsTheCallbacks
    <2>4. CollectFresh' /\ ReportFaithful'
      BY <1>1, <2>1, <2>2, <2>3, <2>5, ReportDone
    <2> QED BY <1>1, <2>2, <2>4
  <1>3. ASSUME NEW keep \in BOOLEAN, Frame(keep) PROVE CaptureInv'
    <2> DEFINE x == Head(todo)
    <2>1. /\ todo # <<>> /\ out' = Append(out, x) /\ x \in Addrs /\ x = todo[1]
          /\ Tail(todo) \in Seq(Addrs) /\ Len(Tail(todo)) = Len(todo) - 1
          /\ \A k \in 1 .. Len(Tail(todo)) : Tail(todo)[k] = todo[k + 1]
      BY <1>3, HeadTailProperties DEF Frame, CaptureTypeInv
    <2> HIDE DEF x
    <2>2. /\ out' \in Seq(Addrs) /\ Len(out') = Len(out) + 1
          /\ \A k \in 1 .. Len(out) : out'[k] = out[k]
          /\ out'[Len(out) + 1] = x
      BY <2>1, AppendProperties DEF CaptureTypeInv
    <2>3. Len(todo) >= 1 /\ x = Reported[Len(out) + 1]
      BY <1>1, <2>1, EmptySeq DEF LoopInv, CaptureTypeInv
    <2>4. Len(out') <= Len(Reported) /\ \A k \in 1 .. Len(out') : out'[k] = Reported[k]
      BY <1>1, <2>2, <2>3 DEF LoopInv
    <2>7. /\ said' \in Seq(BOOLEAN) /\ Len(said') = Len(out') /\ said'[Len(out) + 1] = keep
          /\ \A k \in 1 .. Len(out) : said'[k]
      <3>1. said' = Append(said, keep) /\ said \in Seq(BOOLEAN)
        BY <1>3 DEF Frame, CaptureTypeInv
      <3>2. Len(said) = Len(out) /\ \A k \in 1 .. Len(out) : said[k]
        BY <1>1 DEF LoopInv
      <3>3. /\ Append(said, keep) \in Seq(BOOLEAN) /\ Len(Append(said, keep)) = Len(said) + 1
            /\ Append(said, keep)[Len(said) + 1] = keep
            /\ \A k \in 1 .. Len(said) : Append(said, keep)[k] = said[k]
        BY <3>1, AppendProperties
      <3> QED BY <2>2, <3>1, <3>2, <3>3
    <2>5. CASE keep
      <3>1. todo' = Tail(todo) /\ UNCHANGED <<pc, res>>
        BY <1>3, <2>5 DEF Frame
      <3>2. CaptureTypeInv'
        BY <1>1, <2>1, <2>2, <2>7, <3>1 DEF CaptureTypeInv
      <3>3. Reported' = Reported
        BY <1>1, <3>1 DEF Reported, Stored
      <3>4. \A k \in 1 .. Len(todo') : todo'[k] = Reported'[Len(out') + k]
        BY <1>1, <2>1, <2>2, <3>1, <3>3 DEF LoopInv
      <3>6. \A k \in 1 .. Len(said') : said'[k]
        <4>1. \A k \in 1 .. Len(said') : k = Len(out) + 1 \/ k \in 1 .. Len(out)
          BY <1>1, <2>2, <2>7
        <4> QED BY <2>5, <2>7, <4>1
      <3>5. LoopInv'
        BY <1>1, <2>1, <2>2, <2>4, <2>7, <3>1, <3>3, <3>4, <3>6 DEF LoopInv
      <3> QED BY <1>1, <3>1, <3>2, <3>5 DEF CollectFresh, ReportFaithful
    <2>6. CASE ~keep
      <3>1. todo' = <<>> /\ pc' = "idle" /\ res' = [call |-> pc, ret |-> FALSE]
        BY <1>3, <2>6 DEF Frame, Answer
      <3>2. CaptureTypeInv' /\ LoopInv'
        BY <1>1, <2>2, <2>7, <3>1, EmptySeq DEF CaptureTypeInv, LoopInv
      <3>3. CollectFresh' /\ ReportFaithful'
        <4>1. Len(said') - 1 = Len(out) /\ Len(out) + 1 \in 1 .. Len(said')
          BY <1>1, <2>2, <2>7
        <4>2. ~said'[Len(out) + 1] /\ res'.ret = FALSE
          BY <2>6, <2>7, <3>1
        <4>3. AnswerIsTheCallbacks'
          BY <2>7, <4>1, <4>2 DEF AnswerIsTheCallbacks
        <4> QED BY <1>1, <2>4, <3>1, <3>2, <4>2, <4>3, ReportDone
      <3> QED BY <1>1, <3>2, <3>3
    <2> QED BY <2>5, <2>6
  <1> QED BY <1>2, <1>3

-----------------------------------------------------------------------------
\* The calls on Windows keep the invariant, whatever stacks they find.
THEOREM CaptureInvariance == CaptureSpec => []CaptureInv
  <1>1. CaptureInv /\ [CaptureNext]_captureVars => CaptureInv'
    <2> SUFFICES ASSUME CaptureInv, [CaptureNext]_captureVars PROVE CaptureInv'
      OBVIOUS
    <2>1. CASE UNCHANGED captureVars
      BY <2>1 DEF captureVars, CaptureInv, CaptureTypeInv, CaptureInBounds, LoopInv, Reported, Stored,
                  CollectFresh, ReportFaithful, AnswerIsTheCallbacks
    <2> QED BY <2>1, ContextStep, CollectStep, BeginStep, ReportStep DEF CaptureNext
  <1> QED BY CaptureInitInv, <1>1, PTL DEF CaptureSpec

\* No walk of any depth writes beyond the caller's array or beyond frames[],
\* the wrap of (USHORT)max included.
THEOREM InBounds == CaptureSpec => []CaptureInBounds
  BY CaptureInvariance, PTL DEF CaptureInv

\* A context never mixes the frames of two collections.
THEOREM AlwaysFresh == CaptureSpec => []CollectFresh
  BY CaptureInvariance, PTL DEF CaptureInv

\* Every report is a first part of the trace in order, up to the first refusal;
\* the answer is true exactly when there was none, and the report then whole.
THEOREM AlwaysFaithful == CaptureSpec => []ReportFaithful
  BY CaptureInvariance, PTL DEF CaptureInv

(***************************************************************************)
(* Resolving names                                                         *)
(***************************************************************************)

CallT == [pc : InSection \cup {"idle", "once", "init_cs", "init_sym", "module", "path",
                               "enter", "done"},
          ip : Base, module : Base, path : Image, sname : Image, src : Image,
          dbg : [name : Image, line : Image], then : {"name", "line"}, seen : SUBSET Image]

TableT == [mod : Base, state : {-1, 0, 1}, syms : Image, dwarf : Image]

TypeInv ==
    /\ th \in [Threads -> CallT]
    /\ once \in {"no", "running", "done"} /\ csInits \in Nat
    /\ cs \in Threads \cup {None} /\ sym_ok \in BOOLEAN
    /\ pe \in TableT
    /\ mapped \in [Bases -> Image]

\* A thread inside the section owns it, and nobody else does.
MutexInv == \A t \in Threads : th[t].pc \in InSection <=> cs = t

\* One thread runs bw_sym_init, and until it is through nobody gets past
\* InitOnceExecuteOnce.
OnceInv ==
    /\ once = "no" => csInits = 0
    /\ once = "running" => csInits \in {0, 1}
    /\ once = "done" => csInits = 1
    /\ \A t \in Threads :
          /\ th[t].pc = "init_cs" => once = "running" /\ csInits = 0
          /\ th[t].pc = "init_sym" => once = "running" /\ csInits = 1
          /\ th[t].pc \in InSection \cup {"module", "path", "enter"} => once = "done"
    /\ \A t, v \in Threads :
          (th[t].pc \in {"init_cs", "init_sym"} /\ th[v].pc \in {"init_cs", "init_sym"}) => t = v

\* Symbols and lines are of one image, and there are symbols exactly if the
\* state says so.
Coherent ==
    /\ pe.state = 1 <=> pe.syms # None
    /\ pe.syms # None /\ pe.dwarf # None => pe.syms = pe.dwarf
    /\ pe.syms \in DwarfImages \/ pe.dwarf \in CoffImages => pe.dwarf = pe.syms

\* While a load is under way, the tables hold what it has read so far, all of
\* it from the file at path; otherwise they are coherent.
TablesInv ==
    /\ \A t \in Threads : th[t].pc \in {"syms", "dwarf"} => pe.mod = th[t].module /\ pe.dwarf = None
    /\ \A t \in Threads : th[t].pc = "syms" => pe.state = -1 /\ pe.syms = None
    /\ \A t \in Threads : th[t].pc = "dwarf" =>
          IF th[t].path \in CoffImages THEN pe.state = 1 /\ pe.syms = th[t].path
                                       ELSE pe.state = -1 /\ pe.syms = None
    /\ (\A t \in Threads : th[t].pc \notin {"syms", "dwarf"}) => Coherent

SafeInv == TypeInv /\ MutexInv /\ OnceInv /\ TablesInv

-----------------------------------------------------------------------------
\* What the calls know of their module, in a process that does not unload:
\* it is still mapped, and path is its file.
CallOK(t) ==
    /\ th[t].ip # None => mapped[th[t].ip] \in th[t].seen
    /\ th[t].ip = None => th[t].seen = {} /\ th[t].module = None
    /\ th[t].module # None => th[t].module = th[t].ip /\ mapped[th[t].ip] # None
    /\ (th[t].module # None /\ th[t].pc # "path") => th[t].path = mapped[th[t].ip]
    /\ {th[t].dbg.name, th[t].dbg.line, th[t].sname, th[t].src} \subseteq {None} \cup th[t].seen
    /\ (th[t].ip # None /\ None \notin th[t].seen
          /\ th[t].pc \in InSection \cup {"path", "enter"}) => th[t].module = th[t].ip
    /\ th[t].pc \in {"load", "syms", "dwarf"} => th[t].module # None
    /\ th[t].pc \in {"syms", "dwarf"} => th[t].path \in Readable

CallInv == \A t \in Threads : CallOK(t)

\* The tables hold nothing but what was read from the image that is mapped at
\* their module, and its symbols if it has any.
ContentInv ==
    /\ pe.mod = None => pe.syms = None /\ pe.dwarf = None
    /\ pe.mod # None => /\ mapped[pe.mod] # None
                        /\ {pe.syms, pe.dwarf} \subseteq {None, mapped[pe.mod]}
    /\ (pe.mod # None /\ \A t \in Threads : th[t].pc \notin {"syms", "dwarf"}) =>
          (mapped[pe.mod] \in Readable \cap CoffImages =>
              pe.state = 1 /\ pe.syms = mapped[pe.mod])

\* The name has been looked up.
Named(t) ==
    \/ th[t].pc \in {"line", "leave", "done"}
    \/ th[t].pc \in {"load", "syms", "dwarf"} /\ th[t].then = "line"

NamedOK(t) ==
    \A img \in Readable \cap CoffImages : (Named(t) /\ th[t].seen = {img}) => th[t].sname = img

NamedInv == \A t \in Threads : NamedOK(t)

NamesInv == CallInv /\ ContentInv /\ NamedInv

-----------------------------------------------------------------------------
\* The state of a call before its first step, and the empty tables.
LEMMA Blank == Idle \in CallT /\ EmptyTables \in TableT
  BY DEF Idle, CallT, Base, Image, EmptyTables, TableT

\* Before the first call the section is not initialised and the tables are
\* empty.
LEMMA InitSafe == Init => SafeInv
  <1> SUFFICES ASSUME Init PROVE SafeInv
    OBVIOUS
  <1>1. TypeInv
    BY Blank DEF Init, TypeInv, Image
  <1>2. MutexInv /\ OnceInv
    BY ImageAssumption DEF Init, MutexInv, OnceInv, Idle, InSection
  <1>3. TablesInv
    BY ImageAssumption DEF Init, TablesInv, Coherent, Idle, EmptyTables
  <1> QED BY <1>1, <1>2, <1>3 DEF SafeInv

\* A call that moves on inside the section, and one that calls bw_pe_load
\* there, stay well typed.
LEMMA Moved ==
    ASSUME NEW c \in CallT, NEW p \in InSection, NEW q \in {"name", "line"}
    PROVE  /\ [c EXCEPT !.pc = p] \in CallT
           /\ [c EXCEPT !.pc = p, !.then = q] \in CallT
  <1>1. [c EXCEPT !.pc = p] \in CallT
    BY DEF CallT
  <1>2. [c EXCEPT !.pc = p, !.then = q] \in CallT
    BY DEF CallT
  <1> QED BY <1>1, <1>2

\* Every step leaves the state well typed.
LEMMA TypeStep ==
    ASSUME TypeInv, Next
    PROVE  TypeInv'
  <1> USE DEF TypeInv
  <1>1. ASSUME NEW t \in Threads, Step(t) PROVE TypeInv'
    <2>1. CASE OnceBegin(t) \/ bw_sym_init_cs(t) \/ bw_sym_init_sym(t) \/ OncePassed(t)
      BY <2>1 DEF OnceBegin, bw_sym_init_cs, bw_sym_init_sym, OncePassed, Goto, CallT, sync
    <2>2. CASE GetModule(t)
      BY <2>2 DEF GetModule, CallT, sync, Base
    <2>3. CASE GetPath(t)
      <3>1. th[t].module \in Bases => mapped[th[t].module] \in Image
        OBVIOUS
      <3> QED BY <2>3 DEF GetPath, CallT, sync
    <2>4. CASE Enter(t)
      <3>1. [th[t] EXCEPT !.pc = "dbghelp"] \in CallT
        <4>1. th[t] \in CallT /\ "dbghelp" \in InSection /\ "name" \in {"name", "line"}
          BY DEF InSection
        <4> QED BY <4>1, Moved
      <3>2. th' = [th EXCEPT ![t] = [th[t] EXCEPT !.pc = "dbghelp"]]
        BY <2>4 DEF Enter, Goto
      <3>3. th' \in [Threads -> CallT]
        BY <3>1, <3>2
      <3> QED BY <2>4, <3>3 DEF Enter
    <2>5. CASE DbgHelp(t)
      <3>1. PICK n, l \in PdbImages \cup {None} :
               th' = [th EXCEPT ![t].dbg = [name |-> n, line |-> l], ![t].pc = "name"]
        BY <2>5 DEF DbgHelp
      <3>2. n \in Image /\ l \in Image
        BY ImageAssumption DEF Image
      <3> QED BY <2>5, <3>1, <3>2 DEF DbgHelp, CallT, sync, InSection
    <2>6. CASE CallLoad(t)
      <3>1. th[t].pc \in {"name", "line"}
        BY <2>6 DEF CallLoad
      <3>2. [th[t] EXCEPT !.pc = "load", !.then = th[t].pc] \in CallT
        <4>1. th[t] \in CallT /\ "load" \in InSection
          BY DEF InSection
        <4> QED BY <3>1, <4>1, Moved
      <3>3. th' = [th EXCEPT ![t] = [th[t] EXCEPT !.pc = "load", !.then = th[t].pc]]
        BY <2>6 DEF CallLoad
      <3>4. th' \in [Threads -> CallT]
        BY <3>2, <3>3
      <3> QED BY <2>6, <3>4 DEF CallLoad, sync
    <2>7. CASE Name(t)
      <3>1. th'[t].sname \in Image
        BY <2>7 DEF Name, CallT, TableT, Image
      <3> QED BY <2>7, <3>1 DEF Name, CallT, sync, InSection
    <2>8. CASE Line(t)
      <3>1. th'[t].src \in Image
        BY <2>8 DEF Line, CallT, TableT, Image
      <3> QED BY <2>8, <3>1 DEF Line, CallT, sync, InSection
    <2>9. CASE LoadReset(t)
      <3>1. pe' \in TableT
        BY <2>9 DEF LoadReset, ResetTables, CallT, TableT, Image
      <3> QED BY <2>9, <3>1 DEF LoadReset, Goto, After, CallT, sync, InSection
    <2>10. CASE LoadSyms(t)
      <3>1. pe' \in TableT
        BY <2>10 DEF LoadSyms, CallT, TableT
      <3> QED BY <2>10, <3>1 DEF LoadSyms, Goto, CallT, sync, InSection
    <2>11. CASE LoadDwarf(t)
      <3>1. pe' \in TableT
        BY <2>11 DEF LoadDwarf, CallT, TableT
      <3>2. th[t].then \in {"name", "line"}
        BY DEF CallT
      <3>3. th' \in [Threads -> CallT]
        BY <2>11, <3>2 DEF LoadDwarf, Goto, After, CallT, InSection
      <3> QED BY <2>11, <3>1, <3>3 DEF LoadDwarf, sync
    <2>12. CASE Leave(t)
      BY <2>12 DEF Leave, Goto, Released, CallT, InSection
    <2> QED BY <1>1, <2>1, <2>2, <2>3, <2>4, <2>5, <2>6, <2>7, <2>8, <2>9, <2>10, <2>11, <2>12
           DEF Step
  <1>2. ASSUME NEW t \in Threads, Return(t) \/ ResolveNull(t) PROVE TypeInv'
    <2>1. CASE Return(t)
      BY <1>2, <2>1 DEF Return, Goto, CallT, sync
    <2>2. CASE ResolveNull(t)
      <3>1. [Idle EXCEPT !.pc = "done"] \in CallT
        BY Blank DEF CallT
      <3> QED BY <2>2, <3>1 DEF ResolveNull, sync
    <2> QED BY <1>2, <2>1, <2>2
  <1>3. ASSUME NEW t \in Threads, NEW b \in Bases \cup {None}, Resolve(t, b) PROVE TypeInv'
    <2> DEFINE images == IF b = None THEN {} ELSE {mapped[b]}
               start == [Idle EXCEPT !.pc = "once", !.ip = b, !.seen = images]
    <2>1. images \subseteq Image /\ b \in Base
      BY DEF Base
    <2>2. start \in CallT
      BY <2>1, Blank DEF CallT
    <2>3. th' = [th EXCEPT ![t] = start]
      BY <1>3 DEF Resolve
    <2> QED BY <1>3, <2>2, <2>3 DEF Resolve, sync
  <1>4. ASSUME NEW b \in Bases, NEW img \in Images, LoadImage(b, img) PROVE TypeInv'
    BY <1>4 DEF LoadImage, CallT, sync, Image
  <1>5. ASSUME NEW b \in Bases, UnloadImage(b) PROVE TypeInv'
    BY <1>5 DEF UnloadImage, sync, Image
  <1> QED BY <1>1, <1>2, <1>3, <1>4, <1>5 DEF Next

\* A step of one thread does not touch the calls of the others.
LEMMA OthersKept ==
    ASSUME TypeInv, NEW t \in Threads, Step(t) \/ Return(t) \/ ResolveNull(t)
    PROVE  \A v \in Threads \ {t} : th'[v] = th[v]
  BY DEF TypeInv, Step, OnceBegin, bw_sym_init_cs, bw_sym_init_sym, OncePassed, GetModule, GetPath,
         Enter, DbgHelp, CallLoad, Name, Line, LoadReset, LoadSyms, LoadDwarf, Leave, Return,
         ResolveNull, Goto

\* The work between EnterCriticalSection and LeaveCriticalSection.
Inside(t) ==
    DbgHelp(t) \/ CallLoad(t) \/ Name(t) \/ Line(t) \/ LoadReset(t) \/ LoadSyms(t) \/ LoadDwarf(t)

\* It stays in the section and touches nothing that orders the threads.
LEMMA InsideKeeps ==
    ASSUME TypeInv, NEW t \in Threads, Inside(t)
    PROVE  th[t].pc \in InSection /\ th'[t].pc \in InSection /\ UNCHANGED <<sync, mapped>>
  <1> USE DEF TypeInv
  <1>1. CASE DbgHelp(t)
    BY <1>1 DEF DbgHelp, CallT, InSection
  <1>2. CASE CallLoad(t) \/ Name(t) \/ Line(t)
    BY <1>2 DEF CallLoad, Name, Line, CallT, InSection
  <1>3. CASE LoadReset(t) \/ LoadSyms(t) \/ LoadDwarf(t)
    <2>1. th[t].then \in {"name", "line"}
      BY DEF CallT
    <2> QED BY <1>3, <2>1 DEF LoadReset, LoadSyms, LoadDwarf, Goto, After, CallT, InSection
  <1> QED BY <1>1, <1>2, <1>3 DEF Inside

\* The critical section is exclusive.
LEMMA MutexStep ==
    ASSUME TypeInv, MutexInv, Next
    PROVE  MutexInv'
  <1> USE DEF TypeInv, MutexInv
  <1>1. ASSUME NEW t \in Threads, Step(t) PROVE MutexInv'
    <2>1. CASE OnceBegin(t) \/ bw_sym_init_cs(t) \/ bw_sym_init_sym(t) \/ OncePassed(t)
      BY <2>1 DEF OnceBegin, bw_sym_init_cs, bw_sym_init_sym, OncePassed, Goto, CallT, sync, InSection
    <2>2. CASE GetModule(t) \/ GetPath(t)
      BY <2>2 DEF GetModule, GetPath, CallT, sync, InSection
    <2>3. CASE Enter(t)
      BY <2>3, ImageAssumption DEF Enter, Goto, CallT, InSection
    <2>4. CASE Inside(t)
      BY <2>4, InsideKeeps, OthersKept, <1>1 DEF sync
    <2>5. CASE Leave(t)
      BY <2>5, ImageAssumption DEF Leave, Released, Goto, CallT, InSection
    <2> QED BY <1>1, <2>1, <2>2, <2>3, <2>4, <2>5 DEF Step, Inside
  <1>2. ASSUME NEW t \in Threads, Return(t) \/ ResolveNull(t) PROVE MutexInv'
    BY <1>2, Blank DEF Return, ResolveNull, Goto, CallT, sync, InSection
  <1>3. ASSUME NEW t \in Threads, NEW b \in Bases \cup {None}, Resolve(t, b) PROVE MutexInv'
    BY <1>3, Blank DEF Resolve, CallT, sync, InSection
  <1>4. ASSUME NEW b \in Bases, NEW img \in Images, LoadImage(b, img) PROVE MutexInv'
    BY <1>4 DEF LoadImage, CallT, sync
  <1>5. ASSUME NEW b \in Bases, UnloadImage(b) PROVE MutexInv'
    BY <1>5 DEF UnloadImage, sync
  <1> QED BY <1>1, <1>2, <1>3, <1>4, <1>5 DEF Next

\* bw_sym_init runs once.
LEMMA OnceStep ==
    ASSUME TypeInv, OnceInv, Next
    PROVE  OnceInv'
  <1> USE DEF TypeInv, OnceInv
  <1>1. ASSUME NEW t \in Threads, Step(t) PROVE OnceInv'
    <2>1. CASE OnceBegin(t)
      BY <2>1 DEF OnceBegin, Goto, CallT, InSection
    <2>2. CASE bw_sym_init_cs(t)
      BY <2>2 DEF bw_sym_init_cs, Goto, CallT, InSection
    <2>3. CASE bw_sym_init_sym(t)
      BY <2>3 DEF bw_sym_init_sym, Goto, CallT, InSection
    <2>4. CASE OncePassed(t)
      BY <2>4 DEF OncePassed, OnceReady, Goto, CallT, sync, InSection
    <2>5. CASE GetModule(t) \/ GetPath(t)
      BY <2>5 DEF GetModule, GetPath, CallT, sync, InSection
    <2>6. CASE Enter(t) \/ Leave(t)
      BY <2>6 DEF Enter, Leave, Goto, CallT, InSection
    <2>7. CASE Inside(t)
      BY <2>7, InsideKeeps, OthersKept, <1>1 DEF sync, InSection
    <2> QED BY <1>1, <2>1, <2>2, <2>3, <2>4, <2>5, <2>6, <2>7 DEF Step, Inside
  <1>2. ASSUME NEW t \in Threads, Return(t) \/ ResolveNull(t) PROVE OnceInv'
    <2>1. th'[t].pc \in {"idle", "done"} /\ UNCHANGED sync
      BY <1>2 DEF Return, ResolveNull, Idle, Goto, CallT
    <2> QED BY <1>2, <2>1, OthersKept DEF sync, InSection
  <1>3. ASSUME NEW t \in Threads, NEW b \in Bases \cup {None}, Resolve(t, b) PROVE OnceInv'
    BY <1>3, Blank DEF Resolve, CallT, sync, InSection
  <1>4. ASSUME NEW b \in Bases, NEW img \in Images, LoadImage(b, img) PROVE OnceInv'
    BY <1>4 DEF LoadImage, CallT, sync
  <1>5. ASSUME NEW b \in Bases, UnloadImage(b) PROVE OnceInv'
    BY <1>5 DEF UnloadImage, sync
  <1> QED BY <1>1, <1>2, <1>3, <1>4, <1>5 DEF Next

\* Reading a file into the tables.
Filling == {"syms", "dwarf"}

\* A step that leaves the tables and every load alone leaves them coherent.
LEMMA TablesKept ==
    ASSUME TablesInv, pe' = pe,
           \A v \in Threads :
              \/ th[v].pc \notin Filling /\ th'[v].pc \notin Filling
              \/ /\ th'[v].pc = th[v].pc /\ th'[v].module = th[v].module
                 /\ th'[v].path = th[v].path
    PROVE  TablesInv'
  BY DEF TablesInv, Coherent, Filling

\* A step keeps the tables coherent, or is part of a load that will.
LEMMA TablesStep ==
    ASSUME TypeInv, MutexInv, TablesInv, Next
    PROVE  TablesInv'
  <1> USE DEF TypeInv
  <1>1. ASSUME NEW t \in Threads, Step(t), ~LoadReset(t), ~LoadSyms(t), ~LoadDwarf(t)
        PROVE  TablesInv'
    <2>1. pe' = pe
      BY <1>1 DEF Step, OnceBegin, bw_sym_init_cs, bw_sym_init_sym, OncePassed, GetModule, GetPath,
           Enter, DbgHelp, CallLoad, Name, Line, Leave
    <2>2. th[t].pc \notin Filling
      BY <1>1 DEF Step, OnceBegin, bw_sym_init_cs, bw_sym_init_sym, OncePassed, GetModule, GetPath,
           Enter, DbgHelp, CallLoad, Name, Line, Leave, Goto, Filling
    <2>3. th'[t].pc \notin Filling
      <3>1. CASE DbgHelp(t)
        BY <3>1 DEF DbgHelp, CallT, Filling
      <3>2. CASE GetModule(t) \/ GetPath(t) \/ CallLoad(t) \/ Name(t) \/ Line(t)
        BY <3>2 DEF GetModule, GetPath, CallLoad, Name, Line, CallT, Filling
      <3>3. CASE OnceBegin(t) \/ bw_sym_init_cs(t) \/ bw_sym_init_sym(t) \/ OncePassed(t)
                 \/ Enter(t) \/ Leave(t)
        BY <3>3 DEF OnceBegin, bw_sym_init_cs, bw_sym_init_sym, OncePassed, Enter, Leave, Goto,
                    CallT, Filling
      <3> QED BY <1>1, <3>1, <3>2, <3>3 DEF Step
    <2> QED BY <1>1, <2>1, <2>2, <2>3, OthersKept, TablesKept
  <1>2. ASSUME NEW t \in Threads, LoadReset(t) \/ LoadSyms(t) \/ LoadDwarf(t)
        PROVE  TablesInv'
    <2>1. \A v \in Threads \ {t} : th[v].pc \notin Filling /\ th'[v] = th[v]
      <3>1. th[t].pc \in InSection /\ Step(t)
        BY <1>2, InsideKeeps DEF Inside, Step
      <3> QED BY <3>1, OthersKept DEF MutexInv, InSection, Filling
    <2>2. th[t].then \in {"name", "line"}
      BY DEF CallT
    <2>3. CASE LoadReset(t)
      <3>1. /\ pe' = [mod |-> th[t].module, state |-> -1, syms |-> None, dwarf |-> None]
            /\ th'[t].module = th[t].module
            /\ th'[t].pc # "dwarf"
        BY <2>2, <2>3 DEF LoadReset, ResetTables, Goto, After, CallT
      <3>2. Coherent'
        BY <3>1, ImageAssumption DEF Coherent
      <3> QED BY <2>1, <3>1, <3>2 DEF TablesInv, Filling
    <2>4. CASE LoadSyms(t)
      <3>1. th[t].pc = "syms" /\ th'[t] = [th[t] EXCEPT !.pc = "dwarf"]
        BY <2>4 DEF LoadSyms, Goto
      <3>2. th'[t].module = th[t].module /\ th'[t].path = th[t].path /\ th'[t].pc = "dwarf"
        BY <3>1 DEF CallT
      <3>3. pe' = IF th[t].path \in CoffImages
                  THEN [pe EXCEPT !.state = 1, !.syms = th[t].path] ELSE pe
        BY <2>4 DEF LoadSyms
      <3>4. /\ pe'.mod = pe.mod /\ pe'.dwarf = pe.dwarf
            /\ IF th[t].path \in CoffImages THEN pe'.state = 1 /\ pe'.syms = th[t].path
                                            ELSE pe'.state = pe.state /\ pe'.syms = pe.syms
        BY <3>3 DEF TableT
      <3>5. pe.mod = th[t].module /\ pe.dwarf = None /\ pe.state = -1 /\ pe.syms = None
        BY <3>1 DEF TablesInv
      <3>6. /\ pe'.mod = th'[t].module /\ pe'.dwarf = None
            /\ IF th'[t].path \in CoffImages THEN pe'.state = 1 /\ pe'.syms = th'[t].path
                                             ELSE pe'.state = -1 /\ pe'.syms = None
        BY <3>2, <3>4, <3>5
      <3> QED BY <2>1, <3>2, <3>6 DEF TablesInv, Filling
    <2>5. CASE LoadDwarf(t)
      <3>1. th[t].pc = "dwarf" /\ th'[t].pc \notin Filling
        BY <2>2, <2>5 DEF LoadDwarf, Goto, After, CallT, Filling
      <3>2. pe' = IF th[t].path \in DwarfImages THEN [pe EXCEPT !.dwarf = th[t].path] ELSE pe
        BY <2>5 DEF LoadDwarf
      <3>3. /\ pe'.state = pe.state /\ pe'.syms = pe.syms
            /\ pe'.dwarf = IF th[t].path \in DwarfImages THEN th[t].path ELSE pe.dwarf
        BY <3>2 DEF TableT
      <3>4. Coherent'
        BY <3>1, <3>3, ImageAssumption DEF Coherent, TablesInv
      <3> QED BY <2>1, <3>1, <3>4 DEF TablesInv, Filling
    <2> QED BY <1>2, <2>3, <2>4, <2>5
  <1>3. ASSUME NEW t \in Threads, Return(t) \/ ResolveNull(t) PROVE TablesInv'
    <2>1. pe' = pe /\ th[t].pc \notin Filling /\ th'[t].pc \notin Filling
      BY <1>3 DEF Return, ResolveNull, Idle, Goto, CallT, Filling
    <2> QED BY <1>3, <2>1, OthersKept, TablesKept
  <1>4. ASSUME NEW t \in Threads, NEW b \in Bases \cup {None}, Resolve(t, b) PROVE TablesInv'
    <2>1. pe' = pe /\ th[t].pc \notin Filling /\ th'[t].pc \notin Filling
      BY <1>4 DEF Resolve, Idle, CallT, Filling
    <2>2. \A v \in Threads \ {t} : th'[v] = th[v]
      BY <1>4 DEF Resolve
    <2> QED BY <2>1, <2>2, TablesKept
  <1>5. ASSUME NEW b \in Bases, NEW img \in Images, LoadImage(b, img) PROVE TablesInv'
    <2>1. pe' = pe
      BY <1>5 DEF LoadImage
    <2>2. ASSUME NEW v \in Threads
          PROVE  th'[v].pc = th[v].pc /\ th'[v].module = th[v].module /\ th'[v].path = th[v].path
      BY <1>5 DEF LoadImage, CallT
    <2> QED BY <2>1, <2>2, TablesKept
  <1>6. ASSUME NEW b \in Bases, UnloadImage(b) PROVE TablesInv'
    BY <1>6, TablesKept DEF UnloadImage
  <1> QED BY <1>1, <1>2, <1>3, <1>4, <1>5, <1>6 DEF Next

-----------------------------------------------------------------------------
\* bw_win_resolve keeps its critical section exclusive, its initialisation
\* single and its tables whole, whatever the process loads or unloads.
THEOREM Safety == Spec => []SafeInv
  <1>1. SafeInv /\ [Next]_vars => SafeInv'
    <2> SUFFICES ASSUME SafeInv, [Next]_vars PROVE SafeInv'
      OBVIOUS
    <2>1. CASE UNCHANGED vars
      BY <2>1 DEF vars, SafeInv, TypeInv, MutexInv, OnceInv, TablesInv, Coherent
    <2> QED BY <2>1, TypeStep, MutexStep, OnceStep, TablesStep DEF SafeInv
  <1> QED BY InitSafe, <1>1, PTL DEF Spec

\* At most one thread is in the critical section.
Exclusive ==
    \A t, v \in Threads : (th[t].pc \in InSection /\ th[v].pc \in InSection) => t = v

\* The single-entry tables are used by one thread at a time.
THEOREM OneInside == Spec => []Exclusive
  <1>1. SafeInv => Exclusive
    BY DEF SafeInv, MutexInv, Exclusive
  <1> QED BY <1>1, Safety, PTL

\* The critical section is initialised exactly once, before anyone enters it.
THEOREM SectionReady == Spec => []InitialisedOnce
  <1>1. SafeInv => InitialisedOnce
    BY DEF SafeInv, TypeInv, OnceInv, InitialisedOnce
  <1> QED BY <1>1, Safety, PTL

\* Nobody finds symbols of one image beside lines of another.
THEOREM TablesWhole == Spec => []TablesCoherent
  <1>1. SafeInv => TablesCoherent
    <2> SUFFICES ASSUME SafeInv, cs = None PROVE Coherent
      BY DEF TablesCoherent, Coherent
    <2>1. \A t \in Threads : th[t].pc \notin Filling
      BY ImageAssumption DEF SafeInv, MutexInv, InSection, Filling
    <2> QED BY <2>1 DEF SafeInv, TablesInv, Filling
  <1> QED BY <1>1, Safety, PTL

-----------------------------------------------------------------------------
(* A process that does not unload images *)

\* Before the first call nothing has been named.
LEMMA InitNames == Init => NamesInv
  <1> SUFFICES ASSUME Init PROVE NamesInv
    OBVIOUS
  <1>1. CallInv
    BY DEF Init, CallInv, CallOK, Idle, InSection
  <1>2. ContentInv
    BY DEF Init, ContentInv, EmptyTables
  <1>3. NamedInv
    BY DEF Init, NamedInv, NamedOK, Named, Idle
  <1> QED BY <1>1, <1>2, <1>3 DEF NamesInv

\* Each step of a call keeps what it knows of its module.
LEMMA CallStep ==
    ASSUME SafeInv, CallInv, ContentInv, NEW t \in Threads, Step(t)
    PROVE  CallOK(t)'
  <1> USE DEF SafeInv, TypeInv
  <1>0. CallOK(t) /\ th[t] \in CallT
    BY DEF CallInv
  <1>1. CASE OnceBegin(t) \/ bw_sym_init_cs(t) \/ bw_sym_init_sym(t) \/ OncePassed(t)
    BY <1>0, <1>1 DEF OnceBegin, bw_sym_init_cs, bw_sym_init_sym, OncePassed, Goto,
                      CallT, CallOK, sync, InSection
  <1>2. CASE GetModule(t)
    BY <1>0, <1>2 DEF GetModule, CallT, CallOK, sync, InSection
  <1>3. CASE GetPath(t)
    BY <1>0, <1>3 DEF GetPath, CallT, CallOK, sync, InSection
  <1>4. CASE Enter(t) \/ Leave(t)
    BY <1>0, <1>4 DEF Enter, Leave, Goto, CallT, CallOK, InSection
  <1>5. CASE DbgHelp(t)
    BY <1>0, <1>5 DEF DbgHelp, CallT, CallOK, sync, InSection
  <1>6. CASE CallLoad(t)
    BY <1>0, <1>6 DEF CallLoad, NeedsLoad, CallT, CallOK, sync, InSection
  <1>7. CASE Name(t)
    BY <1>0, <1>7 DEF Name, NeedsLoad, CallT, CallOK, ContentInv, sync, InSection
  <1>8. CASE Line(t)
    BY <1>0, <1>8 DEF Line, NeedsLoad, CallT, CallOK, ContentInv, sync, InSection
  <1>9. CASE LoadReset(t) \/ LoadSyms(t) \/ LoadDwarf(t)
    BY <1>0, <1>9 DEF LoadReset, LoadSyms, LoadDwarf, Goto, After, CallT, CallOK, sync, InSection
  <1> QED BY <1>1, <1>2, <1>3, <1>4, <1>5, <1>6, <1>7, <1>8, <1>9 DEF Step

\* Each step of a call keeps the name it has found, and finds one if there is
\* one to be found.
LEMMA NamedStep ==
    ASSUME SafeInv, NamesInv, NEW t \in Threads, Step(t)
    PROVE  NamedOK(t)'
  <1> USE DEF SafeInv, TypeInv
  <1>0. CallOK(t) /\ NamedOK(t) /\ th[t] \in CallT
    BY DEF NamesInv, CallInv, NamedInv
  <1>1. CASE OnceBegin(t) \/ bw_sym_init_cs(t) \/ bw_sym_init_sym(t) \/ OncePassed(t)
             \/ GetModule(t) \/ GetPath(t) \/ Enter(t)
    <2>1. ~Named(t)'
      BY <1>0, <1>1 DEF OnceBegin, bw_sym_init_cs, bw_sym_init_sym, OncePassed, GetModule, GetPath,
                        Enter, Goto, CallT, Named
    <2> QED BY <2>1 DEF NamedOK
  <1>2. CASE DbgHelp(t)
    <2>1. ~Named(t)'
      BY <1>0, <1>2 DEF DbgHelp, CallT, Named
    <2> QED BY <2>1 DEF NamedOK
  <1>3. CASE CallLoad(t) \/ Line(t) \/ Leave(t) \/ LoadReset(t) \/ LoadSyms(t) \/ LoadDwarf(t)
    <2>1. th'[t].seen = th[t].seen /\ th'[t].sname = th[t].sname
      BY <1>0, <1>3 DEF CallLoad, Line, Leave, LoadReset, LoadSyms, LoadDwarf, Goto, CallT
    <2>2. Named(t)' => Named(t)
      <3>1. th[t].then \in {"name", "line"}
        BY <1>0 DEF CallT
      <3>2. CASE CallLoad(t) \/ Line(t) \/ Leave(t)
        BY <1>0, <3>2 DEF CallLoad, Line, Leave, Goto, CallT, Named
      <3>3. CASE LoadReset(t) \/ LoadSyms(t) \/ LoadDwarf(t)
        BY <1>0, <3>1, <3>3 DEF LoadReset, LoadSyms, LoadDwarf, Goto, After, CallT, Named
      <3> QED BY <1>3, <3>2, <3>3
    <2> QED BY <1>0, <2>1, <2>2 DEF NamedOK
  <1>4. CASE Name(t)
    <2> SUFFICES ASSUME NEW img \in Readable \cap CoffImages, th'[t].seen = {img}
                 PROVE  th'[t].sname = img
      BY DEF NamedOK
    <2>1. th[t].seen = {img} /\ img # None
      BY <1>0, <1>4, ImageAssumption DEF Name, CallT
    <2>2. th[t].ip # None /\ mapped[th[t].ip] = img /\ th[t].module = th[t].ip
      BY <1>0, <1>4, <2>1 DEF Name, CallOK, InSection
    <2>3. CASE th[t].dbg.name # None
      BY <1>0, <1>4, <2>1, <2>3 DEF Name, CallT, CallOK
    <2>4. CASE th[t].dbg.name = None
      <3>1. pe.mod = th[t].module
        BY <1>4, <2>2, <2>4 DEF Name, NeedsLoad
      <3>2. \A v \in Threads : th[v].pc \notin Filling
        BY <1>4 DEF Name, MutexInv, InSection, Filling
      <3>3. pe.state = 1 /\ pe.syms = img
        BY <2>2, <3>1, <3>2 DEF NamesInv, ContentInv, Filling
      <3> QED BY <1>0, <1>4, <2>2, <2>4, <3>3 DEF Name, CallT
    <2> QED BY <2>3, <2>4
  <1> QED BY <1>1, <1>2, <1>3, <1>4 DEF Step

\* The tables hold what is mapped at their module, through every step of a
\* load.
LEMMA ContentStep ==
    ASSUME SafeInv, CallInv, ContentInv, NEW t \in Threads, Step(t)
    PROVE  ContentInv'
  <1> USE DEF SafeInv, TypeInv
  <1>0. CallOK(t) /\ th[t] \in CallT
    BY DEF CallInv
  <1>m. mapped' = mapped
    BY DEF Step, OnceBegin, bw_sym_init_cs, bw_sym_init_sym, OncePassed, GetModule, GetPath,
           Enter, DbgHelp, CallLoad, Name, Line, Leave, LoadReset, LoadSyms, LoadDwarf
  <1>1. CASE ~LoadReset(t) /\ ~LoadSyms(t) /\ ~LoadDwarf(t)
    <2>1. pe' = pe
      BY <1>1 DEF Step, OnceBegin, bw_sym_init_cs, bw_sym_init_sym, OncePassed, GetModule, GetPath,
           Enter, DbgHelp, CallLoad, Name, Line, Leave
    <2>2. th[t].pc \notin Filling
      BY <1>1 DEF Step, OnceBegin, bw_sym_init_cs, bw_sym_init_sym, OncePassed, GetModule, GetPath,
           Enter, DbgHelp, CallLoad, Name, Line, Leave, Goto, Filling
    <2>3. \A v \in Threads : th[v].pc \in Filling => th'[v].pc \in Filling
      BY <2>2, OthersKept
    <2> QED BY <1>m, <2>1, <2>3 DEF ContentInv, Filling
  <1>2. CASE LoadReset(t)
    <2>1. /\ pe' = [mod |-> th[t].module, state |-> -1, syms |-> None, dwarf |-> None]
          /\ th[t].pc = "load"
          /\ th[t].path \in Readable => th'[t].pc = "syms"
      BY <1>0, <1>2 DEF LoadReset, ResetTables, Goto, After, CallT
    <2>2. th[t].module # None /\ th[t].path = mapped[th[t].module] /\ mapped[th[t].module] # None
      BY <1>0, <2>1 DEF CallOK
    <2> QED BY <1>m, <2>1, <2>2 DEF ContentInv, Filling
  <1>3. CASE LoadSyms(t)
    <2>1. /\ pe' = IF th[t].path \in CoffImages
                   THEN [pe EXCEPT !.state = 1, !.syms = th[t].path] ELSE pe
          /\ th[t].pc = "syms" /\ th'[t].pc = "dwarf"
      BY <1>0, <1>3 DEF LoadSyms, Goto, CallT
    <2>2. /\ pe'.mod = pe.mod /\ pe'.dwarf = pe.dwarf /\ pe'.syms \in {pe.syms, th[t].path}
          /\ pe.mod = th[t].module
      BY <2>1 DEF TableT, TablesInv
    <2>3. th[t].module # None /\ th[t].path = mapped[th[t].module] /\ mapped[th[t].module] # None
      BY <1>0, <2>1 DEF CallOK
    <2> QED BY <1>m, <2>1, <2>2, <2>3 DEF ContentInv
  <1>4. CASE LoadDwarf(t)
    <2>1. /\ pe' = IF th[t].path \in DwarfImages THEN [pe EXCEPT !.dwarf = th[t].path] ELSE pe
          /\ th[t].pc = "dwarf"
      BY <1>4 DEF LoadDwarf, Goto
    <2>2. /\ pe'.mod = pe.mod /\ pe'.dwarf \in {pe.dwarf, th[t].path} /\ pe'.syms = pe.syms
          /\ pe'.state = pe.state /\ pe.mod = th[t].module
          /\ th[t].path \in CoffImages => pe.state = 1 /\ pe.syms = th[t].path
      BY <2>1 DEF TableT, TablesInv
    <2>3. th[t].module # None /\ th[t].path = mapped[th[t].module] /\ mapped[th[t].module] # None
      BY <1>0, <2>1 DEF CallOK
    <2> QED BY <1>m, <2>2, <2>3 DEF ContentInv
  <1> QED BY <1>1, <1>2, <1>3, <1>4

\* A step names nothing after an image that is not there.
LEMMA NamesStep ==
    ASSUME ~MayUnload, SafeInv, NamesInv, Next
    PROVE  NamesInv'
  <1> USE DEF SafeInv, TypeInv
  <1>1. ASSUME NEW t \in Threads, Step(t) PROVE NamesInv'
    <2>1. CallOK(t)' /\ NamedOK(t)' /\ ContentInv'
      BY <1>1, CallStep, NamedStep, ContentStep DEF NamesInv
    <2>2. mapped' = mapped
      BY <1>1 DEF Step, OnceBegin, bw_sym_init_cs, bw_sym_init_sym, OncePassed, GetModule, GetPath,
             Enter, DbgHelp, CallLoad, Name, Line, Leave, LoadReset, LoadSyms, LoadDwarf
    <2>3. ASSUME NEW v \in Threads \ {t} PROVE CallOK(v)' /\ NamedOK(v)'
      <3>1. th'[v] = th[v]
        BY <1>1, OthersKept
      <3>2. CallOK(v) /\ NamedOK(v)
        BY DEF NamesInv, CallInv, NamedInv
      <3> QED BY <2>2, <3>1, <3>2 DEF CallOK, NamedOK, Named
    <2> QED BY <2>1, <2>3 DEF NamesInv, CallInv, NamedInv
  <1>2. ASSUME NEW t \in Threads, NEW b \in Bases \cup {None},
               Return(t) \/ ResolveNull(t) \/ Resolve(t, b)
        PROVE  NamesInv'
    <2>1. mapped' = mapped /\ pe' = pe /\ th[t].pc \notin Filling
      BY <1>2 DEF Return, ResolveNull, Resolve, Goto, Filling
    <2>2. CallOK(t)' /\ NamedOK(t)'
      <3>1. CASE Return(t)
        <4>1. CallOK(t) /\ th[t] \in CallT
          BY DEF NamesInv, CallInv
        <4> QED BY <2>1, <3>1, <4>1 DEF Return, Goto, CallT, CallOK, NamedOK, Named, InSection
      <3>2. CASE ResolveNull(t)
        BY <3>2 DEF ResolveNull, Idle, CallOK, NamedOK, Named, InSection
      <3>3. CASE Resolve(t, b)
        BY <2>1, <3>3 DEF Resolve, Idle, CallOK, NamedOK, Named, InSection
      <3> QED BY <1>2, <3>1, <3>2, <3>3
    <2>3. ASSUME NEW v \in Threads \ {t} PROVE th'[v] = th[v] /\ CallOK(v)' /\ NamedOK(v)'
      <3>1. th'[v] = th[v]
        BY <1>2 DEF Return, ResolveNull, Resolve, Goto
      <3>2. CallOK(v) /\ NamedOK(v)
        BY DEF NamesInv, CallInv, NamedInv
      <3> QED BY <2>1, <3>1, <3>2 DEF CallOK, NamedOK, Named
    <2>4. ContentInv'
      BY <2>1, <2>3 DEF NamesInv, ContentInv, Filling
    <2> QED BY <2>2, <2>3, <2>4 DEF NamesInv, CallInv, NamedInv
  <1>3. ASSUME NEW b \in Bases, NEW img \in Images, LoadImage(b, img) PROVE NamesInv'
    <2>1. mapped[b] = None /\ mapped' = [mapped EXCEPT ![b] = img] /\ pe' = pe
      BY <1>3 DEF LoadImage
    <2>2. ASSUME NEW v \in Threads PROVE CallOK(v)' /\ NamedOK(v)' /\ th'[v].pc = th[v].pc
      <3>1. CallOK(v) /\ NamedOK(v) /\ th[v] \in CallT
        BY DEF NamesInv, CallInv, NamedInv
      <3>2. CASE th[v].ip # b
        <4>1. th'[v] = th[v]
          BY <1>3, <3>2 DEF LoadImage
        <4>2. th[v].ip # None => mapped'[th[v].ip] = mapped[th[v].ip]
          BY <2>1, <3>1, <3>2 DEF CallT, Base
        <4> QED BY <3>1, <4>1, <4>2 DEF CallOK, NamedOK, Named
      <3>3. CASE th[v].ip = b
        <4>1. th'[v] = [th[v] EXCEPT !.seen = @ \cup {img}]
          BY <1>3, <3>3 DEF LoadImage
        <4>2. /\ th'[v].seen = th[v].seen \cup {img}
              /\ \A f \in {"pc", "ip", "module", "path", "sname", "src", "dbg", "then"} :
                    th'[v][f] = th[v][f]
          BY <3>1, <4>1 DEF CallT
        <4>3. None \in th[v].seen /\ th[v].module = None /\ b # None
          BY <2>1, <3>1, <3>3, ImageAssumption DEF CallOK
        <4>4. mapped'[b] = img
          BY <2>1
        <4>5. CallOK(v)'
          BY <3>1, <3>3, <4>2, <4>3, <4>4 DEF CallOK, InSection
        <4>6. NamedOK(v)'
          BY <4>2, <4>3, ImageAssumption DEF NamedOK
        <4> QED BY <4>2, <4>5, <4>6
      <3> QED BY <3>2, <3>3
    <2>3. ContentInv'
      <3>1. pe.mod # None => pe.mod # b /\ mapped'[pe.mod] = mapped[pe.mod]
        BY <2>1 DEF NamesInv, ContentInv, TableT, Base
      <3> QED BY <2>1, <2>2, <3>1 DEF NamesInv, ContentInv
    <2> QED BY <2>2, <2>3 DEF NamesInv, CallInv, NamedInv
  <1>4. ASSUME NEW b \in Bases PROVE ~UnloadImage(b)
    BY DEF UnloadImage
  <1> QED BY <1>1, <1>2, <1>3, <1>4 DEF Next

\* In a process that does not unload images the tables and the answers of
\* bw_win_resolve are those of what is mapped.
THEOREM NamesInvariance == ~MayUnload => (Spec => []NamesInv)
  <1> SUFFICES ASSUME ~MayUnload PROVE Spec => []NamesInv
    OBVIOUS
  <1>1. SafeInv /\ NamesInv /\ [Next]_vars => NamesInv'
    <2> SUFFICES ASSUME SafeInv, NamesInv, [Next]_vars PROVE NamesInv'
      OBVIOUS
    <2>1. CASE UNCHANGED vars
      BY <2>1 DEF vars, NamesInv, CallInv, CallOK, ContentInv, NamedInv, NamedOK, Named
    <2> QED BY <2>1, NamesStep
  <1> QED BY InitNames, <1>1, Safety, PTL DEF Spec

\* Without unloading, no answer names an image that was not mapped at the
\* address during the call, although the file is read after the module is
\* looked up and the tables are shared.
THEOREM NeverStale == ~MayUnload => (Spec => []NamesCurrent)
  <1> SUFFICES ASSUME ~MayUnload PROVE Spec => []NamesCurrent
    OBVIOUS
  <1>1. NamesInv => NamesCurrent
    BY DEF NamesInv, CallInv, CallOK, NamesCurrent
  <1> QED BY <1>1, NamesInvariance, PTL

\* Without unloading, the single-entry tables cost no thread the name of an
\* image that has one, whoever else loads other tables meanwhile.
THEOREM NeverUnnamed == ~MayUnload => (Spec => []KnownNamed)
  <1> SUFFICES ASSUME ~MayUnload PROVE Spec => []KnownNamed
    OBVIOUS
  <1>1. NamesInv => KnownNamed
    BY DEF NamesInv, NamedInv, NamedOK, Named, KnownNamed
  <1> QED BY <1>1, NamesInvariance, PTL
=============================================================================
