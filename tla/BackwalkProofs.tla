--------------------------- MODULE BackwalkProofs ---------------------------
(***************************************************************************)
(* Proofs about Backwalk for every architecture, every memory and every    *)
(* depth: one inductive invariant, Inv, from which the safety properties   *)
(* that the runs check on small instances follow; and the refinement of    *)
(* Recorder, for stacks whose frame-pointer chains end.  SortedTableProofs *)
(* gives induction over the natural numbers.                               *)
(***************************************************************************)
EXTENDS BackwalkRecorder, SortedTableProofs

\* The blocks on the heap, inside mkbw_context too.
HeapInv ==
    /\ heap = (IF bw.live THEN 2 ELSE 0) + (IF pc = "make" THEN 1 ELSE 0)
    /\ pc = "make" => ~bw.live
    /\ pc \in {"collect", "process"} => bw.live
    /\ bw.live => bw.ip_max_cnt < MaxTrace

\* Whatever a walk has reported or stepped to passed the checks on next_ip.
ValidInv ==
    /\ StoredInitialised
    /\ FramesValid
    /\ \A k \in 1 .. Len(trace) : trace[k] \in UserAddr

\* Inside collect the first i elements are the frames walked so far, and
\* ip_cnt follows i from the first stored frame on.
CollectInv ==
    pc = "collect" =>
        /\ Len(trace) = i
        /\ i <= bw.ip_max_cnt
        /\ i > 0 => bw.ip_cnt = i
        /\ \A k \in 1 .. i : bw.ip[k] = trace[k]

\* Inside process the first i elements have been given to the callback, which
\* has refused none.
ProcessInv ==
    pc = "process" =>
        /\ Len(out) = i
        /\ i <= bw.ip_cnt
        /\ \A k \in 1 .. i : out[k] = bw.ip[k]
        /\ Len(said) = i
        /\ \A k \in 1 .. i : said[k]

Inv == TypeOK /\ HeapInv /\ ValidInv /\ CollectInv /\ ProcessInv
           /\ CollectVerdict /\ ProcessReplays

-----------------------------------------------------------------------------
\* An unwinding step that succeeds leaves words in the context, and a user
\* address as the return address.
LEMMA StepValid ==
    ASSUME NEW m \in [Cell -> Word], NEW c \in ContextT, StepOk(m, c)
    PROVE  /\ context_step(m, c) \in ContextT
           /\ context_get_ip(context_step(m, c)) \in UserAddr
  <1>1. UserAddr \subseteq Word
    BY WordAssumption, RangeAssumption DEF UserAddr, Word
  <1>2. NextFp(m, c) \in UserAddr /\ NextIp(m, c) \in UserAddr
    BY DEF StepOk, NextFpOk, NextIpOk
  <1> QED BY <1>1, <1>2 DEF context_step, context_get_ip, ContextT

\* Recording keeps a sequence of user addresses one, and appends while
\* there is room.
LEMMA RecordProperties ==
    ASSUME NEW h \in Seq(Word), NEW x \in UserAddr,
           \A k \in 1 .. Len(h) : h[k] \in UserAddr
    PROVE  /\ Record(h, x) \in Seq(Word)
           /\ \A k \in 1 .. Len(Record(h, x)) : Record(h, x)[k] \in UserAddr
           /\ Len(h) < MaxTrace =>
                 /\ Len(Record(h, x)) = Len(h) + 1
                 /\ Record(h, x)[Len(h) + 1] = x
                 /\ \A k \in 1 .. Len(h) : Record(h, x)[k] = h[k]
  <1>1. x \in Word
    BY WordAssumption, RangeAssumption DEF UserAddr, Word
  <1>2. CASE Len(h) < MaxTrace
    BY <1>1, <1>2 DEF Record
  <1>3. CASE ~(Len(h) < MaxTrace)
    BY <1>3 DEF Record
  <1> QED BY <1>2, <1>3

\* So is the history of the callback's answers.
LEMMA SaidProperties ==
    ASSUME NEW h \in Seq(BOOLEAN), NEW keep \in BOOLEAN
    PROVE  /\ Record(h, keep) \in Seq(BOOLEAN)
           /\ Len(h) < MaxTrace =>
                 /\ Len(Record(h, keep)) = Len(h) + 1
                 /\ Record(h, keep)[Len(h) + 1] = keep
                 /\ \A k \in 1 .. Len(h) : Record(h, keep)[k] = h[k]
  <1>1. CASE Len(h) < MaxTrace
    <2>1. Record(h, keep) = Append(h, keep)
      BY <1>1 DEF Record
    <2>2. /\ Append(h, keep) \in Seq(BOOLEAN) /\ Len(Append(h, keep)) = Len(h) + 1
          /\ Append(h, keep)[Len(h) + 1] = keep
          /\ \A k \in 1 .. Len(h) : Append(h, keep)[k] = h[k]
      OBVIOUS
    <2> QED BY <2>1, <2>2
  <1>2. CASE ~(Len(h) < MaxTrace)
    BY <1>2 DEF Record
  <1> QED BY <1>1, <1>2

\* The snapshot and the context that no walk uses are well-typed.
LEMMA Blank == NoStack \in [Cell -> Word] /\ NoWalk \in ContextT
  BY WordAssumption DEF NoStack, NoWalk, Word, ContextT

\* User addresses are words.
LEMMA UserAddrIsWord == UserAddr \subseteq Word
  BY WordAssumption, RangeAssumption DEF UserAddr, Word

\* The records that calls return are results.
LEMMA Results ==
    /\ [call |-> "backtrace", ret |-> TRUE] \in ResultT
    /\ [call |-> "backtrace", ret |-> FALSE] \in ResultT
    /\ [call |-> "collect", ret |-> TRUE] \in ResultT
    /\ [call |-> "collect", ret |-> FALSE] \in ResultT
    /\ [call |-> "process", ret |-> TRUE] \in ResultT
    /\ [call |-> "process", ret |-> FALSE] \in ResultT
    /\ [call |-> "make", ret |-> TRUE] \in ResultT
    /\ [call |-> "make", ret |-> FALSE] \in ResultT
    /\ [call |-> "fini", ret |-> TRUE] \in ResultT
  BY DEF ResultT

\* A fresh bw_context is well typed.
LEMMA NewContextType ==
    ASSUME NEW d \in Nat
    PROVE  /\ NewContext(d) \in [live : BOOLEAN, ip : Seq(Word \cup {Junk}),
                                 ip_cnt : Nat, ip_max_cnt : Nat]
           /\ Len(NewContext(d).ip) = d
  <1> DEFINE js == [k \in 1 .. d |-> Junk]
  <1>1. js \in Seq({Junk}) /\ Len(js) = d
    OBVIOUS
  <1>2. js \in Seq(Word \cup {Junk})
    BY <1>1
  <1> QED BY <1>1, <1>2 DEF NewContext

-----------------------------------------------------------------------------
\* Init establishes the invariant.
LEMMA InitInv == Init => Inv
  <1> SUFFICES ASSUME Init PROVE Inv
    OBVIOUS
  <1>1. TypeOK
    BY Blank DEF Init, TypeOK, NoContext, ResultT
  <1>2. HeapInv /\ ValidInv /\ CollectInv /\ ProcessInv
    BY DEF Init, HeapInv, ValidInv, CollectInv, ProcessInv, NoContext,
           StoredInitialised, FramesValid
  <1>3. CollectVerdict /\ ProcessReplays
    BY DEF Init, CollectVerdict, ProcessReplays
  <1> QED BY <1>1, <1>2, <1>3 DEF Inv

\* The calls that start a walk.
LEMMA StartStep ==
    ASSUME Inv, NEW m \in Memories, NEW a \in Starts,
           CallBacktrace(m, a) \/ CallCollect(m, a)
    PROVE  Inv'
  <1>1. PICK w \in Residues : ctx' = [fp |-> a, ip |-> w]
    BY DEF CallBacktrace, CallCollect, context_init
  <1>2. ctx' \in ContextT /\ mem' \in [Cell -> Word]
    BY <1>1, StackAssumption DEF CallBacktrace, CallCollect, context_init, ContextT
  <1>3. /\ out' = <<>> /\ said' = <<>> /\ trace' = <<>> /\ UNCHANGED <<bw, heap, res>>
        /\ pc = "idle" /\ pc' \in {"backtrace", "collect"} /\ i' \in {0, i}
        /\ pc' = "collect" => bw.live /\ i' = 0
    BY DEF CallBacktrace, CallCollect
  <1>4. TypeOK'
    BY <1>2, <1>3 DEF Inv, TypeOK
  <1>5. HeapInv'
    BY <1>3 DEF Inv, HeapInv
  <1>6. ValidInv'
    BY <1>3 DEF Inv, ValidInv, StoredInitialised, FramesValid
  <1>7. CollectInv' /\ ProcessInv'
    BY <1>3 DEF Inv, CollectInv, ProcessInv, TypeOK
  <1>8. CollectVerdict' /\ ProcessReplays'
    BY <1>3 DEF CollectVerdict, ProcessReplays
  <1> QED BY <1>4, <1>5, <1>6, <1>7, <1>8 DEF Inv

\* bw_backtrace: a frame, or the end of the chain.
LEMMA BacktraceStep ==
    ASSUME Inv, (\E keep \in BOOLEAN : BacktraceFrame(keep)) \/ BacktraceEnd
    PROVE  Inv'
  <1>1. pc = "backtrace" /\ pc' \in {"backtrace", "idle"} /\ UNCHANGED <<bw, heap, trace>>
    BY DEF BacktraceFrame, BacktraceEnd, Return
  <1>2. pc' = "idle" => res'.call = "backtrace"
    BY DEF BacktraceFrame, BacktraceEnd, Return, Inv, TypeOK
  <1>3. /\ ctx' \in ContextT /\ mem' \in [Cell -> Word] /\ i' \in Nat
        /\ res' \in ResultT
    <2>1. CASE BacktraceEnd
      BY <2>1, Blank, Results DEF BacktraceEnd, Return
    <2>2. ASSUME NEW keep \in BOOLEAN, BacktraceFrame(keep), keep PROVE <1>3!:
      BY <2>2, StepValid DEF BacktraceFrame, Inv, TypeOK
    <2>3. ASSUME NEW keep \in BOOLEAN, BacktraceFrame(keep), ~keep PROVE <1>3!:
      <3>1. Return("backtrace", FALSE)
        BY <2>3, Zenon DEF BacktraceFrame
      <3> QED BY <3>1, Blank, Results DEF Return
    <2> QED BY <2>1, <2>2, <2>3
  <1>4. out' \in Seq(Word) /\ FramesValid'
    <2>1. CASE out' = out
      BY <2>1 DEF Inv, TypeOK, ValidInv, FramesValid
    <2>2. CASE StepOk(mem, ctx)
               /\ out' = Record(out, context_get_ip(context_step(mem, ctx)))
      <3> DEFINE x == context_get_ip(context_step(mem, ctx))
      <3>1. x \in UserAddr /\ x \in Word /\ out \in Seq(Word)
        BY <2>2, StepValid, UserAddrIsWord DEF Inv, TypeOK
      <3> HIDE DEF x
      <3>2. out' = Record(out, x)
        BY <2>2 DEF x
      <3>3. \A k \in 1 .. Len(out) : out[k] \in UserAddr
        BY DEF Inv, ValidInv, FramesValid
      <3> QED BY <3>1, <3>2, <3>3, RecordProperties DEF FramesValid
    <2> QED BY <2>1, <2>2 DEF BacktraceFrame, BacktraceEnd
  <1>9. said' \in Seq(BOOLEAN)
    <2>1. said \in Seq(BOOLEAN)
      BY DEF Inv, TypeOK
    <2> QED BY <2>1, SaidProperties DEF BacktraceFrame, BacktraceEnd
  <1>5. TypeOK'
    BY <1>1, <1>3, <1>4, <1>9 DEF Inv, TypeOK
  <1>6. HeapInv' /\ ValidInv'
    BY <1>1, <1>4 DEF Inv, HeapInv, ValidInv, StoredInitialised
  <1>7. CollectInv' /\ ProcessInv'
    BY <1>1 DEF CollectInv, ProcessInv
  <1>8. CollectVerdict' /\ ProcessReplays'
    BY <1>1, <1>2 DEF CollectVerdict, ProcessReplays
  <1> QED BY <1>5, <1>6, <1>7, <1>8 DEF Inv

\* mkbw_context and bw_context_fini.
LEMMA LifecycleStep ==
    ASSUME Inv,
           \/ MakeHeader \/ MakeArrayFails \/ bw_context_fini
           \/ \E depth \in Depths : MakeArray(depth)
    PROVE  Inv'
  <1> USE DEF Inv
  <1>1. CASE MakeHeader
    <2>1. TypeOK'
      <3>1. CASE pc' = "make" /\ heap' = heap + 1 /\ UNCHANGED res
        BY <1>1, <3>1 DEF MakeHeader, TypeOK
      <3>2. CASE res' = [call |-> "make", ret |-> FALSE] /\ UNCHANGED <<pc, heap>>
        BY <1>1, <3>2, Results DEF MakeHeader, TypeOK
      <3> QED BY <1>1, <3>1, <3>2 DEF MakeHeader
    <2>2. HeapInv' /\ ValidInv'
      BY <1>1 DEF MakeHeader, TypeOK, HeapInv, ValidInv, StoredInitialised, FramesValid
    <2>3. CollectInv' /\ ProcessInv' /\ CollectVerdict' /\ ProcessReplays'
      BY <1>1 DEF MakeHeader, CollectInv, ProcessInv, CollectVerdict, ProcessReplays,
                  Stored, First
    <2> QED BY <2>1, <2>2, <2>3
  <1>2. CASE MakeArrayFails
    BY <1>2, Results DEF MakeArrayFails, Freed, TypeOK, HeapInv, ValidInv, CollectInv, ProcessInv,
       CollectVerdict, ProcessReplays, StoredInitialised, FramesValid
  <1>3. CASE bw_context_fini
    BY <1>3, Results DEF bw_context_fini, TypeOK, HeapInv, ValidInv, CollectInv, ProcessInv,
       CollectVerdict, ProcessReplays, StoredInitialised, FramesValid, NoContext
  <1>4. ASSUME NEW depth \in Depths, MakeArray(depth) PROVE Inv'
    <2>1. depth \in Nat /\ depth < MaxTrace
      BY DepthAssumption
    <2>2. TypeOK'
      BY <1>4, <2>1, NewContextType, Results DEF MakeArray, TypeOK, HeapInv, NewContext
    <2>3. HeapInv' /\ ValidInv'
      BY <1>4, <2>1 DEF MakeArray, TypeOK, HeapInv, ValidInv, StoredInitialised,
         FramesValid, NewContext
    <2>4. CollectInv' /\ ProcessInv' /\ CollectVerdict' /\ ProcessReplays'
      BY <1>4 DEF MakeArray, CollectInv, ProcessInv, CollectVerdict, ProcessReplays
    <2> QED BY <2>2, <2>3, <2>4
  <1> QED BY <1>1, <1>2, <1>3, <1>4

\* bw_backtrace_collect stores a frame: the element is written before
\* ip_cnt covers it.
LEMMA CollectFrameStep ==
    ASSUME Inv, CollectFrame
    PROVE  Inv'
  <1> DEFINE c == context_step(mem, ctx)
             x == context_get_ip(c)
  <1>1. /\ pc = "collect" /\ i < bw.ip_max_cnt /\ ctx' = c
        /\ bw' = [bw EXCEPT !.ip[i + 1] = x, !.ip_cnt = i + 1]
        /\ trace' = Record(trace, x) /\ i' = i + 1
        /\ UNCHANGED <<pc, mem, heap, out, said, res>>
    BY DEF CollectFrame, ArrayFull, Taken, StoredCount, Inv, TypeOK
  <1>2. c \in ContextT /\ x \in UserAddr /\ x \in Word
    BY StepValid, UserAddrIsWord DEF CollectFrame, ArrayFull, Taken, Inv, TypeOK
  <1> HIDE DEF c, x
  <1>3. /\ bw \in [live : BOOLEAN, ip : Seq(Word \cup {Junk}),
                   ip_cnt : Nat, ip_max_cnt : Nat]
        /\ Len(bw.ip) = bw.ip_max_cnt /\ i \in Nat
        /\ trace \in Seq(Word) /\ Len(trace) = i
        /\ bw.live /\ bw.ip_max_cnt < MaxTrace /\ MaxTrace \in Nat
    BY <1>1, DepthAssumption DEF Inv, TypeOK, CollectInv, HeapInv
  <1>4. /\ bw'.ip = [bw.ip EXCEPT ![i + 1] = x]
        /\ bw'.ip_cnt = i + 1 /\ bw'.ip_max_cnt = bw.ip_max_cnt /\ bw'.live = bw.live
        /\ bw' \in [live : BOOLEAN, ip : Seq(Word \cup {Junk}),
                    ip_cnt : Nat, ip_max_cnt : Nat]
        /\ Len(bw'.ip) = bw.ip_max_cnt
    <2> DEFINE s == bw.ip
               t == [s EXCEPT ![i + 1] = x]
    <2>1. s \in Seq(Word \cup {Junk}) /\ i + 1 \in 1 .. Len(s)
      BY <1>1, <1>3
    <2> HIDE DEF s
    <2>2. t \in Seq(Word \cup {Junk}) /\ Len(t) = Len(s)
      BY <2>1, <1>2
    <2>3. bw' = [bw EXCEPT !.ip = t, !.ip_cnt = i + 1]
      BY <1>1, <1>3 DEF s
    <2> HIDE DEF t
    <2>4. /\ bw'.ip = t /\ bw'.ip_cnt = i + 1 /\ bw'.ip_max_cnt = bw.ip_max_cnt
          /\ bw'.live = bw.live
          /\ bw' \in [live : BOOLEAN, ip : Seq(Word \cup {Junk}),
                      ip_cnt : Nat, ip_max_cnt : Nat]
      <3>1. i + 1 \in Nat /\ bw.ip_max_cnt \in Nat /\ bw.live \in BOOLEAN
        BY <1>3
      <3>2. bw = [live |-> bw.live, ip |-> bw.ip, ip_cnt |-> bw.ip_cnt,
                  ip_max_cnt |-> bw.ip_max_cnt]
        BY <1>3
      <3>3. bw' = [live |-> bw.live, ip |-> t, ip_cnt |-> i + 1,
                   ip_max_cnt |-> bw.ip_max_cnt]
        BY <2>3, <3>2
      <3> QED BY <2>2, <3>1, <3>3
    <2> QED BY <1>3, <2>2, <2>4 DEF s, t
  <1>5. /\ bw'.ip[i + 1] = x
        /\ \A k \in 1 .. i : bw'.ip[k] = bw.ip[k]
    BY <1>1, <1>3, <1>4
  <1>6. /\ trace' \in Seq(Word)
        /\ \A k \in 1 .. Len(trace') : trace'[k] \in UserAddr
        /\ Len(trace') = i + 1 /\ trace'[i + 1] = x
        /\ \A k \in 1 .. i : trace'[k] = trace[k]
    <2>1. \A k \in 1 .. Len(trace) : trace[k] \in UserAddr
      BY DEF Inv, ValidInv
    <2> QED BY <1>1, <1>2, <1>3, <2>1, RecordProperties
  <1>7. \A k \in 1 .. (i + 1) : bw'.ip[k] = trace'[k]
    <2>1. \A k \in 1 .. i : bw.ip[k] = trace[k]
      BY <1>1 DEF Inv, CollectInv
    <2> QED BY <1>3, <1>5, <1>6, <2>1
  <1>8. TypeOK'
    BY <1>1, <1>2, <1>3, <1>4, <1>6 DEF Inv, TypeOK
  <1>9. HeapInv'
    BY <1>1, <1>3, <1>4 DEF Inv, HeapInv
  <1>10. ValidInv'
    <2>1. StoredInitialised'
      BY <1>1, <1>3, <1>4, <1>6, <1>7 DEF StoredInitialised
    <2> QED BY <1>1, <1>6, <2>1 DEF Inv, ValidInv, FramesValid
  <1>11. CollectInv' /\ ProcessInv'
    BY <1>1, <1>3, <1>4, <1>6, <1>7 DEF CollectInv, ProcessInv
  <1>12. CollectVerdict' /\ ProcessReplays'
    BY <1>1 DEF CollectVerdict, ProcessReplays
  <1> QED BY <1>8, <1>9, <1>10, <1>11, <1>12 DEF Inv

\* bw_backtrace_collect returns, with the verdict that the array deserves.
LEMMA CollectReturnStep ==
    ASSUME Inv, CollectFull \/ CollectEnd
    PROVE  Inv'
  <1>1. /\ pc = "collect" /\ pc' = "idle" /\ mem' = NoStack /\ ctx' = NoWalk /\ i' = 0
        /\ UNCHANGED <<bw, heap, out, said>>
    BY DEF CollectFull, ArrayFull, CollectEnd, Return
  <1>2. /\ trace \in Seq(Word) /\ Len(trace) = i /\ i \in Nat /\ i <= bw.ip_max_cnt
        /\ i > 0 => bw.ip_cnt = i
        /\ \A k \in 1 .. i : bw.ip[k] = trace[k]
        /\ \A k \in 1 .. Len(trace) : trace[k] \in UserAddr
        /\ bw.ip_max_cnt \in Nat /\ bw.ip_cnt \in Nat /\ bw.ip_cnt <= bw.ip_max_cnt
        /\ bw.ip_max_cnt < MaxTrace /\ MaxTrace \in Nat
    BY <1>1, DepthAssumption DEF Inv, TypeOK, CollectInv, ValidInv, HeapInv, StoredInitialised
  <1>3. CASE CollectEnd
    <2>1. trace' = trace /\ res' = [call |-> "collect", ret |-> TRUE] /\ res' \in ResultT
      BY <1>3, Results DEF CollectEnd, Return
    <2>2. TypeOK'
      BY <1>1, <1>2, <2>1, Blank DEF Inv, TypeOK
    <2>3. HeapInv' /\ ValidInv'
      BY <1>1, <2>1 DEF Inv, HeapInv, ValidInv, StoredInitialised, FramesValid
    <2>4. trace # <<>> => [k \in 1 .. bw.ip_cnt |-> bw.ip[k]] = trace
      <3> SUFFICES ASSUME trace # <<>> PROVE [k \in 1 .. bw.ip_cnt |-> bw.ip[k]] = trace
        OBVIOUS
      <3>1. i > 0 /\ bw.ip_cnt = i
        BY <1>2
      <3>2. trace = [k \in 1 .. i |-> trace[k]]
        BY <1>2
      <3> QED BY <1>2, <3>1, <3>2
    <2>5. CollectVerdict'
      BY <1>1, <2>1, <2>4 DEF CollectVerdict, Stored, First
    <2>6. CollectInv' /\ ProcessInv' /\ ProcessReplays'
      BY <1>1, <2>1 DEF CollectInv, ProcessInv, ProcessReplays
    <2> QED BY <2>2, <2>3, <2>5, <2>6 DEF Inv
  <1>4. CASE CollectFull
    <2> DEFINE x == context_get_ip(context_step(mem, ctx))
    <2>1. /\ i >= bw.ip_max_cnt /\ trace' = Record(trace, x)
          /\ res' = [call |-> "collect", ret |-> FALSE] /\ res' \in ResultT
      BY <1>4, Results DEF CollectFull, ArrayFull, Return
    <2>2. x \in UserAddr
      BY <1>4, StepValid DEF CollectFull, ArrayFull, Inv, TypeOK
    <2> HIDE DEF x
    <2>3. /\ trace' \in Seq(Word) /\ Len(trace') = i + 1
          /\ \A k \in 1 .. i : trace'[k] = trace[k]
          /\ \A k \in 1 .. Len(trace') : trace'[k] \in UserAddr
      <3>1. Len(trace) < MaxTrace
        BY <1>2
      <3>2. /\ Record(trace, x) \in Seq(Word)
            /\ \A k \in 1 .. Len(Record(trace, x)) : Record(trace, x)[k] \in UserAddr
            /\ Len(Record(trace, x)) = Len(trace) + 1
            /\ \A k \in 1 .. Len(trace) : Record(trace, x)[k] = trace[k]
        BY <1>2, <2>2, <3>1, RecordProperties
      <3> QED BY <1>2, <2>1, <3>2
    <2>4. i = bw.ip_max_cnt
      BY <1>2, <2>1
    <2>5. TypeOK'
      BY <1>1, <2>1, <2>3, Blank DEF Inv, TypeOK
    <2>6. HeapInv' /\ ValidInv'
      BY <1>1, <2>3 DEF Inv, HeapInv, ValidInv, StoredInitialised, FramesValid
    <2>7. bw.ip_cnt = i
      BY <1>2, <2>4
    <2>8. [k \in 1 .. bw.ip_cnt |-> bw.ip[k]] = [k \in 1 .. bw.ip_max_cnt |-> trace'[k]]
      BY <1>2, <2>3, <2>4, <2>7
    <2>9. CollectVerdict'
      BY <1>1, <2>1, <2>3, <2>4, <2>8 DEF CollectVerdict, Stored, First
    <2>10. CollectInv' /\ ProcessInv' /\ ProcessReplays'
      BY <1>1, <2>1 DEF CollectInv, ProcessInv, ProcessReplays
    <2> QED BY <2>5, <2>6, <2>9, <2>10 DEF Inv
  <1> QED BY <1>3, <1>4

\* bw_backtrace_process: the call, a frame and the end.
LEMMA ProcessStep ==
    ASSUME Inv, \/ CallProcess \/ ProcessEnd
                \/ \E keep \in BOOLEAN : ProcessFrame(keep)
    PROVE  Inv'
  <1>1. CASE CallProcess
    <2>1. /\ out' = <<>> /\ said' = <<>> /\ trace' = <<>> /\ i' = 0 /\ pc' = "process" /\ bw.live
          /\ pc = "idle" /\ UNCHANGED <<mem, ctx, bw, heap, res>>
      BY <1>1 DEF CallProcess, FirstIndex
    <2>2. TypeOK' /\ HeapInv'
      BY <2>1 DEF Inv, TypeOK, HeapInv
    <2>3. ValidInv' /\ CollectInv' /\ ProcessInv'
      BY <2>1 DEF Inv, TypeOK, ValidInv, StoredInitialised, FramesValid, CollectInv, ProcessInv
    <2>4. CollectVerdict' /\ ProcessReplays'
      BY <2>1 DEF CollectVerdict, ProcessReplays
    <2> QED BY <2>2, <2>3, <2>4 DEF Inv
  <1>2. ASSUME pc = "process"
        PROVE  /\ out \in Seq(Word) /\ Len(out) = i /\ i \in Nat /\ i <= bw.ip_cnt
               /\ \A k \in 1 .. i : out[k] = bw.ip[k]
               /\ \A k \in 1 .. Len(out) : out[k] \in UserAddr
               /\ bw.ip_cnt \in Nat /\ bw.ip_max_cnt \in Nat
               /\ bw.ip_cnt <= bw.ip_max_cnt /\ bw.ip_max_cnt < MaxTrace /\ MaxTrace \in Nat
               /\ \A k \in 1 .. bw.ip_cnt : bw.ip[k] \in UserAddr
               /\ out = [k \in 1 .. i |-> out[k]]
               /\ said \in Seq(BOOLEAN) /\ Len(said) = i /\ \A k \in 1 .. i : said[k]
    BY <1>2, DepthAssumption
       DEF Inv, TypeOK, ProcessInv, ValidInv, FramesValid, HeapInv, StoredInitialised
  <1>3. CASE ProcessEnd
    <2>1. /\ pc = "process" /\ pc' = "idle" /\ i >= bw.ip_cnt /\ i' = 0
          /\ mem' = NoStack /\ ctx' = NoWalk /\ UNCHANGED <<bw, heap, out, said, trace>>
          /\ res' = [call |-> "process", ret |-> TRUE] /\ res' \in ResultT
      BY <1>3, Results DEF ProcessEnd, Return
    <2>2. TypeOK' /\ HeapInv'
      BY <2>1, Blank DEF Inv, TypeOK, HeapInv
    <2>3. ValidInv' /\ CollectInv' /\ ProcessInv' /\ CollectVerdict'
      BY <2>1 DEF Inv, ValidInv, StoredInitialised, FramesValid, CollectInv, ProcessInv,
                  CollectVerdict
    <2>4. i = bw.ip_cnt /\ [k \in 1 .. bw.ip_cnt |-> bw.ip[k]] = out
      BY <1>2, <2>1
    <2>5. ProcessReplays'
      BY <1>2, <2>1, <2>4 DEF ProcessReplays, Stored, First
    <2> QED BY <2>2, <2>3, <2>5 DEF Inv
  <1>4. ASSUME NEW keep \in BOOLEAN, ProcessFrame(keep) PROVE Inv'
    <2> DEFINE x == bw.ip[i + 1]
    <2>1. /\ pc = "process" /\ i < bw.ip_cnt /\ out' = Record(out, x)
          /\ UNCHANGED <<bw, heap, trace>>
      BY <1>4 DEF ProcessFrame
    <2>2. x \in UserAddr /\ Len(out) < MaxTrace
      BY <1>2, <2>1
    <2>3. /\ out' \in Seq(Word) /\ Len(out') = i + 1 /\ out'[i + 1] = x
          /\ \A k \in 1 .. i : out'[k] = out[k]
          /\ \A k \in 1 .. Len(out') : out'[k] \in UserAddr
      <3> HIDE DEF x
      <3>1. /\ Record(out, x) \in Seq(Word)
            /\ \A k \in 1 .. Len(Record(out, x)) : Record(out, x)[k] \in UserAddr
            /\ Len(Record(out, x)) = Len(out) + 1
            /\ Record(out, x)[Len(out) + 1] = x
            /\ \A k \in 1 .. Len(out) : Record(out, x)[k] = out[k]
        BY <1>2, <2>1, <2>2, RecordProperties
      <3> QED BY <1>2, <2>1, <3>1
    <2>4. \A k \in 1 .. (i + 1) : out'[k] = bw.ip[k]
      BY <1>2, <2>1, <2>3
    <2>7. /\ said' \in Seq(BOOLEAN) /\ Len(said') = i + 1 /\ said'[i + 1] = keep
          /\ \A k \in 1 .. i : said'[k] = said[k]
      <3>1. said' = Record(said, keep) /\ Len(said) < MaxTrace
        BY <1>2, <1>4, <2>1 DEF ProcessFrame
      <3> QED BY <1>2, <2>1, <3>1, SaidProperties
    <2>5. CASE keep
      <3>1. i' = i + 1 /\ UNCHANGED <<pc, mem, ctx, res>>
        BY <1>4, <2>5, Zenon DEF ProcessFrame
      <3>2. TypeOK' /\ HeapInv'
        BY <1>2, <2>1, <2>3, <2>7, <3>1 DEF Inv, TypeOK, HeapInv
      <3>3. ValidInv' /\ CollectInv'
        BY <2>1, <2>3, <3>1 DEF Inv, ValidInv, StoredInitialised, FramesValid, CollectInv
      <3>6. \A k \in 1 .. (i + 1) : said'[k]
        <4>1. \A k \in 1 .. (i + 1) : k = i + 1 \/ k \in 1 .. i
          BY <1>2, <2>1
        <4> QED BY <1>2, <2>1, <2>5, <2>7, <4>1
      <3>4. ProcessInv'
        BY <1>2, <2>1, <2>3, <2>4, <2>7, <3>1, <3>6 DEF ProcessInv
      <3>5. CollectVerdict' /\ ProcessReplays'
        BY <2>1, <3>1 DEF CollectVerdict, ProcessReplays
      <3> QED BY <3>2, <3>3, <3>4, <3>5 DEF Inv
    <2>6. CASE ~keep
      <3>1. Return("process", FALSE)
        BY <1>4, <2>6, Zenon DEF ProcessFrame
      <3>2. /\ pc' = "idle" /\ i' = 0 /\ mem' = NoStack /\ ctx' = NoWalk
            /\ res' = [call |-> "process", ret |-> FALSE] /\ res' \in ResultT
        BY <3>1, Results DEF Return
      <3>3. TypeOK' /\ HeapInv'
        BY <2>1, <2>3, <2>7, <3>2, Blank DEF Inv, TypeOK, HeapInv
      <3>4. ValidInv' /\ CollectInv' /\ ProcessInv' /\ CollectVerdict'
        BY <2>1, <2>3, <3>2 DEF Inv, ValidInv, StoredInitialised, FramesValid, CollectInv,
                  ProcessInv, CollectVerdict
      <3>5. out' = [k \in 1 .. Len(out') |-> bw.ip[k]]
        <4>1. out' = [k \in 1 .. Len(out') |-> out'[k]]
          BY <2>3
        <4> QED BY <2>3, <2>4, <4>1
      <3>7. /\ Len(said') - 1 = i /\ Len(said') > 0 /\ ~said'[Len(said')]
            /\ \A k \in 1 .. i : said'[k]
        <4>1. Len(said') = i + 1 /\ said'[i + 1] = FALSE
          BY <2>6, <2>7
        <4> QED BY <1>2, <2>1, <2>7, <4>1
      <3>6. ProcessReplays'
        BY <1>2, <2>1, <2>3, <2>7, <3>2, <3>5, <3>7 DEF ProcessReplays, First
      <3> QED BY <3>3, <3>4, <3>6 DEF Inv
    <2> QED BY <2>5, <2>6
  <1> QED BY <1>1, <1>3, <1>4

\* Nothing happens.
LEMMA StutterStep == ASSUME Inv, UNCHANGED vars PROVE Inv'
  BY DEF vars, Inv, TypeOK, HeapInv, ValidInv, StoredInitialised, FramesValid, CollectInv,
         ProcessInv, CollectVerdict, ProcessReplays, Stored, First

-----------------------------------------------------------------------------
\* The invariant holds in every state that any sequence of calls reaches.
THEOREM Invariance == Spec => []Inv
  <1>1. Inv /\ [Next]_vars => Inv'
    <2> SUFFICES ASSUME Inv, [Next]_vars PROVE Inv'
      OBVIOUS
    <2> QED BY StartStep, BacktraceStep, LifecycleStep, CollectFrameStep, CollectReturnStep,
               ProcessStep, StutterStep DEF Next, Call, Proceed, Refuse
  <1> QED BY InitInv, <1>1, PTL DEF Spec

\* Types are respected.
THEOREM TypeCorrect == Spec => []TypeOK
  BY Invariance, PTL DEF Inv

\* No uninitialised element of the array is ever below ip_cnt, whatever was
\* collected into the context before.
THEOREM StoredCorrect == Spec => []StoredInitialised
  <1>1. Inv => StoredInitialised
    BY DEF Inv, ValidInv
  <1> QED BY Invariance, <1>1, PTL

\* Only user addresses reach the callback.
THEOREM FramesCorrect == Spec => []FramesValid
  <1>1. Inv => FramesValid
    BY DEF Inv, ValidInv
  <1> QED BY Invariance, <1>1, PTL

\* The answer of bw_backtrace_collect says whether the stack fitted.
THEOREM CollectCorrect == Spec => []CollectVerdict
  <1>1. Inv => CollectVerdict
    BY DEF Inv
  <1> QED BY Invariance, <1>1, PTL

\* bw_backtrace_process replays what is stored up to the first refusal, and
\* its answer says whether there was one.
THEOREM ProcessCorrect == Spec => []ProcessReplays
  <1>1. Inv => ProcessReplays
    BY DEF Inv
  <1> QED BY Invariance, <1>1, PTL

\* No block is leaked or freed twice.
THEOREM HeapCorrect == Spec => []HeapBalanced
  <1>1. Inv => HeapBalanced
    BY DEF Inv, HeapInv, HeapBalanced
  <1> QED BY Invariance, <1>1, PTL

-----------------------------------------------------------------------------
(* Division *)

\* A number is its quotient times the divisor, and its remainder.
LEMMA Division ==
    ASSUME NEW w \in Nat, NEW d \in Nat \ {0}
    PROVE  w \div d \in Nat /\ w % d \in 0 .. (d - 1) /\ w = d * (w \div d) + (w % d)
  OBVIOUS

\* Multiples of d are at least d apart.
LEMMA Multiples ==
    ASSUME NEW d \in Nat \ {0}, NEW a \in Int, NEW b \in Int, a < b
    PROVE  d * a + d <= d * b
  <1>1. b - a - 1 \in Nat /\ b = a + 1 + (b - a - 1)
    OBVIOUS
  <1>2. PICK k \in Nat : b = a + 1 + k
    BY <1>1
  <1>3. d * b = d * a + d + d * k
    BY <1>2
  <1>4. d * k \in Nat
    OBVIOUS
  <1> QED BY <1>3, <1>4

\* Quotient and remainder are unique.
LEMMA DivisionUnique ==
    ASSUME NEW w \in Nat, NEW d \in Nat \ {0}, NEW r \in 0 .. (d - 1), NEW q \in Nat, w = r + d * q
    PROVE  w % d = r /\ w \div d = q
  <1> DEFINE k == w \div d
             s == w % d
  <1>1. k \in Nat /\ s \in 0 .. (d - 1) /\ w = d * k + s
    BY Division
  <1> HIDE DEF k, s
  <1>2. ~(k < q)
    <2> SUFFICES ASSUME k < q PROVE FALSE
      OBVIOUS
    <2>1. d * k + d <= d * q
      BY <1>1, Multiples
    <2> QED BY <1>1, <2>1
  <1>3. ~(q < k)
    <2> SUFFICES ASSUME q < k PROVE FALSE
      OBVIOUS
    <2>1. d * q + d <= d * k
      BY <1>1, Multiples
    <2> QED BY <1>1, <2>1
  <1>4. q = k
    BY <1>1, <1>2, <1>3
  <1> QED BY <1>1, <1>4 DEF k, s

\* A quotient is not above the number.
LEMMA QuotientBelow ==
    ASSUME NEW w \in Nat, NEW d \in Nat \ {0}
    PROVE  w \div d \in Nat /\ w \div d <= w
  <1> DEFINE q == w \div d
             s == w % d
  <1>1. q \in Nat /\ s \in 0 .. (d - 1) /\ w = d * q + s
    BY Division
  <1> HIDE DEF q, s
  <1>2. d * q >= q
    BY <1>1
  <1> QED BY <1>1, <1>2 DEF q

-----------------------------------------------------------------------------
(* The frame chain *)

\* Stripping the authentication code gives the address that the stored word
\* stands for, if it stands for a user address.
LEMMA StripDenotes ==
    ASSUME NEW v \in Word, NEW p \in UserAddr
    PROVE  Denotes(v, p) <=> p = (IF HasPac THEN bw_strip_pac(v) ELSE v)
  <1>1. CASE ~HasPac
    BY <1>1 DEF Denotes
  <1>2. CASE HasPac
    <2> DEFINE d == v \div SelectBit
               q == v \div VaSize
               r == v % VaSize
    <2>1. /\ v \in Nat /\ v < WordRange /\ p \in Nat /\ p <= MaxAddr /\ VaSize \in Nat \ {0}
          /\ SelectBit \in Nat \ {0} /\ WordRange \in Nat \ {0} /\ MaxAddr < WordRange - VaSize
          /\ MaxAddr \in Nat /\ VaSize <= WordRange
      BY <1>2, WordAssumption, RangeAssumption, ArchAssumption DEF Word, UserAddr
    <2>2. d \in Nat /\ d <= v /\ q \in Nat /\ r \in 0 .. (VaSize - 1) /\ v = VaSize * q + r
      BY <2>1, QuotientBelow, Division
    <2>3. q \in 0 .. (WordRange \div VaSize)
      <3> DEFINE Q == WordRange \div VaSize
                 T == WordRange % VaSize
      <3>1. Q \in Nat /\ T \in 0 .. (VaSize - 1) /\ WordRange = VaSize * Q + T
        BY <2>1, Division
      <3> HIDE DEF Q, T, q, r
      <3>2. ~(Q < q)
        <4> SUFFICES ASSUME Q < q PROVE FALSE
          OBVIOUS
        <4>1. VaSize * Q + VaSize <= VaSize * q
          BY <2>1, <2>2, <3>1, Multiples
        <4> QED BY <2>1, <2>2, <3>1, <4>1
      <3>3. q \in 0 .. Q
        BY <2>2, <3>1, <3>2
      <3> QED BY <3>3 DEF Q
    <2>4. (d % 2 = 0) <=> ~\E k \in 0 .. WordRange : d = 2 * k + 1
      <3> HIDE DEF d
      <3>1. CASE d % 2 = 0
        BY <2>2, <3>1
      <3>2. CASE d % 2 = 1
        <4>1. (d - 1) \div 2 \in 0 .. WordRange /\ d = 2 * ((d - 1) \div 2) + 1
          BY <2>1, <2>2, <3>2
        <4> QED BY <3>2, <4>1
      <3> QED BY <2>2, <3>1, <3>2
    <2>5. bw_strip_pac(v) = IF d % 2 = 0 THEN r ELSE (WordRange - VaSize) + r
      BY DEF bw_strip_pac
    <2>6. Denotes(v, p) <=> /\ p < VaSize
                            /\ \E pac \in 0 .. (WordRange \div VaSize) : v = p + pac * VaSize
                            /\ ~\E k \in 0 .. WordRange : d = 2 * k + 1
      BY <1>2 DEF Denotes
    <2> HIDE DEF d
    <2>7. ASSUME Denotes(v, p) PROVE p = bw_strip_pac(v)
      <3>1. PICK pac \in 0 .. (WordRange \div VaSize) : v = p + pac * VaSize
        BY <2>6, <2>7
      <3>2. pac \in Nat /\ p \in 0 .. (VaSize - 1)
        BY <2>1, <2>6, <2>7, QuotientBelow
      <3>3. v = p + VaSize * pac
        BY <2>1, <3>1, <3>2
      <3>4. r = p
        BY <2>1, <3>2, <3>3, DivisionUnique
      <3> QED BY <2>4, <2>5, <2>6, <2>7, <3>4
    <2>8. ASSUME p = bw_strip_pac(v) PROVE Denotes(v, p)
      <3>1. d % 2 = 0 /\ p = r
        BY <2>1, <2>2, <2>5, <2>8
      <3>2. v = p + q * VaSize /\ p < VaSize
        BY <2>1, <2>2, <3>1
      <3> QED BY <2>3, <2>4, <2>6, <3>1, <3>2
    <2> QED BY <1>2, <2>7, <2>8
  <1> QED BY <1>1, <1>2

\* Frames goes on exactly where context_step does, and to the same place.
LEMMA ChainStep ==
    ASSUME NEW m \in [Cell -> Word], NEW c \in ContextT
    PROVE  /\ HasCaller(m, c.fp) <=> StepOk(m, c)
           /\ StepOk(m, c) =>
                 /\ FrameAt(m, c.fp)[1] = NextFp(m, c)
                 /\ (CHOOSE p \in UserAddr : Denotes(FrameAt(m, c.fp)[2], p)) = NextIp(m, c)
  <1> DEFINE a == c.fp
             v == FrameAt(m, a)[2]
  <1>1. a \in Nat /\ a < WordRange /\ WordRange \in Nat /\ WordSize \in {2, 4, 8}
    BY WordAssumption DEF ContextT, Word
  <1>2. (\E q \in 0 .. WordRange : a = q * WordSize) <=> a % WordSize = 0
    <2> HIDE DEF a
    <2>1. CASE WordSize = 2
      <3>1. a % 2 = 0 => a \div 2 \in 0 .. WordRange /\ a = (a \div 2) * 2
        BY <1>1
      <3> QED BY <1>1, <2>1, <3>1
    <2>2. CASE WordSize = 4
      <3>1. a % 4 = 0 => a \div 4 \in 0 .. WordRange /\ a = (a \div 4) * 4
        BY <1>1
      <3> QED BY <1>1, <2>2, <3>1
    <2>3. CASE WordSize = 8
      <3>1. a % 8 = 0 => a \div 8 \in 0 .. WordRange /\ a = (a \div 8) * 8
        BY <1>1
      <3> QED BY <1>1, <2>3, <3>1
    <2> QED BY <1>1, <2>1, <2>2, <2>3
  <1>3. FrameAt(m, a)[1] = NextFp(m, c) /\ v = m[Base(a) + WordSize]
    <2>1. CASE FpOffset = 0
      <3>1. Base(a) = a
        BY <1>1, <2>1 DEF Base
      <3> QED BY <2>1, <3>1 DEF FrameAt, NextFp
    <2>2. CASE FpOffset = -1
      <3>1. Base(a) = a - WordSize /\ Base(a) + WordSize = a
        BY <1>1, <2>2 DEF Base
      <3> QED BY <2>2, <3>1 DEF FrameAt, NextFp
    <2> QED BY <2>1, <2>2, ArchAssumption
  <1>4. v \in Word
    <2>1. Base(a) + WordSize \in Cell
      BY <1>1, ArchAssumption DEF Base, Cell
    <2> QED BY <1>3, <2>1
  <1>5. NextIp(m, c) = IF HasPac THEN bw_strip_pac(v) ELSE v
    BY <1>3 DEF NextIp
  <1>6. \A p \in UserAddr : Denotes(v, p) <=> p = NextIp(m, c)
    BY <1>4, <1>5, StripDenotes
  <1> HIDE DEF v
  <1>7. HasCaller(m, a) <=> StepOk(m, c)
    <2>1. (\E p \in UserAddr : Denotes(v, p)) <=> NextIp(m, c) \in UserAddr
      BY <1>6
    <2>2. NextFp(m, c) \in UserAddr \ {a} <=> NextFpOk(m, c)
      BY DEF NextFpOk
    <2> QED BY <1>2, <1>3, <2>1, <2>2 DEF HasCaller, StepOk, FpOk, NextIpOk, v
  <1>8. ASSUME StepOk(m, c) PROVE (CHOOSE p \in UserAddr : Denotes(v, p)) = NextIp(m, c)
    <2>1. NextIp(m, c) \in UserAddr
      BY <1>8 DEF StepOk, NextIpOk
    <2> QED BY <1>6, <2>1
  <1> QED BY <1>3, <1>7, <1>8 DEF v

-----------------------------------------------------------------------------
(* The chain is a sequence of user addresses, if it ends *)

\* Every chain ends, within the length of the histories.
ChainsEnd ==
    \A m \in Memories : \E r \in [Word -> 0 .. MaxTrace] : CountsDown(m, r)

\* Where the caller's frame is, and where the callee returns to.
Outer(m, x) == FrameAt(m, x)[1]

Site(m, x) == CHOOSE p \in UserAddr : Denotes(FrameAt(m, x)[2], p)

\* One frame, as a function of where the frame is and of the rest.
Link(m, g) ==
    [x \in Word |-> IF HasCaller(m, x) THEN <<Site(m, x)>> \o g[Outer(m, x)] ELSE <<>>]

\* What a link holds, with a caller and without.
LEMMA LinkIs ==
    ASSUME NEW m, NEW g, NEW x \in Word
    PROVE  /\ HasCaller(m, x) =>
                 /\ Outer(m, x) \in Word /\ Site(m, x) \in UserAddr
                 /\ Link(m, g)[x] = <<Site(m, x)>> \o g[Outer(m, x)]
           /\ ~HasCaller(m, x) => Link(m, g)[x] = <<>>
  <1>1. ASSUME HasCaller(m, x) PROVE Outer(m, x) \in Word /\ Site(m, x) \in UserAddr
    <2>1. FrameAt(m, x)[1] \in UserAddr /\ \E p \in UserAddr : Denotes(FrameAt(m, x)[2], p)
      BY <1>1 DEF HasCaller
    <2> QED BY <2>1, UserAddrIsWord DEF Outer, Site
  <1> QED BY <1>1 DEF Link

\* There is a function that the links satisfy.
LEMMA LinksExist ==
    ASSUME NEW m, NEW r \in [Word -> 0 .. MaxTrace], CountsDown(m, r)
    PROVE  \E g : g = Link(m, g)
  <1> DEFINE Upto(n, g) == \A x \in Word : r[x] <= n => g[x] = Link(m, g)[x]
             S == {n \in Nat : \E g : DOMAIN g = Word /\ g = [x \in Word |-> g[x]] /\ Upto(n, g)}
  <1>0. MaxTrace \in Nat /\ \A x \in Word : r[x] \in Nat /\ r[x] <= MaxTrace
    BY DepthAssumption
  <1>1. \A x \in Word : HasCaller(m, x) => Outer(m, x) \in Word /\ r[Outer(m, x)] < r[x]
    BY LinkIs DEF CountsDown, Outer
  <1>2. 0 \in S
    <2> DEFINE g == [x \in Word |-> <<>>]
    <2>1. ASSUME NEW x \in Word, r[x] <= 0 PROVE g[x] = Link(m, g)[x]
      <3>1. ~HasCaller(m, x)
        BY <1>0, <1>1, <2>1
      <3> QED BY <3>1, LinkIs
    <2>2. g = [x \in Word |-> g[x]] /\ DOMAIN g = Word
      OBVIOUS
    <2> QED BY <2>1, <2>2
  <1>3. ASSUME NEW n \in Nat, n \in S PROVE n + 1 \in S
    <2>1. PICK g : Upto(n, g)
      BY <1>3
    <2> DEFINE h == [x \in Word |-> IF r[x] <= n THEN g[x] ELSE Link(m, g)[x]]
    <2>2. DOMAIN h = Word /\ \A x \in Word : h[x] = IF r[x] <= n THEN g[x] ELSE Link(m, g)[x]
      OBVIOUS
    <2>3. h = [x \in Word |-> h[x]]
      OBVIOUS
    <2> HIDE DEF h
    <2>4. ASSUME NEW x \in Word, r[x] <= n + 1 PROVE h[x] = Link(m, h)[x]
      <3>1. h[x] = Link(m, g)[x]
        BY <2>1, <2>2
      <3>2. CASE HasCaller(m, x)
        <4>1. Outer(m, x) \in Word /\ r[Outer(m, x)] <= n
          BY <1>0, <1>1, <2>4, <3>2
        <4>2. h[Outer(m, x)] = g[Outer(m, x)]
          BY <2>2, <4>1
        <4>3. /\ Link(m, g)[x] = <<Site(m, x)>> \o g[Outer(m, x)]
              /\ Link(m, h)[x] = <<Site(m, x)>> \o h[Outer(m, x)]
          BY <3>2, LinkIs
        <4> QED BY <3>1, <4>2, <4>3
      <3>3. CASE ~HasCaller(m, x)
        BY <3>1, <3>3, LinkIs
      <3> QED BY <3>2, <3>3
    <2> QED BY <2>2, <2>3, <2>4
  <1> HIDE DEF S
  <1>4. MaxTrace \in S
    BY <1>0, <1>2, <1>3, Inductive
  <1>5. PICK g : g = [x \in Word |-> g[x]] /\ Upto(MaxTrace, g)
    BY <1>4 DEF S
  <1>6. \A x \in Word : g[x] = Link(m, g)[x]
    BY <1>0, <1>5
  <1>7. Link(m, g) = [x \in Word |-> Link(m, g)[x]]
    BY DEF Link
  <1> QED BY <1>5, <1>6, <1>7

\* What Frames is: the return address of the frame, then the frames of the
\* caller; and it has at most as many as r counts.
LEMMA FramesUnfold ==
    ASSUME NEW m \in [Cell -> Word], NEW r \in [Word -> 0 .. MaxTrace], CountsDown(m, r),
           NEW x \in Word
    PROVE  /\ HasCaller(m, x) =>
                 Frames(m, x) = <<Site(m, x)>> \o Frames(m, Outer(m, x))
           /\ ~HasCaller(m, x) => Frames(m, x) = <<>>
           /\ Frames(m, x) \in Seq(UserAddr) /\ Len(Frames(m, x)) <= r[x]
  <1> DEFINE chain == CHOOSE g : g = Link(m, g)
             S == {n \in Nat : \A y \in Word : r[y] <= n =>
                                  chain[y] \in Seq(UserAddr) /\ Len(chain[y]) <= r[y]}
  <1>0. MaxTrace \in Nat /\ \A y \in Word : r[y] \in Nat /\ r[y] <= MaxTrace
    BY DepthAssumption
  <1>1. chain = Link(m, chain)
    BY LinksExist
  <1>2. \A y : Frames(m, y) = chain[y]
    BY DEF Frames, Link, Site, Outer
  <1>3. \A y \in Word : HasCaller(m, y) => Outer(m, y) \in Word /\ r[Outer(m, y)] < r[y]
    BY LinkIs DEF CountsDown, Outer
  <1> HIDE DEF chain
  <1>4. ASSUME NEW y \in Word
        PROVE  /\ HasCaller(m, y) => chain[y] = <<Site(m, y)>> \o chain[Outer(m, y)]
               /\ ~HasCaller(m, y) => chain[y] = <<>>
    <2>1. /\ HasCaller(m, y) => Link(m, chain)[y] = <<Site(m, y)>> \o chain[Outer(m, y)]
          /\ ~HasCaller(m, y) => Link(m, chain)[y] = <<>>
      BY LinkIs
    <2>2. chain[y] = Link(m, chain)[y]
      BY <1>1
    <2> QED BY <2>1, <2>2
  <1>5. ASSUME NEW n \in Nat,
               \A y \in Word : r[y] < n => chain[y] \in Seq(UserAddr) /\ Len(chain[y]) <= r[y],
               NEW y \in Word, r[y] <= n
        PROVE  chain[y] \in Seq(UserAddr) /\ Len(chain[y]) <= r[y]
    <2>1. CASE HasCaller(m, y)
      <3> DEFINE p == Site(m, y)
                 s == chain[Outer(m, y)]
      <3>1. p \in UserAddr /\ chain[y] = <<p>> \o s
        BY <1>4, <2>1, LinkIs
      <3>2. /\ s \in Seq(UserAddr) /\ Len(s) <= r[Outer(m, y)] /\ r[Outer(m, y)] < r[y]
            /\ r[Outer(m, y)] \in Nat /\ r[y] \in Nat
        BY <1>0, <1>3, <1>5, <2>1
      <3> HIDE DEF p, s
      <3>3. <<p>> \o s \in Seq(UserAddr) /\ Len(<<p>> \o s) = 1 + Len(s)
        BY <3>1, <3>2
      <3> QED BY <3>1, <3>2, <3>3
    <2>2. CASE ~HasCaller(m, y)
      <3>1. chain[y] = <<>>
        BY <1>4, <2>2
      <3> QED BY <1>0, <3>1
    <2> QED BY <2>1, <2>2
  <1>6. 0 \in S
    <2>1. \A y \in Word : ~(r[y] < 0)
      BY <1>0
    <2> QED BY <1>5, <2>1
  <1>7. ASSUME NEW n \in Nat, n \in S PROVE n + 1 \in S
    <2>1. \A y \in Word : r[y] < n + 1 => r[y] <= n
      BY <1>0
    <2> QED BY <1>5, <1>7, <2>1
  <1>8. MaxTrace \in S
    <2> HIDE DEF S
    <2> QED BY <1>0, <1>6, <1>7, Inductive
  <1>9. chain[x] \in Seq(UserAddr) /\ Len(chain[x]) <= r[x]
    BY <1>0, <1>8
  <1> QED BY <1>2, <1>9, <1>4

\* The same for a context of the unwinder.
LEMMA FramesStep ==
    ASSUME ChainsEnd, NEW m \in Memories, NEW c \in ContextT
    PROVE  /\ StepOk(m, c) =>
                 LET d == context_step(m, c)
                 IN  Frames(m, c.fp) = <<context_get_ip(d)>> \o Frames(m, d.fp)
           /\ ~StepOk(m, c) => Frames(m, c.fp) = <<>>
           /\ Frames(m, c.fp) \in Seq(UserAddr) /\ Len(Frames(m, c.fp)) <= MaxTrace
  <1>1. m \in [Cell -> Word] /\ c.fp \in Word
    BY StackAssumption DEF ContextT
  <1>2. PICK r \in [Word -> 0 .. MaxTrace] : CountsDown(m, r)
    BY DEF ChainsEnd
  <1>3. /\ HasCaller(m, c.fp) => Frames(m, c.fp) = <<Site(m, c.fp)>> \o Frames(m, Outer(m, c.fp))
        /\ ~HasCaller(m, c.fp) => Frames(m, c.fp) = <<>>
        /\ Frames(m, c.fp) \in Seq(UserAddr) /\ Len(Frames(m, c.fp)) <= r[c.fp]
    BY <1>1, <1>2, FramesUnfold
  <1>4. /\ HasCaller(m, c.fp) <=> StepOk(m, c)
        /\ StepOk(m, c) => Outer(m, c.fp) = NextFp(m, c) /\ Site(m, c.fp) = NextIp(m, c)
    BY <1>1, ChainStep DEF Outer, Site
  <1>5. r[c.fp] \in 0 .. MaxTrace
    BY <1>1, <1>2
  <1>6. Len(Frames(m, c.fp)) <= MaxTrace
    BY <1>3, <1>5, DepthAssumption
  <1> QED BY <1>3, <1>4, <1>6 DEF context_step, context_get_ip

\* What has been found and what is left are the stack, whichever way a frame
\* is passed from the one to the other.
LEMMA PassOn ==
    ASSUME NEW h \in Seq(UserAddr), NEW x \in UserAddr, NEW t \in Seq(UserAddr), Len(h) < MaxTrace
    PROVE  /\ Record(h, x) \in Seq(UserAddr) /\ Len(Record(h, x)) = Len(h) + 1
           /\ Record(h, x) \o t = h \o (<<x>> \o t)
           /\ SubSeq(h \o (<<x>> \o t), 1, Len(h) + 1) = Record(h, x)
           /\ Len(h \o (<<x>> \o t)) = Len(h) + 1 + Len(t)
  <1>1. Record(h, x) = Append(h, x)
    BY DEF Record
  <1>2. Append(h, x) \in Seq(UserAddr) /\ Len(Append(h, x)) = Len(h) + 1
    OBVIOUS
  <1>3. Append(h, x) = h \o <<x>>
    BY AppendIsConcat
  <1>4. <<x>> \in Seq(UserAddr)
    OBVIOUS
  <1>5. (h \o <<x>>) \o t = h \o (<<x>> \o t)
    BY <1>4, ConcatAssociative
  <1> DEFINE s == Append(h, x)
  <1> HIDE DEF s
  <1>6. s \in Seq(UserAddr) /\ Len(s) = Len(h) + 1 /\ Len(h) \in Nat
    BY <1>2 DEF s
  <1>7. SubSeq(s \o t, 1, Len(s)) = SubSeq(s, 1, Len(s)) /\ SubSeq(s, 1, Len(s)) = s
    <2>1. 1 \in 1 .. Len(s) /\ Len(s) \in 1 .. Len(s)
      BY <1>6
    <2> QED BY <1>6, <2>1, SubSeqOfConcat1, SubSeqFull
  <1>8. Len(s \o t) = Len(s) + Len(t)
    BY <1>6, ConcatProperties
  <1>9. s \o t = h \o (<<x>> \o t)
    BY <1>3, <1>5 DEF s
  <1>10. Record(h, x) = s
    BY <1>1 DEF s
  <1> QED BY <1>6, <1>7, <1>8, <1>9, <1>10

\* A walk reads one of the memories, has room for all that is left of the
\* chain, and collect gives nothing to a callback.
WalkInv ==
    /\ pc \in {"backtrace", "collect"} => mem \in Memories
    /\ pc = "backtrace" => Len(out) + Len(Frames(mem, ctx.fp)) <= MaxTrace
    /\ pc = "collect" => out = <<>>

-----------------------------------------------------------------------------
(* Each action is a step of the Recorder, or leaves what it sees alone *)

\* The histories and the record are sequences of user addresses.
LEMMA HistoriesAre ==
    ASSUME Inv
    PROVE  /\ out \in Seq(UserAddr) /\ trace \in Seq(UserAddr)
           /\ Stored \in Seq(UserAddr) /\ Len(Stored) = bw.ip_cnt
           /\ \A k \in 1 .. bw.ip_cnt : Stored[k] = bw.ip[k]
  <1>1. /\ out \in Seq(Word) /\ \A k \in 1 .. Len(out) : out[k] \in UserAddr
        /\ trace \in Seq(Word) /\ \A k \in 1 .. Len(trace) : trace[k] \in UserAddr
        /\ bw.ip_cnt \in Nat /\ \A k \in 1 .. bw.ip_cnt : bw.ip[k] \in UserAddr
    BY DEF Inv, TypeOK, ValidInv, FramesValid, StoredInitialised
  <1>2. out \in Seq(UserAddr) /\ trace \in Seq(UserAddr)
    BY <1>1
  <1> DEFINE n == bw.ip_cnt
             s == bw.ip
  <1>3. n \in Nat /\ \A k \in 1 .. n : s[k] \in UserAddr
    BY <1>1
  <1> HIDE DEF n, s
  <1>4. /\ [k \in 1 .. n |-> s[k]] \in Seq(UserAddr) /\ Len([k \in 1 .. n |-> s[k]]) = n
        /\ \A k \in 1 .. n : [j \in 1 .. n |-> s[j]][k] = s[k]
    BY <1>3
  <1>5. Stored = [k \in 1 .. n |-> s[k]]
    BY DEF Stored, First, n, s
  <1> QED BY <1>2, <1>4, <1>5 DEF n, s

\* A call that starts a walk.
LEMMA BeginWalk ==
    ASSUME ChainsEnd, Inv, WalkInv, NEW m \in Memories, NEW a \in Starts,
           CallBacktrace(m, a) \/ CallCollect(m, a)
    PROVE  WalkInv' /\ R!RecorderNext
  <1>1. PICK w \in Residues : ctx' = [fp |-> a, ip |-> w]
    BY DEF CallBacktrace, CallCollect, context_init
  <1> DEFINE c == [fp |-> a, ip |-> w]
             F == Frames(m, a)
  <1>2. c \in ContextT
    BY StackAssumption DEF ContextT
  <1>3. F \in Seq(UserAddr) /\ Len(F) <= MaxTrace
    BY <1>2, FramesStep
  <1>4. /\ pc = "idle" /\ pc' \in {"backtrace", "collect"} /\ mem' = m /\ ctx'.fp = a
        /\ out' = <<>> /\ trace' = <<>> /\ bw' = bw /\ res' = res
    BY <1>1 DEF CallBacktrace, CallCollect, context_init
  <1>5. Frames(mem', ctx'.fp) = F
    BY <1>4
  <1> HIDE DEF F
  <1>6. WalkInv'
    BY <1>3, <1>4, <1>5 DEF WalkInv
  <1>7. AbsStack' = <<>> \o F
    BY <1>4, <1>5 DEF AbsStack
  <1>8. AbsStack' \in Seq(UserAddr)
    BY <1>3, <1>7
  <1>9. AbsOp = "none" /\ AbsOp' = pc' /\ AbsGot' = <<>> /\ Stored' = Stored
    BY <1>4 DEF AbsOp, AbsGot, Stored, First
  <1>10. R!Begin(pc')
    BY <1>4, <1>8, <1>9 DEF R!Begin
  <1> QED BY <1>4, <1>6, <1>10 DEF R!RecorderNext

\* A step of the walk passes the first frame of the rest to the history h.
LEMMA NextFrame ==
    ASSUME ChainsEnd, NEW m \in Memories, NEW c \in ContextT, StepOk(m, c),
           NEW h \in Seq(UserAddr),
           Len(h) < MaxTrace \/ Len(h) + Len(Frames(m, c.fp)) <= MaxTrace
    PROVE  LET d == context_step(m, c)
               x == context_get_ip(d)
               F == Frames(m, c.fp)
               G == Frames(m, d.fp)
           IN  /\ d \in ContextT /\ x \in UserAddr
               /\ Len(h) \in Nat /\ Len(F) = Len(G) + 1 /\ Len(G) \in Nat
               /\ Record(h, x) \in Seq(UserAddr) /\ Len(Record(h, x)) = Len(h) + 1
               /\ Record(h, x) \o G = h \o F
               /\ SubSeq(h \o F, 1, Len(h) + 1) = Record(h, x)
               /\ Len(h \o F) = Len(h) + 1 + Len(G)
  <1> DEFINE d == context_step(m, c)
             x == context_get_ip(d)
             F == Frames(m, c.fp)
             G == Frames(m, d.fp)
  <1>1. d \in ContextT /\ x \in UserAddr
    BY StepValid, StackAssumption
  <1>2. F = <<x>> \o G /\ G \in Seq(UserAddr)
    BY <1>1, FramesStep
  <1> HIDE DEF d, x, F, G
  <1>3. Len(F) = Len(G) + 1 /\ Len(G) \in Nat /\ Len(h) \in Nat
    BY <1>1, <1>2
  <1>4. Len(h) < MaxTrace
    BY <1>3, DepthAssumption DEF F
  <1>5. /\ Record(h, x) \in Seq(UserAddr) /\ Len(Record(h, x)) = Len(h) + 1
        /\ Record(h, x) \o G = h \o F
        /\ SubSeq(h \o F, 1, Len(h) + 1) = Record(h, x)
        /\ Len(h \o F) = Len(h) + 1 + Len(G)
    BY <1>1, <1>2, <1>4, PassOn
  <1> QED BY <1>1, <1>3, <1>5 DEF d, x, F, G

\* bw_backtrace passes on a frame and goes on: nothing to see.
LEMMA BacktraceGoesOn ==
    ASSUME ChainsEnd, Inv, WalkInv, BacktraceFrame(TRUE)
    PROVE  WalkInv' /\ UNCHANGED R!rvars
  <1> DEFINE d == context_step(mem, ctx)
             x == context_get_ip(d)
             F == Frames(mem, ctx.fp)
             G == Frames(mem, d.fp)
  <1>1. /\ pc = "backtrace" /\ StepOk(mem, ctx) /\ out' = Record(out, x) /\ ctx' = d
        /\ UNCHANGED <<pc, mem, res, bw>>
    BY DEF BacktraceFrame
  <1>2. mem \in Memories /\ ctx \in ContextT /\ out \in Seq(UserAddr) /\ Len(out) + Len(F) <= MaxTrace
    BY <1>1, HistoriesAre DEF Inv, TypeOK, WalkInv
  <1>3. /\ Len(out) \in Nat /\ Len(F) = Len(G) + 1 /\ Len(G) \in Nat
        /\ Len(Record(out, x)) = Len(out) + 1 /\ Record(out, x) \o G = out \o F
    BY <1>1, <1>2, NextFrame
  <1>4. Frames(mem', ctx'.fp) = G
    BY <1>1
  <1>5. AbsStack = out \o F
    BY <1>1 DEF AbsStack
  <1> HIDE DEF F, G, d, x
  <1>6. WalkInv'
    <2>1. Len(out') + Len(G) <= MaxTrace
      BY <1>1, <1>2, <1>3, DepthAssumption
    <2> QED BY <1>1, <1>2, <1>4, <2>1 DEF WalkInv
  <1>7. AbsStack' = Record(out, x) \o G
    BY <1>1, <1>4 DEF AbsStack
  <1>8. UNCHANGED <<AbsOp, AbsGot, Stored>>
    BY <1>1 DEF AbsOp, AbsGot, Stored, First
  <1> QED BY <1>1, <1>3, <1>5, <1>6, <1>7, <1>8 DEF R!rvars

\* What a return leaves for the Recorder to see.
LEMMA Returned ==
    ASSUME NEW call, NEW ret, Return(call, ret), bw' = bw
    PROVE  /\ WalkInv' /\ AbsOp' = "none" /\ AbsStack' = <<>> /\ AbsGot' = out' /\ Stored' = Stored
           /\ res'.ret = ret
  <1>1. pc' = "idle" /\ res'.ret = ret
    BY DEF Return
  <1> QED BY <1>1 DEF WalkInv, AbsOp, AbsStack, AbsGot, Stored, First

\* bw_backtrace stops, at a frame or at the end of the chain.
LEMMA BacktraceStops ==
    ASSUME ChainsEnd, Inv, WalkInv, BacktraceFrame(FALSE) \/ BacktraceEnd
    PROVE  WalkInv' /\ R!RecorderNext
  <1> DEFINE d == context_step(mem, ctx)
             x == context_get_ip(d)
             F == Frames(mem, ctx.fp)
             G == Frames(mem, d.fp)
  <1>1. pc = "backtrace" /\ bw' = bw
    BY DEF BacktraceFrame, BacktraceEnd
  <1>2. mem \in Memories /\ ctx \in ContextT /\ out \in Seq(UserAddr) /\ Len(out) + Len(F) <= MaxTrace
    BY <1>1, HistoriesAre DEF Inv, TypeOK, WalkInv
  <1>3. AbsStack = out \o F /\ AbsOp = "backtrace"
    BY <1>1 DEF AbsStack, AbsOp
  <1>4. CASE BacktraceFrame(FALSE)
    <2>1. StepOk(mem, ctx) /\ out' = Record(out, x) /\ Return("backtrace", FALSE)
      BY <1>4 DEF BacktraceFrame
    <2>2. /\ Len(out) \in Nat /\ Len(G) \in Nat
          /\ SubSeq(out \o F, 1, Len(out) + 1) = Record(out, x)
          /\ Len(out \o F) = Len(out) + 1 + Len(G)
      BY <1>2, <2>1, NextFrame
    <2> HIDE DEF F, G, d, x
    <2>3. Len(out) + 1 \in 1 .. Len(AbsStack) /\ out' = SubSeq(AbsStack, 1, Len(out) + 1)
      BY <1>3, <2>1, <2>2
    <2>4. /\ WalkInv' /\ AbsOp' = "none" /\ AbsStack' = <<>> /\ AbsGot' = out' /\ Stored' = Stored
          /\ res'.ret = FALSE
      BY <1>1, <2>1, Returned
    <2>5. R!FinishReport
      BY <1>1, <1>3, <2>3, <2>4 DEF R!FinishReport, R!Finish
    <2> QED BY <2>4, <2>5 DEF R!RecorderNext
  <1>5. CASE BacktraceEnd
    <2>1. ~StepOk(mem, ctx) /\ Return("backtrace", TRUE) /\ out' = out
      BY <1>5 DEF BacktraceEnd
    <2>2. F = <<>>
      BY <1>2, <2>1, FramesStep
    <2> HIDE DEF F, G, d, x
    <2>3. out' = AbsStack
      BY <1>2, <1>3, <2>1, <2>2
    <2>4. /\ WalkInv' /\ AbsOp' = "none" /\ AbsStack' = <<>> /\ AbsGot' = out' /\ Stored' = Stored
          /\ res'.ret = TRUE
      BY <1>1, <2>1, Returned
    <2>5. R!FinishReport
      BY <1>1, <1>3, <2>3, <2>4 DEF R!FinishReport, R!Finish
    <2> QED BY <2>4, <2>5 DEF R!RecorderNext
  <1> QED BY <1>4, <1>5

\* Once collect has stored a frame, the record is what it has walked.
LEMMA StoredIsTrace == (Inv /\ pc = "collect" /\ i > 0) => Stored = trace
  <1> SUFFICES ASSUME Inv, pc = "collect", i > 0 PROVE Stored = trace
    OBVIOUS
  <1>1. /\ Stored \in Seq(UserAddr) /\ trace \in Seq(UserAddr) /\ Len(Stored) = bw.ip_cnt
        /\ \A k \in 1 .. bw.ip_cnt : Stored[k] = bw.ip[k]
    BY HistoriesAre
  <1>2. bw.ip_cnt = i /\ Len(trace) = i /\ \A k \in 1 .. i : bw.ip[k] = trace[k]
    BY DEF Inv, CollectInv
  <1> HIDE DEF Stored
  <1>3. Len(Stored) = Len(trace) /\ \A k \in 1 .. Len(Stored) : Stored[k] = trace[k]
    BY <1>1, <1>2
  <1> QED BY <1>1, <1>3, SeqEqual

\* The record is never made of two walks: a step that changes it makes it the
\* frames walked so far, or empties it.
THEOREM RecordCorrect == Spec => RecordUnmixed
  <1> DEFINE Unmixed == Stored' # Stored => Stored' \in {trace', <<>>}
  <1>1. Inv /\ Inv' /\ [Next]_vars => [Unmixed]_vars
    <2> SUFFICES ASSUME Inv, Inv', Next PROVE Unmixed
      BY DEF vars
    <2>1. CASE bw' = bw
      BY <2>1 DEF Stored, First
    <2>2. CASE CollectFrame
      <3>1. (pc = "collect" /\ i > 0)'
        BY <2>2 DEF CollectFrame, Inv, TypeOK
      <3>2. (Stored = trace)'
        BY <3>1, StoredIsTrace, PTL
      <3> QED BY <3>2
    <2>3. CASE bw'.ip_cnt = 0
      BY <2>3 DEF Stored, First
    <2>4. ASSUME NEW depth \in Depths, MakeArray(depth) PROVE bw'.ip_cnt = 0
      BY <2>4 DEF MakeArray, NewContext
    <2>5. CASE bw_context_fini
      BY <2>3, <2>5 DEF bw_context_fini, NoContext
    <2>6. bw' = bw \/ CollectFrame \/ bw_context_fini \/ \E depth \in Depths : MakeArray(depth)
      BY DEF Next, Call, Proceed, Refuse, CallBacktrace, CallCollect, CallProcess, MakeHeader,
             BacktraceFrame, BacktraceEnd, MakeArrayFails, CollectFull, CollectEnd, ProcessFrame,
             ProcessEnd
    <2> QED BY <2>1, <2>2, <2>3, <2>4, <2>5, <2>6
  <1> QED BY <1>1, Invariance, PTL DEF Spec, RecordUnmixed

\* bw_backtrace_collect stores a frame.
LEMMA CollectKeeps ==
    ASSUME ChainsEnd, Inv, WalkInv, CollectFrame
    PROVE  WalkInv' /\ R!RecorderNext
  <1> DEFINE d == context_step(mem, ctx)
             x == context_get_ip(d)
             F == Frames(mem, ctx.fp)
             G == Frames(mem, d.fp)
  <1>1. /\ pc = "collect" /\ StepOk(mem, ctx) /\ ~(i >= bw.ip_max_cnt) /\ ctx' = d /\ i' = i + 1
        /\ trace' = Record(trace, x) /\ UNCHANGED <<pc, mem, res, out>>
    BY DEF CollectFrame, ArrayFull
  <1>2. /\ mem \in Memories /\ ctx \in ContextT /\ trace \in Seq(UserAddr) /\ out = <<>>
        /\ Len(trace) = i /\ i \in Nat /\ bw.ip_max_cnt \in Nat /\ bw.ip_max_cnt < MaxTrace
    BY <1>1, HistoriesAre DEF Inv, TypeOK, WalkInv, CollectInv, HeapInv
  <1>3. Len(trace) < MaxTrace
    BY <1>1, <1>2, DepthAssumption
  <1>4. /\ Len(G) \in Nat /\ Record(trace, x) \o G = trace \o F
        /\ SubSeq(trace \o F, 1, Len(trace) + 1) = Record(trace, x)
        /\ Len(trace \o F) = Len(trace) + 1 + Len(G)
    BY <1>1, <1>2, <1>3, NextFrame
  <1>5. Frames(mem', ctx'.fp) = G
    BY <1>1
  <1>6. AbsStack = trace \o F /\ AbsOp = "collect"
    BY <1>1 DEF AbsStack, AbsOp
  <1>7. bw'.ip_max_cnt = bw.ip_max_cnt
    BY DEF CollectFrame, Inv, TypeOK
  <1>8. (Stored = trace)'
    <2>1. Inv'
      BY CollectFrameStep
    <2>2. (pc = "collect" /\ i > 0)'
      BY <1>1, <1>2
    <2> QED BY <2>1, <2>2, StoredIsTrace, PTL
  <1> HIDE DEF F, G, d, x
  <1>9. WalkInv'
    BY <1>1, <1>2 DEF WalkInv
  <1>10. AbsStack' = AbsStack
    <2>1. AbsStack' = Record(trace, x) \o G
      BY <1>1, <1>5 DEF AbsStack
    <2> QED BY <1>4, <1>6, <2>1
  <1>11. UNCHANGED <<AbsOp, AbsGot>>
    BY <1>1 DEF AbsOp, AbsGot
  <1>12. /\ i + 1 \in 1 .. Len(AbsStack) /\ i + 1 <= bw.ip_max_cnt
         /\ Stored' = SubSeq(AbsStack, 1, i + 1)
    BY <1>1, <1>2, <1>4, <1>6, <1>8
  <1>13. R!Keep
    BY <1>1, <1>6, <1>7, <1>10, <1>11, <1>12 DEF R!Keep
  <1> QED BY <1>9, <1>13 DEF R!RecorderNext

\* bw_backtrace_collect returns: the array is full, or the chain has ended.
LEMMA CollectStops ==
    ASSUME ChainsEnd, Inv, WalkInv, CollectFull \/ CollectEnd
    PROVE  WalkInv' /\ R!RecorderNext
  <1> DEFINE d == context_step(mem, ctx)
             x == context_get_ip(d)
             F == Frames(mem, ctx.fp)
             G == Frames(mem, d.fp)
  <1>1. pc = "collect" /\ bw' = bw /\ out' = out
    BY DEF CollectFull, CollectEnd
  <1>2. /\ mem \in Memories /\ ctx \in ContextT /\ trace \in Seq(UserAddr) /\ out = <<>>
        /\ Len(trace) = i /\ i \in Nat /\ bw.ip_max_cnt \in Nat /\ bw.ip_max_cnt < MaxTrace
        /\ i <= bw.ip_max_cnt
    BY <1>1, HistoriesAre DEF Inv, TypeOK, WalkInv, CollectInv, HeapInv
  <1>3. Len(trace) < MaxTrace
    BY <1>2, DepthAssumption
  <1>4. AbsStack = trace \o F /\ AbsOp = "collect"
    BY <1>1 DEF AbsStack, AbsOp
  <1>5. i > 0 => Stored = trace
    BY <1>1, StoredIsTrace
  <1>6. CASE CollectFull
    <2>1. StepOk(mem, ctx) /\ i >= bw.ip_max_cnt /\ Return("collect", FALSE)
      BY <1>6 DEF CollectFull, ArrayFull
    <2>2. F \in Seq(UserAddr) /\ Len(G) \in Nat /\ Len(trace \o F) = Len(trace) + 1 + Len(G)
      BY <1>2, <1>3, <2>1, NextFrame, FramesStep
    <2> HIDE DEF F, G, d, x
    <2>3. ~(Len(AbsStack) <= bw.ip_max_cnt) /\ bw.ip_max_cnt = i
      BY <1>2, <1>4, <2>1, <2>2
    <2>4. ASSUME i > 0 PROVE Stored = SubSeq(AbsStack, 1, i)
      <3>1. 1 \in 1 .. Len(trace) /\ i \in 1 .. Len(trace)
        BY <1>2, <2>4
      <3>2. SubSeq(trace \o F, 1, i) = SubSeq(trace, 1, i)
        BY <1>2, <2>2, <3>1, SubSeqOfConcat1
      <3>3. SubSeq(trace, 1, i) = trace
        BY <1>2, SubSeqFull
      <3> QED BY <1>4, <1>5, <2>4, <3>2, <3>3
    <2>5. /\ WalkInv' /\ AbsOp' = "none" /\ AbsStack' = <<>> /\ AbsGot' = out' /\ Stored' = Stored
          /\ res'.ret = FALSE
      BY <1>1, <2>1, Returned
    <2>6. bw.ip_max_cnt = 0 \/ Stored = SubSeq(AbsStack, 1, bw.ip_max_cnt)
      BY <1>2, <2>3, <2>4
    <2>7. R!FinishCollect
      BY <1>1, <1>2, <1>4, <2>3, <2>5, <2>6 DEF R!FinishCollect, R!Finish
    <2> QED BY <2>5, <2>7 DEF R!RecorderNext
  <1>7. CASE CollectEnd
    <2>1. ~StepOk(mem, ctx) /\ Return("collect", TRUE)
      BY <1>7 DEF CollectEnd
    <2>2. F = <<>>
      BY <1>2, <2>1, FramesStep
    <2> HIDE DEF F, G, d, x
    <2>3. AbsStack = trace
      BY <1>2, <1>4, <2>2
    <2>4. AbsStack = <<>> \/ Stored = AbsStack
      BY <1>2, <1>5, <2>3
    <2>5. /\ WalkInv' /\ AbsOp' = "none" /\ AbsStack' = <<>> /\ AbsGot' = out' /\ Stored' = Stored
          /\ res'.ret = TRUE
      BY <1>1, <2>1, Returned
    <2>6. R!FinishCollect
      BY <1>1, <1>2, <1>4, <2>3, <2>4, <2>5 DEF R!FinishCollect, R!Finish
    <2> QED BY <2>5, <2>6 DEF R!RecorderNext
  <1> QED BY <1>6, <1>7

\* bw_backtrace_process is called, or gives the callback a frame and goes on.
LEMMA ProcessGoesOn ==
    ASSUME Inv, WalkInv, CallProcess \/ ProcessFrame(TRUE)
    PROVE  WalkInv' /\ (R!RecorderNext \/ UNCHANGED R!rvars)
  <1>1. pc' = "process" /\ bw' = bw /\ res' = res
    BY DEF CallProcess, ProcessFrame
  <1>2. /\ WalkInv' /\ AbsOp' = "process" /\ AbsGot' = <<>> /\ Stored' = Stored /\ AbsStack' = Stored
    BY <1>1 DEF WalkInv, AbsOp, AbsGot, AbsStack, Stored, First
  <1>3. CASE CallProcess
    <2>1. AbsOp = "none"
      BY <1>3 DEF CallProcess, AbsOp
    <2>2. R!Begin("process")
      BY <1>1, <1>2, <2>1 DEF R!Begin
    <2> QED BY <1>2, <2>2 DEF R!RecorderNext
  <1>4. CASE ProcessFrame(TRUE)
    <2>1. AbsOp = "process" /\ AbsGot = <<>> /\ AbsStack = Stored
      BY <1>4 DEF ProcessFrame, AbsOp, AbsGot, AbsStack
    <2> QED BY <1>1, <1>2, <2>1 DEF R!rvars
  <1> QED BY <1>3, <1>4

\* bw_backtrace_process stops, at a frame or at the end of the record.
LEMMA ProcessStops ==
    ASSUME Inv, WalkInv, ProcessFrame(FALSE) \/ ProcessEnd
    PROVE  WalkInv' /\ R!RecorderNext
  <1>1. pc = "process" /\ bw' = bw
    BY DEF ProcessFrame, ProcessEnd
  <1>2. /\ out \in Seq(UserAddr) /\ Stored \in Seq(UserAddr) /\ Len(Stored) = bw.ip_cnt
        /\ \A k \in 1 .. bw.ip_cnt : Stored[k] = bw.ip[k]
    BY HistoriesAre
  <1>3. /\ Len(out) = i /\ i <= bw.ip_cnt /\ bw.ip_cnt \in Nat /\ i \in Nat
        /\ bw.ip_cnt <= bw.ip_max_cnt /\ bw.ip_max_cnt \in Nat /\ bw.ip_max_cnt < MaxTrace
        /\ \A k \in 1 .. i : out[k] = bw.ip[k]
    BY <1>1 DEF Inv, TypeOK, ProcessInv, HeapInv, ValidInv, StoredInitialised
  <1>4. AbsStack = Stored /\ AbsOp = "process"
    BY <1>1 DEF AbsStack, AbsOp
  <1> DEFINE s == Stored
  <1>5. s = Stored
    OBVIOUS
  <1> HIDE DEF s
  <1>6. CASE ProcessFrame(FALSE)
    <2> DEFINE x == bw.ip[i + 1]
    <2>1. i < bw.ip_cnt /\ out' = Record(out, x) /\ Return("process", FALSE)
      BY <1>6 DEF ProcessFrame
    <2>2. x = s[i + 1] /\ x \in UserAddr /\ i + 1 \in 1 .. Len(s)
      BY <1>2, <1>3, <1>5, <2>1
    <2>3. Record(out, x) = Append(out, x)
      BY <1>3, <2>1, DepthAssumption DEF Record
    <2> HIDE DEF x
    <2>4. Append(out, x) = SubSeq(s, 1, i + 1)
      <3>1. s \in Seq(UserAddr) /\ \A k \in 1 .. i : out[k] = s[k]
        BY <1>2, <1>3, <1>5
      <3>2. SubSeq(s, 1, i + 1) \in Seq(UserAddr) /\ Len(SubSeq(s, 1, i + 1)) = i + 1
            /\ \A k \in 1 .. (i + 1) : SubSeq(s, 1, i + 1)[k] = s[k]
        BY <1>3, <2>2, <3>1
      <3>3. Append(out, x) \in Seq(UserAddr) /\ Len(Append(out, x)) = i + 1
            /\ \A k \in 1 .. (i + 1) : Append(out, x)[k] = IF k <= i THEN out[k] ELSE x
        BY <1>2, <1>3, <2>2
      <3>4. \A k \in 1 .. (i + 1) : Append(out, x)[k] = SubSeq(s, 1, i + 1)[k]
        BY <1>3, <2>2, <3>1, <3>2, <3>3
      <3> QED BY <3>2, <3>3, <3>4, SeqEqual
    <2>5. /\ WalkInv' /\ AbsOp' = "none" /\ AbsStack' = <<>> /\ AbsGot' = out' /\ Stored' = Stored
          /\ res'.ret = FALSE
      BY <1>1, <2>1, Returned
    <2>6. i + 1 \in 1 .. Len(AbsStack) /\ AbsGot' = SubSeq(AbsStack, 1, i + 1)
      BY <1>4, <1>5, <2>1, <2>2, <2>3, <2>4, <2>5
    <2>7. R!FinishReport
      BY <1>1, <1>4, <2>5, <2>6 DEF R!FinishReport, R!Finish
    <2> QED BY <2>5, <2>7 DEF R!RecorderNext
  <1>7. CASE ProcessEnd
    <2>1. i >= bw.ip_cnt /\ out' = out /\ Return("process", TRUE)
      BY <1>7 DEF ProcessEnd
    <2>2. Len(out) = Len(s) /\ s \in Seq(UserAddr) /\ \A k \in 1 .. Len(out) : out[k] = s[k]
      BY <1>2, <1>3, <1>5, <2>1
    <2>3. out = s
      BY <1>2, <2>2, SeqEqual
    <2>4. /\ WalkInv' /\ AbsOp' = "none" /\ AbsStack' = <<>> /\ AbsGot' = out' /\ Stored' = Stored
          /\ res'.ret = TRUE
      BY <1>1, <2>1, Returned
    <2>5. R!FinishReport
      BY <1>1, <1>4, <1>5, <2>1, <2>3, <2>4 DEF R!FinishReport, R!Finish
    <2> QED BY <2>4, <2>5 DEF R!RecorderNext
  <1> QED BY <1>6, <1>7

\* mkbw_context and bw_context_fini.
LEMMA Lifecycle ==
    ASSUME Inv, WalkInv,
           \/ MakeHeader \/ MakeArrayFails \/ bw_context_fini
           \/ \E depth \in Depths : MakeArray(depth)
    PROVE  WalkInv' /\ (R!RecorderNext \/ UNCHANGED R!rvars)
  <1>1. pc \in {"idle", "make"} /\ pc' \in {"idle", "make"} /\ out' = out
    BY DEF MakeHeader, MakeArrayFails, bw_context_fini, MakeArray
  <1>2. /\ WalkInv' /\ AbsOp = "none" /\ AbsOp' = "none" /\ AbsStack = <<>> /\ AbsStack' = <<>>
        /\ AbsGot' = AbsGot
    BY <1>1 DEF WalkInv, AbsOp, AbsStack, AbsGot
  <1>3. CASE bw' = bw /\ res'.ret = FALSE
    <2>1. Stored' = Stored
      BY <1>3 DEF Stored, First
    <2>2. R!Refuse
      BY <1>2, <1>3, <2>1 DEF R!Refuse
    <2> QED BY <1>2, <2>2 DEF R!RecorderNext
  <1>4. CASE bw' = bw /\ res' = res
    <2>1. Stored' = Stored
      BY <1>4 DEF Stored, First
    <2> QED BY <1>2, <1>4, <2>1 DEF R!rvars
  <1>5. CASE bw'.ip_cnt = 0 /\ bw'.ip_max_cnt \in Depths \cup {0} /\ res'.ret \in BOOLEAN
    <2>1. Stored' = <<>>
      BY <1>5 DEF Stored, First
    <2>2. R!Reset
      BY <1>2, <1>5, <2>1 DEF R!Reset
    <2> QED BY <1>2, <2>2 DEF R!RecorderNext
  <1>6. CASE MakeHeader \/ MakeArrayFails
    <2>1. bw' = bw /\ (res' = res \/ res' = [call |-> "make", ret |-> FALSE])
      BY <1>6 DEF MakeHeader, MakeArrayFails
    <2>2. bw' = bw /\ (res' = res \/ res'.ret = FALSE)
      BY <2>1
    <2> QED BY <1>3, <1>4, <2>2
  <1>7. CASE bw_context_fini
    BY <1>5, <1>7 DEF bw_context_fini, NoContext
  <1>8. ASSUME NEW depth \in Depths, MakeArray(depth) PROVE WalkInv' /\ (R!RecorderNext \/ UNCHANGED R!rvars)
    BY <1>5, <1>8 DEF MakeArray, NewContext
  <1> QED BY <1>6, <1>7, <1>8

\* The calls implement the Recorder: whatever bw_backtrace,
\* bw_backtrace_collect and bw_backtrace_process report, record and replay
\* is the frame-pointer chain, from the innermost frame and with none
\* skipped, on every architecture and every stack whose chains end.
THEOREM RecorderRefined == ChainsEnd => (Spec => Implements)
  <1> SUFFICES ASSUME ChainsEnd PROVE Spec => Implements
    OBVIOUS
  <1>1. Init => R!RecorderInit /\ WalkInv
    <2> SUFFICES ASSUME Init PROVE R!RecorderInit /\ WalkInv
      OBVIOUS
    <2>1. pc = "idle" /\ out = <<>> /\ bw.ip_cnt = 0 /\ bw.ip_max_cnt = 0 /\ res.ret = TRUE
      BY DEF Init, NoContext
    <2>2. Stored = <<>>
      BY <2>1 DEF Stored, First
    <2> QED BY <2>1, <2>2 DEF R!RecorderInit, WalkInv, AbsOp, AbsStack, AbsGot
  <1>2. Inv /\ WalkInv /\ [Next]_vars => WalkInv' /\ [R!RecorderNext]_(R!rvars)
    <2> SUFFICES ASSUME Inv, WalkInv, [Next]_vars
                 PROVE  WalkInv' /\ (R!RecorderNext \/ UNCHANGED R!rvars)
      OBVIOUS
    <2>1. ASSUME NEW m \in Memories, NEW a \in Starts, CallBacktrace(m, a) \/ CallCollect(m, a)
          PROVE  WalkInv' /\ R!RecorderNext
      BY <2>1, BeginWalk
    <2>2. CASE BacktraceFrame(TRUE)
      BY <2>2, BacktraceGoesOn
    <2>3. CASE BacktraceFrame(FALSE) \/ BacktraceEnd
      BY <2>3, BacktraceStops
    <2>4. CASE CollectFrame
      BY <2>4, CollectKeeps
    <2>5. CASE CollectFull \/ CollectEnd
      BY <2>5, CollectStops
    <2>6. CASE CallProcess \/ ProcessFrame(TRUE)
      BY <2>6, ProcessGoesOn
    <2>7. CASE ProcessFrame(FALSE) \/ ProcessEnd
      BY <2>7, ProcessStops
    <2>8. CASE \/ MakeHeader \/ MakeArrayFails \/ bw_context_fini
               \/ \E depth \in Depths : MakeArray(depth)
      BY <2>8, Lifecycle
    <2>9. CASE UNCHANGED vars
      <3>1. UNCHANGED <<pc, mem, ctx, bw, out, trace, res>>
        BY <2>9 DEF vars
      <3>2. UNCHANGED <<AbsOp, AbsStack, AbsGot, Stored>>
        BY <3>1 DEF AbsOp, AbsStack, AbsGot, Stored, First
      <3> QED BY <3>1, <3>2 DEF WalkInv, R!rvars
    <2> QED BY <2>1, <2>2, <2>3, <2>4, <2>5, <2>6, <2>7, <2>8, <2>9
            DEF Next, Call, Proceed, Refuse
  <1> QED BY <1>1, <1>2, Invariance, PTL DEF Spec, Implements, R!RecorderSpec
=============================================================================
