-------------------------- MODULE BackwalkRecorder --------------------------
(***************************************************************************)
(* Backwalk implements Recorder.  The stack that a call finds is read off  *)
(* the memory by Frames, a definition of the frame chain that does not use *)
(* the unwinder; at every moment of a walk the stack is what the walk has  *)
(* already reported or recorded followed by the chain from its context on. *)
(* The chain must be finite: Memories without frame-pointer cycles.        *)
(***************************************************************************)
EXTENDS Backwalk

\* A stored return address v stands for user address p: they differ in the
\* authentication code only, and the code leaves the user half selected.
Denotes(v, p) ==
    IF HasPac
    THEN /\ p < VaSize
         /\ \E pac \in 0 .. (WordRange \div VaSize) :
               /\ v = p + pac * VaSize
               /\ ~\E k \in 0 .. WordRange :
                      (v \div SelectBit) = 2 * k + 1
    ELSE v = p

\* The saved frame pointer and return address of the frame at a, by the
\* calling convention: the pair at a, or, on ARM, at a - 4 and a.
FrameAt(m, a) ==
    IF FpOffset = 0 THEN <<m[a], m[a + WordSize]>> ELSE <<m[a - WordSize], m[a]>>

\* The frame at a has a caller with a frame of its own.
HasCaller(m, a) ==
    /\ a \in UserAddr
    /\ \E q \in 0 .. WordRange : a = q * WordSize
    /\ FrameAt(m, a)[1] \in UserAddr \ {a}
    /\ \E p \in UserAddr : Denotes(FrameAt(m, a)[2], p)

\* The return addresses from the frame at a outwards.
Frames(m, a) ==
    LET chain[x \in Word] ==
            IF HasCaller(m, x)
            THEN <<CHOOSE p \in UserAddr : Denotes(FrameAt(m, x)[2], p)>>
                    \o chain[FrameAt(m, x)[1]]
            ELSE <<>>
    IN  chain[a]

\* r counts down along the frame-pointer chains of m.
CountsDown(m, r) ==
    \A x \in Word : HasCaller(m, x) => r[FrameAt(m, x)[1]] < r[x]

\* The call in progress, the stack it found and what the last call gave to
\* its callback, as the Recorder sees them.
AbsOp == IF pc \in {"backtrace", "collect", "process"} THEN pc ELSE "none"

AbsStack ==
    CASE pc = "backtrace" -> out \o Frames(mem, ctx.fp)
      [] pc = "collect"   -> trace \o Frames(mem, ctx.fp)
      [] pc = "process"   -> Stored
      [] OTHER            -> <<>>

AbsGot == IF pc \in {"idle", "make"} THEN out ELSE <<>>

R == INSTANCE Recorder WITH
        Stacks <- Seq(UserAddr), Caps <- Depths \cup {0},
        op <- AbsOp, stack <- AbsStack, got <- AbsGot,
        rec <- Stored, cap <- bw.ip_max_cnt, ret <- res.ret

\* Every behaviour of the calls is one that the Recorder allows: the frames
\* reported, recorded and replayed are those of the chain in memory, in
\* order, none skipped or invented, and each answer says whether all of them
\* were.
Implements == R!RecorderSpec
=============================================================================
