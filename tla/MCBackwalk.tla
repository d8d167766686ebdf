----------------------------- MODULE MCBackwalk -----------------------------
(***************************************************************************)
(* Stacks for model checking Backwalk: three frames, each with any of a    *)
(* few saved frame pointers and return addresses, the ones that the checks *)
(* of context_step tell apart.                                             *)
(***************************************************************************)
EXTENDS Backwalk, TLC

CONSTANTS
    FrameAddrs,     \* where the frames are
    OddFps,         \* saved frame pointers besides the frames' addresses
    GoodIps,        \* return address of each frame, as stored
    OddIps          \* other return addresses

\* What a read across two words gives: something that looks like the address
\* of the outermost frame, and like code.
Straddled == CHOOSE a \in FrameAddrs : \A x \in FrameAddrs : a >= x

\* The memory that holds frame a's saved frame pointer f[a] and return
\* address r[a], and 0 in the other words.
StackOf(f, r) ==
    [x \in Cell |->
        IF \E a \in FrameAddrs : x = Base(a)
        THEN f[CHOOSE a \in FrameAddrs : x = Base(a)]
        ELSE IF \E a \in FrameAddrs : x = Base(a) + WordSize
        THEN r[CHOOSE a \in FrameAddrs : x = Base(a) + WordSize]
        ELSE IF x % WordSize # 0 THEN Straddled ELSE 0]

\* Return addresses: at most one frame has an odd one.
IpChoices == {[GoodIps EXCEPT ![a] = w] : a \in FrameAddrs, w \in OddIps}
                \cup {GoodIps}

\* All of them, frame-pointer cycles included.
AnyMemories == {StackOf(f, r) : f \in [FrameAddrs -> FrameAddrs \cup OddFps],
                                r \in IpChoices}

\* A saved frame pointer never leads back to an inner frame, but may lead to
\* the frame itself.
OutwardMemories ==
    {StackOf(f, r) : f \in {g \in [FrameAddrs -> FrameAddrs \cup OddFps] :
                              \A a \in FrameAddrs : g[a] \in FrameAddrs => g[a] >= a},
                     r \in IpChoices}

X64GoodIps == (4 :> 5) @@ (8 :> 10) @@ (14 :> 15)
=============================================================================
