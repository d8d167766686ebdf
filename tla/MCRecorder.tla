----------------------------- MODULE MCRecorder -----------------------------
(* The refinement of Recorder on AArch64, with signed return addresses. *)
EXTENDS BackwalkRecorder, FiniteSets, TLC

CONSTANTS FrameAddrs, OddFps, GoodIps, OddIps

M == INSTANCE MCBackwalk

Memory64 == M!OutwardMemories

\* The chains of these memories end: a frame has at most as many frames to
\* go as there are from it outwards.
ASSUME Ends64 ==
    LET left == [x \in Word |-> IF x \in FrameAddrs
                                THEN Cardinality({a \in FrameAddrs : a >= x}) ELSE 0]
    IN  /\ left \in [Word -> 0 .. MaxTrace]
        /\ \A m \in Memory64 : CountsDown(m, left)

\* 32 is an authentication code bit, 16 the bit that selects the half.
Arm64GoodIps == (4 :> 5 + 32) @@ (8 :> 10) @@ (14 :> 15 + 32)
=============================================================================
