------------------------------ MODULE Context ------------------------------
(***************************************************************************)
(* The frame-pointer unwinder of src/src/context.c as operators on a       *)
(* memory m (the word read at every address) and a context [fp, ip], the   *)
(* words data[0] and data[1] of context_t.  The three supported            *)
(* architectures are instances: FpOffset is -1 on 32-bit ARM and 0         *)
(* elsewhere, HasPac is TRUE on AArch64, and the missing upper bound of    *)
(* 32-bit ARM is MaxAddr = WordRange - 1.                                   *)
(***************************************************************************)
EXTENDS Integers

CONSTANTS
    WordSize,   \* sizeof(uintptr_t): 4 or 8 (2 in small instances)
    WordRange,  \* uintptr_t values are 0 .. WordRange - 1
    MinAddr,    \* BW_MIN_MMAP_ADDR
    MaxAddr,    \* BW_MAX_USER_ADDR
    FpOffset,   \* FP_OFFSET, in words
    HasPac,     \* return addresses carry pointer authentication codes
    VaSize,     \* with HasPac: the address bits are those below VaSize
    SelectBit   \* with HasPac: the bit that selects the kernel half

ASSUME WordAssumption == /\ WordSize \in {2, 4, 8}
                         /\ WordRange \in Nat \ {0}
ASSUME RangeAssumption == /\ MinAddr \in Nat \ {0}
                          /\ MaxAddr \in Nat
                          /\ MinAddr <= MaxAddr
                          /\ MaxAddr < WordRange
ASSUME ArchAssumption == /\ FpOffset \in {-1, 0}
                         /\ HasPac \in BOOLEAN
                         /\ VaSize \in Nat \ {0}
                         /\ VaSize <= WordRange
                         /\ SelectBit \in Nat \ {0}
                         /\ HasPac => MaxAddr < WordRange - VaSize

Word == 0 .. (WordRange - 1)

UserAddr == MinAddr .. MaxAddr

\* The addresses that base and base + 1 of context_step can have, had the
\* checks on fp not been made.  m[a] is the word at a.  With the checks base + 1
\* can still be the word just above MaxAddr, of a frame at the very edge.
Cell == (-WordSize) .. (WordRange + WordSize - 1)

ContextT == [fp : Word, ip : Word]

----------------------------------------------------------------------------
\* XPACLRI: the code bits become copies of the bit that selects the half of
\* the address space.
bw_strip_pac(w) ==
    IF (w \div SelectBit) % 2 = 0
    THEN w % VaSize
    ELSE (WordRange - VaSize) + (w % VaSize)

\* Variant: the alignment is not checked.
FpOkNoAlign(fp) == fp \in UserAddr

\* The checks on data[0] that come before the first read.
FpOk(fp) == fp \in UserAddr /\ fp % WordSize = 0

Base(fp) == fp + WordSize * FpOffset

NextFp(m, c) == m[Base(c.fp)]

\* Variant: the authentication code is not stripped.
NextIpRaw(m, c) == m[Base(c.fp) + WordSize]

NextIp(m, c) ==
    LET ip == m[Base(c.fp) + WordSize]
    IN  IF HasPac THEN bw_strip_pac(ip) ELSE ip

\* Variant: a frame may be its own caller.
NextFpOkNoSelfLoop(m, c) == NextFp(m, c) \in UserAddr

NextFpOk(m, c) == /\ NextFp(m, c) # c.fp
                  /\ NextFp(m, c) \in UserAddr

\* Variant: the return address is not checked.
NextIpOkAny(m, c) == TRUE

NextIpOk(m, c) == NextIp(m, c) \in UserAddr

\* context_step returns true ...
StepOk(m, c) == FpOk(c.fp) /\ NextFpOk(m, c) /\ NextIpOk(m, c)

\* ... and then leaves this in the context; otherwise it changes nothing.
context_step(m, c) == [fp |-> NextFp(m, c), ip |-> NextIp(m, c)]

context_get_ip(c) == c.ip
=============================================================================
