------------------------------- MODULE Leb128 -------------------------------
(***************************************************************************)
(* bw_uleb and bw_sleb of src/src/dwarf_line.c.  A byte carries a digit    *)
(* below Group and, if more bytes follow, Group on top of it.  b is the    *)
(* data, q the position of the cursor from 1; an answer is [p, v, n]: the  *)
(* cursor behind the number, or 0 if it cannot be read, its value and how  *)
(* many bytes it takes.                                                    *)
(***************************************************************************)
EXTENDS Integers, Sequences, FiniteSetsExt

CONSTANTS
    Group,      \* 2^7
    Word,       \* 2^64
    LebStrings  \* byte strings to read numbers from

\* Group to the power n, what the digit after n others counts.
Weight[n \in Nat] == IF n = 0 THEN 1 ELSE Group * Weight[n - 1]

\* Both are even, and the first weight that does not fit the word is 0 in it.
ASSUME LebAssumption ==
    /\ Group \in Nat /\ Word \in Nat /\ Group > 1 /\ Word > Group
    /\ Group % 2 = 0 /\ Word % 2 = 0
    /\ \E n \in 1 .. Word : Weight[n - 1] < Word /\ Weight[n] >= Word /\ Weight[n] % Word = 0

ASSUME LebStringsAssumption == LebStrings \subseteq Seq(0 .. (2 * Group - 1))

\* Variant: one digit too many is taken.
TooLongOff(k) == Weight[k] >= Word * Group

\* k digits fill the word: shift >= 64.
TooLong(k) == Weight[k] >= Word

\* The loop that both functions share, up to the first byte that is not
\* continued.  Digits past the top of the word are shifted out.
Digits(b, q) ==
    LET last == {k \in 0 .. (Len(b) - q) : b[q + k] < Group}
        n == Min(last) + 1
        r[k \in 0 .. (Len(b) - q + 1)] ==
            IF k = 0 THEN 0 ELSE (r[k - 1] + (b[q + k - 1] % Group) * Weight[k - 1]) % Word
    IN  IF q = 0 \/ last = {} \/ TooLong(n - 1) THEN [p |-> 0, v |-> 0, n |-> 0]
        ELSE [p |-> q + n, v |-> r[n], n |-> n]

bw_uleb(b, q) == Digits(b, q)

\* The bit 0x40.
Negative(digit) == digit >= Group \div 2

bw_sleb(b, q) ==
    LET d == Digits(b, q)
        extend == d.p # 0 /\ Weight[d.n] < Word /\ Negative(b[d.p - 1])
        r == IF extend THEN d.v + (Word - Weight[d.n]) ELSE d.v
    IN  [d EXCEPT !.v = IF r >= Word \div 2 THEN r - Word ELSE r]

----------------------------------------------------------------------------
(* What the bytes b mean *)

\* The length of the number that b begins with.
Ends(b) == {n \in 1 .. Len(b) : b[n] < Group /\ \A m \in 1 .. (n - 1) : b[m] >= Group}

Total(b, n) ==
    LET sum[m \in 0 .. Len(b)] == IF m = 0 THEN 0 ELSE sum[m - 1] + (b[m] % Group) * Weight[m - 1]
    IN  sum[n]

Signed(b, n) == Total(b, n) - (IF 2 * b[n] >= Group THEN Weight[n] ELSE 0)
=============================================================================
