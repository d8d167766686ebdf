---------------------------- MODULE SortedTable ----------------------------
(***************************************************************************)
(* The tables of src/src/dwarf_line.c (rows) and src/src/win.c (symbols):  *)
(* sequences of records with a field addr, sorted by qsort and searched by *)
(* halving.                                                                *)
(***************************************************************************)
EXTENDS Integers, Sequences

\* qsort is not stable: entries of equal addresses may end up in any order.
Sortings(t) ==
    {[m \in 1 .. Len(t) |-> t[p[m]]] :
        p \in {q \in [1 .. Len(t) -> 1 .. Len(t)] :
                 /\ \A m, n \in 1 .. Len(t) : q[m] = q[n] => m = n
                 /\ \A m \in 1 .. (Len(t) - 1) : t[q[m]].addr <= t[q[m + 1]].addr}}

\* Variant: < for <=.
BelowStrict(x, addr) == x.addr < addr

\* The comparison of the search.
Below(x, addr) == x.addr <= addr

\* The search, on 0-based indices as in the code; -1 is (size_t)-1.
Search(t, addr) ==
    LET n == Len(t)
        bs[x \in (0 .. n) \X (0 .. n) \X (-1 .. n)] ==
            LET lo == x[1]
                hi == x[2]
                best == x[3]
                mid == lo + ((hi - lo) \div 2)
            IN  IF lo < hi
                THEN IF Below(t[mid + 1], addr) THEN bs[<<mid + 1, hi, mid>>]
                                                ELSE bs[<<lo, mid, best>>]
                ELSE best
    IN  bs[<<0, n, -1>>]

\* What the search is for: the index, from 1, of the last entry at or below
\* the address, or 0.
LastAtOrBelow(t, addr) ==
    LET below == {m \in 1 .. Len(t) : t[m].addr <= addr}
    IN  IF below = {} THEN 0 ELSE CHOOSE m \in below : \A n \in below : n <= m
=============================================================================
