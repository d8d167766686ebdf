---------------------------- MODULE MCWinResolve ----------------------------
(* Two threads, two bases, three images: a with COFF symbols and DWARF      *)
(* lines, b with COFF symbols only, c with a PDB.                          *)
EXTENDS WinResolve, TLC

CONSTANTS t1, t2, b1, b2, a, b, c

TwoThreads == {t1, t2}

TwoBases == {b1, b2}

AllImages == {a, b, c}

Symmetric == Permutations({t1, t2}) \cup Permutations({b1, b2})
=============================================================================
