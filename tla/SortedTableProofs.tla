-------------------------- MODULE SortedTableProofs --------------------------
(***************************************************************************)
(* The binary search of bw_dwarf_tab_lookup and bw_pe_find is correct on   *)
(* every sorted table, of any length and with any repeated addresses.      *)
(***************************************************************************)
EXTENDS SortedTable, SequenceTheorems, WellFoundedInduction, TLAPS

-----------------------------------------------------------------------------
(* Natural numbers *)

\* A set of natural numbers that is not empty has a least element.
LEMMA LeastOf ==
    ASSUME NEW T \in SUBSET Nat, T # {}
    PROVE  \E x \in T : \A y \in T : x <= y
  <1> DEFINE R == {ss \in Nat \X Nat : ss[1] < ss[2]}
  <1>1. IsWellFoundedOn(R, Nat)
    BY NatLessThanWellFounded DEF OpToRel
  <1>2. \A x, y \in Nat : x < y => <<x, y>> \in R
    OBVIOUS
  <1> HIDE DEF R
  <1>3. PICK x \in T : \A y \in T : ~ (<<y, x>> \in R)
    BY <1>1, WFMin
  <1>4. ASSUME NEW y \in T PROVE x <= y
    <2>1. x \in Nat /\ y \in Nat
      OBVIOUS
    <2>2. ~(y < x)
      BY <1>2, <1>3, <2>1
    <2> QED BY <2>1, <2>2
  <1> QED BY <1>4

\* Induction, for a set of natural numbers.
LEMMA Inductive ==
    ASSUME NEW S, 0 \in S, \A n \in Nat : n \in S => n + 1 \in S
    PROVE  \A n \in Nat : n \in S
  <1> SUFFICES ASSUME NEW n \in Nat, n \notin S PROVE FALSE
    OBVIOUS
  <1> DEFINE T == {m \in Nat : m \notin S}
  <1>1. T # {} /\ T \in SUBSET Nat
    OBVIOUS
  <1>2. PICK x \in T : \A y \in T : x <= y
    BY <1>1, LeastOf
  <1>3. x # 0 /\ x - 1 \in Nat /\ x - 1 \in S
    BY <1>2
  <1> QED BY <1>2, <1>3

\* A set of natural numbers that is bounded and not empty has a greatest one.
LEMMA GreatestOf ==
    ASSUME NEW n \in Nat, NEW T \in SUBSET (0 .. n), T # {}
    PROVE  \E x \in T : \A y \in T : y <= x
  <1> DEFINE U == {n - m : m \in T}
  <1>1. U \in SUBSET Nat /\ U # {}
    <2>1. ASSUME NEW m \in T PROVE n - m \in Nat /\ n - m \in U
      BY m \in 0 .. n
    <2> QED BY <2>1
  <1>2. PICK z \in U : \A w \in U : z <= w
    BY <1>1, LeastOf
  <1>3. PICK x \in T : z = n - x
    OBVIOUS
  <1>4. ASSUME NEW y \in T PROVE y <= x
    <2>1. n - x <= n - y
      BY <1>2, <1>3
    <2> QED BY <2>1
  <1> QED BY <1>4

\* Division with remainder.
LEMMA DivMod ==
    ASSUME NEW a \in Int, NEW n \in Nat \ {0}
    PROVE  /\ a \div n \in Int /\ a % n \in 0 .. (n - 1)
           /\ a = n * (a \div n) + (a % n)
           /\ a \in Nat => a \div n \in Nat
  BY Z3

\* Quotient and remainder are unique.
LEMMA DivModUnique ==
    ASSUME NEW n \in Nat \ {0}, NEW q \in Int, NEW r \in 0 .. (n - 1), NEW a \in Int,
           a = n * q + r
    PROVE  a \div n = q /\ a % n = r
  <1> DEFINE x == a \div n
             y == a % n
  <1>1. x \in Int /\ y \in 0 .. (n - 1) /\ a = n * x + y
    BY DivMod
  <1> HIDE DEF x, y
  <1>2. n * (x - q) = r - y
    BY <1>1, Z3
  <1>3. x - q \in Int /\ r - y < n /\ r - y > -n
    BY <1>1, Z3
  <1>4. x - q = 0
    <2>1. CASE x - q >= 1
      <3>1. n * (x - q) >= n
        BY <1>3, <2>1, Z3
      <3> QED BY <1>1, <1>2, <1>3, <3>1, Z3
    <2>2. CASE x - q <= -1
      <3>1. n * (x - q) <= -n
        BY <1>3, <2>2, Z3
      <3> QED BY <1>1, <1>2, <1>3, <3>1, Z3
    <2> QED BY <1>1, <2>1, <2>2, Z3
  <1>5. x = q
    BY <1>1, <1>4
  <1>6. y = r
    BY <1>1, <1>2, <1>4, Z3
  <1> QED BY <1>5, <1>6 DEF x, y

\* A sum may be reduced, and divided, in two steps.
LEMMA ModAdd ==
    ASSUME NEW a \in Int, NEW b \in Int, NEW n \in Nat \ {0}
    PROVE  /\ ((a % n) + b) % n = (a + b) % n
           /\ (a \div n) + (((a % n) + b) \div n) = (a + b) \div n
  <1> DEFINE q == a \div n
             r == a % n
  <1>1. q \in Int /\ r \in 0 .. (n - 1) /\ a = n * q + r
    BY DivMod
  <1> HIDE DEF q, r
  <1> DEFINE x == (r + b) \div n
             y == (r + b) % n
  <1>2. x \in Int /\ y \in 0 .. (n - 1) /\ r + b = n * x + y
    BY <1>1, DivMod
  <1> HIDE DEF x, y
  <1>3. n * (q + x) = n * q + n * x
    BY <1>1, <1>2, Z3
  <1>4. a + b = n * (q + x) + y /\ q + x \in Int /\ a + b \in Int
    BY <1>1, <1>2, <1>3
  <1>5. (a + b) \div n = q + x /\ (a + b) % n = y
    BY <1>2, <1>4, DivModUnique
  <1> QED BY <1>5 DEF q, r, x, y

-----------------------------------------------------------------------------
(* Sorted tables *)

\* A table: its entries have addresses.
Table(t) == Len(t) \in Nat /\ \A m \in 1 .. Len(t) : t[m].addr \in Int

\* What qsort leaves behind.
Sorted(t) == \A m, n \in 1 .. Len(t) : m <= n => t[m].addr <= t[n].addr

\* It is enough that neighbours are in order.
LEMMA SortedByNeighbours ==
    ASSUME NEW t, Table(t), \A m \in 1 .. (Len(t) - 1) : t[m].addr <= t[m + 1].addr
    PROVE  Sorted(t)
  <1> SUFFICES ASSUME NEW m \in 1 .. Len(t)
               PROVE  \A n \in 1 .. Len(t) : m <= n => t[m].addr <= t[n].addr
    BY DEF Sorted
  <1> DEFINE S == {d \in Nat : m + d <= Len(t) => t[m].addr <= t[m + d].addr}
  <1>1. 0 \in S
    BY DEF Table
  <1>2. ASSUME NEW d \in Nat, d \in S PROVE d + 1 \in S
    <2> SUFFICES ASSUME m + (d + 1) <= Len(t) PROVE t[m].addr <= t[m + (d + 1)].addr
      OBVIOUS
    <2>1. m + d \in 1 .. (Len(t) - 1) /\ (m + d) + 1 = m + (d + 1)
      BY DEF Table
    <2>2. t[m].addr <= t[m + d].addr /\ t[m + d].addr <= t[m + (d + 1)].addr
      BY <1>2, <2>1
    <2>3. t[m].addr \in Int /\ t[m + d].addr \in Int /\ t[m + (d + 1)].addr \in Int
      <3>1. m \in 1 .. Len(t) /\ m + d \in 1 .. Len(t) /\ m + (d + 1) \in 1 .. Len(t)
        BY <2>1 DEF Table
      <3> QED BY <3>1 DEF Table
    <2> QED BY <2>2, <2>3
  <1> HIDE DEF S
  <1>3. \A d \in Nat : d \in S
    BY <1>1, <1>2, Inductive
  <1>4. ASSUME NEW n \in 1 .. Len(t), m <= n PROVE t[m].addr <= t[n].addr
    <2>1. n - m \in S /\ m + (n - m) = n
      BY <1>3, <1>4 DEF Table
    <2> QED BY <2>1 DEF S
  <1> QED BY <1>4

\* The entries of lo .. hi - 1, counted from 0, that are at or below addr.
Hits(t, addr, lo, hi) == {m \in lo .. (hi - 1) : t[m + 1].addr <= addr}

\* r is the answer of the search of lo .. hi - 1: the last hit, or best.
Answers(t, addr, lo, hi, best, r) ==
    \/ Hits(t, addr, lo, hi) = {} /\ r = best
    \/ r \in Hits(t, addr, lo, hi) /\ \A m \in Hits(t, addr, lo, hi) : m <= r

\* There is one answer, and only one.
LEMMA OneAnswer ==
    ASSUME NEW t, NEW addr, Table(t), NEW lo \in 0 .. Len(t), NEW hi \in 0 .. Len(t), NEW best
    PROVE  /\ \E r : Answers(t, addr, lo, hi, best, r)
           /\ \A r, q : (Answers(t, addr, lo, hi, best, r) /\ Answers(t, addr, lo, hi, best, q)) => r = q
  <1>1. Hits(t, addr, lo, hi) \subseteq 0 .. Len(t)
    BY DEF Hits, Table
  <1>2. \E r : Answers(t, addr, lo, hi, best, r)
    <2>1. CASE Hits(t, addr, lo, hi) = {}
      BY <2>1 DEF Answers
    <2>2. CASE Hits(t, addr, lo, hi) # {}
      <3>1. PICK r \in Hits(t, addr, lo, hi) : \A m \in Hits(t, addr, lo, hi) : m <= r
        BY <1>1, <2>2, GreatestOf DEF Table
      <3> QED BY <3>1 DEF Answers
    <2> QED BY <2>1, <2>2
  <1>3. ASSUME NEW r, NEW q, Answers(t, addr, lo, hi, best, r), Answers(t, addr, lo, hi, best, q)
        PROVE  r = q
    <2>1. CASE Hits(t, addr, lo, hi) = {}
      BY <1>3, <2>1 DEF Answers
    <2>2. CASE Hits(t, addr, lo, hi) # {}
      <3>1. r \in Int /\ q \in Int /\ r <= q /\ q <= r
        BY <1>1, <1>3, <2>2 DEF Answers, Table
      <3> QED BY <3>1
    <2> QED BY <2>1, <2>2
  <1> QED BY <1>2, <1>3

\* Halving keeps the answer: what the search of the half that is left answers
\* is the answer for the whole.
LEMMA HalvingKeeps ==
    ASSUME NEW t, NEW addr \in Int, Table(t), Sorted(t),
           NEW lo \in 0 .. Len(t), NEW hi \in 0 .. Len(t), NEW best, NEW mid \in lo .. (hi - 1), NEW r
    PROVE  /\ (Below(t[mid + 1], addr) /\ Answers(t, addr, mid + 1, hi, mid, r))
                 => Answers(t, addr, lo, hi, best, r)
           /\ (~Below(t[mid + 1], addr) /\ Answers(t, addr, lo, mid, best, r))
                 => Answers(t, addr, lo, hi, best, r)
  <1>0. Len(t) \in Nat /\ mid \in Nat /\ mid + 1 \in 1 .. Len(t)
    BY DEF Table
  <1>1. ASSUME Below(t[mid + 1], addr), Answers(t, addr, mid + 1, hi, mid, r)
        PROVE  Answers(t, addr, lo, hi, best, r)
    <2>1. mid \in Hits(t, addr, lo, hi)
      BY <1>0, <1>1 DEF Below, Hits
    <2>2. Hits(t, addr, mid + 1, hi) = {m \in Hits(t, addr, lo, hi) : m > mid}
      BY <1>0 DEF Hits
    <2>3. \A m \in Hits(t, addr, lo, hi) : m \in Int
      BY DEF Hits
    <2>4. CASE Hits(t, addr, mid + 1, hi) = {}
      <3>1. r = mid
        BY <1>1, <2>4 DEF Answers
      <3>2. \A m \in Hits(t, addr, lo, hi) : m <= mid
        BY <1>0, <2>2, <2>3, <2>4
      <3> QED BY <2>1, <3>1, <3>2 DEF Answers
    <2>5. CASE Hits(t, addr, mid + 1, hi) # {}
      <3>1. /\ r \in Hits(t, addr, lo, hi) /\ r > mid
            /\ \A m \in Hits(t, addr, lo, hi) : m > mid => m <= r
        BY <1>1, <2>2, <2>5 DEF Answers
      <3>2. \A m \in Hits(t, addr, lo, hi) : m <= r
        BY <1>0, <2>3, <3>1
      <3> QED BY <3>1, <3>2 DEF Answers
    <2> QED BY <2>4, <2>5
  <1>2. ASSUME ~Below(t[mid + 1], addr), Answers(t, addr, lo, mid, best, r)
        PROVE  Answers(t, addr, lo, hi, best, r)
    <2>1. ASSUME NEW m \in mid .. (hi - 1) PROVE ~(t[m + 1].addr <= addr)
      <3>1. m + 1 \in 1 .. Len(t) /\ mid + 1 <= m + 1
        BY <1>0
      <3>2. t[mid + 1].addr <= t[m + 1].addr /\ t[mid + 1].addr \in Int /\ t[m + 1].addr \in Int
        BY <1>0, <3>1 DEF Sorted, Table
      <3> QED BY <1>2, <3>2 DEF Below
    <2>2. Hits(t, addr, lo, mid) = Hits(t, addr, lo, hi)
      BY <1>0, <2>1 DEF Hits
    <2> QED BY <1>2, <2>2 DEF Answers
  <1> QED BY <1>1, <1>2

\* One turn of the loop, as a function of lo, hi and best.
Turn(t, addr, g) ==
    [x \in (0 .. Len(t)) \X (0 .. Len(t)) \X (-1 .. Len(t)) |->
        IF x[1] < x[2]
        THEN IF Below(t[x[1] + ((x[2] - x[1]) \div 2) + 1], addr)
             THEN g[<<x[1] + ((x[2] - x[1]) \div 2) + 1, x[2], x[1] + ((x[2] - x[1]) \div 2)>>]
             ELSE g[<<x[1], x[1] + ((x[2] - x[1]) \div 2), x[3]>>]
        ELSE x[3]]

\* The end of the loop.
LEMMA TurnEnds ==
    ASSUME NEW t, NEW addr, NEW g, Table(t),
           NEW lo \in 0 .. Len(t), NEW hi \in 0 .. Len(t), NEW best \in -1 .. Len(t), lo >= hi
    PROVE  Turn(t, addr, g)[<<lo, hi, best>>] = best
  <1>1. ~(lo < hi)
    BY DEF Table
  <1>2. <<lo, hi, best>> \in (0 .. Len(t)) \X (0 .. Len(t)) \X (-1 .. Len(t))
    OBVIOUS
  <1> QED BY <1>1, <1>2 DEF Turn

\* A turn that goes on.
LEMMA TurnHalves ==
    ASSUME NEW t, NEW addr, NEW g, Table(t),
           NEW lo \in 0 .. Len(t), NEW hi \in 0 .. Len(t), NEW best \in -1 .. Len(t), lo < hi
    PROVE  LET mid == lo + ((hi - lo) \div 2)
           IN  /\ mid \in lo .. (hi - 1)
               /\ Below(t[mid + 1], addr) =>
                     Turn(t, addr, g)[<<lo, hi, best>>] = g[<<mid + 1, hi, mid>>]
               /\ ~Below(t[mid + 1], addr) =>
                     Turn(t, addr, g)[<<lo, hi, best>>] = g[<<lo, mid, best>>]
  <1> DEFINE mid == lo + ((hi - lo) \div 2)
  <1>1. <<lo, hi, best>> \in (0 .. Len(t)) \X (0 .. Len(t)) \X (-1 .. Len(t))
    OBVIOUS
  <1>2. Turn(t, addr, g)[<<lo, hi, best>>] =
            IF Below(t[mid + 1], addr) THEN g[<<mid + 1, hi, mid>>] ELSE g[<<lo, mid, best>>]
    BY <1>1 DEF Turn
  <1>3. mid \in lo .. (hi - 1)
    BY DEF Table
  <1> HIDE DEF mid
  <1>4. /\ Below(t[mid + 1], addr) =>
              Turn(t, addr, g)[<<lo, hi, best>>] = g[<<mid + 1, hi, mid>>]
        /\ ~Below(t[mid + 1], addr) =>
              Turn(t, addr, g)[<<lo, hi, best>>] = g[<<lo, mid, best>>]
    BY <1>2
  <1> QED BY <1>3, <1>4 DEF mid

\* A function that the loop's turns satisfy gives the answers.
LEMMA TurnsAnswer ==
    ASSUME NEW t, NEW addr \in Int, Table(t), Sorted(t), NEW g, g = Turn(t, addr, g),
           NEW lo \in 0 .. Len(t), NEW hi \in 0 .. Len(t), NEW best \in -1 .. Len(t)
    PROVE  Answers(t, addr, lo, hi, best, g[<<lo, hi, best>>])
  <1> DEFINE Good(l, h) == \A b \in -1 .. Len(t) : Answers(t, addr, l, h, b, g[<<l, h, b>>])
             S == {d \in Nat : \A l, h \in 0 .. Len(t) : h - l <= d => Good(l, h)}
  <1>0. Len(t) \in Nat
    BY DEF Table
  <1>1. 0 \in S
    <2> SUFFICES ASSUME NEW l \in 0 .. Len(t), NEW h \in 0 .. Len(t), h - l <= 0,
                        NEW b \in -1 .. Len(t)
                 PROVE  Answers(t, addr, l, h, b, g[<<l, h, b>>])
      OBVIOUS
    <2>1. g[<<l, h, b>>] = b
      <3>1. l >= h
        BY <1>0
      <3>2. Turn(t, addr, g)[<<l, h, b>>] = b
        BY <3>1, TurnEnds
      <3> QED BY <3>2
    <2>2. Hits(t, addr, l, h) = {}
      BY <1>0 DEF Hits
    <2> QED BY <2>1, <2>2 DEF Answers
  <1>2. ASSUME NEW d \in Nat, d \in S PROVE d + 1 \in S
    <2> SUFFICES ASSUME NEW l \in 0 .. Len(t), NEW h \in 0 .. Len(t), h - l <= d + 1,
                        NEW b \in -1 .. Len(t)
                 PROVE  Answers(t, addr, l, h, b, g[<<l, h, b>>])
      OBVIOUS
    <2>1. CASE l >= h
      <3>1. h - l <= d
        BY <1>0, <2>1
      <3> QED BY <1>2, <3>1
    <2>2. CASE l < h
      <3> DEFINE mid == l + ((h - l) \div 2)
      <3>1. /\ mid \in l .. (h - 1)
            /\ Below(t[mid + 1], addr) => g[<<l, h, b>>] = g[<<mid + 1, h, mid>>]
            /\ ~Below(t[mid + 1], addr) => g[<<l, h, b>>] = g[<<l, mid, b>>]
        BY <2>2, TurnHalves
      <3> HIDE DEF mid
      <3>2. /\ mid + 1 \in 0 .. Len(t) /\ mid \in 0 .. Len(t) /\ mid \in -1 .. Len(t)
            /\ h - (mid + 1) <= d /\ mid - l <= d
        <4>1. l \in Int /\ h \in Int /\ mid \in Int /\ l <= mid /\ mid <= h - 1 /\ h - l <= d + 1
          BY <1>0, <3>1
        <4> QED BY <1>0, <4>1
      <3>3. Answers(t, addr, mid + 1, h, mid, g[<<mid + 1, h, mid>>])
        BY <1>2, <3>2
      <3>4. Answers(t, addr, l, mid, b, g[<<l, mid, b>>])
        BY <1>2, <3>2
      <3> QED BY <3>1, <3>3, <3>4, HalvingKeeps
    <2> QED BY <1>0, <2>1, <2>2
  <1> HIDE DEF S
  <1>3. \A d \in Nat : d \in S
    BY <1>1, <1>2, Inductive
  <1>4. Len(t) \in S /\ hi - lo <= Len(t)
    BY <1>0, <1>3
  <1> QED BY <1>4 DEF S

\* There is such a function.
LEMMA TurnsExist ==
    ASSUME NEW t, NEW addr \in Int, Table(t), Sorted(t)
    PROVE  \E g : g = Turn(t, addr, g)
  <1> DEFINE D == (0 .. Len(t)) \X (0 .. Len(t)) \X (-1 .. Len(t))
             A(x) == CHOOSE r : Answers(t, addr, x[1], x[2], x[3], r)
             G == [x \in D |-> A(x)]
  <1>0. Len(t) \in Nat
    BY DEF Table
  <1>1. ASSUME NEW lo \in 0 .. Len(t), NEW hi \in 0 .. Len(t), NEW best \in -1 .. Len(t)
        PROVE  Answers(t, addr, lo, hi, best, G[<<lo, hi, best>>])
    <2>1. G[<<lo, hi, best>>] = CHOOSE r : Answers(t, addr, lo, hi, best, r)
      OBVIOUS
    <2>2. \E r : Answers(t, addr, lo, hi, best, r)
      BY OneAnswer
    <2> HIDE DEF G
    <2> QED BY <2>1, <2>2
  <1>2. ASSUME NEW x \in D PROVE G[x] = Turn(t, addr, G)[x]
    <2> PICK lo \in 0 .. Len(t), hi \in 0 .. Len(t), best \in -1 .. Len(t) : x = <<lo, hi, best>>
      OBVIOUS
    <2> HIDE DEF G
    <2>1. Answers(t, addr, lo, hi, best, G[<<lo, hi, best>>])
      BY <1>1
    <2>2. CASE lo >= hi
      <3>1. Turn(t, addr, G)[<<lo, hi, best>>] = best
        BY <2>2, TurnEnds
      <3>2. Hits(t, addr, lo, hi) = {}
        BY <1>0, <2>2 DEF Hits
      <3> QED BY <2>1, <3>1, <3>2 DEF Answers
    <2>3. CASE lo < hi
      <3> DEFINE mid == lo + ((hi - lo) \div 2)
                 y == Turn(t, addr, G)[<<lo, hi, best>>]
      <3>1. /\ mid \in lo .. (hi - 1)
            /\ Below(t[mid + 1], addr) => y = G[<<mid + 1, hi, mid>>]
            /\ ~Below(t[mid + 1], addr) => y = G[<<lo, mid, best>>]
        BY <2>3, TurnHalves
      <3> HIDE DEF mid, y
      <3>2. mid + 1 \in 0 .. Len(t) /\ mid \in 0 .. Len(t) /\ mid \in -1 .. Len(t)
        BY <1>0, <3>1
      <3>3. Answers(t, addr, mid + 1, hi, mid, G[<<mid + 1, hi, mid>>])
        BY <1>1, <3>2
      <3>4. Answers(t, addr, lo, mid, best, G[<<lo, mid, best>>])
        BY <1>1, <3>2
      <3>5. Answers(t, addr, lo, hi, best, y)
        BY <3>1, <3>3, <3>4, HalvingKeeps
      <3>6. G[<<lo, hi, best>>] = y
        BY <2>1, <3>5, OneAnswer
      <3> QED BY <3>6 DEF y
    <2> QED BY <1>0, <2>2, <2>3
  <1>3. G = Turn(t, addr, G)
    <2>1. G = [x \in D |-> G[x]] /\ Turn(t, addr, G) = [x \in D |-> Turn(t, addr, G)[x]]
      BY DEF Turn
    <2> HIDE DEF G
    <2> QED BY <1>2, <2>1
  <1> QED BY <1>3

\* The search of a sorted table finds the last entry at or below the address,
\* and none only if there is none.
THEOREM SearchFinds ==
    ASSUME NEW t, NEW addr \in Int, Table(t), Sorted(t)
    PROVE  Search(t, addr) = LastAtOrBelow(t, addr) - 1
  <1> DEFINE bs == CHOOSE g : g = Turn(t, addr, g)
             n == Len(t)
             r == bs[<<0, n, -1>>]
             below == {m \in 1 .. n : t[m].addr <= addr}
  <1>0. n \in Nat
    BY DEF Table
  <1>1. Search(t, addr) = r
    BY DEF Search, Turn
  <1>2. bs = Turn(t, addr, bs)
    BY TurnsExist
  <1> HIDE DEF bs
  <1>3. Answers(t, addr, 0, n, -1, r)
    BY <1>0, <1>2, TurnsAnswer
  <1> HIDE DEF r
  <1>4. CASE Hits(t, addr, 0, n) = {}
    <2>1. r = -1
      BY <1>3, <1>4 DEF Answers
    <2>2. below = {}
      <3> SUFFICES ASSUME NEW m \in below PROVE FALSE
        OBVIOUS
      <3>1. m - 1 \in 0 .. (n - 1) /\ (m - 1) + 1 = m
        BY <1>0
      <3>2. m - 1 \in Hits(t, addr, 0, n)
        BY <3>1 DEF Hits
      <3> QED BY <1>4, <3>2
    <2> QED BY <1>1, <2>1, <2>2 DEF LastAtOrBelow
  <1>5. CASE Hits(t, addr, 0, n) # {}
    <2>1. r \in Hits(t, addr, 0, n) /\ \A m \in Hits(t, addr, 0, n) : m <= r
      BY <1>3, <1>5 DEF Answers
    <2>2. r \in 0 .. (n - 1) /\ r + 1 \in below
      BY <1>0, <2>1 DEF Hits
    <2>3. ASSUME NEW m \in below PROVE m <= r + 1
      <3>1. m - 1 \in 0 .. (n - 1) /\ (m - 1) + 1 = m
        BY <1>0
      <3>2. m - 1 \in Hits(t, addr, 0, n)
        BY <3>1 DEF Hits
      <3>3. m - 1 <= r
        BY <2>1, <3>2
      <3> QED BY <2>2, <3>1, <3>3
    <2> DEFINE last == CHOOSE m \in below : \A k \in below : k <= m
    <2>4. last \in below /\ \A k \in below : k <= last
      BY <2>2, <2>3
    <2> HIDE DEF last
    <2>5. last = r + 1
      <3>1. last \in Int /\ last <= r + 1 /\ r + 1 <= last
        BY <1>0, <2>2, <2>3, <2>4
      <3> QED BY <2>2, <3>1
    <2>6. LastAtOrBelow(t, addr) = last
      BY <2>2 DEF LastAtOrBelow, last
    <2> QED BY <1>1, <2>2, <2>5, <2>6
  <1> QED BY <1>4, <1>5

\* Every result of qsort is a sorted permutation of the table.
LEMMA SortingsSorted ==
    ASSUME NEW E, NEW t \in Seq(E), \A e \in E : e.addr \in Int, NEW s \in Sortings(t)
    PROVE  /\ s \in Seq(E) /\ Len(s) = Len(t) /\ Table(s) /\ Sorted(s)
           /\ \E p \in [1 .. Len(t) -> 1 .. Len(t)] :
                 /\ \A m, n \in 1 .. Len(t) : p[m] = p[n] => m = n
                 /\ \A m \in 1 .. Len(t) : s[m] = t[p[m]]
  <1>1. PICK p \in [1 .. Len(t) -> 1 .. Len(t)] :
           /\ \A m, n \in 1 .. Len(t) : p[m] = p[n] => m = n
           /\ \A m \in 1 .. (Len(t) - 1) : t[p[m]].addr <= t[p[m + 1]].addr
           /\ s = [m \in 1 .. Len(t) |-> t[p[m]]]
    BY DEF Sortings
  <1>2. Len(t) \in Nat /\ \A m \in 1 .. Len(t) : t[p[m]] \in E
    BY <1>1, LenProperties, ElementOfSeq
  <1>3. s \in [1 .. Len(t) -> E]
    BY <1>1, <1>2
  <1>4. s \in Seq(E) /\ Len(s) = Len(t)
    BY <1>2, <1>3, SeqDef, LenProperties
  <1>5. Table(s)
    BY <1>2, <1>3, <1>4 DEF Table
  <1>6. \A m \in 1 .. (Len(s) - 1) : s[m].addr <= s[m + 1].addr
    <2> SUFFICES ASSUME NEW m \in 1 .. (Len(s) - 1) PROVE s[m].addr <= s[m + 1].addr
      OBVIOUS
    <2>1. m \in 1 .. Len(t) /\ m + 1 \in 1 .. Len(t) /\ m \in 1 .. (Len(t) - 1)
      BY <1>2, <1>4
    <2> QED BY <1>1, <2>1
  <1>7. Sorted(s)
    BY <1>5, <1>6, SortedByNeighbours
  <1> QED BY <1>1, <1>4, <1>5, <1>7

-----------------------------------------------------------------------------
\* g goes from each value to the next by step.
Follows(g, b, step) == g[0] = b /\ \A n \in Nat : g[n + 1] = step[<<g[n], n + 1>>]

\* A function on the natural numbers can be defined from each value to the next.
LEMMA Recursion ==
    ASSUME NEW X, NEW b \in X, NEW step \in [X \X Nat -> X]
    PROVE  \E g \in [Nat -> X] : Follows(g, b, step)
  <1> DEFINE Good(n, g) == /\ g \in [0 .. n -> X] /\ g[0] = b
                           /\ \A k \in 0 .. (n - 1) : g[k + 1] = step[<<g[k], k + 1>>]
             S == {n \in Nat : \E g : Good(n, g)}
  <1>1. 0 \in S
    <2> DEFINE g == [k \in 0 .. 0 |-> b]
    <2>1. Good(0, g)
      OBVIOUS
    <2> QED BY <2>1
  <1>2. ASSUME NEW n \in Nat, n \in S PROVE n + 1 \in S
    <2>1. PICK g : Good(n, g)
      BY <1>2
    <2> DEFINE x == step[<<g[n], n + 1>>]
               h == [k \in 0 .. (n + 1) |-> IF k = n + 1 THEN x ELSE g[k]]
    <2>2. x \in X
      <3>1. g[n] \in X /\ n + 1 \in Nat
        BY <2>1
      <3> QED BY <3>1
    <2>3. \A k \in 0 .. (n + 1) : k # n + 1 => k \in 0 .. n
      OBVIOUS
    <2>4. h \in [0 .. (n + 1) -> X] /\ h[0] = b
      BY <2>1, <2>2, <2>3
    <2>5. ASSUME NEW k \in 0 .. ((n + 1) - 1) PROVE h[k + 1] = step[<<h[k], k + 1>>]
      <3>1. k \in 0 .. (n + 1) /\ k # n + 1 /\ k + 1 \in 0 .. (n + 1) /\ (k = n \/ k \in 0 .. (n - 1))
            /\ (k + 1 = n + 1 <=> k = n)
        OBVIOUS
      <3>2. h[k] = g[k]
        BY <3>1
      <3>3. CASE k = n
        BY <3>1, <3>2, <3>3
      <3>4. CASE k # n
        BY <2>1, <3>1, <3>2, <3>4
      <3> QED BY <3>3, <3>4
    <2> HIDE DEF h
    <2> QED BY <2>4, <2>5
  <1>3. \A n \in Nat : n \in S
    <2> HIDE DEF S
    <2> QED BY <1>1, <1>2, Inductive
  <1>4. ASSUME NEW m \in Nat, NEW n \in Nat, NEW g, NEW h, Good(m, g), Good(n, h)
        PROVE  \A k \in Nat : k <= m /\ k <= n => g[k] = h[k]
    <2> DEFINE T == {k \in Nat : k <= m /\ k <= n => g[k] = h[k]}
    <2>1. 0 \in T
      BY <1>4
    <2>2. ASSUME NEW k \in Nat, k \in T PROVE k + 1 \in T
      <3> SUFFICES ASSUME k + 1 <= m, k + 1 <= n PROVE g[k + 1] = h[k + 1]
        OBVIOUS
      <3>1. g[k] = h[k] /\ k \in 0 .. (m - 1) /\ k \in 0 .. (n - 1)
        BY <2>2
      <3> QED BY <1>4, <3>1
    <2>3. \A k \in Nat : k \in T
      <3> HIDE DEF T
      <3> QED BY <2>1, <2>2, Inductive
    <2> QED BY <2>3
  <1> DEFINE a(n) == CHOOSE g : Good(n, g)
             G == [n \in Nat |-> a(n)[n]]
  <1>5. \A n \in Nat : Good(n, a(n))
    BY <1>3
  <1>6. \A n \in Nat : G[n] = a(n)[n]
    OBVIOUS
  <1> HIDE DEF a
  <1>7. G \in [Nat -> X]
    <2>1. ASSUME NEW n \in Nat PROVE a(n)[n] \in X
      <3>1. a(n) \in [0 .. n -> X] /\ n \in 0 .. n
        BY <1>5
      <3> QED BY <3>1
    <2> QED BY <2>1
  <1>8. G[0] = b
    BY <1>5, <1>6
  <1> HIDE DEF G
  <1>9. ASSUME NEW n \in Nat PROVE G[n + 1] = step[<<G[n], n + 1>>]
    <2>1. Good(n, a(n)) /\ Good(n + 1, a(n + 1))
      BY <1>5
    <2>2. a(n)[n] = a(n + 1)[n]
      <3> HIDE DEF Good
      <3> QED BY <2>1, <1>4
    <2>3. n \in 0 .. ((n + 1) - 1)
      OBVIOUS
    <2>4. a(n + 1)[n + 1] = step[<<a(n + 1)[n], n + 1>>]
      BY <2>1, <2>3
    <2> QED BY <1>6, <2>2, <2>4
  <1> QED BY <1>7, <1>8, <1>9 DEF Follows

\* The same up to a bound.
FollowsUpTo(N, g, b, step) == g[0] = b /\ \A k \in 1 .. N : g[k] = step[<<g[k - 1], k>>]

LEMMA RecursionUpTo ==
    ASSUME NEW N \in Nat, NEW X, NEW b \in X, NEW step \in [X \X (1 .. N) -> X]
    PROVE  \E g \in [0 .. N -> X] : FollowsUpTo(N, g, b, step)
  <1> DEFINE all == [z \in X \X Nat |-> IF z[2] \in 1 .. N THEN step[z] ELSE b]
  <1>1. all \in [X \X Nat -> X]
    <2>1. ASSUME NEW z \in X \X Nat, z[2] \in 1 .. N PROVE step[z] \in X
      BY <2>1
    <2> QED BY <2>1
  <1>2. \A x \in X, k \in 1 .. N : all[<<x, k>>] = step[<<x, k>>]
    OBVIOUS
  <1> HIDE DEF all
  <1>3. PICK g \in [Nat -> X] : g[0] = b /\ \A n \in Nat : g[n + 1] = all[<<g[n], n + 1>>]
    <2>1. \E g \in [Nat -> X] : Follows(g, b, all)
      BY <1>1, Recursion
    <2> QED BY <2>1 DEF Follows
  <1> DEFINE h == [k \in 0 .. N |-> g[k]]
  <1>4. h \in [0 .. N -> X] /\ h[0] = b
    BY <1>3
  <1>5. ASSUME NEW k \in 1 .. N PROVE h[k] = step[<<h[k - 1], k>>]
    <2>1. k - 1 \in Nat /\ (k - 1) + 1 = k /\ k \in 0 .. N /\ k - 1 \in 0 .. N
      OBVIOUS
    <2>2. g[k] = all[<<g[k - 1], k>>] /\ g[k - 1] \in X
      BY <1>3, <2>1
    <2> QED BY <1>2, <2>1, <2>2
  <1> QED BY <1>4, <1>5 DEF FollowsUpTo
=============================================================================
