------------------------- MODULE DwarfTablesProofs -------------------------
(***************************************************************************)
(* Proofs about DwarfTables and the numbers of Leb128, for any units,      *)
(* pools, string sections and limits, and for any width of digit and word  *)
(* of the form that LebAssumption states.                                  *)
(*                                                                         *)
(* A function that the model defines by recursion is CHOOSEn as a solution *)
(* of its equation; Recursion and RecursionUpTo show that there is one,    *)
(* and Inductive what its values are.                                      *)
(***************************************************************************)
EXTENDS DwarfTables, SortedTableProofs

(***************************************************************************)
(* Numbers                                                                 *)
(***************************************************************************)

-----------------------------------------------------------------------------
(* The variable-length numbers *)

\* The least number of a set of natural numbers.
LEMMA MinIs ==
    ASSUME NEW T \in SUBSET Nat, NEW x \in T
    PROVE  /\ Min(T) \in T /\ \A y \in T : Min(T) <= y
           /\ (\A y \in T : x <= y) => Min(T) = x
  <1>1. \E z \in T : \A y \in T : z <= y
    BY LeastOf
  <1>2. Min(T) \in T /\ \A y \in T : Min(T) <= y
    BY <1>1 DEF Min
  <1>3. ASSUME \A y \in T : x <= y PROVE Min(T) = x
    <2>1. x <= Min(T) /\ Min(T) <= x /\ x \in Nat /\ Min(T) \in Nat
      BY <1>2, <1>3
    <2> QED BY <2>1
  <1> QED BY <1>2, <1>3

\* The powers of Group.
LEMMA WeightIs ==
    /\ Weight[0] = 1
    /\ \A n \in Nat : Weight[n] \in Nat \ {0} /\ Weight[n + 1] = Group * Weight[n]
  <1> DEFINE Turn1(g) == [n \in Nat |-> IF n = 0 THEN 1 ELSE Group * g[n - 1]]
             step == [z \in Nat \X Nat |-> Group * z[1]]
  <1>0. Group \in Nat /\ Group > 1
    BY LebAssumption
  <1>1. Weight = CHOOSE g : g = Turn1(g)
    BY DEF Weight
  <1>2. \A a, b \in Nat : a * b \in Nat
    OBVIOUS
  <1>3. step \in [Nat \X Nat -> Nat] /\ \A a, b \in Nat : step[<<a, b>>] = Group * a
    BY <1>0, <1>2
  <1> HIDE DEF step
  <1>4. PICK g \in [Nat -> Nat] : Follows(g, 1, step)
    BY <1>3, Recursion
  <1>5. g = Turn1(g)
    <2>1. ASSUME NEW n \in Nat PROVE g[n] = IF n = 0 THEN 1 ELSE Group * g[n - 1]
      <3>1. CASE n = 0
        BY <1>4, <3>1 DEF Follows
      <3>2. CASE n # 0
        <4>1. n - 1 \in Nat /\ (n - 1) + 1 = n
          BY <3>2
        <4>2. g[n] = step[<<g[n - 1], n>>]
          BY <1>4, <4>1 DEF Follows
        <4> QED BY <1>3, <3>2, <4>1, <4>2
      <3> QED BY <3>1, <3>2
    <2> QED BY <2>1
  <1>6. Weight = Turn1(Weight)
    <2> HIDE DEF Turn1
    <2> QED BY <1>1, <1>5
  <1>7. Weight[0] = 1 /\ \A n \in Nat : Weight[n + 1] = Group * Weight[n]
    <2>1. \A n \in Nat : Turn1(Weight)[n] = IF n = 0 THEN 1 ELSE Group * Weight[n - 1]
      OBVIOUS
    <2> HIDE DEF Turn1
    <2>2. \A n \in Nat : n + 1 \in Nat /\ n + 1 # 0 /\ (n + 1) - 1 = n
      OBVIOUS
    <2> QED BY <1>6, <2>1, <2>2
  <1> DEFINE S == {n \in Nat : Weight[n] \in Nat \ {0}}
  <1>8. 0 \in S
    BY <1>7
  <1>9. ASSUME NEW n \in Nat, n \in S PROVE n + 1 \in S
    <2>1. \A a, b \in Nat \ {0} : a * b \in Nat \ {0}
      BY Z3
    <2>2. Weight[n + 1] = Group * Weight[n] /\ Group \in Nat \ {0} /\ Weight[n] \in Nat \ {0}
      BY <1>0, <1>7, <1>9
    <2> QED BY <2>1, <2>2
  <1>10. \A n \in Nat : n \in S
    <2> HIDE DEF S
    <2> QED BY <1>8, <1>9, Inductive
  <1> QED BY <1>7, <1>10

\* They grow.
LEMMA WeightGrows ==
    ASSUME NEW m \in Nat, NEW n \in Nat, m < n
    PROVE  Weight[m] < Weight[n]
  <1> DEFINE S == {d \in Nat : Weight[m] < Weight[m + 1 + d]}
  <1>0. Group \in Nat /\ Group > 1
    BY LebAssumption
  <1>1. ASSUME NEW k \in Nat PROVE Weight[k] < Weight[k + 1] /\ Weight[k] \in Nat
    <2>1. \A a, b \in Nat : a > 1 /\ b # 0 => b < a * b
      BY Z3
    <2>2. Weight[k + 1] = Group * Weight[k] /\ Weight[k] \in Nat \ {0}
      BY WeightIs
    <2> QED BY <1>0, <2>1, <2>2
  <1>2. 0 \in S
    <2>1. m + 1 + 0 = m + 1
      OBVIOUS
    <2> QED BY <1>1, <2>1
  <1>3. ASSUME NEW d \in Nat, d \in S PROVE d + 1 \in S
    <2>1. m + 1 + d \in Nat /\ m + 1 + (d + 1) = (m + 1 + d) + 1
      OBVIOUS
    <2>2. Weight[m + 1 + d] < Weight[(m + 1 + d) + 1] /\ Weight[m + 1 + d] \in Nat
          /\ Weight[(m + 1 + d) + 1] \in Nat /\ Weight[m] \in Nat
      BY <1>1, <2>1, WeightIs
    <2>3. Weight[m] < Weight[(m + 1 + d) + 1]
      BY <1>3, <2>2
    <2> QED BY <2>1, <2>3
  <1>4. \A d \in Nat : d \in S
    <2> HIDE DEF S
    <2> QED BY <1>2, <1>3, Inductive
  <1>5. n - m - 1 \in Nat /\ m + 1 + (n - m - 1) = n
    OBVIOUS
  <1>6. n - m - 1 \in S
    BY <1>4, <1>5
  <1> QED BY <1>5, <1>6

\* The weight at which the word is full is a multiple of it.
LEMMA WeightFull ==
    ASSUME NEW n \in Nat \ {0}, Weight[n - 1] < Word, Weight[n] >= Word
    PROVE  Weight[n] % Word = 0
  <1>1. PICK t \in 1 .. Word : Weight[t - 1] < Word /\ Weight[t] >= Word /\ Weight[t] % Word = 0
    BY LebAssumption
  <1>2. Word \in Nat /\ t \in Nat \ {0} /\ t - 1 \in Nat /\ n - 1 \in Nat
    BY LebAssumption
  <1>3. \A k \in Nat : Weight[k] \in Nat
    BY WeightIs
  <1>4. n <= t
    <2> SUFFICES ASSUME t < n PROVE FALSE
      BY <1>2
    <2>1. t = n - 1 \/ t < n - 1
      BY <1>2
    <2>2. Weight[t] <= Weight[n - 1]
      BY <1>2, <1>3, <2>1, WeightGrows
    <2> QED BY <1>1, <1>2, <1>3, <2>2
  <1>5. t <= n
    <2> SUFFICES ASSUME n < t PROVE FALSE
      BY <1>2
    <2>1. n = t - 1 \/ n < t - 1
      BY <1>2
    <2>2. Weight[n] <= Weight[t - 1]
      BY <1>2, <1>3, <2>1, WeightGrows
    <2> QED BY <1>1, <1>2, <1>3, <2>2
  <1>6. n = t
    BY <1>2, <1>4, <1>5
  <1> QED BY <1>1, <1>6

Numbers(v) == Len(v) \in Nat /\ \A m \in 1 .. Len(v) : v[m] \in Int

\* What the byte b[m] contributes as the digit after k others.
Part(b, m, k) == (b[m] % Group) * Weight[k]

\* It fits below the next weight.
LEMMA PartIs ==
    ASSUME NEW b, NEW m, b[m] \in Int, NEW k \in Nat
    PROVE  Part(b, m, k) \in Nat /\ Part(b, m, k) <= Weight[k + 1] - Weight[k]
  <1> DEFINE d == b[m] % Group
             w == Weight[k]
  <1>1. Group \in Nat \ {0} /\ w \in Nat \ {0} /\ Weight[k + 1] = Group * w
    BY LebAssumption, WeightIs
  <1>2. d \in 0 .. (Group - 1)
    BY <1>1, DivMod
  <1> HIDE DEF d, w
  <1>3. d \in Nat /\ d <= Group - 1
    BY <1>1, <1>2
  <1>4. d * w \in Nat /\ d * w <= (Group - 1) * w /\ (Group - 1) * w = Group * w - w
    BY <1>1, <1>3, Z3
  <1>5. Part(b, m, k) = d * w
    BY DEF Part, d, w
  <1> QED BY <1>1, <1>4, <1>5 DEF w

\* One turn of the reference's sum, and of the loop.
Adding(b, g) == [m \in 0 .. Len(b) |-> IF m = 0 THEN 0 ELSE g[m - 1] + Part(b, m, m - 1)]

Looping(b, q, g) ==
    [k \in 0 .. (Len(b) - q + 1) |-> IF k = 0 THEN 0 ELSE (g[k - 1] + Part(b, q + k - 1, k - 1)) % Word]

\* The sum over the first bytes is below their weight.
LEMMA TotalIs ==
    ASSUME NEW b, Numbers(b)
    PROVE  /\ Total(b, 0) = 0
           /\ \A n \in 1 .. Len(b) : Total(b, n) = Total(b, n - 1) + Part(b, n, n - 1)
           /\ \A n \in 0 .. Len(b) : Total(b, n) \in Nat /\ Total(b, n) < Weight[n]
  <1> DEFINE L == Len(b)
             T == CHOOSE g : g = Adding(b, g)
             step == [z \in Nat \X (1 .. L) |-> z[1] + Part(b, z[2], z[2] - 1)]
  <1>0. L \in Nat /\ \A m \in 1 .. L : b[m] \in Int
    BY DEF Numbers
  <1>1. \A n : Total(b, n) = T[n]
    BY DEF Total, Adding, Part
  <1>2. ASSUME NEW m \in 1 .. L PROVE Part(b, m, m - 1) \in Nat
    <2>1. m - 1 \in Nat /\ b[m] \in Int
      BY <1>0
    <2> QED BY <2>1, PartIs
  <1>3. step \in [Nat \X (1 .. L) -> Nat] /\ \A a \in Nat, m \in 1 .. L : step[<<a, m>>] = a + Part(b, m, m - 1)
    BY <1>2
  <1> HIDE DEF step
  <1>4. PICK g \in [0 .. L -> Nat] : FollowsUpTo(L, g, 0, step)
    BY <1>0, <1>3, RecursionUpTo
  <1>5. ASSUME NEW h, NEW m \in 0 .. L
        PROVE  Adding(b, h)[m] = IF m = 0 THEN 0 ELSE h[m - 1] + Part(b, m, m - 1)
    BY DEF Adding
  <1>6. g = Adding(b, g)
    <2>1. ASSUME NEW m \in 0 .. L PROVE g[m] = Adding(b, g)[m]
      <3>1. CASE m = 0
        BY <1>4, <1>5, <3>1 DEF FollowsUpTo
      <3>2. CASE m # 0
        <4>1. m \in 1 .. L /\ m - 1 \in 0 .. L
          BY <1>0, <3>2
        <4>2. g[m - 1] \in Nat
          BY <4>1
        <4>3. g[m] = step[<<g[m - 1], m>>]
          BY <1>4, <4>1 DEF FollowsUpTo
        <4> QED BY <1>3, <1>5, <3>2, <4>1, <4>2, <4>3
      <3> QED BY <3>1, <3>2
    <2> QED BY <2>1 DEF Adding
  <1>7. T = Adding(b, T)
    BY <1>6
  <1> HIDE DEF T
  <1>8. T[0] = 0 /\ \A m \in 1 .. L : T[m] = T[m - 1] + Part(b, m, m - 1)
    <2>1. 0 \in 0 .. L /\ \A m \in 1 .. L : m \in 0 .. L /\ m # 0
      BY <1>0
    <2> QED BY <1>5, <1>7, <2>1
  <1> DEFINE S == {n \in Nat : n <= L => T[n] \in Nat /\ T[n] < Weight[n]}
  <1>9. 0 \in S
    BY <1>8, WeightIs
  <1>10. ASSUME NEW n \in Nat, n \in S PROVE n + 1 \in S
    <2> SUFFICES ASSUME n + 1 <= L PROVE T[n + 1] \in Nat /\ T[n + 1] < Weight[n + 1]
      OBVIOUS
    <2>1. n + 1 \in 1 .. L /\ (n + 1) - 1 = n /\ n <= L
      BY <1>0
    <2>2. T[n + 1] = T[n] + Part(b, n + 1, n)
      BY <1>8, <2>1
    <2>3. Part(b, n + 1, n) \in Nat /\ Part(b, n + 1, n) <= Weight[n + 1] - Weight[n]
      BY <1>0, <2>1, PartIs
    <2>4. Weight[n] \in Nat /\ Weight[n + 1] \in Nat
      <3>1. n \in Nat /\ n + 1 \in Nat
        OBVIOUS
      <3> QED BY <3>1, WeightIs
    <2> QED BY <1>10, <2>1, <2>2, <2>3, <2>4
  <1>11. \A n \in Nat : n \in S
    <2> HIDE DEF S
    <2> QED BY <1>9, <1>10, Inductive
  <1>12. \A n \in 0 .. L : n \in Nat /\ n <= L
    BY <1>0
  <1> QED BY <1>1, <1>8, <1>11, <1>12

\* The loop's value after each byte.
Looped(b, q) == CHOOSE g : g = Looping(b, q, g)

\* The values that the loop of bw_uleb and bw_sleb goes through.
LEMMA LoopedIs ==
    ASSUME NEW b, Numbers(b), NEW q \in 1 .. (Len(b) + 1)
    PROVE  /\ Looped(b, q)[0] = 0
           /\ \A k \in 1 .. (Len(b) - q + 1) :
                 Looped(b, q)[k] = (Looped(b, q)[k - 1] + Part(b, q + k - 1, k - 1)) % Word
           /\ \A k \in 0 .. (Len(b) - q + 1) : Looped(b, q)[k] \in 0 .. (Word - 1)
  <1> DEFINE L == Len(b) - q + 1
             R == Looped(b, q)
             X == 0 .. (Word - 1)
             step == [z \in X \X (1 .. L) |-> (z[1] + Part(b, q + z[2] - 1, z[2] - 1)) % Word]
  <1>0. L \in Nat /\ Len(b) \in Nat /\ Word \in Nat \ {0} /\ \A m \in 1 .. Len(b) : b[m] \in Int
    BY LebAssumption DEF Numbers
  <1>2. ASSUME NEW k \in 1 .. L PROVE Part(b, q + k - 1, k - 1) \in Nat
    <2>1. k - 1 \in Nat /\ b[q + k - 1] \in Int
      <3>1. q + k - 1 \in 1 .. Len(b) /\ k - 1 \in Nat
        BY <1>0
      <3> QED BY <1>0, <3>1
    <2> QED BY <2>1, PartIs
  <1>3. ASSUME NEW a \in X, NEW k \in 1 .. L
        PROVE  (a + Part(b, q + k - 1, k - 1)) % Word \in X
    <2>1. a + Part(b, q + k - 1, k - 1) \in Int
      BY <1>0, <1>2
    <2> QED BY <1>0, <2>1, DivMod
  <1>4. /\ step \in [X \X (1 .. L) -> X]
        /\ \A a \in X, k \in 1 .. L : step[<<a, k>>] = (a + Part(b, q + k - 1, k - 1)) % Word
    <2>1. ASSUME NEW z \in X \X (1 .. L) PROVE (z[1] + Part(b, q + z[2] - 1, z[2] - 1)) % Word \in X
      <3>1. z[1] \in X /\ z[2] \in 1 .. L
        OBVIOUS
      <3> QED BY <1>3, <3>1
    <2> HIDE DEF X
    <2> QED BY <2>1
  <1> HIDE DEF step
  <1>5. PICK g \in [0 .. L -> X] : FollowsUpTo(L, g, 0, step)
    <2>1. 0 \in X
      BY <1>0
    <2> HIDE DEF X, L
    <2> QED BY <1>0, <1>4, <2>1, RecursionUpTo
  <1>6. ASSUME NEW h, NEW k \in 0 .. L
        PROVE  Looping(b, q, h)[k] = IF k = 0 THEN 0 ELSE (h[k - 1] + Part(b, q + k - 1, k - 1)) % Word
    BY DEF Looping
  <1>7. g = Looping(b, q, g)
    <2>1. ASSUME NEW k \in 0 .. L PROVE g[k] = Looping(b, q, g)[k]
      <3>1. CASE k = 0
        BY <1>5, <1>6, <3>1 DEF FollowsUpTo
      <3>2. CASE k # 0
        <4>1. k \in 1 .. L /\ k - 1 \in 0 .. L
          BY <1>0, <3>2
        <4>2. g[k - 1] \in X
          BY <4>1
        <4>3. g[k] = step[<<g[k - 1], k>>]
          BY <1>5, <4>1 DEF FollowsUpTo
        <4> HIDE DEF X, L
        <4> QED BY <1>4, <1>6, <3>2, <4>1, <4>2, <4>3
      <3> QED BY <3>1, <3>2
    <2> QED BY <2>1 DEF Looping
  <1>8. R = Looping(b, q, R)
    BY <1>7 DEF Looped
  <1> HIDE DEF R
  <1>9. R[0] = 0 /\ \A k \in 1 .. L : R[k] = (R[k - 1] + Part(b, q + k - 1, k - 1)) % Word
    <2>1. 0 \in 0 .. L /\ \A k \in 1 .. L : k \in 0 .. L /\ k # 0
      BY <1>0
    <2> HIDE DEF L
    <2> QED BY <1>6, <1>8, <2>1
  <1> DEFINE S == {n \in Nat : n <= L => R[n] \in X}
  <1>10. 0 \in S
    BY <1>0, <1>9
  <1>11. ASSUME NEW n \in Nat, n \in S PROVE n + 1 \in S
    <2> SUFFICES ASSUME n + 1 <= L PROVE R[n + 1] \in X
      OBVIOUS
    <2>1. n + 1 \in 1 .. L /\ (n + 1) - 1 = n /\ n <= L
      BY <1>0
    <2>2. R[n] \in X
      BY <1>11, <2>1
    <2> HIDE DEF X
    <2> QED BY <1>3, <1>9, <2>1, <2>2
  <1>12. \A n \in Nat : n \in S
    <2> HIDE DEF S
    <2> QED BY <1>10, <1>11, Inductive
  <1>13. \A n \in 0 .. L : n \in Nat /\ n <= L
    BY <1>0
  <1> QED BY <1>9, <1>12, <1>13 DEF R

\* The loop computes the sum, reduced to the word.
LEMMA LoopedTotal ==
    ASSUME NEW b, Numbers(b)
    PROVE  \A n \in 0 .. Len(b) : Looped(b, 1)[n] = Total(b, n) % Word
  <1> DEFINE R == Looped(b, 1)
             S == {n \in Nat : n <= Len(b) => R[n] = Total(b, n) % Word}
  <1>0. Len(b) \in Nat /\ Word \in Nat \ {0} /\ 1 \in 1 .. (Len(b) + 1) /\ Len(b) - 1 + 1 = Len(b)
        /\ \A m \in 1 .. Len(b) : b[m] \in Int
    BY LebAssumption DEF Numbers
  <1>1. 0 \in S
    <2>1. 0 % Word = 0
      <3>1. 0 = Word * 0 + 0 /\ 0 \in 0 .. (Word - 1) /\ 0 \in Int
        BY <1>0
      <3> QED BY <1>0, <3>1, DivModUnique
    <2> QED BY <1>0, <2>1, TotalIs, LoopedIs
  <1>2. ASSUME NEW n \in Nat, n \in S PROVE n + 1 \in S
    <2> SUFFICES ASSUME n + 1 <= Len(b) PROVE R[n + 1] = Total(b, n + 1) % Word
      OBVIOUS
    <2>1. n + 1 \in 1 .. Len(b) /\ n + 1 \in 1 .. (Len(b) - 1 + 1) /\ n \in 0 .. Len(b)
          /\ (n + 1) - 1 = n /\ 1 + (n + 1) - 1 = n + 1 /\ n <= Len(b)
      BY <1>0
    <2> DEFINE P == Part(b, n + 1, n)
    <2>2. R[n + 1] = (R[n] + P) % Word
      <3>1. R[n + 1] = (R[(n + 1) - 1] + Part(b, 1 + (n + 1) - 1, (n + 1) - 1)) % Word
        BY <1>0, <2>1, LoopedIs
      <3> QED BY <2>1, <3>1
    <2>3. Total(b, n + 1) = Total(b, n) + P /\ Total(b, n) \in Int
      <3>1. Total(b, n + 1) = Total(b, (n + 1) - 1) + Part(b, n + 1, (n + 1) - 1)
        BY <2>1, TotalIs
      <3>2. Total(b, n) \in Nat
        BY <2>1, TotalIs
      <3> QED BY <2>1, <3>1, <3>2
    <2>4. P \in Int
      BY <1>0, <2>1, PartIs
    <2> HIDE DEF P
    <2>5. ((Total(b, n) % Word) + P) % Word = (Total(b, n) + P) % Word
      BY <1>0, <2>3, <2>4, ModAdd
    <2> QED BY <1>2, <2>1, <2>2, <2>3, <2>5
  <1>3. \A n \in Nat : n \in S
    <2> HIDE DEF S
    <2> QED BY <1>1, <1>2, Inductive
  <1>4. \A n \in 0 .. Len(b) : n \in Nat /\ n <= Len(b)
    BY <1>0
  <1> QED BY <1>3, <1>4

\* The bytes from q on that are not continued.
LastBytes(b, q) == {k \in 0 .. (Len(b) - q) : b[q + k] < Group}

\* What the loop answers, by cases.
LEMMA DigitsCases ==
    ASSUME NEW b, Numbers(b), NEW q \in 1 .. (Len(b) + 1)
    PROVE  /\ LastBytes(b, q) = {} => Digits(b, q) = [p |-> 0, v |-> 0, n |-> 0]
           /\ \A k \in LastBytes(b, q) : (\A y \in LastBytes(b, q) : k <= y) =>
                 Digits(b, q) = IF TooLong(k) THEN [p |-> 0, v |-> 0, n |-> 0]
                                ELSE [p |-> q + (k + 1), v |-> Looped(b, q)[k + 1], n |-> k + 1]
  <1> DEFINE n == Min(LastBytes(b, q)) + 1
  <1>1. q # 0 /\ q \in Nat /\ Len(b) \in Nat
    BY DEF Numbers
  <1>2. Digits(b, q) = IF LastBytes(b, q) = {} \/ TooLong(n - 1) THEN [p |-> 0, v |-> 0, n |-> 0]
                       ELSE [p |-> q + n, v |-> Looped(b, q)[n], n |-> n]
    BY <1>1 DEF Digits, LastBytes, Looped, Looping, Part
  <1>3. ASSUME NEW k \in LastBytes(b, q), \A y \in LastBytes(b, q) : k <= y
        PROVE  n = k + 1 /\ n - 1 = k /\ LastBytes(b, q) # {}
    <2>1. LastBytes(b, q) \in SUBSET Nat
      BY <1>1 DEF LastBytes
    <2>2. Min(LastBytes(b, q)) = k
      BY <1>3, <2>1, MinIs
    <2> QED BY <2>1, <2>2
  <1> HIDE DEF n
  <1> QED BY <1>2, <1>3

\* A number that can be read lies within the data and within the word.
LEMMA DigitsIs ==
    ASSUME NEW b, Numbers(b), NEW q \in 0 .. (Len(b) + 1)
    PROVE  Digits(b, q).p \in 0 .. (Len(b) + 1) /\ Digits(b, q).v \in 0 .. (Word - 1)
  <1>0. Len(b) \in Nat /\ Word \in Nat \ {0}
    BY LebAssumption DEF Numbers
  <1> DEFINE none == [p |-> 0, v |-> 0, n |-> 0]
  <1>1. none.p = 0 /\ none.v = 0
    OBVIOUS
  <1>2. Digits(b, q) = none => Digits(b, q).p \in 0 .. (Len(b) + 1) /\ Digits(b, q).v \in 0 .. (Word - 1)
    BY <1>0, <1>1
  <1>3. CASE q = 0
    BY <1>2, <1>3 DEF Digits
  <1>4. CASE q # 0
    <2>1. q \in 1 .. (Len(b) + 1)
      BY <1>0, <1>4
    <2>2. CASE LastBytes(b, q) = {}
      BY <1>2, <2>1, <2>2, DigitsCases
    <2>3. CASE LastBytes(b, q) # {}
      <3>1. LastBytes(b, q) \in SUBSET Nat
        BY <1>0 DEF LastBytes
      <3>2. PICK k \in LastBytes(b, q) : \A y \in LastBytes(b, q) : k <= y
        BY <2>3, <3>1, LeastOf
      <3>3. k \in 0 .. (Len(b) - q)
        BY DEF LastBytes
      <3>4. CASE TooLong(k)
        BY <1>2, <2>1, <3>2, <3>4, DigitsCases
      <3>5. CASE ~TooLong(k)
        <4>1. Digits(b, q) = [p |-> q + (k + 1), v |-> Looped(b, q)[k + 1], n |-> k + 1]
          BY <2>1, <3>2, <3>5, DigitsCases
        <4>2. k + 1 \in 0 .. (Len(b) - q + 1) /\ q + (k + 1) \in 0 .. (Len(b) + 1)
          BY <1>0, <2>1, <3>3
        <4>3. Looped(b, q)[k + 1] \in 0 .. (Word - 1)
          BY <2>1, <4>2, LoopedIs
        <4> QED BY <4>1, <4>2, <4>3
      <3> QED BY <3>4, <3>5
    <2> QED BY <2>2, <2>3
  <1> QED BY <1>3, <1>4

\* A multiple of the word makes no difference in it.
LEMMA ModShift ==
    ASSUME NEW w \in Nat \ {0}, NEW a \in Int, NEW j \in Int
    PROVE  (a + w * j) % w = a % w
  <1> DEFINE x == a \div w
             y == a % w
  <1>1. x \in Int /\ y \in 0 .. (w - 1) /\ a = w * x + y
    BY DivMod
  <1> HIDE DEF x, y
  <1>2. x + j \in Int /\ w * j \in Int /\ w * x \in Int /\ w * (x + j) = w * x + w * j
    BY <1>1, Z3
  <1>3. a + w * j = w * (x + j) + y /\ a + w * j \in Int
    BY <1>1, <1>2
  <1>4. (a + w * j) % w = y
    BY <1>1, <1>2, <1>3, DivModUnique
  <1> QED BY <1>4 DEF y

\* The value in two's complement: the same in the word, and half of it to each
\* side of 0.
LEMMA Halves ==
    ASSUME NEW r \in 0 .. (Word - 1), NEW s, s = IF r >= Word \div 2 THEN r - Word ELSE r
    PROVE  s % Word = r /\ s \in Int /\ -Word <= 2 * s /\ 2 * s < Word
  <1>1. Word \in Nat \ {0} /\ Word % 2 = 0
    BY LebAssumption
  <1> DEFINE h == Word \div 2
  <1>2. h \in Int /\ Word = 2 * h
    <2>1. h \in Int /\ Word = 2 * h + (Word % 2)
      BY <1>1, DivMod
    <2> QED BY <1>1, <2>1
  <1> HIDE DEF h
  <1>3. r \in Int /\ r >= 0 /\ r < Word
    BY <1>1
  <1>4. s = IF r >= h THEN r - Word ELSE r
    BY DEF h
  <1>5. s \in Int /\ -Word <= 2 * s /\ 2 * s < Word
    BY <1>1, <1>2, <1>3, <1>4
  <1>6. r % Word = r
    <2>1. r = Word * 0 + r
      BY <1>1, <1>3
    <2> QED BY <1>1, <1>3, <2>1, DivModUnique
  <1>7. (r - Word) % Word = r
    <2>1. r - Word = r + Word * (-1) /\ -1 \in Int
      BY <1>1, <1>3
    <2>2. (r + Word * (-1)) % Word = r % Word
      BY <1>1, <1>3, <2>1, ModShift
    <2> QED BY <1>6, <2>1, <2>2
  <1> QED BY <1>4, <1>5, <1>6, <1>7

\* The bit 0x40 of a byte that is not continued.
LEMMA NegativeIs ==
    ASSUME NEW d \in Int
    PROVE  Negative(d) <=> 2 * d >= Group
  <1>1. Group \in Nat /\ Group % 2 = 0
    BY LebAssumption
  <1> DEFINE h == Group \div 2
  <1>2. h \in Int /\ Group = 2 * h
    <2>1. h \in Int /\ Group = 2 * h + (Group % 2)
      BY <1>1, DivMod
    <2> QED BY <1>1, <2>1
  <1>3. Negative(d) <=> d >= h
    BY DEF Negative
  <1> HIDE DEF h
  <1> QED BY <1>2, <1>3

\* bw_sleb on a number of n bytes.
LEMMA SlebIs ==
    ASSUME NEW b, Numbers(b), NEW n \in 1 .. Len(b), Weight[n - 1] < Word,
           Digits(b, 1) = [p |-> n + 1, v |-> Total(b, n) % Word, n |-> n]
    PROVE  /\ bw_sleb(b, 1).p = n + 1 /\ bw_sleb(b, 1).v % Word = Signed(b, n) % Word
           /\ -Word <= 2 * bw_sleb(b, 1).v /\ 2 * bw_sleb(b, 1).v < Word
  <1> DEFINE A == Total(b, n)
             P == Weight[n]
             v == A % Word
             extend == P < Word /\ Negative(b[n])
             r == IF extend THEN v + (Word - P) ELSE v
             s == IF r >= Word \div 2 THEN r - Word ELSE r
  <1>0. Word \in Nat \ {0} /\ Len(b) \in Nat /\ n \in Nat \ {0} /\ n \in 0 .. Len(b) /\ b[n] \in Int
    BY LebAssumption DEF Numbers
  <1>1. A \in Nat /\ A < P /\ P \in Nat
    BY <1>0, TotalIs, WeightIs
  <1>2. v \in 0 .. (Word - 1)
    <2> HIDE DEF A
    <2>1. A \in Int
      BY <1>1
    <2> QED BY <1>0, <2>1, DivMod
  <1>3. bw_sleb(b, 1) = [p |-> n + 1, v |-> s, n |-> n]
    <2>1. n + 1 # 0 /\ (n + 1) - 1 = n
      BY <1>0
    <2> QED BY <2>1 DEF bw_sleb
  <1> HIDE DEF s
  <1>4. bw_sleb(b, 1).p = n + 1 /\ bw_sleb(b, 1).v = s
    BY <1>3
  <1>5. Signed(b, n) = A - (IF Negative(b[n]) THEN P ELSE 0)
    BY <1>0, NegativeIs DEF Signed
  <1> HIDE DEF A, P
  <1>6. r \in 0 .. (Word - 1) /\ r % Word = r /\ r = Signed(b, n) % Word
    <2>1. \A x \in 0 .. (Word - 1) : x % Word = x
      <3> SUFFICES ASSUME NEW x \in 0 .. (Word - 1) PROVE x % Word = x
        OBVIOUS
      <3>1. x = Word * 0 + x /\ x \in Int /\ 0 \in Int /\ Word \in Nat \ {0}
        BY <1>0
      <3>2. x \div Word = 0 /\ x % Word = x
        BY <3>1, DivModUnique
      <3> QED BY <3>2
    <2>2. CASE extend
      <3>1. A \in 0 .. (Word - 1)
        BY <1>0, <1>1, <2>2
      <3>2. v = A
        BY <2>1, <3>1
      <3> HIDE DEF v
      <3>3. r = A + (Word - P) /\ r \in 0 .. (Word - 1)
        BY <1>0, <1>1, <2>2, <3>2
      <3>4. A - P \in Int /\ (A - P) + Word * 1 = A + (Word - P) /\ 1 \in Int
        BY <1>0, <1>1
      <3>5. ((A - P) + Word * 1) % Word = (A - P) % Word
        BY <1>0, <3>4, ModShift
      <3>6. Signed(b, n) = A - P
        BY <1>5, <2>2
      <3> HIDE DEF r
      <3> QED BY <2>1, <3>3, <3>4, <3>5, <3>6
    <2>3. CASE ~extend /\ Negative(b[n])
      <3>1. r = v /\ P >= Word
        BY <1>0, <1>1, <2>3
      <3>2. P % Word = 0
        BY <1>0, <3>1, WeightFull DEF P
      <3> DEFINE j == P \div Word
      <3>3. j \in Int /\ P = Word * j
        <4>1. j \in Int /\ P = Word * j + (P % Word) /\ Word * j \in Int
          <5>1. j \in Int /\ P = Word * j + (P % Word)
            BY <1>0, <1>1, DivMod
          <5> HIDE DEF j
          <5> QED BY <1>0, <5>1
        <4> HIDE DEF j
        <4> QED BY <3>2, <4>1
      <3> HIDE DEF j
      <3> DEFINE i == -j
      <3>4. i \in Int /\ A \in Int /\ A - P = A + Word * i
        <4>1. Word * (-j) = -(Word * j) /\ Word * j \in Int
          BY <1>0, <3>3, Z3
        <4> QED BY <1>0, <1>1, <3>3, <4>1
      <3> HIDE DEF i
      <3>5. (A + Word * i) % Word = A % Word
        BY <1>0, <3>4, ModShift
      <3>6. Signed(b, n) = A - P
        BY <1>5, <2>3
      <3> QED BY <1>2, <2>1, <3>1, <3>4, <3>5, <3>6
    <2>4. CASE ~Negative(b[n])
      <3>1. r = v /\ Signed(b, n) = A
        BY <1>1, <1>5, <2>4
      <3> QED BY <1>2, <2>1, <3>1
    <2> QED BY <2>2, <2>3, <2>4
  <1> HIDE DEF r
  <1>7. s % Word = r /\ -Word <= 2 * s /\ 2 * s < Word
    <2>1. s = IF r >= Word \div 2 THEN r - Word ELSE r
      BY DEF s
    <2> QED BY <1>6, <2>1, Halves
  <1> QED BY <1>4, <1>6, <1>7

\* The bytes at which a number can end are where the loop ends.
LEMMA EndsAre ==
    ASSUME NEW b, Numbers(b)
    PROVE  /\ Ends(b) = {} => LastBytes(b, 1) = {}
           /\ \A n \in Ends(b) :
                 /\ n \in 1 .. Len(b) /\ n - 1 \in LastBytes(b, 1)
                 /\ \A y \in LastBytes(b, 1) : n - 1 <= y
                 /\ \A m \in Ends(b) : m = n
  <1>0. Len(b) \in Nat /\ \A m \in 1 .. Len(b) : b[m] \in Int
    BY DEF Numbers
  <1>1. Group \in Nat
    BY LebAssumption
  <1>2. ASSUME NEW y \in LastBytes(b, 1) PROVE y + 1 \in 1 .. Len(b) /\ b[y + 1] < Group /\ y \in Nat
    <2>1. y \in 0 .. (Len(b) - 1) /\ b[1 + y] < Group
      BY DEF LastBytes
    <2>2. 1 + y = y + 1
      BY <2>1
    <2> QED BY <1>0, <2>1, <2>2
  <1>3. ASSUME NEW n \in Ends(b)
        PROVE  /\ n \in 1 .. Len(b) /\ n - 1 \in LastBytes(b, 1)
               /\ \A y \in LastBytes(b, 1) : n - 1 <= y
    <2>1. n \in 1 .. Len(b) /\ b[n] < Group /\ \A m \in 1 .. (n - 1) : b[m] >= Group
      BY DEF Ends
    <2>2. n - 1 \in 0 .. (Len(b) - 1) /\ 1 + (n - 1) = n
      BY <1>0, <2>1
    <2>3. n - 1 \in LastBytes(b, 1)
      BY <2>1, <2>2 DEF LastBytes
    <2>4. ASSUME NEW y \in LastBytes(b, 1) PROVE n - 1 <= y
      <3> SUFFICES ASSUME y < n - 1 PROVE FALSE
        BY <1>2, <2>2
      <3>1. y + 1 \in 1 .. (n - 1) /\ b[y + 1] < Group /\ b[y + 1] \in Int
        BY <1>0, <1>2, <2>1
      <3>2. b[y + 1] >= Group
        BY <2>1, <3>1
      <3> QED BY <1>1, <3>1, <3>2
    <2> QED BY <2>1, <2>3, <2>4
  <1>4. ASSUME NEW n \in Ends(b), NEW m \in Ends(b) PROVE m = n
    <2>1. n - 1 <= m - 1 /\ m - 1 <= n - 1 /\ m \in Int /\ n \in Int
      BY <1>3
    <2> QED BY <2>1
  <1>5. ASSUME LastBytes(b, 1) # {} PROVE Ends(b) # {}
    <2>1. LastBytes(b, 1) \in SUBSET Nat
      BY <1>2
    <2>2. PICK k \in LastBytes(b, 1) : \A y \in LastBytes(b, 1) : k <= y
      BY <1>5, <2>1, LeastOf
    <2>3. k + 1 \in 1 .. Len(b) /\ b[k + 1] < Group /\ k \in Nat
      BY <1>2
    <2>4. ASSUME NEW m \in 1 .. ((k + 1) - 1) PROVE b[m] >= Group
      <3> SUFFICES ASSUME b[m] < Group PROVE FALSE
        <4>1. b[m] \in Int
          BY <1>0, <2>3
        <4> QED BY <1>1, <4>1
      <3>1. m - 1 \in 0 .. (Len(b) - 1) /\ 1 + (m - 1) = m /\ m - 1 < k
        BY <1>0, <2>3
      <3>2. m - 1 \in LastBytes(b, 1)
        BY <3>1 DEF LastBytes
      <3> QED BY <2>2, <2>3, <3>1, <3>2
    <2>5. k + 1 \in Ends(b)
      BY <2>3, <2>4 DEF Ends
    <2> QED BY <2>5
  <1> QED BY <1>3, <1>4, <1>5

\* Strings of bytes are sequences of numbers.
LEMMA BytesAre ==
    ASSUME NEW B \in SUBSET Int, NEW b \in Seq(B)
    PROVE  Numbers(b)
  BY LenProperties, ElementOfSeq DEF Numbers

\* bw_uleb and bw_sleb read every string of bytes as LEB128 defines it.
LEMMA LebReads ==
    ASSUME NEW b \in LebStrings, NEW u, u = bw_uleb(b, 1), NEW s, s = bw_sleb(b, 1)
    PROVE  IF \E n \in Ends(b) : Weight[n - 1] < Word
           THEN LET n == CHOOSE m \in Ends(b) : TRUE
                IN  /\ u.p = n + 1 /\ u.v = Total(b, n) % Word
                    /\ s.p = n + 1 /\ s.v % Word = Signed(b, n) % Word
                    /\ -Word <= 2 * s.v /\ 2 * s.v < Word
           ELSE u.p = 0 /\ s.p = 0
  <1>0. Numbers(b) /\ Len(b) \in Nat /\ 1 \in 1 .. (Len(b) + 1)
    <2>1. b \in Seq(0 .. (2 * Group - 1)) /\ 0 .. (2 * Group - 1) \in SUBSET Int
      BY LebStringsAssumption, LebAssumption
    <2>2. Numbers(b)
      BY <2>1, BytesAre
    <2> QED BY <2>2 DEF Numbers
  <1>1. CASE \E n \in Ends(b) : Weight[n - 1] < Word
    <2>1. PICK n \in Ends(b) : Weight[n - 1] < Word
      BY <1>1
    <2>2. (CHOOSE m \in Ends(b) : TRUE) = n
      <3>1. \A m \in Ends(b) : m = n
        BY <1>0, EndsAre
      <3> QED BY <3>1
    <2>3. n \in 1 .. Len(b) /\ n - 1 \in LastBytes(b, 1) /\ \A y \in LastBytes(b, 1) : n - 1 <= y
      BY <1>0, EndsAre
    <2>4. n \in Nat \ {0} /\ n - 1 \in Nat /\ (n - 1) + 1 = n /\ 1 + n = n + 1 /\ n \in 0 .. Len(b)
      BY <1>0, <2>3
    <2>5. ~TooLong(n - 1)
      <3>1. Weight[n - 1] \in Nat /\ Word \in Nat
        BY <2>4, WeightIs, LebAssumption
      <3> QED BY <2>1, <3>1 DEF TooLong
    <2>6. Digits(b, 1) = [p |-> 1 + ((n - 1) + 1), v |-> Looped(b, 1)[(n - 1) + 1], n |-> (n - 1) + 1]
      BY <1>0, <2>3, <2>5, DigitsCases
    <2>7. Looped(b, 1)[n] = Total(b, n) % Word
      BY <1>0, <2>4, LoopedTotal
    <2>8. Digits(b, 1) = [p |-> n + 1, v |-> Total(b, n) % Word, n |-> n]
      BY <2>4, <2>6, <2>7
    <2>9. u.p = n + 1 /\ u.v = Total(b, n) % Word
      BY <2>8 DEF bw_uleb
    <2>10. /\ s.p = n + 1 /\ s.v % Word = Signed(b, n) % Word
           /\ -Word <= 2 * s.v /\ 2 * s.v < Word
      BY <1>0, <2>1, <2>3, <2>8, SlebIs
    <2> QED BY <1>1, <2>2, <2>9, <2>10
  <1>2. CASE ~\E n \in Ends(b) : Weight[n - 1] < Word
    <2>1. Digits(b, 1) = [p |-> 0, v |-> 0, n |-> 0]
      <3>1. CASE Ends(b) = {}
        BY <1>0, <3>1, EndsAre, DigitsCases
      <3>2. CASE Ends(b) # {}
        <4>1. PICK n \in Ends(b) : ~(Weight[n - 1] < Word)
          BY <1>2, <3>2
        <4>2. n \in 1 .. Len(b) /\ n - 1 \in LastBytes(b, 1) /\ \A y \in LastBytes(b, 1) : n - 1 <= y
          BY <1>0, EndsAre
        <4>3. TooLong(n - 1)
          <5>1. n - 1 \in Nat
            BY <4>2
          <5>2. Weight[n - 1] \in Nat /\ Word \in Nat
            BY <5>1, WeightIs, LebAssumption
          <5> QED BY <4>1, <5>2 DEF TooLong
        <4> QED BY <1>0, <4>2, <4>3, DigitsCases
      <3> QED BY <3>1, <3>2
    <2>2. u.p = 0 /\ s.p = 0
      BY <2>1 DEF bw_uleb, bw_sleb
    <2> QED BY <1>2, <2>2
  <1> QED BY <1>1, <1>2

\* bw_uleb and bw_sleb read every string of bytes as LEB128 defines it, for any
\* size of digit and any even word that is filled by whole digits.
THEOREM LebCorrect == Spec => []LebMeaning
  <1>1. LebMeaning
    <2> SUFFICES ASSUME NEW b \in LebStrings
                 PROVE  LET u == bw_uleb(b, 1)  s == bw_sleb(b, 1)
                        IN  IF \E n \in Ends(b) : Weight[n - 1] < Word
                            THEN LET n == CHOOSE m \in Ends(b) : TRUE
                                 IN  /\ u.p = n + 1 /\ u.v = Total(b, n) % Word
                                     /\ s.p = n + 1 /\ s.v % Word = Signed(b, n) % Word
                                     /\ -Word <= 2 * s.v /\ 2 * s.v < Word
                            ELSE u.p = 0 /\ s.p = 0
      BY DEF LebMeaning
    <2> QED BY LebReads
  <1> QED BY <1>1, PTL

-----------------------------------------------------------------------------
(* The cursor, the forms and the names *)

Bytes == Seq(Byte)

\* A string, its end left out.
NoNul(s) == \A m \in 1 .. Len(s) : s[m] # 0
Names == {s \in Bytes : NoNul(s)}

\* A unit is parsed from start to end, with the cursor in the section; its
\* strings and those of the pool end.
UnitInv ==
    /\ \/ pc = "idle" /\ c = <<>>
       \/ pc # "idle" /\ unit \in Units
    /\ p \in 1 .. (Len(c) + 1)

PoolInv ==
    /\ strs \in Bytes /\ Len(strs) <= StrMax
    /\ strs # <<>> => strs[Len(strs)] = 0

\* Positions, with 0 for a read that failed.
Positions == 0 .. (Len(c) + 1)

\* The bytes of a unit.
LEMMA BytesIn ==
    ASSUME UnitInv
    PROVE  /\ c \in Bytes /\ Len(c) \in Nat /\ Numbers(c) /\ \A m \in 1 .. Len(c) : c[m] \in Byte
           /\ p \in Positions /\ p # 0
           /\ pc # "idle" => unit.offset_size \in {4, 8} /\ unit.version \in Nat
  <1>1. c \in Bytes
    BY UnitsAssumption, EmptySeq DEF UnitInv, c, Bytes
  <1>2. Len(c) \in Nat /\ \A m \in 1 .. Len(c) : c[m] \in Byte
    BY <1>1, LenProperties, ElementOfSeq DEF Bytes
  <1>3. Numbers(c)
    <2>1. \A x \in Byte : x \in Int
      BY DEF Byte
    <2> QED BY <1>2, <2>1 DEF Numbers
  <1>4. p \in Positions /\ p # 0
    BY <1>2 DEF UnitInv, Positions
  <1>5. pc # "idle" => unit.offset_size \in {4, 8} /\ unit.version \in Nat
    BY UnitsAssumption DEF UnitInv
  <1> QED BY <1>1, <1>2, <1>3, <1>4, <1>5

\* Skipping stays within the data.
LEMMA SkipIs ==
    ASSUME UnitInv, NEW q \in Positions, NEW n \in Nat
    PROVE  bw_skip(q, n) \in Positions /\ (bw_cur_ok(q, n) => q \in 1 .. (Len(c) + 1) /\ q + n <= Len(c) + 1)
  <1>1. Len(c) \in Nat
    BY BytesIn
  <1> QED BY <1>1 DEF bw_skip, bw_cur_ok, Positions

\* A number of a fixed size.
LEMMA ReadIs ==
    ASSUME UnitInv, NEW q \in Positions, NEW n \in Nat
    PROVE  Read(q, n).p \in Positions /\ Read(q, n).v \in Nat
  <1> DEFINE Turning(g) == [k \in 0 .. n |-> IF k = 0 THEN 0 ELSE 256 * g[k - 1] + c[q + n - k]]
             F == CHOOSE g : g = Turning(g)
             step == [z \in Nat \X (1 .. n) |-> 256 * z[1] + c[q + n - z[2]]]
  <1>1. Read(q, n) = [p |-> bw_skip(q, n), v |-> IF bw_cur_ok(q, n) THEN F[n] ELSE 0]
    BY DEF Read
  <1>2. bw_skip(q, n) \in Positions
    BY SkipIs
  <1>3. ASSUME bw_cur_ok(q, n) PROVE F[n] \in Nat
    <2>1. q \in 1 .. (Len(c) + 1) /\ q + n <= Len(c) + 1 /\ Len(c) \in Nat
          /\ \A m \in 1 .. Len(c) : c[m] \in Byte
      BY <1>3, SkipIs, BytesIn
    <2>2. ASSUME NEW k \in 1 .. n PROVE c[q + n - k] \in Nat
      <3>1. q + n - k \in 1 .. Len(c)
        BY <2>1
      <3>2. \A x \in Byte : x \in Nat
        BY DEF Byte
      <3> QED BY <2>1, <3>1, <3>2
    <2>3. step \in [Nat \X (1 .. n) -> Nat] /\ \A a \in Nat, k \in 1 .. n : step[<<a, k>>] = 256 * a + c[q + n - k]
      BY <2>2
    <2> HIDE DEF step
    <2>4. PICK g \in [0 .. n -> Nat] : FollowsUpTo(n, g, 0, step)
      BY <2>3, RecursionUpTo
    <2>5. ASSUME NEW h, NEW k \in 0 .. n
          PROVE  Turning(h)[k] = IF k = 0 THEN 0 ELSE 256 * h[k - 1] + c[q + n - k]
      OBVIOUS
    <2>6. g = Turning(g)
      <3>1. ASSUME NEW k \in 0 .. n PROVE g[k] = Turning(g)[k]
        <4>1. CASE k = 0
          BY <2>4, <2>5, <4>1 DEF FollowsUpTo
        <4>2. CASE k # 0
          <5>1. k \in 1 .. n /\ k - 1 \in 0 .. n
            BY <4>2
          <5>2. g[k - 1] \in Nat
            BY <5>1
          <5>3. g[k] = step[<<g[k - 1], k>>]
            BY <2>4, <5>1 DEF FollowsUpTo
          <5>4. step[<<g[k - 1], k>>] = 256 * g[k - 1] + c[q + n - k]
            BY <2>3, <5>1, <5>2
          <5>5. Turning(g)[k] = 256 * g[k - 1] + c[q + n - k]
            BY <4>2
          <5> QED BY <5>3, <5>4, <5>5
        <4> QED BY <4>1, <4>2
      <3> QED BY <3>1
    <2>7. F = Turning(F)
      <3> HIDE DEF Turning
      <3> QED BY <2>6
    <2> HIDE DEF F
    <2> DEFINE S == {k \in Nat : k <= n => F[k] \in Nat}
    <2>8. 0 \in S
      BY <2>5, <2>7
    <2>9. ASSUME NEW k \in Nat, k \in S PROVE k + 1 \in S
      <3> SUFFICES ASSUME k + 1 <= n PROVE F[k + 1] \in Nat
        OBVIOUS
      <3>1. k + 1 \in 1 .. n /\ k + 1 \in 0 .. n /\ k + 1 # 0 /\ (k + 1) - 1 = k /\ k <= n
        OBVIOUS
      <3>2. F[k + 1] = 256 * F[k] + c[q + n - (k + 1)]
        <4> HIDE DEF Turning
        <4> QED BY <2>5, <2>7, <3>1
      <3>3. F[k] \in Nat /\ c[q + n - (k + 1)] \in Nat
        BY <2>2, <2>9, <3>1
      <3> QED BY <3>2, <3>3
    <2>10. \A k \in Nat : k \in S
      <3> HIDE DEF S
      <3> QED BY <2>8, <2>9, Inductive
    <2> QED BY <2>10
  <1> HIDE DEF F
  <1> QED BY <1>1, <1>2, <1>3

\* A variable-length number.
LEMMA LebIs ==
    ASSUME UnitInv, NEW q \in Positions
    PROVE  /\ bw_uleb(c, q).p \in Positions /\ bw_uleb(c, q).v \in Nat
           /\ bw_sleb(c, q).p \in Positions
  <1>1. Numbers(c) /\ q \in 0 .. (Len(c) + 1)
    BY BytesIn DEF Positions
  <1>2. Digits(c, q).p \in 0 .. (Len(c) + 1) /\ Digits(c, q).v \in 0 .. (Word - 1)
    BY <1>1, DigitsIs
  <1>3. Digits(c, q).v \in Nat
    BY <1>2, LebAssumption
  <1>4. bw_sleb(c, q).p = Digits(c, q).p
    <2>1. q = 0 \/ q \in 1 .. (Len(c) + 1)
      BY <1>1, BytesIn
    <2>2. \E d : Digits(c, q) = [p |-> d.p, v |-> d.v, n |-> d.n]
      BY DEF Digits
    <2> QED BY <2>2 DEF bw_sleb
  <1> QED BY <1>2, <1>3, <1>4 DEF bw_uleb, Positions

\* A string that ends.
LEMMA TextIs ==
    ASSUME NEW s \in Bytes, NEW q \in 1 .. Len(s), Nuls(s, q) # {}
    PROVE  /\ Min(Nuls(s, q)) \in q .. Len(s)
           /\ Text(s, q) \in Names /\ Len(Text(s, q)) = Min(Nuls(s, q)) - q
  <1>1. Len(s) \in Nat
    BY LenProperties DEF Bytes
  <1> DEFINE e == Min(Nuls(s, q))
  <1>2. Nuls(s, q) \in SUBSET Nat /\ Nuls(s, q) \in SUBSET (q .. Len(s))
    BY <1>1 DEF Nuls
  <1>3. e \in q .. Len(s) /\ \A y \in Nuls(s, q) : e <= y
    BY <1>2, MinIs
  <1> HIDE DEF e
  <1> DEFINE t == SubSeq(s, q, e - 1)
  <1>4. Text(s, q) = t
    BY DEF Text, e
  <1>5. \A k \in q .. (e - 1) : k \in 1 .. Len(s) /\ k \in q .. Len(s)
    BY <1>1, <1>3
  <1>6. \A k \in q .. (e - 1) : s[k] \in Byte
    BY <1>5, ElementOfSeq DEF Bytes
  <1>7. /\ t \in Seq(Byte)
        /\ Len(t) = IF q <= e - 1 THEN (e - 1) - q + 1 ELSE 0
        /\ \A m \in 1 .. ((e - 1) - q + 1) : t[m] = s[q + m - 1]
    <2>1. q \in Int /\ e - 1 \in Int
      BY <1>3
    <2> QED BY <1>6, <2>1, SubSeqProperties
  <1> HIDE DEF t
  <1>8. Len(t) = e - q
    BY <1>3, <1>7
  <1>9. ASSUME NEW m \in 1 .. Len(t) PROVE t[m] # 0
    <2>1. m \in 1 .. ((e - 1) - q + 1) /\ q + m - 1 \in q .. (e - 1) /\ ~(e <= q + m - 1)
      BY <1>3, <1>8
    <2>2. q + m - 1 \notin Nuls(s, q)
      BY <1>3, <2>1
    <2> QED BY <1>5, <1>7, <2>1, <2>2 DEF Nuls
  <1> QED BY <1>3, <1>4, <1>7, <1>8, <1>9 DEF Bytes, Names, NoNul, e

\* A section or a pool that ends with a string: every string of it does.
LEMMA StringEnds ==
    ASSUME NEW s \in Bytes, s # <<>> => s[Len(s)] = 0, NEW q \in 1 .. Len(s)
    PROVE  Nuls(s, q) # {}
  <1>1. Len(s) \in Nat
    BY LenProperties DEF Bytes
  <1>2. Len(s) \in q .. Len(s) /\ s # <<>>
    BY <1>1
  <1> QED BY <1>2 DEF Nuls

\* s is a beginning of t.
Begins(s, t) == Len(s) <= Len(t) /\ \A m \in 1 .. Len(s) : s[m] = t[m]

\* The beginning of a string.
LEMMA CutIs ==
    ASSUME NEW s \in Bytes, NEW n \in Nat
    PROVE  /\ Cut(s, n) \in Bytes /\ Begins(Cut(s, n), s)
           /\ Len(Cut(s, n)) = IF Len(s) <= n THEN Len(s) ELSE n
           /\ Len(s) <= n => Cut(s, n) = s
  <1> DEFINE m == IF Len(s) <= n THEN Len(s) ELSE n
             t == SubSeq(s, 1, m)
  <1>1. Len(s) \in Nat
    BY LenProperties DEF Bytes
  <1>2. m \in 0 .. Len(s) /\ m \in Int
    BY <1>1
  <1>3. Cut(s, n) = t
    BY DEF Cut
  <1>4. Len(s) <= n => t = s
    BY SubSeqFull DEF Bytes
  <1>5. m = IF Len(s) <= n THEN Len(s) ELSE n
    OBVIOUS
  <1> HIDE DEF m
  <1>6. \A k \in 1 .. m : s[k] \in Byte
    BY <1>1, <1>2, ElementOfSeq DEF Bytes
  <1>7. /\ t \in Seq(Byte)
        /\ Len(t) = IF 1 <= m THEN m - 1 + 1 ELSE 0
        /\ \A k \in 1 .. (m - 1 + 1) : t[k] = s[1 + k - 1]
    BY <1>2, <1>6, SubSeqProperties
  <1> HIDE DEF t
  <1>8. Len(t) = m /\ \A k \in 1 .. m : t[k] = s[k]
    <2>1. m \in Nat /\ m - 1 + 1 = m /\ (~(1 <= m) => m = 0) /\ \A k \in 1 .. m : 1 + k - 1 = k
      BY <1>1, <1>2
    <2> QED BY <1>7, <2>1
  <1>9. Begins(t, s)
    BY <1>1, <1>2, <1>8 DEF Begins
  <1> QED BY <1>3, <1>4, <1>5, <1>7, <1>8, <1>9 DEF Bytes

\* A beginning of a name is a name.
LEMMA BeginsName ==
    ASSUME NEW s \in Bytes, NEW t \in Names, Begins(s, t)
    PROVE  s \in Names
  <1>1. Len(s) \in Nat /\ Len(t) \in Nat
    BY LenProperties DEF Bytes, Names
  <1>2. \A m \in 1 .. Len(s) : m \in 1 .. Len(t)
    BY <1>1 DEF Begins
  <1> QED BY <1>2 DEF Begins, Names, NoNul

\* What begins a string is a prefix of it.
LEMMA BeginsPrefix ==
    ASSUME NEW s \in Bytes, NEW t \in Bytes, Begins(s, t)
    PROVE  IsPrefix(s, t)
  <1>1. Len(s) \in Nat /\ Len(t) \in Nat /\ Len(s) <= Len(t) /\ Len(s) \in Int /\ 1 \in Int
    BY LenProperties DEF Bytes, Begins
  <1>2. \A k \in 1 .. Len(s) : t[k] \in Byte /\ s[k] \in Byte
    BY <1>1, ElementOfSeq DEF Bytes
  <1> DEFINE a == SubSeq(t, 1, Len(s))
  <1>3. /\ a \in Seq(Byte)
        /\ Len(a) = IF 1 <= Len(s) THEN Len(s) - 1 + 1 ELSE 0
        /\ \A k \in 1 .. (Len(s) - 1 + 1) : a[k] = t[1 + k - 1]
    BY <1>1, <1>2, SubSeqProperties
  <1> HIDE DEF a
  <1>4. Len(a) = Len(s) /\ \A k \in 1 .. Len(s) : a[k] = s[k]
    BY <1>1, <1>3 DEF Begins
  <1>5. a = s
    BY <1>3, <1>4, SeqEqual DEF Bytes
  <1>6. SubSeq(s, 1, Len(s)) = s
    BY SubSeqFull DEF Bytes
  <1> QED BY <1>1, <1>5, <1>6 DEF IsPrefix, a

\* Skipping a form stays within the data.
LEMMA FormSkipIs ==
    ASSUME UnitInv, pc # "idle", NEW q \in Positions, q # 0, NEW form
    PROVE  bw_form_skip(q, form) \in Positions
  <1> DEFINE size == CASE form \in {Form.FLAG_PRESENT, Form.IMPLICIT_CONST} -> 0
                       [] form \in {Form.DATA1, Form.FLAG} -> 1
                       [] form = Form.DATA2 -> 2
                       [] form = Form.DATA4 -> 4
                       [] form \in {Form.STRP, Form.LINE_STRP, Form.SEC_OFFSET, Form.REF_ADDR} -> unit.offset_size
                       [] form \in {Form.DATA8, Form.ADDR} -> 8
                       [] form = Form.DATA16 -> 16
                       [] OTHER -> -1
             Block(r) == bw_skip(r.p, r.v)
             res == CASE size = 0 -> q
                      [] size > 0 -> bw_skip(q, size)
                      [] form = Form.UDATA -> bw_uleb(c, q).p
                      [] form = Form.SDATA -> bw_sleb(c, q).p
                      [] form = Form.STRING -> IF Nuls(c, q) = {} THEN 0 ELSE Min(Nuls(c, q)) + 1
                      [] form = Form.BLOCK1 -> Block(Read(q, 1))
                      [] form = Form.BLOCK2 -> Block(Read(q, 2))
                      [] form = Form.BLOCK4 -> Block(Read(q, 4))
                      [] form \in {Form.BLOCK, Form.EXPRLOC} -> Block(bw_uleb(c, q))
                      [] OTHER -> 0
  <1>0. Len(c) \in Nat /\ unit.offset_size \in {4, 8} /\ c \in Bytes
    BY BytesIn
  <1>1. bw_form_skip(q, form) = res
    BY DEF bw_form_skip
  <1>2. size \in Int
    BY <1>0
  <1> HIDE DEF size
  <1>3. ASSUME size > 0 PROVE bw_skip(q, size) \in Positions
    <2>1. size \in Nat
      BY <1>2, <1>3
    <2> QED BY <2>1, SkipIs
  <1>4. bw_uleb(c, q).p \in Positions /\ bw_sleb(c, q).p \in Positions /\ bw_uleb(c, q).v \in Nat
    BY LebIs
  <1>5. ASSUME Nuls(c, q) # {} PROVE Min(Nuls(c, q)) + 1 \in Positions
    <2>1. Nuls(c, q) \in SUBSET Nat /\ Nuls(c, q) \in SUBSET (1 .. Len(c))
      BY <1>0 DEF Nuls, Positions
    <2>2. Min(Nuls(c, q)) \in 1 .. Len(c)
      BY <1>5, <2>1, MinIs
    <2> QED BY <1>0, <2>2 DEF Positions
  <1>6. ASSUME NEW n \in {1, 2, 4} PROVE Block(Read(q, n)) \in Positions
    <2>1. n \in Nat
      OBVIOUS
    <2>2. Read(q, n).p \in Positions /\ Read(q, n).v \in Nat
      BY <2>1, ReadIs
    <2> QED BY <2>2, SkipIs
  <1>7. Block(bw_uleb(c, q)) \in Positions
    BY <1>4, SkipIs
  <1>8. 0 \in Positions
    BY <1>0 DEF Positions
  <1> HIDE DEF Block
  <1>9. Block(Read(q, 1)) \in Positions /\ Block(Read(q, 2)) \in Positions /\ Block(Read(q, 4)) \in Positions
    BY <1>6
  <1> QED BY <1>1, <1>3, <1>4, <1>5, <1>7, <1>8, <1>9

\* The empty name.
LEMMA NoName == <<>> \in Names
  BY EmptySeq DEF Names, NoNul, Bytes

\* A path that a form gives.
LEMMA FormPathIs ==
    ASSUME UnitInv, pc # "idle", NEW q \in Positions, q # 0, NEW form
    PROVE  bw_form_path(q, form).p \in Positions /\ bw_form_path(q, form).path \in Names
  <1>0. Len(c) \in Nat /\ unit.offset_size \in {4, 8} /\ c \in Bytes /\ 0 \in Positions
    BY BytesIn DEF Positions
  <1>1. <<>> \in Names
    BY NoName
  <1>2. CASE form = Form.STRING
    <2>1. CASE Nuls(c, q) = {}
      <3>1. bw_form_path(q, form) = [p |-> 0, path |-> <<>>]
        BY <1>2, <2>1 DEF bw_form_path, Form
      <3> QED BY <1>0, <1>1, <3>1
    <2>2. CASE Nuls(c, q) # {}
      <3>1. q \in 1 .. Len(c)
        <4>1. \E e \in q .. Len(c) : c[e] = 0
          BY <2>2 DEF Nuls
        <4> QED BY <1>0, <4>1 DEF Positions
      <3>2. Min(Nuls(c, q)) \in q .. Len(c) /\ Text(c, q) \in Names
        BY <1>0, <2>2, <3>1, TextIs
      <3>3. bw_form_path(q, form) = [p |-> Min(Nuls(c, q)) + 1, path |-> Text(c, q)]
        BY <1>2, <2>2 DEF bw_form_path, Form
      <3>4. Min(Nuls(c, q)) + 1 \in Positions
        BY <1>0, <3>1, <3>2 DEF Positions
      <3> QED BY <3>2, <3>3, <3>4
    <2> QED BY <2>1, <2>2
  <1>3. CASE form # Form.STRING /\ form \in {Form.LINE_STRP, Form.STRP}
    <2> DEFINE off == Read(q, unit.offset_size)
               sec == IF form = Form.LINE_STRP THEN line_str ELSE debug_str
               path == IF off.p # 0 /\ off.v < Len(sec) THEN Text(sec, off.v + 1) ELSE <<>>
    <2>1. bw_form_path(q, form) = [p |-> off.p, path |-> path]
      BY <1>3 DEF bw_form_path
    <2>2. off.p \in Positions /\ off.v \in Nat
      <3>1. unit.offset_size \in Nat
        BY <1>0
      <3> QED BY <3>1, ReadIs
    <2>3. sec \in Bytes /\ (sec # <<>> => sec[Len(sec)] = 0)
      BY StringsAssumption DEF Bytes
    <2> HIDE DEF sec, off
    <2>4. path \in Names
      <3> SUFFICES ASSUME off.v < Len(sec) PROVE Text(sec, off.v + 1) \in Names
        BY <1>1
      <3>1. Len(sec) \in Nat
        BY <2>3, LenProperties DEF Bytes
      <3>2. off.v + 1 \in 1 .. Len(sec)
        BY <2>2, <3>1
      <3>3. Nuls(sec, off.v + 1) # {}
        BY <2>3, <3>2, StringEnds
      <3> QED BY <2>3, <3>2, <3>3, TextIs
    <2> HIDE DEF path
    <2> QED BY <2>1, <2>2, <2>4
  <1>4. CASE form # Form.STRING /\ form \notin {Form.LINE_STRP, Form.STRP}
    <2>1. bw_form_path(q, form) = [p |-> bw_form_skip(q, form), path |-> <<>>]
      BY <1>4 DEF bw_form_path
    <2>2. bw_form_skip(q, form) \in Positions
      BY FormSkipIs
    <2> QED BY <1>1, <2>1, <2>2
  <1> QED BY <1>2, <1>3, <1>4

\* A number that a form gives.
LEMMA UdataIs ==
    ASSUME UnitInv, NEW q \in Positions, NEW form
    PROVE  bw_form_udata(q, form).p \in Positions /\ bw_form_udata(q, form).v \in Nat
  <1>1. bw_uleb(c, q).p \in Positions /\ bw_uleb(c, q).v \in Nat
    BY LebIs
  <1>2. ASSUME NEW n \in {1, 2, 4} PROVE Read(q, n).p \in Positions /\ Read(q, n).v \in Nat
    <2>1. n \in Nat
      OBVIOUS
    <2> QED BY <2>1, ReadIs
  <1>3. 0 \in Positions
    BY BytesIn DEF Positions
  <1>4. bw_form_udata(q, form) \in {bw_uleb(c, q), Read(q, 1), Read(q, 2), Read(q, 4), [p |-> 0, v |-> 0]}
    BY DEF bw_form_udata
  <1> QED BY <1>1, <1>2, <1>3, <1>4

\* The path of a file in a directory, however long.
Whole(dir, file) ==
    IF AbsFile(file) \/ dir = <<>> THEN file
    ELSE IF dir[Len(dir)] \in Separators THEN dir \o file
    ELSE dir \o <<Slash>> \o file

\* Two names, one behind the other.
LEMMA ConcatIs ==
    ASSUME NEW s \in Names, NEW t \in Names
    PROVE  s \o t \in Names /\ Len(s \o t) = Len(s) + Len(t) /\ Begins(s, s \o t)
  <1>1. s \in Seq(Byte) /\ t \in Seq(Byte) /\ Len(s) \in Nat /\ Len(t) \in Nat
    BY LenProperties DEF Names, Bytes
  <1> DEFINE z == s \o t
  <1>2. /\ z \in Seq(Byte) /\ Len(z) = Len(s) + Len(t)
        /\ \A m \in 1 .. (Len(s) + Len(t)) : z[m] = IF m <= Len(s) THEN s[m] ELSE t[m - Len(s)]
    BY <1>1, ConcatProperties
  <1> HIDE DEF z
  <1>3. ASSUME NEW m \in 1 .. Len(z) PROVE z[m] # 0
    <2>1. CASE m <= Len(s)
      <3>1. m \in 1 .. Len(s)
        BY <1>1, <2>1
      <3> QED BY <1>2, <2>1, <3>1 DEF Names, NoNul
    <2>2. CASE ~(m <= Len(s))
      <3>1. m - Len(s) \in 1 .. Len(t)
        BY <1>1, <1>2, <2>2
      <3> QED BY <1>2, <2>2, <3>1 DEF Names, NoNul
    <2> QED BY <2>1, <2>2
  <1>4. Begins(s, z)
    <2>1. \A m \in 1 .. Len(s) : m \in 1 .. (Len(s) + Len(t)) /\ m <= Len(s)
      BY <1>1
    <2> QED BY <1>1, <1>2, <2>1 DEF Begins
  <1> QED BY <1>2, <1>3, <1>4 DEF Names, NoNul, Bytes, z

\* A joined path is a beginning of the whole one, and all of it if it fits.
LEMMA JoinIs ==
    ASSUME NEW dir \in Names, NEW file \in Names
    PROVE  /\ bw_join_path(dir, file) \in Names /\ Whole(dir, file) \in Names
           /\ Begins(bw_join_path(dir, file), Whole(dir, file))
           /\ Len(Whole(dir, file)) < JoinMax => bw_join_path(dir, file) = Whole(dir, file)
  <1> DEFINE d == IF AbsFile(file) THEN <<>> ELSE Cut(dir, JoinMax - 1)
             sep == IF d # <<>> /\ d[Len(d)] \notin Separators /\ Len(d) + 1 < JoinMax
                    THEN <<Slash>> ELSE <<>>
             w == Whole(dir, file)
             j == bw_join_path(dir, file)
  <1>0. JoinMax \in Nat /\ JoinMax - 1 \in Nat /\ JoinMax - 1 > 0
    BY LimitsAssumption
  <1>1. <<Slash>> \in Names /\ <<>> \in Names /\ Len(<<Slash>>) = 1
    <2>1. Slash \in Byte /\ Slash # 0
      BY DEF Slash, Byte
    <2>2. <<Slash>> \in Seq(Byte) /\ Len(<<Slash>>) = 1 /\ <<Slash>>[1] = Slash
      BY <2>1
    <2>3. NoNul(<<Slash>>)
      BY <2>1, <2>2 DEF NoNul
    <2> QED BY <2>2, <2>3, NoName DEF Names, Bytes
  <1>2. Len(dir) \in Nat /\ Len(file) \in Nat /\ dir \in Bytes /\ file \in Bytes
    BY LenProperties DEF Names, Bytes
  <1>3. w \in Names
    <2>1. dir \o file \in Names
      BY ConcatIs
    <2>2. dir \o <<Slash>> \in Names
      BY <1>1, ConcatIs
    <2>3. dir \o <<Slash>> \o file \in Names
      BY <2>2, ConcatIs
    <2> QED BY <2>1, <2>3 DEF Whole
  <1>4. j = Cut(d \o sep \o file, JoinMax - 1)
    BY DEF bw_join_path
  <1>5. ASSUME d \o sep \o file = w
        PROVE  j \in Names /\ Begins(j, w) /\ (Len(w) < JoinMax => j = w)
    <2>1. j = Cut(w, JoinMax - 1)
      BY <1>4, <1>5
    <2>2. w \in Bytes /\ Len(w) \in Nat
      BY <1>3, LenProperties DEF Names, Bytes
    <2> HIDE DEF j, w
    <2>3. j \in Bytes /\ Begins(j, w) /\ (Len(w) <= JoinMax - 1 => j = w)
      BY <1>0, <2>1, <2>2, CutIs
    <2>4. Len(w) < JoinMax => Len(w) <= JoinMax - 1
      BY <1>0, <2>2
    <2> QED BY <1>3, <2>3, <2>4, BeginsName
  <1>6. CASE AbsFile(file) \/ dir = <<>>
    <2>1. d = <<>>
      <3>1. Cut(<<>>, JoinMax - 1) = <<>>
        BY <1>0, <1>1, CutIs DEF Names
      <3> QED BY <1>6, <3>1
    <2>2. sep = <<>>
      BY <2>1
    <2>3. <<>> \o <<>> \o file = file
      BY <1>2, ConcatEmptySeq, EmptySeq DEF Bytes
    <2>4. d \o sep \o file = w
      BY <1>6, <2>1, <2>2, <2>3 DEF Whole
    <2> QED BY <1>3, <1>5, <2>4
  <1>7. CASE ~(AbsFile(file) \/ dir = <<>>)
    <2>1. d = Cut(dir, JoinMax - 1)
      BY <1>7
    <2>2. /\ d \in Bytes /\ Begins(d, dir)
          /\ Len(d) = IF Len(dir) <= JoinMax - 1 THEN Len(dir) ELSE JoinMax - 1
          /\ Len(dir) <= JoinMax - 1 => d = dir
      BY <1>0, <1>2, <2>1, CutIs
    <2>3. d \in Names
      BY <2>2, BeginsName
    <2>4. w = IF dir[Len(dir)] \in Separators THEN dir \o file ELSE dir \o <<Slash>> \o file
      BY <1>7 DEF Whole
    <2>5. Begins(dir, w) /\ Len(w) >= Len(dir) + Len(file)
          /\ (dir[Len(dir)] \notin Separators => Len(w) = Len(dir) + 1 + Len(file))
      <3>1. Begins(dir, dir \o file) /\ Len(dir \o file) = Len(dir) + Len(file)
        BY ConcatIs
      <3>2. dir \o <<Slash>> \in Names /\ Begins(dir, dir \o <<Slash>>) /\ Len(dir \o <<Slash>>) = Len(dir) + 1
        BY <1>1, ConcatIs
      <3> DEFINE a == dir \o <<Slash>>
      <3>3. Begins(a, a \o file) /\ Len(a \o file) = Len(a) + Len(file)
        BY <3>2, ConcatIs
      <3>4. Begins(dir, a \o file)
        <4>1. Begins(dir, a) /\ Len(a) = Len(dir) + 1
          BY <3>2
        <4> HIDE DEF a
        <4> QED BY <1>2, <3>3, <4>1 DEF Begins
      <3>5. Len(a \o file) = Len(dir) + 1 + Len(file)
        BY <1>2, <3>2, <3>3
      <3> QED BY <1>2, <2>4, <3>1, <3>4, <3>5
    <2>6. CASE Len(dir) < JoinMax - 1 \/ (Len(dir) = JoinMax - 1 /\ dir[Len(dir)] \in Separators)
      <3>1. Len(dir) <= JoinMax - 1 /\ (dir[Len(dir)] \notin Separators => Len(dir) + 1 < JoinMax)
        BY <1>0, <1>2, <2>6
      <3>2. d = dir /\ d # <<>>
        BY <1>7, <2>2, <3>1
      <3>3. sep = IF dir[Len(dir)] \in Separators THEN <<>> ELSE <<Slash>>
        BY <3>1, <3>2
      <3>4. dir \o <<>> = dir
        BY <1>2, ConcatEmptySeq DEF Bytes
      <3>5. d \o sep \o file = w
        BY <2>4, <3>2, <3>3, <3>4
      <3> QED BY <1>3, <1>5, <3>5
    <2>7. CASE ~(Len(dir) < JoinMax - 1 \/ (Len(dir) = JoinMax - 1 /\ dir[Len(dir)] \in Separators))
      <3>1. Len(d) = JoinMax - 1 /\ ~(Len(w) < JoinMax)
        <4>1. Len(w) \in Nat
          BY <1>3, LenProperties DEF Names, Bytes
        <4> HIDE DEF w
        <4> QED BY <1>0, <1>2, <2>2, <2>5, <2>7, <4>1
      <3>2. sep = <<>>
        <4>1. ~(Len(d) + 1 < JoinMax)
          BY <1>0, <3>1
        <4> QED BY <4>1
      <3> HIDE DEF d, sep, w, j
      <3> DEFINE z == d \o file
      <3>3. d \o <<>> = d
        BY <2>2, ConcatEmptySeq DEF Bytes
      <3>4. j = Cut(z, JoinMax - 1)
        BY <1>4, <3>2, <3>3
      <3>5. z \in Names /\ Begins(d, z) /\ Len(z) = Len(d) + Len(file)
        BY <2>3, ConcatIs
      <3> HIDE DEF z
      <3>6. z \in Bytes
        BY <3>5 DEF Names
      <3>7. j \in Bytes /\ Begins(j, z) /\ Len(j) = IF Len(z) <= JoinMax - 1 THEN Len(z) ELSE JoinMax - 1
        BY <1>0, <3>4, <3>6, CutIs
      <3>8. j \in Names
        BY <3>5, <3>7, BeginsName
      <3>9. Len(j) = JoinMax - 1
        BY <1>0, <1>2, <3>1, <3>5, <3>7
      <3>10. Begins(j, w)
        <4>1. Len(dir) <= Len(w) /\ Len(d) <= Len(dir)
          BY <2>2, <2>5 DEF Begins
        <4>2. Len(j) <= Len(w)
          <5>1. Len(w) \in Nat
            BY <1>3, LenProperties DEF Names, Bytes
          <5> QED BY <1>0, <1>2, <3>1, <3>9, <4>1, <5>1
        <4>3. ASSUME NEW m \in 1 .. Len(j) PROVE j[m] = w[m]
          <5>1. m \in 1 .. Len(d) /\ m \in 1 .. Len(dir)
            BY <1>0, <1>2, <3>1, <3>9, <4>1
          <5> QED BY <2>2, <2>5, <3>5, <3>7, <5>1 DEF Begins
        <4> QED BY <4>2, <4>3 DEF Begins
      <3> QED BY <1>3, <3>1, <3>8, <3>10 DEF j, w
    <2> QED BY <2>6, <2>7
  <1> QED BY <1>6, <1>7

\* A name that goes to the pool: what was there stays, and what is added ends.
LEMMA AddStrIs ==
    ASSUME PoolInv, NEW s \in Bytes, NEW r, r = bw_add_str(s)
    PROVE  /\ r.strs \in Bytes /\ Len(r.strs) <= StrMax /\ Len(strs) <= Len(r.strs)
           /\ r.strs # <<>> => r.strs[Len(r.strs)] = 0
           /\ \A m \in 1 .. Len(strs) : r.strs[m] = strs[m]
           /\ r.off = -1 \/ r.off \in 0 .. (Len(r.strs) - 1)
  <1>0. Len(strs) \in Nat /\ StrMax \in Nat /\ strs \in Seq(Byte) /\ Len(strs) <= StrMax
    BY LenProperties, LimitsAssumption DEF PoolInv, Bytes
  <1>1. CASE Len(strs) + 1 > StrMax
    <2>1. r = [off |-> -1, strs |-> strs]
      BY <1>1 DEF bw_add_str, NoOff
    <2> QED BY <1>0, <2>1 DEF PoolInv
  <1>2. CASE ~(Len(strs) + 1 > StrMax)
    <2> DEFINE x == Cut(s, StrRoom)
               y == strs \o x
               z == y \o <<0>>
    <2>1. StrRoom \in Nat /\ StrRoom = StrMax - Len(strs) - 1
      BY <1>0, <1>2 DEF StrRoom
    <2>2. x \in Seq(Byte) /\ Len(x) <= StrRoom /\ Len(x) \in Nat
      <3>1. x \in Seq(Byte) /\ Len(x) = (IF Len(s) <= StrRoom THEN Len(s) ELSE StrRoom) /\ Len(s) \in Nat
        BY <2>1, CutIs, LenProperties DEF Bytes
      <3> QED BY <2>1, <3>1
    <2> HIDE DEF x
    <2>3. y \in Seq(Byte) /\ Len(y) = Len(strs) + Len(x) /\ \A m \in 1 .. Len(strs) : y[m] = strs[m]
      <3>1. y \in Seq(Byte) /\ Len(y) = Len(strs) + Len(x)
            /\ \A m \in 1 .. (Len(strs) + Len(x)) : y[m] = IF m <= Len(strs) THEN strs[m] ELSE x[m - Len(strs)]
        BY <1>0, <2>2, ConcatProperties
      <3>2. \A m \in 1 .. Len(strs) : m \in 1 .. (Len(strs) + Len(x)) /\ m <= Len(strs)
        BY <1>0, <2>2
      <3> QED BY <3>1, <3>2
    <2> HIDE DEF y
    <2>4. <<0>> \in Seq(Byte) /\ Len(<<0>>) = 1 /\ <<0>>[1] = 0
      BY DEF Byte
    <2>5. z \in Seq(Byte) /\ Len(z) = Len(y) + 1 /\ z[Len(y) + 1] = 0 /\ \A m \in 1 .. Len(y) : z[m] = y[m]
      <3>1. z \in Seq(Byte) /\ Len(z) = Len(y) + Len(<<0>>)
            /\ \A m \in 1 .. (Len(y) + Len(<<0>>)) : z[m] = IF m <= Len(y) THEN y[m] ELSE <<0>>[m - Len(y)]
        BY <2>3, <2>4, ConcatProperties
      <3>2. Len(y) \in Nat
        BY <2>3, LenProperties
      <3>3. /\ Len(y) + 1 \in 1 .. (Len(y) + 1) /\ ~(Len(y) + 1 <= Len(y)) /\ (Len(y) + 1) - Len(y) = 1
            /\ \A m \in 1 .. Len(y) : m \in 1 .. (Len(y) + 1) /\ m <= Len(y)
        BY <3>2
      <3> QED BY <2>4, <3>1, <3>3
    <2> HIDE DEF z
    <2>6. Len(y) \in Nat /\ Len(z) <= StrMax /\ Len(strs) <= Len(z) /\ Len(strs) \in 0 .. (Len(z) - 1)
      BY <1>0, <2>1, <2>2, <2>3, <2>5
    <2>7. \A m \in 1 .. Len(strs) : z[m] = strs[m]
      <3>1. \A m \in 1 .. Len(strs) : m \in 1 .. Len(y)
        BY <1>0, <2>2, <2>3
      <3> QED BY <2>3, <2>5, <3>1
    <2>8. r = [off |-> Len(strs), strs |-> z]
      BY <1>2 DEF bw_add_str, x, y, z
    <2> QED BY <2>5, <2>6, <2>7, <2>8 DEF Bytes
  <1> QED BY <1>1, <1>2

\* The name that the pool then holds: as much of it as there is room for.
LEMMA StoredIs ==
    ASSUME PoolInv, NEW s \in Names, NEW r, r = bw_add_str(s)
    PROVE  /\ r.off = -1 => Len(strs) = StrMax
           /\ r.off # -1 => StrRoom \in Nat /\ Text(r.strs, r.off + 1) = Cut(s, StrRoom)
  <1>0. Len(strs) \in Nat /\ StrMax \in Nat /\ strs \in Seq(Byte) /\ Len(strs) <= StrMax /\ s \in Bytes
    BY LenProperties, LimitsAssumption DEF PoolInv, Bytes, Names
  <1>1. CASE Len(strs) + 1 > StrMax
    <2>1. r.off = -1
      BY <1>1 DEF bw_add_str, NoOff
    <2> QED BY <1>0, <1>1, <2>1
  <1>2. CASE ~(Len(strs) + 1 > StrMax)
    <2> DEFINE x == Cut(s, StrRoom)
               y == strs \o x
               z == y \o <<0>>
               q == Len(strs) + 1
    <2>1. StrRoom \in Nat
      BY <1>0, <1>2 DEF StrRoom
    <2>2. x \in Seq(Byte) /\ Len(x) \in Nat /\ NoNul(x)
      <3>1. x \in Bytes /\ Begins(x, s)
        BY <1>0, <2>1, CutIs
      <3>2. x \in Names
        BY <3>1, BeginsName
      <3> QED BY <3>2, LenProperties DEF Bytes, Names
    <2> HIDE DEF x
    <2>3. /\ y \in Seq(Byte) /\ Len(y) = Len(strs) + Len(x)
          /\ \A m \in 1 .. (Len(strs) + Len(x)) : y[m] = IF m <= Len(strs) THEN strs[m] ELSE x[m - Len(strs)]
      BY <1>0, <2>2, ConcatProperties
    <2> HIDE DEF y
    <2>4. <<0>> \in Seq(Byte) /\ Len(<<0>>) = 1 /\ <<0>>[1] = 0
      BY DEF Byte
    <2>5. /\ z \in Seq(Byte) /\ Len(z) = Len(y) + Len(<<0>>)
          /\ \A m \in 1 .. (Len(y) + Len(<<0>>)) : z[m] = IF m <= Len(y) THEN y[m] ELSE <<0>>[m - Len(y)]
      BY <2>3, <2>4, ConcatProperties
    <2> HIDE DEF z
    <2>6. r = [off |-> Len(strs), strs |-> z]
      BY <1>2 DEF bw_add_str, x, y, z
    <2>7. q \in Nat /\ Len(z) = Len(strs) + Len(x) + 1 /\ Len(y) = Len(strs) + Len(x) /\ q = Len(strs) + 1
      BY <1>0, <2>2, <2>3, <2>4, <2>5
    <2> HIDE DEF q
    <2>8. ASSUME NEW m \in 1 .. Len(x) PROVE z[q + m - 1] = x[m] /\ x[m] # 0
      <3>1. q + m - 1 \in 1 .. (Len(strs) + Len(x)) /\ ~(q + m - 1 <= Len(strs)) /\ (q + m - 1) - Len(strs) = m
            /\ q + m - 1 \in 1 .. (Len(y) + 1) /\ q + m - 1 <= Len(y)
        BY <1>0, <2>2, <2>7
      <3>2. z[q + m - 1] = y[q + m - 1]
        BY <2>4, <2>5, <3>1
      <3>3. y[q + m - 1] = x[m]
        BY <2>3, <3>1
      <3> QED BY <2>2, <3>2, <3>3 DEF NoNul
    <2>9. z[q + Len(x)] = 0
      <3>1. q + Len(x) \in 1 .. (Len(y) + 1) /\ ~(q + Len(x) <= Len(y)) /\ (q + Len(x)) - Len(y) = 1
        BY <1>0, <2>2, <2>7
      <3> QED BY <2>4, <2>5, <3>1
    <2>10. q + Len(x) \in Nuls(z, q) /\ \A k \in Nuls(z, q) : q + Len(x) <= k
      <3>1. q + Len(x) \in q .. Len(z)
        BY <1>0, <2>2, <2>7
      <3>2. ASSUME NEW k \in q .. Len(z), ~(q + Len(x) <= k) PROVE z[k] # 0
        <4>1. k - q + 1 \in 1 .. Len(x) /\ q + (k - q + 1) - 1 = k
          BY <2>2, <2>7, <3>2
        <4>2. z[q + (k - q + 1) - 1] # 0
          BY <2>8, <4>1
        <4> QED BY <4>1, <4>2
      <3> QED BY <2>9, <3>1, <3>2 DEF Nuls
    <2>11. Min(Nuls(z, q)) = q + Len(x)
      <3>1. Nuls(z, q) \in SUBSET Nat
        BY <2>7 DEF Nuls
      <3> QED BY <2>10, <3>1, MinIs
    <2> DEFINE e == q + Len(x) - 1
               t == SubSeq(z, q, e)
    <2>12. Text(z, q) = t
      <3>1. Text(z, q) = SubSeq(z, q, Min(Nuls(z, q)) - 1)
        BY DEF Text
      <3>2. Min(Nuls(z, q)) - 1 = e
        BY <2>2, <2>7, <2>11
      <3> HIDE DEF e
      <3> QED BY <3>1, <3>2
    <2>13. e \in Int /\ q \in Int /\ e - q + 1 = Len(x) /\ (q <= e <=> Len(x) > 0)
           /\ \A k \in q .. e : k \in 1 .. Len(z)
      BY <1>0, <2>2, <2>7
    <2> HIDE DEF e
    <2>14. \A k \in q .. e : z[k] \in Byte
      BY <2>5, <2>13, ElementOfSeq
    <2>15. /\ t \in Seq(Byte)
           /\ Len(t) = IF q <= e THEN e - q + 1 ELSE 0
           /\ \A m \in 1 .. (e - q + 1) : t[m] = z[q + m - 1]
      BY <2>13, <2>14, SubSeqProperties
    <2> HIDE DEF t
    <2>16. Len(t) = Len(x) /\ \A m \in 1 .. Len(t) : t[m] = x[m]
      <3>1. Len(t) = Len(x)
        BY <2>2, <2>13, <2>15
      <3> QED BY <2>8, <2>13, <2>15, <3>1
    <2>17. t = x
      BY <2>2, <2>15, <2>16, SeqEqual
    <2>18. r.off = Len(strs) /\ r.strs = z
      BY <2>6
    <2> QED BY <1>0, <2>1, <2>12, <2>17, <2>18 DEF q, x
  <1> QED BY <1>1, <1>2

\* One field of an entry read.
Fields == [p : Positions, path : Names, dir_idx : Nat, have_dir : BOOLEAN]

FieldOf(inFiles, e, f) ==
    CASE e.p = 0 -> e
      [] e.p # 0 /\ f.lnct = Lnct.PATH ->
            LET r == bw_form_path(e.p, f.form) IN [e EXCEPT !.p = r.p, !.path = r.path]
      [] e.p # 0 /\ f.lnct = Lnct.DIRECTORY_INDEX /\ inFiles ->
            LET r == bw_form_udata(e.p, f.form)
            IN  [e EXCEPT !.p = r.p, !.dir_idx = r.v, !.have_dir = TRUE]
      [] OTHER -> [e EXCEPT !.p = bw_form_skip(e.p, f.form)]

\* A field read from within the data leaves the cursor there.
LEMMA FieldIs ==
    ASSUME UnitInv, pc # "idle", NEW inFiles, NEW e \in Fields, NEW f
    PROVE  FieldOf(inFiles, e, f) \in Fields
  <1>1. CASE e.p = 0
    BY <1>1 DEF FieldOf
  <1>2. CASE e.p # 0
    <2>0. e.p \in Positions /\ e = [p |-> e.p, path |-> e.path, dir_idx |-> e.dir_idx, have_dir |-> e.have_dir]
          /\ e.path \in Names /\ e.dir_idx \in Nat /\ e.have_dir \in BOOLEAN
      BY DEF Fields
    <2>1. bw_form_path(e.p, f.form).p \in Positions /\ bw_form_path(e.p, f.form).path \in Names
      BY <1>2, <2>0, FormPathIs
    <2>2. bw_form_udata(e.p, f.form).p \in Positions /\ bw_form_udata(e.p, f.form).v \in Nat
      BY <2>0, UdataIs
    <2>3. bw_form_skip(e.p, f.form) \in Positions
      BY <1>2, <2>0, FormSkipIs
    <2>4. CASE f.lnct = Lnct.PATH
      <3>1. FieldOf(inFiles, e, f) = [e EXCEPT !.p = bw_form_path(e.p, f.form).p,
                                               !.path = bw_form_path(e.p, f.form).path]
        BY <1>2, <2>4 DEF FieldOf, Lnct
      <3> QED BY <2>1, <3>1 DEF Fields
    <2>5. CASE f.lnct = Lnct.DIRECTORY_INDEX /\ inFiles
      <3>1. FieldOf(inFiles, e, f) = [e EXCEPT !.p = bw_form_udata(e.p, f.form).p,
                                               !.dir_idx = bw_form_udata(e.p, f.form).v, !.have_dir = TRUE]
        BY <1>2, <2>5 DEF FieldOf, Lnct
      <3> QED BY <2>2, <3>1 DEF Fields
    <2>6. CASE f.lnct # Lnct.PATH /\ ~(f.lnct = Lnct.DIRECTORY_INDEX /\ inFiles)
      <3>1. FieldOf(inFiles, e, f) = [e EXCEPT !.p = bw_form_skip(e.p, f.form)]
        BY <1>2, <2>6 DEF FieldOf
      <3> QED BY <2>3, <3>1 DEF Fields
    <2> QED BY <2>4, <2>5, <2>6
  <1> QED BY <1>1, <1>2


\* So does an entry, whatever fields its format has.
LEMMA EntryIs ==
    ASSUME UnitInv, pc # "idle", NEW inFiles \in BOOLEAN, Len(fmt) \in Nat
    PROVE  Entry(inFiles) \in Fields
  <1> DEFINE e0 == [p |-> p, path |-> <<>>, dir_idx |-> 0, have_dir |-> FALSE]
             N == Len(fmt)
             Turning(g) == [k \in 0 .. N |-> IF k = 0 THEN e0 ELSE FieldOf(inFiles, g[k - 1], fmt[k])]
             F == CHOOSE g : g = Turning(g)
             step == [z \in Fields \X (1 .. N) |-> FieldOf(inFiles, z[1], fmt[z[2]])]
  <1>1. Entry(inFiles) = F[N]
    BY DEF Entry, FieldOf
  <1>2. e0 \in Fields
    <2>1. p \in Positions /\ <<>> \in Names
      BY BytesIn, NoName
    <2> QED BY <2>1 DEF Fields
  <1> HIDE DEF e0, N
  <1>3. N \in Nat
    BY DEF N
  <1>4. step \in [Fields \X (1 .. N) -> Fields]
        /\ \A e \in Fields, k \in 1 .. N : step[<<e, k>>] = FieldOf(inFiles, e, fmt[k])
    <2>1. \A z \in Fields \X (1 .. N) : FieldOf(inFiles, z[1], fmt[z[2]]) \in Fields
      BY FieldIs
    <2> QED BY <2>1
  <1> HIDE DEF step
  <1>5. PICK g \in [0 .. N -> Fields] : FollowsUpTo(N, g, e0, step)
    BY <1>2, <1>3, <1>4, RecursionUpTo
  <1>6. ASSUME NEW h, NEW k \in 0 .. N
        PROVE  Turning(h)[k] = IF k = 0 THEN e0 ELSE FieldOf(inFiles, h[k - 1], fmt[k])
    OBVIOUS
  <1>7. g = Turning(g)
    <2>1. ASSUME NEW k \in 0 .. N PROVE g[k] = Turning(g)[k]
      <3>1. CASE k = 0
        BY <1>5, <1>6, <3>1 DEF FollowsUpTo
      <3>2. CASE k # 0
        <4>1. k \in 1 .. N /\ k - 1 \in 0 .. N
          BY <1>3, <3>2
        <4>2. g[k - 1] \in Fields
          BY <4>1
        <4>3. g[k] = step[<<g[k - 1], k>>]
          BY <1>5, <4>1 DEF FollowsUpTo
        <4>4. step[<<g[k - 1], k>>] = FieldOf(inFiles, g[k - 1], fmt[k])
          BY <1>4, <4>1, <4>2
        <4>5. Turning(g)[k] = FieldOf(inFiles, g[k - 1], fmt[k])
          BY <3>2
        <4> QED BY <4>3, <4>4, <4>5
      <3> QED BY <3>1, <3>2
    <2> QED BY <2>1
  <1>8. F = Turning(F)
    <2> HIDE DEF Turning
    <2> QED BY <1>7
  <1> HIDE DEF F
  <1> DEFINE S == {k \in Nat : k <= N => F[k] \in Fields}
  <1>9. 0 \in S
    BY <1>2, <1>3, <1>6, <1>8
  <1>10. ASSUME NEW k \in Nat, k \in S PROVE k + 1 \in S
    <2> SUFFICES ASSUME k + 1 <= N PROVE F[k + 1] \in Fields
      OBVIOUS
    <2>1. k + 1 \in 0 .. N /\ k + 1 # 0 /\ (k + 1) - 1 = k /\ k <= N
      BY <1>3
    <2>2. F[k + 1] = FieldOf(inFiles, F[k], fmt[k + 1])
      <3> HIDE DEF Turning
      <3> QED BY <1>6, <1>8, <2>1
    <2>3. F[k] \in Fields
      BY <1>10, <2>1
    <2> QED BY <2>2, <2>3, FieldIs
  <1>11. \A k \in Nat : k \in S
    <2> HIDE DEF S
    <2> QED BY <1>9, <1>10, Inductive
  <1>12. F[N] \in Fields
    BY <1>3, <1>11
  <1> QED BY <1>1, <1>12

\* What the description of a table has up to some field.
Described == [p : Positions, fmt : Seq([lnct : Nat, form : Nat])]

OneMore(before) ==
    LET lnct == bw_uleb(c, before.p)
        form == bw_uleb(c, lnct.p)
    IN  [p |-> form.p, fmt |-> Append(before.fmt, [lnct |-> lnct.v, form |-> form.v])]

\* One more field of the description.
LEMMA OneMoreIs ==
    ASSUME UnitInv, NEW before \in Described
    PROVE  OneMore(before) \in Described
  <1> DEFINE lnct == bw_uleb(c, before.p)
             form == bw_uleb(c, lnct.p)
             field == [lnct |-> lnct.v, form |-> form.v]
  <1>1. before.p \in Positions /\ before.fmt \in Seq([lnct : Nat, form : Nat])
    BY DEF Described
  <1>2. lnct.p \in Positions /\ lnct.v \in Nat
    BY <1>1, LebIs
  <1> HIDE DEF lnct
  <1>3. form.p \in Positions /\ form.v \in Nat
    BY <1>2, LebIs
  <1> HIDE DEF form
  <1>4. field \in [lnct : Nat, form : Nat]
    BY <1>2, <1>3
  <1>5. OneMore(before) = [p |-> form.p, fmt |-> Append(before.fmt, field)]
    BY DEF OneMore, lnct, form
  <1> HIDE DEF field
  <1>6. Append(before.fmt, field) \in Seq([lnct : Nat, form : Nat])
    BY <1>1, <1>4, AppendProperties
  <1> QED BY <1>3, <1>5, <1>6 DEF Described

\* The description of a table: as many entries as there is room for.
LEMMA FormatsIs ==
    ASSUME UnitInv, NEW max \in Nat
    PROVE  /\ Formats(p, max).p \in Positions /\ Len(Formats(p, max).fmt) \in Nat
           /\ Formats(p, max).count \in Nat
           /\ Formats(p, max).p # 0 => Formats(p, max).count <= max
  <1> DEFINE n == Read(p, 1)
             b == [p |-> n.p, fmt |-> <<>>]
             Turning(g) == [k \in 0 .. FmtMax |-> IF k = 0 THEN b ELSE OneMore(g[k - 1])]
             F == CHOOSE g : g = Turning(g)
             step == [z \in Described \X (1 .. FmtMax) |-> OneMore(z[1])]
             all == IF TooMany(n.v, FmtMax) THEN [p |-> 0, fmt |-> <<>>] ELSE F[n.v]
             count == bw_uleb(c, all.p)
  <1>1. Formats(p, max) = [p |-> IF TooMany(count.v, max) THEN 0 ELSE count.p, fmt |-> all.fmt,
                           count |-> count.v]
    BY DEF Formats, OneMore
  <1>2. n.p \in Positions /\ n.v \in Nat /\ FmtMax \in Nat /\ 0 \in Positions
    <2>1. p \in Positions /\ Len(c) \in Nat
      BY BytesIn
    <2> QED BY <2>1, ReadIs, LimitsAssumption DEF Positions
  <1> HIDE DEF n
  <1>3. <<>> \in Seq([lnct : Nat, form : Nat])
    BY EmptySeq
  <1>4. b \in Described /\ [p |-> 0, fmt |-> <<>>] \in Described
    BY <1>2, <1>3 DEF Described
  <1> HIDE DEF b
  <1>5. step \in [Described \X (1 .. FmtMax) -> Described]
        /\ \A e \in Described, k \in 1 .. FmtMax : step[<<e, k>>] = OneMore(e)
    <2>1. \A z \in Described \X (1 .. FmtMax) : OneMore(z[1]) \in Described
      BY OneMoreIs
    <2> QED BY <2>1
  <1> HIDE DEF step
  <1>6. PICK g \in [0 .. FmtMax -> Described] : FollowsUpTo(FmtMax, g, b, step)
    BY <1>2, <1>4, <1>5, RecursionUpTo
  <1>7. ASSUME NEW h, NEW k \in 0 .. FmtMax
        PROVE  Turning(h)[k] = IF k = 0 THEN b ELSE OneMore(h[k - 1])
    OBVIOUS
  <1>8. g = Turning(g)
    <2>1. ASSUME NEW k \in 0 .. FmtMax PROVE g[k] = Turning(g)[k]
      <3>1. CASE k = 0
        BY <1>6, <1>7, <3>1 DEF FollowsUpTo
      <3>2. CASE k # 0
        <4>1. k \in 1 .. FmtMax /\ k - 1 \in 0 .. FmtMax
          BY <1>2, <3>2
        <4>2. g[k - 1] \in Described
          BY <4>1
        <4>3. g[k] = step[<<g[k - 1], k>>]
          BY <1>6, <4>1 DEF FollowsUpTo
        <4>4. step[<<g[k - 1], k>>] = OneMore(g[k - 1])
          BY <1>5, <4>1, <4>2
        <4>5. Turning(g)[k] = OneMore(g[k - 1])
          BY <3>2
        <4> QED BY <4>3, <4>4, <4>5
      <3> QED BY <3>1, <3>2
    <2> QED BY <2>1
  <1>9. F = Turning(F)
    <2> HIDE DEF Turning
    <2> QED BY <1>8
  <1> HIDE DEF F
  <1> DEFINE S == {k \in Nat : k <= FmtMax => F[k] \in Described}
  <1>10. 0 \in S
    BY <1>2, <1>4, <1>7, <1>9
  <1>11. ASSUME NEW k \in Nat, k \in S PROVE k + 1 \in S
    <2> SUFFICES ASSUME k + 1 <= FmtMax PROVE F[k + 1] \in Described
      OBVIOUS
    <2>1. k + 1 \in 0 .. FmtMax /\ k + 1 # 0 /\ (k + 1) - 1 = k /\ k <= FmtMax
      BY <1>2
    <2>2. F[k + 1] = OneMore(F[k])
      <3> HIDE DEF Turning
      <3> QED BY <1>7, <1>9, <2>1
    <2>3. F[k] \in Described
      BY <1>11, <2>1
    <2> QED BY <2>2, <2>3, OneMoreIs
  <1>12. \A k \in Nat : k \in S
    <2> HIDE DEF S
    <2> QED BY <1>10, <1>11, Inductive
  <1>13. all \in Described
    <2>1. ~TooMany(n.v, FmtMax) => n.v <= FmtMax
      BY <1>2 DEF TooMany
    <2> QED BY <1>2, <1>4, <1>12, <2>1
  <1> HIDE DEF all
  <1>14. all.p \in Positions /\ Len(all.fmt) \in Nat
    BY <1>13, LenProperties DEF Described
  <1>15. count.p \in Positions /\ count.v \in Nat
    BY <1>14, LebIs
  <1> HIDE DEF count
  <1> QED BY <1>1, <1>2, <1>14, <1>15 DEF TooMany

\* The offsets of names: of one that had no room, or of one that is in the pool.
Offsets == {-1} \cup 0 .. (Len(strs) - 1)

\* The path of a file, however long.
WholeName(path, idx) == IF Joins(idx) THEN Whole(Text(strs, dirs[idx + 1] + 1), path) ELSE path

\* The name of a file.
LEMMA FileNameIs ==
    ASSUME PoolInv, dirs \in Seq(Offsets), NEW path \in Names, NEW idx \in Nat
    PROVE  /\ FileName(path, idx) \in Names /\ WholeName(path, idx) \in Names
           /\ Begins(FileName(path, idx), WholeName(path, idx))
           /\ Len(WholeName(path, idx)) < JoinMax => FileName(path, idx) = WholeName(path, idx)
  <1>1. CASE Joins(idx)
    <2> DEFINE dir == Text(strs, dirs[idx + 1] + 1)
    <2>1. Len(dirs) \in Nat /\ Len(strs) \in Nat
      BY LenProperties DEF PoolInv, Bytes
    <2>2. idx + 1 \in 1 .. Len(dirs)
      BY <1>1, <2>1 DEF Joins
    <2>3. dirs[idx + 1] \in Offsets
      BY <2>2, ElementOfSeq
    <2>4. dirs[idx + 1] + 1 \in 1 .. Len(strs)
      BY <1>1, <2>1, <2>3 DEF Joins, Offsets
    <2>5. Nuls(strs, dirs[idx + 1] + 1) # {}
      BY <2>4, StringEnds DEF PoolInv
    <2>6. dir \in Names
      BY <2>4, <2>5, TextIs DEF PoolInv
    <2>7. FileName(path, idx) = bw_join_path(dir, path) /\ WholeName(path, idx) = Whole(dir, path)
      BY <1>1 DEF FileName, WholeName
    <2> HIDE DEF dir
    <2> QED BY <2>6, <2>7, JoinIs
  <1>2. CASE ~Joins(idx)
    <2>1. FileName(path, idx) = path /\ WholeName(path, idx) = path
      BY <1>2 DEF FileName, WholeName
    <2>2. Len(path) \in Nat
      BY LenProperties DEF Names, Bytes
    <2> QED BY <2>1, <2>2 DEF Begins
  <1> QED BY <1>1, <1>2

(***************************************************************************)
(* The steps                                                               *)
(***************************************************************************)

\* The tables: offsets of names, as many as there is room for, and in version
\* 5 room also for the entries that remain.
TablesInv ==
    /\ dirs \in Seq(Offsets) /\ files \in Seq(Offsets)
    /\ Len(dirs) <= DirsMax /\ Len(files) <= FilesMax
    /\ left \in Nat /\ Len(fmt) \in Nat
    /\ pc \in {"idle", "tables"} => dirs = <<>> /\ files = <<>> /\ left = 0
    /\ pc \in {"dirs4", "dirs5", "astray_dirs"} => files = <<>>
    /\ pc = "dirs5" => Len(dirs) + left <= DirsMax
    /\ pc = "files5" => Len(files) + left <= FilesMax

\* The cursor behind the section, where a name of version 4 has led it.
Lost ==
    /\ unit \in Units /\ unit.version < 5 /\ p = Past
    /\ pc \in {"astray_dirs", "astray_files", "done", "failed", "crashed"}

CursorInv ==
    /\ \/ UnitInv /\ pc \notin {"astray_dirs", "astray_files"}
       \/ Lost
    /\ pc \in {"dirs4", "files4"} => unit.version < 5

Inv ==
    /\ pc \in {"idle", "tables", "dirs4", "files4", "dirs5", "files5", "astray_dirs", "astray_files",
               "done", "failed", "crashed"}
    /\ CursorInv /\ PoolInv /\ TablesInv

\* What the pool holds stays where it is.
Kept == Len(strs) <= Len(strs') /\ \A m \in 1 .. Len(strs) : strs'[m] = strs[m]

\* A longer pool has the offsets of a shorter one.
LEMMA OffsetsGrow ==
    ASSUME Len(strs) \in Nat, Len(strs') \in Nat, Kept, NEW t \in Seq(Offsets)
    PROVE  t \in Seq(Offsets') /\ Len(t) \in Nat
           /\ \A o \in Offsets' : Append(t, o) \in Seq(Offsets') /\ Len(Append(t, o)) = Len(t) + 1
  <1>1. Offsets \subseteq Offsets'
    BY DEF Kept, Offsets
  <1>2. t \in Seq(Offsets') /\ Len(t) \in Nat
    <2>1. Len(t) \in Nat /\ DOMAIN t = 1 .. Len(t) /\ t \in [1 .. Len(t) -> Offsets]
      BY LenProperties
    <2>2. t \in [1 .. Len(t) -> Offsets']
      BY <1>1, <2>1
    <2> QED BY <2>1, <2>2, SeqDef
  <1> QED BY <1>2, AppendProperties

\* A name added to the pool, or refused by it.
LEMMA NameAdded ==
    ASSUME PoolInv, NEW s \in Names, strs' = bw_add_str(s).strs
    PROVE  PoolInv' /\ Kept /\ bw_add_str(s).off \in Offsets' /\ Len(strs) \in Nat /\ Len(strs') \in Nat
  <1> DEFINE r == bw_add_str(s)
  <1>1. /\ r.strs \in Bytes /\ Len(r.strs) <= StrMax /\ Len(strs) <= Len(r.strs)
        /\ r.strs # <<>> => r.strs[Len(r.strs)] = 0
        /\ \A m \in 1 .. Len(strs) : r.strs[m] = strs[m]
        /\ r.off = -1 \/ r.off \in 0 .. (Len(r.strs) - 1)
    BY AddStrIs DEF Names
  <1> HIDE DEF r
  <1>2. strs' = r.strs
    BY DEF r
  <1>3. Len(strs) \in Nat /\ Len(r.strs) \in Nat
    BY <1>1, LenProperties DEF PoolInv, Bytes
  <1>4. PoolInv'
    BY <1>1, <1>2 DEF PoolInv, Bytes, Byte
  <1>5. Kept /\ r.off \in Offsets'
    BY <1>1, <1>2 DEF Kept, Offsets
  <1> QED BY <1>2, <1>3, <1>4, <1>5 DEF r

\* The parse goes on in the same unit.
LEMMA SameUnit ==
    ASSUME UnitInv, pc # "idle", pc' # "idle", unit' = unit, p' \in Positions, p' # 0
    PROVE  UnitInv'
  <1>1. c' = c /\ Len(c) \in Nat
    BY BytesIn DEF c
  <1> QED BY <1>1 DEF UnitInv, Positions

\* The pool and the tables are left as they are.
LEMMA Unmoved ==
    ASSUME PoolInv, strs' = strs
    PROVE  PoolInv' /\ Kept /\ Offsets' = Offsets /\ Len(strs) \in Nat /\ Len(strs') \in Nat
  <1>1. Len(strs) \in Nat
    BY LenProperties DEF PoolInv, Bytes
  <1> QED BY <1>1 DEF PoolInv, Kept, Offsets, Bytes, Byte

\* A failure keeps what has been read.
LEMMA StepFail ==
    ASSUME Inv, Fail, pc # "idle"
    PROVE  Inv' /\ Kept
  <1>1. CursorInv'
    <2>1. CASE UnitInv
      BY <2>1, BytesIn, SameUnit DEF Fail, CursorInv
    <2>2. CASE Lost
      BY <2>2 DEF Fail, CursorInv, Lost, Past, c
    <2> QED BY <2>1, <2>2 DEF Inv, CursorInv
  <1>2. PoolInv' /\ Kept /\ Offsets' = Offsets
    BY Unmoved DEF Inv, Fail
  <1>3. TablesInv'
    BY <1>2 DEF Inv, TablesInv, Fail
  <1> QED BY <1>1, <1>2, <1>3 DEF Inv, Fail

\* The tables have room for the first directory.
LEMMA StepBegin4 ==
    ASSUME Inv, Begin4
    PROVE  Inv' /\ Kept
  <1> DEFINE r == bw_add_str(<<>>)
  <1>1. <<>> \in Names /\ dirs' = Append(dirs, r.off) /\ strs' = r.strs
    BY NoName DEF Begin4, AddDir
  <1>2. PoolInv' /\ Kept /\ r.off \in Offsets' /\ Len(strs) \in Nat /\ Len(strs') \in Nat
    BY <1>1, NameAdded DEF Inv, CursorInv, Lost
  <1> HIDE DEF r
  <1>3. UnitInv'
    BY BytesIn, SameUnit DEF Inv, CursorInv, Lost, Begin4
  <1>4. dirs' \in Seq(Offsets') /\ Len(dirs') = Len(dirs) + 1 /\ files' \in Seq(Offsets')
    BY <1>1, <1>2, OffsetsGrow DEF Inv, CursorInv, Lost, TablesInv, Begin4
  <1>5. Len(dirs) = 0 /\ DirsMax \in Nat /\ DirsMax >= 1
    BY LimitsAssumption DEF Inv, CursorInv, Lost, TablesInv, Begin4
  <1>6. TablesInv'
    BY <1>4, <1>5 DEF Inv, CursorInv, Lost, TablesInv, Begin4
  <1> QED BY <1>2, <1>3, <1>6 DEF Inv, CursorInv, Lost, Begin4

\* The name at the cursor and what is behind it.
LEMMA NameAt ==
    ASSUME UnitInv, NEW have, NEW max, Entry4(have, max), Nuls(c, p) # {}
    PROVE  Text(c, p) \in Names /\ p + Len(Text(c, p)) + 1 \in Positions /\ p + Len(Text(c, p)) + 1 # 0
  <1>1. Len(c) \in Nat /\ c \in Bytes
    BY BytesIn
  <1>2. p \in 1 .. Len(c)
    BY <1>1 DEF UnitInv, Entry4, bw_cur_ok
  <1>3. Min(Nuls(c, p)) \in p .. Len(c) /\ Text(c, p) \in Names /\ Len(Text(c, p)) = Min(Nuls(c, p)) - p
    BY <1>1, <1>2, TextIs
  <1> QED BY <1>1, <1>2, <1>3 DEF Positions

\* A directory is read only while the table has room.
LEMMA StepDir4 ==
    ASSUME Inv, Dir4
    PROVE  Inv' /\ Kept
  <1> DEFINE name == Text(c, p)
             r == bw_add_str(name)
  <1>1. name \in Names /\ p + Len(name) + 1 \in Positions /\ p + Len(name) + 1 # 0
    BY NameAt DEF Inv, CursorInv, Lost, Dir4
  <1>2. dirs' = Append(dirs, r.off) /\ strs' = r.strs /\ p' = p + Len(name) + 1
    BY DEF Dir4, AddDir
  <1>3. PoolInv' /\ Kept /\ r.off \in Offsets' /\ Len(strs) \in Nat /\ Len(strs') \in Nat
    BY <1>1, <1>2, NameAdded DEF Inv, CursorInv, Lost
  <1> HIDE DEF r, name
  <1>4. UnitInv'
    BY <1>1, <1>2, SameUnit DEF Inv, CursorInv, Lost, Dir4
  <1>5. dirs' \in Seq(Offsets') /\ Len(dirs') = Len(dirs) + 1 /\ files' \in Seq(Offsets') /\ Len(dirs) \in Nat
    BY <1>2, <1>3, OffsetsGrow DEF Inv, CursorInv, Lost, TablesInv, Dir4
  <1>6. Len(dirs) < DirsMax /\ DirsMax \in Nat
    BY LimitsAssumption DEF Dir4, Entry4
  <1>7. TablesInv'
    BY <1>5, <1>6 DEF Inv, CursorInv, Lost, TablesInv, Dir4
  <1> QED BY <1>3, <1>4, <1>7 DEF Inv, CursorInv, Lost, Dir4

\* A string found behind the section.
LEMMA StrayIs ==
    ASSUME NEW s \in Strays
    PROVE  s \in Names
  <1>1. s \in Seq(1 .. 255)
    BY StringsAssumption
  <1>2. Len(s) \in Nat /\ s \in [1 .. Len(s) -> 1 .. 255]
    BY <1>1, LenProperties
  <1>3. \A m \in 1 .. Len(s) : s[m] \in 1 .. 255
    BY <1>2
  <1>4. 1 .. 255 \subseteq Byte /\ 0 \notin 1 .. 255
    BY DEF Byte
  <1>5. s \in [1 .. Len(s) -> Byte]
    BY <1>2, <1>4
  <1>6. s \in Seq(Byte)
    BY <1>2, <1>5, SeqDef
  <1> QED BY <1>3, <1>4, <1>6 DEF Names, NoNul, Bytes

\* A name that the section does not end, with what strlen finds behind it.
LEMMA StrayName ==
    ASSUME UnitInv, NEW have, NEW max, Entry4(have, max), Nuls(c, p) = {}, NEW s \in Strays
    PROVE  SubSeq(c, p, Len(c)) \o s \in Names
  <1> DEFINE t == SubSeq(c, p, Len(c))
  <1>1. Len(c) \in Nat /\ c \in Seq(Byte) /\ \A m \in 1 .. Len(c) : c[m] \in Byte
    BY BytesIn DEF Bytes
  <1>2. p \in 1 .. Len(c)
    BY <1>1 DEF UnitInv, Entry4, bw_cur_ok
  <1>3. \A k \in p .. Len(c) : c[k] \in Byte /\ c[k] # 0
    BY <1>1, <1>2 DEF Nuls
  <1>4. /\ t \in Seq(Byte)
        /\ Len(t) = IF p <= Len(c) THEN Len(c) - p + 1 ELSE 0
        /\ \A m \in 1 .. (Len(c) - p + 1) : t[m] = c[p + m - 1]
    <2>1. p \in Int /\ Len(c) \in Int
      BY <1>1, <1>2
    <2> QED BY <1>3, <2>1, SubSeqProperties
  <1> HIDE DEF t
  <1>5. ASSUME NEW m \in 1 .. Len(t) PROVE t[m] # 0
    <2>1. m \in 1 .. (Len(c) - p + 1) /\ p + m - 1 \in p .. Len(c)
      BY <1>1, <1>2, <1>4
    <2> QED BY <1>3, <1>4, <2>1
  <1>6. t \in Names
    BY <1>4, <1>5 DEF Names, NoNul, Bytes
  <1>7. s \in Names
    BY StrayIs
  <1> QED BY <1>6, <1>7, ConcatIs DEF t

\* A directory is added while the table has room, with the cursor behind the
\* section before the step or after it.
LEMMA StrayDirAdded ==
    ASSUME Inv, NEW s \in Names, AddDir(s), Len(dirs) < DirsMax, pc \in {"dirs4", "astray_dirs"},
           p' = Past, pc' = "astray_dirs", UNCHANGED <<unit, fmt, left, files>>
    PROVE  Inv' /\ Kept
  <1> DEFINE r == bw_add_str(s)
  <1>1. dirs' = Append(dirs, r.off) /\ strs' = r.strs
    BY DEF AddDir
  <1>2. PoolInv' /\ Kept /\ r.off \in Offsets' /\ Len(strs) \in Nat /\ Len(strs') \in Nat
    BY <1>1, NameAdded DEF Inv
  <1> HIDE DEF r
  <1>3. CursorInv'
    BY DEF Inv, CursorInv, UnitInv, Lost, Past, c
  <1>4. dirs' \in Seq(Offsets') /\ Len(dirs') = Len(dirs) + 1 /\ files' \in Seq(Offsets') /\ Len(dirs) \in Nat
    BY <1>1, <1>2, OffsetsGrow DEF Inv, TablesInv
  <1>5. DirsMax \in Nat
    BY LimitsAssumption
  <1>6. TablesInv'
    BY <1>4, <1>5 DEF Inv, TablesInv
  <1> QED BY <1>2, <1>3, <1>6 DEF Inv

\* So is a file.
LEMMA StrayFileAdded ==
    ASSUME Inv, NEW s \in Names, StrayFile(s), Len(files) < FilesMax, pc \in {"files4", "astray_files"}
    PROVE  Inv' /\ Kept
  <1>1. CASE Fail
    BY <1>1, StepFail
  <1>2. CASE ~Fail
    <2>0. PICK i \in 0 .. Len(dirs) : AddFile(FileName(s, i))
      BY <1>2 DEF StrayFile
    <2> DEFINE name == FileName(s, i)
               r == bw_add_str(name)
    <2>1. /\ files' = Append(files, r.off) /\ strs' = r.strs /\ p' = Past /\ pc' = "astray_files"
          /\ unit' = unit /\ fmt' = fmt /\ left' = left /\ dirs' = dirs
      BY <1>2, <2>0 DEF StrayFile, AddFile
    <2>2. i \in Nat
      BY <2>0
    <2>3. name \in Names
      BY <2>2, FileNameIs DEF Inv, TablesInv
    <2> HIDE DEF name
    <2>4. PoolInv' /\ Kept /\ r.off \in Offsets' /\ Len(strs) \in Nat /\ Len(strs') \in Nat
      BY <2>1, <2>3, NameAdded DEF Inv
    <2> HIDE DEF r
    <2>5. CursorInv'
      BY <2>1 DEF Inv, CursorInv, UnitInv, Lost, Past, c
    <2>6. files' \in Seq(Offsets') /\ Len(files') = Len(files) + 1 /\ dirs' \in Seq(Offsets') /\ Len(files) \in Nat
      BY <2>1, <2>4, OffsetsGrow DEF Inv, TablesInv
    <2>7. FilesMax \in Nat
      BY LimitsAssumption
    <2>8. TablesInv'
      BY <2>1, <2>6, <2>7 DEF Inv, TablesInv
    <2> QED BY <2>1, <2>4, <2>5, <2>8 DEF Inv
  <1> QED BY <1>1, <1>2

\* The cursor leaves the section with the name of a directory or of a file.
LEMMA StepOverrun4 ==
    ASSUME Inv, OverrunDir4 \/ OverrunFile4
    PROVE  Inv' /\ Kept
  <1>1. CASE OverrunDir4
    <2>1. PICK s \in Strays : AddDir(SubSeq(c, p, Len(c)) \o s)
      BY <1>1 DEF OverrunDir4
    <2>2. SubSeq(c, p, Len(c)) \o s \in Names
      BY <1>1, StrayName DEF OverrunDir4, Inv, CursorInv, Lost
    <2>3. Len(dirs) < DirsMax
      BY <1>1 DEF OverrunDir4, Entry4
    <2> QED BY <1>1, <2>1, <2>2, <2>3, StrayDirAdded DEF OverrunDir4
  <1>2. CASE OverrunFile4
    <2>1. PICK s \in Strays : StrayFile(SubSeq(c, p, Len(c)) \o s)
      BY <1>2 DEF OverrunFile4
    <2>2. SubSeq(c, p, Len(c)) \o s \in Names
      BY <1>2, StrayName DEF OverrunFile4, Inv, CursorInv, Lost
    <2>3. Len(files) < FilesMax /\ pc = "files4"
      BY <1>2 DEF OverrunFile4, Entry4
    <2> QED BY <2>1, <2>2, <2>3, StrayFileAdded
  <1> QED BY <1>1, <1>2

\* Whatever the cursor finds behind the section, the tables have room for it.
LEMMA StepAstray ==
    ASSUME Inv, AstrayDir \/ AstrayFile
    PROVE  Inv' /\ Kept
  <1>1. CASE AstrayDir
    <2>1. PICK s \in Strays : AddDir(s)
      BY <1>1 DEF AstrayDir
    <2>2. s \in Names
      BY StrayIs
    <2>3. p = Past /\ p' = Past
      BY <1>1 DEF AstrayDir, Inv, CursorInv, Lost
    <2> QED BY <1>1, <2>1, <2>2, <2>3, StrayDirAdded DEF AstrayDir
  <1>2. CASE AstrayFile
    <2>1. PICK s \in Strays : StrayFile(s)
      BY <1>2 DEF AstrayFile
    <2>2. s \in Names
      BY StrayIs
    <2> QED BY <1>2, <2>1, <2>2, StrayFileAdded DEF AstrayFile
  <1> QED BY <1>1, <1>2

\* The ends of the tables behind the section.
LEMMA StepAstrayEnd ==
    ASSUME Inv, AstrayDirsEnd \/ AstrayFilesEnd
    PROVE  Inv' /\ Kept
  <1>0. /\ p' = p /\ unit' = unit /\ fmt' = fmt /\ left' = left /\ dirs' = dirs /\ strs' = strs
        /\ files' \in {files, <<-1>>} /\ pc' \in {"astray_files", "done"}
        /\ pc \in {"astray_dirs", "astray_files"}
    BY DEF AstrayDirsEnd, AstrayFilesEnd
  <1>1. CursorInv'
    BY <1>0 DEF Inv, CursorInv, Lost, Past, c
  <1>2. PoolInv' /\ Kept /\ Offsets' = Offsets
    BY <1>0, Unmoved DEF Inv
  <1>3. <<-1>> \in Seq(Offsets) /\ Len(<<-1>>) = 1
    BY DEF Offsets
  <1>4. FilesMax \in Nat /\ 1 <= FilesMax
    BY LimitsAssumption
  <1>5. TablesInv'
    BY <1>0, <1>2, <1>3, <1>4 DEF Inv, TablesInv
  <1> QED BY <1>0, <1>1, <1>2, <1>5 DEF Inv

\* A fault ends the process as it is.
LEMMA StepFault ==
    ASSUME Inv, Fault
    PROVE  Inv' /\ Kept
  <1>0. /\ pc' = "crashed" /\ p' = p /\ unit' = unit /\ fmt' = fmt /\ left' = left /\ dirs' = dirs
        /\ files' = files /\ strs' = strs /\ pc \in {"dirs4", "files4", "astray_dirs", "astray_files"}
    BY DEF Fault
  <1>1. CursorInv'
    <2>1. CASE UnitInv
      BY <1>0, <2>1, BytesIn, SameUnit DEF CursorInv
    <2>2. CASE Lost
      BY <1>0, <2>2 DEF CursorInv, Lost, Past, c
    <2> QED BY <2>1, <2>2 DEF Inv, CursorInv
  <1>2. PoolInv' /\ Kept /\ Offsets' = Offsets
    BY <1>0, Unmoved DEF Inv
  <1>3. TablesInv'
    BY <1>0, <1>2 DEF Inv, TablesInv
  <1> QED BY <1>0, <1>1, <1>2, <1>3 DEF Inv

\* The file table starts with the entry that no file has.
LEMMA StepDirsEnd4 ==
    ASSUME Inv, DirsEnd4
    PROVE  Inv' /\ Kept
  <1>1. CASE Fail
    BY <1>1, StepFail DEF DirsEnd4
  <1>2. CASE ~Fail
    <2>0. /\ bw_skip(p, 1) # 0 /\ p' = bw_skip(p, 1) /\ files' = <<-1>> /\ pc' = "files4" /\ pc = "dirs4"
          /\ unit' = unit /\ fmt' = fmt /\ left' = left /\ dirs' = dirs /\ strs' = strs
      BY <1>2 DEF DirsEnd4
    <2>1. UnitInv'
      <3>1. bw_skip(p, 1) \in Positions
        BY <2>0, BytesIn, SkipIs DEF Inv, CursorInv, Lost
      <3> QED BY <2>0, <3>1, SameUnit DEF Inv, CursorInv, Lost
    <2>2. PoolInv' /\ Kept /\ Offsets' = Offsets
      BY <2>0, Unmoved DEF Inv, CursorInv, Lost
    <2>3. <<-1>> \in Seq(Offsets) /\ Len(<<-1>>) = 1
      BY DEF Offsets
    <2>4. FilesMax \in Nat /\ 1 <= FilesMax
      BY LimitsAssumption
    <2>5. TablesInv'
      BY <2>0, <2>2, <2>3, <2>4 DEF Inv, CursorInv, Lost, TablesInv
    <2> QED BY <2>0, <2>1, <2>2, <2>5 DEF Inv, CursorInv, Lost
  <1> QED BY <1>1, <1>2

\* The end of the file table.
LEMMA StepFilesEnd4 ==
    ASSUME Inv, FilesEnd4
    PROVE  Inv' /\ Kept
  <1>1. CASE Fail
    BY <1>1, StepFail DEF FilesEnd4
  <1>2. CASE ~Fail
    <2>0. /\ bw_skip(p, 1) # 0 /\ p' = bw_skip(p, 1) /\ pc' = "done" /\ pc = "files4"
          /\ unit' = unit /\ fmt' = fmt /\ left' = left /\ dirs' = dirs /\ strs' = strs /\ files' = files
      BY <1>2 DEF FilesEnd4
    <2>1. UnitInv'
      <3>1. bw_skip(p, 1) \in Positions
        BY <2>0, BytesIn, SkipIs DEF Inv, CursorInv, Lost
      <3> QED BY <2>0, <3>1, SameUnit DEF Inv, CursorInv, Lost
    <2>2. PoolInv' /\ Kept /\ Offsets' = Offsets
      BY <2>0, Unmoved DEF Inv, CursorInv, Lost
    <2>5. TablesInv'
      BY <2>0, <2>2 DEF Inv, CursorInv, Lost, TablesInv
    <2> QED BY <2>0, <2>1, <2>2, <2>5 DEF Inv, CursorInv, Lost
  <1> QED BY <1>1, <1>2

\* A file is read only while the table has room.
LEMMA StepFile4 ==
    ASSUME Inv, File4
    PROVE  Inv' /\ Kept
  <1>1. CASE Fail
    BY <1>1, StepFail DEF File4
  <1>2. CASE ~Fail
    <2> DEFINE behind == p + Len(Text(c, p)) + 1
               idx == bw_uleb(c, behind)
               after == bw_uleb(c, bw_uleb(c, idx.p).p).p
               name == FileName(Text(c, p), idx.v)
               r == bw_add_str(name)
    <2>0. /\ after # 0 /\ files' = Append(files, r.off) /\ strs' = r.strs /\ p' = after
          /\ pc' = pc /\ pc = "files4" /\ unit' = unit /\ fmt' = fmt /\ left' = left /\ dirs' = dirs
          /\ Entry4(Len(files), FilesMax) /\ Nuls(c, p) # {}
      BY <1>2 DEF File4, AddFile
    <2>1. Text(c, p) \in Names /\ behind \in Positions
      BY <2>0, NameAt DEF Inv, CursorInv, Lost
    <2> HIDE DEF behind
    <2>2. idx.p \in Positions /\ idx.v \in Nat
      BY <2>0, <2>1, LebIs DEF Inv, CursorInv, Lost
    <2> HIDE DEF idx
    <2>3. after \in Positions
      BY <2>0, <2>2, LebIs DEF Inv, CursorInv, Lost
    <2> HIDE DEF after
    <2>4. name \in Names
      BY <2>1, <2>2, FileNameIs DEF Inv, CursorInv, Lost, TablesInv
    <2> HIDE DEF name
    <2>5. PoolInv' /\ Kept /\ r.off \in Offsets' /\ Len(strs) \in Nat /\ Len(strs') \in Nat
      BY <2>0, <2>4, NameAdded DEF Inv, CursorInv, Lost
    <2> HIDE DEF r
    <2>6. UnitInv'
      BY <2>0, <2>3, SameUnit DEF Inv, CursorInv, Lost
    <2>7. files' \in Seq(Offsets') /\ Len(files') = Len(files) + 1 /\ dirs' \in Seq(Offsets') /\ Len(files) \in Nat
      BY <2>0, <2>5, OffsetsGrow DEF Inv, CursorInv, Lost, TablesInv
    <2>8. Len(files) < FilesMax /\ FilesMax \in Nat
      BY <2>0, LimitsAssumption DEF Entry4
    <2>9. TablesInv'
      BY <2>0, <2>7, <2>8 DEF Inv, CursorInv, Lost, TablesInv
    <2> QED BY <2>0, <2>5, <2>6, <2>9 DEF Inv, CursorInv, Lost
  <1> QED BY <1>1, <1>2

\* There are no more directories to read than the table has room for.
LEMMA StepBeginDirs5 ==
    ASSUME Inv, BeginDirs5
    PROVE  Inv' /\ Kept
  <1> DEFINE f == Formats(p, DirsMax)
  <1>1. CASE Fail
    BY <1>1, StepFail DEF BeginDirs5, Begin5
  <1>2. CASE ~Fail
    <2>0. /\ f.p # 0 /\ p' = f.p /\ fmt' = f.fmt /\ left' = f.count /\ pc' = "dirs5"
          /\ unit' = unit /\ dirs' = dirs /\ files' = files /\ strs' = strs /\ pc = "tables"
      BY <1>2 DEF BeginDirs5, Begin5
    <2>1. /\ f.p \in Positions /\ Len(f.fmt) \in Nat /\ f.count \in Nat
          /\ f.p # 0 => f.count <= DirsMax
      BY <2>0, FormatsIs, LimitsAssumption DEF Inv, CursorInv, Lost
    <2> HIDE DEF f
    <2>2. UnitInv'
      BY <2>0, <2>1, SameUnit DEF Inv, CursorInv, Lost
    <2>3. PoolInv' /\ Kept /\ Offsets' = Offsets
      BY <2>0, Unmoved DEF Inv, CursorInv, Lost
    <2>4. Len(dirs) = 0 /\ DirsMax \in Nat /\ files = <<>>
      BY <2>0, LimitsAssumption DEF Inv, CursorInv, Lost, TablesInv
    <2>5. TablesInv'
      BY <2>0, <2>1, <2>3, <2>4 DEF Inv, CursorInv, Lost, TablesInv
    <2> QED BY <2>0, <2>2, <2>3, <2>5 DEF Inv, CursorInv, Lost
  <1> QED BY <1>1, <1>2

\* There are no more files to read than the table has room for.
LEMMA StepBeginFiles5 ==
    ASSUME Inv, BeginFiles5
    PROVE  Inv' /\ Kept
  <1> DEFINE f == Formats(p, FilesMax)
  <1>1. CASE Fail
    BY <1>1, StepFail DEF BeginFiles5, Begin5
  <1>2. CASE ~Fail
    <2>0. /\ f.p # 0 /\ p' = f.p /\ fmt' = f.fmt /\ left' = f.count /\ pc' = "files5"
          /\ unit' = unit /\ dirs' = dirs /\ files' = files /\ strs' = strs /\ pc = "dirs5"
      BY <1>2 DEF BeginFiles5, Begin5
    <2>1. /\ f.p \in Positions /\ Len(f.fmt) \in Nat /\ f.count \in Nat
          /\ f.p # 0 => f.count <= FilesMax
      BY <2>0, FormatsIs, LimitsAssumption DEF Inv, CursorInv, Lost
    <2> HIDE DEF f
    <2>2. UnitInv'
      BY <2>0, <2>1, SameUnit DEF Inv, CursorInv, Lost
    <2>3. PoolInv' /\ Kept /\ Offsets' = Offsets
      BY <2>0, Unmoved DEF Inv, CursorInv, Lost
    <2>4. Len(files) = 0 /\ FilesMax \in Nat /\ files = <<>>
      BY <2>0, LimitsAssumption DEF Inv, CursorInv, Lost, TablesInv
    <2>5. TablesInv'
      BY <2>0, <2>1, <2>3, <2>4 DEF Inv, CursorInv, Lost, TablesInv
    <2> QED BY <2>0, <2>2, <2>3, <2>5 DEF Inv, CursorInv, Lost
  <1> QED BY <1>1, <1>2

\* A directory read is one less to read.
LEMMA StepDir5 ==
    ASSUME Inv, Dir5
    PROVE  Inv' /\ Kept
  <1> DEFINE e == Entry(FALSE)
             r == bw_add_str(e.path)
  <1>1. CASE Fail
    BY <1>1, StepFail DEF Dir5
  <1>2. CASE ~Fail
    <2>0. /\ e.p # 0 /\ dirs' = Append(dirs, r.off) /\ strs' = r.strs /\ p' = e.p /\ left' = left - 1
          /\ pc' = pc /\ pc = "dirs5" /\ left > 0 /\ unit' = unit /\ fmt' = fmt /\ files' = files
      BY <1>2 DEF Dir5, AddDir
    <2>1. e.p \in Positions /\ e.path \in Names
      <3>1. e \in Fields
        BY <2>0, EntryIs DEF Inv, CursorInv, Lost, TablesInv
      <3> QED BY <3>1 DEF Fields
    <2> HIDE DEF e
    <2>2. PoolInv' /\ Kept /\ r.off \in Offsets' /\ Len(strs) \in Nat /\ Len(strs') \in Nat
      BY <2>0, <2>1, NameAdded DEF Inv, CursorInv, Lost
    <2> HIDE DEF r
    <2>3. UnitInv'
      BY <2>0, <2>1, SameUnit DEF Inv, CursorInv, Lost
    <2>4. dirs' \in Seq(Offsets') /\ Len(dirs') = Len(dirs) + 1 /\ files' \in Seq(Offsets') /\ Len(dirs) \in Nat
      BY <2>0, <2>2, OffsetsGrow DEF Inv, CursorInv, Lost, TablesInv
    <2>5. DirsMax \in Nat
      BY LimitsAssumption
    <2>6. TablesInv'
      BY <2>0, <2>4, <2>5 DEF Inv, CursorInv, Lost, TablesInv
    <2> QED BY <2>0, <2>2, <2>3, <2>6 DEF Inv, CursorInv, Lost
  <1> QED BY <1>1, <1>2

\* A file read is one less to read.
LEMMA StepFile5 ==
    ASSUME Inv, File5
    PROVE  Inv' /\ Kept
  <1> DEFINE e == Entry(TRUE)
             name == IF e.have_dir THEN FileName(e.path, e.dir_idx) ELSE e.path
             r == bw_add_str(name)
  <1>1. CASE Fail
    BY <1>1, StepFail DEF File5
  <1>2. CASE ~Fail
    <2>0. /\ e.p # 0 /\ files' = Append(files, r.off) /\ strs' = r.strs /\ p' = e.p /\ left' = left - 1
          /\ pc' = pc /\ pc = "files5" /\ left > 0 /\ unit' = unit /\ fmt' = fmt /\ dirs' = dirs
      BY <1>2 DEF File5, AddFile
    <2>1. e.p \in Positions /\ e.path \in Names /\ e.dir_idx \in Nat
      <3>1. e \in Fields
        BY <2>0, EntryIs DEF Inv, CursorInv, Lost, TablesInv
      <3> QED BY <3>1 DEF Fields
    <2> HIDE DEF e
    <2>2. name \in Names
      BY <2>1, FileNameIs DEF Inv, CursorInv, Lost, TablesInv
    <2> HIDE DEF name
    <2>3. PoolInv' /\ Kept /\ r.off \in Offsets' /\ Len(strs) \in Nat /\ Len(strs') \in Nat
      BY <2>0, <2>2, NameAdded DEF Inv, CursorInv, Lost
    <2> HIDE DEF r
    <2>4. UnitInv'
      BY <2>0, <2>1, SameUnit DEF Inv, CursorInv, Lost
    <2>5. files' \in Seq(Offsets') /\ Len(files') = Len(files) + 1 /\ dirs' \in Seq(Offsets') /\ Len(files) \in Nat
      BY <2>0, <2>3, OffsetsGrow DEF Inv, CursorInv, Lost, TablesInv
    <2>6. FilesMax \in Nat
      BY LimitsAssumption
    <2>7. TablesInv'
      BY <2>0, <2>5, <2>6 DEF Inv, CursorInv, Lost, TablesInv
    <2> QED BY <2>0, <2>3, <2>4, <2>7 DEF Inv, CursorInv, Lost
  <1> QED BY <1>1, <1>2

\* The end of the file table of version 5.
LEMMA StepFilesEnd5 ==
    ASSUME Inv, FilesEnd5
    PROVE  Inv' /\ Kept
  <1>1. UnitInv'
    BY BytesIn, SameUnit DEF Inv, CursorInv, Lost, FilesEnd5
  <1>2. PoolInv' /\ Kept /\ Offsets' = Offsets
    BY Unmoved DEF Inv, CursorInv, Lost, FilesEnd5
  <1>3. TablesInv'
    BY <1>2 DEF Inv, CursorInv, Lost, TablesInv, FilesEnd5
  <1> QED BY <1>1, <1>2, <1>3 DEF Inv, CursorInv, Lost, FilesEnd5

\* A unit is entered with the cursor at its first byte.
LEMMA StepParse ==
    ASSUME Inv, pc = "idle", NEW u \in Units, bw_parse_unit(u)
    PROVE  Inv' /\ Kept
  <1>1. UnitInv'
    <2>1. p = 1 /\ p' = p /\ unit' = u
      BY DEF Inv, CursorInv, Lost, UnitInv, bw_parse_unit
    <2>2. c' = u.c /\ Len(u.c) \in Nat
      BY <2>1, UnitsAssumption, LenProperties DEF c
    <2> QED BY <2>1, <2>2 DEF UnitInv, bw_parse_unit
  <1>2. PoolInv' /\ Kept /\ Offsets' = Offsets
    BY Unmoved DEF Inv, CursorInv, Lost, bw_parse_unit
  <1>3. TablesInv'
    BY <1>2 DEF Inv, CursorInv, Lost, TablesInv, bw_parse_unit
  <1> QED BY <1>1, <1>2, <1>3 DEF Inv, CursorInv, Lost, bw_parse_unit

\* The invariant holds before a unit is parsed.
LEMMA InitInv == Init => Inv
  <1> SUFFICES ASSUME Init PROVE Inv
    OBVIOUS
  <1>1. UnitInv
    BY DEF Init, UnitInv, c
  <1>2. PoolInv
    BY StringsAssumption DEF Init, PoolInv, Bytes
  <1>3. TablesInv
    <2>1. <<>> \in Seq(Offsets) /\ Len(<<>>) = 0
      BY EmptySeq
    <2>2. DirsMax \in Nat /\ FilesMax \in Nat
      BY LimitsAssumption
    <2> QED BY <2>1, <2>2 DEF Init, TablesInv
  <1> QED BY <1>1, <1>2, <1>3 DEF Init, Inv, CursorInv

\* Every step keeps the invariant and what the pool holds.
LEMMA NextInv == Inv /\ [Next]_vars => Inv' /\ Kept
  <1> SUFFICES ASSUME Inv, [Next]_vars PROVE Inv' /\ Kept
    OBVIOUS
  <1>1. CASE UNCHANGED vars
    <2>1. UNCHANGED <<pc, unit, p, fmt, left, dirs, files, strs>>
      BY <1>1 DEF vars
    <2>2. PoolInv' /\ Kept /\ Offsets' = Offsets
      BY <2>1, Unmoved DEF Inv, CursorInv, Lost
    <2>3. CursorInv' /\ TablesInv'
      BY <2>1, <2>2 DEF Inv, CursorInv, Lost, Past, UnitInv, c, TablesInv
    <2> QED BY <2>1, <2>2, <2>3 DEF Inv, CursorInv, Lost
  <1>2. ASSUME pc = "idle", NEW u \in Units, bw_parse_unit(u) PROVE Inv' /\ Kept
    BY <1>2, StepParse
  <1>3. CASE Begin4
    BY <1>3, StepBegin4
  <1>4. CASE Dir4
    BY <1>4, StepDir4
  <1>5. CASE DirsEnd4
    BY <1>5, StepDirsEnd4
  <1>6. CASE File4
    BY <1>6, StepFile4
  <1>7. CASE FilesEnd4
    BY <1>7, StepFilesEnd4
  <1>8. CASE OverrunDir4 \/ OverrunFile4
    BY <1>8, StepOverrun4
  <1>9. CASE BeginDirs5
    BY <1>9, StepBeginDirs5
  <1>10. CASE Dir5
    BY <1>10, StepDir5
  <1>11. CASE BeginFiles5
    BY <1>11, StepBeginFiles5
  <1>12. CASE File5
    BY <1>12, StepFile5
  <1>13. CASE FilesEnd5
    BY <1>13, StepFilesEnd5
  <1>14. CASE AstrayDir \/ AstrayFile
    BY <1>14, StepAstray
  <1>15. CASE AstrayDirsEnd \/ AstrayFilesEnd
    BY <1>15, StepAstrayEnd
  <1>16. CASE Fault
    BY <1>16, StepFault
  <1> QED BY <1>1, <1>2, <1>3, <1>4, <1>5, <1>6, <1>7, <1>8, <1>9, <1>10, <1>11, <1>12, <1>13, <1>14, <1>15, <1>16
      DEF Next

\* bw_parse_unit keeps the invariant, whatever bytes the tables consist of.
THEOREM Invariance == Spec => []Inv
  BY InitInv, NextInv, PTL DEF Spec

\* bw_cur_ok, bw_add_str and the limits of the tables, for any bytes: in
\* version 5 the cursor never leaves the section; before that it does so only
\* with a name that the section does not end, and even then neither a table
\* nor the pool outgrows its array, and every offset in a table is one of a
\* byte of the pool.
THEOREM TypeCorrect == Spec => []TypeOK
  <1>1. Inv => TypeOK
    <2> SUFFICES ASSUME Inv PROVE TypeOK
      OBVIOUS
    <2>1. \A t \in Seq(Offsets) : ToSet(t) \subseteq Offsets
      BY LenProperties, ElementOfSeq DEF ToSet
    <2>2. \A o \in Offsets : o = -1 \/ o \in 0 .. (Len(strs) - 1)
      BY DEF Offsets
    <2>3. \A o \in ToSet(dirs) \cup ToSet(files) : o = -1 \/ o \in 0 .. (Len(strs) - 1)
      BY <2>1, <2>2 DEF Inv, CursorInv, Lost, TablesInv
    <2> QED BY <2>3 DEF Inv, CursorInv, Lost, UnitInv, PoolInv, TablesInv, TypeOK
  <1> QED BY <1>1, Invariance, PTL

\* Every offset into the pool stays one, and stands for the same name.
NamesKept == \A o \in Offsets : o >= 0 => o \in Offsets' /\ Text(strs', o + 1) = Text(strs, o + 1)

\* bw_add_str: no step, whatever it adds, changes a name that some directory,
\* file or earlier unit refers to.
THEOREM NamesStay == Spec => [][NamesKept]_vars
  <1>1. ASSUME Inv, Inv', Kept PROVE NamesKept
    <2> SUFFICES ASSUME NEW o \in Offsets, o >= 0
                 PROVE  o \in Offsets' /\ Text(strs', o + 1) = Text(strs, o + 1)
      BY DEF NamesKept
    <2> DEFINE q == o + 1
               e == Min(Nuls(strs, q))
    <2>0. Len(strs) \in Nat /\ Len(strs') \in Nat /\ strs \in Seq(Byte) /\ strs' \in Seq(Byte)
      BY <1>1, LenProperties DEF Inv, CursorInv, Lost, PoolInv, Bytes, Byte
    <2>1. q \in 1 .. Len(strs) /\ o \in Offsets'
      BY <1>1, <2>0 DEF Offsets, Kept
    <2> HIDE DEF q
    <2>2. Nuls(strs, q) # {}
      BY <1>1, <2>1, StringEnds DEF Inv, CursorInv, Lost, PoolInv
    <2>3. Nuls(strs, q) \in SUBSET Nat /\ Nuls(strs', q) \in SUBSET Nat
      BY <2>0, <2>1 DEF Nuls
    <2>4. e \in Nuls(strs, q) /\ \A y \in Nuls(strs, q) : e <= y
      BY <2>2, <2>3, MinIs
    <2>5. e \in q .. Len(strs) /\ strs[e] = 0
      BY <2>4 DEF Nuls
    <2> HIDE DEF e
    <2>6. e \in Nuls(strs', q) /\ \A y \in Nuls(strs', q) : e <= y
      <3>1. e \in 1 .. Len(strs) /\ e \in q .. Len(strs')
        BY <1>1, <2>0, <2>1, <2>5 DEF Kept
      <3>2. strs'[e] = 0
        BY <1>1, <2>5, <3>1 DEF Kept
      <3>3. e \in Nuls(strs', q)
        BY <3>1, <3>2 DEF Nuls
      <3>4. ASSUME NEW y \in Nuls(strs', q) PROVE e <= y
        <4>1. y \in q .. Len(strs') /\ strs'[y] = 0
          BY DEF Nuls
        <4>2. CASE y <= Len(strs)
          <5>1. y \in 1 .. Len(strs) /\ y \in q .. Len(strs)
            BY <2>0, <2>1, <4>1, <4>2
          <5>2. strs[y] = 0
            BY <1>1, <4>1, <5>1 DEF Kept
          <5>3. y \in Nuls(strs, q)
            BY <5>1, <5>2 DEF Nuls
          <5> QED BY <2>4, <5>3
        <4>3. CASE ~(y <= Len(strs))
          BY <2>0, <2>1, <2>5, <4>1, <4>3
        <4> QED BY <4>2, <4>3
      <3> QED BY <3>3, <3>4
    <2>7. Min(Nuls(strs', q)) = e
      BY <2>3, <2>6, MinIs
    <2>8. Text(strs, q) = SubSeq(strs, q, e - 1) /\ Text(strs', q) = SubSeq(strs', q, e - 1)
      BY <2>7 DEF Text, e
    <2>9. SubSeq(strs, q, e - 1) = SubSeq(strs', q, e - 1)
      <3>1. \A m \in q .. (e - 1) : m \in 1 .. Len(strs)
        BY <2>0, <2>1, <2>5
      <3>2. \A m \in q .. (e - 1) : strs'[m] = strs[m]
        BY <1>1, <3>1 DEF Kept
      <3> QED BY <2>0, <2>1, <2>5, <3>2
    <2> QED BY <2>1, <2>8, <2>9 DEF q
  <1>2. Inv /\ Inv' /\ [Next]_vars => [NamesKept]_vars
    BY <1>1, NextInv
  <1> QED BY <1>2, Invariance, PTL DEF Spec

\* The path that the entry at the cursor gives, however long.
NameRead ==
    IF pc = "files4" THEN WholeName(Text(c, p), bw_uleb(c, p + Len(Text(c, p)) + 1).v)
    ELSE LET e == Entry(TRUE) IN IF e.have_dir THEN WholeName(e.path, e.dir_idx) ELSE e.path

\* A step that records a file adds one entry.  It has no name only if the
\* pool was full, and otherwise the path that its name and its directory
\* make, or a beginning of it; all of it if the buffer and the pool have room.
FileRecorded ==
    (File4 \/ File5) /\ pc' # "failed" =>
        LET o == files'[Len(files) + 1]
        IN  /\ Len(files') = Len(files) + 1
            /\ o = -1 => Len(strs) = StrMax
            /\ o # -1 => /\ IsPrefix(Text(strs', o + 1), NameRead)
                         /\ Len(NameRead) < JoinMax /\ Len(strs) + Len(NameRead) < StrMax
                                => Text(strs', o + 1) = NameRead

\* An entry recorded.
LEMMA RecordedIs ==
    ASSUME Inv, NEW s \in Names, NEW w \in Names, Begins(s, w), Len(w) < JoinMax => s = w,
           strs' = bw_add_str(s).strs, files' = Append(files, bw_add_str(s).off), w = NameRead
    PROVE  FileRecorded
  <1> DEFINE r == bw_add_str(s)
             o == files'[Len(files) + 1]
             t == Cut(s, StrRoom)
  <1>0. files \in Seq(Offsets) /\ Len(files) \in Nat /\ Len(strs) \in Nat /\ Len(strs) <= StrMax
        /\ StrMax \in Nat /\ s \in Bytes /\ w \in Bytes /\ Len(s) \in Nat /\ Len(w) \in Nat
    BY LenProperties, LimitsAssumption DEF Inv, CursorInv, Lost, TablesInv, PoolInv, Names, Bytes
  <1>1. Len(files') = Len(files) + 1 /\ o = r.off
    BY <1>0, AppendProperties
  <1>2. /\ r.off = -1 => Len(strs) = StrMax
        /\ r.off # -1 => StrRoom \in Nat /\ Text(r.strs, r.off + 1) = Cut(s, StrRoom)
    BY StoredIs DEF Inv, CursorInv, Lost
  <1>3. ASSUME r.off # -1
        PROVE  /\ IsPrefix(Text(strs', o + 1), w)
               /\ Len(w) < JoinMax /\ Len(strs) + Len(w) < StrMax => Text(strs', o + 1) = w
    <2>1. Text(strs', o + 1) = t /\ StrRoom \in Nat
      BY <1>1, <1>2, <1>3
    <2>2. t \in Bytes /\ Begins(t, s) /\ (Len(s) <= StrRoom => t = s) /\ Len(t) \in Nat
      <3>1. t \in Bytes /\ Begins(t, s) /\ (Len(s) <= StrRoom => t = s)
        BY <1>0, <2>1, CutIs
      <3> QED BY <3>1, LenProperties DEF Bytes
    <2> HIDE DEF t, o, r
    <2>3. Begins(t, w)
      <3>1. Len(t) <= Len(s) /\ Len(s) <= Len(w)
        BY <2>2 DEF Begins
      <3>2. \A m \in 1 .. Len(t) : m \in 1 .. Len(s)
        BY <1>0, <2>2, <3>1
      <3> QED BY <1>0, <2>2, <3>1, <3>2 DEF Begins
    <2>4. IsPrefix(t, w)
      BY <1>0, <2>2, <2>3, BeginsPrefix
    <2>5. ASSUME Len(w) < JoinMax, Len(strs) + Len(w) < StrMax PROVE t = w
      <3>1. s = w
        BY <2>5
      <3>2. Len(s) <= StrRoom
        BY <1>0, <2>5, <3>1 DEF StrRoom
      <3> QED BY <2>2, <3>1, <3>2
    <2> QED BY <2>1, <2>4, <2>5
  <1> HIDE DEF o, r, t
  <1>4. FileRecorded <=> ((File4 \/ File5) /\ pc' # "failed" =>
            /\ Len(files') = Len(files) + 1
            /\ o = -1 => Len(strs) = StrMax
            /\ o # -1 => /\ IsPrefix(Text(strs', o + 1), NameRead)
                         /\ Len(NameRead) < JoinMax /\ Len(strs) + Len(NameRead) < StrMax
                                => Text(strs', o + 1) = NameRead)
    BY DEF FileRecorded, o
  <1> QED BY <1>1, <1>2, <1>3, <1>4

\* bw_parse_unit, bw_join_path, bw_add_str: every file that is recorded, in
\* any version, form and state of the pool, is recorded under its own path.
THEOREM NamesRecorded == Spec => [][FileRecorded]_vars
  <1>1. ASSUME Inv, File4, pc' # "failed" PROVE FileRecorded
    <2> DEFINE behind == p + Len(Text(c, p)) + 1
               idx == bw_uleb(c, behind)
               name == FileName(Text(c, p), idx.v)
               w == WholeName(Text(c, p), idx.v)
    <2>0. /\ files' = Append(files, bw_add_str(name).off) /\ strs' = bw_add_str(name).strs
          /\ Entry4(Len(files), FilesMax) /\ Nuls(c, p) # {} /\ pc = "files4"
      BY <1>1 DEF File4, AddFile, Fail
    <2>1. Text(c, p) \in Names /\ behind \in Positions
      BY <1>1, <2>0, NameAt DEF Inv, CursorInv, Lost
    <2>2. NameRead = w
      BY <2>0 DEF NameRead
    <2> HIDE DEF behind
    <2>3. idx.v \in Nat
      BY <1>1, <2>0, <2>1, LebIs DEF Inv, CursorInv, Lost
    <2> HIDE DEF idx
    <2>4. name \in Names /\ w \in Names /\ Begins(name, w) /\ (Len(w) < JoinMax => name = w)
      BY <1>1, <2>1, <2>3, FileNameIs DEF Inv, CursorInv, Lost, TablesInv
    <2> HIDE DEF name, w
    <2> QED BY <1>1, <2>0, <2>2, <2>4, RecordedIs
  <1>2. ASSUME Inv, File5, pc' # "failed" PROVE FileRecorded
    <2> DEFINE e == Entry(TRUE)
               name == IF e.have_dir THEN FileName(e.path, e.dir_idx) ELSE e.path
               w == IF e.have_dir THEN WholeName(e.path, e.dir_idx) ELSE e.path
    <2>0. files' = Append(files, bw_add_str(name).off) /\ strs' = bw_add_str(name).strs /\ pc = "files5"
      BY <1>2 DEF File5, AddFile, Fail
    <2>1. e.path \in Names /\ e.dir_idx \in Nat
      <3>1. e \in Fields
        BY <1>2, <2>0, EntryIs DEF Inv, CursorInv, Lost, TablesInv
      <3> QED BY <3>1 DEF Fields
    <2>2. NameRead = w
      BY <2>0 DEF NameRead
    <2> HIDE DEF e
    <2>3. name \in Names /\ w \in Names /\ Begins(name, w) /\ (Len(w) < JoinMax => name = w)
      <3>1. Begins(e.path, e.path)
        <4>1. Len(e.path) \in Nat
          BY <2>1, LenProperties DEF Names, Bytes
        <4> QED BY <4>1 DEF Begins
      <3>2. /\ FileName(e.path, e.dir_idx) \in Names /\ WholeName(e.path, e.dir_idx) \in Names
            /\ Begins(FileName(e.path, e.dir_idx), WholeName(e.path, e.dir_idx))
            /\ Len(WholeName(e.path, e.dir_idx)) < JoinMax
                  => FileName(e.path, e.dir_idx) = WholeName(e.path, e.dir_idx)
        BY <1>2, <2>1, FileNameIs DEF Inv, CursorInv, Lost, TablesInv
      <3> QED BY <2>1, <3>1, <3>2
    <2> HIDE DEF name, w
    <2> QED BY <1>2, <2>0, <2>2, <2>3, RecordedIs
  <1>3. Inv /\ [Next]_vars => [FileRecorded]_vars
    BY <1>1, <1>2 DEF FileRecorded
  <1> QED BY <1>3, Invariance, PTL DEF Spec
=============================================================================
