--------------------------- MODULE DwarfLineProofs ---------------------------
(***************************************************************************)
(* Proofs about DwarfLine and the line number matrix of DwarfReference,    *)
(* for every section, every width and every size of the table.             *)
(***************************************************************************)
EXTENDS DwarfReference, SortedTableProofs, FunctionTheorems, FiniteSetTheorems

RegsT == [address : 0 .. (AddrRange - 1), op_index : Nat, file_idx : Nat, line : 0 .. (LineRange - 1)]

\* The file names of the sections.
Names == UNION {UNION {{s[x].files[f] : f \in DOMAIN s[x].files} : x \in 1 .. Len(s)} : s \in Sections}

RowT == [addr : 0 .. (AddrRange - 1), file : Names, line : 1 .. LineMax]

\* A program that runs is that of a unit of a section, and its next
\* instruction lies in it.
ProgInv ==
    /\ pc # "empty" => sec \in Sections
    /\ pc = "prog" => u \in 1 .. Len(sec) /\ sec[u].kind = "line"
    /\ u >= 1 /\ k >= 1

\* A table that is ready has been sorted.
RowsInv ==
    /\ rows \in Seq(RowT)
    /\ (pc = "done" /\ ready) => Sorted(rows)

Inv == TypeOK /\ ProgInv /\ RowsInv

-----------------------------------------------------------------------------
\* A remainder lies below the divisor.
LEMMA ModRange ==
    ASSUME NEW a \in Int, NEW n \in Nat \ {0}
    PROVE  a % n \in 0 .. (n - 1)
  BY Z3

\* Quotient and remainder of natural numbers are natural numbers.
LEMMA DivNat ==
    ASSUME NEW a \in Nat, NEW n \in Nat \ {0}
    PROVE  a \div n \in Nat /\ a % n \in Nat
  BY Z3

\* The register updates that the instructions share.
LEMMA ResetType == ResetRegs \in RegsT
  BY TableAssumption DEF ResetRegs, RegsT

\* DW_LNE_set_address keeps the registers in their ranges ...
LEMMA SetAddressType ==
    ASSUME NEW r \in RegsT, NEW a \in 0 .. (AddrRange - 1)
    PROVE  [r EXCEPT !.address = a, !.op_index = 0] \in RegsT
  BY DEF RegsT

\* ... and so does an advance of the address, whatever the operation index
\* carries ...
LEMMA AdvanceType ==
    ASSUME NEW r \in RegsT, NEW unit, UnitOk(unit), NEW adv \in Nat
    PROVE  Advance(r, unit, adv) \in RegsT
  <1>1. /\ r.address \in Nat /\ r.op_index \in Nat /\ r.op_index + adv \in Nat
        /\ unit.min_inst \in Nat /\ unit.max_ops \in Nat \ {0} /\ AddrRange \in Nat \ {0}
    BY TableAssumption DEF RegsT, UnitOk
  <1>2. (r.op_index + adv) \div unit.max_ops \in Nat /\ (r.op_index + adv) % unit.max_ops \in Nat
    BY <1>1, DivNat
  <1> DEFINE q == (r.op_index + adv) \div unit.max_ops
             m == (r.op_index + adv) % unit.max_ops
             a == (r.address + unit.min_inst * q) % AddrRange
  <1>3. unit.min_inst * q \in Int
    <2> HIDE DEF q
    <2> QED BY <1>1, <1>2 DEF q
  <1>4. a \in 0 .. (AddrRange - 1)
    <2>1. r.address + unit.min_inst * q \in Int
      BY <1>1, <1>3
    <2> QED BY <1>1, <2>1, ModRange
  <1>5. Advance(r, unit, adv) = [r EXCEPT !.address = a, !.op_index = m]
    BY DEF Advance
  <1> HIDE DEF a, m
  <1> QED BY <1>2, <1>4, <1>5 DEF RegsT, m

\* ... and an advance of the line, which wraps.
LEMMA AddLineType ==
    ASSUME NEW r \in RegsT, NEW d \in Int
    PROVE  AddLine(r, d) \in RegsT
  <1>1. r.line + d \in Int
    BY TableAssumption DEF RegsT
  <1>2. (r.line + d) % LineRange \in 0 .. (LineRange - 1)
    BY <1>1, ModRange, TableAssumption
  <1> QED BY <1>2 DEF AddLine, RegsT

\* An instruction leaves the registers within their widths.
LEMMA ExecType ==
    ASSUME NEW r \in RegsT, NEW unit, UnitOk(unit),
           NEW i, i.arg \in Int, i.op # "advance_line" => i.arg \in Nat
    PROVE  Exec(r, unit, i) \in RegsT
  <1> DEFINE x == Exec(r, unit, i)
  <1>0. AddrRange \in Nat \ {0}
    BY TableAssumption
  <1>1. CASE i.op = "end_sequence"
    BY <1>1, ResetType DEF Exec
  <1>2. CASE i.op = "set_address"
    <2>1. i.arg % AddrRange \in 0 .. (AddrRange - 1)
      BY <1>0, ModRange
    <2>2. x = [r EXCEPT !.address = i.arg % AddrRange, !.op_index = 0]
      BY <1>2 DEF Exec
    <2> QED BY <2>1, <2>2, SetAddressType
  <1>3. CASE i.op = "special"
    <2> DEFINE y == AddLine(r, unit.line_base + (i.arg % unit.line_range))
    <2>1. /\ i.arg % unit.line_range \in Nat /\ i.arg \div unit.line_range \in Nat
          /\ unit.line_base \in Int
      BY <1>0, <1>3, DivNat DEF UnitOk
    <2>2. y \in RegsT
      BY <2>1, AddLineType
    <2>3. x = Advance(y, unit, i.arg \div unit.line_range)
      BY <1>3 DEF Exec
    <2> HIDE DEF y
    <2> QED BY <2>1, <2>2, <2>3, AdvanceType
  <1>4. CASE i.op = "advance_pc"
    <2>1. x = Advance(r, unit, i.arg) /\ i.arg \in Nat
      BY <1>0, <1>4 DEF Exec
    <2> QED BY <2>1, AdvanceType
  <1>5. CASE i.op = "advance_line"
    <2>1. x = AddLine(r, i.arg)
      BY <1>5 DEF Exec
    <2> QED BY <1>0, <2>1, AddLineType
  <1>6. CASE i.op = "set_file"
    <2>1. x = [r EXCEPT !.file_idx = i.arg] /\ i.arg \in Nat
      BY <1>0, <1>6 DEF Exec
    <2> QED BY <2>1 DEF RegsT
  <1>7. CASE i.op = "const_add_pc"
    <2>1. x = Advance(r, unit, (255 - unit.opcode_base) \div unit.line_range)
      BY <1>7 DEF Exec
    <2>2. unit.opcode_base \in 1 .. 255 /\ unit.line_range \in Nat \ {0}
      BY DEF UnitOk
    <2>3. (255 - unit.opcode_base) \div unit.line_range \in Nat
      <3>1. 255 - unit.opcode_base \in Nat
        BY <2>2
      <3> QED BY <2>2, <3>1, DivNat
    <2> QED BY <2>1, <2>3, AdvanceType
  <1>8. CASE i.op = "fixed_advance_pc"
    <2>1. r.address + i.arg \in Int
      BY <1>0 DEF RegsT
    <2>2. (r.address + i.arg) % AddrRange \in 0 .. (AddrRange - 1)
      BY <1>0, <2>1, ModRange
    <2>3. x = [r EXCEPT !.address = (r.address + i.arg) % AddrRange, !.op_index = 0]
      BY <1>8 DEF Exec
    <2> QED BY <2>2, <2>3, SetAddressType
  <1>9. CASE i.op \notin {"end_sequence", "set_address", "special", "advance_pc", "advance_line",
                          "set_file", "const_add_pc", "fixed_advance_pc"}
    BY <1>9 DEF Exec
  <1> QED BY <1>1, <1>2, <1>3, <1>4, <1>5, <1>6, <1>7, <1>8, <1>9

\* bw_emit adds a row of a known file, and none beyond the table's end.
LEMMA EmitType ==
    ASSUME NEW tab \in Seq(RowT), Len(tab) <= RowMax, NEW r \in RegsT,
           NEW s \in Sections, NEW x \in 1 .. Len(s)
    PROVE  bw_emit(tab, r, s[x]) \in Seq(RowT) /\ Len(bw_emit(tab, r, s[x])) <= RowMax
  <1> DEFINE row == [addr |-> r.address, file |-> s[x].files[r.file_idx], line |-> r.line]
  <1>1. CASE EmitOk(r, s[x]) /\ Room(tab)
    <2>1. s[x].files[r.file_idx] \in Names
      BY <1>1 DEF EmitOk, Names
    <2>2. row \in RowT
      BY <1>1, <2>1 DEF EmitOk, RowT, RegsT
    <2>3. bw_emit(tab, r, s[x]) = Append(tab, row)
      BY <1>1 DEF bw_emit
    <2> HIDE DEF row
    <2> QED BY <1>1, <2>2, <2>3, AppendProperties, LenProperties, TableAssumption DEF Room
  <1>2. CASE ~(EmitOk(r, s[x]) /\ Room(tab))
    BY <1>2 DEF bw_emit
  <1> QED BY <1>1, <1>2

\* A table that was never filled satisfies the invariant.
LEMMA InitInv == Init => Inv
  <1> SUFFICES ASSUME Init PROVE Inv
    OBVIOUS
  <1>1. TypeOK
    <2>1. regs \in RegsT /\ Len(rows) <= RowMax
      BY ResetType, EmptySeq, TableAssumption DEF Init
    <2>2. pc = "empty" /\ u = 1 /\ k = 1 /\ ready = FALSE
      BY DEF Init
    <2> QED BY <2>1, <2>2 DEF TypeOK, RegsT
  <1> QED BY <1>1, EmptySeq DEF Init, Inv, ProgInv, RowsInv

\* The steps between the programs.
LEMMA UnitStep ==
    ASSUME Inv, (\E s \in Sections : Parse(s)) \/ UnitSkip \/ UnitStop \/ UnitBegin \/ ProgEnd
                \/ bw_dwarf_tab_reset
    PROVE  Inv'
  <1> USE DEF Inv
  <1>0. ResetRegs \in [address : 0 .. (AddrRange - 1), op_index : Nat, file_idx : Nat,
                       line : 0 .. (LineRange - 1)]
    BY ResetType DEF RegsT
  <1>1. ASSUME NEW s \in Sections, Parse(s) PROVE Inv'
    BY <1>1 DEF Parse, TypeOK, ProgInv, RowsInv
  <1>2. CASE UnitSkip \/ ProgEnd
    BY <1>2 DEF UnitSkip, ProgEnd, NextUnit, TypeOK, ProgInv, RowsInv
  <1>3. CASE UnitStop
    BY <1>3 DEF UnitStop, TypeOK, ProgInv, RowsInv
  <1>4. CASE UnitBegin
    <2>1. u \in 1 .. Len(sec)
      BY <1>4, SectionsAssumption DEF UnitBegin, TypeOK, ProgInv
    <2> QED BY <1>0, <1>4, <2>1 DEF UnitBegin, TypeOK, ProgInv, RowsInv
  <1>5. CASE bw_dwarf_tab_reset
    <2>1. /\ pc' = "empty" /\ rows' = <<>> /\ ready' = FALSE /\ u' = 1 /\ k' = 1
          /\ regs' = ResetRegs
      BY <1>5 DEF bw_dwarf_tab_reset
    <2>2. Len(rows') <= RowMax /\ rows' \in Seq(RowT)
      BY <2>1, EmptySeq, TableAssumption
    <2>3. ready' \in BOOLEAN
      BY <2>1
    <2>4. TypeOK'
      BY <1>0, <2>1, <2>2, <2>3 DEF TypeOK
    <2> QED BY <2>1, <2>2, <2>4 DEF ProgInv, RowsInv
  <1> QED BY <1>1, <1>2, <1>3, <1>4, <1>5

\* One instruction.
LEMMA InstructionStep ==
    ASSUME Inv, ProgStep
    PROVE  Inv'
  <1> USE DEF Inv
  <1> DEFINE i == sec[u].ops[k]
             r == Exec(regs, sec[u], i)
  <1>1. /\ sec \in Sections /\ u \in 1 .. Len(sec) /\ UnitOk(sec[u])
        /\ k \in 1 .. Len(sec[u].ops) /\ regs \in RegsT
    <2>1. sec \in Sections /\ u \in 1 .. Len(sec) /\ sec[u].kind = "line"
      BY DEF ProgStep, ProgInv
    <2>2. UnitOk(sec[u])
      BY <2>1, SectionsAssumption
    <2>3. k \in Nat /\ k >= 1 /\ k <= Len(sec[u].ops) /\ regs \in RegsT
      BY DEF ProgStep, ProgInv, TypeOK, RegsT
    <2>4. Len(sec[u].ops) \in Nat
      BY <2>2 DEF UnitOk
    <2> QED BY <2>1, <2>2, <2>3, <2>4
  <1>2. i.arg \in Int /\ (i.op # "advance_line" => i.arg \in Nat)
    BY <1>1 DEF UnitOk
  <1>3. r \in RegsT
    BY <1>1, <1>2, ExecType
  <1>4. /\ regs' = r /\ k' = k + 1 /\ UNCHANGED <<pc, sec, u, ready>> /\ pc = "prog"
        /\ rows' \in {rows, bw_emit(rows, r, sec[u])}
    BY DEF ProgStep
  <1> HIDE DEF r
  <1>5. rows' \in Seq(RowT) /\ Len(rows') <= RowMax
    BY <1>1, <1>3, <1>4, EmitType DEF TypeOK, RowsInv
  <1>6. TypeOK'
    BY <1>3, <1>4, <1>5 DEF TypeOK, RegsT
  <1> QED BY <1>4, <1>5, <1>6 DEF ProgInv, RowsInv, TypeOK

\* The sort.
LEMMA FinishStep ==
    ASSUME Inv, Finish
    PROVE  Inv'
  <1> USE DEF Inv
  <1>1. \A e \in RowT : e.addr \in Int
    BY DEF RowT
  <1>2. UNCHANGED <<sec, u, k, regs>> /\ pc = "sort" /\ pc' = "done"
    BY DEF Finish
  <1>3. CASE rows = <<>>
    BY <1>2, <1>3 DEF Finish, TypeOK, ProgInv, RowsInv
  <1>4. CASE rows # <<>>
    <2>1. ready' = TRUE /\ rows' \in Sortings(rows)
      BY <1>4 DEF Finish
    <2>2. rows' \in Seq(RowT) /\ Len(rows') = Len(rows) /\ Sorted(rows')
      BY <1>1, <2>1, SortingsSorted DEF RowsInv
    <2> QED BY <1>2, <2>1, <2>2 DEF TypeOK, ProgInv, RowsInv
  <1> QED BY <1>3, <1>4

-----------------------------------------------------------------------------
\* The parser keeps its registers in range and its table within bounds, and
\* leaves it sorted, whatever sections it is given one after the other.
THEOREM Invariance == Spec => []Inv
  <1>1. Inv /\ [Next]_vars => Inv'
    <2> SUFFICES ASSUME Inv, [Next]_vars PROVE Inv'
      OBVIOUS
    <2>1. CASE UNCHANGED vars
      BY <2>1 DEF vars, Inv, TypeOK, ProgInv, RowsInv
    <2> QED BY <2>1, UnitStep, InstructionStep, FinishStep DEF Next
  <1> QED BY InitInv, <1>1, PTL DEF Spec

\* No program of any length overruns the table of rows.
THEOREM TypeCorrect == Spec => []TypeOK
  BY Invariance, PTL DEF Inv

\* bw_dwarf_tab_lookup finds the last row at or below any address in every
\* table that bw_dwarf_tab_parse has made.
THEOREM LookupCorrect == Spec => []SearchCorrect
  <1>1. Inv => SearchCorrect
    <2> SUFFICES ASSUME Inv, pc = "done", ready, NEW a \in 0 .. (AddrRange - 1)
                 PROVE  Search(rows, a) = LastAtOrBelow(rows, a) - 1
      BY DEF SearchCorrect
    <2>1. Sorted(rows) /\ rows \in Seq(RowT)
      BY DEF Inv, RowsInv
    <2>2. Table(rows)
      <3>1. Len(rows) \in Nat /\ \A m \in 1 .. Len(rows) : rows[m] \in RowT
        BY <2>1, LenProperties, ElementOfSeq
      <3> QED BY <3>1 DEF Table, RowT
    <2> QED BY <2>1, <2>2, SearchFinds
  <1> QED BY <1>1, Invariance, PTL

-----------------------------------------------------------------------------
(* The operators of the reference *)

\* A sequence of numbers.
Numbers(v) == Len(v) \in Nat /\ \A m \in 1 .. Len(v) : v[m] \in Int

\* One turn of the recursion of the sums.
Summing(v, g) == [n \in 0 .. Len(v) |-> IF n = 0 THEN 0 ELSE g[n - 1] + v[n]]

\* There are sums.
LEMMA SumsExist ==
    ASSUME NEW v, Numbers(v)
    PROVE  \E g : g = Summing(v, g)
  <1> DEFINE D == 0 .. Len(v)
             Upto(n, g) == \A x \in D : x <= n => g[x] = Summing(v, g)[x]
             S == {n \in Nat : \E g : g = [x \in D |-> g[x]] /\ Upto(n, g)}
  <1>0. Len(v) \in Nat
    BY DEF Numbers
  <1>1. ASSUME NEW g, NEW x \in D
        PROVE  Summing(v, g)[x] = IF x = 0 THEN 0 ELSE g[x - 1] + v[x]
    BY DEF Summing
  <1>2. 0 \in S
    <2> DEFINE g == [x \in D |-> 0]
    <2>1. ASSUME NEW x \in D, x <= 0 PROVE g[x] = Summing(v, g)[x]
      <3>1. x = 0
        BY <1>0, <2>1
      <3> QED BY <1>1, <3>1
    <2>2. g = [x \in D |-> g[x]]
      OBVIOUS
    <2> QED BY <2>1, <2>2
  <1>3. ASSUME NEW n \in Nat, n \in S PROVE n + 1 \in S
    <2>1. PICK g : g = [x \in D |-> g[x]] /\ Upto(n, g)
      BY <1>3
    <2> DEFINE h == Summing(v, g)
    <2>2. h = [x \in D |-> h[x]]
      BY DEF Summing
    <2>3. ASSUME NEW x \in D, x <= n + 1 PROVE h[x] = Summing(v, h)[x]
      <3> HIDE DEF h
      <3>1. CASE x = 0
        BY <1>1, <3>1 DEF h
      <3>2. CASE x # 0
        <4>1. x - 1 \in D /\ x - 1 <= n
          BY <1>0, <2>3, <3>2
        <4>2. g[x - 1] = h[x - 1]
          BY <2>1, <4>1 DEF h
        <4> QED BY <1>1, <3>2, <4>2 DEF h
      <3> QED BY <3>1, <3>2
    <2> HIDE DEF h
    <2> QED BY <2>2, <2>3
  <1> HIDE DEF S
  <1>4. Len(v) \in S
    BY <1>0, <1>2, <1>3, Inductive
  <1>5. PICK g : g = [x \in D |-> g[x]] /\ Upto(Len(v), g)
    BY <1>4 DEF S
  <1>6. \A x \in D : g[x] = Summing(v, g)[x]
    BY <1>0, <1>5
  <1>7. Summing(v, g) = [x \in D |-> Summing(v, g)[x]]
    BY DEF Summing
  <1> QED BY <1>5, <1>6, <1>7

\* The sum of a stretch grows by the element it is extended by.
LEMMA BetweenIs ==
    ASSUME NEW v, Numbers(v), NEW a \in 0 .. Len(v), NEW b \in 0 .. Len(v)
    PROVE  /\ Between(v, a, b) \in Int
           /\ Between(v, a, a) = 0
           /\ b < Len(v) => Between(v, a, b + 1) = Between(v, a, b) + v[b + 1]
  <1> DEFINE g == CHOOSE f : f = Summing(v, f)
  <1>0. Len(v) \in Nat
    BY DEF Numbers
  <1>1. \A x, y : Between(v, x, y) = g[y] - g[x]
    BY DEF Between, Summing
  <1>2. g = Summing(v, g)
    BY SumsExist
  <1> HIDE DEF g
  <1>3. \A n \in 0 .. Len(v) : g[n] = IF n = 0 THEN 0 ELSE g[n - 1] + v[n]
    BY <1>2 DEF Summing
  <1> DEFINE S == {n \in Nat : n <= Len(v) => g[n] \in Int}
  <1>4. 0 \in S
    BY <1>0, <1>3
  <1>5. ASSUME NEW n \in Nat, n \in S PROVE n + 1 \in S
    <2> SUFFICES ASSUME n + 1 <= Len(v) PROVE g[n + 1] \in Int
      OBVIOUS
    <2>1. n + 1 \in 0 .. Len(v) /\ n + 1 \in 1 .. Len(v) /\ (n + 1) - 1 = n /\ n + 1 # 0 /\ n <= Len(v)
      BY <1>0
    <2>2. g[n + 1] = g[n] + v[n + 1]
      BY <1>3, <2>1
    <2>3. g[n] \in Int /\ v[n + 1] \in Int
      BY <1>5, <2>1 DEF Numbers
    <2> QED BY <2>2, <2>3
  <1> HIDE DEF S
  <1>6. \A n \in 0 .. Len(v) : g[n] \in Int
    <2>1. \A n \in Nat : n \in S
      BY <1>4, <1>5, Inductive
    <2> QED BY <1>0, <2>1 DEF S
  <1>7. b < Len(v) => g[b + 1] = g[b] + v[b + 1] /\ g[b + 1] \in Int /\ v[b + 1] \in Int
    <2> SUFFICES ASSUME b < Len(v) PROVE g[b + 1] = g[b] + v[b + 1] /\ g[b + 1] \in Int /\ v[b + 1] \in Int
      OBVIOUS
    <2>1. b + 1 \in 0 .. Len(v) /\ b + 1 \in 1 .. Len(v) /\ (b + 1) - 1 = b /\ b + 1 # 0
      BY <1>0
    <2> QED BY <1>3, <1>6, <2>1 DEF Numbers
  <1>8. g[a] \in Int /\ g[b] \in Int
    BY <1>6
  <1> QED BY <1>1, <1>7, <1>8

\* The greatest of a bounded set of natural numbers.
LEMMA MaxIs ==
    ASSUME NEW n \in Nat, NEW T \in SUBSET (0 .. n), T # {}
    PROVE  Max(T) \in T /\ \A y \in T : y <= Max(T)
  <1>1. \E x \in T : \A y \in T : x >= y
    BY GreatestOf
  <1> QED BY <1>1 DEF Max

\* It is the only one of its kind.
LEMMA MaxUnique ==
    ASSUME NEW n \in Nat, NEW T \in SUBSET (0 .. n), NEW x \in T, \A y \in T : y <= x
    PROVE  Max(T) = x
  <1> DEFINE z == Max(T)
  <1>1. z \in T /\ x <= z /\ z <= x
    BY MaxIs
  <1> HIDE DEF z
  <1>2. z \in 0 .. n /\ x \in 0 .. n
    BY <1>1
  <1>3. z = x
    BY <1>1, <1>2
  <1> QED BY <1>3 DEF z

\* The start of a sequence lies before its instructions, and moves only with
\* an end_sequence.
LEMMA SeqStartIs ==
    ASSUME NEW ops, NEW n \in Nat \ {0}
    PROVE  /\ SeqStart(ops, n) \in 0 .. (n - 1)
           /\ SeqStart(ops, 1) = 0
           /\ ops[n].op = "end_sequence" => SeqStart(ops, n + 1) = n
           /\ ops[n].op # "end_sequence" => SeqStart(ops, n + 1) = SeqStart(ops, n)
  <1> DEFINE E(m) == {0} \cup {x \in 1 .. (m - 1) : ops[x].op = "end_sequence"}
  <1>1. \A m \in Nat \ {0} : E(m) \in SUBSET (0 .. (m - 1)) /\ E(m) # {} /\ m - 1 \in Nat
    OBVIOUS
  <1>2. \A m \in Nat \ {0} : SeqStart(ops, m) = Max(E(m))
    BY DEF SeqStart
  <1>3. \A m \in Nat \ {0} : Max(E(m)) \in E(m) /\ \A y \in E(m) : y <= Max(E(m))
    <2> SUFFICES ASSUME NEW m \in Nat \ {0} PROVE Max(E(m)) \in E(m) /\ \A y \in E(m) : y <= Max(E(m))
      OBVIOUS
    <2> HIDE DEF E
    <2> QED BY <1>1, MaxIs
  <1>4. SeqStart(ops, n) \in 0 .. (n - 1)
    <2> HIDE DEF E
    <2> QED BY <1>1, <1>2, <1>3
  <1>5. SeqStart(ops, 1) = 0
    <2>1. E(1) = {0} /\ 1 \in Nat \ {0}
      OBVIOUS
    <2> HIDE DEF E
    <2> QED BY <1>2, <1>3, <2>1
  <1>6. ops[n].op = "end_sequence" => SeqStart(ops, n + 1) = n
    <2> SUFFICES ASSUME ops[n].op = "end_sequence" PROVE SeqStart(ops, n + 1) = n
      OBVIOUS
    <2>1. n \in E(n + 1) /\ \A y \in E(n + 1) : y <= n
      OBVIOUS
    <2>2. E(n + 1) \in SUBSET (0 .. n) /\ n + 1 \in Nat \ {0}
      OBVIOUS
    <2> HIDE DEF E
    <2>3. Max(E(n + 1)) = n
      BY <2>1, <2>2, MaxUnique
    <2> QED BY <1>2, <2>2, <2>3
  <1>7. ops[n].op # "end_sequence" => SeqStart(ops, n + 1) = SeqStart(ops, n)
    <2> SUFFICES ASSUME ops[n].op # "end_sequence" PROVE SeqStart(ops, n + 1) = SeqStart(ops, n)
      OBVIOUS
    <2>1. E(n + 1) = E(n) /\ n + 1 \in Nat \ {0}
      OBVIOUS
    <2> HIDE DEF E
    <2> QED BY <1>2, <2>1
  <1> QED BY <1>4, <1>5, <1>6, <1>7

\* An instruction that fixes the address.
Fixes(i) == i.op \in {"set_address", "fixed_advance_pc"}

\* The address is last fixed by an instruction itself, or where it was for the
\* instruction before it, or at the start of the sequence.
LEMMA LastFixedIs ==
    ASSUME NEW ops, NEW n \in Nat \ {0}
    PROVE  /\ LastFixed(ops, n) \in SeqStart(ops, n) .. n
           /\ LastFixed(ops, n) # SeqStart(ops, n) => Fixes(ops[LastFixed(ops, n)])
           /\ Fixes(ops[n]) => LastFixed(ops, n) = n
           /\ (~Fixes(ops[n]) /\ SeqStart(ops, n) = n - 1) => LastFixed(ops, n) = n - 1
           /\ (~Fixes(ops[n]) /\ SeqStart(ops, n) # n - 1) =>
                 /\ n - 1 \in Nat \ {0} /\ SeqStart(ops, n) = SeqStart(ops, n - 1)
                 /\ LastFixed(ops, n) = LastFixed(ops, n - 1)
  <1> DEFINE F(m) == {SeqStart(ops, m)} \cup {x \in SoFar(ops, m) : Fixes(ops[x])}
  <1>1. \A m : LastFixed(ops, m) = Max(F(m))
    BY DEF LastFixed, Fixes
  <1>2. SeqStart(ops, n) \in 0 .. (n - 1)
    BY SeqStartIs
  <1>3. F(n) \in SUBSET (SeqStart(ops, n) .. n) /\ F(n) \in SUBSET (0 .. n) /\ F(n) # {}
    BY <1>2 DEF SoFar
  <1>4. Max(F(n)) \in F(n) /\ \A y \in F(n) : y <= Max(F(n))
    <2> HIDE DEF F
    <2> QED BY <1>3, MaxIs
  <1>5. Fixes(ops[n]) => Max(F(n)) = n
    <2> SUFFICES ASSUME Fixes(ops[n]) PROVE Max(F(n)) = n
      OBVIOUS
    <2>1. n \in F(n) /\ \A y \in F(n) : y <= n
      BY <1>2 DEF SoFar
    <2> HIDE DEF F
    <2> QED BY <1>3, <2>1, MaxUnique
  <1>6. (~Fixes(ops[n]) /\ SeqStart(ops, n) = n - 1) => Max(F(n)) = n - 1
    <2> SUFFICES ASSUME ~Fixes(ops[n]), SeqStart(ops, n) = n - 1 PROVE Max(F(n)) = n - 1
      OBVIOUS
    <2>1. F(n) = {n - 1}
      BY DEF SoFar
    <2> HIDE DEF F
    <2> QED BY <1>4, <2>1
  <1>7. (~Fixes(ops[n]) /\ SeqStart(ops, n) # n - 1) =>
            n - 1 \in Nat \ {0} /\ SeqStart(ops, n) = SeqStart(ops, n - 1) /\ F(n) = F(n - 1)
    <2> SUFFICES ASSUME ~Fixes(ops[n]), SeqStart(ops, n) # n - 1
                 PROVE  n - 1 \in Nat \ {0} /\ SeqStart(ops, n) = SeqStart(ops, n - 1) /\ F(n) = F(n - 1)
      OBVIOUS
    <2>1. n - 1 \in Nat \ {0}
      BY <1>2
    <2>2. PICK m \in Nat \ {0} : n = m + 1
      BY <2>1
    <2>3. m = n - 1 /\ SeqStart(ops, m + 1) = SeqStart(ops, m)
      BY <2>2, SeqStartIs
    <2>4. SeqStart(ops, m) \in 0 .. (m - 1)
      BY SeqStartIs
    <2>5. F(m + 1) = F(m)
      BY <2>2, <2>3, <2>4 DEF SoFar
    <2> HIDE DEF F
    <2> QED BY <2>1, <2>2, <2>3, <2>5
  <1>8. /\ LastFixed(ops, n) \in SeqStart(ops, n) .. n
        /\ LastFixed(ops, n) # SeqStart(ops, n) => Fixes(ops[LastFixed(ops, n)])
    <2>1. LastFixed(ops, n) \in F(n)
      BY <1>1, <1>4
    <2>2. \A x \in F(n) : x # SeqStart(ops, n) => Fixes(ops[x])
      OBVIOUS
    <2> HIDE DEF F
    <2> QED BY <1>3, <2>1, <2>2
  <1> HIDE DEF F
  <1> QED BY <1>1, <1>5, <1>6, <1>7, <1>8

\* The advances are numbers.
LEMMA AdvancesAre ==
    ASSUME NEW unit, UnitOk(unit)
    PROVE  /\ Numbers(OpAdvances(unit)) /\ Len(OpAdvances(unit)) = Len(unit.ops)
           /\ Numbers(LineAdvances(unit)) /\ Len(LineAdvances(unit)) = Len(unit.ops)
           /\ Len(unit.ops) \in Nat
  <1> DEFINE L == Len(unit.ops)
  <1>0. L \in Nat /\ unit.line_range \in Nat \ {0} /\ unit.line_base \in Int /\ unit.opcode_base \in Int
    <2>1. unit.opcode_base \in 1 .. 255
      BY DEF UnitOk
    <2>2. L \in Nat /\ unit.line_range \in Nat \ {0} /\ unit.line_base \in Int
      BY DEF UnitOk
    <2>3. unit.opcode_base \in Int
      BY <2>1
    <2> QED BY <2>2, <2>3
  <1>1. ASSUME NEW m \in 1 .. L PROVE OpAdvances(unit)[m] \in Int /\ LineAdvances(unit)[m] \in Int
    <2>0. unit.ops[m].arg \in Int /\ 255 - unit.opcode_base \in Int
      BY <1>0 DEF UnitOk
    <2>1. /\ unit.ops[m].arg \div unit.line_range \in Int /\ unit.ops[m].arg % unit.line_range \in Int
          /\ (255 - unit.opcode_base) \div unit.line_range \in Int
      <3>1. ASSUME NEW a \in Int PROVE a \div unit.line_range \in Int /\ a % unit.line_range \in Int
        <4>1. a \div unit.line_range \in Int /\ a % unit.line_range \in 0 .. (unit.line_range - 1)
          BY <1>0, DivMod
        <4> QED BY <4>1
      <3> QED BY <2>0, <3>1
    <2>2. OpAdvances(unit)[m] \in Int
      BY <2>0, <2>1 DEF OpAdvances
    <2>3. LineAdvances(unit)[m] \in Int
      BY <1>0, <2>0, <2>1 DEF LineAdvances
    <2> QED BY <2>2, <2>3
  <1>2. OpAdvances(unit) \in [1 .. L -> Int] /\ LineAdvances(unit) \in [1 .. L -> Int]
    BY <1>1 DEF OpAdvances, LineAdvances
  <1>3. OpAdvances(unit) \in Seq(Int) /\ LineAdvances(unit) \in Seq(Int)
    BY <1>0, <1>2, SeqDef
  <1>4. Len(OpAdvances(unit)) = L /\ Len(LineAdvances(unit)) = L
    <2>1. DOMAIN OpAdvances(unit) = 1 .. L /\ DOMAIN LineAdvances(unit) = 1 .. L
      BY <1>2
    <2> QED BY <1>0, <1>3, <2>1, LenProperties
  <1> QED BY <1>0, <1>1, <1>4 DEF Numbers

\* The operations since the address was last fixed.
Since(unit, n) == Between(OpAdvances(unit), LastFixed(unit.ops, n), n)

\* What the address was fixed to, given the addresses before it.
Start(unit, g, x) ==
    CASE LastFixed(unit.ops, x) = SeqStart(unit.ops, x) -> 0
      [] LastFixed(unit.ops, x) # SeqStart(unit.ops, x) /\ unit.ops[LastFixed(unit.ops, x)].op = "set_address"
            -> unit.ops[LastFixed(unit.ops, x)].arg
      [] OTHER -> (IF LastFixed(unit.ops, x) - 1 = SeqStart(unit.ops, x) THEN 0
                   ELSE g[LastFixed(unit.ops, x) - 1]) + unit.ops[LastFixed(unit.ops, x)].arg

\* One turn of the recursion of AddressAt.
Locating(unit, g) ==
    [x \in 0 .. Len(unit.ops) |-> Start(unit, g, x) + unit.min_inst * (Since(unit, x) \div unit.max_ops)]

\* For the empty beginning of a program nothing has been fixed.
LEMMA AtZero ==
    ASSUME NEW ops
    PROVE  SeqStart(ops, 0) = 0 /\ LastFixed(ops, 0) = 0
  <1>1. {0} \cup {m \in 1 .. (0 - 1) : ops[m].op = "end_sequence"} = {0}
    OBVIOUS
  <1>2. Max({0}) = 0
    <2>1. Max({0}) \in {0}
      BY MaxIs
    <2> QED BY <2>1
  <1>3. SeqStart(ops, 0) = 0
    BY <1>1, <1>2 DEF SeqStart
  <1>4. {SeqStart(ops, 0)} \cup {m \in SoFar(ops, 0) : ops[m].op \in {"set_address", "fixed_advance_pc"}} = {0}
    BY <1>3 DEF SoFar
  <1> QED BY <1>2, <1>3, <1>4 DEF LastFixed

\* What was last fixed lies between the start and the instruction.
LEMMA FixedWithin ==
    ASSUME NEW ops, NEW n \in Nat
    PROVE  /\ SeqStart(ops, n) \in 0 .. n /\ LastFixed(ops, n) \in SeqStart(ops, n) .. n
           /\ LastFixed(ops, n) # SeqStart(ops, n) =>
                 LastFixed(ops, n) \in 1 .. n /\ LastFixed(ops, n) - 1 \in 0 .. (n - 1)
  <1>1. CASE n = 0
    BY <1>1, AtZero
  <1>2. CASE n # 0
    <2>1. SeqStart(ops, n) \in 0 .. (n - 1) /\ LastFixed(ops, n) \in SeqStart(ops, n) .. n
      BY <1>2, SeqStartIs, LastFixedIs
    <2> DEFINE s == SeqStart(ops, n)
               f == LastFixed(ops, n)
    <2> HIDE DEF s, f
    <2>2. s \in 0 .. (n - 1) /\ f \in s .. n
      BY <2>1 DEF s, f
    <2>3. s \in 0 .. n /\ f \in s .. n /\ (f # s => f \in 1 .. n /\ f - 1 \in 0 .. (n - 1))
      BY <2>2
    <2> QED BY <2>3 DEF s, f
  <1> QED BY <1>1, <1>2

\* There are addresses ...
LEMMA LocationsExist ==
    ASSUME NEW unit, UnitOk(unit)
    PROVE  \E g : g = Locating(unit, g)
  <1> DEFINE D == 0 .. Len(unit.ops)
             Upto(n, g) == \A x \in D : x <= n => g[x] = Locating(unit, g)[x]
             S == {n \in Nat : \E g : g = [x \in D |-> g[x]] /\ Upto(n, g)}
  <1>0. Len(unit.ops) \in Nat
    BY DEF UnitOk
  <1>1. ASSUME NEW g, NEW h, NEW x \in D,
               \A y \in D : y <= x - 1 => g[y] = h[y]
        PROVE  Locating(unit, g)[x] = Locating(unit, h)[x]
    <2> DEFINE f == LastFixed(unit.ops, x)
    <2>1. f # SeqStart(unit.ops, x) => g[f - 1] = h[f - 1]
      <3> SUFFICES ASSUME f # SeqStart(unit.ops, x) PROVE g[f - 1] = h[f - 1]
        OBVIOUS
      <3>1. f - 1 \in 0 .. (x - 1)
        BY <1>0, FixedWithin
      <3> HIDE DEF f
      <3> QED BY <1>0, <1>1, <3>1
    <2>2. Start(unit, g, x) = Start(unit, h, x)
      BY <2>1 DEF Start
    <2> QED BY <2>2 DEF Locating
  <1>2. 0 \in S
    <2> DEFINE e == [x \in D |-> 0]
               g == Locating(unit, e)
    <2>1. g = [x \in D |-> g[x]]
      BY DEF Locating
    <2> HIDE DEF g, e
    <2>2. ASSUME NEW x \in D, x <= 0 PROVE g[x] = Locating(unit, g)[x]
      <3>1. \A y \in D : y <= x - 1 => e[y] = g[y]
        BY <1>0, <2>2
      <3> QED BY <1>1, <3>1 DEF g
    <2> QED BY <2>1, <2>2
  <1>3. ASSUME NEW n \in Nat, n \in S PROVE n + 1 \in S
    <2>1. PICK g : g = [x \in D |-> g[x]] /\ Upto(n, g)
      BY <1>3
    <2> DEFINE h == Locating(unit, g)
    <2>2. h = [x \in D |-> h[x]]
      BY DEF Locating
    <2> HIDE DEF h
    <2>3. ASSUME NEW x \in D, x <= n + 1 PROVE h[x] = Locating(unit, h)[x]
      <3>1. \A y \in D : y <= x - 1 => g[y] = h[y]
        BY <1>0, <2>1, <2>3 DEF h
      <3> QED BY <1>1, <3>1 DEF h
    <2> QED BY <2>2, <2>3
  <1> HIDE DEF S
  <1>4. Len(unit.ops) \in S
    BY <1>0, <1>2, <1>3, Inductive
  <1>5. PICK g : g = [x \in D |-> g[x]] /\ Upto(Len(unit.ops), g)
    BY <1>4 DEF S
  <1>6. \A x \in D : g[x] = Locating(unit, g)[x]
    BY <1>0, <1>5
  <1>7. Locating(unit, g) = [x \in D |-> Locating(unit, g)[x]]
    BY DEF Locating
  <1> QED BY <1>5, <1>6, <1>7

\* The addresses, before they are reduced to the width of an address.
Located(unit) == CHOOSE g : g = Locating(unit, g)

\* ... and they are numbers.
LEMMA LocatedIs ==
    ASSUME NEW unit, UnitOk(unit)
    PROVE  /\ \A n : AddressAt(unit, n) = Located(unit)[n] % AddrRange
           /\ \A x \in 0 .. Len(unit.ops) :
                 /\ Located(unit)[x] = Start(unit, Located(unit), x)
                                        + unit.min_inst * (Since(unit, x) \div unit.max_ops)
                 /\ Located(unit)[x] \in Int /\ Start(unit, Located(unit), x) \in Int
                 /\ Since(unit, x) \in Int
  <1> DEFINE g == Located(unit)
             D == 0 .. Len(unit.ops)
  <1>1. \A n : AddressAt(unit, n) = g[n] % AddrRange
    BY DEF AddressAt, Located, Locating, Start, Since
  <1>2. g = Locating(unit, g)
    BY LocationsExist DEF Located
  <1> HIDE DEF g
  <1>3. \A x \in D : g[x] = Start(unit, g, x) + unit.min_inst * (Since(unit, x) \div unit.max_ops)
    BY <1>2 DEF Locating
  <1>4. Len(unit.ops) \in Nat /\ unit.min_inst \in Int /\ unit.max_ops \in Nat \ {0}
    BY DEF UnitOk
  <1>5. ASSUME NEW x \in D
        PROVE  Since(unit, x) \in Int /\ unit.min_inst * (Since(unit, x) \div unit.max_ops) \in Int
    <2>1. LastFixed(unit.ops, x) \in D
      <3>1. SeqStart(unit.ops, x) \in 0 .. x /\ LastFixed(unit.ops, x) \in SeqStart(unit.ops, x) .. x
        BY <1>4, FixedWithin
      <3> QED BY <1>4, <3>1
    <2>2. Since(unit, x) \in Int
      BY <2>1, AdvancesAre, BetweenIs DEF Since
    <2>3. Since(unit, x) \div unit.max_ops \in Int
      BY <1>4, <2>2, DivMod
    <2> QED BY <1>4, <2>2, <2>3
  <1> DEFINE S == {n \in Nat : \A x \in D : x <= n => g[x] \in Int /\ Start(unit, g, x) \in Int}
  <1>6. ASSUME NEW n \in Nat, \A x \in D : x < n => g[x] \in Int
        PROVE  \A x \in D : x <= n => g[x] \in Int /\ Start(unit, g, x) \in Int
    <2> SUFFICES ASSUME NEW x \in D, x <= n PROVE g[x] \in Int /\ Start(unit, g, x) \in Int
      OBVIOUS
    <2> DEFINE f == LastFixed(unit.ops, x)
    <2>1. f # SeqStart(unit.ops, x) => g[f - 1] \in Int /\ unit.ops[f].arg \in Int
      <3> SUFFICES ASSUME f # SeqStart(unit.ops, x) PROVE g[f - 1] \in Int /\ unit.ops[f].arg \in Int
        OBVIOUS
      <3>1. f - 1 \in 0 .. (x - 1) /\ f \in 1 .. x
        BY <1>4, FixedWithin
      <3> HIDE DEF f
      <3>2. f - 1 \in D /\ f - 1 < n /\ f \in 1 .. Len(unit.ops)
        BY <1>4, <3>1
      <3> QED BY <1>6, <3>2 DEF UnitOk
    <2>2. Start(unit, g, x) \in Int
      BY <2>1 DEF Start
    <2> QED BY <1>3, <1>5, <2>2
  <1>7. 0 \in S
    <2>1. \A x \in D : ~(x < 0)
      BY <1>4
    <2> QED BY <1>6, <2>1
  <1>8. ASSUME NEW n \in Nat, n \in S PROVE n + 1 \in S
    <2>1. \A x \in D : x < n + 1 => g[x] \in Int
      BY <1>4, <1>8
    <2> QED BY <1>6, <2>1
  <1> HIDE DEF S
  <1>9. Len(unit.ops) \in S
    BY <1>4, <1>7, <1>8, Inductive
  <1>10. \A x \in D : g[x] \in Int /\ Start(unit, g, x) \in Int
    BY <1>4, <1>9 DEF S
  <1> QED BY <1>1, <1>3, <1>5, <1>10 DEF g

-----------------------------------------------------------------------------
(* The registers are those of the reference *)

\* The registers that the reference gives at an instruction, ...
Registers(unit, n) ==
    [address |-> AddressAt(unit, n), op_index |-> Since(unit, n) % unit.max_ops,
     file_idx |-> FileAt(unit, n), line |-> LineAt(unit, n)]

\* ... and those of the parser behind it: an end_sequence has reset them.
RegsAt(unit, n) == IF n = SeqStart(unit.ops, n + 1) THEN ResetRegs ELSE Registers(unit, n)

\* A sequence starts behind instruction n - 1, or both are of the same one.
LEMMA StartOrSame ==
    ASSUME NEW unit, NEW n \in Nat \ {0}
    PROVE  \/ n - 1 = SeqStart(unit.ops, n) /\ RegsAt(unit, n - 1) = ResetRegs
           \/ /\ n - 1 # SeqStart(unit.ops, n) /\ n - 1 \in Nat \ {0}
              /\ SeqStart(unit.ops, n) = SeqStart(unit.ops, n - 1)
              /\ RegsAt(unit, n - 1) = Registers(unit, n - 1)
  <1>1. (n - 1) + 1 = n
    OBVIOUS
  <1>2. SeqStart(unit.ops, n) \in 0 .. (n - 1)
    BY SeqStartIs
  <1>3. CASE n - 1 = SeqStart(unit.ops, n)
    BY <1>1, <1>3 DEF RegsAt
  <1>4. CASE n - 1 # SeqStart(unit.ops, n)
    <2>1. n - 1 \in Nat \ {0}
      BY <1>2, <1>4
    <2>2. SeqStart(unit.ops, (n - 1) + 1) = SeqStart(unit.ops, n - 1)
      BY <1>1, <1>4, <2>1, SeqStartIs
    <2> QED BY <1>1, <1>4, <2>1, <2>2 DEF RegsAt
  <1> QED BY <1>3, <1>4

\* The line.
LEMMA LineStep ==
    ASSUME NEW unit, UnitOk(unit), NEW n \in 1 .. Len(unit.ops)
    PROVE  /\ LineAt(unit, n) = (RegsAt(unit, n - 1).line + LineAdvances(unit)[n]) % LineRange
           /\ LineAt(unit, n) \in 0 .. (LineRange - 1)
  <1> DEFINE v == LineAdvances(unit)
             s == SeqStart(unit.ops, n)
             b == Between(v, s, n - 1)
  <1>0. Numbers(v) /\ Len(v) = Len(unit.ops) /\ Len(v) \in Nat /\ n \in Nat \ {0} /\ LineRange \in Nat \ {0}
    BY AdvancesAre, TableAssumption
  <1>1. s \in 0 .. (n - 1)
    BY <1>0, SeqStartIs
  <1>2. v[n] \in Int
    BY <1>0 DEF Numbers
  <1> HIDE DEF v, s
  <1>3. s \in 0 .. Len(v) /\ n - 1 \in 0 .. Len(v) /\ n - 1 < Len(v) /\ (n - 1) + 1 = n
    BY <1>0, <1>1
  <1>4. b \in Int /\ Between(v, s, n) = b + v[n] /\ Between(v, s, s) = 0
    <2>1. /\ Between(v, s, n - 1) \in Int /\ Between(v, s, s) = 0
          /\ n - 1 < Len(v) => Between(v, s, (n - 1) + 1) = Between(v, s, n - 1) + v[(n - 1) + 1]
      BY <1>0, <1>3, BetweenIs
    <2> QED BY <1>3, <2>1
  <1>5. LineAt(unit, n) = (1 + (b + v[n])) % LineRange
    BY <1>4 DEF LineAt, s, v
  <1>6. CASE n - 1 = s /\ RegsAt(unit, n - 1) = ResetRegs
    <2>1. RegsAt(unit, n - 1).line = 1 /\ b = 0
      BY <1>4, <1>6 DEF ResetRegs
    <2>2. 1 + (b + v[n]) = 1 + v[n] /\ 1 + (b + v[n]) \in Int
      BY <1>2, <2>1
    <2> QED BY <1>0, <1>5, <2>1, <2>2, DivMod DEF v
  <1>7. CASE s = SeqStart(unit.ops, n - 1) /\ RegsAt(unit, n - 1) = Registers(unit, n - 1)
    <2>1. RegsAt(unit, n - 1).line = (1 + b) % LineRange
      BY <1>7 DEF Registers, LineAt, v
    <2>2. 1 + b \in Int /\ (1 + b) + v[n] = 1 + (b + v[n]) /\ 1 + (b + v[n]) \in Int
      BY <1>2, <1>4
    <2> HIDE DEF b
    <2>3. (((1 + b) % LineRange) + v[n]) % LineRange = ((1 + b) + v[n]) % LineRange
      BY <1>0, <1>2, <2>2, ModAdd
    <2> QED BY <1>0, <1>5, <2>1, <2>2, <2>3, DivMod DEF v
  <1> QED BY <1>0, <1>6, <1>7, StartOrSame DEF s

\* The file.
LEMMA FileStep ==
    ASSUME NEW unit, UnitOk(unit), NEW n \in 1 .. Len(unit.ops)
    PROVE  /\ FileAt(unit, n) = IF unit.ops[n].op = "set_file" THEN unit.ops[n].arg
                                ELSE RegsAt(unit, n - 1).file_idx
           /\ FileAt(unit, n) \in Nat
  <1> DEFINE ops == unit.ops
             F(x) == {m \in SoFar(ops, x) : ops[m].op = "set_file"}
  <1>0. n \in Nat \ {0} /\ Len(ops) \in Nat
    BY AdvancesAre
  <1>1. \A x : FileAt(unit, x) = IF F(x) = {} THEN 1 ELSE ops[Max(F(x))].arg
    BY DEF FileAt
  <1>2. SeqStart(ops, n) \in 0 .. (n - 1)
    BY <1>0, SeqStartIs
  <1>3. F(n) \in SUBSET (0 .. n) /\ F(n) \in SUBSET (1 .. Len(ops))
    BY <1>0, <1>2 DEF SoFar
  <1>4. CASE ops[n].op = "set_file"
    <2>1. n \in F(n) /\ \A y \in F(n) : y <= n
      BY <1>0, <1>2, <1>4 DEF SoFar
    <2> HIDE DEF F
    <2>2. Max(F(n)) = n
      BY <1>0, <1>3, <2>1, MaxUnique
    <2>3. ops[n].arg \in Nat
      BY <1>4 DEF UnitOk
    <2> QED BY <1>1, <1>4, <2>1, <2>2, <2>3
  <1>5. CASE ops[n].op # "set_file"
    <2>1. CASE n - 1 = SeqStart(ops, n) /\ RegsAt(unit, n - 1) = ResetRegs
      <3>1. F(n) = {}
        BY <1>0, <1>5, <2>1 DEF SoFar
      <3> HIDE DEF F
      <3> QED BY <1>1, <1>5, <2>1, <3>1 DEF ResetRegs
    <2>2. CASE SeqStart(ops, n) = SeqStart(ops, n - 1) /\ RegsAt(unit, n - 1) = Registers(unit, n - 1)
      <3>1. F(n) = F(n - 1)
        BY <1>0, <1>2, <1>5, <2>2 DEF SoFar
      <3>2. \A m \in F(n) : ops[m].op = "set_file"
        OBVIOUS
      <3> HIDE DEF F
      <3>3. F(n) # {} => ops[Max(F(n))].arg \in Nat
        <4> SUFFICES ASSUME F(n) # {} PROVE ops[Max(F(n))].arg \in Nat
          OBVIOUS
        <4>1. Max(F(n)) \in F(n)
          BY <1>0, <1>3, MaxIs
        <4>2. Max(F(n)) \in 1 .. Len(ops) /\ ops[Max(F(n))].op = "set_file"
          BY <1>3, <3>2, <4>1
        <4> QED BY <4>2 DEF UnitOk
      <3> QED BY <1>1, <1>5, <2>2, <3>1, <3>3 DEF Registers
    <2> QED BY <1>0, <2>1, <2>2, StartOrSame
  <1> QED BY <1>4, <1>5

\* Address and operation index.
LEMMA AddressStep ==
    ASSUME NEW unit, UnitOk(unit), NEW n \in 1 .. Len(unit.ops), NEW r, r = RegsAt(unit, n - 1)
    PROVE  /\ unit.ops[n].op = "set_address" =>
                 AddressAt(unit, n) = unit.ops[n].arg % AddrRange /\ Since(unit, n) = 0
           /\ unit.ops[n].op = "fixed_advance_pc" =>
                 AddressAt(unit, n) = (r.address + unit.ops[n].arg) % AddrRange /\ Since(unit, n) = 0
           /\ ~Fixes(unit.ops[n]) =>
                 /\ AddressAt(unit, n) = (r.address + unit.min_inst *
                        ((r.op_index + OpAdvances(unit)[n]) \div unit.max_ops)) % AddrRange
                 /\ Since(unit, n) % unit.max_ops = (r.op_index + OpAdvances(unit)[n]) % unit.max_ops
  <1> DEFINE ops == unit.ops
             g == Located(unit)
             v == OpAdvances(unit)
             mo == unit.max_ops
             mi == unit.min_inst
             f == LastFixed(ops, n)
             s == SeqStart(ops, n)
  <1>0. /\ Numbers(v) /\ Len(v) = Len(ops) /\ Len(v) \in Nat /\ n \in Nat \ {0} /\ v[n] \in Int
        /\ AddrRange \in Nat \ {0} /\ mo \in Nat \ {0} /\ mi \in Int
    BY AdvancesAre, TableAssumption DEF UnitOk, Numbers
  <1>1. /\ AddressAt(unit, n) = g[n] % AddrRange
        /\ g[n] = Start(unit, g, n) + mi * (Since(unit, n) \div mo)
        /\ Start(unit, g, n) \in Int /\ Since(unit, n) \in Int
    <2>1. n \in 0 .. Len(ops)
      BY <1>0
    <2> QED BY <2>1, LocatedIs
  <1>2. s \in 0 .. (n - 1) /\ n \in 0 .. Len(v) /\ n - 1 \in 0 .. Len(v) /\ n - 1 < Len(v) /\ (n - 1) + 1 = n
    BY <1>0, SeqStartIs
  <1>3. 0 \div mo = 0 /\ mi * 0 = 0
    <2>2. \A d \in Nat \ {0} : 0 = d * 0 + 0 /\ 0 \in 0 .. (d - 1)
      OBVIOUS
    <2>3. \A d \in Nat \ {0} : 0 \div d = 0
      BY <2>2, DivModUnique
    <2>4. \A d \in Int : d * 0 = 0
      OBVIOUS
    <2> QED BY <1>0, <2>3, <2>4
  <1>4. ASSUME Fixes(ops[n])
        PROVE  f = n /\ f # s /\ Since(unit, n) = 0 /\ g[n] = Start(unit, g, n)
    <2>1. f = n /\ f # s
      BY <1>0, <1>2, <1>4, LastFixedIs
    <2>2. Since(unit, n) = 0
      BY <1>0, <1>2, <2>1, BetweenIs DEF Since
    <2>3. g[n] = Start(unit, g, n)
      BY <1>1, <1>3, <2>2
    <2> QED BY <2>1, <2>2, <2>3
  <1>5. CASE ops[n].op = "set_address"
    <2>1. f = n /\ f # s /\ Since(unit, n) = 0 /\ g[n] = Start(unit, g, n)
      BY <1>4, <1>5 DEF Fixes
    <2>2. Start(unit, g, n) = ops[n].arg
      BY <1>5, <2>1 DEF Start
    <2> QED BY <1>1, <1>5, <2>1, <2>2 DEF Fixes
  <1>6. CASE ops[n].op = "fixed_advance_pc"
    <2>1. f = n /\ f # s /\ Since(unit, n) = 0 /\ g[n] = Start(unit, g, n)
      BY <1>4, <1>6 DEF Fixes
    <2> HIDE DEF g
    <2>2. Start(unit, g, n) = (IF n - 1 = s THEN 0 ELSE g[n - 1]) + ops[n].arg
      BY <1>6, <2>1 DEF Start
    <2>3. ops[n].arg \in Int
      BY <1>0 DEF UnitOk
    <2>4. CASE n - 1 = s /\ r = ResetRegs
      BY <1>1, <2>1, <2>2, <2>4, <1>6 DEF ResetRegs, Fixes
    <2>5. CASE n - 1 # s /\ r = Registers(unit, n - 1)
      <3>1. r.address = g[n - 1] % AddrRange
        BY <2>5, LocatedIs DEF Registers, g
      <3>2. g[n - 1] \in Int
        BY <1>0, <1>2, LocatedIs DEF g
      <3>3. (r.address + ops[n].arg) % AddrRange = (g[n - 1] + ops[n].arg) % AddrRange
        <4>1. ((g[n - 1] % AddrRange) + ops[n].arg) % AddrRange = (g[n - 1] + ops[n].arg) % AddrRange
          BY <1>0, <2>3, <3>2, ModAdd
        <4> QED BY <3>1, <4>1
      <3> QED BY <1>1, <1>6, <2>1, <2>2, <2>5, <3>3 DEF Fixes
    <2> QED BY <1>0, <2>4, <2>5, StartOrSame
  <1>7. CASE ~Fixes(ops[n])
    <2>1. ops[n].op # "set_address" /\ ops[n].op # "fixed_advance_pc"
      BY <1>7 DEF Fixes
    <2>2. CASE n - 1 = s /\ r = ResetRegs
      <3>1. f = s /\ f = n - 1
        BY <1>0, <1>7, <2>2, LastFixedIs
      <3>2. Since(unit, n) = v[n]
        <4>1. /\ Between(v, n - 1, n - 1) = 0
              /\ Between(v, n - 1, (n - 1) + 1) = Between(v, n - 1, n - 1) + v[(n - 1) + 1]
          BY <1>0, <1>2, BetweenIs
        <4> QED BY <1>0, <1>2, <3>1, <4>1 DEF Since
      <3>3. Start(unit, g, n) = 0
        BY <3>1 DEF Start
      <3>4. r.address = 0 /\ r.op_index = 0
        BY <2>2 DEF ResetRegs
      <3>5. 0 + v[n] = v[n] /\ 0 + mi * (v[n] \div mo) = mi * (v[n] \div mo)
        <4>1. v[n] \div mo \in Int
          BY <1>0, DivMod
        <4> QED BY <1>0, <4>1
      <3> QED BY <1>1, <1>7, <2>1, <3>2, <3>3, <3>4, <3>5
    <2>3. CASE /\ n - 1 # s /\ r = Registers(unit, n - 1) /\ n - 1 \in Nat \ {0}
               /\ SeqStart(ops, n) = SeqStart(ops, n - 1)
      <3> DEFINE o == Since(unit, n - 1)
                 st == Start(unit, g, n - 1)
      <3>1. f = LastFixed(ops, n - 1) /\ f \in 0 .. Len(v)
        <4>1. f = LastFixed(ops, n - 1) /\ f \in s .. n
          BY <1>0, <1>7, <2>3, LastFixedIs
        <4> QED BY <1>0, <1>2, <4>1
      <3>2. Since(unit, n) = o + v[n] /\ o \in Int
        <4>1. /\ Between(v, f, (n - 1) + 1) = Between(v, f, n - 1) + v[(n - 1) + 1]
              /\ Between(v, f, n - 1) \in Int
          BY <1>0, <1>2, <3>1, BetweenIs
        <4> QED BY <1>2, <3>1, <4>1 DEF Since
      <3>3. Start(unit, g, n) = st
        BY <2>3, <3>1 DEF Start
      <3>4. /\ r.address = g[n - 1] % AddrRange /\ r.op_index = o % mo
            /\ g[n - 1] = st + mi * (o \div mo) /\ st \in Int
        BY <1>2, <1>0, <2>3, LocatedIs DEF Registers
      <3> HIDE DEF g, o, st, v, mo, mi
      <3>5. /\ (r.op_index + v[n]) % mo = (o + v[n]) % mo
            /\ (o \div mo) + ((r.op_index + v[n]) \div mo) = (o + v[n]) \div mo
        <4>1. /\ ((o % mo) + v[n]) % mo = (o + v[n]) % mo
              /\ (o \div mo) + (((o % mo) + v[n]) \div mo) = (o + v[n]) \div mo
          BY <1>0, <3>2, ModAdd
        <4> QED BY <3>4, <4>1
      <3> DEFINE a == o \div mo
                 c == (r.op_index + v[n]) \div mo
      <3>6. a \in Int /\ c \in Int
        <4>1. r.op_index \in Int
          <5>1. o % mo \in 0 .. (mo - 1)
            BY <1>0, <3>2, DivMod
          <5> QED BY <3>4, <5>1
        <4>2. r.op_index + v[n] \in Int
          BY <1>0, <4>1
        <4> QED BY <1>0, <3>2, <4>2, DivMod
      <3> HIDE DEF a, c
      <3>7. g[n] = st + mi * (a + c)
        BY <1>1, <3>2, <3>3, <3>5 DEF a, c
      <3>8. mi * (a + c) = mi * a + mi * c /\ mi * a \in Int /\ mi * c \in Int
        BY <1>0, <3>6, Z3
      <3>9. g[n] = g[n - 1] + mi * c /\ g[n - 1] \in Int
        BY <3>4, <3>7, <3>8 DEF a
      <3>10. (r.address + mi * c) % AddrRange = g[n] % AddrRange
        BY <1>0, <3>4, <3>8, <3>9, ModAdd
      <3> QED BY <1>1, <1>7, <2>1, <3>2, <3>5, <3>10 DEF c, mo, mi, v, g
    <2> QED BY <1>0, <2>2, <2>3, StartOrSame
  <1> QED BY <1>5, <1>6, <1>7 DEF Fixes

\* Registers in their ranges, the operation index below its limit.
RegsIn(unit) == [address : 0 .. (AddrRange - 1), op_index : 0 .. (unit.max_ops - 1), file_idx : Nat,
                 line : 0 .. (LineRange - 1)]

\* The registers of the reference are in their ranges.
LEMMA RegsAtIn ==
    ASSUME NEW unit, UnitOk(unit), NEW n \in 0 .. Len(unit.ops)
    PROVE  /\ n # 0 => Registers(unit, n) \in RegsIn(unit)
           /\ RegsAt(unit, n) \in RegsIn(unit)
  <1>0. /\ AddrRange \in Nat \ {0} /\ LineRange \in Nat \ {0} /\ 1 <= LineRange - 1
        /\ unit.max_ops \in Nat \ {0} /\ Len(unit.ops) \in Nat /\ n \in Nat
    BY TableAssumption DEF UnitOk
  <1>1. n # 0 => Registers(unit, n) \in RegsIn(unit)
    <2> SUFFICES ASSUME n # 0 PROVE Registers(unit, n) \in RegsIn(unit)
      OBVIOUS
    <2>1. n \in 1 .. Len(unit.ops)
      BY <1>0
    <2>2. AddressAt(unit, n) \in 0 .. (AddrRange - 1)
      <3>1. AddressAt(unit, n) = Located(unit)[n] % AddrRange /\ Located(unit)[n] \in Int
        BY LocatedIs
      <3> QED BY <1>0, <3>1, DivMod
    <2>3. Since(unit, n) % unit.max_ops \in 0 .. (unit.max_ops - 1)
      <3>1. Since(unit, n) \in Int
        BY LocatedIs
      <3> QED BY <1>0, <3>1, DivMod
    <2>4. FileAt(unit, n) \in Nat /\ LineAt(unit, n) \in 0 .. (LineRange - 1)
      BY <2>1, FileStep, LineStep
    <2> QED BY <2>2, <2>3, <2>4 DEF Registers, RegsIn
  <1>2. ResetRegs \in RegsIn(unit)
    BY <1>0 DEF ResetRegs, RegsIn
  <1>3. RegsAt(unit, n) \in RegsIn(unit)
    <2>1. n = 0 => n = SeqStart(unit.ops, n + 1)
      BY SeqStartIs
    <2> QED BY <1>1, <1>2, <2>1 DEF RegsAt
  <1> QED BY <1>1, <1>3

\* A sum without a second part, for registers within their ranges.
LEMMA NothingAdded ==
    ASSUME NEW n \in Nat \ {0}, NEW a \in 0 .. (n - 1)
    PROVE  (a + 0) % n = a /\ (a + 0) \div n = 0
  <1>1. a + 0 = n * 0 + a /\ a + 0 \in Int
    OBVIOUS
  <1> QED BY <1>1, DivModUnique

\* The registers that an instruction leaves are those that the reference gives
\* from the instructions of its sequence.
LEMMA ExecFollows ==
    ASSUME NEW unit, UnitOk(unit), NEW n \in 1 .. Len(unit.ops)
    PROVE  /\ unit.ops[n].op # "end_sequence" =>
                 Exec(RegsAt(unit, n - 1), unit, unit.ops[n]) = Registers(unit, n)
           /\ Exec(RegsAt(unit, n - 1), unit, unit.ops[n]) = RegsAt(unit, n)
  <1> DEFINE i == unit.ops[n]
             r == RegsAt(unit, n - 1)
             x == Exec(r, unit, i)
             y == Registers(unit, n)
             mo == unit.max_ops
             mi == unit.min_inst
             v == OpAdvances(unit)[n]
             w == LineAdvances(unit)[n]
  <1>0. /\ Len(unit.ops) \in Nat /\ n \in Nat \ {0} /\ n - 1 \in 0 .. Len(unit.ops)
        /\ n \in 0 .. Len(unit.ops)
        /\ AddrRange \in Nat \ {0} /\ LineRange \in Nat \ {0} /\ mo \in Nat \ {0} /\ mi \in Int
    BY TableAssumption DEF UnitOk
  <1>1. r \in RegsIn(unit) /\ y \in RegsIn(unit)
    BY <1>0, RegsAtIn
  <1>2. /\ y.line = (r.line + w) % LineRange
        /\ y.file_idx = IF i.op = "set_file" THEN i.arg ELSE r.file_idx
        /\ i.op = "set_address" => y.address = i.arg % AddrRange /\ y.op_index = 0
        /\ i.op = "fixed_advance_pc" => y.address = (r.address + i.arg) % AddrRange /\ y.op_index = 0
        /\ ~Fixes(i) => /\ y.address = (r.address + mi * ((r.op_index + v) \div mo)) % AddrRange
                        /\ y.op_index = (r.op_index + v) % mo
    <2>1. y.line = LineAt(unit, n) /\ y.file_idx = FileAt(unit, n) /\ y.address = AddressAt(unit, n)
          /\ y.op_index = Since(unit, n) % mo
      BY DEF Registers
    <2>2. 0 % mo = 0
      <3>1. 0 \in 0 .. (mo - 1)
        BY <1>0
      <3>2. (0 + 0) % mo = 0
        BY <1>0, <3>1, NothingAdded
      <3> QED BY <3>2
    <2> HIDE DEF y
    <2> QED BY <2>1, <2>2, LineStep, FileStep, AddressStep
  <1>3. /\ v = (CASE i.op = "special"      -> i.arg \div unit.line_range
                  [] i.op = "advance_pc"   -> i.arg
                  [] i.op = "const_add_pc" -> (255 - unit.opcode_base) \div unit.line_range
                  [] OTHER                 -> 0)
        /\ w = (CASE i.op = "special"      -> unit.line_base + (i.arg % unit.line_range)
                  [] i.op = "advance_line" -> i.arg
                  [] OTHER                 -> 0)
    BY DEF OpAdvances, LineAdvances
  <1> HIDE DEF r, y, v, w
  <1>4. /\ r.address \in 0 .. (AddrRange - 1) /\ r.op_index \in 0 .. (mo - 1)
        /\ r.line \in 0 .. (LineRange - 1)
    BY <1>1 DEF RegsIn
  \* Where nothing is added, a register stays.
  <1>5. w = 0 => y.line = r.line
    BY <1>0, <1>2, <1>4, NothingAdded
  <1>6. (v = 0 /\ ~Fixes(i)) => y.address = r.address /\ y.op_index = r.op_index
    <2> SUFFICES ASSUME v = 0, ~Fixes(i) PROVE y.address = r.address /\ y.op_index = r.op_index
      OBVIOUS
    <2>1. (r.op_index + 0) % mo = r.op_index /\ (r.op_index + 0) \div mo = 0
      BY <1>0, <1>4, NothingAdded
    <2>2. (r.address + 0) % AddrRange = r.address
      BY <1>0, <1>4, NothingAdded
    <2>3. mi * 0 = 0
      BY <1>0
    <2> QED BY <1>2, <2>1, <2>2, <2>3
  <1>7. y = [address |-> y.address, op_index |-> y.op_index, file_idx |-> y.file_idx, line |-> y.line]
    BY <1>1 DEF RegsIn
  <1>8. r = [address |-> r.address, op_index |-> r.op_index, file_idx |-> r.file_idx, line |-> r.line]
    BY <1>1 DEF RegsIn
  <1>9. i.op # "end_sequence" => x = y
    <2>1. CASE i.op = "set_address"
      <3>1. x = [r EXCEPT !.address = i.arg % AddrRange, !.op_index = 0]
        BY <2>1 DEF Exec
      <3>2. w = 0
        BY <1>3, <2>1
      <3> QED BY <1>2, <1>5, <1>7, <1>8, <2>1, <3>1, <3>2
    <2>2. CASE i.op = "fixed_advance_pc"
      <3>1. x = [r EXCEPT !.address = (r.address + i.arg) % AddrRange, !.op_index = 0]
        BY <2>2 DEF Exec
      <3>2. w = 0
        BY <1>3, <2>2
      <3> QED BY <1>2, <1>5, <1>7, <1>8, <2>2, <3>1, <3>2
    <2>3. CASE i.op = "special"
      <3>1. v = i.arg \div unit.line_range /\ w = unit.line_base + (i.arg % unit.line_range) /\ ~Fixes(i)
        BY <1>3, <2>3 DEF Fixes
      <3>2. x = Advance(AddLine(r, w), unit, v)
        BY <2>3, <3>1 DEF Exec
      <3>3. AddLine(r, w) = [address |-> r.address, op_index |-> r.op_index, file_idx |-> r.file_idx,
                             line |-> (r.line + w) % LineRange]
        BY <1>8 DEF AddLine
      <3> DEFINE z == AddLine(r, w)
      <3> HIDE DEF z
      <3>4. /\ z.address = r.address /\ z.op_index = r.op_index /\ x = Advance(z, unit, v)
            /\ z = [address |-> r.address, op_index |-> r.op_index, file_idx |-> r.file_idx,
                    line |-> (r.line + w) % LineRange]
        BY <3>2, <3>3 DEF z
      <3>5. x = [address |-> (r.address + mi * ((r.op_index + v) \div mo)) % AddrRange,
                 op_index |-> (r.op_index + v) % mo, file_idx |-> r.file_idx,
                 line |-> (r.line + w) % LineRange]
        BY <3>4 DEF Advance
      <3> QED BY <1>2, <1>7, <2>3, <3>1, <3>5
    <2>4. CASE i.op \in {"advance_pc", "const_add_pc"}
      <3>1. x = Advance(r, unit, v) /\ w = 0 /\ ~Fixes(i)
        BY <1>3, <2>4 DEF Exec, Fixes
      <3>2. x = [address |-> (r.address + mi * ((r.op_index + v) \div mo)) % AddrRange,
                 op_index |-> (r.op_index + v) % mo, file_idx |-> r.file_idx, line |-> r.line]
        BY <1>8, <3>1 DEF Advance
      <3> QED BY <1>2, <1>5, <1>7, <2>4, <3>1, <3>2
    <2>5. CASE i.op = "advance_line"
      <3>1. x = AddLine(r, w) /\ v = 0 /\ ~Fixes(i)
        BY <1>3, <2>5 DEF Exec, Fixes
      <3>2. x = [r EXCEPT !.line = (r.line + w) % LineRange]
        BY <3>1 DEF AddLine
      <3> QED BY <1>2, <1>6, <1>7, <1>8, <2>5, <3>1, <3>2
    <2>6. CASE i.op = "set_file"
      <3>1. x = [r EXCEPT !.file_idx = i.arg] /\ v = 0 /\ w = 0 /\ ~Fixes(i)
        BY <1>3, <2>6 DEF Exec, Fixes
      <3> QED BY <1>2, <1>5, <1>6, <1>7, <1>8, <2>6, <3>1
    <2>7. CASE i.op \notin {"end_sequence", "set_address", "special", "advance_pc", "advance_line",
                            "set_file", "const_add_pc", "fixed_advance_pc"}
      <3>1. x = r /\ v = 0 /\ w = 0 /\ ~Fixes(i)
        BY <1>3, <2>7 DEF Exec, Fixes
      <3> QED BY <1>2, <1>5, <1>6, <1>7, <1>8, <2>7, <3>1
    <2> QED BY <2>1, <2>2, <2>3, <2>4, <2>5, <2>6, <2>7
  <1>10. x = RegsAt(unit, n)
    <2>1. CASE i.op = "end_sequence"
      <3>1. x = ResetRegs
        BY <2>1 DEF Exec
      <3>2. SeqStart(unit.ops, n + 1) = n
        BY <1>0, <2>1, SeqStartIs
      <3> QED BY <3>1, <3>2 DEF RegsAt
    <2>2. CASE i.op # "end_sequence"
      <3>1. SeqStart(unit.ops, n + 1) = SeqStart(unit.ops, n) /\ SeqStart(unit.ops, n) \in 0 .. (n - 1)
        BY <1>0, <2>2, SeqStartIs
      <3>2. n # SeqStart(unit.ops, n + 1)
        BY <1>0, <3>1
      <3> QED BY <1>9, <2>2, <3>2 DEF RegsAt, y
    <2> QED BY <2>1, <2>2
  <1> QED BY <1>9, <1>10 DEF r, y

-----------------------------------------------------------------------------
(* The rows are those of the matrix *)

\* t has a row for each place of Q, and no other.
RowsOf(t, s, Q) ==
    \E g \in [1 .. Len(t) -> Q] :
        /\ \A m, n \in 1 .. Len(t) : g[m] = g[n] => m = n
        /\ \A q \in Q : \E m \in 1 .. Len(t) : g[m] = q
        /\ \A m \in 1 .. Len(t) : t[m] = TableRow(s, g[m])

\* The representable places before instruction n of unit x.
Before(s, x, n) ==
    {p \in Places(s) : Representable(s, p) /\ (p[1] < x \/ (p[1] = x /\ p[2] < n))}

\* Where the parser is, it has met neither an unreadable unit nor a truncated
\* instruction, and its registers are those of the reference.
WhereInv ==
    /\ pc # "empty" => \A y \in 1 .. (u - 1) : y <= Len(sec) /\ sec[y].kind # "bad"
    /\ pc # "prog" => k = 1
    /\ pc = "prog" => /\ regs = RegsAt(sec[u], k - 1)
                      /\ \A m \in 1 .. (k - 1) : sec[u].ops[m].op # "truncated"
    /\ pc \in {"sort", "done"} => (u <= Len(sec) => sec[u].kind = "bad")

\* A table with room has a row for each representable place so far.
TableInv ==
    /\ pc = "empty" => rows = <<>>
    /\ pc = "done" => ready \/ rows = <<>>
    /\ (pc # "empty" /\ Len(rows) < RowMax) => RowsOf(rows, sec, Before(sec, u, k))

MatrixInv == WhereInv /\ TableInv

\* A place is an instruction of a reached unit.
LEMMA PlacesAre ==
    ASSUME NEW s, NEW x, NEW n
    PROVE  /\ <<x, n>> \in Places(s) <=>
                 x \in UnitsReached(s) /\ n \in Reached(s[x]) /\ s[x].ops[n].op \in {"special", "copy"}
           /\ \A p \in Places(s) : p = <<p[1], p[2]>>
  BY DEF Places

\* What a place is a place of.
LEMMA PlaceIn ==
    ASSUME NEW s, NEW p \in Places(s)
    PROVE  /\ p = <<p[1], p[2]>> /\ p[1] \in UnitsReached(s) /\ p[2] \in Reached(s[p[1]])
           /\ s[p[1]].ops[p[2]].op \in {"special", "copy"}
           /\ p[1] \in Nat \ {0} /\ p[2] \in Nat \ {0}
  <1>1. PICK x \in UnitsReached(s) : \E n \in Reached(s[x]) :
            p = <<x, n>> /\ s[x].ops[n].op \in {"special", "copy"}
    BY DEF Places
  <1>2. PICK n \in Reached(s[x]) : p = <<x, n>> /\ s[x].ops[n].op \in {"special", "copy"}
    BY <1>1
  <1>3. p[1] = x /\ p[2] = n
    BY <1>2
  <1>4. x \in Nat \ {0} /\ n \in Nat \ {0}
    BY DEF UnitsReached, Reached
  <1> QED BY <1>2, <1>3, <1>4

\* No rows, no places.
LEMMA RowsOfNone ==
    ASSUME NEW s
    PROVE  RowsOf(<<>>, s, {})
  <1>1. Len(<<>>) = 0 /\ 1 .. 0 = {}
    OBVIOUS
  <1>2. PICK g : g = [m \in 1 .. 0 |-> 0]
    OBVIOUS
  <1>3. g \in [1 .. 0 -> {}]
    BY <1>1, <1>2
  <1> QED BY <1>1, <1>3 DEF RowsOf

\* A row more, a place more.
LEMMA RowsOfMore ==
    ASSUME NEW E, NEW t \in Seq(E), NEW e \in E, NEW s, NEW Q, RowsOf(t, s, Q), NEW p, p \notin Q,
           e = TableRow(s, p)
    PROVE  RowsOf(Append(t, e), s, Q \cup {p})
  <1> DEFINE L == Len(t)
             a == Append(t, e)
  <1>1. L \in Nat /\ Len(a) = L + 1 /\ a[L + 1] = e /\ \A m \in 1 .. L : a[m] = t[m]
    BY LenProperties, AppendProperties
  <1>2. PICK g \in [1 .. L -> Q] :
            /\ \A m, n \in 1 .. L : g[m] = g[n] => m = n
            /\ \A q \in Q : \E m \in 1 .. L : g[m] = q
            /\ \A m \in 1 .. L : t[m] = TableRow(s, g[m])
    BY DEF RowsOf
  <1> DEFINE h == [m \in 1 .. (L + 1) |-> IF m = L + 1 THEN p ELSE g[m]]
  <1> HIDE DEF L, a
  <1>3. /\ h \in [1 .. (L + 1) -> Q \cup {p}] /\ h[L + 1] = p /\ \A m \in 1 .. L : h[m] = g[m]
        /\ \A m \in 1 .. L : g[m] \in Q
    <2>1. \A m \in 1 .. (L + 1) : m # L + 1 => m \in 1 .. L
      BY <1>1
    <2>2. L + 1 \in 1 .. (L + 1) /\ \A m \in 1 .. L : m \in 1 .. (L + 1) /\ m # L + 1
      BY <1>1
    <2> QED BY <1>2, <2>1, <2>2
  <1> HIDE DEF h
  <1>4. \A m \in 1 .. (L + 1) : m = L + 1 \/ m \in 1 .. L
    BY <1>1
  <1>5. \A m, n \in 1 .. (L + 1) : h[m] = h[n] => m = n
    BY <1>2, <1>3, <1>4
  <1>6. \A q \in Q \cup {p} : \E m \in 1 .. (L + 1) : h[m] = q
    <2>1. \A m \in 1 .. L : m \in 1 .. (L + 1)
      BY <1>1
    <2>2. L + 1 \in 1 .. (L + 1)
      BY <1>1
    <2> QED BY <1>2, <1>3, <2>1, <2>2
  <1>7. \A m \in 1 .. (L + 1) : a[m] = TableRow(s, h[m])
    BY <1>1, <1>2, <1>3, <1>4
  <1> QED BY <1>1, <1>3, <1>5, <1>6, <1>7 DEF RowsOf, a

\* The order of the rows does not matter.
LEMMA RowsOfSorted ==
    ASSUME NEW E, NEW t \in Seq(E), \A e \in E : e.addr \in Int, NEW s, NEW Q, RowsOf(t, s, Q),
           NEW z \in Sortings(t)
    PROVE  RowsOf(z, s, Q)
  <1> DEFINE L == Len(t)
  <1>1. L \in Nat /\ Len(z) = L
    BY LenProperties, SortingsSorted
  <1>2. PICK p \in [1 .. L -> 1 .. L] :
            /\ \A m, n \in 1 .. L : p[m] = p[n] => m = n
            /\ \A m \in 1 .. L : z[m] = t[p[m]]
    BY DEF Sortings
  <1>3. PICK g \in [1 .. L -> Q] :
            /\ \A m, n \in 1 .. L : g[m] = g[n] => m = n
            /\ \A q \in Q : \E m \in 1 .. L : g[m] = q
            /\ \A m \in 1 .. L : t[m] = TableRow(s, g[m])
    BY DEF RowsOf
  <1> HIDE DEF L
  <1>4. \A y \in 1 .. L : \E m \in 1 .. L : p[m] = y
    <2>1. p \in Injection(1 .. L, 1 .. L)
      BY <1>2, Fun_IsInj
    <2>2. IsFiniteSet(1 .. L)
      BY <1>1, FS_Interval
    <2>3. p \in Surjection(1 .. L, 1 .. L)
      BY <2>1, <2>2, FS_Injection
    <2> QED BY <2>3 DEF Surjection
  <1> DEFINE h == [m \in 1 .. L |-> g[p[m]]]
  <1>5. h \in [1 .. L -> Q] /\ \A m \in 1 .. L : h[m] = g[p[m]] /\ p[m] \in 1 .. L
    BY <1>2, <1>3
  <1> HIDE DEF h
  <1>6. \A m, n \in 1 .. L : h[m] = h[n] => m = n
    BY <1>2, <1>3, <1>5
  <1>7. \A q \in Q : \E m \in 1 .. L : h[m] = q
    BY <1>3, <1>4, <1>5
  <1>8. \A m \in 1 .. L : z[m] = TableRow(s, h[m])
    BY <1>2, <1>3, <1>5
  <1> QED BY <1>1, <1>5, <1>6, <1>7, <1>8 DEF RowsOf

\* The places that the parser has passed, at its start, ...
LEMMA BeforeStart ==
    ASSUME NEW s, Len(s) \in Nat
    PROVE  Before(s, 1, 1) = {}
  <1> SUFFICES ASSUME NEW p \in Before(s, 1, 1) PROVE FALSE
    OBVIOUS
  <1>1. p \in Places(s) /\ (p[1] < 1 \/ (p[1] = 1 /\ p[2] < 1))
    BY DEF Before
  <1>2. p[1] \in Nat \ {0} /\ p[2] \in Nat \ {0}
    BY <1>1, PlaceIn
  <1> QED BY <1>1, <1>2

\* ... after an instruction, ...
LEMMA BeforeStep ==
    ASSUME NEW s, NEW x \in UnitsReached(s), NEW n \in Reached(s[x])
    PROVE  /\ <<x, n>> \notin Before(s, x, n)
           /\ (s[x].ops[n].op \in {"special", "copy"} /\ Representable(s, <<x, n>>)) =>
                 Before(s, x, n + 1) = Before(s, x, n) \cup {<<x, n>>}
           /\ ~(s[x].ops[n].op \in {"special", "copy"} /\ Representable(s, <<x, n>>)) =>
                 Before(s, x, n + 1) = Before(s, x, n)
  <1>1. x \in Nat \ {0} /\ n \in Nat \ {0}
    BY DEF UnitsReached, Reached
  <1>2. ASSUME NEW p \in Places(s)
        PROVE  p = <<p[1], p[2]>> /\ p[1] \in Nat /\ p[2] \in Nat
               /\ s[p[1]].ops[p[2]].op \in {"special", "copy"}
    BY PlaceIn
  <1>3. <<x, n>> \in Places(s) <=> s[x].ops[n].op \in {"special", "copy"}
    BY PlacesAre
  <1>4. ASSUME NEW p
        PROVE  p \in Before(s, x, n + 1) <=>
                  \/ p \in Before(s, x, n)
                  \/ p = <<x, n>> /\ <<x, n>> \in Places(s) /\ Representable(s, <<x, n>>)
    <2>1. CASE p \in Places(s)
      <3>1. (p[1] = x /\ p[2] < n + 1) <=> ((p[1] = x /\ p[2] < n) \/ p = <<x, n>>)
        <4>1. p[2] < n + 1 <=> (p[2] < n \/ p[2] = n)
          BY <1>1, <1>2, <2>1
        <4> QED BY <1>2, <2>1, <4>1
      <3>2. p = <<x, n>> => ~(p[1] < x)
        BY <1>1
      <3> QED BY <2>1, <3>1 DEF Before
    <2>2. CASE p \notin Places(s)
      BY <2>2 DEF Before
    <2> QED BY <2>1, <2>2
  <1>5. <<x, n>> \notin Before(s, x, n)
    BY <1>1 DEF Before
  <1> QED BY <1>3, <1>4, <1>5

\* ... after a unit ...
LEMMA BeforeUnit ==
    ASSUME NEW s, NEW x \in Nat, NEW n \in Nat,
           \A m : <<x, m>> \in Places(s) => m < n
    PROVE  Before(s, x + 1, 1) = Before(s, x, n)
  <1>1. ASSUME NEW p \in Places(s)
        PROVE  p = <<p[1], p[2]>> /\ p[1] \in Nat \ {0} /\ p[2] \in Nat \ {0}
    BY PlaceIn
  <1>2. ASSUME NEW p \in Places(s)
        PROVE  (p[1] < x + 1 \/ (p[1] = x + 1 /\ p[2] < 1)) <=> (p[1] < x \/ (p[1] = x /\ p[2] < n))
    <2>1. p[1] \in Nat \ {0} /\ p[2] \in Nat \ {0} /\ p = <<p[1], p[2]>>
      BY <1>1
    <2>2. p[1] = x => p[2] < n
      BY <2>1
    <2> QED BY <2>1, <2>2
  <1> QED BY <1>2 DEF Before

\* ... and at the end.
LEMMA BeforeAll ==
    ASSUME NEW s, Len(s) \in Nat, NEW x \in Nat \ {0}, x <= Len(s) => s[x].kind = "bad"
    PROVE  Before(s, x, 1) = {p \in Places(s) : Representable(s, p)}
  <1>1. ASSUME NEW p \in Places(s) PROVE p[1] < x
    <2>1. p[1] \in UnitsReached(s) /\ p[1] \in Nat
      BY PlaceIn
    <2>2. p[1] <= Len(s) /\ \A y \in 1 .. p[1] : s[y].kind # "bad"
      BY <2>1 DEF UnitsReached
    <2>3. x \in 1 .. p[1] => FALSE
      <3> SUFFICES ASSUME x \in 1 .. p[1] PROVE FALSE
        OBVIOUS
      <3>1. x <= Len(s)
        BY <2>1, <2>2
      <3> QED BY <2>2, <3>1
    <2> QED BY <2>1, <2>3
  <1> QED BY <1>1 DEF Before

\* The invariant holds of a table that was never filled, ...
LEMMA MatrixInit == Init => MatrixInv
  BY DEF Init, MatrixInv, WhereInv, TableInv

\* ... when a section is taken up, ...
LEMMA MatrixParse ==
    ASSUME Inv, MatrixInv, NEW s \in Sections, Parse(s)
    PROVE  MatrixInv'
  <1>1. pc' = "unit" /\ sec' = s /\ u' = 1 /\ k' = 1 /\ rows' = <<>>
    BY DEF Parse, MatrixInv, TableInv
  <1>2. RowsOf(<<>>, s, Before(s, 1, 1))
    BY RowsOfNone, BeforeStart, SectionsAssumption
  <1>3. WhereInv'
    BY <1>1 DEF WhereInv
  <1>4. TableInv'
    BY <1>1, <1>2 DEF TableInv
  <1> QED BY <1>3, <1>4 DEF MatrixInv

\* ... from unit to unit, ...
LEMMA MatrixNextUnit ==
    ASSUME Inv, MatrixInv, UnitSkip \/ ProgEnd
    PROVE  MatrixInv'
  <1>1. /\ u' = u + 1 /\ k' = 1 /\ pc' = "unit" /\ UNCHANGED <<sec, rows>>
        /\ pc \in {"unit", "prog"} /\ u <= Len(sec) /\ sec[u].kind # "bad"
    BY DEF UnitSkip, ProgEnd, NextUnit, Inv, ProgInv
  <1>2. /\ sec \in Sections /\ Len(sec) \in Nat /\ u \in Nat \ {0} /\ k \in Nat \ {0}
    BY <1>1, SectionsAssumption DEF Inv, TypeOK, ProgInv
  <1>3. WhereInv'
    <2>1. \A y \in 1 .. (u - 1) : y <= Len(sec) /\ sec[y].kind # "bad"
      BY <1>1 DEF MatrixInv, WhereInv
    <2>2. \A y \in 1 .. ((u + 1) - 1) : y <= Len(sec) /\ sec[y].kind # "bad"
      <3>1. \A y \in 1 .. ((u + 1) - 1) : y = u \/ y \in 1 .. (u - 1)
        BY <1>2
      <3> QED BY <1>1, <2>1, <3>1
    <2> QED BY <1>1, <2>2 DEF WhereInv
  <1>4. ASSUME NEW m, <<u, m>> \in Places(sec) PROVE m < k
    <2>1. u \in UnitsReached(sec) /\ m \in Reached(sec[u])
      BY <1>4, PlacesAre
    <2>2. sec[u].kind = "line"
      BY <2>1 DEF UnitsReached
    <2>3. ProgEnd /\ UnitOk(sec[u])
      <3>1. ~UnitSkip
        BY <2>2 DEF UnitSkip
      <3>2. u \in 1 .. Len(sec)
        BY <1>1, <1>2
      <3> QED BY <1>2, <2>2, <3>1, <3>2, SectionsAssumption
    <2>4. Len(sec[u].ops) \in Nat
      BY <2>3 DEF UnitOk
    <2>5. m \in 1 .. Len(sec[u].ops) /\ \A y \in 1 .. m : sec[u].ops[y].op # "truncated"
      BY <2>1 DEF Reached
    <2>6. k <= Len(sec[u].ops) => sec[u].ops[k].op = "truncated"
      BY <2>3 DEF ProgEnd
    <2>7. k \notin 1 .. m
      <3> SUFFICES ASSUME k \in 1 .. m PROVE FALSE
        OBVIOUS
      <3>1. k <= Len(sec[u].ops)
        BY <1>2, <2>4, <2>5
      <3> QED BY <2>5, <2>6, <3>1
    <2> QED BY <1>2, <2>5, <2>7
  <1>5. Before(sec, u + 1, 1) = Before(sec, u, k)
    BY <1>2, <1>4, BeforeUnit
  <1>6. TableInv'
    <2>1. Len(rows) < RowMax => RowsOf(rows, sec, Before(sec, u, k))
      BY <1>1 DEF MatrixInv, TableInv
    <2> QED BY <1>1, <1>5, <2>1 DEF TableInv
  <1> QED BY <1>3, <1>6 DEF MatrixInv

\* ... where the parse ends, where a program begins, ...
LEMMA MatrixUnit ==
    ASSUME Inv, MatrixInv, UnitStop \/ UnitBegin
    PROVE  MatrixInv'
  <1>1. pc = "unit" /\ UNCHANGED <<sec, u, k, rows>> /\ k = 1
    BY DEF UnitStop, UnitBegin, MatrixInv, WhereInv
  <1>2. TableInv'
    <2>1. pc' \in {"sort", "prog"}
      BY DEF UnitStop, UnitBegin
    <2> QED BY <1>1, <2>1 DEF MatrixInv, TableInv
  <1>3. CASE UnitStop
    BY <1>1, <1>2, <1>3 DEF UnitStop, MatrixInv, WhereInv
  <1>4. CASE UnitBegin
    <2>1. regs' = ResetRegs /\ pc' = "prog"
      BY <1>4 DEF UnitBegin
    <2>2. RegsAt(sec[u], 0) = ResetRegs
      <3>1. SeqStart(sec[u].ops, 1) = 0
        BY SeqStartIs
      <3> QED BY <3>1 DEF RegsAt
    <2>3. 1 - 1 = 0 /\ 1 .. 0 = {}
      OBVIOUS
    <2> QED BY <1>1, <1>2, <2>1, <2>2, <2>3 DEF MatrixInv, WhereInv
  <1> QED BY <1>3, <1>4

\* ... with each instruction, ...
LEMMA MatrixStep ==
    ASSUME Inv, MatrixInv, ProgStep
    PROVE  MatrixInv'
  <1> DEFINE unit == sec[u]
             i == unit.ops[k]
             r == Exec(regs, unit, i)
             p == <<u, k>>
             e == [addr |-> r.address, file |-> unit.files[r.file_idx], line |-> r.line]
  <1>1. /\ pc = "prog" /\ UNCHANGED <<pc, sec, u>> /\ k' = k + 1 /\ regs' = r
        /\ rows' = (IF i.op \in {"special", "copy"} THEN bw_emit(rows, r, unit) ELSE rows)
        /\ i.op # "truncated" /\ k <= Len(unit.ops)
    BY DEF ProgStep
  <1>2. sec \in Sections /\ u \in 1 .. Len(sec) /\ unit.kind = "line" /\ Len(sec) \in Nat
    BY <1>1, SectionsAssumption DEF Inv, ProgInv
  <1>3. UnitOk(unit) /\ Len(unit.ops) \in Nat
    BY <1>2, SectionsAssumption DEF UnitOk
  <1>4. k \in Nat /\ k \in 1 .. Len(unit.ops) /\ u \in Nat \ {0}
    BY <1>1, <1>2, <1>3 DEF Inv, ProgInv, TypeOK
  <1>5. regs = RegsAt(unit, k - 1) /\ \A m \in 1 .. (k - 1) : unit.ops[m].op # "truncated"
    BY <1>1 DEF MatrixInv, WhereInv
  <1>6. r = RegsAt(unit, k) /\ (i.op # "end_sequence" => r = Registers(unit, k))
    BY <1>3, <1>4, <1>5, ExecFollows
  <1>7. \A m \in 1 .. k : unit.ops[m].op # "truncated"
    <2>1. \A m \in 1 .. k : m = k \/ m \in 1 .. (k - 1)
      BY <1>4
    <2> QED BY <1>1, <1>5, <2>1
  <1>8. u \in UnitsReached(sec) /\ k \in Reached(unit)
    <2>1. \A y \in 1 .. (u - 1) : sec[y].kind # "bad"
      BY <1>1 DEF MatrixInv, WhereInv
    <2>2. \A y \in 1 .. u : y = u \/ y \in 1 .. (u - 1)
      BY <1>4
    <2>3. \A y \in 1 .. u : sec[y].kind # "bad"
      BY <1>2, <2>1, <2>2
    <2> QED BY <1>2, <1>4, <1>7, <2>3 DEF UnitsReached, Reached
  <1>9. WhereInv'
    <2>1. (k + 1) - 1 = k
      BY <1>4
    <2> QED BY <1>1, <1>6, <1>7, <2>1 DEF MatrixInv, WhereInv
  <1>10. i.op \in {"special", "copy"} =>
             /\ EmitOk(r, unit) <=> Representable(sec, p)
             /\ e = TableRow(sec, p)
    <2> SUFFICES ASSUME i.op \in {"special", "copy"}
                 PROVE  (EmitOk(r, unit) <=> Representable(sec, p)) /\ e = TableRow(sec, p)
      OBVIOUS
    <2>1. r = Registers(unit, k)
      BY <1>6
    <2> HIDE DEF r
    <2>2. /\ r.address = AddressAt(unit, k) /\ r.file_idx = FileAt(unit, k)
          /\ r.line = LineAt(unit, k)
      BY <2>1 DEF Registers
    <2>3. RowAt(sec, p) = [addr |-> r.address, file |-> r.file_idx, line |-> r.line]
      BY <2>2 DEF RowAt
    <2> QED BY <2>3 DEF Representable, EmitOk, TableRow
  <1>11. TableInv'
    <2> SUFFICES ASSUME Len(rows') < RowMax
                 PROVE  RowsOf(rows', sec, Before(sec, u, k + 1))
      BY <1>1 DEF TableInv
    <2>1. rows \in Seq(RowT) /\ Len(rows) <= RowMax
      BY DEF Inv, TypeOK, RowsInv
    <2>2. r \in RegsT
      BY <1>2, <1>3, <1>4, ExecType DEF Inv, TypeOK, RegsT, UnitOk
    <2>3. CASE i.op \in {"special", "copy"} /\ EmitOk(r, unit) /\ Room(rows)
      <3>1. rows' = Append(rows, e)
        BY <1>1, <2>3 DEF bw_emit
      <3>2. e \in RowT
        <4>1. unit.files[r.file_idx] \in Names
          BY <1>2, <2>3 DEF EmitOk, Names
        <4> QED BY <2>2, <2>3, <4>1 DEF EmitOk, RowT, RegsT
      <3>3. RowsOf(rows, sec, Before(sec, u, k))
        BY <1>1, <2>3 DEF MatrixInv, TableInv, Room
      <3>4. Before(sec, u, k + 1) = Before(sec, u, k) \cup {p} /\ p \notin Before(sec, u, k)
        BY <1>8, <1>10, <2>3, BeforeStep
      <3> HIDE DEF e, p
      <3> QED BY <1>10, <2>1, <2>3, <3>1, <3>2, <3>3, <3>4, RowsOfMore
    <2>4. CASE ~(i.op \in {"special", "copy"} /\ EmitOk(r, unit))
      <3>1. rows' = rows
        BY <1>1, <2>4 DEF bw_emit
      <3>2. RowsOf(rows, sec, Before(sec, u, k))
        BY <1>1, <3>1 DEF MatrixInv, TableInv
      <3>3. Before(sec, u, k + 1) = Before(sec, u, k)
        BY <1>8, <1>10, <2>4, BeforeStep
      <3> QED BY <3>1, <3>2, <3>3
    \* A full table stays full.
    <2>5. CASE ~Room(rows)
      BY <1>1, <2>5 DEF bw_emit, Room
    <2> QED BY <2>3, <2>4, <2>5
  <1> QED BY <1>9, <1>11 DEF MatrixInv

\* ... through the sort, and when the table is given up.
LEMMA MatrixFinish ==
    ASSUME Inv, MatrixInv, Finish \/ bw_dwarf_tab_reset
    PROVE  MatrixInv'
  <1>1. CASE Finish
    <2>1. UNCHANGED <<sec, u, k>> /\ pc = "sort" /\ pc' = "done"
      BY <1>1 DEF Finish
    <2>2. WhereInv'
      BY <2>1 DEF MatrixInv, WhereInv
    <2>3. Len(rows) < RowMax => RowsOf(rows, sec, Before(sec, u, k))
      BY <2>1 DEF MatrixInv, TableInv
    <2>4. CASE rows = <<>>
      <3>1. rows' = rows
        BY <1>1, <2>4 DEF Finish
      <3> QED BY <2>1, <2>2, <2>3, <2>4, <3>1 DEF MatrixInv, TableInv
    <2>5. CASE rows # <<>>
      <3>1. ready' = TRUE /\ rows' \in Sortings(rows)
        BY <1>1, <2>5 DEF Finish
      <3>2. \A e \in RowT : e.addr \in Int
        BY DEF RowT
      <3>3. rows \in Seq(RowT)
        BY DEF Inv, RowsInv
      <3>4. Len(rows') = Len(rows)
        BY <3>1, <3>2, <3>3, SortingsSorted
      <3>5. Len(rows) < RowMax => RowsOf(rows', sec, Before(sec, u, k))
        BY <2>3, <3>1, <3>2, <3>3, RowsOfSorted
      <3> QED BY <2>1, <2>2, <3>1, <3>4, <3>5 DEF MatrixInv, TableInv
    <2> QED BY <2>4, <2>5
  <1>2. CASE bw_dwarf_tab_reset
    BY <1>2 DEF bw_dwarf_tab_reset, MatrixInv, WhereInv, TableInv
  <1> QED BY <1>1, <1>2

\* The table of rows is that of the reference throughout the parse.
THEOREM MatrixInvariance == Spec => []MatrixInv
  <1>1. Inv /\ MatrixInv /\ [Next]_vars => MatrixInv'
    <2> SUFFICES ASSUME Inv, MatrixInv, [Next]_vars PROVE MatrixInv'
      OBVIOUS
    <2>1. CASE UNCHANGED vars
      BY <2>1 DEF vars, MatrixInv, WhereInv, TableInv
    <2> QED BY <2>1, MatrixParse, MatrixNextUnit, MatrixUnit, MatrixStep, MatrixFinish DEF Next
  <1> QED BY MatrixInit, Invariance, <1>1, PTL DEF Spec

\* The rows e of t, and the places of Q whose row is e.
RowsLike(t, e) == {m \in 1 .. Len(t) : t[m] = e}

PlacesLike(s, Q, e) == {q \in Q : TableRow(s, q) = e}

\* As many rows as places, and of each row as many as there are places for it.
LEMMA RowsCounted ==
    ASSUME NEW t, Len(t) \in Nat, NEW s, NEW Q, RowsOf(t, s, Q), NEW e
    PROVE  /\ Len(t) = Cardinality(Q)
           /\ Cardinality(RowsLike(t, e)) = Cardinality(PlacesLike(s, Q, e))
  <1> DEFINE L == Len(t)
             M == {m \in 1 .. L : t[m] = e}
             P == {q \in Q : TableRow(s, q) = e}
  <1>1. PICK g \in [1 .. L -> Q] :
            /\ \A m, n \in 1 .. L : g[m] = g[n] => m = n
            /\ \A q \in Q : \E m \in 1 .. L : g[m] = q
            /\ \A m \in 1 .. L : t[m] = TableRow(s, g[m])
    BY DEF RowsOf
  <1> HIDE DEF L
  <1>2. L \in Nat
    BY DEF L
  <1>3. L = Cardinality(Q)
    <2>1. g \in Bijection(1 .. L, Q)
      BY <1>1, Fun_IsBij
    <2>2. ExistsBijection(1 .. L, Q)
      BY <2>1, Fun_ExistsBij
    <2> QED BY <1>2, <2>2, FS_CountingElements
  <1>4. Cardinality(M) = Cardinality(P)
    <2> DEFINE h == [m \in M |-> g[m]]
    <2>1. h \in [M -> P] /\ \A m \in M : h[m] = g[m]
      BY <1>1
    <2>2. \A m, n \in M : h[m] = h[n] => m = n
      BY <1>1, <2>1
    <2>3. \A q \in P : \E m \in M : h[m] = q
      <3> SUFFICES ASSUME NEW q \in P PROVE \E m \in M : h[m] = q
        OBVIOUS
      <3>1. PICK m \in 1 .. L : g[m] = q
        BY <1>1
      <3>2. m \in M
        BY <1>1, <3>1
      <3> QED BY <2>1, <3>1, <3>2
    <2> HIDE DEF h
    <2>4. h \in Bijection(M, P)
      BY <2>1, <2>2, <2>3, Fun_IsBij
    <2>5. ExistsBijection(M, P)
      BY <2>4, Fun_ExistsBij
    <2>6. IsFiniteSet(1 .. L)
      BY <1>2, FS_Interval
    <2>7. M \in SUBSET (1 .. L)
      OBVIOUS
    <2> HIDE DEF M, P
    <2>8. IsFiniteSet(M)
      BY <2>6, <2>7, FS_Subset
    <2> QED BY <2>5, <2>8, FS_Bijection
  <1> QED BY <1>3, <1>4 DEF L, RowsLike, PlacesLike

\* When the parse is over, the parser has passed every place.
LEMMA DoneRows ==
    ASSUME Inv, MatrixInv, pc = "done", Len(rows) < RowMax
    PROVE  /\ RowsOf(rows, sec, {p \in Places(sec) : Representable(sec, p)})
           /\ Len(rows) \in Nat /\ \A m \in 1 .. Len(rows) : rows[m] \in RowT
           /\ \A x \in 1 .. Len(sec) : sec[x].kind = "line" => UnitOk(sec[x])
           /\ ready \/ rows = <<>>
  <1>1. sec \in Sections /\ u \in Nat \ {0} /\ rows \in Seq(RowT)
    BY DEF Inv, TypeOK, ProgInv, RowsInv
  <1>2. Len(sec) \in Nat /\ \A x \in 1 .. Len(sec) : sec[x].kind = "line" => UnitOk(sec[x])
    BY <1>1, SectionsAssumption
  <1>3. u <= Len(sec) => sec[u].kind = "bad"
    BY DEF MatrixInv, WhereInv
  <1>4. RowsOf(rows, sec, Before(sec, u, 1))
    BY DEF MatrixInv, WhereInv, TableInv
  <1>5. ready \/ rows = <<>>
    BY DEF MatrixInv, TableInv
  <1> QED BY <1>1, <1>2, <1>3, <1>4, <1>5, BeforeAll, LenProperties, ElementOfSeq

\* Whatever section is parsed, and whatever was parsed before it, the table is
\* the line number matrix: row by row what DWARF says the instructions mean.
THEOREM RowsExact == Spec => []RowsAreMatrix
  <1>1. Inv /\ MatrixInv => RowsAreMatrix
    <2> SUFFICES ASSUME Inv, MatrixInv, pc = "done", Len(rows) < RowMax
                 PROVE  LET ps == {p \in Places(sec) : Representable(sec, p)}
                        IN  /\ Len(rows) = Cardinality(ps)
                            /\ \A p \in ps :
                                  Cardinality({m \in 1 .. Len(rows) : rows[m] = TableRow(sec, p)}) =
                                  Cardinality({q \in ps : TableRow(sec, q) = TableRow(sec, p)})
      BY DEF RowsAreMatrix
    <2> DEFINE ps == {p \in Places(sec) : Representable(sec, p)}
    <2>1. RowsOf(rows, sec, ps) /\ Len(rows) \in Nat
      BY DoneRows
    <2> HIDE DEF ps
    <2>2. Len(rows) = Cardinality(ps)
      BY <2>1, RowsCounted
    <2>3. ASSUME NEW p \in ps
          PROVE  Cardinality({m \in 1 .. Len(rows) : rows[m] = TableRow(sec, p)}) =
                 Cardinality({q \in ps : TableRow(sec, q) = TableRow(sec, p)})
      <3>1. PICK e : e = TableRow(sec, p)
        OBVIOUS
      <3>2. Cardinality(RowsLike(rows, e)) = Cardinality(PlacesLike(sec, ps, e))
        BY <2>1, RowsCounted
      <3> QED BY <3>1, <3>2 DEF RowsLike, PlacesLike
    <2> QED BY <2>2, <2>3 DEF ps
  <1> QED BY <1>1, Invariance, MatrixInvariance, PTL

\* The addresses of the reference are numbers.
LEMMA AddressesAre ==
    ASSUME NEW s, NEW p \in Places(s), UnitOk(s[p[1]])
    PROVE  RowAt(s, p).addr \in Nat /\ EndOf(s, p) \in Nat
  <1> DEFINE unit == s[p[1]]
             ends == {n \in Reached(unit) : n > p[2] /\ unit.ops[n].op = "end_sequence"}
  <1>1. ASSUME NEW n \in Reached(unit) PROVE AddressAt(unit, n) \in Nat
    <2>1. n \in 0 .. Len(unit.ops) /\ Len(unit.ops) \in Nat
      BY DEF Reached, UnitOk
    <2>2. AddressAt(unit, n) = Located(unit)[n] % AddrRange /\ Located(unit)[n] \in Int
      BY <2>1, LocatedIs
    <2>3. AddrRange \in Nat \ {0}
      BY TableAssumption
    <2>4. AddressAt(unit, n) \in 0 .. (AddrRange - 1)
      BY <2>2, <2>3, DivMod
    <2> QED BY <2>3, <2>4
  <1>2. RowAt(s, p).addr = AddressAt(unit, p[2]) /\ p[2] \in Reached(unit)
    BY PlaceIn DEF RowAt
  <1>3. EndOf(s, p) = IF ends = {} THEN 0 ELSE AddressAt(unit, Min(ends))
    BY DEF EndOf
  <1>4. ends # {} => Min(ends) \in ends
    <2>1. ends \in SUBSET Nat
      BY DEF Reached
    <2> HIDE DEF ends
    <2>2. ends # {} => \E x \in ends : \A y \in ends : x <= y
      BY <2>1, LeastOf
    <2> QED BY <2>2 DEF Min
  <1>5. ends \subseteq Reached(unit)
    OBVIOUS
  <1> HIDE DEF ends
  <1> QED BY <1>1, <1>2, <1>3, <1>4, <1>5

\* bw_dwarf_tab_lookup answers an address that a row covers with a row of the
\* same address, in every program whose sequences do not overlap.
THEOREM CoveredLookup == Spec => []CoveredFound
  <1>1. Inv /\ MatrixInv => CoveredFound
    <2> SUFFICES ASSUME Inv, MatrixInv, pc = "done", Len(rows) < RowMax, WellFormed(sec),
                        NEW p \in Places(sec), NEW a \in 0 .. (AddrRange - 1),
                        Covers(sec, p, a), Representable(sec, p)
                 PROVE  \E r \in bw_dwarf_tab_lookup(rows, a) : r.addr = RowAt(sec, p).addr
      BY DEF CoveredFound
    <2> DEFINE ps == {q \in Places(sec) : Representable(sec, q)}
               below == {m \in 1 .. Len(rows) : rows[m].addr <= a}
    <2>1. /\ RowsOf(rows, sec, ps) /\ Len(rows) \in Nat
          /\ \A m \in 1 .. Len(rows) : rows[m] \in RowT /\ rows[m].addr \in Int
          /\ \A x \in 1 .. Len(sec) : sec[x].kind = "line" => UnitOk(sec[x])
          /\ ready \/ rows = <<>>
      BY DoneRows DEF RowT
    <2>2. a \in Int /\ AddrRange \in Nat
      BY TableAssumption
    <2>3. PICK g \in [1 .. Len(rows) -> ps] :
              /\ \A q \in ps : \E m \in 1 .. Len(rows) : g[m] = q
              /\ \A m \in 1 .. Len(rows) : rows[m] = TableRow(sec, g[m])
      BY <2>1 DEF RowsOf
    <2>4. \A q : TableRow(sec, q).addr = RowAt(sec, q).addr
      BY DEF TableRow, RowAt
    <2>5. ASSUME NEW q \in Places(sec)
          PROVE  RowAt(sec, q).addr \in Nat /\ EndOf(sec, q) \in Nat
      <3>1. q[1] \in UnitsReached(sec)
        BY PlaceIn
      <3>2. UnitOk(sec[q[1]])
        BY <2>1, <3>1 DEF UnitsReached
      <3> QED BY <3>2, AddressesAre
    \* The row of p is in the table, at or below a ...
    <2>6. PICK m \in 1 .. Len(rows) : g[m] = p
      BY <2>3
    <2>7. rows[m].addr = RowAt(sec, p).addr /\ RowAt(sec, p).addr <= a
      BY <2>3, <2>4, <2>6 DEF Covers
    <2>8. m \in below
      BY <2>7
    \* ... so that the search finds some row, no lower.
    <2>9. Sorted(rows) /\ Table(rows)
      <3>1. rows # <<>>
        BY <2>6
      <3>2. ready
        BY <2>1, <3>1
      <3>3. Sorted(rows)
        BY <3>2 DEF Inv, RowsInv
      <3> QED BY <2>1, <3>3 DEF Table
    <2> DEFINE x == LastAtOrBelow(rows, a)
    <2>10. x \in below /\ \A n \in below : n <= x
      <3>1. below \in SUBSET (0 .. Len(rows))
        OBVIOUS
      <3>2. x = CHOOSE n \in below : \A y \in below : y <= n
        BY <2>8 DEF LastAtOrBelow
      <3> HIDE DEF below, x
      <3>3. \E n \in below : \A y \in below : y <= n
        BY <2>1, <2>8, <3>1, GreatestOf
      <3> QED BY <3>2, <3>3
    <2>11. x \in 1 .. Len(rows) /\ rows[x].addr <= a /\ m <= x /\ x \in Int
      BY <2>8, <2>10
    <2>12. bw_dwarf_tab_lookup(rows, a) = {rows[x]}
      <3>1. Search(rows, a) = x - 1
        BY <2>2, <2>9, SearchFinds
      <3>2. x - 1 # -1 /\ (x - 1) + 1 = x
        BY <2>11
      <3> HIDE DEF x
      <3> QED BY <3>1, <3>2 DEF bw_dwarf_tab_lookup
    <2>13. rows[m].addr <= rows[x].addr
      BY <2>9, <2>11 DEF Sorted
    <2> DEFINE q == g[x]
    <2>14. q \in Places(sec) /\ rows[x].addr = RowAt(sec, q).addr
      BY <2>3, <2>4, <2>11
    <2> HIDE DEF x, q, ps, below
    <2> DEFINE A == RowAt(sec, p).addr
               B == RowAt(sec, q).addr
    <2>15. A \in Nat /\ B \in Nat /\ EndOf(sec, p) \in Nat /\ A <= B /\ B <= a /\ a < EndOf(sec, p)
      BY <2>5, <2>7, <2>11, <2>13, <2>14 DEF Covers
    <2>16. B = A
      <3> SUFFICES ASSUME A < B PROVE FALSE
        BY <2>15
      <3>1. B < EndOf(sec, p) /\ ~(B > a)
        BY <2>2, <2>15
      <3>2. q \in SequenceOf(sec, p)
        BY <2>14, <3>1 DEF WellFormed
      <3>3. q[1] = p[1] /\ p \in SequenceOf(sec, q)
        BY <3>2 DEF SequenceOf
      <3>4. p[2] \in Nat /\ q[2] \in Nat /\ p = <<p[1], p[2]>> /\ q = <<q[1], q[2]>>
        BY <2>14, PlaceIn
      <3>5. ~(q[2] > p[2])
        BY <3>1, <3>2 DEF Covers
      <3>6. ~(p[2] > q[2])
        <4> SUFFICES ASSUME p[2] > q[2] PROVE FALSE
          OBVIOUS
        <4>1. A >= B
          BY <2>14, <3>3 DEF WellFormed
        <4> QED BY <2>15, <4>1
      <3>7. p[2] = q[2]
        BY <3>4, <3>5, <3>6
      <3>8. p = q
        BY <3>3, <3>4, <3>7
      <3> QED BY <2>15, <3>8
    <2> QED BY <2>12, <2>14, <2>16
  <1> QED BY <1>1, Invariance, MatrixInvariance, PTL
==============================================================================
