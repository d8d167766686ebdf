--------------------------- MODULE DwarfReference ---------------------------
(***************************************************************************)
(* What a line number program means, in closed form and without running    *)
(* it, to hold DwarfLine against.  The registers at an instruction follow  *)
(* from the instructions between the start of its sequence and itself.     *)
(***************************************************************************)
EXTENDS DwarfLine, FiniteSetsExt

\* The last instruction before n that ends a sequence, or 0.
SeqStart(ops, n) == Max({0} \cup {m \in 1 .. (n - 1) : ops[m].op = "end_sequence"})

\* The instructions of n's sequence, up to n.
SoFar(ops, n) == (SeqStart(ops, n) + 1) .. n

\* The sum of v[a + 1] to v[b].
Between(v, a, b) ==
    LET sum[n \in 0 .. Len(v)] == IF n = 0 THEN 0 ELSE sum[n - 1] + v[n]
    IN  sum[b] - sum[a]

OpAdvances(unit) == [m \in 1 .. Len(unit.ops) |->
    CASE unit.ops[m].op = "special"      -> unit.ops[m].arg \div unit.line_range
      [] unit.ops[m].op = "advance_pc"   -> unit.ops[m].arg
      [] unit.ops[m].op = "const_add_pc" -> (255 - unit.opcode_base) \div unit.line_range
      [] OTHER                           -> 0]

LineAdvances(unit) == [m \in 1 .. Len(unit.ops) |->
    CASE unit.ops[m].op = "special"      -> unit.line_base + (unit.ops[m].arg % unit.line_range)
      [] unit.ops[m].op = "advance_line" -> unit.ops[m].arg
      [] OTHER                           -> 0]

\* The last instruction of n's sequence that fixes the address, or its start.
LastFixed(ops, n) ==
    Max({SeqStart(ops, n)}
        \cup {m \in SoFar(ops, n) : ops[m].op \in {"set_address", "fixed_advance_pc"}})

\* The sum of the operation advances since the address was last fixed is
\* converted to instructions in one go.
AddressAt(unit, n) ==
    LET ops == unit.ops
        at[x \in 0 .. Len(ops)] ==
            LET f == LastFixed(ops, x)
                from == CASE f = SeqStart(ops, x) -> 0
                          [] f # SeqStart(ops, x) /\ ops[f].op = "set_address" -> ops[f].arg
                          [] OTHER -> (IF f - 1 = SeqStart(ops, x) THEN 0 ELSE at[f - 1]) + ops[f].arg
            IN  from + unit.min_inst * (Between(OpAdvances(unit), f, x) \div unit.max_ops)
    IN  at[n] % AddrRange

LineAt(unit, n) == (1 + Between(LineAdvances(unit), SeqStart(unit.ops, n), n)) % LineRange

FileAt(unit, n) ==
    LET sets == {m \in SoFar(unit.ops, n) : unit.ops[m].op = "set_file"}
    IN  IF sets = {} THEN 1 ELSE unit.ops[Max(sets)].arg

\* The instructions that are reached.
Reached(unit) ==
    {n \in 1 .. Len(unit.ops) : \A m \in 1 .. n : unit.ops[m].op # "truncated"}

UnitsReached(s) ==
    {x \in 1 .. Len(s) : s[x].kind = "line" /\ \A y \in 1 .. x : s[y].kind # "bad"}

\* The rows of the matrix, as places <<unit, instruction>> ...
Places(s) == UNION {{<<x, n>> : n \in {m \in Reached(s[x]) : s[x].ops[m].op \in {"special", "copy"}}} :
                    x \in UnitsReached(s)}

\* ... and what they say.
RowAt(s, p) == [addr |-> AddressAt(s[p[1]], p[2]), file |-> FileAt(s[p[1]], p[2]),
                line |-> LineAt(s[p[1]], p[2])]

\* A row the table can represent.
Representable(s, p) ==
    LET r == RowAt(s, p)
    IN  /\ r.addr # 0 /\ r.line \in 1 .. LineMax
        /\ r.file \in DOMAIN s[p[1]].files /\ s[p[1]].files[r.file] # NoName

TableRow(s, p) == [RowAt(s, p) EXCEPT !.file = s[p[1]].files[@]]

\* bw_parse_unit: when the table has not overflowed, it holds exactly the
\* representable rows of the matrix, each as often as it occurs there,
\* whatever units were skipped, cut short or parsed before.
RowsAreMatrix ==
    (pc = "done" /\ Len(rows) < RowMax) =>
        LET ps == {p \in Places(sec) : Representable(sec, p)}
        IN  /\ Len(rows) = Cardinality(ps)
            /\ \A p \in ps :
                  Cardinality({m \in 1 .. Len(rows) : rows[m] = TableRow(sec, p)}) =
                  Cardinality({q \in ps : TableRow(sec, q) = TableRow(sec, p)})

\* The end of the sequence that place p belongs to, if the program has one.
EndOf(s, p) ==
    LET ends == {n \in Reached(s[p[1]]) : n > p[2] /\ s[p[1]].ops[n].op = "end_sequence"}
    IN  IF ends = {} THEN 0 ELSE AddressAt(s[p[1]], Min(ends))

\* The places of p's sequence.
SequenceOf(s, p) == {q \in Places(s) : q[1] = p[1]
                    /\ SeqStart(s[p[1]].ops, q[2]) = SeqStart(s[p[1]].ops, p[2])}

\* Row p is the one for address a: a lies between it and the next row of its
\* sequence, or the sequence's end.
Covers(s, p, a) ==
    /\ RowAt(s, p).addr <= a
    /\ a < EndOf(s, p)
    /\ \A q \in SequenceOf(s, p) : q[2] > p[2] => RowAt(s, q).addr > a

\* The program gives its addresses in increasing order within a sequence, as
\* DWARF requires, and no row lies behind the start of another sequence and
\* before its end, not even that of a sequence without extent.
WellFormed(s) ==
    \A p, q \in Places(s) :
        IF q \in SequenceOf(s, p)
        THEN q[2] > p[2] => RowAt(s, q).addr >= RowAt(s, p).addr
        ELSE ~(RowAt(s, p).addr < RowAt(s, q).addr /\ RowAt(s, q).addr < EndOf(s, p))

\* bw_dwarf_tab_lookup: for an address that a representable row covers, the
\* answer is a row of that address, never one of another sequence further
\* down or of a row that ended before.
CoveredFound ==
    (pc = "done" /\ Len(rows) < RowMax /\ WellFormed(sec)) =>
        \A p \in Places(sec), a \in 0 .. (AddrRange - 1) :
            (Covers(sec, p, a) /\ Representable(sec, p)) =>
                \E r \in bw_dwarf_tab_lookup(rows, a) : r.addr = RowAt(sec, p).addr
=============================================================================
