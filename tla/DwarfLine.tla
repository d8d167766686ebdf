------------------------------ MODULE DwarfLine ------------------------------
(***************************************************************************)
(* The line table of src/src/dwarf_line.c: bw_dwarf_tab_parse runs the     *)
(* line number programs of the units of .debug_line one after the other,   *)
(* collects their rows and sorts them; bw_dwarf_tab_lookup searches them.  *)
(* A unit is given decoded: the header fields the program depends on, the  *)
(* file table as names by index (NoName where bw_add_str failed, and at    *)
(* index 0 before version 5), and the instructions.                        *)
(***************************************************************************)
EXTENDS SortedTable

CONSTANTS
    Sections,   \* the .debug_line sections to parse: sequences of units
    NoName,     \* file_off[i] < 0
    AddrRange,  \* addresses are modulo AddrRange
    LineRange,  \* the line register is modulo LineRange (2^64)
    LineMax,    \* the largest line a row can hold (2^32 - 1)
    RowMax      \* BW_DWARF_ROW_MAX

ASSUME TableAssumption ==
    /\ AddrRange \in Nat \ {0} /\ LineRange \in Nat \ {0}
    /\ LineMax \in Nat \ {0} /\ LineMax < LineRange
    /\ RowMax \in Nat \ {0}

\* What has been checked of a unit by the time its program runs, and the
\* operands of the program: only advance_line has a signed one.
UnitOk(unit) ==
    /\ unit.min_inst \in Nat \ {0} /\ unit.max_ops \in Nat \ {0}
    /\ unit.line_base \in Int /\ unit.line_range \in Nat \ {0}
    /\ unit.opcode_base \in 1 .. 255
    /\ Len(unit.ops) \in Nat
    /\ \A n \in 1 .. Len(unit.ops) :
          /\ unit.ops[n].arg \in Int
          /\ unit.ops[n].op # "advance_line" => unit.ops[n].arg \in Nat

ASSUME SectionsAssumption ==
    \A s \in Sections :
        Len(s) \in Nat /\ \A x \in 1 .. Len(s) : s[x].kind = "line" => UnitOk(s[x])

VARIABLES
    pc,     \* "empty", "unit", "prog", "sort", "done"
    sec,    \* the section being parsed
    u,      \* index of the current unit
    k,      \* index of the next instruction of its program
    regs,   \* the registers address, op_index, file_idx and line
    rows,   \* tab->rows, up to nrow
    ready   \* what bw_dwarf_tab_parse returned

vars == <<pc, sec, u, k, regs, rows, ready>>

ResetRegs == [address |-> 0, op_index |-> 0, file_idx |-> 1, line |-> 1]

Init ==
    /\ pc = "empty"
    /\ sec = <<>>
    /\ u = 1 /\ k = 1
    /\ regs = ResetRegs
    /\ rows = <<>>
    /\ ready = FALSE

----------------------------------------------------------------------------
(* The instructions *)

\* Variant: every advance starts at the first operation of an instruction.
AdvanceNoCarry(r, unit, adv) ==
    [r EXCEPT !.address = (@ + unit.min_inst * (adv \div unit.max_ops)) % AddrRange, !.op_index = 0]

Advance(r, unit, adv) ==
    [r EXCEPT !.address = (@ + unit.min_inst * ((r.op_index + adv) \div unit.max_ops)) % AddrRange,
              !.op_index = (r.op_index + adv) % unit.max_ops]

AddLine(r, d) == [r EXCEPT !.line = (@ + d) % LineRange]

\* What an instruction does to the registers.  The argument of a special
\* opcode is its adjusted value; "copy" and the instructions the parser
\* skips leave the registers alone.
Exec(r, unit, i) ==
    CASE i.op = "end_sequence" -> ResetRegs
      [] i.op = "set_address"  -> [r EXCEPT !.address = i.arg % AddrRange, !.op_index = 0]
      [] i.op = "special"      -> Advance(AddLine(r, unit.line_base + (i.arg % unit.line_range)),
                                          unit, i.arg \div unit.line_range)
      [] i.op = "advance_pc"   -> Advance(r, unit, i.arg)
      [] i.op = "advance_line" -> AddLine(r, i.arg)
      [] i.op = "set_file"     -> [r EXCEPT !.file_idx = i.arg]
      [] i.op = "const_add_pc" -> Advance(r, unit, (255 - unit.opcode_base) \div unit.line_range)
      [] i.op = "fixed_advance_pc" -> [r EXCEPT !.address = (@ + i.arg) % AddrRange, !.op_index = 0]
      [] OTHER                 -> r

\* file_idx < nfile, then the conditions of bw_emit but for the table's size.
EmitOk(r, unit) ==
    /\ r.file_idx \in DOMAIN unit.files
    /\ unit.files[r.file_idx] # NoName
    /\ r.address # 0
    /\ r.line \in 1 .. LineMax

\* Variant: the size of the table is not checked.
RoomAlways(tab) == TRUE

Room(tab) == Len(tab) < RowMax

bw_emit(tab, r, unit) ==
    IF EmitOk(r, unit) /\ Room(tab)
    THEN Append(tab, [addr |-> r.address, file |-> unit.files[r.file_idx], line |-> r.line])
    ELSE tab

----------------------------------------------------------------------------
(* bw_parse_unit and bw_dwarf_tab_parse *)

Parse(s) ==
    /\ pc = "empty"
    /\ sec' = s
    /\ u' = 1 /\ k' = 1
    /\ pc' = "unit"
    /\ UNCHANGED <<regs, rows, ready>>

NextUnit == u' = u + 1 /\ k' = 1 /\ pc' = "unit"

\* A unit of unsupported layout is stepped over.
UnitSkip ==
    /\ pc = "unit"
    /\ u <= Len(sec)
    /\ sec[u].kind = "skip"
    /\ NextUnit
    /\ UNCHANGED <<sec, regs, rows, ready>>

\* A unit whose header cannot be read ends the parse; so does the end of the
\* section.
UnitStop ==
    /\ pc = "unit"
    /\ u <= Len(sec) => sec[u].kind = "bad"
    /\ pc' = "sort"
    /\ UNCHANGED <<sec, u, k, regs, rows, ready>>

UnitBegin ==
    /\ pc = "unit"
    /\ u <= Len(sec)
    /\ sec[u].kind = "line"
    /\ regs' = ResetRegs
    /\ pc' = "prog"
    /\ UNCHANGED <<sec, u, k, rows, ready>>

\* One instruction; a special opcode and copy emit a row.
ProgStep ==
    /\ pc = "prog"
    /\ k <= Len(sec[u].ops)
    /\ LET i == sec[u].ops[k]
           r == Exec(regs, sec[u], i)
       IN  /\ i.op # "truncated"
           /\ regs' = r
           /\ rows' = IF i.op \in {"special", "copy"} THEN bw_emit(rows, r, sec[u]) ELSE rows
    /\ k' = k + 1
    /\ UNCHANGED <<pc, sec, u, ready>>

\* The program's end, or an instruction whose operands cannot be read: the
\* parse goes on with the next unit.
ProgEnd ==
    /\ pc = "prog"
    /\ k <= Len(sec[u].ops) => sec[u].ops[k].op = "truncated"
    /\ NextUnit
    /\ UNCHANGED <<sec, regs, rows, ready>>

Finish ==
    /\ pc = "sort"
    /\ IF rows = <<>>
       THEN ready' = FALSE /\ UNCHANGED rows
       ELSE ready' = TRUE /\ rows' \in Sortings(rows)
    /\ pc' = "done"
    /\ UNCHANGED <<sec, u, k, regs>>

\* bw_dwarf_tab_reset, when bw_pe_load turns to another module.
bw_dwarf_tab_reset ==
    /\ pc = "done"
    /\ pc' = "empty"
    /\ rows' = <<>>
    /\ ready' = FALSE
    /\ sec' = <<>>
    /\ u' = 1 /\ k' = 1
    /\ regs' = ResetRegs

Next ==
    \/ \E s \in Sections : Parse(s)
    \/ UnitSkip \/ UnitStop \/ UnitBegin \/ ProgStep \/ ProgEnd \/ Finish
    \/ bw_dwarf_tab_reset

Spec == Init /\ [][Next]_vars

----------------------------------------------------------------------------
\* Variant: row 0 is taken for "not found".
bw_dwarf_tab_lookup_zero(t, addr) ==
    IF Search(t, addr) <= 0 THEN {} ELSE {t[Search(t, addr) + 1]}

\* The row it answers with, in a set of at most one.
bw_dwarf_tab_lookup(t, addr) ==
    IF Search(t, addr) = -1 THEN {} ELSE {t[Search(t, addr) + 1]}

----------------------------------------------------------------------------
TypeOK ==
    /\ pc \in {"empty", "unit", "prog", "sort", "done"}
    /\ u \in Nat /\ k \in Nat
    /\ regs \in [address : 0 .. (AddrRange - 1), op_index : Nat, file_idx : Nat,
                 line : 0 .. (LineRange - 1)]
    /\ Len(rows) <= RowMax
    /\ ready \in BOOLEAN

\* bw_dwarf_tab_lookup: on a parsed table the binary search finds the last
\* row at or below the address, and none only if all rows are above it.
SearchCorrect ==
    (pc = "done" /\ ready) =>
        \A a \in 0 .. (AddrRange - 1) : Search(rows, a) = LastAtOrBelow(rows, a) - 1
=============================================================================
