------------------------------- MODULE MCDwarf -------------------------------
(***************************************************************************)
(* Sections for model checking DwarfLine: every program of up to three     *)
(* instructions between a set_address and an end_sequence, pairs of        *)
(* sequences in one unit or two and in either order, with unsupported or   *)
(* unreadable units in front or between, and a program of more rows than   *)
(* the table holds.                                                        *)
(***************************************************************************)
EXTENDS DwarfReference, SequencesExt

CONSTANTS ProgLen, f1, f2

Op(o, a) == [op |-> o, arg |-> a]

\* Adjusted opcodes 1, 2 and 5 advance by 0, 1 and 2 operations and move the
\* line by 0, -1 and 0.
Body == {Op("special", 1), Op("special", 2), Op("special", 5), Op("copy", 0),
         Op("advance_pc", 3), Op("advance_line", 2), Op("advance_line", -2),
         Op("set_file", 2), Op("set_file", 3), Op("const_add_pc", 0),
         Op("fixed_advance_pc", 1), Op("end_sequence", 0), Op("truncated", 0), Op("other", 0)}

\* A unit of version 4: file 0 has no name.  Two operations an instruction.
Unit(ops) == [kind |-> "line", min_inst |-> 1, max_ops |-> 2, line_base |-> -1,
              line_range |-> 2, opcode_base |-> 251,
              files |-> [f \in 0 .. 2 |-> IF f = 0 THEN NoName ELSE IF f = 1 THEN f1 ELSE f2],
              ops |-> ops]

Odd(kind) == [Unit(<<>>) EXCEPT !.kind = kind]

From(a, body) == <<Op("set_address", a)>> \o body \o <<Op("end_sequence", 0)>>

OneUnit == {<<Unit(From(3, w))>> : w \in BoundedSeq(Body, ProgLen)}

Low == {From(3, <<Op("copy", 0), Op("advance_pc", 4)>>),
        From(3, <<Op("copy", 0), Op("special", 5), Op("advance_pc", 2)>>)}

High == {From(8, <<Op("set_file", 2), Op("copy", 0), Op("advance_pc", 4)>>),
         From(8, <<Op("advance_line", 2), Op("copy", 0), Op("copy", 0), Op("advance_pc", 2)>>)}

Pairs == {<<Unit(l \o h)>> : l \in Low, h \in High} \cup {<<Unit(h \o l)>> : l \in Low, h \in High}

Units == {<<Unit(h), Unit(l)>> : l \in Low, h \in High}
            \cup {<<Odd("skip"), Unit(l), Unit(h)>> : l \in Low, h \in High}
            \cup {<<Unit(h), Odd("bad"), Unit(l)>> : l \in Low, h \in High}
            \cup {<<Unit(<<Op("advance_line", 3), Op("truncated", 0)>>), Unit(l)>> : l \in Low}
            \cup {<<>>}

Full == {<<Unit(From(3, <<Op("copy", 0), Op("special", 5), Op("copy", 0), Op("special", 5),
                          Op("special", 5), Op("copy", 0)>>))>>}

AllSections == OneUnit \cup Pairs \cup Units \cup Full
=============================================================================
