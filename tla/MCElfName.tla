----------------------------- MODULE MCElfName -----------------------------
(***************************************************************************)
(* Files for model checking ElfName: tables of up to three of a few        *)
(* symbols, which touch, nest and coincide or must be passed over, behind  *)
(* an unusable table or with a second one.                                 *)
(***************************************************************************)
EXTENDS ElfName, SequencesExt

Sym(func, defined, value, size, st_name) ==
    [func |-> func, defined |-> defined, value |-> value, size |-> size, st_name |-> st_name]

Syms == {Sym(TRUE, TRUE, 1, 3, 1), Sym(TRUE, TRUE, 4, 2, 2), Sym(TRUE, TRUE, 2, 1, 3),
         Sym(TRUE, TRUE, 1, 1, 4), Sym(FALSE, TRUE, 2, 2, 1), Sym(TRUE, FALSE, 2, 2, 1),
         Sym(TRUE, TRUE, 3, 0, 2), Sym(TRUE, TRUE, 3, 2, 0), Sym(TRUE, TRUE, 3, 2, 5)}

Strs == <<[id |-> "f", len |-> 2], [id |-> "g", len |-> 4], [id |-> "h", len |-> 1], [id |-> "", len |-> 0]>>

Table(usable, syms) == [usable |-> usable, syms |-> syms, strs |-> Strs]

AllFiles == {[sound |-> TRUE, tables |-> <<Table(TRUE, y)>>] : y \in BoundedSeq(Syms, 3)}
    \cup {[sound |-> TRUE, tables |-> <<Table(FALSE, y), Table(TRUE, <<Sym(TRUE, TRUE, 1, 3, 1)>>)>>] :
             y \in BoundedSeq(Syms, 1)}
    \cup {[sound |-> TRUE, tables |-> <<Table(TRUE, y), [Table(TRUE, <<>>) EXCEPT !.strs = <<>>]>>] :
             y \in BoundedSeq(Syms, 1)}
    \cup {NoFile}

\* An object linked at 0, one with a load bias other than its base and one
\* without link map, with and without symbols, and an address outside of
\* every object.
AllInfos == {NoInfo} \cup
    {[found |-> TRUE, fname |-> n, sname |-> y, fbase |-> 10, l_addr |-> b] :
        n \in {None, "", "path"}, y \in {None, "exported"}, b \in {10, 8, None}}
=============================================================================
