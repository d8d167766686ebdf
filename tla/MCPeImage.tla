----------------------------- MODULE MCPeImage -----------------------------
(***************************************************************************)
(* Images for model checking PeImage: symbol tables of up to four blocks,  *)
(* in any order, a block being a record and its auxiliary records; lines   *)
(* for the functions f, g, h and k.                                        *)
(***************************************************************************)
EXTENDS PeImage, SequencesExt

CONSTANT MaxBlocks

Sym(naux, sec, fcn, value, id, at, len) ==
    [naux |-> naux, sec_num |-> sec, isfcn |-> fcn, value |-> value,
     name |-> [id |-> id, at |-> at, len |-> len]]

\* The auxiliary record of f looks like a function.
Blocks == {<<Sym(1, 1, TRUE, 1, "f", "short", 4), Sym(0, 1, TRUE, 2, "aux", "short", 2)>>,
           <<Sym(0, 1, TRUE, 3, "g", "long", 6)>>, <<Sym(0, 2, TRUE, 6, "h", "short", 1)>>,
           <<Sym(0, 1, TRUE, 8, "k", "short", 1)>>,
           <<Sym(0, 1, FALSE, 4, "data", "short", 4)>>, <<Sym(0, 0, TRUE, 0, "import", "long", 6)>>,
           <<Sym(0, 1, TRUE, 5, ".", "short", 5)>>, <<Sym(0, 1, TRUE, 5, "lost", "beyond", 4)>>,
           <<Sym(2, 1, TRUE, 5, "cut", "short", 3)>>}

Tables == {FlattenSeq(t) : t \in {b \in BoundedSeq(Blocks, MaxBlocks) : IsInjective(b)}}

\* Rows at the starts of the functions whose names can be read.
RowsOf(t, base) ==
    LET fs == {t[m] : m \in {n \in 1 .. Len(t) : t[n].name.id \in {"f", "g", "h", "k"}}}
    IN  SetToSortSeq({[addr |-> base + x.value, file |-> x.name.id] : x \in fs},
                     LAMBDA x, y : x.addr < y.addr)

Image(t, base, strs, sections) ==
    [sound |-> TRUE, image_base |-> base, nsec |-> 2, strs |-> strs, coff |-> t,
     sections |-> sections, pdb |-> <<>>]

Section(name, long, data, rows) == [name |-> name, long |-> long, data |-> data, rows |-> rows]

CoffImages ==
    {Image(t, 20, TRUE, <<Section(".text", FALSE, TRUE, <<>>),
                          Section(".debug_line", TRUE, TRUE, RowsOf(t, 20)),
                          Section(".debug_line", TRUE, FALSE, <<>>)>>) : t \in Tables}
    \cup {Image(t, 0, FALSE, <<Section(".debug_line", TRUE, TRUE, RowsOf(t, 20))>>) :
             t \in {u \in Tables : Len(u) <= 2}}
    \cup {NoImage}

\* Each call site in them has one answer.
ASSUME CoffOneAnswer == \A im \in CoffImages : OneAnswerEach(im)

\* An image with a PDB and no symbol table.
PdbImages == {[Image(<<>>, 20, FALSE, <<>>) EXCEPT
                  !.pdb = <<[addr |-> 1, id |-> "f"], [addr |-> 4, id |-> "g"]>>]}
=============================================================================
