--------------------------- MODULE MCDwarfTables ---------------------------
(***************************************************************************)
(* Units for model checking DwarfTables, made by encoding tables: those of *)
(* version 4, those of version 5 with the forms in several orders, some of *)
(* them cut short, and those of version 4 with many directories.           *)
(***************************************************************************)
EXTENDS DwarfTables

\* "a", "bc", "d/"; "f", "gh", "/x", "C:".
DirNames == {<<97>>, <<98, 99>>, <<100, 47>>}
FileNames == {[name |-> <<102>>, abs |-> FALSE], [name |-> <<103, 104>>, abs |-> FALSE],
              [name |-> <<47, 120>>, abs |-> TRUE], [name |-> <<67, 58>>, abs |-> TRUE]}

\* "a", "f" and "/x"; "bc" and "gh".
LineStr == <<97, 0, 102, 0, 47, 120, 0>>
DebugStr == <<98, 99, 0, 103, 104, 0>>

\* Behind the section there is a zero, or "y".
SomeStrays == {<<>>, <<121>>}

\* The earlier units have left nothing, or something.
SomePools == {<<>>, <<122, 122, 0>>}

Concat(ss) == FlattenSeq(ss)

\* The files of a unit: a name and the index of a directory.
Files(names, indices) == [n : names, idx : indices]

\* What is to be found: the directory's name in place of its index.
Want(f, ds) == [name |-> f.n.name, abs |-> f.n.abs,
                dir |-> IF f.idx \in DOMAIN ds THEN ds[f.idx] ELSE <<>>]

\* The line program that follows the tables: the end of a sequence.
Program == <<0, 1, 1>>

Unit(version, size, bytes, ds, want) ==
    [version |-> version, offset_size |-> size, c |-> bytes \o Program, dirs |-> ds, files |-> want,
     len |-> Len(bytes), sound |-> TRUE, cut |-> "none"]

\* Directory 0 has no name; the time is a number of two bytes.
Unit4(ds, fs) ==
    Unit(4, 4,
         Concat([k \in DOMAIN ds |-> Append(ds[k], 0)]) \o <<0>>
            \o Concat([k \in DOMAIN fs |-> fs[k].n.name \o <<0, fs[k].idx, 129, 1, 5>>]) \o <<0>>,
         ds, [k \in DOMAIN fs |-> Want(fs[k], ds)])

Units4(ds) == {Unit4(d, f) : d \in ds, f \in BoundedSeq(Files(FileNames, 0 .. 3), 2)}

SmallUnits4 == Units4(BoundedSeq(DirNames, 2))

\* Two bytes more than the offsets of the strings need.
Fixed(v, n) == [k \in 1 .. n |-> IF k = 1 THEN v ELSE 0]

\* The offset of s in a section, or one past its end.
Offset(s, sec) ==
    LET at == {q \in 1 .. Len(sec) : (q = 1 \/ sec[q - 1] = 0) /\ Text(sec, q) = s}
    IN  IF at = {} THEN Len(sec) ELSE Min(at) - 1

\* A field of a format with the bytes of its value, where that is not a path
\* or the index of a directory.
Skipped == {<<Form.FLAG_PRESENT, <<>>>>, <<Form.FLAG, <<1>>>>, <<Form.DATA2, <<1, 2>>>>,
            <<Form.DATA4, Fixed(9, 4)>>, <<Form.ADDR, Fixed(9, 8)>>, <<Form.DATA16, Fixed(9, 16)>>,
            <<Form.SDATA, <<200, 127>>>>, <<Form.STRING, <<120, 121, 0>>>>,
            <<Form.BLOCK1, <<2, 1, 8>>>>, <<Form.BLOCK2, <<1, 0, 8>>>>,
            <<Form.BLOCK4, <<1, 0, 0, 0, 8>>>>, <<Form.EXPRLOC, <<1, 8>>>>}

PathBytes(form, s, size) ==
    CASE form = Form.STRING -> Append(s, 0)
      [] form = Form.LINE_STRP -> Fixed(Offset(s, LineStr), size)
      [] form = Form.STRP -> Fixed(Offset(s, DebugStr), size)

\* The path as the form can give it.
Given(form, s) ==
    CASE form = Form.STRING -> s
      [] form = Form.LINE_STRP -> IF Offset(s, LineStr) = Len(LineStr) THEN <<>> ELSE s
      [] form = Form.STRP -> IF Offset(s, DebugStr) = Len(DebugStr) THEN <<>> ELSE s

IndexBytes(form, k) == IF form = Form.UDATA THEN <<k + 128, 0>>
                       ELSE Fixed(k, CASE form = Form.DATA1 -> 1 [] form = Form.DATA2 -> 2)

\* Directories [path], files [path, index, skipped] or [skipped, index, path].
Unit5(ds, fs, pathForm, idxForm, skip, size, swap) ==
    LET given == [k \in DOMAIN ds |-> Given(pathForm, ds[k])]
        Row(f) == LET a == PathBytes(pathForm, f.n.name, size)
                      b == IndexBytes(idxForm, f.idx)
                  IN  IF swap THEN skip[2] \o b \o a ELSE a \o b \o skip[2]
        dirFmt == <<1, Lnct.PATH, pathForm>>
        path == <<Lnct.PATH, pathForm>>  idx == <<Lnct.DIRECTORY_INDEX, idxForm>>
        fileFmt == <<3>> \o (IF swap THEN <<5, skip[1]>> \o idx \o path ELSE path \o idx \o <<5, skip[1]>>)
    IN  Unit(5, size,
             dirFmt \o <<Len(ds)>> \o Concat([k \in DOMAIN ds |-> PathBytes(pathForm, ds[k], size)])
                \o fileFmt \o <<Len(fs)>> \o Concat([k \in DOMAIN fs |-> Row(fs[k])]),
             ds, [k \in DOMAIN fs |->
                    [Want([fs[k] EXCEPT !.idx = @ + 1], given) EXCEPT !.name = Given(pathForm, @)]])

Some5(ds, fs, forms, idxForms, skips) ==
    {Unit5(d, f, pf, xf, s, size, swap) : d \in ds, f \in fs, pf \in forms,
        xf \in idxForms, s \in skips, size \in {4, 8}, swap \in BOOLEAN}

OneFile == <<[n |-> [name |-> <<102>>, abs |-> FALSE], idx |-> 0]>>

\* A file without a name or a directory has no path and is refused.
Units5 ==
    LET us == Some5({<<>>, <<<<97>>>>, <<<<98, 99>>, <<100, 47>>>>},
                    BoundedSeq(Files(FileNames \ {[name |-> <<67, 58>>, abs |-> TRUE]}, {0, 1}), 1),
                    {Form.STRING, Form.LINE_STRP, Form.STRP}, {Form.UDATA, Form.DATA2}, Skipped)
                \cup Some5({<<<<97>>, <<98, 99>>>>}, [1 .. 2 -> Files(FileNames, {1, 2})],
                           {Form.STRING}, {Form.DATA1}, {<<Form.DATA16, Fixed(9, 16)>>})
                \cup Some5({<<<<97>>, <<98>>, <<97>>>>}, {[k \in 1 .. n |-> OneFile[1]] : n \in 0 .. 3},
                           {Form.STRING}, {Form.DATA1}, {<<Form.FLAG_PRESENT, <<>>>>})
    IN  {[u EXCEPT !.sound = \A k \in DOMAIN u.files : u.files[k].name # <<>>] : u \in us}

\* The section ends after n bytes of the tables.
CutTo(u, n) ==
    [u EXCEPT !.c = SubSeq(@, 1, n), !.sound = FALSE,
              !.cut = IF u.version < 5 /\ n > 0 /\ u.c[n] \in Letters THEN "name" ELSE "field"]

\* The tables are damaged: after n bytes others follow, up to the section's end.
TornAt(u, n) == [u EXCEPT !.c = SubSeq(@, 1, n) \o <<8, 1, 2>>, !.sound = FALSE]

\* One of version 4, and a few of version 5.
Whole ==
    {Unit4(<<<<97>>>>, OneFile)}
    \cup Some5({<<<<97>>>>}, {OneFile}, {Form.STRING, Form.LINE_STRP}, {Form.UDATA},
               Skipped \ {<<Form.FLAG_PRESENT, <<>>>>})

\* Every beginning of those, also the ones that end in a name; the numbers of
\* the damaged ones stay below the limit of the model checker's.
CutUnits == UNION {{CutTo(u, n) : n \in 0 .. (u.len - 1)} : u \in Whole}
TornUnits ==
    UNION {{TornAt(u, n) : n \in 0 .. (u.len - 1)} : u \in {v \in Whole : v.offset_size = 4}}

\* Too many directories; a form that is not known.
Refused ==
    {[u EXCEPT !.sound = FALSE] :
        u \in Some5({<<<<97>>, <<97>>, <<97>>, <<97>>>>}, {<<>>}, {Form.STRING}, {Form.DATA1}, {<<Form.FLAG, <<1>>>>})
              \cup Some5({<<>>}, {<<>>}, {Form.STRING}, {Form.DATA1}, {<<2, <<>>>>})}

SoundUnits == SmallUnits4 \cup Units5 \cup CutUnits \cup TornUnits \cup Refused

\* As many directories as there is room for, and more.
WideUnits == Units4([1 .. 3 -> DirNames])

----------------------------------------------------------------------------
(* The variable-length numbers by themselves, in words of 15 bits, so that *)
(* the third digit overlaps the top of the word as the tenth does in 64.   *)

\* Strings of digits that are 0, 1, the greatest, or next to the sign.
SomeLebs == BoundedSeq({0, 1, 63, 64, 127, 128, 191, 192, 255}, 4)
=============================================================================
