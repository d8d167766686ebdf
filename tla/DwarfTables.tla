---------------------------- MODULE DwarfTables ----------------------------
(***************************************************************************)
(* The directory and file tables in the header of a unit, as bw_parse_unit *)
(* of src/src/dwarf_line.c reads them: the cursor, the forms of version 5, *)
(* the joining of paths and the pool of strings that the names go to.      *)
(*                                                                         *)
(* A unit is [version, offset_size, c, dirs, files, len, sound, cut].  The *)
(* bytes c go from the unit's tables to the end of .debug_line, past the   *)
(* program and over the units that follow, for that is how far the cursor  *)
(* may go.  The last five say what was encoded, for the properties: the    *)
(* tables are the first len bytes of c, and cut says what the end of the   *)
(* section falls into, if it comes before that of the tables.              *)
(*                                                                         *)
(* A position is an index into c; 0 stands for the failure of a read,      *)
(* which ends the parse, and Past for any position behind the section.     *)
(***************************************************************************)
EXTENDS Leb128, SequencesExt

CONSTANTS
    Units,      \* the units that may be parsed
    Pools,      \* what earlier units may have left in the pool
    Strays,     \* the strings that strlen may find behind the section
    line_str, debug_str,            \* the sections of the same name
    DirsMax, FilesMax, FmtMax,      \* BW_DWARF_DIRS_MAX and so on
    StrMax,     \* BW_DWARF_STR_MAX
    JoinMax     \* sizeof(joined)

ASSUME LimitsAssumption ==
    /\ \A x \in {DirsMax, FilesMax, FmtMax, StrMax, JoinMax} : x \in Nat \ {0}
    /\ JoinMax > 1

Byte == 0 .. 255

ASSUME UnitsAssumption ==
    \A u \in Units : u.c \in Seq(Byte) /\ u.version \in Nat /\ u.offset_size \in {4, 8}

\* The string sections and the pool are empty or end with a string: strlen
\* finds its end.
ASSUME StringsAssumption ==
    /\ \A s \in Pools \cup {line_str, debug_str} : s \in Seq(Byte) /\ (s # <<>> => s[Len(s)] = 0)
    /\ \A s \in Pools : Len(s) <= StrMax
    /\ Strays \subseteq Seq(1 .. 255)

VARIABLES
    pc,
    unit,
    p,          \* the cursor
    fmt, left,  \* version 5: the format of the entries, how many remain
    dirs, files,    \* offsets into the pool, dir_off and file_off
    strs        \* the pool, nstr bytes long

vars == <<pc, unit, p, fmt, left, dirs, files, strs>>

c == unit.c

Past == Len(c) + 2

Lnct == [PATH |-> 1, DIRECTORY_INDEX |-> 2]

Form == [ADDR |-> 1, BLOCK2 |-> 3, BLOCK4 |-> 4, DATA2 |-> 5, DATA4 |-> 6, DATA8 |-> 7,
         STRING |-> 8, BLOCK |-> 9, BLOCK1 |-> 10, DATA1 |-> 11, FLAG |-> 12, SDATA |-> 13,
         STRP |-> 14, UDATA |-> 15, REF_ADDR |-> 16, SEC_OFFSET |-> 23, EXPRLOC |-> 24,
         FLAG_PRESENT |-> 25, DATA16 |-> 30, LINE_STRP |-> 31, IMPLICIT_CONST |-> 33]

Init ==
    /\ pc = "idle" /\ unit = [c |-> <<>>, version |-> 4, sound |-> FALSE] /\ p = 1
    /\ fmt = <<>> /\ left = 0 /\ dirs = <<>> /\ files = <<>>
    /\ strs \in Pools

----------------------------------------------------------------------------
(* The cursor *)

\* c->end is the end of the section.  Behind it the difference, converted to
\* size_t, is as good as unbounded: see the actions of the cursor gone astray.
bw_cur_ok(q, n) == q # 0 /\ q + n <= Len(c) + 1

\* Variant: the end of the data stops the cursor, but is not a failure.
bw_skip_silent(q, n) == IF bw_cur_ok(q, n) THEN q + n ELSE q

bw_skip(q, n) == IF bw_cur_ok(q, n) THEN q + n ELSE 0

\* bw_u8, bw_u16, bw_u32, bw_u64: n bytes, the lowest first.
Read(q, n) ==
    LET f[k \in 0 .. n] == IF k = 0 THEN 0 ELSE 256 * f[k - 1] + c[q + n - k]
    IN  [p |-> bw_skip(q, n), v |-> IF bw_cur_ok(q, n) THEN f[n] ELSE 0]

\* The string that starts at position q of s.
Nuls(s, q) == {e \in q .. Len(s) : s[e] = 0}
Text(s, q) == SubSeq(s, q, Min(Nuls(s, q)) - 1)

Cut(s, n) == SubSeq(s, 1, IF Len(s) <= n THEN Len(s) ELSE n)

bw_form_skip(q, form) ==
    LET size == CASE form \in {Form.FLAG_PRESENT, Form.IMPLICIT_CONST} -> 0
                  [] form \in {Form.DATA1, Form.FLAG} -> 1
                  [] form = Form.DATA2 -> 2
                  [] form = Form.DATA4 -> 4
                  [] form \in {Form.STRP, Form.LINE_STRP, Form.SEC_OFFSET, Form.REF_ADDR} -> unit.offset_size
                  [] form \in {Form.DATA8, Form.ADDR} -> 8
                  [] form = Form.DATA16 -> 16
                  [] OTHER -> -1
        Block(r) == bw_skip(r.p, r.v)
    IN  CASE size = 0 -> q
          [] size > 0 -> bw_skip(q, size)
          [] form = Form.UDATA -> bw_uleb(c, q).p
          [] form = Form.SDATA -> bw_sleb(c, q).p
          [] form = Form.STRING -> IF Nuls(c, q) = {} THEN 0 ELSE Min(Nuls(c, q)) + 1
          [] form = Form.BLOCK1 -> Block(Read(q, 1))
          [] form = Form.BLOCK2 -> Block(Read(q, 2))
          [] form = Form.BLOCK4 -> Block(Read(q, 4))
          [] form \in {Form.BLOCK, Form.EXPRLOC} -> Block(bw_uleb(c, q))
          [] OTHER -> 0

\* A path: [p, path].  An offset outside of its section gives an empty path.
bw_form_path(q, form) ==
    CASE form = Form.STRING ->
            IF Nuls(c, q) = {} THEN [p |-> 0, path |-> <<>>]
            ELSE [p |-> Min(Nuls(c, q)) + 1, path |-> Text(c, q)]
      [] form \in {Form.LINE_STRP, Form.STRP} ->
            LET off == Read(q, unit.offset_size)
                sec == IF form = Form.LINE_STRP THEN line_str ELSE debug_str
            IN  [p |-> off.p,
                 path |-> IF off.p # 0 /\ off.v < Len(sec) THEN Text(sec, off.v + 1) ELSE <<>>]
      [] OTHER -> [p |-> bw_form_skip(q, form), path |-> <<>>]

bw_form_udata(q, form) ==
    CASE form = Form.UDATA -> bw_uleb(c, q)
      [] form = Form.DATA1 -> Read(q, 1)
      [] form = Form.DATA2 -> Read(q, 2)
      [] form = Form.DATA4 -> Read(q, 4)
      [] OTHER -> [p |-> 0, v |-> 0]

----------------------------------------------------------------------------
(* Names *)

Slash == 47
Separators == {47, 92}
Letters == (65 .. 90) \cup (97 .. 122)

AbsFile(f) == f # <<>> /\ (f[1] \in Separators \/ (f[1] \in Letters /\ Len(f) > 1 /\ f[2] = 58))

\* The joined path, cut to the buffer; the empty one is a failure.
bw_join_path(dir, file) ==
    LET d == IF AbsFile(file) THEN <<>> ELSE Cut(dir, JoinMax - 1)
        sep == IF d # <<>> /\ d[Len(d)] \notin Separators /\ Len(d) + 1 < JoinMax
               THEN <<Slash>> ELSE <<>>
    IN  Cut(d \o sep \o file, JoinMax - 1)

\* Variant: no room is left for the terminator.
StrRoomNoNul == StrMax - Len(strs)

StrRoom == StrMax - Len(strs) - 1

\* Variant: a full pool answers with its first string.
NoOffZero == 0

NoOff == -1

\* bw_add_str: [off, strs].
bw_add_str(s) ==
    IF Len(strs) + 1 > StrMax THEN [off |-> NoOff, strs |-> strs]
    ELSE [off |-> Len(strs), strs |-> strs \o Cut(s, StrRoom) \o <<0>>]

AddDir(path) == LET r == bw_add_str(path) IN dirs' = Append(dirs, r.off) /\ strs' = r.strs

AddFile(name) == LET r == bw_add_str(name) IN files' = Append(files, r.off) /\ strs' = r.strs

\* The directory is one that has been read and had room in the pool.
Joins(dir_idx) == dir_idx < Len(dirs) /\ dirs[dir_idx + 1] >= 0

FileName(path, dir_idx) ==
    IF Joins(dir_idx) THEN bw_join_path(Text(strs, dirs[dir_idx + 1] + 1), path) ELSE path

----------------------------------------------------------------------------
(* Version 4 and before *)

\* Failure of a read or a check ends bw_parse_unit.
Fail == pc' = "failed" /\ UNCHANGED <<unit, p, fmt, left, dirs, files, strs>>

Entry4(have, max) == bw_cur_ok(p, 1) /\ c[p] # 0 /\ have < max

Begin4 ==
    /\ pc = "tables" /\ unit.version < 5
    /\ AddDir(<<>>)
    /\ pc' = "dirs4"
    /\ UNCHANGED <<unit, p, fmt, left, files>>

Dir4 ==
    /\ pc = "dirs4" /\ Entry4(Len(dirs), DirsMax) /\ Nuls(c, p) # {}
    /\ AddDir(Text(c, p))
    /\ p' = p + Len(Text(c, p)) + 1
    /\ UNCHANGED <<pc, unit, fmt, left, files>>

DirsEnd4 ==
    /\ pc = "dirs4" /\ ~Entry4(Len(dirs), DirsMax)
    /\ \/ /\ bw_skip(p, 1) # 0
          /\ p' = bw_skip(p, 1) /\ files' = <<-1>> /\ pc' = "files4"
          /\ UNCHANGED <<unit, fmt, left, dirs, strs>>
       \/ bw_skip(p, 1) = 0 /\ Fail

\* A name, the index of its directory, a time and a length.
File4 ==
    LET idx == bw_uleb(c, p + Len(Text(c, p)) + 1)
        after == bw_uleb(c, bw_uleb(c, idx.p).p).p
    IN  /\ pc = "files4" /\ Entry4(Len(files), FilesMax) /\ Nuls(c, p) # {}
        /\ \/ /\ after # 0 /\ AddFile(FileName(Text(c, p), idx.v))
              /\ p' = after
              /\ UNCHANGED <<pc, unit, fmt, left, dirs>>
           \/ after = 0 /\ Fail

FilesEnd4 ==
    /\ pc = "files4" /\ ~Entry4(Len(files), FilesMax)
    /\ \/ /\ bw_skip(p, 1) # 0
          /\ p' = bw_skip(p, 1) /\ pc' = "done"
          /\ UNCHANGED <<unit, fmt, left, dirs, files, strs>>
       \/ bw_skip(p, 1) = 0 /\ Fail

----------------------------------------------------------------------------
(* Version 4 and before: a name that the section does not end.  strlen     *)
(* goes on behind the section, and so does the cursor, to which every read *)
(* is allowed from then on: what it finds is chosen, the read of a page    *)
(* that is not mapped included.  The tables' limits hold as before.        *)

\* A file with a name that is known, but not the index of its directory.
StrayFile(name) ==
    \/ /\ \E dir_idx \in 0 .. Len(dirs) : AddFile(FileName(name, dir_idx))
       /\ p' = Past /\ pc' = "astray_files"
       /\ UNCHANGED <<unit, fmt, left, dirs>>
    \/ Fail

OverrunDir4 ==
    /\ pc = "dirs4" /\ Entry4(Len(dirs), DirsMax) /\ Nuls(c, p) = {}
    /\ \E s \in Strays : AddDir(SubSeq(c, p, Len(c)) \o s)
    /\ p' = Past /\ pc' = "astray_dirs"
    /\ UNCHANGED <<unit, fmt, left, files>>

OverrunFile4 ==
    /\ pc = "files4" /\ Entry4(Len(files), FilesMax) /\ Nuls(c, p) = {}
    /\ \E s \in Strays : StrayFile(SubSeq(c, p, Len(c)) \o s)

AstrayDir ==
    /\ pc = "astray_dirs" /\ Len(dirs) < DirsMax
    /\ \E s \in Strays \ {<<>>} : AddDir(s)
    /\ UNCHANGED <<pc, unit, p, fmt, left, files>>

AstrayDirsEnd ==
    /\ pc = "astray_dirs"
    /\ files' = <<-1>> /\ pc' = "astray_files"
    /\ UNCHANGED <<unit, p, fmt, left, dirs, strs>>

AstrayFile ==
    /\ pc = "astray_files" /\ Len(files) < FilesMax
    /\ \E s \in Strays \ {<<>>} : StrayFile(s)

\* The program starts where the header says: the cursor is back.
AstrayFilesEnd ==
    /\ pc = "astray_files"
    /\ pc' = "done"
    /\ UNCHANGED <<unit, p, fmt, left, dirs, files, strs>>

Fault ==
    /\ \/ pc = "dirs4" /\ Entry4(Len(dirs), DirsMax) /\ Nuls(c, p) = {}
       \/ pc = "files4" /\ Entry4(Len(files), FilesMax) /\ Nuls(c, p) = {}
       \/ pc \in {"astray_dirs", "astray_files"}
    /\ pc' = "crashed"
    /\ UNCHANGED <<unit, p, fmt, left, dirs, files, strs>>

----------------------------------------------------------------------------
(* Version 5 *)

\* Variant: one entry less than the table has room for.
TooManyEqual(n, max) == n >= max

TooMany(n, max) == n > max

\* The description of a table's entries and their number: [p, fmt, count].
Formats(q, max) ==
    LET n == Read(q, 1)
        f[k \in 0 .. FmtMax] ==
            IF k = 0 THEN [p |-> n.p, fmt |-> <<>>]
            ELSE LET before == f[k - 1]
                     lnct == bw_uleb(c, before.p)
                     form == bw_uleb(c, lnct.p)
                 IN  [p |-> form.p, fmt |-> Append(before.fmt, [lnct |-> lnct.v, form |-> form.v])]
        all == IF TooMany(n.v, FmtMax) THEN [p |-> 0, fmt |-> <<>>] ELSE f[n.v]
        count == bw_uleb(c, all.p)
    IN  [p |-> IF TooMany(count.v, max) THEN 0 ELSE count.p, fmt |-> all.fmt, count |-> count.v]

\* The fields of one entry, from p on; only a file has a directory.
Entry(inFiles) ==
    LET Field(e, f) ==
            CASE e.p = 0 -> e
              [] e.p # 0 /\ f.lnct = Lnct.PATH ->
                    LET r == bw_form_path(e.p, f.form) IN [e EXCEPT !.p = r.p, !.path = r.path]
              [] e.p # 0 /\ f.lnct = Lnct.DIRECTORY_INDEX /\ inFiles ->
                    LET r == bw_form_udata(e.p, f.form)
                    IN  [e EXCEPT !.p = r.p, !.dir_idx = r.v, !.have_dir = TRUE]
              [] OTHER -> [e EXCEPT !.p = bw_form_skip(e.p, f.form)]
        read[k \in 0 .. Len(fmt)] ==
            IF k = 0 THEN [p |-> p, path |-> <<>>, dir_idx |-> 0, have_dir |-> FALSE]
            ELSE Field(read[k - 1], fmt[k])
    IN  read[Len(fmt)]

Begin5(at, max, next) ==
    LET f == Formats(p, max)
    IN  /\ pc = at /\ left = 0 /\ unit.version >= 5
        /\ \/ /\ f.p # 0
              /\ p' = f.p /\ fmt' = f.fmt /\ left' = f.count /\ pc' = next
              /\ UNCHANGED <<unit, dirs, files, strs>>
           \/ f.p = 0 /\ Fail

BeginDirs5 == Begin5("tables", DirsMax, "dirs5")
BeginFiles5 == Begin5("dirs5", FilesMax, "files5")

Dir5 ==
    LET e == Entry(FALSE)
    IN  /\ pc = "dirs5" /\ left > 0
        /\ \/ /\ e.p # 0 /\ AddDir(e.path)
              /\ p' = e.p /\ left' = left - 1
              /\ UNCHANGED <<pc, unit, fmt, files>>
           \/ e.p = 0 /\ Fail

File5 ==
    LET e == Entry(TRUE)
        name == IF e.have_dir THEN FileName(e.path, e.dir_idx) ELSE e.path
        empty == e.have_dir /\ Joins(e.dir_idx) /\ name = <<>>
    IN  /\ pc = "files5" /\ left > 0
        /\ \/ /\ e.p # 0 /\ ~empty /\ AddFile(name)
              /\ p' = e.p /\ left' = left - 1
              /\ UNCHANGED <<pc, unit, fmt, dirs>>
           \/ (e.p = 0 \/ empty) /\ Fail

FilesEnd5 ==
    /\ pc = "files5" /\ left = 0
    /\ pc' = "done"
    /\ UNCHANGED <<unit, p, fmt, left, dirs, files, strs>>

----------------------------------------------------------------------------
bw_parse_unit(u) ==
    /\ pc = "idle"
    /\ unit' = u
    /\ pc' = "tables"
    /\ UNCHANGED <<p, fmt, left, dirs, files, strs>>

Next ==
    \/ pc = "idle" /\ \E u \in Units : bw_parse_unit(u)
    \/ Begin4 \/ Dir4 \/ DirsEnd4 \/ File4 \/ FilesEnd4
    \/ OverrunDir4 \/ OverrunFile4
    \/ AstrayDir \/ AstrayDirsEnd \/ AstrayFile \/ AstrayFilesEnd \/ Fault
    \/ BeginDirs5 \/ Dir5 \/ BeginFiles5 \/ File5 \/ FilesEnd5

Spec == Init /\ [][Next]_vars

----------------------------------------------------------------------------
\* The cursor leaves the section with a name of version 4 or before that has
\* no end, and in no other way; the tables and the pool never outgrow their
\* arrays, and every entry is the offset of a byte of the pool, wherever the
\* cursor is.
TypeOK ==
    /\ pc \in {"idle", "tables", "dirs4", "files4", "dirs5", "files5", "astray_dirs",
               "astray_files", "done", "failed", "crashed"}
    /\ \/ p \in 1 .. (Len(c) + 1) /\ pc \notin {"astray_dirs", "astray_files"}
       \/ /\ p = Past /\ unit.version < 5
          /\ pc \in {"astray_dirs", "astray_files", "done", "failed", "crashed"}
    /\ Len(dirs) <= DirsMax /\ Len(files) <= FilesMax
    /\ Len(strs) <= StrMax
    /\ \A o \in ToSet(dirs) \cup ToSet(files) : o = -1 \/ o \in 0 .. (Len(strs) - 1)

\* The first file of version 4 has number 1.
First == IF unit.version < 5 THEN 1 ELSE 0

\* The path that the format prescribes for a file: [name, abs, dir], dir the
\* name of its directory or empty.
Prescribed(f) ==
    IF f.abs \/ f.dir = <<>> THEN f.name
    ELSE IF f.dir[Len(f.dir)] = Slash THEN f.dir \o f.name
    ELSE f.dir \o <<Slash>> \o f.name

\* Neither a table, nor the pool, nor the buffer of a path is at its limit.
Fits ==
    /\ Len(unit.dirs) + First <= DirsMax /\ Len(unit.files) + First <= FilesMax
    /\ Len(strs) < StrMax
    /\ \A f \in ToSet(unit.files) : Len(Prescribed(f)) < JoinMax

\* bw_parse_unit: the tables of a sound unit that fits are read to their last
\* byte, and every file has the path that the format prescribes, whatever the
\* forms and the order of the fields, and whichever fields are passed over.
TablesExact ==
    (pc \in {"done", "failed"} /\ unit.sound /\ Fits) =>
        /\ pc = "done" /\ p = unit.len + 1
        /\ Len(files) = Len(unit.files) + First
        /\ \A k \in 1 .. Len(unit.files) :
              /\ files[k + First] >= 0
              /\ Text(strs, files[k + First] + 1) = Prescribed(unit.files[k])

\* bw_parse_unit, bw_add_str, bw_join_path: a file of a sound unit, also when
\* pool, buffer or file table are full, has the path that the format
\* prescribes, a beginning of it, or none; never that of something else.
NamesPrefix ==
    unit.sound => \A k \in (First + 1) .. Len(files) :
        files[k] >= 0 => /\ k - First \in 1 .. Len(unit.files)
                         /\ IsPrefix(Text(strs, files[k] + 1), Prescribed(unit.files[k - First]))

\* bw_cur_ok: tables that the end of the section cuts are refused, wherever
\* that is, in a number, an offset, a block, a path of version 5 or between
\* two fields.  Inside of a name of version 4 they are not: strlen knows no
\* end.
CutRefused == pc = "done" => unit.cut # "field"

\* bw_uleb and bw_sleb: a number ends with the first byte that is not
\* continued, and is refused if that byte is missing or starts past the top
\* of the word; otherwise it is the number that its digits denote, in two's
\* complement for bw_sleb, reduced to the width of the word.
LebMeaning ==
    pc = "idle" => \A b \in LebStrings :
        LET u == bw_uleb(b, 1)  s == bw_sleb(b, 1)
        IN  IF \E n \in Ends(b) : Weight[n - 1] < Word
            THEN LET n == CHOOSE m \in Ends(b) : TRUE
                 IN  /\ u.p = n + 1 /\ u.v = Total(b, n) % Word
                     /\ s.p = n + 1 /\ s.v % Word = Signed(b, n) % Word
                     /\ -Word <= 2 * s.v /\ 2 * s.v < Word
            ELSE u.p = 0 /\ s.p = 0
=============================================================================
