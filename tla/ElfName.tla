------------------------------ MODULE ElfName ------------------------------
(***************************************************************************)
(* bw_frame_process of src/src/backwalk.c on Linux: what a return address  *)
(* is reported as.  dladdr1 is external; when it knows the object but no   *)
(* symbol, bw_elf_sname searches the object's file, whose calls may fail.  *)
(* A file is given decoded: [sound (the headers can be read), tables]; a   *)
(* section of type SHT_SYMTAB is [usable (it and its string table lie in   *)
(* the file), syms, strs].  A symbol's st_name is an index into strs (0 or *)
(* past its end where the code compares with 0 and strtab_sz), whose       *)
(* entries are [id, len].                                                  *)
(***************************************************************************)
EXTENDS Integers, Sequences, FiniteSets

CONSTANTS
    Files,      \* contents the object's file may have
    Ips,        \* return addresses
    Infos,      \* what dladdr1 may answer: [found, fname, sname, fbase, l_addr]
    OutSize,    \* sizeof(sname_buf)
    None        \* NULL, "?"

ASSUME BufferAssumption == OutSize \in Nat /\ OutSize > 1

\* A table that can be read: values and sizes are numbers, strings have a
\* length, and neither a symbol nor a name is NULL.
TableOk(x) ==
    /\ Len(x.syms) \in Nat /\ Len(x.strs) \in Nat
    /\ \A n \in 1 .. Len(x.syms) :
          x.syms[n] # None /\ x.syms[n].value \in Int /\ x.syms[n].size \in Nat
    /\ \A n \in 1 .. Len(x.strs) :
          /\ DOMAIN x.strs[n] = {"id", "len"} /\ x.strs[n].len \in Nat
          /\ \A l \in 0 .. OutSize : [x.strs[n] EXCEPT !.len = l] # None

FileOk(f) ==
    /\ Len(f.tables) \in Nat
    /\ \A t \in 1 .. Len(f.tables) : f.tables[t].usable => TableOk(f.tables[t])

ASSUME FilesAssumption == \A f \in Files : FileOk(f)

ASSUME AddressAssumption ==
    /\ Ips \subseteq Int
    /\ \A d \in Infos : d.fbase \in Int /\ d.l_addr \in Int \cup {None}

VARIABLES
    pc,
    ip,         \* the return address
    info,       \* dladdr1's answer
    file,       \* the object's file
    fd, map,    \* whether the descriptor is open and the file mapped
    i, s,       \* indices of the section and the symbol, from 1
    best,       \* the best symbol, or None
    strtab,     \* the string table
    frame       \* what the callback is given: [mod_addr, fname, sname]

vars == <<pc, ip, info, file, fd, map, i, s, best, strtab, frame>>
search == <<i, s, best, strtab>>
call == <<ip, info, file>>

Unknown == [mod_addr |-> 0, fname |-> None, sname |-> None]

NoFile == [sound |-> FALSE, tables |-> <<>>]

NoInfo == [found |-> FALSE, fname |-> None, sname |-> None, fbase |-> 0, l_addr |-> None]

Init ==
    /\ pc = "idle" /\ ip = 1 /\ info = NoInfo /\ file = NoFile
    /\ fd = FALSE /\ map = FALSE
    /\ i = 1 /\ s = 1 /\ best = None /\ strtab = <<>>
    /\ frame = Unknown

----------------------------------------------------------------------------
bw_frame_process(a, d, f) ==
    /\ pc = "idle"
    /\ ip' = a /\ info' = d /\ file' = f
    /\ frame' = IF d.found
                THEN [mod_addr |-> a - d.fbase, fname |-> d.fname,
                      sname |-> IF d.sname = None THEN None ELSE [id |-> d.sname, len |-> 1]]
                ELSE Unknown
    /\ pc' = IF d.found /\ d.sname = None /\ d.fname \notin {None, ""} THEN "open" ELSE "callback"
    /\ UNCHANGED <<fd, map, search>>

\* Variant: the descriptor is not closed.
FdAfterStatFailureOpen == fd

FdAfterStatFailure == FALSE

\* A call of bw_elf_sname succeeds, or fails and the search is over.
OpenFile ==
    /\ pc = "open"
    /\ \/ fd' = TRUE /\ pc' = "fstat"
       \/ pc' = "callback" /\ UNCHANGED fd
    /\ UNCHANGED <<call, map, search, frame>>

Fstat ==
    /\ pc = "fstat"
    /\ \/ pc' = "mmap" /\ UNCHANGED fd
       \/ fd' = FdAfterStatFailure /\ pc' = "callback"
    /\ UNCHANGED <<call, map, search, frame>>

\* The descriptor is closed whether or not the mapping succeeded.
Mmap ==
    /\ pc = "mmap"
    /\ fd' = FALSE
    /\ \/ map' = TRUE /\ pc' = "headers"
       \/ pc' = "callback" /\ UNCHANGED map
    /\ UNCHANGED <<call, search, frame>>

Headers ==
    /\ pc = "headers"
    /\ i' = 1 /\ s' = 1 /\ best' = None /\ strtab' = <<>>
    /\ pc' = IF file.sound THEN "sections" ELSE "munmap"
    /\ UNCHANGED <<call, fd, map, frame>>

Section ==
    /\ pc = "sections" /\ i <= Len(file.tables)
    /\ IF file.tables[i].usable
       THEN strtab' = file.tables[i].strs /\ s' = 1 /\ pc' = "symbols" /\ UNCHANGED i
       ELSE i' = i + 1 /\ UNCHANGED <<strtab, s, pc>>
    /\ UNCHANGED <<call, fd, map, best, frame>>

Bias == IF info.l_addr # None THEN info.l_addr ELSE info.fbase

\* Variant: the return address itself.
ProbeIp == ip

Probe == ip - 1

Candidate(y) ==
    /\ y.func /\ y.defined /\ y.size # 0 /\ y.st_name \in 1 .. Len(strtab)
    /\ Probe >= Bias + y.value /\ Probe < Bias + y.value + y.size

Symbol ==
    LET y == file.tables[i].syms[s]
    IN  /\ pc = "symbols" /\ s <= Len(file.tables[i].syms)
        /\ best' = IF Candidate(y) /\ (best = None \/ y.value >= best.value) THEN y ELSE best
        /\ s' = s + 1
        /\ UNCHANGED <<pc, call, fd, map, i, strtab, frame>>

SymbolsEnd ==
    /\ pc = "symbols" /\ s > Len(file.tables[i].syms)
    /\ i' = i + 1 /\ pc' = "sections"
    /\ UNCHANGED <<call, fd, map, s, best, strtab, frame>>

\* Variant: no room is left for the terminator.
NameRoomNoNul == OutSize

NameRoom == OutSize - 1

\* The name is read from the string table that was seen last.
SectionsEnd ==
    LET known == best # None /\ best.st_name \in 1 .. Len(strtab) /\ strtab[best.st_name].len > 0
        name == strtab[best.st_name]
    IN  /\ pc = "sections" /\ i > Len(file.tables)
        /\ frame' = IF known
                    THEN [frame EXCEPT !.sname = [name EXCEPT !.len =
                                                    IF @ <= NameRoom THEN @ ELSE NameRoom]]
                    ELSE frame
        /\ pc' = "munmap"
        /\ UNCHANGED <<call, fd, map, search>>

Munmap ==
    /\ pc = "munmap"
    /\ map' = FALSE
    /\ pc' = "callback"
    /\ UNCHANGED <<call, fd, search, frame>>

Callback ==
    /\ pc = "callback"
    /\ pc' = "idle"
    /\ i' = 1 /\ s' = 1 /\ best' = None /\ strtab' = <<>> /\ frame' = Unknown
    /\ ip' = 1 /\ info' = NoInfo /\ file' = NoFile
    /\ UNCHANGED <<fd, map>>

Next ==
    \/ pc = "idle" /\ \E a \in Ips, d \in Infos, f \in Files : bw_frame_process(a, d, f)
    \/ OpenFile \/ Fstat \/ Mmap \/ Headers \/ Section \/ Symbol \/ SymbolsEnd \/ SectionsEnd
    \/ Munmap \/ Callback

Spec == Init /\ [][Next]_vars

----------------------------------------------------------------------------
\* The loops of bw_elf_sname: symbols are read from a section of the file that
\* can be read, and either index is at most one past the last, where its loop
\* ends; a name never fills its buffer.
TypeOK ==
    /\ pc \in {"idle", "open", "fstat", "mmap", "headers", "sections", "symbols", "munmap", "callback"}
    /\ fd \in BOOLEAN /\ map \in BOOLEAN
    /\ i \in 1 .. (Len(file.tables) + 1) /\ s \in Nat
    /\ pc = "symbols" => /\ i <= Len(file.tables) /\ file.tables[i].usable
                         /\ s \in 1 .. (Len(file.tables[i].syms) + 1)
    /\ frame.sname # None => frame.sname.len < OutSize

\* bw_elf_sname: whichever of its calls fails or check breaks off, neither
\* the descriptor nor the mapping outlives it.
ResourcesReleased == pc \in {"idle", "callback"} => ~fd /\ ~map

\* The functions of the file, with the slot of their name.
FunctionsOf(f) ==
    UNION {{[from |-> y.value, to |-> y.value + y.size, name |-> f.tables[t].strs[y.st_name]] :
              y \in {f.tables[t].syms[n] : n \in {m \in 1 .. Len(f.tables[t].syms) :
                        LET z == f.tables[t].syms[m]
                        IN  /\ z.func /\ z.defined
                            /\ z.st_name \in 1 .. Len(f.tables[t].strs)}}} :
           t \in {u \in 1 .. Len(f.tables) : f.tables[u].usable}}

\* The innermost functions that contain the call instruction before ip.
CallersOf(f) ==
    LET around == {x \in FunctionsOf(f) : x.from <= (ip - 1) - Bias /\ (ip - 1) - Bias < x.to}
    IN  {x \in around : \A y \in around : y.from <= x.from}

OneTable == \A t, u \in 1 .. Len(file.tables) : file.tables[t].usable /\ file.tables[u].usable => t = u

\* bw_frame_process: a name that the fallback finds is the name, or the part
\* of it that the buffer holds, of the innermost function around the call
\* instruction, also when the call is the last instruction of its function;
\* and with a sound file that has one, a name is found.  For files with one
\* symbol table, which is all that ELF allows.
FunctionNamed ==
    (pc = "munmap" /\ OneTable /\ file.sound) =>
        IF frame.sname = None
        THEN \A x \in CallersOf(file) : x.name.len = 0 \/ Cardinality(CallersOf(file)) > 1
        ELSE \E x \in CallersOf(file) :
                /\ frame.sname.id = x.name.id
                /\ frame.sname.len = (IF x.name.len < OutSize THEN x.name.len ELSE OutSize - 1)
=============================================================================
