------------------------------ MODULE PeImage ------------------------------
(***************************************************************************)
(* bw_pe_load of src/src/win.c and the searches in what it has loaded,     *)
(* bw_pe_find and bw_pe_line, for one thread inside the critical section:  *)
(* the handles it opens, the COFF symbol loop with its bounded tables, the *)
(* sections, and the names and lines that bw_win_resolve then gives to a   *)
(* return address.                                                         *)
(*                                                                         *)
(* An image is given decoded: [sound (the headers can be read),            *)
(* image_base, nsec, strs (the COFF string table can be read), coff (the   *)
(* records of the symbol table, auxiliary ones included), sections, pdb    *)
(* (the functions a PDB knows)].  A symbol record is [naux, sec_num, isfcn,*)
(* value, name]; value is relative to the image.  A name is [id, at, len]: *)
(* at says where it stands ("short" for the record itself, "long" for the  *)
(* string table, "beyond" for an offset outside of it), id what it is.     *)
(* Addresses are relative to where the module could be loaded at lowest.   *)
(***************************************************************************)
EXTENDS SortedTable, FiniteSets

CONSTANTS
    Images,     \* the images that may be loaded
    Bases,      \* addresses a module may be loaded at
    Probes,     \* return addresses, relative to the module
    SymMax,     \* BW_PE_SYM_MAX
    NameMax     \* BW_PE_NAME_MAX

ASSUME TableSizes == SymMax \in Nat \ {0} /\ NameMax \in Nat /\ NameMax > 3

\* An image that can be read: numbers are numbers, what a name is says how long
\* it is, and rows are sorted, as bw_dwarf_tab_parse leaves them.
ImageOk(im) ==
    /\ im.image_base \in Int /\ Len(im.coff) \in Nat /\ Len(im.sections) \in Nat
    /\ \A p \in 1 .. Len(im.coff) :
          /\ im.coff[p].naux \in Nat /\ im.coff[p].value \in Int /\ im.coff[p].name.len \in Nat
          /\ \A q \in 1 .. Len(im.coff) :
                im.coff[p].name.id = im.coff[q].name.id => im.coff[p].name.len = im.coff[q].name.len
    /\ \A s \in 1 .. Len(im.sections) :
          LET rows == im.sections[s].rows
          IN  /\ Len(rows) \in Nat /\ \A m \in 1 .. Len(rows) : rows[m].addr \in Int
              /\ \A m, n \in 1 .. Len(rows) : m <= n => rows[m].addr <= rows[n].addr

ASSUME ImagesAssumption ==
    (\A im \in Images : ImageOk(im)) /\ Bases \subseteq Int /\ Probes \subseteq Int

VARIABLES
    pc,
    img,        \* the image being loaded
    module,     \* where it is loaded
    held,       \* handles and views that are open
    i,          \* index of the next symbol record, from 0
    syms,       \* bw_pe_syms up to bw_pe_nsym, with the names they refer to
    nlen,       \* bw_pe_nlen
    state,      \* bw_pe_state
    lines       \* the rows of bw_dwarf

vars == <<pc, img, module, held, i, syms, nlen, state, lines>>
tables == <<i, syms, nlen, state, lines>>

NoImage == [sound |-> FALSE, image_base |-> 0, nsec |-> 0, strs |-> FALSE, coff |-> <<>>,
            sections |-> <<>>, pdb |-> <<>>]

\* The tables are empty or those of another module.
Init ==
    /\ pc = "idle" /\ img = NoImage /\ module = 0 /\ held = {} /\ i = 0
    /\ \/ syms = <<>> /\ nlen = 0 /\ state = 0 /\ lines = <<>>
       \/ /\ syms = <<[addr |-> 0, id |-> "old", off |-> 0, kept |-> 3]>> /\ nlen = 4
          /\ state = 1 /\ lines = <<[addr |-> 0, file |-> "old"]>>

----------------------------------------------------------------------------
(* Opening and closing *)

\* Everything is reset first; without a path there is no file to open.
bw_pe_load(im, b) ==
    /\ pc = "idle"
    /\ img' = im /\ module' = b
    /\ i' = 0 /\ syms' = <<>> /\ nlen' = 0 /\ state' = -1 /\ lines' = <<>>
    /\ pc' \in {"CreateFileA", "done"}
    /\ UNCHANGED held

\* Variant: only what was opened last is closed.
CloseOnFailureLast(at) == held \ {IF at = "MapViewOfFile" THEN "map" ELSE "file"}

\* What the early return after the failure of a call leaves open.
CloseOnFailure(at) ==
    CASE at = "CreateFileA"   -> held
      [] at = "MapViewOfFile" -> held \ {"map", "file"}
      [] OTHER                -> held \ {"file"}

\* One call of the chain: it opens something, or fails.
Open(at, opens, next) ==
    /\ pc = at
    /\ \/ held' = held \cup opens /\ pc' = next
       \/ held' = CloseOnFailure(at) /\ pc' = "done"
    /\ UNCHANGED <<img, module, tables>>

CreateFile == Open("CreateFileA", {"file"}, "GetFileSizeEx")
GetFileSize == Open("GetFileSizeEx", {}, "CreateFileMappingA")
CreateFileMapping == Open("CreateFileMappingA", {"map"}, "MapViewOfFile")
MapView == Open("MapViewOfFile", {"view"}, "headers")

\* The headers; a break leads to the closing calls.
Headers ==
    /\ pc = "headers"
    /\ pc' = IF img.sound THEN "symbols" ELSE "close"
    /\ UNCHANGED <<img, module, held, tables>>

Close ==
    /\ pc = "close"
    /\ held' = held \ {"view", "map", "file"}
    /\ pc' = "done"
    /\ UNCHANGED <<img, module, tables>>

----------------------------------------------------------------------------
(* The symbol loop *)

Rec == img.coff[i + 1]

\* Variant: auxiliary records are read as symbols.
AuxSkipNone == 0

\* Auxiliary records follow the record they belong to.
AuxSkip == Rec.naux

\* A record whose auxiliary records would lie past the end.
AuxOverrun == AuxSkip # 0 /\ i + AuxSkip >= Len(img.coff)

\* A function in a section, with a name that can be read and is not that of
\* a section.
Wanted ==
    /\ Rec.sec_num \in 1 .. img.nsec
    /\ Rec.isfcn
    /\ Rec.name.at = "short" \/ (Rec.name.at = "long" /\ img.strs)
    /\ Rec.name.len > 0 /\ Rec.name.id # "."

\* Variant: the terminator is not counted.
NameRoomNoNul == NameMax - nlen

\* What bw_pe_add_name can still take besides a terminator.
NameRoom == NameMax - nlen - 1

\* The part of the name that bw_pe_add_name stores, 0 for its failure.
bw_pe_add_name == IF Rec.name.len <= NameRoom THEN Rec.name.len
                  ELSE IF NameRoom > 0 THEN NameRoom ELSE 0

More == i < Len(img.coff) /\ Len(syms) < SymMax

SymbolSkip ==
    /\ pc = "symbols"
    /\ More /\ ~AuxOverrun /\ ~Wanted
    /\ i' = i + AuxSkip + 1
    /\ UNCHANGED <<pc, img, module, held, syms, nlen, state, lines>>

SymbolTake ==
    /\ pc = "symbols"
    /\ More /\ ~AuxOverrun /\ Wanted /\ bw_pe_add_name # 0
    /\ syms' = Append(syms, [addr |-> module + Rec.value, id |-> Rec.name.id,
                             off |-> nlen, kept |-> bw_pe_add_name])
    /\ nlen' = nlen + bw_pe_add_name + 1
    /\ i' = i + AuxSkip + 1
    /\ UNCHANGED <<pc, img, module, held, state, lines>>

\* The end of the loop, by its condition or a break, and the sort.
SymbolsEnd ==
    /\ pc = "symbols"
    /\ More => AuxOverrun \/ (Wanted /\ bw_pe_add_name = 0)
    /\ syms' \in Sortings(syms)
    /\ state' = IF syms = <<>> THEN state ELSE 1
    /\ pc' = "sections"
    /\ UNCHANGED <<img, module, held, i, nlen, lines>>

----------------------------------------------------------------------------
(* The sections: [name, long (the name stands in the string table), data    *)
(* (the raw data lie in the file), rows].                                   *)

\* bw_section_name: the string table exists only beside a symbol table.
NameOf(s) == IF s.long /\ (img.coff = <<>> \/ ~img.strs) THEN "/" ELSE s.name

\* The last .debug_line with data counts; bw_dwarf_tab_parse gives its rows.
Sections ==
    LET found == {s \in 1 .. Len(img.sections) :
                    NameOf(img.sections[s]) = ".debug_line" /\ img.sections[s].data}
    IN  /\ pc = "sections"
        /\ lines' = IF found = {} THEN <<>>
                    ELSE img.sections[CHOOSE s \in found : \A r \in found : r <= s].rows
        /\ pc' = "close"
        /\ UNCHANGED <<img, module, held, i, syms, nlen, state>>

Next ==
    \/ pc = "idle" /\ \E im \in Images, b \in Bases : bw_pe_load(im, b)
    \/ CreateFile \/ GetFileSize \/ CreateFileMapping \/ MapView \/ Headers
    \/ SymbolSkip \/ SymbolTake \/ SymbolsEnd \/ Sections \/ Close

Spec == Init /\ [][Next]_vars

----------------------------------------------------------------------------
(* The answers, for a return address ip; a set of at most one. *)

EntryOf(t, addr) == {t[m] : m \in {Search(t, addr) + 1} \ {0}}

bw_pe_find(probe) == IF state # 1 THEN {} ELSE {s.id : s \in EntryOf(syms, probe)}

\* Variant: the rows are searched with the address of the process.
LinkedNot(probe) == probe

\* Rows have link-time addresses.
Linked(probe) == IF img.image_base # 0 THEN img.image_base + (probe - module) ELSE probe

bw_pe_line(probe) == {r.file : r \in EntryOf(lines, Linked(probe))}

\* SymFromAddr: external, the function of the PDB at or before the address.
SymFromAddr(addr) == {s.id : s \in EntryOf(img.pdb, addr - module)}

\* SymGetLineFromAddr64: likewise; the file of a function bears its name.
SymGetLineFromAddr64(addr) == SymFromAddr(addr)

\* The order in which bw_win_resolve asks.
Name(ip) ==
    CASE SymFromAddr(ip) # {}     -> SymFromAddr(ip)
      [] SymFromAddr(ip - 1) # {} -> SymFromAddr(ip - 1)
      [] OTHER                    -> bw_pe_find(ip - 1)

Line(ip) ==
    CASE SymGetLineFromAddr64(ip - 1) # {} -> SymGetLineFromAddr64(ip - 1)
      [] SymGetLineFromAddr64(ip) # {}     -> SymGetLineFromAddr64(ip)
      [] OTHER                             -> bw_pe_line(ip - 1)

----------------------------------------------------------------------------
\* bw_pe_load: whichever call fails or header is unsound, no handle and no
\* view stays open.
HandlesClosed == pc \in {"idle", "done"} => held = {}

\* The primary records, by the format: the least set that has the first and,
\* with each, the one behind its auxiliary records.
Primary ==
    LET N == 1 .. Len(img.coff)
    IN  {p \in N : \A S \in SUBSET N :
            ((1 \in S) /\ \A q \in S : q + img.coff[q].naux + 1 \in N => q + img.coff[q].naux + 1 \in S)
                => p \in S}

\* A record of a function in a section, with a name that can be read.
IsFunction(im, p) ==
    /\ im.coff[p].isfcn /\ im.coff[p].sec_num \in 1 .. im.nsec
    /\ im.coff[p].name.id # "." /\ im.coff[p].name.len > 0
    /\ im.coff[p].name.at = "short" \/ (im.coff[p].name.at = "long" /\ im.strs)

\* The functions of the image.
Functions == {p \in Primary : IsFunction(img, p) /\ p + img.coff[p].naux <= Len(img.coff)}

Loaded == pc = "done" /\ state = 1

\* The loop has seen every record, and the pool is not full.
Fits == (i < Len(img.coff) => AuxOverrun) /\ nlen < NameMax

\* bw_pe_load: as long as table and pool have room, exactly the functions of
\* the image are in the table, each at its address and under its own full
\* name: no auxiliary record is taken for a symbol and none is left out.
SymbolsExact ==
    (Loaded /\ Fits) =>
        /\ Len(syms) = Cardinality(Functions)
        /\ \A p \in Functions : \E m \in 1 .. Len(syms) :
              /\ syms[m].addr = module + img.coff[p].value /\ syms[m].id = img.coff[p].name.id
              /\ syms[m].kept = img.coff[p].name.len

\* bw_pe_add_name and the symbol loop: with a full table or a full pool the
\* symbols and the names still lie inside of them, the names one behind the
\* other, and only the last that was added can be cut short.
PoolSound ==
    /\ Len(syms) <= SymMax
    /\ \A m \in 1 .. Len(syms) :
           /\ syms[m].off + syms[m].kept + 1 <= NameMax
           /\ \A n \in 1 .. Len(syms) : n # m =>
                 \/ syms[m].off + syms[m].kept < syms[n].off
                 \/ syms[n].off + syms[n].kept < syms[m].off
           /\ \A p \in Functions :
                 (img.coff[p].name.id = syms[m].id /\ syms[m].kept < img.coff[p].name.len) =>
                     \A n \in 1 .. Len(syms) : syms[n].off <= syms[m].off

\* The function that the call instruction before ip belongs to.
CallerOf(ip) ==
    LET below == {p \in Functions : module + img.coff[p].value <= ip - 1}
    IN  {img.coff[p].name.id : p \in {q \in below : \A r \in below : img.coff[r].value <= img.coff[q].value}}

RowsOfFunctions ==
    /\ img.image_base # 0
    /\ {<<lines[m].addr, lines[m].file>> : m \in 1 .. Len(lines)}
          = {<<img.image_base + img.coff[p].value, img.coff[p].name.id>> : p \in Functions}

\* bw_win_resolve: a frame gets the name of the function that made the call
\* and the source line of the same function, wherever the image was linked
\* and loaded, also when the call is the last instruction of its function.
\* The lines are asserted of images with a row at each function's start.
SiteResolved ==
    (Loaded /\ Fits) => \A p \in Probes :
        /\ Name(module + p) = CallerOf(module + p)
        /\ RowsOfFunctions => Line(module + p) = CallerOf(module + p)

\* Images whose frames have one answer: no PDB, and functions that start at the
\* same address have the same name.
OneAnswerEach(im) ==
    /\ im.pdb = <<>>
    /\ \A p, q \in 1 .. Len(im.coff) :
          (IsFunction(im, p) /\ IsFunction(im, q) /\ im.coff[p].value = im.coff[q].value) =>
              im.coff[p].name.id = im.coff[q].name.id

\* What doc/usage.md says of sname and src: the function name and the source
\* file of the call site, that is, of one place in the program.
NameAndLineAgree ==
    pc = "done" => \A p \in Probes :
        (Name(module + p) # {} /\ Line(module + p) # {}) => Name(module + p) = Line(module + p)
=============================================================================
