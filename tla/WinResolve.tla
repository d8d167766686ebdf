----------------------------- MODULE WinResolve -----------------------------
(***************************************************************************)
(* bw_win_resolve of src/src/win.c, called by several threads: the one-    *)
(* time initialisation, the critical section, and the tables of one module *)
(* (COFF symbols and DWARF lines) that it guards.  A name or a source line *)
(* is abstracted to the image it was read from (PeImage has what is inside *)
(* an image); the process loads and unloads images meanwhile.  DbgHelp,    *)
(* the loader and the Windows synchronisation objects are external.        *)
(***************************************************************************)
EXTENDS Integers, FiniteSets

CONSTANTS
    Threads,
    Bases,      \* module handles: the addresses images are loaded at
    Images,     \* image files
    PdbImages,  \* those with a PDB, which DbgHelp reads
    CoffImages, \* those with a COFF symbol table
    DwarfImages,\* those with a .debug_line section
    Readable,   \* those that CreateFileA and the mapping calls can open
    None,       \* NULL, the empty path, "?"
    MayUnload   \* whether the process unloads images

ASSUME ImageAssumption ==
    /\ PdbImages \cup CoffImages \cup DwarfImages \cup Readable \subseteq Images
    /\ None \notin Images \cup Bases \cup Threads
    /\ MayUnload \in BOOLEAN

VARIABLES
    th,         \* the call of each thread: pc and locals, see Idle
    once,       \* bw_sym_once: "no", "running", "done"
    csInits,    \* how often bw_sym_cs has been initialised
    cs,         \* owner of bw_sym_cs
    sym_ok,     \* bw_sym_ok
    pe,         \* bw_pe_mod, bw_pe_state, the symbols and the lines
    mapped      \* the image loaded at each base

vars == <<th, once, csInits, cs, sym_ok, pe, mapped>>
sync == <<once, csInits, cs, sym_ok>>

\* ip is the module that holds the address to resolve, or None; module and
\* path are what the loader says of it; dbg is DbgHelp's answer; then is
\* where bw_pe_load returns to; seen is history: the images mapped at ip
\* since the call began.
Idle == [pc |-> "idle", ip |-> None, module |-> None, path |-> None, sname |-> None,
         src |-> None, dbg |-> [name |-> None, line |-> None], then |-> "name", seen |-> {}]

EmptyTables == [mod |-> None, state |-> 0, syms |-> None, dwarf |-> None]

Init ==
    /\ th = [t \in Threads |-> Idle]
    /\ once = "no" /\ csInits = 0 /\ cs = None /\ sym_ok = FALSE
    /\ pe = EmptyTables
    /\ mapped = [b \in Bases |-> None]

Goto(t, from, to) == th[t].pc = from /\ th' = [th EXCEPT ![t].pc = to]

----------------------------------------------------------------------------
\* The call, for an address in the module at b, or in none.  The outputs are
\* first set to "?".
Resolve(t, b) ==
    /\ th[t].pc = "idle"
    /\ th' = [th EXCEPT ![t] = [Idle EXCEPT !.pc = "once", !.ip = b,
                                  !.seen = IF b = None THEN {} ELSE {mapped[b]}]]
    /\ UNCHANGED <<sync, pe, mapped>>

\* For a null address it returns with nothing known.
ResolveNull(t) ==
    /\ th[t].pc = "idle"
    /\ th' = [th EXCEPT ![t] = [Idle EXCEPT !.pc = "done"]]
    /\ UNCHANGED <<sync, pe, mapped>>

\* InitOnceExecuteOnce: the first thread runs bw_sym_init ...
OnceBegin(t) ==
    /\ once = "no"
    /\ once' = "running"
    /\ Goto(t, "once", "init_cs")
    /\ UNCHANGED <<csInits, cs, sym_ok, pe, mapped>>

bw_sym_init_cs(t) ==
    /\ csInits' = csInits + 1
    /\ Goto(t, "init_cs", "init_sym")
    /\ UNCHANGED <<once, cs, sym_ok, pe, mapped>>

bw_sym_init_sym(t) ==
    /\ sym_ok' \in BOOLEAN
    /\ once' = "done"
    /\ Goto(t, "init_sym", "module")
    /\ UNCHANGED <<csInits, cs, pe, mapped>>

\* Variant: a thread does not wait for the initialisation of another.
OnceReadyEarly == once # "no"

OnceReady == once = "done"

\* ... and the others wait for its end.
OncePassed(t) ==
    /\ OnceReady
    /\ Goto(t, "once", "module")
    /\ UNCHANGED <<sync, pe, mapped>>

\* GetModuleHandleExA; the reference count of the module is not raised.
GetModule(t) ==
    LET there == th[t].ip # None /\ mapped[th[t].ip] # None
    IN  /\ th[t].pc = "module"
        /\ th' = [th EXCEPT ![t].module = IF there THEN th[t].ip ELSE None,
                            ![t].pc = IF there THEN "path" ELSE "enter"]
        /\ UNCHANGED <<sync, pe, mapped>>

\* GetModuleFileNameA, of whatever is at the handle by now.
GetPath(t) ==
    /\ th[t].pc = "path"
    /\ th' = [th EXCEPT ![t].path = mapped[th[t].module], ![t].pc = "enter"]
    /\ UNCHANGED <<sync, pe, mapped>>

Enter(t) ==
    /\ cs = None
    /\ cs' = t
    /\ Goto(t, "enter", "dbghelp")
    /\ UNCHANGED <<once, csInits, sym_ok, pe, mapped>>

\* SymFromAddr and SymGetLineFromAddr64: for an image with a PDB, a name, a
\* line, both or neither; DbgHelp need not know an image loaded after
\* SymInitialize.
DbgHelp(t) ==
    LET known == {img \in PdbImages : sym_ok /\ th[t].ip # None /\ mapped[th[t].ip] = img}
    IN  /\ th[t].pc = "dbghelp"
        /\ \E n, l \in known \cup {None} :
              th' = [th EXCEPT ![t].dbg = [name |-> n, line |-> l], ![t].pc = "name"]
        /\ UNCHANGED <<sync, pe, mapped>>

\* Variant: the tables are loaded once and for all.
NeedsLoadNever(t) == th[t].module # None /\ pe.mod = None

\* bw_pe_mod != module
NeedsLoad(t) == th[t].module # None /\ pe.mod # th[t].module

\* bw_pe_find and bw_pe_line first load the tables if they are another
\* module's.
CallLoad(t) ==
    /\ \/ th[t].pc = "name" /\ th[t].dbg.name = None
       \/ th[t].pc = "line" /\ th[t].dbg.line = None
    /\ NeedsLoad(t)
    /\ th' = [th EXCEPT ![t].pc = "load", ![t].then = th[t].pc]
    /\ UNCHANGED <<sync, pe, mapped>>

\* The name comes from DbgHelp, or from bw_pe_find.  The address is taken to
\* lie at or above the first symbol and the first line.
Name(t) ==
    LET found == CASE th[t].dbg.name # None -> th[t].dbg.name
                   [] th[t].module # None /\ pe.state = 1 -> pe.syms
                   [] OTHER -> None
    IN  /\ th[t].pc = "name"
        /\ th[t].dbg.name # None \/ ~NeedsLoad(t)
        /\ th' = [th EXCEPT ![t].sname = found, ![t].pc = "line"]
        /\ UNCHANGED <<sync, pe, mapped>>

\* The line: the same, with bw_pe_line.
Line(t) ==
    LET found == CASE th[t].dbg.line # None -> th[t].dbg.line
                   [] th[t].module # None -> pe.dwarf
                   [] OTHER -> None
    IN  /\ th[t].pc = "line"
        /\ th[t].dbg.line # None \/ ~NeedsLoad(t)
        /\ th' = [th EXCEPT ![t].src = found, ![t].pc = "leave"]
        /\ UNCHANGED <<sync, pe, mapped>>

----------------------------------------------------------------------------
(* bw_pe_load *)

\* Variant: after a load the name is not searched.
AfterSkipsName(t) == "line"

After(t) == th[t].then

\* Variant: the lines of the module before are left.
ResetTablesKeepLines(t) == [mod |-> th[t].module, state |-> -1, syms |-> None, dwarf |-> pe.dwarf]

ResetTables(t) == [mod |-> th[t].module, state |-> -1, syms |-> None, dwarf |-> None]

\* The tables are emptied and marked "none" first; an unreadable file or an
\* empty path leaves them so.
LoadReset(t) ==
    /\ pe' = ResetTables(t)
    /\ Goto(t, "load", IF th[t].path \in Readable THEN "syms" ELSE After(t))
    /\ UNCHANGED <<sync, mapped>>

LoadSyms(t) ==
    /\ pe' = IF th[t].path \in CoffImages
             THEN [pe EXCEPT !.state = 1, !.syms = th[t].path] ELSE pe
    /\ Goto(t, "syms", "dwarf")
    /\ UNCHANGED <<sync, mapped>>

LoadDwarf(t) ==
    /\ pe' = IF th[t].path \in DwarfImages THEN [pe EXCEPT !.dwarf = th[t].path] ELSE pe
    /\ Goto(t, "dwarf", After(t))
    /\ UNCHANGED <<sync, mapped>>

\* Variant: the section is not left.
ReleasedNever == cs

Released == None

\* Leaving; the outputs are the caller's from here on.
Leave(t) ==
    /\ cs' = Released
    /\ Goto(t, "leave", "done")
    /\ UNCHANGED <<once, csInits, sym_ok, pe, mapped>>

\* The frame's callback has run; the thread goes on to another frame.
Return(t) ==
    /\ Goto(t, "done", "idle")
    /\ UNCHANGED <<sync, pe, mapped>>

----------------------------------------------------------------------------
(* The process loads and unloads images. *)

LoadImage(b, img) ==
    /\ mapped[b] = None
    /\ \A c \in Bases : mapped[c] # img
    /\ mapped' = [mapped EXCEPT ![b] = img]
    /\ th' = [t \in Threads |-> IF th[t].ip = b THEN [th[t] EXCEPT !.seen = @ \cup {img}] ELSE th[t]]
    /\ UNCHANGED <<sync, pe>>

UnloadImage(b) ==
    /\ MayUnload
    /\ mapped[b] # None
    /\ mapped' = [mapped EXCEPT ![b] = None]
    /\ UNCHANGED <<th, sync, pe>>

Step(t) ==
    \/ OnceBegin(t) \/ bw_sym_init_cs(t) \/ bw_sym_init_sym(t) \/ OncePassed(t)
    \/ GetModule(t) \/ GetPath(t) \/ Enter(t) \/ DbgHelp(t) \/ CallLoad(t) \/ Name(t) \/ Line(t)
    \/ LoadReset(t) \/ LoadSyms(t) \/ LoadDwarf(t) \/ Leave(t)

Next ==
    \/ \E t \in Threads : Step(t) \/ Return(t) \/ ResolveNull(t)
    \/ \E t \in Threads, b \in Bases \cup {None} : Resolve(t, b)
    \/ \E b \in Bases : UnloadImage(b) \/ \E img \in Images : LoadImage(b, img)

Spec == Init /\ [][Next]_vars

\* Threads run, and the critical section is not withheld from a thread for
\* ever.
FairSpec == Spec /\ \A t \in Threads : WF_vars(Step(t)) /\ SF_vars(Enter(t))

----------------------------------------------------------------------------
InSection == {"dbghelp", "name", "line", "load", "syms", "dwarf", "leave"}

Image == Images \cup {None}

Base == Bases \cup {None}

\* bw_sym_init: the critical section is initialised exactly once, and before
\* any thread comes to enter it.
InitialisedOnce ==
    /\ csInits <= 1
    /\ \A t \in Threads : th[t].pc \in InSection \cup {"module", "path", "enter"} => csInits = 1

\* bw_pe_load: whenever nobody is in the critical section, the tables are
\* complete and belong to one image: symbols and lines are never of two, and
\* nothing is left of the module that was there before.
TablesCoherent ==
    cs = None =>
        /\ pe.state = 1 <=> pe.syms # None
        /\ pe.syms # None /\ pe.dwarf # None => pe.syms = pe.dwarf
        /\ pe.syms \in DwarfImages \/ pe.dwarf \in CoffImages => pe.dwarf = pe.syms

\* bw_win_resolve: the name and the line of a frame are those of an image
\* that was mapped at its address during the call, or "?".  This is for a
\* process that does not unload images: where one is unloaded, the handle may
\* come to mean another image while the tables are those of the first.
NamesCurrent ==
    \A t \in Threads : th[t].pc = "done" => {th[t].sname, th[t].src} \subseteq {None} \cup th[t].seen

\* bw_win_resolve: a frame of an image that is mapped throughout the call
\* and has a readable symbol table gets a name, whichever modules other
\* threads have put into the single-entry tables meanwhile.
KnownNamed ==
    \A t \in Threads, img \in Readable \cap CoffImages :
        (th[t].pc = "done" /\ th[t].seen = {img}) => th[t].sname = img

\* Every call returns.
ResolveReturns == \A t \in Threads : th[t].pc = "once" ~> th[t].pc = "done"
=============================================================================
