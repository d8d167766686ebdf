# A verification project for backwalk

backwalk walks the stack of the calling thread and gives each frame to a
callback. On Unix it follows saved frame pointers; on Windows it uses
`CaptureStackBackTrace`, DbgHelp, and its own readers of COFF symbols and DWARF
lines. This directory models the library in TLA+, checks the models with TLC
and proves the main results with TLAPS. Paths below are relative to the
repository; line numbers are those of the modelled commit and are given per
definition in `PROJECT.json` under `map`.

## Inventory

| component | source | state | operations | hard because |
|---|---|---|---|---|
| frame-pointer unwinder | `src/context.c`, `src/asm/` | `context_t`: `data[0]` fp, `data[1]` ip | `context_init`, `context_step`, `context_get_ip` | it dereferences words it found in memory; checks are split over two steps; frame-pointer cycles |
| public interface, Unix | `src/backwalk.c` | `bw_context`: `ip[]`, `ip_cnt`, `ip_max_cnt` | `bw_backtrace`, `mkbw_context`, `bw_backtrace_collect`, `bw_backtrace_process`, `bw_context_fini` | malloc'ed memory is not initialised; contexts are used again; two allocations |
| ticket | `src/common.c` | mutex, condition variable, flag | `ticket_signal`, `ticket_wait` | interleavings, spurious wake-ups, one notification per signal |
| stack walk, Windows | `src/win.c`, `src/backwalk.c` | the same `bw_context` | `bw_win_capture` and the calls around it | 16-bit count, cap of 64 |
| name resolution, Windows | `src/win.c` | `bw_sym_once`, `bw_sym_cs`, `bw_sym_ok`, one module's tables | `bw_sym_init`, `bw_win_resolve`, `bw_pe_load`, `bw_pe_find`, `bw_pe_line` | threads share static tables; images come and go; handles, pools and tables of bounded size; two address spaces |
| DWARF line table | `src/dwarf_line.c` | rows, string pool | `bw_dwarf_tab_parse`, `_reset`, `_lookup` | a state machine with carried registers; two layouts of tables and two dozen forms, read from bytes; limits; unstable sort |
| ELF symbol fallback | `src/backwalk.c` | a descriptor and a mapping, during the call | `bw_elf_sname` | calls that fail one by one; symbols that touch and nest |
| frame resolution, Unix | `src/backwalk.c` | none | `bw_frame_process` | the call before a return address may end its function |
| collecting in a signal handler | `src/backwalk.c`, `test/signal_test.c` | a `bw_context` shared by handler and worker, a ticket, a pipe | collect in the handler, process in the worker | the context has no lock; every order must come from outside |
| debug output, sanitizer annotations, version | `src/debug.c`, `src/sanitizer.h`, `src/version.c.in` | none | | not modelled |

The public calls drive the unwinder (or `bw_win_capture`) and hand each address
to `bw_frame_process`, which on Windows calls `bw_win_resolve`; that loads the
tables of a module on demand, among them the DWARF table. On Linux it calls
`dladdr1` and, for a symbol that is not exported, `bw_elf_sname`. The ticket is
used by the tests to order threads around the calls.

What makes each component correct: the unwinder steps along the chain of frames
that the calling convention defines, and along nothing else, whatever the stack
holds; a `bw_context` never exposes an element that was not written or frames of
two walks, and the answers of the calls say what became of the trace; no wake-up is lost; a name belongs to the image the frame is
in and to the function the call is in; the line table holds the rows the line
number program describes, finds the one that covers an address, and names the
file that the tables of the unit name; whatever fails, nothing stays open.
`PROJECT.json` lists the places where each of these could go wrong under
`hazards`.

## Modules

- `Context`: `context.c` as operators over a memory (a function from addresses
  to words). The architectures are instances: `FpOffset` is -1 on 32-bit ARM,
  `HasPac` holds on AArch64, `MaxAddr = WordRange - 1` says there is no upper
  bound. `StepOk` is the result of `context_step`. The memory includes the word
  above `MaxAddr`: a frame pointer at the upper bound passes the check, and the
  code then reads the return address above it. In `MCBackwalk` a read from an
  unaligned address yields `Straddled`, which no aligned word holds, so an
  unaligned frame that was followed would show in what the calls report.
- `Backwalk`: the five public calls on Unix, one action per turn of a loop. One
  thread makes any sequence of calls; a call's walk meets any stack of
  `Memories`. `ctx.ip` starts as any member of `Residues` because
  `context_init` leaves it uninitialised, and a fresh array holds `Junk`. The
  callback's answer is the parameter `keep`. `out` (what the callback was given),
  `said` (what it answered), `trace` and `res` are history variables that let properties speak of a call after it has returned;
  they start empty with every call and are cut at `MaxTrace`.
- `Recorder`: what the calls promise, over abstract stacks. `BackwalkRecorder`
  maps `Backwalk` to it; the stack found by a call is read off the memory by
  `Frames`, a definition of the frame chain from the calling convention that
  does not use the unwinder.
- `Ticket`: the event, with POSIX condition variables as external objects.
- `WinCapture`: the Windows branches of the public calls. Two addresses are
  different frames, nothing else.
- `WinResolve`: `bw_win_resolve` for several threads. A name or a line is
  abstracted to the image it was read from. `GetModuleHandleExA`,
  `GetModuleFileNameA`, the critical section, the four parts of the section
  (DbgHelp, name, line, leave) and the three parts of `bw_pe_load` (reset,
  symbols, lines) are separate steps. Addresses are taken to lie at or above
  the first symbol and the first line of their image. The process loads images
  and, if `MayUnload`, unloads them between any two steps.
- `PeImage`: the inside of one `bw_pe_load`, which `WinResolve` takes as three
  steps: the chain of calls, each of which may fail, with the handles that are
  open; the symbol loop, one step per record, with the index that jumps over
  auxiliary records, `bw_pe_add_name` and the two limits; the sections; then,
  as operators, `bw_pe_find`, `bw_pe_line` and the order in which
  `bw_win_resolve` asks DbgHelp and them. An image is given with its headers
  and names decoded. `WinResolve` decides when and for which module a load
  happens, `PeImage` what it leaves.
- `SortedTable`: the sort and the binary search that `bw_dwarf_tab_lookup` and
  `bw_pe_find` have in common.
- `DwarfLine`: the line number program, the row table, sort, reset and search,
  on decoded units: a unit is a line program, one the parser steps over
  (`skip`) or one it gives up at (`bad`); an instruction whose operands end
  early is `truncated`. `qsort` yields any sorted permutation.
  `DwarfReference` states what a program means without running it.
- `Leb128`: `bw_uleb` and `bw_sleb` over bytes, with the size of a digit and of
  the word as parameters, and what a string of bytes means. `LebAssumption`
  states of the two what the code relies on, and 2^7 and 2^64 satisfy.
- `DwarfTables`: the directory and file tables of a unit's header, from bytes:
  one step per entry. `p` is the cursor, 0 the failure of a read. The forms are
  those of the code with their numbers. `strs` is the pool, byte by byte,
  because its limit cuts strings; `bw_join_path` and `bw_add_str` are operators
  with their limits. The bytes of a unit go from its tables to the end of
  `.debug_line`, which is `c->end` of the cursor: reads behind the tables, in
  the program or the next unit, succeed as they do in the code. A version 4 name
  that the section does not end takes the cursor behind it (`OverrunDir4`,
  `OverrunFile4`), where `end - p` wraps to a large number and every read is
  allowed. The parse then goes on over bytes that are not the section's: names
  are any of `Strays`, numbers and ends of tables are chosen, a read may fault
  (`Fault`), and the cursor returns with the program. `MCDwarfTables` encodes
  tables of which it knows the meaning and puts a program behind them; the
  properties compare that meaning with what was decoded. It also cuts the
  section off at every byte of the tables, and replaces the rest of the tables
  by other bytes.
- `ElfName`: `bw_frame_process` on Linux with `bw_elf_sname` inside, one step
  per call, section and symbol. `dladdr1` answers anything in `Infos`. On other
  Unix systems the function is the same without the fallback.
- `SignalTrace`: main thread, its signal handler and the worker of
  `test/signal_test.c` around one context, extending
  `Ticket`; the pipe is a number of bytes. Every call that the test checks may
  fail and ends the process.
- `BackwalkProofs`, `SignalTraceProofs` (the ticket and its use in the test),
  `WinProofs` (`WinCapture` and `WinResolve`), `SortedTableProofs` (with the
  lemmas on induction, recursion and remainders that others use),
  `DwarfLineProofs`, `DwarfTablesProofs`, `ElfNameProofs`, `PeImageProofs`:
  theorems.
- `MC*`: instances for TLC.

Definitions whose comment begins with "Variant" (and those in `Ticket` that say
so) are plausible bugs, one for each property of each passing run; they are not
part of any specification. `PROJECT.json` pairs each with the property that
catches it when it takes the place of the definition next to it.

## Runs

| run | shows |
|---|---|
| `walk_x64` | any sequence of calls, walks from two starting points, every stack of three frames whose saved pointers are any frame, a misaligned address or one above the user range, and with at most one return address below it, cycles included; contexts of 0, 1 and 2 elements; collect returns |
| `recorder` | AArch64 with signed return addresses: the calls implement `Recorder`; `BacktraceReturns` |
| `win_capture` | stacks and depths around the array, the cap (3) and the width (8) |
| `win_resolve` | two threads, two bases, three images with different symbol formats, loads while threads resolve: the tables pass from module to module (`TablesCoherent`) |
| `win_resolve_live` | two threads and two images that are loaded in turn at one base and unloaded under them: `ResolveReturns` |
| `pe_image` | `bw_pe_load` on every sequence of up to four distinct blocks out of nine (functions with short and long names, one with an auxiliary record that looks like a symbol, data, imports, unreadable names, a record that claims too much), with each call failing; a table of 3 symbols and a pool of 13 bytes, which both overflow; images linked where they are loaded, elsewhere, and without a base; return addresses on both sides of every boundary |
| `pe_pdb` | a violation |
| `elf_name` | every answer of `dladdr1`, every failing call, tables of up to three symbols out of nine that touch, nest, coincide or must be passed over, behind an unusable table or before a second one |
| `signal_trace` | handler, worker and main thread, stacks from empty to deeper than the context, spurious wake-ups: the ticket's safety, no race, no use after free, the whole trace, and `TestEnds` |
| `dwarf_tables` | tables of version 4 with up to two directories and two files in any combination; of version 5 with three forms of paths, three of indices, twelve of fields to pass over, two offset sizes and two orders; exactly full and overfull tables; a section that ends after each byte of the tables, and tables that are damaged after each byte, which for version 4 take the cursor behind the section; a pool of 13 bytes and paths of 4. Besides, `bw_uleb` and `bw_sleb` on strings of up to four bytes, in a 15-bit word whose third digit overlaps its top as the tenth does in 64 bits |
| `dwarf_dirs` | a violation |
| `dwarf` | every program of up to three instructions out of 14 between a `set_address` and an `end_sequence`, pairs of sequences in one unit or two, in either order, with skipped, unreadable and cut-short units, and a table of 5 rows that overflows |

**Bounds.** `context_step` looks at one frame and the next pointer, so three
frames give every pair of neighbours, one-frame and longer cycles; words of 2
bytes keep alignment meaningful. Of the four range checks, `walk_x64` meets the
upper one on the saved frame pointer and the lower one on the return address,
and `recorder` the other two and the latter again. Two starting points make
walks whose frames differ from the first on, without which a record of two
walks could not be told from one of one. Collect distinguishes arrays that are
empty, too small, exact and too large, which depths 0 to 2 and zero to two
frames (or endless ones) give. `MaxTrace` exceeds every depth, so the history
of a collect is never cut where a property looks. The abstract word range only
needs room for the bounds and the code bits. Two threads suffice for the
pairwise races on the critical section, and two images at one base are what a
reuse needs. In `pe_image` the limits are passed by some sequences of blocks
and not reached by others, so that `SymbolsExact` (asserted while everything
fits) and `PoolSound` (asserted always) both have cases. In `dwarf_tables` the
pool starts empty or with an earlier unit's string, and is full before, within
and after a file's name. In `dwarf`, `max_ops = 2` makes the remainder matter
and a `LineRange` of 64 with `LineMax = 15` separates the 64-bit register from
the 32-bit row.

**Fairness.** `Backwalk`: weak fairness of the steps inside a call; nothing in a
walk blocks; none for a callback's refusal, so `bw_backtrace` must end by itself.
`WinResolve`: weak fairness of each thread's steps and
strong fairness of entering the critical section; none for the loader, the
caller or the start of calls. `SignalTrace`: weak fairness of both threads and
strong fairness of taking the ticket's mutex; no step is owed to a spurious
wake-up. `BacktraceReturns` is checked on chains that lead
outwards or to the frame itself: on a cycle of two frames or more
`bw_backtrace` does not end unless the callback stops it, and the code makes no
provision for that.

`signal_trace` runs without a deadlock check because its threads end,
`pe_image` and `dwarf_tables` because a behaviour handles one input. The
layout of 32-bit ARM, whose saved pair lies below the frame pointer, has no run
of its own: the theorems hold for it. `Ticket` is
checked with the two threads of `signal_trace` and proved for any number; it
assumes at least as many signallers as waiters: `pthread_cond_signal` wakes
one, and the repository uses the ticket with one of each.

## Findings

1. `pe_pdb`: with a PDB the name is looked up at the return address and the line
   at the address before it. A call that ends its function gets the next
   function's name and its own function's line. `SiteResolved` shows that
   without a PDB, where both use the address before, they agree.
2. `dwarf_dirs`: a version 4 unit with `BW_DWARF_DIRS_MAX` directories or more.
   The loop stops inside the table, and the rest of a directory's name is taken
   for the name of a source file.

Six more behaviours limit what the properties can say; each is in the model,
and the property named is as strong as the code allows:

- `bw_backtrace_collect` on Unix stores `ip_cnt` only inside its loop, so a
  collect into a used context that finds no frame returns true and leaves the
  previous trace (`backwalk.c:283`). `CollectVerdict` speaks of walks of at
  least one frame, and `Recorder` keeps the old trace. `RecordUnmixed` says what
  does hold: the old trace stays whole until the first frame of the next, and
  is then gone. The Windows branch stores the count always.
- `(USHORT)max` is taken before the cap (`win.c:46`), so a context of 65536
  elements captures nothing and collect answers true. `CollectFresh` speaks of
  depths below `UShortRange`.
- The tables of a module are keyed by its load address (`win.c:413`): a frame of
  an image loaded where another was gets the other's names. `NamesCurrent` is
  checked for processes that do not unload.
- The end of a sequence is not recorded (`dwarf_line.c:658`), so an address
  behind it gets the sequence's last row. `CoveredFound` speaks of covered
  addresses. For the same reason `WellFormed` excludes a row of another
  sequence inside a sequence even if that other one has no extent: its row
  would be found for the addresses behind it, although it covers none.
- A version 4 name is measured with `strlen` (`dwarf_line.c:599`, `611`), which
  does not know where the section ends. `TypeOK` says that this is the only way
  for the cursor to leave the section and that tables and pool keep to their
  arrays all the same; `CutRefused` says that a section that ends anywhere else
  in the tables is refused.
- `context_step` checks the range of the frame pointer, not of the words of the
  frame (`context.c:57`): at the upper bound it reads one word above the range,
  on 32-bit ARM at the lower bound one below it. No property excludes the read.

## Proofs

Each theorem holds for every value of the constants that satisfies the named
`ASSUME`s of the modules it is about; TLC evaluates those on the runs'
instances. An invariant that a run checks is seldom inductive: each module of
proofs names the strengthening it needs, which TLC confirmed on the run's
instance before it was proved, and shows it preserved with one lemma per group
of actions and one step per conjunct that they disturb.

| module | proved | for every |
|---|---|---|
| `BackwalkProofs` | the six invariants and `RecordUnmixed` of `walk_x64`; `Implements` of `recorder` | architecture, set of stacks, residues, starting points and depths |
| `SignalTraceProofs` | `NoEarlyReturn`, `NoLostWakeup`; `NoRace`, `ContextAlive`, `WholeTrace` | finite set of threads; stack and depth |
| `WinProofs` | `CaptureInBounds`, `CollectFresh`, `ReportFaithful` | width of `USHORT`, cap, stack and depth |
| | `InitialisedOnce`, `TablesCoherent`; without unloading `NamesCurrent`, `KnownNamed` | set of threads, bases and images |
| `SortedTableProofs` | the binary search finds the last entry at or below an address | table |
| `DwarfLineProofs` | `TypeOK`, `SearchCorrect`, `RowsAreMatrix`, `CoveredFound` of `dwarf` | section, widths and table size |
| `DwarfTablesProofs` | `TypeOK`, `LebMeaning` of `dwarf_tables`; that names in the pool stay, and that a file is recorded under its own path | bytes, pool, string sections and limits; digit and word |
| `ElfNameProofs` | `TypeOK`, `ResourcesReleased`, `FunctionNamed` | file, answer of `dladdr1`, buffer size |
| `PeImageProofs` | `HandlesClosed`, `PoolSound`, `SymbolsExact`; `SiteResolved` for images without PDB and without two names at one address | image, base, table and pool size |

**Backwalk.** `FramesValid` needs the contents of the context, `CollectVerdict`
and `ProcessReplays` speak of finished calls. The inductive invariant adds what
holds inside the calls: during a collect, that the first `i` elements are the
trace so far and `ip_cnt` is `i` once `i` is positive; during a process, that
`out` is the first `i` stored addresses and none of them was refused; and the
number of blocks at every label. `RecordCorrect` follows from it: a step that
stores a frame makes the first `i + 1` elements the trace, whatever was behind
them.

*Refinement of* `Recorder` (`RecorderRefined`). The chain in memory is
`Frames`, which knows nothing of the unwinder. `StripDenotes` shows that
stripping the authentication code yields the address that the stored word
stands for (uniqueness of quotient and remainder), and `ChainStep` that
`context_step` succeeds exactly where the chain goes on, and leads to the same
place. `Frames` is a recursive function; the hypothesis `ChainsEnd` (a number
counts down along every chain, from at most `MaxTrace`) makes it well defined
(`LinksExist`, by induction on that number) and gives its length. `MCRecorder`
checks the hypothesis for the stacks of the run. Then each action maps to one
step of `Recorder` or to none: a frame given to the callback moves from the
chain's rest to the history and the abstract stack is the same; a stored frame
is `Keep`; a return is `FinishReport` or `FinishCollect`. The extra invariant
says that a walk has room in its history for the rest of the chain. Without
`ChainsEnd` the walk of `bw_backtrace` need not end and there is no sequence
that it reports.

**Ticket and signal test.** The ticket's invariant adds who holds the mutex at
each label and that no signaller has passed its unlock unless the flag is set;
with it no waiter stands between check and blocking when the flag is set, and
each notification takes one from both sides of the inequality. `TicketRefined`
shows that every step of the test is a step of the ticket or leaves it alone, so
the ticket's theorems hold in it. The hand-over rests on the pipe: the worker is
past its read only if the handler has written, and the handler writes after
collecting.

**WinResolve.** `SafeInv`, which also holds when images are unloaded: a thread
is between Enter and Leave exactly if it owns the section; one thread runs
`bw_sym_init`, and nobody is past `InitOnceExecuteOnce` before it is through;
while a load is under way the tables hold what it has read so far, otherwise
they are coherent. `NamesInv` adds, for a process that does not unload, that the
module a call has found is still mapped and the tables hold only what the image
mapped at their module has.

**WinCapture.** The invariant says which frames a running call is to report, and
that those given and those to do make them up, none of them refused.

**Sorted tables.** The search is a recursive function on (lo, hi, best); the
proof shows that halving keeps the set of hits that matter, that a function
satisfying the loop's equation gives the answer (induction on `hi - lo`), and
that there is one. Induction is used through the least element of a set of
natural numbers, as the library's induction schemes cannot be instantiated by
the installed provers.

**DwarfLine.** Registers stay in their widths under every instruction, the
rows within the table, and the table is sorted when the parse is done; with
`SearchFinds` that is `SearchCorrect`. `UnitOk` is what `bw_parse_unit` has
checked before it runs a program (`min_inst`, `max_ops`, `line_range` and
`opcode_base` are not 0).

*The rows are the matrix* (`RowsExact`). `DwarfReference` says in closed form
what the registers are at instruction n: sums over the instructions since the
sequence began, and since the address was last fixed. The sums are differences
of prefix sums, recursive functions whose existence and values are lemmas
(`SumsExist`, `BetweenIs`, `LocatedIs`). `RegsAt` puts the closed forms together,
and `ExecFollows` shows that executing instruction n takes `RegsAt(n - 1)` to
`RegsAt(n)`; the hard part is the address, where the code divides each advance
and carries `op_index` and the reference divides their sum once
(`AddressStep`, from uniqueness of quotient and remainder). `MatrixInv` says
that the registers are `RegsAt` of where the program is and that there is a
bijection between the rows recorded and the representable places passed
(`RowsOf`): an instruction extends it by at most one pair, the sort composes it
with a permutation. The bijection gives the equal numbers of `RowsAreMatrix`.

*Covered addresses are found* (`CoveredLookup`). The row that covers an address
is in the table by `RowsExact`. The search answers with the last entry at or
below the address (`SearchFinds`); that one is a row of the matrix too, and if
it were above the covering row it would lie in the same sequence, against the
definition of covering, or inside it, against `WellFormed`.

**DwarfTables and Leb128.** *Numbers* (`LebCorrect`). The sum over the first n
bytes lies below the weight of digit n, and what the loop accumulates is that
sum reduced to the word, in every turn. The sign extension subtracts the
weight of the next digit, modulo the word; where the digits fill the word
nothing is extended, and `LebAssumption` (the weight at which the word is full
is a multiple of it) makes that the same. *Bounds* (`TypeCorrect`). Each reader
is shown to move the cursor from a position of the section to a position or to
fail: skips, fixed-size and variable-length numbers, every form, the entries
(by induction over the fields of the format) and the format description. The
invariant adds to `TypeOK` that the pool is empty or ends with a terminator,
without which a directory's name need not end inside the pool, and in version 5
that the entries read and those still to read have room; and it says of a cursor
behind the section that the version is below 5 and the parse in one of the
states that only `OverrunDir4` and `OverrunFile4` lead to. It assumes of units
that they are bytes (`UnitsAssumption`), of the string sections that they end
with a string, and of what `strlen` finds behind the section that it is bytes
other than 0 (`StringsAssumption`). *Names* (`NamesStay`,
`NamesRecorded`). A name contains no terminator and the pool only grows, so what
was recorded stays readable as it was; a file is recorded under the path that
its name and directory make, or a beginning of it where the path buffer
(`JoinIs`) or the pool (`StoredIs`) cuts it. TLC agrees with both on the
instance of `dwarf_tables`.

**ElfName and PeImage.** Both invariants say what is open at each label and what
the loop has found among the records it has passed: in `ElfName` the innermost
function among the first `s - 1` symbols; in `PeImage` one entry per function
among the primary records up to `i`. Primary records are the least set that is
closed under "behind its auxiliary records"; that the loop meets all of them,
and only them, follows from the closure of the set of those it has met.
`FilesAssumption` and `ImagesAssumption` say that the decoded inputs are well
formed (numbers are numbers, one length per name), not that a file is sound.

**Only model-checked.** Liveness (`CollectReturns`, `BacktraceReturns`,
`ResolveReturns`, `TestEnds`): TLAPS does not do ENABLED. `TablesExact`,
`NamesPrefix` and `CutRefused` compare the tables with what `MCDwarfTables`
encoded, which it records in the unit (`files`, `sound`, `cut`); they are
statements about those encodings, of which the theorems have no counterpart.
The part of them that depends on the code alone, what becomes of a name once it
has been read, is `NamesStay` and `NamesRecorded`.

## Not modelled

- `debug.c` and the macro `BW_PRINT_FRAME`: formatting for a debug build.
- `sanitizer.h`, `version.c.in`, export macros: no behaviour.
- A depth for which `sizeof(uintptr_t) * depth` wraps (`backwalk.c:236`): the
  depth is the client's own number, and every use in the repository is small.
- ELF and PE headers, names of PE sections and the decoding of line number
  instructions are given as what they decode to; a header that fails any of the
  checks is one case, since each check leads to the same place. The leading
  underscore that is removed from names on 32-bit x86 is left out.
- Two symbol tables in one ELF file: modelled in `ElfName`, but `FunctionNamed`
  is only asserted of files with one, which is what ELF allows.
- Cycles of two frames or more under `bw_backtrace` (see Fairness).

## What is left

The modules cover every operation of the library that changes state, and the
theorems every safety property of the runs but the three that compare with an
encoding. Worth adding, in this order:

1. a relation between the bytes of a unit and the tables they encode, to state
   `TablesExact` for every unit it relates;
2. `WinResolve`: which part of `NamesCurrent` survives unloading;
3. the decoding of line number instructions from bytes, now that the readers
   are proved.
