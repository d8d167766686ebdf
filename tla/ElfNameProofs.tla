---------------------------- MODULE ElfNameProofs ----------------------------
(***************************************************************************)
(* Proofs about ElfName, for every file, every answer of dladdr1 and every *)
(* size of the buffer: nothing leaks, nothing is overrun, and the name is  *)
(* that of the innermost function around the call.                         *)
(***************************************************************************)
EXTENDS ElfName, FiniteSetTheorems, TLAPS

Searching == {"headers", "sections", "symbols"}

\* The string table at hand is that of a table that could be read, if any.
StrtabOk ==
    \/ strtab = <<>>
    \/ \E t \in 1 .. Len(file.tables) : file.tables[t].usable /\ strtab = file.tables[t].strs

\* What is known of the inputs of the call, and where the loops stand.
CallInv ==
    /\ ip \in Int /\ info.fbase \in Int /\ info.l_addr \in Int \cup {None}
    /\ FileOk(file)
    /\ "sname" \in DOMAIN frame
    /\ pc \in {"idle", "open", "fstat", "mmap", "headers"} => i = 1 /\ s = 1
    /\ pc = "symbols" => /\ i <= Len(file.tables) /\ file.tables[i].usable
                         /\ strtab = file.tables[i].strs /\ s >= 1
                         /\ s <= Len(file.tables[i].syms) + 1
    /\ pc \in Searching \cup {"open", "fstat", "mmap"} => frame.sname = None
    /\ pc \in {"sections", "symbols"} => StrtabOk

\* The descriptor is open from open to mmap, the view mapped from then on to
\* munmap.
HeldInv ==
    /\ fd <=> (pc \in {"fstat", "mmap"})
    /\ map <=> (pc \in Searching \cup {"munmap"})

\* Symbol m of table t is a function around the call instruction.
Around(t, m) ==
    LET y == file.tables[t].syms[m]
    IN  /\ y.func /\ y.defined /\ y.size # 0 /\ y.st_name \in 1 .. Len(file.tables[t].strs)
        /\ Probe >= Bias + y.value /\ Probe < Bias + y.value + y.size

\* best is the innermost of the first n symbols of table t that are.
BestOf(t, n) ==
    \/ best = None /\ \A m \in 1 .. n : ~Around(t, m)
    \/ \E m \in 1 .. n :
          /\ Around(t, m) /\ best = file.tables[t].syms[m]
          /\ \A k \in 1 .. n : Around(t, k) => file.tables[t].syms[k].value <= best.value

\* With one usable table: what the search has found so far.
SearchInv ==
    OneTable =>
        /\ pc = "sections" =>
              \/ /\ \A t \in 1 .. (i - 1) : ~file.tables[t].usable
                 /\ best = None /\ strtab = <<>>
              \/ \E t \in 1 .. (i - 1) :
                    /\ file.tables[t].usable /\ strtab = file.tables[t].strs
                    /\ BestOf(t, Len(file.tables[t].syms))
        /\ pc = "symbols" =>
              /\ \A t \in 1 .. (i - 1) : ~file.tables[t].usable
              /\ BestOf(i, s - 1)

Inv == TypeOK /\ CallInv /\ HeldInv /\ SearchInv /\ FunctionNamed

-----------------------------------------------------------------------------
\* Before the first call nothing is held and nothing found.
LEMMA InitInv == Init => Inv
  <1> SUFFICES ASSUME Init PROVE Inv
    OBVIOUS
  <1>1. file.tables = <<>> /\ Len(file.tables) = 0 /\ frame.sname = None
        /\ "sname" \in DOMAIN frame
    BY DEF Init, NoFile, Unknown
  <1>2. TypeOK
    <2>1. fd \in BOOLEAN /\ map \in BOOLEAN
      BY DEF Init
    <2> QED BY <1>1, <2>1 DEF Init, TypeOK
  <1>3. CallInv
    BY <1>1 DEF Init, CallInv, StrtabOk, FileOk, NoInfo, Searching
  <1>4. HeldInv /\ SearchInv /\ FunctionNamed
    BY DEF Init, HeldInv, Searching, SearchInv, FunctionNamed
  <1> QED BY <1>2, <1>3, <1>4 DEF Inv

\* The call and its end, and the system calls.
LEMMA OutsideStep ==
    ASSUME Inv, \/ \E a \in Ips, d \in Infos, f \in Files : bw_frame_process(a, d, f)
                \/ OpenFile \/ Fstat \/ Mmap \/ Munmap \/ Callback
    PROVE  Inv'
  <1> USE DEF Inv
  <1>1. ASSUME NEW a \in Ips, NEW d \in Infos, NEW f \in Files, bw_frame_process(a, d, f)
        PROVE  Inv'
    <2>1. /\ pc = "idle" /\ pc' \in {"open", "callback"} /\ UNCHANGED <<fd, map, i, s, best, strtab>>
          /\ ip' = a /\ info' = d /\ file' = f
      BY <1>1 DEF bw_frame_process, search
    <2>2. /\ "sname" \in DOMAIN frame'
          /\ pc' = "open" => frame'.sname = None
          /\ frame'.sname # None => frame'.sname.len = 1
      <3>1. CASE d.found
        <4> DEFINE n == IF d.sname = None THEN None ELSE [id |-> d.sname, len |-> 1]
        <4>1. frame' = [mod_addr |-> a - d.fbase, fname |-> d.fname, sname |-> n]
          BY <1>1, <3>1 DEF bw_frame_process
        <4>2. n # None => n.len = 1
          OBVIOUS
        <4>3. pc' = "open" => n = None
          BY <1>1 DEF bw_frame_process
        <4> HIDE DEF n
        <4> QED BY <4>1, <4>2, <4>3
      <3>2. CASE ~d.found
        BY <1>1, <3>2 DEF bw_frame_process, Unknown
      <3> QED BY <3>1, <3>2
    <2>3. FileOk(f) /\ a \in Int /\ d.fbase \in Int /\ d.l_addr \in Int \cup {None}
      BY FilesAssumption, AddressAssumption
    <2>4. TypeOK'
      BY <2>1, <2>2, <2>3, BufferAssumption DEF TypeOK, CallInv, FileOk
    <2>5. CallInv'
      BY <2>1, <2>2, <2>3 DEF CallInv, StrtabOk, Searching
    <2> QED BY <2>1, <2>4, <2>5 DEF HeldInv, Searching, SearchInv, FunctionNamed
  <1>2. CASE OpenFile \/ Fstat \/ Mmap
    <2>1. /\ pc \in {"open", "fstat", "mmap"} /\ pc' \in {"fstat", "mmap", "headers", "callback"}
          /\ UNCHANGED <<ip, info, file, i, s, best, strtab, frame>>
      BY <1>2 DEF OpenFile, Fstat, Mmap, call, search
    <2>2. fd' \in BOOLEAN /\ map' \in BOOLEAN /\ HeldInv'
      <3>1. CASE OpenFile
        <4>1. (fd' = TRUE /\ pc' = "fstat") \/ (fd' = fd /\ pc' = "callback")
          BY <3>1 DEF OpenFile
        <4>2. pc = "open" /\ map' = map
          BY <3>1 DEF OpenFile
        <4>3. fd' \in BOOLEAN /\ map' \in BOOLEAN
          BY <4>1, <4>2 DEF TypeOK
        <4> QED BY <4>1, <4>2, <4>3 DEF HeldInv, Searching
      <3>2. CASE Fstat
        <4>1. (fd' = fd /\ pc' = "mmap") \/ (fd' = FALSE /\ pc' = "callback")
          BY <3>2 DEF Fstat, FdAfterStatFailure
        <4>2. pc = "fstat" /\ map' = map
          BY <3>2 DEF Fstat
        <4>3. fd' \in BOOLEAN /\ map' \in BOOLEAN
          BY <4>1, <4>2 DEF TypeOK
        <4> QED BY <4>1, <4>2, <4>3 DEF HeldInv, Searching
      <3>3. CASE Mmap
        <4>1. (map' = TRUE /\ pc' = "headers") \/ (map' = map /\ pc' = "callback")
          BY <3>3 DEF Mmap
        <4>2. pc = "mmap" /\ fd' = FALSE
          BY <3>3 DEF Mmap
        <4>3. fd' \in BOOLEAN /\ map' \in BOOLEAN
          BY <4>1, <4>2 DEF TypeOK
        <4> QED BY <4>1, <4>2, <4>3 DEF HeldInv, Searching
      <3> QED BY <1>2, <3>1, <3>2, <3>3
    <2>3. TypeOK'
      BY <2>1, <2>2 DEF TypeOK
    <2>4. CallInv'
      BY <2>1 DEF CallInv, StrtabOk, Searching
    <2> QED BY <2>1, <2>2, <2>3, <2>4 DEF SearchInv, FunctionNamed
  <1>3. CASE Munmap
    <2>1. /\ pc = "munmap" /\ pc' = "callback" /\ map' = FALSE
          /\ UNCHANGED <<ip, info, file, fd, i, s, best, strtab, frame>>
      BY <1>3 DEF Munmap, call, search
    <2>2. map' \in BOOLEAN /\ HeldInv'
      BY <2>1 DEF HeldInv, Searching
    <2>3. TypeOK'
      BY <2>1, <2>2 DEF TypeOK
    <2>4. CallInv'
      BY <2>1 DEF CallInv, StrtabOk, Searching
    <2> QED BY <2>1, <2>2, <2>3, <2>4 DEF SearchInv, FunctionNamed
  <1>4. CASE Callback
    <2>1. /\ pc = "callback" /\ pc' = "idle" /\ i' = 1 /\ s' = 1
          /\ frame' = Unknown /\ ip' = 1 /\ info' = NoInfo /\ file' = NoFile /\ UNCHANGED <<fd, map>>
      BY <1>4 DEF Callback
    <2>2. /\ Len(file'.tables) = 0 /\ frame'.sname = None /\ "sname" \in DOMAIN frame'
          /\ FileOk(file') /\ info'.fbase \in Int /\ info'.l_addr \in Int \cup {None}
      BY <2>1 DEF NoFile, Unknown, NoInfo, FileOk
    <2>3. TypeOK'
      BY <2>1, <2>2 DEF TypeOK
    <2>4. CallInv'
      BY <2>1, <2>2 DEF CallInv, StrtabOk, Searching
    <2> QED BY <2>1, <2>3, <2>4 DEF HeldInv, Searching, SearchInv, FunctionNamed
  <1> QED BY <1>1, <1>2, <1>3, <1>4

\* The headers, and the loop over the sections.
LEMMA SectionStep ==
    ASSUME Inv, Headers \/ Section \/ SymbolsEnd
    PROVE  Inv'
  <1> USE DEF Inv
  <1>0. Len(file.tables) \in Nat /\ i \in Int /\ UNCHANGED <<ip, info, file, fd, map, frame>>
    BY DEF CallInv, FileOk, TypeOK, Headers, Section, SymbolsEnd, call
  <1>1. CASE Headers
    <2>1. /\ i' = 1 /\ s' = 1 /\ best' = None /\ strtab' = <<>> /\ pc = "headers"
          /\ pc' \in {"sections", "munmap"}
          /\ pc' = "munmap" => ~file.sound
      BY <1>1 DEF Headers
    <2>2. TypeOK'
      BY <1>0, <2>1 DEF TypeOK
    <2>3. CallInv'
      BY <1>0, <2>1 DEF CallInv, StrtabOk, Searching
    <2>4. HeldInv' /\ SearchInv' /\ FunctionNamed'
      BY <1>0, <2>1 DEF HeldInv, Searching, SearchInv, FunctionNamed
    <2> QED BY <2>2, <2>3, <2>4
  <1>2. CASE Section /\ file.tables[i].usable
    <2>1. /\ strtab' = file.tables[i].strs /\ s' = 1 /\ pc = "sections" /\ pc' = "symbols"
          /\ UNCHANGED <<i, best>> /\ i <= Len(file.tables)
      BY <1>2 DEF Section
    <2>3. TableOk(file.tables[i])
      BY <1>2, <2>1, <1>0 DEF CallInv, FileOk, TypeOK
    <2>2. TypeOK'
      <3>1. Len(file.tables[i].syms) \in Nat
        BY <2>3 DEF TableOk
      <3>2. 1 \in 1 .. (Len(file.tables[i].syms) + 1)
        BY <3>1
      <3> QED BY <1>0, <1>2, <2>1, <3>2 DEF TypeOK
    <2>4. CallInv'
      <3>1. Len(file.tables[i].syms) \in Nat /\ i \in 1 .. Len(file.tables)
        BY <1>0, <2>1, <2>3 DEF TableOk, TypeOK
      <3>2. StrtabOk'
        BY <1>0, <1>2, <2>1, <3>1 DEF StrtabOk
      <3> QED BY <1>0, <1>2, <2>1, <3>1, <3>2 DEF CallInv, Searching
    <2>5. HeldInv' /\ FunctionNamed'
      BY <1>0, <2>1 DEF HeldInv, Searching, FunctionNamed
    <2>6. ASSUME OneTable PROVE (\A t \in 1 .. (i - 1) : ~file.tables[t].usable) /\ best = None
      <3>1. ASSUME NEW t \in 1 .. (i - 1), file.tables[t].usable PROVE FALSE
        <4>1. t \in 1 .. Len(file.tables) /\ i \in 1 .. Len(file.tables) /\ t # i
          BY <1>0, <2>1 DEF TypeOK
        <4> QED BY <1>2, <2>6, <3>1, <4>1 DEF OneTable
      <3> QED BY <2>1, <2>6, <3>1 DEF SearchInv
    <2>7. SearchInv'
      <3> SUFFICES ASSUME OneTable'
                   PROVE  (\A t \in 1 .. (i' - 1) : ~file'.tables[t].usable) /\ BestOf(i, s - 1)'
        BY <2>1 DEF SearchInv
      <3>1. OneTable
        BY <1>0 DEF OneTable
      <3>2. best' = None /\ s' - 1 = 0
        BY <2>1, <2>6, <3>1
      <3>3. BestOf(i, s - 1)'
        BY <3>2 DEF BestOf
      <3> QED BY <1>0, <2>1, <2>6, <3>1, <3>3
    <2> QED BY <2>2, <2>4, <2>5, <2>7
  <1>3. CASE Section /\ ~file.tables[i].usable
    <2>1. /\ i' = i + 1 /\ pc = "sections" /\ UNCHANGED <<s, strtab, pc, best>>
          /\ i <= Len(file.tables)
      BY <1>3 DEF Section
    <2>2. TypeOK'
      BY <1>0, <2>1 DEF TypeOK
    <2>3. CallInv'
      BY <1>0, <2>1 DEF CallInv, StrtabOk, Searching
    <2>4. HeldInv' /\ FunctionNamed'
      BY <1>0, <2>1 DEF HeldInv, Searching, FunctionNamed
    <2>5. SearchInv'
      BY <1>0, <1>3, <2>1 DEF SearchInv, OneTable, BestOf, Around, Probe, Bias
    <2> QED BY <2>2, <2>3, <2>4, <2>5
  <1>4. CASE SymbolsEnd
    <2>1. /\ i' = i + 1 /\ pc = "symbols" /\ pc' = "sections" /\ UNCHANGED <<s, strtab, best>>
          /\ s > Len(file.tables[i].syms) /\ i <= Len(file.tables) /\ file.tables[i].usable
          /\ strtab = file.tables[i].strs /\ s <= Len(file.tables[i].syms) + 1
      BY <1>4 DEF SymbolsEnd, CallInv
    <2>2. TypeOK'
      BY <1>0, <2>1 DEF TypeOK
    <2>3. CallInv'
      BY <1>0, <2>1 DEF CallInv, StrtabOk, Searching
    <2>4. HeldInv' /\ FunctionNamed'
      BY <1>0, <2>1 DEF HeldInv, Searching, FunctionNamed
    <2>5. SearchInv'
      <3>1. TableOk(file.tables[i]) /\ i \in 1 .. (i' - 1)
        BY <2>1, <1>0 DEF CallInv, FileOk, TypeOK
      <3>2. s - 1 = Len(file.tables[i].syms)
        <4>1. Len(file.tables[i].syms) \in Nat
          BY <3>1 DEF TableOk
        <4>2. s \in 1 .. (Len(file.tables[i].syms) + 1)
          BY <2>1 DEF TypeOK
        <4> QED BY <2>1, <4>1, <4>2
      <3>3. OneTable => BestOf(i, Len(file.tables[i].syms))
        BY <2>1, <3>2 DEF SearchInv
      <3> QED BY <1>0, <2>1, <3>1, <3>3 DEF SearchInv, OneTable, BestOf, Around, Probe, Bias
    <2> QED BY <2>2, <2>3, <2>4, <2>5
  <1> QED BY <1>1, <1>2, <1>3, <1>4 DEF Section

\* One symbol: the innermost so far is kept.
LEMMA SymbolStep ==
    ASSUME Inv, Symbol
    PROVE  Inv'
  <1> USE DEF Inv
  <1> DEFINE T == file.tables[i]
             y == T.syms[s]
  <1>1. /\ pc = "symbols" /\ s <= Len(T.syms) /\ s' = s + 1
        /\ UNCHANGED <<pc, ip, info, file, fd, map, i, strtab, frame>>
        /\ best' = IF Candidate(y) /\ (best = None \/ y.value >= best.value) THEN y ELSE best
    BY DEF Symbol, call
  <1>2. /\ i \in 1 .. Len(file.tables) /\ T.usable /\ strtab = T.strs /\ TableOk(T)
        /\ s \in 1 .. Len(T.syms) /\ Len(T.syms) \in Nat /\ Len(file.tables) \in Nat
    <2>1. Len(file.tables) \in Nat /\ i \in 1 .. Len(file.tables) /\ T.usable /\ strtab = T.strs
          /\ s \in Nat /\ s >= 1
      BY <1>1 DEF CallInv, TypeOK, FileOk
    <2>2. TableOk(T)
      BY <2>1 DEF CallInv, FileOk
    <2> QED BY <1>1, <2>1, <2>2 DEF TableOk
  <1>3. TypeOK'
    BY <1>1, <1>2 DEF TypeOK
  <1>4. CallInv'
    BY <1>1, <1>2 DEF CallInv, StrtabOk, Searching
  <1>5. HeldInv' /\ FunctionNamed'
    BY <1>1 DEF HeldInv, FunctionNamed
  <1>6. SearchInv'
    <2> SUFFICES ASSUME OneTable
                 PROVE  (\A t \in 1 .. (i - 1) : ~file.tables[t].usable) /\ BestOf(i, s - 1)'
      BY <1>1 DEF SearchInv, OneTable
    <2>1. (\A t \in 1 .. (i - 1) : ~file.tables[t].usable) /\ BestOf(i, s - 1)
      BY <1>1 DEF SearchInv
    <2>2. Candidate(y) <=> Around(i, s)
      BY <1>2 DEF Candidate, Around
    <2>3. \A k \in 1 .. Len(T.syms) : T.syms[k] # None /\ T.syms[k].value \in Int
      BY <1>2 DEF TableOk
    <2>4. \A k \in 1 .. s : k = s \/ k \in 1 .. (s - 1)
      BY <1>2
    <2>5. (\A t, k : Around(t, k)' <=> Around(t, k)) /\ s' - 1 = s /\ i' = i /\ file' = file
      BY <1>1, <1>2 DEF Around, Probe, Bias
    <2>6. CASE Candidate(y) /\ (best = None \/ y.value >= best.value)
      <3>1. best' = y /\ s \in 1 .. s /\ Around(i, s)
        BY <1>1, <1>2, <2>2, <2>6
      <3>2. \A k \in 1 .. (s - 1) : Around(i, k) => T.syms[k].value <= y.value
        <4>1. CASE best = None
          BY <1>2, <2>1, <2>3, <4>1 DEF BestOf
        <4>2. CASE best # None
          <5>1. PICK m \in 1 .. (s - 1) : /\ best = T.syms[m]
                   /\ \A k \in 1 .. (s - 1) : Around(i, k) => T.syms[k].value <= best.value
            BY <2>1, <4>2 DEF BestOf
          <5>2. y.value >= best.value /\ best.value \in Int /\ y.value \in Int
            BY <1>2, <2>3, <2>6, <4>2, <5>1
          <5>3. \A k \in 1 .. (s - 1) : T.syms[k].value \in Int
            BY <1>2, <2>3
          <5> QED BY <5>1, <5>2, <5>3
        <4> QED BY <4>1, <4>2
      <3>3. \A k \in 1 .. s : Around(i, k) => T.syms[k].value <= y.value
        BY <1>2, <2>3, <2>4, <3>2
      <3> QED BY <1>2, <2>1, <2>5, <3>1, <3>3 DEF BestOf
    <2>7. CASE ~(Candidate(y) /\ (best = None \/ y.value >= best.value))
      <3>1. best' = best
        BY <1>1, <2>7
      <3>2. CASE best = None
        <4>1. \A k \in 1 .. s : ~Around(i, k)
          BY <1>2, <2>1, <2>2, <2>3, <2>4, <2>7, <3>2 DEF BestOf
        <4> QED BY <1>2, <2>1, <2>5, <3>1, <3>2, <4>1 DEF BestOf
      <3>3. CASE best # None
        <4>1. PICK m \in 1 .. (s - 1) : /\ Around(i, m) /\ best = T.syms[m]
                 /\ \A k \in 1 .. (s - 1) : Around(i, k) => T.syms[k].value <= best.value
          BY <2>1, <3>3 DEF BestOf
        <4>2. m \in 1 .. s /\ best.value \in Int /\ y.value \in Int
          BY <1>2, <2>3, <4>1
        <4>3. Around(i, s) => y.value <= best.value
          BY <2>2, <2>7, <3>3, <4>2
        <4>4. \A k \in 1 .. s : Around(i, k) => T.syms[k].value <= best.value
          BY <2>4, <4>1, <4>3
        <4> QED BY <1>2, <2>1, <2>5, <3>1, <4>1, <4>2, <4>4 DEF BestOf
      <3> QED BY <3>2, <3>3
    <2> QED BY <2>1, <2>6, <2>7
  <1> QED BY <1>3, <1>4, <1>5, <1>6

\* Function m of table t, as FunctionsOf gives it.
Fn(t, m) ==
    LET y == file.tables[t].syms[m]
    IN  [from |-> y.value, to |-> y.value + y.size, name |-> file.tables[t].strs[y.st_name]]

\* Innermost: no function around the call starts later.
Inner(t, m) ==
    /\ m \in 1 .. Len(file.tables[t].syms) /\ Around(t, m)
    /\ \A k \in 1 .. Len(file.tables[t].syms) :
          Around(t, k) => file.tables[t].syms[k].value <= file.tables[t].syms[m].value

\* CallersOf says what it should: with one table, the functions that contain
\* the call and start last.
LEMMA CallersAre ==
    ASSUME CallInv, OneTable, NEW t \in 1 .. Len(file.tables), file.tables[t].usable
    PROVE  \A x : x \in CallersOf(file) <=> \E m : Inner(t, m) /\ x = Fn(t, m)
  <1> DEFINE T == file.tables[t]
             Dom == 1 .. Len(T.syms)
             ok(m) == /\ T.syms[m].func /\ T.syms[m].defined
                      /\ T.syms[m].st_name \in 1 .. Len(T.strs)
             at == (ip - 1) - Bias
             in(x) == x.from <= at /\ at < x.to
  <1>1. TableOk(T) /\ Bias \in Int /\ at \in Int /\ ip \in Int
    BY DEF CallInv, FileOk, Bias
  <1>2. \A m \in Dom : T.syms[m].value \in Int /\ T.syms[m].size \in Nat
    BY <1>1 DEF TableOk
  <1>3. \A x : x \in FunctionsOf(file) <=> \E m \in Dom : ok(m) /\ x = Fn(t, m)
    <2> DEFINE fs(u) ==
          {[from |-> y.value, to |-> y.value + y.size, name |-> file.tables[u].strs[y.st_name]] :
              y \in {file.tables[u].syms[n] : n \in {m \in 1 .. Len(file.tables[u].syms) :
                        LET z == file.tables[u].syms[m]
                        IN  /\ z.func /\ z.defined
                            /\ z.st_name \in 1 .. Len(file.tables[u].strs)}}}
               us == {u \in 1 .. Len(file.tables) : file.tables[u].usable}
    <2>1. FunctionsOf(file) = UNION {fs(u) : u \in us}
      BY DEF FunctionsOf
    <2>2. us = {t}
      BY DEF OneTable
    <2>3. \A x : x \in fs(t) <=> \E m \in Dom : ok(m) /\ x = Fn(t, m)
      BY DEF Fn
    <2> HIDE DEF fs, us
    <2>4. UNION {fs(u) : u \in {t}} = fs(t)
      OBVIOUS
    <2> QED BY <2>1, <2>2, <2>3, <2>4
  <1>4. \A m \in Dom : ok(m) /\ in(Fn(t, m)) <=> Around(t, m)
    <2> SUFFICES ASSUME NEW m \in Dom PROVE ok(m) /\ in(Fn(t, m)) <=> Around(t, m)
      OBVIOUS
    <2> DEFINE v == T.syms[m].value
               w == T.syms[m].size
    <2>1. Fn(t, m).from = v /\ Fn(t, m).to = v + w
      BY DEF Fn
    <2>2. v \in Int /\ w \in Nat
      BY <1>2
    <2>3. Around(t, m) <=> ok(m) /\ w # 0 /\ Probe >= Bias + v /\ Probe < Bias + v + w
      BY DEF Around
    <2> HIDE DEF v, w, ok
    <2> QED BY <1>1, <2>1, <2>2, <2>3 DEF Probe
  <1>5. \A m : Fn(t, m).from = T.syms[m].value
    BY DEF Fn
  <1> DEFINE around == {x \in FunctionsOf(file) : in(x)}
  <1>6. \A x : x \in CallersOf(file) <=> x \in around /\ \A y \in around : y.from <= x.from
    BY DEF CallersOf
  <1>7. \A x : x \in around <=> \E m \in Dom : Around(t, m) /\ x = Fn(t, m)
    <2> HIDE DEF ok, in, Dom
    <2> QED BY <1>3, <1>4
  <1> HIDE DEF around, in, ok, at
  <1>8. ASSUME NEW x, x \in CallersOf(file) PROVE \E m : Inner(t, m) /\ x = Fn(t, m)
    <2>1. PICK m \in Dom : Around(t, m) /\ x = Fn(t, m)
      BY <1>6, <1>7, <1>8
    <2>2. ASSUME NEW k \in Dom, Around(t, k) PROVE T.syms[k].value <= T.syms[m].value
      <3>1. Fn(t, k) \in around
        BY <1>7, <2>2
      <3>2. Fn(t, k).from <= x.from
        BY <1>6, <1>8, <3>1
      <3> QED BY <1>5, <2>1, <3>2
    <2> QED BY <2>1, <2>2 DEF Inner
  <1>9. ASSUME NEW m, Inner(t, m) PROVE Fn(t, m) \in CallersOf(file)
    <2>1. m \in Dom /\ Fn(t, m) \in around
      BY <1>7, <1>9 DEF Inner
    <2>2. ASSUME NEW y \in around PROVE y.from <= Fn(t, m).from
      <3>1. PICK k \in Dom : Around(t, k) /\ y = Fn(t, k)
        BY <1>7, <2>2
      <3> QED BY <1>5, <1>9, <3>1 DEF Inner
    <2> QED BY <1>6, <2>1, <2>2
  <1> QED BY <1>8, <1>9

\* With no table there is no function.
LEMMA NoCallers ==
    ASSUME \A t \in 1 .. Len(file.tables) : ~file.tables[t].usable
    PROVE  CallersOf(file) = {}
  <1>1. {u \in 1 .. Len(file.tables) : file.tables[u].usable} = {}
    OBVIOUS
  <1>2. FunctionsOf(file) = {}
    BY <1>1 DEF FunctionsOf
  <1> QED BY <1>2 DEF CallersOf

\* A set of callers with two members is larger than one.
LEMMA TwoCallers ==
    ASSUME CallInv, OneTable, NEW t \in 1 .. Len(file.tables), file.tables[t].usable,
           NEW x \in CallersOf(file), NEW z \in CallersOf(file), x # z
    PROVE  Cardinality(CallersOf(file)) > 1
  <1> DEFINE n == Len(file.tables[t].syms)
             all == {Fn(t, m) : m \in 1 .. n}
  <1>1. n \in Nat
    BY DEF CallInv, FileOk, TableOk
  <1>2. IsFiniteSet(1 .. n)
    <2> HIDE DEF n
    <2>1. 1 \in Int /\ n \in Int
      BY <1>1
    <2> QED BY <2>1, FS_Interval
  <1>3. IsFiniteSet(all)
    <2> DEFINE g == [m \in 1 .. n |-> Fn(t, m)]
    <2>1. g \in Surjection(1 .. n, all)
      BY DEF Surjection
    <2> HIDE DEF n, g, all
    <2> QED BY <1>2, <2>1, FS_Surjection
  <1>4. CallersOf(file) \subseteq all
    BY CallersAre DEF Inner
  <1>5. IsFiniteSet(CallersOf(file)) /\ Cardinality(CallersOf(file)) \in Nat
    BY <1>3, <1>4, FS_Subset, FS_CardinalityType
  <1>6. {x, z} \subseteq CallersOf(file)
    OBVIOUS
  <1>7. Cardinality({x, z}) <= Cardinality(CallersOf(file))
    BY <1>5, <1>6, FS_Subset
  <1>8. Cardinality({x, z}) = 2
    <2>1. IsFiniteSet({x}) /\ Cardinality({x}) = 1
      BY FS_Singleton
    <2>2. Cardinality({x} \cup {z}) = 1 + 1
      BY <2>1, FS_AddElement
    <2>3. {x} \cup {z} = {x, z}
      OBVIOUS
    <2> QED BY <2>2, <2>3
  <1> QED BY <1>5, <1>7, <1>8

-----------------------------------------------------------------------------
\* The end of the search: the frame is given the name of the best symbol.
LEMMA SectionsEndStep ==
    ASSUME Inv, SectionsEnd
    PROVE  Inv'
  <1> USE DEF Inv
  <1> DEFINE name == strtab[best.st_name]
             known == best # None /\ best.st_name \in 1 .. Len(strtab) /\ name.len > 0
             cut == IF name.len <= NameRoom THEN name.len ELSE NameRoom
             full == [name EXCEPT !.len = cut]
  <1>1. /\ pc = "sections" /\ i > Len(file.tables) /\ pc' = "munmap"
        /\ UNCHANGED <<ip, info, file, fd, map, i, s, best, strtab>>
        /\ frame' = IF known THEN [frame EXCEPT !.sname = full] ELSE frame
    BY DEF SectionsEnd, call, search
  <1>2. /\ Len(file.tables) \in Nat /\ "sname" \in DOMAIN frame /\ frame.sname = None
        /\ StrtabOk /\ i - 1 = Len(file.tables)
    <2>1. Len(file.tables) \in Nat /\ "sname" \in DOMAIN frame /\ frame.sname = None /\ StrtabOk
      BY <1>1 DEF CallInv, FileOk, Searching
    <2>2. i \in 1 .. (Len(file.tables) + 1)
      BY DEF TypeOK
    <2> QED BY <1>1, <2>1, <2>2
  <1>3. ASSUME known
        PROVE  /\ name.len \in Nat /\ name.len > 0 /\ full.len = cut /\ full.id = name.id
               /\ full # None /\ cut \in Nat /\ cut < OutSize
    <2>1. PICK t \in 1 .. Len(file.tables) : file.tables[t].usable /\ strtab = file.tables[t].strs
      BY <1>2, <1>3 DEF StrtabOk
    <2>2. TableOk(file.tables[t])
      BY <2>1 DEF CallInv, FileOk
    <2>3. /\ DOMAIN name = {"id", "len"} /\ name.len \in Nat
          /\ \A l \in 0 .. OutSize : [name EXCEPT !.len = l] # None
      BY <1>3, <2>1, <2>2 DEF TableOk
    <2>4. cut \in Nat /\ cut < OutSize /\ cut \in 0 .. OutSize
      BY <2>3, BufferAssumption DEF NameRoom
    <2>5. full.len = cut /\ full.id = name.id
      <3> HIDE DEF name, cut
      <3> QED BY <2>3
    <2> QED BY <1>3, <2>3, <2>4, <2>5
  <1>4. /\ known => frame'.sname = full
        /\ ~known => frame'.sname = None
        /\ "sname" \in DOMAIN frame'
    <2> HIDE DEF known, full
    <2> QED BY <1>1, <1>2
  <1>5. frame'.sname # None => frame'.sname.len < OutSize
    <2> HIDE DEF known, full, cut, name
    <2> QED BY <1>3, <1>4
  <1>6. TypeOK'
    BY <1>1, <1>5 DEF TypeOK
  <1>7. CallInv'
    BY <1>1, <1>4 DEF CallInv, Searching
  <1>8. HeldInv' /\ SearchInv'
    BY <1>1 DEF HeldInv, Searching, SearchInv
  <1>9. FunctionNamed'
    <2> SUFFICES ASSUME OneTable
                 PROVE  IF frame'.sname = None
                        THEN \A x \in CallersOf(file) :
                                x.name.len = 0 \/ Cardinality(CallersOf(file)) > 1
                        ELSE \E x \in CallersOf(file) :
                                /\ frame'.sname.id = x.name.id
                                /\ frame'.sname.len =
                                      (IF x.name.len < OutSize THEN x.name.len ELSE OutSize - 1)
      <3>1. (OneTable' <=> OneTable) /\ CallersOf(file)' = CallersOf(file)
        BY <1>1 DEF OneTable, CallersOf, FunctionsOf, Bias
      <3> QED BY <3>1 DEF FunctionNamed
    <2>1. CASE (\A t \in 1 .. (i - 1) : ~file.tables[t].usable) /\ best = None
      <3>1. CallersOf(file) = {}
        BY <1>2, <2>1, NoCallers
      <3>2. frame'.sname = None
        BY <1>4, <2>1
      <3> QED BY <3>1, <3>2
    <2>2. CASE \E t \in 1 .. (i - 1) :
                 /\ file.tables[t].usable /\ strtab = file.tables[t].strs
                 /\ BestOf(t, Len(file.tables[t].syms))
      <3>1. PICK t \in 1 .. Len(file.tables) :
                 /\ file.tables[t].usable /\ strtab = file.tables[t].strs
                 /\ BestOf(t, Len(file.tables[t].syms))
        BY <1>2, <2>2
      <3>2. \A x : x \in CallersOf(file) <=> \E m : Inner(t, m) /\ x = Fn(t, m)
        BY <3>1, CallersAre
      <3>3. CASE best = None
        <4>1. \A m : ~Inner(t, m)
          <5>1. TableOk(file.tables[t])
            BY <3>1 DEF CallInv, FileOk
          <5> QED BY <3>1, <3>3, <5>1 DEF BestOf, Inner, TableOk
        <4>2. frame'.sname = None
          BY <1>4, <3>3
        <4> QED BY <3>2, <4>1, <4>2
      <3>4. CASE best # None
        <4>1. PICK m : Inner(t, m) /\ best = file.tables[t].syms[m]
          BY <3>1, <3>4 DEF BestOf, Inner
        <4>2. Fn(t, m) \in CallersOf(file)
          BY <3>2, <4>1
        <4>3. Fn(t, m).name = name /\ best.st_name \in 1 .. Len(strtab)
          BY <3>1, <4>1 DEF Fn, Inner, Around
        <4>4. TableOk(file.tables[t])
          BY <3>1 DEF CallInv, FileOk
        <4>5. name.len \in Nat
          BY <3>1, <4>3, <4>4 DEF TableOk
        <4>6. CASE known
          <5>1. /\ frame'.sname # None /\ frame'.sname.id = name.id
                /\ frame'.sname.len = cut
            <6> HIDE DEF known, full, cut, name
            <6> QED BY <1>3, <1>4, <4>6
          <5>2. cut = IF name.len < OutSize THEN name.len ELSE OutSize - 1
            BY <4>5, BufferAssumption DEF NameRoom
          <5> HIDE DEF known, full, cut, name
          <5> QED BY <4>2, <4>3, <5>1, <5>2
        <4>7. CASE ~known
          <5>1. name.len = 0 /\ frame'.sname = None
            BY <1>4, <3>4, <4>3, <4>5, <4>7
          <5>2. ASSUME NEW x \in CallersOf(file), x.name.len # 0
                PROVE  Cardinality(CallersOf(file)) > 1
            <6>1. x # Fn(t, m)
              <7> HIDE DEF name
              <7> QED BY <4>3, <5>1, <5>2
            <6> QED BY <3>1, <4>2, <6>1, TwoCallers
          <5> QED BY <5>1, <5>2
        <4> QED BY <4>6, <4>7
      <3> QED BY <3>3, <3>4
    <2> QED BY <1>1, <2>1, <2>2 DEF SearchInv
  <1> QED BY <1>6, <1>7, <1>8, <1>9

\* Every step keeps the invariant.
LEMMA StepInv == Inv /\ [Next]_vars => Inv'
  <1> SUFFICES ASSUME Inv, [Next]_vars PROVE Inv'
    OBVIOUS
  <1>1. CASE UNCHANGED vars
    <2>1. /\ UNCHANGED <<pc, ip, info, file, fd, map, i, s, best, strtab, frame>>
      BY <1>1 DEF vars
    <2>2. TypeOK' /\ CallInv' /\ HeldInv'
      BY <2>1 DEF Inv, TypeOK, CallInv, StrtabOk, HeldInv
    <2>3. SearchInv'
      BY <2>1 DEF Inv, SearchInv, OneTable, BestOf, Around, Probe, Bias
    <2>4. FunctionNamed'
      <3>1. CallersOf(file)' = CallersOf(file)
        BY <2>1 DEF CallersOf, FunctionsOf, Bias
      <3> QED BY <2>1, <3>1 DEF Inv, FunctionNamed, OneTable
    <2> QED BY <2>2, <2>3, <2>4 DEF Inv
  <1>2. CASE Next
    BY <1>2, OutsideStep, SectionStep, SymbolStep, SectionsEndStep DEF Next
  <1> QED BY <1>1, <1>2

\* The inductive invariant of the search in the object's file.
THEOREM Invariance == Spec => []Inv
  BY InitInv, StepInv, PTL DEF Spec

\* bw_elf_sname: symbols are read from a section that can be read, neither
\* index passes the place where its loop ends, and the name stays inside
\* sname_buf, for every size of the buffer.
THEOREM TypeCorrect == Spec => []TypeOK
  <1>1. Inv => TypeOK
    BY DEF Inv
  <1> QED BY <1>1, Invariance, PTL

\* bw_elf_sname closes what it opened and unmaps what it mapped, on every path.
THEOREM NothingLeaks == Spec => []ResourcesReleased
  <1>1. Inv => ResourcesReleased
    BY DEF Inv, HeldInv, Searching, ResourcesReleased
  <1> QED BY <1>1, Invariance, PTL

\* The name that bw_elf_sname finds is that of the innermost function around
\* the call, for every file with one symbol table, and it finds it when
\* there is one such function and its name is not empty.
THEOREM FunctionFound == Spec => []FunctionNamed
  <1>1. Inv => FunctionNamed
    BY DEF Inv
  <1> QED BY <1>1, Invariance, PTL
==============================================================================
