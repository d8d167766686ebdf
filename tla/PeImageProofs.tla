---------------------------- MODULE PeImageProofs ----------------------------
(***************************************************************************)
(* Proofs about PeImage, for every image, every size of the tables and     *)
(* every address the module is loaded at.                                  *)
(***************************************************************************)
EXTENDS PeImage, SortedTableProofs, FiniteSetTheorems

-----------------------------------------------------------------------------
(* Primary records *)

Naux(p) == img.coff[p].naux

\* A set of records that has the first and, with each, the one behind its
\* auxiliary records.
Closed(S) ==
    /\ 1 \in S
    /\ \A q \in S : q + Naux(q) + 1 \in 1 .. Len(img.coff) => q + Naux(q) + 1 \in S

\* The primary records are such a set, and lie in every such set.
LEMMA PrimaryLeast ==
    /\ Primary \subseteq 1 .. Len(img.coff)
    /\ \A S \in SUBSET (1 .. Len(img.coff)) : Closed(S) => Primary \subseteq S
    /\ 1 \in 1 .. Len(img.coff) => Closed(Primary)
  <1> DEFINE N == 1 .. Len(img.coff)
  <1>1. \A p : p \in Primary <=> p \in N /\ \A S \in SUBSET N : Closed(S) => p \in S
    BY DEF Primary, Closed, Naux
  <1>2. ASSUME 1 \in N PROVE Closed(Primary)
    <2>1. 1 \in Primary
      BY <1>1, <1>2 DEF Closed
    <2>2. ASSUME NEW q \in Primary, q + Naux(q) + 1 \in N PROVE q + Naux(q) + 1 \in Primary
      <3>1. \A S \in SUBSET N : Closed(S) => q + Naux(q) + 1 \in S
        BY <1>1, <2>2 DEF Closed
      <3> QED BY <1>1, <2>2, <3>1
    <2> QED BY <2>1, <2>2 DEF Closed
  <1> QED BY <1>1, <1>2

\* The loop stands before a primary record, or at the end, and the auxiliary
\* records of those behind it are behind it as well.
PosAt(j) ==
    /\ j \in 0 .. Len(img.coff)
    /\ j < Len(img.coff) => j + 1 \in Primary
    /\ \A p \in Primary : p <= j => p + Naux(p) <= j

\* The loop starts there.
LEMMA PosStart == ImageOk(img) => PosAt(0)
  <1> SUFFICES ASSUME ImageOk(img) PROVE PosAt(0)
    OBVIOUS
  <1>1. Len(img.coff) \in Nat
    BY DEF ImageOk
  <1> QED BY <1>1, PrimaryLeast DEF PosAt, Closed

\* One turn of the loop: the next record looked at is the next primary one.
LEMMA PosStep ==
    ASSUME ImageOk(img), NEW j, PosAt(j), j < Len(img.coff), j + 1 + Naux(j + 1) <= Len(img.coff)
    PROVE  /\ PosAt(j + 1 + Naux(j + 1))
           /\ \A p \in Primary : p <= j + 1 + Naux(j + 1) => p <= j + 1
  <1> DEFINE N == 1 .. Len(img.coff)
             k == j + 1 + Naux(j + 1)
             S == {p \in Primary : p <= j + 1 \/ p > k}
  <1>0. /\ Len(img.coff) \in Nat /\ j \in Nat /\ j + 1 \in Primary
        /\ \A p \in N : p \in Nat /\ Naux(p) \in Nat
    BY DEF ImageOk, PosAt, Naux
  <1>1. j + 1 \in N /\ k \in N /\ k > j /\ Primary \subseteq N /\ 1 \in N /\ Naux(j + 1) \in Nat
    BY <1>0, PrimaryLeast
  <1>2. Closed(Primary)
    BY <1>1, PrimaryLeast
  <1>3. Closed(S)
    <2>1. 1 \in S
      BY <1>0, <1>2 DEF Closed
    <2>2. ASSUME NEW q \in S, q + Naux(q) + 1 \in N PROVE q + Naux(q) + 1 \in S
      <3>1. q \in Primary /\ q + Naux(q) + 1 \in Primary /\ q \in Nat /\ Naux(q) \in Nat
        BY <1>0, <1>1, <1>2, <2>2 DEF Closed
      <3>2. CASE q <= j
        <4>1. q + Naux(q) <= j
          BY <3>1, <3>2 DEF PosAt
        <4> QED BY <1>0, <3>1, <4>1
      <3>3. CASE q = j + 1
        BY <1>0, <3>1, <3>3
      <3>4. CASE q > k
        BY <1>0, <1>1, <3>1, <3>4
      <3> QED BY <1>0, <2>2, <3>1, <3>2, <3>3, <3>4
    <2> QED BY <2>1, <2>2 DEF Closed
  <1>4. Primary \subseteq S
    BY <1>1, <1>3, PrimaryLeast
  <1>5. \A p \in Primary : p <= k => p <= j + 1
    <2> QED BY <1>0, <1>1, <1>4
  <1>6. k < Len(img.coff) => k + 1 \in Primary
    <2>1. k + 1 = (j + 1) + Naux(j + 1) + 1
      BY <1>0, <1>1
    <2> QED BY <1>0, <1>1, <1>2, <2>1 DEF Closed
  <1>7. ASSUME NEW p \in Primary, p <= k PROVE p + Naux(p) <= k
    <2>1. p <= j + 1 /\ p \in Nat /\ Naux(p) \in Nat
      BY <1>0, <1>1, <1>5, <1>7
    <2>2. CASE p <= j
      <3>1. p + Naux(p) <= j
        BY <2>2 DEF PosAt
      <3> QED BY <1>0, <1>1, <2>1, <3>1
    <2>3. CASE p = j + 1
      BY <1>0, <1>1, <2>3
    <2> QED BY <1>0, <2>1, <2>2, <2>3
  <1>8. PosAt(k)
    <2> HIDE DEF k
    <2> QED BY <1>0, <1>1, <1>6, <1>7 DEF PosAt
  <1> QED BY <1>5, <1>8

\* When the loop ends at the last record, or before one that is cut off, every
\* function is behind it.
LEMMA PosEnd ==
    ASSUME ImageOk(img), NEW j, PosAt(j), j < Len(img.coff) => j + 1 + Naux(j + 1) > Len(img.coff)
    PROVE  \A p \in Functions : p <= j
  <1> DEFINE N == 1 .. Len(img.coff)
             S == {p \in Primary : p <= j + 1}
  <1>0. /\ Len(img.coff) \in Nat /\ j \in Nat /\ j <= Len(img.coff) /\ Functions \subseteq Primary
        /\ \A p \in N : p \in Nat /\ Naux(p) \in Nat
    BY DEF ImageOk, PosAt, Naux, Functions
  <1>1. CASE j = Len(img.coff)
    BY <1>0, <1>1, PrimaryLeast
  <1>2. CASE j < Len(img.coff)
    <2>1. j + 1 \in N /\ Primary \subseteq N /\ 1 \in N /\ Closed(Primary) /\ Naux(j + 1) \in Nat
      BY <1>0, <1>2, PrimaryLeast
    <2>2. ASSUME NEW q \in S, q + Naux(q) + 1 \in N PROVE q + Naux(q) + 1 \in S
      <3>1. q \in Primary /\ q + Naux(q) + 1 \in Primary /\ q \in Nat /\ Naux(q) \in Nat
        BY <1>0, <2>1, <2>2 DEF Closed
      <3>2. CASE q <= j
        <4>1. q + Naux(q) <= j
          BY <3>1, <3>2 DEF PosAt
        <4> QED BY <1>0, <3>1, <4>1
      <3>3. CASE q = j + 1
        BY <1>0, <1>2, <2>1, <2>2, <3>3
      <3> QED BY <1>0, <2>2, <3>1, <3>2, <3>3
    <2>3. Closed(S)
      BY <1>0, <2>1, <2>2 DEF Closed
    <2>4. Primary \subseteq S
      BY <2>1, <2>3, PrimaryLeast
    <2>5. \A p \in Functions : p + Naux(p) <= Len(img.coff)
      BY DEF Functions, Naux
    <2> QED BY <1>0, <1>2, <2>1, <2>4, <2>5
  <1> QED BY <1>0, <1>1, <1>2

-----------------------------------------------------------------------------
(* The inductive invariant *)

Ids == {"old"} \cup UNION {{im.coff[p].name.id : p \in 1 .. Len(im.coff)} : im \in Images}

Entries == [addr : Int, id : Ids, off : Nat, kept : Nat]

TypeInv ==
    /\ ImageOk(img) /\ \A p \in 1 .. Len(img.coff) : img.coff[p].name.id \in Ids
    /\ module \in Int /\ nlen \in 0 .. NameMax /\ syms \in Seq(Entries) /\ Len(syms) <= SymMax

\* Which handles are open where.
HeldInv ==
    /\ pc \in {"idle", "CreateFileA", "done"} => held = {}
    /\ pc \in {"GetFileSizeEx", "CreateFileMappingA"} => held = {"file"}
    /\ pc = "MapViewOfFile" => held = {"file", "map"}
    /\ pc \in {"headers", "symbols", "sections", "close"} => held = {"file", "map", "view"}

\* The functions behind the loop.
Taken(j) == {p \in Functions : p <= j}

Stands(e, p) == e.addr = module + img.coff[p].value /\ e.id = img.coff[p].name.id

\* An entry lies in the pool, is one of a function, and has its whole name,
\* unless it is the last in a pool that is full.
EntryOk(e) ==
    /\ e.off + e.kept + 1 <= nlen
    /\ \E p \in Taken(i) : Stands(e, p)
    /\ \A p \in Functions : img.coff[p].name.id = e.id =>
          /\ e.kept <= img.coff[p].name.len
          /\ e.kept < img.coff[p].name.len =>
                nlen = NameMax /\ \A n \in 1 .. Len(syms) : syms[n].off <= e.off

Apart(e, d) == e.off + e.kept < d.off \/ d.off + d.kept < e.off

\* The table has the functions behind the loop, in any order.
TableInv ==
    /\ PosAt(i)
    /\ Len(syms) = Cardinality(Taken(i))
    /\ \A m \in 1 .. Len(syms) :
          EntryOk(syms[m]) /\ \A n \in 1 .. Len(syms) : n # m => Apart(syms[m], syms[n])
    /\ \A p \in Taken(i) : \E m \in 1 .. Len(syms) : Stands(syms[m], p)

Opening == {"CreateFileA", "GetFileSizeEx", "CreateFileMappingA", "MapViewOfFile", "headers"}

\* Before a load the tables may be those of another module; then they are
\* empty until the loop, and sorted after it.
LoadInv ==
    /\ pc \in {"idle", "symbols", "sections", "close", "done"} \cup Opening
    /\ pc = "idle" => PoolSound
    /\ pc # "idle" => TableInv
    /\ pc \in Opening => syms = <<>> /\ i = 0 /\ nlen = 0
    /\ pc \in {"sections", "close", "done"} => Sorted(syms)
    /\ Table(lines) /\ Sorted(lines)

Inv == TypeInv /\ HeldInv /\ LoadInv

-----------------------------------------------------------------------------
(* The steps outside of the loop *)

\* What depends on the image alone.
LEMMA SameImage ==
    ASSUME img' = img
    PROVE  /\ Functions' = Functions /\ (ImageOk(img)' <=> ImageOk(img))
           /\ \A j : (PosAt(j)' <=> PosAt(j)) /\ Taken(j)' = Taken(j)
  <1>1. Primary' = Primary
    BY DEF Primary
  <1>2. Functions' = Functions
    BY <1>1 DEF Functions
  <1>3. ASSUME NEW j PROVE (PosAt(j)' <=> PosAt(j)) /\ Taken(j)' = Taken(j)
    BY <1>1, <1>2 DEF PosAt, Naux, Taken
  <1> QED BY <1>2, <1>3 DEF ImageOk

\* The table does not change.
LEMMA SameTable ==
    ASSUME TypeInv, UNCHANGED <<img, module, i, syms, nlen>>
    PROVE  TypeInv' /\ (TableInv => TableInv') /\ (PoolSound => PoolSound')
  <1>1. /\ Functions' = Functions /\ (ImageOk(img)' <=> ImageOk(img))
        /\ PosAt(i') <=> PosAt(i) 
        /\ \A j : (PosAt(j)' <=> PosAt(j)) /\ Taken(j)' = Taken(j)
    BY SameImage
  <1>2. TypeInv'
    BY <1>1 DEF TypeInv
  <1>3. \A e : EntryOk(e)' <=> EntryOk(e)
    BY <1>1 DEF EntryOk, Stands
  <1>4. TableInv => TableInv'
    <2> SUFFICES ASSUME TableInv PROVE TableInv'
      OBVIOUS
    <2>1. PosAt(i)' /\ Taken(i)' = Taken(i)
      BY <1>1 DEF TableInv, PosAt, Taken
    <2>2. \A m \in 1 .. Len(syms) : EntryOk(syms[m])'
      BY <1>3 DEF TableInv
    <2> QED BY <2>1, <2>2 DEF TableInv, Stands, Apart
  <1>5. PoolSound => PoolSound'
    BY <1>1 DEF PoolSound
  <1> QED BY <1>2, <1>4, <1>5

\* A table of which the loop has filled nothing is in order.
LEMMA EmptyTable ==
    ImageOk(img) /\ syms = <<>> /\ i = 0 => TableInv
  <1> SUFFICES ASSUME ImageOk(img), syms = <<>>, i = 0 PROVE TableInv
    OBVIOUS
  <1>1. PosAt(0)
    BY PosStart
  <1>2. Taken(0) = {}
    <2>1. Functions \subseteq 1 .. Len(img.coff) /\ Len(img.coff) \in Nat
      BY PrimaryLeast DEF Functions, ImageOk
    <2>2. \A p \in Functions : ~(p <= 0)
      BY <2>1
    <2> QED BY <2>2 DEF Taken
  <1>3. Cardinality({}) = 0
    BY FS_EmptySet
  <1>4. Len(syms) = 0
    OBVIOUS
  <1>5. PosAt(i) /\ Taken(i) = {}
    BY <1>1, <1>2
  <1> QED BY <1>3, <1>4, <1>5 DEF TableInv

\* Before the first load the tables are empty.
LEMMA InitInv == Init => Inv
  <1> SUFFICES ASSUME Init PROVE Inv
    OBVIOUS
  <1>1. img = NoImage /\ module = 0 /\ pc = "idle" /\ held = {}
    BY DEF Init
  <1>2. img.coff = <<>> /\ Len(img.coff) = 0 /\ ImageOk(img)
    BY <1>1 DEF NoImage, ImageOk
  <1>3. Functions = {}
    <2>1. Primary = {}
      BY <1>2, PrimaryLeast
    <2> QED BY <2>1 DEF Functions
  <1>4. Table(lines) /\ Sorted(lines)
    BY DEF Init, Table, Sorted
  <1> DEFINE old == [addr |-> 0, id |-> "old", off |-> 0, kept |-> 3]
  <1>5. CASE syms = <<>> /\ nlen = 0
    <2>1. Len(syms) = 0 /\ syms \in Seq(Entries)
      BY <1>5
    <2>2. TypeInv
      BY <1>1, <1>2, <1>5, <2>1, TableSizes DEF TypeInv
    <2>3. PoolSound
      BY <2>1, TableSizes DEF PoolSound
    <2> QED BY <1>1, <1>4, <2>2, <2>3 DEF Inv, HeldInv, LoadInv, Opening
  <1>6. CASE syms = <<old>> /\ nlen = 4
    <2>1. old \in Entries /\ old.off = 0 /\ old.kept = 3
      BY DEF Entries, Ids
    <2> HIDE DEF old
    <2>2. syms \in Seq(Entries) /\ Len(syms) = 1 /\ syms[1] = old
      BY <1>6, <2>1
    <2>3. TypeInv
      BY <1>1, <1>2, <1>6, <2>2, TableSizes DEF TypeInv
    <2>4. PoolSound
      BY <1>3, <2>1, <2>2, TableSizes DEF PoolSound
    <2> QED BY <1>1, <1>4, <2>3, <2>4 DEF Inv, HeldInv, LoadInv, Opening
  <1> QED BY <1>5, <1>6 DEF Init

\* A load begins: the tables of the module before are dropped.
LEMMA LoadStep ==
    ASSUME Inv, NEW im \in Images, NEW b \in Bases, bw_pe_load(im, b)
    PROVE  Inv'
  <1>1. /\ pc = "idle" /\ img' = im /\ module' = b /\ i' = 0 /\ syms' = <<>> /\ nlen' = 0
        /\ lines' = <<>> /\ pc' \in {"CreateFileA", "done"} /\ held' = held
    BY DEF bw_pe_load
  <1>2. ImageOk(im) /\ b \in Int
    BY ImagesAssumption
  <1>3. \A p \in 1 .. Len(im.coff) : im.coff[p].name.id \in Ids
    BY DEF Ids
  <1>4. syms' \in Seq(Entries) /\ Len(syms') = 0
    BY <1>1
  <1>5. TypeInv'
    BY <1>1, <1>2, <1>3, <1>4, TableSizes DEF TypeInv
  <1>6. TableInv'
    <2>1. ImageOk(img)'
      BY <1>1, <1>2
    <2>2. (syms = <<>> /\ i = 0)'
      BY <1>1
    <2> QED BY <2>1, <2>2, EmptyTable, PTL
  <1>7. HeldInv'
    BY <1>1 DEF Inv, HeldInv
  <1>8. Table(lines)' /\ Sorted(lines)' /\ Sorted(syms)'
    BY <1>1 DEF Table, Sorted
  <1> QED BY <1>1, <1>5, <1>6, <1>7, <1>8 DEF Inv, LoadInv, Opening

\* The calls that open and close, and the headers.
LEMMA HandleStep ==
    ASSUME Inv, CreateFile \/ GetFileSize \/ CreateFileMapping \/ MapView \/ Headers \/ Close
    PROVE  Inv'
  <1>1. /\ UNCHANGED <<img, module, i, syms, nlen, lines>> /\ pc # "idle"
        /\ pc \in Opening \cup {"close"} /\ pc' \in Opening \cup {"symbols", "close", "done"}
        /\ pc' \in Opening \cup {"symbols"} => pc \in Opening
    BY DEF CreateFile, GetFileSize, CreateFileMapping, MapView, Headers, Close, Open, tables, Opening
  <1>2. TypeInv' /\ TableInv'
    BY <1>1, SameTable DEF Inv, LoadInv
  <1>3. HeldInv'
    <2> USE DEF Inv, HeldInv
    <2>1. CASE CreateFile
      BY <2>1 DEF CreateFile, Open, CloseOnFailure
    <2>2. CASE GetFileSize
      BY <2>2 DEF GetFileSize, Open, CloseOnFailure
    <2>3. CASE CreateFileMapping
      BY <2>3 DEF CreateFileMapping, Open, CloseOnFailure
    <2>4. CASE MapView
      BY <2>4 DEF MapView, Open, CloseOnFailure
    <2>5. CASE Headers
      BY <2>5 DEF Headers
    <2>6. CASE Close
      BY <2>6 DEF Close
    <2> QED BY <2>1, <2>2, <2>3, <2>4, <2>5, <2>6
  <1>4. Table(lines)' /\ Sorted(lines)' /\ Sorted(syms)'
    <2>1. pc \in Opening => Sorted(syms)
      BY DEF Inv, LoadInv, Sorted
    <2>2. Sorted(syms)
      BY <1>1, <2>1 DEF Inv, LoadInv
    <2> QED BY <1>1, <2>2 DEF Inv, LoadInv, Table, Sorted
  <1> QED BY <1>1, <1>2, <1>3, <1>4 DEF Inv, LoadInv, Opening

-----------------------------------------------------------------------------
(* The loop *)

\* A turn of the loop: the record is a function just if it is wanted.
LEMMA LoopTurn ==
    ASSUME Inv, pc = "symbols", More, ~AuxOverrun, img' = img, i' = i + AuxSkip + 1
    PROVE  /\ i \in Nat /\ i + 1 \in 1 .. Len(img.coff) /\ PosAt(i)' /\ i + 1 \notin Taken(i)
           /\ Functions' = Functions
           /\ Taken(i)' = IF Wanted THEN Taken(i) \cup {i + 1} ELSE Taken(i)
           /\ Wanted => i + 1 \in Functions
  <1>1. ImageOk(img) /\ PosAt(i) /\ Len(img.coff) \in Nat /\ i \in Nat /\ i < Len(img.coff)
    BY DEF Inv, TypeInv, LoadInv, TableInv, ImageOk, PosAt, More
  <1>2. i + 1 \in 1 .. Len(img.coff) /\ AuxSkip = Naux(i + 1) /\ Naux(i + 1) \in Nat
    BY <1>1 DEF AuxSkip, Rec, Naux, ImageOk
  <1>3. i + 1 + Naux(i + 1) <= Len(img.coff) /\ i' = i + 1 + Naux(i + 1)
    BY <1>1, <1>2 DEF AuxOverrun
  <1>4. PosAt(i') /\ \A p \in Primary : p <= i' => p <= i + 1
    BY <1>1, <1>3, PosStep
  <1>5. PosAt(i)' /\ Functions' = Functions /\ Taken(i)' = {p \in Functions : p <= i'}
    <2>1. Functions' = Functions /\ Primary' = Primary
      BY SameImage DEF Primary
    <2> QED BY <1>4, <2>1 DEF PosAt, Taken, Naux
  <1>6. i + 1 \in Functions <=> Wanted
    <2>1. i + 1 \in Primary
      BY <1>1 DEF PosAt
    <2>2. (i + 1) + img.coff[i + 1].naux <= Len(img.coff)
      BY <1>3 DEF Naux
    <2> QED BY <2>1, <2>2 DEF Functions, IsFunction, Wanted, Rec
  <1>7. Functions \subseteq 1 .. Len(img.coff) /\ Functions \subseteq Primary
    BY PrimaryLeast DEF Functions
  <1>8. \A p \in Functions : p <= i' <=> (p <= i \/ p = i + 1)
    <2>1. i' \in Nat /\ i' >= i + 1
      BY <1>1, <1>2, <1>3
    <2>2. \A p \in Functions : p \in Nat
      BY <1>1, <1>7
    <2> QED BY <1>1, <1>4, <1>7, <2>1, <2>2
  <1>9. Taken(i)' = IF Wanted THEN Taken(i) \cup {i + 1} ELSE Taken(i)
    BY <1>5, <1>6, <1>8 DEF Taken
  <1> QED BY <1>1, <1>2, <1>5, <1>6, <1>9 DEF Taken

\* The loop passes over a record that is no function.
LEMMA SkipStep ==
    ASSUME Inv, SymbolSkip
    PROVE  Inv'
  <1>1. /\ pc = "symbols" /\ More /\ ~AuxOverrun /\ ~Wanted /\ i' = i + AuxSkip + 1
        /\ UNCHANGED <<pc, img, module, held, syms, nlen, lines>>
    BY DEF SymbolSkip
  <1>2. PosAt(i)' /\ Functions' = Functions /\ Taken(i)' = Taken(i)
    BY <1>1, LoopTurn
  <1>3. TypeInv' /\ HeldInv'
    BY <1>1, SameImage DEF Inv, TypeInv, HeldInv
  <1>4. TableInv /\ Table(lines) /\ Sorted(lines)
    BY <1>1 DEF Inv, LoadInv
  <1>5. \A m \in 1 .. Len(syms) : EntryOk(syms[m])'
    BY <1>1, <1>2, <1>4 DEF TableInv, EntryOk, Stands
  <1>6. TableInv'
    BY <1>1, <1>2, <1>4, <1>5 DEF TableInv, Stands, Apart
  <1>7. Table(lines)' /\ Sorted(lines)'
    BY <1>1, <1>4
  <1> QED BY <1>1, <1>3, <1>6, <1>7 DEF Inv, LoadInv, Opening

\* What bw_pe_add_name stores fits with its terminator, and is cut short only
\* where that fills the pool.
LEMMA AddName ==
    ASSUME Inv, Rec.name.len \in Nat, bw_pe_add_name # 0, Rec.name.len > 0
    PROVE  /\ bw_pe_add_name \in Nat /\ bw_pe_add_name <= Rec.name.len /\ nlen < NameMax
           /\ nlen + bw_pe_add_name + 1 \in 0 .. NameMax
           /\ bw_pe_add_name < Rec.name.len => nlen + bw_pe_add_name + 1 = NameMax
  <1>1. nlen \in Nat /\ nlen <= NameMax /\ NameMax \in Nat
    BY TableSizes DEF Inv, TypeInv
  <1> QED BY <1>1 DEF bw_pe_add_name, NameRoom

\* The loop enters a function: its name is copied, or cut, into the pool.
LEMMA TakeStep ==
    ASSUME Inv, SymbolTake
    PROVE  Inv'
  <1> DEFINE k == bw_pe_add_name
             L == Len(syms)
  <1>0. PICK c, e : /\ c = i + 1
                    /\ e = [addr |-> module + Rec.value, id |-> Rec.name.id, off |-> nlen, kept |-> k]
    OBVIOUS
  <1>1. /\ pc = "symbols" /\ More /\ ~AuxOverrun /\ Wanted /\ k # 0 /\ i' = i + AuxSkip + 1
        /\ syms' = Append(syms, e) /\ nlen' = nlen + k + 1
        /\ UNCHANGED <<pc, img, module, held, lines>>
    BY <1>0 DEF SymbolTake
  <1>2. /\ PosAt(i)' /\ Functions' = Functions /\ Taken(i)' = Taken(i) \cup {c}
        /\ c \in Functions /\ c \in 1 .. Len(img.coff) /\ c \notin Taken(i)
    BY <1>0, <1>1, LoopTurn
  <1>3. TypeInv /\ TableInv /\ Table(lines) /\ Sorted(lines)
    BY <1>1 DEF Inv, LoadInv
  <1>4. Rec.value \in Int /\ Rec.name.len \in Nat /\ Rec.name.len > 0 /\ Rec.name.id \in Ids
    BY <1>0, <1>1, <1>2, <1>3 DEF TypeInv, ImageOk, Rec, Wanted
  <1>5. /\ k \in Nat /\ k <= Rec.name.len /\ nlen < NameMax /\ nlen' \in 0 .. NameMax
        /\ k < Rec.name.len => nlen' = NameMax
    BY <1>1, <1>4, AddName
  <1>6. nlen \in Nat /\ NameMax \in Nat /\ module \in Int /\ syms \in Seq(Entries) /\ L \in Nat
    BY <1>3, TableSizes DEF TypeInv
  <1>7. e \in Entries /\ e.addr = module + Rec.value /\ e.id = Rec.name.id /\ e.off = nlen /\ e.kept = k
    <2> HIDE DEF k
    <2> QED BY <1>0, <1>4, <1>5, <1>6 DEF Entries
  <1> HIDE DEF k
  <1>8. /\ syms' \in Seq(Entries) /\ Len(syms') = L + 1 /\ syms'[L + 1] = e
        /\ \A m \in 1 .. L : syms'[m] = syms[m]
    BY <1>1, <1>6, <1>7
  <1>9. \A m \in 1 .. L : syms[m].off \in Nat /\ syms[m].kept \in Nat
    <2>1. \A m \in 1 .. L : syms[m] \in Entries
      BY <1>6
    <2> QED BY <2>1 DEF Entries
  <1>10. TypeInv'
    <2>1. L + 1 <= SymMax
      BY <1>1, <1>6, TableSizes DEF More
    <2>2. ImageOk(img)'
      BY <1>1, <1>3, SameImage DEF TypeInv
    <2> QED BY <1>1, <1>3, <1>5, <1>6, <1>8, <2>1, <2>2 DEF TypeInv
  <1>11. \A m \in 1 .. L : syms'[m].off <= nlen /\ syms'[m].off + syms'[m].kept < nlen
    <2>1. \A m \in 1 .. L : syms[m].off + syms[m].kept + 1 <= nlen
      BY <1>3 DEF TableInv, EntryOk
    <2> QED BY <1>6, <1>8, <1>9, <2>1
  <1>12. ASSUME NEW m \in 1 .. L PROVE EntryOk(syms[m])'
    <2>1. EntryOk(syms[m]) /\ syms'[m] = syms[m] /\ syms[m].off \in Nat /\ syms[m].kept \in Nat
      BY <1>3, <1>8, <1>9 DEF TableInv
    <2>2. syms[m].off + syms[m].kept + 1 <= nlen'
      BY <1>1, <1>5, <1>6, <2>1 DEF EntryOk
    <2>3. \E p \in Taken(i)' : Stands(syms[m], p)'
      <3>1. PICK p \in Taken(i) : Stands(syms[m], p)
        BY <2>1 DEF EntryOk
      <3>2. Stands(syms[m], p)' /\ p \in Taken(i)'
        BY <1>1, <1>2, <2>1, <3>1 DEF Stands
      <3> QED BY <3>2
    <2>4. \A p \in Functions : img.coff[p].name.id = syms[m].id =>
             syms[m].kept <= img.coff[p].name.len /\ ~(syms[m].kept < img.coff[p].name.len)
      BY <1>5, <1>6, <2>1 DEF EntryOk
    <2>5. \A p \in Functions' : img'.coff[p].name.id = syms'[m].id =>
             syms'[m].kept <= img'.coff[p].name.len /\ ~(syms'[m].kept < img'.coff[p].name.len)
      BY <1>1, <1>2, <2>1, <2>4
    <2> QED BY <2>1, <2>2, <2>3, <2>5 DEF EntryOk
  <1>13. EntryOk(e)'
    <2>1. e.off + e.kept + 1 <= nlen'
      BY <1>1, <1>5, <1>6, <1>7
    <2>2. Stands(e, c)
      BY <1>0, <1>7 DEF Stands, Rec
    <2>3. Stands(e, c)' /\ c \in Taken(i)'
      BY <1>1, <1>2, <2>2 DEF Stands
    <2>4. \A n \in 1 .. (L + 1) : syms'[n].off <= e.off
      BY <1>6, <1>7, <1>8, <1>11
    <2>5. ASSUME NEW p \in Functions, img.coff[p].name.id = e.id
          PROVE  img.coff[p].name.len = Rec.name.len
      <3>1. p \in 1 .. Len(img.coff)
        BY PrimaryLeast DEF Functions
      <3> QED BY <1>0, <1>2, <1>3, <1>7, <2>5, <3>1 DEF TypeInv, ImageOk, Rec
    <2>6. ASSUME NEW p \in Functions', img'.coff[p].name.id = e.id
          PROVE  /\ e.kept <= img'.coff[p].name.len
                 /\ e.kept < img'.coff[p].name.len =>
                       nlen' = NameMax /\ \A n \in 1 .. Len(syms') : syms'[n].off <= e.off
      BY <1>1, <1>2, <1>5, <1>7, <1>8, <2>4, <2>5, <2>6
    <2> QED BY <2>1, <2>3, <2>6 DEF EntryOk
  <1>14. \A m \in 1 .. (L + 1) : EntryOk(syms[m])'
    <2>1. PICK n : n = L + 1
      OBVIOUS
    <2>2. EntryOk(syms[n])'
      BY <1>8, <1>13, <2>1 DEF EntryOk
    <2> QED BY <1>6, <1>12, <2>1, <2>2
  <1>15. \A m, n \in 1 .. (L + 1) : n # m => Apart(syms'[m], syms'[n])
    <2>1. \A m, n \in 1 .. L : n # m => Apart(syms'[m], syms'[n])
      BY <1>3, <1>8 DEF TableInv
    <2>2. \A m \in 1 .. L : Apart(syms'[m], e) /\ Apart(e, syms'[m])
      BY <1>7, <1>11 DEF Apart
    <2> QED BY <1>6, <1>8, <2>1, <2>2
  <1>16. \A p \in Taken(i)' : \E m \in 1 .. (L + 1) : Stands(syms[m], p)'
    <2>1. \A p \in Taken(i) : \E m \in 1 .. L : Stands(syms[m], p)
      BY <1>3 DEF TableInv
    <2>2. \A p \in Taken(i) : \E m \in 1 .. (L + 1) : Stands(syms[m], p)'
      <3> SUFFICES ASSUME NEW p \in Taken(i) PROVE \E m \in 1 .. (L + 1) : Stands(syms[m], p)'
        OBVIOUS
      <3>1. PICK m \in 1 .. L : Stands(syms[m], p)
        BY <2>1
      <3>2. Stands(syms[m], p)' /\ m \in 1 .. (L + 1)
        BY <1>1, <1>6, <1>8, <3>1 DEF Stands
      <3> QED BY <3>2
    <2>3. \E m \in 1 .. (L + 1) : Stands(syms[m], c)'
      <3>1. PICK m : m = L + 1
        OBVIOUS
      <3>2. Stands(syms[m], c)' /\ m \in 1 .. (L + 1)
        BY <1>0, <1>1, <1>6, <1>7, <1>8, <3>1 DEF Stands, Rec
      <3> QED BY <3>2
    <2> QED BY <1>2, <2>2, <2>3
  <1>17. L + 1 = Cardinality(Taken(i)')
    <2>1. IsFiniteSet(1 .. Len(img.coff))
      <3>1. 1 \in Int /\ Len(img.coff) \in Int
        BY <1>3 DEF TypeInv, ImageOk
      <3> QED BY <3>1, FS_Interval
    <2>2. IsFiniteSet(Taken(i))
      <3>1. Taken(i) \subseteq 1 .. Len(img.coff)
        BY PrimaryLeast DEF Functions, Taken
      <3> QED BY <2>1, <3>1, FS_Subset
    <2>3. Cardinality(Taken(i) \cup {c}) = Cardinality(Taken(i)) + 1
      BY <1>2, <2>2, FS_AddElement
    <2> QED BY <1>2, <1>3, <2>3 DEF TableInv
  <1>18. TableInv'
    <2>1. \A m, n \in 1 .. (L + 1) : n # m => Apart(syms[m], syms[n])'
      BY <1>15 DEF Apart
    <2> QED BY <1>2, <1>8, <1>14, <1>16, <1>17, <2>1 DEF TableInv
  <1>19. HeldInv' /\ Table(lines)' /\ Sorted(lines)'
    BY <1>1, <1>3 DEF Inv, HeldInv
  <1> QED BY <1>1, <1>10, <1>18, <1>19 DEF Inv, LoadInv, Opening

\* The end of the loop: sorting moves entries and loses none.
LEMMA EndStep ==
    ASSUME Inv, SymbolsEnd
    PROVE  Inv'
  <1> DEFINE L == Len(syms)
  <1>1. /\ pc = "symbols" /\ pc' = "sections" /\ syms' \in Sortings(syms)
        /\ UNCHANGED <<img, module, held, i, nlen, lines>>
    BY DEF SymbolsEnd
  <1>2. TypeInv /\ TableInv /\ Table(lines) /\ Sorted(lines) /\ syms \in Seq(Entries) /\ L \in Nat
    BY <1>1 DEF Inv, LoadInv, TypeInv
  <1>3. /\ syms' \in Seq(Entries) /\ Len(syms') = L /\ Sorted(syms')
        /\ \E p \in [1 .. L -> 1 .. L] : /\ \A m, n \in 1 .. L : p[m] = p[n] => m = n
                                         /\ \A m \in 1 .. L : syms'[m] = syms[p[m]]
    <2>1. \A e \in Entries : e.addr \in Int
      BY DEF Entries
    <2> QED BY <1>1, <1>2, <2>1, SortingsSorted
  <1>4. PICK p \in [1 .. L -> 1 .. L] : /\ \A m, n \in 1 .. L : p[m] = p[n] => m = n
                                        /\ \A m \in 1 .. L : syms'[m] = syms[p[m]]
    BY <1>3
  <1>5. \A n \in 1 .. L : \E m \in 1 .. L : p[m] = n
    <2>1. p \in Injection(1 .. L, 1 .. L)
      BY <1>4 DEF Injection, IsInjective
    <2>2. IsFiniteSet(1 .. L)
      <3>1. 1 \in Int /\ L \in Int
        BY <1>2
      <3> HIDE DEF L
      <3> QED BY <3>1, FS_Interval
    <2>3. p \in Surjection(1 .. L, 1 .. L)
      <3> HIDE DEF L
      <3> QED BY <2>1, <2>2, FS_Injection
    <2> QED BY <2>3 DEF Surjection
  <1>6. /\ PosAt(i)' /\ Functions' = Functions /\ Taken(i)' = Taken(i) /\ ImageOk(img)'
    <2>1. /\ Functions' = Functions /\ (ImageOk(img)' <=> ImageOk(img)) /\ Primary' = Primary
      BY <1>1, SameImage DEF Primary
    <2> QED BY <1>1, <1>2, <2>1 DEF TypeInv, TableInv, PosAt, Naux, Taken
  <1>7. TypeInv'
    BY <1>1, <1>2, <1>3, <1>6 DEF TypeInv
  <1>8. ASSUME NEW m \in 1 .. L PROVE EntryOk(syms[m])'
    <2>1. EntryOk(syms[p[m]]) /\ syms'[m] = syms[p[m]]
      BY <1>2, <1>4 DEF TableInv
    <2>2. syms'[m].off + syms'[m].kept + 1 <= nlen'
      BY <1>1, <2>1 DEF EntryOk
    <2>3. \E q \in Taken(i)' : Stands(syms[m], q)'
      <3>1. PICK q \in Taken(i) : Stands(syms[p[m]], q)
        BY <2>1 DEF EntryOk
      <3>2. Stands(syms[m], q)' /\ q \in Taken(i)'
        BY <1>1, <1>6, <2>1, <3>1 DEF Stands
      <3> QED BY <3>2
    <2>4. ASSUME NEW q \in Functions', img'.coff[q].name.id = syms'[m].id
          PROVE  /\ syms'[m].kept <= img'.coff[q].name.len
                 /\ syms'[m].kept < img'.coff[q].name.len =>
                       nlen' = NameMax /\ \A n \in 1 .. Len(syms') : syms'[n].off <= syms'[m].off
      <3>1. /\ syms'[m].kept <= img'.coff[q].name.len
            /\ syms'[m].kept < img'.coff[q].name.len =>
                  nlen' = NameMax /\ \A n \in 1 .. L : syms[n].off <= syms'[m].off
        BY <1>1, <1>6, <2>1, <2>4 DEF EntryOk
      <3>2. \A n \in 1 .. L : syms'[n] = syms[p[n]] /\ p[n] \in 1 .. L
        BY <1>4
      <3> QED BY <1>3, <3>1, <3>2
    <2> QED BY <2>2, <2>3, <2>4 DEF EntryOk
  <1>9. ASSUME NEW m \in 1 .. L, NEW n \in 1 .. L, n # m PROVE Apart(syms[m], syms[n])'
    <2>1. Apart(syms[p[m]], syms[p[n]])
      BY <1>2, <1>4, <1>9 DEF TableInv
    <2> QED BY <1>4, <2>1 DEF Apart
  <1>10. ASSUME NEW q \in Taken(i) PROVE \E m \in 1 .. L : Stands(syms[m], q)'
    <2>1. PICK n \in 1 .. L : Stands(syms[n], q)
      BY <1>2 DEF TableInv
    <2>2. PICK m \in 1 .. L : p[m] = n
      BY <1>5
    <2>3. Stands(syms[m], q)'
      BY <1>1, <1>4, <2>1, <2>2 DEF Stands
    <2> QED BY <2>3
  <1>11. TableInv'
    <2>1. Len(syms') = Cardinality(Taken(i)')
      BY <1>2, <1>3, <1>6 DEF TableInv
    <2> QED BY <1>3, <1>6, <1>8, <1>9, <1>10, <2>1 DEF TableInv
  <1>12. HeldInv' /\ Table(lines)' /\ Sorted(lines)'
    BY <1>1, <1>2 DEF Inv, HeldInv
  <1> QED BY <1>1, <1>3, <1>7, <1>11, <1>12 DEF Inv, LoadInv, Opening

\* The rows come from the last section that holds some.
LEMMA SectionsStep ==
    ASSUME Inv, Sections
    PROVE  Inv'
  <1> DEFINE found == {r \in 1 .. Len(img.sections) :
                         NameOf(img.sections[r]) = ".debug_line" /\ img.sections[r].data}
             last == CHOOSE r \in found : \A q \in found : q <= r
  <1>1. /\ pc = "sections" /\ pc' = "close"
        /\ lines' = IF found = {} THEN <<>> ELSE img.sections[last].rows
        /\ UNCHANGED <<img, module, held, i, syms, nlen>>
    BY DEF Sections
  <1>2. Table(lines') /\ Sorted(lines')
    <2>1. CASE found = {}
      BY <1>1, <2>1 DEF Table, Sorted
    <2>2. CASE found # {}
      <3>1. Len(img.sections) \in Nat
        BY DEF Inv, TypeInv, ImageOk
      <3>2. found \in SUBSET (0 .. Len(img.sections))
        BY <3>1
      <3>3. \E r \in found : \A q \in found : q <= r
        <4> HIDE DEF found
        <4> QED BY <2>2, <3>1, <3>2, GreatestOf
      <3>4. last \in 1 .. Len(img.sections)
        BY <3>3
      <3> HIDE DEF last, found
      <3> QED BY <1>1, <2>2, <3>4 DEF Inv, TypeInv, ImageOk, Table, Sorted
    <2> QED BY <2>1, <2>2
  <1>3. TypeInv' /\ TableInv' /\ HeldInv' /\ Sorted(syms)'
    BY <1>1, SameTable DEF Inv, LoadInv, HeldInv
  <1> QED BY <1>1, <1>2, <1>3 DEF Inv, LoadInv, Opening

\* Every step keeps the invariant.
LEMMA StepInv == Inv /\ [Next]_vars => Inv'
  <1> SUFFICES ASSUME Inv, [Next]_vars PROVE Inv'
    OBVIOUS
  <1>1. CASE UNCHANGED vars
    <2>1. UNCHANGED <<pc, img, module, held, i, syms, nlen, lines>>
      BY <1>1 DEF vars
    <2>2. TypeInv' /\ (TableInv => TableInv') /\ (PoolSound => PoolSound')
      BY <2>1, SameTable DEF Inv
    <2> QED BY <2>1, <2>2 DEF Inv, LoadInv, HeldInv
  <1>2. CASE Next
    BY <1>2, LoadStep, HandleStep, SkipStep, TakeStep, EndStep, SectionsStep DEF Next
  <1> QED BY <1>1, <1>2

-----------------------------------------------------------------------------
(* What follows *)

\* The inductive invariant of bw_pe_load.
THEOREM Invariance == Spec => []Inv
  BY InitInv, StepInv, PTL DEF Spec

\* bw_pe_load leaves no handle and no view open, whichever call fails.
THEOREM NothingHeld == Spec => []HandlesClosed
  <1>1. Inv => HandlesClosed
    BY DEF Inv, HeldInv, HandlesClosed
  <1> QED BY <1>1, Invariance, PTL

\* Symbols and names stay inside their tables, apart from each other, and
\* only the last name is cut, for every image and every size of the tables.
THEOREM PoolStaysSound == Spec => []PoolSound
  <1>1. ASSUME Inv PROVE PoolSound
    <2>1. CASE pc = "idle"
      BY <1>1, <2>1 DEF Inv, LoadInv
    <2>2. CASE pc # "idle"
      <3>1. TypeInv /\ TableInv /\ nlen \in Nat /\ NameMax \in Nat /\ nlen <= NameMax
        BY <1>1, <2>2, TableSizes DEF Inv, LoadInv, TypeInv
      <3>2. \A m \in 1 .. Len(syms) : syms[m] \in Entries
        BY <3>1 DEF TypeInv
      <3>3. \A m \in 1 .. Len(syms) : syms[m].off \in Nat /\ syms[m].kept \in Nat
        BY <3>2 DEF Entries
      <3>4. \A m \in 1 .. Len(syms) : syms[m].off + syms[m].kept + 1 <= NameMax
        BY <3>1, <3>3 DEF TableInv, EntryOk
      <3> QED BY <3>1, <3>4 DEF PoolSound, TypeInv, TableInv, EntryOk, Apart
    <2> QED BY <2>1, <2>2
  <1> QED BY <1>1, Invariance, PTL

\* When everything fits, every function is behind the loop.
LEMMA AllTaken ==
    ASSUME Inv, Loaded, Fits
    PROVE  TypeInv /\ TableInv /\ Taken(i) = Functions /\ ImageOk(img) /\ nlen < NameMax
  <1>1. TypeInv /\ TableInv /\ ImageOk(img) /\ PosAt(i) /\ nlen < NameMax
    BY DEF Inv, LoadInv, Loaded, Fits, TypeInv, TableInv
  <1>2. i < Len(img.coff) => i + 1 + Naux(i + 1) > Len(img.coff)
    <2>1. i \in Nat /\ Len(img.coff) \in Nat
      BY <1>1 DEF PosAt, ImageOk
    <2>2. ASSUME i < Len(img.coff) PROVE AuxSkip = Naux(i + 1) /\ Naux(i + 1) \in Nat /\ AuxOverrun
      BY <1>1, <2>1, <2>2 DEF AuxSkip, Rec, Naux, ImageOk, Fits
    <2> QED BY <2>1, <2>2 DEF AuxOverrun
  <1>3. \A p \in Functions : p <= i
    BY <1>1, <1>2, PosEnd
  <1> QED BY <1>1, <1>3 DEF Taken

\* The table has exactly the functions of the image, each at its address and
\* with its whole name, for every layout of auxiliary records.
THEOREM TableExact == Spec => []SymbolsExact
  <1>1. ASSUME Inv PROVE SymbolsExact
    <2> SUFFICES ASSUME Loaded, Fits
                 PROVE  /\ Len(syms) = Cardinality(Functions)
                        /\ \A p \in Functions : \E m \in 1 .. Len(syms) :
                              /\ syms[m].addr = module + img.coff[p].value
                              /\ syms[m].id = img.coff[p].name.id
                              /\ syms[m].kept = img.coff[p].name.len
      BY DEF SymbolsExact
    <2>1. TypeInv /\ TableInv /\ Taken(i) = Functions /\ ImageOk(img) /\ nlen < NameMax
      BY <1>1, AllTaken
    <2>2. ASSUME NEW p \in Functions
          PROVE  \E m \in 1 .. Len(syms) : Stands(syms[m], p) /\ syms[m].kept = img.coff[p].name.len
      <3>1. PICK m \in 1 .. Len(syms) : Stands(syms[m], p)
        BY <2>1 DEF TableInv
      <3>2. p \in 1 .. Len(img.coff)
        BY PrimaryLeast DEF Functions
      <3>3. img.coff[p].name.len \in Nat /\ nlen \in Nat /\ NameMax \in Nat /\ syms[m] \in Entries
        BY <2>1, <3>2, TableSizes DEF TypeInv, ImageOk
      <3>4. syms[m].kept \in Nat
        BY <3>3 DEF Entries
      <3>5. /\ syms[m].kept <= img.coff[p].name.len
            /\ syms[m].kept < img.coff[p].name.len => nlen = NameMax
        BY <2>1, <3>1 DEF TableInv, EntryOk, Stands
      <3> QED BY <2>1, <3>1, <3>3, <3>4, <3>5
    <2> QED BY <2>1, <2>2 DEF TableInv, Stands
  <1> QED BY <1>1, Invariance, PTL

-----------------------------------------------------------------------------
(* The answers *)

\* A search gives the last entry at or below the address, if there is one.
LEMMA EntryFound ==
    ASSUME NEW t, NEW addr \in Int, Table(t), Sorted(t)
    PROVE  \/ EntryOf(t, addr) = {} /\ \A m \in 1 .. Len(t) : ~(t[m].addr <= addr)
           \/ \E m \in 1 .. Len(t) :
                 /\ EntryOf(t, addr) = {t[m]} /\ t[m].addr <= addr
                 /\ \A n \in 1 .. Len(t) : t[n].addr <= addr => t[n].addr <= t[m].addr
  <1> DEFINE below == {m \in 1 .. Len(t) : t[m].addr <= addr}
             l == LastAtOrBelow(t, addr)
  <1>0. Len(t) \in Nat
    BY DEF Table
  <1>1. Search(t, addr) = l - 1
    BY SearchFinds
  <1>2. CASE below = {}
    <2>1. l = 0
      BY <1>2 DEF LastAtOrBelow
    <2>2. {Search(t, addr) + 1} \ {0} = {}
      BY <1>1, <2>1
    <2>3. EntryOf(t, addr) = {}
      BY <2>2 DEF EntryOf
    <2> QED BY <1>2, <2>3
  <1>3. CASE below # {}
    <2>1. \E m \in below : \A n \in below : n <= m
      <3>1. below \in SUBSET (0 .. Len(t))
        BY <1>0
      <3> HIDE DEF below
      <3> QED BY <1>0, <1>3, <3>1, GreatestOf
    <2>2. l = CHOOSE m \in below : \A n \in below : n <= m
      BY <1>3 DEF LastAtOrBelow
    <2>3. l \in below /\ \A n \in below : n <= l
      <3> HIDE DEF below, l
      <3> QED BY <2>1, <2>2
    <2> HIDE DEF l
    <2>4. l \in 1 .. Len(t) /\ t[l].addr <= addr /\ l # 0 /\ Search(t, addr) + 1 = l
      BY <1>0, <1>1, <2>3
    <2>5. EntryOf(t, addr) = {t[l]}
      <3>1. {Search(t, addr) + 1} \ {0} = {l}
        BY <2>4
      <3> QED BY <3>1 DEF EntryOf
    <2>6. \A n \in 1 .. Len(t) : t[n].addr <= addr => t[n].addr <= t[l].addr
      BY <2>3, <2>4 DEF Sorted
    <2> QED BY <2>4, <2>5, <2>6
  <1> QED BY <1>2, <1>3

\* Functions that start at the same address have the same name.
StartsDistinct ==
    \A p, q \in Functions :
        img.coff[p].value = img.coff[q].value => img.coff[p].name.id = img.coff[q].name.id

\* The functions of the image, in a table with their starts from base and, by
\* lab, their names.
TableOf(t, lab, base) ==
    /\ Table(t) /\ Sorted(t)
    /\ \A m \in 1 .. Len(t) : \E p \in Functions :
          t[m].addr = base + img.coff[p].value /\ lab[m] = img.coff[p].name.id
    /\ \A p \in Functions : \E m \in 1 .. Len(t) :
          t[m].addr = base + img.coff[p].value /\ lab[m] = img.coff[p].name.id

\* A search in such a table names the caller.
LEMMA CallerFound ==
    ASSUME ImageOk(img), StartsDistinct, module \in Int, NEW x \in Int,
           NEW t, NEW lab, NEW base \in Int, TableOf(t, lab, base)
    PROVE  \/ EntryOf(t, base + (x - 1)) = {} /\ CallerOf(module + x) = {}
           \/ \E m \in 1 .. Len(t) : /\ EntryOf(t, base + (x - 1)) = {t[m]}
                                      /\ CallerOf(module + x) = {lab[m]}
  <1> DEFINE v(p) == img.coff[p].value
             addr == base + (x - 1)
             below == {p \in Functions : module + v(p) <= (module + x) - 1}
             inner == {q \in below : \A r \in below : v(r) <= v(q)}
  <1>1. CallerOf(module + x) = {img.coff[p].name.id : p \in inner}
    BY DEF CallerOf
  <1>2. \A p \in Functions : v(p) \in Int
    <2>1. Functions \subseteq 1 .. Len(img.coff)
      BY PrimaryLeast DEF Functions
    <2> QED BY <2>1 DEF ImageOk
  <1> HIDE DEF v
  <1>3. \A p : p \in below <=> p \in Functions /\ base + v(p) <= addr
    BY <1>2
  <1>4. addr \in Int
    OBVIOUS
  <1>5. Table(t) /\ Sorted(t)
    BY DEF TableOf
  <1> HIDE DEF addr, below
  <1>6. CASE EntryOf(t, addr) = {} /\ \A m \in 1 .. Len(t) : ~(t[m].addr <= addr)
    <2>1. below = {}
      BY <1>3, <1>6 DEF TableOf, v
    <2>2. inner = {}
      BY <2>1
    <2>3. CallerOf(module + x) = {}
      BY <1>1, <2>2
    <2> QED BY <1>6, <2>3 DEF addr
  <1>7. ASSUME NEW m \in 1 .. Len(t), EntryOf(t, addr) = {t[m]}, t[m].addr <= addr,
               \A n \in 1 .. Len(t) : t[n].addr <= addr => t[n].addr <= t[m].addr
        PROVE  CallerOf(module + x) = {lab[m]}
    <2>1. PICK p \in Functions : t[m].addr = base + v(p) /\ lab[m] = img.coff[p].name.id
      BY DEF TableOf, v
    <2>2. ASSUME NEW r \in below PROVE v(r) <= v(p)
      <3>1. r \in Functions /\ base + v(r) <= addr
        BY <1>3
      <3>2. PICK n \in 1 .. Len(t) : t[n].addr = base + v(r)
        BY <3>1 DEF TableOf, v
      <3>3. base + v(r) <= base + v(p)
        BY <1>7, <2>1, <3>1, <3>2
      <3>4. v(r) \in Int /\ v(p) \in Int
        BY <1>2, <3>1
      <3> QED BY <3>3, <3>4
    <2>3. p \in inner
      BY <1>3, <1>7, <2>1, <2>2
    <2>4. ASSUME NEW q \in inner PROVE img.coff[q].name.id = lab[m]
      <3>1. q \in Functions /\ v(q) <= v(p) /\ v(p) <= v(q)
        BY <1>3, <2>2, <2>3
      <3>2. v(q) = v(p)
        BY <1>2, <3>1
      <3> QED BY <2>1, <3>1, <3>2 DEF StartsDistinct, v
    <2> QED BY <1>1, <2>1, <2>3, <2>4
  <1>8. \/ EntryOf(t, addr) = {} /\ \A m \in 1 .. Len(t) : ~(t[m].addr <= addr)
        \/ \E m \in 1 .. Len(t) :
              /\ EntryOf(t, addr) = {t[m]} /\ t[m].addr <= addr
              /\ \A n \in 1 .. Len(t) : t[n].addr <= addr => t[n].addr <= t[m].addr
    BY <1>4, <1>5, EntryFound
  <1> QED BY <1>6, <1>7, <1>8 DEF addr

\* Without a PDB, DbgHelp answers nothing.
LEMMA NoPdbNoAnswer ==
    ASSUME img.pdb = <<>>, NEW addr \in Int, module \in Int
    PROVE  SymFromAddr(addr) = {}
  <1>1. Table(<<>>) /\ Sorted(<<>>) /\ addr - module \in Int
    BY DEF Table, Sorted
  <1>2. EntryOf(<<>>, addr - module) = {}
    BY <1>1, EntryFound
  <1> QED BY <1>2 DEF SymFromAddr

\* The loaded table names the caller.
LEMMA NameFound ==
    ASSUME Inv, Loaded, Fits, StartsDistinct, img.pdb = <<>>, NEW x \in Int
    PROVE  Name(module + x) = CallerOf(module + x)
  <1>1. /\ TypeInv /\ TableInv /\ Taken(i) = Functions /\ ImageOk(img) /\ module \in Int
        /\ state = 1 /\ Sorted(syms) /\ syms \in Seq(Entries)
    BY AllTaken DEF Inv, LoadInv, Loaded, TypeInv
  <1> DEFINE lab == [m \in 1 .. Len(syms) |-> syms[m].id]
  <1>2. Table(syms)
    <2>1. \A m \in 1 .. Len(syms) : syms[m] \in Entries
      BY <1>1
    <2> QED BY <1>1, <2>1 DEF Table, Entries
  <1>3. TableOf(syms, lab, module)
    <2>1. \A m \in 1 .. Len(syms) : \E p \in Functions : Stands(syms[m], p)
      BY <1>1 DEF TableInv, EntryOk
    <2>2. \A p \in Functions : \E m \in 1 .. Len(syms) : Stands(syms[m], p)
      BY <1>1 DEF TableInv
    <2> QED BY <1>1, <1>2, <2>1, <2>2 DEF TableOf, Stands
  <1>4. (module + x) - 1 = module + (x - 1) /\ module + x \in Int /\ (module + x) - 1 \in Int
    BY <1>1
  <1>5. Name(module + x) = {r.id : r \in EntryOf(syms, module + (x - 1))}
    <2>1. SymFromAddr(module + x) = {} /\ SymFromAddr((module + x) - 1) = {}
      BY <1>1, <1>4, NoPdbNoAnswer
    <2>2. Name(module + x) = bw_pe_find((module + x) - 1)
      BY <2>1 DEF Name
    <2> QED BY <1>1, <1>4, <2>2 DEF bw_pe_find
  <1>6. \A m \in 1 .. Len(syms) : lab[m] = syms[m].id
    OBVIOUS
  <1> HIDE DEF lab
  <1>7. \/ EntryOf(syms, module + (x - 1)) = {} /\ CallerOf(module + x) = {}
        \/ \E m \in 1 .. Len(syms) : /\ EntryOf(syms, module + (x - 1)) = {syms[m]}
                                      /\ CallerOf(module + x) = {lab[m]}
    BY <1>1, <1>3, CallerFound
  <1> QED BY <1>5, <1>6, <1>7

\* So do the rows, where there is one at the start of each function.
LEMMA LineFound ==
    ASSUME Inv, StartsDistinct, img.pdb = <<>>, RowsOfFunctions, NEW x \in Int
    PROVE  Line(module + x) = CallerOf(module + x)
  <1> DEFINE base == img.image_base
             lab == [m \in 1 .. Len(lines) |-> lines[m].file]
  <1>1. /\ ImageOk(img) /\ module \in Int /\ base \in Int /\ base # 0
        /\ Table(lines) /\ Sorted(lines)
    BY DEF Inv, LoadInv, TypeInv, ImageOk, RowsOfFunctions
  <1>2. TableOf(lines, lab, base)
    <2> DEFINE A == {<<lines[m].addr, lines[m].file>> : m \in 1 .. Len(lines)}
               B == {<<base + img.coff[p].value, img.coff[p].name.id>> : p \in Functions}
    <2>1. A = B
      BY DEF RowsOfFunctions
    <2>2. ASSUME NEW m \in 1 .. Len(lines)
          PROVE  \E p \in Functions : /\ lines[m].addr = base + img.coff[p].value
                                       /\ lab[m] = img.coff[p].name.id
      <3>1. <<lines[m].addr, lines[m].file>> \in B
        BY <2>1
      <3> QED BY <3>1
    <2>3. ASSUME NEW p \in Functions
          PROVE  \E m \in 1 .. Len(lines) : /\ lines[m].addr = base + img.coff[p].value
                                            /\ lab[m] = img.coff[p].name.id
      <3>1. <<base + img.coff[p].value, img.coff[p].name.id>> \in A
        BY <2>1
      <3> QED BY <3>1
    <2> QED BY <1>1, <2>2, <2>3 DEF TableOf
  <1>3. /\ module + x \in Int /\ (module + x) - 1 \in Int
        /\ Linked((module + x) - 1) = base + (x - 1)
    BY <1>1 DEF Linked
  <1>4. Line(module + x) = {r.file : r \in EntryOf(lines, base + (x - 1))}
    <2>1. SymGetLineFromAddr64(module + x) = {} /\ SymGetLineFromAddr64((module + x) - 1) = {}
      BY <1>1, <1>3, NoPdbNoAnswer DEF SymGetLineFromAddr64
    <2>2. Line(module + x) = bw_pe_line((module + x) - 1)
      BY <2>1 DEF Line
    <2> QED BY <1>3, <2>2 DEF bw_pe_line
  <1>5. \A m \in 1 .. Len(lines) : lab[m] = lines[m].file
    OBVIOUS
  <1> HIDE DEF lab
  <1>6. \/ EntryOf(lines, base + (x - 1)) = {} /\ CallerOf(module + x) = {}
        \/ \E m \in 1 .. Len(lines) : /\ EntryOf(lines, base + (x - 1)) = {lines[m]}
                                       /\ CallerOf(module + x) = {lab[m]}
    <2>1. PICK t, b : t = lines /\ b = base
      OBVIOUS
    <2>2. TableOf(t, lab, b) /\ b \in Int
      BY <1>1, <1>2, <2>1
    <2>3. \/ EntryOf(t, b + (x - 1)) = {} /\ CallerOf(module + x) = {}
          \/ \E m \in 1 .. Len(t) : EntryOf(t, b + (x - 1)) = {t[m]} /\ CallerOf(module + x) = {lab[m]}
      BY <1>1, <2>2, CallerFound
    <2> QED BY <2>1, <2>3
  <1> QED BY <1>4, <1>5, <1>6

\* A frame gets the name and the line of the function that made the call: for
\* every image that has one answer for it, linked and loaded anywhere.
THEOREM SiteFound ==
    (\A im \in Images : OneAnswerEach(im)) => (Spec => []SiteResolved)
  <1> SUFFICES ASSUME \A im \in Images : OneAnswerEach(im) PROVE Spec => []SiteResolved
    OBVIOUS
  <1>1. Init => OneAnswerEach(img)
    <2>1. OneAnswerEach(NoImage)
      BY DEF OneAnswerEach, NoImage
    <2> QED BY <2>1 DEF Init
  <1>2. OneAnswerEach(img) /\ [Next]_vars => OneAnswerEach(img)'
    <2> SUFFICES ASSUME OneAnswerEach(img), [Next]_vars PROVE OneAnswerEach(img')
      OBVIOUS
    <2>1. img' = img \/ img' \in Images
      BY DEF Next, vars, bw_pe_load, CreateFile, GetFileSize, CreateFileMapping, MapView, Open,
             Headers, SymbolSkip, SymbolTake, SymbolsEnd, Sections, Close
    <2> QED BY <2>1
  <1>3. ASSUME Inv, OneAnswerEach(img) PROVE SiteResolved
    <2>1. StartsDistinct /\ img.pdb = <<>>
      <3>1. Functions \subseteq 1 .. Len(img.coff) /\ \A p \in Functions : IsFunction(img, p)
        BY PrimaryLeast DEF Functions
      <3> QED BY <1>3, <3>1 DEF OneAnswerEach, StartsDistinct
    <2>2. \A p \in Probes : p \in Int
      BY ImagesAssumption
    <2>3. ASSUME Loaded, Fits, NEW p \in Probes PROVE Name(module + p) = CallerOf(module + p)
      BY <1>3, <2>1, <2>2, <2>3, NameFound
    <2>4. ASSUME RowsOfFunctions, NEW p \in Probes PROVE Line(module + p) = CallerOf(module + p)
      BY <1>3, <2>1, <2>2, <2>4, LineFound
    <2> QED BY <2>3, <2>4 DEF SiteResolved
  <1> QED BY <1>1, <1>2, <1>3, Invariance, PTL DEF Spec
==============================================================================
