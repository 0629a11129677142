---------------------------- MODULE ModulesProofs ----------------------------
(***************************************************************************)
(* Theorems about the module loader (module Loader), the module manager    *)
(* (module Modules) and the two composed (module KernelModules), for any   *)
(* modules, names and inits, any files and memory, any number of loads.    *)
(***************************************************************************)
EXTENDS KernelModules, SequenceTheorems, WellFoundedInduction, FiniteSetTheorems, TLAPS

(* What kmalloc keeps, as long as nobody writes beyond his region: regions *)
(* in the heap that do not overlap.                                        *)
RegionsAreApart ==
  /\ \A p \in DOMAIN live : p + live[p] <= MemoryEnd
  /\ \A p, q \in DOMAIN live : p # q => p + live[p] <= q \/ q + live[q] <= p

(* Segment i of file f is at p: the region there is its own, long enough   *)
(* for it, and holds what the header says.                                 *)
Holds(f, i, p) ==
  /\ p \in DOMAIN live /\ Extent(f.ph[i]) <= live[p]
  /\ \A b \in 0..(Extent(f.ph[i]) - 1) :
       memory[p + b] = IF b < f.ph[i].filesz THEN <<f, i, b>> ELSE ZERO

(* A load in progress has placed the segments before its i, and no others. *)
Before(n) == {i \in Segments(load.file) : i < n}
LoadTyped ==
  \/ load = NoLoad
  \/ /\ load = [stage |-> load.stage, file |-> load.file, i |-> load.i, at |-> load.at]
     /\ load.stage \in {"loading", "in_init"}
     /\ load.file \in begun /\ load.i \in 1..(Len(load.file.ph) + 1)
     /\ DOMAIN load.at = Before(load.i)

LoaderTyped ==
  /\ memory = [b \in 0..(MemoryEnd - 1) |-> memory[b]]
  /\ DOMAIN live \subseteq 0..MemoryEnd
  /\ \A p \in DOMAIN live : live[p] \in 0..(WORD - 1)
  /\ corrupt \in BOOLEAN /\ begun \subseteq Files /\ loads \in 0..MaxLoads
  /\ LoadTyped
  /\ \A l \in loaded : l.file \in begun /\ DOMAIN l.at = Segments(l.file)

(* What is true of the heap until a copy goes past its region.             *)
PlacedHold == load # NoLoad => \A i \in Before(load.i) : Holds(load.file, i, load.at[i])
LoadedHold == \A l \in loaded : \A i \in Segments(l.file) : Holds(l.file, i, l.at[i])
HeapIsWhole == RegionsAreApart /\ PlacedHold /\ LoadedHold

AllWellFormed == \A f \in begun : WellFormed(f)

LoaderIInv == /\ LoaderTyped
              /\ ~corrupt => HeapIsWhole
              /\ AllWellFormed => ~corrupt

(* What LoaderAssumption says of a header. *)
LEMMA HeaderTypes ==
  ASSUME NEW f \in Files
  PROVE  /\ Len(f.ph) \in Nat /\ DOMAIN f.ph = 1..Len(f.ph)
         /\ \A i \in DOMAIN f.ph : /\ f.ph[i].filesz \in Nat /\ f.ph[i].memsz \in Nat
                                   /\ Extent(f.ph[i]) \in Nat
                                   /\ f.ph[i].filesz <= Extent(f.ph[i])
                                   /\ f.ph[i].memsz <= Extent(f.ph[i])
                                   /\ \/ Extent(f.ph[i]) = f.ph[i].filesz
                                      \/ Extent(f.ph[i]) = f.ph[i].memsz
         /\ Segments(f) \subseteq 1..Len(f.ph)
PROOF
  <1>1. f.ph \in Seq([type : Nat, filesz : 0..(WORD - 1), memsz : 0..(WORD - 1)]) /\ WORD \in Nat
    BY LoaderAssumption
  <1>2. Len(f.ph) \in Nat /\ DOMAIN f.ph = 1..Len(f.ph)
    BY <1>1
  <1>3. \A i \in DOMAIN f.ph : f.ph[i] \in [type : Nat, filesz : 0..(WORD - 1), memsz : 0..(WORD - 1)]
    BY <1>1, <1>2, ElementOfSeq
  <1>4. \A i \in DOMAIN f.ph : f.ph[i].filesz \in Nat /\ f.ph[i].memsz \in Nat
    BY <1>1, <1>3
  <1>5. \A i \in DOMAIN f.ph : /\ Extent(f.ph[i]) \in Nat
                               /\ f.ph[i].filesz <= Extent(f.ph[i])
                               /\ f.ph[i].memsz <= Extent(f.ph[i])
                               /\ \/ Extent(f.ph[i]) = f.ph[i].filesz
                                  \/ Extent(f.ph[i]) = f.ph[i].memsz
    BY <1>4 DEF Extent
  <1> QED BY <1>2, <1>4, <1>5 DEF Segments

(* Remainders near zero, and so what a region's length can be.             *)
LEMMA Remainder ==
  ASSUME NEW x \in Int, NEW w \in Nat \ {0}
  PROVE  /\ x % w \in 0..(w - 1)
         /\ 0 <= x /\ x < w => x % w = x
         /\ -w <= x /\ x < 0 => x % w = x + w
PROOF
  OBVIOUS

LEMMA GrantedIsWord ==
  ASSUME NEW n \in Nat
  PROVE  Granted(n) \in 0..(WORD - 1)
PROOF
  <1>1. WORD \in Nat \ {0} /\ ALIGNMENT \in Nat \ {0}
    BY LoaderAssumption
  <1>2. PICK v \in 0..(WORD - 1) : v = (n + ALIGNMENT - 1) % WORD
    BY <1>1, Remainder
  <1>3. PICK r \in Nat : r = v % ALIGNMENT /\ r <= v
    <2>1. v % ALIGNMENT \in 0..(ALIGNMENT - 1)
      BY <1>1, Remainder
    <2>2. v < ALIGNMENT => v % ALIGNMENT = v
      BY <1>1, Remainder
    <2> QED BY <1>1, <2>1, <2>2
  <1>4. Granted(n) = v - r
    BY <1>2, <1>3 DEF Granted
  <1> QED BY <1>1, <1>3, <1>4

LEMMA InitHolds == LoaderInit => LoaderIInv
PROOF
  <1> SUFFICES ASSUME LoaderInit PROVE LoaderIInv
    OBVIOUS
  <1>1. LoaderTyped
    <2>1. memory = [b \in 0..(MemoryEnd - 1) |-> memory[b]]
      BY DEF LoaderInit
    <2>2. DOMAIN live = {} /\ corrupt = FALSE /\ begun = {} /\ loads = 0 /\ loaded = {}
      BY DEF LoaderInit
    <2>3. 0 \in 0..MaxLoads
      BY LoaderAssumption
    <2>4. LoadTyped
      BY DEF LoaderInit, LoadTyped
    <2> QED BY <2>1, <2>2, <2>3, <2>4 DEF LoaderTyped
  <1>2. HeapIsWhole
    BY DEF LoaderInit, HeapIsWhole, RegionsAreApart, PlacedHold, LoadedHold
  <1> QED BY <1>1, <1>2 DEF LoaderInit, LoaderIInv

(* A step that leaves the heap alone leaves every segment where it is.     *)
LEMMA HeapUntouched ==
  ASSUME UNCHANGED <<live, memory>>
  PROVE  /\ RegionsAreApart => RegionsAreApart'
         /\ \A f, i, p : Holds(f, i, p) => Holds(f, i, p)'
PROOF
  BY DEF RegionsAreApart, Holds

(* The header a load stands on. *)
LEMMA SegmentsBeforeNext ==
  ASSUME LoaderTyped, InLoop
  PROVE  /\ load = [stage |-> "loading", file |-> load.file, i |-> load.i, at |-> load.at]
         /\ load # NoLoad
         /\ load.file \in begun /\ load.file \in Files /\ load.i \in DOMAIN load.file.ph
         /\ load.i + 1 \in 1..(Len(load.file.ph) + 1)
         /\ DOMAIN load.at = Before(load.i)
         /\ Before(load.i + 1) = IF Header.type = PT_LOAD THEN Before(load.i) \cup {load.i}
                                                         ELSE Before(load.i)
         /\ Header.type = PT_LOAD => load.i \in Segments(load.file)
PROOF
  <1>1. /\ load = [stage |-> "loading", file |-> load.file, i |-> load.i, at |-> load.at]
        /\ load # NoLoad
        /\ load.file \in begun /\ load.file \in Files /\ load.i \in 1..(Len(load.file.ph) + 1)
        /\ DOMAIN load.at = Before(load.i)
    BY DEF LoaderTyped, LoadTyped, InLoop, NoLoad
  <1>2. load.i \in DOMAIN load.file.ph /\ load.i + 1 \in 1..(Len(load.file.ph) + 1)
    BY <1>1, HeaderTypes DEF InLoop
  <1>3. Segments(load.file) \subseteq Nat /\ load.i \in Nat
    BY <1>1, HeaderTypes
  <1>4. load.i \in Segments(load.file) <=> Header.type = PT_LOAD
    BY <1>2 DEF Segments, Header
  <1> HIDE DEF Segments
  <1>5. Before(load.i + 1) = IF Header.type = PT_LOAD THEN Before(load.i) \cup {load.i}
                                                      ELSE Before(load.i)
    BY <1>3, <1>4 DEF Before
  <1> QED BY <1>1, <1>2, <1>4, <1>5

(* A segment no longer than its region keeps the regions apart, is held    *)
(* itself, and touches no segment that was held before.                    *)
LEMMA WrittenIsApart ==
  ASSUME LoaderTyped, RegionsAreApart, ~corrupt, InLoop, NEW p \in 0..MemoryEnd,
         kmalloc(p, LengthOf(Header)), memory' = Written(p),
         Extent(Header) <= Granted(LengthOf(Header))
  PROVE  /\ RegionsAreApart'
         /\ \A f, i : f = load.file /\ i = load.i => Holds(f, i, p)'
         /\ \A f \in Files : \A i \in Segments(f) : \A q :
              Holds(f, i, q) => Holds(f, i, q)'
PROOF
  <1>0. /\ load.file \in Files /\ load.i \in DOMAIN load.file.ph
        /\ WORD \in Nat \ {0} /\ MemoryEnd \in Nat /\ MemoryEnd <= WORD
        /\ DOMAIN memory = 0..(MemoryEnd - 1)
    BY SegmentsBeforeNext, LoaderAssumption DEF LoaderTyped
  <1>1. PICK n \in Nat, m \in Nat, e \in Nat, g \in 0..(WORD - 1) :
          /\ n = Header.memsz /\ m = Header.filesz /\ e = Extent(Header)
          /\ g = Granted(LengthOf(Header))
          /\ e <= g /\ m <= e /\ n <= e /\ (e = m \/ e = n)
    BY <1>0, HeaderTypes, GrantedIsWord DEF Header, LengthOf
  <1>2. /\ p + g <= MemoryEnd /\ p \notin DOMAIN live
        /\ \A q \in DOMAIN live : p + g <= q \/ q + live[q] <= p
        /\ DOMAIN live' = DOMAIN live \cup {p}
        /\ live'[p] = g /\ \A q \in DOMAIN live : live'[q] = live[q]
    BY <1>1 DEF kmalloc, Unclaimed
  <1>a. /\ DOMAIN live \subseteq 0..MemoryEnd
        /\ \A q \in DOMAIN live : live[q] \in Nat /\ q + live[q] <= MemoryEnd
        /\ \A q, r \in DOMAIN live : q # r => q + live[q] <= r \/ r + live[r] <= q
    BY <1>0 DEF LoaderTyped, RegionsAreApart
  <1>3. RegionsAreApart'
    <2>1. \A q \in DOMAIN live' : q + live'[q] <= MemoryEnd
      BY <1>2, <1>a
    <2>2. \A q, r \in DOMAIN live' : q # r => q + live'[q] <= r \/ r + live'[r] <= q
      BY <1>2, <1>a
    <2> QED BY <2>1, <2>2 DEF RegionsAreApart
  <1>4. ASSUME NEW b \in 0..(MemoryEnd - 1)
        PROVE  /\ b \in p..(p + e - 1) =>
                    memory'[b] = IF b - p < m THEN <<load.file, load.i, b - p>> ELSE ZERO
               /\ b \notin p..(p + e - 1) => memory'[b] = memory[b]
    <2>1. PICK k \in Nat : k = (b - p) % WORD
      <3>1. PICK d \in Int : d = b - p
        BY <1>0
      <3>2. d % WORD \in 0..(WORD - 1)
        BY <1>0, <3>1, Remainder
      <3>3. d % WORD \in Nat
        BY <1>0, <3>2
      <3> QED BY <3>1, <3>3
    <2>2. memory'[b] = IF k < m THEN <<load.file, load.i, k>>
                       ELSE IF k < n THEN ZERO ELSE memory[b]
      BY <1>0, <1>1, <2>1 DEF Written
    <2>3. CASE b >= p
      <3>1. k = b - p
        <4>1. 0 <= b - p /\ b - p < WORD /\ b - p \in Int
          BY <1>0, <2>3
        <4> QED BY <1>0, <2>1, <4>1, Remainder
      <3>2. CASE b \in p..(p + e - 1)
        <4>1. k < e
          BY <1>1, <3>1, <3>2
        <4>2. k < m \/ k < n
          BY <1>1, <4>1
        <4> QED BY <2>2, <3>1, <3>2, <4>2
      <3>3. CASE b \notin p..(p + e - 1)
        <4>1. ~(k < m) /\ ~(k < n)
          BY <1>1, <2>3, <3>1, <3>3
        <4> QED BY <2>2, <3>3, <4>1
      <3> QED BY <3>2, <3>3
    <2>4. CASE b < p
      <3>1. k = b - p + WORD
        <4>1. -WORD <= b - p /\ b - p < 0 /\ b - p \in Int
          BY <1>0, <2>4
        <4> QED BY <1>0, <2>1, <4>1, Remainder
      <3>2. ~(k < m) /\ ~(k < n)
        BY <1>0, <1>1, <1>2, <3>1
      <3> QED BY <1>1, <2>2, <2>4, <3>2
    <2> QED BY <2>3, <2>4
  <1>5. ASSUME NEW f, NEW i, f = load.file, i = load.i PROVE Holds(f, i, p)'
    <2>1. f.ph[i] = Header
      BY <1>5 DEF Header
    <2>2. ASSUME NEW b \in 0..(e - 1)
          PROVE  memory'[p + b] = IF b < m THEN <<f, i, b>> ELSE ZERO
      <3>1. PICK c \in 0..(MemoryEnd - 1) : c = p + b
        BY <1>0, <1>1, <1>2
      <3>2. c \in p..(p + e - 1) /\ c - p = b
        BY <1>0, <1>1, <3>1
      <3> QED BY <1>4, <1>5, <3>1, <3>2
    <2> QED BY <1>1, <1>2, <2>1, <2>2 DEF Holds
  <1>6. ASSUME NEW f \in Files, NEW i \in Segments(f), NEW q, Holds(f, i, q)
        PROVE  Holds(f, i, q)'
    <2>1. PICK x \in Nat : x = Extent(f.ph[i])
      BY HeaderTypes DEF Segments
    <2>2. q \in DOMAIN live /\ x <= live[q] /\ q \in DOMAIN live' /\ live'[q] = live[q]
      BY <1>2, <1>6, <2>1 DEF Holds
    <2>3. ASSUME NEW b \in 0..(x - 1)
          PROVE  memory'[q + b] = memory[q + b]
      <3>1. /\ q \in Nat /\ live[q] \in Nat /\ q + live[q] <= MemoryEnd
            /\ b \in Nat /\ b < live[q]
        BY <1>a, <2>1, <2>2
      <3>2. PICK c \in 0..(MemoryEnd - 1) : c = q + b
        BY <1>0, <3>1
      <3>3. p + g <= q \/ q + live[q] <= p
        BY <1>2, <2>2
      <3>4. PICK s \in Nat, v \in Nat : s = q /\ v = live[q]
        BY <3>1
      <3>5. c = s + b /\ b \in Nat /\ b < v /\ (p + g <= s \/ s + v <= p) /\ e <= g
        BY <1>1, <3>1, <3>2, <3>3, <3>4
      <3>6. p \in Nat /\ e \in Nat /\ g \in Nat /\ c \in Nat
        BY <1>0, <1>1, <3>2
      <3>7. c \notin p..(p + e - 1)
        BY <3>5, <3>6
      <3> QED BY <1>4, <3>2, <3>7
    <2> QED BY <1>6, <2>1, <2>2, <2>3 DEF Holds
  <1> QED BY <1>3, <1>5, <1>6

(* A load begins, or a file is refused, or not found.                      *)
LEMMA LoadModuleKeeps ==
  ASSUME LoaderIInv, NEW f \in Files, load_module(f)
  PROVE  LoaderIInv'
PROOF
  <1>1. /\ load = NoLoad /\ UNCHANGED <<live, memory, corrupt, loaded>>
        /\ begun \subseteq begun' /\ begun' \subseteq Files
        /\ \/ load' = NoLoad
           \/ load' = [stage |-> "loading", file |-> f, i |-> 1, at |-> <<>>] /\ f \in begun'
    BY DEF load_module, LoaderIInv, LoaderTyped
  <1>2. loads' \in 0..MaxLoads
    BY LoaderAssumption DEF LoaderIInv, LoaderTyped, load_module
  <1>3. LoadTyped' /\ PlacedHold'
    <2>1. CASE load' = NoLoad
      BY <2>1 DEF LoadTyped, PlacedHold
    <2>2. CASE load' = [stage |-> "loading", file |-> f, i |-> 1, at |-> <<>>] /\ f \in begun'
      <3>1. /\ load'.stage = "loading" /\ load'.file = f /\ load'.i = 1 /\ DOMAIN load'.at = {}
            /\ load' = [stage |-> load'.stage, file |-> load'.file, i |-> load'.i, at |-> load'.at]
        BY <2>2
      <3>2. Before(load.i)' = {} /\ 1 \in 1..(Len(f.ph) + 1)
        BY <3>1, HeaderTypes DEF Before
      <3> QED BY <2>2, <3>1, <3>2 DEF LoadTyped, PlacedHold
    <2> QED BY <1>1, <2>1, <2>2
  <1>4. LoaderTyped'
    BY <1>1, <1>2, <1>3 DEF LoaderIInv, LoaderTyped
  <1>5. HeapIsWhole => HeapIsWhole'
    BY <1>1, <1>3, HeapUntouched DEF HeapIsWhole, LoadedHold
  <1>6. AllWellFormed' => AllWellFormed
    BY <1>1 DEF AllWellFormed
  <1> QED BY <1>1, <1>4, <1>5, <1>6 DEF LoaderIInv

LEMMA LoadFromCpioKeeps ==
  ASSUME LoaderIInv, load_module_from_cpio
  PROVE  LoaderIInv'
PROOF
  <1>1. UNCHANGED <<live, memory, corrupt, load, begun, loaded>> /\ loads' \in 0..MaxLoads
    BY LoaderAssumption DEF LoaderIInv, LoaderTyped, load_module_from_cpio
  <1>2. LoaderTyped'
    BY <1>1 DEF LoaderIInv, LoaderTyped, LoadTyped, Before
  <1>3. HeapIsWhole => HeapIsWhole'
    BY <1>1, HeapUntouched DEF HeapIsWhole, PlacedHold, LoadedHold, Before
  <1> QED BY <1>1, <1>2, <1>3 DEF LoaderIInv, AllWellFormed

(* The loop of load_elf_module: a header that is loaded, one that gets no  *)
(* memory, and one that is not loaded.                                     *)
LEMMA LoadSegmentKeeps ==
  ASSUME LoaderIInv, load_segment
  PROVE  LoaderIInv'
PROOF
  <1>1. PICK p \in 0..MemoryEnd :
          /\ kmalloc(p, LengthOf(Header))
          /\ memory' = Written(p)
          /\ load' = [load EXCEPT !.i = @ + 1,
                                  !.at = [i \in DOMAIN @ \cup {load.i} |->
                                            IF i = load.i THEN p ELSE @[i]]]
    BY DEF load_segment
  <1>2. /\ InLoop /\ Header.type = PT_LOAD /\ UNCHANGED <<loads, begun, loaded>>
        /\ LoaderTyped
        /\ corrupt' = (corrupt \/ Extent(Header) > Granted(LengthOf(Header)))
    BY DEF load_segment, LoaderIInv
  <1>3. /\ load.file \in begun /\ load.file \in Files /\ load.i \in DOMAIN load.file.ph
        /\ load.i + 1 \in 1..(Len(load.file.ph) + 1) /\ load # NoLoad
        /\ load = [stage |-> "loading", file |-> load.file, i |-> load.i, at |-> load.at]
        /\ DOMAIN load.at = Before(load.i)
        /\ Before(load.i + 1) = Before(load.i) \cup {load.i} /\ load.i \in Segments(load.file)
    BY <1>2, SegmentsBeforeNext
  <1>4. /\ load'.stage = "loading" /\ load'.file = load.file /\ load'.i = load.i + 1
        /\ DOMAIN load'.at = DOMAIN load.at \cup {load.i}
        /\ load'.at[load.i] = p /\ \A i \in DOMAIN load.at : i # load.i => load'.at[i] = load.at[i]
        /\ load' = [stage |-> load'.stage, file |-> load'.file, i |-> load'.i, at |-> load'.at]
    <2> DEFINE newAt == [i \in DOMAIN load.at \cup {load.i} |->
                           IF i = load.i THEN p ELSE load.at[i]]
    <2>1. load' = [load EXCEPT !.i = load.i + 1, !.at = newAt]
      BY <1>1
    <2>2. /\ DOMAIN newAt = DOMAIN load.at \cup {load.i}
          /\ newAt[load.i] = p /\ \A i \in DOMAIN load.at : i # load.i => newAt[i] = load.at[i]
      OBVIOUS
    <2> HIDE DEF newAt
    <2>3. load' = [stage |-> "loading", file |-> load.file, i |-> load.i + 1, at |-> newAt]
      <3>1. load = [stage |-> "loading", file |-> load.file, i |-> load.i, at |-> load.at]
        BY <1>3
      <3>2. PICK f, n, a, m : f = load.file /\ n = load.i /\ a = load.at /\ m = load.i + 1
        OBVIOUS
      <3>3. load = [stage |-> "loading", file |-> f, i |-> n, at |-> a]
        BY <3>1, <3>2
      <3>4. load' = [load EXCEPT !.i = m, !.at = newAt]
        BY <2>1, <3>2
      <3>5. load' = [stage |-> "loading", file |-> f, i |-> m, at |-> newAt]
        BY <3>3, <3>4
      <3> QED BY <3>2, <3>5
    <2> QED BY <2>2, <2>3
  <1>5. Before(load.i)' = Before(load.i) \cup {load.i}
    BY <1>3, <1>4 DEF Before
  <1>g. /\ Granted(LengthOf(Header)) \in 0..(WORD - 1)
        /\ Granted(LengthOf(Header)) \in Nat /\ Extent(Header) \in Nat
    <2>1. LengthOf(Header) \in Nat
      BY <1>3, HeaderTypes DEF Header, LengthOf
    <2>2. PICK g \in 0..(WORD - 1) : g = Granted(LengthOf(Header))
      BY <2>1, GrantedIsWord
    <2>3. g \in Nat
      BY LoaderAssumption
    <2>4. Extent(Header) \in Nat
      BY <1>3, HeaderTypes DEF Header
    <2> QED BY <2>2, <2>3, <2>4
  <1>6. LoaderTyped'
    <2>1. memory' = [b \in 0..(MemoryEnd - 1) |-> memory'[b]]
      BY <1>1, <1>2 DEF Written, LoaderTyped
    <2>2. Granted(LengthOf(Header)) \in 0..(WORD - 1)
      BY <1>g
    <2>3. DOMAIN live' \subseteq 0..MemoryEnd /\ \A q \in DOMAIN live' : live'[q] \in 0..(WORD - 1)
      BY <1>1, <1>2, <2>2 DEF kmalloc, LoaderTyped
    <2>4. corrupt' \in BOOLEAN
      BY <1>2 DEF LoaderTyped
    <2>5. LoadTyped'
      BY <1>2, <1>3, <1>4, <1>5 DEF LoadTyped
    <2> QED BY <1>2, <2>1, <2>3, <2>4, <2>5 DEF LoaderTyped
  <1>7. ASSUME ~corrupt' PROVE HeapIsWhole'
    <2>1. ~corrupt /\ HeapIsWhole /\ Extent(Header) <= Granted(LengthOf(Header))
      <3>1. ~corrupt /\ ~(Extent(Header) > Granted(LengthOf(Header)))
        BY <1>2, <1>7
      <3>2. Extent(Header) <= Granted(LengthOf(Header))
        BY <1>g, <3>1
      <3> QED BY <3>1, <3>2 DEF LoaderIInv
    <2>2. /\ RegionsAreApart'
          /\ \A f, i : f = load.file /\ i = load.i => Holds(f, i, p)'
          /\ \A f \in Files : \A i \in Segments(f) : \A q : Holds(f, i, q) => Holds(f, i, q)'
      BY <1>1, <1>2, <2>1, WrittenIsApart DEF HeapIsWhole
    <2>3. ASSUME NEW i \in Before(load.i)'
          PROVE  Holds(load.file, i, load.at[i])'
      <3>1. CASE i = load.i
        BY <1>4, <2>2, <3>1
      <3>2. CASE i # load.i
        <4>1. i \in Before(load.i) /\ i \in Segments(load.file) /\ load'.at[i] = load.at[i]
          BY <1>3, <1>4, <1>5, <3>2 DEF Before
        <4>2. Holds(load.file, i, load.at[i])
          BY <1>3, <2>1, <4>1 DEF HeapIsWhole, PlacedHold
        <4>3. \A f, q : f = load.file /\ q = load.at[i] => Holds(f, i, q)'
          BY <1>3, <2>2, <4>1, <4>2
        <4> QED BY <1>4, <4>1, <4>3
      <3> QED BY <3>1, <3>2
    <2>4. LoadedHold'
      <3>1. \A l \in loaded : /\ l.file \in Files
                              /\ \A i \in Segments(l.file) : Holds(l.file, i, l.at[i])
        BY <1>2, <2>1 DEF HeapIsWhole, LoadedHold, LoaderTyped
      <3>2. \A l \in loaded : \A i \in Segments(l.file) : Holds(l.file, i, l.at[i])'
        BY <2>2, <3>1
      <3> QED BY <1>2, <3>2 DEF LoadedHold
    <2> QED BY <2>2, <2>3, <2>4 DEF HeapIsWhole, PlacedHold
  <1>8. ASSUME AllWellFormed' PROVE ~corrupt'
    <2>1. AllWellFormed /\ ~corrupt
      BY <1>2, <1>8 DEF AllWellFormed, LoaderIInv
    <2>2. Extent(Header) <= Granted(LengthOf(Header))
      BY <1>3, <2>1 DEF AllWellFormed, WellFormed, Header, LengthOf
    <2>3. ~(Extent(Header) > Granted(LengthOf(Header)))
      BY <1>g, <2>2
    <2> QED BY <1>2, <2>1, <2>3
  <1> QED BY <1>6, <1>7, <1>8 DEF LoaderIInv

(* The load is over, with or without a module.                             *)
LEMMA LoadIsOverKeeps ==
  ASSUME LoaderIInv, segment_fails \/ no_entry \/ entry_returns
  PROVE  LoaderIInv'
PROOF
  <1>1. load' = NoLoad /\ UNCHANGED <<live, memory, corrupt, loads, begun, loaded>>
    BY DEF segment_fails, no_entry, entry_returns
  <1>2. LoaderTyped'
    BY <1>1 DEF LoaderIInv, LoaderTyped, LoadTyped
  <1>3. HeapIsWhole => HeapIsWhole'
    BY <1>1, HeapUntouched DEF HeapIsWhole, PlacedHold, LoadedHold
  <1> QED BY <1>1, <1>2, <1>3 DEF LoaderIInv, AllWellFormed

LEMMA SkipSegmentKeeps ==
  ASSUME LoaderIInv, skip_segment
  PROVE  LoaderIInv'
PROOF
  <1>1. /\ load' = [load EXCEPT !.i = @ + 1]
        /\ UNCHANGED <<live, memory, corrupt, loads, begun, loaded>>
        /\ InLoop /\ Header.type # PT_LOAD /\ LoaderTyped
    BY DEF skip_segment, LoaderIInv
  <1>2. /\ load.file \in begun /\ load.i + 1 \in 1..(Len(load.file.ph) + 1) /\ load # NoLoad
        /\ load = [stage |-> "loading", file |-> load.file, i |-> load.i, at |-> load.at]
        /\ DOMAIN load.at = Before(load.i)
        /\ Before(load.i + 1) = Before(load.i)
    BY <1>1, SegmentsBeforeNext
  <1>3. /\ load'.stage = "loading" /\ load'.file = load.file /\ load'.i = load.i + 1
        /\ load'.at = load.at
        /\ load' = [stage |-> load'.stage, file |-> load'.file, i |-> load'.i, at |-> load'.at]
    BY <1>1, <1>2
  <1>4. Before(load.i)' = Before(load.i)
    BY <1>2, <1>3 DEF Before
  <1>5. LoaderTyped'
    BY <1>1, <1>2, <1>3, <1>4 DEF LoaderTyped, LoadTyped
  <1>6. HeapIsWhole => HeapIsWhole'
    BY <1>1, <1>2, <1>3, <1>4, HeapUntouched DEF HeapIsWhole, PlacedHold, LoadedHold
  <1> QED BY <1>1, <1>5, <1>6 DEF LoaderIInv, AllWellFormed

(* The entry is called when the loop has gone past the last header.        *)
LEMMA CallEntryKeeps ==
  ASSUME LoaderIInv, call_entry
  PROVE  LoaderIInv'
PROOF
  <1>1. /\ load.stage = "loading" /\ ~InLoop
        /\ load' = [load EXCEPT !.stage = "in_init"]
        /\ loaded' = loaded \cup {[file |-> load.file, at |-> load.at]}
        /\ UNCHANGED <<live, memory, corrupt, loads, begun>>
    BY DEF call_entry, LoopDone
  <1>2. /\ load = [stage |-> load.stage, file |-> load.file, i |-> load.i, at |-> load.at]
        /\ load # NoLoad /\ load.file \in begun /\ load.file \in Files
        /\ load.i \in 1..(Len(load.file.ph) + 1) /\ DOMAIN load.at = Before(load.i)
    BY <1>1 DEF LoaderIInv, LoaderTyped, LoadTyped, NoLoad
  <1>3. /\ load'.stage = "in_init" /\ load'.file = load.file /\ load'.i = load.i
        /\ load'.at = load.at
        /\ load' = [stage |-> load'.stage, file |-> load'.file, i |-> load'.i, at |-> load'.at]
    BY <1>1, <1>2
  <1>4. Before(load.i)' = Before(load.i)
    BY <1>3 DEF Before
  <1>5. Before(load.i) = Segments(load.file)
    <2>1. load.i = Len(load.file.ph) + 1
      BY <1>1, <1>2, HeaderTypes DEF InLoop
    <2>2. Segments(load.file) \subseteq 1..Len(load.file.ph) /\ Len(load.file.ph) \in Nat
      BY <1>2, HeaderTypes
    <2> QED BY <2>1, <2>2 DEF Before
  <1>6. LoaderTyped'
    <2>1. LoadTyped'
      BY <1>1, <1>2, <1>3, <1>4 DEF LoadTyped
    <2>2. \A l \in loaded' : l.file \in begun' /\ DOMAIN l.at = Segments(l.file)
      BY <1>1, <1>2, <1>5 DEF LoaderIInv, LoaderTyped
    <2> QED BY <1>1, <2>1, <2>2 DEF LoaderIInv, LoaderTyped
  <1>7. ASSUME HeapIsWhole PROVE HeapIsWhole'
    <2>1. /\ RegionsAreApart'
          /\ \A f, i, p : Holds(f, i, p) => Holds(f, i, p)'
      <3>1. RegionsAreApart /\ UNCHANGED <<live, memory>>
        BY <1>1, <1>7 DEF HeapIsWhole
      <3> QED BY <3>1, HeapUntouched
    <2>2. \A i \in Before(load.i) : Holds(load.file, i, load.at[i])'
      <3>1. \A i \in Before(load.i) : Holds(load.file, i, load.at[i])
        BY <1>2, <1>7 DEF HeapIsWhole, PlacedHold
      <3>2. ASSUME NEW i \in Before(load.i), NEW f, NEW p, f = load.file, p = load.at[i]
            PROVE  Holds(f, i, p)'
        BY <2>1, <3>1, <3>2
      <3>3. \A i \in Before(load.i) : \A f, p : f = load.file /\ p = load.at[i] => Holds(f, i, p)'
        BY <3>2
      <3> QED BY <1>3, <3>3
    <2>3. PlacedHold'
      BY <1>3, <1>4, <2>2 DEF PlacedHold, Holds
    <2>4. ASSUME NEW l \in loaded', NEW i \in Segments(l.file)
          PROVE  Holds(l.file, i, l.at[i])'
      <3>1. CASE l \in loaded
        <4>1. PICK f, p : f = l.file /\ p = l.at[i]
          OBVIOUS
        <4>2. Holds(f, i, p)
          BY <1>7, <2>4, <3>1, <4>1 DEF HeapIsWhole, LoadedHold
        <4>3. Holds(f, i, p)'
          BY <2>1, <4>2
        <4> QED BY <4>1, <4>3
      <3>2. CASE l = [file |-> load.file, at |-> load.at]
        <4>1. PICK f, p : f = l.file /\ p = l.at[i]
          OBVIOUS
        <4>2. i \in Before(load.i) /\ f = load.file /\ p = load.at[i]
          BY <1>5, <2>4, <3>2, <4>1
        <4>3. Holds(f, i, p)
          BY <1>2, <1>7, <4>2 DEF HeapIsWhole, PlacedHold
        <4>4. Holds(f, i, p)'
          BY <2>1, <4>3
        <4> QED BY <4>1, <4>4
      <3> QED BY <1>1, <3>1, <3>2
    <2> QED BY <2>1, <2>3, <2>4 DEF HeapIsWhole, LoadedHold
  <1> QED BY <1>1, <1>6, <1>7 DEF LoaderIInv, AllWellFormed

LEMMA LoaderStepKeeps ==
  ASSUME LoaderIInv, LoaderNext
  PROVE  LoaderIInv'
PROOF
  BY LoadModuleKeeps, LoadFromCpioKeeps, LoadSegmentKeeps, LoadIsOverKeeps, SkipSegmentKeeps,
     CallEntryKeeps DEF LoaderNext, loader_step

LEMMA LoaderStutterKeeps ==
  ASSUME LoaderIInv, UNCHANGED loaderVars
  PROVE  LoaderIInv'
PROOF
  <1>1. UNCHANGED <<live, memory, corrupt, load, loads, begun, loaded>>
    BY DEF loaderVars
  <1>2. LoaderTyped'
    BY <1>1 DEF LoaderIInv, LoaderTyped, LoadTyped, Before
  <1>3. HeapIsWhole => HeapIsWhole'
    BY <1>1, HeapUntouched DEF HeapIsWhole, PlacedHold, LoadedHold, Before
  <1> QED BY <1>1, <1>2, <1>3 DEF LoaderIInv, AllWellFormed

LEMMA LoaderIInvMeans == LoaderIInv => LoaderTypeOK /\ LoadedIsIntact
PROOF
  <1> SUFFICES ASSUME LoaderIInv PROVE LoaderTypeOK /\ LoadedIsIntact
    OBVIOUS
  <1>1. DOMAIN memory = 0..(MemoryEnd - 1) /\ DOMAIN live \subseteq 0..MemoryEnd
    BY DEF LoaderIInv, LoaderTyped
  <1>2. load.stage \in {"out", "loading", "in_init"}
    BY DEF LoaderIInv, LoaderTyped, LoadTyped, NoLoad
  <1>3. LoaderTypeOK
    BY <1>1, <1>2 DEF LoaderTypeOK, LoaderIInv, LoaderTyped
  <1>4. ASSUME AllWellFormed, NEW l \in loaded, NEW i \in Segments(l.file)
        PROVE  /\ l.at[i] \in DOMAIN live
               /\ \A b \in 0..(Extent(l.file.ph[i]) - 1) :
                    /\ l.at[i] + b \in DOMAIN memory
                    /\ memory[l.at[i] + b] =
                         IF b < l.file.ph[i].filesz THEN <<l.file, i, b>> ELSE ZERO
    <2>1. Holds(l.file, i, l.at[i]) /\ RegionsAreApart /\ l.file \in Files
      BY <1>4 DEF LoaderIInv, HeapIsWhole, LoadedHold, LoaderTyped
    <2>2. PICK x \in Nat : x = Extent(l.file.ph[i])
      BY <2>1, HeaderTypes DEF Segments
    <2>3. PICK p \in 0..MemoryEnd : p = l.at[i] /\ p \in DOMAIN live
      BY <1>1, <2>1 DEF Holds
    <2>4. x <= live[p] /\ live[p] \in Nat /\ p + live[p] <= MemoryEnd /\ MemoryEnd \in Nat
      BY <2>1, <2>2, <2>3, LoaderAssumption DEF Holds, RegionsAreApart, LoaderIInv, LoaderTyped
    <2>5. ASSUME NEW b \in 0..(x - 1) PROVE p + b \in DOMAIN memory
      BY <1>1, <2>2, <2>4
    <2> QED BY <2>1, <2>2, <2>3, <2>5 DEF Holds
  <1>5. LoadedIsIntact
    BY <1>4 DEF LoadedIsIntact, AllWellFormed
  <1> QED BY <1>3, <1>5

-----------------------------------------------------------------------------
(* A module is on the list once; while an init runs it is the last one     *)
(* called and has not been counted.                                        *)
RegisteredOnce == \A i, k \in 1..Len(order) : order[i] = order[k] => i = k
Counted ==
  /\ stage = "before" => log = <<>>
  /\ stage = "in_init" => pos \in WithInit /\ init_count < Len(log)

IInv == TypeOK /\ Linked /\ RegisteredOnce /\ Counted /\ WalkIsInOrder

(* What TypeOK says of the registration order and the log, element by element. *)
LEMMA OrderTypes ==
  ASSUME TypeOK
  PROVE  /\ Len(order) \in Nat /\ Len(log) \in Nat
         /\ \A i \in 1..Len(order) : order[i] \in Mods /\ order[i] \in Cells /\ order[i] # HEAD
         /\ \A j \in 1..Len(log) : log[j] \in WithInit
         /\ \A i \in Int : At(i) \in Cells
PROOF
  <1>1. order \in Seq(Mods) /\ log \in Seq(WithInit)
    BY DEF TypeOK
  <1>2. Len(order) \in Nat /\ Len(log) \in Nat
    BY <1>1
  <1>3. \A i \in 1..Len(order) : order[i] \in Mods
    BY <1>1, ElementOfSeq
  <1>4. \A j \in 1..Len(log) : log[j] \in WithInit
    BY <1>1, ElementOfSeq
  <1> QED BY <1>2, <1>3, <1>4, ModulesAssumption DEF Cells, At

LEMMA InitIsInv == Init => IInv
PROOF
  <1> SUFFICES ASSUME Init PROVE IInv
    OBVIOUS
  <1>1. Len(order) = 0 /\ Len(log) = 0
    BY DEF Init
  <1>2. TypeOK
    BY <1>1 DEF Init, TypeOK, Cells
  <1>3. Linked
    BY <1>1 DEF Init, Linked, At, Cells
  <1>4. RegisteredOnce /\ Counted /\ WalkIsInOrder
    BY <1>1 DEF Init, RegisteredOnce, Counted, WalkIsInOrder
  <1> QED BY <1>2, <1>3, <1>4 DEF IInv

(* list_add_tail, at the tail of a list that closes, closes it again, with *)
(* the module at its end.                                                  *)
LEMMA RegisterKeeps ==
  ASSUME IInv, NEW mod \in Mods, register_kernel_module(mod)
  PROVE  IInv'
PROOF
  <1>0. PICK n : n = Len(order)
    OBVIOUS
  <1>1. /\ stage # "walking" /\ mod \notin Registered
        /\ order' = Append(order, mod)
        /\ UNCHANGED <<stage, pos, init_count, found, log>>
    BY DEF register_kernel_module
  <1>2. /\ n \in Nat /\ \A i \in 1..n : order[i] \in Mods /\ order[i] # HEAD /\ order[i] # mod
        /\ mod # HEAD /\ mod \in Cells /\ HEAD \in Cells
    BY <1>0, <1>1, OrderTypes, ModulesAssumption DEF IInv, Registered, Cells
  <1>3. /\ order' \in Seq(Mods) /\ Len(order') = n + 1 /\ order'[n + 1] = mod
        /\ \A i \in 1..n : order'[i] = order[i]
    BY <1>0, <1>1, <1>2, AppendProperties DEF IInv, TypeOK
  <1>4. prev[HEAD] = At(n) /\ At(n) \in Cells /\ At(n + 1) = HEAD /\ At(0) = HEAD
    <2>1. n \in 0..n
      BY <1>2
    <2>2. prev[At(n + 1)] = At(n)
      BY <1>0, <2>1 DEF IInv, Linked
    <2> QED BY <1>0, <1>2, <2>2 DEF At, Cells
  <1>5. /\ next' = [next EXCEPT ![mod] = HEAD, ![At(n)] = mod]
        /\ prev' = [prev EXCEPT ![HEAD] = mod, ![mod] = At(n)]
    BY <1>4 DEF register_kernel_module, list_add_tail
  <1>6. /\ At(0)' = HEAD /\ At(n + 1)' = mod /\ At(n + 2)' = HEAD
        /\ \A i \in 0..n : At(i)' = At(i) /\ At(i) # mod
        /\ \A i \in 1..n : At(i) # HEAD
    BY <1>0, <1>2, <1>3 DEF At
  <1>7. /\ next' \in [Cells -> Cells \cup {NULL}] /\ prev' \in [Cells -> Cells \cup {NULL}]
        /\ next'[mod] = IF mod = At(n) THEN mod ELSE HEAD
        /\ next'[At(n)] = mod /\ prev'[mod] = At(n) /\ prev'[HEAD] = mod
        /\ \A c \in Cells : c # mod /\ c # At(n) => next'[c] = next[c]
        /\ \A c \in Cells : c # mod /\ c # HEAD => prev'[c] = prev[c]
    BY <1>2, <1>4, <1>5 DEF IInv, TypeOK
  <1>8. TypeOK'
    BY <1>1, <1>3, <1>7 DEF IInv, TypeOK
  <1>9. RegisteredOnce'
    <2>1. Len(order') = n + 1 /\ \A i \in 1..(n + 1) : i \in 1..n \/ i = n + 1
      BY <1>2, <1>3
    <2>2. \A i, k \in 1..n : order[i] = order[k] => i = k
      BY <1>0 DEF IInv, RegisteredOnce
    <2> QED BY <1>2, <1>3, <2>1, <2>2 DEF RegisteredOnce
  <1>10. Linked'
    <2>1. ASSUME NEW i \in 0..(n - 1)
          PROVE  next'[At(i)] = At(i + 1)
      <3>1. At(i) # At(n)
        <4>1. \A j, k \in 1..n : order[j] = order[k] => j = k
          BY <1>0 DEF IInv, RegisteredOnce
        <4> QED BY <1>0, <1>2, <1>4, <1>6, <4>1 DEF At
      <3>2. next[At(i)] = At(i + 1) /\ At(i) \in Cells /\ At(i) # mod
        BY <1>0, <1>2, <1>6, OrderTypes DEF IInv, Linked
      <3> QED BY <1>7, <3>1, <3>2
    <2>2. ASSUME NEW i \in 0..(n - 1)
          PROVE  prev'[At(i + 1)] = At(i)
      <3>1. prev[At(i + 1)] = At(i) /\ At(i + 1) \in Cells
        BY <1>0, <1>2, OrderTypes DEF IInv, Linked
      <3>2. At(i + 1) # mod /\ At(i + 1) # HEAD
        BY <1>2, <1>6
      <3> QED BY <1>7, <3>1, <3>2
    <2>3. ASSUME NEW i \in 0..(n + 1)
          PROVE  next'[At(i)'] = At(i + 1)' /\ prev'[At(i + 1)'] = At(i)'
      <3>1. CASE i \in 0..(n - 1)
        BY <1>2, <1>6, <2>1, <2>2, <3>1
      <3>2. CASE i = n
        BY <1>2, <1>6, <1>7, <3>2
      <3>3. CASE i = n + 1
        <4>1. n \in 0..n /\ mod # At(n) /\ i + 1 = n + 2
          BY <1>2, <1>6, <3>3
        <4> QED BY <1>6, <1>7, <3>3, <4>1
      <3> QED BY <1>2, <3>1, <3>2, <3>3
    <2> QED BY <1>3, <2>3 DEF Linked
  <1>11. Counted'
    BY <1>1 DEF IInv, Counted
  <1>12. WalkIsInOrder'
    <2> SUFFICES ASSUME stage = "in_init"
                 PROVE  WalkIsInOrder'
      BY <1>1 DEF WalkIsInOrder
    <2>1. PICK i \in 1..(n + 1) :
            /\ pos = At(i)
            /\ Lists({k \in 1..n : k < i \/ (k = i /\ stage = "in_init")})
      BY <1>0 DEF IInv, WalkIsInOrder
    <2>2. i \in 1..n
      <3>1. pos \in WithInit /\ pos # HEAD
        BY ModulesAssumption DEF IInv, Counted
      <3> QED BY <1>0, <1>2, <2>1, <3>1 DEF At
    <2> DEFINE places == {k \in 1..n : k < i \/ (k = i /\ stage = "in_init")}
    <2>3. places = {k \in 1..Len(order') : k < i \/ (k = i /\ stage' = "in_init")}
      BY <1>1, <1>2, <1>3, <2>2
    <2>4. places \subseteq 1..n /\ Lists(places)
      BY <2>1
    <2> HIDE DEF places
    <2>5. /\ {log'[j] : j \in 1..Len(log')} = {order'[k] : k \in places} \cap WithInit
          /\ \A j, k \in 1..Len(log'), a, b \in places :
               j < k /\ log'[j] = order'[a] /\ log'[k] = order'[b] => a < b
      <3>1. \A k \in places : order'[k] = order[k]
        BY <1>3, <2>4
      <3>2. log' = log /\ {order'[k] : k \in places} = {order[k] : k \in places}
        BY <1>1, <3>1
      <3>3. {log'[j] : j \in 1..Len(log')} = {order'[k] : k \in places} \cap WithInit
        BY <2>4, <3>2 DEF Lists
      <3>4. ASSUME NEW j \in 1..Len(log'), NEW k \in 1..Len(log'), NEW a \in places,
                   NEW b \in places, j < k /\ log'[j] = order'[a] /\ log'[k] = order'[b]
            PROVE  a < b
        BY <2>4, <3>1, <3>2, <3>4 DEF Lists
      <3> QED BY <3>3, <3>4
    <2>6. i \in 1..(Len(order') + 1) /\ pos' = At(i)'
      BY <1>1, <1>2, <1>3, <1>6, <2>1, <2>2
    <2> QED BY <2>3, <2>5, <2>6 DEF WalkIsInOrder, Lists
  <1> QED BY <1>8, <1>9, <1>10, <1>11, <1>12 DEF IInv

(* Everything but register_kernel_module leaves the ring alone.            *)
LEMMA RingUntouched ==
  ASSUME IInv, UNCHANGED <<next, prev, order>>
  PROVE  Linked' /\ RegisteredOnce' /\ \A i : At(i)' = At(i)
PROOF
  BY DEF IInv, Linked, RegisteredOnce, At

(* A walk's places stay those it had when the list is left alone. *)
LEMMA WalkUntouched ==
  ASSUME IInv, UNCHANGED <<stage, pos, order, log>>
  PROVE  WalkIsInOrder'
PROOF
  <1> SUFFICES ASSUME stage \in {"walking", "in_init"} PROVE WalkIsInOrder'
    BY DEF WalkIsInOrder
  <1>1. PICK i \in 1..(Len(order) + 1) :
          /\ pos = At(i)
          /\ Lists({k \in 1..Len(order) : k < i \/ (k = i /\ stage = "in_init")})
    BY DEF IInv, WalkIsInOrder
  <1> DEFINE places == {k \in 1..Len(order) : k < i \/ (k = i /\ stage = "in_init")}
  <1>2. Lists(places)'
    BY <1>1 DEF Lists
  <1>3. pos' = At(i)' /\ i \in 1..(Len(order') + 1)
    BY <1>1 DEF At
  <1>4. places = {k \in 1..Len(order') : k < i \/ (k = i /\ stage' = "in_init")}
    BY <1>1
  <1> QED BY <1>2, <1>3, <1>4 DEF WalkIsInOrder

(* The module under the cursor is the one at the walk's position. *)
LEMMA CursorIsAt ==
  ASSUME IInv, stage \in {"walking", "in_init"}
  PROVE  \E i \in 1..(Len(order) + 1) :
           /\ pos = At(i)
           /\ Lists({k \in 1..Len(order) : k < i \/ (k = i /\ stage = "in_init")})
           /\ pos # HEAD => /\ i \in 1..Len(order) /\ pos = order[i]
                            /\ next[pos] = At(i + 1) /\ i + 1 \in 1..(Len(order) + 1)
PROOF
  <1>1. PICK i \in 1..(Len(order) + 1) :
          /\ pos = At(i)
          /\ Lists({k \in 1..Len(order) : k < i \/ (k = i /\ stage = "in_init")})
    BY DEF IInv, WalkIsInOrder
  <1>2. ASSUME pos # HEAD
        PROVE  /\ i \in 1..Len(order) /\ pos = order[i]
               /\ next[pos] = At(i + 1) /\ i + 1 \in 1..(Len(order) + 1)
    <2>1. Len(order) \in Nat
      BY OrderTypes DEF IInv
    <2>2. i \in 1..Len(order) /\ pos = order[i]
      BY <1>1, <1>2, <2>1 DEF At
    <2>3. next[At(i)] = At(i + 1)
      BY <2>1, <2>2 DEF IInv, Linked
    <2> QED BY <1>1, <2>1, <2>2, <2>3
  <1> QED BY <1>1, <1>2

LEMMA InitializeKeeps ==
  ASSUME IInv, initialize_modules
  PROVE  IInv'
PROOF
  <1>1. /\ stage = "before" /\ stage' = "walking" /\ pos' = next[HEAD] /\ init_count' = 0
        /\ UNCHANGED <<next, prev, found, order, log>> /\ log = <<>>
    BY DEF initialize_modules, IInv, Counted
  <1>2. Len(order) \in Nat /\ Len(log) = 0 /\ At(1) \in Cells
    BY <1>1, OrderTypes DEF IInv
  <1>3. Linked' /\ RegisteredOnce' /\ \A i : At(i)' = At(i)
    BY <1>1, RingUntouched
  <1>4. pos' = At(1)
    <2>1. 0 \in 0..Len(order) /\ At(0) = HEAD
      BY <1>2 DEF At
    <2> QED BY <1>1, <2>1 DEF IInv, Linked
  <1>5. TypeOK'
    BY <1>1, <1>2, <1>4 DEF IInv, TypeOK
  <1>6. Counted'
    BY <1>1 DEF Counted
  <1>7. WalkIsInOrder'
    <2>1. {k \in 1..Len(order') : k < 1 \/ (k = 1 /\ stage' = "in_init")} = {}
      BY <1>1, <1>2
    <2>2. 1 \in 1..(Len(order') + 1) /\ pos' = At(1)'
      BY <1>1, <1>2, <1>3, <1>4
    <2>3. Len(log') = 0
      BY <1>1, <1>2
    <2> QED BY <2>1, <2>2, <2>3 DEF WalkIsInOrder, Lists
  <1> QED BY <1>3, <1>5, <1>6, <1>7 DEF IInv

(* The module at the cursor joins the log: it is behind all that are in it. *)
LEMMA CallInitKeeps ==
  ASSUME IInv, call_init
  PROVE  IInv'
PROOF
  <1>1. /\ stage = "walking" /\ pos \in WithInit /\ stage' = "in_init"
        /\ log' = Append(log, pos)
        /\ UNCHANGED <<next, prev, pos, init_count, found, order>>
    BY DEF call_init
  <1>2. /\ Len(order) \in Nat /\ Len(log) \in Nat /\ pos # HEAD
        /\ \A j \in 1..Len(log) : log[j] \in WithInit
    BY <1>1, OrderTypes, ModulesAssumption DEF IInv
  <1>3. /\ log' \in Seq(WithInit) /\ Len(log') = Len(log) + 1
        /\ log'[Len(log) + 1] = pos /\ \A j \in 1..Len(log) : log'[j] = log[j]
    BY <1>1, <1>2, AppendProperties DEF IInv, TypeOK
  <1>4. Linked' /\ RegisteredOnce' /\ \A i : At(i)' = At(i)
    BY <1>1, RingUntouched
  <1>5. TypeOK' /\ Counted'
    BY <1>1, <1>2, <1>3 DEF IInv, TypeOK, Counted
  <1>6. WalkIsInOrder'
    <2>1. PICK i \in 1..Len(order) :
            /\ pos = At(i) /\ pos = order[i]
            /\ Lists({k \in 1..Len(order) : k < i \/ (k = i /\ stage = "in_init")})
      BY <1>1, <1>2, CursorIsAt
    <2> DEFINE old == {k \in 1..Len(order) : k < i}
               new == {k \in 1..Len(order) : k < i \/ k = i}
    <2>2. Lists(old)
      <3>1. old = {k \in 1..Len(order) : k < i \/ (k = i /\ stage = "in_init")}
        BY <1>1
      <3> QED BY <2>1, <3>1
    <2>3. new = old \cup {i} /\ old \subseteq 1..(i - 1) /\ new \subseteq 1..Len(order)
      BY <1>2
    <2>4. new = {k \in 1..Len(order') : k < i \/ (k = i /\ stage' = "in_init")}
      BY <1>1
    <2> HIDE DEF old, new
    <2>5. {log'[j] : j \in 1..Len(log')} = {log[j] : j \in 1..Len(log)} \cup {pos}
      BY <1>2, <1>3
    <2>6. {log'[j] : j \in 1..Len(log')} = {order'[k] : k \in new} \cap WithInit
      <3>1. {order'[k] : k \in new} = {order[k] : k \in old} \cup {pos}
        BY <1>1, <2>1, <2>3
      <3> QED BY <1>1, <2>2, <2>5, <3>1 DEF Lists
    <2>7. ASSUME NEW j \in 1..Len(log'), NEW k \in 1..Len(log'), NEW a \in new, NEW b \in new,
                 j < k, log'[j] = order'[a], log'[k] = order'[b]
          PROVE  a < b
      <3>1. j \in 1..Len(log) /\ log'[j] = log[j] /\ order' = order
        BY <1>1, <1>2, <1>3, <2>7
      <3>2. \A m \in 1..Len(order) : m # i => order[m] # order[i]
        BY DEF IInv, RegisteredOnce
      <3>3. a \in old
        <4>1. PICK c \in old : log[j] = order[c]
          BY <2>2, <3>1 DEF Lists
        <4>2. order[a] = order[c] /\ a \in 1..Len(order) /\ c \in 1..Len(order)
          BY <2>3, <2>7, <3>1, <4>1
        <4> QED BY <4>1, <4>2 DEF IInv, RegisteredOnce
      <3>4. CASE k \in 1..Len(log)
        <4>1. PICK c \in old : log[k] = order[c]
          BY <2>2, <3>4 DEF Lists
        <4>2. order[b] = order[c] /\ b \in 1..Len(order) /\ c \in 1..Len(order)
          BY <1>3, <2>3, <2>7, <3>1, <3>4, <4>1
        <4>3. b \in old
          BY <4>1, <4>2 DEF IInv, RegisteredOnce
        <4> QED BY <1>3, <2>2, <2>7, <3>1, <3>3, <3>4, <4>3 DEF Lists
      <3>5. CASE k = Len(log) + 1
        <4>1. order[b] = order[i] /\ b \in 1..Len(order)
          BY <1>3, <2>1, <2>3, <2>7, <3>1, <3>5
        <4>2. b = i
          BY <3>2, <4>1
        <4> QED BY <2>3, <3>3, <4>2
      <3> QED BY <1>2, <1>3, <3>4, <3>5
    <2>8. i \in 1..(Len(order') + 1) /\ pos' = At(i)'
      <3>1. pos' = pos /\ order' = order
        BY <1>1
      <3> QED BY <1>2, <2>1, <3>1 DEF At
    <2> QED BY <2>4, <2>6, <2>7, <2>8 DEF WalkIsInOrder, Lists
  <1> QED BY <1>4, <1>5, <1>6 DEF IInv

(* Going on to the next link, with the module at the cursor in the log or  *)
(* with one that has no init, keeps the walk in order.                     *)
LEMMA CursorMoves ==
  ASSUME IInv, stage \in {"walking", "in_init"}, pos # HEAD,
         stage = "in_init" \/ pos \notin WithInit,
         pos' = next[pos], stage' = "walking", UNCHANGED <<next, prev, order, log>>
  PROVE  WalkIsInOrder' /\ pos' \in Cells
PROOF
  <1>1. Len(order) \in Nat
    BY OrderTypes DEF IInv
  <1>2. PICK i \in 1..Len(order) :
          /\ pos = order[i] /\ next[pos] = At(i + 1) /\ i + 1 \in 1..(Len(order) + 1)
          /\ Lists({k \in 1..Len(order) : k < i \/ (k = i /\ stage = "in_init")})
    BY CursorIsAt
  <1>a. PICK new, was : /\ new = {k \in 1..Len(order) : k < i + 1}
                        /\ was = {k \in 1..Len(order) : k < i \/ (k = i /\ stage = "in_init")}
    OBVIOUS
  <1>3. was \subseteq new /\ \A k \in new : k \in was \/ k = i
    BY <1>1, <1>a
  <1>4. stage = "in_init" => was = new
    BY <1>1, <1>a
  <1>5. new = {k \in 1..Len(order') : k < i + 1 \/ (k = i + 1 /\ stage' = "in_init")}
    BY <1>1, <1>a
  <1>6. Lists(was) /\ was \subseteq 1..Len(order) /\ new \subseteq 1..Len(order)
    BY <1>2, <1>a
  <1>7. Lists(new)
    <2>1. CASE stage = "in_init"
      BY <1>4, <1>6, <2>1
    <2>2. CASE stage # "in_init"
      <3>1. order[i] \notin WithInit
        BY <1>2, <2>2
      <3>2. {order[k] : k \in new} \cap WithInit = {order[k] : k \in was} \cap WithInit
        BY <1>3, <3>1
      <3>3. \A j \in 1..Len(log) : log[j] \in WithInit
        BY OrderTypes DEF IInv
      <3>4. \A j \in 1..Len(log), a \in new : log[j] = order[a] => a \in was
        BY <1>3, <3>1, <3>3
      <3> QED BY <1>6, <3>2, <3>4 DEF Lists
    <2> QED BY <2>1, <2>2
  <1>8. Lists(new)'
    BY <1>7 DEF Lists
  <1>9. pos' = At(i + 1)' /\ i + 1 \in 1..(Len(order') + 1) /\ At(i + 1) \in Cells
    BY <1>1, <1>2, OrderTypes DEF IInv, At
  <1> QED BY <1>2, <1>5, <1>8, <1>9 DEF WalkIsInOrder

LEMMA SmallestExists ==
  ASSUME NEW T \in SUBSET Nat, T # {}
  PROVE  \E x \in T : \A y \in T : x <= y
PROOF
  <1>1. PICK x \in T : \A y \in T : ~(<<y, x>> \in OpToRel(<, Nat))
    BY NatLessThanWellFounded, WFMin
  <1>2. \A y \in T : ~(y < x)
    BY <1>1 DEF OpToRel
  <1> QED BY <1>2

(* The cursor of find_module's loop goes round the ring, to the head.      *)
LEMMA CellIsAt ==
  ASSUME IInv, NEW i \in 0..Len(order)
  PROVE  Cell(i) = At(i + 1)
PROOF
  <1> DEFINE Def(g) == [k \in 0..i |-> IF k = 0 THEN next[HEAD] ELSE next[g[k - 1]]]
             c == CHOOSE g : g = Def(g)
  <1>1. Cell(i) = c[i]
    BY DEF Cell
  <1>2. Len(order) \in Nat /\ \A k \in 0..Len(order) : next[At(k)] = At(k + 1)
    BY OrderTypes DEF IInv, Linked
  <1>3. next[HEAD] = At(1)
    <2>1. At(0) = HEAD /\ 0 \in 0..Len(order)
      BY <1>2 DEF At
    <2> QED BY <1>2, <2>1
  <1>4. \E g : g = Def(g)
    <2> DEFINE w == [k \in 0..i |-> At(k + 1)]
    <2>1. \A k \in 0..i : k # 0 => w[k - 1] = At(k)
      BY <1>2
    <2>2. \A k \in 0..i : (IF k = 0 THEN next[HEAD] ELSE next[w[k - 1]]) = At(k + 1)
      BY <1>2, <1>3, <2>1
    <2>3. w = Def(w)
      BY <2>2
    <2> QED BY <2>3
  <1>5. c = Def(c)
    BY <1>4
  <1> HIDE DEF c
  <1>6. c[0] = At(1) /\ \A k \in 1..i : c[k] = next[c[k - 1]]
    BY <1>2, <1>3, <1>5
  <1> DEFINE bad == {k \in 0..i : c[k] # At(k + 1)}
  <1>7. bad = {}
    <2> SUFFICES ASSUME bad # {} PROVE FALSE
      OBVIOUS
    <2>1. bad \in SUBSET Nat
      BY <1>2
    <2>2. PICK k \in bad : \A y \in bad : k <= y
      BY <2>1, SmallestExists
    <2>3. k # 0 /\ k \in 1..i /\ k - 1 \in 0..i /\ k - 1 \notin bad
      BY <1>2, <1>6, <2>1, <2>2
    <2>4. c[k - 1] = At(k)
      <3>1. c[k - 1] = At((k - 1) + 1)
        BY <2>3
      <3>2. PICK m \in Nat : m = k
        BY <2>3
      <3>3. (m - 1) + 1 = m
        BY <3>2
      <3> QED BY <3>1, <3>2, <3>3
    <2>5. c[k] = At(k + 1)
      <3>1. c[k] = next[c[k - 1]]
        BY <1>6, <2>3
      <3>2. k \in 0..Len(order)
        BY <1>2, <2>3
      <3> QED BY <1>2, <2>4, <3>1, <3>2
    <2> QED BY <2>2, <2>5
  <1>8. c[i] = At(i + 1)
    BY <1>2, <1>7
  <1> QED BY <1>1, <1>8

(* find_module's loop stops at the first module of the name, or, having    *)
(* passed all, at the head.                                                *)
LEMMA FindMeansFirst ==
  ASSUME IInv, NEW n, find_module(n)
  PROVE  LET named == {i \in 1..Len(order) : Name[order[i]] = n}
         IN  \/ found' = NULL /\ named = {}
             \/ \E i \in named : /\ found' = order[i] /\ found' \in Mods
                                 /\ \A k \in named : i <= k
PROOF
  <1> DEFINE named == {k \in 1..Len(order) : Name[order[k]] = n}
  <1>1. PICK i \in 0..Cardinality(Mods) :
          /\ \A k \in 0..(i - 1) : Cell(k) # HEAD /\ Name[Cell(k)] # n
          /\ IF Cell(i) = HEAD THEN found' = NULL ELSE Name[Cell(i)] = n /\ found' = Cell(i)
    BY DEF find_module
  <1>2. /\ Len(order) \in Nat /\ i \in Int /\ i >= 0
        /\ \A k \in 1..Len(order) : order[k] \in Mods /\ order[k] # HEAD
    <2>1. Cardinality(Mods) \in Nat
      BY ModulesAssumption, FS_CardinalityType
    <2> QED BY <2>1, OrderTypes DEF IInv
  <1>3. /\ \A k \in 0..(Len(order) - 1) : Cell(k) = order[k + 1]
        /\ Cell(Len(order)) = HEAD
    <2>1. \A k \in 0..Len(order) : Cell(k) = At(k + 1)
      BY CellIsAt
    <2> QED BY <1>2, <2>1 DEF At
  <1>4. i <= Len(order)
    <2>1. SUFFICES ASSUME i > Len(order) PROVE FALSE
      BY <1>2
    <2>2. Len(order) \in 0..(i - 1)
      BY <1>2, <2>1
    <2> QED BY <1>1, <1>3, <2>2
  <1>5. \A k \in 1..Len(order) : k <= i => Name[order[k]] # n
    <2> SUFFICES ASSUME NEW k \in 1..Len(order), k <= i PROVE Name[order[k]] # n
      OBVIOUS
    <2>1. k - 1 \in 0..(i - 1) /\ k - 1 \in 0..(Len(order) - 1) /\ (k - 1) + 1 = k
      BY <1>2
    <2>2. Cell(k - 1) = order[k]
      BY <1>3, <2>1
    <2> QED BY <1>1, <2>1, <2>2
  <1>6. CASE i = Len(order)
    <2>1. found' = NULL /\ named = {}
      BY <1>1, <1>2, <1>3, <1>5, <1>6
    <2> QED BY <2>1
  <1>7. CASE i < Len(order)
    <2>1. i \in 0..(Len(order) - 1) /\ i + 1 \in 1..Len(order)
      BY <1>2, <1>7
    <2>2. Cell(i) = order[i + 1] /\ order[i + 1] # HEAD
      BY <1>2, <1>3, <2>1
    <2>3. found' = order[i + 1] /\ Name[order[i + 1]] = n /\ found' \in Mods
      BY <1>1, <1>2, <2>1, <2>2
    <2>4. i + 1 \in named /\ \A k \in named : i + 1 <= k
      BY <1>2, <1>5, <2>1, <2>3
    <2> QED BY <2>3, <2>4
  <1> QED BY <1>2, <1>4, <1>6, <1>7

LEMMA FindKeeps ==
  ASSUME IInv, NEW n, find_module(n)
  PROVE  IInv'
PROOF
  <1>1. UNCHANGED <<next, prev, stage, pos, init_count, order, log>>
    BY DEF find_module
  <1>2. found' \in Mods \cup {NULL}
    BY FindMeansFirst
  <1>3. Linked' /\ RegisteredOnce'
    BY <1>1, RingUntouched
  <1>4. TypeOK' /\ Counted'
    BY <1>1, <1>2 DEF IInv, TypeOK, Counted
  <1>5. WalkIsInOrder'
    BY <1>1, WalkUntouched
  <1> QED BY <1>3, <1>4, <1>5 DEF IInv

LEMMA InitReturnsKeeps ==
  ASSUME IInv, NEW result \in {0, -1}, init_returns(result)
  PROVE  IInv'
PROOF
  <1>1. /\ stage = "in_init" /\ stage' = "walking" /\ pos' = next[pos]
        /\ init_count' = IF result = 0 THEN init_count + 1 ELSE init_count
        /\ UNCHANGED <<next, prev, found, order, log>>
    BY DEF init_returns
  <1>2. pos \in WithInit /\ init_count < Len(log) /\ Len(log) \in Nat
    BY <1>1, OrderTypes DEF IInv, Counted
  <1>3. WalkIsInOrder' /\ pos' \in Cells
    BY <1>1, <1>2, CursorMoves, ModulesAssumption
  <1>4. Linked' /\ RegisteredOnce'
    BY <1>1, RingUntouched
  <1>5. init_count' \in 0..Len(log')
    BY <1>1, <1>2 DEF IInv, TypeOK
  <1>6. TypeOK' /\ Counted'
    BY <1>1, <1>3, <1>5 DEF IInv, TypeOK, Counted
  <1> QED BY <1>3, <1>4, <1>6 DEF IInv

LEMMA SkipModuleKeeps ==
  ASSUME IInv, skip_module
  PROVE  IInv'
PROOF
  <1>1. /\ stage = "walking" /\ pos \notin WithInit /\ pos # HEAD /\ pos' = next[pos]
        /\ UNCHANGED <<next, prev, stage, init_count, found, order, log>>
    BY DEF skip_module
  <1>2. WalkIsInOrder' /\ pos' \in Cells
    BY <1>1, CursorMoves
  <1>3. Linked' /\ RegisteredOnce'
    BY <1>1, RingUntouched
  <1>4. TypeOK' /\ Counted'
    BY <1>1, <1>2 DEF IInv, TypeOK, Counted
  <1> QED BY <1>2, <1>3, <1>4 DEF IInv

LEMMA AllVisitedKeeps ==
  ASSUME IInv, all_visited
  PROVE  IInv'
PROOF
  <1>1. /\ stage = "walking" /\ stage' = "after"
        /\ UNCHANGED <<next, prev, pos, init_count, found, order, log>>
    BY DEF all_visited
  <1>2. Linked' /\ RegisteredOnce'
    BY <1>1, RingUntouched
  <1> QED BY <1>1, <1>2 DEF IInv, TypeOK, Counted, WalkIsInOrder

LEMMA StutterKeeps ==
  ASSUME IInv, UNCHANGED vars
  PROVE  IInv'
PROOF
  <1>1. UNCHANGED <<next, prev, stage, pos, init_count, found, order, log>>
    BY DEF vars
  <1>2. Linked' /\ RegisteredOnce'
    BY <1>1, RingUntouched
  <1>3. TypeOK' /\ Counted'
    BY <1>1 DEF IInv, TypeOK, Counted
  <1>4. WalkIsInOrder'
    BY <1>1, WalkUntouched
  <1> QED BY <1>2, <1>3, <1>4 DEF IInv

LEMMA NextKeeps ==
  ASSUME IInv, Next
  PROVE  IInv'
PROOF
  BY RegisterKeeps, InitializeKeeps, CallInitKeeps, SkipModuleKeeps, AllVisitedKeeps,
     InitReturnsKeeps, FindKeeps DEF Next

(* Modules are loaded before they are walked over: neither part disturbs   *)
(* the other's invariant.                                                  *)
LEMMA BothKeep == IInv /\ LoaderIInv /\ [BothNext]_allVars => IInv' /\ LoaderIInv'
PROOF
  BY NextKeeps, StutterKeeps, LoaderStepKeeps, LoaderStutterKeeps
     DEF BothNext, load_multiboot_modules, manages, allVars

LEMMA BothInvariant == BothSpec => [](IInv /\ LoaderIInv)
PROOF
  <1>1. BothInit => IInv /\ LoaderIInv
    BY InitIsInv, InitHolds DEF BothInit
  <1> QED BY <1>1, BothKeep, PTL DEF BothSpec

(* Everything keeps its type, while modules are loaded and walked over.    *)
THEOREM BothTypeCorrect == BothSpec => []BothTypeOK
PROOF
  <1>1. IInv /\ LoaderIInv => BothTypeOK
    BY LoaderIInvMeans DEF BothTypeOK, IInv
  <1> QED BY <1>1, BothInvariant, PTL

(* As long as no file has a segment that is longer than the region the     *)
(* loader asks for it, a segment of a module whose entry was called stays  *)
(* as its file has it, whatever is loaded, fails to load, registers or is  *)
(* initialised later.  The files may be any: the premise is in the         *)
(* property, not assumed of the loader's input.                            *)
THEOREM SegmentsStayIntact == BothSpec => []LoadedIsIntact
PROOF
  <1>1. LoaderIInv => LoadedIsIntact
    BY LoaderIInvMeans
  <1> QED BY <1>1, BothInvariant, PTL

(* The list of modules is one ring in the order of registration.           *)
THEOREM ListIsARing == BothSpec => []Linked
PROOF
  <1>1. IInv => Linked
    BY DEF IInv
  <1> QED BY <1>1, BothInvariant, PTL

(* initialize_modules calls each init once, in the order of registration,  *)
(* those registered by an init that it called included.                    *)
THEOREM InitsAreInOrder == BothSpec => []WalkIsInOrder
PROOF
  <1>1. IInv => WalkIsInOrder
    BY DEF IInv
  <1> QED BY <1>1, BothInvariant, PTL

(* find_module returns the first module registered under the name, and     *)
(* NULL only if there is none.                                             *)
THEOREM LookupFindsTheFirst == BothSpec => FindsTheFirst
PROOF
  <1>1. IInv => \A n \in {Name[m] : m \in Mods} : find_module(n) =>
          LET named == {i \in 1..Len(order) : Name[order[i]] = n}
          IN  \/ found' = NULL /\ named = {}
              \/ \E i \in named : found' = order[i] /\ \A k \in named : i <= k
    BY FindMeansFirst
  <1> QED BY <1>1, BothInvariant, PTL DEF FindsTheFirst
=============================================================================
