------------------------------ MODULE HeapProofs ------------------------------
(***************************************************************************)
(* Theorems about the kernel heap (module Heap), for every heap size,      *)
(* placement, set of requests and number of calls.                         *)
(***************************************************************************)
EXTENDS HeapLoops, FiniteSetTheorems, TLAPS

(* The shape of the list, which every other argument starts from. *)
Shape == TypeOK /\ Tiled

(* Words of a header keep their type, field by field. *)
LEMMA HeaderTypes ==
  ASSUME TypeOK, NEW a \in Blocks
  PROVE  /\ a \in Nat /\ HeapStart <= a /\ a <= HeapEnd
         /\ hdr[a] \in [size : Nat, next : Nat, free : BOOLEAN]
         /\ hdr[a].size \in Nat /\ hdr[a].next \in Nat
         /\ hdr[a].free \in BOOLEAN
         /\ EndOf(a) \in Nat /\ EndOf(a) >= a + HDR
PROOF
  <1>1. a \in HeapStart..HeapEnd /\ HeapStart \in Nat /\ HeapEnd \in Nat
    BY HeapAssumption DEF TypeOK
  <1>2. hdr[a] \in [size : Nat, next : Nat, free : BOOLEAN]
    BY DEF TypeOK
  <1>3. hdr[a].size \in Nat /\ hdr[a].next \in Nat /\ hdr[a].free \in BOOLEAN
    BY <1>2
  <1> QED BY <1>1, <1>2, <1>3 DEF EndOf, HDR

(* No block reaches past the heap. *)
LEMMA EndsInside ==
  ASSUME Shape, NEW a \in Blocks
  PROVE  EndOf(a) <= HeapEnd
PROOF
  <1>1. EndOf(a) = HeapEnd \/ EndOf(a) \in Blocks
    BY DEF Shape, Tiled
  <1>2. Blocks \subseteq HeapStart..HeapEnd
    BY DEF Shape, TypeOK
  <1> QED BY <1>1, <1>2, HeapAssumption, HeaderTypes DEF Shape

(* The next field names the block that begins where this one ends. *)
LEMMA NextIsAdjacent ==
  ASSUME Shape, NEW a \in Blocks, hdr[a].next # NULL
  PROVE  hdr[a].next \in Blocks /\ hdr[a].next = EndOf(a) /\ a < hdr[a].next
PROOF
  <1>1. hdr[a].next = EndOf(a) /\ EndOf(a) \in Blocks
    BY DEF Shape, Tiled
  <1> QED BY <1>1, HeaderTypes DEF Shape, HDR

(* Two blocks with the same successor are the same block. *)
LEMMA NextIsInjective ==
  ASSUME Shape, NEW a \in Blocks, NEW b \in Blocks,
         hdr[a].next = hdr[b].next, hdr[a].next # NULL
  PROVE  a = b
PROOF
  <1>1. EndOf(a) = EndOf(b)
    BY NextIsAdjacent
  <1>2. \A x, y \in Blocks : x < y => EndOf(x) <= y
    BY DEF Shape, Tiled
  <1>3. ~(a < b)
    BY <1>1, <1>2, HeaderTypes DEF Shape, HDR
  <1>4. ~(b < a)
    BY <1>1, <1>2, HeaderTypes DEF Shape, HDR
  <1> QED BY <1>3, <1>4, HeaderTypes DEF Shape
-----------------------------------------------------------------------------
(* Rounding up to the alignment: what ALIGN promises when it does not wrap. *)
NoWrap == \A n \in Requests : n + ALIGNMENT - 1 < WORD

LEMMA AlignIsNat ==
  ASSUME NEW n \in Requests
  PROVE  n \in Nat /\ ALIGN(n) \in Nat /\ ALIGN(n) % ALIGNMENT = 0
PROOF
  <1> DEFINE v == UAdd(n, ALIGNMENT - 1)
  <1>1. n \in Nat /\ n < WORD /\ WORD \in Nat
    BY HeapAssumption
  <1>2. v \in Nat
    BY <1>1 DEF UAdd, ALIGNMENT
  <1>3. v - (v % 8) \in Nat /\ (v - (v % 8)) % 8 = 0
    BY <1>2
  <1> QED BY <1>1, <1>3 DEF ALIGN, ALIGNMENT

LEMMA AlignRoundsUp ==
  ASSUME NoWrap, NEW n \in Requests
  PROVE  n <= ALIGN(n)
PROOF
  <1>1. n \in Nat /\ n < WORD /\ WORD \in Nat /\ n + 7 < WORD
    BY HeapAssumption DEF NoWrap, ALIGNMENT
  <1>2. UAdd(n, 7) = n + 7
    BY <1>1 DEF UAdd
  <1>3. n <= (n + 7) - ((n + 7) % 8)
    BY <1>1
  <1> QED BY <1>2, <1>3 DEF ALIGN, ALIGNMENT
-----------------------------------------------------------------------------
(* kmalloc: the list after block b is taken for n bytes.  Headers other    *)
(* than b's and the new one are untouched, and nothing lay where the new   *)
(* one is written.                                                         *)
Rest(b, n) == b + HDR + n

LEMMA SplitPoint ==
  ASSUME Shape, NEW b \in Blocks, NEW n \in Nat, b \in Fits(n), Splits(b, n),
         NEW rest, rest = Rest(b, n)
  PROVE  /\ rest \in Nat /\ b + HDR <= rest /\ rest + HDR + MIN_BLOCK_SIZE <= EndOf(b)
         /\ rest \notin Blocks /\ rest # b /\ rest # NULL
         /\ rest \in HeapStart..HeapEnd
PROOF
  <1>1. /\ b \in Nat /\ hdr[b].size \in Nat /\ EndOf(b) \in Nat
        /\ HeapStart <= b /\ EndOf(b) <= HeapEnd
    BY HeaderTypes, EndsInside DEF Shape
  <1>2. HeapStart \in Nat \ {0} /\ HeapEnd \in Nat
    BY HeapAssumption
  <1>3. /\ rest \in Nat /\ b + HDR <= rest /\ b < rest
        /\ rest + HDR + MIN_BLOCK_SIZE <= EndOf(b)
    BY <1>1 DEF Rest, Splits, Remaining, EndOf, HDR, MIN_BLOCK_SIZE
  <1>4. rest \notin Blocks
    <2>1. \A x \in Blocks : b < x => EndOf(b) <= x
      BY DEF Shape, Tiled
    <2> QED BY <1>1, <1>3, <2>1 DEF HDR, MIN_BLOCK_SIZE
  <1> QED BY <1>1, <1>2, <1>3, <1>4 DEF NULL, HDR, MIN_BLOCK_SIZE

LEMMA PlaceKeepsTypes ==
  ASSUME Shape, NEW b \in Blocks, NEW n \in Nat, b \in Fits(n)
  PROVE  /\ Place(b, n) \in [DOMAIN Place(b, n) -> [size : Nat, next : Nat, free : BOOLEAN]]
         /\ Blocks \subseteq DOMAIN Place(b, n)
         /\ DOMAIN Place(b, n) \subseteq HeapStart..HeapEnd
PROOF
  <1> DEFINE rest == Rest(b, n)
             Header == [size : Nat, next : Nat, free : BOOLEAN]
  <1>1. hdr \in [Blocks -> Header] /\ Blocks \subseteq HeapStart..HeapEnd
    BY DEF Shape, TypeOK
  <1>2. CASE Splits(b, n)
    <2>1. rest \in Nat /\ rest \in HeapStart..HeapEnd /\ rest \notin Blocks /\ b # rest
      BY <1>2, SplitPoint
    <2>2. Remaining(b, n) - HDR \in Nat
      BY <1>2, HeaderTypes DEF Splits, Remaining, HDR, MIN_BLOCK_SIZE, Shape
    <2>3. hdr[b].next \in Nat
      BY HeaderTypes DEF Shape
    <2>4. Place(b, n) = [a \in Blocks \cup {rest} |->
              IF a = b THEN [size |-> n, next |-> rest, free |-> FALSE]
              ELSE IF a = rest THEN [size |-> Remaining(b, n) - HDR,
                                     next |-> hdr[b].next, free |-> TRUE]
              ELSE hdr[a]]
      BY <1>2 DEF Place, Splits, Rest
    <2>5. \A a \in Blocks \cup {rest} : Place(b, n)[a] \in Header
      BY <1>1, <2>1, <2>2, <2>3, <2>4
    <2> QED BY <1>1, <2>1, <2>4, <2>5
  <1>3. CASE ~Splits(b, n)
    <2>1. Place(b, n) = [hdr EXCEPT ![b].free = FALSE]
      BY <1>3 DEF Place, Splits
    <2>2. \A a \in Blocks : Place(b, n)[a] \in Header
      BY <1>1, <2>1 DEF Blocks
    <2> QED BY <1>1, <2>1, <2>2 DEF Blocks
  <1> QED BY <1>2, <1>3

(* The headers of the new list, field by field. *)
LEMMA PlaceHeaders ==
  ASSUME Shape, NEW b \in Blocks, NEW n \in Nat, b \in Fits(n), hdr' = Place(b, n)
  PROVE  /\ Splits(b, n) =>
              /\ Blocks' = Blocks \cup {Rest(b, n)}
              /\ hdr'[b].size = n /\ hdr'[b].next = Rest(b, n)
              /\ hdr'[Rest(b, n)].size = Remaining(b, n) - HDR
              /\ hdr'[Rest(b, n)].next = hdr[b].next
              /\ hdr'[Rest(b, n)].free = TRUE
         /\ ~Splits(b, n) =>
              /\ Blocks' = Blocks
              /\ hdr'[b].size = hdr[b].size /\ hdr'[b].next = hdr[b].next
         /\ hdr'[b].free = FALSE
         /\ \A a \in Blocks \ {b} : hdr'[a] = hdr[a]
PROOF
  <1> DEFINE rest == Rest(b, n)
  <1>1. CASE Splits(b, n)
    <2>1. rest \notin Blocks /\ b # rest
      BY <1>1, SplitPoint
    <2>2. hdr' = [a \in Blocks \cup {rest} |->
              IF a = b THEN [size |-> n, next |-> rest, free |-> FALSE]
              ELSE IF a = rest THEN [size |-> Remaining(b, n) - HDR,
                                     next |-> hdr[b].next, free |-> TRUE]
              ELSE hdr[a]]
      BY <1>1 DEF Place, Splits, Rest
    <2>3. Blocks' = Blocks \cup {rest}
      BY <2>2 DEF Blocks
    <2>4. hdr'[b] = [size |-> n, next |-> rest, free |-> FALSE]
      BY <2>2
    <2>5. hdr'[rest] = [size |-> Remaining(b, n) - HDR,
                        next |-> hdr[b].next, free |-> TRUE]
      BY <2>1, <2>2
    <2>6. \A a \in Blocks \ {b} : hdr'[a] = hdr[a]
      BY <2>1, <2>2
    <2> QED BY <1>1, <2>3, <2>4, <2>5, <2>6
  <1>2. CASE ~Splits(b, n)
    <2>1. hdr' = [hdr EXCEPT ![b].free = FALSE]
      BY <1>2 DEF Place, Splits
    <2>2. hdr \in [Blocks -> [size : Nat, next : Nat, free : BOOLEAN]]
      BY DEF Shape, TypeOK
    <2>3. Blocks' = Blocks
      BY <2>1, <2>2 DEF Blocks
    <2>4. hdr'[b] = [hdr[b] EXCEPT !.free = FALSE]
      BY <2>1, <2>2 DEF Blocks
    <2>5. hdr[b] \in [size : Nat, next : Nat, free : BOOLEAN]
      BY <2>2
    <2>6. \A a \in Blocks \ {b} : hdr'[a] = hdr[a]
      BY <2>1, <2>2 DEF Blocks
    <2> QED BY <1>2, <2>3, <2>4, <2>5, <2>6
  <1> QED BY <1>1, <1>2

(* Where the blocks of the new list end. *)
LEMMA PlaceEnds ==
  ASSUME Shape, NEW b \in Blocks, NEW n \in Nat, b \in Fits(n), hdr' = Place(b, n)
  PROVE  /\ \A a \in Blocks \ {b} : EndOf(a)' = EndOf(a)
         /\ Splits(b, n)  => EndOf(b)' = Rest(b, n) /\ EndOf(Rest(b, n))' = EndOf(b)
         /\ ~Splits(b, n) => EndOf(b)' = EndOf(b)
PROOF
  <1>1. \A a \in Blocks \ {b} : EndOf(a)' = EndOf(a)
    BY PlaceHeaders DEF EndOf
  <1>2. ASSUME Splits(b, n)
        PROVE EndOf(b)' = Rest(b, n) /\ EndOf(Rest(b, n))' = EndOf(b)
    <2>1. hdr'[b].size = n /\ hdr'[Rest(b, n)].size = Remaining(b, n) - HDR
      BY <1>2, PlaceHeaders
    <2> QED BY <2>1, HeaderTypes DEF EndOf, Remaining, Rest, HDR, Shape
  <1>3. ~Splits(b, n) => EndOf(b)' = EndOf(b)
    BY PlaceHeaders DEF EndOf
  <1> QED BY <1>1, <1>2, <1>3

LEMMA PlaceKeepsTiling ==
  ASSUME Shape, heap_start # NULL, heap_start' = heap_start,
         NEW b \in Blocks, NEW n \in Nat, b \in Fits(n), hdr' = Place(b, n)
  PROVE  Tiled'
PROOF
  <1> DEFINE rest == Rest(b, n)
  <1>1. HeapStart \in Blocks /\ Blocks # {}
    BY DEF Shape, Tiled
  <1>2. \A x, y \in Blocks : x < y => EndOf(x) <= y
    BY DEF Shape, Tiled
  <1>3. \A a \in Blocks : IF hdr[a].next = NULL
                          THEN EndOf(a) = HeapEnd
                          ELSE hdr[a].next = EndOf(a) /\ EndOf(a) \in Blocks
    BY DEF Shape, Tiled
  <1>4. CASE Splits(b, n)
    <2>1. /\ Blocks' = Blocks \cup {rest}
          /\ hdr'[b].next = rest /\ hdr'[rest].next = hdr[b].next
          /\ \A a \in Blocks \ {b} : hdr'[a].next = hdr[a].next
      BY <1>4, PlaceHeaders
    <2>2. /\ rest \in Nat /\ rest \notin Blocks /\ rest # NULL
          /\ b < rest /\ rest < EndOf(b)
      BY <1>4, SplitPoint, HeaderTypes DEF HDR, MIN_BLOCK_SIZE, Shape
    <2>3. /\ \A a \in Blocks \ {b} : EndOf(a)' = EndOf(a)
          /\ EndOf(b)' = rest /\ EndOf(rest)' = EndOf(b)
      BY <1>4, PlaceEnds
    <2>4. \A a \in Blocks' : IF hdr'[a].next = NULL
                             THEN EndOf(a)' = HeapEnd
                             ELSE hdr'[a].next = EndOf(a)' /\ EndOf(a)' \in Blocks'
      BY <1>3, <2>1, <2>2, <2>3
    <2>5. \A x, y \in Blocks' : x < y => EndOf(x)' <= y
      <3> SUFFICES ASSUME NEW x \in Blocks', NEW y \in Blocks', x < y
                   PROVE  EndOf(x)' <= y
        OBVIOUS
      <3>1. \A a \in Blocks : a \in Nat /\ EndOf(a) \in Nat
        BY HeaderTypes DEF Shape
      <3>2. CASE x \in Blocks /\ y \in Blocks
        BY <1>2, <2>2, <2>3, <3>1, <3>2
      <3>3. CASE x = rest
        BY <1>2, <2>1, <2>2, <2>3, <3>1, <3>3
      <3>4. CASE x \in Blocks /\ y = rest
        <4>1. CASE x = b
          BY <2>2, <2>3, <3>4, <4>1
        <4>2. CASE x # b
          BY <1>2, <2>2, <2>3, <3>1, <3>4, <4>2
        <4> QED BY <4>1, <4>2
      <3> QED BY <2>1, <3>2, <3>3, <3>4
    <2> QED BY <1>1, <2>1, <2>4, <2>5 DEF Tiled
  <1>5. CASE ~Splits(b, n)
    <2>1. Blocks' = Blocks /\ hdr'[b].next = hdr[b].next
      BY <1>5, PlaceHeaders
    <2>2. \A a \in Blocks \ {b} : hdr'[a].next = hdr[a].next
      BY PlaceHeaders, ZenonT(40)
    <2>3. \A a \in Blocks : EndOf(a)' = EndOf(a)
      BY <1>5, PlaceEnds
    <2> QED BY <1>1, <1>2, <1>3, <2>1, <2>2, <2>3 DEF Tiled
  <1> QED BY <1>4, <1>5

(* Taking a block makes no pair of free neighbours: the only one whose     *)
(* second half is new, behind b, was a pair before with b as its first.    *)
LEMMA PlaceKeepsOnePair ==
  ASSUME Shape, AtMostOneFreePair,
         NEW b \in Blocks, NEW n \in Nat, b \in Fits(n), hdr' = Place(b, n)
  PROVE  AtMostOneFreePair'
PROOF
  <1> DEFINE rest == Rest(b, n)
             Before(a) == IF a = rest /\ Splits(b, n) THEN b ELSE a
  <1>1. Splits(b, n) => rest \notin Blocks /\ rest # b /\ rest # NULL
    BY SplitPoint
  <1>2. hdr[b].free
    BY DEF Fits
  <1>3. /\ \A a \in Blocks \ {b} : hdr'[a] = hdr[a]
        /\ ~hdr'[b].free
        /\ Splits(b, n) => /\ Blocks' = Blocks \cup {rest}
                           /\ hdr'[rest].next = hdr[b].next
        /\ ~Splits(b, n) => Blocks' = Blocks
    BY PlaceHeaders
  <1>4. ASSUME NEW a \in Blocks', FreePair(a)'
        PROVE  Before(a) \in Blocks /\ FreePair(Before(a)) /\ a # b
    <2>1. a # b /\ hdr'[a].next # NULL /\ hdr'[hdr'[a].next].free
      BY <1>3, <1>4 DEF FreePair
    <2>2. CASE a = rest /\ Splits(b, n)
      <3>1. hdr[b].next \in Blocks /\ hdr[b].next # b
        BY <1>3, <2>1, <2>2, NextIsAdjacent, HeaderTypes DEF Shape
      <3> QED BY <1>2, <1>3, <2>1, <2>2, <3>1 DEF FreePair
    <2>3. CASE ~(a = rest /\ Splits(b, n))
      <3>1. a \in Blocks /\ hdr'[a] = hdr[a]
        BY <1>3, <2>1, <2>3
      <3>2. hdr[a].next \in Blocks /\ hdr[a].next # b
        BY <1>3, <2>1, <3>1, NextIsAdjacent
      <3> QED BY <1>3, <1>4, <2>1, <2>3, <3>1, <3>2 DEF FreePair
    <2> QED BY <2>2, <2>3
  <1> SUFFICES ASSUME NEW x \in Blocks', NEW y \in Blocks', FreePair(x)', FreePair(y)'
               PROVE  x = y
    BY DEF AtMostOneFreePair
  <1>5. /\ Before(x) \in Blocks /\ FreePair(Before(x)) /\ x # b
        /\ Before(y) \in Blocks /\ FreePair(Before(y)) /\ y # b
    BY <1>4
  <1>6. Before(x) = Before(y)
    BY <1>5 DEF AtMostOneFreePair
  <1> QED BY <1>1, <1>5, <1>6
-----------------------------------------------------------------------------
(* kfree: block b is marked free and the pass absorbs the blocks in M.     *)
Pass(b, M) ==
  /\ b \in Blocks /\ M \subseteq Blocks
  /\ Sweep(Marked(b), M) /\ hdr' = Coalesce(Marked(b), M)

(* What the mark of a freed block writes. *)
LEMMA MarkHeaders ==
  ASSUME TypeOK, NEW b \in Blocks
  PROVE  /\ DOMAIN Marked(b) = Blocks
         /\ \A a \in Blocks : /\ Marked(b)[a] \in [size : Nat, next : Nat, free : BOOLEAN]
                              /\ Marked(b)[a].size = hdr[a].size
                              /\ Marked(b)[a].next = hdr[a].next
                              /\ Marked(b)[a].free <=> (a = b \/ hdr[a].free)
PROOF
  <1>1. hdr \in [Blocks -> [size : Nat, next : Nat, free : BOOLEAN]]
    BY DEF TypeOK
  <1>2. DOMAIN Marked(b) = Blocks
    BY <1>1 DEF Marked, Blocks
  <1>3. Marked(b)[b] = [hdr[b] EXCEPT !.free = TRUE]
    BY <1>1 DEF Marked, Blocks
  <1>4. \A a \in Blocks \ {b} : Marked(b)[a] = hdr[a]
    BY <1>1 DEF Marked, Blocks
  <1>5. \A a \in Blocks : hdr[a] \in [size : Nat, next : Nat, free : BOOLEAN]
    BY <1>1
  <1>6. /\ Marked(b)[b] \in [size : Nat, next : Nat, free : BOOLEAN]
        /\ Marked(b)[b].size = hdr[b].size /\ Marked(b)[b].next = hdr[b].next
        /\ Marked(b)[b].free
    BY <1>3, <1>5
  <1> QED BY <1>2, <1>4, <1>5, <1>6

(* Which blocks the pass absorbs, said of the list before the call. *)
LEMMA SweepRule ==
  ASSUME TypeOK, NEW b, NEW M, Pass(b, M), NEW a \in Blocks
  PROVE  a \in M <=> \E p \in Blocks : /\ hdr[p].next = a
                                       /\ p = b \/ hdr[p].free
                                       /\ a = b \/ hdr[a].free
                                       /\ p \notin M
PROOF
  <1>1. b \in Blocks
    BY DEF Pass
  <1>2. a \in M <=> \E p \in Blocks : /\ Marked(b)[p].next = a
                                      /\ Marked(b)[p].free /\ Marked(b)[a].free
                                      /\ p \notin M
    BY <1>1, MarkHeaders DEF Pass, Sweep
  <1> QED BY <1>1, <1>2, MarkHeaders

(* The first block has no predecessor and stays. *)
LEMMA FirstBlockStays ==
  ASSUME Shape, NEW b, NEW M, Pass(b, M)
  PROVE  HeapStart \notin M
PROOF
  <1> SUFFICES ASSUME HeapStart \in M PROVE FALSE
    OBVIOUS
  <1>1. HeapStart \in Blocks
    BY DEF Pass
  <1>2. PICK p \in Blocks : hdr[p].next = HeapStart
    BY <1>1, SweepRule DEF Shape
  <1>3. HeapStart # NULL /\ HeapStart \in Nat
    BY HeapAssumption DEF NULL
  <1>4. p < HeapStart /\ HeapStart <= p
    BY <1>2, <1>3, NextIsAdjacent, HeaderTypes DEF Shape
  <1> QED BY <1>3, <1>4, HeaderTypes DEF Shape

(* The pass never absorbs two in a row: it moves past what it absorbed. *)
LEMMA NeverTwoInARow ==
  ASSUME Shape, NEW b, NEW M, Pass(b, M), NEW n \in M, hdr[n].next # NULL
  PROVE  hdr[n].next \in Blocks \ M
PROOF
  <1>1. n \in Blocks
    BY DEF Pass
  <1>2. hdr[n].next \in Blocks
    BY <1>1, NextIsAdjacent
  <1>3. ASSUME hdr[n].next \in M PROVE FALSE
    <2>1. PICK p \in Blocks : hdr[p].next = hdr[n].next /\ p \notin M
      BY <1>2, <1>3, SweepRule DEF Shape
    <2>2. p = n
      BY <1>1, <2>1, NextIsInjective
    <2> QED BY <2>1, <2>2
  <1> QED BY <1>2, <1>3

(* The headers that are left, field by field. *)
LEMMA PassHeaders ==
  ASSUME Shape, NEW b, NEW M, Pass(b, M)
  PROVE  /\ Blocks' = Blocks \ M
         /\ \A a \in Blocks \ M :
              /\ hdr'[a] \in [size : Nat, next : Nat, free : BOOLEAN]
              /\ hdr'[a].free <=> (a = b \/ hdr[a].free)
              /\ hdr[a].next \in M =>
                   /\ hdr'[a].size = hdr[a].size + HDR + hdr[hdr[a].next].size
                   /\ hdr'[a].next = hdr[hdr[a].next].next
              /\ hdr[a].next \notin M => /\ hdr'[a].size = hdr[a].size
                                         /\ hdr'[a].next = hdr[a].next
PROOF
  <1> DEFINE h == Marked(b)
  <1>1. b \in Blocks /\ M \subseteq Blocks /\ hdr' = Coalesce(h, M)
    BY DEF Pass
  <1>2. DOMAIN h = Blocks
    BY <1>1, MarkHeaders DEF Shape
  <1>3. hdr' = [a \in Blocks \ M |->
                  IF h[a].next \in M
                  THEN [size |-> h[a].size + HDR + h[h[a].next].size,
                        next |-> h[h[a].next].next, free |-> h[a].free]
                  ELSE h[a]]
    BY <1>1, <1>2 DEF Coalesce
  <1>4. Blocks' = Blocks \ M
    BY <1>3 DEF Blocks
  <1>5. ASSUME NEW a \in Blocks \ M
        PROVE  /\ hdr'[a] \in [size : Nat, next : Nat, free : BOOLEAN]
               /\ hdr'[a].free <=> (a = b \/ hdr[a].free)
               /\ hdr[a].next \in M =>
                    /\ hdr'[a].size = hdr[a].size + HDR + hdr[hdr[a].next].size
                    /\ hdr'[a].next = hdr[hdr[a].next].next
               /\ hdr[a].next \notin M => /\ hdr'[a].size = hdr[a].size
                                          /\ hdr'[a].next = hdr[a].next
    <2>1. /\ h[a] \in [size : Nat, next : Nat, free : BOOLEAN]
          /\ h[a].size = hdr[a].size /\ h[a].next = hdr[a].next
          /\ h[a].free <=> (a = b \/ hdr[a].free)
      BY <1>1, MarkHeaders DEF Shape
    <2>2. CASE hdr[a].next \in M
      <3> DEFINE n == hdr[a].next
      <3>1. n \in Blocks
        BY <1>1, <2>2
      <3>2. /\ h[n] \in [size : Nat, next : Nat, free : BOOLEAN]
            /\ h[n].size = hdr[n].size /\ h[n].next = hdr[n].next
        BY <1>1, <3>1, MarkHeaders DEF Shape
      <3>3. hdr'[a] = [size |-> hdr[a].size + HDR + hdr[n].size,
                       next |-> hdr[n].next, free |-> h[a].free]
        BY <1>3, <2>1, <2>2, <3>2
      <3>4. hdr[a].size + HDR + hdr[n].size \in Nat /\ hdr[n].next \in Nat
        BY <3>1, HeaderTypes DEF Shape, HDR
      <3>5. h[a].free \in BOOLEAN
        BY <2>1
      <3>6. hdr'[a] \in [size : Nat, next : Nat, free : BOOLEAN]
        BY <3>3, <3>4, <3>5
      <3> QED BY <2>1, <2>2, <3>3, <3>6
    <2>3. CASE hdr[a].next \notin M
      <3>1. hdr'[a] = h[a]
        BY <1>3, <2>1, <2>3
      <3> QED BY <2>1, <2>3, <3>1
    <2> QED BY <2>2, <2>3
  <1> QED BY <1>4, <1>5

(* Where the blocks that are left end: where they ended, or where the one  *)
(* they absorbed did.                                                      *)
LEMMA PassEnds ==
  ASSUME Shape, NEW b, NEW M, Pass(b, M), NEW a \in Blocks \ M
  PROVE  /\ hdr[a].next \in M => /\ hdr[a].next \in Blocks
                                 /\ hdr[a].next = EndOf(a)
                                 /\ EndOf(a)' = EndOf(hdr[a].next)
         /\ hdr[a].next \notin M => EndOf(a)' = EndOf(a)
PROOF
  <1>1. hdr[a].next \notin M => EndOf(a)' = EndOf(a)
    BY PassHeaders DEF EndOf
  <1>2. ASSUME hdr[a].next \in M
        PROVE  /\ hdr[a].next \in Blocks
               /\ hdr[a].next = EndOf(a)
               /\ EndOf(a)' = EndOf(hdr[a].next)
    <2> DEFINE n == hdr[a].next
    <2>1. n \in Blocks
      BY <1>2 DEF Pass
    <2>2. n # NULL
      BY <2>1, HeaderTypes, HeapAssumption DEF Shape, NULL
    <2>3. n = a + HDR + hdr[a].size
      BY <2>2, NextIsAdjacent DEF EndOf
    <2>4. hdr'[a].size = hdr[a].size + HDR + hdr[n].size
      BY <1>2, PassHeaders
    <2>5. a \in Nat /\ hdr[a].size \in Nat /\ hdr[n].size \in Nat
      BY <2>1, HeaderTypes DEF Shape
    <2>6. a + HDR + hdr'[a].size = n + HDR + hdr[n].size
      BY <2>3, <2>4, <2>5 DEF HDR
    <2> QED BY <2>1, <2>3, <2>6 DEF EndOf
  <1> QED BY <1>1, <1>2

(* A pass of kfree over the list leaves the heap tiled. *)
LEMMA PassKeepsTiling ==
  ASSUME Shape, heap_start # NULL, heap_start' = heap_start,
         NEW b, NEW M, Pass(b, M)
  PROVE  Tiled'
PROOF
  <1>1. Blocks' = Blocks \ M /\ HeapStart \in Blocks \ M
    BY PassHeaders, FirstBlockStays DEF Shape, Tiled
  <1>2. \A x, y \in Blocks : x < y => EndOf(x) <= y
    BY DEF Shape, Tiled
  <1>3. \A a \in Blocks : a \in Nat /\ EndOf(a) \in Nat /\ EndOf(a) > a
    BY HeaderTypes DEF Shape, HDR
  <1>4. \A a \in Blocks : IF hdr[a].next = NULL
                          THEN EndOf(a) = HeapEnd
                          ELSE hdr[a].next = EndOf(a) /\ EndOf(a) \in Blocks
    BY DEF Shape, Tiled
  <1>5. ASSUME NEW a \in Blocks \ M
        PROVE  IF hdr'[a].next = NULL
               THEN EndOf(a)' = HeapEnd
               ELSE hdr'[a].next = EndOf(a)' /\ EndOf(a)' \in Blocks \ M
    <2>1. CASE hdr[a].next \in M
      <3>1. hdr[a].next \in Blocks /\ hdr'[a].next = hdr[hdr[a].next].next
        BY <2>1, PassHeaders, PassEnds
      <3>2. hdr'[a].next # NULL => hdr'[a].next \in Blocks \ M
        BY <2>1, <3>1, NeverTwoInARow
      <3>3. EndOf(a)' = EndOf(hdr[a].next)
        BY <2>1, PassEnds
      <3> QED BY <1>4, <3>1, <3>2, <3>3
    <2>2. CASE hdr[a].next \notin M
      <3>1. hdr'[a].next = hdr[a].next /\ EndOf(a)' = EndOf(a)
        BY <2>2, PassHeaders, PassEnds
      <3> QED BY <1>4, <2>2, <3>1
    <2> QED BY <2>1, <2>2
  <1>6. ASSUME NEW x \in Blocks \ M, NEW y \in Blocks \ M, x < y
        PROVE  EndOf(x)' <= y
    <2>1. CASE hdr[x].next \in M
      <3>1. /\ hdr[x].next \in Blocks /\ hdr[x].next = EndOf(x)
            /\ EndOf(x)' = EndOf(hdr[x].next)
        BY <2>1, PassEnds
      <3>2. hdr[x].next < y
        BY <1>2, <1>3, <1>6, <2>1, <3>1
      <3> QED BY <1>2, <3>1, <3>2
    <2>2. CASE hdr[x].next \notin M
      BY <1>2, <1>6, <2>2, PassEnds
    <2> QED BY <2>1, <2>2
  <1> QED BY <1>1, <1>5, <1>6 DEF Tiled

(* Two free neighbours in the list the pass starts from.  Freeing b makes  *)
(* at most two that were not there: b with its successor and b with its    *)
(* predecessor.                                                            *)
MarkedPair(b, a) ==
  /\ a = b \/ hdr[a].free
  /\ hdr[a].next # NULL
  /\ hdr[a].next = b \/ hdr[hdr[a].next].free

(* A pair the pass leaves was three free blocks in a row: it absorbed the  *)
(* middle one and moved past the last.                                     *)
LEMMA LeftoverIsThreeInARow ==
  ASSUME Shape, NEW b, NEW M, Pass(b, M), NEW a \in Blocks \ M, FreePair(a)'
  PROVE  /\ hdr[a].next \in M
         /\ MarkedPair(b, a) /\ MarkedPair(b, hdr[a].next)
PROOF
  <1> DEFINE n == hdr[a].next
  <1>1. M \subseteq Blocks
    BY DEF Pass
  <1>2. \A x \in Blocks \ M : hdr'[x].free <=> (x = b \/ hdr[x].free)
    BY PassHeaders
  <1>3. hdr'[a].free /\ hdr'[a].next # NULL /\ hdr'[hdr'[a].next].free
    BY DEF FreePair
  <1>4. a = b \/ hdr[a].free
    BY <1>2, <1>3
  <1>5. n \in M
    <2> SUFFICES ASSUME n \notin M PROVE FALSE
      OBVIOUS
    <2>1. hdr'[a].next = n
      BY PassHeaders
    <2>2. n \in Blocks \ M
      BY <1>3, <2>1, NextIsAdjacent
    <2>3. n = b \/ hdr[n].free
      BY <1>2, <1>3, <2>1, <2>2
    <2> QED BY <1>4, <2>2, <2>3, SweepRule DEF Shape
  <1>6. n # NULL /\ n \in Blocks /\ (n = b \/ hdr[n].free)
    <2>1. n \in Blocks
      BY <1>1, <1>5
    <2>2. n # NULL
      BY <2>1, HeaderTypes, HeapAssumption DEF Shape, NULL
    <2> QED BY <1>5, <2>1, <2>2, SweepRule DEF Shape
  <1>7. hdr'[a].next = hdr[n].next
    BY <1>5, PassHeaders
  <1>8. hdr[n].next # NULL /\ hdr[n].next \in Blocks \ M
    BY <1>3, <1>5, <1>7, NeverTwoInARow
  <1>9. hdr[n].next = b \/ hdr[hdr[n].next].free
    BY <1>2, <1>3, <1>7, <1>8
  <1> QED BY <1>4, <1>5, <1>6, <1>8, <1>9 DEF MarkedPair

(* Two pairs left over would be four in the list the pass started from:    *)
(* one more than b's two and the one that was there.                       *)
LEMMA PassKeepsOnePair ==
  ASSUME Shape, AtMostOneFreePair, NEW b, NEW M, Pass(b, M)
  PROVE  AtMostOneFreePair'
PROOF
  <1> SUFFICES ASSUME NEW x \in Blocks', NEW y \in Blocks',
                      FreePair(x)', FreePair(y)', x # y
               PROVE  FALSE
    BY DEF AtMostOneFreePair
  <1> DEFINE m == hdr[x].next
             n == hdr[y].next
  <1>1. M \subseteq Blocks /\ x \in Blocks \ M /\ y \in Blocks \ M
    BY PassHeaders DEF Pass
  <1>2. /\ m \in M /\ n \in M
        /\ MarkedPair(b, x) /\ MarkedPair(b, m)
        /\ MarkedPair(b, y) /\ MarkedPair(b, n)
    BY <1>1, LeftoverIsThreeInARow
  <1>3. m # n
    <2>1. m # NULL
      BY <1>2 DEF MarkedPair
    <2> QED BY <1>1, <2>1, NextIsInjective
  <1>4. x # m /\ x # n /\ y # m /\ y # n
    BY <1>1, <1>2
  <1>5. \A a \in Blocks : MarkedPair(b, a) => a = b \/ hdr[a].next = b \/ FreePair(a)
    BY DEF MarkedPair, FreePair
  <1>6. \A a, c \in Blocks : FreePair(a) /\ FreePair(c) => a = c
    BY DEF AtMostOneFreePair
  <1>7. \A a, c \in Blocks : hdr[a].next = b /\ hdr[c].next = b => a = c
    <2>1. b \in Blocks /\ b # NULL
      BY HeaderTypes, HeapAssumption DEF Pass, Shape, NULL
    <2> QED BY <2>1, NextIsInjective
  <1>8. {x, m, y, n} \subseteq Blocks
    BY <1>1, <1>2
  <1> QED BY <1>2, <1>3, <1>4, <1>5, <1>6, <1>7, <1>8
-----------------------------------------------------------------------------
(* The steps that can touch the heap, with what each one does to the list. *)
LEMMA FreeIsPass ==
  ASSUME NEW p, kfree(p)
  PROVE  /\ heap_start # NULL /\ heap_start' = heap_start
         /\ p - HDR \in Blocks
         /\ \E M \in SUBSET Blocks : Pass(p - HDR, M)
PROOF
  <1>1. p - HDR \in Blocks /\ heap_start # NULL /\ heap_start' = heap_start
    BY DEF kfree, releases, is_valid_pointer
  <1>2. PICK M \in SUBSET Blocks : /\ Sweep(Marked(p - HDR), M)
                                   /\ hdr' = Coalesce(Marked(p - HDR), M)
    BY DEF kfree, releases, Marked
  <1> QED BY <1>1, <1>2 DEF Pass

LEMMA MallocIsPlace ==
  ASSUME NEW n \in Requests, kmalloc(n)
  PROVE  /\ heap_start # NULL /\ heap_start' = heap_start
         /\ ALIGN(n) \in Nat
         /\ \E b \in Blocks :
              /\ b \in Fits(ALIGN(n)) /\ hdr' = Place(b, ALIGN(n))
              /\ allocated' = allocated + Cost(hdr', b)
              /\ owned' = [p \in DOMAIN owned \cup {Pointer(b)} |->
                             IF p = Pointer(b) THEN n ELSE owned[p]]
PROOF BY AlignIsNat DEF kmalloc, takes, BestFit

LEMMA InitMakesShape == Init => Shape /\ AtMostOneFreePair
PROOF
  <1> SUFFICES ASSUME Init PROVE Shape /\ AtMostOneFreePair
    OBVIOUS
  <1>1. Blocks = {}
    BY DEF Init, Blocks
  <1>2. TypeOK
    BY <1>1, HeapAssumption DEF Init, TypeOK
  <1>3. Tiled
    BY <1>1 DEF Init, Tiled
  <1>4. AtMostOneFreePair
    BY <1>1 DEF AtMostOneFreePair
  <1> QED BY <1>2, <1>3, <1>4 DEF Shape

LEMMA FirstBlockTiles ==
  ASSUME Shape, mm_init
  PROVE  Shape' /\ AtMostOneFreePair'
PROOF
  <1> DEFINE size == HeapEnd - HeapStart - HDR
  <1>1. /\ heap_start' = HeapStart
        /\ hdr' = [a \in {HeapStart} |-> [size |-> size, next |-> NULL, free |-> TRUE]]
        /\ allocated' = 0 /\ alloc_count' = 0 /\ free_count' = 0 /\ owned' = owned
    BY DEF mm_init
  <1>2. /\ HeapStart \in Nat \ {0} /\ HeapEnd \in Nat /\ size \in Nat /\ MaxAllocs \in Nat
        /\ HeapStart <= HeapEnd
    BY HeapAssumption DEF HDR
  <1>3. Blocks' = {HeapStart}
    BY <1>1 DEF Blocks
  <1>4. hdr'[HeapStart] = [size |-> size, next |-> NULL, free |-> TRUE]
    BY <1>1
  <1>5. hdr' \in [Blocks' -> [size : Nat, next : Nat, free : BOOLEAN]]
    BY <1>1, <1>2, <1>3 DEF NULL
  <1>6. TypeOK'
    <2>1. owned' \in [DOMAIN owned' -> Requests]
      BY <1>1 DEF Shape, TypeOK
    <2>2. Blocks' \subseteq HeapStart..HeapEnd
      BY <1>2, <1>3
    <2> QED BY <1>1, <1>2, <1>5, <2>1, <2>2 DEF TypeOK
  <1>7. EndOf(HeapStart)' = HeapEnd
    BY <1>2, <1>4 DEF EndOf, HDR
  <1>8. Tiled'
    BY <1>1, <1>2, <1>3, <1>4, <1>7 DEF Tiled, NULL
  <1>9. AtMostOneFreePair'
    BY <1>3 DEF AtMostOneFreePair
  <1> QED BY <1>6, <1>8, <1>9 DEF Shape

LEMMA MallocKeepsShape ==
  ASSUME Shape, NEW n \in Requests, kmalloc(n)
  PROVE  Shape'
PROOF
  <1>1. PICK b \in Blocks :
          /\ b \in Fits(ALIGN(n)) /\ hdr' = Place(b, ALIGN(n))
          /\ allocated' = allocated + Cost(hdr', b)
          /\ owned' = [p \in DOMAIN owned \cup {Pointer(b)} |->
                         IF p = Pointer(b) THEN n ELSE owned[p]]
    BY MallocIsPlace
  <1>2. /\ heap_start # NULL /\ heap_start' = heap_start /\ ALIGN(n) \in Nat
    BY MallocIsPlace
  <1>3. Tiled'
    BY <1>1, <1>2, PlaceKeepsTiling
  <1>4. /\ hdr' \in [Blocks' -> [size : Nat, next : Nat, free : BOOLEAN]]
        /\ Blocks \subseteq Blocks' /\ Blocks' \subseteq HeapStart..HeapEnd
    BY <1>1, <1>2, PlaceKeepsTypes DEF Blocks
  <1>5. allocated' \in Int
    <2>1. hdr'[b].size \in Nat
      BY <1>1, <1>4
    <2> QED BY <1>1, <2>1 DEF Cost, Shape, TypeOK, HDR
  <1>6. /\ alloc_count' \in 0..MaxAllocs /\ free_count' \in Nat
    BY HeapAssumption DEF kmalloc, takes, Shape, TypeOK
  <1>7. owned' \in [DOMAIN owned' -> Requests]
    BY <1>1 DEF Shape, TypeOK
  <1>8. TypeOK'
    BY <1>2, <1>4, <1>5, <1>6, <1>7 DEF Shape, TypeOK
  <1> QED BY <1>3, <1>8 DEF Shape

LEMMA FreeKeepsShape ==
  ASSUME Shape, NEW p \in DOMAIN owned, kfree(p)
  PROVE  Shape'
PROOF
  <1> DEFINE b == p - HDR
  <1>1. PICK M \in SUBSET Blocks : Pass(b, M)
    BY FreeIsPass
  <1>2. heap_start # NULL /\ heap_start' = heap_start /\ b \in Blocks
    BY FreeIsPass
  <1>3. Tiled'
    BY <1>1, <1>2, PassKeepsTiling
  <1>4. Blocks' = Blocks \ M
    BY <1>1, PassHeaders
  <1>5. hdr' \in [Blocks' -> [size : Nat, next : Nat, free : BOOLEAN]]
    <2>1. \A a \in Blocks' : hdr'[a] \in [size : Nat, next : Nat, free : BOOLEAN]
      BY <1>1, <1>4, PassHeaders
    <2>2. hdr' = [a \in Blocks' |-> hdr'[a]]
      BY <1>1 DEF Pass, Coalesce, Blocks
    <2> QED BY <2>1, <2>2
  <1>6. allocated' \in Int
    BY <1>2, HeaderTypes DEF kfree, releases, Cost, Shape, TypeOK, HDR
  <1>7. alloc_count' \in 0..MaxAllocs /\ free_count' \in Nat
    BY DEF kfree, releases, Shape, TypeOK
  <1>8. owned' \in [DOMAIN owned' -> Requests]
    BY DEF kfree, releases, Shape, TypeOK
  <1>9. TypeOK'
    BY <1>2, <1>4, <1>5, <1>6, <1>7, <1>8 DEF Shape, TypeOK
  <1> QED BY <1>3, <1>9 DEF Shape

LEMMA UnchangedKeepsHeap ==
  ASSUME UNCHANGED vars
  PROVE  /\ Shape => Shape'
         /\ AtMostOneFreePair => AtMostOneFreePair'
         /\ OwnersHaveTheirBytes => OwnersHaveTheirBytes'
PROOF BY DEF vars, Shape, TypeOK, Tiled, AtMostOneFreePair, FreePair,
             OwnersHaveTheirBytes, Blocks, EndOf, Used, Pointer

LEMMA NextKeepsShape == Shape /\ [Next]_vars => Shape'
PROOF
  <1> SUFFICES ASSUME Shape, [Next]_vars PROVE Shape'
    OBVIOUS
  <1>1. CASE mm_init
    BY <1>1, FirstBlockTiles
  <1>2. ASSUME NEW n \in Requests, kmalloc(n) PROVE Shape'
    BY <1>2, MallocKeepsShape
  <1>3. ASSUME NEW n \in Requests, kmalloc_null(n) PROVE Shape'
    BY <1>3, UnchangedKeepsHeap DEF kmalloc_null
  <1>4. ASSUME NEW p \in DOMAIN owned, kfree(p) PROVE Shape'
    BY <1>4, FreeKeepsShape
  <1>5. ASSUME NEW p \in {NULL, HeapEnd}, kfree_ignored(p) PROVE Shape'
    BY <1>5, UnchangedKeepsHeap DEF kfree_ignored
  <1>6. CASE UNCHANGED vars
    BY <1>6, UnchangedKeepsHeap
  <1> QED BY <1>1, <1>2, <1>3, <1>4, <1>5, <1>6 DEF Next

LEMMA NextKeepsOnePair ==
  Shape /\ AtMostOneFreePair /\ [Next]_vars => AtMostOneFreePair'
PROOF
  <1> SUFFICES ASSUME Shape, AtMostOneFreePair, [Next]_vars PROVE AtMostOneFreePair'
    OBVIOUS
  <1>1. CASE mm_init
    BY <1>1, FirstBlockTiles
  <1>2. ASSUME NEW n \in Requests, kmalloc(n) PROVE AtMostOneFreePair'
    BY <1>2, MallocIsPlace, PlaceKeepsOnePair
  <1>3. ASSUME NEW n \in Requests, kmalloc_null(n) PROVE AtMostOneFreePair'
    BY <1>3, UnchangedKeepsHeap DEF kmalloc_null
  <1>4. ASSUME NEW p \in DOMAIN owned, kfree(p) PROVE AtMostOneFreePair'
    BY <1>4, FreeIsPass, PassKeepsOnePair
  <1>5. ASSUME NEW p \in {NULL, HeapEnd}, kfree_ignored(p) PROVE AtMostOneFreePair'
    BY <1>5, UnchangedKeepsHeap DEF kfree_ignored
  <1>6. CASE UNCHANGED vars
    BY <1>6, UnchangedKeepsHeap
  <1> QED BY <1>1, <1>2, <1>3, <1>4, <1>5, <1>6 DEF Next

(* The headers and counters keep their types, whatever callers ask for.    *)
THEOREM TypeCorrect == Spec => []TypeOK
PROOF
  <1>1. Init => Shape
    BY InitMakesShape
  <1>2. Shape /\ [Next]_vars => Shape'
    BY NextKeepsShape
  <1>3. Shape => TypeOK
    BY DEF Shape
  <1> QED BY <1>1, <1>2, <1>3, PTL DEF Spec

(* The blocks tile the heap for ever: kmalloc's split and kfree's merging  *)
(* pass lose no byte and give none out twice.                              *)
THEOREM BlocksTileTheHeap == Spec => []Tiled
PROOF
  <1>1. Init => Shape
    BY InitMakesShape
  <1>2. Shape /\ [Next]_vars => Shape'
    BY NextKeepsShape
  <1>3. Shape => Tiled
    BY DEF Shape
  <1> QED BY <1>1, <1>2, <1>3, PTL DEF Spec

(* However many blocks were freed in whatever order, one merging pass per  *)
(* kfree leaves at most one pair of neighbours unmerged.                   *)
THEOREM OnePairIsTheMost == Spec => []AtMostOneFreePair
PROOF
  <1> DEFINE IInv == Shape /\ AtMostOneFreePair
  <1>1. Init => IInv
    BY InitMakesShape
  <1>2. IInv /\ [Next]_vars => IInv'
    BY NextKeepsShape, NextKeepsOnePair
  <1> QED BY <1>1, <1>2, PTL DEF Spec
-----------------------------------------------------------------------------
(* Owners: the block a caller holds is long enough and stays used.         *)
UsedBlocks == {a \in Blocks : Used(a)}
PointersAreOwned == {Pointer(a) : a \in UsedBlocks} = DOMAIN owned

(* No two blocks have the same pointer. *)
LEMMA PointersDiffer ==
  ASSUME Shape
  PROVE  \A a, b \in Blocks : Pointer(a) = Pointer(b) => a = b
PROOF BY HeaderTypes DEF Shape, Pointer, HDR

(* kmalloc puts one more block to use, and leaves the used ones alone. *)
LEMMA MallocUsesOneMore ==
  ASSUME Shape, NEW n \in Requests, kmalloc(n)
  PROVE  \E b \in Blocks :
           /\ b \notin UsedBlocks /\ UsedBlocks' = UsedBlocks \cup {b}
           /\ \A a \in UsedBlocks : hdr'[a] = hdr[a]
           /\ hdr[b].size >= ALIGN(n)
           /\ hdr'[b].size = ALIGN(n) \/ hdr'[b].size = hdr[b].size
           /\ allocated' = allocated + Cost(hdr', b)
           /\ owned' = [p \in DOMAIN owned \cup {Pointer(b)} |->
                          IF p = Pointer(b) THEN n ELSE owned[p]]
PROOF
  <1>1. PICK b \in Blocks :
          /\ b \in Fits(ALIGN(n)) /\ hdr' = Place(b, ALIGN(n))
          /\ allocated' = allocated + Cost(hdr', b)
          /\ owned' = [p \in DOMAIN owned \cup {Pointer(b)} |->
                         IF p = Pointer(b) THEN n ELSE owned[p]]
    BY MallocIsPlace
  <1>2. ALIGN(n) \in Nat
    BY AlignIsNat
  <1>3. hdr[b].free /\ hdr[b].size >= ALIGN(n)
    BY <1>1 DEF Fits
  <1>4. /\ Blocks \subseteq Blocks' /\ \A a \in Blocks \ {b} : hdr'[a] = hdr[a]
        /\ ~hdr'[b].free
        /\ \A a \in Blocks' \ Blocks : hdr'[a].free
    <2>1. ~hdr'[b].free /\ \A a \in Blocks \ {b} : hdr'[a] = hdr[a]
      BY <1>1, <1>2, PlaceHeaders
    <2>2. CASE Splits(b, ALIGN(n))
      <3>1. /\ Blocks' = Blocks \cup {Rest(b, ALIGN(n))}
            /\ hdr'[Rest(b, ALIGN(n))].free = TRUE
        BY <1>1, <1>2, <2>2, PlaceHeaders
      <3> QED BY <2>1, <3>1
    <2>3. CASE ~Splits(b, ALIGN(n))
      <3>1. Blocks' = Blocks
        BY <1>1, <1>2, <2>3, PlaceHeaders
      <3> QED BY <2>1, <3>1
    <2> QED BY <2>2, <2>3
  <1>5. hdr'[b].size = ALIGN(n) \/ hdr'[b].size = hdr[b].size
    BY <1>1, <1>2, PlaceHeaders
  <1>6. \A a \in Blocks' : Used(a)' <=> (a = b \/ (a \in Blocks /\ Used(a)))
    BY <1>3, <1>4 DEF Used
  <1>7. b \notin UsedBlocks /\ UsedBlocks' = UsedBlocks \cup {b}
    BY <1>3, <1>4, <1>6 DEF UsedBlocks, Used
  <1>8. \A a \in UsedBlocks : hdr'[a] = hdr[a]
    BY <1>4, <1>7 DEF UsedBlocks
  <1> QED BY <1>1, <1>3, <1>5, <1>7, <1>8

(* kfree takes the caller's block out of use, and leaves the used ones     *)
(* their size.                                                             *)
LEMMA FreeReleasesOne ==
  ASSUME Shape, PointersAreOwned, NEW p \in DOMAIN owned, kfree(p)
  PROVE  /\ p - HDR \in UsedBlocks /\ p = Pointer(p - HDR)
         /\ UsedBlocks' = UsedBlocks \ {p - HDR}
         /\ \A a \in UsedBlocks' : hdr'[a].size = hdr[a].size
PROOF
  <1> DEFINE b == p - HDR
  <1>1. PICK M \in SUBSET Blocks : Pass(b, M)
    BY FreeIsPass
  <1>2. b \in UsedBlocks /\ p = Pointer(b)
    <2>1. PICK a \in UsedBlocks : p = Pointer(a)
      BY DEF PointersAreOwned
    <2>2. a \in Nat
      BY HeaderTypes DEF Shape, UsedBlocks
    <2>3. b = a
      BY <2>1, <2>2 DEF Pointer, HDR
    <2> QED BY <2>1, <2>3
  <1>3. Blocks' = Blocks \ M
    BY <1>1, PassHeaders
  <1>4. ASSUME NEW a \in Blocks, Used(a), a # b
        PROVE  a \in Blocks' /\ hdr'[a].size = hdr[a].size /\ Used(a)'
    <2>1. hdr[a].free = FALSE
      BY <1>4, HeaderTypes DEF Used, Shape
    <2>2. a \notin M
      BY <1>1, <1>4, <2>1, SweepRule DEF Shape
    <2>3. hdr[a].next \notin M
      <3> SUFFICES ASSUME hdr[a].next \in M PROVE FALSE
        OBVIOUS
      <3>1. hdr[a].next \in Blocks
        BY <1>1
      <3>2. hdr[a].next # NULL
        BY <3>1, HeaderTypes, HeapAssumption DEF Shape, NULL
      <3>3. PICK q \in Blocks : hdr[q].next = hdr[a].next /\ (q = b \/ hdr[q].free)
        BY <1>1, <3>1, SweepRule DEF Shape
      <3>4. q = a
        BY <3>2, <3>3, NextIsInjective
      <3> QED BY <1>4, <2>1, <3>3, <3>4
    <2> QED BY <1>1, <1>3, <1>4, <2>1, <2>2, <2>3, PassHeaders DEF Used
  <1>5. ASSUME NEW a \in Blocks', Used(a)'
        PROVE  a \in Blocks /\ Used(a) /\ a # b
    <2>1. a \in Blocks \ M
      BY <1>3, <1>5
    <2>2. hdr'[a].free <=> (a = b \/ hdr[a].free)
      BY <1>1, <2>1, PassHeaders
    <2> QED BY <1>5, <2>1, <2>2 DEF Used
  <1>6. UsedBlocks' = UsedBlocks \ {b}
    BY <1>4, <1>5 DEF UsedBlocks
  <1>7. \A a \in UsedBlocks' : hdr'[a].size = hdr[a].size
    BY <1>4, <1>6 DEF UsedBlocks
  <1> QED BY <1>2, <1>6, <1>7

(* The pointers that callers hold are those of the used blocks. *)
LEMMA NextKeepsPointers ==
  Shape /\ PointersAreOwned /\ [Next]_vars => PointersAreOwned'
PROOF
  <1> SUFFICES ASSUME Shape, PointersAreOwned, [Next]_vars PROVE PointersAreOwned'
    OBVIOUS
  <1> USE DEF PointersAreOwned
  <1>1. CASE mm_init
    <2>1. Blocks = {} /\ Blocks' = {HeapStart} /\ hdr'[HeapStart].free /\ owned' = owned
      BY <1>1 DEF mm_init, Blocks, Shape, Tiled
    <2> QED BY <2>1 DEF UsedBlocks, Used
  <1>2. ASSUME NEW n \in Requests, kmalloc(n) PROVE PointersAreOwned'
    <2>1. PICK b \in Blocks : /\ UsedBlocks' = UsedBlocks \cup {b}
                              /\ DOMAIN owned' = DOMAIN owned \cup {Pointer(b)}
      BY <1>2, MallocUsesOneMore
    <2> QED BY <2>1 DEF Pointer
  <1>3. ASSUME NEW p \in DOMAIN owned, kfree(p) PROVE PointersAreOwned'
    <2>1. /\ p - HDR \in UsedBlocks /\ p = Pointer(p - HDR)
          /\ UsedBlocks' = UsedBlocks \ {p - HDR}
      BY <1>3, FreeReleasesOne
    <2>2. DOMAIN owned' = DOMAIN owned \ {p}
      BY <1>3 DEF kfree, releases
    <2>3. \A a \in UsedBlocks : Pointer(a) = p => a = p - HDR
      BY <2>1, PointersDiffer DEF UsedBlocks
    <2> QED BY <2>1, <2>2, <2>3 DEF Pointer
  <1>4. CASE UNCHANGED vars
    BY <1>4 DEF vars, UsedBlocks, Blocks, Used, Pointer
  <1>5. ASSUME NEW n \in Requests, kmalloc_null(n) PROVE PointersAreOwned'
    BY <1>4, <1>5 DEF kmalloc_null
  <1>6. ASSUME NEW p \in {NULL, HeapEnd}, kfree_ignored(p) PROVE PointersAreOwned'
    BY <1>4, <1>6 DEF kfree_ignored
  <1> QED BY <1>1, <1>2, <1>3, <1>4, <1>5, <1>6 DEF Next

LEMMA MallocKeepsOwners ==
  ASSUME NoWrap, Shape, OwnersHaveTheirBytes, NEW n \in Requests, kmalloc(n)
  PROVE  OwnersHaveTheirBytes'
PROOF
  <1>1. PICK b \in Blocks :
          /\ b \notin UsedBlocks /\ UsedBlocks' = UsedBlocks \cup {b}
          /\ \A a \in UsedBlocks : hdr'[a] = hdr[a]
          /\ hdr[b].size >= ALIGN(n)
          /\ hdr'[b].size = ALIGN(n) \/ hdr'[b].size = hdr[b].size
          /\ owned' = [p \in DOMAIN owned \cup {Pointer(b)} |->
                         IF p = Pointer(b) THEN n ELSE owned[p]]
    BY MallocUsesOneMore
  <1>2. PointersAreOwned /\ PointersAreOwned'
    BY NextKeepsPointers DEF Next, PointersAreOwned, OwnersHaveTheirBytes, UsedBlocks
  <1>3. n <= hdr'[b].size
    <2>1. ALIGN(n) \in Nat /\ n \in Nat /\ n <= ALIGN(n)
      BY AlignIsNat, AlignRoundsUp
    <2> QED BY <1>1, <2>1, HeaderTypes DEF Shape
  <1>4. ASSUME NEW a \in UsedBlocks' PROVE owned'[Pointer(a)] <= hdr'[a].size
    <2>1. CASE a = b
      BY <1>1, <1>3, <2>1
    <2>2. CASE a # b
      <3>1. a \in UsedBlocks /\ a \in Blocks /\ Used(a) /\ hdr'[a] = hdr[a]
        BY <1>1, <2>2 DEF UsedBlocks
      <3>2. Pointer(a) # Pointer(b) /\ Pointer(a) \in DOMAIN owned
        BY <1>2, <2>2, <3>1, PointersDiffer DEF PointersAreOwned
      <3>3. owned'[Pointer(a)] = owned[Pointer(a)]
        BY <1>1, <3>2
      <3> QED BY <3>1, <3>3 DEF OwnersHaveTheirBytes
    <2> QED BY <2>1, <2>2
  <1> QED BY <1>2, <1>4 DEF OwnersHaveTheirBytes, PointersAreOwned, UsedBlocks, Pointer

LEMMA FreeKeepsOwners ==
  ASSUME Shape, OwnersHaveTheirBytes, NEW p \in DOMAIN owned, kfree(p)
  PROVE  OwnersHaveTheirBytes'
PROOF
  <1> DEFINE b == p - HDR
  <1>1. PointersAreOwned /\ PointersAreOwned'
    BY NextKeepsPointers DEF Next, PointersAreOwned, OwnersHaveTheirBytes, UsedBlocks
  <1>2. /\ b \in UsedBlocks /\ p = Pointer(b)
        /\ UsedBlocks' = UsedBlocks \ {b}
        /\ \A a \in UsedBlocks' : hdr'[a].size = hdr[a].size
    BY <1>1, FreeReleasesOne
  <1>3. owned' = [q \in DOMAIN owned \ {p} |-> owned[q]]
    BY DEF kfree, releases
  <1>4. ASSUME NEW a \in UsedBlocks' PROVE owned'[Pointer(a)] <= hdr'[a].size
    <2>1. a \in Blocks /\ Used(a) /\ a # b
      BY <1>2 DEF UsedBlocks
    <2>2. Pointer(a) \in DOMAIN owned \ {p}
      BY <1>1, <1>2, <2>1, PointersDiffer DEF PointersAreOwned, UsedBlocks
    <2>3. owned'[Pointer(a)] = owned[Pointer(a)]
      BY <1>3, <2>2
    <2> QED BY <1>2, <2>1, <2>3 DEF OwnersHaveTheirBytes
  <1> QED BY <1>1, <1>4 DEF OwnersHaveTheirBytes, PointersAreOwned, UsedBlocks, Pointer

LEMMA NextKeepsOwners ==
  NoWrap => (Shape /\ OwnersHaveTheirBytes /\ [Next]_vars => OwnersHaveTheirBytes')
PROOF
  <1> SUFFICES ASSUME NoWrap, Shape, OwnersHaveTheirBytes, [Next]_vars
               PROVE  OwnersHaveTheirBytes'
    OBVIOUS
  <1>1. CASE mm_init
    <2>1. Blocks = {} /\ Blocks' = {HeapStart} /\ hdr'[HeapStart].free /\ owned' = owned
      BY <1>1 DEF mm_init, Blocks, Shape, Tiled
    <2> QED BY <2>1 DEF OwnersHaveTheirBytes, Used
  <1>2. ASSUME NEW n \in Requests, kmalloc(n) PROVE OwnersHaveTheirBytes'
    BY <1>2, MallocKeepsOwners
  <1>3. ASSUME NEW n \in Requests, kmalloc_null(n) PROVE OwnersHaveTheirBytes'
    BY <1>3, UnchangedKeepsHeap DEF kmalloc_null
  <1>4. ASSUME NEW p \in DOMAIN owned, kfree(p) PROVE OwnersHaveTheirBytes'
    BY <1>4, FreeKeepsOwners
  <1>5. ASSUME NEW p \in {NULL, HeapEnd}, kfree_ignored(p) PROVE OwnersHaveTheirBytes'
    BY <1>5, UnchangedKeepsHeap DEF kfree_ignored
  <1>6. CASE UNCHANGED vars
    BY <1>6, UnchangedKeepsHeap
  <1> QED BY <1>1, <1>2, <1>3, <1>4, <1>5, <1>6 DEF Next

(* Unless a request wraps around in ALIGN, every caller's block is used,   *)
(* theirs and long enough until they free it.                              *)
THEOREM OwnersKeepTheirBytes == NoWrap => (Spec => []OwnersHaveTheirBytes)
PROOF
  <1> SUFFICES ASSUME NoWrap PROVE Spec => []OwnersHaveTheirBytes
    OBVIOUS
  <1> DEFINE IInv == Shape /\ OwnersHaveTheirBytes
  <1>1. Init => IInv
    <2>1. Init => OwnersHaveTheirBytes
      BY DEF Init, OwnersHaveTheirBytes, Blocks
    <2> QED BY <2>1, InitMakesShape
  <1>2. IInv /\ [Next]_vars => IInv'
    BY NextKeepsShape, NextKeepsOwners
  <1> QED BY <1>1, <1>2, PTL DEF Spec
-----------------------------------------------------------------------------
(* The statistics.  One call changes the bytes in use by one block.        *)
UsedBytes == UNION {BytesOf(a) : a \in UsedBlocks}

(* Adding an interval to a finite set it does not meet adds its length. *)
LEMMA IntervalAdds ==
  ASSUME NEW S, IsFiniteSet(S), NEW lo \in Int, NEW hi \in Int, lo <= hi,
         S \cap (lo..(hi - 1)) = {}
  PROVE  Cardinality(S \cup (lo..(hi - 1))) = Cardinality(S) + (hi - lo)
PROOF
  <1> DEFINE I == lo..(hi - 1)
  <1>1. IsFiniteSet(I) /\ Cardinality(I) = hi - lo
    <2>1. hi - 1 \in Int /\ (lo > hi - 1 <=> hi - lo = 0) /\ (hi - 1) - lo + 1 = hi - lo
      OBVIOUS
    <2>2. IsFiniteSet(I) /\ Cardinality(I) = IF lo > hi - 1 THEN 0 ELSE (hi - 1) - lo + 1
      BY <2>1, FS_Interval
    <2> QED BY <2>1, <2>2
  <1>2. Cardinality(S \cup I) = Cardinality(S) + Cardinality(I) - Cardinality(S \cap I)
    BY <1>1, FS_Union
  <1>3. Cardinality(S \cap I) = 0
    BY FS_EmptySet
  <1>4. Cardinality(S) \in Nat
    BY FS_CardinalityType
  <1> QED BY <1>1, <1>2, <1>3, <1>4

(* What is in use is finite, and so are the pointers held. *)
LEMMA UsedIsFinite ==
  ASSUME Shape, PointersAreOwned
  PROVE  /\ IsFiniteSet(UsedBytes) /\ IsFiniteSet(DOMAIN owned)
         /\ Cardinality(DOMAIN owned) \in Nat
PROOF
  <1>1. HeapStart \in Nat /\ HeapEnd \in Nat
    BY HeapAssumption
  <1>2. IsFiniteSet(HeapStart..HeapEnd)
    BY <1>1, FS_Interval
  <1>3. ASSUME NEW a \in UsedBlocks
        PROVE  /\ BytesOf(a) \subseteq HeapStart..HeapEnd
               /\ Pointer(a) \in HeapStart..HeapEnd
    <2>1. a \in Blocks
      BY DEF UsedBlocks
    <2>2. a \in Nat /\ HeapStart <= a /\ EndOf(a) \in Nat /\ a + HDR <= EndOf(a)
      BY <2>1, HeaderTypes DEF Shape
    <2>3. EndOf(a) <= HeapEnd
      BY <2>1, EndsInside
    <2> QED BY <1>1, <2>2, <2>3 DEF BytesOf, Pointer, HDR
  <1>4. UsedBytes \in SUBSET (HeapStart..HeapEnd)
    BY <1>3 DEF UsedBytes
  <1>5. DOMAIN owned \in SUBSET (HeapStart..HeapEnd)
    BY <1>3 DEF PointersAreOwned
  <1>6. IsFiniteSet(UsedBytes) /\ IsFiniteSet(DOMAIN owned)
    BY <1>2, <1>4, <1>5, FS_Subset
  <1> QED BY <1>6, FS_CardinalityType

(* Different blocks have no byte in common. *)
LEMMA BytesAreApart ==
  ASSUME Shape, NEW a \in Blocks, NEW b \in Blocks, a # b
  PROVE  BytesOf(a) \cap BytesOf(b) = {}
PROOF
  <1>1. \A x, y \in Blocks : x < y => EndOf(x) <= y
    BY DEF Shape, Tiled
  <1>2. a \in Nat /\ b \in Nat /\ EndOf(a) \in Nat /\ EndOf(b) \in Nat
    BY HeaderTypes DEF Shape
  <1>3. EndOf(a) <= b \/ EndOf(b) <= a
    BY <1>1, <1>2
  <1> QED BY <1>2, <1>3 DEF BytesOf

Counted == Shape /\ PointersAreOwned /\ StatsAddUp

(* The statistics agree with the blocks after a kmalloc. *)
LEMMA MallocKeepsCount ==
  ASSUME Counted, Shape', NEW n \in Requests, kmalloc(n)
  PROVE  StatsAddUp'
PROOF
  <1>1. PICK b \in Blocks :
          /\ b \notin UsedBlocks /\ UsedBlocks' = UsedBlocks \cup {b}
          /\ \A a \in UsedBlocks : hdr'[a] = hdr[a]
          /\ allocated' = allocated + Cost(hdr', b)
          /\ DOMAIN owned' = DOMAIN owned \cup {Pointer(b)}
    BY MallocUsesOneMore DEF Counted
  <1>2. b \in Blocks' /\ UsedBlocks \subseteq Blocks'
    BY <1>1 DEF UsedBlocks
  <1>3. b \in Nat /\ EndOf(b)' \in Nat /\ b <= EndOf(b)' /\ hdr'[b].size \in Nat
    <2>1. b \in Nat /\ hdr'[b].size \in Nat
      BY <1>1, <1>2, HeaderTypes DEF Counted, Shape, TypeOK
    <2> QED BY <2>1 DEF EndOf, HDR
  <1>4. UsedBytes' = UsedBytes \cup (b..(EndOf(b)' - 1))
    <2>1. \A a \in UsedBlocks : BytesOf(a)' = BytesOf(a)
      BY <1>1 DEF BytesOf, EndOf
    <2>2. BytesOf(b)' = b..(EndOf(b)' - 1)
      BY DEF BytesOf
    <2> QED BY <1>1, <2>1, <2>2 DEF UsedBytes
  <1>5. UsedBytes \cap (b..(EndOf(b)' - 1)) = {}
    <2>1. ASSUME NEW a \in UsedBlocks PROVE BytesOf(a) \cap (b..(EndOf(b)' - 1)) = {}
      <3>1. a # b /\ a \in Blocks' /\ b \in Blocks'
        BY <1>1, <1>2
      <3>2. \A x, y \in Blocks' : x < y => EndOf(x)' <= y
        BY DEF Shape, Tiled
      <3>3. a \in Nat /\ EndOf(a)' = EndOf(a) /\ EndOf(a) \in Nat
        BY <1>1, HeaderTypes DEF Counted, Shape, UsedBlocks, EndOf
      <3>4. EndOf(a) <= b \/ EndOf(b)' <= a
        BY <1>3, <3>1, <3>2, <3>3
      <3> QED BY <1>3, <3>3, <3>4 DEF BytesOf
    <2> QED BY <2>1 DEF UsedBytes
  <1>6. Cardinality(UsedBytes') = Cardinality(UsedBytes) + Cost(hdr', b)
    <2>1. IsFiniteSet(UsedBytes)
      BY UsedIsFinite DEF Counted
    <2>2. b \in Int /\ EndOf(b)' \in Int
      BY <1>3
    <2>3. Cardinality(UsedBytes \cup (b..(EndOf(b)' - 1)))
            = Cardinality(UsedBytes) + (EndOf(b)' - b)
      BY <1>3, <1>5, <2>1, <2>2, IntervalAdds
    <2>4. Cardinality(UsedBytes') = Cardinality(UsedBytes) + (EndOf(b)' - b)
      BY <1>4, <2>3
    <2>5. EndOf(b)' - b = Cost(hdr', b)
      BY <1>3 DEF EndOf, Cost, HDR
    <2> QED BY <2>4, <2>5
  <1>7. Cardinality(DOMAIN owned') = Cardinality(DOMAIN owned) + 1
    <2>1. Pointer(b) \notin DOMAIN owned
      BY <1>1, PointersDiffer DEF Counted, PointersAreOwned, UsedBlocks
    <2>2. IsFiniteSet(DOMAIN owned)
      BY UsedIsFinite DEF Counted
    <2> QED BY <1>1, <2>1, <2>2, FS_AddElement
  <1>8. alloc_count' = alloc_count + 1 /\ free_count' = free_count
    BY DEF kmalloc, takes
  <1>9. /\ alloc_count \in Nat /\ free_count \in Nat
        /\ Cardinality(DOMAIN owned) \in Nat
    BY UsedIsFinite, HeapAssumption DEF Counted, Shape, TypeOK
  <1>10. /\ allocated = Cardinality(UsedBytes)
         /\ alloc_count - free_count = Cardinality(DOMAIN owned)
    BY DEF Counted, StatsAddUp, UsedBytes, UsedBlocks
  <1>11. allocated' = Cardinality(UsedBytes')
    BY <1>1, <1>6, <1>10
  <1>12. alloc_count' - free_count' = Cardinality(DOMAIN owned')
    BY <1>7, <1>8, <1>9, <1>10
  <1> QED BY <1>11, <1>12 DEF StatsAddUp, UsedBytes, UsedBlocks

LEMMA FreeKeepsCount ==
  ASSUME Counted, NEW p \in DOMAIN owned, kfree(p)
  PROVE  StatsAddUp'
PROOF
  <1> DEFINE b == p - HDR
  <1>1. /\ b \in UsedBlocks /\ p = Pointer(b)
        /\ UsedBlocks' = UsedBlocks \ {b}
        /\ \A a \in UsedBlocks' : hdr'[a].size = hdr[a].size
    BY FreeReleasesOne DEF Counted
  <1>2. /\ DOMAIN owned' = DOMAIN owned \ {p}
        /\ allocated' = allocated - Cost(hdr, b)
        /\ free_count' = free_count + 1 /\ alloc_count' = alloc_count
    BY DEF kfree, releases
  <1>3. /\ b \in Nat /\ hdr[b].size \in Nat /\ EndOf(b) \in Nat /\ b <= EndOf(b)
    BY <1>1, HeaderTypes DEF Counted, Shape, UsedBlocks, HDR
  <1>4. UsedBytes = UsedBytes' \cup (b..(EndOf(b) - 1))
    <2>1. \A a \in UsedBlocks' : BytesOf(a)' = BytesOf(a)
      BY <1>1 DEF BytesOf, EndOf
    <2>2. BytesOf(b) = b..(EndOf(b) - 1)
      BY DEF BytesOf
    <2> QED BY <1>1, <2>1, <2>2 DEF UsedBytes
  <1>5. UsedBytes' \cap (b..(EndOf(b) - 1)) = {}
    <2>1. ASSUME NEW a \in UsedBlocks' PROVE BytesOf(a)' \cap (b..(EndOf(b) - 1)) = {}
      <3>1. a # b /\ a \in Blocks /\ b \in Blocks
        BY <1>1 DEF UsedBlocks
      <3>2. BytesOf(a)' = BytesOf(a)
        BY <1>1 DEF BytesOf, EndOf
      <3> QED BY <3>1, <3>2, BytesAreApart DEF BytesOf, Counted
    <2> QED BY <2>1 DEF UsedBytes
  <1>6. Cardinality(UsedBytes) = Cardinality(UsedBytes') + Cost(hdr, b)
    <2>1. IsFiniteSet(UsedBytes')
      BY <1>4, UsedIsFinite, FS_Subset DEF Counted
    <2>2. b \in Int /\ EndOf(b) \in Int
      BY <1>3
    <2>3. Cardinality(UsedBytes' \cup (b..(EndOf(b) - 1)))
            = Cardinality(UsedBytes') + (EndOf(b) - b)
      BY <1>3, <1>5, <2>1, <2>2, IntervalAdds
    <2>4. Cardinality(UsedBytes) = Cardinality(UsedBytes') + (EndOf(b) - b)
      BY <1>4, <2>3
    <2>5. EndOf(b) - b = Cost(hdr, b)
      BY <1>3 DEF EndOf, Cost, HDR
    <2> QED BY <2>4, <2>5
  <1>7. Cardinality(DOMAIN owned') = Cardinality(DOMAIN owned) - 1
    <2>1. IsFiniteSet(DOMAIN owned)
      BY UsedIsFinite DEF Counted
    <2> QED BY <1>2, <2>1, FS_RemoveElement
  <1>8. /\ alloc_count \in Nat /\ free_count \in Nat
        /\ Cardinality(DOMAIN owned) \in Nat /\ Cardinality(UsedBytes') \in Nat
    <2>1. IsFiniteSet(UsedBytes')
      BY <1>4, UsedIsFinite, FS_Subset DEF Counted
    <2> QED BY <2>1, UsedIsFinite, FS_CardinalityType, HeapAssumption DEF Counted, Shape, TypeOK
  <1>9. /\ allocated = Cardinality(UsedBytes)
        /\ alloc_count - free_count = Cardinality(DOMAIN owned)
    BY DEF Counted, StatsAddUp, UsedBytes, UsedBlocks
  <1>10. Cost(hdr, b) \in Nat
    BY <1>3 DEF Cost, HDR
  <1>11. allocated' = Cardinality(UsedBytes')
    BY <1>2, <1>6, <1>8, <1>9, <1>10
  <1>12. alloc_count' - free_count' = Cardinality(DOMAIN owned')
    BY <1>2, <1>7, <1>8, <1>9
  <1> QED BY <1>11, <1>12 DEF StatsAddUp, UsedBytes, UsedBlocks

LEMMA NextKeepsCount ==
  Counted /\ [Next]_vars => StatsAddUp'
PROOF
  <1> SUFFICES ASSUME Counted, [Next]_vars PROVE StatsAddUp'
    OBVIOUS
  <1>1. CASE mm_init
    <2>1. /\ Blocks = {} /\ Blocks' = {HeapStart} /\ hdr'[HeapStart].free
          /\ owned' = owned /\ allocated' = 0 /\ alloc_count' = 0 /\ free_count' = 0
      BY <1>1 DEF mm_init, Blocks, Counted, Shape, Tiled
    <2>2. DOMAIN owned = {} /\ UsedBlocks' = {}
      BY <2>1 DEF Counted, PointersAreOwned, UsedBlocks, Used
    <2>3. UsedBytes' = {}
      BY <2>2 DEF UsedBytes
    <2>4. /\ allocated' = Cardinality(UsedBytes')
          /\ alloc_count' - free_count' = Cardinality(DOMAIN owned')
      BY <2>1, <2>2, <2>3, FS_EmptySet
    <2> QED BY <2>4 DEF StatsAddUp, UsedBytes, UsedBlocks
  <1>2. ASSUME NEW n \in Requests, kmalloc(n) PROVE StatsAddUp'
    BY <1>2, MallocKeepsCount, MallocKeepsShape DEF Counted
  <1>3. ASSUME NEW p \in DOMAIN owned, kfree(p) PROVE StatsAddUp'
    BY <1>3, FreeKeepsCount
  <1>4. CASE UNCHANGED vars
    BY <1>4 DEF vars, Counted, StatsAddUp, Blocks, Used, BytesOf, EndOf
  <1>5. ASSUME NEW n \in Requests, kmalloc_null(n) PROVE StatsAddUp'
    BY <1>4, <1>5 DEF kmalloc_null
  <1>6. ASSUME NEW p \in {NULL, HeapEnd}, kfree_ignored(p) PROVE StatsAddUp'
    BY <1>4, <1>6 DEF kfree_ignored
  <1> QED BY <1>1, <1>2, <1>3, <1>4, <1>5, <1>6 DEF Next

(* mm_print_stats tells the truth after any sequence of calls: allocated   *)
(* is the number of bytes that the used blocks cover, the difference of    *)
(* the counts the number of pointers that callers hold.                    *)
THEOREM StatsStayExact == Spec => []StatsAddUp
PROOF
  <1>1. Init => Counted
    <2> SUFFICES ASSUME Init PROVE Counted
      OBVIOUS
    <2>1. Blocks = {} /\ DOMAIN owned = {}
      BY DEF Init, Blocks
    <2>2. /\ UsedBlocks = {}
          /\ UNION {BytesOf(a) : a \in {x \in Blocks : Used(x)}} = {}
      BY <2>1 DEF UsedBlocks
    <2>3. StatsAddUp
      BY <2>1, <2>2, FS_EmptySet DEF Init, StatsAddUp
    <2>4. PointersAreOwned
      BY <2>1, <2>2 DEF PointersAreOwned
    <2> QED BY <2>3, <2>4, InitMakesShape DEF Counted
  <1>2. Counted /\ [Next]_vars => Counted'
    BY NextKeepsShape, NextKeepsPointers, NextKeepsCount DEF Counted
  <1>3. Counted => StatsAddUp
    BY DEF Counted
  <1> QED BY <1>1, <1>2, <1>3, PTL DEF Spec
-----------------------------------------------------------------------------
(* Every header, and so every pointer handed out, is aligned. *)
Aligned == \A a \in Blocks : a % ALIGNMENT = 0 /\ hdr[a].size % ALIGNMENT = 0

LEMMA MallocKeepsAligned ==
  ASSUME Shape, Aligned, NEW n \in Requests, kmalloc(n)
  PROVE  Aligned'
PROOF
  <1>1. PICK b \in Blocks : b \in Fits(ALIGN(n)) /\ hdr' = Place(b, ALIGN(n))
    BY MallocIsPlace
  <1>2. ALIGN(n) \in Nat /\ ALIGN(n) % 8 = 0
    BY AlignIsNat DEF ALIGNMENT
  <1>3. /\ b \in Nat /\ hdr[b].size \in Nat /\ b % 8 = 0 /\ hdr[b].size % 8 = 0
    BY HeaderTypes DEF Shape, Aligned, ALIGNMENT
  <1>4. \A a \in Blocks \ {b} : hdr'[a] = hdr[a]
    BY <1>1, <1>2, PlaceHeaders
  <1>5. CASE Splits(b, ALIGN(n))
    <2> DEFINE rest == Rest(b, ALIGN(n))
    <2>1. /\ Blocks' = Blocks \cup {rest}
          /\ hdr'[b].size = ALIGN(n)
          /\ hdr'[rest].size = Remaining(b, ALIGN(n)) - HDR
      BY <1>1, <1>2, <1>5, PlaceHeaders
    <2>2. rest % 8 = 0
      BY <1>2, <1>3 DEF Rest, HDR
    <2>3. hdr'[rest].size % 8 = 0
      BY <1>2, <1>3, <2>1 DEF Remaining, HDR
    <2> QED BY <1>2, <1>4, <2>1, <2>2, <2>3 DEF Aligned, ALIGNMENT
  <1>6. CASE ~Splits(b, ALIGN(n))
    <2>1. Blocks' = Blocks /\ hdr'[b].size = hdr[b].size
      BY <1>1, <1>2, <1>6, PlaceHeaders
    <2> QED BY <1>4, <2>1 DEF Aligned
  <1> QED BY <1>5, <1>6

LEMMA FreeKeepsAligned ==
  ASSUME Shape, Aligned, NEW p \in DOMAIN owned, kfree(p)
  PROVE  Aligned'
PROOF
  <1>1. PICK M \in SUBSET Blocks : Pass(p - HDR, M)
    BY FreeIsPass
  <1>2. Blocks' = Blocks \ M
    BY <1>1, PassHeaders
  <1>3. ASSUME NEW a \in Blocks \ M PROVE hdr'[a].size % 8 = 0
    <2>1. hdr[a].size \in Nat /\ hdr[a].size % 8 = 0
      BY HeaderTypes DEF Shape, Aligned, ALIGNMENT
    <2>2. CASE hdr[a].next \in M
      <3>1. /\ hdr[a].next \in Blocks
            /\ hdr'[a].size = hdr[a].size + 16 + hdr[hdr[a].next].size
        BY <1>1, <2>2, PassHeaders DEF HDR
      <3>2. hdr[hdr[a].next].size \in Nat /\ hdr[hdr[a].next].size % 8 = 0
        BY <3>1, HeaderTypes DEF Shape, Aligned, ALIGNMENT
      <3> QED BY <2>1, <3>1, <3>2
    <2>3. CASE hdr[a].next \notin M
      BY <1>1, <2>1, <2>3, PassHeaders
    <2> QED BY <2>2, <2>3
  <1> QED BY <1>2, <1>3 DEF Aligned, ALIGNMENT

LEMMA NextKeepsAligned == Shape /\ Aligned /\ [Next]_vars => Aligned'
PROOF
  <1> SUFFICES ASSUME Shape, Aligned, [Next]_vars PROVE Aligned'
    OBVIOUS
  <1>0. hdr' = hdr => Aligned'
    BY DEF Aligned, Blocks
  <1>1. CASE mm_init
    <2>1. Blocks' = {HeapStart} /\ hdr'[HeapStart].size = HeapEnd - HeapStart - HDR
      BY <1>1 DEF mm_init, Blocks
    <2>2. /\ HeapStart \in Nat /\ HeapEnd \in Nat
          /\ HeapStart % 8 = 0 /\ HeapEnd % 8 = 0 /\ HeapStart + HDR <= HeapEnd
      BY HeapAssumption DEF ALIGNMENT
    <2>3. (HeapEnd - HeapStart - 16) % 8 = 0
      BY <2>2
    <2> QED BY <2>1, <2>2, <2>3 DEF Aligned, ALIGNMENT, HDR
  <1>2. ASSUME NEW n \in Requests, kmalloc(n) PROVE Aligned'
    BY <1>2, MallocKeepsAligned
  <1>3. ASSUME NEW n \in Requests, kmalloc_null(n) PROVE Aligned'
    BY <1>0, <1>3 DEF kmalloc_null, vars
  <1>4. ASSUME NEW p \in DOMAIN owned, kfree(p) PROVE Aligned'
    BY <1>4, FreeKeepsAligned
  <1>5. ASSUME NEW p \in {NULL, HeapEnd}, kfree_ignored(p) PROVE Aligned'
    BY <1>0, <1>5 DEF kfree_ignored, vars
  <1>6. CASE UNCHANGED vars
    BY <1>0, <1>6 DEF vars
  <1> QED BY <1>1, <1>2, <1>3, <1>4, <1>5, <1>6 DEF Next

(* A successful kmalloc is the promised Alloc: what it hands out meets     *)
(* nothing that anybody holds.                                             *)
LEMMA MallocKeepsPromise ==
  ASSUME NoWrap, Shape, Aligned, OwnersHaveTheirBytes,
         NEW n \in Requests, kmalloc(n)
  PROVE  Promise!Next
PROOF
  <1>1. PICK b \in Blocks :
          /\ b \in Fits(ALIGN(n)) /\ hdr' = Place(b, ALIGN(n))
          /\ owned' = [p \in DOMAIN owned \cup {Pointer(b)} |->
                         IF p = Pointer(b) THEN n ELSE owned[p]]
    BY MallocIsPlace
  <1> DEFINE p == Pointer(b)
  <1>2. /\ n \in Nat /\ n <= ALIGN(n) /\ ALIGN(n) \in Nat
        /\ hdr[b].free /\ ALIGN(n) <= hdr[b].size
    BY <1>1, AlignIsNat, AlignRoundsUp DEF Fits
  <1>3. /\ b \in Nat /\ hdr[b].size \in Nat /\ HeapStart <= b
        /\ EndOf(b) = b + 16 + hdr[b].size /\ EndOf(b) <= HeapEnd /\ b % 8 = 0
        /\ HeapStart \in Nat /\ HeapEnd \in Nat /\ p = b + 16
    BY HeaderTypes, EndsInside, HeapAssumption
    DEF Shape, Aligned, EndOf, Pointer, HDR, ALIGNMENT
  <1>4. p + n <= HeapEnd /\ p + n <= EndOf(b)
    BY <1>2, <1>3
  <1>5. p \in Promise!Address
    <2>1. p \in HeapStart..HeapEnd /\ p % 8 = 0
      BY <1>2, <1>3, <1>4
    <2> QED BY <2>1 DEF Promise!Address, ALIGNMENT
  <1>6. \A q \in DOMAIN owned : \E a \in Blocks : /\ Used(a) /\ q = Pointer(a)
                                                  /\ owned[q] <= hdr[a].size
    BY DEF OwnersHaveTheirBytes
  <1>7. \A q \in DOMAIN owned : q # p /\ Promise!Apart(p, n, q, owned[q])
    <2> SUFFICES ASSUME NEW q \in DOMAIN owned
                 PROVE  q # p /\ Promise!Apart(p, n, q, owned[q])
      OBVIOUS
    <2>1. PICK a \in Blocks : Used(a) /\ q = Pointer(a) /\ owned[q] <= hdr[a].size
      BY <1>6
    <2>2. owned[q] \in Nat
      BY HeapAssumption DEF Shape, TypeOK
    <2>3. /\ a \in Nat /\ hdr[a].size \in Nat /\ EndOf(a) = a + 16 + hdr[a].size
          /\ q = a + 16
      BY <2>1, HeaderTypes DEF Shape, EndOf, Pointer, HDR
    <2>4. a # b
      BY <1>2, <2>1 DEF Used
    <2>5. EndOf(a) <= b \/ EndOf(b) <= a
      <3>1. \A x, y \in Blocks : x < y => EndOf(x) <= y
        BY DEF Shape, Tiled
      <3>2. a < b \/ b < a
        BY <1>3, <2>3, <2>4
      <3> QED BY <3>1, <3>2
    <2>6. p + n <= q \/ q + owned[q] <= p
      BY <1>2, <1>3, <1>4, <2>1, <2>2, <2>3, <2>5
    <2>7. q # p
      BY <1>3, <2>3, <2>4
    <2> QED BY <2>6, <2>7 DEF Promise!Apart
  <1>8. Promise!Alloc(p, n)
    BY <1>1, <1>4, <1>7 DEF Promise!Alloc
  <1> QED BY <1>5, <1>8 DEF Promise!Next

(* Unless a request wraps around in ALIGN, kmalloc and kfree implement the *)
(* allocator their callers rely on.                                        *)
THEOREM HeapKeepsPromise == NoWrap => (Spec => KeepsPromise)
PROOF
  <1> SUFFICES ASSUME NoWrap PROVE Spec => KeepsPromise
    OBVIOUS
  <1> DEFINE IInv == Shape /\ Aligned /\ OwnersHaveTheirBytes
  <1>1. Init => IInv
    <2>1. Init => OwnersHaveTheirBytes /\ Aligned
      BY DEF Init, OwnersHaveTheirBytes, Aligned, Blocks
    <2> QED BY <2>1, InitMakesShape
  <1>2. IInv /\ [Next]_vars => IInv'
    BY NextKeepsShape, NextKeepsOwners, NextKeepsAligned
  <1>3. Init => Promise!Init
    BY DEF Init, Promise!Init
  <1>4. IInv /\ [Next]_vars => [Promise!Next]_owned
    <2> SUFFICES ASSUME IInv, [Next]_vars PROVE Promise!Next \/ UNCHANGED owned
      OBVIOUS
    <2>1. CASE mm_init
      BY <2>1 DEF mm_init
    <2>2. ASSUME NEW n \in Requests, kmalloc(n) PROVE Promise!Next
      BY <2>2, MallocKeepsPromise
    <2>3. ASSUME NEW n \in Requests, kmalloc_null(n) PROVE UNCHANGED owned
      BY <2>3 DEF kmalloc_null, vars
    <2>4. ASSUME NEW p \in DOMAIN owned, kfree(p) PROVE Promise!Next
      BY <2>4 DEF kfree, releases, Promise!Next, Promise!Free
    <2>5. ASSUME NEW p \in {NULL, HeapEnd}, kfree_ignored(p) PROVE UNCHANGED owned
      BY <2>5 DEF kfree_ignored, vars
    <2>6. CASE UNCHANGED vars
      BY <2>6 DEF vars
    <2> QED BY <2>1, <2>2, <2>3, <2>4, <2>5, <2>6 DEF Next
  <1> QED BY <1>1, <1>2, <1>3, <1>4, PTL DEF Spec, KeepsPromise, Promise!Spec
-----------------------------------------------------------------------------
(* The loops of module HeapLoops.  What the search has seen is the blocks  *)
(* before its cursor, and best_fit is the best of those.                   *)
Passed(a) == current = NULL \/ a < current
Seen(n) == {a \in Fits(n) : Passed(a)}
BestSeen(n) ==
  /\ best_fit = NULL => Seen(n) = {}
  /\ best_fit # NULL =>
       /\ best_fit \in Seen(n)
       /\ \A a \in Seen(n) : \/ hdr[best_fit].size < hdr[a].size
                             \/ hdr[best_fit].size = hdr[a].size /\ best_fit <= a
SearchSoFar ==
  stage = "search" =>
    /\ asked \in Requests \ {0} /\ heap_start # NULL /\ alloc_count < MaxAllocs
    /\ current \in Blocks \cup {NULL}
    /\ BestSeen(ALIGN(asked))

(* What the merge has passed is swept as Sweep says, and the headers still *)
(* on the list are those Coalesce gives for what is unlinked so far.       *)
Swept(h, a) ==
  a \in unlinked <=> \E p \in Blocks : /\ h[p].next = a
                                       /\ h[p].free /\ h[a].free
                                       /\ p \notin unlinked
Merged(h) ==
  /\ \A a \in Blocks \ unlinked : headers[a] = Coalesce(h, unlinked)[a]
  /\ \A a \in Blocks : Passed(a) \/ a = current => Swept(h, a)
MergeSoFar ==
  stage = "merge" =>
    /\ asked \in DOMAIN owned /\ is_valid_pointer(asked)
    /\ current \in (Blocks \ unlinked) \cup {NULL}
    /\ unlinked \subseteq Blocks /\ \A a \in unlinked : Passed(a)
    /\ DOMAIN headers = Blocks
    /\ Merged(Marked(asked - HDR))

LoopIInv == Shape /\ SearchSoFar /\ MergeSoFar

(* The blocks before a's successor are those up to a: the list has no      *)
(* block between the two, and none after the last.                         *)
LEMMA NextIsTheNext ==
  ASSUME Shape, NEW a \in Blocks, NEW x \in Blocks
  PROVE  hdr[a].next = NULL \/ x < hdr[a].next <=> x <= a
PROOF
  <1>1. a \in Nat /\ x \in Nat /\ EndOf(a) \in Nat /\ EndOf(x) >= x + HDR /\ EndOf(x) \in Nat
    BY HeaderTypes DEF Shape
  <1>2. a < x => EndOf(a) <= x
    BY DEF Shape, Tiled
  <1>3. CASE hdr[a].next = NULL
    <2>1. EndOf(a) = HeapEnd /\ EndOf(x) <= HeapEnd
      BY <1>3, EndsInside DEF Shape, Tiled
    <2> QED BY <1>1, <1>2, <1>3, <2>1 DEF HDR
  <1>4. CASE hdr[a].next # NULL
    <2>1. hdr[a].next = EndOf(a) /\ a < hdr[a].next
      BY <1>4, NextIsAdjacent
    <2> QED BY <1>1, <1>2, <1>4, <2>1
  <1> QED BY <1>3, <1>4

(* Both loops start at the block nothing is before and nothing leads to.   *)
LEMMA FirstIsFirst ==
  ASSUME Shape, heap_start # NULL
  PROVE  /\ first_block \in Blocks /\ first_block # NULL
         /\ \A x \in Blocks : ~(x < first_block) /\ hdr[x].next # first_block
PROOF
  <1>1. first_block = HeapStart /\ first_block \in Blocks /\ HeapStart \in Nat \ {0}
    BY HeapAssumption DEF first_block, Shape, TypeOK, Tiled
  <1>2. \A x \in Blocks : x \in Nat /\ HeapStart <= x
    BY HeaderTypes DEF Shape
  <1>3. \A x \in Blocks : hdr[x].next # NULL => x < hdr[x].next
    BY NextIsAdjacent
  <1> QED BY <1>1, <1>2, <1>3 DEF NULL

LEMMA NullIsNoBlock ==
  ASSUME Shape PROVE NULL \notin Blocks
PROOF BY HeapAssumption, HeaderTypes DEF Shape, NULL

(* The search.                                                             *)
LEMMA CallStartsSearch ==
  ASSUME Shape, NEW n \in Requests, kmalloc_called(n)
  PROVE  SearchSoFar'
PROOF
  <1>1. /\ n # 0 /\ heap_start # NULL /\ alloc_count < MaxAllocs
        /\ asked' = n /\ current' = first_block /\ best_fit' = NULL
        /\ heap_start' = heap_start /\ alloc_count' = alloc_count /\ hdr' = hdr
    BY DEF kmalloc_called, vars
  <1>2. /\ first_block \in Blocks /\ first_block # NULL
        /\ \A x \in Blocks : ~(x < first_block)
    BY <1>1, FirstIsFirst
  <1>3. ASSUME NEW s PROVE Seen(s)' = {}
    BY <1>1, <1>2 DEF Seen, Passed, Fits, Blocks
  <1>4. BestSeen(ALIGN(asked))'
    BY <1>1, <1>3 DEF BestSeen
  <1> QED BY <1>1, <1>2, <1>4 DEF SearchSoFar, Blocks

(* An iteration adds the block under the cursor to what has been seen.     *)
LEMMA SearchSeesOneMore ==
  ASSUME Shape, current \in Blocks, current' = hdr[current].next, hdr' = hdr, NEW s
  PROVE  Seen(s)' = Seen(s) \cup ({current} \cap Fits(s))
PROOF
  <1>1. current # NULL
    BY NullIsNoBlock
  <1>2. \A x \in Blocks : Passed(x)' <=> x <= current
    BY NextIsTheNext DEF Passed
  <1>3. \A x \in Blocks : x <= current <=> Passed(x) \/ x = current
    BY <1>1, HeaderTypes DEF Passed, Shape
  <1>4. Fits(s)' = Fits(s) /\ Fits(s) \subseteq Blocks
    BY DEF Fits, Blocks
  <1> QED BY <1>2, <1>3, <1>4 DEF Seen

LEMMA SearchKeepsBest ==
  ASSUME Shape, current \in Blocks, current' = hdr[current].next, hdr' = hdr,
         NEW s \in Nat, BestSeen(s),
         best_fit' = IF Improves(s) THEN current ELSE best_fit
  PROVE  BestSeen(s)'
PROOF
  <1>1. Seen(s)' = Seen(s) \cup ({current} \cap Fits(s))
    BY SearchSeesOneMore
  <1>2. /\ current # NULL /\ current \in Nat /\ hdr[current].size \in Nat
        /\ \A x \in Seen(s) : /\ x \in Blocks /\ x \in Nat /\ hdr[x].size \in Nat
                              /\ x < current
    BY NullIsNoBlock, HeaderTypes DEF Shape, Seen, Passed, Fits
  <1>3. current \in Fits(s) <=> hdr[current].free /\ hdr[current].size >= s
    BY DEF Fits
  <1>4. CASE Improves(s)
    <2>1. best_fit' = current /\ current \in Fits(s)
      BY <1>3, <1>4 DEF Improves
    <2>2. best_fit = NULL \/ hdr[current].size < hdr[best_fit].size
      BY <1>4 DEF Improves
    <2>3. \A x \in Seen(s) : hdr[current].size < hdr[x].size
      BY <1>2, <2>2 DEF BestSeen
    <2> QED BY <1>1, <1>2, <2>1, <2>3 DEF BestSeen
  <1>5. CASE ~Improves(s)
    <2>1. best_fit' = best_fit
      BY <1>5
    <2>2. CASE current \notin Fits(s)
      BY <1>1, <2>1, <2>2 DEF BestSeen
    <2>3. CASE current \in Fits(s)
      <3>1. best_fit # NULL /\ ~(hdr[current].size < hdr[best_fit].size)
        BY <1>3, <1>5, <2>3 DEF Improves
      <3>2. best_fit \in Seen(s)
        BY <3>1 DEF BestSeen
      <3>3. \/ hdr[best_fit].size < hdr[current].size
            \/ hdr[best_fit].size = hdr[current].size /\ best_fit <= current
        BY <1>2, <3>1, <3>2
      <3> QED BY <1>1, <2>1, <3>1, <3>2, <3>3 DEF BestSeen
    <2> QED BY <2>2, <2>3
  <1> QED BY <1>4, <1>5

LEMMA SearchGoesOn ==
  ASSUME LoopIInv, search
  PROVE  SearchSoFar'
PROOF
  <1>1. /\ stage = "search" /\ current # NULL
        /\ best_fit' = IF Improves(ALIGN(asked)) THEN current ELSE best_fit
        /\ current' = hdr[current].next /\ asked' = asked
        /\ heap_start' = heap_start /\ alloc_count' = alloc_count /\ hdr' = hdr
    BY DEF search, vars
  <1>2. /\ asked \in Requests \ {0} /\ heap_start # NULL /\ alloc_count < MaxAllocs
        /\ current \in Blocks /\ BestSeen(ALIGN(asked)) /\ Shape
    BY <1>1 DEF LoopIInv, SearchSoFar
  <1>3. ALIGN(asked) \in Nat
    BY <1>2, AlignIsNat
  <1>4. \A s \in Nat : /\ BestSeen(s)
                       /\ best_fit' = IF Improves(s) THEN current ELSE best_fit
                       => BestSeen(s)'
    BY <1>1, <1>2, SearchKeepsBest
  <1>5. BestSeen(ALIGN(asked))'
    BY <1>1, <1>2, <1>3, <1>4
  <1>6. current' \in Blocks' \cup {NULL}
    BY <1>1, <1>2, NextIsAdjacent DEF Blocks
  <1> QED BY <1>1, <1>2, <1>5, <1>6 DEF SearchSoFar

(* At the end of the list everything has been seen.                        *)
LEMMA SearchFindsTheBest ==
  ASSUME LoopIInv, kmalloc_returns
  PROVE  kmalloc(asked)
PROOF
  <1>1. /\ stage = "search" /\ current = NULL /\ best_fit # NULL
        /\ takes(best_fit, asked)
    BY DEF kmalloc_returns
  <1>2. /\ asked # 0 /\ heap_start # NULL /\ alloc_count < MaxAllocs
        /\ BestSeen(ALIGN(asked))
    BY <1>1 DEF LoopIInv, SearchSoFar
  <1>3. \A s : Seen(s) = Fits(s)
    BY <1>1 DEF Seen, Passed
  <1>4. BestFit(best_fit, ALIGN(asked))
    BY <1>1, <1>2, <1>3 DEF BestSeen, BestFit
  <1>5. best_fit \in Blocks
    BY <1>4 DEF BestFit, Fits
  <1> QED BY <1>1, <1>2, <1>4, <1>5 DEF kmalloc

LEMMA SearchFindsNone ==
  ASSUME LoopIInv, kmalloc_fails
  PROVE  kmalloc_null(asked) /\ asked \in Requests
PROOF
  <1>1. stage = "search" /\ current = NULL /\ best_fit = NULL /\ UNCHANGED vars
    BY DEF kmalloc_fails
  <1>2. BestSeen(ALIGN(asked)) /\ asked \in Requests
    BY <1>1 DEF LoopIInv, SearchSoFar
  <1>3. \A s : Seen(s) = Fits(s)
    BY <1>1 DEF Seen, Passed
  <1> QED BY <1>1, <1>2, <1>3 DEF BestSeen, kmalloc_null
-----------------------------------------------------------------------------
(* The merge.  h is the list as kfree has marked it; what is behind the    *)
(* cursor differs from it, the header under the cursor and those after it  *)
(* do not.                                                                 *)
ListLike(h) ==
  /\ DOMAIN h = Blocks
  /\ \A a \in Blocks : h[a].next = hdr[a].next /\ h[a].free \in BOOLEAN

LEMMA CallStartsMerge ==
  ASSUME Shape, NEW p \in DOMAIN owned, kfree_called(p)
  PROVE  MergeSoFar'
PROOF
  <1> DEFINE h == Marked(p - HDR)
  <1>1. /\ is_valid_pointer(p) /\ asked' = p /\ headers' = h /\ unlinked' = {}
        /\ current' = first_block
        /\ heap_start' = heap_start /\ hdr' = hdr /\ owned' = owned
    BY DEF kfree_called, vars
  <1>2. p - HDR \in Blocks /\ heap_start # NULL
    BY <1>1 DEF is_valid_pointer
  <1>3. /\ first_block \in Blocks /\ first_block # NULL
        /\ \A x \in Blocks : ~(x < first_block) /\ hdr[x].next # first_block
    BY <1>2, FirstIsFirst
  <1>4. DOMAIN h = Blocks /\ \A a \in Blocks : h[a].next = hdr[a].next
    BY <1>2, MarkHeaders DEF Shape
  <1>5. Blocks' = Blocks /\ Marked(p - HDR)' = h /\ is_valid_pointer(p)'
    BY <1>1 DEF Blocks, Marked, is_valid_pointer
  <1>6. \A a \in Blocks : h[a] = Coalesce(h, {})[a]
    BY <1>4 DEF Coalesce
  <1>7. Merged(h)'
    <2>1. \A a \in Blocks' \ unlinked' : headers'[a] = Coalesce(h, unlinked')[a]
      BY <1>1, <1>5, <1>6
    <2>2. ASSUME NEW a \in Blocks', Passed(a)' \/ a = current' PROVE Swept(h, a)'
      <3>1. a = first_block
        BY <1>1, <1>3, <1>5, <2>2 DEF Passed
      <3> QED BY <1>1, <1>3, <1>4, <1>5, <3>1 DEF Swept
    <2> QED BY <1>1, <1>5, <2>1, <2>2 DEF Merged
  <1>8. Merged(Marked(asked - HDR))'
    BY <1>1, <1>5, <1>7
  <1> QED BY <1>1, <1>3, <1>4, <1>5, <1>8 DEF MergeSoFar

(* What an iteration of the merge finds.                                   *)
AtCursor(h) ==
  /\ ListLike(h) /\ Merged(h)
  /\ current \in Blocks \ unlinked /\ current # NULL
  /\ unlinked \subseteq Blocks /\ \A a \in unlinked : Passed(a)
  /\ DOMAIN headers = Blocks

LEMMA MergeFindsCursor ==
  ASSUME LoopIInv, stage = "merge", current # NULL, NEW h, h = Marked(asked - HDR)
  PROVE  AtCursor(h)
PROOF
  <1>1. /\ Shape /\ is_valid_pointer(asked) /\ current \in Blocks \ unlinked
        /\ unlinked \subseteq Blocks /\ \A a \in unlinked : Passed(a)
        /\ DOMAIN headers = Blocks /\ Merged(h)
    BY DEF LoopIInv, MergeSoFar
  <1>2. asked - HDR \in Blocks
    BY <1>1 DEF is_valid_pointer
  <1>3. ListLike(h)
    BY <1>1, <1>2, MarkHeaders DEF Shape, ListLike
  <1> QED BY <1>1, <1>3 DEF AtCursor

LEMMA CursorIsAhead ==
  ASSUME Shape, NEW h, AtCursor(h)
  PROVE  /\ headers[current] = h[current] /\ h[current].next \notin unlinked
         /\ \A x \in Blocks : current < x =>
              /\ x \notin unlinked /\ headers[x] = h[x] /\ h[x].next \notin unlinked
PROOF
  <1>1. /\ DOMAIN h = Blocks /\ \A a \in Blocks : h[a].next = hdr[a].next
        /\ \A a \in Blocks \ unlinked : headers[a] = Coalesce(h, unlinked)[a]
        /\ current \in Blocks \ unlinked /\ unlinked \subseteq Blocks
        /\ \A a \in unlinked : a < current
    BY DEF AtCursor, ListLike, Merged, Passed
  <1>2. \A x \in Blocks : x \in Nat
    BY HeaderTypes DEF Shape
  <1>3. ASSUME NEW x \in Blocks, current <= x
        PROVE  x \notin unlinked /\ h[x].next \notin unlinked
    <2>1. x \notin unlinked
      BY <1>1, <1>2, <1>3
    <2>2. h[x].next # NULL => h[x].next \in Blocks /\ x < h[x].next
      BY <1>1, NextIsAdjacent
    <2> QED BY <1>1, <1>2, <1>3, <2>1, <2>2, NullIsNoBlock
  <1>4. ASSUME NEW x \in Blocks, current <= x PROVE headers[x] = h[x]
    <2>1. x \notin unlinked /\ h[x].next \notin unlinked
      BY <1>3, <1>4
    <2>2. Coalesce(h, unlinked)[x] = h[x]
      BY <1>1, <2>1 DEF Coalesce
    <2> QED BY <1>1, <2>1, <2>2
  <1> QED BY <1>1, <1>2, <1>3, <1>4

LEMMA PassOverKeepsMerged ==
  ASSUME Shape, NEW h, AtCursor(h), ~Absorbs, current' = headers[current].next,
         headers' = headers, unlinked' = unlinked, hdr' = hdr
  PROVE  /\ Merged(h)' /\ current' \in (Blocks \ unlinked) \cup {NULL}
         /\ \A a \in unlinked : Passed(a)'
PROOF
  <1> DEFINE next == h[current].next
  <1>1. /\ DOMAIN h = Blocks /\ \A a \in Blocks : h[a].next = hdr[a].next
        /\ current \in Blocks \ unlinked /\ unlinked \subseteq Blocks
        /\ \A a \in unlinked : a < current
        /\ \A a \in Blocks \ unlinked : headers[a] = Coalesce(h, unlinked)[a]
        /\ \A a \in Blocks : a < current \/ a = current => Swept(h, a)
    BY DEF AtCursor, ListLike, Merged, Passed
  <1>2. /\ headers[current] = h[current] /\ current' = next /\ next \notin unlinked
        /\ \A x \in Blocks : current < x => headers[x] = h[x]
    BY CursorIsAhead
  <1>3. next # NULL => next \in Blocks /\ current < next
    BY <1>1, NextIsAdjacent
  <1>4. ~(h[current].free /\ next # NULL /\ h[next].free)
    BY <1>2, <1>3 DEF Absorbs
  <1>5. \A a \in Blocks : Passed(a)' <=> a <= current
    BY <1>1, <1>2, NextIsTheNext DEF Passed
  <1>6. \A a \in Blocks : a \in Nat
    BY HeaderTypes DEF Shape
  <1>7. ASSUME NEW a \in Blocks, Passed(a)' \/ a = current' PROVE Swept(h, a)
    <2>1. CASE a <= current
      BY <1>1, <1>6, <2>1
    <2>2. CASE a = next
      <3>1. a \notin unlinked /\ a # NULL
        BY <1>2, <2>2, NullIsNoBlock
      <3>2. ASSUME NEW p \in Blocks, h[p].next = a, h[p].free, h[a].free
            PROVE  FALSE
        <4>1. p = current
          BY <1>1, <2>2, <3>1, <3>2, NextIsInjective
        <4> QED BY <1>4, <2>2, <3>1, <3>2, <4>1
      <3> QED BY <3>1, <3>2 DEF Swept
    <2> QED BY <1>2, <1>5, <1>7, <2>1, <2>2
  <1>8. Merged(h)'
    <2>1. \A a : Swept(h, a)' <=> Swept(h, a)
      BY DEF Swept, Blocks
    <2>2. Blocks' = Blocks
      BY DEF Blocks
    <2>3. \A a \in Blocks' \ unlinked' : headers'[a] = Coalesce(h, unlinked')[a]
      BY <1>1, <2>2
    <2> QED BY <1>7, <2>1, <2>2, <2>3 DEF Merged
  <1>9. \A a \in unlinked : Passed(a)'
    BY <1>1, <1>5, <1>6
  <1> QED BY <1>2, <1>3, <1>8, <1>9

LEMMA AbsorbKeepsMerged ==
  ASSUME Shape, NEW h, AtCursor(h), Absorbs, NEW x, x = headers[current].next,
         headers' = [headers EXCEPT ![current] = Grown(current, x)],
         unlinked' = unlinked \cup {x},
         current' = headers[x].next, hdr' = hdr
  PROVE  /\ Merged(h)' /\ current' \in (Blocks \ unlinked') \cup {NULL}
         /\ unlinked' \subseteq Blocks /\ \A a \in unlinked' : Passed(a)'
         /\ DOMAIN headers' = Blocks
PROOF
  <1>1. /\ DOMAIN h = Blocks
        /\ \A a \in Blocks : h[a].next = hdr[a].next /\ h[a].free \in BOOLEAN
        /\ current \in Blocks \ unlinked /\ unlinked \subseteq Blocks
        /\ \A a \in unlinked : a < current
        /\ \A a \in Blocks \ unlinked : headers[a] = Coalesce(h, unlinked)[a]
        /\ \A a \in Blocks : a < current \/ a = current => Swept(h, a)
        /\ DOMAIN headers = Blocks
    BY DEF AtCursor, ListLike, Merged, Passed
  <1>2. /\ headers[current] = h[current]
        /\ \A y \in Blocks : current < y =>
             /\ y \notin unlinked /\ headers[y] = h[y] /\ h[y].next \notin unlinked
    BY CursorIsAhead
  <1>3. x = h[current].next /\ x # NULL /\ h[current].free
    BY <1>2 DEF Absorbs
  <1>4. x \in Blocks /\ current < x
    BY <1>1, <1>3, NextIsAdjacent
  <1>5. /\ x \notin unlinked /\ headers[x] = h[x] /\ h[x].free
        /\ current' = h[x].next /\ current' \notin unlinked
    BY <1>2, <1>4 DEF Absorbs
  <1>6. current' # NULL => current' \in Blocks /\ x < current'
    BY <1>1, <1>4, <1>5, NextIsAdjacent
  <1>7. /\ \A a \in Blocks : Passed(a)' <=> a <= x
        /\ \A a \in Blocks : a < x <=> a <= current
    <2>1. \A a \in Blocks : Passed(a)' <=> a <= x
      BY <1>1, <1>4, <1>5, NextIsTheNext DEF Passed
    <2>2. \A a \in Blocks : a < x <=> a <= current
      BY <1>1, <1>3, NextIsTheNext
    <2> QED BY <2>1, <2>2
  <1>8. \A a \in Blocks : a \in Nat
    BY HeaderTypes DEF Shape
  <1>9. ASSUME NEW a \in Blocks, Passed(a)' \/ a = current' PROVE Swept(h, a)'
    <2>0. Swept(h, a)' <=> (a \in unlinked' <=>
                            \E p \in Blocks : /\ h[p].next = a
                                              /\ h[p].free /\ h[a].free
                                              /\ p \notin unlinked')
      BY DEF Swept, Blocks
    <2>1. CASE a <= current
      <3>1. a \in unlinked' <=> a \in unlinked
        BY <1>1, <1>4, <1>8, <2>1
      <3>2. h[x].next # a
        <4>1. a # NULL
          BY NullIsNoBlock
        <4> QED BY <1>1, <1>4, <1>5, <1>6, <1>8, <2>1, <4>1
      <3>3. Swept(h, a)
        BY <1>1, <1>8, <2>1
      <3> QED BY <2>0, <3>1, <3>2, <3>3 DEF Swept
    <2>2. CASE a = x
      <3>1. current \notin unlinked'
        BY <1>1, <1>4, <1>8
      <3> QED BY <1>1, <1>3, <1>5, <2>0, <2>2, <3>1
    <2>3. CASE a = current'
      <3>1. a \notin unlinked' /\ a # NULL
        BY <1>4, <1>5, <1>6, <1>8, <2>3, NullIsNoBlock
      <3>2. ASSUME NEW p \in Blocks, h[p].next = a PROVE p = x
        BY <1>1, <1>4, <1>5, <2>3, <3>1, <3>2, NextIsInjective
      <3> QED BY <2>0, <3>1, <3>2
    <2>4. a <= current \/ a = x \/ a = current'
      BY <1>1, <1>4, <1>7, <1>8, <1>9
    <2> QED BY <2>1, <2>2, <2>3, <2>4
  <1>10. ASSUME NEW a \in Blocks \ unlinked'
         PROVE  headers'[a] = Coalesce(h, unlinked')[a]
    <2>1. Coalesce(h, unlinked')[a] =
            IF h[a].next \in unlinked'
            THEN [size |-> h[a].size + HDR + h[h[a].next].size,
                  next |-> h[h[a].next].next, free |-> h[a].free]
            ELSE h[a]
      BY <1>1 DEF Coalesce
    <2>2. CASE a = current
      <3>1. headers'[a] = Grown(current, x)
        BY <1>1, <2>2
      <3>2. Grown(current, x) = [size |-> h[a].size + HDR + h[x].size,
                                 next |-> h[x].next, free |-> TRUE]
        BY <1>2, <1>5, <2>2 DEF Grown
      <3>3. h[a].free = TRUE
        BY <1>1, <1>3, <2>2
      <3> QED BY <1>3, <2>1, <2>2, <3>1, <3>2, <3>3
    <2>3. CASE a # current
      <3>1. headers'[a] = headers[a]
        BY <1>1, <2>3
      <3>2. h[a].next # x
        BY <1>1, <1>3, <2>3, NextIsInjective
      <3>3. headers[a] = IF h[a].next \in unlinked
                         THEN [size |-> h[a].size + HDR + h[h[a].next].size,
                               next |-> h[h[a].next].next, free |-> h[a].free]
                         ELSE h[a]
        BY <1>1 DEF Coalesce
      <3> QED BY <2>1, <3>1, <3>2, <3>3
    <2> QED BY <2>2, <2>3
  <1>11. Merged(h)'
    <2>1. Blocks' = Blocks
      BY DEF Blocks
    <2> QED BY <1>9, <1>10, <2>1 DEF Merged
  <1>12. current' \in (Blocks \ unlinked') \cup {NULL}
    BY <1>4, <1>5, <1>6, <1>8
  <1>13. \A a \in unlinked' : Passed(a)'
    BY <1>1, <1>4, <1>7, <1>8
  <1> QED BY <1>1, <1>4, <1>11, <1>12, <1>13
LEMMA MergeGoesOn ==
  ASSUME LoopIInv, absorb \/ pass_over
  PROVE  MergeSoFar'
PROOF
  <1>0. PICK h : h = Marked(asked - HDR)
    OBVIOUS
  <1>1. /\ stage = "merge" /\ current # NULL
        /\ asked' = asked /\ hdr' = hdr /\ heap_start' = heap_start /\ owned' = owned
    BY DEF absorb, pass_over, vars
  <1>2. Shape /\ asked \in DOMAIN owned /\ is_valid_pointer(asked)
    BY <1>1 DEF LoopIInv, MergeSoFar
  <1>3. AtCursor(h)
    BY <1>0, <1>1, MergeFindsCursor
  <1>4. /\ Merged(h)' /\ current' \in (Blocks \ unlinked') \cup {NULL}
        /\ unlinked' \subseteq Blocks /\ \A a \in unlinked' : Passed(a)'
        /\ DOMAIN headers' = Blocks
    <2>1. CASE absorb
      <3> DEFINE x == headers[current].next
      <3>1. /\ headers' = [headers EXCEPT ![current] = Grown(current, x)]
            /\ unlinked' = unlinked \cup {x}
            /\ current' = headers[x].next /\ Absorbs
        BY <2>1 DEF absorb
      <3> QED BY <1>1, <1>2, <1>3, <3>1, AbsorbKeepsMerged
    <2>2. CASE pass_over
      <3>1. /\ ~Absorbs /\ current' = headers[current].next
            /\ headers' = headers /\ unlinked' = unlinked
        BY <2>2 DEF pass_over
      <3>2. /\ Merged(h)' /\ current' \in (Blocks \ unlinked) \cup {NULL}
            /\ \A a \in unlinked : Passed(a)'
        BY <1>1, <1>2, <1>3, <3>1, PassOverKeepsMerged
      <3> QED BY <1>3, <3>1, <3>2 DEF AtCursor
    <2> QED BY <2>1, <2>2
  <1>5. Blocks' = Blocks /\ Marked(asked - HDR)' = h /\ is_valid_pointer(asked)'
    BY <1>0, <1>1, <1>2 DEF Blocks, Marked, is_valid_pointer
  <1>6. Merged(Marked(asked - HDR))'
    BY <1>4, <1>5
  <1> QED BY <1>1, <1>2, <1>4, <1>5, <1>6 DEF MergeSoFar

(* At the end of the list everything has been swept.                       *)
LEMMA MergeEndsInPass ==
  ASSUME LoopIInv, kfree_returns
  PROVE  kfree(asked) /\ asked \in DOMAIN owned
PROOF
  <1> DEFINE h == Marked(asked - HDR)
  <1>1. /\ stage = "merge" /\ current = NULL /\ releases(asked)
        /\ hdr' = [a \in Blocks \ unlinked |-> headers[a]]
    BY DEF kfree_returns
  <1>2. /\ Shape /\ asked \in DOMAIN owned /\ is_valid_pointer(asked)
        /\ unlinked \subseteq Blocks /\ Merged(h)
    BY <1>1 DEF LoopIInv, MergeSoFar
  <1>3. asked - HDR \in Blocks
    BY <1>2 DEF is_valid_pointer
  <1>4. DOMAIN h = Blocks
    BY <1>2, <1>3, MarkHeaders DEF Shape
  <1>5. \A a \in Blocks : Swept(h, a)
    BY <1>1, <1>2 DEF Merged, Passed
  <1>6. Sweep(h, unlinked)
    BY <1>4, <1>5 DEF Swept, Sweep
  <1>7. hdr' = Coalesce(h, unlinked)
    <2>1. \A a \in Blocks \ unlinked : headers[a] = Coalesce(h, unlinked)[a]
      BY <1>2 DEF Merged
    <2>2. Coalesce(h, unlinked) = [a \in Blocks \ unlinked |-> Coalesce(h, unlinked)[a]]
      BY <1>4 DEF Coalesce
    <2> QED BY <1>1, <2>1, <2>2
  <1>8. \E M \in SUBSET Blocks : Sweep(h, M) /\ hdr' = Coalesce(h, M)
    BY <1>2, <1>6, <1>7
  <1> QED BY <1>1, <1>2, <1>8 DEF kfree
-----------------------------------------------------------------------------
(* Outside a call both parts of the loop invariant say nothing.            *)
LEMMA OutSaysNothing ==
  ASSUME stage' = "out"
  PROVE  SearchSoFar' /\ MergeSoFar'
PROOF BY DEF SearchSoFar, MergeSoFar

LEMMA UnchangedKeepsLoop ==
  ASSUME LoopIInv, UNCHANGED <<vars, loopVars>>
  PROVE  LoopIInv'
PROOF
  <1>1. Shape'
    BY UnchangedKeepsHeap DEF LoopIInv
  <1>2. /\ hdr' = hdr /\ heap_start' = heap_start /\ owned' = owned
        /\ alloc_count' = alloc_count /\ stage' = stage /\ asked' = asked
        /\ current' = current /\ best_fit' = best_fit
        /\ headers' = headers /\ unlinked' = unlinked
    BY DEF vars, loopVars
  <1>3. SearchSoFar'
    BY <1>2 DEF LoopIInv, SearchSoFar, BestSeen, Seen, Passed, Fits, Blocks
  <1>4. MergeSoFar'
    <2> DEFINE h == Marked(asked - HDR)
    <2>1. h' = h /\ Blocks' = Blocks
      BY <1>2 DEF Marked, Blocks
    <2>2. ASSUME NEW k PROVE Merged(k) => Merged(k)'
      <3>1. \A a : Swept(k, a)' <=> Swept(k, a)
        BY <1>2, <2>1 DEF Swept
      <3>2. \A a : Passed(a)' <=> Passed(a)
        BY <1>2 DEF Passed
      <3> QED BY <1>2, <2>1, <3>1, <3>2 DEF Merged
    <2>3. Merged(h) => Merged(h)'
      BY <2>1, <2>2
    <2> QED BY <1>2, <2>1, <2>3 DEF LoopIInv, MergeSoFar, Passed, is_valid_pointer
  <1> QED BY <1>1, <1>3, <1>4 DEF LoopIInv

LEMMA LoopStepIsCall ==
  ASSUME LoopIInv, LoopNext
  PROVE  [Next]_vars /\ SearchSoFar' /\ MergeSoFar'
PROOF
  <1>1. CASE stage = "out" /\ mm_init /\ UNCHANGED loopVars
    BY <1>1, OutSaysNothing DEF loopVars, Next
  <1>2. ASSUME NEW n \in Requests, kmalloc_called(n)
        PROVE  UNCHANGED vars /\ SearchSoFar' /\ MergeSoFar'
    BY <1>2, CallStartsSearch DEF LoopIInv, kmalloc_called, MergeSoFar
  <1>3. ASSUME NEW n \in Requests, kmalloc_refuses(n)
        PROVE  UNCHANGED vars /\ SearchSoFar' /\ MergeSoFar'
    BY <1>3, UnchangedKeepsLoop DEF LoopIInv, kmalloc_refuses
  <1>4. CASE search
    BY <1>4, SearchGoesOn DEF search, MergeSoFar
  <1>5. CASE kmalloc_fails
    BY <1>5, OutSaysNothing DEF kmalloc_fails, returns
  <1>6. CASE kmalloc_returns
    <2>1. asked \in Requests
      BY <1>6 DEF LoopIInv, SearchSoFar, kmalloc_returns
    <2> QED BY <1>6, <2>1, SearchFindsTheBest, OutSaysNothing
            DEF kmalloc_returns, returns, Next
  <1>7. ASSUME NEW p \in DOMAIN owned, kfree_called(p)
        PROVE  UNCHANGED vars /\ SearchSoFar' /\ MergeSoFar'
    BY <1>7, CallStartsMerge DEF LoopIInv, kfree_called, SearchSoFar
  <1>8. ASSUME NEW p \in {NULL, HeapEnd}, kfree_refuses(p)
        PROVE  UNCHANGED vars /\ SearchSoFar' /\ MergeSoFar'
    BY <1>8, UnchangedKeepsLoop DEF LoopIInv, kfree_refuses
  <1>9. CASE absorb \/ pass_over
    BY <1>9, MergeGoesOn DEF absorb, pass_over, SearchSoFar
  <1>10. CASE kfree_returns
    BY <1>10, MergeEndsInPass, OutSaysNothing DEF kfree_returns, returns, Next
  <1> QED BY <1>1, <1>2, <1>3, <1>4, <1>5, <1>6, <1>7, <1>8, <1>9, <1>10
          DEF LoopNext

(* The list walks, a step per iteration, implement the calls: kmalloc's    *)
(* search hands out the first of the smallest blocks that fit and fails    *)
(* only when none does, and kfree's merge, which rewrites the list under   *)
(* its own cursor, leaves what the single pass of Heap leaves.             *)
THEOREM LoopsImplementHeap == LoopSpec => KeepsHeap
PROOF
  <1>1. LoopInit => LoopIInv
    BY InitMakesShape DEF LoopInit, LoopIInv, SearchSoFar, MergeSoFar
  <1>2. LoopIInv /\ [LoopNext]_<<vars, loopVars>> => LoopIInv' /\ [Next]_vars
    <2> SUFFICES ASSUME LoopIInv, [LoopNext]_<<vars, loopVars>>
                 PROVE  LoopIInv' /\ [Next]_vars
      OBVIOUS
    <2>1. CASE LoopNext
      BY <2>1, LoopStepIsCall, NextKeepsShape DEF LoopIInv
    <2>2. CASE UNCHANGED <<vars, loopVars>>
      BY <2>2, UnchangedKeepsLoop
    <2> QED BY <2>1, <2>2
  <1>3. LoopInit => Init
    BY DEF LoopInit
  <1> QED BY <1>1, <1>2, <1>3, PTL DEF LoopSpec, KeepsHeap, Spec

(* So what callers rely on holds of the loops too: a kmalloc that walks    *)
(* the list hands out bytes that nobody holds.                             *)
THEOREM LoopsKeepPromise == NoWrap => (LoopSpec => KeepsPromise)
PROOF BY LoopsImplementHeap, HeapKeepsPromise DEF KeepsHeap
=============================================================================
