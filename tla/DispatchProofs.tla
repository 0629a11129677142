---------------------------- MODULE DispatchProofs ----------------------------
(***************************************************************************)
(* Theorems about interrupts once the kernel is up (module Dispatch), for  *)
(* any lines, any numbers that handlers are registered for and any         *)
(* exceptions.                                                             *)
(***************************************************************************)
EXTENDS Dispatch, SequenceTheorems, WellFoundedInduction, TLAPS

(* The controllers stay where irq_init has put them, and nobody requests   *)
(* the line that the slave is on.                                          *)
AsIrqInitLeft ==
  /\ \A c \in 1..2 : chips[c].icw = 0 /\ chips[c].offset = IF c = 1 THEN 32 ELSE 40
  /\ 2 \notin chips[1].irr

(* Each controller has at most one line in service, the slave's only while *)
(* what is being handled will end it.                                      *)
EndsSlave(frame) == (frame.int_no - 32) % 256 >= 8
ServiceWillEnd ==
  /\ \A c \in 1..2 : chips[c].isr = {} \/ \E l \in 0..7 : chips[c].isr = {l}
  /\ frames = <<>> => \A c \in 1..2 : chips[c].isr = {}
  /\ chips[2].isr # {} => EndsSlave(frames[1])
  /\ Len(frames) = 2 => EndsSlave(frames[1])

(* What a controller's mask will be when the access under way is over.     *)
WillBe(c) == IF access.chip = c THEN access.byte ELSE chips[c].imr
MasksWillBeAsAsked ==
  /\ access = NoAccess \/ access.chip \in 1..2
  /\ \A c \in 1..2, l \in 0..7 : l \in Bits(WillBe(c)) <=> 8 * (c - 1) + l \in masked

IInv == TypeOK /\ AsIrqInitLeft /\ ServiceWillEnd /\ MasksWillBeAsAsked
-----------------------------------------------------------------------------
(* The bits of a byte.                                                     *)
LEMMA BitTests ==
  ASSUME NEW b \in Int
  PROVE  /\ 0 \in Bits(b) <=> b % 2 = 1
         /\ 1 \in Bits(b) <=> (b \div 2) % 2 = 1
         /\ 2 \in Bits(b) <=> (b \div 4) % 2 = 1
         /\ 3 \in Bits(b) <=> (b \div 8) % 2 = 1
         /\ 4 \in Bits(b) <=> (b \div 16) % 2 = 1
         /\ 5 \in Bits(b) <=> (b \div 32) % 2 = 1
         /\ 6 \in Bits(b) <=> (b \div 64) % 2 = 1
         /\ 7 \in Bits(b) <=> (b \div 128) % 2 = 1
         /\ Bits(b) \subseteq 0..7
PROOF
  <1>1. /\ 2^0 = 1 /\ 2^1 = 2 /\ 2^2 = 4 /\ 2^3 = 8
        /\ 2^4 = 16 /\ 2^5 = 32 /\ 2^6 = 64 /\ 2^7 = 128
    OBVIOUS
  <1>2. b \div 1 = b
    OBVIOUS
  <1> QED BY <1>1, <1>2 DEF Bits

LEMMA PowersOf2 ==
  /\ 2^0 = 1 /\ 2^1 = 2 /\ 2^2 = 4 /\ 2^3 = 8
  /\ 2^4 = 16 /\ 2^5 = 32 /\ 2^6 = 64 /\ 2^7 = 128
PROOF
  OBVIOUS

Powers == {1, 2, 4, 8, 16, 32, 64, 128}
LEMMA PowerOfBit ==
  /\ \A l \in 0..7 : 2^l \in Powers
  /\ \A k, l \in 0..7 : 2^k = 2^l => k = l
  /\ \A b \in Int : \A l \in 0..7 : (b \div 2^l) % 2 \in {0, 1}
PROOF
  <1>1. /\ \A l \in 0..7 : 2^l \in Powers
        /\ \A k, l \in 0..7 : 2^k = 2^l => k = l
    BY PowersOf2 DEF Powers
  <1>2. \A b \in Int, p \in Powers : (b \div p) % 2 \in {0, 1}
    BY DEF Powers
  <1> QED BY <1>1, <1>2

(* Adding a power that is not in a byte turns that bit and no other.       *)
LEMMA PowerAdded ==
  ASSUME NEW b \in 0..255, NEW p \in Powers, (b \div p) % 2 = 0
  PROVE  /\ b + p \in 0..255 /\ ((b + p) \div p) % 2 = 1
         /\ \A q \in Powers \ {p} : ((b + p) \div q) % 2 = (b \div q) % 2
PROOF
  <1>0. CASE p = 1
    <2> DEFINE Same(q) == ((b + 1) \div q) % 2 = (b \div q) % 2
    <2>1. b + 1 \in 0..255 /\ ((b + 1) \div 1) % 2 = 1
      BY <1>0
    <2>2. Same(2) /\ Same(4) /\ Same(8) /\ Same(16) /\ Same(32) /\ Same(64) /\ Same(128)
      BY <1>0, SMTT(30)
    <2> HIDE DEF Same
    <2>3. \A q \in Powers \ {1} : Same(q)
      BY <2>2 DEF Powers
    <2> QED BY <1>0, <2>1, <2>3 DEF Same
  <1>1. CASE p = 2
    <2> DEFINE Same(q) == ((b + 2) \div q) % 2 = (b \div q) % 2
    <2>1. b + 2 \in 0..255 /\ ((b + 2) \div 2) % 2 = 1
      BY <1>1
    <2>2. Same(1)
      BY <1>1
    <2>3. Same(4) /\ Same(8) /\ Same(16) /\ Same(32) /\ Same(64) /\ Same(128)
      BY <1>1
    <2> HIDE DEF Same
    <2>4. \A q \in Powers \ {2} : Same(q)
      BY <2>2, <2>3 DEF Powers
    <2> QED BY <1>1, <2>1, <2>4 DEF Same
  <1>2. CASE p = 4
    <2> DEFINE Same(q) == ((b + 4) \div q) % 2 = (b \div q) % 2
    <2>1. b + 4 \in 0..255 /\ ((b + 4) \div 4) % 2 = 1
      BY <1>2
    <2>2. Same(1) /\ Same(2)
      BY <1>2
    <2>3. Same(8) /\ Same(16) /\ Same(32) /\ Same(64) /\ Same(128)
      BY <1>2
    <2> HIDE DEF Same
    <2>4. \A q \in Powers \ {4} : Same(q)
      BY <2>2, <2>3 DEF Powers
    <2> QED BY <1>2, <2>1, <2>4 DEF Same
  <1>3. CASE p = 8
    <2> DEFINE Same(q) == ((b + 8) \div q) % 2 = (b \div q) % 2
    <2>1. b + 8 \in 0..255 /\ ((b + 8) \div 8) % 2 = 1
      BY <1>3
    <2>2. Same(1) /\ Same(2) /\ Same(4)
      BY <1>3
    <2>3. Same(16) /\ Same(32) /\ Same(64) /\ Same(128)
      BY <1>3
    <2> HIDE DEF Same
    <2>4. \A q \in Powers \ {8} : Same(q)
      BY <2>2, <2>3 DEF Powers
    <2> QED BY <1>3, <2>1, <2>4 DEF Same
  <1>4. CASE p = 16
    <2> DEFINE Same(q) == ((b + 16) \div q) % 2 = (b \div q) % 2
    <2>1. b + 16 \in 0..255 /\ ((b + 16) \div 16) % 2 = 1
      BY <1>4
    <2>2. Same(1) /\ Same(2) /\ Same(4) /\ Same(8)
      BY <1>4
    <2>3. Same(32) /\ Same(64) /\ Same(128)
      BY <1>4
    <2> HIDE DEF Same
    <2>4. \A q \in Powers \ {16} : Same(q)
      BY <2>2, <2>3 DEF Powers
    <2> QED BY <1>4, <2>1, <2>4 DEF Same
  <1>5. CASE p = 32
    <2> DEFINE Same(q) == ((b + 32) \div q) % 2 = (b \div q) % 2
    <2>1. b + 32 \in 0..255 /\ ((b + 32) \div 32) % 2 = 1
      BY <1>5
    <2>2. Same(1) /\ Same(2) /\ Same(4) /\ Same(8) /\ Same(16)
      BY <1>5
    <2>3. Same(64) /\ Same(128)
      BY <1>5
    <2> HIDE DEF Same
    <2>4. \A q \in Powers \ {32} : Same(q)
      BY <2>2, <2>3 DEF Powers
    <2> QED BY <1>5, <2>1, <2>4 DEF Same
  <1>6. CASE p = 64
    <2> DEFINE Same(q) == ((b + 64) \div q) % 2 = (b \div q) % 2
    <2>1. b + 64 \in 0..255 /\ ((b + 64) \div 64) % 2 = 1
      BY <1>6
    <2>2. Same(1) /\ Same(2) /\ Same(4) /\ Same(8) /\ Same(16) /\ Same(32)
      BY <1>6
    <2>3. Same(128)
      BY <1>6
    <2> HIDE DEF Same
    <2>4. \A q \in Powers \ {64} : Same(q)
      BY <2>2, <2>3 DEF Powers
    <2> QED BY <1>6, <2>1, <2>4 DEF Same
  <1>7. CASE p = 128
    <2> DEFINE Same(q) == ((b + 128) \div q) % 2 = (b \div q) % 2
    <2>1. b + 128 \in 0..255 /\ ((b + 128) \div 128) % 2 = 1
      BY <1>7
    <2>2. Same(1) /\ Same(2) /\ Same(4) /\ Same(8) /\ Same(16) /\ Same(32) /\ Same(64)
      BY <1>7
    <2> HIDE DEF Same
    <2>3. \A q \in Powers \ {128} : Same(q)
      BY <2>2 DEF Powers
    <2> QED BY <1>7, <2>1, <2>3 DEF Same
  <1> QED BY <1>0, <1>1, <1>2, <1>3, <1>4, <1>5, <1>6, <1>7 DEF Powers

(* Taking a power that is in a byte turns that bit and no other. *)
LEMMA PowerTaken ==
  ASSUME NEW b \in 0..255, NEW p \in Powers, (b \div p) % 2 = 1
  PROVE  b - p \in 0..255 /\ ((b - p) \div p) % 2 = 0
PROOF
  <1>0. CASE p = 1
    BY <1>0
  <1>1. CASE p = 2
    BY <1>1
  <1>2. CASE p = 4
    BY <1>2
  <1>3. CASE p = 8
    BY <1>3
  <1>4. CASE p = 16
    BY <1>4
  <1>5. CASE p = 32
    BY <1>5
  <1>6. CASE p = 64
    BY <1>6
  <1>7. CASE p = 128
    BY <1>7
  <1> QED BY <1>0, <1>1, <1>2, <1>3, <1>4, <1>5, <1>6, <1>7 DEF Powers

(* The same on sets of bits: adding one, *)
LEMMA BitAdded ==
  ASSUME NEW b \in 0..255, NEW l \in 0..7, l \notin Bits(b)
  PROVE  b + 2^l \in 0..255 /\ Bits(b + 2^l) = Bits(b) \cup {l}
PROOF
  <1>1. PICK p \in Powers : p = 2^l
    BY PowerOfBit
  <1>2. (b \div p) % 2 = 0
    BY <1>1, PowerOfBit DEF Bits
  <1>3. /\ b + p \in 0..255 /\ ((b + p) \div p) % 2 = 1
        /\ \A q \in Powers \ {p} : ((b + p) \div q) % 2 = (b \div q) % 2
    BY <1>2, PowerAdded
  <1>4. \A k \in 0..7 : k # l => 2^k \in Powers \ {p}
    BY <1>1, PowerOfBit
  <1>5. \A k \in 0..7 : k \in Bits(b + p) <=> k \in Bits(b) \/ k = l
    BY <1>1, <1>3, <1>4 DEF Bits
  <1>6. Bits(b + p) \subseteq 0..7 /\ Bits(b) \subseteq 0..7
    BY DEF Bits
  <1>7. Bits(b + p) = Bits(b) \cup {l}
    BY <1>5, <1>6
  <1> QED BY <1>1, <1>3, <1>7

(* taking one, *)
LEMMA BitTaken ==
  ASSUME NEW b \in 0..255, NEW l \in 0..7, l \in Bits(b)
  PROVE  b - 2^l \in 0..255 /\ Bits(b - 2^l) = Bits(b) \ {l}
PROOF
  <1>1. PICK p \in Powers : p = 2^l
    BY PowerOfBit
  <1>2. (b \div p) % 2 = 1 /\ p \in Int
    BY <1>1, SMTT(30) DEF Bits, Powers
  <1>3. PICK d \in 0..255 : d = b - p /\ (d \div p) % 2 = 0
    BY <1>2, PowerTaken
  <1>4. l \notin Bits(d) /\ d + p = b
    BY <1>1, <1>2, <1>3 DEF Bits
  <1>5. Bits(b) = Bits(d) \cup {l}
    BY <1>1, <1>4, BitAdded
  <1> QED BY <1>1, <1>3, <1>4, <1>5

(* and what the code writes for a line to be masked or unmasked. *)
LEMMA SetAndClear ==
  ASSUME NEW b \in 0..255, NEW l \in 0..7
  PROVE  /\ Set(b, l) \in 0..255 /\ Clear(b, l) \in 0..255
         /\ Bits(Set(b, l)) = Bits(b) \cup {l}
         /\ Bits(Clear(b, l)) = Bits(b) \ {l}
PROOF
  <1>1. Set(b, l) \in 0..255 /\ Bits(Set(b, l)) = Bits(b) \cup {l}
    <2>1. CASE l \in Bits(b)
      BY <2>1 DEF Set
    <2>2. CASE l \notin Bits(b)
      BY <2>2, BitAdded DEF Set
    <2> QED BY <2>1, <2>2
  <1>2. Clear(b, l) \in 0..255 /\ Bits(Clear(b, l)) = Bits(b) \ {l}
    <2>1. CASE l \notin Bits(b)
      BY <2>1 DEF Clear
    <2>2. CASE l \in Bits(b)
      BY <2>2, BitTaken DEF Clear
    <2> QED BY <2>1, <2>2
  <1> QED BY <1>1, <1>2

LEMMA SmallestExists ==
  ASSUME NEW T \in SUBSET Nat, T # {}
  PROVE  \E x \in T : \A y \in T : x <= y
PROOF
  <1>1. PICK x \in T : \A y \in T : ~(<<y, x>> \in OpToRel(<, Nat))
    BY NatLessThanWellFounded, WFMin
  <1>2. \A y \in T : ~(y < x)
    BY <1>1 DEF OpToRel
  <1> QED BY <1>2

LEMMA FirstIsThere ==
  ASSUME NEW requests \in SUBSET (0..7), requests # {}
  PROVE  First(requests) \in requests /\ \A k \in requests : First(requests) <= k
PROOF
  <1>1. requests \in SUBSET Nat
    OBVIOUS
  <1>2. \E l \in requests : \A k \in requests : l <= k
    BY <1>1, SmallestExists
  <1> QED BY <1>2 DEF First

(* The fields of a controller, for the provers. *)
LEMMA ChipFields ==
  ASSUME NEW chip \in Chip
  PROVE  /\ DOMAIN chip = {"offset", "imr", "irr", "isr", "icw"}
         /\ chip.offset \in 0..255 /\ chip.imr \in 0..255 /\ chip.irr \subseteq 0..7
         /\ chip.isr \subseteq 0..7 /\ chip.icw \in {0, 2, 3, 4}
PROOF
  BY DEF Chip

(* A controller with other masks.                                          *)
LEMMA MaskFields ==
  ASSUME NEW chip \in Chip, NEW b \in 0..255, NEW q, q = [chip EXCEPT !.imr = b]
  PROVE  /\ q \in Chip /\ q.imr = b /\ q.irr = chip.irr /\ q.isr = chip.isr
         /\ q.icw = chip.icw /\ q.offset = chip.offset
PROOF
  <1>1. /\ q.imr = b /\ q.irr = chip.irr /\ q.isr = chip.isr
        /\ q.icw = chip.icw /\ q.offset = chip.offset
    BY ChipFields
  <1>2. q = [offset |-> chip.offset, imr |-> b, irr |-> chip.irr, isr |-> chip.isr,
             icw |-> chip.icw]
    BY DEF Chip
  <1>3. q \in Chip
    BY <1>2, ChipFields DEF Chip
  <1> QED BY <1>1, <1>3

(* An end of interrupt when one line is in service leaves none. *)
LEMMA EndEndsTheOne ==
  ASSUME NEW chip \in Chip, chip.isr = {} \/ \E l \in 0..7 : chip.isr = {l}
  PROVE  /\ EndOfInterrupt(chip) \in Chip /\ EndOfInterrupt(chip).isr = {}
         /\ EndOfInterrupt(chip).imr = chip.imr /\ EndOfInterrupt(chip).irr = chip.irr
         /\ EndOfInterrupt(chip).icw = chip.icw
         /\ EndOfInterrupt(chip).offset = chip.offset
PROOF
  <1>1. CASE chip.isr = {}
    BY <1>1 DEF EndOfInterrupt
  <1>2. CASE chip.isr # {}
    <2>1. PICK l \in 0..7 : chip.isr = {l}
      BY <1>2
    <2>2. First(chip.isr) = l
      BY <2>1, FirstIsThere
    <2>3. EndOfInterrupt(chip) = [chip EXCEPT !.isr = {}]
      BY <1>2, <2>1, <2>2 DEF EndOfInterrupt
    <2> QED BY <2>3 DEF Chip
  <1> QED BY <1>1, <1>2
-----------------------------------------------------------------------------
LEMMA InitIsInv == Init => IInv
PROOF
  <1> SUFFICES ASSUME Init PROVE IInv
    OBVIOUS
  <1>1. TypeOK
    <2>1. chips \in [1..2 -> Chip]
      <3>1. \A c \in 1..2 : [offset |-> IF c = 1 THEN 32 ELSE 40, imr |-> 255,
                             irr |-> {}, isr |-> {}, icw |-> 0] \in Chip
        BY DEF Chip
      <3> QED BY <3>1 DEF Init
    <2>2. irq_handlers \in [0..15 -> Handlers] /\ other_table \in [0..15 -> Handlers]
      BY DEF Init, Handlers
    <2>3. frames \in Seq([int_no : 0..47, stage : {"entered", "faulted", "called"}])
      BY EmptySeq DEF Init
    <2>4. access \in [chip : 0..2, byte : 0..255]
      BY DEF Init, NoAccess
    <2>5. masked \subseteq 0..15 /\ Len(frames) <= 2
      BY DEF Init
    <2>6. keyboard \in BOOLEAN /\ ready \in BOOLEAN
      BY Zenon DEF Init
    <2> QED BY <2>1, <2>2, <2>3, <2>4, <2>5, <2>6 DEF TypeOK
  <1>2. AsIrqInitLeft
    BY DEF Init, AsIrqInitLeft
  <1>3. ServiceWillEnd
    BY DEF Init, ServiceWillEnd
  <1>4. MasksWillBeAsAsked
    <2>1. \A l \in 0..7 : l \in Bits(255)
      BY BitTests
    <2>2. \A c \in 1..2 : WillBe(c) = 255
      BY DEF Init, WillBe, NoAccess
    <2>3. \A c \in 1..2, l \in 0..7 : 8 * (c - 1) + l \in 0..15
      OBVIOUS
    <2> QED BY <2>1, <2>2, <2>3 DEF Init, MasksWillBeAsAsked
  <1> QED BY <1>1, <1>2, <1>3, <1>4 DEF IInv

(* What follows of steps that touch no mask: requests and service.         *)
LEMMA MasksUntouched ==
  ASSUME IInv, UNCHANGED <<access, masked>>,
         \A c \in 1..2 : /\ chips'[c].imr = chips[c].imr
                         /\ chips'[c].icw = chips[c].icw
                         /\ chips'[c].offset = chips[c].offset,
         2 \notin chips'[1].irr
  PROVE  AsIrqInitLeft' /\ MasksWillBeAsAsked'
PROOF
  <1>1. AsIrqInitLeft'
    BY DEF IInv, AsIrqInitLeft
  <1>2. \A c \in 1..2 : WillBe(c)' = WillBe(c)
    BY DEF WillBe
  <1>3. MasksWillBeAsAsked'
    BY <1>2 DEF IInv, MasksWillBeAsAsked
  <1> QED BY <1>1, <1>3

(* The thread's calls that leave masks and service alone.                  *)
LEMMA TablesKeep ==
  ASSUME IInv, UNCHANGED <<chips, frames, access, masked>>,
         irq_handlers' \in [0..15 -> Handlers], other_table' \in [0..15 -> Handlers],
         keyboard' \in BOOLEAN, ready' \in BOOLEAN
  PROVE  IInv'
PROOF
  <1>1. TypeOK'
    BY DEF IInv, TypeOK
  <1>2. AsIrqInitLeft' /\ ServiceWillEnd'
    BY DEF IInv, AsIrqInitLeft, ServiceWillEnd, EndsSlave
  <1>3. MasksWillBeAsAsked'
    BY DEF IInv, MasksWillBeAsAsked, WillBe
  <1> QED BY <1>1, <1>2, <1>3 DEF IInv

LEMMA StoredIsTyped ==
  ASSUME NEW table \in [0..15 -> Handlers], NEW irq, NEW handler \in Handlers
  PROVE  Stored(table, irq, handler) \in [0..15 -> Handlers]
PROOF
  BY DEF Stored

(* The operations of the drivers that touch tables and flags only. *)
LEMMA ThreadKeeps ==
  ASSUME IInv, NEW irq, NEW handler \in {NULL, driver},
         \/ irq_register_handler(irq, handler) \/ irq_unregister_handler(irq)
         \/ keyboard_init \/ keyboard_exit
  PROVE  IInv'
PROOF
  <1>1. UNCHANGED <<chips, frames, access, masked>> /\ keyboard' = keyboard
    BY DEF irq_register_handler, irq_unregister_handler, keyboard_init, keyboard_exit
  <1>2. irq_handlers \in [0..15 -> Handlers] /\ other_table \in [0..15 -> Handlers]
    BY DEF IInv, TypeOK
  <1>3. irq_handlers' \in [0..15 -> Handlers] /\ other_table' \in [0..15 -> Handlers]
    BY <1>2, StoredIsTyped DEF irq_register_handler, irq_unregister_handler, keyboard_init,
       keyboard_exit, register_irq_handler, Handlers
  <1>4. keyboard \in BOOLEAN /\ ready \in BOOLEAN
    BY DEF IInv, TypeOK
  <1>5. keyboard' \in BOOLEAN /\ ready' \in BOOLEAN
    BY <1>1, <1>4, Zenon
    DEF irq_register_handler, irq_unregister_handler, keyboard_init, keyboard_exit
  <1> QED BY <1>1, <1>3, <1>5, TablesKeep

(* Reading a mask: what will be written back is the mask with the line's   *)
(* bit as asked, and every other bit as it is.                             *)
LEMMA MaskReadKeeps ==
  ASSUME IInv, NEW line \in Lines \cup {2}, pic_set_mask(line) \/ pic_clear_mask(line)
  PROVE  IInv'
PROOF
  <1>1. /\ access = NoAccess /\ line \in 0..15
        /\ UNCHANGED <<chips, irq_handlers, other_table, frames, keyboard, ready>>
    BY PicAssumption DEF pic_set_mask, pic_clear_mask, Thread
  <1>2. PICK c \in 1..2, m \in 0..7 :
          /\ c = ChipOf(line) /\ m = line % 8
          /\ \A d \in 1..2, l \in 0..7 : 8 * (d - 1) + l = line <=> d = c /\ l = m
    <2>1. CASE line < 8
      <3>1. ChipOf(line) = 1 /\ line % 8 = line /\ line \in 0..7
        BY <1>1, <2>1 DEF ChipOf
      <3>2. \A l \in 0..7 : (8 * (1 - 1) + l = line <=> l = line) /\ 8 * (2 - 1) + l # line
        BY <1>1, <2>1
      <3> QED BY <3>1, <3>2
    <2>2. CASE line >= 8
      <3>1. ChipOf(line) = 2 /\ line % 8 = line - 8 /\ line - 8 \in 0..7
        BY <1>1, <2>2 DEF ChipOf
      <3>2. \A l \in 0..7 : (8 * (2 - 1) + l = line <=> l = line - 8) /\ 8 * (1 - 1) + l # line
        BY <1>1, <2>2
      <3> QED BY <3>1, <3>2
    <2> QED BY <1>1, <2>1, <2>2
  <1>3. PICK byte \in 0..255 : byte = chips[c].imr
    <2>1. chips[c] \in Chip
      BY DEF IInv, TypeOK
    <2> QED BY <2>1, ChipFields
  <1>4. /\ Set(byte, m) \in 0..255 /\ Clear(byte, m) \in 0..255
        /\ Bits(Set(byte, m)) = Bits(byte) \cup {m}
        /\ Bits(Clear(byte, m)) = Bits(byte) \ {m}
    BY SetAndClear, ZenonT(40)
  <1>5. PICK new \in 0..255 :
          /\ access' = [chip |-> c, byte |-> new]
          /\ \/ Bits(new) = Bits(byte) \cup {m} /\ masked' = masked \cup {line}
             \/ Bits(new) = Bits(byte) \ {m} /\ masked' = masked \ {line}
    BY <1>2, <1>3, <1>4 DEF pic_set_mask, pic_clear_mask
  <1>6. /\ \A d \in 1..2 : WillBe(d) = chips[d].imr
        /\ WillBe(c)' = new
        /\ \A d \in 1..2 : d # c => WillBe(d)' = chips[d].imr
    BY <1>1, <1>5 DEF WillBe, NoAccess
  <1>7. \A d \in 1..2, l \in 0..7 : l \in Bits(chips[d].imr) <=> 8 * (d - 1) + l \in masked
    BY <1>6 DEF IInv, MasksWillBeAsAsked
  <1>8. ASSUME NEW d \in 1..2, NEW l \in 0..7
        PROVE  l \in Bits(WillBe(d)') <=> 8 * (d - 1) + l \in masked'
    <2>1. CASE d = c
      <3>1. l \in Bits(byte) <=> 8 * (d - 1) + l \in masked
        BY <1>3, <1>7, <2>1
      <3>2. l = m <=> 8 * (d - 1) + l = line
        BY <1>2, <2>1
      <3>3. WillBe(d)' = new
        BY <1>6, <2>1
      <3> HIDE DEF Bits
      <3> QED BY <1>5, <3>1, <3>2, <3>3
    <2>2. CASE d # c
      <3>1. 8 * (d - 1) + l # line /\ WillBe(d)' = chips[d].imr
        BY <1>2, <1>6, <2>2
      <3> QED BY <1>5, <1>7, <3>1
    <2> QED BY <2>1, <2>2
  <1>9. \A d \in 1..2, l \in 0..7 : l \in Bits(WillBe(d))' <=> 8 * (d - 1) + l \in masked'
    BY <1>8 DEF Bits
  <1>10. MasksWillBeAsAsked'
    BY <1>5, <1>9 DEF MasksWillBeAsAsked
  <1>11. TypeOK'
    <2>1. access' \in [chip : 0..2, byte : 0..255]
      BY <1>5
    <2>2. TypeOK
      BY DEF IInv
    <2>3. masked' \subseteq 0..15
      <3>1. masked' = masked \cup {line} \/ masked' = masked \ {line}
        BY <1>5
      <3>2. masked \subseteq 0..15
        BY <2>2 DEF TypeOK
      <3>3. line \in 0..15
        BY <1>1
      <3>4. ASSUME NEW x \in masked' PROVE x \in 0..15
        <4>1. x \in masked \/ x = line
          BY <3>1
        <4> QED BY <3>2, <3>3, <4>1
      <3> QED BY <3>4
    <2> QED BY <1>1, <2>1, <2>2, <2>3 DEF TypeOK
  <1>12. AsIrqInitLeft' /\ ServiceWillEnd'
    BY <1>1 DEF IInv, AsIrqInitLeft, ServiceWillEnd, EndsSlave
  <1> QED BY <1>10, <1>11, <1>12 DEF IInv

(* The second half of a mask's change: the byte read before is written. *)
LEMMA MaskWrittenKeeps ==
  ASSUME IInv, mask_written
  PROVE  IInv'
PROOF
  <1>1. PICK c \in 1..2 : c = access.chip
    BY SMTT(30) DEF IInv, MasksWillBeAsAsked, mask_written
  <1>2. PICK k \in Chip, b \in 0..255 : k = chips[c] /\ b = access.byte /\ k.icw = 0
    BY <1>1, SMTT(30) DEF IInv, TypeOK, AsIrqInitLeft
  <1>3. PICK q : q = [k EXCEPT !.imr = b]
    OBVIOUS
  <1>4. /\ q \in Chip /\ q.imr = b /\ q.irr = k.irr /\ q.isr = k.isr
        /\ q.icw = k.icw /\ q.offset = k.offset
    BY <1>3, MaskFields
  <1>5. /\ frames = <<>> /\ access' = NoAccess
        /\ UNCHANGED <<irq_handlers, other_table, frames, keyboard, ready, masked>>
        /\ chips \in [1..2 -> Chip] /\ chips' \in [1..2 -> Chip] /\ chips'[c] = q
        /\ \A d \in 1..2 : d # c => chips'[d] = chips[d]
    <2>1. WithData(k, b) = q
      BY <1>2, <1>3 DEF WithData
    <2>2. chips' = [chips EXCEPT ![c] = q]
      BY <1>1, <1>2, <2>1 DEF mask_written
    <2>3. chips \in [1..2 -> Chip]
      BY DEF IInv, TypeOK
    <2> QED BY <1>4, <2>2, <2>3 DEF mask_written
  <1>6. /\ chips'[c].imr = access.byte
        /\ \A d \in 1..2 : /\ chips'[d].icw = chips[d].icw /\ chips'[d].offset = chips[d].offset
                           /\ chips'[d].irr = chips[d].irr /\ chips'[d].isr = chips[d].isr
    BY <1>2, <1>4, <1>5
  <1>7. \A d \in 1..2 : WillBe(d)' = WillBe(d)
    <2>1. WillBe(c) = access.byte /\ \A d \in 1..2 : d # c => WillBe(d) = chips[d].imr
      BY <1>1, <1>2 DEF WillBe
    <2>2. \A d \in 1..2 : WillBe(d)' = chips'[d].imr
      BY <1>5 DEF WillBe, NoAccess
    <2>3. chips'[c].imr = access.byte /\ \A d \in 1..2 : d # c => chips'[d].imr = chips[d].imr
      BY <1>5, <1>6
    <2> QED BY <2>1, <2>2, <2>3
  <1>8. MasksWillBeAsAsked'
    BY <1>5, <1>7 DEF IInv, MasksWillBeAsAsked, NoAccess
  <1>9. AsIrqInitLeft'
    BY <1>6 DEF IInv, AsIrqInitLeft
  <1>10. ServiceWillEnd'
    BY <1>5, <1>6 DEF IInv, ServiceWillEnd, EndsSlave
  <1>11. TypeOK'
    <2>1. TypeOK /\ access' \in [chip : 0..2, byte : 0..255]
      BY <1>5 DEF IInv, NoAccess
    <2> QED BY <1>5, <2>1 DEF TypeOK
  <1> QED BY <1>8, <1>9, <1>10, <1>11 DEF IInv

(* A request shows in the controller's request register, nowhere else.     *)
LEMMA RequestFields ==
  ASSUME NEW chip \in Chip, NEW m \in 0..7, NEW q, q = [chip EXCEPT !.irr = @ \cup {m}]
  PROVE  /\ q \in Chip /\ q.irr = chip.irr \cup {m} /\ q.isr = chip.isr
         /\ q.imr = chip.imr /\ q.icw = chip.icw /\ q.offset = chip.offset
PROOF
  <1>1. DOMAIN chip = {"offset", "imr", "irr", "isr", "icw"}
    BY DEF Chip
  <1>2. /\ q.irr = chip.irr \cup {m} /\ q.isr = chip.isr
        /\ q.imr = chip.imr /\ q.icw = chip.icw /\ q.offset = chip.offset
    BY <1>1
  <1>3. chip.irr \subseteq 0..7
    BY DEF Chip
  <1>4. q = [offset |-> chip.offset, imr |-> chip.imr, irr |-> chip.irr \cup {m},
             isr |-> chip.isr, icw |-> chip.icw]
    BY <1>1 DEF Chip
  <1>5. q \in Chip
    BY <1>3, <1>4 DEF Chip
  <1> QED BY <1>2, <1>5

(* A device raises its line. *)
LEMMA RaiseKeeps ==
  ASSUME IInv, NEW line \in Lines, raise(line), keyboard' \in BOOLEAN,
         UNCHANGED <<irq_handlers, other_table, frames, access, ready, masked>>
  PROVE  IInv'
PROOF
  <1>1. PICK c \in 1..2, m \in 0..7 :
          /\ c = ChipOf(line) /\ m = line % 8 /\ (c = 1 => m # 2)
    <2>1. line \in 0..15 /\ line # 2
      BY PicAssumption
    <2>2. line % 8 \in 0..7 /\ (line < 8 => line % 8 = line)
      BY <2>1
    <2> QED BY <2>1, <2>2 DEF ChipOf
  <1>2. chips \in [1..2 -> Chip] /\ chips' = [chips EXCEPT ![c].irr = @ \cup {m}]
    BY <1>1 DEF raise, IInv, TypeOK
  <1>3. [chips[c] EXCEPT !.irr = @ \cup {m}] \in Chip
    BY <1>2, RequestFields
  <1>4. /\ chips' \in [1..2 -> Chip] /\ chips'[c] = [chips[c] EXCEPT !.irr = @ \cup {m}]
        /\ \A d \in 1..2 : d # c => chips'[d] = chips[d]
    BY <1>2, <1>3
  <1>5. /\ chips'[c].irr = chips[c].irr \cup {m}
        /\ \A d \in 1..2 : /\ chips'[d].icw = chips[d].icw /\ chips'[d].offset = chips[d].offset
                           /\ chips'[d].imr = chips[d].imr /\ chips'[d].isr = chips[d].isr
    <2>1. chips[c] \in Chip
      BY <1>2
    <2>2. /\ chips'[c].irr = chips[c].irr \cup {m} /\ chips'[c].isr = chips[c].isr
          /\ chips'[c].imr = chips[c].imr /\ chips'[c].icw = chips[c].icw
          /\ chips'[c].offset = chips[c].offset
      BY <1>4, <2>1, RequestFields
    <2> QED BY <1>4, <2>2
  <1>6. 2 \notin chips'[1].irr
    <2>1. 2 \notin chips[1].irr
      BY DEF IInv, AsIrqInitLeft
    <2>2. CASE c = 1
      BY <1>1, <1>5, <2>1, <2>2
    <2>3. CASE c # 1
      BY <1>4, <2>1, <2>3
    <2> QED BY <2>2, <2>3
  <1>7. AsIrqInitLeft' /\ MasksWillBeAsAsked'
    BY <1>5, <1>6, MasksUntouched
  <1>8. ServiceWillEnd'
    BY <1>5 DEF IInv, ServiceWillEnd, EndsSlave
  <1>9. TypeOK'
    BY <1>4 DEF IInv, TypeOK
  <1> QED BY <1>7, <1>8, <1>9 DEF IInv

LEMMA FrameTypes ==
  ASSUME TypeOK, frames # <<>>
  PROVE  /\ Len(frames) \in 1..2 /\ Frame = frames[1]
         /\ frames[1] \in [int_no : 0..47, stage : {"entered", "faulted", "called"}]
PROOF
  <1> DEFINE S == [int_no : 0..47, stage : {"entered", "faulted", "called"}]
  <1>1. frames \in Seq(S)
    BY DEF TypeOK
  <1> HIDE DEF S
  <1>2. Len(frames) \in Nat /\ Len(frames) # 0
    BY <1>1, EmptySeq
  <1>6. Len(frames) <= 2
    BY Zenon DEF TypeOK
  <1>3. Len(frames) \in 1..2 /\ 1 \in 1..Len(frames)
    <2>1. \A n \in Nat : n # 0 /\ n <= 2 => n \in 1..2 /\ 1 \in 1..n
      OBVIOUS
    <2> QED BY <1>2, <1>6, <2>1, Zenon
  <1>4. Frame = frames[1]
    BY <1>1 DEF Frame
  <1>5. frames[1] \in S
    BY <1>1, <1>3, ElementOfSeq
  <1> QED BY <1>3, <1>4, <1>5 DEF S

(* irq_handler as far as the call of the handler. *)
LEMMA HandlerCalledKeeps ==
  ASSUME IInv, handler_called
  PROVE  IInv'
PROOF
  <1> DEFINE S == [int_no : 0..47, stage : {"entered", "faulted", "called"}]
  <1>1. /\ frames # <<>> /\ frames' = [frames EXCEPT ![1] = [@ EXCEPT !.stage = "called"]]
        /\ UNCHANGED <<chips, irq_handlers, other_table, access, ready, masked>>
    BY DEF handler_called
  <1>2. Len(frames) \in 1..2 /\ frames \in Seq(S) /\ frames[1] \in S
    BY <1>1, FrameTypes DEF IInv, TypeOK
  <1>3. [frames[1] EXCEPT !.stage = "called"] \in S
    BY <1>2
  <1>4. frames' \in Seq(S) /\ Len(frames') = Len(frames) /\ frames'[1].int_no = frames[1].int_no
    <2>1. PICK e \in S : e = [frames[1] EXCEPT !.stage = "called"]
      BY <1>3
    <2>2. frames' = [frames EXCEPT ![1] = e]
      BY <1>1, <2>1
    <2>3. frames' \in Seq(S) /\ Len(frames') = Len(frames) /\ frames'[1] = e
      BY <1>2, <2>2, ExceptSeq
    <2>4. e.int_no = frames[1].int_no
      BY <1>2, <2>1
    <2> QED BY <2>3, <2>4
  <1>5. keyboard' \in BOOLEAN
    BY Zenon DEF IInv, TypeOK, handler_called, keyboard_handler_runs
  <1>6. TypeOK'
    BY <1>1, <1>2, <1>4, <1>5 DEF IInv, TypeOK
  <1>7. AsIrqInitLeft' /\ MasksWillBeAsAsked'
    BY <1>1 DEF IInv, AsIrqInitLeft, MasksWillBeAsAsked, WillBe
  <1>8. ServiceWillEnd'
    <2>1. frames' # <<>>
      BY <1>2, <1>4
    <2>2. EndsSlave(frames[1])' <=> EndsSlave(frames[1])
      BY <1>4 DEF EndsSlave
    <2> QED BY <1>1, <1>4, <2>1, <2>2 DEF IInv, ServiceWillEnd
  <1> QED BY <1>6, <1>7, <1>8 DEF IInv

(* The end of interrupt ends whatever is in service, on the slave only if  *)
(* it is told to; a frame below, of a handler that faulted, then has       *)
(* nothing left to end.                                                    *)
LEMMA HandlerReturnedKeeps ==
  ASSUME IInv, handler_returned
  PROVE  IInv'
PROOF
  <1> DEFINE S == [int_no : 0..47, stage : {"entered", "faulted", "called"}]
             irq == (frames[1].int_no - 32) % 256
  <1>1. /\ frames # <<>> /\ frames' = Tail(frames)
        /\ UNCHANGED <<irq_handlers, other_table, access, keyboard, ready, masked>>
    BY DEF handler_returned
  <1>2. /\ Len(frames) \in 1..2 /\ Frame = frames[1] /\ frames[1] \in S /\ frames \in Seq(S)
        /\ chips[1] \in Chip /\ chips[2] \in Chip
    BY <1>1, FrameTypes DEF IInv, TypeOK
  <1>3. chips' = [c \in 1..2 |-> IF c = 1 \/ irq >= 8 THEN EndOfInterrupt(chips[c]) ELSE chips[c]]
    BY <1>2 DEF handler_returned, pic_send_eoi
  <1>4. frames' \in Seq(S) /\ Len(frames') = Len(frames) - 1
    <2> HIDE DEF S
    <2> QED BY <1>1, <1>2, HeadTailProperties
  <1>5. \A c \in 1..2 : chips[c].isr = {} \/ \E l \in 0..7 : chips[c].isr = {l}
    BY DEF IInv, ServiceWillEnd
  <1>6. \A c \in 1..2 : /\ EndOfInterrupt(chips[c]) \in Chip /\ EndOfInterrupt(chips[c]).isr = {}
                        /\ EndOfInterrupt(chips[c]).imr = chips[c].imr
                        /\ EndOfInterrupt(chips[c]).irr = chips[c].irr
                        /\ EndOfInterrupt(chips[c]).icw = chips[c].icw
                        /\ EndOfInterrupt(chips[c]).offset = chips[c].offset
    BY <1>2, <1>5, EndEndsTheOne
  <1>7. irq >= 8 \/ chips[2].isr = {}
    BY DEF IInv, ServiceWillEnd, EndsSlave
  <1> HIDE DEF irq
  <1>8. /\ chips' \in [1..2 -> Chip]
        /\ \A c \in 1..2 : /\ chips'[c].isr = {} /\ chips'[c].irr = chips[c].irr
                           /\ chips'[c].imr = chips[c].imr /\ chips'[c].icw = chips[c].icw
                           /\ chips'[c].offset = chips[c].offset
    <2>1. \A c \in 1..2 : chips'[c] = IF c = 1 \/ irq >= 8 THEN EndOfInterrupt(chips[c]) ELSE chips[c]
      BY <1>3
    <2>2. \A c \in 1..2 : c = 1 \/ c = 2
      OBVIOUS
    <2>3. chips' \in [1..2 -> Chip]
      BY <1>2, <1>3, <1>6, <2>2
    <2>4. ASSUME NEW c \in 1..2
          PROVE  /\ chips'[c].isr = {} /\ chips'[c].irr = chips[c].irr
                 /\ chips'[c].imr = chips[c].imr /\ chips'[c].icw = chips[c].icw
                 /\ chips'[c].offset = chips[c].offset
      <3>1. CASE c = 1 \/ irq >= 8
        <4>1. chips'[c] = EndOfInterrupt(chips[c])
          BY <2>1, <3>1
        <4> QED BY <1>6, <4>1
      <3>2. CASE ~(c = 1 \/ irq >= 8)
        <4>1. chips'[c] = chips[c] /\ chips[c].isr = {}
          BY <1>7, <2>1, <2>2, <3>2
        <4> QED BY <4>1
      <3> QED BY <3>1, <3>2
    <2> QED BY <2>3, <2>4
  <1>9. TypeOK'
    <2>1. Len(frames') <= 2
      BY <1>2, <1>4
    <2> QED BY <1>1, <1>4, <1>8, <2>1 DEF IInv, TypeOK
  <1>10. AsIrqInitLeft' /\ MasksWillBeAsAsked'
    <2>1. 2 \notin chips'[1].irr
      BY <1>8 DEF IInv, AsIrqInitLeft
    <2> QED BY <1>1, <1>8, <2>1, MasksUntouched
  <1>11. ServiceWillEnd'
    <2>1. Len(frames') # 2
      <3>1. \A n \in 1..2 : n - 1 # 2
        OBVIOUS
      <3> QED BY <1>2, <1>4, <3>1, Zenon
    <2> QED BY <1>8, <2>1 DEF ServiceWillEnd
  <1> QED BY <1>9, <1>10, <1>11 DEF IInv

LEMMA ExceptionKeeps ==
  ASSUME IInv, NEW vector \in Exceptions, exception(vector)
  PROVE  IInv'
PROOF
  <1> DEFINE S == [int_no : 0..47, stage : {"entered", "faulted", "called"}]
  <1>1. /\ Len(frames) = 1 /\ frames' = <<Entered(vector), [Frame EXCEPT !.stage = "faulted"]>>
        /\ UNCHANGED <<chips, irq_handlers, other_table, access, keyboard, ready, masked>>
    BY DEF exception
  <1>2. Frame \in S /\ vector \in 0..31
    <2>1. frames # <<>>
      BY <1>1
    <2> QED BY <2>1, FrameTypes, DispatchAssumption DEF IInv
  <1>3. Entered(vector) \in S /\ [Frame EXCEPT !.stage = "faulted"] \in S
    BY <1>2 DEF Entered
  <1>4. PICK e \in S, f \in S : e = Entered(vector) /\ frames' = <<e, f>>
    BY <1>1, <1>3
  <1>5. frames' \in Seq(S) /\ Len(frames') = 2 /\ frames'[1] = e /\ frames' # <<>>
    BY <1>4
  <1>6. EndsSlave(frames[1])'
    <2>1. frames'[1].int_no = vector
      BY <1>4, <1>5 DEF Entered
    <2>2. \A v \in 0..31 : (v - 32) % 256 >= 8
      <3>1. \A v \in 0..31 : (v - 32) % 256 = v + 224
        OBVIOUS
      <3> QED BY <3>1
    <2> QED BY <1>2, <2>1, <2>2 DEF EndsSlave
  <1>7. TypeOK'
    BY <1>1, <1>5 DEF IInv, TypeOK
  <1>8. AsIrqInitLeft' /\ MasksWillBeAsAsked'
    BY <1>1 DEF IInv, AsIrqInitLeft, MasksWillBeAsAsked, WillBe
  <1>9. ServiceWillEnd'
    BY <1>1, <1>5, <1>6 DEF IInv, ServiceWillEnd
  <1> QED BY <1>7, <1>8, <1>9 DEF IInv

(* What an acknowledgement changes in a controller. *)
LEMMA AcknowledgeFields ==
  ASSUME NEW chip \in Chip, NEW l \in 0..7, NEW q, q = Acknowledge(chip, l)
  PROVE  /\ q \in Chip /\ q.isr = chip.isr \cup {l} /\ q.irr = chip.irr \ {l}
         /\ q.imr = chip.imr /\ q.icw = chip.icw /\ q.offset = chip.offset
PROOF
  <1>1. q = [chip EXCEPT !.irr = @ \ {l}, !.isr = @ \cup {l}]
    BY DEF Acknowledge
  <1>2. DOMAIN chip = {"offset", "imr", "irr", "isr", "icw"} /\ DOMAIN q = DOMAIN chip
    BY <1>1 DEF Chip
  <1>3. q.isr = chip.isr \cup {l} /\ q.irr = chip.irr \ {l}
    BY <1>1 DEF Chip
  <1>4. q.imr = chip.imr /\ q.icw = chip.icw /\ q.offset = chip.offset
    BY <1>1 DEF Chip
  <1>6. q = [offset |-> chip.offset, imr |-> chip.imr, irr |-> chip.irr \ {l},
             isr |-> chip.isr \cup {l}, icw |-> chip.icw]
    BY <1>1 DEF Chip
  <1>7. chip.irr \ {l} \subseteq 0..7 /\ chip.isr \cup {l} \subseteq 0..7
    BY DEF Chip
  <1>5. q \in Chip
    BY <1>6, <1>7 DEF Chip
  <1> QED BY <1>3, <1>4, <1>5

(* What is passed on to the processor: a line of the master, or the        *)
(* slave's line, and then one of the slave's.                              *)
LEMMA PassedOn ==
  ASSUME IInv
  PROVE  /\ Slave \subseteq chips[2].irr /\ Slave \subseteq 0..7 /\ Master \subseteq 0..7
         /\ Master # {} => First(Master) \in Master
         /\ Slave # {} => First(Slave) \in Slave
         /\ 2 \in Master => Slave # {}
PROOF
  <1>1. /\ chips[1] \in Chip /\ chips[2] \in Chip /\ 2 \notin chips[1].irr
    BY DEF IInv, TypeOK, AsIrqInitLeft
  <1>2. chips[1].irr \subseteq 0..7 /\ chips[2].irr \subseteq 0..7
    BY <1>1, ChipFields
  <1>3. /\ Slave \subseteq chips[2].irr
        /\ Master \subseteq chips[1].irr \cup {l \in {2} : Slave # {}}
    BY DEF Slave, Master, PassesOn
  <1>4. Slave \subseteq 0..7 /\ Master \subseteq 0..7 /\ (2 \in Master => Slave # {})
    BY <1>1, <1>2, <1>3
  <1>5. /\ Master # {} => First(Master) \in Master
        /\ Slave # {} => First(Slave) \in Slave
    BY <1>4, FirstIsThere
  <1> QED BY <1>3, <1>4, <1>5

(* One interrupt, acknowledged by the processor when nothing was handled.  *)
LEMMA EnteredKeeps ==
  ASSUME IInv, frames = <<>>, NEW vector \in 32..47, frames' = <<Entered(vector)>>,
         chips' \in [1..2 -> Chip],
         \A c \in 1..2 : /\ chips'[c].imr = chips[c].imr /\ chips'[c].icw = chips[c].icw
                         /\ chips'[c].offset = chips[c].offset
                         /\ chips'[c].irr \subseteq chips[c].irr
                         /\ chips'[c].isr = {} \/ \E l \in 0..7 : chips'[c].isr = {l},
         chips'[2].isr # {} => vector >= 40,
         UNCHANGED <<irq_handlers, other_table, access, keyboard, ready, masked>>
  PROVE  IInv'
PROOF
  <1> DEFINE S == [int_no : 0..47, stage : {"entered", "faulted", "called"}]
  <1>1. PICK e \in S : e = Entered(vector) /\ frames' = <<e>> /\ e.int_no = vector
    <2>1. Entered(vector) \in S /\ Entered(vector).int_no = vector
      BY DEF Entered
    <2> QED BY <2>1
  <1> HIDE DEF S
  <1>2. /\ frames' \in Seq(S) /\ Len(frames') = 1 /\ frames'[1] = e /\ frames' # <<>>
    BY <1>1
  <1>3. AsIrqInitLeft' /\ MasksWillBeAsAsked'
    <2>1. 2 \notin chips'[1].irr
      BY DEF IInv, AsIrqInitLeft
    <2> QED BY <2>1, MasksUntouched
  <1>4. vector >= 40 => EndsSlave(frames[1])'
    <2>1. \A v \in 32..47 : v >= 40 => (v - 32) % 256 >= 8
      OBVIOUS
    <2> QED BY <1>1, <1>2, <2>1 DEF EndsSlave
  <1>5. ServiceWillEnd'
    <2>1. Len(frames') # 2
      BY <1>2
    <2> QED BY <1>2, <1>4, <2>1 DEF ServiceWillEnd
  <1>6. TypeOK'
    <2>1. Len(frames') <= 2
      BY <1>2
    <2> QED BY <1>2, <2>1 DEF IInv, TypeOK, S
  <1> QED BY <1>3, <1>5, <1>6 DEF IInv

(* The processor takes the interrupt the master passes on. *)
LEMMA InterruptKeeps ==
  ASSUME IInv, interrupt
  PROVE  IInv'
PROOF
  <1>1. /\ frames = <<>> /\ Master # {} /\ chips' = Acknowledged /\ frames' = <<Entered(Vector)>>
        /\ UNCHANGED <<irq_handlers, other_table, access, keyboard, ready, masked>>
    BY DEF interrupt
  <1>2. /\ chips[1] \in Chip /\ chips[2] \in Chip /\ chips[1].isr = {} /\ chips[2].isr = {}
        /\ chips[1].offset = 32 /\ chips[2].offset = 40
    BY <1>1 DEF IInv, TypeOK, AsIrqInitLeft, ServiceWillEnd
  <1>3. PICK l \in 0..7 : l = First(Master) /\ (l = 2 => Slave # {})
    BY <1>1, PassedOn
  <1>4. PICK a \in Chip :
          /\ a = Acknowledge(chips[1], l)
          /\ a.isr = {l} /\ a.irr \subseteq chips[1].irr /\ a.imr = chips[1].imr
          /\ a.icw = chips[1].icw /\ a.offset = chips[1].offset
    BY <1>2, AcknowledgeFields
  <1>5. CASE l # 2
    <2>1. Vector = 32 + l /\ 32 + l \in 32..47
      BY <1>2, <1>3, <1>5 DEF Vector
    <2>2. chips' = [c \in 1..2 |-> IF c = 1 THEN a ELSE chips[2]]
      BY <1>1, <1>3, <1>4, <1>5 DEF Acknowledged
    <2>3. chips' \in [1..2 -> Chip] /\ chips'[1] = a /\ chips'[2] = chips[2]
      BY <1>2, <2>2
    <2>4. \A c \in 1..2 : /\ chips'[c].imr = chips[c].imr /\ chips'[c].icw = chips[c].icw
                          /\ chips'[c].offset = chips[c].offset
                          /\ chips'[c].irr \subseteq chips[c].irr
                          /\ chips'[c].isr = {} \/ \E k \in 0..7 : chips'[c].isr = {k}
      BY <1>2, <1>4, <2>3
    <2>5. chips'[2].isr = {}
      BY <1>2, <2>3
    <2>6. PICK v \in 32..47 : v = Vector /\ frames' = <<Entered(v)>>
      BY <1>1, <2>1
    <2> QED BY <1>1, <2>3, <2>4, <2>5, <2>6, EnteredKeeps
  <1>6. CASE l = 2
    <2>1. PICK k \in 0..7 : k = First(Slave)
      BY <1>3, <1>6, PassedOn
    <2>2. PICK b \in Chip :
            /\ b = Acknowledge(chips[2], k)
            /\ b.isr = {k} /\ b.irr \subseteq chips[2].irr /\ b.imr = chips[2].imr
            /\ b.icw = chips[2].icw /\ b.offset = chips[2].offset
      BY <1>2, AcknowledgeFields
    <2>3. Vector = 40 + k /\ 40 + k \in 32..47 /\ 40 + k >= 40
      BY <1>2, <1>3, <1>6, <2>1 DEF Vector
    <2>4. chips' = [c \in 1..2 |-> IF c = 1 THEN a ELSE b]
      BY <1>1, <1>3, <1>4, <1>6, <2>1, <2>2 DEF Acknowledged
    <2>5. chips' \in [1..2 -> Chip] /\ chips'[1] = a /\ chips'[2] = b
      BY <2>4
    <2>6. \A c \in 1..2 : /\ chips'[c].imr = chips[c].imr /\ chips'[c].icw = chips[c].icw
                          /\ chips'[c].offset = chips[c].offset
                          /\ chips'[c].irr \subseteq chips[c].irr
                          /\ chips'[c].isr = {} \/ \E m \in 0..7 : chips'[c].isr = {m}
      BY <1>4, <2>2, <2>5
    <2>7. PICK v \in 32..47 : v = Vector /\ v >= 40 /\ frames' = <<Entered(v)>>
      BY <1>1, <2>3
    <2> QED BY <1>1, <2>5, <2>6, <2>7, EnteredKeeps
  <1> QED BY <1>5, <1>6

(* The fields of a controller whose requests are taken back, or whose line *)
(* 2 is put into service.                                                  *)
LEMMA TakenBackFields ==
  ASSUME NEW chip \in Chip, NEW gone
  PROVE  /\ [chip EXCEPT !.irr = @ \ gone] \in Chip
         /\ [chip EXCEPT !.irr = @ \ gone].irr \subseteq chip.irr
         /\ [chip EXCEPT !.irr = @ \ gone].isr = chip.isr
         /\ [chip EXCEPT !.irr = @ \ gone].imr = chip.imr
         /\ [chip EXCEPT !.irr = @ \ gone].icw = chip.icw
         /\ [chip EXCEPT !.irr = @ \ gone].offset = chip.offset
PROOF
  BY DEF Chip

LEMMA ServedFields ==
  ASSUME NEW chip \in Chip, chip.isr = {}
  PROVE  /\ [chip EXCEPT !.isr = @ \cup {2}] \in Chip
         /\ [chip EXCEPT !.isr = @ \cup {2}].isr = {2}
         /\ [chip EXCEPT !.isr = @ \cup {2}].irr = chip.irr
         /\ [chip EXCEPT !.isr = @ \cup {2}].imr = chip.imr
         /\ [chip EXCEPT !.isr = @ \cup {2}].icw = chip.icw
         /\ [chip EXCEPT !.isr = @ \cup {2}].offset = chip.offset
PROOF
  BY DEF Chip

(* A request taken back: nothing is put into service for it, but for the   *)
(* slave's the master has its line 2.                                      *)
LEMMA SpuriousKeeps ==
  ASSUME IInv, interrupt_spurious
  PROVE  IInv'
PROOF
  <1>1. /\ frames = <<>>
        /\ UNCHANGED <<irq_handlers, other_table, access, keyboard, ready, masked>>
    BY DEF interrupt_spurious
  <1>2. /\ chips \in [1..2 -> Chip] /\ chips[1] \in Chip /\ chips[2] \in Chip
        /\ chips[1].isr = {} /\ chips[2].isr = {}
        /\ chips[1].offset = 32 /\ chips[2].offset = 40
    BY <1>1 DEF IInv, TypeOK, AsIrqInitLeft, ServiceWillEnd
  <1>3. CASE /\ chips' = [chips EXCEPT ![1].irr = @ \ Master]
             /\ frames' = <<Entered(chips[1].offset + 7)>>
    <2>1. PICK a \in Chip :
            /\ a = [chips[1] EXCEPT !.irr = @ \ Master]
            /\ a.isr = {} /\ a.irr \subseteq chips[1].irr /\ a.imr = chips[1].imr
            /\ a.icw = chips[1].icw /\ a.offset = chips[1].offset
      <3>1. PICK chip \in Chip : chip = chips[1]
        BY <1>2
      <3>2. PICK gone : gone = Master
        OBVIOUS
      <3>3. /\ [chip EXCEPT !.irr = @ \ gone] \in Chip
            /\ [chip EXCEPT !.irr = @ \ gone].irr \subseteq chip.irr
            /\ [chip EXCEPT !.irr = @ \ gone].isr = chip.isr
            /\ [chip EXCEPT !.irr = @ \ gone].imr = chip.imr
            /\ [chip EXCEPT !.irr = @ \ gone].icw = chip.icw
            /\ [chip EXCEPT !.irr = @ \ gone].offset = chip.offset
        BY TakenBackFields
      <3> QED BY <1>2, <3>1, <3>2, <3>3
    <2>2. chips' \in [1..2 -> Chip] /\ chips'[1] = a /\ chips'[2] = chips[2]
      BY <1>2, <1>3, <2>1
    <2>3. \A c \in 1..2 : /\ chips'[c].imr = chips[c].imr /\ chips'[c].icw = chips[c].icw
                          /\ chips'[c].offset = chips[c].offset
                          /\ chips'[c].irr \subseteq chips[c].irr
                          /\ chips'[c].isr = {} \/ \E k \in 0..7 : chips'[c].isr = {k}
      <3>1. /\ chips'[1].isr = {} /\ chips'[1].imr = chips[1].imr
            /\ chips'[1].icw = chips[1].icw /\ chips'[1].offset = chips[1].offset
            /\ chips'[1].irr \subseteq chips[1].irr
        BY <2>1, <2>2
      <3>2. chips'[2] = chips[2] /\ chips'[2].isr = {}
        BY <1>2, <2>2
      <3> QED BY <3>1, <3>2
    <2>4. chips'[2].isr = {}
      BY <1>2, <2>2
    <2>5. PICK v \in 32..47 : v = 39 /\ frames' = <<Entered(v)>>
      BY <1>2, <1>3
    <2> QED BY <1>1, <2>2, <2>3, <2>4, <2>5, EnteredKeeps
  <1>4. CASE /\ chips' = [chips EXCEPT ![2].irr = @ \ Slave, ![1].isr = @ \cup {2}]
             /\ frames' = <<Entered(chips[2].offset + 7)>>
    <2>1. PICK a \in Chip :
            /\ a = [chips[1] EXCEPT !.isr = @ \cup {2}]
            /\ a.isr = {2} /\ a.irr = chips[1].irr /\ a.imr = chips[1].imr
            /\ a.icw = chips[1].icw /\ a.offset = chips[1].offset
      BY <1>2, ServedFields
    <2>2. PICK b \in Chip :
            /\ b = [chips[2] EXCEPT !.irr = @ \ Slave]
            /\ b.isr = {} /\ b.irr \subseteq chips[2].irr /\ b.imr = chips[2].imr
            /\ b.icw = chips[2].icw /\ b.offset = chips[2].offset
      <3>1. PICK chip \in Chip : chip = chips[2]
        BY <1>2
      <3>2. PICK gone : gone = Slave
        OBVIOUS
      <3>3. /\ [chip EXCEPT !.irr = @ \ gone] \in Chip
            /\ [chip EXCEPT !.irr = @ \ gone].irr \subseteq chip.irr
            /\ [chip EXCEPT !.irr = @ \ gone].isr = chip.isr
            /\ [chip EXCEPT !.irr = @ \ gone].imr = chip.imr
            /\ [chip EXCEPT !.irr = @ \ gone].icw = chip.icw
            /\ [chip EXCEPT !.irr = @ \ gone].offset = chip.offset
        BY TakenBackFields
      <3> QED BY <1>2, <3>1, <3>2, <3>3
    <2>3. chips' \in [1..2 -> Chip] /\ chips'[1] = a /\ chips'[2] = b
      BY <1>2, <1>4, <2>1, <2>2
    <2>4. \A c \in 1..2 : /\ chips'[c].imr = chips[c].imr /\ chips'[c].icw = chips[c].icw
                          /\ chips'[c].offset = chips[c].offset
                          /\ chips'[c].irr \subseteq chips[c].irr
                          /\ chips'[c].isr = {} \/ \E k \in 0..7 : chips'[c].isr = {k}
      <3>1. /\ chips'[1].isr = {2} /\ chips'[1].imr = chips[1].imr
            /\ chips'[1].icw = chips[1].icw /\ chips'[1].offset = chips[1].offset
            /\ chips'[1].irr \subseteq chips[1].irr
        BY <2>1, <2>3
      <3>2. /\ chips'[2].isr = {} /\ chips'[2].imr = chips[2].imr
            /\ chips'[2].icw = chips[2].icw /\ chips'[2].offset = chips[2].offset
            /\ chips'[2].irr \subseteq chips[2].irr
        BY <2>2, <2>3
      <3>3. \E k \in 0..7 : chips'[1].isr = {k}
        BY <3>1
      <3> QED BY <3>1, <3>2, <3>3
    <2>5. PICK v \in 32..47 : v = 47 /\ v >= 40 /\ frames' = <<Entered(v)>>
      BY <1>2, <1>4
    <2> QED BY <1>1, <2>3, <2>4, <2>5, EnteredKeeps
  <1> QED BY <1>3, <1>4 DEF interrupt_spurious

LEMMA RequestKeeps ==
  ASSUME IInv, (\E line \in Lines : request(line)) \/ key_pressed
  PROVE  IInv'
PROOF
  <1>1. keyboard \in BOOLEAN
    BY DEF IInv, TypeOK
  <1>2. CASE \E line \in Lines : request(line)
    BY <1>1, <1>2, RaiseKeeps DEF request
  <1>3. CASE key_pressed
    <2>1. 1 \in Lines /\ raise(1) /\ UNCHANGED <<irq_handlers, other_table, frames, access, ready, masked>>
      BY <1>3 DEF key_pressed
    <2>2. keyboard' \in BOOLEAN
      BY <1>3, Zenon DEF key_pressed
    <2> QED BY <2>1, <2>2, RaiseKeeps
  <1> QED BY <1>2, <1>3

LEMMA StutterKeeps ==
  ASSUME IInv, UNCHANGED vars
  PROVE  IInv'
PROOF
  <1>1. UNCHANGED <<chips, irq_handlers, other_table, frames, access, keyboard, ready, masked>>
    BY DEF vars
  <1>2. /\ irq_handlers \in [0..15 -> Handlers] /\ other_table \in [0..15 -> Handlers]
        /\ keyboard \in BOOLEAN /\ ready \in BOOLEAN
    BY DEF IInv, TypeOK
  <1>3. /\ irq_handlers' \in [0..15 -> Handlers] /\ other_table' \in [0..15 -> Handlers]
        /\ keyboard' \in BOOLEAN /\ ready' \in BOOLEAN
    BY <1>1, <1>2, Zenon
  <1> QED BY <1>1, <1>3, TablesKeep

LEMMA NextKeeps == IInv /\ [Next]_vars => IInv'
PROOF
  <1> SUFFICES ASSUME IInv, [Next]_vars PROVE IInv'
    OBVIOUS
  <1>1. ASSUME NEW irq \in Irqs, irq_unregister_handler(irq) PROVE IInv'
    <2>1. driver \in {NULL, driver}
      OBVIOUS
    <2> QED BY <1>1, <2>1, ThreadKeeps
  <1>2. ASSUME NEW irq \in Irqs, NEW h \in {NULL, driver}, irq_register_handler(irq, h) PROVE IInv'
    BY <1>2, ThreadKeeps
  <1>3. ASSUME keyboard_init \/ keyboard_exit PROVE IInv'
    <2>1. driver \in {NULL, driver}
      OBVIOUS
    <2> QED BY <1>3, <2>1, ThreadKeeps
  <1>4. ASSUME NEW line \in Lines \cup {2}, pic_set_mask(line) \/ pic_clear_mask(line) PROVE IInv'
    BY <1>4, MaskReadKeeps
  <1>5. ASSUME NEW vector \in Exceptions, exception(vector) PROVE IInv'
    BY <1>5, ExceptionKeeps
  <1> QED BY <1>1, <1>2, <1>3, <1>4, <1>5, RequestKeeps, MaskWrittenKeeps, HandlerCalledKeeps,
             HandlerReturnedKeeps, InterruptKeeps, SpuriousKeeps, StutterKeeps
          DEF Next, irq_handler

LEMMA Invariant == Spec => []IInv
PROOF
  BY InitIsInv, NextKeeps, PTL DEF Spec

(* Every table, frame, mask and controller keeps its type: no number       *)
(* outside a table is stored in it, whatever is registered.                *)
THEOREM TypeCorrect == Spec => []TypeOK
PROOF
  <1>1. IInv => TypeOK
    BY DEF IInv
  <1> QED BY <1>1, Invariant, PTL

(* When irq_handler has returned to the thread, neither controller has a   *)
(* line in service, whatever it was called for.                            *)
THEOREM ServiceEnds == Spec => []NothingLeftInService
PROOF
  <1>1. IInv => NothingLeftInService
    BY DEF IInv, ServiceWillEnd, NothingLeftInService
  <1> QED BY <1>1, Invariant, PTL

(* The mask registers are what the calls of pic_set_mask and               *)
(* pic_clear_mask ask for, with interrupts between a read and a write.     *)
THEOREM MasksAreKept == Spec => []MasksAreAsAsked
PROOF
  <1>1. ASSUME IInv, access = NoAccess, NEW line \in 0..15
        PROVE  Masked(line) <=> line \in masked
    <2>1. PICK c \in 1..2, m \in 0..7 :
            c = ChipOf(line) /\ m = line % 8 /\ line = 8 * (c - 1) + m
      BY DEF ChipOf
    <2>2. WillBe(c) = chips[c].imr
      BY <1>1 DEF WillBe, NoAccess
    <2>3. m \in Bits(WillBe(c)) <=> line \in masked
      BY <1>1, <2>1 DEF IInv, MasksWillBeAsAsked
    <2> QED BY <2>1, <2>2, <2>3 DEF Masked
  <1>2. IInv => MasksAreAsAsked
    BY <1>1 DEF MasksAreAsAsked
  <1> QED BY <1>2, Invariant, PTL
=============================================================================
