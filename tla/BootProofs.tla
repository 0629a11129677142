------------------------------ MODULE BootProofs ------------------------------
(***************************************************************************)
(* Theorems about the boot (modules Boot, HeapSizing, Serial, Pic8259),    *)
(* for every memory the boot loader may report, every mask it may leave    *)
(* and every order in which devices ask for interrupts.                    *)
(***************************************************************************)
EXTENDS Boot, SequenceTheorems, WellFoundedInduction, TLAPS

(* Multiples, and what cutting to a multiple does.                         *)
LEMMA Remainders ==
  ASSUME NEW a \in Nat, NEW b \in Nat \ {0}
  PROVE  a % b \in 0..(b - 1) /\ (a < b => a % b = a)
PROOF
  OBVIOUS

LEMMA MultipleHasFactor ==
  ASSUME NEW a \in Nat, NEW b \in Nat \ {0}
  PROVE  /\ \E q \in Nat : a = b * q + (a % b)
         /\ a % b = 0 => \E q \in Nat : a = b * q
PROOF
  <1>1. a \div b \in Nat /\ a = b * (a \div b) + (a % b)
    OBVIOUS
  <1>2. ASSUME a % b = 0 PROVE a = b * (a \div b)
    BY <1>1, <1>2
  <1> QED BY <1>1, <1>2

LEMMA FactorMakesMultiple ==
  ASSUME NEW b \in Nat \ {0}, NEW q \in Nat
  PROVE  (b * q) % b = 0
PROOF
  OBVIOUS

LEMMA MultiplesOfMultiples ==
  ASSUME NEW a \in Nat, NEW b \in Nat \ {0}, NEW c \in Nat \ {0}, a % b = 0, b % c = 0
  PROVE  a % c = 0
PROOF
  <1>1. PICK q \in Nat : a = b * q
    BY MultipleHasFactor
  <1>2. PICK r \in Nat : b = c * r
    BY MultipleHasFactor
  <1>3. a = c * (r * q) /\ r * q \in Nat
    BY <1>1, <1>2
  <1>4. PICK t \in Nat : t = r * q
    BY <1>3
  <1>5. a = c * t
    BY <1>3, <1>4
  <1> QED BY <1>5, FactorMakesMultiple

LEMMA MultiplesAdd ==
  ASSUME NEW a \in Nat, NEW b \in Nat, NEW c \in Nat \ {0}, a % c = 0, b % c = 0
  PROVE  (a + b) % c = 0
PROOF
  <1>1. PICK q \in Nat : a = c * q
    BY MultipleHasFactor
  <1>2. PICK r \in Nat : b = c * r
    BY MultipleHasFactor
  <1>3. a + b = c * (q + r) /\ q + r \in Nat
    BY <1>1, <1>2
  <1>4. PICK t \in Nat : t = q + r
    BY <1>3
  <1>5. a + b = c * t
    BY <1>3, <1>4
  <1> QED BY <1>5, FactorMakesMultiple

LEMMA CutToMultiple ==
  ASSUME NEW a \in Nat, NEW b \in Nat \ {0}
  PROVE  a - (a % b) \in Nat /\ (a - (a % b)) % b = 0 /\ a - (a % b) <= a /\ a < a - (a % b) + b
PROOF
  <1>1. PICK q \in Nat : a = b * q + (a % b)
    BY MultipleHasFactor
  <1>2. PICK r \in 0..(b - 1) : r = a % b
    BY Remainders
  <1>3. a - r = b * q /\ b * q \in Nat
    BY <1>1, <1>2
  <1>4. (b * q) % b = 0
    BY FactorMakesMultiple
  <1> QED BY <1>2, <1>3, <1>4
-----------------------------------------------------------------------------
(* What init_heap takes for the memory there is, when a report is sane.    *)
LEMMA MemoryAvailable ==
  ASSUME NEW end \in KernelEnds, NEW info \in Infos, Sane(info, end)
  PROVE  /\ Available(info) \in Nat /\ Available(info) < WORD /\ Available(info) % KILO = 0
         /\ end + PAGE + KILO <= Available(info)
PROOF
  <1>1. /\ WORD \in Nat \ {0} /\ KILO \in Nat \ {0} /\ ASSUMED \in Nat /\ ASSUMED < WORD
        /\ end \in Nat /\ end + PAGE + KILO <= ASSUMED /\ ASSUMED % KILO = 0
    BY SizingAssumption
  <1>2. CASE ~info.flag
    BY <1>1, <1>2 DEF Available
  <1>3. CASE info.flag
    <2>1. info.mem_lower \in Nat /\ info.mem_upper \in Nat
      BY SizingAssumption DEF Infos
    <2>2. PICK t \in Nat : t = info.mem_lower + info.mem_upper
      BY <2>1
    <2>3. t * KILO < WORD /\ end + PAGE + KILO <= t * KILO
      BY <1>3, <2>2 DEF Sane
    <2>4. t <= t * KILO /\ t * KILO \in Nat
      <3>1. PICK k \in Nat : KILO = k + 1
        BY <1>1
      <3>2. t * (k + 1) = t * k + t /\ t * k \in Nat
        OBVIOUS
      <3> QED BY <3>1, <3>2
    <2>5. t % WORD = t
      <3>1. t < WORD
        <4>1. PICK m \in Nat : m = t * KILO
          BY <2>4
        <4>2. m < WORD /\ t <= m
          BY <2>3, <2>4, <4>1
        <4> QED BY <1>1, <4>2
      <3> QED BY <1>1, <3>1, Remainders
    <2>6. (t * KILO) % WORD = t * KILO
      BY <1>1, <2>3, <2>4, Remainders
    <2>7. Available(info) = t * KILO
      BY <1>3, <2>2, <2>5, <2>6 DEF Available, Reported, UWord
    <2>8. (t * KILO) % KILO = 0
      <3>1. t * KILO = KILO * t
        BY <1>1
      <3> QED BY <1>1, <3>1, FactorMakesMultiple
    <2> QED BY <2>3, <2>4, <2>7, <2>8
  <1> QED BY <1>2, <1>3

(* The first page boundary after the kernel.                               *)
LEMMA StartOfHeap ==
  ASSUME NEW end \in KernelEnds
  PROVE  /\ PageUp(end) \in Nat /\ PageUp(end) % PAGE = 0
         /\ end <= PageUp(end) /\ PageUp(end) < end + PAGE
PROOF
  <1>1. /\ WORD \in Nat \ {0} /\ KILO \in Nat \ {0} /\ PAGE \in Nat \ {0} /\ ASSUMED \in Nat
        /\ ASSUMED < WORD /\ end \in Nat /\ end + PAGE + KILO <= ASSUMED
    BY SizingAssumption
  <1>2. PICK x \in Nat : x = end + PAGE - 1 /\ x < WORD
    BY <1>1
  <1>3. x % WORD = x
    BY <1>1, <1>2, Remainders
  <1>4. PageUp(end) = x - (x % PAGE)
    BY <1>2, <1>3 DEF PageUp, UWord
  <1>5. /\ x - (x % PAGE) \in Nat /\ (x - (x % PAGE)) % PAGE = 0
        /\ x - (x % PAGE) <= x /\ x < x - (x % PAGE) + PAGE
    BY <1>1, CutToMultiple
  <1>6. PICK y \in Nat : y = x - (x % PAGE)
    BY <1>5
  <1>7. y % PAGE = 0 /\ y <= x /\ x < y + PAGE /\ PageUp(end) = y
    BY <1>4, <1>5, <1>6
  <1> QED BY <1>1, <1>2, <1>7

(* A heap that init_heap sizes is sound. *)
LEMMA SizingMakesSound ==
  ASSUME NEW end \in KernelEnds, NEW info \in Infos, init_heap(end, info)
  PROVE  HeapIsSound'
PROOF
  <1>1. PICK begin : begin = PageUp(end)
    OBVIOUS
  <1>2. PICK size : size = actual_heap_size(info, begin)
    OBVIOUS
  <1>3. /\ kernel_end' = end /\ mb_info' = info /\ available' = Available(info)
        /\ heap_start' = begin /\ heap_end' = UWord(begin + size) /\ first_size' = UWord(size - HDR)
    BY <1>1, <1>2 DEF init_heap
  <1> SUFFICES ASSUME Sane(info, end)
               PROVE  /\ end <= begin /\ begin + HDR <= UWord(begin + size)
                      /\ UWord(begin + size) <= Available(info)
                      /\ begin % ALIGNMENT = 0 /\ UWord(begin + size) % ALIGNMENT = 0
                      /\ UWord(size - HDR) = UWord(begin + size) - begin - HDR
    BY <1>3 DEF HeapIsSound
  <1>4. /\ WORD \in Nat \ {0} /\ KILO \in Nat \ {0} /\ PAGE \in Nat \ {0} /\ ALIGNMENT \in Nat \ {0}
        /\ HEAP_SIZE \in Nat /\ HDR \in Nat /\ HDR < KILO /\ HDR <= HEAP_SIZE /\ HEAP_SIZE < WORD
        /\ end \in Nat /\ PAGE % KILO = 0 /\ KILO % ALIGNMENT = 0 /\ HEAP_SIZE % KILO = 0
    BY SizingAssumption
  <1>5. PICK a \in Nat : /\ a = Available(info) /\ a < WORD /\ a % KILO = 0
                         /\ end + PAGE + KILO <= a
    BY MemoryAvailable
  <1>6. begin \in Nat /\ begin % PAGE = 0 /\ end <= begin /\ begin < end + PAGE
    BY <1>1, StartOfHeap
  <1>7. begin % ALIGNMENT = 0 /\ HEAP_SIZE % ALIGNMENT = 0 /\ a % ALIGNMENT = 0
    <2>1. begin % KILO = 0
      BY <1>4, <1>6, MultiplesOfMultiples
    <2> QED BY <1>4, <1>5, <1>6, <2>1, MultiplesOfMultiples
  <1>8. PICK most \in Nat : most = a - begin /\ most > HDR /\ most < WORD
    BY <1>4, <1>5, <1>6
  <1>9. max_heap_size(info, begin) = most
    BY <1>4, <1>5, <1>8, Remainders DEF max_heap_size, UWord
  <1>10. /\ size \in Nat /\ HDR <= size /\ size <= most
         /\ size = HEAP_SIZE \/ size = most
    BY <1>2, <1>4, <1>8, <1>9 DEF actual_heap_size
  <1>11. PICK top \in Nat : top = begin + size /\ top <= a /\ top < WORD /\ begin + HDR <= top
    BY <1>4, <1>5, <1>6, <1>8, <1>10
  <1>12. UWord(begin + size) = top /\ UWord(size - HDR) = size - HDR
    <2>1. top % WORD = top
      BY <1>4, <1>11, Remainders
    <2>2. PICK rest \in Nat : rest = size - HDR /\ rest < WORD
      BY <1>4, <1>8, <1>10
    <2>3. rest % WORD = rest
      BY <1>4, <2>2, Remainders
    <2> QED BY <1>11, <2>1, <2>2, <2>3 DEF UWord
  <1>13. top % ALIGNMENT = 0
    <2>1. CASE size = HEAP_SIZE
      BY <1>4, <1>6, <1>7, <1>11, <2>1, MultiplesAdd, ZenonT(40)
    <2>2. CASE size = most
      BY <1>5, <1>6, <1>7, <1>8, <1>11, <2>2
    <2> QED BY <1>10, <2>1, <2>2
  <1> QED BY <1>4, <1>5, <1>6, <1>7, <1>10, <1>11, <1>12, <1>13
-----------------------------------------------------------------------------
(* The program, piece by piece.                                            *)
Poll     == printk(message)
OneCall  == <<Call("kprintf")>>
TwoCalls == <<Call("kprintf"), Call("kprintf")>>
IdtTable == <<Do("cli"), Call("printk"), Call("printk"), Do("clear"),
              Gate(0), Gate(6), Gate(8), Gate(13), Gate(14), Do("lidt"), Do("sti")>>
IrqCalls == <<Call("printk"), Call("default handlers")>>
IrqDone  == <<Call("printk")>>
Remap    == pic_remap(32, 40)
Rest     == <<Do("mm_init"), Call("ipc_init"), Call("load_multiboot_modules"),
              Call("initialize_modules"), Call("kprintf")>>

Pieces == {start, serial_init, OneCall, gdt_init, IdtTable, Poll, Remap, IrqCalls, IrqDone,
           TwoCalls, Rest}
Statements == UNION {{piece[i] : i \in 1..Len(piece)} : piece \in Pieces}

(* The elements of two sequences joined. *)
LEMMA Joined ==
  ASSUME NEW S, NEW s \in Seq(S), NEW t \in Seq(S)
  PROVE  /\ s \o t \in Seq(S) /\ Len(s \o t) = Len(s) + Len(t)
         /\ \A i \in 1..Len(s) : (s \o t)[i] = s[i]
         /\ \A i \in 1..Len(t) : (s \o t)[Len(s) + i] = t[i]
PROOF
  <1>2. \A i \in 1..(Len(s) + Len(t)) : (s \o t)[i] = IF i <= Len(s) THEN s[i] ELSE t[i - Len(s)]
    BY ConcatProperties
  <1>3. PICK m \in Nat, n \in Nat : m = Len(s) /\ n = Len(t)
    BY LenProperties
  <1>5. \A i \in 1..m : (s \o t)[i] = s[i]
    <2>1. \A i \in 1..m : i \in 1..(Len(s) + Len(t)) /\ i <= Len(s)
      BY <1>3
    <2> QED BY <2>1, <1>2
  <1>6. ASSUME NEW i \in 1..n PROVE (s \o t)[m + i] = t[i]
    <2>1. PICK k : k = m + i
      OBVIOUS
    <2>3. k \in 1..(Len(s) + Len(t)) /\ ~(k <= Len(s)) /\ k - Len(s) = i
      BY <1>3, <2>1
    <2>2. (s \o t)[k] = t[k - Len(s)]
      BY <1>2, <2>3
    <2> QED BY <2>1, <2>2, <2>3
  <1> QED BY <1>3, <1>5, <1>6, ConcatProperties

(* Pieces of a known length, and where one is found in another.             *)
List(S, n) == {s \in Seq(S) : Len(s) = n}
At(whole, m, piece, n) == \A i \in 1..n : whole[m + i] = piece[i]
(* The same, with lengths and places: the pieces of a program. *)
LEMMA JoinedAt ==
  ASSUME NEW S, NEW m \in Nat, NEW n \in Nat, NEW s \in List(S, m), NEW t \in List(S, n)
  PROVE  /\ s \o t \in List(S, m + n)
         /\ At(s \o t, 0, s, m) /\ At(s \o t, m, t, n)
PROOF
  <1>1. s \in Seq(S) /\ t \in Seq(S)
    BY DEF List
  <1>2. Len(s) = m /\ Len(t) = n
    BY DEF List
  <1>3. PICK a, b, r : a = Len(s) /\ b = Len(t) /\ r = s \o t
    OBVIOUS
  <1>4. /\ r \in Seq(S) /\ Len(r) = a + b
        /\ \A i \in 1..a : r[i] = s[i]
        /\ \A i \in 1..b : r[a + i] = t[i]
    BY <1>1, <1>3, Joined
  <1>5. a = m /\ b = n
    BY <1>2, <1>3
  <1> QED BY <1>3, <1>4, <1>5 DEF List, At

(* A piece of a piece is a piece of the whole. *)
LEMMA AtAt ==
  ASSUME NEW whole, NEW part, NEW piece, NEW j \in Nat, NEW k \in Nat, NEW m \in Nat, NEW n \in Nat,
         At(whole, j, part, m), At(part, k, piece, n), k + n <= m
  PROVE  At(whole, j + k, piece, n)
PROOF
  BY DEF At

(* FlattenSeq of two sequences, unfolded. *)
LEMMA FlattenTwo ==
  ASSUME NEW seqs, Len(seqs) = 2
  PROVE  FlattenSeq(seqs) = seqs[1] \o seqs[2]
PROOF
  <1> DEFINE Def(f) == [i \in 1..Len(seqs) |-> IF i = 1 THEN seqs[i] ELSE f[i - 1] \o seqs[i]]
             flatten == CHOOSE f : f = Def(f)
  <1>1. FlattenSeq(seqs) = flatten[Len(seqs)]
    BY DEF FlattenSeq
  <1>2. flatten = Def(flatten)
    <2> DEFINE w == [i \in 1..Len(seqs) |-> IF i = 1 THEN seqs[1] ELSE seqs[1] \o seqs[2]]
    <2>1. w[1] = seqs[1] /\ w[2] = seqs[1] \o seqs[2]
      OBVIOUS
    <2>2. w = Def(w)
      BY <2>1
    <2> QED BY <2>2
  <1> HIDE DEF flatten
  <1>3. flatten[1] = seqs[1]
    BY <1>2
  <1>4. flatten[2] = flatten[1] \o seqs[2]
    BY <1>2
  <1> QED BY <1>1, <1>3, <1>4

LEMMA PieceIsStatements ==
  ASSUME NEW piece \in Pieces, NEW n \in Nat, Len(piece) = n, piece = [i \in 1..n |-> piece[i]]
  PROVE  piece \in Seq(Statements)
PROOF
  <1>1. \A i \in 1..n : piece[i] \in Statements
    BY DEF Statements
  <1>2. piece \in [1..n -> Statements]
    BY <1>1
  <1> QED BY <1>2, SeqDef

(* A character is sent after a poll; a message is three of them.           *)
Sendings == {[do |-> "load"], [do |-> "ready"]}
              \cup {[do |-> "send", char |-> c] : c \in {"text", CR, LF}}

(* The three statements that send a character. *)
LEMMA WriteIs ==
  ASSUME NEW c \in {"text", CR, LF}
  PROVE  /\ serial_write(c) \in Seq(Sendings) /\ Len(serial_write(c)) = 3
         /\ serial_write(c)[1].do = "load" /\ serial_write(c)[2].do = "ready"
         /\ serial_write(c)[3].do = "send"
PROOF
  <1> DEFINE last == <<[do |-> "send", char |-> c]>>
  <1>1. /\ serial_is_ready \in Seq(Sendings) /\ Len(serial_is_ready) = 2
        /\ serial_is_ready[1].do = "load" /\ serial_is_ready[2].do = "ready"
    BY DEF serial_is_ready, Sendings
  <1>2. last \in Seq(Sendings) /\ Len(last) = 1 /\ last[1].do = "send"
    BY DEF Sendings
  <1>3. serial_write(c) = serial_is_ready \o last
    BY DEF serial_write
  <1> HIDE DEF last
  <1>4. /\ serial_write(c) \in Seq(Sendings) /\ Len(serial_write(c)) = 2 + 1
        /\ \A i \in 1..2 : serial_write(c)[i] = serial_is_ready[i]
        /\ \A i \in 1..1 : serial_write(c)[2 + i] = last[i]
    <2>1. serial_is_ready \in Seq(Sendings) /\ last \in Seq(Sendings)
      BY <1>1, <1>2
    <2>2. /\ serial_is_ready \o last \in Seq(Sendings)
          /\ Len(serial_is_ready \o last) = Len(serial_is_ready) + Len(last)
          /\ \A i \in 1..Len(serial_is_ready) : (serial_is_ready \o last)[i] = serial_is_ready[i]
          /\ \A i \in 1..Len(last) : (serial_is_ready \o last)[Len(serial_is_ready) + i] = last[i]
      BY <2>1, Joined
    <2> QED BY <1>1, <1>2, <1>3, <2>2
  <1> QED BY <1>1, <1>2, <1>4

(* A turn of the waiting loop: two characters, nine statements. *)
LEMMA PollIs ==
  /\ Len(Poll) = 9 /\ Poll \in Seq(Sendings)
  /\ \A i \in {1, 4, 7} : Poll[i].do = "load"
  /\ \A i \in {2, 5, 8} : Poll[i].do = "ready"
  /\ \A i \in {3, 6, 9} : Poll[i].do = "send"
PROOF
  <1> DEFINE a == serial_write("text")
             b == serial_write(CR) \o serial_write(LF)
             seqs == [i \in DOMAIN message |-> serial_putc(message[i])]
  <1>1. serial_putc("text") = a /\ serial_putc(LF) = b
    BY DEF serial_putc, LF
  <1>2. DOMAIN message = 1..2 /\ message[1] = "text" /\ message[2] = LF
    BY DEF message
  <1>3. Len(seqs) = 2 /\ seqs[1] = a /\ seqs[2] = b
    <2>1. seqs = [i \in 1..2 |-> serial_putc(message[i])]
      BY <1>2
    <2>2. seqs[1] = serial_putc(message[1]) /\ seqs[2] = serial_putc(message[2])
      BY <2>1
    <2>3. Len(seqs) = 2
      <3>1. PICK g : g = [i \in 1..2 |-> serial_putc(message[i])]
        OBVIOUS
      <3>2. Len(g) = 2
        BY <3>1
      <3> QED BY <2>1, <3>1, <3>2
    <2> QED BY <1>1, <1>2, <2>2, <2>3
  <1>4. Poll = FlattenSeq(seqs)
    BY DEF Poll, printk, serial_puts
  <1> HIDE DEF a, b, seqs
  <1>6. Poll = a \o b
    BY <1>3, <1>4, FlattenTwo
  <1>7. /\ a \in Seq(Sendings) /\ Len(a) = 3
        /\ a[1].do = "load" /\ a[2].do = "ready" /\ a[3].do = "send"
    BY WriteIs DEF a
  <1>8. /\ b \in Seq(Sendings) /\ Len(b) = 3 + 3
        /\ \A i \in 1..3 : b[i] = serial_write(CR)[i]
        /\ \A i \in 1..3 : b[3 + i] = serial_write(LF)[i]
    BY WriteIs, Joined DEF b
  <1>9. /\ b[1].do = "load" /\ b[2].do = "ready" /\ b[3].do = "send"
        /\ b[4].do = "load" /\ b[5].do = "ready" /\ b[6].do = "send"
    BY <1>8, WriteIs
  <1> HIDE DEF Poll
  <1>10. /\ Poll \in Seq(Sendings) /\ Len(Poll) = 3 + 6
         /\ \A i \in 1..3 : Poll[i] = a[i]
         /\ \A i \in 1..6 : Poll[3 + i] = b[i]
    <2>1. a \in Seq(Sendings) /\ b \in Seq(Sendings)
      BY <1>7, <1>8
    <2>2. /\ a \o b \in Seq(Sendings) /\ Len(a \o b) = Len(a) + Len(b)
          /\ \A i \in 1..Len(a) : (a \o b)[i] = a[i]
          /\ \A i \in 1..Len(b) : (a \o b)[Len(a) + i] = b[i]
      BY <2>1, Joined
    <2> QED BY <1>6, <1>7, <1>8, <2>2, SMTT(30)
  <1> QED BY <1>7, <1>9, <1>10


(* How long the pieces are, and where they are in the program.             *)
LEMMA PiecesAre ==
  /\ start \in List(Statements, 3)
  /\ serial_init \in List(Statements, 7)
  /\ OneCall \in List(Statements, 1)
  /\ gdt_init \in List(Statements, 7)
  /\ IdtTable \in List(Statements, 11)
  /\ Poll \in List(Statements, 9)
  /\ Remap \in List(Statements, 15)
  /\ IrqCalls \in List(Statements, 2)
  /\ IrqDone \in List(Statements, 1)
  /\ TwoCalls \in List(Statements, 2)
  /\ Rest \in List(Statements, 5)
PROOF
  <1>1. start \in List(Statements, 3)
    <2>1. Len(start) = 3 /\ start = [i \in 1..3 |-> start[i]]
      BY DEF start
    <2> QED BY <2>1, PieceIsStatements DEF Pieces, List
  <1>2. serial_init \in List(Statements, 7)
    <2>1. Len(serial_init) = 7 /\ serial_init = [i \in 1..7 |-> serial_init[i]]
      BY DEF serial_init
    <2> QED BY <2>1, PieceIsStatements DEF Pieces, List
  <1>3. OneCall \in List(Statements, 1)
    <2>1. Len(OneCall) = 1 /\ OneCall = [i \in 1..1 |-> OneCall[i]]
      BY DEF OneCall
    <2> QED BY <2>1, PieceIsStatements DEF Pieces, List
  <1>4. gdt_init \in List(Statements, 7)
    <2>1. Len(gdt_init) = 7 /\ gdt_init = [i \in 1..7 |-> gdt_init[i]]
      BY DEF gdt_init
    <2> QED BY <2>1, PieceIsStatements DEF Pieces, List
  <1>5. IdtTable \in List(Statements, 11)
    <2>1. Len(IdtTable) = 11 /\ IdtTable = [i \in 1..11 |-> IdtTable[i]]
      BY DEF IdtTable
    <2> QED BY <2>1, PieceIsStatements DEF Pieces, List
  <1>6. Poll \in List(Statements, 9)
    <2>1. Len(Poll) = 9 /\ Poll = [i \in 1..9 |-> Poll[i]]
      BY PollIs, LenProperties
    <2> QED BY <2>1, PieceIsStatements DEF Pieces, List
  <1>7. Remap \in List(Statements, 15)
    <2>1. Len(Remap) = 15 /\ Remap = [i \in 1..15 |-> Remap[i]]
      BY DEF Remap, pic_remap
    <2> QED BY <2>1, PieceIsStatements DEF Pieces, List
  <1>8. IrqCalls \in List(Statements, 2)
    <2>1. Len(IrqCalls) = 2 /\ IrqCalls = [i \in 1..2 |-> IrqCalls[i]]
      BY DEF IrqCalls
    <2> QED BY <2>1, PieceIsStatements DEF Pieces, List
  <1>9. IrqDone \in List(Statements, 1)
    <2>1. Len(IrqDone) = 1 /\ IrqDone = [i \in 1..1 |-> IrqDone[i]]
      BY DEF IrqDone
    <2> QED BY <2>1, PieceIsStatements DEF Pieces, List
  <1>10. TwoCalls \in List(Statements, 2)
    <2>1. Len(TwoCalls) = 2 /\ TwoCalls = [i \in 1..2 |-> TwoCalls[i]]
      BY DEF TwoCalls
    <2> QED BY <2>1, PieceIsStatements DEF Pieces, List
  <1>11. Rest \in List(Statements, 5)
    <2>1. Len(Rest) = 5 /\ Rest = [i \in 1..5 |-> Rest[i]]
      BY DEF Rest
    <2> QED BY <2>1, PieceIsStatements DEF Pieces, List
  <1> QED BY <1>1, <1>2, <1>3, <1>4, <1>5, <1>6, <1>7, <1>8, <1>9, <1>10, <1>11

(* Where each function's statements are in the program. *)
LEMMA ProgramIs ==
  /\ Program \in List(Statements, 89)
  /\ At(Program, 0, start, 3)       /\ At(Program, 3, serial_init, 7)
  /\ At(Program, 10, OneCall, 1)    /\ At(Program, 11, gdt_init, 7)
  /\ At(Program, 18, OneCall, 1)    /\ At(Program, 19, IdtTable, 11)
  /\ At(Program, 30, Poll, 9)       /\ At(Program, 39, Poll, 9)
  /\ At(Program, 48, Remap, 15)     /\ At(Program, 63, OneCall, 1)
  /\ At(Program, 64, IrqCalls, 2)   /\ At(Program, 66, Remap, 15)
  /\ At(Program, 81, IrqDone, 1)    /\ At(Program, 82, TwoCalls, 2)
  /\ At(Program, 84, Rest, 5)
PROOF
  <1> DEFINE
    idt == IdtTable \o Poll
    irq == IrqCalls \o Remap
    irqs == irq \o IrqDone
    main1 == serial_init \o OneCall
    main2 == main1 \o gdt_init
    main3 == main2 \o OneCall
    main4 == main3 \o idt
    main5 == main4 \o Poll
    main6 == main5 \o Remap
    main7 == main6 \o OneCall
    main8 == main7 \o irqs
    main9 == main8 \o TwoCalls
    main10 == main9 \o Rest
    whole == start \o main10
  <1>1. Program = whole
    <2>1. idt_init = idt /\ irq_init = irqs
      BY DEF idt_init, irq_init, IdtTable, Poll, IrqCalls, Remap, IrqDone
    <2> QED BY <2>1 DEF Program, kernel_main, kprintf, Poll, OneCall, TwoCalls, Rest, Remap
  <1> HIDE DEF idt, irq, irqs, main1, main2, main3, main4, main5, main6, main7, main8, main9,
               main10, whole
  <1>2. /\ idt \in List(Statements, 20)
        /\ At(idt, 0, IdtTable, 11) /\ At(idt, 11, Poll, 9)
    BY PiecesAre, JoinedAt DEF idt
  <1>3. /\ irq \in List(Statements, 17)
        /\ At(irq, 0, IrqCalls, 2) /\ At(irq, 2, Remap, 15)
    BY PiecesAre, JoinedAt DEF irq
  <1>4. /\ irqs \in List(Statements, 18)
        /\ At(irqs, 0, irq, 17) /\ At(irqs, 17, IrqDone, 1)
    BY PiecesAre, <1>3, JoinedAt DEF irqs
  <1>5. /\ main1 \in List(Statements, 8)
        /\ At(main1, 0, serial_init, 7) /\ At(main1, 7, OneCall, 1)
    BY PiecesAre, JoinedAt DEF main1
  <1>6. /\ main2 \in List(Statements, 15)
        /\ At(main2, 0, main1, 8) /\ At(main2, 8, gdt_init, 7)
    BY PiecesAre, <1>5, JoinedAt DEF main2
  <1>7. /\ main3 \in List(Statements, 16)
        /\ At(main3, 0, main2, 15) /\ At(main3, 15, OneCall, 1)
    BY PiecesAre, <1>6, JoinedAt DEF main3
  <1>8. /\ main4 \in List(Statements, 36)
        /\ At(main4, 0, main3, 16) /\ At(main4, 16, idt, 20)
    BY PiecesAre, <1>7, <1>2, JoinedAt DEF main4
  <1>9. /\ main5 \in List(Statements, 45)
        /\ At(main5, 0, main4, 36) /\ At(main5, 36, Poll, 9)
    BY PiecesAre, <1>8, JoinedAt DEF main5
  <1>10. /\ main6 \in List(Statements, 60)
         /\ At(main6, 0, main5, 45) /\ At(main6, 45, Remap, 15)
    BY PiecesAre, <1>9, JoinedAt DEF main6
  <1>11. /\ main7 \in List(Statements, 61)
         /\ At(main7, 0, main6, 60) /\ At(main7, 60, OneCall, 1)
    BY PiecesAre, <1>10, JoinedAt DEF main7
  <1>12. /\ main8 \in List(Statements, 79)
         /\ At(main8, 0, main7, 61) /\ At(main8, 61, irqs, 18)
    BY PiecesAre, <1>11, <1>4, JoinedAt DEF main8
  <1>13. /\ main9 \in List(Statements, 81)
         /\ At(main9, 0, main8, 79) /\ At(main9, 79, TwoCalls, 2)
    BY PiecesAre, <1>12, JoinedAt DEF main9
  <1>14. /\ main10 \in List(Statements, 86)
         /\ At(main10, 0, main9, 81) /\ At(main10, 81, Rest, 5)
    BY PiecesAre, <1>13, JoinedAt DEF main10
  <1>15. /\ whole \in List(Statements, 89)
         /\ At(whole, 0, start, 3) /\ At(whole, 3, main10, 86)
    BY PiecesAre, <1>14, JoinedAt DEF whole
  <1>16. At(whole, 3, main10, 86)
    BY <1>15
  <1>17. At(whole, 3, main9, 81)
    BY <1>16, <1>14, AtAt
  <1>18. At(whole, 3, main8, 79)
    BY <1>17, <1>13, AtAt
  <1>19. At(whole, 3, main7, 61)
    BY <1>18, <1>12, AtAt
  <1>20. At(whole, 3, main6, 60)
    BY <1>19, <1>11, AtAt
  <1>21. At(whole, 3, main5, 45)
    BY <1>20, <1>10, AtAt
  <1>22. At(whole, 3, main4, 36)
    BY <1>21, <1>9, AtAt
  <1>23. At(whole, 3, main3, 16)
    BY <1>22, <1>8, AtAt
  <1>24. At(whole, 3, main2, 15)
    BY <1>23, <1>7, AtAt
  <1>25. At(whole, 3, main1, 8)
    BY <1>24, <1>6, AtAt
  <1>26. At(whole, 10, OneCall, 1)
    BY <1>25, <1>5, AtAt
  <1>27. At(whole, 11, gdt_init, 7)
    BY <1>24, <1>6, AtAt
  <1>28. At(whole, 18, OneCall, 1)
    BY <1>23, <1>7, AtAt
  <1>29. At(whole, 19, idt, 20)
    BY <1>22, <1>8, AtAt
  <1>30. At(whole, 39, Poll, 9)
    BY <1>21, <1>9, AtAt
  <1>31. At(whole, 48, Remap, 15)
    BY <1>20, <1>10, AtAt
  <1>32. At(whole, 63, OneCall, 1)
    BY <1>19, <1>11, AtAt
  <1>33. At(whole, 64, irqs, 18)
    BY <1>18, <1>12, AtAt
  <1>34. At(whole, 82, TwoCalls, 2)
    BY <1>17, <1>13, AtAt
  <1>35. At(whole, 84, Rest, 5)
    BY <1>16, <1>14, AtAt
  <1>36. At(whole, 3, serial_init, 7)
    BY <1>25, <1>5, AtAt
  <1>37. At(whole, 19, IdtTable, 11) /\ At(whole, 30, Poll, 9)
    BY <1>29, <1>2, AtAt
  <1>38. At(whole, 64, irq, 17) /\ At(whole, 81, IrqDone, 1)
    <2>1. At(whole, 64, irq, 17)
      BY <1>33, <1>4, AtAt
    <2>2. At(whole, 81, IrqDone, 1)
      BY <1>33, <1>4, AtAt
    <2> QED BY <2>1, <2>2
  <1>39. At(whole, 64, IrqCalls, 2) /\ At(whole, 66, Remap, 15)
    <2>1. At(whole, 64, IrqCalls, 2)
      BY <1>38, <1>3, AtAt
    <2>2. At(whole, 66, Remap, 15)
      BY <1>38, <1>3, AtAt
    <2> QED BY <2>1, <2>2
  <1> QED BY <1>1, <1>15, <1>26, <1>27, <1>28, <1>29, <1>30, <1>31, <1>32, <1>33, <1>34, <1>35,
             <1>36, <1>37, <1>38, <1>39

(* Which statements do what; those of the polls come in threes.            *)
Loads   == {31, 34, 37, 40, 43, 46}
Readies == {32, 35, 38, 41, 44, 47}
Sends   == {33, 36, 39, 42, 45, 48}
Place(what) ==
  CASE what = "cli" -> {1, 20}
    [] what = "sti" -> {30}
    [] what = "push" -> {2, 3}
    [] what = "uart" -> 4..10
    [] what = "segment" -> {13, 14, 15}
    [] what = "lgdt" -> {16}
    [] what = "reload" -> {17}
    [] what = "clear" -> {23}
    [] what = "gate" -> 24..28
    [] what = "lidt" -> {29}
    [] what = "load" -> Loads
    [] what = "ready" -> Readies
    [] what = "send" -> Sends
    [] what = "inb" -> {49, 50, 67, 68}
    [] what = "command" -> {51, 52, 69, 70}
    [] what = "data" -> (53..58) \cup {61, 62} \cup (71..76) \cup {79, 80}
    [] what = "restore" -> {59, 60, 77, 78}
    [] what = "mm_init" -> {85}
    [] what = "call" -> ({11, 12, 18, 19, 21, 22} \cup (63..66) \cup (81..84) \cup (86..89))

(* What each of those pieces does. *)
LEMMA PiecesSay ==
  /\ start[1].do = "cli" /\ start[2].do = "push" /\ start[3].do = "push"
  /\ \A k \in 1..7 : serial_init[k].do = "uart"
  /\ OneCall[1].do = "call" /\ IrqDone[1].do = "call"
  /\ gdt_init[1].do = "call" /\ \A k \in 2..4 : gdt_init[k].do = "segment"
  /\ gdt_init[5].do = "lgdt" /\ gdt_init[6].do = "reload" /\ gdt_init[7].do = "call"
  /\ IdtTable[1].do = "cli" /\ \A k \in 2..3 : IdtTable[k].do = "call"
  /\ IdtTable[4].do = "clear" /\ \A k \in 5..9 : IdtTable[k].do = "gate"
  /\ IdtTable[10].do = "lidt" /\ IdtTable[11].do = "sti"
  /\ \A k \in 1..2 : Remap[k].do = "inb"
  /\ \A k \in 3..4 : Remap[k].do = "command"
  /\ \A k \in 5..10 : Remap[k].do = "data"
  /\ \A k \in 11..12 : Remap[k].do = "restore"
  /\ \A k \in 13..14 : Remap[k].do = "data"
  /\ Remap[15].do = "call"
  /\ \A k \in 1..2 : IrqCalls[k].do = "call"
  /\ \A k \in 1..2 : TwoCalls[k].do = "call"
  /\ Rest[1].do = "mm_init" /\ \A k \in 2..5 : Rest[k].do = "call"
PROOF
  <1>1. start[1].do = "cli" /\ start[2].do = "push" /\ start[3].do = "push"
    BY DEF start, Do, Push
  <1>2. \A k \in 1..7 : serial_init[k].do = "uart"
    BY DEF serial_init, Port
  <1>3. OneCall[1].do = "call" /\ IrqDone[1].do = "call"
    BY DEF OneCall, IrqDone, Call
  <1>4. /\ gdt_init[1].do = "call" /\ \A k \in 2..4 : gdt_init[k].do = "segment"
        /\ gdt_init[5].do = "lgdt" /\ gdt_init[6].do = "reload" /\ gdt_init[7].do = "call"
    BY DEF gdt_init, Call, Segment, Do
  <1>5. /\ IdtTable[1].do = "cli" /\ \A k \in 2..3 : IdtTable[k].do = "call"
        /\ IdtTable[4].do = "clear" /\ \A k \in 5..9 : IdtTable[k].do = "gate"
        /\ IdtTable[10].do = "lidt" /\ IdtTable[11].do = "sti"
    BY DEF IdtTable, Call, Gate, Do
  <1>6. /\ \A k \in 1..2 : Remap[k].do = "inb"
        /\ \A k \in 3..4 : Remap[k].do = "command"
        /\ \A k \in 5..10 : Remap[k].do = "data"
        /\ \A k \in 11..12 : Remap[k].do = "restore"
        /\ \A k \in 13..14 : Remap[k].do = "data"
        /\ Remap[15].do = "call"
    BY DEF Remap, pic_remap, On, Outb, Call
  <1>7. /\ IrqCalls[1].do = "call" /\ IrqCalls[2].do = "call"
        /\ TwoCalls[1].do = "call" /\ TwoCalls[2].do = "call"
    BY DEF IrqCalls, TwoCalls, Call
  <1>8. Rest[1].do = "mm_init" /\ \A k \in 2..5 : Rest[k].do = "call"
    BY DEF Rest, Do, Call
  <1> QED BY <1>1, <1>2, <1>3, <1>4, <1>5, <1>6, <1>7, <1>8

(* At which statements of the program each operation stands. *)
LEMMA PlacesAre ==
  ASSUME NEW i \in 1..89
  PROVE  i \in Place(Program[i].do)
PROOF
  <1>1. CASE i \in 1..3
    <2>1. PICK k \in 1..3 : i = 0 + k
      BY <1>1
    <2>2. Program[i] = start[k]
      BY <2>1, ProgramIs DEF At
    <2> QED BY <2>1, <2>2, PiecesSay DEF Place
  <1>2. CASE i \in 4..10
    <2>1. PICK k \in 1..7 : i = 3 + k
      BY <1>2
    <2>2. Program[i] = serial_init[k]
      BY <2>1, ProgramIs DEF At
    <2> QED BY <2>1, <2>2, PiecesSay DEF Place
  <1>3. CASE i \in 11..11
    <2>1. PICK k \in 1..1 : i = 10 + k
      BY <1>3
    <2>2. Program[i] = OneCall[k]
      BY <2>1, ProgramIs DEF At
    <2> QED BY <2>1, <2>2, PiecesSay DEF Place
  <1>4. CASE i \in 12..18
    <2>1. PICK k \in 1..7 : i = 11 + k
      BY <1>4
    <2>2. Program[i] = gdt_init[k]
      BY <2>1, ProgramIs DEF At
    <2> QED BY <2>1, <2>2, PiecesSay DEF Place
  <1>5. CASE i \in 19..19
    <2>1. PICK k \in 1..1 : i = 18 + k
      BY <1>5
    <2>2. Program[i] = OneCall[k]
      BY <2>1, ProgramIs DEF At
    <2> QED BY <2>1, <2>2, PiecesSay DEF Place
  <1>6. CASE i \in 20..30
    <2>1. PICK k \in 1..11 : i = 19 + k
      BY <1>6
    <2>2. Program[i] = IdtTable[k]
      BY <2>1, ProgramIs DEF At
    <2> QED BY <2>1, <2>2, PiecesSay DEF Place
  <1>7. CASE i \in 31..39
    <2>1. PICK k \in 1..9 : i = 30 + k
      BY <1>7
    <2>2. Program[i] = Poll[k]
      BY <2>1, ProgramIs DEF At
    <2> QED BY <2>1, <2>2, PollIs DEF Place, Loads, Readies, Sends
  <1>8. CASE i \in 40..48
    <2>1. PICK k \in 1..9 : i = 39 + k
      BY <1>8
    <2>2. Program[i] = Poll[k]
      BY <2>1, ProgramIs DEF At
    <2> QED BY <2>1, <2>2, PollIs DEF Place, Loads, Readies, Sends
  <1>9. CASE i \in 49..63
    <2>1. PICK k \in 1..15 : i = 48 + k
      BY <1>9
    <2>2. Program[i] = Remap[k]
      BY <2>1, ProgramIs DEF At
    <2> QED BY <2>1, <2>2, PiecesSay DEF Place
  <1>10. CASE i \in 64..64
    <2>1. PICK k \in 1..1 : i = 63 + k
      BY <1>10
    <2>2. Program[i] = OneCall[k]
      BY <2>1, ProgramIs DEF At
    <2> QED BY <2>1, <2>2, PiecesSay DEF Place
  <1>11. CASE i \in 65..66
    <2>1. PICK k \in 1..2 : i = 64 + k
      BY <1>11
    <2>2. Program[i] = IrqCalls[k]
      BY <2>1, ProgramIs DEF At
    <2> QED BY <2>1, <2>2, PiecesSay DEF Place
  <1>12. CASE i \in 67..81
    <2>1. PICK k \in 1..15 : i = 66 + k
      BY <1>12
    <2>2. Program[i] = Remap[k]
      BY <2>1, ProgramIs DEF At
    <2> QED BY <2>1, <2>2, PiecesSay DEF Place
  <1>13. CASE i \in 82..82
    <2>1. PICK k \in 1..1 : i = 81 + k
      BY <1>13
    <2>2. Program[i] = IrqDone[k]
      BY <2>1, ProgramIs DEF At
    <2> QED BY <2>1, <2>2, PiecesSay DEF Place
  <1>14. CASE i \in 83..84
    <2>1. PICK k \in 1..2 : i = 82 + k
      BY <1>14
    <2>2. Program[i] = TwoCalls[k]
      BY <2>1, ProgramIs DEF At
    <2> QED BY <2>1, <2>2, PiecesSay DEF Place
  <1>15. CASE i \in 85..89
    <2>1. PICK k \in 1..5 : i = 84 + k
      BY <1>15
    <2>2. Program[i] = Rest[k]
      BY <2>1, ProgramIs DEF At
    <2> QED BY <2>1, <2>2, PiecesSay DEF Place
  <1> QED BY <1>1, <1>2, <1>3, <1>4, <1>5, <1>6, <1>7, <1>8, <1>9, <1>10, <1>11, <1>12, <1>13,
             <1>14, <1>15

(* To which controller the statements of pic_remap write, and what.        *)
Masters == {49, 51, 53, 55, 57, 59, 61, 67, 69, 71, 73, 75, 77, 79}
Slaves  == {50, 52, 54, 56, 58, 60, 62, 68, 70, 72, 74, 76, 78, 80}

(* The chips and the bytes of the two remappings. *)
LEMMA RemapSays ==
  /\ \A i \in Masters : Program[i].chip = 1
  /\ \A i \in Slaves : Program[i].chip = 2
  /\ \A i \in {53, 71} : Program[i].byte = 32
  /\ \A i \in {54, 72} : Program[i].byte = 40
  /\ \A i \in {55, 73} : Program[i].byte = 4
  /\ \A i \in {56, 74} : Program[i].byte = 2
  /\ \A i \in {57, 58, 75, 76} : Program[i].byte = 1
  /\ \A i \in {61, 62, 79, 80} : Program[i].byte = 255
PROOF
  <1>1. \A k \in 1..15 : Program[48 + k] = Remap[k] /\ Program[66 + k] = Remap[k]
    BY ProgramIs DEF At
  <1>2. /\ Remap[1].chip = 1 /\ Remap[3].chip = 1 /\ Remap[5].chip = 1 /\ Remap[7].chip = 1
        /\ Remap[9].chip = 1 /\ Remap[11].chip = 1 /\ Remap[13].chip = 1
        /\ Remap[2].chip = 2 /\ Remap[4].chip = 2 /\ Remap[6].chip = 2 /\ Remap[8].chip = 2
        /\ Remap[10].chip = 2 /\ Remap[12].chip = 2 /\ Remap[14].chip = 2
    BY DEF Remap, pic_remap, On, Outb
  <1>3. /\ Remap[5].byte = 32 /\ Remap[6].byte = 40 /\ Remap[7].byte = 4 /\ Remap[8].byte = 2
        /\ Remap[9].byte = 1 /\ Remap[10].byte = 1 /\ Remap[13].byte = 255 /\ Remap[14].byte = 255
    BY DEF Remap, pic_remap, Outb
  <1>4. \A k \in {1, 3, 5, 7, 9, 11, 13} : Program[48 + k].chip = 1 /\ Program[66 + k].chip = 1
    BY <1>1, <1>2
  <1>5. \A k \in {2, 4, 6, 8, 10, 12, 14} : Program[48 + k].chip = 2 /\ Program[66 + k].chip = 2
    BY <1>1, <1>2
  <1>6. \A i \in Masters : Program[i].chip = 1
    BY <1>4 DEF Masters
  <1>7. \A i \in Slaves : Program[i].chip = 2
    BY <1>5 DEF Slaves
  <1> QED BY <1>1, <1>3, <1>6, <1>7

(* The operands of the statements that fill the tables. *)
LEMMA Details ==
  /\ Program[13].num = 0 /\ Program[14].num = 1 /\ Program[14].access = CODE /\ Program[15].num = 2
  /\ \A i \in 24..28 : Program[i].num \in {0, 6, 8, 13, 14}
  /\ Program[4].port = COM1 + 1 /\ Program[5].port = COM1 + 3 /\ Program[5].byte = 128
  /\ Program[6].port = COM1 /\ Program[6].byte = 3 /\ Program[7].port = COM1 + 1
  /\ Program[8].port = COM1 + 3 /\ Program[8].byte = 3
  /\ Program[9].port = COM1 + 2 /\ Program[9].byte = 199 /\ Program[10].port = COM1 + 4
PROOF
  <1>1. /\ Program[13] = gdt_init[2] /\ Program[14] = gdt_init[3] /\ Program[15] = gdt_init[4]
        /\ Program[24] = IdtTable[5] /\ Program[25] = IdtTable[6] /\ Program[26] = IdtTable[7]
        /\ Program[27] = IdtTable[8] /\ Program[28] = IdtTable[9]
    BY ProgramIs DEF At
  <1>2. /\ Program[4] = serial_init[1] /\ Program[5] = serial_init[2] /\ Program[6] = serial_init[3]
        /\ Program[7] = serial_init[4] /\ Program[8] = serial_init[5] /\ Program[9] = serial_init[6]
        /\ Program[10] = serial_init[7]
    BY ProgramIs DEF At
  <1>3. /\ Program[13].num = 0 /\ Program[14].num = 1 /\ Program[14].access = CODE
        /\ Program[15].num = 2
    BY <1>1 DEF gdt_init, Segment
  <1>4. \A i \in 24..28 : Program[i].num \in {0, 6, 8, 13, 14}
    <2>1. /\ IdtTable[5].num = 0 /\ IdtTable[6].num = 6 /\ IdtTable[7].num = 8
          /\ IdtTable[8].num = 13 /\ IdtTable[9].num = 14
      BY DEF IdtTable, Gate
    <2> QED BY <1>1, <2>1
  <1>5. /\ Program[4].port = COM1 + 1 /\ Program[5].port = COM1 + 3 /\ Program[5].byte = 128
        /\ Program[6].port = COM1 /\ Program[6].byte = 3 /\ Program[7].port = COM1 + 1
        /\ Program[8].port = COM1 + 3 /\ Program[8].byte = 3
        /\ Program[9].port = COM1 + 2 /\ Program[9].byte = 199 /\ Program[10].port = COM1 + 4
    BY <1>2 DEF serial_init, Port
  <1> QED BY <1>3, <1>4, <1>5
-----------------------------------------------------------------------------
(* The invariant.  Where the program is says what it has done; the rest    *)
(* is how far interrupts can have got by then.                             *)
Exceptions == {0, 6, 8, 13, 14}  \* vectors with a handler
Handled    == {0, 5, 6}          \* lines that come in at them, at first

Uart == [dlab : BOOLEAN, fifo : BOOLEAN, divisor : Nat, queue : Nat, lost : BOOLEAN,
         received : BOOLEAN]

TypesOK ==
  /\ pc \in 1..90 /\ running \in {"kernel", "handler", "fault"} /\ IF_flag \in BOOLEAN
  /\ chips \in [1..2 -> Chip] /\ saved \in [1..2 -> 0..255]
  /\ uart \in Uart /\ dx \in Nat

TablesAreUp ==
  /\ gates \subseteq Exceptions /\ DOMAIN gdt = 0..2
  /\ pc > 14 => gdt[1].access = CODE
  /\ pc > 16 => "gdt" \in loaded

(* Interrupts are on from the last statement of idt_init; one that finds   *)
(* a handler comes before the master is told its offset, and one that      *)
(* finds none before everything is masked.                                 *)
InterruptsAreLate ==
  /\ IF_flag => pc > 30
  /\ running = "handler" => pc \in 31..53
  /\ running = "fault" => pc \in 31..79

(* How far pic_remap has got, both times.                                  *)
RemapsGoThrough ==
  /\ chips[1].icw = IF pc \in {52, 53, 70, 71} THEN 2
                    ELSE IF pc \in {54, 55, 72, 73} THEN 3
                    ELSE IF pc \in {56, 57, 74, 75} THEN 4 ELSE 0
  /\ chips[2].icw = IF pc \in {53, 54, 71, 72} THEN 2
                    ELSE IF pc \in {55, 56, 73, 74} THEN 3
                    ELSE IF pc \in {57, 58, 75, 76} THEN 4 ELSE 0
  /\ chips[1].offset = IF pc <= 53 THEN 8 ELSE 32
  /\ chips[2].offset = IF pc <= 54 THEN 112 ELSE 40
  /\ pc > 79 => chips[1].imr = 255
  /\ pc > 80 => chips[2].imr = 255

(* Nothing acknowledges an interrupt; only the command of the second       *)
(* pic_remap puts an end to those taken.                                   *)
ServiceIsShort ==
  /\ 2 \notin chips[1].irr
  /\ running # "fault" => /\ chips[1].isr \subseteq Handled /\ chips[2].isr = {}
                          /\ pc > 69 => chips[1].isr = {}

(* Handlers that have sent their letter since the last command.            *)
Answered == (IF 0 \in chips[1].isr THEN 1 ELSE 0) + (IF 5 \in chips[1].isr THEN 1 ELSE 0)
              + (IF 6 \in chips[1].isr THEN 1 ELSE 0) - (IF running = "handler" THEN 1 ELSE 0)

(* A poll has been answered, or will be by what a handler left in dx.      *)
ShowsRoom == pc \in Sends \/ (pc \in Readies /\ dx # STATUS)

(* Each handler puts two characters more into the transmitter than the     *)
(* polls allow for: its own, and the one of the poll that it misled.       *)
QueueIsShort ==
  /\ FIFO >= 10 => ~uart.lost
  /\ pc > 8 => ~uart.dlab
  /\ pc > 9 => uart.fifo
  /\ pc <= 30 => uart.queue = 0
  /\ running # "fault" =>
       /\ pc \in 31..51 => uart.queue <= 2 * Answered + 1
       /\ ShowsRoom => uart.queue <= 2 * Answered
       /\ pc \in {52, 53} => uart.queue <= 7 + Answered
       /\ pc > 53 => uart.queue <= 10

HeapIsSoundOrNone ==
  /\ pc <= 85 => heap_start = 0
  /\ HeapIsSound

IInv == TypesOK /\ TablesAreUp /\ InterruptsAreLate /\ RemapsGoThrough /\ ServiceIsShort
          /\ QueueIsShort /\ HeapIsSoundOrNone

(* The statements the properties name, as numbers. *)
LEMMA Landmarks == Idle = 90 /\ Initialised = 85 /\ Remapped = 54
PROOF
  <1>1. Len(Program) = 89
    BY ProgramIs DEF List
  <1>2. Program[85].do = "mm_init" /\ Program[51].do = "command"
    <2>1. Program[84 + 1] = Rest[1] /\ Program[48 + 3] = Remap[3]
      <3>1. 1 \in 1..5 /\ 3 \in 1..15
        OBVIOUS
      <3> QED BY <3>1, ProgramIs, Zenon DEF At
    <2> QED BY <2>1, PiecesSay
  <1>3. \A i \in 1..89 : /\ Program[i].do = "mm_init" => i = 85
                         /\ Program[i].do = "command" => i \in {51, 52, 69, 70}
    BY PlacesAre, ZenonT(40) DEF Place
  <1> DEFINE Is(what, i) == Program[i].do = what /\ \A k \in 1..(i - 1) : Program[k].do # what
  <1>4. Is("mm_init", 85) /\ \A i \in 1..89 : Is("mm_init", i) => i = 85
    <2>1. \A k \in 1..(85 - 1) : k \in 1..89 /\ k # 85
      OBVIOUS
    <2>2. \A k \in 1..(85 - 1) : Program[k].do # "mm_init"
      BY <1>3, <2>1, ZenonT(40)
    <2> QED BY <1>2, <1>3, <2>2
  <1>5. Is("command", 51) /\ \A i \in 1..89 : Is("command", i) => i = 51
    <2>1. \A k \in 1..(51 - 1) : k \in 1..89 /\ k \notin {51, 52, 69, 70}
      OBVIOUS
    <2>2. \A k \in 1..(51 - 1) : Program[k].do # "command"
      BY <1>3, <2>1, SMTT(30)
    <2>3. ASSUME NEW i \in 1..89, Is("command", i) PROVE i = 51
      <3>1. i \in {51, 52, 69, 70}
        BY <1>3, <2>3
      <3>2. i > 51 => 51 \in 1..(i - 1)
        BY <3>1
      <3> QED BY <1>2, <2>3, <3>1, <3>2
    <2> QED BY <1>2, <2>2, <2>3
  <1>6. IndexOf("mm_init") = CHOOSE i \in 1..89 : Is("mm_init", i)
    BY <1>1 DEF IndexOf
  <1>7. IndexOf("command") = CHOOSE i \in 1..89 : Is("command", i)
    BY <1>1 DEF IndexOf
  <1> HIDE DEF Is
  <1>8. IndexOf("mm_init") = 85
    BY <1>4, <1>6
  <1>9. IndexOf("command") = 51
    BY <1>5, <1>7
  <1> QED BY <1>1, <1>8, <1>9 DEF Idle, Initialised, Remapped

(* A statement that is executed is the one pc is at, and pc moves on. *)
LEMMA Executed ==
  ASSUME NEW what, TypesOK, Executes(what)
  PROVE  /\ running = "kernel" /\ running' = "kernel"
         /\ pc \in 1..89 /\ pc \in Place(what) /\ pc' = pc + 1 /\ Stmt = Program[pc]
PROOF
  <1>1. pc \in 1..89 /\ running = "kernel" /\ running' = "kernel"
    BY Landmarks DEF Executes, Reaches, TypesOK
  <1> QED BY <1>1, PlacesAre DEF Executes, Reaches, Stmt

LEMMA InitMakesIInv == ASSUME Init PROVE IInv
PROOF
  <1>1. PICK m1 \in 0..255, m2 \in 0..255 :
          chips = <<[offset |-> 8,   imr |-> m1, irr |-> {}, isr |-> {}, icw |-> 0],
                    [offset |-> 112, imr |-> m2, irr |-> {}, isr |-> {}, icw |-> 0]>>
    BY BootAssumption DEF Init
  <1>2. chips \in [1..2 -> Chip]
    BY <1>1 DEF Chip
  <1>3. /\ uart \in Uart
        /\ uart.queue = 0 /\ ~uart.lost /\ dx = 0
    <2>1. PICK d \in BOOLEAN, f \in BOOLEAN :
            uart = [dlab |-> d, fifo |-> f, divisor |-> 0, queue |-> 0,
                    lost |-> FALSE, received |-> FALSE]
      BY DEF Init, SerialInit
    <2>2. dx = 0
      BY DEF Init, SerialInit
    <2> QED BY <2>1, <2>2 DEF Uart
  <1>4. pc = 1 /\ running = "kernel" /\ ~IF_flag /\ IF_flag \in BOOLEAN /\ saved \in [1..2 -> 0..255]
    BY DEF Init
  <1>5. TypesOK
    BY <1>2, <1>3, <1>4 DEF TypesOK
  <1>6. TablesAreUp
    BY <1>4 DEF Init, TablesAreUp
  <1>7. InterruptsAreLate
    BY <1>4 DEF InterruptsAreLate
  <1>8. RemapsGoThrough /\ ServiceIsShort
    BY <1>1, <1>4 DEF RemapsGoThrough, ServiceIsShort
  <1>9. QueueIsShort
    BY <1>3, <1>4 DEF QueueIsShort, ShowsRoom, Sends, Readies
  <1>10. HeapIsSoundOrNone
    BY DEF Init, SizingInit, HeapIsSoundOrNone, HeapIsSound
  <1> QED BY <1>5, <1>6, <1>7, <1>8, <1>9, <1>10 DEF IInv

(* A statement that concerns neither the controllers nor the port.         *)
LEMMA QuietKeeps ==
  ASSUME IInv, running = "kernel", running' = "kernel", pc' = pc + 1,
         pc \in (1..3) \cup (11..30) \cup {49, 50} \cup (63..68) \cup (81..84) \cup (86..89),
         UNCHANGED <<chips, serialVars, sizingVars>>, TablesAreUp',
         saved' \in [1..2 -> 0..255], IF_flag' \in BOOLEAN, IF_flag' => pc' > 30
  PROVE  IInv'
PROOF
  <1>1. TypesOK'
    BY DEF IInv, TypesOK, serialVars
  <1>2. InterruptsAreLate'
    BY DEF IInv, InterruptsAreLate
  <1>3. RemapsGoThrough'
    BY DEF IInv, RemapsGoThrough
  <1>4. ServiceIsShort'
    BY DEF IInv, ServiceIsShort
  <1>5. QueueIsShort'
    <2>1. uart' = uart /\ Answered' = Answered
      BY DEF serialVars, Answered
    <2>2. ~ShowsRoom'
      BY DEF ShowsRoom, Sends, Readies
    <2>3. /\ FIFO >= 10 => ~uart'.lost
          /\ pc' > 8 => ~uart'.dlab
          /\ pc' > 9 => uart'.fifo
          /\ pc' <= 30 => uart'.queue = 0
      BY <2>1 DEF IInv, QueueIsShort
    <2>4. ASSUME running' # "fault"
          PROVE  /\ pc' \in 31..51 => uart'.queue <= 2 * Answered' + 1
                 /\ ShowsRoom' => uart'.queue <= 2 * Answered'
                 /\ pc' \in {52, 53} => uart'.queue <= 7 + Answered'
                 /\ pc' > 53 => uart'.queue <= 10
      <3>1. Answered \in 0..3
        BY DEF Answered
      <3>2. PICK a \in 0..3 : a = Answered /\ a = Answered'
        BY <2>1, <3>1
      <3>3. PICK q \in Nat : q = uart.queue /\ q = uart'.queue
        BY <2>1 DEF IInv, TypesOK, Uart
      <3>4. /\ pc <= 30 => q = 0
            /\ pc \in 31..51 => q <= 2 * a + 1
            /\ pc > 53 => q <= 10
        BY <3>2, <3>3 DEF IInv, QueueIsShort
      <3> QED BY <2>2, <3>2, <3>3, <3>4
    <2> QED BY <2>3, <2>4 DEF QueueIsShort
  <1>6. HeapIsSoundOrNone'
    BY DEF IInv, HeapIsSoundOrNone, HeapIsSound, Sane, sizingVars
  <1> QED BY <1>1, <1>2, <1>3, <1>4, <1>5, <1>6 DEF IInv

(* The statements that touch no controller and no port. *)
LEMMA QuietActions ==
  ASSUME IInv, \/ cli \/ sti \/ push \/ gdt_set_gate \/ gdt_flush \/ idt_clear \/ idt_set_gate
               \/ load_idt \/ inb \/ call
  PROVE  IInv'
PROOF
  <1>1. TypesOK /\ TablesAreUp /\ InterruptsAreLate
    BY DEF IInv
  <1>2. CASE cli
    <2>1. running = "kernel" /\ running' = "kernel" /\ pc \in {1, 20} /\ pc' = pc + 1
      BY <1>1, <1>2, Executed DEF cli, Place
    <2>2. TablesAreUp'
      BY <1>1, <1>2, <2>1 DEF cli, TablesAreUp, tables
    <2>3. ~IF_flag' /\ IF_flag' \in BOOLEAN
      BY <1>2 DEF cli
    <2> QED BY <1>1, <1>2, <2>1, <2>2, <2>3, QuietKeeps DEF cli, Elsewhere, TypesOK
  <1>3. CASE sti
    <2>1. running = "kernel" /\ running' = "kernel" /\ pc = 30 /\ pc' = pc + 1
      BY <1>1, <1>3, Executed DEF sti, Place
    <2>2. TablesAreUp'
      BY <1>1, <1>3, <2>1 DEF sti, TablesAreUp, tables
    <2> QED BY <1>1, <1>3, <2>1, <2>2, QuietKeeps DEF sti, Elsewhere, TypesOK
  <1>4. CASE push
    <2>1. running = "kernel" /\ running' = "kernel" /\ pc \in {2, 3} /\ pc' = pc + 1
      BY <1>1, <1>4, Executed DEF push, Place
    <2>2. TablesAreUp'
      BY <1>1, <1>4, <2>1 DEF push, TablesAreUp, tables
    <2> QED BY <1>1, <1>4, <2>1, <2>2, QuietKeeps DEF push, Elsewhere, TypesOK, InterruptsAreLate
  <1>5. CASE gdt_set_gate
    <2>1. /\ running = "kernel" /\ running' = "kernel" /\ pc \in {13, 14, 15} /\ pc' = pc + 1
          /\ Stmt = Program[pc]
      BY <1>1, <1>5, Executed DEF gdt_set_gate, Place
    <2>2. PICK d : gdt' = [gdt EXCEPT ![Stmt.num] = d] /\ d.access = Stmt.access
      <3> DEFINE new == [base |-> Stmt.base, limit |-> Stmt.limit % 2^20,
                         access |-> Stmt.access, gran |-> Stmt.gran \div 16]
      <3>1. gdt' = [gdt EXCEPT ![Stmt.num] = new]
        BY <1>5 DEF gdt_set_gate
      <3>2. new.access = Stmt.access
        OBVIOUS
      <3> QED BY <3>1, <3>2
    <2>3. Stmt.num \in 0..2 /\ (pc = 14 => Stmt.num = 1 /\ Stmt.access = CODE) /\ (pc # 14 => Stmt.num # 1)
      BY <2>1, Details
    <2>4. DOMAIN gdt' = 0..2 /\ (pc' > 14 => gdt'[1].access = CODE)
      BY <1>1, <2>1, <2>2, <2>3 DEF TablesAreUp
    <2>5. TablesAreUp'
      BY <1>1, <1>5, <2>1, <2>4 DEF gdt_set_gate, TablesAreUp
    <2> QED BY <1>1, <1>5, <2>1, <2>5, QuietKeeps
            DEF gdt_set_gate, Elsewhere, TypesOK, InterruptsAreLate
  <1>6. CASE gdt_flush
    <2>1. /\ running = "kernel" /\ running' = "kernel" /\ pc \in {16, 17} /\ pc' = pc + 1
          /\ loaded \subseteq loaded' /\ (pc = 16 => "gdt" \in loaded')
      <3>1. CASE Executes("lgdt") /\ loaded' = loaded \cup {"gdt"}
        BY <1>1, <3>1, Executed DEF Place
      <3>2. CASE Executes("reload") /\ loaded' = loaded \cup {"segments"}
        BY <1>1, <3>2, Executed DEF Place
      <3> QED BY <1>6, <3>1, <3>2 DEF gdt_flush
    <2>2. TablesAreUp'
      BY <1>1, <1>6, <2>1 DEF gdt_flush, TablesAreUp
    <2> QED BY <1>1, <1>6, <2>1, <2>2, QuietKeeps
            DEF gdt_flush, Elsewhere, TypesOK, InterruptsAreLate
  <1>7. CASE idt_clear
    <2>1. running = "kernel" /\ running' = "kernel" /\ pc = 23 /\ pc' = pc + 1
      BY <1>1, <1>7, Executed DEF idt_clear, Place
    <2>2. TablesAreUp'
      BY <1>1, <1>7, <2>1 DEF idt_clear, TablesAreUp
    <2> QED BY <1>1, <1>7, <2>1, <2>2, QuietKeeps
            DEF idt_clear, Elsewhere, TypesOK, InterruptsAreLate
  <1>8. CASE idt_set_gate
    <2>1. /\ running = "kernel" /\ running' = "kernel" /\ pc \in 24..28 /\ pc' = pc + 1
          /\ Stmt = Program[pc]
      BY <1>1, <1>8, Executed DEF idt_set_gate, Place
    <2>2. Stmt.num \in Exceptions
      BY <2>1, Details DEF Exceptions
    <2>3. TablesAreUp'
      BY <1>1, <1>8, <2>1, <2>2 DEF idt_set_gate, TablesAreUp
    <2> QED BY <1>1, <1>8, <2>1, <2>3, QuietKeeps
            DEF idt_set_gate, Elsewhere, TypesOK, InterruptsAreLate
  <1>9. CASE load_idt
    <2>1. running = "kernel" /\ running' = "kernel" /\ pc = 29 /\ pc' = pc + 1
      BY <1>1, <1>9, Executed DEF load_idt, Place
    <2>2. TablesAreUp'
      BY <1>1, <1>9, <2>1, SMTT(30) DEF load_idt, TablesAreUp
    <2> QED BY <1>1, <1>9, <2>1, <2>2, QuietKeeps
            DEF load_idt, Elsewhere, TypesOK, InterruptsAreLate
  <1>10. CASE inb
    <2>1. /\ running = "kernel" /\ running' = "kernel" /\ pc \in {49, 50, 67, 68} /\ pc' = pc + 1
          /\ Stmt = Program[pc]
      BY <1>1, <1>10, Executed DEF inb, Place
    <2>2. TablesAreUp'
      BY <1>1, <1>10, <2>1 DEF inb, TablesAreUp, tables
    <2>3. Stmt.chip \in 1..2
      BY <2>1, RemapSays DEF Masters, Slaves
    <2>4. saved' \in [1..2 -> 0..255]
      BY <1>1, <1>10, <2>3 DEF inb, TypesOK, Chip
    <2>5. UNCHANGED <<IF_flag, chips, serialVars, sizingVars>>
      BY <1>10 DEF inb, Elsewhere
    <2>6. IF_flag' \in BOOLEAN /\ (IF_flag' => pc' > 30)
      BY <1>1, <2>1, <2>5 DEF TypesOK, InterruptsAreLate
    <2>7. pc \in (1..3) \cup (11..30) \cup {49, 50} \cup (63..68) \cup (81..84) \cup (86..89)
      BY <2>1
    <2> QED BY <1>1, <2>1, <2>2, <2>4, <2>5, <2>6, <2>7, QuietKeeps
  <1>11. CASE call
    <2>1. /\ running = "kernel" /\ running' = "kernel" /\ pc' = pc + 1
          /\ pc \in {11, 12, 18, 19, 21, 22} \cup (63..66) \cup (81..84) \cup (86..89)
      BY <1>1, <1>11, Executed DEF call, Place
    <2>2. TablesAreUp'
      BY <1>1, <1>11, <2>1 DEF call, TablesAreUp, tables
    <2> QED BY <1>1, <1>11, <2>1, <2>2, QuietKeeps DEF call, Elsewhere, TypesOK, InterruptsAreLate
  <1> QED BY <1>2, <1>3, <1>4, <1>5, <1>6, <1>7, <1>8, <1>9, <1>10, <1>11

(* A byte written to the data port of a controller.                        *)
LEMMA WithDataIs ==
  ASSUME NEW chip \in Chip, NEW byte \in 0..255
  PROVE  /\ WithData(chip, byte) \in Chip
         /\ WithData(chip, byte).isr = chip.isr /\ WithData(chip, byte).irr = chip.irr
         /\ WithData(chip, byte).imr = IF chip.icw = 0 THEN byte ELSE chip.imr
         /\ WithData(chip, byte).offset = IF chip.icw = 2 THEN byte ELSE chip.offset
         /\ WithData(chip, byte).icw = IF chip.icw = 2 THEN 3 ELSE IF chip.icw = 3 THEN 4 ELSE 0
PROOF
  <1>1. CASE chip.icw = 0
    <2>1. WithData(chip, byte) = [chip EXCEPT !.imr = byte]
      BY <1>1 DEF WithData
    <2> QED BY <1>1, <2>1 DEF Chip
  <1>2. CASE chip.icw = 2
    <2>1. WithData(chip, byte) = [chip EXCEPT !.offset = byte, !.icw = 3]
      BY <1>2 DEF WithData
    <2>2. WithData(chip, byte) = [offset |-> byte, imr |-> chip.imr, irr |-> chip.irr,
                                  isr |-> chip.isr, icw |-> 3]
      BY <2>1 DEF Chip
    <2> QED BY <1>2, <2>2 DEF Chip
  <1>3. CASE chip.icw = 3
    <2>1. WithData(chip, byte) = [chip EXCEPT !.icw = 4]
      BY <1>3 DEF WithData
    <2> QED BY <1>3, <2>1 DEF Chip
  <1>4. CASE chip.icw = 4
    <2>1. WithData(chip, byte) = [chip EXCEPT !.icw = 0]
      BY <1>4 DEF WithData
    <2> QED BY <1>4, <2>1 DEF Chip
  <1> QED BY <1>1, <1>2, <1>3, <1>4 DEF Chip

(* A statement of pic_remap that writes to a controller: what is left to   *)
(* show of it is how far the initialisation has got.                       *)
LEMMA ControllerKeeps ==
  ASSUME IInv, running = "kernel", running' = "kernel", pc' = pc + 1,
         pc \in (51..62) \cup (69..80),
         UNCHANGED <<IF_flag, given, tables, saved, serialVars, sizingVars>>,
         chips' \in [1..2 -> Chip], RemapsGoThrough',
         chips'[1].isr = IF pc \in {51, 69} THEN {} ELSE chips[1].isr,
         chips'[2].isr = IF pc \in {52, 70} THEN {} ELSE chips[2].isr,
         chips'[1].irr \subseteq chips[1].irr
  PROVE  IInv'
PROOF
  <1>1. TypesOK'
    BY DEF IInv, TypesOK, serialVars
  <1>2. TablesAreUp'
    BY DEF IInv, TablesAreUp, tables
  <1>3. InterruptsAreLate'
    BY DEF IInv, InterruptsAreLate
  <1>4. ServiceIsShort'
    BY DEF IInv, ServiceIsShort
  <1>5. QueueIsShort'
    <2>1. uart' = uart /\ ~ShowsRoom'
      BY DEF serialVars, ShowsRoom, Sends, Readies
    <2>2. PICK a \in 0..3 : a = Answered
      BY DEF Answered
    <2>3. PICK b \in 0..3 : b = Answered'
      BY DEF Answered
    <2>4. (pc \in {51, 69} => b = 0) /\ (pc \notin {51, 69} => b = a)
      BY <2>2, <2>3 DEF Answered
    <2>5. PICK q \in Nat : q = uart.queue /\ q = uart'.queue
      BY <2>1 DEF IInv, TypesOK, Uart
    <2>6. /\ pc = 51 => q <= 2 * a + 1
          /\ pc \in {52, 53} => q <= 7 + a
          /\ pc > 53 => q <= 10
      BY <2>2, <2>5 DEF IInv, QueueIsShort
    <2>7. (FIFO >= 10 => ~uart'.lost) /\ ~uart'.dlab /\ uart'.fifo
      BY <2>1 DEF IInv, QueueIsShort
    <2> QED BY <2>1, <2>3, <2>4, <2>5, <2>6, <2>7 DEF QueueIsShort
  <1>6. HeapIsSoundOrNone'
    BY DEF IInv, HeapIsSoundOrNone, HeapIsSound, Sane, sizingVars
  <1> QED BY <1>1, <1>2, <1>3, <1>4, <1>5, <1>6 DEF IInv

LEMMA Commands ==
  ASSUME IInv, outb_command
  PROVE  IInv'
PROOF
  <1>1. /\ running = "kernel" /\ running' = "kernel" /\ pc' = pc + 1 /\ pc \in {51, 52, 69, 70}
        /\ Stmt = Program[pc]
    BY Executed DEF IInv, outb_command, Place
  <1>2. PICK c \in 1..2 : c = Stmt.chip /\ (c = 1 <=> pc \in {51, 69})
    BY <1>1, RemapSays DEF Masters, Slaves
  <1>3. chips \in [1..2 -> Chip] /\ chips' = [chips EXCEPT ![c] = Reset(chips[c])]
    BY <1>2 DEF IInv, TypesOK, outb_command
  <1>4. /\ Reset(chips[c]) \in Chip
        /\ Reset(chips[c]).icw = 2 /\ Reset(chips[c]).isr = {} /\ Reset(chips[c]).irr = {}
        /\ Reset(chips[c]).offset = chips[c].offset
    <2>1. PICK k \in Chip : k = chips[c]
      BY <1>3
    <2>2. Reset(k) = [offset |-> k.offset, imr |-> 0, irr |-> {}, isr |-> {}, icw |-> 2]
      <3>1. Reset(k) = [f \in DOMAIN k |-> IF f = "icw" THEN 2 ELSE IF f \in {"irr", "isr"} THEN {}
                                           ELSE IF f = "imr" THEN 0 ELSE k[f]]
        BY DEF Reset, Chip
      <3>2. DOMAIN k = {"offset", "imr", "irr", "isr", "icw"}
        BY DEF Chip
      <3> QED BY <3>1, <3>2
    <2>3. Reset(k) \in Chip
      BY <2>2 DEF Chip
    <2> QED BY <2>1, <2>2, <2>3
  <1>5. /\ chips' \in [1..2 -> Chip]
        /\ chips'[c] = Reset(chips[c]) /\ chips'[3 - c] = chips[3 - c]
    BY <1>3, <1>4
  <1>6. RemapsGoThrough'
    <2>1. CASE c = 1
      BY <1>1, <1>2, <1>4, <1>5, <2>1 DEF IInv, RemapsGoThrough
    <2>2. CASE c = 2
      BY <1>1, <1>2, <1>4, <1>5, <2>2 DEF IInv, RemapsGoThrough
    <2> QED BY <2>1, <2>2
  <1>7. /\ chips'[1].isr = IF pc \in {51, 69} THEN {} ELSE chips[1].isr
        /\ chips'[2].isr = IF pc \in {52, 70} THEN {} ELSE chips[2].isr
        /\ chips'[1].irr \subseteq chips[1].irr
    <2>1. CASE c = 1
      BY <1>1, <1>2, <1>4, <1>5, <2>1
    <2>2. CASE c = 2
      BY <1>1, <1>2, <1>4, <1>5, <2>2
    <2> QED BY <2>1, <2>2
  <1> QED BY <1>1, <1>5, <1>6, <1>7, ControllerKeeps DEF outb_command, Elsewhere

(* The initialisation words, and the masks, which are data as well.        *)
LEMMA DataKeeps ==
  ASSUME IInv, running = "kernel", running' = "kernel", pc' = pc + 1,
         UNCHANGED <<IF_flag, given, tables, saved, serialVars, sizingVars>>,
         NEW c \in 1..2, NEW byte \in 0..255,
         pc \in (53..62) \cup (71..80), c = 1 <=> pc \in Masters,
         pc \in {53, 71} => byte = 32, pc \in {54, 72} => byte = 40, pc \in {79, 80} => byte = 255,
         chips' = [chips EXCEPT ![c] = WithData(chips[c], byte)]
  PROVE  IInv'
PROOF
  <1>1. chips \in [1..2 -> Chip] /\ RemapsGoThrough
    BY SMTT(30) DEF IInv, TypesOK
  <1>2. PICK k \in Chip, new \in Chip : k = chips[c] /\ new = WithData(k, byte)
    <2>1. PICK k \in Chip : k = chips[c]
      BY <1>1
    <2> QED BY <2>1, WithDataIs
  <1>3. /\ new \in Chip /\ new.isr = k.isr /\ new.irr = k.irr
        /\ new.imr = IF k.icw = 0 THEN byte ELSE k.imr
        /\ new.offset = IF k.icw = 2 THEN byte ELSE k.offset
        /\ new.icw = IF k.icw = 2 THEN 3 ELSE IF k.icw = 3 THEN 4 ELSE 0
    BY <1>2, WithDataIs, ZenonT(40)
  <1>4. chips' \in [1..2 -> Chip] /\ chips'[c] = new /\ chips'[3 - c] = chips[3 - c]
    BY <1>1, <1>2, <1>3
  <1>5. RemapsGoThrough'
    <2>1. CASE c = 1
      <3>1. pc \in {53, 55, 57, 59, 61, 71, 73, 75, 77, 79}
        BY <2>1 DEF Masters
      <3> QED BY <1>1, <1>2, <1>3, <1>4, <2>1, <3>1 DEF RemapsGoThrough
    <2>2. CASE c = 2
      <3>1. pc \in {54, 56, 58, 60, 62, 72, 74, 76, 78, 80}
        BY <2>2 DEF Masters
      <3> QED BY <1>1, <1>2, <1>3, <1>4, <2>2, <3>1 DEF RemapsGoThrough
    <2> QED BY <2>1, <2>2
  <1>6. /\ chips'[1].isr = chips[1].isr /\ chips'[2].isr = chips[2].isr
        /\ chips'[1].irr = chips[1].irr
    BY <1>2, <1>3, <1>4
  <1>7. (51..62) \cup (69..80) = {51, 52} \cup (53..62) \cup {69, 70} \cup (71..80)
    OBVIOUS
  <1> QED BY <1>4, <1>5, <1>6, <1>7, ControllerKeeps

LEMMA DataActions ==
  ASSUME IInv, outb_data \/ outb_saved
  PROVE  IInv'
PROOF
  <1>1. CASE outb_data
    <2>1. /\ running = "kernel" /\ running' = "kernel" /\ pc' = pc + 1 /\ Stmt = Program[pc]
          /\ pc \in (53..58) \cup {61, 62} \cup (71..76) \cup {79, 80}
      BY <1>1, Executed DEF IInv, outb_data, Place
    <2>2. PICK c \in 1..2 : c = Stmt.chip /\ (c = 1 <=> pc \in Masters)
      BY <2>1, RemapSays DEF Masters, Slaves
    <2>3. PICK byte \in 0..255 : byte = Stmt.byte
      BY <2>1, RemapSays
    <2>7. (pc \in {53, 71} => byte = 32) /\ (pc \in {54, 72} => byte = 40)
      BY <2>1, <2>3, RemapSays
    <2>8. pc \in {79, 80} => byte = 255
      BY <2>1, <2>3, RemapSays
    <2>4. chips' = [chips EXCEPT ![c] = WithData(chips[c], byte)]
      BY <1>1, <2>2, <2>3 DEF outb_data
    <2>5. pc \in (53..62) \cup (71..80)
      BY <2>1
    <2>6. UNCHANGED <<IF_flag, given, tables, saved, serialVars, sizingVars>>
      BY <1>1 DEF outb_data, Elsewhere
    <2> QED BY <2>1, <2>2, <2>4, <2>5, <2>6, <2>7, <2>8, DataKeeps, ZenonT(40)
  <1>2. CASE outb_saved
    <2>1. /\ running = "kernel" /\ running' = "kernel" /\ pc' = pc + 1 /\ Stmt = Program[pc]
          /\ pc \in {59, 60, 77, 78}
      BY <1>2, Executed DEF IInv, outb_saved, Place
    <2>2. PICK c \in 1..2 : c = Stmt.chip /\ (c = 1 <=> pc \in Masters)
      BY <2>1, RemapSays DEF Masters, Slaves
    <2>3. PICK byte \in 0..255 : byte = saved[c]
      BY DEF IInv, TypesOK
    <2>4. chips' = [chips EXCEPT ![c] = WithData(chips[c], byte)]
      BY <1>2, <2>2, <2>3 DEF outb_saved
    <2>5. pc \in (53..62) \cup (71..80) /\ pc \notin {53, 71, 54, 72, 79, 80}
      BY <2>1
    <2>6. UNCHANGED <<IF_flag, given, tables, saved, serialVars, sizingVars>>
      BY <1>2 DEF outb_saved, Elsewhere
    <2> QED BY <2>1, <2>2, <2>3, <2>4, <2>5, <2>6, DataKeeps, ZenonT(40)
  <1> QED BY <1>1, <1>2

(* The UART: statements of serial_init, then the three of each poll.       *)
LEMMA Registers ==
  ASSUME IInv, serial_out
  PROVE  /\ uart' \in Uart /\ uart'.queue = 0
         /\ uart'.lost => uart.lost
         /\ pc = 8 => ~uart'.dlab
         /\ pc \in {9, 10} => (uart'.dlab => uart.dlab)
         /\ pc = 9 => uart'.fifo
         /\ pc = 10 => (uart.fifo => uart'.fifo)
PROOF
  <1>1. pc \in 4..10 /\ Stmt = Program[pc]
    BY Executed DEF IInv, serial_out, Place
  <1>2. uart' = Register(uart, Stmt.port, Stmt.byte)
    BY DEF serial_out, uart_out
  <1>3. uart \in Uart /\ uart.queue = 0
    BY <1>1 DEF IInv, TypesOK, QueueIsShort
  <1>4. CASE pc \in {4, 7, 10}
    <2>1. Stmt.port \in {COM1 + 1, COM1 + 4}
      BY <1>1, <1>4, Details
    <2>2. uart' = uart
      BY <1>2, <2>1 DEF Register, COM1
    <2> QED BY <1>3, <1>4, <2>2
  <1>5. CASE pc = 5
    <2>1. Stmt.port = COM1 + 3 /\ Stmt.byte = 128
      BY <1>1, <1>5, Details
    <2>2. uart' = [uart EXCEPT !.dlab = Stmt.byte >= 128]
      BY <1>2, <2>1 DEF Register, COM1
    <2>3. Stmt.byte >= 128
      BY <2>1
    <2>4. (Stmt.byte >= 128) = TRUE
      BY <2>3, Zenon
    <2>5. uart' = [uart EXCEPT !.dlab = TRUE]
      BY <2>2, <2>4, Zenon
    <2>6. uart' \in Uart
      BY <1>3, <2>5 DEF Uart
    <2>7. uart'.queue = 0 /\ (uart'.lost => uart.lost)
      BY <1>3, <2>5 DEF Uart
    <2> QED BY <1>5, <2>6, <2>7
  <1>6. CASE pc = 6
    <2>1. Stmt.port = COM1 /\ Stmt.byte = 3
      BY <1>1, <1>6, Details
    <2>2. uart' = uart \/ uart' = [uart EXCEPT !.divisor = 3]
      BY <1>2, <2>1 DEF Register, COM1
    <2> QED BY <1>3, <1>6, <2>2 DEF Uart
  <1>7. CASE pc = 8
    <2>1. Stmt.port = COM1 + 3 /\ Stmt.byte = 3
      BY <1>1, <1>7, Details
    <2>2. uart' = [uart EXCEPT !.dlab = Stmt.byte >= 128]
      BY <1>2, <2>1 DEF Register, COM1
    <2>3. ~(Stmt.byte >= 128)
      BY <2>1
    <2>4. (Stmt.byte >= 128) = FALSE
      <3> DEFINE c == Stmt.byte >= 128
      <3>1. c \in BOOLEAN /\ ~c
        BY <2>1, <2>3
      <3> HIDE DEF c
      <3>2. c = FALSE
        BY <3>1
      <3> QED BY <3>2 DEF c
    <2>5. uart' = [uart EXCEPT !.dlab = FALSE]
      BY <2>2, <2>4, Zenon
    <2>6. uart' \in Uart
      BY <1>3, <2>5 DEF Uart
    <2>7. uart'.queue = 0 /\ (uart'.lost => uart.lost)
      BY <1>3, <2>5 DEF Uart
    <2>8. ~uart'.dlab
      BY <1>3, <2>5 DEF Uart
    <2> QED BY <1>7, <2>6, <2>7, <2>8
  <1>8. CASE pc = 9
    <2>1. Stmt.port = COM1 + 2 /\ Stmt.byte = 199
      BY <1>1, <1>8, Details
    <2>2. uart' = [uart EXCEPT !.fifo = Stmt.byte % 2 = 1, !.queue = 0]
      BY <1>2, <2>1 DEF Register, COM1
    <2>3. Stmt.byte % 2 = 1
      BY <2>1
    <2>4. (Stmt.byte % 2 = 1) = TRUE
      BY <2>3, Zenon
    <2>5. uart' = [uart EXCEPT !.fifo = TRUE, !.queue = 0]
      BY <2>2, <2>4, Zenon
    <2>6. uart' \in Uart
      BY <1>3, <2>5 DEF Uart
    <2>7. uart'.queue = 0 /\ (uart'.lost => uart.lost)
      BY <1>3, <2>5 DEF Uart
    <2>8. uart'.fifo /\ (uart'.dlab => uart.dlab)
      BY <1>3, <2>5 DEF Uart
    <2> QED BY <1>8, <2>6, <2>7, <2>8
  <1> QED BY <1>1, <1>4, <1>5, <1>6, <1>7, <1>8

(* What a step on the serial port has to keep. *)
LEMMA PortKeeps ==
  ASSUME IInv, UNCHANGED <<chips, saved, tables, sizingVars>>,
         running # "fault", running' \in {"kernel", "handler"}, IF_flag' \in BOOLEAN,
         \/ pc' = pc
         \/ pc \in 4..10 /\ pc' \in 5..11
         \/ pc \in 31..48 /\ pc' \in 31..49,
         uart' \in Uart, dx' \in Nat, InterruptsAreLate', QueueIsShort'
  PROVE  IInv'
PROOF
  <1>1. TypesOK'
    BY DEF IInv, TypesOK
  <1>2. TablesAreUp'
    BY DEF IInv, TypesOK, TablesAreUp, tables
  <1>3. RemapsGoThrough'
    BY DEF IInv, TypesOK, RemapsGoThrough
  <1>4. ServiceIsShort'
    BY DEF IInv, TypesOK, ServiceIsShort
  <1>5. HeapIsSoundOrNone'
    BY DEF IInv, TypesOK, HeapIsSoundOrNone, HeapIsSound, Sane, sizingVars
  <1> QED BY <1>1, <1>2, <1>3, <1>4, <1>5 DEF IInv

(* A character more in the transmitter, when there is room.                *)
LEMMA Transmitted ==
  ASSUME NEW u \in Uart, ~u.dlab, u.fifo
  PROVE  /\ Transmit(u) \in Uart /\ ~Transmit(u).dlab /\ Transmit(u).fifo
         /\ Transmit(u).queue <= u.queue + 1
         /\ u.queue < FIFO => (Transmit(u).lost => u.lost)
PROOF
  <1>1. CASE u.queue >= FIFO
    <2>1. Transmit(u) = [u EXCEPT !.lost = TRUE]
      BY <1>1 DEF Transmit
    <2>2. ~(u.queue < FIFO)
      BY <1>1, SerialAssumption DEF Uart
    <2>3. Transmit(u) \in Uart /\ Transmit(u).queue = u.queue
      BY <2>1 DEF Uart
    <2>4. ~Transmit(u).dlab /\ Transmit(u).fifo
      BY <2>1 DEF Uart
    <2>5. Transmit(u).queue <= u.queue + 1
      BY <2>3 DEF Uart
    <2> QED BY <2>2, <2>3, <2>4, <2>5
  <1>2. CASE ~(u.queue >= FIFO)
    <2>1. Transmit(u) = [u EXCEPT !.queue = u.queue + 1]
      BY <1>2 DEF Transmit
    <2> QED BY <2>1 DEF Uart
  <1> QED BY <1>1, <1>2

(* The settings that serial_init writes. *)
LEMMA OutKeeps ==
  ASSUME IInv, serial_out
  PROVE  IInv'
PROOF
  <1>1. /\ running = "kernel" /\ running' = "kernel" /\ pc' = pc + 1 /\ pc \in 4..10
        /\ Stmt = Program[pc]
    BY Executed DEF IInv, serial_out, Place
  <1>2. dx' \in Nat
    <2>1. Stmt.port \in {COM1, COM1 + 1, COM1 + 2, COM1 + 3, COM1 + 4}
      BY <1>1, Details
    <2> QED BY <2>1 DEF serial_out, uart_out, COM1
  <1>3. QueueIsShort'
    <2>1. /\ FIFO >= 10 => ~uart.lost
          /\ pc > 8 => ~uart.dlab
          /\ pc > 9 => uart.fifo
      BY DEF IInv, QueueIsShort
    <2>2. ~ShowsRoom'
      BY <1>1 DEF ShowsRoom, Sends, Readies
    <2> QED BY <1>1, <2>1, <2>2, Registers DEF QueueIsShort
  <1>4. InterruptsAreLate' /\ IF_flag' \in BOOLEAN
    BY <1>1 DEF IInv, TypesOK, InterruptsAreLate, serial_out
  <1> QED BY <1>1, <1>2, <1>3, <1>4, Registers, PortKeeps DEF serial_out

(* The three statements of a poll.                                         *)
LEMMA PollKeeps ==
  ASSUME IInv, serial_load \/ serial_ready \/ serial_send
  PROVE  IInv'
PROOF
  <1>1. PICK a \in 0..3 : a = Answered /\ (running = "kernel" /\ running' = "kernel" /\ UNCHANGED chips => a = Answered')
    <2>1. CASE running = "kernel"
      BY <2>1 DEF Answered
    <2> QED BY <2>1 DEF serial_load, serial_ready, serial_send, Executes, Reaches
  <1>2. PICK q \in Nat : q = uart.queue
    BY DEF IInv, TypesOK, Uart
  <1>3. CASE serial_load
    <2>1. running = "kernel" /\ running' = "kernel" /\ pc' = pc + 1 /\ pc \in Loads
      BY <1>3, Executed DEF IInv, serial_load, Place
    <2>2. pc' \in Readies /\ pc \in 31..48 /\ pc' \in 31..49 /\ dx' = STATUS /\ uart' = uart
      BY <1>3, <2>1 DEF Loads, Readies, serial_load, load
    <2>3. q <= 2 * a + 1 /\ (FIFO >= 10 => ~uart.lost) /\ ~uart.dlab /\ uart.fifo
      BY <1>1, <1>2, <2>1, <2>2 DEF IInv, QueueIsShort
    <2>4. ~ShowsRoom'
      BY <2>2 DEF ShowsRoom, Readies, Sends
    <2>5. a = Answered'
      BY <1>1, <1>3, <2>1 DEF serial_load
    <2>6. QueueIsShort'
      BY <1>2, <2>2, <2>3, <2>4, <2>5 DEF QueueIsShort
    <2>7. InterruptsAreLate' /\ IF_flag' \in BOOLEAN
      BY <1>3, <2>1, <2>2 DEF IInv, TypesOK, InterruptsAreLate, serial_load
    <2>8. uart' \in Uart /\ dx' \in Nat
      BY <2>2 DEF IInv, TypesOK, STATUS, COM1
    <2> QED BY <1>3, <2>1, <2>2, <2>6, <2>7, <2>8, PortKeeps DEF serial_load
  <1>4. CASE serial_ready
    <2>1. running = "kernel" /\ running' = "kernel" /\ pc \in 1..89 /\ pc \in Readies
      <3>1. pc \in 1..89 /\ running = "kernel" /\ running' = "kernel" /\ Program[pc].do = "ready"
        BY <1>4, Landmarks DEF IInv, TypesOK, serial_ready, Reaches, Stmt
      <3> QED BY <3>1, PlacesAre DEF Place
    <2>2. /\ pc' = IF Bit5(dx) THEN pc + 1 ELSE IF hoisted THEN pc ELSE pc - 1
          /\ uart' = uart /\ dx' = dx
      BY <1>4 DEF serial_ready, ready, Elsewhere, serialVars
    <2>3. pc \in 31..48 /\ pc' \in 31..49 /\ (pc' = pc \/ pc' \notin Readies)
      BY <2>1, <2>2 DEF Readies
    <2>4. q <= 2 * a + 1 /\ (FIFO >= 10 => ~uart.lost) /\ ~uart.dlab /\ uart.fifo
      BY <1>1, <1>2, <2>1, <2>3 DEF IInv, QueueIsShort
    <2>5. ShowsRoom' => q <= 2 * a
      <3>1. CASE Bit5(dx) /\ dx = STATUS
        <4>1. q = 0
          BY <1>2, <3>1 DEF Bit5
        <4> QED BY <4>1
      <3>2. CASE Bit5(dx) /\ dx # STATUS
        <4>1. ShowsRoom
          BY <2>1, <3>2 DEF ShowsRoom
        <4> QED BY <1>1, <1>2, <2>1, <4>1 DEF IInv, QueueIsShort
      <3>3. CASE ~Bit5(dx)
        <4>1. pc' = pc \/ pc' = pc - 1
          BY <2>2, <3>3
        <4>2. pc' \notin Sends
          BY <2>1, <4>1 DEF Readies, Sends
        <4>3. ShowsRoom' => ShowsRoom
          BY <2>1, <2>2, <2>3, <4>2 DEF ShowsRoom
        <4> QED BY <1>1, <1>2, <2>1, <4>3 DEF IInv, QueueIsShort
      <3> QED BY <3>1, <3>2, <3>3
    <2>6. a = Answered'
      BY <1>1, <1>4, <2>1 DEF serial_ready
    <2>7. QueueIsShort'
      BY <1>2, <2>2, <2>3, <2>4, <2>5, <2>6 DEF QueueIsShort
    <2>8. InterruptsAreLate' /\ IF_flag' \in BOOLEAN
      BY <1>4, <2>1, <2>3 DEF IInv, TypesOK, InterruptsAreLate, serial_ready
    <2>9. uart' \in Uart /\ dx' \in Nat
      BY <2>2 DEF IInv, TypesOK
    <2>10. UNCHANGED <<chips, saved, tables, sizingVars>>
      BY <1>4 DEF serial_ready, Elsewhere
    <2>11. running # "fault" /\ running' \in {"kernel", "handler"}
      BY <2>1
    <2> QED BY <2>3, <2>7, <2>8, <2>9, <2>10, <2>11, PortKeeps, ZenonT(40)
  <1>5. CASE serial_send
    <2>1. running = "kernel" /\ running' = "kernel" /\ pc' = pc + 1 /\ pc \in Sends
      BY <1>5, Executed DEF IInv, serial_send, Place
    <2>2. /\ pc' \notin Readies /\ pc' \notin Sends /\ pc \in 31..48 /\ pc' \in 31..49
          /\ dx' = COM1 /\ uart' = Transmit(uart)
      BY <1>5, <2>1 DEF Sends, Readies, serial_send, send
    <2>3. q <= 2 * a /\ (FIFO >= 10 => ~uart.lost) /\ ~uart.dlab /\ uart.fifo
      BY <1>1, <1>2, <2>1, <2>2 DEF IInv, QueueIsShort, ShowsRoom
    <2>4. /\ uart' \in Uart /\ ~uart'.dlab /\ uart'.fifo /\ uart'.queue <= q + 1
          /\ FIFO >= 10 => ~uart'.lost
      <3>1. FIFO >= 10 => q < FIFO
        BY <2>3, SerialAssumption
      <3> QED BY <1>2, <2>2, <2>3, <3>1, Transmitted DEF IInv, TypesOK
    <2>5. ~ShowsRoom'
      BY <2>2 DEF ShowsRoom
    <2>6. a = Answered'
      BY <1>1, <1>5, <2>1 DEF serial_send
    <2>7. uart'.queue <= 2 * a + 1
      <3>1. PICK r \in Nat : r = uart'.queue
        BY <2>4 DEF Uart
      <3> QED BY <2>3, <2>4, <3>1
    <2>8. QueueIsShort'
      BY <2>2, <2>4, <2>5, <2>6, <2>7 DEF QueueIsShort
    <2>9. InterruptsAreLate' /\ IF_flag' \in BOOLEAN
      BY <1>5, <2>1, <2>2 DEF IInv, TypesOK, InterruptsAreLate, serial_send
    <2>10. dx' \in Nat
      BY <2>2 DEF COM1
    <2> QED BY <1>5, <2>1, <2>2, <2>4, <2>8, <2>9, <2>10, PortKeeps DEF serial_send
  <1> QED BY <1>3, <1>4, <1>5

LEMMA SizingKeeps ==
  ASSUME IInv, mm_init
  PROVE  IInv'
PROOF
  <1>1. running = "kernel" /\ running' = "kernel" /\ pc = 85 /\ pc' = 86
    BY Executed DEF IInv, mm_init, Place
  <1>2. UNCHANGED <<IF_flag, stack, tables, saved, chips, serialVars>>
    BY DEF mm_init
  <1>3. TypesOK'
    BY <1>1, <1>2 DEF IInv, TypesOK, serialVars
  <1>4. TablesAreUp' /\ InterruptsAreLate'
    BY <1>1, <1>2 DEF IInv, TablesAreUp, InterruptsAreLate, tables
  <1>5. RemapsGoThrough' /\ ServiceIsShort'
    BY <1>1, <1>2 DEF IInv, RemapsGoThrough, ServiceIsShort
  <1>6. QueueIsShort'
    <2>1. uart' = uart /\ ~ShowsRoom'
      BY <1>1, <1>2 DEF serialVars, ShowsRoom, Sends, Readies
    <2>2. (FIFO >= 10 => ~uart.lost) /\ ~uart.dlab /\ uart.fifo /\ uart.queue <= 10
      BY <1>1 DEF IInv, QueueIsShort
    <2> QED BY <1>1, <2>1, <2>2 DEF QueueIsShort
  <1>7. HeapIsSoundOrNone'
    <2>1. PICK end \in KernelEnds, info \in Infos : init_heap(end, info)
      BY DEF mm_init
    <2> QED BY <1>1, <2>1, SizingMakesSound DEF HeapIsSoundOrNone
  <1> QED BY <1>3, <1>4, <1>5, <1>6, <1>7 DEF IInv
-----------------------------------------------------------------------------
(* Devices.                                                                *)
LEMMA RequestKeeps ==
  ASSUME IInv, NEW line \in Lines, request(line)
  PROVE  IInv'
PROOF
  <1>1. line \in (0..15) \ {2}
    BY PicAssumption
  <1>2. PICK c \in 1..2, l \in 0..7 : c = ChipOf(line) /\ l = line % 8 /\ (c = 1 => l # 2)
    <2>1. CASE line < 8
      <3>1. line % 8 = line
        BY <1>1, <2>1
      <3> QED BY <1>1, <2>1, <3>1 DEF ChipOf
    <2>2. CASE ~(line < 8)
      BY <1>1, <2>2 DEF ChipOf
    <2> QED BY <2>1, <2>2
  <1>3. chips \in [1..2 -> Chip] /\ chips' = [chips EXCEPT ![c].irr = @ \cup {l}]
    BY <1>2 DEF IInv, TypesOK, request, raise
  <1>4. PICK k \in Chip : k = chips[c]
    BY <1>3
  <1> DEFINE new == [k EXCEPT !.irr = k.irr \cup {l}]
  <1>5. /\ new \in Chip /\ new.irr = k.irr \cup {l}
        /\ new.isr = k.isr /\ new.icw = k.icw /\ new.imr = k.imr /\ new.offset = k.offset
    BY DEF Chip
  <1>6. chips' = [chips EXCEPT ![c] = new]
    BY <1>3, <1>4
  <1> HIDE DEF new
  <1>7. /\ chips' \in [1..2 -> Chip]
        /\ \A d \in 1..2 : /\ chips'[d].isr = chips[d].isr /\ chips'[d].icw = chips[d].icw
                           /\ chips'[d].imr = chips[d].imr /\ chips'[d].offset = chips[d].offset
        /\ 2 \notin chips[1].irr => 2 \notin chips'[1].irr
    <2>1. chips' \in [1..2 -> Chip] /\ chips'[c] = new /\ chips'[3 - c] = chips[3 - c]
      BY <1>3, <1>5, <1>6
    <2>2. CASE c = 1
      <3>1. chips'[1] = new /\ chips'[2] = chips[2]
        BY <2>1, <2>2
      <3> QED BY <1>2, <1>4, <1>5, <2>1, <2>2, <3>1
    <2>3. CASE c = 2
      <3>1. chips'[2] = new /\ chips'[1] = chips[1]
        BY <2>1, <2>3
      <3> QED BY <1>2, <1>4, <1>5, <2>1, <2>3, <3>1
    <2> QED BY <2>2, <2>3
  <1>8. UNCHANGED <<pc, IF_flag, given, tables, saved, running, serialVars, sizingVars>>
    BY DEF request, Elsewhere
  <1>9. TypesOK' /\ TablesAreUp' /\ InterruptsAreLate'
    BY <1>7, <1>8 DEF IInv, TypesOK, TablesAreUp, InterruptsAreLate, tables, serialVars
  <1>10. RemapsGoThrough' /\ ServiceIsShort'
    BY <1>7, <1>8 DEF IInv, RemapsGoThrough, ServiceIsShort
  <1>11. QueueIsShort'
    <2>1. Answered' = Answered /\ ShowsRoom' = ShowsRoom /\ uart' = uart
      BY <1>7, <1>8 DEF Answered, ShowsRoom, serialVars
    <2> QED BY <1>8, <2>1 DEF IInv, QueueIsShort
  <1>12. HeapIsSoundOrNone'
    BY <1>8 DEF IInv, HeapIsSoundOrNone, HeapIsSound, Sane, sizingVars
  <1> QED BY <1>9, <1>10, <1>11, <1>12 DEF IInv

(* The other end of the line: characters leave the queue, and arrive. *)
LEMMA UartKeeps ==
  ASSUME IInv, uart_sends \/ uart_receives
  PROVE  IInv'
PROOF
  <1>1. uart \in Uart /\ running \in {"kernel", "handler"}
    BY DEF IInv, TypesOK, uart_sends, uart_receives
  <1>2. UNCHANGED <<pc, IF_flag, given, tables, saved, chips, running, dx, sizingVars>>
    BY DEF uart_sends, uart_receives
  <1>3. /\ uart' \in Uart
        /\ uart'.dlab => uart.dlab
        /\ uart.fifo => uart'.fifo
        /\ uart'.lost => uart.lost
        /\ uart'.queue <= uart.queue
    <2>1. CASE uart_sends
      <3>1. uart.queue > 0 /\ uart' = [uart EXCEPT !.queue = uart.queue - 1]
        BY <2>1 DEF uart_sends, sends
      <3> QED BY <1>1, <3>1 DEF Uart
    <2>2. CASE uart_receives
      <3>1. uart' = [uart EXCEPT !.received = ~@]
        BY <2>2 DEF uart_receives, receives
      <3>2. uart' \in Uart /\ uart'.queue = uart.queue
        BY <1>1, <3>1 DEF Uart
      <3>3. (uart'.dlab => uart.dlab) /\ (uart.fifo => uart'.fifo) /\ (uart'.lost => uart.lost)
        BY <1>1, <3>1 DEF Uart
      <3>4. uart'.queue <= uart.queue
        BY <1>1, <3>2 DEF Uart
      <3> QED BY <3>2, <3>3, <3>4
    <2> QED BY <2>1, <2>2
  <1>4. QueueIsShort'
    <2>1. PICK a \in Int : a = Answered /\ a = Answered'
      BY <1>2 DEF Answered
    <2>2. ShowsRoom' => ShowsRoom
      BY <1>2 DEF ShowsRoom
    <2>3. PICK q \in Nat, r \in Nat : q = uart.queue /\ r = uart'.queue /\ r <= q
      BY <1>1, <1>3 DEF Uart
    <2>4. /\ FIFO >= 10 => ~uart'.lost
          /\ pc' > 8 => ~uart'.dlab
          /\ pc' > 9 => uart'.fifo
      BY <1>2, <1>3 DEF IInv, QueueIsShort
    <2>5. /\ pc <= 30 => q = 0
          /\ pc \in 31..51 => q <= 2 * a + 1
          /\ ShowsRoom => q <= 2 * a
          /\ pc \in {52, 53} => q <= 7 + a
          /\ pc > 53 => q <= 10
      BY <1>1, <2>1, <2>3 DEF IInv, QueueIsShort
    <2> QED BY <1>2, <2>1, <2>2, <2>3, <2>4, <2>5 DEF QueueIsShort
  <1> QED BY <1>1, <1>2, <1>3, <1>4, PortKeeps DEF IInv, InterruptsAreLate, TypesOK

(* Which requests a controller passes on, and which of them is first.      *)
LEMMA FirstIsThere ==
  ASSUME NEW requests \in SUBSET (0..7), requests # {}
  PROVE  First(requests) \in requests /\ \A k \in requests : First(requests) <= k
PROOF
  <1>1. requests \in SUBSET Nat
    OBVIOUS
  <1>2. PICK l \in requests : \A k \in requests : ~(<<k, l>> \in OpToRel(<, Nat))
    BY <1>1, NatLessThanWellFounded, WFMin
  <1>3. \A k \in requests : ~(k < l)
    BY <1>1, <1>2 DEF OpToRel
  <1>4. \A k \in requests : l <= k
    BY <1>1, <1>3
  <1> QED BY <1>4 DEF First

LEMMA AllAreMasked == Bits(255) = 0..7
PROOF
  <1>1. /\ 2^0 = 1 /\ 2^1 = 2 /\ 2^2 = 4 /\ 2^3 = 8
        /\ 2^4 = 16 /\ 2^5 = 32 /\ 2^6 = 64 /\ 2^7 = 128
    OBVIOUS
  <1>2. /\ (255 \div 1) % 2 = 1 /\ (255 \div 2) % 2 = 1
        /\ (255 \div 4) % 2 = 1 /\ (255 \div 8) % 2 = 1
        /\ (255 \div 16) % 2 = 1 /\ (255 \div 32) % 2 = 1
        /\ (255 \div 64) % 2 = 1 /\ (255 \div 128) % 2 = 1
    OBVIOUS
  <1>3. ASSUME NEW l \in 0..7 PROVE (255 \div 2^l) % 2 = 1
    <2>1. CASE l = 0
      <3>1. 2^l = 1
        BY <1>1, <2>1, Zenon
      <3> QED BY <1>2, <3>1
    <2>2. CASE l = 1
      <3>1. 2^l = 2
        BY <1>1, <2>2, Zenon
      <3> QED BY <1>2, <3>1
    <2>3. CASE l = 2
      <3>1. 2^l = 4
        BY <1>1, <2>3, Zenon
      <3> QED BY <1>2, <3>1
    <2>4. CASE l = 3
      <3>1. 2^l = 8
        BY <1>1, <2>4, Zenon
      <3> QED BY <1>2, <3>1
    <2>5. CASE l = 4
      <3>1. 2^l = 16
        BY <1>1, <2>5, Zenon
      <3> QED BY <1>2, <3>1
    <2>6. CASE l = 5
      <3>1. 2^l = 32
        BY <1>1, <2>6, Zenon
      <3> QED BY <1>2, <3>1
    <2>7. CASE l = 6
      <3>1. 2^l = 64
        BY <1>1, <2>7, Zenon
      <3> QED BY <1>2, <3>1
    <2>8. CASE l = 7
      <3>1. 2^l = 128
        BY <1>1, <2>8, Zenon
      <3> QED BY <1>2, <3>1
    <2> QED BY <2>1, <2>2, <2>3, <2>4, <2>5, <2>6, <2>7, <2>8
  <1> QED BY <1>3 DEF Bits

(* What a controller passes on is requested, not in service, and nothing when all is masked. *)
LEMMA PassesOnIs ==
  ASSUME NEW chip \in Chip, NEW requests \in SUBSET (0..7)
  PROVE  /\ PassesOn(chip, requests) \in SUBSET requests
         /\ \A l \in PassesOn(chip, requests) : l \notin chip.isr
         /\ chip.imr = 255 => PassesOn(chip, requests) = {}
PROOF
  <1>1. PassesOn(chip, requests) \in SUBSET requests
    BY DEF PassesOn
  <1>2. ASSUME NEW l \in PassesOn(chip, requests), l \in chip.isr PROVE FALSE
    BY <1>2 DEF PassesOn, Chip
  <1>3. chip.imr = 255 => PassesOn(chip, requests) = {}
    BY AllAreMasked DEF PassesOn
  <1> QED BY <1>1, <1>2, <1>3

(* What a controller is after it has passed on the request l.              *)
LEMMA AcknowledgeIs ==
  ASSUME NEW chip \in Chip, NEW l \in 0..7
  PROVE  /\ Acknowledge(chip, l) \in Chip
         /\ Acknowledge(chip, l).irr \subseteq chip.irr
         /\ Acknowledge(chip, l).isr = chip.isr \cup {l}
         /\ Acknowledge(chip, l).icw = chip.icw /\ Acknowledge(chip, l).imr = chip.imr
         /\ Acknowledge(chip, l).offset = chip.offset
PROOF
  <1>1. Acknowledge(chip, l) = [offset |-> chip.offset, imr |-> chip.imr, irr |-> chip.irr \ {l},
                                isr |-> chip.isr \cup {l}, icw |-> chip.icw]
    <2>1. chip = [offset |-> chip.offset, imr |-> chip.imr, irr |-> chip.irr, isr |-> chip.isr,
                  icw |-> chip.icw]
      BY DEF Chip
    <2>2. Acknowledge(chip, l) = [chip EXCEPT !.irr = chip.irr \ {l}, !.isr = chip.isr \cup {l}]
      BY DEF Acknowledge
    <2> QED BY <2>1, <2>2
  <1> QED BY <1>1 DEF Chip

(* What an interrupt that is taken finds in the controllers. *)
LEMMA TakenIs ==
  ASSUME IInv, Master # {}
  PROVE  /\ First(Master) \in 0..7 /\ First(Master) \notin chips[1].isr
         /\ chips[1].imr # 255
         /\ First(Master) = 2 => Slave # {} /\ First(Slave) \in 0..7
PROOF
  <1>1. chips[1] \in Chip /\ chips[2] \in Chip /\ 2 \notin chips[1].irr
    BY DEF IInv, TypesOK, ServiceIsShort
  <1>2. chips[1].irr \in SUBSET (0..7) /\ chips[2].irr \in SUBSET (0..7)
    BY <1>1 DEF Chip
  <1>3. Slave \in SUBSET (0..7)
    BY <1>1, <1>2, PassesOnIs DEF Slave
  <1>4. PICK asked \in SUBSET (0..7) : asked = chips[1].irr \cup {l \in {2} : Slave # {}}
    <2>1. {l \in {2} : Slave # {}} \in SUBSET (0..7)
      OBVIOUS
    <2> QED BY <1>2, <2>1
  <1>5. /\ Master \in SUBSET asked
        /\ \A l \in Master : l \notin chips[1].isr
        /\ chips[1].imr # 255
    BY <1>1, <1>4, PassesOnIs DEF Master
  <1>6. First(Master) \in Master
    BY <1>4, <1>5, FirstIsThere
  <1>7. First(Master) = 2 => Slave # {}
    BY <1>1, <1>4, <1>5, <1>6
  <1>8. Slave # {} => First(Slave) \in 0..7
    BY <1>3, FirstIsThere
  <1> QED BY <1>4, <1>5, <1>6, <1>7, <1>8

LEMMA InterruptKeeps ==
  ASSUME IInv, interrupt
  PROVE  /\ IInv' /\ HandlersSegment
         /\ running' = "handler" => pc <= 53
PROOF
  <1>1. PICK l \in 0..7 : l = First(Master)
    BY TakenIs DEF interrupt
  <1>2. /\ l \notin chips[1].isr /\ chips[1].imr # 255
        /\ l = 2 => Slave # {} /\ First(Slave) \in 0..7
    BY <1>1, TakenIs DEF interrupt
  <1>3. /\ running = "kernel" /\ running' \in {"handler", "fault"}
        /\ ~IF_flag' /\ IF_flag' \in BOOLEAN
        /\ pc' = pc /\ pc \in 31..79
    <2>1. running = "kernel" /\ IF_flag /\ running' \in {"handler", "fault"}
      BY DEF interrupt
    <2>2. ~IF_flag' /\ IF_flag' \in BOOLEAN
      BY DEF interrupt
    <2>3. pc' = pc
      BY DEF interrupt
    <2>4. pc \in 31..79
      BY <1>2, <2>1 DEF IInv, TypesOK, InterruptsAreLate, RemapsGoThrough
    <2> QED BY <2>1, <2>2, <2>3, <2>4
  <1>4. UNCHANGED <<pc, given, tables, saved, serialVars, sizingVars>>
    BY DEF interrupt, Elsewhere
  <1>5. HandlersSegment
    BY <1>3 DEF IInv, TablesAreUp, HandlersSegment
  <1>6. chips' = [c \in 1..2 |-> IF c = 1 THEN Acknowledge(chips[1], l)
                                ELSE IF l = 2 THEN Acknowledge(chips[2], First(Slave))
                                ELSE chips[2]]
    BY <1>1 DEF interrupt, Acknowledged
  <1>7. /\ chips'[1] = Acknowledge(chips[1], l)
        /\ chips'[2] = IF l = 2 THEN Acknowledge(chips[2], First(Slave)) ELSE chips[2]
        /\ DOMAIN chips' = 1..2 /\ chips' = [c \in 1..2 |-> chips'[c]]
    BY <1>6
  <1>8. chips[1] \in Chip /\ chips[2] \in Chip
    BY DEF IInv, TypesOK
  <1>9. /\ chips'[1] \in Chip /\ chips'[1].irr \subseteq chips[1].irr
        /\ chips'[1].isr = chips[1].isr \cup {l}
        /\ chips'[1].icw = chips[1].icw /\ chips'[1].imr = chips[1].imr
        /\ chips'[1].offset = chips[1].offset
    BY <1>7, <1>8, AcknowledgeIs
  <1>10. /\ chips'[2] \in Chip /\ (l # 2 => chips'[2].isr = chips[2].isr)
         /\ chips'[2].icw = chips[2].icw /\ chips'[2].imr = chips[2].imr
         /\ chips'[2].offset = chips[2].offset
    <2>1. CASE l = 2
      BY <1>2, <1>7, <1>8, <2>1, AcknowledgeIs
    <2>2. CASE l # 2
      BY <1>7, <1>8, <2>2
    <2> QED BY <2>1, <2>2
  <1>11. running' = "handler" => pc <= 53 /\ l \in Handled
    <2> SUFFICES ASSUME running' = "handler" PROVE pc <= 53 /\ l \in Handled
      OBVIOUS
    <2>1. Vector \in Exceptions
      BY DEF interrupt, IInv, TablesAreUp
    <2>2. chips[1].offset = (IF pc <= 53 THEN 8 ELSE 32) /\ chips[2].offset \in {112, 40}
      BY DEF IInv, RemapsGoThrough
    <2>3. l # 2
      <3>1. CASE l = 2
        <4>1. Vector = chips[2].offset + First(Slave)
          BY <1>1, <3>1 DEF Vector
        <4>2. PICK m \in 0..7 : m = First(Slave)
          BY <1>2, <3>1
        <4> QED BY <2>1, <2>2, <4>1, <4>2 DEF Exceptions
      <3> QED BY <3>1
    <2>4. Vector = chips[1].offset + l
      BY <1>1, <2>3 DEF Vector
    <2> QED BY <2>1, <2>2, <2>4 DEF Exceptions, Handled
  <1>12. chips' \in [1..2 -> Chip]
    BY <1>7, <1>9, <1>10
  <1>13. TypesOK'
    BY <1>3, <1>4, <1>12 DEF IInv, TypesOK, serialVars
  <1>14. TablesAreUp' /\ InterruptsAreLate'
    BY <1>3, <1>4, <1>11 DEF IInv, TablesAreUp, InterruptsAreLate, tables
  <1>15. RemapsGoThrough'
    BY <1>3, <1>9, <1>10 DEF IInv, RemapsGoThrough
  <1>16. ServiceIsShort'
    <2>1. 2 \notin chips'[1].irr
      BY <1>9 DEF IInv, ServiceIsShort
    <2>2. CASE running' = "handler"
      <3>1. l # 2 /\ chips[1].isr \subseteq Handled /\ chips[2].isr = {}
        BY <1>3, <1>11, <2>2 DEF IInv, ServiceIsShort, Handled
      <3> QED BY <1>3, <1>9, <1>10, <1>11, <2>1, <2>2, <3>1 DEF ServiceIsShort
    <2>3. CASE running' = "fault"
      BY <2>1, <2>3 DEF ServiceIsShort
    <2> QED BY <1>3, <2>2, <2>3
  <1>17. QueueIsShort'
    <2>1. uart' = uart /\ ShowsRoom' = ShowsRoom
      BY <1>4 DEF serialVars, ShowsRoom
    <2>2. CASE running' = "handler"
      <3>1. Answered' = Answered
        BY <1>2, <1>3, <1>9, <1>11, <2>2 DEF Answered, Handled
      <3> QED BY <1>3, <2>1, <2>2, <3>1 DEF IInv, QueueIsShort
    <2>3. CASE running' = "fault"
      BY <1>3, <2>1, <2>3 DEF IInv, QueueIsShort
    <2> QED BY <1>3, <2>2, <2>3
  <1>18. HeapIsSoundOrNone'
    BY <1>3, <1>4 DEF IInv, HeapIsSoundOrNone, HeapIsSound, Sane, sizingVars
  <1> QED BY <1>5, <1>11, <1>13, <1>14, <1>15, <1>16, <1>17, <1>18 DEF IInv

(* A handler's letter: there is room for it, however many came before.     *)
LEMMA HandlerKeeps ==
  ASSUME IInv, isr
  PROVE  IInv'
PROOF
  <1>1. /\ running = "handler" /\ running' = "kernel" /\ IF_flag' /\ IF_flag' \in BOOLEAN
        /\ pc' = pc /\ pc \in 31..53
    BY DEF IInv, TypesOK, InterruptsAreLate, isr
  <1>2. UNCHANGED <<pc, given, tables, saved, chips, sizingVars>> /\ uart' = Transmit(uart) /\ dx' = COM1
    BY DEF isr, send
  <1>3. PICK a \in -1..2 : a = Answered /\ Answered' = a + 1
    BY <1>1, <1>2 DEF Answered
  <1>4. PICK q \in Nat : q = uart.queue
    BY DEF IInv, TypesOK, Uart
  <1>5. /\ pc \in 31..51 => q <= 2 * a + 1
        /\ pc \in {52, 53} => q <= 7 + a
        /\ FIFO >= 10 => ~uart.lost
        /\ ~uart.dlab /\ uart.fifo
    BY <1>1, <1>3, <1>4 DEF IInv, QueueIsShort
  <1>6. /\ uart' \in Uart /\ ~uart'.dlab /\ uart'.fifo /\ uart'.queue <= q + 1
        /\ FIFO >= 10 => ~uart'.lost
    <2>1. q < 10
      BY <1>1, <1>3, <1>5
    <2>2. FIFO >= 10 => q < FIFO
      BY <2>1, SerialAssumption
    <2> QED BY <1>2, <1>4, <1>5, <2>2, Transmitted DEF IInv, TypesOK
  <1>7. PICK r \in Nat : r = uart'.queue /\ r <= q + 1
    BY <1>6 DEF Uart
  <1>8. QueueIsShort'
    <2>1. ShowsRoom' => pc \in 31..51
      BY <1>1 DEF ShowsRoom, Sends, Readies
    <2> QED BY <1>1, <1>3, <1>5, <1>6, <1>7, <2>1 DEF QueueIsShort
  <1>9. InterruptsAreLate'
    BY <1>1 DEF InterruptsAreLate
  <1>10. dx' \in Nat
    BY <1>2 DEF COM1
  <1> QED BY <1>1, <1>2, <1>6, <1>8, <1>9, <1>10, PortKeeps
-----------------------------------------------------------------------------
(* The invariant is kept by every step, and what it is for.                *)
LEMMA NextKeepsIInv == IInv /\ [Next]_vars => IInv'
PROOF
  <1> SUFFICES ASSUME IInv, [Next]_vars PROVE IInv'
    OBVIOUS
  <1>1. CASE kernel_step
    BY <1>1, QuietActions, Commands, DataActions, OutKeeps, PollKeeps, SizingKeeps DEF kernel_step
  <1>2. CASE \E line \in Lines : request(line)
    BY <1>2, RequestKeeps
  <1>3. CASE uart_sends \/ uart_receives
    BY <1>3, UartKeeps
  <1>4. CASE interrupt
    BY <1>4, InterruptKeeps
  <1>5. CASE isr
    BY <1>5, HandlerKeeps
  <1>6. CASE UNCHANGED vars
    <2>1. /\ pc' = pc /\ IF_flag' = IF_flag /\ gdt' = gdt /\ gates' = gates /\ loaded' = loaded
          /\ saved' = saved /\ chips' = chips /\ running' = running /\ uart' = uart /\ dx' = dx
          /\ UNCHANGED sizingVars
      BY <1>6 DEF vars, tables, serialVars
    <2>2. TypesOK' /\ TablesAreUp' /\ InterruptsAreLate' /\ RemapsGoThrough' /\ ServiceIsShort'
      BY <2>1 DEF IInv, TypesOK, TablesAreUp, InterruptsAreLate, RemapsGoThrough, ServiceIsShort
    <2>3. QueueIsShort'
      <3>1. Answered' = Answered /\ ShowsRoom' = ShowsRoom
        BY <2>1 DEF Answered, ShowsRoom
      <3> QED BY <2>1, <3>1 DEF IInv, QueueIsShort
    <2>4. HeapIsSoundOrNone'
      BY <2>1 DEF IInv, HeapIsSoundOrNone, HeapIsSound, Sane, sizingVars
    <2> QED BY <2>2, <2>3, <2>4 DEF IInv
  <1>7. CASE hlt \/ adrift
    BY <1>6, <1>7 DEF hlt, adrift
  <1> QED BY <1>1, <1>2, <1>3, <1>4, <1>5, <1>6, <1>7 DEF Next

LEMMA Invariant == Spec => []IInv
PROOF
  BY InitMakesIInv, NextKeepsIInv, PTL DEF Spec

(* When kernel_main goes on after irq_init, both controllers are           *)
(* initialised, moved to vectors 32 to 47, masked, and have nothing in     *)
(* service, whatever interrupts came in between.                           *)
THEOREM ControllersComeUp == Spec => []ControllersAreSetUp
PROOF
  <1>1. IInv => ControllersAreSetUp
    <2> SUFFICES ASSUME IInv, pc >= 85
                 PROVE  \A c \in 1..2 :
                          /\ chips[c].icw = 0 /\ chips[c].imr = 255 /\ chips[c].isr = {}
                          /\ chips[c].offset = IF c = 1 THEN 32 ELSE 40
      BY Landmarks DEF ControllersAreSetUp
    <2>1. pc \in 85..90 /\ running # "fault"
      BY DEF IInv, TypesOK, InterruptsAreLate
    <2>2. /\ chips[1].icw = 0 /\ chips[1].imr = 255 /\ chips[1].offset = 32
          /\ chips[2].icw = 0 /\ chips[2].imr = 255 /\ chips[2].offset = 40
      BY <2>1 DEF IInv, RemapsGoThrough
    <2>3. chips[1].isr = {} /\ chips[2].isr = {}
      BY <2>1 DEF IInv, ServiceIsShort
    <2> QED BY <2>2, <2>3
  <1> QED BY <1>1, Invariant, PTL

(* No character of the boot's messages or of the handlers' letters is      *)
(* written to a transmitter that is full or not set up, when it holds the  *)
(* ten that can come together: six of the three handlers that one line     *)
(* each can enter before the first command to the controllers, one of the  *)
(* kernel, and three of the handlers that can be entered after it.         *)
THEOREM PrintedIsSent ==
  ASSUME FIFO >= 10
  PROVE  Spec => []NothingIsLost
PROOF
  <1>1. IInv => NothingIsLost
    BY DEF IInv, QueueIsShort, NothingIsLost
  <1> QED BY <1>1, Invariant, PTL

(* An interrupt during the boot finds the segment its gate names, and a    *)
(* handler of exceptions only until the master has its new offset.         *)
THEOREM InterruptsAreMet == Spec => InterruptsOnTheWay
PROOF
  <1>1. IInv /\ [Next]_vars
          => [interrupt => HandlersSegment /\ (running' = "handler" => pc < Remapped)]_vars
    BY InterruptKeeps, Landmarks DEF IInv, TypesOK
  <1> QED BY <1>1, Invariant, PTL DEF Spec, InterruptsOnTheWay

(* For every sane report of the memory the heap lies between the kernel    *)
(* and the end of memory, with ends aligned like its blocks: what Heap     *)
(* assumes of it.                                                          *)
THEOREM HeapComesOutSound == Spec => []HeapIsSound
PROOF
  <1>1. IInv => HeapIsSound
    BY DEF IInv, HeapIsSoundOrNone
  <1> QED BY <1>1, Invariant, PTL
-----------------------------------------------------------------------------
(* What module Heap assumes of its constants HeapStart and HeapEnd, word   *)
(* for word, with what init_heap has made of them.                         *)
AsHeapAssumes ==
  heap_start # 0 /\ Sane(mb_info, kernel_end) =>
    /\ heap_start \in Nat \ {0} /\ heap_start % ALIGNMENT = 0
    /\ heap_end \in Nat         /\ heap_end % ALIGNMENT = 0
    /\ heap_start + HDR <= heap_end /\ heap_end < WORD

AreWords == heap_start \in Nat /\ heap_end \in 0..(WORD - 1)

LEMMA OnlyInitHeapSizes ==
  Next => UNCHANGED sizingVars \/ \E end \in KernelEnds, info \in Infos : init_heap(end, info)
PROOF
  <1> SUFFICES ASSUME Next
               PROVE  UNCHANGED sizingVars \/ \E end \in KernelEnds, info \in Infos : init_heap(end, info)
    OBVIOUS
  <1>1. CASE kernel_step
    BY <1>1 DEF kernel_step, cli, sti, push, gdt_set_gate, gdt_flush, idt_clear, idt_set_gate,
                load_idt, mm_init, call, serial_out, serial_load, serial_ready, serial_send,
                inb, outb_command, outb_data, outb_saved, Elsewhere
  <1>2. CASE \E line \in Lines : request(line)
    BY <1>2 DEF request, Elsewhere
  <1>3. CASE uart_sends \/ uart_receives
    BY <1>3 DEF uart_sends, uart_receives
  <1>4. CASE interrupt \/ isr
    BY <1>4 DEF interrupt, isr, Elsewhere
  <1>5. CASE hlt \/ adrift
    BY <1>5 DEF hlt, adrift, vars
  <1> QED BY <1>1, <1>2, <1>3, <1>4, <1>5 DEF Next

LEMMA StartAndEndAreWords == Spec => []AreWords
PROOF
  <1>1. Init => AreWords
    <2>1. WORD \in Nat /\ 0 < WORD
      BY SizingAssumption
    <2> QED BY <2>1 DEF Init, SizingInit, AreWords
  <1>2. AreWords /\ [Next]_vars => AreWords'
    <2> SUFFICES ASSUME AreWords, [Next]_vars PROVE AreWords'
      OBVIOUS
    <2>1. CASE UNCHANGED sizingVars
      BY <2>1 DEF AreWords, sizingVars
    <2>2. CASE \E end \in KernelEnds, info \in Infos : init_heap(end, info)
      <3>1. PICK end \in KernelEnds, info \in Infos : init_heap(end, info)
        BY <2>2
      <3>2. PICK begin, size : /\ begin = PageUp(end) /\ size = actual_heap_size(info, begin)
                               /\ heap_start' = begin /\ heap_end' = UWord(begin + size)
        BY <3>1 DEF init_heap
      <3>3. begin \in Nat
        BY <3>2, StartOfHeap
      <3>4. begin + size \in Int /\ WORD \in Nat \ {0}
        <4>1. WORD \in Nat \ {0} /\ HEAP_SIZE \in Nat
          BY SizingAssumption
        <4>2. Available(info) \in Int
          <5>1. PICK a \in Nat : a = Available(info)
            BY SizingAssumption DEF Available, Reported, UWord, Infos
          <5> QED BY <5>1
        <4>3. max_heap_size(info, begin) \in Int
          BY <3>3, <4>1, <4>2 DEF max_heap_size, UWord
        <4> QED BY <3>2, <3>3, <4>1, <4>3 DEF actual_heap_size
      <3>5. UWord(begin + size) \in 0..(WORD - 1)
        BY <3>4 DEF UWord
      <3> QED BY <3>2, <3>3, <3>5 DEF AreWords
    <2>3. UNCHANGED vars => UNCHANGED sizingVars
      BY DEF vars
    <2> QED BY <2>1, <2>2, <2>3, OnlyInitHeapSizes
  <1> QED BY <1>1, <1>2, PTL DEF Spec

(* Whatever interrupts kernel_main on its way and wherever the kernel      *)
(* ends, the heap that init_heap sizes from a sane report of the memory is *)
(* one that module Heap, and every theorem about it, speaks of.            *)
THEOREM HeapGetsItsConstants == Spec => []AsHeapAssumes
PROOF
  <1>1. AreWords /\ HeapIsSound => AsHeapAssumes
    <2> SUFFICES ASSUME AreWords, HeapIsSound, heap_start # 0, Sane(mb_info, kernel_end)
                 PROVE  AsHeapAssumes
      BY DEF AsHeapAssumes
    <2>1. heap_start \in Nat /\ heap_end \in 0..(WORD - 1) /\ WORD \in Nat
      BY SizingAssumption DEF AreWords
    <2>2. /\ heap_start % ALIGNMENT = 0 /\ heap_end % ALIGNMENT = 0
          /\ heap_start + HDR <= heap_end
      BY DEF HeapIsSound
    <2>3. heap_end \in Nat /\ heap_end < WORD
      BY <2>1
    <2> QED BY <2>1, <2>2, <2>3 DEF AsHeapAssumes
  <1> QED BY <1>1, StartAndEndAreWords, HeapComesOutSound, PTL
=============================================================================
