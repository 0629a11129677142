---------------------------- MODULE InitrdFsProofs ----------------------------
(***************************************************************************)
(* Theorems about the initrd file system and the disk driver under it      *)
(* (modules InitrdFs and Ata), for every disk, every patience of the       *)
(* driver and everything callers may ask for.                              *)
(***************************************************************************)
EXTENDS InitrdFs, SequenceTheorems, WellFoundedInduction, TLAPS

(* How many sectors the registers told the disk to send, and from where.   *)
Asked   == IF count % COUNT8 = 0 THEN COUNT8 ELSE count % COUNT8
Address == lba % LBA28

(* Between a command that the disk took and the next, the disk is where    *)
(* the driver is: it has been read as far as the buffer is filled, and is  *)
(* quiet only when it has sent everything.                                 *)
InStep ==
  /\ Len(buffer) <= Asked
  /\ \A i \in 1..Len(buffer) : buffer[i] = Address + i - 1
  /\ disk.status \in {"busy", "drq"} =>
       disk.at = Address + Len(buffer) /\ disk.left = Asked - Len(buffer)
  /\ disk.status # "quiet" => Len(buffer) < Asked
  /\ disk.status = "quiet" => Len(buffer) = Asked

AtaIInv ==
  /\ AtaTypeOK
  /\ pc \in {"out", "wait_busy"} => buffer = <<>> /\ ~taken
  /\ pc = "wait_drq" => Len(buffer) < count
  /\ pc = "back" /\ result = 0 => Len(buffer) = count
  /\ taken => InStep
-----------------------------------------------------------------------------
(* What cutting a number to a register does.                               *)
LEMMA Remainders ==
  ASSUME NEW a \in Nat, NEW b \in Nat \ {0}
  PROVE  /\ a % b \in 0..(b - 1)
         /\ a < b => a % b = a
         /\ a \div b \in Nat /\ a = b * (a \div b) + (a % b)
         /\ b % b = 0
PROOF
  OBVIOUS

LEMMA AskedTypes ==
  ASSUME AtaTypeOK
  PROVE  /\ Asked \in 1..COUNT8 /\ Address \in Nat
         /\ count \in 1..COUNT8 => Asked = count
         /\ lba < LBA28 => Address = lba
PROOF
  <1>1. /\ COUNT8 \in Nat \ {0} /\ LBA28 \in Nat \ {0} /\ count \in Nat /\ lba \in Nat
    BY AtaAssumption DEF AtaTypeOK
  <1>2. /\ count % COUNT8 \in 0..(COUNT8 - 1)
        /\ count < COUNT8 => count % COUNT8 = count
        /\ COUNT8 % COUNT8 = 0
    BY <1>1, Remainders
  <1>3. lba % LBA28 \in Nat /\ (lba < LBA28 => lba % LBA28 = lba)
    BY <1>1, Remainders
  <1>4. count = COUNT8 => count % COUNT8 = 0
    BY <1>2
  <1> QED BY <1>1, <1>2, <1>3, <1>4 DEF Asked, Address

LEMMA BufferGrows ==
  ASSUME NEW T, NEW s \in Seq(T), NEW e \in T
  PROVE  /\ Append(s, e) \in Seq(T) /\ Len(s) \in Nat /\ Len(Append(s, e)) = Len(s) + 1
         /\ Append(s, e)[Len(s) + 1] = e
         /\ \A i \in 1..Len(s) : Append(s, e)[i] = s[i]
PROOF
  BY AppendProperties
-----------------------------------------------------------------------------
LEMMA AtaInitHolds ==
  ASSUME AtaInit
  PROVE  AtaIInv
PROOF
  <1>1. buffer \in Seq(0..(BLOCKS - 1)) /\ Len(buffer) = 0
    BY EmptySeq DEF AtaInit
  <1>2. /\ disk \in [status : {"quiet", "busy", "drq", "err"}, at : Nat, left : 0..COUNT8]
        /\ disk.status # "drq"
    BY AtaAssumption DEF AtaInit, disk_starts, disk_rests
  <1>3. timeout \in 0..TIMEOUT
    BY AtaAssumption DEF AtaInit
  <1>4. /\ pc = "out" /\ lba = 0 /\ count = 0 /\ buffer = <<>> /\ result = 0 /\ taken = FALSE
    BY DEF AtaInit
  <1>5. taken \in BOOLEAN /\ ~taken
    BY <1>4
  <1>6. AtaTypeOK
    BY <1>1, <1>2, <1>3, <1>4, <1>5 DEF AtaTypeOK
  <1> QED BY <1>4, <1>5, <1>6 DEF AtaIInv

(* A read begins, for any address and any count.                           *)
LEMMA ReadBegins ==
  ASSUME AtaIInv, NEW l \in Nat, NEW c \in Nat, ata_read_sectors(l, c)
  PROVE  AtaIInv'
PROOF
  <1>1. buffer' = <<>> /\ ~taken' /\ pc' = "wait_busy"
    BY DEF ata_read_sectors, AtaIInv
  <1>2. buffer' \in Seq(0..(BLOCKS - 1)) /\ Len(buffer') = 0
    BY <1>1, EmptySeq
  <1>3. AtaTypeOK'
    BY <1>2, AtaAssumption DEF ata_read_sectors, AtaIInv, AtaTypeOK
  <1> QED BY <1>1, <1>3 DEF AtaIInv

(* Nothing that the driver may do on a poll changes what the disk and the  *)
(* buffer are to each other, except the three steps below.                 *)
LEMMA PollKeeps ==
  ASSUME AtaIInv, poll_again
  PROVE  AtaIInv'
PROOF
  <1>1. UNCHANGED <<disk, pc, lba, count, buffer, result, taken>> /\ timeout' \in 0..TIMEOUT
    BY AtaAssumption DEF poll_again, AtaIInv, AtaTypeOK
  <1>2. AtaTypeOK'
    BY <1>1 DEF AtaIInv, AtaTypeOK
  <1>3. taken' => InStep'
    BY <1>1 DEF AtaIInv, InStep, Asked, Address
  <1> QED BY <1>1, <1>2, <1>3 DEF AtaIInv

LEMMA FailureKeeps ==
  ASSUME AtaIInv, read_error \/ give_up
  PROVE  AtaIInv'
PROOF
  <1>1. UNCHANGED <<disk, lba, count, buffer, taken, timeout>> /\ pc' = "back" /\ result' = -1
    BY DEF read_error, give_up, return_with
  <1>2. AtaTypeOK'
    BY <1>1 DEF AtaIInv, AtaTypeOK
  <1>3. taken' => InStep'
    BY <1>1 DEF AtaIInv, InStep, Asked, Address
  <1> QED BY <1>1, <1>2, <1>3 DEF AtaIInv

LEMMA CallerKeeps ==
  ASSUME AtaIInv, caller_goes_on
  PROVE  AtaIInv'
PROOF
  <1>1. buffer' = <<>> /\ ~taken' /\ pc' = "out" /\ UNCHANGED disk
    BY DEF caller_goes_on
  <1>2. buffer' \in Seq(0..(BLOCKS - 1)) /\ Len(buffer') = 0
    BY <1>1, EmptySeq
  <1>3. timeout' \in 0..TIMEOUT /\ lba' = 0 /\ count' = 0 /\ result' = 0
    BY AtaAssumption DEF caller_goes_on
  <1>4. taken' \in BOOLEAN
    BY DEF caller_goes_on
  <1>5. AtaTypeOK'
    BY <1>1, <1>2, <1>3, <1>4 DEF AtaIInv, AtaTypeOK
  <1> QED BY <1>1, <1>5 DEF AtaIInv

(* The command: taken, it makes the disk begin where the driver is; not    *)
(* taken, nothing is said of it any more.                                  *)
LEMMA CommandKeeps ==
  ASSUME AtaIInv, send_command
  PROVE  AtaIInv'
PROOF
  <1>1. /\ pc = "wait_busy" /\ buffer = <<>> /\ buffer \in Seq(0..(BLOCKS - 1))
        /\ UNCHANGED <<lba, count, buffer>> /\ Len(buffer) = 0
    BY DEF AtaIInv, AtaTypeOK, send_command
  <1>2. /\ Asked \in 1..COUNT8 /\ Address \in Nat /\ Asked' = Asked /\ Address' = Address
        /\ COUNT8 \in Nat
    BY <1>1, AskedTypes, AtaAssumption DEF AtaIInv, Asked, Address
  <1>3. \/ disk' = [status |-> "busy", at |-> Address, left |-> Asked] /\ taken' = TRUE
        \/ disk.status = "drq" /\ UNCHANGED disk /\ taken' = FALSE
    BY <1>2 DEF send_command, disk_command, Asked, Address
  <1>4. \/ pc' = "wait_drq" /\ count # 0 /\ timeout' = TIMEOUT /\ UNCHANGED result
        \/ pc' = "back" /\ count = 0 /\ result' = 0 /\ UNCHANGED timeout
    BY DEF send_command, return_with, sector_loop
  <1>5. /\ disk' \in [status : {"quiet", "busy", "drq", "err"}, at : Nat, left : 0..COUNT8]
        /\ disk'.status = "drq" => disk'.at < BLOCKS /\ disk'.left > 0
    <2>1. CASE disk' = [status |-> "busy", at |-> Address, left |-> Asked]
      BY <1>2, <2>1
    <2>2. CASE UNCHANGED disk
      BY <2>2 DEF AtaIInv, AtaTypeOK
    <2> QED BY <1>3, <2>1, <2>2
  <1>6. taken' \in BOOLEAN
    BY <1>3
  <1>7. /\ timeout' \in 0..TIMEOUT /\ lba' \in Nat /\ count' \in Nat /\ result' \in {0, -1}
        /\ pc' \in {"wait_drq", "back"} /\ Len(buffer') <= count'
    BY <1>1, <1>4, AtaAssumption DEF AtaIInv, AtaTypeOK
  <1>8. AtaTypeOK'
    BY <1>1, <1>5, <1>6, <1>7 DEF AtaTypeOK
  <1>9. taken' => InStep'
    <2> SUFFICES ASSUME taken' PROVE InStep'
      OBVIOUS
    <2>1. disk'.status = "busy" /\ disk'.at = Address /\ disk'.left = Asked
      BY <1>3
    <2>2. Len(buffer') = 0 /\ Len(buffer') < Asked'
      BY <1>1, <1>2
    <2> QED BY <1>1, <1>2, <2>1, <2>2 DEF InStep
  <1>10. /\ pc' = "wait_drq" => Len(buffer') < count'
         /\ pc' = "back" => Len(buffer') = count'
    BY <1>1, <1>4 DEF AtaIInv, AtaTypeOK
  <1> QED BY <1>7, <1>8, <1>9, <1>10 DEF AtaIInv

(* A sector is the next one of the disk, and the last one when the disk    *)
(* has none left.                                                          *)
LEMMA SectorKeeps ==
  ASSUME AtaIInv, read_sector
  PROVE  AtaIInv'
PROOF
  <1>1. /\ pc = "wait_drq" /\ disk.status = "drq" /\ Len(buffer) < count
        /\ disk.at \in 0..(BLOCKS - 1) /\ disk.left > 0 /\ disk.left \in 0..COUNT8
        /\ buffer \in Seq(0..(BLOCKS - 1)) /\ buffer' = Append(buffer, disk.at)
        /\ UNCHANGED <<lba, count, taken>> /\ lba \in Nat /\ count \in Nat
        /\ BLOCKS \in Nat /\ COUNT8 \in Nat
    BY AtaAssumption DEF read_sector, AtaIInv, AtaTypeOK
  <1>2. PICK n \in Nat : n = Len(buffer)
    BY <1>1
  <1>3. /\ buffer' \in Seq(0..(BLOCKS - 1)) /\ Len(buffer') = n + 1 /\ buffer'[n + 1] = disk.at
        /\ \A i \in 1..n : buffer'[i] = buffer[i]
    BY <1>1, <1>2, BufferGrows
  <1>4. \/ pc' = "back" /\ n + 1 >= count /\ result' = 0 /\ UNCHANGED timeout
        \/ pc' = "wait_drq" /\ n + 1 < count /\ timeout' = TIMEOUT /\ UNCHANGED result
    BY <1>1, <1>2 DEF read_sector, return_with, sector_loop
  <1>5. \/ /\ disk.left = 1
           /\ disk'.status = "quiet"
           /\ disk' = [status |-> "quiet", at |-> 0, left |-> 0]
        \/ /\ disk.left > 1
           /\ disk'.status = "busy" /\ disk'.at = disk.at + 1 /\ disk'.left = disk.left - 1
           /\ disk' = [status |-> "busy", at |-> disk.at + 1, left |-> disk.left - 1]
    BY <1>1 DEF read_sector, disk_after_data, disk_rests
  <1>6. /\ disk' \in [status : {"quiet", "busy", "drq", "err"}, at : Nat, left : 0..COUNT8]
        /\ disk'.status # "drq"
    BY <1>1, <1>5
  <1>7. /\ timeout' \in 0..TIMEOUT /\ taken' \in BOOLEAN /\ result' \in {0, -1}
        /\ pc' \in {"wait_drq", "back"} /\ Len(buffer') <= count'
    BY <1>1, <1>2, <1>3, <1>4, AtaAssumption DEF AtaIInv, AtaTypeOK
  <1>8. AtaTypeOK'
    BY <1>1, <1>3, <1>6, <1>7 DEF AtaTypeOK
  <1>9. taken' => InStep'
    <2> SUFFICES ASSUME taken PROVE InStep'
      BY <1>1
    <2>1. /\ n < Asked /\ disk.at = Address + n /\ disk.left = Asked - n
          /\ \A i \in 1..n : buffer[i] = Address + i - 1
          /\ Asked \in Nat /\ Address \in Nat /\ Asked' = Asked /\ Address' = Address
      BY <1>1, <1>2, AskedTypes DEF AtaIInv, InStep, Asked, Address
    <2>2. \A i \in 1..(n + 1) : buffer'[i] = Address + i - 1
      BY <1>3, <2>1
    <2>3. CASE disk.left = 1
      BY <1>3, <1>5, <2>1, <2>2, <2>3 DEF InStep
    <2>4. CASE disk.left > 1
      BY <1>3, <1>5, <2>1, <2>2, <2>4 DEF InStep
    <2> QED BY <1>5, <2>3, <2>4
  <1>10. /\ pc' = "wait_drq" => Len(buffer') < count'
         /\ pc' = "back" => Len(buffer') = count'
    BY <1>1, <1>2, <1>3, <1>4
  <1> QED BY <1>7, <1>8, <1>9, <1>10 DEF AtaIInv

(* What the disk does on its own.                                          *)
LEMMA DiskKeeps ==
  ASSUME AtaIInv, disk_step
  PROVE  AtaIInv'
PROOF
  <1>1. /\ UNCHANGED <<pc, timeout, lba, count, buffer, result, taken>>
        /\ disk \in [status : {"quiet", "busy", "drq", "err"}, at : Nat, left : 0..COUNT8]
        /\ COUNT8 \in Nat
    BY AtaAssumption DEF disk_step, AtaIInv, AtaTypeOK
  <1>2. Asked' = Asked /\ Address' = Address
    BY <1>1 DEF Asked, Address
  <1>3. Asked \in Nat /\ Len(buffer) \in Nat
    BY AskedTypes DEF AtaIInv, AtaTypeOK
  <1>4. CASE disk_ready
    <2>1. disk' = [status |-> "quiet", at |-> 0, left |-> 0] /\ disk'.status = "quiet"
      BY <1>4 DEF disk_ready, disk_rests
    <2>2. ~taken
      BY <1>3, <1>4 DEF disk_ready, AtaIInv, InStep
    <2>3. AtaTypeOK'
      BY <1>1, <2>1 DEF AtaIInv, AtaTypeOK
    <2> QED BY <1>1, <2>2, <2>3 DEF AtaIInv
  <1>5. CASE disk_finds
    <2>1. /\ disk'.status = "drq" /\ disk'.at = disk.at /\ disk'.left = disk.left
          /\ disk' \in [status : {"quiet", "busy", "drq", "err"}, at : Nat, left : 0..COUNT8]
          /\ disk.left > 0 /\ disk.at < BLOCKS /\ disk.status = "busy"
      BY <1>1, <1>5 DEF disk_finds
    <2>2. AtaTypeOK'
      BY <1>1, <2>1 DEF AtaIInv, AtaTypeOK
    <2>3. taken' => InStep'
      BY <1>1, <1>2, <2>1 DEF AtaIInv, InStep
    <2> QED BY <1>1, <2>2, <2>3 DEF AtaIInv
  <1>6. CASE disk_fails
    <2>1. disk' = [status |-> "err", at |-> 0, left |-> 0] /\ disk'.status = "err"
      BY <1>6 DEF disk_fails, disk_rests
    <2>2. disk.status = "busy"
      BY <1>6 DEF disk_fails
    <2>3. AtaTypeOK'
      BY <1>1, <2>1 DEF AtaIInv, AtaTypeOK
    <2>4. taken' => InStep'
      BY <1>1, <1>2, <2>1, <2>2 DEF AtaIInv, InStep
    <2> QED BY <1>1, <2>3, <2>4 DEF AtaIInv
  <1> QED BY <1>4, <1>5, <1>6 DEF disk_step

(* What the invariant says of a read that is over.                         *)
LEMMA SuccessMeans ==
  ASSUME AtaIInv, pc = "back", result = 0, taken
  PROVE  /\ Len(buffer) = count
         /\ lba + count <= LBA28 => buffer = [i \in 1..count |-> lba + i - 1]
         /\ count \in 1..COUNT8 => disk.status = "quiet"
PROOF
  <1>1. /\ buffer \in Seq(0..(BLOCKS - 1)) /\ Len(buffer) = count /\ count \in Nat /\ lba \in Nat
        /\ LBA28 \in Nat
    BY AtaAssumption DEF AtaIInv, AtaTypeOK
  <1>2. /\ Asked \in Nat /\ Address \in Nat /\ (lba < LBA28 => Address = lba)
        /\ count \in 1..COUNT8 => Asked = count
    BY AskedTypes, AtaAssumption DEF AtaIInv
  <1>3. \A i \in 1..count : buffer[i] = Address + i - 1
    BY <1>1 DEF AtaIInv, InStep
  <1>4. buffer = [i \in 1..count |-> buffer[i]]
    BY <1>1
  <1>5. ASSUME lba + count <= LBA28
        PROVE  buffer = [i \in 1..count |-> lba + i - 1]
    <2>1. \A i \in 1..count : buffer[i] = lba + i - 1
      BY <1>1, <1>2, <1>3, <1>5
    <2> QED BY <1>4, <2>1
  <1>6. count \in 1..COUNT8 => disk.status = "quiet"
    BY <1>1, <1>2 DEF AtaIInv, InStep
  <1> QED BY <1>1, <1>5, <1>6
-----------------------------------------------------------------------------
(* The registry.  What interface_get does to any list.                     *)
FirstNamed(list, n) ==
  LET i == SelectInSeq(list, LAMBDA e : e.name = n)
  IN  IF i = 0 THEN NULL ELSE list[i].interface
Named(list, n) == {i \in 1..Len(list) : list[i].name = n}

(* FirstNamed takes a minimum: it is there when the set is not empty. *)
LEMMA SmallestIsMin ==
  ASSUME NEW T \in SUBSET Nat, T # {}
  PROVE  Min(T) \in T /\ \A y \in T : Min(T) <= y
PROOF
  <1>1. PICK x \in T : \A y \in T : ~(<<y, x>> \in OpToRel(<, Nat))
    BY NatLessThanWellFounded, WFMin
  <1>2. \A y \in T : ~(y < x)
    BY <1>1 DEF OpToRel
  <1>3. \A y \in T : x <= y
    BY <1>2
  <1> QED BY <1>3 DEF Min

LEMMA FirstNamedMeans ==
  ASSUME NEW list \in Seq(Entries), NEW n
  PROVE  /\ Named(list, n) = {} => FirstNamed(list, n) = NULL
         /\ Named(list, n) # {} =>
              /\ Min(Named(list, n)) \in Named(list, n)
              /\ \A k \in Named(list, n) : Min(Named(list, n)) <= k
              /\ FirstNamed(list, n) = list[Min(Named(list, n))].interface
PROOF
  <1>1. SelectInSeq(list, LAMBDA e : e.name = n) =
          IF Named(list, n) # {} THEN Min(Named(list, n)) ELSE 0
    BY DEF SelectInSeq, Named
  <1>2. Named(list, n) \in SUBSET Nat /\ 0 \notin Named(list, n)
    BY DEF Named
  <1>3. ASSUME Named(list, n) # {}
        PROVE  /\ Min(Named(list, n)) \in Named(list, n)
               /\ \A k \in Named(list, n) : Min(Named(list, n)) <= k
    BY <1>2, <1>3, SmallestIsMin
  <1> QED BY <1>1, <1>2, <1>3 DEF FirstNamed

(* An entry put in front is found under its name, and hides no other name. *)
LEMMA FrontIsFound ==
  ASSUME NEW list \in Seq(Entries), NEW e \in Entries, NEW m
  PROVE  FirstNamed(<<e>> \o list, m) =
           IF m = e.name THEN e.interface ELSE FirstNamed(list, m)
PROOF
  <1> DEFINE longer == <<e>> \o list
  <1>1. /\ <<e>> \in Seq(Entries) /\ Len(<<e>>) = 1 /\ <<e>>[1] = e /\ Len(list) \in Nat
    OBVIOUS
  <1>2. /\ longer \in Seq(Entries) /\ Len(longer) = 1 + Len(list) /\ longer[1] = e
        /\ \A i \in 1..Len(list) : longer[i + 1] = list[i]
    <2>1. /\ longer \in Seq(Entries) /\ Len(longer) = Len(<<e>>) + Len(list)
          /\ \A i \in 1..(Len(<<e>>) + Len(list)) :
               longer[i] = IF i <= Len(<<e>>) THEN <<e>>[i] ELSE list[i - Len(<<e>>)]
      BY <1>1, ConcatProperties
    <2> QED BY <1>1, <2>1
  <1> HIDE DEF longer
  <1>3. CASE m = e.name
    <2>1. 1 \in Named(longer, m)
      BY <1>1, <1>2, <1>3 DEF Named
    <2>2. Min(Named(longer, m)) \in Named(longer, m) /\ Min(Named(longer, m)) <= 1
      BY <1>2, <2>1, FirstNamedMeans
    <2>3. Min(Named(longer, m)) = 1
      BY <2>2 DEF Named
    <2>4. FirstNamed(longer, m) = longer[1].interface
      BY <1>2, <2>1, <2>3, FirstNamedMeans
    <2> QED BY <1>2, <1>3, <2>4 DEF longer
  <1>4. CASE m # e.name
    <2>1. \A k \in 1..Len(longer) : k \in Named(longer, m) <=> k > 1 /\ k - 1 \in Named(list, m)
      <3>1. ASSUME NEW k \in 1..Len(longer), k > 1
            PROVE  longer[k] = list[k - 1] /\ k - 1 \in 1..Len(list)
        BY <1>1, <1>2, <3>1
      <3>2. ASSUME NEW k \in 1..Len(longer)
            PROVE  k \in Named(longer, m) <=> k > 1 /\ k - 1 \in Named(list, m)
        <4>1. CASE k > 1
          BY <3>1, <4>1 DEF Named
        <4>2. CASE k = 1
          BY <1>2, <1>4, <4>2 DEF Named
        <4> QED BY <1>1, <1>2, <4>1, <4>2
      <3> QED BY <3>2
    <2>2. Named(longer, m) \subseteq 1..Len(longer) /\ Named(list, m) \subseteq 1..Len(list)
      BY DEF Named
    <2>3. CASE Named(list, m) = {}
      <3>1. Named(longer, m) = {}
        BY <2>1, <2>2, <2>3
      <3> QED BY <1>2, <1>4, <2>3, <3>1, FirstNamedMeans DEF longer
    <2>4. CASE Named(list, m) # {}
      <3>1. PICK k \in 1..Len(list) :
              /\ k = Min(Named(list, m)) /\ k \in Named(list, m)
              /\ \A j \in Named(list, m) : k <= j
              /\ FirstNamed(list, m) = list[k].interface
        BY <2>2, <2>4, FirstNamedMeans
      <3>2. k + 1 \in Named(longer, m)
        BY <1>1, <1>2, <2>1, <3>1
      <3>3. PICK j \in 1..Len(longer) :
              /\ j = Min(Named(longer, m)) /\ j \in Named(longer, m) /\ j <= k + 1
              /\ FirstNamed(longer, m) = longer[j].interface
        BY <1>2, <2>2, <3>2, FirstNamedMeans
      <3>4. j > 1 /\ j - 1 \in Named(list, m)
        BY <2>1, <3>3
      <3>5. j = k + 1
        BY <1>1, <1>2, <3>1, <3>3, <3>4
      <3> QED BY <1>2, <1>4, <3>1, <3>3, <3>5 DEF longer
    <2> QED BY <2>3, <2>4
  <1> QED BY <1>3, <1>4

(* An interface is registered, or there was no memory for it.              *)
LEMMA RegisteredIsFound ==
  ASSUME RegistryTypeOK, NEW n \in Names, NEW i \in Interfaces, interface_register(n, i)
  PROVE  /\ RegistryTypeOK'
         /\ interfaces' # interfaces =>
              \A m \in Names : interface_get(m)' = IF m = Stored[n] THEN i ELSE interface_get(m)
PROOF
  <1>1. \A m : interface_get(m) = FirstNamed(interfaces, m) /\ interface_get(m)' = FirstNamed(interfaces', m)
    BY DEF interface_get, FirstNamed, SelectInSeq
  <1>2. CASE UNCHANGED interfaces
    BY <1>2 DEF RegistryTypeOK
  <1>3. CASE interfaces' = <<[name |-> Stored[n], interface |-> i]>> \o interfaces
    <2>1. PICK e \in Entries : /\ e = [name |-> Stored[n], interface |-> i]
                               /\ e.name = Stored[n] /\ e.interface = i
      <3>1. PICK k \in Names : k = Stored[n]
        BY RegistryAssumption
      <3>2. [name |-> k, interface |-> i] \in Entries
        BY DEF Entries
      <3> QED BY <3>1, <3>2
    <2>2. interfaces \in Seq(Entries) /\ interfaces' = <<e>> \o interfaces
      BY <1>3, <2>1 DEF RegistryTypeOK
    <2>3. /\ interfaces' \in Seq(Entries) /\ Len(interfaces') = 1 + Len(interfaces)
      <3>1. <<e>> \in Seq(Entries) /\ Len(<<e>>) = 1
        BY <2>1
      <3> QED BY <2>2, <3>1, ConcatProperties
    <2>4. Len(interfaces) < MaxEntries /\ Len(interfaces) \in Nat /\ MaxEntries \in Nat
      BY <2>2, RegistryAssumption DEF interface_register
    <2>5. \A m : FirstNamed(interfaces', m) = IF m = e.name THEN e.interface ELSE FirstNamed(interfaces, m)
      BY <2>2, FrontIsFound
    <2> QED BY <1>1, <2>1, <2>3, <2>4, <2>5 DEF RegistryTypeOK
  <1> QED BY <1>2, <1>3 DEF interface_register
-----------------------------------------------------------------------------
(* The call in progress is what the driver is busy with: while initrd_read *)
(* waits, the driver reads the one sector that holds its offset.           *)
Calls == [of : {"none", "mount", "read", "blocks", "ioctl", "list", "write"},
          size : Nat, offset : Nat]

CallIsUnderWay ==
  /\ call \in Calls /\ call.of \in {"none", "mount", "read", "blocks"}
  /\ call = NoCall <=> pc = "out"
  /\ call.of = "read" => /\ call.offset \in Offsets
                         /\ count = 1 /\ lba = 1 + call.offset \div BYTES

AnswerIsRight ==
  /\ answer.n \in Int /\ answer.bytes \in Seq(Nat) /\ answer.written \in Nat
  /\ ReadsTheFile /\ WritesFitTheBuffer

IInv ==
  /\ AtaIInv /\ RegistryTypeOK
  /\ storage_device \in {NULL, device}
  /\ CallIsUnderWay /\ AnswerIsRight

(* The fields of a request, for the provers. *)
LEMMA CallFields ==
  ASSUME NEW o, NEW z, NEW f
  PROVE  /\ Call(o, z, f).of = o /\ Call(o, z, f).size = z /\ Call(o, z, f).offset = f
         /\ o # "none" => Call(o, z, f) # NoCall
         /\ NoCall.of = "none" /\ NoCall \in Calls
         /\ o \in {"mount", "read", "blocks", "ioctl", "list", "write"} /\ z \in Nat /\ f \in Nat =>
              Call(o, z, f) \in Calls
PROOF
  BY DEF Call, NoCall, Calls

LEMMA AnswerFields ==
  ASSUME NEW c, NEW n, NEW b, NEW w, NEW t
  PROVE  /\ Answer(c, n, b, w, t).call = c /\ Answer(c, n, b, w, t).n = n
         /\ Answer(c, n, b, w, t).bytes = b /\ Answer(c, n, b, w, t).written = w
         /\ Answer(c, n, b, w, t).taken = t
PROOF
  BY DEF Answer

(* Nothing has been answered yet. *)
LEMMA NoAnswerIsRight ==
  ASSUME answer = NoAnswer
  PROVE  AnswerIsRight
PROOF
  <1>1. /\ answer.call = NoCall /\ answer.n = 0 /\ answer.bytes = <<>> /\ answer.written = 0
    BY DEF NoAnswer, Answer
  <1>2. NoCall.of = "none" /\ NoCall.size = 0
    BY DEF NoCall, Call
  <1> QED BY <1>1, <1>2, EmptySeq DEF AnswerIsRight, ReadsTheFile, WritesFitTheBuffer

(* A call that has nothing to give back answers with a number.             *)
LEMMA NumberIsRight ==
  ASSUME NEW c \in Calls, NEW n \in Int, NEW t, answer' = Answer(c, n, <<>>, 0, t),
         c.of = "read" => n < 0
  PROVE  AnswerIsRight'
PROOF
  <1>1. /\ answer'.call = c /\ answer'.n = n /\ answer'.bytes = <<>> /\ answer'.written = 0
        /\ c.size \in Nat
    BY AnswerFields DEF Calls
  <1>2. answer'.bytes \in Seq(Nat)
    BY <1>1, EmptySeq
  <1>3. ReadsTheFile'
    BY <1>1 DEF ReadsTheFile
  <1>4. WritesFitTheBuffer'
    BY <1>1 DEF WritesFitTheBuffer
  <1> QED BY <1>1, <1>2, <1>3, <1>4 DEF AnswerIsRight
-----------------------------------------------------------------------------
LEMMA InitHolds ==
  ASSUME Init
  PROVE  IInv
PROOF
  <1>1. AtaIInv
    BY AtaInitHolds DEF Init
  <1>2. RegistryTypeOK
    <2>1. interfaces = <<>> /\ Len(interfaces) = 0
      BY DEF Init, RegistryInit
    <2> QED BY <2>1, RegistryAssumption, EmptySeq DEF RegistryTypeOK
  <1>3. CallIsUnderWay
    BY CallFields DEF Init, AtaInit, CallIsUnderWay
  <1>4. storage_device = NULL /\ answer = NoAnswer
    BY DEF Init
  <1> QED BY <1>1, <1>2, <1>3, <1>4, NoAnswerIsRight DEF IInv

(* A call that is answered at once.                                        *)
LEMMA AnsweredKeeps ==
  ASSUME IInv, Idle, NEW c \in Calls, NEW n \in Int, answers(c, n, <<>>, 0, FALSE),
         c.of = "read" => n < 0, UNCHANGED <<ataVars, interfaces>>,
         storage_device' \in {NULL, device}
  PROVE  IInv'
PROOF
  <1>1. call' = NoCall /\ call = NoCall /\ answer' = Answer(c, n, <<>>, 0, FALSE)
    BY DEF answers, Idle
  <1>2. AtaIInv' /\ RegistryTypeOK'
    BY DEF IInv, AtaIInv, AtaTypeOK, InStep, Asked, Address, RegistryTypeOK, ataVars
  <1>3. CallIsUnderWay'
    BY <1>1 DEF IInv, CallIsUnderWay, ataVars
  <1> QED BY <1>1, <1>2, <1>3, NumberIsRight DEF IInv

(* A call that makes the driver read.                                      *)
LEMMA CalledKeeps ==
  ASSUME IInv, NEW l \in Nat, NEW c \in Nat, storage_read(l, c), NEW o \in Calls, begins(o),
         o.of \in {"mount", "read", "blocks"}, UNCHANGED interfaces,
         storage_device' \in {NULL, device},
         o.of = "read" => o.offset \in Offsets /\ c = 1 /\ l = 1 + o.offset \div BYTES
  PROVE  IInv'
PROOF
  <1>1. ata_read_sectors(l, c)
    BY DEF storage_read, ata_module_read, ata_improved_read, ata_simple_read
  <1>2. call' = o /\ answer' = NoAnswer /\ pc' = "wait_busy" /\ lba' = l /\ count' = c
    BY <1>1 DEF begins, ata_read_sectors
  <1>3. o # NoCall
    BY CallFields
  <1>4. CallIsUnderWay'
    <2>1. call' \in Calls /\ call'.of \in {"mount", "read", "blocks"}
      BY <1>2
    <2>2. call' # NoCall /\ pc' # "out"
      BY <1>2, <1>3
    <2>3. call'.of = "read" => /\ call'.offset \in Offsets
                               /\ count' = 1 /\ lba' = 1 + call'.offset \div BYTES
      BY <1>2
    <2> QED BY <2>1, <2>2, <2>3 DEF CallIsUnderWay
  <1>5. AnswerIsRight'
    <2>1. PICK n \in Int : n = 0
      OBVIOUS
    <2>2. PICK none \in Calls : none = NoCall /\ none.of = "none"
      BY CallFields
    <2>3. answer' = Answer(none, n, <<>>, 0, FALSE)
      BY <1>2, <2>1, <2>2 DEF NoAnswer
    <2> QED BY <2>2, <2>3, NumberIsRight
  <1>6. AtaIInv' /\ RegistryTypeOK'
    BY <1>1, ReadBegins DEF IInv, RegistryTypeOK
  <1> QED BY <1>4, <1>5, <1>6 DEF IInv

LEMMA RegistersKeeps ==
  ASSUME IInv, NEW n \in Names, NEW i \in Interfaces, registers(n, i)
  PROVE  IInv'
PROOF
  <1>1. RegistryTypeOK' /\ UNCHANGED <<ataVars, storage_device, call, answer>>
    BY RegisteredIsFound DEF registers, IInv
  <1>2. AtaIInv' /\ CallIsUnderWay'
    BY <1>1 DEF IInv, AtaIInv, AtaTypeOK, InStep, Asked, Address, ataVars, CallIsUnderWay
  <1>3. AnswerIsRight'
    BY <1>1 DEF IInv, AnswerIsRight, ReadsTheFile, WritesFitTheBuffer
  <1> QED BY <1>1, <1>2, <1>3 DEF IInv

LEMMA IoctlKeeps ==
  ASSUME IInv, NEW cmd \in 1..3, storage_ioctl(cmd)
  PROVE  IInv'
PROOF
  <1>1. PICK n : /\ n = CASE storage = ata_storage  -> ata_ioctl(cmd)
                         [] storage = ata_improved -> ata_improved_ioctl(cmd)
                         [] storage = ata_simple   -> ata_simple_ioctl(cmd)
                 /\ answers(Call("ioctl", 0, 0), n, <<>>, 0, FALSE)
    BY DEF storage_ioctl
  <1>2. n \in Int
    BY <1>1 DEF storage_ioctl, HasRead, ata_ioctl, ata_improved_ioctl, ata_simple_ioctl
  <1>3. PICK c \in Calls : c = Call("ioctl", 0, 0) /\ c.of = "ioctl"
    BY CallFields
  <1> QED BY <1>1, <1>2, <1>3, AnsweredKeeps DEF storage_ioctl, IInv

LEMMA MountKeeps ==
  ASSUME IInv, initrd_mount
  PROVE  IInv'
PROOF
  <1>1. PICK c \in Calls : c = Call("mount", 0, 0) /\ c.of = "mount"
    BY CallFields
  <1>2. /\ storage_device' \in {NULL, device} /\ UNCHANGED interfaces /\ Idle
    BY DEF initrd_mount, IInv
  <1>3. CASE HasRead
    BY <1>1, <1>2, <1>3, CalledKeeps DEF initrd_mount
  <1>4. CASE ~HasRead
    <2>1. PICK n \in Int : n = IF storage = NULL THEN -1 ELSE 0
      OBVIOUS
    <2>2. answers(c, n, <<>>, 0, FALSE) /\ UNCHANGED ataVars
      BY <1>1, <1>4, <2>1 DEF initrd_mount
    <2> QED BY <1>1, <1>2, <2>2, AnsweredKeeps
  <1> QED BY <1>3, <1>4

LEMMA ReadKeeps ==
  ASSUME IInv, NEW z \in Sizes, NEW f \in Offsets, initrd_read(z, f) \/ initrd_write(z, f)
  PROVE  IInv'
PROOF
  <1>1. z \in Nat /\ f \in Nat
    BY InitrdFsAssumption
  <1>2. PICK l \in Nat : l = 1 + f \div BYTES
    <2>1. PICK q \in Nat : q = f \div BYTES
      BY <1>1, InitrdFsAssumption, Remainders
    <2>2. 1 + q \in Nat
      OBVIOUS
    <2> QED BY <2>1, <2>2
  <1>3. CASE initrd_read(z, f)
    <2>1. PICK c \in Calls : c = Call("read", z, f) /\ c.of = "read" /\ c.offset = f
      BY <1>1, CallFields
    <2>2. storage_device' \in {NULL, device} /\ UNCHANGED interfaces /\ Idle
      BY <1>3 DEF initrd_read, IInv
    <2>3. CASE HasRead
      BY <1>2, <1>3, <2>1, <2>2, <2>3, CalledKeeps DEF initrd_read
    <2>4. CASE ~HasRead
      <3>1. PICK n \in Int : n = -1
        OBVIOUS
      <3>2. answers(c, n, <<>>, 0, FALSE) /\ UNCHANGED ataVars
        BY <1>3, <2>1, <2>4, <3>1 DEF initrd_read
      <3>3. n < 0
        BY <3>1
      <3> QED BY <2>1, <2>2, <3>2, <3>3, AnsweredKeeps
    <2> QED BY <2>3, <2>4
  <1>4. CASE initrd_write(z, f)
    <2>1. PICK c \in Calls : c = Call("write", z, f) /\ c.of = "write"
      BY <1>1, CallFields
    <2>2. PICK n \in Int : n = -1
      OBVIOUS
    <2>3. /\ answers(c, n, <<>>, 0, FALSE) /\ UNCHANGED <<ataVars, interfaces>> /\ Idle
          /\ storage_device' \in {NULL, device}
      BY <1>4, <2>1, <2>2 DEF initrd_write, IInv
    <2> QED BY <2>1, <2>3, AnsweredKeeps
  <1> QED BY <1>3, <1>4

(* strcpy stores one byte more than the length, but no more.               *)
LEMMA ListKeeps ==
  ASSUME IInv, NEW z \in Sizes, initrd_list(z)
  PROVE  IInv'
PROOF
  <1>1. z \in Nat /\ LIST_LENGTH \in Nat
    BY InitrdFsAssumption
  <1>2. PICK c \in Calls : c = Call("list", z, 0) /\ c.of = "list" /\ c.size = z
    BY <1>1, CallFields
  <1>3. CASE z < LIST_LENGTH
    <2>1. PICK n \in Int : n = 0
      OBVIOUS
    <2>2. answers(c, n, <<>>, 0, FALSE)
      <3>1. ~(z >= LIST_LENGTH)
        BY <1>1, <1>3
      <3>2. answers(Call("list", z, 0), 0, <<>>, 0, FALSE)
        BY <3>1, Zenon DEF initrd_list
      <3> QED BY <1>2, <2>1, <3>2, Zenon
    <2>3. /\ UNCHANGED <<ataVars, interfaces>> /\ Idle
          /\ storage_device' \in {NULL, device}
      BY DEF initrd_list, IInv
    <2> QED BY <1>2, <2>2, <2>3, AnsweredKeeps
  <1>4. CASE z >= LIST_LENGTH
    <2>1. /\ call' = NoCall /\ call = NoCall /\ UNCHANGED <<ataVars, interfaces, storage_device>>
          /\ answer' = Answer(c, LIST_LENGTH, <<>>, LIST_LENGTH + 1, FALSE)
      BY <1>1, <1>2, <1>4 DEF initrd_list, answers, Idle
    <2>2. AtaIInv' /\ RegistryTypeOK' /\ CallIsUnderWay'
      BY <2>1 DEF IInv, AtaIInv, AtaTypeOK, InStep, Asked, Address, RegistryTypeOK, ataVars,
                  CallIsUnderWay
    <2>3. /\ answer'.call = c /\ answer'.n = LIST_LENGTH /\ answer'.bytes = <<>>
          /\ answer'.written = LIST_LENGTH + 1
      BY <2>1 DEF Answer
    <2>4. WritesFitTheBuffer'
      BY <1>1, <1>2, <1>4, <2>3 DEF WritesFitTheBuffer
    <2>5. ReadsTheFile'
      BY <1>2, <2>3 DEF ReadsTheFile
    <2>6. answer'.n \in Int /\ answer'.bytes \in Seq(Nat) /\ answer'.written \in Nat
      BY <1>1, <2>3, EmptySeq
    <2>7. AnswerIsRight'
      BY <2>4, <2>5, <2>6 DEF AnswerIsRight
    <2>8. storage_device' \in {NULL, device}
      BY <2>1 DEF IInv
    <2> QED BY <2>2, <2>7, <2>8 DEF IInv
  <1> QED BY <1>1, <1>3, <1>4

(* Whoever reads blocks himself may ask for any address and count.         *)
LEMMA BlocksKeep ==
  ASSUME IInv, NEW l \in Lbas, NEW c \in Counts, blocks_read(l, c)
  PROVE  IInv'
PROOF
  <1>1. PICK o \in Calls : o = Call("blocks", 0, 0) /\ o.of = "blocks"
    BY CallFields
  <1>2. l \in Nat /\ c \in Nat
    BY AtaAssumption
  <1>3. /\ storage_read(l, c) /\ begins(o) /\ UNCHANGED interfaces
        /\ storage_device' \in {NULL, device}
    BY <1>1 DEF blocks_read, IInv
  <1> QED BY <1>1, <1>2, <1>3, CalledKeeps

(* The driver and the disk go on: the call stays under way.                *)
LEMMA RunsKeep ==
  ASSUME IInv, driver_runs \/ disk_runs
  PROVE  IInv'
PROOF
  <1>1. UNCHANGED <<interfaces, storage_device, call, answer>>
    BY DEF driver_runs, disk_runs
  <1>2. AtaIInv' /\ UNCHANGED <<lba, count>> /\ (pc = "out" <=> pc' = "out")
    <2>1. CASE poll_again
      BY <2>1, PollKeeps DEF poll_again, IInv
    <2>2. CASE send_command
      BY <2>2, CommandKeeps DEF send_command, return_with, sector_loop, IInv
    <2>3. CASE read_sector
      BY <2>3, SectorKeeps DEF read_sector, return_with, sector_loop, IInv
    <2>4. CASE read_error \/ give_up
      BY <2>4, FailureKeeps DEF read_error, give_up, return_with, IInv
    <2>5. CASE disk_step
      BY <2>5, DiskKeeps DEF disk_step, IInv
    <2> QED BY <2>1, <2>2, <2>3, <2>4, <2>5 DEF driver_runs, disk_runs, driver_step
  <1>3. CallIsUnderWay'
    BY <1>1, <1>2 DEF IInv, CallIsUnderWay
  <1>4. AnswerIsRight' /\ RegistryTypeOK'
    BY <1>1 DEF IInv, AnswerIsRight, ReadsTheFile, WritesFitTheBuffer, RegistryTypeOK
  <1> QED BY <1>1, <1>2, <1>3, <1>4 DEF IInv

(* A call returns: what is left to show is that its answer is right.       *)
LEMMA ReturnKeeps ==
  ASSUME IInv, caller_goes_on, call' = NoCall, UNCHANGED <<interfaces, storage_device>>,
         AnswerIsRight'
  PROVE  IInv'
PROOF
  <1>1. AtaIInv' /\ pc' = "out"
    BY CallerKeeps DEF IInv, caller_goes_on
  <1>2. CallIsUnderWay'
    BY <1>1, CallFields DEF CallIsUnderWay
  <1>3. RegistryTypeOK' /\ storage_device' \in {NULL, device}
    BY DEF IInv, RegistryTypeOK
  <1> QED BY <1>1, <1>2, <1>3 DEF IInv

LEMMA OthersReturn ==
  ASSUME IInv, mount_returns \/ blocks_returns
  PROVE  IInv'
PROOF
  <1>1. call \in Calls /\ call.of # "read" /\ result \in Int
    BY DEF IInv, CallIsUnderWay, AtaIInv, AtaTypeOK, mount_returns, blocks_returns
  <1>2. PICK n \in Int : answers(call, n, <<>>, 0, taken)
    <2>1. CASE mount_returns
      <3>1. PICK n \in Int : n = 0
        OBVIOUS
      <3> QED BY <2>1, <3>1 DEF mount_returns
    <2>2. CASE blocks_returns
      BY <1>1, <2>2 DEF blocks_returns
    <2> QED BY <2>1, <2>2
  <1>3. AnswerIsRight'
    BY <1>1, <1>2, NumberIsRight DEF answers
  <1> QED BY <1>2, <1>3, ReturnKeeps DEF answers, mount_returns, blocks_returns

(* The bytes that a read of the file gives back.                           *)
LEMMA BytesAreAFunction ==
  ASSUME NEW n \in Nat, NEW from \in Nat, NEW s, s = [i \in 1..n |-> from + i - 1]
  PROVE  s \in Seq(Nat) /\ Len(s) = n /\ \A i \in 1..n : s[i] = from + i - 1
PROOF
  <1>1. \A i \in 1..n : from + i - 1 \in Nat
    OBVIOUS
  <1>2. s \in [1..n -> Nat]
    BY <1>1
  <1> QED BY <1>2, SeqDef

(* What a read that succeeds answers its caller. *)
LEMMA ReadAnswers ==
  ASSUME read_returns, result = 0, NEW z, z = call.size,
         NEW off, off = call.offset, NEW at, at = off % BYTES,
         NEW n, n = copy_size(z, at), NEW b, b = buffer[1]
  PROVE  /\ answer'.call = call /\ answer'.n = n /\ answer'.written = n /\ call' = NoCall
         /\ answer'.bytes = [i \in 1..n |-> b * BYTES + at + i - 1]
         /\ answer'.taken => taken
PROOF
  <1>1. answers(call, n, [i \in 1..n |-> b * BYTES + at + i - 1], n, taken)
    BY DEF read_returns
  <1>2. answer' = Answer(call, n, [i \in 1..n |-> b * BYTES + at + i - 1], n, taken) /\ call' = NoCall
    BY <1>1, Zenon DEF answers
  <1>3. answer'.taken = taken
    BY <1>2, Zenon DEF Answer
  <1>4. answer'.taken => taken
    BY <1>3, Zenon
  <1> QED BY <1>2, <1>4 DEF Answer

LEMMA ReadReturns ==
  ASSUME IInv, read_returns
  PROVE  IInv'
PROOF
  <1>1. /\ call \in Calls /\ call.of = "read" /\ call.size \in Nat /\ call.offset \in Offsets
        /\ count = 1 /\ lba = 1 + call.offset \div BYTES /\ pc = "back" /\ caller_goes_on
    BY DEF IInv, CallIsUnderWay, Calls, read_returns, caller_goes_on
  <1>2. CASE result # 0
    <2>1. PICK n \in Int : n = -1 /\ n < 0
      OBVIOUS
    <2>2. answers(call, n, <<>>, 0, taken)
      BY <1>2, <2>1 DEF read_returns
    <2>3. AnswerIsRight'
      BY <1>1, <2>1, <2>2, NumberIsRight DEF answers
    <2> QED BY <1>1, <2>2, <2>3, ReturnKeeps DEF answers, read_returns
  <1>3. CASE result = 0
    <2>1. PICK off \in Nat, z \in Nat :
            off = call.offset /\ off \in Offsets /\ z = call.size
      BY <1>1, InitrdFsAssumption
    <2>2. PICK at \in Nat, q \in Nat :
            /\ at = off % BYTES /\ at < BYTES /\ BYTES \in Nat
            /\ q = off \div BYTES /\ off = BYTES * q + at /\ 1 + q < LBA28
      <3>1. BYTES \in Nat \ {0} /\ 1 + off \div BYTES < LBA28
        BY <2>1, InitrdFsAssumption
      <3>2. PICK at \in Nat : at = off % BYTES /\ at < BYTES
        <4>1. off % BYTES \in 0..(BYTES - 1)
          BY <3>1, Remainders
        <4> QED BY <3>1, <4>1
      <3>3. PICK q \in Nat : q = off \div BYTES
        BY <3>1, Remainders
      <3>4. off = BYTES * (off \div BYTES) + (off % BYTES)
        BY <3>1, Remainders
      <3>5. off = BYTES * q + at
        BY <3>2, <3>3, <3>4
      <3>6. 1 + q < LBA28
        BY <3>1, <3>3
      <3> QED BY <3>1, <3>2, <3>3, <3>5, <3>6
    <2>3. PICK n \in Nat : /\ n = copy_size(z, at) /\ n <= z
                           /\ z > 0 => n > 0
      <3>1. /\ copy_size(z, at) \in Nat /\ copy_size(z, at) <= z
            /\ z > 0 => copy_size(z, at) > 0
        BY <2>2 DEF copy_size
      <3> QED BY <3>1
    <2>4. PICK b \in Nat : b = buffer[1]
      <3>1. buffer \in Seq(0..(BLOCKS - 1)) /\ Len(buffer) = 1 /\ BLOCKS \in Nat
        BY <1>1, <1>3, AtaAssumption DEF IInv, AtaIInv, AtaTypeOK
      <3>2. PICK k \in 1..Len(buffer) : k = 1
        BY <3>1
      <3>3. buffer[k] \in 0..(BLOCKS - 1)
        BY <3>1, ElementOfSeq
      <3> QED BY <3>1, <3>2, <3>3
    <2>5. PICK from \in Nat : from = b * BYTES + at
      <3>1. b * BYTES \in Nat
        BY <2>2
      <3> QED BY <2>2, <3>1
    <2>6. PICK s : s = [i \in 1..n |-> from + i - 1]
      OBVIOUS
    <2>7. s \in Seq(Nat) /\ Len(s) = n /\ \A i \in 1..n : s[i] = from + i - 1
      BY <2>6, BytesAreAFunction
    <2>8. /\ answer'.call = call /\ answer'.n = n /\ answer'.bytes = s /\ answer'.written = n
          /\ call' = NoCall
      <3>1. /\ answer'.call = call /\ answer'.n = n /\ answer'.written = n /\ call' = NoCall
            /\ answer'.bytes = [i \in 1..n |-> b * BYTES + at + i - 1]
        <4>1. off = call.offset /\ z = call.size
          BY <2>1
        <4>2. at = off % BYTES /\ n = copy_size(z, at) /\ b = buffer[1]
          BY <2>2, <2>3, <2>4
        <4> QED BY <1>3, <4>1, <4>2, ReadAnswers
      <3> QED BY <2>5, <2>6, <3>1
    <2>9. answer'.taken => taken
      BY <1>3, <2>1, <2>2, <2>3, <2>4, ReadAnswers
    <2>10. taken => from = BYTES + off
      <3> SUFFICES ASSUME taken PROVE from = BYTES + off
        OBVIOUS
      <3>1. PICK l \in Nat : l = lba /\ l = 1 + q
        BY <1>1, <2>1, <2>2
      <3>2. buffer = [i \in 1..count |-> l + i - 1]
        <4>1. LBA28 \in Nat /\ lba + count <= LBA28
          BY <1>1, <2>2, <3>1, AtaAssumption
        <4> QED BY <1>1, <1>3, <3>1, <4>1, SuccessMeans DEF IInv
      <3>3. b = 1 + q
        BY <1>1, <2>4, <3>1, <3>2
      <3>4. (1 + q) * BYTES = BYTES + BYTES * q
        BY <2>2
      <3> QED BY <2>2, <2>5, <3>3, <3>4
    <2>11. ReadsTheFile'
      <3> SUFFICES ASSUME taken
                   PROVE  /\ Len(s) = n /\ \A i \in 1..n : s[i] = BYTES + off + i - 1
                          /\ z > 0 => n > 0
        BY <2>1, <2>8, <2>9 DEF ReadsTheFile
      <3> QED BY <2>3, <2>7, <2>10
    <2>12. WritesFitTheBuffer'
      <3>1. answer'.written = n /\ answer'.call = call /\ n <= z /\ z = call.size
        BY <2>1, <2>3, <2>8
      <3> QED BY <3>1 DEF WritesFitTheBuffer
    <2>13. AnswerIsRight'
      BY <2>7, <2>8, <2>11, <2>12 DEF AnswerIsRight
    <2> QED BY <1>1, <2>8, <2>13, ReturnKeeps DEF read_returns
  <1> QED BY <1>2, <1>3
-----------------------------------------------------------------------------
LEMMA NextKeeps ==
  ASSUME IInv, Next
  PROVE  IInv'
PROOF
  <1>1. ASSUME NEW offer \in Offers, registers(offer[1], offer[2])
        PROVE  IInv'
    <2>1. offer[1] \in Names /\ offer[2] \in Interfaces
      BY InitrdFsAssumption
    <2> QED BY <1>1, <2>1, RegistersKeeps
  <1>2. CASE \/ ata_register_interfaces \/ ata_improved_register_interfaces
             \/ ata_simple_register_interfaces \/ initrd_register_interfaces
    BY <1>2, RegistersKeeps, InitrdFsAssumption
       DEF ata_register_interfaces, ata_improved_register_interfaces,
           ata_simple_register_interfaces, initrd_register_interfaces
  <1>3. ASSUME \/ \E cmd \in 1..3 : storage_ioctl(cmd)
               \/ initrd_mount
               \/ \E z \in Sizes, f \in Offsets : initrd_read(z, f) \/ initrd_write(z, f)
               \/ \E z \in Sizes : initrd_list(z)
               \/ \E l \in Lbas, c \in Counts : blocks_read(l, c)
        PROVE  IInv'
    BY <1>3, IoctlKeeps, MountKeeps, ReadKeeps, ListKeeps, BlocksKeep
  <1>4. CASE driver_runs \/ disk_runs
    BY <1>4, RunsKeep
  <1>5. CASE call_returns
    BY <1>5, OthersReturn, ReadReturns DEF call_returns
  <1> QED BY <1>1, <1>2, <1>3, <1>4, <1>5 DEF Next

LEMMA StutterKeeps ==
  ASSUME IInv, UNCHANGED vars
  PROVE  IInv'
PROOF
  <1>1. UNCHANGED <<interfaces, storage_device, call, answer>> /\ UNCHANGED ataVars
    BY DEF vars
  <1>2. AtaIInv' /\ CallIsUnderWay'
    BY <1>1 DEF IInv, AtaIInv, AtaTypeOK, InStep, Asked, Address, ataVars, CallIsUnderWay
  <1>3. AnswerIsRight' /\ RegistryTypeOK'
    BY <1>1 DEF IInv, AnswerIsRight, ReadsTheFile, WritesFitTheBuffer, RegistryTypeOK
  <1> QED BY <1>1, <1>2, <1>3 DEF IInv

LEMMA Invariant == Spec => []IInv
PROOF
  <1>1. Init => IInv
    BY InitHolds
  <1>2. IInv /\ [Next]_vars => IInv'
    BY NextKeeps, StutterKeeps
  <1> QED BY <1>1, <1>2, PTL DEF Spec

(* Everything keeps its type, and a call is under way exactly while the    *)
(* driver is not idle.                                                     *)
THEOREM TypeCorrect == Spec => []TypeOK
PROOF
  <1>1. IInv => TypeOK
    BY DEF IInv, AtaIInv, CallIsUnderWay, AnswerIsRight, TypeOK
  <1> QED BY <1>1, Invariant, PTL

(* A read that the disk took and the driver calls a success has stored the *)
(* sectors asked for, in order, however the disk and the polls met.        *)
THEOREM SuccessIsTheSectors == Spec => []SectorsAreThoseAsked
PROOF
  <1>1. IInv => SectorsAreThoseAsked
    BY SuccessMeans DEF IInv, SectorsAreThoseAsked
  <1> QED BY <1>1, Invariant, PTL

(* Such a read of a count the register can hold leaves no data behind.     *)
THEOREM SuccessIsQuiet == Spec => []QuietAfterSuccess
PROOF
  <1>1. IInv => QuietAfterSuccess
    BY SuccessMeans DEF IInv, QuietAfterSuccess
  <1> QED BY <1>1, Invariant, PTL

(* initrd_read returns the bytes of the file from the offset on.           *)
THEOREM FileIsRead == Spec => []ReadsTheFile
PROOF
  <1>1. IInv => ReadsTheFile
    BY DEF IInv, AnswerIsRight
  <1> QED BY <1>1, Invariant, PTL

(* No call stores more than fits, but for the one byte of initrd_list.     *)
THEOREM NothingIsOverrun == Spec => []WritesFitTheBuffer
PROOF
  <1>1. IInv => WritesFitTheBuffer
    BY DEF IInv, AnswerIsRight
  <1> QED BY <1>1, Invariant, PTL

(* Who registers an interface is the one that its name finds, and hides no *)
(* other: in every list, whatever its length.                              *)
THEOREM RegistrationsWin == Spec => NewestWins
PROOF
  <1>1. ASSUME IInv, NEW n \in Names, NEW i \in Interfaces, registers(n, i), interfaces' # interfaces
        PROVE  \A m \in Names : interface_get(m)' = IF m = Stored[n] THEN i ELSE interface_get(m)
    BY <1>1, RegisteredIsFound DEF registers, IInv
  <1>2. IInv => \A n \in Names, i \in Interfaces :
                  registers(n, i) /\ interfaces' # interfaces =>
                    \A m \in Names : interface_get(m)' =
                      IF m = Stored[n] THEN i ELSE interface_get(m)
    BY <1>1
  <1> QED BY <1>2, Invariant, PTL DEF NewestWins
=============================================================================
