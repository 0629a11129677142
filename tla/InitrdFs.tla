------------------------------ MODULE InitrdFs -------------------------------
(***************************************************************************)
(* The initrd file system, modules/sys/fs/initrd_fs/initrd_fs_module.c,    *)
(* over the driver that it finds in the registry (Registry).  There are    *)
(* three, of one design (Ata): ata_module.c, ata_improved.c and            *)
(* ata_module_simple.c in modules/drivers/storage/ata.  One call is in     *)
(* progress at a time; it is as long as the read it makes.  A byte of the  *)
(* disk is its address, BYTES stands for 512.                              *)
(***************************************************************************)
EXTENDS Ata, Registry

CONSTANTS BLOCK_STORAGE, FILE_SYSTEM,  \* two of the names
          ata_storage, ata_improved, ata_simple, \* interfaces: the three drivers',
          initrd_fs,                   \* and the file system's
          Offers,                      \* <<name, interface>>: what modules register
          BYTES,                       \* in a sector
          Sizes, Offsets,              \* what callers ask for
          LIST_LENGTH,                 \* strlen of the list of files
          device                       \* what is mounted

(* An offset has 32 bits, and a sector at such an offset has an address    *)
(* that fits the driver's registers.                                       *)
ASSUME InitrdFsAssumption ==
  /\ BLOCK_STORAGE \in Names /\ FILE_SYSTEM \in Names
  /\ {ata_storage, ata_improved, ata_simple, initrd_fs} \subseteq Interfaces
  /\ Offers \subseteq Names \X Interfaces
  /\ BYTES \in Nat \ {0} /\ Sizes \subseteq Nat /\ Offsets \subseteq Nat
  /\ \A f \in Offsets : 1 + f \div BYTES < LBA28
  /\ LIST_LENGTH \in Nat /\ device # NULL

VARIABLES storage_device,
          call,    \* the call in progress: its name, its size and its offset
          answer   \* the last call, what it returned, what it stored for the caller

vars == <<ataVars, interfaces, storage_device, call, answer>>

Call(o, s, f)         == [of |-> o, size |-> s, offset |-> f]
Answer(c, n, b, w, t) == [call |-> c, n |-> n, bytes |-> b, written |-> w, taken |-> t]

NoCall   == Call("none", 0, 0)
NoAnswer == Answer(NoCall, 0, <<>>, 0, FALSE)
Idle     == call = NoCall
-----------------------------------------------------------------------------
Init ==
  /\ AtaInit /\ RegistryInit
  /\ storage_device = NULL /\ call = NoCall
  /\ answer = NoAnswer

storage == interface_get(BLOCK_STORAGE)

(* A call is under way, or over with what it returned. *)
begins(c) == call' = c /\ answer' = NoAnswer
answers(c, n, bytes, written, t) ==
  /\ call' = NoCall
  /\ answer' = Answer(c, n, bytes, written, t)

(* Modules register interfaces when they like, these four among them. *)
registers(name, interface) ==
  /\ Idle /\ interface_register(name, interface)
  /\ UNCHANGED <<ataVars, storage_device, call, answer>>
ata_register_interfaces          == registers(BLOCK_STORAGE, ata_storage)
ata_improved_register_interfaces == registers(BLOCK_STORAGE, ata_improved)
ata_simple_register_interfaces   == registers(BLOCK_STORAGE, ata_simple)
initrd_register_interfaces       == registers(FILE_SYSTEM, initrd_fs)

(* storage->read is the function of the driver registered last; no other   *)
(* interface has one.  The three wait, command the disk and loop alike.    *)
ata_module_read(l, c)   == storage = ata_storage /\ ata_read_sectors(l, c)
ata_improved_read(l, c) == storage = ata_improved /\ ata_read_sectors(l, c)
ata_simple_read(l, c)   == storage = ata_simple /\ ata_read_sectors(l, c)
storage_read(l, c) ==
  ata_module_read(l, c) \/ ata_improved_read(l, c) \/ ata_simple_read(l, c)
HasRead == storage \in {ata_storage, ata_improved, ata_simple}

(* Only ata_improved.c looks at the command: device information, or flush. *)
ata_ioctl(cmd)          == 0
ata_simple_ioctl(cmd)   == 0
ata_improved_ioctl(cmd) == IF cmd \in {1, 2} THEN 0 ELSE -1
storage_ioctl(cmd) ==
  /\ Idle /\ HasRead
  /\ answers(Call("ioctl", 0, 0),
             CASE storage = ata_storage  -> ata_ioctl(cmd)
               [] storage = ata_improved -> ata_improved_ioctl(cmd)
               [] storage = ata_simple   -> ata_simple_ioctl(cmd), <<>>, 0, FALSE)
  /\ UNCHANGED <<ataVars, interfaces, storage_device>>

(* Mounting without storage fails; with it, the device is noted and the    *)
(* boot sector read to see whether that works.                             *)
initrd_mount ==
  /\ Idle
  /\ IF storage = NULL THEN UNCHANGED storage_device ELSE storage_device' = device
  /\ IF HasRead
     THEN /\ storage_read(0, 1)
          /\ begins(Call("mount", 0, 0))
     ELSE /\ answers(Call("mount", 0, 0), IF storage = NULL THEN -1 ELSE 0, <<>>, 0, FALSE)
          /\ UNCHANGED ataVars
  /\ UNCHANGED interfaces

(* Whether it did makes no difference. *)
mount_returns ==
  /\ call.of = "mount" /\ caller_goes_on
  /\ answers(call, 0, <<>>, 0, taken)
  /\ UNCHANGED <<interfaces, storage_device>>

initrd_read(size, offset) ==
  /\ Idle
  /\ IF HasRead
     THEN /\ storage_read(1 + offset \div BYTES, 1)
          /\ begins(Call("read", size, offset))
     ELSE /\ answers(Call("read", size, offset), -1, <<>>, 0, FALSE)
          /\ UNCHANGED ataVars
  /\ UNCHANGED <<interfaces, storage_device>>

copy_size_WithoutSize(size, at) == BYTES - at
copy_size(size, at) == IF size < BYTES - at THEN size ELSE BYTES - at

(* What the sector buffer holds from byte "at" on goes to the caller. *)
read_returns_FromTheStart ==
  /\ call.of = "read" /\ caller_goes_on
  /\ IF result = 0
     THEN LET n == copy_size(call.size, call.offset % BYTES)
          IN  answers(call, n, [i \in 1..n |-> buffer[1] * BYTES + i - 1], n, taken)
     ELSE answers(call, -1, <<>>, 0, taken)
  /\ UNCHANGED <<interfaces, storage_device>>
read_returns ==
  /\ call.of = "read" /\ caller_goes_on
  /\ IF result = 0
     THEN LET at == call.offset % BYTES
              n  == copy_size(call.size, at)
          IN  answers(call, n, [i \in 1..n |-> buffer[1] * BYTES + at + i - 1], n, taken)
     ELSE answers(call, -1, <<>>, 0, taken)
  /\ UNCHANGED <<interfaces, storage_device>>

(* strcpy stores the names and the 0 after them. *)
initrd_list(size) ==
  /\ Idle
  /\ IF size >= LIST_LENGTH
     THEN answers(Call("list", size, 0), LIST_LENGTH, <<>>, LIST_LENGTH + 1, FALSE)
     ELSE answers(Call("list", size, 0), 0, <<>>, 0, FALSE)
  /\ UNCHANGED <<ataVars, interfaces, storage_device>>

initrd_write(size, offset) ==
  /\ Idle
  /\ answers(Call("write", size, offset), -1, <<>>, 0, FALSE)
  /\ UNCHANGED <<ataVars, interfaces, storage_device>>

(* Whoever has the storage interface may read blocks himself. *)
blocks_read(l, c) ==
  /\ Idle /\ storage_read(l, c)
  /\ begins(Call("blocks", 0, 0))
  /\ UNCHANGED <<interfaces, storage_device>>
blocks_returns ==
  /\ call.of = "blocks" /\ caller_goes_on
  /\ answers(call, result, <<>>, 0, taken)
  /\ UNCHANGED <<interfaces, storage_device>>

driver_runs == driver_step /\ UNCHANGED <<interfaces, storage_device, call, answer>>
disk_runs   == disk_step /\ UNCHANGED <<interfaces, storage_device, call, answer>>

call_returns == mount_returns \/ read_returns \/ blocks_returns

Next ==
  \/ \E offer \in Offers : registers(offer[1], offer[2])
  \/ ata_register_interfaces \/ ata_improved_register_interfaces
  \/ ata_simple_register_interfaces \/ initrd_register_interfaces
  \/ \E cmd \in 1..3 : storage_ioctl(cmd)
  \/ initrd_mount
  \/ \E s \in Sizes, f \in Offsets : initrd_read(s, f) \/ initrd_write(s, f)
  \/ \E s \in Sizes : initrd_list(s)
  \/ \E l \in Lbas, c \in Counts : blocks_read(l, c)
  \/ driver_runs \/ disk_runs \/ call_returns

(* The processor goes on; the disk owes nothing. *)
Spec == Init /\ [][Next]_vars /\ WF_vars(driver_runs) /\ WF_vars(call_returns)
-----------------------------------------------------------------------------
TypeOK ==
  /\ AtaTypeOK /\ RegistryTypeOK
  /\ storage_device \in {NULL, device}
  /\ call.of \in {"none", "mount", "read", "blocks"} /\ call = NoCall <=> pc = "out"
  /\ answer.n \in Int /\ answer.bytes \in Seq(Nat) /\ answer.written \in Nat

(* A read that the disk took and the driver calls a success has stored the *)
(* sectors asked for, in order, whatever was abandoned before and however  *)
(* the disk and the driver's polls met (addresses up to the register's).   *)
SectorsAreThoseAsked ==
  pc = "back" /\ result = 0 /\ taken /\ lba + count <= LBA28
    => buffer = [i \in 1..count |-> lba + i - 1]

(* Such a read, of 1 to COUNT8 sectors, leaves no data at the disk: were   *)
(* it otherwise, the next command would go out with DRQ set.               *)
QuietAfterSuccess ==
  pc = "back" /\ result = 0 /\ taken /\ count \in 1..COUNT8 => disk.status = "quiet"

(* What initrd_read returns is that many bytes, of the file, which begins  *)
(* in sector 1, from the offset on; none only if none were asked for.      *)
ReadsTheFile ==
  answer.call.of = "read" /\ answer.taken /\ answer.n >= 0 =>
    /\ Len(answer.bytes) = answer.n
    /\ \A i \in 1..answer.n : answer.bytes[i] = BYTES + answer.call.offset + i - 1
    /\ answer.call.size > 0 => answer.n > 0

(* No call stores more than the caller has room for; initrd_list does when *)
(* the room is exactly strlen, one byte.                                   *)
WritesFitTheBuffer ==
  \/ answer.written <= answer.call.size
  \/ answer.call.of = "list" /\ answer.call.size = LIST_LENGTH
                             /\ answer.written = answer.call.size + 1

(* A registration that was given memory binds the name, as it is stored,   *)
(* to the new interface, and leaves all that other names find alone.       *)
NewestWins ==
  [][\A n \in Names, i \in Interfaces :
       registers(n, i) /\ interfaces' # interfaces =>
         \A m \in Names : interface_get(m)' =
           IF m = Stored[n] THEN i ELSE interface_get(m)]_vars

(* Every call returns, also when the disk never answers. *)
CallsReturn == (call # NoCall) ~> (call = NoCall)
=============================================================================
