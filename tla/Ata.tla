--------------------------------- MODULE Ata ---------------------------------
(***************************************************************************)
(* The ATA driver, modules/drivers/storage/ata/ata_module.c: one polled    *)
(* read at a time, from a disk that answers when it likes or never.  A     *)
(* step is one poll of the status port and what the driver does on seeing  *)
(* it; a sector (256 words) is one datum, the number it has on the disk.   *)
(* The disk is external; taken, which says whether it took the command of  *)
(* the current read, is auxiliary.                                         *)
(***************************************************************************)
EXTENDS Integers, Sequences

CONSTANTS Lbas, Counts, \* what callers ask for
          BLOCKS,       \* sectors on the disk
          LBA28,        \* sector addresses the registers can hold: 2^28
          COUNT8,       \* values of the sector count register: 256
          TIMEOUT       \* polls before the driver gives up: 100000

ASSUME AtaAssumption ==
  /\ Lbas \subseteq Nat /\ Counts \subseteq Nat
  /\ BLOCKS \in 1..LBA28 /\ LBA28 \in Nat /\ COUNT8 \in Nat \ {0} /\ TIMEOUT \in Nat \ {0}

VARIABLES disk,               \* its status, the sector it is at, how many are left
          pc,                 \* "out", "wait_busy", "wait_drq", or "back" in the caller
          timeout, lba, count,
          buffer,             \* the sectors stored so far, Len(buffer) is "sector"
          result,
          taken

ataVars == <<disk, pc, timeout, lba, count, buffer, result, taken>>

GARBAGE == -1  \* what the data port yields without DRQ
-----------------------------------------------------------------------------
(* The disk.  After power-on it may be busy with itself; a command makes   *)
(* it busy until it has a sector in its buffer or meets an error.  Nothing *)
(* obliges it to.                                                          *)
disk_starts == [status |-> "busy", at |-> 0, left |-> 0]
disk_rests  == [status |-> "quiet", at |-> 0, left |-> 0]

disk_ready == /\ disk.status = "busy" /\ disk.left = 0
              /\ disk' = disk_rests
disk_finds == /\ disk.status = "busy" /\ disk.left > 0 /\ disk.at < BLOCKS
              /\ disk' = [disk EXCEPT !.status = "drq"]
disk_fails == /\ disk.status = "busy" /\ disk.left > 0
              /\ disk' = [disk_rests EXCEPT !.status = "err"]
disk_step  == /\ disk_ready \/ disk_finds \/ disk_fails
              /\ UNCHANGED <<pc, timeout, lba, count, buffer, result, taken>>

(* READ SECTORS with the registers as the driver left them; 0 stands for   *)
(* COUNT8 sectors.  With data waiting to be fetched the command register   *)
(* must not be written: a disk may start anew, or ignore the command.      *)
disk_command(address, n) ==
  \/ /\ disk' = [status |-> "busy", at |-> address, left |-> IF n = 0 THEN COUNT8 ELSE n]
     /\ taken' = TRUE
  \/ /\ disk.status = "drq"
     /\ UNCHANGED disk /\ taken' = FALSE

(* The last word of a sector fetched. *)
disk_after_data ==
  CASE disk.status # "drq" -> disk
    [] disk.left = 1       -> disk_rests
    [] OTHER               -> [status |-> "busy", at |-> disk.at + 1, left |-> disk.left - 1]
-----------------------------------------------------------------------------
AtaInit ==
  /\ disk \in {disk_starts, disk_rests}
  /\ pc = "out" /\ timeout = 0 /\ lba = 0 /\ count = 0
  /\ buffer = <<>> /\ result = 0 /\ taken = FALSE

ata_read_sectors(l, c) ==
  /\ pc = "out"
  /\ pc' = "wait_busy" /\ timeout' = TIMEOUT
  /\ lba' = l /\ count' = c /\ buffer' = <<>>
  /\ UNCHANGED <<disk, result, taken>>

(* A poll that has to be repeated: while the disk is busy, and, waiting    *)
(* for data, also while it is not and has none.  (Variants, named after    *)
(* what is wrong in them, belong to no behaviour.)                         *)
poll_again_WithoutCounting ==
  /\ timeout > 0
  /\ \/ pc = "wait_busy" /\ disk.status = "busy"
     \/ pc = "wait_drq" /\ disk.status \in {"busy", "quiet"}
  /\ UNCHANGED ataVars
poll_again ==
  /\ timeout > 0
  /\ \/ pc = "wait_busy" /\ disk.status = "busy"
     \/ pc = "wait_drq" /\ disk.status \in {"busy", "quiet"}
  /\ timeout' = timeout - 1
  /\ UNCHANGED <<disk, pc, lba, count, buffer, result, taken>>

return_with(r) == pc' = "back" /\ result' = r /\ UNCHANGED timeout
sector_loop == pc' = "wait_drq" /\ timeout' = TIMEOUT /\ UNCHANGED result

(* Not busy: address, count (each cut to its registers) and command go     *)
(* out.  DRQ is not looked at.  A count of 0 is done at once.              *)
send_command_WithoutCount ==
  /\ pc = "wait_busy" /\ timeout > 0 /\ disk.status # "busy"
  /\ disk_command(lba % LBA28, 0)
  /\ IF count = 0 THEN return_with(0) ELSE sector_loop
  /\ UNCHANGED <<lba, count, buffer>>
send_command_DoWhile ==
  /\ pc = "wait_busy" /\ timeout > 0 /\ disk.status # "busy"
  /\ disk_command(lba % LBA28, count % COUNT8)
  /\ sector_loop
  /\ UNCHANGED <<lba, count, buffer>>
send_command ==
  /\ pc = "wait_busy" /\ timeout > 0 /\ disk.status # "busy"
  /\ disk_command(lba % LBA28, count % COUNT8)
  /\ IF count = 0 THEN return_with(0) ELSE sector_loop
  /\ UNCHANGED <<lba, count, buffer>>

read_sector_WithoutDrq ==
  /\ pc = "wait_drq" /\ timeout > 0
  /\ buffer' = Append(buffer, IF disk.status = "drq" THEN disk.at ELSE GARBAGE)
  /\ disk' = disk_after_data
  /\ IF Len(buffer) + 1 >= count THEN return_with(0) ELSE sector_loop
  /\ UNCHANGED <<lba, count, taken>>
read_sector ==
  /\ pc = "wait_drq" /\ timeout > 0 /\ disk.status = "drq"
  /\ buffer' = Append(buffer, disk.at)
  /\ disk' = disk_after_data
  /\ IF Len(buffer) + 1 >= count THEN return_with(0) ELSE sector_loop
  /\ UNCHANGED <<lba, count, taken>>

(* The error bit, or the polls used up; whatever the disk is doing, it     *)
(* goes on doing.                                                          *)
read_error ==
  /\ pc = "wait_drq" /\ timeout > 0 /\ disk.status = "err"
  /\ return_with(-1)
  /\ UNCHANGED <<disk, lba, count, buffer, taken>>
give_up ==
  /\ pc \in {"wait_busy", "wait_drq"} /\ timeout = 0
  /\ return_with(-1)
  /\ UNCHANGED <<disk, lba, count, buffer, taken>>

driver_step == poll_again \/ send_command \/ read_sector \/ read_error \/ give_up

(* The caller has what it wanted; the locals of the call are gone. *)
caller_goes_on ==
  /\ pc = "back"
  /\ pc' = "out" /\ timeout' = 0 /\ lba' = 0 /\ count' = 0
  /\ buffer' = <<>> /\ result' = 0 /\ taken' = FALSE
  /\ UNCHANGED disk

AtaNext == \/ \E l \in Lbas, c \in Counts : ata_read_sectors(l, c)
        \/ driver_step \/ disk_step \/ caller_goes_on

(* The driver's instructions are executed; the disk owes nothing. *)
AtaSpec == AtaInit /\ [][AtaNext]_ataVars /\ WF_ataVars(driver_step) /\ WF_ataVars(caller_goes_on)
-----------------------------------------------------------------------------
AtaTypeOK ==
  /\ disk \in [status : {"quiet", "busy", "drq", "err"}, at : Nat, left : 0..COUNT8]
  /\ disk.status = "drq" => disk.at < BLOCKS /\ disk.left > 0
  /\ pc \in {"out", "wait_busy", "wait_drq", "back"}
  /\ timeout \in 0..TIMEOUT /\ lba \in Nat /\ count \in Nat /\ taken \in BOOLEAN
  /\ buffer \in Seq(0..(BLOCKS - 1)) /\ Len(buffer) <= count
  /\ result \in {0, -1}
=============================================================================
