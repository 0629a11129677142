--------------------------- MODULE InitrdFsClaims ----------------------------
(***************************************************************************)
(* What the file system says of its reads and the code does not do, stated *)
(* as an invariant of InitrdFs for TLC to refute.                          *)
(***************************************************************************)
EXTENDS MCInitrdFs

(* "read from sector 1 (skip boot sector)": no caller of initrd_read gets  *)
(* bytes of sector 0.  One does when the read of that sector in mount was  *)
(* given up, the disk came to have it after all, and took no new command   *)
(* before it was fetched: ata_wait_busy looks at BSY only.                 *)
BootSectorIsSkipped ==
  answer.call.of = "read" => \A i \in 1..Len(answer.bytes) : answer.bytes[i] >= BYTES
=============================================================================
