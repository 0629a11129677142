----------------------------- MODULE MCInitrdFs ------------------------------
(***************************************************************************)
(* A disk of three sectors of four bytes, registers of two bits for the    *)
(* address and one for the count, for TLC.  The name too_long is cut to    *)
(* too_lon.                                                                *)
(***************************************************************************)
EXTENDS InitrdFs

CONSTANTS too_long, too_lon, other

MCNames      == {BLOCK_STORAGE, FILE_SYSTEM, too_long, too_lon}
MCInterfaces == {ata_storage, ata_improved, ata_simple, initrd_fs, other}
MCOffers     == {<<BLOCK_STORAGE, other>>, <<too_long, other>>,
                 <<too_lon, initrd_fs>>}
MCStored     == [n \in MCNames |-> IF n = too_long THEN too_lon ELSE n]
=============================================================================
