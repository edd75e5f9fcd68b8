-------------------------------- MODULE Disk --------------------------------
(***************************************************************************)
(* Disks (disk.c) and the one driver there is, a disk in memory            *)
(* (memdisk.c).  A disk is [cells, read_only]: its bytes and whether it    *)
(* can be written.  Offsets and sectors count from 0.                      *)
(***************************************************************************)
EXTENDS Integers, Sequences

CONSTANT SECTOR     \* bytes per sector: MEMDISK_SEC_SIZE, USTAR_SEC_SIZE

ASSUME SectorAssumption == SECTOR \in Nat \ {0}

LOCAL Min2(a, b) == IF a < b THEN a ELSE b

ceil_x_over_y(x, y) == (x + y - 1) \div y

\* The length of `cells` is a multiple of SECTOR, or create_memdisk() panics.
create_memdisk(cells, read_only) == [cells |-> cells, read_only |-> read_only]

-----------------------------------------------------------------------------
(* The driver: a whole sector or nothing. *)

HasSector(disk, sector) == sector < ceil_x_over_y(Len(disk.cells), SECTOR)

read_sector(disk, sector) ==
    IF HasSector(disk, sector) THEN SubSeq(disk.cells, sector * SECTOR + 1, (sector + 1) * SECTOR) ELSE <<>>

CanWrite(disk, sector) == ~disk.read_only /\ HasSector(disk, sector)

write_sector(disk, sector, data) ==
    [disk EXCEPT !.cells = [i \in DOMAIN @ |->
        IF (i - 1) \div SECTOR = sector THEN data[1 + ((i - 1) % SECTOR)] ELSE @[i]]]

-----------------------------------------------------------------------------
(* Reads and writes of any range.  The loops go from sector to sector; an  *)
(* iteration starts after `done` bytes.                                    *)

offset_to_sector(offset) == offset \div SECTOR

\* The sector that holds the next byte of a read or a write.
NextSector(offset, done) == offset_to_sector(offset + done)

\* disk_read(): the bytes that the next sector contributes, none at the end of
\* the disk.
ReadFrom(disk, offset, len, done) ==
    LET data  == read_sector(disk, NextSector(offset, done))
        start == (offset + done) % SECTOR
    IN  IF data = <<>> THEN <<>> ELSE SubSeq(data, start + 1, start + Min2(len - done, SECTOR - start))

\* disk_write(): the first and the last sector may be updated in part, and are
\* then read first.
IsPartial(offset, len, done) ==
    \/ done = 0 /\ offset % SECTOR # 0
    \/ NextSector(offset, done) = offset_to_sector(offset + len - 1) /\ (offset + len) % SECTOR # 0

\* The number of bytes that the next sector takes.
Chunk(offset, len, done) == Min2(SECTOR - ((offset + done) % SECTOR), len - done)

\* Mutant: the bytes are placed from the start of the sector.
PatchedAtStart(curr, data, offset, done) ==
    [i \in DOMAIN curr |-> IF i <= Len(data) THEN data[i] ELSE curr[i]]

\* The sector `curr` with `data` in it.
Patched(curr, data, offset, done) ==
    LET c_off == (offset + done) % SECTOR
    IN  [i \in DOMAIN curr |-> IF i \in c_off + 1 .. c_off + Len(data) THEN data[i - c_off] ELSE curr[i]]

=============================================================================
