------------------------------- MODULE Ustar --------------------------------
(***************************************************************************)
(* The USTAR filesystem (ustar.c): a TAR archive on a disk, that is, files *)
(* one after the other, each a header of one sector and the sectors of its *)
(* data.  A header is [prefix, filename, type, filesize, indicator]; names *)
(* are sequences of path components, the size is a string of octal digits. *)
(* On disk the first byte of a header is -k for the k-th of Headers; a     *)
(* sector that starts with 0 is the header of the end of the archive.      *)
(***************************************************************************)
EXTENDS Disk

CONSTANT Headers

NOT_FOUND == -1

ZeroHeader == [prefix |-> <<>>, filename |-> <<>>, type |-> "NUL", filesize |-> <<>>, indicator |-> ""]

HeaderAt(cell) == IF cell < 0 THEN Headers[-cell] ELSE ZeroHeader

is_file(hdr) == hdr.type \in {"0", "NUL"}

octal_string_to_u64(digits) ==
    LET res[i \in 0 .. Len(digits)] == IF i = 0 THEN 0 ELSE res[i - 1] * 8 + digits[i]
    IN  res[Len(digits)]

\* Headers are read whole, or the disk has ended.
HasHeader(disk, offset) == HasSector(disk, offset_to_sector(offset))
read_header(disk, offset) == HeaderAt(read_sector(disk, offset_to_sector(offset))[1])

fullname(hdr) == hdr.prefix \o hdr.filename

Size(hdr) == octal_string_to_u64(hdr.filesize)

\* What find_file() skips: the header, and the data of a file.
Skipped(hdr) == SECTOR + (IF is_file(hdr) THEN ceil_x_over_y(Size(hdr), SECTOR) * SECTOR ELSE 0)

find_file(disk, path) ==
    LET from[offset \in Nat] ==
            IF ~HasHeader(disk, offset) THEN NOT_FOUND
            ELSE IF fullname(read_header(disk, offset)) = path THEN offset
            ELSE from[offset + Skipped(read_header(disk, offset))]
    IN  from[0]

ustar_detect_fs(disk) == HasHeader(disk, 0) /\ read_header(disk, 0).indicator = "ustar"

\* struct ustar_file_private_data, for a file that was found.
ustar_open_file(disk, path) ==
    LET offset == find_file(disk, path)
    IN  [header_offset |-> offset, file_len |-> Size(read_header(disk, offset))]

\* ustar_do_file_update(): what an access of `len` bytes at `offset` comes to, an
\* offset on the disk and a number of bytes.  Files are never extended.
DiskOffset(data, offset) == data.header_offset + SECTOR + offset

UpdateLen(data, offset, len) ==
    IF offset >= data.file_len THEN 0 ELSE IF data.file_len - offset < len THEN data.file_len - offset ELSE len

=============================================================================
