------------------------------- MODULE Files --------------------------------
(***************************************************************************)
(* The virtual filesystem (vfs.c), the system calls on files (syscalls.c)  *)
(* and what a process does to its files when it is deleted (proc.c), over  *)
(* the disks of Disk.tla and the archives of Ustar.tla.                    *)
(*                                                                         *)
(* A critical section of MOUNTS_LOCK is one step.  OPENED_FILES_LOCK is    *)
(* held over several, so it has a holder, and so has the lock of a file,   *)
(* whose promise is AbstractRwLock.tla.  Sectors are read and written one  *)
(* step at a time.  A call that cannot go on stops the kernel: `halted`    *)
(* says whether it panicked or used memory that had been freed.            *)
(***************************************************************************)
EXTENDS Ustar, FiniteSets, FiniteSetsExt

CONSTANTS Procs, NoProc,
          Archives,     \* the bytes of each disk
          Initrd,       \* the disk that is the initrd, read only
          MountPoints, Paths,
          MAX_FDS, FileIds,
          Values, Lengths,      \* what a process writes, and how much it reads or writes
          MaxOps, MaxMountOps   \* bounds: system calls on files, calls on the mounts

ASSUME FilesAssumption ==
    /\ NoProc \notin Procs /\ IsFiniteSet(Procs)
    /\ MAX_FDS \in Nat
    /\ FileIds \subseteq Nat \ {0}      \* 0 is NoFile

VARIABLES disks, initrd,    \* the disks; is INIT_RD_MEMDISK set?
          mounts, mountOps, \* MOUNTS
          files, opened,    \* the struct files, OPENED_FILES
          oflock,           \* who holds OPENED_FILES_LOCK
          file_table,       \* of each process
          call, ops,        \* the call that each process is in, the number of calls
          halted,
          contents          \* history: the disks as the completed writes leave them

vars == <<disks, initrd, mounts, mountOps, files, opened, oflock, file_table, call, ops, halted, contents>>

Disks == DOMAIN Archives
Fds == 0 .. MAX_FDS - 1
NoFile == 0
Idle == [pc |-> "idle", path |-> <<>>, mount |-> 0, file |-> NoFile, fd |-> 0, len |-> 0, val |-> 0, done |-> 0, buf |-> <<>>]
NoEntry == [file |-> NoFile, file_pointer |-> 0]
FreeFile == [path |-> <<>>, rel |-> <<>>, disk |-> Initrd, data |-> [header_offset |-> 0, file_len |-> 0],
             open_ref_count |-> 0, readers |-> {}, writers |-> {}]

\* Where the archive of a disk has the k-th header, counting from 1, and the file
\* behind it.
HeaderCell(d, k) == CHOOSE i \in DOMAIN Archives[d] : Archives[d][i] = -k
FilesOf(d) == {k \in DOMAIN Headers : is_file(Headers[k]) /\ \E i \in DOMAIN Archives[d] : Archives[d][i] = -k}
FirstCell(d, k) == HeaderCell(d, k) + SECTOR
DataCells(d, k) == FirstCell(d, k) .. FirstCell(d, k) + Size(Headers[k]) - 1

Init ==
    /\ disks = [d \in Disks |-> create_memdisk(Archives[d], d = Initrd)]
    /\ initrd = FALSE
    /\ mounts = <<>> /\ mountOps = 0
    /\ files = [f \in FileIds |-> FreeFile]
    /\ opened = <<>> /\ oflock = NoProc
    /\ file_table = [p \in Procs |-> [fd \in Fds |-> NoEntry]]
    /\ call = [p \in Procs |-> Idle]
    /\ ops = 0
    /\ halted = "no"
    /\ contents = Archives

\* The kernel stops, and with it the calls.
Halt(why) ==
    /\ halted' = why
    /\ call' = [p \in Procs |-> Idle]
    /\ file_table' = [p \in Procs |-> [fd \in Fds |-> NoEntry]]
    /\ ops' = 0
    /\ UNCHANGED <<disks, initrd, mounts, mountOps, files, opened, oflock, contents>>

At(p, pc) == halted = "no" /\ call[p].pc = pc

Goto(p, pc) == call' = [call EXCEPT ![p].pc = pc]

Return(p) == call' = [call EXCEPT ![p] = Idle]

-----------------------------------------------------------------------------
(* Mounts. *)

\* get_initrd_disk(): the disk is created by the first call, unless its pages
\* cannot be mapped or there is no memory for it.
get_initrd_disk ==
    /\ halted = "no" /\ mountOps < MaxMountOps /\ ~initrd
    /\ mountOps' = mountOps + 1
    /\ initrd' \in BOOLEAN
    /\ UNCHANGED <<disks, mounts, files, opened, oflock, file_table, call, ops, halted, contents>>

IsMounted(id) == \E i \in DOMAIN mounts : mounts[i].id = id

MountWithId(id) == mounts[CHOOSE i \in DOMAIN mounts : mounts[i].id = id]

\* vfs_mount().  A disk has one mount at a time, and none of its files is open
\* when it gets one: the same data under two paths is what vfs.h excludes.
vfs_mount(d, point) ==
    /\ halted = "no" /\ mountOps < MaxMountOps
    /\ d = Initrd => initrd
    /\ \A i \in DOMAIN mounts : mounts[i].disk # d
    /\ \A i \in DOMAIN opened : files[opened[i]].disk # d
    /\ mountOps' = mountOps + 1
    /\ \/ /\ ustar_detect_fs(disks[d])
          /\ \A i \in DOMAIN mounts : mounts[i].mount_point # point
          /\ mounts' = Append(mounts, [id |-> mountOps', mount_point |-> point, disk |-> d])
       \/ UNCHANGED mounts      \* an error: no memory, no filesystem or a point in use
    /\ UNCHANGED <<disks, initrd, files, opened, oflock, file_table, call, ops, halted, contents>>

\* list_del() of the i-th element of a list.
list_del(list, i) == SubSeq(list, 1, i - 1) \o SubSeq(list, i + 1, Len(list))

\* vfs_unmount(), which does nothing when there is no mount at all.  When no mount
\* matches, the loop ends on the head of the list, which is then freed.
vfs_unmount(point) ==
    LET found == {i \in DOMAIN mounts : mounts[i].mount_point = point}
    IN  /\ halted = "no" /\ mountOps < MaxMountOps /\ mounts # <<>>
        /\ IF found = {} THEN Halt("panic")
           ELSE /\ mountOps' = mountOps + 1
                /\ mounts' = list_del(mounts, Min(found))
                /\ UNCHANGED <<disks, initrd, files, opened, oflock, file_table, call, ops, halted, contents>>

is_under_mount(mount, path) ==
    /\ Len(mount.mount_point) <= Len(path)
    /\ mount.mount_point = SubSeq(path, 1, Len(mount.mount_point))

\* The mount with the longest mount point above the path: mount points differ, so
\* there is one such mount at most.
MountsFor(path) ==
    {i \in DOMAIN mounts :
        /\ is_under_mount(mounts[i], path)
        /\ \A j \in DOMAIN mounts :
              is_under_mount(mounts[j], path) => Len(mounts[j].mount_point) <= Len(mounts[i].mount_point)}

find_mount_for_file(path) == mounts[CHOOSE i \in MountsFor(path) : TRUE]

-----------------------------------------------------------------------------
(* open *)

Unlocked == oflock = NoProc

do_open(p, path) ==
    /\ At(p, "idle") /\ ops < MaxOps
    /\ ops' = ops + 1
    /\ call' = [call EXCEPT ![p] = [Idle EXCEPT !.pc = "lookup", !.path = path]]
    /\ UNCHANGED <<disks, initrd, mounts, mountOps, files, opened, oflock, file_table, halted, contents>>

\* The elements of OPENED_FILES with the path: the list is searched from its head.
lookup_file(path) == {i \in DOMAIN opened : files[opened[i]].path = path}

\* Mutant: the reference is not counted.
LookupNotCounted(p) ==
    LET found == lookup_file(call[p].path)
    IN  /\ At(p, "lookup") /\ Unlocked
        /\ IF found # {}
           THEN /\ call' = [call EXCEPT ![p] = [@ EXCEPT !.pc = "install", !.file = opened[Min(found)]]]
                /\ UNCHANGED <<files, oflock>>
           ELSE /\ oflock' = p
                /\ Goto(p, "mount")
                /\ UNCHANGED files
        /\ UNCHANGED <<disks, initrd, mounts, mountOps, opened, file_table, ops, halted, contents>>

lookup_file_or_open(p) ==
    LET found == lookup_file(call[p].path)
    IN  /\ At(p, "lookup") /\ Unlocked
        /\ IF found # {}
           THEN /\ files' = [files EXCEPT ![opened[Min(found)]].open_ref_count = @ + 1]
                /\ call' = [call EXCEPT ![p] = [@ EXCEPT !.pc = "install", !.file = opened[Min(found)]]]
                /\ UNCHANGED oflock
           ELSE /\ oflock' = p
                /\ Goto(p, "mount")
                /\ UNCHANGED files
        /\ UNCHANGED <<disks, initrd, mounts, mountOps, opened, file_table, ops, halted, contents>>

\* A NULL from vfs_open() fails the ASSERT of do_open().
OpenFindMount(p) ==
    /\ At(p, "mount")
    /\ IF MountsFor(call[p].path) = {} THEN Halt("panic")
       ELSE /\ call' = [call EXCEPT ![p] = [@ EXCEPT !.pc = "create", !.mount = find_mount_for_file(call[p].path).id]]
            /\ UNCHANGED <<disks, initrd, mounts, mountOps, files, opened, oflock, file_table, ops, halted, contents>>

\* The struct files not in use.
FreeFiles == {f \in FileIds : files[f].open_ref_count = 0}

\* The rest of open_file() and of lookup_file_or_open(), with mount m.
CreateFile(p, m) ==
    LET rel == SubSeq(call[p].path, Len(m.mount_point) + 1, Len(call[p].path))
        new == Min(FreeFiles)
    IN  IF find_file(disks[m.disk], rel) = NOT_FOUND THEN Halt("panic")
        ELSE /\ files' = [files EXCEPT ![new] =
                    [FreeFile EXCEPT !.path = call[p].path, !.rel = rel, !.disk = m.disk,
                                     !.data = ustar_open_file(disks[m.disk], rel), !.open_ref_count = 1]]
             /\ opened' = <<new>> \o opened
             /\ oflock' = NoProc
             /\ call' = [call EXCEPT ![p] = [@ EXCEPT !.pc = "install", !.file = new]]
             /\ UNCHANGED <<disks, initrd, mounts, mountOps, file_table, ops, halted, contents>>

\* The mount was found before: it may have been freed since.  FileIds bounds the
\* number of struct files.
open_file(p) ==
    /\ At(p, "create") /\ FreeFiles # {}
    /\ IF ~IsMounted(call[p].mount) THEN Halt("use after free")
       ELSE CreateFile(p, MountWithId(call[p].mount))

\* The end of do_open(): the first free entry of the file table.
OpenInstall(p) ==
    LET free == {fd \in Fds : file_table[p][fd] = NoEntry}
    IN  /\ At(p, "install")
        /\ IF free = {} THEN Halt("panic")
           ELSE /\ file_table' = [file_table EXCEPT ![p][Min(free)] = [file |-> call[p].file, file_pointer |-> 0]]
                /\ Return(p)
                /\ UNCHANGED <<disks, initrd, mounts, mountOps, files, opened, oflock, ops, halted, contents>>

-----------------------------------------------------------------------------
(* read and write *)

Entry(p) == file_table[p][call[p].fd]
Data(p) == files[call[p].file].data
\* The range on the disk of the access of p: where it starts and what remains of
\* it inside the file.
Offset(p) == DiskOffset(Data(p), Entry(p).file_pointer)
AccessLen(p) == UpdateLen(Data(p), Entry(p).file_pointer, call[p].len)
DiskOf(p) == files[call[p].file].disk

\* do_read() and do_write(), up to the lock of the file.
Access(p, fd, pc, len, val) ==
    /\ At(p, "idle") /\ ops < MaxOps
    /\ file_table[p][fd] # NoEntry
    /\ ops' = ops + 1
    /\ call' = [call EXCEPT ![p] = [Idle EXCEPT !.pc = pc, !.fd = fd, !.file = file_table[p][fd].file, !.len = len, !.val = val]]
    /\ UNCHANGED <<disks, initrd, mounts, mountOps, files, opened, oflock, file_table, halted, contents>>

do_read(p, fd, len) == Access(p, fd, "readlock", len, 0)
do_write(p, fd, len, val) == Access(p, fd, "writelock", len, val)

\* Mutant: the file is read without its lock.
ReadUnlocked(p) ==
    /\ At(p, "readlock")
    /\ Goto(p, "read")
    /\ UNCHANGED <<disks, initrd, mounts, mountOps, files, opened, oflock, file_table, ops, halted, contents>>

vfs_read(p) ==
    /\ At(p, "readlock") /\ files[call[p].file].writers = {}
    /\ files' = [files EXCEPT ![call[p].file].readers = @ \cup {p}]
    /\ Goto(p, "read")
    /\ UNCHANGED <<disks, initrd, mounts, mountOps, opened, oflock, file_table, ops, halted, contents>>

ReadSector(p) ==
    LET got == ReadFrom(disks[DiskOf(p)], Offset(p), AccessLen(p), call[p].done)
    IN  /\ At(p, "read") /\ call[p].done < AccessLen(p)
        /\ call' = [call EXCEPT ![p] = [@ EXCEPT !.done = @ + Len(got), !.buf = @ \o got,
                                              !.pc = IF got = <<>> THEN "readdone" ELSE "read"]]
        /\ UNCHANGED <<disks, initrd, mounts, mountOps, files, opened, oflock, file_table, ops, halted, contents>>

ReadEnd(p) ==
    /\ At(p, "read") /\ call[p].done = AccessLen(p)
    /\ Goto(p, "readdone")
    /\ UNCHANGED <<disks, initrd, mounts, mountOps, files, opened, oflock, file_table, ops, halted, contents>>

\* Mutant: the lock is not released.
ReadStillLocked(p) ==
    /\ At(p, "readdone")
    /\ file_table' = [file_table EXCEPT ![p][call[p].fd].file_pointer = @ + call[p].done]
    /\ Return(p)
    /\ UNCHANGED <<disks, initrd, mounts, mountOps, files, opened, oflock, ops, halted, contents>>

ReadReturn(p) ==
    /\ At(p, "readdone")
    /\ files' = [files EXCEPT ![call[p].file].readers = @ \ {p}]
    /\ file_table' = [file_table EXCEPT ![p][call[p].fd].file_pointer = @ + call[p].done]
    /\ Return(p)
    /\ UNCHANGED <<disks, initrd, mounts, mountOps, opened, oflock, ops, halted, contents>>

vfs_write(p) ==
    /\ At(p, "writelock") /\ files[call[p].file].writers = {} /\ files[call[p].file].readers = {}
    /\ files' = [files EXCEPT ![call[p].file].writers = {p}]
    /\ Goto(p, "write")
    /\ UNCHANGED <<disks, initrd, mounts, mountOps, opened, oflock, file_table, ops, halted, contents>>

Sector(p) == NextSector(Offset(p), call[p].done)
NewBytes(p) == [i \in 1 .. Chunk(Offset(p), AccessLen(p), call[p].done) |-> call[p].val]

\* disk_write() of the sector `data`; the write ends early when it fails.
PutSector(p, data) ==
    LET disk == disks[DiskOf(p)]
    IN  IF CanWrite(disk, Sector(p))
        THEN /\ disks' = [disks EXCEPT ![DiskOf(p)] = write_sector(disk, Sector(p), data)]
             /\ call' = [call EXCEPT ![p] = [@ EXCEPT !.done = @ + Len(NewBytes(p)), !.buf = <<>>, !.pc = "write"]]
        ELSE /\ Goto(p, "writedone")
             /\ UNCHANGED disks

WriteWholeSector(p) ==
    /\ At(p, "write") /\ call[p].done < AccessLen(p)
    /\ ~IsPartial(Offset(p), AccessLen(p), call[p].done)
    /\ PutSector(p, NewBytes(p))
    /\ UNCHANGED <<initrd, mounts, mountOps, files, opened, oflock, file_table, ops, halted, contents>>

\* A partial sector is read in one step and written back in another.
ReadPartialSector(p) ==
    LET curr == read_sector(disks[DiskOf(p)], Sector(p))
    IN  /\ At(p, "write") /\ call[p].done < AccessLen(p)
        /\ IsPartial(Offset(p), AccessLen(p), call[p].done)
        /\ call' = [call EXCEPT ![p] = [@ EXCEPT !.buf = curr, !.pc = IF curr = <<>> THEN "writedone" ELSE "writeback"]]
        /\ UNCHANGED <<disks, initrd, mounts, mountOps, files, opened, oflock, file_table, ops, halted, contents>>

WriteBack(p) ==
    /\ At(p, "writeback")
    /\ PutSector(p, Patched(call[p].buf, NewBytes(p), Offset(p), call[p].done))
    /\ UNCHANGED <<initrd, mounts, mountOps, files, opened, oflock, file_table, ops, halted, contents>>

WriteEnd(p) ==
    /\ At(p, "write") /\ call[p].done = AccessLen(p)
    /\ Goto(p, "writedone")
    /\ UNCHANGED <<disks, initrd, mounts, mountOps, files, opened, oflock, file_table, ops, halted, contents>>

\* The file of the archive that a struct file stands for.
ArchiveFile(f) == {k \in FilesOf(files[f].disk) : fullname(Headers[k]) = files[f].rel}

WriteReturn(p) ==
    LET from == Entry(p).file_pointer
        f    == call[p].file
    IN  /\ At(p, "writedone")
        /\ files' = [files EXCEPT ![f].writers = {}]
        /\ file_table' = [file_table EXCEPT ![p][call[p].fd].file_pointer = @ + call[p].done]
        /\ contents' = [contents EXCEPT ![DiskOf(p)] = [i \in DOMAIN @ |->
              IF \E k \in ArchiveFile(f) : i - FirstCell(DiskOf(p), k) \in from .. from + call[p].done - 1
              THEN call[p].val ELSE @[i]]]
        /\ Return(p)
        /\ UNCHANGED <<disks, initrd, mounts, mountOps, opened, oflock, ops, halted>>

-----------------------------------------------------------------------------
(* The end of a process *)

\* delete_proc(), after do_exit(); p then stands for the next process.
delete_proc(p) ==
    /\ At(p, "idle")
    /\ \E fd \in Fds : file_table[p][fd] # NoEntry
    /\ Goto(p, "close")
    /\ UNCHANGED <<disks, initrd, mounts, mountOps, files, opened, oflock, file_table, ops, halted, contents>>

OpenFds(p) == {fd \in Fds : file_table[p][fd] # NoEntry}

ClosesNext(p, fd) == IF OpenFds(p) = {fd} THEN "idle" ELSE "close"

\* vfs_close() on the next file of the table.  The last reference takes the file
\* out of OPENED_FILES and needs the mount of the file, which must exist.
vfs_close(p) ==
    LET fd   == Min(OpenFds(p))
        f    == file_table[p][fd].file
        last == files[f].open_ref_count = 1
    IN  /\ At(p, "close") /\ Unlocked
        /\ IF last /\ MountsFor(files[f].path) = {} THEN Halt("panic")
           ELSE /\ IF last
                   THEN /\ opened' = list_del(opened, CHOOSE i \in DOMAIN opened : opened[i] = f)
                        /\ oflock' = p
                        /\ call' = [call EXCEPT ![p] = [@ EXCEPT !.pc = "closefile", !.fd = fd, !.file = f,
                                                              !.mount = find_mount_for_file(files[f].path).id]]
                        /\ UNCHANGED <<files, file_table>>
                   ELSE /\ files' = [files EXCEPT ![f].open_ref_count = @ - 1]
                        /\ file_table' = [file_table EXCEPT ![p][fd] = NoEntry]
                        /\ call' = [call EXCEPT ![p] = [Idle EXCEPT !.pc = ClosesNext(p, fd)]]
                        /\ UNCHANGED <<opened, oflock>>
                /\ UNCHANGED <<disks, initrd, mounts, mountOps, ops, halted, contents>>

\* The rest of close_file(), under the lock of the file.
close_file(p) ==
    LET f == call[p].file
    IN  /\ At(p, "closefile")
        /\ files[f].readers = {} /\ files[f].writers = {}
        /\ IF ~IsMounted(call[p].mount) THEN Halt("use after free")
           ELSE /\ files' = [files EXCEPT ![f] = FreeFile]
                /\ oflock' = NoProc
                /\ file_table' = [file_table EXCEPT ![p][call[p].fd] = NoEntry]
                /\ call' = [call EXCEPT ![p] = [Idle EXCEPT !.pc = ClosesNext(p, call[p].fd)]]
                /\ UNCHANGED <<disks, initrd, mounts, mountOps, opened, ops, halted, contents>>

-----------------------------------------------------------------------------
(* The ways a call stops the kernel. *)

\* Entry 0 is empty.
SYSCALL_MAP == <<"exit", "open", "read", "get_pid", "write", "klog">>

syscall_dispatch(p, nr) ==
    /\ At(p, "idle") /\ ops < MaxOps
    /\ nr \notin DOMAIN SYSCALL_MAP
    /\ Halt("panic")

\* A read or a write of a file that is not open.
BadFd(p, fd) == At(p, "idle") /\ ops < MaxOps /\ file_table[p][fd] = NoEntry /\ Halt("panic")

\* kmalloc() returns NULL: every caller here gives up.
NoMemory(p) ==
    /\ halted = "no"
    /\ \/ call[p].pc \in {"lookup", "create", "install"}
       \/ call[p].pc = "read" /\ call[p].done = 0 /\ AccessLen(p) > 0
       \/ call[p].pc = "write" /\ call[p].done < AccessLen(p) /\ IsPartial(Offset(p), AccessLen(p), call[p].done)
    /\ Halt("panic")

-----------------------------------------------------------------------------
Syscall(p) ==
    \/ \E path \in Paths : do_open(p, path)
    \/ \E fd \in Fds, len \in Lengths : do_read(p, fd, len)
    \/ \E fd \in Fds, len \in Lengths, val \in Values : do_write(p, fd, len, val)
    \/ delete_proc(p)
    \/ \E nr \in 0 .. Len(SYSCALL_MAP) + 1 : syscall_dispatch(p, nr)
    \/ \E fd \in Fds : BadFd(p, fd)

\* The steps of a call that was started.
Step(p) ==
    \/ lookup_file_or_open(p) \/ OpenFindMount(p) \/ open_file(p) \/ OpenInstall(p)
    \/ vfs_read(p) \/ ReadSector(p) \/ ReadEnd(p) \/ ReadReturn(p)
    \/ vfs_write(p) \/ WriteWholeSector(p) \/ ReadPartialSector(p) \/ WriteBack(p) \/ WriteEnd(p) \/ WriteReturn(p)
    \/ vfs_close(p) \/ close_file(p)

MountStep ==
    \/ get_initrd_disk
    \/ \E d \in Disks, point \in MountPoints : vfs_mount(d, point)
    \/ \E point \in MountPoints : vfs_unmount(point)

Next == MountStep \/ \E p \in Procs : Syscall(p) \/ Step(p) \/ NoMemory(p)

Spec == Init /\ [][Next]_vars

-----------------------------------------------------------------------------
(* What must hold, as long as the kernel has not stopped. *)

Running == halted = "no"

\* The references to a struct file: entries of file tables, and calls of do_open()
\* that have the file but no entry yet.
References(f) ==
    {ref \in Procs \X Fds : file_table[ref[1]][ref[2]].file = f}
        \cup {<<p, MAX_FDS>> : p \in {q \in Procs : call[q].pc = "install" /\ call[q].file = f}}

\* "there is only ONE struct file* per pathname" (vfs.c:187), each one counts its
\* references, and it is freed with the last of them and not before: lookup, open
\* and close by several processes, in any order.
OneFilePerPath ==
    Running =>
      /\ \A i, j \in DOMAIN opened : files[opened[i]].path = files[opened[j]].path => i = j
      /\ \A f \in FileIds : files[f].open_ref_count = Cardinality(References(f))
      /\ \A f \in FileIds : files[f].open_ref_count > 0 =>
            \/ \E i \in DOMAIN opened : opened[i] = f
            \/ \E p \in Procs : call[p].pc = "closefile" /\ call[p].file = f

Writing(d, i) ==
    \E p \in Procs : /\ call[p].pc \in {"write", "writeback", "writedone"}
                     /\ DiskOf(p) = d
                     /\ \E k \in ArchiveFile(call[p].file) : i \in DataCells(d, k)

\* A file that nobody is writing has exactly the bytes that the completed writes
\* gave it, and no write, of whole sectors or of parts of sectors, ever changes
\* the other files, the headers, the padding or the initrd (disk_write(),
\* ustar_do_file_update()).
WritesExact ==
    Running =>
      /\ \A d \in Disks : \A i \in DOMAIN contents[d] : disks[d].cells[i] = contents[d][i] \/ Writing(d, i)
      /\ disks[Initrd].cells = Archives[Initrd]

\* A read returns what the completed writes left in the file, from the file
\* pointer on, never a mixture with a write in progress, and stops at the end of
\* the file (vfs_read(), disk_read()).
ReadsExact ==
    \A p \in Procs : Running /\ call[p].pc = "readdone" =>
        \A k \in ArchiveFile(call[p].file) :
            LET from == FirstCell(DiskOf(p), k) + Entry(p).file_pointer
                end  == FirstCell(DiskOf(p), k) + Size(Headers[k])
            IN  call[p].buf = SubSeq(contents[DiskOf(p)], from, Min({from + call[p].len, end}) - 1)

\* p waits for a lock: OPENED_FILES_LOCK, or the lock of a file.
Waits(p) ==
    \/ call[p].pc \in {"lookup", "close"} /\ ~Unlocked
    \/ call[p].pc \in {"readlock", "writelock", "closefile"} /\ files[call[p].file].writers # {}
    \/ call[p].pc \in {"writelock", "closefile"} /\ files[call[p].file].readers # {}

\* Calls never wait for each other in a circle, nor for a lock that nobody will
\* release: a lock is held by a process inside the section it protects only, and
\* some call can always go on.  vfs_close() takes the lock of a file under
\* OPENED_FILES_LOCK.
NobodyStuck ==
    Running =>
      /\ \A p \in Procs : oflock = p => call[p].pc \in {"mount", "create", "closefile"}
      /\ \A f \in FileIds, p \in Procs :
            /\ p \in files[f].readers => call[p].file = f /\ call[p].pc \in {"read", "readdone"}
            /\ p \in files[f].writers => call[p].file = f /\ call[p].pc \in {"write", "writeback", "writedone"}
      /\ (\A p \in Procs : call[p].pc # "idle" => Waits(p)) => \A p \in Procs : call[p].pc = "idle"

=============================================================================
