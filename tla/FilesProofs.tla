----------------------------- MODULE FilesProofs -----------------------------
(***************************************************************************)
(* Proofs about Files.tla: the struct files, their reference counts, the   *)
(* list of opened files and the locks, for any number of processes, files, *)
(* disks and mounts.                                                       *)
(***************************************************************************)
EXTENDS Files, FiniteSetTheorems, WellFoundedInduction, TLAPS

Pcs == {"idle", "lookup", "mount", "create", "install", "readlock", "read", "readdone",
        "writelock", "write", "writeback", "writedone", "close", "closefile"}
CallFields == {"pc", "path", "mount", "file", "fd", "len", "val", "done", "buf"}
FileFields == {"path", "rel", "disk", "data", "open_ref_count", "readers", "writers"}
EntryFields == {"file", "file_pointer"}

\* The steps inside the critical sections of OPENED_FILES_LOCK and of the lock of
\* a file, and the steps of a call on a descriptor.
LockPcs == {"mount", "create", "closefile"}
ReadPcs == {"read", "readdone"}
WritePcs == {"write", "writeback", "writedone"}
DescriptorPcs == {"readlock", "writelock", "closefile"} \cup ReadPcs \cup WritePcs

IsCall(c) == c = [k \in CallFields |-> c[k]] /\ c.pc \in Pcs

IsFile(x) ==
    /\ x = [k \in FileFields |-> x[k]]
    /\ x.open_ref_count \in Nat
    /\ x.readers \subseteq Procs /\ x.writers \subseteq Procs

IsEntry(e) ==
    /\ e = [k \in EntryFields |-> e[k]]
    /\ e.file \in FileIds \cup {NoFile}
    /\ e.file = NoFile => e = NoEntry

CallsTyped == call = [p \in Procs |-> call[p]] /\ \A p \in Procs : IsCall(call[p])
FilesTyped == files = [f \in FileIds |-> files[f]] /\ \A f \in FileIds : IsFile(files[f])
TablesTyped ==
    /\ file_table = [p \in Procs |-> [fd \in Fds |-> file_table[p][fd]]]
    /\ \A p \in Procs : \A fd \in Fds : IsEntry(file_table[p][fd])

TypeInv ==
    /\ CallsTyped /\ FilesTyped /\ TablesTyped
    /\ opened \in Seq(FileIds)
    /\ oflock \in Procs \cup {NoProc}

\* What a call c of process p may rely on: it holds OPENED_FILES_LOCK exactly in
\* the section of it, a descriptor still leads to the file that the call found
\* behind it, and a process that closes its files has one left.
CallOk(p, c) ==
    /\ oflock = p <=> c.pc \in LockPcs
    /\ c.pc \in DescriptorPcs => c.fd \in Fds /\ c.file \in FileIds /\ file_table[p][c.fd].file = c.file
    /\ c.pc = "install" => c.file \in FileIds
    /\ c.pc = "close" => \E fd \in Fds : file_table[p][fd].file # NoFile

CallInv == \A p \in Procs : CallOk(p, call[p])

IsOpened(f) == \E i \in 1 .. Len(opened) : opened[i] = f

\* OPENED_FILES: the files in use, but for the one that is being closed, and the
\* one that is being opened is not there yet.
OpenedInv ==
    /\ \A i, j \in 1 .. Len(opened) : files[opened[i]].path = files[opened[j]].path => i = j
    /\ \A i \in 1 .. Len(opened) : files[opened[i]].open_ref_count > 0
    /\ \A f \in FileIds : files[f].open_ref_count > 0 =>
          IsOpened(f) \/ \E p \in Procs : call[p].pc = "closefile" /\ call[p].file = f
    /\ \A p \in Procs : call[p].pc = "closefile" =>
          files[call[p].file].open_ref_count = 1 /\ ~IsOpened(call[p].file)
    /\ \A p \in Procs : call[p].pc \in {"mount", "create"} =>
          \A i \in 1 .. Len(opened) : files[opened[i]].path # call[p].path

CountInv == \A f \in FileIds : files[f].open_ref_count = Cardinality(References(f))

\* The lock of a file is held by the calls in its section only.
SectionInv ==
    \A f \in FileIds, p \in Procs :
        /\ p \in files[f].readers => call[p].file = f /\ call[p].pc \in ReadPcs
        /\ p \in files[f].writers => call[p].file = f /\ call[p].pc \in WritePcs

Good == TypeInv /\ CallInv /\ OpenedInv /\ CountInv /\ SectionInv

\* The inductive invariant: a kernel that stopped promises nothing.
IInv == Running => Good

-----------------------------------------------------------------------------
(* Least elements, lists and references. *)

\* A set of numbers has a least element.
LEMMA Least ==
    ASSUME NEW S, S \subseteq Nat, S # {}
    PROVE  \E x \in S : \A y \in S : x <= y
<1> DEFINE R == OpToRel(<, Nat)
<1>1. IsWellFoundedOn(R, Nat)
  BY Zenon, NatLessThanWellFounded
<1>2. \A x, y \in Nat : x < y => <<x, y>> \in R
  BY Zenon DEF OpToRel
<1> HIDE DEF R
<1>3. PICK x \in S : \A y \in S : ~(<<y, x>> \in R)
  BY Zenon, <1>1, WFMin
<1>4. \A y \in S : ~(y < x)
  BY Zenon, <1>2, <1>3
<1>5. \A y \in S : x <= y
  BY <1>4
<1>6. QED
  BY Zenon, <1>5

\* The first element of a list, the first free descriptor: Min is one of them.
LEMMA MinElement ==
    ASSUME NEW S, S \subseteq Nat, S # {}
    PROVE  Min(S) \in S
<1>1. \E x \in S : \A y \in S : x <= y
  BY Zenon, Least
<1>2. QED
  BY Zenon, <1>1 DEF Min

\* What list_del() leaves, of a list of files.
LEMMA ListDel ==
    ASSUME NEW S, NEW s \in Seq(S), NEW i \in 1 .. Len(s)
    PROVE  /\ list_del(s, i) \in Seq(S)
           /\ Len(list_del(s, i)) = Len(s) - 1
           /\ \A k \in 1 .. Len(s) - 1 : list_del(s, i)[k] = s[IF k < i THEN k ELSE k + 1]
<1> DEFINE a == SubSeq(s, 1, i - 1)
           b == SubSeq(s, i + 1, Len(s))
<1>1. a \in Seq(S) /\ Len(a) = i - 1 /\ \A k \in 1 .. i - 1 : a[k] = s[k]
  OBVIOUS
<1>2. b \in Seq(S) /\ Len(b) = Len(s) - i /\ \A k \in 1 .. Len(s) - i : b[k] = s[i + k]
  OBVIOUS
<1>3. list_del(s, i) = a \o b
  BY Zenon DEF list_del
<1> HIDE DEF a, b
<1>4. list_del(s, i) \in Seq(S) /\ Len(list_del(s, i)) = Len(s) - 1
  BY <1>1, <1>2, <1>3
<1>5. ASSUME NEW k \in 1 .. Len(s) - 1
      PROVE  list_del(s, i)[k] = s[IF k < i THEN k ELSE k + 1]
  <2>1. CASE k < i
    BY <1>1, <1>2, <1>3, <2>1
  <2>2. CASE ~(k < i)
    <3>1. (a \o b)[k] = b[k - Len(a)]
      BY <1>1, <1>2, <2>2
    <3>2. b[k - Len(a)] = s[k + 1]
      BY <1>1, <1>2, <2>2
    <3>3. QED
      BY Zenon, <1>3, <2>2, <3>1, <3>2
  <2>3. QED
    BY Zenon, <2>1, <2>2
<1>6. QED
  BY Zenon, <1>4, <1>5

\* The references of a file, entries of tables and unfinished opens, can be counted.
LEMMA FiniteReferences ==
    ASSUME NEW f
    PROVE  IsFiniteSet(References(f))
<1>1. IsFiniteSet(0 .. MAX_FDS)
  BY FS_Interval, FilesAssumption
<1>2. IsFiniteSet(Procs \X (0 .. MAX_FDS))
  BY Zenon, <1>1, FS_Product, FilesAssumption
<1>3. References(f) \subseteq Procs \X (0 .. MAX_FDS)
  BY FilesAssumption DEF References, Fds
<1>4. QED
  BY Zenon, <1>2, <1>3, FS_Subset

\* A reference is an entry of a table or the slot MAX_FDS of an unfinished open.
LEMMA ReferencesAre ==
    ASSUME NEW f
    PROVE  /\ References(f) = {x \in Procs \X (0 .. MAX_FDS) :
                 IF x[2] = MAX_FDS THEN call[x[1]].pc = "install" /\ call[x[1]].file = f
                 ELSE file_table[x[1]][x[2]].file = f}
           /\ References(f)' = {x \in Procs \X (0 .. MAX_FDS) :
                 IF x[2] = MAX_FDS THEN call'[x[1]].pc = "install" /\ call'[x[1]].file = f
                 ELSE file_table'[x[1]][x[2]].file = f}
<1>1. /\ 0 .. MAX_FDS = Fds \cup {MAX_FDS} /\ MAX_FDS \notin Fds
  BY FilesAssumption DEF Fds
<1>2. QED
  BY <1>1 DEF References

-----------------------------------------------------------------------------
(* Steps that open and close nothing. *)

\* What a step of p keeps of the files, the tables and the list.
SameFiles(p) ==
    /\ \A q \in Procs \ {p} : call'[q] = call[q]
    /\ \A f \in FileIds : files'[f].path = files[f].path /\ files'[f].open_ref_count = files[f].open_ref_count
    /\ \A q \in Procs : \A d \in Fds : file_table'[q][d].file = file_table[q][d].file
    /\ opened' = opened /\ oflock' = oflock

\* A call that goes on without a new reference, a new file or the lock.
SameKind(p) ==
    /\ call[p].pc \notin {"install", "closefile"}
    /\ call'[p].pc \notin {"install", "closefile"}
    /\ call'[p].pc \in {"mount", "create"} => call[p].pc \in {"mount", "create"} /\ call'[p].path = call[p].path

\* The references stay when the entries do and no open finishes or finds its file.
LEMMA SameReferences ==
    ASSUME NEW p \in Procs, SameFiles(p), SameKind(p), NEW f
    PROVE  References(f)' = References(f)
  BY DEF References, SameFiles, SameKind

\* Such a step keeps the list of opened files and the counts.
LEMMA StillOpened ==
    ASSUME Good, TypeInv', NEW p \in Procs, SameFiles(p), SameKind(p), CallOk(p, call[p])'
    PROVE  CallInv' /\ OpenedInv' /\ CountInv'
<1>1. CallInv'
  <2>1. ASSUME NEW q \in Procs, q # p
        PROVE  CallOk(q, call[q])'
    BY <2>1 DEF Good, CallInv, CallOk, SameFiles
  <2>2. QED
    BY Zenon, <2>1 DEF CallInv
<1>2. CountInv'
  <2>1. \A f \in FileIds : References(f)' = References(f)
    BY Zenon, SameReferences
  <2>2. QED
    BY Zenon, <2>1 DEF Good, CountInv, SameFiles
<1>3. OpenedInv'
  <2>1. \A i \in 1 .. Len(opened) : opened[i] \in FileIds
    BY DEF Good, TypeInv
  <2>2. /\ \A i, j \in 1 .. Len(opened') : files'[opened'[i]].path = files'[opened'[j]].path => i = j
        /\ \A i \in 1 .. Len(opened') : files'[opened'[i]].open_ref_count > 0
    BY <2>1 DEF Good, OpenedInv, SameFiles
  <2>3. \A f \in FileIds : IsOpened(f)' <=> IsOpened(f)
    BY Zenon DEF IsOpened, SameFiles
  <2>4. \A q \in Procs : call'[q].pc = "closefile" <=> call[q].pc = "closefile"
    BY Zenon DEF SameFiles, SameKind
  <2>5. \A q \in Procs : call'[q].pc = "closefile" => call'[q] = call[q] /\ call[q].file \in FileIds
    BY Zenon DEF SameFiles, SameKind, Good, CallInv, CallOk, DescriptorPcs
  <2>6. \A f \in FileIds : files'[f].open_ref_count > 0 =>
          IsOpened(f)' \/ \E q \in Procs : call'[q].pc = "closefile" /\ call'[q].file = f
    BY <2>3, <2>4, <2>5 DEF Good, OpenedInv, SameFiles
  <2>7. \A q \in Procs : call'[q].pc = "closefile" =>
          files'[call'[q].file].open_ref_count = 1 /\ ~IsOpened(call[q].file)'
    BY <2>3, <2>5 DEF Good, OpenedInv, SameFiles
  <2>8. \A q \in Procs : call'[q].pc \in {"mount", "create"} =>
          \A i \in 1 .. Len(opened') : files'[opened'[i]].path # call'[q].path
    <3>1. \A q \in Procs : call'[q].pc \in {"mount", "create"} =>
             call[q].pc \in {"mount", "create"} /\ call'[q].path = call[q].path
      BY Zenon DEF SameFiles, SameKind
    <3>2. QED
      BY <2>1, <3>1 DEF Good, OpenedInv, SameFiles
  <2>9. QED
    BY Zenon, <2>2, <2>6, <2>7, <2>8 DEF OpenedInv
<1>4. QED
  BY Zenon, <1>1, <1>2, <1>3

\* The sections of the locks of the files, when p neither enters nor leaves one.
SameSections(p) ==
    /\ files' = files
    /\ call[p].pc \in ReadPcs => call'[p].pc \in ReadPcs /\ call'[p].file = call[p].file
    /\ call[p].pc \in WritePcs => call'[p].pc \in WritePcs /\ call'[p].file = call[p].file

\* Such a step keeps the invariant if it keeps the sections of the files, too.
LEMMA OnlyCall ==
    ASSUME Good, TypeInv', NEW p \in Procs, SameFiles(p), SameKind(p), SameSections(p), CallOk(p, call[p])'
    PROVE  IInv'
<1>1. CallInv' /\ OpenedInv' /\ CountInv'
  BY Zenon, StillOpened
<1>2. SectionInv'
  BY DEF Good, SectionInv, SameFiles, SameSections
<1>3. QED
  BY Zenon, <1>1, <1>2 DEF IInv, Good

\* A step that changes none of this state.
LEMMA Quiet ==
    ASSUME IInv, UNCHANGED <<files, opened, oflock, file_table, call, halted>>
    PROVE  IInv'
  BY DEF IInv, Good, TypeInv, CallsTyped, FilesTyped, TablesTyped, CallInv, CallOk, OpenedInv, IsOpened, CountInv,
         References, SectionInv, Running

\* A step that stops the kernel.
LEMMA Halting ==
    ASSUME NEW why \in {"panic", "use after free"}, Halt(why)
    PROVE  IInv'
  BY Zenon DEF IInv, Running, Halt

-----------------------------------------------------------------------------
(* The steps of the calls, one after the other. *)

\* A call moves on with some of its fields changed.
LEMMA CallMoves ==
    ASSUME Good, NEW p \in Procs, NEW c, IsCall(c), call' = [call EXCEPT ![p] = c]
    PROVE  CallsTyped' /\ call'[p] = c /\ \A q \in Procs \ {p} : call'[q] = call[q]
  BY Zenon DEF Good, TypeInv, CallsTyped

\* The fields of a call: the others stay.
LEMMA FieldChange ==
    ASSUME NEW c, IsCall(c), NEW x \in CallFields, NEW v, x = "pc" => v \in Pcs
    PROVE  /\ IsCall([c EXCEPT ![x] = v])
           /\ [c EXCEPT ![x] = v][x] = v
           /\ \A k \in CallFields \ {x} : [c EXCEPT ![x] = v][k] = c[k]
  BY Zenon DEF IsCall, CallFields

\* An open finds its mount, or its file.
WithMount(c, pc, m) == [c EXCEPT !.pc = pc, !.mount = m]
WithFile(c, pc, f) == [c EXCEPT !.pc = pc, !.file = f]

\* The records that an open goes through...
LEMMA OpenFields ==
    ASSUME NEW c, IsCall(c), NEW pc \in Pcs, NEW v
    PROVE  /\ IsCall(WithMount(c, pc, v)) /\ WithMount(c, pc, v).pc = pc /\ WithMount(c, pc, v).path = c.path
           /\ IsCall(WithFile(c, pc, v)) /\ WithFile(c, pc, v).pc = pc /\ WithFile(c, pc, v).file = v
<1> DEFINE e == [c EXCEPT !.pc = pc]
<1>1. IsCall(e) /\ e.pc = pc /\ e.path = c.path
  BY FieldChange DEF CallFields
<1> HIDE DEF e
<1>2. LET d == [e EXCEPT !.mount = v] IN IsCall(d) /\ d.pc = e.pc /\ d.path = e.path
  BY <1>1, FieldChange DEF CallFields
<1>3. LET d == [e EXCEPT !.file = v] IN IsCall(d) /\ d.pc = e.pc /\ d.file = v
  BY <1>1, FieldChange DEF CallFields
<1>4. QED
  BY Zenon, <1>1, <1>2, <1>3 DEF e, WithMount, WithFile

\* A close gets hold of its file.
Closing(c, fd, f, m) == [c EXCEPT !.pc = "closefile", !.fd = fd, !.file = f, !.mount = m]

\* ...and the one of a close.
LEMMA CloseFields ==
    ASSUME NEW c, IsCall(c), NEW fd, NEW f, NEW m
    PROVE  LET d == Closing(c, fd, f, m)
           IN  IsCall(d) /\ d.pc = "closefile" /\ d.fd = fd /\ d.file = f
<1> DEFINE c1 == [c EXCEPT !.pc = "closefile"]
           c2 == [c1 EXCEPT !.fd = fd]
           c3 == [c2 EXCEPT !.file = f]
           c4 == [c3 EXCEPT !.mount = m]
<1>1. IsCall(c1) /\ c1.pc = "closefile"
  BY FieldChange DEF CallFields, Pcs
<1> HIDE DEF c1
<1>2. IsCall(c2) /\ c2.pc = "closefile" /\ c2.fd = fd
  BY <1>1, FieldChange DEF CallFields
<1> HIDE DEF c2
<1>3. IsCall(c3) /\ c3.pc = "closefile" /\ c3.fd = fd /\ c3.file = f
  BY <1>2, FieldChange DEF CallFields
<1> HIDE DEF c3
<1>4. IsCall(c4) /\ c4.pc = "closefile" /\ c4.fd = fd /\ c4.file = f
  BY <1>3, FieldChange DEF CallFields
<1>5. QED
  BY Zenon, <1>4 DEF c1, c2, c3, Closing

\* A call starts: do_open(), do_read() and do_write(), and delete_proc().
LEMMA Starting ==
    ASSUME Good, NEW p \in Procs, call[p].pc = "idle",
           UNCHANGED <<files, opened, oflock, file_table>>,
           CallsTyped', \A q \in Procs \ {p} : call'[q] = call[q],
           CallOk(p, call[p])', call'[p].pc \in {"lookup", "readlock", "writelock", "close"}
    PROVE  IInv'
<1>1. TypeInv'
  BY Zenon DEF Good, TypeInv, FilesTyped, TablesTyped
<1>2. SameFiles(p) /\ SameKind(p) /\ SameSections(p)
  BY Zenon DEF SameFiles, SameKind, SameSections, ReadPcs, WritePcs
<1>3. QED
  BY Zenon, <1>1, <1>2, OnlyCall

\* do_open(), do_read(), do_write() and delete_proc() start a call.
LEMMA Opens ==
    ASSUME Good, NEW p \in Procs, NEW path, do_open(p, path)
    PROVE  IInv'
<1>1. /\ CallsTyped' /\ call'[p].pc = "lookup"
      /\ \A q \in Procs \ {p} : call'[q] = call[q]
  BY Zenon DEF Good, TypeInv, CallsTyped, IsCall, CallFields, Pcs, do_open, Idle
<1>2. CallOk(p, call[p])'
  BY Zenon, <1>1 DEF do_open, At, Good, CallInv, CallOk, LockPcs, DescriptorPcs, ReadPcs, WritePcs
<1>3. QED
  BY Zenon, <1>1, <1>2, Starting DEF do_open, At

\* A read or a write starts with a descriptor that leads to a file.
LEMMA Accesses ==
    ASSUME Good, NEW p \in Procs, NEW fd \in Fds, NEW pc \in {"readlock", "writelock"}, NEW len, NEW val,
           Access(p, fd, pc, len, val)
    PROVE  IInv'
<1>1. /\ CallsTyped' /\ call'[p].pc = pc /\ call'[p].fd = fd /\ call'[p].file = file_table[p][fd].file
      /\ \A q \in Procs \ {p} : call'[q] = call[q]
  BY Zenon DEF Good, TypeInv, CallsTyped, IsCall, CallFields, Pcs, Access, Idle
<1>2. file_table[p][fd].file \in FileIds
  BY Zenon DEF Access, Good, TypeInv, TablesTyped, IsEntry
<1>3. CallOk(p, call[p])'
  BY Zenon, <1>1, <1>2 DEF Access, At, Good, CallInv, CallOk, LockPcs, DescriptorPcs, ReadPcs, WritePcs
<1>4. QED
  BY Zenon, <1>1, <1>3, Starting DEF Access, At

\* delete_proc() starts to close when the process has something open.
LEMMA Deletes ==
    ASSUME Good, NEW p \in Procs, delete_proc(p)
    PROVE  IInv'
<1>1. /\ CallsTyped' /\ call'[p].pc = "close"
      /\ \A q \in Procs \ {p} : call'[q] = call[q]
  BY ZenonT(30) DEF Good, TypeInv, CallsTyped, IsCall, CallFields, Pcs, delete_proc, Goto
<1>2. \E fd \in Fds : file_table[p][fd].file # NoFile
  BY Zenon DEF delete_proc, Good, TypeInv, TablesTyped, IsEntry
<1>3. CallOk(p, call[p])'
  BY Zenon, <1>1, <1>2 DEF delete_proc, At, Good, CallInv, CallOk, LockPcs, DescriptorPcs, ReadPcs, WritePcs
<1>4. QED
  BY Zenon, <1>1, <1>3, Starting DEF delete_proc, At

\* The mount of a file to open has been found: the lock stays with p.
LEMMA FindsMount ==
    ASSUME Good, NEW p \in Procs, OpenFindMount(p)
    PROVE  IInv'
<1>1. CASE MountsFor(call[p].path) = {}
  BY Zenon, <1>1, Halting DEF OpenFindMount
<1>2. CASE MountsFor(call[p].path) # {}
  <2>1. /\ CallsTyped' /\ call'[p].pc = "create" /\ call'[p].path = call[p].path
        /\ \A q \in Procs \ {p} : call'[q] = call[q]
    <3> DEFINE c == WithMount(call[p], "create", find_mount_for_file(call[p].path).id)
    <3>1. call' = [call EXCEPT ![p] = c]
      BY Zenon, <1>2 DEF OpenFindMount, WithMount
    <3>2. IsCall(call[p]) /\ "create" \in Pcs
      BY Zenon DEF Good, TypeInv, CallsTyped, Pcs
    <3>3. IsCall(c) /\ c.pc = "create" /\ c.path = call[p].path
      BY <3>2, OpenFields
    <3> HIDE DEF c
    <3>4. QED
      BY Zenon, <3>1, <3>3, CallMoves
  <2>2. call[p].pc = "mount" /\ UNCHANGED <<files, opened, oflock, file_table>>
    BY Zenon, <1>2 DEF OpenFindMount, At
  <2>3. TypeInv'
    BY Zenon, <2>1, <2>2 DEF Good, TypeInv, FilesTyped, TablesTyped
  <2>4. CallOk(p, call[p])'
    BY Zenon, <2>1, <2>2 DEF Good, CallInv, CallOk, LockPcs, DescriptorPcs, ReadPcs, WritePcs
  <2>5. SameFiles(p) /\ SameKind(p) /\ SameSections(p)
    BY Zenon, <2>1, <2>2 DEF SameFiles, SameKind, SameSections, ReadPcs, WritePcs
  <2>6. QED
    BY Zenon, <2>3, <2>4, <2>5, OnlyCall
<1>3. QED
  BY Zenon, <1>1, <1>2

\* The sectors of a read or a write, under the lock of the file.
LEMMA Transferring ==
    ASSUME Good, NEW p \in Procs, UNCHANGED <<files, opened, oflock, file_table>>,
           CallsTyped', \A q \in Procs \ {p} : call'[q] = call[q],
           call'[p].file = call[p].file, call'[p].fd = call[p].fd,
           \/ call[p].pc \in ReadPcs /\ call'[p].pc \in ReadPcs
           \/ call[p].pc \in WritePcs /\ call'[p].pc \in WritePcs
    PROVE  IInv'
<1>1. TypeInv'
  BY Zenon DEF Good, TypeInv, FilesTyped, TablesTyped
<1>2. SameFiles(p) /\ SameKind(p) /\ SameSections(p)
  BY Zenon DEF SameFiles, SameKind, SameSections, ReadPcs, WritePcs
<1>3. CallOk(p, call[p])'
  BY Zenon DEF Good, CallInv, CallOk, LockPcs, DescriptorPcs, ReadPcs, WritePcs
<1>4. QED
  BY Zenon, <1>1, <1>2, <1>3, OnlyCall

\* The fields that a transfer changes.
Transferred(c, pc, a, b) ==
    {[c EXCEPT !.pc = pc], [c EXCEPT !.buf = b, !.pc = pc], [c EXCEPT !.done = a, !.buf = b, !.pc = pc]}

\* The record of a transfer, after a sector.
LEMMA TransferFields ==
    ASSUME NEW c, IsCall(c), NEW pc \in Pcs, NEW a, NEW b, NEW d \in Transferred(c, pc, a, b)
    PROVE  IsCall(d) /\ d.pc = pc /\ d.file = c.file /\ d.fd = c.fd
<1> DEFINE c1 == [c EXCEPT !.buf = b]
           c2 == [c EXCEPT !.done = a]
           c3 == [c2 EXCEPT !.buf = b]
<1>1. IsCall(c1) /\ c1.file = c.file /\ c1.fd = c.fd
  BY FieldChange DEF CallFields
<1>2. IsCall(c2) /\ c2.file = c.file /\ c2.fd = c.fd
  BY FieldChange DEF CallFields
<1> HIDE DEF c2
<1>3. IsCall(c3) /\ c3.file = c.file /\ c3.fd = c.fd
  BY <1>2, FieldChange DEF CallFields
<1> HIDE DEF c1, c3
<1>4. \A e : IsCall(e) /\ d = [e EXCEPT !.pc = pc] => IsCall(d) /\ d.pc = pc /\ d.file = e.file /\ d.fd = e.fd
  BY FieldChange DEF CallFields
<1>5. QED
  BY Zenon, <1>1, <1>2, <1>3, <1>4 DEF c1, c2, c3, Transferred

\* Sectors are read and written with the lock of the file held throughout.
LEMMA Transfers ==
    ASSUME Good, NEW p \in Procs,
           \/ ReadSector(p) \/ ReadEnd(p) \/ WriteWholeSector(p) \/ ReadPartialSector(p) \/ WriteBack(p) \/ WriteEnd(p)
    PROVE  IInv'
<1>1. UNCHANGED <<files, opened, oflock, file_table>>
  BY Zenon DEF ReadSector, ReadEnd, WriteWholeSector, ReadPartialSector, WriteBack, WriteEnd
<1>2. ReadPcs \subseteq Pcs /\ WritePcs \subseteq Pcs
  BY Zenon DEF Pcs, ReadPcs, WritePcs
<1>3. IsCall(call[p])
  BY Zenon DEF Good, TypeInv, CallsTyped
<1>4. ASSUME NEW c, IsCall(c), c.file = call[p].file, c.fd = call[p].fd, call' = [call EXCEPT ![p] = c],
             \/ call[p].pc \in ReadPcs /\ c.pc \in ReadPcs
             \/ call[p].pc \in WritePcs /\ c.pc \in WritePcs
      PROVE  IInv'
  <2>1. CallsTyped' /\ call'[p] = c /\ \A q \in Procs \ {p} : call'[q] = call[q]
    BY Zenon, <1>4, CallMoves
  <2>2. QED
    BY Zenon, <1>1, <1>4, <2>1, Transferring
<1>5. ASSUME NEW pc \in Pcs, NEW a, NEW b, NEW c \in Transferred(call[p], pc, a, b), call' = [call EXCEPT ![p] = c],
              \/ call[p].pc \in ReadPcs /\ pc \in ReadPcs
              \/ call[p].pc \in WritePcs /\ pc \in WritePcs
       PROVE  IInv'
  <2>1. IsCall(c) /\ c.pc = pc /\ c.file = call[p].file /\ c.fd = call[p].fd
    BY <1>3, TransferFields
  <2>2. QED
    BY Zenon, <1>4, <1>5, <2>1
<1>6. CASE ReadSector(p)
  <2>1. \E pc \in ReadPcs : \E a, b : \E c \in Transferred(call[p], pc, a, b) : call' = [call EXCEPT ![p] = c]
    BY Zenon, <1>6 DEF ReadSector, ReadPcs, Transferred
  <2>2. call[p].pc \in ReadPcs
    BY Zenon, <1>6 DEF ReadSector, At, ReadPcs
  <2>3. QED
    BY Zenon, <1>2, <1>5, <2>1, <2>2
<1>7. CASE ReadEnd(p)
  <2>1. \E pc \in ReadPcs : \E a, b : \E c \in Transferred(call[p], pc, a, b) : call' = [call EXCEPT ![p] = c]
    BY Zenon, <1>7 DEF ReadEnd, Goto, ReadPcs, Transferred
  <2>2. call[p].pc \in ReadPcs
    BY Zenon, <1>7 DEF ReadEnd, Goto, At, ReadPcs
  <2>3. QED
    BY Zenon, <1>2, <1>5, <2>1, <2>2
<1>8. ASSUME NEW data, PutSector(p, data), call[p].pc \in WritePcs
      PROVE  IInv'
  <2>1. \E pc \in WritePcs : \E a, b : \E c \in Transferred(call[p], pc, a, b) : call' = [call EXCEPT ![p] = c]
    BY Zenon, <1>8 DEF PutSector, Goto, WritePcs, Transferred
  <2>2. QED
    BY Zenon, <1>2, <1>5, <1>8, <2>1
<1>9. CASE WriteWholeSector(p) \/ WriteBack(p)
  BY Zenon, <1>8, <1>9 DEF WriteWholeSector, WriteBack, At, WritePcs
<1>10. CASE ReadPartialSector(p)
  <2>1. \E pc \in WritePcs : \E a, b : \E c \in Transferred(call[p], pc, a, b) : call' = [call EXCEPT ![p] = c]
    BY Zenon, <1>10 DEF ReadPartialSector, WritePcs, Transferred
  <2>2. call[p].pc \in WritePcs
    BY Zenon, <1>10 DEF ReadPartialSector, At, WritePcs
  <2>3. QED
    BY Zenon, <1>2, <1>5, <2>1, <2>2
<1>11. CASE WriteEnd(p)
  <2>1. \E pc \in WritePcs : \E a, b : \E c \in Transferred(call[p], pc, a, b) : call' = [call EXCEPT ![p] = c]
    BY Zenon, <1>11 DEF WriteEnd, Goto, WritePcs, Transferred
  <2>2. call[p].pc \in WritePcs
    BY Zenon, <1>11 DEF WriteEnd, Goto, At, WritePcs
  <2>3. QED
    BY Zenon, <1>2, <1>5, <2>1, <2>2
<1>12. QED
  BY Zenon, <1>6, <1>7, <1>9, <1>10, <1>11

-----------------------------------------------------------------------------
(* The lock of a file. *)

\* One struct file changes.
LEMMA FileMoves ==
    ASSUME Good, NEW f \in FileIds, NEW x, IsFile(x), files' = [files EXCEPT ![f] = x]
    PROVE  FilesTyped' /\ files'[f] = x /\ \A g \in FileIds \ {f} : files'[g] = files[g]
  BY Zenon DEF Good, TypeInv, FilesTyped

\* The fields of a struct file: the others stay.
LEMMA FileFieldChange ==
    ASSUME NEW x, IsFile(x), NEW k \in FileFields, NEW v,
           k = "open_ref_count" => v \in Nat, k \in {"readers", "writers"} => v \subseteq Procs
    PROVE  /\ IsFile([x EXCEPT ![k] = v])
           /\ [x EXCEPT ![k] = v][k] = v
           /\ \A j \in FileFields \ {k} : [x EXCEPT ![k] = v][j] = x[j]
  BY Zenon DEF IsFile, FileFields

WithReaders(x, S) == [x EXCEPT !.readers = S]
WithWriters(x, S) == [x EXCEPT !.writers = S]

\* The record of a file whose lock changes.
LEMMA LockFields ==
    ASSUME NEW x, IsFile(x), NEW S \in SUBSET Procs
    PROVE  /\ LET y == WithReaders(x, S)
              IN  /\ IsFile(y) /\ y.readers = S /\ y.writers = x.writers
                  /\ y.path = x.path /\ y.open_ref_count = x.open_ref_count
           /\ LET y == WithWriters(x, S)
              IN  /\ IsFile(y) /\ y.writers = S /\ y.readers = x.readers
                  /\ y.path = x.path /\ y.open_ref_count = x.open_ref_count
<1>1. LET y == WithReaders(x, S)
      IN  /\ IsFile(y) /\ y.readers = S /\ y.writers = x.writers
          /\ y.path = x.path /\ y.open_ref_count = x.open_ref_count
  BY FileFieldChange DEF FileFields, WithReaders
<1>2. LET y == WithWriters(x, S)
      IN  /\ IsFile(y) /\ y.writers = S /\ y.readers = x.readers
          /\ y.path = x.path /\ y.open_ref_count = x.open_ref_count
  BY FileFieldChange DEF FileFields, WithWriters
<1>3. QED
  BY Zenon, <1>1, <1>2

\* The lock of a file changes hands: only the sets of its readers and writers do.
LEMMA ReadLock ==
    ASSUME Good, NEW f \in FileIds, NEW S \in SUBSET Procs, files' = [files EXCEPT ![f].readers = S]
    PROVE  /\ FilesTyped'
           /\ \A g \in FileIds : files'[g].path = files[g].path /\ files'[g].open_ref_count = files[g].open_ref_count
           /\ \A g \in FileIds \ {f} : files'[g] = files[g]
           /\ files'[f].readers = S /\ files'[f].writers = files[f].writers
<1> DEFINE y == WithReaders(files[f], S)
<1>1. IsFile(files[f])
  BY Zenon DEF Good, TypeInv, FilesTyped
<1>2. files' = [files EXCEPT ![f] = y]
  BY Zenon DEF WithReaders
<1>3. IsFile(y) /\ y.readers = S /\ y.writers = files[f].writers /\ y.path = files[f].path /\ y.open_ref_count = files[f].open_ref_count
  BY Zenon, <1>1, LockFields
<1> HIDE DEF y
<1>4. FilesTyped' /\ files'[f] = y /\ \A g \in FileIds \ {f} : files'[g] = files[g]
  BY Zenon, <1>2, <1>3, FileMoves
<1>5. QED
  BY Zenon, <1>3, <1>4

\* ...or its writers.
LEMMA WriteLock ==
    ASSUME Good, NEW f \in FileIds, NEW S \in SUBSET Procs, files' = [files EXCEPT ![f].writers = S]
    PROVE  /\ FilesTyped'
           /\ \A g \in FileIds : files'[g].path = files[g].path /\ files'[g].open_ref_count = files[g].open_ref_count
           /\ \A g \in FileIds \ {f} : files'[g] = files[g]
           /\ files'[f].writers = S /\ files'[f].readers = files[f].readers
<1> DEFINE y == WithWriters(files[f], S)
<1>1. IsFile(files[f])
  BY Zenon DEF Good, TypeInv, FilesTyped
<1>2. files' = [files EXCEPT ![f] = y]
  BY Zenon DEF WithWriters
<1>3. IsFile(y) /\ y.writers = S /\ y.readers = files[f].readers /\ y.path = files[f].path /\ y.open_ref_count = files[f].open_ref_count
  BY Zenon, <1>1, LockFields
<1> HIDE DEF y
<1>4. FilesTyped' /\ files'[f] = y /\ \A g \in FileIds \ {f} : files'[g] = files[g]
  BY Zenon, <1>2, <1>3, FileMoves
<1>5. QED
  BY Zenon, <1>3, <1>4

\* An entry of a file table changes.
LEMMA EntryMoves ==
    ASSUME Good, NEW p \in Procs, NEW fd \in Fds, NEW e, IsEntry(e), file_table' = [file_table EXCEPT ![p][fd] = e]
    PROVE  /\ TablesTyped' /\ file_table'[p][fd] = e
           /\ \A q \in Procs : \A d \in Fds : ~(q = p /\ d = fd) => file_table'[q][d] = file_table[q][d]
  BY Zenon DEF Good, TypeInv, TablesTyped

\* The file pointer of an entry moves.
LEMMA PointerMoves ==
    ASSUME Good, NEW p \in Procs, NEW fd \in Fds, file_table[p][fd].file \in FileIds, NEW x,
           file_table' = [file_table EXCEPT ![p][fd].file_pointer = x]
    PROVE  TablesTyped' /\ \A q \in Procs : \A d \in Fds : file_table'[q][d].file = file_table[q][d].file
<1> DEFINE e == [file_table[p][fd] EXCEPT !.file_pointer = x]
<1>1. IsEntry(file_table[p][fd]) /\ file_table[p][fd].file # NoFile
  BY Zenon, FilesAssumption DEF Good, TypeInv, TablesTyped, NoFile
<1>2. \A r : IsEntry(r) /\ r.file # NoFile =>
         LET o == [r EXCEPT !.file_pointer = x] IN IsEntry(o) /\ o.file = r.file
  BY Zenon DEF IsEntry, EntryFields
<1>3. IsEntry(e) /\ e.file = file_table[p][fd].file
  BY Zenon, <1>1, <1>2
<1>4. file_table' = [file_table EXCEPT ![p][fd] = e]
  BY Zenon
<1> HIDE DEF e
<1>5. /\ TablesTyped' /\ file_table'[p][fd] = e
      /\ \A q \in Procs : \A d \in Fds : ~(q = p /\ d = fd) => file_table'[q][d] = file_table[q][d]
  BY ZenonT(30), <1>3, <1>4, EntryMoves
<1>6. QED
  BY Zenon, <1>3, <1>5

\* vfs_read() and vfs_write() get the lock.
LEMMA Locking ==
    ASSUME Good, NEW p \in Procs, vfs_read(p) \/ vfs_write(p)
    PROVE  IInv'
<1> DEFINE f == call[p].file
<1>1. f \in FileIds /\ call[p].pc \in {"readlock", "writelock"}
  BY Zenon DEF Good, CallInv, CallOk, DescriptorPcs, vfs_read, vfs_write, At
<1>2. PICK pc \in {"read", "write"} : Goto(p, pc)
  BY Zenon DEF vfs_read, vfs_write
<1>3. PICK c : c = call'[p]
  BY Zenon
<1>4. /\ CallsTyped' /\ c.pc = pc /\ c.file = f /\ c.fd = call[p].fd
      /\ \A q \in Procs \ {p} : call'[q] = call[q]
  BY ZenonT(30), <1>2, <1>3 DEF Goto, Good, TypeInv, CallsTyped, IsCall, CallFields, Pcs
<1>5. UNCHANGED <<opened, oflock, file_table>>
  BY Zenon DEF vfs_read, vfs_write
<1>6. PICK S \in SUBSET Procs :
        \/ call'[p].pc = "read" /\ S = files[f].readers \cup {p} /\ files' = [files EXCEPT ![f].readers = S]
        \/ call'[p].pc = "write" /\ S = {p} /\ files' = [files EXCEPT ![f].writers = S]
  <2>1. CASE vfs_read(p)
    <3>1. files[f].readers \cup {p} \in SUBSET Procs
      BY Zenon, <1>1 DEF Good, TypeInv, FilesTyped, IsFile
    <3>2. call'[p].pc = "read"
      BY Zenon, <2>1 DEF vfs_read, Goto, Good, TypeInv, CallsTyped, IsCall, CallFields
    <3>3. QED
      BY Zenon, <2>1, <3>1, <3>2 DEF vfs_read
  <2>2. CASE vfs_write(p)
    <3>1. call'[p].pc = "write"
      BY <2>2 DEF vfs_write, Goto, Good, TypeInv, CallsTyped, IsCall, CallFields
    <3>2. QED
      BY Zenon, <2>2, <3>1 DEF vfs_write
  <2>3. QED
    BY Zenon, <2>1, <2>2
<1> HIDE DEF f
<1>7. /\ FilesTyped'
      /\ \A g \in FileIds : files'[g].path = files[g].path /\ files'[g].open_ref_count = files[g].open_ref_count
      /\ \A g \in FileIds \ {f} : files'[g] = files[g]
  BY Zenon, <1>1, <1>6, ReadLock, WriteLock
<1>8. \/ /\ call'[p].pc = "read" /\ files'[f].readers = files[f].readers \cup {p}
          /\ files'[f].writers = files[f].writers
       \/ /\ call'[p].pc = "write" /\ files'[f].writers = {p}
          /\ files'[f].readers = files[f].readers
  BY ZenonT(30), <1>1, <1>6, ReadLock, WriteLock
<1>9. TypeInv'
  BY Zenon, <1>4, <1>5, <1>7 DEF Good, TypeInv, TablesTyped
<1>10. SameFiles(p) /\ SameKind(p)
  BY Zenon, <1>1, <1>3, <1>4, <1>5, <1>7 DEF SameFiles, SameKind
<1>11. CallOk(p, call[p])'
  BY <1>1, <1>3, <1>4, <1>5 DEF Good, CallInv, CallOk, LockPcs, DescriptorPcs, ReadPcs, WritePcs, f
<1>12. SectionInv'
  <2>1. ASSUME NEW g \in FileIds, NEW q \in Procs
        PROVE  /\ q \in files'[g].readers => call'[q].file = g /\ call'[q].pc \in ReadPcs
               /\ q \in files'[g].writers => call'[q].file = g /\ call'[q].pc \in WritePcs
    <3>1. CASE q = p
      <4>1. p \notin files[g].readers /\ p \notin files[g].writers
        BY Zenon, <1>1 DEF Good, SectionInv, ReadPcs, WritePcs
      <4>2. g = f => /\ q \in files'[g].readers => call'[p].pc = "read"
                     /\ q \in files'[g].writers => call'[p].pc = "write"
        BY Zenon, <1>8, <3>1, <4>1
      <4>3. QED
        BY <1>3, <1>4, <1>7, <3>1, <4>1, <4>2 DEF ReadPcs, WritePcs
    <3>2. CASE q # p
      <4>1. call'[q] = call[q]
        BY Zenon, <1>4, <3>2
      <4>2. q \in files'[g].readers => q \in files[g].readers
        BY Zenon, <1>7, <1>8, <3>2
      <4>3. q \in files'[g].writers => q \in files[g].writers
        BY Zenon, <1>7, <1>8, <3>2
      <4>4. QED
        BY Zenon, <4>1, <4>2, <4>3 DEF Good, SectionInv
    <3>3. QED
      BY Zenon, <3>1, <3>2
  <2>2. QED
    BY Zenon, <2>1 DEF SectionInv
<1>13. QED
  BY Zenon, <1>9, <1>10, <1>11, <1>12, StillOpened DEF IInv, Good

\* do_read() and do_write() return: the lock is free again, the file pointer has moved.
LEMMA Unlocking ==
    ASSUME Good, NEW p \in Procs, ReadReturn(p) \/ WriteReturn(p)
    PROVE  IInv'
<1> DEFINE f == call[p].file
<1>1. /\ f \in FileIds /\ call[p].fd \in Fds /\ file_table[p][call[p].fd].file \in FileIds
      /\ call[p].pc \in {"readdone", "writedone"}
  BY Zenon DEF Good, CallInv, CallOk, DescriptorPcs, ReadPcs, WritePcs, ReadReturn, WriteReturn, At
<1>2. call' = [call EXCEPT ![p] = Idle] /\ opened' = opened /\ oflock' = oflock
  BY Zenon DEF ReadReturn, WriteReturn, Return
<1>3. IsCall(Idle) /\ Idle.pc = "idle"
  BY Zenon DEF IsCall, CallFields, Pcs, Idle
<1>4. CallsTyped' /\ call'[p] = Idle /\ \A q \in Procs \ {p} : call'[q] = call[q]
  BY Zenon, <1>2, <1>3, CallMoves
<1>5. PICK x : file_table' = [file_table EXCEPT ![p][call[p].fd].file_pointer = x]
  BY Zenon DEF ReadReturn, WriteReturn
<1>6. TablesTyped' /\ \A q \in Procs : \A d \in Fds : file_table'[q][d].file = file_table[q][d].file
  BY Zenon, <1>1, <1>5, PointerMoves
<1>7. PICK S \in SUBSET Procs :
        \/ call[p].pc = "readdone" /\ S = files[f].readers \ {p} /\ files' = [files EXCEPT ![f].readers = S]
        \/ call[p].pc = "writedone" /\ S = {} /\ files' = [files EXCEPT ![f].writers = S]
  <2>1. CASE ReadReturn(p)
    <3>1. files[f].readers \ {p} \in SUBSET Procs
      BY Zenon, <1>1 DEF Good, TypeInv, FilesTyped, IsFile
    <3>2. QED
      BY Zenon, <2>1, <3>1 DEF ReadReturn, At
  <2>2. CASE WriteReturn(p)
    BY Zenon, <2>2 DEF WriteReturn, At
  <2>3. QED
    BY Zenon, <2>1, <2>2
<1> HIDE DEF f
<1>8. /\ FilesTyped'
      /\ \A g \in FileIds : files'[g].path = files[g].path /\ files'[g].open_ref_count = files[g].open_ref_count
      /\ \A g \in FileIds \ {f} : files'[g] = files[g]
  BY Zenon, <1>1, <1>7, ReadLock, WriteLock
<1>9. \/ /\ call[p].pc = "readdone" /\ files'[f].readers = files[f].readers \ {p}
         /\ files'[f].writers = files[f].writers
      \/ /\ call[p].pc = "writedone" /\ files'[f].writers = {}
         /\ files'[f].readers = files[f].readers
  BY Zenon, <1>1, <1>7, ReadLock, WriteLock
<1>10. TypeInv'
  BY Zenon, <1>2, <1>4, <1>6, <1>8 DEF Good, TypeInv
<1>11. SameFiles(p) /\ SameKind(p)
  BY Zenon, <1>1, <1>2, <1>3, <1>4, <1>6, <1>8 DEF SameFiles, SameKind
<1>12. CallOk(p, call[p])'
  BY Zenon, <1>1, <1>2, <1>3, <1>4 DEF Good, CallInv, CallOk, LockPcs, DescriptorPcs, ReadPcs, WritePcs
<1>13. SectionInv'
  <2>1. ASSUME NEW g \in FileIds, NEW q \in Procs
        PROVE  /\ q \in files'[g].readers => call'[q].file = g /\ call'[q].pc \in ReadPcs
               /\ q \in files'[g].writers => call'[q].file = g /\ call'[q].pc \in WritePcs
    <3>1. /\ q \in files'[g].readers => q \in files[g].readers
          /\ q \in files'[g].writers => q \in files[g].writers
      BY Zenon, <1>8, <1>9
    <3>2. CASE q = p
      <4>1. g # f => p \notin files[g].readers /\ p \notin files[g].writers
        BY Zenon DEF Good, SectionInv, f
      <4>2. g = f => p \notin files'[g].readers /\ p \notin files'[g].writers
        BY <1>1, <1>9 DEF Good, SectionInv, ReadPcs, WritePcs
      <4>3. QED
        BY Zenon, <3>1, <3>2, <4>1, <4>2
    <3>3. CASE q # p
      BY Zenon, <1>4, <3>1, <3>3 DEF Good, SectionInv
    <3>4. QED
      BY Zenon, <3>2, <3>3
  <2>2. QED
    BY Zenon, <2>1 DEF SectionInv
<1>14. QED
  BY ZenonT(30), <1>10, <1>11, <1>12, <1>13, StillOpened DEF IInv, Good

-----------------------------------------------------------------------------
(* open *)

WithCount(x, n) == [x EXCEPT !.open_ref_count = n]

\* The count of a struct file changes, and nothing else of it.
LEMMA Counting ==
    ASSUME Good, NEW f \in FileIds, NEW n \in Nat, files' = [files EXCEPT ![f].open_ref_count = n]
    PROVE  /\ FilesTyped' /\ files'[f].open_ref_count = n
           /\ \A g \in FileIds \ {f} : files'[g] = files[g]
           /\ \A g \in FileIds : /\ files'[g].path = files[g].path
                                 /\ files'[g].readers = files[g].readers /\ files'[g].writers = files[g].writers
<1> DEFINE y == WithCount(files[f], n)
<1>1. IsFile(files[f])
  BY Zenon DEF Good, TypeInv, FilesTyped
<1>2. files' = [files EXCEPT ![f] = y]
  BY Zenon DEF WithCount
<1>3. /\ IsFile(y) /\ y.open_ref_count = n /\ y.path = files[f].path
      /\ y.readers = files[f].readers /\ y.writers = files[f].writers
  BY <1>1, FileFieldChange DEF FileFields, WithCount
<1> HIDE DEF y
<1>4. FilesTyped' /\ files'[f] = y /\ \A g \in FileIds \ {f} : files'[g] = files[g]
  BY Zenon, <1>2, <1>3, FileMoves
<1>5. QED
  BY Zenon, <1>3, <1>4

\* One reference more, or one less.
LEMMA OneMoreReference ==
    ASSUME NEW f, NEW x, x \notin References(f), References(f)' = References(f) \cup {x}
    PROVE  Cardinality(References(f))' = Cardinality(References(f)) + 1
  BY Zenon, FiniteReferences, FS_AddElement

\* A reference goes.
LEMMA OneReferenceLess ==
    ASSUME NEW f, NEW x \in References(f), References(f)' = References(f) \ {x}
    PROVE  Cardinality(References(f))' = Cardinality(References(f)) - 1
  BY Zenon, FiniteReferences, FS_RemoveElement

\* While OPENED_FILES_LOCK is free, no file is being opened or closed, and the
\* files in use are those of the list.
LEMMA FreeLock ==
    ASSUME Good, Unlocked
    PROVE  /\ \A q \in Procs : call[q].pc \notin LockPcs
           /\ \A f \in FileIds : files[f].open_ref_count > 0 => IsOpened(f)
<1>1. \A q \in Procs : call[q].pc \notin LockPcs
  BY Zenon, FilesAssumption DEF Good, CallInv, CallOk, Unlocked
<1>2. QED
  BY Zenon, <1>1 DEF Good, OpenedInv, LockPcs

\* vfs_open() finds the file in OPENED_FILES and takes a reference to it.
LEMMA Sharing ==
    ASSUME Good, NEW p \in Procs, lookup_file_or_open(p), lookup_file(call[p].path) # {}
    PROVE  IInv'
<1>1. PICK f \in FileIds : IsOpened(f) /\ f = opened[Min(lookup_file(call[p].path))]
  <2>1. lookup_file(call[p].path) \subseteq 1 .. Len(opened)
    BY DEF lookup_file, Good, TypeInv
  <2>2. Min(lookup_file(call[p].path)) \in 1 .. Len(opened)
    BY <2>1, MinElement
  <2>3. QED
    BY <2>2 DEF Good, TypeInv, IsOpened
<1>2. /\ call[p].pc = "lookup" /\ Unlocked /\ opened' = opened /\ oflock' = oflock /\ file_table' = file_table
      /\ files' = [files EXCEPT ![f].open_ref_count = files[f].open_ref_count + 1]
      /\ call' = [call EXCEPT ![p] = WithFile(call[p], "install", f)]
  BY Zenon, <1>1 DEF lookup_file_or_open, At, WithFile
<1>3. files[f].open_ref_count \in Nat /\ IsCall(call[p]) /\ "install" \in Pcs
  BY Zenon DEF Good, TypeInv, FilesTyped, IsFile, CallsTyped, Pcs
<1>4. /\ FilesTyped' /\ files'[f].open_ref_count = files[f].open_ref_count + 1
      /\ \A g \in FileIds \ {f} : files'[g] = files[g]
      /\ \A g \in FileIds : /\ files'[g].path = files[g].path
                            /\ files'[g].readers = files[g].readers /\ files'[g].writers = files[g].writers
  <2>1. PICK n \in Nat : n = files[f].open_ref_count + 1
    BY <1>3
  <2>2. files' = [files EXCEPT ![f].open_ref_count = n]
    BY Zenon, <1>2, <2>1
  <2>3. QED
    BY Zenon, <2>1, <2>2, Counting
<1>5. PICK c : c = WithFile(call[p], "install", f) /\ IsCall(c) /\ c.pc = "install" /\ c.file = f
  BY <1>3, OpenFields
<1>6. CallsTyped' /\ call'[p] = c /\ \A q \in Procs \ {p} : call'[q] = call[q]
  BY Zenon, <1>2, <1>5, CallMoves
<1>7. TypeInv'
  BY Zenon, <1>2, <1>4, <1>6 DEF Good, TypeInv, TablesTyped
<1>8. /\ \A q \in Procs : call[q].pc \notin LockPcs
      /\ \A g \in FileIds : files[g].open_ref_count > 0 => IsOpened(g)
  BY Zenon, <1>2, FreeLock
<1>9. CallInv'
  <2>1. CallOk(p, call[p])'
    BY Zenon, <1>2, <1>5, <1>6 DEF Good, CallInv, CallOk, LockPcs, DescriptorPcs, ReadPcs, WritePcs
  <2>2. ASSUME NEW q \in Procs, q # p
        PROVE  CallOk(q, call[q])'
    BY <1>2, <1>6, <2>2 DEF Good, CallInv, CallOk
  <2>3. QED
    BY Zenon, <2>1, <2>2 DEF CallInv
<1>10. OpenedInv'
  <2>1. \A q \in Procs : call'[q].pc \notin LockPcs
    BY Zenon, <1>5, <1>6, <1>8 DEF LockPcs
  <2>2. \A i \in 1 .. Len(opened) : opened[i] \in FileIds
    BY DEF Good, TypeInv
  <2>3. \A g \in FileIds : IsOpened(g)' <=> IsOpened(g)
    BY Zenon, <1>2 DEF IsOpened
  <2>4. \A g \in FileIds : files'[g].open_ref_count > 0 => IsOpened(g)'
    BY Zenon, <1>1, <1>4, <1>8, <2>3
  <2>5. /\ \A i, j \in 1 .. Len(opened') : files'[opened'[i]].path = files'[opened'[j]].path => i = j
        /\ \A i \in 1 .. Len(opened') : files'[opened'[i]].open_ref_count > 0
    BY <1>2, <1>3, <1>4, <2>2 DEF Good, OpenedInv
  <2>6. QED
    BY Zenon, <2>1, <2>4, <2>5 DEF OpenedInv, LockPcs
<1>11. CountInv'
  <2>1. ASSUME NEW g \in FileIds, g # f
        PROVE  References(g)' = References(g)
    BY <1>2, <1>5, <1>6, <2>1 DEF References
  <2>2. References(f)' = References(f) \cup {<<p, MAX_FDS>>} /\ <<p, MAX_FDS>> \notin References(f)
    <3>1. <<p, MAX_FDS>> \notin References(f)
      BY <1>2, FilesAssumption DEF References, Fds
    <3>2. References(f)' = References(f) \cup {<<p, MAX_FDS>>}
      BY <1>2, <1>5, <1>6 DEF References
    <3>3. QED
      BY Zenon, <3>1, <3>2
  <2>3. Cardinality(References(f))' = Cardinality(References(f)) + 1
    BY Zenon, <2>2, OneMoreReference
  <2>4. QED
    BY Zenon, <1>4, <2>1, <2>3 DEF Good, CountInv
<1>12. SectionInv'
  BY <1>2, <1>4, <1>6 DEF Good, SectionInv, ReadPcs, WritePcs
<1>13. QED
  BY Zenon, <1>7, <1>9, <1>10, <1>11, <1>12 DEF IInv, Good

\* vfs_open() does not find the file: OPENED_FILES_LOCK is kept to open it.
LEMMA LookingUp ==
    ASSUME Good, NEW p \in Procs, lookup_file_or_open(p), lookup_file(call[p].path) = {}
    PROVE  IInv'
<1>1. /\ call[p].pc = "lookup" /\ Unlocked /\ UNCHANGED <<files, opened, file_table>> /\ oflock' = p
      /\ call' = [call EXCEPT ![p].pc = "mount"]
  BY Zenon DEF lookup_file_or_open, At, Goto
<1>2. PICK c : c = call'[p]
  BY Zenon
<1>3. /\ CallsTyped' /\ c.pc = "mount" /\ c.path = call[p].path
      /\ \A q \in Procs \ {p} : call'[q] = call[q]
  BY ZenonT(30), <1>1, <1>2 DEF Good, TypeInv, CallsTyped, IsCall, CallFields, Pcs
<1>4. TypeInv'
  BY Zenon, <1>1, <1>3 DEF Good, TypeInv, FilesTyped, TablesTyped
<1>5. /\ \A q \in Procs : call[q].pc \notin LockPcs
      /\ \A g \in FileIds : files[g].open_ref_count > 0 => IsOpened(g)
  BY Zenon, <1>1, FreeLock
<1>6. CallInv'
  <2>1. CallOk(p, call[p])'
    BY Zenon, <1>1, <1>2, <1>3 DEF CallOk, LockPcs, DescriptorPcs, ReadPcs, WritePcs
  <2>2. ASSUME NEW q \in Procs, q # p
        PROVE  CallOk(q, call[q])'
    BY <1>1, <1>3, <1>5, <2>2 DEF Good, CallInv, CallOk
  <2>3. QED
    BY Zenon, <2>1, <2>2 DEF CallInv
<1>7. OpenedInv'
  <2>1. \A i \in 1 .. Len(opened) : files[opened[i]].path # call[p].path
    BY DEF lookup_file, Good, TypeInv
  <2>2. \A q \in Procs : call'[q].pc \in LockPcs => q = p
    BY Zenon, <1>3, <1>5
  <2>3. \A g \in FileIds : IsOpened(g)' <=> IsOpened(g)
    BY Zenon, <1>1 DEF IsOpened
  <2>4. \A g \in FileIds : files'[g].open_ref_count > 0 => IsOpened(g)'
    BY Zenon, <1>1, <1>5, <2>3
  <2>5. /\ \A i, j \in 1 .. Len(opened') : files'[opened'[i]].path = files'[opened'[j]].path => i = j
        /\ \A i \in 1 .. Len(opened') : files'[opened'[i]].open_ref_count > 0
    BY Zenon, <1>1 DEF Good, OpenedInv
  <2>6. QED
    BY SMTT(30), <1>1, <1>2, <1>3, <2>1, <2>2, <2>4, <2>5 DEF OpenedInv, LockPcs
<1>8. CountInv'
  <2>1. \A g \in FileIds : References(g)' = References(g)
    BY <1>1, <1>2, <1>3 DEF References
  <2>2. QED
    BY Zenon, <1>1, <2>1 DEF Good, CountInv
<1>9. SectionInv'
  BY <1>1, <1>3 DEF Good, SectionInv, ReadPcs, WritePcs
<1>10. QED
  BY Zenon, <1>4, <1>6, <1>7, <1>8, <1>9 DEF IInv, Good

\* The file behind a path, with its first reference.
Fresh(path, rel, disk, data) ==
    [FreeFile EXCEPT !.path = path, !.rel = rel, !.disk = disk, !.data = data, !.open_ref_count = 1]

\* A struct file that is not in use.
LEMMA FreeFields == IsFile(FreeFile) /\ FreeFile.open_ref_count = 0 /\ FreeFile.readers = {} /\ FreeFile.writers = {}
  BY Zenon DEF FreeFile, IsFile, FileFields

\* The struct file that open_file() creates.
LEMMA FreshFields ==
    ASSUME NEW path, NEW rel, NEW disk, NEW data
    PROVE  LET x == Fresh(path, rel, disk, data)
           IN  IsFile(x) /\ x.path = path /\ x.open_ref_count = 1 /\ x.readers = {} /\ x.writers = {}
<1> DEFINE a == [FreeFile EXCEPT !.path = path]
           b == [a EXCEPT !.rel = rel]
           c == [b EXCEPT !.disk = disk]
           d == [c EXCEPT !.data = data]
           e == [d EXCEPT !.open_ref_count = 1]
<1>1. IsFile(a) /\ a.path = path /\ a.readers = {} /\ a.writers = {}
  BY FreeFields, FileFieldChange DEF FileFields
<1> HIDE DEF a
<1>2. IsFile(b) /\ b.path = path /\ b.readers = {} /\ b.writers = {}
  BY <1>1, FileFieldChange DEF FileFields
<1> HIDE DEF b
<1>3. IsFile(c) /\ c.path = path /\ c.readers = {} /\ c.writers = {}
  BY <1>2, FileFieldChange DEF FileFields
<1> HIDE DEF c
<1>4. IsFile(d) /\ d.path = path /\ d.readers = {} /\ d.writers = {}
  BY <1>3, FileFieldChange DEF FileFields
<1> HIDE DEF d
<1>5. IsFile(e) /\ e.path = path /\ e.open_ref_count = 1 /\ e.readers = {} /\ e.writers = {}
  BY <1>4, FileFieldChange DEF FileFields
<1>6. QED
  BY Zenon, <1>5 DEF Fresh, a, b, c, d

\* A struct file without references is not opened, and nobody uses it.
LEMMA Unused ==
    ASSUME Good, NEW f \in FileIds, files[f].open_ref_count = 0
    PROVE  References(f) = {} /\ ~IsOpened(f)
<1>1. Cardinality(References(f)) = 0
  BY Zenon DEF Good, CountInv
<1>2. References(f) = {}
  BY Zenon, <1>1, FiniteReferences, FS_EmptySet
<1>3. ~IsOpened(f)
  BY DEF IsOpened, Good, OpenedInv
<1>4. QED
  BY Zenon, <1>2, <1>3

\* A list with a new first element.
LEMMA Prepended ==
    ASSUME NEW S, NEW s \in Seq(S), NEW x \in S
    PROVE  /\ <<x>> \o s \in Seq(S) /\ Len(<<x>> \o s) = Len(s) + 1
           /\ (<<x>> \o s)[1] = x
           /\ \A i \in 2 .. Len(s) + 1 : (<<x>> \o s)[i] = s[i - 1] /\ i - 1 \in 1 .. Len(s)
  OBVIOUS

\* open_file() makes the struct file, with one reference, and puts it in OPENED_FILES.
LEMMA Creating ==
    ASSUME Good, NEW p \in Procs, open_file(p)
    PROVE  IInv'
<1> DEFINE m   == MountWithId(call[p].mount)
           rel == SubSeq(call[p].path, Len(m.mount_point) + 1, Len(call[p].path))
<1>1. CASE ~IsMounted(call[p].mount)
  BY Zenon, <1>1, Halting DEF open_file
<1>2. CASE IsMounted(call[p].mount) /\ find_file(disks[m.disk], rel) = NOT_FOUND
  BY Zenon, <1>2, Halting DEF open_file, CreateFile
<1>3. CASE IsMounted(call[p].mount) /\ find_file(disks[m.disk], rel) # NOT_FOUND
  <2>1. PICK f \in FileIds : f = Min(FreeFiles) /\ files[f].open_ref_count = 0
    <3>1. FreeFiles \subseteq Nat /\ FreeFiles # {}
      BY Zenon, FilesAssumption DEF FreeFiles, open_file
    <3>2. Min(FreeFiles) \in FreeFiles
      BY Zenon, <3>1, MinElement
    <3>3. QED
      BY Zenon, <3>2 DEF FreeFiles
  <2>2. PICK x : x = Fresh(call[p].path, rel, m.disk, ustar_open_file(disks[m.disk], rel))
    BY Zenon
  <2>3. /\ call[p].pc = "create" /\ file_table' = file_table /\ oflock' = NoProc /\ opened' = <<f>> \o opened
        /\ files' = [files EXCEPT ![f] = x]
        /\ call' = [call EXCEPT ![p] = WithFile(call[p], "install", f)]
    BY ZenonT(30), <1>3, <2>1, <2>2 DEF open_file, CreateFile, At, Fresh, WithFile
  <2> HIDE DEF m, rel
  <2>4. IsFile(x) /\ x.path = call[p].path /\ x.open_ref_count = 1 /\ x.readers = {} /\ x.writers = {}
    BY <2>2, FreshFields
  <2>5. FilesTyped' /\ files'[f] = x /\ \A g \in FileIds \ {f} : files'[g] = files[g]
    BY Zenon, <2>3, <2>4, FileMoves
  <2>6. IsCall(call[p]) /\ "install" \in Pcs
    BY Zenon DEF Good, TypeInv, CallsTyped, Pcs
  <2>7. PICK c : c = WithFile(call[p], "install", f) /\ IsCall(c) /\ c.pc = "install" /\ c.file = f
    BY <2>6, OpenFields
  <2>8. CallsTyped' /\ call'[p] = c /\ \A q \in Procs \ {p} : call'[q] = call[q]
    BY Zenon, <2>3, <2>7, CallMoves
  <2>9. /\ opened' \in Seq(FileIds) /\ Len(opened') = Len(opened) + 1 /\ opened'[1] = f
        /\ \A i \in 2 .. Len(opened') : opened'[i] = opened[i - 1] /\ i - 1 \in 1 .. Len(opened)
    BY <2>3, Prepended DEF Good, TypeInv
  <2>10. TypeInv'
    BY Zenon, <2>3, <2>5, <2>8, <2>9 DEF Good, TypeInv, TablesTyped
  <2>11. References(f) = {} /\ ~IsOpened(f)
    BY Zenon, <2>1, Unused
  <2>12. oflock = p /\ \A q \in Procs \ {p} : call[q].pc \notin LockPcs
    BY Zenon, <2>3 DEF Good, CallInv, CallOk, LockPcs
  <2>13. \A q \in Procs : call'[q].pc \notin LockPcs
    BY Zenon, <2>7, <2>8, <2>12 DEF LockPcs
  <2>14. CallInv'
    <3>1. CallOk(p, call[p])'
      BY Zenon, <2>3, <2>7, <2>8, FilesAssumption DEF CallOk, LockPcs, DescriptorPcs, ReadPcs, WritePcs
    <3>2. ASSUME NEW q \in Procs, q # p
          PROVE  CallOk(q, call[q])'
      BY ZenonT(30), <2>3, <2>8, <2>12, <3>2, FilesAssumption DEF Good, CallInv, CallOk
    <3>3. QED
      BY Zenon, <3>1, <3>2 DEF CallInv
  <2>15. \A i \in 1 .. Len(opened) : /\ opened[i] \in FileIds /\ opened[i] # f
                                      /\ files'[opened[i]] = files[opened[i]]
                                      /\ files[opened[i]].path # call[p].path
    BY SMTT(30), <2>3, <2>5, <2>11 DEF IsOpened, Good, TypeInv, OpenedInv
  <2>16. OpenedInv'
    <3>1. ASSUME NEW i \in 1 .. Len(opened'), NEW j \in 1 .. Len(opened'), files'[opened'[i]].path = files'[opened'[j]].path
          PROVE  i = j
      <4>1. CASE i = 1 \/ j = 1
        BY SMTT(30), <2>4, <2>5, <2>9, <2>15, <3>1, <4>1
      <4>2. CASE i # 1 /\ j # 1
        BY <2>9, <2>15, <3>1, <4>2 DEF Good, OpenedInv
      <4>3. QED
        BY Zenon, <4>1, <4>2
    <3>2. ASSUME NEW i \in 1 .. Len(opened')
          PROVE  files'[opened'[i]].open_ref_count > 0
      <4>1. CASE i = 1
        BY SMTT(30), <2>4, <2>5, <2>9, <4>1
      <4>2. CASE i # 1
        BY <2>9, <2>15, <4>2 DEF Good, OpenedInv
      <4>3. QED
        BY Zenon, <4>1, <4>2
    <3>3. ASSUME NEW g \in FileIds, files'[g].open_ref_count > 0
          PROVE  IsOpened(g)'
      <4>1. CASE g = f
        BY <2>9, <4>1 DEF IsOpened, Good, TypeInv
      <4>2. CASE g # f
        <5>1. PICK i \in 1 .. Len(opened) : opened[i] = g
          BY SMTT(30), <2>3, <2>5, <2>12, <3>3, <4>2 DEF Good, OpenedInv, IsOpened, LockPcs
        <5>2. i + 1 \in 2 .. Len(opened') /\ opened'[i + 1] = g
          BY <2>9, <5>1 DEF Good, TypeInv
        <5>3. QED
          BY SMTT(30), <2>9, <5>2 DEF IsOpened
      <4>3. QED
        BY Zenon, <4>1, <4>2
    <3>4. QED
      BY Zenon, <2>13, <3>1, <3>2, <3>3 DEF OpenedInv, LockPcs
  <2>17. CountInv'
    <3>1. ASSUME NEW g \in FileIds, g # f
          PROVE  References(g)' = References(g)
      BY SMTT(30), <2>3, <2>7, <2>8, <3>1 DEF References
    <3>2. References(f)' = {<<p, MAX_FDS>>}
      BY <2>3, <2>7, <2>8, <2>11 DEF References
    <3>3. Cardinality(References(f))' = 1
      BY ZenonT(30), <3>2, FS_Singleton
    <3>4. QED
      BY ZenonT(30), <2>4, <2>5, <3>1, <3>3 DEF Good, CountInv
  <2>18. SectionInv'
    BY <2>3, <2>4, <2>5, <2>8 DEF Good, SectionInv, ReadPcs, WritePcs
  <2>19. QED
    BY Zenon, <2>10, <2>14, <2>16, <2>17, <2>18 DEF IInv, Good
<1>4. QED
  BY Zenon, <1>1, <1>2, <1>3

\* do_open() puts the file in the first free entry of the table.
LEMMA Installing ==
    ASSUME Good, NEW p \in Procs, OpenInstall(p)
    PROVE  IInv'
<1> DEFINE free == {d \in Fds : file_table[p][d] = NoEntry}
<1>1. CASE free = {}
  BY Zenon, <1>1, Halting DEF OpenInstall
<1>2. CASE free # {}
  <2>1. PICK fd \in Fds : fd = Min(free) /\ file_table[p][fd] = NoEntry
    <3>1. free \subseteq Nat
      BY FilesAssumption DEF Fds
    <3>2. Min(free) \in free
      BY Zenon, <1>2, <3>1, MinElement
    <3>3. QED
      BY Zenon, <3>2
  <2>2. PICK f \in FileIds : f = call[p].file
    BY Zenon DEF Good, CallInv, CallOk, OpenInstall, At
  <2>3. PICK e : e = [file |-> f, file_pointer |-> 0]
    BY Zenon
  <2>4. file_table' = [file_table EXCEPT ![p][fd] = e]
    BY Zenon, <1>2, <2>1, <2>2, <2>3 DEF OpenInstall
  <2>5. /\ call[p].pc = "install"
        /\ call' = [call EXCEPT ![p] = Idle] /\ UNCHANGED <<files, opened, oflock>>
    BY Zenon, <1>2 DEF OpenInstall, At, Return
  <2>6. IsEntry(e) /\ e.file = f
    BY Zenon, <2>3, FilesAssumption DEF IsEntry, EntryFields, NoFile
  <2>7. /\ TablesTyped' /\ file_table'[p][fd] = e
        /\ \A q \in Procs : \A d \in Fds : ~(q = p /\ d = fd) => file_table'[q][d] = file_table[q][d]
    BY Zenon, <2>6, <2>4 DEF Good, TypeInv, TablesTyped
  <2>8. IsCall(Idle) /\ Idle.pc = "idle"
    BY Zenon DEF IsCall, CallFields, Pcs, Idle
  <2>9. CallsTyped' /\ call'[p] = Idle /\ \A q \in Procs \ {p} : call'[q] = call[q]
    BY Zenon, <2>5, <2>8, CallMoves
  <2>10. TypeInv'
    BY Zenon, <2>5, <2>7, <2>9 DEF Good, TypeInv, FilesTyped
  <2>11. file_table[p][fd].file = NoFile /\ NoFile \notin FileIds
    BY <2>1, FilesAssumption DEF NoEntry, NoFile
  <2>12. CallInv'
    <3>1. CallOk(p, call[p])'
      BY Zenon, <2>5, <2>8, <2>9 DEF Good, CallInv, CallOk, LockPcs, DescriptorPcs, ReadPcs, WritePcs
    <3>2. ASSUME NEW q \in Procs, q # p
          PROVE  CallOk(q, call[q])'
      BY SMTT(30), <2>5, <2>7, <2>9, <3>2 DEF Good, CallInv, CallOk
    <3>3. QED
      BY Zenon, <3>1, <3>2 DEF CallInv
  <2>13. OpenedInv'
    <3>1. \A g \in FileIds : IsOpened(g)' <=> IsOpened(g)
      BY Zenon, <2>5 DEF IsOpened
    <3>2. \A q \in Procs : /\ call'[q].pc \in LockPcs => call'[q] = call[q]
                           /\ call[q].pc \in LockPcs => call'[q] = call[q]
      BY Zenon, <2>5, <2>8, <2>9 DEF LockPcs
    <3>3. /\ \A i, j \in 1 .. Len(opened') : files'[opened'[i]].path = files'[opened'[j]].path => i = j
          /\ \A i \in 1 .. Len(opened') : files'[opened'[i]].open_ref_count > 0
      BY Zenon, <2>5 DEF Good, OpenedInv
    <3>4. ASSUME NEW g \in FileIds, files'[g].open_ref_count > 0
          PROVE  IsOpened(g)' \/ \E q \in Procs : call'[q].pc = "closefile" /\ call'[q].file = g
      <4>1. IsOpened(g) \/ \E q \in Procs : call[q].pc = "closefile" /\ call[q].file = g
        BY Zenon, <2>5, <3>4 DEF Good, OpenedInv
      <4>2. QED
        BY Zenon, <3>1, <3>2, <4>1 DEF LockPcs
    <3>5. ASSUME NEW q \in Procs, call'[q].pc = "closefile"
          PROVE  files'[call'[q].file].open_ref_count = 1 /\ ~IsOpened(call[q].file)'
      <4>1. call'[q] = call[q]
        BY Zenon, <3>2, <3>5 DEF LockPcs
      <4>2. files[call[q].file].open_ref_count = 1 /\ ~IsOpened(call[q].file)
        BY Zenon, <3>5, <4>1 DEF Good, OpenedInv
      <4>3. QED
        BY Zenon, <2>5, <4>1, <4>2 DEF IsOpened
    <3>6. ASSUME NEW q \in Procs, call'[q].pc \in {"mount", "create"}
          PROVE  \A i \in 1 .. Len(opened') : files'[opened'[i]].path # call'[q].path
      <4>1. call'[q] = call[q]
        BY Zenon, <3>2, <3>6 DEF LockPcs
      <4>2. QED
        BY <2>5, <3>6, <4>1 DEF Good, OpenedInv
    <3>7. QED
      BY Zenon, <3>3, <3>4, <3>5, <3>6 DEF OpenedInv
  <2>14. CountInv'
    <3>1. ASSUME NEW g \in FileIds, g # f
          PROVE  References(g)' = References(g)
      <4>1. \A q \in Procs : \A d \in Fds : file_table'[q][d].file = g <=> file_table[q][d].file = g
        BY Zenon, <2>6, <2>7, <2>11, <3>1
      <4>2. \A q \in Procs : call'[q].pc = "install" /\ call'[q].file = g <=> call[q].pc = "install" /\ call[q].file = g
        BY Zenon, <2>2, <2>8, <2>9, <3>1
      <4>3. QED
        BY <4>1, <4>2 DEF References
    <3>2. PICK S : S = References(f) \ {<<p, MAX_FDS>>}
      BY Zenon
    <3>3. References(f)' = S \cup {<<p, fd>>}
      <4>1. \A q \in Procs : \A d \in Fds : file_table'[q][d].file = f <=> file_table[q][d].file = f \/ (q = p /\ d = fd)
        <5>1. ASSUME NEW q \in Procs, NEW d \in Fds
              PROVE  file_table'[q][d].file = f <=> file_table[q][d].file = f \/ (q = p /\ d = fd)
          <6>1. CASE q = p /\ d = fd
            BY Zenon, <2>6, <2>7, <6>1
          <6>2. CASE ~(q = p /\ d = fd)
            BY Zenon, <2>7, <6>2
          <6>3. QED
            BY Zenon, <6>1, <6>2
        <5>2. QED
          BY Zenon, <5>1
      <4>2. \A q \in Procs : call'[q].pc = "install" /\ call'[q].file = f <=>
                               q # p /\ call[q].pc = "install" /\ call[q].file = f
        BY Zenon, <2>8, <2>9
      <4>3. 0 .. MAX_FDS = Fds \cup {MAX_FDS} /\ MAX_FDS \notin Fds
        BY FilesAssumption DEF Fds
      <4>4. QED
        BY <3>2, <4>1, <4>2, <4>3, ReferencesAre
    <3>4. <<p, MAX_FDS>> \in References(f) /\ <<p, fd>> \notin References(f)
      <4>1. <<p, MAX_FDS>> \in References(f)
        BY Zenon, <2>2, <2>5 DEF References
      <4>2. <<p, fd>> \notin References(f)
        BY <2>11, FilesAssumption DEF References, Fds
      <4>3. QED
        BY Zenon, <4>1, <4>2
    <3>5. IsFiniteSet(S) /\ Cardinality(S) = Cardinality(References(f)) - 1 /\ <<p, fd>> \notin S
      BY Zenon, <3>2, <3>4, FiniteReferences, FS_RemoveElement
    <3>6. Cardinality(References(f))' = Cardinality(S) + 1
      BY Zenon, <3>3, <3>5, FS_AddElement
    <3>7. Cardinality(References(f)) \in Nat
      BY Zenon, FiniteReferences, FS_CardinalityType
    <3>8. QED
      BY <2>5, <3>1, <3>5, <3>6, <3>7 DEF Good, CountInv
  <2>15. SectionInv'
    BY <2>5, <2>9 DEF Good, SectionInv, ReadPcs, WritePcs
  <2>16. QED
    BY Zenon, <2>10, <2>12, <2>13, <2>14, <2>15 DEF IInv, Good
<1>3. QED
  BY Zenon, <1>1, <1>2

-----------------------------------------------------------------------------
(* close *)

\* The descriptor that delete_proc() closes next leads to a file.
LEMMA NextToClose ==
    ASSUME Good, NEW p \in Procs, call[p].pc = "close"
    PROVE  Min(OpenFds(p)) \in Fds /\ file_table[p][Min(OpenFds(p))].file \in FileIds
<1>1. OpenFds(p) \subseteq Nat /\ OpenFds(p) # {}
  BY FilesAssumption DEF Good, CallInv, CallOk, OpenFds, Fds, NoEntry, NoFile
<1>2. Min(OpenFds(p)) \in OpenFds(p)
  BY Zenon, <1>1, MinElement
<1>3. QED
  BY Zenon, <1>2 DEF OpenFds, Good, TypeInv, TablesTyped, IsEntry

\* An entry is emptied, and the process goes on to the next one.
LEMMA Cleared ==
    ASSUME Good, NEW p \in Procs, NEW fd \in Fds, NEW f \in FileIds, file_table[p][fd].file = f,
           call[p].pc # "install",
           file_table' = [file_table EXCEPT ![p][fd] = NoEntry],
           call' = [call EXCEPT ![p] = [Idle EXCEPT !.pc = ClosesNext(p, fd)]]
    PROVE  /\ CallsTyped' /\ call'[p].pc \in {"idle", "close"} /\ \A q \in Procs \ {p} : call'[q] = call[q]
           /\ TablesTyped' /\ \A q \in Procs \ {p} : file_table'[q] = file_table[q]
           /\ call'[p].pc = "close" => \E d \in Fds : file_table'[p][d].file # NoFile
           /\ <<p, fd>> \in References(f) /\ References(f)' = References(f) \ {<<p, fd>>}
           /\ \A g \in FileIds \ {f} : References(g)' = References(g)
<1>1. PICK c : c = [Idle EXCEPT !.pc = ClosesNext(p, fd)]
  BY Zenon
<1>2. IsCall(c) /\ c.pc = ClosesNext(p, fd) /\ c.pc \in {"idle", "close"}
  BY Zenon, <1>1 DEF ClosesNext, IsCall, CallFields, Pcs, Idle
<1>3. call' = [call EXCEPT ![p] = c]
  BY Zenon, <1>1
<1>4. CallsTyped' /\ call'[p] = c /\ \A q \in Procs \ {p} : call'[q] = call[q]
  BY Zenon, <1>2, <1>3, CallMoves
<1>5. IsEntry(NoEntry) /\ NoEntry.file = NoFile /\ NoFile \notin FileIds
  BY Zenon, FilesAssumption DEF IsEntry, EntryFields, NoEntry, NoFile
<1>6. /\ TablesTyped' /\ file_table'[p][fd] = NoEntry
      /\ \A q \in Procs : \A d \in Fds : ~(q = p /\ d = fd) => file_table'[q][d] = file_table[q][d]
  BY ZenonT(30), <1>5 DEF Good, TypeInv, TablesTyped
<1>7. \A q \in Procs \ {p} : file_table'[q] = file_table[q]
  BY Zenon DEF Good, TypeInv, TablesTyped
<1>8. ASSUME call'[p].pc = "close"
      PROVE  \E d \in Fds : file_table'[p][d].file # NoFile
  <2>1. fd \in OpenFds(p) /\ OpenFds(p) # {fd}
    BY <1>2, <1>4, <1>5, <1>8 DEF ClosesNext, OpenFds
  <2>2. PICK d \in Fds : d # fd /\ file_table[p][d] # NoEntry
    BY Zenon, <2>1 DEF OpenFds
  <2>3. file_table[p][d].file # NoFile
    BY Zenon, <2>2 DEF Good, TypeInv, TablesTyped, IsEntry
  <2>4. QED
    BY Zenon, <1>6, <2>2, <2>3
<1>9. 0 .. MAX_FDS = Fds \cup {MAX_FDS} /\ MAX_FDS \notin Fds
  BY FilesAssumption DEF Fds
<1>10. <<p, fd>> \in References(f)
  BY Zenon DEF References
<1>11. \A q \in Procs : \A g : call'[q].pc = "install" /\ call'[q].file = g <=> call[q].pc = "install" /\ call[q].file = g
  BY Zenon, <1>2, <1>4
<1>12. \A q \in Procs : \A d \in Fds : \A g \in FileIds :
          file_table'[q][d].file = g <=> file_table[q][d].file = g /\ ~(q = p /\ d = fd)
  <2>1. ASSUME NEW q \in Procs, NEW d \in Fds, NEW g \in FileIds
        PROVE  file_table'[q][d].file = g <=> file_table[q][d].file = g /\ ~(q = p /\ d = fd)
    <3>1. CASE q = p /\ d = fd
      BY <1>5, <1>6, <3>1
    <3>2. CASE ~(q = p /\ d = fd)
      BY Zenon, <1>6, <3>2
    <3>3. QED
      BY Zenon, <3>1, <3>2
  <2>2. QED
    BY Zenon, <2>1
<1>13. References(f)' = References(f) \ {<<p, fd>>}
  <2>1. \A q \in Procs : \A d \in Fds : file_table'[q][d].file = f <=> file_table[q][d].file = f /\ ~(q = p /\ d = fd)
    BY <1>12
  <2>2. \A q \in Procs : call'[q].pc = "install" /\ call'[q].file = f <=> call[q].pc = "install" /\ call[q].file = f
    BY Zenon, <1>11
  <2>3. QED
    BY <1>9, <2>1, <2>2, ReferencesAre
<1>14. ASSUME NEW g \in FileIds, g # f
       PROVE  References(g)' = References(g)
  <2>1. \A q \in Procs : \A d \in Fds : file_table'[q][d].file = g <=> file_table[q][d].file = g
    BY <1>12, <1>14
  <2>2. \A q \in Procs : call'[q].pc = "install" /\ call'[q].file = g <=> call[q].pc = "install" /\ call[q].file = g
    BY Zenon, <1>11
  <2>3. QED
    BY <2>1, <2>2 DEF References
<1>15. QED
  BY ZenonT(30), <1>2, <1>4, <1>6, <1>7, <1>8, <1>10, <1>13, <1>14

\* vfs_close() of a file with other references.
LEMMA ClosingShared ==
    ASSUME Good, NEW p \in Procs, vfs_close(p),
           files[file_table[p][Min(OpenFds(p))].file].open_ref_count # 1
    PROVE  IInv'
<1>1. call[p].pc = "close" /\ Unlocked
  BY Zenon DEF vfs_close, At
<1>2. PICK fd \in Fds : fd = Min(OpenFds(p)) /\ file_table[p][fd].file \in FileIds
  BY Zenon, <1>1, NextToClose
<1>3. PICK f \in FileIds : f = file_table[p][fd].file
  BY Zenon, <1>2
<1>4. PICK n : n = files[f].open_ref_count - 1
  BY Zenon
<1>5. /\ files' = [files EXCEPT ![f].open_ref_count = n]
      /\ file_table' = [file_table EXCEPT ![p][fd] = NoEntry]
      /\ call' = [call EXCEPT ![p] = [Idle EXCEPT !.pc = ClosesNext(p, fd)]]
      /\ opened' = opened /\ oflock' = oflock
  BY Zenon, <1>2, <1>3, <1>4 DEF vfs_close
<1>6. /\ CallsTyped' /\ call'[p].pc \in {"idle", "close"} /\ \A q \in Procs \ {p} : call'[q] = call[q]
      /\ TablesTyped' /\ \A q \in Procs \ {p} : file_table'[q] = file_table[q]
      /\ call'[p].pc = "close" => \E d \in Fds : file_table'[p][d].file # NoFile
      /\ <<p, fd>> \in References(f) /\ References(f)' = References(f) \ {<<p, fd>>}
      /\ \A g \in FileIds \ {f} : References(g)' = References(g)
  BY ZenonT(30), <1>1, <1>3, <1>5, Cleared
<1>7. Cardinality(References(f))' = Cardinality(References(f)) - 1
  BY Zenon, <1>6, OneReferenceLess
<1>8. /\ Cardinality(References(f)) \in Nat /\ Cardinality(References(f) \ {<<p, fd>>}) \in Nat
      /\ Cardinality(References(f) \ {<<p, fd>>}) = Cardinality(References(f)) - 1
  BY Zenon, <1>6, FiniteReferences, FS_RemoveElement, FS_CardinalityType
<1>9. files[f].open_ref_count = Cardinality(References(f)) /\ n \in Nat /\ n > 0
  BY <1>2, <1>3, <1>4, <1>8 DEF Good, CountInv
<1>10. /\ FilesTyped' /\ files'[f].open_ref_count = n
       /\ \A g \in FileIds \ {f} : files'[g] = files[g]
       /\ \A g \in FileIds : /\ files'[g].path = files[g].path
                             /\ files'[g].readers = files[g].readers /\ files'[g].writers = files[g].writers
  BY Zenon, <1>5, <1>9, Counting
<1>11. TypeInv'
  BY Zenon, <1>5, <1>6, <1>10 DEF Good, TypeInv
<1>12. /\ \A q \in Procs : call[q].pc \notin LockPcs /\ call'[q].pc \notin LockPcs
       /\ \A g \in FileIds : files[g].open_ref_count > 0 => IsOpened(g)
  BY Zenon, <1>1, <1>6, FreeLock DEF LockPcs
<1>13. CallInv'
  <2>1. CallOk(p, call[p])'
    BY Zenon, <1>1, <1>5, <1>6 DEF Good, CallInv, CallOk, LockPcs, DescriptorPcs, ReadPcs, WritePcs
  <2>2. ASSUME NEW q \in Procs, q # p
        PROVE  CallOk(q, call[q])'
    BY <1>5, <1>6, <2>2 DEF Good, CallInv, CallOk
  <2>3. QED
    BY Zenon, <2>1, <2>2 DEF CallInv
<1>14. OpenedInv'
  <2>1. \A i \in 1 .. Len(opened) : opened[i] \in FileIds
    BY DEF Good, TypeInv
  <2>2. \A g \in FileIds : IsOpened(g)' <=> IsOpened(g)
    BY Zenon, <1>5 DEF IsOpened
  <2>3. \A g \in FileIds : files'[g].open_ref_count > 0 => IsOpened(g)'
    <3>1. files[f].open_ref_count > 0
      BY <1>4, <1>8, <1>9
    <3>2. ASSUME NEW g \in FileIds, files'[g].open_ref_count > 0
          PROVE  IsOpened(g)
      <4>1. CASE g = f
        BY Zenon, <1>12, <3>1, <4>1
      <4>2. CASE g # f
        BY Zenon, <1>10, <1>12, <3>2, <4>2
      <4>3. QED
        BY Zenon, <4>1, <4>2
    <3>3. QED
      BY Zenon, <2>2, <3>2
  <2>4. \A i, j \in 1 .. Len(opened') : files'[opened'[i]].path = files'[opened'[j]].path => i = j
    <3>1. \A i \in 1 .. Len(opened) : files'[opened[i]].path = files[opened[i]].path
      BY Zenon, <1>10, <2>1
    <3>2. QED
      BY <1>5, <3>1 DEF Good, OpenedInv
  <2>5. ASSUME NEW i \in 1 .. Len(opened')
        PROVE  files'[opened'[i]].open_ref_count > 0
    <3>1. opened'[i] = opened[i] /\ opened[i] \in FileIds /\ files[opened[i]].open_ref_count > 0
      BY Zenon, <1>5, <2>1 DEF Good, OpenedInv
    <3>2. QED
      BY Zenon, <1>9, <1>10, <3>1
  <2>6. QED
    BY ZenonT(30), <1>12, <2>3, <2>4, <2>5 DEF OpenedInv, LockPcs
<1>15. CountInv'
  BY ZenonT(30), <1>4, <1>6, <1>7, <1>9, <1>10 DEF Good, CountInv
<1>16. SectionInv'
  BY <1>1, <1>6, <1>10 DEF Good, SectionInv, ReadPcs, WritePcs
<1>17. QED
  BY Zenon, <1>11, <1>13, <1>14, <1>15, <1>16 DEF IInv, Good

\* vfs_close() of a file with no other reference takes the file off the list and
\* keeps the lock of the list.
LEMMA ClosingLast ==
    ASSUME Good, NEW p \in Procs, vfs_close(p),
           MountsFor(files[file_table[p][Min(OpenFds(p))].file].path) # {},
           files[file_table[p][Min(OpenFds(p))].file].open_ref_count = 1
    PROVE  IInv'
<1>1. call[p].pc = "close" /\ Unlocked
  BY Zenon DEF vfs_close, At
<1>2. PICK fd \in Fds : fd = Min(OpenFds(p)) /\ file_table[p][fd].file \in FileIds
  BY Zenon, <1>1, NextToClose
<1>3. PICK f \in FileIds : f = file_table[p][fd].file
  BY Zenon, <1>2
<1>4. PICK m : m = find_mount_for_file(files[f].path).id
  BY Zenon
<1>5. PICK i : i = CHOOSE j \in DOMAIN opened : opened[j] = f
  BY ZenonT(30)
<1>6. /\ opened' = list_del(opened, i) /\ oflock' = p
      /\ call' = [call EXCEPT ![p] = Closing(call[p], fd, f, m)]
      /\ files' = files /\ file_table' = file_table
  <2>1. call' = [call EXCEPT ![p] = [@ EXCEPT !.pc = "closefile", !.fd = fd, !.file = f, !.mount = m]]
    BY Zenon, <1>2, <1>3, <1>4 DEF vfs_close
  <2>2. call' = [call EXCEPT ![p] = Closing(call[p], fd, f, m)]
    BY Zenon, <2>1 DEF Closing
  <2>3. opened' = list_del(opened, i) /\ oflock' = p /\ files' = files /\ file_table' = file_table
    BY Zenon, <1>2, <1>3, <1>5 DEF vfs_close
  <2>4. QED
    BY Zenon, <2>2, <2>3
<1>7. files[f].open_ref_count = 1
  BY Zenon, <1>2, <1>3
<1>8. /\ \A q \in Procs : call[q].pc \notin LockPcs
      /\ \A g \in FileIds : files[g].open_ref_count > 0 => IsOpened(g)
  BY Zenon, <1>1, FreeLock DEF LockPcs
<1>9. i \in 1 .. Len(opened) /\ opened[i] = f
  <2>1. DOMAIN opened = 1 .. Len(opened)
    BY SMTT(30) DEF Good, TypeInv
  <2>2. \E j \in DOMAIN opened : opened[j] = f
    BY <1>7, <1>8, <2>1 DEF IsOpened
  <2>3. QED
    BY Zenon, <1>5, <2>1, <2>2
<1>10. /\ opened' \in Seq(FileIds) /\ Len(opened') = Len(opened) - 1
       /\ \A k \in 1 .. Len(opened') : opened'[k] = opened[IF k < i THEN k ELSE k + 1]
  BY Zenon, <1>6, <1>9, ListDel DEF Good, TypeInv
<1>11. PICK c : c = Closing(call[p], fd, f, m)
  BY Zenon
<1>12. IsCall(call[p])
  BY Zenon DEF Good, TypeInv, CallsTyped
<1>13. IsCall(c) /\ c.pc = "closefile" /\ c.fd = fd /\ c.file = f
  BY <1>11, <1>12, CloseFields
<1>14. CallsTyped' /\ call'[p] = c /\ \A q \in Procs \ {p} : call'[q] = call[q]
  BY Zenon, <1>6, <1>11, <1>13, CallMoves
<1>15. TypeInv'
  BY Zenon, <1>6, <1>10, <1>14 DEF Good, TypeInv, FilesTyped, TablesTyped
<1>16. CallInv'
  <2>1. CallOk(p, call[p])'
    BY Zenon, <1>3, <1>6, <1>13, <1>14 DEF CallOk, LockPcs, DescriptorPcs
  <2>2. ASSUME NEW q \in Procs, q # p
        PROVE  CallOk(q, call[q])'
    BY ZenonT(30), <1>6, <1>8, <1>14, <2>2 DEF Good, CallInv, CallOk
  <2>3. QED
    BY Zenon, <2>1, <2>2 DEF CallInv
<1>17. OpenedInv'
  <2>1. ASSUME NEW k \in 1 .. Len(opened')
        PROVE  \E j \in 1 .. Len(opened) : j # i /\ opened'[k] = opened[j] /\ j = IF k < i THEN k ELSE k + 1
    BY SMTT(30), <1>9, <1>10, <2>1
  <2>2. \A j, k \in 1 .. Len(opened) : files[opened[j]].path = files[opened[k]].path => j = k
    BY Zenon DEF Good, OpenedInv
  <2>3. ASSUME NEW j \in 1 .. Len(opened'), NEW k \in 1 .. Len(opened'),
               files[opened'[j]].path = files[opened'[k]].path
        PROVE  j = k
    <3>1. PICK x \in 1 .. Len(opened) : opened'[j] = opened[x] /\ x = IF j < i THEN j ELSE j + 1
      BY Zenon, <2>1
    <3>2. PICK y \in 1 .. Len(opened) : opened'[k] = opened[y] /\ y = IF k < i THEN k ELSE k + 1
      BY Zenon, <2>1
    <3>3. x = y
      BY ZenonT(30), <2>2, <2>3, <3>1, <3>2
    <3>4. QED
      BY <1>9, <3>1, <3>2, <3>3
  <2>4. \A k \in 1 .. Len(opened') : files[opened'[k]].open_ref_count > 0
    BY SMTT(30), <2>1 DEF Good, OpenedInv
  <2>5. ~IsOpened(f)'
    <3>1. SUFFICES ASSUME NEW k \in 1 .. Len(opened'), opened'[k] = f PROVE FALSE
      BY Zenon DEF IsOpened
    <3>2. PICK j \in 1 .. Len(opened) : j # i /\ opened'[k] = opened[j]
      BY Zenon, <2>1
    <3>3. QED
      BY Zenon, <1>9, <2>2, <3>1, <3>2
  <2>6. ASSUME NEW g \in FileIds, g # f, files[g].open_ref_count > 0
        PROVE  IsOpened(g)'
    <3>1. PICK j \in 1 .. Len(opened) : opened[j] = g
      BY Zenon, <1>8, <2>6 DEF IsOpened
    <3>2. j # i
      BY ZenonT(30), <1>9, <2>6, <3>1
    <3>3. PICK k \in 1 .. Len(opened') : j = IF k < i THEN k ELSE k + 1
      <4>1. CASE j < i
        BY <1>9, <1>10, <4>1
      <4>2. CASE j > i
        <5>1. j - 1 \in 1 .. Len(opened') /\ ~(j - 1 < i) /\ j = (j - 1) + 1
          BY <1>9, <1>10, <4>2
        <5>2. QED
          BY Zenon, <5>1
      <4>3. QED
        BY SMTT(30), <1>9, <3>2, <4>1, <4>2
    <3>4. opened'[k] = g
      BY Zenon, <1>10, <3>1, <3>3
    <3>5. QED
      BY Zenon, <3>4 DEF IsOpened
  <2>7. \A q \in Procs : call'[q].pc \in LockPcs => q = p
    BY Zenon, <1>8, <1>14
  <2>8. QED
    BY Zenon, <1>6, <1>7, <1>13, <1>14, <2>3, <2>4, <2>5, <2>6, <2>7 DEF OpenedInv, LockPcs
<1>18. CountInv'
  <2>1. \A q \in Procs : \A g : call'[q].pc = "install" /\ call'[q].file = g <=> call[q].pc = "install" /\ call[q].file = g
    BY ZenonT(30), <1>1, <1>13, <1>14
  <2>2. \A g \in FileIds : References(g)' = References(g)
    BY <1>6, <2>1 DEF References
  <2>3. QED
    BY Zenon, <1>6, <2>2 DEF Good, CountInv
<1>19. SectionInv'
  BY ZenonT(30), <1>1, <1>6, <1>14 DEF Good, SectionInv, ReadPcs, WritePcs
<1>20. QED
  BY Zenon, <1>15, <1>16, <1>17, <1>18, <1>19 DEF IInv, Good

\* vfs_close(): a step of delete_proc() on the next descriptor.
LEMMA ClosingNext ==
    ASSUME Good, NEW p \in Procs, vfs_close(p)
    PROVE  IInv'
<1> DEFINE f == file_table[p][Min(OpenFds(p))].file
<1>1. CASE files[f].open_ref_count # 1
  BY Zenon, <1>1, ClosingShared
<1>2. CASE files[f].open_ref_count = 1 /\ MountsFor(files[f].path) # {}
  BY Zenon, <1>2, ClosingLast
<1>3. CASE files[f].open_ref_count = 1 /\ MountsFor(files[f].path) = {}
  <2>1. Halt("panic")
    BY Zenon, <1>3 DEF vfs_close
  <2>2. QED
    BY Zenon, <2>1, Halting
<1>4. QED
  BY Zenon, <1>1, <1>2, <1>3

\* close_file() frees the file, whose last reference was the descriptor.
LEMMA ClosingFile ==
    ASSUME Good, NEW p \in Procs, close_file(p)
    PROVE  IInv'
<1>1. CASE ~IsMounted(call[p].mount)
  <2>1. Halt("use after free")
    BY Zenon, <1>1 DEF close_file
  <2>2. QED
    BY Zenon, <2>1, Halting
<1>2. CASE IsMounted(call[p].mount)
  <2>1. PICK f, fd : f = call[p].file /\ fd = call[p].fd
    BY Zenon
  <2>2. /\ call[p].pc = "closefile" /\ files[f].readers = {} /\ files[f].writers = {}
        /\ files' = [files EXCEPT ![f] = FreeFile] /\ opened' = opened /\ oflock' = NoProc
        /\ file_table' = [file_table EXCEPT ![p][fd] = NoEntry]
        /\ call' = [call EXCEPT ![p] = [Idle EXCEPT !.pc = ClosesNext(p, fd)]]
    BY Zenon, <1>2, <2>1 DEF close_file, At
  <2>3. f \in FileIds /\ fd \in Fds /\ file_table[p][fd].file = f /\ oflock = p
    BY Zenon, <2>1, <2>2 DEF Good, CallInv, CallOk, LockPcs, DescriptorPcs
  <2>4. /\ CallsTyped' /\ call'[p].pc \in {"idle", "close"} /\ \A q \in Procs \ {p} : call'[q] = call[q]
        /\ TablesTyped' /\ \A q \in Procs \ {p} : file_table'[q] = file_table[q]
        /\ call'[p].pc = "close" => \E d \in Fds : file_table'[p][d].file # NoFile
        /\ <<p, fd>> \in References(f) /\ References(f)' = References(f) \ {<<p, fd>>}
        /\ \A g \in FileIds \ {f} : References(g)' = References(g)
    <3>1. call[p].pc # "install"
      BY Zenon, <2>2
    <3>2. QED
      BY Zenon, <2>2, <2>3, <3>1, Cleared
  <2>5. IsFile(FreeFile) /\ FreeFile.open_ref_count = 0 /\ FreeFile.readers = {} /\ FreeFile.writers = {}
    BY Zenon, FreeFields
  <2>6. FilesTyped' /\ files'[f] = FreeFile /\ \A g \in FileIds \ {f} : files'[g] = files[g]
    BY Zenon, <2>2, <2>3, <2>5, FileMoves
  <2>7. TypeInv'
    BY Zenon, <2>2, <2>4, <2>6 DEF Good, TypeInv
  <2>8. \A q \in Procs : q # p => call[q].pc \notin LockPcs
    BY Zenon, <2>3 DEF Good, CallInv, CallOk
  <2>9. \A q \in Procs : call'[q].pc \notin LockPcs
    BY Zenon, <2>4, <2>8 DEF LockPcs
  <2>10. CallInv'
    <3>1. CallOk(p, call[p])'
      BY Zenon, <2>2, <2>4, <2>9, FilesAssumption DEF CallOk, DescriptorPcs, ReadPcs, WritePcs
    <3>2. ASSUME NEW q \in Procs, q # p
          PROVE  CallOk(q, call[q])'
      BY SMTT(30), <2>2, <2>4, <2>9, <3>2, FilesAssumption DEF Good, CallInv, CallOk
    <3>3. QED
      BY Zenon, <3>1, <3>2 DEF CallInv
  <2>11. OpenedInv'
    <3>1. \A i \in 1 .. Len(opened) : opened[i] \in FileIds /\ opened[i] # f
      BY <2>1, <2>2 DEF Good, TypeInv, OpenedInv, IsOpened
    <3>2. \A i \in 1 .. Len(opened) : files'[opened[i]] = files[opened[i]]
      BY Zenon, <2>6, <3>1
    <3>3. \A g \in FileIds : IsOpened(g)' <=> IsOpened(g)
      BY Zenon, <2>2 DEF IsOpened
    <3>4. ASSUME NEW g \in FileIds, files'[g].open_ref_count > 0
          PROVE  IsOpened(g)'
      <4>1. g # f
        BY <2>5, <2>6, <3>4
      <4>2. files[g].open_ref_count > 0
        BY Zenon, <2>6, <3>4, <4>1
      <4>3. IsOpened(g)
        BY Zenon, <2>1, <2>8, <4>1, <4>2 DEF Good, OpenedInv, LockPcs
      <4>4. QED
        BY Zenon, <3>3, <4>3
    <3>5. QED
      BY <2>2, <2>9, <3>2, <3>4 DEF Good, OpenedInv, LockPcs
  <2>12. CountInv'
    <3>1. Cardinality(References(f))' = Cardinality(References(f)) - 1
      BY Zenon, <2>3, <2>4, OneReferenceLess
    <3>2. files[f].open_ref_count = 1
      BY Zenon, <2>1, <2>2 DEF Good, OpenedInv
    <3>3. Cardinality(References(f)) = 1
      BY Zenon, <2>3, <3>2 DEF Good, CountInv
    <3>4. QED
      <4>1. files'[f].open_ref_count = Cardinality(References(f))'
        BY <2>5, <2>6, <3>1, <3>3
      <4>2. \A g \in FileIds \ {f} : files'[g].open_ref_count = Cardinality(References(g))'
        BY Zenon, <2>4, <2>6 DEF Good, CountInv
      <4>3. QED
        BY Zenon, <4>1, <4>2 DEF CountInv
  <2>13. SectionInv'
    <3>1. ASSUME NEW g \in FileIds, NEW q \in Procs
          PROVE  /\ q \in files'[g].readers => call'[q].file = g /\ call'[q].pc \in ReadPcs
                 /\ q \in files'[g].writers => call'[q].file = g /\ call'[q].pc \in WritePcs
      <4>1. CASE g = f
        BY ZenonT(30), <2>5, <2>6, <4>1
      <4>2. CASE g # f /\ q # p
        BY <2>4, <2>6, <4>2 DEF Good, SectionInv
      <4>3. CASE g # f /\ q = p
        BY <2>2, <2>6, <4>3 DEF Good, SectionInv, ReadPcs, WritePcs
      <4>4. QED
        BY Zenon, <4>1, <4>2, <4>3
    <3>2. QED
      BY Zenon, <3>1 DEF SectionInv
  <2>14. QED
    BY Zenon, <2>7, <2>10, <2>11, <2>12, <2>13 DEF IInv, Good
<1>3. QED
  BY Zenon, <1>1, <1>2

-----------------------------------------------------------------------------
(* The theorems. *)

\* vfs_init(): nothing is open, and nobody is in a call.
LEMMA Initially == Init => IInv
<1> SUFFICES ASSUME Init PROVE Good
  BY Zenon DEF IInv
<1>1. /\ files = [f \in FileIds |-> FreeFile] /\ opened = <<>> /\ oflock = NoProc
      /\ file_table = [p \in Procs |-> [fd \in Fds |-> NoEntry]] /\ call = [p \in Procs |-> Idle]
  BY Zenon DEF Init
<1>2. IsCall(Idle) /\ Idle.pc = "idle" /\ IsEntry(NoEntry) /\ NoEntry.file = NoFile
  BY Zenon DEF IsCall, CallFields, Pcs, Idle, IsEntry, EntryFields, NoEntry
<1>3. IsFile(FreeFile) /\ FreeFile.open_ref_count = 0 /\ FreeFile.readers = {} /\ FreeFile.writers = {}
  BY Zenon, FreeFields
<1>4. /\ \A p \in Procs : call[p] = Idle
      /\ \A p \in Procs : \A fd \in Fds : file_table[p][fd] = NoEntry
      /\ \A f \in FileIds : files[f] = FreeFile
  BY Zenon, <1>1
<1>5. opened \in Seq(FileIds) /\ Len(opened) = 0
  BY <1>1
<1>6. TypeInv
  <2>1. CallsTyped /\ FilesTyped
    BY Zenon, <1>1, <1>2, <1>3, <1>4 DEF CallsTyped, FilesTyped
  <2>2. TablesTyped
    BY Zenon, <1>1, <1>2, <1>4 DEF TablesTyped
  <2>3. QED
    BY Zenon, <1>1, <1>5, <2>1, <2>2 DEF TypeInv
<1>7. CallInv
  BY ZenonT(30), <1>1, <1>2, <1>4, FilesAssumption DEF CallInv, CallOk, LockPcs, DescriptorPcs, ReadPcs, WritePcs
<1>8. OpenedInv
  BY <1>2, <1>3, <1>4, <1>5 DEF OpenedInv
<1>9. CountInv
  <2>1. ASSUME NEW f \in FileIds
        PROVE  References(f) = {}
    BY <1>2, <1>4, <2>1, FilesAssumption DEF References, NoFile
  <2>2. QED
    BY Zenon, <1>3, <1>4, <2>1, FS_EmptySet DEF CountInv
<1>10. SectionInv
  BY Zenon, <1>3, <1>4 DEF SectionInv
<1>11. QED
  BY Zenon, <1>6, <1>7, <1>8, <1>9, <1>10 DEF Good

\* The system calls, up to the lock they take first.
LEMMA Syscalls ==
    ASSUME Good, NEW p \in Procs, Syscall(p)
    PROVE  IInv'
<1>1. ASSUME NEW path \in Paths, do_open(p, path) PROVE IInv'
  BY Zenon, <1>1, Opens
<1>2. ASSUME NEW fd \in Fds, NEW len \in Lengths, do_read(p, fd, len) PROVE IInv'
  BY Zenon, <1>2, Accesses DEF do_read
<1>3. ASSUME NEW fd \in Fds, NEW len \in Lengths, NEW val \in Values, do_write(p, fd, len, val) PROVE IInv'
  BY Zenon, <1>3, Accesses DEF do_write
<1>4. CASE delete_proc(p)
  BY Zenon, <1>4, Deletes
<1>5. ASSUME NEW nr \in 0 .. Len(SYSCALL_MAP) + 1, syscall_dispatch(p, nr) PROVE IInv'
  BY Zenon, <1>5, Halting DEF syscall_dispatch
<1>6. ASSUME NEW fd \in Fds, BadFd(p, fd) PROVE IInv'
  BY Zenon, <1>6, Halting DEF BadFd
<1>7. QED
  BY Zenon, <1>1, <1>2, <1>3, <1>4, <1>5, <1>6 DEF Syscall

\* The steps of the calls.
LEMMA Steps ==
    ASSUME Good, NEW p \in Procs, Step(p)
    PROVE  IInv'
<1>1. CASE lookup_file_or_open(p)
  BY Zenon, <1>1, Sharing, LookingUp
<1>2. CASE OpenFindMount(p) \/ open_file(p) \/ OpenInstall(p)
  BY Zenon, <1>2, FindsMount, Creating, Installing
<1>3. CASE vfs_read(p) \/ vfs_write(p)
  BY Zenon, <1>3, Locking
<1>4. CASE ReadSector(p) \/ ReadEnd(p) \/ WriteWholeSector(p) \/ ReadPartialSector(p) \/ WriteBack(p) \/ WriteEnd(p)
  BY Zenon, <1>4, Transfers
<1>5. CASE ReadReturn(p) \/ WriteReturn(p)
  BY Zenon, <1>5, Unlocking
<1>6. CASE vfs_close(p) \/ close_file(p)
  BY Zenon, <1>6, ClosingNext, ClosingFile
<1>7. QED
  BY Zenon, <1>1, <1>2, <1>3, <1>4, <1>5, <1>6 DEF Step

\* Every step keeps the invariant.
LEMMA Inductive == IInv /\ [Next]_vars => IInv'
<1> SUFFICES ASSUME IInv, [Next]_vars PROVE IInv'
  BY Zenon
<1>1. CASE UNCHANGED vars
  <2>1. UNCHANGED <<files, opened, oflock, file_table, call, halted>>
    BY Zenon, <1>1 DEF vars
  <2>2. QED
    BY Zenon, <2>1, Quiet
<1>2. CASE MountStep
  <2>1. CASE get_initrd_disk
    BY Zenon, <2>1, Quiet DEF get_initrd_disk
  <2>2. ASSUME NEW d \in Disks, NEW point \in MountPoints, vfs_mount(d, point) PROVE IInv'
    BY Zenon, <2>2, Quiet DEF vfs_mount
  <2>3. ASSUME NEW point \in MountPoints, vfs_unmount(point) PROVE IInv'
    BY Zenon, <2>3, Quiet, Halting DEF vfs_unmount
  <2>4. QED
    BY Zenon, <1>2, <2>1, <2>2, <2>3 DEF MountStep
<1>3. ASSUME NEW p \in Procs, Syscall(p) \/ Step(p) \/ NoMemory(p)
      PROVE  IInv'
  <2>1. Good
    <3>1. Running
      BY Zenon, <1>3 DEF Running, At, Syscall, Step, NoMemory, do_open, do_read, do_write, Access, delete_proc,
            syscall_dispatch, BadFd, lookup_file_or_open, OpenFindMount, open_file, OpenInstall, vfs_read, ReadSector,
            ReadEnd, ReadReturn, vfs_write, WriteWholeSector, ReadPartialSector, WriteBack, WriteEnd, WriteReturn,
            vfs_close, close_file
    <3>2. QED
      BY Zenon, <3>1 DEF IInv
  <2>2. CASE Syscall(p)
    BY Zenon, <2>1, <2>2, Syscalls
  <2>3. CASE Step(p)
    BY Zenon, <2>1, <2>3, Steps
  <2>4. CASE NoMemory(p)
    BY Zenon, <2>4, Halting DEF NoMemory
  <2>5. QED
    BY Zenon, <1>3, <2>2, <2>3, <2>4
<1>4. QED
  BY Zenon, <1>1, <1>2, <1>3 DEF Next

\* As long as the kernel runs, the struct files, OPENED_FILES, the file tables and
\* the calls of any number of processes fit together.
THEOREM Invariant == Spec => []IInv
  BY Initially, Inductive, PTL DEF Spec

\* For any processes, file tables, paths and disks: one struct file per path, which
\* counts exactly its references and is in OPENED_FILES until the last one is
\* closed, whatever the order of lookup_file_or_open(), do_open() and vfs_close().
THEOREM OneFilePerPathTheorem == Spec => []OneFilePerPath
<1>1. IInv => OneFilePerPath
  <2> SUFFICES ASSUME Good PROVE OneFilePerPath
    BY Zenon DEF IInv, OneFilePerPath
  <2>1. DOMAIN opened = 1 .. Len(opened)
    BY DEF Good, TypeInv
  <2>2. QED
    BY Zenon, <2>1 DEF Good, OpenedInv, CountInv, IsOpened, OneFilePerPath
<1>2. QED
  BY <1>1, Invariant, PTL

\* For any number of processes: OPENED_FILES_LOCK and the locks of the files are
\* held inside their sections only, and the calls that wait for them never wait for
\* each other in a circle.
THEOREM NobodyStuckTheorem == Spec => []NobodyStuck
<1>1. IInv => NobodyStuck
  <2> SUFFICES ASSUME Good PROVE NobodyStuck
    BY Zenon DEF IInv, NobodyStuck
  <2>1. \A p \in Procs : oflock = p => call[p].pc \in LockPcs
    BY Zenon DEF Good, CallInv, CallOk
  <2>2. \A f \in FileIds, p \in Procs :
           /\ p \in files[f].readers => call[p].file = f /\ call[p].pc \in ReadPcs
           /\ p \in files[f].writers => call[p].file = f /\ call[p].pc \in WritePcs
    BY Zenon DEF Good, SectionInv
  <2>3. ASSUME \A p \in Procs : call[p].pc # "idle" => Waits(p),
               NEW p \in Procs, call[p].pc # "idle"
        PROVE  FALSE
    <3>1. \A q \in Procs : call[q].pc \notin ReadPcs /\ call[q].pc \notin WritePcs
      BY Zenon, <2>3 DEF Waits, ReadPcs, WritePcs
    <3>2. \A f \in FileIds : files[f].readers = {} /\ files[f].writers = {}
      BY Zenon, <2>2, <3>1 DEF Good, TypeInv, FilesTyped, IsFile
    <3>3. \A q \in Procs : call[q].pc \in {"readlock", "writelock", "closefile"} => call[q].file \in FileIds
      BY Zenon DEF Good, CallInv, CallOk, DescriptorPcs
    <3>4. \A q \in Procs : call[q].pc # "idle" => call[q].pc \in {"lookup", "close"} /\ ~Unlocked
      BY Zenon, <2>3, <3>2, <3>3 DEF Waits
    <3>5. oflock \in Procs
      BY Zenon, <2>3, <3>4 DEF Good, TypeInv, Unlocked
    <3>6. QED
      BY Zenon, <2>1, <3>4, <3>5 DEF LockPcs
  <2>4. QED
    BY Zenon, <2>1, <2>2, <2>3 DEF NobodyStuck, LockPcs, ReadPcs, WritePcs
<1>2. QED
  BY <1>1, Invariant, PTL

=============================================================================
