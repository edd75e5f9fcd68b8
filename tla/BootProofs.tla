----------------------------- MODULE BootProofs -----------------------------
(***************************************************************************)
(* Proofs about FrameAlloc.tla, for bitmaps of any size, and about         *)
(* Boot.tla, for any machines and any sizes of memory.                     *)
(***************************************************************************)
EXTENDS Boot, FiniteSetTheorems, TLAPS

-----------------------------------------------------------------------------
(* The frame allocator. *)

\* bitmap_set_next_bit() finds a bit of a bitmap that is not full.
LEMMA Minimum ==
    ASSUME NEW S, S \subseteq Nat, S # {}
    PROVE  Min(S) \in S
<1> DEFINE Below(x) == 0 .. x - 1
           Sets == {Below(x) : x \in S}
<1>1. \A x \in Nat : Below(x) \in FiniteSubsetsOf(Nat)
  BY FS_Interval DEF FiniteSubsetsOf
<1>2. Sets \subseteq FiniteSubsetsOf(Nat) /\ Sets # {}
  BY Zenon, <1>1
<1>3. PICK T \in Sets : \A U \in Sets : ~(<<U, T>> \in StrictSubsetOrdering(Nat))
  <2>1. IsWellFoundedOn(StrictSubsetOrdering(Nat), FiniteSubsetsOf(Nat))
    BY Zenon, FS_StrictSubsetOrderingWellFounded
  <2> HIDE DEF Sets
  <2> QED BY Zenon, <1>2, <2>1, WFMin
<1>4. PICK x \in S : T = Below(x)
  BY Zenon, <1>3
<1>5. ASSUME NEW y \in S, y < x PROVE FALSE
  <2>1. Below(y) \in SUBSET Nat /\ Below(x) \in SUBSET Nat /\ Below(y) \subseteq Below(x)
    BY <1>5
  <2>2. y \in Below(x) /\ y \notin Below(y)
    BY <1>5
  <2>3. <<Below(y), Below(x)>> \in StrictSubsetOrdering(Nat)
    BY Zenon, <2>1, <2>2 DEF StrictSubsetOrdering
  <2> QED BY Zenon, <1>3, <1>4, <1>5, <2>3
<1>6. \A y \in S : x =< y
  BY <1>5
<1> QED BY Zenon, <1>6 DEF Min

\* The counter that the assembly keeps is the number of bits that are not set.
CountsFree(b) ==
    /\ b = [size |-> b.size, free |-> b.free, avail |-> b.avail]
    /\ IsFiniteSet(b.avail) /\ b.avail \subseteq Nat /\ b.free = Cardinality(b.avail)

\* A search that does not run past the end of the bitmap returns a bit that is
\* not set, or nothing.
LEMMA NextBit ==
    ASSUME NEW b, CountsFree(b), b.size \in Nat, NEW start \in Nat,
           ~RunsPastTheEnd(b, start), next_bit(b, start) # BM_NPOS
    PROVE  next_bit(b, start) \in b.avail
<1>1. ~(start >= b.size) /\ ~bitmap_is_full(b) /\ next_bit(b, start) = Min(From(b, start))
  BY Zenon DEF next_bit
<1>2. From(b, start) # {}
  BY <1>1 DEF RunsPastTheEnd
<1>3. From(b, start) \subseteq b.avail /\ b.avail \subseteq Nat
  BY Zenon DEF From, CountsFree
<1>4. Min(From(b, start)) \in From(b, start)
  BY Zenon, <1>2, <1>3, Minimum
<1> QED BY Zenon, <1>1, <1>3, <1>4

\* A search from the first bit never runs past the end.
LEMMA FirstBit ==
    ASSUME NEW b, CountsFree(b), next_bit(b, 0) # BM_NPOS
    PROVE  next_bit(b, 0) \in b.avail
<1>1. b.free # 0 /\ next_bit(b, 0) = Min(From(b, 0))
  BY Zenon DEF next_bit, bitmap_is_full
<1>2. From(b, 0) = b.avail
  BY DEF From, CountsFree
<1>3. b.avail # {}
  BY Zenon, <1>1, FS_EmptySet DEF CountsFree
<1> QED BY Zenon, <1>1, <1>2, <1>3, Minimum DEF CountsFree

LEMMA LowFrame ==
    ASSUME NEW b, CountsFree(b), do_allocation(b, TRUE) # NO_FRAME
    PROVE  do_allocation(b, TRUE) \in b.avail
  BY Zenon, FirstBit DEF do_allocation, StartIdx, NO_FRAME, BM_NPOS

\* Setting the bits of a set of frames that are not in use.
LEMMA SetBits ==
    ASSUME NEW b, CountsFree(b), NEW S \in SUBSET b.avail
    PROVE  CountsFree([size |-> b.size, free |-> b.free - Cardinality(S), avail |-> b.avail \ S])
<1>1. IsFiniteSet(b.avail \ S) /\ Cardinality(b.avail \ S) = Cardinality(b.avail) - Cardinality(b.avail \cap S)
  BY Zenon, FS_Difference DEF CountsFree
<1>2. b.avail \cap S = S
  BY Zenon
<1> QED BY Zenon, <1>1, <1>2 DEF CountsFree

\* bitmap_set() of a bit that is not set, bitmap_unset() of a bit that is set.
LEMMA SetBit ==
    ASSUME NEW b, CountsFree(b), NEW f \in b.avail
    PROVE  CountsFree(bitmap_set(b, f)) /\ bitmap_set(b, f).avail = b.avail \ {f}
<1>1. bitmap_set(b, f) = [size |-> b.size, free |-> b.free - 1, avail |-> b.avail \ {f}]
  BY Zenon DEF bitmap_set, bitmap_get_bit, CountsFree
<1>2. IsFiniteSet(b.avail \ {f}) /\ Cardinality(b.avail \ {f}) = Cardinality(b.avail) - 1
  BY Zenon, FS_RemoveElement DEF CountsFree
<1> QED BY <1>1, <1>2 DEF CountsFree

LEMMA UnsetBit ==
    ASSUME NEW b, CountsFree(b), NEW f \in Nat \ b.avail
    PROVE  CountsFree(bitmap_unset(b, f)) /\ bitmap_unset(b, f).avail = b.avail \cup {f}
<1>1. bitmap_unset(b, f) = [size |-> b.size, free |-> b.free + 1, avail |-> b.avail \cup {f}]
  BY Zenon DEF bitmap_unset, bitmap_get_bit, CountsFree
<1>2. IsFiniteSet(b.avail \cup {f}) /\ Cardinality(b.avail \cup {f}) = Cardinality(b.avail) + 1
  BY Zenon, FS_AddElement DEF CountsFree
<1> QED BY <1>1, <1>2 DEF CountsFree

-----------------------------------------------------------------------------
\* do_allocation() returns a frame that is not in use, below 1MiB if it has to
\* be, and takes just that frame: the counter, which decides whether the search
\* for the next one starts at all, stays exact.
THEOREM AllocationTheorem ==
    ASSUME NEW b, CountsFree(b), b.size \in Nat, LOW_MEM_MAX_IDX \in Nat,
           NEW low_mem \in BOOLEAN, ~AllocationTraps(b, low_mem), do_allocation(b, low_mem) # NO_FRAME
    PROVE  LET frame == do_allocation(b, low_mem)
               after == Allocated(b, frame)
           IN  /\ frame \in b.avail /\ (low_mem => frame <= LOW_MEM_MAX_IDX)
               /\ after.avail = b.avail \ {frame} /\ CountsFree(after)
<1> DEFINE frame == do_allocation(b, low_mem)
<1>1. frame \in b.avail
  <2>1. CASE low_mem
    BY Zenon, <2>1, LowFrame
  <2>2. CASE ~low_mem
    <3>1. ~RunsPastTheEnd(b, LOW_MEM_MAX_IDX)
      BY Zenon, <2>2 DEF AllocationTraps, StartIdx
    <3>2. frame = IF next_bit(b, LOW_MEM_MAX_IDX) = BM_NPOS THEN next_bit(b, 0) ELSE next_bit(b, LOW_MEM_MAX_IDX)
      BY Zenon, <2>2 DEF do_allocation, StartIdx
    <3> QED BY Zenon, <3>1, <3>2, NextBit, FirstBit DEF NO_FRAME
  <2> QED BY Zenon, <2>1, <2>2
<1>2. low_mem => frame <= LOW_MEM_MAX_IDX
  <2>1. b.avail \subseteq Nat
    BY Zenon DEF CountsFree
  <2> QED BY <1>1, <2>1 DEF do_allocation, StartIdx, NO_FRAME
<1>3. Allocated(b, frame) = bitmap_set(b, frame)
  BY Zenon DEF Allocated
<1> QED BY Zenon, <1>1, <1>2, <1>3, SetBit

\* free_frame() of a frame in use makes just that frame available again, and
\* keeps the counter exact.
THEOREM FreeTheorem ==
    ASSUME NEW b, CountsFree(b), NEW frame \in Nat, ~DoubleFree(b, frame)
    PROVE  CountsFree(free_frame(b, frame)) /\ free_frame(b, frame).avail = b.avail \cup {frame}
<1>1. frame \in Nat \ b.avail
  BY Zenon DEF DoubleFree, bitmap_get_bit
<1> QED BY Zenon, <1>1, UnsetBit DEF free_frame

-----------------------------------------------------------------------------
(* Boot. *)

\* The BSP goes through these one after the other.
BeforeFrames == {"init_multiboot", "init_segmentation", "init_bsp_boot_percpu", "interrupt_init", "init_frame_alloc"}
BeforeAcpi == BeforeFrames \cup {"init_paging", "acpi_init"}
BeforeCalibration == BeforeAcpi \cup {"allocate_aps_percpu_areas", "init_final_gdt", "setup_tss", "init_lapic",
                      "init_ioapic", "calibrate_timer"}
Calibrating == {"register_callback", "program_pit", "start_pit", "calibrate_wait"}
BeforeIpm == {"delete_callback", "init_ipm"}
BeforeTrampoline == BeforeCalibration \cup Calibrating \cup BeforeIpm \cup {"create_trampoline"}
WakingUp == {"sipi", "second_sipi", "wait_aps"}
Removing == {"unmap_code", "shoot_code"}
Emptying == {"unmap_data", "shoot_data", "free_frames"}
Finishing == {"unmap_func", "shoot_func", "running"}
Locations == BeforeTrampoline \cup {"init"} \cup WakingUp \cup Removing \cup Emptying \cup Finishing

\* APs that need the trampoline, and those that have been counted.
NeedCode == {"real_mode", "protected_mode"}
NeedData == NeedCode \cup {"target_paging", "ap_initialize_state", "setup_tss", "online", "read_target"}
Counted == {"read_target", "ap_finalize_start_up", "idle"}
HaveStack == {"ap_initialize_state", "setup_tss", "online"} \cup Counted
ApLocations == {"reset", "wait", "ap_finalize_start_up", "idle"} \cup NeedData

Online == {c \in APs : aps[c] \in Counted}

TypeInv ==
    /\ machine \in Machines
    /\ pc \in Locations
    /\ aps \in [CpuIds -> ApLocations]
    /\ iflag \in [CpuIds -> BOOLEAN]
    /\ pending \in [CpuIds -> SUBSET {PIT_VECTOR, IPM_VECTOR}]
    /\ shoot = [left |-> shoot.left, at |-> shoot.at]
    /\ pc \notin BeforeAcpi => info = parse_acpi_info(machine.firmware) /\ CanParse(machine.firmware)
    /\ pc \notin BeforeAcpi \cup {"allocate_aps_percpu_areas"} => DOMAIN areas = 0 .. ncpus - 1 /\ ncpus # 0

\* The frames of the kernel, the bitmap, the boot information and the initrd.
BootFrames == Covered(UsedFrames(machine.mb, BitmapStarts[machine.mb], init_initrd(machine.mb)))

\* The bitmap counts its free frames, and none of them is in use.  The trampoline
\* is in use, apart from everything else, until it is freed.
MemoryInv ==
    /\ pc \in BeforeFrames => owned = {}
    /\ CountsFree(frames)
    /\ (BootFrames \cup owned) \cap frames.avail = {}
    /\ pc \notin BeforeTrampoline \cup Finishing =>
          /\ tramp.code # tramp.data /\ tramp.code \in Nat /\ tramp.data \in Nat
          /\ {tramp.code, tramp.data} \cap (BootFrames \cup frames.avail) = {}

\* What the BSP knows about the APs, from place to place.
StartUpInv ==
    /\ pc \in BeforeTrampoline \cup {"init"} => \A c \in APs : aps[c] = "reset"
    /\ pc \in BeforeTrampoline \cup {"init"} \cup WakingUp => APS_ONLINE = Cardinality(Online)
    /\ pc \in Removing => APS_ARE_ONLINE /\ Online = APs
    /\ pc \in Emptying \cup Finishing => \A c \in APs : aps[c] = "idle"
    /\ pc = "shoot_code" => \A c \in APs : c \notin shoot.left \cup {shoot.at} => aps[c] = "idle"
    /\ \A c \in APs : /\ iflag[c] => aps[c] = "idle"
                      /\ aps[c] \in HaveStack => c \in 0 .. ncpus - 1
    /\ pc \in {"init", "unmap_code"} \cup WakingUp => tramp.code \in mapped
    /\ pc \in {"init"} \cup WakingUp \cup Removing => tramp.data \in mapped
    /\ pc \notin BeforeTrampoline \cup Finishing => DOMAIN tramp.kernel_stacks = 0 .. ncpus - 1

InterruptInv ==
    /\ callbacks = [global |-> callbacks.global, local |-> callbacks.local]
    /\ callbacks.global \in [Vectors -> {NULL, "double_fault_panic", "ipm_handler"}]
    /\ callbacks.local \in [Vectors -> {NULL, "calibrate_timer_pit_handler"}]
    /\ callbacks.local[PIT_VECTOR] = NULL
          <=> pc \notin (Calibrating \ {"register_callback"}) \cup {"delete_callback"}
    /\ \A v \in Vectors \ {PIT_VECTOR} : callbacks.local[v] = NULL
    /\ iflag[bsp] => pc \in {"start_pit", "calibrate_wait", "shoot_code", "shoot_data", "shoot_func"}
    /\ DOMAIN redirection = ISA
    /\ \A p \in ISA :
         /\ redirection[p] = [vector |-> redirection[p].vector, masked |-> redirection[p].masked, dest |-> redirection[p].dest]
         /\ redirection[p].masked \in BOOLEAN
         /\ ~redirection[p].masked => /\ p = Pin(0) /\ pc \notin BeforeCalibration /\ ~calib.calibrate_done
                                      /\ redirection[p].vector = PIT_VECTOR /\ redirection[p].dest = bsp
    /\ calib = [num_underflows_remaining |-> calib.num_underflows_remaining, calibrate_done |-> calib.calibrate_done]
    /\ calib.calibrate_done \in BOOLEAN
    /\ pc \in BeforeCalibration => ~calib.calibrate_done
    /\ pc \notin BeforeCalibration \cup Calibrating => calib.calibrate_done
    /\ \A c \in CpuIds : PIT_VECTOR \in pending[c] => /\ c = bsp /\ ~calib.calibrate_done
                                                     /\ pc \notin BeforeCalibration
    /\ \A c \in CpuIds : IPM_VECTOR \in pending[c] => pc \notin BeforeTrampoline
    /\ pc \notin BeforeTrampoline \ {"create_trampoline"} => callbacks.global[IPM_VECTOR] = "ipm_handler"

BeforeArea == {"init_multiboot", "init_segmentation", "init_bsp_boot_percpu"}
BeforeAreas == BeforeAcpi \cup {"allocate_aps_percpu_areas"}
BeforeGdt == BeforeAreas \cup {"init_final_gdt"}
BeforeTss == BeforeGdt \cup {"setup_tss"}

\* APs that use their area, and those that have loaded their TSS.
HaveArea == {"setup_tss", "online"} \cup Counted
HaveTss == {"online"} \cup Counted

Area(c, stack) == [cpu_id |-> c, kernel_stack |-> stack]
ApIds == (0 .. ncpus - 1) \ {bsp}

\* The stack of every AP is allocated memory of its own, apart from the image.
OwnStacks ==
    \A c \in ApIds :
        /\ areas[c].kernel_stack # NoStack /\ areas[c].kernel_stack \cap BspStack = {}
        /\ \A d \in ApIds \ {c} : areas[c].kernel_stack \cap areas[d].kernel_stack = {}

\* A cpu that has come that far finds its own area through GS, and the stack of
\* this area in its TSS.
SegmentInv ==
    /\ DOMAIN seg = CpuIds /\ \A c \in CpuIds : seg[c] = [gs |-> seg[c].gs, tr |-> seg[c].tr]
    /\ pc \notin BeforeArea => areas[bsp] = Area(bsp, BspStack)
    /\ pc \notin BeforeAreas => \A c \in ApIds : areas[c] = Area(c, areas[c].kernel_stack)
    /\ pc \notin BeforeTrampoline => OwnStacks
    /\ pc \notin BeforeGdt =>
          /\ DOMAIN gdt = 0 .. 6 + 2 * ncpus - 1
          /\ \A c \in 0 .. ncpus - 1 : gdt[GDT_PERCPU_IDX(c)] = Descriptor("percpu", c, NoStack)
          /\ seg[bsp].gs = GDT_PERCPU_IDX(bsp)
    /\ pc \in BeforeTss => seg[bsp].tr = NOT_LOADED
    /\ pc \notin BeforeTss =>
          seg[bsp].tr = GDT_TSS_IDX(bsp) /\ gdt[GDT_TSS_IDX(bsp)] = Descriptor("tss", bsp, BspStack)
    /\ \A c \in APs :
          /\ aps[c] \notin HaveTss => seg[c].tr = NOT_LOADED
          /\ aps[c] \in HaveArea => seg[c].gs = GDT_PERCPU_IDX(c)
          /\ aps[c] \in HaveTss =>
                seg[c].tr = GDT_TSS_IDX(c) /\ gdt[GDT_TSS_IDX(c)] = Descriptor("tss", c, areas[c].kernel_stack)

IInv == TypeInv /\ MemoryInv /\ StartUpInv /\ InterruptInv /\ SegmentInv


-----------------------------------------------------------------------------
LEMMA Machine ==
    ASSUME TypeInv
    PROVE  /\ bsp \in Nat /\ bsp \in CpuIds /\ APs \subseteq CpuIds /\ APs \subseteq Nat /\ bsp \notin APs
           /\ IsFiniteSet(APs) /\ IsFiniteSet(machine.cpus) /\ Cardinality(APs) = Cardinality(machine.cpus) - 1
           /\ Cardinality(machine.cpus) \in Nat /\ machine.pin \in ISA
<1>1. machine \in Machines
  BY Zenon DEF TypeInv
<1>2. /\ IsFiniteSet(machine.cpus) /\ machine.cpus \subseteq Nat /\ machine.bsp \in machine.cpus /\ machine.pin \in ISA
  BY Zenon, <1>1, MachinesAssumption
<1>3. machine.cpus \subseteq CpuIds
  BY Zenon, <1>1 DEF CpuIds
<1>4. /\ IsFiniteSet(APs) /\ Cardinality(APs) = Cardinality(machine.cpus) - 1
  BY Zenon, <1>2, FS_RemoveElement DEF APs, bsp
<1>5. Cardinality(machine.cpus) \in Nat
  BY Zenon, <1>2, FS_CardinalityType
<1> QED BY Zenon, <1>2, <1>3, <1>4, <1>5 DEF APs, bsp

\* Where a shootdown may be going on, and what follows it.
LEMMA Shootdowns ==
    /\ DOMAIN AfterShootdown = {"shoot_code", "shoot_data", "shoot_func"}
    /\ AfterShootdown["shoot_code"] = "unmap_data"
    /\ AfterShootdown["shoot_data"] = "free_frames"
    /\ AfterShootdown["shoot_func"] = "running"
  BY Zenon DEF AfterShootdown

LEMMA BspTypeStep ==
    ASSUME TypeInv, BspNext
    PROVE  TypeInv'
<1> USE DEF Locations, BeforeFrames, BeforeAcpi, BeforeCalibration, Calibrating, BeforeIpm, BeforeTrampoline, WakingUp,
            Removing, Emptying, Finishing, At, Halt, Continue, memory, cpus, timer, smp, bsp, ncpus, APs
<1>1. CASE init_multiboot
  BY Zenon, <1>1 DEF TypeInv, init_multiboot
<1>2. CASE init_segmentation
  BY Zenon, <1>2 DEF TypeInv, init_segmentation
<1>3. CASE init_bsp_boot_percpu
  BY Zenon, <1>3 DEF TypeInv, init_bsp_boot_percpu
<1>4. CASE interrupt_init
  BY Zenon, <1>4 DEF TypeInv, interrupt_init
<1>5. CASE init_frame_alloc
  BY Zenon, <1>5 DEF TypeInv, init_frame_alloc
<1>6. CASE init_paging
  BY Zenon, <1>6 DEF TypeInv, init_paging
<1>7. CASE acpi_init
  BY Zenon, <1>7 DEF TypeInv, acpi_init
<1>8. CASE allocate_aps_percpu_areas
  BY Zenon, <1>8 DEF TypeInv, allocate_aps_percpu_areas
<1>9. CASE init_final_gdt
  BY Zenon, <1>9 DEF TypeInv, init_final_gdt
<1>10. CASE setup_tss
  BY Zenon, <1>10 DEF TypeInv, setup_tss
<1>11. CASE init_lapic
  BY Zenon, <1>11 DEF TypeInv, init_lapic
<1>12. CASE init_ioapic
  BY Zenon, <1>12 DEF TypeInv, init_ioapic
<1>13. CASE StartCalibration
  BY Zenon, <1>13 DEF TypeInv, StartCalibration
<1>14. CASE interrupt_register_local_callback
  BY Zenon, <1>14 DEF TypeInv, interrupt_register_local_callback
<1>15. CASE ProgramPit
  BY Zenon, <1>15 DEF TypeInv, ProgramPit
<1>16. CASE StartPit
  BY Zenon, <1>16 DEF TypeInv, StartPit
<1>17. CASE CalibrationDone
  BY Zenon, <1>17 DEF TypeInv, CalibrationDone
<1>18. CASE interrupt_delete_local_callback
  BY Zenon, <1>18 DEF TypeInv, interrupt_delete_local_callback
<1>19. CASE init_ipm
  BY Zenon, <1>19 DEF TypeInv, init_ipm
<1>20. CASE create_trampoline
  BY Zenon, <1>20 DEF TypeInv, create_trampoline, WithStacks
<1>21. CASE lapic_send_broadcast_init
  <2>1. aps' \in [CpuIds -> ApLocations]
    BY Zenon, <1>21 DEF TypeInv, lapic_send_broadcast_init, ApLocations, NeedData, NeedCode
  <2>2. iflag' \in [CpuIds -> BOOLEAN]
    BY Zenon, <1>21 DEF TypeInv, lapic_send_broadcast_init
  <2> QED BY Zenon, <1>21, <2>1, <2>2 DEF TypeInv, lapic_send_broadcast_init
<1>22. CASE FirstSipi
  <2>1. aps' \in [CpuIds -> ApLocations]
    BY Zenon, <1>22 DEF TypeInv, FirstSipi, Started, ApLocations, NeedData, NeedCode
  <2>2. iflag' \in [CpuIds -> BOOLEAN]
    BY Zenon, <1>22 DEF TypeInv, FirstSipi
  <2> QED BY Zenon, <1>22, <2>1, <2>2 DEF TypeInv, FirstSipi
<1>23. CASE SecondSipi
  <2>1. aps' \in [CpuIds -> ApLocations]
    BY Zenon, <1>23 DEF TypeInv, SecondSipi, Started, ApLocations, NeedData, NeedCode
  <2>2. iflag' \in [CpuIds -> BOOLEAN]
    BY Zenon, <1>23 DEF TypeInv, SecondSipi
  <2> QED BY Zenon, <1>23, <2>1, <2>2 DEF TypeInv, SecondSipi
<1>24. CASE AllApsOnline
  BY Zenon, <1>24 DEF TypeInv, AllApsOnline
<1>25. CASE unmap_code
  BY Zenon, <1>25 DEF TypeInv, unmap_code, Unmap
<1>26. CASE unmap_data
  BY Zenon, <1>26 DEF TypeInv, unmap_data, Unmap
<1>27. CASE unmap_func
  BY Zenon, <1>27 DEF TypeInv, unmap_func, Unmap
<1>28. CASE exec_tlb_shootdown
  BY Zenon, <1>28 DEF TypeInv, exec_tlb_shootdown
<1>29. CASE ShootdownDone
  <2>1. pc \in {"shoot_code", "shoot_data", "shoot_func"} /\ pc' \in {"unmap_data", "free_frames", "running"}
    BY Zenon, <1>29, Shootdowns DEF ShootdownDone, InShootdown
  <2> QED BY Zenon, <1>29, <2>1 DEF TypeInv, ShootdownDone
<1>30. CASE FreeTrampoline
  BY Zenon, <1>30 DEF TypeInv, FreeTrampoline
<1> QED BY SMTT(30), <1>1, <1>2, <1>3, <1>4, <1>5, <1>6, <1>7, <1>8, <1>9, <1>10, <1>11, <1>12, <1>13, <1>14, <1>15,
           <1>16, <1>17, <1>18, <1>19, <1>20, <1>21, <1>22, <1>23, <1>24, <1>25, <1>26, <1>27, <1>28, <1>29,
           <1>30 DEF BspNext

LEMMA ApTypeStep ==
    ASSUME TypeInv, NEW c \in CpuIds, ApNext(c)
    PROVE  TypeInv'
<1> USE DEF ApUnchanged, ApStep, timer, memory, bsp, ncpus
<1>1. aps' \in [CpuIds -> ApLocations]
  BY Zenon DEF TypeInv, ApNext, RealMode, EnablePaging, SetStack, ap_init_segmentation, ap_setup_tss, Announce, ReadTarget,
         ap_finalize_start_up, ApLocations, NeedData, NeedCode
<1>2. iflag' \in [CpuIds -> BOOLEAN]
  BY Zenon DEF TypeInv, ApNext, RealMode, EnablePaging, SetStack, ap_init_segmentation, ap_setup_tss, Announce, ReadTarget,
         ap_finalize_start_up
<1>3. UNCHANGED <<machine, pc, pending, shoot, info, areas>>
  BY Zenon DEF ApNext, RealMode, EnablePaging, SetStack, ap_init_segmentation, ap_setup_tss, Announce, ReadTarget,
         ap_finalize_start_up
<1> QED BY Zenon, <1>1, <1>2, <1>3 DEF TypeInv

LEMMA PitTypeStep ==
    ASSUME TypeInv, InterruptInv, PitUnderflow
    PROVE  TypeInv'
<1>1. machine.pin \in ISA
  BY Zenon, Machine
<1>2. redirection[machine.pin].vector = PIT_VECTOR
  BY Zenon, <1>1 DEF InterruptInv, PitUnderflow
<1>3. pending' \in [CpuIds -> SUBSET {PIT_VECTOR, IPM_VECTOR}]
  BY Zenon, <1>2 DEF TypeInv, PitUnderflow
<1> QED BY Zenon, <1>3 DEF TypeInv, PitUnderflow, memory, cpus, timer, smp, bsp, ncpus

LEMMA InterruptTypeStep ==
    ASSUME TypeInv, NEW c \in CpuIds, NEW v \in Vectors, TakeInterrupt(c, v)
    PROVE  TypeInv'
<1>1. pending' \in [CpuIds -> SUBSET {PIT_VECTOR, IPM_VECTOR}]
  BY Zenon DEF TypeInv, TakeInterrupt
<1>2. shoot' = [left |-> shoot'.left, at |-> shoot'.at]
  BY Zenon DEF TypeInv, TakeInterrupt
<1> QED BY Zenon, <1>1, <1>2 DEF TypeInv, TakeInterrupt, memory, cpus, bsp, ncpus

LEMMA TypeStep ==
    ASSUME TypeInv, InterruptInv, Next
    PROVE  TypeInv'
  BY Zenon, BspTypeStep, ApTypeStep, PitTypeStep, InterruptTypeStep DEF Next

-----------------------------------------------------------------------------
\* The steps of the BSP before it creates the trampoline leave the APs alone, and
\* those of them that are not about memory leave it alone.
EarlyNext ==
    \/ init_multiboot \/ init_segmentation \/ init_bsp_boot_percpu \/ interrupt_init
    \/ acpi_init \/ allocate_aps_percpu_areas \/ init_final_gdt \/ setup_tss \/ init_lapic \/ init_ioapic
    \/ StartCalibration \/ interrupt_register_local_callback \/ ProgramPit \/ StartPit
    \/ CalibrationDone \/ interrupt_delete_local_callback \/ init_ipm

LateNext ==
    \/ lapic_send_broadcast_init \/ FirstSipi \/ SecondSipi \/ AllApsOnline
    \/ unmap_code \/ unmap_data \/ unmap_func \/ exec_tlb_shootdown \/ ShootdownDone

LEMMA EarlySteps ==
    ASSUME TypeInv, EarlyNext
    PROVE  /\ pc \in BeforeTrampoline /\ pc' \in BeforeTrampoline
           /\ pc' \in BeforeFrames => pc \in BeforeFrames
           /\ UNCHANGED <<machine, frames, owned, tramp, mapped, aps, APS_ONLINE, APS_ARE_ONLINE, shoot>>
           /\ \A c \in APs : iflag'[c] = iflag[c]
<1> USE DEF At, Halt, Continue, memory, timer, smp
<1>1. UNCHANGED <<machine, frames, owned, tramp, mapped, aps, APS_ONLINE, APS_ARE_ONLINE, shoot>>
  BY Zenon DEF EarlyNext, init_multiboot, init_segmentation, init_bsp_boot_percpu, interrupt_init,
         acpi_init, allocate_aps_percpu_areas, init_final_gdt, setup_tss, init_lapic, init_ioapic,
         StartCalibration, interrupt_register_local_callback, ProgramPit, StartPit,
         CalibrationDone, interrupt_delete_local_callback, init_ipm
<1>2. \A c \in APs : iflag'[c] = iflag[c]
  <2>1. iflag' = iflag \/ iflag' = [iflag EXCEPT ![bsp] = TRUE] \/ iflag' = [iflag EXCEPT ![bsp] = FALSE]
    BY Zenon DEF EarlyNext, init_multiboot, init_segmentation, init_bsp_boot_percpu, interrupt_init,
           acpi_init, allocate_aps_percpu_areas, init_final_gdt, setup_tss, init_lapic, init_ioapic,
           StartCalibration, interrupt_register_local_callback, ProgramPit, StartPit,
           CalibrationDone, interrupt_delete_local_callback, init_ipm
  <2>2. APs \subseteq CpuIds /\ bsp \notin APs
    BY Zenon, Machine
  <2> QED BY Zenon, <2>1, <2>2 DEF TypeInv
<1>3. /\ pc \in BeforeTrampoline /\ pc' \in BeforeTrampoline
      /\ pc' \in BeforeFrames => pc \in BeforeFrames
  BY Zenon DEF EarlyNext, init_multiboot, init_segmentation, init_bsp_boot_percpu, interrupt_init,
         acpi_init, allocate_aps_percpu_areas, init_final_gdt, setup_tss, init_lapic, init_ioapic,
         StartCalibration, interrupt_register_local_callback, ProgramPit, StartPit,
         CalibrationDone, interrupt_delete_local_callback, init_ipm,
         BeforeFrames, BeforeAcpi, BeforeCalibration, Calibrating, BeforeIpm, BeforeTrampoline
<1> QED BY Zenon, <1>1, <1>2, <1>3

LEMMA LateSteps ==
    ASSUME TypeInv, LateNext
    PROVE  /\ UNCHANGED <<machine, frames, owned, tramp, info>>
           /\ pc' \notin BeforeTrampoline /\ pc \notin BeforeTrampoline
           /\ pc' \notin Finishing => pc \notin Finishing
<1> USE DEF At, InShootdown, Unmap, memory, timer, smp
<1>1. UNCHANGED <<machine, frames, owned, tramp, info>>
  BY Zenon DEF LateNext, lapic_send_broadcast_init, FirstSipi, SecondSipi, AllApsOnline, unmap_code, unmap_data, unmap_func,
         exec_tlb_shootdown, ShootdownDone
<1>2. /\ pc' \notin BeforeTrampoline /\ pc \notin BeforeTrampoline
      /\ pc' \notin Finishing => pc \notin Finishing
  BY Zenon, Shootdowns
     DEF LateNext, lapic_send_broadcast_init, FirstSipi, SecondSipi, AllApsOnline, unmap_code, unmap_data, unmap_func,
         exec_tlb_shootdown, ShootdownDone,
         BeforeFrames, BeforeAcpi, BeforeCalibration, Calibrating, BeforeIpm, BeforeTrampoline, Finishing
<1> QED BY Zenon, <1>1, <1>2

\* So do the APs, the timer and interrupts.
LEMMA OtherSteps ==
    ASSUME PitUnderflow \/ \E c \in CpuIds : ApNext(c) \/ \E v \in Vectors : TakeInterrupt(c, v)
    PROVE  UNCHANGED <<machine, pc, frames, owned, tramp, mapped, info, callbacks, APS_ARE_ONLINE>>
  BY Zenon DEF PitUnderflow, TakeInterrupt, ApNext, RealMode, EnablePaging, SetStack, ap_init_segmentation, ap_setup_tss,
         Announce, ReadTarget, ap_finalize_start_up, ApUnchanged, memory, cpus, timer, smp

LEMMA BspSteps ==
    ASSUME BspNext
    PROVE  EarlyNext \/ init_frame_alloc \/ init_paging \/ create_trampoline \/ LateNext \/ FreeTrampoline
  BY Zenon DEF BspNext, EarlyNext, LateNext

-----------------------------------------------------------------------------
\* init_frame_alloc(): the marks hold, so that what is in use was available.
LEMMA InitialBitmap ==
    ASSUME TypeInv, BitmapFits[machine.mb]
    PROVE  LET bm == MarkedBitmap(machine.mb, BitmapStarts[machine.mb], init_initrd(machine.mb))
           IN  CountsFree(bm) /\ BootFrames \cap bm.avail = {}
<1> DEFINE avail == Covered(AvailFrames(machine.mb.mmap))
<1>1. machine \in Machines
  BY Zenon DEF TypeInv
<1>2. MarksHold(machine.mb, BitmapStarts[machine.mb], init_initrd(machine.mb))
  BY Zenon, <1>1 DEF BitmapFits, BitmapStarts
<1>3. BootFrames \subseteq avail
  BY Zenon, <1>2 DEF MarksHold, BootFrames
<1>4. IsFiniteSet(avail) /\ avail \subseteq Nat
  BY Zenon, <1>1, MachinesAssumption
<1> DEFINE all == [size |-> compute_bitmap_size(machine.mb.mmap), free |-> Cardinality(avail), avail |-> avail]
<1>5. CountsFree(all)
  BY Zenon, <1>4 DEF CountsFree
<1>6. CountsFree([size |-> all.size, free |-> all.free - Cardinality(BootFrames), avail |-> all.avail \ BootFrames])
  BY Zenon, <1>3, <1>5, SetBits
<1>7. MarkedBitmap(machine.mb, BitmapStarts[machine.mb], init_initrd(machine.mb))
        = [size |-> all.size, free |-> all.free - Cardinality(BootFrames), avail |-> all.avail \ BootFrames]
  BY Zenon DEF MarkedBitmap, NewBitmap, BootFrames
<1> QED BY <1>6, <1>7

\* The frames of alloc_frame() are not in use.
LEMMA Supplied ==
    ASSUME NEW bm, NEW from, NEW to
    PROVE  Supply(bm) \subseteq bm.avail /\ Calls(Supply(bm), from, to) \subseteq bm.avail
  BY Zenon DEF Supply, Calls, From

LEMMA TrampolineFrames ==
    ASSUME CountsFree(frames),
           NEW code, code = do_allocation(frames, TRUE), code # NO_FRAME,
           NEW data, data = do_allocation(Allocated(frames, code), TRUE), data # NO_FRAME
    PROVE  code \in frames.avail /\ data \in frames.avail \ {code}
<1>1. code \in frames.avail
  BY Zenon, LowFrame
<1>2. CountsFree(Allocated(frames, code)) /\ Allocated(frames, code).avail = frames.avail \ {code}
  BY Zenon, <1>1, SetBit DEF Allocated
<1>3. data \in Allocated(frames, code).avail
  BY Zenon, <1>2, LowFrame
<1> QED BY Zenon, <1>1, <1>2, <1>3

LEMMA MemoryStep ==
    ASSUME TypeInv, MemoryInv, Next
    PROVE  MemoryInv'
<1>1. CASE EarlyNext
  BY Zenon, <1>1, EarlySteps DEF MemoryInv, BootFrames
<1>2. CASE LateNext
  BY Zenon, <1>2, LateSteps DEF MemoryInv, BootFrames, BeforeTrampoline, BeforeCalibration, BeforeAcpi
<1>3. CASE PitUnderflow \/ \E c \in CpuIds : ApNext(c) \/ \E v \in Vectors : TakeInterrupt(c, v)
  BY Zenon, <1>3, OtherSteps DEF MemoryInv, BootFrames
<1>4. CASE init_frame_alloc
  <2>1. pc \in BeforeFrames /\ pc' \in BeforeTrampoline /\ UNCHANGED <<machine, owned>>
    BY Zenon, <1>4 DEF init_frame_alloc, At, Continue, BeforeFrames, BeforeTrampoline, BeforeCalibration, BeforeAcpi
  <2>2. CountsFree(frames') /\ (BootFrames \cup owned) \cap frames'.avail = {}
    <3>1. CASE BitmapFits[machine.mb]
      BY Zenon, <1>4, <2>1, <3>1, InitialBitmap DEF init_frame_alloc, MemoryInv
    <3>2. CASE ~BitmapFits[machine.mb]
      BY Zenon, <1>4, <3>2 DEF init_frame_alloc, MemoryInv
    <3> QED BY Zenon, <3>1, <3>2
  <2>3. BootFrames' = BootFrames
    BY Zenon, <2>1 DEF BootFrames
  <2> QED BY Zenon, <2>1, <2>2, <2>3 DEF MemoryInv
<1>5. CASE init_paging
  <2> DEFINE dir == Calls(Supply(frames), 1, 1)
  <2>1. pc \notin BeforeFrames /\ pc' \in BeforeTrampoline \ BeforeFrames /\ machine' = machine
    BY Zenon, <1>5 DEF init_paging, At, Continue, BeforeFrames, BeforeTrampoline, BeforeCalibration, BeforeAcpi
  <2>2. frames' = Allocate(frames, dir) /\ owned' = owned \cup dir
    BY Zenon, <1>5 DEF init_paging
  <2>3. dir \subseteq frames.avail
    BY Zenon, Supplied
  <2>4. CountsFree(frames') /\ frames'.avail = frames.avail \ dir
    BY Zenon, <2>2, <2>3, SetBits DEF Allocate, MemoryInv
  <2>5. BootFrames' = BootFrames
    BY Zenon, <2>1 DEF BootFrames
  <2> HIDE DEF dir
  <2> QED BY Zenon, <2>1, <2>2, <2>4, <2>5 DEF MemoryInv
<1>6. CASE create_trampoline
  <2> DEFINE code == do_allocation(frames, TRUE)
             data == do_allocation(Allocated(frames, code), TRUE)
             supply == Supply(Allocate(frames, {code, data}))
             stacks == [c \in DOMAIN areas |-> IF c = bsp THEN NoStack ELSE allocate_ap_kernel_stack(supply, c)]
             taken == {code, data} \cup UNION {stacks[c] : c \in DOMAIN stacks}
  <2>1. pc = "create_trampoline" /\ machine' = machine
    BY Zenon, <1>6 DEF create_trampoline, At
  <2>2. BootFrames' = BootFrames
    BY Zenon, <2>1 DEF BootFrames
  <2>3. CASE UNCHANGED <<pc, frames, owned>>
    BY Zenon, <2>1, <2>2, <2>3 DEF MemoryInv, BeforeTrampoline
  <2>4. CASE ~UNCHANGED <<pc, frames, owned>>
    <3>1. /\ code # NO_FRAME /\ data # NO_FRAME /\ pc' = "init"
          /\ frames' = Allocate(frames, taken) /\ owned' = owned \cup taken
          /\ tramp' = [code |-> code, data |-> data, kernel_stacks |-> stacks]
      BY ZenonT(30), <1>6, <2>4 DEF create_trampoline, Continue
    <3>2. code \in frames.avail /\ data \in frames.avail \ {code}
      BY Zenon, <3>1, TrampolineFrames DEF MemoryInv
    <3>3. supply \subseteq frames.avail
      BY Zenon, Supplied DEF Allocate
    <3>4. ASSUME NEW c \in DOMAIN stacks PROVE stacks[c] \subseteq supply
      <4>1. stacks[c] = IF c = bsp THEN NoStack ELSE allocate_ap_kernel_stack(supply, c)
        BY Zenon
      <4> HIDE DEF stacks, supply
      <4> QED BY Zenon, <4>1 DEF allocate_ap_kernel_stack, Calls, NoStack
    <3>5. taken \in SUBSET frames.avail
      <4> HIDE DEF code, data, supply, stacks
      <4> QED BY Zenon, <3>2, <3>3, <3>4
    <3>6. CountsFree(frames') /\ frames'.avail = frames.avail \ taken
      BY Zenon, <3>1, <3>5, SetBits DEF Allocate, MemoryInv
    <3>7. {code, data} \subseteq taken
      BY Zenon
    <3>8. tramp'.code = code /\ tramp'.data = data
      BY Zenon, <3>1
    <3>9. frames.avail \subseteq Nat /\ (BootFrames \cup owned) \cap frames.avail = {}
      BY Zenon DEF MemoryInv, CountsFree
    <3>10. pc' \notin BeforeFrames
      BY Zenon, <3>1 DEF BeforeFrames
    <3> HIDE DEF code, data, stacks, taken
    <3>11. (BootFrames \cup owned') \cap frames'.avail = {}
      BY Zenon, <3>1, <3>6, <3>9
    <3>12. code # data /\ code \in Nat /\ data \in Nat /\ {code, data} \cap (BootFrames \cup frames'.avail) = {}
      BY Zenon, <3>2, <3>6, <3>7, <3>9
    <3> QED BY Zenon, <2>2, <3>6, <3>8, <3>10, <3>11, <3>12 DEF MemoryInv
  <2> QED BY Zenon, <2>3, <2>4
<1>7. CASE FreeTrampoline
  <2>1. pc \notin BeforeTrampoline \cup Finishing /\ pc' \in Finishing /\ pc' \notin BeforeFrames /\ machine' = machine
    BY Zenon, <1>7 DEF FreeTrampoline, At, Finishing, BeforeTrampoline, BeforeCalibration, Calibrating, BeforeIpm, BeforeAcpi, BeforeFrames
  <2>2. /\ tramp.code # tramp.data /\ tramp.code \in Nat /\ tramp.data \in Nat
        /\ {tramp.code, tramp.data} \cap (BootFrames \cup frames.avail) = {}
        /\ CountsFree(frames) /\ (BootFrames \cup owned) \cap frames.avail = {}
    BY Zenon, <2>1 DEF MemoryInv
  <2> DEFINE bm == free_frame(frames, tramp.data)
  <2>3. CountsFree(bm) /\ bm.avail = frames.avail \cup {tramp.data}
    BY Zenon, <2>2, UnsetBit DEF free_frame
  <2> HIDE DEF bm
  <2>4. CountsFree(free_frame(bm, tramp.code)) /\ free_frame(bm, tramp.code).avail = frames.avail \cup {tramp.data, tramp.code}
    BY <2>2, <2>3, UnsetBit DEF free_frame
  <2>5. frames' = free_frame(bm, tramp.code) /\ owned' = owned \ {tramp.data, tramp.code}
    BY Zenon, <1>7 DEF FreeTrampoline, bm
  <2>6. BootFrames' = BootFrames
    BY Zenon, <2>1 DEF BootFrames
  <2> QED BY Zenon, <2>1, <2>2, <2>4, <2>5, <2>6 DEF MemoryInv
<1> QED BY Zenon, <1>1, <1>2, <1>3, <1>4, <1>5, <1>6, <1>7, BspSteps DEF Next

-----------------------------------------------------------------------------
LEMMA Stages ==
    /\ \A l \in BeforeTrampoline : l \notin {"init"} \cup WakingUp \cup Removing \cup Emptying \cup Finishing
    /\ "create_trampoline" \in BeforeTrampoline /\ "init" \notin BeforeTrampoline
  BY Zenon DEF BeforeTrampoline, BeforeCalibration, BeforeAcpi, BeforeFrames, Calibrating, BeforeIpm,
         WakingUp, Removing, Emptying, Finishing

\* Nothing happens to the APs before there is a trampoline.
LEMMA StartUpBefore ==
    ASSUME TypeInv, StartUpInv, EarlyNext \/ init_frame_alloc \/ init_paging
    PROVE  StartUpInv'
<1>1. /\ pc \in BeforeTrampoline /\ pc' \in BeforeTrampoline
      /\ UNCHANGED <<machine, aps, APS_ONLINE>>
      /\ \A c \in APs : iflag'[c] = iflag[c]
  <2>1. CASE EarlyNext
    BY Zenon, <2>1, EarlySteps
  <2>2. CASE init_frame_alloc \/ init_paging
    BY Zenon, <2>2 DEF init_frame_alloc, init_paging, At, Continue, BeforeTrampoline, BeforeCalibration, BeforeAcpi, BeforeFrames, smp
  <2> QED BY Zenon, <2>1, <2>2
<1>2. APs' = APs /\ Online' = Online
  BY Zenon, <1>1 DEF APs, bsp, Online
<1>3. \A c \in APs : aps[c] = "reset" /\ ~iflag[c]
  BY Zenon, <1>1 DEF StartUpInv
<1>4. APS_ONLINE = Cardinality(Online)
  BY Zenon, <1>1 DEF StartUpInv
<1>5. "reset" \notin HaveStack
  BY Zenon DEF HaveStack, Counted
<1>6. pc' \notin {"init"} \cup WakingUp \cup Removing \cup Emptying \cup Finishing
  BY Zenon, <1>1, Stages
<1>7. pc' # "shoot_code" /\ pc' # "unmap_code"
  BY Zenon, <1>6 DEF Removing
<1> QED BY Zenon, <1>1, <1>2, <1>3, <1>4, <1>5, <1>6, <1>7 DEF StartUpInv

LEMMA StartUpCreate ==
    ASSUME TypeInv, StartUpInv, create_trampoline
    PROVE  StartUpInv'
<1>1. /\ pc = "create_trampoline" /\ pc' \in {"create_trampoline", "init"}
      /\ UNCHANGED <<machine, aps, APS_ONLINE, iflag, info>>
  BY Zenon DEF create_trampoline, At, Continue
<1>2. APs' = APs /\ Online' = Online
  BY Zenon, <1>1 DEF APs, bsp, Online
<1>3. \A c \in APs : aps[c] = "reset" /\ ~iflag[c]
  BY Zenon, <1>1, Stages DEF StartUpInv
<1>4. APS_ONLINE = Cardinality(Online)
  BY Zenon, <1>1, Stages DEF StartUpInv
<1>5. "reset" \notin HaveStack
  BY Zenon DEF HaveStack, Counted
<1>6. pc' = "init" => /\ tramp'.code \in mapped' /\ tramp'.data \in mapped'
                      /\ DOMAIN tramp'.kernel_stacks = DOMAIN areas
  BY Zenon, <1>1 DEF create_trampoline, Continue
<1>7. DOMAIN areas = 0 .. ncpus - 1 /\ ncpus' = ncpus
  BY Zenon, <1>1 DEF TypeInv, BeforeAcpi, BeforeFrames, ncpus
<1>8. pc' \notin WakingUp \cup Removing \cup Emptying \cup Finishing /\ pc' # "shoot_code" /\ pc' # "unmap_code"
  BY Zenon, <1>1 DEF WakingUp, Removing, Emptying, Finishing
<1>9. pc' = "create_trampoline" => pc' \in BeforeTrampoline
  BY Zenon, Stages
<1> QED BY Zenon, <1>1, <1>2, <1>3, <1>4, <1>5, <1>6, <1>7, <1>8, <1>9 DEF StartUpInv

\* The APs are woken up, and counted.
LEMMA StartUpWake ==
    ASSUME TypeInv, StartUpInv, lapic_send_broadcast_init \/ FirstSipi \/ SecondSipi
    PROVE  StartUpInv'
<1>1. /\ pc \in {"init", "sipi", "second_sipi"} /\ pc' \in WakingUp
      /\ UNCHANGED <<machine, info, tramp, mapped, APS_ONLINE>>
      /\ \A c \in CpuIds : iflag'[c] => iflag[c] /\ (c \in APs => aps'[c] = aps[c])
      /\ \A c \in APs : aps'[c] # aps[c] => aps[c] \in {"reset", "wait"} /\ aps'[c] \in {"wait", "real_mode"}
  <2>1. APs \subseteq CpuIds
    BY Zenon, Machine
  <2>2. CASE lapic_send_broadcast_init
    <3>1. \A c \in APs : aps[c] = "reset"
      BY Zenon, <2>2 DEF StartUpInv, lapic_send_broadcast_init, At
    <3> QED BY ZenonT(30), <2>1, <2>2, <3>1 DEF lapic_send_broadcast_init, At, WakingUp, TypeInv
  <2>3. CASE FirstSipi \/ SecondSipi
    <3>1. \A c \in APs : aps[c] = "wait" => ~iflag[c]
      BY Zenon DEF StartUpInv
    <3> QED BY Zenon, <2>1, <2>3, <3>1 DEF FirstSipi, SecondSipi, At, Started, Waiting, WakingUp, TypeInv
  <2> QED BY Zenon, <2>2, <2>3
<1>2. APs' = APs /\ ncpus' = ncpus /\ APs \subseteq CpuIds
  BY Zenon, <1>1, Machine DEF APs, bsp, ncpus
<1>3. \A c \in APs : (aps'[c] \in Counted <=> aps[c] \in Counted) /\ (aps'[c] \in HaveStack => aps[c] \in HaveStack)
  BY Zenon, <1>1 DEF Counted, HaveStack
<1>4. Online' = Online
  BY Zenon, <1>2, <1>3 DEF Online
<1>5. /\ pc \in {"init"} \cup WakingUp
      /\ pc' \notin BeforeTrampoline \cup {"init"} \cup Removing \cup Emptying \cup Finishing
      /\ pc \notin BeforeTrampoline \cup Finishing /\ pc' # "shoot_code"
  BY Zenon, <1>1, Stages DEF WakingUp, Removing, Emptying, Finishing
<1> QED BY Zenon, <1>1, <1>2, <1>3, <1>4, <1>5 DEF StartUpInv

\* When the last AP has been counted, all of them are past the code frame.
LEMMA StartUpOnline ==
    ASSUME TypeInv, StartUpInv, AllApsOnline
    PROVE  StartUpInv'
<1>1. /\ pc = "wait_aps" /\ pc' = "unmap_code" /\ APS_ARE_ONLINE' /\ APS_ONLINE = ncpus - 1
      /\ UNCHANGED <<machine, info, tramp, mapped, aps, iflag>>
  BY Zenon DEF AllApsOnline, At
<1>2. APs' = APs /\ ncpus' = ncpus /\ Online' = Online
  BY Zenon, <1>1 DEF APs, bsp, ncpus, Online
<1>3. Cardinality(Online) = ncpus - 1
  BY Zenon, <1>1 DEF StartUpInv, WakingUp
<1>4. ncpus \in Nat /\ Cardinality(machine.cpus) <= ncpus
  <2>1. machine \in Machines /\ info = parse_acpi_info(machine.firmware) /\ CanParse(machine.firmware) /\ ncpus # 0
    BY Zenon, <1>1 DEF TypeInv, BeforeAcpi, BeforeFrames
  <2> QED BY <2>1, MachinesAssumption DEF ncpus
<1>5. IsFiniteSet(APs) /\ Cardinality(APs) = Cardinality(machine.cpus) - 1 /\ Cardinality(machine.cpus) \in Nat
  BY Zenon, Machine
<1>6. Online \subseteq APs
  BY Zenon DEF Online
<1>7. /\ Cardinality(Online) <= Cardinality(APs)
      /\ Cardinality(Online) = Cardinality(APs) => Online = APs
  BY Zenon, <1>5, <1>6, FS_Subset
<1>8. Cardinality(APs) \in Nat /\ Cardinality(Online) \in Int
  BY <1>3, <1>4, <1>5, FS_CardinalityType
<1>9. Online = APs
  BY <1>3, <1>4, <1>5, <1>7, <1>8
<1>10. /\ pc' \in Removing /\ pc \in WakingUp /\ pc' # "shoot_code"
       /\ pc' \notin BeforeTrampoline \cup {"init"} \cup WakingUp \cup Emptying \cup Finishing
       /\ pc \notin BeforeTrampoline \cup Finishing
  BY Zenon, <1>1, Stages DEF WakingUp, Removing, Emptying, Finishing
<1> QED BY Zenon, <1>1, <1>2, <1>9, <1>10 DEF StartUpInv

\* The shootdown for the code frame goes through all the APs, none of which
\* acknowledges it before it has reached its target.
LEMMA StartUpUnmapCode ==
    ASSUME TypeInv, MemoryInv, StartUpInv, unmap_code
    PROVE  StartUpInv'
<1>1. /\ pc = "unmap_code" /\ pc' = "shoot_code"
      /\ UNCHANGED <<machine, info, tramp, aps, iflag, APS_ARE_ONLINE>>
      /\ mapped' = mapped \ {tramp.code}
      /\ shoot' = [shoot EXCEPT !.left = IF APS_ARE_ONLINE THEN (0 .. ncpus - 1) \ {bsp} ELSE {}]
  BY Zenon DEF unmap_code, Unmap, At
<1>2. APs' = APs /\ ncpus' = ncpus /\ Online' = Online /\ bsp \notin APs
  BY Zenon, <1>1 DEF APs, bsp, ncpus, Online
<1>3. /\ pc \in Removing /\ pc' \in Removing /\ pc' # "unmap_code"
      /\ pc' \notin BeforeTrampoline \cup {"init"} \cup WakingUp \cup Emptying \cup Finishing
      /\ pc \notin BeforeTrampoline \cup Finishing
  BY Zenon, <1>1, Stages DEF WakingUp, Removing, Emptying, Finishing
<1>4. tramp.code # tramp.data
  BY Zenon, <1>3 DEF MemoryInv
<1>5. APS_ARE_ONLINE /\ Online = APs /\ tramp.data \in mapped
  BY Zenon, <1>3 DEF StartUpInv
<1>6. \A c \in APs : c \in shoot'.left
  <2>1. \A c \in APs : c \in 0 .. ncpus - 1
    BY Zenon, <1>5 DEF StartUpInv, Online, HaveStack
  <2>2. shoot'.left = (0 .. ncpus - 1) \ {bsp}
    BY Zenon, <1>1, <1>5 DEF TypeInv
  <2> QED BY Zenon, <1>2, <2>1, <2>2
<1>7. tramp.data \in mapped'
  BY Zenon, <1>1, <1>4, <1>5
<1> QED BY Zenon, <1>1, <1>2, <1>3, <1>5, <1>6, <1>7 DEF StartUpInv

LEMMA StartUpShoot ==
    ASSUME TypeInv, StartUpInv, exec_tlb_shootdown
    PROVE  StartUpInv'
<1>1. /\ UNCHANGED <<machine, pc, info, tramp, mapped, aps, APS_ONLINE, APS_ARE_ONLINE>>
      /\ iflag' = [iflag EXCEPT ![bsp] = TRUE]
      /\ shoot.at = NO_CPU /\ \E c : shoot'.left = shoot.left \ {c} /\ shoot'.at = c
  BY Zenon DEF exec_tlb_shootdown
<1>2. APs' = APs /\ ncpus' = ncpus /\ Online' = Online
  BY Zenon, <1>1 DEF APs, bsp, ncpus, Online
<1>3. APs \subseteq CpuIds /\ APs \subseteq Nat /\ bsp \notin APs
  BY Zenon, Machine
<1>4. \A c \in APs : iflag'[c] = iflag[c]
  BY Zenon, <1>1, <1>3 DEF TypeInv
<1>5. \A c \in APs : c \notin shoot'.left \cup {shoot'.at} => c \notin shoot.left \cup {shoot.at}
  <2>1. \A c \in APs : c # NO_CPU
    BY SMTT(30), <1>3 DEF NO_CPU
  <2> QED BY Zenon, <1>1, <2>1
<1> QED BY ZenonT(30), <1>1, <1>2, <1>4, <1>5 DEF StartUpInv

\* From there on every AP waits for work.
LEMMA StartUpAfter ==
    ASSUME TypeInv, StartUpInv, ShootdownDone \/ unmap_data \/ unmap_func \/ FreeTrampoline
    PROVE  StartUpInv'
<1>1. /\ UNCHANGED <<machine, info, tramp, aps>> /\ \A c \in APs : iflag'[c] = iflag[c]
      /\ pc \in {"shoot_code"} \cup Emptying \cup Finishing /\ pc' \in Emptying \cup Finishing
      /\ pc = "shoot_code" => shoot.left = {} /\ shoot.at = NO_CPU
  <2>1. CASE ShootdownDone
    <3>1. APs \subseteq CpuIds /\ bsp \notin APs
      BY Zenon, Machine
    <3> QED BY Zenon, <2>1, <3>1, Shootdowns DEF ShootdownDone, InShootdown, TypeInv, Emptying, Finishing, smp
  <2>2. CASE unmap_data \/ unmap_func
    BY Zenon, <2>2 DEF unmap_data, unmap_func, Unmap, At, Emptying, Finishing
  <2>3. CASE FreeTrampoline
    BY Zenon, <2>3 DEF FreeTrampoline, At, Emptying, Finishing, smp
  <2> QED BY Zenon, <2>1, <2>2, <2>3
<1>2. APs' = APs /\ ncpus' = ncpus /\ APs \subseteq Nat
  BY Zenon, <1>1, Machine DEF APs, bsp, ncpus
<1>3. \A c \in APs : aps[c] = "idle"
  BY <1>1, <1>2 DEF StartUpInv, NO_CPU
<1>4. pc' \notin BeforeTrampoline \cup {"init", "unmap_code", "shoot_code"} \cup WakingUp \cup Removing
  BY Zenon, <1>1, Stages DEF WakingUp, Removing, Emptying, Finishing
<1>5. pc \in Finishing => pc' \in Finishing
  BY Zenon, Shootdowns DEF Finishing, ShootdownDone, InShootdown, unmap_data, unmap_func, Unmap, FreeTrampoline, At
<1>6. pc \notin BeforeTrampoline
  BY Zenon, <1>1, Stages DEF Removing
<1> QED BY Zenon, <1>1, <1>2, <1>3, <1>4, <1>5, <1>6 DEF StartUpInv

-----------------------------------------------------------------------------
\* The APs.

LEMMA StartUpAp ==
    ASSUME TypeInv, StartUpInv, NEW c \in CpuIds, ApNext(c)
    PROVE  StartUpInv'
<1>1. /\ UNCHANGED <<machine, pc, info, tramp, mapped, APS_ARE_ONLINE, shoot>>
      /\ c \in APs
      /\ \A d \in APs \ {c} : aps'[d] = aps[d] /\ iflag'[d] = iflag[d]
  <2>1. c \in APs /\ APs \subseteq CpuIds
    BY Zenon, Machine DEF ApNext, ApStep, RealMode, EnablePaging, SetStack, ap_init_segmentation, ap_setup_tss, Announce, ReadTarget,
                   ap_finalize_start_up
  <2>2. \A d \in CpuIds \ {c} : aps'[d] = aps[d]
    BY Zenon DEF TypeInv, ApNext, ApStep, RealMode, EnablePaging, SetStack, ap_init_segmentation, ap_setup_tss, Announce, ReadTarget,
           ap_finalize_start_up
  <2>3. \A d \in CpuIds \ {c} : iflag'[d] = iflag[d]
    BY Zenon DEF TypeInv, ApNext, ApStep, RealMode, EnablePaging, SetStack, ap_init_segmentation, ap_setup_tss, Announce, ReadTarget,
           ap_finalize_start_up
  <2>4. UNCHANGED <<machine, pc, info, tramp, mapped, APS_ARE_ONLINE, shoot>>
    BY Zenon DEF ApNext, RealMode, EnablePaging, SetStack, ap_init_segmentation, ap_setup_tss, Announce, ReadTarget,
           ap_finalize_start_up, ApUnchanged
  <2> QED BY Zenon, <2>1, <2>2, <2>3, <2>4
<1>2. APs' = APs /\ ncpus' = ncpus /\ IsFiniteSet(APs)
  BY Zenon, <1>1, Machine DEF APs, bsp, ncpus
\* Where an AP that takes a step is, it cannot be that all of them are in reset
\* or that all of them are idle.
<1>3. aps[c] \notin {"reset", "wait", "idle"} /\ pc \notin BeforeTrampoline \cup {"init"} \cup Emptying \cup Finishing
  <2>1. aps[c] \notin {"reset", "wait", "idle"}
    BY Zenon DEF ApNext, ApStep, RealMode, EnablePaging, SetStack, ap_init_segmentation, ap_setup_tss, Announce, ReadTarget,
           ap_finalize_start_up
  <2> QED BY Zenon, <1>1, <2>1 DEF StartUpInv
<1>4. aps'[c] \in HaveStack => c \in 0 .. ncpus - 1
  <2>1. CASE SetStack(c)
    <3>1. DOMAIN tramp.kernel_stacks = 0 .. ncpus - 1
      BY Zenon, <1>3 DEF StartUpInv
    <3> QED BY Zenon, <2>1, <3>1 DEF SetStack, ApStep, TypeInv, HaveStack, Counted
  <2>2. CASE ~SetStack(c)
    <3>1. aps'[c] \in HaveStack => aps[c] \in HaveStack
      BY Zenon, <2>2 DEF ApNext, ApStep, RealMode, EnablePaging, ap_init_segmentation, ap_setup_tss, Announce, ReadTarget,
                  ap_finalize_start_up, TypeInv, HaveStack, Counted
    <3> QED BY Zenon, <1>1, <3>1 DEF StartUpInv
  <2> QED BY Zenon, <2>1, <2>2
<1>5. iflag'[c] => aps'[c] = "idle"
  <2>1. ~iflag[c]
    BY Zenon, <1>1, <1>3 DEF StartUpInv
  <2> QED BY Zenon, <2>1 DEF ApNext, RealMode, EnablePaging, SetStack, ap_init_segmentation, ap_setup_tss, Announce, ReadTarget,
                      ap_finalize_start_up, TypeInv
<1>6. aps[c] \in Counted => aps'[c] \in Counted
  BY Zenon DEF ApNext, ApStep, RealMode, EnablePaging, SetStack, ap_init_segmentation, ap_setup_tss, Announce, ReadTarget,
         ap_finalize_start_up, TypeInv, Counted
<1>7. CASE Announce(c)
  <2>1. aps[c] = "online" /\ aps'[c] = "read_target" /\ APS_ONLINE' = APS_ONLINE + 1
    BY Zenon, <1>7 DEF Announce, TypeInv
  <2>2. Online' = Online \cup {c} /\ c \notin Online /\ Online \subseteq APs
    BY Zenon, <1>1, <1>2, <2>1 DEF Online, Counted
  <2>3. IsFiniteSet(Online) /\ Cardinality(Online') = Cardinality(Online) + 1
    BY Zenon, <1>2, <2>2, FS_Subset, FS_AddElement
  <2>4. pc \notin Removing /\ pc # "shoot_code"
    BY ZenonT(30), <1>1, <2>2 DEF StartUpInv, Removing
  <2> QED BY Zenon, <1>1, <1>2, <1>3, <1>4, <1>5, <2>1, <2>3, <2>4 DEF StartUpInv
<1>8. CASE ~Announce(c)
  <2>1. APS_ONLINE' = APS_ONLINE
    BY Zenon, <1>8 DEF ApNext, RealMode, EnablePaging, SetStack, ap_init_segmentation, ap_setup_tss, ReadTarget, ap_finalize_start_up
  <2>2. aps'[c] \in Counted => aps[c] \in Counted
    BY Zenon, <1>8 DEF ApNext, ApStep, RealMode, EnablePaging, SetStack, ap_init_segmentation, ap_setup_tss, ReadTarget,
                ap_finalize_start_up, TypeInv, Counted
  <2>3. Online' = Online
    BY Zenon, <1>1, <1>2, <1>6, <2>2 DEF Online
  <2> QED BY Zenon, <1>1, <1>2, <1>3, <1>4, <1>5, <2>1, <2>3 DEF StartUpInv
<1> QED BY Zenon, <1>7, <1>8

LEMMA StartUpInterrupt ==
    ASSUME TypeInv, StartUpInv, NEW c \in CpuIds, NEW v \in Vectors, TakeInterrupt(c, v)
    PROVE  StartUpInv'
<1>1. /\ UNCHANGED <<machine, pc, info, tramp, mapped, aps, iflag, APS_ONLINE, APS_ARE_ONLINE>> /\ iflag[c]
      /\ shoot'.left = shoot.left /\ (shoot'.at = shoot.at \/ shoot.at = c)
  BY Zenon DEF TakeInterrupt, TypeInv
<1>2. APs' = APs /\ ncpus' = ncpus /\ Online' = Online
  BY ZenonT(30), <1>1 DEF APs, bsp, ncpus, Online
<1>3. c \in APs => aps[c] = "idle"
  BY Zenon, <1>1 DEF StartUpInv
<1> QED BY Zenon, <1>1, <1>2, <1>3 DEF StartUpInv

LEMMA StartUpStep ==
    ASSUME TypeInv, MemoryInv, StartUpInv, Next
    PROVE  StartUpInv'
<1>1. CASE PitUnderflow
  BY Zenon, <1>1 DEF PitUnderflow, smp, StartUpInv, APs, bsp, ncpus, Online
<1>2. CASE LateNext
  BY Zenon, <1>2, StartUpWake, StartUpOnline, StartUpUnmapCode, StartUpShoot, StartUpAfter DEF LateNext
<1>3. CASE BspNext
  BY Zenon, <1>2, <1>3, BspSteps, StartUpBefore, StartUpCreate, StartUpAfter
<1> QED BY Zenon, <1>1, <1>3, StartUpAp, StartUpInterrupt DEF Next

-----------------------------------------------------------------------------
\* Interrupts.

ShootLocations == {"shoot_code", "shoot_data", "shoot_func"}

LEMMA CalibrationStages ==
    /\ \A l \in BeforeCalibration : /\ l \notin Calibrating \cup {"delete_callback"} \cup ShootLocations
                                    /\ l \in BeforeTrampoline \ {"create_trampoline"}
    /\ \A l \in Calibrating \cup BeforeIpm : /\ l \notin BeforeCalibration \cup ShootLocations
                                             /\ l \in BeforeTrampoline \ {"create_trampoline"}
    /\ \A l : l \notin BeforeTrampoline => l \notin BeforeCalibration \cup Calibrating \cup BeforeIpm \cup {"create_trampoline"}
    /\ "create_trampoline" \notin BeforeCalibration \cup Calibrating \cup BeforeIpm \cup ShootLocations
    /\ "delete_callback" \in BeforeIpm /\ "init_ipm" \in BeforeIpm
    /\ \A l \in BeforeIpm : l \notin Calibrating
  BY Zenon DEF BeforeCalibration, BeforeAcpi, BeforeFrames, Calibrating, BeforeIpm, BeforeTrampoline, ShootLocations

\* Before the calibration no interrupt is let through.
LEMMA InterruptsBefore ==
    ASSUME TypeInv, InterruptInv,
           \/ init_multiboot \/ init_segmentation \/ init_bsp_boot_percpu \/ interrupt_init \/ init_frame_alloc
           \/ init_paging \/ acpi_init \/ allocate_aps_percpu_areas \/ init_final_gdt \/ setup_tss \/ init_lapic \/ init_ioapic
    PROVE  InterruptInv'
<1> USE DEF At, Continue, timer
<1>1. pc \in BeforeCalibration /\ pc' \in BeforeCalibration
  BY Zenon DEF init_multiboot, init_segmentation, init_bsp_boot_percpu, interrupt_init, init_frame_alloc, init_paging,
         acpi_init, allocate_aps_percpu_areas, init_final_gdt, setup_tss, init_lapic, init_ioapic,
         BeforeCalibration, BeforeAcpi, BeforeFrames
<1>2. UNCHANGED <<machine, redirection, calib, pending>>
  BY Zenon DEF init_multiboot, init_segmentation, init_bsp_boot_percpu, interrupt_init, init_frame_alloc, init_paging,
         acpi_init, allocate_aps_percpu_areas, init_final_gdt, setup_tss, init_lapic, init_ioapic
<1>3. /\ callbacks' = [global |-> callbacks'.global, local |-> callbacks.local]
      /\ callbacks'.local = callbacks.local
      /\ callbacks'.global \in [Vectors -> {NULL, "double_fault_panic", "ipm_handler"}]
  <2>1. CASE interrupt_init
    BY Zenon, <2>1 DEF interrupt_init, InterruptInv
  <2>2. CASE ~interrupt_init
    <3>1. callbacks' = callbacks
      BY Zenon, <2>2 DEF init_multiboot, init_segmentation, init_bsp_boot_percpu, init_frame_alloc, init_paging,
         acpi_init, allocate_aps_percpu_areas, init_final_gdt, setup_tss, init_lapic, init_ioapic
    <3> QED BY Zenon, <3>1 DEF InterruptInv
  <2> QED BY Zenon, <2>1, <2>2
<1>4. ~iflag'[bsp]
  <2>1. ~iflag[bsp] /\ bsp \in CpuIds
    BY Zenon, <1>1, CalibrationStages, Machine DEF InterruptInv, Calibrating, ShootLocations
  <2>2. iflag' = iflag \/ iflag' = [iflag EXCEPT ![bsp] = FALSE]
    BY Zenon DEF init_multiboot, init_segmentation, init_bsp_boot_percpu, interrupt_init, init_frame_alloc, init_paging,
           acpi_init, allocate_aps_percpu_areas, init_final_gdt, setup_tss, init_lapic, init_ioapic
  <2> QED BY Zenon, <2>1, <2>2 DEF TypeInv
<1>5. bsp' = bsp
  BY Zenon, <1>2 DEF bsp
<1>6. /\ pc' \notin Calibrating \cup {"delete_callback"} /\ pc' \in BeforeTrampoline \ {"create_trampoline"}
      /\ pc \notin Calibrating \cup {"delete_callback"} /\ pc \in BeforeTrampoline \ {"create_trampoline"}
  BY Zenon, <1>1, CalibrationStages
<1>7. \A p \in ISA : redirection[p].masked
  BY Zenon, <1>1 DEF InterruptInv
<1>8. \A c \in CpuIds : PIT_VECTOR \notin pending[c] /\ IPM_VECTOR \notin pending[c]
  BY Zenon, <1>1, <1>6 DEF InterruptInv
<1> QED BY SMTT(30), <1>1, <1>2, <1>3, <1>4, <1>5, <1>6, <1>7, <1>8 DEF InterruptInv

LEMMA InterruptsStart ==
    ASSUME TypeInv, InterruptInv, StartCalibration
    PROVE  InterruptInv'
<1>1. /\ pc = "calibrate_timer" /\ pc' = "register_callback"
      /\ UNCHANGED <<machine, info, iflag, callbacks, pending>>
      /\ calib' = [calib EXCEPT !.num_underflows_remaining = N]
      /\ redirection' = [redirection EXCEPT ![Pin(0)] = [vector |-> PIT_VECTOR, masked |-> FALSE, dest |-> bsp]]
  BY Zenon DEF StartCalibration, redirect_isa_interrupt, At
<1>2. pc \in BeforeCalibration /\ pc' \in Calibrating
  BY Zenon, <1>1 DEF BeforeCalibration, Calibrating
<1>3. bsp' = bsp /\ Pin(0)' = Pin(0)
  BY Zenon, <1>1 DEF bsp, Pin
<1>4. /\ pc' \notin BeforeCalibration \cup {"delete_callback"} /\ pc' \in BeforeTrampoline \ {"create_trampoline"}
      /\ pc \notin Calibrating \cup {"delete_callback"} /\ pc \in BeforeTrampoline \ {"create_trampoline"}
  BY Zenon, <1>1, <1>2, CalibrationStages
<1>5. ~iflag[bsp] /\ ~calib.calibrate_done /\ \A p \in ISA : redirection[p].masked
  BY Zenon, <1>1, <1>2, CalibrationStages DEF InterruptInv, ShootLocations
<1>6. /\ calib' = [num_underflows_remaining |-> calib'.num_underflows_remaining, calibrate_done |-> calib'.calibrate_done]
      /\ calib'.calibrate_done = FALSE
  BY Zenon, <1>1, <1>5 DEF InterruptInv
<1>7. DOMAIN redirection' = ISA /\ \A p \in ISA : redirection'[p] = IF p = Pin(0) THEN [vector |-> PIT_VECTOR, masked |-> FALSE, dest |-> bsp] ELSE redirection[p]
  BY Zenon, <1>1 DEF InterruptInv
<1>8. ASSUME NEW p \in ISA
      PROVE  /\ redirection'[p] = [vector |-> redirection'[p].vector, masked |-> redirection'[p].masked, dest |-> redirection'[p].dest]
             /\ redirection'[p].masked \in BOOLEAN
             /\ ~redirection'[p].masked => p = Pin(0) /\ redirection'[p].vector = PIT_VECTOR /\ redirection'[p].dest = bsp
  <2>1. CASE p = Pin(0)
    <3>1. redirection'[p] = [vector |-> PIT_VECTOR, masked |-> FALSE, dest |-> bsp]
      BY Zenon, <1>7, <2>1
    <3>2. redirection'[p].vector = PIT_VECTOR /\ redirection'[p].masked = FALSE /\ redirection'[p].dest = bsp
      BY SMTT(30), <3>1
    <3> QED BY Zenon, <2>1, <3>1, <3>2
  <2>2. CASE p # Pin(0)
    <3>1. redirection'[p] = redirection[p]
      BY Zenon, <1>7, <2>2
    <3> QED BY Zenon, <1>5, <3>1 DEF InterruptInv
  <2> QED BY Zenon, <2>1, <2>2
<1>9. \A c \in CpuIds : PIT_VECTOR \notin pending[c] /\ IPM_VECTOR \notin pending[c]
  BY Zenon, <1>2, <1>4 DEF InterruptInv
<1> QED BY Zenon, <1>1, <1>2, <1>3, <1>4, <1>5, <1>6, <1>7, <1>8, <1>9 DEF InterruptInv

\* The callback is there whenever the BSP has set IF for the calibration.
LEMMA InterruptsCalibrate ==
    ASSUME TypeInv, InterruptInv,
           interrupt_register_local_callback \/ ProgramPit \/ StartPit \/ CalibrationDone \/ interrupt_delete_local_callback
    PROVE  InterruptInv'
<1> USE DEF At, timer
<1>1. /\ UNCHANGED <<machine, info, pending, redirection, calib>>
      /\ pc \in Calibrating \cup {"delete_callback"} /\ pc' \in (Calibrating \ {"register_callback"}) \cup BeforeIpm
      /\ pc' \in BeforeIpm => calib.calibrate_done
  <2>1. CASE interrupt_register_local_callback
    <3>1. callbacks.local[PIT_VECTOR] = NULL
      BY Zenon, <2>1 DEF interrupt_register_local_callback, InterruptInv, Calibrating
    <3>2. CanRegister(callbacks.local, PIT_VECTOR, "calibrate_timer_pit_handler")
      BY Zenon, <3>1 DEF CanRegister
    <3> QED BY Zenon, <2>1, <3>2 DEF interrupt_register_local_callback, Continue, Calibrating, BeforeIpm
  <2>2. CASE interrupt_delete_local_callback
    BY Zenon, <2>2, CalibrationStages DEF interrupt_delete_local_callback, Calibrating, BeforeIpm, InterruptInv
  <2>3. CASE ProgramPit \/ StartPit \/ CalibrationDone
    BY Zenon, <2>3 DEF ProgramPit, StartPit, CalibrationDone, Calibrating, BeforeIpm
  <2> QED BY Zenon, <2>1, <2>2, <2>3
<1>2. /\ callbacks' = [global |-> callbacks.global, local |-> callbacks'.local] /\ callbacks'.global = callbacks.global
      /\ callbacks'.local \in [Vectors -> {NULL, "calibrate_timer_pit_handler"}]
      /\ callbacks'.local[PIT_VECTOR] = NULL <=> pc' = "init_ipm"
      /\ \A v \in Vectors \ {PIT_VECTOR} : callbacks'.local[v] = NULL
  <2>1. PIT_VECTOR \in Vectors
    BY Zenon DEF Vectors
  <2>2. CASE interrupt_register_local_callback
    BY Zenon, <1>1, <2>1, <2>2 DEF interrupt_register_local_callback, InterruptInv, NULL, Continue
  <2>3. CASE interrupt_delete_local_callback
    BY Zenon, <2>1, <2>3 DEF interrupt_delete_local_callback, InterruptInv
  <2>4. CASE ProgramPit \/ StartPit \/ CalibrationDone
    BY Zenon, <2>4 DEF ProgramPit, StartPit, CalibrationDone, InterruptInv, Calibrating
  <2> QED BY Zenon, <2>2, <2>3, <2>4
<1>3. iflag'[bsp] => pc' \in {"start_pit", "calibrate_wait"}
  <2>1. bsp \in CpuIds
    BY Zenon, Machine
  <2> QED BY <2>1 DEF interrupt_register_local_callback, ProgramPit, StartPit, CalibrationDone, interrupt_delete_local_callback,
                      Continue, InterruptInv, TypeInv
<1>4. bsp' = bsp /\ Pin(0)' = Pin(0)
  BY Zenon, <1>1 DEF bsp, Pin
<1>5. /\ pc' \notin BeforeCalibration /\ pc' \in BeforeTrampoline \ {"create_trampoline"}
      /\ pc \notin BeforeCalibration /\ pc \in BeforeTrampoline \ {"create_trampoline"}
  BY Zenon, <1>1, CalibrationStages
<1>6. pc' = "init_ipm" <=> pc' \notin (Calibrating \ {"register_callback"}) \cup {"delete_callback"}
  BY Zenon, <1>1 DEF Calibrating, BeforeIpm
<1>7. pc' \notin Calibrating => calib.calibrate_done
  BY Zenon, <1>1
<1> QED BY Zenon, <1>1, <1>2, <1>3, <1>4, <1>5, <1>6, <1>7 DEF InterruptInv

LEMMA InterruptsIpm ==
    ASSUME TypeInv, InterruptInv, init_ipm
    PROVE  InterruptInv'
<1>1. /\ pc = "init_ipm" /\ pc' \in {"init_ipm", "create_trampoline"}
      /\ UNCHANGED <<machine, info, iflag, pending, redirection, calib>>
  BY Zenon DEF init_ipm, At, Continue, timer
<1>2. /\ callbacks' = [global |-> callbacks'.global, local |-> callbacks.local]
      /\ callbacks'.local = callbacks.local
      /\ callbacks'.global \in [Vectors -> {NULL, "double_fault_panic", "ipm_handler"}]
      /\ callbacks'.global[IPM_VECTOR] = "ipm_handler"
  <2>1. IPM_VECTOR \in Vectors
    BY Zenon DEF Vectors
  <2> QED BY Zenon, <2>1 DEF init_ipm, InterruptInv
<1>3. /\ pc \in BeforeIpm /\ pc \notin BeforeCalibration \cup Calibrating \cup {"delete_callback"}
      /\ pc' \notin BeforeCalibration \cup Calibrating \cup {"delete_callback"} /\ pc \in BeforeTrampoline /\ pc' \in BeforeTrampoline
  BY Zenon, <1>1, CalibrationStages, Stages
<1>4. ~iflag[bsp]
  BY Zenon, <1>1 DEF InterruptInv
<1>5. bsp' = bsp /\ Pin(0)' = Pin(0)
  BY Zenon, <1>1 DEF bsp, Pin
<1> QED BY Zenon, <1>1, <1>2, <1>3, <1>4, <1>5 DEF InterruptInv

\* Afterwards the timer is quiet, and there is a callback for messages.
LEMMA InterruptsAfter ==
    ASSUME TypeInv, InterruptInv, create_trampoline \/ LateNext \/ FreeTrampoline
    PROVE  InterruptInv'
<1> USE DEF At, timer
<1>1. /\ UNCHANGED <<machine, info, callbacks, redirection, calib>>
      /\ pc \notin BeforeTrampoline \ {"create_trampoline"} /\ pc' \notin BeforeTrampoline \ {"create_trampoline"}
  <2>1. CASE create_trampoline
    BY Zenon, <2>1, Stages DEF create_trampoline, Continue
  <2>2. CASE LateNext
    <3>1. UNCHANGED <<callbacks, redirection, calib>>
      BY Zenon, <2>2 DEF LateNext, lapic_send_broadcast_init, FirstSipi, SecondSipi, AllApsOnline, unmap_code, unmap_data, unmap_func,
                  Unmap, exec_tlb_shootdown, ShootdownDone
    <3> QED BY Zenon, <2>2, <3>1, LateSteps
  <2>3. CASE FreeTrampoline
    BY Zenon, <2>3, Stages DEF FreeTrampoline, Emptying, Finishing
  <2> QED BY Zenon, <2>1, <2>2, <2>3
<1>2. /\ pc \notin BeforeCalibration \cup Calibrating \cup {"delete_callback"}
      /\ pc' \notin BeforeCalibration \cup Calibrating \cup {"delete_callback"}
  BY Zenon, <1>1, CalibrationStages
<1>3. bsp' = bsp /\ Pin(0)' = Pin(0) /\ bsp \in CpuIds
  BY Zenon, <1>1, Machine DEF bsp, Pin
<1>4. iflag'[bsp] => pc' \in ShootLocations
  <2>1. iflag[bsp] => pc \in ShootLocations
    BY Zenon, <1>2 DEF InterruptInv, ShootLocations, Calibrating
  <2>2. CASE exec_tlb_shootdown
    BY Zenon, <2>2, Shootdowns DEF exec_tlb_shootdown, InShootdown, ShootLocations
  <2>3. CASE ShootdownDone
    BY Zenon, <1>3, <2>3 DEF ShootdownDone, TypeInv
  <2>4. CASE ~exec_tlb_shootdown /\ ~ShootdownDone
    <3>1. pc \notin ShootLocations /\ (iflag' = iflag \/ iflag' = [c \in CpuIds |-> iflag[c] /\ c \notin APs])
      BY Zenon, <2>4 DEF LateNext, create_trampoline, lapic_send_broadcast_init, FirstSipi, SecondSipi, AllApsOnline, unmap_code,
                  unmap_data, unmap_func, Unmap, FreeTrampoline, ShootLocations
    <3> QED BY Zenon, <1>3, <2>1, <3>1
  <2> QED BY Zenon, <2>2, <2>3, <2>4
<1>5. \A c \in CpuIds : pending'[c] \subseteq pending[c] \cup {IPM_VECTOR} /\ (pending'[c] = pending[c] \/ pc' \notin BeforeTrampoline)
  <2>1. CASE exec_tlb_shootdown
    <3>1. pc' \notin BeforeTrampoline
      BY Zenon, <2>1, LateSteps DEF LateNext
    <3>2. PICK to : pending' = [pending EXCEPT ![to] = @ \cup {IPM_VECTOR}]
      BY Zenon, <2>1 DEF exec_tlb_shootdown
    <3>3. \A c \in CpuIds : pending'[c] \subseteq pending[c] \cup {IPM_VECTOR}
      BY Zenon, <3>2 DEF TypeInv
    <3> QED BY Zenon, <3>1, <3>3
  <2>2. CASE ~exec_tlb_shootdown
    BY Zenon, <2>2 DEF LateNext, create_trampoline, lapic_send_broadcast_init, FirstSipi, SecondSipi, AllApsOnline, unmap_code,
                unmap_data, unmap_func, Unmap, ShootdownDone, FreeTrampoline
  <2> QED BY Zenon, <2>1, <2>2
<1>6. pc \notin BeforeTrampoline => pc' \notin BeforeTrampoline
  <2>1. CASE create_trampoline
    BY Zenon, <2>1, Stages DEF create_trampoline
  <2>2. CASE LateNext
    BY Zenon, <2>2, LateSteps
  <2>3. CASE FreeTrampoline
    BY Zenon, <2>3, Stages DEF FreeTrampoline, Finishing
  <2> QED BY Zenon, <2>1, <2>2, <2>3
<1>7. PIT_VECTOR # IPM_VECTOR
  BY SMTT(30) DEF PIT_VECTOR, IPM_VECTOR
<1>8. calib.calibrate_done
  BY Zenon, <1>2 DEF InterruptInv
<1>9. \A c \in CpuIds : PIT_VECTOR \notin pending'[c] /\ (IPM_VECTOR \in pending'[c] => pc' \notin BeforeTrampoline)
  BY Zenon, <1>5, <1>6, <1>7, <1>8 DEF InterruptInv
<1>10. pc' \in ShootLocations => pc' \in {"start_pit", "calibrate_wait", "shoot_code", "shoot_data", "shoot_func"}
  BY Zenon DEF ShootLocations
<1> QED BY Zenon, <1>1, <1>2, <1>3, <1>4, <1>8, <1>9, <1>10 DEF InterruptInv

LEMMA InterruptsPit ==
    ASSUME TypeInv, InterruptInv, PitUnderflow
    PROVE  InterruptInv'
<1>1. UNCHANGED <<machine, pc, info, callbacks, iflag, redirection, calib>>
  BY Zenon DEF PitUnderflow, timer
<1>2. machine.pin \in ISA /\ bsp \in CpuIds
  BY Zenon, Machine
<1>3. /\ redirection[machine.pin].vector = PIT_VECTOR /\ redirection[machine.pin].dest = bsp
      /\ pc \notin BeforeCalibration /\ ~calib.calibrate_done
  BY Zenon, <1>2 DEF InterruptInv, PitUnderflow
<1>4. pending' = [pending EXCEPT ![bsp] = @ \cup {PIT_VECTOR}]
  BY Zenon, <1>3 DEF PitUnderflow
<1>5. \A c \in CpuIds : pending'[c] = IF c = bsp THEN pending[c] \cup {PIT_VECTOR} ELSE pending[c]
  BY Zenon, <1>4 DEF TypeInv
<1>6. bsp' = bsp /\ Pin(0)' = Pin(0) /\ PIT_VECTOR # IPM_VECTOR
  BY <1>1 DEF bsp, Pin, PIT_VECTOR, IPM_VECTOR
<1>7. \A c \in CpuIds : /\ PIT_VECTOR \in pending'[c] => c = bsp
                        /\ IPM_VECTOR \in pending'[c] => IPM_VECTOR \in pending[c]
  <2>1. \A c \in CpuIds : PIT_VECTOR \in pending[c] => c = bsp
    BY Zenon DEF InterruptInv
  <2> QED BY ZenonT(30), <1>5, <1>6, <2>1
<1> QED BY Zenon, <1>1, <1>3, <1>6, <1>7 DEF InterruptInv

LEMMA InterruptsAp ==
    ASSUME TypeInv, InterruptInv, NEW c \in CpuIds, ApNext(c)
    PROVE  InterruptInv'
<1>1. UNCHANGED <<machine, pc, info, callbacks, pending, redirection, calib>>
  BY Zenon DEF ApNext, RealMode, EnablePaging, SetStack, ap_init_segmentation, ap_setup_tss, Announce, ReadTarget,
         ap_finalize_start_up, ApUnchanged, timer
<1>2. iflag'[bsp] = iflag[bsp]
  <2>1. bsp \in CpuIds /\ bsp \notin APs
    BY Zenon, Machine
  <2> QED BY Zenon, <2>1 DEF TypeInv, ApNext, RealMode, EnablePaging, SetStack, ap_init_segmentation, ap_setup_tss, Announce, ReadTarget,
                      ap_finalize_start_up
<1>3. bsp' = bsp /\ Pin(0)' = Pin(0)
  BY Zenon, <1>1 DEF bsp, Pin
<1> QED BY Zenon, <1>1, <1>2, <1>3 DEF InterruptInv

\* Only the BSP runs the handler of the timer, with the interrupt that it
\* masks at the end taken out of its local APIC.
LEMMA InterruptsTaken ==
    ASSUME TypeInv, InterruptInv, NEW c \in CpuIds, NEW v \in Vectors, TakeInterrupt(c, v)
    PROVE  InterruptInv'
<1>1. /\ UNCHANGED <<machine, pc, info, callbacks, iflag>> /\ v \in pending[c]
      /\ pending' = [pending EXCEPT ![c] = @ \ {v}]
  BY Zenon DEF TakeInterrupt
<1>2. \A d \in CpuIds : pending'[d] = IF d = c THEN pending[d] \ {v} ELSE pending[d]
  BY ZenonT(30), <1>1 DEF TypeInv
<1>3. bsp' = bsp /\ Pin(0)' = Pin(0)
  BY Zenon, <1>1 DEF bsp, Pin
<1>4. CASE get_callback(c, v) # "calibrate_timer_pit_handler"
  <2>1. UNCHANGED <<calib, redirection>>
    BY Zenon, <1>4 DEF TakeInterrupt
  <2>2. \A d \in CpuIds : pending'[d] \subseteq pending[d]
    BY ZenonT(30), <1>2
  <2> QED BY Zenon, <1>1, <1>3, <2>1, <2>2 DEF InterruptInv
<1>5. CASE get_callback(c, v) = "calibrate_timer_pit_handler"
  <2>1. v = PIT_VECTOR
    <3>1. callbacks.global[v] # "calibrate_timer_pit_handler"
      BY Zenon DEF InterruptInv, NULL
    <3> QED BY Zenon, <1>5, <3>1 DEF get_callback, InterruptInv
  <2>2. c = bsp /\ ~calib.calibrate_done /\ pc \notin BeforeCalibration
    BY Zenon, <1>1, <2>1 DEF InterruptInv
  <2>3. /\ calib' = [num_underflows_remaining |-> Left, calibrate_done |-> calib.calibrate_done \/ Left = 0]
        /\ redirection' = IF Left = 0 THEN remove_redirection_for_isa_interrupt(redirection, 0) ELSE redirection
    BY Zenon, <1>5 DEF TakeInterrupt, calibrate_timer_pit_handler
  <2>4. \A d \in CpuIds : /\ PIT_VECTOR \notin pending'[d]
                          /\ IPM_VECTOR \in pending'[d] => IPM_VECTOR \in pending[d]
    BY ZenonT(30), <1>2, <2>1, <2>2 DEF InterruptInv
  <2>5. pc \in Calibrating
    BY Zenon, <2>2 DEF InterruptInv
  <2>6. /\ calib' = [num_underflows_remaining |-> calib'.num_underflows_remaining, calibrate_done |-> calib'.calibrate_done]
        /\ calib'.calibrate_done \in BOOLEAN /\ (calib'.calibrate_done <=> Left = 0)
    BY ZenonT(30), <2>2, <2>3
  <2>7. CASE Left # 0
    BY <1>1, <1>3, <2>2, <2>3, <2>4, <2>5, <2>6, <2>7 DEF InterruptInv
  <2>8. CASE Left = 0
    <3>1. redirection' = [redirection EXCEPT ![Pin(0)].masked = TRUE]
      BY Zenon, <2>3, <2>8 DEF remove_redirection_for_isa_interrupt
    <3>2. DOMAIN redirection' = ISA
      BY Zenon, <3>1 DEF InterruptInv
    <3>3. ASSUME NEW p \in ISA
          PROVE  /\ redirection'[p] = [vector |-> redirection'[p].vector, masked |-> redirection'[p].masked, dest |-> redirection'[p].dest]
                 /\ redirection'[p].masked = TRUE
      <4>1. CASE p = Pin(0)
        <5>1. redirection'[p] = [redirection[p] EXCEPT !.masked = TRUE]
          BY Zenon, <3>1, <4>1 DEF InterruptInv
        <5>2. redirection[p] = [vector |-> redirection[p].vector, masked |-> redirection[p].masked, dest |-> redirection[p].dest]
          BY Zenon DEF InterruptInv
        <5> QED BY Zenon, <5>1, <5>2
      <4>2. CASE p # Pin(0)
        <5>1. redirection'[p] = redirection[p]
          BY Zenon, <3>1, <4>2 DEF InterruptInv
        <5> QED BY Zenon, <4>2, <5>1 DEF InterruptInv
      <4> QED BY Zenon, <4>1, <4>2
    <3> QED BY Zenon, <1>1, <1>3, <2>2, <2>4, <2>5, <2>6, <3>2, <3>3 DEF InterruptInv
  <2> QED BY Zenon, <2>7, <2>8
<1> QED BY Zenon, <1>4, <1>5

LEMMA InterruptStep ==
    ASSUME TypeInv, InterruptInv, Next
    PROVE  InterruptInv'
<1>1. CASE BspNext
  BY Zenon, <1>1, InterruptsBefore, InterruptsStart, InterruptsCalibrate, InterruptsIpm, InterruptsAfter DEF BspNext, LateNext
<1> QED BY Zenon, <1>1, InterruptsPit, InterruptsAp, InterruptsTaken DEF Next

-----------------------------------------------------------------------------
\* Kernel stacks and segments.

\* The number of the call that alloc_frame() returns f in.
Nth(fs, f) == Cardinality({g \in fs : g < f}) + 1

\* Every call returns a frame, and no two the same.
LEMMA Ranks ==
    ASSUME NEW fs, IsFiniteSet(fs), fs \subseteq Nat
    PROVE  {Nth(fs, f) : f \in fs} = 1 .. Cardinality(fs)
<1> DEFINE Below(f) == {g \in fs : g < f}
           n == Cardinality(fs)
           R == {Nth(fs, f) : f \in fs}
           rank == [f \in fs |-> Nth(fs, f)]
<1>1. n \in Nat
  BY Zenon, FS_CardinalityType
<1>2. ASSUME NEW f \in fs
      PROVE  IsFiniteSet(Below(f)) /\ Cardinality(Below(f)) \in Nat /\ Nth(fs, f) \in 1 .. n
  <2>1. IsFiniteSet(fs \ {f}) /\ Cardinality(fs \ {f}) = n - 1
    BY Zenon, FS_RemoveElement
  <2>2. Below(f) \subseteq fs \ {f}
    OBVIOUS
  <2>3. IsFiniteSet(Below(f)) /\ Cardinality(Below(f)) <= n - 1
    BY Zenon, <2>1, <2>2, FS_Subset
  <2>4. Cardinality(Below(f)) \in Nat
    BY Zenon, <2>3, FS_CardinalityType
  <2> QED BY <1>1, <2>3, <2>4 DEF Nth
<1>3. ASSUME NEW f \in fs, NEW h \in fs, f < h
      PROVE  Nth(fs, f) < Nth(fs, h)
  <2>1. IsFiniteSet(Below(f)) /\ Cardinality(Below(f)) \in Nat /\ IsFiniteSet(Below(h)) /\ Cardinality(Below(h)) \in Nat
    BY Zenon, <1>2
  <2>2. f \notin Below(f) /\ Below(f) \cup {f} \subseteq Below(h)
    <3>1. ~(f < f) /\ \A g \in fs : g < f => g < h
      BY <1>3
    <3> QED BY Zenon, <1>3, <3>1
  <2>3. Cardinality(Below(f) \cup {f}) = Cardinality(Below(f)) + 1
    BY Zenon, <2>1, <2>2, FS_AddElement
  <2>4. Cardinality(Below(f) \cup {f}) <= Cardinality(Below(h))
    BY Zenon, <2>1, <2>2, FS_Subset
  <2> QED BY <2>1, <2>3, <2>4 DEF Nth
<1>4. ExistsBijection(fs, R)
  <2>1. \A f, h \in fs : Nth(fs, f) = Nth(fs, h) => f = h
    <3> SUFFICES ASSUME NEW f \in fs, NEW h \in fs, Nth(fs, f) = Nth(fs, h) PROVE f = h
      BY Zenon
    <3>1. Nth(fs, f) \in 1 .. n
      BY Zenon, <1>2
    <3>2. ~(f < h) /\ ~(h < f)
      BY <1>3, <3>1
    <3> QED BY <3>2
  <2>2. rank \in Injection(fs, R)
    BY Zenon, <2>1 DEF Injection, IsInjective
  <2>3. rank \in Surjection(fs, R)
    BY Zenon DEF Surjection
  <2> QED BY Zenon, <2>2, <2>3 DEF Bijection, ExistsBijection
<1>5. IsFiniteSet(R) /\ Cardinality(R) = n
  BY Zenon, <1>4, FS_Bijection
<1>6. R \subseteq 1 .. n /\ IsFiniteSet(1 .. n) /\ Cardinality(1 .. n) = n
  <2>1. R \subseteq 1 .. n
    BY Zenon, <1>2
  <2>2. IsFiniteSet(1 .. n) /\ Cardinality(1 .. n) = IF 1 > n THEN 0 ELSE n - 1 + 1
    BY SMTT(30), <1>1, FS_Interval
  <2> HIDE DEF R
  <2> QED BY <1>1, <2>1, <2>2
<1>7. R = 1 .. n
  BY Zenon, <1>5, <1>6, FS_Subset
<1> QED BY Zenon, <1>7

\* allocate_ap_kernel_stack() is called for one AP after the other, and takes as
\* many frames each time: every AP gets frames, and no two the same.
LEMMA StacksOwned ==
    ASSUME TypeInv, NEW fs, IsFiniteSet(fs), fs \subseteq Nat,
           ncpus \in Nat, bsp \in 0 .. ncpus - 1, Cardinality(fs) >= (ncpus - 1) * STACK_FRAMES,
           NEW c \in ApIds
    PROVE  /\ allocate_ap_kernel_stack(fs, c) \subseteq fs /\ allocate_ap_kernel_stack(fs, c) # {}
           /\ \A d \in ApIds \ {c} : allocate_ap_kernel_stack(fs, c) \cap allocate_ap_kernel_stack(fs, d) = {}
<1> DEFINE Turn(d) == IF d < bsp THEN d ELSE d - 1
           S == STACK_FRAMES
           Stack(d) == allocate_ap_kernel_stack(fs, d)
<1>1. S \in Nat /\ S >= 1
  BY StackAssumption
<1>2. \A d \in ApIds : Turn(d) \in 0 .. ncpus - 2
  BY DEF ApIds
<1>3. \A d \in ApIds \ {c} : Turn(d) # Turn(c)
  BY DEF ApIds
<1>4. \A d : Stack(d) = {f \in fs : Nth(fs, f) \in Turn(d) * S + 1 .. (Turn(d) + 1) * S}
  BY Zenon DEF allocate_ap_kernel_stack, Calls, Nth
<1>5. Stack(c) # {}
  <2> DEFINE k == Turn(c) * S + 1
  <2>1. Turn(c) \in Nat /\ Turn(c) + 1 <= ncpus - 1
    BY <1>2
  <2>2. Turn(c) * S \in Nat /\ (Turn(c) + 1) * S = Turn(c) * S + S
    BY <1>1, <2>1
  <2>3. (Turn(c) + 1) * S <= (ncpus - 1) * S /\ (ncpus - 1) * S \in Nat
    BY <1>1, <2>1
  <2>4. Cardinality(fs) \in Nat
    BY Zenon, FS_CardinalityType
  <2> HIDE DEF Turn, S
  <2>5. k \in 1 .. Cardinality(fs) /\ k \in Turn(c) * S + 1 .. (Turn(c) + 1) * S
    BY <1>1, <2>2, <2>3, <2>4 DEF S
  <2>6. PICK f \in fs : Nth(fs, f) = k
    BY Zenon, <2>5, Ranks
  <2> QED BY Zenon, <1>4, <2>5, <2>6
<1>6. ASSUME NEW d \in ApIds \ {c}, NEW f \in Stack(c) \cap Stack(d)
      PROVE  FALSE
  <2> DEFINE r == Nth(fs, f)
  <2>1. r \in Turn(c) * S + 1 .. (Turn(c) + 1) * S /\ r \in Turn(d) * S + 1 .. (Turn(d) + 1) * S
    BY Zenon, <1>4
  <2>2. Turn(c) \in Nat /\ Turn(d) \in Nat /\ Turn(c) # Turn(d)
    BY <1>2, <1>3
  <2> HIDE DEF Turn, S, r
  <2>3. CASE Turn(c) < Turn(d)
    <3>1. (Turn(c) + 1) * S <= Turn(d) * S
      BY <1>1, <2>2, <2>3
    <3> QED BY <1>1, <2>1, <2>2, <3>1
  <2>4. CASE Turn(d) < Turn(c)
    <3>1. (Turn(d) + 1) * S <= Turn(c) * S
      BY <1>1, <2>2, <2>4
    <3> QED BY <1>1, <2>1, <2>2, <3>1
  <2> QED BY <2>2, <2>3, <2>4
<1>7. Stack(c) \subseteq fs
  BY Zenon, <1>4
<1> QED BY Zenon, <1>5, <1>6, <1>7

\* The stack of the BSP is in the image, which is in use from the start.
LEMMA ImageStack ==
    BspStack # {} /\ BspStack \subseteq BootFrames
<1>1. Kernel.first \div PAGE <= Kernel.last \div PAGE /\ Kernel.first \div PAGE \in Nat /\ Kernel.last \div PAGE \in Nat
  BY KernelAssumption
<1>2. BspStack # {}
  BY <1>1 DEF BspStack, FramesOf, Frame
<1>3. BspStack \subseteq BootFrames
  BY DEF BspStack, BootFrames, Covered, UsedFrames, Range
<1> QED BY Zenon, <1>2, <1>3

\* The BSP has one of the areas that allocate_aps_percpu_areas() creates.
LEMMA Areas ==
    ASSUME TypeInv, pc \notin BeforeAcpi, ncpus # 0
    PROVE  ncpus \in Nat /\ bsp \in 0 .. ncpus - 1
<1>1. machine \in Machines /\ info = parse_acpi_info(machine.firmware) /\ CanParse(machine.firmware)
  BY Zenon DEF TypeInv
<1>2. ncpus \in Nat /\ bsp < ncpus
  BY <1>1, MachinesAssumption DEF ncpus, bsp
<1> QED BY <1>2, Machine

LEMMA SegmentStages ==
    /\ BeforeArea \subseteq BeforeFrames /\ BeforeFrames \subseteq BeforeAcpi /\ BeforeAcpi \subseteq BeforeAreas
    /\ BeforeAreas \subseteq BeforeGdt /\ BeforeGdt \subseteq BeforeTss /\ BeforeTss \subseteq BeforeTrampoline
  BY Zenon DEF BeforeArea, BeforeFrames, BeforeAcpi, BeforeAreas, BeforeGdt, BeforeTss, BeforeTrampoline, BeforeCalibration

\* What a step does not touch stays as it is.
LEMMA SegmentsKept ==
    ASSUME SegmentInv, UNCHANGED <<machine, info, areas, gdt, seg>>,
           \A c \in APs : /\ aps'[c] \in HaveTss <=> aps[c] \in HaveTss
                          /\ aps'[c] \in HaveArea => aps[c] \in HaveArea,
           \A S \in {BeforeArea, BeforeAreas, BeforeGdt, BeforeTss, BeforeTrampoline} : pc' \in S <=> pc \in S
    PROVE  SegmentInv'
<1>1. /\ pc' \in BeforeArea <=> pc \in BeforeArea
      /\ pc' \in BeforeAreas <=> pc \in BeforeAreas
      /\ pc' \in BeforeGdt <=> pc \in BeforeGdt
      /\ pc' \in BeforeTss <=> pc \in BeforeTss
      /\ pc' \in BeforeTrampoline <=> pc \in BeforeTrampoline
  BY Zenon
<1>2. /\ bsp' = bsp /\ ncpus' = ncpus /\ APs' = APs /\ ApIds' = ApIds
      /\ OwnStacks' <=> OwnStacks
  BY ZenonT(30) DEF bsp, ncpus, APs, ApIds, OwnStacks
<1>3. \A c : GDT_TSS_IDX(c)' = GDT_TSS_IDX(c)
  BY ZenonT(30), <1>2 DEF GDT_TSS_IDX
<1> QED BY Zenon, <1>1, <1>2, <1>3 DEF SegmentInv

\* The BSP before it has areas for all cpus.
LEMMA SegmentsBefore ==
    ASSUME TypeInv, StartUpInv, SegmentInv,
           \/ init_multiboot \/ init_segmentation \/ init_bsp_boot_percpu \/ interrupt_init
           \/ init_frame_alloc \/ init_paging \/ acpi_init
    PROVE  SegmentInv'
<1> USE DEF At, Continue, smp, cpus
<1>1. /\ pc \in BeforeAcpi /\ pc' \in BeforeAreas
      /\ UNCHANGED <<machine, gdt, aps>>
  BY Zenon DEF init_multiboot, init_segmentation, init_bsp_boot_percpu, interrupt_init, init_frame_alloc, init_paging, acpi_init,
         BeforeAreas, BeforeAcpi, BeforeFrames
<1>2. /\ pc' \in BeforeGdt /\ pc' \in BeforeTss /\ pc' \in BeforeTrampoline
      /\ pc \in BeforeGdt /\ pc \in BeforeTss /\ pc \in BeforeTrampoline
  BY Zenon, <1>1, SegmentStages
<1>3. bsp' = bsp /\ APs' = APs /\ bsp \in CpuIds /\ bsp \notin APs /\ APs \subseteq CpuIds
  BY Zenon, <1>1, Machine DEF bsp, APs
<1>4. \A c \in APs : aps[c] \notin HaveTss /\ aps[c] \notin HaveArea
  BY Zenon, <1>2 DEF StartUpInv, HaveTss, HaveArea, Counted
<1>5. /\ DOMAIN seg' = CpuIds /\ \A c \in CpuIds : seg'[c] = [gs |-> seg'[c].gs, tr |-> seg[c].tr] /\ seg'[c].tr = seg[c].tr
  <2>1. CASE init_segmentation
    <3>1. ASSUME NEW c \in CpuIds
          PROVE  seg'[c] = [gs |-> seg'[c].gs, tr |-> seg[c].tr] /\ seg'[c].tr = seg[c].tr
      <4>1. seg[c] = [gs |-> seg[c].gs, tr |-> seg[c].tr]
        BY ZenonT(30) DEF SegmentInv
      <4>2. CASE c = bsp
        <5>1. seg'[c] = [gs |-> BOOT_GDT_BSP_PC_IDX, tr |-> seg[c].tr]
          BY Zenon, <2>1, <4>1, <4>2 DEF init_segmentation, SegmentInv
        <5> QED BY <5>1
      <4>3. CASE c # bsp
        <5>1. seg'[c] = seg[c]
          BY Zenon, <2>1, <4>3 DEF init_segmentation, SegmentInv
        <5> QED BY Zenon, <4>1, <5>1
      <4> QED BY Zenon, <4>2, <4>3
    <3>2. DOMAIN seg' = CpuIds
      BY Zenon, <2>1 DEF init_segmentation, SegmentInv
    <3> QED BY Zenon, <3>1, <3>2
  <2>2. CASE ~init_segmentation
    <3>1. seg' = seg
      BY Zenon, <2>2 DEF init_multiboot, init_bsp_boot_percpu, interrupt_init, init_frame_alloc, init_paging, acpi_init
    <3> QED BY Zenon, <3>1 DEF SegmentInv
  <2> QED BY Zenon, <2>1, <2>2
<1>6. pc' \notin BeforeArea => areas'[bsp] = Area(bsp, BspStack)
  <2>1. CASE init_bsp_boot_percpu
    BY Zenon, <2>1 DEF init_bsp_boot_percpu, Area
  <2>2. CASE ~init_bsp_boot_percpu
    <3>1. areas' = areas /\ (pc' \notin BeforeArea => pc \notin BeforeArea)
      BY Zenon, <2>2 DEF init_multiboot, init_segmentation, interrupt_init, init_frame_alloc, init_paging, acpi_init, BeforeArea
    <3> QED BY Zenon, <3>1 DEF SegmentInv
  <2> QED BY Zenon, <2>1, <2>2
<1>7. seg[bsp].tr = NOT_LOADED /\ \A c \in APs : seg[c].tr = NOT_LOADED
  BY Zenon, <1>2, <1>4 DEF SegmentInv
<1> HIDE DEF At, Continue, smp, cpus
<1> QED BY ZenonT(30), <1>1, <1>2, <1>3, <1>4, <1>5, <1>6, <1>7 DEF SegmentInv

LEMMA SegmentsAllocate ==
    ASSUME TypeInv, StartUpInv, SegmentInv, allocate_aps_percpu_areas
    PROVE  SegmentInv'
<1>1. pc = "allocate_aps_percpu_areas" /\ UNCHANGED <<machine, info, gdt, seg, aps>>
  BY Zenon DEF allocate_aps_percpu_areas, At, smp
<1>2. pc \notin BeforeArea /\ pc \notin BeforeAcpi /\ pc \in BeforeAreas /\ pc \in BeforeGdt /\ pc \in BeforeTss /\ pc \in BeforeTrampoline
  <2>1. pc \notin BeforeAcpi /\ pc \in BeforeAreas
    BY Zenon, <1>1 DEF BeforeAreas, BeforeAcpi, BeforeFrames
  <2> QED BY Zenon, <2>1, SegmentStages
<1>3. bsp' = bsp /\ APs' = APs /\ ncpus' = ncpus /\ ApIds' = ApIds
  BY Zenon, <1>1 DEF bsp, APs, ncpus, ApIds
<1>4. CASE pc' = pc /\ areas' = areas
  BY Zenon, <1>1, <1>4, SegmentsKept
<1>5. CASE ~(pc' = pc /\ areas' = areas)
  <2>1. /\ pc' = "init_final_gdt" /\ ncpus # 0
        /\ areas' = [i \in 0 .. ncpus - 1 |-> IF i = bsp THEN areas[bsp] ELSE Area(i, NoStack)]
    BY Zenon, <1>5 DEF allocate_aps_percpu_areas, Continue, Area
  <2>2. ncpus \in Nat /\ bsp \in 0 .. ncpus - 1
    BY Zenon, <1>2, <2>1, Areas
  <2>3. areas'[bsp] = Area(bsp, BspStack)
    BY Zenon, <1>2, <2>1, <2>2 DEF SegmentInv
  <2>4. ASSUME NEW c \in ApIds PROVE areas'[c] = Area(c, areas'[c].kernel_stack)
    <3>1. areas'[c] = Area(c, NoStack)
      BY Zenon, <2>1 DEF ApIds
    <3> QED BY <3>1 DEF Area
  <2>5. pc' \in BeforeGdt /\ pc' \in BeforeTss /\ pc' \in BeforeTrampoline
    <3>1. pc' \in BeforeGdt
      BY Zenon, <2>1 DEF BeforeGdt
    <3> QED BY Zenon, <3>1, SegmentStages
  <2>6. \A c \in APs : aps[c] \notin HaveTss /\ aps[c] \notin HaveArea
    BY Zenon, <1>2 DEF StartUpInv, HaveTss, HaveArea, Counted
  <2> QED BY ZenonT(30), <1>1, <1>2, <1>3, <2>3, <2>4, <2>5, <2>6 DEF SegmentInv
<1> QED BY Zenon, <1>4, <1>5

LEMMA SegmentsGdt ==
    ASSUME TypeInv, StartUpInv, SegmentInv, init_final_gdt
    PROVE  SegmentInv'
<1>1. pc = "init_final_gdt" /\ UNCHANGED <<machine, info, areas, aps>>
  BY Zenon DEF init_final_gdt, At, smp
<1>2. pc \notin BeforeArea /\ pc \notin BeforeAcpi /\ pc \notin BeforeAreas /\ pc \in BeforeGdt /\ pc \in BeforeTss /\ pc \in BeforeTrampoline
  <2>1. pc \notin BeforeAreas /\ pc \in BeforeGdt
    BY Zenon, <1>1 DEF BeforeGdt, BeforeAreas, BeforeAcpi, BeforeFrames
  <2> QED BY Zenon, <2>1, SegmentStages
<1>3. bsp' = bsp /\ APs' = APs /\ ncpus' = ncpus /\ ApIds' = ApIds /\ bsp \in CpuIds /\ bsp \notin APs /\ APs \subseteq CpuIds
  BY Zenon, <1>1, Machine DEF bsp, APs, ncpus, ApIds
<1>4. CASE pc' = pc /\ gdt' = gdt /\ seg' = seg
  BY Zenon, <1>1, <1>4, SegmentsKept
<1>5. CASE ~(pc' = pc /\ gdt' = gdt /\ seg' = seg)
  <2>1. /\ pc' = "setup_tss" /\ seg' = [seg EXCEPT ![bsp].gs = GDT_PERCPU_IDX(bsp)]
        /\ gdt' = [i \in 0 .. 6 + 2 * ncpus - 1 |->
                     CASE i \in 1 .. 4 -> Descriptor("flat", NO_CPU, NoStack)
                       [] i = GDT_DOUBLE_FAULT_TASK_IDX -> Descriptor("tss", NO_CPU, NoStack)
                       [] i \in 6 .. 6 + ncpus - 1 -> Descriptor("percpu", i - 6, NoStack)
                       [] OTHER -> Null]
    BY Zenon, <1>5 DEF init_final_gdt, Continue
  <2>2. ncpus \in Nat /\ ncpus # 0 /\ bsp \in 0 .. ncpus - 1
    BY Zenon, <1>2, Areas DEF TypeInv, BeforeAreas
  <2>3. ASSUME NEW c \in 0 .. ncpus - 1 PROVE gdt'[GDT_PERCPU_IDX(c)] = Descriptor("percpu", c, NoStack)
    <3>1. /\ 6 + c \in 0 .. 6 + 2 * ncpus - 1 /\ 6 + c \notin 1 .. 4 /\ 6 + c # 5
          /\ 6 + c \in 6 .. 6 + ncpus - 1 /\ (6 + c) - 6 = c
      BY SMTT(30), <2>2
    <3> QED BY Zenon, <2>1, <3>1 DEF GDT_PERCPU_IDX, GDT_DOUBLE_FAULT_TASK_IDX
  <2>4. ASSUME NEW c \in CpuIds
        PROVE  /\ seg'[c] = [gs |-> seg'[c].gs, tr |-> seg'[c].tr] /\ seg'[c].tr = seg[c].tr
               /\ c = bsp => seg'[c].gs = GDT_PERCPU_IDX(bsp)
    <3>1. seg[c] = [gs |-> seg[c].gs, tr |-> seg[c].tr]
      BY ZenonT(30) DEF SegmentInv
    <3>2. CASE c = bsp
      <4>1. seg'[c] = [gs |-> GDT_PERCPU_IDX(bsp), tr |-> seg[c].tr]
        BY Zenon, <2>1, <3>1, <3>2 DEF SegmentInv
      <4> QED BY <4>1
    <3>3. CASE c # bsp
      <4>1. seg'[c] = seg[c]
        BY Zenon, <2>1, <3>3 DEF SegmentInv
      <4> QED BY Zenon, <3>1, <3>3, <4>1
    <3> QED BY ZenonT(30), <3>2, <3>3
  <2>5. DOMAIN seg' = CpuIds /\ DOMAIN gdt' = 0 .. 6 + 2 * ncpus - 1
    BY Zenon, <2>1 DEF SegmentInv
  <2>6. \A c \in APs : aps[c] \notin HaveTss /\ aps[c] \notin HaveArea
    BY Zenon, <1>2 DEF StartUpInv, HaveTss, HaveArea, Counted
  <2>7. pc' \in BeforeTss /\ pc' \in BeforeTrampoline
    <3>1. pc' \in BeforeTss
      BY Zenon, <2>1 DEF BeforeTss
    <3> QED BY Zenon, <3>1, SegmentStages
  <2>8. \A c : GDT_PERCPU_IDX(c)' = GDT_PERCPU_IDX(c)
    BY Zenon DEF GDT_PERCPU_IDX
  <2>9. seg'[bsp].tr = NOT_LOADED /\ \A c \in APs : seg'[c].tr = NOT_LOADED
    BY ZenonT(30), <1>2, <1>3, <2>4, <2>6 DEF SegmentInv
  <2>10. areas[bsp] = Area(bsp, BspStack) /\ \A c \in ApIds : areas[c] = Area(c, areas[c].kernel_stack)
    BY ZenonT(30), <1>2 DEF SegmentInv
  <2> HIDE DEF GDT_PERCPU_IDX
  <2> QED BY ZenonT(30), <1>1, <1>3, <2>3, <2>4, <2>5, <2>6, <2>7, <2>8, <2>9, <2>10 DEF SegmentInv
<1> QED BY Zenon, <1>4, <1>5

\* setup_tss() writes the entry of its own cpu, with the stack of its own area.
LEMMA TssLoaded ==
    ASSUME TypeInv, SegmentInv, pc \notin BeforeGdt, NEW c \in CpuIds, c \in 0 .. ncpus - 1, WithTss(c)
    PROVE  /\ DOMAIN seg' = CpuIds /\ seg'[c] = [gs |-> seg[c].gs, tr |-> GDT_TSS_IDX(c)]
           /\ \A d \in CpuIds \ {c} : seg'[d] = seg[d]
           /\ DOMAIN gdt' = DOMAIN gdt
           /\ gdt'[GDT_TSS_IDX(c)] = Descriptor("tss", c, areas[c].kernel_stack)
           /\ \A d \in 0 .. ncpus - 1 : gdt'[GDT_PERCPU_IDX(d)] = gdt[GDT_PERCPU_IDX(d)]
           /\ \A d \in (0 .. ncpus - 1) \ {c} : gdt'[GDT_TSS_IDX(d)] = gdt[GDT_TSS_IDX(d)]
<1>1. pc \notin BeforeAcpi /\ pc \notin BeforeAreas /\ pc \notin BeforeArea
  BY Zenon, SegmentStages
<1>2. ncpus \in Nat /\ bsp \in 0 .. ncpus - 1
  BY Zenon, <1>1, Areas DEF TypeInv, BeforeAreas
<1>3. areas[c].cpu_id = c
  <2>1. \E stack : areas[c] = Area(c, stack)
    BY Zenon, <1>1, <1>2 DEF SegmentInv, ApIds
  <2> QED BY SMTT(30), <2>1 DEF Area
<1>4. /\ gdt' = [gdt EXCEPT ![GDT_TSS_IDX(c)] = Descriptor("tss", c, areas[c].kernel_stack)]
      /\ seg' = [seg EXCEPT ![c].tr = GDT_TSS_IDX(c)]
  BY Zenon, <1>3 DEF WithTss
<1>5. /\ \A d \in 0 .. ncpus - 1 : GDT_PERCPU_IDX(d) \in DOMAIN gdt /\ GDT_TSS_IDX(d) \in DOMAIN gdt
      /\ \A d \in 0 .. ncpus - 1 : GDT_PERCPU_IDX(d) # GDT_TSS_IDX(c)
      /\ \A d \in (0 .. ncpus - 1) \ {c} : GDT_TSS_IDX(d) # GDT_TSS_IDX(c)
  <2>1. DOMAIN gdt = 0 .. 6 + 2 * ncpus - 1
    BY ZenonT(30) DEF SegmentInv
  <2> QED BY SMTT(30), <1>2, <2>1 DEF GDT_PERCPU_IDX, GDT_TSS_IDX
<1>6. DOMAIN seg = CpuIds /\ seg[c] = [gs |-> seg[c].gs, tr |-> seg[c].tr]
  BY Zenon DEF SegmentInv
<1>7. /\ DOMAIN seg' = CpuIds /\ seg'[c] = [gs |-> seg[c].gs, tr |-> GDT_TSS_IDX(c)]
      /\ \A d \in CpuIds \ {c} : seg'[d] = seg[d]
  BY Zenon, <1>4, <1>6
<1>8. /\ DOMAIN gdt' = DOMAIN gdt
      /\ gdt'[GDT_TSS_IDX(c)] = Descriptor("tss", c, areas[c].kernel_stack)
      /\ \A i \in DOMAIN gdt : i # GDT_TSS_IDX(c) => gdt'[i] = gdt[i]
  BY Zenon, <1>4, <1>5
<1> QED BY Zenon, <1>5, <1>7, <1>8

LEMMA SegmentsTss ==
    ASSUME TypeInv, StartUpInv, SegmentInv, setup_tss
    PROVE  SegmentInv'
<1>1. pc = "setup_tss" /\ pc' = "init_lapic" /\ WithTss(bsp) /\ UNCHANGED <<machine, info, areas, aps>>
  BY Zenon DEF setup_tss, At, smp
<1>2. pc \notin BeforeArea /\ pc \notin BeforeAcpi /\ pc \notin BeforeAreas /\ pc \notin BeforeGdt /\ pc \in BeforeTss /\ pc \in BeforeTrampoline
  <2>1. pc \notin BeforeGdt /\ pc \in BeforeTss
    BY Zenon, <1>1 DEF BeforeTss, BeforeGdt, BeforeAreas, BeforeAcpi, BeforeFrames
  <2> QED BY Zenon, <2>1, SegmentStages
<1>3. pc' \notin BeforeTss /\ pc' \in BeforeTrampoline
  BY Zenon, <1>1 DEF BeforeTss, BeforeGdt, BeforeAreas, BeforeAcpi, BeforeFrames, BeforeTrampoline, BeforeCalibration
<1>4. bsp' = bsp /\ APs' = APs /\ ncpus' = ncpus /\ ApIds' = ApIds /\ bsp \in CpuIds /\ bsp \notin APs /\ APs \subseteq CpuIds
  BY Zenon, <1>1, Machine DEF bsp, APs, ncpus, ApIds
<1>5. ncpus \in Nat /\ bsp \in 0 .. ncpus - 1
  BY Zenon, <1>2, Areas DEF TypeInv, BeforeAreas
<1>6. areas[bsp] = Area(bsp, BspStack) /\ \A c \in ApIds : areas[c] = Area(c, areas[c].kernel_stack)
  BY ZenonT(30), <1>2 DEF SegmentInv
<1>7. areas[bsp].kernel_stack = BspStack
  BY SMTT(30), <1>6 DEF Area
<1>8. /\ DOMAIN seg' = CpuIds /\ seg'[bsp] = [gs |-> seg[bsp].gs, tr |-> GDT_TSS_IDX(bsp)]
      /\ \A d \in CpuIds \ {bsp} : seg'[d] = seg[d]
      /\ DOMAIN gdt' = DOMAIN gdt
      /\ gdt'[GDT_TSS_IDX(bsp)] = Descriptor("tss", bsp, BspStack)
      /\ \A d \in 0 .. ncpus - 1 : gdt'[GDT_PERCPU_IDX(d)] = gdt[GDT_PERCPU_IDX(d)]
  BY ZenonT(30), <1>1, <1>2, <1>4, <1>5, <1>7, TssLoaded
<1>9. seg'[bsp].gs = GDT_PERCPU_IDX(bsp) /\ seg'[bsp].tr = GDT_TSS_IDX(bsp)
  <2>1. seg[bsp].gs = GDT_PERCPU_IDX(bsp)
    BY Zenon, <1>2 DEF SegmentInv
  <2>2. seg'[bsp] = [gs |-> GDT_PERCPU_IDX(bsp), tr |-> GDT_TSS_IDX(bsp)]
    BY Zenon, <1>8, <2>1
  <2> QED BY SMTT(30), <2>2
<1>10. \A c \in CpuIds : seg'[c] = [gs |-> seg'[c].gs, tr |-> seg'[c].tr]
  BY ZenonT(30), <1>8 DEF SegmentInv
<1>11. \A c \in APs : aps[c] \notin HaveTss /\ aps[c] \notin HaveArea /\ seg'[c].tr = NOT_LOADED
  BY Zenon, <1>2, <1>4, <1>8 DEF StartUpInv, SegmentInv, HaveTss, HaveArea, Counted
<1>12. \A c : GDT_PERCPU_IDX(c)' = GDT_PERCPU_IDX(c) /\ GDT_TSS_IDX(c)' = GDT_TSS_IDX(c)
  BY Zenon, <1>4 DEF GDT_PERCPU_IDX, GDT_TSS_IDX
<1>13. /\ DOMAIN gdt' = 0 .. 6 + 2 * ncpus - 1
       /\ \A d \in 0 .. ncpus - 1 : gdt'[GDT_PERCPU_IDX(d)] = Descriptor("percpu", d, NoStack)
  BY Zenon, <1>2, <1>8 DEF SegmentInv
<1> QED BY ZenonT(30), <1>1, <1>3, <1>4, <1>6, <1>8, <1>9, <1>10, <1>11, <1>12, <1>13 DEF SegmentInv

\* The timer and the messages.
LEMMA SegmentsMiddle ==
    ASSUME TypeInv, SegmentInv,
           \/ init_lapic \/ init_ioapic \/ StartCalibration \/ interrupt_register_local_callback \/ ProgramPit \/ StartPit
           \/ CalibrationDone \/ interrupt_delete_local_callback \/ init_ipm
    PROVE  SegmentInv'
<1> USE DEF At, Continue, smp, cpus
<1>1. UNCHANGED <<machine, info, areas, gdt, seg, aps>>
  BY Zenon DEF init_lapic, init_ioapic, StartCalibration, interrupt_register_local_callback, ProgramPit, StartPit,
         CalibrationDone, interrupt_delete_local_callback, init_ipm
<1> DEFINE Middle == {"init_lapic", "init_ioapic", "calibrate_timer", "create_trampoline"} \cup Calibrating \cup BeforeIpm
<1>2. pc \in Middle /\ pc' \in Middle
  BY Zenon DEF init_lapic, init_ioapic, StartCalibration, interrupt_register_local_callback, ProgramPit, StartPit,
         CalibrationDone, interrupt_delete_local_callback, init_ipm, Calibrating, BeforeIpm
<1>3. \A l \in Middle : l \notin BeforeTss /\ l \in BeforeTrampoline
  BY Zenon DEF BeforeTss, BeforeGdt, BeforeAreas, BeforeAcpi, BeforeFrames, BeforeTrampoline, BeforeCalibration, Calibrating, BeforeIpm
<1> HIDE DEF At, Continue, smp, cpus, Middle
<1>4. /\ pc \notin BeforeTss /\ pc \notin BeforeGdt /\ pc \notin BeforeAreas /\ pc \notin BeforeArea /\ pc \in BeforeTrampoline
      /\ pc' \notin BeforeTss /\ pc' \notin BeforeGdt /\ pc' \notin BeforeAreas /\ pc' \notin BeforeArea /\ pc' \in BeforeTrampoline
  BY Zenon, <1>2, <1>3, SegmentStages
<1> QED BY Zenon, <1>1, <1>4, SegmentsKept

\* The APs are started, and the trampoline is removed.
LEMMA SegmentsLate ==
    ASSUME TypeInv, StartUpInv, SegmentInv, LateNext \/ FreeTrampoline
    PROVE  SegmentInv'
<1>1. UNCHANGED <<machine, info, areas, gdt, seg>>
  BY Zenon DEF LateNext, lapic_send_broadcast_init, FirstSipi, SecondSipi, AllApsOnline, unmap_code, unmap_data, unmap_func, Unmap,
         exec_tlb_shootdown, ShootdownDone, FreeTrampoline, cpus
<1>2. pc \notin BeforeTrampoline /\ pc' \notin BeforeTrampoline
  <2>1. CASE LateNext
    BY Zenon, <2>1, LateSteps
  <2>2. CASE FreeTrampoline
    BY Zenon, <2>2, Stages DEF FreeTrampoline, At, Emptying, Finishing
  <2> QED BY Zenon, <2>1, <2>2
<1>3. /\ pc \notin BeforeTss /\ pc \notin BeforeGdt /\ pc \notin BeforeAreas /\ pc \notin BeforeArea
      /\ pc' \notin BeforeTss /\ pc' \notin BeforeGdt /\ pc' \notin BeforeAreas /\ pc' \notin BeforeArea
  BY Zenon, <1>2, SegmentStages
<1>4. \A c \in APs : aps'[c] = aps[c] \/ (aps[c] \in {"reset", "wait"} /\ aps'[c] \in {"wait", "real_mode"})
  <2>1. APs \subseteq CpuIds
    BY Zenon, Machine
  <2>2. CASE lapic_send_broadcast_init
    <3>1. \A c \in APs : aps[c] = "reset"
      BY Zenon, <2>2 DEF StartUpInv, lapic_send_broadcast_init, At
    <3> QED BY ZenonT(30), <2>1, <2>2, <3>1 DEF lapic_send_broadcast_init
  <2>3. CASE FirstSipi \/ SecondSipi
    BY Zenon, <2>1, <2>3 DEF FirstSipi, SecondSipi, Started, Waiting
  <2>4. CASE ~lapic_send_broadcast_init /\ ~FirstSipi /\ ~SecondSipi
    BY Zenon, <2>4 DEF LateNext, AllApsOnline, unmap_code, unmap_data, unmap_func, Unmap, exec_tlb_shootdown, ShootdownDone,
                FreeTrampoline, smp
  <2> QED BY Zenon, <2>2, <2>3, <2>4
<1>5. \A c \in APs : /\ aps'[c] \in HaveTss <=> aps[c] \in HaveTss
                     /\ aps'[c] \in HaveArea => aps[c] \in HaveArea
  BY Zenon, <1>4 DEF HaveTss, HaveArea, Counted
<1> QED BY ZenonT(30), <1>1, <1>2, <1>3, <1>5, SegmentsKept

LEMMA SegmentsOther ==
    ASSUME TypeInv, SegmentInv, PitUnderflow \/ \E c \in CpuIds, v \in Vectors : TakeInterrupt(c, v)
    PROVE  SegmentInv'
<1>1. UNCHANGED <<machine, pc, info, areas, gdt, seg, aps>>
  BY Zenon DEF PitUnderflow, TakeInterrupt, cpus, smp
<1> QED BY Zenon, <1>1, SegmentsKept

\* create_data_frame() gives every AP a stack and saves it in the AP's area.
LEMMA SegmentsCreate ==
    ASSUME TypeInv, MemoryInv, StartUpInv, SegmentInv, create_trampoline
    PROVE  SegmentInv'
<1> DEFINE code == do_allocation(frames, TRUE)
           data == do_allocation(Allocated(frames, code), TRUE)
           supply == Supply(Allocate(frames, {code, data}))
           stacks == [c \in DOMAIN areas |-> IF c = bsp THEN NoStack ELSE allocate_ap_kernel_stack(supply, c)]
<1>1. pc = "create_trampoline" /\ UNCHANGED <<machine, info, gdt, seg, aps>>
  BY Zenon DEF create_trampoline, At
<1>2. pc \notin BeforeTss /\ pc \in BeforeTrampoline
  BY Zenon, <1>1 DEF BeforeTss, BeforeGdt, BeforeAreas, BeforeAcpi, BeforeFrames, BeforeTrampoline
<1>3. pc \notin BeforeGdt /\ pc \notin BeforeAreas /\ pc \notin BeforeAcpi /\ pc \notin BeforeArea
  BY Zenon, <1>2, SegmentStages
<1>4. bsp' = bsp /\ APs' = APs /\ ncpus' = ncpus /\ ApIds' = ApIds
  BY Zenon, <1>1 DEF bsp, APs, ncpus, ApIds
<1>5. ncpus \in Nat /\ bsp \in 0 .. ncpus - 1 /\ DOMAIN areas = 0 .. ncpus - 1
  BY Zenon, <1>3, Areas DEF TypeInv, BeforeAreas
<1>6. CASE pc' = pc /\ areas' = areas
  BY Zenon, <1>1, <1>6, SegmentsKept
<1>7. CASE ~(pc' = pc /\ areas' = areas)
  <2>1. /\ pc' = "init" /\ areas' = WithStacks(stacks)
        /\ Cardinality(supply) >= (ncpus - 1) * STACK_FRAMES
    BY ZenonT(30), <1>7 DEF create_trampoline, Continue
  <2>2. supply \subseteq frames.avail
    BY Zenon, Supplied DEF Allocate
  <2>3. frames.avail \subseteq Nat /\ IsFiniteSet(frames.avail) /\ BootFrames \cap frames.avail = {}
    BY Zenon DEF MemoryInv, CountsFree
  <2>4. ASSUME NEW c \in ApIds PROVE stacks[c] = allocate_ap_kernel_stack(supply, c)
    BY Zenon, <1>5 DEF ApIds
  <2> HIDE DEF code, data, supply, stacks
  <2>5. IsFiniteSet(supply) /\ supply \subseteq Nat /\ BspStack \cap supply = {}
    BY Zenon, <2>2, <2>3, FS_Subset, ImageStack
  <2>6. \A c \in ApIds : /\ stacks[c] # {} /\ stacks[c] \subseteq supply
                         /\ \A d \in ApIds \ {c} : stacks[c] \cap stacks[d] = {}
    <3> DEFINE Stack(c) == allocate_ap_kernel_stack(supply, c)
    <3>1. \A c \in ApIds : /\ Stack(c) \subseteq supply /\ Stack(c) # {}
                           /\ \A d \in ApIds \ {c} : Stack(c) \cap Stack(d) = {}
      BY Zenon, <1>5, <2>1, <2>5, StacksOwned
    <3>2. \A c \in ApIds : stacks[c] = Stack(c)
      BY Zenon, <2>4
    <3> HIDE DEF Stack
    <3> QED BY ZenonT(30), <3>1, <3>2
  <2>7. ASSUME NEW c \in ApIds PROVE areas'[c] = Area(c, stacks[c]) /\ areas'[c].kernel_stack = stacks[c]
    <3>1. areas[c] = Area(c, areas[c].kernel_stack)
      BY Zenon, <1>3 DEF SegmentInv
    <3>2. areas'[c] = [areas[c] EXCEPT !.kernel_stack = stacks[c]]
      BY Zenon, <1>5, <2>1 DEF WithStacks, ApIds
    <3> QED BY <3>1, <3>2 DEF Area
  <2>8. areas'[bsp] = Area(bsp, BspStack)
    BY Zenon, <1>3, <1>5, <2>1 DEF SegmentInv, WithStacks
  <2>9. OwnStacks'
    BY <1>4, <2>5, <2>6, <2>7 DEF OwnStacks, NoStack, BspStack
  <2>10. pc' \notin BeforeTrampoline /\ pc' \notin BeforeTss /\ pc' \notin BeforeGdt /\ pc' \notin BeforeAreas /\ pc' \notin BeforeArea
    BY Zenon, <2>1, Stages, SegmentStages
  <2>11. \A c \in APs : aps[c] \notin HaveTss /\ aps[c] \notin HaveArea
    BY Zenon, <1>2 DEF StartUpInv, HaveTss, HaveArea, Counted
  <2>12. \A c : GDT_PERCPU_IDX(c)' = GDT_PERCPU_IDX(c) /\ GDT_TSS_IDX(c)' = GDT_TSS_IDX(c)
    BY Zenon, <1>4 DEF GDT_PERCPU_IDX, GDT_TSS_IDX
  <2> QED BY ZenonT(30), <1>1, <1>2, <1>3, <1>4, <2>7, <2>8, <2>9, <2>10, <2>11, <2>12 DEF SegmentInv
<1> QED BY Zenon, <1>6, <1>7

\* An AP that runs ap_initialize_state(): GS first, then the TSS.
LEMMA SegmentsAp ==
    ASSUME TypeInv, StartUpInv, SegmentInv, NEW c \in CpuIds, ApNext(c)
    PROVE  SegmentInv'
<1>1. /\ UNCHANGED <<machine, pc, info, areas>> /\ c \in APs
      /\ \A d \in CpuIds \ {c} : aps'[d] = aps[d]
  <2>1. \A d \in CpuIds \ {c} : aps'[d] = aps[d]
    BY Zenon DEF TypeInv, ApNext, ApStep, RealMode, EnablePaging, SetStack, ap_init_segmentation, ap_setup_tss, Announce, ReadTarget,
           ap_finalize_start_up
  <2>2. UNCHANGED <<machine, pc, info, areas>> /\ c \in APs
    BY Zenon DEF ApNext, ApStep, RealMode, EnablePaging, SetStack, ap_init_segmentation, ap_setup_tss, Announce, ReadTarget,
           ap_finalize_start_up, ApUnchanged
  <2> QED BY Zenon, <2>1, <2>2
<1>2. bsp' = bsp /\ APs' = APs /\ ncpus' = ncpus /\ ApIds' = ApIds /\ bsp \in CpuIds /\ bsp \notin APs /\ APs \subseteq CpuIds
  BY Zenon, <1>1, Machine DEF bsp, APs, ncpus, ApIds
<1>3. \A d : GDT_PERCPU_IDX(d)' = GDT_PERCPU_IDX(d) /\ GDT_TSS_IDX(d)' = GDT_TSS_IDX(d)
  BY Zenon, <1>2 DEF GDT_PERCPU_IDX, GDT_TSS_IDX
<1>4. pc \notin BeforeTrampoline
  <2>1. aps[c] # "reset"
    BY Zenon DEF ApNext, ApStep, RealMode, EnablePaging, SetStack, ap_init_segmentation, ap_setup_tss, Announce, ReadTarget,
           ap_finalize_start_up
  <2> QED BY Zenon, <1>1, <2>1 DEF StartUpInv
<1>5. pc \notin BeforeTss /\ pc \notin BeforeGdt /\ pc \notin BeforeAreas /\ pc \notin BeforeAcpi /\ pc \notin BeforeArea
  BY Zenon, <1>4, SegmentStages
<1>6. ncpus \in Nat /\ bsp \in 0 .. ncpus - 1
  BY Zenon, <1>5, Areas DEF TypeInv, BeforeAreas
<1>7. OwnStacks' <=> OwnStacks
  BY Zenon, <1>1, <1>2 DEF OwnStacks
<1>8. CASE ap_init_segmentation(c)
  <2>1. /\ aps[c] = "ap_initialize_state" /\ aps'[c] = "setup_tss" /\ gdt' = gdt
        /\ seg' = [seg EXCEPT ![c].gs = GDT_PERCPU_IDX(c)]
    BY Zenon, <1>8 DEF ap_init_segmentation, TypeInv
  <2>2. seg[c] = [gs |-> seg[c].gs, tr |-> seg[c].tr] /\ DOMAIN seg = CpuIds
    BY Zenon DEF SegmentInv
  <2>3. /\ DOMAIN seg' = CpuIds /\ seg'[c] = [gs |-> GDT_PERCPU_IDX(c), tr |-> seg[c].tr]
        /\ \A d \in CpuIds \ {c} : seg'[d] = seg[d]
    BY Zenon, <2>1, <2>2
  <2>4. seg'[c].gs = GDT_PERCPU_IDX(c) /\ seg'[c].tr = seg[c].tr /\ seg'[c] = [gs |-> seg'[c].gs, tr |-> seg'[c].tr]
    BY <2>3
  <2>5. aps[c] \notin HaveTss /\ aps'[c] \notin HaveTss
    BY Zenon, <2>1 DEF HaveTss, Counted
  <2> QED BY SMTT(30), <1>1, <1>2, <1>3, <1>4, <1>5, <1>7, <2>1, <2>3, <2>4, <2>5 DEF SegmentInv
<1>9. CASE ap_setup_tss(c)
  <2>1. /\ aps[c] = "setup_tss" /\ aps'[c] = "online" /\ WithTss(gdt[seg[c].gs].cpu)
    BY Zenon, <1>9 DEF ap_setup_tss, TypeInv
  <2>2. c \in 0 .. ncpus - 1
    BY Zenon, <1>1, <2>1 DEF StartUpInv, HaveStack
  <2>3. seg[c].gs = GDT_PERCPU_IDX(c) /\ gdt[GDT_PERCPU_IDX(c)] = Descriptor("percpu", c, NoStack)
    BY ZenonT(30), <1>1, <1>5, <2>1, <2>2 DEF SegmentInv, HaveArea
  <2>4. gdt[seg[c].gs].cpu = c
    <3>1. gdt[seg[c].gs] = Descriptor("percpu", c, NoStack)
      BY Zenon, <2>3
    <3> QED BY <3>1 DEF Descriptor
  <2>5. WithTss(c)
    BY Zenon, <2>1, <2>4
  <2>6. /\ DOMAIN seg' = CpuIds /\ seg'[c] = [gs |-> seg[c].gs, tr |-> GDT_TSS_IDX(c)]
        /\ \A d \in CpuIds \ {c} : seg'[d] = seg[d]
        /\ DOMAIN gdt' = DOMAIN gdt
        /\ gdt'[GDT_TSS_IDX(c)] = Descriptor("tss", c, areas[c].kernel_stack)
        /\ \A d \in 0 .. ncpus - 1 : gdt'[GDT_PERCPU_IDX(d)] = gdt[GDT_PERCPU_IDX(d)]
        /\ \A d \in (0 .. ncpus - 1) \ {c} : gdt'[GDT_TSS_IDX(d)] = gdt[GDT_TSS_IDX(d)]
    BY ZenonT(30), <1>5, <2>2, <2>5, TssLoaded
  <2>7. seg'[c].gs = GDT_PERCPU_IDX(c) /\ seg'[c].tr = GDT_TSS_IDX(c) /\ seg'[c] = [gs |-> seg'[c].gs, tr |-> seg'[c].tr]
    <3>1. seg'[c] = [gs |-> GDT_PERCPU_IDX(c), tr |-> GDT_TSS_IDX(c)]
      BY ZenonT(30), <2>3, <2>6
    <3> QED BY <3>1
  <2>8. \A d \in APs : aps[d] \in HaveTss => d \in 0 .. ncpus - 1
    BY Zenon DEF StartUpInv, HaveTss, HaveStack
  <2>9. aps'[c] \in HaveTss /\ aps'[c] \in HaveArea
    BY Zenon, <2>1 DEF HaveTss, HaveArea
  <2>10. /\ \A d \in CpuIds : seg'[d] = [gs |-> seg'[d].gs, tr |-> seg'[d].tr]
         /\ DOMAIN gdt' = 0 .. 6 + 2 * ncpus - 1
         /\ \A d \in 0 .. ncpus - 1 : gdt'[GDT_PERCPU_IDX(d)] = Descriptor("percpu", d, NoStack)
         /\ seg'[bsp].gs = GDT_PERCPU_IDX(bsp)
         /\ seg'[bsp].tr = GDT_TSS_IDX(bsp) /\ gdt'[GDT_TSS_IDX(bsp)] = Descriptor("tss", bsp, BspStack)
    BY ZenonT(30), <1>1, <1>2, <1>5, <1>6, <2>6, <2>7 DEF SegmentInv
  <2>11. ASSUME NEW d \in APs
         PROVE  /\ aps'[d] \notin HaveTss => seg'[d].tr = NOT_LOADED
                /\ aps'[d] \in HaveArea => seg'[d].gs = GDT_PERCPU_IDX(d)
                /\ aps'[d] \in HaveTss =>
                      seg'[d].tr = GDT_TSS_IDX(d) /\ gdt'[GDT_TSS_IDX(d)] = Descriptor("tss", d, areas[d].kernel_stack)
    <3>1. CASE d = c
      BY ZenonT(30), <2>6, <2>7, <2>9, <3>1
    <3>2. CASE d # c
      BY ZenonT(30), <1>1, <1>2, <2>6, <2>8, <3>2 DEF SegmentInv
    <3> QED BY ZenonT(30), <3>1, <3>2
  <2> QED BY ZenonT(30), <1>1, <1>2, <1>3, <1>4, <1>5, <1>7, <2>6, <2>10, <2>11 DEF SegmentInv
<1>10. CASE ~ap_init_segmentation(c) /\ ~ap_setup_tss(c)
  <2>1. UNCHANGED <<gdt, seg>>
    BY ZenonT(30), <1>10 DEF ApNext, RealMode, EnablePaging, SetStack, Announce, ReadTarget, ap_finalize_start_up
  <2>2. (aps'[c] \in HaveTss <=> aps[c] \in HaveTss) /\ (aps'[c] \in HaveArea => aps[c] \in HaveArea)
    BY Zenon, <1>10 DEF ApNext, ApStep, RealMode, EnablePaging, SetStack, Announce, ReadTarget, ap_finalize_start_up, TypeInv,
                 HaveTss, HaveArea, Counted
  <2>3. \A d \in APs : /\ aps'[d] \in HaveTss <=> aps[d] \in HaveTss
                       /\ aps'[d] \in HaveArea => aps[d] \in HaveArea
    BY Zenon, <1>1, <1>2, <2>2
  <2> QED BY ZenonT(30), <1>1, <2>1, <2>3, SegmentsKept
<1> QED BY Zenon, <1>8, <1>9, <1>10

LEMMA SegmentStep ==
    ASSUME TypeInv, MemoryInv, StartUpInv, SegmentInv, Next
    PROVE  SegmentInv'
<1>1. CASE BspNext
  BY SMTT(30), <1>1, SegmentsBefore, SegmentsAllocate, SegmentsGdt, SegmentsTss, SegmentsMiddle, SegmentsCreate, SegmentsLate
     DEF BspNext, LateNext
<1> QED BY Zenon, <1>1, SegmentsAp, SegmentsOther DEF Next

-----------------------------------------------------------------------------
LEMMA InitInv ==
    ASSUME Init
    PROVE  IInv
<1>1. TypeInv
  BY Zenon DEF Init, TypeInv, Locations, BeforeTrampoline, BeforeCalibration, BeforeAcpi, BeforeFrames, ApLocations
<1>2. MemoryInv
  <2>1. frames = [size |-> 0, free |-> 0, avail |-> {}]
    BY Zenon DEF Init, bitmap_init, bitmap_set_all
  <2>2. CountsFree(frames) /\ frames.avail = {}
    BY Zenon, <2>1, FS_EmptySet DEF CountsFree
  <2>3. pc \in BeforeTrampoline /\ owned = {}
    BY Zenon DEF Init, BeforeTrampoline, BeforeCalibration, BeforeAcpi, BeforeFrames
  <2> QED BY Zenon, <2>2, <2>3 DEF MemoryInv
<1>3. StartUpInv
  <2>1. pc \in BeforeTrampoline /\ pc \notin {"shoot_code", "unmap_code"}
    BY Zenon DEF Init, BeforeTrampoline, BeforeCalibration, BeforeAcpi, BeforeFrames
  <2>2. \A c \in APs : aps[c] = "reset" /\ ~iflag[c]
    BY Zenon, <1>1, Machine DEF Init
  <2>3. "reset" \notin HaveStack
    BY Zenon DEF HaveStack, Counted
  <2>4. Online = {}
    BY Zenon, <2>2, <2>3 DEF Online, HaveStack
  <2>5. APS_ONLINE = Cardinality(Online)
    BY Zenon, <2>4, FS_EmptySet DEF Init
  <2>6. pc \notin {"init"} \cup WakingUp \cup Removing \cup Emptying \cup Finishing
    BY Zenon, <2>1, Stages
  <2> QED BY Zenon, <2>1, <2>2, <2>3, <2>5, <2>6 DEF StartUpInv
<1>4. InterruptInv
  <2>1. /\ pc \in BeforeCalibration /\ pc \in BeforeTrampoline \ {"create_trampoline"}
        /\ pc \notin Calibrating \cup {"delete_callback"}
    <3>1. pc \in BeforeCalibration
      BY Zenon DEF Init, BeforeCalibration, BeforeAcpi, BeforeFrames
    <3> QED BY Zenon, <3>1, CalibrationStages
  <2>2. \A p \in ISA : redirection[p] = [vector |-> 0, masked |-> TRUE, dest |-> 0]
    BY Zenon DEF Init, Masked
  <2>3. \A p \in ISA :
         /\ redirection[p] = [vector |-> redirection[p].vector, masked |-> redirection[p].masked, dest |-> redirection[p].dest]
         /\ redirection[p].masked = TRUE
    BY SMTT(30), <2>2
  <2>4. ~iflag[bsp] /\ \A c \in CpuIds : pending[c] = {}
    BY ZenonT(30), <1>1, Machine DEF Init
  <2>5. /\ callbacks = [global |-> callbacks.global, local |-> callbacks.local]
        /\ callbacks.global = [v \in Vectors |-> NULL] /\ callbacks.local = [v \in Vectors |-> NULL]
    BY Zenon DEF Init
  <2>6. PIT_VECTOR \in Vectors
    BY Zenon DEF Vectors
  <2>7. /\ calib = [num_underflows_remaining |-> calib.num_underflows_remaining, calibrate_done |-> calib.calibrate_done]
        /\ calib.calibrate_done = FALSE /\ DOMAIN redirection = ISA
    BY Zenon DEF Init
  <2> QED BY ZenonT(30), <2>1, <2>3, <2>4, <2>5, <2>6, <2>7 DEF InterruptInv
<1>5. SegmentInv
  <2>1. pc \in BeforeArea
    BY Zenon DEF Init, BeforeArea
  <2>2. pc \in BeforeAreas /\ pc \in BeforeGdt /\ pc \in BeforeTss /\ pc \in BeforeTrampoline
    BY Zenon, <2>1, SegmentStages
  <2>3. \A c \in CpuIds : seg[c] = [gs |-> NOT_LOADED, tr |-> NOT_LOADED]
    BY Zenon DEF Init, NoSegments
  <2>4. \A c \in CpuIds : seg[c] = [gs |-> seg[c].gs, tr |-> seg[c].tr] /\ seg[c].tr = NOT_LOADED
    BY SMTT(30), <2>3
  <2>5. DOMAIN seg = CpuIds /\ bsp \in CpuIds /\ APs \subseteq CpuIds
    BY ZenonT(30), <1>1, Machine DEF Init
  <2>6. \A c \in APs : aps[c] \notin HaveTss /\ aps[c] \notin HaveArea
    BY Zenon, <2>5 DEF Init, HaveTss, HaveArea, Counted
  <2> QED BY ZenonT(30), <2>1, <2>2, <2>4, <2>5, <2>6 DEF SegmentInv
<1> QED BY Zenon, <1>1, <1>2, <1>3, <1>4, <1>5 DEF IInv

LEMMA Unchanged ==
    ASSUME IInv, UNCHANGED vars
    PROVE  IInv'
<1> USE DEF vars, memory, cpus, timer, smp, bsp, ncpus
<1>1. TypeInv'
  BY Zenon DEF IInv, TypeInv
<1>2. MemoryInv'
  BY ZenonT(30) DEF IInv, MemoryInv, BootFrames
<1>3. StartUpInv'
  BY ZenonT(30) DEF IInv, StartUpInv, APs, Online
<1>4. InterruptInv'
  BY Zenon DEF IInv, InterruptInv, Pin
<1>5. SegmentInv'
  BY Zenon, SegmentsKept DEF IInv
<1> QED BY Zenon, <1>1, <1>2, <1>3, <1>4, <1>5 DEF IInv

\* The inductive invariant: nothing in use is free, the BSP knows how far the APs
\* are, the only interrupts on their way are those that are expected, and a cpu
\* finds its area and its stack where it looks for them.
THEOREM Invariant == Spec => []IInv
<1>1. Init => IInv
  BY Zenon, InitInv
<1>2. IInv /\ [Next]_vars => IInv'
  <2> SUFFICES ASSUME IInv, [Next]_vars PROVE IInv'
    BY Zenon
  <2>1. CASE Next
    BY Zenon, <2>1, TypeStep, MemoryStep, StartUpStep, InterruptStep, SegmentStep DEF IInv
  <2> QED BY Zenon, <2>1, Unchanged
<1> QED BY <1>1, <1>2, PTL DEF Spec

\* The allocator never hands out a frame of the kernel, of its own bitmap, of the
\* boot information, of the initrd or of anything allocated since, whatever
\* memory map init_frame_alloc() was given.
THEOREM FramesTheorem == Spec => []FreeFramesUnused
<1>1. IInv => FreeFramesUnused
  BY Zenon DEF IInv, MemoryInv, BootFrames, FreeFramesUnused, CountsFree
<1> QED BY <1>1, Invariant, PTL

\* No AP loses the trampoline under its feet, with any number of cpus and
\* however slow they are: the frames that cleanup_ap_wakeup_routine_allocs() unmaps
\* and frees are needed by nobody.
THEOREM TrampolineTheorem == Spec => []TrampolineKept
<1>1. IInv => TrampolineKept
  <2> SUFFICES ASSUME IInv, NEW c \in APs
               PROVE  /\ aps[c] \in NeedCode => tramp.code \in mapped \ frames.avail
                      /\ aps[c] \in NeedData => tramp.data \in mapped \ frames.avail
    BY Zenon DEF TrampolineKept, NeedCode, NeedData
  <2>1. TypeInv /\ MemoryInv /\ StartUpInv
    BY Zenon DEF IInv
  <2>2. aps[c] \in NeedData => pc \in WakingUp \cup Removing
    <3>1. "reset" \notin NeedData /\ "idle" \notin NeedData
      BY Zenon DEF NeedData, NeedCode
    <3>2. aps[c] \in NeedData => pc \notin BeforeTrampoline \cup {"init"} \cup Emptying \cup Finishing
      BY Zenon, <2>1, <3>1 DEF StartUpInv
    <3> QED BY Zenon, <2>1, <3>2 DEF TypeInv, Locations
  <2>3. aps[c] \in NeedCode => pc \in WakingUp
    <3>1. aps[c] \in NeedCode => aps[c] \in NeedData /\ c \notin Online
      BY Zenon DEF NeedData, NeedCode, Online, Counted
    <3>2. aps[c] \in NeedCode => pc \notin Removing
      BY Zenon, <2>1, <3>1 DEF StartUpInv
    <3> QED BY Zenon, <2>2, <3>1, <3>2
  <2>4. pc \in WakingUp \cup Removing => {tramp.code, tramp.data} \cap frames.avail = {} /\ tramp.data \in mapped
    BY Zenon, <2>1, Stages DEF MemoryInv, StartUpInv, WakingUp, Removing, Finishing
  <2>5. pc \in WakingUp => tramp.code \in mapped
    BY Zenon, <2>1 DEF StartUpInv
  <2> QED BY Zenon, <2>2, <2>3, <2>4, <2>5
<1> QED BY <1>1, Invariant, PTL

\* No interrupt is taken without a callback: the timer is quiet before the BSP
\* deletes its callback, and messages come after ipm_handler() is registered.
THEOREM InterruptsTheorem == Spec => []InterruptsExpected
<1>1. IInv => InterruptsExpected
  <2> SUFFICES ASSUME IInv, NEW c \in CpuIds, iflag[c], NEW v \in pending[c]
               PROVE  get_callback(c, v) # NULL
    BY Zenon DEF InterruptsExpected
  <2>1. v \in {PIT_VECTOR, IPM_VECTOR} /\ PIT_VECTOR \in Vectors /\ IPM_VECTOR \in Vectors /\ PIT_VECTOR # IPM_VECTOR
    BY DEF IInv, TypeInv, Vectors, PIT_VECTOR, IPM_VECTOR
  <2>2. CASE v = IPM_VECTOR
    <3>1. pc \notin BeforeTrampoline
      BY Zenon, <2>2 DEF IInv, InterruptInv
    <3>2. callbacks.global[v] = "ipm_handler" /\ callbacks.local[v] = NULL
      BY Zenon, <2>1, <2>2, <3>1 DEF IInv, InterruptInv
    <3> QED BY Zenon, <3>2 DEF get_callback, NULL
  <2>3. CASE v = PIT_VECTOR
    <3>1. c = bsp /\ ~calib.calibrate_done /\ pc \notin BeforeCalibration
      BY Zenon, <2>3 DEF IInv, InterruptInv
    <3>2. pc \in Calibrating
      BY Zenon, <3>1 DEF IInv, InterruptInv
    <3>3. pc \in {"start_pit", "calibrate_wait"}
      <4>1. pc \in {"start_pit", "calibrate_wait", "shoot_code", "shoot_data", "shoot_func"}
        BY ZenonT(30), <3>1 DEF IInv, InterruptInv
      <4> QED BY Zenon, <3>2, <4>1 DEF Calibrating
    <3>4. callbacks.local[v] # NULL
      BY Zenon, <2>3, <3>3 DEF IInv, InterruptInv, Calibrating
    <3> QED BY Zenon, <3>1, <3>4 DEF get_callback
  <2> QED BY Zenon, <2>1, <2>2, <2>3
<1> QED BY <1>1, Invariant, PTL

\* A cpu that has loaded its TSS is on its own area and has a kernel stack of its
\* own, however many cpus there are: what create_data_frame() stored in the areas
\* is what every AP puts in its TSS, and no two calls of alloc_frame() return the
\* same frame, nor one of the image, where the stack of the BSP is.
THEOREM StacksTheorem == Spec => []OwnKernelStacks
<1>1. IInv => OwnKernelStacks
  <2> SUFFICES ASSUME IInv PROVE OwnKernelStacks
    BY Zenon
  <2> DEFINE Loaded == {c \in machine.cpus : seg[c].tr # NOT_LOADED}
             Stack(c) == IF c = bsp THEN BspStack ELSE areas[c].kernel_stack
  <2>1. TypeInv /\ StartUpInv /\ SegmentInv /\ machine.cpus = APs \cup {bsp} /\ bsp \in CpuIds
    BY ZenonT(30), Machine, MachinesAssumption DEF IInv, TypeInv, APs, bsp
  <2>2. ASSUME NEW c \in Loaded, c \in APs
        PROVE  c \in ApIds /\ pc \notin BeforeTrampoline /\ pc \notin BeforeTss /\ aps[c] \in HaveTss
    <3>1. aps[c] \in HaveTss
      BY ZenonT(30), <2>1, <2>2 DEF SegmentInv
    <3>2. c \in 0 .. ncpus - 1 /\ pc \notin BeforeTrampoline
      BY Zenon, <2>1, <2>2, <3>1 DEF StartUpInv, HaveTss, HaveStack, Counted
    <3> QED BY Zenon, <2>1, <2>2, <3>1, <3>2, SegmentStages DEF ApIds, APs
  <2>3. ASSUME NEW c \in Loaded
        PROVE  /\ seg[c].tr = GDT_TSS_IDX(c) /\ gdt[GDT_TSS_IDX(c)] = Descriptor("tss", c, Stack(c))
               /\ seg[c].gs = GDT_PERCPU_IDX(c) /\ gdt[GDT_PERCPU_IDX(c)] = Descriptor("percpu", c, NoStack)
               /\ Stack(c) # NoStack
    <3>1. pc \notin BeforeTss
      BY Zenon, <2>1, <2>2 DEF SegmentInv
    <3>2. pc \notin BeforeGdt /\ pc \notin BeforeAreas /\ pc \notin BeforeAcpi
      BY Zenon, <3>1, SegmentStages
    <3>3. ncpus \in Nat /\ bsp \in 0 .. ncpus - 1
      BY Zenon, <2>1, <3>2, Areas DEF TypeInv, BeforeAreas
    <3>4. CASE c = bsp
      BY ZenonT(30), <2>1, <3>1, <3>2, <3>3, <3>4, ImageStack DEF SegmentInv, NoStack
    <3>5. CASE c # bsp
      <4>1. c \in APs
        BY Zenon, <2>1, <3>5
      <4>2. c \in ApIds /\ pc \notin BeforeTrampoline /\ aps[c] \in HaveTss
        BY Zenon, <2>2, <4>1
      <4>3. Stack(c) # NoStack
        BY ZenonT(30), <2>1, <3>5, <4>2 DEF SegmentInv, OwnStacks
      <4>4. aps[c] \in HaveArea /\ c \in 0 .. ncpus - 1
        BY ZenonT(30), <4>2 DEF HaveTss, HaveArea, ApIds
      <4> QED BY ZenonT(30), <2>1, <3>2, <3>5, <4>1, <4>2, <4>3, <4>4 DEF SegmentInv
    <3> QED BY ZenonT(30), <3>4, <3>5
  <2>4. ASSUME NEW c \in Loaded, NEW d \in Loaded \ {c}
        PROVE  Stack(c) \cap Stack(d) = {}
    <3>1. c = bsp \/ c \in APs
      BY Zenon, <2>1
    <3>2. d = bsp \/ d \in APs
      BY Zenon, <2>1
    <3>3. ASSUME NEW x \in Loaded, x \in APs
          PROVE  x \in ApIds /\ OwnStacks /\ x # bsp
      BY ZenonT(30), <2>1, <2>2, <3>3 DEF SegmentInv, ApIds
    <3>4. CASE c = bsp
      BY ZenonT(30), <3>2, <3>3, <3>4 DEF OwnStacks
    <3>5. CASE d = bsp
      BY Zenon, <3>1, <3>3, <3>5 DEF OwnStacks
    <3>6. CASE c \in APs /\ d \in APs
      BY Zenon, <3>3, <3>6 DEF OwnStacks
    <3> QED BY Zenon, <3>1, <3>2, <3>4, <3>5, <3>6
  <2>5. ASSUME NEW c \in Loaded
        PROVE  /\ gdt[seg[c].tr].kind = "tss" /\ gdt[seg[c].tr].cpu = c /\ gdt[seg[c].tr].esp0 = Stack(c)
               /\ gdt[seg[c].gs].kind = "percpu" /\ gdt[seg[c].gs].cpu = c
    <3> HIDE DEF Loaded, Stack
    <3>1. gdt[seg[c].tr] = Descriptor("tss", c, Stack(c)) /\ gdt[seg[c].gs] = Descriptor("percpu", c, NoStack)
      BY ZenonT(30), <2>3
    <3> QED BY <3>1 DEF Descriptor
  <2> HIDE DEF Stack
  <2>6. \A c \in Loaded : /\ gdt[seg[c].tr].esp0 # NoStack
                          /\ \A d \in Loaded \ {c} : gdt[seg[c].tr].esp0 \cap gdt[seg[d].tr].esp0 = {}
    <3>1. \A c \in Loaded : gdt[seg[c].tr].esp0 = Stack(c) /\ Stack(c) # NoStack
      BY Zenon, <2>3, <2>5
    <3>2. \A c \in Loaded : \A d \in Loaded \ {c} : Stack(c) \cap Stack(d) = {}
      BY Zenon, <2>4
    <3> HIDE DEF Loaded
    <3> QED BY Zenon, <3>1, <3>2
  <2> QED BY ZenonT(30), <2>5, <2>6 DEF OwnKernelStacks
<1> QED BY <1>1, Invariant, PTL

=============================================================================
