-------------------------------- MODULE Boot --------------------------------
(***************************************************************************)
(* From the boot loader to the first process: boot.S and kernel_main() on  *)
(* the boot cpu (BSP), the other cpus (APs) that it wakes up and that run  *)
(* beside it, and the timer whose interrupts calibrate the local APIC.     *)
(*                                                                         *)
(* A cpu that executes PANIC(), fails an ASSERT or faults is in `halted`   *)
(* and takes no further step; the others go on.  Frames that the heap and  *)
(* the page tables take meanwhile are left to Heap and Process.            *)
(***************************************************************************)
EXTENDS Multiboot, Acpi, FiniteSets

CONSTANTS
    Machines,       \* what the kernel may be started on
    CODE_LIMIT,     \* 1 << 16
    STACK_FRAMES,   \* frames of a kernel stack, its canary included
    N               \* underflows of the PIT that a calibration takes

\* Cpus are finitely many, and the firmware reports at least those that there are
\* (if it reports any: without cpus the kernel stops) and no more than NCPUS can
\* count; the ids of cpus start at 0, so that the BSP has one of the first NCPUS;
\* memory is finite; the timer is wired to an ISA pin.
ASSUME MachinesAssumption ==
    \A m \in Machines :
        /\ IsFiniteSet(m.cpus) /\ m.cpus \subseteq Nat /\ m.bsp \in m.cpus
        /\ LET NCPUS == parse_acpi_info(m.firmware).NCPUS
           IN  NCPUS \in 0 .. 255 /\ (CanParse(m.firmware) /\ NCPUS # 0 => Cardinality(m.cpus) <= NCPUS /\ m.bsp < NCPUS)
        /\ IsFiniteSet(Covered(AvailFrames(m.mb.mmap))) /\ Covered(AvailFrames(m.mb.mmap)) \subseteq Nat
        /\ m.pin \in ISA

ASSUME StackAssumption == STACK_FRAMES \in Nat \ {0}

VARIABLES
    machine,        \* [bsp, cpus, mb, firmware, pin, pit]
    pc,             \* where the BSP is
    halted,         \* cpus that stopped
    frames,         \* FRAME_BITMAP
    owned,          \* frames that were allocated and are in use
    info,           \* what acpi_init() found
    areas,          \* the per-cpu areas: PER_CPU_OFFSETS
    gdt,            \* the final GDT
    seg,            \* GS and TR of each cpu
    iflag,          \* IF of each cpu
    callbacks,      \* GLOBAL_CALLBACKS, and local_callbacks of the BSP
    redirection,    \* the redirection table of the I/O APIC
    pending,        \* vectors that wait in the local APIC of each cpu
    pit,            \* the timer: "off", "bios", "stopped" or "running"
    calib,          \* num_underflows_remaining and calibrate_done
    tramp,          \* the trampoline: its code, data and the stacks in data
    mapped,         \* frames that are identity mapped
    aps,            \* where each AP is
    APS_ONLINE, APS_ARE_ONLINE,
    shoot           \* the shootdown in progress: cpus to go, and the one in turn

memory == <<frames, owned>>
cpus == <<areas, gdt, seg>>
timer == <<redirection, pit, calib>>
smp == <<tramp, mapped, aps, APS_ONLINE, APS_ARE_ONLINE, shoot>>
vars == <<machine, pc, halted, memory, info, cpus, iflag, callbacks, pending, timer, smp>>

CpuIds == UNION {m.cpus : m \in Machines}
bsp == machine.bsp
APs == machine.cpus \ {bsp}
ncpus == info.NCPUS

NULL == "NULL"
NO_CPU == -1
NOT_LOADED == -1
PIT_VECTOR == 32
IPM_VECTOR == 33
DOUBLE_FAULT == 8
Vectors == {DOUBLE_FAULT, PIT_VECTOR, IPM_VECTOR}

\* A kernel stack is the set of its frames.  The one of the BSP is in the image.
NoStack == {}
BspStack == FramesOf(Kernel)
NoSegments == [gs |-> NOT_LOADED, tr |-> NOT_LOADED]
Masked == [vector |-> 0, masked |-> TRUE, dest |-> 0]

Init ==
    /\ machine \in Machines
    /\ pc = "init_multiboot"
    /\ halted = {}
    /\ frames = bitmap_init(0, TRUE) /\ owned = {}
    /\ info = NoInfo
    /\ areas = <<>> /\ gdt = <<>> /\ seg = [c \in CpuIds |-> NoSegments]
    /\ iflag = [c \in CpuIds |-> FALSE]
    /\ callbacks = [global |-> [v \in Vectors |-> NULL], local |-> [v \in Vectors |-> NULL]]
    /\ redirection = [p \in ISA |-> Masked]
    /\ pending = [c \in CpuIds |-> {}]
    /\ pit = machine.pit
    /\ calib = [num_underflows_remaining |-> 50, calibrate_done |-> FALSE]
    /\ tramp = [code |-> NO_FRAME, data |-> NO_FRAME, kernel_stacks |-> <<>>]
    /\ mapped = {}
    /\ aps = [c \in CpuIds |-> "reset"]
    /\ APS_ONLINE = 0 /\ APS_ARE_ONLINE = FALSE
    /\ shoot = [left |-> {}, at |-> NO_CPU]

-----------------------------------------------------------------------------
At(l) == bsp \notin halted /\ pc = l
Halt(c) == halted' = halted \cup {c}

\* The BSP goes on at l if the condition holds, and stops otherwise.
Continue(condition, l) ==
    /\ pc' = IF condition THEN l ELSE pc
    /\ IF condition THEN UNCHANGED halted ELSE Halt(bsp)

init_multiboot ==
    /\ At("init_multiboot") /\ pc' = "init_segmentation"
    /\ UNCHANGED <<machine, halted, memory, info, cpus, iflag, callbacks, pending, timer, smp>>

BOOT_GDT_BSP_PC_IDX == 3

\* GS points to the area of the BSP, in the image, from here on.
init_segmentation ==
    /\ At("init_segmentation") /\ pc' = "init_bsp_boot_percpu"
    /\ seg' = [seg EXCEPT ![bsp].gs = BOOT_GDT_BSP_PC_IDX]
    /\ UNCHANGED <<machine, halted, memory, info, areas, gdt, iflag, callbacks, pending, timer, smp>>

init_bsp_boot_percpu ==
    /\ At("init_bsp_boot_percpu") /\ pc' = "interrupt_init"
    /\ areas' = [c \in {bsp} |-> [cpu_id |-> c, kernel_stack |-> BspStack]]
    /\ UNCHANGED <<machine, halted, memory, info, gdt, seg, iflag, callbacks, pending, timer, smp>>

\* A vector has one callback at most.
CanRegister(table, v, callback) == table[v] \in {NULL, callback}

interrupt_init ==
    /\ At("interrupt_init") /\ pc' = "init_frame_alloc"
    /\ iflag' = [iflag EXCEPT ![bsp] = FALSE]
    /\ callbacks' = [callbacks EXCEPT !.global = [v \in Vectors |-> IF v = DOUBLE_FAULT THEN "double_fault_panic" ELSE NULL]]
    /\ UNCHANGED <<machine, halted, memory, info, cpus, pending, timer, smp>>

\* Where init_frame_alloc() stores the bitmap, by boot information.
BitmapStarts ==
    [mb \in {m.mb : m \in Machines} |-> BitmapStart(init_reserved_memory_area(mb), mb.mmap)]

\* The bitmap must end up below the kernel, which paging maps.
BitmapFits ==
    [mb \in DOMAIN BitmapStarts |->
        /\ BitmapStarts[mb] # STOPPED /\ BitmapStarts[mb] < Kernel.first
        /\ MarksHold(mb, BitmapStarts[mb], init_initrd(mb))]

init_frame_alloc ==
    /\ At("init_frame_alloc") /\ Continue(BitmapFits[machine.mb], "init_paging")
    /\ frames' = IF BitmapFits[machine.mb]
                 THEN MarkedBitmap(machine.mb, BitmapStarts[machine.mb], init_initrd(machine.mb)) ELSE frames
    /\ UNCHANGED <<machine, owned, info, cpus, iflag, callbacks, pending, timer, smp>>

\* The frames that alloc_frame() returns when it is called again and again, the
\* lowest first: those above 1MiB, or all of them if there is no memory there.
\* The machine stops when there are no more.
Supply(bm) == IF StartIdx(FALSE) < bm.size THEN From(bm, StartIdx(FALSE)) ELSE bm.avail
Calls(fs, from, to) == {f \in fs : Cardinality({g \in fs : g < f}) + 1 \in from .. to}
Allocate(bm, fs) == [size |-> bm.size, free |-> bm.free - Cardinality(fs), avail |-> bm.avail \ fs]

\* The page directory and tables, counted as one frame (see Paging).
init_paging ==
    LET ok == Supply(frames) # {}
        dir == Calls(Supply(frames), 1, 1)
    IN  /\ At("init_paging") /\ Continue(ok, "acpi_init")
        /\ frames' = Allocate(frames, dir) /\ owned' = owned \cup dir
        /\ UNCHANGED <<machine, info, cpus, iflag, callbacks, pending, timer, smp>>

-----------------------------------------------------------------------------
\* kernel_main().  `enough` tells whether kmalloc() succeeds.

acpi_init ==
    \E enough \in BOOLEAN :
        LET found == parse_acpi_info(machine.firmware)
            ok == enough /\ CanParse(machine.firmware)
        IN  /\ At("acpi_init") /\ Continue(ok, "allocate_aps_percpu_areas")
            /\ info' = IF ok THEN found ELSE info
            /\ UNCHANGED <<machine, memory, cpus, iflag, callbacks, pending, timer, smp>>

allocate_aps_percpu_areas ==
    \E enough \in BOOLEAN :
        /\ At("allocate_aps_percpu_areas") /\ Continue(enough /\ ncpus # 0, "init_final_gdt")
        /\ areas' = IF enough /\ ncpus # 0
                    THEN [i \in 0 .. ncpus - 1 |-> IF i = bsp THEN areas[bsp] ELSE [cpu_id |-> i, kernel_stack |-> NoStack]]
                    ELSE areas
        /\ UNCHANGED <<machine, memory, info, gdt, seg, iflag, callbacks, pending, timer, smp>>

GDT_DOUBLE_FAULT_TASK_IDX == 5
GDT_PERCPU_IDX(cpu) == 6 + cpu
GDT_TSS_IDX(cpu) == 6 + ncpus + cpu
Descriptor(kind, cpu, esp0) == [kind |-> kind, cpu |-> cpu, esp0 |-> esp0]
Null == Descriptor("null", NO_CPU, NoStack)

init_final_gdt ==
    \E enough \in BOOLEAN :
        /\ At("init_final_gdt") /\ Continue(enough, "setup_tss")
        /\ gdt' = IF ~enough THEN gdt
                  ELSE [i \in 0 .. 6 + 2 * ncpus - 1 |->
                          CASE i \in 1 .. 4 -> Descriptor("flat", NO_CPU, NoStack)
                            [] i = GDT_DOUBLE_FAULT_TASK_IDX -> Descriptor("tss", NO_CPU, NoStack)
                            [] i \in 6 .. 6 + ncpus - 1 -> Descriptor("percpu", i - 6, NoStack)
                            [] OTHER -> Null]
        /\ seg' = IF enough THEN [seg EXCEPT ![bsp].gs = GDT_PERCPU_IDX(bsp)] ELSE seg
        /\ UNCHANGED <<machine, memory, info, areas, iflag, callbacks, pending, timer, smp>>

\* setup_tss() of the cpu whose area GS selects.
WithTss(c) ==
    LET i == GDT_TSS_IDX(areas[c].cpu_id)
    IN  /\ gdt' = [gdt EXCEPT ![i] = Descriptor("tss", c, areas[c].kernel_stack)]
        /\ seg' = [seg EXCEPT ![c].tr = i]

setup_tss ==
    /\ At("setup_tss") /\ pc' = "init_lapic"
    /\ WithTss(bsp)
    /\ UNCHANGED <<machine, halted, memory, info, areas, iflag, callbacks, pending, timer, smp>>

\* The registers of both controllers are mapped, if there is memory for it.
init_lapic ==
    \E enough \in BOOLEAN :
        /\ At("init_lapic") /\ Continue(enough, "init_ioapic")
        /\ UNCHANGED <<machine, memory, info, cpus, iflag, callbacks, pending, timer, smp>>

init_ioapic ==
    \E enough \in BOOLEAN :
        /\ At("init_ioapic") /\ Continue(enough, "calibrate_timer")
        /\ UNCHANGED <<machine, memory, info, cpus, iflag, callbacks, pending, timer, smp>>

-----------------------------------------------------------------------------
\* calibrate_timer().

Pin(isa_vector) == info.isa_vector_mapping[isa_vector]

redirect_isa_interrupt(isa_vector, new_vector) ==
    redirection' = [redirection EXCEPT ![Pin(isa_vector)] = [vector |-> new_vector, masked |-> FALSE, dest |-> bsp]]

\* Mutant: the interrupt is left alone.
NotRemoved(table, isa_vector) == table

remove_redirection_for_isa_interrupt(table, isa_vector) == [table EXCEPT ![Pin(isa_vector)].masked = TRUE]

\* The interrupt is let through before there is a callback for it, with IF clear.
StartCalibration ==
    /\ At("calibrate_timer") /\ pc' = "register_callback"
    /\ calib' = [calib EXCEPT !.num_underflows_remaining = N]
    /\ redirect_isa_interrupt(0, PIT_VECTOR)
    /\ UNCHANGED <<machine, halted, memory, info, cpus, iflag, callbacks, pending, pit, smp>>

interrupt_register_local_callback ==
    /\ At("register_callback")
    /\ Continue(CanRegister(callbacks.local, PIT_VECTOR, "calibrate_timer_pit_handler"), "program_pit")
    /\ callbacks' = [callbacks EXCEPT !.local[PIT_VECTOR] = "calibrate_timer_pit_handler"]
    /\ UNCHANGED <<machine, memory, info, cpus, iflag, pending, timer, smp>>

\* The mode stops the counter, which waits for the second byte of its value.
ProgramPit ==
    /\ At("program_pit") /\ pc' = "start_pit"
    /\ pit' = "stopped"
    /\ iflag' = [iflag EXCEPT ![bsp] = TRUE]
    /\ UNCHANGED <<machine, halted, memory, info, cpus, callbacks, pending, redirection, calib, smp>>

StartPit ==
    /\ At("start_pit") /\ pc' = "calibrate_wait"
    /\ pit' = "running"
    /\ UNCHANGED <<machine, halted, memory, info, cpus, iflag, callbacks, pending, redirection, calib, smp>>

CalibrationDone ==
    /\ At("calibrate_wait") /\ calib.calibrate_done /\ pc' = "delete_callback"
    /\ iflag' = [iflag EXCEPT ![bsp] = FALSE]
    /\ UNCHANGED <<machine, halted, memory, info, cpus, callbacks, pending, timer, smp>>

interrupt_delete_local_callback ==
    /\ At("delete_callback") /\ pc' = "init_ipm"
    /\ callbacks' = [callbacks EXCEPT !.local[PIT_VECTOR] = NULL]
    /\ UNCHANGED <<machine, halted, memory, info, cpus, iflag, pending, timer, smp>>

\* An underflow of the PIT, if its pin is let through.
PitUnderflow ==
    /\ pit \in {"bios", "running"} /\ ~redirection[machine.pin].masked
    /\ pending' = [pending EXCEPT ![redirection[machine.pin].dest] = @ \cup {redirection[machine.pin].vector}]
    /\ UNCHANGED <<machine, pc, halted, memory, info, cpus, iflag, callbacks, timer, smp>>

-----------------------------------------------------------------------------
\* Interrupts.  Local callbacks are those of the BSP: an AP has none.
get_callback(c, v) ==
    IF c = bsp /\ callbacks.local[v] # NULL THEN callbacks.local[v] ELSE callbacks.global[v]

Left == (calib.num_underflows_remaining - 1) % ADDR_LIMIT

calibrate_timer_pit_handler ==
    /\ calib' = [num_underflows_remaining |-> Left, calibrate_done |-> calib.calibrate_done \/ Left = 0]
    /\ redirection' = IF Left = 0 THEN remove_redirection_for_isa_interrupt(redirection, 0) ELSE redirection

\* generic_interrupt_handler(), from the interrupt to its return: a tick of the
\* PIT takes longer than the handler.
TakeInterrupt(c, v) ==
    /\ c \notin halted /\ iflag[c] /\ v \in pending[c]
    /\ pending' = [pending EXCEPT ![c] = @ \ {v}]
    /\ IF get_callback(c, v) = NULL THEN Halt(c) ELSE UNCHANGED halted
    /\ IF get_callback(c, v) = "calibrate_timer_pit_handler" THEN calibrate_timer_pit_handler
       ELSE UNCHANGED <<calib, redirection>>
    /\ IF get_callback(c, v) = "ipm_handler" THEN shoot' = [shoot EXCEPT !.at = IF @ = c THEN NO_CPU ELSE @]
       ELSE UNCHANGED shoot
    /\ UNCHANGED <<machine, pc, memory, info, cpus, iflag, callbacks, pit, tramp, mapped, aps, APS_ONLINE, APS_ARE_ONLINE>>

-----------------------------------------------------------------------------
\* The queue locks are unlocked by a cpu that did not lock them: their owner is
\* 0, as the areas are zeroed.
init_ipm ==
    /\ At("init_ipm")
    /\ Continue(bsp = 0 /\ CanRegister(callbacks.global, IPM_VECTOR, "ipm_handler"), "create_trampoline")
    /\ callbacks' = [callbacks EXCEPT !.global[IPM_VECTOR] = "ipm_handler"]
    /\ UNCHANGED <<machine, memory, info, cpus, iflag, pending, timer, smp>>

\* allocate_ap_kernel_stack(): the APs get their stacks in the order of their ids.
allocate_ap_kernel_stack(supply, c) ==
    LET i == IF c < bsp THEN c ELSE c - 1
    IN  Calls(supply, i * STACK_FRAMES + 1, (i + 1) * STACK_FRAMES)

\* Mutant: the address is not saved in the area of the cpu.
StackNotSaved(stacks) == areas

WithStacks(stacks) == [c \in DOMAIN areas |-> IF c = bsp THEN areas[c] ELSE [areas[c] EXCEPT !.kernel_stack = stacks[c]]]

\* The function that enables paging is mapped for the APs as well.
FuncFrame == Frame(Kernel.first)

\* create_trampoline(), create_data_frame(): a frame below 64KiB for the code, a
\* low frame for the data, a stack for every AP; all while the APs are offline.
create_trampoline ==
    LET code   == do_allocation(frames, TRUE)
        data   == do_allocation(Allocated(frames, code), TRUE)
        supply == Supply(Allocate(frames, {code, data}))
        stacks == [c \in DOMAIN areas |-> IF c = bsp THEN NoStack ELSE allocate_ap_kernel_stack(supply, c)]
        taken  == {code, data} \cup UNION {stacks[c] : c \in DOMAIN stacks}
        ok     == /\ code # NO_FRAME /\ code * PAGE < CODE_LIMIT /\ data # NO_FRAME
                  /\ Cardinality(supply) >= (ncpus - 1) * STACK_FRAMES
    IN  /\ At("create_trampoline") /\ Continue(ok, "init")
        /\ APS_ARE_ONLINE' = FALSE
        /\ frames' = IF ok THEN Allocate(frames, taken) ELSE frames
        /\ owned' = IF ok THEN owned \cup taken ELSE owned
        /\ areas' = IF ok THEN WithStacks(stacks) ELSE areas
        /\ tramp' = IF ok THEN [code |-> code, data |-> data, kernel_stacks |-> stacks] ELSE tramp
        /\ mapped' = IF ok THEN {code, data, FuncFrame} ELSE mapped
        /\ UNCHANGED <<machine, info, gdt, seg, iflag, callbacks, pending, timer, aps, APS_ONLINE, shoot>>

lapic_send_broadcast_init ==
    /\ At("init") /\ pc' = "sipi"
    /\ aps' = [c \in CpuIds |-> IF c \in APs THEN "wait" ELSE aps[c]]
    /\ iflag' = [c \in CpuIds |-> iflag[c] /\ c \notin APs]
    /\ UNCHANGED <<machine, halted, memory, info, cpus, callbacks, pending, timer, tramp, mapped, APS_ONLINE, APS_ARE_ONLINE, shoot>>

Waiting == {c \in APs : aps[c] = "wait"}
Started(cs) == aps' = [c \in CpuIds |-> IF c \in cs THEN "real_mode" ELSE aps[c]]

\* The first start-up IPI may be missed; whoever runs ignores the second.
FirstSipi ==
    /\ At("sipi") /\ pc' = "second_sipi"
    /\ \E cs \in SUBSET Waiting : Started(cs)
    /\ UNCHANGED <<machine, halted, memory, info, cpus, iflag, callbacks, pending, timer, tramp, mapped, APS_ONLINE, APS_ARE_ONLINE, shoot>>

SecondSipi ==
    /\ At("second_sipi") /\ pc' = "wait_aps"
    /\ Started(Waiting)
    /\ UNCHANGED <<machine, halted, memory, info, cpus, iflag, callbacks, pending, timer, tramp, mapped, APS_ONLINE, APS_ARE_ONLINE, shoot>>

\* Mutant: the APs are declared online once the trampoline is gone.
DeclaredLater ==
    /\ At("wait_aps") /\ APS_ONLINE = ncpus - 1 /\ pc' = "unmap_code"
    /\ APS_ONLINE' = 0
    /\ UNCHANGED <<machine, halted, memory, info, cpus, iflag, callbacks, pending, timer, tramp, mapped, aps, APS_ARE_ONLINE, shoot>>

AllApsOnline ==
    /\ At("wait_aps") /\ APS_ONLINE = ncpus - 1 /\ pc' = "unmap_code"
    /\ APS_ARE_ONLINE' = TRUE
    /\ APS_ONLINE' = 0
    /\ UNCHANGED <<machine, halted, memory, info, cpus, iflag, callbacks, pending, timer, tramp, mapped, aps, shoot>>

-----------------------------------------------------------------------------
\* paging_unmap() by the BSP, then the shootdown, cpu after cpu.  IF is set while
\* the BSP waits for a cpu.
Unmap(from, frame, to) ==
    /\ At(from) /\ pc' = to
    /\ mapped' = mapped \ {frame}
    /\ shoot' = [shoot EXCEPT !.left = IF APS_ARE_ONLINE THEN (0 .. ncpus - 1) \ {bsp} ELSE {}]
    /\ UNCHANGED <<machine, halted, memory, info, cpus, iflag, callbacks, pending, timer, tramp, aps, APS_ONLINE, APS_ARE_ONLINE>>

unmap_code == Unmap("unmap_code", tramp.code, "shoot_code")
unmap_data == Unmap("unmap_data", tramp.data, "shoot_data")
unmap_func == Unmap("unmap_func", FuncFrame, "shoot_func")

AfterShootdown ==
    [shoot_code |-> "unmap_data", shoot_data |-> "free_frames", shoot_func |-> "running"]
InShootdown == bsp \notin halted /\ pc \in DOMAIN AfterShootdown

exec_tlb_shootdown ==
    /\ InShootdown /\ shoot.at = NO_CPU /\ shoot.left # {}
    /\ LET c == Min(shoot.left)
       IN  /\ shoot' = [left |-> shoot.left \ {c}, at |-> c]
           /\ pending' = [pending EXCEPT ![c] = @ \cup {IPM_VECTOR}]
    /\ iflag' = [iflag EXCEPT ![bsp] = TRUE]
    /\ UNCHANGED <<machine, pc, halted, memory, info, cpus, callbacks, timer, tramp, mapped, aps, APS_ONLINE, APS_ARE_ONLINE>>

ShootdownDone ==
    /\ InShootdown /\ shoot.at = NO_CPU /\ shoot.left = {}
    /\ pc' = AfterShootdown[pc]
    /\ iflag' = [iflag EXCEPT ![bsp] = FALSE]
    /\ UNCHANGED <<machine, halted, memory, info, cpus, callbacks, pending, timer, smp>>

\* The end of cleanup_ap_wakeup_routine_allocs().
FreeTrampoline ==
    /\ At("free_frames") /\ pc' = "unmap_func"
    /\ frames' = free_frame(free_frame(frames, tramp.data), tramp.code)
    /\ owned' = owned \ {tramp.data, tramp.code}
    /\ UNCHANGED <<machine, halted, info, cpus, iflag, callbacks, pending, timer, smp>>

-----------------------------------------------------------------------------
\* The APs: ap_entry_point of boot.S.

\* AP c goes from one point to the next; it faults when the frame that it needs
\* is not mapped, or when the condition fails.
ApStep(c, from, frame, condition, to) ==
    /\ c \in APs \ halted /\ aps[c] = from
    /\ IF frame \in mapped /\ condition
       THEN aps' = [aps EXCEPT ![c] = to] /\ UNCHANGED halted
       ELSE Halt(c) /\ UNCHANGED aps

ApUnchanged == UNCHANGED <<machine, pc, memory, info, areas, callbacks, pending, timer, tramp, mapped, APS_ARE_ONLINE, shoot>>

\* The segment of the data frame and the temporary GDT, without paging.
RealMode(c) ==
    /\ c \in APs /\ aps[c] = "real_mode" /\ aps' = [aps EXCEPT ![c] = "protected_mode"]
    /\ ApUnchanged /\ UNCHANGED <<halted, gdt, seg, iflag, APS_ONLINE>>

\* Paging is enabled while the AP executes the code frame.
EnablePaging(c) ==
    /\ ApStep(c, "protected_mode", tramp.code, TRUE, "target_paging")
    /\ ApUnchanged /\ UNCHANGED <<gdt, seg, iflag, APS_ONLINE>>

\* The stack is looked up by APIC id.
SetStack(c) ==
    /\ ApStep(c, "target_paging", tramp.data, c \in DOMAIN tramp.kernel_stacks, "ap_initialize_state")
    /\ ApUnchanged /\ UNCHANGED <<gdt, seg, iflag, APS_ONLINE>>

ap_init_segmentation(c) ==
    /\ c \in APs /\ aps[c] = "ap_initialize_state" /\ aps' = [aps EXCEPT ![c] = "setup_tss"]
    /\ seg' = [seg EXCEPT ![c].gs = GDT_PERCPU_IDX(c)]
    /\ ApUnchanged /\ UNCHANGED <<halted, gdt, iflag, APS_ONLINE>>

ap_setup_tss(c) ==
    /\ c \in APs /\ aps[c] = "setup_tss" /\ aps' = [aps EXCEPT ![c] = "online"]
    /\ WithTss(gdt[seg[c].gs].cpu)
    /\ ApUnchanged /\ UNCHANGED <<halted, iflag, APS_ONLINE>>

\* Under AP_BOOT_LOCK.
Announce(c) ==
    /\ c \in APs /\ aps[c] = "online" /\ aps' = [aps EXCEPT ![c] = "read_target"]
    /\ APS_ONLINE' = APS_ONLINE + 1
    /\ ApUnchanged /\ UNCHANGED <<halted, gdt, seg, iflag>>

\* wake_up_target is read from the data frame once the AP has announced itself.
ReadTarget(c) ==
    /\ ApStep(c, "read_target", tramp.data, TRUE, "ap_finalize_start_up")
    /\ ApUnchanged /\ UNCHANGED <<gdt, seg, iflag, APS_ONLINE>>

ap_finalize_start_up(c) ==
    /\ c \in APs /\ aps[c] = "ap_finalize_start_up" /\ aps' = [aps EXCEPT ![c] = "idle"]
    /\ iflag' = [iflag EXCEPT ![c] = TRUE]
    /\ ApUnchanged /\ UNCHANGED <<halted, gdt, seg, APS_ONLINE>>

-----------------------------------------------------------------------------
BspNext ==
    \/ init_multiboot \/ init_segmentation \/ init_bsp_boot_percpu \/ interrupt_init
    \/ init_frame_alloc \/ init_paging \/ acpi_init \/ allocate_aps_percpu_areas
    \/ init_final_gdt \/ setup_tss \/ init_lapic \/ init_ioapic
    \/ StartCalibration \/ interrupt_register_local_callback \/ ProgramPit \/ StartPit
    \/ CalibrationDone \/ interrupt_delete_local_callback
    \/ init_ipm \/ create_trampoline
    \/ lapic_send_broadcast_init \/ FirstSipi \/ SecondSipi \/ AllApsOnline
    \/ unmap_code \/ unmap_data \/ unmap_func \/ exec_tlb_shootdown \/ ShootdownDone \/ FreeTrampoline

ApNext(c) ==
    \/ RealMode(c) \/ EnablePaging(c) \/ SetStack(c) \/ ap_init_segmentation(c) \/ ap_setup_tss(c)
    \/ Announce(c) \/ ReadTarget(c) \/ ap_finalize_start_up(c)

Next ==
    \/ BspNext \/ PitUnderflow
    \/ \E c \in CpuIds : ApNext(c) \/ \E v \in Vectors : TakeInterrupt(c, v)

\* Cpus execute, interrupts that are enabled arrive, and a PIT that counts
\* underflows again and again.
Fairness ==
    /\ WF_vars(BspNext) /\ WF_vars(PitUnderflow)
    /\ \A c \in CpuIds : WF_vars(ApNext(c)) /\ \A v \in Vectors : WF_vars(TakeInterrupt(c, v))

Spec == Init /\ [][Next]_vars /\ Fairness

-----------------------------------------------------------------------------
\* No frame that the allocator would hand out holds the kernel, the bitmap
\* itself, the boot information, the initrd or anything allocated since: the
\* bitmap is placed before the initrd is looked at, and only the order of the
\* ASSERTs of init_frame_alloc() keeps the two apart.
FreeFramesUnused ==
    (bsp \notin halted /\ frames.size > 0) =>
        LET used == Covered(UsedFrames(machine.mb, BitmapStarts[machine.mb], init_initrd(machine.mb))) \cup owned
        IN  used \cap frames.avail = {} /\ frames.free = Cardinality(frames.avail)

\* The trampoline outlives its use: the BSP removes it as soon as APS_ONLINE is
\* high enough, when APs have still to read wake_up_target in the data frame.
\* What holds it up is the shootdown for the code frame, which APs acknowledge
\* only once they have reached their target.
TrampolineKept ==
    \A c \in APs \ halted :
        /\ aps[c] \in {"real_mode", "protected_mode"} => tramp.code \in mapped \ frames.avail
        /\ aps[c] \in {"real_mode", "protected_mode", "target_paging", "ap_initialize_state", "setup_tss", "online", "read_target"}
              => tramp.data \in mapped \ frames.avail

\* No interrupt finds a cpu without a callback for it: a timer that the firmware
\* left running, or a last tick that comes in when the calibration is over, must
\* not stop the BSP when it next sets IF, in the shootdowns of init_aps().
InterruptsExpected ==
    \A c \in CpuIds : iflag[c] => \A v \in pending[c] : get_callback(c, v) # NULL

\* A cpu that has a TSS runs interrupts from user mode on a stack of its own:
\* the TSS is built from the per-cpu area that create_data_frame() must have
\* filled before the cpu was started.
OwnKernelStacks ==
    \A c \in machine.cpus :
        seg[c].tr # NOT_LOADED =>
            /\ gdt[seg[c].tr].kind = "tss" /\ gdt[seg[c].tr].cpu = c
            /\ gdt[seg[c].gs].kind = "percpu" /\ gdt[seg[c].gs].cpu = c
            /\ gdt[seg[c].tr].esp0 # NoStack
            /\ \A d \in machine.cpus \ {c} : seg[d].tr # NOT_LOADED => gdt[seg[c].tr].esp0 \cap gdt[seg[d].tr].esp0 = {}

\* Unless a cpu stops, the BSP ends its start-up with every AP waiting for work,
\* whichever start-up IPI an AP reacts to and however slow it is.
BootCompletes == <>(halted # {} \/ (pc = "running" /\ \A c \in APs : aps[c] = "idle"))

=============================================================================
