------------------------------- MODULE MCBoot -------------------------------
(***************************************************************************)
(* Boot on small machines.  Frames 0 to 5 are low memory, 6 and 7 the hole *)
(* of the devices, 8 and 9 the kernel; 1MiB is frame 8, 4GiB frame 16.     *)
(***************************************************************************)
EXTENDS Boot

MCKernel == Region(32, 38)
MCVgaBuffer == Region(28, 29)

\* Boot information all over low memory, map next to it or far away; low memory
\* that ends on a page boundary or not; high memory that ends below, near and
\* above 4GiB; no initrd, one after the kernel, one at address 0.
Mmap(low, high) ==
    <<Entry(0, low), [base_addr |-> 24, length |-> 8, type |-> 2], Entry(32, high), Entry(80, 8)>>
Info(addr, mmap_addr, low, high, mods) ==
    [addr |-> addr, mmap_addr |-> mmap_addr, mmap |-> Mmap(low, high), mods |-> mods]

Mods == {<<>>, <<[start |-> 40, end |-> 44]>>, <<[start |-> 0, end |-> 2]>>,
         <<[start |-> 40, end |-> 42], [start |-> 44, end |-> 46]>>}
Infos == {Info(place[1], place[2], low, high, mods) :
            place \in {<<1, 3>>, <<1, 16>>, <<9, 11>>, <<13, 15>>, <<20, 10>>},
            low \in {22, 24}, high \in {20, 28, 29, 31, 40}, mods \in Mods}

-----------------------------------------------------------------------------
LocalApic(flags) == [type |-> "PROC_LOCAL_APIC", flags |-> flags]
IoApic == [type |-> "IO_APIC", addr |-> 1]
Override(bus) == [type |-> "INTERRUPT_SOURCE_OVERRIDE", bus |-> bus, source_irq |-> 0, global_system_interrupt |-> 2]
Other == [type |-> "NON_MASKABLE_INTERRUPTS"]

Table(high, valid, signature, entries) ==
    [high |-> high, valid |-> valid, signature |-> signature, entries |-> entries]
Facp == Table(FALSE, TRUE, "FACP", <<>>)
Madt(entries) == Table(FALSE, TRUE, "APIC", entries)
Firmware(revision, tables) == [rsdp |-> "valid", revision |-> revision, tables |-> tables]

Machine(bootCpu, ids, mb, firmware, pin, timerState) ==
    [bsp |-> bootCpu, cpus |-> ids, mb |-> mb, firmware |-> firmware, pin |-> pin, pit |-> timerState]

Small(mb) ==
    Machine(0, {0, 1}, mb, Firmware(0, <<Facp, Madt(<<LocalApic(1), LocalApic(1), LocalApic(0), IoApic, Override(1)>>)>>), 0, "off")

Good == Info(9, 11, 24, 31, <<>>)
Three == <<LocalApic(1), LocalApic(1), LocalApic(1), IoApic, Other, Override(0)>>

\* Three cpus, with a timer that runs from the start; a BSP that is not cpu 0;
\* APIC ids with a hole; firmware that the parser gives up on.
Platforms ==
    {Machine(0, {0, 1, 2}, Good, Firmware(2, <<Madt(Three), Facp>>), 2, "bios"),
     Machine(1, {0, 1}, Good, Firmware(2, <<Madt(<<LocalApic(1), LocalApic(1), IoApic>>)>>), 0, "bios"),
     Machine(0, {0, 2}, Good, Firmware(2, <<Madt(<<LocalApic(1), LocalApic(1), IoApic>>)>>), 0, "off"),
     Machine(0, {0, 1}, Good, Firmware(2, <<Madt(<<LocalApic(1), IoApic, IoApic, LocalApic(1)>>)>>), 0, "off"),
     Machine(0, {0}, Good, Firmware(2, <<Table(TRUE, TRUE, "APIC", <<>>)>>), 0, "off"),
     Machine(0, {0}, Good, Firmware(0, <<Table(FALSE, FALSE, "APIC", Three)>>), 0, "off"),
     Machine(0, {0}, Good, Firmware(0, <<Madt(<<LocalApic(1), IoApic>>)>>), 0, "bios"),
     Machine(0, {0}, Good, [rsdp |-> "missing", revision |-> 0, tables |-> <<>>], 0, "off")}

MCMachines == Platforms \cup {Small(mb) : mb \in Infos}
=============================================================================
