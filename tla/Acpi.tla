-------------------------------- MODULE Acpi --------------------------------
(***************************************************************************)
(* The ACPI tables (acpi.c): the number of cpus, the I/O APIC and the pins *)
(* that the ISA interrupts are wired to.                                   *)
(*                                                                         *)
(* The firmware is [rsdp, revision, tables].  rsdp tells whether the root  *)
(* pointer is there and whether its checksum holds; a table is [high,      *)
(* valid, signature, entries].                                             *)
(***************************************************************************)
EXTENDS Integers, Sequences

ISA == 0 .. 15

\* What the kernel knows before it has parsed the tables.
NoInfo == [NCPUS |-> 0, IO_APIC_ADDR |-> 0, isa_vector_mapping |-> [v \in ISA |-> v]]

\* Only cpus that are enabled or may be are counted.
process_madt_local_apic_entry(entries) ==
    Len(SelectSeq(entries, LAMBDA e : e.type = "PROC_LOCAL_APIC" /\ e.flags # 0))

\* The address of the I/O APIC; a second one fails the ASSERT.
IoApics(entries) == SelectSeq(entries, LAMBDA e : e.type = "IO_APIC")
process_madt_ioapic_entry(entries) == IF IoApics(entries) = <<>> THEN 0 ELSE IoApics(entries)[1].addr

\* The last override of an ISA interrupt wins; those of other buses are ignored.
Overrides(entries, v) ==
    SelectSeq(entries, LAMBDA e : e.type = "INTERRUPT_SOURCE_OVERRIDE" /\ e.bus = 0 /\ e.source_irq = v)

\* Mutant: the pin is taken to be the ISA interrupt whatever the table says.
OverrideIgnored(entries, v) == v

process_madt_int_src_override_entry(entries, v) ==
    IF Overrides(entries, v) = <<>> THEN v ELSE Overrides(entries, v)[Len(Overrides(entries, v))].global_system_interrupt

\* process_madt(), for the entries of every MADT.
process_madt(entries) ==
    [NCPUS |-> process_madt_local_apic_entry(entries),
     IO_APIC_ADDR |-> process_madt_ioapic_entry(entries),
     isa_vector_mapping |-> [v \in ISA |-> process_madt_int_src_override_entry(entries, v)]]

\* acpi_table_callback() looks at the tables whose checksum holds and parses those
\* that are MADTs.
acpi_table_callback(tables) ==
    LET entries[i \in 0 .. Len(tables)] ==
            IF i = 0 THEN <<>>
            ELSE entries[i - 1] \o (IF tables[i].valid /\ tables[i].signature = "APIC" THEN tables[i].entries ELSE <<>>)
    IN  entries[Len(tables)]

\* parse_acpi_info() gives up without a root pointer, and with a pointer that does
\* not fit in 32 bits, which only version 2 has.
CanParse(firmware) ==
    /\ firmware.rsdp = "valid"
    /\ firmware.revision # 0 => \A i \in DOMAIN firmware.tables : ~firmware.tables[i].high
    /\ Len(IoApics(acpi_table_callback(firmware.tables))) <= 1

parse_acpi_info(firmware) == process_madt(acpi_table_callback(firmware.tables))

=============================================================================
