--------------------------- MODULE AbstractRwLock ---------------------------
(***************************************************************************)
(* What a readers/writer lock promises: any number of readers or one       *)
(* writer.  RwLock.tla is shown to implement it.                           *)
(***************************************************************************)
CONSTANT Tasks

VARIABLES readers, writers

Init == readers = {} /\ writers = {}

ReadLock(t) ==
    /\ writers = {}
    /\ t \notin readers
    /\ readers' = readers \cup {t}
    /\ UNCHANGED writers

ReadUnlock(t) ==
    /\ t \in readers
    /\ readers' = readers \ {t}
    /\ UNCHANGED writers

WriteLock(t) ==
    /\ readers = {}
    /\ writers = {}
    /\ writers' = {t}
    /\ UNCHANGED readers

WriteUnlock(t) ==
    /\ t \in writers
    /\ writers' = writers \ {t}
    /\ UNCHANGED readers

Next == \E t \in Tasks : ReadLock(t) \/ ReadUnlock(t) \/ WriteLock(t) \/ WriteUnlock(t)

Spec == Init /\ [][Next]_<<readers, writers>>
=============================================================================
