------------------------------ MODULE Kmalloc ------------------------------
(***************************************************************************)
(* Groups and nodes of the kernel heap (kmalloc.c), in words of 4 bytes.   *)
(* A group is a run of pages that starts with a struct group, followed by  *)
(* nodes: a header and `size` words of data.  A free node holds its link   *)
(* of the free list in its data.                                           *)
(*                                                                         *)
(* A group is [base, num_pages, free, nodes, list]: its first page, its    *)
(* counter of free words, its nodes (from the offset of the header in the  *)
(* group to tag and size) and its free list (offsets).                     *)
(***************************************************************************)
EXTENDS Integers, Sequences, FiniteSets, TLC
LOCAL INSTANCE SequencesExt
LOCAL INSTANCE Functions
LOCAL INSTANCE FiniteSetsExt

CONSTANT PAGE       \* words per page

GROUP == 7          \* sizeof(struct group)
POINTER == 1        \* sizeof(struct group *)
HEADER == 1         \* HEADER_SIZE
MIN_SIZE == 2       \* sizeof(struct list_node)
NODE == HEADER + MIN_SIZE

ASSUME PageAssumption == PAGE \in Nat /\ PAGE >= GROUP + NODE

NULL == -1

Node(tag, size) == [tag |-> tag, size |-> size]

Capacity(num_pages) == num_pages * PAGE - GROUP - HEADER

create_group(base, num_pages) ==
    [base |-> base, num_pages |-> num_pages, free |-> Capacity(num_pages),
     nodes |-> GROUP :> Node("FREE", Capacity(num_pages)), list |-> <<GROUP>>]

group_is_empty(g) == g.free = Capacity(g.num_pages)

node_data_start(g, offset) == g.base * PAGE + offset + HEADER

node_for_addr(g, addr) == addr - HEADER - g.base * PAGE

addr_in_group(g, addr) == g.base * PAGE <= addr /\ addr < (g.base + g.num_pages) * PAGE

\* The position in the free list of the first node that is big enough, or 0.
find_node_in_group(g, size) == SelectInSeq(g.list, LAMBDA o : g.nodes[o].size >= size)

\* Mutant: the two sizes are compared the wrong way round.
RoundedDown(size) == Min({size, MIN_SIZE})

Rounded(size) == Max({size, MIN_SIZE})

\* The rest of the node becomes a free node, at the same place of the free list,
\* if it has room for one; otherwise the whole node is allocated.
kmalloc_in_group(g, size) ==
    LET i    == find_node_in_group(g, Rounded(size))
        dest == g.list[i]
        all  == g.nodes[dest].size
        rest == dest + HEADER + Rounded(size)
    IN  IF i = 0 THEN [group |-> g, addr |-> NULL]
        ELSE [addr |-> node_data_start(g, dest),
              group |->
                IF all - Rounded(size) >= NODE
                THEN [g EXCEPT !.free = @ - all + (all - Rounded(size) - HEADER),
                               !.nodes = rest :> Node("FREE", all - Rounded(size) - HEADER)
                                         @@ dest :> Node("ALLOCATED", Rounded(size)) @@ @,
                               !.list = ReplaceAt(@, i, rest)]
                ELSE [g EXCEPT !.free = @ - all,
                               !.nodes[dest].tag = "ALLOCATED",
                               !.list = RemoveAt(@, i)]]

\* First fit over the groups; a group whose counter is too small is skipped.
\* NULL in `addr` when no group has room.
try_allocation(groups, size) ==
    LET Fits(g) == g.free >= size /\ kmalloc_in_group(g, size).addr # NULL
        i == SelectInSeq(groups, Fits)
        r == kmalloc_in_group(groups[i], size)
    IN  IF i = 0 THEN [groups |-> groups, addr |-> NULL]
        ELSE [groups |-> ReplaceAt(groups, i, r.group), addr |-> r.addr]

can_merge(g, a, b) == a + g.nodes[a].size + HEADER = b

\* Mutant: the header of the node that disappears is not counted as free.
MergedHeaderLost(g, i) ==
    LET prev == g.list[i - 1]
        node == g.list[i]
    IN  [g EXCEPT !.list = RemoveAt(@, i),
                  !.nodes = [o \in DOMAIN @ \ {node} |->
                               IF o = prev THEN Node("FREE", @[o].size + @[node].size + HEADER) ELSE @[o]]]

MergedWithPrev(g, i) ==
    LET prev == g.list[i - 1]
        node == g.list[i]
    IN  [g EXCEPT !.list = RemoveAt(@, i),
                  !.nodes = [o \in DOMAIN @ \ {node} |->
                               IF o = prev THEN Node("FREE", @[o].size + @[node].size + HEADER) ELSE @[o]],
                  !.free = @ + HEADER]

\* Merge the node at position i of the free list with the one before it, then
\* do the same with the node that follows, up to the end of the list.
RECURSIVE merge_free_node(_, _)
merge_free_node(g, i) ==
    LET merges == i > 1 /\ can_merge(g, g.list[i - 1], g.list[i])
        h      == IF merges THEN MergedWithPrev(g, i) ELSE g
        node   == IF merges THEN i - 1 ELSE i
    IN  IF node = Len(h.list) THEN h ELSE merge_free_node(h, node + 1)

\* The list is kept in the order of the addresses.
insert_in_free_list(g, node) ==
    LET next == SelectInSeq(g.list, LAMBDA o : o > node)
        at   == IF next = 0 THEN Len(g.list) + 1 ELSE next
    IN  merge_free_node([g EXCEPT !.nodes[node].tag = "FREE",
                                  !.free = @ + g.nodes[node].size,
                                  !.list = InsertAt(@, at, node)], at)

\* The ASSERTs of kfree_in_group().
IsAllocated(g, addr) ==
    LET node == node_for_addr(g, addr)
    IN  node \in DOMAIN g.nodes /\ g.nodes[node].tag = "ALLOCATED"

kfree_in_group(g, addr) == insert_in_free_list(g, node_for_addr(g, addr))

\* The pages do_kmalloc() asks for: it accounts for the size of a pointer to a
\* group, not for the size of the group.
PagesFor(size) == (size + POINTER + HEADER + PAGE - 1) \div PAGE

kmalloc_total_allocated(groups) ==
    FoldSeq(LAMBDA g, total : total + Capacity(g.num_pages) - g.free, 0, groups)

-----------------------------------------------------------------------------
\* What a group must look like: the nodes tile the pages after the header, the free list is the
\* free nodes in the order of their addresses, no two free nodes touch, and the
\* counter of the group is exact.
WellFormed(g) ==
    LET end == g.num_pages * PAGE
        freeNodes == {o \in DOMAIN g.nodes : g.nodes[o].tag = "FREE"}
        After(o) == o + HEADER + g.nodes[o].size
    IN  /\ GROUP \in DOMAIN g.nodes
        /\ \A o \in DOMAIN g.nodes : /\ g.nodes[o].size >= MIN_SIZE
                                     /\ After(o) \in DOMAIN g.nodes \cup {end}
        /\ MapThenSumSet(LAMBDA o : g.nodes[o].size + HEADER, DOMAIN g.nodes) = end - GROUP
        /\ ToSet(g.list) = freeNodes
        /\ \A i \in 1 .. Len(g.list) - 1 : /\ g.list[i] < g.list[i + 1]
                                           /\ ~can_merge(g, g.list[i], g.list[i + 1])
        /\ g.free = MapThenSumSet(LAMBDA o : g.nodes[o].size, freeNodes)

\* kmalloc_list_allocations(): the addresses and sizes of the allocations of a
\* group.
Allocations(g) ==
    {[addr |-> node_data_start(g, o), size |-> g.nodes[o].size] :
        o \in {n \in DOMAIN g.nodes : g.nodes[n].tag = "ALLOCATED"}}

=============================================================================
