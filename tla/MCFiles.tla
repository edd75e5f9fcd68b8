------------------------------ MODULE MCFiles -------------------------------
(***************************************************************************)
(* Two processes, a disk with two files in a directory and an initrd whose *)
(* mount point may hide one of them.                                       *)
(***************************************************************************)
EXTENDS Files, TLC

\* m/ is a directory, m/a has 3 bytes and m/b has 1; the initrd has a, of 2 bytes.
MCHeaders ==
    << [prefix |-> <<>>,    filename |-> <<"m">>, type |-> "5", filesize |-> <<0>>,    indicator |-> "ustar"],
       [prefix |-> <<"m">>, filename |-> <<"a">>, type |-> "0", filesize |-> <<0, 3>>, indicator |-> "ustar"],
       [prefix |-> <<"m">>, filename |-> <<"b">>, type |-> "0", filesize |-> <<1>>,    indicator |-> "ustar"],
       [prefix |-> <<>>,    filename |-> <<"a">>, type |-> "0", filesize |-> <<2>>,    indicator |-> "ustar"] >>

\* Sectors of 2 bytes.
MCArchives ==
    [d |-> <<-1, 0, -2, 0, 3, 3, 3, 0, -3, 0, 3, 0, 0, 0>>,
     r |-> <<-4, 0, 3, 3, 0, 0>>]

MCMountPoints == {<<>>, <<"m">>}
MCPaths == {<<"m", "a">>, <<"m", "b">>}

Symmetry == Permutations(Procs)
=============================================================================
