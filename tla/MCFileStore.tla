------------------------------ MODULE MCFileStore ------------------------------
(***************************************************************************)
(* TLC instance of FileStore: two targets that share an item, with a       *)
(* credential between two items.                                           *)
(***************************************************************************)
EXTENDS FileStore

CONSTANTS email, address, password

MCItemLists == {<<email>>, <<address, password, email>>}

MCSymmetry == Permutations(Onions) \cup Permutations(Seconds)
=============================================================================
