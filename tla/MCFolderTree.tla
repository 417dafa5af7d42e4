---------------------------- MODULE MCFolderTree ----------------------------
(* A small instance of FolderTree for TLC. *)
EXTENDS FolderTree, TLC

\* Ids and requests are interchangeable.
TreeSymmetry == Permutations(Folders) \union Permutations(Handlers)
=============================================================================
