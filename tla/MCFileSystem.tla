---------------------------- MODULE MCFileSystem ----------------------------
(* Instances of FileSystem: a device of a dozen sectors of two bytes, and  *)
(* inodes that need index blocks for more than two of them.                *)
EXTENDS FileSystem

CONSTANTS n1, n2          \* file names

MCNames == {n1, n2}

MCSymmetry == Permutations(MCNames)
=============================================================================
