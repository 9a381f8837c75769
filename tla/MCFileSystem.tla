---------------------------- MODULE MCFileSystem ----------------------------
(* FileSystem on a small image. *)
EXTENDS FileSystem, TLC

\* An empty file, files of part of a block, one block, and three blocks.
MCContents == {<<>>, <<1>>, <<4, 5, 6, 7, 8>>}

\* The calls depend on the image alone: images that only differ in the call
\* that made them are the same state to TLC.
Image == fs

\* The code compares names and does nothing else with them.
Symmetry == Permutations(Names)
=============================================================================
