------------------------------ MODULE MCProj4 ------------------------------
(***************************************************************************)
(* Instances of Proj4 for TLC.                                             *)
(***************************************************************************)
EXTENDS Proj4

FilesOf(size) == [0 .. size - 1 -> BOOLEAN]
FilesUpTo(size) == UNION {FilesOf(n) : n \in 0 .. size}

\* ./proj4 file, ./proj4 file mmap, ./proj4 file 3, ./proj4 file p2.
Run(opts, numbers, files) ==
    [argc : {3}, option : opts, number : numbers, file : files]
NoOption == [argc : {2}, option : {"none"}, number : {0}, file : FilesUpTo(7)]

\* Every file of up to 7 characters in every way, with buffers of all sizes and
\* one to three workers; every file of 10 characters with two workers, the
\* least in which both pieces of a string over the boundary can be counted and
\* neither part is whole; arguments out of range.
ManyInputs ==
    NoOption
        \cup Run({"mmap", "other"}, {0}, FilesUpTo(7))
        \cup Run({"digits"}, {1, 2, 4}, FilesUpTo(7))
        \cup Run({"p"}, {1, 2, 3}, FilesUpTo(7))
        \cup Run({"p"}, {2}, FilesOf(10))
        \cup Run({"p"}, {-1, 0, 4}, FilesOf(1)) \cup Run({"digits"}, {0, 5}, FilesOf(1))
        \cup [argc : {1, 4}, option : {"none"}, number : {0}, file : FilesOf(1)]

\* Two workers on the files of four characters.
ShortInputs == Run({"p"}, {2}, FilesOf(4))
=============================================================================
