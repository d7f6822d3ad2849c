------------------------------- MODULE MCLife -------------------------------
(***************************************************************************)
(* Instances of Life for TLC.                                              *)
(***************************************************************************)
EXTENDS Life

\* The arguments ./life threads file generations.
Run(threads, generations, rows) ==
    [argc |-> 4, threads |-> threads, generations |-> generations, rows |-> rows]

\* The lines of a complete file with a grid of three lines and two columns.
Rows(g) == Append(g, << >>)
Grids(values) == [1 .. 3 -> [1 .. 2 -> values]]

\* Every grid of dead and live cells, and one with live cells other than 1.
AllGrids == Grids({0, 1}) \cup {<< <<2, 2>>, <<2, 0>>, <<0, 0>> >>}

\* A T that changes in each of the first two generations, a block that never
\* changes, an L that becomes a block, and a single cell that dies.
Tee   == << <<1, 0>>, <<1, 1>>, <<1, 0>> >>
Block == << <<1, 1>>, <<1, 1>>, <<0, 0>> >>
Ell   == << <<1, 1>>, <<1, 0>>, <<0, 0>> >>
Lone  == << <<0, 0>>, <<0, 1>>, <<0, 0>> >>
SomeGrids == {Tee, Block, Ell, Lone}

\* Files of other shapes, for matrices of 4 x 4: lines of different widths, no
\* newline at the end, an empty line, an empty file, no file; a line and a
\* column too many; one line too many that is let through.
Ones(n) == [c \in 1 .. n |-> 1]
OddFiles ==
    {<< <<1>>, <<1, 1, 1>>, <<0, 1>>, << >> >>, << <<1, 1>>, <<1, 1>>, <<1, 1, 1>> >>,
     << << >>, <<1>>, << >> >>, << << >>, << >> >>, << << >> >>, << <<1>> >>, NoFile,
     [l \in 1 .. 6 |-> <<1>>], << Ones(5), << >> >>, [l \in 1 .. 5 |-> Ones(3)]}

\* Two workers on every grid; more threads than lines on some; odd files;
\* arguments out of range.
ManyInputs ==
    {Run(2, 2, Rows(g)) : g \in AllGrids}
        \cup {Run(4, 2, Rows(g)) : g \in SomeGrids}
        \cup {Run(2, 2, f) : f \in OddFiles}
        \cup {Run(n, 2, Rows(Tee)) : n \in {-1, 0, 5}} \cup {Run(2, 0, Rows(Tee))}
        \cup {[Run(2, 2, Rows(Tee)) EXCEPT !.argc = n] : n \in {3, 7}}

\* One and two workers.
FewInputs == {Run(n, 1, Rows(g)) : n \in {1, 2}, g \in SomeGrids}

\* Two workers on every grid.
AllInputs == {Run(2, 1, Rows(g)) : g \in AllGrids}
=============================================================================
