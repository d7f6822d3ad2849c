-------------------------------- MODULE Game --------------------------------
(***************************************************************************)
(* What project3/life.cpp promises: Conway's game of life on a bounded     *)
(* grid, one generation per step, until the limit is reached or the grid   *)
(* is dead or did not change.  No threads, messages or second matrix.      *)
(***************************************************************************)
EXTENDS Integers, FiniteSets

VARIABLES grid,        \* lines of columns; a cell is alive unless it is 0
          generation,  \* generations played
          ended,       \* no more will be played
          limit        \* generations asked for; never changes

gameVars == <<grid, generation, ended, limit>>
-----------------------------------------------------------------------------
LiveNeighbors(g, l, c) ==
    Cardinality({p \in (DOMAIN g) \X (DOMAIN g[l]) :
        /\ p # <<l, c>>
        /\ p[1] - l \in -1 .. 1 /\ p[2] - c \in -1 .. 1
        /\ g[p[1]][p[2]] # 0})

Evolve(g) ==
    [l \in DOMAIN g |-> [c \in DOMAIN g[l] |->
        LET n == LiveNeighbors(g, l, c)
        IN  IF n = 3 \/ (n = 2 /\ g[l][c] # 0) THEN 1 ELSE 0]]

Dead(g) == \A l \in DOMAIN g : \A c \in DOMAIN g[l] : g[l][c] = 0

\* g, the successor of previous, is the last grid worth computing.
AtRest(previous, g) == Dead(g) \/ g = previous
-----------------------------------------------------------------------------
Init == generation = 0 /\ ended = FALSE

\* A game that comes to rest ends with the generation that shows it.
Step ==
    /\ ~ended /\ generation < limit
    /\ grid' = Evolve(grid)
    /\ generation' = generation + 1
    /\ ended' = AtRest(grid, grid')
    /\ UNCHANGED limit

LimitReached ==
    /\ ~ended /\ generation = limit
    /\ ended' = TRUE
    /\ UNCHANGED <<grid, generation, limit>>

Next == Step \/ LimitReached

Spec == Init /\ [][Next]_gameVars
=============================================================================
