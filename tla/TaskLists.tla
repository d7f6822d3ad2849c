----------------------------- MODULE TaskLists -----------------------------
(***************************************************************************)
(* What project2/intercept.c uses of the kernel: tasks with a list of      *)
(* their children.  The list is circular and doubly linked; it runs        *)
(* through the field `children' of the parent, its head, and the field     *)
(* `sibling' of each child.  A node is t for the sibling field of task t,  *)
(* and -t for the head of the list of its children.                        *)
(*                                                                         *)
(* Every change is made by a task that holds the lock of the task list,    *)
(* but a reader without the lock sees the lists between the changes: a     *)
(* task that exits hands over its children one by one, and is taken out of *)
(* its own list later.  A change of one list (list_add_tail, list_del,     *)
(* list_move_tail) is one step.                                            *)
(*                                                                         *)
(* Tasks are numbered in the order in which they start, task 1 is init.    *)
(***************************************************************************)
EXTENDS Integers, Sequences, Functions

CONSTANT N   \* most tasks that ever exist

ASSUME TasksAssumption == N \in Nat \ {0}

Tasks == 1 .. N
init == 1

VARIABLES state,     \* each task: not started, alive, one of the stages of exit, or gone
          parent,    \* its parent
          children   \* its children, in the order of the list

taskVars == <<state, parent, children>>

\* adopting: t holds the lock and hands over its children; leaving: it has none any
\* more; zombie: its parent can wait for it; dead: nobody will; gone: in no list.
States == {"new", "alive", "adopting", "leaving", "zombie", "dead", "gone"}

\* The stages in which a task has no children any more.
Ended == {"leaving", "zombie", "dead", "gone"}

TasksInit ==
    /\ state = [t \in Tasks |-> IF t = init THEN "alive" ELSE "new"]
    /\ parent = [t \in Tasks |-> init]
    /\ children = [t \in Tasks |-> << >>]

Alive(t) == state[t] = "alive"

\* Nobody holds the lock between two steps.
Unlocked == \A t \in Tasks : state[t] # "adopting"

LastStarted == CHOOSE t \in Tasks :
    state[t] # "new" /\ \A u \in Tasks : state[u] # "new" => u <= t

\* The child of p that fork would create.
NewTask == LastStarted + 1

\* fork: the child is added at the end of the parent's list.
AddTask(p) ==
    /\ Alive(p) /\ NewTask \in Tasks /\ Unlocked
    /\ state' = [state EXCEPT ![NewTask] = "alive"]
    /\ parent' = [parent EXCEPT ![NewTask] = p]
    /\ children' = [children EXCEPT ![p] = Append(@, NewTask)]

Place(list, n) == CHOOSE j \in DOMAIN list : list[j] = n

Without(list, t) ==
    SubSeq(list, 1, Place(list, t) - 1) \o SubSeq(list, Place(list, t) + 1, Len(list))

\* exit takes the lock,
BeginExit(t) ==
    /\ Alive(t) /\ t # init /\ Unlocked
    /\ state' = [state EXCEPT ![t] = "adopting"]
    /\ UNCHANGED <<parent, children>>

\* moves the first child to the end of init's list, as long as there is one,
AdoptFirst(t) ==
    /\ state[t] = "adopting" /\ children[t] # << >>
    /\ LET c == Head(children[t])
       IN  /\ parent' = [parent EXCEPT ![c] = init]
           /\ children' = [q \in Tasks |-> IF q = t THEN Without(children[t], c)
                                           ELSE IF q = init THEN Append(children[init], c)
                                           ELSE children[q]]
    /\ UNCHANGED state

\* and releases the lock;
EndAdoption(t) ==
    /\ state[t] = "adopting" /\ children[t] = << >>
    /\ state' = [state EXCEPT ![t] = "leaving"]
    /\ UNCHANGED <<parent, children>>

\* then t tells its parent, which may ignore the signal.
NotifyParent(t, ignored) ==
    /\ state[t] = "leaving" /\ Unlocked
    /\ state' = [state EXCEPT ![t] = IF ignored THEN "dead" ELSE "zombie"]
    /\ UNCHANGED <<parent, children>>

\* list_del_init links the node of t to itself: the parent has waited for a zombie, or
\* a dead task releases itself.
ReleaseTask(t, from) ==
    /\ state[t] = from /\ Unlocked
    /\ state' = [state EXCEPT ![t] = "gone"]
    /\ children' = [children EXCEPT ![parent[t]] = Without(@, t)]
    /\ UNCHANGED parent
-----------------------------------------------------------------------------
(* Following the links. *)

\* The ring of the children of p, beginning with the head.
Ring(p) == << -p >> \o children[p]

RingOf(n) ==
    IF n < 0 THEN Ring(-n) ELSE IF state[n] = "gone" THEN << n >> ELSE Ring(parent[n])

\* The node after n in direction d: 1 for list_for_each, -1 for list_for_each_prev.
Follow(n, d) ==
    LET ring == RingOf(n)
    IN  ring[((Place(ring, n) - 1 + d) % Len(ring)) + 1]
-----------------------------------------------------------------------------
TasksTypeOK ==
    /\ state \in [Tasks -> States]
    /\ parent \in [Tasks -> Tasks] /\ children \in [Tasks -> Seq(Tasks)]

\* Tasks that are in the list of their parent.
Linked(t) == t # init /\ state[t] \notin {"new", "gone"}
ChildOf(t, p) == Linked(t) /\ parent[t] = p

\* No element occurs twice.
Distinct(list) == \A j, k \in DOMAIN list : list[j] = list[k] => j = k

\* Each of them is there once, and nothing else is in a list; a task that has handed
\* over its children has none, and only one does so at a time.
Lists ==
    /\ Alive(init)
    /\ \A p, c \in Tasks : c \in Range(children[p]) <=> ChildOf(c, p)
    /\ \A p \in Tasks : Distinct(children[p])
    /\ \A p \in Tasks : state[p] \notin {"alive", "adopting"} => children[p] = << >>
    /\ \A t \in Tasks : t # init => parent[t] # t
    /\ \A t, u \in Tasks : state[t] = "adopting" /\ state[u] = "adopting" => t = u
=============================================================================
