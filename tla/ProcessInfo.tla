---------------------------- MODULE ProcessInfo ----------------------------
(***************************************************************************)
(* project2/intercept.c: the system call that tells a process about        *)
(* itself, its children and its siblings, and test.c and testnull.c, which *)
(* call it from three generations of processes.                            *)
(*                                                                         *)
(* The call walks through the lists of the kernel (module TaskLists)       *)
(* without a lock, while the other tasks fork, exit and wait; it also sees *)
(* the lists while a task that exits hands over its children.  One call is *)
(* in progress at a time: calls only read, and do not disturb each other.  *)
(* Task t starts at time 2 * t and has the pid t.                          *)
(***************************************************************************)
EXTENDS TaskLists, FiniteSetsExt

CONSTANTS Ignoring,    \* tasks that ignore the signal of a child's end
          HeadTimes,   \* what a list head may read as when taken for a task:
          HeadPids,    \* its start time and its pid
          NoReport

Forever == 4 * N + 3   \* the largest unsigned number

ASSUME ProcessInfoAssumption ==
    /\ Ignoring \subseteq Tasks /\ init \notin Ignoring
    /\ HeadTimes \subseteq -2 * N - 2 .. 2 * N + 1   \* the signed numbers
    /\ HeadPids \subseteq Nat

VARIABLES prog, upc,     \* each task: its program, where it is in it
          kid,           \* what fork returned, 0 for a failure
          current,       \* the task that makes the call
          pc,            \* where the call is
          head,          \* the node the loop has reached
          tmp_st1, tmp_pid1, tmp_st2, tmp_pid2,
          parent_pid,    \* fields of the record: parent, read at the beginning,
          youngest_child,\* and child
          counted,       \* how often the times of each task were added up
          report,        \* what the test programs have printed
          quiet,         \* history: no list has changed since the call began
          strays         \* history: times read from list heads in this call

programVars == <<prog, upc, kid>>
tmpVars == <<tmp_st1, tmp_pid1, tmp_st2, tmp_pid2>>
callVars == <<current, pc, head, tmpVars, parent_pid, youngest_child, counted, strays>>
vars == <<taskVars, programVars, callVars, report, quiet>>

StartTime(t) == 2 * t
Many == 3              \* bound of the counters in counted: three or more
NoCount == [t \in Tasks |-> 0]

NoCall ==
    /\ current = 0 /\ pc = "idle" /\ head = 0
    /\ tmp_st1 = 0 /\ tmp_pid1 = -1 /\ tmp_st2 = 0 /\ tmp_pid2 = -1
    /\ parent_pid = 0 /\ youngest_child = -1 /\ counted = NoCount /\ strays = {}

EndCall ==
    /\ current' = 0 /\ pc' = "idle" /\ head' = 0
    /\ tmp_st1' = 0 /\ tmp_pid1' = -1 /\ tmp_st2' = 0 /\ tmp_pid2' = -1
    /\ parent_pid' = 0 /\ youngest_child' = -1 /\ counted' = NoCount /\ strays' = {}

Init ==
    /\ TasksInit
    /\ prog = [t \in Tasks |-> "any"] /\ upc = [t \in Tasks |-> "any"]
    /\ kid = [t \in Tasks |-> 0]
    /\ NoCall
    /\ report = [t \in Tasks |-> NoReport] /\ quiet = FALSE
-----------------------------------------------------------------------------
(* Programs.  A program of the kind any does what it likes; the others are *)
(* the three processes of test.c.                                          *)
Free(t) == Alive(t) /\ t # current

ChildProgram(p) == IF p = "any" THEN {"any", "parent"}
                   ELSE IF p = "parent" THEN {"child"} ELSE {"grandchild"}
FirstStep(p) == IF p = "any" THEN "any" ELSE IF p = "grandchild" THEN "call" ELSE "fork"

\* The place after a step of task t.
Then(t, place) == IF prog[t] = "any" THEN "any" ELSE place

Fork(t) ==
    /\ Free(t) /\ upc[t] \in {"any", "fork"}
    /\ AddTask(t)
    /\ \E p \in ChildProgram(prog[t]) :
          /\ prog' = [prog EXCEPT ![NewTask] = p]
          /\ upc' = [upc EXCEPT ![t] = Then(t, "call"), ![NewTask] = FirstStep(p)]
    /\ kid' = [kid EXCEPT ![t] = IF prog[t] = "any" THEN 0 ELSE NewTask]
    /\ quiet' = FALSE
    /\ UNCHANGED <<callVars, report>>

ForkFails(t) ==
    /\ Free(t) /\ upc[t] = "fork"
    /\ upc' = [upc EXCEPT ![t] = "call"]
    /\ UNCHANGED <<taskVars, prog, kid, callVars, report, quiet>>

\* waitpid for the child that fork returned; any child for other programs.
Wait(t) ==
    /\ Free(t) /\ upc[t] \in {"any", "wait"}
    /\ \E c \in Range(children[t]) : (upc[t] = "wait" => c = kid[t]) /\ ReleaseTask(c, "zombie")
    /\ upc' = [upc EXCEPT ![t] = Then(t, "exit")]
    /\ quiet' = FALSE
    /\ UNCHANGED <<prog, kid, callVars, report>>

\* Mutant of WaitFails: the parent does not wait for its child.
WaitFailsAlways(t) ==
    /\ Free(t) /\ upc[t] = "wait"
    /\ upc' = [upc EXCEPT ![t] = "exit"]
    /\ UNCHANGED <<taskVars, prog, kid, callVars, report, quiet>>

\* waitpid(-1) after a fork that failed: the process has no children.
WaitFails(t) ==
    /\ Free(t) /\ upc[t] = "wait" /\ kid[t] = 0
    /\ upc' = [upc EXCEPT ![t] = "exit"]
    /\ UNCHANGED <<taskVars, prog, kid, callVars, report, quiet>>

Exit(t) ==
    /\ Free(t) /\ upc[t] \in {"any", "exit"}
    /\ BeginExit(t)
    /\ UNCHANGED <<programVars, callVars, report, quiet>>

Program(t) == Fork(t) \/ ForkFails(t) \/ Wait(t) \/ WaitFails(t) \/ Exit(t)

\* The kernel's part of exit.
Adopt(t) ==
    /\ AdoptFirst(t)
    /\ quiet' = FALSE
    /\ UNCHANGED <<programVars, callVars, report>>

FinishAdoption(t) ==
    /\ EndAdoption(t)
    /\ UNCHANGED <<programVars, callVars, report, quiet>>

Notify(t) ==
    /\ NotifyParent(t, parent[t] \in Ignoring /\ prog[parent[t]] = "any")
    /\ UNCHANGED <<programVars, callVars, report, quiet>>

Release(t) ==
    /\ ReleaseTask(t, "dead")
    /\ quiet' = FALSE
    /\ UNCHANGED <<programVars, callVars, report>>

Exiting(t) == Adopt(t) \/ FinishAdoption(t) \/ Notify(t) \/ Release(t)
-----------------------------------------------------------------------------
(* new_sys_cs3013_syscall2 *)
Call(t) ==
    /\ pc = "idle" /\ Free(t) /\ t # init /\ upc[t] \in {"any", "call"}
    /\ current' = t /\ pc' = "children" /\ head' = -t
    /\ tmp_st1' = Forever /\ tmp_pid1' = -1 /\ tmp_st2' = Forever /\ tmp_pid2' = -1
    /\ parent_pid' = parent[t]
    /\ quiet' = TRUE
    /\ UNCHANGED <<taskVars, programVars, counted, youngest_child, report, strays>>

Forward == {"children", "siblings"}
OfChildren == {"children", "children_prev"}
OfSiblings == {"siblings", "siblings_prev"}

\* The node the loop comes to, and the node at which it ends.
NextNode == Follow(head, IF pc \in Forward THEN 1 ELSE -1)
EndNode == IF pc \in OfChildren THEN -current ELSE current

\* Mutant of VisitChild: the test for the end of the loop is missing.
VisitChildOrHead ==
    LET task == NextNode
    IN  /\ pc \in OfChildren
        /\ head' = task
        /\ counted' = [counted EXCEPT ![task] = IF @ < Many THEN @ + 1 ELSE @]
        /\ IF tmp_st1 > StartTime(task)
              THEN tmp_st1' = StartTime(task) /\ tmp_pid1' = task
              ELSE UNCHANGED <<tmp_st1, tmp_pid1>>
        /\ UNCHANGED <<taskVars, programVars, current, pc, tmp_st2, tmp_pid2, parent_pid,
                       youngest_child, report, quiet, strays>>

\* The loop body for a child.
VisitChild ==
    LET task == NextNode
    IN  /\ pc \in OfChildren /\ task # EndNode
        /\ head' = task
        /\ counted' = [counted EXCEPT ![task] = IF @ < Many THEN @ + 1 ELSE @]
        /\ IF tmp_st1 > StartTime(task)
              THEN tmp_st1' = StartTime(task) /\ tmp_pid1' = task
              ELSE UNCHANGED <<tmp_st1, tmp_pid1>>
        /\ UNCHANGED <<taskVars, programVars, current, pc, tmp_st2, tmp_pid2, parent_pid,
                       youngest_child, report, quiet, strays>>

\* Mutant of ChildrenAgain: the second loop begins at the last child.
ChildrenAgainPastLast ==
    /\ pc = "children" /\ NextNode = EndNode
    /\ pc' = "children_prev" /\ head' = Follow(-current, -1)
    /\ UNCHANGED <<taskVars, programVars, current, tmpVars, counted, parent_pid,
                   youngest_child, report, quiet, strays>>

ChildrenAgain ==
    /\ pc = "children" /\ NextNode = EndNode
    /\ pc' = "children_prev" /\ head' = -current
    /\ UNCHANGED <<taskVars, programVars, current, tmpVars, counted, parent_pid,
                   youngest_child, report, quiet, strays>>

\* Mutant of ChildrenDone: the variables are not reset.
ChildrenDoneNoReset ==
    /\ pc = "children_prev" /\ NextNode = EndNode
    /\ pc' = "siblings" /\ head' = current
    /\ youngest_child' = tmp_pid1 /\ UNCHANGED <<tmp_st1, tmp_pid1>>
    /\ UNCHANGED <<taskVars, programVars, current, tmp_st2, tmp_pid2, parent_pid, counted,
                   report, quiet, strays>>

\* Mutant of ChildrenDone: the next loop begins in the list of the children.
ChildrenDoneAtChildren ==
    /\ pc = "children_prev" /\ NextNode = EndNode
    /\ pc' = "siblings" /\ head' = -current
    /\ youngest_child' = tmp_pid1 /\ tmp_st1' = 0 /\ tmp_pid1' = -1
    /\ UNCHANGED <<taskVars, programVars, current, tmp_st2, tmp_pid2, parent_pid, counted,
                   report, quiet, strays>>

ChildrenDone ==
    /\ pc = "children_prev" /\ NextNode = EndNode
    /\ pc' = "siblings" /\ head' = current
    /\ youngest_child' = tmp_pid1 /\ tmp_st1' = 0 /\ tmp_pid1' = -1
    /\ UNCHANGED <<taskVars, programVars, current, tmp_st2, tmp_pid2, parent_pid, counted,
                   report, quiet, strays>>

\* The loop body for an entry with this start time and pid: the time is compared as a
\* signed number with that of the caller, and converted for the other comparison.
Unsigned(n) == IF n < 0 THEN n + Forever + 1 ELSE n
Compare(time_ns, pid) ==
    IF time_ns < StartTime(current) /\ tmp_st1 < Unsigned(time_ns)
       THEN tmp_st1' = Unsigned(time_ns) /\ tmp_pid1' = pid /\ UNCHANGED <<tmp_st2, tmp_pid2>>
    ELSE IF time_ns > StartTime(current) /\ tmp_st2 > Unsigned(time_ns)
       THEN tmp_st2' = Unsigned(time_ns) /\ tmp_pid2' = pid /\ UNCHANGED <<tmp_st1, tmp_pid1>>
    ELSE UNCHANGED tmpVars

VisitSibling ==
    LET task == NextNode
    IN  /\ pc \in OfSiblings /\ task # EndNode /\ task > 0
        /\ head' = task
        /\ Compare(StartTime(task), task)
        /\ UNCHANGED <<taskVars, programVars, current, pc, counted, parent_pid,
                       youngest_child, report, quiet, strays>>

\* The ring of the siblings contains the head in the parent, which is no task:
\* list_entry yields a pointer in front of the parent.
VisitHead ==
    /\ pc \in OfSiblings /\ NextNode < 0
    /\ head' = NextNode
    /\ \E time_ns \in HeadTimes, pid \in HeadPids :
          Compare(time_ns, pid) /\ strays' = strays \cup {time_ns}
    /\ UNCHANGED <<taskVars, programVars, current, pc, counted, parent_pid, youngest_child,
                   report, quiet>>

\* Mutant of SiblingsAgain: the second loop begins at the head of the children.
SiblingsAgainAtChildren ==
    /\ pc = "siblings" /\ NextNode = EndNode
    /\ pc' = "siblings_prev" /\ head' = -current
    /\ UNCHANGED <<taskVars, programVars, current, tmpVars, counted, parent_pid,
                   youngest_child, report, quiet, strays>>

SiblingsAgain ==
    /\ pc = "siblings" /\ NextNode = EndNode
    /\ pc' = "siblings_prev" /\ head' = current
    /\ UNCHANGED <<taskVars, programVars, current, tmpVars, counted, parent_pid,
                   youngest_child, report, quiet, strays>>

\* A pid of 0 for the older sibling is taken for none.
SiblingsDone ==
    /\ pc = "siblings_prev" /\ NextNode = EndNode
    /\ pc' = "copy" /\ head' = current
    /\ tmp_pid1' = IF tmp_pid1 = 0 THEN -1 ELSE tmp_pid1
    /\ UNCHANGED <<taskVars, programVars, current, tmp_st1, tmp_st2, tmp_pid2, counted,
                   parent_pid, youngest_child, report, quiet, strays>>

\* The copy fails for a pointer that is not valid; the grandchild of testnull.c
\* passes one.  The programs print without looking at the result.
copy_to_user ==
    LET p == prog[current]
    IN  /\ pc = "copy"
        /\ \E valid \in IF p = "grandchild" THEN BOOLEAN ELSE {TRUE} :
              report' = [report EXCEPT ![current] =
                  IF valid /\ p # "any"
                     THEN [parent_pid |-> parent_pid, youngest_child |-> youngest_child]
                     ELSE @]
        /\ upc' = [upc EXCEPT ![current] = Then(current, IF p = "grandchild" THEN "exit" ELSE "wait")]
        /\ EndCall
        /\ quiet' = FALSE
        /\ UNCHANGED <<taskVars, prog, kid>>

Step ==
    \/ VisitChild \/ ChildrenAgain \/ ChildrenDone
    \/ VisitSibling \/ VisitHead \/ SiblingsAgain \/ SiblingsDone \/ copy_to_user

Next == Step \/ \E t \in Tasks : Program(t) \/ Call(t) \/ Exiting(t)

Spec == Init /\ [][Next]_vars

\* A call that has begun keeps running, and a task that holds the lock keeps handing
\* over its children.
FairSpec == /\ Spec
            /\ WF_vars(Step) /\ WF_vars(\E t \in Tasks : Adopt(t) \/ FinishAdoption(t))
-----------------------------------------------------------------------------
Pids == Tasks \cup HeadPids \cup {-1}
Times == 0 .. Forever

TypeOK ==
    /\ TasksTypeOK
    /\ prog \in [Tasks -> {"any", "parent", "child", "grandchild"}]
    /\ upc \in [Tasks -> {"any", "fork", "call", "wait", "exit"}]
    /\ kid \in [Tasks -> Tasks \cup {0}]
    /\ current \in Tasks \cup {0}
    /\ pc \in {"idle", "copy"} \cup OfChildren \cup OfSiblings
    /\ head \in -N .. N
    /\ tmp_st1 \in Times /\ tmp_st2 \in Times /\ tmp_pid1 \in Pids /\ tmp_pid2 \in Pids
    /\ parent_pid \in Tasks \cup {0} /\ youngest_child \in Tasks \cup {-1}
    /\ counted \in [Tasks -> 0 .. Many]
    /\ report \in [Tasks -> [parent_pid : Tasks, youngest_child : Tasks \cup {-1}]
                            \cup {NoReport}]
    /\ quiet \in BOOLEAN /\ strays \subseteq HeadTimes
-----------------------------------------------------------------------------
Children == Range(children[current])
Siblings == Range(children[parent[current]]) \ {current}
Older == {s \in Siblings : s < current}
Younger == {s \in Siblings : s > current}

\* What the call has found when no list changed meanwhile.
Undisturbed == pc = "copy" /\ quiet

\* A child of the caller, or one that it had when the loop passed it.
OwnChild(t) == t \in Tasks \ {init} /\ state[t] # "new" /\ parent[t] = current

\* Only children are reported and have their times added up, also when tasks come and
\* go during the walk; when no list changes, a child is reported if there is one, and
\* the times of all children are added up, of each equally often.
ChildrenReported ==
    /\ \A t \in Tasks : counted[t] > 0 => OwnChild(t)
    /\ pc \in OfSiblings \cup {"copy"} /\ youngest_child # -1 => OwnChild(youngest_child)
    /\ Undisturbed =>
          /\ IF Children = {} THEN youngest_child = -1 ELSE youngest_child \in Children
          /\ \A t \in Children : counted[t] > 0
          /\ \A t, u \in Children : counted[t] = counted[u]

\* What the comments at intercept.c:13, 21 and 22 say of the record: the pid of the
\* youngest child, and the time of the children.  With two children neither is so: the
\* one that started first is kept, and both loops add the times.
ChildrenAsDocumented ==
    Undisturbed /\ Cardinality(Children) > 1 =>
        /\ youngest_child = Max(Children)
        /\ \A t \in Children : counted[t] = 1

\* The time at which a sibling started that is to be found, or the bound of the
\* search; a list head with a time in between, or the same, is taken for a sibling, and
\* one with a negative time for an older one, for it is converted to a large number.
OlderTime == IF Older = {} THEN 0 ELSE StartTime(Max(Older))
YoungerTime == IF Younger = {} THEN Forever ELSE StartTime(Min(Younger))
HeadInBetween ==
    \E time \in strays : \/ time < 0
                         \/ /\ 0 < time /\ time # StartTime(current)
                            /\ OlderTime <= time /\ time <= YoungerTime

\* The next older and the next younger sibling are found in the order of their
\* start, whatever their order in the list, unless a list head comes between.
SiblingsReported ==
    Undisturbed /\ ~HeadInBetween =>
        /\ tmp_pid1 = IF Older = {} THEN -1 ELSE Max(Older)
        /\ tmp_pid2 = IF Younger = {} THEN -1 ELSE Min(Younger)

InLoop == pc \in OfChildren \cup OfSiblings

\* The task whose list of children a node belongs to.
ListOf(n) == IF n < 0 THEN -n ELSE parent[n]

\* While a task hands over its children, its list and that of init hold the tasks that
\* were in one list when it began.
BeingJoined(p, q) == \E t \in Tasks : state[t] = "adopting" /\ {p, q} = {t, init}

\* The walk is not in the list in which it would come to its end.
Stranded == InLoop /\ EndNode \notin Range(RingOf(head))

\* Also with tasks that fork, exit, are adopted and are waited for during the walk, it
\* never runs through the list of tasks that have nothing to do with the caller: it
\* leaves the caller's list when its node is linked to itself, for the task was
\* released or the parent has lost its children, and as long as the caller and the task
\* it has reached are on the two sides of an adoption.
InOwnList ==
    Stranded => Len(RingOf(head)) = 1 \/ BeingJoined(ListOf(head), ListOf(EndNode))

\* The walk never comes to its end.
Lost == Stranded /\ Len(RingOf(head)) = 1

\* The call returns, unless the walk is lost; an adoption only delays it.
ReturnsUnlessLost == InLoop ~> (pc = "idle" \/ Lost)

\* The output of test.c (testoutput.txt): parent and child report the child they
\* have forked, and child and grandchild the parent that has forked them,
\* whatever other processes do.
TestOutput ==
    \A t \in Tasks : report[t] # NoReport =>
        /\ prog[t] \in {"parent", "child"} =>
              report[t].youngest_child = IF kid[t] = 0 THEN -1 ELSE kid[t]
        /\ prog[t] \in {"child", "grandchild"} => kid[report[t].parent_pid] = t
-----------------------------------------------------------------------------
(* The inductive invariant. *)

\* The children of a process of test.c before it has waited.
OnlyChild(t) == IF kid[t] = 0 THEN << >> ELSE << kid[t] >>

\* A process of test.c forks once, and waits for that child before it exits; so child
\* and grandchild are never adopted, and do not end without being waited for.
ForksOnce(t) ==
    /\ state[t] # "new" /\ upc[t] # "any"
    /\ upc[t] # "exit" => Alive(t) /\ children[t] = OnlyChild(t)
    /\ upc[t] = "exit" => children[t] = << >>
    /\ upc[t] = "fork" => kid[t] = 0
    /\ upc[t] \in {"fork", "call"} => report[t] = NoReport
    /\ prog[t] = "grandchild" => kid[t] = 0 /\ upc[t] \in {"call", "exit"}
TestPrograms ==
    /\ prog[init] = "any"
    /\ \A t \in Tasks : prog[t] = "any" => upc[t] = "any" /\ kid[t] = 0 /\ report[t] = NoReport
    /\ \A t \in Tasks : prog[t] # "any" => ForksOnce(t)
    /\ \A t \in Tasks : prog[t] \in {"child", "grandchild"} /\ Linked(t) => kid[parent[t]] = t
    /\ \A t \in Tasks : state[t] = "dead" => prog[parent[t]] = "any"

\* Where a walk can be: at the head of the list or at an entry of it, at an entry that
\* has been released, or at the head of a parent that has lost its children; and in the
\* other list as long as the two are being joined.
AtChildren == head = -current \/ OwnChild(head)
SameList(p, q) == p = q \/ BeingJoined(p, q)
NearSibling(n, c) ==
    \/ n \in Tasks /\ (state[n] = "gone" \/ (Linked(n) /\ SameList(parent[n], parent[c])))
    \/ -n \in Tasks /\ (state[-n] \in Ended \/ SameList(-n, parent[c]))
AtSiblings == NearSibling(head, current)

\* The caller stays alive and in its program while the call runs; a process of test.c
\* finds its only child in the first loop.
Calling ==
    /\ pc = "idle" => NoCall
    /\ pc # "idle" => /\ current \in Tasks \ {init} /\ Alive(current)
                      /\ upc[current] \in {"any", "call"}
                      /\ parent_pid \in Tasks
                      /\ prog[current] \in {"child", "grandchild"} => kid[parent_pid] = current
    /\ \A t \in Tasks : counted[t] > 0 => OwnChild(t)
    /\ pc \in OfChildren => AtChildren /\ (tmp_pid1 = -1 \/ OwnChild(tmp_pid1))
    /\ pc \in OfSiblings => AtSiblings
    /\ pc \in OfSiblings \cup {"copy"} => youngest_child = -1 \/ OwnChild(youngest_child)
    /\ pc = "children" /\ head = -current => tmp_st1 = Forever /\ tmp_pid1 = -1
    /\ pc # "idle" /\ prog[current] # "any" =>
          LET found == IF kid[current] = 0 THEN -1 ELSE kid[current]
          IN  /\ pc \in OfChildren => head = -current \/ (head = kid[current] /\ tmp_pid1 = found)
              /\ pc = "children_prev" => tmp_pid1 = found
              /\ pc \in OfSiblings \cup {"copy"} => youngest_child = found

\* The lists that new_sys_cs3013_syscall2 walks through, the places it can be in when
\* tasks fork, exit and are waited for during the walk, and the processes of test.c.
Inv == TypeOK /\ Lists /\ TestPrograms /\ Calling /\ TestOutput

\* The loop goes round its ring: the node that it reaches after m steps, and the nodes
\* that it has passed by then.
Direction == IF pc \in Forward THEN 1 ELSE -1
Reached(m) ==
    LET ring == RingOf(EndNode)
    IN  ring[((Place(ring, EndNode) - 1 + m * Direction) % Len(ring)) + 1]
Passed(m) == {Reached(j) : j \in 1 .. m}

\* The oldest task of S has been found.
Oldest(S) ==
    IF S = {} THEN tmp_st1 = Forever /\ tmp_pid1 = -1
    ELSE /\ tmp_pid1 \in S /\ tmp_st1 = StartTime(tmp_pid1)
         /\ \A s \in S : tmp_pid1 <= s

\* The nearest of the siblings in S in both directions have been found, or a list head
\* that is nearer.
Nearest(S) ==
    /\ \A s \in S : /\ s < current => StartTime(s) <= tmp_st1
                    /\ s > current => StartTime(s) >= tmp_st2
    /\ \/ tmp_st1 = 0 /\ tmp_pid1 = -1
       \/ \E time \in strays : /\ time # 0 /\ time < StartTime(current)
                               /\ tmp_st1 = Unsigned(time)
       \/ tmp_pid1 \in Older /\ tmp_st1 = StartTime(tmp_pid1)
    /\ \/ tmp_st2 = Forever /\ tmp_pid2 = -1
       \/ tmp_st2 \in strays /\ StartTime(current) < tmp_st2
       \/ tmp_pid2 \in Younger /\ tmp_st2 = StartTime(tmp_pid2)

\* An undisturbed walk, m steps after the beginning of the loop.
Progress(m) ==
    /\ head = Reached(m)
    /\ pc = "children" => /\ Oldest(Passed(m))
                          /\ counted = [t \in Tasks |-> IF t \in Passed(m) THEN 1 ELSE 0]
    /\ pc = "children_prev" =>
          /\ Oldest(Children)
          /\ counted = [t \in Tasks |-> IF t \in Passed(m) THEN 2
                                        ELSE IF t \in Children THEN 1 ELSE 0]
    /\ pc = "siblings" => Nearest(Passed(m) \cap Siblings)
    /\ pc = "siblings_prev" => Nearest(Siblings)

Walk ==
    quiet => /\ InLoop => \E m \in 0 .. Len(RingOf(EndNode)) - 1 : Progress(m)
             /\ pc \in OfSiblings \cup {"copy"} =>
                   /\ youngest_child = IF Children = {} THEN -1 ELSE Min(Children)
                   /\ counted = [t \in Tasks |-> IF t \in Children THEN 2 ELSE 0]
             /\ pc \in OfChildren => tmp_st2 = Forever /\ tmp_pid2 = -1
             /\ pc = "copy" => Nearest(Siblings)

\* And what a walk that nobody disturbs has found after each of its steps.
FullInv == Inv /\ Walk
=============================================================================
