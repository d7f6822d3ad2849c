------------------------------- MODULE Shell -------------------------------
(***************************************************************************)
(* project1: doit, a shell with background jobs (shellMode), which also    *)
(* runs the single command given as its arguments (commandExecution).      *)
(*                                                                         *)
(* The environment is the user, who types lines, the kernel, which picks   *)
(* process ids and keeps a finished child as a zombie until it is waited   *)
(* for, and the commands, which finish at any moment.  A pid is free again *)
(* once its process was waited for, so the kernel may hand it out again.   *)
(*                                                                         *)
(* A line is one of the kinds the code tells apart; an ampersand in the    *)
(* last column has been taken into account ("cd &" is a "cd", "&" a blank  *)
(* line, "exit &" the background command /bin/exit).  Lines have at most   *)
(* four words: argvNew holds no more.  What cd does to the working         *)
(* directory is left out.                                                  *)
(***************************************************************************)
EXTENDS Naturals, FiniteSets, SequencesExt

CONSTANTS Pids,     \* the process ids
          NoPid     \* an int that is no process id

ASSUME ShellAssumption == IsFiniteSet(Pids) /\ NoPid \notin Pids

Lines == {"empty", "blank", "exit", "cd", "jobs", "foreground", "background"}

VARIABLES pc,          \* where the shell is
          command,     \* the line being executed, or the command in argv
          processes,   \* the pids of the jobs, in the order of the vector
          i,           \* index (from 1) of the job checkFinishedProcesses looks at
          pid,         \* the child that was forked last
          child,       \* the kernel's view: no child, running, or a zombie
          background   \* children started in the background, not yet waited for

vars == <<pc, command, processes, i, pid, child, background>>

Unreaped == {p \in Pids : child[p] # "none"}

Init ==
    /\ \/ pc = "prompt" /\ command = "blank"
       \/ pc = "line" /\ command = "argv"
    /\ processes = <<>> /\ i = 0 /\ pid = NoPid
    /\ child = [p \in Pids |-> "none"] /\ background = {}
-----------------------------------------------------------------------------
(* shellMode *)
ReadLine(l) ==
    /\ pc = "prompt"
    /\ pc' = "line" /\ command' = l
    /\ UNCHANGED <<processes, i, pid, child, background>>

\* A line is empty also at the end of the input: inStr.at(-1) throws, and
\* nobody catches it.
EmptyLine ==
    /\ pc = "line" /\ command = "empty"
    /\ pc' = "aborted"
    /\ UNCHANGED <<command, processes, i, pid, child, background>>

\* shellLineSetup finds no word.
BlankLine ==
    /\ pc = "line" /\ command = "blank"
    /\ pc' = "prompt"
    /\ UNCHANGED <<command, processes, i, pid, child, background>>

change_dir ==
    /\ pc = "line" /\ command = "cd"
    /\ pc' = "prompt"
    /\ UNCHANGED <<command, processes, i, pid, child, background>>

\* Prints all of processes.
printJobs ==
    /\ pc = "line" /\ command = "jobs"
    /\ pc' = "prompt"
    /\ UNCHANGED <<command, processes, i, pid, child, background>>

\* while(processes.size() > 0) checkFinishedProcesses(...); return 0
ExitLoop == IF processes = <<>> THEN pc' = "ended" /\ UNCHANGED i
                                ELSE pc' = "check" /\ i' = Len(processes)

\* Mutant of Exit: the jobs are not waited for.
ExitAtOnce ==
    /\ pc = "line" /\ command = "exit"
    /\ pc' = "ended"
    /\ UNCHANGED <<command, processes, i, pid, child, background>>

Exit ==
    /\ pc = "line" /\ command = "exit"
    /\ ExitLoop
    /\ UNCHANGED <<command, processes, pid, child, background>>

\* The new child runs the command, or reports that there is none and exits.
Fork(p) ==
    /\ pc = "line" /\ command \in {"foreground", "background", "argv"}
    /\ child[p] = "none"
    /\ child' = [child EXCEPT ![p] = "running"]
    /\ pid' = p
    /\ background' = IF command = "background" THEN background \cup {p} ELSE background
    /\ IF command = "argv" THEN pc' = "wait" /\ UNCHANGED i
                           ELSE pc' = "check" /\ i' = Len(processes)
    /\ UNCHANGED <<command, processes>>

ForkFails ==
    /\ pc = "line" /\ command \in {"foreground", "background", "argv"}
    /\ pc' = "failed"
    /\ UNCHANGED <<command, processes, i, pid, child, background>>
-----------------------------------------------------------------------------
(* The rest of the line, after fork or in the loop of exit. *)

\* wait or waitpid returns p.
Reap(p) ==
    /\ child' = [child EXCEPT ![p] = "none"]
    /\ background' = background \ {p}

\* Mutants of checkFinishedProcess: the entry stays in the vector; the wrong
\* entry is erased; the first entry is not looked at.
CheckKeepsEntry ==
    /\ pc = "check" /\ i > 0
    /\ IF child[processes[i]] = "zombie" THEN Reap(processes[i])
       ELSE UNCHANGED <<child, background>>
    /\ i' = i - 1
    /\ UNCHANGED <<pc, command, processes, pid>>

CheckErasesLast ==
    /\ pc = "check" /\ i > 0
    /\ IF child[processes[i]] = "zombie"
          THEN Reap(processes[i]) /\ processes' = Front(processes)
          ELSE UNCHANGED <<processes, child, background>>
    /\ i' = i - 1
    /\ UNCHANGED <<pc, command, pid>>

CheckNotFirst ==
    /\ pc = "check" /\ i > 0
    /\ IF i > 1 /\ child[processes[i]] = "zombie"
          THEN Reap(processes[i]) /\ processes' = RemoveAt(processes, i)
          ELSE UNCHANGED <<processes, child, background>>
    /\ i' = i - 1
    /\ UNCHANGED <<pc, command, pid>>

\* One iteration of the loop of checkFinishedProcesses.  waitpid with WNOHANG
\* returns the pid of a zombie, 0 for a running child and -1 for a process that
\* was waited for before; the entry is erased in the first case only.
checkFinishedProcess ==
    /\ pc = "check" /\ i > 0
    /\ IF child[processes[i]] = "zombie"
          THEN Reap(processes[i]) /\ processes' = RemoveAt(processes, i)
          ELSE UNCHANGED <<processes, child, background>>
    /\ i' = i - 1
    /\ UNCHANGED <<pc, command, pid>>

ExitChecked ==
    /\ pc = "check" /\ i = 0 /\ command = "exit"
    /\ ExitLoop
    /\ UNCHANGED <<command, processes, pid, child, background>>

\* Mutant of BackgroundChecked: process.pid is never assigned.
BackgroundCheckedNoPid ==
    /\ pc = "check" /\ i = 0 /\ command = "background"
    /\ processes' = Append(processes, NoPid)
    /\ pc' = "prompt"
    /\ UNCHANGED <<command, i, pid, child, background>>

BackgroundChecked ==
    /\ pc = "check" /\ i = 0 /\ command = "background"
    /\ processes' = Append(processes, pid)
    /\ pc' = "prompt"
    /\ UNCHANGED <<command, i, pid, child, background>>

ForegroundChecked ==
    /\ pc = "check" /\ i = 0 /\ command = "foreground"
    /\ pc' = "wait"
    /\ UNCHANGED <<command, processes, i, pid, child, background>>

\* Mutants of Wait: it does not block (WNOHANG); while(wait(0) != pid).
WaitNoHang ==
    /\ pc = "wait"
    /\ UNCHANGED <<child, background>>
    /\ pc' = IF command = "argv" THEN "ended" ELSE "prompt"
    /\ UNCHANGED <<command, processes, i, pid>>

WaitForOwn ==
    /\ pc = "wait"
    /\ \E p \in Pids :
         /\ child[p] = "zombie" /\ Reap(p)
         /\ pc' = IF p # pid THEN "wait"
                  ELSE IF command = "argv" THEN "ended" ELSE "prompt"
    /\ UNCHANGED <<command, processes, i, pid>>

\* wait(0) blocks until some child is a zombie, whichever it is, and waits for
\* that one; with no child at all it returns at once.
Wait ==
    /\ pc = "wait"
    /\ IF Unreaped = {} THEN UNCHANGED <<child, background>>
       ELSE \E p \in Pids : child[p] = "zombie" /\ Reap(p)
    /\ pc' = IF command = "argv" THEN "ended" ELSE "prompt"
    /\ UNCHANGED <<command, processes, i, pid>>
-----------------------------------------------------------------------------
ChildExits(p) ==
    /\ child[p] = "running"
    /\ child' = [child EXCEPT ![p] = "zombie"]
    /\ UNCHANGED <<pc, command, processes, i, pid, background>>

Execute ==
    \/ EmptyLine \/ BlankLine \/ change_dir \/ printJobs \/ Exit
    \/ \E p \in Pids : Fork(p)
    \/ ForkFails \/ checkFinishedProcess \/ ExitChecked \/ BackgroundChecked
    \/ ForegroundChecked \/ Wait

Next ==
    \/ \E l \in Lines : ReadLine(l)
    \/ Execute
    \/ \E p \in Pids : ChildExits(p)

Spec == Init /\ [][Next]_vars

\* The shell keeps executing the line it has read, and every command finishes.
\* The user need not type anything.
FairSpec == Spec /\ WF_vars(Execute) /\ \A p \in Pids : WF_vars(ChildExits(p))
-----------------------------------------------------------------------------
TypeOK ==
    /\ pc \in {"prompt", "line", "check", "wait", "ended", "failed", "aborted"}
    /\ command \in Lines \cup {"argv"}
    /\ processes \in Seq(Pids)
    /\ i \in 0 .. Len(processes)
    /\ pid \in Pids \cup {NoPid}
    /\ child \in [Pids -> {"none", "running", "zombie"}]
    /\ background \in SUBSET Pids

\* A child was forked for the current line and is not accounted for yet.
InFlight == pc \in {"check", "wait"} /\ command # "exit"

\* As many entries in the vector as there are children that were not waited
\* for, not counting the one forked for the current line.  Which children they
\* are may differ: wait(0) takes any of them.
JobsCountChildren ==
    Cardinality(Unreaped) = Len(processes) + (IF InFlight THEN 1 ELSE 0)

\* "check that everything is closed before exiting": when doit returns
\* normally, it has waited for every child it ever started.
ExitClosesEverything == pc = "ended" => Unreaped = {}

\* A background job that was not waited for is listed by jobs, and exit keeps
\* waiting for it.
NoLostJob == pc = "prompt" => background \subseteq Range(processes)

\* The code assumes that its wait(0) reports the child it has just forked; it
\* does when the vector is empty.
ForegroundAlone ==
    [][pc = "wait" /\ pc' # "wait" /\ processes = <<>> => child'[pid] = "none"]_vars

\* Every line but exit is done with after a while.
PromptReturns ==
    pc \in {"line", "check", "wait"} /\ command # "exit"
        ~> pc \in {"prompt", "ended", "failed", "aborted"}

\* Every entry of the vector is a child of its own: no entry is stale.
OwnChildren == IsInjective(processes) /\ Range(processes) \subseteq Unreaped

\* exit ends the shell if no entry of the vector is stale and every command ends.
ExitEndsUnlessStale ==
    pc \in {"line", "check"} /\ command = "exit" /\ OwnChildren ~> pc = "ended"
-----------------------------------------------------------------------------
(* The inductive invariant. *)

\* Which commands lead where; the single command of argv leaves the vector empty.
Control ==
    /\ pc = "check" => command \in {"exit", "foreground", "background"}
    /\ pc = "wait" => command \in {"foreground", "argv"}
    /\ command = "argv" => processes = <<>> /\ pc # "prompt"
    /\ pc = "ended" => processes = <<>>
    /\ InFlight => pid \in Pids

\* A background job is in the vector, or is the child forked for this line.
JobsKept ==
    \A p \in background :
        \/ p \in Range(processes)
        \/ pc = "check" /\ command = "background" /\ p = pid

\* checkFinishedProcesses stays inside of the vector it erases from, the vector has an
\* entry for every child not waited for, and every background job is in it.
Inv == TypeOK /\ Control /\ JobsCountChildren /\ JobsKept
-----------------------------------------------------------------------------
(* What the comments say. *)

\* "check that everything is closed before exiting": exit ends the shell, given
\* that every command ends.
ExitEnds == pc = "line" /\ command = "exit" ~> pc = "ended"
=============================================================================
