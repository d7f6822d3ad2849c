---------------------------- MODULE ShellProofs ----------------------------
(***************************************************************************)
(* Proofs about the shell, for any finite set of process ids.              *)
(***************************************************************************)
EXTENDS Shell, FiniteSetTheorems, TLAPS

\* Erasing an entry of the vector keeps all the others.
LEMMA RemoveAtFacts ==
  ASSUME NEW S, NEW s \in Seq(S), NEW k \in 1 .. Len(s)
  PROVE  /\ RemoveAt(s, k) \in Seq(S)
         /\ Len(RemoveAt(s, k)) = Len(s) - 1
         /\ \A j \in 1 .. Len(s) : j # k => s[j] \in Range(RemoveAt(s, k))
  <1> DEFINE a == SubSeq(s, 1, k - 1)
             b == SubSeq(s, k + 1, Len(s))
             r == RemoveAt(s, k)
  <1>1. /\ a \in Seq(S) /\ Len(a) = k - 1
        /\ \A j \in 1 .. k - 1 : a[j] = s[j]
    OBVIOUS
  <1>2. /\ b \in Seq(S) /\ Len(b) = Len(s) - k
        /\ \A j \in 1 .. Len(s) - k : b[j] = s[k + j]
    OBVIOUS
  <1>3. r = a \o b
    BY DEF RemoveAt
  <1> HIDE DEF a, b, r
  <1>4. r \in Seq(S) /\ Len(r) = Len(s) - 1
    BY <1>1, <1>2, <1>3
  <1>5. ASSUME NEW j \in 1 .. Len(s), j # k
        PROVE  s[j] \in Range(r)
    <2>1. CASE j < k
      <3>1. r[j] = s[j] /\ j \in 1 .. Len(r)
        BY <2>1, <1>1, <1>2, <1>3, <1>4
      <3> QED
        BY <3>1, <1>4 DEF Range
    <2>2. CASE j > k
      <3>1. j - k \in 1 .. Len(s) - k /\ k + (j - k) = j
        BY <2>2
      <3>2. b[j - k] = s[j]
        BY <3>1, <1>2
      <3>3. r[j - 1] = b[(j - 1) - Len(a)]
        BY <2>2, <1>1, <1>2, <1>3
      <3>4. (j - 1) - Len(a) = j - k
        BY <1>1
      <3>5. r[j - 1] = s[j] /\ j - 1 \in 1 .. Len(r)
        BY <2>2, <3>2, <3>3, <3>4, <1>4
      <3> QED
        BY <3>5, <1>4 DEF Range
    <2> QED
      BY <2>1, <2>2, <1>5
  <1> QED
    BY <1>4, <1>5 DEF r

\* Waiting for a child takes exactly one from the children not waited for.
LEMMA ReapCounts ==
  ASSUME TypeOK, NEW p \in Unreaped, child' = [child EXCEPT ![p] = "none"]
  PROVE  /\ Cardinality(Unreaped)' = Cardinality(Unreaped) - 1
         /\ Unreaped' = Unreaped \ {p}
  <1>1. IsFiniteSet(Unreaped)
    BY FS_Subset, ShellAssumption DEF Unreaped
  <1>2. Unreaped' = Unreaped \ {p}
    BY DEF Unreaped, TypeOK
  <1> QED
    BY <1>1, <1>2, FS_RemoveElement

\* The initial state satisfies the inductive invariant, in both modes.
LEMMA InitInv == Init => Inv
  <1> SUFFICES ASSUME Init PROVE Inv
    OBVIOUS
  <1>1. TypeOK
    BY ShellAssumption DEF Init, TypeOK, Lines
  <1>2. Control
    BY DEF Init, Control, InFlight
  <1>3. JobsCountChildren
    <2>1. Unreaped = {}
      BY DEF Init, Unreaped
    <2> QED
      BY <2>1, FS_EmptySet DEF Init, JobsCountChildren, InFlight
  <1>4. JobsKept
    BY DEF Init, JobsKept
  <1> QED
    BY <1>1, <1>2, <1>3, <1>4 DEF Inv

\* Every step keeps the types; the one that needs care is the erasure in
\* checkFinishedProcesses, where the index must stay inside the vector.
LEMMA TypePreserved == Inv /\ [Next]_vars => TypeOK'
  <1> SUFFICES ASSUME TypeOK, Control, [Next]_vars PROVE TypeOK'
    BY DEF Inv
  <1> USE DEF TypeOK, Lines
  <1>1. ASSUME NEW l \in Lines, ReadLine(l) PROVE TypeOK'
    BY <1>1 DEF ReadLine
  <1>2. CASE EmptyLine
    BY <1>2 DEF EmptyLine
  <1>3. CASE BlankLine
    BY <1>3 DEF BlankLine
  <1>4. CASE change_dir
    BY <1>4 DEF change_dir
  <1>5. CASE printJobs
    BY <1>5 DEF printJobs
  <1>6. CASE Exit
    BY <1>6 DEF Exit, ExitLoop
  <1>7. ASSUME NEW p \in Pids, Fork(p) PROVE TypeOK'
    BY <1>7 DEF Fork
  <1>8. CASE ForkFails
    BY <1>8 DEF ForkFails
  <1>9. CASE checkFinishedProcess
    <2>1. i \in 1 .. Len(processes) /\ processes[i] \in Pids
      BY <1>9 DEF checkFinishedProcess
    <2>2. /\ RemoveAt(processes, i) \in Seq(Pids)
          /\ Len(RemoveAt(processes, i)) = Len(processes) - 1
      BY <2>1, RemoveAtFacts
    <2>3. CASE child[processes[i]] = "zombie"
      BY <1>9, <2>1, <2>2, <2>3 DEF checkFinishedProcess, Reap
    <2>4. CASE child[processes[i]] # "zombie"
      BY <1>9, <2>1, <2>4 DEF checkFinishedProcess
    <2> QED
      BY <2>3, <2>4
  <1>10. CASE ExitChecked
    BY <1>10 DEF ExitChecked, ExitLoop
  <1>11. CASE BackgroundChecked
    <2>1. pid \in Pids
      BY <1>11 DEF BackgroundChecked, Control, InFlight
    <2> QED
      BY <1>11, <2>1 DEF BackgroundChecked
  <1>12. CASE ForegroundChecked
    BY <1>12 DEF ForegroundChecked
  <1>13. CASE Wait
    BY <1>13 DEF Wait, Reap
  <1>14. ASSUME NEW p \in Pids, ChildExits(p) PROVE TypeOK'
    BY <1>14 DEF ChildExits
  <1>15. CASE UNCHANGED vars
    BY <1>15 DEF vars
  <1> HIDE DEF TypeOK
  <1> QED
    BY <1>1, <1>2, <1>3, <1>4, <1>5, <1>6, <1>7, <1>8, <1>9, <1>10, <1>11, <1>12,
       <1>13, <1>14, <1>15 DEF Next, Execute

\* The control part: what the commands lead to.
LEMMA ControlPreserved == Inv /\ [Next]_vars => Control'
  <1> SUFFICES ASSUME TypeOK, Control, [Next]_vars PROVE Control'
    BY DEF Inv
  <1> USE DEF Control, InFlight, Lines
  <1>1. ASSUME NEW l \in Lines, ReadLine(l) PROVE Control'
    BY <1>1 DEF ReadLine
  <1>2. CASE EmptyLine
    BY <1>2 DEF EmptyLine
  <1>3. CASE BlankLine
    BY <1>3 DEF BlankLine
  <1>4. CASE change_dir
    BY <1>4 DEF change_dir
  <1>5. CASE printJobs
    BY <1>5 DEF printJobs
  <1>6. CASE Exit
    BY <1>6 DEF Exit, ExitLoop
  <1>7. ASSUME NEW p \in Pids, Fork(p) PROVE Control'
    BY <1>7 DEF Fork
  <1>8. CASE ForkFails
    BY <1>8 DEF ForkFails
  <1>9. CASE checkFinishedProcess
    BY <1>9 DEF checkFinishedProcess
  <1>10. CASE ExitChecked
    BY <1>10 DEF ExitChecked, ExitLoop
  <1>11. CASE BackgroundChecked
    BY <1>11 DEF BackgroundChecked
  <1>12. CASE ForegroundChecked
    BY <1>12 DEF ForegroundChecked
  <1>13. CASE Wait
    BY <1>13 DEF Wait
  <1>14. ASSUME NEW p \in Pids, ChildExits(p) PROVE Control'
    BY <1>14 DEF ChildExits
  <1>15. CASE UNCHANGED vars
    BY <1>15 DEF vars
  <1> HIDE DEF Control
  <1> QED
    BY <1>1, <1>2, <1>3, <1>4, <1>5, <1>6, <1>7, <1>8, <1>9, <1>10, <1>11, <1>12,
       <1>13, <1>14, <1>15 DEF Next, Execute

\* The count: a fork adds a child and puts it in flight; checkFinishedProcesses
\* drops an entry with every child it waits for; pushing the job or wait(0)
\* ends the flight.  wait(0) never finds the shell without children.
LEMMA CountPreserved == Inv /\ [Next]_vars => JobsCountChildren'
  <1> SUFFICES ASSUME TypeOK, Control, JobsCountChildren, [Next]_vars
               PROVE  JobsCountChildren'
    BY DEF Inv
  <1>fin. IsFiniteSet(Unreaped) /\ Cardinality(Unreaped) \in Nat
    BY FS_Subset, FS_CardinalityType, ShellAssumption DEF Unreaped
  <1>len. Len(processes) \in Nat
    BY DEF TypeOK
  <1>1. ASSUME UNCHANGED <<child, processes>>, InFlight' = InFlight
        PROVE  JobsCountChildren'
    BY <1>1 DEF JobsCountChildren, Unreaped
  <1>2. ASSUME NEW l \in Lines, ReadLine(l) PROVE JobsCountChildren'
    BY <1>1, <1>2 DEF ReadLine, InFlight
  <1>3. CASE EmptyLine \/ BlankLine \/ change_dir \/ printJobs \/ ForkFails
    BY <1>1, <1>3 DEF EmptyLine, BlankLine, change_dir, printJobs, ForkFails, InFlight
  <1>4. CASE Exit \/ ExitChecked
    BY <1>1, <1>4 DEF Exit, ExitChecked, ExitLoop, InFlight
  <1>5. ASSUME NEW p \in Pids, Fork(p) PROVE JobsCountChildren'
    <2>1. Unreaped' = Unreaped \cup {p} /\ p \notin Unreaped
      BY <1>5 DEF Fork, Unreaped, TypeOK
    <2>2. Cardinality(Unreaped)' = Cardinality(Unreaped) + 1
      BY <2>1, <1>fin, FS_AddElement
    <2>3. InFlight' /\ ~InFlight /\ processes' = processes
      BY <1>5 DEF Fork, InFlight
    <2> QED
      BY <2>2, <2>3, <1>fin, <1>len DEF JobsCountChildren
  <1>6. CASE checkFinishedProcess
    <2>1. i \in 1 .. Len(processes) /\ processes[i] \in Pids
      BY <1>6 DEF checkFinishedProcess, TypeOK
    <2>2. InFlight' = InFlight
      BY <1>6 DEF checkFinishedProcess, InFlight
    <2>3. CASE child[processes[i]] = "zombie"
      <3>1. /\ child' = [child EXCEPT ![processes[i]] = "none"]
            /\ processes' = RemoveAt(processes, i)
        BY <1>6, <2>3 DEF checkFinishedProcess, Reap
      <3>2. processes[i] \in Unreaped
        BY <2>1, <2>3 DEF Unreaped
      <3>3. Cardinality(Unreaped)' = Cardinality(Unreaped) - 1
        BY <3>1, <3>2, ReapCounts
      <3>4. Len(processes') = Len(processes) - 1
        BY <2>1, <3>1, RemoveAtFacts DEF TypeOK
      <3> QED
        BY <2>2, <3>3, <3>4, <1>fin, <1>len DEF JobsCountChildren
    <2>4. CASE child[processes[i]] # "zombie"
      BY <1>1, <1>6, <2>2, <2>4 DEF checkFinishedProcess
    <2> QED
      BY <2>3, <2>4
  <1>7. CASE BackgroundChecked
    <2>1. InFlight /\ ~InFlight' /\ Unreaped' = Unreaped
      BY <1>7 DEF BackgroundChecked, InFlight, Unreaped
    <2>2. Len(processes') = Len(processes) + 1
      BY <1>7 DEF BackgroundChecked, TypeOK
    <2> QED
      BY <2>1, <2>2, <1>fin, <1>len DEF JobsCountChildren
  <1>8. CASE ForegroundChecked
    BY <1>1, <1>8 DEF ForegroundChecked, InFlight
  <1>9. CASE Wait
    <2>1. InFlight /\ ~InFlight' /\ processes' = processes
      BY <1>9 DEF Wait, InFlight, Control
    <2>2. Unreaped # {}
      BY <2>1, <1>fin, <1>len, FS_EmptySet DEF JobsCountChildren
    <2>3. PICK p \in Pids : child[p] = "zombie" /\ Reap(p)
      BY <1>9, <2>2 DEF Wait
    <2>4. p \in Unreaped
      BY <2>3 DEF Unreaped
    <2>5. Cardinality(Unreaped)' = Cardinality(Unreaped) - 1
      BY <2>3, <2>4, ReapCounts DEF Reap
    <2> QED
      BY <2>1, <2>5, <1>fin, <1>len DEF JobsCountChildren
  <1>10. ASSUME NEW p \in Pids, ChildExits(p) PROVE JobsCountChildren'
    <2>1. Unreaped' = Unreaped /\ InFlight' = InFlight /\ processes' = processes
      BY <1>10 DEF ChildExits, Unreaped, InFlight, TypeOK
    <2> QED
      BY <2>1 DEF JobsCountChildren
  <1>11. CASE UNCHANGED vars
    BY <1>1, <1>11 DEF vars, InFlight
  <1> QED
    BY <1>2, <1>3, <1>4, <1>5, <1>6, <1>7, <1>8, <1>9, <1>10, <1>11 DEF Next, Execute

\* A background job leaves the vector only when it has been waited for.
LEMMA KeptPreserved == Inv /\ [Next]_vars => JobsKept'
  <1> SUFFICES ASSUME TypeOK, Control, JobsKept, [Next]_vars PROVE JobsKept'
    BY DEF Inv
  <1>1. ASSUME UNCHANGED <<processes, background>>,
               ~(pc = "check" /\ command = "background")
        PROVE  JobsKept'
    BY <1>1 DEF JobsKept
  <1>2. ASSUME NEW l \in Lines, ReadLine(l) PROVE JobsKept'
    BY <1>1, <1>2 DEF ReadLine
  <1>3. CASE EmptyLine \/ BlankLine \/ change_dir \/ printJobs \/ ForkFails
    BY <1>1, <1>3 DEF EmptyLine, BlankLine, change_dir, printJobs, ForkFails
  <1>4. CASE Exit \/ ExitChecked
    BY <1>1, <1>4 DEF Exit, ExitChecked
  <1>5. ASSUME NEW p \in Pids, Fork(p) PROVE JobsKept'
    BY <1>5 DEF Fork, JobsKept
  <1>6. CASE checkFinishedProcess
    <2>1. i \in 1 .. Len(processes)
      BY <1>6 DEF checkFinishedProcess, TypeOK
    <2>2. CASE child[processes[i]] = "zombie"
      <3>1. /\ background' = background \ {processes[i]}
            /\ processes' = RemoveAt(processes, i)
            /\ UNCHANGED <<pc, command, pid>>
        BY <1>6, <2>2 DEF checkFinishedProcess, Reap
      <3> SUFFICES ASSUME NEW p \in background, p # processes[i], p \in Range(processes)
                   PROVE  p \in Range(processes')
        BY <3>1 DEF JobsKept
      <3>2. PICK j \in 1 .. Len(processes) : p = processes[j]
        BY DEF Range, TypeOK
      <3> QED
        BY <2>1, <3>1, <3>2, RemoveAtFacts DEF TypeOK
    <2>3. CASE child[processes[i]] # "zombie"
      BY <1>6, <2>3 DEF checkFinishedProcess, JobsKept
    <2> QED
      BY <2>2, <2>3
  <1>7. CASE BackgroundChecked
    <2>1. /\ processes' = Append(processes, pid) /\ background' = background
          /\ processes \in Seq(Pids) /\ pid \in Pids
      BY <1>7 DEF BackgroundChecked, TypeOK, Control, InFlight
    <2>2. \A j \in 1 .. Len(processes) : processes[j] = processes'[j]
      BY <2>1
    <2>3. DOMAIN processes' = 1 .. Len(processes) + 1 /\ processes'[Len(processes) + 1] = pid
      BY <2>1
    <2>4. \A p \in Range(processes) : p \in Range(processes')
      BY <2>1, <2>2, <2>3 DEF Range
    <2>5. pid \in Range(processes')
      BY <2>1, <2>3 DEF Range
    <2> QED
      BY <2>1, <2>4, <2>5 DEF JobsKept
  <1>8. CASE ForegroundChecked
    BY <1>1, <1>8 DEF ForegroundChecked
  <1>9. CASE Wait
    <2>1. background' \subseteq background /\ processes' = processes /\ pc # "check"
      BY <1>9 DEF Wait, Reap
    <2> QED
      BY <2>1 DEF JobsKept
  <1>10. ASSUME NEW p \in Pids, ChildExits(p) PROVE JobsKept'
    BY <1>10 DEF ChildExits, JobsKept
  <1>11. CASE UNCHANGED vars
    BY <1>11 DEF vars, JobsKept
  <1> QED
    BY <1>2, <1>3, <1>4, <1>5, <1>6, <1>7, <1>8, <1>9, <1>10, <1>11 DEF Next, Execute

\* The inductive invariant holds in every reachable state of doit.
THEOREM Invariance == Spec => []Inv
  <1>1. Inv /\ [Next]_vars => Inv'
    BY TypePreserved, ControlPreserved, CountPreserved, KeptPreserved DEF Inv
  <1> QED
    BY InitInv, <1>1, PTL DEF Spec

\* The variables keep their types: checkFinishedProcesses never indexes outside
\* of the vector, although it erases entries while it walks through it.
THEOREM TypeCorrect == Spec => []TypeOK
  <1>1. Inv => TypeOK
    BY DEF Inv
  <1> QED
    BY Invariance, <1>1, PTL

\* At every moment the vector has as many entries as there are children not
\* waited for, the one of the current line left aside.
THEOREM JobsCount == Spec => []JobsCountChildren
  <1>1. Inv => JobsCountChildren
    BY DEF Inv
  <1> QED
    BY Invariance, <1>1, PTL

\* doit leaves no child behind when it returns: exit's loop ends with an empty
\* vector, and the count turns that into an empty set of children, even though
\* entries may be stale.
THEOREM ExitCloses == Spec => []ExitClosesEverything
  <1>1. Inv => ExitClosesEverything
    <2> SUFFICES ASSUME Inv, pc = "ended" PROVE Unreaped = {}
      BY DEF ExitClosesEverything
    <2>1. IsFiniteSet(Unreaped)
      BY FS_Subset, ShellAssumption DEF Unreaped
    <2>2. Cardinality(Unreaped) = 0
      BY DEF Inv, Control, JobsCountChildren, InFlight
    <2> QED
      BY <2>1, <2>2, FS_EmptySet
  <1> QED
    BY Invariance, <1>1, PTL

\* No background job disappears from the vector before it was waited for.
THEOREM NoJobLost == Spec => []NoLostJob
  <1>1. Inv => NoLostJob
    BY DEF Inv, JobsKept, NoLostJob
  <1> QED
    BY Invariance, <1>1, PTL

\* A foreground command run while no job is in the vector is the one that
\* wait(0) waits for.
THEOREM ForegroundAloneHolds == Spec => ForegroundAlone
  <1> DEFINE A == pc = "wait" /\ pc' # "wait" /\ processes = <<>> => child'[pid] = "none"
  <1>1. Inv /\ [Next]_vars => [A]_vars
    <2> SUFFICES ASSUME Inv, Next, pc = "wait", pc' # "wait", processes = <<>>
                 PROVE  child'[pid] = "none"
      BY DEF A
    <2>1. Wait
      BY DEF Next, Execute, ReadLine, EmptyLine, BlankLine, change_dir, printJobs, Exit,
             Fork, ForkFails, checkFinishedProcess, ExitChecked, BackgroundChecked,
             ForegroundChecked, ChildExits
    <2>2. InFlight /\ pid \in Pids
      BY DEF Inv, Control, InFlight
    <2>3. IsFiniteSet(Unreaped)
      BY FS_Subset, ShellAssumption DEF Unreaped
    <2>4. Cardinality(Unreaped) = 1
      BY <2>2 DEF Inv, JobsCountChildren
    <2>5. PICK q : Unreaped = {q}
      BY <2>3, <2>4, FS_Singleton
    <2>6. PICK p \in Pids : child[p] = "zombie" /\ Reap(p)
      BY <2>1, <2>5 DEF Wait
    <2>7. p = q
      BY <2>5, <2>6 DEF Unreaped
    <2> QED
      BY <2>2, <2>5, <2>6, <2>7 DEF Reap, Unreaped, Inv, TypeOK
  <1> QED
    BY Invariance, <1>1, PTL DEF Spec, ForegroundAlone
=============================================================================
