------------------------- MODULE InterceptorProofs -------------------------
(***************************************************************************)
(* Proofs about the interceptors, for any set of processes.                *)
(***************************************************************************)
EXTENDS Interceptor, TLAPS

\* The targets of the three modules.
LEMMA TheTargets ==
  /\ Targets("openclose") = <<"open", "close">> /\ Targets("module") = <<"syscall1">>
  /\ Targets("intercept") = <<"syscall2">>
  BY DEF Targets

\* Each module intercepts one or two calls.
LEMMA TargetLengths == \A m \in Modules : Len(Targets(m)) = 1 \/ Len(Targets(m)) = 2
  BY TheTargets DEF Modules

\* The indices of the targets, and what they are.
LEMMA TargetTypes ==
  \A m \in Modules : /\ DOMAIN Targets(m) = 1 .. Len(Targets(m))
                     /\ \A j \in DOMAIN Targets(m) : Targets(m)[j] \in Calls
  <1>1. \A m \in Modules : DOMAIN Targets(m) = 1 .. Len(Targets(m))
    BY TheTargets DEF Modules
  <1>2. \A m \in Modules : \A j \in DOMAIN Targets(m) : Targets(m)[j] \in Calls
    BY TheTargets DEF Modules, Calls
  <1> QED
    BY <1>1, <1>2

\* No call is intercepted by two modules, or twice by one: the assignments of
\* interceptor_start and interceptor_end are to different entries.
LEMMA TargetsDistinct ==
  \A m, n \in Modules : \A a \in DOMAIN Targets(m), b \in DOMAIN Targets(n) :
      Targets(m)[a] = Targets(n)[b] => m = n /\ a = b
  BY TheTargets DEF Modules

\* Nothing is loaded at first, and the table is the kernel's.
LEMMA InitInv == Init => Inv
  <1> SUFFICES ASSUME Init PROVE Inv
    OBVIOUS
  <1>1. TypeOK
    <2>1. mem \in [Places -> [Calls -> Functions]]
      BY DEF Init, Functions, Kernel
    <2>2. ref \in [Modules -> [Calls -> Functions \cup {NULL}]]
      BY DEF Init, Unsaved
    <2>3. Kernel("open") \in Functions /\ "open" \in Calls
      BY DEF Functions, Calls, Kernel
    <2>4. k \in [Modules -> {1, 2}]
      BY DEF Init
    <2>5. \A m \in Modules : k[m] <= Len(Targets(m))
      <3>1. k = [m \in Modules |-> 1]
        BY DEF Init
      <3> QED
        BY ONLY <3>1, TargetLengths
    <2>6. wp \in [Modules -> BOOLEAN]
      BY DEF Init
    <2>7. /\ mpc \in [Modules -> {"unloaded"}] /\ sys_call_table \in [Modules -> {NULL}]
          /\ ppc \in [Processes -> {"user"}] /\ nr \in [Processes -> Calls]
          /\ fn \in [Processes -> Functions] /\ caller \in [Processes -> {NULL}]
      BY <2>3 DEF Init
    <2> QED
      BY <2>1, <2>2, <2>4, <2>5, <2>6, <2>7 DEF TypeOK, PCs
  <1>2. Control /\ OpencloseFindsTable /\ Pointers /\ Processing
    BY TargetTypes DEF Init, Control, OpencloseFindsTable, Pointers, IsSaved, Processing,
       Modules
  <1>3. Table
    <2>1. \A c \in Calls : mem["table"][c] = Kernel(c)
      BY DEF Init, Places
    <2>2. \A m \in Modules : sys_call_table[m] # "table"
      BY InterceptorAssumption DEF Init
    <2> QED
      BY <2>1, <2>2, TargetTypes DEF Table
  <1> QED
    BY <1>1, <1>2, <1>3 DEF Inv
\* One assignment of several is for an existing target, and leads to the next one
\* or out of the loop.
LEMMA AssignFacts ==
  ASSUME TypeOK, NEW m \in Modules, NEW at \in PCs, NEW next \in PCs, Assign(m, at, next)
  PROVE  /\ mpc' \in [Modules -> PCs] /\ k' \in [Modules -> {1, 2}]
         /\ \A n \in Modules : k'[n] <= Len(Targets(n))
         /\ k[m] \in DOMAIN Targets(m) /\ Target(m) \in Calls /\ mpc[m] = at
         /\ \A n \in Modules \ {m} : k'[n] = k[n] /\ mpc'[n] = mpc[n]
         /\ \/ k'[m] = k[m] + 1 /\ mpc'[m] = at
            \/ k'[m] = 1 /\ mpc'[m] = next /\ k[m] = Len(Targets(m))
  <1> DEFINE n == Len(Targets(m))
  <1>1. /\ k \in [Modules -> {1, 2}] /\ mpc \in [Modules -> PCs]
        /\ k[m] <= n /\ \A l \in Modules : k[l] <= Len(Targets(l))
    BY DEF TypeOK
  <1>2. n = 1 \/ n = 2
    BY TargetLengths
  <1>3. DOMAIN Targets(m) = 1 .. n /\ \A j \in DOMAIN Targets(m) : Targets(m)[j] \in Calls
    BY TargetTypes
  <1>4. /\ mpc[m] = at
        /\ IF k[m] < n
              THEN k' = [k EXCEPT ![m] = @ + 1] /\ mpc' = mpc
              ELSE k' = [k EXCEPT ![m] = 1] /\ mpc' = [mpc EXCEPT ![m] = next]
    BY DEF Assign
  <1>5. k[m] \in DOMAIN Targets(m) /\ Target(m) \in Calls
    BY <1>1, <1>2, <1>3 DEF Target
  <1> HIDE DEF n
  <1>6. CASE k[m] < n
    <2>1. k[m] = 1 /\ n = 2
      BY <1>1, <1>2, <1>6
    <2>2. k' = [k EXCEPT ![m] = 2] /\ mpc' = mpc
      BY <1>4, <1>6, <2>1
    <2>3. \A l \in Modules : k'[l] <= Len(Targets(l))
      <3>1. k'[m] <= n /\ \A l \in Modules \ {m} : k'[l] = k[l]
        BY <2>1, <2>2, <1>1
      <3> QED
        BY ONLY <3>1, <1>1 DEF n
    <2> QED
      BY <2>1, <2>2, <2>3, <1>1, <1>4, <1>5
  <1>7. CASE ~(k[m] < n)
    <2>1. k[m] = n /\ 1 <= n
      BY <1>1, <1>2, <1>7
    <2>2. k' = [k EXCEPT ![m] = 1] /\ mpc' = [mpc EXCEPT ![m] = next]
      BY <1>4, <1>7
    <2>3. \A l \in Modules : k'[l] <= Len(Targets(l))
      BY <2>1, <2>2, <1>1 DEF n
    <2>4. k[m] = Len(Targets(m))
      BY <2>1 DEF n
    <2> QED
      BY <2>2, <2>3, <2>4, <1>1, <1>4, <1>5
  <1> QED
    BY <1>6, <1>7

\* A write to the table or elsewhere changes one word.
LEMMA WriteFacts ==
  ASSUME TypeOK, Control, NEW m \in Modules, mpc[m] \notin {"unloaded", "find"},
         Target(m) \in Calls, NEW f \in Functions, Write(m, f)
  PROVE  /\ mem' \in [Places -> [Calls -> Functions]]
         /\ sys_call_table[m] \in Places
         /\ \A c \in Calls : mem'["table"][c] =
                IF sys_call_table[m] = "table" /\ c = Target(m) THEN f ELSE mem["table"][c]
  <1>1. sys_call_table[m] \in Places
    BY DEF TypeOK, Control
  <1> QED
    BY <1>1 DEF TypeOK, Write, Places

\* A process inside of a new function of openclose finds there the pointer to the
\* kernel's function for its call.
LEMMA PointerSaved ==
  ASSUME Inv, NEW p \in Processes, ppc[p] = "call", fn[p][1] = "openclose"
  PROVE  /\ fn[p][2] = nr[p] /\ nr[p] \in Calls
         /\ ref["openclose"][nr[p]] = Kernel(nr[p])
  <1>1. "openclose" \in Modules
    BY DEF Modules
  <1>2. /\ fn[p] = New("openclose", nr[p]) /\ nr[p] \in TargetSet("openclose")
        /\ mpc["openclose"] \notin {"unloaded", "find", "save", "disable"}
    BY DEF Inv, Processing
  <1>3. PICK j \in DOMAIN Targets("openclose") : nr[p] = Targets("openclose")[j]
    BY <1>2 DEF TargetSet
  <1>4. IsSaved("openclose", j) /\ sys_call_table["openclose"] = "table"
    BY <1>1, <1>2 DEF Inv, TypeOK, PCs, Control, OpencloseFindsTable, IsSaved
  <1>5. ref["openclose"][nr[p]] = Kernel(nr[p])
    BY <1>1, <1>3, <1>4 DEF Inv, Pointers
  <1> QED
    BY <1>1, <1>2, <1>3, <1>5, TargetTypes DEF New

\* Every step keeps the types of the variables: what a module writes back into
\* the table is a pointer it has saved, and so is what a new function calls.
LEMMA TypePreserved == Inv /\ [Next]_vars => TypeOK'
  <1> SUFFICES ASSUME Inv, [Next]_vars PROVE TypeOK'
    OBVIOUS
  <1>t. TypeOK /\ Control
    BY DEF Inv
  <1>pcs. /\ "unloaded" \in PCs /\ "find" \in PCs /\ "save" \in PCs /\ "disable" \in PCs
          /\ "patch" \in PCs /\ "enable" \in PCs /\ "loaded" \in PCs
          /\ "restore" \in PCs /\ "enable2" \in PCs /\ "end" \in PCs
    BY DEF PCs
  <1>g. ASSUME NEW m \in Modules, NEW from, NEW to \in PCs, Goto(m, from, to), k' = k
        PROVE  /\ mpc' \in [Modules -> PCs] /\ k' \in [Modules -> {1, 2}]
               /\ \A n \in Modules : k'[n] <= Len(Targets(n))
    BY <1>t, <1>g DEF Goto, TypeOK
  <1>1. ASSUME NEW m \in Modules, Insert(m) PROVE TypeOK'
    <2>1. ref' \in [Modules -> [Calls -> Functions \cup {NULL}]]
      BY <1>1, <1>t DEF Insert, TypeOK, Unsaved
    <2> QED
      BY <1>1, <1>t, <1>g, <1>pcs, <2>1 DEF Insert, TypeOK, processVars
  <1>2. ASSUME NEW m \in Modules, find_sys_call_table(m) PROVE TypeOK'
    <2>1. PICK x \in Found :
             /\ Goto(m, "find", IF x = NULL THEN "unloaded" ELSE "save")
             /\ sys_call_table' = [sys_call_table EXCEPT ![m] = x]
             /\ UNCHANGED <<mem, k, ref, wp, processVars>>
      BY <1>2 DEF find_sys_call_table
    <2>2. x \in Places \cup {NULL}
      BY DEF Found, Places
    <2> QED
      BY <1>t, <1>g, <1>pcs, <2>1, <2>2 DEF TypeOK, processVars
  <1>3. ASSUME NEW m \in Modules, Save(m) PROVE TypeOK'
    <2>1. /\ mpc' \in [Modules -> PCs] /\ k' \in [Modules -> {1, 2}]
          /\ \A n \in Modules : k'[n] <= Len(Targets(n))
          /\ Target(m) \in Calls /\ mpc[m] = "save"
      BY <1>3, <1>t, <1>pcs, AssignFacts DEF Save
    <2>2. sys_call_table[m] \in Places
      BY <2>1, <1>t DEF Control, TypeOK
    <2>3. ref' \in [Modules -> [Calls -> Functions \cup {NULL}]]
      BY <1>3, <2>1, <2>2, <1>t DEF Save, TypeOK
    <2> QED
      BY <1>3, <1>t, <2>1, <2>3 DEF Save, TypeOK, processVars
  <1>4. ASSUME NEW m \in Modules, NEW from, NEW to \in PCs,
               \/ disable_page_protection(m, from, to)
               \/ enable_page_protection(m, from, to)
        PROVE  TypeOK'
    <2>1. wp' \in [Modules -> BOOLEAN]
      BY <1>4, <1>t DEF disable_page_protection, enable_page_protection, TypeOK
    <2> QED
      BY <1>4, <1>t, <1>g, <2>1 DEF disable_page_protection, enable_page_protection, TypeOK,
         processVars
  <1>5. ASSUME NEW m \in Modules, Patch(m) PROVE TypeOK'
    <2>1. /\ mpc' \in [Modules -> PCs] /\ k' \in [Modules -> {1, 2}]
          /\ \A n \in Modules : k'[n] <= Len(Targets(n))
          /\ Target(m) \in Calls /\ mpc[m] = "patch"
      BY <1>5, <1>t, <1>pcs, AssignFacts DEF Patch
    <2>2. New(m, Target(m)) \in Functions
      BY <2>1 DEF New, Functions, Modules
    <2>3. mem' \in [Places -> [Calls -> Functions]]
      BY <1>5, <1>t, <2>1, <2>2, WriteFacts DEF Patch
    <2> QED
      BY <1>5, <1>t, <2>1, <2>3 DEF Patch, TypeOK, processVars
  <1>6. ASSUME NEW m \in Modules, Restore(m) PROVE TypeOK'
    <2>1. /\ mpc' \in [Modules -> PCs] /\ k' \in [Modules -> {1, 2}]
          /\ \A n \in Modules : k'[n] <= Len(Targets(n))
          /\ k[m] \in DOMAIN Targets(m) /\ Target(m) \in Calls /\ mpc[m] = "restore"
      BY <1>6, <1>t, <1>pcs, AssignFacts DEF Restore
    <2>2. ref[m][Target(m)] \in Functions
      BY <2>1, <1>t DEF Inv, Pointers, IsSaved, Target, TypeOK
    <2>3. mem' \in [Places -> [Calls -> Functions]]
      BY <1>6, <1>t, <2>1, <2>2, WriteFacts DEF Restore
    <2> QED
      BY <1>6, <1>t, <2>1, <2>3 DEF Restore, TypeOK, processVars
  <1>7. ASSUME NEW m \in Modules, Remove(m) PROVE TypeOK'
    <2>1. ppc' \in [Processes -> {"user", "call", "lost"}]
      BY <1>7, <1>t DEF Remove, TypeOK
    <2> QED
      BY <1>7, <1>t, <1>g, <1>pcs, <2>1 DEF Remove, TypeOK
  <1>8. ASSUME NEW p \in Processes, Call(p) PROVE TypeOK'
    <2>1. "table" \in Places
      BY DEF Places
    <2>2. PICK c \in Calls : /\ nr' = [nr EXCEPT ![p] = c]
                             /\ fn' = [fn EXCEPT ![p] = mem["table"][c]]
      BY <1>8 DEF Call
    <2> QED
      BY <1>8, <1>t, <2>1, <2>2 DEF Call, TypeOK, moduleVars
  <1>9. ASSUME NEW p \in Processes, new_sys_openclose(p) PROVE TypeOK'
    <2>1. ref["openclose"][fn[p][2]] \in Functions /\ "openclose" \in Modules
      <3>1. /\ fn[p][2] = nr[p] /\ nr[p] \in Calls
            /\ ref["openclose"][nr[p]] = Kernel(nr[p])
        BY <1>9, PointerSaved DEF new_sys_openclose
      <3> QED
        BY <3>1 DEF Functions, Kernel, Modules
    <2> QED
      BY <1>9, <1>t, <2>1 DEF new_sys_openclose, TypeOK, moduleVars
  <1>10. ASSUME NEW p \in Processes, Return(p) PROVE TypeOK'
    BY <1>10, <1>t DEF Return, TypeOK, moduleVars
  <1>11. CASE UNCHANGED vars
    BY <1>11, <1>t DEF vars, moduleVars, processVars, TypeOK
  <1> QED
    BY <1>pcs, <1>1, <1>2, <1>3, <1>4, <1>5, <1>6, <1>7, <1>8, <1>9, <1>10, <1>11
    DEF Next, Start, End, Unload, Process

\* The entry of close belongs to openclose alone, so that a search which begins
\* before openclose is loaded finds the table.
LEMMA FindingTable ==
  ASSUME Inv, mpc["openclose"] = "find"
  PROVE  Found = {"table"}
  <1>1. "openclose" \in Modules /\ 2 \in DOMAIN Targets("openclose")
        /\ Targets("openclose")[2] = "close"
    BY TheTargets DEF Modules
  <1>2. ~IsPatched("openclose", 2)
    BY DEF IsPatched
  <1>3. mem["table"]["close"] = Kernel("close")
    BY <1>1, <1>2 DEF Inv, Table
  <1> QED
    BY <1>3 DEF Found

\* The steps keep the order of interceptor_start and interceptor_end: the place
\* is found first, and the loops end with their index where they began.
LEMMA ControlPreserved == Inv /\ [Next]_vars => Control' /\ OpencloseFindsTable'
  <1> SUFFICES ASSUME Inv, [Next]_vars PROVE Control' /\ OpencloseFindsTable'
    OBVIOUS
  <1>t. TypeOK /\ Control /\ OpencloseFindsTable
    BY DEF Inv
  <1>o. "openclose" \in Modules
    BY DEF Modules
  <1>pcs. /\ "save" \in PCs /\ "disable" \in PCs /\ "patch" \in PCs /\ "enable" \in PCs
          /\ "restore" \in PCs /\ "enable2" \in PCs
    BY DEF PCs
  <1>a. ASSUME NEW m \in Modules, NEW at \in {"save", "patch", "restore"},
               NEW next \in PCs \ {"unloaded", "find"}, Assign(m, at, next),
               UNCHANGED sys_call_table
        PROVE  Control' /\ OpencloseFindsTable'
    <2>1. at \in PCs
      BY <1>pcs
    <2>2. /\ mpc[m] = at /\ \A n \in Modules \ {m} : k'[n] = k[n] /\ mpc'[n] = mpc[n]
          /\ \/ mpc'[m] = at
             \/ k'[m] = 1 /\ mpc'[m] = next
      BY <1>a, <1>t, <2>1, AssignFacts
    <2>3. mpc[m] \notin {"unloaded", "find"}
      BY <2>2
    <2> QED
      BY <1>a, <1>t, <1>o, <2>2, <2>3 DEF Control, OpencloseFindsTable
  <1>1. ASSUME NEW m \in Modules, Insert(m) PROVE Control' /\ OpencloseFindsTable'
    BY <1>1, <1>t, <1>o DEF Insert, Goto, Control, OpencloseFindsTable, TypeOK
  <1>2. ASSUME NEW m \in Modules, find_sys_call_table(m) PROVE Control' /\ OpencloseFindsTable'
    <2>1. PICK x \in Found :
             /\ Goto(m, "find", IF x = NULL THEN "unloaded" ELSE "save")
             /\ sys_call_table' = [sys_call_table EXCEPT ![m] = x]
             /\ UNCHANGED <<mem, k, ref, wp, processVars>>
      BY <1>2 DEF find_sys_call_table
    <2>2. m = "openclose" => x = "table"
      BY <2>1, FindingTable DEF Goto
    <2>3. Control'
      BY <1>t, <2>1 DEF Goto, Control, TypeOK
    <2>4. OpencloseFindsTable'
      BY <1>t, <1>o, <2>1, <2>2 DEF Goto, OpencloseFindsTable, TypeOK
    <2> QED
      BY <2>3, <2>4
  <1>3. ASSUME NEW m \in Modules, Save(m) \/ Patch(m) \/ Restore(m)
        PROVE  Control' /\ OpencloseFindsTable'
    BY <1>3, <1>a, <1>pcs DEF Save, Patch, Restore
  <1>4. ASSUME NEW m \in Modules,
               NEW from \in PCs \ {"unloaded", "find", "save", "patch", "restore"},
               NEW to \in PCs,
               \/ disable_page_protection(m, from, to)
               \/ enable_page_protection(m, from, to)
        PROVE  Control' /\ OpencloseFindsTable'
    BY <1>4, <1>t, <1>o DEF disable_page_protection, enable_page_protection, Goto, Control,
       OpencloseFindsTable, TypeOK
  <1>5. ASSUME NEW m \in Modules, Remove(m) PROVE Control' /\ OpencloseFindsTable'
    BY <1>5, <1>t, <1>o DEF Remove, Goto, Control, OpencloseFindsTable, TypeOK
  <1>6. ASSUME NEW p \in Processes, Process(p) PROVE Control' /\ OpencloseFindsTable'
    BY <1>6, <1>t DEF Process, Call, new_sys_openclose, Return, moduleVars, Control, OpencloseFindsTable
  <1>7. CASE UNCHANGED vars
    BY <1>7, <1>t DEF vars, moduleVars, Control, OpencloseFindsTable
  <1>8. /\ {"disable", "enable", "loaded", "enable2"}
              \subseteq PCs \ {"unloaded", "find", "save", "patch", "restore"}
        /\ {"patch", "loaded", "restore", "end"} \subseteq PCs
    BY DEF PCs
  <1> QED
    BY <1>1, <1>2, <1>3, <1>4, <1>5, <1>6, <1>7, <1>8 DEF Next, Start, End, Unload

\* What a module has saved stays until it is loaded again: it reads the entry
\* while it is not patched, and the other modules do not write there.
LEMMA PointersPreserved == Inv /\ [Next]_vars => Pointers'
  <1> SUFFICES ASSUME Inv, [Next]_vars PROVE Pointers'
    OBVIOUS
  <1>t. TypeOK /\ Control /\ Pointers /\ Table
    BY DEF Inv
  <1>u. ASSUME \A n \in Modules : \A j \in DOMAIN Targets(n) : IsSaved(n, j)' =>
                  /\ IsSaved(n, j)
                  /\ ref'[n] = ref[n] /\ sys_call_table'[n] = sys_call_table[n]
        PROVE  Pointers'
    BY <1>t, <1>u DEF Pointers
  <1>1. ASSUME NEW m \in Modules, Insert(m) PROVE Pointers'
    BY <1>1, <1>t, <1>u DEF Insert, Goto, IsSaved, TypeOK
  <1>2. ASSUME NEW m \in Modules, find_sys_call_table(m) PROVE Pointers'
    <2>1. PICK x \in Found :
             /\ Goto(m, "find", IF x = NULL THEN "unloaded" ELSE "save")
             /\ sys_call_table' = [sys_call_table EXCEPT ![m] = x]
             /\ UNCHANGED <<mem, k, ref, wp, processVars>>
      BY <1>2 DEF find_sys_call_table
    <2>2. k[m] = 1 /\ \A j \in DOMAIN Targets(m) : ~(j < 1)
      BY <2>1, <1>t, TargetTypes DEF Goto, Control
    <2>3. \A j \in DOMAIN Targets(m) : ~IsSaved(m, j)'
      BY <2>1, <2>2, <1>t DEF Goto, TypeOK, IsSaved
    <2>4. \A n \in Modules \ {m} : mpc'[n] = mpc[n] /\ sys_call_table'[n] = sys_call_table[n]
      BY <2>1, <1>t DEF Goto, TypeOK
    <2> QED
      BY <1>u, <2>1, <2>3, <2>4 DEF IsSaved
  <1>3. ASSUME NEW m \in Modules, Save(m) PROVE Pointers'
    <2>1. "save" \in PCs /\ "disable" \in PCs
      BY DEF PCs
    <2>2. /\ k[m] \in DOMAIN Targets(m) /\ Target(m) \in Calls /\ mpc[m] = "save"
          /\ \A n \in Modules \ {m} : k'[n] = k[n] /\ mpc'[n] = mpc[n]
          /\ \/ k'[m] = k[m] + 1 /\ mpc'[m] = "save"
             \/ k'[m] = 1 /\ mpc'[m] = "disable" /\ k[m] = Len(Targets(m))
      BY <1>3, <1>t, <2>1, AssignFacts DEF Save
    <2>3. /\ ref' = [ref EXCEPT ![m][Target(m)] = mem[sys_call_table[m]][Target(m)]]
          /\ sys_call_table' = sys_call_table
      BY <1>3 DEF Save
    <2>4. ASSUME NEW j \in DOMAIN Targets(m), IsSaved(m, j)', j # k[m]
          PROVE  /\ IsSaved(m, j)
                 /\ ref'[m][Targets(m)[j]] = ref[m][Targets(m)[j]]
      <3>1. j \in Int /\ k[m] \in Int /\ j <= Len(Targets(m))
        BY <2>2, TargetTypes, TargetLengths
      <3>2. j < k[m]
        BY <2>2, <2>4, <3>1 DEF IsSaved
      <3>3. Targets(m)[j] # Target(m)
        BY <2>2, <2>4, TargetsDistinct DEF Target
      <3> QED
        BY <2>2, <2>3, <3>2, <3>3, <1>t, TargetTypes DEF IsSaved, TypeOK
    <2>5. sys_call_table[m] \in Places
      BY <2>2, <1>t DEF Control, TypeOK
    <2>6. ref'[m][Target(m)] = mem[sys_call_table[m]][Target(m)]
      BY <2>2, <2>3, <1>t DEF TypeOK
    <2>7. ref'[m][Target(m)] # NULL
      BY <2>2, <2>5, <2>6, <1>t, InterceptorAssumption DEF TypeOK
    <2>8. sys_call_table[m] = "table" => ref'[m][Target(m)] = Kernel(Target(m))
      BY <2>2, <2>6, <1>t DEF Table, IsPatched, Target
    <2>9. \A n \in Modules \ {m} : ref'[n] = ref[n]
      BY <2>3, <1>t DEF TypeOK
    <2>10. ASSUME NEW n \in Modules, NEW j \in DOMAIN Targets(n), IsSaved(n, j)'
           PROVE  /\ ref'[n][Targets(n)[j]] # NULL
                  /\ sys_call_table'[n] = "table" =>
                        ref'[n][Targets(n)[j]] = Kernel(Targets(n)[j])
      <3>1. CASE n # m
        BY <2>2, <2>3, <2>9, <2>10, <3>1, <1>t DEF Pointers, IsSaved
      <3>2. CASE n = m /\ j # k[m]
        BY <2>3, <2>4, <2>10, <3>2, <1>t DEF Pointers
      <3>3. CASE n = m /\ j = k[m]
        BY <2>3, <2>7, <2>8, <3>3 DEF Target
      <3> QED
        BY <3>1, <3>2, <3>3
    <2> QED
      BY <2>10 DEF Pointers
  <1>4. ASSUME NEW m \in Modules, Patch(m) \/ Restore(m) PROVE Pointers'
    <2>1. "patch" \in PCs /\ "enable" \in PCs /\ "restore" \in PCs /\ "enable2" \in PCs
      BY DEF PCs
    <2>2. /\ mpc[m] \in {"patch", "restore"}
          /\ mpc'[m] \in {"patch", "restore", "enable", "enable2"}
          /\ \A n \in Modules \ {m} : k'[n] = k[n] /\ mpc'[n] = mpc[n]
      BY <1>4, <1>t, <2>1, AssignFacts DEF Patch, Restore
    <2> QED
      BY <1>4, <1>u, <2>2 DEF Patch, Restore, IsSaved
  <1>5. ASSUME NEW m \in Modules,
               NEW from \in PCs \ {"unloaded", "find", "save"}, NEW to \in PCs \ {"save"},
               \/ disable_page_protection(m, from, to)
               \/ enable_page_protection(m, from, to)
        PROVE  Pointers'
    BY <1>5, <1>t, <1>u DEF disable_page_protection, enable_page_protection, Goto, IsSaved,
       TypeOK, PCs
  <1>6. ASSUME NEW m \in Modules, Remove(m) PROVE Pointers'
    BY <1>6, <1>t, <1>u DEF Remove, Goto, IsSaved, TypeOK
  <1>7. ASSUME NEW p \in Processes, Process(p) PROVE Pointers'
    BY <1>7, <1>t DEF Process, Call, new_sys_openclose, Return, moduleVars, Pointers, IsSaved
  <1>8. CASE UNCHANGED vars
    BY <1>8, <1>t DEF vars, moduleVars, Pointers, IsSaved
  <1>9. /\ {"disable", "enable", "loaded", "enable2"} \subseteq PCs \ {"unloaded", "find", "save"}
        /\ {"patch", "loaded", "restore", "end"} \subseteq PCs \ {"save"}
    BY DEF PCs
  <1> QED
    BY <1>1, <1>2, <1>3, <1>4, <1>5, <1>6, <1>7, <1>8, <1>9 DEF Next, Start, End, Unload

\* The table: a patch or a restoration changes the entry of its target only, and
\* the pointer that is written back is the kernel's.
LEMMA TablePreserved == Inv /\ [Next]_vars => Table'
  <1> SUFFICES ASSUME Inv, [Next]_vars PROVE Table'
    OBVIOUS
  <1>t. TypeOK /\ Control /\ Pointers /\ Table
    BY DEF Inv
  <1>u. ASSUME mem' = mem,
               \A n \in Modules : \A j \in DOMAIN Targets(n) :
                  (sys_call_table[n] = "table" /\ IsPatched(n, j))'
                     <=> (sys_call_table[n] = "table" /\ IsPatched(n, j))
        PROVE  Table'
    BY <1>t, <1>u DEF Table
  <1>ints. \A n \in Modules : \A j \in DOMAIN Targets(n) :
              j \in Int /\ 1 <= j /\ j <= Len(Targets(n))
    BY TargetTypes, TargetLengths
  <1>1. ASSUME NEW m \in Modules, Insert(m) PROVE Table'
    BY <1>1, <1>t, <1>u DEF Insert, Goto, IsPatched, TypeOK
  <1>2. ASSUME NEW m \in Modules, find_sys_call_table(m) PROVE Table'
    BY <1>2, <1>t, <1>u DEF find_sys_call_table, Goto, IsPatched, TypeOK
  <1>3. ASSUME NEW m \in Modules, Save(m) PROVE Table'
    <2>1. "save" \in PCs /\ "disable" \in PCs
      BY DEF PCs
    <2>2. /\ mpc[m] = "save" /\ mpc'[m] \in {"save", "disable"}
          /\ \A n \in Modules \ {m} : k'[n] = k[n] /\ mpc'[n] = mpc[n]
      BY <1>3, <1>t, <2>1, AssignFacts DEF Save
    <2> QED
      BY <1>3, <1>u, <2>2 DEF Save, IsPatched
  <1>4. ASSUME NEW m \in Modules, NEW from \in PCs, NEW to \in PCs,
               \/ disable_page_protection(m, from, to)
               \/ enable_page_protection(m, from, to),
               <<from, to>> \in {<<"disable", "patch">>, <<"enable", "loaded">>,
                                <<"loaded", "restore">>, <<"enable2", "end">>}
        PROVE  Table'
    <2>1. Goto(m, from, to) /\ UNCHANGED <<mem, k, sys_call_table, ref>>
      BY <1>4 DEF disable_page_protection, enable_page_protection
    <2>2. mpc[m] = from /\ mpc'[m] = to /\ \A n \in Modules \ {m} : mpc'[n] = mpc[n]
      BY <2>1, <1>t DEF Goto, TypeOK
    <2>3. k[m] = 1
      BY <2>2, <1>4, <1>t DEF Control
    <2>4. \A j \in DOMAIN Targets(m) : IsPatched(m, j)' <=> IsPatched(m, j)
      BY <1>4, <1>ints, <2>1, <2>2, <2>3 DEF IsPatched
    <2> QED
      BY <1>u, <2>1, <2>2, <2>4 DEF IsPatched
  <1>w. ASSUME NEW m \in Modules, mpc[m] \notin {"unloaded", "find"},
               NEW i \in DOMAIN Targets(m), i = k[m], NEW f \in Functions, Write(m, f),
               UNCHANGED sys_call_table,
               \A n \in Modules \ {m} : k'[n] = k[n] /\ mpc'[n] = mpc[n],
               \A j \in DOMAIN Targets(m) : j # k[m] => (IsPatched(m, j)' <=> IsPatched(m, j)),
               sys_call_table[m] = "table" =>
                  f = IF IsPatched(m, i)' THEN New(m, Target(m)) ELSE Kernel(Target(m))
        PROVE  Table'
    <2>1. Target(m) = Targets(m)[k[m]] /\ Target(m) \in Calls
      BY <1>w, TargetTypes DEF Target
    <2>2. \A c \in Calls : mem'["table"][c] =
             IF sys_call_table[m] = "table" /\ c = Target(m) THEN f ELSE mem["table"][c]
      BY <1>w, <1>t, <2>1, WriteFacts
    <2>3. ASSUME NEW n \in Modules, NEW j \in DOMAIN Targets(n)
          PROVE  mem'["table"][Targets(n)[j]] =
                    IF sys_call_table'[n] = "table" /\ IsPatched(n, j)'
                       THEN New(n, Targets(n)[j]) ELSE Kernel(Targets(n)[j])
      <3>1. CASE n = m /\ j = k[m]
        <4>1. CASE sys_call_table[m] = "table"
          BY <1>w, <2>1, <2>2, <3>1, <4>1
        <4>2. CASE sys_call_table[m] # "table"
          BY <1>w, <1>t, <2>1, <2>2, <3>1, <4>2 DEF Table
        <4> QED
          BY <4>1, <4>2
      <3>2. CASE ~(n = m /\ j = k[m])
        <4>1. Targets(n)[j] # Target(m) /\ Targets(n)[j] \in Calls
          BY <1>w, <2>1, <3>2, TargetsDistinct, TargetTypes
        <4>2. mem'["table"][Targets(n)[j]] = mem["table"][Targets(n)[j]]
          BY <2>2, <4>1
        <4>3. IsPatched(n, j)' <=> IsPatched(n, j)
          BY <1>w, <3>2 DEF IsPatched
        <4> QED
          BY <1>w, <1>t, <4>2, <4>3 DEF Table
      <3> QED
        BY <3>1, <3>2
    <2> QED
      BY <2>3 DEF Table
  <1>5. ASSUME NEW m \in Modules, Patch(m) PROVE Table'
    <2>1. "patch" \in PCs /\ "enable" \in PCs
      BY DEF PCs
    <2>2. /\ k[m] \in DOMAIN Targets(m) /\ Target(m) \in Calls /\ mpc[m] = "patch"
          /\ \A n \in Modules \ {m} : k'[n] = k[n] /\ mpc'[n] = mpc[n]
          /\ \/ k'[m] = k[m] + 1 /\ mpc'[m] = "patch"
             \/ k'[m] = 1 /\ mpc'[m] = "enable" /\ k[m] = Len(Targets(m))
      BY <1>5, <1>t, <2>1, AssignFacts DEF Patch
    <2>3. New(m, Target(m)) \in Functions
      BY <2>2 DEF New, Functions, Modules
    <2>4. \A j \in DOMAIN Targets(m) : j # k[m] => (IsPatched(m, j)' <=> IsPatched(m, j))
      BY <2>2, <1>ints DEF IsPatched
    <2>5. \A i \in DOMAIN Targets(m) : i = k[m] => IsPatched(m, i)'
      BY <2>2, <1>ints DEF IsPatched
    <2> QED
      BY <1>5, <1>w, <2>2, <2>3, <2>4, <2>5 DEF Patch
  <1>6. ASSUME NEW m \in Modules, Restore(m) PROVE Table'
    <2>1. "restore" \in PCs /\ "enable2" \in PCs
      BY DEF PCs
    <2>2. /\ k[m] \in DOMAIN Targets(m) /\ Target(m) \in Calls /\ mpc[m] = "restore"
          /\ \A n \in Modules \ {m} : k'[n] = k[n] /\ mpc'[n] = mpc[n]
          /\ \/ k'[m] = k[m] + 1 /\ mpc'[m] = "restore"
             \/ k'[m] = 1 /\ mpc'[m] = "enable2" /\ k[m] = Len(Targets(m))
      BY <1>6, <1>t, <2>1, AssignFacts DEF Restore
    <2>3. /\ ref[m][Target(m)] \in Functions
          /\ sys_call_table[m] = "table" => ref[m][Target(m)] = Kernel(Target(m))
      BY <2>2, <1>t DEF Pointers, IsSaved, Target, TypeOK
    <2>4. \A j \in DOMAIN Targets(m) : j # k[m] => (IsPatched(m, j)' <=> IsPatched(m, j))
      BY <2>2, <1>ints DEF IsPatched
    <2>5. \A i \in DOMAIN Targets(m) : i = k[m] => ~IsPatched(m, i)'
      BY <2>2, <1>ints DEF IsPatched
    <2> QED
      BY <1>6, <1>w, <2>2, <2>3, <2>4, <2>5 DEF Restore
  <1>7. ASSUME NEW m \in Modules, Remove(m) PROVE Table'
    BY <1>7, <1>t, <1>u DEF Remove, Goto, IsPatched, TypeOK
  <1>8. ASSUME NEW p \in Processes, Process(p) PROVE Table'
    BY <1>8, <1>u DEF Process, Call, new_sys_openclose, Return, moduleVars, IsPatched
  <1>9. CASE UNCHANGED vars
    BY <1>9, <1>u DEF vars, moduleVars, IsPatched
  <1>10. {"disable", "patch", "enable", "loaded", "restore", "enable2", "end"} \subseteq PCs
    BY DEF PCs
  <1> QED
    BY <1>1, <1>2, <1>3, <1>4, <1>5, <1>6, <1>7, <1>8, <1>9, <1>10
    DEF Next, Start, End, Unload

\* A function of openclose that is in the table is there for its call, and the
\* module is patched in.
LEMMA OpencloseInTable ==
  ASSUME Inv, NEW c \in Calls, mem["table"][c][1] = "openclose"
  PROVE  /\ mem["table"][c] = New("openclose", c) /\ c \in TargetSet("openclose")
         /\ mpc["openclose"] \in {"patch", "enable", "loaded", "restore"}
  <1>0. PICK m \in Modules : \E j \in DOMAIN Targets(m) : c = Targets(m)[j]
    BY TheTargets DEF Calls, Modules
  <1>1. PICK j \in DOMAIN Targets(m) : c = Targets(m)[j]
    BY <1>0
  <1>2. mem["table"][c] = IF sys_call_table[m] = "table" /\ IsPatched(m, j)
                             THEN New(m, c) ELSE Kernel(c)
    BY <1>1 DEF Inv, Table
  <1>3. mem["table"][c] = New(m, c) /\ m = "openclose" /\ IsPatched(m, j)
    BY <1>2 DEF New, Kernel
  <1> QED
    BY <1>1, <1>3 DEF IsPatched, TargetSet

\* Processes are inside of openclose only while its pointers are saved.
LEMMA ProcessingPreserved == Inv /\ [Next]_vars => Processing'
  <1> SUFFICES ASSUME Inv, [Next]_vars PROVE Processing'
    OBVIOUS
  <1>t. TypeOK /\ Processing
    BY DEF Inv
  <1>o. "openclose" \in Modules
    BY DEF Modules
  <1> DEFINE Outside == {"unloaded", "find", "save", "disable"}
  <1>u. ASSUME UNCHANGED processVars, mpc'["openclose"] \in Outside => mpc["openclose"] \in Outside
        PROVE  Processing'
    BY <1>t, <1>u DEF Processing, processVars
  <1>1. ASSUME NEW m \in Modules, Insert(m) \/ find_sys_call_table(m) PROVE Processing'
    BY <1>1, <1>t, <1>u, <1>o DEF Insert, find_sys_call_table, Goto, TypeOK
  <1>2. ASSUME NEW m \in Modules, Save(m) \/ Patch(m) \/ Restore(m) PROVE Processing'
    BY <1>2, <1>t, <1>u, <1>o DEF Save, Patch, Restore, Assign, TypeOK
  <1>3. ASSUME NEW m \in Modules, NEW from, NEW to, to \notin Outside,
               \/ disable_page_protection(m, from, to)
               \/ enable_page_protection(m, from, to)
        PROVE  Processing'
    BY <1>3, <1>t, <1>u, <1>o DEF disable_page_protection, enable_page_protection, Goto, TypeOK
  <1>4. ASSUME NEW m \in Modules, Remove(m) PROVE Processing'
    <2>1. ASSUME NEW p \in Processes, ppc'[p] = "call", fn'[p][1] = "openclose"
          PROVE  ppc[p] = "call" /\ m # "openclose"
      BY <1>4, <2>1 DEF Remove, Inside
    <2> QED
      BY <1>4, <1>t, <1>o, <2>1 DEF Remove, Goto, Processing, TypeOK
  <1>5. ASSUME NEW p \in Processes, Call(p) PROVE Processing'
    <2>1. PICK c \in Calls : /\ nr' = [nr EXCEPT ![p] = c]
                             /\ fn' = [fn EXCEPT ![p] = mem["table"][c]]
      BY <1>5 DEF Call
    <2>2. /\ nr'[p] = c /\ fn'[p] = mem["table"][c] /\ mpc' = mpc
          /\ \A q \in Processes \ {p} : ppc'[q] = ppc[q] /\ nr'[q] = nr[q] /\ fn'[q] = fn[q]
      BY <1>5, <1>t, <2>1 DEF Call, TypeOK, moduleVars
    <2> QED
      BY <1>t, <2>2, OpencloseInTable DEF Processing
  <1>6. ASSUME NEW p \in Processes, new_sys_openclose(p) PROVE Processing'
    <2>1. /\ fn'[p] = ref["openclose"][fn[p][2]] /\ mpc' = mpc /\ nr' = nr /\ ppc' = ppc
          /\ \A q \in Processes \ {p} : fn'[q] = fn[q]
      BY <1>6, <1>t DEF new_sys_openclose, TypeOK, moduleVars
    <2>2. fn'[p] = Kernel(nr[p])
      BY <1>6, <2>1, PointerSaved DEF new_sys_openclose
    <2>3. fn'[p][1] # "openclose"
      BY <2>2 DEF Kernel
    <2> QED
      BY <1>t, <2>1, <2>3 DEF Processing
  <1>7. ASSUME NEW p \in Processes, Return(p) PROVE Processing'
    BY <1>7, <1>t DEF Return, Processing, TypeOK, moduleVars
  <1>8. CASE UNCHANGED vars
    BY <1>8, <1>u DEF vars, moduleVars
  <1> QED
    BY <1>1, <1>2, <1>3, <1>4, <1>5, <1>6, <1>7, <1>8 DEF Next, Start, End, Unload, Process

\* The inductive invariant holds in every reachable state, however the modules are
\* loaded and unloaded and the processes make their calls.
THEOREM Invariance == Spec => []Inv
  <1>1. Inv /\ [Next]_vars => Inv'
    BY TypePreserved, ControlPreserved, PointersPreserved, TablePreserved,
       ProcessingPreserved DEF Inv
  <1> QED
    BY InitInv, <1>1, PTL DEF Spec

\* The variables keep their types; among others, no process ever calls through
\* a pointer that is not a function, and none is written into the table.
THEOREM TypeCorrect == Spec => []TypeOK
  <1>1. Inv => TypeOK
    BY DEF Inv
  <1> QED
    BY Invariance, <1>1, PTL

\* A process that has read a new function of openclose from the table can call on
\* to the function of the kernel, whenever it does.
THEOREM ProcessesCallOn == Spec => []CallsOn
  <1>1. Inv => CallsOn
    BY PointerSaved DEF CallsOn
  <1> QED
    BY Invariance, <1>1, PTL

\* interceptor_end reverts the table: a module that is not loaded has left nothing
\* of its own in it.
THEOREM TableReverted == Spec => []Reverted
  <1>1. Inv => Reverted
    <2> SUFFICES ASSUME Inv, NEW m \in Modules, mpc[m] \in {"unloaded", "find"},
                        NEW c \in TargetSet(m)
                 PROVE  mem["table"][c] = Kernel(c)
      BY DEF Reverted
    <2>1. PICK j \in DOMAIN Targets(m) : c = Targets(m)[j]
      BY DEF TargetSet
    <2> QED
      BY <2>1 DEF Inv, Table, IsPatched
  <1> QED
    BY Invariance, <1>1, PTL

\* A loaded module that has found the table intercepts all of its calls; the other
\* modules do not take them away.
THEOREM LoadedIntercepts == Spec => []Intercepts
  <1>1. Inv => Intercepts
    <2> SUFFICES ASSUME Inv, NEW m \in Modules, mpc[m] = "loaded", sys_call_table[m] = "table",
                        NEW c \in TargetSet(m)
                 PROVE  mem["table"][c] = New(m, c)
      BY DEF Intercepts
    <2>1. PICK j \in DOMAIN Targets(m) : c = Targets(m)[j]
      BY DEF TargetSet
    <2> QED
      BY <2>1 DEF Inv, Table, IsPatched
  <1> QED
    BY Invariance, <1>1, PTL

\* openclose never takes another word of the memory for the table, although it
\* is the module that replaces the entry by which the table is recognised.
THEOREM FindsTheTable == Spec => []OpencloseFindsTable
  <1>1. Inv => OpencloseFindsTable
    BY DEF Inv
  <1> QED
    BY Invariance, <1>1, PTL
=============================================================================
