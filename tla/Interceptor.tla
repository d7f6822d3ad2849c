---------------------------- MODULE Interceptor ----------------------------
(***************************************************************************)
(* project2: the kernel modules openclose.c, module.c and intercept.c,     *)
(* which replace entries of the system call table when they are loaded and *)
(* put the old ones back when they are unloaded, while processes go on     *)
(* making system calls on other processors.  The three modules share their *)
(* code for this; they differ in the calls they intercept.                 *)
(*                                                                         *)
(* A function is a pair: who it belongs to (the kernel or a module) and    *)
(* the call it is for.                                                     *)
(***************************************************************************)
EXTENDS Integers, Sequences

CONSTANTS Processes,   \* the processes that make system calls
          NULL         \* the null pointer

Calls == {"open", "close", "syscall1", "syscall2"}
Modules == {"openclose", "module", "intercept"}

\* The calls a module intercepts, in the order of its assignments.
Targets(m) == IF m = "openclose" THEN <<"open", "close">>
              ELSE IF m = "module" THEN <<"syscall1">> ELSE <<"syscall2">>
TargetSet(m) == {Targets(m)[j] : j \in DOMAIN Targets(m)}

Kernel(c) == <<"kernel", c>>   \* sys_open, sys_close, ...
New(m, c) == <<m, c>>          \* new_sys_cs3013_syscall1, ...
Functions == {"kernel", "module", "openclose", "intercept", "data"} \X Calls

ASSUME InterceptorAssumption == NULL \notin Functions /\ NULL \notin {"table", "elsewhere"}

\* The table, and the other memory in which the address of sys_close occurs.
Places == {"table", "elsewhere"}

VARIABLES mem,             \* the words at each place
          mpc, k,          \* each module: where it is, next target
          sys_call_table,  \* each module: the place it has found
          ref,             \* each module: the functions it has saved
          wp,              \* write protection on the processor a module runs on
          ppc, nr, fn,     \* each process: where it is, its call, the function
          caller           \* and the module this function returns to, or NULL

moduleVars == <<mpc, k, sys_call_table, ref, wp>>
processVars == <<ppc, nr, fn, caller>>
vars == <<mem, moduleVars, processVars>>

Unsaved == [c \in Calls |-> NULL]

Init ==
    /\ mem = [x \in Places |-> [c \in Calls |->
                  IF x = "table" THEN Kernel(c) ELSE <<"data", c>>]]
    /\ mpc = [m \in Modules |-> "unloaded"] /\ k = [m \in Modules |-> 1]
    /\ sys_call_table = [m \in Modules |-> NULL]
    /\ ref = [m \in Modules |-> Unsaved]
    /\ wp = [m \in Modules |-> TRUE]
    /\ ppc = [p \in Processes |-> "user"] /\ nr = [p \in Processes |-> "open"]
    /\ fn = [p \in Processes |-> Kernel("open")]
    /\ caller = [p \in Processes |-> NULL]
-----------------------------------------------------------------------------
(* interceptor_start *)

Goto(m, from, to) == mpc[m] = from /\ mpc' = [mpc EXCEPT ![m] = to]

\* Mutant of Assign: one assignment too many.
AssignOneMore(m, at, next) ==
    /\ mpc[m] = at
    /\ IF k[m] <= Len(Targets(m))
          THEN k' = [k EXCEPT ![m] = @ + 1] /\ UNCHANGED mpc
          ELSE k' = [k EXCEPT ![m] = 1] /\ mpc' = [mpc EXCEPT ![m] = next]

\* One assignment of several, for the target k[m].
Assign(m, at, next) ==
    /\ mpc[m] = at
    /\ IF k[m] < Len(Targets(m))
          THEN k' = [k EXCEPT ![m] = @ + 1] /\ UNCHANGED mpc
          ELSE k' = [k EXCEPT ![m] = 1] /\ mpc' = [mpc EXCEPT ![m] = next]

Target(m) == Targets(m)[k[m]]

\* The kernel loads a module with its variables zero.
Insert(m) ==
    /\ Goto(m, "unloaded", "find")
    /\ sys_call_table' = [sys_call_table EXCEPT ![m] = NULL]
    /\ ref' = [ref EXCEPT ![m] = Unsaved]
    /\ UNCHANGED <<mem, k, wp, processVars>>

\* Mutant of Found: the search does not begin below the table.
FoundAnywhere == Places

\* The first place that holds the address of sys_close where the table would.
\* That is the table, unless its entry is replaced: then another word with this
\* address may be found, such as the saved pointer of openclose, or none.  NULL stands
\* for a search that finds none and does not load the module: it returns NULL where
\* unsigned long has as many bits as ULLONG_MAX; on a processor with 32 bits the test
\* of the loop is always true, and the search goes on until it faults.
Found == IF mem["table"]["close"] = Kernel("close") THEN {"table"} ELSE {"elsewhere", NULL}

find_sys_call_table(m) ==
    \E x \in Found :
        /\ Goto(m, "find", IF x = NULL THEN "unloaded" ELSE "save")
        /\ sys_call_table' = [sys_call_table EXCEPT ![m] = x]
        /\ UNCHANGED <<mem, k, ref, wp, processVars>>

\* Mutant of Save: the pointer of the first target is used for all of them.
SaveInFirst(m) ==
    /\ Assign(m, "save", "disable")
    /\ ref' = [ref EXCEPT ![m][Targets(m)[1]] = mem[sys_call_table[m]][Target(m)]]
    /\ UNCHANGED <<mem, sys_call_table, wp, processVars>>

Save(m) ==
    /\ Assign(m, "save", "disable")
    /\ ref' = [ref EXCEPT ![m][Target(m)] = mem[sys_call_table[m]][Target(m)]]
    /\ UNCHANGED <<mem, sys_call_table, wp, processVars>>

disable_page_protection(m, from, to) ==
    /\ Goto(m, from, to)
    /\ wp' = [wp EXCEPT ![m] = FALSE]
    /\ UNCHANGED <<mem, k, sys_call_table, ref, processVars>>

enable_page_protection(m, from, to) ==
    /\ Goto(m, from, to)
    /\ wp' = [wp EXCEPT ![m] = TRUE]
    /\ UNCHANGED <<mem, k, sys_call_table, ref, processVars>>

\* A write to the table is possible only without protection.
Write(m, f) ==
    /\ ~wp[m]
    /\ mem' = [mem EXCEPT ![sys_call_table[m]][Target(m)] = f]

\* Mutant of Patch: openclose leaves close alone.
PatchFirst(m) ==
    /\ mpc[m] = "patch" /\ mpc' = [mpc EXCEPT ![m] = "enable"] /\ UNCHANGED k
    /\ Write(m, New(m, Target(m)))
    /\ UNCHANGED <<sys_call_table, ref, wp, processVars>>

Patch(m) ==
    /\ Assign(m, "patch", "enable")
    /\ Write(m, New(m, Target(m)))
    /\ UNCHANGED <<sys_call_table, ref, wp, processVars>>
-----------------------------------------------------------------------------
(* interceptor_end *)

\* Mutant of Restore: openclose leaves its function in the entry of close.
RestoreFirst(m) ==
    /\ mpc[m] = "restore" /\ mpc' = [mpc EXCEPT ![m] = "enable2"] /\ UNCHANGED k
    /\ Write(m, ref[m][Target(m)])
    /\ UNCHANGED <<sys_call_table, ref, wp, processVars>>

Restore(m) ==
    /\ Assign(m, "restore", "enable2")
    /\ Write(m, ref[m][Target(m)])
    /\ UNCHANGED <<sys_call_table, ref, wp, processVars>>

\* p executes code of m, or will return to it.
Inside(p, m) == ppc[p] = "call" /\ (fn[p][1] = m \/ caller[p] = m)

\* The kernel frees the memory of the module.  It does not know of the processes
\* inside: nothing can be said of what they do next.
Remove(m) ==
    /\ Goto(m, "end", "unloaded")
    /\ ppc' = [p \in Processes |-> IF Inside(p, m) THEN "lost" ELSE ppc[p]]
    /\ UNCHANGED <<mem, k, sys_call_table, ref, wp, nr, fn, caller>>

Start(m) ==
    \/ find_sys_call_table(m)
    \/ Save(m)
    \/ disable_page_protection(m, "disable", "patch")
    \/ Patch(m)
    \/ enable_page_protection(m, "enable", "loaded")

End(m) ==
    \/ Restore(m)
    \/ enable_page_protection(m, "enable2", "end")
    \/ Remove(m)

\* interceptor_end begins; the table is known, or the module had not been loaded.
Unload(m) ==
    /\ sys_call_table[m] # NULL
    /\ disable_page_protection(m, "loaded", "restore")
-----------------------------------------------------------------------------
(* A process makes a system call: the kernel reads the table and calls the *)
(* function it finds.                                                      *)
Call(p) ==
    /\ ppc[p] = "user" /\ ppc' = [ppc EXCEPT ![p] = "call"]
    /\ \E c \in Calls : /\ nr' = [nr EXCEPT ![p] = c]
                        /\ fn' = [fn EXCEPT ![p] = mem["table"][c]]
    /\ caller' = [caller EXCEPT ![p] = NULL]
    /\ UNCHANGED <<mem, moduleVars>>

\* The new functions of openclose.c: they log, then call what was saved.
new_sys_openclose(p) ==
    /\ ppc[p] = "call" /\ fn[p][1] = "openclose"
    /\ fn' = [fn EXCEPT ![p] = ref["openclose"][fn[p][2]]]
    /\ caller' = [caller EXCEPT ![p] = "openclose"]
    /\ UNCHANGED <<mem, moduleVars, ppc, nr>>

\* A function of the kernel, or one of module.c and intercept.c, which do not
\* call the old one, returns.
Return(p) ==
    /\ ppc[p] = "call" /\ fn[p][1] # "openclose"
    /\ ppc' = [ppc EXCEPT ![p] = "user"]
    /\ UNCHANGED <<mem, moduleVars, nr, fn, caller>>

Process(p) == Call(p) \/ new_sys_openclose(p) \/ Return(p)

Next ==
    \/ \E m \in Modules : Insert(m) \/ Start(m) \/ Unload(m) \/ End(m)
    \/ \E p \in Processes : Process(p)

Spec == Init /\ [][Next]_vars
-----------------------------------------------------------------------------
PCs == {"unloaded", "find", "save", "disable", "patch", "enable", "loaded", "restore",
        "enable2", "end"}

TypeOK ==
    /\ mem \in [Places -> [Calls -> Functions]]
    /\ mpc \in [Modules -> PCs]
    /\ k \in [Modules -> {1, 2}] /\ \A m \in Modules : k[m] <= Len(Targets(m))
    /\ sys_call_table \in [Modules -> Places \cup {NULL}]
    /\ ref \in [Modules -> [Calls -> Functions \cup {NULL}]]
    /\ wp \in [Modules -> BOOLEAN]
    /\ ppc \in [Processes -> {"user", "call", "lost"}]
    /\ nr \in [Processes -> Calls] /\ fn \in [Processes -> Functions]
    /\ caller \in [Processes -> Modules \cup {NULL}]

\* From the moment a process has read a new function of openclose from the table
\* until it calls on, the pointer it calls holds the kernel's function for this
\* call: it is saved before the table is changed, and not zeroed by a reload.
CallsOn ==
    \A p \in Processes :
        ppc[p] = "call" /\ fn[p][1] = "openclose"
            => ref["openclose"][nr[p]] = Kernel(nr[p])

\* "Revert all system calls to what they were before we began": while a module
\* is not loaded its calls have the kernel's functions, and so has every call
\* when none is loaded.
Reverted ==
    \A m \in Modules : mpc[m] \in {"unloaded", "find"} =>
        \A c \in TargetSet(m) : mem["table"][c] = Kernel(c)

\* A module that found the table and is loaded intercepts all its calls, whatever
\* the other modules do.
Intercepts ==
    \A m \in Modules : mpc[m] = "loaded" /\ sys_call_table[m] = "table" =>
        \A c \in TargetSet(m) : mem["table"][c] = New(m, c)

\* openclose, the module that changes the entry by which the table is found, finds
\* the table itself, however often it and the others are loaded and unloaded.
OpencloseFindsTable == sys_call_table["openclose"] \in {NULL, "table"}
-----------------------------------------------------------------------------
(* The inductive invariant: what the places of the modules and of the       *)
(* processes say about the table and the saved pointers.                    *)

\* Assignment j of the loop that saves, patches or restores is done.
IsSaved(m, j) == \/ mpc[m] = "save" /\ j < k[m]
                 \/ mpc[m] \in {"disable", "patch", "enable", "loaded", "restore", "enable2", "end"}
IsPatched(m, j) == \/ mpc[m] = "patch" /\ j < k[m]
                   \/ mpc[m] \in {"enable", "loaded"}
                   \/ mpc[m] = "restore" /\ j >= k[m]

\* A module works with a place it has found; the index is used in the loops only.
Control ==
    \A m \in Modules :
        /\ mpc[m] \notin {"unloaded", "find"} => sys_call_table[m] # NULL
        /\ mpc[m] \notin {"save", "patch", "restore"} => k[m] = 1

\* What was saved from the table are the functions of the kernel.
Pointers ==
    \A m \in Modules : \A j \in DOMAIN Targets(m) : IsSaved(m, j) =>
        LET f == ref[m][Targets(m)[j]]
        IN  /\ f # NULL
            /\ sys_call_table[m] = "table" => f = Kernel(Targets(m)[j])

\* Every entry has the new function from its patch to its restoration, and the
\* kernel's before and after.
Table ==
    \A m \in Modules : \A j \in DOMAIN Targets(m) :
        mem["table"][Targets(m)[j]] =
            IF sys_call_table[m] = "table" /\ IsPatched(m, j)
               THEN New(m, Targets(m)[j]) ELSE Kernel(Targets(m)[j])

\* A process enters a new function of openclose through a patched entry, and the
\* pointers stay until the module is removed, which no process inside survives.
Processing ==
    \A p \in Processes : ppc[p] = "call" /\ fn[p][1] = "openclose" =>
        /\ fn[p] = New("openclose", nr[p]) /\ nr[p] \in TargetSet("openclose")
        /\ mpc["openclose"] \notin {"unloaded", "find", "save", "disable"}

\* Saved pointers, entries of the table and the functions that processes are inside of
\* fit together, however loading, unloading and calls interleave.
Inv == TypeOK /\ Control /\ OpencloseFindsTable /\ Pointers /\ Table /\ Processing
=============================================================================
