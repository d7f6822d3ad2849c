------------------------- MODULE ProcessInfoProofs -------------------------
(***************************************************************************)
(* Proofs about the process information call, for any number of tasks and  *)
(* anything that a list head may read as.                                  *)
(***************************************************************************)
EXTENDS ProcessInfo, WellOrder, SequenceTheorems
-----------------------------------------------------------------------------
(* The lists of the kernel. *)

\* The task that fork creates has not been started before.
LEMMA NewTaskNew ==
  ASSUME TasksTypeOK, Lists
  PROVE  /\ NewTask \in Int
         /\ NewTask \in Tasks => state[NewTask] = "new" /\ NewTask # init
  <1> DEFINE T == {t \in Tasks : state[t] # "new"}
  <1>1. init \in T /\ T \in SUBSET Int /\ N \in Int /\ \A t \in T : t <= N
    BY TasksAssumption DEF Lists, Alive, Tasks, init
  <1>2. \E m \in T : \A u \in T : m >= u
    <2> HIDE DEF T
    <2> QED
      BY <1>1, MaxInt
  <1>3. \E t \in Tasks : state[t] # "new" /\ \A u \in Tasks : state[u] # "new" => u <= t
    BY <1>1, <1>2
  <1>4. LastStarted \in Tasks /\ \A u \in Tasks : state[u] # "new" => u <= LastStarted
    BY <1>3 DEF LastStarted
  <1>5. LastStarted \in Int /\ ~(NewTask <= LastStarted)
    BY <1>4 DEF Tasks, NewTask
  <1> QED
    BY <1>1, <1>4, <1>5 DEF NewTask, TasksTypeOK

\* The place of an element of a list.
LEMMA PlaceIs ==
  ASSUME NEW S, NEW list \in Seq(S), NEW n \in Range(list)
  PROVE  Place(list, n) \in 1 .. Len(list) /\ list[Place(list, n)] = n
  <1>1. \E j \in DOMAIN list : list[j] = n
    BY DEF Range
  <1> QED
    BY <1>1 DEF Place

\* Taking an element out of a list leaves the others.
LEMMA WithoutIs ==
  ASSUME NEW S, NEW list \in Seq(S), NEW t \in Range(list), Distinct(list)
  PROVE  /\ Without(list, t) \in Seq(S) /\ Distinct(Without(list, t))
         /\ Range(Without(list, t)) = Range(list) \ {t}
  <1> DEFINE k == Place(list, t)
             n == Len(list)
             a == SubSeq(list, 1, k - 1)
             b == SubSeq(list, k + 1, n)
             w == a \o b
  <1>1. k \in 1 .. n /\ list[k] = t /\ n \in Nat /\ k \in Int
    BY PlaceIs
  <1> HIDE DEF k
  <1>2. a \in Seq(S) /\ b \in Seq(S) /\ Len(a) = k - 1 /\ Len(b) = n - k
    BY <1>1
  <1>3. (\A j \in 1 .. k - 1 : a[j] = list[j]) /\ \A j \in 1 .. n - k : b[j] = list[k + j]
    <2>1. \A j \in 1 .. n : list[j] \in S
      BY <1>1
    <2>2. \A j \in 1 .. k - 1 : a[j] = list[j]
      BY <1>1
    <2>3. ASSUME NEW j \in 1 .. n - k PROVE b[j] = list[k + j]
      <3>1. \A j2 \in k + 1 .. n : list[j2] \in S
        BY <1>1, <2>1
      <3>2. k + 1 \in Int /\ n \in Int /\ j \in 1 .. n - (k + 1) + 1 /\ k + 1 + j - 1 = k + j
        BY <1>1
      <3> QED
        BY <3>1, <3>2, SubSeqProperties
    <2> QED
      BY <2>2, <2>3
  <1> HIDE DEF a, b
  <1>4. w \in Seq(S) /\ Len(w) = n - 1
    BY <1>1, <1>2
  <1>5. \A j \in 1 .. n - 1 : w[j] = list[IF j < k THEN j ELSE j + 1]
    <2> SUFFICES ASSUME NEW j \in 1 .. n - 1 PROVE w[j] = list[IF j < k THEN j ELSE j + 1]
      OBVIOUS
    <2>1. CASE j < k
      BY <1>1, <1>2, <1>3, <2>1
    <2>2. CASE ~(j < k)
      <3>1. j - Len(a) \in 1 .. n - k /\ k + (j - Len(a)) = j + 1 /\ ~(j <= Len(a))
        BY <1>1, <1>2, <2>2
      <3>2. w[j] = b[j - Len(a)]
        <4>1. j \in 1 .. Len(a) + Len(b)
          BY <1>1, <1>2
        <4> QED
          BY <1>2, <3>1, <4>1, ConcatProperties
      <3> QED
        BY <1>3, <2>2, <3>1, <3>2
    <2> QED
      BY <2>1, <2>2
  <1>6. Without(list, t) = w
    BY DEF Without, a, b, k
  <1> HIDE DEF w
  <1>7. DOMAIN w = 1 .. n - 1 /\ DOMAIN list = 1 .. n
    BY <1>1, <1>4
  <1>8. Distinct(w)
    <2> SUFFICES ASSUME NEW x \in 1 .. n - 1, NEW y \in 1 .. n - 1, w[x] = w[y] PROVE x = y
      BY <1>7 DEF Distinct
    <2> DEFINE u == IF x < k THEN x ELSE x + 1
               v == IF y < k THEN y ELSE y + 1
    <2>1. u \in DOMAIN list /\ v \in DOMAIN list /\ list[u] = list[v]
      BY <1>1, <1>5, <1>7
    <2>2. u = v
      BY <2>1 DEF Distinct
    <2> QED
      BY <1>1, <2>2
  <1>9. Range(w) = Range(list) \ {t}
    <2>1. ASSUME NEW j \in 1 .. n - 1 PROVE w[j] \in Range(list) \ {t}
      <3> DEFINE u == IF j < k THEN j ELSE j + 1
      <3>1. u \in DOMAIN list /\ w[j] = list[u] /\ u # k /\ k \in DOMAIN list
        BY <1>1, <1>5, <1>7
      <3> QED
        BY <1>1, <3>1 DEF Range, Distinct
    <2>2. ASSUME NEW x \in Range(list) \ {t} PROVE x \in Range(w)
      <3>1. PICK j \in 1 .. n : list[j] = x
        BY <1>7 DEF Range
      <3> DEFINE u == IF j < k THEN j ELSE j - 1
      <3>2. j # k
        BY <1>1, <2>2, <3>1
      <3>3. u \in 1 .. n - 1 /\ (IF u < k THEN u ELSE u + 1) = j
        BY <1>1, <3>2
      <3>4. w[u] = x
        BY <1>5, <3>1, <3>3
      <3> QED
        BY <1>7, <3>3, <3>4 DEF Range
    <2> QED
      BY <1>7, <2>1, <2>2 DEF Range
  <1> QED
    BY <1>4, <1>6, <1>8, <1>9

\* Adding an element at the end, or a list of others.
LEMMA AppendIs ==
  ASSUME NEW S, NEW list \in Seq(S), NEW t \in S \ Range(list), Distinct(list)
  PROVE  /\ Append(list, t) \in Seq(S) /\ Distinct(Append(list, t))
         /\ Range(Append(list, t)) = Range(list) \cup {t}
  <1> DEFINE n == Len(list)
             w == Append(list, t)
  <1>1. /\ w \in Seq(S) /\ Len(w) = n + 1 /\ w[n + 1] = t /\ n \in Nat
        /\ \A j \in 1 .. n : w[j] = list[j]
    OBVIOUS
  <1>2. DOMAIN w = 1 .. n + 1 /\ DOMAIN list = 1 .. n
    BY <1>1
  <1> HIDE DEF w
  <1>3. \A j \in 1 .. n : list[j] # t
    BY <1>2 DEF Range
  <1>4. Distinct(w)
    <2> SUFFICES ASSUME NEW x \in 1 .. n + 1, NEW y \in 1 .. n + 1, w[x] = w[y] PROVE x = y
      BY <1>2 DEF Distinct
    <2>1. (x \in 1 .. n \/ x = n + 1) /\ (y \in 1 .. n \/ y = n + 1)
      BY <1>1
    <2> QED
      BY <1>1, <1>2, <1>3, <2>1 DEF Distinct
  <1>5. Range(w) = Range(list) \cup {t}
    <2>1. 1 .. n + 1 = (1 .. n) \cup {n + 1}
      BY <1>1
    <2> QED
      BY <1>1, <1>2, <2>1 DEF Range
  <1> QED
    BY <1>1, <1>4, <1>5 DEF w

LEMMA ConcatIs ==
  ASSUME NEW S, NEW s \in Seq(S), NEW t \in Seq(S), Distinct(s), Distinct(t),
         Range(s) \cap Range(t) = {}
  PROVE  /\ s \o t \in Seq(S) /\ Distinct(s \o t)
         /\ Range(s \o t) = Range(s) \cup Range(t)
  <1> DEFINE m == Len(s)
             n == Len(t)
             w == s \o t
  <1>1. /\ w \in Seq(S) /\ Len(w) = m + n /\ m \in Nat /\ n \in Nat
        /\ \A j \in 1 .. m : w[j] = s[j]
        /\ \A j \in m + 1 .. m + n : w[j] = t[j - m]
    OBVIOUS
  <1>2. DOMAIN w = 1 .. m + n /\ DOMAIN s = 1 .. m /\ DOMAIN t = 1 .. n
    BY <1>1
  <1> HIDE DEF w, m, n
  <1>3. \A j \in 1 .. m + n : j \in 1 .. m \/ (j \in m + 1 .. m + n /\ j - m \in 1 .. n)
    BY <1>1
  <1>4. \A x \in 1 .. m : \A y \in 1 .. n : s[x] # t[y]
    BY <1>2 DEF Range
  <1>5. Distinct(w)
    <2> SUFFICES ASSUME NEW x \in 1 .. m + n, NEW y \in 1 .. m + n, w[x] = w[y] PROVE x = y
      BY <1>2 DEF Distinct
    <2>1. CASE x \in 1 .. m /\ y \in 1 .. m
      BY <1>1, <1>2, <2>1 DEF Distinct
    <2>2. CASE x \in m + 1 .. m + n /\ y \in m + 1 .. m + n
      <3>1. x - m \in 1 .. n /\ y - m \in 1 .. n /\ t[x - m] = t[y - m]
        BY <1>1, <2>2
      <3>2. x - m = y - m
        BY <1>2, <3>1 DEF Distinct
      <3> QED
        BY <1>1, <3>2
    <2>3. CASE x \in 1 .. m /\ y \in m + 1 .. m + n
      BY <1>1, <1>4, <2>3
    <2>4. CASE x \in m + 1 .. m + n /\ y \in 1 .. m
      BY <1>1, <1>4, <2>4
    <2> QED
      BY <1>3, <2>1, <2>2, <2>3, <2>4
  <1>6. Range(w) = Range(s) \cup Range(t)
    <2>1. ASSUME NEW j \in 1 .. m + n PROVE w[j] \in Range(s) \cup Range(t)
      BY <1>1, <1>2, <1>3 DEF Range
    <2>2. ASSUME NEW j \in 1 .. m PROVE s[j] \in Range(w)
      <3>1. j \in 1 .. m + n
        BY <1>1
      <3> QED
        BY <1>1, <1>2, <3>1 DEF Range
    <2>3. ASSUME NEW j \in 1 .. n PROVE t[j] \in Range(w)
      <3>1. m + j \in 1 .. m + n /\ m + j \in m + 1 .. m + n /\ m + j - m = j
        BY <1>1
      <3>2. w[m + j] = t[j]
        BY <1>1, <3>1
      <3> QED
        BY <1>2, <3>1, <3>2 DEF Range
    <2> QED
      BY <1>2, <2>1, <2>2, <2>3 DEF Range
  <1> QED
    BY <1>1, <1>5, <1>6 DEF w

\* fork changes the list of the parent, and nothing of other tasks.
LEMMA AddKeeps ==
  ASSUME TasksTypeOK, Lists, NEW p \in Tasks, AddTask(p)
  PROVE  /\ TasksTypeOK' /\ Lists'
         /\ NewTask \in Tasks /\ state[NewTask] = "new" /\ NewTask # init /\ NewTask # p
         /\ state'[NewTask] = "alive" /\ parent'[NewTask] = p /\ children'[NewTask] = << >>
         /\ children'[p] = Append(children[p], NewTask)
         /\ \A t \in Tasks \ {NewTask} : state'[t] = state[t] /\ parent'[t] = parent[t]
         /\ \A t \in Tasks \ {p} : children'[t] = children[t]
         /\ Unlocked
  <1>0. PICK n \in Tasks : n = NewTask
    BY DEF AddTask
  <1>1. n \in Tasks /\ state[n] = "new" /\ n # init
    BY <1>0, NewTaskNew
  <1>2. /\ state' = [state EXCEPT ![n] = "alive"] /\ parent' = [parent EXCEPT ![n] = p]
        /\ children' = [children EXCEPT ![p] = Append(@, n)] /\ state[p] = "alive" /\ Unlocked
    BY <1>0 DEF AddTask, Alive
  <1>3. n # p /\ ~ChildOf(n, p) /\ state[n] \notin {"alive", "adopting"}
    BY <1>1, <1>2 DEF ChildOf, Linked
  <1>4. n \notin Range(children[p]) /\ children[n] = << >>
    BY <1>1, <1>3 DEF Lists
  <1>5. /\ Append(children[p], n) \in Seq(Tasks) /\ Distinct(Append(children[p], n))
        /\ Range(Append(children[p], n)) = Range(children[p]) \cup {n}
    <2>1. children[p] \in Seq(Tasks) /\ n \in Tasks \ Range(children[p]) /\ Distinct(children[p])
      BY <1>1, <1>4 DEF TasksTypeOK, Lists
    <2> QED
      BY <2>1, AppendIs
  <1>6. /\ state'[n] = "alive" /\ parent'[n] = p /\ children'[n] = << >>
        /\ children'[p] = Append(children[p], n)
        /\ \A t \in Tasks \ {n} : state'[t] = state[t] /\ parent'[t] = parent[t]
        /\ \A t \in Tasks \ {p} : children'[t] = children[t]
    BY <1>1, <1>2, <1>3, <1>4 DEF TasksTypeOK
  <1>7. TasksTypeOK'
    BY <1>1, <1>2, <1>5 DEF TasksTypeOK, States
  <1>8. \A q, c \in Tasks : c \in Range(children'[q]) <=> ChildOf(c, q)'
    <2> SUFFICES ASSUME NEW q \in Tasks, NEW c \in Tasks
                 PROVE  c \in Range(children'[q]) <=> ChildOf(c, q)'
      OBVIOUS
    <2>0. c \in Range(children[q]) <=> ChildOf(c, q)
      BY DEF Lists
    <2>1. CASE c = n
      <3>1. ~ChildOf(n, q)
        BY <1>1 DEF ChildOf, Linked
      <3>2. ChildOf(n, q)' <=> q = p
        BY <1>1, <1>6 DEF ChildOf, Linked
      <3>3. n \in Range(children'[q]) <=> q = p
        BY <1>5, <1>6, <2>0, <2>1, <3>1
      <3> QED
        BY <2>1, <3>2, <3>3
    <2>2. CASE c # n
      <3>1. ChildOf(c, q)' <=> ChildOf(c, q)
        BY <1>6, <2>2 DEF ChildOf, Linked
      <3>2. c \in Range(children'[q]) <=> c \in Range(children[q])
        <4>1. Range(children'[p]) = Range(children[p]) \cup {n}
          BY <1>5, <1>6
        <4>2. q # p => children'[q] = children[q]
          BY <1>6
        <4> QED
          BY <2>2, <4>1, <4>2
      <3> QED
        BY <2>0, <3>1, <3>2
    <2> QED
      BY <2>1, <2>2
  <1>9. Lists'
    <2>1. Alive(init)'
      <3>1. init \in Tasks /\ state[init] = "alive"
        BY TasksAssumption DEF Lists, Alive, init, Tasks
      <3> QED
        BY <1>1, <1>6, <3>1 DEF Alive, init
    <2>2. \A q \in Tasks : Distinct(children'[q])
      BY <1>5, <1>6 DEF Lists
    <2>3. \A q \in Tasks : state'[q] \notin {"alive", "adopting"} => children'[q] = << >>
      BY <1>2, <1>3, <1>6 DEF Lists
    <2>4. \A t \in Tasks : t # init => parent'[t] # t
      BY <1>3, <1>6 DEF Lists
    <2>5. \A t \in Tasks : state'[t] # "adopting"
      BY <1>2, <1>6 DEF Unlocked
    <2> QED
      BY <1>8, <2>1, <2>2, <2>3, <2>4, <2>5 DEF Lists, Alive, Distinct, ChildOf, Linked
  <1> QED
    BY <1>0, <1>1, <1>2, <1>3, <1>6, <1>7, <1>9

\* A wait takes the task out of the list of its parent, as does a task that nobody will
\* wait for.
LEMMA ReleaseKeeps ==
  ASSUME TasksTypeOK, Lists, NEW t \in Tasks, NEW from \in {"zombie", "dead"},
         ReleaseTask(t, from)
  PROVE  /\ TasksTypeOK' /\ Lists' /\ parent' = parent
         /\ t \in Range(children[parent[t]]) /\ state[t] = from /\ state'[t] = "gone"
         /\ t # init /\ Unlocked
         /\ \A u \in Tasks \ {t} : state'[u] = state[u]
         /\ \A u \in Tasks \ {parent[t]} : children'[u] = children[u]
         /\ Range(children'[parent[t]]) = Range(children[parent[t]]) \ {t}
  <1> DEFINE p == parent[t]
             w == Without(children[p], t)
  <1>1. p \in Tasks /\ state[t] = from /\ state[t] \in {"zombie", "dead"} /\ t # init /\ Unlocked
    BY DEF ReleaseTask, TasksTypeOK, Lists, Alive
  <1>2. t \in Range(children[p])
    BY <1>1 DEF Lists, ChildOf, Linked
  <1>3. w \in Seq(Tasks) /\ Distinct(w) /\ Range(w) = Range(children[p]) \ {t}
    <2>1. children[p] \in Seq(Tasks) /\ Distinct(children[p])
      BY <1>1 DEF TasksTypeOK, Lists
    <2> QED
      BY <1>2, <2>1, WithoutIs
  <1>4. /\ state' = [state EXCEPT ![t] = "gone"] /\ parent' = parent
        /\ children' = [children EXCEPT ![p] = w]
    BY DEF ReleaseTask
  <1> HIDE DEF p, w
  <1>5. /\ state'[t] = "gone" /\ children'[p] = w
        /\ \A u \in Tasks \ {t} : state'[u] = state[u]
        /\ \A u \in Tasks \ {p} : children'[u] = children[u]
    BY <1>1, <1>4 DEF TasksTypeOK
  <1>6. TasksTypeOK'
    BY <1>1, <1>3, <1>4 DEF TasksTypeOK, States
  <1>7. \A q, c \in Tasks : c \in Range(children'[q]) <=> ChildOf(c, q)'
    <2> SUFFICES ASSUME NEW q \in Tasks, NEW c \in Tasks
                 PROVE  c \in Range(children'[q]) <=> ChildOf(c, q)'
      OBVIOUS
    <2>0. c \in Range(children[q]) <=> ChildOf(c, q)
      BY DEF Lists
    <2>1. CASE c = t
      <3>1. ~ChildOf(c, q)'
        BY <1>5, <2>1 DEF ChildOf, Linked
      <3>2. q # p => ~ChildOf(c, q)
        BY <2>1 DEF ChildOf, p
      <3> QED
        BY <1>3, <1>5, <2>0, <2>1, <3>1, <3>2
    <2>2. CASE c # t
      <3>1. ChildOf(c, q)' <=> ChildOf(c, q)
        BY <1>4, <1>5, <2>2 DEF ChildOf, Linked
      <3>2. c \in Range(children'[q]) <=> c \in Range(children[q])
        BY <1>3, <1>5, <2>2
      <3> QED
        BY <2>0, <3>1, <3>2
    <2> QED
      BY <2>1, <2>2
  <1>8. Lists'
    <2>1. Alive(init)'
      <3>1. init \in Tasks /\ state[init] = "alive"
        BY TasksAssumption DEF Lists, Alive, init, Tasks
      <3> QED
        BY <1>1, <1>5, <3>1 DEF Alive, init
    <2>2. \A q \in Tasks : Distinct(children'[q])
      BY <1>3, <1>5 DEF Lists
    <2>3. \A q \in Tasks : state'[q] \notin {"alive", "adopting"} => children'[q] = << >>
      <3>1. children[p] # << >>
        BY <1>1, <1>2 DEF Range
      <3>2. state[p] \in {"alive", "adopting"} /\ p # t
        BY <1>1, <1>2, <3>1 DEF Lists
      <3> QED
        BY <1>1, <1>5, <3>2 DEF Lists
    <2>4. \A u \in Tasks : state'[u] # "adopting"
      BY <1>1, <1>5 DEF Unlocked
    <2> QED
      BY <1>4, <1>7, <2>1, <2>2, <2>3, <2>4 DEF Lists, Alive, Distinct, ChildOf, Linked
  <1> QED
    BY <1>1, <1>2, <1>3, <1>4, <1>5, <1>6, <1>8 DEF p

\* The other steps of an exit take a task from one stage to the next, and leave the lists
\* as they are.
Stage(t, ignored) == BeginExit(t) \/ EndAdoption(t) \/ NotifyParent(t, ignored)
LEMMA StageKeeps ==
  ASSUME TasksTypeOK, Lists, NEW t \in Tasks, NEW ignored \in BOOLEAN, Stage(t, ignored)
  PROVE  /\ TasksTypeOK' /\ Lists' /\ parent' = parent /\ children' = children /\ t # init
         /\ \A u \in Tasks \ {t} : state'[u] = state[u]
         /\ \/ state[t] = "alive" /\ state'[t] = "adopting" /\ Unlocked
            \/ state[t] = "adopting" /\ state'[t] = "leaving" /\ children[t] = << >>
            \/ state[t] = "leaving" /\ state'[t] \in {"zombie", "dead"} /\ Unlocked
  <1>1. /\ parent' = parent /\ children' = children /\ state' = [state EXCEPT ![t] = state'[t]]
        /\ \/ state[t] = "alive" /\ state'[t] = "adopting" /\ Unlocked /\ t # init
           \/ state[t] = "adopting" /\ state'[t] = "leaving" /\ children[t] = << >>
           \/ state[t] = "leaving" /\ state'[t] \in {"zombie", "dead"} /\ Unlocked
    <2>1. CASE BeginExit(t)
      BY <2>1 DEF BeginExit, Alive, TasksTypeOK
    <2>2. CASE EndAdoption(t)
      BY <2>2 DEF EndAdoption, TasksTypeOK
    <2>3. CASE NotifyParent(t, ignored)
      BY <2>3 DEF NotifyParent, TasksTypeOK
    <2> QED
      BY <2>1, <2>2, <2>3 DEF Stage
  <1>2. t # init
    BY <1>1 DEF Lists, Alive
  <1>3. \A u \in Tasks \ {t} : state'[u] = state[u]
    BY <1>1 DEF TasksTypeOK
  <1>4. TasksTypeOK'
    <2>1. PICK s : s = state'[t]
      OBVIOUS
    <2>2. s \in States /\ state' = [state EXCEPT ![t] = s]
      BY <1>1, <2>1 DEF States
    <2> QED
      BY <1>1, <2>2 DEF TasksTypeOK
  <1>5. Lists'
    <2>1. Alive(init)'
      <3>1. init \in Tasks /\ state[init] = "alive"
        BY TasksAssumption DEF Lists, Alive, init, Tasks
      <3> QED
        BY <1>2, <1>3, <3>1 DEF Alive, init
    <2>2. \A u, q \in Tasks : ChildOf(u, q)' <=> ChildOf(u, q)
      BY <1>1, <1>3 DEF ChildOf, Linked
    <2>3. \A q \in Tasks : state'[q] \notin {"alive", "adopting"} => children'[q] = << >>
      BY <1>1, <1>3 DEF Lists
    <2>4. \A u, v \in Tasks : state'[u] = "adopting" /\ state'[v] = "adopting" => u = v
      BY <1>1, <1>3 DEF Lists, Unlocked
    <2> QED
      BY <1>1, <2>1, <2>2, <2>3, <2>4 DEF Lists, Distinct
  <1> QED
    BY <1>1, <1>2, <1>3, <1>4, <1>5

\* Init adopts a child: it leaves one list and is in the other.
LEMMA AdoptKeeps ==
  ASSUME TasksTypeOK, Lists, NEW t \in Tasks, AdoptFirst(t)
  PROVE  /\ TasksTypeOK' /\ Lists' /\ state' = state /\ state[t] = "adopting" /\ t # init
         /\ children[t] # << >>
         /\ \E c \in Tasks : /\ ChildOf(c, t) /\ parent'[c] = init
                             /\ \A u \in Tasks \ {c} : parent'[u] = parent[u]
         /\ \A u \in Tasks \ {t, init} : children'[u] = children[u]
  <1>1. /\ state' = state /\ state[t] = "adopting" /\ children[t] # << >> /\ init \in Tasks
        /\ t # init
    BY TasksAssumption DEF AdoptFirst, Lists, Alive, init, Tasks
  <1>2. PICK c : c = Head(children[t])
    OBVIOUS
  <1>3. /\ parent' = [parent EXCEPT ![c] = init]
        /\ children' = [q \in Tasks |-> IF q = t THEN Without(children[t], c)
                                        ELSE IF q = init THEN Append(children[init], c)
                                        ELSE children[q]]
    BY <1>2 DEF AdoptFirst
  <1>4. c \in Range(children[t])
    <2>1. children[t] \in Seq(Tasks) /\ children[t] # << >>
      BY <1>1 DEF TasksTypeOK
    <2>2. c = children[t][1] /\ 1 \in DOMAIN children[t]
      BY <1>2, <2>1
    <2> QED
      BY <2>2 DEF Range
  <1>5. c \in Tasks /\ c # t /\ c # init /\ ChildOf(c, t)
    <2>1. c \in Tasks
      BY <1>4 DEF TasksTypeOK, Range
    <2>2. ChildOf(c, t)
      BY <1>4, <2>1 DEF Lists
    <2> QED
      BY <2>1, <2>2 DEF Lists, ChildOf, Linked
  <1>6. c \notin Range(children[init])
    BY <1>1, <1>5 DEF Lists, ChildOf
  <1> DEFINE w == Without(children[t], c)
             z == Append(children[init], c)
  <1>7. w \in Seq(Tasks) /\ Distinct(w) /\ Range(w) = Range(children[t]) \ {c}
    <2>1. children[t] \in Seq(Tasks) /\ Distinct(children[t])
      BY DEF TasksTypeOK, Lists
    <2> QED
      BY <1>4, <2>1, WithoutIs
  <1>8. z \in Seq(Tasks) /\ Distinct(z) /\ Range(z) = Range(children[init]) \cup {c}
    <2>1. children[init] \in Seq(Tasks) /\ Distinct(children[init]) /\ c \in Tasks \ Range(children[init])
      BY <1>1, <1>5, <1>6 DEF TasksTypeOK, Lists
    <2> QED
      BY <2>1, AppendIs
  <1>9. /\ children'[t] = w /\ children'[init] = z
        /\ \A u \in Tasks \ {t, init} : children'[u] = children[u]
        /\ parent'[c] = init /\ \A u \in Tasks \ {c} : parent'[u] = parent[u]
    BY <1>1, <1>3, <1>5 DEF TasksTypeOK
  <1>10. TasksTypeOK'
    <2>1. \A u \in Tasks : children'[u] \in Seq(Tasks)
      BY <1>7, <1>8, <1>9 DEF TasksTypeOK
    <2>2. children' \in [Tasks -> Seq(Tasks)]
      <3>1. children' = [u \in Tasks |-> children'[u]]
        BY <1>3
      <3> QED
        BY <2>1, <3>1
    <2> QED
      BY <1>1, <1>3, <1>5, <2>2 DEF TasksTypeOK
  <1> HIDE DEF w, z
  <1>11. \A q, u \in Tasks : u \in Range(children'[q]) <=> ChildOf(u, q)'
    <2> SUFFICES ASSUME NEW q \in Tasks, NEW u \in Tasks
                 PROVE  u \in Range(children'[q]) <=> ChildOf(u, q)'
      OBVIOUS
    <2>0. \A x \in Tasks : u \in Range(children[x]) <=> ChildOf(u, x)
      BY DEF Lists
    <2>p. ChildOf(u, q)' <=> Linked(u) /\ (IF u = c THEN q = init ELSE parent[u] = q)
      BY <1>1, <1>9 DEF ChildOf, Linked
    <2>1. CASE u = c
      <3>1. Linked(u) /\ (ChildOf(u, q)' <=> q = init)
        BY <1>5, <2>1, <2>p DEF ChildOf
      <3>2. u \notin Range(children'[t]) /\ u \in Range(children'[init])
        BY <1>7, <1>8, <1>9, <2>1
      <3>3. q \notin {t, init} => u \notin Range(children'[q])
        BY <1>5, <1>9, <2>0, <2>1 DEF ChildOf
      <3> QED
        BY <1>1, <3>1, <3>2, <3>3
    <2>2. CASE u # c
      <3>1. ChildOf(u, q)' <=> ChildOf(u, q)
        BY <2>2, <2>p DEF ChildOf
      <3>2. u \in Range(children'[q]) <=> u \in Range(children[q])
        BY <1>7, <1>8, <1>9, <2>2
      <3> QED
        BY <2>0, <3>1, <3>2
    <2> QED
      BY <2>1, <2>2
  <1>12. Lists'
    <2>1. Alive(init)'
      BY <1>1 DEF Lists, Alive, init
    <2>2. \A q \in Tasks : Distinct(children'[q])
      BY <1>7, <1>8, <1>9 DEF Lists
    <2>3. \A q \in Tasks : state'[q] \notin {"alive", "adopting"} => children'[q] = << >>
      BY <1>1, <1>9 DEF Lists, Alive
    <2>4. \A u \in Tasks : u # init => parent'[u] # u
      BY <1>5, <1>9 DEF Lists
    <2>5. \A u, v \in Tasks : state'[u] = "adopting" /\ state'[v] = "adopting" => u = v
      BY <1>1 DEF Lists
    <2> QED
      BY <1>11, <2>1, <2>2, <2>3, <2>4, <2>5 DEF Lists, Distinct
  <1> QED
    BY <1>1, <1>5, <1>9, <1>10, <1>12
-----------------------------------------------------------------------------
(* Following the links. *)

\* The ring of the children of p.
LEMMA RingIs ==
  ASSUME TasksTypeOK, Lists, NEW p \in Tasks
  PROVE  /\ Ring(p) \in Seq(Int) /\ Len(Ring(p)) \in Nat \ {0} /\ Distinct(Ring(p))
         /\ Range(Ring(p)) = {-p} \cup Range(children[p])
         /\ DOMAIN Ring(p) = 1 .. Len(Ring(p))
         /\ -p \notin Tasks /\ -p \in Int /\ Range(children[p]) \subseteq Tasks
         /\ children[p] = << >> => Ring(p) = << -p >>
  <1> DEFINE s == << -p >>
             t == children[p]
  <1>1. \A c \in Tasks : c \in Int /\ c > 0
    BY DEF Tasks
  <1>2. t \in Seq(Tasks) /\ Distinct(t)
    BY DEF TasksTypeOK, Lists
  <1>3. t \in Seq(Int)
    <2>1. Tasks \subseteq Int
      BY <1>1
    <2> HIDE DEF t
    <2> QED
      BY <1>2, <2>1, SeqMonotonic
  <1>4. s \in Seq(Int) /\ Distinct(s) /\ Range(s) = {-p} /\ Len(s) = 1
    BY <1>1 DEF Distinct, Range
  <1>5. Range(t) \subseteq Tasks
    BY <1>2 DEF Range
  <1>6. -p \notin Tasks /\ -p \in Int
    BY <1>1
  <1>7. Range(s) \cap Range(t) = {}
    BY <1>4, <1>5, <1>6
  <1>8. Ring(p) = s \o t
    BY DEF Ring
  <1>e. t = << >> => Ring(p) = s
    BY <1>8
  <1> HIDE DEF s, t
  <1>9. s \o t \in Seq(Int) /\ Distinct(s \o t) /\ Range(s \o t) = Range(s) \cup Range(t)
    BY <1>2, <1>3, <1>4, <1>7, ConcatIs
  <1>10. Len(s \o t) = 1 + Len(t) /\ Len(t) \in Nat /\ DOMAIN (s \o t) = 1 .. Len(s \o t)
    <2>1. Len(s \o t) = Len(s) + Len(t)
      BY <1>3, <1>4, ConcatProperties
    <2>2. Len(t) \in Nat /\ DOMAIN (s \o t) = 1 .. Len(s \o t)
      BY <1>3, <1>9, LenProperties
    <2> QED
      BY <1>4, <2>1, <2>2
  <1> QED
    BY <1>e, <1>4, <1>5, <1>6, <1>8, <1>9, <1>10 DEF s, t

\* A node follows in its ring.
LEMMA FollowIn ==
  ASSUME NEW ring \in Seq(Int), NEW n \in Range(ring), NEW d \in Int
  PROVE  ring[((Place(ring, n) - 1 + d) % Len(ring)) + 1] \in Range(ring)
  <1> DEFINE L == Len(ring)
             x == Place(ring, n) - 1 + d
             r == x % L
  <1>1. Place(ring, n) \in 1 .. L /\ L \in Nat /\ DOMAIN ring = 1 .. L
    BY PlaceIs
  <1>2. x \in Int /\ L \in Nat \ {0}
    BY <1>1
  <1> HIDE DEF x, L
  <1>3. r \in 0 .. L - 1
    BY <1>2
  <1> HIDE DEF r
  <1>4. r + 1 \in DOMAIN ring
    BY <1>1, <1>2, <1>3
  <1>5. ring[r + 1] \in Range(ring)
    BY <1>4 DEF Range
  <1> QED
    BY <1>5 DEF r, x, L

\* The ring a node is in: the one of the parent for the head and the entries of a list,
\* a ring of its own for a task that was released.
LEMMA RingOfIs ==
  ASSUME TasksTypeOK, Lists, NEW p \in Tasks
  PROVE  /\ RingOf(-p) = Ring(p) /\ -p \in Range(Ring(p))
         /\ \A t \in Tasks : ChildOf(t, p) => RingOf(t) = Ring(p) /\ t \in Range(Ring(p))
         /\ \A t \in Tasks : state[t] = "gone" => RingOf(t) = << t >>
  <1>1. \A c \in Tasks : c \in Int /\ ~(c < 0) /\ -c < 0 /\ -(-c) = c
    BY DEF Tasks
  <1>2. RingOf(-p) = Ring(p) /\ -p \in Range(Ring(p))
    BY <1>1, RingIs DEF RingOf
  <1>3. ASSUME NEW t \in Tasks, ChildOf(t, p) PROVE RingOf(t) = Ring(p) /\ t \in Range(Ring(p))
    <2>1. t \in Range(children[p])
      BY <1>3 DEF Lists
    <2>2. t \in Range(Ring(p))
      BY <2>1, RingIs
    <2> QED
      BY <1>1, <1>3, <2>2 DEF RingOf, ChildOf, Linked
  <1>4. \A t \in Tasks : state[t] = "gone" => RingOf(t) = << t >>
    BY <1>1 DEF RingOf
  <1> QED
    BY <1>2, <1>3, <1>4

\* Where a step from a node of the list of p leads: it stays in that list.
LEMMA FollowInList ==
  ASSUME TasksTypeOK, Lists, NEW p \in Tasks, NEW d \in Int, NEW n,
         n = -p \/ (n \in Tasks /\ ChildOf(n, p))
  PROVE  Follow(n, d) = -p \/ (Follow(n, d) \in Tasks /\ ChildOf(Follow(n, d), p))
  <1>1. RingOf(n) = Ring(p) /\ n \in Range(Ring(p)) /\ Ring(p) \in Seq(Int)
    BY RingOfIs, RingIs
  <1>2. Follow(n, d) \in Range(Ring(p))
    BY <1>1, FollowIn DEF Follow
  <1>3. Range(Ring(p)) = {-p} \cup Range(children[p]) /\ Range(children[p]) \subseteq Tasks
    BY RingIs
  <1> QED
    BY <1>2, <1>3 DEF Lists

\* A step from a node that is linked to itself leads nowhere.
LEMMA FollowSelf ==
  ASSUME NEW n \in Int, NEW d \in Int, RingOf(n) = << n >>
  PROVE  Follow(n, d) = n /\ Len(RingOf(n)) = 1
  <1> DEFINE ring == RingOf(n)
  <1>1. ring \in Seq(Int) /\ n \in Range(ring) /\ Range(ring) = {n} /\ Len(ring) = 1
    BY DEF Range
  <1> HIDE DEF ring
  <1>2. ring[((Place(ring, n) - 1 + d) % Len(ring)) + 1] \in Range(ring)
    BY <1>1, FollowIn
  <1>3. Follow(n, d) \in Range(ring)
    BY <1>2 DEF Follow, ring
  <1> QED
    BY <1>1, <1>3 DEF ring

\* A walk through the children stays at the nodes of AtChildren.
LEMMA NextOfChildren ==
  ASSUME TasksTypeOK, Lists, current \in Tasks \ {init}, AtChildren, NEW d \in Int
  PROVE  \/ Follow(head, d) = -current
         \/ /\ Follow(head, d) \in Tasks /\ OwnChild(Follow(head, d))
            /\ \/ state[Follow(head, d)] = "gone" /\ Follow(head, d) = head
               \/ ChildOf(Follow(head, d), current)
  <1>1. CASE OwnChild(head) /\ state[head] = "gone"
    <2>1. head \in Int /\ RingOf(head) = << head >>
      BY <1>1, RingOfIs DEF Tasks, OwnChild
    <2>2. Follow(head, d) = head
      BY <2>1, FollowSelf
    <2> QED
      BY <1>1, <2>2 DEF OwnChild
  <1>2. CASE head = -current \/ (head \in Tasks /\ ChildOf(head, current))
    <2>1. \/ Follow(head, d) = -current
          \/ Follow(head, d) \in Tasks /\ ChildOf(Follow(head, d), current)
      BY <1>2, FollowInList
    <2> QED
      BY <2>1 DEF ChildOf, Linked, OwnChild
  <1>3. OwnChild(head) => head \in Tasks /\ (state[head] = "gone" \/ ChildOf(head, current))
    BY DEF OwnChild, ChildOf, Linked
  <1> QED
    BY <1>1, <1>2, <1>3 DEF AtChildren

\* A walk through the siblings of c stays at the nodes of NearSibling.
LEMMA NextOfSiblings ==
  ASSUME TasksTypeOK, Lists, NEW c \in Tasks, NEW n \in Int, NearSibling(n, c), NEW d \in Int
  PROVE  /\ NearSibling(Follow(n, d), c)
         /\ \/ -Follow(n, d) \in Tasks /\ Follow(n, d) \in Int /\ Follow(n, d) < 0
            \/ Follow(n, d) \in Tasks
  <1>0. \A t \in Tasks : t \in Int /\ -t < 0 /\ -(-t) = t /\ -t \in Int
    BY DEF Tasks
  <1>1. CASE n \in Tasks /\ state[n] = "gone"
    <2>1. RingOf(n) = << n >>
      BY <1>1, RingOfIs
    <2>2. Follow(n, d) = n
      BY <2>1, FollowSelf
    <2> QED
      BY <1>1, <2>2
  <1>2. CASE -n \in Tasks /\ state[-n] \in Ended
    <2>1. -(-n) = n /\ n < 0
      BY <1>2 DEF Tasks
    <2>2. children[-n] = << >>
      BY <1>2 DEF Lists, Ended
    <2>3. Ring(-n) = << n >>
      BY <1>2, <2>1, <2>2, RingIs
    <2>4. RingOf(n) = Ring(-n)
      BY <1>2, <2>1, RingOfIs
    <2>5. Follow(n, d) = n
      BY <2>3, <2>4, FollowSelf
    <2> QED
      BY <1>2, <2>1, <2>5
  <1>3. ASSUME NEW p \in Tasks, SameList(p, parent[c]), n = -p \/ (n \in Tasks /\ ChildOf(n, p))
        PROVE  /\ NearSibling(Follow(n, d), c)
               /\ \/ -Follow(n, d) \in Tasks /\ Follow(n, d) \in Int /\ Follow(n, d) < 0
                  \/ Follow(n, d) \in Tasks
    <2>1. PICK f : f = Follow(n, d)
      OBVIOUS
    <2>2. f = -p \/ (f \in Tasks /\ ChildOf(f, p))
      BY <1>3, <2>1, FollowInList
    <2> QED
      BY <1>0, <1>3, <2>1, <2>2 DEF NearSibling, ChildOf
  <1>4. CASE n \in Tasks /\ Linked(n) /\ SameList(parent[n], parent[c])
    <2>1. parent[n] \in Tasks /\ ChildOf(n, parent[n])
      BY <1>4 DEF TasksTypeOK, ChildOf
    <2> QED
      BY <1>3, <1>4, <2>1
  <1>5. CASE -n \in Tasks /\ SameList(-n, parent[c])
    <2>1. n = -(-n)
      OBVIOUS
    <2> QED
      BY <1>3, <1>5, <2>1
  <1> QED
    BY <1>1, <1>2, <1>4, <1>5 DEF NearSibling
-----------------------------------------------------------------------------
(* The inductive invariant. *)

\* What exit passes on about the parent.
Ignored(t) == parent[t] \in Ignoring /\ prog[parent[t]] = "any"

\* A step of exit that leaves the lists as they are.
StageStep(t) ==
  /\ Stage(t, Ignored(t)) /\ Ignored(t) \in BOOLEAN
  /\ UNCHANGED <<programVars, callVars, report, quiet>>
  /\ state[t] = "alive" => t # current /\ upc[t] \in {"any", "exit"}

LEMMA StageSteps ==
  ASSUME NEW t \in Tasks, Exit(t) \/ FinishAdoption(t) \/ Notify(t)
  PROVE  StageStep(t)
  <1>1. Ignored(t) \in BOOLEAN
    BY DEF Ignored
  <1>2. CASE Exit(t)
    BY <1>1, <1>2 DEF Exit, Free, StageStep, Stage
  <1>3. CASE FinishAdoption(t)
    BY <1>1, <1>3 DEF FinishAdoption, EndAdoption, StageStep, Stage
  <1>4. CASE Notify(t)
    BY <1>1, <1>4 DEF Notify, NotifyParent, StageStep, Stage, Ignored
  <1> QED
    BY <1>2, <1>3, <1>4

\* Only fork, wait and the steps of exit change the tasks.
LEMMA ListSteps ==
  ASSUME [Next]_vars
  PROVE  \/ \E t \in Tasks : Fork(t) \/ Wait(t) \/ StageStep(t) \/ Adopt(t) \/ Release(t)
         \/ UNCHANGED taskVars
  <1>1. CASE \E t \in Tasks : Exit(t) \/ FinishAdoption(t) \/ Notify(t)
    BY <1>1, StageSteps
  <1>2. CASE ~\E t \in Tasks : Exit(t) \/ FinishAdoption(t) \/ Notify(t)
    BY <1>2 DEF Next, Program, Exiting, ForkFails, WaitFails, Call, Step, VisitChild, ChildrenAgain,
       ChildrenDone, VisitSibling, VisitHead, SiblingsAgain, SiblingsDone, copy_to_user, vars
  <1> QED
    BY <1>1, <1>2

\* The lists stay in order, whatever the tasks do.
LEMMA ListsPreserved ==
  ASSUME TasksTypeOK, Lists, [Next]_vars
  PROVE  TasksTypeOK' /\ Lists'
  <1>1. ASSUME NEW t \in Tasks, Fork(t) PROVE TasksTypeOK' /\ Lists'
    BY <1>1, AddKeeps DEF Fork
  <1>2. ASSUME NEW t \in Tasks, Wait(t) PROVE TasksTypeOK' /\ Lists'
    <2>1. PICK c \in Range(children[t]) : ReleaseTask(c, "zombie")
      BY <1>2 DEF Wait
    <2>2. c \in Tasks
      BY <1>2, RingIs
    <2> QED
      BY <2>1, <2>2, ReleaseKeeps
  <1>3. ASSUME NEW t \in Tasks, StageStep(t) PROVE TasksTypeOK' /\ Lists'
    BY <1>3, StageKeeps DEF StageStep
  <1>4. ASSUME NEW t \in Tasks, Adopt(t) PROVE TasksTypeOK' /\ Lists'
    BY <1>4, AdoptKeeps DEF Adopt
  <1>5. ASSUME NEW t \in Tasks, Release(t) PROVE TasksTypeOK' /\ Lists'
    BY <1>5, ReleaseKeeps DEF Release
  <1>6. CASE UNCHANGED taskVars
    BY <1>6 DEF taskVars, TasksTypeOK, Lists, Alive, ChildOf, Linked, Distinct
  <1> QED
    BY <1>1, <1>2, <1>3, <1>4, <1>5, <1>6, ListSteps

\* Numbers of tasks, nodes and times.
LEMMA Numbers ==
  /\ N \in Nat \ {0} /\ init \in Tasks /\ 0 \notin Tasks /\ -1 \notin Tasks
  /\ \A t \in Tasks : /\ t \in Int /\ t > 0 /\ t \in -N .. N /\ -t \in -N .. N /\ -t \notin Tasks
                      /\ StartTime(t) \in Times /\ 0 < StartTime(t) /\ StartTime(t) < Forever
  /\ Forever \in Times /\ 0 \in Times /\ -1 \in Pids /\ Tasks \subseteq Pids /\ Forever \in Int
  /\ \A n \in HeadTimes : n \in Int /\ n < Forever /\ 0 < n + Forever + 1
  BY TasksAssumption, ProcessInfoAssumption DEF Tasks, init, StartTime, Forever, Times, Pids

\* The first node of the loops over the children is a child that is there.
LEMMA ChildNext ==
  ASSUME TypeOK, Lists, Calling, pc \in OfChildren
  PROVE  /\ NextNode # EndNode => NextNode \in Tasks /\ OwnChild(NextNode)
         /\ NextNode # EndNode => \/ state[NextNode] = "gone" /\ NextNode = head
                                  \/ ChildOf(NextNode, current)
         /\ EndNode = -current /\ current \in Tasks
  <1>1. current \in Tasks \ {init} /\ AtChildren /\ TasksTypeOK
    BY DEF Calling, OfChildren, TypeOK
  <1>2. EndNode = -current
    BY DEF EndNode
  <1>3. PICK d \in Int : NextNode = Follow(head, d)
    BY DEF NextNode
  <1> QED
    BY <1>1, <1>2, <1>3, NextOfChildren

LEMMA SiblingNext ==
  ASSUME TypeOK, Lists, Calling, pc \in OfSiblings
  PROVE  /\ NearSibling(NextNode, current)
         /\ \/ -NextNode \in Tasks /\ NextNode \in Int /\ NextNode < 0
            \/ NextNode \in Tasks
         /\ EndNode = current /\ current \in Tasks
  <1>1. current \in Tasks /\ AtSiblings /\ TasksTypeOK /\ head \in Int
    BY TasksAssumption DEF Calling, OfSiblings, TypeOK
  <1>2. EndNode = current
    BY DEF EndNode, OfSiblings, OfChildren
  <1>3. PICK d \in Int : NextNode = Follow(head, d)
    BY DEF NextNode
  <1>4. PICK c \in Tasks : c = current
    BY <1>1
  <1> QED
    BY <1>1, <1>2, <1>3, <1>4, NextOfSiblings DEF AtSiblings

\* A time and its conversion.
IsTime(n) == n \in Int /\ n < Forever /\ 0 < n + Forever + 1
LEMMA UnsignedIs ==
  ASSUME NEW n \in Int, IsTime(n)
  PROVE  /\ Unsigned(n) \in Times /\ Unsigned(n) \in Int
         /\ n >= 0 => Unsigned(n) = n
         /\ n < 0 => Unsigned(n) = n + Forever + 1
  BY Numbers DEF IsTime, Unsigned, Times

\* What is kept of a sibling has its type.
LEMMA CompareType ==
  ASSUME TypeOK, NEW time_ns \in Int, IsTime(time_ns), NEW pid \in Pids, Compare(time_ns, pid)
  PROVE  tmp_st1' \in Times /\ tmp_st2' \in Times /\ tmp_pid1' \in Pids /\ tmp_pid2' \in Pids
  <1>1. Unsigned(time_ns) \in Times
    BY UnsignedIs
  <1>2. tmp_st1 \in Times /\ tmp_st2 \in Times /\ tmp_pid1 \in Pids /\ tmp_pid2 \in Pids
    BY DEF TypeOK
  <1> QED
    BY <1>1, <1>2 DEF Compare, tmpVars

\* Everything keeps its type: in particular the times are added up for tasks only, and
\* what the programs print are pids of tasks.
LEMMA TypePreserved == Inv /\ [Next]_vars => TypeOK'
  <1> SUFFICES ASSUME TypeOK, Lists, TestPrograms, Calling, [Next]_vars PROVE TypeOK'
    BY DEF Inv
  <1>t. TasksTypeOK'
    BY ListsPreserved DEF TypeOK
  <1>1. ASSUME NEW t \in Tasks, Fork(t) PROVE TypeOK'
    <2>1. NewTask \in Tasks
      BY <1>1 DEF Fork, AddTask
    <2>2. PICK p \in ChildProgram(prog[t]) :
             /\ prog' = [prog EXCEPT ![NewTask] = p]
             /\ upc' = [upc EXCEPT ![t] = Then(t, "call"), ![NewTask] = FirstStep(p)]
      BY <1>1 DEF Fork
    <2>3. /\ p \in {"any", "parent", "child", "grandchild"}
          /\ FirstStep(p) \in {"any", "call", "fork"}
          /\ Then(t, "call") \in {"any", "call"}
      BY DEF ChildProgram, FirstStep, Then
    <2>4. /\ prog' \in [Tasks -> {"any", "parent", "child", "grandchild"}]
          /\ upc' \in [Tasks -> {"any", "fork", "call", "wait", "exit"}]
      BY <2>1, <2>2, <2>3 DEF TypeOK
    <2>5. kid' \in [Tasks -> Tasks \cup {0}]
      BY <1>1, <2>1 DEF Fork, TypeOK
    <2> QED
      BY <1>1, <1>t, <2>4, <2>5 DEF Fork, callVars, tmpVars, TypeOK
  <1>2. ASSUME NEW t \in Tasks, ForkFails(t) \/ WaitFails(t) PROVE TypeOK'
    BY <1>2, <1>t DEF ForkFails, WaitFails, callVars, tmpVars, TypeOK
  <1>3. ASSUME NEW t \in Tasks, Wait(t) PROVE TypeOK'
    <2>1. Then(t, "exit") \in {"any", "exit"}
      BY DEF Then
    <2> QED
      BY <1>3, <1>t, <2>1 DEF Wait, callVars, tmpVars, TypeOK
  <1>4. ASSUME NEW t \in Tasks, StageStep(t) \/ Adopt(t) \/ Release(t) PROVE TypeOK'
    BY <1>4, <1>t DEF StageStep, Adopt, Release, programVars, callVars, tmpVars, TypeOK
  <1>5. ASSUME NEW t \in Tasks, Call(t) PROVE TypeOK'
    <2>1. parent[t] \in Tasks
      BY DEF TypeOK, TasksTypeOK
    <2> QED
      BY <1>5, <1>t, <2>1, Numbers
      DEF Call, programVars, TypeOK, OfChildren
  <1>6. CASE VisitChild
    <2>1. pc \in OfChildren /\ NextNode \in Tasks
      BY <1>6, ChildNext DEF VisitChild
    <2>2. counted' \in [Tasks -> 0 .. Many]
      <3>1. counted[NextNode] \in 0 .. Many
        BY <2>1 DEF TypeOK
      <3>2. (IF counted[NextNode] < Many THEN counted[NextNode] + 1 ELSE counted[NextNode])
               \in 0 .. Many
        BY <3>1 DEF Many
      <3> QED
        BY <1>6, <2>1, <3>2 DEF VisitChild, TypeOK
    <2>3. head' \in -N .. N /\ tmp_st1' \in Times /\ tmp_pid1' \in Pids
      BY <1>6, <2>1, Numbers DEF VisitChild, TypeOK
    <2> QED
      BY <1>6, <1>t, <2>2, <2>3 DEF VisitChild, programVars, TypeOK
  <1>7. CASE ChildrenAgain
    <2>1. current \in Tasks
      BY <1>7, ChildNext DEF ChildrenAgain, OfChildren
    <2> QED
      BY <1>7, <1>t, <2>1, Numbers DEF ChildrenAgain, programVars, tmpVars, TypeOK, OfChildren
  <1>8. CASE ChildrenDone
    <2>1. current \in Tasks /\ tmp_pid1 \in Tasks \cup {-1}
      BY <1>8 DEF ChildrenDone, OfChildren, Calling, OwnChild
    <2> QED
      BY <1>8, <1>t, <2>1, Numbers DEF ChildrenDone, programVars, TypeOK, OfSiblings
  <1>9. CASE VisitSibling
    <2>1. NextNode \in Tasks /\ current \in Tasks
      BY <1>9, SiblingNext, Numbers DEF VisitSibling
    <2>2. StartTime(NextNode) \in Int /\ IsTime(StartTime(NextNode)) /\ NextNode \in Pids
      BY <2>1, Numbers DEF Times, IsTime
    <2>3. tmp_st1' \in Times /\ tmp_st2' \in Times /\ tmp_pid1' \in Pids /\ tmp_pid2' \in Pids
      BY <1>9, <2>1, <2>2, CompareType DEF VisitSibling
    <2>4. head' \in -N .. N
      BY <1>9, <2>1, Numbers DEF VisitSibling
    <2> QED
      BY <1>9, <1>t, <2>3, <2>4 DEF VisitSibling, programVars, TypeOK
  <1>10. CASE VisitHead
    <2>1. -NextNode \in Tasks /\ current \in Tasks /\ NextNode \in Int /\ -(-NextNode) = NextNode
      BY <1>10, SiblingNext, Numbers DEF VisitHead
    <2>2. PICK time_ns \in HeadTimes, pid \in HeadPids :
             Compare(time_ns, pid) /\ strays' = strays \cup {time_ns}
      BY <1>10 DEF VisitHead
    <2>3. time_ns \in Int /\ IsTime(time_ns) /\ pid \in Pids
      BY Numbers DEF Pids, IsTime
    <2>4. tmp_st1' \in Times /\ tmp_st2' \in Times /\ tmp_pid1' \in Pids /\ tmp_pid2' \in Pids
      BY <2>1, <2>2, <2>3, CompareType
    <2>5. head' \in -N .. N
      <3>1. -(-NextNode) \in -N .. N
        BY <2>1, Numbers
      <3> QED
        BY <1>10, <2>1, <3>1 DEF VisitHead
    <2> QED
      BY <1>10, <1>t, <2>2, <2>4, <2>5 DEF VisitHead, programVars, TypeOK
  <1>11. CASE SiblingsAgain
    <2>1. current \in Tasks
      BY <1>11 DEF SiblingsAgain, Calling
    <2> QED
      BY <1>11, <1>t, <2>1, Numbers DEF SiblingsAgain, programVars, tmpVars, TypeOK, OfSiblings
  <1>12. CASE SiblingsDone
    <2>1. current \in Tasks
      BY <1>12 DEF SiblingsDone, Calling
    <2>2. tmp_pid1' \in Pids
      BY <1>12, Numbers DEF SiblingsDone, TypeOK
    <2> QED
      BY <1>12, <1>t, <2>1, <2>2, Numbers DEF SiblingsDone, programVars, TypeOK
  <1>13. CASE copy_to_user
    <2>1. current \in Tasks /\ parent_pid \in Tasks
      BY <1>13 DEF copy_to_user, Calling
    <2>2. upc' \in [Tasks -> {"any", "fork", "call", "wait", "exit"}]
      <3>1. Then(current, IF prog[current] = "grandchild" THEN "exit" ELSE "wait")
               \in {"any", "exit", "wait"}
        BY DEF Then
      <3> QED
        BY <1>13, <2>1, <3>1 DEF copy_to_user, TypeOK
    <2>3. report' \in [Tasks -> [parent_pid : Tasks, youngest_child : Tasks \cup {-1}]
                                \cup {NoReport}]
      <3>1. PICK valid \in BOOLEAN :
              report' = [report EXCEPT ![current] =
                  IF valid /\ prog[current] # "any"
                     THEN [parent_pid |-> parent_pid, youngest_child |-> youngest_child]
                     ELSE @]
        BY <1>13 DEF copy_to_user
      <3>2. [parent_pid |-> parent_pid, youngest_child |-> youngest_child]
               \in [parent_pid : Tasks, youngest_child : Tasks \cup {-1}]
        BY <2>1 DEF TypeOK
      <3>3. report \in [Tasks -> [parent_pid : Tasks, youngest_child : Tasks \cup {-1}]
                                 \cup {NoReport}]
        BY DEF TypeOK
      <3> QED
        BY <2>1, <3>1, <3>2, <3>3
    <2>4. NoCount \in [Tasks -> 0 .. Many]
      BY DEF NoCount, Many
    <2>5. /\ current' = 0 /\ pc' = "idle" /\ head' = 0 /\ tmp_st1' = 0 /\ tmp_pid1' = -1
          /\ tmp_st2' = 0 /\ tmp_pid2' = -1 /\ parent_pid' = 0 /\ youngest_child' = -1
          /\ counted' = NoCount /\ strays' = {} /\ quiet' = FALSE /\ prog' = prog /\ kid' = kid
      BY <1>13 DEF copy_to_user, EndCall
    <2>6. 0 \in -N .. N
      BY Numbers
    <2> QED
      BY <1>t, <2>2, <2>3, <2>4, <2>5, <2>6, Numbers DEF TypeOK
  <1>14. CASE UNCHANGED vars
    BY <1>14, <1>t DEF vars, programVars, callVars, tmpVars, TypeOK
  <1> QED
    BY <1>1, <1>2, <1>3, <1>4, <1>5, <1>6, <1>7, <1>8, <1>9, <1>10, <1>11, <1>12, <1>13, <1>14,
       StageSteps
    DEF Next, Step, Program, Exiting

\* A process that is not one of test.c.
Other(t) == upc[t] = "any" /\ kid[t] = 0 /\ report[t] = NoReport

\* A task that nobody waits for is no child of a process of test.c.
DeadAlone == \A t \in Tasks : state[t] = "dead" => prog[parent[t]] = "any"
LEMMA DeadPreserved ==
  ASSUME TypeOK, Lists, TestPrograms, [Next]_vars
  PROVE  DeadAlone'
  <1>t. TasksTypeOK /\ DeadAlone
    BY DEF TypeOK, TestPrograms, DeadAlone
  <1>1. ASSUME NEW t \in Tasks, Fork(t) PROVE DeadAlone'
    <2>1. PICK n \in Tasks : n = NewTask
      BY <1>1 DEF Fork, AddTask
    <2>2. /\ state[n] = "new" /\ state'[n] = "alive"
          /\ \A u \in Tasks \ {n} : state'[u] = state[u] /\ parent'[u] = parent[u]
      BY <1>1, <1>t, <2>1, AddKeeps DEF Fork
    <2>3. \A u \in Tasks \ {n} : prog'[u] = prog[u]
      BY <1>1, <2>1 DEF Fork, TypeOK
    <2>4. ASSUME NEW u \in Tasks, state[u] = "dead" PROVE parent[u] \in Tasks /\ parent[u] # n
      <3>1. u # init
        BY <2>4 DEF Lists, Alive
      <3>2. parent[u] \in Tasks /\ u \in Range(children[parent[u]])
        BY <1>t, <2>4, <3>1 DEF TasksTypeOK, Lists, ChildOf, Linked
      <3>3. children[n] = << >>
        BY <2>2 DEF Lists
      <3> QED
        BY <3>2, <3>3 DEF Range
    <2> QED
      BY <1>t, <2>2, <2>3, <2>4 DEF DeadAlone
  <1>2. ASSUME NEW t \in Tasks, StageStep(t) PROVE DeadAlone'
    <2>1. prog' = prog /\ parent' = parent /\ \A u \in Tasks \ {t} : state'[u] = state[u]
      BY <1>2, <1>t, StageKeeps DEF StageStep, programVars
    <2>2. state'[t] = "dead" => Ignored(t)
      BY <1>2, <1>t DEF StageStep, Stage, BeginExit, EndAdoption, NotifyParent, TasksTypeOK
    <2> QED
      BY <1>t, <2>1, <2>2 DEF DeadAlone, Ignored
  <1>3. ASSUME NEW t \in Tasks, Adopt(t) PROVE DeadAlone'
    <2>1. PICK c \in Tasks : /\ state' = state /\ parent'[c] = init
                             /\ \A u \in Tasks \ {c} : parent'[u] = parent[u]
      BY <1>3, <1>t, AdoptKeeps DEF Adopt
    <2>2. prog' = prog /\ prog[init] = "any"
      BY <1>3 DEF Adopt, programVars, TestPrograms
    <2> QED
      BY <1>t, <2>1, <2>2 DEF DeadAlone, init
  <1>4. ASSUME NEW t \in Tasks, NEW c \in Tasks, NEW from \in {"zombie", "dead"},
               ReleaseTask(c, from), prog' = prog
        PROVE  DeadAlone'
    <2>1. parent' = parent /\ state'[c] = "gone" /\ \A u \in Tasks \ {c} : state'[u] = state[u]
      BY <1>4, <1>t, ReleaseKeeps
    <2> QED
      BY <1>t, <1>4, <2>1 DEF DeadAlone
  <1>5. ASSUME NEW t \in Tasks, Wait(t) PROVE DeadAlone'
    <2>1. PICK c \in Range(children[t]) : ReleaseTask(c, "zombie")
      BY <1>5 DEF Wait
    <2>2. c \in Tasks /\ prog' = prog
      BY <1>5, <1>t, RingIs DEF Wait
    <2> QED
      BY <1>4, <2>1, <2>2
  <1>6. ASSUME NEW t \in Tasks, Release(t) PROVE DeadAlone'
    BY <1>4, <1>6 DEF Release, programVars
  <1>7. CASE UNCHANGED taskVars /\ prog' = prog
    BY <1>7, <1>t DEF taskVars, DeadAlone
  <1>8. \/ \E t \in Tasks : Fork(t) \/ Wait(t) \/ StageStep(t) \/ Adopt(t) \/ Release(t)
        \/ UNCHANGED taskVars /\ prog' = prog
    <2>1. CASE \E t \in Tasks : Exit(t) \/ FinishAdoption(t) \/ Notify(t)
      BY <2>1, StageSteps
    <2>2. CASE ~\E t \in Tasks : Exit(t) \/ FinishAdoption(t) \/ Notify(t)
      BY <2>2 DEF Next, Program, Exiting, ForkFails, WaitFails, Call, Step, VisitChild,
         ChildrenAgain, ChildrenDone, VisitSibling, VisitHead, SiblingsAgain, SiblingsDone,
         copy_to_user, vars, programVars
    <2> QED
      BY <2>1, <2>2
  <1> QED
    BY <1>1, <1>2, <1>3, <1>5, <1>6, <1>7, <1>8

\* The processes of test.c, whatever other tasks do.
LEMMA ProgramsPreserved == Inv /\ [Next]_vars => TestPrograms'
  <1> SUFFICES ASSUME TypeOK, Lists, TestPrograms, Calling, [Next]_vars PROVE TestPrograms'
    BY DEF Inv
  <1>t. TasksTypeOK /\ init \in Tasks /\ 0 \notin Tasks
    BY Numbers DEF TypeOK
  <1>p. /\ prog[init] = "any"
        /\ \A u \in Tasks : prog[u] = "any" => Other(u)
        /\ \A u \in Tasks : prog[u] # "any" => ForksOnce(u)
        /\ \A u \in Tasks : prog[u] \in {"child", "grandchild"} /\ Linked(u) => kid[parent[u]] = u
    BY DEF TestPrograms, Other
  <1>g. ASSUME prog'[init] = "any",
               \A u \in Tasks : prog'[u] = "any" => Other(u)',
               \A u \in Tasks : prog'[u] # "any" => ForksOnce(u)',
               \A u \in Tasks : prog'[u] \in {"child", "grandchild"} /\ Linked(u)'
                                => kid'[parent'[u]] = u
        PROVE  TestPrograms'
    BY <1>g, DeadPreserved DEF TestPrograms, Other, DeadAlone, init
  <1>s. ASSUME NEW u \in Tasks, state'[u] = state[u], upc'[u] = upc[u], prog'[u] = prog[u],
               kid'[u] = kid[u], report'[u] = report[u]
        PROVE  /\ (Other(u)' <=> Other(u)) /\ (Linked(u)' <=> Linked(u))
               /\ (children'[u] = children[u] => (ForksOnce(u)' <=> ForksOnce(u)))
    BY <1>s DEF ForksOnce, Other, Linked, Alive, OnlyChild
  <1>1. ASSUME NEW t \in Tasks, Fork(t) PROVE TestPrograms'
    <2>1. PICK n \in Tasks : n = NewTask
      BY <1>1 DEF Fork, AddTask
    <2>2. /\ state[n] = "new" /\ n # init /\ n # t
          /\ state'[n] = "alive" /\ parent'[n] = t /\ children'[n] = << >>
          /\ children'[t] = Append(children[t], n)
          /\ \A u \in Tasks \ {n} : state'[u] = state[u] /\ parent'[u] = parent[u]
          /\ \A u \in Tasks \ {t} : children'[u] = children[u]
      BY <1>1, <1>t, <2>1, AddKeeps DEF Fork
    <2>3. PICK p \in ChildProgram(prog[t]) :
             /\ prog' = [prog EXCEPT ![n] = p]
             /\ upc' = [upc EXCEPT ![t] = Then(t, "call"), ![n] = FirstStep(p)]
      BY <1>1, <2>1 DEF Fork
    <2>4. /\ kid' = [kid EXCEPT ![t] = IF prog[t] = "any" THEN 0 ELSE n] /\ report' = report
          /\ Alive(t) /\ upc[t] \in {"any", "fork"}
      BY <1>1, <2>1 DEF Fork, Free
    <2>5. /\ prog'[n] = p /\ upc'[n] = FirstStep(p) /\ kid'[n] = kid[n]
          /\ prog'[t] = prog[t] /\ upc'[t] = Then(t, "call")
          /\ kid'[t] = (IF prog[t] = "any" THEN 0 ELSE n)
          /\ \A u \in Tasks \ {n} : prog'[u] = prog[u]
          /\ \A u \in Tasks \ {t, n} : upc'[u] = upc[u] /\ kid'[u] = kid[u]
      BY <2>2, <2>3, <2>4 DEF TypeOK
    <2>6. prog[n] = "any" /\ Other(n) /\ report'[n] = NoReport
      BY <1>p, <2>2, <2>4 DEF ForksOnce, Other
    <2>7. prog[t] # "any" => upc[t] = "fork" /\ ForksOnce(t)
      BY <1>p, <2>4 DEF ForksOnce
    <2>8. kid[t] = 0
      BY <1>p, <2>7 DEF ForksOnce, Other
    <2>9. prog'[n] = "any" => Other(n)'
      BY <2>5, <2>6 DEF Other, FirstStep
    <2>10. prog'[n] # "any" => ForksOnce(n)'
      <3>1. p # "any" => /\ FirstStep(p) \in {"fork", "call"}
                         /\ p = "grandchild" => FirstStep(p) = "call"
        BY DEF FirstStep
      <3>2. kid'[n] = 0
        BY <2>5, <2>6 DEF Other
      <3> QED
        BY <2>2, <2>5, <2>6, <3>1, <3>2 DEF ForksOnce, Alive, OnlyChild
    <2>11. prog'[t] = "any" => Other(t)'
      BY <1>p, <2>4, <2>5 DEF Other, Then
    <2>12. prog'[t] # "any" => ForksOnce(t)'
      <3> SUFFICES ASSUME prog[t] # "any" PROVE ForksOnce(t)'
        BY <2>5
      <3>1. upc'[t] = "call" /\ kid'[t] = n /\ n # 0 /\ state'[t] = "alive"
        BY <1>t, <2>2, <2>4, <2>5 DEF Then, Alive
      <3>2. children[t] = << >> /\ report[t] = NoReport /\ prog[t] # "grandchild"
        BY <2>7, <2>8 DEF ForksOnce, OnlyChild
      <3>3. children'[t] = << n >>
        BY <2>2, <3>2
      <3> QED
        BY <2>4, <2>5, <3>1, <3>2, <3>3 DEF ForksOnce, Alive, OnlyChild
    <2>13. \A u \in Tasks \ {t, n} : /\ Other(u)' <=> Other(u)
                                     /\ ForksOnce(u)' <=> ForksOnce(u)
      BY <1>s, <2>2, <2>4, <2>5
    <2>14. ASSUME NEW u \in Tasks, prog'[u] \in {"child", "grandchild"}, Linked(u)'
           PROVE  kid'[parent'[u]] = u
      <3>1. CASE u = n
        BY <2>2, <2>5, <2>14, <3>1 DEF ChildProgram
      <3>2. CASE u # n
        <4>1. kid[parent[u]] = u
          BY <1>p, <2>2, <2>5, <2>14, <3>2 DEF Linked
        <4>2. parent[u] # t /\ parent[u] \in Tasks /\ u # 0
          BY <1>t, <2>8, <4>1 DEF TasksTypeOK
        <4>3. parent[u] # n
          BY <1>t, <2>6, <4>1, <4>2 DEF Other
        <4> QED
          BY <2>2, <2>5, <3>2, <4>1, <4>2, <4>3
      <3> QED
        BY <3>1, <3>2
    <2>15. \A u \in Tasks : /\ prog'[u] = "any" => Other(u)'
                            /\ prog'[u] # "any" => ForksOnce(u)'
      BY <1>p, <2>5, <2>9, <2>10, <2>11, <2>12, <2>13
    <2> QED
      BY <1>g, <1>p, <1>t, <2>2, <2>5, <2>14, <2>15
  <1>2. ASSUME NEW t \in Tasks, ForkFails(t) \/ WaitFails(t) PROVE TestPrograms'
    <2>1. prog[t] # "any"
      BY <1>2, <1>p DEF ForkFails, WaitFails, Other
    <2>2. /\ state' = state /\ parent' = parent /\ children' = children /\ prog' = prog
          /\ kid' = kid /\ report' = report /\ \A u \in Tasks \ {t} : upc'[u] = upc[u]
          /\ \/ upc[t] = "fork" /\ upc'[t] = "call"
             \/ upc[t] = "wait" /\ kid[t] = 0 /\ upc'[t] = "exit"
      BY <1>2 DEF ForkFails, WaitFails, taskVars, TypeOK
    <2>3. ForksOnce(t)'
      BY <1>p, <2>1, <2>2 DEF ForksOnce, OnlyChild, Alive
    <2>4. \A u \in Tasks \ {t} : (Other(u)' <=> Other(u)) /\ (ForksOnce(u)' <=> ForksOnce(u))
      BY <1>s, <2>2
    <2>5. \A u \in Tasks : Linked(u)' <=> Linked(u)
      BY <2>2 DEF Linked
    <2> QED
      BY <1>g, <1>p, <2>1, <2>2, <2>3, <2>4, <2>5
  <1>3. ASSUME NEW t \in Tasks, Wait(t) PROVE TestPrograms'
    <2>1. PICK c \in Range(children[t]) :
             (upc[t] = "wait" => c = kid[t]) /\ ReleaseTask(c, "zombie")
      BY <1>3 DEF Wait
    <2>2. c \in Tasks /\ ChildOf(c, t)
      BY <1>3, <1>t, RingIs DEF Lists
    <2>3. /\ parent' = parent /\ state'[c] = "gone" /\ ~Alive(c) /\ parent[c] = t
          /\ \A u \in Tasks \ {c} : state'[u] = state[u]
          /\ \A u \in Tasks \ {t} : children'[u] = children[u]
          /\ Range(children'[t]) = Range(children[t]) \ {c}
          /\ TasksTypeOK'
      BY <1>t, <2>1, <2>2, ReleaseKeeps DEF ChildOf, Alive
    <2>4. /\ prog' = prog /\ kid' = kid /\ report' = report /\ Alive(t) /\ c # t
          /\ upc'[t] = Then(t, "exit") /\ upc[t] \in {"any", "wait"}
          /\ \A u \in Tasks \ {t} : upc'[u] = upc[u]
      BY <1>3, <2>3 DEF Wait, Free, TypeOK
    <2>5. prog[c] # "any" => ForksOnce(c)'
      BY <1>p, <2>2, <2>3, <2>4 DEF ForksOnce, Alive
    <2>6. prog[t] # "any" => ForksOnce(t)'
      <3> SUFFICES ASSUME prog[t] # "any" PROVE ForksOnce(t)'
        OBVIOUS
      <3>1. upc[t] = "wait" /\ upc'[t] = "exit" /\ ForksOnce(t) /\ c = kid[t]
        BY <1>p, <2>1, <2>4 DEF ForksOnce, Then
      <3>2. children[t] = << c >>
        BY <1>t, <2>2, <3>1 DEF ForksOnce, OnlyChild
      <3>3. Range(children[t]) = {c}
        BY <3>2 DEF Range
      <3>4. Range(children'[t]) = {}
        BY <2>3, <3>3
      <3>5. children'[t] = << >>
        <4>1. children'[t] \in Seq(Tasks)
          BY <2>3 DEF TasksTypeOK
        <4>2. DOMAIN children'[t] = {}
          BY <3>4 DEF Range
        <4>3. Len(children'[t]) = 0
          <5> DEFINE k == Len(children'[t])
          <5>1. k \in Nat /\ DOMAIN children'[t] = 1 .. k
            BY <4>1, LenProperties
          <5>2. 1 .. k = {}
            BY <4>2, <5>1
          <5> HIDE DEF k
          <5>3. k = 0
            BY <5>1, <5>2
          <5> QED
            BY <5>3 DEF k
        <4> QED
          BY <4>1, <4>3, EmptySeq
      <3> QED
        BY <2>3, <2>4, <3>1, <3>5 DEF ForksOnce
    <2>7. \A u \in Tasks \ {t, c} : ForksOnce(u)' <=> ForksOnce(u)
      BY <1>s, <2>3, <2>4
    <2>8. \A u \in Tasks : prog[u] = "any" => Other(u)'
      BY <1>p, <2>4 DEF Other, Then
    <2>9. \A u \in Tasks : Linked(u)' => Linked(u)
      BY <2>3 DEF Linked
    <2> QED
      BY <1>g, <1>p, <2>3, <2>4, <2>5, <2>6, <2>7, <2>8, <2>9
  <1>4. ASSUME NEW t \in Tasks, StageStep(t) PROVE TestPrograms'
    <2>1. /\ state'[t] \notin {"new", "gone"} /\ state[t] \notin {"new", "gone"}
          /\ state[t] = "alive" => upc[t] \in {"any", "exit"}
          /\ parent' = parent /\ children' = children
          /\ \A u \in Tasks \ {t} : state'[u] = state[u]
      BY <1>4, <1>t, StageKeeps DEF StageStep
    <2>2. prog' = prog /\ kid' = kid /\ report' = report /\ upc' = upc
      BY <1>4 DEF StageStep, programVars
    <2>3. \A u \in Tasks \ {t} : prog[u] # "any" => ForksOnce(u)'
      BY <1>p, <1>s, <2>1, <2>2
    <2>4. prog[t] # "any" => ForksOnce(t)'
      <3> SUFFICES ASSUME prog[t] # "any" PROVE ForksOnce(t)'
        OBVIOUS
      <3>1. ForksOnce(t) /\ upc[t] = "exit"
        BY <1>p, <2>1 DEF ForksOnce, Alive
      <3> QED
        BY <2>1, <2>2, <3>1 DEF ForksOnce
    <2>5. \A u \in Tasks : prog[u] = "any" => Other(u)'
      BY <1>p, <2>2 DEF Other
    <2>6. \A u \in Tasks : Linked(u)' <=> Linked(u)
      BY <2>1 DEF Linked
    <2> QED
      BY <1>g, <1>p, <2>1, <2>2, <2>3, <2>4, <2>5, <2>6
  <1>10. ASSUME NEW t \in Tasks, Adopt(t) PROVE TestPrograms'
    <2>1. PICK c \in Tasks :
             /\ ChildOf(c, t) /\ state' = state /\ state[t] = "adopting" /\ children[t] # << >>
             /\ \A u \in Tasks \ {c} : parent'[u] = parent[u]
             /\ \A u \in Tasks \ {t, init} : children'[u] = children[u]
      BY <1>10, <1>t, AdoptKeeps DEF Adopt
    <2>2. prog' = prog /\ kid' = kid /\ report' = report /\ upc' = upc
      BY <1>10 DEF Adopt, programVars
    <2>3. prog[t] = "any"
      BY <1>p, <2>1 DEF ForksOnce, Alive
    <2>4. \A u \in Tasks : prog[u] # "any" => ForksOnce(u)'
      BY <1>p, <1>s, <2>1, <2>2, <2>3
    <2>5. \A u \in Tasks : prog[u] = "any" => Other(u)'
      BY <1>p, <2>2 DEF Other
    <2>6. \A u \in Tasks : Linked(u)' <=> Linked(u)
      BY <2>1 DEF Linked
    <2>7. ~(prog[c] \in {"child", "grandchild"} /\ Linked(c))
      <3>1. SUFFICES ASSUME prog[c] \in {"child", "grandchild"}, Linked(c) PROVE FALSE
        OBVIOUS
      <3>2. kid[t] = c /\ c # 0
        BY <1>t, <1>p, <2>1, <3>1 DEF ChildOf
      <3> QED
        BY <1>p, <2>3, <3>2 DEF Other
    <2> QED
      BY <1>g, <1>p, <2>1, <2>2, <2>4, <2>5, <2>6, <2>7
  <1>11. ASSUME NEW t \in Tasks, Release(t) PROVE TestPrograms'
    <2>1. /\ parent' = parent /\ state[t] = "dead" /\ state'[t] = "gone"
          /\ \A u \in Tasks \ {t} : state'[u] = state[u]
          /\ \A u \in Tasks \ {parent[t]} : children'[u] = children[u]
          /\ Range(children'[parent[t]]) \subseteq Range(children[parent[t]])
      BY <1>11, <1>t, ReleaseKeeps DEF Release
    <2>2. prog' = prog /\ kid' = kid /\ report' = report /\ upc' = upc
      BY <1>11 DEF Release, programVars
    <2>3. prog[parent[t]] = "any"
      BY <2>1 DEF TestPrograms
    <2>4. \A u \in Tasks \ {t} : prog[u] # "any" => ForksOnce(u)'
      BY <1>p, <1>s, <2>1, <2>2, <2>3
    <2>5. prog[t] # "any" => ForksOnce(t)'
      <3> SUFFICES ASSUME prog[t] # "any" PROVE ForksOnce(t)'
        OBVIOUS
      <3>1. ForksOnce(t) /\ upc[t] = "exit"
        BY <1>p, <2>1 DEF ForksOnce, Alive
      <3>2. t # parent[t]
        BY <2>3
      <3> QED
        BY <2>1, <2>2, <3>1, <3>2 DEF ForksOnce
    <2>6. \A u \in Tasks : prog[u] = "any" => Other(u)'
      BY <1>p, <2>2 DEF Other
    <2>7. \A u \in Tasks : Linked(u)' => Linked(u)
      BY <2>1 DEF Linked
    <2> QED
      BY <1>g, <1>p, <2>1, <2>2, <2>4, <2>5, <2>6, <2>7
  <1>5. CASE copy_to_user
    <2>1. PICK c \in Tasks : c = current
      BY <1>5 DEF copy_to_user, Calling
    <2>2. Alive(c) /\ upc[c] \in {"any", "call"}
      BY <1>5, <2>1 DEF copy_to_user, Calling
    <2>3. /\ state' = state /\ parent' = parent /\ children' = children /\ prog' = prog
          /\ kid' = kid /\ \A u \in Tasks \ {c} : upc'[u] = upc[u] /\ report'[u] = report[u]
          /\ (prog[c] = "any" => upc'[c] = "any" /\ report'[c] = report[c])
          /\ (prog[c] # "any" => upc'[c] = IF prog[c] = "grandchild" THEN "exit" ELSE "wait")
      BY <1>5, <2>1 DEF copy_to_user, taskVars, TypeOK, Then
    <2>4. prog[c] # "any" => ForksOnce(c)'
      <3> SUFFICES ASSUME prog[c] # "any" PROVE ForksOnce(c)'
        OBVIOUS
      <3>1. ForksOnce(c) /\ upc[c] = "call"
        BY <1>p, <2>2 DEF ForksOnce
      <3> QED
        BY <2>2, <2>3, <3>1 DEF ForksOnce, OnlyChild, Alive
    <2>5. \A u \in Tasks \ {c} : (Other(u)' <=> Other(u)) /\ (ForksOnce(u)' <=> ForksOnce(u))
      BY <1>s, <2>3
    <2>6. prog[c] = "any" => Other(c)'
      BY <1>p, <2>3 DEF Other
    <2>7. \A u \in Tasks : Linked(u)' <=> Linked(u)
      BY <2>3 DEF Linked
    <2> QED
      BY <1>g, <1>p, <2>3, <2>4, <2>5, <2>6, <2>7
  <1>6. ASSUME UNCHANGED <<taskVars, programVars, report>> PROVE TestPrograms'
    BY <1>6 DEF taskVars, programVars, TestPrograms, ForksOnce, OnlyChild, Linked, Alive
  <1>7. ASSUME NEW t \in Tasks, Call(t) PROVE TestPrograms'
    BY <1>6, <1>7 DEF Call
  <1>8. CASE VisitChild \/ ChildrenAgain \/ ChildrenDone \/ VisitSibling \/ VisitHead
             \/ SiblingsAgain \/ SiblingsDone \/ UNCHANGED vars
    BY <1>6, <1>8 DEF VisitChild, ChildrenAgain, ChildrenDone, VisitSibling, VisitHead,
       SiblingsAgain, SiblingsDone, vars
  <1> QED
    BY <1>1, <1>2, <1>3, <1>4, <1>5, <1>7, <1>8, <1>10, <1>11, StageSteps
    DEF Next, Step, Program, Exiting

\* A task that has a program of test.c keeps it, and what fork has returned is not
\* forgotten.
LEMMA KidsStay ==
  ASSUME TypeOK, Lists, TestPrograms, [Next]_vars
  PROVE  \A u \in Tasks : /\ prog[u] # "any" => prog'[u] = prog[u]
                          /\ kid[u] # 0 => kid'[u] = kid[u]
                          /\ upc[u] \notin {"any", "fork"} => kid'[u] = kid[u]
  <1>1. ASSUME NEW t \in Tasks, Fork(t), NEW u \in Tasks
        PROVE  /\ prog[u] # "any" => prog'[u] = prog[u]
               /\ kid[u] # 0 => kid'[u] = kid[u]
               /\ upc[u] \notin {"any", "fork"} => kid'[u] = kid[u]
    <2>1. PICK n \in Tasks : n = NewTask
      BY <1>1 DEF Fork, AddTask
    <2>2. state[n] = "new"
      BY <1>1, <2>1, AddKeeps DEF Fork, TypeOK
    <2>3. PICK p : prog' = [prog EXCEPT ![n] = p]
      BY <1>1, <2>1 DEF Fork
    <2>4. prog[n] = "any"
      BY <2>2 DEF TestPrograms, ForksOnce
    <2>5. prog[u] # "any" => prog'[u] = prog[u]
      BY <2>3, <2>4 DEF TypeOK
    <2>6. upc[t] \in {"any", "fork"} /\ \A v \in Tasks \ {t} : kid'[v] = kid[v]
      BY <1>1 DEF Fork, TypeOK
    <2>7. kid[t] = 0
      BY <2>6 DEF TestPrograms, ForksOnce
    <2> QED
      BY <2>5, <2>6, <2>7
  <1>2. ASSUME \A t \in Tasks : ~Fork(t) PROVE prog' = prog /\ kid' = kid
    BY <1>2 DEF Next, Program, Wait, Exit, Exiting, Adopt, FinishAdoption, Notify, Release,
       ForkFails, WaitFails, Call, Step, VisitChild, ChildrenAgain, ChildrenDone, VisitSibling,
       VisitHead, SiblingsAgain, SiblingsDone, copy_to_user, vars, programVars
  <1> QED
    BY <1>1, <1>2

\* Only the end of a call prints something.
LEMMA ReportSteps ==
  ASSUME [Next]_vars
  PROVE  copy_to_user \/ report' = report
  BY DEF Next, Program, Fork, Wait, Exit, Exiting, Adopt, FinishAdoption, Notify, Release,
     ForkFails, WaitFails, Call, Step, VisitChild, ChildrenAgain, ChildrenDone, VisitSibling,
     VisitHead, SiblingsAgain, SiblingsDone, vars

\* What was printed stays true, and what a call prints is true.
LEMMA OutputPreserved == Inv /\ [Next]_vars => TestOutput'
  <1> SUFFICES ASSUME TypeOK, Lists, TestPrograms, Calling, TestOutput, [Next]_vars,
                      NEW t \in Tasks, report'[t] # NoReport
               PROVE  /\ prog'[t] \in {"parent", "child"} =>
                            report'[t].youngest_child = IF kid'[t] = 0 THEN -1 ELSE kid'[t]
                      /\ prog'[t] \in {"child", "grandchild"} => kid'[report'[t].parent_pid] = t
    BY DEF Inv, TestOutput
  <1>0. 0 \notin Tasks
    BY Numbers
  <1>1. CASE report'[t] = report[t]
    <2>1. report[t].parent_pid \in Tasks
      BY <1>1 DEF TypeOK
    <2>2. prog[t] # "any" /\ upc[t] \notin {"any", "fork"}
      BY <1>1 DEF TestPrograms, ForksOnce
    <2>3. prog'[t] = prog[t] /\ kid'[t] = kid[t]
      BY <2>2, KidsStay
    <2>4. kid[report[t].parent_pid] = t => kid'[report[t].parent_pid] = t
      BY <1>0, <2>1, KidsStay
    <2> QED
      BY <1>1, <2>3, <2>4 DEF TestOutput
  <1>2. CASE report'[t] # report[t]
    <2>1. copy_to_user
      BY <1>2, ReportSteps
    <2>2. PICK c \in Tasks : c = current
      BY <2>1 DEF copy_to_user, Calling
    <2>3. PICK valid \in BOOLEAN :
            report' = [report EXCEPT ![c] =
                IF valid /\ prog[c] # "any"
                   THEN [parent_pid |-> parent_pid, youngest_child |-> youngest_child]
                   ELSE report[c]]
      BY <2>1, <2>2 DEF copy_to_user
    <2>4. /\ t = c /\ prog[c] # "any"
          /\ report'[t] = [parent_pid |-> parent_pid, youngest_child |-> youngest_child]
      BY <1>2, <2>3 DEF TypeOK
    <2>5. prog' = prog /\ kid' = kid /\ pc = "copy"
      BY <2>1 DEF copy_to_user
    <2>6. /\ youngest_child = IF kid[c] = 0 THEN -1 ELSE kid[c]
          /\ prog[c] \in {"child", "grandchild"} => kid[parent_pid] = c
      BY <2>2, <2>4, <2>5 DEF Calling
    <2> QED
      BY <2>4, <2>5, <2>6
  <1> QED
    BY <1>1, <1>2

\* A remainder that is nothing new.
LEMMA ModSmall ==
  ASSUME NEW L \in Nat \ {0}, NEW a \in 0 .. L - 1
  PROVE  a % L = a
  OBVIOUS

\* Each place of a list without repetitions is the place of its element.
LEMMA PlaceOf ==
  ASSUME NEW S, NEW list \in Seq(S), Distinct(list), NEW k \in 1 .. Len(list)
  PROVE  Place(list, list[k]) = k /\ list[k] \in Range(list)
  <1>1. k \in DOMAIN list
    BY LenProperties
  <1>2. Place(list, list[k]) \in DOMAIN list /\ list[Place(list, list[k])] = list[k]
    BY <1>1 DEF Place
  <1>3. Place(list, list[k]) = k
    BY <1>1, <1>2 DEF Distinct
  <1> QED
    BY <1>1, <1>3 DEF Range

\* The head is the first node of the ring of p.
LEMMA RingFirst ==
  ASSUME TasksTypeOK, NEW p \in Tasks
  PROVE  /\ Ring(p)[1] = -p /\ Len(Ring(p)) = 1 + Len(children[p]) /\ Len(children[p]) \in Nat
         /\ children[p] # << >> => Len(children[p]) > 0
  <1> DEFINE s == << -p >>
             t == children[p]
  <1>1. p \in Int /\ Tasks \subseteq Int
    BY DEF Tasks
  <1>2. t \in Seq(Tasks)
    BY DEF TasksTypeOK
  <1>3. s \in Seq(Int) /\ Len(s) = 1 /\ s[1] = -p
    BY <1>1
  <1>4. Len(t) \in Nat /\ (t # << >> => Len(t) > 0)
    <2> HIDE DEF t
    <2>1. Len(t) \in Nat /\ (Len(t) = 0 => t = << >>)
      BY <1>2, EmptySeq, LenProperties
    <2> QED
      BY <2>1
  <1>5. t \in Seq(Int)
    <2> HIDE DEF t
    <2> QED
      BY <1>1, <1>2, SeqMonotonic
  <1> HIDE DEF s, t
  <1>6. Len(s \o t) = Len(s) + Len(t) /\ (s \o t)[1] = s[1]
    <2>1. /\ Len(s \o t) = Len(s) + Len(t)
          /\ \A i \in 1 .. Len(s) + Len(t) :
                (s \o t)[i] = IF i <= Len(s) THEN s[i] ELSE t[i - Len(s)]
      BY <1>3, <1>5, ConcatProperties
    <2>2. 1 \in 1 .. Len(s) + Len(t) /\ 1 <= Len(s)
      BY <1>3, <1>4
    <2> QED
      BY <2>1, <2>2
  <1> QED
    BY <1>3, <1>4, <1>6 DEF Ring, s, t

\* The loop over the children ends at once only for a task without children.
LEMMA FollowHead ==
  ASSUME TasksTypeOK, Lists, NEW p \in Tasks, Follow(-p, 1) = -p
  PROVE  children[p] = << >>
  <1> DEFINE ring == Ring(p)
             L == Len(ring)
  <1>1. ring \in Seq(Int) /\ Distinct(ring) /\ L \in Nat \ {0} /\ DOMAIN ring = 1 .. L
    BY RingIs
  <1>2. ring[1] = -p /\ RingOf(-p) = ring
    BY RingFirst, RingOfIs
  <1>3. SUFFICES ASSUME L > 1 PROVE FALSE
    BY <1>1, RingFirst
  <1> HIDE DEF ring, L
  <1>4. Place(ring, -p) = 1
    <2>1. 1 \in 1 .. Len(ring)
      BY <1>1 DEF L
    <2> QED
      BY <1>1, <1>2, <2>1, PlaceOf
  <1>5. Follow(-p, 1) = ring[((1 - 1 + 1) % L) + 1]
    BY <1>2, <1>4 DEF Follow, L
  <1>6. ((1 - 1 + 1) % L) + 1 = 2
    <2>1. 1 \in 0 .. L - 1 /\ 1 - 1 + 1 = 1
      BY <1>1, <1>3
    <2>2. 1 % L = 1
      BY <1>1, <2>1, ModSmall
    <2> QED
      BY <2>1, <2>2
  <1>7. ring[2] = ring[1] /\ 1 \in DOMAIN ring /\ 2 \in DOMAIN ring
    BY <1>1, <1>2, <1>3, <1>5, <1>6
  <1> QED
    BY <1>1, <1>7 DEF Distinct

\* Tasks are added and taken away when nobody hands over children, and the parents of the
\* others stay.
LEMMA NearStays ==
  ASSUME Unlocked, NEW c \in Tasks, NEW t \in Tasks, Linked(c),
         \A u \in Tasks \ {t} : state'[u] = state[u] /\ parent'[u] = parent[u],
         \/ state[t] = "new" /\ c # t
         \/ parent'[t] = parent[t] /\ (Linked(t) => state'[t] # "new")
            /\ (state[t] \in Ended => state'[t] \in Ended)
            /\ (state[t] = "gone" => state'[t] = "gone"),
         NEW n, NearSibling(n, c)
  PROVE  NearSibling(n, c)'
  <1>1. \A p, q : SameList(p, q) <=> p = q
    BY DEF SameList, BeingJoined, Unlocked
  <1>2. \A p : SameList(p, p)'
    BY DEF SameList
  <1>3. parent'[c] = parent[c]
    OBVIOUS
  <1>4. CASE n \in Tasks /\ state[n] = "gone"
    BY <1>4 DEF NearSibling, Ended, Linked
  <1>5. CASE n \in Tasks /\ state[n] # "gone" /\ Linked(n) /\ parent[n] = parent[c]
    BY <1>2, <1>3, <1>5 DEF NearSibling, Linked
  <1>6. CASE -n \in Tasks /\ state[-n] \in Ended
    BY <1>6 DEF NearSibling, Ended
  <1>7. CASE -n \in Tasks /\ -n = parent[c]
    BY <1>2, <1>3, <1>7 DEF NearSibling
  <1> QED
    BY <1>1, <1>4, <1>5, <1>6, <1>7 DEF NearSibling

\* What the tasks other than the caller cannot change while the call runs.
CallerKept(c) ==
  /\ Alive(c)' /\ upc'[c] = upc[c] /\ prog'[c] = prog[c]
  /\ \A h \in Tasks \ {init} : state[h] # "new" /\ parent[h] = c
                               => state'[h] # "new" /\ parent'[h] = c
  /\ \A n : NearSibling(n, c) => NearSibling(n, c)'

LEMMA CallerStays ==
  ASSUME TypeOK, Lists, TestPrograms, [Next]_vars, NEW c \in Tasks, c = current, Alive(c),
         c # init, NEW t \in Tasks, Program(t) \/ Exiting(t)
  PROVE  CallerKept(c)
  <1>t. TasksTypeOK /\ parent[c] \in Tasks /\ Linked(c) /\ state[c] = "alive"
    BY DEF TypeOK, TasksTypeOK, Linked, Alive
  <1>1. CASE Fork(t)
    <2>1. PICK n \in Tasks : n = NewTask
      BY <1>1 DEF Fork, AddTask
    <2>2. /\ state[n] = "new" /\ Unlocked
          /\ \A u \in Tasks \ {n} : state'[u] = state[u] /\ parent'[u] = parent[u]
      BY <1>1, <1>t, <2>1, AddKeeps DEF Fork
    <2>3. c # n /\ t # c
      BY <1>1, <1>t, <2>2 DEF Fork, Free
    <2>4. PICK p : /\ prog' = [prog EXCEPT ![n] = p]
                   /\ upc' = [upc EXCEPT ![t] = Then(t, "call"), ![n] = FirstStep(p)]
      BY <1>1, <2>1 DEF Fork
    <2>5. upc'[c] = upc[c] /\ prog'[c] = prog[c]
      BY <2>3, <2>4 DEF TypeOK
    <2>6. \A m : NearSibling(m, c) => NearSibling(m, c)'
      BY <1>t, <2>2, <2>3, NearStays
    <2> QED
      BY <1>t, <2>2, <2>3, <2>5, <2>6 DEF Alive, CallerKept
  <1>2. CASE ForkFails(t) \/ WaitFails(t)
    <2>1. t # c /\ state' = state /\ parent' = parent /\ prog' = prog
          /\ \A u \in Tasks \ {t} : upc'[u] = upc[u]
      BY <1>2 DEF ForkFails, WaitFails, Free, taskVars, TypeOK
    <2> QED
      BY <1>t, <2>1 DEF CallerKept, Alive, NearSibling, SameList, BeingJoined, Linked
  <1>3. ASSUME NEW d \in Tasks, NEW from \in {"zombie", "dead"}, ReleaseTask(d, from),
               prog' = prog, upc'[c] = upc[c]
        PROVE  CallerKept(c)
    <2>1. /\ parent' = parent /\ state[d] = from /\ state'[d] = "gone" /\ Unlocked
          /\ \A u \in Tasks \ {d} : state'[u] = state[u]
      BY <1>t, <1>3, ReleaseKeeps
    <2>2. \A m : NearSibling(m, c) => NearSibling(m, c)'
      BY <1>t, <2>1, NearStays DEF Ended
    <2> QED
      BY <1>t, <1>3, <2>1, <2>2 DEF CallerKept, Alive
  <1>4. CASE Wait(t)
    <2>1. PICK d \in Range(children[t]) : ReleaseTask(d, "zombie")
      BY <1>4 DEF Wait
    <2>2. d \in Tasks /\ prog' = prog /\ upc'[c] = upc[c]
      BY <1>4, <1>t, RingIs DEF Wait, Free, TypeOK
    <2> QED
      BY <1>3, <2>1, <2>2
  <1>5. CASE Release(t)
    BY <1>3, <1>5 DEF Release, programVars
  <1>6. CASE StageStep(t)
    <2>1. /\ parent' = parent /\ children' = children /\ t # init
          /\ \A u \in Tasks \ {t} : state'[u] = state[u]
          /\ \/ state[t] = "alive" /\ state'[t] = "adopting" /\ Unlocked
             \/ state[t] = "adopting" /\ state'[t] = "leaving" /\ children[t] = << >>
             \/ state[t] = "leaving" /\ state'[t] \in {"zombie", "dead"} /\ Unlocked
      BY <1>6, <1>t, StageKeeps DEF StageStep
    <2>2. prog' = prog /\ upc' = upc /\ t # c
      BY <1>6, <1>t, <2>1 DEF StageStep, programVars
    <2>3. CASE Unlocked
      <3>1. \A m : NearSibling(m, c) => NearSibling(m, c)'
        BY <1>t, <2>1, <2>3, NearStays DEF Ended
      <3> QED
        BY <1>t, <2>1, <2>2, <3>1 DEF CallerKept, Alive
    <2>4. CASE state[t] = "adopting" /\ state'[t] = "leaving" /\ children[t] = << >>
      <3>1. \A u \in Tasks : Linked(u) => parent[u] # t
        BY <2>4 DEF Lists, ChildOf, Range
      <3>2. \A u \in Tasks : state[u] = "adopting" => u = t
        BY <2>4 DEF Lists
      <3>3. \A p : SameList(p, parent[c]) => p = t \/ p = parent[c]
        BY <1>t, <3>1, <3>2 DEF SameList, BeingJoined
      <3>4. \A p : SameList(p, p)'
        BY DEF SameList
      <3>5. \A u \in Tasks : Linked(u)' <=> Linked(u)
        BY <2>1, <2>4 DEF Linked
      <3>6. \A m : NearSibling(m, c) => NearSibling(m, c)'
        BY <2>1, <2>4, <3>1, <3>3, <3>4, <3>5 DEF NearSibling, Ended
      <3> QED
        BY <1>t, <2>1, <2>2, <2>4, <3>6 DEF CallerKept, Alive
    <2> QED
      BY <2>1, <2>3, <2>4
  <1>7. CASE Adopt(t)
    <2>1. PICK x \in Tasks :
             /\ ChildOf(x, t) /\ state' = state /\ state[t] = "adopting" /\ t # init
             /\ parent'[x] = init /\ \A u \in Tasks \ {x} : parent'[u] = parent[u]
      BY <1>7, <1>t, AdoptKeeps DEF Adopt
    <2>2. prog' = prog /\ upc' = upc
      BY <1>7 DEF Adopt, programVars
    <2>3. \A u \in Tasks : state[u] = "adopting" => u = t
      BY <2>1 DEF Lists
    <2>4. \A p, q : SameList(p, q) <=> p = q \/ {p, q} = {t, init}
      BY <2>1, <2>3 DEF SameList, BeingJoined
    <2>5. \A p, q : SameList(p, q)' <=> SameList(p, q)
      BY <2>1 DEF SameList, BeingJoined, init
    <2>6. \A u \in Tasks : parent'[u] = parent[u] \/ (parent[u] = t /\ parent'[u] = init)
      BY <2>1 DEF ChildOf
    <2>7. \A u \in Tasks : Linked(u)' <=> Linked(u)
      BY <2>1 DEF Linked, init
    <2>8. \A p, q, p2, q2 : /\ SameList(p, q)
                            /\ p2 = p \/ (p = t /\ p2 = init)
                            /\ q2 = q \/ (q = t /\ q2 = init)
                            => p2 = q2 \/ {p2, q2} = {t, init}
      BY <2>4
    <2>9. \A m : NearSibling(m, c) => NearSibling(m, c)'
      <3> SUFFICES ASSUME NEW m, NearSibling(m, c) PROVE NearSibling(m, c)'
        OBVIOUS
      <3>1. CASE m \in Tasks /\ state[m] = "gone"
        BY <2>1, <3>1 DEF NearSibling
      <3>2. CASE m \in Tasks /\ Linked(m) /\ SameList(parent[m], parent[c])
        <4>1. PICK a, b : a = parent'[m] /\ b = parent'[c]
          OBVIOUS
        <4>2. SameList(a, b)
          BY <2>4, <2>6, <2>8, <3>2, <4>1
        <4> QED
          BY <2>5, <2>7, <3>2, <4>1, <4>2 DEF NearSibling
      <3>3. CASE -m \in Tasks /\ state[-m] \in Ended
        BY <2>1, <3>3 DEF NearSibling, Ended
      <3>4. CASE -m \in Tasks /\ SameList(-m, parent[c])
        <4>1. PICK a, b : a = -m /\ b = parent'[c]
          OBVIOUS
        <4>2. SameList(a, b)
          BY <2>4, <2>6, <2>8, <3>4, <4>1
        <4> QED
          BY <2>5, <3>4, <4>1, <4>2 DEF NearSibling
      <3> QED
        BY <3>1, <3>2, <3>3, <3>4 DEF NearSibling
    <2>10. x # init => parent[x] = t
      BY <2>1 DEF ChildOf
    <2>11. c # t
      BY <1>t, <2>1
    <2> QED
      BY <1>t, <2>1, <2>2, <2>9, <2>10, <2>11 DEF CallerKept, Alive
  <1> QED
    BY <1>1, <1>2, <1>4, <1>5, <1>6, <1>7, StageSteps DEF Program, Exiting

\* What the first field of the record of c should be.
Found(c) == IF kid[c] = 0 THEN -1 ELSE kid[c]

\* A process of test.c that is in the call comes to its child and to no other.
LEMMA FindsOnlyChild ==
  ASSUME TypeOK, Lists, TestPrograms, Calling, pc \in OfChildren, prog[current] # "any",
         NextNode # EndNode
  PROVE  NextNode = kid[current] /\ kid[current] # 0
  <1>1. /\ current \in Tasks /\ upc[current] = "call"
        /\ children[current] = OnlyChild(current)
        /\ head = -current \/ head = kid[current]
    BY DEF Calling, OfChildren, TestPrograms, ForksOnce
  <1>2. /\ NextNode \in Tasks
        /\ (state[NextNode] = "gone" /\ NextNode = head) \/ ChildOf(NextNode, current)
    BY ChildNext
  <1>3. CASE ChildOf(NextNode, current)
    <2>1. NextNode \in Range(OnlyChild(current))
      BY <1>1, <1>2, <1>3 DEF Lists
    <2> QED
      BY <2>1 DEF OnlyChild, Range
  <1>4. CASE NextNode = head
    BY <1>1, <1>2, <1>4, Numbers
  <1> QED
    BY <1>2, <1>3, <1>4

\* The call stays in the lists of the caller, and finds the child of a process of test.c.
LEMMA CallingPreserved == Inv /\ [Next]_vars => Calling'
  <1> SUFFICES ASSUME TypeOK, Lists, TestPrograms, Calling, [Next]_vars PROVE Calling'
    BY DEF Inv
  <1>t. TasksTypeOK
    BY DEF TypeOK
  <1>c. ASSUME NEW c, c = current, pc # "idle"
        PROVE  /\ c \in Tasks \ {init} /\ Alive(c) /\ upc[c] \in {"any", "call"}
               /\ parent_pid \in Tasks /\ Linked(c) /\ \A u \in Tasks : counted[u] > 0 => OwnChild(u)
               /\ prog[c] \in {"child", "grandchild"} => kid[parent_pid] = c
    BY <1>c DEF Calling, Linked, Alive
  <1>p. 0 \notin Tasks /\ init \in Tasks /\ \A c \in Tasks : -c \notin Tasks /\ -c # c
    BY Numbers
  <1>1. ASSUME NEW t \in Tasks, Program(t) \/ Exiting(t) PROVE Calling'
    <2>1. UNCHANGED callVars
      BY <1>1 DEF Program, Fork, ForkFails, Wait, WaitFails, Exit, Exiting, Adopt, FinishAdoption,
         Notify, Release
    <2>2. /\ current' = current /\ pc' = pc /\ head' = head /\ tmp_st1' = tmp_st1
          /\ tmp_pid1' = tmp_pid1 /\ tmp_st2' = tmp_st2 /\ tmp_pid2' = tmp_pid2
          /\ parent_pid' = parent_pid /\ youngest_child' = youngest_child
          /\ counted' = counted /\ strays' = strays
      BY <2>1 DEF callVars, tmpVars
    <2>3. CASE pc = "idle"
      <3>1. NoCall /\ NoCall'
        BY <2>2, <2>3 DEF Calling, NoCall, NoCount
      <3>2. \A u \in Tasks : ~(counted'[u] > 0)
        BY <2>2, <3>1 DEF NoCall, NoCount
      <3> QED
        BY <2>2, <2>3, <3>1, <3>2 DEF Calling, OfChildren, OfSiblings
    <2>4. CASE pc # "idle"
      <3>1. PICK c \in Tasks : c = current
        BY <1>c, <2>4
      <3>2. CallerKept(c)
        BY <1>1, <1>c, <2>4, <3>1, CallerStays
      <3>3. prog[c] # "any" => kid'[c] = kid[c]
        <4>1. prog[c] # "any" => upc[c] \notin {"any", "fork"}
          BY <1>c, <2>4, <3>1 DEF TestPrograms, ForksOnce
        <4> QED
          BY <4>1, KidsStay
      <3>4. prog[c] \in {"child", "grandchild"} => kid'[parent_pid] = c
        BY <1>c, <1>p, <2>4, <3>1, KidsStay
      <3>5. \A h : OwnChild(h) => OwnChild(h)'
        BY <2>2, <3>1, <3>2 DEF OwnChild, CallerKept, init
      <3>6. AtChildren => AtChildren'
        BY <2>2, <3>5 DEF AtChildren, OwnChild
      <3>7. AtSiblings => AtSiblings'
        <4>1. PICK n : n = head
          OBVIOUS
        <4>2. NearSibling(n, c) => NearSibling(n, c)'
          BY <3>2 DEF CallerKept
        <4> QED
          BY <2>2, <3>1, <4>1, <4>2 DEF AtSiblings, NearSibling
      <3>8. /\ \A u \in Tasks : counted'[u] > 0 => OwnChild(u)'
            /\ pc \in OfChildren => tmp_pid1' = -1 \/ OwnChild(tmp_pid1)'
            /\ pc \in OfSiblings \cup {"copy"} => youngest_child' = -1 \/ OwnChild(youngest_child)'
        <4>1. \A u \in Tasks : counted'[u] > 0 => OwnChild(u)'
          BY <1>c, <2>2, <2>4, <3>1, <3>5
        <4>2. PICK a, b : a = tmp_pid1 /\ b = youngest_child
          OBVIOUS
        <4>3. (OwnChild(a) => OwnChild(a)') /\ (OwnChild(b) => OwnChild(b)')
          BY <3>5
        <4> QED
          BY <2>2, <4>1, <4>2, <4>3 DEF Calling, OwnChild
      <3> QED
        BY <1>c, <2>2, <2>4, <3>1, <3>2, <3>3, <3>4, <3>6, <3>7, <3>8 DEF Calling, CallerKept
    <2> QED
      BY <2>3, <2>4
  <1>2. ASSUME NEW t \in Tasks, Call(t) PROVE Calling'
    <2>1. /\ current' = t /\ pc' = "children" /\ head' = -t /\ tmp_st1' = Forever /\ tmp_pid1' = -1
          /\ parent_pid' = parent[t] /\ Alive(t) /\ t # init /\ upc[t] \in {"any", "call"}
          /\ state' = state /\ upc' = upc /\ prog' = prog /\ kid' = kid /\ counted' = counted
          /\ pc = "idle"
      BY <1>2 DEF Call, Free, taskVars, programVars
    <2>2. parent[t] \in Tasks /\ Linked(t)
      BY <1>t, <2>1 DEF TasksTypeOK, Linked, Alive
    <2>3. prog[t] \in {"child", "grandchild"} => kid[parent[t]] = t
      BY <2>2 DEF TestPrograms
    <2>4. \A u \in Tasks : ~(counted'[u] > 0)
      BY <2>1 DEF Calling, NoCall, NoCount
    <2> QED
      BY <2>1, <2>2, <2>3, <2>4 DEF Calling, AtChildren, Alive, OfSiblings, OfChildren
  <1>3. CASE VisitChild
    <2>1. /\ head' = NextNode /\ pc' = pc /\ pc \in OfChildren /\ NextNode # EndNode
          /\ current' = current /\ parent_pid' = parent_pid /\ state' = state /\ parent' = parent
          /\ upc' = upc /\ prog' = prog /\ kid' = kid
          /\ IF tmp_st1 > StartTime(NextNode) THEN tmp_pid1' = NextNode ELSE tmp_pid1' = tmp_pid1
          /\ \E k : counted' = [counted EXCEPT ![NextNode] = k]
      BY <1>3 DEF VisitChild, taskVars, programVars
    <2>2. /\ pc # "idle" /\ AtChildren /\ (tmp_pid1 = -1 \/ OwnChild(tmp_pid1))
          /\ (pc = "children" /\ head = -current => tmp_st1 = Forever)
      BY <2>1 DEF Calling, OfChildren
    <2>3. PICK c \in Tasks : c = current
      BY <1>c, <2>2
    <2>4. NextNode \in Tasks /\ NextNode # -c /\ OwnChild(NextNode)
      BY <1>p, <2>1, <2>3, ChildNext
    <2>5. AtChildren' /\ (tmp_pid1' = -1 \/ OwnChild(tmp_pid1)') /\ head' # -current'
      BY <2>1, <2>2, <2>3, <2>4 DEF AtChildren, OwnChild
    <2>8. \A u \in Tasks : counted'[u] > 0 => OwnChild(u)'
      <3>1. PICK k : counted' = [counted EXCEPT ![NextNode] = k]
        BY <2>1
      <3>2. \A u \in Tasks \ {NextNode} : counted'[u] = counted[u]
        BY <3>1 DEF TypeOK
      <3> QED
        BY <1>c, <2>1, <2>2, <2>3, <2>4, <3>2 DEF OwnChild
    <2>6. prog[c] # "any" => head' = kid[c] /\ tmp_pid1' = Found(c) /\ kid[c] # 0
      <3> SUFFICES ASSUME prog[c] # "any"
                   PROVE  head' = kid[c] /\ tmp_pid1' = Found(c) /\ kid[c] # 0
        OBVIOUS
      <3>1. NextNode = kid[c] /\ kid[c] # 0
        BY <2>1, <2>3, FindsOnlyChild
      <3>2. StartTime(NextNode) < Forever /\ StartTime(NextNode) \in Int /\ Forever \in Int
        BY <2>4, Numbers DEF Times
      <3>3. tmp_pid1 = Found(c) \/ tmp_st1 = Forever
        BY <2>1, <2>2, <2>3 DEF Calling, Found, OfChildren
      <3>4. tmp_st1 = Forever => tmp_pid1' = NextNode
        BY <2>1, <3>2
      <3> QED
        BY <2>1, <3>1, <3>3, <3>4 DEF Found
    <2>7. pc \notin OfSiblings \cup {"copy", "idle"}
      BY <2>1 DEF OfChildren, OfSiblings
    <2> QED
      BY <1>c, <2>1, <2>2, <2>3, <2>5, <2>6, <2>7, <2>8 DEF Calling, Alive, Found
  <1>4. CASE ChildrenAgain
    <2>1. /\ pc = "children" /\ pc' = "children_prev" /\ current' = current /\ head' = -current
          /\ parent_pid' = parent_pid /\ tmp_pid1' = tmp_pid1
          /\ state' = state /\ upc' = upc /\ prog' = prog /\ kid' = kid
          /\ NextNode = EndNode /\ parent' = parent /\ counted' = counted
      BY <1>4 DEF ChildrenAgain, taskVars, programVars, tmpVars
    <2>2. PICK c \in Tasks : c = current
      BY <1>c, <2>1
    <2>3. prog[c] # "any" => tmp_pid1 = Found(c)
      <3> SUFFICES ASSUME prog[c] # "any", head = -c PROVE tmp_pid1 = Found(c)
        BY <2>1, <2>2 DEF Calling, Found, OfChildren
      <3>1. Follow(-c, 1) = -c
        BY <2>1, <2>2 DEF NextNode, EndNode, Forward, OfChildren
      <3>2. children[c] = << >>
        BY <1>t, <3>1, FollowHead
      <3>3. upc[c] = "call" /\ children[c] = OnlyChild(c)
        BY <1>c, <2>1, <2>2 DEF TestPrograms, ForksOnce
      <3>4. kid[c] = 0
        BY <3>2, <3>3 DEF OnlyChild
      <3> QED
        BY <2>1, <2>2, <3>4 DEF Calling, Found
    <2>4. AtChildren' /\ (tmp_pid1' = -1 \/ OwnChild(tmp_pid1)')
      BY <2>1 DEF AtChildren, Calling, OfChildren, OwnChild
    <2>5. \A u \in Tasks : counted'[u] > 0 => OwnChild(u)'
      BY <1>c, <2>1, <2>2 DEF OwnChild
    <2> QED
      BY <1>c, <2>1, <2>2, <2>3, <2>4, <2>5 DEF Calling, Alive, Found, OfSiblings, OfChildren
  <1>5. CASE ChildrenDone
    <2>1. /\ pc = "children_prev" /\ pc' = "siblings" /\ current' = current /\ head' = current
          /\ parent_pid' = parent_pid /\ youngest_child' = tmp_pid1 /\ parent' = parent
          /\ state' = state /\ upc' = upc /\ prog' = prog /\ kid' = kid /\ counted' = counted
      BY <1>5 DEF ChildrenDone, taskVars, programVars
    <2>2. PICK c \in Tasks : c = current
      BY <1>c, <2>1
    <2>3. prog[c] # "any" => tmp_pid1 = Found(c)
      BY <2>1, <2>2 DEF Calling, Found
    <2>4. AtSiblings'
      BY <1>c, <2>1, <2>2 DEF AtSiblings, NearSibling, SameList, Linked
    <2>5. /\ \A u \in Tasks : counted'[u] > 0 => OwnChild(u)'
          /\ youngest_child' = -1 \/ OwnChild(youngest_child)'
      BY <1>c, <2>1, <2>2 DEF OwnChild, Calling, OfChildren
    <2> QED
      BY <1>c, <2>1, <2>2, <2>3, <2>4, <2>5 DEF Calling, Alive, Found, OfSiblings, OfChildren
  <1>6. CASE VisitSibling \/ VisitHead
    <2>1. /\ head' = NextNode /\ pc' = pc /\ pc \in OfSiblings
          /\ current' = current /\ parent_pid' = parent_pid /\ state' = state /\ parent' = parent
          /\ upc' = upc /\ prog' = prog /\ kid' = kid /\ youngest_child' = youngest_child
          /\ counted' = counted
      BY <1>6 DEF VisitSibling, VisitHead, taskVars, programVars
    <2>2. pc \notin {"idle", "copy"} \cup OfChildren
      BY <2>1 DEF OfSiblings, OfChildren
    <2>3. PICK c \in Tasks : c = current
      BY <1>c, <2>2
    <2>4. NearSibling(NextNode, c)
      BY <2>1, <2>3, SiblingNext
    <2>5. AtSiblings'
      <3>1. PICK n : n = NextNode
        OBVIOUS
      <3> QED
        BY <2>1, <2>3, <2>4, <3>1 DEF AtSiblings, NearSibling, SameList, BeingJoined, Linked
    <2>8. /\ \A u \in Tasks : counted'[u] > 0 => OwnChild(u)'
          /\ youngest_child' = -1 \/ OwnChild(youngest_child)'
      BY <1>c, <2>1, <2>2, <2>3 DEF OwnChild, Calling
    <2>6. prog[c] # "any" => youngest_child = Found(c)
      BY <2>1, <2>2, <2>3 DEF Calling, Found
    <2> QED
      BY <1>c, <2>1, <2>2, <2>3, <2>5, <2>6, <2>8 DEF Calling, Alive, Found, OfChildren
  <1>7. CASE SiblingsAgain \/ SiblingsDone
    <2>1. /\ pc' \in {"siblings_prev", "copy"} /\ pc \in OfSiblings /\ head' = current
          /\ current' = current /\ parent_pid' = parent_pid /\ state' = state /\ parent' = parent
          /\ upc' = upc /\ prog' = prog /\ kid' = kid /\ youngest_child' = youngest_child
          /\ counted' = counted
      BY <1>7 DEF SiblingsAgain, SiblingsDone, taskVars, programVars, OfSiblings
    <2>2. pc \notin {"idle", "copy"} \cup OfChildren
      BY <2>1 DEF OfSiblings, OfChildren
    <2>3. PICK c \in Tasks : c = current
      BY <1>c, <2>2
    <2>4. AtSiblings'
      BY <1>c, <2>1, <2>2, <2>3 DEF AtSiblings, NearSibling, SameList, Linked
    <2>5. prog[c] # "any" => youngest_child = Found(c)
      BY <2>1, <2>2, <2>3 DEF Calling, Found
    <2>6. /\ \A u \in Tasks : counted'[u] > 0 => OwnChild(u)'
          /\ youngest_child' = -1 \/ OwnChild(youngest_child)'
      BY <1>c, <2>1, <2>2, <2>3 DEF OwnChild, Calling
    <2> QED
      BY <1>c, <2>1, <2>2, <2>3, <2>4, <2>5, <2>6 DEF Calling, Alive, Found, OfChildren, OfSiblings
  <1>8. CASE copy_to_user
    <2>1. NoCall' /\ pc' = "idle"
      BY <1>8 DEF copy_to_user, EndCall, NoCall, NoCount
    <2>2. \A u \in Tasks : ~(counted'[u] > 0)
      BY <2>1 DEF NoCall, NoCount
    <2> QED
      BY <2>1, <2>2 DEF Calling, OfChildren, OfSiblings
  <1>9. CASE UNCHANGED vars
    BY <1>9 DEF vars, taskVars, programVars, callVars, tmpVars, Calling, NoCall, NoCount,
       AtChildren, AtSiblings, NearSibling, SameList, BeingJoined, OwnChild, Linked, Alive
  <1> QED
    BY <1>1, <1>2, <1>3, <1>4, <1>5, <1>6, <1>7, <1>8, <1>9 DEF Next, Step

LEMMA InitInv == Init => Inv
  <1> SUFFICES ASSUME Init PROVE Inv
    OBVIOUS
  <1>1. /\ \A t \in Tasks : /\ state[t] = (IF t = init THEN "alive" ELSE "new")
                            /\ parent[t] = init /\ children[t] = << >> /\ prog[t] = "any"
                            /\ upc[t] = "any" /\ kid[t] = 0 /\ report[t] = NoReport
        /\ NoCall /\ pc = "idle" /\ quiet = FALSE
    BY DEF Init, TasksInit, NoCall
  <1>2. TypeOK
    <2>1. TasksTypeOK
      BY Numbers DEF Init, TasksInit, TasksTypeOK, States
    <2>2. counted \in [Tasks -> 0 .. Many]
      BY <1>1 DEF NoCall, NoCount, Many
    <2>3. 0 \in -N .. N
      BY Numbers
    <2>4. /\ prog \in [Tasks -> {"any", "parent", "child", "grandchild"}]
          /\ upc \in [Tasks -> {"any", "fork", "call", "wait", "exit"}]
          /\ kid \in [Tasks -> Tasks \cup {0}]
          /\ report \in [Tasks -> [parent_pid : Tasks, youngest_child : Tasks \cup {-1}]
                            \cup {NoReport}]
      BY DEF Init
    <2> QED
      BY <1>1, <2>1, <2>2, <2>3, <2>4, Numbers DEF NoCall, TypeOK
  <1>3. Lists
    <2>1. Alive(init) /\ \A c \in Tasks : ~Linked(c)
      BY <1>1, Numbers DEF Alive, Linked
    <2>2. \A p \in Tasks : Range(children[p]) = {} /\ Distinct(children[p])
      BY <1>1 DEF Range, Distinct
    <2> QED
      BY <1>1, <2>1, <2>2 DEF Lists, ChildOf
  <1>4. TestPrograms
    BY <1>1, Numbers DEF TestPrograms
  <1>5. Calling
    <2>1. \A u \in Tasks : ~(counted[u] > 0)
      BY <1>1 DEF NoCall, NoCount
    <2> QED
      BY <1>1, <2>1 DEF Calling, OfChildren, OfSiblings
  <1>6. TestOutput
    BY <1>1 DEF TestOutput
  <1> QED
    BY <1>2, <1>3, <1>4, <1>5, <1>6 DEF Inv

\* The inductive invariant of the call, of the lists that it walks through and of the
\* test programs.
THEOREM Invariance == Spec => []Inv
  <1>1. Init => Inv
    BY InitInv
  <1>2. Inv /\ [Next]_vars => Inv'
    <2> SUFFICES ASSUME Inv, [Next]_vars PROVE Inv'
      OBVIOUS
    <2>1. TypeOK' /\ TestPrograms' /\ Calling' /\ TestOutput'
      BY TypePreserved, ProgramsPreserved, CallingPreserved, OutputPreserved
    <2>2. Lists'
      BY ListsPreserved DEF Inv, TypeOK
    <2> QED
      BY <2>1, <2>2 DEF Inv
  <1> QED
    BY <1>1, <1>2, PTL DEF Spec

\* Every variable keeps its type: what is read through the links of the lists is a task
\* wherever the code takes it for one, except for the list heads among the siblings.
THEOREM TypeCorrect == Spec => []TypeOK
  <1>1. Inv => TypeOK
    BY DEF Inv
  <1> QED
    BY Invariance, <1>1, PTL

\* The walk is in the caller's list, at a node that is linked to itself, or on the other
\* side of an adoption, also while the children of the parent are handed over one by one.
THEOREM StaysInOwnList == Spec => []InOwnList
  <1>1. Inv => InOwnList
    <2> SUFFICES ASSUME TypeOK, Lists, Calling, InLoop, EndNode \notin Range(RingOf(head))
                 PROVE  Len(RingOf(head)) = 1 \/ BeingJoined(ListOf(head), ListOf(EndNode))
      BY DEF Inv, InOwnList, Stranded
    <2>0. /\ TasksTypeOK /\ current \in Tasks \ {init} /\ Alive(current) /\ parent[current] \in Tasks
          /\ head \in Int /\ -(-head) = head
      BY TasksAssumption DEF TypeOK, TasksTypeOK, Calling, InLoop, OfChildren, OfSiblings
    <2>1. CASE head \in Tasks /\ state[head] = "gone"
      BY <2>0, <2>1, RingOfIs
    <2>2. CASE pc \in OfChildren /\ (head = -current \/ (head \in Tasks /\ ChildOf(head, current)))
      <3>1. RingOf(head) = Ring(current) /\ -current \in Range(Ring(current))
        BY <2>0, <2>2, RingOfIs
      <3> QED
        BY <2>2, <3>1 DEF EndNode
    <2>3. CASE -head \in Tasks /\ state[-head] \in Ended
      <3>1. children[-head] = << >>
        BY <2>3 DEF Lists, Ended
      <3>2. Ring(-head) = << head >> /\ RingOf(head) = Ring(-head)
        BY <2>0, <2>3, <3>1, RingIs, RingOfIs
      <3> QED
        BY <3>2
    <2>4. ASSUME pc \in OfSiblings, NEW p \in Tasks, p = ListOf(head), SameList(p, parent[current]),
                 head = -p \/ (head \in Tasks /\ ChildOf(head, p))
          PROVE  BeingJoined(ListOf(head), ListOf(EndNode))
      <3>1. RingOf(head) = Ring(p)
        BY <2>0, <2>4, RingOfIs
      <3>2. EndNode = current /\ ListOf(EndNode) = parent[current]
        BY <2>0, <2>4, Numbers DEF EndNode, OfChildren, OfSiblings, ListOf
      <3>3. ChildOf(current, parent[current])
        BY <2>0 DEF ChildOf, Linked, Alive
      <3>4. current \in Range(Ring(parent[current]))
        BY <2>0, <3>3, RingOfIs
      <3>5. p # parent[current]
        BY <3>1, <3>2, <3>4
      <3> QED
        BY <2>4, <3>2, <3>5 DEF SameList
    <2>5. CASE pc \in OfSiblings /\ head \in Tasks /\ Linked(head)
               /\ SameList(parent[head], parent[current])
      <3>1. ListOf(head) = parent[head] /\ parent[head] \in Tasks /\ ChildOf(head, parent[head])
        BY <2>0, <2>5, Numbers DEF ListOf, ChildOf, TasksTypeOK
      <3> QED
        BY <2>4, <2>5, <3>1
    <2>6. CASE pc \in OfSiblings /\ -head \in Tasks /\ SameList(-head, parent[current])
      <3>1. ListOf(head) = -head
        BY <2>0, <2>6, Numbers DEF ListOf
      <3> QED
        BY <2>0, <2>4, <2>6, <3>1
    <2>7. OwnChild(head) => head \in Tasks /\ (state[head] = "gone" \/ ChildOf(head, current))
      BY DEF OwnChild, ChildOf, Linked
    <2> QED
      BY <2>1, <2>2, <2>3, <2>5, <2>6, <2>7 DEF Calling, AtChildren, AtSiblings, NearSibling, InLoop
  <1> QED
    BY Invariance, <1>1, PTL

\* The output of the test programs is right, whatever other processes do meanwhile.
THEOREM TestOutputRight == Spec => []TestOutput
  <1>1. Inv => TestOutput
    BY DEF Inv
  <1> QED
    BY Invariance, <1>1, PTL
-----------------------------------------------------------------------------
(* An undisturbed walk goes once round its ring, in each direction. *)

\* A remainder of a number that is not far away.
LEMMA ModNear ==
  ASSUME NEW L \in Nat \ {0}, NEW y \in Int, -L <= y, y < L + L
  PROVE  y % L = IF y < 0 THEN y + L ELSE IF y < L THEN y ELSE y - L
  <1> DEFINE q == y \div L
             r == y % L
  <1>1. q \in Int /\ r \in 0 .. L - 1 /\ y = L * q + r
    OBVIOUS
  <1> HIDE DEF q, r
  <1> DEFINE z == L * q
  <1>2. z \in Int /\ y = z + r
    BY <1>1
  <1>3. q >= 2 => z >= L + L
    BY <1>1
  <1>4. q <= -2 => z <= -L - L
    BY <1>1
  <1>5. (q = 0 => z = 0) /\ (q = 1 => z = L) /\ (q = -1 => z = -L)
    BY <1>1
  <1> HIDE DEF z
  <1>6. q \in {-1, 0, 1}
    BY <1>1, <1>2, <1>3, <1>4
  <1> QED
    BY <1>1, <1>2, <1>5, <1>6 DEF r

\* The place that a walk of m steps from place x comes to.
Stop(L, x, d, m) == (x + m * d) % L

\* The walk comes to every place once, and then to x again.
Circular(L, x, d) ==
  /\ Stop(L, x, d, 0) = x /\ Stop(L, x, d, L) = x
  /\ \A m \in 0 .. L - 1 : /\ Stop(L, x, d, m) \in 0 .. L - 1
                           /\ (Stop(L, x, d, m) + d) % L = Stop(L, x, d, m + 1)
  /\ \A m, k \in 0 .. L - 1 : Stop(L, x, d, m) = Stop(L, x, d, k) => m = k
  /\ \A k \in 0 .. L - 1 : \E m \in 0 .. L - 1 : Stop(L, x, d, m) = k

LEMMA RoundPlaces ==
  ASSUME NEW L \in Nat \ {0}, NEW x \in 0 .. L - 1, NEW d \in {1, -1}
  PROVE  Circular(L, x, d)
  <1>1. CASE d = 1
    <2>1. \A m \in 0 .. L : x + m * d = x + m
      BY <1>1
    <2>2. \A m \in 0 .. L : (x + m) % L = IF x + m < L THEN x + m ELSE x + m - L
      <3> TAKE m \in 0 .. L
      <3> DEFINE y == x + m
      <3>1. y \in Int /\ -L <= y /\ y < L + L /\ ~(y < 0)
        OBVIOUS
      <3> HIDE DEF y
      <3>2. y % L = IF y < L THEN y ELSE y - L
        BY <3>1, ModNear
      <3> QED
        BY <3>2 DEF y
    <2>3. \A y \in 0 .. L - 1 : (y + d) % L = IF y + 1 < L THEN y + 1 ELSE y + 1 - L
      <3> TAKE y \in 0 .. L - 1
      <3> DEFINE z == y + 1
      <3>1. y + d = z /\ z \in Int /\ -L <= z /\ z < L + L /\ ~(z < 0)
        BY <1>1
      <3> HIDE DEF z
      <3>2. z % L = IF z < L THEN z ELSE z - L
        BY <3>1, ModNear
      <3> QED
        BY <3>1, <3>2 DEF z
    <2> DEFINE P(m) == Stop(L, x, d, m)
    <2>4. \A m \in 0 .. L : P(m) = IF x + m < L THEN x + m ELSE x + m - L
      BY <2>1, <2>2 DEF Stop
    <2>5. \A m \in 0 .. L - 1 : P(m) \in 0 .. L - 1
      BY <2>4
    <2>6. ASSUME NEW m \in 0 .. L - 1 PROVE (P(m) + d) % L = P(m + 1)
      <3>1. m + 1 \in 0 .. L /\ m \in 0 .. L
        OBVIOUS
      <3>2. (P(m) + d) % L = IF P(m) + 1 < L THEN P(m) + 1 ELSE P(m) + 1 - L
        BY <2>3, <2>5
      <3>3. P(m) = IF x + m < L THEN x + m ELSE x + m - L
        BY <2>4, <3>1
      <3>4. P(m + 1) = IF x + (m + 1) < L THEN x + (m + 1) ELSE x + (m + 1) - L
        BY <2>4, <3>1
      <3> HIDE DEF P
      <3> QED
        BY <3>2, <3>3, <3>4
    <2>7. P(0) = x /\ P(L) = x
      <3> HIDE DEF P
      <3> QED
        BY <2>4
    <2>8. \A m, k \in 0 .. L - 1 : P(m) = P(k) => m = k
      <3> HIDE DEF P
      <3> QED
        BY <2>4
    <2>9. ASSUME NEW k \in 0 .. L - 1 PROVE \E m \in 0 .. L - 1 : P(m) = k
      <3> DEFINE m == IF k >= x THEN k - x ELSE k - x + L
      <3>1. m \in 0 .. L - 1
        OBVIOUS
      <3> HIDE DEF P
      <3>2. P(m) = k
        BY <2>4, <3>1
      <3> QED
        BY <3>1, <3>2
    <2> QED
      BY <2>5, <2>6, <2>7, <2>8, <2>9 DEF Circular
  <1>2. CASE d = -1
    <2>1. \A m \in 0 .. L : x + m * d = x - m
      BY <1>2
    <2>2. \A m \in 0 .. L : (x - m) % L = IF x - m < 0 THEN x - m + L ELSE x - m
      <3> TAKE m \in 0 .. L
      <3>1. x - m \in Int /\ -L <= x - m /\ x - m < L + L /\ x - m < L
        OBVIOUS
      <3> QED
        BY <3>1, ModNear
    <2>3. \A y \in 0 .. L - 1 : (y + d) % L = IF y - 1 < 0 THEN y - 1 + L ELSE y - 1
      <3> TAKE y \in 0 .. L - 1
      <3>1. y + d = y - 1 /\ y - 1 \in Int /\ -L <= y - 1 /\ y - 1 < L + L /\ y - 1 < L
        BY <1>2
      <3> QED
        BY <3>1, ModNear
    <2> DEFINE P(m) == Stop(L, x, d, m)
    <2>4. \A m \in 0 .. L : P(m) = IF x - m < 0 THEN x - m + L ELSE x - m
      BY <2>1, <2>2 DEF Stop
    <2>5. \A m \in 0 .. L - 1 : P(m) \in 0 .. L - 1
      BY <2>4
    <2>6. ASSUME NEW m \in 0 .. L - 1 PROVE (P(m) + d) % L = P(m + 1)
      <3>1. m + 1 \in 0 .. L /\ m \in 0 .. L
        OBVIOUS
      <3>2. (P(m) + d) % L = IF P(m) - 1 < 0 THEN P(m) - 1 + L ELSE P(m) - 1
        BY <2>3, <2>5
      <3>3. P(m) = IF x - m < 0 THEN x - m + L ELSE x - m
        BY <2>4, <3>1
      <3>4. P(m + 1) = IF x - (m + 1) < 0 THEN x - (m + 1) + L ELSE x - (m + 1)
        BY <2>4, <3>1
      <3> HIDE DEF P
      <3> QED
        BY <3>2, <3>3, <3>4
    <2>7. P(0) = x /\ P(L) = x
      <3> HIDE DEF P
      <3> QED
        BY <2>4
    <2>8. \A m, k \in 0 .. L - 1 : P(m) = P(k) => m = k
      <3> HIDE DEF P
      <3> QED
        BY <2>4
    <2>9. ASSUME NEW k \in 0 .. L - 1 PROVE \E m \in 0 .. L - 1 : P(m) = k
      <3> DEFINE m == IF k <= x THEN x - k ELSE x - k + L
      <3>1. m \in 0 .. L - 1
        OBVIOUS
      <3> HIDE DEF P
      <3>2. P(m) = k
        BY <2>4, <3>1
      <3> QED
        BY <3>1, <3>2
    <2> QED
      BY <2>5, <2>6, <2>7, <2>8, <2>9 DEF Circular
  <1> QED
    BY <1>1, <1>2

\* The node of a ring that a walk from e in direction d reaches after m steps, and the
\* nodes that it has passed by then.
At(ring, e, d, m) == ring[((Place(ring, e) - 1 + m * d) % Len(ring)) + 1]
Between(ring, e, d, m) == {At(ring, e, d, j) : j \in 1 .. m}

\* Such a walk comes to every node once before it is back at e.
Circle(ring, e, d) ==
  /\ At(ring, e, d, 0) = e /\ At(ring, e, d, Len(ring)) = e
  /\ \A m \in 0 .. Len(ring) - 1 :
        /\ At(ring, e, d, m) \in Range(ring)
        /\ ring[((Place(ring, At(ring, e, d, m)) - 1 + d) % Len(ring)) + 1]
              = At(ring, e, d, m + 1)
  /\ \A m, k \in 0 .. Len(ring) - 1 : At(ring, e, d, m) = At(ring, e, d, k) => m = k
  /\ \A n \in Range(ring) : \E m \in 0 .. Len(ring) - 1 : At(ring, e, d, m) = n

LEMMA Round ==
  ASSUME NEW ring \in Seq(Int), Distinct(ring), NEW e \in Range(ring), NEW d \in {1, -1}
  PROVE  Len(ring) \in Nat \ {0} /\ Circle(ring, e, d)
  <1> DEFINE L == Len(ring)
             x == Place(ring, e) - 1
             P(m) == Stop(L, x, d, m)
             A(m) == At(ring, e, d, m)
  <1>1. Place(ring, e) \in 1 .. L /\ L \in Nat /\ DOMAIN ring = 1 .. L /\ ring[Place(ring, e)] = e
    BY PlaceIs, LenProperties
  <1>2. x \in 0 .. L - 1 /\ L \in Nat \ {0} /\ x + 1 = Place(ring, e)
    BY <1>1
  <1>3. \A m : A(m) = ring[P(m) + 1]
    BY DEF At, Stop
  <1>4. ring[x + 1] = e
    BY <1>1, <1>2
  <1>5. DOMAIN ring = 1 .. L
    BY <1>1
  <1> HIDE DEF A, x
  <1>6. /\ P(0) = x /\ P(L) = x
        /\ \A m \in 0 .. L - 1 : P(m) \in 0 .. L - 1 /\ (P(m) + d) % L = P(m + 1)
        /\ \A m, k \in 0 .. L - 1 : P(m) = P(k) => m = k
        /\ \A k \in 0 .. L - 1 : \E m \in 0 .. L - 1 : P(m) = k
    <2> HIDE DEF L
    <2>1. Circular(L, x, d)
      BY <1>2, RoundPlaces
    <2> QED
      BY <2>1, Zenon DEF Circular
  <1> HIDE DEF P, L
  <1>7. ASSUME NEW m \in 0 .. L - 1
        PROVE  /\ A(m) \in Range(ring) /\ P(m) + 1 \in 1 .. L /\ P(m) \in Int
               /\ Place(ring, A(m)) = P(m) + 1
    <2>0. P(m) \in 0 .. L - 1
      BY <1>6, Zenon
    <2>1. P(m) + 1 \in 1 .. L /\ P(m) \in Int
      BY <1>2, <2>0
    <2>2. A(m) = ring[P(m) + 1]
      BY <1>3
    <2>3. Place(ring, ring[P(m) + 1]) = P(m) + 1 /\ ring[P(m) + 1] \in Range(ring)
      BY <2>1, PlaceOf DEF L
    <2> QED
      BY <2>1, <2>2, <2>3
  <1>8. ASSUME NEW m \in 0 .. L - 1
        PROVE  ring[((Place(ring, A(m)) - 1 + d) % L) + 1] = A(m + 1)
    <2>1. Place(ring, A(m)) - 1 + d = P(m) + d
      BY <1>7
    <2>2. (P(m) + d) % L = P(m + 1)
      BY <1>6
    <2> QED
      BY <1>3, <2>1, <2>2
  <1>9. ASSUME NEW m \in 0 .. L - 1, NEW k \in 0 .. L - 1, A(m) = A(k) PROVE m = k
    <2>1. P(m) + 1 = P(k) + 1 /\ P(m) \in Int /\ P(k) \in Int
      BY <1>7, <1>9
    <2>2. P(m) = P(k)
      BY <2>1
    <2> QED
      BY <1>6, <2>2
  <1>10. ASSUME NEW n \in Range(ring) PROVE \E m \in 0 .. L - 1 : A(m) = n
    <2>1. PICK j \in 1 .. L : n = ring[j]
      BY <1>5 DEF Range
    <2>2. j - 1 \in 0 .. L - 1 /\ j - 1 + 1 = j
      BY <1>2, <2>1
    <2>3. PICK m \in 0 .. L - 1 : P(m) = j - 1
      BY <1>6, <2>2
    <2> QED
      BY <1>3, <2>1, <2>2, <2>3
  <1>11. A(0) = e /\ A(L) = e
    BY <1>3, <1>4, <1>6
  <1> QED
    BY <1>2, <1>7, <1>8, <1>9, <1>10, <1>11 DEF A, L, Circle

\* Step m + 1 of the walk, to node n, and its end.
OneMore(ring, e, d, m, n) ==
  /\ n \in Range(ring)
  /\ n = e => Between(ring, e, d, m) = Range(ring) \ {e}
  /\ n # e => /\ m + 1 \in 0 .. Len(ring) - 1 /\ n \notin Between(ring, e, d, m)
              /\ Between(ring, e, d, m + 1) = Between(ring, e, d, m) \cup {n}
  /\ Between(ring, e, d, m) \subseteq Range(ring) \ {e}

LEMMA RoundStep ==
  ASSUME NEW ring \in Seq(Int), Distinct(ring), NEW e \in Range(ring), NEW d \in {1, -1},
         NEW m \in 0 .. Len(ring) - 1, NEW n, n = At(ring, e, d, m + 1)
  PROVE  OneMore(ring, e, d, m, n)
  <1> DEFINE L == Len(ring)
             A(j) == At(ring, e, d, j)
             B(j) == Between(ring, e, d, j)
  <1>1. /\ L \in Nat \ {0} /\ A(0) = e /\ A(L) = e
        /\ \A j \in 0 .. L - 1 : A(j) \in Range(ring)
        /\ \A j, k \in 0 .. L - 1 : A(j) = A(k) => j = k
        /\ \A x \in Range(ring) : \E j \in 0 .. L - 1 : A(j) = x
    <2>1. L \in Nat \ {0} /\ Circle(ring, e, d)
      BY Round
    <2> QED
      BY <2>1, Zenon DEF Circle
  <1>2. \A j : B(j) = {A(k) : k \in 1 .. j}
    BY DEF Between
  <1>3. n = A(m + 1) /\ m \in 0 .. L - 1
    OBVIOUS
  <1> HIDE DEF L, A, B
  <1>4. B(m) \subseteq Range(ring) \ {e}
    <2> SUFFICES ASSUME NEW k \in 1 .. m PROVE A(k) \in Range(ring) /\ A(k) # e
      BY <1>2
    <2>1. k \in 0 .. L - 1 /\ 0 \in 0 .. L - 1 /\ k # 0
      BY <1>1, <1>3
    <2> QED
      BY <1>1, <2>1
  <1>5. CASE m = L - 1
    <2>1. m + 1 = L
      BY <1>1, <1>5
    <2>2. n = e
      BY <1>1, <1>3, <2>1
    <2>3. ASSUME NEW x \in Range(ring), x # e PROVE x \in B(m)
      <3>1. PICK j \in 0 .. L - 1 : A(j) = x
        BY <1>1
      <3>2. j # 0
        BY <1>1, <2>3, <3>1
      <3>3. j \in 1 .. m
        BY <1>1, <1>5, <3>2
      <3> QED
        BY <1>2, <3>1, <3>3
    <2>4. B(m) = Range(ring) \ {e}
      BY <1>4, <2>3
    <2> QED
      BY <1>2, <1>4, <2>2, <2>4 DEF B, A, L, OneMore
  <1>6. CASE m # L - 1
    <2>1. m + 1 \in 0 .. L - 1 /\ m + 1 # 0 /\ 0 \in 0 .. L - 1
      BY <1>1, <1>3, <1>6
    <2>2. n # e /\ n \in Range(ring)
      BY <1>1, <1>3, <2>1
    <2>3. n \notin B(m)
      <3> SUFFICES ASSUME NEW k \in 1 .. m, A(k) = n PROVE FALSE
        BY <1>2
      <3>1. k \in 0 .. L - 1 /\ k # m + 1
        BY <1>1, <1>3
      <3> QED
        BY <1>1, <1>3, <2>1, <3>1
    <2>4. B(m + 1) = B(m) \cup {n}
      <3>1. 1 .. m + 1 = (1 .. m) \cup {m + 1}
        BY <1>3, <2>1
      <3> QED
        BY <1>2, <1>3, <3>1
    <2> QED
      BY <1>2, <1>4, <2>1, <2>2, <2>3, <2>4 DEF B, A, L, OneMore
  <1> QED
    BY <1>5, <1>6

\* The ring of a list, with the head or an entry as the end of the loop over it.
LEMMA ListRing ==
  ASSUME TasksTypeOK, Lists, NEW p \in Tasks, NEW e, e = -p \/ (e \in Tasks /\ ChildOf(e, p))
  PROVE  /\ RingOf(e) = Ring(p) /\ Ring(p) \in Seq(Int) /\ Distinct(Ring(p)) /\ e \in Range(Ring(p))
         /\ Range(Ring(p)) = {-p} \cup Range(children[p])
         /\ -p \notin Tasks /\ Range(children[p]) \subseteq Tasks
         /\ \A n \in Range(Ring(p)) : RingOf(n) = Ring(p)
  <1>1. /\ Ring(p) \in Seq(Int) /\ Distinct(Ring(p)) /\ -p \notin Tasks
        /\ Range(Ring(p)) = {-p} \cup Range(children[p]) /\ Range(children[p]) \subseteq Tasks
    BY RingIs
  <1>2. \A n \in Range(Ring(p)) : n = -p \/ (n \in Tasks /\ ChildOf(n, p))
    BY <1>1 DEF Lists
  <1>3. \A n : n = -p \/ (n \in Tasks /\ ChildOf(n, p))
           => RingOf(n) = Ring(p) /\ n \in Range(Ring(p))
    BY RingOfIs
  <1> QED
    BY <1>1, <1>2, <1>3

\* The ring that a call goes round.
LEMMA LoopRing ==
  ASSUME TypeOK, Lists, Calling, InLoop
  PROVE  /\ RingOf(EndNode) \in Seq(Int) /\ Distinct(RingOf(EndNode))
         /\ EndNode \in Range(RingOf(EndNode))
         /\ \A n \in Range(RingOf(EndNode)) : RingOf(n) = RingOf(EndNode)
         /\ pc \in OfChildren => /\ EndNode = -current /\ Children \subseteq Tasks
                                 /\ Range(RingOf(EndNode)) \ {EndNode} = Children
         /\ pc \in OfSiblings => /\ EndNode = current /\ Siblings \subseteq Tasks \ {current}
                                 /\ Range(RingOf(EndNode)) \ {EndNode}
                                       = Siblings \cup {-parent[current]}
                                 /\ -parent[current] \notin Tasks
         /\ current \in Tasks /\ Direction \in {1, -1} /\ NextNode = Follow(head, Direction)
  <1>1. TasksTypeOK /\ current \in Tasks \ {init} /\ Alive(current) /\ parent[current] \in Tasks
    BY DEF TypeOK, TasksTypeOK, Calling, InLoop, OfChildren, OfSiblings
  <1>2. Direction \in {1, -1} /\ NextNode = Follow(head, Direction)
    BY DEF Direction, NextNode
  <1>3. CASE pc \in OfChildren
    <2>1. EndNode = -current /\ pc \notin OfSiblings
      BY <1>3 DEF EndNode, OfChildren, OfSiblings
    <2>2. /\ RingOf(-current) = Ring(current) /\ Ring(current) \in Seq(Int)
          /\ Distinct(Ring(current)) /\ -current \in Range(Ring(current))
          /\ Range(Ring(current)) = {-current} \cup Range(children[current])
          /\ -current \notin Tasks /\ Range(children[current]) \subseteq Tasks
          /\ \A n \in Range(Ring(current)) : RingOf(n) = Ring(current)
      BY <1>1, ListRing
    <2>3. Range(Ring(current)) \ {-current} = Children
      BY <2>2 DEF Children
    <2> QED
      BY <1>1, <1>2, <2>1, <2>2, <2>3 DEF Children
  <1>4. CASE pc \in OfSiblings
    <2>1. EndNode = current /\ pc \notin OfChildren
      BY <1>4 DEF EndNode, OfChildren, OfSiblings
    <2> DEFINE p == parent[current]
    <2>2. ChildOf(current, p)
      BY <1>1 DEF ChildOf, Linked, Alive
    <2>3. /\ RingOf(current) = Ring(p) /\ Ring(p) \in Seq(Int)
          /\ Distinct(Ring(p)) /\ current \in Range(Ring(p))
          /\ Range(Ring(p)) = {-p} \cup Range(children[p])
          /\ -p \notin Tasks /\ Range(children[p]) \subseteq Tasks
          /\ \A n \in Range(Ring(p)) : RingOf(n) = Ring(p)
      BY <1>1, <2>2, ListRing
    <2>4. Range(Ring(p)) \ {current} = Siblings \cup {-p} /\ Siblings \subseteq Tasks \ {current}
      BY <1>1, <2>3 DEF Siblings
    <2> QED
      BY <1>1, <1>2, <2>1, <2>3, <2>4
  <1> QED
    BY <1>3, <1>4 DEF InLoop

\* The next node of an undisturbed walk.
LEMMA NextReached ==
  ASSUME TypeOK, Lists, Calling, InLoop, NEW m \in 0 .. Len(RingOf(EndNode)) - 1,
         head = Reached(m)
  PROVE  /\ NextNode = Reached(m + 1) /\ NextNode \in Range(RingOf(EndNode))
         /\ NextNode = EndNode => Passed(m) = Range(RingOf(EndNode)) \ {EndNode}
         /\ NextNode # EndNode => /\ m + 1 \in 0 .. Len(RingOf(EndNode)) - 1
                                  /\ NextNode \notin Passed(m)
                                  /\ Passed(m + 1) = Passed(m) \cup {NextNode}
         /\ Passed(m) \subseteq Range(RingOf(EndNode)) \ {EndNode}
  <1>1. PICK ring, e, d : ring = RingOf(EndNode) /\ e = EndNode /\ d = Direction
    OBVIOUS
  <1>2. /\ ring \in Seq(Int) /\ Distinct(ring) /\ e \in Range(ring) /\ d \in {1, -1}
        /\ \A n \in Range(ring) : RingOf(n) = ring
        /\ NextNode = Follow(head, d)
    BY <1>1, LoopRing
  <1>3. \A j : Reached(j) = At(ring, e, d, j) /\ Passed(j) = Between(ring, e, d, j)
    <2>1. \A j : Reached(j) = At(ring, e, d, j)
      BY ONLY <1>1, Zenon DEF Reached, At
    <2> QED
      BY <2>1 DEF Passed, Between
  <1>4. Circle(ring, e, d) /\ m \in 0 .. Len(ring) - 1
    BY <1>1, <1>2, Round
  <1>5. /\ At(ring, e, d, m) \in Range(ring)
        /\ ring[((Place(ring, At(ring, e, d, m)) - 1 + d) % Len(ring)) + 1]
              = At(ring, e, d, m + 1)
    BY <1>4, Zenon DEF Circle
  <1>6. head = At(ring, e, d, m) /\ RingOf(head) = ring
    BY <1>2, <1>3, <1>5
  <1>7. Follow(head, d) = ring[((Place(ring, head) - 1 + d) % Len(ring)) + 1]
    BY <1>6 DEF Follow
  <1>8. NextNode = At(ring, e, d, m + 1)
    BY <1>2, <1>5, <1>6, <1>7
  <1>9. /\ NextNode \in Range(ring)
        /\ NextNode = e => Between(ring, e, d, m) = Range(ring) \ {e}
        /\ NextNode # e => /\ m + 1 \in 0 .. Len(ring) - 1
                           /\ NextNode \notin Between(ring, e, d, m)
                           /\ Between(ring, e, d, m + 1) = Between(ring, e, d, m) \cup {NextNode}
        /\ Between(ring, e, d, m) \subseteq Range(ring) \ {e}
    <2>1. PICK n : n = NextNode
      OBVIOUS
    <2>2. n = At(ring, e, d, m + 1)
      BY <1>8, <2>1
    <2>3. OneMore(ring, e, d, m, n)
      BY <1>2, <1>4, <2>2, RoundStep
    <2> QED
      BY <2>1, <2>3 DEF OneMore
  <1> QED
    BY <1>1, <1>3, <1>8, <1>9

\* Where a loop begins.
LEMMA RoundBegins ==
  ASSUME NEW ring \in Seq(Int), Distinct(ring), NEW e \in Range(ring), NEW d \in {1, -1}
  PROVE  0 \in 0 .. Len(ring) - 1 /\ At(ring, e, d, 0) = e /\ Between(ring, e, d, 0) = {}
  <1>1. Len(ring) \in Nat \ {0} /\ Circle(ring, e, d)
    BY Round
  <1>2. At(ring, e, d, 0) = e
    BY <1>1, Zenon DEF Circle
  <1>3. Between(ring, e, d, 0) = {}
    BY DEF Between
  <1> QED
    BY <1>1, <1>2, <1>3
-----------------------------------------------------------------------------
(* What an undisturbed walk has found. *)

\* One more child.
LEMMA OldestKeeps ==
  ASSUME NEW S \in SUBSET Tasks, NEW task \in Tasks, Oldest(S),
         IF tmp_st1 > StartTime(task) THEN tmp_st1' = StartTime(task) /\ tmp_pid1' = task
                                      ELSE UNCHANGED <<tmp_st1, tmp_pid1>>
  PROVE  Oldest(S \cup {task})'
  <1>1. \A t \in Tasks : t \in Int /\ StartTime(t) = 2 * t /\ StartTime(t) < Forever
    BY Numbers DEF StartTime
  <1>f. Forever \in Int
    BY Numbers
  <1>2. CASE S = {}
    <2>1. tmp_st1' = StartTime(task) /\ tmp_pid1' = task
      BY <1>1, <1>f, <1>2 DEF Oldest
    <2> QED
      BY <1>1, <1>2, <2>1 DEF Oldest, StartTime
  <1>3. CASE S # {}
    <2>1. tmp_pid1 \in S /\ tmp_st1 = StartTime(tmp_pid1) /\ \A s \in S : tmp_pid1 <= s
      BY <1>3 DEF Oldest
    <2>2. CASE tmp_st1 > StartTime(task)
      <3>1. task < tmp_pid1
        BY <1>1, <2>1, <2>2
      <3>2. \A s \in S \cup {task} : task <= s
        BY <1>1, <2>1, <3>1
      <3>3. tmp_st1' = StartTime(task) /\ tmp_pid1' = task
        BY <2>2
      <3> QED
        BY <3>2, <3>3 DEF Oldest, StartTime
    <2>3. CASE ~(tmp_st1 > StartTime(task))
      <3>1. tmp_pid1 <= task
        BY <1>1, <2>1, <2>3
      <3>2. tmp_st1' = tmp_st1 /\ tmp_pid1' = tmp_pid1
        BY <2>3
      <3> QED
        BY <2>1, <3>1, <3>2 DEF Oldest, StartTime
    <2> QED
      BY <2>2, <2>3
  <1> QED
    BY <1>2, <1>3

\* The value that the two searches have found so far: none, one that was read from a list
\* head, or the time and the pid of a sibling.
LowFound == \/ tmp_st1 = 0 /\ tmp_pid1 = -1
            \/ \E time \in strays : time # 0 /\ time < StartTime(current) /\ tmp_st1 = Unsigned(time)
            \/ tmp_pid1 \in Older /\ tmp_st1 = StartTime(tmp_pid1)
HighFound == \/ tmp_st2 = Forever /\ tmp_pid2 = -1
             \/ tmp_st2 \in strays /\ StartTime(current) < tmp_st2
             \/ tmp_pid2 \in Younger /\ tmp_st2 = StartTime(tmp_pid2)

\* One more entry of the ring of the siblings, a task or a list head.
LEMMA NearestKeeps ==
  ASSUME TypeOK, current \in Tasks, Siblings \subseteq Tasks,
         NEW S \in SUBSET Tasks, Nearest(S), NEW time_ns \in Int, IsTime(time_ns), NEW pid,
         Compare(time_ns, pid), current' = current, Siblings' = Siblings, strays \subseteq strays',
         time_ns \in strays' \/ (pid \in Siblings /\ time_ns = StartTime(pid))
  PROVE  /\ Nearest(S)'
         /\ \A s \in Tasks : time_ns = StartTime(s) => Nearest(S \cup {s})'
  <1>1. PICK c \in Tasks : c = current
    OBVIOUS
  <1>2. /\ c \in Int /\ StartTime(c) \in Int /\ Forever \in Int /\ StartTime(c) < Forever
        /\ 0 < StartTime(c)
        /\ \A t \in Tasks : /\ t \in Int /\ StartTime(t) \in Int
                            /\ t < c <=> StartTime(t) < StartTime(c)
                            /\ t > c <=> StartTime(t) > StartTime(c)
                            /\ 0 < StartTime(t) /\ StartTime(t) < Forever
    BY Numbers DEF StartTime, Times, Tasks
  <1>3. tmp_st1 \in Int /\ tmp_st2 \in Int /\ 0 <= tmp_st1 /\ tmp_st2 <= Forever
    BY Numbers DEF TypeOK, Times
  <1>4. /\ \A s \in S : /\ s < c => StartTime(s) <= tmp_st1
                        /\ s > c => StartTime(s) >= tmp_st2
        /\ LowFound /\ HighFound
    BY <1>1 DEF Nearest, LowFound, HighFound
  <1>5. Older = {s \in Siblings : s < c} /\ Younger = {s \in Siblings : s > c}
    BY <1>1 DEF Older, Younger
  <1>6. Older' = Older /\ Younger' = Younger
    BY <1>1 DEF Older, Younger
  <1>7. current' = c
    BY <1>1
  <1>u. PICK u \in Int : /\ u = Unsigned(time_ns) /\ 0 <= u
                         /\ time_ns >= 0 => u = time_ns
                         /\ time_ns < 0 => u = time_ns + Forever + 1
    BY <1>2, UnsignedIs DEF Times
  <1>8. /\ tmp_st1' = IF time_ns < StartTime(c) /\ tmp_st1 < u THEN u ELSE tmp_st1
        /\ tmp_st2' = IF ~(time_ns < StartTime(c) /\ tmp_st1 < u)
                         /\ time_ns > StartTime(c) /\ tmp_st2 > u THEN u ELSE tmp_st2
        /\ tmp_pid1' = IF time_ns < StartTime(c) /\ tmp_st1 < u THEN pid ELSE tmp_pid1
        /\ tmp_pid2' = IF ~(time_ns < StartTime(c) /\ tmp_st1 < u)
                         /\ time_ns > StartTime(c) /\ tmp_st2 > u THEN pid ELSE tmp_pid2
    BY <1>1, <1>u DEF Compare, tmpVars
  <1>9. /\ tmp_st1' >= tmp_st1 /\ tmp_st2' <= tmp_st2 /\ tmp_st1' \in Int /\ tmp_st2' \in Int
        /\ 0 <= time_ns /\ time_ns < StartTime(c) => time_ns <= tmp_st1'
        /\ time_ns > StartTime(c) => time_ns >= tmp_st2'
    BY <1>2, <1>3, <1>8, <1>u
  <1>10. \A s \in S : /\ s < c => StartTime(s) <= tmp_st1'
                      /\ s > c => StartTime(s) >= tmp_st2'
    BY <1>2, <1>3, <1>4, <1>9
  <1>11. LowFound'
    <2>1. CASE time_ns < StartTime(c) /\ tmp_st1 < u
      <3>1. tmp_st1' = u /\ tmp_pid1' = pid
        BY <1>8, <2>1
      <3>2. time_ns # 0
        BY <1>3, <1>u, <2>1
      <3>3. CASE time_ns \in strays'
        <4>1. time_ns < StartTime(current') /\ tmp_st1' = Unsigned(time_ns)
          BY <1>7, <1>u, <2>1, <3>1
        <4> QED
          BY <3>2, <3>3, <4>1 DEF LowFound, StartTime, Unsigned, Forever
      <3>4. CASE pid \in Siblings /\ time_ns = StartTime(pid)
        <4>1. pid \in Older' /\ u = StartTime(pid)
          BY <1>2, <1>5, <1>6, <1>u, <2>1, <3>4
        <4> QED
          BY <3>1, <4>1 DEF LowFound, StartTime
      <3> QED
        BY <3>3, <3>4
    <2>2. CASE ~(time_ns < StartTime(c) /\ tmp_st1 < u)
      <3>1. tmp_st1' = tmp_st1 /\ tmp_pid1' = tmp_pid1
        BY <1>8, <2>2
      <3> QED
        BY <1>1, <1>4, <1>6, <3>1 DEF LowFound, StartTime, Unsigned, Forever
    <2> QED
      BY <2>1, <2>2
  <1>12. HighFound'
    <2>1. CASE time_ns > StartTime(c) /\ tmp_st2 > u
      <3>0. ~(time_ns < StartTime(c)) /\ u = time_ns
        BY <1>2, <1>u, <2>1
      <3>1. tmp_st2' = time_ns /\ tmp_pid2' = pid
        BY <1>8, <2>1, <3>0
      <3>2. pid \in Siblings /\ time_ns = StartTime(pid) => pid \in Younger
        BY <1>2, <1>5, <2>1
      <3>3. StartTime(c) < time_ns
        BY <1>2, <2>1
      <3> QED
        BY <1>6, <1>7, <3>1, <3>2, <3>3 DEF HighFound, StartTime, Forever
    <2>2. CASE ~(time_ns > StartTime(c) /\ tmp_st2 > u)
      <3>1. tmp_st2' = tmp_st2 /\ tmp_pid2' = tmp_pid2
        BY <1>8, <2>2
      <3> QED
        BY <1>1, <1>4, <1>6, <3>1 DEF HighFound, StartTime, Forever
    <2> QED
      BY <2>1, <2>2
  <1>13. ASSUME NEW R, \A s \in R : /\ s < c => StartTime(s) <= tmp_st1'
                                    /\ s > c => StartTime(s) >= tmp_st2'
         PROVE  Nearest(R)'
    BY <1>7, <1>11, <1>12, <1>13 DEF Nearest, LowFound, HighFound, StartTime, Unsigned, Forever
  <1>14. ASSUME NEW t \in Tasks, time_ns = StartTime(t)
         PROVE  \A s \in S \cup {t} : /\ s < c => StartTime(s) <= tmp_st1'
                                      /\ s > c => StartTime(s) >= tmp_st2'
    BY <1>2, <1>9, <1>10, <1>14
  <1> QED
    BY <1>10, <1>13, <1>14

\* A loop goes on in its ring.
LEMMA SameLoop ==
  ASSUME state' = state \/ (current \in Tasks /\ state'[current] = state[current]),
         parent' = parent, children' = children, current' = current, pc' = pc
  PROVE  /\ EndNode' = EndNode /\ RingOf(EndNode)' = RingOf(EndNode)
         /\ Children' = Children /\ Siblings' = Siblings
         /\ \A m : Reached(m)' = Reached(m) /\ Passed(m)' = Passed(m)
  <1>1. EndNode' = EndNode /\ Direction' = Direction /\ Children' = Children /\ Siblings' = Siblings
    BY DEF EndNode, Direction, Children, Siblings
  <1>2. RingOf(EndNode)' = RingOf(EndNode)
    <2>1. CASE state' = state
      BY <1>1, <2>1 DEF RingOf, Ring
    <2>2. CASE current \in Tasks /\ state'[current] = state[current]
      <3>1. EndNode \in {current, -current} /\ -current < 0
        BY <2>2, Numbers DEF EndNode
      <3> QED
        BY <1>1, <2>2, <3>1 DEF RingOf, Ring
    <2> QED
      BY <2>1, <2>2
  <1>3. PICK ring, e, d : ring = RingOf(EndNode) /\ e = EndNode /\ d = Direction
    OBVIOUS
  <1>4. \A m : Reached(m) = At(ring, e, d, m)
    BY ONLY <1>3, Zenon DEF Reached, At
  <1>5. ring = RingOf(EndNode)' /\ e = EndNode' /\ d = Direction'
    BY <1>1, <1>2, <1>3
  <1>6. \A m : Reached(m)' = At(ring, e, d, m)
    BY ONLY <1>5, Zenon DEF Reached, At
  <1>7. \A m : Passed(m)' = Passed(m)
    BY <1>4, <1>6 DEF Passed
  <1> QED
    BY <1>1, <1>2, <1>4, <1>6, <1>7

\* A loop begins at the end of its ring.
LEMMA NewLoop ==
  ASSUME TasksTypeOK, Lists, state' = state, parent' = parent, children' = children,
         NEW p \in Tasks, NEW e, e = -p \/ (e \in Tasks /\ ChildOf(e, p)), EndNode' = e, head' = e
  PROVE  0 \in 0 .. Len(RingOf(EndNode)') - 1 /\ head' = Reached(0)' /\ Passed(0)' = {}
  <1>1. PICK ring, d : ring = Ring(p) /\ d = Direction'
    OBVIOUS
  <1>2. RingOf(e) = ring /\ ring \in Seq(Int) /\ Distinct(ring) /\ e \in Range(ring)
    BY <1>1, ListRing
  <1>3. RingOf(EndNode)' = ring
    BY <1>2 DEF RingOf, Ring
  <1>4. d \in {1, -1}
    BY <1>1 DEF Direction
  <1>5. 0 \in 0 .. Len(ring) - 1 /\ At(ring, e, d, 0) = e /\ Between(ring, e, d, 0) = {}
    BY <1>2, <1>4, RoundBegins
  <1>6. ring = RingOf(EndNode)' /\ e = EndNode' /\ d = Direction'
    BY <1>1, <1>3
  <1>7. Reached(0)' = At(ring, e, d, 0)
    BY ONLY <1>6, Zenon DEF Reached, At
  <1>8. Passed(0)' = {}
    BY DEF Passed
  <1> QED
    BY <1>3, <1>5, <1>7, <1>8

\* The smallest and the largest element of a set.
LEMMA MinMaxIs ==
  ASSUME NEW S \in SUBSET Int, NEW x \in S
  PROVE  /\ (\A y \in S : x <= y) => Min(S) = x
         /\ (\A y \in S : x >= y) => Max(S) = x
  <1>1. ASSUME \A y \in S : x <= y PROVE Min(S) = x
    <2>1. Min(S) \in S /\ \A y \in S : Min(S) <= y
      BY <1>1 DEF Min
    <2>2. Min(S) <= x /\ x <= Min(S) /\ Min(S) \in Int /\ x \in Int
      BY <1>1, <2>1
    <2> QED
      BY <2>2
  <1>2. ASSUME \A y \in S : x >= y PROVE Max(S) = x
    <2>1. Max(S) \in S /\ \A y \in S : Max(S) >= y
      BY <1>2 DEF Max
    <2>2. Max(S) >= x /\ x >= Max(S) /\ Max(S) \in Int /\ x \in Int
      BY <1>2, <2>1
    <2> QED
      BY <2>2
  <1> QED
    BY <1>1, <1>2

\* What is known of the children after the first two loops.
ChildrenSeen ==
  /\ youngest_child = IF Children = {} THEN -1 ELSE Min(Children)
  /\ counted = [t \in Tasks |-> IF t \in Children THEN 2 ELSE 0]

\* An undisturbed walk goes on.
LEMMA WalkPreserved == FullInv /\ [Next]_vars => Walk'
  <1> SUFFICES ASSUME TypeOK, Lists, Calling, Walk, [Next]_vars PROVE Walk'
    BY DEF FullInv, Inv
  <1>t. TasksTypeOK
    BY DEF TypeOK
  <1>g. ASSUME NEW k, k \in 0 .. Len(RingOf(EndNode)') - 1, Progress(k)',
               pc' \in OfSiblings => ChildrenSeen', pc' # "copy",
               pc' \in OfChildren => tmp_st2' = Forever /\ tmp_pid2' = -1
        PROVE  Walk'
    <2>1. (\E m \in 0 .. Len(RingOf(EndNode)) - 1 : Progress(m))'
      BY <1>g
    <2> QED
      BY <1>g, <2>1, Zenon DEF Walk, ChildrenSeen, Forever
  <1>w. ASSUME quiet
        PROVE  /\ InLoop => \E m \in 0 .. Len(RingOf(EndNode)) - 1 : Progress(m)
               /\ pc \in OfSiblings \cup {"copy"} => ChildrenSeen
               /\ pc \in OfChildren => tmp_st2 = Forever /\ tmp_pid2 = -1
               /\ pc = "copy" => Nearest(Siblings)
    BY <1>w, Zenon DEF Walk, ChildrenSeen
  <1>c. pc # "idle" => current \in Tasks \ {init} /\ Alive(current)
    BY DEF Calling
  <1>l. /\ OfChildren = {"children", "children_prev"} /\ OfSiblings = {"siblings", "siblings_prev"}
        /\ (pc \in OfChildren \cup OfSiblings => InLoop)
    BY DEF OfChildren, OfSiblings, InLoop
  <1>1. CASE quiet' = FALSE
    BY <1>1 DEF Walk
  <1>2. ASSUME UNCHANGED <<parent, children, callVars, quiet>>,
               state' = state \/ (current \in Tasks /\ state'[current] = state[current])
        PROVE  Walk'
    <2>1. /\ parent' = parent /\ children' = children /\ current' = current
          /\ pc' = pc /\ head' = head /\ tmp_st1' = tmp_st1 /\ tmp_pid1' = tmp_pid1
          /\ tmp_st2' = tmp_st2 /\ tmp_pid2' = tmp_pid2 /\ youngest_child' = youngest_child
          /\ counted' = counted /\ strays' = strays /\ quiet' = quiet
      BY <1>2 DEF callVars, tmpVars
    <2>2. /\ EndNode' = EndNode /\ RingOf(EndNode)' = RingOf(EndNode)
          /\ Children' = Children /\ Siblings' = Siblings
          /\ \A m : Reached(m)' = Reached(m) /\ Passed(m)' = Passed(m)
      BY <1>2, <2>1, SameLoop
    <2>3. Older' = Older /\ Younger' = Younger
      BY <2>1, <2>2 DEF Older, Younger
    <2>4. ASSUME NEW S PROVE (Oldest(S)' <=> Oldest(S)) /\ (Nearest(S)' <=> Nearest(S))
      BY <2>1, <2>3 DEF Oldest, Nearest, StartTime, Unsigned, Forever
    <2>5. ASSUME NEW m PROVE Progress(m)' <=> Progress(m)
      <3>1. PICK S, C, B : S = Passed(m) /\ C = Children /\ B = Siblings
        OBVIOUS
      <3>2. S = Passed(m)' /\ C = Children' /\ B = Siblings'
        BY <2>2, <3>1
      <3>3. Oldest(Passed(m))' <=> Oldest(Passed(m))
        BY <2>4, <3>1, <3>2 DEF Oldest
      <3>4. Oldest(Children)' <=> Oldest(Children)
        BY <2>4, <3>1, <3>2 DEF Oldest
      <3>5. Nearest(Siblings)' <=> Nearest(Siblings)
        BY <2>4, <3>1, <3>2 DEF Nearest
      <3>6. Nearest(Passed(m) \cap Siblings)' <=> Nearest(Passed(m) \cap Siblings)
        BY <2>4, <3>1, <3>2 DEF Nearest
      <3> QED
        BY <2>1, <2>2, <3>3, <3>4, <3>5, <3>6 DEF Progress
    <2>6. Nearest(Siblings)' <=> Nearest(Siblings)
      <3>1. PICK B : B = Siblings
        OBVIOUS
      <3>2. B = Siblings'
        BY <2>2, <3>1
      <3> QED
        BY <2>4, <3>1, <3>2 DEF Nearest
    <2>7. InLoop' <=> InLoop
      BY <2>1 DEF InLoop
    <2> QED
      BY <2>1, <2>2, <2>5, <2>6, <2>7 DEF Walk, Forever
  <1>3. ASSUME NEW t \in Tasks, Call(t) PROVE Walk'
    <2>1. /\ current' = t /\ pc' = "children" /\ head' = -t /\ tmp_st1' = Forever /\ tmp_pid1' = -1
          /\ tmp_st2' = Forever /\ tmp_pid2' = -1 /\ counted' = counted /\ pc = "idle"
          /\ state' = state /\ parent' = parent /\ children' = children
      BY <1>3 DEF Call, taskVars
    <2>2. counted = NoCount
      BY <2>1 DEF Calling, NoCall
    <2>3. EndNode' = -t
      BY <2>1, <1>l DEF EndNode
    <2>4. 0 \in 0 .. Len(RingOf(EndNode)') - 1 /\ head' = Reached(0)' /\ Passed(0)' = {}
      BY <1>t, <2>1, <2>3, NewLoop
    <2>5. Oldest(Passed(0))'
      BY <2>1, <2>4 DEF Oldest, Forever
    <2>6. counted' = [u \in Tasks |-> IF u \in Passed(0)' THEN 1 ELSE 0]
      BY <2>1, <2>2, <2>4 DEF NoCount
    <2>7. Progress(0)'
      BY <2>1, <2>4, <2>5, <2>6 DEF Progress
    <2> QED
      BY <1>g, <1>l, <2>1, <2>4, <2>7
  <1>4. CASE VisitChild /\ quiet
    <2>1. PICK task : task = NextNode
      OBVIOUS
    <2>2. /\ head' = task /\ pc' = pc /\ pc \in OfChildren /\ task # EndNode /\ current' = current
          /\ state' = state /\ parent' = parent /\ children' = children
          /\ counted' = [counted EXCEPT ![task] = IF @ < Many THEN @ + 1 ELSE @]
          /\ IF tmp_st1 > StartTime(task) THEN tmp_st1' = StartTime(task) /\ tmp_pid1' = task
                                          ELSE UNCHANGED <<tmp_st1, tmp_pid1>>
          /\ tmp_st2' = tmp_st2 /\ tmp_pid2' = tmp_pid2
      BY <1>4, <2>1 DEF VisitChild, taskVars
    <2>3. InLoop
      BY <1>l, <2>2
    <2>4. PICK m \in 0 .. Len(RingOf(EndNode)) - 1 : Progress(m)
      BY <1>4, <1>w, <2>3
    <2>5. head = Reached(m)
      BY <2>4 DEF Progress
    <2>6. PICK S, K, k : S = Passed(m) /\ K = Children /\ k = m + 1
      OBVIOUS
    <2>7. /\ task = Reached(k) /\ task \in Range(RingOf(EndNode)) \ {EndNode}
          /\ k \in 0 .. Len(RingOf(EndNode)) - 1 /\ task \notin S
          /\ Passed(k) = S \cup {task} /\ S \subseteq Range(RingOf(EndNode)) \ {EndNode}
      BY <2>1, <2>2, <2>3, <2>5, <2>6, NextReached
    <2>8. task \in K /\ S \subseteq K /\ K \subseteq Tasks
      BY <2>2, <2>3, <2>6, <2>7, LoopRing
    <2>9. /\ RingOf(EndNode)' = RingOf(EndNode) /\ Children' = K
          /\ Reached(k)' = Reached(k) /\ Passed(k)' = S \cup {task}
      BY <2>2, <2>6, <2>7, SameLoop
    <2>10. ASSUME pc = "children" PROVE Progress(k)'
      <3>1. Oldest(S) /\ counted = [t \in Tasks |-> IF t \in S THEN 1 ELSE 0]
        BY <2>4, <2>6, <2>10 DEF Progress
      <3>2. Oldest(S \cup {task})'
        BY <2>2, <2>8, <3>1, OldestKeeps
      <3>3. Oldest(Passed(k))'
        BY <2>9, <3>2 DEF Oldest
      <3>4. counted' = [t \in Tasks |-> IF t \in S \cup {task} THEN 1 ELSE 0]
        <4>1. counted[task] = 0
          BY <2>7, <2>8, <3>1
        <4> QED
          BY <2>2, <2>8, <3>1, <4>1 DEF Many
      <3> QED
        BY <2>2, <2>7, <2>9, <2>10, <3>3, <3>4 DEF Progress
    <2>11. ASSUME pc = "children_prev" PROVE Progress(k)'
      <3>1. /\ Oldest(K)
            /\ counted = [t \in Tasks |-> IF t \in S THEN 2 ELSE IF t \in K THEN 1 ELSE 0]
        BY <2>4, <2>6, <2>11 DEF Progress
      <3>2. Oldest(K \cup {task})' /\ K \cup {task} = K
        BY <2>2, <2>8, <3>1, OldestKeeps
      <3>3. Oldest(Children)'
        BY <2>9, <3>2 DEF Oldest
      <3>4. counted' = [t \in Tasks |-> IF t \in S \cup {task} THEN 2 ELSE IF t \in K THEN 1 ELSE 0]
        <4>1. counted[task] = 1
          BY <2>7, <2>8, <3>1
        <4> QED
          BY <2>2, <2>8, <3>1, <4>1 DEF Many
      <3> QED
        BY <2>2, <2>7, <2>9, <2>11, <3>3, <3>4 DEF Progress
    <2>12. Progress(k)'
      BY <1>l, <2>2, <2>10, <2>11
    <2>13. k \in 0 .. Len(RingOf(EndNode)') - 1
      BY <2>7, <2>9
    <2> QED
      BY <1>4, <1>g, <1>w, <1>l, <2>2, <2>12, <2>13
  <1>5. CASE ChildrenAgain /\ quiet
    <2>1. /\ pc = "children" /\ pc' = "children_prev" /\ NextNode = EndNode
          /\ current' = current /\ head' = -current /\ counted' = counted
          /\ state' = state /\ parent' = parent /\ children' = children
          /\ tmp_st1' = tmp_st1 /\ tmp_pid1' = tmp_pid1
          /\ tmp_st2' = tmp_st2 /\ tmp_pid2' = tmp_pid2
      BY <1>5 DEF ChildrenAgain, taskVars, tmpVars
    <2>2. InLoop
      BY <1>l, <2>1
    <2>3. PICK m \in 0 .. Len(RingOf(EndNode)) - 1 : Progress(m)
      BY <1>5, <1>w, <2>2
    <2>4. PICK c, K : c \in Tasks /\ c = current /\ K = Children
      BY <1>c, <2>1
    <2>5. Passed(m) = K /\ K \subseteq Tasks
      <3>1. head = Reached(m)
        BY <2>3 DEF Progress
      <3> QED
        BY <1>l, <2>1, <2>2, <2>4, <3>1, NextReached, LoopRing
    <2>6. Oldest(K) /\ counted = [t \in Tasks |-> IF t \in K THEN 1 ELSE 0]
      BY <2>1, <2>3, <2>5 DEF Progress
    <2>7. EndNode' = -c /\ head' = -c /\ Children' = K
      BY <1>l, <2>1, <2>4 DEF EndNode, Children
    <2>8. 0 \in 0 .. Len(RingOf(EndNode)') - 1 /\ head' = Reached(0)' /\ Passed(0)' = {}
      BY <1>t, <2>1, <2>4, <2>7, NewLoop
    <2>9. Oldest(Children)'
      BY <2>1, <2>6, <2>7 DEF Oldest, StartTime, Forever
    <2>10. counted' = [t \in Tasks |-> IF t \in Passed(0)' THEN 2
                                       ELSE IF t \in Children' THEN 1 ELSE 0]
      BY <2>1, <2>6, <2>7, <2>8
    <2>11. Progress(0)'
      BY <2>1, <2>8, <2>9, <2>10 DEF Progress
    <2> QED
      BY <1>5, <1>g, <1>w, <1>l, <2>1, <2>8, <2>11
  <1>6. CASE ChildrenDone /\ quiet
    <2>1. /\ pc = "children_prev" /\ pc' = "siblings" /\ NextNode = EndNode
          /\ current' = current /\ head' = current /\ counted' = counted
          /\ state' = state /\ parent' = parent /\ children' = children
          /\ youngest_child' = tmp_pid1 /\ tmp_st1' = 0 /\ tmp_pid1' = -1
          /\ tmp_st2' = tmp_st2 /\ tmp_pid2' = tmp_pid2
      BY <1>6 DEF ChildrenDone, taskVars
    <2>2. InLoop
      BY <1>l, <2>1
    <2>3. PICK m \in 0 .. Len(RingOf(EndNode)) - 1 : Progress(m)
      BY <1>6, <1>w, <2>2
    <2>4. PICK c, K, p : c \in Tasks /\ c = current /\ K = Children /\ p = parent[c]
      BY <1>c, <2>1
    <2>5. Passed(m) = K /\ K \subseteq Tasks
      <3>1. head = Reached(m)
        BY <2>3 DEF Progress
      <3> QED
        BY <1>l, <2>1, <2>2, <2>4, <3>1, NextReached, LoopRing
    <2>6. Oldest(K) /\ counted = [t \in Tasks |-> IF t \in K THEN 2 ELSE 0]
      <3>1. /\ Oldest(K)
            /\ counted = [t \in Tasks |-> IF t \in K THEN 2 ELSE IF t \in K THEN 1 ELSE 0]
        BY <2>1, <2>3, <2>4, <2>5 DEF Progress
      <3> QED
        BY <3>1
    <2>7. tmp_pid1 = IF K = {} THEN -1 ELSE Min(K)
      <3>1. CASE K = {}
        BY <2>6, <3>1 DEF Oldest
      <3>2. CASE K # {}
        <4>1. tmp_pid1 \in K /\ (\A s \in K : tmp_pid1 <= s) /\ K \in SUBSET Int
          BY <2>5, <2>6, <3>2, Numbers DEF Oldest
        <4> QED
          BY <3>2, <4>1, MinMaxIs
      <3> QED
        BY <3>1, <3>2
    <2>8. p \in Tasks /\ ChildOf(c, p)
      BY <1>c, <1>t, <2>1, <2>4 DEF ChildOf, Linked, Alive, TasksTypeOK
    <2>9. EndNode' = c /\ head' = c /\ Children' = K
      BY <1>l, <2>1, <2>4 DEF EndNode, Children
    <2>10. 0 \in 0 .. Len(RingOf(EndNode)') - 1 /\ head' = Reached(0)' /\ Passed(0)' = {}
      BY <1>t, <2>1, <2>4, <2>8, <2>9, NewLoop
    <2>11. ChildrenSeen'
      BY <2>1, <2>6, <2>7, <2>9 DEF ChildrenSeen
    <2>12. tmp_st2' = Forever /\ tmp_pid2' = -1
      BY <1>6, <1>w, <1>l, <2>1
    <2>13. Nearest(Passed(0) \cap Siblings)'
      BY <2>1, <2>10, <2>12 DEF Nearest, Forever
    <2>14. Progress(0)'
      BY <2>1, <2>10, <2>13 DEF Progress
    <2> QED
      BY <1>g, <1>l, <2>1, <2>10, <2>11, <2>14
  <1>7. CASE (VisitSibling \/ VisitHead) /\ quiet
    <2>1. PICK task : task = NextNode
      OBVIOUS
    <2>2. /\ head' = task /\ pc' = pc /\ pc \in OfSiblings /\ task # EndNode /\ current' = current
          /\ state' = state /\ parent' = parent /\ children' = children
          /\ counted' = counted /\ youngest_child' = youngest_child
      <3>1. VisitHead => NextNode # EndNode
        <4>1. VisitHead => current \in Tasks /\ EndNode = current /\ NextNode < 0
          BY SiblingNext DEF VisitHead
        <4> QED
          BY <4>1, Numbers
      <3> QED
        BY <1>7, <2>1, <3>1 DEF VisitSibling, VisitHead, taskVars
    <2>3. InLoop
      BY <1>l, <2>2
    <2>4. PICK m \in 0 .. Len(RingOf(EndNode)) - 1 : Progress(m)
      BY <1>7, <1>w, <2>3
    <2>5. head = Reached(m)
      BY <2>4 DEF Progress
    <2>6. PICK S, B, k : S = Passed(m) /\ B = Siblings /\ k = m + 1
      OBVIOUS
    <2>7. /\ task = Reached(k) /\ task \in Range(RingOf(EndNode)) \ {EndNode}
          /\ k \in 0 .. Len(RingOf(EndNode)) - 1 /\ Passed(k) = S \cup {task}
      BY <2>1, <2>2, <2>3, <2>5, <2>6, NextReached
    <2>8. /\ task \in B \cup {-parent[current]} /\ B \subseteq Tasks /\ current \in Tasks
          /\ -parent[current] \notin Tasks /\ parent[current] \in Tasks
      BY <1>t, <2>2, <2>3, <2>6, <2>7, LoopRing DEF TasksTypeOK
    <2>9. /\ RingOf(EndNode)' = RingOf(EndNode) /\ Siblings' = B /\ Children' = Children
          /\ Reached(k)' = Reached(k) /\ Passed(k)' = S \cup {task}
      BY <2>2, <2>6, <2>7, SameLoop
    <2>10. /\ pc = "siblings" => Nearest(S \cap B)
           /\ pc = "siblings_prev" => Nearest(B)
      BY <2>4, <2>6 DEF Progress
    <2>11. ASSUME NEW R \in SUBSET B, Nearest(R)
           PROVE  Nearest(R)' /\ (task \in B => Nearest(R \cup {task})')
      <3>1. R \in SUBSET Tasks /\ Siblings' = Siblings /\ Siblings \subseteq Tasks
        BY <2>6, <2>8, <2>9
      <3>2. CASE VisitSibling
        <4>1. task \in B
          <5>1. task > 0
            BY <2>1, <3>2 DEF VisitSibling
          <5>2. ~(-parent[current] > 0)
            BY <2>8, Numbers
          <5> QED
            BY <2>8, <5>1, <5>2
        <4>2. StartTime(task) \in Int /\ IsTime(StartTime(task)) /\ task \in Tasks
          BY <2>8, <4>1, Numbers DEF Times, IsTime
        <4>3. Compare(StartTime(task), task) /\ strays' = strays
          BY <2>1, <3>2 DEF VisitSibling
        <4>4. task \in Siblings
          BY <2>6, <4>1
        <4>5. /\ Nearest(R)'
              /\ \A s \in Tasks : StartTime(task) = StartTime(s) => Nearest(R \cup {s})'
          BY <2>2, <2>8, <2>11, <3>1, <4>2, <4>3, <4>4, NearestKeeps
        <4> QED
          BY <4>2, <4>5
      <3>3. CASE VisitHead
        <4>1. PICK time_ns \in HeadTimes, pid \in HeadPids :
                 Compare(time_ns, pid) /\ strays' = strays \cup {time_ns}
          BY <3>3 DEF VisitHead
        <4>2. time_ns \in Int /\ IsTime(time_ns) /\ time_ns \in strays' /\ strays \subseteq strays'
          BY <4>1, Numbers DEF IsTime
        <4>3. Nearest(R)'
          BY <2>2, <2>8, <2>11, <3>1, <4>1, <4>2, NearestKeeps
        <4>4. task \notin B
          <5>1. task < 0
            BY <2>1, <3>3 DEF VisitHead
          <5>2. task \in B => task \in Int /\ task > 0
            BY <2>8, Numbers
          <5> QED
            BY <5>1, <5>2
        <4> QED
          BY <4>3, <4>4
      <3> QED
        BY <1>7, <3>2, <3>3
    <2>12. ASSUME pc = "siblings" PROVE Progress(k)'
      <3>1. PICK R : R = S \cap B
        OBVIOUS
      <3>2. Nearest(R)' /\ (task \in B => Nearest(R \cup {task})')
        BY <2>10, <2>11, <2>12, <3>1
      <3>3. PICK Q : Q = (S \cup {task}) \cap B
        OBVIOUS
      <3>4. Nearest(Q)'
        <4>1. CASE task \in B
          <5>1. Q = R \cup {task}
            BY <3>1, <3>3, <4>1
          <5> QED
            BY <3>2, <4>1, <5>1
        <4>2. CASE task \notin B
          <5>1. Q = R
            BY <3>1, <3>3, <4>2
          <5> QED
            BY <3>2, <5>1
        <4> QED
          BY <4>1, <4>2
      <3>5. Q = Passed(k)' \cap Siblings'
        BY <2>9, <3>3
      <3>6. Nearest(Passed(k) \cap Siblings)'
        BY <3>4, <3>5 DEF Nearest
      <3> QED
        BY <2>2, <2>7, <2>9, <2>12, <3>6 DEF Progress
    <2>13. ASSUME pc = "siblings_prev" PROVE Progress(k)'
      <3>1. Nearest(B)'
        BY <2>10, <2>11, <2>13
      <3>2. Nearest(Siblings)'
        BY <2>9, <3>1 DEF Nearest
      <3> QED
        BY <2>2, <2>7, <2>9, <2>13, <3>2 DEF Progress
    <2>14. Progress(k)' /\ k \in 0 .. Len(RingOf(EndNode)') - 1
      BY <1>l, <2>2, <2>7, <2>9, <2>12, <2>13
    <2>15. ChildrenSeen'
      BY <1>7, <1>w, <1>l, <2>2, <2>9 DEF ChildrenSeen
    <2> QED
      BY <1>g, <1>l, <2>2, <2>14, <2>15
  <1>8. CASE SiblingsAgain /\ quiet
    <2>1. /\ pc = "siblings" /\ pc' = "siblings_prev" /\ NextNode = EndNode
          /\ current' = current /\ head' = current /\ counted' = counted
          /\ state' = state /\ parent' = parent /\ children' = children
          /\ youngest_child' = youngest_child /\ strays' = strays
          /\ tmp_st1' = tmp_st1 /\ tmp_pid1' = tmp_pid1
          /\ tmp_st2' = tmp_st2 /\ tmp_pid2' = tmp_pid2
      BY <1>8 DEF SiblingsAgain, taskVars, tmpVars
    <2>2. InLoop
      BY <1>l, <2>1
    <2>3. PICK m \in 0 .. Len(RingOf(EndNode)) - 1 : Progress(m)
      BY <1>8, <1>w, <2>2
    <2>4. PICK c, p, B : c \in Tasks /\ c = current /\ p = parent[c] /\ B = Siblings
      BY <1>c, <2>1
    <2>5. Passed(m) \cap Siblings = B
      <3>1. head = Reached(m)
        BY <2>3 DEF Progress
      <3>2. Passed(m) = Siblings \cup {-parent[current]}
        BY <1>l, <2>1, <2>2, <3>1, NextReached, LoopRing
      <3> QED
        BY <2>4, <3>2
    <2>6. Nearest(B)
      BY <2>1, <2>3, <2>5 DEF Progress
    <2>7. p \in Tasks /\ ChildOf(c, p)
      BY <1>c, <1>t, <2>1, <2>4 DEF ChildOf, Linked, Alive, TasksTypeOK
    <2>8. EndNode' = c /\ head' = c /\ Children' = Children /\ Siblings' = B
      BY <1>l, <2>1, <2>4 DEF EndNode, Children, Siblings
    <2>9. 0 \in 0 .. Len(RingOf(EndNode)') - 1 /\ head' = Reached(0)' /\ Passed(0)' = {}
      BY <1>t, <2>1, <2>4, <2>7, <2>8, NewLoop
    <2>10. Older' = Older /\ Younger' = Younger
      BY <2>1, <2>4, <2>8 DEF Older, Younger
    <2>11. Nearest(Siblings)'
      BY <2>1, <2>6, <2>8, <2>10 DEF Nearest, StartTime, Unsigned, Forever
    <2>12. Progress(0)'
      BY <2>1, <2>9, <2>11 DEF Progress
    <2>13. ChildrenSeen'
      BY <1>8, <1>w, <1>l, <2>1, <2>8 DEF ChildrenSeen
    <2> QED
      BY <1>g, <1>l, <2>1, <2>9, <2>12, <2>13
  <1>9. CASE SiblingsDone /\ quiet
    <2>1. /\ pc = "siblings_prev" /\ pc' = "copy" /\ NextNode = EndNode
          /\ current' = current /\ counted' = counted
          /\ state' = state /\ parent' = parent /\ children' = children
          /\ youngest_child' = youngest_child /\ strays' = strays
          /\ tmp_st1' = tmp_st1 /\ tmp_pid1' = (IF tmp_pid1 = 0 THEN -1 ELSE tmp_pid1)
          /\ tmp_st2' = tmp_st2 /\ tmp_pid2' = tmp_pid2
      BY <1>9 DEF SiblingsDone, taskVars
    <2>2. InLoop
      BY <1>l, <2>1
    <2>3. PICK m \in 0 .. Len(RingOf(EndNode)) - 1 : Progress(m)
      BY <1>9, <1>w, <2>2
    <2>4. PICK B : B = Siblings
      OBVIOUS
    <2>5. Nearest(B) /\ B \subseteq Tasks
      BY <1>l, <2>1, <2>2, <2>3, <2>4, LoopRing DEF Progress
    <2>6. Children' = Children /\ Siblings' = B /\ Older' = Older /\ Younger' = Younger
      BY <2>1, <2>4 DEF Children, Siblings, Older, Younger
    <2>7. tmp_pid1 \in Older => tmp_pid1' = tmp_pid1
      BY <2>1, <2>4, <2>5, Numbers DEF Older
    <2>8. tmp_pid1 = -1 => tmp_pid1' = -1
      BY <2>1
    <2>9. Nearest(Siblings)'
      BY <2>1, <2>5, <2>6, <2>7, <2>8 DEF Nearest, StartTime, Unsigned, Forever
    <2>10. ChildrenSeen'
      BY <1>9, <1>w, <1>l, <2>1, <2>6 DEF ChildrenSeen
    <2>11. ~InLoop' /\ pc' \notin OfChildren
      BY <2>1 DEF InLoop, OfChildren, OfSiblings
    <2> QED
      BY <2>1, <2>9, <2>10, <2>11 DEF Walk, ChildrenSeen
  <1>10. CASE ~quiet /\ Step
    <2>1. quiet' \in {quiet, FALSE}
      BY <1>10 DEF Step, VisitChild, ChildrenAgain, ChildrenDone, VisitSibling, VisitHead,
         SiblingsAgain, SiblingsDone, copy_to_user
    <2> QED
      BY <1>10, <2>1 DEF Walk
  <1>11. CASE copy_to_user
    BY <1>1, <1>11 DEF copy_to_user
  <1>12. ASSUME NEW t \in Tasks, Program(t) \/ Exiting(t) PROVE Walk'
    <2>1. CASE ForkFails(t) \/ WaitFails(t)
      <3>1. UNCHANGED <<state, parent, children, callVars, quiet>>
        BY <2>1 DEF ForkFails, WaitFails, taskVars
      <3> QED
        BY <1>2, <3>1
    <2>2. CASE StageStep(t)
      <3>1. /\ parent' = parent /\ children' = children
            /\ \A u \in Tasks \ {t} : state'[u] = state[u]
            /\ state[t] \in {"alive", "adopting", "leaving"}
            /\ UNCHANGED <<callVars, quiet>> /\ (state[t] = "alive" => t # current)
        BY <1>t, <2>2, StageKeeps DEF StageStep
      <3>2. CASE pc = "idle"
        <4>1. pc' = "idle"
          BY <3>1, <3>2 DEF callVars
        <4> QED
          BY <4>1 DEF Walk, InLoop, OfChildren, OfSiblings
      <3>3. CASE pc # "idle"
        <4>1. current \in Tasks /\ t # current
          BY <1>c, <3>1, <3>3 DEF Alive
        <4> QED
          BY <1>2, <3>1, <4>1
      <3> QED
        BY <3>2, <3>3
    <2>3. CASE Fork(t) \/ Wait(t) \/ Adopt(t) \/ Release(t)
      BY <1>1, <2>3 DEF Fork, Wait, Adopt, Release
    <2> QED
      BY <1>12, <2>1, <2>2, <2>3, StageSteps DEF Program, Exiting
  <1>13. CASE UNCHANGED vars
    <2>1. UNCHANGED <<state, parent, children, callVars, quiet>>
      BY <1>13 DEF vars, taskVars
    <2> QED
      BY <1>2, <2>1
  <1> QED
    BY <1>3, <1>4, <1>5, <1>6, <1>7, <1>8, <1>9, <1>10, <1>11, <1>12, <1>13 DEF Next, Step

\* The inductive invariant that also says how far an undisturbed walk has come and what
\* it has found.
THEOREM WalkInvariance == Spec => []FullInv
  <1>1. Init => FullInv
    BY InitInv DEF Init, FullInv, Walk
  <1>2. FullInv /\ [Next]_vars => FullInv'
    <2> SUFFICES ASSUME FullInv, [Next]_vars PROVE FullInv'
      OBVIOUS
    <2>1. TypeOK' /\ TestPrograms' /\ Calling' /\ TestOutput'
      BY TypePreserved, ProgramsPreserved, CallingPreserved, OutputPreserved DEF FullInv
    <2>2. Lists'
      BY ListsPreserved DEF FullInv, Inv, TypeOK
    <2>3. Walk'
      BY WalkPreserved
    <2> QED
      BY <2>1, <2>2, <2>3 DEF FullInv, Inv
  <1> QED
    BY <1>1, <1>2, PTL DEF Spec

\* Only children of the caller are reported and have their times added up, also when
\* tasks come and go during the walk; a call during which no list changes reports a child
\* if there is one, and adds up the times of each child equally often.
THEOREM ChildrenRight == Spec => []ChildrenReported
  <1>1. FullInv => ChildrenReported
    <2> SUFFICES ASSUME TypeOK, Lists, Calling, Walk PROVE ChildrenReported
      BY DEF FullInv, Inv
    <2>1. /\ \A t \in Tasks : counted[t] > 0 => OwnChild(t)
          /\ pc \in OfSiblings \cup {"copy"} /\ youngest_child # -1 => OwnChild(youngest_child)
      BY DEF Calling
    <2>2. ASSUME pc = "copy", quiet
          PROVE  /\ IF Children = {} THEN youngest_child = -1 ELSE youngest_child \in Children
                 /\ \A t \in Children : counted[t] > 0
                 /\ \A t, u \in Children : counted[t] = counted[u]
      <3>1. /\ youngest_child = IF Children = {} THEN -1 ELSE Min(Children)
            /\ counted = [t \in Tasks |-> IF t \in Children THEN 2 ELSE 0]
        BY <2>2, Zenon DEF Walk
      <3>2. Children \subseteq Tasks
        BY <2>2, RingIs DEF Children, Calling, TypeOK
      <3>3. Children # {} => Min(Children) \in Children
        <4> SUFFICES ASSUME Children # {} PROVE Min(Children) \in Children
          OBVIOUS
        <4>1. Children \in SUBSET Int /\ 0 \in Int /\ \A t \in Children : 0 <= t
          BY <3>2, Numbers
        <4>2. PICK x \in Children : \A y \in Children : x <= y
          BY <4>1, LeastInt
        <4> QED
          BY <4>1, <4>2, MinMaxIs
      <3> QED
        BY <3>1, <3>2, <3>3
    <2> QED
      BY <2>1, <2>2 DEF ChildrenReported, Undisturbed
  <1> QED
    BY WalkInvariance, <1>1, PTL

\* It finds the next older and the next younger sibling, whatever their order in the
\* list, unless the time that a list head reads as comes between.
THEOREM SiblingsRight == Spec => []SiblingsReported
  <1>1. FullInv => SiblingsReported
    <2> SUFFICES ASSUME TypeOK, Lists, Calling, Walk, pc = "copy", quiet, ~HeadInBetween
                 PROVE  /\ tmp_pid1 = IF Older = {} THEN -1 ELSE Max(Older)
                        /\ tmp_pid2 = IF Younger = {} THEN -1 ELSE Min(Younger)
      BY DEF FullInv, Inv, SiblingsReported, Undisturbed
    <2>1. /\ \A s \in Siblings : /\ s < current => StartTime(s) <= tmp_st1
                                 /\ s > current => StartTime(s) >= tmp_st2
          /\ LowFound /\ HighFound
      BY DEF Walk, Nearest, LowFound, HighFound
    <2>2. PICK c \in Tasks : c = current
      BY DEF Calling
    <2>3. Siblings \subseteq Tasks
      <3>1. parent[c] \in Tasks /\ TasksTypeOK
        BY DEF TypeOK, TasksTypeOK
      <3> QED
        BY <2>2, <3>1, RingIs DEF Siblings
    <2>4. /\ c \in Int /\ StartTime(c) = 2 * c /\ Forever \in Int
          /\ 0 < StartTime(c) /\ StartTime(c) < Forever
          /\ \A t \in Tasks : /\ t \in Int /\ StartTime(t) = 2 * t
                              /\ 0 < StartTime(t) /\ StartTime(t) < Forever
      BY Numbers DEF StartTime
    <2>5. /\ Older \subseteq Tasks /\ \A s \in Older : s < c /\ StartTime(s) <= tmp_st1
          /\ Younger \subseteq Tasks /\ \A s \in Younger : s > c /\ StartTime(s) >= tmp_st2
      BY <2>1, <2>2, <2>3 DEF Older, Younger
    <2>6. tmp_st1 \in Int /\ tmp_st2 \in Int
      BY Numbers DEF TypeOK, Times
    <2>7. Older # {} => /\ Max(Older) \in Older /\ \A s \in Older : Max(Older) >= s
      <3>1. Older \in SUBSET Int /\ c \in Int /\ \A s \in Older : s <= c
        BY <2>4, <2>5
      <3> QED
        BY <3>1, MaxInt, MinMaxIs
    <2>8. Younger # {} => /\ Min(Younger) \in Younger /\ \A s \in Younger : Min(Younger) <= s
      <3> SUFFICES ASSUME Younger # {}
                   PROVE  Min(Younger) \in Younger /\ \A s \in Younger : Min(Younger) <= s
        OBVIOUS
      <3>1. Younger \in SUBSET Int /\ c \in Int /\ \A s \in Younger : c <= s
        BY <2>4, <2>5
      <3>2. PICK x \in Younger : \A y \in Younger : x <= y
        BY <3>1, LeastInt
      <3> QED
        BY <3>1, <3>2, MinMaxIs
    <2>9. OlderTime \in Int /\ OlderTime < StartTime(c) /\ (OlderTime <= tmp_st1 \/ tmp_st1 <= 0)
      <3>1. CASE Older = {}
        BY <2>4, <2>6, <3>1 DEF OlderTime
      <3>2. CASE Older # {}
        <4>1. PICK o \in Older : o = Max(Older)
          BY <2>7, <3>2
        <4>2. OlderTime = StartTime(o) /\ o \in Tasks /\ o < c /\ StartTime(o) <= tmp_st1
          BY <2>5, <3>2, <4>1 DEF OlderTime
        <4> QED
          BY <2>4, <4>2
      <3> QED
        BY <3>1, <3>2
    <2>10. YoungerTime \in Int /\ StartTime(c) < YoungerTime
           /\ (tmp_st2 <= YoungerTime \/ tmp_st2 >= Forever)
      <3>1. CASE Younger = {}
        BY <2>4, <2>6, <3>1 DEF YoungerTime
      <3>2. CASE Younger # {}
        <4>1. PICK y \in Younger : y = Min(Younger)
          BY <2>8, <3>2
        <4>2. YoungerTime = StartTime(y) /\ y \in Tasks /\ y > c /\ StartTime(y) >= tmp_st2
          BY <2>5, <3>2, <4>1 DEF YoungerTime
        <4> QED
          BY <2>4, <2>6, <4>2
      <3> QED
        BY <3>1, <3>2
    <2>11. tmp_pid1 = IF Older = {} THEN -1 ELSE Max(Older)
      <3>1. ~\E time \in strays : /\ time # 0 /\ time < StartTime(c)
                                 /\ tmp_st1 = Unsigned(time)
        <4> SUFFICES ASSUME NEW time \in strays, time # 0, time < StartTime(c),
                            tmp_st1 = Unsigned(time)
                     PROVE  FALSE
          OBVIOUS
        <4>1. time \in Int
          BY Numbers DEF TypeOK
        <4>2. CASE time < 0
          BY <4>2 DEF HeadInBetween
        <4>3. CASE time > 0
          <5>1. tmp_st1 = time
            BY <4>1, <4>3 DEF Unsigned
          <5>2. /\ 0 < time /\ time # StartTime(current) /\ OlderTime <= time
                /\ time <= YoungerTime
            BY <2>2, <2>4, <2>6, <2>9, <2>10, <4>3, <5>1
          <5> QED
            BY <5>2 DEF HeadInBetween
        <4> QED
          BY <4>1, <4>2, <4>3
      <3>2. CASE Older = {}
        BY <2>1, <2>2, <3>1, <3>2 DEF LowFound
      <3>3. CASE Older # {}
        <4>1. PICK o \in Older : o = Max(Older) /\ \A s \in Older : o >= s
          BY <2>7, <3>3
        <4>2. o \in Int /\ 0 < 2 * o /\ 2 * o <= tmp_st1
          BY <2>4, <2>5, <4>1
        <4>3. tmp_st1 # 0
          BY <2>6, <4>2
        <4>4. tmp_pid1 \in Older /\ tmp_st1 = StartTime(tmp_pid1)
          BY <2>1, <2>2, <3>1, <4>3 DEF LowFound
        <4>5. tmp_pid1 \in Int /\ tmp_st1 = 2 * tmp_pid1 /\ o >= tmp_pid1
          BY <2>4, <2>5, <4>1, <4>4
        <4>6. o = tmp_pid1
          BY <4>2, <4>5
        <4> QED
          BY <3>3, <4>1, <4>6
      <3> QED
        BY <3>2, <3>3
    <2>12. tmp_pid2 = IF Younger = {} THEN -1 ELSE Min(Younger)
      <3>1. ~(tmp_st2 \in strays /\ StartTime(c) < tmp_st2)
        <4> SUFFICES ASSUME tmp_st2 \in strays, StartTime(c) < tmp_st2 PROVE FALSE
          OBVIOUS
        <4>0. tmp_st2 < Forever
          BY Numbers DEF TypeOK
        <4>1. /\ 0 < tmp_st2 /\ tmp_st2 # StartTime(current) /\ OlderTime <= tmp_st2
              /\ tmp_st2 <= YoungerTime
          BY <2>2, <2>4, <2>6, <2>9, <2>10, <4>0
        <4> QED
          BY <4>1 DEF HeadInBetween
      <3>2. CASE Younger = {}
        BY <2>1, <2>2, <3>1, <3>2 DEF HighFound
      <3>3. CASE Younger # {}
        <4>1. PICK y \in Younger : y = Min(Younger) /\ \A s \in Younger : y <= s
          BY <2>8, <3>3
        <4>2. y \in Int /\ 2 * y < Forever /\ 2 * y >= tmp_st2
          BY <2>4, <2>5, <4>1
        <4>3. tmp_st2 # Forever
          BY <2>4, <2>6, <4>2
        <4>4. tmp_pid2 \in Younger /\ tmp_st2 = StartTime(tmp_pid2)
          BY <2>1, <2>2, <3>1, <4>3 DEF HighFound
        <4>5. tmp_pid2 \in Int /\ tmp_st2 = 2 * tmp_pid2 /\ y <= tmp_pid2
          BY <2>4, <2>5, <4>1, <4>4
        <4>6. y = tmp_pid2
          BY <4>2, <4>5
        <4> QED
          BY <3>3, <4>1, <4>6
      <3> QED
        BY <3>2, <3>3
    <2> QED
      BY <2>11, <2>12
  <1> QED
    BY WalkInvariance, <1>1, PTL
=============================================================================
