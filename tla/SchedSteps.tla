----------------------------- MODULE SchedSteps -----------------------------
(***************************************************************************)
(* The inductive invariant of Sched: the operations on the ready lists it  *)
(* is about, why it holds at boot and what it says, and the proof that the *)
(* steps which leave the running process running preserve it.  The steps   *)
(* that switch are in SchedProofs.  The lemmas take what they need of the  *)
(* sizes of sets as the hypothesis SetFacts, which SchedProofs proves; the *)
(* theorems about the behaviours are there.                                *)
(***************************************************************************)
EXTENDS Sched, TLAPS

\* The ready list of the processes of c.  All of them have the highest level:
\* blocking raises the level, and only the idle process is ever ticked.
Queue(c) == ready[c][NORMAL_LEVEL_MAX]

\* p is about to give up its processor, or was woken before it did.
InWindow(p) == pc[p] \in {"window", "doomed_window"}

\* The processes that may run on each processor.
ReadyMap == [c \in Cpu |-> {p \in Proc : Runnable(p) /\ cpu[p] = c}]

\* The lists ls hold the processes R[c] of each c in the list of the highest
\* level, each once, the idle process of c in that of level 0, and no others.
Lists(ls, R) ==
    /\ ls \in [Cpu -> [Level -> Seq(Process)]]
    /\ \A c \in Cpu : ls[c][0] = <<Idle(c)>>
    /\ \A c \in Cpu : \A l \in Level \ {0, NORMAL_LEVEL_MAX} : ls[c][l] = <<>>
    /\ \A c \in Cpu : \A i \in 1 .. Len(ls[c][NORMAL_LEVEL_MAX]) :
          ls[c][NORMAL_LEVEL_MAX][i] \in R[c]
    /\ \A c \in Cpu : \A i, j \in 1 .. Len(ls[c][NORMAL_LEVEL_MAX]) :
          ls[c][NORMAL_LEVEL_MAX][i] = ls[c][NORMAL_LEVEL_MAX][j] => i = j
    /\ \A c \in Cpu : \A p \in R[c] :
          \E i \in 1 .. Len(ls[c][NORMAL_LEVEL_MAX]) : ls[c][NORMAL_LEVEL_MAX][i] = p

\* The counts ct are the numbers of the processes R[c].
Counts(ct, R) == ct = [c \in Cpu |-> Cardinality(R[c])]

\* One more process that may run on d, and one more in its count; or one less.
Added(R, q, d) == [R EXCEPT ![d] = @ \cup {q}]
CountedUp(ct, d) == [ct EXCEPT ![d] = @ + 1]
Dropped(R, p, d) == [R EXCEPT ![d] = @ \ {p}]
CountedDown(ct, d) == [ct EXCEPT ![d] = @ - 1]
RemovedLists(ls, p, d) == [ls EXCEPT ![d] = Unlinked(@, p)]

ListsInv == Lists(ready, ReadyMap) /\ Counts(process_count, ReadyMap)

PriorityInv == \A p \in Process : priority[p] = IF p \in Proc THEN NORMAL_LEVEL_MAX ELSE 0

\* Which states go with which places.
StateInv ==
    /\ \A p \in Proc :
          /\ pc[p] \in {"new", "run", "doomed", "terminating", "leaving"} => state[p] = "READY"
          /\ pc[p] = "window" => state[p] # "EXITED"
          /\ pc[p] = "doomed_window" => state[p] # "READY"
          /\ pc[p] = "gone" => state[p] = "EXITED"
    /\ \A c \in Cpu : state[Idle(c)] = "READY" /\ pc[Idle(c)] = "run"

\* A process that is being entered or woken is so by one process, and is not in
\* a list yet.
TargetInv == \A r \in Proc :
    /\ target[r].proc # None =>
          /\ pc[target[r].proc] \in {"new", "window"} /\ state[target[r].proc] = "READY"
          /\ \A s \in Proc : target[s].proc = target[r].proc => s = r
    /\ target[r].proc = None => target[r] = NoTarget

\* What runs: one processor runs a process, and no other processor's idle process;
\* the timer interrupt of c is in service while c runs another process than the
\* idle one, which was interrupted by it; a process that runs outside its window
\* is the first of its list.
CurrentInv ==
    /\ \A c, d \in Cpu : current[c] = current[d] => c = d
    /\ \A c \in Cpu :
          /\ current[c] \in Proc \cup {Idle(c)}
          /\ isr[c] <=> current[c] \in Proc
          /\ out[Idle(c)] = IF current[c] = Idle(c) THEN "start" ELSE "tick"
          /\ current[c] = Idle(c) => quantum[c] % 2 = 1
          /\ current[c] \in Proc =>
                /\ pc[current[c]] \notin {"new", "gone"} /\ state[current[c]] # "EXITED"
                /\ ~InWindow(current[c]) => Queue(c) # <<>> /\ Queue(c)[1] = current[c]
    /\ \A p \in Proc : out[p] # "tick"

\* What a process picked in sched_resched is the first of the list or the idle
\* process, until the switch.
PickInv == \A p \in Proc : next[p].proc # None \/ next[p].checked => \E c \in Cpu :
    /\ current[c] = p
    /\ \/ Queue(c) # <<>> /\ next[p].proc = Queue(c)[1]
       \/ InWindow(p) /\ next[p].proc = Idle(c)

IInv == /\ TypeOK /\ AssertionsHold
        /\ ListsInv /\ PriorityInv /\ StateInv /\ TargetInv
        /\ panic = "none" => CurrentInv /\ PickInv

\* What the proofs use of the sizes of sets: least elements, and the cardinalities of
\* finite sets of processes.  SchedProofs proves it from the theorems about finite sets.
SetFacts ==
    /\ \A S \in SUBSET Nat : S # {} => \E x \in S : \A y \in S : x <= y
    /\ \A S \in SUBSET Proc :
          /\ Cardinality(S) \in 0 .. Cardinality(Proc) /\ Cardinality(S) \in Nat
          /\ \A q \in Proc \ S : Cardinality(S \cup {q}) = Cardinality(S) + 1
          /\ \A q \in S : Cardinality(S \ {q}) = Cardinality(S) - 1
    /\ Cardinality({}) = 0 /\ \A p : Cardinality({p}) = 1
    /\ Cardinality(Process) \in Nat \ {0}
    /\ \A s \in Seq(Process) : (\A i, j \in 1 .. Len(s) : s[i] = s[j] => i = j)
          => Len(s) <= Cardinality(Process)

\* The inductive invariant while nothing has gone wrong.
Good == /\ TypeOK /\ ListsInv /\ PriorityInv /\ StateInv /\ TargetInv
        /\ CurrentInv /\ PickInv /\ panic = "none" /\ SetFacts

-----------------------------------------------------------------------------
(* Sequences and naturals *)

\* list_remove of a node that is in no list.
LEMMA RemoveAbsent ==
  ASSUME NEW s, NEW e, \A i \in 1 .. Len(s) : s[i] # e
  PROVE  list_remove(s, e) = s
BY Zenon DEF list_remove

\* list_remove of the node at the head of a list.
LEMMA RemoveHead ==
  ASSUME NEW S, NEW s \in Seq(S), s # <<>>
  PROVE  list_remove(s, s[1]) = Tail(s)
<1>1. Len(s) \in Nat /\ Len(s) >= 1
  OBVIOUS
<1> DEFINE I == {i \in 1 .. Len(s) : s[i] = s[1]}
<1>2. 1 \in I /\ \A i \in I : 1 <= i
  BY <1>1
<1> DEFINE k == CHOOSE i \in I : \A j \in I : i <= j
<1>3. k = 1
  BY <1>2
<1>4. list_remove(s, s[1]) = SubSeq(s, 1, 0) \o SubSeq(s, 2, Len(s))
  <2>1. list_remove(s, s[1]) =
           IF I = {} THEN s ELSE SubSeq(s, 1, k - 1) \o SubSeq(s, k + 1, Len(s))
    BY Zenon DEF list_remove
  <2> HIDE DEF k, I
  <2> QED BY <1>2, <1>3, <2>1
<1>5. SubSeq(s, 1, 0) = <<>>
  OBVIOUS
<1>6. SubSeq(s, 2, Len(s)) = Tail(s)
  BY <1>1
<1> QED BY <1>4, <1>5, <1>6

\* A tick leaves an odd quantum odd, so that the idle process's never reaches 0.
LEMMA OddStaysOdd ==
  ASSUME NEW q \in 0 .. QMod - 1, q % 2 = 1
  PROVE  /\ (q - TICK) % QMod \in 0 .. QMod - 1
         /\ ((q - TICK) % QMod) % 2 = 1
<1>1. /\ TICK \in Nat \ {0} /\ TICK % 2 = 0 /\ TICK < QMod
      /\ QMod \in Nat /\ QMod % 2 = 0
  BY Zenon, SchedAssumption
<1>2. CASE q >= TICK
  <2>1. (q - TICK) % QMod = q - TICK
    BY <1>1, <1>2
  <2>2. (q - TICK) % 2 = 1
    BY <1>1
  <2> QED BY <1>1, <1>2, <2>1, <2>2
<1>3. CASE q < TICK
  <2>1. (q - TICK) % QMod = q - TICK + QMod
    BY <1>1, <1>3
  <2>2. (q - TICK + QMod) % 2 = 1
    BY <1>1
  <2> QED BY <1>1, <1>3, <2>1, <2>2
<1> QED BY <1>1, <1>2, <1>3

\* The quantum of a process of the highest level, and that of the idle process.
LEMMA QuantumType ==
  /\ QMod - 1 \in 0 .. QMod - 1 /\ (QMod - 1) % 2 = 1
  /\ (NORMAL_LEVEL_MAX - NORMAL_LEVEL_MAX + 1) * UNIT_QUANTUM \in 0 .. QMod - 1
<1>1. /\ UNIT_QUANTUM \in Nat /\ NORMAL_LEVEL_MAX \in Nat \ {0}
      /\ QMod \in Nat /\ QMod % 2 = 0 /\ TICK \in Nat /\ TICK < QMod
      /\ NORMAL_LEVEL_MAX * UNIT_QUANTUM < QMod
  BY Zenon, SchedAssumption
<1>2. NORMAL_LEVEL_MAX - NORMAL_LEVEL_MAX + 1 = 1
  BY <1>1
<1>3. UNIT_QUANTUM <= NORMAL_LEVEL_MAX * UNIT_QUANTUM
  BY <1>1
<1> QED BY <1>1, <1>2, <1>3

-----------------------------------------------------------------------------
(* Processes and processors *)

\* The idle processes are apart from each other and from the others.
LEMMA IdleFacts ==
  /\ \A c \in Cpu : Idle(c) \in Process /\ Idle(c) \notin Proc /\ Idle(c) \in IdleProc
  /\ \A c, d \in Cpu : Idle(c) = Idle(d) => c = d
  /\ \A p \in Process : p \in Proc \/ \E c \in Cpu : p = Idle(c)
  /\ \A p \in Proc : p \notin IdleProc
  /\ Proc \subseteq Process
  /\ None \notin Process
<1>1. \A c \in Cpu : Idle(c) \in IdleProc
  BY Zenon DEF IdleProc
<1>2. \A c, d \in Cpu : Idle(c) = Idle(d) => c = d
  BY Zenon DEF Idle
<1>3. \A p \in IdleProc : \E c \in Cpu : p = Idle(c)
  BY Zenon DEF IdleProc
<1> QED BY Zenon, <1>1, <1>2, <1>3, ProcAssumption DEF Process

\* Levels 0 and NORMAL_LEVEL_MAX are two of the levels, and 0 is a processor.
LEMMA LevelFacts ==
  /\ 0 \in Level /\ NORMAL_LEVEL_MAX \in Level /\ NORMAL_LEVEL_MAX # 0
  /\ \A l \in Level : l \in Nat /\ l <= NORMAL_LEVEL_MAX
  /\ 0 \in Cpu /\ Cpu \subseteq Nat
BY SchedAssumption DEF Level, Cpu

\* sched_pick_cpu picks a processor.
LEMMA PickedCpu ==
  ASSUME SetFacts, process_count \in [Cpu -> Nat]
  PROVE  sched_pick_cpu \in Cpu
<1> DEFINE N == {process_count[c] : c \in Cpu}
<1>0. N \in SUBSET Nat /\ N # {}
  BY Zenon, LevelFacts
<1>1. PICK n \in N : \A m \in N : n <= m
  BY Zenon, <1>0 DEF SetFacts
<1> DEFINE C == {c \in Cpu : process_count[c] = n}
<1>2. C # {} /\ C \subseteq Nat
  BY Zenon, <1>1, LevelFacts
<1>3. PICK c \in C : \A d \in C : c <= d
  BY Zenon, <1>2 DEF SetFacts
<1>4. \A d \in Cpu : \/ process_count[c] < process_count[d]
                     \/ process_count[c] = process_count[d] /\ c <= d
  <2> TAKE d \in Cpu
  <2>1. n <= process_count[d] /\ process_count[c] = n
    BY Zenon, <1>1, <1>3
  <2>2. n \in Nat /\ process_count[d] \in Nat
    BY Zenon
  <2>3. CASE process_count[d] = n
    BY Zenon, <1>3, <2>1, <2>3
  <2> QED BY <2>1, <2>2, <2>3
<1> QED BY Zenon, <1>3, <1>4 DEF sched_pick_cpu

-----------------------------------------------------------------------------
(* Ready lists *)

\* The list of the highest level, and what is in it.
LEMMA TopList ==
  ASSUME NEW ls, NEW R, Lists(ls, R), NEW c \in Cpu
  PROVE  /\ ls[c][NORMAL_LEVEL_MAX] \in Seq(Process)
         /\ Len(ls[c][NORMAL_LEVEL_MAX]) \in Nat
         /\ ls[c][NORMAL_LEVEL_MAX] # <<>> =>
               /\ 1 \in 1 .. Len(ls[c][NORMAL_LEVEL_MAX])
               /\ ls[c][NORMAL_LEVEL_MAX][1] \in R[c]
         /\ R[c] # {} => ls[c][NORMAL_LEVEL_MAX] # <<>>
<1>1. ls[c][NORMAL_LEVEL_MAX] \in Seq(Process)
  BY LevelFacts DEF Lists
<1> QED BY <1>1 DEF Lists

\* sched_pick_next finds the first of the list of the highest level, or the idle
\* process.
LEMMA PickedNext ==
  ASSUME NEW ls, NEW R, Lists(ls, R), NEW c \in Cpu
  PROVE  /\ TopLevel(ls[c]) = IF ls[c][NORMAL_LEVEL_MAX] = <<>> THEN 0 ELSE NORMAL_LEVEL_MAX
         /\ sched_pick_next(ls[c]) = IF ls[c][NORMAL_LEVEL_MAX] = <<>> THEN Idle(c)
                                     ELSE ls[c][NORMAL_LEVEL_MAX][1]
<1> DEFINE top == IF ls[c][NORMAL_LEVEL_MAX] = <<>> THEN 0 ELSE NORMAL_LEVEL_MAX
           P(l) == /\ l = 0 \/ ls[c][l] # <<>>
                   /\ \A m \in Level : m > l => ls[c][m] = <<>>
<1>1. top \in Level /\ P(top)
  <2>1. \A m \in Level : m # 0 /\ m # NORMAL_LEVEL_MAX => ls[c][m] = <<>>
    BY Zenon DEF Lists
  <2>2. CASE ls[c][NORMAL_LEVEL_MAX] = <<>>
    BY <2>1, <2>2, LevelFacts
  <2>3. CASE ls[c][NORMAL_LEVEL_MAX] # <<>>
    BY <2>3, LevelFacts
  <2> QED BY Zenon, <2>2, <2>3
<1>2. \A l \in Level : P(l) => l = top
  <2> SUFFICES ASSUME NEW l \in Level, P(l) PROVE l = top
    BY Zenon
  <2>1. CASE ls[c][NORMAL_LEVEL_MAX] = <<>>
    BY Zenon, <2>1, LevelFacts DEF Lists
  <2>2. CASE ls[c][NORMAL_LEVEL_MAX] # <<>>
    BY <2>2, LevelFacts DEF Lists
  <2> QED BY Zenon, <2>1, <2>2
<1>3. TopLevel(ls[c]) = top
  BY Zenon, <1>1, <1>2 DEF TopLevel
<1>4. ls[c][0] = <<Idle(c)>>
  BY Zenon DEF Lists
<1>5. ls[c][NORMAL_LEVEL_MAX] \in Seq(Process)
  BY Zenon, TopList
<1>6. CASE ls[c][NORMAL_LEVEL_MAX] = <<>>
  <2>1. TopLevel(ls[c]) = 0
    BY Zenon, <1>3, <1>6
  <2> QED BY <1>3, <1>4, <1>6, <2>1 DEF sched_pick_next
<1>7. CASE ls[c][NORMAL_LEVEL_MAX] # <<>>
  <2>1. TopLevel(ls[c]) = NORMAL_LEVEL_MAX
    BY Zenon, <1>3, <1>7
  <2>2. Head(ls[c][NORMAL_LEVEL_MAX]) = ls[c][NORMAL_LEVEL_MAX][1]
    BY <1>5
  <2> QED BY Zenon, <1>3, <1>7, <2>1, <2>2 DEF sched_pick_next
<1> QED BY Zenon, <1>6, <1>7

\* A process is in some list iff it is one of the R[c].
LEMMA ListedIn ==
  ASSUME NEW R \in [Cpu -> SUBSET Proc], Lists(ready, R), NEW p \in Proc
  PROVE  Listed(p) <=> \E c \in Cpu : p \in R[c]
<1>1. ASSUME NEW c \in Cpu, NEW l \in Level, NEW i \in 1 .. Len(ready[c][l]), ready[c][l][i] = p
      PROVE  p \in R[c]
  <2>1. l # 0
    <3> SUFFICES ASSUME l = 0 PROVE FALSE
      BY Zenon
    <3>1. ready[c][l] = <<Idle(c)>>
      BY Zenon DEF Lists
    <3>2. p = Idle(c)
      BY <1>1, <3>1
    <3> QED BY Zenon, <3>2, IdleFacts
  <2>2. l = NORMAL_LEVEL_MAX
    <3> SUFFICES ASSUME l # NORMAL_LEVEL_MAX PROVE FALSE
      BY Zenon
    <3>1. ready[c][l] = <<>>
      BY Zenon, <2>1 DEF Lists
    <3> QED BY <1>1, <3>1
  <2> QED BY Zenon, <1>1, <2>2 DEF Lists
<1>2. ASSUME NEW c \in Cpu, p \in R[c] PROVE Listed(p)
  BY <1>2, LevelFacts DEF Lists, Listed, InList
<1> QED BY Zenon, <1>1, <1>2 DEF Listed, InList

\* The list_insert of __do_sched_set_ready, for a process that was in no list.
LEMMA InsertedExact ==
  ASSUME SetFacts, NEW ls, NEW ct, NEW R \in [Cpu -> SUBSET Proc], Lists(ls, R), Counts(ct, R),
         NEW q \in Proc, NEW d \in Cpu, \A c \in Cpu : q \notin R[c],
         priority[q] = NORMAL_LEVEL_MAX
  PROVE  /\ Lists(InsertedLists(ls, q, d), Added(R, q, d))
         /\ Counts(CountedUp(ct, d), Added(R, q, d))
         /\ \A c \in Cpu : InsertedLists(ls, q, d)[c][NORMAL_LEVEL_MAX] =
               IF c = d THEN Append(ls[d][NORMAL_LEVEL_MAX], q) ELSE ls[c][NORMAL_LEVEL_MAX]
<1> DEFINE m == NORMAL_LEVEL_MAX
           new == InsertedLists(ls, q, d)
           S == [R EXCEPT ![d] = @ \cup {q}]
           old == ls[d][m]
<1> HIDE DEF m
<1>0. m \in Level /\ m # 0 /\ 0 \in Level
  BY Zenon, LevelFacts DEF m
<1>1. ls \in [Cpu -> [Level -> Seq(Process)]]
  BY Zenon DEF Lists
<1>2. q \in Process
  BY Zenon, IdleFacts
<1>3. old \in Seq(Process)
  BY Zenon, <1>0, <1>1
<1>4. new = [ls EXCEPT ![d][m] = Append(old, q)]
  BY Zenon DEF InsertedLists, m
<1>5. /\ new \in [Cpu -> [Level -> Seq(Process)]]
      /\ \A c \in Cpu, l \in Level : new[c][l] = IF c = d /\ l = m THEN Append(old, q) ELSE ls[c][l]
  BY <1>0, <1>1, <1>2, <1>3, <1>4
<1> HIDE DEF new
<1>6. \A c \in Cpu : new[c][m] = IF c = d THEN Append(old, q) ELSE ls[c][m]
  BY Zenon, <1>0, <1>5
<1>7. Lists(new, S)
  <2>1. /\ \A c \in Cpu : new[c][0] = <<Idle(c)>>
        /\ \A c \in Cpu : \A l \in Level \ {0, m} : new[c][l] = <<>>
    BY <1>0, <1>5 DEF Lists, m
  <2>2. \A c \in Cpu \ {d} : new[c][m] = ls[c][m] /\ S[c] = R[c]
    BY Zenon, <1>6
  <2>3. new[d][m] = Append(old, q) /\ S[d] = R[d] \cup {q}
    BY Zenon, <1>6
  <2>4. \A i \in 1 .. Len(old) : old[i] \in R[d] /\ old[i] # q
    BY DEF Lists, m
  <2>5. \A c \in Cpu : \A i \in 1 .. Len(new[c][m]) : new[c][m][i] \in S[c]
    <3>1. \A i \in 1 .. Len(new[d][m]) : new[d][m][i] \in S[d]
      BY <1>2, <1>3, <2>3, <2>4
    <3>2. \A c \in Cpu \ {d} : \A i \in 1 .. Len(new[c][m]) : new[c][m][i] \in S[c]
      BY Zenon, <2>2 DEF Lists, m
    <3> QED BY Zenon, <3>1, <3>2
  <2>6. \A c \in Cpu : \A i, j \in 1 .. Len(new[c][m]) : new[c][m][i] = new[c][m][j] => i = j
    <3>1. \A i, j \in 1 .. Len(old) : old[i] = old[j] => i = j
      BY Zenon DEF Lists, m
    <3>2. \A i, j \in 1 .. Len(new[d][m]) : new[d][m][i] = new[d][m][j] => i = j
      BY <1>2, <1>3, <2>3, <2>4, <3>1
    <3>3. \A c \in Cpu \ {d} : \A i, j \in 1 .. Len(new[c][m]) :
             new[c][m][i] = new[c][m][j] => i = j
      BY <2>2 DEF Lists, m
    <3> QED BY Zenon, <3>2, <3>3
  <2>7. \A c \in Cpu : \A p \in S[c] : \E i \in 1 .. Len(new[c][m]) : new[c][m][i] = p
    <3>1. \A p \in R[d] : \E i \in 1 .. Len(old) : old[i] = p
      BY Zenon DEF Lists, m
    <3>2. \A p \in S[d] : \E i \in 1 .. Len(new[d][m]) : new[d][m][i] = p
      <4>1. Len(new[d][m]) = Len(old) + 1 /\ Len(old) \in Nat /\ new[d][m][Len(old) + 1] = q
        BY <1>2, <1>3, <2>3
      <4>2. \A i \in 1 .. Len(old) : new[d][m][i] = old[i]
        BY <1>2, <1>3, <2>3
      <4> QED BY <2>3, <3>1, <4>1, <4>2
    <3>3. \A c \in Cpu \ {d} : \A p \in S[c] : \E i \in 1 .. Len(new[c][m]) : new[c][m][i] = p
      <4> TAKE c \in Cpu \ {d}
      <4>1. \A p \in R[c] : \E i \in 1 .. Len(ls[c][m]) : ls[c][m][i] = p
        BY Zenon DEF Lists, m
      <4> QED BY <2>2, <4>1
    <3> QED BY Zenon, <3>2, <3>3
  <2> QED BY Zenon, <1>5, <2>1, <2>5, <2>6, <2>7 DEF Lists, m
<1>8. Counts([ct EXCEPT ![d] = @ + 1], S)
  <2>1. Cardinality(R[d] \cup {q}) = Cardinality(R[d]) + 1
    BY Zenon DEF SetFacts
  <2> QED BY Zenon, <2>1 DEF Counts
<1> QED BY Zenon, <1>6, <1>7, <1>8 DEF m, new, Added, CountedUp

\* __do_sched_remove_ready of the first process of the list of its processor.
LEMMA RemovedExact ==
  ASSUME SetFacts, NEW ls, NEW ct, NEW R \in [Cpu -> SUBSET Proc], Lists(ls, R), Counts(ct, R),
         NEW d \in Cpu, ls[d][NORMAL_LEVEL_MAX] # <<>>,
         NEW p, p = ls[d][NORMAL_LEVEL_MAX][1]
  PROVE  /\ Lists(RemovedLists(ls, p, d), Dropped(R, p, d))
         /\ Counts(CountedDown(ct, d), Dropped(R, p, d))
         /\ \A c \in Cpu \ {d} : RemovedLists(ls, p, d)[c] = ls[c]
<1> DEFINE m == NORMAL_LEVEL_MAX
           new == [ls EXCEPT ![d] = Unlinked(@, p)]
           S == [R EXCEPT ![d] = @ \ {p}]
           old == ls[d][m]
<1> HIDE DEF m
<1>0. m \in Level /\ m # 0 /\ 0 \in Level
  BY Zenon, LevelFacts DEF m
<1>1. ls \in [Cpu -> [Level -> Seq(Process)]]
  BY Zenon DEF Lists
<1>2. p \in Proc /\ p \in R[d]
  BY Zenon, TopList
<1>3. old \in Seq(Process) /\ old # <<>> /\ p = old[1]
  BY Zenon, <1>0, <1>1 DEF m
<1>4. new[d] = [l \in Level |-> list_remove(ls[d][l], p)]
  BY Zenon, <1>1 DEF Unlinked
<1>5. \A c \in Cpu \ {d} : new[c] = ls[c]
  BY Zenon, <1>1
<1>6. new[d][m] = Tail(old)
  BY Zenon, <1>0, <1>3, <1>4, RemoveHead
<1>7. \A l \in Level \ {m} : new[d][l] = ls[d][l]
  <2> TAKE l \in Level \ {m}
  <2>1. \A i \in 1 .. Len(ls[d][l]) : ls[d][l][i] # p
    <3>1. CASE l = 0
      <4>1. ls[d][l] = <<Idle(d)>>
        BY Zenon, <3>1 DEF Lists
      <4> QED BY <1>2, <4>1, IdleFacts
    <3>2. CASE l # 0
      <4>1. ls[d][l] = <<>>
        BY Zenon, <3>2 DEF Lists, m
      <4> QED BY <4>1
    <3> QED BY Zenon, <3>1, <3>2
  <2> QED BY <1>4, <2>1, RemoveAbsent
<1>8. new \in [Cpu -> [Level -> Seq(Process)]]
  <2>1. Tail(old) \in Seq(Process)
    BY <1>3
  <2>2. \A l \in Level : new[d][l] \in Seq(Process)
    BY Zenon, <1>1, <1>6, <1>7, <2>1
  <2>3. new[d] \in [Level -> Seq(Process)]
    BY Zenon, <1>4, <2>2
  <2> QED BY Zenon, <1>1, <1>4, <2>3
<1> HIDE DEF new
<1>9. Lists(new, S)
  <2>1. /\ \A c \in Cpu : new[c][0] = <<Idle(c)>>
        /\ \A c \in Cpu : \A l \in Level \ {0, m} : new[c][l] = <<>>
    <3>1. \A c \in Cpu : \A l \in Level \ {m} : new[c][l] = ls[c][l]
      BY Zenon, <1>5, <1>7
    <3>2. /\ \A c \in Cpu : ls[c][0] = <<Idle(c)>>
          /\ \A c \in Cpu : \A l \in Level \ {0, m} : ls[c][l] = <<>>
      BY Zenon DEF Lists, m
    <3>3. \A c \in Cpu : new[c][0] = ls[c][0]
      BY Zenon, <1>0, <3>1
    <3>4. \A c \in Cpu : \A l \in Level \ {0, m} : new[c][l] = ls[c][l]
      BY Zenon, <3>1
    <3> QED BY ZenonT(60), <3>2, <3>3, <3>4
  <2>2. \A c \in Cpu \ {d} : new[c][m] = ls[c][m] /\ S[c] = R[c]
    BY Zenon, <1>5
  <2>3. S[d] = R[d] \ {p}
    BY Zenon
  <2>4. /\ Len(Tail(old)) = Len(old) - 1 /\ Len(old) \in Nat \ {0}
        /\ \A i \in 1 .. Len(Tail(old)) : Tail(old)[i] = old[i + 1]
    BY <1>3
  <2>5. /\ \A i \in 1 .. Len(old) : old[i] \in R[d]
        /\ \A i, j \in 1 .. Len(old) : old[i] = old[j] => i = j
        /\ \A q \in R[d] : \E i \in 1 .. Len(old) : old[i] = q
    BY Zenon DEF Lists, m
  <2>6. \A c \in Cpu : \A i \in 1 .. Len(new[c][m]) : new[c][m][i] \in S[c]
    <3>1. \A i \in 1 .. Len(new[d][m]) : new[d][m][i] \in S[d]
      BY <1>3, <1>6, <2>3, <2>4, <2>5
    <3>2. \A c \in Cpu \ {d} : \A i \in 1 .. Len(new[c][m]) : new[c][m][i] \in S[c]
      BY Zenon, <2>2 DEF Lists, m
    <3> QED BY Zenon, <3>1, <3>2
  <2>7. \A c \in Cpu : \A i, j \in 1 .. Len(new[c][m]) : new[c][m][i] = new[c][m][j] => i = j
    <3>1. \A i, j \in 1 .. Len(new[d][m]) : new[d][m][i] = new[d][m][j] => i = j
      <4> SUFFICES ASSUME NEW i \in 1 .. Len(Tail(old)), NEW j \in 1 .. Len(Tail(old)),
                          Tail(old)[i] = Tail(old)[j]
                   PROVE  i = j
        BY Zenon, <1>6
      <4>1. i + 1 \in 1 .. Len(old) /\ j + 1 \in 1 .. Len(old)
        BY <2>4
      <4>2. old[i + 1] = old[j + 1]
        BY <2>4
      <4>3. i + 1 = j + 1
        BY Zenon, <2>5, <4>1, <4>2
      <4> QED BY <4>3
    <3>2. \A c \in Cpu \ {d} : \A i, j \in 1 .. Len(new[c][m]) :
             new[c][m][i] = new[c][m][j] => i = j
      BY <2>2 DEF Lists, m
    <3> QED BY Zenon, <3>1, <3>2
  <2>8. \A c \in Cpu : \A q \in S[c] : \E i \in 1 .. Len(new[c][m]) : new[c][m][i] = q
    <3>1. ASSUME NEW q \in S[d] PROVE \E i \in 1 .. Len(new[d][m]) : new[d][m][i] = q
      <4>1. PICK i \in 1 .. Len(old) : old[i] = q
        BY Zenon, <2>3, <2>5
      <4>2. i # 1
        BY Zenon, <1>3, <2>3, <4>1
      <4>3. i - 1 \in 1 .. Len(Tail(old)) /\ Tail(old)[i - 1] = q
        BY <2>4, <4>1, <4>2
      <4> QED BY Zenon, <1>6, <4>3
    <3>2. \A c \in Cpu \ {d} : \A q \in S[c] : \E i \in 1 .. Len(new[c][m]) : new[c][m][i] = q
      <4> TAKE c \in Cpu \ {d}
      <4>1. \A q \in R[c] : \E i \in 1 .. Len(ls[c][m]) : ls[c][m][i] = q
        BY Zenon DEF Lists, m
      <4> QED BY <2>2, <4>1
    <3> QED BY Zenon, <3>1, <3>2
  <2> QED BY Zenon, <1>8, <2>1, <2>6, <2>7, <2>8 DEF Lists, m
<1>10. Counts([ct EXCEPT ![d] = @ - 1], S)
  <2>1. \A x \in R[d] : Cardinality(R[d] \ {x}) = Cardinality(R[d]) - 1
    BY Zenon DEF SetFacts
  <2> QED BY Zenon, <1>2, <2>1 DEF Counts
<1> QED BY Zenon, <1>5, <1>9, <1>10 DEF new, Dropped, CountedDown, RemovedLists

\* list_remove of the idle process and list_insert at the end of its list, which
\* is the tick's __do_sched_update_position, leave the lists as they were.
LEMMA RepositionedIdle ==
  ASSUME NEW ls, NEW R \in [Cpu -> SUBSET Proc], Lists(ls, R), NEW c \in Cpu
  PROVE  [ls EXCEPT ![c] = Repositioned(@, Idle(c), 0)] = ls
<1> DEFINE u == Unlinked(ls[c], Idle(c))
<1>1. /\ ls \in [Cpu -> [Level -> Seq(Process)]] /\ ls[c][0] = <<Idle(c)>>
      /\ \A l \in Level \ {0, NORMAL_LEVEL_MAX} : ls[c][l] = <<>>
      /\ \A i \in 1 .. Len(ls[c][NORMAL_LEVEL_MAX]) : ls[c][NORMAL_LEVEL_MAX][i] \in R[c]
  BY Zenon DEF Lists
<1>2. \A l \in Level : u[l] = list_remove(ls[c][l], Idle(c))
  BY Zenon DEF Unlinked
<1>3. \A l \in Level \ {0} : u[l] = ls[c][l]
  <2> TAKE l \in Level \ {0}
  <2>1. \A i \in 1 .. Len(ls[c][l]) : ls[c][l][i] # Idle(c)
    <3>1. CASE l = NORMAL_LEVEL_MAX
      BY Zenon, <1>1, <3>1, IdleFacts
    <3>2. CASE l # NORMAL_LEVEL_MAX
      <4>1. ls[c][l] = <<>>
        BY Zenon, <1>1, <3>2
      <4> QED BY <4>1
    <3> QED BY Zenon, <3>1, <3>2
  <2> QED BY <1>2, <2>1, RemoveAbsent
<1>4. u[0] = <<>>
  <2>0. <<Idle(c)>> \in Seq(Process) /\ <<Idle(c)>> # <<>>
    BY IdleFacts
  <2>1. list_remove(<<Idle(c)>>, <<Idle(c)>>[1]) = Tail(<<Idle(c)>>)
    BY Zenon, <2>0, RemoveHead
  <2>2. Tail(<<Idle(c)>>) = <<>> /\ <<Idle(c)>>[1] = Idle(c)
    OBVIOUS
  <2> QED BY Zenon, <1>1, <1>2, <2>1, <2>2, LevelFacts
<1>5. Repositioned(ls[c], Idle(c), 0) = [u EXCEPT ![0] = Append(u[0], Idle(c))]
  BY Zenon DEF Repositioned
<1>6. u = [l \in Level |-> u[l]]
  BY Zenon DEF Unlinked
<1> HIDE DEF u
<1>7. Append(u[0], Idle(c)) = ls[c][0]
  BY <1>1, <1>4
<1>8. Repositioned(ls[c], Idle(c), 0) = [l \in Level |-> ls[c][l]]
  BY Zenon, <1>3, <1>5, <1>6, <1>7
<1>9. Repositioned(ls[c], Idle(c), 0) = ls[c]
  BY Zenon, <1>1, <1>8
<1> QED BY Zenon, <1>1, <1>9

\* What the lists and counts say of the types of ready and process_count.
LEMMA ListTypes ==
  ASSUME SetFacts,
         NEW ls, NEW ct, NEW R \in [Cpu -> SUBSET Proc], Lists(ls, R), Counts(ct, R)
  PROVE  /\ ls \in [Cpu -> [Level -> Seq(Process)]]
         /\ ct \in [Cpu -> 0 .. Cardinality(Proc)]
         /\ ct \in [Cpu -> Nat]
BY Zenon DEF Lists, Counts, SetFacts

\* A process that may run is READY, and nobody is waking it.
LEMMA ReadyFacts ==
  ASSUME StateInv, state \in [Process -> {"READY", "BLOCKED", "EXITED"}],
         pc \in [Process -> {"new", "run", "window", "terminating", "leaving", "gone",
                             "doomed", "doomed_window"}]
  PROVE  /\ ReadyMap \in [Cpu -> SUBSET Proc]
         /\ \A c \in Cpu : \A p \in ReadyMap[c] :
               /\ p \in Proc /\ cpu[p] = c /\ state[p] = "READY"
               /\ pc[p] \in {"run", "window", "terminating", "leaving", "doomed"}
               /\ \A r \in Proc : target[r].proc # p
<1>1. ReadyMap \in [Cpu -> SUBSET Proc]
  BY Zenon DEF ReadyMap
<1>2. ASSUME NEW c \in Cpu, NEW p \in ReadyMap[c]
      PROVE  /\ p \in Proc /\ cpu[p] = c /\ state[p] = "READY"
             /\ pc[p] \in {"run", "window", "terminating", "leaving", "doomed"}
             /\ \A r \in Proc : target[r].proc # p
  <2>1. p \in Proc /\ Runnable(p) /\ cpu[p] = c
    BY Zenon, <1>2 DEF ReadyMap
  <2>2. p \in Process
    BY Zenon, <2>1, IdleFacts
  <2> QED BY Zenon, <2>1, <2>2 DEF Runnable, StateInv
<1> QED BY Zenon, <1>1, <1>2

-----------------------------------------------------------------------------
(* Initial states *)

\* Boot establishes the invariant.
LEMMA InitInv ==
  ASSUME SetFacts, Init
  PROVE  IInv
<1>1. PICK init \in Proc :
        /\ current = [c \in Cpu |-> Idle(c)]
        /\ ready = [c \in Cpu |-> [l \in Level |->
                       IF l = 0 THEN <<Idle(c)>>
                       ELSE IF c = 0 /\ l = NORMAL_LEVEL_MAX THEN <<init>> ELSE <<>>]]
        /\ process_count = [c \in Cpu |-> IF c = 0 THEN 1 ELSE 0]
        /\ state = [p \in Process |-> "READY"]
        /\ priority = [p \in Process |-> IF p \in IdleProc THEN 0 ELSE NORMAL_LEVEL_MAX]
        /\ cpu = [p \in Proc |-> 0]
        /\ quantum = [c \in Cpu |-> QMod - 1]
        /\ pc = [p \in Process |-> IF p \in IdleProc \cup {init} THEN "run" ELSE "new"]
        /\ out = [p \in Process |-> "start"]
        /\ target = [p \in Proc |-> NoTarget]
        /\ next = [p \in Process |-> NoNext]
        /\ isr = [c \in Cpu |-> FALSE]
        /\ panic = "none"
  BY Zenon DEF Init
<1>2. init \in Process /\ init \notin IdleProc
  BY Zenon, IdleFacts
<1>3. \A p \in Proc : Runnable(p) <=> p = init
  <2> TAKE p \in Proc
  <2>1. p \in Process /\ p \notin IdleProc
    BY Zenon, IdleFacts
  <2>2. ~ \E r \in Proc : target[r].proc = p
    BY Zenon, <1>1, <2>1, IdleFacts DEF NoTarget
  <2> QED BY Zenon, <1>1, <1>2, <2>1, <2>2 DEF Runnable
<1>4. \A c \in Cpu : ReadyMap[c] = IF c = 0 THEN {init} ELSE {}
  BY Zenon, <1>1, <1>3 DEF ReadyMap
<1>5. Lists(ready, ReadyMap)
  <2>1. ready \in [Cpu -> [Level -> Seq(Process)]]
    BY <1>1, <1>2, IdleFacts
  <2>2. /\ \A c \in Cpu : ready[c][0] = <<Idle(c)>>
        /\ \A c \in Cpu : \A l \in Level \ {0, NORMAL_LEVEL_MAX} : ready[c][l] = <<>>
        /\ \A c \in Cpu : Queue(c) = IF c = 0 THEN <<init>> ELSE <<>>
    BY Zenon, <1>1, LevelFacts DEF Queue
  <2>3. ASSUME NEW c \in Cpu
        PROVE  /\ \A i \in 1 .. Len(Queue(c)) : Queue(c)[i] \in ReadyMap[c]
               /\ \A i, j \in 1 .. Len(Queue(c)) : Queue(c)[i] = Queue(c)[j] => i = j
               /\ \A p \in ReadyMap[c] : \E i \in 1 .. Len(Queue(c)) : Queue(c)[i] = p
    <3>1. CASE c = 0
      <4>1. Queue(c) = <<init>> /\ ReadyMap[c] = {init}
        BY Zenon, <1>4, <2>2, <3>1
      <4> QED BY <4>1
    <3>2. CASE c # 0
      <4>1. Queue(c) = <<>> /\ ReadyMap[c] = {}
        BY Zenon, <1>4, <2>2, <3>2
      <4> QED BY <4>1
    <3> QED BY Zenon, <3>1, <3>2
  <2> QED BY Zenon, <2>1, <2>2, <2>3 DEF Lists, Queue
<1>6. Counts(process_count, ReadyMap)
  <2>1. Cardinality({init}) = 1 /\ Cardinality({}) = 0
    BY Zenon DEF SetFacts
  <2> QED BY Zenon, <1>1, <1>4, <2>1 DEF Counts
<1>7. ReadyMap \in [Cpu -> SUBSET Proc]
  BY Zenon DEF ReadyMap
<1>8. TypeOK
  <2>1. /\ ready \in [Cpu -> [Level -> Seq(Process)]]
        /\ process_count \in [Cpu -> 0 .. Cardinality(Proc)]
    BY Zenon, <1>5, <1>6, <1>7, ListTypes
  <2>2. priority \in [Process -> Level] /\ \A p \in Proc : priority[p] >= NORMAL_LEVEL_MIN
    BY <1>1, IdleFacts, LevelFacts DEF NORMAL_LEVEL_MIN
  <2>3. quantum \in [Cpu -> 0 .. QMod - 1]
    BY Zenon, <1>1, QuantumType
  <2>4. /\ target \in [Proc -> [proc : Proc \cup {None}, cpu : Cpu]]
        /\ next \in [Process -> [proc : Process \cup {None}, checked : BOOLEAN]]
    BY Zenon, <1>1, LevelFacts DEF NoTarget, NoNext
  <2>5. current \in [Cpu -> Process] /\ cpu \in [Proc -> Cpu]
    BY Zenon, <1>1, IdleFacts, LevelFacts
  <2> QED BY Zenon, <1>1, <2>1, <2>2, <2>3, <2>4, <2>5 DEF TypeOK
<1>9. PriorityInv /\ StateInv /\ TargetInv /\ AssertionsHold
  <2>1. PriorityInv
    BY <1>1, IdleFacts DEF PriorityInv
  <2>2. StateInv
    BY Zenon, <1>1, IdleFacts DEF StateInv
  <2>3. TargetInv
    BY Zenon, <1>1 DEF TargetInv, NoTarget
  <2> QED BY Zenon, <1>1, <2>1, <2>2, <2>3 DEF AssertionsHold
<1>10. CurrentInv
  BY Zenon, <1>1, IdleFacts, QuantumType DEF CurrentInv
<1>11. PickInv
  BY Zenon, <1>1, IdleFacts DEF PickInv, NoNext
<1> QED BY Zenon, <1>5, <1>6, <1>8, <1>9, <1>10, <1>11 DEF IInv, ListsInv

-----------------------------------------------------------------------------
(* What the invariant says *)

\* The lists stay right when neither they nor the processes that may run change.
LEMMA SameLists ==
  ASSUME ListsInv, ReadyMap' = ReadyMap, ready' = ready, process_count' = process_count
  PROVE  ListsInv'
<1>1. Lists(ready', ReadyMap') /\ Counts(process_count', ReadyMap')
  BY Zenon DEF ListsInv
<1> QED BY Zenon, <1>1 DEF ListsInv

\* A processor that can be interrupted runs its idle process: the interrupt of one
\* that runs another is still in service.
LEMMA InterruptedIsIdle ==
  ASSUME Good, NEW c \in Cpu, Interruptible(c)
  PROVE  current[c] = Idle(c)
BY Zenon DEF Good, CurrentInv, Interruptible

\* A process that runs outside its window is the first of its processor's list.
LEMMA RunningIsFirst ==
  ASSUME Good, NEW c \in Cpu, NEW p \in Proc, current[c] = p, ~InWindow(p)
  PROVE  /\ Queue(c) # <<>> /\ Queue(c)[1] = p
         /\ p \in ReadyMap[c] /\ cpu[p] = c /\ Runnable(p)
<1>1. Queue(c) # <<>> /\ Queue(c)[1] = p
  BY Zenon DEF Good, CurrentInv
<1>2. p \in ReadyMap[c]
  BY Zenon, <1>1, TopList DEF Good, ListsInv, Queue
<1> QED BY Zenon, <1>1, <1>2 DEF ReadyMap

\* The process that was picked is READY.
LEMMA PickedIsReady ==
  ASSUME Good, NEW p \in Proc, next[p].proc # None \/ next[p].checked
  PROVE  \E c \in Cpu : /\ current[c] = p /\ next[p].proc # None
                        /\ next[p].proc \in Process /\ state[next[p].proc] = "READY"
                        /\ \/ Queue(c) # <<>> /\ next[p].proc = Queue(c)[1]
                           \/ InWindow(p) /\ next[p].proc = Idle(c)
<1>1. PICK c \in Cpu : /\ current[c] = p
                       /\ \/ Queue(c) # <<>> /\ next[p].proc = Queue(c)[1]
                          \/ InWindow(p) /\ next[p].proc = Idle(c)
  BY Zenon DEF Good, PickInv
<1>2. next[p].proc \in Process /\ state[next[p].proc] = "READY"
  <2>1. CASE Queue(c) # <<>> /\ next[p].proc = Queue(c)[1]
    <3>1. next[p].proc \in ReadyMap[c]
      BY Zenon, <2>1, TopList DEF Good, ListsInv, Queue
    <3> QED BY Zenon, <3>1, ReadyFacts, IdleFacts DEF Good, TypeOK
  <2>2. CASE next[p].proc = Idle(c)
    BY Zenon, <2>2, IdleFacts DEF Good, StateInv
  <2> QED BY Zenon, <1>1, <2>1, <2>2
<1> QED BY Zenon, <1>1, <1>2, IdleFacts

\* A list is no longer than the number of processes.
LEMMA QueueBound ==
  ASSUME SetFacts, IInv, NEW c \in Cpu
  PROVE  Len(Queue(c)) \in Nat /\ Len(Queue(c)) <= Cardinality(Process)
<1>1. Lists(ready, ReadyMap)
  BY Zenon DEF IInv, ListsInv
<1>2. Queue(c) \in Seq(Process) /\ Len(Queue(c)) \in Nat
  BY Zenon, <1>1, TopList DEF Queue
<1>3. \A i, j \in 1 .. Len(Queue(c)) : Queue(c)[i] = Queue(c)[j] => i = j
  BY Zenon, <1>1 DEF Lists, Queue
<1> QED BY Zenon, <1>2, <1>3 DEF SetFacts

\* Where a process is in the lists.
LEMMA WhereListed ==
  ASSUME IInv, NEW c \in Cpu, NEW l \in Level, NEW i \in Nat \ {0}, i <= Len(ready[c][l])
  PROVE  \/ l = 0 /\ i = 1 /\ ready[c][l][i] = Idle(c)
         \/ l = NORMAL_LEVEL_MAX /\ ready[c][l][i] \in ReadyMap[c]
<1>1. Lists(ready, ReadyMap)
  BY Zenon DEF IInv, ListsInv
<1>2. ready[c][l] \in Seq(Process)
  BY <1>1 DEF Lists
<1>3. CASE l = 0
  <2>1. ready[c][l] = <<Idle(c)>>
    BY Zenon, <1>1, <1>3 DEF Lists
  <2> QED BY <1>3, <2>1
<1>4. CASE l = NORMAL_LEVEL_MAX
  BY <1>1, <1>2, <1>4 DEF Lists
<1>5. CASE l # 0 /\ l # NORMAL_LEVEL_MAX
  <2>1. ready[c][l] = <<>>
    BY Zenon, <1>1, <1>5 DEF Lists
  <2> QED BY <2>1
<1> QED BY Zenon, <1>3, <1>4, <1>5

\* The lists, as RunQueueExact, IdleAlwaysReady and ExitedIsGone state them.
LEMMA ExactFromInv ==
  ASSUME SetFacts, IInv
  PROVE  QueuesAreExact
<1>0. TypeOK /\ ListsInv /\ PriorityInv /\ StateInv /\ Lists(ready, ReadyMap)
  BY Zenon DEF IInv, ListsInv
<1> DEFINE N == Cardinality(Process)
<1>1. N \in Nat \ {0}
  BY Zenon DEF SetFacts
<1> HIDE DEF N
<1>2. \A p : Occurrences(p) = {x \in Cpu \X Level \X (1 .. N) :
                 x[3] <= Len(ready[x[1]][x[2]]) /\ ready[x[1]][x[2]][x[3]] = p}
  BY Zenon DEF Occurrences, N
<1>3. ASSUME NEW p, NEW x \in Occurrences(p)
      PROVE  /\ x[1] \in Cpu /\ x[2] \in Level /\ x[3] \in 1 .. N /\ x = <<x[1], x[2], x[3]>>
             /\ x[3] <= Len(ready[x[1]][x[2]]) /\ ready[x[1]][x[2]][x[3]] = p
             /\ \/ x[2] = 0 /\ x[3] = 1 /\ p = Idle(x[1])
                \/ x[2] = NORMAL_LEVEL_MAX /\ p \in ReadyMap[x[1]]
  <2>1. /\ x[1] \in Cpu /\ x[2] \in Level /\ x[3] \in 1 .. N /\ x = <<x[1], x[2], x[3]>>
        /\ x[3] <= Len(ready[x[1]][x[2]]) /\ ready[x[1]][x[2]][x[3]] = p
    BY <1>2, <1>3
  <2>2. x[3] \in Nat \ {0}
    BY <1>1, <2>1
  <2> QED BY Zenon, <2>1, <2>2, WhereListed
<1>4. ASSUME NEW p \in Proc, Runnable(p)
      PROVE  \E i \in 1 .. N : Occurrences(p) = {<<cpu[p], priority[p], i>>}
  <2> DEFINE c == cpu[p]
  <2>1. c \in Cpu /\ p \in ReadyMap[c] /\ priority[p] = NORMAL_LEVEL_MAX
    BY Zenon, <1>0, <1>4, IdleFacts DEF TypeOK, ReadyMap, PriorityInv
  <2>2. \A d \in Cpu : p \in ReadyMap[d] => d = c
    BY Zenon DEF ReadyMap
  <2> HIDE DEF c
  <2>3. PICK i \in 1 .. Len(Queue(c)) : Queue(c)[i] = p
    BY Zenon, <1>0, <2>1 DEF Lists, Queue
  <2>4. i \in 1 .. N
    BY <1>1, <2>1, <2>3, QueueBound DEF N
  <2>5. <<c, NORMAL_LEVEL_MAX, i>> \in Occurrences(p)
    <3>1. i <= Len(ready[c][NORMAL_LEVEL_MAX]) /\ ready[c][NORMAL_LEVEL_MAX][i] = p
      BY <2>1, <2>3, QueueBound DEF Queue
    <3> QED BY Zenon, <1>2, <2>1, <2>4, <3>1, LevelFacts
  <2>6. ASSUME NEW x \in Occurrences(p) PROVE x = <<c, NORMAL_LEVEL_MAX, i>>
    <3>1. /\ x[1] = c /\ x[2] = NORMAL_LEVEL_MAX /\ x[3] \in 1 .. N /\ x = <<x[1], x[2], x[3]>>
          /\ x[3] <= Len(Queue(c)) /\ Queue(c)[x[3]] = p
      BY <1>3, <2>2, IdleFacts DEF Queue
    <3>2. x[3] = i
      <4>1. x[3] \in 1 .. Len(Queue(c))
        BY <1>1, <2>1, <3>1, QueueBound
      <4>2. \A j, k \in 1 .. Len(Queue(c)) : Queue(c)[j] = Queue(c)[k] => j = k
        BY Zenon, <1>0, <2>1 DEF Lists, Queue
      <4> QED BY Zenon, <2>3, <3>1, <4>1, <4>2
    <3> QED BY Zenon, <3>1, <3>2
  <2> QED BY Zenon, <2>1, <2>4, <2>5, <2>6 DEF c
<1>5. ASSUME NEW p \in Proc, ~Runnable(p) PROVE Occurrences(p) = {}
  <2> SUFFICES ASSUME NEW x \in Occurrences(p) PROVE FALSE
    BY Zenon
  <2>1. \A c \in Cpu : p \notin ReadyMap[c] /\ p # Idle(c)
    BY Zenon, <1>5, IdleFacts DEF ReadyMap
  <2> QED BY Zenon, <1>3, <2>1
<1>6. RunQueueExact
  <2>1. \A c \in Cpu : process_count[c] = Cardinality({p \in Proc : Runnable(p) /\ cpu[p] = c})
    BY Zenon, <1>0 DEF ListsInv, Counts, ReadyMap
  <2> QED BY Zenon, <1>4, <1>5, <2>1 DEF RunQueueExact, N
<1>7. IdleAlwaysReady
  <2> SUFFICES ASSUME NEW c \in Cpu
               PROVE  /\ ready[c][0] = <<Idle(c)>> /\ priority[Idle(c)] = 0
                      /\ Occurrences(Idle(c)) = {<<c, 0, 1>>}
    BY Zenon DEF IdleAlwaysReady
  <2>1. ready[c][0] = <<Idle(c)>> /\ priority[Idle(c)] = 0
    BY Zenon, <1>0, IdleFacts DEF Lists, PriorityInv
  <2>2. Len(ready[c][0]) = 1 /\ ready[c][0][1] = Idle(c) /\ 1 \in 1 .. N
    BY <1>1, <2>1
  <2>3. <<c, 0, 1>> \in Occurrences(Idle(c))
    BY <1>2, <2>2, LevelFacts
  <2>4. ASSUME NEW x \in Occurrences(Idle(c)) PROVE x = <<c, 0, 1>>
    <3>1. \A d \in Cpu : Idle(c) \notin ReadyMap[d]
      BY Zenon, IdleFacts DEF ReadyMap
    <3>2. x[1] \in Cpu /\ x[2] = 0 /\ x[3] = 1 /\ x = <<x[1], x[2], x[3]>> /\ Idle(c) = Idle(x[1])
      BY ZenonT(60), <1>3, <3>1
    <3> QED BY Zenon, <3>2, IdleFacts
  <2> QED BY Zenon, <2>1, <2>3, <2>4
<1>8. ExitedIsGone
  <2> SUFFICES ASSUME NEW p \in Proc, state[p] = "EXITED", panic = "none"
               PROVE  /\ ~Listed(p)
                      /\ \A c \in Cpu : current[c] # p
                      /\ \A q \in Proc : next[q].proc # p
    BY Zenon DEF ExitedIsGone
  <2>1. Good
    BY Zenon DEF IInv, Good
  <2>2. ReadyMap \in [Cpu -> SUBSET Proc] /\ \A c \in Cpu : p \notin ReadyMap[c]
    BY Zenon, <1>0, ReadyFacts DEF TypeOK
  <2>3. ~Listed(p)
    BY Zenon, <1>0, <2>2, ListedIn
  <2>4. \A c \in Cpu : current[c] # p
    BY Zenon, <2>1 DEF Good, CurrentInv
  <2>5. \A q \in Proc : next[q].proc # p
    BY Zenon, <2>1, PickedIsReady, IdleFacts
  <2> QED BY Zenon, <2>3, <2>4, <2>5
<1> QED BY Zenon, <1>0, <1>6, <1>7, <1>8 DEF QueuesAreExact

\* What a tick does, from the invariant before and after it.
LEMMA TickFacts ==
  ASSUME SetFacts, IInv, IInv', NEW c \in Cpu, Tick(c)
  PROVE  /\ current[c] = Idle(c)
         /\ panic' = "none" => priority'[current'[c]] >= TopLevel(ready'[c])
<1>1. Good /\ Interruptible(c)
  BY Zenon DEF Tick, TickPreempt, TickCount, IInv, Good
<1>2. current[c] = Idle(c) /\ priority[current[c]] = 0
  BY ZenonT(60), <1>1, InterruptedIsIdle, IdleFacts DEF Good, PriorityInv
<1>3. TopLevel(ready'[c]) \in {0, NORMAL_LEVEL_MAX}
  <2>1. Lists(ready', ReadyMap')
    BY Zenon DEF IInv, ListsInv
  <2> QED BY Zenon, <2>1, PickedNext
<1>4. CASE TickCount(c)
  <2>1. quantum[c] \in 0 .. QMod - 1 /\ quantum[c] % 2 = 1
    BY Zenon, <1>1, <1>2 DEF Good, TypeOK, CurrentInv
  <2>2. (quantum[c] - TICK) % QMod # 0
    BY <2>1, OddStaysOdd
  <2>3. current' = current /\ ready' = ready /\ priority' = priority
    BY Zenon, <1>4, <2>2 DEF TickCount
  <2>4. ~(TopLevel(ready[c]) > priority[current[c]])
    BY Zenon, <1>4 DEF TickCount, sched_should_preempt
  <2> QED BY <1>2, <1>3, <2>3, <2>4, LevelFacts
<1>5. CASE TickPreempt(c)
  <2> DEFINE n == sched_pick_next(ready[c])
  <2>1. TopLevel(ready[c]) > 0
    BY ZenonT(30), <1>2, <1>5 DEF TickPreempt, sched_should_preempt
  <2>2. n \in ReadyMap[c]
    BY <1>1, <2>1, PickedNext, TopList DEF Good, ListsInv
  <2>3. n \in Proc /\ n \in Process /\ n # current[c]
    BY Zenon, <1>2, <2>2, IdleFacts DEF ReadyMap
  <2>4. current' = [current EXCEPT ![c] = n] /\ priority' = priority
    BY Zenon, <1>5, <2>3 DEF TickPreempt, process_switch_context
  <2>5. priority'[current'[c]] = NORMAL_LEVEL_MAX
    BY Zenon, <1>1, <2>3, <2>4 DEF Good, TypeOK, PriorityInv
  <2> QED BY Zenon, <1>2, <1>3, <2>5, LevelFacts
<1> QED BY Zenon, <1>4, <1>5 DEF Tick

-----------------------------------------------------------------------------

\* Otherwise the quantum of the idle process shrinks, and is never used up.
LEMMA TickCountInv ==
  ASSUME Good, NEW c \in Cpu, TickCount(c)
  PROVE  IInv'
<1> DEFINE left == (quantum[c] - TICK) % QMod
<1>0. StateInv /\ ListsInv /\ PriorityInv /\ TypeOK /\ TargetInv /\ CurrentInv /\ PickInv
  BY Zenon DEF Good
<1>1. current[c] = Idle(c)
  BY Zenon, InterruptedIsIdle DEF TickCount
<1>2. quantum[c] \in 0 .. QMod - 1 /\ quantum[c] % 2 = 1
  BY Zenon, <1>0, <1>1 DEF TypeOK, CurrentInv
<1>3. left \in 0 .. QMod - 1 /\ left % 2 = 1 /\ left # 0
  BY <1>2, OddStaysOdd
<1>4. /\ priority' = priority /\ quantum' = [quantum EXCEPT ![c] = left] /\ ready' = ready
      /\ UNCHANGED <<current, process_count, state, cpu, pc, out, target, next, isr, panic>>
  BY Zenon, <1>3 DEF TickCount
<1> HIDE DEF left
<1>5. TypeOK'
  <2>1. quantum' \in [Cpu -> 0 .. QMod - 1]
    BY Zenon, <1>0, <1>3, <1>4 DEF TypeOK
  <2> QED BY Zenon, <1>0, <1>4, <2>1 DEF TypeOK
<1>6. ReadyMap' = ReadyMap
  BY Zenon, <1>4 DEF ReadyMap, Runnable
<1>7. ListsInv'
  BY Zenon, <1>0, <1>4, <1>6, SameLists
<1>8. PriorityInv' /\ StateInv' /\ TargetInv' /\ AssertionsHold'
  BY Zenon, <1>0, <1>4 DEF PriorityInv, StateInv, TargetInv, AssertionsHold, Good
<1>9. CurrentInv'
  <2>1. /\ quantum'[c] % 2 = 1
        /\ \A e \in Cpu \ {c} : quantum'[e] = quantum[e]
    BY Zenon, <1>0, <1>3, <1>4 DEF TypeOK
  <2>2. \A e \in Cpu : Queue(e)' = Queue(e)
    BY Zenon, <1>4 DEF Queue
  <2> QED BY <1>0, <1>4, <2>1, <2>2 DEF CurrentInv, InWindow
<1>10. PickInv'
  BY <1>0, <1>4 DEF PickInv, InWindow, Queue
<1> QED BY Zenon, <1>5, <1>7, <1>8, <1>9, <1>10 DEF IInv

\* The invariant on the targets, when no target changes and none of their processes
\* leaves the states it may be in.
LEMMA TargetKept ==
  ASSUME TargetInv, target' = target,
         \A r \in Proc : target[r].proc # None =>
            pc'[target[r].proc] \in {"new", "window"} /\ state'[target[r].proc] = "READY"
  PROVE  TargetInv'
BY Zenon DEF TargetInv

\* The invariant on the processors, when none of them changes its process and that
\* process stays where a running process may be.
LEMMA CurrentKept ==
  ASSUME CurrentInv, UNCHANGED <<current, isr, out, quantum>>,
         \A c \in Cpu : current[c] \in Proc =>
            /\ pc'[current[c]] \notin {"new", "gone"} /\ state'[current[c]] # "EXITED"
            /\ ~InWindow(current[c])' => Queue(c)' # <<>> /\ Queue(c)'[1] = current[c]
  PROVE  CurrentInv'
BY ZenonT(60) DEF CurrentInv

\* A step that changes only the place of a process, from one where it may run to
\* another, or from that of a sleeper to that of one that is never woken again.
LEMMA PlaceInv ==
  ASSUME Good, NEW q \in Proc, NEW x,
         \/ pc[q] = "run" /\ x \in {"terminating", "doomed"}
         \/ pc[q] = "terminating" /\ x = "leaving"
         \/ q \in Sleeper /\ x = "doomed_window",
         pc' = [pc EXCEPT ![q] = x],
         UNCHANGED <<current, ready, process_count, state, priority, cpu, quantum, out,
                     target, next, isr, panic>>
  PROVE  IInv'
<1>0. /\ StateInv /\ ListsInv /\ PriorityInv /\ TypeOK /\ TargetInv /\ CurrentInv /\ PickInv
      /\ panic = "none"
  BY Zenon DEF Good
<1>1. q \in Process
  BY Zenon, IdleFacts
<1>2. /\ pc'[q] = x /\ \A p \in Process \ {q} : pc'[p] = pc[p]
      /\ q \in Sleeper => pc[q] = "window" /\ state[q] = "BLOCKED"
  BY Zenon, <1>0, <1>1 DEF TypeOK, Sleeper
<1>3. TypeOK'
  BY Zenon, <1>0 DEF TypeOK
<1>4. \A p \in Proc : Runnable(p)' <=> Runnable(p)
  <2> TAKE p \in Proc
  <2>1. p \in Process
    BY Zenon, IdleFacts
  <2> QED BY Zenon, <1>2, <2>1 DEF Runnable
<1>5. ReadyMap' = ReadyMap
  BY Zenon, <1>4 DEF ReadyMap
<1>6. ListsInv'
  BY Zenon, <1>0, <1>5, SameLists
<1>7. PriorityInv' /\ AssertionsHold'
  BY Zenon, <1>0 DEF PriorityInv, AssertionsHold
<1>8. StateInv'
  BY <1>0, <1>1, <1>2, IdleFacts DEF StateInv
<1>9. TargetInv'
  <2>1. \A r \in Proc : target[r].proc # q
    BY <1>0, <1>2, IdleFacts DEF TargetInv
  <2>2. \A r \in Proc : target[r].proc # None => target[r].proc \in Process \ {q}
    BY Zenon, <1>0, <2>1, IdleFacts DEF TypeOK
  <2>3. \A r \in Proc : target[r].proc # None =>
           pc[target[r].proc] \in {"new", "window"} /\ state[target[r].proc] = "READY"
    BY Zenon, <1>0 DEF TargetInv
  <2>4. \A r \in Proc : target[r].proc # None =>
           pc'[target[r].proc] \in {"new", "window"} /\ state'[target[r].proc] = "READY"
    BY Zenon, <1>2, <2>2, <2>3
  <2> QED BY Zenon, <1>0, <2>4, TargetKept
<1>10. \A p \in Process : InWindow(p)' <=> InWindow(p)
  BY Zenon, <1>2 DEF InWindow
<1>11. \A p \in Process : pc[p] \notin {"new", "gone"} => pc'[p] \notin {"new", "gone"}
  BY Zenon, <1>2
<1>12. \A e \in Cpu : Queue(e)' = Queue(e)
  BY Zenon DEF Queue
<1>13. CurrentInv'
  <2>1. \A e \in Cpu : current[e] \in Process
    BY Zenon, <1>0 DEF TypeOK
  <2>2. \A e \in Cpu : InWindow(current[e])' <=> InWindow(current[e])
    BY Zenon, <1>2, <2>1 DEF InWindow
  <2>3. ASSUME NEW e \in Cpu, current[e] \in Proc
        PROVE  /\ pc[current[e]] \notin {"new", "gone"} /\ state[current[e]] # "EXITED"
               /\ ~InWindow(current[e]) => Queue(e) # <<>> /\ Queue(e)[1] = current[e]
    BY Zenon, <1>0, <2>3 DEF CurrentInv
  <2> QED BY Zenon, <1>0, <1>11, <1>12, <2>1, <2>2, <2>3, CurrentKept
<1>14. PickInv'
  BY <1>0, <1>10, <1>12, IdleFacts DEF PickInv
<1> QED BY Zenon, <1>3, <1>6, <1>7, <1>8, <1>9, <1>13, <1>14 DEF IInv

\* Picking a processor for a process that is entered or woken: it is not in the
\* lists before or after.
LEMMA PickCpuInv ==
  ASSUME Good, NEW p \in Proc, PickCpu(p)
  PROVE  IInv'
<1>0. /\ StateInv /\ ListsInv /\ PriorityInv /\ TypeOK /\ TargetInv /\ CurrentInv /\ PickInv
      /\ panic = "none" /\ SetFacts
  BY Zenon DEF Good
<1> DEFINE d == sched_pick_cpu
<1>1. PICK q \in Sleeper \cup {r \in Proc : pc[p] = "run" /\ pc[r] = "new"} :
        /\ ~ \E r \in Proc : target[r].proc = q
        /\ target' = [target EXCEPT ![p] = [proc |-> q, cpu |-> d]]
        /\ state' = [state EXCEPT ![q] = "READY"]
  BY Zenon DEF PickCpu
<1>2. /\ q \in Proc /\ q \in Process /\ q # None
      /\ \/ pc[q] = "window" /\ state[q] = "BLOCKED"
         \/ pc[q] = "new"
  BY Zenon, <1>1, IdleFacts DEF Sleeper
<1>3. /\ UNCHANGED <<current, ready, process_count, priority, cpu, quantum, pc, out, next, isr,
                     panic>>
      /\ target[p] = NoTarget
  BY Zenon DEF PickCpu, At
<1>4. d \in Cpu
  <2>1. ReadyMap \in [Cpu -> SUBSET Proc]
    BY Zenon DEF ReadyMap
  <2> QED BY Zenon, <1>0, <2>1, ListTypes, PickedCpu DEF ListsInv
<1> HIDE DEF d
<1>5. /\ state'[q] = "READY" /\ \A r \in Process \ {q} : state'[r] = state[r]
      /\ target'[p] = [proc |-> q, cpu |-> d] /\ \A r \in Proc \ {p} : target'[r] = target[r]
  BY Zenon, <1>0, <1>1, <1>2 DEF TypeOK
<1>6. TypeOK'
  BY Zenon, <1>0, <1>1, <1>2, <1>3, <1>4 DEF TypeOK
<1>7. \A r \in Proc : Runnable(r)' <=> Runnable(r)
  <2> TAKE r \in Proc
  <2>1. r \in Process
    BY Zenon, IdleFacts
  <2>2. CASE r = q
    BY <1>2, <1>3, <1>5, <2>2 DEF Runnable
  <2>3. CASE r # q
    <3>1. (\E s \in Proc : target'[s].proc = r) <=> (\E s \in Proc : target[s].proc = r)
      BY <1>3, <1>5, <2>1, <2>3, IdleFacts DEF NoTarget
    <3> QED BY Zenon, <1>3, <1>5, <2>1, <2>3, <3>1 DEF Runnable
  <2> QED BY Zenon, <2>2, <2>3
<1>8. ReadyMap' = ReadyMap
  BY Zenon, <1>3, <1>7 DEF ReadyMap
<1>9. ListsInv'
  BY Zenon, <1>0, <1>3, <1>8, SameLists
<1>10. PriorityInv' /\ AssertionsHold'
  BY Zenon, <1>0, <1>3 DEF PriorityInv, AssertionsHold
<1>11. StateInv'
  BY ZenonT(60), <1>0, <1>2, <1>3, <1>5, IdleFacts DEF StateInv
<1>12. TargetInv'
  <2> SUFFICES ASSUME NEW r \in Proc
               PROVE  /\ target'[r].proc # None =>
                            /\ pc[target'[r].proc] \in {"new", "window"}
                            /\ state'[target'[r].proc] = "READY"
                            /\ \A s \in Proc : target'[s].proc = target'[r].proc => s = r
                      /\ target'[r].proc = None => target'[r] = NoTarget
    BY Zenon, <1>3 DEF TargetInv
  <2>1. CASE r = p
    <3>1. target'[r].proc = q
      BY <1>5, <2>1
    <3>2. \A s \in Proc \ {p} : target'[s].proc # q
      BY Zenon, <1>1, <1>5
    <3> QED BY Zenon, <1>2, <1>5, <2>1, <3>1, <3>2
  <2>2. CASE r # p
    <3>1. target'[r] = target[r] /\ target[r].proc # q
      BY Zenon, <1>1, <1>5, <2>2
    <3>2. target[r].proc # None => target[r].proc \in Process \ {q}
      BY Zenon, <1>0, <3>1, IdleFacts DEF TypeOK
    <3>3. target[r].proc # None =>
             state'[target[r].proc] = "READY" /\ pc[target[r].proc] \in {"new", "window"}
      BY Zenon, <1>0, <1>5, <3>2 DEF TargetInv
    <3>4. target[r].proc # None => \A s \in Proc : target'[s].proc = target[r].proc => s = r
      <4> SUFFICES ASSUME target[r].proc # None, NEW s \in Proc, target'[s].proc = target[r].proc
                   PROVE  s = r
        BY Zenon
      <4>1. s # p
        BY <1>5, <3>1
      <4>2. target'[s] = target[s]
        BY Zenon, <1>5, <4>1
      <4>3. \A t \in Proc : target[t].proc = target[r].proc => t = r
        BY Zenon, <1>0 DEF TargetInv
      <4> QED BY Zenon, <4>2, <4>3
    <3> QED BY Zenon, <1>0, <3>1, <3>3, <3>4 DEF TargetInv
  <2> QED BY Zenon, <2>1, <2>2
<1>13. CurrentInv'
  <2>1. \A e \in Cpu : current[e] \in Process /\ Queue(e)' = Queue(e)
    BY Zenon, <1>0, <1>3 DEF TypeOK, Queue
  <2>2. \A e \in Cpu : InWindow(current[e])' <=> InWindow(current[e])
    BY Zenon, <1>3 DEF InWindow
  <2>3. ASSUME NEW e \in Cpu, current[e] \in Proc
        PROVE  /\ pc[current[e]] \notin {"new", "gone"} /\ state[current[e]] # "EXITED"
               /\ ~InWindow(current[e]) => Queue(e) # <<>> /\ Queue(e)[1] = current[e]
    BY Zenon, <1>0, <2>3 DEF CurrentInv
  <2>4. \A e \in Cpu : state[current[e]] # "EXITED" => state'[current[e]] # "EXITED"
    BY Zenon, <1>5, <2>1
  <2> QED BY Zenon, <1>0, <1>3, <2>1, <2>2, <2>3, <2>4, CurrentKept
<1>14. PickInv'
  BY <1>0, <1>3 DEF PickInv, InWindow, Queue
<1> QED BY Zenon, <1>6, <1>9, <1>10, <1>11, <1>12, <1>13, <1>14 DEF IInv

\* The first of a list is not the first any more only when it is removed.
LEMMA SameHeads ==
  ASSUME Good, NEW q \in Proc, NEW d \in Cpu,
         \A c \in Cpu : ready'[c][NORMAL_LEVEL_MAX] = IF c = d THEN Append(Queue(d), q) ELSE Queue(c)
  PROVE  \A c \in Cpu : Queue(c) # <<>> => Queue(c)' # <<>> /\ Queue(c)'[1] = Queue(c)[1]
<1> SUFFICES ASSUME NEW c \in Cpu, Queue(c) # <<>>
             PROVE  Queue(c)' # <<>> /\ Queue(c)'[1] = Queue(c)[1]
  BY Zenon
<1>1. Queue(c) \in Seq(Process) /\ q \in Process
  BY Zenon, TopList, IdleFacts DEF Good, ListsInv, Queue
<1>2. Append(Queue(c), q) # <<>> /\ Append(Queue(c), q)[1] = Queue(c)[1]
  BY <1>1
<1>3. Queue(c)' = IF c = d THEN Append(Queue(d), q) ELSE Queue(c)
  BY Zenon DEF Queue
<1> QED BY Zenon, <1>2, <1>3

\* Appending a process that is entered or woken to its list: it may run from now on.
LEMMA SetReadyInv ==
  ASSUME Good, NEW p \in Proc, __do_sched_set_ready(p)
  PROVE  IInv'
<1>0. /\ StateInv /\ ListsInv /\ PriorityInv /\ TypeOK /\ TargetInv /\ CurrentInv /\ PickInv
      /\ panic = "none" /\ SetFacts
  BY Zenon DEF Good
<1>1. PICK q \in Proc, d \in Cpu :
        /\ q = target[p].proc /\ d = target[p].cpu /\ q \in Process /\ q # None
        /\ pc[q] \in {"new", "window"} /\ state[q] = "READY"
        /\ \A r \in Proc \ {p} : target[r].proc # q
  <2>1. target[p] # NoTarget
    BY Zenon DEF __do_sched_set_ready
  <2>2. target[p].proc # None
    BY Zenon, <1>0, <2>1 DEF TargetInv
  <2>3. target[p] \in [proc : Proc \cup {None}, cpu : Cpu]
    BY Zenon, <1>0 DEF TypeOK
  <2>4. target[p].proc \in Proc /\ target[p].cpu \in Cpu
    BY Zenon, <2>2, <2>3
  <2> QED BY <1>0, <2>2, <2>4, IdleFacts DEF TargetInv
<1>2. \A e \in Cpu : q \notin ReadyMap[e]
  BY Zenon, <1>1 DEF ReadyMap, Runnable
<1>3. ReadyMap \in [Cpu -> SUBSET Proc]
  BY Zenon DEF ReadyMap
<1>4. ~Listed(q)
  BY Zenon, <1>0, <1>1, <1>2, <1>3, ListedIn DEF ListsInv
<1>5. /\ ready' = InsertedLists(ready, q, d) /\ process_count' = CountedUp(process_count, d)
      /\ cpu' = [cpu EXCEPT ![q] = d]
      /\ pc' = [pc EXCEPT ![q] = IF @ = "new" THEN "run" ELSE @]
      /\ target' = [target EXCEPT ![p] = NoTarget]
      /\ UNCHANGED <<current, state, priority, quantum, out, next, isr, panic>>
  BY Zenon, <1>1, <1>4 DEF __do_sched_set_ready, CountedUp
<1>6. /\ pc'[q] = IF pc[q] = "new" THEN "run" ELSE pc[q]
      /\ \A r \in Process \ {q} : pc'[r] = pc[r]
      /\ target'[p] = NoTarget /\ \A r \in Proc \ {p} : target'[r] = target[r]
      /\ cpu'[q] = d /\ \A r \in Proc \ {q} : cpu'[r] = cpu[r]
  BY Zenon, <1>0, <1>1, <1>5 DEF TypeOK
<1>7. Runnable(q)' /\ \A r \in Proc \ {q} : Runnable(r)' <=> Runnable(r)
  <2>1. Runnable(q)'
    <3>1. \A r \in Proc : target'[r].proc # q
      BY <1>1, <1>6 DEF NoTarget
    <3>2. pc'[q] \in {"run", "window"} /\ state'[q] = "READY"
      BY Zenon, <1>1, <1>5, <1>6
    <3> QED BY Zenon, <3>1, <3>2 DEF Runnable
  <2>2. ASSUME NEW r \in Proc \ {q} PROVE Runnable(r)' <=> Runnable(r)
    <3>1. r \in Process /\ r # None /\ r # q
      BY Zenon, IdleFacts
    <3>2. (\E s \in Proc : target'[s].proc = r) <=> (\E s \in Proc : target[s].proc = r)
      BY <1>1, <1>6, <3>1 DEF NoTarget
    <3> QED BY Zenon, <1>5, <1>6, <3>1, <3>2 DEF Runnable
  <2> QED BY Zenon, <2>1, <2>2
<1>8. ReadyMap' = Added(ReadyMap, q, d)
  <2>1. \A e \in Cpu : ReadyMap'[e] = IF e = d THEN ReadyMap[e] \cup {q} ELSE ReadyMap[e]
    <3>1. \A r \in Proc : Runnable(r)' <=> (Runnable(r) \/ r = q)
      BY Zenon, <1>7
    <3>2. \A r \in Proc : cpu'[r] = IF r = q THEN d ELSE cpu[r]
      BY Zenon, <1>6
    <3>3. ~Runnable(q)
      BY Zenon, <1>1 DEF Runnable
    <3> QED BY ZenonT(60), <1>1, <3>1, <3>2, <3>3 DEF ReadyMap
  <2>2. ReadyMap' = [e \in Cpu |-> ReadyMap'[e]]
    BY Zenon DEF ReadyMap
  <2> QED BY Zenon, <1>1, <1>3, <2>1, <2>2 DEF Added
<1>9. /\ Lists(InsertedLists(ready, q, d), Added(ReadyMap, q, d))
      /\ Counts(CountedUp(process_count, d), Added(ReadyMap, q, d))
      /\ \A e \in Cpu : InsertedLists(ready, q, d)[e][NORMAL_LEVEL_MAX] =
            IF e = d THEN Append(ready[d][NORMAL_LEVEL_MAX], q) ELSE ready[e][NORMAL_LEVEL_MAX]
  <2>1. priority[q] = NORMAL_LEVEL_MAX
    BY Zenon, <1>0, <1>1 DEF PriorityInv
  <2>2. Lists(ready, ReadyMap) /\ Counts(process_count, ReadyMap)
    BY Zenon, <1>0 DEF ListsInv
  <2> QED BY <1>0, <1>1, <1>2, <1>3, <2>1, <2>2, InsertedExact
<1>10. Lists(ready', ReadyMap') /\ Counts(process_count', ReadyMap')
  BY Zenon, <1>5, <1>8, <1>9
<1>11. TypeOK'
  <2>1. ReadyMap' \in [Cpu -> SUBSET Proc]
    BY Zenon DEF ReadyMap
  <2>2. /\ ready' \in [Cpu -> [Level -> Seq(Process)]]
        /\ process_count' \in [Cpu -> 0 .. Cardinality(Proc)]
    BY Zenon, <1>0, <1>10, <2>1, ListTypes
  <2>3. NoTarget \in [proc : Proc \cup {None}, cpu : Cpu]
    BY Zenon, LevelFacts DEF NoTarget
  <2> QED BY Zenon, <1>0, <1>1, <1>5, <2>2, <2>3 DEF TypeOK
<1>12. PriorityInv' /\ AssertionsHold'
  BY SMTT(30), <1>0, <1>5 DEF PriorityInv, AssertionsHold
<1>13. StateInv'
  <2>1. \A c \in Cpu : pc'[Idle(c)] = pc[Idle(c)]
    BY Zenon, <1>1, <1>6, IdleFacts
  <2>2. \A r \in Proc \ {q} : pc'[r] = pc[r]
    BY Zenon, <1>6, IdleFacts
  <2>3. pc'[q] \in {"run", "window"} /\ state[q] = "READY"
    BY Zenon, <1>1, <1>6
  <2> QED BY <1>0, <1>5, <2>1, <2>2, <2>3 DEF StateInv
<1>14. TargetInv'
  <2> SUFFICES ASSUME NEW r \in Proc
               PROVE  /\ target'[r].proc # None =>
                            /\ pc'[target'[r].proc] \in {"new", "window"}
                            /\ state[target'[r].proc] = "READY"
                            /\ \A s \in Proc : target'[s].proc = target'[r].proc => s = r
                      /\ target'[r].proc = None => target'[r] = NoTarget
    BY Zenon, <1>5 DEF TargetInv
  <2>1. CASE r = p
    BY <1>6, <2>1 DEF NoTarget
  <2>2. CASE r # p
    <3>1. target'[r] = target[r] /\ target[r].proc # q
      BY Zenon, <1>1, <1>6, <2>2
    <3>2. target[r].proc # None => target[r].proc \in Process \ {q}
      BY Zenon, <1>0, <3>1, IdleFacts DEF TypeOK
    <3>3. target[r].proc # None =>
             state[target[r].proc] = "READY" /\ pc'[target[r].proc] \in {"new", "window"}
      BY Zenon, <1>0, <1>6, <3>2 DEF TargetInv
    <3>4. target[r].proc # None => \A s \in Proc : target'[s].proc = target[r].proc => s = r
      <4> SUFFICES ASSUME target[r].proc # None, NEW s \in Proc, target'[s].proc = target[r].proc
                   PROVE  s = r
        BY Zenon
      <4>1. s # p
        <5>1. target'[p].proc = None
          BY <1>6 DEF NoTarget
        <5> QED BY Zenon, <5>1
      <4>2. target'[s] = target[s]
        BY Zenon, <1>6, <4>1
      <4>3. \A t \in Proc : target[t].proc = target[r].proc => t = r
        BY Zenon, <1>0 DEF TargetInv
      <4> QED BY Zenon, <4>2, <4>3
    <3> QED BY Zenon, <1>0, <3>1, <3>3, <3>4 DEF TargetInv
  <2> QED BY Zenon, <2>1, <2>2
<1>15. \A e \in Cpu : Queue(e) # <<>> => Queue(e)' # <<>> /\ Queue(e)'[1] = Queue(e)[1]
  <2>1. \A e \in Cpu : ready'[e][NORMAL_LEVEL_MAX] =
           IF e = d THEN Append(Queue(d), q) ELSE Queue(e)
    BY Zenon, <1>5, <1>9 DEF Queue
  <2> QED BY Zenon, <1>1, <2>1, SameHeads
<1>16. \A r \in Process : InWindow(r)' <=> InWindow(r)
  BY Zenon, <1>1, <1>6 DEF InWindow
<1>17. CurrentInv'
  <2>1. \A e \in Cpu : current[e] \in Process /\ (InWindow(current[e])' <=> InWindow(current[e]))
    <3>1. \A e \in Cpu : current[e] \in Process
      BY Zenon, <1>0 DEF TypeOK
    <3> QED BY <1>1, <1>5, <1>6, <3>1 DEF InWindow
  <2>2. \A e \in Cpu : pc[current[e]] \notin {"new", "gone"} => pc'[current[e]] \notin {"new", "gone"}
    BY ZenonT(60), <1>1, <1>6, <2>1
  <2>3. ASSUME NEW e \in Cpu, current[e] \in Proc
        PROVE  /\ pc[current[e]] \notin {"new", "gone"} /\ state[current[e]] # "EXITED"
               /\ ~InWindow(current[e]) => Queue(e) # <<>> /\ Queue(e)[1] = current[e]
    BY Zenon, <1>0, <2>3 DEF CurrentInv
  <2> QED BY Zenon, <1>0, <1>5, <1>15, <2>1, <2>2, <2>3, CurrentKept
<1>18. PickInv'
  <2>1. \A r \in Proc : InWindow(r)' <=> InWindow(r)
    BY Zenon, <1>16, IdleFacts
  <2>2. ASSUME NEW r \in Proc, next[r].proc # None \/ next[r].checked
        PROVE  \E e \in Cpu : /\ current[e] = r
                              /\ \/ Queue(e)' # <<>> /\ next[r].proc = Queue(e)'[1]
                                 \/ InWindow(r)' /\ next[r].proc = Idle(e)
    <3>1. PICK e \in Cpu : /\ current[e] = r
                           /\ \/ Queue(e) # <<>> /\ next[r].proc = Queue(e)[1]
                              \/ InWindow(r) /\ next[r].proc = Idle(e)
      BY ZenonT(60), <1>0, <2>2 DEF PickInv
    <3> QED BY ZenonT(60), <1>15, <2>1, <3>1
  <2> QED BY ZenonT(60), <1>5, <2>2 DEF PickInv
<1> QED BY Zenon, <1>10, <1>11, <1>12, <1>13, <1>14, <1>17, <1>18 DEF IInv, ListsInv

\* Blocking takes the process out of its list; its level was the highest and stays so.
LEMMA SetBlockingInv ==
  ASSUME Good, NEW p \in Proc, sched_set_blocking(p)
  PROVE  IInv'
<1>0. /\ StateInv /\ ListsInv /\ PriorityInv /\ TypeOK /\ TargetInv /\ CurrentInv /\ PickInv
      /\ panic = "none" /\ SetFacts
  BY Zenon DEF Good
<1>1. PICK c \in Cpu : current[c] = p
  BY Zenon DEF sched_set_blocking, At
<1>2. pc[p] \in {"run", "doomed"} /\ next[p] = NoNext /\ p \in Process /\ p \notin IdleProc
  BY Zenon, IdleFacts DEF sched_set_blocking, At
<1>3. /\ Queue(c) # <<>> /\ Queue(c)[1] = p
      /\ p \in ReadyMap[c] /\ cpu[p] = c /\ Runnable(p)
  BY Zenon, <1>1, <1>2, RunningIsFirst DEF InWindow
<1>4. /\ ready' = RemovedLists(ready, p, c) /\ process_count' = CountedDown(process_count, c)
      /\ priority' = [priority EXCEPT ![p] = clampped_priority_change(p, 1)]
      /\ state' = [state EXCEPT ![p] = "BLOCKED"]
      /\ pc' = [pc EXCEPT ![p] = IF @ = "run" THEN "window" ELSE "doomed_window"]
      /\ UNCHANGED <<current, cpu, quantum, out, target, next, isr, panic>>
  BY Zenon, <1>3 DEF sched_set_blocking, __do_sched_remove_ready, RemovedLists, CountedDown
<1>5. priority' = priority
  <2>1. priority[p] = NORMAL_LEVEL_MAX /\ NORMAL_LEVEL_MAX \in Nat
    BY Zenon, <1>0, <1>2, SchedAssumption DEF PriorityInv
  <2>2. clampped_priority_change(p, 1) = NORMAL_LEVEL_MAX
    BY <1>2, <2>1 DEF clampped_priority_change, Clamp
  <2> QED BY <1>0, <1>4, <2>1, <2>2 DEF TypeOK
<1>6. /\ state'[p] = "BLOCKED" /\ \A r \in Process \ {p} : state'[r] = state[r]
      /\ pc'[p] = (IF pc[p] = "run" THEN "window" ELSE "doomed_window")
      /\ \A r \in Process \ {p} : pc'[r] = pc[r]
  BY Zenon, <1>0, <1>2, <1>4 DEF TypeOK
<1>7. \A r \in Proc : Runnable(r)' <=> Runnable(r) /\ r # p
  <2> TAKE r \in Proc
  <2>1. r \in Process
    BY Zenon, IdleFacts
  <2> QED BY Zenon, <1>4, <1>6, <2>1 DEF Runnable
<1>8. ReadyMap' = Dropped(ReadyMap, p, c)
  <2>1. \A e \in Cpu : ReadyMap'[e] = IF e = c THEN ReadyMap[e] \ {p} ELSE ReadyMap[e]
    BY Zenon, <1>3, <1>4, <1>7 DEF ReadyMap
  <2>2. ReadyMap' = [e \in Cpu |-> ReadyMap'[e]] /\ ReadyMap \in [Cpu -> SUBSET Proc]
    BY Zenon DEF ReadyMap
  <2> QED BY Zenon, <2>1, <2>2 DEF Dropped
<1>9. /\ Lists(RemovedLists(ready, p, c), Dropped(ReadyMap, p, c))
      /\ Counts(CountedDown(process_count, c), Dropped(ReadyMap, p, c))
      /\ \A e \in Cpu \ {c} : RemovedLists(ready, p, c)[e] = ready[e]
  <2>1. /\ Lists(ready, ReadyMap) /\ Counts(process_count, ReadyMap)
        /\ ReadyMap \in [Cpu -> SUBSET Proc]
    BY Zenon, <1>0 DEF ListsInv, ReadyMap
  <2>2. ready[c][NORMAL_LEVEL_MAX] # <<>> /\ p = ready[c][NORMAL_LEVEL_MAX][1]
    BY Zenon, <1>3 DEF Queue
  <2> QED BY <1>0, <2>1, <2>2, RemovedExact
<1>10. Lists(ready', ReadyMap') /\ Counts(process_count', ReadyMap')
  BY Zenon, <1>4, <1>8, <1>9
<1>11. TypeOK'
  <2>1. ReadyMap' \in [Cpu -> SUBSET Proc]
    BY Zenon DEF ReadyMap
  <2>2. /\ ready' \in [Cpu -> [Level -> Seq(Process)]]
        /\ process_count' \in [Cpu -> 0 .. Cardinality(Proc)]
    BY Zenon, <1>0, <1>10, <2>1, ListTypes
  <2> QED BY Zenon, <1>0, <1>2, <1>4, <1>5, <2>2 DEF TypeOK
<1>12. PriorityInv' /\ AssertionsHold'
  BY Zenon, <1>0, <1>4, <1>5 DEF PriorityInv, AssertionsHold
<1>13. StateInv'
  BY SMTT(30), <1>0, <1>2, <1>6, IdleFacts DEF StateInv
<1>14. TargetInv'
  <2>1. \A r \in Proc : target[r].proc # p
    BY Zenon, <1>3 DEF Runnable
  <2>2. \A r \in Proc : target[r].proc # None => target[r].proc \in Process \ {p}
    BY Zenon, <1>0, <2>1, IdleFacts DEF TypeOK
  <2>3. \A r \in Proc : target[r].proc # None =>
           pc[target[r].proc] \in {"new", "window"} /\ state[target[r].proc] = "READY"
    BY Zenon, <1>0 DEF TargetInv
  <2>4. \A r \in Proc : target[r].proc # None =>
           pc'[target[r].proc] \in {"new", "window"} /\ state'[target[r].proc] = "READY"
    BY Zenon, <1>6, <2>2, <2>3
  <2> QED BY Zenon, <1>0, <1>4, <2>4, TargetKept
<1>15. \A e \in Cpu \ {c} : /\ current[e] \in Process \ {p} /\ Queue(e)' = Queue(e)
                            /\ (InWindow(current[e])' <=> InWindow(current[e]))
  <2>1. \A e \in Cpu \ {c} : current[e] \in Process \ {p}
    BY <1>0, <1>1 DEF TypeOK, CurrentInv
  <2>2. \A e \in Cpu \ {c} : Queue(e)' = Queue(e)
    BY Zenon, <1>4, <1>9 DEF Queue
  <2>3. \A e \in Cpu \ {c} : InWindow(current[e])' <=> InWindow(current[e])
    BY <1>4, <1>6, <2>1 DEF InWindow
  <2> QED BY Zenon, <2>1, <2>2, <2>3
<1>16. CurrentInv'
  <2>1. InWindow(current[c])' /\ state'[p] # "EXITED" /\ pc'[p] \notin {"new", "gone"}
    BY <1>1, <1>4, <1>6 DEF InWindow
  <2>2. ASSUME NEW e \in Cpu, current[e] \in Proc
        PROVE  /\ pc'[current[e]] \notin {"new", "gone"} /\ state'[current[e]] # "EXITED"
               /\ ~InWindow(current[e])' => Queue(e)' # <<>> /\ Queue(e)'[1] = current[e]
    <3>1. CASE e = c
      BY SMTT(30), <1>1, <2>1, <3>1
    <3>2. CASE e # c
      <4>1. /\ pc[current[e]] \notin {"new", "gone"} /\ state[current[e]] # "EXITED"
            /\ ~InWindow(current[e]) => Queue(e) # <<>> /\ Queue(e)[1] = current[e]
        BY Zenon, <1>0, <2>2 DEF CurrentInv
      <4>2. pc'[current[e]] = pc[current[e]] /\ state'[current[e]] = state[current[e]]
        BY Zenon, <1>6, <1>15, <3>2
      <4> QED BY Zenon, <1>15, <3>2, <4>1, <4>2
    <3> QED BY Zenon, <3>1, <3>2
  <2> QED BY Zenon, <1>0, <1>4, <2>2, CurrentKept
<1>17. PickInv'
  <2> SUFFICES ASSUME NEW r \in Proc, next[r].proc # None \/ next[r].checked
               PROVE  \E e \in Cpu : /\ current[e] = r
                                     /\ \/ Queue(e)' # <<>> /\ next[r].proc = Queue(e)'[1]
                                        \/ InWindow(r)' /\ next[r].proc = Idle(e)
    BY Zenon, <1>4 DEF PickInv
  <2>1. r # p /\ r \in Process
    BY <1>2, IdleFacts DEF NoNext
  <2>2. PICK e \in Cpu : /\ current[e] = r
                         /\ \/ Queue(e) # <<>> /\ next[r].proc = Queue(e)[1]
                            \/ InWindow(r) /\ next[r].proc = Idle(e)
    BY Zenon, <1>0 DEF PickInv
  <2>3. e # c
    BY Zenon, <1>1, <2>1, <2>2
  <2>4. InWindow(r)' <=> InWindow(r)
    BY Zenon, <1>6, <2>1 DEF InWindow
  <2> QED BY Zenon, <1>15, <2>2, <2>3, <2>4
<1> QED BY Zenon, <1>10, <1>11, <1>12, <1>13, <1>14, <1>16, <1>17 DEF IInv, ListsInv

\* A step of sched_resched that changes only what p has picked, and which is the
\* first of the list, or the idle process when p is in its window.
LEMMA NextStepInv ==
  ASSUME Good, NEW p \in Proc, NEW c \in Cpu, current[c] = p, NEW n, NEW b \in BOOLEAN,
         \/ Queue(c) # <<>> /\ n = Queue(c)[1]
         \/ InWindow(p) /\ n = Idle(c),
         next' = [next EXCEPT ![p] = [proc |-> n, checked |-> b]],
         UNCHANGED <<current, ready, process_count, state, priority, cpu, quantum, pc, out,
                     target, isr, panic>>
  PROVE  IInv'
<1>0. /\ StateInv /\ ListsInv /\ PriorityInv /\ TypeOK /\ TargetInv /\ CurrentInv /\ PickInv
      /\ panic = "none"
  BY Zenon DEF Good
<1>1. n \in Process /\ p \in Process
  <2>1. CASE Queue(c) # <<>> /\ n = Queue(c)[1]
    <3>1. n \in ReadyMap[c]
      BY Zenon, <1>0, <2>1, TopList DEF ListsInv, Queue
    <3> QED BY Zenon, <3>1, IdleFacts DEF ReadyMap
  <2>2. CASE n = Idle(c)
    BY Zenon, <2>2, IdleFacts
  <2> QED BY Zenon, <2>1, <2>2, IdleFacts
<1>2. TypeOK'
  <2>1. next' \in [Process -> [proc : Process \cup {None}, checked : BOOLEAN]]
    BY Zenon, <1>0, <1>1 DEF TypeOK
  <2> QED BY Zenon, <1>0, <2>1 DEF TypeOK
<1>3. ReadyMap' = ReadyMap
  BY Zenon DEF ReadyMap, Runnable
<1>4. ListsInv'
  BY Zenon, <1>0, <1>3, SameLists
<1>5. PriorityInv' /\ StateInv' /\ TargetInv' /\ AssertionsHold'
  BY Zenon, <1>0 DEF PriorityInv, StateInv, TargetInv, AssertionsHold
<1>6. CurrentInv'
  <2>1. \A e \in Cpu : Queue(e)' = Queue(e) /\ (InWindow(current[e])' <=> InWindow(current[e]))
    BY Zenon DEF Queue, InWindow
  <2>2. ASSUME NEW e \in Cpu, current[e] \in Proc
        PROVE  /\ pc[current[e]] \notin {"new", "gone"} /\ state[current[e]] # "EXITED"
               /\ ~InWindow(current[e]) => Queue(e) # <<>> /\ Queue(e)[1] = current[e]
    BY Zenon, <1>0, <2>2 DEF CurrentInv
  <2> QED BY Zenon, <1>0, <2>1, <2>2, CurrentKept
<1>7. PickInv'
  <2>1. next'[p].proc = n /\ \A r \in Proc \ {p} : next'[r] = next[r]
    BY Zenon, <1>0, <1>1, IdleFacts DEF TypeOK
  <2>2. \A e \in Cpu : Queue(e)' = Queue(e)
    BY Zenon DEF Queue
  <2>3. \A r \in Proc : InWindow(r)' <=> InWindow(r)
    BY Zenon DEF InWindow
  <2>4. ASSUME NEW r \in Proc, next'[r].proc # None \/ next'[r].checked
        PROVE  \E e \in Cpu : /\ current'[e] = r
                              /\ \/ Queue(e)' # <<>> /\ next'[r].proc = Queue(e)'[1]
                                 \/ InWindow(r)' /\ next'[r].proc = Idle(e)
    <3>1. CASE r = p
      BY <2>1, <2>2, <2>3, <3>1
    <3>2. CASE r # p
      <4>1. next'[r] = next[r]
        BY Zenon, <2>1, <3>2
      <4>2. PICK e \in Cpu : /\ current[e] = r
                             /\ \/ Queue(e) # <<>> /\ next[r].proc = Queue(e)[1]
                                \/ InWindow(r) /\ next[r].proc = Idle(e)
        BY Zenon, <1>0, <2>4, <4>1 DEF PickInv
      <4> QED BY Zenon, <2>2, <2>3, <4>1, <4>2
    <3> QED BY Zenon, <3>1, <3>2
  <2> QED BY Zenon, <2>4 DEF PickInv
<1> QED BY Zenon, <1>2, <1>4, <1>5, <1>6, <1>7 DEF IInv
=============================================================================
