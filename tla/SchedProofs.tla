----------------------------- MODULE SchedProofs ----------------------------
(***************************************************************************)
(* Theorems about Sched, for any finite set of processes, any number of    *)
(* processors and levels, and any quantum that is a multiple of the tick.  *)
(* SchedSteps holds the invariant and the proof that the steps which leave *)
(* the running process running preserve it.  Here are what sched_resched   *)
(* does before it switches, process_switch_context and the three steps     *)
(* that call it (the tick, sched_resched and sched_leave), and the         *)
(* theorems.                                                               *)
(***************************************************************************)
EXTENDS SchedSteps, FiniteSetTheorems

\* sched_resched picks the first of the list or, in the window of the caller, the idle
\* process.
LEMMA ReschedPickInv ==
  ASSUME Good, NEW p \in Proc, ReschedPick(p)
  PROVE  IInv'
<1>1. PICK c \in Cpu : /\ current[c] = p
                       /\ next' = [next EXCEPT ![p] =
                                      [proc |-> sched_pick_next(ready[c]), checked |-> FALSE]]
  BY Zenon DEF ReschedPick
<1>2. sched_pick_next(ready[c]) = IF Queue(c) = <<>> THEN Idle(c) ELSE Queue(c)[1]
  BY Zenon, PickedNext DEF Good, ListsInv, Queue
<1>3. Queue(c) = <<>> => InWindow(p)
  BY Zenon, <1>1, RunningIsFirst
<1> DEFINE n == sched_pick_next(ready[c])
<1>4. /\ \/ Queue(c) # <<>> /\ n = Queue(c)[1]
         \/ InWindow(p) /\ n = Idle(c)
      /\ next' = [next EXCEPT ![p] = [proc |-> n, checked |-> FALSE]]
  BY Zenon, <1>1, <1>2, <1>3
<1>5. UNCHANGED <<current, ready, process_count, state, priority, cpu, quantum, pc, out,
                  target, isr, panic>>
  BY Zenon DEF ReschedPick
<1> HIDE DEF n
<1> QED BY ZenonT(60), <1>1, <1>4, <1>5, NextStepInv

\* The assertion of sched_resched holds.
LEMMA ReschedCheckInv ==
  ASSUME Good, NEW p \in Proc, ReschedCheck(p)
  PROVE  IInv'
<1>0. next[p] \in [proc : Process \cup {None}, checked : BOOLEAN]
  BY Zenon, IdleFacts DEF Good, TypeOK
<1>1. next[p].proc # None
  BY Zenon, <1>0 DEF ReschedCheck, NoNext
<1>2. PICK c \in Cpu : /\ current[c] = p /\ state[next[p].proc] = "READY"
                       /\ \/ Queue(c) # <<>> /\ next[p].proc = Queue(c)[1]
                          \/ InWindow(p) /\ next[p].proc = Idle(c)
  BY Zenon, <1>1, PickedIsReady
<1>3. /\ next' = [next EXCEPT ![p] = [proc |-> next[p].proc, checked |-> TRUE]]
      /\ UNCHANGED <<current, ready, process_count, state, priority, cpu, quantum, pc, out,
                     target, isr, panic>>
  BY Zenon, <1>1, <1>2 DEF ReschedCheck
<1> DEFINE n == next[p].proc
<1>4. /\ \/ Queue(c) # <<>> /\ n = Queue(c)[1]
         \/ InWindow(p) /\ n = Idle(c)
      /\ next' = [next EXCEPT ![p] = [proc |-> n, checked |-> TRUE]]
  BY Zenon, <1>2, <1>3
<1> HIDE DEF n
<1> QED BY ZenonT(60), <1>2, <1>3, <1>4, NextStepInv

\* sched_resched finds that the caller p is still the one to run, and returns to it.
ReschedAgain(p, c) ==
    /\ quantum' = [quantum EXCEPT ![c] = get_quantum(p)]
    /\ next' = [next EXCEPT ![p] = NoNext]
    /\ pc' = [pc EXCEPT ![p] = IF @ = "window" THEN "run" ELSE @]
    /\ panic' = (IF state[p] = "BLOCKED" THEN "futex_kwait_BLOCKED" ELSE "none")
    /\ UNCHANGED <<current, ready, process_count, state, priority, cpu, out, target, isr>>

\* The return of sched_resched to its caller, the first of its list.
LEMMA ReschedAgainInv ==
  ASSUME Good, NEW p \in Proc, NEW c \in Cpu, current[c] = p,
         Queue(c) # <<>>, p = Queue(c)[1], ReschedAgain(p, c)
  PROVE  IInv'
<1>0. /\ StateInv /\ ListsInv /\ PriorityInv /\ TypeOK /\ TargetInv /\ CurrentInv /\ PickInv
      /\ panic = "none"
  BY Zenon DEF Good
<1>1. p \in Process /\ p \notin IdleProc /\ p # Idle(c)
  BY Zenon, IdleFacts
<1>2. p \in ReadyMap[c]
  BY Zenon, <1>0, TopList DEF ListsInv, Queue
<1>3. /\ state[p] = "READY" /\ pc[p] \in {"run", "window", "terminating", "leaving", "doomed"}
      /\ \A r \in Proc : target[r].proc # p
  BY <1>0, <1>2, ReadyFacts DEF TypeOK
<1>4. /\ quantum' = [quantum EXCEPT ![c] = get_quantum(p)]
      /\ next' = [next EXCEPT ![p] = NoNext]
      /\ pc' = [pc EXCEPT ![p] = IF @ = "window" THEN "run" ELSE @]
      /\ panic' = "none"
      /\ UNCHANGED <<current, ready, process_count, state, priority, cpu, out, target, isr>>
  BY Zenon, <1>3 DEF ReschedAgain
<1>5. /\ pc'[p] = (IF pc[p] = "window" THEN "run" ELSE pc[p])
      /\ \A r \in Process \ {p} : pc'[r] = pc[r]
      /\ next'[p] = NoNext /\ \A r \in Process \ {p} : next'[r] = next[r]
      /\ \A e \in Cpu \ {c} : quantum'[e] = quantum[e]
  BY ZenonT(60), <1>0, <1>1, <1>4 DEF TypeOK
<1>6. TypeOK'
  <2>1. get_quantum(p) \in 0 .. QMod - 1
    <3>1. priority[p] = NORMAL_LEVEL_MAX
      BY Zenon, <1>0, <1>1 DEF PriorityInv
    <3> QED BY Zenon, <1>1, <3>1, QuantumType DEF get_quantum
  <2>2. NoNext \in [proc : Process \cup {None}, checked : BOOLEAN]
    BY Zenon DEF NoNext
  <2>3. /\ quantum' \in [Cpu -> 0 .. QMod - 1]
        /\ next' \in [Process -> [proc : Process \cup {None}, checked : BOOLEAN]]
        /\ pc' \in [Process -> {"new", "run", "window", "terminating", "leaving", "gone",
                                "doomed", "doomed_window"}]
    BY Zenon, <1>0, <1>1, <1>4, <2>1, <2>2 DEF TypeOK
  <2> QED BY Zenon, <1>0, <1>4, <2>3 DEF TypeOK
<1>7. \A r \in Proc : Runnable(r)' <=> Runnable(r)
  <2> TAKE r \in Proc
  <2>1. r \in Process
    BY Zenon, IdleFacts
  <2> QED BY <1>3, <1>4, <1>5, <2>1 DEF Runnable
<1>8. ListsInv'
  <2>1. ReadyMap' = ReadyMap
    BY Zenon, <1>4, <1>7 DEF ReadyMap
  <2> QED BY Zenon, <1>0, <1>4, <2>1, SameLists
<1>9. PriorityInv' /\ AssertionsHold'
  BY Zenon, <1>0, <1>4 DEF PriorityInv, AssertionsHold
<1>10. StateInv'
  BY <1>0, <1>1, <1>3, <1>4, <1>5, IdleFacts DEF StateInv
<1>11. TargetInv'
  <2>1. \A r \in Proc : target[r].proc # None => target[r].proc \in Process \ {p}
    BY Zenon, <1>0, <1>3, IdleFacts DEF TypeOK
  <2> QED BY <1>0, <1>4, <1>5, <2>1 DEF TargetInv
<1>12. \A e \in Cpu \ {c} : /\ current[e] \in Process \ {p}
                            /\ (InWindow(current[e])' <=> InWindow(current[e]))
  <2>1. \A e \in Cpu \ {c} : current[e] \in Process \ {p}
    BY <1>0 DEF TypeOK, CurrentInv
  <2> QED BY <1>4, <1>5, <2>1 DEF InWindow
<1>13. \A e \in Cpu : Queue(e)' = Queue(e)
  BY Zenon, <1>4 DEF Queue
<1>14. CurrentInv'
  <2>1. ASSUME NEW e \in Cpu, current[e] \in Proc
        PROVE  /\ pc'[current[e]] \notin {"new", "gone"} /\ state'[current[e]] # "EXITED"
               /\ ~InWindow(current[e])' => Queue(e)' # <<>> /\ Queue(e)'[1] = current[e]
    <3>1. CASE e = c
      BY SMTT(30), <1>3, <1>4, <1>5, <1>13, <3>1
    <3>2. CASE e # c
      BY SMTT(30), <1>0, <1>4, <1>5, <1>12, <1>13, <2>1, <3>2 DEF CurrentInv
    <3> QED BY SMTT(30), <3>1, <3>2
  <2>2. \A e \in Cpu : current[e] = Idle(e) => quantum'[e] % 2 = 1
    <3> SUFFICES ASSUME NEW e \in Cpu, current[e] = Idle(e) PROVE quantum'[e] % 2 = 1
      BY Zenon
    <3>1. quantum'[e] = quantum[e]
      BY Zenon, <1>1, <1>5
    <3> QED BY ZenonT(60), <1>0, <3>1 DEF CurrentInv
  <2> QED BY ZenonT(60), <1>0, <1>4, <2>1, <2>2 DEF CurrentInv
<1>15. PickInv'
  <2> SUFFICES ASSUME NEW r \in Proc, next'[r].proc # None \/ next'[r].checked
               PROVE  \E e \in Cpu : /\ current[e] = r
                                     /\ \/ Queue(e)' # <<>> /\ next'[r].proc = Queue(e)'[1]
                                        \/ InWindow(r)' /\ next'[r].proc = Idle(e)
    BY Zenon, <1>4 DEF PickInv
  <2>1. r # p /\ r \in Process
    <3>1. r \in Process
      BY Zenon, IdleFacts
    <3>2. r # p
      BY <1>5 DEF NoNext
    <3> QED BY Zenon, <3>1, <3>2
  <2>2. next'[r] = next[r] /\ (InWindow(r)' <=> InWindow(r))
    BY Zenon, <1>5, <2>1 DEF InWindow
  <2> QED BY <1>0, <1>13, <2>2 DEF PickInv
<1> QED BY ZenonT(60), <1>6, <1>8, <1>9, <1>10, <1>11, <1>14, <1>15 DEF IInv

-----------------------------------------------------------------------------
(* process_switch_context *)

\* What the callers of process_switch_context(n) on c give it: the tick switches
\* from the idle process, and sched_resched from a process in its window or one that
\* has left the lists, to the first of what is left, or to the idle process.
SwitchFrom(c, n, from, ls, ct) ==
    /\ IF current[c] = Idle(c)
       THEN from = "tick" /\ n # Idle(c)
       ELSE from = "resched" /\ (InWindow(current[c]) \/ pc[current[c]] = "leaving")
    /\ n # current[c]
    /\ n = Idle(c) \/ (ls[c][NORMAL_LEVEL_MAX] # <<>> /\ n = ls[c][NORMAL_LEVEL_MAX][1])
    /\ LET R == IF pc[current[c]] = "leaving"
                THEN [ReadyMap EXCEPT ![c] = @ \ {current[c]}] ELSE ReadyMap
       IN  Lists(ls, R) /\ Counts(ct, R)
    /\ \A e \in Cpu \ {c} : ls[e] = ready[e]

\* The process that is switched in is READY and in the lists.
LEMMA SwitchedIn ==
  ASSUME Good, NEW c \in Cpu, NEW n, NEW from, NEW ls, NEW ct, SwitchFrom(c, n, from, ls, ct)
  PROVE  /\ n \in Process
         /\ n # Idle(c) => n \in ReadyMap[c]
         /\ state[n] = "READY" /\ pc[n] \in {"run", "window", "terminating", "leaving", "doomed"}
         /\ \A r \in Proc : target[r].proc # n
         /\ \E l \in Level : InList(ls[c][l], n)
         /\ n = Idle(c) => current[c] \in Proc
<1>0. /\ state \in [Process -> {"READY", "BLOCKED", "EXITED"}] /\ StateInv
      /\ pc \in [Process -> {"new", "run", "window", "terminating", "leaving", "gone",
                             "doomed", "doomed_window"}]
      /\ target \in [Proc -> [proc : Proc \cup {None}, cpu : Cpu]]
      /\ current[c] \in Proc \cup {Idle(c)}
  BY Zenon DEF Good, TypeOK, CurrentInv
<1> DEFINE R == IF pc[current[c]] = "leaving"
                THEN [ReadyMap EXCEPT ![c] = @ \ {current[c]}] ELSE ReadyMap
<1>1. Lists(ls, R) /\ R[c] \subseteq ReadyMap[c]
  BY <1>0, ReadyFacts DEF SwitchFrom
<1> HIDE DEF R
<1>2. CASE n = Idle(c)
  <2>1. state[n] = "READY" /\ pc[n] = "run" /\ n \in Process /\ n \notin Proc
    BY Zenon, <1>0, <1>2, IdleFacts DEF StateInv
  <2>2. ls[c][0] = <<n>>
    BY Zenon, <1>1, <1>2 DEF Lists
  <2>3. InList(ls[c][0], n)
    BY <2>2 DEF InList
  <2>4. \A r \in Proc : target[r].proc # n
    BY <1>0, <2>1, IdleFacts
  <2>5. current[c] \in Proc
    BY Zenon, <1>0, <1>2 DEF SwitchFrom
  <2> QED BY ZenonT(60), <1>2, <2>1, <2>3, <2>4, <2>5, LevelFacts
<1>3. CASE n # Idle(c)
  <2>1. ls[c][NORMAL_LEVEL_MAX] # <<>> /\ n = ls[c][NORMAL_LEVEL_MAX][1]
    BY Zenon, <1>3 DEF SwitchFrom
  <2>2. n \in ReadyMap[c] /\ 1 \in 1 .. Len(ls[c][NORMAL_LEVEL_MAX])
    BY Zenon, <1>1, <2>1, TopList
  <2>3. InList(ls[c][NORMAL_LEVEL_MAX], n)
    BY Zenon, <2>1, <2>2 DEF InList
  <2> QED BY ZenonT(60), <1>0, <1>3, <2>2, <2>3, ReadyFacts, IdleFacts, LevelFacts
<1> QED BY Zenon, <1>2, <1>3

\* The step of process_switch_context(n) with the sleeper q that is woken, if any.
Switched(c, n, from, ls, ct, q) ==
    /\ q \in {None} \cup Sleeper /\ q # current[c]
    /\ q # None => pc[current[c]] \in {"leaving", "doomed_window"}
    /\ current' = [current EXCEPT ![c] = n]
    /\ quantum' = [quantum EXCEPT ![c] = get_quantum(n)]
    /\ out' = [out EXCEPT ![current[c]] = from, ![n] = "start"]
    /\ pc' = [pc EXCEPT ![n] = IF out[n] = "resched" /\ @ = "window" THEN "run" ELSE @,
                        ![current[c]] = IF @ = "leaving" THEN "gone" ELSE @]
    /\ state' = [p \in Process |->
                    IF p = current[c] /\ pc[p] \in {"leaving", "doomed_window"} THEN "EXITED"
                    ELSE IF p = q THEN "READY" ELSE state[p]]
    /\ isr' = [isr EXCEPT ![c] = out[n] # "tick" /\ (from = "tick" \/ isr[c])]
    /\ next' = [next EXCEPT ![current[c]] = IF from = "resched" THEN NoNext ELSE @]
    /\ ready' = IF q = None THEN ls ELSE InsertedLists(ls, q, sched_pick_cpu)
    /\ process_count' = IF q = None THEN ct ELSE [ct EXCEPT ![sched_pick_cpu] = @ + 1]
    /\ cpu' = IF q = None THEN cpu ELSE [cpu EXCEPT ![q] = sched_pick_cpu]
    /\ panic' = IF \E e \in Cpu \ {c} : current[e] = n THEN "context_not_saved" ELSE "none"
    /\ UNCHANGED <<target, priority>>

\* The only thing that can go wrong in a switch is that the process that is
\* switched in still runs elsewhere.
LEMMA SwitchSteps ==
  ASSUME Good, NEW c \in Cpu, NEW n, NEW from, NEW ls, NEW ct, SwitchFrom(c, n, from, ls, ct),
         process_switch_context(c, n, from, ls, ct), UNCHANGED priority
  PROVE  \E q : Switched(c, n, from, ls, ct, q)
<1> DEFINE prev == current[c]
<1>0. /\ StateInv /\ prev \in Proc \cup {Idle(c)} /\ ListsInv
      /\ state \in [Process -> {"READY", "BLOCKED", "EXITED"}]
      /\ pc \in [Process -> {"new", "run", "window", "terminating", "leaving", "gone",
                             "doomed", "doomed_window"}]
  BY Zenon DEF Good, TypeOK, CurrentInv
<1>1. terminate_flag(prev) <=> pc[prev] \in {"leaving", "doomed_window"}
  <2>1. CASE prev = Idle(c)
    <3>1. pc[prev] = "run"
      BY Zenon, <1>0, <2>1 DEF StateInv
    <3> QED BY Zenon, <3>1 DEF terminate_flag
  <2>2. CASE prev # Idle(c)
    <3>1. pc[prev] \in {"leaving", "window", "doomed_window"}
      BY Zenon, <2>2 DEF SwitchFrom, InWindow
    <3> QED BY Zenon, <3>1 DEF terminate_flag
  <2> QED BY Zenon, <2>1, <2>2
<1>2. PICK q \in {None} \cup (IF terminate_flag(prev) THEN Sleeper \ {prev} ELSE {}) :
    /\ current' = [current EXCEPT ![c] = n]
    /\ quantum' = [quantum EXCEPT ![c] = get_quantum(n)]
    /\ out' = [out EXCEPT ![prev] = from, ![n] = "start"]
    /\ pc' = [pc EXCEPT ![n] = IF out[n] = "resched" /\ @ = "window" THEN "run" ELSE @,
                        ![prev] = IF @ = "leaving" THEN "gone" ELSE @]
    /\ state' = [p \in Process |-> IF p = prev /\ terminate_flag(prev) THEN "EXITED"
                                   ELSE IF p = q THEN "READY" ELSE state[p]]
    /\ isr' = [isr EXCEPT ![c] = InService(c, n, from)]
    /\ next' = [next EXCEPT ![prev] = IF from = "resched" THEN NoNext ELSE @]
    /\ ready' = IF q = None THEN ls ELSE InsertedLists(ls, q, sched_pick_cpu)
    /\ process_count' = IF q = None THEN ct ELSE [ct EXCEPT ![sched_pick_cpu] = @ + 1]
    /\ cpu' = IF q = None THEN cpu ELSE [cpu EXCEPT ![q] = sched_pick_cpu]
    /\ panic' = CASE \E e \in Cpu \ {c} : current[e] = n -> "context_not_saved"
                  [] out[n] = "resched" /\ pc[n] = "gone" -> "PROCESS_ON_TERMINATE_reached_end"
                  [] out[n] = "resched" /\ state[n] = "BLOCKED" /\ n # q -> "futex_kwait_BLOCKED"
                  [] ~ \E l \in Level : InList(ls[c][l], n) -> "not_in_this_queue"
                  [] q # None /\ Listed(q) -> "node_inserted_twice"
                  [] OTHER -> "none"
    /\ UNCHANGED target
  BY Zenon DEF process_switch_context
<1>3. /\ pc[n] # "gone" /\ state[n] # "BLOCKED" /\ \E l \in Level : InList(ls[c][l], n)
  BY ZenonT(60), <1>0, SwitchedIn
<1>4. ~(q # None /\ Listed(q))
  <2> SUFFICES ASSUME q # None PROVE ~Listed(q)
    BY Zenon
  <2>1. q \in Proc /\ state[q] = "BLOCKED"
    BY Zenon, <1>2 DEF Sleeper
  <2>2. \A e \in Cpu : q \notin ReadyMap[e]
    BY Zenon, <2>1 DEF ReadyMap, Runnable
  <2> QED BY <1>0, <2>1, <2>2, ListedIn, ReadyFacts DEF ListsInv
<1>5. panic' = IF \E e \in Cpu \ {c} : current[e] = n THEN "context_not_saved" ELSE "none"
  BY Zenon, <1>2, <1>3, <1>4
<1>6. isr' = [isr EXCEPT ![c] = out[n] # "tick" /\ (from = "tick" \/ isr[c])]
  BY Zenon, <1>2 DEF InService
<1>7. state' = [p \in Process |->
                   IF p = prev /\ pc[p] \in {"leaving", "doomed_window"} THEN "EXITED"
                   ELSE IF p = q THEN "READY" ELSE state[p]]
  BY Zenon, <1>1, <1>2
<1>8. /\ q \in {None} \cup Sleeper /\ q # prev
      /\ q # None => pc[prev] \in {"leaving", "doomed_window"}
  BY <1>0, <1>1, <1>2, IdleFacts
<1>9. Switched(c, n, from, ls, ct, q)
  BY ZenonT(60), <1>2, <1>5, <1>6, <1>7, <1>8 DEF Switched
<1> QED BY Zenon, <1>9

\* A switch takes a process that leaves off the processes that may run, and adds
\* the sleeper it wakes.
LEMMA SwitchLists ==
  ASSUME Good, NEW c \in Cpu, NEW n, NEW from, NEW ls, NEW ct, SwitchFrom(c, n, from, ls, ct),
         NEW q, Switched(c, n, from, ls, ct, q)
  PROVE  /\ Lists(ready', ReadyMap') /\ Counts(process_count', ReadyMap')
         /\ cpu' \in [Proc -> Cpu]
         /\ \A e \in Cpu : ls[e][NORMAL_LEVEL_MAX] # <<>> =>
               Queue(e)' # <<>> /\ Queue(e)'[1] = ls[e][NORMAL_LEVEL_MAX][1]
<1> DEFINE prev == current[c]
           d == sched_pick_cpu
           R == IF pc[prev] = "leaving" THEN [ReadyMap EXCEPT ![c] = @ \ {prev}] ELSE ReadyMap
<1>0. /\ StateInv /\ prev \in Proc \cup {Idle(c)} /\ ListsInv /\ TargetInv
      /\ state \in [Process -> {"READY", "BLOCKED", "EXITED"}]
      /\ pc \in [Process -> {"new", "run", "window", "terminating", "leaving", "gone",
                             "doomed", "doomed_window"}]
      /\ target \in [Proc -> [proc : Proc \cup {None}, cpu : Cpu]] /\ cpu \in [Proc -> Cpu]
      /\ PriorityInv /\ SetFacts
  BY Zenon DEF Good, TypeOK, CurrentInv
<1>1. ReadyMap \in [Cpu -> SUBSET Proc] /\ R \in [Cpu -> SUBSET Proc]
  BY Zenon, <1>0, ReadyFacts
<1>2. Lists(ls, R) /\ Counts(ct, R)
  BY Zenon DEF SwitchFrom
<1>3. d \in Cpu
  BY Zenon, <1>0, <1>1, ListTypes, PickedCpu DEF ListsInv
<1>4. prev # Idle(c) => pc[prev] \in {"window", "doomed_window", "leaving"}
  BY Zenon DEF SwitchFrom, InWindow
<1>5. /\ n \in Process /\ state[n] = "READY" /\ n # prev
      /\ pc[n] \in {"run", "window", "terminating", "leaving", "doomed"}
  <2>1. n # prev
    BY Zenon DEF SwitchFrom
  <2> QED BY Zenon, <2>1, SwitchedIn
<1>6. /\ q # None => q \in Proc /\ q \in Process /\ pc[q] = "window" /\ state[q] = "BLOCKED"
      /\ q # n /\ q # prev
      /\ q # None => \A r \in Proc : target[r].proc # q
  <2>1. q # None => q \in Proc /\ pc[q] = "window" /\ state[q] = "BLOCKED"
    BY Zenon DEF Switched, Sleeper
  <2>2. q # n /\ q # prev
    BY Zenon, <1>5, <2>1, IdleFacts DEF Switched
  <2>3. q # None => \A r \in Proc : target[r].proc # q
    BY Zenon, <1>0, <2>1 DEF TargetInv
  <2> QED BY Zenon, <2>1, <2>2, <2>3, IdleFacts
<1>7. ASSUME NEW p \in Proc
      PROVE  /\ pc'[p] = IF p = prev /\ pc[p] = "leaving" THEN "gone"
                         ELSE IF p = n /\ out[n] = "resched" /\ pc[n] = "window" THEN "run"
                         ELSE pc[p]
             /\ state'[p] = IF p = prev /\ pc[p] \in {"leaving", "doomed_window"} THEN "EXITED"
                            ELSE IF p = q THEN "READY" ELSE state[p]
             /\ target' = target
             /\ cpu'[p] = IF p = q THEN d ELSE cpu[p]
  <2>1. p \in Process /\ prev \in Process /\ p # None
    BY Zenon, <1>0, IdleFacts
  <2>2. pc' = [pc EXCEPT ![n] = IF out[n] = "resched" /\ @ = "window" THEN "run" ELSE @,
                         ![prev] = IF @ = "leaving" THEN "gone" ELSE @]
    BY Zenon DEF Switched
  <2>3. pc'[p] = IF p = prev /\ pc[p] = "leaving" THEN "gone"
                 ELSE IF p = n /\ out[n] = "resched" /\ pc[n] = "window" THEN "run"
                 ELSE pc[p]
    BY Zenon, <1>0, <1>5, <2>1, <2>2
  <2>4. cpu'[p] = IF p = q THEN d ELSE cpu[p]
    BY Zenon, <1>0, <1>6, <2>1 DEF Switched
  <2> QED BY Zenon, <2>1, <2>3, <2>4 DEF Switched
<1>8. \A p \in Proc : Runnable(p)' <=> (Runnable(p) /\ ~(p = prev /\ pc[p] = "leaving")) \/ p = q
  <2> TAKE p \in Proc
  <2>1. CASE p = prev
    <3>1. p # q /\ p # n /\ p # Idle(c)
      BY Zenon, <1>5, <1>6, <2>1, IdleFacts
    <3>2. pc[p] \in {"window", "doomed_window", "leaving"}
      BY Zenon, <1>4, <2>1, <3>1
    <3> QED BY ZenonT(60), <1>7, <2>1, <3>1, <3>2 DEF Runnable
  <2>2. CASE p = n
    <3>1. p # q /\ p # prev
      BY Zenon, <1>5, <1>6, <2>2
    <3> QED BY ZenonT(60), <1>5, <1>7, <2>2, <3>1 DEF Runnable
  <2>3. CASE p = q
    <3>1. q # None
      BY Zenon, <2>3, IdleFacts
    <3> QED BY ZenonT(60), <1>6, <1>7, <2>3, <3>1 DEF Runnable
  <2>4. CASE p # prev /\ p # n /\ p # q
    BY Zenon, <1>7, <2>4 DEF Runnable
  <2> QED BY ZenonT(60), <2>1, <2>2, <2>3, <2>4
<1>9. pc[prev] = "leaving" => prev \in Proc /\ cpu[prev] = c /\ Runnable(prev)
  <2> SUFFICES ASSUME pc[prev] = "leaving" PROVE prev \in Proc /\ cpu[prev] = c /\ Runnable(prev)
    BY Zenon
  <2>1. prev \in Proc
    BY Zenon, <1>0 DEF StateInv
  <2>2. Queue(c) # <<>> /\ Queue(c)[1] = prev
    BY Zenon, <2>1 DEF Good, CurrentInv, InWindow
  <2>3. prev \in ReadyMap[c]
    BY Zenon, <1>0, <2>2, TopList DEF ListsInv, Queue
  <2> QED BY Zenon, <2>3 DEF ReadyMap
<1>10. q = None => ReadyMap' = R
  <2> SUFFICES ASSUME q = None PROVE ReadyMap' = R
    BY Zenon
  <2>1. \A p \in Proc : p # q /\ cpu'[p] = cpu[p]
    BY Zenon, <1>7, IdleFacts
  <2>2. \A e \in Cpu : ReadyMap'[e] = R[e]
    BY <1>8, <1>9, <2>1 DEF ReadyMap
  <2> QED BY ZenonT(60), <1>1, <2>2 DEF ReadyMap
<1>11. q # None => ReadyMap' = Added(R, q, d) /\ \A e \in Cpu : q \notin R[e]
  <2> SUFFICES ASSUME q # None
               PROVE  ReadyMap' = Added(R, q, d) /\ \A e \in Cpu : q \notin R[e]
    BY Zenon
  <2>1. q \in Proc /\ state[q] = "BLOCKED" /\ q # prev
    BY Zenon, <1>6
  <2>2. \A e \in Cpu : q \notin ReadyMap[e]
    BY Zenon, <2>1 DEF ReadyMap, Runnable
  <2>3. \A e \in Cpu : q \notin R[e]
    BY Zenon, <1>1, <2>2
  <2>4. \A e \in Cpu : ReadyMap'[e] = IF e = d THEN R[e] \cup {q} ELSE R[e]
    BY <1>3, <1>7, <1>8, <1>9, <2>1, <2>3 DEF ReadyMap
  <2>5. ReadyMap' = [e \in Cpu |-> ReadyMap'[e]]
    BY Zenon DEF ReadyMap
  <2> HIDE DEF R, d
  <2> QED BY ZenonT(60), <1>1, <1>3, <2>3, <2>4, <2>5 DEF Added
<1> HIDE DEF R, d
<1>12. CASE q = None
  <2>1. ready' = ls /\ process_count' = ct /\ cpu' = cpu
    BY Zenon, <1>12 DEF Switched
  <2> QED BY ZenonT(60), <1>0, <1>2, <1>10, <1>12, <2>1 DEF Queue
<1>13. CASE q # None
  <2>1. /\ ready' = InsertedLists(ls, q, d) /\ process_count' = CountedUp(ct, d)
        /\ cpu' = [cpu EXCEPT ![q] = d]
    BY Zenon, <1>13 DEF Switched, d, CountedUp
  <2>2. priority[q] = NORMAL_LEVEL_MAX
    BY Zenon, <1>0, <1>6, <1>13 DEF PriorityInv
  <2>3. /\ Lists(ready', ReadyMap') /\ Counts(process_count', ReadyMap')
        /\ \A e \in Cpu : ready'[e][NORMAL_LEVEL_MAX] =
              IF e = d THEN Append(ls[d][NORMAL_LEVEL_MAX], q) ELSE ls[e][NORMAL_LEVEL_MAX]
    <3>1. q \in Proc /\ \A e \in Cpu : q \notin R[e]
      BY SMTT(30), <1>6, <1>11, <1>13
    <3>2. /\ Lists(InsertedLists(ls, q, d), Added(R, q, d))
          /\ Counts(CountedUp(ct, d), Added(R, q, d))
          /\ \A e \in Cpu : InsertedLists(ls, q, d)[e][NORMAL_LEVEL_MAX] =
                IF e = d THEN Append(ls[d][NORMAL_LEVEL_MAX], q) ELSE ls[e][NORMAL_LEVEL_MAX]
      BY <1>0, <1>1, <1>2, <1>3, <2>2, <3>1, InsertedExact
    <3> QED BY ZenonT(60), <1>11, <1>13, <2>1, <3>2
  <2>4. ASSUME NEW e \in Cpu, ls[e][NORMAL_LEVEL_MAX] # <<>>
        PROVE  Queue(e)' # <<>> /\ Queue(e)'[1] = ls[e][NORMAL_LEVEL_MAX][1]
    <3>1. ls[e][NORMAL_LEVEL_MAX] \in Seq(Process) /\ q \in Process
      BY ZenonT(60), <1>2, <1>6, <1>13, TopList
    <3>2. /\ Append(ls[e][NORMAL_LEVEL_MAX], q) # <<>>
          /\ Append(ls[e][NORMAL_LEVEL_MAX], q)[1] = ls[e][NORMAL_LEVEL_MAX][1]
      BY <2>4, <3>1
    <3>3. CASE e = d
      BY Zenon, <2>3, <3>2, <3>3 DEF Queue
    <3>4. CASE e # d
      BY ZenonT(60), <2>3, <2>4, <3>4 DEF Queue
    <3> QED BY Zenon, <3>3, <3>4
  <2>5. cpu' \in [Proc -> Cpu]
    BY Zenon, <1>0, <1>3, <2>1
  <2> QED BY Zenon, <2>3, <2>4, <2>5
<1> QED BY Zenon, <1>12, <1>13

\* A switch keeps the invariant.
LEMMA SwitchInv ==
  ASSUME Good, NEW c \in Cpu, NEW n, NEW from, NEW ls, NEW ct, SwitchFrom(c, n, from, ls, ct),
         process_switch_context(c, n, from, ls, ct), UNCHANGED priority
  PROVE  IInv'
<1> DEFINE prev == current[c]
<1>1. PICK q : Switched(c, n, from, ls, ct, q)
  BY Zenon, SwitchSteps
<1>2. /\ Lists(ready', ReadyMap') /\ Counts(process_count', ReadyMap') /\ cpu' \in [Proc -> Cpu]
      /\ \A e \in Cpu : ls[e][NORMAL_LEVEL_MAX] # <<>> =>
            Queue(e)' # <<>> /\ Queue(e)'[1] = ls[e][NORMAL_LEVEL_MAX][1]
  BY <1>1, SwitchLists
<1>3. TypeOK /\ PriorityInv /\ StateInv /\ TargetInv /\ CurrentInv /\ PickInv /\ panic = "none"
  BY Zenon DEF Good
<1>4. /\ n \in Process /\ state[n] = "READY"
      /\ n # Idle(c) => n \in Proc
      /\ pc[n] \in {"run", "window", "terminating", "leaving", "doomed"}
      /\ \A r \in Proc : target[r].proc # n
      /\ n = Idle(c) => prev \in Proc
  <2>1. \A p \in ReadyMap[c] : p \in Proc
    BY Zenon DEF ReadyMap
  <2> QED BY Zenon, <2>1, SwitchedIn
<1>5. /\ n # prev /\ prev \in Proc \cup {Idle(c)} /\ prev \in Process
      /\ IF prev = Idle(c) THEN from = "tick" /\ n # Idle(c)
         ELSE from = "resched" /\ pc[prev] \in {"window", "doomed_window", "leaving"}
      /\ n # Idle(c) => ls[c][NORMAL_LEVEL_MAX] # <<>> /\ n = ls[c][NORMAL_LEVEL_MAX][1]
      /\ \A e \in Cpu \ {c} : ls[e] = ready[e]
  <2>1. prev \in Proc \cup {Idle(c)}
    BY Zenon, <1>3 DEF CurrentInv
  <2> QED BY Zenon, <2>1, IdleFacts DEF SwitchFrom, InWindow
<1>6. /\ q # None => q \in Proc /\ pc[q] = "window" /\ state[q] = "BLOCKED"
      /\ q # n /\ q # prev
  BY ZenonT(60), <1>1, <1>4, <1>5, IdleFacts DEF Switched, Sleeper
<1>7. ASSUME NEW p \in Process
      PROVE  /\ pc'[p] = IF p = prev /\ pc[p] = "leaving" THEN "gone"
                         ELSE IF p = n /\ out[n] = "resched" /\ pc[n] = "window" THEN "run"
                         ELSE pc[p]
             /\ state'[p] = IF p = prev /\ pc[p] \in {"leaving", "doomed_window"} THEN "EXITED"
                            ELSE IF p = q THEN "READY" ELSE state[p]
             /\ out'[p] = IF p = n THEN "start" ELSE IF p = prev THEN from ELSE out[p]
             /\ next'[p] = IF p = prev /\ from = "resched" THEN NoNext ELSE next[p]
  BY ZenonT(60), <1>1, <1>3, <1>4, <1>5 DEF Switched, TypeOK
<1>8. /\ target' = target /\ priority' = priority
      /\ \A e \in Cpu : current'[e] = IF e = c THEN n ELSE current[e]
      /\ panic' = IF \E e \in Cpu \ {c} : current[e] = n THEN "context_not_saved" ELSE "none"
      /\ \A e \in Cpu : quantum'[e] = IF e = c THEN get_quantum(n) ELSE quantum[e]
      /\ \A e \in Cpu : isr'[e] = IF e = c THEN out[n] # "tick" /\ (from = "tick" \/ isr[c])
                                  ELSE isr[e]
  BY Zenon, <1>1, <1>3 DEF Switched, TypeOK
<1>9. get_quantum(n) \in 0 .. QMod - 1 /\ (n = Idle(c) => get_quantum(n) % 2 = 1)
  <2>1. CASE n = Idle(c)
    <3>1. n \in IdleProc
      BY Zenon, <2>1, IdleFacts
    <3> QED BY Zenon, <3>1, QuantumType DEF get_quantum
  <2>2. CASE n # Idle(c)
    <3>1. n \notin IdleProc /\ priority[n] = NORMAL_LEVEL_MAX
      BY ZenonT(60), <1>3, <1>4, <2>2, IdleFacts DEF PriorityInv
    <3> QED BY Zenon, <2>2, <3>1, QuantumType DEF get_quantum
  <2> QED BY ZenonT(60), <2>1, <2>2
<1>10. TypeOK'
  <2>1. /\ ready' \in [Cpu -> [Level -> Seq(Process)]]
        /\ process_count' \in [Cpu -> 0 .. Cardinality(Proc)]
    <3>1. ReadyMap' \in [Cpu -> SUBSET Proc]
      BY Zenon DEF ReadyMap
    <3> QED BY ZenonT(60), <1>2, <3>1, ListTypes DEF Good
  <2>2. current' \in [Cpu -> Process] /\ quantum' \in [Cpu -> 0 .. QMod - 1] /\ isr' \in [Cpu -> BOOLEAN]
    <3>1. current' \in [Cpu -> Process]
      BY ZenonT(60), <1>1, <1>3, <1>4 DEF Switched, TypeOK
    <3>2. quantum' \in [Cpu -> 0 .. QMod - 1]
      BY ZenonT(60), <1>1, <1>3, <1>9 DEF Switched, TypeOK
    <3>3. isr' \in [Cpu -> BOOLEAN]
      BY ZenonT(60), <1>1, <1>3 DEF Switched, TypeOK
    <3> QED BY Zenon, <3>1, <3>2, <3>3
  <2>3. /\ state' \in [Process -> {"READY", "BLOCKED", "EXITED"}]
        /\ pc' \in [Process -> {"new", "run", "window", "terminating", "leaving", "gone",
                                "doomed", "doomed_window"}]
    BY ZenonT(60), <1>1, <1>3, <1>4, <1>5 DEF Switched, TypeOK
  <2>4. out' \in [Process -> {"start", "tick", "resched"}]
    BY ZenonT(60), <1>1, <1>3, <1>4, <1>5 DEF Switched, TypeOK
  <2>5. next' \in [Process -> [proc : Process \cup {None}, checked : BOOLEAN]]
    <3>1. NoNext \in [proc : Process \cup {None}, checked : BOOLEAN]
      BY Zenon DEF NoNext
    <3> QED BY ZenonT(60), <1>1, <1>3, <1>5, <3>1 DEF Switched, TypeOK
  <2> QED BY ZenonT(60), <1>2, <1>3, <1>8, <2>1, <2>2, <2>3, <2>4, <2>5 DEF TypeOK
<1>11. AssertionsHold' /\ PriorityInv'
  BY ZenonT(60), <1>3, <1>8 DEF AssertionsHold, PriorityInv
<1>12. StateInv'
  <2>1. ASSUME NEW p \in Proc
        PROVE  /\ pc'[p] \in {"new", "run", "doomed", "terminating", "leaving"} => state'[p] = "READY"
               /\ pc'[p] = "window" => state'[p] # "EXITED"
               /\ pc'[p] = "doomed_window" => state'[p] # "READY"
               /\ pc'[p] = "gone" => state'[p] = "EXITED"
    <3>1. p \in Process /\ (p = prev => prev # Idle(c))
      BY Zenon, IdleFacts
    <3>2. q = p => q # None
      BY Zenon, IdleFacts
    <3> QED BY <1>3, <1>4, <1>5, <1>6, <1>7, <3>1, <3>2 DEF StateInv
  <2>2. ASSUME NEW e \in Cpu
        PROVE  state'[Idle(e)] = "READY" /\ pc'[Idle(e)] = "run"
    <3>1. Idle(e) \in Process /\ Idle(e) # q
      BY <1>6, IdleFacts
    <3>2. pc[Idle(e)] = "run" /\ state[Idle(e)] = "READY"
      BY Zenon, <1>3 DEF StateInv
    <3> QED BY ZenonT(60), <1>7, <3>1, <3>2
  <2> QED BY SMTT(30), <2>1, <2>2 DEF StateInv
<1>13. TargetInv'
  <2> SUFFICES ASSUME NEW r \in Proc, target[r].proc # None
               PROVE  /\ pc'[target[r].proc] \in {"new", "window"} /\ state'[target[r].proc] = "READY"
                      /\ \A s \in Proc : target[s].proc = target[r].proc => s = r
    BY <1>3, <1>8 DEF TargetInv
  <2> DEFINE t == target[r].proc
  <2>1. /\ pc[t] \in {"new", "window"} /\ state[t] = "READY"
        /\ \A s \in Proc : target[s].proc = t => s = r
    BY Zenon, <1>3 DEF TargetInv
  <2>2. t \in Process /\ t # n
    BY ZenonT(60), <1>3, <1>4, IdleFacts DEF TypeOK
  <2> HIDE DEF t
  <2>3. pc'[t] \in {"new", "window"} /\ state'[t] = "READY"
    BY ZenonT(60), <1>7, <2>1, <2>2
  <2> QED BY Zenon, <2>1, <2>3 DEF t
<1>14. panic' = "none" => CurrentInv' /\ PickInv'
  <2> SUFFICES ASSUME \A e \in Cpu \ {c} : current[e] # n PROVE CurrentInv' /\ PickInv'
    BY Zenon, <1>8
  <2>1. \A e \in Cpu \ {c} : current[e] # prev
    BY Zenon, <1>3 DEF CurrentInv
  <2>2. \A e \in Cpu \ {c} : Queue(e) # <<>> => Queue(e)' # <<>> /\ Queue(e)'[1] = Queue(e)[1]
    BY Zenon, <1>2, <1>5 DEF Queue
  <2>3. \A e \in Cpu \ {c} : /\ current[e] \in Process /\ pc'[current[e]] = pc[current[e]]
                             /\ state'[current[e]] \in {"READY", state[current[e]]}
    BY ZenonT(60), <1>3, <1>7, <2>1 DEF TypeOK
  <2>4. CurrentInv'
    <3>1. \A d, e \in Cpu : current'[d] = current'[e] => d = e
      BY SMTT(30), <1>3, <1>8 DEF CurrentInv
    <3>2. ASSUME NEW e \in Cpu, e # c
          PROVE  /\ current'[e] \in Proc \cup {Idle(e)}
                 /\ isr'[e] <=> current'[e] \in Proc
                 /\ out'[Idle(e)] = IF current'[e] = Idle(e) THEN "start" ELSE "tick"
                 /\ current'[e] = Idle(e) => quantum'[e] % 2 = 1
                 /\ current'[e] \in Proc =>
                       /\ pc'[current'[e]] \notin {"new", "gone"} /\ state'[current'[e]] # "EXITED"
                       /\ ~InWindow(current[e])' => Queue(e)' # <<>> /\ Queue(e)'[1] = current'[e]
      <4>1. current'[e] = current[e] /\ isr'[e] = isr[e] /\ quantum'[e] = quantum[e]
        BY SMTT(30), <1>8, <3>2
      <4>2. out'[Idle(e)] = out[Idle(e)]
        BY <1>4, <1>5, <1>7, <3>2, IdleFacts
      <4>3. ~InWindow(current[e])' => ~InWindow(current[e])
        BY Zenon, <2>3, <3>2, <4>1 DEF InWindow
      <4> QED BY <1>3, <2>2, <2>3, <3>2, <4>1, <4>2, <4>3 DEF CurrentInv
    <3>3. /\ current'[c] \in Proc \cup {Idle(c)}
          /\ isr'[c] <=> current'[c] \in Proc
          /\ out'[Idle(c)] = IF current'[c] = Idle(c) THEN "start" ELSE "tick"
          /\ current'[c] = Idle(c) => quantum'[c] % 2 = 1
          /\ current'[c] \in Proc =>
                /\ pc'[current'[c]] \notin {"new", "gone"} /\ state'[current'[c]] # "EXITED"
                /\ ~InWindow(current[c])' => Queue(c)' # <<>> /\ Queue(c)'[1] = current'[c]
      <4>1. current'[c] = n /\ n \in Proc \cup {Idle(c)} /\ Idle(c) \notin Proc /\ Idle(c) \in Process
        BY ZenonT(60), <1>4, <1>8, IdleFacts
      <4>2. isr'[c] <=> n \in Proc
        <5>1. out[n] # "tick" <=> n \in Proc
          BY ZenonT(60), <1>3, <1>4, <1>5, <4>1 DEF CurrentInv
        <5>2. from = "tick" \/ isr[c]
          BY Zenon, <1>3, <1>5 DEF CurrentInv
        <5>3. isr'[c] = (out[n] # "tick" /\ (from = "tick" \/ isr[c]))
          BY SMTT(30), <1>8
        <5> QED BY ZenonT(30), <5>1, <5>2, <5>3
      <4>3. out'[Idle(c)] = IF n = Idle(c) THEN "start" ELSE "tick"
        BY <1>3, <1>5, <1>7, <4>1 DEF CurrentInv
      <4>4. n = Idle(c) => quantum'[c] % 2 = 1
        BY Zenon, <1>8, <1>9
      <4>5. pc'[n] \notin {"new", "gone"} /\ state'[n] # "EXITED"
        BY ZenonT(60), <1>4, <1>5, <1>7
      <4>6. n \in Proc => Queue(c)' # <<>> /\ Queue(c)'[1] = n
        BY ZenonT(30), <1>2, <1>5, <4>1
      <4> QED BY ZenonT(60), <4>1, <4>2, <4>3, <4>4, <4>5, <4>6
    <3>4. \A p \in Proc : out'[p] # "tick"
      BY <1>3, <1>5, <1>7, IdleFacts DEF CurrentInv
    <3> QED BY ZenonT(60), <3>1, <3>2, <3>3, <3>4 DEF CurrentInv
  <2>5. PickInv'
    <3> SUFFICES ASSUME NEW p \in Proc, next'[p].proc # None \/ next'[p].checked
                 PROVE  \E e \in Cpu : /\ current'[e] = p
                                       /\ \/ Queue(e)' # <<>> /\ next'[p].proc = Queue(e)'[1]
                                          \/ InWindow(p)' /\ next'[p].proc = Idle(e)
      BY Zenon DEF PickInv
    <3>1. p # prev /\ p \in Process
      BY <1>5, <1>7, IdleFacts DEF NoNext
    <3>2. next'[p] = next[p]
      BY Zenon, <1>7, <3>1
    <3>3. PICK e \in Cpu : /\ current[e] = p
                          /\ \/ Queue(e) # <<>> /\ next[p].proc = Queue(e)[1]
                             \/ InWindow(p) /\ next[p].proc = Idle(e)
      BY ZenonT(30), <1>3, <3>2 DEF PickInv
    <3>4. e # c /\ current'[e] = p
      BY ZenonT(60), <1>8, <3>1, <3>3
    <3>5. InWindow(p) => InWindow(p)'
      BY ZenonT(60), <2>3, <3>3, <3>4 DEF InWindow
    <3> QED BY ZenonT(30), <2>2, <3>2, <3>3, <3>4, <3>5
  <2> QED BY Zenon, <2>4, <2>5
<1> QED BY ZenonT(60), <1>2, <1>10, <1>11, <1>12, <1>13, <1>14 DEF IInv, ListsInv

\* A tick that preempts the idle process switches to the first process.
LEMMA TickPreemptInv ==
  ASSUME Good, NEW c \in Cpu, TickPreempt(c)
  PROVE  IInv'
<1> DEFINE cur == current[c]
           n == sched_pick_next(ready[c])
           ls == [ready EXCEPT ![c] = Repositioned(@, cur, priority[cur])]
<1>0. StateInv /\ ListsInv /\ PriorityInv /\ TypeOK
  BY Zenon DEF Good
<1>1. cur = Idle(c) /\ priority[cur] = 0
  BY <1>0, InterruptedIsIdle, IdleFacts DEF TickPreempt, PriorityInv
<1>2. ReadyMap \in [Cpu -> SUBSET Proc]
  BY Zenon DEF ReadyMap
<1>3. ls = ready
  BY ZenonT(60), <1>0, <1>1, <1>2, RepositionedIdle DEF ListsInv
<1>4. Queue(c) # <<>>
  <2>1. TopLevel(ready[c]) > 0
    BY Zenon, <1>1 DEF TickPreempt, sched_should_preempt
  <2> QED BY <1>0, <2>1, PickedNext DEF ListsInv, Queue
<1>5. n = Queue(c)[1] /\ n \in ReadyMap[c]
  BY <1>0, <1>4, PickedNext, TopList DEF ListsInv, Queue
<1>6. n # cur
  BY <1>1, <1>2, <1>5, IdleFacts
<1>7. process_switch_context(c, n, "tick", ls, process_count) /\ UNCHANGED priority
  BY Zenon, <1>6 DEF TickPreempt
<1>8. pc[cur] # "leaving"
  BY Zenon, <1>0, <1>1 DEF StateInv
<1> HIDE DEF n, ls
<1>9. SwitchFrom(c, n, "tick", ready, process_count)
  BY ZenonT(60), <1>0, <1>1, <1>4, <1>5, <1>6, <1>8 DEF SwitchFrom, ListsInv, Queue
<1>10. process_switch_context(c, n, "tick", ready, process_count)
  BY Zenon, <1>3, <1>7
<1> QED BY Zenon, <1>7, <1>9, <1>10, SwitchInv

\* sched_leave takes the process out of its list and switches to the next one.
LEMMA LeaveInv ==
  ASSUME Good, NEW p \in Proc, sched_leave(p)
  PROVE  IInv'
<1>0. StateInv /\ ListsInv /\ TypeOK /\ SetFacts /\ ReadyMap \in [Cpu -> SUBSET Proc]
  BY Zenon DEF Good, ReadyMap
<1>1. PICK c \in Cpu :
        /\ current[c] = p /\ At(p, {"leaving"})
        /\ LET lists  == [ready EXCEPT ![cpu[p]] = Unlinked(@, p)]
               counts == [process_count EXCEPT ![cpu[p]] = @ - 1]
               n      == sched_pick_next(lists[c])
           IN  IF n = None THEN Panic("sched_pick_next_none")
               ELSE IF state[n] # "READY" THEN Panic("sched_resched_next_is_not_READY")
               ELSE /\ process_switch_context(c, n, "resched", lists, counts)
                    /\ UNCHANGED priority
  BY Zenon DEF sched_leave
<1>2. pc[p] = "leaving" /\ ~InWindow(p) /\ p # Idle(c)
  BY ZenonT(60), <1>1, IdleFacts DEF At, InWindow
<1>3. Queue(c) # <<>> /\ Queue(c)[1] = p /\ cpu[p] = c
  BY ZenonT(30), <1>1, <1>2, RunningIsFirst
<1> DEFINE lists == RemovedLists(ready, p, c)
           counts == CountedDown(process_count, c)
           n == sched_pick_next(lists[c])
           R == Dropped(ReadyMap, p, c)
<1>4. /\ Lists(lists, R) /\ Counts(counts, R)
      /\ \A e \in Cpu \ {c} : lists[e] = ready[e]
  <2>1. Lists(ready, ReadyMap) /\ Counts(process_count, ReadyMap)
    BY Zenon, <1>0 DEF ListsInv
  <2>2. ready[c][NORMAL_LEVEL_MAX] # <<>> /\ p = ready[c][NORMAL_LEVEL_MAX][1]
    BY Zenon, <1>3 DEF Queue
  <2> QED BY <1>0, <2>1, <2>2, RemovedExact
<1>5. IF n = None THEN Panic("sched_pick_next_none")
      ELSE IF state[n] # "READY" THEN Panic("sched_resched_next_is_not_READY")
      ELSE /\ process_switch_context(c, n, "resched", lists, counts)
           /\ UNCHANGED priority
  BY Zenon, <1>1, <1>3 DEF RemovedLists, CountedDown
<1>6. /\ n = Idle(c) \/ (lists[c][NORMAL_LEVEL_MAX] # <<>> /\ n = lists[c][NORMAL_LEVEL_MAX][1])
      /\ n # p /\ n # None /\ state[n] = "READY"
  <2>1. n = IF lists[c][NORMAL_LEVEL_MAX] = <<>> THEN Idle(c) ELSE lists[c][NORMAL_LEVEL_MAX][1]
    BY Zenon, <1>4, PickedNext
  <2>2. CASE lists[c][NORMAL_LEVEL_MAX] = <<>>
    <3>1. n = Idle(c)
      BY Zenon, <2>1, <2>2
    <3> QED BY ZenonT(60), <1>0, <1>2, <3>1, IdleFacts DEF StateInv
  <2>3. CASE lists[c][NORMAL_LEVEL_MAX] # <<>>
    <3>1. n = lists[c][NORMAL_LEVEL_MAX][1]
      BY ZenonT(30), <2>1, <2>3
    <3>2. n \in R[c]
      BY <1>4, <2>3, <3>1, TopList
    <3>3. n \in ReadyMap[c] /\ n # p
      BY Zenon, <1>0, <3>2 DEF Dropped
    <3>4. n \in Proc /\ state[n] = "READY"
      BY ZenonT(60), <1>0, <3>3, ReadyFacts DEF TypeOK
    <3> QED BY ZenonT(60), <2>3, <3>1, <3>3, <3>4, IdleFacts
  <2> QED BY Zenon, <2>2, <2>3
<1> HIDE DEF lists, counts, n
<1>7. process_switch_context(c, n, "resched", lists, counts) /\ UNCHANGED priority
  BY Zenon, <1>5, <1>6
<1>8. SwitchFrom(c, n, "resched", lists, counts)
  BY ZenonT(60), <1>1, <1>2, <1>4, <1>6 DEF SwitchFrom, Dropped
<1> QED BY Zenon, <1>7, <1>8, SwitchInv

-----------------------------------------------------------------------------
(* The theorems *)


\* A set of naturals that is not empty has a least element.
LEMMA NatMin ==
  ASSUME NEW S \in SUBSET Nat, S # {}
  PROVE  \E x \in S : \A y \in S : x <= y
<1>1. IsWellFoundedOn(OpToRel(<, Nat), Nat)
  BY Zenon, NatLessThanWellFounded
<1>2. PICK x \in S : \A y \in S : <<y, x>> \notin OpToRel(<, Nat)
  BY Zenon, <1>1, WFMin
<1>3. \A y \in S : ~(y < x)
  BY Zenon, <1>2 DEF OpToRel
<1> QED BY <1>3

\* There are finitely many processes, at least one.
LEMMA ProcessFinite ==
  /\ IsFiniteSet(Process) /\ Cardinality(Process) \in Nat \ {0}
  /\ IsFiniteSet(Proc) /\ Cardinality(Proc) \in Nat
<1> DEFINE f == [c \in Cpu |-> Idle(c)]
<1>1. IsFiniteSet(Cpu)
  BY FS_Interval, SchedAssumption DEF Cpu
<1>2. f \in Surjection(Cpu, IdleProc)
  BY Zenon DEF Surjection, IdleProc
<1>3. IsFiniteSet(IdleProc)
  BY Zenon, <1>1, <1>2, FS_Surjection
<1>4. IsFiniteSet(Process)
  BY Zenon, <1>3, FS_Union, ProcAssumption DEF Process
<1>5. Process # {}
  BY Zenon, IdleFacts, LevelFacts
<1>6. Cardinality(Process) \in Nat /\ Cardinality(Process) # 0
  BY Zenon, <1>4, <1>5, FS_CardinalityType, FS_EmptySet
<1> QED BY ZenonT(60), <1>4, <1>6, FS_CardinalityType, ProcAssumption

\* The sizes of sets of processes, as the lemmas of SchedSteps use them.
LEMMA SetFactsHold == SetFacts
<1>1. \A S \in SUBSET Nat : S # {} => \E x \in S : \A y \in S : x <= y
  BY Zenon, NatMin
<1>2. ASSUME NEW S \in SUBSET Proc
      PROVE  /\ Cardinality(S) \in 0 .. Cardinality(Proc) /\ Cardinality(S) \in Nat
             /\ \A q \in Proc \ S : Cardinality(S \cup {q}) = Cardinality(S) + 1
             /\ \A q \in S : Cardinality(S \ {q}) = Cardinality(S) - 1
  <2>1. IsFiniteSet(S) /\ Cardinality(S) <= Cardinality(Proc)
    BY Zenon, FS_Subset, ProcAssumption
  <2>2. Cardinality(S) \in Nat /\ Cardinality(Proc) \in Nat
    BY Zenon, <2>1, FS_CardinalityType, ProcessFinite
  <2>3. \A q \in Proc \ S : Cardinality(S \cup {q}) = Cardinality(S) + 1
    BY Zenon, <2>1, FS_AddElement
  <2>4. \A q \in S : Cardinality(S \ {q}) = Cardinality(S) - 1
    BY Zenon, <2>1, FS_RemoveElement
  <2> QED BY <2>1, <2>2, <2>3, <2>4
<1>3. Cardinality({}) = 0 /\ \A p : Cardinality({p}) = 1
  BY Zenon, FS_EmptySet, FS_Singleton
<1>4. ASSUME NEW s \in Seq(Process), \A i, j \in 1 .. Len(s) : s[i] = s[j] => i = j
      PROVE  Len(s) <= Cardinality(Process)
  <2> DEFINE n == Len(s)
             f == [i \in 1 .. n |-> s[i]]
  <2>1. n \in Nat /\ \A i \in 1 .. n : s[i] \in Process
    OBVIOUS
  <2>2. f \in Injection(1 .. n, Process)
    BY Zenon, <1>4, <2>1 DEF Injection, IsInjective
  <2> HIDE DEF n, f
  <2>3. Cardinality(1 .. n) <= Cardinality(Process)
    BY Zenon, <2>2, FS_Injection, ProcessFinite
  <2>4. Cardinality(1 .. n) = n
    BY <2>1, FS_Interval
  <2> QED BY Zenon, <2>3, <2>4 DEF n
<1> QED BY ZenonT(60), <1>1, <1>2, <1>3, <1>4, ProcessFinite DEF SetFacts

\* The switch of sched_resched, or the return to the caller when it picked itself.
LEMMA ReschedSwitchInv ==
  ASSUME Good, NEW p \in Proc, ReschedSwitch(p)
  PROVE  IInv'
<1>0. /\ StateInv /\ ListsInv /\ PriorityInv /\ TypeOK /\ TargetInv /\ CurrentInv /\ PickInv
      /\ panic = "none"
  BY Zenon DEF Good
<1> DEFINE n == next[p].proc
<1>1. PICK c \in Cpu :
        /\ current[c] = p /\ next[p].checked
        /\ IF n # p
           THEN /\ process_switch_context(c, n, "resched", ready, process_count)
                /\ UNCHANGED priority
           ELSE /\ quantum' = [quantum EXCEPT ![c] = get_quantum(p)]
                /\ next' = [next EXCEPT ![p] = NoNext]
                /\ pc' = [pc EXCEPT ![p] = IF @ = "window" THEN "run" ELSE @]
                /\ panic' = (IF state[p] = "BLOCKED" THEN "futex_kwait_BLOCKED" ELSE "none")
                /\ UNCHANGED <<current, ready, process_count, state, priority, cpu, out,
                               target, isr>>
  BY Zenon DEF ReschedSwitch
<1>2. /\ n \in Process /\ state[n] = "READY"
      /\ \/ Queue(c) # <<>> /\ n = Queue(c)[1]
         \/ InWindow(p) /\ n = Idle(c)
  <2>1. PICK d \in Cpu : /\ current[d] = p /\ n \in Process /\ state[n] = "READY"
                         /\ \/ Queue(d) # <<>> /\ n = Queue(d)[1]
                            \/ InWindow(p) /\ n = Idle(d)
    BY ZenonT(60), <1>1, PickedIsReady
  <2>2. d = c
    BY <1>0, <1>1, <2>1 DEF CurrentInv
  <2> QED BY Zenon, <2>1, <2>2
<1>3. p \in Process /\ p \notin IdleProc /\ p # Idle(c)
  BY Zenon, IdleFacts
<1> HIDE DEF n
<1>4. n = p => Queue(c) # <<>> /\ p = Queue(c)[1]
  BY Zenon, <1>2, <1>3
<1>5. CASE n # p
  <2>1. InWindow(p) /\ pc[p] # "leaving"
    <3>1. InWindow(p)
      BY ZenonT(60), <1>1, <1>2, <1>5, RunningIsFirst
    <3> QED BY Zenon, <3>1 DEF InWindow
  <2>2. SwitchFrom(c, n, "resched", ready, process_count)
    BY ZenonT(60), <1>0, <1>1, <1>2, <1>3, <1>5, <2>1 DEF SwitchFrom, ListsInv, Queue
  <2> QED BY ZenonT(60), <1>1, <1>5, <2>2, SwitchInv
<1>6. CASE n = p
  <2>1. ReschedAgain(p, c)
    BY Zenon, <1>1, <1>6 DEF ReschedAgain
  <2> QED BY ZenonT(60), <1>1, <1>4, <1>6, <2>1, ReschedAgainInv
<1> QED BY Zenon, <1>5, <1>6

\* Every step keeps the invariant.
LEMMA NextInv ==
  ASSUME SetFacts, IInv, [Next]_vars
  PROVE  IInv'
<1>1. CASE UNCHANGED vars
  <2>1. ReadyMap' = ReadyMap
    BY Zenon, <1>1 DEF vars, ReadyMap, Runnable
  <2>2. ListsInv'
    BY Zenon, <1>1, <2>1, SameLists DEF vars, IInv
  <2>3. TypeOK' /\ AssertionsHold' /\ PriorityInv' /\ StateInv' /\ TargetInv'
    BY ZenonT(60), <1>1 DEF vars, IInv, TypeOK, AssertionsHold, PriorityInv, StateInv, TargetInv
  <2>4. \A e \in Cpu : Queue(e)' = Queue(e) /\ (InWindow(current[e])' <=> InWindow(current[e]))
    BY Zenon, <1>1 DEF vars, Queue, InWindow
  <2>5. CurrentInv => CurrentInv'
    BY <1>1, <2>4 DEF vars, CurrentInv
  <2>6. PickInv => PickInv'
    BY <1>1, <2>4 DEF vars, PickInv, InWindow
  <2> QED BY ZenonT(60), <1>1, <2>2, <2>3, <2>5, <2>6 DEF vars, IInv
<1>2. CASE Next
  <2>1. Good
    <3>1. panic = "none"
      <4>1. ASSUME NEW c \in Cpu, Tick(c) PROVE panic = "none"
        BY Zenon, <4>1 DEF Tick, TickPreempt, TickCount
      <4>2. ASSUME NEW p \in Proc,
                   \/ PickCpu(p) \/ __do_sched_set_ready(p) \/ sched_set_blocking(p)
                   \/ ReschedPick(p) \/ ReschedCheck(p) \/ ReschedSwitch(p)
                   \/ process_terminate(p) \/ process_raise_exception(p)
                   \/ __process_on_terminate(p) \/ sched_leave(p)
            PROVE  panic = "none"
        BY Zenon, <4>2 DEF PickCpu, __do_sched_set_ready, sched_set_blocking, ReschedPick,
           ReschedCheck, ReschedSwitch, process_terminate, process_raise_exception,
           __process_on_terminate, sched_leave, At
      <4> QED BY Zenon, <1>2, <4>1, <4>2 DEF Next
    <3> QED BY Zenon, <3>1 DEF Good, IInv
  <2>2. ASSUME NEW c \in Cpu, Tick(c) PROVE IInv'
    BY Zenon, <2>1, <2>2, TickPreemptInv, TickCountInv DEF Tick
  <2>3. ASSUME NEW p \in Proc, process_terminate(p) PROVE IInv'
    <3>1. /\ pc[p] = "run" /\ pc' = [pc EXCEPT ![p] = "terminating"]
          /\ UNCHANGED <<current, ready, process_count, state, priority, cpu, quantum, out,
                         target, next, isr, panic>>
      BY Zenon, <2>3 DEF process_terminate, At
    <3> QED BY ZenonT(60), <2>1, <3>1, PlaceInv
  <2>4. ASSUME NEW p \in Proc, __process_on_terminate(p) PROVE IInv'
    <3>1. /\ pc[p] = "terminating" /\ pc' = [pc EXCEPT ![p] = "leaving"]
          /\ UNCHANGED <<current, ready, process_count, state, priority, cpu, quantum, out,
                         target, next, isr, panic>>
      BY Zenon, <2>4 DEF __process_on_terminate, At
    <3> QED BY ZenonT(60), <2>1, <3>1, PlaceInv
  <2>5. ASSUME NEW p \in Proc, process_raise_exception(p) PROVE IInv'
    <3>1. PICK q \in Proc : \/ pc[q] = "run" /\ pc' = [pc EXCEPT ![q] = "doomed"]
                            \/ q \in Sleeper /\ pc' = [pc EXCEPT ![q] = "doomed_window"]
      BY Zenon, <2>5 DEF process_raise_exception
    <3>2. UNCHANGED <<current, ready, process_count, state, priority, cpu, quantum, out,
                      target, next, isr, panic>>
      BY Zenon, <2>5 DEF process_raise_exception
    <3>3. CASE pc[q] = "run" /\ pc' = [pc EXCEPT ![q] = "doomed"]
      BY Zenon, <2>1, <3>2, <3>3, PlaceInv
    <3>4. CASE q \in Sleeper /\ pc' = [pc EXCEPT ![q] = "doomed_window"]
      BY Zenon, <2>1, <3>2, <3>4, PlaceInv
    <3> QED BY ZenonT(60), <3>1, <3>3, <3>4
  <2>6. ASSUME NEW p \in Proc,
               \/ PickCpu(p) \/ __do_sched_set_ready(p) \/ sched_set_blocking(p)
               \/ ReschedPick(p) \/ ReschedCheck(p) \/ ReschedSwitch(p) \/ sched_leave(p)
        PROVE  IInv'
    BY ZenonT(60), <2>1, <2>6, PickCpuInv, SetReadyInv, SetBlockingInv, ReschedPickInv,
       ReschedCheckInv, ReschedSwitchInv, LeaveInv
  <2> QED BY ZenonT(60), <1>2, <2>2, <2>3, <2>4, <2>5, <2>6 DEF Next
<1> QED BY Zenon, <1>1, <1>2

-----------------------------------------------------------------------------
(* Theorems *)

\* The inductive invariant holds in every reachable state.
THEOREM Invariance == Spec => []IInv
<1>1. Init => IInv
  BY Zenon, InitInv, SetFactsHold
<1>2. IInv /\ [Next]_vars => IInv'
  BY Zenon, NextInv, SetFactsHold
<1> QED BY <1>1, <1>2, PTL DEF Spec

\* The ready lists of every processor hold exactly the processes that may run there,
\* each once, and the idle process; the counts that sched_pick_cpu balances by are
\* exact; and an EXITED process is in no list, runs nowhere and will not be picked.
THEOREM QueuesExact == Spec => []QueuesAreExact
<1>1. IInv => QueuesAreExact
  BY Zenon, ExactFromInv, SetFactsHold
<1> QED BY <1>1, Invariance, PTL

\* No assertion of the scheduler fails and no list node is inserted twice, whatever
\* the number of processes and processors; only the race between a wakeup and the
\* saving of the sleeper's context is left.
THEOREM NoAssertionFails == Spec => []AssertionsHold
<1>1. IInv => AssertionsHold
  BY Zenon DEF IInv
<1> QED BY <1>1, Invariance, PTL

\* A process runs until it blocks: it stays the first of its processor's lists, and
\* the tick interrupts only the idle process and runs the highest level.
THEOREM RunsUntilBlocked == Spec => RunsUntilItBlocks
<1>1. IInv => CurrentIsFirst
  <2> SUFFICES ASSUME IInv, NEW c \in Cpu, panic = "none", current[c] \in Proc, ~InWindow(current[c])
               PROVE  sched_pick_next(ready[c]) = current[c]
    BY Zenon DEF CurrentIsFirst, InWindow
  <2>1. Queue(c) # <<>> /\ Queue(c)[1] = current[c]
    BY Zenon DEF IInv, CurrentInv
  <2> QED BY Zenon, <2>1, PickedNext DEF IInv, ListsInv, Queue
<1>2. IInv /\ IInv' /\ [Next]_vars => TickInterruptsIdleOnly /\ TickRunsHighest
  BY Zenon, TickFacts, SetFactsHold DEF TickInterruptsIdleOnly, TickRunsHighest
<1> QED BY <1>1, <1>2, Invariance, PTL DEF RunsUntilItBlocks, Spec
=============================================================================
