----------------------------- MODULE ProcProofs -----------------------------
(***************************************************************************)
(* Theorems about Proc, for any set of processes: however spawn, exit,     *)
(* reparenting and wait interleave, the processes stay a tree, as long as  *)
(* the kernel has not panicked.                                            *)
(***************************************************************************)
EXTENDS Proc, TLAPS

\* The places at which a process has its own mutex.
Holds == {"spawn", "exit", "own", "both", "counted", "any_scan", "one"}

\* Who has which mutex: a process at one of these places its own, and one that reparents
\* its children that of its parent as well.  No process has any other, and none has its
\* own elsewhere, except after a failed spawn (which returns with it) until the next call.
LockInv ==
    \A p \in Procs :
        /\ pc[p] \in Holds => owner[p] = p
        /\ pc[p] = "both" => owner[parent[p]] = p
        /\ \A m \in Procs : owner[m] = p => \/ m = p /\ pc[p] \in Holds \cup {"user", "terminate", "any"}
                                            \/ m = parent[p] /\ pc[p] = "both"

\* The root has no parent and never gets past the panic of __process_on_terminate.
RootInv == /\ parent[Root] = None
           /\ pc[Root] \notin {"unborn", "own", "both", "counted", "leave", "zombie", "destroyed"}

\* A process that has given its children away gets no more.
ExitInv ==
    \A p \in Procs :
        /\ exited[p] <=> pc[p] \in {"zombie", "destroyed"}
        /\ pc[p] \in {"counted", "leave", "zombie", "destroyed"} => children[p] = <<>>
        /\ pc[p] = "both" => parent[p] # p

\* A process has found a child only within its wait, and destroys one that has exited.
FoundInv ==
    \A p \in Procs :
        /\ proc[p] # None => pc[p] \in {"any_sleep", "any_loop", "state", "destroy"}
        /\ pc[p] \in {"state", "destroy"} => proc[p] # None
        /\ pc[p] = "destroy" => exited[proc[p]]

Good == /\ TypeOK /\ panic = "none"
        /\ LockInv /\ RootInv /\ ExitInv /\ FoundInv
        /\ ParentsAgree /\ DescendFromRoot /\ FoundStaysMine

\* The inductive invariant.
IInv == /\ TypeOK
        /\ panic # "destroyed_process_has_children"
        /\ panic = "none" => Good

\* It holds at first: the root is alone.
LEMMA InitInv == ASSUME Init PROVE IInv
<1>1. TypeOK
  BY RootAssumption DEF Init, TypeOK, Place
<1>2. LockInv
  BY Zenon, NoneAssumption DEF Init, LockInv, Holds
<1>3. RootInv
  BY Zenon, RootAssumption DEF Init, RootInv
<1>4. ExitInv
  BY Zenon DEF Init, ExitInv
<1>5. FoundInv
  BY Zenon DEF Init, FoundInv
<1>6. ParentsAgree
  BY NoneAssumption DEF Init, ParentsAgree, There, Lists
<1>7. DescendFromRoot
  BY Zenon DEF Init, DescendFromRoot, There
<1>8. FoundStaysMine
  BY Zenon DEF Init, FoundStaysMine
<1> QED BY Zenon, <1>1, <1>2, <1>3, <1>4, <1>5, <1>6, <1>7, <1>8 DEF IInv, Good, Init

-----------------------------------------------------------------------------
(* Steps that leave parents and lists of children alone *)

\* A step that changes no parent and no list, lets no process come or go, and lets none
\* exit but one without children, keeps the family.
LEMMA FamilyKept ==
  ASSUME ParentsAgree, DescendFromRoot, UNCHANGED family,
         \A q \in Procs : There(q)' <=> There(q),
         \A q \in Procs : exited'[q] => exited[q] \/ children[q] = <<>>
  PROVE  ParentsAgree' /\ DescendFromRoot'
<1>1. \A q, c \in Procs : Lists(q, c)' <=> Lists(q, c)
  BY Zenon DEF family, Lists
<1>2. ASSUME NEW c \in Procs \ {Root}, There(c)'
      PROVE  parent'[c] \in Procs /\ There(parent[c]) /\ ~exited'[parent[c]] /\ parent'[c] = parent[c]
  <2>1. There(c) /\ parent'[c] = parent[c]
    BY Zenon, <1>2 DEF family
  <2>2. /\ parent[c] \in Procs /\ There(parent[c]) /\ ~exited[parent[c]]
        /\ Lists(parent[c], c)
    BY Zenon, <2>1 DEF ParentsAgree
  <2>3. children[parent[c]] # <<>>
    BY <2>2 DEF Lists
  <2> QED BY Zenon, <2>1, <2>2, <2>3
<1>3. \A c \in Procs \ {Root} : There(c)' => /\ parent'[c] \in Procs /\ There(parent[c])'
                                             /\ ~exited'[parent'[c]]
  BY Zenon, <1>2 DEF There
<1>4. \A q, c \in Procs : Lists(q, c)' <=> There(c)' /\ parent'[c] = q
  BY Zenon, <1>1 DEF family, ParentsAgree
<1>5. \A q \in Procs : \A i, j \in 1 .. Len(children'[q]) : children'[q][i] = children'[q][j] => i = j
  BY Zenon DEF family, ParentsAgree
<1>6. {c \in Procs \ {Root} : There(c)'} = {c \in Procs \ {Root} : There(c)}
  BY Zenon
<1>7. DescendFromRoot'
  BY Zenon, <1>6 DEF DescendFromRoot, family
<1> QED BY Zenon, <1>3, <1>4, <1>5, <1>7 DEF ParentsAgree, There

\* The same for a process that moves from one place to another.
LEMMA MoveKeepsFamily ==
  ASSUME Good, NEW p \in Procs, NEW to \in Place \ {"unborn", "destroyed"}, There(p),
         pc' = [pc EXCEPT ![p] = to], UNCHANGED family, exited' = exited
  PROVE  ParentsAgree' /\ DescendFromRoot'
<1>1. \A q \in Procs : There(q)' <=> There(q)
  BY Zenon DEF Good, TypeOK, There
<1> QED BY Zenon, <1>1, FamilyKept DEF Good
\* Taking one's own mutex at the beginning of a call.
LEMMA CallInv ==
  ASSUME Good, NEW p \in Procs, NEW name \in {"spawn", "exit", "one"}, Call(p, name)
  PROVE  IInv'
<1>0. TypeOK /\ LockInv /\ RootInv /\ ExitInv /\ FoundInv /\ FoundStaysMine /\ panic = "none"
  BY Zenon DEF Good
<1>1. /\ pc[p] = "user" /\ pc' = [pc EXCEPT ![p] = name]
      /\ UNCHANGED <<family, words, locals, asleep>>
      /\ mutex_acquire(p, p)
  BY Zenon DEF Call, Goes, At
<1>a. name \in Place
  BY Zenon DEF Place
<1>b. owner' \in [Procs -> Procs \cup {None}] /\ panic' \in {"none", "mutex_acquired_twice"}
  <2>1. CASE owner' = [owner EXCEPT ![p] = p] /\ UNCHANGED panic
    BY Zenon, <1>0, <2>1 DEF TypeOK
  <2>2. CASE UNCHANGED owner /\ panic' = "mutex_acquired_twice"
    BY Zenon, <1>0, <2>2 DEF TypeOK
  <2> QED BY Zenon, <1>1, <2>1, <2>2 DEF mutex_acquire
<1>2. TypeOK' /\ panic' \in {"none", "mutex_acquired_twice"}
  BY Zenon, <1>0, <1>1, <1>a, <1>b DEF TypeOK, family, words, locals
<1>3. ASSUME panic' = "none" PROVE Good'
  <2>1. owner[p] = None /\ owner' = [owner EXCEPT ![p] = p]
    BY Zenon, <1>1, <1>3 DEF mutex_acquire
  <2>2. LockInv'
    BY <1>0, <1>1, <2>1, NoneAssumption DEF TypeOK, LockInv, Holds, family
  <2>3. RootInv' /\ ExitInv'
    BY <1>0, <1>1 DEF TypeOK, RootInv, ExitInv, family, words
  <2>4. FoundInv'
    BY Zenon, <1>0, <1>1 DEF TypeOK, FoundInv, words, locals
  <2>5. ParentsAgree' /\ DescendFromRoot'
    BY Zenon, <1>0, <1>1, MoveKeepsFamily DEF There, Place, words
  <2>6. FoundStaysMine'
    BY <1>0, <1>1 DEF TypeOK, FoundStaysMine, There, family, locals
  <2> QED BY Zenon, <1>2, <1>3, <2>2, <2>3, <2>4, <2>5, <2>6 DEF Good
<1> QED BY Zenon, <1>2, <1>3 DEF IInv

\* syscall_process_exit once it has the mutex.
LEMMA ExitInvStep ==
  ASSUME Good, NEW p \in Procs, Exit(p)
  PROVE  IInv'
<1>0. TypeOK /\ LockInv /\ RootInv /\ ExitInv /\ FoundInv /\ FoundStaysMine /\ panic = "none"
  BY Zenon DEF Good
<1>1. /\ pc[p] = "exit" /\ pc' = [pc EXCEPT ![p] = "terminate"]
      /\ terminate_flag' = [terminate_flag EXCEPT ![p] = TRUE]
      /\ UNCHANGED <<family, exited, exited_child_count, locals, asleep>>
      /\ owner' = [owner EXCEPT ![p] = None]
  BY Zenon DEF Exit, Goes, At, process_terminate, mutex_release
<1>2. panic' = "none"
  BY Zenon, <1>0, <1>1 DEF LockInv, Holds, Exit, mutex_release
<1>3. TypeOK'
  BY Zenon, <1>0, <1>1 DEF TypeOK, family, locals, Place
<1>4. LockInv'
  BY <1>0, <1>1, NoneAssumption DEF TypeOK, LockInv, Holds, family
<1>5. RootInv' /\ ExitInv'
  BY <1>0, <1>1 DEF TypeOK, RootInv, ExitInv, family
<1>6. FoundInv'
  BY Zenon, <1>0, <1>1 DEF TypeOK, FoundInv, locals
<1>7. ParentsAgree' /\ DescendFromRoot'
  BY Zenon, <1>0, <1>1, MoveKeepsFamily DEF There, Place
<1>8. FoundStaysMine'
  BY <1>0, <1>1 DEF TypeOK, FoundStaysMine, There, family, locals
<1> QED BY Zenon, <1>2, <1>3, <1>4, <1>5, <1>6, <1>7, <1>8 DEF IInv, Good

\* An exception in user mode.
LEMMA RaiseInv ==
  ASSUME Good, NEW p \in Procs, process_raise_exception(p)
  PROVE  IInv'
<1>0. TypeOK /\ LockInv /\ RootInv /\ ExitInv /\ FoundInv /\ FoundStaysMine /\ panic = "none"
  BY Zenon DEF Good
<1>1. /\ pc[p] = "user" /\ pc' = [pc EXCEPT ![p] = "terminate"]
      /\ terminate_flag' = [terminate_flag EXCEPT ![p] = TRUE]
      /\ UNCHANGED <<owner, panic, family, exited, exited_child_count, locals, asleep>>
  BY Zenon DEF process_raise_exception, Goes, At, process_terminate
<1>3. TypeOK'
  BY Zenon, <1>0, <1>1 DEF TypeOK, family, locals, Place
<1>4. LockInv'
  BY <1>0, <1>1 DEF TypeOK, LockInv, Holds, family
<1>5. RootInv' /\ ExitInv'
  BY <1>0, <1>1 DEF TypeOK, RootInv, ExitInv, family
<1>6. FoundInv'
  BY Zenon, <1>0, <1>1 DEF TypeOK, FoundInv, locals
<1>7. ParentsAgree' /\ DescendFromRoot'
  BY Zenon, <1>0, <1>1, MoveKeepsFamily DEF There, Place
<1>8. FoundStaysMine'
  BY <1>0, <1>1 DEF TypeOK, FoundStaysMine, There, family, locals
<1> QED BY Zenon, <1>0, <1>1, <1>3, <1>4, <1>5, <1>6, <1>7, <1>8 DEF IInv, Good

\* The first mutex of __process_on_terminate, and its panic for the root.
LEMMA TerminateLockInv ==
  ASSUME Good, NEW p \in Procs, TerminateLock(p)
  PROVE  IInv'
<1>0. TypeOK /\ LockInv /\ RootInv /\ ExitInv /\ FoundInv /\ FoundStaysMine /\ panic = "none"
  BY Zenon DEF Good
<1>1. /\ pc[p] = "terminate" /\ pc' = [pc EXCEPT ![p] = "own"]
      /\ UNCHANGED <<family, words, locals, asleep>>
      /\ IF parent[p] = None THEN panic' = "NULL_parent_terminated" /\ UNCHANGED owner
         ELSE mutex_acquire(p, p)
  BY Zenon DEF TerminateLock, Goes, At
<1>2. TypeOK' /\ panic' \in {"none", "mutex_acquired_twice", "NULL_parent_terminated"}
  BY Zenon, <1>0, <1>1 DEF TypeOK, mutex_acquire, family, words, locals, Place
<1>3. ASSUME panic' = "none" PROVE Good'
  <2>1. parent[p] # None /\ owner[p] = None /\ owner' = [owner EXCEPT ![p] = p]
    BY Zenon, <1>1, <1>3 DEF mutex_acquire
  <2>2. LockInv'
    BY <1>0, <1>1, <2>1, NoneAssumption DEF TypeOK, LockInv, Holds, family
  <2>3. RootInv' /\ ExitInv'
    BY <1>0, <1>1, <2>1 DEF TypeOK, RootInv, ExitInv, family, words
  <2>4. FoundInv'
    BY Zenon, <1>0, <1>1 DEF TypeOK, FoundInv, words, locals
  <2>5. ParentsAgree' /\ DescendFromRoot'
    BY Zenon, <1>0, <1>1, MoveKeepsFamily DEF There, Place, words
  <2>6. FoundStaysMine'
    BY <1>0, <1>1 DEF TypeOK, FoundStaysMine, There, family, locals
  <2> QED BY Zenon, <1>2, <1>3, <2>2, <2>3, <2>4, <2>5, <2>6 DEF Good
<1> QED BY Zenon, <1>2, <1>3 DEF IInv

\* A terminating process that is there has a parent.
LEMMA HasParent ==
  ASSUME Good, NEW p \in Procs, pc[p] \in {"own", "both", "counted", "leave", "zombie"}
  PROVE  p # Root /\ parent[p] \in Procs /\ There(parent[p]) /\ There(p)
<1>1. p # Root /\ There(p)
  BY Zenon DEF Good, RootInv, There
<1> QED BY Zenon, <1>1 DEF Good, ParentsAgree

\* The second: the mutex of the parent.
LEMMA TerminateLockParentInv ==
  ASSUME Good, NEW p \in Procs, TerminateLockParent(p)
  PROVE  IInv'
<1>0. TypeOK /\ LockInv /\ RootInv /\ ExitInv /\ FoundInv /\ FoundStaysMine /\ panic = "none"
  BY Zenon DEF Good
<1>1. /\ pc[p] = "own" /\ pc' = [pc EXCEPT ![p] = "both"]
      /\ UNCHANGED <<family, words, locals, asleep>>
      /\ mutex_acquire(p, parent[p])
  BY Zenon DEF TerminateLockParent, Goes, At
<1>a. p # Root /\ parent[p] \in Procs
  BY Zenon, <1>1, HasParent
<1>2. TypeOK' /\ panic' \in {"none", "mutex_acquired_twice"}
  BY Zenon, <1>0, <1>1, <1>a DEF TypeOK, mutex_acquire, family, words, locals, Place
<1>3. ASSUME panic' = "none" PROVE Good'
  <2>1. owner[parent[p]] = None /\ owner' = [owner EXCEPT ![parent[p]] = p]
    BY Zenon, <1>1, <1>3 DEF mutex_acquire
  <2>a. owner[p] = p /\ parent[p] # p
    BY Zenon, <1>0, <1>1, <2>1, NoneAssumption DEF LockInv, Holds
  <2>2. LockInv'
    <3>1. ASSUME NEW q \in Procs, pc'[q] \in Holds PROVE owner'[q] = q
      BY <1>0, <1>1, <1>a, <2>1, <2>a, <3>1, NoneAssumption DEF TypeOK, LockInv, Holds
    <3>2. ASSUME NEW q \in Procs, pc'[q] = "both" PROVE owner'[parent'[q]] = q
      <4>1. CASE q = p
        BY Zenon, <1>0, <1>1, <1>a, <2>1, <4>1 DEF TypeOK, family
      <4>2. CASE q # p
        <5>1. pc[q] = "both" /\ owner[parent[q]] = q
          BY <1>0, <1>1, <3>2, <4>2 DEF TypeOK, LockInv
        <5> QED BY <1>0, <1>1, <1>a, <2>1, <5>1, NoneAssumption DEF TypeOK, family
      <4> QED BY Zenon, <4>1, <4>2
    <3>3. ASSUME NEW q \in Procs, NEW m \in Procs, owner'[m] = q
          PROVE  \/ m = q /\ pc'[q] \in Holds \cup {"user", "terminate", "any"}
                 \/ m = parent'[q] /\ pc'[q] = "both"
      BY <1>0, <1>1, <1>a, <2>1, <2>a, <3>3, NoneAssumption DEF TypeOK, LockInv, Holds, family
    <3> QED BY Zenon, <3>1, <3>2, <3>3 DEF LockInv
  <2>3. RootInv' /\ ExitInv'
    BY <1>0, <1>1, <1>a, <2>a DEF TypeOK, RootInv, ExitInv, family, words
  <2>4. FoundInv'
    BY Zenon, <1>0, <1>1 DEF TypeOK, FoundInv, words, locals
  <2>5. ParentsAgree' /\ DescendFromRoot'
    BY Zenon, <1>0, <1>1, MoveKeepsFamily DEF There, Place, words
  <2>6. FoundStaysMine'
    BY <1>0, <1>1 DEF TypeOK, FoundStaysMine, There, family, locals
  <2> QED BY Zenon, <1>2, <1>3, <2>2, <2>3, <2>4, <2>5, <2>6 DEF Good
<1> QED BY Zenon, <1>2, <1>3 DEF IInv
\* The count of exits, and the parent's mutex is given back.
LEMMA CountExitInv ==
  ASSUME Good, NEW p \in Procs, CountExit(p)
  PROVE  IInv'
<1>0. TypeOK /\ LockInv /\ RootInv /\ ExitInv /\ FoundInv /\ FoundStaysMine /\ panic = "none"
  BY Zenon DEF Good
<1>1. /\ pc[p] = "both" /\ pc' = [pc EXCEPT ![p] = "counted"] /\ children[p] = <<>>
      /\ UNCHANGED <<family, terminate_flag, exited, locals>>
      /\ exited_child_count' = [exited_child_count EXCEPT ![parent[p]] = @ + 1]
      /\ asleep' = [asleep EXCEPT ![parent[p]] = IF @ = "count" THEN "no" ELSE @]
      /\ owner' = [owner EXCEPT ![parent[p]] = None]
      /\ panic' = IF owner[parent[p]] # p THEN "invalid_release" ELSE panic
  BY Zenon DEF CountExit, Goes, At, Wake, mutex_release
<1>a. p # Root /\ parent[p] \in Procs /\ parent[p] # p /\ owner[parent[p]] = p
  BY Zenon, <1>0, <1>1, HasParent DEF ExitInv, LockInv
<1>2. panic' = "none"
  BY Zenon, <1>0, <1>1, <1>a
<1>3. TypeOK'
  <2>1. exited_child_count' \in [Procs -> Nat] /\ asleep' \in [Procs -> {"no", "count", "state"}]
    BY <1>0, <1>1, <1>a DEF TypeOK
  <2> QED BY Zenon, <1>0, <1>1, <1>a, <2>1 DEF TypeOK, family, locals, Place
<1>4. LockInv'
  BY <1>0, <1>1, <1>a, NoneAssumption DEF TypeOK, LockInv, Holds, family
<1>5. RootInv' /\ ExitInv'
  BY <1>0, <1>1, <1>a DEF TypeOK, RootInv, ExitInv, family
<1>6. FoundInv'
  BY Zenon, <1>0, <1>1 DEF TypeOK, FoundInv, locals
<1>7. ParentsAgree' /\ DescendFromRoot'
  BY Zenon, <1>0, <1>1, MoveKeepsFamily DEF There, Place
<1>8. FoundStaysMine'
  BY <1>0, <1>1 DEF TypeOK, FoundStaysMine, There, family, locals
<1> QED BY Zenon, <1>2, <1>3, <1>4, <1>5, <1>6, <1>7, <1>8 DEF IInv, Good

\* Its own mutex is given back.
LEMMA TerminateUnlockInv ==
  ASSUME Good, NEW p \in Procs, TerminateUnlock(p)
  PROVE  IInv'
<1>0. TypeOK /\ LockInv /\ RootInv /\ ExitInv /\ FoundInv /\ FoundStaysMine /\ panic = "none"
  BY Zenon DEF Good
<1>1. /\ pc[p] = "counted" /\ pc' = [pc EXCEPT ![p] = "leave"]
      /\ UNCHANGED <<family, words, locals, asleep>>
      /\ owner' = [owner EXCEPT ![p] = None]
      /\ panic' = IF owner[p] # p THEN "invalid_release" ELSE panic
  BY Zenon DEF TerminateUnlock, Goes, At, mutex_release
<1>2. panic' = "none" /\ p # Root
  BY Zenon, <1>0, <1>1, HasParent DEF LockInv, Holds
<1>3. TypeOK'
  BY Zenon, <1>0, <1>1 DEF TypeOK, family, words, locals, Place
<1>4. LockInv'
  BY <1>0, <1>1, NoneAssumption DEF TypeOK, LockInv, Holds, family
<1>5. RootInv' /\ ExitInv'
  BY <1>0, <1>1, <1>2 DEF TypeOK, RootInv, ExitInv, family, words
<1>6. FoundInv'
  BY Zenon, <1>0, <1>1 DEF TypeOK, FoundInv, words, locals
<1>7. ParentsAgree' /\ DescendFromRoot'
  BY Zenon, <1>0, <1>1, MoveKeepsFamily DEF There, Place, words
<1>8. FoundStaysMine'
  BY <1>0, <1>1 DEF TypeOK, FoundStaysMine, There, family, locals
<1> QED BY Zenon, <1>2, <1>3, <1>4, <1>5, <1>6, <1>7, <1>8 DEF IInv, Good

\* The process becomes EXITED; it has no children left.
LEMMA LeaveInv ==
  ASSUME Good, NEW p \in Procs, Leave(p)
  PROVE  IInv'
<1>0. TypeOK /\ LockInv /\ RootInv /\ ExitInv /\ FoundInv /\ FoundStaysMine /\ panic = "none"
      /\ ParentsAgree /\ DescendFromRoot
  BY Zenon DEF Good
<1>1. /\ pc[p] = "leave" /\ pc' = [pc EXCEPT ![p] = "zombie"]
      /\ exited' = [exited EXCEPT ![p] = TRUE]
      /\ asleep' = asleep \/ Wake(parent[p], "state")
      /\ UNCHANGED <<owner, panic, family, terminate_flag, exited_child_count, locals>>
  BY Zenon DEF Leave, Goes, At
<1>a. p # Root /\ parent[p] \in Procs /\ children[p] = <<>>
  BY Zenon, <1>0, <1>1, HasParent DEF ExitInv
<1>3. TypeOK'
  <2>1. asleep' \in [Procs -> {"no", "count", "state"}]
    BY Zenon, <1>0, <1>1, <1>a DEF TypeOK, Wake
  <2> QED BY Zenon, <1>0, <1>1, <2>1 DEF TypeOK, family, locals, Place
<1>4. LockInv'
  BY <1>0, <1>1 DEF TypeOK, LockInv, Holds, family
<1>5. RootInv' /\ ExitInv'
  <2>1. exited'[p] /\ pc'[p] = "zombie"
    BY Zenon, <1>0, <1>1 DEF TypeOK
  <2>a. \A q \in Procs \ {p} : (exited'[q] <=> exited[q]) /\ pc'[q] = pc[q]
    BY Zenon, <1>0, <1>1 DEF TypeOK
  <2>2. RootInv'
    BY Zenon, <1>0, <1>1, <1>a, <2>a, RootAssumption DEF RootInv, family
  <2>3. ExitInv'
    BY <1>0, <1>1, <1>a, <2>1, <2>a DEF ExitInv, family
  <2> QED BY Zenon, <2>2, <2>3
<1>6. FoundInv'
  BY <1>0, <1>1 DEF TypeOK, FoundInv, locals
<1>b. \A q \in Procs : There(q)' <=> There(q)
  BY Zenon, <1>0, <1>1 DEF TypeOK, There
<1>c. \A q \in Procs : exited'[q] => exited[q] \/ children[q] = <<>>
  BY Zenon, <1>0, <1>1, <1>a DEF TypeOK
<1>7. ParentsAgree' /\ DescendFromRoot'
  BY Zenon, <1>0, <1>1, <1>b, <1>c, FamilyKept
<1>8. FoundStaysMine'
  BY <1>0, <1>1 DEF TypeOK, FoundStaysMine, There, family, locals
<1> QED BY Zenon, <1>0, <1>1, <1>3, <1>4, <1>5, <1>6, <1>7, <1>8 DEF IInv, Good

-----------------------------------------------------------------------------
(* syscall_process_wait *)

\* The count is read.
LEMMA WaitAnyInv ==
  ASSUME Good, NEW p \in Procs, NEW from \in {"user", "any_loop"}, WaitAny(p, from),
         from = "any_loop" => proc[p] = None
  PROVE  IInv'
<1>0. TypeOK /\ LockInv /\ RootInv /\ ExitInv /\ FoundInv /\ FoundStaysMine /\ panic = "none"
  BY Zenon DEF Good
<1>1. /\ pc[p] = from /\ pc' = [pc EXCEPT ![p] = "any"]
      /\ val' = [val EXCEPT ![p] = exited_child_count[p]]
      /\ UNCHANGED <<owner, panic, asleep, family, words, proc>>
  BY Zenon DEF WaitAny, Goes, At
<1>3. TypeOK'
  BY Zenon, <1>0, <1>1 DEF TypeOK, family, words, Place
<1>4. LockInv'
  BY <1>0, <1>1 DEF TypeOK, LockInv, Holds, family
<1>5. RootInv' /\ ExitInv'
  BY <1>0, <1>1 DEF TypeOK, RootInv, ExitInv, family, words
<1>6. FoundInv'
  BY <1>0, <1>1 DEF TypeOK, FoundInv, words
<1>7. ParentsAgree' /\ DescendFromRoot'
  BY Zenon, <1>0, <1>1, MoveKeepsFamily DEF There, Place, words
<1>8. FoundStaysMine'
  BY <1>0, <1>1 DEF TypeOK, FoundStaysMine, There, family
<1> QED BY Zenon, <1>0, <1>1, <1>3, <1>4, <1>5, <1>6, <1>7, <1>8 DEF IInv, Good

\* The mutex for the scan.
LEMMA WaitAnyLockInv ==
  ASSUME Good, NEW p \in Procs, WaitAnyLock(p)
  PROVE  IInv'
<1>0. TypeOK /\ LockInv /\ RootInv /\ ExitInv /\ FoundInv /\ FoundStaysMine /\ panic = "none"
  BY Zenon DEF Good
<1>1. /\ pc[p] = "any" /\ pc' = [pc EXCEPT ![p] = "any_scan"]
      /\ UNCHANGED <<family, words, locals, asleep>>
      /\ mutex_acquire(p, p)
  BY Zenon DEF WaitAnyLock, Goes, At
<1>a. owner' \in [Procs -> Procs \cup {None}] /\ panic' \in {"none", "mutex_acquired_twice"}
  <2>1. CASE owner' = [owner EXCEPT ![p] = p] /\ UNCHANGED panic
    BY Zenon, <1>0, <2>1 DEF TypeOK
  <2>2. CASE UNCHANGED owner /\ panic' = "mutex_acquired_twice"
    BY Zenon, <1>0, <2>2 DEF TypeOK
  <2> QED BY Zenon, <1>1, <2>1, <2>2 DEF mutex_acquire
<1>2. TypeOK' /\ panic' \in {"none", "mutex_acquired_twice"}
  BY Zenon, <1>0, <1>1, <1>a DEF TypeOK, family, words, locals, Place
<1>3. ASSUME panic' = "none" PROVE Good'
  <2>1. owner[p] = None /\ owner' = [owner EXCEPT ![p] = p]
    BY Zenon, <1>1, <1>3 DEF mutex_acquire
  <2>2. LockInv'
    BY <1>0, <1>1, <2>1, NoneAssumption DEF TypeOK, LockInv, Holds, family
  <2>3. RootInv' /\ ExitInv'
    BY <1>0, <1>1 DEF TypeOK, RootInv, ExitInv, family, words
  <2>4. FoundInv'
    BY <1>0, <1>1 DEF TypeOK, FoundInv, words, locals
  <2>5. ParentsAgree' /\ DescendFromRoot'
    BY Zenon, <1>0, <1>1, MoveKeepsFamily DEF There, Place, words
  <2>6. FoundStaysMine'
    BY <1>0, <1>1 DEF TypeOK, FoundStaysMine, There, family, locals
  <2> QED BY Zenon, <1>2, <1>3, <2>2, <2>3, <2>4, <2>5, <2>6 DEF Good
<1> QED BY Zenon, <1>2, <1>3 DEF IInv

\* What a scan of the list finds is a child of the process whose list it is.
LEMMA ScannedIsChild ==
  ASSUME Good, NEW p \in Procs, NEW i \in 1 .. Len(children[p])
  PROVE  /\ children[p][i] \in Procs /\ There(children[p][i])
         /\ parent[children[p][i]] = p
<1>1. children[p][i] \in Procs
  BY DEF Good, TypeOK
<1>2. Lists(p, children[p][i])
  BY Zenon DEF Lists
<1> QED BY Zenon, <1>1, <1>2 DEF Good, ParentsAgree

\* The two scans: the process gives its mutex back, and has found nothing or a child.
LEMMA ScanInv ==
  ASSUME Good, NEW p \in Procs, NEW from \in {"any_scan", "one"},
         NEW to \in {"any_sleep", "state", "user"}, NEW x,
         pc[p] = from, pc' = [pc EXCEPT ![p] = to], mutex_release(p, p),
         proc' = [proc EXCEPT ![p] = x],
         x = None \/ (to # "user" /\ \E i \in 1 .. Len(children[p]) : x = children[p][i]),
         to = "state" => x # None,
         UNCHANGED <<family, words, val, asleep>>
  PROVE  IInv'
<1>0. TypeOK /\ LockInv /\ RootInv /\ ExitInv /\ FoundInv /\ FoundStaysMine /\ panic = "none"
  BY Zenon DEF Good
<1>1. /\ owner' = [owner EXCEPT ![p] = None] /\ owner[p] = p
  BY Zenon, <1>0 DEF mutex_release, LockInv, Holds
<1>2. panic' = "none"
  BY Zenon, <1>0, <1>1 DEF mutex_release
<1>a. x # None => x \in Procs /\ There(x) /\ parent[x] = p
  BY ScannedIsChild
<1>b. to \in Place \ {"unborn", "destroyed"} /\ There(p)
  BY Zenon DEF Place, There
<1>3. TypeOK'
  BY Zenon, <1>0, <1>1, <1>a, <1>b DEF TypeOK, family, words
<1>4. LockInv'
  BY <1>0, <1>1, NoneAssumption DEF TypeOK, LockInv, Holds, family
<1>5. RootInv' /\ ExitInv'
  BY <1>0, <1>1 DEF TypeOK, RootInv, ExitInv, family, words
<1>6. FoundInv'
  BY <1>0, <1>1 DEF TypeOK, FoundInv, words
<1>7. ParentsAgree' /\ DescendFromRoot'
  BY Zenon, <1>0, <1>b, MoveKeepsFamily DEF words
<1>8. FoundStaysMine'
  <2>1. ASSUME NEW q \in Procs, proc'[q] # None PROVE There(proc'[q]) /\ parent[proc'[q]] = q /\ proc'[q] \in Procs
    BY <1>0, <1>a, <2>1 DEF TypeOK, FoundStaysMine
  <2>2. \A q \in Procs : There(q) => pc'[q] \notin {"unborn", "destroyed"}
    BY Zenon, <1>0, <1>b DEF TypeOK, There
  <2> QED BY Zenon, <2>1, <2>2 DEF FoundStaysMine, There, family
<1> QED BY Zenon, <1>2, <1>3, <1>4, <1>5, <1>6, <1>7, <1>8 DEF IInv, Good
LEMMA WaitAnyScanInv ==
  ASSUME Good, NEW p \in Procs, WaitAnyScan(p)
  PROVE  IInv'
<1>1. /\ pc[p] = "any_scan" /\ pc' = [pc EXCEPT ![p] = "any_sleep"] /\ mutex_release(p, p)
      /\ UNCHANGED <<family, words, val, asleep>>
  BY Zenon DEF WaitAnyScan, Goes, At
<1>2. \E x : /\ proc' = [proc EXCEPT ![p] = x]
             /\ x = None \/ \E i \in 1 .. Len(children[p]) : x = children[p][i]
  BY Zenon DEF WaitAnyScan
<1>3. PICK x : /\ proc' = [proc EXCEPT ![p] = x]
               /\ x = None \/ \E i \in 1 .. Len(children[p]) : x = children[p][i]
  BY Zenon, <1>2
<1> QED BY Zenon, <1>1, <1>3, ScanInv

\* The wait for one child returns if it finds none.
LEMMA WaitOneInv ==
  ASSUME Good, NEW p \in Procs, WaitOne(p)
  PROVE  IInv'
<1>1. /\ pc[p] = "one" /\ mutex_release(p, p)
      /\ UNCHANGED <<family, words, val, asleep>>
  BY Zenon DEF WaitOne, Goes, At
<1>2. ASSUME NEW i \in 1 .. Len(children[p]), pc' = [pc EXCEPT ![p] = "state"],
             proc' = [proc EXCEPT ![p] = children[p][i]]
      PROVE  IInv'
  <2>1. children[p][i] # None
    BY ScannedIsChild, NoneAssumption
  <2> QED BY Zenon, <1>1, <1>2, <2>1, ScanInv
<1>3. ASSUME pc' = [pc EXCEPT ![p] = "user"], proc' = proc
      PROVE  IInv'
  <2>1. proc[p] = None /\ proc \in [Procs -> Procs \cup {None}]
    BY Zenon, <1>1 DEF Good, TypeOK, FoundInv
  <2>2. proc' = [proc EXCEPT ![p] = None]
    BY Zenon, <1>3, <2>1
  <2> QED BY Zenon, <1>1, <1>3, <2>2, ScanInv
<1> QED BY Zenon, <1>2, <1>3 DEF WaitOne, Goes

\* Falling asleep on the count.
LEMMA WaitAnySleepInv ==
  ASSUME Good, NEW p \in Procs, WaitAnySleep(p)
  PROVE  IInv'
<1>0. TypeOK /\ LockInv /\ RootInv /\ ExitInv /\ FoundInv /\ FoundStaysMine /\ panic = "none"
  BY Zenon DEF Good
<1>1. /\ pc[p] = "any_sleep" /\ pc' = [pc EXCEPT ![p] = "any_loop"]
      /\ asleep' = [asleep EXCEPT ![p] = IF exited_child_count[p] = val[p] THEN "count" ELSE "no"]
      /\ val' = [val EXCEPT ![p] = 0]
      /\ UNCHANGED <<owner, panic, family, words, proc>>
  BY Zenon DEF WaitAnySleep, Goes, At
<1>3. TypeOK'
  BY Zenon, <1>0, <1>1 DEF TypeOK, family, words, Place
<1>4. LockInv'
  BY <1>0, <1>1 DEF TypeOK, LockInv, Holds, family
<1>5. RootInv' /\ ExitInv'
  BY <1>0, <1>1 DEF TypeOK, RootInv, ExitInv, family, words
<1>6. FoundInv'
  BY <1>0, <1>1 DEF TypeOK, FoundInv, words
<1>7. ParentsAgree' /\ DescendFromRoot'
  BY Zenon, <1>0, <1>1, MoveKeepsFamily DEF There, Place, words
<1>8. FoundStaysMine'
  BY <1>0, <1>1 DEF TypeOK, FoundStaysMine, There, family
<1> QED BY Zenon, <1>0, <1>1, <1>3, <1>4, <1>5, <1>6, <1>7, <1>8 DEF IInv, Good

\* The loop on the state of the child that was found.
LEMMA WaitStateInv ==
  ASSUME Good, NEW p \in Procs, WaitState(p)
  PROVE  IInv'
<1>0. TypeOK /\ LockInv /\ RootInv /\ ExitInv /\ FoundInv /\ FoundStaysMine /\ panic = "none"
  BY Zenon DEF Good
<1> DEFINE to == IF exited[proc[p]] THEN "destroy" ELSE "state"
<1>1. /\ pc[p] \in {"state", "any_loop"} /\ proc[p] # None /\ pc' = [pc EXCEPT ![p] = to]
      /\ asleep' = [asleep EXCEPT ![p] = IF exited[proc[p]] THEN "no" ELSE "state"]
      /\ UNCHANGED <<owner, panic, family, words, locals>>
  BY Zenon, <1>0 DEF WaitState, At, FoundInv
<1>2. to \in {"state", "destroy"} /\ (to = "destroy" => exited[proc[p]])
  BY Zenon
<1> HIDE DEF to
<1>3. TypeOK'
  BY Zenon, <1>0, <1>1, <1>2 DEF TypeOK, family, words, locals, Place
<1>4. LockInv'
  BY <1>0, <1>1, <1>2 DEF TypeOK, LockInv, Holds, family
<1>5. RootInv' /\ ExitInv'
  BY <1>0, <1>1, <1>2 DEF TypeOK, RootInv, ExitInv, family, words
<1>6. FoundInv'
  BY <1>0, <1>1, <1>2 DEF TypeOK, FoundInv, words, locals
<1>7. ParentsAgree' /\ DescendFromRoot'
  BY Zenon, <1>0, <1>1, <1>2, MoveKeepsFamily DEF There, Place, words
<1>8. FoundStaysMine'
  BY <1>0, <1>1, <1>2 DEF TypeOK, FoundStaysMine, There, family, locals
<1> QED BY Zenon, <1>0, <1>1, <1>3, <1>4, <1>5, <1>6, <1>7, <1>8 DEF IInv, Good

-----------------------------------------------------------------------------
(* Lists of children *)

On(s, c) == \E i \in 1 .. Len(s) : s[i] = c

Distinct(s) == \A i, j \in 1 .. Len(s) : s[i] = s[j] => i = j

\* list_insert puts a node at the head.
LEMMA InsertProps ==
  ASSUME NEW s \in Seq(Procs), NEW c \in Procs
  PROVE  /\ <<c>> \o s \in Seq(Procs)
         /\ \A x : On(<<c>> \o s, x) <=> x = c \/ On(s, x)
         /\ Distinct(s) /\ ~On(s, c) => Distinct(<<c>> \o s)
<1> DEFINE t == <<c>> \o s
<1>1. /\ t \in Seq(Procs) /\ Len(t) = Len(s) + 1 /\ Len(s) \in Nat
      /\ t[1] = c /\ \A i \in 1 .. Len(s) : t[i + 1] = s[i]
  OBVIOUS
<1> HIDE DEF t
<1>2. \A i \in 1 .. Len(t) : i = 1 \/ (i - 1 \in 1 .. Len(s) /\ t[i] = s[i - 1])
  <2> TAKE i \in 1 .. Len(t)
  <2>1. i = 1 \/ i - 1 \in 1 .. Len(s)
    BY <1>1
  <2>2. i - 1 \in 1 .. Len(s) => t[(i - 1) + 1] = s[i - 1]
    BY Zenon, <1>1
  <2> QED BY <2>1, <2>2
<1>3. ASSUME NEW x PROVE On(t, x) <=> x = c \/ On(s, x)
  <2>1. ASSUME On(t, x) PROVE x = c \/ On(s, x)
    BY <1>1, <1>2, <2>1 DEF On
  <2>2. ASSUME x = c PROVE On(t, x)
    BY <1>1, <2>2 DEF On
  <2>3. ASSUME On(s, x) PROVE On(t, x)
    <3>1. PICK i \in 1 .. Len(s) : s[i] = x
      BY Zenon, <2>3 DEF On
    <3>2. i + 1 \in 1 .. Len(t) /\ t[i + 1] = x
      BY <1>1, <3>1
    <3> QED BY Zenon, <3>2 DEF On
  <2> QED BY Zenon, <2>1, <2>2, <2>3
<1>4. ASSUME Distinct(s), ~On(s, c) PROVE Distinct(t)
  <2> SUFFICES ASSUME NEW i \in 1 .. Len(t), NEW j \in 1 .. Len(t), t[i] = t[j] PROVE i = j
    BY Zenon DEF Distinct
  <2>1. CASE i = 1
    BY <1>1, <1>2, <1>4, <2>1 DEF On
  <2>2. CASE j = 1
    BY <1>1, <1>2, <1>4, <2>2 DEF On
  <2>3. CASE i # 1 /\ j # 1
    <3>1. i - 1 \in 1 .. Len(s) /\ j - 1 \in 1 .. Len(s) /\ s[i - 1] = s[j - 1]
      BY Zenon, <1>2, <2>3
    <3>2. i - 1 = j - 1
      BY Zenon, <1>4, <3>1 DEF Distinct
    <3> QED BY <1>1, <3>2
  <2> QED BY Zenon, <2>1, <2>2, <2>3
<1> QED BY Zenon, <1>1, <1>3, <1>4 DEF t

\* list_remove of the first node.
LEMMA TailProps ==
  ASSUME NEW s \in Seq(Procs), s # <<>>, Distinct(s)
  PROVE  /\ Tail(s) \in Seq(Procs) /\ Head(s) \in Procs /\ On(s, Head(s))
         /\ \A x : On(Tail(s), x) <=> On(s, x) /\ x # Head(s)
         /\ Distinct(Tail(s))
<1> DEFINE t == Tail(s)
<1>1. /\ t \in Seq(Procs) /\ Len(t) = Len(s) - 1 /\ Len(s) \in Nat /\ Len(s) >= 1
      /\ Head(s) = s[1] /\ Head(s) \in Procs /\ \A i \in 1 .. Len(t) : t[i] = s[i + 1]
  OBVIOUS
<1> HIDE DEF t
<1>2. On(s, Head(s))
  BY <1>1 DEF On
<1>3. ASSUME NEW x PROVE On(t, x) <=> On(s, x) /\ x # Head(s)
  <2>1. ASSUME On(t, x) PROVE On(s, x) /\ x # Head(s)
    <3>1. PICK i \in 1 .. Len(t) : t[i] = x
      BY Zenon, <2>1 DEF On
    <3>2. i + 1 \in 1 .. Len(s) /\ s[i + 1] = x /\ i + 1 # 1 /\ 1 \in 1 .. Len(s)
      BY <1>1, <3>1
    <3> QED BY Zenon, <1>1, <3>2 DEF On, Distinct
  <2>2. ASSUME On(s, x), x # Head(s) PROVE On(t, x)
    <3>1. PICK i \in 1 .. Len(s) : s[i] = x
      BY Zenon, <2>2 DEF On
    <3>2. i - 1 \in 1 .. Len(t)
      BY <1>1, <2>2, <3>1
    <3>3. t[i - 1] = s[(i - 1) + 1]
      BY Zenon, <1>1, <3>2
    <3> QED BY <1>1, <3>1, <3>2, <3>3 DEF On
  <2> QED BY Zenon, <2>1, <2>2
<1>4. Distinct(t)
  <2> SUFFICES ASSUME NEW i \in 1 .. Len(t), NEW j \in 1 .. Len(t), t[i] = t[j] PROVE i = j
    BY Zenon DEF Distinct
  <2>1. i + 1 \in 1 .. Len(s) /\ j + 1 \in 1 .. Len(s) /\ s[i + 1] = s[j + 1]
    BY <1>1
  <2>2. i + 1 = j + 1
    BY <2>1 DEF Distinct
  <2> QED BY <1>1, <2>2
<1> QED BY Zenon, <1>1, <1>2, <1>3, <1>4 DEF t

\* list_remove of any node.
LEMMA RemoveProps ==
  ASSUME NEW s \in Seq(Procs), NEW c, On(s, c), Distinct(s)
  PROVE  /\ list_remove(s, c) \in Seq(Procs)
         /\ \A x : On(list_remove(s, c), x) <=> On(s, x) /\ x # c
         /\ Distinct(list_remove(s, c))
<1> DEFINE k == CHOOSE i \in 1 .. Len(s) : s[i] = c
           t == [j \in 1 .. Len(s) - 1 |-> IF j < k THEN s[j] ELSE s[j + 1]]
<1>1. k \in 1 .. Len(s) /\ s[k] = c
  BY Zenon DEF On
<1>2. list_remove(s, c) = t
  BY Zenon DEF list_remove
<1> HIDE DEF k
<1>3. Len(s) \in Nat /\ Len(s) >= 1 /\ \A i \in 1 .. Len(s) : s[i] \in Procs
  BY <1>1
<1>4. t \in [1 .. Len(s) - 1 -> Procs]
  BY <1>1, <1>3
<1>5. t \in Seq(Procs) /\ Len(t) = Len(s) - 1
  BY <1>3, <1>4
<1>6. \A j \in 1 .. Len(s) - 1 : t[j] = IF j < k THEN s[j] ELSE s[j + 1]
  BY Zenon
<1> HIDE DEF t
<1>7. ASSUME NEW x PROVE On(t, x) <=> On(s, x) /\ x # c
  <2>1. ASSUME On(t, x) PROVE On(s, x) /\ x # c
    <3>1. PICK i \in 1 .. Len(s) - 1 : t[i] = x
      BY Zenon, <1>5, <2>1 DEF On
    <3>2. PICK j \in 1 .. Len(s) : j # k /\ s[j] = x
      BY <1>1, <1>3, <1>6, <3>1
    <3> QED BY Zenon, <1>1, <3>2 DEF On, Distinct
  <2>2. ASSUME On(s, x), x # c PROVE On(t, x)
    <3>1. PICK i \in 1 .. Len(s) : s[i] = x
      BY Zenon, <2>2 DEF On
    <3>2. i # k
      BY Zenon, <1>1, <2>2, <3>1
    <3>3. CASE i < k
      <4>1. i \in 1 .. Len(t) /\ t[i] = x
        BY <1>1, <1>3, <1>5, <1>6, <3>1, <3>3
      <4> QED BY Zenon, <4>1 DEF On
    <3>4. CASE i > k
      <4>1. i - 1 \in 1 .. Len(s) - 1 /\ ~(i - 1 < k) /\ (i - 1) + 1 = i
        BY <1>1, <1>3, <3>4
      <4>2. t[i - 1] = x
        BY Zenon, <1>6, <3>1, <4>1
      <4> QED BY Zenon, <1>5, <4>1, <4>2 DEF On
    <3> QED BY <1>1, <1>3, <3>2, <3>3, <3>4
  <2> QED BY Zenon, <2>1, <2>2
<1>8. Distinct(t)
  <2> SUFFICES ASSUME NEW i \in 1 .. Len(s) - 1, NEW j \in 1 .. Len(s) - 1, t[i] = t[j] PROVE i = j
    BY Zenon, <1>5 DEF Distinct
  <2> DEFINE a == IF i < k THEN i ELSE i + 1
             b == IF j < k THEN j ELSE j + 1
  <2>1. a \in 1 .. Len(s) /\ b \in 1 .. Len(s) /\ s[a] = s[b]
    BY <1>3, <1>6
  <2>2. a = b
    BY Zenon, <2>1 DEF Distinct
  <2> QED BY <1>1, <1>3, <2>2
<1> QED BY Zenon, <1>2, <1>5, <1>7, <1>8
-----------------------------------------------------------------------------
(* Steps that change the family *)

\* The conditions on the lists, by what is on each.
LEMMA AgreeByLists ==
  /\ ParentsAgree <=>
       /\ \A c \in Procs \ {Root} : There(c) => /\ parent[c] \in Procs /\ There(parent[c])
                                                /\ ~exited[parent[c]]
       /\ \A q, c \in Procs : On(children[q], c) <=> There(c) /\ parent[c] = q
       /\ \A q \in Procs : Distinct(children[q])
  /\ ParentsAgree' <=>
       /\ \A c \in Procs \ {Root} : There(c)' => /\ parent'[c] \in Procs /\ There(parent[c])'
                                                 /\ ~exited'[parent'[c]]
       /\ \A q, c \in Procs : On(children'[q], c) <=> There(c)' /\ parent'[c] = q
       /\ \A q \in Procs : Distinct(children'[q])
  BY Zenon DEF ParentsAgree, Lists, On, Distinct, There

\* process_create: the new process is the first on its parent's list.
LEMMA SpawnedInv ==
  ASSUME Good, NEW p \in Procs, NEW c \in Procs, Spawn(p, c, "OK")
  PROVE  IInv'
<1>0. TypeOK /\ LockInv /\ RootInv /\ ExitInv /\ FoundInv /\ FoundStaysMine /\ panic = "none"
      /\ ParentsAgree /\ DescendFromRoot
  BY Zenon DEF Good
<1>1. /\ parent' = [parent EXCEPT ![c] = p] /\ children' = [children EXCEPT ![p] = <<c>> \o @]
      /\ pc' = [pc EXCEPT ![p] = "user", ![c] = "user"] /\ pc[p] = "spawn" /\ pc[c] = "unborn"
      /\ owner' = [owner EXCEPT ![p] = None] /\ owner[p] = p
      /\ UNCHANGED <<words, locals, asleep>>
  BY Zenon, <1>0 DEF Spawn, At, process_create, mutex_release, LockInv, Holds
<1>2. panic' = "none" /\ c # p /\ c # Root
  BY <1>0, <1>1 DEF mutex_release, RootInv, Spawn
<1>3. /\ \A q \in Procs : pc'[q] = IF q \in {p, c} THEN "user" ELSE pc[q]
      /\ \A q \in Procs : parent'[q] = IF q = c THEN p ELSE parent[q]
      /\ \A q \in Procs : There(q)' <=> There(q) \/ q = c
      /\ ~There(c) /\ There(p)
  BY <1>0, <1>1, <1>2 DEF TypeOK, There
<1>a. \A q \in Procs : /\ pc'[q] = IF q \in {p, c} THEN "user" ELSE pc[q]
                       /\ parent'[q] = IF q = c THEN p ELSE parent[q]
  BY Zenon, <1>3
<1>b. pc[p] = "spawn" /\ pc[c] = "unborn" /\ UNCHANGED <<words, locals>>
  BY Zenon, <1>1
<1>4. /\ <<c>> \o children[p] \in Seq(Procs) /\ children[p] \in Seq(Procs)
      /\ \A x : On(<<c>> \o children[p], x) <=> x = c \/ On(children[p], x)
      /\ Distinct(children[p]) /\ ~On(children[p], c) => Distinct(<<c>> \o children[p])
  <2>1. children[p] \in Seq(Procs)
    BY Zenon, <1>0 DEF TypeOK
  <2> QED BY Zenon, <2>1, InsertProps
<1>5. \A q \in Procs : children'[q] = IF q = p THEN <<c>> \o children[p] ELSE children[q]
  BY Zenon, <1>0, <1>1 DEF TypeOK
<1>6. TypeOK'
  <2>1. children' \in [Procs -> Seq(Procs)]
    BY Zenon, <1>0, <1>1, <1>4 DEF TypeOK
  <2> QED BY Zenon, <1>0, <1>1, <2>1 DEF TypeOK, words, locals, Place
<1>7. LockInv'
  <2>1. \A m \in Procs : owner[m] # c
    BY <1>0, <1>b DEF LockInv, Holds
  <2>2. /\ \A q \in Procs : owner'[q] = IF q = p THEN None ELSE owner[q]
        /\ owner[p] = p /\ parent \in [Procs -> Procs \cup {None}]
    BY Zenon, <1>0, <1>1 DEF TypeOK
  <2>3. ASSUME NEW q \in Procs, pc'[q] \in Holds PROVE owner'[q] = q
    BY <1>0, <1>a, <2>2, <2>3 DEF LockInv, Holds
  <2>4. ASSUME NEW q \in Procs, pc'[q] = "both" PROVE owner'[parent'[q]] = q
    <3>1. q \notin {p, c} /\ pc[q] = "both" /\ owner[parent[q]] = q /\ q # Root
      BY <1>0, <1>a, <2>4 DEF LockInv, RootInv
    <3>2. parent'[q] = parent[q] /\ parent[q] \in Procs /\ parent[q] # p
      BY Zenon, <1>a, <2>2, <3>1, HasParent
    <3> QED BY Zenon, <2>2, <3>1, <3>2
  <2>5. ASSUME NEW q \in Procs, NEW m \in Procs, owner'[m] = q
        PROVE  \/ m = q /\ pc'[q] \in Holds \cup {"user", "terminate", "any"}
               \/ m = parent'[q] /\ pc'[q] = "both"
    <3>1. m # p /\ owner[m] = q /\ q # c
      BY <2>1, <2>2, <2>5, NoneAssumption
    <3>2. \/ m = q /\ pc[q] \in Holds \cup {"user", "terminate", "any"}
          \/ m = parent[q] /\ pc[q] = "both"
      BY <1>0, <3>1 DEF LockInv
    <3> QED BY <1>a, <1>b, <3>1, <3>2
  <2> QED BY Zenon, <2>3, <2>4, <2>5 DEF LockInv
<1>8. RootInv'
  BY <1>0, <1>2, <1>a, RootAssumption DEF RootInv
<1>9. ExitInv'
  <2> SUFFICES ASSUME NEW q \in Procs
               PROVE  /\ exited[q] <=> pc'[q] \in {"zombie", "destroyed"}
                      /\ pc'[q] \in {"counted", "leave", "zombie", "destroyed"} => children'[q] = <<>>
                      /\ pc'[q] = "both" => parent'[q] # q
    BY <1>b DEF ExitInv, words
  <2>1. CASE q \in {p, c}
    BY <1>0, <1>a, <1>b, <2>1 DEF ExitInv
  <2>2. CASE q \notin {p, c}
    BY <1>0, <1>a, <1>5, <2>2 DEF ExitInv
  <2> QED BY Zenon, <2>1, <2>2
<1>10. FoundInv'
  <2> SUFFICES ASSUME NEW q \in Procs
               PROVE  /\ proc[q] # None => pc'[q] \in {"any_sleep", "any_loop", "state", "destroy"}
                      /\ pc'[q] \in {"state", "destroy"} => proc[q] # None
                      /\ pc'[q] = "destroy" => exited[proc[q]]
    BY Zenon, <1>b DEF FoundInv, words, locals
  <2>1. CASE q \in {p, c}
    BY Zenon, <1>0, <1>a, <1>b, <2>1 DEF FoundInv
  <2>2. CASE q \notin {p, c}
    BY <1>0, <1>a, <2>2 DEF FoundInv
  <2> QED BY Zenon, <2>1, <2>2
<1>11. ParentsAgree'
  <2>1. ASSUME NEW d \in Procs \ {Root}, There(d)'
        PROVE  parent'[d] \in Procs /\ There(parent[d])' /\ ~exited'[parent'[d]]
    <3>1. CASE d = c
      <4>1. parent'[d] = p /\ ~exited[p]
        BY Zenon, <1>0, <1>3, <1>b, <3>1 DEF ExitInv
      <4> QED BY Zenon, <1>3, <1>b, <4>1 DEF There, words
    <3>2. CASE d # c
      <4>1. There(d) /\ parent'[d] = parent[d]
        BY Zenon, <1>3, <2>1, <3>2
      <4>2. parent[d] \in Procs /\ There(parent[d]) /\ ~exited[parent[d]]
        BY Zenon, <1>0, <4>1 DEF ParentsAgree
      <4> QED BY Zenon, <1>3, <1>b, <4>1, <4>2 DEF There, words
    <3> QED BY Zenon, <3>1, <3>2
  <2>2. ASSUME NEW q \in Procs, NEW d \in Procs
        PROVE  On(children'[q], d) <=> There(d)' /\ parent'[d] = q
    <3>1. On(children[q], d) <=> There(d) /\ parent[d] = q
      BY Zenon, <1>0, AgreeByLists
    <3> QED BY <1>3, <1>4, <1>5, <3>1
  <2>3. ASSUME NEW q \in Procs PROVE Distinct(children'[q])
    <3>1. Distinct(children[q]) /\ ~On(children[p], c)
      BY <1>0, <1>3, AgreeByLists
    <3> QED BY Zenon, <1>4, <1>5, <3>1
  <2> QED BY Zenon, <2>1, <2>2, <2>3, AgreeByLists
<1>12. DescendFromRoot'
  <2> SUFFICES ASSUME NEW S \in (SUBSET {d \in Procs \ {Root} : There(d)'}) \ {{}},
                      \A d \in S : parent'[d] \in S
               PROVE  FALSE
    BY Zenon DEF DescendFromRoot
  <2> DEFINE T == S \ {c}
  <2>1. T # {}
    BY <1>2, <1>3
  <2>2. T \in (SUBSET {d \in Procs \ {Root} : There(d)}) \ {{}}
    BY Zenon, <1>3, <2>1
  <2>3. PICK d \in T : parent[d] \notin T
    BY Zenon, <1>0, <2>2 DEF DescendFromRoot
  <2>4. d \in Procs \ {Root} /\ There(d) /\ parent'[d] = parent[d]
    BY Zenon, <1>3, <2>2
  <2>5. parent[d] = c
    BY Zenon, <2>3, <2>4
  <2> QED BY Zenon, <1>0, <1>3, <2>4, <2>5 DEF ParentsAgree
<1>13. FoundStaysMine'
  <2>1. ASSUME NEW q \in Procs, proc'[q] # None PROVE There(proc[q])' /\ parent'[proc'[q]] = q
    <3>1. proc[q] \in Procs /\ There(proc[q]) /\ parent[proc[q]] = q /\ proc'[q] = proc[q]
      BY <1>0, <1>b, <2>1 DEF TypeOK, FoundStaysMine, locals
    <3> QED BY <1>3, <3>1 DEF There
  <2> QED BY <2>1 DEF FoundStaysMine, There
<1> QED BY Zenon, <1>2, <1>6, <1>7, <1>8, <1>9, <1>10, <1>11, <1>12, <1>13 DEF IInv, Good

\* A spawn that fails comes back, with the mutex if there was no address space.
LEMMA NotSpawnedInv ==
  ASSUME Good, NEW p \in Procs, pc[p] = "spawn", pc' = [pc EXCEPT ![p] = "user"],
         UNCHANGED <<owner, panic>> \/ mutex_release(p, p), UNCHANGED <<family, words, locals, asleep>>
  PROVE  IInv'
<1>0. TypeOK /\ LockInv /\ RootInv /\ ExitInv /\ FoundInv /\ FoundStaysMine /\ panic = "none"
  BY Zenon DEF Good
<1>1. owner' \in {owner, [owner EXCEPT ![p] = None]} /\ owner[p] = p /\ panic' = "none"
  BY Zenon, <1>0 DEF mutex_release, LockInv, Holds
<1>3. TypeOK'
  BY Zenon, <1>0, <1>1 DEF TypeOK, family, words, locals, Place
<1>4. LockInv'
  <2>1. CASE owner' = owner
    BY <1>0, <1>1, <2>1 DEF TypeOK, LockInv, Holds, family
  <2>2. CASE owner' = [owner EXCEPT ![p] = None]
    BY <1>0, <1>1, <2>2, NoneAssumption DEF TypeOK, LockInv, Holds, family
  <2> QED BY Zenon, <1>1, <2>1, <2>2
<1>5. RootInv' /\ ExitInv'
  BY <1>0, <1>1 DEF TypeOK, RootInv, ExitInv, family, words
<1>6. FoundInv'
  BY <1>0, <1>1 DEF TypeOK, FoundInv, words, locals
<1>7. ParentsAgree' /\ DescendFromRoot'
  BY Zenon, <1>0, <1>1, MoveKeepsFamily DEF There, Place, words
<1>8. FoundStaysMine'
  BY <1>0, <1>1 DEF TypeOK, FoundStaysMine, There, family, locals
<1> QED BY Zenon, <1>1, <1>3, <1>4, <1>5, <1>6, <1>7, <1>8 DEF IInv, Good

LEMMA SpawnInv ==
  ASSUME Good, NEW p \in Procs, NEW c \in Procs, NEW r \in {"OK", "NOMEM", "INVAL"}, Spawn(p, c, r)
  PROVE  IInv'
<1>1. pc[p] = "spawn" /\ pc[c] = "unborn" /\ p # c
  BY Zenon DEF Spawn, At
<1>2. CASE r = "OK"
  BY Zenon, <1>2, SpawnedInv
<1>3. CASE r # "OK"
  <2>1. pc' = [pc EXCEPT ![p] = "user", ![c] = @]
    BY Zenon, <1>3 DEF Spawn
  <2>2. pc' = [pc EXCEPT ![p] = "user"]
    BY Zenon, <1>1, <2>1 DEF Good, TypeOK
  <2> QED BY Zenon, <1>1, <1>3, <2>2, NotSpawnedInv DEF Spawn
<1> QED BY Zenon, <1>2, <1>3

\* One turn of the loop of __process_on_terminate: the first child goes to the head of
\* the parent's list.  If the kernel goes on, nobody had the child's mutex.
LEMMA ReparentInv ==
  ASSUME Good, NEW p \in Procs, Reparent(p)
  PROVE  IInv'
<1> DEFINE c == Head(children[p])
           q == parent[p]
<1>0. TypeOK /\ LockInv /\ RootInv /\ ExitInv /\ FoundInv /\ FoundStaysMine /\ panic = "none"
      /\ ParentsAgree /\ DescendFromRoot
  BY Zenon DEF Good
<1>1. /\ pc[p] = "both" /\ children[p] # <<>>
      /\ parent' = [parent EXCEPT ![c] = q]
      /\ children' = [children EXCEPT ![p] = Tail(@), ![q] = <<c>> \o @]
      /\ owner' = [owner EXCEPT ![c] = None]
      /\ UNCHANGED <<pc, words, locals, asleep>>
  BY Zenon DEF Reparent, At
<1>2. /\ panic' \in {"none", "invalid_release", "list_broken"}
      /\ panic' = "none" => owner[c] = None
  BY Zenon, <1>0 DEF Reparent
<1>3. /\ p # Root /\ q \in Procs /\ There(q) /\ There(p) /\ q # p
      /\ owner[q] = p /\ owner[p] = p
  BY <1>0, <1>1, HasParent DEF ExitInv, LockInv, Holds
<1>4. children[p] \in Seq(Procs) /\ children[q] \in Seq(Procs)
      /\ Distinct(children[p]) /\ Distinct(children[q])
  <2>1. children[p] \in Seq(Procs) /\ children[q] \in Seq(Procs)
    BY Zenon, <1>0, <1>3 DEF TypeOK
  <2> QED BY Zenon, <1>0, <1>3, <2>1, AgreeByLists
<1>5. /\ Tail(children[p]) \in Seq(Procs) /\ c \in Procs /\ On(children[p], c)
      /\ \A x : On(Tail(children[p]), x) <=> On(children[p], x) /\ x # c
      /\ Distinct(Tail(children[p]))
  BY Zenon, <1>1, <1>4, TailProps
<1>6. There(c) /\ parent[c] = p /\ c # Root
  BY <1>0, <1>5, AgreeByLists, NoneAssumption DEF RootInv
<1>7. /\ <<c>> \o children[q] \in Seq(Procs)
      /\ \A x : On(<<c>> \o children[q], x) <=> x = c \/ On(children[q], x)
      /\ Distinct(<<c>> \o children[q])
  <2>1. ~On(children[q], c)
    BY Zenon, <1>0, <1>3, <1>5, <1>6, AgreeByLists
  <2> QED BY Zenon, <1>4, <1>5, <2>1, InsertProps
<1> HIDE DEF c, q
<1>8. /\ \A r \in Procs : children'[r] = IF r = p THEN Tail(children[p])
                                         ELSE IF r = q THEN <<c>> \o children[q] ELSE children[r]
      /\ children' \in [Procs -> Seq(Procs)]
  BY Zenon, <1>0, <1>1, <1>3, <1>5, <1>7 DEF TypeOK
<1>9. TypeOK'
  BY Zenon, <1>0, <1>1, <1>3, <1>5, <1>8 DEF TypeOK, words, locals
<1>10. ASSUME panic' = "none" PROVE Good'
  <2>0. /\ owner[c] = None /\ owner' = owner /\ c # p /\ c # q
        /\ UNCHANGED <<pc, words, locals>>
        /\ \A r \in Procs : parent'[r] = IF r = c THEN q ELSE parent[r]
        /\ \A r \in Procs : There(r)' <=> There(r)
    BY SMTT(20), <1>0, <1>1, <1>2, <1>3, <1>5, <1>10, NoneAssumption DEF TypeOK, There
  <2>1. pc[c] \notin Holds
    BY Zenon, <1>0, <1>5, <2>0, NoneAssumption DEF LockInv
  <2>2. LockInv'
    BY <1>0, <2>0, <2>1 DEF LockInv, Holds
  <2>3. RootInv'
    BY Zenon, <1>0, <1>6, <2>0, RootAssumption DEF RootInv
  <2>4. ExitInv'
    <3>1. On(children[q], p)
      BY <1>0, <1>3, AgreeByLists DEF q
    <3>2. children[q] # <<>>
      BY <3>1 DEF On
    <3>3. pc[q] \notin {"counted", "leave", "zombie", "destroyed"}
      BY Zenon, <1>0, <1>3, <3>2 DEF ExitInv
    <3> SUFFICES ASSUME NEW r \in Procs
                 PROVE  /\ exited[r] <=> pc[r] \in {"zombie", "destroyed"}
                        /\ pc[r] \in {"counted", "leave", "zombie", "destroyed"} => children'[r] = <<>>
                        /\ pc[r] = "both" => parent'[r] # r
      BY Zenon, <2>0 DEF ExitInv, words
    <3> QED BY SMTT(20), <1>0, <1>1, <1>8, <2>0, <2>1, <3>3 DEF ExitInv, Holds
  <2>5. FoundInv'
    BY Zenon, <1>0, <2>0 DEF FoundInv, words, locals
  <2>6. FoundStaysMine'
    <3>1. ASSUME NEW r \in Procs, proc[r] # None PROVE There(proc[r])' /\ parent'[proc[r]] = r
      <4>1. proc[r] \in Procs /\ There(proc[r]) /\ parent[proc[r]] = r
        BY <1>0, <3>1 DEF TypeOK, FoundStaysMine
      <4>2. proc[p] = None
        BY Zenon, <1>0, <1>1 DEF FoundInv
      <4>3. proc[r] # c
        BY Zenon, <1>6, <3>1, <4>1, <4>2
      <4> QED BY Zenon, <2>0, <4>1, <4>3 DEF There, locals
    <3> QED BY Zenon, <2>0, <3>1 DEF FoundStaysMine, There, locals
  <2>7. ParentsAgree'
    <3>1. ASSUME NEW d \in Procs \ {Root}, There(d)'
          PROVE  parent'[d] \in Procs /\ There(parent[d])' /\ ~exited'[parent'[d]]
      <4>1. There(d) /\ parent[d] \in Procs /\ There(parent[d]) /\ ~exited[parent[d]]
        BY Zenon, <1>0, <2>0, <3>1 DEF ParentsAgree
      <4>2. There(q) /\ ~exited[q] /\ q \in Procs
        BY Zenon, <1>0, <1>3 DEF ParentsAgree, q
      <4> QED BY <2>0, <4>1, <4>2 DEF There, words
    <3>2. ASSUME NEW r \in Procs, NEW d \in Procs
          PROVE  On(children'[r], d) <=> There(d)' /\ parent'[d] = r
      <4>1. On(children[r], d) <=> There(d) /\ parent[d] = r
        BY Zenon, <1>0, AgreeByLists
      <4> QED BY Zenon, <1>3, <1>5, <1>6, <1>7, <1>8, <2>0, <4>1
    <3>3. ASSUME NEW r \in Procs PROVE Distinct(children'[r])
      <4>1. Distinct(children[r])
        BY Zenon, <1>0, AgreeByLists
      <4> QED BY Zenon, <1>5, <1>7, <1>8, <4>1
    <3> QED BY Zenon, <3>1, <3>2, <3>3, AgreeByLists
  <2>8. DescendFromRoot'
    <3> SUFFICES ASSUME NEW S \in (SUBSET {d \in Procs \ {Root} : There(d)'}) \ {{}},
                        \A d \in S : parent'[d] \in S
                 PROVE  FALSE
      BY Zenon DEF DescendFromRoot
    <3>0. S \in (SUBSET {d \in Procs \ {Root} : There(d)}) \ {{}}
      BY Zenon, <2>0
    <3>1. CASE c \notin S
      <4>1. \A d \in S : parent[d] \in S
        BY Zenon, <2>0, <3>0, <3>1
      <4> QED BY Zenon, <1>0, <3>0, <4>1 DEF DescendFromRoot
    <3>2. CASE c \in S
      <4> DEFINE T == S \cup {p}
      <4>1. T \in (SUBSET {d \in Procs \ {Root} : There(d)}) \ {{}}
        BY Zenon, <1>3, <3>0
      <4>2. \A d \in T : parent[d] \in T
        <5>1. q \in S
          BY Zenon, <1>5, <2>0, <3>2
        <5>2. parent[p] = q
          BY Zenon DEF q
        <5> QED BY Zenon, <1>6, <2>0, <3>0, <5>1, <5>2
      <4> QED BY Zenon, <1>0, <4>1, <4>2 DEF DescendFromRoot
    <3> QED BY Zenon, <3>1, <3>2
  <2> QED BY Zenon, <1>9, <1>10, <2>2, <2>3, <2>4, <2>5, <2>6, <2>7, <2>8 DEF Good
<1> QED BY Zenon, <1>2, <1>9, <1>10 DEF IInv
\* The child that was found is destroyed, by its parent, once it has exited.
LEMMA WaitDoneInv ==
  ASSUME Good, NEW p \in Procs, WaitDone(p)
  PROVE  IInv'
<1> DEFINE c == proc[p]
<1>0. TypeOK /\ LockInv /\ RootInv /\ ExitInv /\ FoundInv /\ FoundStaysMine /\ panic = "none"
      /\ ParentsAgree /\ DescendFromRoot
  BY Zenon DEF Good
<1>1. PICK to \in {"user", "terminate"} :
        /\ pc[p] = "destroy" /\ pc' = [pc EXCEPT ![p] = to, ![c] = "destroyed"]
        /\ panic' = IF children[c] # <<>> THEN "destroyed_process_has_children" ELSE panic
        /\ children' = [children EXCEPT ![parent[c]] = list_remove(@, c)]
        /\ proc' = [proc EXCEPT ![p] = None]
        /\ terminate_flag' \in {terminate_flag, [terminate_flag EXCEPT ![p] = TRUE]}
        /\ UNCHANGED <<owner, parent, exited, exited_child_count, val, asleep>>
  BY Zenon DEF WaitDone, At, process_destroy, process_terminate
<1>2. c \in Procs /\ There(c) /\ parent[c] = p /\ exited[c]
  BY SMTT(20), <1>0, <1>1 DEF TypeOK, FoundInv, FoundStaysMine
<1>3. pc[c] = "zombie" /\ children[c] = <<>> /\ c # p /\ c # Root
  BY <1>0, <1>1, <1>2, NoneAssumption DEF ExitInv, RootInv, There
<1>4. /\ children[p] \in Seq(Procs) /\ On(children[p], c) /\ Distinct(children[p])
  <2>1. children[p] \in Seq(Procs)
    BY Zenon, <1>0 DEF TypeOK
  <2> QED BY Zenon, <1>0, <1>2, <2>1, AgreeByLists
<1>5. /\ list_remove(children[p], c) \in Seq(Procs)
      /\ \A x : On(list_remove(children[p], c), x) <=> On(children[p], x) /\ x # c
      /\ Distinct(list_remove(children[p], c))
  BY Zenon, <1>4, RemoveProps
<1>6. panic' = "none"
  BY Zenon, <1>0, <1>1, <1>3
<1> HIDE DEF c
<1>7. /\ \A r \in Procs : children'[r] = IF r = p THEN list_remove(children[p], c) ELSE children[r]
      /\ children' \in [Procs -> Seq(Procs)]
  BY <1>0, <1>1, <1>2, <1>5 DEF TypeOK
<1>8. /\ \A r \in Procs : pc'[r] = IF r = c THEN "destroyed" ELSE IF r = p THEN to ELSE pc[r]
      /\ \A r \in Procs : There(r)' <=> There(r) /\ r # c
      /\ \A r \in Procs : proc'[r] = IF r = p THEN None ELSE proc[r]
  BY <1>0, <1>1, <1>2, <1>3 DEF TypeOK, There
<1>9. TypeOK'
  <2>1. to \in Place /\ terminate_flag' \in [Procs -> BOOLEAN] /\ proc' \in [Procs -> Procs \cup {None}]
    BY Zenon, <1>0, <1>1 DEF TypeOK, Place
  <2>2. pc' \in [Procs -> Place]
    BY Zenon, <1>0, <1>1, <2>1 DEF TypeOK, Place
  <2> QED BY Zenon, <1>0, <1>1, <1>7, <2>1, <2>2 DEF TypeOK
<1>a. UNCHANGED <<owner, parent, exited>> /\ pc[p] = "destroy" /\ to \in {"user", "terminate"}
  BY Zenon, <1>1
<1>b. \A r \in Procs : pc'[r] = IF r = c THEN "destroyed" ELSE IF r = p THEN to ELSE pc[r]
  BY Zenon, <1>8
<1>10. LockInv'
  <2>1. ASSUME NEW r \in Procs, pc'[r] \in Holds PROVE owner[r] = r
    BY <1>0, <1>a, <1>b, <2>1 DEF LockInv, Holds
  <2>2. ASSUME NEW r \in Procs, pc'[r] = "both" PROVE owner[parent[r]] = r
    BY <1>0, <1>a, <1>b, <2>2 DEF LockInv
  <2>3. ASSUME NEW r \in Procs, NEW m \in Procs, owner[m] = r
        PROVE  \/ m = r /\ pc'[r] \in Holds \cup {"user", "terminate", "any"}
               \/ m = parent[r] /\ pc'[r] = "both"
    <3>1. \/ m = r /\ pc[r] \in Holds \cup {"user", "terminate", "any"}
          \/ m = parent[r] /\ pc[r] = "both"
      BY <1>0, <2>3 DEF LockInv
    <3>2. r # c /\ r # p
      BY <1>3, <1>a, <3>1 DEF Holds
    <3> QED BY Zenon, <1>b, <3>1, <3>2
  <2> QED BY <1>a, <2>1, <2>2, <2>3 DEF LockInv
<1>11. RootInv'
  BY Zenon, <1>0, <1>3, <1>a, <1>b, RootAssumption DEF RootInv
<1>12. ExitInv'
  <2> SUFFICES ASSUME NEW r \in Procs
               PROVE  /\ exited[r] <=> pc'[r] \in {"zombie", "destroyed"}
                      /\ pc'[r] \in {"counted", "leave", "zombie", "destroyed"} => children'[r] = <<>>
                      /\ pc'[r] = "both" => parent[r] # r
    BY <1>a DEF ExitInv
  <2>1. CASE r = p
    BY Zenon, <1>0, <1>3, <1>a, <1>b, <2>1 DEF ExitInv
  <2>2. CASE r = c
    BY Zenon, <1>2, <1>3, <1>7, <1>b, <2>2
  <2>3. CASE r # p /\ r # c
    BY Zenon, <1>0, <1>7, <1>b, <2>3 DEF ExitInv
  <2> QED BY Zenon, <2>1, <2>2, <2>3
<1>13. FoundInv'
  <2> SUFFICES ASSUME NEW r \in Procs
               PROVE  /\ proc'[r] # None => pc'[r] \in {"any_sleep", "any_loop", "state", "destroy"}
                      /\ pc'[r] \in {"state", "destroy"} => proc'[r] # None
                      /\ pc'[r] = "destroy" => exited[proc'[r]]
    BY Zenon, <1>a DEF FoundInv
  <2>1. CASE r = p
    BY Zenon, <1>3, <1>8, <1>a, <2>1
  <2>2. CASE r = c
    BY <1>0, <1>3, <1>8, <2>2 DEF FoundInv
  <2>3. CASE r # p /\ r # c
    BY <1>0, <1>8, <2>3 DEF FoundInv
  <2> QED BY Zenon, <2>1, <2>2, <2>3
<1>14. FoundStaysMine'
  <2>1. ASSUME NEW r \in Procs, proc'[r] # None PROVE There(proc[r])' /\ parent[proc'[r]] = r
    <3>1. r # p /\ proc'[r] = proc[r]
      BY Zenon, <1>8, <2>1
    <3>2. proc[r] \in Procs /\ There(proc[r]) /\ parent[proc[r]] = r
      BY <1>0, <2>1, <3>1 DEF TypeOK, FoundStaysMine
    <3>3. proc[r] # c
      BY Zenon, <1>2, <3>1, <3>2
    <3> QED BY Zenon, <1>8, <3>1, <3>2, <3>3 DEF There
  <2> QED BY Zenon, <1>a, <2>1 DEF FoundStaysMine, There
<1>15. ParentsAgree'
  <2>1. ASSUME NEW d \in Procs \ {Root}, There(d)'
        PROVE  parent'[d] \in Procs /\ There(parent[d])' /\ ~exited'[parent'[d]]
    <3>1. There(d) /\ parent[d] \in Procs /\ There(parent[d]) /\ ~exited[parent[d]]
      BY Zenon, <1>0, <1>8, <2>1 DEF ParentsAgree
    <3>2. parent[d] # c
      BY <1>2, <3>1
    <3> QED BY Zenon, <1>8, <1>a, <3>1, <3>2 DEF There
  <2>2. ASSUME NEW r \in Procs, NEW d \in Procs
        PROVE  On(children'[r], d) <=> There(d)' /\ parent'[d] = r
    <3>1. On(children[r], d) <=> There(d) /\ parent[d] = r
      BY Zenon, <1>0, AgreeByLists
    <3> QED BY Zenon, <1>2, <1>5, <1>7, <1>8, <1>a, <3>1
  <2>3. ASSUME NEW r \in Procs PROVE Distinct(children'[r])
    <3>1. Distinct(children[r])
      BY Zenon, <1>0, AgreeByLists
    <3> QED BY Zenon, <1>5, <1>7, <3>1
  <2> QED BY Zenon, <2>1, <2>2, <2>3, AgreeByLists
<1>16. DescendFromRoot'
  <2>1. (SUBSET {d \in Procs \ {Root} : There(d)'}) \ {{}} \subseteq
        (SUBSET {d \in Procs \ {Root} : There(d)}) \ {{}}
    BY Zenon, <1>8
  <2> QED BY Zenon, <1>0, <1>a, <2>1 DEF DescendFromRoot
<1> QED BY Zenon, <1>6, <1>9, <1>10, <1>11, <1>12, <1>13, <1>14, <1>15, <1>16 DEF IInv, Good

-----------------------------------------------------------------------------
(* The theorems *)

LEMMA CallsInv ==
  ASSUME Good, NEW p \in Procs, Calls(p)
  PROVE  IInv'
<1>1. CASE SpawnLock(p) \/ ExitLock(p) \/ WaitOneLock(p)
  BY Zenon, <1>1, CallInv DEF SpawnLock, ExitLock, WaitOneLock
<1>2. CASE process_raise_exception(p)
  BY Zenon, <1>2, RaiseInv
<1>3. CASE WaitAny(p, "user")
  BY Zenon, <1>3, WaitAnyInv
<1> QED BY Zenon, <1>1, <1>2, <1>3 DEF Calls

LEMMA StepsInv ==
  ASSUME Good, NEW p \in Procs, Steps(p)
  PROVE  IInv'
<1>1. CASE \E c \in Procs, r \in {"OK", "NOMEM", "INVAL"} : Spawn(p, c, r)
  BY <1>1, SpawnInv
<1>2. CASE Exit(p) \/ TerminateLock(p) \/ TerminateLockParent(p) \/ Reparent(p)
  BY Zenon, <1>2, ExitInvStep, TerminateLockInv, TerminateLockParentInv, ReparentInv
<1>3. CASE CountExit(p) \/ TerminateUnlock(p) \/ Leave(p)
  BY Zenon, <1>3, CountExitInv, TerminateUnlockInv, LeaveInv
<1>4. CASE proc[p] = None /\ WaitAny(p, "any_loop")
  BY Zenon, <1>4, WaitAnyInv
<1>5. CASE WaitAnyLock(p) \/ WaitAnyScan(p) \/ WaitAnySleep(p) \/ WaitOne(p)
  BY Zenon, <1>5, WaitAnyLockInv, WaitAnyScanInv, WaitAnySleepInv, WaitOneInv
<1>6. CASE WaitState(p) \/ WaitDone(p)
  BY Zenon, <1>6, WaitStateInv, WaitDoneInv
<1> QED BY Zenon, <1>1, <1>2, <1>3, <1>4, <1>5, <1>6 DEF Steps

\* After a panic nobody takes a step.
LEMMA OnlyBeforePanic ==
  ASSUME NEW p \in Procs, Calls(p) \/ Steps(p)
  PROVE  panic = "none"
  BY Zenon DEF Calls, Steps, SpawnLock, ExitLock, WaitOneLock, Call, process_raise_exception, WaitAny,
         Spawn, Exit, TerminateLock, TerminateLockParent, Reparent, CountExit, TerminateUnlock, Leave,
         WaitAnyLock, WaitAnyScan, WaitAnySleep, WaitOne, WaitState, WaitDone, Goes, At

LEMMA NextInv == ASSUME IInv, [Next]_vars PROVE IInv'
<1>1. CASE Next
  BY Zenon, <1>1, CallsInv, StepsInv, OnlyBeforePanic DEF Next, IInv
<1>2. CASE UNCHANGED vars
  <2>1. UNCHANGED <<pc, owner, asleep, panic, parent, children, terminate_flag, exited,
                    exited_child_count, proc, val>>
    BY Zenon, <1>2 DEF vars, family, words, locals
  <2>2. TypeOK' <=> TypeOK
    BY SMTT(20), <2>1 DEF TypeOK
  <2>3. LockInv' <=> LockInv
    BY SMTT(30), <2>1 DEF LockInv
  <2>4. RootInv' /\ ExitInv' /\ FoundInv' <=> RootInv /\ ExitInv /\ FoundInv
    BY <2>1 DEF RootInv, ExitInv, FoundInv
  <2>5. ParentsAgree' /\ FoundStaysMine' <=> ParentsAgree /\ FoundStaysMine
    BY <2>1 DEF ParentsAgree, FoundStaysMine, There, Lists
  <2>6. DescendFromRoot' <=> DescendFromRoot
    BY <2>1 DEF DescendFromRoot, There
  <2> QED BY Zenon, <2>1, <2>2, <2>3, <2>4, <2>5, <2>6 DEF IInv, Good
<1> QED BY Zenon, <1>1, <1>2

\* The inductive invariant gives the property.
LEMMA InvIsTree == ASSUME IInv PROVE FamilyIsTree
<1>1. ASSUME Good PROVE DestroyedIsDone
  BY <1>1 DEF Good, LockInv, ExitInv, DestroyedIsDone, Holds
<1> QED BY Zenon, <1>1 DEF IInv, Good, FamilyIsTree

LEMMA InvAlways == Spec => []IInv
<1>1. Init => IInv
  BY Zenon, InitInv
<1>2. IInv /\ [Next]_vars => IInv'
  BY Zenon, NextInv
<1> QED BY <1>1, <1>2, PTL DEF Spec

\* Through spawn, exit with reparenting and wait (syscall_process_spawn,
\* __process_on_terminate, syscall_process_wait, process_destroy), until the kernel
\* panics, parents and lists of children agree and lead to the root, no living process has
\* an exited parent, a child that a wait has found stays the waiting process's, and what is
\* destroyed has exited, has no children and holds no mutex.
THEOREM FamilyStaysTree == Spec => []FamilyIsTree
<1>1. IInv => FamilyIsTree
  BY Zenon, InvIsTree
<1> QED BY <1>1, InvAlways, PTL
=============================================================================
