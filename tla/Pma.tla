-------------------------------- MODULE Pma --------------------------------
(***************************************************************************)
(* Allocation of physical frames, kernel/k_memory.c.  pm_map holds one byte *)
(* per frame, its reference count; 0 is free.  pma_alloc scans it without  *)
(* a lock and takes a frame by an atomic increment; when it finds nothing  *)
(* it scans again under pm_map_lock.  Processes share frames               *)
(* (pma_inc_ref_count, in syscall_mtransfer) and give them back (pma_free). *)
(***************************************************************************)
EXTENDS Integers, FiniteSetsExt

CONSTANTS Proc,
          PM_MAP_ELEMENTS,   \* number of frames
          Width,             \* a count is modulo Width: 2^8 in the code
          Reserved,          \* frames that boot marked reserved: all ones
          Counts,            \* page counts asked of pma_alloc_contiguous
          MaxHeld,           \* bound: a process that holds so many references asks for no more
          NULL

Frame == 0 .. PM_MAP_ELEMENTS - 1

ASSUME PmaAssumption == /\ PM_MAP_ELEMENTS \in Nat
                        /\ Width \in Nat \ {0, 1}
                        /\ Reserved \subseteq Frame
                        /\ Counts \subseteq Nat
                        /\ NULL \notin Proc

VARIABLES pm_map, pm_map_lock,
          pc,      \* pc[p]: where p is; "idle" outside of this code
          i,       \* i[p]: the index of its scan
          range,   \* range[p]: the frames pma_alloc_contiguous found
          held,    \* held[p][f]: references p was given to f and has not given back
          met      \* frames two allocations met on: rolled back or overwritten

vars == <<pm_map, pm_map_lock, pc, i, range, held, met>>

Init == /\ pm_map = [f \in Frame |-> IF f \in Reserved THEN Width - 1 ELSE 0]
        /\ pm_map_lock = NULL
        /\ pc = [p \in Proc |-> "idle"]
        /\ i = [p \in Proc |-> 0]
        /\ range = [p \in Proc |-> {}]
        /\ held = [p \in Proc |-> [f \in Frame |-> 0]]
        /\ met = {}

Goes(p, from, to, index) == /\ pc[p] = from /\ pc' = [pc EXCEPT ![p] = to]
                            /\ i' = [i EXCEPT ![p] = index]

\* p returns with the frames fs, none for the result 0.
Return(p, from, fs) ==
    /\ Goes(p, from, "idle", 0)
    /\ held' = [held EXCEPT ![p] = [f \in Frame |-> held[p][f] + (IF f \in fs THEN 1 ELSE 0)]]

Stored(f, x) == pm_map' = [pm_map EXCEPT ![f] = x % Width]

\* One turn of pma_alloc's loop.
Scan(p) ==
    /\ IF i[p] = PM_MAP_ELEMENTS   THEN Goes(p, "scan", "lock", 0)
       ELSE IF pm_map[i[p]] # 0    THEN Goes(p, "scan", "scan", i[p] + 1)
       ELSE                             Goes(p, "scan", "inc", i[p])
    /\ UNCHANGED <<pm_map, pm_map_lock, range, held, met>>

Inc(p) ==
    LET f == i[p] IN
    /\ pc[p] = "inc" /\ Stored(f, pm_map[f] + 1)
    /\ IF (pm_map[f] + 1) % Width = 1 THEN Return(p, "inc", {f})
       ELSE Goes(p, "inc", "dec", f) /\ UNCHANGED held
    /\ UNCHANGED <<pm_map_lock, range, met>>

\* The rollback, after which the frame is returned all the same.
Rollback(p) ==
    /\ Return(p, "dec", {i[p]})
    /\ Stored(i[p], pm_map[i[p]] - 1)
    /\ met' = met \cup {i[p]}
    /\ UNCHANGED <<pm_map_lock, range>>

\* _pma_alloc_locked and pma_alloc_contiguous take the lock.
Lock(p) ==
    /\ pm_map_lock = NULL /\ pm_map_lock' = p
    /\ \/ Goes(p, "lock", "locked_scan", 0)
       \/ Goes(p, "contiguous", "contiguous_scan", i[p])
    /\ UNCHANGED <<pm_map, range, held, met>>

LockedScan(p) ==
    /\ IF i[p] = PM_MAP_ELEMENTS
       THEN Return(p, "locked_scan", {}) /\ pm_map_lock' = NULL
       ELSE /\ IF pm_map[i[p]] # 0 THEN Goes(p, "locked_scan", "locked_scan", i[p] + 1)
               ELSE Goes(p, "locked_scan", "++", i[p])
            /\ UNCHANGED <<pm_map_lock, held>>
    /\ UNCHANGED <<pm_map, range, met>>

\* ++pm_map[i] and return with the lock held.  The increment is a plain one: it adds
\* to what is there or to the 0 that was read before, and may overwrite.
LockedInc(p) ==
    LET f == i[p] IN
    /\ Return(p, "++", {f})
    /\ \E seen \in {0, pm_map[f]} :
          /\ Stored(f, seen + 1)
          /\ met' = IF seen = pm_map[f] THEN met ELSE met \cup {f}
    /\ UNCHANGED <<pm_map_lock, range>>

\* The loop of pma_alloc_contiguous (i[p] is its page_count) up to the first free
\* range; the last start it tries leaves one frame after the range.
ContiguousScan(p) ==
    LET starts == {s \in 0 .. PM_MAP_ELEMENTS - i[p] - 1 :
                      \A f \in s .. s + i[p] - 1 : pm_map[f] = 0} IN
    /\ IF starts = {}
       THEN Return(p, "contiguous_scan", {}) /\ pm_map_lock' = NULL /\ UNCHANGED range
       ELSE /\ Goes(p, "contiguous_scan", "set", 0)
            /\ range' = [range EXCEPT ![p] = Min(starts) .. Min(starts) + i[p] - 1]
            /\ UNCHANGED <<pm_map_lock, held>>
    /\ UNCHANGED <<pm_map, met>>

\* kmemset of the range and the release.
ContiguousSet(p) ==
    /\ Return(p, "set", range[p])
    /\ pm_map' = [f \in Frame |-> IF f \in range[p] THEN 1 ELSE pm_map[f]]
    /\ met' = met \cup {f \in range[p] : pm_map[f] # 0}
    /\ pm_map_lock' = NULL /\ range' = [range EXCEPT ![p] = {}]

\* Bound.
MayAsk(p) == pc[p] = "idle" /\ MapThenSumSet(LAMBDA f : held[p][f], Frame) < MaxHeld

pma_alloc(p) == /\ MayAsk(p) /\ Goes(p, "idle", "scan", 0)
                /\ UNCHANGED <<pm_map, pm_map_lock, range, held, met>>

\* A count beyond the map returns 0 at once.
pma_alloc_contiguous(p) ==
    /\ MayAsk(p)
    /\ \E count \in {n \in Counts : n <= PM_MAP_ELEMENTS} : Goes(p, "idle", "contiguous", count)
    /\ UNCHANGED <<pm_map, pm_map_lock, range, held, met>>

\* p gets a reference to a frame another process has.
pma_inc_ref_count(p) ==
    /\ MayAsk(p)
    /\ \E f \in Frame : /\ \E q \in Proc \ {p} : held[q][f] > 0
                        /\ Stored(f, pm_map[f] + 1)
                        /\ held' = [held EXCEPT ![p][f] = @ + 1]
    /\ UNCHANGED <<pm_map_lock, pc, i, range, met>>

\* Mutant: a holder gives the whole frame back.
pma_dec_ref_count_Zero(p) ==
    /\ pc[p] = "idle"
    /\ \E f \in Frame : held[p][f] > 0 /\ Stored(f, 0) /\ held' = [held EXCEPT ![p][f] = @ - 1]
    /\ UNCHANGED <<pm_map_lock, pc, i, range, met>>

\* pma_free is pma_dec_ref_count.
pma_dec_ref_count(p) ==
    /\ pc[p] = "idle"
    /\ \E f \in Frame : /\ held[p][f] > 0
                        /\ Stored(f, pm_map[f] - 1)
                        /\ held' = [held EXCEPT ![p][f] = @ - 1]
    /\ UNCHANGED <<pm_map_lock, pc, i, range, met>>

\* One step of an allocation that has begun.
AllocStep(p) == \/ Scan(p) \/ Inc(p) \/ Rollback(p) \/ Lock(p) \/ LockedScan(p) \/ LockedInc(p)
                \/ ContiguousScan(p) \/ ContiguousSet(p)

Next == \E p \in Proc : \/ AllocStep(p) \/ pma_alloc(p) \/ pma_alloc_contiguous(p)
                        \/ pma_inc_ref_count(p) \/ pma_dec_ref_count(p)

Spec == Init /\ [][Next]_vars

\* A process goes on with its allocation, and a lock that is free again and again
\* is got: more than the mutex promises.
LiveSpec == Spec /\ \A p \in Proc : WF_vars(AllocStep(p)) /\ SF_vars(Lock(p))

-----------------------------------------------------------------------------
(* Properties *)

PC == {"idle", "scan", "inc", "dec", "lock", "locked_scan", "++", "contiguous",
       "contiguous_scan", "set"}

TypeOK == /\ pm_map \in [Frame -> 0 .. Width - 1] /\ pm_map_lock \in Proc \cup {NULL}
          /\ pc \in [Proc -> PC]
          /\ i \in [Proc -> 0 .. PM_MAP_ELEMENTS] /\ range \in [Proc -> SUBSET Frame]
          /\ held \in [Proc -> [Frame -> Nat]] /\ met \subseteq Frame

\* References to f: those held, numbered from 1, and number 0 for an allocation
\* between its increment and its rollback.
Claims(p, f) == (IF pc[p] = "dec" /\ i[p] = f THEN 0 ELSE 1) .. held[p][f]
References(f) == UNION {{p} \X Claims(p, f) : p \in Proc}
Refs(f) == Cardinality(References(f))

\* The count of a frame is exact, whatever allocations, shares and frees run at the
\* same time, unless two allocations met on it: the rollback of pma_alloc, the plain
\* ++ of _pma_alloc_locked and the kmemset of pma_alloc_contiguous are the only
\* places that lose references.
CountExactUnlessMet == \A f \in Frame \ (met \cup Reserved) : pm_map[f] = Refs(f) % Width

\* A frame that boot reserved is never given out and its count never changes.
ReservedIsKept == \A f \in Reserved : pm_map[f] = Width - 1 /\ Refs(f) = 0

\* pma_alloc, pma_alloc_contiguous, pma_inc_ref_count and pma_free keep the counts of
\* frames, but where two allocations met, and the frames boot reserved.
FramesAreCounted == TypeOK /\ CountExactUnlessMet /\ ReservedIsKept

\* An allocation by pma_alloc that found "this frame was allocated somewhere
\* inbetween, rollback" does not return the frame that the other one has.
\* Not so in the code: see README, "Disagreements".
NewFrameIsMine ==
    [][\A p \in Proc : \A f \in Frame :
          (pc[p] = "dec" /\ held'[p][f] > held[p][f])
             => \A q \in Proc \ {p} : held[q][f] = 0]_vars

\* An allocation comes to an end: the second scan under the lock, tried "to make
\* sure we didn't miss anything", returns a frame or 0.
\* Not so in the code: see README, "Disagreements".
AllocReturns == \A p \in Proc : pc[p] = "lock" ~> pc[p] = "idle"
=============================================================================
