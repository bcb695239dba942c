----------------------------- MODULE PmaProofs -----------------------------
(***************************************************************************)
(* Proofs about Pma, for any processes, any number of frames, any width of *)
(* the counts and any reserved frames.                                     *)
(***************************************************************************)
EXTENDS Pma, FiniteSetTheorems, TLAPS

\* A frame about to be taken, or taken for a moment, is not one of the reserved ones.
ScanInv == \A p \in Proc :
             /\ pc[p] \in {"inc", "dec", "++"} => i[p] \in Frame \ Reserved
             /\ range[p] \cap Reserved = {}

\* There are finitely many references to a frame.
RefsFinite == \A f \in Frame : IsFiniteSet(References(f))

PInv == TypeOK /\ ScanInv /\ RefsFinite /\ CountExactUnlessMet /\ ReservedIsKept

-----------------------------------------------------------------------------
(* Arithmetic of counts that wrap around *)

\* Quotient and remainder.
LEMMA DivMod ==
  ASSUME NEW a \in Int, NEW W \in Nat \ {0}
  PROVE  a = W * (a \div W) + (a % W) /\ a % W \in 0 .. W - 1 /\ a \div W \in Int
OBVIOUS

\* The remainder of a number that is given as quotient and remainder.
LEMMA ModOf ==
  ASSUME NEW W \in Nat \ {0}, NEW q \in Int, NEW m \in 0 .. W - 1
  PROVE  (W * q + m) % W = m
OBVIOUS

\* Counting up before or after the remainder is taken is the same.
LEMMA ModSucc ==
  ASSUME NEW a \in Int, NEW W \in Nat \ {0}
  PROVE  (a + 1) % W = ((a % W) + 1) % W
<1>1. PICK q \in Int, m \in 0 .. W - 1 : a = W * q + m /\ a % W = m
  BY Zenon, DivMod
<1>2. CASE m + 1 < W
  <2>1. m + 1 \in 0 .. W - 1 /\ a + 1 = W * q + (m + 1)
    BY <1>1, <1>2
  <2>2. (a + 1) % W = m + 1
    BY Zenon, <2>1, ModOf
  <2>3. (m + 1) % W = m + 1
    BY <2>1
  <2> QED BY Zenon, <1>1, <2>2, <2>3
<1>3. CASE m + 1 = W
  <2>1. a + 1 = W * (q + 1) + 0 /\ q + 1 \in Int /\ 0 \in 0 .. W - 1
    BY <1>1, <1>3
  <2>2. (a + 1) % W = 0
    BY Zenon, <2>1, ModOf
  <2>3. W % W = 0
    <3>1. W = W * 1 + 0 /\ 0 \in 0 .. W - 1
      OBVIOUS
    <3> QED BY <3>1, ModOf
  <2> QED BY Zenon, <1>1, <1>3, <2>2, <2>3
<1> QED BY <1>2, <1>3

\* And so is counting down.
LEMMA ModPred ==
  ASSUME NEW a \in Int, NEW W \in Nat \ {0}
  PROVE  (a - 1) % W = ((a % W) - 1) % W
<1>1. PICK q \in Int, m \in 0 .. W - 1 : a = W * q + m /\ a % W = m
  BY Zenon, DivMod
<1>2. CASE m > 0
  <2>1. m - 1 \in 0 .. W - 1 /\ a - 1 = W * q + (m - 1)
    BY <1>1, <1>2
  <2>2. (a - 1) % W = m - 1
    BY <2>1, ModOf
  <2>3. (m - 1) % W = m - 1
    BY <2>1
  <2> QED BY Zenon, <1>1, <2>2, <2>3
<1>3. CASE m = 0
  <2>1. a - 1 = W * (q - 1) + (W - 1) /\ q - 1 \in Int /\ W - 1 \in 0 .. W - 1
    BY <1>1, <1>3
  <2>2. (a - 1) % W = W - 1
    BY Zenon, <2>1, ModOf
  <2>3. (0 - 1) % W = W - 1
    <3>1. 0 - 1 = W * (-1) + (W - 1) /\ -1 \in Int /\ W - 1 \in 0 .. W - 1
      OBVIOUS
    <3> QED BY <3>1, ModOf
  <2> QED BY Zenon, <1>1, <1>3, <2>2, <2>3
<1> QED BY <1>2, <1>3

\* A stored count is a count.
LEMMA ModType ==
  ASSUME NEW a \in Int
  PROVE  a % Width \in 0 .. Width - 1
BY Zenon, DivMod, PmaAssumption

-----------------------------------------------------------------------------
(* References *)

\* A reference is a process and a number it uses.
LEMMA InReferences ==
  ASSUME NEW f, NEW p \in Proc, NEW k
  PROVE  <<p, k>> \in References(f) <=> k \in Claims(p, f)
BY DEF References

\* Claims that change at one process change the references there.
LEMMA ReferencesAt ==
  ASSUME NEW f, NEW p \in Proc, \A q \in Proc \ {p} : Claims(q, f)' = Claims(q, f)
  PROVE  /\ Claims(p, f)' = Claims(p, f) => References(f)' = References(f)
         /\ \A k : k \notin Claims(p, f) /\ Claims(p, f)' = Claims(p, f) \cup {k} =>
              /\ <<p, k>> \notin References(f)
              /\ References(f)' = References(f) \cup {<<p, k>>}
         /\ \A k : k \in Claims(p, f) /\ Claims(p, f)' = Claims(p, f) \ {k} =>
              /\ <<p, k>> \in References(f)
              /\ References(f)' = References(f) \ {<<p, k>>}
BY DEF References
\* What the invariant says of one frame.
FrameOK(f) == /\ IsFiniteSet(References(f))
              /\ f \notin met \cup Reserved => pm_map[f] = Refs(f) % Width
              /\ f \in Reserved => pm_map[f] = Width - 1 /\ Refs(f) = 0

LEMMA FrameByFrame ==
  /\ RefsFinite /\ CountExactUnlessMet /\ ReservedIsKept => \A f \in Frame : FrameOK(f)
  /\ (\A f \in Frame : FrameOK(f)') => (RefsFinite /\ CountExactUnlessMet /\ ReservedIsKept)'
BY Zenon, PmaAssumption DEF RefsFinite, CountExactUnlessMet, ReservedIsKept, FrameOK

\* A frame whose count and references stay.
LEMMA Untouched ==
  ASSUME NEW f \in Frame, FrameOK(f), pm_map'[f] = pm_map[f], met \subseteq met',
         References(f)' = References(f)
  PROVE  FrameOK(f)'
BY Zenon DEF FrameOK, Refs

\* A frame whose count is incremented with a reference.
LEMMA Taken ==
  ASSUME NEW f \in Frame \ Reserved, FrameOK(f), met \subseteq met',
         pm_map'[f] = (pm_map[f] + 1) % Width,
         NEW r, r \notin References(f), References(f)' = References(f) \cup {r}
  PROVE  FrameOK(f)'
<1>1. IsFiniteSet(References(f)) /\ Refs(f) \in Nat
  BY Zenon, FS_CardinalityType DEF FrameOK, Refs
<1>2. IsFiniteSet(References(f))' /\ Refs(f)' = Refs(f) + 1
  BY <1>1, FS_AddElement DEF Refs
<1>3. (Refs(f) + 1) % Width = ((Refs(f) % Width) + 1) % Width
  BY <1>1, ModSucc, PmaAssumption
<1> QED BY Zenon, <1>2, <1>3 DEF FrameOK

\* A frame whose count is decremented with a reference.
LEMMA Given ==
  ASSUME NEW f \in Frame \ Reserved, FrameOK(f), met \subseteq met',
         pm_map'[f] = (pm_map[f] - 1) % Width,
         NEW r \in References(f), References(f)' = References(f) \ {r}
  PROVE  FrameOK(f)'
<1>1. IsFiniteSet(References(f)) /\ Refs(f) \in Nat
  BY Zenon, FS_CardinalityType DEF FrameOK, Refs
<1>2. IsFiniteSet(References(f))' /\ Refs(f)' = Refs(f) - 1
  BY <1>1, FS_RemoveElement DEF Refs
<1>3. (Refs(f) - 1) % Width = ((Refs(f) % Width) - 1) % Width
  BY <1>1, ModPred, PmaAssumption
<1> QED BY Zenon, <1>2, <1>3 DEF FrameOK

\* A frame on which two allocations met.
LEMMA Met ==
  ASSUME NEW f \in Frame \ Reserved, FrameOK(f), f \in met',
         NEW r, References(f)' \subseteq References(f) \cup {r}
  PROVE  FrameOK(f)'
<1>1. IsFiniteSet(References(f) \cup {r})
  BY Zenon, FS_AddElement DEF FrameOK
<1>2. IsFiniteSet(References(f)')
  BY Zenon, <1>1, FS_Subset
<1> QED BY Zenon, <1>2 DEF FrameOK

\* The references after a step of p: of the other processes none changes.
LEMMA StepClaims ==
  ASSUME NEW p \in Proc, NEW f \in Frame,
         \A q \in Proc \ {p} : pc'[q] = pc[q] /\ i'[q] = i[q] /\ held'[q] = held[q]
  PROVE  \A q \in Proc \ {p} : Claims(q, f)' = Claims(q, f)
BY Zenon DEF Claims

\* p has no rollback of f to do, before or after its step, and has its references still.
LEMMA SameClaims ==
  ASSUME NEW p \in Proc, NEW f \in Frame,
         \A q \in Proc \ {p} : pc'[q] = pc[q] /\ i'[q] = i[q] /\ held'[q] = held[q],
         ~(pc[p] = "dec" /\ i[p] = f), ~(pc'[p] = "dec" /\ i'[p] = f),
         held'[p][f] = held[p][f]
  PROVE  References(f)' = References(f)
<1>1. Claims(p, f)' = Claims(p, f)
  BY Zenon DEF Claims
<1> QED BY Zenon, <1>1, StepClaims, ReferencesAt

\* p gets one more reference.
LEMMA OneMore ==
  ASSUME NEW p \in Proc, NEW f \in Frame, held[p][f] \in Nat,
         \A q \in Proc \ {p} : pc'[q] = pc[q] /\ i'[q] = i[q] /\ held'[q] = held[q],
         pc[p] # "dec", pc'[p] # "dec", held'[p][f] = held[p][f] + 1
  PROVE  \E r : r \notin References(f) /\ References(f)' = References(f) \cup {r}
<1>1. Claims(p, f) = 1 .. held[p][f] /\ Claims(p, f)' = 1 .. held[p][f] + 1
  BY Zenon DEF Claims
<1> DEFINE k == held[p][f] + 1
<1>2. k \notin Claims(p, f) /\ Claims(p, f)' = Claims(p, f) \cup {k}
  BY <1>1
<1>3. \A q \in Proc \ {p} : Claims(q, f)' = Claims(q, f)
  BY Zenon, StepClaims
<1> HIDE DEF k
<1> QED BY Zenon, <1>2, <1>3, ReferencesAt

\* p gives one back.
LEMMA OneLess ==
  ASSUME NEW p \in Proc, NEW f \in Frame, held[p][f] \in Nat \ {0},
         \A q \in Proc \ {p} : pc'[q] = pc[q] /\ i'[q] = i[q] /\ held'[q] = held[q],
         pc[p] # "dec", pc'[p] # "dec", held'[p][f] = held[p][f] - 1
  PROVE  \E r \in References(f) : References(f)' = References(f) \ {r}
<1>1. Claims(p, f) = 1 .. held[p][f] /\ Claims(p, f)' = 1 .. held[p][f] - 1
  BY Zenon DEF Claims
<1>2. held[p][f] \in Claims(p, f) /\ Claims(p, f)' = Claims(p, f) \ {held[p][f]}
  BY <1>1
<1> QED BY Zenon, <1>2, StepClaims, ReferencesAt

\* p takes the reference that it is to roll back.
LEMMA OneToRollBack ==
  ASSUME NEW p \in Proc, NEW f \in Frame, held[p][f] \in Nat,
         \A q \in Proc \ {p} : pc'[q] = pc[q] /\ i'[q] = i[q] /\ held'[q] = held[q],
         pc[p] # "dec", pc'[p] = "dec", i'[p] = f, held'[p][f] = held[p][f]
  PROVE  \E r : r \notin References(f) /\ References(f)' = References(f) \cup {r}
<1>1. Claims(p, f) = 1 .. held[p][f] /\ Claims(p, f)' = 0 .. held[p][f]
  BY Zenon DEF Claims
<1>2. 0 \notin Claims(p, f) /\ Claims(p, f)' = Claims(p, f) \cup {0}
  BY <1>1
<1> QED BY Zenon, <1>2, StepClaims, ReferencesAt

-----------------------------------------------------------------------------
(* Steps *)

\* Where a step takes p.
LEMMA GoesFacts ==
  ASSUME TypeOK, NEW p \in Proc, NEW from, NEW to \in PC, NEW x \in 0 .. PM_MAP_ELEMENTS,
         Goes(p, from, to, x)
  PROVE  /\ pc[p] = from /\ pc'[p] = to /\ i'[p] = x
         /\ \A q \in Proc \ {p} : pc'[q] = pc[q] /\ i'[q] = i[q]
         /\ pc' \in [Proc -> PC] /\ i' \in [Proc -> 0 .. PM_MAP_ELEMENTS]
BY Zenon DEF TypeOK, Goes

\* A return with the frames fs.
LEMMA ReturnFacts ==
  ASSUME TypeOK, NEW p \in Proc, NEW from, NEW fs, Return(p, from, fs)
  PROVE  /\ pc[p] = from /\ pc'[p] = "idle"
         /\ \A q \in Proc \ {p} : pc'[q] = pc[q] /\ i'[q] = i[q] /\ held'[q] = held[q]
         /\ pc' \in [Proc -> PC] /\ i' \in [Proc -> 0 .. PM_MAP_ELEMENTS]
         /\ held' \in [Proc -> [Frame -> Nat]]
         /\ \A f \in Frame : /\ held[p][f] \in Nat
                             /\ f \in fs => held'[p][f] = held[p][f] + 1
                             /\ f \notin fs => held'[p][f] = held[p][f]
<1>1. "idle" \in PC /\ 0 \in 0 .. PM_MAP_ELEMENTS
  BY PmaAssumption DEF PC
<1>2. Goes(p, from, "idle", 0)
  BY Zenon DEF Return
<1>3. held \in [Proc -> [Frame -> Nat]]
  BY Zenon DEF TypeOK
<1>4. \A f \in Frame : /\ held[p][f] \in Nat
                       /\ held[p][f] + (IF f \in fs THEN 1 ELSE 0) \in Nat
  BY <1>3
<1>5. held' \in [Proc -> [Frame -> Nat]]
  BY Zenon, <1>3, <1>4 DEF Return
<1>6. /\ \A q \in Proc \ {p} : held'[q] = held[q]
      /\ \A f \in Frame : held'[p][f] = held[p][f] + (IF f \in fs THEN 1 ELSE 0)
  BY Zenon, <1>3 DEF Return
<1>7. \A f \in Frame : /\ f \in fs => held'[p][f] = held[p][f] + 1
                       /\ f \notin fs => held'[p][f] = held[p][f]
  BY <1>4, <1>6
<1>8. /\ pc[p] = from /\ pc'[p] = "idle"
      /\ \A q \in Proc \ {p} : pc'[q] = pc[q] /\ i'[q] = i[q]
      /\ pc' \in [Proc -> PC] /\ i' \in [Proc -> 0 .. PM_MAP_ELEMENTS]
  BY Zenon, <1>1, <1>2, GoesFacts
<1> QED BY Zenon, <1>4, <1>5, <1>6, <1>7, <1>8

\* A step that changes no count and no reference.
LEMMA QuietInv ==
  ASSUME PInv, NEW p \in Proc,
         pm_map' = pm_map, met' = met, pm_map_lock' \in Proc \cup {NULL},
         pc' \in [Proc -> PC], i' \in [Proc -> 0 .. PM_MAP_ELEMENTS],
         range' \in [Proc -> SUBSET Frame], held' \in [Proc -> [Frame -> Nat]],
         \A q \in Proc \ {p} : /\ pc'[q] = pc[q] /\ i'[q] = i[q]
                               /\ held'[q] = held[q] /\ range'[q] = range[q],
         \A f \in Frame : held'[p][f] = held[p][f],
         pc[p] # "dec", pc'[p] # "dec",
         pc'[p] \in {"inc", "++"} => i'[p] \in Frame \ Reserved,
         range'[p] \cap Reserved = {}
  PROVE  PInv'
<1>1. TypeOK'
  BY Zenon DEF PInv, TypeOK
<1>2. ScanInv'
  BY DEF PInv, ScanInv
<1>3. ASSUME NEW f \in Frame PROVE FrameOK(f)'
  <2>1. References(f)' = References(f)
    BY SameClaims
  <2>2. FrameOK(f)
    BY Zenon, FrameByFrame DEF PInv
  <2> QED BY Zenon, <2>1, <2>2, Untouched
<1>4. (RefsFinite /\ CountExactUnlessMet /\ ReservedIsKept)'
  BY <1>3, FrameByFrame
<1> QED BY Zenon, <1>1, <1>2, <1>4 DEF PInv

\* A frame of count 0 is not reserved.
LEMMA FreeIsNotReserved ==
  ASSUME PInv, NEW f \in Frame, pm_map[f] = 0
  PROVE  f \notin Reserved
BY PmaAssumption DEF PInv, ReservedIsKept

\* The loop of pma_alloc, the scan under the lock, taking the lock, and the calls.
LEMMA ScansInv ==
  ASSUME PInv, NEW p \in Proc,
         \/ Scan(p) \/ Lock(p) \/ LockedScan(p) \/ pma_alloc(p) \/ pma_alloc_contiguous(p)
  PROVE  PInv'
<1>0. /\ TypeOK /\ range \in [Proc -> SUBSET Frame] /\ held \in [Proc -> [Frame -> Nat]]
      /\ pm_map_lock \in Proc \cup {NULL} /\ range[p] \cap Reserved = {}
      /\ i[p] \in 0 .. PM_MAP_ELEMENTS
      /\ PM_MAP_ELEMENTS \in Nat
  BY PmaAssumption DEF PInv, TypeOK, ScanInv
<1>1. ASSUME NEW from \in PC \ {"dec"}, NEW to \in PC \ {"dec"}, NEW x \in 0 .. PM_MAP_ELEMENTS,
             Goes(p, from, to, x), UNCHANGED <<pm_map, range, held, met>>,
             pm_map_lock' \in Proc \cup {NULL},
             to \in {"inc", "++"} => x \in Frame \ Reserved
      PROVE  PInv'
  <2>1. /\ pc[p] = from /\ pc'[p] = to /\ i'[p] = x
        /\ \A q \in Proc \ {p} : pc'[q] = pc[q] /\ i'[q] = i[q]
        /\ pc' \in [Proc -> PC] /\ i' \in [Proc -> 0 .. PM_MAP_ELEMENTS]
    BY Zenon, <1>0, <1>1, GoesFacts
  <2> QED BY <1>0, <1>1, <2>1, QuietInv
<1>2. i[p] # PM_MAP_ELEMENTS /\ pm_map[i[p]] = 0 => i[p] \in Frame \ Reserved
  BY <1>0, FreeIsNotReserved DEF Frame
<1>3. i[p] # PM_MAP_ELEMENTS => i[p] + 1 \in 0 .. PM_MAP_ELEMENTS
  <2>1. i[p] \in 0 .. PM_MAP_ELEMENTS /\ PM_MAP_ELEMENTS \in Nat
    BY <1>0
  <2> QED BY <2>1
<1>4. 0 \in 0 .. PM_MAP_ELEMENTS
  BY <1>0
<1>5. CASE Scan(p)
  <2>1. UNCHANGED <<pm_map, pm_map_lock, range, held, met>>
    BY <1>5 DEF Scan
  <2>2. \/ Goes(p, "scan", "lock", 0)
        \/ i[p] # PM_MAP_ELEMENTS /\ Goes(p, "scan", "scan", i[p] + 1)
        \/ i[p] # PM_MAP_ELEMENTS /\ pm_map[i[p]] = 0 /\ Goes(p, "scan", "inc", i[p])
    BY Zenon, <1>5 DEF Scan
  <2> QED BY <1>0, <1>1, <1>2, <1>3, <1>4, <2>1, <2>2 DEF PC
<1>6. CASE Lock(p)
  BY <1>0, <1>1, <1>4, <1>6 DEF Lock, PC
<1>7. CASE LockedScan(p)
  <2>1. UNCHANGED <<pm_map, range, met>>
    BY <1>7 DEF LockedScan
  <2>2. \/ Return(p, "locked_scan", {}) /\ pm_map_lock' = NULL
        \/ /\ UNCHANGED <<pm_map_lock, held>>
           /\ \/ i[p] # PM_MAP_ELEMENTS /\ Goes(p, "locked_scan", "locked_scan", i[p] + 1)
              \/ i[p] # PM_MAP_ELEMENTS /\ pm_map[i[p]] = 0 /\ Goes(p, "locked_scan", "++", i[p])
    BY Zenon, <1>7 DEF LockedScan
  <2>3. CASE Return(p, "locked_scan", {}) /\ pm_map_lock' = NULL
    <3>1. /\ pc[p] = "locked_scan" /\ pc'[p] = "idle"
          /\ \A q \in Proc \ {p} : pc'[q] = pc[q] /\ i'[q] = i[q] /\ held'[q] = held[q]
          /\ pc' \in [Proc -> PC] /\ i' \in [Proc -> 0 .. PM_MAP_ELEMENTS]
          /\ held' \in [Proc -> [Frame -> Nat]]
          /\ \A f \in Frame : held'[p][f] = held[p][f]
      BY <1>0, <2>3, ReturnFacts
    <3> QED BY <1>0, <2>1, <2>3, <3>1, QuietInv
  <2> QED BY <1>0, <1>1, <1>2, <1>3, <2>1, <2>2, <2>3 DEF PC
<1>8. CASE pma_alloc(p)
  BY <1>0, <1>1, <1>4, <1>8 DEF pma_alloc, PC
<1>9. CASE pma_alloc_contiguous(p)
  <2>1. PICK count \in {n \in Counts : n <= PM_MAP_ELEMENTS} :
            Goes(p, "idle", "contiguous", count)
    BY <1>9 DEF pma_alloc_contiguous
  <2>2. count \in 0 .. PM_MAP_ELEMENTS
    BY PmaAssumption
  <2> QED BY <1>0, <1>1, <1>9, <2>1, <2>2 DEF pma_alloc_contiguous, PC
<1> QED BY Zenon, <1>5, <1>6, <1>7, <1>8, <1>9

\* A set of natural numbers that is not empty has a least element.
LEMMA NatMin ==
  ASSUME NEW S \in SUBSET Nat, S # {}
  PROVE  Min(S) \in S
<1>1. IsWellFoundedOn(OpToRel(<, Nat), Nat)
  BY Zenon, NatLessThanWellFounded
<1>2. PICK x \in S : \A y \in S : <<y, x>> \notin OpToRel(<, Nat)
  BY Zenon, <1>1, WFMin
<1>3. \A y \in S : ~(y < x)
  BY Zenon, <1>2 DEF OpToRel
<1>4. \A y \in S : x =< y
  BY <1>3
<1> QED BY Zenon, <1>4 DEF Min

\* The scan of pma_alloc_contiguous finds frames of the map that are free.
LEMMA ContiguousScanInv ==
  ASSUME PInv, NEW p \in Proc, ContiguousScan(p)
  PROVE  PInv'
<1>0. /\ TypeOK /\ range \in [Proc -> SUBSET Frame] /\ held \in [Proc -> [Frame -> Nat]]
      /\ pm_map_lock \in Proc \cup {NULL} /\ range[p] \cap Reserved = {}
      /\ i[p] \in 0 .. PM_MAP_ELEMENTS
      /\ PM_MAP_ELEMENTS \in Nat
  BY PmaAssumption DEF PInv, TypeOK, ScanInv
<1> DEFINE starts == {s \in 0 .. PM_MAP_ELEMENTS - i[p] - 1 :
                         \A f \in s .. s + i[p] - 1 : pm_map[f] = 0}
           found == Min(starts) .. Min(starts) + i[p] - 1
<1>1. pm_map' = pm_map /\ met' = met
  BY DEF ContiguousScan
<1>2. CASE starts = {}
  <2>1. Return(p, "contiguous_scan", {}) /\ pm_map_lock' = NULL /\ range' = range
    BY Zenon, <1>2 DEF ContiguousScan
  <2>2. /\ pc[p] = "contiguous_scan" /\ pc'[p] = "idle"
        /\ \A q \in Proc \ {p} : pc'[q] = pc[q] /\ i'[q] = i[q] /\ held'[q] = held[q]
        /\ pc' \in [Proc -> PC] /\ i' \in [Proc -> 0 .. PM_MAP_ELEMENTS]
        /\ held' \in [Proc -> [Frame -> Nat]]
        /\ \A f \in Frame : held'[p][f] = held[p][f]
    BY <1>0, <2>1, ReturnFacts
  <2> HIDE DEF starts, found
  <2> QED BY <1>0, <1>1, <2>1, <2>2, QuietInv
<1>3. CASE starts # {}
  <2>1. /\ Goes(p, "contiguous_scan", "set", 0) /\ UNCHANGED <<pm_map_lock, held>>
        /\ range' = [range EXCEPT ![p] = found]
    BY Zenon, <1>3 DEF ContiguousScan
  <2>2. Min(starts) \in starts
    <3>1. starts \in SUBSET Nat
      BY <1>0
    <3> HIDE DEF starts
    <3> QED BY <1>3, <3>1, NatMin
  <2>3. PICK s \in Nat : s = Min(starts) /\ s + i[p] < PM_MAP_ELEMENTS
                         /\ \A f \in s .. s + i[p] - 1 : pm_map[f] = 0
    <3>1. /\ Min(starts) \in 0 .. PM_MAP_ELEMENTS - i[p] - 1
          /\ \A f \in Min(starts) .. Min(starts) + i[p] - 1 : pm_map[f] = 0
      BY Zenon, <2>2
    <3> HIDE DEF starts, found
    <3> QED BY <1>0, <3>1
  <2>4. \A f \in found : f \in Frame /\ pm_map[f] = 0
    <3>1. found = s .. s + i[p] - 1
      BY <2>3
    <3> HIDE DEF starts, found
    <3> QED BY <1>0, <2>3, <3>1 DEF Frame
  <2> HIDE DEF starts, found
  <2>5. found \in SUBSET Frame /\ found \cap Reserved = {}
    BY <2>4, FreeIsNotReserved
  <2>6. range' \in [Proc -> SUBSET Frame] /\ range'[p] = found
        /\ \A q \in Proc \ {p} : range'[q] = range[q]
    BY <1>0, <2>1, <2>5
  <2>7. "set" \in PC /\ 0 \in 0 .. PM_MAP_ELEMENTS
    BY <1>0 DEF PC
  <2>8. /\ pc[p] = "contiguous_scan" /\ pc'[p] = "set"
        /\ \A q \in Proc \ {p} : pc'[q] = pc[q] /\ i'[q] = i[q]
        /\ pc' \in [Proc -> PC] /\ i' \in [Proc -> 0 .. PM_MAP_ELEMENTS]
    BY Zenon, <1>0, <2>1, <2>7, GoesFacts
  <2> QED BY <1>0, <1>1, <2>1, <2>5, <2>6, <2>8, QuietInv
<1> QED BY <1>2, <1>3

\* A step of p that changes one frame.
LEMMA OneFrameInv ==
  ASSUME PInv, NEW p \in Proc, NEW g \in Frame, NEW x \in Int,
         Stored(g, x), met \subseteq met', met' \subseteq Frame,
         UNCHANGED <<pm_map_lock, range>>,
         pc' \in [Proc -> PC], i' \in [Proc -> 0 .. PM_MAP_ELEMENTS],
         held' \in [Proc -> [Frame -> Nat]],
         \A q \in Proc \ {p} : pc'[q] = pc[q] /\ i'[q] = i[q] /\ held'[q] = held[q],
         \A f \in Frame \ {g} : held'[p][f] = held[p][f],
         pc[p] = "dec" => i[p] = g, pc'[p] = "dec" => i'[p] = g,
         pc'[p] \in {"inc", "dec", "++"} => i'[p] \in Frame \ Reserved,
         FrameOK(g)'
  PROVE  PInv'
<1>1. pm_map' \in [Frame -> 0 .. Width - 1] /\ \A f \in Frame \ {g} : pm_map'[f] = pm_map[f]
  <2>1. x % Width \in 0 .. Width - 1
    BY ModType
  <2> QED BY <2>1 DEF Stored, PInv, TypeOK
<1>2. TypeOK'
  BY <1>1 DEF PInv, TypeOK
<1>3. ScanInv'
  BY DEF PInv, ScanInv
<1>4. ASSUME NEW f \in Frame \ {g} PROVE FrameOK(f)'
  <2>1. References(f)' = References(f)
    BY SameClaims
  <2>2. FrameOK(f)
    BY FrameByFrame DEF PInv
  <2> QED BY <1>1, <2>1, <2>2, Untouched
<1>5. (RefsFinite /\ CountExactUnlessMet /\ ReservedIsKept)'
  BY <1>4, FrameByFrame
<1> QED BY <1>2, <1>3, <1>5 DEF PInv

\* The atomic increment: p has the frame, or has to roll back.
LEMMA IncInv ==
  ASSUME PInv, NEW p \in Proc, Inc(p)
  PROVE  PInv'
<1>1. /\ TypeOK /\ pc[p] = "inc" /\ met \subseteq Frame
      /\ held \in [Proc -> [Frame -> Nat]] /\ pm_map \in [Frame -> 0 .. Width - 1]
  BY DEF PInv, TypeOK, Inc
<1>2. PICK g \in Frame \ Reserved : g = i[p]
  BY <1>1 DEF PInv, ScanInv
<1>3. FrameOK(g) /\ pm_map[g] + 1 \in Int /\ held[p][g] \in Nat
  BY <1>1, FrameByFrame DEF PInv
<1>4. Stored(g, pm_map[g] + 1) /\ UNCHANGED <<pm_map_lock, range, met>>
  BY Zenon, <1>2 DEF Inc
<1>5. pm_map'[g] = (pm_map[g] + 1) % Width
  BY Zenon, <1>1, <1>4 DEF Stored
<1>6. CASE Return(p, "inc", {g})
  <2>1. /\ pc'[p] = "idle"
        /\ \A q \in Proc \ {p} : pc'[q] = pc[q] /\ i'[q] = i[q] /\ held'[q] = held[q]
        /\ pc' \in [Proc -> PC] /\ i' \in [Proc -> 0 .. PM_MAP_ELEMENTS]
        /\ held' \in [Proc -> [Frame -> Nat]]
        /\ held'[p][g] = held[p][g] + 1
        /\ \A f \in Frame \ {g} : held'[p][f] = held[p][f]
    BY <1>1, <1>6, ReturnFacts
  <2>2. PICK r : r \notin References(g) /\ References(g)' = References(g) \cup {r}
    BY Zenon, <1>1, <1>3, <2>1, OneMore
  <2>3. FrameOK(g)'
    BY <1>3, <1>4, <1>5, <2>2, Taken
  <2>4. \E x \in Int : Stored(g, x)
    BY <1>3, <1>4
  <2>5. /\ met \subseteq met' /\ met' \subseteq Frame /\ pc[p] # "dec"
        /\ pc'[p] \notin {"inc", "dec", "++"}
    BY <1>1, <1>4, <2>1
  <2> QED BY <1>4, <2>1, <2>3, <2>4, <2>5, OneFrameInv
<1>7. CASE Goes(p, "inc", "dec", g) /\ UNCHANGED held
  <2>1. "dec" \in PC /\ g \in 0 .. PM_MAP_ELEMENTS
    BY <1>2 DEF PC, TypeOK, PInv
  <2>2. /\ pc'[p] = "dec" /\ i'[p] = g
        /\ \A q \in Proc \ {p} : pc'[q] = pc[q] /\ i'[q] = i[q] /\ held'[q] = held[q]
        /\ pc' \in [Proc -> PC] /\ i' \in [Proc -> 0 .. PM_MAP_ELEMENTS]
        /\ held' \in [Proc -> [Frame -> Nat]]
        /\ \A f \in Frame : held'[p][f] = held[p][f]
    BY Zenon, <1>1, <1>7, <2>1, GoesFacts
  <2>3. PICK r : r \notin References(g) /\ References(g)' = References(g) \cup {r}
    BY <1>1, <1>3, <2>2, OneToRollBack
  <2>4. FrameOK(g)'
    BY Zenon, <1>3, <1>4, <1>5, <2>3, Taken
  <2> QED BY <1>1, <1>3, <1>4, <2>2, <2>4, OneFrameInv
<1> QED BY <1>2, <1>6, <1>7 DEF Inc

\* The rollback.
LEMMA RollbackInv ==
  ASSUME PInv, NEW p \in Proc, Rollback(p)
  PROVE  PInv'
<1>1. /\ TypeOK /\ met \subseteq Frame
      /\ held \in [Proc -> [Frame -> Nat]] /\ pm_map \in [Frame -> 0 .. Width - 1]
  BY DEF PInv, TypeOK
<1>2. Return(p, "dec", {i[p]})
  BY DEF Rollback
<1>3. pc[p] = "dec"
  BY <1>1, <1>2, ReturnFacts
<1>4. PICK g \in Frame \ Reserved : g = i[p]
  BY <1>3 DEF PInv, ScanInv
<1>5. /\ pc'[p] = "idle"
      /\ \A q \in Proc \ {p} : pc'[q] = pc[q] /\ i'[q] = i[q] /\ held'[q] = held[q]
      /\ pc' \in [Proc -> PC] /\ i' \in [Proc -> 0 .. PM_MAP_ELEMENTS]
      /\ held' \in [Proc -> [Frame -> Nat]]
      /\ held'[p][g] = held[p][g] + 1
      /\ \A f \in Frame \ {g} : held'[p][f] = held[p][f]
  BY <1>1, <1>2, <1>4, ReturnFacts
<1>6. FrameOK(g) /\ pm_map[g] - 1 \in Int /\ held[p][g] \in Nat
  BY <1>1, FrameByFrame DEF PInv
<1>7. /\ Stored(g, pm_map[g] - 1) /\ met' = met \cup {g} /\ UNCHANGED <<pm_map_lock, range>>
  BY <1>4 DEF Rollback
<1>8. PICK r : References(g)' \subseteq References(g) \cup {r}
  <2>1. Claims(p, g) = 0 .. held[p][g] /\ Claims(p, g)' = 1 .. held[p][g] + 1
    BY Zenon, <1>3, <1>4, <1>5 DEF Claims
  <2> DEFINE k == held[p][g] + 1
  <2>2. Claims(p, g)' \subseteq Claims(p, g) \cup {k}
    BY <1>6, <2>1
  <2>3. \A q \in Proc \ {p} : Claims(q, g)' = Claims(q, g)
    BY Zenon, <1>5, StepClaims
  <2> HIDE DEF k
  <2>4. References(g)' \subseteq References(g) \cup {<<p, k>>}
    BY <2>2, <2>3 DEF References
  <2> QED BY Zenon, <2>4
<1>9. FrameOK(g)'
  BY <1>6, <1>7, <1>8, Met
<1>10. \E x \in Int : Stored(g, x)
  BY <1>6, <1>7
<1>11. /\ met \subseteq met' /\ met' \subseteq Frame /\ pc'[p] \notin {"inc", "dec", "++"}
  BY <1>1, <1>5, <1>7
<1> QED BY Zenon, <1>4, <1>5, <1>7, <1>9, <1>10, <1>11, OneFrameInv

\* The increment under the lock: exact, or an overwriting one that is in met.
LEMMA LockedIncInv ==
  ASSUME PInv, NEW p \in Proc, LockedInc(p)
  PROVE  PInv'
<1>1. /\ TypeOK /\ met \subseteq Frame
      /\ held \in [Proc -> [Frame -> Nat]] /\ pm_map \in [Frame -> 0 .. Width - 1]
  BY Zenon DEF PInv, TypeOK
<1>2. Return(p, "++", {i[p]})
  BY DEF LockedInc
<1>3. pc[p] = "++"
  BY <1>1, <1>2, ReturnFacts
<1>4. PICK g \in Frame \ Reserved : g = i[p]
  BY <1>3 DEF PInv, ScanInv
<1>5. /\ pc'[p] = "idle"
      /\ \A q \in Proc \ {p} : pc'[q] = pc[q] /\ i'[q] = i[q] /\ held'[q] = held[q]
      /\ pc' \in [Proc -> PC] /\ i' \in [Proc -> 0 .. PM_MAP_ELEMENTS]
      /\ held' \in [Proc -> [Frame -> Nat]]
      /\ held'[p][g] = held[p][g] + 1
      /\ \A f \in Frame \ {g} : held'[p][f] = held[p][f]
  BY <1>1, <1>2, <1>4, ReturnFacts
<1>6. FrameOK(g) /\ held[p][g] \in Nat
  BY <1>1, FrameByFrame DEF PInv
<1>7. PICK seen \in {0, pm_map[g]} :
         /\ Stored(g, seen + 1)
         /\ met' = IF seen = pm_map[g] THEN met ELSE met \cup {g}
  BY Zenon, <1>4 DEF LockedInc
<1>8. seen + 1 \in Int /\ met \subseteq met' /\ met' \subseteq Frame
  BY <1>1, <1>7
<1>9. UNCHANGED <<pm_map_lock, range>>
  BY DEF LockedInc
<1>10. PICK r : r \notin References(g) /\ References(g)' = References(g) \cup {r}
  BY Zenon, <1>3, <1>5, <1>6, OneMore
<1>11. FrameOK(g)'
  <2>1. CASE seen = pm_map[g]
    <3>1. pm_map'[g] = (pm_map[g] + 1) % Width
      BY <1>1, <1>7, <2>1 DEF Stored
    <3> QED BY <1>6, <1>8, <1>10, <3>1, Taken
  <2>2. CASE seen # pm_map[g]
    <3>1. g \in met'
      BY <1>7, <2>2
    <3> QED BY <1>6, <1>10, <3>1, Met
  <2> QED BY <2>1, <2>2
<1>12. (\E x \in Int : Stored(g, x)) /\ pc[p] # "dec" /\ pc'[p] \notin {"inc", "dec", "++"}
  BY <1>3, <1>5, <1>7, <1>8
<1> QED BY <1>5, <1>8, <1>9, <1>11, <1>12, OneFrameInv

\* A frame that a process holds is not reserved.
LEMMA HeldIsNotReserved ==
  ASSUME PInv, NEW q \in Proc, NEW f \in Frame, held[q][f] > 0
  PROVE  f \notin Reserved
<1>1. held[q][f] \in Nat
  BY DEF PInv, TypeOK
<1>2. 1 \in Claims(q, f)
  <2>1. 1 \in 1 .. held[q][f] /\ 1 \in 0 .. held[q][f]
    BY <1>1
  <2> QED BY Zenon, <2>1 DEF Claims
<1>3. <<q, 1>> \in References(f)
  BY <1>2, InReferences
<1>4. IsFiniteSet(References(f))
  BY DEF PInv, RefsFinite
<1>5. Cardinality(References(f)) # 0
  BY <1>3, <1>4, FS_EmptySet
<1> QED BY <1>5 DEF PInv, ReservedIsKept, Refs

\* pma_inc_ref_count and pma_dec_ref_count.
LEMMA RefCountInv ==
  ASSUME PInv, NEW p \in Proc, pma_inc_ref_count(p) \/ pma_dec_ref_count(p)
  PROVE  PInv'
<1>1. /\ met \subseteq Frame /\ pc \in [Proc -> PC] /\ i \in [Proc -> 0 .. PM_MAP_ELEMENTS]
      /\ held \in [Proc -> [Frame -> Nat]] /\ pm_map \in [Frame -> 0 .. Width - 1]
  BY DEF PInv, TypeOK
<1>2. pc[p] = "idle" /\ UNCHANGED <<pm_map_lock, pc, i, range, met>>
  BY DEF pma_inc_ref_count, pma_dec_ref_count, MayAsk
<1>3. ASSUME NEW g \in Frame, NEW q \in Proc, held[q][g] > 0, NEW d \in {1, -1},
             d = -1 => q = p,
             Stored(g, pm_map[g] + d), held' = [held EXCEPT ![p][g] = held[p][g] + d]
      PROVE  PInv'
  <2>1. g \notin Reserved /\ FrameOK(g) /\ held[p][g] \in Nat /\ pm_map[g] \in Int
    BY <1>1, <1>3, HeldIsNotReserved, FrameByFrame DEF PInv
  <2>2. held[p][g] + d \in Nat
    BY <1>3, <2>1
  <2>3. /\ held' \in [Proc -> [Frame -> Nat]] /\ held'[p][g] = held[p][g] + d
        /\ \A f \in Frame \ {g} : held'[p][f] = held[p][f]
        /\ \A r \in Proc \ {p} : held'[r] = held[r]
    BY <1>1, <1>3, <2>2
  <2>4. pm_map'[g] = (pm_map[g] + d) % Width
    BY <1>1, <1>3 DEF Stored
  <2>5. FrameOK(g)'
    <3>1. CASE d = 1
      <4>1. PICK r : r \notin References(g) /\ References(g)' = References(g) \cup {r}
        BY <1>2, <2>1, <2>3, <3>1, OneMore
      <4> QED BY <1>2, <2>1, <2>4, <3>1, <4>1, Taken
    <3>2. CASE d = -1
      <4>1. /\ held[p][g] \in Nat \ {0} /\ held'[p][g] = held[p][g] - 1
            /\ pm_map'[g] = (pm_map[g] - 1) % Width
        BY <1>3, <2>1, <2>3, <2>4, <3>2
      <4>2. PICK r \in References(g) : References(g)' = References(g) \ {r}
        BY <1>2, <2>3, <4>1, OneLess
      <4> QED BY <1>2, <2>1, <4>1, <4>2, Given
    <3> QED BY <3>1, <3>2
  <2>6. \E x \in Int : Stored(g, x)
    <3>1. pm_map[g] + d \in Int
      BY <2>1
    <3> QED BY <1>3, <3>1
  <2>7. /\ met \subseteq met' /\ met' \subseteq Frame
        /\ pc' \in [Proc -> PC] /\ i' \in [Proc -> 0 .. PM_MAP_ELEMENTS]
        /\ pc[p] # "dec" /\ pc'[p] \notin {"inc", "dec", "++"}
        /\ \A r \in Proc \ {p} : pc'[r] = pc[r] /\ i'[r] = i[r] /\ held'[r] = held[r]
    BY Zenon, <1>1, <1>2, <2>3
  <2> QED BY <1>2, <2>3, <2>5, <2>6, <2>7, OneFrameInv
<1>4. CASE pma_inc_ref_count(p)
  <2>1. PICK g \in Frame : /\ \E q \in Proc \ {p} : held[q][g] > 0
                           /\ Stored(g, pm_map[g] + 1)
                           /\ held' = [held EXCEPT ![p][g] = held[p][g] + 1]
    BY Zenon, <1>4 DEF pma_inc_ref_count
  <2>2. PICK q \in Proc : held[q][g] > 0
    BY Zenon, <2>1
  <2>3. 1 \in {1, -1} /\ 1 # -1
    OBVIOUS
  <2> QED BY Zenon, <1>3, <2>1, <2>2, <2>3
<1>5. CASE pma_dec_ref_count(p)
  <2>1. PICK g \in Frame : /\ held[p][g] > 0
                           /\ Stored(g, pm_map[g] - 1)
                           /\ held' = [held EXCEPT ![p][g] = held[p][g] - 1]
    BY Zenon, <1>5 DEF pma_dec_ref_count
  <2>2. /\ pm_map[g] - 1 = pm_map[g] + (-1) /\ held[p][g] - 1 = held[p][g] + (-1)
    BY Zenon, <1>1
  <2>3. Stored(g, pm_map[g] + (-1)) /\ held' = [held EXCEPT ![p][g] = held[p][g] + (-1)]
    BY Zenon, <2>1, <2>2
  <2> QED BY Zenon, <1>3, <2>1, <2>3
<1> QED BY <1>4, <1>5

\* The kmemset of a range of free frames, but for those that are in met.
LEMMA ContiguousSetInv ==
  ASSUME PInv, NEW p \in Proc, ContiguousSet(p)
  PROVE  PInv'
<1>1. /\ TypeOK /\ met \subseteq Frame /\ range \in [Proc -> SUBSET Frame]
      /\ held \in [Proc -> [Frame -> Nat]] /\ pm_map \in [Frame -> 0 .. Width - 1]
      /\ range[p] \cap Reserved = {} /\ 1 \in 0 .. Width - 1 /\ Width \in Nat \ {0, 1}
  BY PmaAssumption DEF PInv, TypeOK, ScanInv
<1>2. Return(p, "set", range[p])
  BY Zenon DEF ContiguousSet
<1>3. /\ pc[p] = "set" /\ pc'[p] = "idle"
      /\ \A q \in Proc \ {p} : pc'[q] = pc[q] /\ i'[q] = i[q] /\ held'[q] = held[q]
      /\ pc' \in [Proc -> PC] /\ i' \in [Proc -> 0 .. PM_MAP_ELEMENTS]
      /\ held' \in [Proc -> [Frame -> Nat]]
      /\ \A f \in Frame : /\ held[p][f] \in Nat
                          /\ f \in range[p] => held'[p][f] = held[p][f] + 1
                          /\ f \notin range[p] => held'[p][f] = held[p][f]
  BY <1>1, <1>2, ReturnFacts
<1>4. /\ pm_map' = [f \in Frame |-> IF f \in range[p] THEN 1 ELSE pm_map[f]]
      /\ met' = met \cup {f \in range[p] : pm_map[f] # 0}
      /\ pm_map_lock' = NULL /\ range' = [range EXCEPT ![p] = {}]
  BY Zenon DEF ContiguousSet
<1>5. met \subseteq met' /\ met' \subseteq Frame
  BY Zenon, <1>1, <1>4
<1>6. TypeOK'
  <2>1. pm_map' \in [Frame -> 0 .. Width - 1] /\ range' \in [Proc -> SUBSET Frame]
    BY Zenon, <1>1, <1>4
  <2> QED BY Zenon, <1>3, <1>4, <1>5, <2>1 DEF TypeOK
<1>7. ScanInv'
  BY <1>1, <1>3, <1>4 DEF PInv, ScanInv
<1>8. ASSUME NEW f \in Frame PROVE FrameOK(f)'
  <2>1. FrameOK(f)
    BY Zenon, FrameByFrame DEF PInv
  <2>2. CASE f \notin range[p]
    <3>1. References(f)' = References(f)
      BY <1>3, <2>2, SameClaims
    <3>2. pm_map'[f] = pm_map[f]
      BY <1>4, <2>2
    <3> QED BY Zenon, <1>5, <2>1, <3>1, <3>2, Untouched
  <2>3. CASE f \in range[p]
    <3>1. f \in Frame \ Reserved
      BY Zenon, <1>1, <2>3
    <3>2. PICK r : r \notin References(f) /\ References(f)' = References(f) \cup {r}
      BY Zenon, <1>3, <2>3, OneMore
    <3>3. CASE pm_map[f] = 0
      <4>1. pm_map'[f] = 1
        BY <1>4, <2>3
      <4>2. (0 + 1) % Width = 1
        <5>1. /\ Width \in Nat \ {0} /\ 0 \in Int /\ 1 \in 0 .. Width - 1
              /\ 0 + 1 = Width * 0 + 1
          BY <1>1
        <5> QED BY Zenon, <5>1, ModOf
      <4>3. pm_map'[f] = (pm_map[f] + 1) % Width
        BY Zenon, <3>3, <4>1, <4>2
      <4> QED BY <1>5, <2>1, <3>1, <3>2, <4>3, Taken
    <3>4. CASE pm_map[f] # 0
      <4>1. f \in met'
        BY Zenon, <1>4, <2>3, <3>4
      <4> QED BY Zenon, <2>1, <3>1, <3>2, <4>1, Met
    <3> QED BY <3>3, <3>4
  <2> QED BY <2>2, <2>3
<1>9. (RefsFinite /\ CountExactUnlessMet /\ ReservedIsKept)'
  BY <1>8, FrameByFrame
<1> QED BY Zenon, <1>6, <1>7, <1>9 DEF PInv

\* After boot no process holds a frame.
LEMMA InitInv ==
  ASSUME Init
  PROVE  PInv
<1>1. 0 \in 0 .. PM_MAP_ELEMENTS /\ 0 \in 0 .. Width - 1 /\ Width - 1 \in 0 .. Width - 1
  BY PmaAssumption
<1>2. TypeOK
  BY Zenon, <1>1 DEF Init, TypeOK, PC
<1>3. ScanInv
  BY DEF Init, ScanInv
<1>4. ASSUME NEW f \in Frame PROVE References(f) = {}
  <2>1. \A p \in Proc : Claims(p, f) = 1 .. 0
    BY Zenon DEF Init, Claims
  <2> QED BY <2>1 DEF References
<1>5. RefsFinite /\ \A f \in Frame : Refs(f) = 0
  BY Zenon, <1>4, FS_EmptySet DEF RefsFinite, Refs
<1>6. 0 % Width = 0
  BY PmaAssumption
<1>7. CountExactUnlessMet /\ ReservedIsKept
  BY Zenon, <1>5, <1>6, PmaAssumption DEF Init, CountExactUnlessMet, ReservedIsKept
<1> QED BY <1>2, <1>3, <1>5, <1>7 DEF PInv

\* Every step keeps the invariant.
LEMMA NextInv ==
  ASSUME PInv, [Next]_vars
  PROVE  PInv'
<1>1. CASE UNCHANGED vars
  <2>1. TypeOK' /\ ScanInv'
    BY Zenon, <1>1 DEF vars, PInv, TypeOK, ScanInv
  <2>2. ASSUME NEW f \in Frame PROVE FrameOK(f)'
    <3>1. References(f)' = References(f)
      BY <1>1 DEF vars, References, Claims
    <3>2. FrameOK(f) /\ pm_map' = pm_map /\ met' = met
      BY Zenon, <1>1, FrameByFrame DEF vars, PInv
    <3> QED BY Zenon, <3>1, <3>2, Untouched
  <2>3. (RefsFinite /\ CountExactUnlessMet /\ ReservedIsKept)'
    BY Zenon, <2>2, FrameByFrame
  <2> QED BY Zenon, <2>1, <2>3 DEF PInv
<1>2. CASE Next
  BY Zenon, <1>2, ScansInv, ContiguousScanInv, IncInv, RollbackInv, LockedIncInv, RefCountInv,
     ContiguousSetInv DEF Next, AllocStep
<1> QED BY Zenon, <1>1, <1>2

\* However many processes allocate, share and free frames at the same time, a frame's count
\* is the number of references to it, modulo the width of a count, unless two allocations
\* met on it; and a frame that boot reserved is never given out.
THEOREM FramesCounted == Spec => []FramesAreCounted
<1>1. Init => PInv
  BY Zenon, InitInv
<1>2. PInv /\ [Next]_vars => PInv'
  BY Zenon, NextInv
<1>3. PInv => FramesAreCounted
  BY Zenon DEF PInv, FramesAreCounted
<1> QED BY <1>1, <1>2, <1>3, PTL DEF Spec
=============================================================================
