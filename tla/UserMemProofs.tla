---------------------------- MODULE UserMemProofs ----------------------------
(***************************************************************************)
(* Theorems about UserMem, for any processes, address spaces, pages and    *)
(* frames: what a copy through the kernel found under the mutexes of the   *)
(* two address spaces is still mapped when it is accessed, and processes   *)
(* that take two of these mutexes never wait for one another.              *)
(***************************************************************************)
EXTENDS UserMem, TLAPS

Places == {"user", "first", "second", "check", "access", "asleep"}

CallType == [op : Ops \cup {"none"}, src : Space, sa : Starts \cup {0},
             dst : Space, da : Starts \cup {0}, n : Sizes \cup {0}]

\* The spaces whose mutex p has, by its place.
HeldAt(p) == IF user_pc[p] = "second" THEN {First(call[p])}
             ELSE IF user_pc[p] = "check" THEN Held(call[p])
             ELSE IF user_pc[p] = "access" THEN KeptFor(call[p]) ELSE {}

\* Calls about one space have it on both sides; a process has the mutexes its place says,
\* no others; a page that is mapped has a frame.
LocksInv ==
    /\ user_pc \in [User -> Places] /\ call \in [User -> CallType] /\ asleep \in [User -> Int]
    /\ \A p \in User : ~Dual(call[p]) => call[p].src = call[p].dst
    /\ \A p \in User, a \in Space : p \in owner[a] <=> a \in HeldAt(p)
    /\ \A a \in Space, v \in Page : map[a][v] # Absent => map[a][v].frame # 0

\* The inductive invariant: what was found under the mutexes is still mapped.
UserInv == CopiesWhatIsMapped /\ LocksInv

\* A range begins in a page that exists and is tested, unless it is empty.
LEMMA FirstPage ==
  ASSUME NEW va \in Starts \cup {0}
  PROVE  /\ va \div PAGE \in Page
         /\ \A n \in Nat : n > 0 => va \div PAGE \in Tested(va, n)
<1>1. va \in 0 .. Pages * PAGE - 1
  <2>1. Pages \in Nat /\ Pages >= 1 /\ PAGE \in Nat /\ PAGE >= 1
    BY PageAssumption
  <2>2. Pages * PAGE \in Nat /\ Pages * PAGE >= 1
    BY <2>1
  <2> QED BY <2>2, PageAssumption
<1>2. va \in Nat /\ PAGE \in Nat \ {0} /\ va < Pages * PAGE /\ Pages \in Nat
  BY <1>1, PageAssumption
<1>3. va \div PAGE \in Nat /\ va \div PAGE < Pages
  BY <1>2
<1>4. va \div PAGE \in Page
  BY <1>2, <1>3 DEF Page
<1>5. ASSUME NEW n \in Nat, n > 0 PROVE va \div PAGE \in Tested(va, n)
  <2>1. 0 \in {j \in 0 .. Pages : j * PAGE < n}
    BY <1>2, <1>5
  <2>2. (va + 0 * PAGE) \div PAGE = va \div PAGE
    BY <1>2
  <2> QED BY <2>1, <2>2 DEF Tested
<1> QED BY <1>4, <1>5

\* First and Second are the two spaces of a call.
LEMMA FirstSecond ==
  ASSUME NEW c \in CallType
  PROVE  /\ First(c) \in Space /\ Second(c) \in Space
         /\ Held(c) = {First(c), Second(c)}
         /\ First(c) # Second(c) => First(c) \in Below[Second(c)] /\ Second(c) \notin Below[First(c)]
<1>1. c.src \in Space /\ c.dst \in Space
  BY DEF CallType
<1> QED BY <1>1, SpaceAssumption DEF First, Second, Held

LEMMA UserInitInv == ASSUME UserInit PROVE UserInv
<1>1. None \in CallType /\ None.src = None.dst /\ None.op = "none"
  BY SpaceAssumption DEF None, CallType
<1>2. NoFrames \in [src : 0 .. MaxFrame, dst : 0 .. MaxFrame] /\ Absent \in [frame : 0 .. MaxFrame, rw : BOOLEAN]
  BY FrameAssumption DEF NoFrames, Absent
<1>3. UserTypeOK
  BY <1>2 DEF UserInit, UserTypeOK
<1>4. CopiesWhatIsMapped
  BY <1>3 DEF UserInit, CopiesWhatIsMapped
<1>5. LocksInv
  <2>1. user_pc \in [User -> Places] /\ call \in [User -> CallType] /\ asleep \in [User -> Int]
    BY <1>1 DEF UserInit, Places
  <2>2. \A p \in User, a \in Space : p \in owner[a] <=> a \in HeldAt(p)
    BY DEF UserInit, HeldAt
  <2> QED BY <1>1, <2>1, <2>2 DEF UserInit, LocksInv
<1> QED BY <1>4, <1>5 DEF UserInv

\* Who has which mutex after an acquisition, and after a release by the one who has it.
LEMMA AcquireFacts ==
  ASSUME UserTypeOK, NEW p \in User, NEW a \in Space, mutex_acquire(p, a)
  PROVE  /\ owner' \in [Space -> SUBSET User] /\ \A b \in Space : \A q, r \in owner'[b] : q = r
         /\ \A q \in User, b \in Space : q \in owner'[b] <=> (q = p /\ b = a) \/ q \in owner[b]
<1>1. owner \in [Space -> SUBSET User] /\ owner[a] = {} /\ owner' = [owner EXCEPT ![a] = {p}]
  BY DEF UserTypeOK, mutex_acquire, Free
<1>2. \A b \in Space : owner'[b] = IF b = a THEN {p} ELSE owner[b]
  BY <1>1
<1> QED BY <1>1, <1>2 DEF UserTypeOK

LEMMA ReleaseFacts ==
  ASSUME UserTypeOK, NEW p \in User, NEW S \in SUBSET Space, Release(p, S),
         \A a \in S : p \in owner[a]
  PROVE  /\ owner' \in [Space -> SUBSET User] /\ \A b \in Space : \A q, r \in owner'[b] : q = r
         /\ \A q \in User, b \in Space : q \in owner'[b] <=> q \in owner[b] /\ ~(q = p /\ b \in S)
<1>1. /\ owner \in [Space -> SUBSET User] /\ \A b \in Space : \A q, r \in owner[b] : q = r
      /\ owner' = [b \in Space |-> IF b \in S THEN {} ELSE owner[b]]
  BY DEF UserTypeOK, Release
<1>2. \A b \in Space : owner'[b] = IF b \in S THEN {} ELSE owner[b]
  BY <1>1
<1>3. owner' \in [Space -> SUBSET User]
  BY <1>1
<1>4. \A b \in Space : \A q, r \in owner'[b] : q = r
  BY <1>1, <1>2
<1>5. ASSUME NEW q \in User, NEW b \in Space
      PROVE  q \in owner'[b] <=> q \in owner[b] /\ ~(q = p /\ b \in S)
  BY <1>1, <1>2
<1> QED BY <1>3, <1>4, <1>5

\* What CopiesWhatIsMapped says of a call c for which the frames g were found.
Found(c, g) ==
    c.op \in {"read", "write", "receive", "response"} /\ c.n > 0 =>
        /\ Reads(c) => g.src # 0 /\ map[c.src][c.sa \div PAGE].frame = g.src
        /\ Writes(c) => map[c.dst][c.da \div PAGE] = [frame |-> g.dst, rw |-> TRUE]

CopyInv == \A p \in User : user_pc[p] = "access" => Found(call[p], got[p])

LEMMA FoundKept ==
  ASSUME NEW c, NEW g, Found(c, g),
         c.op \in {"read", "write", "receive", "response"} =>
            map'[c.src] = map[c.src] /\ map'[c.dst] = map[c.dst]
  PROVE  Found(c, g)'
  BY DEF Found, Reads, Writes

LEMMA InvParts == /\ UserInv <=> UserTypeOK /\ CopyInv /\ LocksInv
                  /\ UserInv' <=> UserTypeOK' /\ CopyInv' /\ LocksInv'
  BY Zenon DEF UserInv, CopiesWhatIsMapped, CopyInv, Found

\* A step that maps nothing, after which whoever is about to copy was before and knows
\* what it knew, keeps the copies.
LEMMA CopiesKept ==
  ASSUME CopyInv, map' = map,
         \A q \in User : user_pc'[q] = "access" =>
            user_pc[q] = "access" /\ call'[q] = call[q] /\ got'[q] = got[q]
  PROVE  CopyInv'
<1>1. \A c, g : Found(c, g)' <=> Found(c, g)
  BY Zenon DEF Found
<1> QED BY Zenon, <1>1 DEF CopyInv

\* What the invariant is about has not changed.
LEMMA SameKeepsInv ==
  ASSUME UserInv, UNCHANGED <<owner, map, user_pc, call, got, asleep>>
  PROVE  UserInv'
<1>0. UserTypeOK /\ CopyInv /\ LocksInv
  BY InvParts
<1>1. UserTypeOK'
  BY <1>0 DEF UserTypeOK
<1>2. CopyInv'
  BY Zenon, <1>0, CopiesKept
<1>3. \A p \in User : HeldAt(p)' = HeldAt(p)
  BY Zenon DEF HeldAt
<1>4. LocksInv'
  BY Zenon, <1>0, <1>3 DEF LocksInv
<1> QED BY <1>1, <1>2, <1>4, InvParts

LEMMA CallKeepsInv ==
  ASSUME UserInv, NEW p \in User, NEW q \in User, NEW op \in Ops, NEW sa \in Starts \cup {0},
         NEW da \in Starts \cup {0}, NEW n \in Sizes, Call(p, op, q, sa, da, n)
  PROVE  UserInv'
<1> DEFINE c == [op |-> op, src |-> space[IF op = "receive" THEN q ELSE p], sa |-> sa,
                 dst |-> space[IF op = "response" THEN q ELSE p], da |-> da, n |-> n]
<1>0. UserTypeOK /\ CopyInv /\ LocksInv
  BY InvParts
<1>1. /\ user_pc[p] = "user" /\ user_pc' = [user_pc EXCEPT ![p] = "first"]
      /\ call' = [call EXCEPT ![p] = c] /\ (Dual([op |-> op]) <=> q # p)
      /\ UNCHANGED <<owner, map, got, asleep, panic>>
  BY DEF Call, UserGoes
<1>2. c \in CallType /\ (~Dual(c) => c.src = c.dst)
  BY <1>1, SpaceAssumption DEF CallType, Dual
<1> HIDE DEF c
<1>3. \A r \in User : /\ user_pc'[r] = IF r = p THEN "first" ELSE user_pc[r]
                      /\ call'[r] = IF r = p THEN c ELSE call[r]
  BY <1>0, <1>1 DEF LocksInv
<1>4. UserTypeOK'
  BY <1>0, <1>1, <1>3 DEF UserTypeOK
<1>5. CopyInv'
  BY <1>0, <1>1, <1>3, CopiesKept
<1>6. LocksInv'
  <2>1. user_pc' \in [User -> Places] /\ call' \in [User -> CallType] /\ asleep' \in [User -> Int]
    BY <1>0, <1>1, <1>2 DEF LocksInv, Places
  <2>2. \A r \in User : HeldAt(r)' = HeldAt(r)
    BY <1>1, <1>3 DEF HeldAt
  <2> QED BY <1>0, <1>1, <1>2, <1>3, <2>1, <2>2 DEF LocksInv
<1> QED BY <1>4, <1>5, <1>6, InvParts

LEMMA AcquireFirstKeepsInv ==
  ASSUME UserInv, NEW p \in User, AcquireFirst(p)
  PROVE  UserInv'
<1> DEFINE c == call[p]
           to == IF Dual(c) THEN "second" ELSE "check"
<1>0. UserTypeOK /\ CopyInv /\ LocksInv
  BY InvParts
<1>1. /\ user_pc[p] = "first" /\ user_pc' = [user_pc EXCEPT ![p] = to]
      /\ mutex_acquire(p, First(c)) /\ UNCHANGED <<map, call, got, asleep>>
  BY DEF AcquireFirst, UserGoes
<1>2. c \in CallType /\ First(c) \in Space /\ (~Dual(c) => Held(c) = {First(c)})
  <2>1. c \in CallType /\ (~Dual(c) => c.src = c.dst)
    BY <1>0 DEF LocksInv
  <2> QED BY <2>1, FirstSecond DEF Held, First
<1>3. /\ owner' \in [Space -> SUBSET User] /\ \A b \in Space : \A q, r \in owner'[b] : q = r
      /\ \A q \in User, b \in Space : q \in owner'[b] <=> (q = p /\ b = First(c)) \/ q \in owner[b]
  BY <1>0, <1>1, <1>2, AcquireFacts
<1>a. to \in {"second", "check"} /\ (to = "second" <=> Dual(c))
  OBVIOUS
<1> HIDE DEF c, to
<1>4. \A r \in User : user_pc'[r] = IF r = p THEN to ELSE user_pc[r]
  BY <1>0, <1>1 DEF LocksInv
<1>5. UserTypeOK'
  BY <1>0, <1>1, <1>3, <1>4, <1>a DEF UserTypeOK
<1>6. CopyInv'
  BY <1>0, <1>1, <1>4, <1>a, CopiesKept
<1>7. LocksInv'
  <2>1. user_pc' \in [User -> Places]
    BY <1>0, <1>1, <1>a DEF LocksInv, Places
  <2>2. ASSUME NEW r \in User, r # p PROVE HeldAt(r)' = HeldAt(r)
    BY <1>1, <1>4, <2>2 DEF HeldAt
  <2>3. HeldAt(p)' = {First(c)} /\ HeldAt(p) = {}
    BY <1>1, <1>2, <1>4, <1>a DEF HeldAt, c
  <2>4. \A r \in User, a \in Space : r \in owner'[a] <=> a \in HeldAt(r)'
    BY <1>0, <1>3, <2>2, <2>3 DEF LocksInv
  <2> QED BY <1>0, <1>1, <2>1, <2>4 DEF LocksInv
<1> QED BY <1>5, <1>6, <1>7, InvParts

LEMMA AcquireSecondKeepsInv ==
  ASSUME UserInv, NEW p \in User, AcquireSecond(p)
  PROVE  UserInv'
<1> DEFINE c == call[p]
<1>0. UserTypeOK /\ CopyInv /\ LocksInv
  BY InvParts
<1>1. /\ user_pc[p] = "second" /\ user_pc' = [user_pc EXCEPT ![p] = "check"]
      /\ mutex_acquire(p, Second(c)) /\ UNCHANGED <<map, call, got, asleep>>
  BY DEF AcquireSecond, UserGoes
<1>2. c \in CallType /\ Second(c) \in Space /\ Held(c) = {First(c), Second(c)}
  <2>1. c \in CallType
    BY <1>0 DEF LocksInv
  <2> QED BY <2>1, FirstSecond
<1>3. /\ owner' \in [Space -> SUBSET User] /\ \A b \in Space : \A q, r \in owner'[b] : q = r
      /\ \A q \in User, b \in Space : q \in owner'[b] <=> (q = p /\ b = Second(c)) \/ q \in owner[b]
  BY <1>0, <1>1, <1>2, AcquireFacts
<1> HIDE DEF c
<1>4. \A r \in User : user_pc'[r] = IF r = p THEN "check" ELSE user_pc[r]
  BY <1>0, <1>1 DEF LocksInv
<1>5. UserTypeOK'
  BY <1>0, <1>1, <1>3, <1>4 DEF UserTypeOK
<1>6. CopyInv'
  BY <1>0, <1>1, <1>4, CopiesKept
<1>7. LocksInv'
  <2>1. user_pc' \in [User -> Places]
    BY <1>0, <1>1 DEF LocksInv, Places
  <2>2. ASSUME NEW r \in User, r # p PROVE HeldAt(r)' = HeldAt(r)
    BY <1>1, <1>4, <2>2 DEF HeldAt
  <2>3. HeldAt(p)' = {First(c), Second(c)} /\ HeldAt(p) = {First(c)}
    BY <1>1, <1>2, <1>4 DEF HeldAt, c
  <2>4. \A r \in User, a \in Space : r \in owner'[a] <=> a \in HeldAt(r)'
    BY <1>0, <1>3, <2>2, <2>3 DEF LocksInv
  <2> QED BY <1>0, <1>1, <2>1, <2>4 DEF LocksInv
<1> QED BY <1>5, <1>6, <1>7, InvParts

\* What a process has when it releases is what its place says it has.
LEMMA HasHeld ==
  ASSUME LocksInv, NEW p \in User, user_pc[p] \in {"check", "access"}
  PROVE  /\ call[p] \in CallType /\ Held(call[p]) \in SUBSET Space
         /\ KeptFor(call[p]) \subseteq Held(call[p])
         /\ \A a \in HeldAt(p) : p \in owner[a]
         /\ user_pc[p] = "check" => HeldAt(p) = Held(call[p])
         /\ user_pc[p] = "access" => HeldAt(p) = KeptFor(call[p])
<1>1. call[p] \in CallType /\ Held(call[p]) \in SUBSET Space
  BY DEF LocksInv, CallType, Held
<1>2. KeptFor(call[p]) \subseteq Held(call[p])
  BY DEF KeptFor
<1>3. /\ user_pc[p] = "check" => HeldAt(p) = Held(call[p])
      /\ user_pc[p] = "access" => HeldAt(p) = KeptFor(call[p])
  BY DEF HeldAt
<1> QED BY <1>1, <1>2, <1>3 DEF LocksInv

\* A call that returns, or goes to sleep, with all its mutexes released.
LEMMA ReturnKeepsInv ==
  ASSUME UserInv, NEW p \in User, NEW to \in {"user", "asleep"}, NEW at \in Int,
         user_pc[p] \in {"check", "access"}, UserGoes(p, user_pc[p], to),
         Release(p, HeldAt(p)), map' = map,
         asleep' = [asleep EXCEPT ![p] = at], at # -1 <=> to = "asleep"
  PROVE  UserInv'
<1>0. UserTypeOK /\ CopyInv /\ LocksInv
  BY InvParts
<1>1. /\ user_pc' = [user_pc EXCEPT ![p] = to] /\ call' = [call EXCEPT ![p] = None]
      /\ got' = [got EXCEPT ![p] = NoFrames]
  BY DEF UserGoes
<1>2. None \in CallType /\ None.src = None.dst
  BY SpaceAssumption DEF None, CallType
<1>3. NoFrames \in [src : 0 .. MaxFrame, dst : 0 .. MaxFrame]
  BY FrameAssumption DEF NoFrames
<1>4. HeldAt(p) \in SUBSET Space /\ \A a \in HeldAt(p) : p \in owner[a]
  BY <1>0, HasHeld
<1>5. /\ owner' \in [Space -> SUBSET User] /\ \A b \in Space : \A q, r \in owner'[b] : q = r
      /\ \A q \in User, b \in Space : q \in owner'[b] <=> q \in owner[b] /\ ~(q = p /\ b \in HeldAt(p))
  BY <1>0, <1>4, ReleaseFacts
<1>6. \A r \in User : /\ user_pc'[r] = IF r = p THEN to ELSE user_pc[r]
                      /\ call'[r] = IF r = p THEN None ELSE call[r]
                      /\ got'[r] = IF r = p THEN NoFrames ELSE got[r]
                      /\ asleep'[r] = IF r = p THEN at ELSE asleep[r]
  BY <1>0, <1>1 DEF LocksInv, UserTypeOK
<1>7. UserTypeOK'
  <2>1. got' \in [User -> [src : 0 .. MaxFrame, dst : 0 .. MaxFrame]]
    BY <1>0, <1>1, <1>3 DEF UserTypeOK
  <2>2. \A r \in User : asleep'[r] # -1 <=> user_pc'[r] = "asleep"
    BY <1>0, <1>6 DEF UserTypeOK
  <2> QED BY <1>0, <1>5, <2>1, <2>2 DEF UserTypeOK
<1>8. CopyInv'
  BY <1>0, <1>6, CopiesKept
<1>9. LocksInv'
  <2>1. user_pc' \in [User -> Places] /\ call' \in [User -> CallType] /\ asleep' \in [User -> Int]
    BY <1>0, <1>1, <1>2 DEF LocksInv, Places
  <2>2. ASSUME NEW r \in User, r # p PROVE HeldAt(r)' = HeldAt(r)
    BY Zenon, <1>6, <2>2 DEF HeldAt
  <2>3. HeldAt(p)' = {}
    BY <1>6 DEF HeldAt
  <2>4. \A r \in User, a \in Space : r \in owner'[a] <=> a \in HeldAt(r)'
    BY <1>0, <1>5, <2>2, <2>3 DEF LocksInv
  <2>5. \A r \in User : ~Dual(call'[r]) => call'[r].src = call'[r].dst
    BY <1>0, <1>2, <1>6 DEF LocksInv
  <2>6. \A a \in Space, v \in Page : map'[a][v] # Absent => map'[a][v].frame # 0
    BY <1>0 DEF LocksInv
  <2> QED BY <2>1, <2>4, <2>5, <2>6 DEF LocksInv
<1> QED BY <1>7, <1>8, <1>9, InvParts

LEMMA Awake ==
  ASSUME UserInv, NEW p \in User, user_pc[p] # "asleep"
  PROVE  asleep = [asleep EXCEPT ![p] = -1]
<1>1. UserTypeOK /\ LocksInv
  BY InvParts
<1>2. asleep[p] = -1 /\ asleep \in [User -> Int]
  BY <1>1 DEF UserTypeOK, LocksInv
<1> QED BY <1>2

LEMMA CopyKeepsInv ==
  ASSUME UserInv, NEW p \in User, Copy(p)
  PROVE  UserInv'
<1>1. /\ user_pc[p] = "access" /\ UserGoes(p, user_pc[p], "user")
      /\ Release(p, Held(call[p])) /\ UNCHANGED <<map, asleep>>
      /\ KeptFor(call[p]) = Held(call[p])
  BY DEF Copy, UserGoes, KeptFor
<1>2. HeldAt(p) = Held(call[p])
  BY <1>1 DEF HeldAt
<1>3. asleep' = [asleep EXCEPT ![p] = -1]
  BY <1>1, Awake
<1>a. UserGoes(p, user_pc[p], "user")
  BY <1>1
<1> DEFINE at == -1
           to == "user"
<1>4. /\ at \in Int /\ to \in {"user", "asleep"} /\ (at # -1 <=> to = "asleep")
      /\ UserGoes(p, user_pc[p], to) /\ asleep' = [asleep EXCEPT ![p] = at]
  BY <1>a, <1>3
<1> HIDE DEF at, to
<1> QED BY Zenon, <1>1, <1>2, <1>4, ReturnKeepsInv

LEMMA InterfaceKeepsInv ==
  ASSUME UserInv, NEW p \in User, Interface(p)
  PROVE  UserInv'
<1>1. /\ user_pc[p] = "access" /\ UserGoes(p, user_pc[p], "user")
      /\ UNCHANGED <<owner, map, asleep>> /\ KeptFor(call[p]) = {}
  BY DEF Interface, UserGoes, KeptFor
<1>2. HeldAt(p) = {}
  BY <1>1 DEF HeldAt
<1>3. asleep' = [asleep EXCEPT ![p] = -1]
  BY <1>1, Awake
<1>4. owner \in [Space -> SUBSET User]
  BY InvParts DEF UserTypeOK
<1>5. Release(p, HeldAt(p))
  BY <1>1, <1>2, <1>4 DEF Release
<1>a. UserGoes(p, user_pc[p], "user")
  BY <1>1
<1> DEFINE at == -1
           to == "user"
<1>6. /\ at \in Int /\ to \in {"user", "asleep"} /\ (at # -1 <=> to = "asleep")
      /\ UserGoes(p, user_pc[p], to) /\ asleep' = [asleep EXCEPT ![p] = at]
  BY <1>a, <1>3
<1> HIDE DEF at, to
<1> QED BY Zenon, <1>1, <1>5, <1>6, ReturnKeepsInv

LEMMA FutexWaitKeepsInv ==
  ASSUME UserInv, NEW p \in User, NEW equal \in BOOLEAN, FutexWait(p, equal)
  PROVE  UserInv'
<1> DEFINE to == IF equal THEN "asleep" ELSE "user"
           at == IF equal THEN got[p].src ELSE -1
<1>1. /\ user_pc[p] = "access" /\ UserGoes(p, user_pc[p], to)
      /\ Release(p, Held(call[p])) /\ map' = map
      /\ asleep' = [asleep EXCEPT ![p] = at] /\ KeptFor(call[p]) = Held(call[p])
  BY DEF FutexWait, UserGoes, KeptFor, SleepReleases
<1>2. HeldAt(p) = Held(call[p])
  BY <1>1 DEF HeldAt
<1>3. got[p].src \in 0 .. MaxFrame
  BY InvParts DEF UserTypeOK
<1>4. at \in Int /\ to \in {"user", "asleep"} /\ (at # -1 <=> to = "asleep")
  BY <1>3, FrameAssumption
<1> HIDE DEF to, at
<1> QED BY Zenon, <1>1, <1>2, <1>4, ReturnKeepsInv

LEMMA FutexWakeKeepsInv ==
  ASSUME UserInv, NEW p \in User, FutexWake(p)
  PROVE  UserInv'
<1> DEFINE woken == {q \in User : asleep[q] = got[p].src}
<1>0. UserTypeOK /\ CopyInv /\ LocksInv
  BY InvParts
<1>1. /\ user_pc[p] = "access" /\ call[p].op = "wake"
      /\ user_pc' = [q \in User |-> IF q = p \/ q \in woken THEN "user" ELSE user_pc[q]]
      /\ asleep' = [q \in User |-> IF q \in woken THEN -1 ELSE asleep[q]]
      /\ call' = [call EXCEPT ![p] = None] /\ got' = [got EXCEPT ![p] = NoFrames]
      /\ UNCHANGED <<owner, map>>
  BY DEF FutexWake
<1>2. \A q \in woken : q \in User /\ user_pc[q] = "asleep"
  <2>1. got[p].src \in 0 .. MaxFrame
    BY <1>0 DEF UserTypeOK
  <2>2. got[p].src # -1
    BY <2>1, FrameAssumption
  <2> QED BY <1>0, <2>2 DEF UserTypeOK
<1> HIDE DEF woken
<1>3. None \in CallType /\ None.src = None.dst
  BY SpaceAssumption DEF None, CallType
<1>4. NoFrames \in [src : 0 .. MaxFrame, dst : 0 .. MaxFrame]
  BY FrameAssumption DEF NoFrames
<1>6. \A r \in User : /\ user_pc'[r] = IF r = p \/ r \in woken THEN "user" ELSE user_pc[r]
                      /\ call'[r] = IF r = p THEN None ELSE call[r]
                      /\ got'[r] = IF r = p THEN NoFrames ELSE got[r]
                      /\ asleep'[r] = IF r \in woken THEN -1 ELSE asleep[r]
  BY <1>0, <1>1 DEF LocksInv, UserTypeOK
<1>7. UserTypeOK'
  <2>1. got' \in [User -> [src : 0 .. MaxFrame, dst : 0 .. MaxFrame]]
    BY <1>0, <1>1, <1>4 DEF UserTypeOK
  <2>2. \A r \in User : asleep'[r] # -1 <=> user_pc'[r] = "asleep"
    BY <1>0, <1>1, <1>6 DEF UserTypeOK
  <2> QED BY <1>0, <1>1, <2>1, <2>2 DEF UserTypeOK
<1>8. CopyInv'
  BY <1>0, <1>1, <1>6, CopiesKept
<1>9. LocksInv'
  <2>1. user_pc' \in [User -> Places] /\ call' \in [User -> CallType] /\ asleep' \in [User -> Int]
    BY <1>0, <1>1, <1>3 DEF LocksInv, Places
  <2>2. ASSUME NEW r \in User, r # p PROVE HeldAt(r)' = HeldAt(r)
    BY Zenon, <1>2, <1>6, <2>2 DEF HeldAt
  <2>3. HeldAt(p)' = {} /\ HeldAt(p) = {}
    BY <1>1, <1>6 DEF HeldAt, KeptFor
  <2>4. \A r \in User, a \in Space : r \in owner'[a] <=> a \in HeldAt(r)'
    BY <1>0, <1>1, <2>2, <2>3 DEF LocksInv
  <2>5. \A r \in User : ~Dual(call'[r]) => call'[r].src = call'[r].dst
    BY <1>0, <1>3, <1>6 DEF LocksInv
  <2>6. \A a \in Space, v \in Page : map'[a][v] # Absent => map'[a][v].frame # 0
    BY <1>0, <1>1 DEF LocksInv
  <2> QED BY <2>1, <2>4, <2>5, <2>6 DEF LocksInv
<1> QED BY <1>7, <1>8, <1>9, InvParts

\* What the check and the translation leave to a copy (k_user_mem.c:69-75, 88-94, 117-125).
LEMMA CheckedFrames ==
  ASSUME UserTypeOK, LocksInv, NEW c \in CallType, Checked(c), NEW odd \in BOOLEAN
  PROVE  /\ Translated(c, odd) \in [src : 0 .. MaxFrame, dst : 0 .. MaxFrame]
         /\ Found(c, Translated(c, odd))
<1>1. /\ c.src \in Space /\ c.dst \in Space /\ c.sa \in Starts \cup {0} /\ c.da \in Starts \cup {0}
      /\ c.n \in Nat
  <2>1. /\ c.src \in Space /\ c.dst \in Space /\ c.sa \in Starts \cup {0} /\ c.da \in Starts \cup {0}
        /\ c.n \in Sizes \cup {0}
    BY DEF CallType
  <2>2. Sizes \subseteq Nat
    BY PageAssumption
  <2>3. \A n \in Sizes \cup {0} : n \in Nat
    BY <2>2
  <2> QED BY <2>1, <2>3
<1>2. c.sa \div PAGE \in Page /\ c.da \div PAGE \in Page
  BY <1>1, FirstPage
<1>3. /\ map[c.src][c.sa \div PAGE] \in [frame : 0 .. MaxFrame, rw : BOOLEAN]
      /\ map[c.dst][c.da \div PAGE] \in [frame : 0 .. MaxFrame, rw : BOOLEAN]
  BY <1>1, <1>2 DEF UserTypeOK
<1>4. futex_paddr(c.sa, odd) \in 0 .. MaxFrame /\ 0 \in 0 .. MaxFrame
  BY <1>2, FrameAssumption DEF futex_paddr
<1>5. Translated(c, odd) \in [src : 0 .. MaxFrame, dst : 0 .. MaxFrame]
  BY <1>3, <1>4 DEF Translated, vm_get_pma_by_vma
<1>6. ASSUME c.op \in {"read", "write", "receive", "response"}, c.n > 0, Reads(c)
      PROVE  Translated(c, odd).src # 0 /\ map[c.src][c.sa \div PAGE].frame = Translated(c, odd).src
  <2>1. c.sa \div PAGE \in Tested(c.sa, c.n)
    BY <1>1, <1>6, FirstPage
  <2>2. map[c.src][c.sa \div PAGE] # Absent
    BY <1>6, <2>1 DEF Checked, user_memory_check_read
  <2>3. map[c.src][c.sa \div PAGE].frame # 0
    BY <1>1, <1>2, <2>2 DEF LocksInv
  <2> QED BY <1>6, <2>3 DEF Translated, vm_get_pma_by_vma
<1>7. ASSUME c.n > 0, Writes(c)
      PROVE  map[c.dst][c.da \div PAGE] = [frame |-> Translated(c, odd).dst, rw |-> TRUE]
  <2>1. c.da \div PAGE \in Tested(c.da, c.n)
    BY <1>1, <1>7, FirstPage
  <2>2. map[c.dst][c.da \div PAGE].rw
    BY <1>7, <2>1 DEF Checked, user_memory_check_write
  <2>3. Translated(c, odd).dst = map[c.dst][c.da \div PAGE].frame
    BY <1>7 DEF Translated, vm_get_pma_by_vma
  <2>4. \A m \in [frame : 0 .. MaxFrame, rw : BOOLEAN] : m.rw => m = [frame |-> m.frame, rw |-> TRUE]
    OBVIOUS
  <2> QED BY Zenon, <1>3, <2>2, <2>3, <2>4
<1> QED BY Zenon, <1>5, <1>6, <1>7 DEF Found

LEMMA CheckKeepsInv ==
  ASSUME UserInv, NEW p \in User, NEW odd \in BOOLEAN, Check(p, odd)
  PROVE  UserInv'
<1> DEFINE c == call[p]
<1>0. UserTypeOK /\ CopyInv /\ LocksInv
  BY InvParts
<1>1. user_pc[p] = "check" /\ UNCHANGED <<map, asleep>>
  BY DEF Check
<1>2. /\ c \in CallType /\ Held(c) \in SUBSET Space /\ KeptFor(c) \subseteq Held(c)
      /\ HeldAt(p) = Held(c) /\ \A a \in HeldAt(p) : p \in owner[a]
  BY <1>0, <1>1, HasHeld
<1>3. CASE Faults(c)
  <2>1. UNCHANGED <<owner, map, user_pc, call, got, asleep>>
    BY <1>3 DEF Check
  <2> QED BY Zenon, <2>1, SameKeepsInv
<1>4. CASE ~Faults(c) /\ ~Checked(c)
  <2> DEFINE at == -1
             to == "user"
  <2>1. UserGoes(p, user_pc[p], "user") /\ Release(p, HeldAt(p))
    BY <1>1, <1>2, <1>4 DEF Check
  <2>2. asleep' = [asleep EXCEPT ![p] = -1]
    BY <1>1, Awake
  <2>3. /\ at \in Int /\ to \in {"user", "asleep"} /\ (at # -1 <=> to = "asleep")
        /\ UserGoes(p, user_pc[p], to) /\ asleep' = [asleep EXCEPT ![p] = at]
    BY <2>1, <2>2
  <2> HIDE DEF at, to
  <2> QED BY Zenon, <1>1, <2>1, <2>3, ReturnKeepsInv
<1>5. CASE ~Faults(c) /\ Checked(c)
  <2> DEFINE S == Held(c) \ KeptFor(c)
             f == Translated(c, odd)
  <2>1. /\ user_pc' = [user_pc EXCEPT ![p] = "access"] /\ Release(p, S)
        /\ got' = [got EXCEPT ![p] = f] /\ call' = call
    BY <1>5 DEF Check, UserGoes
  <2>2. f \in [src : 0 .. MaxFrame, dst : 0 .. MaxFrame] /\ Found(c, f)
    BY Zenon, <1>0, <1>2, <1>5, CheckedFrames
  <2>a. S \in SUBSET Space /\ \A a \in S : p \in owner[a]
    BY <1>2
  <2>3. /\ owner' \in [Space -> SUBSET User] /\ \A b \in Space : \A q, r \in owner'[b] : q = r
        /\ \A q \in User, b \in Space : q \in owner'[b] <=> q \in owner[b] /\ ~(q = p /\ b \in S)
    BY <1>0, <2>1, <2>a, ReleaseFacts
  <2> HIDE DEF f
  <2>4. \A r \in User : /\ user_pc'[r] = IF r = p THEN "access" ELSE user_pc[r]
                        /\ got'[r] = IF r = p THEN f ELSE got[r]
    BY <1>0, <2>1 DEF LocksInv, UserTypeOK
  <2>5. UserTypeOK'
    <3>1. got' \in [User -> [src : 0 .. MaxFrame, dst : 0 .. MaxFrame]]
      BY <1>0, <2>1, <2>2 DEF UserTypeOK
    <3>2. \A r \in User : asleep'[r] # -1 <=> user_pc'[r] = "asleep"
      BY <1>0, <1>1, <2>4 DEF UserTypeOK
    <3> QED BY <1>0, <1>1, <2>3, <3>1, <3>2 DEF UserTypeOK
  <2>6. CopyInv'
    <3>1. \A d, g : Found(d, g)' <=> Found(d, g)
      BY Zenon, <1>1 DEF Found
    <3>2. ASSUME NEW r \in User, user_pc'[r] = "access" PROVE Found(call[r], got'[r])
      <4>1. CASE r = p
        BY Zenon, <2>2, <2>4, <4>1
      <4>2. CASE r # p
        BY Zenon, <1>0, <2>4, <3>2, <4>2 DEF CopyInv
      <4> QED BY <4>1, <4>2
    <3> QED BY Zenon, <2>1, <3>1, <3>2 DEF CopyInv
  <2>7. LocksInv'
    <3>1. user_pc' \in [User -> Places]
      BY <1>0, <2>1 DEF LocksInv, Places
    <3>2. ASSUME NEW r \in User, r # p PROVE HeldAt(r)' = HeldAt(r)
      BY <2>1, <2>4, <3>2 DEF HeldAt
    <3>3. HeldAt(p)' = KeptFor(c)
      BY <2>1, <2>4 DEF HeldAt
    <3>4. \A r \in User, a \in Space : r \in owner'[a] <=> a \in HeldAt(r)'
      BY <1>0, <1>2, <2>3, <3>2, <3>3 DEF LocksInv
    <3> QED BY <1>0, <1>1, <2>1, <3>1, <3>4 DEF LocksInv
  <2> QED BY <2>5, <2>6, <2>7, InvParts
<1> QED BY <1>3, <1>4, <1>5

\* Pages are mapped and unmapped under a mutex nobody has: no copy from or to the space
\* is between its check and its end.
LEMMA TableKeepsInv ==
  ASSUME UserInv, NEW a \in Space, NEW v \in Page, Free(a),
         NEW e \in [frame : 0 .. MaxFrame, rw : BOOLEAN], e # Absent => e.frame # 0,
         map' = [map EXCEPT ![a][v] = e],
         UNCHANGED <<owner, user_pc, call, got, asleep>>
  PROVE  UserInv'
<1>0. UserTypeOK /\ CopyInv /\ LocksInv
  BY InvParts
<1>1. map' \in [Space -> [Page -> [frame : 0 .. MaxFrame, rw : BOOLEAN]]]
  BY <1>0 DEF UserTypeOK
<1>2. \A b \in Space : b # a => map'[b] = map[b]
  BY <1>0 DEF UserTypeOK
<1>3. \A w \in Page : map'[a][w] = IF w = v THEN e ELSE map[a][w]
  BY <1>0 DEF UserTypeOK
<1>4. UserTypeOK'
  BY <1>0, <1>1 DEF UserTypeOK
<1>5. CopyInv'
  <2> SUFFICES ASSUME NEW p \in User, user_pc[p] = "access",
                      call[p].op \in {"read", "write", "receive", "response"}
               PROVE  /\ map'[call[p].src] = map[call[p].src]
                      /\ map'[call[p].dst] = map[call[p].dst]
    BY Zenon, <1>0, FoundKept DEF CopyInv
  <2>1. call[p] \in CallType /\ HeldAt(p) = Held(call[p])
    BY <1>0 DEF LocksInv, HeldAt, KeptFor
  <2>2. call[p].src \in Space /\ call[p].dst \in Space
    BY <2>1 DEF CallType
  <2>3. p \in owner[call[p].src] /\ p \in owner[call[p].dst]
    BY <1>0, <2>1, <2>2 DEF LocksInv, Held
  <2>4. call[p].src # a /\ call[p].dst # a
    BY <2>3 DEF Free
  <2> QED BY <1>2, <2>2, <2>4
<1>6. LocksInv'
  <2>1. \A r \in User : HeldAt(r)' = HeldAt(r)
    BY DEF HeldAt
  <2>2. \A b \in Space, w \in Page : map'[b][w] # Absent => map'[b][w].frame # 0
    BY <1>0, <1>2, <1>3 DEF LocksInv
  <2> QED BY <1>0, <2>1, <2>2 DEF LocksInv
<1> QED BY <1>4, <1>5, <1>6, InvParts

LEMMA MapKeepsInv ==
  ASSUME UserInv, NEW a \in Space, NEW v \in Page, NEW f \in 1 .. MaxFrame, NEW rw \in BOOLEAN,
         Map(a, v, f, rw)
  PROVE  UserInv'
<1> DEFINE e == [frame |-> f, rw |-> rw]
<1>1. Free(a) /\ map' = [map EXCEPT ![a][v] = e] /\ UNCHANGED <<owner, user_pc, call, got, asleep>>
  BY DEF Map
<1>2. e \in [frame : 0 .. MaxFrame, rw : BOOLEAN] /\ e.frame # 0
  BY FrameAssumption
<1> HIDE DEF e
<1> QED BY Zenon, <1>1, <1>2, TableKeepsInv

LEMMA UnmapKeepsInv ==
  ASSUME UserInv, NEW a \in Space, NEW v \in Page, Unmap(a, v)
  PROVE  UserInv'
<1>1. Free(a) /\ map' = [map EXCEPT ![a][v] = Absent] /\ UNCHANGED <<owner, user_pc, call, got, asleep>>
  BY DEF Unmap
<1>2. Absent \in [frame : 0 .. MaxFrame, rw : BOOLEAN]
  BY FrameAssumption DEF Absent
<1> QED BY Zenon, <1>1, <1>2, TableKeepsInv

LEMMA UserNextInv == ASSUME UserInv, [UserNext]_userVars PROVE UserInv'
<1>1. CASE UNCHANGED userVars
  BY Zenon, <1>1, SameKeepsInv DEF userVars
<1>2. CASE UserNext
  BY <1>2, CallKeepsInv, AcquireFirstKeepsInv, AcquireSecondKeepsInv, CopyKeepsInv, InterfaceKeepsInv,
     FutexWakeKeepsInv, CheckKeepsInv, FutexWaitKeepsInv, UnmapKeepsInv, MapKeepsInv DEF UserNext
<1> QED BY <1>1, <1>2

\* Two processes that wait for each other's mutex both have their first: each would have
\* the one at the lower address of the same two.
LEMMA UserInvNoDeadlock == ASSUME UserInv PROVE NoDeadlock
<1>0. UserTypeOK /\ LocksInv
  BY InvParts
<1>1. ASSUME NEW p \in User, NEW q \in User, p # q, NEW a \in WaitsFor(p), NEW b \in WaitsFor(q),
             q \in owner[a], p \in owner[b]
      PROVE  FALSE
  <2>1. call[p] \in CallType /\ call[q] \in CallType
    BY <1>0 DEF LocksInv
  <2>2. /\ user_pc[p] \in {"first", "second"} /\ user_pc[q] \in {"first", "second"}
        /\ a \in Space /\ b \in Space
    BY <1>0, <1>1, <2>1, FirstSecond DEF WaitsFor
  <2>3. a \in HeldAt(q) /\ b \in HeldAt(p)
    BY <1>0, <1>1, <2>2 DEF LocksInv
  <2>4. /\ user_pc[p] = "second" /\ b = First(call[p]) /\ user_pc[q] = "second" /\ a = First(call[q])
    BY <2>2, <2>3 DEF HeldAt
  <2>5. a = Second(call[p]) /\ b = Second(call[q])
    BY <1>1, <2>4 DEF WaitsFor
  <2>6. CASE a = b
    BY <1>0, <1>1, <2>2, <2>6 DEF UserTypeOK
  <2>7. CASE a # b
    <3>1. a \notin Below[b]
      BY Zenon, <2>1, <2>4, <2>5, <2>7, FirstSecond
    <3>2. a \in Below[b]
      BY Zenon, <2>1, <2>4, <2>5, <2>7, FirstSecond
    <3> QED BY <3>1, <3>2
  <2> QED BY <2>6, <2>7
<1>2. ASSUME NEW p \in User, NEW a \in Space, user_pc[p] = "asleep" PROVE p \notin owner[a]
  BY <1>0, <1>2 DEF LocksInv, HeldAt
<1> QED BY <1>1, <1>2 DEF NoDeadlock

\* For any spaces, order of their mutexes, pages, ranges and processes: whenever data is
\* copied (k_user_mem.c:75, :94, :125), the first frames of both ranges are those mapped
\* there, whatever is mapped and unmapped between the check and the copy.
THEOREM CopiesStayMapped == UserSpec => []CopiesWhatIsMapped
<1>1. UserInit => UserInv
  BY UserInitInv
<1>2. UserInv /\ [UserNext]_userVars => UserInv'
  BY UserNextInv
<1>3. UserInv => CopiesWhatIsMapped
  BY DEF UserInv
<1> QED BY <1>1, <1>2, <1>3, PTL DEF UserSpec

\* mutex_acquire_dual's order by address (k_mutex.c:69-79) leaves no two processes waiting
\* for each other's mutex, and futex_wait (k_futex.c:91) none asleep with one.
THEOREM CopiesDoNotBlock == UserSpec => []NoDeadlock
<1>1. UserInit => UserInv
  BY UserInitInv
<1>2. UserInv /\ [UserNext]_userVars => UserInv'
  BY UserNextInv
<1>3. UserInv => NoDeadlock
  BY UserInvNoDeadlock
<1> QED BY <1>1, <1>2, <1>3, PTL DEF UserSpec
=============================================================================
