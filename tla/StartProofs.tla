----------------------------- MODULE StartProofs -----------------------------
(***************************************************************************)
(* What processors and processes are given when they start is their own.   *)
(*                                                                         *)
(* Smp: for any number of processors, whichever of them never answer, if   *)
(* those that answer do so before ig_smp_start_ap gives up, each has a     *)
(* stack, data and an identifier of its own.                               *)
(*                                                                         *)
(* Pid: for words and bytes of any size, as long as a word is longer, and  *)
(* any number of processes, identifiers are apart for as long as none was  *)
(* freed and there are no more than the first byte has bits, and one.      *)
(***************************************************************************)
EXTENDS Smp, Pid, FiniteSetTheorems, TLAPS

-----------------------------------------------------------------------------
(* Processors *)

Waits == {"wait_1ms", "wait_1s"}
BootPlaces == Waits \cup {"start", "prepare", "alloc", "allocated", "done"}

\* The places of a processor before and after it sets the flag.
Early == {"off", "trampoline", "entry", "started"}
Late == {"process_init", "alloc_kernel", "allocated_kernel", "kernel_proc", "space", "verify",
         "alloc_idle", "allocated_idle", "idle", "up"}

SmpType ==
    /\ bpc \in BootPlaces /\ target \in 0 .. N /\ ig_ap_started \in BOOLEAN
    /\ (bpc \in Waits \cup {"prepare"} => target > 0)
    /\ apc \in [APs -> Early \cup Late] /\ stack \in [APs -> 0 .. N]
    /\ percpu \in [APs -> 0 .. N] /\ cpuid \in [APs -> 0 .. N] /\ next_cpuid \in 1 .. N + 1

\* Only the processor that the first one waits for is on its way to the flag, with the two
\* global pointers set for it; those before it are past the flag or never answer.
OneAtATime ==
    /\ sipi = 1 .. (IF bpc = "prepare" THEN target - 1 ELSE target)
    /\ bpc \in Waits => ig_ap_stack = target /\ ig_ap_percpu_data = target
    /\ \A a \in APs : apc[a] # "off" => a \in sipi \ Dead
    /\ \A a \in sipi \ Dead : apc[a] \in Early => bpc \in Waits /\ a = target
    /\ bpc = "prepare" => ~ig_ap_started
    /\ bpc \in Waits /\ ig_ap_started => apc[target] \in Late

\* What a processor has loaded by its place; identifiers in the order they are given.
Loaded ==
    /\ \A a \in APs : stack[a] = IF apc[a] \in {"off", "trampoline"} THEN 0 ELSE a
    /\ \A a \in APs : percpu[a] = IF apc[a] \in {"off", "trampoline", "entry"} THEN 0 ELSE a
    /\ \A a \in APs : percpu[a] # 0 => cpuid[a] < next_cpuid
    /\ \A a, b \in APs : a # b /\ percpu[a] # 0 /\ percpu[b] # 0 => cpuid[a] # cpuid[b]
    /\ next_cpuid <= target + 1
    /\ bpc = "prepare" => next_cpuid <= target
    /\ bpc \in Waits /\ apc[target] \in {"off", "trampoline", "entry"} => next_cpuid <= target

\* Only stacks of processors that never answer are freed, each when it is given up.
FreedInv ==
    /\ freed \subseteq Dead \cap 1 .. target
    /\ bpc \in Waits \cup {"prepare"} => target \notin freed

SmpInv == SmpType /\ OneAtATime /\ Loaded /\ FreedInv
-----------------------------------------------------------------------------
\* Before the first processor starts the others, all is as the invariant says.
LEMMA InitInv == ASSUME Init PROVE SmpInv
<1>0. N \in Nat
  BY SmpAssumption
<1>1. SmpType
  <2>1. 0 \in 0 .. N /\ 1 \in 1 .. N + 1
    BY <1>0
  <2>2. "start" \in BootPlaces /\ "start" \notin Waits \cup {"prepare"} /\ "off" \in Early
    BY DEF BootPlaces, Waits, Early
  <2> QED BY Zenon, <2>1, <2>2 DEF Init, SmpType
<1>2. OneAtATime
  BY <1>0 DEF Init, OneAtATime, APs, Waits
<1>3. Loaded
  BY <1>0 DEF Init, Loaded, APs, Waits
<1>4. FreedInv
  BY DEF Init, FreedInv, Waits
<1> QED BY <1>1, <1>2, <1>3, <1>4 DEF SmpInv

\* What the invariant says of stacks and identifiers.
LEMMA InvApart == ASSUME SmpInv PROVE TypeOK /\ StacksApart /\ IdsApart
<1>0. N \in Nat
  BY SmpAssumption
<1>1. TypeOK
  BY <1>0 DEF SmpInv, SmpType, FreedInv, TypeOK, APs
<1>2. ASSUME NEW a \in APs, stack[a] # 0
      PROVE  stack[a] \notin freed /\ \A b \in APs \ {a} : stack[b] # stack[a]
  <2>1. stack[a] = a /\ a \notin Dead
    BY <1>2 DEF SmpInv, Loaded, OneAtATime
  <2> QED BY <1>2, <2>1 DEF SmpInv, Loaded, FreedInv
<1>3. ASSUME NEW a \in APs, NEW b \in APs, a # b, percpu[a] # 0, percpu[b] # 0
      PROVE  percpu[a] # percpu[b] /\ cpuid[percpu[a]] # cpuid[percpu[b]]
  <2>1. percpu[a] = a /\ percpu[b] = b
    BY <1>3 DEF SmpInv, Loaded
  <2> QED BY <1>3, <2>1 DEF SmpInv, Loaded
<1> QED BY <1>1, <1>2, <1>3 DEF StacksApart, IdsApart

-----------------------------------------------------------------------------
(* The first processor *)

\* A step that leaves the memory of both sides alone.
LEMMA SameKeepsInv ==
  ASSUME SmpInv, UNCHANGED <<bvars, avars, apc>>
  PROVE  SmpInv'
BY DEF SmpInv, SmpType, OneAtATime, Loaded, FreedInv, bvars, avars

\* ig_smp_start_ap prepares the next processor, after the one before has set the flag.
LEMMA StartApInv == ASSUME SmpInv, StartAp PROVE SmpInv'
<1>0. N \in Nat /\ SmpType /\ OneAtATime /\ Loaded /\ FreedInv
  BY SmpAssumption DEF SmpInv
<1>1. /\ bpc = "start" /\ bpc' = "prepare" /\ target' = target + 1 /\ target' \in 1 .. N
      /\ ig_ap_started' = FALSE
      /\ target' - 1 = target /\ target \in 0 .. N
      /\ UNCHANGED <<ig_ap_stack, ig_ap_percpu_data, freed, sipi, avars, apc>>
  BY <1>0 DEF StartAp, SmpType
<1>2. SmpType'
  <2>1. target' \in 0 .. N /\ target' > 0 /\ bpc' \in BootPlaces /\ ig_ap_started' \in BOOLEAN
    <3>1. target' \in 0 .. N /\ target' > 0
      BY <1>0, <1>1
    <3>2. bpc' \in BootPlaces /\ ig_ap_started' \in BOOLEAN
      BY Zenon, <1>1 DEF BootPlaces
    <3> QED BY <3>1, <3>2
  <2> QED BY <1>0, <1>1, <2>1 DEF SmpType, avars
<1>3. OneAtATime'
  BY <1>0, <1>1 DEF OneAtATime, Waits
<1>4. Loaded'
  BY <1>0, <1>1 DEF Loaded, SmpType, Waits, avars
<1>5. FreedInv'
  BY <1>0, <1>1 DEF FreedInv, Waits
<1> QED BY <1>2, <1>3, <1>4, <1>5 DEF SmpInv

\* The processor that is sent the start is the one that was prepared.
LEMMA SendSipiInv == ASSUME SmpInv, SendSipi PROVE SmpInv'
<1>0. N \in Nat /\ SmpType /\ OneAtATime /\ Loaded /\ FreedInv
  BY SmpAssumption DEF SmpInv
<1>1. /\ bpc = "prepare" /\ bpc' = "wait_1ms" /\ ig_ap_stack' = target /\ ig_ap_percpu_data' = target
      /\ sipi' = sipi \cup {target} /\ target \in 1 .. N
      /\ UNCHANGED <<target, ig_ap_started, freed, avars, apc>>
  BY <1>0 DEF SendSipi, SmpType
<1>2. SmpType'
  BY <1>0, <1>1 DEF SmpType, BootPlaces, Waits, avars
<1>3. sipi = 1 .. target - 1 /\ sipi' = 1 .. target
  BY <1>0, <1>1 DEF OneAtATime
<1>4. OneAtATime'
  <2>1. \A a \in sipi' \ Dead : apc[a] \in Early => a = target
    BY <1>0, <1>1 DEF OneAtATime, Waits
  <2> QED BY <1>0, <1>1, <1>3, <2>1 DEF OneAtATime, Waits
<1>5. Loaded'
  BY <1>0, <1>1 DEF Loaded, avars
<1>6. FreedInv'
  BY <1>0, <1>1 DEF FreedInv, Waits
<1> QED BY <1>2, <1>4, <1>5, <1>6 DEF SmpInv

\* The wait for a processor is over: it has set the flag, or never answers.
LEMMA WaitOverInv ==
  ASSUME SmpInv, bpc \in Waits, bpc' = "start", ig_ap_started \/ target \in Dead,
         freed' = IF ig_ap_started THEN freed ELSE freed \cup {ig_ap_stack},
         UNCHANGED <<target, ig_ap_started, ig_ap_stack, ig_ap_percpu_data, sipi, avars, apc>>
  PROVE  SmpInv'
<1>0. N \in Nat /\ SmpType /\ OneAtATime /\ Loaded /\ FreedInv
  BY SmpAssumption DEF SmpInv
<1>1. bpc # "prepare" /\ bpc' \notin Waits \cup {"prepare"} /\ target \in 1 .. N
  BY <1>0 DEF Waits, SmpType
<1>2. SmpType'
  BY <1>0 DEF SmpType, BootPlaces, Waits, avars
<1>3. OneAtATime'
  <2>1. \A a \in sipi \ Dead : apc[a] \notin Early
    <3>1. target \notin Dead => apc[target] \notin Early
      BY <1>0 DEF OneAtATime, Early, Late
    <3> QED BY <1>0, <3>1 DEF OneAtATime
  <2> QED BY <1>0, <1>1, <2>1 DEF OneAtATime
<1>4. Loaded'
  BY <1>0, <1>1 DEF Loaded, avars
<1>5. FreedInv'
  <2>1. ~ig_ap_started => ig_ap_stack \in Dead \cap 1 .. target
    BY <1>0, <1>1 DEF OneAtATime
  <2> QED BY <1>0, <1>1, <2>1 DEF FreedInv
<1> QED BY <1>2, <1>3, <1>4, <1>5 DEF SmpInv

\* A processor that has not answered is sent the start again.
LEMMA RetryInv == ASSUME SmpInv, Retry PROVE SmpInv'
<1>0. N \in Nat /\ SmpType /\ OneAtATime /\ Loaded /\ FreedInv
  BY SmpAssumption DEF SmpInv
<1>1. CASE ig_ap_started
  BY <1>1, WaitOverInv DEF Retry, Waits
<1>2. CASE ~ig_ap_started
  <2>1. /\ bpc = "wait_1ms" /\ bpc' = "wait_1s"
        /\ UNCHANGED <<target, ig_ap_started, ig_ap_stack, ig_ap_percpu_data, freed, sipi, avars, apc>>
    BY <1>2 DEF Retry
  <2>2. SmpType'
    BY <1>0, <2>1 DEF SmpType, BootPlaces, Waits, avars
  <2>3. OneAtATime'
    BY <1>0, <2>1 DEF OneAtATime, Waits
  <2>4. Loaded' /\ FreedInv'
    BY <1>0, <2>1 DEF Loaded, FreedInv, Waits, avars
  <2> QED BY <2>2, <2>3, <2>4 DEF SmpInv
<1> QED BY <1>1, <1>2

\* A processor that is given up never answers, so nothing of it is in use.
LEMMA GiveUpInv == ASSUME Prompt, SmpInv, GiveUp PROVE SmpInv'
BY WaitOverInv DEF GiveUp, Waits

\* The first processor goes on to create init: the others are not affected.
LEMMA GoesOnInv ==
  ASSUME SmpInv, bpc \in {"start", "alloc", "allocated"}, bpc' \in {"alloc", "allocated", "done"},
         UNCHANGED <<target, ig_ap_started, ig_ap_stack, ig_ap_percpu_data, freed, sipi, avars, apc>>
  PROVE  SmpInv'
<1>0. N \in Nat /\ SmpType /\ OneAtATime /\ Loaded /\ FreedInv
  BY SmpAssumption DEF SmpInv
<1>1. bpc \notin Waits \cup {"prepare"} /\ bpc' \notin Waits \cup {"prepare"} /\ bpc' \in BootPlaces
  BY DEF Waits, BootPlaces
<1>2. SmpType' /\ OneAtATime' /\ Loaded' /\ FreedInv'
  BY <1>0, <1>1 DEF SmpType, OneAtATime, Loaded, FreedInv, avars
<1> QED BY <1>2 DEF SmpInv
-----------------------------------------------------------------------------
(* The others *)

\* A processor on its way to the flag is the one that is waited for.
LEMMA EarlyIsTarget ==
  ASSUME SmpInv, NEW a \in APs, apc[a] \in Early, a \in sipi \ Dead
  PROVE  bpc \in Waits /\ a = target /\ ig_ap_stack = a /\ ig_ap_percpu_data = a /\ ~ig_ap_started
<1>1. OneAtATime
  BY DEF SmpInv
<1>2. bpc \in Waits /\ a = target
  BY <1>1 DEF OneAtATime
<1>3. apc[target] \notin Late
  BY <1>2 DEF Early, Late
<1> QED BY <1>1, <1>2, <1>3 DEF OneAtATime

\* The target goes from one place before the flag to the next.
LEMMA EarlyKeeps ==
  ASSUME SmpInv, NEW a \in APs, NEW to \in Early, apc[a] \in Early, a \in sipi \ Dead,
         apc' = [apc EXCEPT ![a] = to], UNCHANGED bvars
  PROVE  OneAtATime' /\ FreedInv' /\ apc' \in [APs -> Early \cup Late]
<1>1. SmpType /\ OneAtATime /\ FreedInv
  BY DEF SmpInv
<1>2. bpc \in Waits /\ a = target /\ ~ig_ap_started
  BY EarlyIsTarget
<1>3. apc'[a] = to /\ \A b \in APs \ {a} : apc'[b] = apc[b]
  BY <1>1 DEF SmpType
<1>4. OneAtATime'
  <2>1. \A b \in APs : apc'[b] # "off" => b \in sipi \ Dead
    BY <1>1, <1>3 DEF OneAtATime
  <2>2. sipi \subseteq APs
    BY <1>1, SmpAssumption DEF SmpType, OneAtATime, APs
  <2>3. \A b \in sipi \ Dead : apc'[b] \in Early => b = target
    BY <1>1, <1>2, <1>3, <2>2 DEF OneAtATime
  <2> QED BY <1>1, <1>2, <2>1, <2>3 DEF OneAtATime, bvars
<1>5. FreedInv'
  BY <1>1 DEF FreedInv, bvars
<1>6. apc' \in [APs -> Early \cup Late]
  BY <1>1 DEF SmpType
<1> QED BY <1>4, <1>5, <1>6

\* A processor that starts is the one that was prepared.
LEMMA TrampolineInv == ASSUME SmpInv, NEW a \in APs, Trampoline(a) PROVE SmpInv'
<1>0. N \in Nat /\ SmpType /\ OneAtATime /\ Loaded /\ FreedInv
  BY SmpAssumption DEF SmpInv
<1>1. /\ apc[a] = "off" /\ apc' = [apc EXCEPT ![a] = "trampoline"] /\ a \in sipi \ Dead
      /\ UNCHANGED <<bvars, avars>> /\ "off" \in Early /\ "trampoline" \in Early
  BY DEF Trampoline, Goto, Early
<1>2. OneAtATime' /\ FreedInv' /\ apc' \in [APs -> Early \cup Late]
  BY Zenon, <1>1, EarlyKeeps
<1>3. apc'[a] = "trampoline" /\ \A b \in APs \ {a} : apc'[b] = apc[b]
  BY <1>0, <1>1 DEF SmpType
<1>4. SmpType'
  BY <1>0, <1>1, <1>2 DEF SmpType, bvars, avars
<1>5. Loaded'
  <2>1. \A b \in APs : /\ stack[b] = IF apc'[b] \in {"off", "trampoline"} THEN 0 ELSE b
                       /\ percpu[b] = IF apc'[b] \in {"off", "trampoline", "entry"} THEN 0 ELSE b
    BY <1>0, <1>1, <1>3 DEF Loaded
  <2>2. bpc \in Waits => next_cpuid <= target
    BY <1>0, <1>1, EarlyIsTarget DEF Loaded
  <2> QED BY <1>0, <1>1, <2>1, <2>2 DEF Loaded, bvars, avars
<1> QED BY <1>2, <1>4, <1>5 DEF SmpInv

\* A processor loads the stack that was prepared for it.
LEMMA LoadStackInv == ASSUME SmpInv, NEW a \in APs, LoadStack(a) PROVE SmpInv'
<1>0. N \in Nat /\ SmpType /\ OneAtATime /\ Loaded /\ FreedInv
  BY SmpAssumption DEF SmpInv
<1>1. /\ apc[a] = "trampoline" /\ apc' = [apc EXCEPT ![a] = "entry"] /\ a \in sipi \ Dead
      /\ stack' = [stack EXCEPT ![a] = ig_ap_stack]
      /\ UNCHANGED <<bvars, percpu, cpuid, next_cpuid>> /\ "trampoline" \in Early /\ "entry" \in Early
  BY <1>0 DEF LoadStack, Goto, Early, OneAtATime
<1>2. OneAtATime' /\ FreedInv' /\ apc' \in [APs -> Early \cup Late]
  BY Zenon, <1>1, EarlyKeeps
<1>3. bpc \in Waits /\ a = target /\ ig_ap_stack = a
  BY <1>1, EarlyIsTarget
<1>4. /\ apc'[a] = "entry" /\ \A b \in APs \ {a} : apc'[b] = apc[b]
      /\ stack'[a] = a /\ \A b \in APs \ {a} : stack'[b] = stack[b]
  BY <1>0, <1>1, <1>3 DEF SmpType
<1>5. SmpType'
  <2>1. stack' \in [APs -> 0 .. N]
    BY <1>0, <1>1, <1>3 DEF SmpType
  <2> QED BY <1>0, <1>1, <1>2, <2>1 DEF SmpType, bvars
<1>6. Loaded'
  <2>1. \A b \in APs : /\ stack'[b] = IF apc'[b] \in {"off", "trampoline"} THEN 0 ELSE b
                       /\ percpu[b] = IF apc'[b] \in {"off", "trampoline", "entry"} THEN 0 ELSE b
    BY <1>0, <1>1, <1>4 DEF Loaded
  <2>2. next_cpuid <= target
    BY <1>0, <1>1, <1>3 DEF Loaded
  <2> QED BY <1>0, <1>1, <2>1, <2>2 DEF Loaded, bvars
<1> QED BY <1>2, <1>5, <1>6 DEF SmpInv

\* A processor takes its data and the next identifier.
LEMMA PercpuInitInv == ASSUME SmpInv, NEW a \in APs, PercpuInit(a) PROVE SmpInv'
<1>0. N \in Nat /\ SmpType /\ OneAtATime /\ Loaded /\ FreedInv
  BY SmpAssumption DEF SmpInv
<1>1. /\ apc[a] = "entry" /\ apc' = [apc EXCEPT ![a] = "started"] /\ a \in sipi \ Dead
      /\ percpu' = [percpu EXCEPT ![a] = ig_ap_percpu_data]
      /\ cpuid' = [cpuid EXCEPT ![ig_ap_percpu_data] = next_cpuid]
      /\ next_cpuid' = next_cpuid + 1
      /\ UNCHANGED <<bvars, stack>> /\ "entry" \in Early /\ "started" \in Early
  BY <1>0 DEF PercpuInit, Goto, Early, OneAtATime
<1>2. OneAtATime' /\ FreedInv' /\ apc' \in [APs -> Early \cup Late]
  BY Zenon, <1>1, EarlyKeeps
<1>3. bpc \in Waits /\ a = target /\ ig_ap_percpu_data = a
  BY <1>1, EarlyIsTarget
<1>4. /\ apc'[a] = "started" /\ \A b \in APs \ {a} : apc'[b] = apc[b]
      /\ percpu'[a] = a /\ \A b \in APs \ {a} : percpu'[b] = percpu[b]
      /\ cpuid'[a] = next_cpuid /\ \A b \in APs \ {a} : cpuid'[b] = cpuid[b]
  BY <1>0, <1>1, <1>3 DEF SmpType
<1>5. next_cpuid <= target /\ next_cpuid \in 1 .. N /\ next_cpuid' <= target + 1
  BY <1>0, <1>1, <1>3 DEF Loaded, SmpType
<1>6. SmpType'
  <2>1. percpu' \in [APs -> 0 .. N] /\ cpuid' \in [APs -> 0 .. N] /\ next_cpuid' \in 1 .. N + 1
    BY <1>0, <1>1, <1>3, <1>5 DEF SmpType
  <2> QED BY <1>0, <1>1, <1>2, <2>1 DEF SmpType, bvars
<1>7. Loaded'
  <2>1. \A b \in APs : /\ stack[b] = IF apc'[b] \in {"off", "trampoline"} THEN 0 ELSE b
                       /\ percpu'[b] = IF apc'[b] \in {"off", "trampoline", "entry"} THEN 0 ELSE b
    BY <1>0, <1>1, <1>4 DEF Loaded
  <2>2. \A b \in APs \ {a} : percpu[b] # 0 => cpuid'[b] < next_cpuid
    BY <1>0, <1>4 DEF Loaded
  <2>3. \A b \in APs : percpu'[b] # 0 => cpuid'[b] < next_cpuid'
    BY <1>0, <1>1, <1>4, <2>2 DEF SmpType
  <2>4. ASSUME NEW b \in APs, NEW c \in APs, b # c, percpu'[b] # 0, percpu'[c] # 0
        PROVE  cpuid'[b] # cpuid'[c]
    <3>1. \A e \in APs : cpuid[e] \in Nat /\ next_cpuid \in Nat
      BY <1>0 DEF SmpType
    <3>2. CASE b = a \/ c = a
      BY <1>4, <2>2, <2>4, <3>1, <3>2
    <3>3. CASE b # a /\ c # a
      BY <1>0, <1>4, <2>4, <3>3 DEF Loaded
    <3> QED BY <3>2, <3>3
  <2>5. bpc' # "prepare" /\ apc'[target'] \notin {"off", "trampoline", "entry"}
    BY <1>1, <1>3, <1>4 DEF bvars, Waits
  <2> QED BY <1>1, <1>5, <2>1, <2>3, <2>4, <2>5 DEF Loaded, bvars
<1> QED BY <1>2, <1>6, <1>7 DEF SmpInv

\* The target sets the flag, or a processor past it goes on.
LEMMA LateKeeps ==
  ASSUME SmpInv, NEW a \in APs, NEW to \in Late, apc[a] \in Late \cup {"started"}, a \in sipi \ Dead,
         apc' = [apc EXCEPT ![a] = to],
         ig_ap_started' = ig_ap_started \/ (apc[a] = "started" /\ ig_ap_started' = TRUE),
         UNCHANGED <<bpc, target, ig_ap_stack, ig_ap_percpu_data, freed, sipi, avars>>
  PROVE  SmpInv'
<1>0. N \in Nat /\ SmpType /\ OneAtATime /\ Loaded /\ FreedInv
  BY SmpAssumption DEF SmpInv
<1>1. apc'[a] = to /\ \A b \in APs \ {a} : apc'[b] = apc[b]
  BY <1>0 DEF SmpType
<1>2. SmpType'
  BY Zenon, <1>0 DEF SmpType, avars
<1>3. to \notin Early /\ to # "off"
  BY DEF Early, Late
<1>4. sipi \subseteq APs
  BY <1>0 DEF SmpType, OneAtATime, APs
<1>5. OneAtATime'
  <2>1. \A b \in APs : apc'[b] # "off" => b \in sipi \ Dead
    BY <1>0, <1>1 DEF OneAtATime
  <2>2. \A b \in sipi \ Dead : apc'[b] \in Early => bpc \in Waits /\ b = target
    BY <1>0, <1>1, <1>3, <1>4 DEF OneAtATime
  <2>3. apc[a] = "started" => bpc \in Waits /\ a = target
    BY EarlyIsTarget DEF Early
  <2>4. bpc = "prepare" => ~ig_ap_started'
    BY <1>0, <2>3 DEF OneAtATime, Waits
  <2>5. bpc \in Waits /\ ig_ap_started' => apc'[target] \in Late
    <3>1. CASE apc[a] = "started"
      BY <1>1, <2>3, <3>1
    <3>2. CASE apc[a] # "started"
      <4>1. bpc \in Waits => target \in APs
        BY <1>0 DEF SmpType, APs
      <4>2. ig_ap_started' = ig_ap_started
        BY <3>2
      <4>3. bpc \in Waits /\ ig_ap_started => apc[target] \in Late
        BY Zenon, <1>0 DEF OneAtATime
      <4> QED BY <1>1, <4>1, <4>2, <4>3
    <3> QED BY <3>1, <3>2
  <2> QED BY <1>0, <2>1, <2>2, <2>4, <2>5 DEF OneAtATime
<1>6. Loaded'
  <2>1. /\ apc[a] \notin {"off", "trampoline", "entry"} /\ apc'[a] \notin {"off", "trampoline", "entry"}
    BY <1>1 DEF Late
  <2>2. \A b \in APs : /\ apc'[b] \in {"off", "trampoline"} <=> apc[b] \in {"off", "trampoline"}
                       /\ apc'[b] \in {"off", "trampoline", "entry"} <=>
                             apc[b] \in {"off", "trampoline", "entry"}
    BY <1>1, <2>1
  <2>3. bpc \in Waits => target \in APs
    BY <1>0 DEF SmpType, APs
  <2> QED BY <1>0, <2>2, <2>3 DEF Loaded, avars
<1>7. FreedInv'
  BY <1>0 DEF FreedInv
<1> QED BY <1>2, <1>5, <1>6, <1>7 DEF SmpInv
\* Where a processor is past "started" it has been sent an interrupt and answers.
LEMMA LateStepInv ==
  ASSUME SmpInv, NEW a \in APs,
         SetStarted(a) \/ ResetPids(a) \/ ApAlloc(a) \/ KernelProc(a) \/ SchedStart(a)
  PROVE  SmpInv'
<1>1. ASSUME NEW from \in Late, NEW to \in Late, Goto(a, from, to), UNCHANGED <<bvars, avars>>
      PROVE  SmpInv'
  <2>1. apc[a] \in Late /\ apc[a] # "off" /\ apc' = [apc EXCEPT ![a] = to]
    BY <1>1 DEF Goto, Late
  <2>2. a \in sipi \ Dead
    BY <2>1 DEF SmpInv, OneAtATime
  <2>3. ig_ap_started' = ig_ap_started /\
        UNCHANGED <<bpc, target, ig_ap_stack, ig_ap_percpu_data, freed, sipi, avars>>
    BY <1>1 DEF bvars
  <2>4. apc[a] \in Late \cup {"started"}
    BY <2>1
  <2> QED BY Zenon, <2>1, <2>2, <2>3, <2>4, LateKeeps
<1>2. CASE SetStarted(a)
  <2>1. /\ apc[a] = "started" /\ apc' = [apc EXCEPT ![a] = "process_init"] /\ ig_ap_started' = TRUE
        /\ UNCHANGED <<bpc, target, ig_ap_stack, ig_ap_percpu_data, freed, sipi, avars>>
        /\ "process_init" \in Late
    BY <1>2 DEF SetStarted, Goto, Late
  <2>2. a \in sipi \ Dead
    BY <2>1 DEF SmpInv, OneAtATime
  <2> QED BY Zenon, <2>1, <2>2, LateKeeps
<1>3. CASE ResetPids(a)
  <2>1. \E from, to \in Late : Goto(a, from, to)
    BY <1>3 DEF ResetPids, Late
  <2> QED BY Zenon, <1>1, <1>3, <2>1 DEF ResetPids
<1>4. CASE ApAlloc(a)
  <2>1. \E from, to \in Late : Goto(a, from, to)
    BY <1>4 DEF ApAlloc, Late
  <2> QED BY Zenon, <1>1, <1>4, <2>1 DEF ApAlloc
<1>5. CASE KernelProc(a)
  <2>1. \E from, to \in Late : Goto(a, from, to)
    BY <1>5 DEF KernelProc, Late
  <2> QED BY Zenon, <1>1, <1>5, <2>1 DEF KernelProc
<1>6. CASE SchedStart(a)
  <2>1. \E from, to \in Late : Goto(a, from, to)
    BY <1>6 DEF SchedStart, Late
  <2> QED BY Zenon, <1>1, <1>6, <2>1 DEF SchedStart
<1> QED BY <1>2, <1>3, <1>4, <1>5, <1>6

\* Every step preserves the invariant.
LEMMA NextInv == ASSUME Prompt, SmpInv, [Next]_vars PROVE SmpInv'
<1>1. CASE UNCHANGED vars
  BY <1>1, SameKeepsInv DEF vars
<1>2. CASE StartAp \/ SendSipi \/ Retry \/ GiveUp
  BY Zenon, <1>2, StartApInv, SendSipiInv, RetryInv, GiveUpInv
<1>3. CASE CreateInit \/ InitAlloc
  BY <1>3, GoesOnInv DEF CreateInit, InitAlloc
<1>4. CASE \E a \in APs : Trampoline(a) \/ LoadStack(a) \/ PercpuInit(a)
  BY Zenon, <1>4, TrampolineInv, LoadStackInv, PercpuInitInv
<1>5. CASE \E a \in APs : SetStarted(a) \/ ResetPids(a) \/ ApAlloc(a) \/ KernelProc(a) \/ SchedStart(a)
  BY Zenon, <1>5, LateStepInv
<1> QED BY Zenon, <1>1, <1>2, <1>3, <1>4, <1>5 DEF Next

\* What ends a wait without giving up is the flag, and the flag is the target's.
LEMMA FlagStep ==
  ASSUME SmpInv, [Next]_vars, bpc' = "start", bpc # "start", freed' = freed
  PROVE  apc[target] \notin {"off", "trampoline", "entry", "started"}
<1>1. bpc \in Waits /\ (ig_ap_started \/ freed' = freed \cup {ig_ap_stack})
  <2>1. bpc' # bpc
    OBVIOUS
  <2>2. \A a \in APs : ~(\/ Trampoline(a) \/ LoadStack(a) \/ PercpuInit(a) \/ SetStarted(a)
                         \/ ResetPids(a) \/ ApAlloc(a) \/ KernelProc(a) \/ SchedStart(a))
    BY <2>1 DEF Trampoline, LoadStack, PercpuInit, SetStarted, ResetPids, ApAlloc, KernelProc,
                SchedStart, bvars
  <2>3. ~(StartAp \/ SendSipi \/ CreateInit \/ InitAlloc \/ UNCHANGED vars)
    BY <2>1 DEF StartAp, SendSipi, CreateInit, InitAlloc, vars, bvars
  <2>4. Retry \/ GiveUp
    BY Zenon, <2>2, <2>3 DEF Next
  <2>5. CASE Retry
    <3>1. bpc = "wait_1ms" /\ bpc' = IF ig_ap_started THEN "start" ELSE "wait_1s"
      BY Zenon, <2>5 DEF Retry
    <3>2. ~ig_ap_started => bpc' # "start"
      BY <3>1
    <3>3. bpc \in Waits
      BY <3>1 DEF Waits
    <3>4. ig_ap_started
      BY <3>2
    <3> QED BY <3>3, <3>4
  <2>6. CASE GiveUp
    <3>1. bpc = "wait_1s" /\ freed' = IF ig_ap_started THEN freed ELSE freed \cup {ig_ap_stack}
      BY Zenon, <2>6 DEF GiveUp
    <3>3. bpc \in Waits
      BY <3>1 DEF Waits
    <3>4. CASE ig_ap_started
      BY <3>3, <3>4
    <3>5. CASE ~ig_ap_started
      BY <3>1, <3>3, <3>5
    <3> QED BY <3>4, <3>5
  <2> QED BY Zenon, <2>4, <2>5, <2>6
<1>2. ig_ap_started
  <2>1. ig_ap_stack = target /\ target \notin freed
    BY <1>1 DEF SmpInv, OneAtATime, FreedInv
  <2> QED BY <1>1, <2>1
<1>3. apc[target] \in Late
  BY <1>1, <1>2 DEF SmpInv, OneAtATime
<1> QED BY <1>3 DEF Late

\* ig_smp_start_ap and ig_smp_ap_entry: when the processors that answer do so before the
\* first gives them up, each of any number of them runs on a stack of its own that was not
\* freed, with data and an identifier (an index of __cpus) of its own, and the first goes
\* on to the next processor only when the flag was set by the one it started.
THEOREM ProcessorsStartApart == ASSUME Prompt PROVE Spec => StartsAreApart
<1>1. Init => SmpInv
  BY InitInv
<1>2. SmpInv /\ [Next]_vars => SmpInv'
  BY NextInv
<1>3. SmpInv => TypeOK /\ StacksApart /\ IdsApart
  BY InvApart
<1>4. SmpInv /\ [Next]_vars =>
        [bpc' = "start" /\ bpc # "start" /\ freed' = freed =>
            apc[target] \notin {"off", "trampoline", "entry", "started"}]_vars
  BY FlagStep
<1> QED BY <1>1, <1>2, <1>3, <1>4, PTL DEF Spec, StartsAreApart, FlagIsOfTarget

-----------------------------------------------------------------------------
(* Identifiers of processes *)

\* Until an identifier is freed, the bits of the first byte are those of the processes
\* that have one, no two of which have the same; one beyond is given out when all are set.
ByteInv ==
    /\ \A b \in 0 .. Byte - 1 : <<0, b>> \in pid_bitmap <=> \E p \in Holder : pid[p] = b + 1
    /\ \A p, q \in Holder : pid[p] = pid[q] /\ pid[p] \in 1 .. Byte => p = q
    /\ \A p \in Holder : pid[p] = Byte + 1 => \A b \in 0 .. Byte - 1 : <<0, b>> \in pid_bitmap

PidInv == PidTypeOK /\ FirstWordOnly /\ (~pid_freed => ByteInv)
-----------------------------------------------------------------------------
\* A set of natural numbers that is not empty has a least element.
LEMMA LeastNat ==
  ASSUME NEW S \in SUBSET Nat, S # {}
  PROVE  Min(S) \in S /\ \A y \in S : Min(S) =< y
<1>1. IsWellFoundedOn(OpToRel(<, Nat), Nat)
  BY Zenon, NatLessThanWellFounded
<1>2. PICK n \in S : \A m \in S : <<m, n>> \notin OpToRel(<, Nat)
  BY Zenon, <1>1, WFMin
<1>3. \A m \in S : ~(m < n)
  BY Zenon, <1>2 DEF OpToRel
<1>4. \A m \in S : n =< m
  BY <1>3
<1> QED BY Zenon, <1>4 DEF Min

\* The first word is never full: the search ends in it, at the first clear bit of its
\* first byte or else at the bit behind.
LEMMA SearchFacts ==
  ASSUME PidTypeOK
  PROVE  /\ Open # {} /\ Min(Open) = 0
         /\ Min(Clear(0)) \in 0 .. Byte
         /\ <<0, Min(Clear(0))>> \notin pid_bitmap
         /\ \A b \in 0 .. Byte - 1 : b < Min(Clear(0)) => <<0, b>> \in pid_bitmap
<1>0. Byte \in Nat \ {0} /\ Word \in Nat /\ Byte < Word /\ Words \in Nat /\ Words > 1
  BY PidAssumption
<1>1. <<0, Byte>> \notin pid_bitmap
  BY <1>0 DEF PidTypeOK
<1>2. Byte \in Clear(0) /\ Clear(0) \in SUBSET Nat
  BY <1>0, <1>1 DEF Clear
<1>3. 0 \in Open /\ Open \in SUBSET Nat
  BY <1>0, <1>1 DEF Open
<1>4. Min(Clear(0)) \in Clear(0) /\ \A y \in Clear(0) : Min(Clear(0)) <= y
  BY <1>2, LeastNat
<1>5. Min(Open) \in Open /\ \A y \in Open : Min(Open) <= y
  BY <1>3, LeastNat
<1>6. Min(Open) = 0
  <2>1. Min(Open) \in Nat /\ Min(Open) =< 0
    BY Zenon, <1>3, <1>5
  <2> QED BY <2>1
<1>7. Min(Clear(0)) \in 0 .. Byte /\ <<0, Min(Clear(0))>> \notin pid_bitmap
  BY <1>0, <1>2, <1>4 DEF Clear
<1>8. ASSUME NEW b \in 0 .. Byte - 1, b < Min(Clear(0)) PROVE <<0, b>> \in pid_bitmap
  <2>1. b \notin Clear(0)
    BY <1>0, <1>4, <1>7, <1>8
  <2> QED BY <1>0, <2>1 DEF Clear
<1> QED BY <1>3, <1>6, <1>7, <1>8

\* Setting and clearing take a position apart by Byte: within the first byte the bit is in
\* the first word, the position behind is in the second.
LEMMA BitFacts ==
  /\ \A b \in 0 .. Byte - 1 : Bit(b) = <<0, b>>
  /\ Bit(Byte) = <<1, 0>>
  /\ <<1, 0>> \in (0 .. Words - 1) \X (0 .. Byte - 1)
  /\ \A b \in 0 .. Byte - 1 : <<0, b>> \in (0 .. Words - 1) \X (0 .. Byte - 1)
<1>0. Byte \in Nat \ {0} /\ Words \in Nat /\ Words > 1
  BY PidAssumption
<1>1. ASSUME NEW b \in 0 .. Byte - 1 PROVE b \div Byte = 0 /\ b % Byte = b
  BY <1>0
<1>2. Byte \div Byte = 1 /\ Byte % Byte = 0
  BY <1>0
<1> QED BY <1>0, <1>1, <1>2 DEF Bit

\* An empty bitmap and no processes.
LEMMA PidInitInv == ASSUME PidInit PROVE PidInv
<1>0. Byte \in Nat \ {0} /\ Words \in Nat /\ Words > 1
  BY PidAssumption
<1>1. Byte * Words \in Nat
  BY <1>0
<1>2. PidTypeOK
  <2>1. NoPid \in NoPid .. Byte * Words
    BY <1>1 DEF NoPid
  <2> QED BY Zenon, <2>1 DEF PidInit, PidTypeOK
<1>3. FirstWordOnly
  BY <1>0 DEF PidInit, FirstWordOnly, NoPid
<1>4. ByteInv
  BY <1>0 DEF PidInit, ByteInv, NoPid
<1> QED BY <1>2, <1>3, <1>4 DEF PidInv

\* alloc_pid takes the first clear bit of the first byte, or the bit behind it.
LEMMA AllocInv == ASSUME PidInv, NEW p \in Holder, alloc_pid(p) PROVE PidInv'
<1> DEFINE ret == Min(Clear(0))
<1>0. Byte \in Nat \ {0} /\ Words \in Nat /\ Words > 1 /\ PidTypeOK /\ FirstWordOnly
  BY PidAssumption DEF PidInv
<1>1. /\ ret \in 0 .. Byte /\ <<0, ret>> \notin pid_bitmap
      /\ \A b \in 0 .. Byte - 1 : b < ret => <<0, b>> \in pid_bitmap
  BY <1>0, SearchFacts
<1>2. /\ pid[p] = NoPid /\ pid_panic' = (KDEBUG /\ Bit(ret) \in pid_bitmap)
      /\ pid_bitmap' = pid_bitmap \cup {Bit(ret)} /\ pid' = [pid EXCEPT ![p] = ret + 1]
      /\ pid_freed' = pid_freed
  <2>1. Open # {} /\ Min(Open) = 0 /\ Min(Open) * Byte + Min(Clear(Min(Open))) = ret
    BY <1>0, <1>1, SearchFacts
  <2> QED BY Zenon, <2>1 DEF alloc_pid, pid_bitmap_set
<1> HIDE DEF ret
<1>3. pid'[p] = ret + 1 /\ \A q \in Holder \ {p} : pid'[q] = pid[q]
  BY <1>0, <1>2 DEF PidTypeOK
<1>4. Bit(ret) = IF ret = Byte THEN <<1, 0>> ELSE <<0, ret>>
  BY <1>0, <1>1, BitFacts
<1>5. PidTypeOK'
  <2>1. pid_bitmap' \subseteq (0 .. Words - 1) \X (0 .. Byte - 1)
    BY <1>0, <1>1, <1>2, <1>4, BitFacts DEF PidTypeOK
  <2>2. ret + 1 \in NoPid .. Byte * Words
    <3>1. Byte * 2 <= Byte * Words
      BY <1>0
    <3>2. ret + 1 <= Byte * 2
      BY <1>0, <1>1
    <3>3. Byte * Words \in Nat
      BY <1>0
    <3> QED BY <1>0, <1>1, <3>1, <3>2, <3>3 DEF NoPid
  <2>3. pid' \in [Holder -> NoPid .. Byte * Words]
    BY <1>0, <1>2, <2>2 DEF PidTypeOK
  <2>4. pid_panic' \in BOOLEAN /\ pid_freed' \in BOOLEAN
    BY Zenon, <1>0, <1>2 DEF PidTypeOK
  <2> QED BY Zenon, <2>1, <2>3, <2>4 DEF PidTypeOK
<1>6. FirstWordOnly'
  BY <1>0, <1>1, <1>3 DEF FirstWordOnly, NoPid
<1>7. ASSUME ~pid_freed PROVE ByteInv'
  <2>0. ByteInv
    BY <1>7 DEF PidInv
  <2>1. \A q \in Holder : pid[q] \in 0 .. Byte + 1 /\ pid[p] = 0
    BY <1>0, <1>2 DEF FirstWordOnly, NoPid
  <2>2. ASSUME NEW b \in 0 .. Byte - 1
        PROVE  <<0, b>> \in pid_bitmap' <=> \E q \in Holder : pid'[q] = b + 1
    <3>1. <<0, b>> \in pid_bitmap' <=> <<0, b>> \in pid_bitmap \/ b = ret
      BY <1>0, <1>1, <1>2, <1>4
    <3>2. (\E q \in Holder : pid'[q] = b + 1) <=> (\E q \in Holder : pid[q] = b + 1) \/ b = ret
      BY <1>0, <1>1, <1>3, <2>1
    <3> QED BY <2>0, <3>1, <3>2 DEF ByteInv
  <2>3. ret < Byte => \A q \in Holder : pid[q] # ret + 1
    BY <1>0, <1>1, <2>0 DEF ByteInv
  <2>4. ASSUME NEW q \in Holder, NEW r \in Holder, pid'[q] = pid'[r], pid'[q] \in 1 .. Byte
        PROVE  q = r
    <3>1. CASE q = p \/ r = p
      BY <1>0, <1>1, <1>3, <2>3, <2>4, <3>1
    <3>2. CASE q # p /\ r # p
      BY <1>3, <2>0, <2>4, <3>2 DEF ByteInv
    <3> QED BY <3>1, <3>2
  <2>5. ASSUME NEW q \in Holder, pid'[q] = Byte + 1, NEW b \in 0 .. Byte - 1
        PROVE  <<0, b>> \in pid_bitmap'
    <3>1. CASE q = p
      BY <1>0, <1>1, <1>2, <1>3, <2>5, <3>1
    <3>2. CASE q # p
      BY <1>2, <1>3, <2>0, <2>5, <3>2 DEF ByteInv
    <3> QED BY <3>1, <3>2
  <2> QED BY <2>2, <2>4, <2>5 DEF ByteInv
<1> QED BY <1>2, <1>5, <1>6, <1>7 DEF PidInv

\* free_pid clears bits only, and from then on identifiers may be shared.
LEMMA FreeInv == ASSUME PidInv, NEW p \in Holder, free_pid(p) PROVE PidInv'
<1>0. Byte \in Nat \ {0} /\ Words \in Nat /\ Words > 1 /\ PidTypeOK /\ FirstWordOnly
  BY PidAssumption DEF PidInv
<1>1. /\ pid_bitmap' \subseteq pid_bitmap /\ pid' = [pid EXCEPT ![p] = NoPid] /\ pid_freed' = TRUE
      /\ pid_panic' \in BOOLEAN
  BY Zenon, PidAssumption DEF free_pid, pid_bitmap_clear
<1>2. NoPid \in NoPid .. Byte * Words /\ NoPid \in NoPid .. Byte + 1
  <2>1. Byte * Words \in Nat
    BY <1>0
  <2> QED BY <1>0, <2>1 DEF NoPid
<1>3. PidTypeOK'
  BY <1>0, <1>1, <1>2 DEF PidTypeOK
<1>4. FirstWordOnly'
  BY <1>0, <1>1, <1>2 DEF FirstWordOnly, PidTypeOK
<1> QED BY <1>1, <1>3, <1>4 DEF PidInv

\* What the invariant says of identifiers: that of the position behind the first byte is
\* given out when as many processes as the byte has bits have the others.
LEMMA InvPids == ASSUME PidInv PROVE PidsAreApart
<1>0. Byte \in Nat \ {0} /\ PidTypeOK /\ FirstWordOnly /\ IsFiniteSet(Holder)
  BY PidAssumption DEF PidInv
<1> DEFINE live == {p \in Holder : pid[p] # NoPid}
           first == {p \in Holder : pid[p] \in 1 .. Byte}
<1>1. ASSUME ~pid_freed, Cardinality(live) <= Byte + 1, NEW p \in Holder, NEW q \in Holder,
             pid[p] = pid[q], pid[p] # NoPid, p # q
      PROVE  FALSE
  <2>0. ByteInv
    BY <1>1 DEF PidInv
  <2>1. pid[p] = Byte + 1 /\ pid[q] = Byte + 1
    BY <1>0, <1>1, <2>0 DEF ByteInv, FirstWordOnly, NoPid
  <2>2. \A b \in 0 .. Byte - 1 : \E r \in Holder : pid[r] = b + 1
    BY <2>0, <2>1 DEF ByteInv
  <2>3. Cardinality(first) = Byte /\ IsFiniteSet(first)
    <3> DEFINE f == [r \in first |-> pid[r]]
    <3>1. f \in Bijection(first, 1 .. Byte)
      <4>1. f \in [first -> 1 .. Byte]
        OBVIOUS
      <4>2. \A r, s \in first : f[r] = f[s] => r = s
        BY <2>0 DEF ByteInv
      <4>3. ASSUME NEW i \in 1 .. Byte PROVE \E r \in first : f[r] = i
        <5>1. i - 1 \in 0 .. Byte - 1 /\ (i - 1) + 1 = i
          BY <1>0
        <5> QED BY <2>2, <5>1
      <4> QED BY <4>1, <4>2, <4>3 DEF Bijection, Injection, Surjection, IsInjective
    <3>2. IsFiniteSet(first)
      BY <1>0, FS_Subset
    <3>3. Cardinality(1 .. Byte) = Byte
      BY <1>0, FS_Interval
    <3> QED BY <3>1, <3>2, <3>3, FS_Bijection DEF ExistsBijection
  <2>4. p \notin first /\ q \notin first \cup {p}
    BY <1>0, <1>1, <2>1
  <2>5. Cardinality(first \cup {p} \cup {q}) = Byte + 2
    <3> HIDE DEF first
    <3>1. IsFiniteSet(first \cup {p}) /\ Cardinality(first \cup {p}) = Byte + 1
      BY <2>3, <2>4, FS_AddElement
    <3>2. Cardinality((first \cup {p}) \cup {q}) = Byte + 1 + 1
      BY <2>4, <3>1, FS_AddElement
    <3> QED BY <1>0, <3>2
  <2>6. first \cup {p} \cup {q} \in SUBSET live /\ live \in SUBSET Holder
    BY <1>0, <1>1 DEF NoPid
  <2>7. IsFiniteSet(live) /\ Cardinality(live) \in Nat /\ Byte + 2 <= Cardinality(live)
    <3> HIDE DEF first, live
    <3>1. IsFiniteSet(live)
      BY <1>0, <2>6, FS_Subset
    <3> QED BY <2>5, <2>6, <3>1, FS_Subset, FS_CardinalityType
  <2> QED BY <1>0, <1>1, <2>7
<1>2. SharedOnlyBeyond
  BY <1>1 DEF SharedOnlyBeyond
<1> QED BY <1>0, <1>2 DEF PidsAreApart

\* alloc_pid, whose search is by words of 64 bits while setting is by 8, gives out positions
\* of the first word alone, and until a process is freed or there are more of them than
\* the first byte has bits and one, no two have the same identifier.
THEOREM PidsStayApart == PidSpec => []PidsAreApart
<1>1. PidInit => PidInv
  BY PidInitInv
<1>2. PidInv /\ [PidNext]_pidVars => PidInv'
  <2>1. PidInv /\ UNCHANGED pidVars => PidInv'
    BY DEF pidVars, PidInv, PidTypeOK, FirstWordOnly, ByteInv
  <2> QED BY Zenon, <2>1, AllocInv, FreeInv DEF PidNext
<1>3. PidInv => PidsAreApart
  BY InvPids
<1> QED BY <1>1, <1>2, <1>3, PTL DEF PidSpec
=============================================================================
