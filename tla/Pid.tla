-------------------------------- MODULE Pid --------------------------------
(***************************************************************************)
(* The bitmap of process identifiers (k_proc.c).  Words of it have Word     *)
(* bits; setting and clearing take a position apart by Byte instead, and    *)
(* the search puts it together by Byte, too.  pid_bitmap_lock makes each    *)
(* operation one step.  In a build without _KDEBUG the assertions are void. *)
(***************************************************************************)
EXTENDS Integers, FiniteSets, FiniteSetsExt

CONSTANTS Word,      \* 64
          Byte,      \* 8
          Words,     \* PID_BITMAP_SIZE
          Holder,    \* processes there may be at a time
          KDEBUG     \* the assertions are compiled in

ASSUME PidAssumption == /\ Byte \in Nat \ {0} /\ Word \in Nat /\ Byte < Word
                        /\ Words \in Nat /\ Words > 1 /\ IsFiniteSet(Holder) /\ KDEBUG \in BOOLEAN

VARIABLES pid_bitmap,  \* the bits that are set, as <<word, bit>>
          pid,         \* identifier of each process, or NoPid
          pid_freed,   \* whether an identifier was freed
          pid_panic    \* whether an assertion failed

pidVars == <<pid_bitmap, pid, pid_freed, pid_panic>>

NoPid == 0

PidInit == pid_bitmap = {} /\ pid = [p \in Holder |-> NoPid] /\ pid_freed = FALSE /\ pid_panic = FALSE

Bit(pos) == <<pos \div Byte, pos % Byte>>

\* Mutant: the bit is not set.
pid_bitmap_set_Not(pos) == UNCHANGED <<pid_bitmap, pid_panic>>

pid_bitmap_set(pos) == /\ pid_panic' = (KDEBUG /\ Bit(pos) \in pid_bitmap)
                       /\ pid_bitmap' = pid_bitmap \cup {Bit(pos)}

pid_bitmap_clear(pos) == /\ pid_panic' = (KDEBUG /\ Bit(pos) \notin pid_bitmap)
                         /\ pid_bitmap' = pid_bitmap \ {Bit(pos)}

\* Words that are not full, and the clear bits of a word.
Open == {w \in 0 .. Words - 1 : \E b \in 0 .. Word - 1 : <<w, b>> \notin pid_bitmap}
Clear(w) == {b \in 0 .. Word - 1 : <<w, b>> \notin pid_bitmap}

\* process_create takes an identifier; (pid_t)-1 when no word is open.
alloc_pid(p) ==
    LET ret == Min(Open) * Byte + Min(Clear(Min(Open))) IN
    /\ ~pid_panic /\ pid[p] = NoPid
    /\ IF Open = {} THEN pid' = [pid EXCEPT ![p] = -1] /\ UNCHANGED <<pid_bitmap, pid_panic>>
       ELSE pid_bitmap_set(ret) /\ pid' = [pid EXCEPT ![p] = ret + 1]
    /\ UNCHANGED pid_freed

\* process_destroy gives it back: position pid, where alloc_pid had set pid - 1.
free_pid(p) ==
    /\ ~pid_panic /\ pid[p] # NoPid
    /\ pid_bitmap_clear(pid[p]) /\ pid' = [pid EXCEPT ![p] = NoPid] /\ pid_freed' = TRUE

PidNext == \E p \in Holder : alloc_pid(p) \/ free_pid(p)

PidSpec == PidInit /\ [][PidNext]_pidVars

-----------------------------------------------------------------------------
(* Properties *)

PidTypeOK == /\ pid_bitmap \subseteq (0 .. Words - 1) \X (0 .. Byte - 1)
             /\ pid \in [Holder -> NoPid .. Byte * Words]
             /\ pid_freed \in BOOLEAN /\ pid_panic \in BOOLEAN

\* The search never leaves the first word, since no bit of it from Byte on is ever
\* set: of all the identifiers only Byte + 1 are given out, and alloc_pid never fails.
FirstWordOnly == \A p \in Holder : pid[p] \in NoPid .. Byte + 1

\* Two live processes share an identifier only if one was freed before, or if there are
\* more than Byte + 1 of them: until then what alloc_pid gives out is new.
SharedOnlyBeyond ==
    (~pid_freed /\ Cardinality({p \in Holder : pid[p] # NoPid}) <= Byte + 1)
        => \A p, q \in Holder : pid[p] = pid[q] /\ pid[p] # NoPid => p = q

\* alloc_pid gives out positions of the first word alone, and until a process has been
\* freed or the first byte is full no two processes share an identifier.
PidsAreApart == PidTypeOK /\ FirstWordOnly /\ SharedOnlyBeyond

\* ASSERT((pid_bitmap[idx] & (1ull << off)) == 0) in pid_bitmap_set: the position
\* alloc_pid found clear is clear.
\* Not so in the code, with KDEBUG: see README, "Disagreements".
FoundIsClear == [][\A p \in Holder : alloc_pid(p) => ~pid_panic']_pidVars

\* ASSERT((pid_bitmap[idx] & (1ull << off)) != 0) in pid_bitmap_clear: what free_pid
\* clears was set.
\* Not so in the code, with KDEBUG: see README, "Disagreements".
FreedIsSet == [][\A p \in Holder : free_pid(p) => ~pid_panic']_pidVars
=============================================================================
