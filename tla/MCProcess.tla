----------------------------- MODULE MCProcess -----------------------------
(***************************************************************************)
(* Processes for TLC: their family (Proc) and identifiers (Pid), which this *)
(* one extends, handles (Handles), the names of their ports (PortNames) and *)
(* the loading of programs (Loader).  The modules share no state; as in     *)
(* MCMemory, one of them moves and the others stay as they begin.           *)
(***************************************************************************)
EXTENDS Proc, Pid, TLC

CONSTANTS p1, p2, p3, NULL

VARIABLES moves,
          state, current, kobjects, update, space, ref_count, ports, handles_panic,     \* Handles
          port_hash, hash_capacity, hash_size, port_ifce_hash, names_pc, name, wild,    \* PortNames
          prog, who, loader_pc, i, as, mine, child, failed                              \* Loader

\* A table of two handles can grow once.
Three == 1 .. 3
Handles == INSTANCE Handles WITH Procs <- Three, Root <- 1, Spaces <- Three, Boot <- 1,
                                 KOBJ_INIT_SIZE <- 2, MaxSize <- 3, MaxPorts <- 2, Discipline <- TRUE,
                                 panic <- handles_panic

\* Hash values that meet in one slot, and some that fall behind the table when its
\* capacity grows from 3 to 4.
Name  == {"a", "b", "c", "d", "e"}
Hash  == [a |-> 0, b |-> 3, c |-> 5, d |-> 4, e |-> 1]
Ifces == <<"e", "d">>
PortNames == INSTANCE PortNames
             WITH Proc <- Three, PORT_HASH_INIT_CAP <- 3, PORT_HASH_LOAD_FACTOR <- 75,
                  PORT_IFCE_HASH_SIZE <- 3, MaxSize <- 5, pc <- names_pc

\* Programs of one or two segments anywhere in seven pages, the upper three of which are
\* for stack and init data.
Segment  == [vaddr : 0 .. 8, memsz : 1 .. 5]
Programs == {<<s>> : s \in Segment} \cup {<<s, t>> : s, t \in Segment}
Who      == {"spawn", "init"}
Loader == INSTANCE Loader WITH PAGE <- 2, Top <- 7, StackPages <- 2, InitPages <- 1, pc <- loader_pc

MCInit ==
    /\ moves \in {"Proc", "Handles", "Pid", "PortNames", "Loader"}
    /\ (moves # "Loader" => prog = <<[vaddr |-> 2, memsz |-> 1]>> /\ who = "init")
    /\ Init /\ Handles!Init /\ PidInit /\ PortNames!Init /\ Loader!Init

handlesVars == <<state, current, kobjects, update, space, ref_count, ports, handles_panic>>
namesVars   == <<port_hash, hash_capacity, hash_size, port_ifce_hash, names_pc, name, wild>>
loaderVars  == <<prog, who, loader_pc, i, as, mine, child, failed>>
mcVars      == <<moves, vars, handlesVars, pidVars, namesVars, loaderVars>>

MCNext ==
    \/ moves = "Proc" /\ Next /\ UNCHANGED <<moves, handlesVars, pidVars, namesVars, loaderVars>>
    \/ moves = "Handles" /\ Handles!Next /\ UNCHANGED <<moves, vars, pidVars, namesVars, loaderVars>>
    \/ moves = "Pid" /\ PidNext /\ UNCHANGED <<moves, vars, handlesVars, namesVars, loaderVars>>
    \/ moves = "PortNames" /\ PortNames!Next /\ UNCHANGED <<moves, vars, handlesVars, pidVars, loaderVars>>
    \/ moves = "Loader" /\ Loader!Next /\ UNCHANGED <<moves, vars, handlesVars, pidVars, namesVars>>

MCSpec == MCInit /\ [][MCNext]_mcVars

Symmetry == Permutations({p1, p2, p3})

-----------------------------------------------------------------------------
\* The ref_count of an address space is at least the number of processes in it, so the
\* space of a process is not destroyed under it while programs destroy only their own;
\* every open port reference has one handle and goes with its process.
HandlesAreCounted ==
    moves = "Handles" => /\ Handles!TypeOK /\ Handles!CountCovers
                         /\ Handles!CurrentIsThere /\ Handles!PortsAreHandled

\* The names that are found are those of open ports, while no slot behind the table was
\* used; a name has one server, though two processes may ask for it at once; and growing
\* the table (_port_hash_rehash_slot) loses no port.
NamesAreExact ==
    /\ [](moves = "PortNames" =>
             PortNames!TypeOK /\ PortNames!NamesAreExact /\ PortNames!OneServerPerName)
    /\ PortNames!RehashKeepsEntries

\* A program that was started has its segments, its stack and its init data; only
\* segments that do not begin at a page make the boot loader fault; and a spawn that
\* failed at any of its calls leaves no address space, and no pages but the init data's.
LoadsAreWhole ==
    moves = "Loader" => /\ Loader!TypeOK /\ Loader!StartedIsComplete
                        /\ Loader!AlignedInitLoads /\ Loader!NothingIsLeft
=============================================================================
