----------------------------- MODULE PortNames -----------------------------
(***************************************************************************)
(* Names of ports, kernel/k_port.c: the hash table of ports, which grows,   *)
(* and the table of the kernel's own interfaces, kernel/k_port_ifce.c, which *)
(* syscall_port_open looks at first.  Names stand for strings without their  *)
(* NUL; Hash is kstr_hash.  What is done under hash_lock is one step.        *)
(***************************************************************************)
EXTENDS Integers, Sequences, SequencesExt

CONSTANTS Proc,        \* processes; each serves one port at a time
          Name, Hash,  \* names, and kstr_hash of them
          Ifces,       \* names of interfaces in the order port_ifce_init makes them
          PORT_HASH_INIT_CAP, PORT_HASH_LOAD_FACTOR, PORT_IFCE_HASH_SIZE,
          MaxSize,     \* bound on the number of ports ever created
          NULL

VARIABLES port_hash,      \* port_hash[i]: the entries of slot i, the latest first
          hash_capacity, hash_size,
          port_ifce_hash, \* names in the table of interfaces, or NULL
          pc, name,       \* where p is, and the name it uses
          wild            \* a slot behind the table was used; what follows is not defined

vars == <<port_hash, hash_capacity, hash_size, port_ifce_hash, pc, name, wild>>

-----------------------------------------------------------------------------
(* Interfaces *)

Probe(n, i) == (Hash[n] + i) % PORT_IFCE_HASH_SIZE
Probes == 0 .. PORT_IFCE_HASH_SIZE - 1
FirstProbe(P(_)) == CHOOSE i \in Probes : P(i) /\ \A k \in 0 .. i - 1 : ~P(k)

_port_ifce_hash_insert(t, n) ==
    LET empty(i) == t[Probe(n, i)] = NULL IN [t EXCEPT ![Probe(n, FirstProbe(empty))] = n]

_port_ifce_hash_locate(n) ==
    LET stop(i) == port_ifce_hash[Probe(n, i)] \in {NULL, n} IN
    IF \E i \in Probes : stop(i) THEN port_ifce_hash[Probe(n, FirstProbe(stop))] ELSE NULL

port_ifce_init ==
    FoldLeft(_port_ifce_hash_insert, [i \in Probes |-> NULL], Ifces)

-----------------------------------------------------------------------------
(* The table of ports *)

Idx(n, cap) == Hash[n] % cap
InTable(n, cap) == Idx(n, cap) \in DOMAIN port_hash
Entries(n) == SelectSeq(port_hash[Idx(n, hash_capacity)], LAMBDA e : e.key = n)

\* The port of name n, or NULL; InTable(n, hash_capacity).
_port_hash_do_locate(n) == IF Entries(n) = <<>> THEN NULL ELSE Head(Entries(n)).val

_port_hash_do_insert(t, e, cap) == [t EXCEPT ![Idx(e.key, cap)] = <<e>> \o @]

_port_hash_rehash_slot(t, i, cap) ==
    FoldLeft(LAMBDA u, e : _port_hash_do_insert([u EXCEPT ![i] = Remove(@, e)], e, cap), t, t[i])

\* hash_capacity grows and every entry is put into its slot under it; port_hash itself
\* stays the table it was.
NewCap == (hash_capacity * 3) \div 2
_port_hash_rehash(t) ==
    FoldLeft(LAMBDA u, i : _port_hash_rehash_slot(u, i, NewCap), t, [i \in 1 .. hash_capacity |-> i - 1])

AllEntries == UNION {ToSet(port_hash[i]) : i \in DOMAIN port_hash}

Init ==
    /\ port_hash = [i \in 0 .. PORT_HASH_INIT_CAP - 1 |-> <<>>]
    /\ hash_capacity = PORT_HASH_INIT_CAP /\ hash_size = 0
    /\ port_ifce_hash = port_ifce_init
    /\ pc = [p \in Proc |-> "user"] /\ name = [p \in Proc |-> NULL] /\ wild = FALSE

At(p, place) == ~wild /\ pc[p] = place
Goes(p, place) == pc' = [pc EXCEPT ![p] = place]
Wild == wild' = TRUE /\ UNCHANGED <<port_hash, hash_capacity, hash_size, port_ifce_hash, pc, name>>
table == <<port_hash, hash_capacity, hash_size>>

\* The test at the start of port_create, which is done again when the name is inserted.
port_hash_fetch(p, n) ==
    /\ At(p, "user")
    /\ IF ~InTable(n, hash_capacity) THEN Wild
       ELSE /\ _port_hash_do_locate(n) = NULL /\ Goes(p, "create") /\ name' = [name EXCEPT ![p] = n]
            /\ UNCHANGED <<table, port_ifce_hash, wild>>

Full == (hash_size * 100) \div hash_capacity >= PORT_HASH_LOAD_FACTOR

\* Mutant: the name is not looked up again.
Occupied_Never(n) == FALSE

Occupied(n) == _port_hash_do_locate(n) # NULL

InsertInto(t, p, cap) ==
    /\ port_hash' = _port_hash_do_insert(t, [key |-> name[p], val |-> p], cap)
    /\ hash_capacity' = cap /\ hash_size' = hash_size + 1
    /\ Goes(p, "serve") /\ UNCHANGED <<port_ifce_hash, name, wild>>

\* nomem: an allocation fails; everything is freed again and port_create fails, as it
\* does if the name is taken.
port_hash_insert(p, nomem) ==
    /\ At(p, "create") /\ hash_size < MaxSize
    /\ IF ~InTable(name[p], hash_capacity) THEN Wild
       ELSE IF nomem \/ Occupied(name[p])
       THEN Goes(p, "user") /\ UNCHANGED <<table, port_ifce_hash, name, wild>>
       ELSE IF ~Full THEN InsertInto(port_hash, p, hash_capacity)
       ELSE IF \/ hash_capacity > PORT_HASH_INIT_CAP
               \/ ~InTable(name[p], NewCap) \/ \E e \in AllEntries : ~InTable(e.key, NewCap)
       THEN Wild
       ELSE InsertInto(_port_hash_rehash(port_hash), p, NewCap)

\* port_server_close; hash_size stays.
port_hash_remove(p) ==
    /\ At(p, "serve") /\ Goes(p, "user")
    /\ port_hash' = [port_hash EXCEPT ![Idx(name[p], hash_capacity)] =
                        SelectSeq(@, LAMBDA e : e # Head(Entries(name[p])))]
    /\ UNCHANGED <<hash_capacity, hash_size, port_ifce_hash, name, wild>>

Next == \E p \in Proc :
    \/ \E n \in Name : port_hash_fetch(p, n)
    \/ \E nomem \in BOOLEAN : port_hash_insert(p, nomem)
    \/ port_hash_remove(p)

Spec == Init /\ [][Next]_vars

\* What an open finds: an interface before a port.
syscall_port_open(n) == IF _port_ifce_hash_locate(n) # NULL THEN "ifce" ELSE _port_hash_do_locate(n)

-----------------------------------------------------------------------------
\* Fields have their types; no slot holds an entry twice.
TypeOK ==
    /\ DOMAIN port_hash = 0 .. PORT_HASH_INIT_CAP - 1 /\ hash_size \in 0 .. MaxSize
    /\ \A i \in DOMAIN port_hash : IsInjective(port_hash[i]) /\ ToSet(port_hash[i]) \subseteq [key : Name, val : Proc]
    /\ pc \in [Proc -> {"user", "create", "serve"}] /\ wild \in BOOLEAN

\* syscall_port_open (k_syscall.c:399-416) finds the port of the process that serves a
\* name and no other, before and after the table has grown (k_port.c:84-104), as long as
\* no slot behind the table was used; an interface hides a port of its name.
NamesAreExact ==
    ~wild => \A n \in Name : InTable(n, hash_capacity) =>
        syscall_port_open(n) = IF n \in ToSet(Ifces) THEN "ifce"
                               ELSE IF \E p \in Proc : pc[p] = "serve" /\ name[p] = n
                               THEN CHOOSE p \in Proc : pc[p] = "serve" /\ name[p] = n ELSE NULL

\* Two processes that both found a name free (k_port.c:207) do not both serve it.
OneServerPerName == \A p, q \in Proc : pc[p] = "serve" /\ pc[q] = "serve" /\ name[p] = name[q] => p = q

\* When the table grows, entries move, but none is lost or duplicated (k_port.c:101-103).
RehashKeepsEntries == [][hash_capacity' # hash_capacity =>
                            AllEntries \subseteq AllEntries' /\ hash_size' = hash_size + 1]_vars
=============================================================================
