-------------------------------- MODULE Port --------------------------------
(***************************************************************************)
(* Request and response over a port, kernel/k_port.c: one server and the   *)
(* clients that open its port, send requests and wait for the answers, from *)
(* the creation of the port until its server has closed it.  port_create is *)
(* the only source of server references, so a port has one server, and the *)
(* object lock of its handle serialises the server's calls.                *)
(*                                                                         *)
(* A step is one atomic access, or one section under the port's mutex with *)
(* the wake it contains.  Sleeping and waking are those FutexAbstract      *)
(* promises: a wait compares and sleeps in one step.  The build is the one *)
(* with _KDEBUG, in which assertions are checked and _port_send_request    *)
(* stores the request with a locked instruction.                           *)
(***************************************************************************)
EXTENDS Integers, FiniteSets

CONSTANTS Client,    \* processes that may open the port
          Kinds,     \* kinds of request: see RequestKind
          Replies,   \* kinds of response: see ReplyKind
          NULL

\* A request that is fine, is too long for the server's buffer, or whose data
\* buffer the sender cannot read.
RequestKind == {"good", "long", "unreadable"}

\* A response that is fine, is longer than the sender's buffer, has a buffer the
\* sender cannot write to, or one the server cannot read.
ReplyKind == {"good", "oversize", "unwritable", "bad"}

ASSUME PortAssumption == /\ Kinds \subseteq RequestKind
                         /\ Replies \subseteq ReplyKind
                         /\ NULL \notin Client
                         /\ IsFiniteSet(Client)

VARIABLES server_ref_count, ref_count,  \* of the port
          waiting_server_count,  \* of the port; it never shrinks, 1 stands for all but 0
          server_queue,          \* whether the server is in the port's server_queue
          hashed,                \* whether the port is found by its name
          port_freed,            \* _port_free was called
          req,                   \* req of the server's reference: whose request, or NULL
          ref_freed,             \* the server's reference was freed
          spc,                   \* where the server is
          ret,                   \* the request port_receive took last
          rq,                    \* the request port_response or port_server_close took
          rc,                    \* port_server_close's local rc
          pc,                    \* pc[c]: where the client c is
          kind,                  \* kind[c]: of c's request
          finished, error,       \* of c's request
          answer,                \* answer[c]: for whose request the answer c got was made
          result,                \* result[c]: what c's last port_request returned
          panic                  \* why the system stopped

port == <<server_ref_count, ref_count, waiting_server_count, server_queue, hashed, port_freed>>
server == <<req, ref_freed, spc, ret, rq, rc>>
client == <<pc, kind, finished, error, answer, result>>
vars == <<port, server, client, panic>>

Init ==   \* after port_create
    /\ server_ref_count = 1 /\ ref_count = 1 /\ waiting_server_count = 0
    /\ server_queue = FALSE /\ hashed = TRUE /\ port_freed = FALSE
    /\ req = NULL /\ ref_freed = FALSE
    /\ spc = "user" /\ ret = NULL /\ rq = NULL /\ rc = 0
    /\ pc = [c \in Client |-> "new"]
    /\ kind = [c \in Client |-> "good"]
    /\ finished = [c \in Client |-> FALSE]
    /\ error = [c \in Client |-> "OK"]
    /\ answer = [c \in Client |-> NULL]
    /\ result = [c \in Client |-> "OK"]
    /\ panic = "none"

Panic(why) == panic' = why /\ UNCHANGED <<port, server, client>>

\* One step of the server from one place to another.
ServerGoes(from, to) == panic = "none" /\ spc = from /\ spc' = to

\* One step of the client c.
ClientGoes(c, from, to) == panic = "none" /\ pc[c] = from /\ pc' = [pc EXCEPT ![c] = to]

\* futex_kwake(&c->req.finished, 1): c goes on if it sleeps there.
WakeFinished(c) == pc' = [pc EXCEPT ![c] =
                      CASE @ = "asleep_finished" -> "xchg"
                        [] @ = "asleep_again"    -> "return"
                        [] OTHER                 -> @]

-----------------------------------------------------------------------------
(* port_receive *)

Receive ==
    \/ /\ spc = "user" /\ panic = "none" /\ req # NULL
       /\ Panic("port_receive_request_pending")
    \/ /\ req = NULL
       /\ ServerGoes("user", "enqueue")
       /\ UNCHANGED <<port, req, ref_freed, ret, rq, rc, client, panic>>

\* Mutant: the server is counted and not inserted.
Enqueue_NoInsert ==
    /\ ServerGoes("enqueue", "wake_clients")
    /\ waiting_server_count' = 1
    /\ UNCHANGED <<server_ref_count, ref_count, server_queue, hashed, port_freed,
                   req, ref_freed, ret, rq, rc, client, panic>>

Enqueue ==
    /\ ServerGoes("enqueue", "wake_clients")
    /\ waiting_server_count' = 1
    /\ server_queue' = TRUE
    /\ UNCHANGED <<server_ref_count, ref_count, hashed, port_freed,
                   req, ref_freed, ret, rq, rc, client, panic>>

\* futex_kwake(&waiting_server_count, 1).
WakeClient ==
    LET asleep == {c \in Client : pc[c] = "asleep_server"} IN
    /\ ServerGoes("wake_clients", "load_req")
    /\ IF asleep = {} THEN UNCHANGED pc
       ELSE \E c \in asleep : pc' = [pc EXCEPT ![c] = "dequeue"]
    /\ UNCHANGED <<port, req, ref_freed, ret, rq, rc, kind, finished, error, answer,
                   result, panic>>

LoadReq ==
    /\ ServerGoes("load_req", IF req = NULL THEN "kwait_req" ELSE "take")
    /\ UNCHANGED <<port, req, ref_freed, ret, rq, rc, client, panic>>

KWaitReq ==
    /\ ServerGoes("kwait_req", IF req = NULL THEN "asleep_req" ELSE "take")
    /\ UNCHANGED <<port, req, ref_freed, ret, rq, rc, client, panic>>

Take ==
    \/ /\ spc = "take" /\ panic = "none" /\ req = NULL
       /\ Panic("port_receive_no_request")
    \/ /\ req # NULL
       /\ ret' = req
       /\ \/ /\ kind[req] = "long"
             /\ ServerGoes("take", "refuse")
             /\ error' = [error EXCEPT ![req] = "PORT_REQ_TOO_LONG"]
          \/ /\ kind[req] # "long"
             /\ ServerGoes("take", "copy")
             /\ UNCHANGED error
       /\ UNCHANGED <<port, req, ref_freed, rq, rc, pc, kind, finished, answer, result, panic>>

\* A request that is too long is taken back, finished and its sender woken; then
\* the server waits again.
Refuse ==
    /\ ServerGoes("refuse", "refuse_finish")
    /\ req' = NULL
    /\ UNCHANGED <<port, ref_freed, ret, rq, rc, client, panic>>

RefuseFinish ==
    /\ ServerGoes("refuse_finish", "refuse_wake")
    /\ finished' = [finished EXCEPT ![ret] = TRUE]
    /\ UNCHANGED <<port, req, ref_freed, ret, rq, rc, pc, kind, error, answer, result, panic>>

RefuseWake ==
    /\ ServerGoes("refuse_wake", "enqueue")
    /\ WakeFinished(ret)
    /\ UNCHANGED <<port, req, ref_freed, ret, rq, rc, kind, finished, error, answer,
                   result, panic>>

\* The data is copied.  When it cannot be, the sender's terminate_flag is set
\* and the request is dropped, but still returned.
Copy ==
    /\ ServerGoes("copy", "user")
    /\ req' = IF kind[ret] = "unreadable" THEN NULL ELSE req
    /\ UNCHANGED <<port, ref_freed, ret, rq, rc, client, panic>>

-----------------------------------------------------------------------------
(* port_response *)

\* user_memory_copy fails with 1 for the source, here the server's buffer, and the
\* sender is terminated for it; with -1 for the sender's, and the server is terminated.
AfterReply(r) == CASE r = "good"       -> "respond_finish"
                   [] r = "unwritable" -> "exiting"
                   [] OTHER            -> "user"

\* Without a request the response is refused; a response that is refused for its
\* buffers drops the request.
Respond(r) ==
    /\ req # NULL
    /\ ServerGoes("user", AfterReply(r))
    /\ panic' = IF finished[req] THEN "port_response_finished" ELSE panic
    /\ req' = NULL /\ rq' = req
    /\ answer' = [answer EXCEPT ![req] = ret]
    /\ UNCHANGED <<port, ref_freed, ret, rc, pc, kind, finished, error, result>>

RespondFinish ==
    /\ ServerGoes("respond_finish", "respond_wake")
    /\ finished' = [finished EXCEPT ![rq] = TRUE]
    /\ UNCHANGED <<port, req, ref_freed, ret, rq, rc, pc, kind, error, answer, result, panic>>

\* Mutant: no wake.
RespondWake_None ==
    /\ ServerGoes("respond_wake", "user")
    /\ UNCHANGED <<port, req, ref_freed, ret, rq, rc, client, panic>>

RespondWake ==
    /\ ServerGoes("respond_wake", "user")
    /\ WakeFinished(rq)
    /\ UNCHANGED <<port, req, ref_freed, ret, rq, rc, kind, finished, error, answer,
                   result, panic>>

-----------------------------------------------------------------------------
(* port_server_close, by port_close or when the server exits *)

Close ==
    /\ panic = "none" /\ spc \in {"user", "exiting"}
    /\ spc' = IF req # NULL THEN "close_cancel" ELSE "close_server_rc"
    /\ UNCHANGED <<port, req, ref_freed, ret, rq, rc, client, panic>>

CloseCancel ==
    \/ /\ spc = "close_cancel" /\ panic = "none" /\ req = NULL
       /\ Panic("port_server_close_no_request")
    \/ /\ req # NULL
       /\ ServerGoes("close_cancel", "close_finish")
       /\ req' = NULL /\ rq' = req
       /\ error' = [error EXCEPT ![req] = "PORT_REQ_CANCELED"]
       /\ UNCHANGED <<port, ref_freed, ret, rc, pc, kind, finished, answer, result, panic>>

CloseFinish ==
    /\ ServerGoes("close_finish", "close_wake")
    /\ finished' = [finished EXCEPT ![rq] = TRUE]
    /\ UNCHANGED <<port, req, ref_freed, ret, rq, rc, pc, kind, error, answer, result, panic>>

CloseWake ==
    /\ ServerGoes("close_wake", "close_server_rc")
    /\ WakeFinished(rq)
    /\ req' = NULL
    /\ UNCHANGED <<port, ref_freed, ret, rq, rc, kind, finished, error, answer,
                   result, panic>>

CloseServerRc ==
    /\ ServerGoes("close_server_rc", "close_rc")
    /\ server_ref_count' = server_ref_count - 1
    /\ UNCHANGED <<ref_count, waiting_server_count, server_queue, hashed, port_freed,
                   req, ref_freed, ret, rq, rc, client, panic>>

CloseRc ==
    /\ ServerGoes("close_rc", "close_unhash")
    /\ ref_count' = ref_count - 1
    /\ rc' = ref_count - 1
    /\ UNCHANGED <<server_ref_count, waiting_server_count, server_queue, hashed, port_freed,
                   req, ref_freed, ret, rq, client, panic>>

\* port_hash_remove, under the hash lock.
CloseUnhash ==
    /\ ServerGoes("close_unhash", "close_wake_all")
    /\ hashed' = FALSE
    /\ UNCHANGED <<server_ref_count, ref_count, waiting_server_count, server_queue, port_freed,
                   req, ref_freed, ret, rq, rc, client, panic>>

CloseWakeAll ==
    /\ ServerGoes("close_wake_all", "close_free")
    /\ pc' = [c \in Client |-> IF pc[c] = "asleep_server" THEN "dequeue" ELSE pc[c]]
    /\ UNCHANGED <<port, req, ref_freed, ret, rq, rc, kind, finished, error, answer,
                   result, panic>>

CloseFree ==
    \/ /\ spc = "close_free" /\ panic = "none" /\ rc = 0 /\ ref_count # 0
       /\ Panic("_port_free_referenced")
    \/ /\ rc = 0 => ref_count = 0
       /\ ServerGoes("close_free", "closed")
       /\ port_freed' = (rc = 0)
       /\ ref_freed' = (rc # 0)
       /\ UNCHANGED <<server_ref_count, ref_count, waiting_server_count, server_queue, hashed,
                      req, ret, rq, rc, client, panic>>

-----------------------------------------------------------------------------
(* Clients *)

\* port_open: the port is found and referenced in one section of the hash lock.
Open(c) ==
    /\ ClientGoes(c, "new", "open")
    /\ hashed
    /\ ref_count' = ref_count + 1
    /\ UNCHANGED <<server_ref_count, waiting_server_count, server_queue, hashed, port_freed,
                   server, kind, finished, error, answer, result, panic>>

\* port_client_close, which leaves the port's counts alone.
ClientClose(c) ==
    /\ ClientGoes(c, "open", "closed")
    /\ UNCHANGED <<port, server, kind, finished, error, answer, result, panic>>

\* Mutant: finished keeps its value from the request before.
Request_NotCleared(c, k) ==
    /\ ClientGoes(c, "open", "check")
    /\ kind' = [kind EXCEPT ![c] = k]
    /\ error' = [error EXCEPT ![c] = "OK"]
    /\ answer' = [answer EXCEPT ![c] = NULL]
    /\ UNCHANGED <<port, server, finished, result, panic>>

\* syscall_port_request: the request is cleared and filled.
Request(c, k) ==
    /\ ClientGoes(c, "open", "check")
    /\ kind' = [kind EXCEPT ![c] = k]
    /\ finished' = [finished EXCEPT ![c] = FALSE]
    /\ error' = [error EXCEPT ![c] = "OK"]
    /\ answer' = [answer EXCEPT ![c] = NULL]
    /\ UNCHANGED <<port, server, result, panic>>

\* port_request returns e.
Returns(c, from, e) == /\ ClientGoes(c, from, "open")
                       /\ result' = [result EXCEPT ![c] = e]
                       /\ UNCHANGED <<kind, finished, error, answer>>

CheckServer(c) ==
    /\ \/ server_ref_count = 0 /\ Returns(c, "check", "PORT_CLOSED")
       \/ /\ server_ref_count # 0 /\ ClientGoes(c, "check", "load_waiting")
          /\ UNCHANGED <<kind, finished, error, answer, result>>
    /\ UNCHANGED <<port, server, panic>>

LoadWaiting(c) ==
    /\ ClientGoes(c, "load_waiting", IF waiting_server_count = 0 THEN "kwait_server" ELSE "dequeue")
    /\ UNCHANGED <<port, server, kind, finished, error, answer, result, panic>>

KWaitServer(c) ==
    /\ ClientGoes(c, "kwait_server",
                  IF waiting_server_count = 0 THEN "asleep_server" ELSE "dequeue")
    /\ UNCHANGED <<port, server, kind, finished, error, answer, result, panic>>

\* Mutant: the server stays in the queue.
Dequeue_Stays(c) ==
    /\ server_queue
    /\ ClientGoes(c, "dequeue", "load_finished")
    /\ panic' = IF req # NULL THEN "_port_send_request_request_pending" ELSE panic
    /\ req' = c
    /\ spc' = IF spc = "asleep_req" THEN "take" ELSE spc
    /\ UNCHANGED <<port, ref_freed, ret, rq, rc, kind, finished, error, answer, result>>

\* The section of the port's mutex: the server is dequeued, gets the request and
\* is woken; or there is none, and the client starts again.
Dequeue(c) ==
    \/ /\ ~server_queue
       /\ ClientGoes(c, "dequeue", "check")
       /\ UNCHANGED <<port, server, kind, finished, error, answer, result, panic>>
    \/ /\ server_queue
       /\ ClientGoes(c, "dequeue", "load_finished")
       /\ server_queue' = FALSE
       /\ panic' = IF req # NULL THEN "_port_send_request_request_pending" ELSE panic
       /\ req' = c
       /\ spc' = IF spc = "asleep_req" THEN "take" ELSE spc
       /\ UNCHANGED <<server_ref_count, ref_count, waiting_server_count, hashed, port_freed,
                      ref_freed, ret, rq, rc, kind, finished, error, answer, result>>

LoadFinished(c) ==
    /\ ClientGoes(c, "load_finished", IF finished[c] THEN "xchg" ELSE "kwait_finished")
    /\ UNCHANGED <<port, server, kind, finished, error, answer, result, panic>>

KWaitFinished(c) ==
    /\ ClientGoes(c, "kwait_finished", IF finished[c] THEN "xchg" ELSE "asleep_finished")
    /\ UNCHANGED <<port, server, kind, finished, error, answer, result, panic>>

\* The exchange of the server's req, through a pointer to the server's reference
\* that the client got when it dequeued it.
XchgReq(c) ==
    \/ /\ ref_freed /\ pc[c] = "xchg" /\ panic = "none"
       /\ Panic("port_request_server_reference_freed")
    \/ /\ ~ref_freed
       /\ req' = NULL
       /\ \/ /\ req # NULL
             /\ Returns(c, "xchg", "TIMEDOUT")
          \/ /\ req = NULL
             /\ ClientGoes(c, "xchg", IF finished[c] THEN "return" ELSE "asleep_again")
             /\ UNCHANGED <<kind, finished, error, answer, result>>
       /\ UNCHANGED <<port, ref_freed, spc, ret, rq, rc, panic>>

Return(c) ==
    /\ Returns(c, "return", error[c])
    /\ UNCHANGED <<port, server, panic>>

ServerStep == \/ Receive \/ Enqueue \/ WakeClient \/ LoadReq \/ KWaitReq \/ Take
              \/ Refuse \/ RefuseFinish \/ RefuseWake \/ Copy
              \/ \E r \in Replies : Respond(r)
              \/ RespondFinish \/ RespondWake
              \/ Close \/ CloseCancel \/ CloseFinish \/ CloseWake \/ CloseServerRc
              \/ CloseRc \/ CloseUnhash \/ CloseWakeAll \/ CloseFree

\* What a client does in port_request, and what it may start.
ClientStep(c) == \/ CheckServer(c) \/ LoadWaiting(c) \/ KWaitServer(c) \/ Dequeue(c)
                 \/ LoadFinished(c) \/ KWaitFinished(c) \/ XchgReq(c) \/ Return(c)

ClientStart(c) == Open(c) \/ ClientClose(c) \/ \E k \in Kinds : Request(c, k)

Next == ServerStep \/ \E c \in Client : ClientStep(c) \/ ClientStart(c)

Spec == Init /\ [][Next]_vars

-----------------------------------------------------------------------------
(* Properties *)

ServerPlace == {"user", "exiting", "enqueue", "wake_clients", "load_req", "kwait_req",
                "asleep_req", "take", "refuse", "refuse_finish", "refuse_wake", "copy",
                "respond_finish", "respond_wake", "close_cancel", "close_finish",
                "close_wake", "close_server_rc", "close_rc", "close_unhash",
                "close_wake_all", "close_free", "closed"}

ClientPlace == {"new", "open", "closed", "check", "load_waiting", "kwait_server",
                "asleep_server", "dequeue", "load_finished", "kwait_finished",
                "asleep_finished", "xchg", "asleep_again", "return"}

\* The types of the variables.  In particular the counts stay within the number
\* of references: port_server_close never takes them below zero.
TypeOK ==
    /\ server_ref_count \in 0 .. 1 /\ ref_count \in 0 .. Cardinality(Client) + 1
    /\ waiting_server_count \in 0 .. 1 /\ rc \in 0 .. Cardinality(Client)
    /\ {server_queue, hashed, port_freed, ref_freed} \subseteq BOOLEAN
    /\ {req, ret, rq} \subseteq Client \cup {NULL}
    /\ spc \in ServerPlace
    /\ pc \in [Client -> ClientPlace]
    /\ kind \in [Client -> RequestKind]
    /\ finished \in [Client -> BOOLEAN]
    /\ error \in [Client -> {"OK", "PORT_REQ_TOO_LONG", "PORT_REQ_CANCELED"}]
    /\ answer \in [Client -> Client \cup {NULL}]
    /\ result \in [Client -> {"OK", "PORT_REQ_TOO_LONG", "PORT_REQ_CANCELED",
                              "PORT_CLOSED", "TIMEDOUT"}]

\* c's request was given to the server and c has not returned from port_request.
Sent(c) == pc[c] \in {"load_finished", "kwait_finished", "asleep_finished", "xchg",
                      "asleep_again", "return"}

\* A request that was sent and is not finished is the one in the server's req,
\* or the server is at the step of port_receive, port_response or
\* port_server_close that finishes it; and a client that sleeps although its
\* request is finished is about to be woken.  No answer is lost between the
\* client's tests of finished and the server's store and wake.
RequestInHand == \A c \in Client :
    /\ Sent(c) /\ ~finished[c] =>
          \/ req = c
          \/ spc = "refuse_finish" /\ ret = c
          \/ spc \in {"respond_finish", "close_finish"} /\ rq = c
    /\ pc[c] \in {"asleep_finished", "asleep_again"} /\ finished[c] =>
          \/ spc = "refuse_wake" /\ ret = c
          \/ spc \in {"respond_wake", "close_wake"} /\ rq = c

\* A server that sleeps in port_receive can be found by the next client: it is
\* still in the queue, and has no request.
SleepingServerIsQueued == spc = "asleep_req" => server_queue /\ req = NULL

\* The assertions of _port_send_request, that a server that is dequeued has no
\* request, and of port_response, that the request is not finished, never fail.
AssertionsHold == panic \notin {"_port_send_request_request_pending",
                                "port_response_finished"}

\* A client whose port_request returns OK has the answer the server made for its
\* request, whatever other clients do meanwhile.
AnswerIsMine == \A c \in Client :
    pc[c] = "return" /\ error[c] = "OK" => answer[c] = c

\* A server that is not in port_receive is not in the queue; so the reference
\* that port_server_close frees is not found by a later client.
QueuedOnlyInReceive ==
    server_queue => spc \in {"wake_clients", "load_req", "kwait_req", "asleep_req"}

\* Both of these, and the types: between its calls a server is out of the queue and
\* without a request, so its reference can be freed and its request replaced.
ServerIsInOrder == TypeOK /\ AssertionsHold /\ QueuedOnlyInReceive

\* A client is told TIMEDOUT only if its request was not answered: "serv->req was
\* not NULL, indicate a timeout".
\* Not so in the code: see README, "Disagreements".
TimedOutIsNotAnswered == \A c \in Client :
    pc[c] = "open" /\ result[c] = "TIMEDOUT" => ~finished[c]

\* _port_free's assertion, that the port is not referenced.
\* Not so in the code: see README, "Disagreements".
FreedIsUnreferenced == panic # "_port_free_referenced"

\* port_receive's assertion, that the server has no request.
\* Not so in the code: see README, "Disagreements".
ReceiveHasNoRequest == panic # "port_receive_request_pending"

\* After the server has closed the port no client sleeps for a server: requests
\* return PORT_CLOSED once "all server have closed port".
\* Not so in the code: see README, "Disagreements".
ClosedPortHasNoSleeper ==
    spc = "closed" => \A c \in Client : pc[c] # "asleep_server"

\* A client whose request was finished returns from port_request (unless the
\* system stops).
FinishedReturns == \A c \in Client :
    (Sent(c) /\ finished[c]) ~> (pc[c] = "open" \/ panic # "none")
=============================================================================
