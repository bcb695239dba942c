----------------------------- MODULE PortProofs -----------------------------
(***************************************************************************)
(* Theorems about Port, for any finite set of clients and any kinds of     *)
(* requests and responses; and about InitStub, where the one client is the *)
(* stub and init the server: every step of the two programs is a step of   *)
(* Port or leaves it alone, so that the invariant of Port carries over and *)
(* what the two programs add to it completes it.                           *)
(***************************************************************************)
EXTENDS InitStub, FiniteSetTheorems, TLAPS

\* A client that has opened the port; it is counted by ref_count for ever, since
\* port_client_close does not count down.
Opened == {c \in Client : pc[c] # "new"}

\* c has been given to the server and waits for its request to be finished.
Waits(c) == pc[c] \in {"load_finished", "kwait_finished", "asleep_finished"}

\* c is in port_request and has no server yet.
Asks(c) == pc[c] \in {"check", "load_waiting", "kwait_server", "asleep_server", "dequeue"}

\* The counts are the references there are.
CountsInv ==
    /\ server_ref_count = IF spc \in {"close_rc", "close_unhash", "close_wake_all",
                                      "close_free", "closed"} THEN 0 ELSE 1
    /\ ref_count = Cardinality(Opened)
                   + IF spc \in {"close_unhash", "close_wake_all", "close_free", "closed"}
                     THEN 0 ELSE 1

\* A server in the queue is in port_receive and has no request; and it has none
\* from the moment a request is taken from it until it is in the queue again.
QueueInv ==
    /\ QueuedOnlyInReceive
    /\ server_queue => req = NULL
    /\ spc \in {"enqueue", "refuse_finish", "refuse_wake", "respond_finish",
                "respond_wake", "close_finish", "close_wake"} => req = NULL

\* The server's request is that of a client that waits and is not finished, and
\* outside port_receive it is the one port_receive returned.
RequestInv ==
    /\ req # NULL => Waits(req) /\ ~finished[req]
    /\ req # NULL /\ spc \in {"copy", "refuse", "user", "exiting", "close_cancel"} => ret = req

\* The request that the server is about to finish is of a client that waits, and
\* its outcome is there: an error or the answer to this very request.
FinishInv ==
    /\ spc \in {"refuse", "refuse_finish"} =>
          /\ ret # NULL /\ Waits(ret) /\ ~finished[ret]
          /\ error[ret] = "PORT_REQ_TOO_LONG"
    /\ spc = "respond_finish" =>
          /\ rq # NULL /\ Waits(rq) /\ ~finished[rq]
          /\ answer[rq] = rq
    /\ spc = "close_finish" =>
          /\ rq # NULL /\ Waits(rq) /\ ~finished[rq]
          /\ error[rq] = "PORT_REQ_CANCELED"

\* The request that the server is about to wake is finished, or its client has
\* gone on and has no server yet.
WakeInv ==
    /\ spc = "refuse_wake" => ret # NULL /\ (Waits(ret) => finished[ret])
    /\ spc \in {"respond_wake", "close_wake"} => rq # NULL /\ (Waits(rq) => finished[rq])

\* A client that asks is not finished, one that goes on after its wait is, and
\* one that is finished has its outcome.  Nobody sleeps for the second time.
ClientInv == \A c \in Client :
    /\ Asks(c) => ~finished[c]
    /\ pc[c] \in {"xchg", "return"} => finished[c]
    /\ pc[c] # "asleep_again"
    /\ Sent(c) /\ finished[c] => error[c] # "OK" \/ answer[c] = c

\* What the server and its clients keep to, step by step.
Protocol == AssertionsHold /\ QueueInv /\ RequestInv /\ FinishInv /\ WakeInv /\ ClientInv

IInv == TypeOK /\ CountsInv /\ Protocol

-----------------------------------------------------------------------------
\* The clients that opened the port are at most all of them.
LEMMA OpenedBound ==
  IsFiniteSet(Opened) /\ Cardinality(Opened) \in 0 .. Cardinality(Client)
<1>1. Opened \in SUBSET Client
  BY Zenon DEF Opened
<1>2. /\ IsFiniteSet(Opened)
      /\ Cardinality(Opened) <= Cardinality(Client)
  BY Zenon, <1>1, FS_Subset, PortAssumption
<1>3. Cardinality(Opened) \in Nat /\ Cardinality(Client) \in Nat
  BY Zenon, <1>2, FS_CardinalityType, PortAssumption
<1> QED BY <1>2, <1>3

\* port_create establishes the invariant: one reference, no request.
LEMMA InitInv == Init => IInv
<1> SUFFICES ASSUME Init PROVE IInv
  BY Zenon
<1> USE DEF Init
<1>1. Opened = {}
  BY Zenon DEF Opened
<1>2. Cardinality(Opened) = 0
  BY Zenon, <1>1, FS_EmptySet
<1>3. Cardinality(Client) \in Nat
  BY Zenon, FS_CardinalityType, PortAssumption
<1>4. TypeOK
  <2>1. {server_queue, hashed, port_freed, ref_freed} \subseteq BOOLEAN
    BY Zenon
  <2>2. {req, ret, rq} \subseteq Client \cup {NULL}
    BY Zenon
  <2> QED BY <1>3, <2>1, <2>2 DEF TypeOK, ServerPlace, ClientPlace, RequestKind
<1>5. CountsInv
  BY <1>2 DEF CountsInv
<1>6. Protocol
  BY Zenon DEF Protocol, AssertionsHold, QueueInv, QueuedOnlyInReceive, RequestInv, FinishInv,
         WakeInv, ClientInv, Asks, Sent
<1> QED BY Zenon, <1>4, <1>5, <1>6 DEF IInv

-----------------------------------------------------------------------------
(* The protocol of requests and responses *)

\* Where the system stops for a reason other than the two assertions, nothing
\* else changes.
LEMMA StopStep ==
  ASSUME IInv, UNCHANGED <<port, server, client>>,
         panic' \notin {"_port_send_request_request_pending", "port_response_finished"}
  PROVE  Protocol'
BY SMTT(30) DEF IInv, Protocol, AssertionsHold, QueueInv, QueuedOnlyInReceive, RequestInv,
       FinishInv, WakeInv, ClientInv, Waits, Asks, Sent, port, server, client

\* Every step of the server keeps to the protocol.
LEMMA ServerProtocol ==
  ASSUME IInv, ServerStep
  PROVE  Protocol'
<1> USE PortAssumption DEF IInv, TypeOK, Protocol, AssertionsHold, QueueInv, QueuedOnlyInReceive,
        RequestInv, FinishInv, WakeInv, ClientInv, Waits, Asks, Sent, ServerGoes, port, client,
        ClientPlace, ServerPlace
<1>1. CASE Enqueue
  BY Zenon, <1>1 DEF Enqueue
<1>2. CASE LoadReq
  BY Zenon, <1>2 DEF LoadReq
<1>3. CASE KWaitReq
  BY Zenon, <1>3 DEF KWaitReq
<1>4. CASE Refuse
  BY Zenon, <1>4 DEF Refuse
<1>5. CASE RefuseFinish
  BY <1>5 DEF RefuseFinish
<1>6. CASE Copy
  BY Zenon, <1>6 DEF Copy
<1>7. CASE RespondFinish
  BY <1>7 DEF RespondFinish
<1>8. CASE RespondWake
  BY <1>8 DEF RespondWake, WakeFinished
<1>9. CASE Close
  BY Zenon, <1>9 DEF Close
<1>10. CASE CloseFinish
  BY <1>10 DEF CloseFinish
<1>11. CASE CloseWake
  BY <1>11 DEF CloseWake, WakeFinished
<1>12. CASE CloseServerRc
  BY Zenon, <1>12 DEF CloseServerRc
<1>13. CASE CloseRc
  BY Zenon, <1>13 DEF CloseRc
<1>14. CASE CloseUnhash
  BY Zenon, <1>14 DEF CloseUnhash
<1>15. CASE CloseWakeAll
  BY <1>15 DEF CloseWakeAll
<1>16. CASE Receive
  <2>1. CASE spc = "user" /\ req # NULL
    BY Zenon, <1>16, <2>1, StopStep DEF Receive, Panic
  <2>2. CASE ~(spc = "user" /\ req # NULL)
    <3>1. /\ ServerGoes("user", "enqueue")
          /\ req = NULL
          /\ UNCHANGED <<port, req, ref_freed, ret, rq, rc, client, panic>>
      BY Zenon, <1>16, <2>2 DEF Receive
    <3> QED BY Zenon, <2>2, <3>1
  <2> QED BY Zenon, <2>1, <2>2
<1>17. CASE Take
  <2>1. CASE req = NULL
    BY Zenon, <1>17, <2>1, StopStep DEF Take, Panic
  <2>2. CASE req # NULL /\ kind[req] = "long"
    <3>1. /\ ServerGoes("take", "refuse")
          /\ ret' = req
          /\ error' = [error EXCEPT ![req] = "PORT_REQ_TOO_LONG"]
          /\ UNCHANGED <<port, req, rq, pc, finished, answer, panic>>
      BY Zenon, <1>17, <2>2 DEF Take
    <3> QED BY <2>2, <3>1
  <2>3. CASE req # NULL /\ kind[req] # "long"
    <3>1. /\ ServerGoes("take", "copy")
          /\ ret' = req
          /\ UNCHANGED <<port, req, rq, pc, finished, error, answer, panic>>
      BY Zenon, <1>17, <2>3 DEF Take
    <3> QED BY Zenon, <2>3, <3>1
  <2> QED BY Zenon, <2>1, <2>2, <2>3
<1>18. CASE CloseCancel
  <2>1. CASE req = NULL
    BY Zenon, <1>18, <2>1, StopStep DEF CloseCancel, Panic
  <2>2. CASE req # NULL
    <3>1. /\ ServerGoes("close_cancel", "close_finish")
          /\ req' = NULL /\ rq' = req
          /\ error' = [error EXCEPT ![req] = "PORT_REQ_CANCELED"]
          /\ UNCHANGED <<port, ref_freed, ret, rc, pc, kind, finished, answer, result, panic>>
      BY Zenon, <1>18, <2>2 DEF CloseCancel
    <3> QED BY <2>2, <3>1
  <2> QED BY Zenon, <2>1, <2>2
<1>19. CASE CloseFree
  <2>1. CASE rc = 0 /\ ref_count # 0
    BY Zenon, <1>19, <2>1, StopStep DEF CloseFree, Panic
  <2>2. CASE ~(rc = 0 /\ ref_count # 0)
    <3>1. /\ ServerGoes("close_free", "closed")
          /\ UNCHANGED <<server_queue, req, ret, rq, client, panic>>
      BY Zenon, <1>19, <2>2 DEF CloseFree
    <3> QED BY Zenon, <2>2, <3>1
  <2> QED BY Zenon, <2>1, <2>2
<1>20. CASE WakeClient
  <2>1. CASE UNCHANGED pc
    BY Zenon, <1>20, <2>1 DEF WakeClient
  <2>2. ASSUME NEW c \in Client, pc[c] = "asleep_server", pc' = [pc EXCEPT ![c] = "dequeue"]
        PROVE  Protocol'
    BY SMTT(30), <1>20, <2>2 DEF WakeClient
  <2> QED BY Zenon, <1>20, <2>1, <2>2 DEF WakeClient
<1>21. CASE RefuseWake
  <2>1. CASE pc[ret] = "asleep_finished"
    BY <1>21, <2>1 DEF RefuseWake, WakeFinished
  <2>2. CASE pc[ret] # "asleep_finished"
    <3>1. UNCHANGED pc
      BY Zenon, <1>21, <2>2 DEF RefuseWake, WakeFinished
    <3> QED BY Zenon, <1>21, <3>1 DEF RefuseWake
  <2> QED BY Zenon, <2>1, <2>2
<1>22. ASSUME NEW r \in Replies, Respond(r) PROVE Protocol'
  BY SMTT(30), <1>22 DEF Respond, AfterReply, ReplyKind
<1> QED BY Zenon, <1>1, <1>2, <1>3, <1>4, <1>5, <1>6, <1>7, <1>8, <1>9, <1>10, <1>11, <1>12,
    <1>13, <1>14, <1>15, <1>16, <1>17, <1>18, <1>19, <1>20, <1>21, <1>22 DEF ServerStep

\* Every step of a client keeps to the protocol.
LEMMA ClientProtocol ==
  ASSUME IInv, NEW c \in Client, ClientStep(c) \/ ClientStart(c)
  PROVE  Protocol'
<1> USE PortAssumption DEF IInv, TypeOK, Protocol, AssertionsHold, QueueInv, QueuedOnlyInReceive,
        RequestInv, FinishInv, WakeInv, ClientInv, Waits, Asks, Sent, ClientGoes, port, server,
        ClientPlace, ServerPlace
<1>1. CASE LoadWaiting(c)
  BY <1>1 DEF LoadWaiting
<1>2. CASE KWaitServer(c)
  BY <1>2 DEF KWaitServer
<1>3. CASE Open(c)
  BY <1>3 DEF Open
<1>4. CASE ClientClose(c)
  BY SMTT(30), <1>4 DEF ClientClose
<1>5. CASE CheckServer(c)
  <2>1. CASE server_ref_count = 0
    <3>1. /\ ClientGoes(c, "check", "open")
          /\ UNCHANGED <<port, server, finished, error, answer, panic>>
      BY Zenon, <1>5, <2>1 DEF CheckServer, Returns
    <3> QED BY <2>1, <3>1
  <2>2. CASE server_ref_count # 0
    <3>1. /\ ClientGoes(c, "check", "load_waiting")
          /\ UNCHANGED <<port, server, finished, error, answer, panic>>
      BY Zenon, <1>5, <2>2 DEF CheckServer, Returns
    <3> QED BY <2>2, <3>1
  <2> QED BY Zenon, <2>1, <2>2
<1>6. CASE Dequeue(c)
  <2>1. CASE ~server_queue
    <3>1. /\ ClientGoes(c, "dequeue", "check")
          /\ UNCHANGED <<port, server, finished, error, answer, panic>>
      BY Zenon, <1>6, <2>1 DEF Dequeue
    <3> QED BY <2>1, <3>1
  <2>2. CASE server_queue
    <3>1. /\ ClientGoes(c, "dequeue", "load_finished")
          /\ server_queue' = FALSE /\ req' = c
          /\ spc' = IF spc = "asleep_req" THEN "take" ELSE spc
          /\ panic' = IF req # NULL THEN "_port_send_request_request_pending" ELSE panic
          /\ UNCHANGED <<ret, rq, finished, error, answer>>
      BY Zenon, <1>6, <2>2 DEF Dequeue
    <3> QED BY <2>2, <3>1
  <2> QED BY Zenon, <2>1, <2>2
<1>7. CASE LoadFinished(c)
  <2>1. CASE finished[c]
    BY <1>7, <2>1 DEF LoadFinished
  <2>2. CASE ~finished[c]
    BY SMTT(30), <1>7, <2>2 DEF LoadFinished
  <2> QED BY Zenon, <2>1, <2>2
<1>8. CASE KWaitFinished(c)
  <2>1. CASE finished[c]
    BY SMTT(30), <1>8, <2>1 DEF KWaitFinished
  <2>2. CASE ~finished[c]
    BY SMTT(30), <1>8, <2>2 DEF KWaitFinished
  <2> QED BY Zenon, <2>1, <2>2
<1>9. CASE XchgReq(c)
  <2>1. CASE ref_freed
    <3>1. Panic("port_request_server_reference_freed")
      BY Zenon, <1>9, <2>1 DEF XchgReq
    <3>2. /\ UNCHANGED <<port, server, client>>
          /\ panic' \notin {"_port_send_request_request_pending", "port_response_finished"}
      BY ONLY Zenon, <3>1 DEF Panic
    <3> QED BY Zenon, <3>2, StopStep
  <2>2. CASE ~ref_freed /\ req # NULL
    <3>1. /\ ClientGoes(c, "xchg", "open") /\ req' = NULL
          /\ UNCHANGED <<port, spc, ret, rq, finished, error, answer, panic>>
      BY Zenon, <1>9, <2>2 DEF XchgReq, Returns
    <3> QED BY SMTT(30), <2>2, <3>1
  <2>3. CASE ~ref_freed /\ req = NULL
    <3>1. /\ ClientGoes(c, "xchg", IF finished[c] THEN "return" ELSE "asleep_again")
          /\ req' = NULL
          /\ UNCHANGED <<port, spc, ret, rq, finished, error, answer, panic>>
      BY Zenon, <1>9, <2>3 DEF XchgReq
    <3> QED BY SMTT(30), <2>3, <3>1
  <2> QED BY Zenon, <2>1, <2>2, <2>3
<1>10. CASE Return(c)
  BY <1>10 DEF Return, Returns
<1>11. ASSUME NEW k \in Kinds, Request(c, k) PROVE Protocol'
  BY SMTT(30), <1>11 DEF Request
<1> QED BY Zenon, <1>1, <1>2, <1>3, <1>4, <1>5, <1>6, <1>7, <1>8, <1>9, <1>10, <1>11
    DEF ClientStep, ClientStart

-----------------------------------------------------------------------------
(* Types and counts *)

\* The types of all variables but the three counts; the types of those follow
\* from what they count.
Types ==
    /\ waiting_server_count \in 0 .. 1
    /\ {server_queue, hashed, port_freed, ref_freed} \subseteq BOOLEAN
    /\ {req, ret, rq} \subseteq Client \cup {NULL}
    /\ spc \in ServerPlace
    /\ pc \in [Client -> ClientPlace]
    /\ kind \in [Client -> RequestKind]
    /\ finished \in [Client -> BOOLEAN]
    /\ error \in [Client -> {"OK", "PORT_REQ_TOO_LONG", "PORT_REQ_CANCELED"}]
    /\ answer \in [Client -> Client \cup {NULL}]
    /\ result \in [Client -> {"OK", "PORT_REQ_TOO_LONG", "PORT_REQ_CANCELED",
                              "PORT_CLOSED", "TIMEDOUT"}]

\* Every step of the server keeps the types.
LEMMA ServerTypes ==
  ASSUME IInv, ServerStep
  PROVE  Types'
<1> USE PortAssumption DEF IInv, TypeOK, Types, ServerGoes, port, client, ServerPlace
<1>1. CASE LoadReq
  BY Zenon, <1>1 DEF LoadReq
<1>2. CASE KWaitReq
  BY Zenon, <1>2 DEF KWaitReq
<1>3. CASE Refuse
  BY Zenon, <1>3 DEF Refuse
<1>4. CASE RefuseFinish
  BY Zenon, <1>4 DEF RefuseFinish
<1>5. CASE Copy
  BY Zenon, <1>5 DEF Copy
<1>6. CASE RespondFinish
  BY Zenon, <1>6 DEF RespondFinish
<1>7. CASE Close
  BY Zenon, <1>7 DEF Close
<1>8. CASE CloseFinish
  BY Zenon, <1>8 DEF CloseFinish
<1>9. CASE CloseServerRc
  BY Zenon, <1>9 DEF CloseServerRc
<1>10. CASE CloseRc
  BY Zenon, <1>10 DEF CloseRc
<1>11. CASE CloseUnhash
  BY Zenon, <1>11 DEF CloseUnhash
<1>12. CASE Enqueue
  <2>1. {server_queue, hashed, port_freed, ref_freed}' \subseteq BOOLEAN
    BY Zenon, <1>12 DEF Enqueue
  <2>2. waiting_server_count' = 1 /\ spc' = "wake_clients"
    BY Zenon, <1>12 DEF Enqueue
  <2>3. UNCHANGED <<req, ret, rq, client>>
    BY Zenon, <1>12 DEF Enqueue
  <2> QED BY <2>1, <2>2, <2>3
<1>13. CASE Receive
  BY <1>13 DEF Receive, Panic, server
<1>14. CASE CloseFree
  BY Zenon, <1>14 DEF CloseFree, Panic, server
<1>15. CASE Take
  BY <1>15 DEF Take, Panic, server
<1>16. CASE CloseCancel
  BY <1>16 DEF CloseCancel, Panic, server
<1>17. CASE WakeClient
  BY Zenon, <1>17 DEF WakeClient, ClientPlace
<1>18. CASE CloseWakeAll
  BY Zenon, <1>18 DEF CloseWakeAll, ClientPlace
<1>19. CASE RefuseWake
  BY Zenon, <1>19 DEF RefuseWake, WakeFinished, ClientPlace
<1>20. CASE RespondWake
  BY Zenon, <1>20 DEF RespondWake, WakeFinished, ClientPlace
<1>21. CASE CloseWake
  BY ZenonT(40), <1>21 DEF CloseWake, WakeFinished, ClientPlace
<1>22. ASSUME NEW r \in Replies, Respond(r) PROVE Types'
  <2>1. spc' \in ServerPlace
    BY Zenon, <1>22 DEF Respond, AfterReply, ReplyKind
  <2>2. answer' \in [Client -> Client \cup {NULL}]
    BY Zenon, <1>22 DEF Respond
  <2>3. {req, ret, rq}' \subseteq Client \cup {NULL}
    BY Zenon, <1>22 DEF Respond
  <2> QED BY Zenon, <1>22, <2>1, <2>2, <2>3 DEF Respond
<1> QED BY Zenon, <1>1, <1>2, <1>3, <1>4, <1>5, <1>6, <1>7, <1>8, <1>9, <1>10, <1>11, <1>12,
    <1>13, <1>14, <1>15, <1>16, <1>17, <1>18, <1>19, <1>20, <1>21, <1>22 DEF ServerStep

\* Every step of a client keeps the types.
LEMMA ClientTypes ==
  ASSUME IInv, NEW c \in Client, ClientStep(c) \/ ClientStart(c)
  PROVE  Types'
<1> USE PortAssumption DEF IInv, TypeOK, Types, ClientGoes, port, server, ClientPlace
<1>1. CASE CheckServer(c)
  BY Zenon, <1>1 DEF CheckServer, Returns
<1>2. CASE LoadWaiting(c)
  BY Zenon, <1>2 DEF LoadWaiting
<1>3. CASE KWaitServer(c)
  BY Zenon, <1>3 DEF KWaitServer
<1>4. CASE Dequeue(c)
  BY ZenonT(40), <1>4 DEF Dequeue, ServerPlace
<1>5. CASE LoadFinished(c)
  BY Zenon, <1>5 DEF LoadFinished
<1>6. CASE KWaitFinished(c)
  BY Zenon, <1>6 DEF KWaitFinished
<1>7. CASE XchgReq(c)
  BY <1>7 DEF XchgReq, Returns, Panic, client
<1>8. CASE Return(c)
  BY Zenon, <1>8 DEF Return, Returns
<1>9. CASE Open(c)
  BY Zenon, <1>9 DEF Open
<1>10. CASE ClientClose(c)
  BY Zenon, <1>10 DEF ClientClose
<1>11. ASSUME NEW k \in Kinds, Request(c, k) PROVE Types'
  BY Zenon, <1>11 DEF Request
<1> QED BY Zenon, <1>1, <1>2, <1>3, <1>4, <1>5, <1>6, <1>7, <1>8, <1>9, <1>10, <1>11
    DEF ClientStep, ClientStart

\* The counts are kept by every step, and stay within the number of references.
LEMMA CountsStep ==
  ASSUME IInv, Next
  PROVE  CountsInv' /\ rc' \in 0 .. Cardinality(Client)
<1>0. /\ CountsInv
      /\ rc \in 0 .. Cardinality(Client)
      /\ ref_count \in Nat /\ server_ref_count \in Nat
      /\ Cardinality(Opened) \in 0 .. Cardinality(Client)
      /\ Cardinality(Client) \in Nat
  BY OpenedBound, FS_CardinalityType, PortAssumption DEF IInv, TypeOK
<1>1. ASSUME NEW c \in Client, Open(c) PROVE CountsInv' /\ rc' \in 0 .. Cardinality(Client)
  <2>1. Opened' = Opened \cup {c} /\ c \notin Opened
    BY Zenon, <1>1 DEF Open, ClientGoes, Opened, IInv, TypeOK
  <2>2. Cardinality(Opened') = Cardinality(Opened) + 1
    BY Zenon, <2>1, FS_AddElement, OpenedBound
  <2>3. ref_count' = ref_count + 1 /\ UNCHANGED <<spc, rc, server_ref_count>>
    BY Zenon, <1>1 DEF Open, server
  <2> QED BY <1>0, <2>2, <2>3 DEF CountsInv
<1>2. CASE CloseServerRc \/ CloseRc
  <2>1. Opened' = Opened
    BY Zenon, <1>2 DEF Opened, CloseServerRc, CloseRc, client
  <2>2. CASE CloseServerRc
    BY <1>0, <2>1, <2>2 DEF CloseServerRc, ServerGoes, CountsInv
  <2>3. CASE CloseRc
    BY <1>0, <2>1, <2>3 DEF CloseRc, ServerGoes, CountsInv
  <2> QED BY Zenon, <1>2, <2>2, <2>3
<1>3. CASE ServerStep /\ ~CloseServerRc /\ ~CloseRc
  <2>1. UNCHANGED <<ref_count, server_ref_count, rc>>
    BY ZenonT(40), <1>3 DEF ServerStep, Receive, Enqueue, WakeClient, LoadReq, KWaitReq, Take,
       Refuse, RefuseFinish, RefuseWake, Copy, Respond, RespondFinish, RespondWake, Close,
       CloseCancel, CloseFinish, CloseWake, CloseUnhash, CloseWakeAll, CloseFree, Panic, port, server
  <2>2. \A c \in Client : pc'[c] = "new" <=> pc[c] = "new"
    BY <1>3 DEF ServerStep, Receive, Enqueue, WakeClient, LoadReq, KWaitReq, Take, Refuse,
       RefuseFinish, RefuseWake, Copy, Respond, RespondFinish, RespondWake, Close, CloseCancel,
       CloseFinish, CloseWake, CloseUnhash, CloseWakeAll, CloseFree, Panic, WakeFinished, client,
       IInv, TypeOK
  <2>3. Opened' = Opened
    BY Zenon, <2>2 DEF Opened
  <2>4. /\ spc' = "close_rc" <=> spc = "close_rc"
        /\ spc' \in {"close_unhash", "close_wake_all", "close_free", "closed"}
             <=> spc \in {"close_unhash", "close_wake_all", "close_free", "closed"}
    BY Zenon, <1>3, PortAssumption DEF ServerStep, Receive, Enqueue, WakeClient, LoadReq, KWaitReq,
       Take, Refuse, RefuseFinish, RefuseWake, Copy, Respond, AfterReply, ReplyKind,
       RespondFinish, RespondWake, Close, CloseCancel, CloseFinish, CloseWake,
       CloseUnhash, CloseWakeAll, CloseFree, Panic, ServerGoes, server
  <2> QED BY Zenon, <1>0, <2>1, <2>3, <2>4 DEF CountsInv
<1>4. ASSUME NEW c \in Client, ClientStep(c) \/ ClientClose(c) \/ \E k \in Kinds : Request(c, k)
      PROVE  CountsInv' /\ rc' \in 0 .. Cardinality(Client)
  <2>1. UNCHANGED <<ref_count, server_ref_count, rc>>
    BY ZenonT(60), <1>4 DEF ClientStep, CheckServer, LoadWaiting, KWaitServer, Dequeue,
       LoadFinished, KWaitFinished, XchgReq, Return, ClientClose, Request, Panic, port, server
  <2>2. \A d \in Client : pc'[d] = "new" <=> pc[d] = "new"
    BY <1>4 DEF ClientStep, CheckServer, LoadWaiting, KWaitServer, Dequeue, LoadFinished,
       KWaitFinished, XchgReq, Return, Returns, ClientClose, Request, Panic, ClientGoes,
       client, IInv, TypeOK
  <2>3. Opened' = Opened
    BY Zenon, <2>2 DEF Opened
  <2>4. spc' = spc \/ (spc = "asleep_req" /\ spc' = "take")
    BY Zenon, <1>4 DEF ClientStep, CheckServer, LoadWaiting, KWaitServer, Dequeue, LoadFinished,
       KWaitFinished, XchgReq, Return, ClientClose, Request, Panic, server
  <2> QED BY Zenon, <1>0, <2>1, <2>3, <2>4 DEF CountsInv
<1> QED BY Zenon, <1>1, <1>2, <1>3, <1>4 DEF Next, ClientStart, ServerStep

-----------------------------------------------------------------------------
\* Every step of the server and of the clients preserves the invariant.
LEMMA NextInv == IInv /\ [Next]_vars => IInv'
<1> SUFFICES ASSUME IInv, [Next]_vars PROVE IInv'
  BY Zenon
<1>1. CASE UNCHANGED vars
  <2>1. TypeOK'
    BY Zenon, <1>1 DEF vars, port, server, client, IInv, TypeOK
  <2>2. CountsInv'
    BY Zenon, <1>1 DEF vars, port, server, client, IInv, CountsInv, Opened
  <2>3. Protocol'
    BY Zenon, <1>1, StopStep DEF vars, IInv, Protocol, AssertionsHold
  <2> QED BY Zenon, <2>1, <2>2, <2>3 DEF IInv
<1>2. CASE Next
  <2>1. Protocol'
    BY Zenon, <1>2, ServerProtocol, ClientProtocol DEF Next
  <2>2. Types'
    BY Zenon, <1>2, ServerTypes, ClientTypes DEF Next
  <2>3. CountsInv' /\ rc' \in 0 .. Cardinality(Client)
    BY Zenon, <1>2, CountsStep
  <2>4. (Cardinality(Opened) \in 0 .. Cardinality(Client))'
    BY OpenedBound, PTL
  <2>5. Cardinality(Client) \in Nat
    BY Zenon, FS_CardinalityType, PortAssumption
  <2>6. server_ref_count' \in 0 .. 1 /\ ref_count' \in 0 .. Cardinality(Client) + 1
    BY <2>3, <2>4, <2>5 DEF CountsInv
  <2> QED BY Zenon, <2>1, <2>2, <2>3, <2>6 DEF IInv, TypeOK, Types
<1> QED BY Zenon, <1>1, <1>2

\* The inductive invariant holds in every reachable state.
THEOREM Invariance == Spec => []IInv
<1>1. Init => IInv
  BY Zenon, InitInv
<1>2. IInv /\ [Next]_vars => IInv'
  BY Zenon, NextInv
<1> QED BY <1>1, <1>2, PTL DEF Spec

\* The assertions of _port_send_request and port_response hold, the server is in
\* the queue only inside port_receive and the reference counts stay in range, for
\* any number of clients.
THEOREM ServerInOrder == Spec => []ServerIsInOrder
<1>1. IInv => ServerIsInOrder
  BY Zenon DEF IInv, Protocol, QueueInv, ServerIsInOrder
<1> QED BY <1>1, Invariance, PTL

\* port_request never returns OK with the answer to another client's request,
\* for any number of clients.
THEOREM AnswersAreMine == Spec => []AnswerIsMine
<1>1. IInv => AnswerIsMine
  BY Zenon DEF IInv, Protocol, ClientInv, AnswerIsMine, Sent
<1> QED BY <1>1, Invariance, PTL

-----------------------------------------------------------------------------
(* init and the stub process *)


\* Where the server is, by init's next call; a request that port_receive has returned
\* stays until port_response, and none is left after it.
TurnInv ==
    /\ turn = "spawn" => spc = "user" /\ req = NULL
    /\ turn \in {"receive", "close"} => /\ spc \in {"user", "respond_finish", "respond_wake"}
                                        /\ spc = "user" => req = NULL
    /\ turn = "respond" => /\ spc \in {"enqueue", "wake_clients", "load_req", "kwait_req",
                                       "asleep_req", "take", "copy", "user"}
                           /\ spc \in {"take", "copy", "user"} => req # NULL
    /\ turn \in {"wait", "exited"} => spc \in {"close_server_rc", "close_rc", "close_unhash",
                                               "close_wake_all", "close_free", "closed"}
    /\ turn \in {"spawn", "receive", "respond", "close", "wait", "exited"}

\* The one client's request is in the server's hands, or about to be finished, and a
\* server without one is in the queue.
HandInv ==
    /\ kind[Stub] = "good"
    /\ Sent(Stub) /\ ~finished[Stub] => req = Stub \/ (spc = "respond_finish" /\ rq = Stub)
    /\ pc[Stub] = "asleep_finished" /\ finished[Stub] => spc = "respond_wake" /\ rq = Stub
    /\ spc \in {"wake_clients", "load_req", "kwait_req"} /\ req = NULL => server_queue
    /\ spc = "asleep_req" => server_queue /\ req = NULL

\* The stub is in one request at a time, whose byte is that of the answer.
EchoInv ==
    /\ turn = "spawn" => sp = "none"
    /\ pc[Stub] \notin {"new", "open"} => sp = "in_request"
    /\ sp = "in_request" => val = data
    /\ turn = "respond" /\ spc = "user" => buffer = data
    /\ {buffer, data, val} \subseteq Byte \cup {NULL}

\* While the stub sets the controller up, the keyboard's clock is off and the output
\* buffer holds an answer of the controller, if anything.
Ps2Inv ==
    /\ sp \in {"flush", "get_conf", "conf", "self_test", "tested", "enable"} => enabled = FALSE
    /\ sp \in {"get_conf", "self_test", "enable"} => out = <<>>
    /\ sp = "tested" => out = <<"0x55">>
    /\ dev \in Seq(Byte)
    /\ out = <<>> \/ \E b \in Byte : out = <<b>>

SystemInv == IInv /\ TurnInv /\ HandInv /\ EchoInv /\ Ps2Inv /\ n \in 0 .. Limit

-----------------------------------------------------------------------------
\* The calls of init and of the stub are steps of Port.
LEMMA SystemIsPort ==
  ASSUME [System]_all
  PROVE  [Next]_vars
<1> USE InitStubAssumption
<1>1. Stub \in Client /\ "good" \in Kinds /\ "good" \in Replies
  BY Zenon
<1>2. CASE InitCall
  BY Zenon, <1>1, <1>2 DEF InitCall, Next, ServerStep
<1>3. CASE InitInCall
  BY Zenon, <1>3 DEF InitInCall, Next, ServerStep
<1>4. CASE StubOpen
  BY Zenon, <1>1, <1>4 DEF StubOpen, Next, ClientStart
<1>5. CASE StubRequest
  BY Zenon, <1>1, <1>5 DEF StubRequest, Next, ClientStart
<1>6. CASE StubInRequest
  BY Zenon, <1>1, <1>6 DEF StubInRequest, Next
<1>7. CASE init_ps2_keyboard
  BY Zenon, <1>7 DEF init_ps2_keyboard, Ps2, Command, Expect
<1>8. CASE InitSpawn \/ InitExit \/ getc \/ StubResult \/ Deliver \/ (\E k \in Keys : Key(k))
  BY Zenon, <1>8 DEF InitSpawn, InitExit, getc, StubResult, Deliver, Key
<1>9. CASE UNCHANGED all
  BY Zenon, <1>9 DEF all
<1> QED BY Zenon, <1>2, <1>3, <1>4, <1>5, <1>6, <1>7, <1>8, <1>9
        DEF System, InitStep, StubStep

-----------------------------------------------------------------------------
\* The output buffer holds one byte, if any.
LEMMA OneByte ==
  ASSUME SystemInv, out # <<>>
  PROVE  Tail(out) = <<>> /\ Head(out) \in Byte
<1> SUFFICES ASSUME NEW b \in Byte, out = <<b>>
             PROVE  Tail(out) = <<>> /\ Head(out) \in Byte
  BY Zenon DEF SystemInv, Ps2Inv
<1>1. <<b>> \in Seq(Byte) /\ Len(<<b>>) = 1 /\ Head(<<b>>) = b
  OBVIOUS
<1>2. Tail(<<b>>) \in Seq(Byte) /\ Len(Tail(<<b>>)) = 0
  BY <1>1
<1>3. Tail(<<b>>) = <<>>
  BY <1>2
<1> QED BY Zenon, <1>1, <1>3

\* The controller and the keyboard keep to their buffers.
LEMMA Ps2Step ==
  ASSUME SystemInv, [System]_all
  PROVE  Ps2Inv'
<1>0. out # <<>> => Tail(out) = <<>> /\ Head(out) \in Byte
  BY Zenon, OneByte
<1> USE DEF SystemInv, Ps2Inv
<1>1. CASE UNCHANGED ps2 /\ (sp' = sp \/ sp' \in {"start", "unborn", "left", "disable", "getc",
                                                  "request", "in_request", "exited"})
  BY Zenon, <1>1 DEF ps2
<1>2. CASE init_ps2_keyboard
  <2> USE DEF Ps2
  <2>1. CASE Ps2("disable", "flush") /\ enabled' = FALSE /\ UNCHANGED <<out, dev>>
    BY Zenon, <2>1
  <2>2. CASE Ps2("flush", "get_conf") /\ out' = Flushed /\ UNCHANGED <<dev, enabled>>
    BY Zenon, <1>0, <2>2 DEF Flushed
  <2>3. CASE Command("get_conf", "conf", "conf")
    BY <2>3 DEF Command, Byte
  <2>4. CASE Expect("conf", Byte, "self_test")
    BY Zenon, <1>0, <2>4 DEF Expect
  <2>5. CASE Command("self_test", "0x55", "tested")
    BY <2>5 DEF Command, Byte
  <2>6. CASE Expect("tested", {"0x55"}, "enable")
    BY Zenon, <1>0, <2>6 DEF Expect
  <2>7. CASE Ps2("enable", "reset") /\ enabled' = TRUE /\ UNCHANGED <<out, dev>>
    BY Zenon, <2>7
  <2>8. CASE Ps2("reset", "ack") /\ dev' = <<"0xfa", "0xaa">> /\ UNCHANGED <<out, enabled>>
    BY <2>8 DEF Byte
  <2>9. CASE Expect("ack", {"0xfa"}, "bat")
    BY Zenon, <1>0, <2>9 DEF Expect
  <2>10. CASE Expect("bat", {"0xaa"}, "getc")
    BY Zenon, <1>0, <2>10 DEF Expect
  <2> QED BY Zenon, <1>2, <2>1, <2>2, <2>3, <2>4, <2>5, <2>6, <2>7, <2>8, <2>9, <2>10
          DEF init_ps2_keyboard
<1>3. CASE getc
  BY <1>3 DEF getc
<1>4. CASE Deliver
  <2>1. Head(dev) \in Byte /\ Tail(dev) \in Seq(Byte)
    BY <1>4 DEF Deliver
  <2> QED BY Zenon, <1>4, <2>1 DEF Deliver, stub
<1>5. ASSUME NEW k \in Keys, Key(k) PROVE Ps2Inv'
  BY <1>5 DEF Key, stub, Byte
<1>6. CASE InitStep \/ StubOpen \/ StubRequest \/ StubInRequest \/ StubResult \/ UNCHANGED all
  <2>1. UNCHANGED ps2
    BY Zenon, <1>6 DEF InitStep, InitSpawn, InitCall, InitInCall, InitExit, StubOpen, StubRequest,
       StubInRequest, StubResult, all, ps2
  <2>2. sp' = sp \/ sp' \in {"start", "unborn", "left", "disable", "getc", "request", "in_request", "exited"}
    BY Zenon, <1>6 DEF InitStep, InitSpawn, InitCall, InitInCall, InitExit, StubOpen, StubRequest,
       StubInRequest, StubResult, all, stub
  <2> QED BY Zenon, <2>1, <2>2, <1>1
<1> QED BY Zenon, <1>2, <1>3, <1>4, <1>5, <1>6 DEF System, StubStep

-----------------------------------------------------------------------------
\* What the invariant of Port says when there is one client.
LEMMA OneClient ==
  ASSUME SystemInv
  PROVE  /\ Stub \in Client /\ Stub # NULL /\ req \in {Stub, NULL}
         /\ req = Stub => /\ pc[Stub] \in {"load_finished", "kwait_finished", "asleep_finished"}
                          /\ finished[Stub] = FALSE
         /\ spc \in {"respond_finish", "respond_wake"} => rq = Stub
         /\ pc[Stub] = "xchg" => finished[Stub] = TRUE
         /\ pc[Stub] # "asleep_again"
         /\ server_queue => req = NULL
<1> USE InitStubAssumption, PortAssumption
<1>1. Stub \in Client /\ Stub # NULL /\ req \in {Stub, NULL} /\ rq \in {Stub, NULL}
  BY Zenon DEF SystemInv, IInv, TypeOK
<1>2. finished[Stub] \in BOOLEAN
  BY Zenon, <1>1 DEF SystemInv, IInv, TypeOK
<1>3. req = Stub => Waits(Stub) /\ ~finished[Stub]
  BY Zenon, <1>1 DEF SystemInv, IInv, Protocol, RequestInv
<1>4. spc \in {"respond_finish", "respond_wake"} => rq = Stub
  BY Zenon, <1>1 DEF SystemInv, IInv, Protocol, FinishInv, WakeInv
<1>5. (pc[Stub] = "xchg" => finished[Stub]) /\ pc[Stub] # "asleep_again"
  BY Zenon, <1>1 DEF SystemInv, IInv, Protocol, ClientInv
<1>6. server_queue => req = NULL
  BY Zenon DEF SystemInv, IInv, Protocol, QueueInv
<1> QED BY Zenon, <1>1, <1>2, <1>3, <1>4, <1>5, <1>6 DEF Waits

\* The types of Port's variables that the steps below change.
LEMMA PortTypes ==
  ASSUME SystemInv
  PROVE  /\ pc \in [Client -> ClientPlace] /\ finished \in [Client -> BOOLEAN]
         /\ kind \in [Client -> RequestKind] /\ spc \in ServerPlace /\ server_queue \in BOOLEAN
BY Zenon DEF SystemInv, IInv, TypeOK

\* The calls of init keep the invariant.
LEMMA InitCallStep ==
  ASSUME SystemInv, InitCall
  PROVE  TurnInv' /\ HandInv' /\ EchoInv' /\ n' \in 0 .. Limit
<1>0. n' \in 0 .. Limit
  BY InitStubAssumption DEF SystemInv, InitCall
<1> USE OneClient, PortTypes DEF TurnInv, HandInv, EchoInv, Sent
<1>1. CASE turn = "receive" /\ Receive /\ turn' = "respond" /\ UNCHANGED <<n, buffer, stub, ps2>>
  <2>1. spc = "user" /\ req = NULL
    BY Zenon, <1>1 DEF Receive, ServerGoes, SystemInv
  <2>2. spc' = "enqueue" /\ UNCHANGED <<port, req, rq, client>>
    BY Zenon, <1>1, <2>1 DEF Receive, ServerGoes
  <2> QED BY Zenon, <1>0, <1>1, <2>1, <2>2 DEF SystemInv, stub, client, port
<1>2. CASE turn = "respond" /\ Respond("good") /\ val' = buffer
  <2>1. spc = "user" /\ spc' = "respond_finish" /\ req = Stub /\ req' = NULL /\ rq' = Stub
        /\ UNCHANGED <<server_queue, pc, kind, finished>>
    BY Zenon, <1>2 DEF Respond, ServerGoes, AfterReply, SystemInv, port
  <2>2. turn' \in {"close", "receive"} /\ UNCHANGED <<buffer, sp, data>>
    BY Zenon, <1>2 DEF InitCall, AfterResponse
  <2>3. sp = "in_request" /\ buffer = data
    BY Zenon, <1>2, <2>1 DEF SystemInv
  <2> QED BY Zenon, <1>0, <1>2, <2>1, <2>2, <2>3 DEF SystemInv
<1>3. CASE turn = "close" /\ Close /\ turn' = "wait" /\ UNCHANGED <<n, buffer, stub, ps2>>
  <2>1. spc = "user" /\ req = NULL
    BY Zenon, <1>3 DEF Close, SystemInv
  <2>2. spc' = "close_server_rc" /\ UNCHANGED <<port, req, rq, client>>
    BY Zenon, <1>3, <2>1 DEF Close
  <2> QED BY Zenon, <1>0, <1>3, <2>1, <2>2 DEF SystemInv, stub, client, port
<1> QED BY Zenon, <1>1, <1>2, <1>3 DEF InitCall

\* What init's calls do in the kernel keeps the invariant.
LEMMA InitInCallStep ==
  ASSUME SystemInv, InitInCall
  PROVE  TurnInv' /\ HandInv' /\ EchoInv'
<1> USE OneClient, PortTypes DEF TurnInv, HandInv, EchoInv, Sent
<1>0. UNCHANGED <<turn, n, stub, ps2>>
  BY Zenon DEF InitInCall, init
<1>1. CASE Copy /\ buffer' = Received
  <2>1. spc = "copy" /\ spc' = "user" /\ turn = "respond" /\ req = Stub
    BY Zenon, <1>1 DEF Copy, ServerGoes, SystemInv
  <2>2. ret = Stub
    BY Zenon, <2>1 DEF SystemInv, IInv, Protocol, RequestInv
  <2>3. req' = req /\ UNCHANGED <<server_queue, rq, pc, kind, finished>>
    BY Zenon, <1>1, <2>2 DEF Copy, SystemInv, port, client
  <2>4. buffer' = data /\ sp = "in_request"
    BY Zenon, <1>1, <2>1 DEF Received, SystemInv
  <2> QED BY Zenon, <1>0, <2>1, <2>3, <2>4 DEF SystemInv, stub
<1>2. ASSUME UNCHANGED init PROVE buffer' = buffer
  BY Zenon, <1>2 DEF init
<1>3. CASE Enqueue /\ UNCHANGED init
  <2>1. req = NULL
    BY Zenon, <1>3 DEF Enqueue, ServerGoes, SystemInv, IInv, Protocol, QueueInv
  <2> QED BY Zenon, <1>0, <1>2, <1>3, <2>1 DEF Enqueue, ServerGoes, SystemInv, stub, client
<1>4. CASE WakeClient /\ UNCHANGED init
  <2>1. spc = "wake_clients" /\ spc' = "load_req" /\ UNCHANGED <<server_queue, req, rq, kind, finished>>
    BY Zenon, <1>4 DEF WakeClient, ServerGoes, port
  <2>2. pc'[Stub] = pc[Stub] \/ (pc[Stub] = "asleep_server" /\ pc'[Stub] = "dequeue")
    BY Zenon, <1>4, InitStubAssumption DEF WakeClient
  <2> QED BY Zenon, <1>0, <1>2, <1>4, <2>1, <2>2 DEF SystemInv, stub
<1>5. CASE LoadReq /\ UNCHANGED init
  BY Zenon, <1>0, <1>2, <1>5 DEF LoadReq, ServerGoes, SystemInv, stub, client, port
<1>6. CASE KWaitReq /\ UNCHANGED init
  BY Zenon, <1>0, <1>2, <1>6 DEF KWaitReq, ServerGoes, SystemInv, stub, client, port
<1>7. CASE Take /\ UNCHANGED init
  <2>1. spc = "take" /\ req = Stub
    BY Zenon, <1>7 DEF Take, ServerGoes, SystemInv
  <2>2. spc' = "copy" /\ UNCHANGED <<server_queue, req, rq, pc, kind, finished>>
    BY Zenon, <1>7, <2>1 DEF Take, ServerGoes, SystemInv, port
  <2> QED BY Zenon, <1>0, <1>2, <1>7, <2>1, <2>2 DEF SystemInv, stub
<1>8. CASE RespondFinish /\ UNCHANGED init
  <2>1. /\ spc = "respond_finish" /\ spc' = "respond_wake" /\ finished'[Stub] = TRUE /\ rq = Stub
        /\ UNCHANGED <<server_queue, req, rq, pc, kind>>
    BY Zenon, <1>8 DEF RespondFinish, ServerGoes, port
  <2> QED BY Zenon, <1>0, <1>2, <1>8, <2>1 DEF SystemInv, stub
<1>9. CASE RespondWake /\ UNCHANGED init
  <2>1. /\ spc = "respond_wake" /\ spc' = "user" /\ rq = Stub
        /\ UNCHANGED <<server_queue, req, rq, finished, kind>>
    BY Zenon, <1>9 DEF RespondWake, ServerGoes, port
  <2>2. pc'[Stub] = IF pc[Stub] = "asleep_finished" THEN "xchg" ELSE pc[Stub]
    BY Zenon, <1>9, <2>1 DEF RespondWake, WakeFinished
  <2>3. req = NULL /\ turn \in {"receive", "close"}
    BY Zenon, <2>1 DEF SystemInv, IInv, Protocol, QueueInv
  <2> QED BY Zenon, <1>0, <1>2, <1>9, <2>1, <2>2, <2>3 DEF SystemInv, stub
<1>10. CASE (CloseServerRc \/ CloseRc \/ CloseUnhash \/ CloseFree) /\ UNCHANGED init
  <2>1. /\ spc \in {"close_server_rc", "close_rc", "close_unhash", "close_free"}
        /\ spc' \in {"close_rc", "close_unhash", "close_wake_all", "close_free", "closed"}
        /\ UNCHANGED <<server_queue, req, rq, client>>
    BY Zenon, <1>10 DEF CloseServerRc, CloseRc, CloseUnhash, CloseFree, Panic, ServerGoes, port, server
  <2> QED BY <1>0, <1>2, <1>10, <2>1 DEF SystemInv, stub, client
<1>11. CASE CloseWakeAll /\ UNCHANGED init
  <2>1. /\ spc = "close_wake_all" /\ spc' = "close_free"
        /\ UNCHANGED <<server_queue, req, rq, finished, kind>>
    BY Zenon, <1>11 DEF CloseWakeAll, ServerGoes, port
  <2>2. pc'[Stub] = pc[Stub] \/ (pc[Stub] = "asleep_server" /\ pc'[Stub] = "dequeue")
    BY Zenon, <1>11 DEF CloseWakeAll
  <2> QED BY Zenon, <1>0, <1>2, <1>11, <2>1, <2>2 DEF SystemInv, stub
<1> QED BY Zenon, <1>1, <1>3, <1>4, <1>5, <1>6, <1>7, <1>8, <1>9, <1>10, <1>11 DEF InitInCall

\* What the stub does in port_open and port_request keeps the invariant.
LEMMA StubCallStep ==
  ASSUME SystemInv, StubOpen \/ StubRequest \/ StubInRequest
  PROVE  TurnInv' /\ HandInv' /\ EchoInv'
<1> USE OneClient, PortTypes DEF TurnInv, HandInv, EchoInv, Sent
<1>0. UNCHANGED <<turn, buffer, data>>
  BY ZenonT(60) DEF StubOpen, StubRequest, StubInRequest, init, stub
<1>1. CASE StubOpen
  <2>1. /\ pc[Stub] \notin {"new", "open"} => pc'[Stub] = pc[Stub]
        /\ pc[Stub] \in {"new", "open"} => pc'[Stub] \in {"new", "open"}
        /\ sp = "start" /\ sp' \in {"disable", "left"}
        /\ UNCHANGED <<val, spc, req, rq, server_queue, kind, finished>>
    BY Zenon, <1>1 DEF StubOpen, Open, ClientGoes, vars, port, server, client
  <2> QED BY <1>0, <2>1 DEF SystemInv
<1>2. CASE StubRequest
  <2>1. /\ pc[Stub] = "open" /\ pc'[Stub] = "check" /\ sp # "none" /\ sp' = "in_request" /\ val' = data
        /\ kind'[Stub] = "good"
        /\ UNCHANGED <<spc, req, rq, server_queue>>
    BY Zenon, <1>2 DEF StubRequest, Request, ClientGoes, port, server
  <2> QED BY <1>0, <2>1 DEF SystemInv
<1>3. CASE StubInRequest
  <2>0. UNCHANGED <<sp, val>>
    BY Zenon, <1>3 DEF StubInRequest, stub
  <2>1. CASE CheckServer(Stub)
    <3>1. /\ pc[Stub] = "check" /\ pc'[Stub] \in {"open", "load_waiting"}
          /\ UNCHANGED <<spc, req, rq, server_queue, kind>>
      BY Zenon, <2>1 DEF CheckServer, Returns, ClientGoes, port, server
    <3> QED BY <1>0, <2>0, <3>1 DEF SystemInv
  <2>2. CASE LoadWaiting(Stub) \/ KWaitServer(Stub)
    <3>1. /\ pc[Stub] \in {"load_waiting", "kwait_server"}
          /\ pc'[Stub] \in {"kwait_server", "asleep_server", "dequeue"}
          /\ UNCHANGED <<spc, req, rq, server_queue, kind>>
      BY Zenon, <2>2 DEF LoadWaiting, KWaitServer, ClientGoes, port, server
    <3> QED BY <1>0, <2>0, <3>1 DEF SystemInv
  <2>3. CASE Dequeue(Stub)
    <3>1. CASE ~server_queue
      <4>1. /\ pc[Stub] = "dequeue" /\ pc'[Stub] = "check"
            /\ UNCHANGED <<spc, req, rq, server_queue, kind>>
        BY Zenon, <2>3, <3>1 DEF Dequeue, ClientGoes, port, server
      <4> QED BY Zenon, <1>0, <2>0, <4>1 DEF SystemInv
    <3>2. CASE server_queue
      <4>1. /\ pc[Stub] = "dequeue" /\ pc'[Stub] = "load_finished" /\ req' = Stub
            /\ spc' = IF spc = "asleep_req" THEN "take" ELSE spc
            /\ UNCHANGED <<rq, kind, finished>>
        BY Zenon, <2>3, <3>2 DEF Dequeue, ClientGoes
      <4>2. spc \in {"wake_clients", "load_req", "kwait_req", "asleep_req"} /\ turn = "respond"
        BY Zenon, <3>2 DEF SystemInv, IInv, Protocol, QueueInv, QueuedOnlyInReceive
      <4>3. pc[Stub] \notin {"new", "open"} /\ sp = "in_request"
        BY Zenon, <4>1 DEF SystemInv
      <4>4. spc' \in {"wake_clients", "load_req", "kwait_req", "take"}
        BY Zenon, <4>1, <4>2
      <4>5. TurnInv'
        BY Zenon, <1>0, <4>1, <4>2, <4>4
      <4>6. HandInv'
        <5>1. kind'[Stub] = "good" /\ req' # NULL /\ spc' # "asleep_req" /\ pc'[Stub] # "asleep_finished"
          BY Zenon, <4>1, <4>4 DEF SystemInv
        <5> QED BY Zenon, <4>1, <5>1
      <4>7. EchoInv'
        BY Zenon, <1>0, <2>0, <4>3, <4>4 DEF SystemInv
      <4> QED BY Zenon, <4>5, <4>6, <4>7
    <3> QED BY Zenon, <3>1, <3>2
  <2>4. CASE LoadFinished(Stub) \/ KWaitFinished(Stub)
    <3>1. /\ pc[Stub] \in {"load_finished", "kwait_finished"}
          /\ pc'[Stub] \in {"xchg", "kwait_finished", "asleep_finished"}
          /\ pc'[Stub] = "asleep_finished" => ~finished[Stub]
          /\ UNCHANGED <<spc, req, rq, server_queue, kind, finished>>
      BY Zenon, <2>4 DEF LoadFinished, KWaitFinished, ClientGoes, port, server
    <3> QED BY <1>0, <2>0, <3>1 DEF SystemInv
  <2>5. CASE XchgReq(Stub)
    <3>1. pc[Stub] = "xchg" /\ req = NULL /\ finished[Stub] = TRUE
      BY Zenon, <2>5 DEF XchgReq, Returns, ClientGoes
    <3>2. /\ pc'[Stub] \in {"xchg", "return"}
          /\ UNCHANGED <<spc, req, rq, server_queue, kind, finished>>
      BY Zenon, <2>5, <3>1 DEF XchgReq, Panic, ClientGoes, Returns, port, server, client
    <3> QED BY Zenon, <1>0, <2>0, <3>1, <3>2 DEF SystemInv
  <2>6. CASE Return(Stub)
    <3>1. /\ pc[Stub] = "return" /\ pc'[Stub] = "open"
          /\ UNCHANGED <<spc, req, rq, server_queue, kind>>
      BY Zenon, <2>6 DEF Return, Returns, ClientGoes, port, server
    <3> QED BY Zenon, <1>0, <2>0, <3>1 DEF SystemInv
  <2> QED BY Zenon, <1>3, <2>1, <2>2, <2>3, <2>4, <2>5, <2>6 DEF StubInRequest, ClientStep
<1> QED BY Zenon, <1>1, <1>2, <1>3

\* Steps in which Port's variables stay: what init and the stub do between their calls.
LEMMA QuietStep ==
  ASSUME SystemInv, InitSpawn \/ InitExit \/ init_ps2_keyboard \/ getc \/ StubResult \/ Deliver
                    \/ (\E k \in Keys : Key(k)) \/ UNCHANGED all
  PROVE  TurnInv' /\ HandInv' /\ EchoInv'
<1> USE OneClient, PortTypes DEF TurnInv, HandInv, EchoInv, Sent
<1>0. UNCHANGED <<server_queue, req, spc, rq, pc, kind, finished>>
  <2>1. UNCHANGED vars
    BY Zenon DEF InitSpawn, InitExit, init_ps2_keyboard, Ps2, Command, Expect, getc, StubResult,
       Deliver, Key, all
  <2> QED BY Zenon, <2>1 DEF vars, port, server, client
<1>1. CASE InitSpawn
  <2>1. pc[Stub] \in {"new", "open"} => sp' # "in_request"
    BY Zenon, <1>1 DEF InitSpawn
  <2>2. pc[Stub] \in {"new", "open"}
    BY Zenon, <1>1 DEF InitSpawn, SystemInv
  <2> QED BY Zenon, <1>0, <1>1, <2>1, <2>2 DEF InitSpawn, SystemInv
<1>2. CASE InitExit
  BY ZenonT(60), <1>0, <1>2 DEF InitExit, SystemInv, stub
<1>3. CASE init_ps2_keyboard
  <2>1. /\ UNCHANGED <<turn, buffer, data, val>> /\ sp \notin {"none", "in_request"} /\ sp' # "in_request"
    BY Zenon, <1>3 DEF init_ps2_keyboard, Ps2, Command, Expect, init
  <2> QED BY <1>0, <2>1 DEF SystemInv
<1>4. CASE getc
  <2>1. out # <<>> => Head(out) \in Byte
    BY Zenon, OneByte
  <2>2. sp \notin {"none", "in_request"} /\ sp' # "in_request" /\ data' \in Byte /\ UNCHANGED <<turn, buffer, val>>
    BY Zenon, <1>4, <2>1 DEF getc, init
  <2>3. ~(turn = "respond" /\ spc = "user")
    BY Zenon, <2>2 DEF SystemInv
  <2> QED BY <1>0, <2>2, <2>3 DEF SystemInv
<1>5. CASE StubResult
  BY Zenon, <1>0, <1>5 DEF StubResult, SystemInv, init
<1>6. CASE Deliver \/ (\E k \in Keys : Key(k)) \/ UNCHANGED all
  <2>1. UNCHANGED <<turn, buffer, sp, data, val>>
    BY Zenon, <1>6 DEF Deliver, Key, all, init, stub
  <2> QED BY <1>0, <2>1 DEF SystemInv
<1> QED BY Zenon, <1>1, <1>2, <1>3, <1>4, <1>5, <1>6

\* The system boots in the invariant.
LEMMA BootInv == Boot => SystemInv
<1> SUFFICES ASSUME Boot PROVE SystemInv
  BY Zenon
<1> USE InitStubAssumption, PortAssumption
<1>1. IInv
  BY Zenon, InitInv DEF Boot
<1>2. TurnInv /\ HandInv /\ EchoInv
  BY Zenon DEF Boot, Init, TurnInv, HandInv, EchoInv, Sent
<1>3. Ps2Inv /\ n \in 0 .. Limit
  BY DEF Boot, Ps2Inv
<1> QED BY Zenon, <1>1, <1>2, <1>3 DEF SystemInv

\* Every step of the system preserves the invariant.
LEMMA SystemStep == SystemInv /\ [System]_all => SystemInv'
<1> SUFFICES ASSUME SystemInv, [System]_all PROVE SystemInv'
  BY Zenon
<1>1. IInv'
  BY Zenon, SystemIsPort, NextInv DEF SystemInv
<1>2. TurnInv' /\ HandInv' /\ EchoInv'
  BY Zenon, InitCallStep, InitInCallStep, StubCallStep, QuietStep DEF System, InitStep, StubStep
<1>3. Ps2Inv'
  BY Zenon, Ps2Step
<1>4. n' \in 0 .. Limit
  <2>1. CASE InitCall
    BY Zenon, <2>1, InitCallStep
  <2>2. CASE ~InitCall
    <3>1. n' = n
      BY Zenon, <2>2 DEF System, InitStep, StubStep, InitSpawn, InitInCall, InitExit, StubOpen,
         init_ps2_keyboard, Ps2, Command, Expect, getc, StubRequest, StubInRequest, StubResult,
         Deliver, Key, all, init
    <3> QED BY Zenon, <3>1 DEF SystemInv
  <2> QED BY Zenon, <2>1, <2>2
<1> QED BY Zenon, <1>1, <1>2, <1>3, <1>4 DEF SystemInv

\* The invariant says what the dialogue of init and its child promises.
LEMMA SystemIsExact == SystemInv => DialogueIsExact
<1> SUFFICES ASSUME SystemInv PROVE DialogueIsExact
  BY Zenon
<1>1. SystemTypeOK
  <2>1. TypeOK /\ n \in 0 .. Limit /\ {buffer, data, val} \subseteq Byte \cup {NULL}
    BY Zenon DEF SystemInv, IInv, EchoInv
  <2>2. out \in Seq(Byte) /\ Len(out) <= 1
    <3>1. CASE out = <<>>
      BY <3>1
    <3>2. ASSUME NEW b \in Byte, out = <<b>> PROVE out \in Seq(Byte) /\ Len(out) <= 1
      BY <3>2
    <3> QED BY Zenon, <3>1, <3>2 DEF SystemInv, Ps2Inv
  <2>3. turn \in {"spawn", "receive", "respond", "close", "wait", "exited"}
    BY Zenon DEF SystemInv, TurnInv
  <2> QED BY Zenon, <2>1, <2>2, <2>3 DEF SystemTypeOK
<1>2. RequestInHand
  <2> SUFFICES ASSUME NEW c \in Client, c = Stub
               PROVE  /\ Sent(c) /\ ~finished[c] => req = c \/ (spc = "respond_finish" /\ rq = c)
                      /\ (pc[c] = "asleep_finished" \/ pc[c] = "asleep_again") /\ finished[c] =>
                             spc = "respond_wake" /\ rq = c
    BY Zenon, InitStubAssumption DEF RequestInHand
  <2> QED BY Zenon, OneClient DEF SystemInv, HandInv
<1>3. SleepingServerIsQueued
  BY Zenon DEF SystemInv, HandInv, SleepingServerIsQueued
<1>4. ResponseHasRequest
  BY Zenon DEF SystemInv, TurnInv, ResponseHasRequest
<1>5. EchoIsExact
  BY Zenon DEF SystemInv, EchoInv, EchoIsExact
<1> QED BY Zenon, <1>1, <1>2, <1>3, <1>4, <1>5 DEF DialogueIsExact

\* In the dialogue of init and its child nothing is lost between their calls, for any
\* number of requests and any keys.
THEOREM DialogueStaysExact == SystemSpec => []DialogueIsExact
<1>1. Boot => SystemInv
  BY Zenon, BootInv
<1>2. SystemInv /\ [System]_all => SystemInv'
  BY Zenon, SystemStep
<1>3. SystemInv => DialogueIsExact
  BY Zenon, SystemIsExact
<1> QED BY <1>1, <1>2, <1>3, PTL DEF SystemSpec

\* The stub never aborts on what the controller answers, whatever keys are pressed before
\* the keyboard is disabled and meanwhile.
THEOREM ControllerStaysPassing == SystemSpec => ControllerPasses
<1>1. Boot => SystemInv
  BY Zenon, BootInv
<1>2. SystemInv /\ [System]_all => SystemInv'
  BY Zenon, SystemStep
<1>3. SystemInv /\ [System]_all => [(sp \in {"conf", "tested"}) => sp' # "aborted"]_all
  <2> SUFFICES ASSUME SystemInv, System, sp \in {"conf", "tested"}, sp' = "aborted"
               PROVE  FALSE
    BY Zenon
  <2>1. CASE init_ps2_keyboard
    <3>1. CASE Expect("conf", Byte, "self_test")
      BY <3>1 DEF Expect, Ps2, SystemInv, Ps2Inv
    <3>2. CASE Expect("tested", {"0x55"}, "enable")
      BY <3>2 DEF Expect, Ps2, SystemInv, Ps2Inv
    <3> QED BY Zenon, <2>1, <3>1, <3>2 DEF init_ps2_keyboard, Ps2, Command, Expect
  <2>2. CASE ~init_ps2_keyboard
    BY Zenon, <2>2 DEF System, InitStep, StubStep, InitSpawn, InitCall, InitInCall, InitExit, StubOpen, getc,
       StubRequest, StubInRequest, StubResult, Deliver, Key, stub
  <2> QED BY Zenon, <2>1, <2>2
<1> QED BY <1>1, <1>2, <1>3, PTL DEF SystemSpec, ControllerPasses
=============================================================================
