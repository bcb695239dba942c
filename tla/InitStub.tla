------------------------------ MODULE InitStub ------------------------------
(***************************************************************************)
(* The whole system as it boots: init (cmd/init.c), which serves a number  *)
(* of requests on its port, closes it and waits for its child, the stub    *)
(* process (cmd/stub_proc.c), which sends init what the keyboard sends.    *)
(* Their calls are those of Port; the keyboard and its controller are      *)
(* external.                                                               *)
(***************************************************************************)
EXTENDS Port, Sequences

CONSTANTS Stub,    \* the one client of the port
          Limit,   \* requests init serves: 10
          Keys,    \* scan codes
          DevMax   \* bytes the keyboard keeps

ASSUME InitStubAssumption == /\ Client = {Stub} /\ "good" \in Kinds \cap Replies
                             /\ Limit \in Nat

VARIABLES turn,           \* init's next call, or how it ended
          n, buffer,      \* requests served, and the value received last
          sp, data, val,  \* the stub's place, the byte it read and its req.val_small
          out, dev, enabled   \* the controller's output buffer, the keyboard's, its clock

\* What the stub may read.
Byte == Keys \cup {"conf", "0x55", "0xfa", "0xaa"}

init == <<turn, n, buffer>>
stub == <<sp, data, val>>
ps2 == <<out, dev, enabled>>
all == <<vars, init, stub, ps2>>

Boot == /\ Init /\ turn = "spawn" /\ n = 0 /\ buffer = NULL
        /\ sp = "none" /\ data = NULL /\ val = NULL
        /\ out = <<>> /\ dev = <<>> /\ enabled = TRUE

-----------------------------------------------------------------------------
(* init *)

\* When process_spawn_from_memory fails, init goes on to receive.
InitSpawn == /\ turn = "spawn" /\ turn' = "receive" /\ sp' \in {"start", "unborn"}
             /\ UNCHANGED <<vars, n, buffer, data, val, ps2>>

\* Mutant: the loop does not end.
AfterResponse_Endless(k) == "receive"

AfterResponse(k) == IF k >= Limit THEN "close" ELSE "receive"

InitCall ==
    \/ turn = "receive" /\ Receive /\ turn' = "respond" /\ UNCHANGED <<n, buffer, stub, ps2>>
    \/ /\ turn = "respond" /\ Respond("good") /\ val' = buffer
       /\ n' = IF n < Limit THEN n + 1 ELSE n
       /\ turn' = AfterResponse(n + 1) /\ UNCHANGED <<buffer, sp, data, ps2>>
    \/ turn = "close" /\ Close /\ turn' = "wait" /\ UNCHANGED <<n, buffer, stub, ps2>>

\* What port_receive hands out of the request.
Received == data

InitInCall ==
    \/ Copy /\ buffer' = Received /\ UNCHANGED <<turn, n, stub, ps2>>
    \/ /\ \/ Enqueue \/ WakeClient \/ LoadReq \/ KWaitReq \/ Take \/ RespondFinish \/ RespondWake
          \/ CloseServerRc \/ CloseRc \/ CloseUnhash \/ CloseWakeAll \/ CloseFree
       /\ UNCHANGED <<init, stub, ps2>>

\* process_wait returns, and init exits.
InitExit == /\ turn = "wait" /\ spc = "closed" /\ sp = "exited" /\ turn' = "exited"
            /\ UNCHANGED <<vars, n, buffer, stub, ps2>>

-----------------------------------------------------------------------------
(* The keyboard and its controller: a byte goes to the output buffer if that is empty *)

Key(k) == /\ Len(dev) < DevMax /\ dev' = Append(dev, k)
          /\ UNCHANGED <<vars, init, stub, out, enabled>>

Deliver == /\ enabled /\ out = <<>> /\ dev # <<>> /\ out' = <<Head(dev)>> /\ dev' = Tail(dev)
           /\ UNCHANGED <<vars, init, stub, enabled>>

-----------------------------------------------------------------------------
(* The stub process *)

\* Without memory for the handle, main returns -1.
StubOpen == /\ sp = "start" /\ UNCHANGED <<init, data, val, ps2>>
            /\ \/ Open(Stub) /\ sp' = "disable"
               \/ UNCHANGED vars /\ sp' = "left"

Ps2(from, to) == sp = from /\ sp' = to /\ UNCHANGED <<vars, init, data, val>>

Flushed == IF out = <<>> THEN out ELSE Tail(out)

\* A command that the controller answers.
Command(from, byte, to) == /\ Ps2(from, to) /\ out' = Append(out, byte) /\ UNCHANGED <<dev, enabled>>

\* ps2_recv_data and the assertion about the byte.
Expect(from, bytes, to) == /\ out # <<>> /\ Ps2(from, IF Head(out) \in bytes THEN to ELSE "aborted")
                           /\ out' = Tail(out) /\ UNCHANGED <<dev, enabled>>

\* init_ps2_keyboard.  The controller answers 0x20 with its configuration and 0xaa with
\* 0x55; the keyboard drops what it has and answers 0xff with 0xfa and 0xaa.
init_ps2_keyboard ==
    \/ Ps2("disable", "flush") /\ enabled' = FALSE /\ UNCHANGED <<out, dev>>
    \/ Ps2("flush", "get_conf") /\ out' = Flushed /\ UNCHANGED <<dev, enabled>>
    \/ Command("get_conf", "conf", "conf")
    \/ Expect("conf", Byte, "self_test")
    \/ Command("self_test", "0x55", "tested")
    \/ Expect("tested", {"0x55"}, "enable")
    \/ Ps2("enable", "reset") /\ enabled' = TRUE /\ UNCHANGED <<out, dev>>
    \/ Ps2("reset", "ack") /\ dev' = <<"0xfa", "0xaa">> /\ UNCHANGED <<out, enabled>>
    \/ Expect("ack", {"0xfa"}, "bat")
    \/ Expect("bat", {"0xaa"}, "getc")

getc == /\ out # <<>> /\ sp = "getc" /\ sp' = "request" /\ data' = Head(out) /\ out' = Tail(out)
        /\ UNCHANGED <<vars, init, val, dev, enabled>>

StubRequest == /\ sp = "request" /\ Request(Stub, "good") /\ sp' = "in_request" /\ val' = data
               /\ UNCHANGED <<init, data, ps2>>

StubInRequest == ClientStep(Stub) /\ UNCHANGED <<init, stub, ps2>>

\* A request that fails ends the stub.
StubResult == /\ sp = "in_request" /\ pc[Stub] = "open"
              /\ sp' = IF result[Stub] = "OK" THEN "getc" ELSE "exited"
              /\ UNCHANGED <<vars, init, data, val, ps2>>

InitStep == InitSpawn \/ InitCall \/ InitInCall \/ InitExit
StubStep == StubOpen \/ init_ps2_keyboard \/ getc \/ StubRequest \/ StubInRequest \/ StubResult

System == InitStep \/ StubStep \/ Deliver \/ \E k \in Keys : Key(k)

\* Both processes run, and keys go on being pressed.
SystemSpec == Boot /\ [][System]_all /\ WF_all(InitStep) /\ WF_all(StubStep)
              /\ WF_all(Deliver) /\ WF_all(\E k \in Keys : Key(k))

-----------------------------------------------------------------------------
\* The variables' types; init serves no more requests than it means to.
SystemTypeOK == /\ TypeOK /\ n \in 0 .. Limit
                /\ {buffer, data, val} \subseteq Byte \cup {NULL} /\ out \in Seq(Byte) /\ Len(out) <= 1
                /\ turn \in {"spawn", "receive", "respond", "close", "wait", "exited"}

\* When init responds, the request it received is still there: port_response never fails
\* (init.c:56-59).
ResponseHasRequest == turn = "respond" /\ spc = "user" => req # NULL

\* The stub gets back the byte it sent (stub_proc.c:166-169).
EchoIsExact == sp = "in_request" /\ pc[Stub] = "open" /\ result[Stub] = "OK" => val = data

\* In the dialogue of init and its child over a port, a request that was handed over stays
\* in init's hands until it is answered, a server that sleeps without one is in the port's
\* queue, the request is still there when init responds, and the child gets its byte back.
DialogueIsExact == /\ SystemTypeOK /\ RequestInHand /\ SleepingServerIsQueued
                   /\ ResponseHasRequest /\ EchoIsExact

\* The self test's result is what the stub expects (stub_proc.c:108): no scan code
\* that was under way before the keyboard was disabled is taken for it.
ControllerPasses == [][(sp \in {"conf", "tested"}) => sp' # "aborted"]_all

\* The keyboard's answers are what the stub expects (stub_proc.c:123, :125).
\* Not so in the code: see README, "Disagreements".
KeyboardPasses == sp # "aborted"

\* init exits in the end (init.c:73, "exiting init to trigger a panic"), unless the stub is
\* not started, leaves or aborts, after which nobody sends a request; or the stub still uses the
\* server's reference when it has been freed.
InitEnds == <>(turn = "exited" \/ sp \in {"unborn", "left", "aborted"} \/ panic # "none")
=============================================================================
