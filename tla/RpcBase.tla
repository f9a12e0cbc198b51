------------------------------- MODULE RpcBase -------------------------------
(***************************************************************************)
(* RpcBase objects on one worker, both halves of each over the one call    *)
(* stack of the program (RpcBase.h).  A call by callCb goes in steps: an   *)
(* id, the registration, sendMsg; sendMsg is virtual, so that the          *)
(* program's own code runs inside it, as it does in handlers and in        *)
(* callbacks, and there it may call, bind, dispatch, deal with results,    *)
(* throw and catch.                                                        *)
(*                                                                         *)
(* Ids, tables and messages are RpcClient's; what a message's data does to *)
(* a handler's parameters is RpcServer's, and here a message fits its      *)
(* handler or does not.                                                    *)
(***************************************************************************)
EXTENDS Integers, Sequences

CONSTANTS
  Bases, WireModulus, HighModulus, Payloads, HookIds, NoCallback,
  MaxCalls, MaxResults,     \* as in RpcClient
  Types,                    \* the call types
  Kinds,                    \* the invokers of the handlers that may be bound
  NoHandler,                \* no entry in functionMap
  MaxDepth                  \* bound: frames on the call stack

VARIABLES
  curId, rpcid, callbackMap, requests, results, caller, lastCall, runs,
                    \* as in RpcClient
  functionMap,      \* functionMap[b]: the invoker bound to each type
  stack,            \* the frames of callCb, of handlers and of callbacks
  raised            \* the exception in flight

Table == INSTANCE RpcClient

clientVars == <<curId, rpcid, callbackMap, requests, results, caller, lastCall, runs>>
frameVars == <<functionMap, stack, raised>>
vars == <<clientVars, frameVars>>

\* What RpcClient assumes of the constants they share.
ASSUME ClientAssumption ==
  /\ WireModulus \in Nat \ {0}
  /\ HighModulus \in Nat \ {0}
  /\ MaxCalls \in Nat
  /\ MaxResults \in Nat
  /\ HookIds \subseteq 0 .. Table!IdModulus - 1
  /\ Payloads \subseteq Seq(Nat)
  /\ NoCallback \notin Table!Registrations

Invokers == {"apply", "applyMember", "applyUsingCmd", "applyMemUsingCmd", "applyUser"}

ASSUME BaseAssumption ==
  /\ Kinds \subseteq Invokers
  /\ NoHandler \notin Invokers
  /\ MaxDepth \in Nat

StdExceptions == {"invalid_argument", "exception"}
Exceptions == StdExceptions \cup {"other"}
NoException == "none"

----------------------------------------------------------------------------
Init ==
  /\ Table!Init
  /\ functionMap = [b \in Bases |-> [type \in Types |-> NoHandler]]
  /\ stack = <<>>
  /\ raised = NoException

Top == stack[Len(stack)]
Pop == SubSeq(stack, 1, Len(stack) - 1)

\* callCb has a line to run before it hands over to sendMsg.
Pending(frame) == frame.is = "callCb" /\ frame.at # "sendMsg"

\* Code of the program runs: outside everything, in a handler, in a callback,
\* or in its sendMsg.
ProgramRuns ==
  /\ raised = NoException
  /\ stack # <<>> => ~Pending(Top)

Push(frame) ==
  /\ Len(stack) < MaxDepth
  /\ stack' = Append(stack, frame)

\* Mutant: callCb goes straight to sendMsg.
CallCbUnregistered(b) ==
  /\ ProgramRuns
  /\ Push([is |-> "callCb", base |-> b, call |-> Table!ThisCall, at |-> "send"])
  /\ Table!TakeId(b)
  /\ UNCHANGED <<callbackMap, requests, results, runs, functionMap, raised>>

\* callCb takes an id ...
CallCb(b) ==
  /\ ProgramRuns
  /\ Push([is |-> "callCb", base |-> b, call |-> Table!ThisCall, at |-> "emplace"])
  /\ Table!TakeId(b)
  /\ UNCHANGED <<callbackMap, requests, results, runs, functionMap, raised>>

\* The line callCb has reached.
At(line) == raised = NoException /\ stack # <<>> /\ Pending(Top) /\ Top.at = line
GoTo(line) == stack' = [stack EXCEPT ![Len(stack)].at = line]

\* Mutant: the key is cut to the width of the wire.
RegisterCut ==
  /\ At("emplace")
  /\ GoTo("send")
  /\ Table!Emplace(Top.base, Table!Wire(rpcid[Top.base]), [by |-> "callCb", of |-> Top.call])
  /\ UNCHANGED <<curId, rpcid, requests, results, caller, lastCall, runs,
                 functionMap, raised>>

\* ... registers the callback under the member rpcid ...
Register ==
  /\ At("emplace")
  /\ GoTo("send")
  /\ Table!Emplace(Top.base, rpcid[Top.base], [by |-> "callCb", of |-> Top.call])
  /\ UNCHANGED <<curId, rpcid, requests, results, caller, lastCall, runs,
                 functionMap, raised>>

\* Mutant: as in callCbCmd, the message is built and not sent.
SendNothing ==
  /\ At("send")
  /\ GoTo("sendMsg")
  /\ UNCHANGED <<clientVars, functionMap, raised>>

\* ... and calls sendMsg with a request that carries rpcid.
SendMsg ==
  /\ At("send")
  /\ GoTo("sendMsg")
  /\ Table!Send([rpcid |-> Table!Wire(rpcid[Top.base]), call |-> Top.call])
  /\ UNCHANGED <<curId, rpcid, callbackMap, results, caller, lastCall, runs,
                 functionMap, raised>>

\* callCmd, callCbCmd, testRegisterCB, and a result built from getRpcId(): no
\* code of the program runs inside them.
CallCmd(b) == ProgramRuns /\ Table!TakeIdOnly(b) /\ UNCHANGED frameVars
CallCbCmd(b) == ProgramRuns /\ Table!CallCbCmd(b) /\ UNCHANGED frameVars
TestRegisterCB(b, id) == ProgramRuns /\ Table!TestRegisterCB(b, id) /\ UNCHANGED frameVars
AnswerCurrent(b, data) == ProgramRuns /\ Table!AnswerCurrent(b, data) /\ UNCHANGED frameVars

\* The peer answers whenever it likes (external).
Answer(request, state, data) == Table!Answer(request, state, data) /\ UNCHANGED frameVars

\* A result that runs a callback.
DealResult(b, retMsg) ==
  /\ ProgramRuns
  /\ Table!DealResult(b, retMsg)
  /\ Push([is |-> "callback", base |-> b, id |-> retMsg.rpcid,
           found |-> callbackMap[b][retMsg.rpcid]])
  /\ UNCHANGED <<functionMap, raised>>

Bind(b, type, kind) ==
  /\ ProgramRuns
  /\ functionMap' = [functionMap EXCEPT ![b][type] = kind]
  /\ UNCHANGED <<clientVars, stack, raised>>

\* A message that fits its handler or not, dispatched: the handler starts, or
\* unpack throws out of applyMember, or nothing comes of it (no handler, a
\* refusal by apply, applyUser).
Dispatch(b, type, fits) ==
  LET kind == functionMap[b][type]
      unpacks == kind \in {"apply", "applyMember"}
  IN
  \/ /\ kind \in {"applyUsingCmd", "applyMemUsingCmd"} \/ (unpacks /\ fits)
     /\ Push([is |-> "handler", base |-> b, type |-> type, kind |-> kind])
     /\ UNCHANGED raised
  \/ /\ kind = "applyMember" /\ ~fits
     /\ raised' = "invalid_argument"
     /\ UNCHANGED stack
  \/ /\ kind \in {NoHandler, "applyUser"} \/ (kind = "apply" /\ ~fits)
     /\ UNCHANGED <<stack, raised>>

\* route, testLocalCall, testLocalDataCall.
Route(b, type, fits) ==
  /\ ProgramRuns
  /\ Dispatch(b, type, fits)
  /\ UNCHANGED <<clientVars, functionMap>>

\* call: an id, then a dispatch in the object itself.
Call(b, type, fits) ==
  /\ ProgramRuns
  /\ Table!TakeId(b)
  /\ Dispatch(b, type, fits)
  /\ UNCHANGED <<callbackMap, requests, results, runs, functionMap>>

\* The innermost frame returns: a handler, a callback, or sendMsg with callCb.
Return ==
  /\ ProgramRuns
  /\ stack # <<>>
  /\ stack' = Pop
  /\ UNCHANGED <<clientVars, functionMap, raised>>

Throw(exception) ==
  /\ ProgramRuns
  /\ stack # <<>>
  /\ raised' = exception
  /\ UNCHANGED <<clientVars, functionMap, stack>>

\* The program's code in the innermost frame catches what it called threw.
ProgramCatches ==
  /\ raised # NoException
  /\ stack # <<>>
  /\ raised' = NoException
  /\ UNCHANGED <<clientVars, functionMap, stack>>

\* The catch clauses of apply.
Caught(frame) ==
  frame.is = "handler" /\ frame.kind = "apply" /\ raised \in StdExceptions

ApplyCatches ==
  /\ stack # <<>>
  /\ Caught(Top)
  /\ stack' = Pop
  /\ raised' = NoException
  /\ UNCHANGED <<clientVars, functionMap>>

\* Mutant: an exception that leaves callCb takes the registration with it.
UnwindUnregisters ==
  /\ raised # NoException
  /\ stack # <<>>
  /\ ~Caught(Top)
  /\ stack' = Pop
  /\ callbackMap' = IF Top.is = "callCb"
                    THEN [callbackMap EXCEPT ![Top.base][rpcid[Top.base]] = NoCallback]
                    ELSE callbackMap
  /\ UNCHANGED <<curId, rpcid, requests, results, caller, lastCall, runs, functionMap, raised>>

\* Every other frame is left as it stands: the other invokers, dealResult and
\* callCb have no try and undo nothing.
Unwind ==
  /\ raised # NoException
  /\ stack # <<>>
  /\ ~Caught(Top)
  /\ stack' = Pop
  /\ UNCHANGED <<clientVars, functionMap, raised>>

\* Code outside every frame gets what the last one let out, or a dispatch threw.
Escape ==
  /\ raised # NoException
  /\ stack = <<>>
  /\ raised' = NoException
  /\ UNCHANGED <<clientVars, functionMap, stack>>

Next ==
  \/ \E b \in Bases :
       \/ CallCb(b) \/ CallCmd(b) \/ CallCbCmd(b)
       \/ \E id \in HookIds : TestRegisterCB(b, id)
       \/ \E data \in Payloads : AnswerCurrent(b, data)
       \/ \E retMsg \in results : DealResult(b, retMsg)
       \/ \E type \in Types :
            \/ \E kind \in Kinds : Bind(b, type, kind)
            \/ \E fits \in BOOLEAN : Route(b, type, fits) \/ Call(b, type, fits)
  \/ Register \/ SendMsg
  \/ \E request \in requests, state \in {0, 1}, data \in Payloads :
       Answer(request, state, data)
  \/ \E exception \in Exceptions : Throw(exception)
  \/ Return \/ ProgramCatches \/ ApplyCatches \/ Unwind \/ Escape

Spec == Init /\ [][Next]_vars

\* One thread runs callCb, which does not stop between its lines.  Nothing is
\* assumed of the program's own code, nor of the peer.
FairSpec == Spec /\ WF_vars(Register) /\ WF_vars(SendMsg)

----------------------------------------------------------------------------
(***************************************************************************)
(* Seen from outside, callCb is one step: RpcClient's tables with what the *)
(* innermost frame still has to register and to send.                      *)
(***************************************************************************)
PendingIn(lines) == stack # <<>> /\ Pending(Top) /\ Top.at \in lines

CallbackMapSeen ==
  IF PendingIn({"emplace"}) /\ callbackMap[Top.base][rpcid[Top.base]] = NoCallback
  THEN [callbackMap EXCEPT ![Top.base][rpcid[Top.base]] = [by |-> "callCb", of |-> Top.call]]
  ELSE callbackMap

RequestsSeen ==
  IF PendingIn({"emplace", "send"})
  THEN requests \cup {[rpcid |-> Table!Wire(rpcid[Top.base]), call |-> Top.call]}
  ELSE requests

Client == INSTANCE RpcClient WITH callbackMap <- CallbackMapSeen, requests <- RequestsSeen

----------------------------------------------------------------------------
(***************************************************************************)
(* Properties                                                              *)
(***************************************************************************)

Frames ==
  [is : {"callCb"}, base : Bases, call : Table!Calls, at : {"emplace", "send", "sendMsg"}]
    \cup [is : {"handler"}, base : Bases, type : Types, kind : Kinds]
    \cup [is : {"callback"}, base : Bases, id : Table!WireIds, found : Table!Registrations]

\* The types of the variables; RpcClient's as it states them.
TypeOK ==
  /\ Table!TypeOK
  /\ functionMap \in [Bases -> [Types -> Kinds \cup {NoHandler}]]
  /\ stack \in Seq(Frames)
  /\ raised \in Exceptions \cup {NoException}

\* A transport that answers inside sendMsg (RpcBase.h:30, called by :181) and
\* whatever the program does there meanwhile: the result of a call that is
\* still being sent finds an entry, and its own call's.
AnswerableWhileSending ==
  \A i \in DOMAIN stack :
    (stack[i].is = "callCb" /\ stack[i].at = "sendMsg" /\ stack[i].call < WireModulus) =>
      LET found == callbackMap[stack[i].base][stack[i].call] IN
      found # NoCallback /\ found.of = stack[i].call

\* dealResult runs the callback through the table's own entry (RpcBase.h:246),
\* not a copy: as long as it runs, however many calls, results and exceptions
\* nest inside it, the entry it was found under still holds it.
RunningIsRegistered ==
  \A i \in DOMAIN stack :
    stack[i].is = "callback" => callbackMap[stack[i].base][stack[i].id] = stack[i].found

\* A request that went out can still be answered when its callCb is gone,
\* returned or cut short by an exception out of sendMsg (RpcBase.h:174-181):
\* whatever ran and whatever was thrown since, the id on the request finds an
\* entry at the object that sent it, and its own call's.
SentStaysAnswerable ==
  \A request \in requests : request.call < WireModulus =>
    LET found == callbackMap[caller[request.call]][request.rpcid] IN
    found # NoCallback /\ found.of = request.call

\* Calls nest, callbacks call, sendMsg answers and exceptions cut callCb short:
\* the objects still keep to RpcClient, where callCb is a single step.
ImplementsClient == Client!Spec

\* A call by callCb that has taken its id goes out.
CallsGoOut ==
  \A n \in 1 .. MaxCalls :
    (stack # <<>> /\ Pending(Top) /\ Top.call = n)
      ~> (\E request \in requests : request.call = n)
=============================================================================
