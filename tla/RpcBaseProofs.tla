---------------------------- MODULE RpcBaseProofs ----------------------------
(***************************************************************************)
(* Proofs about RpcBase, for any number of objects, types and frames on    *)
(* the stack: it implements RpcClient, from whose theorems those about     *)
(* calls and results follow, and what runs on the stack can rely on its    *)
(* entry in the table.                                                     *)
(***************************************************************************)
EXTENDS RpcBase, TLAPS

\* RpcClient's theorems, about the tables as they are seen from outside.
Calls == INSTANCE RpcClientProofs WITH callbackMap <- CallbackMapSeen, requests <- RequestsSeen

----------------------------------------------------------------------------
(***************************************************************************)
(* The inductive invariant of the stack.                                   *)
(***************************************************************************)

\* Only the innermost frame has a line of callCb to run, nothing is raised
\* then, and the call is its object's and the last one of it and of the worker.
LibraryOnTop ==
  \A i \in DOMAIN stack : Pending(stack[i]) =>
    /\ i = Len(stack)
    /\ raised = NoException
    /\ stack[i].call = Len(caller)
    /\ stack[i].call = lastCall[stack[i].base]
    /\ caller[stack[i].call] = stack[i].base

IInv ==
  /\ TypeOK
  /\ LibraryOnTop
  /\ RunningIsRegistered

----------------------------------------------------------------------------
(***************************************************************************)
(* The tables.                                                             *)
(***************************************************************************)

LEMMA IdsType ==
  /\ Table!IdModulus \in Nat \ {0}
  /\ WireModulus \in Nat \ {0}
  /\ 0 \in Table!Ids
  /\ Table!WireIds \subseteq Table!Ids
  /\ Table!Ids \subseteq Nat
  /\ Table!Calls \subseteq Nat
<1>1. Table!IdModulus \in Nat \ {0} /\ WireModulus \in Nat \ {0}
  BY ClientAssumption DEF Table!IdModulus
<1>2. WireModulus <= Table!IdModulus
  BY ClientAssumption DEF Table!IdModulus
<1>3. QED BY <1>1, <1>2, ClientAssumption DEF Table!Ids, Table!WireIds, Table!Calls

LEMMA WireType == ASSUME NEW id \in Table!Ids PROVE Table!Wire(id) \in Table!WireIds
BY IdsType DEF Table!Wire, Table!WireIds

LEMMA TakeIdEffect ==
  ASSUME Table!TypeOK, NEW b \in Bases, Table!TakeId(b)
  PROVE  /\ curId' \in Table!Ids
         /\ rpcid' \in [Bases -> Table!Ids]
         /\ caller' \in Seq(Bases)
         /\ lastCall' \in [Bases -> Table!Calls]
         /\ Table!ThisCall \in Table!Calls
         /\ Len(caller') = Table!ThisCall
         /\ lastCall'[b] = Table!ThisCall
         /\ caller'[Table!ThisCall] = b
<1>1. caller \in Seq(Bases) /\ Len(caller) \in Nat /\ curId \in Nat
  BY IdsType DEF Table!TypeOK
<1>2. Table!GenId \in Table!Ids
  BY <1>1, IdsType DEF Table!GenId, Table!Ids
<1>3. Table!ThisCall \in Table!Calls
  BY <1>1, ClientAssumption DEF Table!ThisCall, Table!Calls, Table!TakeId
<1>4. /\ caller' \in Seq(Bases) /\ Len(caller') = Table!ThisCall
      /\ caller'[Table!ThisCall] = b
  BY <1>1 DEF Table!TakeId, Table!ThisCall
<1>5. QED BY <1>2, <1>3, <1>4 DEF Table!TakeId, Table!TypeOK

\* emplace keeps every entry that is there.
LEMMA EmplaceEffect ==
  ASSUME Table!TypeOK, NEW b \in Bases, NEW id \in Table!Ids,
         NEW registration \in Table!Registrations, Table!Emplace(b, id, registration)
  PROVE  /\ callbackMap' \in [Bases -> [Table!Ids -> Table!Registrations \cup {NoCallback}]]
         /\ callbackMap'[b][id] # NoCallback
         /\ \A c \in Bases, i \in Table!Ids :
              callbackMap'[c][i] =
                IF c = b /\ i = id /\ callbackMap[c][i] = NoCallback
                THEN registration ELSE callbackMap[c][i]
<1>1. /\ callbackMap \in [Bases -> [Table!Ids -> Table!Registrations \cup {NoCallback}]]
      /\ registration # NoCallback
  BY ClientAssumption DEF Table!TypeOK
<1>2. CASE callbackMap[b][id] = NoCallback
  <2>1. callbackMap' = [callbackMap EXCEPT ![b][id] = registration]
    BY <1>2 DEF Table!Emplace
  <2>2. QED BY <1>1, <1>2, <2>1
<1>3. CASE callbackMap[b][id] # NoCallback
  BY <1>1, <1>3 DEF Table!Emplace
<1>4. QED BY <1>2, <1>3

\* The entries of the table stay.
EntriesStay ==
  \A c \in Bases, i \in Table!Ids :
    callbackMap[c][i] # NoCallback => callbackMap'[c][i] = callbackMap[c][i]

\* A frame of callCb that has a line to run.
LEMMA PendingTop ==
  ASSUME IInv, NEW line, At(line)
  PROVE  /\ Len(stack) \in DOMAIN stack /\ Top = stack[Len(stack)]
         /\ Top.is = "callCb" /\ Top.at = line
         /\ Top.base \in Bases
         /\ Top.call \in Table!Calls /\ Top.call \in Nat
         /\ Top = [is |-> "callCb", base |-> Top.base, call |-> Top.call, at |-> line]
         /\ rpcid[Top.base] \in Table!Ids
         /\ [by |-> "callCb", of |-> Top.call] \in Table!Registrations
         /\ Top.call = Len(caller) /\ Top.call = lastCall[Top.base]
         /\ caller[Top.call] = Top.base
<1>1. /\ stack \in Seq(Frames) /\ stack # <<>> /\ Pending(Top) /\ Top.at = line
      /\ rpcid \in [Bases -> Table!Ids]
  BY DEF IInv, TypeOK, Table!TypeOK, At
<1>2. Len(stack) \in DOMAIN stack /\ Top \in Frames
  BY <1>1 DEF Top
<1>3. Top \in [is : {"callCb"}, base : Bases, call : Table!Calls,
               at : {"emplace", "send", "sendMsg"}]
  BY <1>1, <1>2 DEF Frames, Pending
<1>4. Top.call \in Nat
  BY <1>3, IdsType
<1>5. /\ Top.call = Len(caller) /\ Top.call = lastCall[Top.base]
      /\ caller[Top.call] = Top.base
  BY <1>1, <1>2 DEF IInv, LibraryOnTop, Top
<1>6. QED BY <1>1, <1>2, <1>3, <1>4, <1>5 DEF Top, Table!Registrations

LEMMA TablesStay ==
  ASSUME IInv, [Next]_vars
  PROVE  Table!TypeOK' /\ EntriesStay
<1>1. Table!TypeOK
  BY DEF IInv, TypeOK
<1>2. ASSUME UNCHANGED clientVars PROVE Table!TypeOK' /\ EntriesStay
  BY <1>1, <1>2 DEF clientVars, Table!TypeOK, EntriesStay
<1>3. ASSUME NEW b \in Bases, Table!TakeId(b), UNCHANGED <<callbackMap, requests, results, runs>>
      PROVE  Table!TypeOK' /\ EntriesStay
  BY <1>1, <1>3, TakeIdEffect DEF Table!TypeOK, EntriesStay
<1>4. ASSUME NEW b \in Bases, CallCb(b) \/ CallCmd(b) PROVE Table!TypeOK' /\ EntriesStay
  BY <1>3, <1>4 DEF CallCb, CallCmd, Table!TakeIdOnly
<1>5. ASSUME NEW b \in Bases, NEW type \in Types, NEW fits \in BOOLEAN,
             Route(b, type, fits) \/ Call(b, type, fits)
      PROVE  Table!TypeOK' /\ EntriesStay
  BY <1>2, <1>3, <1>5 DEF Route, Call
<1>6. ASSUME NEW b \in Bases, CallCbCmd(b) PROVE Table!TypeOK' /\ EntriesStay
  <2> DEFINE registration == [by |-> "callCbCmd", of |-> Table!ThisCall]
  <2>1. /\ Table!TakeId(b)
        /\ Table!Emplace(b, Table!GenId, registration)
        /\ UNCHANGED <<requests, results, runs>>
    BY <1>6 DEF CallCbCmd, Table!CallCbCmd
  <2>2. registration \in Table!Registrations
    BY <1>1, <2>1, TakeIdEffect, IdsType DEF Table!Registrations
  <2>3. Table!GenId \in Table!Ids
    BY <1>1, IdsType DEF Table!GenId, Table!Ids, Table!TypeOK
  <2> HIDE DEF registration
  <2>4. QED BY <1>1, <2>1, <2>2, <2>3, TakeIdEffect, EmplaceEffect DEF Table!TypeOK, EntriesStay
<1>7. ASSUME NEW b \in Bases, NEW id \in HookIds, TestRegisterCB(b, id)
      PROVE  Table!TypeOK' /\ EntriesStay
  <2> DEFINE registration == [by |-> "testRegisterCB", of |-> id]
  <2>1. /\ Table!Emplace(b, id, registration)
        /\ UNCHANGED <<curId, rpcid, requests, results, caller, lastCall, runs>>
    BY <1>7 DEF TestRegisterCB, Table!TestRegisterCB
  <2>2. id \in Table!Ids /\ registration \in Table!Registrations
    BY ClientAssumption, IdsType DEF Table!Ids, Table!Registrations
  <2> HIDE DEF registration
  <2>3. QED BY <1>1, <2>1, <2>2, EmplaceEffect DEF Table!TypeOK, EntriesStay
<1>8. ASSUME NEW b \in Bases, NEW data \in Payloads, AnswerCurrent(b, data)
      PROVE  Table!TypeOK' /\ EntriesStay
  <2>1. [rpcid |-> Table!Wire(rpcid[b]), state |-> 1, data |-> data, call |-> lastCall[b]]
          \in Table!Results
    BY <1>1, WireType DEF Table!TypeOK, Table!Results
  <2>2. QED BY <1>1, <1>8, <2>1
        DEF AnswerCurrent, Table!AnswerCurrent, Table!TypeOK, EntriesStay
<1>9. ASSUME NEW request \in requests, NEW state \in {0, 1}, NEW data \in Payloads,
             Answer(request, state, data)
      PROVE  Table!TypeOK' /\ EntriesStay
  <2>1. [rpcid |-> request.rpcid, state |-> state, data |-> data, call |-> request.call]
          \in Table!Results
    BY <1>1 DEF Table!TypeOK, Table!Requests, Table!Results
  <2>2. QED BY <1>1, <1>9, <2>1 DEF Answer, Table!Answer, Table!TypeOK, EntriesStay
<1>10. ASSUME NEW b \in Bases, NEW retMsg \in results, DealResult(b, retMsg)
       PROVE  Table!TypeOK' /\ EntriesStay
  <2>1. retMsg.rpcid \in Table!Ids
    BY <1>1, IdsType DEF Table!TypeOK, Table!Results
  <2>2. callbackMap[b][retMsg.rpcid] \in Table!Registrations
    BY <1>1, <1>10, <2>1 DEF DealResult, Table!DealResult, Table!TypeOK
  <2>3. QED BY <1>1, <1>10, <2>2 DEF DealResult, Table!DealResult, Table!TypeOK, EntriesStay
<1>11. CASE Register
  <2> DEFINE registration == [by |-> "callCb", of |-> Top.call]
  <2>1. /\ At("emplace")
        /\ Table!Emplace(Top.base, rpcid[Top.base], registration)
        /\ UNCHANGED <<curId, rpcid, requests, results, caller, lastCall, runs>>
    BY <1>11 DEF Register
  <2>2. /\ Top.base \in Bases /\ rpcid[Top.base] \in Table!Ids
        /\ registration \in Table!Registrations
    BY <2>1, PendingTop
  <2> HIDE DEF registration
  <2>3. QED BY <1>1, <2>1, <2>2, EmplaceEffect DEF Table!TypeOK, EntriesStay
<1>12. CASE SendMsg
  <2>1. Top.base \in Bases /\ rpcid[Top.base] \in Table!Ids /\ Top.call \in Table!Calls
    BY <1>12, PendingTop DEF SendMsg
  <2>2. [rpcid |-> Table!Wire(rpcid[Top.base]), call |-> Top.call] \in Table!Requests
    BY <2>1, WireType DEF Table!Requests
  <2>3. QED BY <1>1, <1>12, <2>2 DEF SendMsg, Table!Send, Table!TypeOK, EntriesStay
<1>13. ASSUME \/ \E b \in Bases, type \in Types, kind \in Kinds : Bind(b, type, kind)
              \/ \E exception \in Exceptions : Throw(exception)
              \/ Return \/ ProgramCatches \/ ApplyCatches \/ Unwind \/ Escape
              \/ UNCHANGED vars
       PROVE  UNCHANGED clientVars
  BY <1>13 DEF Bind, Throw, Return, ProgramCatches, ApplyCatches, Unwind, Escape, vars
<1>14. QED
  BY <1>2, <1>4, <1>5, <1>6, <1>7, <1>8, <1>9, <1>10, <1>11, <1>12, <1>13 DEF Next

----------------------------------------------------------------------------
(***************************************************************************)
(* The stack.                                                              *)
(***************************************************************************)

\* While the program's code runs no frame has a line of callCb left.
LEMMA NonePending ==
  ASSUME IInv, ProgramRuns \/ raised # NoException
  PROVE  \A i \in DOMAIN stack : ~Pending(stack[i])
BY DEF IInv, LibraryOnTop, ProgramRuns, Top

\* A callback that runs keeps its entry when the table's entries stay.
LEMMA RunningStays ==
  ASSUME IInv, EntriesStay, NEW i \in DOMAIN stack, stack[i].is = "callback"
  PROVE  callbackMap'[stack[i].base][stack[i].id] = stack[i].found
<1>1. stack[i] \in Frames
  BY DEF IInv, TypeOK
<1>2. /\ stack[i].base \in Bases /\ stack[i].id \in Table!Ids
      /\ stack[i].found \in Table!Registrations
  BY <1>1, IdsType DEF Frames
<1>3. stack[i].found # NoCallback
  BY <1>2, ClientAssumption
<1>4. QED BY <1>2, <1>3 DEF IInv, RunningIsRegistered, EntriesStay

\* The three things a step does to the stack.
LEMMA StackStays ==
  ASSUME IInv, EntriesStay, UNCHANGED stack, ProgramRuns \/ raised # NoException
  PROVE  stack' \in Seq(Frames) /\ LibraryOnTop' /\ RunningIsRegistered'
<1>1. stack' \in Seq(Frames)
  BY DEF IInv, TypeOK
<1>2. \A i \in DOMAIN stack' : ~Pending(stack'[i])
  BY NonePending
<1>3. LibraryOnTop'
  BY <1>2 DEF LibraryOnTop, Pending
<1>4. RunningIsRegistered'
  BY RunningStays DEF RunningIsRegistered
<1>5. QED BY <1>1, <1>3, <1>4

LEMMA StackPops ==
  ASSUME IInv, EntriesStay, stack # <<>>, stack' = Pop, ProgramRuns \/ raised # NoException
  PROVE  stack' \in Seq(Frames) /\ LibraryOnTop' /\ RunningIsRegistered'
<1>1. stack \in Seq(Frames) /\ Len(stack) \in Nat /\ Len(stack) >= 1
  BY DEF IInv, TypeOK
<1>2. /\ Pop \in Seq(Frames)
      /\ DOMAIN Pop \subseteq DOMAIN stack
      /\ \A i \in DOMAIN Pop : Pop[i] = stack[i]
  BY <1>1 DEF Pop
<1>3. \A i \in DOMAIN stack' : ~Pending(stack'[i])
  BY <1>2, NonePending
<1>4. LibraryOnTop'
  BY <1>3 DEF LibraryOnTop, Pending
<1>5. RunningIsRegistered'
  BY <1>2, RunningStays DEF RunningIsRegistered
<1>6. QED BY <1>2, <1>4, <1>5

LEMMA StackPushes ==
  ASSUME IInv, EntriesStay, ProgramRuns, NEW frame \in Frames,
         stack' = Append(stack, frame),
         Pending(frame) => /\ raised' = NoException
                           /\ frame.call = Len(caller')
                           /\ frame.call = lastCall'[frame.base]
                           /\ caller'[frame.call] = frame.base,
         frame.is = "callback" => callbackMap'[frame.base][frame.id] = frame.found
  PROVE  stack' \in Seq(Frames) /\ LibraryOnTop' /\ RunningIsRegistered'
<1>1. stack \in Seq(Frames) /\ Len(stack) \in Nat /\ DOMAIN stack = 1 .. Len(stack)
  BY DEF IInv, TypeOK
<1>2. /\ stack' \in Seq(Frames) /\ Len(stack') = Len(stack) + 1
      /\ DOMAIN stack' = 1 .. Len(stack) + 1
      /\ stack'[Len(stack')] = frame
      /\ \A i \in DOMAIN stack : stack'[i] = stack[i]
  BY <1>1
<1>3. \A i \in DOMAIN stack' : i \in DOMAIN stack \/ i = Len(stack')
  BY <1>1, <1>2
<1>4. LibraryOnTop'
  <2> SUFFICES ASSUME NEW i \in DOMAIN stack', Pending(stack'[i])
               PROVE  /\ i = Len(stack')
                      /\ raised' = NoException
                      /\ stack'[i].call = Len(caller')
                      /\ stack'[i].call = lastCall'[stack'[i].base]
                      /\ caller'[stack'[i].call] = stack'[i].base
    BY DEF LibraryOnTop, Pending
  <2>1. i \notin DOMAIN stack
    BY <1>2, NonePending
  <2>2. QED BY <1>2, <1>3, <2>1
<1>5. RunningIsRegistered'
  BY <1>2, <1>3, RunningStays DEF RunningIsRegistered
<1>6. QED BY <1>2, <1>4, <1>5

\* A line of callCb is done: its frame goes on to the next.
LEMMA StackGoesOn ==
  ASSUME IInv, EntriesStay, NEW line, At(line), NEW next \in {"send", "sendMsg"},
         GoTo(next), UNCHANGED <<caller, lastCall, raised>>
  PROVE  stack' \in Seq(Frames) /\ LibraryOnTop' /\ RunningIsRegistered'
<1>1. /\ stack \in Seq(Frames) /\ Len(stack) \in Nat /\ Len(stack) \in DOMAIN stack
      /\ DOMAIN stack = 1 .. Len(stack)
  BY PendingTop DEF IInv, TypeOK
<1> DEFINE frame == [is |-> "callCb", base |-> Top.base, call |-> Top.call, at |-> next]
<1>2. /\ frame \in Frames
      /\ frame.is = "callCb" /\ frame.base = Top.base /\ frame.call = Top.call
      /\ Top.call = Len(caller) /\ Top.call = lastCall[Top.base]
      /\ caller[Top.call] = Top.base
  BY PendingTop DEF Frames
<1>3. [Top EXCEPT !.at = next] = frame
  BY PendingTop
<1>4. stack' = [stack EXCEPT ![Len(stack)] = frame]
  BY <1>1, <1>3 DEF GoTo, Top
<1> HIDE DEF frame
<1>5. /\ stack' \in Seq(Frames) /\ DOMAIN stack' = DOMAIN stack
      /\ Len(stack') = Len(stack)
      /\ stack'[Len(stack)] = frame
      /\ \A i \in DOMAIN stack : i # Len(stack) => stack'[i] = stack[i]
  BY <1>1, <1>2, <1>4
<1>6. LibraryOnTop'
  <2> SUFFICES ASSUME NEW i \in DOMAIN stack', Pending(stack'[i])
               PROVE  /\ i = Len(stack')
                      /\ raised' = NoException
                      /\ stack'[i].call = Len(caller')
                      /\ stack'[i].call = lastCall'[stack'[i].base]
                      /\ caller'[stack'[i].call] = stack'[i].base
    BY DEF LibraryOnTop, Pending
  <2>1. i = Len(stack)
    BY <1>5 DEF IInv, LibraryOnTop
  <2>2. raised = NoException
    BY DEF At
  <2>3. QED BY <1>2, <1>5, <2>1, <2>2
<1>7. RunningIsRegistered'
  <2> SUFFICES ASSUME NEW i \in DOMAIN stack', stack'[i].is = "callback"
               PROVE  callbackMap'[stack'[i].base][stack'[i].id] = stack'[i].found
    BY DEF RunningIsRegistered
  <2>1. i # Len(stack)
    BY <1>2, <1>5
  <2>2. QED BY <1>5, <2>1, RunningStays
<1>8. QED BY <1>5, <1>6, <1>7

\* The frames that are pushed.
LEMMA FrameTypes ==
  /\ \A b \in Bases, n \in Table!Calls :
       [is |-> "callCb", base |-> b, call |-> n, at |-> "emplace"] \in Frames
  /\ \A b \in Bases, type \in Types, kind \in Kinds :
       [is |-> "handler", base |-> b, type |-> type, kind |-> kind] \in Frames
  /\ \A b \in Bases, id \in Table!WireIds, found \in Table!Registrations :
       [is |-> "callback", base |-> b, id |-> id, found |-> found] \in Frames
BY DEF Frames

LEMMA DispatchPreserves ==
  ASSUME IInv, EntriesStay, NEW b \in Bases, NEW type \in Types, NEW fits \in BOOLEAN,
         ProgramRuns, Dispatch(b, type, fits)
  PROVE  /\ stack' \in Seq(Frames) /\ LibraryOnTop' /\ RunningIsRegistered'
         /\ raised' \in Exceptions \cup {NoException}
<1> DEFINE kind == functionMap[b][type]
           frame == [is |-> "handler", base |-> b, type |-> type, kind |-> kind]
<1>1. raised' \in Exceptions \cup {NoException}
  BY DEF Dispatch, IInv, TypeOK, Exceptions, StdExceptions
<1>2. CASE UNCHANGED stack
  BY <1>1, <1>2, StackStays
<1>3. CASE /\ stack' = Append(stack, frame)
           /\ kind \in {"applyUsingCmd", "applyMemUsingCmd", "apply", "applyMember"}
           /\ kind # NoHandler
  <2>1. kind \in Kinds
    BY <1>3 DEF IInv, TypeOK
  <2>2. frame \in Frames /\ frame.is = "handler"
    BY <2>1, FrameTypes
  <2> HIDE DEF frame
  <2>3. ~Pending(frame) /\ frame.is # "callback"
    BY <2>2 DEF Pending
  <2>4. stack' \in Seq(Frames) /\ LibraryOnTop' /\ RunningIsRegistered'
    BY <1>3, <2>2, <2>3, StackPushes
  <2>5. QED BY <1>1, <2>4
<1>4. QED BY <1>2, <1>3, BaseAssumption DEF Dispatch, Push, Invokers

LEMMA InitIInv == Init => IInv
<1> SUFFICES ASSUME Init PROVE IInv
  OBVIOUS
<1>1. Table!TypeOK
  BY IdsType, ClientAssumption DEF Init, Table!Init, Table!TypeOK, Table!Calls
<1>2. TypeOK
  BY <1>1 DEF Init, TypeOK
<1>3. LibraryOnTop /\ RunningIsRegistered
  BY DEF Init, LibraryOnTop, RunningIsRegistered
<1>4. QED BY <1>2, <1>3 DEF IInv

LEMMA NextIInv == IInv /\ [Next]_vars => IInv'
<1> SUFFICES ASSUME IInv, [Next]_vars PROVE IInv'
  OBVIOUS
<1>1. Table!TypeOK' /\ EntriesStay
  BY TablesStay
<1>2. /\ TypeOK /\ Table!TypeOK /\ stack \in Seq(Frames)
      /\ functionMap \in [Bases -> [Types -> Kinds \cup {NoHandler}]]
      /\ raised \in Exceptions \cup {NoException}
  BY DEF IInv, TypeOK
\* The steps that leave stack, exception and handlers alone.
<1>3. ASSUME UNCHANGED frameVars, ProgramRuns PROVE IInv'
  BY <1>1, <1>2, <1>3, StackStays DEF frameVars, IInv, TypeOK
<1>4. ASSUME NEW b \in Bases,
             \/ CallCmd(b) \/ CallCbCmd(b)
             \/ \E id \in HookIds : TestRegisterCB(b, id)
             \/ \E data \in Payloads : AnswerCurrent(b, data)
      PROVE  IInv'
  BY <1>3, <1>4 DEF CallCmd, CallCbCmd, TestRegisterCB, AnswerCurrent
<1>5. ASSUME UNCHANGED <<callbackMap, caller, lastCall, frameVars>> PROVE IInv'
  <2>1. LibraryOnTop' /\ RunningIsRegistered'
    BY <1>5 DEF IInv, frameVars, LibraryOnTop, RunningIsRegistered, Pending
  <2>2. QED BY <1>1, <1>2, <1>5, <2>1 DEF frameVars, IInv, TypeOK
<1>6. ASSUME NEW request \in requests, NEW state \in {0, 1}, NEW data \in Payloads,
             Answer(request, state, data)
      PROVE  IInv'
  BY <1>5, <1>6 DEF Answer, Table!Answer
<1>7. CASE UNCHANGED vars
  BY <1>5, <1>7 DEF vars, clientVars
\* The steps that push a frame.
<1>8. ASSUME NEW b \in Bases, CallCb(b) PROVE IInv'
  <2> DEFINE frame == [is |-> "callCb", base |-> b, call |-> Table!ThisCall, at |-> "emplace"]
  <2>1. /\ ProgramRuns /\ stack' = Append(stack, frame) /\ Table!TakeId(b)
        /\ UNCHANGED <<functionMap, raised>>
    BY <1>8 DEF CallCb, Push
  <2>2. Table!ThisCall \in Table!Calls /\ Len(caller') = Table!ThisCall
        /\ lastCall'[b] = Table!ThisCall /\ caller'[Table!ThisCall] = b
    BY <1>2, <2>1, TakeIdEffect
  <2>3. /\ frame \in Frames /\ frame.is = "callCb" /\ frame.base = b
        /\ frame.call = Table!ThisCall
    BY <2>2, FrameTypes
  <2>4. raised' = NoException
    BY <2>1 DEF ProgramRuns
  <2> HIDE DEF frame
  <2>5. stack' \in Seq(Frames) /\ LibraryOnTop' /\ RunningIsRegistered'
    BY <1>1, <2>1, <2>2, <2>3, <2>4, StackPushes
  <2>6. QED BY <1>1, <1>2, <2>1, <2>5 DEF IInv, TypeOK
<1>9. ASSUME NEW b \in Bases, NEW retMsg \in results, DealResult(b, retMsg) PROVE IInv'
  <2> DEFINE found == callbackMap[b][retMsg.rpcid]
             frame == [is |-> "callback", base |-> b, id |-> retMsg.rpcid, found |-> found]
  <2>1. /\ ProgramRuns /\ stack' = Append(stack, frame)
        /\ callbackMap' = callbackMap /\ found # NoCallback
        /\ UNCHANGED <<functionMap, raised>>
    BY <1>9 DEF DealResult, Table!DealResult, Push
  <2>2. retMsg.rpcid \in Table!WireIds
    BY <1>2 DEF Table!TypeOK, Table!Results
  <2>3. found \in Table!Registrations
    <3>1. retMsg.rpcid \in Table!Ids
      BY <2>2, IdsType
    <3>2. callbackMap[b] \in [Table!Ids -> Table!Registrations \cup {NoCallback}]
      BY <1>2 DEF Table!TypeOK
    <3>3. QED BY <2>1, <3>1, <3>2
  <2>4. /\ frame \in Frames /\ frame.is = "callback"
        /\ frame.base = b /\ frame.id = retMsg.rpcid /\ frame.found = found
    BY <2>2, <2>3, FrameTypes
  <2>5. callbackMap'[frame.base][frame.id] = frame.found
    BY <2>1, <2>4
  <2> HIDE DEF frame
  <2>6. ~Pending(frame)
    BY <2>4 DEF Pending
  <2>7. stack' \in Seq(Frames) /\ LibraryOnTop' /\ RunningIsRegistered'
    BY <1>1, <2>1, <2>4, <2>5, <2>6, StackPushes
  <2>8. QED BY <1>1, <1>2, <2>1, <2>7 DEF IInv, TypeOK
<1>10. ASSUME NEW b \in Bases, NEW type \in Types, NEW fits \in BOOLEAN,
              Route(b, type, fits) \/ Call(b, type, fits)
       PROVE  IInv'
  <2>1. ProgramRuns /\ Dispatch(b, type, fits) /\ UNCHANGED functionMap
    BY <1>10 DEF Route, Call
  <2>2. /\ stack' \in Seq(Frames) /\ LibraryOnTop' /\ RunningIsRegistered'
        /\ raised' \in Exceptions \cup {NoException}
    BY <1>1, <2>1, DispatchPreserves
  <2>3. QED BY <1>1, <1>2, <2>1, <2>2 DEF IInv, TypeOK
\* The lines of callCb.
<1>11. CASE Register \/ SendMsg
  <2>1. UNCHANGED <<caller, lastCall, functionMap, raised>>
    BY <1>11 DEF Register, SendMsg
  <2>2. stack' \in Seq(Frames) /\ LibraryOnTop' /\ RunningIsRegistered'
    BY <1>1, <1>11, <2>1, StackGoesOn DEF Register, SendMsg
  <2>3. QED BY <1>1, <1>2, <2>1, <2>2 DEF IInv, TypeOK
\* The program's own steps and the unwinding.
<1>12. ASSUME NEW b \in Bases, NEW type \in Types, NEW kind \in Kinds, Bind(b, type, kind)
       PROVE  IInv'
  <2>1. ProgramRuns /\ UNCHANGED <<stack, raised>>
        /\ functionMap' = [functionMap EXCEPT ![b][type] = kind]
    BY <1>12 DEF Bind
  <2>2. functionMap' \in [Bases -> [Types -> Kinds \cup {NoHandler}]]
    BY <1>2, <2>1
  <2>3. QED BY <1>1, <1>2, <2>1, <2>2, StackStays DEF IInv, TypeOK
<1>13. ASSUME \/ \E exception \in Exceptions : Throw(exception)
              \/ ProgramCatches \/ Escape
       PROVE  IInv'
  <2>1. /\ ProgramRuns \/ raised # NoException
        /\ UNCHANGED <<stack, functionMap>>
        /\ raised' \in Exceptions \cup {NoException}
    BY <1>13 DEF Throw, ProgramCatches, Escape
  <2>2. QED BY <1>1, <1>2, <2>1, StackStays DEF IInv, TypeOK
<1>14. CASE Return \/ ApplyCatches \/ Unwind
  <2>1. /\ ProgramRuns \/ raised # NoException
        /\ stack # <<>> /\ stack' = Pop
        /\ UNCHANGED functionMap
        /\ raised' \in {raised, NoException}
    BY <1>14 DEF Return, ApplyCatches, Unwind, Caught, StdExceptions, NoException
  <2>2. QED BY <1>1, <1>2, <2>1, StackPops DEF IInv, TypeOK
<1>15. QED
  BY <1>4, <1>6, <1>7, <1>8, <1>9, <1>10, <1>11, <1>12, <1>13, <1>14 DEF Next

LEMMA Invariance == Spec => []IInv
  BY InitIInv, NextIInv, PTL DEF Spec

----------------------------------------------------------------------------
(***************************************************************************)
(* RpcBase implements RpcClient.                                           *)
(***************************************************************************)

\* Where no line of callCb is left, the tables are seen as they are.
LEMMA SeenAsIs ==
  /\ (stack # <<>> => ~Pending(Top)) =>
       CallbackMapSeen = callbackMap /\ RequestsSeen = requests
  /\ (stack # <<>> => ~Pending(Top))' =>
       CallbackMapSeen' = callbackMap' /\ RequestsSeen' = requests'
BY DEF CallbackMapSeen, RequestsSeen, PendingIn

\* A step that changes neither tables nor what is pending changes nothing seen.
LEMMA NonePendingSeen ==
  ASSUME IInv, IInv', ProgramRuns \/ raised # NoException,
         stack' \in {stack, Pop} \/ ~Pending(stack'[Len(stack')])
  PROVE  /\ CallbackMapSeen = callbackMap /\ RequestsSeen = requests
         /\ CallbackMapSeen' = callbackMap' /\ RequestsSeen' = requests'
<1>1. stack \in Seq(Frames) /\ stack' \in Seq(Frames)
  BY DEF IInv, TypeOK
<1>2. stack # <<>> => ~Pending(Top)
  <2>1. stack # <<>> => Len(stack) \in DOMAIN stack
    BY <1>1
  <2>2. QED BY <2>1, NonePending DEF Top
<1>3. (stack # <<>> => ~Pending(Top))'
  <2>1. CASE stack' = stack
    BY <1>2, <2>1 DEF Top, Pending
  <2>2. CASE stack' = Pop
    <3> SUFFICES ASSUME stack' # <<>> PROVE ~Pending(stack'[Len(stack')])
      BY DEF Top, Pending
    <3>1. Len(stack') \in DOMAIN stack' /\ Len(stack') \in Nat
      BY <1>1
    <3>2. stack # <<>> => /\ \A i \in DOMAIN Pop : i \in DOMAIN stack /\ Pop[i] = stack[i]
      BY <1>1 DEF Pop
    <3>3. stack = <<>> => Pop = <<>>
      BY DEF Pop
    <3>4. QED BY <2>2, <3>1, <3>2, <3>3, NonePending
  <2>3. CASE ~Pending(stack'[Len(stack')])
    BY <2>3 DEF Top, Pending
  <2>4. QED BY <2>1, <2>2, <2>3
<1>4. QED BY <1>2, <1>3, SeenAsIs

LEMMA PushSeen ==
  ASSUME IInv, IInv', ProgramRuns, NEW frame, stack' = Append(stack, frame), ~Pending(frame)
  PROVE  /\ CallbackMapSeen = callbackMap /\ RequestsSeen = requests
         /\ CallbackMapSeen' = callbackMap' /\ RequestsSeen' = requests'
<1>1. stack'[Len(stack')] = frame
  BY DEF IInv, TypeOK
<1>2. QED BY <1>1, NonePendingSeen

\* Taking the id is where callCb happens.
LEMMA CallCbMaps ==
  ASSUME IInv, IInv', NEW b \in Bases, CallCb(b)
  PROVE  Client!CallCb(b)
<1> DEFINE frame == [is |-> "callCb", base |-> b, call |-> Table!ThisCall, at |-> "emplace"]
<1>1. /\ ProgramRuns /\ stack' = Append(stack, frame) /\ Table!TakeId(b)
      /\ UNCHANGED <<callbackMap, requests, results, runs>>
  BY DEF CallCb, Push
<1>2. CallbackMapSeen = callbackMap /\ RequestsSeen = requests
  <2>1. stack # <<>> => ~Pending(Top)
    BY <1>1 DEF ProgramRuns
  <2>2. QED BY <2>1, SeenAsIs
<1>3. /\ stack' # <<>> /\ stack'[Len(stack')] = frame
      /\ frame.is = "callCb" /\ frame.at = "emplace" /\ frame.base = b
      /\ frame.call = Table!ThisCall
  <2>1. /\ frame.is = "callCb" /\ frame.at = "emplace" /\ frame.base = b
        /\ frame.call = Table!ThisCall
    OBVIOUS
  <2> HIDE DEF frame
  <2>2. stack' # <<>> /\ stack'[Len(stack')] = frame
    BY <1>1 DEF IInv, TypeOK
  <2>3. QED BY <2>1, <2>2
<1>4. PendingIn({"emplace"})' /\ PendingIn({"emplace", "send"})' /\ Top' = frame
  BY <1>3 DEF PendingIn, Pending, Top
<1>5. rpcid'[b] = Table!GenId
  BY <1>1 DEF Table!TakeId, IInv, TypeOK, Table!TypeOK
<1>6. CallbackMapSeen' =
        IF callbackMap[b][Table!GenId] = NoCallback
        THEN [callbackMap EXCEPT ![b][Table!GenId] = [by |-> "callCb", of |-> Table!ThisCall]]
        ELSE callbackMap
  <2> HIDE DEF frame
  <2>1. QED BY <1>1, <1>3, <1>4, <1>5 DEF CallbackMapSeen
<1>7. RequestsSeen' =
        requests \cup {[rpcid |-> Table!Wire(Table!GenId), call |-> Table!ThisCall]}
  <2> HIDE DEF frame
  <2>1. RequestsSeen' = requests' \cup {[rpcid |-> Table!Wire(rpcid[Top.base])',
                                        call |-> Top'.call]}
    BY <1>4 DEF RequestsSeen
  <2>2. Table!Wire(rpcid[Top.base])' = Table!Wire(Table!GenId)
    BY <1>3, <1>4, <1>5 DEF Table!Wire
  <2>3. QED BY <1>1, <1>3, <1>4, <2>1, <2>2
<1>8. Client!TakeId(b)
  BY <1>1 DEF Table!TakeId, Client!TakeId, Table!GenId, Client!GenId,
     Table!ThisCall, Client!ThisCall, Table!IdModulus, Client!IdModulus
<1>9. Table!GenId = Client!GenId /\ Table!ThisCall = Client!ThisCall
      /\ Table!Wire(Table!GenId) = Client!Wire(Client!GenId)
  BY DEF Table!GenId, Client!GenId, Table!ThisCall, Client!ThisCall, Table!Wire, Client!Wire,
     Table!IdModulus, Client!IdModulus
<1>10. Client!Emplace(b, Client!GenId, [by |-> "callCb", of |-> Client!ThisCall])
  BY <1>2, <1>6, <1>9 DEF Client!Emplace
<1>11. Client!Send([rpcid |-> Client!Wire(Client!GenId), call |-> Client!ThisCall])
  BY <1>2, <1>7, <1>9 DEF Client!Send
<1>12. QED BY <1>1, <1>8, <1>10, <1>11 DEF Client!CallCb

\* Registering and sending were already seen.
LEMMA LinesUnseen ==
  ASSUME IInv, IInv', Register \/ SendMsg
  PROVE  UNCHANGED Client!vars
<1>1. PICK line \in {"emplace", "send"} : At(line)
  BY DEF Register, SendMsg
<1>2. /\ stack \in Seq(Frames) /\ Len(stack) \in Nat /\ Len(stack) \in DOMAIN stack
      /\ stack # <<>> /\ Pending(Top) /\ Top.at = line /\ Top.is = "callCb"
      /\ Top = stack[Len(stack)]
      /\ Top = [is |-> "callCb", base |-> Top.base, call |-> Top.call, at |-> line]
  BY <1>1, PendingTop DEF IInv, TypeOK, At
<1>3. UNCHANGED <<curId, rpcid, results, caller, lastCall, runs>>
  BY DEF Register, SendMsg
<1>4. ASSUME NEW next, GoTo(next)
      PROVE  /\ stack' # <<>> /\ Top'.is = "callCb" /\ Top'.at = next
             /\ Top'.base = Top.base /\ Top'.call = Top.call
  <2>1. [Top EXCEPT !.at = next] =
          [is |-> "callCb", base |-> Top.base, call |-> Top.call, at |-> next]
    BY <1>2
  <2>2. stack' = [stack EXCEPT ![Len(stack)] = [Top EXCEPT !.at = next]]
    BY <1>2, <1>4 DEF GoTo, Top
  <2>3. Len(stack') = Len(stack) /\ stack'[Len(stack')] = [Top EXCEPT !.at = next]
        /\ stack' # <<>>
    <3>1. DOMAIN stack' = DOMAIN stack /\ stack'[Len(stack)] = [Top EXCEPT !.at = next]
      BY <1>2, <2>2
    <3>2. Len(stack') = Len(stack)
      <4>1. stack' \in Seq(Frames)
        BY DEF IInv, TypeOK
      <4>2. QED BY <1>2, <3>1, <4>1
    <3>3. QED BY <1>2, <3>1, <3>2
  <2>4. Top' = stack'[Len(stack')]
    BY DEF Top
  <2>5. QED BY <2>1, <2>3, <2>4
<1>5. CASE Register
  <2>1. /\ Top.at = "emplace" /\ GoTo("send")
        /\ Table!Emplace(Top.base, rpcid[Top.base], [by |-> "callCb", of |-> Top.call])
        /\ UNCHANGED requests
    BY <1>5 DEF Register, At
  <2>2. stack' # <<>> /\ Top'.is = "callCb" /\ Top'.at = "send"
        /\ Top'.base = Top.base /\ Top'.call = Top.call
    BY <1>4, <2>1
  <2>3. CallbackMapSeen' = callbackMap'
    BY <2>2 DEF CallbackMapSeen, PendingIn
  <2>4. CallbackMapSeen = callbackMap'
    BY <1>2, <2>1 DEF CallbackMapSeen, PendingIn, Table!Emplace
  <2>5. RequestsSeen' = RequestsSeen
    <3>1. PendingIn({"emplace", "send"}) /\ PendingIn({"emplace", "send"})'
      BY <1>2, <2>1, <2>2 DEF PendingIn, Pending
    <3>2. Table!Wire(rpcid[Top.base])' = Table!Wire(rpcid[Top.base])
      BY <1>3, <2>2 DEF Table!Wire
    <3>3. QED BY <2>1, <2>2, <3>1, <3>2 DEF RequestsSeen
  <2>6. QED BY <1>3, <2>3, <2>4, <2>5 DEF Client!vars
<1>6. CASE SendMsg
  <2>1. /\ Top.at = "send" /\ GoTo("sendMsg") /\ callbackMap' = callbackMap
        /\ requests' = requests \cup {[rpcid |-> Table!Wire(rpcid[Top.base]), call |-> Top.call]}
    BY <1>6 DEF SendMsg, At, Table!Send
  <2>2. stack' # <<>> /\ Top'.is = "callCb" /\ Top'.at = "sendMsg"
    BY <1>4, <2>1
  <2>3. CallbackMapSeen' = callbackMap' /\ RequestsSeen' = requests'
    BY <2>2 DEF CallbackMapSeen, RequestsSeen, PendingIn, Pending
  <2>4. CallbackMapSeen = callbackMap
    BY <2>1 DEF CallbackMapSeen, PendingIn
  <2>5. RequestsSeen = requests'
    BY <1>2, <2>1 DEF RequestsSeen, PendingIn
  <2>6. QED BY <1>3, <2>1, <2>3, <2>4, <2>5 DEF Client!vars
<1>7. QED BY <1>5, <1>6

LEMMA StepMaps ==
  ASSUME IInv, IInv', [Next]_vars
  PROVE  [Client!Next]_(Client!vars)
<1> DEFINE TablesSeenAsIs ==
      /\ CallbackMapSeen = callbackMap /\ RequestsSeen = requests
      /\ CallbackMapSeen' = callbackMap' /\ RequestsSeen' = requests'
\* callCb, from its id to its request.
<1>1. ASSUME NEW b \in Bases, CallCb(b) PROVE Client!Next
  BY <1>1, CallCbMaps DEF Client!Next
<1>2. CASE Register \/ SendMsg
  BY <1>2, LinesUnseen
\* The other operations on the tables.
<1>3. ASSUME ProgramRuns, UNCHANGED stack PROVE TablesSeenAsIs
  BY <1>3, NonePendingSeen
<1>4. ASSUME NEW b \in Bases, CallCmd(b) PROVE Client!TakeIdOnly(b)
  <2>1. TablesSeenAsIs
    BY <1>3, <1>4 DEF CallCmd, frameVars
  <2>2. QED BY <1>4, <2>1
        DEF CallCmd, Table!TakeIdOnly, Client!TakeIdOnly, Table!TakeId, Client!TakeId,
            Table!GenId, Client!GenId, Table!ThisCall, Client!ThisCall,
            Table!IdModulus, Client!IdModulus
<1>5. ASSUME NEW b \in Bases, CallCbCmd(b) PROVE Client!CallCbCmd(b)
  <2>1. TablesSeenAsIs
    BY <1>3, <1>5 DEF CallCbCmd, frameVars
  <2>2. QED BY <1>5, <2>1
        DEF CallCbCmd, Table!CallCbCmd, Client!CallCbCmd, Table!TakeId, Client!TakeId,
            Table!GenId, Client!GenId, Table!ThisCall, Client!ThisCall,
            Table!IdModulus, Client!IdModulus, Table!Emplace, Client!Emplace
<1>6. ASSUME NEW b \in Bases, NEW id \in HookIds, TestRegisterCB(b, id)
      PROVE  Client!TestRegisterCB(b, id)
  <2>1. TablesSeenAsIs
    BY <1>3, <1>6 DEF TestRegisterCB, frameVars
  <2>2. QED BY <1>6, <2>1
        DEF TestRegisterCB, Table!TestRegisterCB, Client!TestRegisterCB,
            Table!Emplace, Client!Emplace
<1>7. ASSUME NEW b \in Bases, NEW data \in Payloads, AnswerCurrent(b, data)
      PROVE  Client!AnswerCurrent(b, data)
  <2>1. TablesSeenAsIs
    BY <1>3, <1>7 DEF AnswerCurrent, frameVars
  <2>2. QED BY <1>7, <2>1
        DEF AnswerCurrent, Table!AnswerCurrent, Client!AnswerCurrent, Table!Wire, Client!Wire,
            Table!Cardinality, Client!Cardinality
<1>8. ASSUME NEW b \in Bases, NEW retMsg \in results, DealResult(b, retMsg)
      PROVE  Client!DealResult(b, retMsg)
  <2> DEFINE frame == [is |-> "callback", base |-> b, id |-> retMsg.rpcid,
                       found |-> callbackMap[b][retMsg.rpcid]]
  <2>1. ProgramRuns /\ stack' = Append(stack, frame) /\ Table!DealResult(b, retMsg)
    BY <1>8 DEF DealResult, Push
  <2>2. ~Pending(frame)
    BY DEF Pending
  <2> HIDE DEF frame
  <2>3. TablesSeenAsIs
    BY <2>1, <2>2, PushSeen
  <2>4. QED BY <2>1, <2>3
        DEF Table!DealResult, Client!DealResult, Table!CStr, Client!CStr, Table!Nul, Client!Nul
<1>9. ASSUME NEW request \in requests, NEW state \in {0, 1}, NEW data \in Payloads,
             Answer(request, state, data)
      PROVE  Client!Next
  <2>1. CallbackMapSeen' = CallbackMapSeen /\ RequestsSeen' = RequestsSeen
    BY <1>9 DEF Answer, Table!Answer, frameVars, CallbackMapSeen, RequestsSeen, PendingIn,
       Pending, Top, Table!Wire
  <2>2. request \in RequestsSeen
    BY DEF RequestsSeen
  <2>3. Client!Answer(request, state, data)
    BY <1>9, <2>1 DEF Answer, Table!Answer, Client!Answer,
       Table!Cardinality, Client!Cardinality
  <2>4. QED BY <2>2, <2>3 DEF Client!Next
\* A dispatch, with an id or without.
<1>10. ASSUME NEW b \in Bases, NEW type \in Types, NEW fits \in BOOLEAN, ProgramRuns,
              Dispatch(b, type, fits)
       PROVE  TablesSeenAsIs
  <2> DEFINE frame == [is |-> "handler", base |-> b, type |-> type,
                       kind |-> functionMap[b][type]]
  <2>1. UNCHANGED stack \/ stack' = Append(stack, frame)
    BY <1>10 DEF Dispatch, Push
  <2>2. ~Pending(frame)
    BY DEF Pending
  <2> HIDE DEF frame
  <2>3. QED BY <1>3, <1>10, <2>1, <2>2, PushSeen
<1>11. ASSUME NEW b \in Bases, NEW type \in Types, NEW fits \in BOOLEAN,
              Route(b, type, fits)
       PROVE  UNCHANGED Client!vars
  BY <1>10, <1>11 DEF Route, clientVars, Client!vars
<1>12. ASSUME NEW b \in Bases, NEW type \in Types, NEW fits \in BOOLEAN,
              Call(b, type, fits)
       PROVE  Client!TakeIdOnly(b)
  BY <1>10, <1>12
  DEF Call, Client!TakeIdOnly, Table!TakeId, Client!TakeId,
      Table!GenId, Client!GenId, Table!ThisCall, Client!ThisCall,
      Table!IdModulus, Client!IdModulus
\* What only the stack, the handlers and the exception see.
<1>13. ASSUME \/ \E b \in Bases, type \in Types, kind \in Kinds : Bind(b, type, kind)
              \/ \E exception \in Exceptions : Throw(exception)
              \/ Return \/ ProgramCatches \/ ApplyCatches \/ Unwind \/ Escape
       PROVE  UNCHANGED Client!vars
  <2>1. UNCHANGED clientVars
    BY <1>13 DEF Bind, Throw, Return, ProgramCatches, ApplyCatches, Unwind, Escape
  <2>2. /\ ProgramRuns \/ raised # NoException
        /\ stack' \in {stack, Pop}
    BY <1>13 DEF Bind, Throw, Return, ProgramCatches, ApplyCatches, Unwind, Escape,
       Caught, StdExceptions, NoException
  <2>3. QED BY <2>1, <2>2, NonePendingSeen DEF clientVars, Client!vars
<1>14. CASE UNCHANGED vars
  BY <1>14 DEF vars, clientVars, frameVars, Client!vars, CallbackMapSeen, RequestsSeen,
     PendingIn, Pending, Top, Table!Wire
<1> HIDE DEF TablesSeenAsIs
<1>15. QED
  <2>1. ASSUME NEW b \in Bases,
               \/ CallCmd(b) \/ CallCbCmd(b)
               \/ \E id \in HookIds : TestRegisterCB(b, id)
               \/ \E data \in Payloads : AnswerCurrent(b, data)
               \/ \E retMsg \in results : DealResult(b, retMsg)
        PROVE  Client!Next
    BY <1>4, <1>5, <1>6, <1>7, <1>8, <2>1 DEF Client!Next
  <2>2. ASSUME NEW b \in Bases, NEW type \in Types, NEW fits \in BOOLEAN,
               Route(b, type, fits) \/ Call(b, type, fits)
        PROVE  [Client!Next]_(Client!vars)
    BY <1>11, <1>12, <2>2 DEF Client!Next
  <2>3. QED BY <1>1, <1>2, <1>9, <1>13, <1>14, <2>1, <2>2 DEF Next

LEMMA InitMaps == Init => Client!Init
<1> SUFFICES ASSUME Init PROVE Client!Init
  OBVIOUS
<1>1. CallbackMapSeen = callbackMap /\ RequestsSeen = requests
  BY DEF Init, CallbackMapSeen, RequestsSeen, PendingIn
<1>2. QED BY <1>1 DEF Init, Table!Init, Client!Init, Table!Ids, Client!Ids,
     Table!IdModulus, Client!IdModulus

\* What callCb does in steps, with the program's code between them, and what
\* exceptions leave undone, is to the tables one step or none
\* (RpcBase.h:168-182, :233-253).
THEOREM Implements == Spec => ImplementsClient
<1>1. Init => Client!Init
  BY InitMaps
<1>2. IInv /\ IInv' /\ [Next]_vars => [Client!Next]_(Client!vars)
  BY StepMaps
<1>3. QED BY <1>1, <1>2, Invariance, PTL DEF Spec, ImplementsClient, Client!Spec

\* RpcClient is the same specification under the name its proofs have here.
LEMMA SameActions ==
  /\ Client!Init => Calls!Init
  /\ [Client!Next]_(Client!vars) => [Calls!Next]_(Calls!vars)
<1>1. \A b \in Bases :
        /\ Client!TakeId(b) <=> Calls!TakeId(b)
        /\ \A id, registration :
             Client!Emplace(b, id, registration) <=> Calls!Emplace(b, id, registration)
        /\ \A data : Client!AnswerCurrent(b, data) <=> Calls!AnswerCurrent(b, data)
        /\ \A retMsg : Client!DealResult(b, retMsg) <=> Calls!DealResult(b, retMsg)
  BY DEF Client!TakeId, Calls!TakeId, Client!GenId, Calls!GenId, Client!ThisCall,
     Calls!ThisCall, Client!IdModulus, Calls!IdModulus, Client!Emplace, Calls!Emplace,
     Client!AnswerCurrent, Calls!AnswerCurrent, Client!Wire, Calls!Wire,
     Client!Cardinality, Calls!Cardinality, Client!DealResult, Calls!DealResult,
     Client!CStr, Calls!CStr, Client!Nul, Calls!Nul
<1>2. \A request, state, data :
        Client!Answer(request, state, data) <=> Calls!Answer(request, state, data)
  BY DEF Client!Answer, Calls!Answer, Client!Cardinality, Calls!Cardinality
<1>3. \A request : Client!Send(request) <=> Calls!Send(request)
  BY DEF Client!Send, Calls!Send
<1>4. Client!GenId = Calls!GenId /\ Client!ThisCall = Calls!ThisCall
      /\ \A id : Client!Wire(id) = Calls!Wire(id)
  BY DEF Client!GenId, Calls!GenId, Client!IdModulus, Calls!IdModulus, Client!ThisCall,
     Calls!ThisCall, Client!Wire, Calls!Wire
<1>5. UNCHANGED Client!vars => UNCHANGED Calls!vars
  BY DEF Client!vars, Calls!vars
<1>6. \A b \in Bases :
        /\ Client!TakeIdOnly(b) => Calls!TakeIdOnly(b)
        /\ Client!CallCb(b) => Calls!CallCb(b)
        /\ Client!CallCbCmd(b) => Calls!CallCbCmd(b)
        /\ \A id : Client!TestRegisterCB(b, id) => Calls!TestRegisterCB(b, id)
  BY <1>1, <1>3, <1>4
  DEF Client!TakeIdOnly, Calls!TakeIdOnly, Client!CallCb, Calls!CallCb,
      Client!CallCbCmd, Calls!CallCbCmd, Client!TestRegisterCB, Calls!TestRegisterCB
<1>7. Client!Next => Calls!Next
  BY <1>1, <1>2, <1>6 DEF Client!Next, Calls!Next
<1>8. Client!Init => Calls!Init
  BY DEF Client!Init, Calls!Init, Client!Ids, Calls!Ids, Client!IdModulus, Calls!IdModulus
<1>9. QED BY <1>5, <1>7, <1>8

LEMMA CallsInvariance == Spec => []Calls!IInv
<1>1. Client!Init => Calls!Init
  BY SameActions
<1>2. [Client!Next]_(Client!vars) => [Calls!Next]_(Calls!vars)
  BY SameActions
<1>3. Client!Spec => Calls!Spec
  BY <1>1, <1>2, PTL DEF Client!Spec, Calls!Spec
<1>4. Calls!Spec => []Calls!IInv
  BY Calls!Invariance, ClientAssumption
  DEF Calls!IdModulus, Table!IdModulus, Calls!Registrations, Table!Registrations
<1>5. Spec => Client!Spec
  BY Implements DEF ImplementsClient
<1>6. QED BY <1>3, <1>4, <1>5, PTL

----------------------------------------------------------------------------
(***************************************************************************)
(* Theorems.                                                               *)
(***************************************************************************)

\* The variables of the objects and of the stack keep their types
\* (RpcBase.h, RpcInvoker.h).
THEOREM TypeCorrect == Spec => []TypeOK
<1>1. IInv => TypeOK
  BY DEF IInv
<1>2. QED BY <1>1, Invariance, PTL

\* The entry a callback runs through stays its entry until it is done
\* (RpcBase.h:246).
THEOREM Running == Spec => []RunningIsRegistered
<1>1. IInv => RunningIsRegistered
  BY DEF IInv
<1>2. QED BY <1>1, Invariance, PTL

\* However calls, callbacks and exceptions nest, below 2^32 calls a result
\* runs the callback of its own call (RpcBase.h:168-182, :233-247).
THEOREM OwnCallback == Spec => []Table!NoCrossTalk
<1>1. Client!Init => Calls!Init
  BY SameActions
<1>2. [Client!Next]_(Client!vars) => [Calls!Next]_(Calls!vars)
  BY SameActions
<1>3. Client!Spec => Calls!Spec
  BY <1>1, <1>2, PTL DEF Client!Spec, Calls!Spec
<1>4. Calls!Spec => []Calls!NoCrossTalk
  BY Calls!OwnCallback, ClientAssumption
  DEF Calls!IdModulus, Table!IdModulus, Calls!Registrations, Table!Registrations
<1>5. Calls!NoCrossTalk => Table!NoCrossTalk
  BY DEF Calls!NoCrossTalk, Table!NoCrossTalk
<1>6. Spec => Client!Spec
  BY Implements DEF ImplementsClient
<1>7. QED BY <1>3, <1>4, <1>5, <1>6, PTL

(***************************************************************************)
(* What is sent has its entry: a frame of callCb that has registered found *)
(* no entry under its call's id but one of its own call.                   *)
(***************************************************************************)
SentIsRegistered ==
  \A i \in DOMAIN stack :
    (stack[i].is = "callCb" /\ stack[i].at \in {"send", "sendMsg"}
       /\ stack[i].call < WireModulus) =>
      /\ stack[i].call \in Table!Ids /\ stack[i].base \in Bases
      /\ callbackMap[stack[i].base][stack[i].call] # NoCallback
      /\ callbackMap[stack[i].base][stack[i].call].of = stack[i].call

\* While callCb has a line to run the member rpcid holds its call's id.
LEMMA PendingId ==
  ASSUME IInv, Calls!IInv, NEW line, At(line), Top.call < WireModulus
  PROVE  Top.call \in Table!Ids /\ rpcid[Top.base] = Top.call
<1>1. /\ Top.base \in Bases /\ Top.call \in Nat /\ rpcid[Top.base] \in Table!Ids
      /\ Top.call = lastCall[Top.base]
  BY PendingTop
<1>2. rpcid[Top.base] = lastCall[Top.base] % Calls!IdModulus
  BY <1>1 DEF Calls!IInv, Calls!CallsNumbered
<1>3. Top.call \in Table!WireIds
  BY <1>1, IdsType DEF Table!WireIds
<1>4. Top.call \in Table!Ids
  BY <1>3, IdsType
<1>5. Top.call % Table!IdModulus = Top.call
  BY <1>4, IdsType DEF Table!Ids
<1>6. QED BY <1>1, <1>2, <1>4, <1>5 DEF Calls!IdModulus, Table!IdModulus

\* Where callCb registers, an entry that is there is its call's already (a
\* test registered it).
LEMMA RegisterEffect ==
  ASSUME IInv, Calls!IInv, Register, Top.call < WireModulus
  PROVE  /\ Top.call \in Table!Ids /\ Top.base \in Bases
         /\ callbackMap'[Top.base][Top.call] # NoCallback
         /\ callbackMap'[Top.base][Top.call].of = Top.call
<1> DEFINE registration == [by |-> "callCb", of |-> Top.call]
           entry == callbackMap[Top.base][rpcid[Top.base]]
<1>1. /\ Top.base \in Bases /\ Top.call \in Nat /\ rpcid[Top.base] \in Table!Ids
      /\ registration \in Table!Registrations
      /\ Top.call = Len(caller) /\ Top.call = lastCall[Top.base]
      /\ Table!Emplace(Top.base, rpcid[Top.base], registration)
      /\ Pending(Top) /\ stack # <<>> /\ Top.at = "emplace"
  BY PendingTop DEF Register, At
<1>2. Top.call \in Table!Ids /\ rpcid[Top.base] = Top.call
  BY PendingId DEF Register
<1>3. registration.of = Top.call
  OBVIOUS
<1> HIDE DEF registration
<1>4. /\ callbackMap'[Top.base][rpcid[Top.base]] # NoCallback
      /\ callbackMap'[Top.base][rpcid[Top.base]] =
           IF entry = NoCallback THEN registration ELSE entry
  BY <1>1, EmplaceEffect DEF IInv, TypeOK
<1>5. ASSUME entry # NoCallback PROVE entry.of = Top.call
  <2>1. CallbackMapSeen = callbackMap
    BY <1>5 DEF CallbackMapSeen
  <2>2. Top.call \in Calls!Ids
    BY <1>1, <1>2 DEF Table!Ids, Calls!Ids, Table!IdModulus, Calls!IdModulus
  <2>3. entry.of % Calls!IdModulus = Top.call /\ Calls!Keyed(Top.base, entry)
    BY <1>1, <1>2, <1>5, <2>1, <2>2 DEF Calls!IInv, Calls!TableKeyed
  <2>4. entry.of \in Calls!Ids
    <3>1. CASE entry.by = "testRegisterCB"
      BY <2>3, <3>1, ClientAssumption
      DEF Calls!Keyed, Calls!Ids, Calls!IdModulus, Table!IdModulus
    <3>2. CASE entry.by # "testRegisterCB"
      <4>1. entry.of \in 1 .. Len(caller)
        BY <2>3, <3>2 DEF Calls!Keyed, IInv, TypeOK, Table!TypeOK
      <4>2. QED BY <1>1, <2>2, <4>1, IdsType DEF Calls!Ids, Calls!IdModulus, Table!IdModulus
    <3>3. QED BY <3>1, <3>2
  <2>5. entry.of % Calls!IdModulus = entry.of
    BY <2>4, IdsType DEF Calls!Ids, Calls!IdModulus, Table!IdModulus
  <2>6. QED BY <2>3, <2>5
<1>6. QED BY <1>1, <1>2, <1>3, <1>4, <1>5

LEMMA NextSent ==
  ASSUME IInv, IInv', Calls!IInv, SentIsRegistered, [Next]_vars
  PROVE  SentIsRegistered'
<1>1. EntriesStay
  BY TablesStay
<1>2. stack \in Seq(Frames) /\ Len(stack) \in Nat /\ DOMAIN stack = 1 .. Len(stack)
  BY DEF IInv, TypeOK
\* The frames that were there before.
<1>3. ASSUME NEW i \in DOMAIN stack', i \in DOMAIN stack, stack'[i] = stack[i],
             stack'[i].is = "callCb", stack'[i].at \in {"send", "sendMsg"},
             stack'[i].call < WireModulus
      PROVE  /\ stack'[i].call \in Table!Ids /\ stack'[i].base \in Bases
             /\ callbackMap'[stack'[i].base][stack'[i].call] # NoCallback
             /\ callbackMap'[stack'[i].base][stack'[i].call].of = stack'[i].call
  BY <1>1, <1>3 DEF SentIsRegistered, EntriesStay
<1>4. ASSUME UNCHANGED stack PROVE SentIsRegistered'
  BY <1>3, <1>4 DEF SentIsRegistered
<1>5. ASSUME stack # <<>>, stack' = Pop PROVE SentIsRegistered'
  <2>1. /\ DOMAIN Pop \subseteq DOMAIN stack
        /\ \A i \in DOMAIN Pop : Pop[i] = stack[i]
    BY <1>2, <1>5 DEF Pop
  <2>2. QED BY <1>3, <1>5, <2>1 DEF SentIsRegistered
<1>6. ASSUME NEW frame, Push(frame), frame.is = "callCb" => frame.at = "emplace"
      PROVE  SentIsRegistered'
  <2>1. \A i \in DOMAIN stack' :
          (i \in DOMAIN stack /\ stack'[i] = stack[i]) \/ stack'[i] = frame
    BY <1>2, <1>6 DEF Push
  <2>2. QED BY <1>3, <1>6, <2>1 DEF SentIsRegistered
<1>7. ASSUME NEW next, GoTo(next), NEW line, At(line),
             (next \in {"send", "sendMsg"} /\ Top.call < WireModulus) =>
               /\ Top.call \in Table!Ids /\ Top.base \in Bases
               /\ callbackMap'[Top.base][Top.call] # NoCallback
               /\ callbackMap'[Top.base][Top.call].of = Top.call
      PROVE  SentIsRegistered'
  <2>1. Top = [is |-> "callCb", base |-> Top.base, call |-> Top.call, at |-> line]
        /\ Len(stack) \in DOMAIN stack
    BY <1>7, PendingTop
  <2>2. stack' = [stack EXCEPT ![Len(stack)] = [Top EXCEPT !.at = next]]
    BY <1>2, <1>7, <2>1 DEF GoTo, Top
  <2>3. [Top EXCEPT !.at = next] =
          [is |-> "callCb", base |-> Top.base, call |-> Top.call, at |-> next]
    BY <2>1
  <2>4. \A i \in DOMAIN stack' :
          \/ i \in DOMAIN stack /\ stack'[i] = stack[i]
          \/ stack'[i] = [is |-> "callCb", base |-> Top.base, call |-> Top.call, at |-> next]
    BY <1>2, <2>1, <2>2, <2>3
  <2>5. QED BY <1>3, <1>7, <2>4 DEF SentIsRegistered
<1>8. CASE Register
  BY <1>7, <1>8, RegisterEffect DEF Register
<1>9. CASE SendMsg
  <2>1. At("send") /\ GoTo("sendMsg") /\ callbackMap' = callbackMap
    BY <1>9 DEF SendMsg
  <2>2. Len(stack) \in DOMAIN stack /\ stack[Len(stack)] = Top
        /\ Top.is = "callCb" /\ Top.at = "send"
    BY <2>1, PendingTop
  <2>3. QED BY <1>7, <2>1, <2>2 DEF SentIsRegistered
<1>10. ASSUME NEW b \in Bases, CallCb(b) PROVE SentIsRegistered'
  BY <1>6, <1>10 DEF CallCb
<1>11. ASSUME NEW b \in Bases, NEW retMsg \in results, DealResult(b, retMsg)
       PROVE  SentIsRegistered'
  BY <1>6, <1>11 DEF DealResult
<1>12. ASSUME NEW b \in Bases, NEW type \in Types, NEW fits \in BOOLEAN,
              Route(b, type, fits) \/ Call(b, type, fits)
       PROVE  SentIsRegistered'
  <2>1. Dispatch(b, type, fits)
    BY <1>12 DEF Route, Call
  <2>2. QED BY <1>4, <1>6, <2>1 DEF Dispatch
<1>13. CASE Return \/ ApplyCatches \/ Unwind
  BY <1>5, <1>13 DEF Return, ApplyCatches, Unwind
<1>14. ASSUME \/ \E b \in Bases :
                   \/ CallCmd(b) \/ CallCbCmd(b)
                   \/ \E id \in HookIds : TestRegisterCB(b, id)
                   \/ \E data \in Payloads : AnswerCurrent(b, data)
                   \/ \E type \in Types, kind \in Kinds : Bind(b, type, kind)
              \/ \E request \in requests, state \in {0, 1}, data \in Payloads :
                   Answer(request, state, data)
              \/ \E exception \in Exceptions : Throw(exception)
              \/ ProgramCatches \/ Escape \/ UNCHANGED vars
       PROVE  UNCHANGED stack
  BY <1>14 DEF CallCmd, CallCbCmd, TestRegisterCB, AnswerCurrent, Bind, Answer, Throw,
     ProgramCatches, Escape, vars, frameVars
<1>15. QED
  BY <1>4, <1>8, <1>9, <1>10, <1>11, <1>12, <1>13, <1>14 DEF Next

\* A result that comes while its call is still being sent finds the entry of
\* its own call, whatever runs inside sendMsg (RpcBase.h:174, :181, :242).
THEOREM Answerable == Spec => []AnswerableWhileSending
<1>1. Init => SentIsRegistered
  BY DEF Init, SentIsRegistered
<1>2. IInv /\ IInv' /\ Calls!IInv /\ SentIsRegistered /\ [Next]_vars => SentIsRegistered'
  BY NextSent
<1>3. SentIsRegistered => AnswerableWhileSending
  BY DEF SentIsRegistered, AnswerableWhileSending
<1>4. QED BY <1>1, <1>2, <1>3, Invariance, CallsInvariance, PTL DEF Spec

\* Calls are added to the ledger of who made them, and none is changed.
LEMMA CallerStays ==
  ASSUME IInv, [Next]_vars, NEW n \in DOMAIN caller
  PROVE  caller'[n] = caller[n]
<1>1. caller \in Seq(Bases)
  BY DEF IInv, TypeOK, Table!TypeOK
<1>2. ASSUME NEW b \in Bases, Table!TakeId(b) PROVE caller'[n] = caller[n]
  BY <1>1, <1>2 DEF Table!TakeId
<1>3. ASSUME NEW b \in Bases,
             \/ CallCb(b) \/ CallCmd(b) \/ CallCbCmd(b)
             \/ \E type \in Types, fits \in BOOLEAN : Call(b, type, fits)
      PROVE  Table!TakeId(b)
  BY <1>3 DEF CallCb, CallCmd, CallCbCmd, Call, Table!TakeIdOnly, Table!CallCbCmd
<1>4. ASSUME \/ \E b \in Bases :
                  \/ \E id \in HookIds : TestRegisterCB(b, id)
                  \/ \E data \in Payloads : AnswerCurrent(b, data)
                  \/ \E retMsg \in results : DealResult(b, retMsg)
                  \/ \E type \in Types :
                       \/ \E kind \in Kinds : Bind(b, type, kind)
                       \/ \E fits \in BOOLEAN : Route(b, type, fits)
             \/ Register \/ SendMsg
             \/ \E request \in requests, state \in {0, 1}, data \in Payloads :
                  Answer(request, state, data)
             \/ \E exception \in Exceptions : Throw(exception)
             \/ Return \/ ProgramCatches \/ ApplyCatches \/ Unwind \/ Escape
             \/ UNCHANGED vars
      PROVE  caller' = caller
  BY <1>4 DEF TestRegisterCB, AnswerCurrent, DealResult, Bind, Route, Register, SendMsg,
     Answer, Throw, Return, ProgramCatches, ApplyCatches, Unwind, Escape, vars, clientVars,
     Table!TestRegisterCB, Table!AnswerCurrent, Table!DealResult, Table!Answer
<1>5. QED BY <1>2, <1>3, <1>4 DEF Next

\* Only callCb's sendMsg puts a request on the wire.
LEMMA RequestsGrow ==
  ASSUME [Next]_vars, ~SendMsg
  PROVE  requests' = requests
BY DEF Next, CallCb, CallCmd, CallCbCmd, TestRegisterCB, AnswerCurrent, DealResult, Bind,
   Route, Call, Register, Answer, Throw, Return, ProgramCatches, ApplyCatches, Unwind,
   Escape, vars, clientVars, Table!TakeIdOnly, Table!CallCbCmd, Table!TestRegisterCB,
   Table!AnswerCurrent, Table!DealResult, Table!Answer

LEMMA NextAnswerable ==
  ASSUME IInv, Calls!IInv, SentIsRegistered, SentStaysAnswerable, [Next]_vars
  PROVE  SentStaysAnswerable'
<1> SUFFICES ASSUME NEW request \in requests', request.call < WireModulus
             PROVE  LET found == callbackMap'[caller'[request.call]][request.rpcid] IN
                    found # NoCallback /\ found.of = request.call
  BY DEF SentStaysAnswerable
\* What was on the wire already keeps its caller and its entry.
<1>1. CASE request \in requests
  <2>1. request.call \in DOMAIN caller
    BY <1>1 DEF Calls!IInv, Calls!RequestsKeyed, RequestsSeen
  <2>2. request.rpcid \in Table!Ids /\ caller[request.call] \in Bases
    <3>1. requests \subseteq Table!Requests /\ caller \in Seq(Bases)
      BY DEF IInv, TypeOK, Table!TypeOK
    <3>2. request.rpcid \in Table!WireIds
      BY <1>1, <3>1 DEF Table!Requests
    <3>3. caller[request.call] \in Bases
      BY <2>1, <3>1
    <3>4. QED BY <3>2, <3>3, IdsType
  <2>3. caller'[request.call] = caller[request.call]
    BY <2>1, CallerStays
  <2>4. EntriesStay
    BY TablesStay
  <2>5. QED BY <1>1, <2>2, <2>3, <2>4 DEF SentStaysAnswerable, EntriesStay
\* What goes out was registered by its callCb.
<1>2. CASE request \notin requests
  <2>1. SendMsg
    BY <1>2, RequestsGrow
  <2>2. /\ At("send") /\ callbackMap' = callbackMap /\ caller' = caller
        /\ request = [rpcid |-> Table!Wire(rpcid[Top.base]), call |-> Top.call]
    BY <1>2, <2>1 DEF SendMsg, Table!Send
  <2>3. /\ Len(stack) \in DOMAIN stack /\ Top = stack[Len(stack)]
        /\ Top.is = "callCb" /\ Top.at = "send" /\ Top.call \in Nat
        /\ caller[Top.call] = Top.base
    BY <2>2, PendingTop
  <2>4. request.call = Top.call /\ request.rpcid = Table!Wire(rpcid[Top.base])
    BY <2>2
  <2>5. rpcid[Top.base] = Top.call
    BY <2>2, <2>4, PendingId
  <2>6. Table!Wire(Top.call) = Top.call
    BY <2>3, <2>4, IdsType DEF Table!Wire
  <2>7. /\ callbackMap[Top.base][Top.call] # NoCallback
        /\ callbackMap[Top.base][Top.call].of = Top.call
    BY <2>3, <2>4 DEF SentIsRegistered
  <2>8. QED BY <2>2, <2>3, <2>4, <2>5, <2>6, <2>7
<1>3. QED BY <1>1, <1>2

\* A request that went out can still be answered when its callCb has returned
\* or was cut short by an exception (RpcBase.h:174-181): for ids of any width,
\* any nesting and any registrations by tests.
THEOREM StaysAnswerable == Spec => []SentStaysAnswerable
<1>1. Init => SentIsRegistered /\ SentStaysAnswerable
  BY DEF Init, Table!Init, SentIsRegistered, SentStaysAnswerable
<1>2. IInv /\ IInv' /\ Calls!IInv /\ SentIsRegistered /\ [Next]_vars => SentIsRegistered'
  BY NextSent
<1>3. IInv /\ Calls!IInv /\ SentIsRegistered /\ SentStaysAnswerable /\ [Next]_vars
        => SentStaysAnswerable'
  BY NextAnswerable
<1>4. QED BY <1>1, <1>2, <1>3, Invariance, CallsInvariance, PTL DEF Spec
=============================================================================
