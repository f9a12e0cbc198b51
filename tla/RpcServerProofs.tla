--------------------------- MODULE RpcServerProofs ---------------------------
(***************************************************************************)
(* Proofs about RpcServer, for any handlers, messages and depth.           *)
(***************************************************************************)
EXTENDS RpcServer, TLAPS

\* The outermost frame is the one the outermost dispatch entered; applyUser
\* runs no handler, so it has none.
EntryIsOutermost ==
  /\ stack # <<>> => stack[1].handler = entry /\ entry.kind # "applyUser"
  /\ raised # NoException => entry \in Handlers

\* The invokers that let a std::exception through.
LeakyKinds == {"applyMember", "applyUsingCmd", "applyMemUsingCmd"}

\* With no frame left, a std::exception in flight left one of those.
OutermostContains ==
  stack = <<>> /\ raised \in StdExceptions => entry.kind \in LeakyKinds

IInv ==
  /\ TypeOK
  /\ EntryIsOutermost
  /\ OutermostContains
  /\ ApplyContains
  /\ NothingTruncated

\* What a handler gets from a message that unpacks.
Fitting(frame) ==
  frame.handler.kind \in UnpackingKinds =>
    /\ DOMAIN frame.got = DOMAIN frame.handler.parameters
    /\ \A j \in DOMAIN frame.got :
         /\ frame.got[j].is = frame.handler.parameters[j]
         /\ frame.got[j].is = "int" => frame.got[j].of \in IntMin .. IntMax
         /\ j \in DOMAIN frame.data.args => frame.got[j].of = frame.data.args[j].of

LEMMA ParametersType ==
  ASSUME NEW handler \in Handlers
  PROVE  /\ handler.kind \in Kinds
         /\ handler.parameters \in Seq(ParameterTypes)
BY HandlersAssumption

\* unpack yields one argument of its type for each parameter.
LEMMA UnpackType ==
  ASSUME NEW parameters \in Seq(ParameterTypes), NEW data \in Messages
  PROVE  Unpack(parameters, data) \in Seq([is : ParameterTypes, of : Int])
<1>1. data.args \in Seq(Objects)
  BY MessagesAssumption DEF Data
<1>2. DOMAIN parameters = 1 .. Len(parameters) /\ Len(parameters) \in Nat
  OBVIOUS
<1>3. ASSUME NEW i \in DOMAIN parameters
      PROVE  Unpack(parameters, data)[i] \in [is : ParameterTypes, of : Int]
  <2>1. parameters[i] \in ParameterTypes
    BY <1>3
  <2>2. CASE i \in DOMAIN data.args
    <3>1. data.args[i] \in Objects
      BY <1>1, <2>2
    <3>2. QED BY <2>1, <2>2, <3>1 DEF Unpack, Objects
  <2>3. CASE i \notin DOMAIN data.args
    BY <2>1, <2>3 DEF Unpack, DefaultOf
  <2>4. QED BY <2>2, <2>3
<1>4. Unpack(parameters, data) \in [1 .. Len(parameters) -> [is : ParameterTypes, of : Int]]
  BY <1>2, <1>3 DEF Unpack
<1>5. ASSUME NEW S, NEW n \in Nat, NEW f \in [1 .. n -> S] PROVE f \in Seq(S)
  OBVIOUS
<1> DEFINE T == [is : ParameterTypes, of : Int]
           u == Unpack(parameters, data)
<1>6. u \in [1 .. Len(parameters) -> T]
  BY <1>4
<1> HIDE DEF T, u
<1>7. u \in Seq(T)
  BY <1>2, <1>5, <1>6
<1>8. QED BY <1>7 DEF T, u

LEMMA UnpackFits ==
  ASSUME NEW parameters \in Seq(ParameterTypes), NEW data \in Messages,
         Unpacks(parameters, data)
  PROVE  LET got == Unpack(parameters, data) IN
         /\ DOMAIN got = DOMAIN parameters
         /\ \A j \in DOMAIN got :
              /\ got[j].is = parameters[j]
              /\ got[j].is = "int" => got[j].of \in IntMin .. IntMax
              /\ j \in DOMAIN data.args => got[j].of = data.args[j].of
<1> DEFINE got == Unpack(parameters, data)
<1>1. DOMAIN got = DOMAIN parameters
  BY DEF Unpack
<1>2. ASSUME NEW j \in DOMAIN parameters
      PROVE  /\ got[j].is = parameters[j]
             /\ got[j].is = "int" => got[j].of \in IntMin .. IntMax
             /\ j \in DOMAIN data.args => got[j].of = data.args[j].of
  <2>1. CASE j \in DOMAIN data.args
    BY <1>2, <2>1 DEF Unpack, Unpacks, Accepts
  <2>2. CASE j \notin DOMAIN data.args
    <3>1. 0 \in IntMin .. IntMax
      BY MessagesAssumption
    <3>2. QED BY <1>2, <2>2, <3>1 DEF Unpack, DefaultOf
  <2>3. QED BY <2>1, <2>2
<1>3. QED BY <1>1, <1>2

\* The stack after the innermost handler is gone.
LEMMA PopEffect ==
  ASSUME stack \in Seq(Frames), stack # <<>>
  PROVE  /\ Pop \in Seq(Frames)
         /\ Top \in Frames
         /\ DOMAIN Pop \subseteq DOMAIN stack
         /\ \A i \in DOMAIN Pop : Pop[i] = stack[i]
         /\ Pop # <<>> => 1 \in DOMAIN Pop
         /\ Pop = <<>> => Top = stack[1]
<1>1. /\ Len(stack) \in Nat /\ Len(stack) >= 1
      /\ DOMAIN stack = 1 .. Len(stack)
  OBVIOUS
<1>2. /\ Pop \in Seq(Frames) /\ Len(Pop) = Len(stack) - 1
      /\ DOMAIN Pop = 1 .. Len(stack) - 1
      /\ \A i \in DOMAIN Pop : Pop[i] = stack[i]
  BY <1>1 DEF Pop
<1>3. Top \in Frames
  BY <1>1 DEF Top
<1>4. QED BY <1>1, <1>2, <1>3 DEF Top

LEMMA InitIInv == Init => IInv
<1> SUFFICES ASSUME Init PROVE IInv
  OBVIOUS
<1>1. TypeOK
  BY DEF Init, TypeOK, NoException, Exceptions
<1>2. EntryIsOutermost /\ OutermostContains
  BY DEF Init, EntryIsOutermost, OutermostContains, NoException, StdExceptions
<1>3. ApplyContains /\ NothingTruncated
  BY DEF Init, ApplyContains, NothingTruncated
<1>4. QED BY <1>1, <1>2, <1>3 DEF IInv

LEMMA EnterPreserves ==
  ASSUME IInv, NEW type \in Types, NEW data \in Messages, Enter(type, data)
  PROVE  IInv'
<1> DEFINE handler == functionMap[type]
           got == IF handler.kind \in UnpackingKinds
                  THEN Unpack(handler.parameters, data) ELSE <<>>
           frame == [handler |-> handler, data |-> data, got |-> got]
<1>1. /\ TypeOK /\ EntryIsOutermost /\ OutermostContains
      /\ ApplyContains /\ NothingTruncated
  BY DEF IInv
<1>2. handler \in Handlers
  BY <1>1 DEF Enter, Found, TypeOK
<1>3. /\ handler.kind \in UnpackingKinds => Unpacks(handler.parameters, data)
      /\ handler.kind # "applyUser"
      /\ raised = NoException
      /\ stack' = Append(stack, frame)
      /\ entry' = IF stack = <<>> THEN handler ELSE entry
      /\ UNCHANGED <<functionMap, raised, report, escape>>
  BY DEF Enter, Found, UnpackingKinds, CmdKinds
<1> HIDE DEF handler
<1>4. got \in Seq([is : ParameterTypes, of : Int])
  <2>1. CASE handler.kind \in UnpackingKinds
    BY <1>2, <2>1, ParametersType, UnpackType
  <2>2. CASE handler.kind \notin UnpackingKinds
    BY <2>2
  <2>3. QED BY <2>1, <2>2
<1>5. Fitting(frame)
  BY <1>2, <1>3, ParametersType, UnpackFits DEF Fitting
<1> HIDE DEF got
<1>6. frame \in Frames /\ frame.handler = handler
  BY <1>2, <1>4 DEF Frames
<1> HIDE DEF frame
<1>7. /\ stack' \in Seq(Frames) /\ stack \in Seq(Frames)
      /\ DOMAIN stack' = 1 .. Len(stack) + 1
      /\ Len(stack) \in Nat
      /\ \A i \in 1 .. Len(stack) : stack'[i] = stack[i]
      /\ stack'[Len(stack) + 1] = frame
  BY <1>1, <1>3, <1>6 DEF TypeOK
<1>8. TypeOK'
  BY <1>1, <1>2, <1>3, <1>7 DEF TypeOK
<1>9. EntryIsOutermost'
  <2>1. CASE stack = <<>>
    BY <1>2, <1>3, <1>6, <1>7, <2>1 DEF EntryIsOutermost
  <2>2. CASE stack # <<>>
    BY <1>1, <1>3, <1>7, <2>2 DEF EntryIsOutermost
  <2>3. QED BY <2>1, <2>2
<1>10. OutermostContains' /\ ApplyContains'
  BY <1>1, <1>3, <1>7 DEF OutermostContains, ApplyContains, NoException, StdExceptions
<1>11. NothingTruncated'
  <2> SUFFICES ASSUME NEW i \in DOMAIN stack' PROVE Fitting(stack'[i])
    BY DEF NothingTruncated, Fitting
  <2>1. CASE i \in 1 .. Len(stack)
    BY <1>1, <1>7, <2>1 DEF NothingTruncated, Fitting
  <2>2. CASE i = Len(stack) + 1
    BY <1>5, <1>7, <2>2
  <2>3. QED BY <1>7, <2>1, <2>2
<1>12. QED BY <1>8, <1>9, <1>10, <1>11 DEF IInv

LEMMA ReportType ==
  ASSUME NEW handler \in Handlers, NEW ran \in BOOLEAN, NEW result \in Results,
         Report(handler, ran, result)
  PROVE  report' \subseteq [handler : Handlers, ran : BOOLEAN, result : Results]
BY DEF Report

\* The steps that leave the stack as it is.
LEMMA RefusePreserves ==
  ASSUME IInv, NEW type \in Types,
         \/ \E data \in Messages : Refuse(type, data) \/ RefuseMember(type, data)
         \/ IgnoreUser(type)
  PROVE  IInv'
<1>1. /\ TypeOK /\ EntryIsOutermost /\ OutermostContains
      /\ ApplyContains /\ NothingTruncated
  BY DEF IInv
<1>2. /\ functionMap[type] \in Handlers
      /\ entry' = IF stack = <<>> THEN functionMap[type] ELSE entry
      /\ raised = NoException
      /\ UNCHANGED <<functionMap, stack, escape>>
  BY <1>1 DEF Refuse, RefuseMember, IgnoreUser, Found, TypeOK
<1>3. /\ raised' \in Exceptions \cup {NoException}
      /\ raised' # NoException => functionMap[type].kind = "applyMember"
      /\ report' \subseteq [handler : Handlers, ran : BOOLEAN, result : Results]
  <2>1. ASSUME NEW data \in Messages, Refuse(type, data) PROVE <1>3
    BY <1>1, <1>2, <2>1, ReportType DEF Refuse, Results
  <2>2. ASSUME NEW data \in Messages, RefuseMember(type, data) PROVE <1>3
    BY <1>1, <1>2, <2>2 DEF RefuseMember, TypeOK, Exceptions, StdExceptions
  <2>3. ASSUME IgnoreUser(type) PROVE <1>3
    BY <1>1, <1>2, <2>3, ReportType DEF IgnoreUser, Results
  <2>4. QED BY <2>1, <2>2, <2>3
<1>4. TypeOK'
  BY <1>1, <1>2, <1>3 DEF TypeOK
<1>5. EntryIsOutermost'
  <2>1. raised' # NoException => entry' \in Handlers
    <3>1. CASE stack = <<>>
      BY <1>2, <3>1
    <3>2. CASE stack # <<>>
      <4>1. stack[1] \in Frames
        BY <1>1, <3>2 DEF TypeOK
      <4>2. QED BY <1>1, <1>2, <3>2, <4>1 DEF EntryIsOutermost, Frames
    <3>3. QED BY <3>1, <3>2
  <2>2. QED BY <1>1, <1>2, <2>1 DEF EntryIsOutermost
<1>6. OutermostContains'
  BY <1>2, <1>3 DEF OutermostContains, LeakyKinds, NoException, StdExceptions
<1>7. ApplyContains' /\ NothingTruncated'
  BY <1>1, <1>2 DEF ApplyContains, NothingTruncated
<1>8. QED BY <1>4, <1>5, <1>6, <1>7 DEF IInv

\* The steps that end the innermost handler.
LEMMA PopPreserves ==
  ASSUME IInv, Return \/ InvokerCatches \/ Propagate
  PROVE  IInv'
<1>1. /\ TypeOK /\ EntryIsOutermost /\ OutermostContains
      /\ ApplyContains /\ NothingTruncated
  BY DEF IInv
<1>2. /\ stack # <<>> /\ stack' = Pop
      /\ UNCHANGED <<functionMap, entry, escape>>
      /\ raised' # NoException => raised' = raised /\ ~Caught(Top)
      /\ raised' \in {raised, NoException}
  BY DEF Return, InvokerCatches, Propagate
<1>3. /\ Pop \in Seq(Frames) /\ Top \in Frames
      /\ DOMAIN Pop \subseteq DOMAIN stack
      /\ \A i \in DOMAIN Pop : Pop[i] = stack[i]
      /\ Pop # <<>> => 1 \in DOMAIN Pop
      /\ Pop = <<>> => Top = stack[1]
  BY <1>1, <1>2, PopEffect DEF TypeOK
<1>4. TypeOK'
  <2>1. report' \subseteq [handler : Handlers, ran : BOOLEAN, result : Results]
    <3>1. Top.handler \in Handlers
      BY <1>3 DEF Frames
    <3>2. CASE Return
      BY <3>1, <3>2, ReportType DEF Return, Results
    <3>3. CASE InvokerCatches
      <4>1. (IF raised = "invalid_argument" THEN "ARGS FAIL" ELSE "FAIL") \in Results
        BY DEF Results
      <4>2. QED BY <3>1, <3>3, <4>1, ReportType DEF InvokerCatches
    <3>4. CASE Propagate
      BY <1>1, <3>4 DEF Propagate, TypeOK
    <3>5. QED BY <3>2, <3>3, <3>4
  <2>2. QED BY <1>1, <1>2, <1>3, <2>1 DEF TypeOK
<1>5. EntryIsOutermost'
  BY <1>1, <1>2, <1>3 DEF EntryIsOutermost
<1>6. OutermostContains'
  <2> SUFFICES ASSUME stack' = <<>>, raised' \in StdExceptions
               PROVE  entry'.kind \in LeakyKinds
    BY DEF OutermostContains
  <2>1. Top.handler = entry /\ entry.kind # "applyUser"
    BY <1>1, <1>2, <1>3 DEF EntryIsOutermost
  <2>2. raised \in StdExceptions /\ ~Caught(Top)
    BY <1>2 DEF NoException, StdExceptions
  <2>3. entry.kind # "apply"
    BY <2>1, <2>2 DEF Caught
  <2>4. entry.kind \in Kinds
    BY <1>3, <2>1, ParametersType DEF Frames
  <2>5. QED BY <1>2, <2>1, <2>3, <2>4 DEF Kinds, LeakyKinds
<1>7. ApplyContains' /\ NothingTruncated'
  BY <1>1, <1>2, <1>3 DEF ApplyContains, NothingTruncated
<1>8. QED BY <1>4, <1>5, <1>6, <1>7 DEF IInv

\* The other steps of a handler, and the end of the outermost dispatch.
LEMMA OtherPreserves ==
  ASSUME IInv,
         \/ \E type \in Types, handler \in Handlers : Bind(type, handler)
         \/ \E exception \in Exceptions : Throw(exception)
         \/ HandlerCatches
         \/ EscapeToCaller
  PROVE  IInv'
<1>1. /\ TypeOK /\ EntryIsOutermost /\ OutermostContains
      /\ ApplyContains /\ NothingTruncated
  BY DEF IInv
<1>2. ASSUME NEW type \in Types, NEW handler \in Handlers, Bind(type, handler) PROVE IInv'
  BY <1>1, <1>2 DEF Bind, IInv, TypeOK, EntryIsOutermost, OutermostContains,
     ApplyContains, NothingTruncated
<1>3. ASSUME NEW exception \in Exceptions, Throw(exception) PROVE IInv'
  <2>1. stack[1] \in Frames /\ stack # <<>>
    BY <1>1, <1>3 DEF Throw, TypeOK
  <2>2. entry \in Handlers
    BY <1>1, <2>1 DEF EntryIsOutermost, Frames
  <2>3. QED
    BY <1>1, <1>3, <2>1, <2>2 DEF Throw, IInv, TypeOK, EntryIsOutermost,
       OutermostContains, ApplyContains, NothingTruncated
<1>4. ASSUME HandlerCatches PROVE IInv'
  BY <1>1, <1>4 DEF HandlerCatches, IInv, TypeOK, EntryIsOutermost, OutermostContains,
     ApplyContains, NothingTruncated, NoException, StdExceptions
<1>5. ASSUME EscapeToCaller PROVE IInv'
  <2>1. /\ entry \in Handlers /\ raised \in Exceptions
        /\ raised \in StdExceptions => entry.kind \in LeakyKinds
    BY <1>1, <1>5 DEF EscapeToCaller, TypeOK, EntryIsOutermost, OutermostContains
  <2>2. escape' = {[entry |-> entry, exception |-> raised]} /\ raised' = NoException
        /\ UNCHANGED <<functionMap, stack, entry, report>>
    BY <1>5 DEF EscapeToCaller
  <2>3. TypeOK'
    BY <1>1, <2>1, <2>2 DEF TypeOK
  <2>4. EntryIsOutermost' /\ OutermostContains' /\ NothingTruncated'
    BY <1>1, <2>2 DEF EntryIsOutermost, OutermostContains, NothingTruncated,
       NoException, StdExceptions
  <2>5. ApplyContains'
    BY <2>1, <2>2 DEF ApplyContains, LeakyKinds
  <2>6. QED BY <2>3, <2>4, <2>5 DEF IInv
<1>6. QED BY <1>2, <1>3, <1>4, <1>5

LEMMA NextIInv == IInv /\ [Next]_vars => IInv'
<1> SUFFICES ASSUME IInv, [Next]_vars PROVE IInv'
  OBVIOUS
<1>1. CASE UNCHANGED vars
  BY <1>1 DEF vars, IInv, TypeOK, EntryIsOutermost, OutermostContains,
     ApplyContains, NothingTruncated
<1>2. ASSUME NEW type \in Types, NEW data \in Messages, Enter(type, data) PROVE IInv'
  BY <1>2, EnterPreserves
<1>3. ASSUME NEW type \in Types, NEW data \in Messages,
             Refuse(type, data) \/ RefuseMember(type, data)
      PROVE  IInv'
  BY <1>3, RefusePreserves
<1>4. ASSUME NEW type \in Types, IgnoreUser(type) PROVE IInv'
  BY <1>4, RefusePreserves
<1>5. QED
  BY <1>1, <1>2, <1>3, <1>4, PopPreserves, OtherPreserves DEF Next

LEMMA Invariance == Spec => []IInv
  BY InitIInv, NextIInv, PTL DEF Spec

----------------------------------------------------------------------------
\* The variables of the answering half keep their types (RpcBase.h:57-120).
THEOREM TypeCorrect == Spec => []TypeOK
<1>1. IInv => TypeOK
  BY DEF IInv
<1>2. QED BY <1>1, Invariance, PTL

\* A free function whose parameters are unpacked never lets a std::exception out
\* to the code that dispatched its message, however deep the calls it makes
\* (RpcInvoker.h:38-52): one that gets there left a member (:55-65) or a handler
\* of the command, free (:67-72) or a member (:74-81).
THEOREM Contains == Spec => []ApplyContains
<1>1. IInv => ApplyContains
  BY DEF IInv
<1>2. QED BY <1>1, Invariance, PTL

\* Whatever a message holds, a handler gets arguments of its parameter types,
\* the message's own where it has one (codec.h:45-57).
THEOREM Untruncated == Spec => []NothingTruncated
<1>1. IInv => NothingTruncated
  BY DEF IInv
<1>2. QED BY <1>1, Invariance, PTL
=============================================================================
