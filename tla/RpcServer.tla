------------------------------ MODULE RpcServer ------------------------------
(***************************************************************************)
(* The answering half of RpcBase (RpcBase.h:57-120) and the invokers it    *)
(* dispatches to (RpcInvoker.h): handlers are bound to call types, a       *)
(* message is dispatched to the handler of its type, and what the handler  *)
(* throws is turned into a result string or goes on to the caller.         *)
(*                                                                         *)
(* route, call, testLocalCall and testLocalDataCall dispatch alike.  A     *)
(* handler is the program's own code: while it runs it may bind, dispatch  *)
(* further calls, return, throw, or catch what a nested call threw, so the *)
(* state holds the stack of running handlers and the exception in flight.  *)
(* The program has one thread.                                             *)
(***************************************************************************)
EXTENDS Codec, FiniteSets

CONSTANTS
  Types,            \* the call types
  Handlers,         \* what may be bound: records [kind, parameters]
  Messages,         \* the data dispatched, from the wire or from a local call
  NoHandler,        \* no entry in functionMap
  MaxDepth          \* bound: handlers that run inside one another

\* The invoker each bind overload wraps the handler in.
Kinds == {"apply", "applyMember", "applyUsingCmd", "applyMemUsingCmd", "applyUser"}

UnpackingKinds == {"apply", "applyMember"}
CmdKinds == {"applyUsingCmd", "applyMemUsingCmd"}

\* Exceptions by the catch clause that takes them; "other" is none of std's.
StdExceptions == {"invalid_argument", "exception"}
Exceptions == StdExceptions \cup {"other"}
NoException == "none"

ASSUME HandlersAssumption ==
  /\ Handlers \subseteq [kind : Kinds, parameters : Seq(ParameterTypes)]
  /\ NoHandler \notin Handlers

ASSUME MessagesAssumption ==
  /\ Messages \subseteq Data
  /\ IntMin \in Int /\ IntMax \in Int /\ IntMin <= 0 /\ 0 <= IntMax
  /\ MaxDepth \in Nat

VARIABLES
  functionMap,      \* the handler bound to each type
  stack,            \* the handlers that run, the innermost last, each with the
                    \*   data dispatched to it and the arguments it got
  raised,           \* the exception in flight
  entry,            \* history: the handler of the outermost dispatch
  report,           \* history: the last result string, whose, and whether the
                    \*   handler ran (a set of at most one)
  escape            \* history: the last exception the outermost dispatch let
                    \*   out, and of which handler (a set of at most one)

vars == <<functionMap, stack, raised, entry, report, escape>>

----------------------------------------------------------------------------
Init ==
  /\ functionMap = [type \in Types |-> NoHandler]
  /\ stack = <<>>
  /\ raised = NoException
  /\ entry = NoHandler
  /\ report = {}
  /\ escape = {}

Top == stack[Len(stack)]
Pop == SubSeq(stack, 1, Len(stack) - 1)

Report(handler, ran, result) ==
  report' = {[handler |-> handler, ran |-> ran, result |-> result]}

\* A second bind of a type replaces the first.
Bind(type, handler) ==
  /\ raised = NoException
  /\ functionMap' = [functionMap EXCEPT ![type] = handler]
  /\ UNCHANGED <<stack, raised, entry, report, escape>>

\* A message is dispatched; one of a type that is not bound is dropped.
Found(type) ==
  /\ raised = NoException
  /\ Len(stack) < MaxDepth
  /\ functionMap[type] # NoHandler
  /\ entry' = IF stack = <<>> THEN functionMap[type] ELSE entry

\* The handler starts: with its unpacked arguments, or with the raw data.
Enter(type, data) ==
  LET handler == functionMap[type] IN
  /\ Found(type)
  /\ \/ handler.kind \in UnpackingKinds /\ Unpacks(handler.parameters, data)
     \/ handler.kind \in CmdKinds
  /\ stack' = Append(stack,
       [handler |-> handler, data |-> data,
        got |-> IF handler.kind \in UnpackingKinds
                THEN Unpack(handler.parameters, data) ELSE <<>>])
  /\ UNCHANGED <<functionMap, raised, report, escape>>

\* apply catches what unpack throws.
Refuse(type, data) ==
  /\ Found(type)
  /\ functionMap[type].kind = "apply"
  /\ ~Unpacks(functionMap[type].parameters, data)
  /\ Report(functionMap[type], FALSE, "ARGS FAIL")
  /\ UNCHANGED <<functionMap, stack, raised, escape>>

\* applyMember does not.
RefuseMember(type, data) ==
  /\ Found(type)
  /\ functionMap[type].kind = "applyMember"
  /\ ~Unpacks(functionMap[type].parameters, data)
  /\ raised' = "invalid_argument"
  /\ UNCHANGED <<functionMap, stack, report, escape>>

\* RpcSession's invoker runs nothing and leaves the result empty.
IgnoreUser(type) ==
  /\ Found(type)
  /\ functionMap[type].kind = "applyUser"
  /\ Report(functionMap[type], FALSE, "")
  /\ UNCHANGED <<functionMap, stack, raised, escape>>

\* The innermost handler returns.
Return ==
  /\ raised = NoException
  /\ stack # <<>>
  /\ Report(Top.handler, TRUE, "OK")
  /\ stack' = Pop
  /\ UNCHANGED <<functionMap, raised, entry, escape>>

\* The innermost handler throws.
Throw(exception) ==
  /\ raised = NoException
  /\ stack # <<>>
  /\ raised' = exception
  /\ UNCHANGED <<functionMap, stack, entry, report, escape>>

\* The innermost handler catches what its nested call threw.
HandlerCatches ==
  /\ raised # NoException
  /\ stack # <<>>
  /\ raised' = NoException
  /\ UNCHANGED <<functionMap, stack, entry, report, escape>>

\* Mutant: the clause for std::exception is missing.
CaughtArgsOnly(frame) ==
  frame.handler.kind = "apply" /\ raised = "invalid_argument"

\* The catch clauses of apply.
Caught(frame) == frame.handler.kind = "apply" /\ raised \in StdExceptions

InvokerCatches ==
  /\ stack # <<>>
  /\ Caught(Top)
  /\ Report(Top.handler, TRUE,
            IF raised = "invalid_argument" THEN "ARGS FAIL" ELSE "FAIL")
  /\ stack' = Pop
  /\ raised' = NoException
  /\ UNCHANGED <<functionMap, entry, escape>>

\* The invoker lets the exception through.
Propagate ==
  /\ raised # NoException
  /\ stack # <<>>
  /\ ~Caught(Top)
  /\ stack' = Pop
  /\ UNCHANGED <<functionMap, raised, entry, report, escape>>

\* The outermost dispatch throws into the code that called it.
EscapeToCaller ==
  /\ raised # NoException
  /\ stack = <<>>
  /\ escape' = {[entry |-> entry, exception |-> raised]}
  /\ raised' = NoException
  /\ UNCHANGED <<functionMap, stack, entry, report>>

Next ==
  \/ \E type \in Types :
       \/ \E handler \in Handlers : Bind(type, handler)
       \/ \E data \in Messages :
            Enter(type, data) \/ Refuse(type, data) \/ RefuseMember(type, data)
       \/ IgnoreUser(type)
  \/ \E exception \in Exceptions : Throw(exception)
  \/ Return \/ HandlerCatches \/ InvokerCatches \/ Propagate \/ EscapeToCaller

Spec == Init /\ [][Next]_vars

----------------------------------------------------------------------------
(***************************************************************************)
(* Properties                                                              *)
(***************************************************************************)

Frames == [handler : Handlers, data : Messages, got : Seq([is : ParameterTypes, of : Int])]

Results == {"OK", "ARGS FAIL", "FAIL", ""}

\* The types of the variables.
TypeOK ==
  /\ functionMap \in [Types -> Handlers \cup {NoHandler}]
  /\ stack \in Seq(Frames)
  /\ raised \in Exceptions \cup {NoException}
  /\ entry \in Handlers \cup {NoHandler}
  /\ report \subseteq [handler : Handlers, ran : BOOLEAN, result : Results]
  /\ escape \subseteq [entry : Handlers, exception : Exceptions]

\* A std::exception that leaves the outermost dispatch came out of a member or
\* a command handler.  A free function whose parameters are unpacked (bind,
\* RpcBase.h:76-83) lets none out, whatever it calls and whatever is thrown
\* below it: the try of RpcInvoker.h:38-52 surrounds the unpacking and the call.
\* A free function that takes the command (RpcBase.h:96-104) has no try around
\* it (RpcInvoker.h:67-72) and is not covered.
ApplyContains ==
  \A e \in escape : e.exception \in StdExceptions =>
    e.entry.kind \in {"applyMember", "applyUsingCmd", "applyMemUsingCmd"}

\* A handler gets arguments of its parameter types, ints in range, each the
\* one the message has in its place: what does not fit is refused by unpack
\* (codec.h:45-57) and never cut, wrapped or shifted to another parameter.
NothingTruncated ==
  \A i \in DOMAIN stack : stack[i].handler.kind \in UnpackingKinds =>
    /\ DOMAIN stack[i].got = DOMAIN stack[i].handler.parameters
    /\ \A j \in DOMAIN stack[i].got :
         /\ stack[i].got[j].is = stack[i].handler.parameters[j]
         /\ stack[i].got[j].is = "int" => stack[i].got[j].of \in IntMin .. IntMax
         /\ j \in DOMAIN stack[i].data.args =>
              stack[i].got[j].of = stack[i].data.args[j].of

\* What codec.h:54 says of unpack: "Args not match!" is refused, so a handler
\* runs only on as many arguments as it has parameters.
RunsOnlyOnMatchingArgs ==
  \A i \in DOMAIN stack : stack[i].handler.kind \in UnpackingKinds =>
    Len(stack[i].data.args) = Len(stack[i].handler.parameters)
=============================================================================
