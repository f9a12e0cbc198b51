------------------------------ MODULE RpcClient ------------------------------
(***************************************************************************)
(* The calling half of RpcBase (RpcBase.h:123-267): RpcBase objects that   *)
(* share one IdWorker number their calls with it, register callbacks under *)
(* the numbers, put requests on the wire and deal with the results that    *)
(* come back.                                                              *)
(*                                                                         *)
(* A call is identified by its place among all genId calls of the worker,  *)
(* which the program does not keep: call n gets the id n % IdModulus.      *)
(* What call and callCmd do besides taking an id is RpcBase's (call runs a *)
(* local handler, callCmd builds a message it does not send).              *)
(*                                                                         *)
(* The transport is external: sendMsg is virtual, and the requests and     *)
(* results in flight are sets that only grow, so that a message may be     *)
(* lost (never received), received more than once and in any order, by any *)
(* of the objects that share the worker.                                   *)
(***************************************************************************)
EXTENDS Integers, Sequences, FiniteSets

CONSTANTS
  Bases,            \* the RpcBase objects that share the worker
  WireModulus,      \* 2^32: RpcMsg.rpcid, RpcResultMsg.rpcid are unsigned int
  HighModulus,      \* 2^32: the upper half of an id, a std::uint64_t
  Payloads,         \* the data of results: sequences of bytes
  HookIds,          \* the ids tests register callbacks under
  NoCallback,       \* no entry in callbackMap
  MaxCalls,         \* bound: genId calls
  MaxResults        \* bound: distinct results in flight

IdModulus == WireModulus * HighModulus

Nul == 0

Registrations == [by : {"callCb", "callCbCmd", "testRegisterCB"}, of : Nat]

\* Ids are cut to the low 32 of their 64 bits on the wire.
ASSUME WidthAssumption ==
  /\ WireModulus \in Nat \ {0}
  /\ HighModulus \in Nat \ {0}
  /\ MaxCalls \in Nat
  /\ MaxResults \in Nat

ASSUME DataAssumption ==
  /\ HookIds \subseteq 0 .. IdModulus - 1
  /\ Payloads \subseteq Seq(Nat)
  /\ NoCallback \notin Registrations

VARIABLES
  curId,            \* IdWorker::curId
  rpcid,            \* rpcid[b]: the id of b's last call
  callbackMap,      \* callbackMap[b]: the registration under each id
  requests,         \* what sendMsg was given: the id, and whose call it is
  results,          \* results in flight: the RpcResultMsg, and the call it answers
  caller,           \* history: caller[n] is the object that made call n
  lastCall,         \* history: the number of the call rpcid[b] belongs to
  runs              \* history: the callbacks run, with the result and the data

vars == <<curId, rpcid, callbackMap, requests, results, caller, lastCall, runs>>

----------------------------------------------------------------------------
Ids == 0 .. IdModulus - 1
WireIds == 0 .. WireModulus - 1
Calls == 0 .. MaxCalls

\* uint64_t to unsigned int.
Wire(id) == id % WireModulus

\* data.c_str() as a string_view: what precedes the first NUL.
CStr(data) ==
  CHOOSE s \in {SubSeq(data, 1, n) : n \in 0 .. Len(data)} :
    /\ \A i \in DOMAIN s : s[i] # Nul
    /\ s # data => data[Len(s) + 1] = Nul

Init ==
  /\ curId = 0
  /\ rpcid = [b \in Bases |-> 0]
  /\ callbackMap = [b \in Bases |-> [id \in Ids |-> NoCallback]]
  /\ requests = {}
  /\ results = {}
  /\ caller = <<>>
  /\ lastCall = [b \in Bases |-> 0]
  /\ runs = {}

\* "rpcid = idWorker->genId()".
GenId == (curId + 1) % IdModulus
ThisCall == Len(caller) + 1

\* Mutant: the worker does not keep the id it gave out.
TakeIdUnstored(b) ==
  /\ Len(caller) < MaxCalls
  /\ rpcid' = [rpcid EXCEPT ![b] = GenId]
  /\ caller' = Append(caller, b)
  /\ lastCall' = [lastCall EXCEPT ![b] = ThisCall]
  /\ UNCHANGED curId

TakeId(b) ==
  /\ Len(caller) < MaxCalls
  /\ curId' = GenId
  /\ rpcid' = [rpcid EXCEPT ![b] = GenId]
  /\ caller' = Append(caller, b)
  /\ lastCall' = [lastCall EXCEPT ![b] = ThisCall]

\* Mutant: callbackMap[id] = registration.
Assign(b, id, registration) ==
  callbackMap' = [callbackMap EXCEPT ![b][id] = registration]

\* callbackMap.emplace: an entry that is there stays.
Emplace(b, id, registration) ==
  callbackMap' = IF callbackMap[b][id] = NoCallback
                 THEN [callbackMap EXCEPT ![b][id] = registration]
                 ELSE callbackMap

Send(request) == requests' = requests \cup {request}

\* call, callCmd: an id is taken, nothing is registered, nothing is sent.
TakeIdOnly(b) ==
  /\ TakeId(b)
  /\ UNCHANGED <<callbackMap, requests, results, runs>>

\* Mutants: callCb sends and does not register; it registers under the id of
\* the call before, then takes its own.
CallCbUnregistered(b) ==
  /\ TakeId(b)
  /\ Send([rpcid |-> Wire(GenId), call |-> ThisCall])
  /\ UNCHANGED <<callbackMap, results, runs>>

CallCbStaleId(b) ==
  /\ TakeId(b)
  /\ Emplace(b, rpcid[b], [by |-> "callCb", of |-> ThisCall])
  /\ Send([rpcid |-> Wire(GenId), call |-> ThisCall])
  /\ UNCHANGED <<results, runs>>

CallCb(b) ==
  /\ TakeId(b)
  /\ Emplace(b, GenId, [by |-> "callCb", of |-> ThisCall])
  /\ Send([rpcid |-> Wire(GenId), call |-> ThisCall])
  /\ UNCHANGED <<results, runs>>

\* callCbCmd builds its message and never hands it to sendMsg.
CallCbCmd(b) ==
  /\ TakeId(b)
  /\ Emplace(b, GenId, [by |-> "callCbCmd", of |-> ThisCall])
  /\ UNCHANGED <<requests, results, runs>>

TestRegisterCB(b, id) ==
  /\ Emplace(b, id, [by |-> "testRegisterCB", of |-> id])
  /\ UNCHANGED <<curId, rpcid, requests, results, caller, lastCall, runs>>

\* The peer answers a request, with success or failure (external).
Answer(request, state, data) ==
  /\ Cardinality(results) < MaxResults
  /\ results' = results \cup {[rpcid |-> request.rpcid, state |-> state,
                               data |-> data, call |-> request.call]}
  /\ UNCHANGED <<curId, rpcid, callbackMap, requests, caller, lastCall, runs>>

\* main.cpp builds a successful result that carries getRpcId().
AnswerCurrent(b, data) ==
  /\ Cardinality(results) < MaxResults
  /\ results' = results \cup {[rpcid |-> Wire(rpcid[b]), state |-> 1,
                               data |-> data, call |-> lastCall[b]]}
  /\ UNCHANGED <<curId, rpcid, callbackMap, requests, caller, lastCall, runs>>

\* Mutants: the id is not looked for before it is used; the state is taken for
\* an error code.
DealResultUnchecked(b, retMsg) ==
  /\ retMsg.state # 0
  /\ runs' = runs \cup {[base |-> b, callback |-> callbackMap[b][retMsg.rpcid],
                         answer |-> retMsg, data |-> CStr(retMsg.data)]}
  /\ UNCHANGED <<curId, rpcid, callbackMap, requests, results, caller, lastCall>>

DealResultInverted(b, retMsg) ==
  /\ retMsg.state = 0
  /\ callbackMap[b][retMsg.rpcid] # NoCallback
  /\ runs' = runs \cup {[base |-> b, callback |-> callbackMap[b][retMsg.rpcid],
                         answer |-> retMsg, data |-> CStr(retMsg.data)]}
  /\ UNCHANGED <<curId, rpcid, callbackMap, requests, results, caller, lastCall>>

\* A result that reports failure, or whose id is unknown, changes nothing;
\* another one runs the callback, which stays registered.
DealResult(b, retMsg) ==
  /\ retMsg.state # 0
  /\ callbackMap[b][retMsg.rpcid] # NoCallback
  /\ runs' = runs \cup {[base |-> b, callback |-> callbackMap[b][retMsg.rpcid],
                         answer |-> retMsg, data |-> CStr(retMsg.data)]}
  /\ UNCHANGED <<curId, rpcid, callbackMap, requests, results, caller, lastCall>>

Next ==
  \/ \E b \in Bases :
       \/ TakeIdOnly(b)
       \/ CallCb(b)
       \/ CallCbCmd(b)
       \/ \E id \in HookIds : TestRegisterCB(b, id)
       \/ \E data \in Payloads : AnswerCurrent(b, data)
       \/ \E retMsg \in results : DealResult(b, retMsg)
  \/ \E request \in requests, state \in {0, 1}, data \in Payloads :
       Answer(request, state, data)

Spec == Init /\ [][Next]_vars

\* The transport delivers what is in flight to every object it may reach; the
\* program itself has no thread and no retry that could be assumed fair.
FairSpec ==
  /\ Spec
  /\ \A b \in Bases : WF_vars(\E retMsg \in results : DealResult(b, retMsg))

----------------------------------------------------------------------------
(***************************************************************************)
(* What the tables amount to: CallLedger.                                  *)
(***************************************************************************)
Awaited ==
  {pair \in Bases \X (Calls \cup HookIds) :
     \E id \in Ids : /\ callbackMap[pair[1]][id] # NoCallback
                     /\ callbackMap[pair[1]][id].of = pair[2]}

Reply(retMsg) == [call |-> retMsg.call, state |-> retMsg.state, data |-> retMsg.data]

RunOf(run) == [base |-> run.base, call |-> run.callback.of, reply |-> Reply(run.answer)]

Ledger == INSTANCE CallLedger
  WITH Early <- HookIds, Capacity <- WireModulus, made <- caller, awaited <- Awaited,
       replies <- {Reply(retMsg) : retMsg \in results}, ran <- {RunOf(run) : run \in runs}

----------------------------------------------------------------------------
(***************************************************************************)
(* Properties                                                              *)
(***************************************************************************)

Requests == [rpcid : WireIds, call : Calls]
Results == [rpcid : WireIds, state : {0, 1}, data : Payloads, call : Calls]

\* The types of the variables.
TypeOK ==
  /\ curId \in Ids
  /\ rpcid \in [Bases -> Ids]
  /\ callbackMap \in [Bases -> [Ids -> Registrations \cup {NoCallback}]]
  /\ requests \subseteq Requests
  /\ results \subseteq Results
  /\ caller \in Seq(Bases)
  /\ lastCall \in [Bases -> Calls]
  /\ \A run \in runs : /\ run.base \in Bases
                       /\ run.callback \in Registrations
                       /\ run.answer \in results

\* While fewer calls were made than ids fit the wire, a result runs the
\* callback of the call it answers (or the one a test registered under its
\* id), at the object that made the call, whatever the order of the results
\* and wherever they are received (RpcBase.h:169-182 against :233-247).
NoCrossTalk ==
  Len(caller) < WireModulus =>
    \A run \in runs :
      /\ run.callback.of = run.answer.call
      /\ run.callback.by # "testRegisterCB" => run.base = caller[run.answer.call]

\* However many calls were made: the callback a result runs belongs to the
\* call it answers or to one a multiple of 2^32 calls away, the distance that
\* RpcMsg.rpcid (RpcData.h:23) does not see.
RunsAgreeOnWire ==
  \A run \in runs :
    run.callback.of % WireModulus = run.answer.call % WireModulus

\* Ids of 64 bits in tables and of 32 on the wire, a table that keeps its first
\* entry and results anybody may get: all of it does what the ledger of calls
\* allows (RpcBase.h:123-267).
ImplementsLedger == Ledger!Spec

\* callCb registers before it sends (RpcBase.h:174, :181): at no moment is a
\* request on the wire whose id has no entry at its caller.
RegisteredBeforeSent ==
  \A request \in requests :
    callbackMap[caller[request.call]][request.call % IdModulus] # NoCallback

\* The first registration under an id stays for good: no later call, no test
\* and no result replaces or removes it (emplace; nothing erases).
RegistrationSticks ==
  [][\A b \in Bases, id \in Ids :
       callbackMap[b][id] # NoCallback => callbackMap'[b][id] = callbackMap[b][id]]_vars

\* A successful result of a call whose id fits the wire, made by callCb with
\* nothing registered under the id before, in the end runs that callback.
Answered(n) ==
  /\ n \in DOMAIN caller
  /\ callbackMap[caller[n]][n] = [by |-> "callCb", of |-> n]
  /\ \E retMsg \in results : retMsg.call = n /\ retMsg.state # 0

SuccessRunsCallback ==
  \A n \in 1 .. MaxCalls :
    n < WireModulus =>
      (Answered(n) ~> \E run \in runs : run.callback.by = "callCb" /\ run.callback.of = n)

\* What main.cpp:84-92 shows of a result that carries getRpcId(): it runs the
\* callback registered under that id, and no other.
EveryRunIsOwn ==
  \A run \in runs : run.callback.of = run.answer.call % IdModulus

\* What main.cpp:89-92 shows of the data: the callback gets all size bytes.
ResultDeliveredWhole == \A run \in runs : run.data = run.answer.data
=============================================================================
