# RpcInstance: specification, model checking and proofs

RpcInstance is a header-only C++ library that turns calls of typed functions
into messages and back ("RPC by template metaprogramming", says its README) and
a demo program. This directory holds TLA+ modules of it, configurations
that check them with TLC, and theorems about them checked by the TLA+ proof
system. Paths below are relative to the repository (`src/`).

The library is single-threaded: nothing in it starts a thread, takes a lock or
waits. What makes it hard to test is elsewhere: in what a transport may do to
requests and results, in objects that share an id worker, in handlers that call
back into the library while it is running them, in exceptions that cross
several dispatches, in clocks, and in numbers that change width on the way.

## Inventory

| Component | State | Operations | Interacts with |
|---|---|---|---|
| `IdWorker` (IdWorker.h:11) | `curId`, 64 bits | `genId` | every `RpcBase` that holds the `shared_ptr` |
| `SnowflakeIdWorker` (IdWorker.h:25) | `lastTimeStamp`, `sequence`, the field layout, its two numbers | `genId`, `genTimeStamp` | `system_clock` |
| `RpcBase`, calling half (RpcBase.h:123-198, :233-267) | `rpcid`, `callbackMap`, `idWorker` | `call`, `callCmd`, `callCb`, `callCbCmd`, `dealResult`, `testRegisterCB`, `getRpcId` | id worker, codec, `sendMsg`, the callbacks |
| `RpcCB` (RpcCallback.h) | callback, timeout | `callback`, `isTimeout` | `callbackMap` |
| `RpcBase`, answering half (RpcBase.h:57-120, :204-231) | `functionMap` | `bind` (4 overloads), `route`, `testLocalCall`, `testLocalDataCall`, the local dispatch of `call` | invokers |
| `RpcInvoker` (RpcInvoker.h) | none of its own; the call stack | `apply`, `applyMember`, `applyUsingCmd`, `applyMemUsingCmd` | codec, the handlers |
| `msgpack_codec` (codec.h) | none | `pack_args`, `unpack` (`pack_args_str` and `pack` have no caller) | msgpack |
| messages (RpcData.h) | `rpcid` and `size` as `unsigned int`, `type`, `data`; `state` in results | `getSize` | transport |
| `RpcSession` (RpcSession.h) | as `RpcBase` | `bindUser`, `bindSept` (empty) | an invoker that runs nothing |
| `RpcScene` | as `RpcBase` | none | |
| `function_traits` (RpcTraits.h) | compile time | | chooses the `bind` overload and the parameter tuple |
| `RpcPacker` | none | `packArgs`, `unpackArgs` | nothing; its header says to ignore it |
| transport | not in the repository | `sendMsg` is virtual with an empty base (RpcBase.h:54) | |
| msgpack parser (msgpack-c, v3/parse.hpp) | `m_current`, `m_cs`, `m_trail`, a stack of open containers | `execute`, `start_aggregate`, `push`, `consume` | the visitor |
| msgpack object visitor (v2/create_object_visitor.hpp) | the objects in the zone, a stack of pointers to them | `visit_*`, `start_*`, `end_*` | the parser, the zone |
| msgpack packer (v1/pack.hpp) | the buffer | `pack_int`, `pack_true`, `pack_false`, `pack_str`, `pack_array` | codec |
| the rest of msgpack-c | vendored; with the three above 98 000 of the 99 000 lines | | |

What makes each correct, and what is hard about it:

* **Ids.** An id is issued once, by one generator; ids of a generator increase.
  Hard: the 4096th id of a millisecond, a clock set back, several generators
  with clocks of their own, numbers out of range.
* **Calls and results.** A result runs the callback of its own call, at the
  object that made it, with the data that was sent; the callback is registered
  before the request leaves, and nothing replaces it. Hard: results that are
  lost, repeated, late, reordered or received by another object on the same
  worker; ids of 64 bits in tables and 32 bits in messages; entries that
  nothing ever erases.
* **One object, one stack.** `sendMsg` is virtual and runs the program's code in
  the middle of `callCb`; so do handlers and callbacks, and from all of them the
  program may come back into the library. Whatever nests, throws and catches,
  what was said of calls and results must hold, an entry whose callback runs
  must stay, and a call that has its id must go out.
* **Dispatch.** A message reaches the handler bound to its type at that moment,
  with its own arguments or not at all; what a handler throws ends in a result
  string or reaches the right caller. Hard: handlers that nest, rebind and
  catch; invokers that differ in what they catch; argument lists that do not
  match.
* **Arguments as bytes.** What was packed arrives; a message that is cut, or that
  states lengths it does not have, is refused; the visitor writes through bare
  pointers, and only to slots that are its own. Hard: two stacks that are moved
  in step by different code, lengths of several widths, containers in
  containers.

`PROJECT.json` lists the hazards one by one at the lines where they bite.

## Modules

| Module | Models | Proofs |
|---|---|---|
| `Snowflake` | a set of `SnowflakeIdWorker` objects and their clocks | `SnowflakeProofs` |
| `RpcClient` | the calling half of the `RpcBase` objects on one `IdWorker`, and the transport around them | `RpcClientProofs` |
| `Codec` | `pack_args` and `unpack` as operators | with `RpcServer` |
| `RpcServer` | the answering half, the invokers and the stack of running handlers | `RpcServerProofs` |
| `CallLedger` | the abstract specification of the calling half: calls, what is awaited, replies, what ran; no ids, tables or widths | implemented by `RpcClient` (`RpcClientProofs`) |
| `RpcBase` | both halves of several objects over the one call stack; INSTANCEs `RpcClient` twice, for its operators and as the specification it implements | `RpcBaseProofs` |
| `Parser` | `msgpack::unpack`: parser, visitor, and the conversion of what they built | `ParserProofs` |
| `Format` | MessagePack's grammar, over positions in a sequence of bytes, and what it says of the parser; EXTENDS `Parser` | `FormatProofs` |
| `Packer` | `pack_args` down to bytes, as operators | `PackerProofs` |
| `PackedArguments` | the way of an argument list: packed by `Packer`, read by `Parser`; EXTENDS both | `PackedArgumentsProofs` |
| `MCSnowflake`, `MCRpcClient`, `MCRpcServer`, `MCRpcBase`, `MCParser` | finite instances for TLC | |

How they fit together: a call is packed (`Packer`), numbered and registered
(`RpcClient`, at the level of `CallLedger` and in its steps in `RpcBase`),
parsed at the other side (`Parser`), converted (`Codec`) and dispatched
(`RpcServer`). `RpcBase` composes the calling half with the dispatch;
`RpcServer` has the arguments in full, `RpcBase` only whether they fit.

A few operators are headed "Mutant": they are wrong variants of the definition
that follows them, and no specification uses them. Each shows that some
property would notice a bug of that shape (the pairs are in `PROJECT.json`).

### Snowflake

`clock[w]` is what `genTimeStamp()` of generator `w` reads; every generator has
a clock of its own, which `Tick` moves on by any amount and `SetBack` moves
back (`system_clock` is not steady). `GenId(w)` is one whole call of `genId`:
one reading, then the sequence, the borrowed millisecond and `lastTimeStamp`,
in the order of IdWorker.h:46-56. Bit fields are numbers with sizes, so a
shift is a product, a mask is a remainder, and `|` is `+` for generators whose
numbers are in range. The id keeps 64 bits (`IdModulus`). `issued`, `inTick`,
`overrun`, `regressed` and `behind` are history: they say what was returned and
which generators were asked for too many ids, had their clock set back, or
found it behind `lastTimeStamp`.

### RpcClient

Each `RpcBase` has `rpcid` and `callbackMap`; `curId` is the shared worker's.
A call is one action, since nothing in a call gives control away before
`sendMsg`: `CallCb` takes an id, registers under it and sends; `CallCbCmd`
registers and does *not* send (RpcBase.h:184-198 builds the message and drops
it); `call` and `callCmd` are, for this half, `TakeIdOnly`. `emplace` keeps an
entry that is there. `DealResult` compares `state`, looks the 32-bit id up among
the 64-bit keys, and runs the callback with what `c_str()` leaves of the data.
The entry stays.

The program does not number its calls; the model does (`caller`, `lastCall`,
and `call` in requests and results), and the properties compare that number
with what the ids make of it. `requests` and `results` in flight are sets that
only grow: a message may be lost (never received), received again, in any
order, and by any object on the worker. Peers (`Answer`) are external.

### Codec and RpcServer

Objects on the wire have a type and a value; an argument list has as many as
were packed. `Unpacks` and `Unpack` are the tuple adaptor of msgpack as
codec.h:51 reaches it: it looks at the elements the array and the tuple share,
refuses a wrong type and an `int` out of range, and leaves the rest at
defaults.

In `RpcServer` a handler is the application's code, so it may do anything while
it runs: dispatch a nested call, rebind, return, throw, or catch what a nested
call threw. `stack` holds the frames that run, `raised` the exception in
flight. `Enter`, `Refuse`, `RefuseMember` and `IgnoreUser` are what a dispatch
may come to; `InvokerCatches` is the try of `apply` (RpcInvoker.h:38-52),
`Propagate` every other invoker; `EscapeToCaller` is an exception that leaves
the outermost dispatch, kept in `escape` with the handler it came out of.
`route`, `call`, `testLocalCall` and `testLocalDataCall` dispatch alike and share
these actions. The two command invokers treat their argument as raw bytes and
enter unconditionally. They have no try, so that a free function that takes
`stDataBaseCmd`, like main.cpp's `testData`, lets a `std::exception` out:
`ApplyContains` says that nothing but a member or a handler that takes the
command does.

### RpcBase

`RpcClient` makes `callCb` one step. That is not what happens: `sendMsg` is
virtual (RpcBase.h:54), so that the program's own code runs before `callCb` has
returned. Here `callCb` is a frame on `stack` that has taken its id (`CallCb`),
registers (`Register`), hands the request over (`SendMsg`), and is then in the
program's hands until `Return`. The other frames are handlers and running
callbacks. `ProgramRuns` says when code of the program has control: outside
everything, or in any frame but a `callCb` that has a line left; it may then
make calls, bind, dispatch, deal with a result, throw and catch. `raised` is the
exception in flight; `Unwind` takes it through one frame at a time, since neither
`dealResult` nor `callCb` has a try, and `ApplyCatches` is the one that has.
Which exceptions leave the outermost dispatch is a question for `RpcServer`; here
`Escape` ends them.

State and operators of the calling half are `RpcClient`'s (`Table`).
`CallbackMapSeen` and `RequestsSeen` add what the innermost `callCb` still has to
register and send, so that a call counts from the line that takes its id; under
this mapping every behaviour is one of `RpcClient` (`ImplementsClient`). Only the
innermost frame can have a line left, because nothing runs on top of such a
frame. If the program throws inside `sendMsg` the entry and the request stay, and
`SentStaysAnswerable` says what they are worth: the request can still be answered,
and what its id finds is its own call's callback.

### CallLedger

`made[n]` is the object of call `n`, `awaited` the pairs of object and call that
a callback waits for, `replies` what answers them, `ran` what ran and why. A
successful reply runs a callback that is awaited, its own call's while fewer
calls were made than the wire tells apart (`Capacity`). `RpcClient` implements it
with `awaited` read off `callbackMap`, whose entries know their call.

### Parser, Format and Packer

A message is a sequence of bytes, `current` a position in it, one past the end
at most. `pc` is the place in `execute` the parser is at: before the first byte
(`start`), at a header, at what follows one (`trail`), in the loop of `consume`, or
`done`. Each branch of `execute` is an action: `VisitOneByte`, `VisitEmptyFixStr`,
`ReadTrail`, `ParseError` and `StartFixed` for a header, `Insufficient`,
`VisitTrail`, `LoadLength` and `StartTrail` behind it; one turn of `consume` is
`EndAggregate` or `NextElement`, its end `Finish`. `m_cs` names the kind of value
and `m_trail` the width, so that the cases of the switch that differ in width
only are one.

`stack` is the parser's: for each open container what it is at and how many
elements it lacks. `pointers` is the visitor's: the slot the next object goes to,
for the message and for each open container. Slots are numbered in the order
they are allocated; `objects` holds those that were written. A string, a binary
or a number is kept as its place in the message instead of a copy or a value,
and a container as its first slot and its size. An empty container is pushed and
popped by the visitor in one step of the parser, and is modelled as that step.

Left out: allocation failure, and the limits of `unpack_limit`, which the codec
leaves at 2^32 - 1 for 32-bit lengths, so that none can be exceeded. A message is
shorter than 2^32 bytes, as `size` in RpcData.h makes it, so that the cast of a
length at v3/parse.hpp:598 loses nothing.

The conversion (`Unpacks`, `Unpack`) is `Codec`'s, on the slots of `Parser`: the
root must be an `ARRAY` (tuple.hpp:125), each element there is a parameter for must
be of its type, and an `int` in range (int.hpp:30-37). `InIntRange` compares bytes,
because TLC's integers have 32 bits and a number in a message may have 64; `Integer`
reads the low four bytes of one that passed.

`Format` says what the parser should do without saying how: an object is a
header, its own bytes and the objects it holds. `Decode` reads n objects from a
position on and gives their trees and what lies behind them, or the first thing
wrong; `Built` is the tree below a slot the visitor wrote. Both are recursive
functions. It has no state of its own: the code is the two loops and the two
stacks, which `AcceptsFormat` and `BuildsFormat` hold against the grammar. What
the first bytes mean is stated a second time, from the format and not from the
parser's switch.

`Packer` is the other direction for `int`, `bool` and `std::string` arguments:
widths by thresholds, as `pack_imp_int32`, `pack_str` and `pack_array` choose
them. `PackFirst` is a recursive function on numbers, as `StdTuplePacker` is a
recursive template on them.

## Runs

Each run ends within about two minutes on two workers. The deadlock check is off
in the Snowflake and RpcClient runs: once the bounds on ids, calls and results
are used up nothing is left to happen, and the program too stops when nobody
calls it; in the Parser run a message that was parsed is done with. RpcServer and
RpcBase always have a next step, and their runs check for deadlock.

| Run | Shows |
|---|---|
| `snowflake` | Two generators with different numbers never return the same id. Ids of a generator increase until it finds the clock behind `lastTimeStamp`, which only a clock set back or more ids than a millisecond has can bring about. Within capacity and on a clock never set back an id is returned once. `lastTimeStamp` is at most one millisecond ahead of such a clock. |
| `snowflake_reissue` (violation) | With more ids in a millisecond than sequence numbers an id is returned again: the rollover borrows the next millisecond, and the next call, in the old one, starts the sequence over. |
| `snowflake_layout` (violation) | The data centre lies above the worker, not below it as IdWorker.h:42 lists them. |
| `client` | Below 2^32 calls a result runs its own call's callback at the object that called, whatever happens to results; after that a callback whose call is a multiple of 2^32 away. The callback is in the table when its request is on the wire and is never replaced. The whole implements `CallLedger`. |
| `client_delivers` | With a transport that delivers, a successful result for an id that fits the wire does run its callback. |
| `client_truncated` (violation) | Beyond the wire's ids, a result runs another call's callback. |
| `client_nul` (violation) | Result data is cut at its first NUL. |
| `server` | A `std::exception` that leaves the outermost dispatch came out of a member handler or one that takes the command, however handlers nest, throw and catch: `apply` lets none through. A handler that runs got, for each parameter, a value of its type, the message's own where it has one. |
| `server_fewer` (violation) | A short argument list is not refused, against codec.h:54: the handler runs on defaults. |
| `rpcbase` | However calls, handlers, callbacks and exceptions nest in two objects, they behave as `RpcClient`. A request that went out finds the entry of its own call ever after, also when `sendMsg` threw and `callCb` never returned. |
| `rpcbase_nested` | The result of a call that is still being sent finds its entry; the entry of a running callback stays; a call that has its id goes out. |
| `parser` | Every message is parsed to an end (`Terminates`), and each step leaves less to be done than there was (`Shrinks`). The parser accepts what begins with an object of MessagePack's format, builds that object and stops behind it; it refuses the rest for the first thing wrong. The two stacks agree, no slot is written twice, none is left unwritten in an accepted object, nothing points past what was read. What was packed unpacks for exactly the handlers whose parameters it matches and arrives there, also with bytes behind it, and no part of it is taken for a message. |

`snowflake_layout` and `server_fewer` are disagreements between a comment and
the code; the other three are defects. `PROJECT.json` has the quotes under
`findings`.

### Bounds

* `snowflake`: 2 sequence numbers a millisecond, 2 workers and 2 data centres,
  3 clock readings, 4 ids a generator. Four ids are what it takes to fill a
  millisecond (2), borrow from the next (1) and come back (1); three readings
  let a clock jump over a millisecond and go back by one or two. The generators
  differ in both numbers.
* `client`: 2 objects, a wire of 3 ids and ids of 6, 4 calls (the wire wraps),
  2 results in flight, and a test that registers under id 1, before or after
  call 1. Two results suffice for every pair that can be confused or reordered;
  sets make repetition free. The objects are symmetric. In `client_truncated`
  the wire has 2 ids.
* `client_delivers`: 1 object, 3 calls, 3 wire ids, 2 results, no symmetry
  (it is unsound with liveness).
* `server`: 2 types (symmetric), all 5 invokers, nesting of 2, and 7 messages:
  fitting, a command struct, an empty list, ints out of range on either side of -1..1,
  binary for a string, a number for a string. One level of nesting inside a
  handler shows every way an exception can cross an invoker.
* `rpcbase`: 2 objects (symmetric), a wire of 3 ids and ids of 6, 3 calls, 1
  result, one type that a free or a member function may be bound to, 2 frames.
  Two frames give every pair of what runs inside what, of the same object or the
  other; a third adds no new step, since a step looks at the innermost frame only. Calls 1
  and 2 are below the wire's modulus, where `SentStaysAnswerable` speaks; call 3
  wraps.
* `rpcbase_nested`: 1 object, 3 frames, a wire of 3 ids, 3 calls and a test that
  registers under id 1: calls 1 and 2 are those `AnswerableWhileSending` speaks of,
  and with three frames a callback runs inside a callback inside `sendMsg`. No symmetry
  (it is unsound with liveness).
* `parser`: all words of up to 4 bytes over 12 that cover every branch on the
  first byte, and of up to 6 bytes over 5 that open and fill containers, which
  nest arrays and maps up to six deep; argument lists with ints, strings and
  lengths on both sides of every threshold of the packer but the two of 64K,
  whole, cut anywhere near either end, and with bytes behind them, converted for
  parameter lists that fit, are shorter or longer, or of other types; every header
  with a trail with lengths of 0, 1 and more in every byte of it.

### Fairness

No action of the program's is assumed to happen: nobody has to call, to answer, to
bind, to return or to throw. The library has no timer, no thread and no retry.

* `client_delivers`: weak fairness of the delivery of results at each object, that
  is, a transport that hands over what has arrived.
* `rpcbase_nested` (`FairSpec`): weak fairness of `Register` and `SendMsg`. One
  thread executes these lines and nothing of the program's comes between them, so
  that it does not stop halfway. The program's frames may stay for ever.
* `parser`: weak fairness of `Next`. `execute` is a function that one thread runs,
  and each of its steps depends on the message alone.

## Proofs

The theorems hold for every value of the constants that the assumptions of the
modules allow: any number of generators, objects and calls, any field widths,
any set of handlers and messages, any nesting. Assumptions are that
sizes are positive, that generator numbers are in range (IdWorker.h:80-81),
that clock readings lie after the base epoch and in the timestamp field, that
test ids are ids and payloads are sequences of bytes, that handlers and messages
have the shape their names say, that 0 is an `int`, that a message is a
sequence of bytes, and that an argument list holds ints of 32 bits, bools and
strings, and is, like each string, shorter than 2^32, and that a parameter list is a sequence
of those three types. Distinctness of `NoCallback` and
`NoHandler` from entries is the `end()` of the tables.

| Theorem | Inductive invariant and why |
|---|---|
| `SnowflakeProofs!TypeCorrect`, `NeverCollide`, `Increasing`, `BehindExplained`, `Unique`, `OneMillisecondAhead` | `Stamped`: every issued id is `Compose` of a timestamp and a sequence number, from which `NeverCollide` follows by the uniqueness of mixed-radix digits. `LastIsGreatest`: until the clock is found behind, the last id is composed of `lastTimeStamp` and `sequence` and is the greatest, so that the next one is greater. `CountsInMillisecond` ties `sequence` to the number of ids since the clock moved, without which a rollover cannot be traced to an overrun. |
| `RpcClientProofs!TypeCorrect`, `OwnCallback`, `AgreeOnWire`, `Registered`, `Sticks` | `CallsNumbered` (`curId` is the number of calls modulo the id's width, `rpcid[b]` that of `lastCall[b]`), `TableKeyed`, `RequestsKeyed`, `ResultsKeyed` and `RunsKeyed` (each registration, request, result and run carries the number whose id, or whose wire id, it lies under). A run then joins a result and a registration under one wire id, so their calls agree modulo 2^32, and are equal while there are fewer calls than that. |
| `RpcClientProofs!KeepsLedger` | The same invariant: each step of `RpcClient` is a step of `CallLedger` or a stutter. A run agrees with its result on the wire's id, and with `RunsKeyed` that is the clause of `Run` about `Capacity`. |
| `RpcBaseProofs!TypeCorrect`, `Implements`, `Running`, `OwnCallback`, `Answerable`, `StaysAnswerable` | `LibraryOnTop`: a frame with a line of `callCb` left is the innermost one, and `rpcid` and `lastCall` of its object are still that call's; without it the step that registers would use whatever id a nested call left behind. With it each step maps to one of `RpcClient` or to a stutter: `CallCb` to the whole call, `Register` and `SendMsg` to stutters. The invariants of `RpcClientProofs` then hold of the mapped state by an instance of that module, `OwnCallback` among them. `Running` needs that no step replaces an entry (`Sticks`), `Answerable` that a frame of `callCb` past the step that registers has the entry of its own call (`SentIsRegistered`). `StaysAnswerable` hands that over from the frame to the request at the step that sends it (`NextAnswerable`), and then needs only that entries stay and that a call keeps its caller (`CallerStays`), whatever becomes of the frame. |
| `ParserProofs!TypeCorrect`, `Within`, `Agree`, `Fresh`, `Complete` | `Control` (`m_trail` is a width where a length is to be loaded, and the place in `execute` fits `outcome`), `Blocks` (the slots of the open containers that are still to be written are blocks that do not overlap, and none of them is written) and `Exact` (the slots that are allocated and unwritten are just those of these blocks). `Fresh` is the first slot of the innermost block; `Complete` is `Exact` when no block is left. `StacksAgree` alone is not inductive: it says where each pointer stands, and not that the slots ahead of it are free. |
| `ParserProofs!LoopsEnd` | The ranking `Left`: twice the bytes ahead, the open containers, and the place in the loop. A step that reads a byte may open a container and return to a header, which is why bytes count twice; `EndAggregate` reads none and closes one. With the invariant above, for `VisitTrail` and its like to read at least one byte. That a step can always be taken before the end, and that it is, stays with TLC (`Terminates`). |
| `FormatProofs!AcceptsTheFormat` | The invariant `FollowsFormat`. Every open container and the object being read have a start in the message, and between the start of a container's elements and the start of the next one lie as many whole objects as its frame says were read (`Levels`); the parser is at that object's header, its length or its value, or behind it (`Parsing`). One lemma per action keeps this, by what the header says of the object (`ObjectRead`); a container ends when its frame lacks nothing (`LevelsPop`), and a fault in the innermost object is the first one of the message (`LevelsFail`). `Decode` is shown to be defined by its equation, for positions from the last to the first and any n (`DecodeExists`, `DecodeIs`). |
| `FormatProofs!BuildsTheFormat` | The part of `FollowsFormat` about slots: every slot that was written has a place in the message, the object there is the one that was written (`Describes`), and the slots of a container have the places of its elements, one behind the other (`Laid`, `Placing`). At the end the slots are compared with the grammar from the last to the first, since a container's elements have later slots than its own (`BuiltExists`, `SlotBuilt`, `RootBuilt`). |
| `PackerProofs!IntArrives` | For every 32-bit int, wherever it lies in a message: one lemma per width and sign (`OneUnsigned` to `FourSigned`) that the bytes of `Store` sum up to the number again, the sign in the first byte; `Written` and `Headers` for where the bytes lie and what the parser's table makes of the header; `BehindHeader` joins them through `TypeOf` and the conversion, whose range check the number passes because its top byte has the sign its type says (`TopByte`, `Converted`). The same for the lengths behind the headers of strings and arrays (`StrForms`, `ArrayForms`, `LengthBehindHeader`). |
| `PackedArgumentsProofs!ArgumentsArrive` | Whatever the list of arguments, whatever lies behind it, and wherever the message is cut, the parser builds an array of exactly the arguments that were packed, or refuses with `insufficient_bytes`, and takes no part of a list for a message. That array unpacks for a handler exactly if `Match` holds of its parameters, because a packed value is of its own type and no other (`OwnTypeOnly`, `ArrivedUnpacks`). The invariant is `Follows`: while the message agrees with a packed list as far as both go, the parser is at the header of the array (`Opening`), before or inside argument i with slot i + 1 the next to be filled (`ReadingNext`), behind it (`HaveRead`), behind all (`HaveReadAll`), or done, and the slots before hold values equal to the arguments already read. It needs where argument i lies (`Places`: its place is the end of the one before, and depends on no later one), and, for each of the four forms a number has, the four a string has and the three an array has, which action takes the header, which the length, and which the value (`AtHeader`, `AtTrail`, `AtConsume`, `ArgumentStep`). |
| `RpcServerProofs!TypeCorrect`, `Contains`, `Untruncated` | `EntryIsOutermost` (the bottom frame is the entry's) and `OutermostContains`: a `std::exception` in flight above an empty stack left one of the three invokers without a try (`LeakyKinds`): `apply` turns it into a result, and `applyUser` enters no frame that could throw. |

The arithmetic is proved from the division theorem (`DivMod`) up in the proof
modules: TLAPS has no facts about `%` by a variable.

Facts about a recursive function for every number (`PackFirst`, `Decode`, `Built`) are
proved here by the least number for which they fail (`LeastNumber`,
`EveryNumber` in `ParserProofs`, from `WFMin` and the well-foundedness
of < on numbers): the prover cannot instantiate the library's rules of induction,
whose parameter is an operator, and these take a set.

Only model-checked: `SuccessRunsCallback`, `CallsGoOut` and
`Terminates` (liveness under fairness is beyond the prover, as is `ENABLED`), and
the findings, which are counterexamples. Every invariant and every action property
that a run checks is a theorem.

## Not modelled, and why

* Most of msgpack. The 98 000 vendored lines are a preprocessor and predef library
  (46 000 lines of macros), C++03 variants of the C++11 code (another 20 000),
  adaptors of types the program never sends, the X3 and v1 parsers, buffers and
  iterators that it never instantiates, and declarations. They have no behaviour
  in this program, and no share of them is mapped. What `codec.h` reaches is in
  `Parser` and `Packer`.
* The zone that holds objects and the buffer that is packed into: storage that
  grows. A slot is a number, and memory does not run out.
* `RpcScene`, `bindSept`, `applySept`, `pack_args_str`, `pack`: empty or without
  a caller.
* `function_traits`: compile time; its result is the `parameters` of a handler.
* Timeouts: `RpcCB` stores one, and `isTimeout` has no caller, so that nothing
  the program does depends on it.
* The 64K buffer, `getSize`, object lifetime and the destruction of a handler
  that rebinds itself: planned below.
* Generator numbers out of range: excluded by `WorkersAssumption`.

* The transport (no line of it is in the repository): `RpcClient` and `RpcBase`
  let it lose, repeat, reorder, misdeliver, and answer at once.
* That `route` drops its result (RpcBase.h:72), so that between two objects no
  callback ever runs: in `RpcBase` a dispatch adds no result, and a property that
  says so would only repeat the model.

## Plan

Done: `Snowflake`, `RpcClient`, `Codec`, `RpcServer`; `RpcBase` over one call
stack, shown and proved to implement `RpcClient`, which implements `CallLedger`;
`Parser`, `Packer` and `PackedArguments`, the bytes of arguments, and `Format`,
which the parser is proved to follow.

Left, in order of what they would add:

1. `RpcBase` over `SnowflakeIdWorker`: snowflake ids beyond 32 bits are in
   `callbackMap` whole and in results cut, so that no result finds them. It needs
   `RpcClient` with the ids as a parameter.
2. `SnowflakeBits`: the same `genId` with `Bitwise`, for TLC only, with numbers
   out of range, where `|` is no longer `+`.
3. Messages: `size`, `getSize` and the 64K buffer as numbers of fixed width.
4. Lifetime: objects behind `bind`'s raw pointer, rebinding under a running
   handler.
