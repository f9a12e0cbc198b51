------------------------------ MODULE CallLedger ------------------------------
(***************************************************************************)
(* What the calling half of RpcBase promises, without ids, tables or       *)
(* widths: calls are made, some of them awaited by their object, replies   *)
(* name the call they are for, and a successful reply runs a callback that *)
(* is awaited - that of the very call it is for, while fewer calls were    *)
(* made than the wire can tell apart.                                      *)
(***************************************************************************)
EXTENDS Integers, Sequences

CONSTANTS
  Bases,            \* the objects that call
  Payloads,         \* what a reply may hold
  Early,            \* what a test may await before it is called
  Capacity          \* the calls the wire can tell apart

VARIABLES
  made,             \* the object that made each call
  awaited,          \* <<b, n>>: object b has a callback for call n
  replies,          \* the replies in flight
  ran               \* the callbacks run, and for which reply

vars == <<made, awaited, replies, ran>>

Init ==
  /\ made = <<>>
  /\ awaited = {}
  /\ replies = {}
  /\ ran = {}

\* A call, awaited or not.
Call(b) ==
  /\ made' = Append(made, b)
  /\ awaited' \in {awaited, awaited \cup {<<b, Len(made) + 1>>}}
  /\ UNCHANGED <<replies, ran>>

Await(b, n) ==
  /\ awaited' = awaited \cup {<<b, n>>}
  /\ UNCHANGED <<made, replies, ran>>

\* A reply to a call that was made; number 0 stands for no call yet.
Reply(n, state, data) ==
  /\ replies' = replies \cup {[call |-> n, state |-> state, data |-> data]}
  /\ UNCHANGED <<made, awaited, ran>>

Run(b, n, reply) ==
  /\ reply.state # 0
  /\ <<b, n>> \in awaited
  /\ Len(made) < Capacity => n = reply.call
  /\ ran' = ran \cup {[base |-> b, call |-> n, reply |-> reply]}
  /\ UNCHANGED <<made, awaited, replies>>

Next ==
  \/ \E b \in Bases : Call(b) \/ \E n \in Early : Await(b, n)
  \/ \E n \in 0 .. Len(made), state \in {0, 1}, data \in Payloads : Reply(n, state, data)
  \/ \E pair \in awaited, reply \in replies : Run(pair[1], pair[2], reply)

Spec == Init /\ [][Next]_vars
=============================================================================
