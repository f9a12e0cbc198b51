----------------------------- MODULE MCRpcServer -----------------------------
(***************************************************************************)
(* Instances of RpcServer for TLC.                                         *)
(***************************************************************************)
EXTENDS RpcServer, TLC

CONSTANTS session, sessionMem

TwoTypes == {session, sessionMem}
TypeSymmetry == Permutations(TwoTypes)

\* main.cpp's test(int, std::string), a member with one int, main.cpp's testData,
\* which takes the command, a member that takes it, and one bound by bindUser.
Free == [kind |-> "apply", parameters |-> <<"int", "string">>]
Member == [kind |-> "applyMember", parameters |-> <<"int">>]
FreeCmd == [kind |-> "applyUsingCmd", parameters |-> <<>>]
MemberCmd == [kind |-> "applyMemUsingCmd", parameters |-> <<>>]
User == [kind |-> "applyUser", parameters |-> <<"int">>]

AllHandlers == {Free, Member, FreeCmd, MemberCmd, User}
UnpackingHandlers == {Free, Member}

Number(n) == [is |-> "int", of |-> n]
String(n) == [is |-> "string", of |-> n]

Command == [form |-> "command", args |-> <<>>]

\* A full argument list, and a struct where arguments are due.
Full == PackArgs(<<Number(1), String(5)>>)
FitsAndNot == {Full, Command}

\* Ints out of range on both sides, a list that lacks every argument (Full has
\* one too many for Member), a string as binary and a number in its place.
AllMessages == {Full, Command, PackArgs(<<>>),
                PackArgs(<<Number(2)>>), PackArgs(<<Number(-2)>>),
                PackArgs(<<Number(0), [is |-> "bin", of |-> 6]>>),
                PackArgs(<<Number(1), Number(0)>>)}

NegativeOne == -1
=============================================================================
