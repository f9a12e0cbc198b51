--------------------------- MODULE PackedArguments ---------------------------
(***************************************************************************)
(* The packer and the parser together: msgpack_codec::pack_args (codec.h:  *)
(* 20) makes the bytes of an argument list and msgpack_codec::unpack       *)
(* (codec.h:46) reads them.                                                *)
(***************************************************************************)
EXTENDS Parser, Packer

CONSTANTS
  ArgumentLists,                \* the argument lists of calls
  ParameterLists                \* the parameter lists of handlers

\* int has 32 bits.
INT_MIN == -2147483647 - 1
INT_MAX == 2147483647
Int32 == INT_MIN .. INT_MAX

\* A length of the format has 32 bits.
IsLength(n) == n \div 65536 < 65536

Args == [is : {"int"}, of : Int32] \cup [is : {"bool"}, of : BOOLEAN]
          \cup [is : {"string"}, of : Seq(Bytes)]

Fits(arg) == arg.is = "string" => IsLength(Len(arg.of))

\* The argument lists msgpack has a format for.
AreArguments(args) ==
  args \in Seq(Args) /\ IsLength(Len(args)) /\ \A k \in DOMAIN args : Fits(args[k])

ASSUME ArgumentListsAssumption == \A args \in ArgumentLists : AreArguments(args)

ASSUME ParameterListsAssumption == ParameterLists \subseteq Seq(ParameterTypes)

\* Each argument that there is a parameter for is of its type.
Match(parameters, args) ==
  \A i \in DOMAIN parameters \cap DOMAIN args : parameters[i] = args[i].is

\* pack_args and unpack (codec.h:20, :50-51) between a call and a handler, on
\* int, bool and string: the whole of a packed argument list, also with bytes
\* behind it, unpacks for a handler exactly if the arguments match its
\* parameters, and then each arrives as it was and what is missing as a
\* default; a part of one is never taken for a message.
PackedArgumentsArrive ==
  pc = "done" =>
    \A args \in ArgumentLists :
      LET whole == PackArgs(args) IN
      /\ (Len(data) >= Len(whole) /\ SubSeq(data, 1, Len(whole)) = whole) =>
           /\ outcome \in Accepted
           /\ \A parameters \in ParameterLists :
                /\ Unpacks(parameters) <=> Match(parameters, args)
                /\ Unpacks(parameters) =>
                     \A i \in DOMAIN parameters :
                       Unpack(parameters)[i] =
                         IF i \in DOMAIN args THEN args[i] ELSE DefaultOf(parameters[i])
      /\ (Len(data) < Len(whole) /\ SubSeq(whole, 1, Len(data)) = data) =>
           outcome = "insufficient_bytes"
=============================================================================
