-------------------------------- MODULE Codec --------------------------------
(***************************************************************************)
(* What msgpack_codec makes of the data of a message (codec.h): pack_args  *)
(* turns arguments into an array of typed objects, and unpack turns the    *)
(* array into the tuple of a handler's parameters, or throws.              *)
(*                                                                         *)
(* The data of a message has a form: an array of arguments, the raw bytes  *)
(* of a stDataBaseCmd, or bytes that are no array.  The objects keep their *)
(* type and their value; the encoding of either is left to msgpack.        *)
(***************************************************************************)
EXTENDS Integers, Sequences

CONSTANTS
  IntMin, IntMax    \* the range of int

ParameterTypes == {"int", "bool", "string"}
ObjectTypes == {"int", "bool", "string", "bin", "float"}

\* An object on the wire: its type, and its value (numbers stand for strings).
Objects == [is : ObjectTypes, of : Int]

Data == [form : {"args", "command", "garbage"}, args : Seq(Objects)]

\* An argument list as pack_args packs it.
PackArgs(args) == [form |-> "args", args |-> args]

----------------------------------------------------------------------------
\* Mutant: an int of any size is taken.
AcceptsAnyInt(parameter, object) ==
  /\ parameter = "string" => object.is \in {"string", "bin"}
  /\ parameter # "string" => object.is = parameter

\* The object types each parameter type takes; an int must be in range.
Accepts(parameter, object) ==
  /\ parameter = "string" => object.is \in {"string", "bin"}
  /\ parameter # "string" => object.is = parameter
  /\ parameter = "int" => object.of \in IntMin .. IntMax

\* The tuple adaptor looks at no more elements than the message and the tuple
\* both have; everything it looks at must fit.
Unpacks(parameters, data) ==
  /\ data.form = "args"
  /\ \A i \in DOMAIN parameters \cap DOMAIN data.args :
       Accepts(parameters[i], data.args[i])

\* A parameter the message has no element for keeps its default.
DefaultOf(parameter) == [is |-> parameter, of |-> 0]

\* Mutant: the objects as they came, unconverted.
UnpackRaw(parameters, data) ==
  [i \in DOMAIN parameters |->
     IF i \in DOMAIN data.args THEN data.args[i] ELSE DefaultOf(parameters[i])]

Unpack(parameters, data) ==
  [i \in DOMAIN parameters |->
     IF i \in DOMAIN data.args
     THEN [is |-> parameters[i], of |-> data.args[i].of]
     ELSE DefaultOf(parameters[i])]
=============================================================================
