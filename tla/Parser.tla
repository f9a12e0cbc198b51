------------------------------- MODULE Parser -------------------------------
(***************************************************************************)
(* msgpack::unpack as msgpack_codec::unpack calls it (codec.h:50): the     *)
(* parser of v3/parse.hpp reads the bytes of a message and drives the      *)
(* visitor of v2/create_object_visitor.hpp, which builds the objects that  *)
(* a handler's parameters are converted from.                              *)
(*                                                                         *)
(* Each keeps a stack.  The parser's says how many elements the open       *)
(* arrays and maps still lack; the visitor's holds a pointer to the slot   *)
(* the next object goes to.  Nothing compares the two.                     *)
(*                                                                         *)
(* A slot is a number: 1 is m_obj, later ones are allocated in the zone in *)
(* order, and hold nothing until they are written.  A scalar object is     *)
(* kept as the bytes of the message it was made from.                      *)
(*                                                                         *)
(* No message here is 2^32 bytes long, the most that RpcMsg::size can say: *)
(* the limits of unpack_limit, 2^32 - 1 as the codec leaves them, are not  *)
(* reached, and the cast of m_trail to 32 bits (parse.hpp:598) cuts off    *)
(* nothing.                                                                *)
(***************************************************************************)
EXTENDS Integers, Sequences

CONSTANT Inputs         \* messages: sequences of bytes

VARIABLES
  data,                 \* the message
  pc,                   \* where execute is
  current, cs, trail,   \* m_current, m_cs, m_trail
  stack,                \* the parser's m_stack
  pointers,             \* the visitor's m_stack
  allocated,            \* the slots there are
  objects,              \* the slots that were written, with what they hold
  outcome               \* what parse_imp returned or threw

vars == <<data, pc, current, cs, trail, stack, pointers, allocated, objects, outcome>>

Bytes == 0 .. 255

ASSUME InputsAssumption == Inputs \subseteq Seq(Bytes)

NoOutcome == "none"
Accepted == {"success", "extra_bytes"}
Outcomes == Accepted \cup {"parse_error", "insufficient_bytes"}

Containers == {"ARRAY", "MAP"}
Lengths == {"STR", "BIN", "EXT"}                \* a length comes before the value
Values == {"STR_VALUE", "BIN_VALUE", "EXT_VALUE"}
Numbers == {"FLOAT", "UINT", "INT", "FIXEXT"}

pe == Len(data) + 1                             \* one past the last byte
Byte == data[current]
Top == stack[Len(stack)]
Back == pointers[Len(pointers)]
Pop(seq) == SubSeq(seq, 1, Len(seq) - 1)

----------------------------------------------------------------------------
(***************************************************************************)
(* Headers                                                                 *)
(***************************************************************************)
PositiveFixnum == 0 .. 127
FixMap == 128 .. 143
FixArray == 144 .. 159
FixStr == 160 .. 191
WithTrail == 196 .. 223
NegativeFixnum == 224 .. 255
OneByte == PositiveFixnum \cup NegativeFixnum \cup {192, 194, 195}

OneByteType(byte) ==
  IF byte \in PositiveFixnum THEN "POSITIVE_INTEGER"
  ELSE IF byte \in NegativeFixnum THEN "NEGATIVE_INTEGER"
  ELSE IF byte = 192 THEN "NIL" ELSE "BOOLEAN"

\* Mutant: the fixext entries leave out the type byte.
TrailWithoutType(byte) ==
  <<1, 2, 4, 1, 2, 4, 4, 8, 1, 2, 4, 8, 1, 2, 4, 8, 1, 2, 4, 8, 16,
    1, 2, 4, 2, 4, 2, 4>>[byte - 195]

\* The table in execute: the bytes that follow each header from 0xc4 on.
Trail(byte) ==
  <<1, 2, 4, 1, 2, 4, 4, 8, 1, 2, 4, 8, 1, 2, 4, 8, 2, 3, 5, 9, 17,
    1, 2, 4, 2, 4, 2, 4>>[byte - 195]

\* next_cs; the widths of a kind differ in trail only.
NextCs(byte) ==
  IF byte <= 198 THEN "BIN"
  ELSE IF byte <= 201 THEN "EXT"
  ELSE IF byte <= 203 THEN "FLOAT"
  ELSE IF byte <= 207 THEN "UINT"
  ELSE IF byte <= 211 THEN "INT"
  ELSE IF byte <= 216 THEN "FIXEXT"
  ELSE IF byte <= 219 THEN "STR"
  ELSE IF byte <= 221 THEN "ARRAY" ELSE "MAP"

\* A big-endian number of one, two or four bytes whose first byte counts top.
LoadFrom(top, at, width) ==
  IF width = 1 THEN top
  ELSE IF width = 2 THEN 256 * top + data[at + 1]
  ELSE 65536 * (256 * top + data[at + 1]) + (256 * data[at + 2] + data[at + 3])

Load(at, width) == LoadFrom(data[at], at, width)

\* Mutant: a signed number is taken for an unsigned one.
TypeUnsigned(kind, at) ==
  CASE kind \in {"UINT", "INT"} -> "POSITIVE_INTEGER"
    [] kind = "FLOAT" -> "FLOAT"
    [] kind \in {"FIXEXT", "EXT", "EXT_VALUE"} -> "EXT"
    [] kind \in {"STR", "STR_VALUE"} -> "STR"
    [] kind \in {"BIN", "BIN_VALUE"} -> "BIN"

\* What the visitor makes of a value that starts at a position.
TypeOf(kind, at) ==
  CASE kind = "UINT" -> "POSITIVE_INTEGER"
    [] kind = "INT" -> IF data[at] < 128 THEN "POSITIVE_INTEGER" ELSE "NEGATIVE_INTEGER"
    [] kind = "FLOAT" -> "FLOAT"
    [] kind \in {"FIXEXT", "EXT", "EXT_VALUE"} -> "EXT"
    [] kind \in {"STR", "STR_VALUE"} -> "STR"
    [] kind \in {"BIN", "BIN_VALUE"} -> "BIN"

----------------------------------------------------------------------------
(***************************************************************************)
(* The visitor                                                             *)
(***************************************************************************)
\* Writes an object to the slot on top of the visitor's stack.
Write(object) ==
  objects' = [a \in DOMAIN objects \cup {Back} |-> IF a = Back THEN object ELSE objects[a]]

Object(type, first, size) == [type |-> type, first |-> first, size |-> size]

\* Mutant: the size of an ext value counts its type byte.
ScalarWhole(type, first, size) == Object(type, first, size)

\* An ext value's size leaves out its type byte.
Scalar(type, first, size) ==
  Object(type, first, IF type = "EXT" THEN size - 1 ELSE size)

\* Mutant: a slot a pair.
OneSlotEach(type, n) == n

\* The slots an array or a map of n elements takes; a pair of a map takes two.
Slots(type, n) == IF type = "MAP" THEN 2 * n ELSE n

----------------------------------------------------------------------------
(***************************************************************************)
(* execute                                                                 *)
(***************************************************************************)
Init ==
  /\ data \in Inputs
  /\ pc = "start"
  /\ current = 1
  /\ cs = "HEADER"
  /\ trail = 0
  /\ stack = <<>>
  /\ pointers = <<1>>
  /\ allocated = 1
  /\ objects = <<>>
  /\ outcome = NoOutcome

End(result) ==
  /\ pc' = "done"
  /\ outcome' = result

\* Mutant: the loop does not move on.
IterateInPlace(at) ==
  /\ current' = at - 1
  /\ cs' = "HEADER"
  /\ IF at = pe THEN End("insufficient_bytes")
                ELSE pc' = "header" /\ UNCHANGED outcome

\* The end of an iteration that leaves current at a position: the next header,
\* or, with nothing left, PARSE_CONTINUE, which parse_imp has the visitor throw.
Iterate(at) ==
  /\ current' = at
  /\ cs' = "HEADER"
  /\ IF at = pe THEN End("insufficient_bytes")
                ELSE pc' = "header" /\ UNCHANGED outcome

\* An empty message gets no further than parse_imp.
Start ==
  /\ pc = "start"
  /\ IF data = <<>> THEN End("insufficient_bytes")
                    ELSE pc' = "header" /\ UNCHANGED outcome
  /\ UNCHANGED <<data, current, cs, trail, stack, pointers, allocated, objects>>

\* A visit of a value whose last byte is at a position; consume is next.
Visit(object, last) ==
  /\ Write(object)
  /\ current' = last
  /\ pc' = "consume"
  /\ UNCHANGED <<data, cs, trail, stack, pointers, allocated, outcome>>

VisitOneByte ==
  /\ pc = "header"
  /\ Byte \in OneByte
  /\ Visit(Scalar(OneByteType(Byte), current, 1), current)

VisitEmptyFixStr ==
  /\ pc = "header"
  /\ Byte = 160
  /\ Visit(Scalar("STR", current, 0), current)

\* More bytes follow the header: m_cs and m_trail say which and how many, and
\* the same iteration goes on behind the header.
ReadTrail ==
  /\ pc = "header"
  /\ \/ /\ Byte \in WithTrail
        /\ cs' = NextCs(Byte)
        /\ trail' = Trail(Byte)
     \/ /\ Byte \in FixStr \ {160}
        /\ cs' = "STR_VALUE"
        /\ trail' = Byte % 32
  /\ pc' = "trail"
  /\ current' = current + 1
  /\ UNCHANGED <<data, stack, pointers, allocated, objects, outcome>>

\* 0xc1: the visitor throws.
ParseError ==
  /\ pc = "header"
  /\ Byte = 193
  /\ End("parse_error")
  /\ UNCHANGED <<data, current, cs, trail, stack, pointers, allocated, objects>>

\* Mutant: an empty aggregate is pushed like any other.
StartUnchecked(type, n, last) ==
  /\ Write(Object(type, allocated + 1, n))
  /\ allocated' = allocated + Slots(type, n)
  /\ stack' = Append(stack, [is |-> IF type = "MAP" THEN "MAP_KEY" ELSE "ARRAY_ITEM", rest |-> n])
  /\ pointers' = Append(pointers, allocated + 1)
  /\ Iterate(last + 1)
  /\ UNCHANGED <<data, trail>>

\* start_aggregate, for a header that ends at a position: an empty array or
\* map is a value like another (what start pushes, end pops); a longer one
\* gets its slots and is pushed on both stacks.
StartAggregate(type, n, last) ==
  \/ /\ n = 0
     /\ Visit(Object(type, 0, 0), last)
  \/ /\ n # 0
     /\ Write(Object(type, allocated + 1, n))
     /\ allocated' = allocated + Slots(type, n)
     /\ stack' = Append(stack, [is |-> IF type = "MAP" THEN "MAP_KEY" ELSE "ARRAY_ITEM", rest |-> n])
     /\ pointers' = Append(pointers, allocated + 1)
     /\ Iterate(last + 1)
     /\ UNCHANGED <<data, trail>>

StartFixed ==
  /\ pc = "header"
  /\ Byte \in FixMap \cup FixArray
  /\ StartAggregate(IF Byte \in FixMap THEN "MAP" ELSE "ARRAY", Byte % 16, current)

\* The bytes that should follow are there.
Enough == pc = "trail" /\ pe - current >= trail

\* Mutant: a value that is there in part is waited for.
InsufficientIfNothing ==
  /\ pc = "trail"
  /\ current = pe
  /\ End("insufficient_bytes")
  /\ UNCHANGED <<data, current, cs, trail, stack, pointers, allocated, objects>>

Insufficient ==
  /\ pc = "trail"
  /\ ~Enough
  /\ End("insufficient_bytes")
  /\ UNCHANGED <<data, current, cs, trail, stack, pointers, allocated, objects>>

VisitTrail ==
  /\ Enough
  /\ cs \in Numbers \cup Values
  /\ Visit(Scalar(TypeOf(cs, current), current, trail), current + trail - 1)

\* A length is followed by as many bytes, and an ext by its type too; an empty
\* string or binary is visited at once.
LoadLength ==
  /\ Enough
  /\ cs \in Lengths
  /\ LET length == Load(current, trail) + (IF cs = "EXT" THEN 1 ELSE 0) IN
     \/ /\ length = 0
        /\ Visit(Scalar(TypeOf(cs, current), current, 0), current + trail - 1)
     \/ /\ length # 0
        /\ trail' = length
        /\ cs' = (CASE cs = "STR" -> "STR_VALUE" [] cs = "BIN" -> "BIN_VALUE" [] cs = "EXT" -> "EXT_VALUE")
        /\ current' = current + trail
        /\ UNCHANGED <<data, pc, stack, pointers, allocated, objects, outcome>>

StartTrail ==
  /\ Enough
  /\ cs \in Containers
  /\ StartAggregate(cs, Load(current, trail), current + trail - 1)

----------------------------------------------------------------------------
(***************************************************************************)
(* consume, one turn of its loop at a time                                 *)
(***************************************************************************)
\* Mutant: a key ends its map.
EndAggregateAtKey ==
  /\ pc = "consume"
  /\ stack # <<>>
  /\ Top.rest = 1
  /\ stack' = Pop(stack)
  /\ pointers' = Pop(pointers)
  /\ UNCHANGED <<data, pc, current, cs, trail, allocated, objects, outcome>>

\* The last element of an array or a map: both stacks are popped, and the
\* container is an element of what lies below it.
EndAggregate ==
  /\ pc = "consume"
  /\ stack # <<>>
  /\ Top.is # "MAP_KEY" /\ Top.rest = 1
  /\ stack' = Pop(stack)
  /\ pointers' = Pop(pointers)
  /\ UNCHANGED <<data, pc, current, cs, trail, allocated, objects, outcome>>

\* Mutant: the value of a pair leaves the pointer where it is.
NextElementStuck ==
  /\ pc = "consume"
  /\ stack # <<>>
  /\ Top.is = "MAP_KEY" \/ Top.rest > 1
  /\ stack' = [stack EXCEPT ![Len(stack)] =
       [is |-> CASE Top.is = "ARRAY_ITEM" -> "ARRAY_ITEM"
                 [] Top.is = "MAP_KEY" -> "MAP_VALUE" [] Top.is = "MAP_VALUE" -> "MAP_KEY",
        rest |-> IF Top.is = "MAP_KEY" THEN Top.rest ELSE Top.rest - 1]]
  /\ pointers' = [pointers EXCEPT ![Len(pointers)] = IF Top.is = "MAP_VALUE" THEN @ ELSE @ + 1]
  /\ Iterate(current + 1)
  /\ UNCHANGED <<data, trail, allocated, objects>>

\* Any other element: the visitor's pointer moves on, and so does the parser.
NextElement ==
  /\ pc = "consume"
  /\ stack # <<>>
  /\ Top.is = "MAP_KEY" \/ Top.rest > 1
  /\ stack' = [stack EXCEPT ![Len(stack)] =
       [is |-> CASE Top.is = "ARRAY_ITEM" -> "ARRAY_ITEM"
                 [] Top.is = "MAP_KEY" -> "MAP_VALUE" [] Top.is = "MAP_VALUE" -> "MAP_KEY",
        rest |-> IF Top.is = "MAP_KEY" THEN Top.rest ELSE Top.rest - 1]]
  /\ pointers' = [pointers EXCEPT ![Len(pointers)] = @ + 1]
  /\ Iterate(current + 1)
  /\ UNCHANGED <<data, trail, allocated, objects>>

\* Nothing is open: the object is whole.  Bytes behind it are told apart and
\* accepted (v3/unpack.hpp:36-39).  The parser goes with parse_imp, and what m_cs
\* is left at with it.
Finish ==
  /\ pc = "consume"
  /\ stack = <<>>
  /\ current' = current + 1
  /\ cs' = "HEADER"
  /\ End(IF current + 1 < pe THEN "extra_bytes" ELSE "success")
  /\ UNCHANGED <<data, trail, stack, pointers, allocated, objects>>

Next ==
  \/ Start
  \/ VisitOneByte \/ VisitEmptyFixStr \/ ReadTrail \/ ParseError \/ StartFixed
  \/ Insufficient \/ VisitTrail \/ LoadLength \/ StartTrail
  \/ EndAggregate \/ NextElement \/ Finish

\* One thread runs the parser to its end.
Spec == Init /\ [][Next]_vars /\ WF_vars(Next)

----------------------------------------------------------------------------
(***************************************************************************)
(* The conversion to a handler's parameters, object::as of a std::tuple    *)
(* (codec.h:51): of the object in slot 1 and of the slots of its elements. *)
(* The type_error it throws becomes unpack's invalid_argument.             *)
(***************************************************************************)
ParameterTypes == {"int", "bool", "string"}

\* No number out of the range of int: above its four bytes there is nothing but
\* the sign, and their own top bit is the sign.
InIntRange(o) ==
  LET top == o.first + o.size - 4 IN
  o.size >= 4 =>
    /\ data[top] < 128 <=> o.type = "POSITIVE_INTEGER"
    /\ \A i \in o.first .. top - 1 : data[i] = IF o.type = "POSITIVE_INTEGER" THEN 0 ELSE 255

\* The number in the last four bytes, or in all there are.
Integer(o) ==
  LET width == IF o.size < 4 THEN o.size ELSE 4
      at == o.first + o.size - width
  IN LoadFrom(IF o.type = "NEGATIVE_INTEGER" THEN data[at] - 256 ELSE data[at], at, width)

\* convert<int>, convert<bool> and convert<std::string> take an object, or throw.
Accepts(parameter, o) ==
  CASE parameter = "int" -> o.type \in {"POSITIVE_INTEGER", "NEGATIVE_INTEGER"} /\ InIntRange(o)
    [] parameter = "bool" -> o.type = "BOOLEAN"
    [] parameter = "string" -> o.type \in {"STR", "BIN"}

Argument(parameter, o) ==
  CASE parameter = "int" -> [is |-> "int", of |-> Integer(o)]
    [] parameter = "bool" -> [is |-> "bool", of |-> data[o.first] = 195]
    [] parameter = "string" ->
         [is |-> "string", of |-> SubSeq(data, o.first, o.first + o.size - 1)]

\* What a tuple holds before it is converted to.
DefaultOf(parameter) ==
  CASE parameter = "int" -> [is |-> "int", of |-> 0]
    [] parameter = "bool" -> [is |-> "bool", of |-> FALSE]
    [] parameter = "string" -> [is |-> "string", of |-> <<>>]

Element(i) == objects[objects[1].first + i - 1]

\* The tuple adaptor looks at an element only where the list has one.
Reaches(i) == i <= objects[1].size

\* unpack gives the message to the handler: it is a list, and each element that
\* there is a parameter for is of its type.
Unpacks(parameters) ==
  /\ outcome \in Accepted
  /\ objects[1].type = "ARRAY"
  /\ \A i \in DOMAIN parameters : Reaches(i) => Accepts(parameters[i], Element(i))

Unpack(parameters) ==
  [i \in DOMAIN parameters |->
     IF Reaches(i) THEN Argument(parameters[i], Element(i)) ELSE DefaultOf(parameters[i])]

----------------------------------------------------------------------------
(***************************************************************************)
(* Properties                                                              *)
(***************************************************************************)
Scalars == {"POSITIVE_INTEGER", "NEGATIVE_INTEGER", "NIL", "BOOLEAN", "FLOAT", "EXT", "STR", "BIN"}
Objects == [type : Scalars \cup Containers, first : Nat, size : Nat]
Frames == [is : {"ARRAY_ITEM", "MAP_KEY", "MAP_VALUE"}, rest : Nat \ {0}]

\* The types of the variables: where a byte is read there is one, and an open
\* container lacks an element.
TypeOK ==
  /\ data \in Seq(Bytes)
  /\ pc \in {"start", "header", "trail", "consume", "done"}
  /\ current \in 1 .. Len(data) + 1
  /\ pc \in {"header", "consume"} => current \in 1 .. Len(data)
  /\ cs \in {"HEADER"} \cup Numbers \cup Lengths \cup Values \cup Containers
  /\ trail \in Nat
  /\ stack \in Seq(Frames)
  /\ pointers \in Seq(Nat \ {0})
  /\ allocated \in Nat \ {0}
  /\ DOMAIN objects \subseteq 1 .. allocated
  /\ \A a \in DOMAIN objects : objects[a] \in Objects
  /\ outcome \in Outcomes \cup {NoOutcome}

\* What an object points to in the message (create_object_visitor.hpp:108-155)
\* lies in the part that was read, whatever lengths the message states.
WithinMessage ==
  \A a \in DOMAIN objects :
    objects[a].type \in Scalars =>
      objects[a].first + objects[a].size - (IF objects[a].type = "EXT" THEN 0 ELSE 1) <= current

\* The slots of a container that lie before the element being read.
Taken(frame, size) ==
  CASE frame.is = "ARRAY_ITEM" -> size - frame.rest
    [] frame.is = "MAP_KEY" -> 2 * (size - frame.rest)
    [] frame.is = "MAP_VALUE" -> 2 * (size - frame.rest) + 1

\* The parser (parse.hpp:145-223) and the visitor (create_object_visitor.hpp:
\* 156-224) count the elements of every open container alike, although neither
\* looks at the other's stack.
StacksAgree ==
  /\ Len(pointers) = Len(stack) + 1
  /\ \A i \in DOMAIN stack :
       /\ pointers[i] \in DOMAIN objects
       /\ LET container == objects[pointers[i]] IN
          /\ container.type = IF stack[i].is = "ARRAY_ITEM" THEN "ARRAY" ELSE "MAP"
          /\ stack[i].rest <= container.size
          /\ pointers[i + 1] = container.first + Taken(stack[i], container.size)

\* The slot the next object goes to was allocated and holds nothing yet, however
\* arrays and maps nest: the visitor writes through a bare pointer
\* (create_object_visitor.hpp:67-155) that only start, end and ++ have moved.
WritesFreshSlot ==
  pc \in {"header", "trail"} => Back \in 1 .. allocated /\ Back \notin DOMAIN objects

\* An object that is handed out (v3/unpack.hpp:36-39) holds no slot the zone
\* allocated and nobody wrote.
ObjectComplete == outcome \in Accepted => DOMAIN objects = 1 .. allocated

\* What is left to be done: bytes, open containers, and the rest of a turn.
Rank(place) ==
  CASE place = "start" -> 3 [] place \in {"header", "trail"} -> 2
    [] place = "consume" -> 1 [] place = "done" -> 0

Left == 2 * (pe - current) + Len(stack) + Rank(pc)

\* No step of the two loops, execute's (parse.hpp:260-628) and consume's inside it
\* (parse.hpp:182-222), leaves as much as there was.
Shrinks == [][Left' \in 0 .. Left - 1]_vars

\* Every message is parsed to an end (parse.hpp:260-628).
Terminates == <>(pc = "done")
=============================================================================
