------------------------------- MODULE Packer -------------------------------
(***************************************************************************)
(* The bytes msgpack_codec::pack_args makes of an argument list (codec.h:  *)
(* 20): the tuple packer of msgpack over packer's pack_array, pack_int,    *)
(* pack_str, pack_true and pack_false (v1/pack.hpp).  A message is the     *)
(* sequence of bytes appended to the buffer.                               *)
(***************************************************************************)
EXTENDS Integers, Sequences

\* The low bytes of a number, big-endian (_msgpack_store16, _msgpack_store32).
Store16(d) == <<(d \div 256) % 256, d % 256>>

Store32(d) == <<(d \div 16777216) % 256, (d \div 65536) % 256, (d \div 256) % 256, d % 256>>

\* One byte (take8_32), or the stores above.
Store(d, width) == IF width = 1 THEN <<d % 256>> ELSE IF width = 2 THEN Store16(d) ELSE Store32(d)

\* Mutant: a fixnum up to 255.
PackIntWide(d) ==
  IF d < -32 THEN
    IF d < -32768 THEN <<210>> \o Store(d, 4)
    ELSE IF d < -128 THEN <<209>> \o Store(d, 2) ELSE <<208>> \o Store(d, 1)
  ELSE IF d < 256 THEN Store(d, 1)
  ELSE IF d < 65536 THEN <<205>> \o Store(d, 2) ELSE <<206>> \o Store(d, 4)

PackInt(d) ==
  IF d < -32 THEN
    IF d < -32768 THEN <<210>> \o Store(d, 4)
    ELSE IF d < -128 THEN <<209>> \o Store(d, 2) ELSE <<208>> \o Store(d, 1)
  ELSE IF d < 128 THEN Store(d, 1)
  ELSE IF d < 256 THEN <<204>> \o Store(d, 1)
  ELSE IF d < 65536 THEN <<205>> \o Store(d, 2) ELSE <<206>> \o Store(d, 4)

PackBool(b) == IF b THEN <<195>> ELSE <<194>>

StrHeader(l) ==
  IF l < 32 THEN <<160 + l>>
  ELSE IF l < 256 THEN <<217>> \o Store(l, 1)
  ELSE IF l < 65536 THEN <<218>> \o Store(l, 2) ELSE <<219>> \o Store(l, 4)

\* pack_str and pack_str_body.
PackStr(s) == StrHeader(Len(s)) \o s

PackArray(n) ==
  IF n < 16 THEN <<144 + n>>
  ELSE IF n < 65536 THEN <<220>> \o Store(n, 2) ELSE <<221>> \o Store(n, 4)

Pack(arg) ==
  CASE arg.is = "int" -> PackInt(arg.of)
    [] arg.is = "bool" -> PackBool(arg.of)
    [] arg.is = "string" -> PackStr(arg.of)

\* StdTuplePacker: the array's header and the first N arguments.
PackFirst(args) ==
  LET packed[N \in 0 .. Len(args)] ==
        IF N = 0 THEN PackArray(Len(args)) ELSE packed[N - 1] \o Pack(args[N])
  IN packed

PackArgs(args) == PackFirst(args)[Len(args)]
=============================================================================
