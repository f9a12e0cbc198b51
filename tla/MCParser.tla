------------------------------ MODULE MCParser ------------------------------
(***************************************************************************)
(* Messages for the parser.                                                *)
(***************************************************************************)
EXTENDS PackedArguments, Format

\* Strings over an alphabet.
Words(alphabet, length) == UNION {[1 .. n -> alphabet] : n \in 0 .. length}

Repeat(byte, n) == [i \in 1 .. n |-> byte]

int(d) == [is |-> "int", of |-> d]
bool(b) == [is |-> "bool", of |-> b]
string(n) == [is |-> "string", of |-> Repeat(161, n)]

\* Both sides of every threshold of the packer (two that take 64K of bytes or
\* of arguments are left out).
ArgumentValues ==
  {int(d) : d \in {-2147483647 - 1, -32769, -32768, -129, -128, -33, -32, -1, 0, 127,
                   128, 255, 256, 65535, 65536, 2147483647}}
    \cup {bool(TRUE), bool(FALSE)}
    \cup {string(n) : n \in {0, 1, 31, 32, 255, 256}}

MCArgumentLists ==
  {<<>>}
    \cup {<<a>> : a \in ArgumentValues}
    \cup {<<a, b>> : a, b \in {int(-33), int(256), bool(TRUE), string(0), string(2)}}
    \cup {Repeat(int(300), n) : n \in {15, 16, 17}}

\* The types of each of those lists, so that to every other list they are the
\* same, too few, too many or of other types.
MCParameterLists == {[i \in DOMAIN args |-> args[i].is] : args \in MCArgumentLists}

Packed == [args \in MCArgumentLists |-> PackArgs(args)]

\* Cut anywhere (long ones near their ends), whole, and with bytes behind them.
Sent ==
  UNION {LET whole == Packed[args] IN
         {SubSeq(whole, 1, n) : n \in {k \in 0 .. Len(whole) : k < 8 \/ k > Len(whole) - 3}}
           \cup {whole \o <<5>>, whole \o <<193, 146>>} : args \in MCArgumentLists}

\* Every header with a trail, with lengths of 0 and 1 and other values in every
\* byte of it, cut short or not.
Trails ==
  UNION {{<<h>> \o [i \in 1 .. n |-> IF i = k THEN b ELSE 0] :
           n \in {0, 1, 2, 3, 4, 5, 6, 8, 9, 16, 17, 18}, k \in 0 .. 5, b \in {1, 63}} :
         h \in WithTrail}

MCInputs ==
  Words({0, 1, 2, 5, 129, 144, 146, 161, 193, 217, 220, 224}, 4)
    \cup Words({1, 129, 130, 145, 146}, 6)
    \cup Sent \cup Trails
=============================================================================
