------------------------------- MODULE Format -------------------------------
(***************************************************************************)
(* The format of MessagePack, as a grammar over positions in a sequence of *)
(* bytes, and what it says of the parser: v3/parse.hpp reads a message in  *)
(* one pass with two stacks; here an object is a header, its own bytes,    *)
(* and the objects it holds.                                               *)
(***************************************************************************)
EXTENDS Parser

Form(type, lengthBytes, n) == [type |-> type, lengthBytes |-> lengthBytes, n |-> n]
Itself == -1

PowerOf2 == <<1, 2, 4, 8, 16>>

\* What a first byte says: how many bytes of length follow, or how many bytes or
\* elements there are.
FormOf(b) ==
  CASE b \in 0 .. 127 -> Form("POSITIVE_INTEGER", 0, Itself)
    [] b \in 128 .. 143 -> Form("MAP", 0, b - 128)
    [] b \in 144 .. 159 -> Form("ARRAY", 0, b - 144)
    [] b \in 160 .. 191 -> Form("STR", 0, b - 160)
    [] b = 192 -> Form("NIL", 0, Itself)
    [] b \in {194, 195} -> Form("BOOLEAN", 0, Itself)
    [] b \in 196 .. 198 -> Form("BIN", PowerOf2[b - 195], 0)
    [] b \in 199 .. 201 -> Form("EXT", PowerOf2[b - 198], 0)
    [] b \in 202 .. 203 -> Form("FLOAT", 0, PowerOf2[b - 199])
    [] b \in 204 .. 207 -> Form("POSITIVE_INTEGER", 0, PowerOf2[b - 203])
    [] b \in 208 .. 211 -> Form("INT", 0, PowerOf2[b - 207])
    [] b \in 212 .. 216 -> Form("EXT", 0, 1 + PowerOf2[b - 211])
    [] b \in 217 .. 219 -> Form("STR", PowerOf2[b - 216], 0)
    [] b \in 220 .. 221 -> Form("ARRAY", PowerOf2[b - 218], 0)
    [] b \in 222 .. 223 -> Form("MAP", PowerOf2[b - 220], 0)
    [] b \in 224 .. 255 -> Form("NEGATIVE_INTEGER", 0, Itself)

\* A number of one, two or four bytes at a position, the first byte the highest.
BigEndian(bytes, at, n) ==
  CASE n = 1 -> bytes[at]
    [] n = 2 -> 256 * bytes[at] + bytes[at + 1]
    [] n = 4 -> 256 * (256 * (256 * bytes[at] + bytes[at + 1]) + bytes[at + 2]) + bytes[at + 3]

\* Of the object at a position: where what comes behind its header begins ...
BodyOf(bytes, at) == at + 1 + FormOf(bytes[at]).lengthBytes

\* ... and how many bytes or elements that is; the type of an ext counts.
CountOf(bytes, at) ==
  LET form == FormOf(bytes[at]) IN
  IF form.n = Itself THEN 0
  ELSE IF form.lengthBytes = 0 THEN form.n
  ELSE BigEndian(bytes, at + 1, form.lengthBytes) + (IF form.type = "EXT" THEN 1 ELSE 0)

IsContainer(bytes, at) == FormOf(bytes[at]).type \in Containers

ElementsOf(bytes, at) ==
  CASE FormOf(bytes[at]).type = "ARRAY" -> CountOf(bytes, at)
    [] FormOf(bytes[at]).type = "MAP" -> 2 * CountOf(bytes, at)
    [] OTHER -> 0

\* Behind its own bytes, which the elements of a container are not.
BehindOf(bytes, at) ==
  BodyOf(bytes, at) + (IF IsContainer(bytes, at) THEN 0 ELSE CountOf(bytes, at))

None == "none"

\* What is wrong with the object itself, if anything is.
FaultOf(bytes, at) ==
  IF at > Len(bytes) THEN "insufficient_bytes"
  ELSE IF bytes[at] = 193 THEN "parse_error"
  ELSE IF BodyOf(bytes, at) > Len(bytes) + 1 THEN "insufficient_bytes"
  ELSE IF BehindOf(bytes, at) > Len(bytes) + 1 THEN "insufficient_bytes"
  ELSE None

Tree(type, of) == [type |-> type, of |-> of]

TreeOf(bytes, at, elements) ==
  LET form == FormOf(bytes[at])
      first == IF form.n = Itself THEN at ELSE BodyOf(bytes, at)
  IN
  Tree(IF form.type # "INT" THEN form.type
       ELSE IF bytes[first] < 128 THEN "POSITIVE_INTEGER" ELSE "NEGATIVE_INTEGER",
       IF IsContainer(bytes, at) THEN elements
       ELSE SubSeq(bytes, first, BehindOf(bytes, at) - 1))

\* A tree and the n - 1 trees that follow it.
Before(tree, trees, n) == [i \in 1 .. n |-> IF i = 1 THEN tree ELSE trees[i - 1]]

Decoded(trees, next) == [is |-> "object", trees |-> trees, next |-> next]
Refused(why) == [is |-> why]

\* n objects from a position on: their trees and what lies behind them, or why
\* they are none.
Decode(bytes) ==
  LET decode[at \in 1 .. Len(bytes) + 1] ==
        [n \in Nat |->
          IF n = 0 THEN Decoded(<<>>, at)
          ELSE IF FaultOf(bytes, at) # None THEN Refused(FaultOf(bytes, at))
          ELSE
            LET held == decode[BehindOf(bytes, at)][ElementsOf(bytes, at)] IN
            IF held.is # "object" THEN held
            ELSE
              LET rest == decode[held.next][n - 1] IN
              IF rest.is # "object" THEN rest
              ELSE Decoded(Before(TreeOf(bytes, at, held.trees), rest.trees, n), rest.next)]
  IN decode

----------------------------------------------------------------------------
(***************************************************************************)
(* Properties                                                              *)
(***************************************************************************)
Message == Decode(data)[1][1]

\* The parser's loop and its two stacks (parse.hpp:244-629) accept exactly the
\* messages that begin with an object of the format and stop behind it; a
\* message is refused for the first thing wrong with it.
AcceptsFormat ==
  pc = "done" =>
    IF Message.is = "object"
    THEN /\ outcome = IF Message.next <= Len(data) THEN "extra_bytes" ELSE "success"
         /\ current = Message.next
    ELSE outcome = Message.is

\* The tree the visitor built below a slot; a container is written before its
\* elements are allocated.
Built ==
  LET built[a \in 1 .. allocated] ==
        LET o == objects[a] IN
        Tree(o.type,
             IF o.type \in Containers
             THEN [i \in 1 .. Slots(o.type, o.size) |-> built[o.first + i - 1]]
             ELSE SubSeq(data, o.first, o.first + o.size - (IF o.type = "EXT" THEN 0 ELSE 1)))
  IN built

\* The object that is handed out (create_object_visitor.hpp:67-224) is the one
\* the format says the message begins with, down to its last element.
BuildsFormat == outcome \in Accepted => Message.trees[1] = Built[1]
=============================================================================
