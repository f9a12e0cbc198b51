----------------------------- MODULE FormatProofs -----------------------------
(***************************************************************************)
(* Proofs that the parser reads MessagePack's format: for every message,   *)
(* however long and however its arrays and maps nest, it accepts what the  *)
(* grammar of Format accepts, and builds the object the grammar finds.     *)
(***************************************************************************)
EXTENDS Format, ParserProofs

----------------------------------------------------------------------------
(***************************************************************************)
(* First bytes.                                                            *)
(***************************************************************************)
Types == Scalars \cup {"INT"} \cup Containers

Header(b) == b \in Bytes /\ b # 193

LEMMA FormValues ==
  ASSUME NEW b, Header(b)
  PROVE  /\ b \in PositiveFixnum => FormOf(b) = Form("POSITIVE_INTEGER", 0, Itself)
         /\ b \in NegativeFixnum => FormOf(b) = Form("NEGATIVE_INTEGER", 0, Itself)
         /\ b \in FixMap => FormOf(b) = Form("MAP", 0, b - 128)
         /\ b \in FixArray => FormOf(b) = Form("ARRAY", 0, b - 144)
         /\ b \in FixStr => FormOf(b) = Form("STR", 0, b - 160)
         /\ b = 192 => FormOf(b) = Form("NIL", 0, Itself)
         /\ b \in {194, 195} => FormOf(b) = Form("BOOLEAN", 0, Itself)
         /\ b \in 196 .. 198 => FormOf(b) = Form("BIN", PowerOf2[b - 195], 0)
         /\ b \in 199 .. 201 => FormOf(b) = Form("EXT", PowerOf2[b - 198], 0)
         /\ b \in 202 .. 203 => FormOf(b) = Form("FLOAT", 0, PowerOf2[b - 199])
         /\ b \in 204 .. 207 => FormOf(b) = Form("POSITIVE_INTEGER", 0, PowerOf2[b - 203])
         /\ b \in 208 .. 211 => FormOf(b) = Form("INT", 0, PowerOf2[b - 207])
         /\ b \in 212 .. 216 => FormOf(b) = Form("EXT", 0, 1 + PowerOf2[b - 211])
         /\ b \in 217 .. 219 => FormOf(b) = Form("STR", PowerOf2[b - 216], 0)
         /\ b \in 220 .. 221 => FormOf(b) = Form("ARRAY", PowerOf2[b - 218], 0)
         /\ b \in 222 .. 223 => FormOf(b) = Form("MAP", PowerOf2[b - 220], 0)
BY SMT DEF FormOf, PositiveFixnum, NegativeFixnum, FixMap, FixArray, FixStr

LEMMA Powers ==
  /\ PowerOf2[1] = 1 /\ PowerOf2[2] = 2 /\ PowerOf2[3] = 4
  /\ PowerOf2[4] = 8 /\ PowerOf2[5] = 16
BY DEF PowerOf2

LEMMA HeaderKinds ==
  ASSUME NEW b, Header(b)
  PROVE  \/ b \in PositiveFixnum \/ b \in NegativeFixnum \/ b \in FixMap
         \/ b \in FixArray \/ b \in FixStr \/ b = 192 \/ b \in {194, 195}
         \/ b \in 196 .. 198 \/ b \in 199 .. 201 \/ b \in 202 .. 203
         \/ b \in 204 .. 207 \/ b \in 208 .. 211 \/ b \in 212 .. 216
         \/ b \in 217 .. 219 \/ b \in 220 .. 221 \/ b \in 222 .. 223
BY SMT DEF Header, Bytes, PositiveFixnum, NegativeFixnum, FixMap, FixArray, FixStr

LEMMA FormType ==
  ASSUME NEW b, Header(b)
  PROVE  /\ FormOf(b).type \in Types
         /\ FormOf(b).lengthBytes \in {0, 1, 2, 4}
         /\ FormOf(b).n \in Nat \cup {Itself}
         /\ FormOf(b).type \in Containers => FormOf(b).n # Itself
BY FormValues, HeaderKinds, Powers, SMT
   DEF Form, Types, Scalars, Containers, Itself, PositiveFixnum, NegativeFixnum,
       FixMap, FixArray, FixStr
----------------------------------------------------------------------------
(***************************************************************************)
(* The grammar: an object takes up bytes, so that its definition by        *)
(* recursion over positions is one.                                        *)
(***************************************************************************)
Positions(bytes) == 1 .. Len(bytes) + 1
Sound(bytes, at) == FaultOf(bytes, at) = None

LEMMA ByteAt ==
  ASSUME NEW bytes \in Seq(Bytes), NEW at \in Int, 1 <= at, at <= Len(bytes)
  PROVE  bytes[at] \in Bytes /\ bytes[at] \in Nat
<1>1. bytes[at] \in Bytes
  OBVIOUS
<1>2. \A b \in Bytes : b \in Nat
  BY DEF Bytes
<1>3. QED BY <1>1, <1>2

LEMMA BigEndianType ==
  ASSUME NEW bytes \in Seq(Bytes), NEW at \in Nat \ {0}, NEW n \in {1, 2, 4},
         at + n <= Len(bytes) + 1
  PROVE  BigEndian(bytes, at, n) \in Nat
<1>1. CASE n = 1
  <2>1. bytes[at] \in Nat
    BY <1>1, ByteAt
  <2>2. QED BY <1>1, <2>1 DEF BigEndian
<1>2. CASE n = 2
  <2>1. bytes[at] \in Nat /\ bytes[at + 1] \in Nat
    BY <1>2, ByteAt
  <2>2. BigEndian(bytes, at, n) = 256 * bytes[at] + bytes[at + 1]
    BY <1>2 DEF BigEndian
  <2>3. QED BY <2>1, <2>2
<1>3. CASE n = 4
  <2>1. /\ bytes[at] \in Nat /\ bytes[at + 1] \in Nat
        /\ bytes[at + 2] \in Nat /\ bytes[at + 3] \in Nat
    BY <1>3, ByteAt
  <2>2. BigEndian(bytes, at, n) =
          256 * (256 * (256 * bytes[at] + bytes[at + 1]) + bytes[at + 2]) + bytes[at + 3]
    BY <1>3 DEF BigEndian
  <2>3. PICK a, b, c, d \in Nat :
          /\ a = bytes[at] /\ b = bytes[at + 1]
          /\ c = bytes[at + 2] /\ d = bytes[at + 3]
    BY <2>1
  <2>4. 256 * (256 * (256 * a + b) + c) + d \in Nat
    BY SMT
  <2>5. QED BY <2>2, <2>3, <2>4, Zenon
<1>4. QED BY <1>1, <1>2, <1>3

\* The parts of an object that is not cut.
LEMMA SoundFacts ==
  ASSUME NEW bytes \in Seq(Bytes), NEW at \in Positions(bytes), Sound(bytes, at)
  PROVE  /\ at \in 1 .. Len(bytes)
         /\ Header(bytes[at])
         /\ BodyOf(bytes, at) \in at + 1 .. Len(bytes) + 1
         /\ CountOf(bytes, at) \in Nat
         /\ ElementsOf(bytes, at) \in Nat
         /\ BehindOf(bytes, at) \in at + 1 .. Len(bytes) + 1
<1> USE DEF Positions
<1>1. at \in 1 .. Len(bytes) /\ bytes[at] # 193
  BY DEF Sound, FaultOf, None
<1>2. Header(bytes[at])
  BY <1>1, ByteAt DEF Header
<1>3. PICK form : form = FormOf(bytes[at])
  OBVIOUS
<1>4. /\ form.type \in Types
      /\ form.lengthBytes \in {0, 1, 2, 4}
      /\ form.n \in Nat \cup {Itself}
  BY <1>2, <1>3, FormType
<1>5. BodyOf(bytes, at) = at + 1 + form.lengthBytes /\ BodyOf(bytes, at) \in Nat
  BY <1>3, <1>4 DEF BodyOf
<1>6. BodyOf(bytes, at) \in at + 1 .. Len(bytes) + 1
  <2>1. BodyOf(bytes, at) <= Len(bytes) + 1
    BY <1>1, <1>5 DEF Sound, FaultOf, None
  <2>2. QED BY <1>4, <1>5, <2>1
<1>7. form.lengthBytes # 0 => BigEndian(bytes, at + 1, form.lengthBytes) \in Nat
  BY <1>4, <1>5, <1>6, BigEndianType
<1>8. CountOf(bytes, at) \in Nat
  BY <1>3, <1>4, <1>7 DEF CountOf
<1>9. ElementsOf(bytes, at) \in Nat
  BY <1>8 DEF ElementsOf
<1>10. BehindOf(bytes, at) \in at + 1 .. Len(bytes) + 1
  <2>1. BehindOf(bytes, at) \in Nat /\ BehindOf(bytes, at) >= BodyOf(bytes, at)
    BY <1>5, <1>8 DEF BehindOf
  <2>2. BehindOf(bytes, at) <= Len(bytes) + 1
    BY <1>1, <1>5, <1>6, <2>1 DEF Sound, FaultOf, None
  <2>3. QED BY <1>6, <2>1, <2>2
<1>11. QED BY <1>1, <1>2, <1>6, <1>8, <1>9, <1>10
DecodeStep(bytes, f, at, n) ==
  IF n = 0 THEN Decoded(<<>>, at)
  ELSE IF FaultOf(bytes, at) # None THEN Refused(FaultOf(bytes, at))
  ELSE
    LET held == f[BehindOf(bytes, at)][ElementsOf(bytes, at)] IN
    IF held.is # "object" THEN held
    ELSE
      LET rest == f[held.next][n - 1] IN
      IF rest.is # "object" THEN rest
      ELSE Decoded(Before(TreeOf(bytes, at, held.trees), rest.trees, n), rest.next)

From(bytes, low) == low .. Len(bytes) + 1

IsDecode(bytes, f, low) ==
  f = [at \in From(bytes, low) |-> [n \in Nat |-> DecodeStep(bytes, f, at, n)]]

\* Objects lie one behind the other.
Onward(bytes, f, low) ==
  \A at \in From(bytes, low), n \in Nat :
    f[at][n].is = "object" => f[at][n].next \in From(bytes, at)

LEMMA FaultNames ==
  ASSUME NEW bytes, NEW at
  PROVE  FaultOf(bytes, at) # "object"
BY DEF FaultOf, None

\* A step looks at later positions only.
LEMMA StepLooksOnward ==
  ASSUME NEW bytes \in Seq(Bytes), NEW f, NEW g, NEW at \in Positions(bytes), NEW n \in Nat,
         \A later \in From(bytes, at + 1) : g[later] = f[later],
         Onward(bytes, f, at + 1)
  PROVE  /\ DecodeStep(bytes, g, at, n) = DecodeStep(bytes, f, at, n)
         /\ DecodeStep(bytes, f, at, n).is = "object" =>
              DecodeStep(bytes, f, at, n).next \in From(bytes, at)
<1> USE DEF Positions, From
<1>1. CASE n = 0
  <2>1. /\ DecodeStep(bytes, f, at, n) = Decoded(<<>>, at)
        /\ DecodeStep(bytes, g, at, n) = Decoded(<<>>, at)
    BY <1>1 DEF DecodeStep, Sound
  <2>2. QED BY <2>1 DEF Decoded
<1>2. CASE n # 0 /\ ~ Sound(bytes, at)
  <2>1. /\ DecodeStep(bytes, f, at, n) = Refused(FaultOf(bytes, at))
        /\ DecodeStep(bytes, g, at, n) = Refused(FaultOf(bytes, at))
    BY <1>2 DEF DecodeStep, Sound
  <2>2. QED BY <2>1, FaultNames DEF Refused
<1>3. CASE n # 0 /\ Sound(bytes, at)
  <2>1. PICK behind \in From(bytes, at + 1) : behind = BehindOf(bytes, at)
    BY <1>3, SoundFacts
  <2>2. PICK elements \in Nat : elements = ElementsOf(bytes, at)
    BY <1>3, SoundFacts
  <2>3. PICK held : held = f[behind][elements]
    OBVIOUS
  <2>4. g[behind] = f[behind]
    BY <2>1
  <2>5. CASE held.is # "object"
    <3>1. DecodeStep(bytes, f, at, n) = held
      BY <1>3, <2>1, <2>2, <2>3, <2>5 DEF DecodeStep, Sound
    <3>2. DecodeStep(bytes, g, at, n) = held
      BY <1>3, <2>1, <2>2, <2>3, <2>4, <2>5 DEF DecodeStep, Sound
    <3>3. QED BY <2>5, <3>1, <3>2
  <2>6. CASE held.is = "object"
    <3>1. held.next \in From(bytes, at + 1)
      BY <2>1, <2>2, <2>3, <2>6 DEF Onward
    <3>2. PICK rest : rest = f[held.next][n - 1]
      OBVIOUS
    <3>3. g[held.next] = f[held.next]
      BY <3>1
    <3>4. n - 1 \in Nat
      BY <1>3
    <3>5. CASE rest.is # "object"
      <4>1. DecodeStep(bytes, f, at, n) = rest
        BY <1>3, <2>1, <2>2, <2>3, <2>6, <3>2, <3>5 DEF DecodeStep, Sound
      <4>2. DecodeStep(bytes, g, at, n) = rest
        BY <1>3, <2>1, <2>2, <2>3, <2>4, <2>6, <3>2, <3>3, <3>5 DEF DecodeStep, Sound
      <4>3. QED BY <3>5, <4>1, <4>2
    <3>6. CASE rest.is = "object"
      <4> DEFINE whole == Decoded(Before(TreeOf(bytes, at, held.trees), rest.trees, n), rest.next)
      <4>1. DecodeStep(bytes, f, at, n) = whole
        BY <1>3, <2>1, <2>2, <2>3, <2>6, <3>2, <3>6 DEF DecodeStep, Sound
      <4>2. DecodeStep(bytes, g, at, n) = whole
        BY <1>3, <2>1, <2>2, <2>3, <2>4, <2>6, <3>2, <3>3, <3>6 DEF DecodeStep, Sound
      <4>3. whole.next = rest.next
        BY DEF Decoded
      <4>4. rest.next \in From(bytes, held.next)
        BY <3>1, <3>2, <3>4, <3>6 DEF Onward
      <4>5. QED BY <3>1, <4>1, <4>2, <4>3, <4>4
    <3>7. QED BY <3>5, <3>6
  <2>7. QED BY <2>5, <2>6
<1>4. QED BY <1>1, <1>2, <1>3
LEMMA Applied ==
  ASSUME NEW bytes, NEW f, NEW low, IsDecode(bytes, f, low),
         NEW at \in From(bytes, low), NEW n \in Nat
  PROVE  f[at][n] = DecodeStep(bytes, f, at, n)
<1> DEFINE h == [a \in From(bytes, low) |-> [m \in Nat |-> DecodeStep(bytes, f, a, m)]]
<1>1. f = h
  BY DEF IsDecode
<1>2. h[at][n] = DecodeStep(bytes, f, at, n)
  OBVIOUS
<1> HIDE DEF h
<1>3. f[at][n] = h[at][n]
  BY <1>1
<1>4. QED BY <1>2, <1>3

LEMMA DecodeExists ==
  ASSUME NEW bytes \in Seq(Bytes)
  PROVE  \E f : IsDecode(bytes, f, 1) /\ Onward(bytes, f, 1)
<1> DEFINE Last == Len(bytes) + 1
           There(low) == \E f : IsDecode(bytes, f, low) /\ Onward(bytes, f, low)
           S == {m \in Nat : m < Last => There(Last - m)}
<1>0. Last \in Nat /\ Len(bytes) \in Nat
  OBVIOUS
<1>1. There(Last + 1)
  <2> DEFINE f == [at \in From(bytes, Last + 1) |-> [n \in Nat |-> 0]]
  <2>1. From(bytes, Last + 1) = {}
    BY <1>0 DEF From
  <2>2. IsDecode(bytes, f, Last + 1) /\ Onward(bytes, f, Last + 1)
    BY <2>1 DEF IsDecode, Onward
  <2>3. QED BY <2>2
<1>2. ASSUME NEW low \in Positions(bytes), There(low + 1) PROVE There(low)
  <2>1. PICK f : IsDecode(bytes, f, low + 1) /\ Onward(bytes, f, low + 1)
    BY <1>2
  <2> DEFINE g == [at \in From(bytes, low) |-> [n \in Nat |-> DecodeStep(bytes, f, at, n)]]
  <2>2. \A at \in From(bytes, low) : at = low \/ at \in From(bytes, low + 1)
    BY DEF From, Positions
  <2>3. \A at \in From(bytes, low + 1) : at \in From(bytes, low)
    BY DEF From, Positions
  <2>4. \A at \in From(bytes, low + 1) : g[at] = f[at]
    BY <2>1, <2>3 DEF IsDecode
  <2>5. ASSUME NEW at \in From(bytes, low), NEW n \in Nat
        PROVE  /\ DecodeStep(bytes, g, at, n) = DecodeStep(bytes, f, at, n)
               /\ DecodeStep(bytes, f, at, n).is = "object" =>
                    DecodeStep(bytes, f, at, n).next \in From(bytes, at)
    <3>1. at \in Positions(bytes)
      BY DEF From, Positions
    <3>2. \A later \in From(bytes, at + 1) : later \in From(bytes, low + 1)
      BY DEF From, Positions
    <3>3. Onward(bytes, f, at + 1)
      BY <2>1, <3>2 DEF Onward
    <3>4. \A later \in From(bytes, at + 1) : g[later] = f[later]
      BY <2>4, <3>2
    <3> HIDE DEF g
    <3>5. QED BY <3>1, <3>3, <3>4, StepLooksOnward
  <2>6. g = [at \in From(bytes, low) |-> [n \in Nat |-> DecodeStep(bytes, g, at, n)]]
    BY <2>5
  <2>7. \A at \in From(bytes, low), n \in Nat : g[at][n] = DecodeStep(bytes, f, at, n)
    OBVIOUS
  <2>8. Onward(bytes, g, low)
    BY <2>5, <2>7 DEF Onward
  <2> HIDE DEF g
  <2>9. IsDecode(bytes, g, low)
    BY <2>6 DEF IsDecode
  <2>10. QED BY <2>8, <2>9
<1> HIDE DEF There
<1>3. 0 \in S
  <2>1. Last - 0 = Last /\ Last \in Positions(bytes)
    BY <1>0 DEF Positions
  <2>2. QED BY <1>1, <1>2, <2>1
<1>4. ASSUME NEW m \in Nat, m \in S PROVE m + 1 \in S
  <2> SUFFICES ASSUME m + 1 < Last PROVE There(Last - (m + 1))
    OBVIOUS
  <2>1. There(Last - m)
    BY <1>4
  <2>2. Last - (m + 1) \in Positions(bytes) /\ (Last - (m + 1)) + 1 = Last - m
    BY <1>0 DEF Positions
  <2>3. QED BY <1>2, <2>1, <2>2
<1>5. Nat \subseteq S
  BY <1>3, <1>4, EveryNumber
<1>6. Len(bytes) \in S /\ Len(bytes) < Last /\ Last - Len(bytes) = 1
  BY <1>0, <1>5
<1>7. There(1)
  BY <1>6
<1>8. QED BY <1>7 DEF There

LEMMA DecodeIsOnward ==
  ASSUME NEW bytes \in Seq(Bytes), NEW f, IsDecode(bytes, f, 1)
  PROVE  Onward(bytes, f, 1)
<1> DEFINE Last == Len(bytes) + 1
           S == {m \in Nat : m < Last => Onward(bytes, f, Last - m)}
<1>0. Last \in Nat /\ Len(bytes) \in Nat
  OBVIOUS
<1>1. Onward(bytes, f, Last + 1)
  BY <1>0 DEF Onward, From
<1>2. ASSUME NEW low \in Positions(bytes), Onward(bytes, f, low + 1) PROVE Onward(bytes, f, low)
  <2>1. ASSUME NEW n \in Nat, f[low][n].is = "object"
        PROVE  f[low][n].next \in From(bytes, low)
    <3>1. DecodeStep(bytes, f, low, n).is = "object" =>
            DecodeStep(bytes, f, low, n).next \in From(bytes, low)
      BY <1>2, StepLooksOnward
    <3>2. low \in From(bytes, 1)
      BY DEF From, Positions
    <3>3. f[low][n] = DecodeStep(bytes, f, low, n)
      BY <3>2, Applied
    <3>4. QED BY <2>1, <3>1, <3>3
  <2>2. \A at \in From(bytes, low) : at = low \/ at \in From(bytes, low + 1)
    BY DEF From, Positions
  <2>3. QED BY <1>2, <2>1, <2>2 DEF Onward
<1>3. 0 \in S
  <2>1. Last - 0 = Last /\ Last \in Positions(bytes)
    BY <1>0 DEF Positions
  <2>2. QED BY <1>1, <1>2, <2>1
<1>4. ASSUME NEW m \in Nat, m \in S PROVE m + 1 \in S
  <2> SUFFICES ASSUME m + 1 < Last PROVE Onward(bytes, f, Last - (m + 1))
    OBVIOUS
  <2>1. Onward(bytes, f, Last - m)
    BY <1>4
  <2>2. Last - (m + 1) \in Positions(bytes) /\ (Last - (m + 1)) + 1 = Last - m
    BY <1>0 DEF Positions
  <2>3. QED BY <1>2, <2>1, <2>2
<1>5. Nat \subseteq S
  BY <1>3, <1>4, EveryNumber
<1>6. Len(bytes) \in S /\ Len(bytes) < Last /\ Last - Len(bytes) = 1
  BY <1>0, <1>5
<1>7. QED BY <1>6

LEMMA DecodeIs ==
  ASSUME NEW bytes \in Seq(Bytes)
  PROVE  IsDecode(bytes, Decode(bytes), 1) /\ Onward(bytes, Decode(bytes), 1)
<1>1. PICK f : IsDecode(bytes, f, 1)
  BY DecodeExists
<1>2. Decode(bytes) = CHOOSE d : IsDecode(bytes, d, 1)
  BY DEF Decode, IsDecode, DecodeStep, From
<1>3. IsDecode(bytes, Decode(bytes), 1)
  BY <1>1, <1>2
<1>4. QED BY <1>3, DecodeIsOnward
----------------------------------------------------------------------------
(***************************************************************************)
(* Stretches of objects.                                                   *)
(***************************************************************************)

\* From a position on there are n objects, which end before another.
Stretch(bytes, at, n, next) ==
  Decode(bytes)[at][n].is = "object" /\ Decode(bytes)[at][n].next = next

Fails(bytes, at, n, why) == Decode(bytes)[at][n].is = why /\ why # "object"

TreesAt(bytes, at, n) == Decode(bytes)[at][n].trees

LEMMA DecodeStepIs ==
  ASSUME NEW bytes \in Seq(Bytes), NEW at \in Positions(bytes), NEW n \in Nat
  PROVE  Decode(bytes)[at][n] = DecodeStep(bytes, Decode(bytes), at, n)
<1>1. at \in From(bytes, 1)
  BY DEF From, Positions
<1>2. QED BY <1>1, DecodeIs, Applied

LEMMA StretchEnds ==
  ASSUME NEW bytes \in Seq(Bytes), NEW at \in Positions(bytes), NEW n \in Nat, NEW next,
         Stretch(bytes, at, n, next)
  PROVE  next \in Positions(bytes) /\ at <= next
<1>1. at \in From(bytes, 1)
  BY DEF From, Positions
<1>2. next \in From(bytes, at)
  BY <1>1, DecodeIs DEF Stretch, Onward
<1>3. QED BY <1>2 DEF From, Positions

LEMMA NothingRead ==
  ASSUME NEW bytes \in Seq(Bytes), NEW at \in Positions(bytes)
  PROVE  /\ Stretch(bytes, at, 0, at)
         /\ \A next : Stretch(bytes, at, 0, next) => next = at
<1>1. Decode(bytes)[at][0] = DecodeStep(bytes, Decode(bytes), at, 0)
  BY DecodeStepIs
<1>2. Decode(bytes)[at][0] = Decoded(<<>>, at)
  BY <1>1 DEF DecodeStep
<1>3. QED BY <1>2 DEF Stretch, Decoded

\* What is wrong with the first object is what is wrong.
LEMMA FaultFails ==
  ASSUME NEW bytes \in Seq(Bytes), NEW at \in Positions(bytes), NEW n \in Nat \ {0},
         ~ Sound(bytes, at)
  PROVE  Fails(bytes, at, n, FaultOf(bytes, at))
<1>1. Decode(bytes)[at][n] = Refused(FaultOf(bytes, at))
  BY DecodeStepIs DEF DecodeStep, Sound
<1>2. QED BY <1>1, FaultNames DEF Fails, Refused

LEMMA HeldFails ==
  ASSUME NEW bytes \in Seq(Bytes), NEW at \in Positions(bytes), NEW n \in Nat \ {0}, NEW why,
         Sound(bytes, at), Fails(bytes, BehindOf(bytes, at), ElementsOf(bytes, at), why)
  PROVE  Fails(bytes, at, n, why)
<1>1. Decode(bytes)[at][n] = Decode(bytes)[BehindOf(bytes, at)][ElementsOf(bytes, at)]
  BY DecodeStepIs DEF DecodeStep, Sound, Fails
<1>2. QED BY <1>1 DEF Fails

LEMMA RestFails ==
  ASSUME NEW bytes \in Seq(Bytes), NEW at \in Positions(bytes), NEW n \in Nat \ {0},
         NEW mid, NEW why,
         Sound(bytes, at), Stretch(bytes, BehindOf(bytes, at), ElementsOf(bytes, at), mid),
         Fails(bytes, mid, n - 1, why)
  PROVE  Fails(bytes, at, n, why)
<1>1. Decode(bytes)[at][n] = Decode(bytes)[mid][n - 1]
  BY DecodeStepIs DEF DecodeStep, Sound, Fails, Stretch
<1>2. QED BY <1>1 DEF Fails

LEMMA RestRead ==
  ASSUME NEW bytes \in Seq(Bytes), NEW at \in Positions(bytes), NEW n \in Nat \ {0},
         NEW mid, NEW next,
         Sound(bytes, at), Stretch(bytes, BehindOf(bytes, at), ElementsOf(bytes, at), mid),
         Stretch(bytes, mid, n - 1, next)
  PROVE  /\ Stretch(bytes, at, n, next)
         /\ TreesAt(bytes, at, n) =
              Before(TreeOf(bytes, at, TreesAt(bytes, BehindOf(bytes, at), ElementsOf(bytes, at))),
                     TreesAt(bytes, mid, n - 1), n)
<1>1. Decode(bytes)[at][n] =
        Decoded(Before(TreeOf(bytes, at, TreesAt(bytes, BehindOf(bytes, at), ElementsOf(bytes, at))),
                       TreesAt(bytes, mid, n - 1), n), next)
  BY DecodeStepIs DEF DecodeStep, Sound, Stretch, TreesAt
<1>2. QED BY <1>1 DEF Stretch, TreesAt, Decoded

\* A stretch begins with an object, and that with what it holds.
LEMMA StretchParts ==
  ASSUME NEW bytes \in Seq(Bytes), NEW at \in Positions(bytes), NEW n \in Nat \ {0}, NEW next,
         Stretch(bytes, at, n, next)
  PROVE  /\ Sound(bytes, at)
         /\ \E mid \in Positions(bytes) :
              /\ Stretch(bytes, BehindOf(bytes, at), ElementsOf(bytes, at), mid)
              /\ Stretch(bytes, mid, n - 1, next)
<1>1. Sound(bytes, at)
  BY FaultFails DEF Fails, Stretch
<1>2. PICK held : held = Decode(bytes)[BehindOf(bytes, at)][ElementsOf(bytes, at)]
  OBVIOUS
<1>3. held.is = "object"
  BY <1>1, <1>2, HeldFails DEF Fails, Stretch
<1>4. Stretch(bytes, BehindOf(bytes, at), ElementsOf(bytes, at), held.next)
  BY <1>2, <1>3 DEF Stretch
<1>5. held.next \in Positions(bytes)
  <2>1. BehindOf(bytes, at) \in Positions(bytes) /\ ElementsOf(bytes, at) \in Nat
    BY <1>1, SoundFacts DEF Positions
  <2>2. QED BY <1>4, <2>1, StretchEnds
<1>6. Decode(bytes)[held.next][n - 1].is = "object"
  BY <1>1, <1>4, RestFails DEF Fails, Stretch
<1>7. Stretch(bytes, held.next, n - 1, Decode(bytes)[held.next][n - 1].next)
  BY <1>6 DEF Stretch
<1>8. Stretch(bytes, at, n, Decode(bytes)[held.next][n - 1].next)
  BY <1>1, <1>4, <1>7, RestRead
<1>9. Decode(bytes)[held.next][n - 1].next = next
  BY <1>8 DEF Stretch
<1>10. QED BY <1>1, <1>4, <1>5, <1>7, <1>9
LEMMA ObjectRead ==
  ASSUME NEW bytes \in Seq(Bytes), NEW at \in Positions(bytes), NEW next, Sound(bytes, at),
         Stretch(bytes, BehindOf(bytes, at), ElementsOf(bytes, at), next)
  PROVE  /\ Stretch(bytes, at, 1, next)
         /\ TreesAt(bytes, at, 1)[1] =
              TreeOf(bytes, at, TreesAt(bytes, BehindOf(bytes, at), ElementsOf(bytes, at)))
<1>1. BehindOf(bytes, at) \in Positions(bytes) /\ ElementsOf(bytes, at) \in Nat
  BY SoundFacts DEF Positions
<1>2. next \in Positions(bytes)
  BY <1>1, StretchEnds
<1>3. Stretch(bytes, next, 0, next)
  BY <1>2, NothingRead
<1>4. 1 \in Nat \ {0} /\ 1 - 1 = 0
  OBVIOUS
<1>5. Stretch(bytes, next, 1 - 1, next)
  BY <1>3, <1>4
<1>6. PICK tree : tree = TreeOf(bytes, at, TreesAt(bytes, BehindOf(bytes, at), ElementsOf(bytes, at)))
  OBVIOUS
<1>7. /\ Stretch(bytes, at, 1, next)
      /\ TreesAt(bytes, at, 1) = Before(tree, TreesAt(bytes, next, 1 - 1), 1)
  BY <1>4, <1>5, <1>6, RestRead
<1>8. \A trees : Before(tree, trees, 1)[1] = tree
  BY DEF Before
<1>9. QED BY <1>6, <1>7, <1>8

LEMMA ObjectFails ==
  ASSUME NEW bytes \in Seq(Bytes), NEW at \in Positions(bytes), NEW why,
         Fails(bytes, at, 1, why)
  PROVE  \A n \in Nat \ {0} : Fails(bytes, at, n, why)
<1>1. CASE ~ Sound(bytes, at)
  <2>1. \A n \in Nat \ {0} : Fails(bytes, at, n, FaultOf(bytes, at))
    BY <1>1, FaultFails
  <2>2. why = FaultOf(bytes, at)
    BY <2>1 DEF Fails
  <2>3. QED BY <2>1, <2>2
<1>2. CASE Sound(bytes, at)
  <2>1. PICK held : held = Decode(bytes)[BehindOf(bytes, at)][ElementsOf(bytes, at)]
    OBVIOUS
  <2>2. CASE held.is = "object"
    <3>1. Stretch(bytes, BehindOf(bytes, at), ElementsOf(bytes, at), held.next)
      BY <2>1, <2>2 DEF Stretch
    <3>2. Stretch(bytes, at, 1, held.next)
      BY <1>2, <3>1, ObjectRead
    <3>3. QED BY <3>2 DEF Stretch, Fails
  <2>3. CASE held.is # "object"
    <3>1. Fails(bytes, BehindOf(bytes, at), ElementsOf(bytes, at), held.is)
      BY <2>1, <2>3 DEF Fails
    <3>2. \A n \in Nat \ {0} : Fails(bytes, at, n, held.is)
      BY <1>2, <3>1, HeldFails
    <3>3. why = held.is
      BY <3>2 DEF Fails
    <3>4. QED BY <3>2, <3>3
  <2>4. QED BY <2>2, <2>3
<1>3. QED BY <1>1, <1>2

\* One object more.
LEMMA Longer ==
  ASSUME NEW bytes \in Seq(Bytes)
  PROVE  \A n \in Nat : \A at, mid, next \in Positions(bytes) :
           Stretch(bytes, at, n, mid) /\ Stretch(bytes, mid, 1, next) =>
             /\ Stretch(bytes, at, n + 1, next)
             /\ \A i \in 1 .. n : TreesAt(bytes, at, n + 1)[i] = TreesAt(bytes, at, n)[i]
             /\ TreesAt(bytes, at, n + 1)[n + 1] = TreesAt(bytes, mid, 1)[1]
<1> DEFINE Holds(n) == \A at, mid, next \in Positions(bytes) :
             Stretch(bytes, at, n, mid) /\ Stretch(bytes, mid, 1, next) =>
               /\ Stretch(bytes, at, n + 1, next)
               /\ \A i \in 1 .. n : TreesAt(bytes, at, n + 1)[i] = TreesAt(bytes, at, n)[i]
               /\ TreesAt(bytes, at, n + 1)[n + 1] = TreesAt(bytes, mid, 1)[1]
           S == {n \in Nat : Holds(n)}
<1>1. Holds(0)
  <2> SUFFICES ASSUME NEW at \in Positions(bytes), NEW mid \in Positions(bytes),
                      NEW next \in Positions(bytes),
                      Stretch(bytes, at, 0, mid), Stretch(bytes, mid, 1, next)
               PROVE  /\ Stretch(bytes, at, 0 + 1, next)
                      /\ \A i \in 1 .. 0 : TreesAt(bytes, at, 0 + 1)[i] = TreesAt(bytes, at, 0)[i]
                      /\ TreesAt(bytes, at, 0 + 1)[0 + 1] = TreesAt(bytes, mid, 1)[1]
    OBVIOUS
  <2>1. mid = at
    BY NothingRead
  <2>2. 0 + 1 = 1 /\ 1 .. 0 = {}
    OBVIOUS
  <2>3. QED BY <2>1, <2>2
<1>2. ASSUME NEW n \in Nat, Holds(n) PROVE Holds(n + 1)
  <2> SUFFICES ASSUME NEW at \in Positions(bytes), NEW mid \in Positions(bytes),
                      NEW next \in Positions(bytes),
                      Stretch(bytes, at, n + 1, mid), Stretch(bytes, mid, 1, next)
               PROVE  /\ Stretch(bytes, at, (n + 1) + 1, next)
                      /\ \A i \in 1 .. n + 1 :
                           TreesAt(bytes, at, (n + 1) + 1)[i] = TreesAt(bytes, at, n + 1)[i]
                      /\ TreesAt(bytes, at, (n + 1) + 1)[(n + 1) + 1] = TreesAt(bytes, mid, 1)[1]
    OBVIOUS
  <2>1. PICK m \in Nat \ {0}, k \in Nat \ {0} : m = n + 1 /\ k = m + 1
    OBVIOUS
  <2>2. /\ Sound(bytes, at)
        /\ \E second \in Positions(bytes) :
             /\ Stretch(bytes, BehindOf(bytes, at), ElementsOf(bytes, at), second)
             /\ Stretch(bytes, second, m - 1, mid)
    BY <2>1, StretchParts
  <2>3. PICK second \in Positions(bytes) :
             /\ Stretch(bytes, BehindOf(bytes, at), ElementsOf(bytes, at), second)
             /\ Stretch(bytes, second, m - 1, mid)
    BY <2>2
  <2>4. m - 1 = n /\ k - 1 = m
    BY <2>1
  <2>5. Stretch(bytes, second, n, mid)
    BY <2>3, <2>4
  <2>6. /\ Stretch(bytes, second, m, next)
        /\ \A i \in 1 .. n : TreesAt(bytes, second, m)[i] = TreesAt(bytes, second, n)[i]
        /\ TreesAt(bytes, second, m)[m] = TreesAt(bytes, mid, 1)[1]
    BY <1>2, <2>1, <2>5
  <2>7. PICK tree : tree = TreeOf(bytes, at, TreesAt(bytes, BehindOf(bytes, at), ElementsOf(bytes, at)))
    OBVIOUS
  <2>8. TreesAt(bytes, at, m) = Before(tree, TreesAt(bytes, second, n), m)
    BY <2>2, <2>3, <2>4, <2>7, RestRead
  <2>9. /\ Stretch(bytes, at, k, next)
        /\ TreesAt(bytes, at, k) = Before(tree, TreesAt(bytes, second, m), k)
    BY <2>2, <2>3, <2>4, <2>6, <2>7, RestRead
  <2>10. ASSUME NEW i \in 1 .. m PROVE TreesAt(bytes, at, k)[i] = TreesAt(bytes, at, m)[i]
    <3>1. i \in 1 .. k /\ (i # 1 => i - 1 \in 1 .. n)
      BY <2>1
    <3>2. QED BY <2>6, <2>8, <2>9, <3>1 DEF Before
  <2>11. TreesAt(bytes, at, k)[k] = TreesAt(bytes, mid, 1)[1]
    <3>1. k \in 1 .. k /\ k # 1
      BY <2>1
    <3>2. QED BY <2>4, <2>6, <2>9, <3>1 DEF Before
  <2>12. QED BY <2>1, <2>9, <2>10, <2>11
<1> HIDE DEF Holds
<1>3. 0 \in S /\ \A n \in Nat : n \in S => n + 1 \in S
  BY <1>1, <1>2
<1>4. Nat \subseteq S
  BY <1>3, EveryNumber
<1>5. \A n \in Nat : Holds(n)
  BY <1>4
<1>6. QED BY <1>5 DEF Holds

\* Where a stretch cannot go on, no longer one is read.
LEMMA FailsLater ==
  ASSUME NEW bytes \in Seq(Bytes)
  PROVE  \A n \in Nat : \A at, mid \in Positions(bytes) : \A why : \A k \in Nat :
           Stretch(bytes, at, n, mid) /\ Fails(bytes, mid, 1, why) /\ n < k =>
             Fails(bytes, at, k, why)
<1> DEFINE Holds(n) == \A at, mid \in Positions(bytes) : \A why : \A k \in Nat :
             Stretch(bytes, at, n, mid) /\ Fails(bytes, mid, 1, why) /\ n < k =>
               Fails(bytes, at, k, why)
           S == {n \in Nat : Holds(n)}
<1>1. Holds(0)
  <2> SUFFICES ASSUME NEW at \in Positions(bytes), NEW mid \in Positions(bytes), NEW why,
                      NEW k \in Nat,
                      Stretch(bytes, at, 0, mid), Fails(bytes, mid, 1, why), 0 < k
               PROVE  Fails(bytes, at, k, why)
    OBVIOUS
  <2>1. mid = at
    BY NothingRead
  <2>2. QED BY <2>1, ObjectFails
<1>2. ASSUME NEW n \in Nat, Holds(n) PROVE Holds(n + 1)
  <2> SUFFICES ASSUME NEW at \in Positions(bytes), NEW mid \in Positions(bytes), NEW why,
                      NEW k \in Nat,
                      Stretch(bytes, at, n + 1, mid), Fails(bytes, mid, 1, why), n + 1 < k
               PROVE  Fails(bytes, at, k, why)
    OBVIOUS
  <2>1. PICK m \in Nat \ {0} : m = n + 1
    OBVIOUS
  <2>2. /\ Sound(bytes, at)
        /\ \E second \in Positions(bytes) :
             /\ Stretch(bytes, BehindOf(bytes, at), ElementsOf(bytes, at), second)
             /\ Stretch(bytes, second, m - 1, mid)
    BY <2>1, StretchParts
  <2>3. PICK second \in Positions(bytes) :
             /\ Stretch(bytes, BehindOf(bytes, at), ElementsOf(bytes, at), second)
             /\ Stretch(bytes, second, m - 1, mid)
    BY <2>2
  <2>4. m - 1 = n /\ k - 1 \in Nat /\ n < k - 1 /\ k \in Nat \ {0}
    BY <2>1
  <2>5. Fails(bytes, second, k - 1, why)
    BY <1>2, <2>3, <2>4
  <2>6. QED BY <2>2, <2>3, <2>4, <2>5, RestFails
<1> HIDE DEF Holds
<1>3. 0 \in S /\ \A n \in Nat : n \in S => n + 1 \in S
  BY <1>1, <1>2
<1>4. Nat \subseteq S
  BY <1>3, EveryNumber
<1>5. \A n \in Nat : Holds(n)
  BY <1>4
<1>6. QED BY <1>5 DEF Holds
----------------------------------------------------------------------------
(***************************************************************************)
(* The parser's stack, by the positions of the containers on it.           *)
(***************************************************************************)

\* The objects an open container lacks, the one being read among them.
Lacks(frame) ==
  CASE frame.is = "ARRAY_ITEM" -> frame.rest
    [] frame.is = "MAP_KEY" -> 2 * frame.rest
    [] frame.is = "MAP_VALUE" -> 2 * frame.rest - 1

\* A container has been read up to a position.
Level(bytes, container, frame, at) ==
  /\ Sound(bytes, container)
  /\ Lacks(frame) <= ElementsOf(bytes, container)
  /\ Stretch(bytes, BehindOf(bytes, container), ElementsOf(bytes, container) - Lacks(frame), at)

\* The first start is the message's, the others are those of the elements the
\* open containers are at.
Levels(bytes, frames, starts) ==
  /\ Len(starts) = Len(frames) + 1
  /\ starts[1] = 1
  /\ \A i \in 1 .. Len(frames) : Level(bytes, starts[i], frames[i], starts[i + 1])

LastStart(starts) == starts[Len(starts)]

LEMMA LacksType ==
  ASSUME NEW frame \in Frames
  PROVE  Lacks(frame) \in Nat \ {0}
BY DEF Frames, Lacks

LEMMA LastStartType ==
  ASSUME NEW bytes \in Seq(Bytes), NEW frames \in Seq(Frames),
         NEW starts \in Seq(Positions(bytes)), Levels(bytes, frames, starts)
  PROVE  /\ LastStart(starts) \in Positions(bytes)
         /\ Len(frames) \in Nat /\ Len(starts) \in DOMAIN starts
         /\ \A i \in 1 .. Len(starts) : starts[i] \in Positions(bytes)
BY DEF LastStart, Levels

\* A container is opened.
LEMMA LevelsPush ==
  ASSUME NEW bytes \in Seq(Bytes), NEW frames \in Seq(Frames),
         NEW starts \in Seq(Positions(bytes)), Levels(bytes, frames, starts),
         NEW frame \in Frames, Sound(bytes, LastStart(starts)),
         Lacks(frame) = ElementsOf(bytes, LastStart(starts))
  PROVE  LET grown == Append(starts, BehindOf(bytes, LastStart(starts))) IN
         /\ grown \in Seq(Positions(bytes))
         /\ Levels(bytes, Append(frames, frame), grown)
         /\ LastStart(grown) = BehindOf(bytes, LastStart(starts))
<1>1. PICK last \in Positions(bytes) : last = LastStart(starts)
  BY LastStartType
<1>2. PICK behind \in Positions(bytes) : behind = BehindOf(bytes, last)
  BY <1>1, SoundFacts DEF Positions
<1>3. PICK k \in Nat \ {0} : k = Len(starts) /\ k = Len(frames) + 1 /\ starts[k] = last
  BY <1>1 DEF Levels, LastStart
<1>4. PICK grown : grown = Append(starts, behind)
  OBVIOUS
<1>5. /\ grown \in Seq(Positions(bytes)) /\ Len(grown) = k + 1
      /\ \A i \in 1 .. k : grown[i] = starts[i]
      /\ grown[k + 1] = behind
  <2>1. /\ grown \in Seq(Positions(bytes)) /\ Len(grown) = Len(starts) + 1
        /\ \A i \in 1 .. Len(starts) : grown[i] = starts[i]
        /\ grown[Len(starts) + 1] = behind
    BY <1>2, <1>4, AppendFacts
  <2>2. QED BY <1>3, <2>1
<1>6. PICK deeper : deeper = Append(frames, frame)
  OBVIOUS
<1>7. /\ Len(deeper) = k
      /\ \A i \in 1 .. k - 1 : deeper[i] = frames[i]
      /\ deeper[k] = frame
  BY <1>3, <1>6, AppendFacts
<1>8. Level(bytes, last, frame, behind)
  <2>1. Stretch(bytes, behind, 0, behind)
    BY NothingRead
  <2>2. ElementsOf(bytes, last) \in Nat
    BY <1>1, SoundFacts
  <2>3. Lacks(frame) <= ElementsOf(bytes, last) /\ ElementsOf(bytes, last) - Lacks(frame) = 0
    BY <1>1, <2>2
  <2>4. QED BY <1>1, <1>2, <2>1, <2>3 DEF Level
<1>9. ASSUME NEW i \in 1 .. k
      PROVE  Level(bytes, grown[i], deeper[i], grown[i + 1])
  <2>1. CASE i = k
    BY <1>3, <1>5, <1>7, <1>8, <2>1
  <2>2. CASE i # k
    <3>1. i \in 1 .. k - 1 /\ i \in 1 .. k /\ i + 1 \in 1 .. k /\ i \in 1 .. Len(frames)
      BY <1>3, <2>2
    <3>2. Level(bytes, starts[i], frames[i], starts[i + 1])
      BY <3>1 DEF Levels
    <3>3. QED BY <1>5, <1>7, <3>1, <3>2
  <2>3. QED BY <2>1, <2>2
<1>10. grown[1] = 1
  BY <1>3, <1>5 DEF Levels
<1>11. Levels(bytes, deeper, grown)
  BY <1>5, <1>7, <1>9, <1>10 DEF Levels
<1>12. LastStart(grown) = behind
  BY <1>5 DEF LastStart
<1>13. QED BY <1>1, <1>2, <1>4, <1>5, <1>6, <1>11, <1>12

\* A stack whose top, or a list of starts whose last one, is another.
WithLast(seq, last) == [seq EXCEPT ![Len(seq)] = last]

\* An element of the innermost container is whole, and not its last.
LEMMA LevelsNext ==
  ASSUME NEW bytes \in Seq(Bytes), NEW frames \in Seq(Frames),
         NEW starts \in Seq(Positions(bytes)), Levels(bytes, frames, starts),
         frames # <<>>, NEW frame \in Frames,
         Lacks(frame) = Lacks(frames[Len(frames)]) - 1,
         NEW next \in Positions(bytes), Stretch(bytes, LastStart(starts), 1, next)
  PROVE  /\ WithLast(starts, next) \in Seq(Positions(bytes))
         /\ Levels(bytes, WithLast(frames, frame), WithLast(starts, next))
         /\ LastStart(WithLast(starts, next)) = next
<1>1. PICK k \in Nat \ {0} : k = Len(frames) /\ Len(starts) = k + 1
  BY DEF Levels
<1>2. PICK moved : moved = WithLast(starts, next) /\ moved = [starts EXCEPT ![k + 1] = next]
  BY <1>1 DEF WithLast
<1>3. /\ moved \in Seq(Positions(bytes)) /\ Len(moved) = k + 1
      /\ \A i \in 1 .. k : moved[i] = starts[i]
      /\ moved[k + 1] = next
  BY <1>1, <1>2, ExceptFacts
<1>4. PICK deeper : deeper = WithLast(frames, frame) /\ deeper = [frames EXCEPT ![k] = frame]
  BY <1>1 DEF WithLast
<1>5. /\ Len(deeper) = k
      /\ \A i \in 1 .. k - 1 : deeper[i] = frames[i]
      /\ deeper[k] = frame
  BY <1>1, <1>4, ExceptFacts
<1>6. PICK last \in Positions(bytes) : last = starts[k + 1]
  BY <1>1
<1>7. PICK container \in Positions(bytes) : container = starts[k]
  BY <1>1
<1>8. Level(bytes, container, frames[k], last)
  BY <1>1, <1>6, <1>7 DEF Levels
<1>9. Level(bytes, container, frame, next)
  <2>1. Sound(bytes, container)
    BY <1>8 DEF Level
  <2>2. PICK behind \in Positions(bytes), n \in Nat :
          behind = BehindOf(bytes, container) /\ n = ElementsOf(bytes, container)
    BY <2>1, SoundFacts DEF Positions
  <2>3. frames[k] \in Frames
    BY <1>1
  <2>4. PICK lacks \in Nat \ {0}, less \in Nat \ {0} :
          lacks = Lacks(frames[k]) /\ less = Lacks(frame)
    BY <2>3, LacksType
  <2>5. less = lacks - 1
    BY <1>1, <2>4
  <2>6. lacks <= n /\ Stretch(bytes, behind, n - lacks, last)
    BY <1>8, <2>2, <2>4 DEF Level
  <2>7. Stretch(bytes, last, 1, next)
    BY <1>1, <1>6 DEF LastStart
  <2>8. n - lacks \in Nat /\ (n - lacks) + 1 = n - less /\ less <= n
    BY <2>5, <2>6
  <2>9. Stretch(bytes, behind, n - less, next)
    BY <2>6, <2>7, <2>8, Longer
  <2>10. QED BY <2>1, <2>2, <2>4, <2>8, <2>9 DEF Level
<1>10. ASSUME NEW i \in 1 .. k
       PROVE  Level(bytes, moved[i], deeper[i], moved[i + 1])
  <2>1. CASE i = k
    BY <1>3, <1>5, <1>7, <1>9, <2>1
  <2>2. CASE i # k
    <3>1. i \in 1 .. k - 1 /\ i \in 1 .. k /\ i + 1 \in 1 .. k /\ i \in 1 .. Len(frames)
      BY <1>1, <2>2
    <3>2. Level(bytes, starts[i], frames[i], starts[i + 1])
      BY <3>1 DEF Levels
    <3>3. QED BY <1>3, <1>5, <3>1, <3>2
  <2>3. QED BY <2>1, <2>2
<1>11. moved[1] = 1
  BY <1>1, <1>3 DEF Levels
<1>12. Levels(bytes, deeper, moved)
  BY <1>3, <1>5, <1>10, <1>11 DEF Levels
<1>13. LastStart(moved) = next
  BY <1>3 DEF LastStart
<1>14. QED BY <1>2, <1>3, <1>4, <1>12, <1>13

\* The innermost container is whole.
LEMMA LevelsPop ==
  ASSUME NEW bytes \in Seq(Bytes), NEW frames \in Seq(Frames),
         NEW starts \in Seq(Positions(bytes)), Levels(bytes, frames, starts),
         frames # <<>>, Lacks(frames[Len(frames)]) = 1,
         NEW next \in Positions(bytes), Stretch(bytes, LastStart(starts), 1, next)
  PROVE  /\ Pop(starts) \in Seq(Positions(bytes))
         /\ Levels(bytes, Pop(frames), Pop(starts))
         /\ Stretch(bytes, LastStart(Pop(starts)), 1, next)
<1>1. PICK k \in Nat \ {0} : k = Len(frames) /\ Len(starts) = k + 1
  BY DEF Levels
<1>2. starts # <<>>
  BY <1>1
<1>3. PICK outer : outer = Pop(starts)
  OBVIOUS
<1>4. /\ outer \in Seq(Positions(bytes)) /\ Len(outer) = k
      /\ \A i \in 1 .. k : outer[i] = starts[i]
  BY <1>1, <1>2, <1>3, PopFacts
<1>5. PICK below : below = Pop(frames)
  OBVIOUS
<1>6. Len(below) = k - 1 /\ \A i \in 1 .. k - 1 : below[i] = frames[i]
  BY <1>1, <1>5, PopFacts
<1>7. ASSUME NEW i \in 1 .. k - 1
      PROVE  Level(bytes, outer[i], below[i], outer[i + 1])
  <2>1. i \in 1 .. k /\ i + 1 \in 1 .. k /\ i \in 1 .. Len(frames)
    BY <1>1
  <2>2. Level(bytes, starts[i], frames[i], starts[i + 1])
    BY <2>1 DEF Levels
  <2>3. QED BY <1>4, <1>6, <2>1, <2>2
<1>8. outer[1] = 1
  BY <1>1, <1>4 DEF Levels
<1>9. Levels(bytes, below, outer)
  BY <1>4, <1>6, <1>7, <1>8 DEF Levels
<1>10. PICK last \in Positions(bytes) : last = starts[k + 1]
  BY <1>1
<1>11. PICK container \in Positions(bytes) : container = starts[k]
  BY <1>1
<1>12. Level(bytes, container, frames[k], last)
  BY <1>1, <1>10, <1>11 DEF Levels
<1>13. Stretch(bytes, container, 1, next)
  <2>1. Sound(bytes, container)
    BY <1>12 DEF Level
  <2>2. PICK behind \in Positions(bytes), n \in Nat :
          behind = BehindOf(bytes, container) /\ n = ElementsOf(bytes, container)
    BY <2>1, SoundFacts DEF Positions
  <2>3. 1 <= n /\ Stretch(bytes, behind, n - 1, last)
    BY <1>1, <1>12, <2>2 DEF Level
  <2>4. Stretch(bytes, last, 1, next)
    BY <1>1, <1>10 DEF LastStart
  <2>5. n - 1 \in Nat /\ (n - 1) + 1 = n
    BY <2>3
  <2>6. Stretch(bytes, behind, n, next)
    BY <2>3, <2>4, <2>5, Longer
  <2>7. QED BY <2>1, <2>2, <2>6, ObjectRead
<1>14. LastStart(outer) = container
  BY <1>1, <1>4, <1>11 DEF LastStart
<1>15. QED BY <1>3, <1>4, <1>5, <1>9, <1>13, <1>14

\* What is wrong with the object being read is wrong with the message.
LEMMA LevelsFail ==
  ASSUME NEW bytes \in Seq(Bytes), NEW frames \in Seq(Frames),
         NEW starts \in Seq(Positions(bytes)), Levels(bytes, frames, starts),
         NEW why, Fails(bytes, LastStart(starts), 1, why)
  PROVE  Fails(bytes, 1, 1, why)
<1>1. PICK k \in Nat : k = Len(frames) /\ Len(starts) = k + 1
  BY DEF Levels
<1> DEFINE S == {m \in Nat : m <= k => Fails(bytes, starts[(k + 1) - m], 1, why)}
<1>2. 0 \in S
  <2>1. (k + 1) - 0 = Len(starts)
    BY <1>1
  <2>2. QED BY <2>1 DEF LastStart
<1>3. ASSUME NEW m \in Nat, m \in S PROVE m + 1 \in S
  <2> SUFFICES ASSUME m + 1 <= k PROVE Fails(bytes, starts[(k + 1) - (m + 1)], 1, why)
    OBVIOUS
  <2>1. PICK i \in 1 .. k : i = (k + 1) - (m + 1)
    OBVIOUS
  <2>2. i + 1 = (k + 1) - m /\ i \in 1 .. Len(frames)
    BY <1>1, <2>1
  <2>3. Fails(bytes, starts[i + 1], 1, why)
    BY <1>3, <2>2
  <2>4. PICK container \in Positions(bytes), at \in Positions(bytes) :
          container = starts[i] /\ at = starts[i + 1]
    BY <1>1
  <2>5. Level(bytes, container, frames[i], at)
    BY <2>2, <2>4 DEF Levels
  <2>6. Sound(bytes, container)
    BY <2>5 DEF Level
  <2>7. PICK behind \in Positions(bytes), n \in Nat :
          behind = BehindOf(bytes, container) /\ n = ElementsOf(bytes, container)
    BY <2>6, SoundFacts DEF Positions
  <2>8. PICK lacks \in Nat \ {0} : lacks = Lacks(frames[i])
    BY <2>2, LacksType
  <2>9. lacks <= n /\ Stretch(bytes, behind, n - lacks, at)
    BY <2>5, <2>7, <2>8 DEF Level
  <2>10. n - lacks \in Nat /\ n - lacks < n
    BY <2>9
  <2>11. Fails(bytes, behind, n, why)
    BY <2>3, <2>4, <2>9, <2>10, FailsLater
  <2>12. Fails(bytes, container, 1, why)
    BY <2>6, <2>7, <2>11, HeldFails
  <2>13. QED BY <2>1, <2>4, <2>12
<1>4. Nat \subseteq S
  BY <1>2, <1>3, EveryNumber
<1>5. k \in S
  BY <1>4
<1>6. k <= k /\ (k + 1) - k = 1
  OBVIOUS
<1>7. Fails(bytes, starts[1], 1, why)
  BY <1>5, <1>6
<1>8. QED BY <1>7 DEF Levels
----------------------------------------------------------------------------
(***************************************************************************)
(* The parser's tables are the format's.                                   *)
(***************************************************************************)
LEMMA TrailTable ==
  /\ \A b \in 196 .. 198 : NextCs(b) = "BIN" /\ Trail(b) = PowerOf2[b - 195]
  /\ \A b \in 199 .. 201 : NextCs(b) = "EXT" /\ Trail(b) = PowerOf2[b - 198]
  /\ \A b \in 202 .. 203 : NextCs(b) = "FLOAT" /\ Trail(b) = PowerOf2[b - 199]
  /\ \A b \in 204 .. 207 : NextCs(b) = "UINT" /\ Trail(b) = PowerOf2[b - 203]
  /\ \A b \in 208 .. 211 : NextCs(b) = "INT" /\ Trail(b) = PowerOf2[b - 207]
  /\ \A b \in 212 .. 216 : NextCs(b) = "FIXEXT" /\ Trail(b) = 1 + PowerOf2[b - 211]
  /\ \A b \in 217 .. 219 : NextCs(b) = "STR" /\ Trail(b) = PowerOf2[b - 216]
  /\ \A b \in 220 .. 221 : NextCs(b) = "ARRAY" /\ Trail(b) = PowerOf2[b - 218]
  /\ \A b \in 222 .. 223 : NextCs(b) = "MAP" /\ Trail(b) = PowerOf2[b - 220]
<1>1. \A b \in 196 .. 198 : NextCs(b) = "BIN" /\ Trail(b) = PowerOf2[b - 195]
  BY SMT DEF NextCs, Trail, PowerOf2
<1>2. \A b \in 199 .. 201 : NextCs(b) = "EXT" /\ Trail(b) = PowerOf2[b - 198]
  BY SMT DEF NextCs, Trail, PowerOf2
<1>3. \A b \in 202 .. 203 : NextCs(b) = "FLOAT" /\ Trail(b) = PowerOf2[b - 199]
  BY SMT DEF NextCs, Trail, PowerOf2
<1>4. \A b \in 204 .. 207 : NextCs(b) = "UINT" /\ Trail(b) = PowerOf2[b - 203]
  BY SMT DEF NextCs, Trail, PowerOf2
<1>5. \A b \in 208 .. 211 : NextCs(b) = "INT" /\ Trail(b) = PowerOf2[b - 207]
  BY SMT DEF NextCs, Trail, PowerOf2
<1>6. \A b \in 212 .. 216 : NextCs(b) = "FIXEXT" /\ Trail(b) = 1 + PowerOf2[b - 211]
  BY SMT DEF NextCs, Trail, PowerOf2
<1>7. \A b \in 217 .. 219 : NextCs(b) = "STR" /\ Trail(b) = PowerOf2[b - 216]
  BY SMT DEF NextCs, Trail, PowerOf2
<1>8. \A b \in 220 .. 221 : NextCs(b) = "ARRAY" /\ Trail(b) = PowerOf2[b - 218]
  BY SMT DEF NextCs, Trail, PowerOf2
<1>9. \A b \in 222 .. 223 : NextCs(b) = "MAP" /\ Trail(b) = PowerOf2[b - 220]
  BY SMT DEF NextCs, Trail, PowerOf2
<1>10. QED BY <1>1, <1>2, <1>3, <1>4, <1>5, <1>6, <1>7, <1>8, <1>9

\* What a value behind its header is a value of.
SameType(kind, type) ==
  \/ kind = "UINT" /\ type = "POSITIVE_INTEGER"
  \/ kind = "INT" /\ type = "INT"
  \/ kind = "FLOAT" /\ type = "FLOAT"
  \/ kind \in {"FIXEXT", "EXT", "EXT_VALUE"} /\ type = "EXT"
  \/ kind \in {"STR", "STR_VALUE"} /\ type = "STR"
  \/ kind \in {"BIN", "BIN_VALUE"} /\ type = "BIN"

LEMMA TrailForms ==
  ASSUME NEW b \in WithTrail
  PROVE  /\ Header(b)
         /\ NextCs(b) \in Lengths \cup Containers =>
              FormOf(b) = Form(NextCs(b), Trail(b), 0)
         /\ NextCs(b) \in Numbers =>
              \E type : SameType(NextCs(b), type) /\ FormOf(b) = Form(type, 0, Trail(b))
<1>1. Header(b)
  BY SMT DEF WithTrail, Header, Bytes
<1>2. \/ b \in 196 .. 198 \/ b \in 199 .. 201 \/ b \in 202 .. 203 \/ b \in 204 .. 207
      \/ b \in 208 .. 211 \/ b \in 212 .. 216 \/ b \in 217 .. 219 \/ b \in 220 .. 221
      \/ b \in 222 .. 223
  BY SMT DEF WithTrail
<1> USE DEF Lengths, Containers, Numbers, SameType
<1>3. CASE b \in 196 .. 198
  <2>1. NextCs(b) = "BIN" /\ FormOf(b) = Form("BIN", Trail(b), 0)
    BY <1>1, <1>3, TrailTable, FormValues
  <2>2. QED BY <1>1, <2>1
<1>4. CASE b \in 199 .. 201
  <2>1. NextCs(b) = "EXT" /\ FormOf(b) = Form("EXT", Trail(b), 0)
    BY <1>1, <1>4, TrailTable, FormValues
  <2>2. QED BY <1>1, <2>1
<1>5. CASE b \in 202 .. 203
  <2>1. NextCs(b) = "FLOAT" /\ FormOf(b) = Form("FLOAT", 0, Trail(b))
    BY <1>1, <1>5, TrailTable, FormValues
  <2>2. QED BY <1>1, <2>1
<1>6. CASE b \in 204 .. 207
  <2>1. NextCs(b) = "UINT" /\ FormOf(b) = Form("POSITIVE_INTEGER", 0, Trail(b))
    BY <1>1, <1>6, TrailTable, FormValues
  <2>2. QED BY <1>1, <2>1
<1>7. CASE b \in 208 .. 211
  <2>1. NextCs(b) = "INT" /\ FormOf(b) = Form("INT", 0, Trail(b))
    BY <1>1, <1>7, TrailTable, FormValues
  <2>2. QED BY <1>1, <2>1
<1>8. CASE b \in 212 .. 216
  <2>1. NextCs(b) = "FIXEXT" /\ FormOf(b) = Form("EXT", 0, Trail(b))
    BY <1>1, <1>8, TrailTable, FormValues
  <2>2. QED BY <1>1, <2>1
<1>9. CASE b \in 217 .. 219
  <2>1. NextCs(b) = "STR" /\ FormOf(b) = Form("STR", Trail(b), 0)
    BY <1>1, <1>9, TrailTable, FormValues
  <2>2. QED BY <1>1, <2>1
<1>10. CASE b \in 220 .. 221
  <2>1. NextCs(b) = "ARRAY" /\ FormOf(b) = Form("ARRAY", Trail(b), 0)
    BY <1>1, <1>10, TrailTable, FormValues
  <2>2. QED BY <1>1, <2>1
<1>11. CASE b \in 222 .. 223
  <2>1. NextCs(b) = "MAP" /\ FormOf(b) = Form("MAP", Trail(b), 0)
    BY <1>1, <1>11, TrailTable, FormValues
  <2>2. QED BY <1>1, <2>1
<1>12. QED BY <1>2, <1>3, <1>4, <1>5, <1>6, <1>7, <1>8, <1>9, <1>10, <1>11

\* Headers that nothing follows, or elements do.
LEMMA ShortForms ==
  ASSUME NEW b \in Bytes
  PROVE  /\ b \in OneByte => Header(b) /\ FormOf(b) = Form(OneByteType(b), 0, Itself)
         /\ b \in FixStr => Header(b) /\ FormOf(b) = Form("STR", 0, b % 32)
         /\ b \in FixMap => Header(b) /\ FormOf(b) = Form("MAP", 0, b % 16)
         /\ b \in FixArray => Header(b) /\ FormOf(b) = Form("ARRAY", 0, b % 16)
         /\ b \in FixMap => b \notin FixArray
<1>1. b \in OneByte \cup FixStr \cup FixMap \cup FixArray => Header(b)
  BY SMT DEF Header, OneByte, FixStr, FixMap, FixArray, PositiveFixnum, NegativeFixnum
<1>2. b \in OneByte => FormOf(b) = Form(OneByteType(b), 0, Itself)
  <2>1. b \in OneByte => b \in PositiveFixnum \/ b \in NegativeFixnum \/ b = 192 \/ b \in {194, 195}
    BY DEF OneByte
  <2>2. /\ b \in NegativeFixnum => b \notin PositiveFixnum
        /\ b \in {192, 194, 195} => b \notin PositiveFixnum /\ b \notin NegativeFixnum
    BY SMT DEF PositiveFixnum, NegativeFixnum
  <2>3. QED BY <1>1, <2>1, <2>2, FormValues DEF OneByteType
<1>3. b \in FixStr => FormOf(b) = Form("STR", 0, b % 32)
  <2>1. b \in FixStr => b - 160 = b % 32
    BY SMT DEF FixStr
  <2>2. QED BY <1>1, <2>1, FormValues
<1>4. b \in FixMap => FormOf(b) = Form("MAP", 0, b % 16)
  <2>1. b \in FixMap => b - 128 = b % 16
    BY SMT DEF FixMap
  <2>2. QED BY <1>1, <2>1, FormValues
<1>5. b \in FixArray => FormOf(b) = Form("ARRAY", 0, b % 16)
  <2>1. b \in FixArray => b - 144 = b % 16
    BY SMT DEF FixArray
  <2>2. QED BY <1>1, <2>1, FormValues
<1>6. b \in FixMap => b \notin FixArray
  BY SMT DEF FixMap, FixArray
<1>7. QED BY <1>1, <1>2, <1>3, <1>4, <1>5, <1>6
LEMMA WhetherSound ==
  ASSUME NEW bytes \in Seq(Bytes), NEW at \in 1 .. Len(bytes), Header(bytes[at]),
         NEW body \in Nat, body = BodyOf(bytes, at)
  PROVE  /\ body > Len(bytes) + 1 => FaultOf(bytes, at) = "insufficient_bytes"
         /\ \A behind \in Nat : behind = BehindOf(bytes, at) /\ body <= Len(bytes) + 1 =>
              /\ behind > Len(bytes) + 1 => FaultOf(bytes, at) = "insufficient_bytes"
              /\ behind <= Len(bytes) + 1 => Sound(bytes, at)
<1>1. ~ (at > Len(bytes)) /\ bytes[at] # 193
  BY DEF Header
<1>2. body > Len(bytes) + 1 => FaultOf(bytes, at) = "insufficient_bytes"
  BY <1>1 DEF FaultOf
<1>3. ASSUME NEW behind \in Nat, behind = BehindOf(bytes, at), body <= Len(bytes) + 1
      PROVE  /\ behind > Len(bytes) + 1 => FaultOf(bytes, at) = "insufficient_bytes"
             /\ behind <= Len(bytes) + 1 => Sound(bytes, at)
  <2>1. Len(bytes) + 1 \in Nat
    OBVIOUS
  <2>2. ~ (body > Len(bytes) + 1)
    BY <1>3, <2>1
  <2>3. FaultOf(bytes, at) = IF behind > Len(bytes) + 1 THEN "insufficient_bytes" ELSE None
    BY <1>1, <1>3, <2>2 DEF FaultOf
  <2>4. QED BY <2>1, <2>3 DEF Sound
<1>4. QED BY <1>2, <1>3

\* An object that is its first byte.
LEMMA OneByteObject ==
  ASSUME NEW bytes \in Seq(Bytes), NEW at \in 1 .. Len(bytes), Header(bytes[at]),
         NEW type, type \notin Containers, FormOf(bytes[at]) = Form(type, 0, Itself)
  PROVE  /\ Sound(bytes, at) /\ ElementsOf(bytes, at) = 0
         /\ BehindOf(bytes, at) = at + 1 /\ BodyOf(bytes, at) = at + 1
<1>1. /\ FormOf(bytes[at]).lengthBytes = 0 /\ FormOf(bytes[at]).n = Itself
      /\ FormOf(bytes[at]).type = type
  BY DEF Form
<1>2. BodyOf(bytes, at) = at + 1 /\ CountOf(bytes, at) = 0
  BY <1>1 DEF BodyOf, CountOf
<1>3. ~ IsContainer(bytes, at) /\ ElementsOf(bytes, at) = 0
  BY <1>1 DEF IsContainer, ElementsOf, Containers
<1>4. BehindOf(bytes, at) = at + 1
  BY <1>2, <1>3 DEF BehindOf
<1>5. PICK next \in Nat : next = at + 1 /\ next <= Len(bytes) + 1
  OBVIOUS
<1>6. QED BY <1>2, <1>3, <1>4, <1>5, WhetherSound

\* An object whose header says how many bytes or elements there are; they begin
\* at a place.
Parts(bytes, at, type, n) ==
  /\ FormOf(bytes[at]).type = type
  /\ type \in Containers => /\ BehindOf(bytes, at) = BodyOf(bytes, at)
                            /\ ElementsOf(bytes, at) = IF type = "MAP" THEN 2 * n ELSE n
  /\ type \notin Containers => /\ BehindOf(bytes, at) = BodyOf(bytes, at) + n
                               /\ ElementsOf(bytes, at) = 0

LEMMA CountParts ==
  ASSUME NEW bytes, NEW at, NEW n \in Nat, CountOf(bytes, at) = n,
         BodyOf(bytes, at) \in Nat, NEW type, FormOf(bytes[at]).type = type
  PROVE  Parts(bytes, at, type, n)
<1>1. type \in Containers => type \in {"ARRAY", "MAP"}
  BY DEF Containers
<1>2. type \notin Containers => type \notin {"ARRAY", "MAP"}
  BY DEF Containers
<1>3. IsContainer(bytes, at) <=> type \in Containers
  BY DEF IsContainer
<1>4. ElementsOf(bytes, at) = IF type = "MAP" THEN 2 * n ELSE IF type = "ARRAY" THEN n ELSE 0
  BY DEF ElementsOf
<1>5. QED BY <1>1, <1>2, <1>3, <1>4 DEF BehindOf, Parts

LEMMA FixedObject ==
  ASSUME NEW bytes, NEW at \in Nat,
         NEW type, NEW n \in Nat, FormOf(bytes[at]) = Form(type, 0, n)
  PROVE  /\ BodyOf(bytes, at) = at + 1
         /\ Parts(bytes, at, type, n)
<1>1. /\ FormOf(bytes[at]).lengthBytes = 0 /\ FormOf(bytes[at]).n = n
      /\ FormOf(bytes[at]).type = type
  BY DEF Form
<1>2. n # Itself
  BY DEF Itself
<1>3. BodyOf(bytes, at) = at + 1 /\ CountOf(bytes, at) = n
  BY <1>1, <1>2 DEF BodyOf, CountOf
<1>4. QED BY <1>1, <1>3, CountParts

LEMMA LengthObject ==
  ASSUME NEW bytes, NEW at \in Nat,
         NEW type, NEW width \in {1, 2, 4}, FormOf(bytes[at]) = Form(type, width, 0)
  PROVE  /\ BodyOf(bytes, at) = at + 1 + width
         /\ \A n \in Nat : n = BigEndian(bytes, at + 1, width) + (IF type = "EXT" THEN 1 ELSE 0) =>
              Parts(bytes, at, type, n)
<1>1. /\ FormOf(bytes[at]).lengthBytes = width /\ FormOf(bytes[at]).n = 0
      /\ FormOf(bytes[at]).type = type
  BY DEF Form
<1>2. 0 # Itself /\ width # 0
  BY DEF Itself
<1>3. BodyOf(bytes, at) = at + 1 + width
  BY <1>1 DEF BodyOf
<1>4. CountOf(bytes, at) = BigEndian(bytes, at + 1, width) + (IF type = "EXT" THEN 1 ELSE 0)
  BY <1>1, <1>2 DEF CountOf
<1>5. QED BY <1>1, <1>3, <1>4, CountParts

\* The parser loads the number the format means.
LEMMA LoadIs ==
  ASSUME data \in Seq(Bytes), NEW at \in Nat \ {0}, NEW width \in {1, 2, 4},
         at + width <= Len(data) + 1
  PROVE  Load(at, width) = BigEndian(data, at, width)
<1>1. CASE width = 1
  BY <1>1 DEF Load, LoadFrom, BigEndian
<1>2. CASE width = 2
  BY <1>2 DEF Load, LoadFrom, BigEndian
<1>3. CASE width = 4
  <2>1. /\ data[at] \in Nat /\ data[at + 1] \in Nat
        /\ data[at + 2] \in Nat /\ data[at + 3] \in Nat
    BY <1>3, ByteAt
  <2>2. PICK a, b, c, d \in Nat :
          /\ a = data[at] /\ b = data[at + 1]
          /\ c = data[at + 2] /\ d = data[at + 3]
    BY <2>1
  <2>3. Load(at, width) = 65536 * (256 * a + b) + (256 * c + d)
    BY <1>3, <2>2 DEF Load, LoadFrom
  <2>4. BigEndian(data, at, width) = 256 * (256 * (256 * a + b) + c) + d
    BY <1>3, <2>2 DEF BigEndian
  <2>5. 65536 * (256 * a + b) + (256 * c + d) = 256 * (256 * (256 * a + b) + c) + d
    BY SMT
  <2>6. QED BY <2>3, <2>4, <2>5
<1>4. QED BY <1>1, <1>2, <1>3
----------------------------------------------------------------------------
(***************************************************************************)
(* What the parser has of the object it is reading.                        *)
(***************************************************************************)

\* Behind a header that a length follows.
AtLength(p) ==
  /\ p \in 1 .. Len(data) /\ Header(data[p]) /\ current = p + 1
  /\ cs \in Lengths \cup Containers
  /\ FormOf(data[p]) = Form(cs, trail, 0)

\* Before a value that takes up the bytes that are waited for.
AtValue(p) ==
  /\ p \in 1 .. Len(data) /\ Header(data[p]) /\ current = BodyOf(data, p)
  /\ cs \in Numbers \cup Values
  /\ FormOf(data[p]).n # Itself
  /\ \E type : SameType(cs, type) /\ Parts(data, p, type, trail)

\* The starts of the open containers and of the object that is read, or has been.
Parsing(starts) ==
  /\ starts \in Seq(Positions(data))
  /\ Levels(data, stack, starts)
  /\ pc \in {"start", "header"} => LastStart(starts) = current
  /\ pc = "trail" => AtLength(LastStart(starts)) \/ AtValue(LastStart(starts))
  /\ pc = "consume" => Stretch(data, LastStart(starts), 1, current + 1)

\* The bytes of a scalar object.
BytesOf(bytes, o) == SubSeq(bytes, o.first, o.first + o.size - (IF o.type = "EXT" THEN 0 ELSE 1))

\* An object of the visitor's is the one at a position, but for the elements.
Describes(bytes, o, at) ==
  IF o.type \in Containers
  THEN /\ \A elements : TreeOf(bytes, at, elements) = Tree(o.type, elements)
       /\ ElementsOf(bytes, at) = Slots(o.type, o.size)
  ELSE /\ \A elements : TreeOf(bytes, at, elements) = Tree(o.type, BytesOf(bytes, o))
       /\ ElementsOf(bytes, at) = 0

LEMMA EmptySub ==
  ASSUME NEW S, NEW seq \in Seq(S), NEW m \in Int
  PROVE  SubSeq(seq, m, m - 1) = <<>>
OBVIOUS

LEMMA TypesApart ==
  /\ \A kind, type : SameType(kind, type) => type \in Types \ Containers
  /\ Scalars \cap Containers = {}
  /\ "INT" \notin Containers /\ "EXT" \notin Containers
BY DEF SameType, Types, Scalars, Containers

LEMMA TreeOfLeaf ==
  ASSUME NEW at, FormOf(data[at]).type \notin Containers, NEW first,
         first = IF FormOf(data[at]).n = Itself THEN at ELSE BodyOf(data, at),
         NEW type,
         type = IF FormOf(data[at]).type # "INT" THEN FormOf(data[at]).type
                ELSE IF data[first] < 128 THEN "POSITIVE_INTEGER" ELSE "NEGATIVE_INTEGER"
  PROVE  \A elements :
           TreeOf(data, at, elements) = Tree(type, SubSeq(data, first, BehindOf(data, at) - 1))
BY DEF TreeOf, IsContainer

LEMMA OneByteDescribed ==
  ASSUME data \in Seq(Bytes), NEW at \in 1 .. Len(data), data[at] \in OneByte
  PROVE  /\ Sound(data, at) /\ ElementsOf(data, at) = 0 /\ BehindOf(data, at) = at + 1
         /\ Describes(data, Scalar(OneByteType(data[at]), at, 1), at)
<1>1. PICK type : type = OneByteType(data[at])
  OBVIOUS
<1>2. type \in {"POSITIVE_INTEGER", "NEGATIVE_INTEGER", "NIL", "BOOLEAN"}
  BY <1>1 DEF OneByteType
<1>3. type \notin Containers /\ type # "INT" /\ type # "EXT"
  BY <1>2 DEF Containers
<1>4. Header(data[at]) /\ FormOf(data[at]) = Form(type, 0, Itself)
  BY <1>1, ShortForms, ByteAt
<1>5. Sound(data, at) /\ ElementsOf(data, at) = 0 /\ BehindOf(data, at) = at + 1
  BY <1>3, <1>4, OneByteObject
<1>6. FormOf(data[at]).type = type /\ FormOf(data[at]).n = Itself
  BY <1>4 DEF Form
<1>7. \A elements : TreeOf(data, at, elements) = Tree(type, SubSeq(data, at, BehindOf(data, at) - 1))
  BY <1>3, <1>6, TreeOfLeaf
<1>8. PICK o : o = Scalar(type, at, 1)
  OBVIOUS
<1>9. o.type = type /\ o.first = at /\ o.size = 1
  BY <1>3, <1>8 DEF Scalar, Object
<1>10. at + 1 - 1 = BehindOf(data, at) - 1
  BY <1>5
<1>11. BytesOf(data, o) = SubSeq(data, at, BehindOf(data, at) - 1)
  BY <1>3, <1>9, <1>10 DEF BytesOf
<1>12. Describes(data, o, at)
  BY <1>3, <1>5, <1>7, <1>9, <1>11 DEF Describes
<1>13. QED BY <1>1, <1>5, <1>8, <1>12

\* A value behind its header, or a length.
LEMMA ValueDescribed ==
  ASSUME data \in Seq(Bytes), NEW at \in 1 .. Len(data), FormOf(data[at]).n # Itself,
         NEW kind, NEW type, SameType(kind, type), NEW n \in Nat, Parts(data, at, type, n),
         type = "EXT" => n # 0,
         BodyOf(data, at) \in Nat
  PROVE  /\ Describes(data, Scalar(TypeOf(kind, BodyOf(data, at)), BodyOf(data, at), n), at)
         /\ ElementsOf(data, at) = 0 /\ BehindOf(data, at) = BodyOf(data, at) + n
<1>1. PICK body \in Nat : body = BodyOf(data, at)
  OBVIOUS
<1>2. /\ type \notin Containers /\ FormOf(data[at]).type = type
      /\ ElementsOf(data, at) = 0 /\ BehindOf(data, at) = body + n
  BY <1>1, TypesApart DEF Parts
<1>3. PICK made : made = TypeOf(kind, body)
  OBVIOUS
<1>4. made = IF type # "INT" THEN type
             ELSE IF data[body] < 128 THEN "POSITIVE_INTEGER" ELSE "NEGATIVE_INTEGER"
  BY <1>3 DEF TypeOf, SameType
<1>5. made \notin Containers /\ (made = "EXT" <=> type = "EXT")
  BY <1>2, <1>4 DEF Containers
<1>6. \A elements : TreeOf(data, at, elements) = Tree(made, SubSeq(data, body, BehindOf(data, at) - 1))
  BY <1>1, <1>2, <1>4, TreeOfLeaf
<1>7. PICK o : o = Scalar(made, body, n)
  OBVIOUS
<1>8. o.type = made /\ o.first = body /\ o.size = IF made = "EXT" THEN n - 1 ELSE n
  BY <1>7 DEF Scalar, Object
<1>9. body + o.size - (IF made = "EXT" THEN 0 ELSE 1) = BehindOf(data, at) - 1
  BY <1>2, <1>8
<1>10. BytesOf(data, o) = SubSeq(data, body, BehindOf(data, at) - 1)
  BY <1>8, <1>9 DEF BytesOf
<1>11. Describes(data, o, at)
  BY <1>2, <1>5, <1>6, <1>8, <1>10 DEF Describes
<1>12. QED BY <1>1, <1>2, <1>3, <1>7, <1>11

\* An empty string or binary, wherever it is said to be.
LEMMA EmptyDescribed ==
  ASSUME data \in Seq(Bytes), NEW at \in 1 .. Len(data), FormOf(data[at]).n # Itself,
         NEW type \in {"STR", "BIN"}, Parts(data, at, type, 0),
         BodyOf(data, at) \in Nat, NEW first \in Nat
  PROVE  /\ Describes(data, Scalar(type, first, 0), at)
         /\ ElementsOf(data, at) = 0 /\ BehindOf(data, at) = BodyOf(data, at)
<1>1. PICK body \in Nat : body = BodyOf(data, at)
  OBVIOUS
<1>2. type \notin Containers /\ type # "EXT" /\ type # "INT"
  BY DEF Containers
<1>3. /\ FormOf(data[at]).type = type
      /\ ElementsOf(data, at) = 0 /\ BehindOf(data, at) = body
  BY <1>1, <1>2 DEF Parts
<1>4. \A elements : TreeOf(data, at, elements) = Tree(type, SubSeq(data, body, BehindOf(data, at) - 1))
  BY <1>1, <1>2, <1>3, TreeOfLeaf
<1>5. SubSeq(data, body, BehindOf(data, at) - 1) = <<>>
  BY <1>3, EmptySub
<1>6. PICK o : o = Scalar(type, first, 0)
  OBVIOUS
<1>7. o.type = type /\ o.first = first /\ o.size = 0
  BY <1>2, <1>6 DEF Scalar, Object
<1>8. first + 0 - 1 = first - 1
  OBVIOUS
<1>9. BytesOf(data, o) = <<>>
  BY <1>2, <1>7, <1>8, EmptySub DEF BytesOf
<1>10. Describes(data, o, at)
  BY <1>2, <1>3, <1>4, <1>5, <1>7, <1>9 DEF Describes
<1>11. QED BY <1>1, <1>3, <1>6, <1>10

\* A container, before its elements.
LEMMA ContainerDescribed ==
  ASSUME NEW at, NEW type \in Containers, NEW n \in Nat, Parts(data, at, type, n), NEW first
  PROVE  /\ Describes(data, Object(type, first, n), at)
         /\ ElementsOf(data, at) = Slots(type, n)
         /\ BehindOf(data, at) = BodyOf(data, at)
<1>1. /\ FormOf(data[at]).type = type
      /\ BehindOf(data, at) = BodyOf(data, at)
      /\ ElementsOf(data, at) = Slots(type, n)
  BY DEF Parts, Slots
<1>2. type # "INT"
  BY DEF Containers
<1>3. \A elements : TreeOf(data, at, elements) = Tree(type, elements)
  BY <1>1, <1>2 DEF TreeOf, IsContainer
<1>4. Object(type, first, n).type = type /\ Object(type, first, n).size = n
  BY DEF Object
<1>5. QED BY <1>1, <1>3, <1>4 DEF Describes
----------------------------------------------------------------------------
(***************************************************************************)
(* What a step does to the object that is read: it is refused, read on, or *)
(* visited, or its elements are next.                                      *)
(***************************************************************************)
Refuses(p) ==
  /\ pc' = "done" /\ data' = data
  /\ Fails(data, p, 1, outcome')

ReadsOn(starts) ==
  /\ Parsing(starts)'
  /\ UNCHANGED <<data, stack, pointers, allocated, objects>>
  /\ pc' \in {"header", "trail"}

Visits(p) ==
  \E object, last :
    /\ Visit(object, last)
    /\ Describes(data, object, p)
    /\ object.type \in Containers => object.size = 0
    /\ Sound(data, p) /\ ElementsOf(data, p) = 0 /\ BehindOf(data, p) = last + 1

Opens(p) ==
  \E type, n, last :
    /\ type \in Containers /\ n \in Nat \ {0}
    /\ StartAggregate(type, n, last)
    /\ Describes(data, Object(type, allocated + 1, n), p)
    /\ Sound(data, p) /\ ElementsOf(data, p) = Slots(type, n) /\ BehindOf(data, p) = last + 1

Steps(starts) ==
  \/ Refuses(LastStart(starts))
  \/ ReadsOn(starts)
  \/ Visits(LastStart(starts))
  \/ Opens(LastStart(starts))

LEMMA ParsingFacts ==
  ASSUME TypeOK, NEW starts, Parsing(starts)
  PROVE  /\ data \in Seq(Bytes) /\ Len(data) \in Nat /\ pe = Len(data) + 1
         /\ current \in 1 .. Len(data) + 1
         /\ LastStart(starts) \in Positions(data)
         /\ pc = "header" => /\ current \in 1 .. Len(data) /\ current = LastStart(starts)
                             /\ data[current] \in Bytes /\ Byte = data[current]
<1>1. data \in Seq(Bytes) /\ Len(data) \in Nat /\ current \in 1 .. Len(data) + 1
  BY DEF TypeOK
<1>2. LastStart(starts) \in Positions(data)
  BY <1>1, LastStartType DEF Parsing, TypeOK
<1>3. pc = "header" => current \in 1 .. Len(data)
  BY DEF TypeOK
<1>4. QED BY <1>1, <1>2, <1>3, ByteAt DEF Parsing, Byte, pe

LEMMA StartSteps ==
  ASSUME IInv, NEW starts, Parsing(starts), Start
  PROVE  Steps(starts)
<1>1. /\ pc = "start" /\ UNCHANGED <<data, current, cs, trail, stack, pointers, allocated, objects>>
      /\ current = 1 /\ LastStart(starts) = 1
  BY DEF Start, IInv, Control, Parsing
<1>2. CASE data = <<>>
  <2>1. pc' = "done" /\ outcome' = "insufficient_bytes"
    BY <1>2 DEF Start, End
  <2>2. FaultOf(data, 1) = "insufficient_bytes"
    BY <1>2 DEF FaultOf
  <2>3. data \in Seq(Bytes) /\ 1 \in Positions(data)
    BY <1>1, ParsingFacts DEF IInv
  <2>4. Fails(data, 1, 1, "insufficient_bytes")
    BY <2>2, <2>3, FaultFails DEF Sound, None
  <2>5. QED BY <1>1, <2>1, <2>4 DEF Steps, Refuses
<1>3. CASE data # <<>>
  <2>1. pc' = "header"
    BY <1>3 DEF Start
  <2>2. Parsing(starts)'
    BY <1>1, <2>1 DEF Parsing
  <2>3. QED BY <1>1, <2>1, <2>2 DEF Steps, ReadsOn
<1>4. QED BY <1>2, <1>3

LEMMA VisitOneByteSteps ==
  ASSUME IInv, NEW starts, Parsing(starts), VisitOneByte
  PROVE  Steps(starts)
<1>1. pc = "header" /\ Byte \in OneByte /\ Visit(Scalar(OneByteType(Byte), current, 1), current)
  BY DEF VisitOneByte
<1>2. /\ data \in Seq(Bytes) /\ current \in 1 .. Len(data) /\ current = LastStart(starts)
      /\ Byte = data[current]
  BY <1>1, ParsingFacts DEF IInv
<1>3. PICK p \in 1 .. Len(data) : p = current
  BY <1>2
<1>4. /\ Sound(data, p) /\ ElementsOf(data, p) = 0 /\ BehindOf(data, p) = p + 1
      /\ Describes(data, Scalar(OneByteType(data[p]), p, 1), p)
  BY <1>1, <1>2, <1>3, OneByteDescribed
<1>5. PICK object : object = Scalar(OneByteType(data[p]), p, 1)
  OBVIOUS
<1>6. object.type \notin Containers
  BY <1>5 DEF Scalar, Object, OneByteType, Containers
<1>7. Visits(p)
  BY <1>1, <1>2, <1>3, <1>4, <1>5, <1>6 DEF Visits
<1>8. QED BY <1>2, <1>3, <1>7 DEF Steps

LEMMA VisitEmptyFixStrSteps ==
  ASSUME IInv, NEW starts, Parsing(starts), VisitEmptyFixStr
  PROVE  Steps(starts)
<1>1. pc = "header" /\ Byte = 160 /\ Visit(Scalar("STR", current, 0), current)
  BY DEF VisitEmptyFixStr
<1>2. /\ data \in Seq(Bytes) /\ current \in 1 .. Len(data) /\ current = LastStart(starts)
      /\ Byte = data[current]
  BY <1>1, ParsingFacts DEF IInv
<1>3. PICK p \in 1 .. Len(data) : p = current
  BY <1>2
<1>4. Header(data[p]) /\ FormOf(data[p]) = Form("STR", 0, 0)
  <2>1. data[p] \in FixStr /\ data[p] % 32 = 0 /\ data[p] \in Bytes
    BY <1>1, <1>2, <1>3 DEF FixStr, Bytes
  <2>2. QED BY <2>1, ShortForms
<1>5. BodyOf(data, p) = p + 1 /\ Parts(data, p, "STR", 0) /\ FormOf(data[p]).n # Itself
  BY <1>4, FixedObject DEF Form, Itself
<1>6. PICK object : object = Scalar("STR", p, 0)
  OBVIOUS
<1>7. Describes(data, object, p) /\ ElementsOf(data, p) = 0 /\ BehindOf(data, p) = p + 1
  BY <1>2, <1>5, <1>6, EmptyDescribed
<1>8. Sound(data, p)
  <2>1. PICK next \in Nat : next = p + 1 /\ next <= Len(data) + 1
    OBVIOUS
  <2>2. QED BY <1>2, <1>4, <1>5, <1>7, <2>1, WhetherSound
<1>9. object.type \notin Containers
  BY <1>6 DEF Scalar, Object, Containers
<1>10. Visits(p)
  BY <1>1, <1>3, <1>6, <1>7, <1>8, <1>9 DEF Visits
<1>11. QED BY <1>2, <1>3, <1>10 DEF Steps

LEMMA ReadTrailSteps ==
  ASSUME IInv, NEW starts, Parsing(starts), ReadTrail
  PROVE  Steps(starts)
<1>1. /\ pc = "header" /\ pc' = "trail" /\ current' = current + 1
      /\ UNCHANGED <<data, stack, pointers, allocated, objects, outcome>>
  BY DEF ReadTrail
<1>2. /\ data \in Seq(Bytes) /\ current \in 1 .. Len(data) /\ current = LastStart(starts)
      /\ Byte = data[current] /\ data[current] \in Bytes
  BY <1>1, ParsingFacts DEF IInv
<1>3. PICK p \in 1 .. Len(data) : p = current /\ p = LastStart(starts)
  BY <1>2
<1>4. AtLength(p)' \/ AtValue(p)'
  <2>1. CASE Byte \in WithTrail /\ cs' = NextCs(Byte) /\ trail' = Trail(Byte)
    <3>1. /\ NextCs(Byte) \in Numbers \cup Lengths \cup Containers
          /\ Trail(Byte) \in Nat
      BY <2>1, TrailFacts
    <3>2. Header(data[p])
      BY <1>2, <1>3, <2>1, TrailForms
    <3>3. CASE cs' \in Lengths \cup Containers
      <4>1. FormOf(data[p]) = Form(cs', trail', 0)
        BY <1>2, <1>3, <2>1, <3>3, TrailForms
      <4>2. QED BY <1>1, <1>3, <3>2, <3>3, <4>1 DEF AtLength
    <3>4. CASE cs' \in Numbers
      <4>1. PICK type : SameType(cs', type) /\ FormOf(data[p]) = Form(type, 0, trail')
        BY <1>2, <1>3, <2>1, <3>4, TrailForms
      <4>2. BodyOf(data, p) = p + 1 /\ Parts(data, p, type, trail')
        BY <2>1, <3>1, <4>1, FixedObject
      <4>3. FormOf(data[p]).n # Itself
        BY <2>1, <3>1, <4>1 DEF Form, Itself
      <4>4. QED BY <1>1, <1>3, <3>2, <3>4, <4>1, <4>2, <4>3 DEF AtValue
    <3>5. QED BY <2>1, <3>1, <3>3, <3>4
  <2>2. CASE Byte \in FixStr \ {160} /\ cs' = "STR_VALUE" /\ trail' = Byte % 32
    <3>1. Header(data[p]) /\ FormOf(data[p]) = Form("STR", 0, trail')
      BY <1>2, <1>3, <2>2, ShortForms
    <3>2. trail' \in Nat
      <4>1. Byte \in Nat
        BY <1>2, <1>3, ByteAt
      <4>2. QED BY <2>2, <4>1
    <3>3. BodyOf(data, p) = p + 1 /\ Parts(data, p, "STR", trail')
      BY <3>1, <3>2, FixedObject
    <3>4. FormOf(data[p]).n # Itself
      BY <3>1, <3>2 DEF Form, Itself
    <3>5. SameType(cs', "STR") /\ cs' \in Values
      BY <2>2 DEF SameType, Values
    <3>6. QED BY <1>1, <1>3, <3>1, <3>3, <3>4, <3>5 DEF AtValue
  <2>3. QED BY <2>1, <2>2 DEF ReadTrail
<1>5. Parsing(starts)'
  BY <1>1, <1>3, <1>4 DEF Parsing
<1>6. QED BY <1>1, <1>5 DEF Steps, ReadsOn

LEMMA ParseErrorSteps ==
  ASSUME IInv, NEW starts, Parsing(starts), ParseError
  PROVE  Steps(starts)
<1>1. /\ pc = "header" /\ Byte = 193 /\ pc' = "done" /\ outcome' = "parse_error" /\ data' = data
  BY DEF ParseError, End
<1>2. /\ data \in Seq(Bytes) /\ current \in 1 .. Len(data) /\ current = LastStart(starts)
      /\ Byte = data[current] /\ Len(data) \in Nat
  BY <1>1, ParsingFacts DEF IInv
<1>3. PICK p \in 1 .. Len(data) : p = LastStart(starts) /\ data[p] = 193
  BY <1>1, <1>2
<1>4. FaultOf(data, p) = "parse_error" /\ p \in Positions(data)
  BY <1>2, <1>3 DEF FaultOf, Positions
<1>5. Fails(data, p, 1, "parse_error")
  BY <1>2, <1>4, FaultFails DEF Sound, None
<1>6. QED BY <1>1, <1>3, <1>5 DEF Steps, Refuses
LEMMA AggregateSteps ==
  ASSUME NEW p, NEW type \in Containers, NEW n \in Nat, NEW last,
         StartAggregate(type, n, last), Parts(data, p, type, n),
         Sound(data, p), BodyOf(data, p) = last + 1
  PROVE  Visits(p) \/ Opens(p)
<1>1. CASE n = 0
  <2>1. Visit(Object(type, 0, 0), last)
    BY <1>1 DEF StartAggregate
  <2>2. /\ Describes(data, Object(type, 0, 0), p) /\ ElementsOf(data, p) = Slots(type, 0)
        /\ BehindOf(data, p) = last + 1
    BY <1>1, ContainerDescribed
  <2>3. Slots(type, 0) = 0
    BY DEF Slots
  <2>4. Object(type, 0, 0).size = 0
    BY DEF Object
  <2>5. QED BY <2>1, <2>2, <2>3, <2>4 DEF Visits
<1>2. CASE n # 0
  <2>1. /\ Describes(data, Object(type, allocated + 1, n), p) /\ ElementsOf(data, p) = Slots(type, n)
        /\ BehindOf(data, p) = last + 1
    BY ContainerDescribed
  <2>2. QED BY <1>2, <2>1 DEF Opens
<1>3. QED BY <1>1, <1>2

LEMMA StartFixedSteps ==
  ASSUME IInv, NEW starts, Parsing(starts), StartFixed
  PROVE  Steps(starts)
<1>1. /\ pc = "header" /\ Byte \in FixMap \cup FixArray
      /\ StartAggregate(IF Byte \in FixMap THEN "MAP" ELSE "ARRAY", Byte % 16, current)
  BY DEF StartFixed
<1>2. /\ data \in Seq(Bytes) /\ current \in 1 .. Len(data) /\ current = LastStart(starts)
      /\ Byte = data[current] /\ data[current] \in Bytes
  BY <1>1, ParsingFacts DEF IInv
<1>3. PICK p \in 1 .. Len(data) : p = current /\ p = LastStart(starts) /\ Byte = data[p]
  BY <1>2
<1>4. PICK type : type = IF Byte \in FixMap THEN "MAP" ELSE "ARRAY"
  OBVIOUS
<1>5. PICK n \in Nat : n = Byte % 16
  <2>1. Byte \in Nat
    BY <1>3, <1>2, ByteAt
  <2>2. QED BY <2>1
<1>6. Header(data[p]) /\ FormOf(data[p]) = Form(type, 0, n)
  BY <1>1, <1>2, <1>3, <1>4, <1>5, ShortForms
<1>7. BodyOf(data, p) = p + 1 /\ Parts(data, p, type, n)
  BY <1>6, FixedObject
<1>8. type \in Containers
  BY <1>4 DEF Containers
<1>9. Sound(data, p)
  <2>1. PICK next \in Nat : next = p + 1 /\ next <= Len(data) + 1
    OBVIOUS
  <2>2. BehindOf(data, p) = next
    BY <1>7, <1>8, <2>1 DEF Parts
  <2>3. QED BY <1>2, <1>6, <1>7, <2>1, <2>2, WhetherSound
<1>10. StartAggregate(type, n, p)
  BY <1>1, <1>3, <1>4, <1>5
<1>11. Visits(p) \/ Opens(p)
  BY <1>7, <1>8, <1>9, <1>10, AggregateSteps
<1>12. QED BY <1>3, <1>11 DEF Steps

\* What waits for its bytes, and whether they are there.
LEMMA Waiting ==
  ASSUME IInv, NEW starts, Parsing(starts), pc = "trail", NEW p, p = LastStart(starts)
  PROVE  /\ p \in 1 .. Len(data) /\ Header(data[p])
         /\ trail \in Nat \ {0} /\ current \in Nat \ {0}
         /\ AtLength(p) => /\ cs \notin Numbers \cup Values /\ trail \in {1, 2, 4}
                           /\ FormOf(data[p]).n # Itself
                           /\ BodyOf(data, p) = current + trail
         /\ AtValue(p) => /\ cs \notin Lengths \cup Containers
                          /\ FormOf(data[p]).n # Itself
                          /\ BodyOf(data, p) = current
                          /\ BehindOf(data, p) = current + trail
                          /\ ElementsOf(data, p) = 0
         /\ Enough <=> current + trail <= Len(data) + 1
<1>1. AtLength(p) \/ AtValue(p)
  BY DEF Parsing
<1>2. trail \in Nat \ {0} /\ current \in Nat \ {0} /\ data \in Seq(Bytes)
  BY DEF IInv, TypeOK, Control
<1>3. ASSUME AtLength(p)
      PROVE  /\ cs \notin Numbers \cup Values /\ trail \in {1, 2, 4}
             /\ FormOf(data[p]).n # Itself
             /\ BodyOf(data, p) = current + trail
  <2>1. cs \notin Numbers \cup Values
    BY <1>3 DEF AtLength, Numbers, Values, Lengths, Containers
  <2>2. trail \in {1, 2, 4}
    BY <1>3 DEF AtLength, IInv, Control
  <2>3. FormOf(data[p]).n # Itself
    BY <1>3 DEF AtLength, Form, Itself
  <2>4. p \in Nat /\ FormOf(data[p]) = Form(cs, trail, 0) /\ current = p + 1
    BY <1>3 DEF AtLength
  <2>5. BodyOf(data, p) = current + trail
    BY <2>2, <2>4, LengthObject
  <2>6. QED BY <2>1, <2>2, <2>3, <2>5
<1>4. ASSUME AtValue(p)
      PROVE  /\ cs \notin Lengths \cup Containers
             /\ FormOf(data[p]).n # Itself
             /\ BodyOf(data, p) = current
             /\ BehindOf(data, p) = current + trail
             /\ ElementsOf(data, p) = 0
  <2>1. cs \notin Lengths \cup Containers
    BY <1>4 DEF AtValue, Numbers, Values, Lengths, Containers
  <2>2. FormOf(data[p]).n # Itself /\ BodyOf(data, p) = current
    BY <1>4 DEF AtValue
  <2>3. PICK type : SameType(cs, type) /\ Parts(data, p, type, trail)
    BY <1>4 DEF AtValue
  <2>4. type \notin Containers
    BY <2>3, TypesApart
  <2>5. QED BY <2>1, <2>2, <2>3, <2>4 DEF Parts
<1>5. p \in 1 .. Len(data) /\ Header(data[p])
  BY <1>1 DEF AtLength, AtValue
<1>6. Enough <=> current + trail <= Len(data) + 1
  BY <1>2 DEF Enough, pe
<1>7. QED BY <1>2, <1>3, <1>4, <1>5, <1>6

LEMMA InsufficientSteps ==
  ASSUME IInv, NEW starts, Parsing(starts), Insufficient
  PROVE  Steps(starts)
<1>1. /\ pc = "trail" /\ ~ Enough /\ pc' = "done" /\ outcome' = "insufficient_bytes"
      /\ data' = data
  BY DEF Insufficient, End
<1>2. PICK p : p = LastStart(starts)
  OBVIOUS
<1>3. /\ p \in 1 .. Len(data) /\ Header(data[p]) /\ data \in Seq(Bytes) /\ Len(data) \in Nat
      /\ AtLength(p) \/ AtValue(p)
  BY <1>1, <1>2, Waiting, ParsingFacts DEF Parsing, IInv
<1>4. PICK end \in Nat : end = current + trail /\ end > Len(data) + 1
  <2>1. trail \in Nat \ {0} /\ current \in Nat \ {0}
    BY <1>1, <1>2, Waiting
  <2>2. ~ (current + trail <= Len(data) + 1)
    BY <1>1, <1>2, Waiting
  <2>3. QED BY <1>3, <2>1, <2>2
<1>5. FaultOf(data, p) = "insufficient_bytes"
  <2>1. CASE AtLength(p)
    <3>1. BodyOf(data, p) = end
      BY <1>1, <1>2, <1>4, <2>1, Waiting
    <3>2. QED BY <1>3, <1>4, <3>1, WhetherSound
  <2>2. CASE AtValue(p)
    <3>1. BodyOf(data, p) = current /\ BehindOf(data, p) = end
      BY <1>1, <1>2, <1>4, <2>2, Waiting
    <3>2. current \in Nat /\ current <= Len(data) + 1
      BY <1>3, ParsingFacts DEF IInv
    <3>3. QED BY <1>3, <1>4, <3>1, <3>2, WhetherSound
  <2>3. QED BY <1>3, <2>1, <2>2
<1>6. Fails(data, p, 1, "insufficient_bytes")
  <2>1. p \in Positions(data)
    BY <1>3 DEF Positions
  <2>2. QED BY <1>3, <1>5, <2>1, FaultFails DEF Sound, None
<1>7. QED BY <1>1, <1>2, <1>6 DEF Steps, Refuses

LEMMA VisitTrailSteps ==
  ASSUME IInv, NEW starts, Parsing(starts), VisitTrail
  PROVE  Steps(starts)
<1>1. /\ pc = "trail" /\ Enough /\ cs \in Numbers \cup Values
      /\ Visit(Scalar(TypeOf(cs, current), current, trail), current + trail - 1)
  BY DEF VisitTrail, Enough
<1>2. PICK p : p = LastStart(starts)
  OBVIOUS
<1>3. /\ p \in 1 .. Len(data) /\ Header(data[p]) /\ AtValue(p)
      /\ trail \in Nat \ {0} /\ current \in Nat \ {0}
      /\ FormOf(data[p]).n # Itself /\ BodyOf(data, p) = current
      /\ BehindOf(data, p) = current + trail /\ ElementsOf(data, p) = 0
      /\ current + trail <= Len(data) + 1
  BY <1>1, <1>2, Waiting DEF Parsing
<1>4. data \in Seq(Bytes)
  BY ParsingFacts DEF IInv
<1>5. PICK type : SameType(cs, type) /\ Parts(data, p, type, trail)
  BY <1>3 DEF AtValue
<1>6. PICK object : object = Scalar(TypeOf(cs, current), current, trail)
  OBVIOUS
<1>7. Describes(data, object, p)
  BY <1>3, <1>4, <1>5, <1>6, ValueDescribed
<1>8. Sound(data, p)
  <2>1. PICK end \in Nat : end = current + trail /\ end <= Len(data) + 1 /\ current <= Len(data) + 1
    BY <1>3, <1>4
  <2>2. QED BY <1>3, <1>4, <2>1, WhetherSound
<1>9. object.type \notin Containers
  BY <1>5, <1>6 DEF Scalar, Object, TypeOf, SameType, Containers
<1>10. (current + trail - 1) + 1 = BehindOf(data, p)
  BY <1>3
<1>11. PICK last : last = current + trail - 1
  OBVIOUS
<1>12. BehindOf(data, p) = last + 1
  BY <1>10, <1>11
<1>13. Visit(object, last)
  BY <1>1, <1>6, <1>11
<1>14. Visits(p)
  BY <1>3, <1>7, <1>8, <1>9, <1>12, <1>13 DEF Visits
<1>15. QED BY <1>2, <1>14 DEF Steps

LEMMA LengthFacts ==
  ASSUME IInv, NEW starts, Parsing(starts), pc = "trail", Enough,
         NEW p, p = LastStart(starts), cs \in Lengths \cup Containers
  PROVE  \E n \in Nat :
           /\ n = Load(current, trail) + (IF cs = "EXT" THEN 1 ELSE 0)
           /\ cs # "EXT" => n = Load(current, trail)
           /\ cs = "EXT" => n # 0
           /\ Parts(data, p, cs, n)
           /\ BodyOf(data, p) = current + trail
<1>1. /\ p \in 1 .. Len(data) /\ AtLength(p)
      /\ trail \in {1, 2, 4} /\ current \in Nat \ {0}
      /\ BodyOf(data, p) = current + trail
      /\ current + trail <= Len(data) + 1
  BY Waiting DEF Parsing
<1>2. p \in Nat /\ current = p + 1 /\ FormOf(data[p]) = Form(cs, trail, 0)
  BY <1>1 DEF AtLength
<1>3. PICK loaded \in Nat : loaded = Load(current, trail)
  BY <1>1, LoadType DEF IInv
<1>4. loaded = BigEndian(data, p + 1, trail)
  BY <1>1, <1>2, <1>3, LoadIs DEF IInv, TypeOK
<1>5. PICK n \in Nat : /\ n = loaded + (IF cs = "EXT" THEN 1 ELSE 0)
                       /\ cs # "EXT" => n = loaded
                       /\ cs = "EXT" => n # 0
  OBVIOUS
<1>6. Parts(data, p, cs, n)
  BY <1>1, <1>2, <1>4, <1>5, LengthObject
<1>7. QED BY <1>1, <1>3, <1>5, <1>6

LEMMA LoadLengthSteps ==
  ASSUME IInv, NEW starts, Parsing(starts), LoadLength
  PROVE  Steps(starts)
<1>1. pc = "trail" /\ Enough /\ cs \in Lengths /\ cs \in Lengths \cup Containers
  BY DEF LoadLength, Enough
<1>2. PICK p : p = LastStart(starts)
  OBVIOUS
<1>3. PICK n \in Nat : /\ n = Load(current, trail) + (IF cs = "EXT" THEN 1 ELSE 0)
                       /\ cs = "EXT" => n # 0
                       /\ Parts(data, p, cs, n)
                       /\ BodyOf(data, p) = current + trail
  BY <1>1, <1>2, LengthFacts
<1>4. /\ p \in 1 .. Len(data) /\ Header(data[p]) /\ AtLength(p)
      /\ trail \in {1, 2, 4} /\ current \in Nat \ {0} /\ FormOf(data[p]).n # Itself
      /\ current + trail <= Len(data) + 1
  BY <1>1, <1>2, Waiting DEF Parsing
<1>5. data \in Seq(Bytes)
  BY ParsingFacts DEF IInv
<1>6. PICK body \in Nat : body = current + trail /\ body <= Len(data) + 1
  BY <1>4
<1>7. CASE n = 0
  <2>1. Visit(Scalar(TypeOf(cs, current), current, 0), current + trail - 1)
    BY <1>3, <1>7 DEF LoadLength
  <2>2. cs \in {"STR", "BIN"} /\ TypeOf(cs, current) = cs
    BY <1>1, <1>3, <1>7 DEF Lengths, TypeOf
  <2>3. PICK object : object = Scalar(cs, current, 0)
    OBVIOUS
  <2>4. Describes(data, object, p) /\ ElementsOf(data, p) = 0 /\ BehindOf(data, p) = body
    BY <1>3, <1>4, <1>5, <1>6, <1>7, <2>2, <2>3, EmptyDescribed
  <2>5. Sound(data, p)
    BY <1>3, <1>4, <1>5, <1>6, <2>4, WhetherSound
  <2>6. object.type \notin Containers
    BY <2>2, <2>3 DEF Scalar, Object, Containers
  <2>7. PICK last : last = current + trail - 1
    OBVIOUS
  <2>8. BehindOf(data, p) = last + 1
    BY <1>4, <1>6, <2>4, <2>7
  <2>9. Visits(p)
    BY <2>1, <2>2, <2>3, <2>4, <2>5, <2>6, <2>7, <2>8 DEF Visits
  <2>10. QED BY <1>2, <2>9 DEF Steps
<1>8. CASE n # 0
  <2>1. /\ trail' = n /\ current' = current + trail
        /\ cs' = (CASE cs = "STR" -> "STR_VALUE" [] cs = "BIN" -> "BIN_VALUE" [] cs = "EXT" -> "EXT_VALUE")
        /\ UNCHANGED <<data, pc, stack, pointers, allocated, objects, outcome>>
    BY <1>3, <1>8 DEF LoadLength
  <2>2. SameType(cs', cs) /\ cs' \in Values
    BY <1>1, <2>1 DEF Lengths, Values, SameType
  <2>3. AtValue(p)'
    <3>1. Parts(data', p, cs, trail')
      BY <1>3, <2>1
    <3>2. QED BY <1>3, <1>4, <2>1, <2>2, <3>1 DEF AtValue
  <2>4. Parsing(starts)'
    BY <1>1, <1>2, <2>1, <2>3 DEF Parsing
  <2>5. QED BY <1>1, <2>1, <2>4 DEF Steps, ReadsOn
<1>9. QED BY <1>7, <1>8

LEMMA StartTrailSteps ==
  ASSUME IInv, NEW starts, Parsing(starts), StartTrail
  PROVE  Steps(starts)
<1>1. /\ pc = "trail" /\ Enough /\ cs \in Containers /\ cs \in Lengths \cup Containers
      /\ StartAggregate(cs, Load(current, trail), current + trail - 1)
  BY DEF StartTrail, Enough
<1>2. PICK p : p = LastStart(starts)
  OBVIOUS
<1>3. cs # "EXT"
  BY <1>1 DEF Containers
<1>4. PICK n \in Nat : /\ n = Load(current, trail)
                       /\ Parts(data, p, cs, n)
                       /\ BodyOf(data, p) = current + trail
  BY <1>1, <1>2, <1>3, LengthFacts
<1>5. /\ p \in 1 .. Len(data) /\ Header(data[p])
      /\ trail \in {1, 2, 4} /\ current \in Nat \ {0} /\ current + trail <= Len(data) + 1
  BY <1>1, <1>2, Waiting DEF Parsing
<1>6. data \in Seq(Bytes)
  BY ParsingFacts DEF IInv
<1>7. PICK body \in Nat : body = current + trail /\ body <= Len(data) + 1
  BY <1>5
<1>8. BehindOf(data, p) = body
  BY <1>1, <1>4, <1>7 DEF Parts
<1>9. Sound(data, p)
  BY <1>4, <1>5, <1>6, <1>7, <1>8, WhetherSound
<1>10. PICK last : last = current + trail - 1
  OBVIOUS
<1>11. BodyOf(data, p) = last + 1
  BY <1>4, <1>5, <1>10
<1>12. Visits(p) \/ Opens(p)
  BY <1>1, <1>4, <1>9, <1>10, <1>11, AggregateSteps
<1>13. QED BY <1>2, <1>12 DEF Steps

\* Every step that reads.
LEMMA ReadingSteps ==
  ASSUME IInv, NEW starts, Parsing(starts), Next, pc # "consume"
  PROVE  Steps(starts)
<1>1. ~ EndAggregate /\ ~ NextElement /\ ~ Finish
  BY DEF EndAggregate, NextElement, Finish
<1>2. QED
  BY <1>1, StartSteps, VisitOneByteSteps, VisitEmptyFixStrSteps, ReadTrailSteps, ParseErrorSteps,
     StartFixedSteps, InsufficientSteps, VisitTrailSteps, LoadLengthSteps, StartTrailSteps
  DEF Next
----------------------------------------------------------------------------
(***************************************************************************)
(* Every step keeps the starts, or ends as the format says.                *)
(***************************************************************************)

LEMMA RefusedAsFormat ==
  ASSUME TypeOK, pc' = "done", data' = data, NEW frames \in Seq(Frames),
         NEW starts \in Seq(Positions(data)), Levels(data, frames, starts),
         Fails(data, LastStart(starts), 1, outcome')
  PROVE  AcceptsFormat' /\ Message'.is # "object"
<1>1. data \in Seq(Bytes)
  BY DEF TypeOK
<1>2. Fails(data, 1, 1, outcome')
  BY <1>1, LevelsFail
<1>3. Message' = Decode(data)[1][1]
  BY DEF Message
<1>4. QED BY <1>2, <1>3 DEF AcceptsFormat, Fails

LEMMA IterateKeeps ==
  ASSUME TypeOK, NEW at \in Positions(data), Iterate(at), data' = data,
         stack' \in Seq(Frames), NEW starts \in Seq(Positions(data)),
         Levels(data, stack', starts), LastStart(starts) = at
  PROVE  /\ pc' = "done" => AcceptsFormat'
         /\ pc' # "done" => Parsing(starts)' /\ pc' = "header"
<1>1. data \in Seq(Bytes) /\ Len(data) \in Nat
  BY DEF TypeOK
<1>2. CASE at = pe
  <2>1. pc' = "done" /\ outcome' = "insufficient_bytes"
    BY <1>2 DEF Iterate, End
  <2>2. at > Len(data)
    BY <1>1, <1>2 DEF pe
  <2>3. FaultOf(data, at) = "insufficient_bytes"
    BY <2>2 DEF FaultOf
  <2>4. Fails(data, at, 1, "insufficient_bytes")
    BY <1>1, <2>3, FaultFails DEF Sound, None
  <2>5. QED BY <2>1, <2>4, RefusedAsFormat
<1>3. CASE at # pe
  <2>1. pc' = "header" /\ current' = at
    BY <1>3 DEF Iterate
  <2>2. Parsing(starts)'
    BY <2>1 DEF Parsing
  <2>3. QED BY <2>1, <2>2
<1>4. QED BY <1>2, <1>3

LEMMA VisitsKeeps ==
  ASSUME IInv, NEW starts, Parsing(starts), Visits(LastStart(starts))
  PROVE  pc' = "consume" /\ Parsing(starts)'
<1>1. PICK p : p = LastStart(starts)
  OBVIOUS
<1>2. PICK object, last :
        /\ Visit(object, last)
        /\ Sound(data, p) /\ ElementsOf(data, p) = 0 /\ BehindOf(data, p) = last + 1
  BY <1>1 DEF Visits
<1>3. data \in Seq(Bytes) /\ p \in Positions(data)
  BY <1>1, ParsingFacts DEF IInv
<1>4. BehindOf(data, p) \in Positions(data)
  BY <1>2, <1>3, SoundFacts DEF Positions
<1>5. Stretch(data, BehindOf(data, p), 0, BehindOf(data, p))
  BY <1>3, <1>4, NothingRead
<1>6. Stretch(data, p, 1, last + 1)
  BY <1>2, <1>3, <1>5, ObjectRead
<1>7. pc' = "consume" /\ current' = last /\ UNCHANGED <<data, stack>>
  BY <1>2 DEF Visit
<1>8. QED BY <1>1, <1>6, <1>7 DEF Parsing

NewFrame(type, n) == [is |-> IF type = "MAP" THEN "MAP_KEY" ELSE "ARRAY_ITEM", rest |-> n]

Opened(starts) == Append(starts, BehindOf(data, LastStart(starts)))

LEMMA OpensKeeps ==
  ASSUME IInv, NEW starts, Parsing(starts), Opens(LastStart(starts))
  PROVE  /\ pc' = "done" => AcceptsFormat'
         /\ pc' # "done" => \E grown : /\ grown = Opened(starts)
                                       /\ Parsing(grown)' /\ pc' = "header"
<1>1. PICK p : p = LastStart(starts)
  OBVIOUS
<1>2. PICK type, n, last :
        /\ type \in Containers /\ n \in Nat \ {0}
        /\ StartAggregate(type, n, last)
        /\ Sound(data, p) /\ ElementsOf(data, p) = Slots(type, n) /\ BehindOf(data, p) = last + 1
  BY <1>1 DEF Opens
<1>3. data \in Seq(Bytes) /\ p \in Positions(data)
  BY <1>1, ParsingFacts DEF IInv
<1>4. PICK behind \in Positions(data) : behind = BehindOf(data, p)
  BY <1>2, <1>3, SoundFacts DEF Positions
<1>5. PICK frame : frame = NewFrame(type, n)
  OBVIOUS
<1>6. frame \in Frames /\ Lacks(frame) = Slots(type, n)
  <2>1. type \in Containers /\ n \in Nat \ {0}
    BY <1>2
  <2>2. QED BY <1>5, <2>1 DEF NewFrame, Frames, Lacks, Slots, Containers
<1>7. stack' = Append(stack, frame) /\ Iterate(behind) /\ data' = data
  BY <1>2, <1>4, <1>5 DEF StartAggregate, NewFrame
<1>8. stack \in Seq(Frames) /\ starts \in Seq(Positions(data)) /\ Levels(data, stack, starts)
  BY DEF IInv, TypeOK, Parsing
<1>9. stack' \in Seq(Frames)
  BY <1>6, <1>7, <1>8, AppendFacts
<1>10. PICK grown : grown = Append(starts, behind)
  OBVIOUS
<1>11. /\ grown \in Seq(Positions(data))
       /\ Levels(data, stack', grown)
       /\ LastStart(grown) = behind
  BY <1>1, <1>2, <1>3, <1>4, <1>6, <1>7, <1>8, <1>10, LevelsPush
<1>12. /\ pc' = "done" => AcceptsFormat'
       /\ pc' # "done" => Parsing(grown)' /\ pc' = "header"
  BY <1>4, <1>7, <1>9, <1>11, IterateKeeps DEF IInv
<1>13. grown = Opened(starts)
  BY <1>1, <1>4, <1>10 DEF Opened
<1>14. QED BY <1>12, <1>13

LEMMA ConsumeFacts ==
  ASSUME IInv, NEW starts, Parsing(starts), pc = "consume"
  PROVE  /\ data \in Seq(Bytes) /\ Len(data) \in Nat /\ stack \in Seq(Frames)
         /\ starts \in Seq(Positions(data)) /\ Levels(data, stack, starts)
         /\ current + 1 \in Positions(data) /\ current \in 1 .. Len(data)
         /\ Stretch(data, LastStart(starts), 1, current + 1)
         /\ stack # <<>> => /\ Top = stack[Len(stack)] /\ Top \in Frames
                            /\ Len(stack) \in DOMAIN stack
<1>1. data \in Seq(Bytes) /\ Len(data) \in Nat /\ current \in 1 .. Len(data)
  BY DEF IInv, TypeOK
<1>2. current + 1 \in Positions(data)
  BY <1>1 DEF Positions
<1>3. stack # <<>> => Top = stack[Len(stack)] /\ Top \in Frames /\ Len(stack) \in DOMAIN stack
  BY TopFacts DEF IInv
<1>4. QED BY <1>1, <1>2, <1>3 DEF Parsing, IInv, TypeOK

LEMMA EndAggregateKeeps ==
  ASSUME IInv, NEW starts, Parsing(starts), EndAggregate
  PROVE  pc' = "consume" /\ Parsing(Pop(starts))'
<1>1. /\ pc = "consume" /\ stack # <<>> /\ stack' = Pop(stack) /\ UNCHANGED <<data, pc, current>>
      /\ Top.is # "MAP_KEY" /\ Top.rest = 1
  BY DEF EndAggregate
<1>2. Lacks(Top) = 1
  BY <1>1, ConsumeFacts DEF Lacks, Frames
<1>3. Lacks(stack[Len(stack)]) = 1
  BY <1>1, <1>2, ConsumeFacts
<1>4. PICK next \in Positions(data) : next = current + 1
  BY <1>1, ConsumeFacts
<1>5. PICK outer : outer = Pop(starts)
  OBVIOUS
<1>6. /\ outer \in Seq(Positions(data)) /\ Levels(data, stack', outer)
      /\ Stretch(data, LastStart(outer), 1, next)
  BY <1>1, <1>3, <1>4, <1>5, ConsumeFacts, LevelsPop
<1>7. Parsing(outer)'
  BY <1>1, <1>4, <1>6 DEF Parsing
<1>8. QED BY <1>1, <1>5, <1>7

Moved(starts) == [starts EXCEPT ![Len(starts)] = current + 1]

LEMMA NextElementKeeps ==
  ASSUME IInv, NEW starts, Parsing(starts), NextElement
  PROVE  /\ pc' = "done" => AcceptsFormat'
         /\ pc' # "done" => \E moved : /\ moved = Moved(starts)
                                       /\ Parsing(moved)' /\ pc' = "header"
<1>1. /\ pc = "consume" /\ stack # <<>> /\ data' = data
      /\ Top.is = "MAP_KEY" \/ Top.rest > 1
  BY DEF NextElement
<1>2. PICK frame :
        frame = [is |-> CASE Top.is = "ARRAY_ITEM" -> "ARRAY_ITEM"
                          [] Top.is = "MAP_KEY" -> "MAP_VALUE" [] Top.is = "MAP_VALUE" -> "MAP_KEY",
                 rest |-> IF Top.is = "MAP_KEY" THEN Top.rest ELSE Top.rest - 1]
  OBVIOUS
<1>3. stack' = [stack EXCEPT ![Len(stack)] = frame] /\ Iterate(current + 1)
  BY <1>2 DEF NextElement
<1>4. Top \in Frames
  BY <1>1, ConsumeFacts
<1>5. frame \in Frames /\ Lacks(frame) = Lacks(Top) - 1
  BY <1>1, <1>2, <1>4 DEF Frames, Lacks
<1>6. Lacks(frame) = Lacks(stack[Len(stack)]) - 1
  BY <1>1, <1>5, ConsumeFacts
<1>7. stack' \in Seq(Frames)
  BY <1>1, <1>3, <1>5, ConsumeFacts
<1>8. PICK next \in Positions(data) : next = current + 1
  BY <1>1, ConsumeFacts
<1>9. PICK moved : moved = WithLast(starts, next)
  OBVIOUS
<1>10. /\ moved \in Seq(Positions(data)) /\ Levels(data, stack', moved)
       /\ LastStart(moved) = next
  <2>1. /\ data \in Seq(Bytes) /\ stack \in Seq(Frames)
        /\ starts \in Seq(Positions(data)) /\ Levels(data, stack, starts)
        /\ Stretch(data, LastStart(starts), 1, next)
    BY <1>1, <1>8, ConsumeFacts
  <2>2. Lacks(frame) = Lacks(stack[Len(stack)]) - 1
    BY <1>6
  <2>3. /\ moved \in Seq(Positions(data))
        /\ Levels(data, WithLast(stack, frame), moved) /\ LastStart(moved) = next
    BY <1>1, <1>5, <1>8, <1>9, <2>1, <2>2, LevelsNext
  <2>4. stack' = WithLast(stack, frame)
    BY <1>3 DEF WithLast
  <2>5. QED BY <2>3, <2>4
<1>11. /\ pc' = "done" => AcceptsFormat'
       /\ pc' # "done" => Parsing(moved)' /\ pc' = "header"
  BY <1>1, <1>3, <1>7, <1>8, <1>10, IterateKeeps DEF IInv
<1>12. moved = Moved(starts)
  BY <1>8, <1>9 DEF Moved, WithLast
<1>13. QED BY <1>11, <1>12

LEMMA FinishKeeps ==
  ASSUME IInv, NEW starts, Parsing(starts), Finish
  PROVE  /\ pc' = "done" /\ AcceptsFormat'
         /\ LastStart(starts) = 1 /\ Stretch(data, 1, 1, current + 1)
<1>1. /\ pc = "consume" /\ stack = <<>> /\ data' = data /\ pc' = "done"
      /\ current' = current + 1
      /\ outcome' = IF current + 1 < pe THEN "extra_bytes" ELSE "success"
  BY DEF Finish, End
<1>2. LastStart(starts) = 1
  <2>1. Len(starts) = 0 + 1 /\ starts[1] = 1
    BY <1>1, ConsumeFacts DEF Levels
  <2>2. QED BY <2>1 DEF LastStart
<1>3. Stretch(data, 1, 1, current + 1)
  BY <1>1, <1>2, ConsumeFacts
<1>4. Message' = Decode(data)[1][1]
  BY <1>1 DEF Message
<1>5. Message'.is = "object" /\ Message'.next = current'
  BY <1>1, <1>3, <1>4 DEF Stretch
<1>6. current + 1 < pe <=> current' <= Len(data')
  BY <1>1, ConsumeFacts DEF pe
<1>7. AcceptsFormat'
  BY <1>1, <1>5, <1>6 DEF AcceptsFormat
<1>8. QED BY <1>1, <1>2, <1>3, <1>7

----------------------------------------------------------------------------
(***************************************************************************)
(* Where in the message the objects of the visitor's slots are.            *)
(***************************************************************************)

\* The elements of the object at a position have n slots from a first one on;
\* those that have a place lie one behind the other.
Laid(bytes, place, at, first, n) ==
  /\ first \in DOMAIN place /\ place[first] = BehindOf(bytes, at)
  /\ \A b \in first + 1 .. first + n - 1 :
       b \in DOMAIN place => b - 1 \in DOMAIN place /\ Stretch(bytes, place[b - 1], 1, place[b])

\* Slot a holds the object at its place, and so do the slots of its elements,
\* which come later.
Placed(bytes, o, place, limit, a) ==
  /\ Sound(bytes, place[a]) /\ Describes(bytes, o, place[a])
  /\ o.type \in Containers /\ o.size # 0 =>
       /\ a < o.first /\ o.first + Slots(o.type, o.size) - 1 <= limit
       /\ Laid(bytes, place, place[a], o.first, Slots(o.type, o.size))

\* The places of the slots that were written, and of the one that is next.
Placing(starts, place) ==
  /\ place \in [DOMAIN objects \cup {Back} -> Positions(data)]
  /\ pc = "consume" => Back \in DOMAIN objects
  /\ \A i \in DOMAIN pointers : pointers[i] \in DOMAIN place /\ starts[i] = place[pointers[i]]
  /\ \A a \in DOMAIN objects : Placed(data, objects[a], place, allocated, a)

WithPlace(place, new, at) == [b \in DOMAIN place \cup {new} |-> IF b = new THEN at ELSE place[b]]

\* A place more leaves what is placed, if its slot is behind all others or
\* follows one that is whole.
LEMMA GrownPlace ==
  ASSUME NEW bytes, NEW o \in Objects, NEW D, NEW S, NEW place \in [D -> S],
         NEW limit \in Nat, NEW more \in Nat, limit <= more, NEW a \in D,
         Placed(bytes, o, place, limit, a),
         NEW new \in Nat, new \notin D, NEW at \in S,
         new > limit \/ (new - 1 \in D /\ Stretch(bytes, place[new - 1], 1, at))
  PROVE  Placed(bytes, o, WithPlace(place, new, at), more, a)
<1>1. PICK grown : grown = WithPlace(place, new, at)
  OBVIOUS
<1>2. /\ DOMAIN grown = D \cup {new} /\ grown[new] = at
      /\ \A b \in D : grown[b] = place[b]
  <2>1. grown = [b \in D \cup {new} |-> IF b = new THEN at ELSE place[b]]
    BY <1>1 DEF WithPlace
  <2>2. QED BY <2>1
<1>3. grown[a] = place[a] /\ DOMAIN place = D
  BY <1>2
<1>4. ASSUME o.type \in Containers, o.size # 0
      PROVE  /\ a < o.first /\ o.first + Slots(o.type, o.size) - 1 <= more
             /\ Laid(bytes, grown, grown[a], o.first, Slots(o.type, o.size))
  <2>1. PICK first \in Nat, n \in Nat : first = o.first /\ n = Slots(o.type, o.size)
    BY DEF Objects, Slots
  <2>2. /\ a < first /\ first + n - 1 <= limit
        /\ first \in D /\ place[first] = BehindOf(bytes, place[a])
        /\ \A b \in first + 1 .. first + n - 1 :
             b \in D => b - 1 \in D /\ Stretch(bytes, place[b - 1], 1, place[b])
    BY <1>3, <1>4, <2>1 DEF Placed, Laid
  <2>3. first \in DOMAIN grown /\ grown[first] = BehindOf(bytes, grown[a])
    BY <1>2, <1>3, <2>2
  <2>4. ASSUME NEW b \in first + 1 .. first + n - 1, b \in DOMAIN grown
        PROVE  b - 1 \in DOMAIN grown /\ Stretch(bytes, grown[b - 1], 1, grown[b])
    <3>1. CASE b = new
      <4>1. ~ (new > limit)
        BY <2>2, <3>1
      <4>2. b - 1 \in D /\ Stretch(bytes, place[b - 1], 1, at)
        BY <3>1, <4>1
      <4>3. QED BY <1>2, <3>1, <4>2
    <3>2. CASE b # new
      <4>1. b \in D
        BY <1>2, <2>4, <3>2
      <4>2. b - 1 \in D /\ Stretch(bytes, place[b - 1], 1, place[b])
        BY <2>2, <4>1
      <4>3. QED BY <1>2, <4>1, <4>2
    <3>3. QED BY <3>1, <3>2
  <2>5. first + n - 1 <= more
    BY <2>2
  <2>6. QED BY <2>1, <2>2, <2>3, <2>4, <2>5 DEF Laid
<1>5. QED BY <1>1, <1>3, <1>4 DEF Placed

----------------------------------------------------------------------------
(***************************************************************************)
(* Every step keeps the places.                                            *)
(***************************************************************************)

\* The object that is read, or has been, is the one on top.
LEMMA BackPlace ==
  ASSUME IInv, NEW starts, Parsing(starts), NEW place, Placing(starts, place)
  PROVE  /\ LastStart(starts) = place[Back] /\ Back \in DOMAIN place /\ Back \in Nat \ {0}
         /\ DOMAIN place = DOMAIN objects \cup {Back}
         /\ place \in [DOMAIN objects \cup {Back} -> Positions(data)]
         /\ Len(starts) = Len(pointers)
<1>1. /\ Len(pointers) \in DOMAIN pointers /\ Back = pointers[Len(pointers)]
      /\ Back \in Nat \ {0}
  BY TopFacts DEF IInv
<1>2. Len(starts) = Len(pointers)
  BY DEF Parsing, Levels, IInv, StacksAgree
<1>3. starts[Len(pointers)] = place[Back] /\ Back \in DOMAIN place
  BY <1>1 DEF Placing
<1>4. QED BY <1>1, <1>2, <1>3 DEF LastStart, Placing

LEMMA ReadsOnPlaces ==
  ASSUME NEW starts, NEW place, Placing(starts, place), ReadsOn(starts)
  PROVE  Placing(starts, place)'
<1>1. UNCHANGED <<data, stack, pointers, allocated, objects>> /\ pc' # "consume"
  BY DEF ReadsOn
<1>2. Back' = Back
  BY <1>1 DEF Back
<1>3. QED BY <1>1, <1>2 DEF Placing

LEMMA VisitsPlaces ==
  ASSUME IInv, pc # "consume", pc # "done", NEW starts, Parsing(starts), NEW place, Placing(starts, place),
         Visits(LastStart(starts))
  PROVE  Placing(starts, place)'
<1>1. PICK object, last :
        /\ Visit(object, last) /\ Describes(data, object, place[Back])
        /\ object.type \in Containers => object.size = 0
        /\ Sound(data, place[Back])
  BY BackPlace DEF Visits
<1>2. UNCHANGED <<data, stack, pointers, allocated>> /\ Write(object) /\ pc' = "consume"
  BY <1>1 DEF Visit
<1>3. Reading
  BY DEF IInv, TypeOK, Reading
<1>4. /\ DOMAIN objects' = DOMAIN objects \cup {Back} /\ objects'[Back] = object
      /\ \A a \in DOMAIN objects : objects'[a] = objects[a]
  BY <1>2, <1>3, WriteEffect
<1>5. Back' = Back
  BY <1>2 DEF Back
<1>6. place \in [DOMAIN objects' \cup {Back'} -> Positions(data')]
  <2>1. DOMAIN objects' \cup {Back} = DOMAIN objects \cup {Back}
    BY <1>4
  <2>2. QED BY <1>2, <1>5, <2>1 DEF Placing
<1>7. Placed(data, object, place, allocated, Back)
  BY <1>1 DEF Placed
<1>8. \A a \in DOMAIN objects' : Placed(data, objects'[a], place, allocated, a)
  BY <1>4, <1>7 DEF Placing
<1>9. \A i \in DOMAIN pointers : pointers[i] \in DOMAIN place /\ starts[i] = place[pointers[i]]
  BY DEF Placing
<1>10. QED BY <1>2, <1>4, <1>5, <1>6, <1>8, <1>9 DEF Placing

LEMMA EndAggregatePlaces ==
  ASSUME IInv, NEW starts, Parsing(starts), NEW place, Placing(starts, place), EndAggregate
  PROVE  Placing(Pop(starts), place)'
<1>1. /\ pc = "consume" /\ stack # <<>> /\ pointers' = Pop(pointers)
      /\ UNCHANGED <<data, pc, allocated, objects>>
  BY DEF EndAggregate
<1>2. PICK m \in Nat \ {0} : m = Len(pointers) /\ DOMAIN pointers = 1 .. m
  BY TopFacts DEF IInv
<1>3. Len(stack) = m - 1 /\ m - 1 \in DOMAIN stack /\ m - 1 \in 1 .. m - 1
  <2>1. Len(stack) \in DOMAIN stack /\ DOMAIN stack = 1 .. m - 1
    BY <1>1, <1>2, TopFacts DEF IInv
  <2>2. Len(stack) \in Nat /\ m = Len(stack) + 1
    BY <1>2 DEF IInv, TypeOK, StacksAgree
  <2>3. QED BY <2>1, <2>2
<1>4. pointers \in Seq(Nat \ {0}) /\ pointers # <<>>
  BY <1>2 DEF IInv, TypeOK
<1>5. /\ Len(pointers') = m - 1 /\ DOMAIN pointers' = 1 .. m - 1
      /\ \A i \in 1 .. m - 1 : pointers'[i] = pointers[i]
  BY <1>1, <1>2, <1>4, PopFacts
<1>6. Back' = pointers[m - 1] /\ pointers[m - 1] \in DOMAIN objects
  <2>1. Back' = pointers'[m - 1]
    BY <1>5 DEF Back
  <2>2. pointers[m - 1] \in DOMAIN objects
    BY <1>3 DEF IInv, StacksAgree
  <2>3. QED BY <1>3, <1>5, <2>1, <2>2
<1>7. /\ starts \in Seq(Positions(data)) /\ starts # <<>> /\ Len(starts) = m
  BY <1>2, BackPlace DEF Parsing
<1>8. PICK outer : outer = Pop(starts)
  OBVIOUS
<1>9. \A i \in 1 .. m - 1 : outer[i] = starts[i]
  BY <1>7, <1>8, PopFacts
<1>10. \A i \in 1 .. m - 1 : pointers'[i] \in DOMAIN place /\ outer[i] = place[pointers'[i]]
  <2>1. \A i \in 1 .. m - 1 : i \in DOMAIN pointers
    BY <1>2
  <2>2. QED BY <1>5, <1>9, <2>1 DEF Placing
<1>11. place \in [DOMAIN objects' \cup {Back'} -> Positions(data')]
  <2>1. DOMAIN objects' \cup {Back'} = DOMAIN objects \cup {Back}
    BY <1>1, <1>6 DEF Placing
  <2>2. QED BY <1>1, <2>1 DEF Placing
<1>12. \A a \in DOMAIN objects' : Placed(data', objects'[a], place, allocated', a)
  BY <1>1 DEF Placing
<1>13. Placing(outer, place)'
  BY <1>1, <1>5, <1>6, <1>10, <1>11, <1>12 DEF Placing
<1>14. QED BY <1>8, <1>13

\* The next element has its place behind the one before.
LEMMA NextElementPlaces ==
  ASSUME IInv, NEW starts, Parsing(starts), NEW place, Placing(starts, place), NextElement,
         pc' # "done", Back' \notin DOMAIN objects'
  PROVE  \E moved, grown : moved = Moved(starts) /\ Placing(moved, grown)'
<1>1. /\ pc = "consume" /\ stack # <<>> /\ UNCHANGED <<data, allocated, objects>>
      /\ pointers' = [pointers EXCEPT ![Len(pointers)] = pointers[Len(pointers)] + 1]
      /\ pc' = "header"
  BY DEF NextElement, Iterate, End
<1>2. PICK m \in Nat \ {0} : m = Len(pointers) /\ DOMAIN pointers = 1 .. m /\ m \in DOMAIN pointers
  BY TopFacts DEF IInv
<1>3. PICK new \in Nat \ {0} : new = pointers[m] + 1 /\ pointers[m] = Back /\ new - 1 = Back
  <2>1. pointers[m] = Back /\ Back \in Nat \ {0}
    BY <1>2, TopFacts DEF IInv
  <2>2. QED BY <2>1
<1>4. /\ Len(pointers') = m /\ DOMAIN pointers' = 1 .. m
      /\ \A i \in 1 .. m : pointers'[i] = IF i = m THEN new ELSE pointers[i]
  <2>1. pointers \in Seq(Nat \ {0})
    BY DEF IInv, TypeOK
  <2>2. QED BY <1>1, <1>2, <1>3, <2>1, ExceptFacts
<1>5. Back' = new
  BY <1>2, <1>4 DEF Back
<1>6. PICK D : D = DOMAIN objects
  OBVIOUS
<1>7. Back \in D /\ place \in [D -> Positions(data)] /\ new \notin D
  <2>1. Back \in DOMAIN objects
    BY <1>1 DEF Placing
  <2>2. DOMAIN objects \cup {Back} = DOMAIN objects
    BY <2>1
  <2>3. QED BY <1>1, <1>5, <1>6, <2>1, <2>2, BackPlace
<1>8. PICK at \in Positions(data) : at = current + 1 /\ Stretch(data, place[Back], 1, at)
  BY <1>1, ConsumeFacts, BackPlace
<1>9. PICK grown : grown = WithPlace(place, new, at)
  OBVIOUS
<1>10. /\ grown \in [D \cup {new} -> Positions(data)] /\ grown[new] = at
       /\ \A b \in D : b # new => grown[b] = place[b]
  <2>1. grown = [b \in D \cup {new} |-> IF b = new THEN at ELSE place[b]]
    BY <1>7, <1>9 DEF WithPlace
  <2>2. \A b \in D : place[b] \in Positions(data)
    BY <1>7
  <2>3. QED BY <2>1, <2>2
<1>11. ASSUME NEW a \in D PROVE Placed(data, objects[a], grown, allocated, a)
  <2>1. Placed(data, objects[a], place, allocated, a)
    BY <1>6 DEF Placing
  <2>2. objects[a] \in Objects /\ allocated \in Nat /\ allocated <= allocated
    BY <1>6 DEF IInv, TypeOK
  <2>3. new - 1 \in D /\ Stretch(data, place[new - 1], 1, at)
    BY <1>3, <1>7, <1>8
  <2>4. QED BY <1>7, <1>9, <2>1, <2>2, <2>3, GrownPlace
<1>12. PICK moved : moved = Moved(starts)
  OBVIOUS
<1>13. \A i \in 1 .. m : moved[i] = IF i = m THEN at ELSE starts[i]
  <2>1. starts \in Seq(Positions(data)) /\ Len(starts) = m /\ DOMAIN starts = 1 .. m
    BY <1>2, BackPlace DEF Parsing
  <2>2. moved = [starts EXCEPT ![m] = at]
    BY <1>8, <1>12, <2>1 DEF Moved
  <2>3. QED BY <1>2, <2>1, <2>2, ExceptFacts
<1>14. ASSUME NEW i \in 1 .. m
       PROVE  pointers'[i] \in DOMAIN grown /\ moved[i] = grown[pointers'[i]]
  <2>1. CASE i = m
    BY <1>4, <1>10, <1>13, <2>1
  <2>2. CASE i # m
    <3>1. i \in DOMAIN pointers
      BY <1>2
    <3>2. pointers[i] \in D /\ starts[i] = place[pointers[i]]
      BY <1>7, <3>1 DEF Placing
    <3>3. pointers[i] # new
      BY <1>7, <3>2
    <3>4. QED BY <1>4, <1>10, <1>13, <2>2, <3>2, <3>3
  <2>3. QED BY <2>1, <2>2
<1>15. Placing(moved, grown)'
  BY <1>1, <1>4, <1>5, <1>6, <1>10, <1>11, <1>14 DEF Placing
<1>16. QED BY <1>12, <1>15

\* The first element of a container has its place behind the header.
LEMMA OpensPlaces ==
  ASSUME IInv, pc # "consume", pc # "done", NEW starts, Parsing(starts), NEW place, Placing(starts, place),
         Opens(LastStart(starts)), pc' # "done"
  PROVE  \E opened, grown : opened = Opened(starts) /\ Placing(opened, grown)'
<1>1. PICK type, n, last :
        /\ type \in Containers /\ n \in Nat \ {0}
        /\ StartAggregate(type, n, last)
        /\ Describes(data, Object(type, allocated + 1, n), place[Back])
        /\ Sound(data, place[Back]) /\ BehindOf(data, place[Back]) = last + 1
  BY BackPlace DEF Opens
<1>2. PICK object, new : object = Object(type, allocated + 1, n) /\ new = allocated + 1
  OBVIOUS
<1>3. /\ Write(object) /\ allocated' = allocated + Slots(type, n) /\ data' = data
      /\ pointers' = Append(pointers, new) /\ pc' = "header"
  BY <1>1, <1>2 DEF StartAggregate, Iterate, End
<1>4. /\ allocated \in Nat \ {0} /\ new \in Nat \ {0} /\ Slots(type, n) \in Nat \ {0}
      /\ allocated' \in Nat /\ new <= allocated' /\ allocated < new /\ allocated <= allocated'
  <2>1. allocated \in Nat \ {0}
    BY DEF IInv, TypeOK
  <2>2. Slots(type, n) \in Nat \ {0}
    <3>1. type \in Containers /\ n \in Nat \ {0}
      BY <1>1
    <3>2. QED BY <3>1 DEF Slots
  <2>3. QED BY <1>2, <1>3, <2>1, <2>2
<1>5. Reading
  BY DEF IInv, TypeOK, Reading
<1>6. /\ DOMAIN objects' = DOMAIN objects \cup {Back} /\ objects'[Back] = object
      /\ \A a \in DOMAIN objects : objects'[a] = objects[a]
      /\ Back \in 1 .. allocated /\ Back \notin DOMAIN objects
  BY <1>3, <1>5, WriteEffect, FreshBack
<1>7. PICK D : D = DOMAIN objects \cup {Back}
  OBVIOUS
<1>8. /\ place \in [D -> Positions(data)] /\ D \subseteq 1 .. allocated /\ new \notin D
      /\ Back \in D
  <2>1. DOMAIN objects \subseteq 1 .. allocated
    BY DEF IInv, TypeOK
  <2>2. D \subseteq 1 .. allocated
    BY <1>6, <1>7, <2>1
  <2>3. new \notin 1 .. allocated
    BY <1>4
  <2>4. QED BY <1>7, <2>2, <2>3, BackPlace
<1>9. PICK at \in Positions(data) : at = BehindOf(data, place[Back])
  <2>1. place[Back] \in Positions(data) /\ data \in Seq(Bytes)
    BY <1>8 DEF IInv, TypeOK
  <2>2. QED BY <1>1, <2>1, SoundFacts DEF Positions
<1>10. PICK grown : grown = WithPlace(place, new, at)
  OBVIOUS
<1>11. /\ grown \in [D \cup {new} -> Positions(data)] /\ grown[new] = at
       /\ \A b \in D : b # new => grown[b] = place[b]
  <2>1. grown = [b \in D \cup {new} |-> IF b = new THEN at ELSE place[b]]
    BY <1>8, <1>10 DEF WithPlace
  <2>2. \A b \in D : place[b] \in Positions(data)
    BY <1>8
  <2>3. QED BY <2>1, <2>2
<1>12. ASSUME NEW a \in DOMAIN objects PROVE Placed(data, objects'[a], grown, allocated', a)
  <2>1. Placed(data, objects[a], place, allocated, a) /\ a \in D
    BY <1>7 DEF Placing
  <2>2. objects[a] \in Objects
    BY DEF IInv, TypeOK
  <2>3. Placed(data, objects[a], grown, allocated', a)
    BY <1>4, <1>8, <1>10, <2>1, <2>2, GrownPlace
  <2>4. QED BY <1>6, <2>3
<1>13. Placed(data, object, grown, allocated', Back)
  <2>1. grown[Back] = place[Back]
    BY <1>8, <1>11
  <2>2. /\ object.type = type /\ object.first = new /\ object.size = n
    BY <1>2 DEF Object
  <2>3. Back < new /\ new + Slots(type, n) - 1 <= allocated'
    BY <1>2, <1>3, <1>4, <1>6
  <2>4. \A b \in new + 1 .. new + Slots(type, n) - 1 : b \notin DOMAIN grown
    <3>1. ASSUME NEW b \in new + 1 .. new + Slots(type, n) - 1 PROVE b \notin D /\ b # new
      BY <1>4, <1>8
    <3>2. QED BY <1>11, <3>1
  <2>5. Laid(data, grown, grown[Back], new, Slots(type, n))
    BY <1>9, <1>11, <2>1, <2>4 DEF Laid
  <2>6. QED BY <1>1, <1>2, <2>1, <2>2, <2>3, <2>5 DEF Placed
<1>14. PICK m \in Nat \ {0} : m = Len(pointers) /\ DOMAIN pointers = 1 .. m
  BY TopFacts DEF IInv
<1>15. /\ Len(pointers') = m + 1 /\ DOMAIN pointers' = 1 .. m + 1
       /\ \A i \in 1 .. m : pointers'[i] = pointers[i]
       /\ pointers'[m + 1] = new
  <2>1. pointers \in Seq(Nat \ {0})
    BY DEF IInv, TypeOK
  <2>2. QED BY <1>3, <1>4, <1>14, <2>1, AppendFacts
<1>16. Back' = new
  BY <1>15 DEF Back
<1>17. PICK opened : opened = Opened(starts)
  OBVIOUS
<1>18. (\A i \in 1 .. m : opened[i] = starts[i]) /\ opened[m + 1] = at
  <2>1. starts \in Seq(Positions(data)) /\ Len(starts) = m /\ LastStart(starts) = place[Back]
    BY <1>14, BackPlace DEF Parsing
  <2>2. opened = Append(starts, at)
    BY <1>9, <1>17, <2>1 DEF Opened
  <2>3. QED BY <2>1, <2>2, AppendFacts
<1>19. ASSUME NEW i \in 1 .. m + 1
       PROVE  pointers'[i] \in DOMAIN grown /\ opened[i] = grown[pointers'[i]]
  <2>1. CASE i = m + 1
    BY <1>11, <1>15, <1>18, <2>1
  <2>2. CASE i # m + 1
    <3>1. i \in 1 .. m /\ i \in DOMAIN pointers
      BY <1>14, <2>2
    <3>2. pointers[i] \in D /\ starts[i] = place[pointers[i]]
      BY <1>8, <3>1 DEF Placing
    <3>3. pointers[i] # new
      BY <1>8, <3>2
    <3>4. QED BY <1>11, <1>15, <1>18, <3>1, <3>2, <3>3
  <2>3. QED BY <2>1, <2>2
<1>20. DOMAIN objects' \cup {Back'} = D \cup {new}
  BY <1>6, <1>7, <1>16
<1>21. \A a \in DOMAIN objects' : Placed(data', objects'[a], grown, allocated', a)
  BY <1>3, <1>6, <1>12, <1>13
<1>22. Placing(opened, grown)'
  BY <1>3, <1>11, <1>15, <1>19, <1>20, <1>21 DEF Placing
<1>23. QED BY <1>17, <1>22

----------------------------------------------------------------------------
(***************************************************************************)
(* The tree the visitor built.                                             *)
(***************************************************************************)
BuiltStep(f, a) ==
  LET o == objects[a] IN
  Tree(o.type, IF o.type \in Containers
               THEN [i \in 1 .. Slots(o.type, o.size) |-> f[o.first + i - 1]]
               ELSE BytesOf(data, o))

IsBuilt(f, low) == f = [a \in low .. allocated |-> BuiltStep(f, a)]

\* Every slot was written, and the elements of a container come later.
AllWritten ==
  /\ allocated \in Nat \ {0} /\ DOMAIN objects = 1 .. allocated
  /\ \A a \in 1 .. allocated :
       /\ objects[a] \in Objects
       /\ objects[a].type \in Containers /\ objects[a].size # 0 =>
            a < objects[a].first
              /\ objects[a].first + Slots(objects[a].type, objects[a].size) - 1 <= allocated

\* A container's slots, if it has any.
LEMMA ElementSlots ==
  ASSUME AllWritten, NEW a \in 1 .. allocated, objects[a].type \in Containers,
         NEW i \in 1 .. Slots(objects[a].type, objects[a].size)
  PROVE  objects[a].first + i - 1 \in a + 1 .. allocated
<1>1. PICK n \in Nat, first \in Nat, slots \in Nat :
        /\ n = objects[a].size /\ first = objects[a].first
        /\ slots = Slots(objects[a].type, objects[a].size) /\ slots \in {n, 2 * n}
  BY DEF AllWritten, Objects, Slots
<1>2. n # 0
  BY <1>1
<1>3. a < first /\ first + slots - 1 <= allocated /\ allocated \in Nat
  BY <1>1, <1>2 DEF AllWritten
<1>4. i \in 1 .. slots
  BY <1>1
<1>5. first + i - 1 \in a + 1 .. allocated
  BY <1>3, <1>4
<1>6. QED BY <1>1, <1>5

LEMMA BuiltStepLooksOnward ==
  ASSUME AllWritten, NEW a \in 1 .. allocated, NEW f, NEW g,
         \A later \in a + 1 .. allocated : g[later] = f[later]
  PROVE  BuiltStep(g, a) = BuiltStep(f, a)
<1>1. CASE objects[a].type \in Containers
  <2>1. \A i \in 1 .. Slots(objects[a].type, objects[a].size) :
          g[objects[a].first + i - 1] = f[objects[a].first + i - 1]
    BY <1>1, ElementSlots
  <2>2. PICK slots : slots = 1 .. Slots(objects[a].type, objects[a].size)
    OBVIOUS
  <2>3. [i \in slots |-> g[objects[a].first + i - 1]] = [i \in slots |-> f[objects[a].first + i - 1]]
    BY <2>1, <2>2
  <2>4. QED BY <1>1, <2>2, <2>3 DEF BuiltStep
<1>2. CASE objects[a].type \notin Containers
  BY <1>2 DEF BuiltStep
<1>3. QED BY <1>1, <1>2

LEMMA BuiltExists ==
  ASSUME AllWritten
  PROVE  \E f : IsBuilt(f, 1)
<1> DEFINE There(low) == \E f : IsBuilt(f, low)
           S == {m \in Nat : m <= allocated => There(allocated + 1 - m)}
<1>1. allocated \in Nat \ {0}
  BY DEF AllWritten
<1>2. There(allocated + 1)
  <2>1. allocated + 1 .. allocated = {}
    BY <1>1
  <2>2. PICK f : f = [a \in {} |-> 0]
    OBVIOUS
  <2>3. f = [a \in allocated + 1 .. allocated |-> BuiltStep(f, a)]
    BY <2>1, <2>2
  <2>4. QED BY <2>3 DEF IsBuilt
<1>3. ASSUME NEW low \in 1 .. allocated, There(low + 1) PROVE There(low)
  <2>1. PICK f : IsBuilt(f, low + 1)
    BY <1>3
  <2> DEFINE g == [a \in low .. allocated |-> BuiltStep(f, a)]
  <2>2. \A a \in low + 1 .. allocated : a \in low .. allocated
    BY <1>1
  <2>3. \A a \in low + 1 .. allocated : g[a] = f[a]
    BY <2>1, <2>2 DEF IsBuilt
  <2>4. ASSUME NEW a \in low .. allocated PROVE BuiltStep(g, a) = BuiltStep(f, a)
    <3>1. a \in 1 .. allocated /\ \A later \in a + 1 .. allocated : later \in low + 1 .. allocated
      BY <1>1
    <3>2. \A later \in a + 1 .. allocated : g[later] = f[later]
      BY <2>3, <3>1
    <3> HIDE DEF g
    <3>3. QED BY <3>1, <3>2, BuiltStepLooksOnward
  <2>5. g = [a \in low .. allocated |-> BuiltStep(g, a)]
    BY <2>4
  <2> HIDE DEF g
  <2>6. IsBuilt(g, low)
    BY <2>5 DEF IsBuilt
  <2>7. QED BY <2>6
<1> HIDE DEF There
<1>4. 0 \in S
  BY <1>1, <1>2
<1>5. ASSUME NEW m \in Nat, m \in S PROVE m + 1 \in S
  <2> SUFFICES ASSUME m + 1 <= allocated PROVE There(allocated + 1 - (m + 1))
    OBVIOUS
  <2>1. There(allocated + 1 - m)
    BY <1>1, <1>5
  <2>2. PICK low \in 1 .. allocated : low = allocated + 1 - (m + 1) /\ low + 1 = allocated + 1 - m
    BY <1>1
  <2>3. QED BY <1>3, <2>1, <2>2
<1>6. Nat \subseteq S
  BY <1>4, <1>5, EveryNumber
<1>7. allocated \in S /\ allocated + 1 - allocated = 1
  BY <1>1, <1>6
<1>8. There(1)
  BY <1>1, <1>7
<1>9. QED BY <1>8 DEF There

LEMMA BuiltIs ==
  ASSUME AllWritten
  PROVE  \A a \in 1 .. allocated : Built[a] = BuiltStep(Built, a)
<1>1. PICK f : IsBuilt(f, 1)
  BY BuiltExists
<1>2. Built = CHOOSE g : IsBuilt(g, 1)
  BY DEF Built, IsBuilt, BuiltStep, BytesOf
<1>3. IsBuilt(Built, 1)
  BY <1>1, <1>2
<1>4. QED BY <1>3 DEF IsBuilt

\* The trees of a stretch are a sequence.
LEMMA TreesAreSequence ==
  ASSUME NEW bytes \in Seq(Bytes), NEW at \in Positions(bytes), NEW n \in Nat, NEW next,
         Stretch(bytes, at, n, next)
  PROVE  TreesAt(bytes, at, n) = [i \in 1 .. n |-> TreesAt(bytes, at, n)[i]]
<1>1. CASE n = 0
  <2>1. PICK f : f = Decode(bytes)
    OBVIOUS
  <2>2. f[at][n] = DecodeStep(bytes, f, at, n)
    BY <2>1, DecodeStepIs
  <2>3. DecodeStep(bytes, f, at, n) = Decoded(<<>>, at)
    BY <1>1 DEF DecodeStep
  <2>4. Decode(bytes)[at][n].trees = <<>>
    BY <2>1, <2>2, <2>3 DEF Decoded
  <2>5. TreesAt(bytes, at, n) = <<>>
    BY <2>4 DEF TreesAt
  <2>6. QED BY <1>1, <2>5
<1>2. CASE n # 0
  <2>1. PICK mid \in Positions(bytes) :
          /\ Sound(bytes, at)
          /\ Stretch(bytes, BehindOf(bytes, at), ElementsOf(bytes, at), mid)
          /\ Stretch(bytes, mid, n - 1, next)
    BY <1>2, StretchParts
  <2>2. PICK tree, rest : TreesAt(bytes, at, n) = Before(tree, rest, n)
    BY <1>2, <2>1, RestRead
  <2>3. PICK trees : trees = TreesAt(bytes, at, n)
    OBVIOUS
  <2>4. trees = [i \in 1 .. n |-> IF i = 1 THEN tree ELSE rest[i - 1]]
    BY <2>2, <2>3 DEF Before
  <2>5. trees = [i \in 1 .. n |-> trees[i]]
    BY <2>4
  <2>6. QED BY <2>3, <2>5
<1>3. QED BY <1>1, <1>2

\* Every slot was written and has its place.
AllPlaced(place) ==
  /\ data \in Seq(Bytes) /\ AllWritten
  /\ place \in [1 .. allocated -> Positions(data)]
  /\ \A a \in 1 .. allocated : Placed(data, objects[a], place, allocated, a)

\* The tree the format has at the place of a slot is the one built below it.
BuiltAt(place, a) ==
  \E next \in Positions(data) :
    Stretch(data, place[a], 1, next) /\ TreesAt(data, place[a], 1)[1] = Built[a]

LEMMA ElementsBuilt ==
  ASSUME NEW place, AllPlaced(place), NEW a \in 1 .. allocated,
         NEW first \in Nat, NEW n \in Nat \ {0},
         Laid(data, place, place[a], first, n), a < first, first + n - 1 <= allocated,
         BehindOf(data, place[a]) \in Positions(data),
         \A later \in a + 1 .. allocated : BuiltAt(place, later)
  PROVE  \E next \in Positions(data) :
           /\ Stretch(data, BehindOf(data, place[a]), n, next)
           /\ \A i \in 1 .. n : TreesAt(data, BehindOf(data, place[a]), n)[i] = Built[first + i - 1]
<1>1. PICK behind \in Positions(data) : behind = BehindOf(data, place[a])
  OBVIOUS
<1>2. data \in Seq(Bytes) /\ allocated \in Nat /\ DOMAIN place = 1 .. allocated
      /\ \A b \in 1 .. allocated : place[b] \in Positions(data)
  BY DEF AllPlaced, AllWritten
<1> DEFINE UpTo(k) == \E next \in Positions(data) :
             /\ Stretch(data, behind, k, next)
             /\ k < n => next = place[first + k]
             /\ \A i \in 1 .. k : TreesAt(data, behind, k)[i] = Built[first + i - 1]
           S == {k \in Nat : k <= n => UpTo(k)}
<1>3. UpTo(0)
  <2>1. Stretch(data, behind, 0, behind)
    BY <1>2, NothingRead
  <2>2. first + 0 = first /\ place[first] = behind /\ 1 .. 0 = {}
    BY <1>1 DEF Laid
  <2>3. QED BY <2>1, <2>2
<1>4. ASSUME NEW k \in Nat, k + 1 <= n, UpTo(k) PROVE UpTo(k + 1)
  <2>1. PICK b, c : b = first + k /\ c = first + (k + 1)
    OBVIOUS
  <2>2. b \in a + 1 .. allocated /\ b \in 1 .. allocated
    BY <1>2, <1>4, <2>1
  <2>3. PICK mid \in Positions(data) : mid = place[b]
    BY <1>2, <2>2
  <2>4. /\ Stretch(data, behind, k, mid)
        /\ \A i \in 1 .. k : TreesAt(data, behind, k)[i] = Built[first + i - 1]
    BY <1>4, <2>1, <2>3
  <2>5. PICK next \in Positions(data) :
          Stretch(data, mid, 1, next) /\ TreesAt(data, mid, 1)[1] = Built[b]
    BY <2>2, <2>3 DEF BuiltAt
  <2>6. /\ Stretch(data, behind, k + 1, next)
        /\ \A i \in 1 .. k : TreesAt(data, behind, k + 1)[i] = TreesAt(data, behind, k)[i]
        /\ TreesAt(data, behind, k + 1)[k + 1] = TreesAt(data, mid, 1)[1]
    BY <1>2, <2>4, <2>5, Longer
  <2>7. k + 1 < n => next = place[c]
    <3> SUFFICES ASSUME k + 1 < n PROVE next = place[c]
      OBVIOUS
    <3>1. c \in first + 1 .. first + n - 1 /\ c \in 1 .. allocated /\ c - 1 = b
      BY <1>2, <2>1
    <3>2. Stretch(data, place[b], 1, place[c])
      BY <1>2, <3>1 DEF Laid
    <3>3. QED BY <2>3, <2>5, <3>2 DEF Stretch
  <2>8. ASSUME NEW i \in 1 .. k + 1
        PROVE  TreesAt(data, behind, k + 1)[i] = Built[first + i - 1]
    <3>1. CASE i = k + 1
      <4>1. first + i - 1 = b
        BY <2>1, <3>1
      <4>2. QED BY <2>5, <2>6, <3>1, <4>1
    <3>2. CASE i # k + 1
      <4>1. i \in 1 .. k
        BY <3>2
      <4>2. QED BY <2>4, <2>6, <4>1
    <3>3. QED BY <3>1, <3>2
  <2>9. QED BY <2>1, <2>6, <2>7, <2>8
<1> HIDE DEF UpTo
<1>5. 0 \in S /\ \A k \in Nat : k \in S => k + 1 \in S
  BY <1>3, <1>4
<1>6. Nat \subseteq S
  BY <1>5, EveryNumber
<1>7. UpTo(n)
  BY <1>6
<1>8. QED BY <1>1, <1>7 DEF UpTo

\* One slot, when the slots of its elements are right.
LEMMA SlotBuilt ==
  ASSUME NEW place, AllPlaced(place), NEW a \in 1 .. allocated,
         \A later \in a + 1 .. allocated : BuiltAt(place, later)
  PROVE  BuiltAt(place, a)
<1>1. PICK o, p : o = objects[a] /\ p = place[a]
  OBVIOUS
<1>2. /\ data \in Seq(Bytes) /\ p \in Positions(data) /\ o \in Objects
      /\ Sound(data, p) /\ Describes(data, o, p)
      /\ Placed(data, o, place, allocated, a)
  BY <1>1 DEF AllPlaced, AllWritten, Placed
<1>3. PICK behind \in Positions(data) : behind = BehindOf(data, p)
  BY <1>2, SoundFacts DEF Positions
<1>4. Built[a] = BuiltStep(Built, a)
  BY BuiltIs DEF AllPlaced
<1>5. ASSUME NEW next \in Positions(data), NEW n, n = ElementsOf(data, p),
             Stretch(data, behind, n, next),
             TreeOf(data, p, TreesAt(data, behind, n)) = Built[a]
      PROVE  BuiltAt(place, a)
  <2>1. /\ Stretch(data, p, 1, next)
        /\ TreesAt(data, p, 1)[1] = TreeOf(data, p, TreesAt(data, behind, n))
    BY <1>2, <1>3, <1>5, ObjectRead
  <2>2. QED BY <1>1, <1>5, <2>1 DEF BuiltAt
<1>6. CASE o.type \notin Containers
  <2>1. Built[a] = Tree(o.type, BytesOf(data, o))
    BY <1>1, <1>4, <1>6 DEF BuiltStep
  <2>2. /\ ElementsOf(data, p) = 0
        /\ \A elements : TreeOf(data, p, elements) = Tree(o.type, BytesOf(data, o))
    BY <1>2, <1>6 DEF Describes
  <2>3. Stretch(data, behind, 0, behind)
    BY <1>2, NothingRead
  <2>4. QED BY <1>5, <2>1, <2>2, <2>3
<1>7. CASE o.type \in Containers
  <2>1. PICK n \in Nat, first \in Nat : n = Slots(o.type, o.size) /\ first = o.first
    BY <1>2 DEF Objects, Slots
  <2>2. /\ ElementsOf(data, p) = n
        /\ \A elements : TreeOf(data, p, elements) = Tree(o.type, elements)
    BY <1>2, <1>7, <2>1 DEF Describes
  <2>3. Built[a] = Tree(o.type, [i \in 1 .. n |-> Built[first + i - 1]])
    BY <1>1, <1>4, <1>7, <2>1 DEF BuiltStep
  <2>4. \E next \in Positions(data) :
          /\ Stretch(data, behind, n, next)
          /\ \A i \in 1 .. n : TreesAt(data, behind, n)[i] = Built[first + i - 1]
    <3>1. CASE n = 0
      <4>1. Stretch(data, behind, 0, behind) /\ 1 .. 0 = {}
        BY <1>2, NothingRead
      <4>2. QED BY <3>1, <4>1
    <3>2. CASE n # 0
      <4>1. o.size # 0
        BY <1>2, <2>1, <3>2 DEF Slots
      <4>2. /\ a < first /\ first + n - 1 <= allocated
            /\ Laid(data, place, place[a], first, n)
        BY <1>1, <1>2, <1>7, <2>1, <4>1 DEF Placed
      <4>3. QED BY <1>1, <1>3, <3>2, <4>2, ElementsBuilt
    <3>3. QED BY <3>1, <3>2
  <2>5. PICK next \in Positions(data) :
          /\ Stretch(data, behind, n, next)
          /\ \A i \in 1 .. n : TreesAt(data, behind, n)[i] = Built[first + i - 1]
    BY <2>4
  <2>6. PICK trees : trees = TreesAt(data, behind, n)
    OBVIOUS
  <2>7. trees = [i \in 1 .. n |-> trees[i]]
    BY <1>2, <2>5, <2>6, TreesAreSequence
  <2>8. [i \in 1 .. n |-> trees[i]] = [i \in 1 .. n |-> Built[first + i - 1]]
    BY <2>5, <2>6
  <2>9. TreeOf(data, p, trees) = Built[a]
    BY <2>2, <2>3, <2>7, <2>8
  <2>10. QED BY <1>5, <2>2, <2>5, <2>6, <2>9
<1>8. QED BY <1>6, <1>7

LEMMA RootBuilt ==
  ASSUME NEW place, AllPlaced(place)
  PROVE  BuiltAt(place, 1)
<1>1. allocated \in Nat \ {0}
  BY DEF AllPlaced, AllWritten
<1> DEFINE S == {m \in Nat : \A a \in 1 .. allocated : a > allocated - m => BuiltAt(place, a)}
<1>2. 0 \in S
  BY <1>1
<1>3. ASSUME NEW m \in Nat, m \in S PROVE m + 1 \in S
  <2> SUFFICES ASSUME NEW a \in 1 .. allocated, a > allocated - (m + 1)
               PROVE  BuiltAt(place, a)
    OBVIOUS
  <2>1. \A later \in a + 1 .. allocated : later \in 1 .. allocated /\ later > allocated - m
    BY <1>1
  <2>2. \A later \in a + 1 .. allocated : BuiltAt(place, later)
    BY <1>3, <2>1
  <2>3. QED BY <2>2, SlotBuilt
<1>4. Nat \subseteq S
  BY <1>2, <1>3, EveryNumber
<1>5. allocated \in S
  BY <1>1, <1>4
<1>6. 1 \in 1 .. allocated /\ 1 > allocated - allocated
  BY <1>1
<1>7. QED BY <1>5, <1>6

\* An object that is accepted.
LEMMA FinishBuilds ==
  ASSUME IInv, NEW starts, Parsing(starts), NEW place, Placing(starts, place), Finish,
         ObjectComplete'
  PROVE  BuildsFormat'
<1>1. /\ pc = "consume" /\ stack = <<>> /\ UNCHANGED <<data, allocated, objects>>
      /\ outcome' \in Accepted
  BY DEF Finish, End, Accepted
<1>2. DOMAIN objects = 1 .. allocated
  BY <1>1 DEF ObjectComplete
<1>3. Back = 1
  <2>1. Len(pointers) = 1 /\ 1 \in DOMAIN pointers /\ Back = pointers[1] /\ Back \in Nat
    BY <1>1, TopFacts DEF IInv, StacksAgree
  <2>2. FirstOf(1) = 1 /\ LastOf(1) = 1
    BY DEF FirstOf, LastOf
  <2>3. 1 <= Back /\ Back <= 1
    BY <2>1, <2>2 DEF IInv, Blocks
  <2>4. QED BY <2>1, <2>3
<1>4. place[1] = 1
  BY <1>3, BackPlace, FinishKeeps
<1>5. place \in [1 .. allocated -> Positions(data)]
  <2>1. DOMAIN objects \cup {Back} = 1 .. allocated
    BY <1>1, <1>2 DEF Placing
  <2>2. QED BY <2>1 DEF Placing
<1>6. \A a \in 1 .. allocated :
        objects[a] \in Objects /\ Placed(data, objects[a], place, allocated, a)
  BY <1>2 DEF Placing, IInv, TypeOK
<1>7. AllWritten
  BY <1>2, <1>6 DEF AllWritten, Placed, IInv, TypeOK
<1>8. AllPlaced(place)
  BY <1>5, <1>6, <1>7 DEF AllPlaced, IInv, TypeOK
<1>9. TreesAt(data, 1, 1)[1] = Built[1]
  BY <1>4, <1>8, RootBuilt DEF BuiltAt
<1>10. Message' = Message /\ Built' = Built
  BY <1>1 DEF Message, Built
<1>11. Message.trees[1] = TreesAt(data, 1, 1)[1]
  BY DEF Message, TreesAt
<1>12. QED BY <1>9, <1>10, <1>11 DEF BuildsFormat

LEMMA DoneIsDone == pc = "done" => ~ Next
BY DEF Next, Start, VisitOneByte, VisitEmptyFixStr, ReadTrail, ParseError, StartFixed, Insufficient,
       Enough, VisitTrail, LoadLength, StartTrail, EndAggregate, NextElement, Finish

\* No other step accepts one.
LEMMA OnlyFinishAccepts ==
  ASSUME IInv, Next, ~ Finish
  PROVE  outcome' \notin Accepted
<1>1. \/ UNCHANGED outcome \/ outcome' \in {"insufficient_bytes", "parse_error"}
  <2>1. \A at : Iterate(at) => UNCHANGED outcome \/ outcome' = "insufficient_bytes"
    BY DEF Iterate, End
  <2>2. \A object, last : Visit(object, last) => UNCHANGED outcome
    BY DEF Visit
  <2>3. \A type, n, last : StartAggregate(type, n, last) =>
          UNCHANGED outcome \/ outcome' = "insufficient_bytes"
    BY <2>1, <2>2 DEF StartAggregate
  <2>4. QED BY <2>1, <2>2, <2>3
        DEF Next, Start, VisitOneByte, VisitEmptyFixStr, ReadTrail, ParseError, StartFixed,
            Insufficient, VisitTrail, LoadLength, StartTrail, EndAggregate, NextElement, End
<1>2. outcome = NoOutcome
  BY DoneIsDone DEF IInv, Control
<1>3. QED BY <1>1, <1>2 DEF Accepted, NoOutcome

----------------------------------------------------------------------------
(***************************************************************************)
(* The parser accepts the format, and builds what it accepts.              *)
(***************************************************************************)
FollowsFormat ==
  /\ pc = "done" => AcceptsFormat /\ BuildsFormat
  /\ pc # "done" => \E starts, place : Parsing(starts) /\ Placing(starts, place)

LEMMA InitFollowsFormat == Init => FollowsFormat
<1> SUFFICES ASSUME Init PROVE FollowsFormat
  OBVIOUS
<1>1. /\ pc = "start" /\ current = 1 /\ stack = <<>> /\ data \in Seq(Bytes)
      /\ pointers = <<1>> /\ objects = <<>>
  BY InputsAssumption DEF Init
<1>2. PICK starts : starts = <<1>>
  OBVIOUS
<1>3. 1 \in Positions(data)
  BY <1>1 DEF Positions
<1>4. starts \in Seq(Positions(data)) /\ Len(starts) = 1 /\ starts[1] = 1
  BY <1>2, <1>3
<1>5. Levels(data, stack, starts) /\ LastStart(starts) = 1
  BY <1>1, <1>4 DEF Levels, LastStart
<1>6. Parsing(starts)
  BY <1>1, <1>4, <1>5 DEF Parsing
<1>7. PICK place : place = [a \in {1} |-> 1]
  OBVIOUS
<1>8. place \in [{1} -> Positions(data)] /\ DOMAIN place = {1} /\ place[1] = 1
  BY <1>3, <1>7
<1>9. /\ DOMAIN objects = {} /\ Back = 1 /\ DOMAIN pointers = {1} /\ pointers[1] = 1
      /\ DOMAIN objects \cup {Back} = {1}
  BY <1>1 DEF Back
<1>10. Placing(starts, place)
  BY <1>1, <1>4, <1>8, <1>9 DEF Placing
<1>11. QED BY <1>1, <1>6, <1>10 DEF FollowsFormat

\* A step that leaves the parser running.
LEMMA GoesOn ==
  ASSUME IInv, NEW starts, Parsing(starts), NEW place, Placing(starts, place), Next,
         WritesFreshSlot', pc' # "done"
  PROVE  \E later, grown : Parsing(later)' /\ Placing(later, grown)'
<1>1. pc # "done"
  BY DoneIsDone
<1>2. CASE pc # "consume"
  <2>1. Steps(starts)
    BY <1>2, ReadingSteps
  <2>2. CASE Refuses(LastStart(starts))
    BY <2>2 DEF Refuses
  <2>3. CASE ReadsOn(starts)
    <3>1. Parsing(starts)' /\ Placing(starts, place)'
      BY <2>3, ReadsOnPlaces DEF ReadsOn
    <3>2. QED BY <3>1
  <2>4. CASE Visits(LastStart(starts))
    <3>1. Parsing(starts)' /\ Placing(starts, place)'
      BY <1>1, <1>2, <2>4, VisitsKeeps, VisitsPlaces
    <3>2. QED BY <3>1
  <2>5. CASE Opens(LastStart(starts))
    <3>1. PICK opened, grown : opened = Opened(starts) /\ Placing(opened, grown)'
      BY <1>1, <1>2, <2>5, OpensPlaces
    <3>2. PICK same : same = Opened(starts) /\ Parsing(same)'
      BY <2>5, OpensKeeps
    <3>3. QED BY <3>1, <3>2
  <2>6. QED BY <2>1, <2>2, <2>3, <2>4, <2>5 DEF Steps
<1>3. CASE pc = "consume"
  <2>1. EndAggregate \/ NextElement \/ Finish
    BY <1>3 DEF Next, Start, VisitOneByte, VisitEmptyFixStr, ReadTrail, ParseError, StartFixed,
                Insufficient, Enough, VisitTrail, LoadLength, StartTrail
  <2>2. CASE EndAggregate
    <3>1. PICK outer : outer = Pop(starts)
      OBVIOUS
    <3>2. Parsing(outer)' /\ Placing(outer, place)'
      BY <2>2, <3>1, EndAggregateKeeps, EndAggregatePlaces
    <3>3. QED BY <3>2
  <2>3. CASE NextElement
    <3>1. PICK same : same = Moved(starts) /\ Parsing(same)' /\ pc' = "header"
      BY <2>3, NextElementKeeps
    <3>2. Back' \notin DOMAIN objects'
      BY <3>1 DEF WritesFreshSlot
    <3>3. PICK moved, grown : moved = Moved(starts) /\ Placing(moved, grown)'
      BY <2>3, <3>2, NextElementPlaces
    <3>4. QED BY <3>1, <3>3
  <2>4. CASE Finish
    BY <2>4 DEF Finish, End
  <2>5. QED BY <2>1, <2>2, <2>3, <2>4
<1>4. QED BY <1>2, <1>3

\* A step that ends it.
LEMMA EndsAsFormat ==
  ASSUME IInv, NEW starts, Parsing(starts), NEW place, Placing(starts, place), Next,
         ObjectComplete', pc' = "done"
  PROVE  AcceptsFormat' /\ BuildsFormat'
<1>1. CASE pc # "consume"
  <2>1. Steps(starts) /\ ~ Finish
    BY <1>1, ReadingSteps DEF Finish
  <2>2. CASE Refuses(LastStart(starts))
    <3>1. /\ stack \in Seq(Frames) /\ starts \in Seq(Positions(data)) /\ TypeOK
          /\ Levels(data, stack, starts)
      BY DEF Parsing, IInv, TypeOK
    <3>2. AcceptsFormat'
      BY <2>2, <3>1, RefusedAsFormat DEF Refuses
    <3>3. QED BY <2>1, <3>2, OnlyFinishAccepts DEF BuildsFormat
  <2>3. CASE ReadsOn(starts)
    BY <2>3 DEF ReadsOn
  <2>4. CASE Visits(LastStart(starts))
    BY <2>4, VisitsKeeps
  <2>5. CASE Opens(LastStart(starts))
    BY <2>1, <2>5, OpensKeeps, OnlyFinishAccepts DEF BuildsFormat
  <2>6. QED BY <2>1, <2>2, <2>3, <2>4, <2>5 DEF Steps
<1>2. CASE pc = "consume"
  <2>1. EndAggregate \/ NextElement \/ Finish
    BY <1>2 DEF Next, Start, VisitOneByte, VisitEmptyFixStr, ReadTrail, ParseError, StartFixed,
                Insufficient, Enough, VisitTrail, LoadLength, StartTrail
  <2>2. CASE EndAggregate
    BY <1>2, <2>2 DEF EndAggregate
  <2>3. CASE NextElement
    <3>1. ~ Finish
      BY <2>3 DEF NextElement, Finish
    <3>2. QED BY <2>3, <3>1, NextElementKeeps, OnlyFinishAccepts DEF BuildsFormat
  <2>4. CASE Finish
    BY <2>4, FinishKeeps, FinishBuilds
  <2>5. QED BY <2>1, <2>2, <2>3, <2>4
<1>3. QED BY <1>1, <1>2

LEMMA NextFollowsFormat ==
  IInv /\ FollowsFormat /\ Next /\ WritesFreshSlot' /\ ObjectComplete' => FollowsFormat'
<1> SUFFICES ASSUME IInv, FollowsFormat, Next, WritesFreshSlot', ObjectComplete'
             PROVE  FollowsFormat'
  OBVIOUS
<1>1. PICK starts, place : Parsing(starts) /\ Placing(starts, place)
  BY DoneIsDone DEF FollowsFormat
<1>2. pc' = "done" => AcceptsFormat' /\ BuildsFormat'
  BY <1>1, EndsAsFormat
<1>3. pc' # "done" => \E later, grown : Parsing(later)' /\ Placing(later, grown)'
  BY <1>1, GoesOn
<1>4. QED BY <1>2, <1>3 DEF FollowsFormat

LEMMA StutterFollowsFormat == FollowsFormat /\ UNCHANGED vars => FollowsFormat'
<1> SUFFICES ASSUME FollowsFormat, UNCHANGED vars PROVE FollowsFormat'
  OBVIOUS
<1>1. /\ UNCHANGED <<data, pc, current, cs, trail, stack, pointers, allocated, objects, outcome>>
  BY DEF vars
<1>2. AcceptsFormat' = AcceptsFormat /\ BuildsFormat' = BuildsFormat
  BY <1>1 DEF AcceptsFormat, BuildsFormat, Message, Built
<1>3. \A starts : Parsing(starts)' <=> Parsing(starts)
  BY <1>1 DEF Parsing, AtLength, AtValue
<1>4. \A starts, place : Placing(starts, place)' <=> Placing(starts, place)
  BY <1>1 DEF Placing, Back
<1>5. QED BY <1>1, <1>2, <1>3, <1>4 DEF FollowsFormat

LEMMA FollowsTheFormat == Spec => [](IInv /\ FollowsFormat)
<1>1. Init => FollowsFormat
  BY InitFollowsFormat
<1>2. IInv /\ WritesFreshSlot' /\ ObjectComplete' /\ FollowsFormat /\ [Next]_vars => FollowsFormat'
  BY NextFollowsFormat, StutterFollowsFormat
<1>3. QED BY <1>1, <1>2, Invariance, Fresh, Complete, PTL DEF Spec

\* The parser accepts just the messages that begin with an object of the format,
\* stops behind it, and refuses the others for the first thing wrong with them.
THEOREM AcceptsTheFormat == Spec => []AcceptsFormat
<1>1. FollowsFormat => AcceptsFormat
  BY DEF FollowsFormat, AcceptsFormat
<1>2. QED BY <1>1, FollowsTheFormat, PTL

\* The object that is handed out is the one the format says the message begins
\* with, down to its last element, however arrays and maps nest.
THEOREM BuildsTheFormat == Spec => []BuildsFormat
<1>1. IInv /\ FollowsFormat => BuildsFormat
  BY DEF IInv, Control, FollowsFormat, BuildsFormat, Accepted, NoOutcome
<1>2. QED BY <1>1, FollowsTheFormat, PTL
=============================================================================
