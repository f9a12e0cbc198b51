---------------------------- MODULE PackerProofs ----------------------------
(***************************************************************************)
(* What the packer writes is what the parser and the conversions read, for *)
(* every int and for every length of a string or an argument list.  The    *)
(* bytes lie at a position of a message, and the theorems follow them      *)
(* through the header's table, the visitor and the conversion.             *)
(***************************************************************************)
EXTENDS Parser, Packer, TLAPS

\* A message has these bytes at a position.
HoldsAt(bytes, at) == \A i \in 1 .. Len(bytes) : data[at + i - 1] = bytes[i]

\* int is 32 bits wide, and so are the lengths of the format.
IsInt32(d) == d \in Int /\ d >= -2147483648 /\ d < 2147483648
IsUInt32(n) == n \in Nat /\ n < 4294967296

----------------------------------------------------------------------------
(***************************************************************************)
(* The bytes of a number, put together again.                              *)
(***************************************************************************)

LEMMA OneUnsigned == ASSUME NEW d \in Int, d >= 0, d < 256 PROVE d % 256 = d
BY SMT

LEMMA OneSigned ==
  ASSUME NEW d \in Int, d < 0, d >= -128
  PROVE  d % 256 >= 128 /\ (d % 256) - 256 = d
BY SMT

LEMMA TwoUnsigned ==
  ASSUME NEW d \in Int, d >= 0, d < 65536
  PROVE  256 * ((d \div 256) % 256) + (d % 256) = d
BY SMT

LEMMA TwoSigned ==
  ASSUME NEW d \in Int, d < 0, d >= -32768
  PROVE  /\ (d \div 256) % 256 >= 128
         /\ 256 * (((d \div 256) % 256) - 256) + (d % 256) = d
<1>1. (d \div 256) % 256 >= 128
  BY SMT
<1>2. 256 * (((d \div 256) % 256) - 256) + (d % 256) = d
  BY SMT
<1>3. QED BY <1>1, <1>2

LEMMA FourUnsigned ==
  ASSUME NEW d, IsUInt32(d)
  PROVE  65536 * (256 * ((d \div 16777216) % 256) + ((d \div 65536) % 256))
           + (256 * ((d \div 256) % 256) + (d % 256)) = d
BY SMTT(60) DEF IsUInt32

LEMMA FourSigned ==
  ASSUME NEW d, IsInt32(d), d < 0
  PROVE  /\ (d \div 16777216) % 256 >= 128
         /\ 65536 * (256 * (((d \div 16777216) % 256) - 256) + ((d \div 65536) % 256))
              + (256 * ((d \div 256) % 256) + (d % 256)) = d
<1>1. (d \div 16777216) % 256 >= 128
  BY SMTT(60) DEF IsInt32
<1>2. 65536 * (256 * (((d \div 16777216) % 256) - 256) + ((d \div 65536) % 256))
        + (256 * ((d \div 256) % 256) + (d % 256)) = d
  BY SMTT(60) DEF IsInt32
<1>3. QED BY <1>1, <1>2, SMT

\* Where the bytes of a header and of a number behind it lie.
LEMMA Written ==
  ASSUME NEW h \in Int, NEW d \in Int, NEW width \in {1, 2, 4}, NEW at \in Nat \ {0},
         HoldsAt(<<h>> \o Store(d, width), at)
  PROVE  /\ data[at] = h
         /\ Len(<<h>> \o Store(d, width)) = width + 1
         /\ width = 1 => data[at + 1] = d % 256
         /\ width = 2 => data[at + 1] = (d \div 256) % 256 /\ data[at + 2] = d % 256
         /\ width = 4 => /\ data[at + 1] = (d \div 16777216) % 256
                         /\ data[at + 2] = (d \div 65536) % 256
                         /\ data[at + 3] = (d \div 256) % 256
                         /\ data[at + 4] = d % 256
<1>0. PICK a \in Int, b \in Int, c \in Int, e \in Int :
        /\ a = (d \div 16777216) % 256 /\ b = (d \div 65536) % 256
        /\ c = (d \div 256) % 256 /\ e = d % 256
  BY SMT
<1>1. /\ Store(d, width) \in Seq(Int)
      /\ Len(Store(d, width)) = width
      /\ width = 1 => Store(d, width)[1] = e
      /\ width = 2 => Store(d, width)[1] = c /\ Store(d, width)[2] = e
      /\ width = 4 => /\ Store(d, width)[1] = a /\ Store(d, width)[2] = b
                      /\ Store(d, width)[3] = c /\ Store(d, width)[4] = e
  <2>1. CASE width = 1
    <3>1. Store(d, width) = <<e>>
      BY <1>0, <2>1, SMT DEF Store
    <3>2. PICK t : t = <<e>>
      OBVIOUS
    <3>3. t \in Seq(Int) /\ Len(t) = 1 /\ t[1] = e
      BY <3>2
    <3>4. Store(d, width) = t
      BY <3>1, <3>2
    <3>5. QED BY <2>1, <3>3, <3>4
  <2>2. CASE width = 2
    <3>1. Store(d, width) = Store16(d)
      BY <2>2 DEF Store
    <3>2. Store16(d) = <<c, e>>
      BY <1>0, SMT DEF Store16
    <3>3. PICK t : t = <<c, e>>
      OBVIOUS
    <3>4. t \in Seq(Int) /\ Len(t) = 2 /\ t[1] = c /\ t[2] = e
      BY <3>3
    <3>5. Store(d, width) = t
      BY <3>1, <3>2, <3>3
    <3>6. QED BY <2>2, <3>4, <3>5
  <2>3. CASE width = 4
    <3>1. Store(d, width) = Store32(d)
      BY <2>3 DEF Store
    <3>2. Store32(d) = <<a, b, c, e>>
      BY <1>0, SMT DEF Store32
    <3>3. PICK t : t = <<a, b, c, e>>
      OBVIOUS
    <3>4. t \in Seq(Int) /\ Len(t) = 4 /\ t[1] = a /\ t[2] = b /\ t[3] = c /\ t[4] = e
      BY <3>3
    <3>5. Store(d, width) = t
      BY <3>1, <3>2, <3>3
    <3>6. QED BY <2>3, <3>4, <3>5
  <2>4. QED BY <2>1, <2>2, <2>3
<1>2. PICK number \in Seq(Int) : number = Store(d, width)
  BY <1>1
<1>3. /\ <<h>> \o number \in Seq(Int)
      /\ Len(<<h>> \o number) = width + 1
      /\ (<<h>> \o number)[1] = h
      /\ \A i \in 1 .. width : (<<h>> \o number)[i + 1] = number[i]
  BY <1>1, <1>2
<1>4. /\ data[at + 1 - 1] = h
      /\ \A i \in 1 .. width : data[at + (i + 1) - 1] = number[i]
  <2>1. 1 \in 1 .. width + 1 /\ \A i \in 1 .. width : i + 1 \in 1 .. width + 1
    OBVIOUS
  <2>2. \A k \in 1 .. width + 1 : data[at + k - 1] = (<<h>> \o number)[k]
    BY <1>2, <1>3 DEF HoldsAt
  <2>3. QED BY <1>3, <2>1, <2>2
<1>5. /\ data[at] = h
      /\ \A i \in 1 .. width : data[at + i] = number[i]
  <2>1. at + 1 - 1 = at /\ \A i \in 1 .. width : at + (i + 1) - 1 = at + i
    OBVIOUS
  <2>2. QED BY <1>4, <2>1
<1>6. /\ width = 1 => 1 \in 1 .. width
      /\ width = 2 => 1 \in 1 .. width /\ 2 \in 1 .. width
      /\ width = 4 => 1 \in 1 .. width /\ 2 \in 1 .. width /\ 3 \in 1 .. width /\ 4 \in 1 .. width
  OBVIOUS
<1>7. /\ width = 1 => data[at + 1] = e
      /\ width = 2 => data[at + 1] = c /\ data[at + 2] = e
      /\ width = 4 => /\ data[at + 1] = a /\ data[at + 2] = b
                      /\ data[at + 3] = c /\ data[at + 4] = e
  BY <1>1, <1>2, <1>5, <1>6
<1>8. Len(<<h>> \o Store(d, width)) = width + 1
  BY <1>2, <1>3
<1>9. QED BY <1>0, <1>5, <1>7, <1>8, SMT

----------------------------------------------------------------------------
(***************************************************************************)
(* An int behind a header.                                                 *)
(***************************************************************************)

\* The object the visitor makes of the number at a position: VisitOneByte and
\* VisitTrail give it these arguments.
NumberAt(at) ==
  IF data[at] \in OneByte
  THEN Scalar(OneByteType(data[at]), at, 1)
  ELSE Scalar(TypeOf(NextCs(data[at]), at + 1), at + 1, Trail(data[at]))

\* The object of an int at a position: the number itself or what is behind its
\* header.
IntObject(d, at) ==
  LET size == Len(PackInt(d)) IN
  Object(IF d >= 0 THEN "POSITIVE_INTEGER" ELSE "NEGATIVE_INTEGER",
         IF size = 1 THEN at ELSE at + 1, IF size = 1 THEN 1 ELSE size - 1)

\* What ReadTrail makes of a header of the packer's.
LEMMA Headers ==
  /\ \A h \in {204, 205, 206} : h \in WithTrail /\ h \notin OneByte /\ NextCs(h) = "UINT"
  /\ \A h \in {208, 209, 210} : h \in WithTrail /\ h \notin OneByte /\ NextCs(h) = "INT"
  /\ Trail(204) = 1 /\ Trail(205) = 2 /\ Trail(206) = 4
  /\ Trail(208) = 1 /\ Trail(209) = 2 /\ Trail(210) = 4
<1>1. /\ \A h \in {204, 205, 206} : h \in WithTrail /\ h \notin OneByte
      /\ \A h \in {208, 209, 210} : h \in WithTrail /\ h \notin OneByte
  BY DEF WithTrail, OneByte, PositiveFixnum, NegativeFixnum
<1>2. /\ \A h \in {204, 205, 206} : NextCs(h) = "UINT"
      /\ \A h \in {208, 209, 210} : NextCs(h) = "INT"
  BY DEF NextCs
<1>3. /\ Trail(204) = 1 /\ Trail(205) = 2 /\ Trail(206) = 4
      /\ Trail(208) = 1 /\ Trail(209) = 2 /\ Trail(210) = 4
  BY DEF Trail
<1>4. QED BY <1>1, <1>2, <1>3

\* A header says how wide its number is, and the number fits.
Carries(h, width, d) ==
  /\ h \in {204, 205, 206, 208, 209, 210} /\ width \in {1, 2, 4} /\ d \in Int
  /\ Trail(h) = width /\ IsInt32(d)
  /\ h \in {204, 205, 206} => /\ d >= 0 /\ IsUInt32(d)
                              /\ (width = 1 => d < 256) /\ (width = 2 => d < 65536)
  /\ h \in {208, 209, 210} => /\ d < 0
                              /\ (width = 1 => d >= -128) /\ (width = 2 => d >= -32768)

\* How an int of one, two or four bytes is converted.
LEMMA Converted ==
  ASSUME NEW o, NEW type \in {"POSITIVE_INTEGER", "NEGATIVE_INTEGER"},
         NEW first \in Nat \ {0}, NEW width \in {1, 2, 4}, NEW d,
         o = [type |-> type, first |-> first, size |-> width],
         LoadFrom(IF type = "NEGATIVE_INTEGER" THEN data[first] - 256 ELSE data[first],
                  first, width) = d,
         width = 4 => (data[first] < 128 <=> type = "POSITIVE_INTEGER")
  PROVE  /\ Accepts("int", o)
         /\ Argument("int", o) = [is |-> "int", of |-> d]
<1>1. o.type = type /\ o.first = first /\ o.size = width
  OBVIOUS
<1>2. /\ first + width - width = first
      /\ (IF width < 4 THEN width ELSE 4) = width
      /\ width >= 4 => width = 4 /\ first + width - 4 = first
  OBVIOUS
<1>3. Integer(o) = d
  BY <1>1, <1>2 DEF Integer
<1>4. InIntRange(o)
  <2>1. \A i \in first .. first - 1 : FALSE
    OBVIOUS
  <2>2. CASE width = 4
    <3>1. o.first + o.size - 4 = first
      BY <1>1, <1>2, <2>2
    <3>2. QED BY <1>1, <2>1, <2>2, <3>1 DEF InIntRange
  <2>3. CASE width # 4
    <3>1. ~(o.size >= 4)
      BY <1>1, <2>3
    <3>2. QED BY <3>1 DEF InIntRange
  <2>4. QED BY <2>2, <2>3
<1>5. Accepts("int", o)
  BY <1>1, <1>4 DEF Accepts
<1>6. Argument("int", o) = [is |-> "int", of |-> d]
  BY <1>3 DEF Argument
<1>7. QED BY <1>5, <1>6

\* The top byte of a number that int holds is below its top bit.
LEMMA TopByte ==
  ASSUME NEW d, IsInt32(d), d >= 0
  PROVE  (d \div 16777216) % 256 < 128
BY SMTT(60) DEF IsInt32

\* A number of one of three widths behind its header is the number again.
LEMMA BehindHeader ==
  ASSUME NEW h, NEW d, NEW width, NEW at \in Nat \ {0},
         HoldsAt(<<h>> \o Store(d, width), at), Carries(h, width, d)
  PROVE  /\ data[at] \in WithTrail
         /\ Trail(data[at]) = Len(<<h>> \o Store(d, width)) - 1
         /\ NextCs(data[at]) \in {"UINT", "INT"}
         /\ NumberAt(at) = Object(IF d >= 0 THEN "POSITIVE_INTEGER" ELSE "NEGATIVE_INTEGER", at + 1, width)
         /\ Accepts("int", NumberAt(at))
         /\ Argument("int", NumberAt(at)) = [is |-> "int", of |-> d]
<1> USE DEF Carries
<1>1. /\ data[at] = h
      /\ Len(<<h>> \o Store(d, width)) = width + 1
      /\ width = 1 => data[at + 1] = d % 256
      /\ width = 2 => data[at + 1] = (d \div 256) % 256 /\ data[at + 2] = d % 256
      /\ width = 4 => /\ data[at + 1] = (d \div 16777216) % 256
                      /\ data[at + 2] = (d \div 65536) % 256
                      /\ data[at + 3] = (d \div 256) % 256
                      /\ data[at + 4] = d % 256
  BY Written, SMT
<1>2. data[at] \in WithTrail /\ data[at] \notin OneByte
  BY <1>1, Headers
<1>3. PICK first \in Nat \ {0} : first = at + 1
  OBVIOUS
<1>4. PICK type : type = TypeOf(NextCs(h), first)
  OBVIOUS
<1>5. width = 4 => /\ data[first] = (d \div 16777216) % 256
                   /\ data[first + 1] = (d \div 65536) % 256
                   /\ data[first + 2] = (d \div 256) % 256
                   /\ data[first + 3] = d % 256
  <2>1. first + 1 = at + 2 /\ first + 2 = at + 3 /\ first + 3 = at + 4
    BY <1>3
  <2>2. QED BY <1>1, <1>3, <2>1, SMT
<1>6. PICK a \in Int, b \in Int, c \in Int, e \in Int :
        /\ a = (d \div 16777216) % 256 /\ b = (d \div 65536) % 256
        /\ c = (d \div 256) % 256 /\ e = d % 256
  BY SMT
<1>7. CASE h \in {204, 205, 206}
  <2>1. type = "POSITIVE_INTEGER"
    BY <1>4, <1>7, Headers DEF TypeOf
  <2>2. NumberAt(at) = [type |-> type, first |-> first, size |-> width]
    BY <1>1, <1>2, <1>3, <1>4, <2>1 DEF NumberAt, Scalar, Object
  <2>3. width = 4 => data[first] < 128
    <3>1. a < 128
      BY <1>6, <1>7, TopByte, SMT
    <3>2. QED BY <1>5, <1>6, <3>1
  <2>4. LoadFrom(data[first], first, width) = d
    <3>1. CASE width = 1
      BY <1>1, <1>3, <1>7, <3>1, OneUnsigned, SMT DEF LoadFrom
    <3>2. CASE width = 2
      BY <1>1, <1>3, <1>7, <3>2, TwoUnsigned, SMT DEF LoadFrom
    <3>3. CASE width = 4
      <4>1. 65536 * (256 * a + b) + (256 * c + e) = d
        BY <1>7, <1>6, FourUnsigned, SMT
      <4>2. QED BY <1>5, <1>6, <3>3, <4>1, SMT DEF LoadFrom
    <3>4. QED BY <3>1, <3>2, <3>3
  <2>5. d >= 0 /\ NextCs(data[at]) \in {"UINT", "INT"}
    <3>1. NextCs(h) = "UINT"
      BY <1>7, Headers, SMTT(30)
    <3>2. data[at] = h
      BY <1>1
    <3>3. d >= 0
      BY <1>7
    <3>4. QED BY <3>1, <3>2, <3>3
  <2>6. NumberAt(at) = Object(IF d >= 0 THEN "POSITIVE_INTEGER" ELSE "NEGATIVE_INTEGER", at + 1, width)
    BY <1>3, <2>1, <2>2, <2>5 DEF Object
  <2>7. Accepts("int", NumberAt(at)) /\ Argument("int", NumberAt(at)) = [is |-> "int", of |-> d]
    <3>1. LoadFrom(IF type = "NEGATIVE_INTEGER" THEN data[first] - 256 ELSE data[first],
                   first, width) = d
      BY <2>1, <2>4
    <3>2. QED BY <2>1, <2>2, <2>3, <3>1, Converted
  <2>8. QED BY <1>1, <1>2, <2>5, <2>6, <2>7
<1>8. CASE h \in {208, 209, 210}
  <2>1. data[first] >= 128 /\ data[first] \in Int
    <3>1. CASE width = 1
      BY <1>1, <1>3, <1>8, <3>1, OneSigned, SMT
    <3>2. CASE width = 2
      BY <1>1, <1>3, <1>8, <3>2, TwoSigned, SMT
    <3>3. CASE width = 4
      <4>1. (d \div 16777216) % 256 >= 128 /\ (d \div 16777216) % 256 \in Int
        <5>1. (d \div 16777216) % 256 >= 128
          BY <1>8, FourSigned, SMT
        <5>2. (d \div 16777216) % 256 \in Int
          BY SMT
        <5>3. QED BY <5>1, <5>2, SMT
      <4>2. QED BY <1>5, <3>3, <4>1, SMT
    <3>4. QED BY <3>1, <3>2, <3>3
  <2>2. type = "NEGATIVE_INTEGER"
    BY <1>4, <1>8, <2>1, Headers DEF TypeOf
  <2>3. NumberAt(at) = [type |-> type, first |-> first, size |-> width]
    BY <1>1, <1>2, <1>3, <1>4, <2>2 DEF NumberAt, Scalar, Object
  <2>4. ~(data[first] < 128)
    BY <2>1
  <2>5. LoadFrom(data[first] - 256, first, width) = d
    <3>1. CASE width = 1
      BY <1>1, <1>3, <1>8, <3>1, OneSigned, SMT DEF LoadFrom
    <3>2. CASE width = 2
      BY <1>1, <1>3, <1>8, <3>2, TwoSigned, SMT DEF LoadFrom
    <3>3. CASE width = 4
      <4>1. 65536 * (256 * (a - 256) + b) + (256 * c + e) = d
        BY <1>8, <1>6, FourSigned, SMT
      <4>2. QED BY <1>5, <1>6, <3>3, <4>1, SMT DEF LoadFrom
    <3>4. QED BY <3>1, <3>2, <3>3
  <2>6. d < 0 /\ NextCs(data[at]) \in {"UINT", "INT"}
    <3>1. NextCs(h) = "INT"
      BY <1>8, Headers, SMTT(30)
    <3>2. data[at] = h
      BY <1>1
    <3>3. d < 0
      BY <1>8
    <3>4. QED BY <3>1, <3>2, <3>3
  <2>7. NumberAt(at) = Object(IF d >= 0 THEN "POSITIVE_INTEGER" ELSE "NEGATIVE_INTEGER", at + 1, width)
    BY <1>3, <2>2, <2>3, <2>6 DEF Object
  <2>8. Accepts("int", NumberAt(at)) /\ Argument("int", NumberAt(at)) = [is |-> "int", of |-> d]
    <3>1. LoadFrom(IF type = "NEGATIVE_INTEGER" THEN data[first] - 256 ELSE data[first],
                   first, width) = d
      BY <2>2, <2>5
    <3>2. QED BY <2>2, <2>3, <2>4, <3>1, Converted
  <2>9. QED BY <1>1, <1>2, <2>6, <2>7, <2>8
<1>9. QED BY <1>7, <1>8

----------------------------------------------------------------------------
(***************************************************************************)
(* Ints, strings and lists.                                                *)
(***************************************************************************)

\* An int is written in one byte or behind a header.
InOneByte(d) == d >= -32 /\ d < 128 /\ PackInt(d) = <<d % 256>>
BehindItsHeader(d) == \E h, width : PackInt(d) = <<h>> \o Store(d, width) /\ Carries(h, width, d)

LEMMA IntForms ==
  ASSUME NEW d, IsInt32(d)
  PROVE  InOneByte(d) \/ BehindItsHeader(d)
<1> USE DEF InOneByte, BehindItsHeader
<1>1. d \in Int /\ (d >= 0 => IsUInt32(d))
  BY SMT DEF IsInt32, IsUInt32
<1>2. CASE d >= -32 /\ d < 128
  BY <1>1, <1>2 DEF PackInt, Store
<1>3. CASE d < -32768
  <2>1. PackInt(d) = <<210>> \o Store(d, 4)
    BY <1>1, <1>3 DEF PackInt
  <2>2. Carries(210, 4, d)
    BY <1>1, <1>3, Headers DEF Carries
  <2>3. QED BY <2>1, <2>2
<1>4. CASE d >= -32768 /\ d < -128
  <2>1. PackInt(d) = <<209>> \o Store(d, 2)
    BY <1>1, <1>4 DEF PackInt
  <2>2. Carries(209, 2, d)
    BY <1>1, <1>4, Headers DEF Carries
  <2>3. QED BY <2>1, <2>2
<1>5. CASE d >= -128 /\ d < -32
  <2>1. PackInt(d) = <<208>> \o Store(d, 1)
    BY <1>1, <1>5 DEF PackInt
  <2>2. Carries(208, 1, d)
    BY <1>1, <1>5, Headers DEF Carries
  <2>3. QED BY <2>1, <2>2
<1>6. CASE d >= 128 /\ d < 256
  <2>1. PackInt(d) = <<204>> \o Store(d, 1)
    BY <1>1, <1>6 DEF PackInt
  <2>2. Carries(204, 1, d)
    BY <1>1, <1>6, Headers DEF Carries
  <2>3. QED BY <2>1, <2>2
<1>7. CASE d >= 256 /\ d < 65536
  <2>1. PackInt(d) = <<205>> \o Store(d, 2)
    BY <1>1, <1>7 DEF PackInt
  <2>2. Carries(205, 2, d)
    BY <1>1, <1>7, Headers DEF Carries
  <2>3. QED BY <2>1, <2>2
<1>8. CASE d >= 65536
  <2>1. PackInt(d) = <<206>> \o Store(d, 4)
    BY <1>1, <1>8 DEF PackInt
  <2>2. Carries(206, 4, d)
    BY <1>1, <1>8, Headers DEF Carries
  <2>3. QED BY <2>1, <2>2
<1>9. \/ d >= -32 /\ d < 128
      \/ d < -32768
      \/ d >= -32768 /\ d < -128
      \/ d >= -128 /\ d < -32
      \/ d >= 128 /\ d < 256
      \/ d >= 256 /\ d < 65536
      \/ d >= 65536
  BY <1>1, SMT
<1> HIDE DEF InOneByte, BehindItsHeader
<1>10. QED BY <1>2, <1>3, <1>4, <1>5, <1>6, <1>7, <1>8, <1>9

\* Every int pack_imp_int32 writes (v1/pack.hpp:1494) is behind a header whose
\* table entry (v3/parse.hpp:275) counts exactly its bytes, and comes out of
\* convert<int> as it was, in range (adaptor/int.hpp:28-40), whatever width the
\* packer chose.
THEOREM IntArrives ==
  ASSUME NEW d, IsInt32(d), NEW at \in Nat \ {0}, HoldsAt(PackInt(d), at)
  PROVE  /\ \/ data[at] \in OneByte /\ Len(PackInt(d)) = 1
            \/ data[at] \in WithTrail /\ Trail(data[at]) = Len(PackInt(d)) - 1
         /\ NumberAt(at) = IntObject(d, at)
         /\ Accepts("int", NumberAt(at))
         /\ Argument("int", NumberAt(at)) = [is |-> "int", of |-> d]
<1>1. d \in Int
  BY DEF IsInt32
<1>2. CASE d >= -32 /\ d < 128 /\ PackInt(d) = <<d % 256>>
  <2>1. Len(PackInt(d)) = 1 /\ PackInt(d)[1] = d % 256
    BY <1>2
  <2>2. data[at + 1 - 1] = d % 256
    BY <2>1 DEF HoldsAt
  <2>3. data[at] = d % 256
    <3>1. at + 1 - 1 = at
      OBVIOUS
    <3>2. QED BY <2>2, <3>1
  <2>4. /\ d >= 0 => d % 256 = d
        /\ d < 0 => d % 256 = d + 256
    BY <1>1, <1>2
  <2>5. data[at] \in OneByte
    BY <1>1, <1>2, <2>3, <2>4 DEF OneByte, PositiveFixnum, NegativeFixnum
  <2>6. OneByteType(data[at]) = IF d >= 0 THEN "POSITIVE_INTEGER" ELSE "NEGATIVE_INTEGER"
    BY <1>1, <1>2, <2>3, <2>4 DEF OneByteType, PositiveFixnum, NegativeFixnum
  <2>7. NumberAt(at) = [type |-> OneByteType(data[at]), first |-> at, size |-> 1]
    BY <2>5, <2>6 DEF NumberAt, Scalar, Object
  <2>8. LoadFrom(IF OneByteType(data[at]) = "NEGATIVE_INTEGER" THEN data[at] - 256 ELSE data[at],
                 at, 1) = d
    BY <1>1, <1>2, <2>3, <2>4, <2>6 DEF LoadFrom
  <2>9. Accepts("int", NumberAt(at)) /\ Argument("int", NumberAt(at)) = [is |-> "int", of |-> d]
    <3>1. OneByteType(data[at]) \in {"POSITIVE_INTEGER", "NEGATIVE_INTEGER"}
      BY <2>6
    <3>2. QED BY <2>7, <2>8, <3>1, Converted
  <2>10. NumberAt(at) = IntObject(d, at)
    BY <2>1, <2>6, <2>7 DEF IntObject, Object
  <2>11. QED BY <2>1, <2>5, <2>9, <2>10
<1>3. ASSUME NEW h, NEW width, PackInt(d) = <<h>> \o Store(d, width), Carries(h, width, d)
      PROVE  /\ data[at] \in WithTrail /\ Trail(data[at]) = Len(PackInt(d)) - 1
             /\ NumberAt(at) = IntObject(d, at)
             /\ Accepts("int", NumberAt(at))
             /\ Argument("int", NumberAt(at)) = [is |-> "int", of |-> d]
  <2>1. HoldsAt(<<h>> \o Store(d, width), at)
    BY <1>3
  <2>2. /\ data[at] \in WithTrail
        /\ Trail(data[at]) = Len(PackInt(d)) - 1
        /\ NumberAt(at) = Object(IF d >= 0 THEN "POSITIVE_INTEGER" ELSE "NEGATIVE_INTEGER", at + 1, width)
        /\ Accepts("int", NumberAt(at))
        /\ Argument("int", NumberAt(at)) = [is |-> "int", of |-> d]
    BY <1>3, <2>1, BehindHeader
  <2>3. Len(PackInt(d)) = width + 1 /\ width \in {1, 2, 4}
    <3>1. h \in Int /\ d \in Int /\ width \in {1, 2, 4}
      BY <1>3 DEF Carries
    <3>2. Len(<<h>> \o Store(d, width)) = width + 1
      BY <2>1, <3>1, Written
    <3>3. QED BY <1>3, <3>1, <3>2
  <2>4. NumberAt(at) = IntObject(d, at)
    BY <2>2, <2>3 DEF IntObject
  <2>5. QED BY <2>2, <2>4
<1>4. QED BY <1>2, <1>3, IntForms DEF InOneByte, BehindItsHeader

----------------------------------------------------------------------------
(***************************************************************************)
(* The headers of ints, strings and arrays.                                *)
(***************************************************************************)

LEMMA StoreType ==
  ASSUME NEW d \in Int, NEW width \in {1, 2, 4}
  PROVE  Store(d, width) \in Seq(Bytes) /\ Len(Store(d, width)) = width
<1>a. PICK a \in Int, b \in Int, c \in Int, e \in Int :
        /\ a = (d \div 16777216) % 256 /\ b = (d \div 65536) % 256
        /\ c = (d \div 256) % 256 /\ e = d % 256
  BY SMT
<1>b. a \in Bytes /\ b \in Bytes /\ c \in Bytes /\ e \in Bytes
  <2>1. a \in Bytes /\ b \in Bytes
    BY <1>a, SMT DEF Bytes
  <2>2. c \in Bytes /\ e \in Bytes
    BY <1>a, SMT DEF Bytes
  <2>3. QED BY <2>1, <2>2
<1>1. CASE width = 1
  <2>1. Store(d, width) = <<e>>
    BY <1>a, <1>1, SMT DEF Store
  <2>2. PICK t : t = <<e>>
    OBVIOUS
  <2>3. t \in Seq(Bytes) /\ Len(t) = 1
    BY <1>b, <2>2
  <2>4. Store(d, width) = t
    BY <2>1, <2>2
  <2>5. QED BY <1>1, <2>3, <2>4
<1>2. CASE width = 2
  <2>1. Store(d, width) = Store16(d)
    BY <1>2 DEF Store
  <2>2. Store16(d) = <<c, e>>
    BY <1>a, SMT DEF Store16
  <2>3. PICK t : t = <<c, e>>
    OBVIOUS
  <2>4. t \in Seq(Bytes) /\ Len(t) = 2
    BY <1>b, <2>3
  <2>5. Store(d, width) = t
    BY <2>1, <2>2, <2>3
  <2>6. QED BY <1>2, <2>4, <2>5
<1>3. CASE width = 4
  <2>1. Store(d, width) = Store32(d)
    BY <1>3 DEF Store
  <2>2. Store32(d) = <<a, b, c, e>>
    BY <1>a, SMT DEF Store32
  <2>3. PICK t : t = <<a, b, c, e>>
    OBVIOUS
  <2>4. t \in Seq(Bytes) /\ Len(t) = 4
    BY <1>b, <2>3
  <2>5. Store(d, width) = t
    BY <2>1, <2>2, <2>3
  <2>6. QED BY <1>3, <2>4, <2>5
<1>4. QED BY <1>1, <1>2, <1>3

\* A header and the number behind it.
LEMMA HeaderAndNumber ==
  ASSUME NEW h \in Bytes, NEW d \in Int, NEW width \in {1, 2, 4}
  PROVE  /\ <<h>> \o Store(d, width) \in Seq(Bytes)
         /\ Len(<<h>> \o Store(d, width)) = width + 1
         /\ (<<h>> \o Store(d, width))[1] = h
<1>1. PICK number \in Seq(Bytes) : number = Store(d, width) /\ Len(number) = width
  BY StoreType
<1>2. /\ <<h>> \o number \in Seq(Bytes) /\ Len(<<h>> \o number) = width + 1
      /\ (<<h>> \o number)[1] = h
  BY <1>1
<1>3. QED BY <1>1, <1>2

\* What the parser makes of the first byte of an int.
LEMMA IntHeader ==
  ASSUME NEW d, IsInt32(d)
  PROVE  /\ PackInt(d) \in Seq(Bytes)
         /\ \/ Len(PackInt(d)) = 1 /\ PackInt(d)[1] \in OneByte
            \/ /\ Len(PackInt(d)) \in {2, 3, 5}
               /\ PackInt(d)[1] \in WithTrail
               /\ Trail(PackInt(d)[1]) = Len(PackInt(d)) - 1
               /\ NextCs(PackInt(d)[1]) \in {"UINT", "INT"}
<1>1. CASE InOneByte(d)
  <2>1. PICK e : e = d % 256
    OBVIOUS
  <2>2. e \in Bytes /\ e \in OneByte
    <3>1. d \in Int /\ d >= -32 /\ d < 128
      BY <1>1 DEF InOneByte, IsInt32
    <3>2. QED BY <2>1, <3>1, SMT DEF Bytes, OneByte, PositiveFixnum, NegativeFixnum
  <2>3. PackInt(d) = <<e>>
    BY <1>1, <2>1 DEF InOneByte
  <2>4. QED BY <2>2, <2>3
<1>2. ASSUME NEW h, NEW width, PackInt(d) = <<h>> \o Store(d, width), Carries(h, width, d)
      PROVE  /\ PackInt(d) \in Seq(Bytes)
             /\ Len(PackInt(d)) \in {2, 3, 5}
             /\ PackInt(d)[1] \in WithTrail
             /\ Trail(PackInt(d)[1]) = Len(PackInt(d)) - 1
             /\ NextCs(PackInt(d)[1]) \in {"UINT", "INT"}
  <2>1. /\ h \in {204, 205, 206, 208, 209, 210} /\ width \in {1, 2, 4} /\ d \in Int
        /\ Trail(h) = width
    BY <1>2 DEF Carries
  <2>2. h \in WithTrail /\ NextCs(h) \in {"UINT", "INT"} /\ h \in Bytes
    BY <2>1, Headers DEF Bytes
  <2>3. PICK whole : whole = <<h>> \o Store(d, width)
    OBVIOUS
  <2>4. whole \in Seq(Bytes) /\ Len(whole) = width + 1 /\ whole[1] = h
    <3>1. /\ <<h>> \o Store(d, width) \in Seq(Bytes)
          /\ Len(<<h>> \o Store(d, width)) = width + 1
          /\ (<<h>> \o Store(d, width))[1] = h
      <4>1. h \in Bytes
        BY <2>2
      <4>2. width \in {1, 2, 4}
        BY <2>1
      <4>3. d \in Int
        BY <2>1
      <4>4. QED BY <4>1, <4>2, <4>3, HeaderAndNumber
    <3>2. QED BY <2>3, <3>1, Zenon
  <2>5. Len(whole) \in {2, 3, 5} /\ Trail(whole[1]) = Len(whole) - 1
    BY <2>1, <2>4
  <2>6. QED BY <1>2, <2>2, <2>3, <2>4, <2>5
<1>3. QED BY <1>1, <1>2, IntForms DEF BehindItsHeader

\* A header that says how wide the length of a string or an array is.
HeadsLength(kind, h, width, n) ==
  /\ h \in WithTrail /\ NextCs(h) = kind /\ Trail(h) = width /\ width \in {1, 2, 4}
  /\ n \in Nat \ {0} /\ IsUInt32(n) /\ (width = 1 => n < 256) /\ (width = 2 => n < 65536)

LEMMA LengthBehindHeader ==
  ASSUME NEW kind, NEW h, NEW width, NEW n, HeadsLength(kind, h, width, n),
         NEW at \in Nat \ {0}, HoldsAt(<<h>> \o Store(n, width), at)
  PROVE  data[at] = h /\ Load(at + 1, width) = n
<1>1. /\ h \in Int /\ n \in Int /\ width \in {1, 2, 4} /\ n >= 0 /\ IsUInt32(n)
      /\ (width = 1 => n < 256) /\ (width = 2 => n < 65536)
  BY DEF HeadsLength, WithTrail
<1>2. /\ data[at] = h
      /\ width = 1 => data[at + 1] = n % 256
      /\ width = 2 => data[at + 1] = (n \div 256) % 256 /\ data[at + 2] = n % 256
      /\ width = 4 => /\ data[at + 1] = (n \div 16777216) % 256
                      /\ data[at + 2] = (n \div 65536) % 256
                      /\ data[at + 3] = (n \div 256) % 256
                      /\ data[at + 4] = n % 256
  BY <1>1, Written, SMT
<1>3. PICK first \in Nat \ {0} : first = at + 1
  OBVIOUS
<1>4. first + 1 = at + 2 /\ first + 2 = at + 3 /\ first + 3 = at + 4
  BY <1>3
<1>5. CASE width = 1
  BY <1>1, <1>2, <1>3, <1>5, OneUnsigned, SMT DEF Load, LoadFrom
<1>6. CASE width = 2
  BY <1>1, <1>2, <1>3, <1>4, <1>6, TwoUnsigned, SMT DEF Load, LoadFrom
<1>7. CASE width = 4
  <2>1. PICK a \in Int, b \in Int, c \in Int, e \in Int :
          /\ a = (n \div 16777216) % 256 /\ b = (n \div 65536) % 256
          /\ c = (n \div 256) % 256 /\ e = n % 256
    BY <1>1, SMT
  <2>2. 65536 * (256 * a + b) + (256 * c + e) = n
    BY <1>1, <2>1, FourUnsigned, SMT
  <2>3. data[first] = a /\ data[first + 1] = b /\ data[first + 2] = c /\ data[first + 3] = e
    BY <1>2, <1>3, <1>4, <1>7, <2>1, SMT
  <2>4. QED BY <1>2, <1>3, <1>7, <2>2, <2>3, SMT DEF Load, LoadFrom
<1>8. QED BY <1>1, <1>5, <1>6, <1>7

LengthHeaders ==
  /\ \A h \in {217, 218, 219} : h \in WithTrail /\ NextCs(h) = "STR"
  /\ \A h \in {220, 221} : h \in WithTrail /\ NextCs(h) = "ARRAY"
  /\ Trail(217) = 1 /\ Trail(218) = 2 /\ Trail(219) = 4 /\ Trail(220) = 2 /\ Trail(221) = 4

LEMMA HeadersOfLengths == LengthHeaders
<1>1. /\ \A h \in {217, 218, 219} : h \in WithTrail /\ NextCs(h) = "STR"
      /\ \A h \in {220, 221} : h \in WithTrail /\ NextCs(h) = "ARRAY"
  BY DEF WithTrail, NextCs
<1>2. /\ Trail(217) = 1 /\ Trail(218) = 2 /\ Trail(219) = 4
      /\ Trail(220) = 2 /\ Trail(221) = 4
  BY DEF Trail
<1>3. QED BY <1>1, <1>2 DEF LengthHeaders

\* The length of a string or an array is in its header or behind it.
LengthBehind(bytes, kind, n) ==
  \E h, width : bytes = <<h>> \o Store(n, width) /\ HeadsLength(kind, h, width, n)

LEMMA StrForms ==
  ASSUME NEW l, IsUInt32(l)
  PROVE  \/ l < 32 /\ StrHeader(l) = <<160 + l>>
         \/ l >= 32 /\ LengthBehind(StrHeader(l), "STR", l)
<1>1. l \in Nat
  BY DEF IsUInt32
<1>2. CASE l < 32
  BY <1>2 DEF StrHeader
<1>3. CASE l >= 32 /\ l < 256
  <2>1. StrHeader(l) = <<217>> \o Store(l, 1)
    BY <1>1, <1>3 DEF StrHeader
  <2>2. HeadsLength("STR", 217, 1, l)
    BY <1>1, <1>3, HeadersOfLengths DEF HeadsLength, LengthHeaders
  <2>3. LengthBehind(StrHeader(l), "STR", l)
    BY <2>1, <2>2 DEF LengthBehind
  <2>4. QED BY <1>3, <2>3
<1>4. CASE l >= 256 /\ l < 65536
  <2>1. StrHeader(l) = <<218>> \o Store(l, 2)
    BY <1>1, <1>4 DEF StrHeader
  <2>2. HeadsLength("STR", 218, 2, l)
    BY <1>1, <1>4, HeadersOfLengths DEF HeadsLength, LengthHeaders
  <2>3. LengthBehind(StrHeader(l), "STR", l)
    BY <2>1, <2>2 DEF LengthBehind
  <2>4. l >= 32
    BY <1>1, <1>4
  <2>5. QED BY <2>3, <2>4
<1>5. CASE l >= 65536
  <2>1. StrHeader(l) = <<219>> \o Store(l, 4)
    BY <1>1, <1>5 DEF StrHeader
  <2>2. HeadsLength("STR", 219, 4, l)
    BY <1>1, <1>5, HeadersOfLengths DEF HeadsLength, LengthHeaders
  <2>3. LengthBehind(StrHeader(l), "STR", l)
    BY <2>1, <2>2 DEF LengthBehind
  <2>4. l >= 32
    BY <1>1, <1>5
  <2>5. QED BY <2>3, <2>4
<1>6. QED BY <1>1, <1>2, <1>3, <1>4, <1>5

LEMMA ArrayForms ==
  ASSUME NEW n, IsUInt32(n)
  PROVE  \/ n < 16 /\ PackArray(n) = <<144 + n>>
         \/ n >= 16 /\ LengthBehind(PackArray(n), "ARRAY", n)
<1>1. n \in Nat
  BY DEF IsUInt32
<1>2. CASE n < 16
  BY <1>2 DEF PackArray
<1>3. CASE n >= 16 /\ n < 65536
  <2>1. PackArray(n) = <<220>> \o Store(n, 2)
    BY <1>1, <1>3 DEF PackArray
  <2>2. HeadsLength("ARRAY", 220, 2, n)
    BY <1>1, <1>3, HeadersOfLengths DEF HeadsLength, LengthHeaders
  <2>3. LengthBehind(PackArray(n), "ARRAY", n)
    BY <2>1, <2>2 DEF LengthBehind
  <2>4. QED BY <1>3, <2>3
<1>4. CASE n >= 65536
  <2>1. PackArray(n) = <<221>> \o Store(n, 4)
    BY <1>1, <1>4 DEF PackArray
  <2>2. HeadsLength("ARRAY", 221, 4, n)
    BY <1>1, <1>4, HeadersOfLengths DEF HeadsLength, LengthHeaders
  <2>3. LengthBehind(PackArray(n), "ARRAY", n)
    BY <2>1, <2>2 DEF LengthBehind
  <2>4. n >= 16
    BY <1>1, <1>4
  <2>5. QED BY <2>3, <2>4
<1>5. QED BY <1>1, <1>2, <1>3, <1>4

\* A header with its length behind it is bytes, two at least.
LEMMA LengthBehindType ==
  ASSUME NEW bytes, NEW kind, NEW n, LengthBehind(bytes, kind, n)
  PROVE  /\ bytes \in Seq(Bytes) /\ Len(bytes) \in {2, 3, 5}
         /\ bytes[1] \in WithTrail /\ NextCs(bytes[1]) = kind
         /\ Trail(bytes[1]) = Len(bytes) - 1
<1>1. PICK h, width : bytes = <<h>> \o Store(n, width) /\ HeadsLength(kind, h, width, n)
  BY DEF LengthBehind
<1>2. /\ h \in WithTrail /\ NextCs(h) = kind /\ Trail(h) = width /\ n \in Int
      /\ h \in Bytes
  BY <1>1 DEF HeadsLength, WithTrail, Bytes
<1>3. width \in {1, 2, 4}
  BY <1>1 DEF HeadsLength
<1>4. bytes \in Seq(Bytes) /\ Len(bytes) = width + 1 /\ bytes[1] = h
  BY <1>1, <1>2, <1>3, HeaderAndNumber
<1>5. QED BY <1>2, <1>3, <1>4
=============================================================================
