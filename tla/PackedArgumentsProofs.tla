------------------------ MODULE PackedArgumentsProofs ------------------------
(***************************************************************************)
(* An argument list that is packed arrives, for every list there is a      *)
(* format for: any number of ints, bools and strings, of any length.       *)
(***************************************************************************)
EXTENDS PackedArguments, ParserProofs, PackerProofs

----------------------------------------------------------------------------
(***************************************************************************)
(* The recursive definition of the packer is one.                          *)
(***************************************************************************)
Step(args, f, N) == IF N = 0 THEN PackArray(Len(args)) ELSE f[N - 1] \o Pack(args[N])

IsPacked(args, f, m) == f = [N \in 0 .. m |-> Step(args, f, N)]

LEMMA PackedExists ==
  ASSUME NEW args
  PROVE  \A m \in Nat : \E f : IsPacked(args, f, m)
<1> DEFINE S == {m \in Nat : \E f : IsPacked(args, f, m)}
<1>1. 0 \in S
  <2> DEFINE f == [N \in 0 .. 0 |-> PackArray(Len(args))]
  <2>1. \A N \in 0 .. 0 : Step(args, f, N) = PackArray(Len(args))
    BY DEF Step
  <2>2. IsPacked(args, f, 0)
    BY <2>1 DEF IsPacked
  <2>3. QED BY <2>2
<1>2. ASSUME NEW m \in Nat, m \in S PROVE m + 1 \in S
  <2>1. PICK f : f = [N \in 0 .. m |-> Step(args, f, N)]
    BY <1>2 DEF IsPacked
  <2> DEFINE g == [N \in 0 .. m + 1 |-> Step(args, f, N)]
  <2>2. \A N \in 0 .. m : g[N] = f[N]
    BY <2>1
  <2>3. \A N \in 0 .. m + 1 : N # 0 => N - 1 \in 0 .. m
    OBVIOUS
  <2>4. \A N \in 0 .. m + 1 : Step(args, f, N) = Step(args, g, N)
    BY <2>2, <2>3 DEF Step
  <2>5. IsPacked(args, g, m + 1)
    BY <2>4 DEF IsPacked
  <2>6. QED BY <2>5
<1>3. Nat \subseteq S
  BY <1>1, <1>2, EveryNumber
<1>4. QED BY <1>3

LEMMA PackFirstDef ==
  ASSUME NEW args, Len(args) \in Nat
  PROVE  IsPacked(args, PackFirst(args), Len(args))
<1>1. \E f : IsPacked(args, f, Len(args))
  BY PackedExists
<1>2. PackFirst(args) = CHOOSE f : IsPacked(args, f, Len(args))
  BY DEF PackFirst, IsPacked, Step
<1>3. QED BY <1>1, <1>2

----------------------------------------------------------------------------
(***************************************************************************)
(* Where the bytes of a list lie.                                          *)
(***************************************************************************)

LEMMA Widths ==
  /\ \A n \in Nat : IsLength(n) => IsUInt32(n)
  /\ \A d \in Int32 : IsInt32(d)
<1>1. \A n \in Nat : IsLength(n) => IsUInt32(n)
  BY SMT DEF IsLength, IsUInt32
<1>2. \A d \in Int32 : IsInt32(d)
  <2>1. INT_MIN \in Int /\ INT_MAX \in Int
    BY SMT DEF INT_MIN, INT_MAX
  <2>2. ASSUME NEW d \in Int32 PROVE d \in Int /\ INT_MIN <= d /\ d <= INT_MAX
    BY <2>1 DEF Int32
  <2>3. QED BY <2>2, SMT DEF INT_MIN, INT_MAX, IsInt32
<1>3. QED BY <1>1, <1>2

LEMMA PackBoolType ==
  /\ PackBool(TRUE) \in Seq(Bytes) /\ Len(PackBool(TRUE)) \in Nat \ {0}
  /\ PackBool(FALSE) \in Seq(Bytes) /\ Len(PackBool(FALSE)) \in Nat \ {0}
<1>1. PICK t \in Bytes, f \in Bytes : t = 195 /\ f = 194
  BY DEF Bytes
<1>2. PackBool(TRUE) = <<t>> /\ PackBool(FALSE) = <<f>>
  BY <1>1 DEF PackBool
<1>3. PICK p, q : p = <<t>> /\ q = <<f>>
  OBVIOUS
<1>4. /\ p \in Seq(Bytes) /\ Len(p) \in Nat \ {0}
      /\ q \in Seq(Bytes) /\ Len(q) \in Nat \ {0}
  BY <1>3
<1>5. PackBool(TRUE) = p /\ PackBool(FALSE) = q
  BY <1>2, <1>3
<1>6. QED BY <1>4, <1>5, Zenon

LEMMA StrHeaderType ==
  ASSUME NEW l, IsUInt32(l)
  PROVE  StrHeader(l) \in Seq(Bytes) /\ Len(StrHeader(l)) \in Nat \ {0}
<1>1. CASE l < 32 /\ StrHeader(l) = <<160 + l>>
  <2>1. PICK byte \in Bytes : byte = 160 + l
    BY <1>1 DEF IsUInt32, Bytes
  <2>2. QED BY <1>1, <2>1
<1>2. CASE LengthBehind(StrHeader(l), "STR", l)
  BY <1>2, LengthBehindType
<1>3. QED BY <1>1, <1>2, StrForms

LEMMA PackArrayType ==
  ASSUME NEW n, IsUInt32(n)
  PROVE  PackArray(n) \in Seq(Bytes) /\ Len(PackArray(n)) \in Nat \ {0}
<1>1. CASE n < 16 /\ PackArray(n) = <<144 + n>>
  <2>1. PICK byte \in Bytes : byte = 144 + n
    BY <1>1 DEF IsUInt32, Bytes
  <2>2. QED BY <1>1, <2>1
<1>2. CASE LengthBehind(PackArray(n), "ARRAY", n)
  BY <1>2, LengthBehindType
<1>3. QED BY <1>1, <1>2, ArrayForms

\* Each argument is one of three kinds.
LEMMA ArgKinds ==
  ASSUME NEW arg \in Args, Fits(arg)
  PROVE  \/ arg = [is |-> "int", of |-> arg.of] /\ IsInt32(arg.of) /\ Pack(arg) = PackInt(arg.of)
         \/ arg = [is |-> "bool", of |-> arg.of] /\ arg.of \in BOOLEAN /\ Pack(arg) = PackBool(arg.of)
         \/ /\ arg = [is |-> "string", of |-> arg.of] /\ arg.of \in Seq(Bytes)
            /\ IsUInt32(Len(arg.of)) /\ Pack(arg) = PackStr(arg.of)
<1>1. CASE arg \in [is : {"int"}, of : Int32]
  BY <1>1, Widths DEF Pack
<1>2. CASE arg \in [is : {"bool"}, of : BOOLEAN]
  BY <1>2 DEF Pack
<1>3. CASE arg \in [is : {"string"}, of : Seq(Bytes)]
  <2>1. IsUInt32(Len(arg.of))
    BY <1>3, Widths DEF Fits
  <2>2. QED BY <1>3, <2>1 DEF Pack
<1>4. QED BY <1>1, <1>2, <1>3 DEF Args

LEMMA PackType ==
  ASSUME NEW arg \in Args, Fits(arg)
  PROVE  Pack(arg) \in Seq(Bytes) /\ Len(Pack(arg)) \in Nat \ {0}
<1>1. CASE IsInt32(arg.of) /\ Pack(arg) = PackInt(arg.of)
  BY <1>1, IntHeader
<1>2. CASE arg.of \in BOOLEAN /\ Pack(arg) = PackBool(arg.of)
  <2>1. Pack(arg) = PackBool(TRUE) \/ Pack(arg) = PackBool(FALSE)
    BY <1>2, Zenon
  <2>2. QED BY <2>1, PackBoolType, Zenon
<1>3. CASE arg.of \in Seq(Bytes) /\ IsUInt32(Len(arg.of)) /\ Pack(arg) = PackStr(arg.of)
  <2>1. PICK head \in Seq(Bytes) : head = StrHeader(Len(arg.of)) /\ Len(head) \in Nat \ {0}
    BY <1>3, StrHeaderType
  <2>2. PICK body \in Seq(Bytes) : body = arg.of
    BY <1>3
  <2>3. Pack(arg) = head \o body
    BY <1>3, <2>1, <2>2 DEF PackStr
  <2>4. head \o body \in Seq(Bytes) /\ Len(head \o body) \in Nat \ {0}
    BY <2>1
  <2>5. QED BY <2>3, <2>4
<1>4. QED BY <1>1, <1>2, <1>3, ArgKinds

LEMMA ArgumentsFacts ==
  ASSUME NEW args, AreArguments(args)
  PROVE  /\ Len(args) \in Nat /\ IsUInt32(Len(args)) /\ DOMAIN args = 1 .. Len(args)
         /\ args \in Seq(Args)
         /\ \A k \in 1 .. Len(args) :
              /\ args[k] \in Args /\ Fits(args[k])
              /\ Pack(args[k]) \in Seq(Bytes) /\ Len(Pack(args[k])) \in Nat \ {0}
<1>1. Len(args) \in Nat /\ DOMAIN args = 1 .. Len(args) /\ args \in Seq(Args)
  BY DEF AreArguments
<1>2. IsUInt32(Len(args))
  BY <1>1, Widths DEF AreArguments
<1>3. ASSUME NEW k \in 1 .. Len(args)
      PROVE  /\ args[k] \in Args /\ Fits(args[k])
             /\ Pack(args[k]) \in Seq(Bytes) /\ Len(Pack(args[k])) \in Nat \ {0}
  <2>1. args[k] \in Args /\ Fits(args[k])
    BY <1>1 DEF AreArguments
  <2>2. QED BY <2>1, PackType
<1>4. QED BY <1>1, <1>2, <1>3

\* The bytes before each argument, and before the end.
LEMMA FirstFacts ==
  ASSUME NEW args, AreArguments(args)
  PROVE  /\ PackFirst(args)[0] = PackArray(Len(args))
         /\ \A k \in 1 .. Len(args) : PackFirst(args)[k] = PackFirst(args)[k - 1] \o Pack(args[k])
         /\ \A k \in 0 .. Len(args) : PackFirst(args)[k] \in Seq(Bytes)
<1>1. Len(args) \in Nat /\ IsUInt32(Len(args))
  BY ArgumentsFacts
<1>2. PICK f : f = PackFirst(args)
  OBVIOUS
<1>3. f = [N \in 0 .. Len(args) |-> Step(args, f, N)]
  BY <1>1, <1>2, PackFirstDef DEF IsPacked
<1>4. f[0] = PackArray(Len(args))
  BY <1>1, <1>3 DEF Step
<1>5. ASSUME NEW k \in 1 .. Len(args) PROVE f[k] = f[k - 1] \o Pack(args[k])
  <2>1. k \in 0 .. Len(args) /\ k # 0
    BY <1>1
  <2>2. f[k] = Step(args, f, k)
    BY <1>3, <2>1
  <2>3. QED BY <2>1, <2>2 DEF Step
<1>6. \A k \in 0 .. Len(args) : f[k] \in Seq(Bytes)
  <2> DEFINE S == {k \in Nat : k <= Len(args) => f[k] \in Seq(Bytes)}
  <2>1. 0 \in S
    BY <1>1, <1>4, PackArrayType
  <2>2. ASSUME NEW k \in Nat, k \in S PROVE k + 1 \in S
    <3>1. CASE k + 1 <= Len(args)
      <4>1. k + 1 \in 1 .. Len(args) /\ (k + 1) - 1 = k /\ k <= Len(args)
        BY <1>1, <3>1
      <4>2. f[k + 1] = f[k] \o Pack(args[k + 1])
        BY <1>5, <4>1
      <4>3. f[k] \in Seq(Bytes) /\ Pack(args[k + 1]) \in Seq(Bytes)
        BY <2>2, <4>1, ArgumentsFacts
      <4>4. f[k] \o Pack(args[k + 1]) \in Seq(Bytes)
        BY <4>3
      <4>5. f[k + 1] \in Seq(Bytes)
        BY <4>2, <4>4, Zenon
      <4>6. k + 1 \in Nat
        OBVIOUS
      <4>7. QED BY <4>5, <4>6
    <3>2. QED BY <3>1
  <2>3. Nat \subseteq S
    BY <2>1, <2>2, EveryNumber
  <2>4. QED BY <1>1, <2>3
<1>7. QED BY <1>2, <1>4, <1>5, <1>6
LEMMA ConcatFacts ==
  ASSUME NEW S, NEW s \in Seq(S), NEW t \in Seq(S)
  PROVE  /\ s \o t \in Seq(S) /\ Len(s \o t) = Len(s) + Len(t)
         /\ \A i \in 1 .. Len(s) : (s \o t)[i] = s[i]
         /\ \A i \in 1 .. Len(t) : (s \o t)[Len(s) + i] = t[i]
OBVIOUS

\* Where an argument starts, and behind the last one where the bytes end.
Place(args, k) == Len(PackFirst(args)[k - 1]) + 1

LEMMA Places ==
  ASSUME NEW args, AreArguments(args)
  PROVE  /\ \A k \in 1 .. Len(args) + 1 : Place(args, k) \in Nat \ {0}
         /\ Place(args, 1) = Len(PackArray(Len(args))) + 1
         /\ \A k \in 1 .. Len(args) : Place(args, k + 1) = Place(args, k) + Len(Pack(args[k]))
         /\ PackArgs(args) \in Seq(Bytes)
         /\ Place(args, Len(args) + 1) = Len(PackArgs(args)) + 1
<1>1. PICK n \in Nat : n = Len(args)
  BY ArgumentsFacts
<1>2. PICK f : f = PackFirst(args)
  OBVIOUS
<1>3. /\ f[0] = PackArray(n)
      /\ \A k \in 1 .. n : f[k] = f[k - 1] \o Pack(args[k])
      /\ \A k \in 0 .. n : f[k] \in Seq(Bytes)
  BY <1>1, <1>2, FirstFacts
<1>4. \A k : Place(args, k) = Len(f[k - 1]) + 1
  BY <1>2 DEF Place
<1>5. PackArgs(args) = f[n]
  BY <1>1, <1>2 DEF PackArgs
<1>6. ASSUME NEW k \in 1 .. n + 1 PROVE Place(args, k) \in Nat \ {0}
  <2>1. k - 1 \in 0 .. n
    BY <1>1
  <2>2. Len(f[k - 1]) \in Nat
    BY <1>3, <2>1
  <2>3. QED BY <1>4, <2>2
<1>7. ASSUME NEW k \in 1 .. n PROVE Place(args, k + 1) = Place(args, k) + Len(Pack(args[k]))
  <2>1. k - 1 \in 0 .. n /\ (k + 1) - 1 = k
    BY <1>1
  <2>2. Pack(args[k]) \in Seq(Bytes) /\ f[k - 1] \in Seq(Bytes)
    BY <1>1, <1>3, <2>1, ArgumentsFacts
  <2>3. Len(f[k]) = Len(f[k - 1]) + Len(Pack(args[k]))
    BY <1>3, <2>2, ConcatFacts
  <2>4. Len(f[k - 1]) \in Nat /\ Len(Pack(args[k])) \in Nat
    BY <2>2
  <2>5. Place(args, k + 1) = Len(f[k]) + 1 /\ Place(args, k) = Len(f[k - 1]) + 1
    BY <1>2, <2>1 DEF Place
  <2>6. PICK a \in Nat, b \in Nat : a = Len(f[k - 1]) /\ b = Len(Pack(args[k]))
    BY <2>4
  <2>7. Place(args, k + 1) = (a + b) + 1 /\ Place(args, k) = a + 1
    BY <2>3, <2>5, <2>6, Zenon
  <2>8. (a + b) + 1 = (a + 1) + b
    OBVIOUS
  <2>9. QED BY <2>6, <2>7, <2>8, Zenon
<1>8. Place(args, 1) = Len(PackArray(n)) + 1 /\ Place(args, n + 1) = Len(f[n]) + 1
  <2>1. 1 - 1 = 0 /\ (n + 1) - 1 = n
    OBVIOUS
  <2>2. QED BY <1>3, <1>4, <2>1
<1>9. f[n] \in Seq(Bytes)
  BY <1>1, <1>3
<1>10. QED BY <1>1, <1>5, <1>6, <1>7, <1>8, <1>9

\* What the packer has appended stays.
LEMMA Prefixes ==
  ASSUME NEW args, AreArguments(args), NEW k \in 0 .. Len(args)
  PROVE  /\ Len(PackFirst(args)[k]) <= Len(PackArgs(args))
         /\ \A m \in 1 .. Len(PackFirst(args)[k]) : PackArgs(args)[m] = PackFirst(args)[k][m]
<1>1. PICK n \in Nat : n = Len(args)
  BY ArgumentsFacts
<1>2. PICK f : f = PackFirst(args)
  OBVIOUS
<1>3. /\ \A j \in 1 .. n : f[j] = f[j - 1] \o Pack(args[j])
      /\ \A j \in 0 .. n : f[j] \in Seq(Bytes)
  BY <1>1, <1>2, FirstFacts
<1>4. PackArgs(args) = f[n]
  BY <1>1, <1>2 DEF PackArgs
<1> DEFINE Stays(j) == /\ Len(f[j]) <= Len(f[n])
                       /\ \A m \in 1 .. Len(f[j]) : f[n][m] = f[j][m]
<1> DEFINE S == {j \in Nat : j <= n => Stays(n - j)}
<1>5. 0 \in S
  <2>1. n - 0 = n /\ Len(f[n]) \in Nat
    BY <1>3
  <2>2. Stays(n)
    BY <2>1
  <2>3. QED BY <2>1, <2>2
<1>6. ASSUME NEW j \in Nat, j \in S PROVE j + 1 \in S
  <2> SUFFICES ASSUME j + 1 <= n PROVE Stays(n - (j + 1))
    OBVIOUS
  <2>1. PICK l \in 1 .. n : l = n - j
    OBVIOUS
  <2>2. l - 1 = n - (j + 1) /\ l - 1 \in 0 .. n
    BY <2>1
  <2>3. f[l] \in Seq(Bytes) /\ f[l - 1] \in Seq(Bytes) /\ f[n] \in Seq(Bytes)
    BY <1>3, <2>2
  <2>4. Pack(args[l]) \in Seq(Bytes)
    BY <1>1, ArgumentsFacts
  <2>5. PICK t \in Seq(Bytes) : t = Pack(args[l])
    BY <2>4
  <2>6. f[l] = f[l - 1] \o t
    BY <1>3, <2>5
  <2>7. PICK s \in Seq(Bytes) : s = f[l - 1]
    BY <2>3
  <2>8. /\ Len(f[l]) = Len(s) + Len(t)
        /\ \A m \in 1 .. Len(s) : f[l][m] = s[m]
    BY <2>6, <2>7, ConcatFacts
  <2>9. Len(s) \in Nat /\ Len(t) \in Nat /\ Len(f[n]) \in Nat
    BY <2>3
  <2>10. Stays(l)
    BY <1>6, <2>1
  <2>11. Len(s) <= Len(f[n]) /\ \A m \in 1 .. Len(s) : f[n][m] = s[m]
    BY <2>8, <2>9, <2>10
  <2>12. QED BY <2>2, <2>7, <2>11
<1>7. Nat \subseteq S
  BY <1>5, <1>6, EveryNumber
<1>8. n - k \in Nat /\ n - k <= n /\ n - (n - k) = k
  BY <1>1
<1>9. Stays(k)
  BY <1>7, <1>8
<1>10. QED BY <1>2, <1>4, <1>9

\* The bytes of the header and of each argument are where they were put.
LEMMA BytesInPlace ==
  ASSUME NEW args, AreArguments(args)
  PROVE  /\ Len(PackArray(Len(args))) <= Len(PackArgs(args))
         /\ \A i \in 1 .. Len(PackArray(Len(args))) : PackArgs(args)[i] = PackArray(Len(args))[i]
         /\ \A k \in 1 .. Len(args) :
              /\ Place(args, k + 1) <= Len(PackArgs(args)) + 1
              /\ \A i \in 1 .. Len(Pack(args[k])) :
                   PackArgs(args)[Place(args, k) + i - 1] = Pack(args[k])[i]
<1>1. PICK n \in Nat : n = Len(args)
  BY ArgumentsFacts
<1>2. PICK f : f = PackFirst(args)
  OBVIOUS
<1>3. /\ f[0] = PackArray(n)
      /\ \A j \in 1 .. n : f[j] = f[j - 1] \o Pack(args[j])
      /\ \A j \in 0 .. n : f[j] \in Seq(Bytes)
  BY <1>1, <1>2, FirstFacts
<1>4. /\ Len(PackArray(n)) <= Len(PackArgs(args))
      /\ \A i \in 1 .. Len(PackArray(n)) : PackArgs(args)[i] = PackArray(n)[i]
  <2>1. 0 \in 0 .. Len(args)
    BY <1>1
  <2>2. /\ Len(PackFirst(args)[0]) <= Len(PackArgs(args))
        /\ \A m \in 1 .. Len(PackFirst(args)[0]) : PackArgs(args)[m] = PackFirst(args)[0][m]
    BY <2>1, Prefixes
  <2>3. PackFirst(args)[0] = PackArray(n)
    BY <1>2, <1>3
  <2>4. QED BY <2>2, <2>3
<1>5. ASSUME NEW k \in 1 .. n
      PROVE  /\ Place(args, k + 1) <= Len(PackArgs(args)) + 1
             /\ \A i \in 1 .. Len(Pack(args[k])) :
                  PackArgs(args)[Place(args, k) + i - 1] = Pack(args[k])[i]
  <2>1. k \in 0 .. n /\ k - 1 \in 0 .. n /\ (k + 1) - 1 = k
    OBVIOUS
  <2>2. PICK t \in Seq(Bytes) : t = Pack(args[k])
    BY <1>1, ArgumentsFacts
  <2>3. PICK s \in Seq(Bytes) : s = f[k - 1]
    BY <1>3, <2>1
  <2>4. f[k] = s \o t /\ f[k] \in Seq(Bytes)
    BY <1>3, <2>1, <2>2, <2>3
  <2>5. /\ Len(f[k]) = Len(s) + Len(t)
        /\ \A i \in 1 .. Len(t) : f[k][Len(s) + i] = t[i]
    BY <2>4, ConcatFacts
  <2>6. /\ Len(f[k]) <= Len(PackArgs(args))
        /\ \A m \in 1 .. Len(f[k]) : PackArgs(args)[m] = f[k][m]
    BY <1>1, <1>2, <2>1, Prefixes
  <2>7. Len(s) \in Nat /\ Len(t) \in Nat /\ Len(f[k]) \in Nat /\ Len(PackArgs(args)) \in Nat
    BY <2>4, Places
  <2>8. Place(args, k + 1) = Len(f[k]) + 1 /\ Place(args, k) = Len(s) + 1
    BY <1>2, <2>1, <2>3 DEF Place
  <2>9. ASSUME NEW i \in 1 .. Len(t) PROVE PackArgs(args)[Place(args, k) + i - 1] = t[i]
    <3>1. Place(args, k) + i - 1 = Len(s) + i /\ Len(s) + i \in 1 .. Len(f[k])
      BY <2>5, <2>7, <2>8
    <3>2. QED BY <2>5, <2>6, <3>1
  <2>10. QED BY <2>2, <2>6, <2>7, <2>8, <2>9
<1>6. QED BY <1>1, <1>4, <1>5
----------------------------------------------------------------------------
(***************************************************************************)
(* A message that holds the bytes of a list as far as it goes.             *)
(***************************************************************************)

\* A message has these bytes at a position, or what of them it has room for.
Begins(bytes, at) ==
  \A i \in 1 .. Len(bytes) : at + i - 1 <= Len(data) => data[at + i - 1] = bytes[i]

\* Either premise of PackedArgumentsArrive.
LEMMA BeginsEither ==
  ASSUME NEW whole \in Seq(Bytes), data \in Seq(Bytes),
         \/ Len(data) >= Len(whole) /\ SubSeq(data, 1, Len(whole)) = whole
         \/ Len(data) < Len(whole) /\ SubSeq(whole, 1, Len(data)) = data
  PROVE  Begins(whole, 1)
<1> SUFFICES ASSUME NEW i \in 1 .. Len(whole), i <= Len(data) PROVE data[i] = whole[i]
  BY DEF Begins
<1>1. Len(whole) \in Nat /\ Len(data) \in Nat /\ i \in 1 .. Len(data)
  OBVIOUS
<1>2. CASE Len(data) >= Len(whole) /\ SubSeq(data, 1, Len(whole)) = whole
  <2>1. SubSeq(data, 1, Len(whole))[i] = data[i]
    BY <1>1, <1>2
  <2>2. QED BY <1>2, <2>1
<1>3. CASE Len(data) < Len(whole) /\ SubSeq(whole, 1, Len(data)) = data
  <2>1. SubSeq(whole, 1, Len(data))[i] = whole[i]
    BY <1>1, <1>3
  <2>2. QED BY <1>3, <2>1
<1>4. QED BY <1>2, <1>3

LEMMA BeginsInPlace ==
  ASSUME NEW args, AreArguments(args), data \in Seq(Bytes), Begins(PackArgs(args), 1)
  PROVE  /\ Begins(PackArray(Len(args)), 1)
         /\ \A k \in 1 .. Len(args) : Begins(Pack(args[k]), Place(args, k))
<1>1. PICK whole \in Seq(Bytes) : whole = PackArgs(args)
  BY Places
<1>2. Len(data) \in Nat /\ Len(whole) \in Nat /\ Len(args) \in Nat
  BY ArgumentsFacts
<1>3. \A i \in 1 .. Len(whole) : i <= Len(data) => data[i] = whole[i]
  <2> SUFFICES ASSUME NEW i \in 1 .. Len(whole), i <= Len(data) PROVE data[i] = whole[i]
    OBVIOUS
  <2>1. 1 + i - 1 = i
    OBVIOUS
  <2>2. QED BY <1>1, <2>1 DEF Begins
<1>4. Begins(PackArray(Len(args)), 1)
  <2>1. PICK header \in Seq(Bytes) : header = PackArray(Len(args))
    BY ArgumentsFacts, PackArrayType
  <2>2. Len(header) <= Len(whole) /\ \A i \in 1 .. Len(header) : whole[i] = header[i]
    BY <1>1, <2>1, BytesInPlace
  <2>3. ASSUME NEW i \in 1 .. Len(header), 1 + i - 1 <= Len(data) PROVE data[1 + i - 1] = header[i]
    <3>1. 1 + i - 1 = i /\ i \in 1 .. Len(whole) /\ i <= Len(data)
      BY <1>2, <2>2, <2>3
    <3>2. QED BY <1>3, <2>2, <3>1
  <2>4. QED BY <2>1, <2>3 DEF Begins
<1>5. ASSUME NEW k \in 1 .. Len(args) PROVE Begins(Pack(args[k]), Place(args, k))
  <2>1. PICK t \in Seq(Bytes) : t = Pack(args[k])
    BY ArgumentsFacts
  <2>2. PICK at \in Nat \ {0} : at = Place(args, k)
    <3>1. k \in 1 .. Len(args) + 1
      BY <1>2
    <3>2. QED BY <3>1, Places
  <2>3. Place(args, k + 1) = at + Len(t)
    BY <2>1, <2>2, Places
  <2>4. Len(t) \in Nat /\ at + Len(t) <= Len(whole) + 1
    BY <1>1, <2>3, BytesInPlace
  <2>5. \A i \in 1 .. Len(t) : whole[at + i - 1] = t[i]
    BY <1>1, <2>1, <2>2, BytesInPlace
  <2>6. ASSUME NEW i \in 1 .. Len(t), at + i - 1 <= Len(data) PROVE data[at + i - 1] = t[i]
    <3>1. at + i - 1 \in 1 .. Len(whole)
      BY <1>2, <2>4
    <3>2. data[at + i - 1] = whole[at + i - 1]
      BY <1>3, <2>6, <3>1
    <3>3. QED BY <2>5, <3>2
  <2>7. QED BY <2>1, <2>2, <2>6 DEF Begins
<1>6. QED BY <1>4, <1>5

LEMMA BeginsWhole ==
  ASSUME NEW bytes \in Seq(Bytes), NEW at \in Nat \ {0}, data \in Seq(Bytes),
         Begins(bytes, at), at + Len(bytes) - 1 <= Len(data)
  PROVE  HoldsAt(bytes, at)
<1>1. Len(bytes) \in Nat /\ Len(data) \in Nat
  OBVIOUS
<1>2. \A i \in 1 .. Len(bytes) : at + i - 1 <= Len(data)
  BY <1>1
<1>3. QED BY <1>2 DEF Begins, HoldsAt

LEMMA BeginsParts ==
  ASSUME NEW s \in Seq(Bytes), NEW t \in Seq(Bytes), NEW at \in Nat \ {0},
         Begins(s \o t, at)
  PROVE  Begins(s, at) /\ Begins(t, at + Len(s))
<1>1. PICK whole : whole = s \o t
  OBVIOUS
<1>2. /\ whole \in Seq(Bytes) /\ Len(whole) = Len(s) + Len(t)
      /\ \A i \in 1 .. Len(s) : whole[i] = s[i]
      /\ \A i \in 1 .. Len(t) : whole[Len(s) + i] = t[i]
  BY <1>1, ConcatFacts
<1>3. Len(s) \in Nat /\ Len(t) \in Nat
  OBVIOUS
<1>4. \A i \in 1 .. Len(whole) : at + i - 1 <= Len(data) => data[at + i - 1] = whole[i]
  BY <1>1 DEF Begins
<1>5. Begins(s, at)
  <2>1. \A i \in 1 .. Len(s) : i \in 1 .. Len(whole)
    BY <1>2, <1>3
  <2>2. QED BY <1>2, <1>4, <2>1 DEF Begins
<1>6. Begins(t, at + Len(s))
  <2> SUFFICES ASSUME NEW i \in 1 .. Len(t), at + Len(s) + i - 1 <= Len(data)
               PROVE  data[at + Len(s) + i - 1] = t[i]
    BY DEF Begins
  <2>1. PICK j \in 1 .. Len(whole) : j = Len(s) + i
    BY <1>2, <1>3
  <2>2. at + Len(s) + i - 1 = at + j - 1
    BY <1>3, <2>1
  <2>3. data[at + j - 1] = whole[j]
    BY <1>4, <2>2
  <2>4. QED BY <1>2, <2>1, <2>2, <2>3
<1>7. QED BY <1>5, <1>6

\* The first byte of what begins at a position the message has.
LEMMA BeginsByte ==
  ASSUME NEW bytes \in Seq(Bytes), bytes # <<>>, NEW at \in 1 .. Len(data),
         Begins(bytes, at)
  PROVE  data[at] = bytes[1]
<1>1. 1 \in 1 .. Len(bytes)
  OBVIOUS
<1>2. at + 1 - 1 = at /\ at <= Len(data)
  OBVIOUS
<1>3. QED BY <1>1, <1>2 DEF Begins
----------------------------------------------------------------------------
(***************************************************************************)
(* The object of an argument, and what it is converted to.                 *)
(***************************************************************************)

\* What the visitor makes of an argument packed at a position.
ObjectOf(arg, at) ==
  IF arg.is = "int" THEN IntObject(arg.of, at)
  ELSE IF arg.is = "bool" THEN Object("BOOLEAN", at, 1)
  ELSE Object("STR", IF Len(arg.of) = 0 THEN at ELSE at + Len(StrHeader(Len(arg.of))), Len(arg.of))

LEMMA BoolValue ==
  ASSUME NEW at, NEW b, b = TRUE \/ b = FALSE, HoldsAt(PackBool(b), at), at \in Nat
  PROVE  Argument("bool", Object("BOOLEAN", at, 1)) = [is |-> "bool", of |-> b]
<1>1. PICK o : o = Object("BOOLEAN", at, 1)
  OBVIOUS
<1>2. o.type = "BOOLEAN" /\ o.first = at
  BY <1>1 DEF Object
<1>3. Argument("bool", o) = [is |-> "bool", of |-> data[at] = 195]
  BY <1>2 DEF Argument
<1>4. PICK t, f : t = <<195>> /\ f = <<194>>
  OBVIOUS
<1>5. at + 1 - 1 = at /\ 1 \in 1 .. Len(t) /\ 1 \in 1 .. Len(f) /\ t[1] = 195 /\ f[1] = 194
  BY <1>4
<1>6. CASE b = TRUE
  <2>1. PackBool(b) = t
    BY <1>4, <1>6 DEF PackBool
  <2>2. data[at] = 195
    BY <1>5, <2>1 DEF HoldsAt
  <2>3. (data[at] = 195) = b
    BY <1>6, <2>2, Zenon
  <2>4. QED BY <1>1, <1>3, <2>3, Zenon
<1>7. CASE b = FALSE
  <2>1. PackBool(b) = f
    BY <1>4, <1>7 DEF PackBool
  <2>2. data[at] = 194
    BY <1>5, <2>1 DEF HoldsAt
  <2>3. data[at] # 195
    BY <2>2
  <2>4. (data[at] = 195) = b
    BY <1>7, <2>3, Zenon
  <2>5. QED BY <1>1, <1>3, <2>4, Zenon
<1>8. QED BY <1>6, <1>7

LEMMA StringValue ==
  ASSUME NEW s \in Seq(Bytes), NEW first \in Nat \ {0}, data \in Seq(Bytes),
         s # <<>> => HoldsAt(s, first) /\ first + Len(s) - 1 <= Len(data)
  PROVE  Argument("string", Object("STR", first, Len(s))) = [is |-> "string", of |-> s]
<1>1. PICK l \in Nat : l = Len(s)
  OBVIOUS
<1>2. PICK o : o = Object("STR", first, l)
  OBVIOUS
<1>3. o.type = "STR" /\ o.first = first /\ o.size = l
  BY <1>2 DEF Object
<1>4. Argument("string", o) = [is |-> "string", of |-> SubSeq(data, first, first + l - 1)]
  BY <1>3 DEF Argument
<1>5. SubSeq(data, first, first + l - 1) = s
  <2>1. CASE l = 0
    <3>1. first + l - 1 = first - 1
      BY <2>1
    <3>2. PICK part : part = SubSeq(data, first, first - 1)
      OBVIOUS
    <3>3. part \in Seq(Bytes) /\ Len(part) = 0
      BY <3>1, <3>2
    <3>4. part = <<>>
      BY <3>3
    <3>5. Len(s) = 0
      BY <1>1, <2>1
    <3>6. s = <<>>
      BY <3>5
    <3>7. QED BY <3>1, <3>2, <3>4, <3>6
  <2>2. CASE l # 0
    <3>1. HoldsAt(s, first) /\ first + l - 1 <= Len(data)
      BY <1>1, <2>2
    <3>2. PICK part : part = SubSeq(data, first, first + l - 1)
      OBVIOUS
    <3>3. part \in Seq(Bytes) /\ Len(part) = l
      BY <1>1, <3>1, <3>2
    <3>4. \A i \in 1 .. l : part[i] = data[first + i - 1]
      BY <1>1, <3>1, <3>2
    <3>5. \A i \in 1 .. l : part[i] = s[i]
      BY <1>1, <3>1, <3>4 DEF HoldsAt
    <3>6. part = s
      BY <1>1, <3>3, <3>5
    <3>7. QED BY <3>2, <3>6
  <2>3. QED BY <2>1, <2>2
<1>6. QED BY <1>1, <1>2, <1>4, <1>5

\* A parameter takes an object of its own type only.
LEMMA OwnTypeOnly ==
  ASSUME NEW o, NEW parameter \in ParameterTypes
  PROVE  /\ (o.type \in {"POSITIVE_INTEGER", "NEGATIVE_INTEGER"} /\ Accepts(parameter, o)) =>
              parameter = "int"
         /\ o.type = "BOOLEAN" => (Accepts(parameter, o) <=> parameter = "bool")
         /\ o.type = "STR" => (Accepts(parameter, o) <=> parameter = "string")
<1>1. CASE parameter = "int"
  BY <1>1 DEF Accepts
<1>2. CASE parameter = "bool"
  BY <1>2 DEF Accepts
<1>3. CASE parameter = "string"
  BY <1>3 DEF Accepts
<1>4. QED BY <1>1, <1>2, <1>3 DEF ParameterTypes

\* An argument whose bytes are all there is taken for a parameter of its type
\* only, and converted to what it was.
LEMMA ArgumentValue ==
  ASSUME NEW arg \in Args, Fits(arg), NEW at \in Nat \ {0}, data \in Seq(Bytes),
         Begins(Pack(arg), at), at + Len(Pack(arg)) - 1 <= Len(data)
  PROVE  /\ Argument(arg.is, ObjectOf(arg, at)) = arg
         /\ \A parameter \in ParameterTypes :
              Accepts(parameter, ObjectOf(arg, at)) <=> parameter = arg.is
<1>1. HoldsAt(Pack(arg), at)
  BY PackType, BeginsWhole
<1>2. CASE arg = [is |-> "int", of |-> arg.of] /\ IsInt32(arg.of) /\ Pack(arg) = PackInt(arg.of)
  <2>1. /\ NumberAt(at) = IntObject(arg.of, at)
        /\ Accepts("int", NumberAt(at))
        /\ Argument("int", NumberAt(at)) = [is |-> "int", of |-> arg.of]
    BY <1>1, <1>2, IntArrives
  <2>2. arg.is = "int"
    BY <1>2
  <2>3. ObjectOf(arg, at) = IntObject(arg.of, at)
    BY <2>2 DEF ObjectOf
  <2>4. PICK o : o = IntObject(arg.of, at)
    OBVIOUS
  <2>5. o.type \in {"POSITIVE_INTEGER", "NEGATIVE_INTEGER"} /\ Accepts("int", o)
    BY <2>1, <2>4 DEF IntObject, Object
  <2>6. \A parameter \in ParameterTypes : Accepts(parameter, o) <=> parameter = "int"
    BY <2>5, OwnTypeOnly
  <2>7. QED BY <1>2, <2>1, <2>2, <2>3, <2>4, <2>6
<1>3. CASE arg = [is |-> "bool", of |-> arg.of] /\ arg.of \in BOOLEAN /\ Pack(arg) = PackBool(arg.of)
  <2>1. arg.of = TRUE \/ arg.of = FALSE
    BY <1>3, Zenon
  <2>2. Argument("bool", Object("BOOLEAN", at, 1)) = [is |-> "bool", of |-> arg.of]
    BY <1>1, <1>3, <2>1, BoolValue, Zenon
  <2>3. arg.is = "bool"
    BY <1>3
  <2>4. ObjectOf(arg, at) = Object("BOOLEAN", at, 1)
    BY <2>3 DEF ObjectOf
  <2>5. PICK o : o = Object("BOOLEAN", at, 1)
    OBVIOUS
  <2>6. o.type = "BOOLEAN"
    BY <2>5 DEF Object
  <2>7. \A parameter \in ParameterTypes : Accepts(parameter, o) <=> parameter = "bool"
    BY <2>6, OwnTypeOnly
  <2>8. QED BY <1>3, <2>2, <2>3, <2>4, <2>5, <2>7, Zenon
<1>4. CASE /\ arg = [is |-> "string", of |-> arg.of] /\ arg.of \in Seq(Bytes)
           /\ IsUInt32(Len(arg.of)) /\ Pack(arg) = PackStr(arg.of)
  <2>1. PICK s \in Seq(Bytes) : s = arg.of
    BY <1>4
  <2>2. PICK head \in Seq(Bytes) : head = StrHeader(Len(s)) /\ Len(head) \in Nat \ {0}
    BY <1>4, <2>1, StrHeaderType
  <2>3. Pack(arg) = head \o s
    BY <1>4, <2>1, <2>2 DEF PackStr
  <2>4. Len(Pack(arg)) = Len(head) + Len(s)
    BY <2>3, ConcatFacts
  <2>5. PICK first \in Nat \ {0} : first = IF Len(s) = 0 THEN at ELSE at + Len(head)
    BY <2>2
  <2>6. ASSUME s # <<>> PROVE HoldsAt(s, first) /\ first + Len(s) - 1 <= Len(data)
    <3>1. first = at + Len(head)
      BY <2>5, <2>6
    <3>2. Begins(s, first)
      BY <2>3, <3>1, BeginsParts
    <3>3. first + Len(s) - 1 <= Len(data)
      BY <2>2, <2>4, <3>1
    <3>4. QED BY <3>2, <3>3, BeginsWhole
  <2>7. Argument("string", Object("STR", first, Len(s))) = [is |-> "string", of |-> s]
    BY <2>6, StringValue
  <2>8. ObjectOf(arg, at) = Object("STR", first, Len(s))
    <3>1. arg.is = "string"
      BY <1>4
    <3>2. QED BY <2>1, <2>2, <2>5, <3>1 DEF ObjectOf
  <2>9. PICK o : o = Object("STR", first, Len(s))
    OBVIOUS
  <2>10. o.type = "STR"
    BY <2>9 DEF Object
  <2>11. \A parameter \in ParameterTypes : Accepts(parameter, o) <=> parameter = "string"
    BY <2>10, OwnTypeOnly
  <2>12. arg.is = "string"
    BY <1>4
  <2>13. QED BY <1>4, <2>1, <2>7, <2>8, <2>9, <2>11, <2>12
<1>5. QED BY <1>2, <1>3, <1>4, ArgKinds
----------------------------------------------------------------------------
(***************************************************************************)
(* What the parser does next.                                              *)
(***************************************************************************)

\* The bytes that follow a header are waited for.
Awaiting(kind, width) ==
  /\ pc' = "trail" /\ cs' = kind /\ trail' = width /\ current' = current + 1
  /\ UNCHANGED <<data, stack, pointers, allocated, objects, outcome>>

GivesUp ==
  /\ End("insufficient_bytes")
  /\ UNCHANGED <<data, current, cs, trail, stack, pointers, allocated, objects>>

LEMMA HeaderClasses ==
  /\ OneByte \cap WithTrail = {} /\ OneByte \cap FixStr = {} /\ OneByte \cap (FixMap \cup FixArray) = {}
  /\ WithTrail \cap FixStr = {} /\ WithTrail \cap (FixMap \cup FixArray) = {}
  /\ FixStr \cap (FixMap \cup FixArray) = {} /\ FixMap \cap FixArray = {}
  /\ 160 \in FixStr /\ 193 \notin OneByte \cup WithTrail \cup FixStr \cup FixMap \cup FixArray
BY DEF OneByte, PositiveFixnum, NegativeFixnum, WithTrail, FixStr, FixMap, FixArray

\* At a header the byte decides.
LEMMA AtHeader ==
  ASSUME pc = "header", Next
  PROVE  /\ Byte \in OneByte => Visit(Scalar(OneByteType(Byte), current, 1), current)
         /\ Byte = 160 => Visit(Scalar("STR", current, 0), current)
         /\ Byte \in WithTrail => Awaiting(NextCs(Byte), Trail(Byte))
         /\ Byte \in FixStr \ {160} => Awaiting("STR_VALUE", Byte % 32)
         /\ Byte \in FixArray => StartAggregate("ARRAY", Byte % 16, current)
<1>1. VisitOneByte \/ VisitEmptyFixStr \/ ReadTrail \/ ParseError \/ StartFixed
  BY DEF Next, Start, Insufficient, VisitTrail, LoadLength, StartTrail, Enough,
         EndAggregate, NextElement, Finish
<1>2. CASE VisitOneByte
  BY <1>2, HeaderClasses DEF VisitOneByte
<1>3. CASE VisitEmptyFixStr
  BY <1>3, HeaderClasses DEF VisitEmptyFixStr
<1>4. CASE ReadTrail
  BY <1>4, HeaderClasses DEF ReadTrail, Awaiting
<1>5. CASE ParseError
  BY <1>5, HeaderClasses DEF ParseError
<1>6. CASE StartFixed
  BY <1>6, HeaderClasses DEF StartFixed
<1>7. QED BY <1>1, <1>2, <1>3, <1>4, <1>5, <1>6

\* Behind a header the state decides, and whether there are bytes enough.
LEMMA AtTrail ==
  ASSUME pc = "trail", Next
  PROVE  IF Enough
         THEN /\ cs \in Numbers \cup Values =>
                   Visit(Scalar(TypeOf(cs, current), current, trail), current + trail - 1)
              /\ cs = "STR" /\ Load(current, trail) \in Nat \ {0} =>
                   /\ trail' = Load(current, trail) /\ cs' = "STR_VALUE" /\ current' = current + trail
                   /\ UNCHANGED <<data, pc, stack, pointers, allocated, objects, outcome>>
              /\ cs = "ARRAY" => StartAggregate("ARRAY", Load(current, trail), current + trail - 1)
         ELSE GivesUp
<1>1. Insufficient \/ VisitTrail \/ LoadLength \/ StartTrail
  BY DEF Next, Start, VisitOneByte, VisitEmptyFixStr, ReadTrail, ParseError, StartFixed,
         EndAggregate, NextElement, Finish
<1>2. CASE Insufficient
  BY <1>2 DEF Insufficient, GivesUp
<1>3. CASE VisitTrail
  BY <1>3 DEF VisitTrail, Numbers, Values
<1>4. CASE LoadLength
  <2>1. Enough /\ cs \notin Numbers \cup Values /\ cs # "ARRAY"
    BY <1>4 DEF LoadLength, Lengths, Numbers, Values
  <2>2. ASSUME cs = "STR", Load(current, trail) \in Nat \ {0}
        PROVE  /\ trail' = Load(current, trail) /\ cs' = "STR_VALUE" /\ current' = current + trail
               /\ UNCHANGED <<data, pc, stack, pointers, allocated, objects, outcome>>
    <3>1. Load(current, trail) + (IF cs = "EXT" THEN 1 ELSE 0) = Load(current, trail)
      BY <2>2
    <3>2. QED BY <1>4, <2>2, <3>1 DEF LoadLength
  <2>3. QED BY <2>1, <2>2
<1>5. CASE StartTrail
  BY <1>5 DEF StartTrail, Containers, Numbers, Values
<1>6. QED BY <1>1, <1>2, <1>3, <1>4, <1>5

LEMMA AtConsume ==
  ASSUME pc = "consume", Next
  PROVE  IF stack = <<>> THEN Finish
         ELSE IF Top.is # "MAP_KEY" /\ Top.rest = 1 THEN EndAggregate ELSE NextElement
<1>1. EndAggregate \/ NextElement \/ Finish
  BY DEF Next, Start, VisitOneByte, VisitEmptyFixStr, ReadTrail, ParseError, StartFixed,
         Insufficient, VisitTrail, LoadLength, StartTrail, Enough
<1>2. CASE EndAggregate
  BY <1>2 DEF EndAggregate
<1>3. CASE NextElement
  BY <1>3 DEF NextElement
<1>4. CASE Finish
  BY <1>4 DEF Finish
<1>5. QED BY <1>1, <1>2, <1>3, <1>4
----------------------------------------------------------------------------
(***************************************************************************)
(* One argument.                                                           *)
(***************************************************************************)

LEMMA LoadOfLength ==
  ASSUME NEW bytes, NEW kind, NEW n, LengthBehind(bytes, kind, n),
         NEW at \in Nat \ {0}, HoldsAt(bytes, at)
  PROVE  Load(at + 1, Len(bytes) - 1) = n
<1>1. PICK h, width : bytes = <<h>> \o Store(n, width) /\ HeadsLength(kind, h, width, n)
  BY DEF LengthBehind
<1>2. data[at] = h /\ Load(at + 1, width) = n
  BY <1>1, LengthBehindHeader
<1>3. /\ n \in Int /\ h \in Bytes
  BY <1>1 DEF HeadsLength, WithTrail, Bytes
<1>4. width \in {1, 2, 4}
  BY <1>1 DEF HeadsLength
<1>5. Len(bytes) = width + 1
  BY <1>1, <1>3, <1>4, HeaderAndNumber
<1>6. Len(bytes) - 1 = width
  BY <1>4, <1>5
<1>7. QED BY <1>2, <1>6

\* Whether there is enough, in terms of where a value ends.
LEMMA EnoughFor ==
  ASSUME TypeOK, pc = "trail", NEW last \in Int, last = current + trail - 1
  PROVE  Enough <=> last <= Len(data)
BY DEF TypeOK, Enough, pe

ReadingInt(d, at) ==
  \/ pc = "header" /\ current = at
  \/ /\ pc = "trail" /\ current = at + 1 /\ Len(PackInt(d)) # 1
     /\ cs = NextCs(PackInt(d)[1]) /\ trail = Len(PackInt(d)) - 1

\* An int is read in one step or two, or the message ends before it.
LEMMA IntStep ==
  ASSUME TypeOK, NEW d, IsInt32(d), NEW at \in Nat \ {0}, Begins(PackInt(d), at),
         ReadingInt(d, at), Next
  PROVE  \/ ReadingInt(d, at)' /\ UNCHANGED <<data, stack, pointers, allocated, objects, outcome>>
         \/ /\ Visit(IntObject(d, at), at + Len(PackInt(d)) - 1)
            /\ at + Len(PackInt(d)) - 1 <= Len(data)
         \/ GivesUp /\ Len(data) < at + Len(PackInt(d)) - 1
<1>1. PICK bytes \in Seq(Bytes) : bytes = PackInt(d)
  BY IntHeader
<1>2. \/ Len(bytes) = 1 /\ bytes[1] \in OneByte
      \/ /\ Len(bytes) \in {2, 3, 5} /\ bytes[1] \in WithTrail
         /\ Trail(bytes[1]) = Len(bytes) - 1 /\ NextCs(bytes[1]) \in {"UINT", "INT"}
  BY <1>1, IntHeader
<1>3. data \in Seq(Bytes) /\ Len(data) \in Nat /\ bytes # <<>> /\ Len(bytes) \in Nat \ {0}
  BY <1>2 DEF TypeOK
<1>4. at <= Len(data) => data[at] = bytes[1]
  BY <1>1, <1>3, BeginsByte
<1>5. at + Len(bytes) - 1 <= Len(data) => NumberAt(at) = IntObject(d, at)
  BY <1>1, <1>3, BeginsWhole, IntArrives
<1>6. CASE pc = "header" /\ current = at
  <2>1. Byte = bytes[1] /\ at <= Len(data)
    BY <1>4, <1>6 DEF TypeOK, Byte
  <2>2. CASE Len(bytes) = 1 /\ bytes[1] \in OneByte
    <3>1. at + Len(bytes) - 1 = at
      BY <2>2
    <3>2. Visit(Scalar(OneByteType(Byte), current, 1), current)
      BY <1>6, <2>1, <2>2, AtHeader
    <3>3. Scalar(OneByteType(Byte), current, 1) = IntObject(d, at)
      BY <1>4, <1>5, <1>6, <2>1, <2>2, <3>1 DEF NumberAt
    <3>4. QED BY <1>1, <1>6, <2>1, <3>1, <3>2, <3>3
  <2>3. CASE Len(bytes) # 1 /\ bytes[1] \in WithTrail /\ Trail(bytes[1]) = Len(bytes) - 1
    <3>1. Awaiting(NextCs(Byte), Trail(Byte))
      BY <1>6, <2>1, <2>3, AtHeader
    <3>2. QED BY <1>1, <1>6, <2>1, <2>3, <3>1 DEF Awaiting, ReadingInt
  <2>4. \A w \in {2, 3, 5} : w # 1
    OBVIOUS
  <2>5. QED BY <1>2, <2>2, <2>3, <2>4
<1>7. CASE /\ pc = "trail" /\ current = at + 1 /\ Len(bytes) # 1
           /\ cs = NextCs(bytes[1]) /\ trail = Len(bytes) - 1
  <2>1. at + Len(bytes) - 1 = current + trail - 1 /\ at + Len(bytes) - 1 \in Int
    BY <1>3, <1>7
  <2>2. Enough <=> at + Len(bytes) - 1 <= Len(data)
    BY <1>7, <2>1, EnoughFor
  <2>3. CASE Enough
    <3>1. cs \in Numbers
      BY <1>2, <1>7 DEF Numbers
    <3>2. Visit(Scalar(TypeOf(cs, current), current, trail), current + trail - 1)
      BY <1>7, <2>3, <3>1, AtTrail
    <3>3. at <= Len(data) /\ at + Len(bytes) - 1 <= Len(data)
      BY <1>3, <2>2, <2>3
    <3>4. data[at] = bytes[1] /\ bytes[1] \notin OneByte /\ Trail(bytes[1]) = Len(bytes) - 1
      BY <1>2, <1>4, <1>7, <3>3, HeaderClasses
    <3>5. Scalar(TypeOf(cs, current), current, trail) = IntObject(d, at)
      BY <1>5, <1>7, <3>3, <3>4 DEF NumberAt
    <3>6. QED BY <1>1, <2>1, <3>2, <3>3, <3>5
  <2>4. CASE ~Enough
    <3>1. GivesUp
      BY <1>7, <2>4, AtTrail
    <3>2. QED BY <1>1, <1>3, <2>2, <2>4, <3>1
  <2>5. QED BY <2>3, <2>4
<1>8. QED BY <1>1, <1>6, <1>7 DEF ReadingInt
ReadingStr(s, at) ==
  LET head == StrHeader(Len(s)) IN
  \/ pc = "header" /\ current = at
  \/ /\ pc = "trail" /\ current = at + 1 /\ Len(s) >= 32
     /\ cs = "STR" /\ trail = Len(head) - 1
  \/ /\ pc = "trail" /\ current = at + Len(head) /\ Len(s) # 0
     /\ cs = "STR_VALUE" /\ trail = Len(s)

StrObject(s, at) ==
  Object("STR", IF Len(s) = 0 THEN at ELSE at + Len(StrHeader(Len(s))), Len(s))

\* A string is read in up to three steps: its header, its length, its bytes.
LEMMA StrStep ==
  ASSUME TypeOK, NEW s \in Seq(Bytes), IsUInt32(Len(s)), NEW at \in Nat \ {0},
         Begins(PackStr(s), at), ReadingStr(s, at), Next
  PROVE  \/ ReadingStr(s, at)' /\ UNCHANGED <<data, stack, pointers, allocated, objects, outcome>>
         \/ /\ Visit(StrObject(s, at), at + Len(PackStr(s)) - 1)
            /\ at + Len(PackStr(s)) - 1 <= Len(data)
         \/ GivesUp /\ Len(data) < at + Len(PackStr(s)) - 1
<1>1. PICK l \in Nat : l = Len(s)
  OBVIOUS
<1>2. PICK head \in Seq(Bytes) : head = StrHeader(l) /\ Len(head) \in Nat \ {0}
  BY <1>1, StrHeaderType
<1>3. Len(PackStr(s)) = Len(head) + l
  BY <1>1, <1>2, ConcatFacts DEF PackStr
<1>4. Begins(head, at)
  BY <1>1, <1>2, BeginsParts DEF PackStr
<1>5. data \in Seq(Bytes) /\ Len(data) \in Nat /\ head # <<>>
  BY <1>2 DEF TypeOK
<1>6. \/ l < 32 /\ head = <<160 + l>>
      \/ l >= 32 /\ LengthBehind(head, "STR", l)
  BY <1>1, <1>2, StrForms
<1>7. PICK last \in Int : last = at + Len(head) + l - 1
  BY <1>2
<1>8. at + Len(PackStr(s)) - 1 = last
  BY <1>2, <1>3, <1>7
<1>9. CASE pc = "header" /\ current = at
  <2>1. at <= Len(data) /\ Byte = head[1]
    BY <1>4, <1>5, <1>9, BeginsByte DEF TypeOK, Byte
  <2>2. CASE l = 0 /\ head = <<160 + l>>
    <3>1. Len(head) = 1 /\ Byte = 160
      BY <2>1, <2>2
    <3>2. Visit(Scalar("STR", current, 0), current) /\ last = at
      BY <1>7, <1>9, <2>2, <3>1, AtHeader
    <3>3. Scalar("STR", current, 0) = StrObject(s, at)
      BY <1>1, <1>9, <2>2 DEF Scalar, StrObject, Object
    <3>4. QED BY <1>8, <1>9, <2>1, <3>2, <3>3
  <2>3. CASE l # 0 /\ l < 32 /\ head = <<160 + l>>
    <3>1. Len(head) = 1 /\ Byte = 160 + l
      BY <2>1, <2>3
    <3>2. 160 + l \in FixStr \ {160} /\ (160 + l) % 32 = l
      BY <2>3 DEF FixStr
    <3>3. Awaiting("STR_VALUE", l)
      BY <1>9, <3>1, <3>2, AtHeader
    <3>4. QED BY <1>1, <1>2, <1>9, <2>3, <3>1, <3>3 DEF Awaiting, ReadingStr
  <2>4. CASE l >= 32 /\ LengthBehind(head, "STR", l)
    <3>1. head[1] \in WithTrail /\ NextCs(head[1]) = "STR" /\ Trail(head[1]) = Len(head) - 1
      BY <2>4, LengthBehindType
    <3>2. Awaiting("STR", Len(head) - 1)
      BY <1>9, <2>1, <3>1, AtHeader
    <3>3. QED BY <1>1, <1>2, <1>9, <2>4, <3>2 DEF Awaiting, ReadingStr
  <2>5. QED BY <1>6, <2>2, <2>3, <2>4
<1>10. CASE /\ pc = "trail" /\ current = at + 1 /\ l >= 32 /\ cs = "STR" /\ trail = Len(head) - 1
  <2>1. at + Len(head) - 1 = current + trail - 1 /\ at + Len(head) - 1 \in Int
    BY <1>2, <1>10
  <2>2. Enough <=> at + Len(head) - 1 <= Len(data)
    BY <1>10, <2>1, EnoughFor
  <2>3. CASE Enough
    <3>1. LengthBehind(head, "STR", l)
      BY <1>6, <1>10
    <3>2. Load(current, trail) = l
      BY <1>4, <1>5, <1>10, <2>2, <2>3, <3>1, BeginsWhole, LoadOfLength
    <3>3. l \in Nat \ {0}
      BY <1>10
    <3>4. /\ trail' = l /\ cs' = "STR_VALUE" /\ current' = current + trail
          /\ UNCHANGED <<data, pc, stack, pointers, allocated, objects, outcome>>
      BY <1>10, <2>3, <3>2, <3>3, AtTrail
    <3>5. current' = at + Len(head)
      BY <1>2, <1>10, <3>4
    <3>6. QED BY <1>1, <1>2, <1>10, <3>3, <3>4, <3>5 DEF ReadingStr
  <2>4. CASE ~Enough
    <3>1. GivesUp
      BY <1>10, <2>4, AtTrail
    <3>2. Len(data) < last
      BY <1>2, <1>5, <1>7, <1>10, <2>2, <2>4
    <3>3. QED BY <1>8, <3>1, <3>2
  <2>5. QED BY <2>3, <2>4
<1>11. CASE /\ pc = "trail" /\ current = at + Len(head) /\ l # 0 /\ cs = "STR_VALUE" /\ trail = l
  <2>1. last = current + trail - 1
    BY <1>7, <1>11
  <2>2. Enough <=> last <= Len(data)
    BY <1>11, <2>1, EnoughFor
  <2>3. CASE Enough
    <3>1. cs \in Values /\ TypeOf(cs, current) = "STR"
      BY <1>11 DEF Values, TypeOf
    <3>2. Visit(Scalar("STR", current, trail), last)
      BY <1>11, <2>1, <2>3, <3>1, AtTrail
    <3>3. Scalar("STR", current, trail) = StrObject(s, at)
      BY <1>1, <1>2, <1>11 DEF Scalar, StrObject, Object
    <3>4. QED BY <1>8, <2>2, <2>3, <3>2, <3>3
  <2>4. CASE ~Enough
    <3>1. GivesUp
      BY <1>11, <2>4, AtTrail
    <3>2. QED BY <1>5, <1>7, <1>8, <2>2, <2>4, <3>1
  <2>5. QED BY <2>3, <2>4
<1>12. QED BY <1>1, <1>2, <1>9, <1>10, <1>11 DEF ReadingStr

LEMMA BoolStep ==
  ASSUME TypeOK, NEW b, b = TRUE \/ b = FALSE, NEW at \in Nat \ {0}, Begins(PackBool(b), at),
         pc = "header" /\ current = at, Next
  PROVE  /\ Visit(Object("BOOLEAN", at, 1), at + Len(PackBool(b)) - 1)
         /\ at + Len(PackBool(b)) - 1 <= Len(data)
<1>1. PICK t \in Seq(Bytes), f \in Seq(Bytes) : t = <<195>> /\ f = <<194>>
  <2>1. PICK x \in Bytes, y \in Bytes : x = 195 /\ y = 194
    BY DEF Bytes
  <2>2. <<x>> \in Seq(Bytes) /\ <<y>> \in Seq(Bytes)
    OBVIOUS
  <2>3. QED BY <2>1, <2>2
<1>2. t # <<>> /\ f # <<>> /\ t[1] = 195 /\ f[1] = 194 /\ Len(t) = 1 /\ Len(f) = 1
  BY <1>1
<1>3. PackBool(b) = t \/ PackBool(b) = f
  BY <1>1 DEF PackBool
<1>4. at <= Len(data) /\ at \in 1 .. Len(data)
  BY DEF TypeOK
<1>5. Byte = 195 \/ Byte = 194
  BY <1>2, <1>3, <1>4, BeginsByte DEF Byte
<1>6. Byte \in OneByte /\ OneByteType(Byte) = "BOOLEAN"
  <2>1. \A byte \in {194, 195} : byte \in OneByte /\ OneByteType(byte) = "BOOLEAN"
    BY DEF OneByte, OneByteType, PositiveFixnum, NegativeFixnum
  <2>2. QED BY <1>5, <2>1
<1>7. Visit(Scalar("BOOLEAN", at, 1), at)
  BY <1>6, AtHeader
<1>8. Scalar("BOOLEAN", at, 1) = Object("BOOLEAN", at, 1)
  BY DEF Scalar, Object
<1>9. Len(PackBool(b)) = 1 /\ at + 1 - 1 = at
  BY <1>2, <1>3
<1>10. QED BY <1>4, <1>7, <1>8, <1>9
\* An argument is being read.
ReadingArg(arg, at) ==
  \/ arg.is = "int" /\ ReadingInt(arg.of, at)
  \/ arg.is = "bool" /\ pc = "header" /\ current = at
  \/ arg.is = "string" /\ ReadingStr(arg.of, at)

LEMMA ArgumentStep ==
  ASSUME TypeOK, NEW arg \in Args, Fits(arg), NEW at \in Nat \ {0}, Begins(Pack(arg), at),
         ReadingArg(arg, at), Next
  PROVE  \/ ReadingArg(arg, at)' /\ UNCHANGED <<data, stack, pointers, allocated, objects, outcome>>
         \/ /\ Visit(ObjectOf(arg, at), at + Len(Pack(arg)) - 1)
            /\ at + Len(Pack(arg)) - 1 <= Len(data)
         \/ GivesUp /\ Len(data) < at + Len(Pack(arg)) - 1
<1>1. CASE arg = [is |-> "int", of |-> arg.of] /\ IsInt32(arg.of) /\ Pack(arg) = PackInt(arg.of)
  <2>1. arg.is = "int"
    BY <1>1
  <2>2. PICK d : d = arg.of
    OBVIOUS
  <2>3. Begins(PackInt(d), at) /\ ReadingInt(d, at) /\ IsInt32(d)
    BY <1>1, <2>1, <2>2 DEF ReadingArg
  <2>4. \/ ReadingInt(d, at)' /\ UNCHANGED <<data, stack, pointers, allocated, objects, outcome>>
        \/ /\ Visit(IntObject(d, at), at + Len(PackInt(d)) - 1)
           /\ at + Len(PackInt(d)) - 1 <= Len(data)
        \/ GivesUp /\ Len(data) < at + Len(PackInt(d)) - 1
    BY <2>3, IntStep
  <2>5. ObjectOf(arg, at) = IntObject(d, at)
    BY <2>1, <2>2 DEF ObjectOf
  <2>6. ReadingInt(d, at)' => ReadingArg(arg, at)'
    BY <2>1, <2>2 DEF ReadingArg
  <2>7. QED BY <1>1, <2>2, <2>4, <2>5, <2>6
<1>2. CASE arg = [is |-> "bool", of |-> arg.of] /\ arg.of \in BOOLEAN /\ Pack(arg) = PackBool(arg.of)
  <2>1. arg.is = "bool"
    BY <1>2
  <2>2. arg.of = TRUE \/ arg.of = FALSE
    BY <1>2, Zenon
  <2>3. PICK b : b = arg.of
    OBVIOUS
  <2>4. b = TRUE \/ b = FALSE
    BY <2>2, <2>3, Zenon
  <2>5. Begins(PackBool(b), at)
    BY <1>2, <2>3, Zenon
  <2>6. pc = "header" /\ current = at
    BY <2>1 DEF ReadingArg
  <2>7. /\ Visit(Object("BOOLEAN", at, 1), at + Len(PackBool(b)) - 1)
        /\ at + Len(PackBool(b)) - 1 <= Len(data)
    BY <2>4, <2>5, <2>6, BoolStep
  <2>8. ObjectOf(arg, at) = Object("BOOLEAN", at, 1)
    BY <2>1 DEF ObjectOf
  <2>9. Pack(arg) = PackBool(b)
    BY <1>2, <2>3, Zenon
  <2>10. QED BY <2>7, <2>8, <2>9, Zenon
<1>3. CASE /\ arg = [is |-> "string", of |-> arg.of] /\ arg.of \in Seq(Bytes)
           /\ IsUInt32(Len(arg.of)) /\ Pack(arg) = PackStr(arg.of)
  <2>1. arg.is = "string"
    BY <1>3
  <2>2. PICK s \in Seq(Bytes) : s = arg.of
    BY <1>3
  <2>3. Begins(PackStr(s), at) /\ ReadingStr(s, at) /\ IsUInt32(Len(s))
    BY <1>3, <2>1, <2>2 DEF ReadingArg
  <2>4. \/ ReadingStr(s, at)' /\ UNCHANGED <<data, stack, pointers, allocated, objects, outcome>>
        \/ /\ Visit(StrObject(s, at), at + Len(PackStr(s)) - 1)
           /\ at + Len(PackStr(s)) - 1 <= Len(data)
        \/ GivesUp /\ Len(data) < at + Len(PackStr(s)) - 1
    BY <2>3, StrStep
  <2>5. ObjectOf(arg, at) = StrObject(s, at)
    BY <2>1, <2>2 DEF ObjectOf, StrObject
  <2>6. ReadingStr(s, at)' => ReadingArg(arg, at)'
    BY <2>1, <2>2 DEF ReadingArg
  <2>7. QED BY <1>3, <2>2, <2>4, <2>5, <2>6
<1>4. QED BY <1>1, <1>2, <1>3, ArgKinds

\* Any argument is read from its header on.
LEMMA ReadingStarts ==
  ASSUME NEW arg \in Args, Fits(arg), NEW at, pc' = "header", current' = at
  PROVE  ReadingArg(arg, at)'
<1>1. arg.is = "int" \/ arg.is = "bool" \/ arg.is = "string"
  BY DEF Args
<1>2. ReadingInt(arg.of, at)' /\ ReadingStr(arg.of, at)'
  BY DEF ReadingInt, ReadingStr
<1>3. QED BY <1>1, <1>2 DEF ReadingArg

----------------------------------------------------------------------------
(***************************************************************************)
(* A list.                                                                 *)
(***************************************************************************)

\* The header of a list is read.
Opening(args) ==
  /\ stack = <<>> /\ pointers = <<1>> /\ allocated = 1
  /\ \/ pc \in {"start", "header"} /\ current = 1
     \/ /\ pc = "trail" /\ current = 2 /\ Len(args) >= 16
        /\ cs = "ARRAY" /\ trail = Len(PackArray(Len(args))) - 1

\* The list is open, and its first arguments are behind the parser.
Inside(args, k) ==
  /\ stack = <<[is |-> "ARRAY_ITEM", rest |-> Len(args) - k]>>
  /\ pointers = <<1, k + 2>>

\* The slots of the list and of its first arguments hold them.
Filled(args, k) ==
  /\ 1 .. k + 1 \subseteq DOMAIN objects
  /\ objects[1] = Object("ARRAY", IF Len(args) = 0 THEN 0 ELSE 2, Len(args))
  /\ \A i \in 1 .. k : objects[i + 1] = ObjectOf(args[i], Place(args, i))

ReadingNext(args) ==
  \E k \in 0 .. Len(args) - 1 :
    Inside(args, k) /\ Filled(args, k) /\ ReadingArg(args[k + 1], Place(args, k + 1))

HaveRead(args) ==
  \E k \in 0 .. Len(args) - 1 :
    /\ Inside(args, k) /\ Filled(args, k + 1)
    /\ pc = "consume" /\ current = Place(args, k + 2) - 1

HaveReadAll(args) ==
  /\ stack = <<>> /\ Filled(args, Len(args))
  /\ pc = "consume" /\ current = Len(PackArgs(args))

Short(args) == pc = "done" /\ outcome = "insufficient_bytes" /\ Len(data) < Len(PackArgs(args))

Arrived(args) ==
  /\ pc = "done" /\ outcome \in Accepted
  /\ Filled(args, Len(args)) /\ Len(PackArgs(args)) <= Len(data)

\* Where the parser can be in a message that holds a list as far as it goes.
Reads(args) ==
  \/ Opening(args)
  \/ ReadingNext(args)
  \/ HaveRead(args)
  \/ HaveReadAll(args)
  \/ Short(args)
  \/ Arrived(args)

\* A step that leaves the objects leaves what was read.
LEMMA FilledStays ==
  ASSUME NEW args, NEW k, Filled(args, k), objects' = objects
  PROVE  Filled(args, k)'
BY DEF Filled

\* An argument is written behind the others.
LEMMA FilledGrows ==
  ASSUME NEW args, NEW k \in Nat, Filled(args, k), Inside(args, k),
         Write(ObjectOf(args[k + 1], Place(args, k + 1)))
  PROVE  Filled(args, k + 1)'
<1>1. PICK o : o = ObjectOf(args[k + 1], Place(args, k + 1))
  OBVIOUS
<1>2. Back = k + 2
  BY DEF Inside, Back
<1>3. objects' = [a \in DOMAIN objects \cup {k + 2} |-> IF a = k + 2 THEN o ELSE objects[a]]
  BY <1>1, <1>2 DEF Write
<1>4. /\ 1 .. k + 1 \subseteq DOMAIN objects
      /\ objects[1] = Object("ARRAY", IF Len(args) = 0 THEN 0 ELSE 2, Len(args))
      /\ \A i \in 1 .. k : objects[i + 1] = ObjectOf(args[i], Place(args, i))
  BY DEF Filled
<1>5. /\ DOMAIN objects' = DOMAIN objects \cup {k + 2} /\ objects'[k + 2] = o
      /\ \A a \in 1 .. k + 1 : objects'[a] = objects[a]
  BY <1>3, <1>4
<1>6. 1 .. (k + 1) + 1 \subseteq DOMAIN objects'
  BY <1>4, <1>5
<1>7. objects'[1] = Object("ARRAY", IF Len(args) = 0 THEN 0 ELSE 2, Len(args))
  <2>1. 1 \in 1 .. k + 1
    OBVIOUS
  <2>2. QED BY <1>4, <1>5, <2>1
<1>8. ASSUME NEW i \in 1 .. k + 1 PROVE objects'[i + 1] = ObjectOf(args[i], Place(args, i))
  <2>1. CASE i = k + 1
    <3>1. i + 1 = k + 2
      BY <2>1
    <3>2. QED BY <1>1, <1>5, <2>1, <3>1
  <2>2. CASE i # k + 1
    <3>1. i \in 1 .. k /\ i + 1 \in 1 .. k + 1
      BY <2>2
    <3>2. QED BY <1>4, <1>5, <3>1
  <2>3. QED BY <2>1, <2>2
<1>9. QED BY <1>6, <1>7, <1>8 DEF Filled

LEMMA ReadingNextStep ==
  ASSUME TypeOK, NEW args, AreArguments(args), Begins(PackArgs(args), 1), ReadingNext(args), Next
  PROVE  Reads(args)'
<1>1. PICK n \in Nat : n = Len(args)
  BY ArgumentsFacts
<1>2. PICK k \in 0 .. n - 1 :
        Inside(args, k) /\ Filled(args, k) /\ ReadingArg(args[k + 1], Place(args, k + 1))
  BY <1>1 DEF ReadingNext
<1>3. k + 1 \in 1 .. n /\ k + 1 \in 1 .. n + 1 /\ k + 2 = (k + 1) + 1 /\ k \in Nat
  BY <1>2
<1>4. PICK arg \in Args : arg = args[k + 1] /\ Fits(arg)
  BY <1>1, <1>3, ArgumentsFacts
<1>5. PICK at \in Nat \ {0} : at = Place(args, k + 1)
  BY <1>1, <1>3, Places
<1>6. Begins(Pack(arg), at)
  <2>1. data \in Seq(Bytes)
    BY DEF TypeOK
  <2>2. QED BY <1>1, <1>3, <1>4, <1>5, <2>1, BeginsInPlace
<1>7. Place(args, k + 2) = at + Len(Pack(arg)) /\ Place(args, k + 2) <= Len(PackArgs(args)) + 1
  BY <1>1, <1>3, <1>4, <1>5, Places, BytesInPlace
<1>8. Len(Pack(arg)) \in Nat /\ Len(PackArgs(args)) \in Nat /\ Len(data) \in Nat
  BY <1>4, PackType, Places DEF TypeOK
<1>9. \/ ReadingArg(arg, at)' /\ UNCHANGED <<data, stack, pointers, allocated, objects, outcome>>
      \/ /\ Visit(ObjectOf(arg, at), at + Len(Pack(arg)) - 1)
         /\ at + Len(Pack(arg)) - 1 <= Len(data)
      \/ GivesUp /\ Len(data) < at + Len(Pack(arg)) - 1
  BY <1>2, <1>4, <1>5, <1>6, ArgumentStep
<1>10. CASE ReadingArg(arg, at)' /\ UNCHANGED <<data, stack, pointers, allocated, objects, outcome>>
  <2>1. Inside(args, k)' /\ Filled(args, k)'
    BY <1>2, <1>10, FilledStays DEF Inside
  <2>2. ReadingArg(args[k + 1], Place(args, k + 1))'
    BY <1>4, <1>5, <1>10
  <2>3. QED BY <1>1, <2>1, <2>2 DEF Reads, ReadingNext
<1>11. CASE Visit(ObjectOf(arg, at), at + Len(Pack(arg)) - 1)
  <2>1. Inside(args, k)' /\ pc' = "consume" /\ current' = at + Len(Pack(arg)) - 1
    BY <1>2, <1>11 DEF Visit, Inside
  <2>2. Filled(args, k + 1)'
    BY <1>2, <1>3, <1>4, <1>5, <1>11, FilledGrows DEF Visit
  <2>3. current' = Place(args, k + 2) - 1
    BY <1>7, <2>1
  <2>4. HaveRead(args)'
    BY <1>1, <2>1, <2>2, <2>3 DEF HaveRead
  <2>5. QED BY <2>4 DEF Reads
<1>12. CASE GivesUp /\ Len(data) < at + Len(Pack(arg)) - 1
  <2>1. pc' = "done" /\ outcome' = "insufficient_bytes" /\ data' = data
    BY <1>12 DEF GivesUp, End
  <2>2. Len(data) < Len(PackArgs(args))
    BY <1>7, <1>8, <1>12
  <2>3. QED BY <2>1, <2>2 DEF Reads, Short
<1>13. QED BY <1>9, <1>10, <1>11, <1>12
LEMMA HaveReadStep ==
  ASSUME TypeOK, NEW args, AreArguments(args), HaveRead(args), Next
  PROVE  Reads(args)'
<1>1. PICK n \in Nat : n = Len(args)
  BY ArgumentsFacts
<1>2. PICK k \in 0 .. n - 1 :
        /\ Inside(args, k) /\ Filled(args, k + 1)
        /\ pc = "consume" /\ current = Place(args, k + 2) - 1
  BY <1>1 DEF HaveRead
<1>3. PICK frame : frame = [is |-> "ARRAY_ITEM", rest |-> n - k]
  OBVIOUS
<1>4. frame.is = "ARRAY_ITEM" /\ frame.rest = n - k
  BY <1>3
<1>5. stack = <<frame>> /\ pointers = <<1, k + 2>>
  BY <1>1, <1>2, <1>3 DEF Inside
<1>6. stack # <<>> /\ Len(stack) = 1 /\ Top = frame
  BY <1>5 DEF Top
<1>7. k + 2 \in 1 .. n + 1 /\ k + 2 = (k + 1) + 1 /\ k + 1 \in 1 .. n
  BY <1>2
<1>8. Place(args, k + 2) \in Nat \ {0}
  BY <1>1, <1>7, Places
<1>9. CASE k = n - 1
  <2>1. EndAggregate
    BY <1>2, <1>4, <1>6, <1>9, AtConsume
  <2>2. stack' = Pop(stack) /\ UNCHANGED <<data, pc, current, objects>>
    BY <2>1 DEF EndAggregate
  <2>3. stack' = <<>>
    BY <1>5, <2>2 DEF Pop
  <2>4. k + 2 = n + 1 /\ k + 1 = n
    BY <1>9
  <2>5. current = Len(PackArgs(args))
    <3>1. Place(args, n + 1) = Len(PackArgs(args)) + 1 /\ Len(PackArgs(args)) \in Nat
      BY <1>1, Places
    <3>2. QED BY <1>2, <2>4, <3>1
  <2>6. Filled(args, n)'
    BY <1>2, <2>2, <2>4, FilledStays
  <2>7. QED BY <1>1, <1>2, <2>2, <2>3, <2>5, <2>6 DEF Reads, HaveReadAll
<1>10. CASE k # n - 1
  <2>1. NextElement
    BY <1>2, <1>4, <1>6, <1>10, AtConsume
  <2>2. k + 1 \in 0 .. n - 1 /\ (n - k) - 1 = n - (k + 1) /\ (k + 2) + 1 = (k + 1) + 2
    BY <1>10
  <2>3. /\ pointers' = [pointers EXCEPT ![Len(pointers)] = @ + 1]
        /\ Iterate(current + 1) /\ objects' = objects /\ data' = data
    BY <2>1 DEF NextElement
  <2>4. pointers' = <<1, (k + 1) + 2>>
    <3>1. PICK two : two = k + 2
      OBVIOUS
    <3>2. pointers = <<1, two>>
      BY <1>5, <3>1
    <3>3. pointers' = <<1, two + 1>>
      BY <2>3, <3>2
    <3>4. QED BY <2>2, <3>1, <3>3
  <2>5. stack' = <<[is |-> "ARRAY_ITEM", rest |-> n - (k + 1)]>>
    <3>1. PICK next : next = [is |-> "ARRAY_ITEM", rest |-> n - (k + 1)]
      OBVIOUS
    <3>2. stack' = [stack EXCEPT ![1] = next]
      BY <1>4, <1>6, <2>1, <2>2, <3>1 DEF NextElement
    <3>3. stack' = <<next>>
      BY <1>5, <3>2
    <3>4. QED BY <3>1, <3>3
  <2>6. Inside(args, k + 1)' /\ Filled(args, k + 1)'
    <3>1. Inside(args, k + 1)'
      BY <1>1, <2>4, <2>5 DEF Inside
    <3>2. QED BY <1>2, <2>3, <3>1, FilledStays
  <2>7. current + 1 = Place(args, k + 2) /\ Iterate(Place(args, k + 2))
    BY <1>2, <1>8, <2>3
  <2>8. CASE Place(args, k + 2) = pe
    <3>1. pc' = "done" /\ outcome' = "insufficient_bytes"
      BY <2>7, <2>8 DEF Iterate, End
    <3>2. PICK next \in Args : next = args[k + 2] /\ Len(Pack(next)) \in Nat \ {0}
      BY <1>1, <1>7, <2>2, ArgumentsFacts
    <3>3. k + 2 \in 1 .. n
      BY <2>2
    <3>4. /\ Place(args, (k + 2) + 1) = Place(args, k + 2) + Len(Pack(next))
          /\ Place(args, (k + 2) + 1) <= Len(PackArgs(args)) + 1
      BY <1>1, <3>2, <3>3, Places, BytesInPlace
    <3>5. Len(PackArgs(args)) \in Nat /\ Len(data) \in Nat
      BY Places DEF TypeOK
    <3>6. Len(data) < Len(PackArgs(args))
      BY <1>8, <2>8, <3>2, <3>4, <3>5 DEF pe
    <3>7. QED BY <2>3, <3>1, <3>6 DEF Reads, Short
  <2>9. CASE Place(args, k + 2) # pe
    <3>1. pc' = "header" /\ current' = Place(args, k + 2)
      BY <2>7, <2>9 DEF Iterate
    <3>2. (k + 1) + 1 = k + 2 /\ k + 2 \in 1 .. n
      BY <2>2
    <3>3. args[k + 2] \in Args /\ Fits(args[k + 2])
      BY <1>1, <3>2, ArgumentsFacts
    <3>4. ReadingArg(args[k + 2], Place(args, k + 2))'
      BY <3>1, <3>3, ReadingStarts
    <3>5. ReadingNext(args)'
      BY <1>1, <2>2, <2>6, <3>2, <3>4 DEF ReadingNext
    <3>6. QED BY <3>5 DEF Reads
  <2>10. QED BY <2>8, <2>9
<1>11. QED BY <1>9, <1>10

LEMMA HaveReadAllStep ==
  ASSUME TypeOK, NEW args, HaveReadAll(args), Next
  PROVE  Reads(args)'
<1>1. stack = <<>> /\ Filled(args, Len(args)) /\ pc = "consume" /\ current = Len(PackArgs(args))
  BY DEF HaveReadAll
<1>2. Finish
  BY <1>1, AtConsume
<1>3. pc' = "done" /\ outcome' \in Accepted /\ UNCHANGED <<data, objects>>
  BY <1>2 DEF Finish, End, Accepted
<1>4. Len(PackArgs(args)) <= Len(data)
  BY <1>1 DEF TypeOK
<1>5. Filled(args, Len(args))'
  BY <1>1, <1>3, FilledStays
<1>6. QED BY <1>3, <1>4, <1>5 DEF Reads, Arrived
LEMMA AppendToOne ==
  ASSUME NEW a \in Nat, NEW b \in Nat
  PROVE  Append(<<a>>, b) = <<a, b>>
<1>1. PICK s : s = <<a>>
  OBVIOUS
<1>2. s \in Seq(Nat) /\ Len(s) = 1 /\ s[1] = a
  BY <1>1
<1>3. PICK t : t = Append(s, b)
  OBVIOUS
<1>4. t \in Seq(Nat) /\ Len(t) = 2 /\ t[1] = a /\ t[2] = b
  <2>1. PICK r \in Seq(Nat) : r = s
    BY <1>2
  <2>2. /\ Append(r, b) \in Seq(Nat) /\ Len(Append(r, b)) = Len(r) + 1
        /\ \A i \in 1 .. Len(r) : Append(r, b)[i] = r[i]
        /\ Append(r, b)[Len(r) + 1] = b
    BY AppendFacts
  <2>3. t = Append(r, b)
    BY <1>3, <2>1, Zenon
  <2>4. /\ t \in Seq(Nat) /\ Len(t) = Len(r) + 1
        /\ \A i \in 1 .. Len(r) : t[i] = r[i]
        /\ t[Len(r) + 1] = b
    BY <2>2, <2>3, Zenon
  <2>5. Len(r) = 1 /\ r[1] = a
    BY <1>2, <2>1
  <2>6. QED BY <2>4, <2>5
<1>5. PICK u : u = <<a, b>>
  OBVIOUS
<1>6. u \in Seq(Nat) /\ Len(u) = 2 /\ u[1] = a /\ u[2] = b
  BY <1>5
<1>7. t = u
  <2>1. \A i \in 1 .. 2 : t[i] = u[i]
    BY <1>4, <1>6
  <2>2. QED BY <1>4, <1>6, <2>1
<1>8. QED BY <1>1, <1>3, <1>5, <1>7

\* The header of a list has been read up to a position.
LEMMA OpensList ==
  ASSUME TypeOK, NEW args, AreArguments(args), Opening(args),
         StartAggregate("ARRAY", Len(args), Len(PackArray(Len(args))))
  PROVE  Reads(args)'
<1>1. PICK n \in Nat : n = Len(args) /\ IsUInt32(n)
  BY ArgumentsFacts
<1>2. PICK last \in Nat \ {0} : last = Len(PackArray(n))
  BY <1>1, PackArrayType
<1>3. StartAggregate("ARRAY", n, last)
  BY <1>1, <1>2
<1>4. stack = <<>> /\ pointers = <<1>> /\ allocated = 1 /\ Back = 1
  BY DEF Opening, Back
<1>5. Place(args, 1) = last + 1 /\ Len(PackArgs(args)) \in Nat /\ Len(data) \in Nat
  BY <1>1, <1>2, Places DEF TypeOK
<1>6. CASE n = 0
  <2>1. Visit(Object("ARRAY", 0, 0), last)
    BY <1>3, <1>6 DEF StartAggregate
  <2>2. /\ Write(Object("ARRAY", 0, 0)) /\ current' = last /\ pc' = "consume" /\ stack' = <<>>
    BY <1>4, <2>1 DEF Visit
  <2>3. PICK o : o = Object("ARRAY", 0, 0)
    OBVIOUS
  <2>4. 1 \in DOMAIN objects' /\ objects'[1] = o
    BY <1>4, <2>2, <2>3 DEF Write
  <2>5. Filled(args, n)'
    BY <1>1, <1>6, <2>3, <2>4 DEF Filled
  <2>6. Len(PackArgs(args)) = last
    <3>1. Place(args, n + 1) = Len(PackArgs(args)) + 1
      BY <1>1, Places
    <3>2. n + 1 = 1
      BY <1>6
    <3>3. QED BY <1>5, <3>1, <3>2
  <2>7. QED BY <1>1, <2>2, <2>5, <2>6 DEF Reads, HaveReadAll
<1>7. CASE n # 0
  <2>1. PICK frame : frame = [is |-> "ARRAY_ITEM", rest |-> n]
    OBVIOUS
  <2>2. /\ Write(Object("ARRAY", allocated + 1, n))
        /\ stack' = Append(stack, frame) /\ pointers' = Append(pointers, allocated + 1)
        /\ Iterate(last + 1) /\ data' = data
    BY <1>3, <1>7, <2>1 DEF StartAggregate
  <2>3. stack' = <<frame>> /\ pointers' = <<1, 2>> /\ allocated + 1 = 2
    <3>1. allocated + 1 = 2
      BY <1>4
    <3>2. Append(<<>>, frame) = <<frame>>
      OBVIOUS
    <3>3. Append(<<1>>, 2) = <<1, 2>>
      <4>1. 1 \in Nat /\ 2 \in Nat
        OBVIOUS
      <4>2. QED BY <4>1, AppendToOne
    <3>4. QED BY <1>4, <2>2, <3>1, <3>2, <3>3
  <2>4. n - 0 = n /\ 0 + 2 = 2 /\ 0 \in 0 .. n - 1
    BY <1>7
  <2>5. Inside(args, 0)'
    BY <1>1, <2>1, <2>3, <2>4 DEF Inside
  <2>6. Filled(args, 0)'
    <3>1. PICK o : o = Object("ARRAY", 2, n)
      OBVIOUS
    <3>2. 1 \in DOMAIN objects' /\ objects'[1] = o
      BY <1>4, <2>2, <2>3, <3>1 DEF Write
    <3>3. QED BY <1>1, <1>7, <3>1, <3>2 DEF Filled
  <2>7. CASE last + 1 = pe
    <3>1. pc' = "done" /\ outcome' = "insufficient_bytes"
      BY <2>2, <2>7 DEF Iterate, End
    <3>2. 1 \in 1 .. n /\ 1 + 1 = 2 /\ 2 \in 1 .. n + 1
      BY <1>7
    <3>3. PICK first \in Args : first = args[1] /\ Len(Pack(first)) \in Nat \ {0}
      BY <1>1, <3>2, ArgumentsFacts
    <3>4. /\ Place(args, 2) = Place(args, 1) + Len(Pack(first))
          /\ Place(args, 2) <= Len(PackArgs(args)) + 1
      BY <1>1, <3>2, <3>3, Places, BytesInPlace
    <3>5. Len(data) < Len(PackArgs(args))
      BY <1>5, <2>7, <3>3, <3>4 DEF pe
    <3>6. QED BY <2>2, <3>1, <3>5 DEF Reads, Short
  <2>8. CASE last + 1 # pe
    <3>1. pc' = "header" /\ current' = Place(args, 0 + 1)
      BY <1>5, <2>2, <2>8 DEF Iterate
    <3>2. 0 + 1 \in 1 .. n
      BY <1>7
    <3>3. args[0 + 1] \in Args /\ Fits(args[0 + 1])
      BY <1>1, <3>2, ArgumentsFacts
    <3>4. ReadingArg(args[0 + 1], Place(args, 0 + 1))'
      BY <3>1, <3>3, ReadingStarts
    <3>5. ReadingNext(args)'
      BY <1>1, <2>4, <2>5, <2>6, <3>4 DEF ReadingNext
    <3>6. QED BY <3>5 DEF Reads
  <2>9. QED BY <2>7, <2>8
<1>8. QED BY <1>6, <1>7

LEMMA OpeningStep ==
  ASSUME TypeOK, NEW args, AreArguments(args), Begins(PackArgs(args), 1), Opening(args), Next
  PROVE  Reads(args)'
<1>1. PICK n \in Nat : n = Len(args) /\ IsUInt32(n)
  BY ArgumentsFacts
<1>2. PICK header \in Seq(Bytes) : header = PackArray(n) /\ Len(header) \in Nat \ {0}
  BY <1>1, PackArrayType
<1>3. data \in Seq(Bytes) /\ Len(data) \in Nat /\ Len(PackArgs(args)) \in Nat /\ header # <<>>
  BY <1>2, Places DEF TypeOK
<1>4. Begins(header, 1)
  BY <1>1, <1>2, <1>3, BeginsInPlace
<1>5. Len(header) <= Len(PackArgs(args))
  BY <1>1, <1>2, BytesInPlace
<1>6. \/ n < 16 /\ header = <<144 + n>>
      \/ n >= 16 /\ LengthBehind(header, "ARRAY", n)
  BY <1>1, <1>2, ArrayForms
<1>7. CASE pc = "start"
  <2>1. Start
    BY <1>7 DEF Next, VisitOneByte, VisitEmptyFixStr, ReadTrail, ParseError, StartFixed,
           Insufficient, VisitTrail, LoadLength, StartTrail, Enough, EndAggregate, NextElement, Finish
  <2>2. UNCHANGED <<data, current, cs, trail, stack, pointers, allocated, objects>>
    BY <2>1 DEF Start
  <2>3. CASE data = <<>>
    <3>1. pc' = "done" /\ outcome' = "insufficient_bytes"
      BY <2>1, <2>3 DEF Start, End
    <3>2. Len(data) < Len(PackArgs(args))
      BY <1>2, <1>3, <1>5, <2>3
    <3>3. QED BY <2>2, <3>1, <3>2 DEF Reads, Short
  <2>4. CASE data # <<>>
    <3>1. pc' = "header" /\ current = 1
      BY <1>7, <2>1, <2>4 DEF Start, Opening
    <3>2. Opening(args)'
      BY <2>2, <3>1 DEF Opening
    <3>3. QED BY <3>2 DEF Reads
  <2>5. QED BY <2>3, <2>4
<1>8. CASE pc = "header"
  <2>1. current = 1 /\ 1 \in 1 .. Len(data)
    BY <1>8 DEF Opening, TypeOK
  <2>2. Byte = header[1]
    BY <1>3, <1>4, <2>1, BeginsByte DEF Byte
  <2>3. CASE n < 16 /\ header = <<144 + n>>
    <3>1. Byte = 144 + n /\ Len(header) = 1
      BY <2>2, <2>3
    <3>2. 144 + n \in FixArray /\ (144 + n) % 16 = n
      BY <2>3 DEF FixArray
    <3>3. StartAggregate("ARRAY", n, 1)
      BY <1>8, <2>1, <3>1, <3>2, AtHeader
    <3>4. QED BY <1>1, <1>2, <3>1, <3>3, OpensList
  <2>4. CASE n >= 16 /\ LengthBehind(header, "ARRAY", n)
    <3>1. Byte \in WithTrail /\ NextCs(Byte) = "ARRAY" /\ Trail(Byte) = Len(header) - 1
      BY <2>2, <2>4, LengthBehindType
    <3>2. Awaiting("ARRAY", Len(header) - 1)
      BY <1>8, <3>1, AtHeader
    <3>3. Opening(args)'
      BY <1>1, <1>2, <2>1, <2>4, <3>2 DEF Awaiting, Opening
    <3>4. QED BY <3>3 DEF Reads
  <2>5. QED BY <1>6, <2>3, <2>4
<1>9. CASE /\ pc = "trail" /\ current = 2 /\ n >= 16 /\ cs = "ARRAY" /\ trail = Len(header) - 1
  <2>1. Len(header) = current + trail - 1 /\ Len(header) \in Int /\ 1 + Len(header) - 1 = Len(header)
    BY <1>2, <1>9
  <2>2. Enough <=> Len(header) <= Len(data)
    BY <1>9, <2>1, EnoughFor
  <2>3. CASE Enough
    <3>1. LengthBehind(header, "ARRAY", n)
      BY <1>6, <1>9
    <3>2. HoldsAt(header, 1)
      BY <1>3, <1>4, <2>1, <2>2, <2>3, BeginsWhole
    <3>3. Load(1 + 1, Len(header) - 1) = n
      BY <3>1, <3>2, LoadOfLength
    <3>4. StartAggregate("ARRAY", n, Len(header))
      <4>1. Load(current, trail) = n
        BY <1>9, <3>3
      <4>2. QED BY <1>9, <2>1, <2>3, <4>1, AtTrail
    <3>5. QED BY <1>1, <1>2, <3>4, OpensList
  <2>4. CASE ~Enough
    <3>1. GivesUp
      BY <1>9, <2>4, AtTrail
    <3>2. pc' = "done" /\ outcome' = "insufficient_bytes" /\ data' = data
      BY <3>1 DEF GivesUp, End
    <3>3. Len(data) < Len(PackArgs(args))
      BY <1>2, <1>3, <1>5, <2>2, <2>4
    <3>4. QED BY <3>2, <3>3 DEF Reads, Short
  <2>5. QED BY <2>3, <2>4
<1>10. QED BY <1>1, <1>2, <1>7, <1>8, <1>9 DEF Opening
----------------------------------------------------------------------------
(***************************************************************************)
(* The invariant, and what arrives.                                        *)
(***************************************************************************)

\* A message that holds a list as far as it goes is read as one.
Follows ==
  \A args \in ArgumentLists : Begins(PackArgs(args), 1) => Reads(args)

LEMMA DataStays == Next => data' = data
BY DEF Next, Start, VisitOneByte, VisitEmptyFixStr, ReadTrail, ParseError, StartFixed, StartAggregate,
       Visit, Insufficient, VisitTrail, LoadLength, StartTrail, EndAggregate, NextElement, Finish

LEMMA DoneStays == pc = "done" => ~Next
BY DEF Next, Start, VisitOneByte, VisitEmptyFixStr, ReadTrail, ParseError, StartFixed,
       Insufficient, VisitTrail, LoadLength, StartTrail, Enough, EndAggregate, NextElement, Finish

LEMMA ReadsStep ==
  ASSUME TypeOK, NEW args, AreArguments(args), Begins(PackArgs(args), 1), Reads(args), Next
  PROVE  Reads(args)'
<1>1. CASE Opening(args)
  BY <1>1, OpeningStep
<1>2. CASE ReadingNext(args)
  BY <1>2, ReadingNextStep
<1>3. CASE HaveRead(args)
  BY <1>3, HaveReadStep
<1>4. CASE HaveReadAll(args)
  BY <1>4, HaveReadAllStep
<1>5. CASE Short(args) \/ Arrived(args)
  BY <1>5, DoneStays DEF Short, Arrived
<1>6. QED BY <1>1, <1>2, <1>3, <1>4, <1>5 DEF Reads

LEMMA ReadsStutter ==
  ASSUME NEW args, Reads(args), UNCHANGED vars
  PROVE  Reads(args)'
<1>1. UNCHANGED <<data, pc, current, cs, trail, stack, pointers, allocated, objects, outcome>>
  BY DEF vars
<1>2. \A k : (Inside(args, k) <=> Inside(args, k)') /\ (Filled(args, k) <=> Filled(args, k)')
  BY <1>1 DEF Inside, Filled
<1>3. \A arg, at : ReadingArg(arg, at) <=> ReadingArg(arg, at)'
  BY <1>1 DEF ReadingArg, ReadingInt, ReadingStr
<1>4. CASE Opening(args)
  BY <1>1, <1>4 DEF Reads, Opening
<1>5. CASE ReadingNext(args)
  BY <1>2, <1>3, <1>5 DEF Reads, ReadingNext
<1>6. CASE HaveRead(args)
  BY <1>1, <1>2, <1>6 DEF Reads, HaveRead
<1>7. CASE HaveReadAll(args)
  BY <1>1, <1>2, <1>7 DEF Reads, HaveReadAll
<1>8. CASE Short(args) \/ Arrived(args)
  BY <1>1, <1>2, <1>8 DEF Reads, Short, Arrived
<1>9. QED BY <1>4, <1>5, <1>6, <1>7, <1>8 DEF Reads

LEMMA FollowsInvariance == Spec => []Follows
<1>1. Init => Follows
  BY DEF Init, Follows, Reads, Opening
<1>2. TypeOK /\ Follows /\ [Next]_vars => Follows'
  <2> SUFFICES ASSUME TypeOK, Follows, [Next]_vars,
                      NEW args \in ArgumentLists, Begins(PackArgs(args), 1)'
               PROVE  Reads(args)'
    BY DEF Follows
  <2>1. data' = data
    BY DataStays DEF vars
  <2>2. Begins(PackArgs(args), 1)
    BY <2>1 DEF Begins
  <2>3. Reads(args) /\ AreArguments(args)
    BY <2>2, ArgumentListsAssumption DEF Follows
  <2>4. CASE Next
    BY <2>2, <2>3, <2>4, ReadsStep
  <2>5. CASE UNCHANGED vars
    BY <2>3, <2>5, ReadsStutter
  <2>6. QED BY <2>4, <2>5
<1>3. QED BY <1>1, <1>2, TypeCorrect, PTL DEF Spec

\* A message that holds a whole argument list unpacks for the parameters that
\* its arguments match, and is converted to them and to defaults.
LEMMA ArrivedUnpacks ==
  ASSUME TypeOK, pc = "done", NEW args, AreArguments(args), Arrived(args),
         Begins(PackArgs(args), 1), NEW parameters \in Seq(ParameterTypes)
  PROVE  /\ Unpacks(parameters) <=> Match(parameters, args)
         /\ Unpacks(parameters) =>
              \A i \in DOMAIN parameters :
                Unpack(parameters)[i] =
                  IF i \in DOMAIN args THEN args[i] ELSE DefaultOf(parameters[i])
<1>1. PICK n \in Nat : n = Len(args) /\ DOMAIN args = 1 .. n
  BY ArgumentsFacts
<1>2. objects[1] = Object("ARRAY", IF n = 0 THEN 0 ELSE 2, n)
  BY <1>1 DEF Arrived, Filled
<1>3. objects[1].type = "ARRAY" /\ objects[1].size = n /\ (n # 0 => objects[1].first = 2)
  BY <1>2 DEF Object
<1>4. ASSUME NEW i \in 1 .. n
      PROVE  /\ Argument(args[i].is, Element(i)) = args[i]
             /\ \A parameter \in ParameterTypes :
                  Accepts(parameter, Element(i)) <=> parameter = args[i].is
  <2>1. objects[1].first + i - 1 = i + 1
    BY <1>3
  <2>2. objects[i + 1] = ObjectOf(args[i], Place(args, i))
    BY <1>1 DEF Arrived, Filled
  <2>3. PICK arg \in Args : arg = args[i] /\ Fits(arg)
    BY <1>1, ArgumentsFacts
  <2>4. PICK at \in Nat \ {0} : at = Place(args, i)
    <3>1. i \in 1 .. n + 1
      OBVIOUS
    <3>2. QED BY <1>1, <3>1, Places
  <2>5. data \in Seq(Bytes) /\ Len(data) \in Nat /\ Len(PackArgs(args)) \in Nat
    BY Places DEF TypeOK
  <2>6. Begins(Pack(arg), at)
    BY <1>1, <2>3, <2>4, <2>5, BeginsInPlace
  <2>7. at + Len(Pack(arg)) <= Len(PackArgs(args)) + 1 /\ Len(Pack(arg)) \in Nat
    BY <1>1, <2>3, <2>4, Places, BytesInPlace, PackType
  <2>8. at + Len(Pack(arg)) - 1 <= Len(data)
    BY <2>5, <2>7 DEF Arrived
  <2>9. /\ Argument(arg.is, ObjectOf(arg, at)) = arg
        /\ \A parameter \in ParameterTypes :
             Accepts(parameter, ObjectOf(arg, at)) <=> parameter = arg.is
    BY <2>3, <2>5, <2>6, <2>8, ArgumentValue
  <2>10. Element(i) = ObjectOf(arg, at)
    BY <2>1, <2>2, <2>3, <2>4 DEF Element
  <2>11. QED BY <2>3, <2>9, <2>10
<1>5. \A i \in DOMAIN parameters :
        /\ parameters[i] \in ParameterTypes
        /\ Reaches(i) <=> i \in 1 .. n
  BY <1>3 DEF Reaches
<1>6. Unpacks(parameters) <=> Match(parameters, args)
  <2>1. Unpacks(parameters) <=>
          \A i \in DOMAIN parameters : Reaches(i) => Accepts(parameters[i], Element(i))
    BY <1>3 DEF Unpacks, Arrived
  <2>2. ASSUME NEW i \in DOMAIN parameters
        PROVE  (Reaches(i) => Accepts(parameters[i], Element(i)))
                 <=> (i \in DOMAIN args => parameters[i] = args[i].is)
    BY <1>1, <1>4, <1>5
  <2>3. QED BY <2>1, <2>2 DEF Match
<1>7. ASSUME Unpacks(parameters), NEW i \in DOMAIN parameters
      PROVE  Unpack(parameters)[i] =
               IF i \in DOMAIN args THEN args[i] ELSE DefaultOf(parameters[i])
  <2>1. Unpack(parameters)[i] =
          IF Reaches(i) THEN Argument(parameters[i], Element(i)) ELSE DefaultOf(parameters[i])
    BY DEF Unpack
  <2>2. CASE i \in 1 .. n
    <3>1. parameters[i] = args[i].is
      BY <1>1, <1>6, <1>7, <2>2 DEF Match
    <3>2. QED BY <1>1, <1>4, <1>5, <2>1, <2>2, <3>1
  <2>3. CASE i \notin 1 .. n
    BY <1>1, <1>5, <2>1, <2>3
  <2>4. QED BY <2>2, <2>3
<1>8. QED BY <1>6, <1>7

\* The handler gets what the caller gave: a list of any length, of ints, bools
\* and strings, with or without bytes behind it, reaches a handler exactly if
\* it matches the parameters, each argument as it went into codec.h:20 and the
\* missing ones as defaults; a part of it is never taken for a message.
THEOREM ArgumentsArrive == Spec => []PackedArgumentsArrive
<1>1. ASSUME TypeOK, Follows, pc = "done", NEW args \in ArgumentLists,
             NEW whole, whole = PackArgs(args)
      PROVE  /\ (Len(data) >= Len(whole) /\ SubSeq(data, 1, Len(whole)) = whole) =>
                  /\ outcome \in Accepted
                  /\ \A parameters \in ParameterLists :
                       /\ Unpacks(parameters) <=> Match(parameters, args)
                       /\ Unpacks(parameters) =>
                            \A i \in DOMAIN parameters :
                              Unpack(parameters)[i] =
                                IF i \in DOMAIN args THEN args[i] ELSE DefaultOf(parameters[i])
             /\ (Len(data) < Len(whole) /\ SubSeq(whole, 1, Len(data)) = data) =>
                  outcome = "insufficient_bytes"
  <2>1. AreArguments(args) /\ whole \in Seq(Bytes) /\ data \in Seq(Bytes)
    BY <1>1, ArgumentListsAssumption, Places DEF TypeOK
  <2>2. Len(whole) \in Nat /\ Len(data) \in Nat
    BY <2>1
  <2>3. ASSUME Begins(whole, 1) PROVE Short(args) \/ Arrived(args)
    <3>1. Reads(args)
      BY <1>1, <2>3 DEF Follows
    <3>2. ~Opening(args) /\ ~HaveRead(args) /\ ~HaveReadAll(args)
      BY <1>1 DEF Opening, HaveRead, HaveReadAll
    <3>3. ~ReadingNext(args)
      BY <1>1 DEF ReadingNext, ReadingArg, ReadingInt, ReadingStr
    <3>4. QED BY <3>1, <3>2, <3>3 DEF Reads
  <2>4. ASSUME Len(data) >= Len(whole) /\ SubSeq(data, 1, Len(whole)) = whole
        PROVE  /\ outcome \in Accepted
               /\ \A parameters \in ParameterLists :
                    /\ Unpacks(parameters) <=> Match(parameters, args)
                    /\ Unpacks(parameters) =>
                         \A i \in DOMAIN parameters :
                           Unpack(parameters)[i] =
                             IF i \in DOMAIN args THEN args[i] ELSE DefaultOf(parameters[i])
    <3>1. Begins(whole, 1)
      BY <2>1, <2>4, BeginsEither
    <3>2. Arrived(args)
      BY <1>1, <2>2, <2>3, <2>4, <3>1 DEF Short
    <3>3. outcome \in Accepted
      BY <3>2 DEF Arrived
    <3>4. \A parameters \in ParameterLists : parameters \in Seq(ParameterTypes)
      BY ParameterListsAssumption
    <3>5. QED BY <1>1, <2>1, <3>1, <3>2, <3>3, <3>4, ArrivedUnpacks
  <2>5. ASSUME Len(data) < Len(whole) /\ SubSeq(whole, 1, Len(data)) = data
        PROVE  outcome = "insufficient_bytes"
    <3>1. Begins(whole, 1)
      BY <2>1, <2>5, BeginsEither
    <3>2. QED BY <1>1, <2>2, <2>3, <2>5, <3>1 DEF Short, Arrived
  <2>6. QED BY <2>4, <2>5
<1>2. TypeOK /\ Follows => PackedArgumentsArrive
  BY <1>1 DEF PackedArgumentsArrive
<1>3. QED BY <1>2, TypeCorrect, FollowsInvariance, PTL
=============================================================================
