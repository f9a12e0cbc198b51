----------------------------- MODULE ParserProofs -----------------------------
(***************************************************************************)
(* Proofs about Parser, for messages of any length and any nesting: the    *)
(* visitor writes every slot it allocates exactly once, because the two    *)
(* stacks count alike, and reads no byte the message does not have.        *)
(***************************************************************************)
EXTENDS Parser, TLAPS, WellFoundedInduction

----------------------------------------------------------------------------
(***************************************************************************)
(* Induction over a set of numbers: a set that does not hold all of them   *)
(* has a least number it leaves out.                                       *)
(***************************************************************************)
Below == {pair \in Nat \X Nat : pair[1] < pair[2]}

LEMMA LeastNumber ==
  ASSUME NEW S \in SUBSET Nat, S # {}
  PROVE  \E n \in S : \A m \in S : n <= m
<1>1. IsWellFoundedOn(Below, Nat)
  BY NatLessThanWellFounded DEF Below, OpToRel
<1>2. PICK n \in S : \A m \in S : ~ (<<m, n>> \in Below)
  BY <1>1, WFMin
<1>3. \A x, y \in Nat : <<x, y>> \in Below <=> x < y
  BY DEF Below
<1>4. \A m \in S : ~ (m < n)
  BY <1>2, <1>3
<1>5. QED BY <1>4

LEMMA EveryNumber ==
  ASSUME NEW S, 0 \in S, \A n \in Nat : n \in S => n + 1 \in S
  PROVE  Nat \subseteq S
<1> DEFINE T == Nat \ S
<1> SUFFICES ASSUME T # {} PROVE FALSE
  OBVIOUS
<1>1. PICK n \in T : \A m \in T : n <= m
  BY LeastNumber
<1>2. n # 0 /\ n - 1 \in Nat /\ n - 1 \notin T
  BY <1>1
<1>3. n - 1 \in S /\ (n - 1) + 1 = n
  BY <1>2
<1>4. QED BY <1>1, <1>2, <1>3

----------------------------------------------------------------------------
(***************************************************************************)
(* The inductive invariant.                                                *)
(***************************************************************************)

\* Values are waited for with a width that can be loaded; a result ends it.
Control ==
  /\ pc = "start" => current = 1
  /\ pc = "trail" => trail # 0
  /\ pc = "trail" /\ cs \in Lengths \cup Containers => trail \in {1, 2, 4}
  /\ pc # "done" => outcome = NoOutcome
  /\ outcome \in Accepted => stack = <<>>

\* The block of slots that pointer i moves in: m_obj, or the elements of the
\* container that pointer i - 1 points to.
FirstOf(i) == IF i = 1 THEN 1 ELSE objects[pointers[i - 1]].first
LastOf(i) ==
  IF i = 1 THEN 1
  ELSE LET container == objects[pointers[i - 1]] IN
       container.first + Slots(container.type, container.size) - 1

\* Every pointer stays in its block, and blocks lie one behind the other.
Blocks ==
  /\ \A i \in DOMAIN pointers :
       FirstOf(i) <= pointers[i] /\ pointers[i] <= LastOf(i) /\ LastOf(i) <= allocated
  /\ \A i, j \in DOMAIN pointers : i < j => LastOf(i) < FirstOf(j)

\* The slot on top is yet to be written.
Reading == pc \in {"start", "header", "trail"}

\* Slot a of the block of pointer i is yet to be written.
Awaits(i, a) ==
  /\ a <= LastOf(i)
  /\ pointers[i] < a \/ (Reading /\ i = Len(pointers) /\ pointers[i] = a)

\* What is not yet to be written has been, and nothing else.
Exact ==
  (pc # "done" \/ outcome \in Accepted) =>
    \A a \in 1 .. allocated :
      a \in DOMAIN objects <=> ~ \E i \in DOMAIN pointers : Awaits(i, a)

IInv ==
  /\ TypeOK
  /\ WithinMessage
  /\ Control
  /\ StacksAgree
  /\ Blocks
  /\ Exact

----------------------------------------------------------------------------
(***************************************************************************)
(* Stacks.                                                                 *)
(***************************************************************************)

LEMMA TopFacts ==
  ASSUME TypeOK, StacksAgree
  PROVE  /\ Len(pointers) \in DOMAIN pointers /\ Len(pointers) \in Nat \ {0}
         /\ Back = pointers[Len(pointers)] /\ Back \in Nat \ {0}
         /\ DOMAIN stack = 1 .. Len(pointers) - 1
         /\ DOMAIN pointers = 1 .. Len(pointers)
         /\ \A i \in DOMAIN pointers : i \in Nat /\ pointers[i] \in Nat \ {0}
         /\ \A i \in DOMAIN stack : i \in DOMAIN pointers /\ i + 1 \in DOMAIN pointers
         /\ \A i \in DOMAIN pointers : i # 1 => i - 1 \in DOMAIN stack
         /\ Len(stack) \in Nat
         /\ stack # <<>> =>
              /\ Len(stack) \in DOMAIN stack /\ Top = stack[Len(stack)]
              /\ Top \in Frames
<1>1. /\ stack \in Seq(Frames) /\ pointers \in Seq(Nat \ {0})
      /\ Len(pointers) = Len(stack) + 1
  BY DEF TypeOK, StacksAgree
<1>2. /\ Len(stack) \in Nat /\ Len(pointers) \in Nat \ {0}
      /\ DOMAIN stack = 1 .. Len(pointers) - 1
      /\ DOMAIN pointers = 1 .. Len(pointers)
  BY <1>1
<1>3. \A i \in DOMAIN pointers : i \in Nat /\ pointers[i] \in Nat \ {0}
  BY <1>1, <1>2
<1>4. stack # <<>> => Len(stack) \in DOMAIN stack /\ Top = stack[Len(stack)] /\ Top \in Frames
  BY <1>1 DEF Top
<1>5. Len(pointers) \in DOMAIN pointers
  BY <1>2
<1>6. Back = pointers[Len(pointers)]
  BY DEF Back
<1>7. QED BY <1>2, <1>3, <1>4, <1>5, <1>6

LEMMA PopFacts ==
  ASSUME NEW S, NEW seq \in Seq(S), seq # <<>>
  PROVE  /\ Pop(seq) \in Seq(S)
         /\ Len(Pop(seq)) = Len(seq) - 1
         /\ DOMAIN Pop(seq) = 1 .. Len(seq) - 1
         /\ \A i \in 1 .. Len(seq) - 1 : Pop(seq)[i] = seq[i]
<1>1. Len(seq) \in Nat \ {0}
  OBVIOUS
<1>2. QED BY <1>1 DEF Pop

LEMMA AppendFacts ==
  ASSUME NEW S, NEW seq \in Seq(S), NEW e \in S
  PROVE  /\ Append(seq, e) \in Seq(S)
         /\ Len(Append(seq, e)) = Len(seq) + 1
         /\ DOMAIN Append(seq, e) = 1 .. Len(seq) + 1
         /\ \A i \in 1 .. Len(seq) : Append(seq, e)[i] = seq[i]
         /\ Append(seq, e)[Len(seq) + 1] = e
OBVIOUS

LEMMA ExceptFacts ==
  ASSUME NEW S, NEW seq \in Seq(S), NEW k \in DOMAIN seq, NEW e \in S
  PROVE  /\ [seq EXCEPT ![k] = e] \in Seq(S)
         /\ Len([seq EXCEPT ![k] = e]) = Len(seq)
         /\ DOMAIN [seq EXCEPT ![k] = e] = DOMAIN seq
         /\ \A i \in DOMAIN seq : [seq EXCEPT ![k] = e][i] = IF i = k THEN e ELSE seq[i]
OBVIOUS

\* A container's slots are numbered from its first.
LEMMA ContainerFacts ==
  ASSUME TypeOK, StacksAgree, NEW i \in DOMAIN stack
  PROVE  /\ pointers[i] \in DOMAIN objects
         /\ objects[pointers[i]] \in Objects
         /\ FirstOf(i + 1) = objects[pointers[i]].first
         /\ LastOf(i + 1) = objects[pointers[i]].first
              + (IF stack[i].is = "ARRAY_ITEM" THEN objects[pointers[i]].size
                 ELSE 2 * objects[pointers[i]].size) - 1
         /\ stack[i].rest \in Nat \ {0} /\ stack[i].rest <= objects[pointers[i]].size
         /\ pointers[i + 1] = objects[pointers[i]].first + Taken(stack[i], objects[pointers[i]].size)
<1>1. i \in Nat \ {0} /\ i + 1 # 1 /\ (i + 1) - 1 = i
  <2>1. i \in Nat \ {0}
    BY DEF TypeOK
  <2>2. QED BY <2>1
<1>2. pointers[i] \in DOMAIN objects /\ objects[pointers[i]] \in Objects
  BY DEF StacksAgree, TypeOK
<1>3. objects[pointers[i]].type = IF stack[i].is = "ARRAY_ITEM" THEN "ARRAY" ELSE "MAP"
  BY DEF StacksAgree
<1>4. stack[i].rest \in Nat \ {0}
  <2>1. stack[i] \in Frames
    BY DEF TypeOK
  <2>2. QED BY <2>1 DEF Frames
<1>5. QED BY <1>1, <1>2, <1>3, <1>4 DEF StacksAgree, FirstOf, LastOf, Slots

\* While a value is read, the slot on top is allocated and empty.
LEMMA FreshBack ==
  ASSUME IInv, Reading
  PROVE  Back \in 1 .. allocated /\ Back \notin DOMAIN objects
<1>1. pc # "done" /\ Len(pointers) \in DOMAIN pointers /\ Back = pointers[Len(pointers)] /\ Back \in Nat \ {0}
  BY TopFacts DEF IInv, Reading
<1>2. Back <= LastOf(Len(pointers)) /\ LastOf(Len(pointers)) <= allocated
  BY <1>1 DEF IInv, Blocks
<1>3. LastOf(Len(pointers)) \in Int
  <2>1. CASE Len(pointers) = 1
    BY <2>1 DEF LastOf
  <2>2. CASE Len(pointers) # 1
    <3>1. Len(pointers) - 1 \in DOMAIN stack /\ Len(pointers) \in Nat
      BY <1>1, <2>2, TopFacts DEF IInv
    <3>2. (Len(pointers) - 1) + 1 = Len(pointers)
      BY <3>1
    <3>3. QED BY <3>1, <3>2, ContainerFacts DEF IInv, Objects
  <2>3. QED BY <2>1, <2>2
<1>4. Back \in 1 .. allocated
  BY <1>1, <1>2, <1>3 DEF IInv, TypeOK
<1>5. Awaits(Len(pointers), Back)
  BY <1>1, <1>2 DEF Awaits
<1>6. QED BY <1>1, <1>4, <1>5 DEF IInv, Exact

\* Blocks have numbers for bounds.
LEMMA BoundsType ==
  ASSUME TypeOK, StacksAgree, NEW i \in DOMAIN pointers
  PROVE  FirstOf(i) \in Int /\ LastOf(i) \in Int
<1>1. CASE i = 1
  BY <1>1 DEF FirstOf, LastOf
<1>2. CASE i # 1
  <2>1. i - 1 \in DOMAIN stack /\ i \in Nat
    BY <1>2, TopFacts
  <2>2. (i - 1) + 1 = i
    BY <2>1
  <2>3. QED BY <2>1, <2>2, ContainerFacts DEF Objects
<1>3. QED BY <1>1, <1>2
----------------------------------------------------------------------------
(***************************************************************************)
(* Steps.                                                                  *)
(***************************************************************************)

\* A write to the slot on top leaves every object there is.
LEMMA WriteEffect ==
  ASSUME IInv, Reading, NEW object, Write(object)
  PROVE  /\ DOMAIN objects' = DOMAIN objects \cup {Back}
         /\ objects'[Back] = object
         /\ \A a \in DOMAIN objects : objects'[a] = objects[a]
BY FreshBack DEF Write

\* A step that leaves the stack of pointers, and what was there of objects,
\* leaves the blocks.
LEMMA SameBlocks ==
  ASSUME TypeOK, StacksAgree, NEW i \in DOMAIN pointers,
         \A k \in DOMAIN stack : pointers'[k] = pointers[k],
         \A a \in DOMAIN objects : objects'[a] = objects[a]
  PROVE  FirstOf(i)' = FirstOf(i) /\ LastOf(i)' = LastOf(i)
<1>1. CASE i = 1
  BY <1>1 DEF FirstOf, LastOf
<1>2. CASE i # 1
  <2>1. i - 1 \in DOMAIN stack
    BY <1>2, TopFacts
  <2>2. pointers[i - 1] \in DOMAIN objects
    BY <2>1 DEF StacksAgree
  <2>3. objects'[pointers'[i - 1]] = objects[pointers[i - 1]]
    BY <2>1, <2>2
  <2>4. QED BY <1>2, <2>3 DEF FirstOf, LastOf, Slots
<1>3. QED BY <1>1, <1>2

\* A step that only moves within a value.
LEMMA ReadOnPreserves ==
  ASSUME IInv, pc \in {"start", "header", "trail"},
         UNCHANGED <<data, stack, pointers, allocated, objects>>,
         pc' \in {"header", "trail"}, UNCHANGED outcome,
         current' \in 1 .. Len(data) + 1, current' >= current,
         pc' = "header" => current' # Len(data) + 1,
         cs' \in {"HEADER"} \cup Numbers \cup Lengths \cup Values \cup Containers,
         trail' \in Nat,
         pc' = "trail" => trail' # 0,
         pc' = "trail" /\ cs' \in Lengths \cup Containers => trail' \in {1, 2, 4}
  PROVE  IInv'
<1>1. Len(data) \in Nat
  BY DEF IInv, TypeOK
<1>2. TypeOK'
  BY <1>1 DEF IInv, TypeOK
<1>3. WithinMessage'
  <2> SUFFICES ASSUME NEW a \in DOMAIN objects, objects[a].type \in Scalars
               PROVE  objects[a].first + objects[a].size
                        - (IF objects[a].type = "EXT" THEN 0 ELSE 1) <= current'
    BY DEF WithinMessage
  <2>1. objects[a].first \in Nat /\ objects[a].size \in Nat /\ current \in Int /\ current' \in Int
    BY <1>1 DEF IInv, TypeOK, Objects
  <2>2. QED BY <2>1 DEF IInv, WithinMessage
<1>4. Control'
  BY DEF IInv, Control
<1>5. StacksAgree'
  BY DEF IInv, StacksAgree
<1>6. \A i \in DOMAIN pointers : FirstOf(i)' = FirstOf(i) /\ LastOf(i)' = LastOf(i)
  BY SameBlocks DEF IInv
<1>7. Blocks'
  BY <1>6 DEF IInv, Blocks
<1>8. \A i \in DOMAIN pointers, a \in 1 .. allocated : Awaits(i, a)' <=> Awaits(i, a)
  BY <1>6 DEF Awaits, Reading
<1>9. Exact'
  BY <1>8 DEF IInv, Exact
<1>10. QED BY <1>2, <1>3, <1>4, <1>5, <1>7, <1>9 DEF IInv

\* A step that gives up.
LEMMA EndPreserves ==
  ASSUME IInv, UNCHANGED <<data, current, cs, trail, stack, pointers, allocated, objects>>,
         NEW result \in {"insufficient_bytes", "parse_error"}, End(result)
  PROVE  IInv'
<1>1. TypeOK'
  BY DEF IInv, TypeOK, End, Outcomes
<1>2. WithinMessage' /\ StacksAgree'
  BY DEF IInv, WithinMessage, StacksAgree
<1>3. Control' /\ Exact'
  BY DEF Control, Exact, End, Accepted
<1>4. Blocks'
  <2>1. \A i \in DOMAIN pointers : FirstOf(i)' = FirstOf(i) /\ LastOf(i)' = LastOf(i)
    BY SameBlocks DEF IInv
  <2>2. QED BY <2>1 DEF IInv, Blocks
<1>5. QED BY <1>1, <1>2, <1>3, <1>4 DEF IInv

\* A visit of a value that ends at a byte of the message.
LEMMA VisitPreserves ==
  ASSUME IInv, pc \in {"header", "trail"},
         NEW object \in Objects, NEW last \in 1 .. Len(data), current <= last,
         object.type \in Scalars =>
           object.first + object.size - (IF object.type = "EXT" THEN 0 ELSE 1) <= last,
         Visit(object, last)
  PROVE  IInv'
<1>1. /\ DOMAIN objects' = DOMAIN objects \cup {Back} /\ objects'[Back] = object
      /\ \A a \in DOMAIN objects : objects'[a] = objects[a]
      /\ Back \in 1 .. allocated /\ Back \notin DOMAIN objects
  BY WriteEffect, FreshBack DEF Visit, Reading
<1>2. /\ UNCHANGED <<data, cs, trail, stack, pointers, allocated, outcome>>
      /\ current' = last /\ pc' = "consume"
  BY DEF Visit
<1>3. Len(data) \in Nat
  BY DEF IInv, TypeOK
<1>4. TypeOK'
  BY <1>1, <1>2, <1>3 DEF IInv, TypeOK
<1>5. WithinMessage'
  <2> SUFFICES ASSUME NEW a \in DOMAIN objects', objects'[a].type \in Scalars
               PROVE  objects'[a].first + objects'[a].size
                        - (IF objects'[a].type = "EXT" THEN 0 ELSE 1) <= last
    BY <1>2 DEF WithinMessage
  <2>1. CASE a = Back
    BY <1>1, <2>1
  <2>2. CASE a # Back
    <3>1. a \in DOMAIN objects /\ objects'[a] = objects[a]
      BY <1>1, <2>2
    <3>2. objects[a].first \in Nat /\ objects[a].size \in Nat /\ current \in Int /\ last \in Int
      BY <1>3, <3>1 DEF IInv, TypeOK, Objects
    <3>3. QED BY <3>1, <3>2 DEF IInv, WithinMessage
  <2>3. QED BY <2>1, <2>2
<1>6. Control'
  BY <1>2 DEF IInv, Control
<1>7. StacksAgree'
  BY <1>1, <1>2 DEF IInv, StacksAgree
<1>8. \A i \in DOMAIN pointers : FirstOf(i)' = FirstOf(i) /\ LastOf(i)' = LastOf(i)
  BY <1>1, <1>2, SameBlocks DEF IInv
<1>9. Blocks'
  BY <1>2, <1>8 DEF IInv, Blocks
<1>10. Exact'
  <2>1. \A i \in DOMAIN pointers, a \in 1 .. allocated :
          Awaits(i, a)' <=> (a <= LastOf(i) /\ pointers[i] < a)
    BY <1>2, <1>8 DEF Awaits, Reading
  <2>2. \A i \in DOMAIN pointers, a \in 1 .. allocated :
          a # Back => (Awaits(i, a)' <=> Awaits(i, a))
    BY <2>1, TopFacts DEF IInv, Awaits
  <2>3. \A i \in DOMAIN pointers : ~(Back <= LastOf(i) /\ pointers[i] < Back)
    <3> SUFFICES ASSUME NEW i \in DOMAIN pointers, Back <= LastOf(i), pointers[i] < Back
                 PROVE  FALSE
      OBVIOUS
    <3>1. i \in Nat /\ i # Len(pointers) /\ i < Len(pointers) /\ Back = pointers[Len(pointers)]
      BY TopFacts DEF IInv
    <3>2. LastOf(i) < FirstOf(Len(pointers)) /\ FirstOf(Len(pointers)) <= Back
      BY <3>1, TopFacts DEF IInv, Blocks
    <3>3. TypeOK /\ StacksAgree
      BY DEF IInv
    <3>4. Len(pointers) \in DOMAIN pointers /\ Back \in Nat
      BY <3>3, TopFacts
    <3>5. LastOf(i) \in Int /\ FirstOf(Len(pointers)) \in Int
      BY <3>3, <3>4, BoundsType
    <3>6. QED BY <3>2, <3>4, <3>5
  <2>4. \A a \in 1 .. allocated :
          a \in DOMAIN objects <=> ~ \E i \in DOMAIN pointers : Awaits(i, a)
    BY DEF IInv, Exact
  <2>5. \A a \in 1 .. allocated :
          a \in DOMAIN objects' <=> ~ \E i \in DOMAIN pointers : Awaits(i, a)'
    BY <1>1, <2>1, <2>2, <2>3, <2>4
  <2>6. QED BY <1>2, <2>5 DEF Exact
<1>11. QED BY <1>4, <1>5, <1>6, <1>7, <1>9, <1>10 DEF IInv

\* The end of an iteration.
LEMMA IterateFacts ==
  ASSUME IInv, pc # "done", data' = data, NEW last \in 1 .. Len(data), current <= last,
         Iterate(last + 1)
  PROVE  /\ current' = last + 1 /\ current' \in 1 .. Len(data) + 1 /\ cs' = "HEADER"
         /\ current < current'
         /\ \/ pc' = "header" /\ outcome' = NoOutcome /\ current' \in 1 .. Len(data)
            \/ pc' = "done" /\ outcome' = "insufficient_bytes"
<1>1. Len(data) \in Nat /\ current \in Int /\ outcome = NoOutcome
  BY DEF IInv, TypeOK, Control
<1>2. CASE last + 1 = pe
  BY <1>1, <1>2 DEF Iterate, End, pe
<1>3. CASE last + 1 # pe
  BY <1>1, <1>3 DEF Iterate, pe
<1>4. QED BY <1>2, <1>3

\* An array or a map with elements is opened.
LEMMA PushPreserves ==
  ASSUME IInv, pc \in {"header", "trail"},
         NEW type \in Containers, NEW n \in Nat \ {0},
         NEW last \in 1 .. Len(data), current <= last,
         StartAggregate(type, n, last)
  PROVE  IInv'
<1> DEFINE object == Object(type, allocated + 1, n)
<1>m. PICK m \in Nat : m = Len(pointers)
  BY TopFacts DEF IInv
<1> DEFINE frame == [is |-> IF type = "MAP" THEN "MAP_KEY" ELSE "ARRAY_ITEM", rest |-> n]
<1> DEFINE taken == Slots(type, n)
<1>1. /\ Write(object) /\ allocated' = allocated + taken
      /\ stack' = Append(stack, frame) /\ pointers' = Append(pointers, allocated + 1)
      /\ Iterate(last + 1) /\ data' = data /\ trail' = trail
  BY DEF StartAggregate
<1>2. /\ DOMAIN objects' = DOMAIN objects \cup {Back} /\ objects'[Back] = object
      /\ \A a \in DOMAIN objects : objects'[a] = objects[a]
      /\ Back \in 1 .. allocated /\ Back \notin DOMAIN objects
  BY <1>1, WriteEffect, FreshBack DEF Reading
<1>3. /\ current' = last + 1 /\ current' \in 1 .. Len(data) + 1 /\ cs' = "HEADER"
      /\ current < current'
      /\ \/ pc' = "header" /\ outcome' = NoOutcome /\ current' \in 1 .. Len(data)
         \/ pc' = "done" /\ outcome' = "insufficient_bytes"
  BY <1>1, IterateFacts
<1>4. /\ taken \in Nat \ {0} /\ allocated \in Nat \ {0} /\ allocated' \in Nat \ {0}
      /\ allocated < allocated'
  <2>1. taken \in Nat \ {0}
    BY DEF Slots
  <2>2. QED BY <1>1, <2>1 DEF IInv, TypeOK
<1>5. /\ m \in Nat \ {0} /\ Back = pointers[m] /\ DOMAIN pointers = 1 .. m
      /\ DOMAIN stack = 1 .. m - 1 /\ Len(stack) = m - 1
      /\ \A i \in DOMAIN pointers : pointers[i] \in Nat \ {0}
  BY <1>m, TopFacts DEF IInv, StacksAgree
<1>6. /\ Len(pointers') = m + 1 /\ DOMAIN pointers' = 1 .. m + 1
      /\ \A i \in 1 .. m : pointers'[i] = pointers[i]
      /\ pointers'[m + 1] = allocated + 1
      /\ Len(stack') = m /\ DOMAIN stack' = 1 .. m
      /\ \A i \in 1 .. m - 1 : stack'[i] = stack[i]
      /\ stack'[m] = frame
  <2>1. frame \in Frames /\ allocated + 1 \in Nat \ {0}
    BY <1>4 DEF Frames
  <2>2. stack \in Seq(Frames) /\ pointers \in Seq(Nat \ {0})
    BY DEF IInv, TypeOK
  <2> HIDE DEF frame
  <2>3. Len(stack) + 1 = m
    BY <1>5
  <2>4. QED BY <1>m, <1>1, <1>5, <2>1, <2>2, <2>3, AppendFacts
<1>7. TypeOK'
  <2>1. object \in Objects
    BY <1>4 DEF Object, Objects
  <2>2. frame \in Frames /\ frame.rest = n
    BY DEF Frames
  <2>3. stack' \in Seq(Frames) /\ pointers' \in Seq(Nat \ {0})
    BY <1>1, <1>4, <2>2 DEF IInv, TypeOK
  <2>4. /\ DOMAIN objects' \subseteq 1 .. allocated'
        /\ \A a \in DOMAIN objects' : objects'[a] \in Objects
    BY <1>2, <1>4, <2>1 DEF IInv, TypeOK
  <2>5. QED BY <1>1, <1>3, <1>4, <2>3, <2>4 DEF IInv, TypeOK, Outcomes
<1>8. WithinMessage'
  <2> SUFFICES ASSUME NEW a \in DOMAIN objects', objects'[a].type \in Scalars
               PROVE  objects'[a].first + objects'[a].size
                        - (IF objects'[a].type = "EXT" THEN 0 ELSE 1) <= current'
    BY DEF WithinMessage
  <2>1. a # Back
    BY <1>2 DEF Object, Scalars, Containers
  <2>2. a \in DOMAIN objects /\ objects'[a] = objects[a]
    BY <1>2, <2>1
  <2>3. objects[a].first \in Nat /\ objects[a].size \in Nat /\ current \in Int /\ current' \in Int
    BY <1>3, <2>2 DEF IInv, TypeOK, Objects
  <2>4. QED BY <1>3, <2>2, <2>3 DEF IInv, WithinMessage
<1>9. Control'
  BY <1>3 DEF Control, Accepted, Lengths, Containers, NoOutcome
<1>10. StacksAgree'
  <2>1. ASSUME NEW i \in 1 .. m - 1
        PROVE  /\ pointers'[i] \in DOMAIN objects' /\ objects'[pointers'[i]] = objects[pointers[i]]
               /\ pointers'[i + 1] = pointers[i + 1] /\ stack'[i] = stack[i]
    BY <1>2, <1>5, <1>6 DEF IInv, StacksAgree
  <2>2. /\ pointers'[m] \in DOMAIN objects' /\ objects'[pointers'[m]] = object
        /\ pointers'[m + 1] = allocated + 1
    BY <1>2, <1>5, <1>6
  <2>3. /\ object.type = IF frame.is = "ARRAY_ITEM" THEN "ARRAY" ELSE "MAP"
        /\ frame.rest <= object.size
        /\ allocated + 1 = object.first + Taken(frame, object.size)
    BY <1>4 DEF Object, Taken, Containers
  <2>4. QED
    <3> SUFFICES ASSUME NEW i \in 1 .. m
                 PROVE  /\ pointers'[i] \in DOMAIN objects'
                        /\ objects'[pointers'[i]].type =
                             IF stack'[i].is = "ARRAY_ITEM" THEN "ARRAY" ELSE "MAP"
                        /\ stack'[i].rest <= objects'[pointers'[i]].size
                        /\ pointers'[i + 1] = objects'[pointers'[i]].first
                             + Taken(stack'[i], objects'[pointers'[i]].size)
      BY <1>6 DEF StacksAgree, Taken
    <3>1. CASE i = m
      BY <1>6, <2>2, <2>3, <3>1
    <3>2. CASE i # m
      <4>1. i \in 1 .. m - 1 /\ i \in DOMAIN stack
        BY <1>5, <3>2
      <4>2. QED BY <2>1, <4>1 DEF IInv, StacksAgree
    <3>3. QED BY <3>1, <3>2
<1>11. \A i \in 1 .. m : FirstOf(i)' = FirstOf(i) /\ LastOf(i)' = LastOf(i)
  <2>1. \A k \in DOMAIN stack : pointers'[k] = pointers[k]
    BY <1>5, <1>6
  <2>2. TypeOK /\ StacksAgree /\ \A i \in 1 .. m : i \in DOMAIN pointers
    BY <1>5 DEF IInv
  <2>3. QED BY <1>2, <2>1, <2>2, SameBlocks
<1>12. FirstOf(m + 1)' = allocated + 1 /\ LastOf(m + 1)' = allocated'
  <2>1. m + 1 # 1 /\ (m + 1) - 1 = m
    BY <1>5
  <2>2. objects'[pointers'[m]] = object
    BY <1>2, <1>5, <1>6
  <2>3. object.type = type /\ object.first = allocated + 1 /\ object.size = n
    BY DEF Object
  <2>4. LastOf(m + 1)' = allocated + 1 + taken - 1
    BY <2>1, <2>2, <2>3 DEF LastOf, Slots
  <2>5. FirstOf(m + 1)' = allocated + 1
    BY <2>1, <2>2, <2>3 DEF FirstOf
  <2>6. QED BY <1>1, <1>4, <2>4, <2>5
<1>13. \A i \in 1 .. m : FirstOf(i) \in Int /\ LastOf(i) \in Int
  BY <1>5, BoundsType DEF IInv
<1>14. \A i \in 1 .. m :
         FirstOf(i) <= pointers[i] /\ pointers[i] <= LastOf(i) /\ LastOf(i) <= allocated
  BY <1>5 DEF IInv, Blocks
<1>15. Blocks'
  <2>1. \A i \in 1 .. m + 1 :
          FirstOf(i)' <= pointers'[i] /\ pointers'[i] <= LastOf(i)' /\ LastOf(i)' <= allocated'
    <3> SUFFICES ASSUME NEW i \in 1 .. m + 1
                 PROVE  FirstOf(i)' <= pointers'[i] /\ pointers'[i] <= LastOf(i)' /\ LastOf(i)' <= allocated'
      OBVIOUS
    <3>1. CASE i = m + 1
      BY <1>4, <1>6, <1>12, <3>1
    <3>2. CASE i # m + 1
      <4>1. i \in 1 .. m
        BY <1>5, <3>2
      <4>2. /\ FirstOf(i) <= pointers[i] /\ pointers[i] <= LastOf(i) /\ LastOf(i) <= allocated
            /\ LastOf(i) \in Int
        BY <1>13, <1>14, <4>1
      <4>3. LastOf(i) <= allocated'
        BY <1>4, <4>2
      <4>4. QED BY <1>6, <1>11, <4>1, <4>2, <4>3
    <3>3. QED BY <3>1, <3>2
  <2>2. \A i, j \in 1 .. m + 1 : i < j => LastOf(i)' < FirstOf(j)'
    <3> SUFFICES ASSUME NEW i \in 1 .. m + 1, NEW j \in 1 .. m + 1, i < j
                 PROVE  LastOf(i)' < FirstOf(j)'
      OBVIOUS
    <3>1. i \in 1 .. m
      BY <1>5
    <3>2. CASE j = m + 1
      BY <1>4, <1>11, <1>12, <1>13, <1>14, <3>1, <3>2
    <3>3. CASE j # m + 1
      <4>1. j \in 1 .. m
        BY <1>5, <3>3
      <4>2. QED BY <1>5, <1>11, <3>1, <4>1 DEF IInv, Blocks
    <3>4. QED BY <3>2, <3>3
  <2>3. QED BY <1>6, <2>1, <2>2 DEF Blocks
<1>16. Exact'
  <2> SUFFICES ASSUME pc' = "header", NEW a \in 1 .. allocated'
               PROVE  a \in DOMAIN objects' <=> ~ \E i \in DOMAIN pointers' : Awaits(i, a)'
    BY <1>3 DEF Exact, Accepted
  <2>1. /\ \A i \in 1 .. m : Awaits(i, a)' <=> (a <= LastOf(i) /\ pointers[i] < a)
        /\ Awaits(m + 1, a)' <=> (a <= allocated' /\ allocated + 1 <= a)
    BY <1>4, <1>5, <1>6, <1>11, <1>12 DEF Awaits, Reading
  <2>2. CASE a > allocated
    <3>1. a \notin DOMAIN objects'
      BY <1>2, <1>4, <2>2 DEF IInv, TypeOK
    <3>2. Awaits(m + 1, a)'
      BY <1>4, <2>1, <2>2
    <3>3. QED BY <1>5, <1>6, <3>1, <3>2
  <2>3. CASE a <= allocated
    <3>1. a \in 1 .. allocated /\ ~Awaits(m + 1, a)'
      BY <1>4, <2>1, <2>3
    <3>2. a \in DOMAIN objects <=> ~ \E i \in 1 .. m : Awaits(i, a)
      BY <1>5, <3>1 DEF IInv, Exact
    <3>3. CASE a # Back
      <4>1. \A i \in 1 .. m : Awaits(i, a)' <=> Awaits(i, a)
        BY <1>5, <2>1, <3>3 DEF Awaits
      <4>2. QED BY <1>2, <1>5, <1>6, <3>1, <3>2, <3>3, <4>1
    <3>4. CASE a = Back
      <4>1. ASSUME NEW i \in 1 .. m, Back <= LastOf(i), pointers[i] < Back
            PROVE  FALSE
        <5>1. i < m
          BY <1>5, <4>1
        <5>2. LastOf(i) < FirstOf(m) /\ FirstOf(m) <= Back
          BY <1>5, <5>1 DEF IInv, Blocks
        <5>3. Back \in Int /\ m \in 1 .. m
          BY <1>5
        <5>4. QED BY <1>13, <4>1, <5>2, <5>3
      <4>2. \A i \in 1 .. m : ~Awaits(i, a)'
        BY <2>1, <3>4, <4>1
      <4>3. QED BY <1>2, <1>5, <1>6, <3>1, <3>4, <4>2
    <3>5. QED BY <3>3, <3>4
  <2>4. QED BY <1>4, <2>2, <2>3
<1>17. QED BY <1>7, <1>8, <1>9, <1>10, <1>15, <1>16 DEF IInv

\* The last element closes its container: the pointer that goes was at the end
\* of its block.
LEMMA EndAggregatePreserves ==
  ASSUME IInv, EndAggregate
  PROVE  IInv'
<1>m. PICK m \in Nat : m = Len(pointers)
  BY TopFacts DEF IInv
<1>1. /\ m \in Nat \ {0, 1} /\ DOMAIN pointers = 1 .. m /\ DOMAIN stack = 1 .. m - 1
      /\ Len(stack) = m - 1 /\ Top = stack[m - 1] /\ Top \in Frames
      /\ \A i \in 1 .. m : pointers[i] \in Nat \ {0}
  <2>1. stack # <<>>
    BY DEF EndAggregate
  <2>2. /\ Len(stack) \in DOMAIN stack /\ Top = stack[Len(stack)] /\ Top \in Frames
        /\ DOMAIN pointers = 1 .. m /\ DOMAIN stack = 1 .. m - 1
        /\ \A i \in 1 .. m : pointers[i] \in Nat \ {0}
    BY <1>m, <2>1, TopFacts DEF IInv
  <2>3. Len(stack) \in Nat \ {0} /\ Len(stack) + 1 = m
    BY <1>m, <2>2 DEF IInv, StacksAgree, TypeOK
  <2>4. m \in Nat \ {0, 1} /\ Len(stack) = m - 1
    BY <2>3
  <2>5. QED BY <2>2, <2>4
<1>2. /\ pc = "consume" /\ Top.is # "MAP_KEY" /\ Top.rest = 1
      /\ stack' = Pop(stack) /\ pointers' = Pop(pointers)
      /\ UNCHANGED <<data, pc, current, cs, trail, allocated, objects, outcome>>
  BY DEF EndAggregate
<1>3. stack \in Seq(Frames) /\ pointers \in Seq(Nat \ {0}) /\ stack # <<>> /\ pointers # <<>>
  BY <1>m, <1>1 DEF IInv, TypeOK
<1>4. /\ stack' \in Seq(Frames) /\ pointers' \in Seq(Nat \ {0})
      /\ Len(pointers') = m - 1 /\ DOMAIN pointers' = 1 .. m - 1
      /\ \A i \in 1 .. m - 1 : pointers'[i] = pointers[i]
      /\ Len(stack') = m - 2 /\ DOMAIN stack' = 1 .. m - 2
      /\ \A i \in 1 .. m - 2 : stack'[i] = stack[i]
  <2>1. Len(stack) - 1 = m - 2
    BY <1>1
  <2>2. QED BY <1>m, <1>1, <1>2, <1>3, <2>1, PopFacts
<1>5. TypeOK'
  BY <1>2, <1>4 DEF IInv, TypeOK
<1>6. WithinMessage' /\ Control'
  BY <1>2 DEF IInv, WithinMessage, Control, Accepted, NoOutcome
<1>7. StacksAgree'
  <2>1. Len(pointers') = Len(stack') + 1
    BY <1>1, <1>4
  <2>2. \A i \in 1 .. m - 2 :
          /\ i \in DOMAIN stack /\ pointers'[i] = pointers[i] /\ pointers'[i + 1] = pointers[i + 1]
          /\ stack'[i] = stack[i]
    BY <1>1, <1>4
  <2>3. \A i \in 1 .. m - 2 :
          /\ pointers[i] \in DOMAIN objects
          /\ objects[pointers[i]].type = IF stack[i].is = "ARRAY_ITEM" THEN "ARRAY" ELSE "MAP"
          /\ stack[i].rest <= objects[pointers[i]].size
          /\ pointers[i + 1] = objects[pointers[i]].first + Taken(stack[i], objects[pointers[i]].size)
    BY <2>2 DEF IInv, StacksAgree
  <2>4. \A i \in 1 .. m - 2 :
          /\ pointers'[i] \in DOMAIN objects'
          /\ objects'[pointers'[i]].type = IF stack'[i].is = "ARRAY_ITEM" THEN "ARRAY" ELSE "MAP"
          /\ stack'[i].rest <= objects'[pointers'[i]].size
          /\ pointers'[i + 1] = objects'[pointers'[i]].first
               + Taken(stack'[i], objects'[pointers'[i]].size)
    BY <1>2, <2>2, <2>3
  <2>5. QED BY <1>4, <2>1, <2>4 DEF StacksAgree, Taken
<1>8. \A i \in 1 .. m - 1 : FirstOf(i)' = FirstOf(i) /\ LastOf(i)' = LastOf(i)
  <2>1. \A i \in 1 .. m - 1 : i # 1 => pointers'[i - 1] = pointers[i - 1]
    BY <1>1, <1>4
  <2>2. QED BY <1>2, <2>1 DEF FirstOf, LastOf, Slots
<1>9. Blocks'
  <2>1. \A i \in 1 .. m - 1 : i \in DOMAIN pointers
    BY <1>1
  <2>2. QED BY <1>2, <1>4, <1>8, <2>1 DEF IInv, Blocks
<1>10. pointers[m] = LastOf(m)
  <2>1. m - 1 \in DOMAIN stack /\ (m - 1) + 1 = m
    BY <1>1
  <2>2. PICK container : container = objects[pointers[m - 1]]
    OBVIOUS
  <2>3. /\ container.first \in Nat /\ container.size \in Nat
        /\ LastOf(m) = container.first
             + (IF Top.is = "ARRAY_ITEM" THEN container.size ELSE 2 * container.size) - 1
        /\ pointers[m] = container.first + Taken(Top, container.size)
    BY <1>1, <2>1, <2>2, ContainerFacts DEF IInv, Objects
  <2>4. Taken(Top, container.size) =
          IF Top.is = "ARRAY_ITEM" THEN container.size - 1 ELSE 2 * (container.size - 1) + 1
    BY <1>1, <1>2 DEF Taken, Frames
  <2>5. QED BY <2>3, <2>4
<1>11. Exact'
  <2> SUFFICES ASSUME NEW a \in 1 .. allocated
               PROVE  a \in DOMAIN objects <=> ~ \E i \in 1 .. m - 1 : Awaits(i, a)'
    BY <1>2, <1>4 DEF Exact
  <2>1. a \in DOMAIN objects <=> ~ \E i \in 1 .. m : Awaits(i, a)
    BY <1>1, <1>2 DEF IInv, Exact
  <2>2. \A i \in 1 .. m - 1 : Awaits(i, a)' <=> Awaits(i, a)
    BY <1>2, <1>4, <1>8 DEF Awaits, Reading
  <2>3. ~Awaits(m, a)
    BY <1>1, <1>2, <1>10 DEF Awaits, Reading
  <2>4. \A i \in 1 .. m : i = m \/ i \in 1 .. m - 1
    BY <1>1
  <2>5. QED BY <1>1, <2>1, <2>2, <2>3, <2>4
<1>12. QED BY <1>5, <1>6, <1>7, <1>9, <1>11 DEF IInv

\* Another element follows: its slot is the next of the block.
LEMMA NextElementPreserves ==
  ASSUME IInv, NextElement
  PROVE  IInv'
<1>m. PICK m \in Nat : m = Len(pointers)
  BY TopFacts DEF IInv
<1>1. /\ m \in Nat \ {0, 1} /\ DOMAIN pointers = 1 .. m /\ DOMAIN stack = 1 .. m - 1
      /\ Len(stack) = m - 1 /\ Top = stack[m - 1] /\ Top \in Frames
      /\ \A i \in 1 .. m : pointers[i] \in Nat \ {0}
  <2>1. stack # <<>>
    BY DEF NextElement
  <2>2. /\ Len(stack) \in DOMAIN stack /\ Top = stack[Len(stack)] /\ Top \in Frames
        /\ DOMAIN pointers = 1 .. m /\ DOMAIN stack = 1 .. m - 1
        /\ \A i \in 1 .. m : pointers[i] \in Nat \ {0}
    BY <1>m, <2>1, TopFacts DEF IInv
  <2>3. Len(stack) \in Nat \ {0} /\ Len(stack) + 1 = m
    BY <1>m, <2>2 DEF IInv, StacksAgree, TypeOK
  <2>4. m \in Nat \ {0, 1} /\ Len(stack) = m - 1
    BY <2>3
  <2>5. QED BY <2>2, <2>4
<1> DEFINE frame ==
      [is |-> CASE Top.is = "ARRAY_ITEM" -> "ARRAY_ITEM"
                [] Top.is = "MAP_KEY" -> "MAP_VALUE" [] Top.is = "MAP_VALUE" -> "MAP_KEY",
       rest |-> IF Top.is = "MAP_KEY" THEN Top.rest ELSE Top.rest - 1]
<1>2. /\ pc = "consume" /\ (Top.is = "MAP_KEY" \/ Top.rest > 1)
      /\ stack' = [stack EXCEPT ![m - 1] = frame]
      /\ pointers' = [pointers EXCEPT ![m] = pointers[m] + 1]
      /\ Iterate(current + 1)
      /\ UNCHANGED <<data, trail, allocated, objects>>
  BY <1>m, <1>1 DEF NextElement
<1>3. /\ current' = current + 1 /\ current' \in 1 .. Len(data) + 1 /\ cs' = "HEADER"
      /\ current < current'
      /\ \/ pc' = "header" /\ outcome' = NoOutcome /\ current' \in 1 .. Len(data)
         \/ pc' = "done" /\ outcome' = "insufficient_bytes"
  <2>1. current \in 1 .. Len(data) /\ current <= current
    BY <1>2 DEF IInv, TypeOK
  <2>2. QED BY <1>2, <2>1, IterateFacts
<1>4. frame \in Frames
  BY <1>1, <1>2 DEF Frames
<1>5. /\ stack' \in Seq(Frames) /\ pointers' \in Seq(Nat \ {0})
      /\ Len(pointers') = m /\ DOMAIN pointers' = 1 .. m
      /\ \A i \in 1 .. m - 1 : pointers'[i] = pointers[i]
      /\ pointers'[m] = pointers[m] + 1
      /\ Len(stack') = m - 1 /\ DOMAIN stack' = 1 .. m - 1
      /\ \A i \in 1 .. m - 2 : stack'[i] = stack[i]
      /\ stack'[m - 1] = frame
  <2>1. stack \in Seq(Frames) /\ pointers \in Seq(Nat \ {0}) /\ pointers[m] + 1 \in Nat \ {0}
    BY <1>1 DEF IInv, TypeOK
  <2> HIDE DEF frame
  <2>2. m \in DOMAIN pointers /\ m - 1 \in DOMAIN stack
    BY <1>1
  <2>3. /\ stack' \in Seq(Frames) /\ Len(stack') = m - 1 /\ DOMAIN stack' = 1 .. m - 1
        /\ \A i \in 1 .. m - 1 : stack'[i] = IF i = m - 1 THEN frame ELSE stack[i]
    BY <1>1, <1>2, <1>4, <2>1, <2>2, ExceptFacts
  <2>4. /\ pointers' \in Seq(Nat \ {0}) /\ Len(pointers') = m /\ DOMAIN pointers' = 1 .. m
        /\ \A i \in 1 .. m : pointers'[i] = IF i = m THEN pointers[m] + 1 ELSE pointers[i]
    BY <1>m, <1>1, <1>2, <2>1, <2>2, ExceptFacts
  <2>5. QED BY <1>1, <2>3, <2>4
<1>6. TypeOK'
  BY <1>2, <1>3, <1>5 DEF IInv, TypeOK, Outcomes
<1>7. WithinMessage'
  <2> SUFFICES ASSUME NEW a \in DOMAIN objects, objects[a].type \in Scalars
               PROVE  objects[a].first + objects[a].size
                        - (IF objects[a].type = "EXT" THEN 0 ELSE 1) <= current'
    BY <1>2 DEF WithinMessage
  <2>1. objects[a].first \in Nat /\ objects[a].size \in Nat /\ current \in Int /\ current' \in Int
    BY <1>3 DEF IInv, TypeOK, Objects
  <2>2. QED BY <1>3, <2>1 DEF IInv, WithinMessage
<1>8. Control'
  BY <1>3 DEF Control, Accepted, NoOutcome
<1>9. PICK container : container = objects[pointers[m - 1]]
  OBVIOUS
<1>10. /\ pointers[m - 1] \in DOMAIN objects
       /\ container.first \in Nat /\ container.size \in Nat
       /\ container.type = IF Top.is = "ARRAY_ITEM" THEN "ARRAY" ELSE "MAP"
       /\ Top.rest <= container.size
       /\ LastOf(m) = container.first
            + (IF Top.is = "ARRAY_ITEM" THEN container.size ELSE 2 * container.size) - 1
       /\ pointers[m] = container.first + Taken(Top, container.size)
  <2>1. m - 1 \in DOMAIN stack /\ (m - 1) + 1 = m
    BY <1>1
  <2>2. QED BY <1>1, <1>9, <2>1, ContainerFacts DEF IInv, Objects, StacksAgree
<1>11. /\ frame.rest <= container.size
       /\ container.type = IF frame.is = "ARRAY_ITEM" THEN "ARRAY" ELSE "MAP"
       /\ Taken(frame, container.size) = Taken(Top, container.size) + 1
  <2>1. Top.rest \in Nat \ {0} /\ Top.is \in {"ARRAY_ITEM", "MAP_KEY", "MAP_VALUE"}
    BY <1>1 DEF Frames
  <2>2. CASE Top.is = "ARRAY_ITEM"
    BY <1>2, <1>10, <2>1, <2>2 DEF Taken
  <2>3. CASE Top.is = "MAP_KEY"
    BY <1>2, <1>10, <2>1, <2>3 DEF Taken
  <2>4. CASE Top.is = "MAP_VALUE"
    BY <1>2, <1>10, <2>1, <2>4 DEF Taken
  <2>5. QED BY <2>1, <2>2, <2>3, <2>4
<1>12. pointers[m] + 1 <= LastOf(m)
  <2>1. Top.rest \in Nat \ {0} /\ Top.is \in {"ARRAY_ITEM", "MAP_KEY", "MAP_VALUE"}
    BY <1>1 DEF Frames
  <2>2. QED BY <1>2, <1>10, <2>1 DEF Taken
<1> HIDE DEF frame
<1>13. StacksAgree'
  <2>1. \A i \in 1 .. m - 2 :
          /\ i \in DOMAIN stack /\ pointers'[i] = pointers[i] /\ pointers'[i + 1] = pointers[i + 1]
          /\ stack'[i] = stack[i]
    BY <1>1, <1>5
  <2>2. /\ pointers'[m - 1] = pointers[m - 1]
        /\ pointers'[(m - 1) + 1] = container.first + Taken(frame, container.size)
    <3>1. (m - 1) + 1 = m /\ m - 1 \in 1 .. m - 1
      BY <1>1
    <3>2. Taken(Top, container.size) \in Int
      BY <1>1, <1>10 DEF Taken, Frames
    <3>3. pointers'[m] = container.first + (Taken(Top, container.size) + 1)
      BY <1>5, <1>10, <3>2
    <3>4. pointers'[(m - 1) + 1] = pointers'[m]
      BY <3>1
    <3>5. QED BY <1>5, <1>11, <3>1, <3>3, <3>4
  <2>3. ASSUME NEW i \in 1 .. m - 1
        PROVE  /\ pointers'[i] \in DOMAIN objects'
               /\ objects'[pointers'[i]].type = IF stack'[i].is = "ARRAY_ITEM" THEN "ARRAY" ELSE "MAP"
               /\ stack'[i].rest <= objects'[pointers'[i]].size
               /\ pointers'[i + 1] = objects'[pointers'[i]].first
                    + Taken(stack'[i], objects'[pointers'[i]].size)
    <3>1. CASE i = m - 1
      BY <1>2, <1>5, <1>9, <1>10, <1>11, <2>2, <3>1
    <3>2. CASE i # m - 1
      <4>1. i \in 1 .. m - 2
        BY <1>1, <3>2
      <4>2. /\ i \in DOMAIN stack /\ pointers'[i] = pointers[i] /\ pointers'[i + 1] = pointers[i + 1]
            /\ stack'[i] = stack[i] /\ objects' = objects
        BY <1>2, <2>1, <4>1
      <4>3. /\ pointers[i] \in DOMAIN objects
            /\ objects[pointers[i]].type = IF stack[i].is = "ARRAY_ITEM" THEN "ARRAY" ELSE "MAP"
            /\ stack[i].rest <= objects[pointers[i]].size
            /\ pointers[i + 1] = objects[pointers[i]].first
                 + Taken(stack[i], objects[pointers[i]].size)
        BY <4>2 DEF IInv, StacksAgree
      <4>4. QED BY <4>2, <4>3
    <3>3. QED BY <3>1, <3>2
  <2>4. Len(pointers') = Len(stack') + 1
    BY <1>1, <1>5
  <2>5. QED BY <1>5, <2>3, <2>4 DEF StacksAgree, Taken
<1>14. \A i \in 1 .. m : FirstOf(i)' = FirstOf(i) /\ LastOf(i)' = LastOf(i)
  <2>1. \A i \in 1 .. m : i # 1 => pointers'[i - 1] = pointers[i - 1]
    BY <1>1, <1>5
  <2>2. QED BY <1>2, <2>1 DEF FirstOf, LastOf, Slots
<1>15. Blocks'
  <2>1. ASSUME NEW i \in 1 .. m
        PROVE  FirstOf(i)' <= pointers'[i] /\ pointers'[i] <= LastOf(i)' /\ LastOf(i)' <= allocated'
    <3>1. /\ FirstOf(i) <= pointers[i] /\ pointers[i] <= LastOf(i) /\ LastOf(i) <= allocated
          /\ FirstOf(i) \in Int
      BY <1>1, BoundsType DEF IInv, Blocks
    <3>2. CASE i = m
      BY <1>1, <1>2, <1>5, <1>12, <1>14, <3>1, <3>2
    <3>3. CASE i # m
      <4>1. pointers'[i] = pointers[i]
        BY <1>1, <1>5, <3>3
      <4>2. QED BY <1>2, <1>14, <3>1, <4>1
    <3>4. QED BY <3>2, <3>3
  <2>2. \A i, j \in 1 .. m : i < j => LastOf(i)' < FirstOf(j)'
    BY <1>1, <1>14 DEF IInv, Blocks
  <2>3. QED BY <1>5, <2>1, <2>2 DEF Blocks
<1>16. Exact'
  <2> SUFFICES ASSUME pc' = "header", NEW a \in 1 .. allocated
               PROVE  a \in DOMAIN objects <=> ~ \E i \in 1 .. m : Awaits(i, a)'
    BY <1>2, <1>3, <1>5 DEF Exact, Accepted
  <2>1. a \in DOMAIN objects <=> ~ \E i \in 1 .. m : Awaits(i, a)
    BY <1>1, <1>2 DEF IInv, Exact
  <2>2. ASSUME NEW i \in 1 .. m
        PROVE  Awaits(i, a)' <=> Awaits(i, a)
    <3>1. Awaits(i, a) <=> (a <= LastOf(i) /\ pointers[i] < a)
      BY <1>2 DEF Awaits, Reading
    <3>2. CASE i = m
      <4>1. Awaits(i, a)' <=> (a <= LastOf(i) /\ (pointers[m] + 1 < a \/ pointers[m] + 1 = a))
        BY <1>5, <1>14, <3>2 DEF Awaits, Reading
      <4>2. QED BY <1>1, <3>1, <3>2, <4>1
    <3>3. CASE i # m
      <4>1. pointers'[i] = pointers[i]
        BY <1>1, <1>5, <3>3
      <4>2. QED BY <1>5, <1>14, <3>1, <3>3, <4>1 DEF Awaits
    <3>4. QED BY <3>2, <3>3
  <2>3. QED BY <2>1, <2>2
<1>17. QED BY <1>6, <1>7, <1>8, <1>13, <1>15, <1>16 DEF IInv

\* Nothing is open: every slot was written.
LEMMA FinishPreserves ==
  ASSUME IInv, Finish
  PROVE  IInv'
<1>1. /\ pc = "consume" /\ stack = <<>> /\ current' = current + 1 /\ cs' = "HEADER"
      /\ pc' = "done" /\ outcome' \in Accepted
      /\ UNCHANGED <<data, trail, stack, pointers, allocated, objects>>
  BY DEF Finish, End, Accepted
<1>2. current \in 1 .. Len(data) /\ Len(data) \in Nat
  BY <1>1 DEF IInv, TypeOK
<1>3. TypeOK'
  BY <1>1, <1>2 DEF IInv, TypeOK, Outcomes
<1>4. WithinMessage'
  <2> SUFFICES ASSUME NEW a \in DOMAIN objects, objects[a].type \in Scalars
               PROVE  objects[a].first + objects[a].size
                        - (IF objects[a].type = "EXT" THEN 0 ELSE 1) <= current + 1
    BY <1>1 DEF WithinMessage
  <2>1. objects[a].first \in Nat /\ objects[a].size \in Nat
    BY DEF IInv, TypeOK, Objects
  <2>2. QED BY <1>2, <2>1 DEF IInv, WithinMessage
<1>5. Control' /\ StacksAgree'
  BY <1>1 DEF IInv, Control, StacksAgree
<1>6. \A i \in DOMAIN pointers : FirstOf(i)' = FirstOf(i) /\ LastOf(i)' = LastOf(i)
  BY <1>1, SameBlocks DEF IInv
<1>7. Blocks'
  BY <1>1, <1>6 DEF IInv, Blocks
<1>8. \A i \in DOMAIN pointers, a \in 1 .. allocated : Awaits(i, a)' <=> Awaits(i, a)
  BY <1>1, <1>6 DEF Awaits, Reading
<1>9. Exact'
  BY <1>1, <1>8 DEF IInv, Exact
<1>10. QED BY <1>3, <1>4, <1>5, <1>7, <1>9 DEF IInv

----------------------------------------------------------------------------
(***************************************************************************)
(* Headers and values.                                                     *)
(***************************************************************************)

LEMMA TrailFacts ==
  ASSUME NEW byte \in WithTrail
  PROVE  /\ Trail(byte) \in Nat \ {0}
         /\ NextCs(byte) \in Numbers \cup Lengths \cup Containers
         /\ NextCs(byte) \in Lengths \cup Containers => Trail(byte) \in {1, 2, 4}
<1>1. byte - 195 \in 1 .. 28
  BY DEF WithTrail
<1>2. Trail(byte) \in Nat \ {0}
  BY <1>1 DEF Trail
<1>3. NextCs(byte) \in Numbers \cup Lengths \cup Containers
  BY DEF NextCs, Numbers, Lengths, Containers
<1>4. NextCs(byte) \in Lengths \cup Containers =>
        byte - 195 \in {1, 2, 3, 4, 5, 6, 22, 23, 24, 25, 26, 27, 28}
  BY DEF NextCs, Numbers, Lengths, Containers, WithTrail
<1>5. byte - 195 \in {1, 2, 3, 4, 5, 6, 22, 23, 24, 25, 26, 27, 28} => Trail(byte) \in {1, 2, 4}
  BY DEF Trail
<1>6. QED BY <1>2, <1>3, <1>4, <1>5

\* A number that is there whole is a number.
LEMMA LoadType ==
  ASSUME TypeOK, NEW width \in {1, 2, 4}, current + width <= Len(data) + 1
  PROVE  Load(current, width) \in Nat
<1>1. data \in Seq(Bytes) /\ Len(data) \in Nat /\ current \in Nat \ {0} /\ width \in Nat \ {0}
  BY DEF TypeOK
<1>2. ASSUME NEW i \in {0, 1, 2, 3}, i < width
      PROVE  data[current + i] \in Nat
  <2>1. current + i \in 1 .. Len(data)
    BY <1>1, <1>2
  <2>2. PICK byte \in Bytes : byte = data[current + i]
    BY <1>1, <2>1
  <2>3. byte \in Nat
    BY DEF Bytes
  <2>4. QED BY <2>2, <2>3
<1>3. data[current] \in Nat
  <2>1. current + 0 = current
    BY <1>1
  <2>2. data[current + 0] \in Nat
    BY <1>1, <1>2
  <2>3. QED BY <2>1, <2>2
<1>4. width # 1 => data[current + 1] \in Nat
  BY <1>2
<1>5. CASE width = 1
  BY <1>3, <1>5 DEF Load, LoadFrom
<1>6. CASE width = 2
  BY <1>3, <1>4, <1>6 DEF Load, LoadFrom
<1>7. CASE width = 4
  <2>1. data[current + 2] \in Nat /\ data[current + 3] \in Nat
    BY <1>2, <1>7
  <2>2. PICK a \in Nat : a = data[current]
    BY <1>3
  <2>3. PICK b \in Nat : b = data[current + 1]
    BY <1>4, <1>7
  <2>4. PICK c \in Nat : c = data[current + 2]
    BY <2>1
  <2>5. PICK d \in Nat : d = data[current + 3]
    BY <2>1
  <2>6. Load(current, width) = 65536 * (256 * a + b) + (256 * c + d)
    BY <1>7, <2>2, <2>3, <2>4, <2>5 DEF Load, LoadFrom
  <2>7. 65536 * (256 * a + b) + (256 * c + d) \in Nat
    OBVIOUS
  <2>8. QED BY <2>6, <2>7
<1>8. QED BY <1>5, <1>6, <1>7

LEMMA ScalarType ==
  ASSUME NEW type \in Scalars, NEW first \in Nat, NEW size \in Nat,
         type = "EXT" => size # 0
  PROVE  /\ Scalar(type, first, size) \in Objects
         /\ Scalar(type, first, size).type = type
         /\ Scalar(type, first, size).first = first
         /\ Scalar(type, first, size).size = IF type = "EXT" THEN size - 1 ELSE size
BY DEF Scalar, Object, Objects

\* start_aggregate, from a fixed header or a longer one.
LEMMA StartAggregatePreserves ==
  ASSUME IInv, pc \in {"header", "trail"},
         NEW type \in Containers, NEW n \in Nat,
         NEW last \in 1 .. Len(data), current <= last,
         StartAggregate(type, n, last)
  PROVE  IInv'
<1>1. CASE n = 0
  <2>1. Visit(Object(type, 0, 0), last)
    BY <1>1 DEF StartAggregate
  <2>2. /\ Object(type, 0, 0) \in Objects
        /\ Object(type, 0, 0).type \notin Scalars
    BY DEF Object, Objects, Scalars, Containers
  <2>3. QED BY <2>1, <2>2, VisitPreserves
<1>2. CASE n # 0
  BY <1>2, PushPreserves
<1>3. QED BY <1>1, <1>2

LEMMA InitIInv == Init => IInv
<1> SUFFICES ASSUME Init PROVE IInv
  OBVIOUS
<1>1. TypeOK
  BY InputsAssumption DEF Init, TypeOK, Outcomes, NoOutcome
<1>2. WithinMessage /\ Control /\ StacksAgree
  BY DEF Init, WithinMessage, Control, StacksAgree, Accepted, NoOutcome
<1>3. Len(pointers) = 1 /\ DOMAIN pointers = {1} /\ pointers[1] = 1
  BY DEF Init
<1>4. FirstOf(1) = 1 /\ LastOf(1) = 1
  BY DEF FirstOf, LastOf
<1>5. Blocks
  BY <1>3, <1>4 DEF Init, Blocks
<1>6. Exact
  BY <1>3, <1>4 DEF Init, Exact, Awaits, Reading
<1>7. QED BY <1>1, <1>2, <1>5, <1>6 DEF IInv

LEMMA NextIInv == IInv /\ [Next]_vars => IInv'
<1> SUFFICES ASSUME IInv, [Next]_vars PROVE IInv'
  OBVIOUS
<1>1. /\ Len(data) \in Nat /\ current \in Nat \ {0} /\ current <= Len(data) + 1
      /\ pc = "header" => current \in 1 .. Len(data) /\ Byte \in Bytes
  BY DEF IInv, TypeOK, Byte
<1>2. CASE Start
  <2>1. CASE data = <<>>
    BY <1>2, <2>1, EndPreserves DEF Start
  <2>2. CASE data # <<>>
    <3>1. Len(data) # 0
      BY <2>2 DEF IInv, TypeOK
    <3>2. QED BY <1>1, <1>2, <2>2, <3>1, ReadOnPreserves DEF Start, IInv, TypeOK, Control
  <2>3. QED BY <2>1, <2>2
<1>3. CASE VisitOneByte
  <2>1. OneByteType(Byte) \in Scalars /\ OneByteType(Byte) # "EXT"
    BY DEF OneByteType, Scalars
  <2>2. /\ Scalar(OneByteType(Byte), current, 1) \in Objects
        /\ Scalar(OneByteType(Byte), current, 1).first = current
        /\ Scalar(OneByteType(Byte), current, 1).size = 1
        /\ Scalar(OneByteType(Byte), current, 1).type # "EXT"
    BY <1>1, <2>1, ScalarType
  <2>3. QED BY <1>1, <1>3, <2>2, VisitPreserves DEF VisitOneByte
<1>4. CASE VisitEmptyFixStr
  <2>1. /\ Scalar("STR", current, 0) \in Objects
        /\ Scalar("STR", current, 0).first = current
        /\ Scalar("STR", current, 0).size = 0
        /\ Scalar("STR", current, 0).type # "EXT"
    BY <1>1, ScalarType DEF Scalars
  <2>2. QED BY <1>1, <1>4, <2>1, VisitPreserves DEF VisitEmptyFixStr
<1>5. CASE ReadTrail
  <2>1. /\ pc = "header" /\ pc' = "trail" /\ current' = current + 1
        /\ UNCHANGED <<data, stack, pointers, allocated, objects, outcome>>
    BY <1>5 DEF ReadTrail
  <2>2. /\ cs' \in Numbers \cup Lengths \cup Values \cup Containers
        /\ trail' \in Nat \ {0}
        /\ cs' \in Lengths \cup Containers => trail' \in {1, 2, 4}
    <3>1. CASE Byte \in WithTrail /\ cs' = NextCs(Byte) /\ trail' = Trail(Byte)
      BY <3>1, TrailFacts
    <3>2. CASE Byte \in FixStr \ {160} /\ cs' = "STR_VALUE" /\ trail' = Byte % 32
      <4>1. Byte \in 161 .. 191
        BY <3>2 DEF FixStr
      <4>2. Byte % 32 \in Nat /\ Byte % 32 # 0
        BY <4>1
      <4>3. QED BY <3>2, <4>2 DEF Values, Lengths, Containers
    <3>3. QED BY <1>5, <3>1, <3>2 DEF ReadTrail
  <2>3. QED BY <1>1, <2>1, <2>2, ReadOnPreserves
<1>6. CASE ParseError
  BY <1>6, EndPreserves DEF ParseError
<1>7. CASE StartFixed
  <2>1. (IF Byte \in FixMap THEN "MAP" ELSE "ARRAY") \in Containers
    BY DEF Containers
  <2>2. Byte % 16 \in Nat
    <3>1. Byte \in Bytes
      BY <1>1, <1>7 DEF StartFixed
    <3>2. Byte \in Nat
      BY <3>1 DEF Bytes
    <3>3. QED BY <3>2
  <2>3. QED BY <1>1, <1>7, <2>1, <2>2, StartAggregatePreserves DEF StartFixed
<1>8. CASE Insufficient
  BY <1>8, EndPreserves DEF Insufficient
<1>9. pc = "trail" /\ Enough => /\ trail \in Nat \ {0} /\ current + trail <= Len(data) + 1
                                 /\ current + trail - 1 \in 1 .. Len(data)
                                 /\ current <= current + trail - 1
  BY <1>1 DEF Enough, IInv, Control, TypeOK, pe
<1>10. \A kind \in Numbers \cup Values \cup Lengths : TypeOf(kind, current) \in Scalars
  BY DEF TypeOf, Numbers, Values, Lengths, Scalars
<1>11. CASE VisitTrail
  <2>1. pc = "trail" /\ cs \in Numbers \cup Values /\ TypeOf(cs, current) \in Scalars
    BY <1>10, <1>11 DEF VisitTrail, Enough
  <2>2. PICK object : object = Scalar(TypeOf(cs, current), current, trail)
    OBVIOUS
  <2>3. /\ object \in Objects /\ object.first = current
        /\ object.size = IF object.type = "EXT" THEN trail - 1 ELSE trail
    BY <1>1, <1>9, <1>11, <2>1, <2>2, ScalarType DEF VisitTrail
  <2>4. object.first + object.size - (IF object.type = "EXT" THEN 0 ELSE 1) <= current + trail - 1
    BY <1>1, <1>9, <1>11, <2>1, <2>3 DEF VisitTrail
  <2>5. QED BY <1>9, <1>11, <2>1, <2>2, <2>3, <2>4, VisitPreserves DEF VisitTrail
<1>12. ASSUME Enough, cs \in Lengths \cup Containers
       PROVE  Load(current, trail) \in Nat
  <2>1. pc = "trail" /\ trail \in {1, 2, 4} /\ current + trail <= Len(data) + 1
    BY <1>9, <1>12 DEF Enough, IInv, Control
  <2>2. QED BY <2>1, LoadType DEF IInv
<1>13. CASE LoadLength
  <2>1. pc = "trail" /\ cs \in Lengths /\ Enough
    BY <1>13 DEF LoadLength, Enough
  <2>2. PICK length : length = Load(current, trail) + (IF cs = "EXT" THEN 1 ELSE 0)
    OBVIOUS
  <2>3. length \in Nat /\ (cs = "EXT" => length # 0)
    BY <1>12, <2>1, <2>2
  <2>4. CASE length = 0
    <3>1. Visit(Scalar(TypeOf(cs, current), current, 0), current + trail - 1)
      BY <1>13, <2>2, <2>4 DEF LoadLength
    <3>2. TypeOf(cs, current) \in Scalars /\ TypeOf(cs, current) # "EXT"
      BY <2>1, <2>3, <2>4, <1>10 DEF TypeOf, Lengths
    <3>3. PICK object : object = Scalar(TypeOf(cs, current), current, 0)
      OBVIOUS
    <3>4. object \in Objects /\ object.first = current /\ object.size = 0 /\ object.type # "EXT"
      BY <1>1, <3>2, <3>3, ScalarType
    <3>5. object.first + object.size - (IF object.type = "EXT" THEN 0 ELSE 1) <= current + trail - 1
      BY <1>1, <1>9, <2>1, <3>4
    <3>6. QED BY <1>9, <2>1, <3>1, <3>3, <3>4, <3>5, VisitPreserves
  <2>5. CASE length # 0
    <3>1. /\ trail' = length /\ current' = current + trail
          /\ cs' = (CASE cs = "STR" -> "STR_VALUE" [] cs = "BIN" -> "BIN_VALUE" [] cs = "EXT" -> "EXT_VALUE")
          /\ UNCHANGED <<data, pc, stack, pointers, allocated, objects, outcome>>
      BY <1>13, <2>2, <2>5 DEF LoadLength
    <3>2. cs' \in Values /\ cs' \notin Lengths \cup Containers
      BY <2>1, <3>1 DEF Values, Lengths, Containers
    <3>3. current' \in 1 .. Len(data) + 1 /\ current' >= current
      BY <1>1, <1>9, <2>1, <3>1
    <3>4. trail' \in Nat \ {0} /\ pc' = "trail"
      BY <2>1, <2>3, <2>5, <3>1
    <3>5. QED BY <2>1, <3>1, <3>2, <3>3, <3>4, ReadOnPreserves
  <2>6. QED BY <2>4, <2>5
<1>14. CASE StartTrail
  BY <1>9, <1>12, <1>14, StartAggregatePreserves DEF StartTrail, Enough
<1>15. CASE EndAggregate
  BY <1>15, EndAggregatePreserves
<1>16. CASE NextElement
  BY <1>16, NextElementPreserves
<1>17. CASE Finish
  BY <1>17, FinishPreserves
<1>18. CASE UNCHANGED vars
  <2>1. UNCHANGED <<data, pc, current, cs, trail, stack, pointers, allocated, objects, outcome>>
    BY <1>18 DEF vars
  <2>2. TypeOK' /\ WithinMessage' /\ Control' /\ StacksAgree'
    BY <2>1 DEF IInv, TypeOK, WithinMessage, Control, StacksAgree
  <2>3. Blocks' /\ Exact'
    BY <2>1 DEF IInv, Blocks, Exact, FirstOf, LastOf, Slots, Awaits, Reading
  <2>4. QED BY <2>2, <2>3 DEF IInv
<1>19. QED
  BY <1>2, <1>3, <1>4, <1>5, <1>6, <1>7, <1>8, <1>11, <1>13, <1>14, <1>15, <1>16, <1>17, <1>18
  DEF Next

LEMMA Invariance == Spec => []IInv
BY InitIInv, NextIInv, PTL DEF Spec

----------------------------------------------------------------------------
(***************************************************************************)
(* Theorems                                                                *)
(***************************************************************************)

\* The parser's state keeps its types, whatever bytes it is given.
THEOREM TypeCorrect == Spec => []TypeOK
<1>1. IInv => TypeOK
  BY DEF IInv
<1>2. QED BY <1>1, Invariance, PTL

\* No object refers to bytes behind what was read, whatever lengths a message
\* states.
THEOREM Within == Spec => []WithinMessage
<1>1. IInv => WithinMessage
  BY DEF IInv
<1>2. QED BY <1>1, Invariance, PTL

\* The stacks of the parser and of the visitor count alike, at any depth.
THEOREM Agree == Spec => []StacksAgree
<1>1. IInv => StacksAgree
  BY DEF IInv
<1>2. QED BY <1>1, Invariance, PTL

\* The visitor never writes a slot twice, nor one that was not allocated.
THEOREM Fresh == Spec => []WritesFreshSlot
<1>1. IInv => WritesFreshSlot
  BY FreshBack DEF WritesFreshSlot, Reading
<1>2. QED BY <1>1, Invariance, PTL

\* An accepted message leaves no allocated slot unwritten.
THEOREM Complete == Spec => []ObjectComplete
<1>1. IInv => ObjectComplete
  <2> SUFFICES ASSUME IInv, outcome \in Accepted
               PROVE  DOMAIN objects = 1 .. allocated
    BY DEF ObjectComplete
  <2>1. stack = <<>> /\ pc = "done" /\ Len(pointers) = 1 /\ DOMAIN pointers = {1}
    <3>1. stack = <<>> /\ pc = "done"
      BY DEF IInv, Control, Accepted, NoOutcome
    <3>2. Len(pointers) = 1
      BY <3>1 DEF IInv, StacksAgree
    <3>3. QED BY <3>1, <3>2, TopFacts DEF IInv
  <2>2. pointers[1] = 1 /\ LastOf(1) = 1
    <3>1. FirstOf(1) = 1 /\ LastOf(1) = 1 /\ pointers[1] \in Int
      BY <2>1, TopFacts DEF IInv, FirstOf, LastOf
    <3>2. FirstOf(1) <= pointers[1] /\ pointers[1] <= LastOf(1)
      BY <2>1 DEF IInv, Blocks
    <3>3. QED BY <3>1, <3>2
  <2>3. \A a \in 1 .. allocated : ~Awaits(1, a)
    BY <2>1, <2>2 DEF Awaits, Reading
  <2>4. \A a \in 1 .. allocated : a \in DOMAIN objects
    BY <2>1, <2>3 DEF IInv, Exact
  <2>5. QED BY <2>4 DEF IInv, TypeOK
<1>2. QED BY <1>1, Invariance, PTL


----------------------------------------------------------------------------
(***************************************************************************)
(* The loops end.                                                          *)
(***************************************************************************)
LEMMA StepShrinks == IInv /\ IInv' /\ Next => Left' \in 0 .. Left - 1
<1> SUFFICES ASSUME IInv, IInv', Next PROVE Left' \in 0 .. Left - 1
  OBVIOUS
<1>t. TypeOK /\ TypeOK' /\ Control
  BY DEF IInv
<1>1. PICK n \in Nat, at \in Nat, depth \in Nat :
        n = Len(data) /\ at = current /\ depth = Len(stack) /\ at <= n + 1
  <2>1. Len(data) \in Nat /\ current \in 1 .. Len(data) + 1 /\ Len(stack) \in Nat
    BY <1>t DEF TypeOK
  <2>2. current \in Nat /\ current <= Len(data) + 1
    BY <2>1
  <2>3. QED BY <2>1, <2>2
<1>2. data' = data
  BY DEF Next, Start, VisitOneByte, VisitEmptyFixStr, ReadTrail, ParseError, StartFixed, StartAggregate,
         Insufficient, VisitTrail, LoadLength, StartTrail, EndAggregate, NextElement, Finish, Visit
<1>3. PICK to \in Nat, deep \in Nat : to = current' /\ deep = Len(stack') /\ to <= n + 1
  <2>1. current' \in 1 .. n + 1 /\ Len(stack') \in Nat
    BY <1>t, <1>1, <1>2 DEF TypeOK
  <2>2. current' \in Nat /\ current' <= n + 1
    BY <2>1
  <2>3. QED BY <2>1, <2>2
<1>7. /\ Rank("start") = 3 /\ Rank("header") = 2 /\ Rank("trail") = 2
      /\ Rank("consume") = 1 /\ Rank("done") = 0
  BY DEF Rank
<1>4. PICK r \in Nat, s \in Nat : r = Rank(pc) /\ s = Rank(pc') /\ r <= 3 /\ s <= 3
  <2>1. \A place \in {"start", "header", "trail", "consume", "done"} :
          Rank(place) \in Nat /\ Rank(place) <= 3
    BY <1>7
  <2>2. /\ pc \in {"start", "header", "trail", "consume", "done"}
        /\ pc' \in {"start", "header", "trail", "consume", "done"}
    BY <1>t DEF TypeOK
  <2>3. QED BY <2>1, <2>2
<1>5. Left = 2 * (n + 1 - at) + depth + r /\ Left' = 2 * (n + 1 - to) + deep + s
  BY <1>1, <1>2, <1>3, <1>4 DEF Left, pe
<1>6. SUFFICES 2 * (at - to) + (deep - depth) + (s - r) < 0
  <2>1. ASSUME 2 * (at - to) + (deep - depth) + (s - r) < 0
        PROVE  Left' \in 0 .. Left - 1
    <3>1. PICK was \in Int, is \in Int :
            was = 2 * (n + 1 - at) + depth + r /\ is = 2 * (n + 1 - to) + deep + s
      OBVIOUS
    <3>2. 0 <= is
      <4>1. PICK rest \in Nat : rest = n + 1 - to
        <5>1. to <= n + 1 /\ n + 1 - to \in Int
          BY <1>3
        <5>2. n + 1 - to >= 0
          BY <5>1
        <5>3. n + 1 - to \in Nat
          BY <5>1, <5>2
        <5>4. QED BY <5>3
      <4>2. is = 2 * rest + deep + s
        BY <3>1, <4>1
      <4>3. QED BY <4>2
    <3>3. is <= was - 1
      BY <2>1, <3>1
    <3>4. is \in 0 .. was - 1
      BY <3>2, <3>3
    <3>5. QED BY <1>5, <3>1, <3>4
  <2>2. QED BY <2>1
\* Wherever an iteration ends, a byte was read.
<1>8. \A p \in Nat : Iterate(p) => to = p /\ pc' \in {"header", "done"}
  BY <1>3 DEF Iterate, End
<1>9. \A object : \A last \in Nat : Visit(object, last) => to = last /\ deep = depth /\ pc' = "consume"
  BY <1>1, <1>3 DEF Visit
<1>10. ASSUME NEW type, NEW count, NEW last \in Nat, at <= last, StartAggregate(type, count, last),
              pc \in {"header", "trail"}
       PROVE  2 * (at - to) + (deep - depth) + (s - r) < 0
  <2>1. CASE count = 0
    <3>1. to = last /\ deep = depth /\ pc' = "consume"
      BY <1>9, <1>10, <2>1 DEF StartAggregate
    <3>2. QED BY <1>4, <1>7, <1>10, <3>1
  <2>2. CASE count # 0
    <3>1. /\ to = last + 1 /\ pc' \in {"header", "done"}
          /\ stack' = Append(stack, [is |-> IF type = "MAP" THEN "MAP_KEY" ELSE "ARRAY_ITEM", rest |-> count])
      BY <1>8, <1>10, <2>2 DEF StartAggregate
    <3>2. deep = depth + 1
      BY <1>1, <1>3, <3>1 DEF IInv, TypeOK
    <3>3. QED BY <1>4, <1>7, <1>10, <3>1, <3>2
  <2>3. QED BY <2>1, <2>2
<1>11. CASE Start
  BY <1>1, <1>3, <1>4, <1>7, <1>11 DEF Start, End
<1>12. CASE VisitOneByte
  BY <1>1, <1>4, <1>7, <1>9, <1>12 DEF VisitOneByte
<1>13. CASE VisitEmptyFixStr
  BY <1>1, <1>4, <1>7, <1>9, <1>13 DEF VisitEmptyFixStr
<1>14. CASE ReadTrail
  <2>1. pc = "header" /\ pc' = "trail" /\ to = at + 1 /\ deep = depth
    BY <1>1, <1>3, <1>14 DEF ReadTrail
  <2>2. r = 2 /\ s = 2
    BY <1>4, <1>7, <2>1
  <2>3. QED BY <2>1, <2>2
<1>15. CASE ParseError
  BY <1>1, <1>3, <1>4, <1>7, <1>15 DEF ParseError, End
<1>16. CASE StartFixed
  BY <1>1, <1>10, <1>16 DEF StartFixed
<1>17. CASE Insufficient
  BY <1>1, <1>3, <1>4, <1>7, <1>17 DEF Insufficient, End
<1>18. pc = "trail" => trail \in Nat \ {0}
  BY DEF IInv, TypeOK, Control
<1>19. CASE VisitTrail
  <2>1. /\ pc = "trail" /\ current + trail - 1 \in Nat /\ at <= current + trail - 1
        /\ Visit(Scalar(TypeOf(cs, current), current, trail), current + trail - 1)
    BY <1>1, <1>18, <1>19 DEF VisitTrail, Enough
  <2>2. QED BY <1>4, <1>7, <1>9, <2>1
<1>20. CASE LoadLength
  <2>1. /\ pc = "trail" /\ current + trail - 1 \in Nat /\ at <= current + trail - 1
        /\ \/ Visit(Scalar(TypeOf(cs, current), current, 0), current + trail - 1)
           \/ current' = current + trail /\ UNCHANGED <<pc, stack>>
    BY <1>1, <1>18, <1>20 DEF LoadLength, Enough
  <2>2. CASE Visit(Scalar(TypeOf(cs, current), current, 0), current + trail - 1)
    BY <1>4, <1>7, <1>9, <2>1, <2>2
  <2>3. CASE current' = current + trail /\ UNCHANGED <<pc, stack>>
    <3>1. r = 2 /\ s = 2
      BY <1>4, <1>7, <2>1, <2>3
    <3>2. PICK k \in Nat \ {0} : k = trail
      BY <1>18, <2>1
    <3>3. to = at + k /\ deep = depth
      BY <1>1, <1>3, <2>3, <3>2
    <3>4. QED BY <3>1, <3>2, <3>3
  <2>4. QED BY <2>1, <2>2, <2>3
<1>21. CASE StartTrail
  <2>1. /\ pc = "trail" /\ current + trail - 1 \in Nat /\ at <= current + trail - 1
        /\ StartAggregate(cs, Load(current, trail), current + trail - 1)
    BY <1>1, <1>18, <1>21 DEF StartTrail, Enough
  <2>2. QED BY <1>10, <2>1
<1>22. CASE EndAggregate
  <2>1. pc = "consume" /\ stack # <<>> /\ stack' = Pop(stack) /\ UNCHANGED <<pc, current>>
    BY <1>22 DEF EndAggregate
  <2>2. deep = depth - 1
    BY <1>1, <1>3, <2>1, PopFacts DEF IInv, TypeOK
  <2>3. r = 1 /\ s = 1
    BY <1>4, <1>7, <2>1
  <2>4. to = at
    BY <1>1, <1>3, <2>1
  <2>5. QED BY <2>2, <2>3, <2>4
<1>23. CASE NextElement
  <2>1. pc = "consume" /\ to = at + 1 /\ pc' \in {"header", "done"}
    BY <1>1, <1>8, <1>23 DEF NextElement
  <2>2. PICK frame : stack' = [stack EXCEPT ![Len(stack)] = frame]
    BY <1>23 DEF NextElement
  <2>3. deep = depth
    BY <1>1, <1>3, <2>2 DEF IInv, TypeOK
  <2>4. r = 1 /\ s <= 2
    BY <1>4, <1>7, <2>1
  <2>5. QED BY <2>1, <2>3, <2>4
<1>24. CASE Finish
  BY <1>1, <1>3, <1>4, <1>7, <1>24 DEF Finish, End
<1>25. QED BY <1>11, <1>12, <1>13, <1>14, <1>15, <1>16, <1>17, <1>19, <1>20, <1>21, <1>22,
              <1>23, <1>24 DEF Next

\* Every step leaves less to be done than there was, so that no message, however
\* it is nested and wherever it is cut, keeps the parser for ever.
THEOREM LoopsEnd == Spec => Shrinks
<1>1. IInv /\ IInv' /\ [Next]_vars => [Left' \in 0 .. Left - 1]_vars
  BY StepShrinks
<1>2. QED BY <1>1, Invariance, PTL DEF Spec, Shrinks
=============================================================================
