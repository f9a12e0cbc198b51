--------------------------- MODULE RpcClientProofs ---------------------------
(***************************************************************************)
(* Proofs about RpcClient, for every number of objects, every width of the *)
(* ids and of the wire and every bound.                                    *)
(***************************************************************************)
EXTENDS RpcClient, TLAPS

----------------------------------------------------------------------------
(***************************************************************************)
(* Remainders.                                                             *)
(***************************************************************************)

LEMMA DivMod ==
  ASSUME NEW n \in Nat, NEW m \in Nat \ {0}
  PROVE  /\ n \div m \in Nat
         /\ n % m \in 0 .. m - 1
         /\ n = m * (n \div m) + (n % m)
<1>1. /\ n \div m \in Int
      /\ n % m \in 0 .. m - 1
      /\ n = m * (n \div m) + (n % m)
  OBVIOUS
<1>2. n \div m >= 0
  <2> DEFINE d == n \div m
             e == n % m
  <2>1. d \in Int /\ e \in 0 .. m - 1 /\ n = m * d + e
    BY <1>1
  <2> HIDE DEF d, e
  <2>2. ASSUME d < 0 PROVE FALSE
    <3>1. \A x \in Nat : m * x >= 0
      OBVIOUS
    <3>2. -d - 1 \in Nat
      BY <2>1, <2>2
    <3>3. m * (-d - 1) >= 0
      BY <3>1, <3>2
    <3>4. m * (-d - 1) = -(m * d) - m
      BY <2>1
    <3>5. m * d \in Int
      BY <2>1
    <3>6. QED BY <2>1, <3>3, <3>4, <3>5
  <2>3. d >= 0
    BY <2>1, <2>2
  <2>4. QED BY <2>3 DEF d
<1>3. QED BY <1>1, <1>2

\* A multiple of m does not change a remainder.
LEMMA ModUnique ==
  ASSUME NEW m \in Nat \ {0}, NEW q \in Nat, NEW r \in 0 .. m - 1
  PROVE  (m * q + r) % m = r
<1> DEFINE n == m * q + r
           d == n \div m
           e == n % m
<1>1. m * q \in Nat
  OBVIOUS
<1>2. n \in Nat
  BY <1>1
<1>3. d \in Nat /\ e \in 0 .. m - 1 /\ n = m * d + e
  <2> HIDE DEF n
  <2>1. QED BY <1>2, DivMod DEF d, e
<1>4. m * d + e = m * q + r
  BY <1>3
<1> HIDE DEF n, d, e
<1>5. ASSUME d < q PROVE FALSE
  <2>1. m * (d + 1) <= m * q
    BY <1>3, <1>5
  <2>2. m * (d + 1) = m * d + m
    BY <1>3
  <2>3. QED BY <1>1, <1>3, <1>4, <2>1, <2>2
<1>6. ASSUME q < d PROVE FALSE
  <2>1. m * (q + 1) <= m * d
    BY <1>3, <1>6
  <2>2. m * (q + 1) = m * q + m
    OBVIOUS
  <2>3. QED BY <1>1, <1>3, <1>4, <2>1, <2>2
<1>7. d = q
  BY <1>3, <1>5, <1>6
<1>8. e = r
  BY <1>1, <1>3, <1>4, <1>7
<1>9. QED BY <1>8 DEF n, e

LEMMA ModSmall ==
  ASSUME NEW m \in Nat \ {0}, NEW r \in 0 .. m - 1
  PROVE  r % m = r
OBVIOUS

\* The worker counts modulo IdModulus.
LEMMA ModSucc ==
  ASSUME NEW n \in Nat, NEW m \in Nat \ {0}
  PROVE  ((n % m) + 1) % m = (n + 1) % m
<1> DEFINE q == n \div m
           r == n % m
<1>1. q \in Nat /\ r \in 0 .. m - 1 /\ n = m * q + r
  BY DivMod
<1> HIDE DEF q, r
<1>2. CASE r + 1 < m
  <2>1. n + 1 = m * q + (r + 1)
    BY <1>1
  <2>2. (m * q + (r + 1)) % m = r + 1
    BY <1>1, <1>2, ModUnique
  <2>3. (r + 1) % m = r + 1
    BY <1>1, <1>2, ModSmall
  <2>4. QED BY <2>1, <2>2, <2>3 DEF r
<1>3. CASE r + 1 = m
  <2>1. m * q + m = m * (q + 1) + 0
    BY <1>1
  <2>2. n + 1 = m * (q + 1) + 0
    BY <1>1, <1>3, <2>1
  <2>3. (m * (q + 1) + 0) % m = 0
    BY <1>1, ModUnique
  <2>4. m = m * 1 + 0
    OBVIOUS
  <2>5. m % m = 0
    BY <2>4, ModUnique
  <2>6. QED BY <1>3, <2>2, <2>3, <2>5 DEF r
<1>4. QED BY <1>1, <1>2, <1>3

\* An id cut to the wire is the call's number cut to the wire.
LEMMA WireOfId ==
  ASSUME NEW n \in Nat
  PROVE  (n % IdModulus) % WireModulus = n % WireModulus
<1> DEFINE q == n \div IdModulus
           r == n % IdModulus
           k == r \div WireModulus
           s == r % WireModulus
<1>1. IdModulus \in Nat \ {0}
  BY WidthAssumption DEF IdModulus
<1>2. q \in Nat /\ r \in Nat /\ n = IdModulus * q + r
  BY <1>1, DivMod
<1>3. k \in Nat /\ s \in 0 .. WireModulus - 1 /\ r = WireModulus * k + s
  <2> HIDE DEF q, r
  <2>1. QED BY <1>2, DivMod, WidthAssumption
<1> HIDE DEF q, r, k, s
<1>4. HighModulus * q + k \in Nat
  BY <1>2, <1>3, WidthAssumption
<1>5. IdModulus * q = WireModulus * (HighModulus * q)
  BY <1>2, WidthAssumption DEF IdModulus
<1>6. n = WireModulus * (HighModulus * q) + WireModulus * k + s
  <2>1. WireModulus * k \in Nat /\ WireModulus * (HighModulus * q) \in Nat
    BY <1>2, <1>3, WidthAssumption
  <2>2. QED BY <1>2, <1>3, <1>5, <2>1
<1>7. \A x, y \in Nat : WireModulus * x + WireModulus * y = WireModulus * (x + y)
  BY WidthAssumption
<1>8. HighModulus * q \in Nat
  BY <1>2, WidthAssumption
<1>9. n = WireModulus * (HighModulus * q + k) + s
  BY <1>3, <1>6, <1>7, <1>8
<1>10. (WireModulus * (HighModulus * q + k) + s) % WireModulus = s
  BY <1>3, <1>4, ModUnique, WidthAssumption
<1>11. QED BY <1>9, <1>10 DEF r, s

----------------------------------------------------------------------------
(***************************************************************************)
(* The inductive invariant: every id, in the table, on the wire and in the *)
(* runs, is the number of its call cut to the width of the place.          *)
(***************************************************************************)

CallsNumbered ==
  /\ curId = Len(caller) % IdModulus
  /\ Len(caller) \in Calls
  /\ \A b \in Bases : /\ rpcid[b] = lastCall[b] % IdModulus
                      /\ lastCall[b] <= Len(caller)

\* A registration of object b: of one of its calls, or of a test under an id.
Keyed(b, callback) ==
  IF callback.by = "testRegisterCB"
  THEN callback.of \in HookIds
  ELSE callback.of \in DOMAIN caller /\ caller[callback.of] = b

TableKeyed ==
  \A b \in Bases, id \in Ids : callbackMap[b][id] # NoCallback =>
    /\ callbackMap[b][id].of % IdModulus = id
    /\ Keyed(b, callbackMap[b][id])

RequestsKeyed ==
  \A request \in requests :
    /\ request.call \in DOMAIN caller
    /\ request.rpcid = request.call % WireModulus

ResultsKeyed ==
  \A retMsg \in results :
    /\ retMsg.call <= Len(caller)
    /\ retMsg.rpcid = retMsg.call % WireModulus

RunsKeyed ==
  \A run \in runs :
    /\ run.callback.of % IdModulus = run.answer.rpcid
    /\ Keyed(run.base, run.callback)

IInv ==
  /\ TypeOK
  /\ CallsNumbered
  /\ TableKeyed
  /\ RequestsKeyed
  /\ RegisteredBeforeSent
  /\ ResultsKeyed
  /\ RunsKeyed

LEMMA IdsType ==
  /\ IdModulus \in Nat \ {0}
  /\ WireModulus \in Nat \ {0}
  /\ 0 \in Ids
  /\ WireIds \subseteq Ids
<1>1. IdModulus \in Nat \ {0} /\ WireModulus \in Nat \ {0}
  BY WidthAssumption DEF IdModulus
<1>2. WireModulus <= IdModulus
  BY WidthAssumption DEF IdModulus
<1>3. QED BY <1>1, <1>2 DEF Ids, WireIds

LEMMA NumberToId == ASSUME NEW n \in Nat PROVE n % IdModulus \in Ids
BY IdsType, DivMod DEF Ids

LEMMA InitIInv == Init => IInv
<1> SUFFICES ASSUME Init PROVE IInv
  OBVIOUS
<1>1. TypeOK
  BY IdsType, WidthAssumption DEF Init, TypeOK, Calls
<1>2. CallsNumbered
  <2>1. 0 % IdModulus = 0
    BY IdsType, ModSmall
  <2>2. QED BY <2>1, WidthAssumption DEF Init, CallsNumbered, Calls
<1>3. TableKeyed
  BY DEF Init, TableKeyed
<1>4. RequestsKeyed /\ RegisteredBeforeSent /\ ResultsKeyed /\ RunsKeyed
  BY DEF Init, RequestsKeyed, RegisteredBeforeSent, ResultsKeyed, RunsKeyed
<1>5. QED BY <1>1, <1>2, <1>3, <1>4 DEF IInv

\* What taking an id does: the call gets its number, and the id is the number
\* cut to 64 bits.
LEMMA TakeIdEffect ==
  ASSUME TypeOK, CallsNumbered, NEW b \in Bases, TakeId(b)
  PROVE  /\ ThisCall \in Calls /\ ThisCall \in Nat
         /\ GenId = ThisCall % IdModulus
         /\ GenId \in Ids
         /\ curId' \in Ids
         /\ rpcid' \in [Bases -> Ids]
         /\ caller' \in Seq(Bases)
         /\ lastCall' \in [Bases -> Calls]
         /\ CallsNumbered'
         /\ Len(caller) \in Nat
         /\ Len(caller') = ThisCall
         /\ DOMAIN caller' = 1 .. ThisCall
         /\ DOMAIN caller = 1 .. Len(caller)
         /\ \A n \in DOMAIN caller : n \in DOMAIN caller' /\ caller'[n] = caller[n]
         /\ caller'[ThisCall] = b
<1>1. /\ Len(caller) \in Nat /\ DOMAIN caller = 1 .. Len(caller)
      /\ caller \in Seq(Bases)
  BY DEF TypeOK
<1>2. /\ ThisCall \in Nat /\ ThisCall \in Calls
  BY <1>1, WidthAssumption DEF TakeId, ThisCall, Calls
<1>3. GenId = ThisCall % IdModulus
  BY <1>1, IdsType, ModSucc DEF CallsNumbered, GenId, ThisCall
<1>4. GenId \in Ids
  BY <1>2, <1>3, IdsType, DivMod DEF Ids
<1>5. /\ caller' \in Seq(Bases)
      /\ Len(caller') = ThisCall
      /\ DOMAIN caller' = 1 .. ThisCall
      /\ \A n \in DOMAIN caller : n \in DOMAIN caller' /\ caller'[n] = caller[n]
      /\ caller'[ThisCall] = b
  BY <1>1 DEF TakeId, ThisCall
<1>6. /\ curId' \in Ids
      /\ rpcid' \in [Bases -> Ids]
      /\ lastCall' \in [Bases -> Calls]
  BY <1>2, <1>4 DEF TakeId, TypeOK
<1>7. CallsNumbered'
  <2>1. curId' = Len(caller') % IdModulus
    BY <1>3, <1>5 DEF TakeId
  <2>2. ASSUME NEW c \in Bases
        PROVE  rpcid'[c] = lastCall'[c] % IdModulus /\ lastCall'[c] <= Len(caller')
    <3>1. CASE c = b
      BY <1>2, <1>3, <1>5, <3>1 DEF TakeId, TypeOK
    <3>2. CASE c # b
      <4>1. rpcid'[c] = rpcid[c] /\ lastCall'[c] = lastCall[c]
        BY <3>2 DEF TakeId, TypeOK
      <4>2. lastCall[c] \in Nat
        BY WidthAssumption DEF TypeOK, Calls
      <4>3. QED BY <1>1, <1>5, <4>1, <4>2 DEF CallsNumbered, ThisCall
    <3>3. QED BY <3>1, <3>2
  <2>3. QED BY <1>2, <1>5, <2>1, <2>2 DEF CallsNumbered
<1>8. QED BY <1>1, <1>2, <1>3, <1>4, <1>5, <1>6, <1>7

\* emplace writes one entry, and only where there was none.
LEMMA EmplaceEffect ==
  ASSUME TypeOK, NEW b \in Bases, NEW id \in Ids, NEW registration \in Registrations,
         Emplace(b, id, registration)
  PROVE  /\ callbackMap' \in [Bases -> [Ids -> Registrations \cup {NoCallback}]]
         /\ \A c \in Bases, i \in Ids :
              callbackMap'[c][i] =
                IF c = b /\ i = id /\ callbackMap[c][i] = NoCallback
                THEN registration ELSE callbackMap[c][i]
<1>1. callbackMap \in [Bases -> [Ids -> Registrations \cup {NoCallback}]]
  BY DEF TypeOK
<1>2. CASE callbackMap[b][id] = NoCallback
  <2>1. callbackMap' = [callbackMap EXCEPT ![b][id] = registration]
    BY <1>2 DEF Emplace
  <2>2. QED BY <1>1, <1>2, <2>1
<1>3. CASE callbackMap[b][id] # NoCallback
  BY <1>1, <1>3 DEF Emplace
<1>4. QED BY <1>2, <1>3

\* A registration stays one of its object's when more calls are made.
LEMMA KeyedStays ==
  ASSUME \A n \in DOMAIN caller : n \in DOMAIN caller' /\ caller'[n] = caller[n],
         NEW b, NEW callback, Keyed(b, callback)
  PROVE  Keyed(b, callback)'
BY DEF Keyed

\* The calls: an id is taken, and the call is registered or not, sent or not,
\* and never sent without being registered.
LEMMA CallPreserves ==
  ASSUME IInv, NEW b \in Bases, TakeId(b), UNCHANGED <<results, runs>>,
         \/ UNCHANGED <<callbackMap, requests>>
         \/ /\ \E by \in {"callCb", "callCbCmd"} :
                 Emplace(b, GenId, [by |-> by, of |-> ThisCall])
            /\ requests' \subseteq requests
                 \cup {[rpcid |-> Wire(GenId), call |-> ThisCall]}
  PROVE  IInv'
<1>1. /\ TypeOK /\ CallsNumbered /\ TableKeyed /\ RequestsKeyed
      /\ RegisteredBeforeSent /\ ResultsKeyed /\ RunsKeyed
  BY DEF IInv
<1>2. /\ ThisCall \in Calls /\ ThisCall \in Nat
      /\ GenId = ThisCall % IdModulus /\ GenId \in Ids
      /\ Len(caller) \in Nat /\ Len(caller') = ThisCall
      /\ DOMAIN caller' = 1 .. ThisCall /\ DOMAIN caller = 1 .. Len(caller)
      /\ ThisCall \in DOMAIN caller' /\ caller'[ThisCall] = b
  BY <1>1, TakeIdEffect DEF ThisCall
<1>3. \A n \in DOMAIN caller : n \in DOMAIN caller' /\ caller'[n] = caller[n]
  BY <1>1, TakeIdEffect
<1>4. /\ Wire(GenId) = ThisCall % WireModulus
      /\ Wire(GenId) \in WireIds
  BY <1>2, WireOfId, DivMod, IdsType DEF Wire, WireIds
\* What becomes of the table.
<1>5. /\ callbackMap' \in [Bases -> [Ids -> Registrations \cup {NoCallback}]]
      /\ \A c \in Bases, id \in Ids :
           \/ callbackMap'[c][id] = callbackMap[c][id]
           \/ /\ c = b /\ id = GenId /\ callbackMap[c][id] = NoCallback
              /\ callbackMap'[c][id].by # "testRegisterCB"
              /\ callbackMap'[c][id].of = ThisCall
      /\ requests' \subseteq requests
           \/ callbackMap'[b][GenId] # NoCallback
  <2>1. CASE UNCHANGED <<callbackMap, requests>>
    BY <1>1, <2>1 DEF TypeOK
  <2>2. ASSUME NEW by \in {"callCb", "callCbCmd"},
               Emplace(b, GenId, [by |-> by, of |-> ThisCall])
        PROVE  <1>5
    <3> DEFINE registration == [by |-> by, of |-> ThisCall]
    <3>1. /\ registration \in Registrations
          /\ registration.by # "testRegisterCB" /\ registration.of = ThisCall
      BY <1>2 DEF Registrations
    <3>2. registration # NoCallback
      BY <3>1, DataAssumption
    <3> HIDE DEF registration
    <3>3. Emplace(b, GenId, registration)
      BY <2>2 DEF registration
    <3>4. /\ callbackMap' \in [Bases -> [Ids -> Registrations \cup {NoCallback}]]
          /\ \A c \in Bases, i \in Ids :
               callbackMap'[c][i] =
                 IF c = b /\ i = GenId /\ callbackMap[c][i] = NoCallback
                 THEN registration ELSE callbackMap[c][i]
      BY <1>1, <1>2, <3>1, <3>3, EmplaceEffect
    <3>5. QED BY <1>2, <3>1, <3>2, <3>4
  <2>3. QED BY <2>1, <2>2
<1>6. requests' \subseteq requests \cup {[rpcid |-> Wire(GenId), call |-> ThisCall]}
  OBVIOUS
<1>7. TypeOK'
  <2>1. requests' \subseteq Requests
    BY <1>1, <1>2, <1>4, <1>6 DEF TypeOK, Requests
  <2>2. results' \subseteq Results
    BY <1>1 DEF TypeOK
  <2>3. \A run \in runs' : /\ run.base \in Bases
                          /\ run.callback \in Registrations
                          /\ run.answer \in results'
    BY <1>1 DEF TypeOK
  <2>4. /\ curId' \in Ids /\ rpcid' \in [Bases -> Ids] /\ caller' \in Seq(Bases)
        /\ lastCall' \in [Bases -> Calls]
    BY <1>1, TakeIdEffect
  <2>5. QED BY <1>5, <2>1, <2>2, <2>3, <2>4 DEF TypeOK
<1>8. CallsNumbered'
  BY <1>1, TakeIdEffect
<1>9. TableKeyed'
  <2> SUFFICES ASSUME NEW c \in Bases, NEW id \in Ids, callbackMap'[c][id] # NoCallback
               PROVE  /\ callbackMap'[c][id].of % IdModulus = id
                      /\ Keyed(c, callbackMap[c][id])'
    BY DEF TableKeyed
  <2>1. CASE callbackMap'[c][id] = callbackMap[c][id]
    BY <1>1, <1>3, <2>1 DEF TableKeyed, Keyed
  <2>2. CASE /\ c = b /\ id = GenId
             /\ callbackMap'[c][id].by # "testRegisterCB"
             /\ callbackMap'[c][id].of = ThisCall
    BY <1>2, <2>2 DEF Keyed
  <2>3. QED BY <1>5, <2>1, <2>2
<1>10. RequestsKeyed'
  BY <1>1, <1>2, <1>3, <1>4, <1>6 DEF RequestsKeyed
<1>11. RegisteredBeforeSent'
  <2> SUFFICES ASSUME NEW request \in requests'
               PROVE  callbackMap'[caller'[request.call]][request.call % IdModulus]
                        # NoCallback
    BY DEF RegisteredBeforeSent
  <2>1. CASE request \in requests
    <3>1. /\ request.call \in DOMAIN caller
          /\ callbackMap[caller[request.call]][request.call % IdModulus] # NoCallback
      BY <1>1, <2>1 DEF RequestsKeyed, RegisteredBeforeSent
    <3>2. /\ request.call % IdModulus \in Ids
          /\ caller[request.call] \in Bases
      <4>1. request.call \in 1 .. Len(caller)
        BY <1>2, <3>1
      <4>2. caller[request.call] \in Bases
        BY <1>1, <4>1 DEF TypeOK
      <4>3. QED BY <1>2, <4>1, <4>2, NumberToId
    <3>3. \/ callbackMap'[caller[request.call]][request.call % IdModulus]
               = callbackMap[caller[request.call]][request.call % IdModulus]
          \/ callbackMap[caller[request.call]][request.call % IdModulus] = NoCallback
      BY <1>5, <3>2
    <3>4. QED BY <1>3, <3>1, <3>3
  <2>2. CASE request \notin requests
    <3>1. request = [rpcid |-> Wire(GenId), call |-> ThisCall]
      BY <1>6, <2>2
    <3>2. callbackMap'[b][GenId] # NoCallback
      BY <1>5, <2>2
    <3>3. QED BY <1>2, <3>1, <3>2
  <2>3. QED BY <2>1, <2>2
<1>12. ResultsKeyed'
  <2> SUFFICES ASSUME NEW retMsg \in results
               PROVE  /\ retMsg.call <= Len(caller')
                      /\ retMsg.rpcid = retMsg.call % WireModulus
    BY DEF ResultsKeyed
  <2>1. retMsg.call \in Nat
    BY <1>1, WidthAssumption DEF TypeOK, Results, Calls
  <2>2. QED BY <1>1, <1>2, <2>1 DEF ResultsKeyed, ThisCall
<1>13. RunsKeyed'
  BY <1>1, <1>3 DEF RunsKeyed, Keyed
<1>14. QED BY <1>7, <1>8, <1>9, <1>10, <1>11, <1>12, <1>13 DEF IInv

LEMMA TestRegisterPreserves ==
  ASSUME IInv, NEW b \in Bases, NEW id \in HookIds, TestRegisterCB(b, id)
  PROVE  IInv'
<1>1. /\ TypeOK /\ CallsNumbered /\ TableKeyed /\ RequestsKeyed
      /\ RegisteredBeforeSent /\ ResultsKeyed /\ RunsKeyed
  BY DEF IInv
<1>2. UNCHANGED <<curId, rpcid, requests, results, caller, lastCall, runs>>
  BY DEF TestRegisterCB
<1> DEFINE registration == [by |-> "testRegisterCB", of |-> id]
<1>3. /\ id \in Ids /\ id % IdModulus = id
      /\ registration \in Registrations
      /\ registration.by = "testRegisterCB" /\ registration.of = id
      /\ Emplace(b, id, registration)
  <2>1. id \in Ids /\ id \in Nat
    BY DataAssumption, IdsType DEF Ids
  <2>2. QED BY <2>1, IdsType, ModSmall DEF Registrations, TestRegisterCB, Ids
<1>4. registration # NoCallback
  BY <1>3, DataAssumption
<1> HIDE DEF registration
<1>5. /\ callbackMap' \in [Bases -> [Ids -> Registrations \cup {NoCallback}]]
      /\ \A c \in Bases, i \in Ids :
           callbackMap'[c][i] =
             IF c = b /\ i = id /\ callbackMap[c][i] = NoCallback
             THEN registration ELSE callbackMap[c][i]
  BY <1>1, <1>3, EmplaceEffect
<1>6. TypeOK'
  BY <1>1, <1>2, <1>5 DEF TypeOK
<1>7. CallsNumbered' /\ RequestsKeyed' /\ ResultsKeyed' /\ RunsKeyed'
  BY <1>1, <1>2 DEF CallsNumbered, RequestsKeyed, ResultsKeyed, RunsKeyed, Keyed
<1>8. TableKeyed'
  <2> SUFFICES ASSUME NEW c \in Bases, NEW i \in Ids, callbackMap'[c][i] # NoCallback
               PROVE  /\ callbackMap'[c][i].of % IdModulus = i
                      /\ Keyed(c, callbackMap[c][i])'
    BY DEF TableKeyed
  <2>1. CASE callbackMap'[c][i] = callbackMap[c][i]
    BY <1>1, <1>2, <2>1 DEF TableKeyed, Keyed
  <2>2. CASE i = id /\ callbackMap'[c][i] = registration
    BY <1>3, <2>2 DEF Keyed
  <2>3. QED BY <1>5, <2>1, <2>2
<1>9. RegisteredBeforeSent'
  <2> SUFFICES ASSUME NEW request \in requests
               PROVE  callbackMap'[caller[request.call]][request.call % IdModulus]
                        # NoCallback
    BY <1>2 DEF RegisteredBeforeSent
  <2>1. /\ request.call \in DOMAIN caller
        /\ callbackMap[caller[request.call]][request.call % IdModulus] # NoCallback
    BY <1>1 DEF RequestsKeyed, RegisteredBeforeSent
  <2>2. request.call \in 1 .. Len(caller) /\ Len(caller) \in Nat
    BY <1>1, <2>1 DEF TypeOK
  <2>3. caller[request.call] \in Bases
    BY <1>1, <2>2 DEF TypeOK
  <2>4. request.call % IdModulus \in Ids
    BY <2>2, NumberToId
  <2>5. QED BY <1>4, <1>5, <2>1, <2>3, <2>4
<1>10. QED BY <1>6, <1>7, <1>8, <1>9 DEF IInv

\* A result enters: it carries the id, cut to the wire, of a call that was made.
LEMMA AnswerPreserves ==
  ASSUME IInv, NEW retMsg \in Results, results' = results \cup {retMsg},
         retMsg.call <= Len(caller), retMsg.rpcid = retMsg.call % WireModulus,
         UNCHANGED <<curId, rpcid, callbackMap, requests, caller, lastCall, runs>>
  PROVE  IInv'
<1>1. /\ TypeOK /\ CallsNumbered /\ TableKeyed /\ RequestsKeyed
      /\ RegisteredBeforeSent /\ ResultsKeyed /\ RunsKeyed
  BY DEF IInv
<1>2. TypeOK'
  BY <1>1 DEF TypeOK
<1>3. CallsNumbered' /\ TableKeyed' /\ RequestsKeyed' /\ RegisteredBeforeSent'
  BY <1>1 DEF CallsNumbered, TableKeyed, RequestsKeyed, RegisteredBeforeSent, Keyed
<1>4. ResultsKeyed'
  BY <1>1 DEF ResultsKeyed
<1>5. RunsKeyed'
  BY <1>1 DEF RunsKeyed, Keyed
<1>6. QED BY <1>2, <1>3, <1>4, <1>5 DEF IInv

LEMMA DealResultPreserves ==
  ASSUME IInv, NEW b \in Bases, NEW retMsg \in results, DealResult(b, retMsg)
  PROVE  IInv'
<1>1. /\ TypeOK /\ CallsNumbered /\ TableKeyed /\ RequestsKeyed
      /\ RegisteredBeforeSent /\ ResultsKeyed /\ RunsKeyed
  BY DEF IInv
<1>2. UNCHANGED <<curId, rpcid, callbackMap, requests, results, caller, lastCall>>
  BY DEF DealResult
<1> DEFINE run == [base |-> b, callback |-> callbackMap[b][retMsg.rpcid],
                   answer |-> retMsg, data |-> CStr(retMsg.data)]
<1>3. runs' = runs \cup {run}
  BY DEF DealResult
<1>4. /\ run.base = b /\ run.callback = callbackMap[b][retMsg.rpcid]
      /\ run.answer = retMsg
  OBVIOUS
<1> HIDE DEF run
<1>5. retMsg.rpcid \in Ids
  BY <1>1, IdsType DEF TypeOK, Results
<1>6. callbackMap[b][retMsg.rpcid] # NoCallback
  BY DEF DealResult
<1>7. TypeOK'
  <2>1. callbackMap[b][retMsg.rpcid] \in Registrations
    BY <1>1, <1>5, <1>6 DEF TypeOK
  <2>2. \A r \in runs' : /\ r.base \in Bases
                        /\ r.callback \in Registrations
                        /\ r.answer \in results
    BY <1>1, <1>3, <1>4, <2>1 DEF TypeOK
  <2>3. QED BY <1>1, <1>2, <2>2 DEF TypeOK
<1>8. /\ CallsNumbered' /\ TableKeyed' /\ RequestsKeyed' /\ RegisteredBeforeSent'
      /\ ResultsKeyed'
  BY <1>1, <1>2 DEF CallsNumbered, TableKeyed, RequestsKeyed, RegisteredBeforeSent,
     ResultsKeyed, Keyed
<1>9. RunsKeyed'
  <2>1. /\ run.callback.of % IdModulus = run.answer.rpcid
        /\ Keyed(run.base, run.callback)
    BY <1>1, <1>4, <1>5, <1>6 DEF TableKeyed
  <2>2. QED BY <1>1, <1>2, <1>3, <2>1 DEF RunsKeyed, Keyed
<1>10. QED BY <1>7, <1>8, <1>9 DEF IInv

LEMMA NextIInv == IInv /\ [Next]_vars => IInv'
<1> SUFFICES ASSUME IInv, [Next]_vars PROVE IInv'
  OBVIOUS
<1>1. ASSUME NEW b \in Bases, TakeIdOnly(b) PROVE IInv'
  BY <1>1, CallPreserves DEF TakeIdOnly
<1>2. ASSUME NEW b \in Bases, CallCb(b) PROVE IInv'
  BY <1>2, CallPreserves DEF CallCb, Send
<1>3. ASSUME NEW b \in Bases, CallCbCmd(b) PROVE IInv'
  BY <1>3, CallPreserves DEF CallCbCmd
<1>4. ASSUME NEW b \in Bases, NEW id \in HookIds, TestRegisterCB(b, id) PROVE IInv'
  BY <1>4, TestRegisterPreserves
<1>5. ASSUME NEW b \in Bases, NEW data \in Payloads, AnswerCurrent(b, data) PROVE IInv'
  <2> DEFINE retMsg == [rpcid |-> Wire(rpcid[b]), state |-> 1,
                        data |-> data, call |-> lastCall[b]]
  <2>1. /\ lastCall[b] \in Calls /\ lastCall[b] \in Nat /\ lastCall[b] <= Len(caller)
        /\ rpcid[b] = lastCall[b] % IdModulus
    BY WidthAssumption DEF IInv, TypeOK, CallsNumbered, Calls
  <2>2. Wire(rpcid[b]) = lastCall[b] % WireModulus /\ Wire(rpcid[b]) \in WireIds
    BY <2>1, WireOfId, DivMod, IdsType DEF Wire, WireIds
  <2>3. retMsg \in Results
    BY <2>1, <2>2 DEF Results
  <2>4. retMsg.call <= Len(caller) /\ retMsg.rpcid = retMsg.call % WireModulus
    BY <2>1, <2>2
  <2>5. /\ results' = results \cup {retMsg}
        /\ UNCHANGED <<curId, rpcid, callbackMap, requests, caller, lastCall, runs>>
    BY <1>5 DEF AnswerCurrent
  <2> HIDE DEF retMsg
  <2>6. QED BY <2>3, <2>4, <2>5, AnswerPreserves
<1>6. ASSUME NEW b \in Bases, NEW retMsg \in results, DealResult(b, retMsg) PROVE IInv'
  BY <1>6, DealResultPreserves
<1>7. ASSUME NEW request \in requests, NEW state \in {0, 1}, NEW data \in Payloads,
             Answer(request, state, data)
      PROVE  IInv'
  <2> DEFINE retMsg == [rpcid |-> request.rpcid, state |-> state,
                        data |-> data, call |-> request.call]
  <2>1. request \in Requests /\ caller \in Seq(Bases)
    BY DEF IInv, TypeOK
  <2>2. request.call \in DOMAIN caller /\ request.rpcid = request.call % WireModulus
    BY DEF IInv, RequestsKeyed
  <2>3. request.call <= Len(caller)
    BY <2>1, <2>2
  <2>4. retMsg \in Results /\ retMsg.call <= Len(caller)
        /\ retMsg.rpcid = retMsg.call % WireModulus
    BY <2>1, <2>2, <2>3 DEF Requests, Results
  <2>5. /\ results' = results \cup {retMsg}
        /\ UNCHANGED <<curId, rpcid, callbackMap, requests, caller, lastCall, runs>>
    BY <1>7 DEF Answer
  <2> HIDE DEF retMsg
  <2>6. QED BY <2>4, <2>5, AnswerPreserves
<1>8. CASE UNCHANGED vars
  BY <1>8 DEF vars, IInv, TypeOK, CallsNumbered, TableKeyed, RequestsKeyed,
     RegisteredBeforeSent, ResultsKeyed, RunsKeyed, Keyed
<1>9. QED BY <1>1, <1>2, <1>3, <1>4, <1>5, <1>6, <1>7, <1>8 DEF Next

LEMMA Invariance == Spec => []IInv
  BY InitIInv, NextIInv, PTL DEF Spec

----------------------------------------------------------------------------
(***************************************************************************)
(* Theorems.                                                               *)
(***************************************************************************)

\* The variables of the calling half keep their types (RpcBase.h:123-267).
THEOREM TypeCorrect == Spec => []TypeOK
<1>1. IInv => TypeOK
  BY DEF IInv
<1>2. QED BY <1>1, Invariance, PTL

\* A callback a result runs is that of the answered call or of one a multiple
\* of WireModulus calls away, for any number of calls (RpcBase.h:242-246
\* against RpcData.h:23).
THEOREM AgreeOnWire == Spec => []RunsAgreeOnWire
<1>1. ASSUME IInv PROVE RunsAgreeOnWire
  <2> SUFFICES ASSUME NEW run \in runs
               PROVE  run.callback.of % WireModulus = run.answer.call % WireModulus
    BY DEF RunsAgreeOnWire
  <2>1. run.callback \in Registrations /\ run.answer \in results /\ run.answer \in Results
    BY <1>1 DEF IInv, TypeOK
  <2>2. run.callback.of \in Nat /\ run.answer.call \in Nat
    BY <2>1, WidthAssumption DEF Registrations, Results, Calls
  <2>3. run.callback.of % IdModulus = run.answer.call % WireModulus
    BY <1>1, <2>1 DEF IInv, RunsKeyed, ResultsKeyed
  <2>4. (run.callback.of % IdModulus) % WireModulus = run.callback.of % WireModulus
    BY <2>2, WireOfId
  <2>5. (run.answer.call % WireModulus) % WireModulus = run.answer.call % WireModulus
    BY <2>2, DivMod, ModSmall, IdsType
  <2>6. QED BY <2>3, <2>4, <2>5
<1>2. QED BY <1>1, Invariance, PTL

LEMMA OwnCallbackInIInv == IInv => NoCrossTalk
<1>1. ASSUME IInv PROVE NoCrossTalk
  <2> SUFFICES ASSUME Len(caller) < WireModulus, NEW run \in runs
               PROVE  /\ run.callback.of = run.answer.call
                      /\ run.callback.by # "testRegisterCB" =>
                           run.base = caller[run.answer.call]
    BY DEF NoCrossTalk
  <2>1. run.callback \in Registrations /\ run.answer \in results /\ run.answer \in Results
    BY <1>1 DEF IInv, TypeOK
  <2>2. run.callback.of \in Nat /\ run.answer.call \in Nat
    BY <2>1, WidthAssumption DEF Registrations, Results, Calls
  <2>3. /\ run.callback.of % IdModulus = run.answer.call % WireModulus
        /\ run.answer.call <= Len(caller)
        /\ Keyed(run.base, run.callback)
    BY <1>1, <2>1 DEF IInv, RunsKeyed, ResultsKeyed
  <2>4. Len(caller) \in Nat /\ DOMAIN caller = 1 .. Len(caller)
    BY <1>1 DEF IInv, TypeOK
  <2>5. run.answer.call % WireModulus = run.answer.call
    BY <2>2, <2>3, <2>4, ModSmall, IdsType
  <2>6. run.callback.of \in Ids
    <3>1. CASE run.callback.by = "testRegisterCB"
      BY <2>3, <3>1, DataAssumption DEF Keyed, Ids
    <3>2. CASE run.callback.by # "testRegisterCB"
      <4>1. run.callback.of \in 1 .. Len(caller)
        BY <2>3, <2>4, <3>2 DEF Keyed
      <4>2. run.callback.of \in WireIds
        BY <2>4, <4>1, IdsType DEF WireIds
      <4>3. QED BY <4>2, IdsType
    <3>3. QED BY <3>1, <3>2
  <2>7. run.callback.of % IdModulus = run.callback.of
    BY <2>6, ModSmall, IdsType DEF Ids
  <2>8. QED BY <2>3, <2>5, <2>7 DEF Keyed
<1>2. QED BY <1>1

\* While fewer calls were made than ids fit the wire, a result runs the
\* callback of its own call, at the object that made it, and no other
\* (RpcBase.h:169-182, :233-247).
THEOREM OwnCallback == Spec => []NoCrossTalk
  BY OwnCallbackInIInv, Invariance, PTL

\* A request is on the wire only after its callback is in the table, so that
\* no answer can be too early (RpcBase.h:174, :181).
THEOREM Registered == Spec => []RegisteredBeforeSent
<1>1. IInv => RegisteredBeforeSent
  BY DEF IInv
<1>2. QED BY <1>1, Invariance, PTL

\* Nothing replaces or removes a registration (RpcBase.h:174, :190, :252).
THEOREM Sticks == Spec => RegistrationSticks
<1> DEFINE Stays == \A b \in Bases, id \in Ids :
      callbackMap[b][id] # NoCallback => callbackMap'[b][id] = callbackMap[b][id]
<1>1. ASSUME TypeOK, NEW b \in Bases, NEW id, NEW registration,
             Emplace(b, id, registration)
      PROVE  Stays
  BY <1>1 DEF Emplace, TypeOK
<1>2. ASSUME TypeOK, [Next]_vars PROVE [Stays]_vars
  <2>1. ASSUME UNCHANGED callbackMap PROVE Stays
    BY <2>1
  <2>2. ASSUME NEW b \in Bases, TakeIdOnly(b) \/ CallCb(b) \/ CallCbCmd(b) PROVE Stays
    BY <1>1, <1>2, <2>1, <2>2 DEF TakeIdOnly, CallCb, CallCbCmd
  <2>3. ASSUME NEW b \in Bases, NEW id \in HookIds, TestRegisterCB(b, id) PROVE Stays
    BY <1>1, <1>2, <2>3 DEF TestRegisterCB
  <2>4. QED
    BY <1>2, <2>1, <2>2, <2>3
    DEF Next, AnswerCurrent, Answer, DealResult, vars
<1>3. Spec => []TypeOK
  BY TypeCorrect
<1>4. QED BY <1>2, <1>3, PTL DEF Spec, RegistrationSticks

----------------------------------------------------------------------------
(***************************************************************************)
(* RpcClient implements CallLedger.                                        *)
(***************************************************************************)

\* One more entry is one more pair awaited, no entry none.
LEMMA EmplaceAwaits ==
  ASSUME TypeOK, NEW b \in Bases, NEW id \in Ids, NEW registration \in Registrations,
         registration.of \in Calls \cup HookIds, Emplace(b, id, registration)
  PROVE  \/ callbackMap[b][id] # NoCallback /\ Awaited' = Awaited
         \/ Awaited' = Awaited \cup {<<b, registration.of>>}
<1>1. \A c \in Bases, i \in Ids :
        callbackMap'[c][i] = IF c = b /\ i = id /\ callbackMap[c][i] = NoCallback
                             THEN registration ELSE callbackMap[c][i]
  BY EmplaceEffect
<1>2. CASE callbackMap[b][id] # NoCallback
  BY <1>2 DEF Emplace, Awaited
<1>3. CASE callbackMap[b][id] = NoCallback
  <2>1. registration # NoCallback
    BY DataAssumption
  <2>2. ASSUME NEW pair \in Bases \X (Calls \cup HookIds)
        PROVE  pair \in Awaited' <=> pair \in Awaited \/ pair = <<b, registration.of>>
    <3>1. pair[1] \in Bases /\ pair = <<pair[1], pair[2]>>
      OBVIOUS
    <3>2. ASSUME pair \in Awaited PROVE pair \in Awaited'
      BY <1>1, <1>3, <3>1, <3>2 DEF Awaited
    <3>3. ASSUME pair = <<b, registration.of>> PROVE pair \in Awaited'
      BY <1>1, <1>3, <2>1, <3>3 DEF Awaited
    <3>4. ASSUME pair \in Awaited' PROVE pair \in Awaited \/ pair = <<b, registration.of>>
      <4>1. PICK i \in Ids : callbackMap'[pair[1]][i] # NoCallback
                             /\ callbackMap'[pair[1]][i].of = pair[2]
        BY <3>4 DEF Awaited
      <4>2. CASE pair[1] = b /\ i = id
        BY <1>1, <1>3, <3>1, <4>1, <4>2
      <4>3. CASE ~(pair[1] = b /\ i = id)
        BY <1>1, <3>1, <4>1, <4>3 DEF Awaited
      <4>4. QED BY <4>2, <4>3
    <3>5. QED BY <3>2, <3>3, <3>4
  <2>3. <<b, registration.of>> \in Bases \X (Calls \cup HookIds)
    OBVIOUS
  <2>4. Awaited \subseteq Bases \X (Calls \cup HookIds)
        /\ Awaited' \subseteq Bases \X (Calls \cup HookIds)
    BY DEF Awaited
  <2>5. QED BY <2>2, <2>3, <2>4
<1>4. QED BY <1>2, <1>3

\* A call, awaited or not.
LEMMA CallMaps ==
  ASSUME IInv, NEW b \in Bases, TakeId(b), UNCHANGED <<results, runs>>,
         \/ UNCHANGED callbackMap
         \/ \E by \in {"callCb", "callCbCmd"} :
              Emplace(b, GenId, [by |-> by, of |-> ThisCall])
  PROVE  Ledger!Call(b)
<1>1. TypeOK /\ CallsNumbered
  BY DEF IInv
<1>2. ThisCall \in Calls /\ ThisCall \in Nat /\ GenId \in Ids
  BY <1>1, TakeIdEffect
<1>3. caller' = Append(caller, b) /\ ThisCall = Len(caller) + 1
  BY DEF TakeId, ThisCall
<1>4. Awaited' \in {Awaited, Awaited \cup {<<b, ThisCall>>}}
  <2>1. CASE UNCHANGED callbackMap
    BY <2>1 DEF Awaited
  <2>2. ASSUME NEW by \in {"callCb", "callCbCmd"},
               Emplace(b, GenId, [by |-> by, of |-> ThisCall])
        PROVE  Awaited' \in {Awaited, Awaited \cup {<<b, ThisCall>>}}
    <3> DEFINE registration == [by |-> by, of |-> ThisCall]
    <3>1. registration \in Registrations /\ registration.of = ThisCall
      BY <1>2 DEF Registrations
    <3> HIDE DEF registration
    <3>2. Emplace(b, GenId, registration)
      BY <2>2 DEF registration
    <3>3. QED BY <1>1, <1>2, <3>1, <3>2, EmplaceAwaits
  <2>3. QED BY <2>1, <2>2
<1>5. /\ {Reply(r) : r \in results}' = {Reply(r) : r \in results}
      /\ {RunOf(run) : run \in runs}' = {RunOf(run) : run \in runs}
  BY DEF RunOf, Reply
<1>6. QED BY <1>3, <1>4, <1>5 DEF Ledger!Call

\* A result enters as the reply to its call.
LEMMA AnswerMaps ==
  ASSUME NEW retMsg, results' = results \cup {retMsg}, UNCHANGED <<callbackMap, caller, runs>>,
         NEW n, NEW state, NEW data,
         retMsg.call = n, retMsg.state = state, retMsg.data = data
  PROVE  Ledger!Reply(n, state, data)
<1>1. Reply(retMsg) = [call |-> n, state |-> state, data |-> data]
  BY DEF Reply
<1>2. {Reply(r) : r \in results}' =
        {Reply(r) : r \in results} \cup {[call |-> n, state |-> state, data |-> data]}
  BY <1>1 DEF Reply
<1>3. {RunOf(run) : run \in runs}' = {RunOf(run) : run \in runs} /\ Awaited' = Awaited
  BY DEF RunOf, Reply, Awaited
<1>4. QED BY <1>2, <1>3 DEF Ledger!Reply

LEMMA DealResultMaps ==
  ASSUME IInv, NoCrossTalk', NEW b \in Bases, NEW retMsg \in results, DealResult(b, retMsg)
  PROVE  \E pair \in Awaited, reply \in {Reply(r) : r \in results} :
           Ledger!Run(pair[1], pair[2], reply)
<1> DEFINE callback == callbackMap[b][retMsg.rpcid]
           run == [base |-> b, callback |-> callback, answer |-> retMsg,
                   data |-> CStr(retMsg.data)]
<1>1. /\ retMsg.state # 0 /\ callback # NoCallback
      /\ runs' = runs \cup {run}
      /\ UNCHANGED <<callbackMap, results, caller>>
  BY DEF DealResult
<1>2. /\ TypeOK /\ TableKeyed /\ caller \in Seq(Bases)
      /\ retMsg.rpcid \in Ids /\ callback \in Registrations
  BY <1>1, IdsType DEF IInv, TypeOK, Results
<1>3. callback.of \in Calls \cup HookIds
  <2>1. CASE callback.by = "testRegisterCB"
    BY <1>1, <1>2, <2>1 DEF TableKeyed, Keyed
  <2>2. CASE callback.by # "testRegisterCB"
    <3>1. callback.of \in 1 .. Len(caller)
      BY <1>1, <1>2, <2>2 DEF TableKeyed, Keyed
    <3>2. Len(caller) \in Calls
      BY DEF IInv, CallsNumbered
    <3>3. QED BY <3>1, <3>2, WidthAssumption DEF Calls
  <2>3. QED BY <2>1, <2>2
<1>4. <<b, callback.of>> \in Awaited
  BY <1>1, <1>2, <1>3 DEF Awaited
<1>5. run.base = b /\ run.callback = callback /\ run.answer = retMsg
  OBVIOUS
<1>6. Reply(retMsg) \in {Reply(r) : r \in results}
      /\ Reply(retMsg).state # 0 /\ Reply(retMsg).call = retMsg.call
  BY <1>1 DEF Reply
<1>7. Len(caller) < WireModulus => callback.of = retMsg.call
  <2> HIDE DEF run
  <2>1. run \in runs' /\ caller' = caller
    BY <1>1
  <2>2. QED BY <1>5, <2>1 DEF NoCrossTalk
<1>8. {RunOf(r) : r \in runs'} =
        {RunOf(r) : r \in runs}
          \cup {[base |-> b, call |-> callback.of, reply |-> Reply(retMsg)]}
  <2>1. RunOf(run) = [base |-> b, call |-> callback.of, reply |-> Reply(retMsg)]
    BY <1>5 DEF RunOf
  <2> HIDE DEF run
  <2>2. QED BY <1>1, <2>1
<1>9. Awaited' = Awaited /\ {Reply(r) : r \in results'} = {Reply(r) : r \in results}
  BY <1>1 DEF Awaited
<1>10. {RunOf(r) : r \in runs}' = {RunOf(r) : r \in runs'}
  BY DEF RunOf, Reply
<1>11. Ledger!Run(b, callback.of, Reply(retMsg))
  <2> HIDE DEF callback, run
  <2>1. UNCHANGED caller
    BY <1>1
  <2>2. QED BY <1>4, <1>6, <1>7, <1>8, <1>9, <1>10, <2>1 DEF Ledger!Run
<1>12. QED
  <2> DEFINE pair == <<b, callback.of>>
  <2>1. pair \in Awaited /\ pair[1] = b /\ pair[2] = callback.of
    BY <1>4
  <2> HIDE DEF pair, callback, run
  <2>2. QED BY <1>6, <1>11, <2>1

LEMMA StepMaps ==
  ASSUME IInv, IInv', NoCrossTalk', [Next]_vars
  PROVE  [Ledger!Next]_(Ledger!vars)
<1>1. ASSUME NEW b \in Bases, TakeIdOnly(b) \/ CallCb(b) \/ CallCbCmd(b)
      PROVE  Ledger!Next
  <2>1. Ledger!Call(b)
    BY <1>1, CallMaps DEF TakeIdOnly, CallCb, CallCbCmd
  <2>2. QED BY <2>1 DEF Ledger!Next
<1>2. ASSUME NEW b \in Bases, NEW id \in HookIds, TestRegisterCB(b, id)
      PROVE  [Ledger!Next]_(Ledger!vars)
  <2> DEFINE registration == [by |-> "testRegisterCB", of |-> id]
  <2>1. /\ Emplace(b, id, registration)
        /\ UNCHANGED <<results, caller, runs>>
    BY <1>2 DEF TestRegisterCB
  <2>2. id \in Ids /\ registration \in Registrations /\ registration.of = id
    BY DataAssumption, IdsType DEF Ids, Registrations
  <2>3. IInv /\ TypeOK /\ TableKeyed
    BY DEF IInv
  <2> HIDE DEF registration
  <2>4. \/ callbackMap[b][id] # NoCallback /\ Awaited' = Awaited
        \/ Awaited' = Awaited \cup {<<b, id>>}
    BY <2>1, <2>2, <2>3, EmplaceAwaits
  <2>5. {Reply(r) : r \in results}' = {Reply(r) : r \in results}
        /\ {RunOf(run) : run \in runs}' = {RunOf(run) : run \in runs}
    BY <2>1 DEF RunOf, Reply
  <2>6. Ledger!Await(b, id) \/ UNCHANGED Ledger!vars
    BY <2>1, <2>4, <2>5 DEF Ledger!Await, Ledger!vars
  <2>7. QED BY <2>6 DEF Ledger!Next
<1>3. ASSUME NEW b \in Bases, NEW data \in Payloads, AnswerCurrent(b, data)
      PROVE  Ledger!Next
  <2> DEFINE retMsg == [rpcid |-> Wire(rpcid[b]), state |-> 1,
                        data |-> data, call |-> lastCall[b]]
  <2>1. /\ results' = results \cup {retMsg}
        /\ UNCHANGED <<callbackMap, caller, runs>>
    BY <1>3 DEF AnswerCurrent
  <2>2. /\ lastCall[b] \in 0 .. Len(caller)
    BY WidthAssumption DEF IInv, TypeOK, CallsNumbered, Calls
  <2>3. retMsg.call = lastCall[b] /\ retMsg.state = 1 /\ retMsg.data = data
    OBVIOUS
  <2> HIDE DEF retMsg
  <2>4. Ledger!Reply(lastCall[b], 1, data)
    BY <2>1, <2>3, AnswerMaps
  <2>5. QED BY <2>2, <2>4 DEF Ledger!Next
<1>4. ASSUME NEW request \in requests, NEW state \in {0, 1}, NEW data \in Payloads,
             Answer(request, state, data)
      PROVE  Ledger!Next
  <2> DEFINE retMsg == [rpcid |-> request.rpcid, state |-> state,
                        data |-> data, call |-> request.call]
  <2>1. /\ results' = results \cup {retMsg}
        /\ UNCHANGED <<callbackMap, caller, runs>>
    BY <1>4 DEF Answer
  <2>2. /\ request.call \in 0 .. Len(caller)
    BY DEF IInv, TypeOK, RequestsKeyed
  <2>3. retMsg.call = request.call /\ retMsg.state = state /\ retMsg.data = data
    OBVIOUS
  <2> HIDE DEF retMsg
  <2>4. Ledger!Reply(request.call, state, data)
    BY <2>1, <2>3, AnswerMaps
  <2>5. QED BY <2>2, <2>4 DEF Ledger!Next
<1>5. ASSUME NEW b \in Bases, NEW retMsg \in results, DealResult(b, retMsg)
      PROVE  Ledger!Next
  BY <1>5, DealResultMaps DEF Ledger!Next
<1>6. CASE UNCHANGED vars
  BY <1>6 DEF vars, Ledger!vars, Awaited, RunOf, Reply
<1>7. QED BY <1>1, <1>2, <1>3, <1>4, <1>5, <1>6 DEF Next

\* The calling half keeps the ledger of calls, for any width of the ids and of
\* the wire: below 2^32 calls a reply runs the callback of its call, and none
\* at all that nobody awaits (RpcBase.h:123-267).
THEOREM KeepsLedger == Spec => ImplementsLedger
<1>1. Init => Ledger!Init
  BY DEF Init, Ledger!Init, Awaited
<1>2. IInv /\ IInv' /\ NoCrossTalk' /\ [Next]_vars => [Ledger!Next]_(Ledger!vars)
  BY StepMaps
<1>3. QED BY <1>1, <1>2, Invariance, OwnCallback, PTL DEF Spec, ImplementsLedger, Ledger!Spec
=============================================================================
