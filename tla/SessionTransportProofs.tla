----------------------- MODULE SessionTransportProofs -----------------------
(***************************************************************************)
(* What holds of SessionTransport for every set of calls, keys, connections *)
(* and responses, every length of a request and every limit.                *)
(***************************************************************************)
EXTENDS SessionTransport, TLAPS

-----------------------------------------------------------------------------
(* The inductive invariant.                                                *)

(* A call holds what its place in __call__ says it holds.                  *)
LocalsOK ==
    \A c \in Calls :
        /\ pc[c] \in InTry => conn[c] \in Conns
        /\ pc[c] = "reading" => head[c] \in Item
        /\ pc[c] \in {"idle", "waiting", "connecting"} => written[c] = 0
        /\ pc[c] = "sending" => written[c] < ReqLen

(* What a connection carries of a request.                                 *)
RequestsOK ==
    \A x \in Conns :
        /\ got[x] > 0 => asked[x] \in Calls
        /\ sock[x] = "none" => asked[x] = NoCall

(* A call is in the try over a connection that was opened.                 *)
SentOverOpen ==
    /\ \A c \in Calls : pc[c] \in InTry => sock[conn[c]] # "none"
    /\ \A k \in Keys : pool[k] # NoConn => sock[pool[k]] # "none"

(* A call that has not written its whole request has handed none whole to  *)
(* any connection, and the one it writes to has no more of it than it      *)
(* wrote: where a write fails, no node can have executed the call.         *)
Unwritten == {"idle", "waiting", "connecting", "sending"}
WrittenOK ==
    \A c \in Calls :
        /\ pc[c] \in Unwritten =>
              /\ executed[c] = 0
              /\ \A x \in Conns : asked[x] = c => got[x] < ReqLen
        /\ pc[c] \in {"idle", "waiting"} => \A x \in Conns : asked[x] # c
        /\ pc[c] = "connecting" => asked[conn[c]] # c
        /\ pc[c] = "sending" =>
              (asked[conn[c]] = c => got[conn[c]] <= written[c])

(* At most one connection holds a call's request whole, and while one does *)
(* the call is not executed.                                               *)
Whole(x) == asked[x] \in Calls /\ got[x] = ReqLen
WholeOK ==
    /\ \A x \in Conns : Whole(x) => executed[asked[x]] = 0
    /\ \A x, y \in Conns : Whole(x) /\ Whole(y) /\ asked[x] = asked[y] => x = y
    /\ AtMostOnce

IndInv ==
    /\ TypeOK /\ WireIsHeld /\ LocalsOK /\ SentOverOpen
    /\ RequestsOK /\ WrittenOK /\ WholeOK

-----------------------------------------------------------------------------
(* A response is a sequence of items of its call.                          *)
LEMMA ItemsType ==
    ASSUME NEW c \in Calls, NEW r \in Responses
    PROVE  Items(c, r) \in Seq(Item)
<1>1. r.size \in Nat
  BY WireAssumption DEF ResponseType
<1> DEFINE n == IF r.framing = "chunked" THEN r.size + 2 ELSE r.size + 1
<1>2. n \in Nat
  BY <1>1
<1>3. \A i \in 1 .. n : [kind |-> KindAt(r, i), call |-> c, resp |-> r] \in Item
  BY DEF Item, ItemKinds, KindAt
<1>4. Items(c, r) = [i \in 1 .. n |-> [kind |-> KindAt(r, i), call |-> c, resp |-> r]]
  BY DEF Items
<1>5. QED
  BY <1>2, <1>3, <1>4

(* The invariant holds initially.                                          *)
LEMMA InitInv == Init => IndInv
<1> SUFFICES ASSUME Init PROVE IndInv
  OBVIOUS
<1> USE CallsAssumption, WireAssumption DEF Init
<1>1. TypeOK
  BY DEF TypeOK, ClientTypeOK, WireTypeOK, Outcome, OutcomeKinds, Nothing
<1>2. WireIsHeld
  BY DEF WireIsHeld, InTry
<1>3. LocalsOK /\ RequestsOK /\ SentOverOpen
  BY DEF LocalsOK, RequestsOK, SentOverOpen, InTry
<1>4. WrittenOK
  BY DEF WrittenOK, Unwritten
<1>5. WholeOK
  BY DEF WholeOK, Whole, AtMostOnce
<1>6. QED
  BY <1>1, <1>2, <1>3, <1>4, <1>5 DEF IndInv

-----------------------------------------------------------------------------
(* The pieces the actions are made of keep the types.                      *)
LEMMA EndsType ==
    ASSUME ClientTypeOK, NEW c \in Calls, NEW o \in Outcome,
           NEW p \in Conns \cup {NoConn}, Ends(c, o, p)
    PROVE  ClientTypeOK'
<1> USE CallsAssumption, WireAssumption DEF ClientTypeOK, Ends
<1>1. pc' \in [Calls -> {"idle", "waiting", "done"} \cup InTry]
  OBVIOUS
<1>2. lock' \in Calls \cup {NoCall} /\ pool' \in [Keys -> Conns \cup {NoConn}]
  OBVIOUS
<1>3. /\ conn' \in [Calls -> Conns \cup {NoConn}]
      /\ canReconnect' \in [Calls -> BOOLEAN]
      /\ expired' \in [Calls -> BOOLEAN]
  OBVIOUS
<1>4. written' \in [Calls -> 0 .. ReqLen] /\ left' \in [Calls -> Nat]
  OBVIOUS
<1>5. head' \in [Calls -> Item \cup {NoHead}] /\ outcome' \in [Calls -> Outcome]
  OBVIOUS
<1>6. QED
  BY <1>1, <1>2, <1>3, <1>4, <1>5

LEMMA SwapsType ==
    ASSUME WireTypeOK, NEW S, NEW O, Swaps(S, O)
    PROVE  /\ sock' \in [Conns -> {"none", "open", "closed"}]
           /\ owed' \in [Conns -> Seq(Item)]
           /\ down' \in [Conns -> Seq(Item)]
BY DEF WireTypeOK, Swaps

(* The outcomes the transport gives.                                       *)
LEMMA OutcomeType == Error \in Outcome /\ NotReady \in Outcome
BY DEF Error, NotReady, Outcome, OutcomeKinds

LEMMA AnswerType ==
    ASSUME NEW c \in Calls, head[c] \in Item
    PROVE  Answer(c) \in Outcome
BY DEF Answer, Outcome, OutcomeKinds, Item

LEMMA FailsType ==
    ASSUME TypeOK, NEW c \in Calls, NEW o \in Outcome, Fails(c, o),
           UNCHANGED <<opener, unread, peer, asked, got, executed>>
    PROVE  TypeOK'
<1>1. ClientTypeOK'
  BY EndsType DEF TypeOK, Fails
<1>2. WireTypeOK'
  BY SwapsType DEF TypeOK, Fails, Closes, WireTypeOK
<1>3. QED
  BY <1>1, <1>2 DEF TypeOK

LEMMA OpensFreshType ==
    ASSUME TypeOK, NEW c \in Calls, NEW S, NEW p \in Conns \cup {NoConn},
           OpensFresh(c, S, p), UNCHANGED <<unread, peer, asked, got, executed>>
    PROVE  TypeOK'
<1>1. CASE Ends(c, Error, NoConn) /\ Closes(S) /\ UNCHANGED opener
  <2>1. ClientTypeOK'
    BY <1>1, EndsType, OutcomeType DEF TypeOK
  <2>2. WireTypeOK'
    BY <1>1, SwapsType DEF TypeOK, Closes, WireTypeOK
  <2>3. QED
    BY <2>1, <2>2 DEF TypeOK
<1>2. ASSUME NEW y \in Conns,
             /\ conn' = [conn EXCEPT ![c] = y]
             /\ opener' = [opener EXCEPT ![y] = c]
             /\ Swaps(S, {y})
             /\ pc' = [pc EXCEPT ![c] = "connecting"]
             /\ lock' = c
             /\ pool' = [pool EXCEPT ![KeyOf[c]] = p]
             /\ canReconnect' = [canReconnect EXCEPT ![c] = FALSE]
             /\ written' = [written EXCEPT ![c] = 0]
             /\ UNCHANGED <<head, left, expired, outcome>>
      PROVE  TypeOK'
  <2>1. ClientTypeOK'
    <3> USE <1>2, CallsAssumption, WireAssumption DEF TypeOK, ClientTypeOK
    <3>1. pc' \in [Calls -> {"idle", "waiting", "done"} \cup InTry]
      BY DEF InTry
    <3>2. lock' \in Calls \cup {NoCall} /\ pool' \in [Keys -> Conns \cup {NoConn}]
      OBVIOUS
    <3>3. /\ conn' \in [Calls -> Conns \cup {NoConn}]
          /\ canReconnect' \in [Calls -> BOOLEAN]
          /\ written' \in [Calls -> 0 .. ReqLen]
      OBVIOUS
    <3>4. QED
      BY <3>1, <3>2, <3>3
  <2>2. WireTypeOK'
    BY <1>2, SwapsType DEF TypeOK, WireTypeOK
  <2>3. QED
    BY <2>1, <2>2 DEF TypeOK
<1>3. QED
  BY <1>1, <1>2 DEF OpensFresh

-----------------------------------------------------------------------------
(* Every step keeps the types.                                             *)
LEMMA TypeStep == ASSUME IndInv, [Next]_vars PROVE TypeOK'
<1> USE CallsAssumption, WireAssumption DEF wire, local
<1>0. TypeOK
  BY DEF IndInv
<1>a. \A c \in Calls : pool[KeyOf[c]] \in Conns \cup {NoConn}
  BY <1>0 DEF TypeOK, ClientTypeOK
<1>1. ASSUME NEW c \in Calls, Begin(c) PROVE TypeOK'
  BY <1>0, <1>1 DEF Begin, TypeOK, ClientTypeOK, WireTypeOK
<1>2. ASSUME NEW c \in Calls, Expire(c) PROVE TypeOK'
  BY <1>0, <1>2 DEF Expire, TypeOK, ClientTypeOK, WireTypeOK
<1>3. ASSUME NEW c \in Calls, OpenFresh(c) \/ EvictDead(c) PROVE TypeOK'
  BY <1>0, <1>3, OpensFreshType DEF OpenFresh, EvictDead
<1>4. ASSUME NEW c \in Calls, Reuse(c) PROVE TypeOK'
  <2>1. CASE Ends(c, Error, Pooled(c))
    <3>1. ClientTypeOK'
      BY <1>0, <1>a, <2>1, EndsType, OutcomeType DEF TypeOK, Pooled
    <3>2. QED
      BY <1>0, <1>4, <3>1 DEF Reuse, TypeOK, WireTypeOK
  <2>2. CASE ~Ends(c, Error, Pooled(c))
    <3>1. ClientTypeOK'
      BY <1>0, <1>a, <1>4, <2>2 DEF Reuse, Pooled, TypeOK, ClientTypeOK, InTry
    <3>2. QED
      BY <1>0, <1>4, <3>1 DEF Reuse, TypeOK, WireTypeOK
  <2>3. QED
    BY <2>1, <2>2
<1>5. ASSUME NEW c \in Calls, Connect(c) PROVE TypeOK'
  BY <1>0, <1>5 DEF Connect, InTry, TypeOK, ClientTypeOK, WireTypeOK
<1>6. ASSUME NEW c \in Calls, SendUnit(c) PROVE TypeOK'
  <2>1. written[c] \in 0 .. ReqLen /\ written[c] < ReqLen
    BY <1>0, <1>6 DEF SendUnit, IndInv, LocalsOK, TypeOK, ClientTypeOK
  <2>2. ClientTypeOK'
    BY <1>0, <1>6, <2>1 DEF SendUnit, InTry, TypeOK, ClientTypeOK
  <2>3. asked[conn[c]] = c => got[conn[c]] < ReqLen
    BY <1>0, <1>6, <2>1 DEF SendUnit, IndInv, WrittenOK, Unwritten, LocalsOK, InTry
  <2>4. got' \in [Conns -> 0 .. ReqLen] /\ asked' \in [Conns -> Calls \cup {NoCall}]
    <3> DEFINE x == conn[c]
    <3>1. conn[c] \in Conns
      BY <1>6 DEF SendUnit, IndInv, LocalsOK, InTry
    <3>2. CASE peer[x] = "open"
      <4> DEFINE n == IF asked[x] = c THEN got[x] + 1 ELSE 1
      <4>1. n \in 0 .. ReqLen
        BY <1>0, <3>1, <2>3 DEF TypeOK, WireTypeOK
      <4>2. got' = [got EXCEPT ![x] = n] /\ asked' = [asked EXCEPT ![x] = c]
        BY <1>6, <3>2 DEF SendUnit
      <4> HIDE DEF n
      <4>3. QED
        BY <1>0, <4>1, <4>2 DEF TypeOK, WireTypeOK
    <3>3. CASE peer[x] # "open"
      BY <1>0, <1>6, <3>3 DEF SendUnit, TypeOK, WireTypeOK
    <3>4. QED
      BY <3>2, <3>3
  <2>5. peer' \in [Conns -> {"none", "open", "closed", "reset"}]
    BY <1>0, <1>6 DEF SendUnit, TypeOK, WireTypeOK
  <2>6. QED
    BY <1>0, <1>6, <2>2, <2>4, <2>5 DEF SendUnit, TypeOK, WireTypeOK
<1>7. ASSUME NEW c \in Calls, SendStale(c) PROVE TypeOK'
  BY <1>0, <1>a, <1>7, OpensFreshType, FailsType, OutcomeType DEF SendStale
<1>8. ASSUME NEW c \in Calls, ReadHead(c) PROVE TypeOK'
  <2>1. CASE Fails(c, Error)
    BY <1>0, <1>8, <2>1, FailsType, OutcomeType DEF ReadHead
  <2>2. CASE ~Fails(c, Error)
    <3>1. conn[c] \in Conns
      BY <1>8 DEF ReadHead, IndInv, LocalsOK, InTry
    <3>2. Head(down[conn[c]]) \in Item /\ Tail(down[conn[c]]) \in Seq(Item)
      BY <1>0, <1>8, <3>1 DEF ReadHead, TypeOK, WireTypeOK
    <3>3. Limit(Head(down[conn[c]]).resp) + 1 \in Nat
      BY DEF Limit
    <3>4. ClientTypeOK'
      <4> DEFINE h == Head(down[conn[c]])
      <4>1. /\ pc' = [pc EXCEPT ![c] = "reading"]
            /\ head' = [head EXCEPT ![c] = h]
            /\ left' = [left EXCEPT ![c] = Limit(h.resp) + 1]
            /\ pool' = [pool EXCEPT ![KeyOf[c]] = conn[c]]
            /\ UNCHANGED <<lock, conn, canReconnect, written, expired, outcome>>
        BY <1>8, <2>2 DEF ReadHead
      <4> HIDE DEF h
      <4>2. h \in Item /\ Limit(h.resp) + 1 \in Nat
        BY <3>2, <3>3 DEF h
      <4>3. pc' \in [Calls -> {"idle", "waiting", "done"} \cup InTry]
        BY <1>0, <4>1 DEF InTry, TypeOK, ClientTypeOK
      <4>4. head' \in [Calls -> Item \cup {NoHead}] /\ left' \in [Calls -> Nat]
        BY <1>0, <4>1, <4>2 DEF TypeOK, ClientTypeOK
      <4>5. pool' \in [Keys -> Conns \cup {NoConn}]
        BY <1>0, <4>1, <3>1 DEF TypeOK, ClientTypeOK
      <4>6. QED
        BY <1>0, <4>1, <4>3, <4>4, <4>5 DEF TypeOK, ClientTypeOK
    <3>5. WireTypeOK'
      <4>1. /\ down' = [down EXCEPT ![conn[c]] = Tail(@)]
            /\ UNCHANGED <<sock, opener, unread, peer, asked, got, owed>>
        BY <1>8, <2>2 DEF ReadHead
      <4>2. down' \in [Conns -> Seq(Item)]
        BY <1>0, <4>1, <3>2 DEF TypeOK, WireTypeOK
      <4>3. QED
        BY <1>0, <4>1, <4>2 DEF TypeOK, WireTypeOK
    <3>6. QED
      BY <1>0, <1>8, <3>4, <3>5 DEF ReadHead, TypeOK
  <2>3. QED
    BY <2>1, <2>2
<1>9. ASSUME NEW c \in Calls, RefuseResponse(c) PROVE TypeOK'
  BY <1>0, <1>9, FailsType, OutcomeType DEF RefuseResponse
<1>10. ASSUME NEW c \in Calls, ReadUnit(c) PROVE TypeOK'
  <2>1. conn[c] \in Conns
    BY <1>10 DEF ReadUnit, IndInv, LocalsOK, InTry
  <2>2. Tail(down[conn[c]]) \in Seq(Item)
    BY <1>0, <1>10, <2>1 DEF ReadUnit, TypeOK, WireTypeOK
  <2>3. ClientTypeOK'
    BY <1>0, <1>10 DEF ReadUnit, TypeOK, ClientTypeOK
  <2>4. WireTypeOK'
    BY <1>0, <1>10, <2>2 DEF ReadUnit, TypeOK, WireTypeOK
  <2>5. QED
    BY <1>0, <1>10, <2>3, <2>4 DEF ReadUnit, TypeOK
<1>11. ASSUME NEW c \in Calls, Finish(c) PROVE TypeOK'
  <2>1. conn[c] \in Conns /\ Answer(c) \in Outcome
    BY <1>11, AnswerType DEF Finish, IndInv, LocalsOK, InTry
  <2>2. CASE Fails(c, Error) /\ UNCHANGED unread
    BY <1>0, <1>11, <2>2, FailsType, OutcomeType DEF Finish
  <2>3. CASE Ends(c, Answer(c), NoConn) /\ Closes({conn[c]}) /\ UNCHANGED unread
    <3>1. Fails(c, Answer(c))
      BY <2>3 DEF Fails
    <3>2. QED
      BY <1>0, <1>11, <2>1, <2>3, <3>1, FailsType DEF Finish
  <2>4. CASE /\ Ends(c, Answer(c), conn[c])
             /\ unread' = [unread EXCEPT ![conn[c]] = ~IsClosed(c)]
             /\ down' = [down EXCEPT ![conn[c]] =
                           IF left[c] > 0 /\ AtLastChunk(c) THEN Tail(@) ELSE @]
             /\ UNCHANGED <<sock, owed>>
    <3>1. ClientTypeOK'
      BY <1>0, <2>1, <2>4, EndsType DEF TypeOK
    <3>2. (~IsClosed(c)) \in BOOLEAN
      OBVIOUS
    <3>3. unread' \in [Conns -> BOOLEAN]
      BY <1>0, <2>4, <3>2 DEF TypeOK, WireTypeOK
    <3>4. AtLastChunk(c) => Tail(down[conn[c]]) \in Seq(Item)
      BY <1>0, <2>1 DEF AtLastChunk, TypeOK, WireTypeOK
    <3>5. down' \in [Conns -> Seq(Item)]
      BY <1>0, <2>4, <3>4 DEF TypeOK, WireTypeOK
    <3>6. QED
      BY <1>0, <1>11, <2>4, <3>1, <3>3, <3>5 DEF Finish, TypeOK, WireTypeOK
  <2>5. QED
    BY <1>11, <2>2, <2>3, <2>4 DEF Finish
<1>12. ASSUME NEW c \in Calls, TimesOut(c) \/ Raises(c) PROVE TypeOK'
  BY <1>0, <1>12, FailsType, OutcomeType DEF TimesOut, Raises
<1>13. ASSUME CloseAll PROVE TypeOK'
  <2>1. ClientTypeOK'
    BY <1>0, <1>13 DEF CloseAll, TypeOK, ClientTypeOK
  <2>2. WireTypeOK'
    BY <1>0, <1>13, SwapsType DEF CloseAll, Closes, TypeOK, WireTypeOK
  <2>3. QED
    BY <1>0, <1>13, <2>1, <2>2 DEF CloseAll, TypeOK
<1>14. ASSUME NEW x \in Conns, NodeExecutes(x) PROVE TypeOK'
  <2>1. asked[x] \in Calls
    BY <1>0, <1>14 DEF NodeExecutes, IndInv, RequestsOK
  <2>2. ClientTypeOK'
    BY <1>0, <1>14 DEF NodeExecutes, client, TypeOK, ClientTypeOK
  <2>3. owed' \in [Conns -> Seq(Item)]
    <3>1. ASSUME NEW r \in Responses PROVE owed[x] \o Items(asked[x], r) \in Seq(Item)
      BY <1>0, <2>1, ItemsType DEF TypeOK, WireTypeOK
    <3>2. QED
      <4>1. CASE UNCHANGED owed
        BY <1>0, <4>1 DEF TypeOK, WireTypeOK
      <4>2. ASSUME NEW r \in Responses,
                   owed' = [owed EXCEPT ![x] = @ \o Items(asked[x], r)]
            PROVE  owed' \in [Conns -> Seq(Item)]
        <5>1. owed \in [Conns -> Seq(Item)]
          BY <1>0 DEF TypeOK, WireTypeOK
        <5> DEFINE s == owed[x] \o Items(asked[x], r)
        <5>2. s \in Seq(Item)
          BY <3>1
        <5>3. owed' = [owed EXCEPT ![x] = s]
          BY <4>2
        <5> HIDE DEF s
        <5>4. QED
          BY <5>1, <5>2, <5>3
      <4>3. QED
        BY <1>14, <4>1, <4>2 DEF NodeExecutes
  <2>4. got' \in [Conns -> 0 .. ReqLen] /\ executed' \in [Calls -> Nat]
    <3>1. executed \in [Calls -> Nat] /\ got \in [Conns -> 0 .. ReqLen]
      BY <1>0 DEF TypeOK, WireTypeOK
    <3>2. /\ got' = [got EXCEPT ![x] = 0]
          /\ executed' = [executed EXCEPT ![asked[x]] = executed[asked[x]] + 1]
      BY <1>14 DEF NodeExecutes
    <3>3. executed[asked[x]] + 1 \in Nat /\ 0 \in 0 .. ReqLen
      BY <2>1, <3>1
    <3>4. QED
      BY <3>1, <3>2, <3>3
  <2>5. QED
    BY <1>0, <1>14, <2>2, <2>3, <2>4 DEF NodeExecutes, TypeOK, WireTypeOK
<1>15. ASSUME NEW x \in Conns, NodeSends(x) PROVE TypeOK'
  <2>1. Head(owed[x]) \in Item /\ Tail(owed[x]) \in Seq(Item)
    BY <1>0, <1>15 DEF NodeSends, TypeOK, WireTypeOK
  <2>2. Append(down[x], Head(owed[x])) \in Seq(Item)
    BY <1>0, <2>1 DEF TypeOK, WireTypeOK
  <2>3. ClientTypeOK'
    BY <1>0, <1>15 DEF NodeSends, client, TypeOK, ClientTypeOK
  <2>4. QED
    BY <1>0, <1>15, <2>1, <2>2, <2>3 DEF NodeSends, TypeOK, WireTypeOK
<1>16. ASSUME NEW x \in Conns, NodeCloses(x) PROVE TypeOK'
  <2>1. ClientTypeOK'
    BY <1>0, <1>16 DEF NodeCloses, client, TypeOK, ClientTypeOK
  <2>2. QED
    <3>1. peer' \in [Conns -> {"none", "open", "closed", "reset"}]
      BY <1>0, <1>16 DEF NodeCloses, TypeOK, WireTypeOK
    <3>2. << >> \in Seq(Item)
      OBVIOUS
    <3>3. owed' \in [Conns -> Seq(Item)]
      BY <1>0, <1>16, <3>2 DEF NodeCloses, TypeOK, WireTypeOK
    <3>4. QED
      BY <1>0, <1>16, <2>1, <3>1, <3>3 DEF NodeCloses, TypeOK, WireTypeOK
<1>17. ASSUME UNCHANGED vars PROVE TypeOK'
  BY <1>0, <1>17 DEF vars, client, TypeOK, ClientTypeOK, WireTypeOK
<1>18. QED
  BY <1>1, <1>2, <1>3, <1>4, <1>5, <1>6, <1>7, <1>8, <1>9, <1>10, <1>11,
     <1>12, <1>13, <1>14, <1>15, <1>16, <1>17
  DEF Next, CallStep, NodeStep, Terminating

(* Every step keeps the lock with the call that is in the try.             *)
LEMMA LockStep == ASSUME IndInv, [Next]_vars PROVE WireIsHeld'
<1>0. /\ pc \in [Calls -> {"idle", "waiting", "done"} \cup InTry]
      /\ WireIsHeld /\ NoCall \notin Calls
  BY CallsAssumption DEF IndInv, TypeOK, ClientTypeOK
<1> USE <1>0 DEF WireIsHeld, InTry
<1>1. ASSUME NEW c \in Calls, NEW o, NEW p, Ends(c, o, p),
             lock = c \/ lock = NoCall
      PROVE  WireIsHeld'
  BY <1>1 DEF Ends
<1>2. ASSUME NEW c \in Calls, NEW S, NEW p, OpensFresh(c, S, p),
             lock = c \/ lock = NoCall
      PROVE  WireIsHeld'
  <2>1. CASE Ends(c, Error, NoConn)
    BY <1>1, <1>2, <2>1
  <2>2. CASE lock' = c /\ pc' = [pc EXCEPT ![c] = "connecting"]
    BY <1>2, <2>2
  <2>3. QED
    BY <1>2, <2>1, <2>2 DEF OpensFresh
<1>3. ASSUME NEW c \in Calls, Begin(c) \/ Expire(c) PROVE WireIsHeld'
  BY <1>3 DEF Begin, Expire
<1>4. ASSUME NEW c \in Calls, OpenFresh(c) \/ EvictDead(c) PROVE WireIsHeld'
  BY <1>2, <1>4 DEF OpenFresh, EvictDead, Acquires
<1>5. ASSUME NEW c \in Calls, Reuse(c) PROVE WireIsHeld'
  BY <1>1, <1>5 DEF Reuse, Acquires
<1>6. ASSUME NEW c \in Calls, Connect(c) \/ SendUnit(c) PROVE WireIsHeld'
  BY <1>6 DEF Connect, SendUnit
<1>7. ASSUME NEW c \in Calls, SendStale(c) PROVE WireIsHeld'
  BY <1>1, <1>2, <1>7 DEF SendStale, Fails
<1>8. ASSUME NEW c \in Calls, ReadHead(c) \/ ReadUnit(c) PROVE WireIsHeld'
  BY <1>1, <1>8 DEF ReadHead, ReadUnit, Fails
<1>9. ASSUME NEW c \in Calls, Finish(c) PROVE WireIsHeld'
  BY <1>1, <1>9 DEF Finish, Fails
<1>10. ASSUME NEW c \in Calls, RefuseResponse(c) \/ TimesOut(c) \/ Raises(c)
       PROVE  WireIsHeld'
  BY <1>1, <1>10 DEF RefuseResponse, TimesOut, Raises, Fails
<1>11. ASSUME CloseAll \/ UNCHANGED vars \/ \E x \in Conns : NodeStep(x)
       PROVE  WireIsHeld'
  BY <1>11 DEF CloseAll, vars, client, NodeStep, NodeExecutes, NodeSends, NodeCloses
<1>12. QED
  BY <1>3, <1>4, <1>5, <1>6, <1>7, <1>8, <1>9, <1>10, <1>11
  DEF Next, CallStep, Terminating

(* Every step keeps the connections in use, and the pooled ones, opened.    *)
LEMMA OpenedStep == ASSUME IndInv, [Next]_vars PROVE SentOverOpen'
<1>0. /\ TypeOK /\ LocalsOK /\ SentOverOpen
      /\ \A c \in Calls : pool[KeyOf[c]] \in Conns \cup {NoConn}
  BY CallsAssumption DEF IndInv, TypeOK, ClientTypeOK
<1> USE <1>0, CallsAssumption DEF SentOverOpen, LocalsOK, InTry, TypeOK, ClientTypeOK, wire, local
<1>1. ASSUME NEW c \in Calls, NEW o, NEW p,
             p \in {NoConn, pool[KeyOf[c]]} \/ (p = conn[c] /\ pc[c] \in InTry),
             Ends(c, o, p), UNCHANGED sock \/ \E S, O : Swaps(S, O)
      PROVE  SentOverOpen'
  <2>1. \A x \in Conns : sock[x] # "none" => sock'[x] # "none"
    BY <1>1 DEF Swaps
  <2>2. QED
    BY <1>1, <2>1 DEF Ends
<1>2. ASSUME NEW c \in Calls, NEW S, NEW p \in {NoConn, pool[KeyOf[c]]},
             OpensFresh(c, S, p)
      PROVE  SentOverOpen'
  <2>1. CASE Ends(c, Error, NoConn) /\ Closes(S)
    BY <1>1, <2>1 DEF Closes
  <2>2. ASSUME NEW y \in Conns, conn' = [conn EXCEPT ![c] = y], Swaps(S, {y}),
               pc' = [pc EXCEPT ![c] = "connecting"],
               pool' = [pool EXCEPT ![KeyOf[c]] = p]
        PROVE  SentOverOpen'
    <3>1. sock'[y] # "none" /\ \A x \in Conns : sock[x] # "none" => sock'[x] # "none"
      BY <2>2 DEF Swaps
    <3>2. QED
      BY <1>2, <2>2, <3>1
  <2>3. QED
    BY <1>2, <2>1, <2>2 DEF OpensFresh
<1>3. ASSUME NEW c \in Calls, Begin(c) \/ Expire(c) PROVE SentOverOpen'
  BY <1>3 DEF Begin, Expire
<1>4. ASSUME NEW c \in Calls, OpenFresh(c) \/ EvictDead(c) PROVE SentOverOpen'
  BY <1>2, <1>4 DEF OpenFresh, EvictDead
<1>5. ASSUME NEW c \in Calls, Reuse(c) PROVE SentOverOpen'
  BY <1>5 DEF Reuse, Acquires, Pooled, Ends
<1>6. ASSUME NEW c \in Calls, Connect(c) \/ SendUnit(c) PROVE SentOverOpen'
  BY <1>6 DEF Connect, SendUnit
<1>7. ASSUME NEW c \in Calls, SendStale(c) PROVE SentOverOpen'
  BY <1>1, <1>2, <1>7 DEF SendStale, Fails, Closes
<1>8. ASSUME NEW c \in Calls, ReadHead(c) \/ ReadUnit(c) PROVE SentOverOpen'
  BY <1>1, <1>8 DEF ReadHead, ReadUnit, Fails, Closes
<1>9. ASSUME NEW c \in Calls, Finish(c) PROVE SentOverOpen'
  BY <1>1, <1>9 DEF Finish, Fails, Closes
<1>10. ASSUME NEW c \in Calls, RefuseResponse(c) \/ TimesOut(c) \/ Raises(c)
       PROVE  SentOverOpen'
  BY <1>1, <1>10 DEF RefuseResponse, TimesOut, Raises, Fails, Closes
<1>11. ASSUME CloseAll PROVE SentOverOpen'
  <2>1. \A x \in Conns : sock[x] # "none" => sock'[x] # "none"
    BY <1>11 DEF CloseAll, Closes, Swaps
  <2>2. QED
    BY <1>11, <2>1 DEF CloseAll
<1>12. ASSUME UNCHANGED vars \/ \E x \in Conns : NodeStep(x)
       PROVE  SentOverOpen'
  BY <1>12 DEF vars, client, NodeStep, NodeExecutes, NodeSends, NodeCloses
<1>13. QED
  BY <1>3, <1>4, <1>5, <1>6, <1>7, <1>8, <1>9, <1>10, <1>11, <1>12
  DEF Next, CallStep, Terminating

(* Every step keeps what a call holds.                                     *)
LEMMA LocalsStep == ASSUME IndInv, [Next]_vars PROVE LocalsOK'
<1>0. /\ TypeOK /\ LocalsOK
      /\ \A c \in Calls : pool[KeyOf[c]] \in Conns \cup {NoConn}
  BY CallsAssumption DEF IndInv, TypeOK, ClientTypeOK
<1>a. TypeOK'
  BY TypeStep
<1> USE <1>0, WireAssumption DEF LocalsOK, InTry, TypeOK, ClientTypeOK, local
<1>1. ASSUME NEW c \in Calls, NEW o, NEW p, Ends(c, o, p) PROVE LocalsOK'
  BY <1>1 DEF Ends
<1>2. ASSUME NEW c \in Calls, NEW S, NEW p, OpensFresh(c, S, p) PROVE LocalsOK'
  BY <1>1, <1>2 DEF OpensFresh
<1>3. ASSUME NEW c \in Calls, Begin(c) \/ Expire(c) PROVE LocalsOK'
  BY <1>3 DEF Begin, Expire
<1>4. ASSUME NEW c \in Calls, OpenFresh(c) \/ EvictDead(c) PROVE LocalsOK'
  BY <1>2, <1>4 DEF OpenFresh, EvictDead
<1>5. ASSUME NEW c \in Calls, Reuse(c) PROVE LocalsOK'
  BY <1>1, <1>5 DEF Reuse, Acquires, Pooled
<1>6. ASSUME NEW c \in Calls, Connect(c) \/ SendUnit(c) PROVE LocalsOK'
  BY <1>6 DEF Connect, SendUnit
<1>7. ASSUME NEW c \in Calls, SendStale(c) PROVE LocalsOK'
  BY <1>1, <1>2, <1>7 DEF SendStale, Fails
<1>8. ASSUME NEW c \in Calls, ReadHead(c) PROVE LocalsOK'
  <2>1. CASE Fails(c, Error)
    BY <1>1, <2>1 DEF Fails
  <2>2. CASE ~Fails(c, Error)
    <3>1. conn[c] \in Conns
      BY <1>8 DEF ReadHead
    <3>2. down[conn[c]] \in Seq(Item) /\ down[conn[c]] # << >>
      BY <3>1, <1>8 DEF ReadHead, WireTypeOK
    <3>3. Head(down[conn[c]]) \in Item
      BY <3>2
    <3>4. /\ pc' = [pc EXCEPT ![c] = "reading"]
          /\ head' = [head EXCEPT ![c] = Head(down[conn[c]])]
          /\ UNCHANGED <<conn, written>>
          /\ pc[c] = "awaiting"
      BY <1>8, <2>2 DEF ReadHead
    <3>5. QED
      BY <3>1, <3>3, <3>4
  <2>3. QED
    BY <2>1, <2>2
<1>9. ASSUME NEW c \in Calls, ReadUnit(c) PROVE LocalsOK'
  BY <1>9 DEF ReadUnit
<1>10. ASSUME NEW c \in Calls, Finish(c) PROVE LocalsOK'
  BY <1>1, <1>10 DEF Finish, Fails
<1>11. ASSUME NEW c \in Calls, RefuseResponse(c) \/ TimesOut(c) \/ Raises(c)
       PROVE  LocalsOK'
  BY <1>1, <1>11 DEF RefuseResponse, TimesOut, Raises, Fails
<1>12. ASSUME CloseAll \/ UNCHANGED vars \/ \E x \in Conns : NodeStep(x)
       PROVE  LocalsOK'
  BY <1>12 DEF CloseAll, vars, client, NodeStep, NodeExecutes, NodeSends, NodeCloses
<1>13. QED
  BY <1>3, <1>4, <1>5, <1>6, <1>7, <1>8, <1>9, <1>10, <1>11, <1>12
  DEF Next, CallStep, Terminating

-----------------------------------------------------------------------------
(* Where a request can be.                                                 *)

(* A step that hands no connection a unit of a request and executes        *)
(* nothing; a call may stop, or start on a connection it has not used.     *)
Quiet ==
    /\ UNCHANGED <<asked, got, executed>>
    /\ \A x \in Conns : sock'[x] = "none" => sock[x] = "none"
    /\ \A c \in Calls :
          \/ pc'[c] \notin Unwritten
          \/ /\ pc'[c] = pc[c]
             /\ conn'[c] = conn[c]
             /\ written'[c] = written[c]
          \/ /\ pc[c] = "idle" /\ pc'[c] = "waiting"
          \/ /\ pc[c] \in Unwritten
             /\ pc'[c] = "connecting"
             /\ asked[conn'[c]] = NoCall
          \/ /\ pc[c] = "waiting" /\ pc'[c] = "sending"
             /\ conn'[c] \in Conns
          \/ /\ pc[c] = "connecting" /\ pc'[c] = "sending"
             /\ conn'[c] = conn[c]

LEMMA EndsQuiet ==
    ASSUME IndInv, NEW c \in Calls, NEW o, NEW p, Ends(c, o, p),
           \/ UNCHANGED <<sock, down, owed>>
           \/ \E S : Closes(S),
           UNCHANGED <<asked, got, executed>>
    PROVE  Quiet
<1>1. pc \in [Calls -> {"idle", "waiting", "done"} \cup InTry]
      /\ conn \in [Calls -> Conns \cup {NoConn}] /\ written \in [Calls -> 0 .. ReqLen]
  BY DEF IndInv, TypeOK, ClientTypeOK
<1>2. \A x \in Conns : sock'[x] = "none" => sock[x] = "none"
  BY DEF Closes, Swaps
<1>3. QED
  BY <1>1, <1>2 DEF Quiet, Ends, Unwritten

LEMMA OpensFreshQuiet ==
    ASSUME IndInv, NEW c \in Calls, NEW S, NEW p, OpensFresh(c, S, p),
           pc[c] \in {"waiting", "sending"}, UNCHANGED <<asked, got, executed>>
    PROVE  Quiet
<1>1. CASE Ends(c, Error, NoConn) /\ Closes(S)
  BY <1>1, EndsQuiet
<1>2. ASSUME NEW y \in Conns, sock[y] = "none",
             conn' = [conn EXCEPT ![c] = y], Swaps(S, {y}),
             pc' = [pc EXCEPT ![c] = "connecting"],
             written' = [written EXCEPT ![c] = 0]
      PROVE  Quiet
  <2>1. pc \in [Calls -> {"idle", "waiting", "done"} \cup InTry]
        /\ conn \in [Calls -> Conns \cup {NoConn}]
        /\ written \in [Calls -> 0 .. ReqLen]
        /\ asked[y] = NoCall
    BY <1>2 DEF IndInv, TypeOK, ClientTypeOK, RequestsOK
  <2>2. \A x \in Conns : sock'[x] = "none" => sock[x] = "none"
    BY <1>2 DEF Swaps
  <2>3. QED
    BY <1>2, <2>1, <2>2 DEF Quiet, Unwritten
<1>3. QED
  BY <1>1, <1>2 DEF OpensFresh

(* Every step is quiet, or writes a unit, or executes a call.              *)
LEMMA StepKinds ==
    ASSUME IndInv, [Next]_vars
    PROVE  \/ Quiet
           \/ \E c \in Calls : SendUnit(c)
           \/ \E x \in Conns : NodeExecutes(x)
<1>0. /\ pc \in [Calls -> {"idle", "waiting", "done"} \cup InTry]
      /\ conn \in [Calls -> Conns \cup {NoConn}]
      /\ written \in [Calls -> 0 .. ReqLen]
      /\ pool \in [Keys -> Conns \cup {NoConn}]
      /\ KeyOf \in [Calls -> Keys]
  BY CallsAssumption DEF IndInv, TypeOK, ClientTypeOK
<1> USE <1>0 DEF wire, local
<1>1. ASSUME NEW c \in Calls, Begin(c) \/ Expire(c) PROVE Quiet
  BY <1>1 DEF Begin, Expire, Quiet
<1>2. ASSUME NEW c \in Calls, OpenFresh(c) \/ EvictDead(c) PROVE Quiet
  BY <1>2, OpensFreshQuiet DEF OpenFresh, EvictDead, Acquires
<1>3. ASSUME NEW c \in Calls, Reuse(c) PROVE Quiet
  <2>1. CASE Ends(c, Error, Pooled(c))
    BY <1>3, <2>1, EndsQuiet DEF Reuse
  <2>2. CASE ~Ends(c, Error, Pooled(c))
    BY <1>3, <2>2 DEF Reuse, Acquires, Pooled, Quiet
  <2>3. QED
    BY <2>1, <2>2
<1>4. ASSUME NEW c \in Calls, Connect(c) PROVE Quiet
  BY <1>4 DEF Connect, Quiet
<1>5. ASSUME NEW c \in Calls, SendStale(c) PROVE Quiet
  BY <1>5, OpensFreshQuiet, EndsQuiet DEF SendStale, Fails
<1>6. ASSUME NEW c \in Calls, ReadHead(c) \/ ReadUnit(c) PROVE Quiet
  <2>1. CASE Fails(c, Error)
    BY <1>6, <2>1, EndsQuiet DEF ReadHead, ReadUnit, Fails
  <2>2. CASE ~Fails(c, Error)
    BY <1>6, <2>2 DEF ReadHead, ReadUnit, Quiet, Unwritten
  <2>3. QED
    BY <2>1, <2>2
<1>7. ASSUME NEW c \in Calls, Finish(c) PROVE Quiet
  <2>1. CASE Ends(c, Answer(c), conn[c]) /\ UNCHANGED <<sock, owed>>
    BY <1>7, <2>1 DEF Finish, Ends, Quiet, Unwritten
  <2>2. CASE ~(Ends(c, Answer(c), conn[c]) /\ UNCHANGED <<sock, owed>>)
    BY <1>7, <2>2, EndsQuiet DEF Finish, Fails
  <2>3. QED
    BY <2>1, <2>2
<1>8. ASSUME NEW c \in Calls, RefuseResponse(c) \/ TimesOut(c) \/ Raises(c)
      PROVE  Quiet
  BY <1>8, EndsQuiet DEF RefuseResponse, TimesOut, Raises, Fails
<1>9. ASSUME CloseAll \/ UNCHANGED vars PROVE Quiet
  BY <1>9 DEF CloseAll, Closes, Swaps, vars, client, Quiet
<1>10. ASSUME NEW x \in Conns, NodeSends(x) \/ NodeCloses(x) PROVE Quiet
  BY <1>10 DEF NodeSends, NodeCloses, client, Quiet
<1>11. QED
  BY <1>1, <1>2, <1>3, <1>4, <1>5, <1>6, <1>7, <1>8, <1>9, <1>10
  DEF Next, CallStep, NodeStep, Terminating

(* What SendUnit does, with the bounds the invariant gives it.             *)
LEMMA SendUnitFacts ==
    ASSUME IndInv, NEW c \in Calls, SendUnit(c)
    PROVE  /\ pc[c] = "sending" /\ conn[c] \in Conns
           /\ written[c] < ReqLen /\ executed[c] = 0
           /\ \A x \in Conns : asked[x] = c => got[x] < ReqLen
           /\ asked[conn[c]] = c => got[conn[c]] <= written[c]
           /\ written' = [written EXCEPT ![c] = written[c] + 1]
           /\ pc' = [pc EXCEPT ![c] =
                       IF written[c] + 1 = ReqLen THEN "awaiting" ELSE "sending"]
           /\ UNCHANGED <<conn, executed, sock>>
           /\ \/ UNCHANGED <<asked, got>>
              \/ /\ asked' = [asked EXCEPT ![conn[c]] = c]
                 /\ got' = [got EXCEPT ![conn[c]] =
                              IF asked[conn[c]] = c THEN got[conn[c]] + 1 ELSE 1]
BY DEF IndInv, LocalsOK, WrittenOK, Unwritten, SendUnit, InTry

(* Every step keeps the bookkeeping of requests.                           *)
LEMMA RequestsStep == ASSUME IndInv, [Next]_vars PROVE RequestsOK'
<1> USE CallsAssumption, WireAssumption
<1>0. /\ asked \in [Conns -> Calls \cup {NoCall}] /\ got \in [Conns -> 0 .. ReqLen]
      /\ \A x \in Conns : got[x] > 0 => asked[x] \in Calls
      /\ \A x \in Conns : sock[x] = "none" => asked[x] = NoCall
  BY DEF IndInv, TypeOK, WireTypeOK, RequestsOK
<1>1. CASE Quiet
  BY <1>0, <1>1 DEF Quiet, RequestsOK
<1>2. ASSUME NEW c \in Calls, SendUnit(c) PROVE RequestsOK'
  <2>1. sock[conn[c]] # "none"
    BY <1>2, SendUnitFacts DEF IndInv, SentOverOpen, InTry
  <2>2. QED
    BY <1>0, <1>2, <2>1, SendUnitFacts DEF RequestsOK
<1>3. ASSUME NEW x \in Conns, NodeExecutes(x) PROVE RequestsOK'
  BY <1>0, <1>3 DEF NodeExecutes, RequestsOK
<1>4. QED
  BY <1>1, <1>2, <1>3, StepKinds

(* Every step keeps what a call that is still writing has written.         *)
LEMMA WrittenStep == ASSUME IndInv, [Next]_vars PROVE WrittenOK'
<1> USE CallsAssumption, WireAssumption
<1>0. /\ asked \in [Conns -> Calls \cup {NoCall}] /\ got \in [Conns -> 0 .. ReqLen]
      /\ pc \in [Calls -> {"idle", "waiting", "done"} \cup InTry]
      /\ written \in [Calls -> 0 .. ReqLen]
      /\ executed \in [Calls -> Nat]
      /\ LocalsOK /\ RequestsOK /\ WrittenOK
  BY DEF IndInv, TypeOK, ClientTypeOK, WireTypeOK
<1>1. CASE Quiet
  <2> SUFFICES ASSUME NEW c \in Calls, pc'[c] \in Unwritten
               PROVE  /\ executed'[c] = 0
                      /\ \A x \in Conns : asked'[x] = c => got'[x] < ReqLen
                      /\ pc'[c] \in {"idle", "waiting"} => \A x \in Conns : asked'[x] # c
                      /\ pc'[c] = "connecting" => asked'[conn'[c]] # c
                      /\ pc'[c] = "sending" =>
                            (asked'[conn'[c]] = c => got'[conn'[c]] <= written'[c])
    BY DEF WrittenOK, Unwritten
  <2>1. pc[c] \in Unwritten
    BY <1>1 DEF Quiet, Unwritten
  <2>2. QED
    BY <1>0, <1>1, <2>1 DEF Quiet, WrittenOK, Unwritten
<1>2. ASSUME NEW c \in Calls, SendUnit(c) PROVE WrittenOK'
  <2>1. ASSUME NEW d \in Calls, d # c
        PROVE  /\ pc'[d] = pc[d] /\ written'[d] = written[d] /\ conn'[d] = conn[d]
               /\ executed'[d] = executed[d]
               /\ \A x \in Conns : asked'[x] = d => asked[x] = d /\ got'[x] = got[x]
    BY <1>0, <1>2, <2>1, SendUnitFacts
  <2>2. QED
    BY <1>0, <1>2, <2>1, SendUnitFacts DEF WrittenOK, Unwritten, LocalsOK, InTry
<1>3. ASSUME NEW x \in Conns, NodeExecutes(x) PROVE WrittenOK'
  <2>1. /\ asked' = asked
        /\ got' = [got EXCEPT ![x] = 0]
        /\ executed' = [executed EXCEPT ![asked[x]] = executed[asked[x]] + 1]
        /\ pc' = pc /\ conn' = conn /\ written' = written
        /\ got[x] = ReqLen
    BY <1>3 DEF NodeExecutes, client, local
  <2>2. \A d \in Calls : pc[d] \in Unwritten => asked[x] # d
    BY <1>0, <2>1 DEF WrittenOK
  <2>3. \A y \in Conns : got'[y] <= got[y]
    BY <1>0, <2>1
  <2>4. \A d \in Calls : pc[d] \in Unwritten => executed'[d] = executed[d]
    BY <1>0, <2>1, <2>2
  <2>5. QED
    BY <1>0, <2>1, <2>3, <2>4 DEF WrittenOK, Unwritten, LocalsOK, InTry
<1>4. QED
  BY <1>1, <1>2, <1>3, StepKinds

(* Every step keeps at most one whole request of a call in the world.      *)
LEMMA WholeStep == ASSUME IndInv, [Next]_vars PROVE WholeOK'
<1> USE CallsAssumption, WireAssumption
<1>0. /\ asked \in [Conns -> Calls \cup {NoCall}] /\ got \in [Conns -> 0 .. ReqLen]
      /\ executed \in [Calls -> Nat] /\ WholeOK
  BY DEF IndInv, TypeOK, WireTypeOK
<1> USE DEF WholeOK, Whole, AtMostOnce
<1>1. CASE Quiet
  BY <1>0, <1>1 DEF Quiet
<1>2. ASSUME NEW c \in Calls, SendUnit(c) PROVE WholeOK'
  BY <1>0, <1>2, SendUnitFacts
<1>3. ASSUME NEW x \in Conns, NodeExecutes(x) PROVE WholeOK'
  <2>1. Whole(x) /\ executed[asked[x]] = 0
    BY <1>0, <1>3 DEF NodeExecutes, IndInv, RequestsOK
  <2>2. /\ asked' = asked
        /\ got' = [got EXCEPT ![x] = 0]
        /\ executed' = [executed EXCEPT ![asked[x]] = executed[asked[x]] + 1]
    BY <1>3 DEF NodeExecutes
  <2>3. QED
    BY <1>0, <2>1, <2>2
<1>4. QED
  BY <1>1, <1>2, <1>3, StepKinds

-----------------------------------------------------------------------------
(* The invariant is inductive.                                             *)
LEMMA Inductive == IndInv /\ [Next]_vars => IndInv'
BY TypeStep, LockStep, OpenedStep, LocalsStep, RequestsStep, WrittenStep, WholeStep
DEF IndInv

(* It is an invariant of every behaviour.                                  *)
THEOREM Invariance == Spec => []IndInv
<1>1. Init => IndInv
  BY InitInv
<1>2. IndInv /\ [Next]_vars => IndInv'
  BY Inductive
<1>3. QED
  BY <1>1, <1>2, PTL DEF Spec

(* __call__, close() and the node only ever give the variables values of   *)
(* their types, for any number of calls, keys and connections.             *)
THEOREM TypeCorrect == Spec => []TypeOK
<1>1. IndInv => TypeOK
  BY DEF IndInv
<1>2. QED
  BY <1>1, Invariance, PTL

(* `with self._lock` around the whole exchange: two calls are never        *)
(* between taking a connection and returning at once.                      *)
THEOREM WireHeld == Spec => []WireIsHeld
<1>1. IndInv => WireIsHeld
  BY DEF IndInv
<1>2. QED
  BY <1>1, Invariance, PTL

(* _send_and_receive resends a request only where no node can have         *)
(* executed it: no call is executed twice, whatever connections fail and   *)
(* whenever the node acts on what it was sent.                             *)
THEOREM ExecutedAtMostOnce == Spec => []AtMostOnce
<1>1. IndInv => AtMostOnce
  BY DEF IndInv, WholeOK
<1>2. QED
  BY <1>1, Invariance, PTL

-----------------------------------------------------------------------------
(* What is kept between calls: whose connection it is, that it is open and  *)
(* nothing is left on it; hence that an answer is the call's own, and that  *)
(* the transport implements RpcExchange.                                   *)

-----------------------------------------------------------------------------
(* The connections: who opened them and who has them.                      *)

Using(c) == pc[c] \in InTry

(* A connection is opened by a call once, and a call that may still open    *)
(* one has opened none.                                                    *)
OpenersOK ==
    /\ \A x \in Conns : sock[x] = "none" <=> opener[x] = NoCall
    /\ \A c \in Calls : ~ Using(c) => conn[c] = NoConn
    /\ \A c \in Calls :
          pc[c] \in {"idle", "waiting"} \/ canReconnect[c] => \A x \in Conns : opener[x] # c
    /\ \A c \in Calls : canReconnect[c] => Using(c)

(* Outside an exchange a pooled connection is open; during it the pool may  *)
(* name a closed one, or the one in use, under its key.                     *)
PoolOK ==
    /\ \A c \in Calls : Using(c) => sock[conn[c]] = "open"
    /\ \A x \in Conns : sock[x] = "open" =>
          (\E k \in Keys : pool[k] = x) \/ \E c \in Calls : Using(c) /\ conn[c] = x
    /\ \A k \in Keys : pool[k] # NoConn =>
          sock[pool[k]] = "open" \/ \E c \in Calls : Using(c) /\ KeyOf[c] = k
    /\ \A c \in Calls : Using(c) /\ pool[KeyOf[c]] # NoConn =>
          pool[KeyOf[c]] = conn[c] \/ sock[pool[KeyOf[c]]] = "closed"

HeldInv == OpenersOK /\ OneConnectionPerCall /\ KeysAreApart /\ PoolOK

Known == IndInv /\ HeldInv

LEMMA Basics ==
    ASSUME IndInv
    PROVE  /\ TypeOK /\ WireIsHeld /\ SentOverOpen /\ LocalsOK
           /\ pc \in [Calls -> {"idle", "waiting", "done"} \cup InTry]
           /\ lock \in Calls \cup {NoCall} /\ pool \in [Keys -> Conns \cup {NoConn}]
           /\ conn \in [Calls -> Conns \cup {NoConn}] /\ canReconnect \in [Calls -> BOOLEAN]
           /\ sock \in [Conns -> {"none", "open", "closed"}]
           /\ opener \in [Conns -> Calls \cup {NoCall}]
           /\ \A c \in Calls : KeyOf[c] \in Keys /\ (Using(c) => conn[c] \in Conns)
           /\ \A c \in Calls : Using(c) <=> lock = c
           /\ NoCall \notin Calls /\ NoConn \notin Conns
BY CallsAssumption, SMT
DEF IndInv, TypeOK, ClientTypeOK, WireTypeOK, LocalsOK, WireIsHeld, Using, CallsAssumption

-----------------------------------------------------------------------------
(* What the steps do to the connections.                                   *)

(* A call ends with nothing pooled under its key.                          *)
Drops(c) ==
    /\ \E o : Ends(c, o, NoConn)
    /\ opener' = opener
    /\ \/ pc[c] = "waiting" /\ lock = NoCall /\ pool[KeyOf[c]] = NoConn /\ Closes({})
       \/ pc[c] = "waiting" /\ lock = NoCall /\ Closes({pool[KeyOf[c]]})
       \/ Using(c) /\ Closes({conn[c]})

(* A call takes a new connection y, in the place of none, of a dead one or  *)
(* of the one that failed it.                                              *)
Taken(c, S, p, y) ==
    /\ sock[y] = "none" /\ conn' = [conn EXCEPT ![c] = y] /\ opener' = [opener EXCEPT ![y] = c]
    /\ pc' = [pc EXCEPT ![c] = "connecting"] /\ canReconnect' = [canReconnect EXCEPT ![c] = FALSE]
    /\ Swaps(S, {y}) /\ pool' = [pool EXCEPT ![KeyOf[c]] = p]
Opens(c, y) ==
    \/ /\ pc[c] = "waiting" /\ lock = NoCall
       /\ \/ pool[KeyOf[c]] = NoConn /\ Taken(c, {}, NoConn, y)
          \/ pool[KeyOf[c]] # NoConn /\ Taken(c, {pool[KeyOf[c]]}, NoConn, y)
    \/ Using(c) /\ canReconnect[c] /\ Taken(c, {conn[c]}, pool[KeyOf[c]], y)

(* A call ends, and what is pooled under its key is open.                   *)
Keeping(c) ==
    /\ \/ pc[c] = "waiting" /\ lock = NoCall /\ \E o : Ends(c, o, pool[KeyOf[c]])
       \/ Using(c) /\ \E o : Ends(c, o, conn[c])
    /\ UNCHANGED <<opener, sock>>

Reuses(c) ==
    /\ pc[c] = "waiting" /\ lock = NoCall /\ pool[KeyOf[c]] # NoConn
    /\ pc' = [pc EXCEPT ![c] = "sending"] /\ conn' = [conn EXCEPT ![c] = pool[KeyOf[c]]]
    /\ canReconnect' = [canReconnect EXCEPT ![c] = TRUE]
    /\ UNCHANGED <<pool, opener, sock>>

(* A call waits for the lock, or goes on over its connection.               *)
GoesOn(c) ==
    /\ \/ pc[c] = "idle" /\ pc' = [pc EXCEPT ![c] = "waiting"] /\ UNCHANGED pool
       \/ pc' = pc /\ UNCHANGED pool
       \/ /\ Using(c) /\ \E at \in InTry : pc' = [pc EXCEPT ![c] = at]
          /\ pool' = [pool EXCEPT ![KeyOf[c]] = conn[c]] \/ UNCHANGED pool
    /\ UNCHANGED <<conn, canReconnect, opener, sock>>

Elsewhere == UNCHANGED <<pc, conn, canReconnect, pool, opener, sock>>

LEMMA Kinds ==
    ASSUME [Next]_vars
    PROVE  \/ \E c \in Calls : \/ Drops(c) \/ Keeping(c) \/ Reuses(c) \/ GoesOn(c)
                               \/ \E y \in Conns : Opens(c, y)
           \/ CloseAll \/ Elsewhere
<1> USE DEF Using, InTry, wire, local
<1>1. ASSUME NEW c \in Calls, Begin(c) \/ Expire(c) \/ Connect(c) \/ SendUnit(c) \/ ReadUnit(c)
      PROVE  GoesOn(c)
    BY <1>1, SMT DEF Begin, Expire, Connect, SendUnit, ReadUnit, GoesOn
<1>a. ASSUME NEW c, NEW S, NEW q, OpensFresh(c, S, q)
      PROVE  \/ Ends(c, Error, NoConn) /\ Closes(S) /\ opener' = opener
             \/ \E y \in Conns : Taken(c, S, q, y)
    BY <1>a, Zenon DEF OpensFresh, Taken
<1>2. ASSUME NEW c \in Calls, OpenFresh(c) \/ EvictDead(c)
      PROVE  Drops(c) \/ \E y \in Conns : Opens(c, y)
  <2>1. /\ pc[c] = "waiting" /\ lock = NoCall
        /\ \/ pool[KeyOf[c]] = NoConn /\ OpensFresh(c, {}, NoConn)
           \/ pool[KeyOf[c]] # NoConn /\ OpensFresh(c, {pool[KeyOf[c]]}, NoConn)
      BY <1>2, Zenon DEF OpenFresh, EvictDead, Acquires, Pooled
  <2> QED BY <1>a, <2>1, Zenon DEF Drops, Opens
<1>3. ASSUME NEW c \in Calls, Reuse(c) PROVE Keeping(c) \/ Reuses(c)
    BY <1>3, SMT DEF Reuse, Acquires, Pooled, Keeping, Reuses
<1>4. ASSUME NEW c \in Calls, SendStale(c) PROVE Drops(c) \/ \E y \in Conns : Opens(c, y)
  <2>1. /\ Using(c)
        /\ \/ canReconnect[c] /\ OpensFresh(c, {conn[c]}, pool[KeyOf[c]])
           \/ Ends(c, Error, NoConn) /\ Closes({conn[c]}) /\ opener' = opener
      BY <1>4, SMT DEF SendStale, Fails
  <2> HIDE DEF Using
  <2> QED BY <1>a, <2>1, Zenon DEF Drops, Opens
<1>5. ASSUME NEW c \in Calls, ReadHead(c) PROVE Drops(c) \/ GoesOn(c)
    BY <1>5, SMT DEF ReadHead, Fails, Drops, GoesOn
<1>6. ASSUME NEW c \in Calls, RefuseResponse(c) \/ TimesOut(c) \/ Raises(c) PROVE Drops(c)
    BY <1>6, SMT DEF RefuseResponse, TimesOut, Raises, Fails, Drops
<1>7. ASSUME NEW c \in Calls, Finish(c) PROVE Drops(c) \/ Keeping(c)
    BY <1>7, SMT DEF Finish, Fails, Drops, Keeping
<1>8. ASSUME UNCHANGED vars \/ \E x \in Conns : NodeStep(x) PROVE Elsewhere
  <2>1. UNCHANGED client \/ UNCHANGED vars
      BY <1>8, Zenon DEF NodeStep, NodeExecutes, NodeSends, NodeCloses
  <2>2. UNCHANGED <<opener, sock>>
      BY <1>8, Zenon DEF vars, wire, NodeStep, NodeExecutes, NodeSends, NodeCloses
  <2> QED BY <2>1, <2>2, Zenon DEF vars, client, Elsewhere
<1> QED BY <1>1, <1>2, <1>3, <1>4, <1>5, <1>6, <1>7, <1>8 DEF Next, CallStep, Terminating

LEMMA DropsKeeps == ASSUME Known, NEW c \in Calls, Drops(c) PROVE HeldInv'
<1> USE Basics DEF Known, HeldInv, InTry, Using
<1>1. OpenersOK'
    BY SMT DEF OpenersOK, Drops, Ends, Closes, Swaps, SentOverOpen
<1>2. OneConnectionPerCall' /\ KeysAreApart'
    BY SMT DEF OneConnectionPerCall, KeysAreApart, Drops, Ends
<1>3. PoolOK'
    BY SMT DEF PoolOK, KeysAreApart, Drops, Ends, Closes, Swaps
<1> QED BY <1>1, <1>2, <1>3

LEMMA KeepingKeeps == ASSUME Known, NEW c \in Calls, Keeping(c) PROVE HeldInv'
<1> USE Basics DEF Known, HeldInv, InTry, Using
<1>1. OpenersOK'
    BY SMT DEF OpenersOK, Keeping, Ends
<1>2. OneConnectionPerCall' /\ KeysAreApart'
    BY SMT DEF OneConnectionPerCall, KeysAreApart, Keeping, Ends
<1>3. PoolOK'
    BY SMT DEF PoolOK, KeysAreApart, Keeping, Ends
<1> QED BY <1>1, <1>2, <1>3

LEMMA ReusesKeeps == ASSUME Known, NEW c \in Calls, Reuses(c) PROVE HeldInv'
<1> USE Basics DEF Known, HeldInv, InTry, Using
<1>1. OpenersOK'
    BY SMT DEF OpenersOK, Reuses
<1>2. OneConnectionPerCall' /\ KeysAreApart'
    BY SMT DEF OneConnectionPerCall, KeysAreApart, Reuses
<1>3. PoolOK'
    BY SMT DEF PoolOK, KeysAreApart, Reuses
<1> QED BY <1>1, <1>2, <1>3

LEMMA GoesOnKeeps == ASSUME Known, NEW c \in Calls, GoesOn(c) PROVE HeldInv'
<1> USE Basics DEF Known, HeldInv, InTry, Using
<1>1. OpenersOK'
    BY SMT DEF OpenersOK, GoesOn
<1>2. OneConnectionPerCall' /\ KeysAreApart'
    BY SMT DEF OneConnectionPerCall, KeysAreApart, GoesOn
<1>3. PoolOK'
    BY SMT DEF PoolOK, KeysAreApart, GoesOn
<1> QED BY <1>1, <1>2, <1>3

LEMMA OpensKeeps == ASSUME Known, NEW c \in Calls, NEW y \in Conns, Opens(c, y) PROVE HeldInv'
<1> USE Basics DEF Known, HeldInv, InTry, Using
<1>1. /\ sock'[y] = "open"
      /\ \A x \in Conns : sock'[x] = "none" <=> sock[x] = "none" /\ x # y
    BY SMT DEF Opens, Taken, Swaps, OpenersOK, SentOverOpen
<1>2. OpenersOK'
    BY <1>1, SMT DEF OpenersOK, Opens, Taken
<1>3. OneConnectionPerCall' /\ KeysAreApart'
    BY SMT DEF OneConnectionPerCall, KeysAreApart, OpenersOK, Opens, Taken, SentOverOpen
<1>4. PoolOK'
    BY SMT DEF PoolOK, KeysAreApart, Opens, Taken, Swaps, SentOverOpen
<1> QED BY <1>2, <1>3, <1>4

LEMMA CloseAllKeeps == ASSUME Known, CloseAll PROVE HeldInv'
<1> USE Basics DEF Known, HeldInv, InTry, Using
<1>1. OpenersOK'
    BY SMT DEF OpenersOK, CloseAll, Closes, Swaps, SentOverOpen, local
<1>2. OneConnectionPerCall' /\ KeysAreApart'
    BY SMT DEF OneConnectionPerCall, KeysAreApart, CloseAll, local
<1>3. PoolOK'
    BY SMT DEF PoolOK, CloseAll, Closes, Swaps, local
<1> QED BY <1>1, <1>2, <1>3

LEMMA ElsewhereKeeps == ASSUME Known, Elsewhere PROVE HeldInv'
BY SMT DEF Known, HeldInv, OpenersOK, OneConnectionPerCall, KeysAreApart, PoolOK, Using, Elsewhere

LEMMA HeldInitially == Init => HeldInv
BY CallsAssumption, SMT DEF Init, HeldInv, OpenersOK, OneConnectionPerCall, KeysAreApart, PoolOK,
   Using, InTry, CallsAssumption

LEMMA HeldStays == Known /\ [Next]_vars => HeldInv'
BY Kinds, DropsKeeps, KeepingKeeps, ReusesKeeps, GoesOnKeeps, OpensKeeps, CloseAllKeeps,
   ElsewhereKeeps, Zenon

LEMMA HeldAlways == Spec => []Known
<1>1. Init => Known
    BY InitInv, HeldInitially, Zenon DEF Known
<1>2. Known /\ [Next]_vars => Known'
    BY Inductive, HeldStays, Zenon DEF Known
<1> QED BY <1>1, <1>2, PTL DEF Spec

-----------------------------------------------------------------------------
(* What is on its way over a connection: the sequence d has arrived, w will *)
(* be sent, and both are the items behind the k that were read.             *)

Follows(d, w, items, k) ==
    /\ Len(d) + Len(w) + k <= Len(items)
    /\ \A i \in 1 .. Len(d) : d[i] = items[k + i]
    /\ \A i \in 1 .. Len(w) : w[i] = items[k + Len(d) + i]

LEMMA FollowsRead ==
    ASSUME NEW d \in Seq(Item), NEW w \in Seq(Item), NEW items \in Seq(Item), NEW k \in Nat,
           Follows(d, w, items, k), d # <<>>
    PROVE  Head(d) = items[k + 1] /\ Follows(Tail(d), w, items, k + 1)
<1>1. /\ Len(d) \in Nat /\ Len(d) > 0 /\ Tail(d) \in Seq(Item) /\ Len(Tail(d)) = Len(d) - 1
      /\ Head(d) = d[1] /\ \A i \in 1 .. Len(d) - 1 : Tail(d)[i] = d[i + 1]
    BY SMT
<1>2. Len(w) \in Nat /\ Len(items) \in Nat
    BY SMT
<1>3. Head(d) = items[k + 1]
    BY <1>1, <1>2, SMT DEF Follows
<1>4. \A i \in 1 .. Len(Tail(d)) : Tail(d)[i] = items[k + 1 + i]
    BY <1>1, <1>2, SMT DEF Follows
<1>5. \A i \in 1 .. Len(w) : w[i] = items[k + 1 + Len(Tail(d)) + i]
    BY <1>1, <1>2, SMT DEF Follows
<1>6. Len(Tail(d)) + Len(w) + (k + 1) <= Len(items)
    BY <1>1, <1>2, SMT DEF Follows
<1> QED BY <1>3, <1>4, <1>5, <1>6, Zenon DEF Follows

LEMMA FollowsSent ==
    ASSUME NEW d \in Seq(Item), NEW w \in Seq(Item), NEW items \in Seq(Item), NEW k \in Nat,
           Follows(d, w, items, k), w # <<>>
    PROVE  Follows(Append(d, Head(w)), Tail(w), items, k)
<1> DEFINE e == Append(d, Head(w))
           v == Tail(w)
<1>1. /\ Len(w) \in Nat /\ Len(w) > 0 /\ Len(v) = Len(w) - 1
      /\ Head(w) = w[1] /\ \A i \in 1 .. Len(w) - 1 : v[i] = w[i + 1]
    BY SMT
<1>2. /\ Len(d) \in Nat /\ Len(items) \in Nat /\ Len(e) = Len(d) + 1
      /\ \A i \in 1 .. Len(d) : e[i] = d[i]
      /\ e[Len(d) + 1] = Head(w)
    BY <1>1, SMT
<1> HIDE DEF e, v
<1>3. Head(w) = items[k + Len(d) + 1]
    BY <1>1, <1>2, SMT DEF Follows
<1>4. \A i \in 1 .. Len(e) : e[i] = items[k + i]
    BY <1>2, <1>3, SMT DEF Follows
<1>5. \A i \in 1 .. Len(v) : v[i] = items[k + Len(e) + i]
  <2> SUFFICES ASSUME NEW i \in 1 .. Len(v) PROVE v[i] = items[k + Len(e) + i]
      OBVIOUS
  <2>1. v[i] = w[i + 1] /\ i + 1 \in 1 .. Len(w)
      BY <1>1, SMT
  <2>2. w[i + 1] = items[k + Len(d) + (i + 1)]
      BY <2>1, Zenon DEF Follows
  <2>3. k + Len(d) + (i + 1) = k + Len(e) + i
      BY <1>1, <1>2, SMT
  <2> QED BY <2>1, <2>2, <2>3
<1>6. Len(e) + Len(v) + k <= Len(items)
    BY <1>1, <1>2, SMT DEF Follows
<1> QED BY <1>4, <1>5, <1>6, Zenon DEF Follows, e, v

LEMMA FollowsLost ==
    ASSUME NEW d \in Seq(Item), NEW w \in Seq(Item), NEW items \in Seq(Item), NEW k \in Nat,
           Follows(d, w, items, k)
    PROVE  Follows(d, <<>>, items, k)
<1>1. Len(d) \in Nat /\ Len(w) \in Nat /\ Len(items) \in Nat /\ Len(<<>>) = 0
    BY SMT
<1>2. Len(d) + Len(<<>>) + k <= Len(items)
    BY <1>1, SMT DEF Follows
<1>3. \A i \in 1 .. Len(<<>>) : FALSE
    BY <1>1, SMT
<1> QED BY <1>2, <1>3, Zenon DEF Follows

LEMMA FollowsNew ==
    ASSUME NEW items \in Seq(Item)
    PROVE  Follows(<<>>, <<>> \o items, items, 0)
<1>1. <<>> \o items = items /\ Len(items) \in Nat /\ Len(<<>>) = 0
    BY SMT
<1>2. \A i \in 1 .. Len(items) : items[i] = items[0 + Len(<<>>) + i]
    BY <1>1, SMT
<1>3. \A i \in 1 .. Len(<<>>) : FALSE
    BY <1>1, SMT
<1>4. Len(<<>>) + Len(items) + 0 <= Len(items)
    BY <1>1, SMT
<1> QED BY <1>1, <1>2, <1>3, <1>4, Zenon DEF Follows

LEMMA Emptied == \A s \in Seq(Item) : Len(s) = 0 => s = <<>>
BY SMT

LEMMA OneLeft == ASSUME NEW s \in Seq(Item), Len(s) = 1 PROVE Tail(s) = <<>>
<1>1. s # <<>>
    BY SMT
<1>2. Tail(s) \in Seq(Item) /\ Len(Tail(s)) = 0
    BY <1>1, SMT
<1> QED BY <1>2, Emptied, Zenon

LEMMA LastOne ==
    \A a, b, n, z \in Nat :
        a > 0 /\ a + b + (1 + n) <= z + 2 /\ ~ (1 + n + 1 <= 1 + z) => a = 1 /\ b = 0
BY SMT

(* Once the announced length, or all before the last chunk, has been read   *)
(* nothing follows it.                                                     *)
LEMMA NothingFollows ==
    ASSUME NEW d \in Seq(Item), NEW w \in Seq(Item), NEW c \in Calls, NEW r \in Responses,
           NEW n \in Nat, Follows(d, w, Items(c, r), 1 + n)
    PROVE  /\ r.framing = "length" /\ n = r.size => d = <<>> /\ w = <<>>
           /\ r.framing = "chunked" /\ d # <<>> /\ Head(d).kind = "last" =>
                 Tail(d) = <<>> /\ w = <<>>
<1>1. r.size \in Nat
    BY WireAssumption DEF ResponseType, WireAssumption
<1> DEFINE m == IF r.framing = "chunked" THEN r.size + 2 ELSE r.size + 1
           items == Items(c, r)
<1>2. items \in Seq(Item)
    BY ItemsType
<1>3. /\ m \in Nat
      /\ items = [i \in 1 .. m |-> [kind |-> KindAt(r, i), call |-> c, resp |-> r]]
    BY <1>1, SMT DEF Items
<1>4. /\ Len(items) = m
      /\ \A i \in 1 .. m : items[i].kind = KindAt(r, i)
    BY <1>2, <1>3, SMT
<1> HIDE DEF items
<1>5. Len(d) \in Nat /\ Len(w) \in Nat /\ Len(d) + Len(w) + (1 + n) <= m
    BY <1>4, SMT DEF Follows, items
<1>6. ASSUME r.framing = "length", n = r.size PROVE d = <<>> /\ w = <<>>
  <2>1. Len(d) = 0 /\ Len(w) = 0
      BY <1>1, <1>5, <1>6, SMT
  <2> QED BY <2>1, SMT
<1>7. ASSUME r.framing = "chunked", d # <<>>, Head(d).kind = "last"
      PROVE  Tail(d) = <<>> /\ w = <<>>
  <2>1. Follows(d, w, items, 1 + n)
      BY DEF items
  <2>2. 1 + n \in Nat /\ d # <<>> /\ Head(d).kind = "last"
      BY <1>7, SMT
  <2>3. Head(d) = items[1 + n + 1]
      BY <1>2, <2>1, <2>2, FollowsRead
  <2>4. Len(d) > 0
      BY <2>2, SMT
  <2>5. 1 + n + 1 \in 1 .. m
      BY <1>3, <1>5, <2>4, SMT
  <2>6. KindAt(r, 1 + n + 1) = "last"
      BY <1>4, <2>2, <2>3, <2>5
  <2>7. ~ (1 + n + 1 <= 1 + r.size)
      BY <1>1, <2>6, SMT DEF KindAt
  <2>8. m = r.size + 2
      BY <1>7
  <2> HIDE DEF m
  <2>9. Len(d) + Len(w) + (1 + n) <= r.size + 2
      BY <1>5, <2>8, Zenon
  <2>10. Len(d) = 1 /\ Len(w) = 0
      BY <1>1, <1>5, <2>4, <2>7, <2>9, LastOne, Zenon
  <2> QED BY <2>10, Emptied, OneLeft, Zenon
<1> QED BY <1>6, <1>7
-----------------------------------------------------------------------------
(* What is on the connections.                                             *)

Silent(x) == down[x] = <<>> /\ owed[x] = <<>>
InUse(x) == \E c \in Calls : Using(c) /\ conn[c] = x

(* A connection that no call uses has nothing asked, owed or unread on it;  *)
(* nor has one that is not open, but for a request the node may still hold. *)
EndsOK ==
    \A x \in Conns :
        /\ sock[x] # "open" => Silent(x)
        /\ sock[x] = "none" => got[x] = 0
        /\ peer[x] # "open" => owed[x] = <<>>
        /\ sock[x] = "open" /\ ~ InUse(x) => Silent(x) /\ got[x] = 0

(* Over the one a call uses: nothing but what it wrote, until the node has  *)
(* executed it; from there on what is left of one response to that call.    *)
Unanswered(c) == Silent(conn[c]) /\ (got[conn[c]] > 0 => asked[conn[c]] = c)
Answering(c, r, k) ==
    /\ got[conn[c]] = 0 /\ executed[c] = 1
    /\ Follows(down[conn[c]], owed[conn[c]], Items(c, r), k)
Reading(c, h, n) ==
    /\ h.call = c /\ h.resp \in Responses
    /\ n \in 0 .. Limit(h.resp) + 1
    /\ Answering(c, h.resp, 1 + (Limit(h.resp) + 1 - n))
ExchangeOf(c) ==
    /\ pc[c] = "connecting" => Silent(conn[c]) /\ got[conn[c]] = 0
    /\ pc[c] = "sending" => Unanswered(c)
    /\ pc[c] = "awaiting" => Unanswered(c) \/ \E r \in Responses : Answering(c, r, 0)
    /\ pc[c] = "reading" => Reading(c, head[c], left[c])
ExchangeOK == \A c \in Calls : Using(c) => ExchangeOf(c)

WireInv == EndsOK /\ ExchangeOK /\ NoCrosstalk

LEMMA WireFacts ==
    ASSUME IndInv
    PROVE  /\ peer \in [Conns -> {"none", "open", "closed", "reset"}]
           /\ asked \in [Conns -> Calls \cup {NoCall}] /\ got \in [Conns -> 0 .. ReqLen]
           /\ owed \in [Conns -> Seq(Item)] /\ down \in [Conns -> Seq(Item)]
           /\ executed \in [Calls -> Nat] /\ outcome \in [Calls -> Outcome]
           /\ head \in [Calls -> Item \cup {NoHead}] /\ left \in [Calls -> Nat]
           /\ ReqLen \in Nat /\ ReqLen > 0 /\ MaxBody \in Nat /\ ErrLimit \in Nat
BY WireAssumption, SMT DEF IndInv, TypeOK, ClientTypeOK, WireTypeOK, WireAssumption

(* The call that has the lock, or takes it, is the only one in an exchange  *)
(* before the step and after it.                                           *)
LEMMA OnlyUser ==
    ASSUME Known, NEW c \in Calls, Using(c) \/ lock = NoCall,
           \A d \in Calls \ {c} : pc'[d] = pc[d]
    PROVE  \A d \in Calls \ {c} : ~ Using(d) /\ pc'[d] \notin InTry
BY Basics, SMT DEF Known, Using

Told(c) == outcome'[c].kind \in {"answer", "short"} => outcome'[c].from = c /\ executed[c] = 1
SameNode == UNCHANGED <<peer, asked, got, executed>>

(* A step that tells no call anything, and executes none anew.             *)
LEMMA ToldKeeps ==
    ASSUME WireInv, NEW c \in Calls, Told(c), UNCHANGED executed,
           \A d \in Calls \ {c} : outcome'[d] = outcome[d]
    PROVE  NoCrosstalk'
BY SMT DEF WireInv, NoCrosstalk, Told

(* What Swaps does to one connection.                                      *)
LEMMA SwapsEach ==
    ASSUME NEW S, NEW O, Swaps(S, O), NEW x \in Conns
    PROVE  /\ x \in S => sock'[x] = "closed" /\ down'[x] = <<>> /\ owed'[x] = <<>>
           /\ x \notin S => down'[x] = down[x] /\ owed'[x] = owed[x]
           /\ x \notin S /\ x \in O => sock'[x] = "open"
           /\ x \notin S /\ x \notin O => sock'[x] = sock[x]
<1>1. x \in S => sock'[x] = "closed"
    BY Zenon DEF Swaps
<1>2. x \in S => down'[x] = <<>> /\ owed'[x] = <<>>
    BY Zenon DEF Swaps
<1>3. x \notin S => down'[x] = down[x] /\ owed'[x] = owed[x]
    BY Zenon DEF Swaps
<1>4. x \notin S /\ x \in O => sock'[x] = "open"
    BY Zenon DEF Swaps
<1>5. x \notin S /\ x \notin O => sock'[x] = sock[x]
    BY Zenon DEF Swaps
<1> QED BY <1>1, <1>2, <1>3, <1>4, <1>5, Zenon

(* What Closes does to one connection.                                     *)
LEMMA ClosesEach ==
    ASSUME NEW S, Closes(S), NEW x \in Conns
    PROVE  \/ sock'[x] = "closed" /\ down'[x] = <<>> /\ owed'[x] = <<>>
           \/ sock'[x] = sock[x] /\ down'[x] = down[x] /\ owed'[x] = owed[x]
<1>1. x \in S => sock'[x] = "closed"
    BY Zenon DEF Closes, Swaps
<1>2. x \in S => down'[x] = <<>> /\ owed'[x] = <<>>
    BY Zenon DEF Closes, Swaps
<1>3. x \notin S => down'[x] = down[x] /\ owed'[x] = owed[x]
    BY Zenon DEF Closes, Swaps
<1>4. x \notin S => sock'[x] = sock[x]
    BY Zenon DEF Closes, Swaps
<1> QED BY <1>1, <1>2, <1>3, <1>4, Zenon

LEMMA DropKeepsWire ==
    ASSUME Known, WireInv, NEW c \in Calls, Drops(c), SameNode, Told(c)
    PROVE  WireInv'
<1> USE Basics, WireFacts DEF Known
<1>1. /\ \A d \in Calls \ {c} : pc'[d] = pc[d] /\ outcome'[d] = outcome[d]
      /\ pc'[c] = "done"
      /\ Using(c) \/ lock = NoCall
    BY SMT DEF Drops, Ends
<1>a. pc'[c] \notin InTry
    BY <1>1, SMT DEF InTry
<1>b. \A d \in Calls \ {c} : ~ Using(d) /\ pc'[d] \notin InTry
    BY <1>1, OnlyUser, Zenon
<1>2. \A d \in Calls : pc'[d] \notin InTry
    BY <1>a, <1>b, Zenon
<1>3. ExchangeOK'
    BY <1>2, Zenon DEF ExchangeOK, Using
<1>4. NoCrosstalk'
    BY <1>1, ToldKeeps, Zenon DEF SameNode
<1>5. PICK S : Closes(S) /\ (Using(c) => conn[c] \in S)
    BY SMT DEF Drops, Using, InTry
<1>6. \A x \in Conns : sock'[x] = "open" => sock[x] = "open" /\ ~ InUse(x)
    BY <1>b, <1>5, SMT DEF Closes, Swaps, InUse
<1>7. ASSUME NEW x \in Conns
      PROVE  \/ sock'[x] = "closed" /\ down'[x] = <<>> /\ owed'[x] = <<>>
             \/ sock'[x] = sock[x] /\ down'[x] = down[x] /\ owed'[x] = owed[x]
    BY <1>5, ClosesEach, Zenon
<1>8. EndsOK'
  <2> SUFFICES ASSUME NEW x \in Conns
               PROVE  /\ sock'[x] # "open" => Silent(x)'
                      /\ sock'[x] = "none" => got'[x] = 0
                      /\ peer'[x] # "open" => owed'[x] = <<>>
                      /\ sock'[x] = "open" => Silent(x)' /\ got'[x] = 0
      BY Zenon DEF EndsOK
  <2>1. /\ sock[x] # "open" => Silent(x)
        /\ sock[x] = "none" => got[x] = 0
        /\ peer[x] # "open" => owed[x] = <<>>
        /\ sock[x] = "open" /\ ~ InUse(x) => Silent(x) /\ got[x] = 0
      BY Zenon DEF WireInv, EndsOK
  <2> QED BY <1>6, <1>7, <2>1, SMT DEF Silent, SameNode
<1> QED BY <1>3, <1>4, <1>8 DEF WireInv

(* A step of the call in the exchange, over its own connection.             *)
Apart(c) ==
    /\ \A x \in Conns \ {conn[c]} : /\ down'[x] = down[x] /\ owed'[x] = owed[x]
                                     /\ peer'[x] = peer[x] /\ got'[x] = got[x]
    /\ \A d \in Calls \ {c} : pc'[d] = pc[d]
    /\ Using(c) /\ pc'[c] \in InTry
    /\ UNCHANGED <<sock, conn, executed, outcome>>

LEMMA ApartKeepsWire ==
    ASSUME Known, WireInv, NEW c \in Calls, Apart(c), ExchangeOf(c)',
           peer'[conn[c]] # "open" => owed'[conn[c]] = <<>>
    PROVE  WireInv'
<1> USE Basics, WireFacts DEF Known
<1>1. \A d \in Calls \ {c} : ~ Using(d) /\ pc'[d] \notin InTry
    BY OnlyUser, Zenon DEF Apart
<1>2. ExchangeOK'
    BY <1>1, Zenon DEF ExchangeOK, Using
<1>3. NoCrosstalk'
    BY SMT DEF WireInv, NoCrosstalk, Apart
<1>4. sock[conn[c]] = "open" /\ conn[c] \in Conns
    BY SMT DEF HeldInv, PoolOK, Apart
<1>5. ASSUME NEW x \in Conns
      PROVE  /\ sock'[x] # "open" => Silent(x)'
             /\ sock'[x] = "none" => got'[x] = 0
             /\ peer'[x] # "open" => owed'[x] = <<>>
             /\ sock'[x] = "open" /\ ~ InUse(x)' => Silent(x)' /\ got'[x] = 0
  <2>1. CASE x = conn[c]
    <3>1. InUse(x)'
        BY <2>1, Zenon DEF InUse, Using, Apart
    <3>2. sock'[x] = "open"
        BY <1>4, <2>1, Zenon DEF Apart
    <3> QED BY <2>1, <3>1, <3>2, SMT
  <2>2. CASE x # conn[c]
    <3>1. ~ InUse(x)
        BY <1>1, <2>2, Zenon DEF InUse
    <3>2. /\ sock[x] # "open" => Silent(x)
          /\ sock[x] = "none" => got[x] = 0
          /\ peer[x] # "open" => owed[x] = <<>>
          /\ sock[x] = "open" => Silent(x) /\ got[x] = 0
        BY <3>1, Zenon DEF WireInv, EndsOK
    <3>3. /\ down'[x] = down[x] /\ owed'[x] = owed[x] /\ sock'[x] = sock[x]
          /\ peer'[x] = peer[x] /\ got'[x] = got[x]
        BY <2>2, Zenon DEF Apart
    <3> QED BY <3>2, <3>3, SMT DEF Silent
  <2> QED BY <2>1, <2>2
<1>6. EndsOK'
    BY <1>5, Zenon DEF EndsOK
<1> QED BY <1>2, <1>3, <1>6 DEF WireInv

LEMMA OpensKeepsWire ==
    ASSUME Known, WireInv, NEW c \in Calls, NEW y \in Conns, Opens(c, y), SameNode,
           UNCHANGED outcome
    PROVE  WireInv'
<1> USE Basics, WireFacts DEF Known
<1>1. PICK S, p : Taken(c, S, p, y) /\ (Using(c) => conn[c] \in S)
    BY SMT DEF Opens, Using, InTry
<1>2. /\ \A d \in Calls \ {c} : pc'[d] = pc[d]
      /\ Using(c) \/ lock = NoCall
    BY <1>1, SMT DEF Opens, Taken
<1>3. \A d \in Calls \ {c} : ~ Using(d) /\ pc'[d] \notin InTry
    BY <1>2, OnlyUser, Zenon
<1>4. pc'[c] = "connecting" /\ conn'[c] = y /\ Swaps(S, {y}) /\ sock[y] = "none"
    BY <1>1, SMT DEF Taken
<1>5. Silent(y) /\ got[y] = 0
    BY <1>4, SMT DEF WireInv, EndsOK
<1>6. Silent(y)' /\ got'[y] = 0
    BY <1>4, <1>5, SwapsEach DEF Silent, SameNode
<1>7. ExchangeOf(c)'
    BY <1>4, <1>6, SMT DEF ExchangeOf
<1>8. ExchangeOK'
    BY <1>3, <1>7, Zenon DEF ExchangeOK, Using
<1>9. NoCrosstalk'
    BY Zenon DEF WireInv, NoCrosstalk, SameNode
<1>10. InUse(y)'
    BY <1>4, SMT DEF InUse, Using, InTry
<1>11. ASSUME NEW x \in Conns
       PROVE  /\ sock'[x] # "open" => Silent(x)'
              /\ sock'[x] = "none" => got'[x] = 0
              /\ peer'[x] # "open" => owed'[x] = <<>>
              /\ sock'[x] = "open" /\ ~ InUse(x)' => Silent(x)' /\ got'[x] = 0
  <2>1. /\ sock[x] # "open" => Silent(x)
        /\ sock[x] = "none" => got[x] = 0
        /\ peer[x] # "open" => owed[x] = <<>>
        /\ sock[x] = "open" /\ ~ InUse(x) => Silent(x) /\ got[x] = 0
      BY Zenon DEF WireInv, EndsOK
  <2>2. CASE x \in S
      BY <1>4, <2>1, <2>2, SwapsEach DEF Silent, SameNode
  <2>3. CASE x = y
      BY <1>6, <1>10, <2>3 DEF Silent
  <2>4. CASE x \notin S /\ x # y
    <3>1. sock[x] = "open" => ~ InUse(x)
        BY <1>1, <1>3, <2>4, Zenon DEF InUse
    <3>2. sock'[x] = sock[x] /\ down'[x] = down[x] /\ owed'[x] = owed[x]
        BY <1>4, <2>4, SwapsEach
    <3> QED BY <2>1, <3>1, <3>2, SMT DEF Silent, SameNode
  <2> QED BY <2>2, <2>3, <2>4
<1>12. EndsOK'
    BY <1>11, Zenon DEF EndsOK
<1> QED BY <1>8, <1>9, <1>12 DEF WireInv

LEMMA ReuseKeepsWire == ASSUME Known, WireInv, NEW c \in Calls, Reuse(c) PROVE WireInv'
<1> USE Basics, WireFacts DEF Known
<1>1. /\ pc[c] = "waiting" /\ lock = NoCall /\ pool[KeyOf[c]] # NoConn
      /\ UNCHANGED <<wire, executed>>
      /\ \/ \E x : Ends(c, Error, x)
         \/ /\ pc' = [pc EXCEPT ![c] = "sending"] /\ UNCHANGED outcome
            /\ conn' = [conn EXCEPT ![c] = pool[KeyOf[c]]]
    BY Zenon DEF Reuse, Acquires, Pooled
<1>2. \A d \in Calls : ~ Using(d)
    BY <1>1, SMT
<1>3. \A d \in Calls \ {c} : pc'[d] = pc[d] /\ outcome'[d] = outcome[d]
    BY <1>1, SMT DEF Ends
<1>4. \A d \in Calls \ {c} : pc'[d] \notin InTry
    BY <1>1, <1>3, OnlyUser, Zenon
<1>5. Told(c)
    BY <1>1, SMT DEF Told, Ends, Error, WireInv, NoCrosstalk
<1>6. NoCrosstalk'
    BY <1>1, <1>3, <1>5, ToldKeeps, Zenon
<1>7. ExchangeOf(c)' \/ pc'[c] \notin InTry
  <2>1. CASE \E x : Ends(c, Error, x)
      BY <2>1, SMT DEF Ends, InTry
  <2>2. CASE /\ pc' = [pc EXCEPT ![c] = "sending"]
             /\ conn' = [conn EXCEPT ![c] = pool[KeyOf[c]]]
    <3>1. conn'[c] \in Conns /\ conn'[c] = pool[KeyOf[c]] /\ pc'[c] = "sending"
        BY <1>1, <2>2, SMT
    <3>2. sock[conn'[c]] = "open" /\ ~ InUse(conn'[c])
        BY <1>1, <1>2, <3>1, Zenon DEF HeldInv, PoolOK, InUse
    <3>3. Silent(conn'[c]) /\ got[conn'[c]] = 0
        BY <3>1, <3>2, Zenon DEF WireInv, EndsOK
    <3>4. Silent(conn[c])' /\ got'[conn'[c]] = 0
        BY <1>1, <3>3, SMT DEF Silent, wire
    <3> QED BY <3>1, <3>4, SMT DEF ExchangeOf, Unanswered
  <2> QED BY <1>1, <2>1, <2>2
<1>8. ExchangeOK'
    BY <1>4, <1>7, Zenon DEF ExchangeOK, Using
<1>9. EndsOK'
  <2>1. \A x \in Conns : ~ InUse(x)
      BY <1>2, Zenon DEF InUse
  <2>2. \A x \in Conns : /\ down'[x] = down[x] /\ owed'[x] = owed[x] /\ sock'[x] = sock[x]
                         /\ peer'[x] = peer[x] /\ got'[x] = got[x]
      BY <1>1, Zenon DEF wire
  <2> QED BY <2>1, <2>2, Zenon DEF WireInv, EndsOK, Silent
<1> QED BY <1>6, <1>8, <1>9 DEF WireInv

(* The units seen, counted from what is left of the limit, are a number.    *)
LEMMA Remains ==
    ASSUME NEW lim \in Nat, NEW l \in 0 .. lim + 1
    PROVE  lim + 1 - l \in Nat /\ 1 + (lim + 1 - l) \in Nat
BY SMT

(* A connection is kept only with nothing left on it.                       *)
Kept(c) == Ends(c, Answer(c), conn[c]) /\ UNCHANGED <<sock, owed>>
LEMMA KeptIsQuiet ==
    ASSUME Known, WireInv, NEW c \in Calls, Finish(c), Kept(c)
    PROVE  /\ down'[conn[c]] = <<>> /\ owed[conn[c]] = <<>> /\ got[conn[c]] = 0
           /\ \A x \in Conns \ {conn[c]} : down'[x] = down[x]
           /\ head[c].call = c /\ executed[c] = 1
           /\ UNCHANGED <<peer, asked, got, executed>>
<1> USE Basics, WireFacts DEF Known
<1> DEFINE x == conn[c]
           r == head[c].resp
           n == Limit(r) + 1 - left[c]
<1>1. pc[c] = "reading" /\ Using(c) /\ x \in Conns
    BY SMT DEF Finish, Using, InTry
<1>2. Reading(c, head[c], left[c])
    BY <1>1, Zenon DEF WireInv, ExchangeOK, ExchangeOf
<1>3. /\ head[c].call = c /\ r \in Responses /\ executed[c] = 1 /\ got[x] = 0
      /\ left[c] \in 0 .. Limit(r) + 1 /\ Follows(down[x], owed[x], Items(c, r), 1 + n)
    BY <1>2, Zenon DEF Reading, Answering
<1>4. Limit(r) \in Nat
    BY SMT DEF Limit
<1>5. n \in Nat /\ Seen(c) = n
  <2>1. n \in Nat
      BY <1>3, <1>4, Remains, Zenon
  <2>2. Seen(c) = n
      BY Zenon DEF Seen
  <2> QED BY <2>1, <2>2
<1>6. down[x] \in Seq(Item) /\ owed[x] \in Seq(Item)
    BY <1>1
<1>7. /\ r.err => IsClosed(c)
      /\ left[c] = 0 \/ AtLength(c) \/ AtLastChunk(c) \/ AtClose(c)
      /\ left[c] > 0 \/ r.err
      /\ down' = [down EXCEPT ![x] = IF left[c] > 0 /\ AtLastChunk(c) THEN Tail(@) ELSE @]
  <2>1. pool'[KeyOf[c]] # NoConn
      BY <1>1, Zenon DEF Kept, Ends
  <2>2. ~ Fails(c, Error) /\ ~ Ends(c, Answer(c), NoConn)
      BY <2>1, Zenon DEF Fails, Ends
  <2> QED BY <2>2, SMT DEF Finish, Keeps
<1>8. UNCHANGED <<peer, asked, got, executed>>
    BY Zenon DEF Finish
<1>9. /\ r.framing = "length" /\ n = r.size => down[x] = <<>> /\ owed[x] = <<>>
      /\ r.framing = "chunked" /\ down[x] # <<>> /\ Head(down[x]).kind = "last" =>
            Tail(down[x]) = <<>> /\ owed[x] = <<>>
    BY <1>3, <1>5, <1>6, NothingFollows, Zenon
<1> HIDE DEF n
<1>10. AtLength(c) <=> r.framing = "length" /\ n = r.size
    BY <1>5, Zenon DEF AtLength
<1>11. AtLastChunk(c) <=> r.framing = "chunked" /\ down[x] # <<>> /\ Head(down[x]).kind = "last"
    BY Zenon DEF AtLastChunk
<1>12. down'[x] = <<>> /\ owed[x] = <<>>
  <2>1. CASE AtLength(c)
    <3>1. ~ AtLastChunk(c)
        BY <1>10, <1>11, <2>1
    <3>2. down'[x] = down[x]
        BY <1>1, <1>7, <3>1, Zenon
    <3> QED BY <1>9, <1>10, <2>1, <3>2, Zenon
  <2>2. CASE ~ AtLength(c) /\ left[c] > 0 /\ AtLastChunk(c)
    <3>1. down'[x] = Tail(down[x])
        BY <1>1, <1>7, <2>2, Zenon
    <3> QED BY <1>9, <1>11, <2>2, <3>1, Zenon
  <2>3. CASE ~ AtLength(c) /\ left[c] > 0 /\ ~ AtLastChunk(c)
    <3>1. down[x] = <<>> /\ peer[x] = "closed"
        BY <1>7, <2>3, SMT DEF AtClose
    <3>2. down'[x] = down[x]
        BY <1>1, <1>7, <2>3, Zenon
    <3>3. owed[x] = <<>>
        BY <1>1, <3>1, SMT DEF WireInv, EndsOK
    <3> QED BY <3>1, <3>2, <3>3, Zenon
  <2>4. ASSUME ~ AtLength(c), ~ (left[c] > 0) PROVE FALSE
    <3>1. IsClosed(c)
        BY <1>7, <2>4, Zenon
    <3>2. ~ IsClosed(c)
        BY <2>4, SMT DEF IsClosed
    <3> QED BY <3>1, <3>2
  <2> QED BY <2>1, <2>2, <2>3, <2>4, Zenon
<1>13. \A y \in Conns \ {x} : down'[y] = down[y]
    BY <1>7, Zenon
<1> QED BY <1>3, <1>8, <1>12, <1>13, Zenon

LEMMA FinishKeepsWire == ASSUME Known, WireInv, NEW c \in Calls, Finish(c) PROVE WireInv'
<1> USE Basics, WireFacts DEF Known
<1>1. pc[c] = "reading" /\ Using(c)
    BY SMT DEF Finish, Using, InTry
<1>2. head[c].call = c /\ executed[c] = 1
    BY <1>1, Zenon DEF WireInv, ExchangeOK, ExchangeOf, Reading, Answering
<1>3. (\E p : Ends(c, Error, p) \/ Ends(c, Answer(c), p)) => Told(c)
    BY <1>2, SMT DEF Ends, Told, Error, Answer
<1>4. ASSUME ~ Kept(c) PROVE WireInv'
  <2>1. /\ Ends(c, Error, NoConn) \/ Ends(c, Answer(c), NoConn)
        /\ Closes({conn[c]})
      BY <1>4, Zenon DEF Finish, Fails, Kept
  <2>2. Drops(c) /\ SameNode
      BY <1>1, <2>1, Zenon DEF Finish, Drops, SameNode
  <2> QED BY <1>3, <2>1, <2>2, DropKeepsWire, Zenon
<1>5. ASSUME Kept(c) PROVE WireInv'
  <2>1. /\ down'[conn[c]] = <<>> /\ owed[conn[c]] = <<>> /\ got[conn[c]] = 0
        /\ \A x \in Conns \ {conn[c]} : down'[x] = down[x]
        /\ UNCHANGED <<peer, asked, got, executed>>
      BY <1>5, KeptIsQuiet, Zenon
  <2>2. \A d \in Calls \ {c} : pc'[d] = pc[d] /\ outcome'[d] = outcome[d]
      BY <1>5, Zenon DEF Kept, Ends
  <2>3. pc'[c] \notin InTry
      BY <1>5, SMT DEF Kept, Ends, InTry
  <2>4. \A d \in Calls \ {c} : ~ Using(d) /\ pc'[d] \notin InTry
      BY <1>1, <2>2, OnlyUser, Zenon
  <2>5. ExchangeOK'
      BY <2>3, <2>4, Zenon DEF ExchangeOK, Using
  <2>6. NoCrosstalk'
      BY <1>3, <1>5, <2>1, <2>2, ToldKeeps, Zenon DEF Kept
  <2>7. ASSUME NEW x \in Conns
        PROVE  /\ sock'[x] # "open" => Silent(x)'
               /\ sock'[x] = "none" => got'[x] = 0
               /\ peer'[x] # "open" => owed'[x] = <<>>
               /\ sock'[x] = "open" /\ ~ InUse(x)' => Silent(x)' /\ got'[x] = 0
    <3>1. /\ sock[x] # "open" => Silent(x)
          /\ sock[x] = "none" => got[x] = 0
          /\ peer[x] # "open" => owed[x] = <<>>
          /\ sock[x] = "open" /\ ~ InUse(x) => Silent(x) /\ got[x] = 0
        BY Zenon DEF WireInv, EndsOK
    <3>2. sock'[x] = sock[x] /\ owed'[x] = owed[x] /\ peer'[x] = peer[x] /\ got'[x] = got[x]
        BY <1>5, <2>1, Zenon DEF Kept
    <3>3. CASE x = conn[c]
        BY <2>1, <3>1, <3>2, <3>3, SMT DEF Silent
    <3>4. CASE x # conn[c]
      <4>1. ~ InUse(x) /\ down'[x] = down[x]
          BY <2>1, <2>4, <3>4, Zenon DEF InUse
      <4> QED BY <3>1, <3>2, <4>1, SMT DEF Silent
    <3> QED BY <3>3, <3>4
  <2>8. EndsOK'
      BY <2>7, Zenon DEF EndsOK
  <2> QED BY <2>5, <2>6, <2>8 DEF WireInv
<1> QED BY <1>4, <1>5

LEMMA ConnectKeepsWire == ASSUME Known, WireInv, NEW c \in Calls, Connect(c) PROVE WireInv'
<1> USE Basics, WireFacts DEF Known
<1>1. pc[c] = "connecting" /\ Using(c) /\ conn[c] \in Conns
    BY SMT DEF Connect, Using, InTry
<1>2. Silent(conn[c]) /\ got[conn[c]] = 0
    BY <1>1, Zenon DEF WireInv, ExchangeOK, ExchangeOf
<1>3. Apart(c)
    BY <1>1, SMT DEF Connect, Apart, Using, InTry
<1>4. /\ pc'[c] = "sending" /\ down' = down /\ owed' = owed /\ got' = got /\ conn' = conn
    BY SMT DEF Connect
<1>5. Silent(conn[c])' /\ got'[conn'[c]] = 0
    BY <1>2, <1>4, Zenon DEF Silent
<1>6. ExchangeOf(c)'
    BY <1>4, <1>5, SMT DEF ExchangeOf, Unanswered
<1>7. owed'[conn[c]] = <<>>
    BY <1>2, <1>4, Zenon DEF Silent
<1> QED BY <1>3, <1>6, <1>7, ApartKeepsWire, Zenon

LEMMA SendKeepsWire == ASSUME Known, WireInv, NEW c \in Calls, SendUnit(c) PROVE WireInv'
<1> USE Basics, WireFacts DEF Known
<1>1. pc[c] = "sending" /\ Using(c) /\ conn[c] \in Conns
    BY SMT DEF SendUnit, Using, InTry
<1>2. Unanswered(c)
    BY <1>1, Zenon DEF WireInv, ExchangeOK, ExchangeOf
<1>3. Apart(c)
    BY <1>1, SMT DEF SendUnit, Apart, Using, InTry
<1>4. /\ pc'[c] \in {"sending", "awaiting"}
      /\ down' = down /\ owed' = owed /\ conn' = conn
      /\ got'[conn[c]] > 0 => asked'[conn[c]] = c
    BY <1>1, <1>2, SMT DEF SendUnit, Unanswered
<1>5. Unanswered(c)'
    BY <1>2, <1>4, Zenon DEF Silent, Unanswered
<1>6. ExchangeOf(c)'
    BY <1>4, <1>5, SMT DEF ExchangeOf
<1>7. owed'[conn[c]] = <<>>
    BY <1>2, <1>4, Zenon DEF Silent, Unanswered
<1> QED BY <1>3, <1>6, <1>7, ApartKeepsWire, Zenon

LEMMA FirstItem ==
    ASSUME NEW c \in Calls, NEW r \in Responses
    PROVE  Items(c, r)[0 + 1].call = c /\ Items(c, r)[0 + 1].resp = r
<1>1. r.size \in Nat
    BY WireAssumption DEF ResponseType, WireAssumption
<1>2. 0 + 1 \in 1 .. (IF r.framing = "chunked" THEN r.size + 2 ELSE r.size + 1)
    BY <1>1, SMT
<1> QED BY <1>2, Zenon DEF Items

LEMMA ReadHeadKeepsWire == ASSUME Known, WireInv, NEW c \in Calls, ReadHead(c) PROVE WireInv'
<1> USE Basics, WireFacts DEF Known
<1> DEFINE x == conn[c]
           h == Head(down[x])
<1>1. pc[c] = "awaiting" /\ Using(c) /\ x \in Conns /\ down[x] # <<>>
    BY SMT DEF ReadHead, Using, InTry
<1>2. CASE Fails(c, Error)
  <2>1. Drops(c) /\ SameNode
      BY <1>1, <1>2, Zenon DEF ReadHead, Fails, Drops, SameNode
  <2>2. Told(c)
      BY <1>2, SMT DEF Fails, Ends, Told, Error
  <2> QED BY <2>1, <2>2, DropKeepsWire, Zenon
<1>3. CASE ~ Fails(c, Error)
  <2>1. PICK r \in Responses : Answering(c, r, 0)
      BY <1>1, Zenon DEF WireInv, ExchangeOK, ExchangeOf, Unanswered, Silent
  <2>2. /\ pc'[c] = "reading" /\ head'[c] = h /\ left'[c] = Limit(h.resp) + 1
        /\ down' = [down EXCEPT ![x] = Tail(@)] /\ UNCHANGED <<conn, owed, got, peer, executed>>
      BY <1>3, SMT DEF ReadHead
  <2>3. Apart(c)
      BY <1>1, <1>3, SMT DEF ReadHead, Apart, Using, InTry
  <2>4. /\ got[x] = 0 /\ executed[c] = 1 /\ Follows(down[x], owed[x], Items(c, r), 0)
        /\ down[x] \in Seq(Item) /\ owed[x] \in Seq(Item) /\ Items(c, r) \in Seq(Item)
      BY <1>1, <2>1, ItemsType, Zenon DEF Answering
  <2>5. h = Items(c, r)[0 + 1] /\ Follows(Tail(down[x]), owed[x], Items(c, r), 0 + 1)
      BY <1>1, <2>4, FollowsRead, 0 \in Nat
  <2>6. h.call = c /\ h.resp = r
      BY <2>5, FirstItem
  <2>7. Limit(r) \in Nat
      BY SMT DEF Limit
  <2>8. 1 + (Limit(r) + 1 - (Limit(r) + 1)) = 0 + 1 /\ Limit(r) + 1 \in 0 .. Limit(r) + 1
      BY <2>7, SMT
  <2>9. down'[x] = Tail(down[x]) /\ owed'[x] = owed[x] /\ got'[x] = 0 /\ executed'[c] = 1
      BY <1>1, <2>2, <2>4, Zenon
  <2>10. Reading(c, head[c], left[c])'
      BY <2>2, <2>5, <2>6, <2>8, <2>9 DEF Reading, Answering
  <2>11. ExchangeOf(c)'
      BY <2>2, <2>10, SMT DEF ExchangeOf
  <2>12. peer'[x] # "open" => owed'[x] = <<>>
      BY <1>1, <2>2, Zenon DEF WireInv, EndsOK
  <2> QED BY <2>3, <2>11, <2>12, ApartKeepsWire, Zenon
<1> QED BY <1>2, <1>3

LEMMA ReadUnitKeepsWire == ASSUME Known, WireInv, NEW c \in Calls, ReadUnit(c) PROVE WireInv'
<1> USE Basics, WireFacts DEF Known
<1> DEFINE x == conn[c]
           r == head[c].resp
           n == Limit(r) + 1 - left[c]
<1>1. /\ pc[c] = "reading" /\ Using(c) /\ x \in Conns /\ down[x] # <<>> /\ left[c] > 0
      /\ down' = [down EXCEPT ![x] = Tail(@)] /\ left' = [left EXCEPT ![c] = @ - 1]
      /\ UNCHANGED <<pc, conn, head, owed, got, peer, executed>>
    BY SMT DEF ReadUnit, Using, InTry
<1>2. Reading(c, head[c], left[c])
    BY <1>1, Zenon DEF WireInv, ExchangeOK, ExchangeOf
<1>3. Apart(c)
    BY <1>1, SMT DEF ReadUnit, Apart, Using, InTry
<1>4. /\ head[c].call = c /\ r \in Responses /\ executed[c] = 1 /\ got[x] = 0
      /\ left[c] \in 0 .. Limit(r) + 1 /\ Follows(down[x], owed[x], Items(c, r), 1 + n)
    BY <1>2, Zenon DEF Reading, Answering
<1>5. Limit(r) \in Nat
    BY SMT DEF Limit
<1>6. 1 + n \in Nat /\ left'[c] = left[c] - 1 /\ left'[c] \in 0 .. Limit(r) + 1
      /\ 1 + (Limit(r) + 1 - left'[c]) = 1 + n + 1
  <2>1. left'[c] = left[c] - 1
      BY <1>1, Zenon
  <2>2. \A k, l \in Nat : l > 0 /\ l \in 0 .. k + 1 =>
            /\ 1 + (k + 1 - l) \in Nat /\ l - 1 \in 0 .. k + 1
            /\ 1 + (k + 1 - (l - 1)) = 1 + (k + 1 - l) + 1
      BY SMT
  <2>3. left[c] \in Nat /\ left[c] > 0 /\ left[c] \in 0 .. Limit(r) + 1
      BY <1>1, <1>4, Zenon
  <2>4. /\ 1 + (Limit(r) + 1 - left[c]) \in Nat /\ left[c] - 1 \in 0 .. Limit(r) + 1
        /\ 1 + (Limit(r) + 1 - (left[c] - 1)) = 1 + (Limit(r) + 1 - left[c]) + 1
      BY <1>5, <2>2, <2>3
  <2> QED BY <2>1, <2>4
<1>7. down[x] \in Seq(Item) /\ owed[x] \in Seq(Item) /\ Items(c, r) \in Seq(Item)
    BY <1>1, <1>4, ItemsType, Zenon
<1>8. Follows(Tail(down[x]), owed[x], Items(c, r), 1 + n + 1)
    BY <1>1, <1>4, <1>6, <1>7, FollowsRead
<1>9. down'[x] = Tail(down[x]) /\ owed'[x] = owed[x] /\ got'[x] = 0 /\ executed'[c] = 1
      /\ head'[c] = head[c] /\ conn'[c] = x
    BY <1>1, <1>4, Zenon
<1> HIDE DEF n, x
<1>10. Reading(c, head[c], left[c])'
    BY <1>4, <1>6, <1>8, <1>9 DEF Reading, Answering
<1>11. ExchangeOf(c)'
    BY <1>1, <1>10, SMT DEF ExchangeOf
<1>12. peer'[conn[c]] # "open" => owed'[conn[c]] = <<>>
    BY <1>1, Zenon DEF WireInv, EndsOK, x
<1> QED BY <1>3, <1>11, <1>12, ApartKeepsWire, Zenon

-----------------------------------------------------------------------------
(* The node's steps.                                                       *)

(* A step of the node at x, which executes no call twice.                   *)
AtNode(x) ==
    /\ \A y \in Conns \ {x} : /\ down'[y] = down[y] /\ owed'[y] = owed[y]
                             /\ got'[y] = got[y] /\ peer'[y] = peer[y]
    /\ \A d \in Calls : executed[d] = 1 => executed'[d] = 1
    /\ UNCHANGED <<client, sock, asked>>

LEMMA AtNodeKeepsWire ==
    ASSUME Known, WireInv, NEW x \in Conns, AtNode(x),
           \A c \in Calls : Using(c) /\ conn[c] = x => ExchangeOf(c)',
           peer'[x] # "open" => owed'[x] = <<>>,
           sock[x] # "open" => Silent(x)', sock[x] = "none" => got'[x] = 0,
           sock[x] = "open" /\ ~ InUse(x) => Silent(x)' /\ got'[x] = 0
    PROVE  WireInv'
<1> USE Basics, WireFacts DEF Known
<1>1. pc' = pc /\ conn' = conn /\ head' = head /\ left' = left /\ outcome' = outcome
    BY Zenon DEF AtNode, client, local
<1>2. ASSUME NEW c \in Calls, Using(c), conn[c] # x PROVE ExchangeOf(c)'
  <2>1. ExchangeOf(c) /\ conn[c] \in Conns
      BY <1>2, Zenon DEF WireInv, ExchangeOK
  <2>2. /\ down'[conn[c]] = down[conn[c]] /\ owed'[conn[c]] = owed[conn[c]]
        /\ got'[conn[c]] = got[conn[c]] /\ asked'[conn[c]] = asked[conn[c]]
        /\ executed[c] = 1 => executed'[c] = 1
      BY <1>2, <2>1, Zenon DEF AtNode
  <2>3. Silent(conn[c]) => Silent(conn[c])'
      BY <1>1, <2>2, Zenon DEF Silent
  <2>4. Unanswered(c) => Unanswered(c)'
      BY <1>1, <2>2, <2>3, Zenon DEF Unanswered
  <2>5. \A r, k : Answering(c, r, k) => Answering(c, r, k)'
      BY <1>1, <2>2, Zenon DEF Answering
  <2>6. Reading(c, head[c], left[c]) => Reading(c, head[c], left[c])'
      BY <1>1, <2>5, Zenon DEF Reading
  <2> QED BY <1>1, <2>1, <2>2, <2>3, <2>4, <2>5, <2>6, Zenon DEF ExchangeOf
<1>3. ExchangeOK'
    BY <1>1, <1>2, Zenon DEF ExchangeOK, Using
<1>4. NoCrosstalk'
    BY <1>1, Zenon DEF WireInv, NoCrosstalk, AtNode
<1>5. ASSUME NEW y \in Conns
      PROVE  /\ sock'[y] # "open" => Silent(y)'
             /\ sock'[y] = "none" => got'[y] = 0
             /\ peer'[y] # "open" => owed'[y] = <<>>
             /\ sock'[y] = "open" /\ ~ InUse(y)' => Silent(y)' /\ got'[y] = 0
  <2>1. InUse(y)' <=> InUse(y)
      BY <1>1, Zenon DEF InUse, Using
  <2>2. sock'[y] = sock[y]
      BY Zenon DEF AtNode
  <2>3. CASE y = x
      BY <2>1, <2>2, <2>3, Zenon
  <2>4. CASE y # x
    <3>1. Silent(y) => Silent(y)'
        BY <2>4, Zenon DEF AtNode, Silent
    <3>2. peer'[y] = peer[y] /\ owed'[y] = owed[y] /\ got'[y] = got[y]
        BY <2>4, Zenon DEF AtNode
    <3> QED BY <2>1, <2>2, <3>1, <3>2, Zenon DEF WireInv, EndsOK
  <2> QED BY <2>3, <2>4
<1>6. EndsOK'
    BY <1>5, Zenon DEF EndsOK
<1> QED BY <1>3, <1>4, <1>6 DEF WireInv

LEMMA ExecutesKeepsWire == ASSUME Known, WireInv, NEW x \in Conns, NodeExecutes(x) PROVE WireInv'
<1> USE Basics, WireFacts DEF Known
<1>1. /\ peer[x] = "open" /\ got[x] = ReqLen /\ got' = [got EXCEPT ![x] = 0]
      /\ executed' = [executed EXCEPT ![asked[x]] = @ + 1]
      /\ UNCHANGED <<client, sock, asked, peer, down>>
      /\ \/ sock[x] = "closed" /\ owed' = owed
         \/ /\ sock[x] = "open"
            /\ \E r \in Responses : owed' = [owed EXCEPT ![x] = @ \o Items(asked[x], r)]
    BY Zenon DEF NodeExecutes
<1>2. asked[x] \in Calls /\ executed[asked[x]] = 0
    BY <1>1, SMT DEF IndInv, RequestsOK, WholeOK, Whole
<1>3. got'[x] = 0 /\ executed'[asked[x]] = 1 /\ peer'[x] = "open" /\ down'[x] = down[x]
    BY <1>1, <1>2, SMT
<1>4. AtNode(x)
  <2>1. \A y \in Conns \ {x} : got'[y] = got[y] /\ owed'[y] = owed[y]
      BY <1>1, Zenon
  <2>2. \A d \in Calls : executed[d] = 1 => executed'[d] = 1
      BY <1>1, <1>2, SMT
  <2> QED BY <1>1, <2>1, <2>2, Zenon DEF AtNode
<1>5. CASE sock[x] = "closed"
  <2>1. \A c \in Calls : Using(c) => conn[c] # x
      BY <1>5, SMT DEF HeldInv, PoolOK
  <2>2. owed'[x] = owed[x]
      BY <1>1, <1>5, SMT
  <2>3. Silent(x)'
      BY <1>3, <1>5, <2>2, SMT DEF WireInv, EndsOK, Silent
  <2> QED BY <1>3, <1>4, <1>5, <2>1, <2>3, AtNodeKeepsWire, SMT
<1>6. CASE sock[x] = "open"
  <2>1. InUse(x)
      BY <1>1, <1>6, SMT DEF WireInv, EndsOK
  <2>2. ASSUME NEW c \in Calls, Using(c), conn[c] = x PROVE ExchangeOf(c)'
    <3>1. ExchangeOf(c) /\ got[conn[c]] > 0
        BY <1>1, <2>2, SMT DEF WireInv, ExchangeOK
    <3>2. pc[c] = "awaiting" /\ Silent(x) /\ asked[x] = c
      <4>1. ~ (pc[c] = "sending")
        <5> SUFFICES ASSUME pc[c] = "sending" PROVE FALSE
            OBVIOUS
        <5>1. asked[x] = c
            BY <2>2, <3>1, Zenon DEF ExchangeOf, Unanswered
        <5>2. got[x] <= written[c]
            BY <2>2, <5>1, Zenon DEF IndInv, WrittenOK
        <5>3. written[c] < ReqLen
            BY Zenon DEF IndInv, LocalsOK
        <5>4. written[c] \in Nat
            BY SMT DEF IndInv, TypeOK, ClientTypeOK
        <5> QED BY <1>1, <5>2, <5>3, <5>4, SMT
      <4>2. ~ (pc[c] = "connecting") /\ ~ (pc[c] = "reading")
          BY <3>1, SMT DEF ExchangeOf, Reading, Answering
      <4>3. pc[c] = "awaiting"
          BY <2>2, <4>1, <4>2, SMT DEF Using, InTry
      <4> QED BY <2>2, <3>1, <4>3, SMT DEF ExchangeOf, Unanswered, Answering
    <3>3. PICK r \in Responses : owed' = [owed EXCEPT ![x] = @ \o Items(c, r)]
        BY <1>1, <1>6, <3>2, Zenon
    <3>4. owed'[x] = <<>> \o Items(c, r) /\ down'[x] = <<>>
        BY <1>3, <3>2, <3>3, Zenon DEF Silent
    <3>5. Follows(down'[x], owed'[x], Items(c, r), 0)
        BY <3>4, ItemsType, FollowsNew
    <3>6. pc' = pc /\ conn' = conn
        BY <1>1, Zenon DEF client
    <3>7. Answering(c, r, 0)'
        BY <1>3, <2>2, <3>2, <3>5, <3>6, Zenon DEF Answering
    <3> QED BY <3>2, <3>6, <3>7, SMT DEF ExchangeOf
  <2> QED BY <1>3, <1>4, <1>6, <2>1, <2>2, AtNodeKeepsWire, SMT
<1> QED BY <1>1, <1>5, <1>6

LEMMA SendsKeepsWire == ASSUME Known, WireInv, NEW x \in Conns, NodeSends(x) PROVE WireInv'
<1> USE Basics, WireFacts DEF Known
<1>1. /\ peer[x] = "open" /\ sock[x] = "open" /\ owed[x] # <<>>
      /\ down' = [down EXCEPT ![x] = Append(@, Head(owed[x]))]
      /\ owed' = [owed EXCEPT ![x] = Tail(@)]
      /\ UNCHANGED <<client, sock, peer, asked, got, executed>>
    BY SMT DEF NodeSends
<1>2. InUse(x)
    BY <1>1, SMT DEF WireInv, EndsOK, Silent
<1>3. AtNode(x)
    BY <1>1, Zenon DEF AtNode
<1>4. ASSUME NEW r \in Responses, NEW c \in Calls, NEW k \in Nat, conn[c] = x, Answering(c, r, k)
      PROVE  Answering(c, r, k)'
  <2>1. down[x] \in Seq(Item) /\ owed[x] \in Seq(Item) /\ Items(c, r) \in Seq(Item)
      BY ItemsType
  <2>2. Follows(Append(down[x], Head(owed[x])), Tail(owed[x]), Items(c, r), k)
      BY <1>1, <1>4, <2>1, FollowsSent, Zenon DEF Answering
  <2>3. down'[x] = Append(down[x], Head(owed[x])) /\ owed'[x] = Tail(owed[x])
      BY <1>1, Zenon
  <2>4. conn' = conn
      BY <1>1, Zenon DEF client
  <2> QED BY <1>1, <1>4, <2>2, <2>3, <2>4, Zenon DEF Answering
<1>5. ASSUME NEW c \in Calls, Using(c), conn[c] = x PROVE ExchangeOf(c)'
  <2>1. ExchangeOf(c) /\ ~ Silent(conn[c])
      BY <1>1, <1>5, Zenon DEF WireInv, ExchangeOK, Silent
  <2>2. pc' = pc /\ conn' = conn /\ head' = head /\ left' = left
      BY <1>1, Zenon DEF client, local
  <2>3. CASE pc[c] = "awaiting"
    <3>1. PICK r \in Responses : Answering(c, r, 0)
        BY <2>1, <2>3, Zenon DEF ExchangeOf, Unanswered
    <3>2. Answering(c, r, 0)'
        BY <1>4, <1>5, <3>1, 0 \in Nat
    <3> QED BY <2>2, <2>3, <3>2, SMT DEF ExchangeOf
  <2>4. CASE pc[c] = "reading"
    <3>1. Reading(c, head[c], left[c])
        BY <2>1, <2>4, Zenon DEF ExchangeOf
    <3>2. Limit(head[c].resp) \in Nat
        BY SMT DEF Limit
    <3>3. 1 + (Limit(head[c].resp) + 1 - left[c]) \in Nat
        BY <3>1, <3>2, Remains, Zenon DEF Reading
    <3>4. Reading(c, head[c], left[c])'
        BY <1>4, <1>5, <2>2, <3>1, <3>3, Zenon DEF Reading
    <3> QED BY <2>2, <2>4, <3>4, SMT DEF ExchangeOf
  <2>5. pc[c] \in {"awaiting", "reading"}
      BY <1>5, <2>1, SMT DEF ExchangeOf, Unanswered, Using, InTry
  <2> QED BY <2>3, <2>4, <2>5
<1>6. peer'[x] = "open" /\ ~ (sock[x] = "none")
    BY <1>1, Zenon
<1> QED BY <1>1, <1>2, <1>3, <1>5, <1>6, AtNodeKeepsWire, Zenon

LEMMA ClosesKeepsWire == ASSUME Known, WireInv, NEW x \in Conns, NodeCloses(x) PROVE WireInv'
<1> USE Basics, WireFacts DEF Known
<1>1. /\ sock[x] = "open" /\ owed' = [owed EXCEPT ![x] = <<>>]
      /\ UNCHANGED <<client, sock, asked, got, down, executed>>
    BY Zenon DEF NodeCloses
<1>a. \A y \in Conns \ {x} : peer'[y] = peer[y]
    BY SMT DEF NodeCloses
<1>b. \A y \in Conns \ {x} : owed'[y] = owed[y]
    BY <1>1, Zenon
<1>2. AtNode(x)
    BY <1>1, <1>a, <1>b, Zenon DEF AtNode
<1>3. owed'[x] = <<>> /\ down' = down /\ got' = got
    BY <1>1, Zenon
<1>4. ASSUME NEW r \in Responses, NEW c \in Calls, NEW k \in Nat, conn[c] = x, Answering(c, r, k)
      PROVE  Answering(c, r, k)'
  <2>1. down[x] \in Seq(Item) /\ owed[x] \in Seq(Item) /\ Items(c, r) \in Seq(Item)
      BY ItemsType
  <2>2. Follows(down[x], <<>>, Items(c, r), k)
      BY <1>4, <2>1, FollowsLost, Zenon DEF Answering
  <2>3. conn' = conn
      BY <1>1, Zenon DEF client
  <2> QED BY <1>1, <1>3, <1>4, <2>2, <2>3, Zenon DEF Answering
<1>5. ASSUME NEW c \in Calls, Using(c), conn[c] = x PROVE ExchangeOf(c)'
  <2>1. ExchangeOf(c)
      BY <1>5, Zenon DEF WireInv, ExchangeOK
  <2>2. pc' = pc /\ conn' = conn /\ head' = head /\ left' = left /\ asked' = asked
      BY <1>1, Zenon DEF client, local
  <2>3. Silent(conn[c]) => Silent(conn[c])'
      BY <1>3, <1>5, <2>2, Zenon DEF Silent
  <2>4. Unanswered(c) => Unanswered(c)'
      BY <1>3, <2>2, <2>3, Zenon DEF Unanswered
  <2>5. \A r \in Responses : Answering(c, r, 0) => Answering(c, r, 0)'
      BY <1>4, <1>5, 0 \in Nat
  <2>6. Reading(c, head[c], left[c]) => Reading(c, head[c], left[c])'
    <3> SUFFICES ASSUME Reading(c, head[c], left[c])
                 PROVE  Reading(c, head[c], left[c])'
        OBVIOUS
    <3>1. Limit(head[c].resp) \in Nat
        BY SMT DEF Limit
    <3>2. 1 + (Limit(head[c].resp) + 1 - left[c]) \in Nat
        BY <3>1, Remains, Zenon DEF Reading
    <3> QED BY <1>4, <1>5, <2>2, <3>2, Zenon DEF Reading
  <2> QED BY <1>3, <2>1, <2>2, <2>3, <2>4, <2>5, <2>6, Zenon DEF ExchangeOf
<1>6. ~ InUse(x) => Silent(x)' /\ got'[x] = 0
    BY <1>1, <1>3, SMT DEF WireInv, EndsOK, Silent
<1>7. ~ (sock[x] # "open") /\ ~ (sock[x] = "none")
    BY <1>1, Zenon
<1> QED BY <1>2, <1>3, <1>5, <1>6, <1>7, AtNodeKeepsWire, Zenon

-----------------------------------------------------------------------------
(* Every step.                                                             *)

LEMMA CloseAllKeepsWire == ASSUME Known, WireInv, CloseAll PROVE WireInv'
<1> USE Basics, WireFacts DEF Known
<1>1. /\ lock = NoCall /\ Swaps({pool[k] : k \in Keys}, {})
      /\ UNCHANGED <<pc, outcome, peer, got, executed>>
    BY Zenon DEF CloseAll, Closes
<1>2. \A d \in Calls : ~ Using(d) /\ pc'[d] \notin InTry
    BY <1>1, SMT DEF Using
<1>3. ExchangeOK'
    BY <1>2, Zenon DEF ExchangeOK, Using
<1>4. NoCrosstalk'
    BY <1>1, Zenon DEF WireInv, NoCrosstalk
<1>5. ASSUME NEW x \in Conns
      PROVE  /\ sock'[x] # "open" => Silent(x)'
             /\ sock'[x] = "none" => got'[x] = 0
             /\ peer'[x] # "open" => owed'[x] = <<>>
             /\ sock'[x] = "open" /\ ~ InUse(x)' => Silent(x)' /\ got'[x] = 0
  <2>1. /\ sock[x] # "open" => Silent(x)
        /\ sock[x] = "none" => got[x] = 0
        /\ peer[x] # "open" => owed[x] = <<>>
        /\ sock[x] = "open" => Silent(x) /\ got[x] = 0
      BY <1>2, Zenon DEF WireInv, EndsOK, InUse
  <2>2. \/ sock'[x] = "closed" /\ down'[x] = <<>> /\ owed'[x] = <<>>
        \/ sock'[x] = sock[x] /\ down'[x] = down[x] /\ owed'[x] = owed[x]
    <3>1. CASE x \in {pool[k] : k \in Keys}
        BY <1>1, <3>1, SwapsEach, Zenon
    <3>2. CASE x \notin {pool[k] : k \in Keys}
      <4>1. sock'[x] = sock[x]
          BY <1>1, <3>2, SwapsEach
      <4> QED BY <1>1, <3>2, <4>1, SwapsEach, Zenon
    <3> QED BY <3>1, <3>2, Zenon
  <2> QED BY <1>1, <2>1, <2>2, SMT DEF Silent
<1>6. EndsOK'
    BY <1>5, Zenon DEF EndsOK
<1> QED BY <1>3, <1>4, <1>6 DEF WireInv

(* A step that changes nothing WireInv speaks of: what a call that is in no *)
(* exchange, or its clock, does.                                           *)
LEMMA SameKeepsWire ==
    ASSUME Known, WireInv, UNCHANGED <<conn, head, left, outcome, sock, peer, asked, got, owed, down,
                                       executed>>,
           \A c \in Calls : pc'[c] = pc[c] \/ (pc[c] \notin InTry /\ pc'[c] \notin InTry)
    PROVE  WireInv'
<1>1. \A c \in Calls : Using(c)' <=> Using(c)
    BY Zenon DEF Using
<1>2. \A x : InUse(x)' <=> InUse(x)
    BY <1>1, Zenon DEF InUse
<1>3. \A x : Silent(x)' <=> Silent(x)
    BY Zenon DEF Silent
<1>4. EndsOK'
    BY <1>2, <1>3, Zenon DEF WireInv, EndsOK
<1>5. ASSUME NEW c \in Calls, Using(c)' PROVE ExchangeOf(c)'
  <2>1. pc'[c] = pc[c] /\ ExchangeOf(c)
      BY <1>1, <1>5, Zenon DEF WireInv, ExchangeOK, Using
  <2> QED BY <2>1, Zenon DEF ExchangeOf, Unanswered, Answering, Reading, Silent
<1>6. ExchangeOK'
    BY <1>5, Zenon DEF ExchangeOK
<1>7. NoCrosstalk'
    BY Zenon DEF WireInv, NoCrosstalk
<1> QED BY <1>4, <1>6, <1>7 DEF WireInv

LEMMA FreshKeepsWire ==
    ASSUME Known, WireInv, NEW c \in Calls, OpenFresh(c) \/ EvictDead(c) \/ SendStale(c)
    PROVE  WireInv'
<1> USE Basics, WireFacts DEF Known
<1>1. SameNode
    BY Zenon DEF OpenFresh, EvictDead, SendStale, SameNode
<1>2. ASSUME NEW S, NEW q, OpensFresh(c, S, q)
      PROVE  \/ Ends(c, Error, NoConn) /\ Closes(S) /\ opener' = opener
             \/ \E y \in Conns : Taken(c, S, q, y) /\ UNCHANGED outcome
    BY <1>2, Zenon DEF OpensFresh, Taken
<1>3. \/ /\ pc[c] = "waiting" /\ lock = NoCall
         /\ \/ pool[KeyOf[c]] = NoConn /\ OpensFresh(c, {}, NoConn)
            \/ pool[KeyOf[c]] # NoConn /\ OpensFresh(c, {pool[KeyOf[c]]}, NoConn)
      \/ /\ Using(c)
         /\ \/ canReconnect[c] /\ OpensFresh(c, {conn[c]}, pool[KeyOf[c]])
            \/ Ends(c, Error, NoConn) /\ Closes({conn[c]}) /\ opener' = opener
  <2>1. CASE SendStale(c)
    <3>1. pc[c] \in InTry
        BY <2>1, SMT DEF SendStale, InTry
    <3> QED BY <2>1, <3>1, Zenon DEF SendStale, Fails, Using
  <2>2. CASE OpenFresh(c) \/ EvictDead(c)
      BY <2>2, Zenon DEF OpenFresh, EvictDead, Acquires, Pooled
  <2> QED BY <2>1, <2>2
<1> HIDE DEF Using
<1>4. \/ Drops(c) /\ Ends(c, Error, NoConn)
      \/ \E y \in Conns : Opens(c, y) /\ UNCHANGED outcome
    BY <1>2, <1>3, Zenon DEF Drops, Opens
<1>5. Ends(c, Error, NoConn) => Told(c)
    BY SMT DEF Ends, Told, Error
<1> QED BY <1>1, <1>4, <1>5, DropKeepsWire, OpensKeepsWire, Zenon

LEMMA FailsKeepsWire ==
    ASSUME Known, WireInv, NEW c \in Calls, RefuseResponse(c) \/ TimesOut(c) \/ Raises(c)
    PROVE  WireInv'
<1> USE Basics, WireFacts DEF Known
<1>1. SameNode
    BY Zenon DEF RefuseResponse, TimesOut, Raises, SameNode
<1>2. Using(c) /\ opener' = opener
  <2>1. CASE RefuseResponse(c)
      BY <2>1, SMT DEF RefuseResponse, Using, InTry
  <2>2. CASE TimesOut(c) \/ Raises(c)
      BY <2>2, Zenon DEF TimesOut, Raises, Using
  <2> QED BY <2>1, <2>2
<1>3. (Ends(c, Error, NoConn) \/ Ends(c, NotReady, NoConn)) /\ Closes({conn[c]})
    BY Zenon DEF RefuseResponse, TimesOut, Raises, Fails
<1>4. Drops(c)
    BY <1>2, <1>3, Zenon DEF Drops
<1>5. Told(c)
    BY <1>3, SMT DEF Ends, Told, Error, NotReady
<1> QED BY <1>1, <1>4, <1>5, DropKeepsWire, Zenon

LEMMA BeginKeepsWire ==
    ASSUME Known, WireInv, NEW c \in Calls, Begin(c) \/ Expire(c)
    PROVE  WireInv'
<1>1. UNCHANGED <<conn, head, left, outcome, sock, peer, asked, got, owed, down, executed>>
    BY Zenon DEF Begin, Expire, local, wire
<1>2. \A d \in Calls : pc'[d] = pc[d] \/ (pc[d] \notin InTry /\ pc'[d] \notin InTry)
  <2>1. pc \in [Calls -> {"idle", "waiting", "done"} \cup InTry]
      BY Basics DEF Known
  <2>2. CASE Begin(c)
    <3>1. pc[c] = "idle" /\ pc' = [pc EXCEPT ![c] = "waiting"]
        BY <2>2, Zenon DEF Begin
    <3> QED BY <2>1, <3>1, SMT DEF InTry
  <2>3. CASE Expire(c)
      BY <2>3, Zenon DEF Expire
  <2> QED BY <2>2, <2>3
<1> QED BY <1>1, <1>2, SameKeepsWire, Zenon

LEMMA WireStays == Known /\ WireInv /\ [Next]_vars => WireInv'
<1> SUFFICES ASSUME Known, WireInv, [Next]_vars PROVE WireInv'
    OBVIOUS
<1>1. ASSUME NEW c \in Calls, CallStep(c) PROVE WireInv'
    BY <1>1, BeginKeepsWire, FreshKeepsWire, ReuseKeepsWire, ConnectKeepsWire, SendKeepsWire,
       ReadHeadKeepsWire, FailsKeepsWire, ReadUnitKeepsWire, FinishKeepsWire, Zenon DEF CallStep
<1>2. ASSUME NEW x \in Conns, NodeStep(x) PROVE WireInv'
    BY <1>2, ExecutesKeepsWire, SendsKeepsWire, ClosesKeepsWire, Zenon DEF NodeStep
<1>3. ASSUME UNCHANGED vars PROVE WireInv'
  <2>1. UNCHANGED <<pc, conn, head, left, outcome, sock, peer, asked, got, owed, down, executed>>
      BY <1>3, Zenon DEF vars, client, local, wire
  <2>2. \A c \in Calls : pc'[c] = pc[c]
      BY <2>1, Zenon
  <2>3. UNCHANGED <<conn, head, left, outcome, sock, peer, asked, got, owed, down, executed>>
      BY <2>1, Zenon
  <2> QED BY <2>2, <2>3, SameKeepsWire, Zenon
<1> QED BY <1>1, <1>2, <1>3, CloseAllKeepsWire, Zenon DEF Next, Terminating

LEMMA WireInitially == Init => WireInv
BY SMT DEF Init, WireInv, EndsOK, ExchangeOK, NoCrosstalk, Silent, Using, InTry, Nothing

LEMMA Between ==
    ASSUME Known, lock = NoCall
    PROVE  /\ \A c \in Calls : ~ Using(c)
           /\ \A k \in Keys : pool[k] # NoConn => pool[k] \in Conns
           /\ \A k \in Keys : pool[k] # NoConn => sock[pool[k]] = "open"
           /\ \A x \in Conns : sock[x] = "open" => \E k \in Keys : pool[k] = x
           /\ NoConn \notin Conns
<1> USE Basics DEF Known
<1>1. \A c \in Calls : ~ Using(c)
    BY Zenon
<1>2. \A k \in Keys : pool[k] # NoConn => pool[k] \in Conns
    BY Zenon
<1>3. /\ \A k \in Keys : pool[k] # NoConn => sock[pool[k]] = "open"
      /\ \A x \in Conns : sock[x] = "open" => \E k \in Keys : pool[k] = x
    BY <1>1, Zenon DEF HeldInv, PoolOK
<1> QED BY <1>1, <1>2, <1>3

LEMMA WireAlways == Spec => [](Known /\ WireInv)
<1>1. Init => Known /\ WireInv
    BY InitInv, HeldInitially, WireInitially, Zenon DEF Known
<1>2. Known /\ WireInv /\ [Next]_vars => (Known /\ WireInv)'
    BY Inductive, HeldStays, WireStays, Zenon DEF Known
<1> QED BY <1>1, <1>2, PTL DEF Spec

-----------------------------------------------------------------------------
(* The theorems.                                                           *)

(* A request and its credential go to no host but the one the url names:    *)
(* what is pooled under a key was opened for it, and so was what a call of  *)
(* that key has.                                                           *)
THEOREM KeysStayApart == Spec => []KeysAreApart
<1>1. Known => KeysAreApart
    BY Zenon DEF Known, HeldInv
<1> QED BY <1>1, HeldAlways, PTL

(* A call opens one connection at most, though it may find a dead one and   *)
(* be failed by another: `_reconnect` is not tried twice.                   *)
THEOREM OneConnectionEach == Spec => []OneConnectionPerCall
<1>1. Known => OneConnectionPerCall
    BY Zenon DEF Known, HeldInv
<1> QED BY <1>1, HeldAlways, PTL

(* Between calls what is open is what is pooled: nothing that failed is     *)
(* left in the pool, and nothing is left open outside it.                   *)
THEOREM OpenStaysPooled == Spec => []OpenIsPooled
<1>1. ASSUME Known PROVE OpenIsPooled
    BY <1>1, Between, Zenon DEF OpenIsPooled
<1> QED BY <1>1, HeldAlways, PTL

(* What the probe of a kept connection relies on: between calls there is    *)
(* nothing asked, owed or unread on it, so that only the node's own close   *)
(* makes it readable.                                                      *)
THEOREM PoolStaysQuiet == Spec => []PoolIsQuiet
<1>1. ASSUME Known, WireInv PROVE PoolIsQuiet
  <2> SUFFICES ASSUME lock = NoCall, NEW k \in Keys, pool[k] # NoConn
               PROVE  /\ sock[pool[k]] = "open" /\ Silent(pool[k])
                      /\ got[pool[k]] = 0
      BY Zenon DEF PoolIsQuiet, Silent
  <2>1. sock[pool[k]] = "open" /\ pool[k] \in Conns /\ ~ InUse(pool[k])
      BY <1>1, Between, Zenon DEF InUse
  <2> QED BY <1>1, <2>1, Zenon DEF WireInv, EndsOK
<1> QED BY <1>1, WireAlways, PTL

(* An answer is the node's to this very call, executed once: whatever was   *)
(* cut, refused, timed out or reset before it over the same connection.     *)
THEOREM AnswersAreOnesOwn == Spec => []NoCrosstalk
<1>1. WireInv => NoCrosstalk
    BY Zenon DEF WireInv
<1> QED BY <1>1, WireAlways, PTL

-----------------------------------------------------------------------------
(* The abstract specification.                                             *)

(* A call has an outcome once it has returned.                              *)
Settled == \A c \in Calls : outcome[c].kind = "none" <=> pc[c] # "done"

Failure(o) == o \in {Error, NotReady}
Answers(c, o) == o.kind \in {"answer", "short"} /\ executed[c] = 1

(* What a step is to the caller: nothing, a return or an execution.         *)
Unseen ==
    /\ UNCHANGED <<executed, outcome>>
    /\ \A c \in Calls : pc'[c] = "done" <=> pc[c] = "done"
Returns(c, o) ==
    /\ pc[c] # "done" /\ pc' = [pc EXCEPT ![c] = "done"]
    /\ outcome' = [outcome EXCEPT ![c] = o] /\ executed' = executed
    /\ Failure(o) \/ Answers(c, o)
Executes(c) ==
    /\ executed[c] = 0 /\ executed' = [executed EXCEPT ![c] = 1]
    /\ UNCHANGED <<pc, outcome>>
Visible(c) == Executes(c) \/ \E o \in Outcome : Returns(c, o)

LEMMA VisibleSteps ==
    ASSUME Known, WireInv, [Next]_vars
    PROVE  Unseen \/ \E c \in Calls : Visible(c)
<1> USE Basics, WireFacts DEF Known
<1>0. Error \in Outcome /\ NotReady \in Outcome
    BY OutcomeType
<1>1. ASSUME NEW c \in Calls, NEW o \in Outcome, NEW q, Ends(c, o, q), pc[c] # "done",
             executed' = executed, Failure(o) \/ Answers(c, o)
      PROVE  Visible(c)
    BY <1>1, Zenon DEF Ends, Returns, Visible
<1>2. ASSUME NEW c \in Calls, pc' = [pc EXCEPT ![c] = "waiting"] \/ pc' = pc
                \/ (\E at \in InTry : pc' = [pc EXCEPT ![c] = at]),
             pc[c] # "done", UNCHANGED <<executed, outcome>>
      PROVE  Unseen
    BY <1>2, SMT DEF Unseen, InTry
<1>3. ASSUME NEW c \in Calls, Begin(c) \/ Expire(c) \/ Connect(c) \/ SendUnit(c) \/ ReadUnit(c)
      PROVE  Unseen
    BY <1>2, <1>3, SMT DEF Begin, Expire, Connect, SendUnit, ReadUnit, InTry
<1>a. ASSUME NEW c \in Calls, NEW S, NEW q, OpensFresh(c, S, q), pc[c] # "done", executed' = executed
      PROVE  Unseen \/ Visible(c)
  <2>1. CASE Ends(c, Error, NoConn)
      BY <1>0, <1>1, <1>a, <2>1, Zenon DEF Failure
  <2>2. CASE pc' = [pc EXCEPT ![c] = "connecting"] /\ UNCHANGED outcome
      BY <1>a, <2>2, SMT DEF Unseen
  <2> QED BY <1>a, <2>1, <2>2, Zenon DEF OpensFresh
<1>4. ASSUME NEW c \in Calls, OpenFresh(c) \/ EvictDead(c) \/ SendStale(c)
      PROVE  Unseen \/ Visible(c)
  <2>1. pc[c] # "done" /\ executed' = executed
      BY <1>4, Zenon DEF OpenFresh, EvictDead, SendStale, Acquires
  <2>2. Ends(c, Error, NoConn) \/ \E S, q : OpensFresh(c, S, q)
      BY <1>4, Zenon DEF OpenFresh, EvictDead, SendStale, Fails
  <2> QED BY <1>0, <1>1, <1>a, <2>1, <2>2, Zenon DEF Failure
<1>5. ASSUME NEW c \in Calls, Reuse(c) PROVE Unseen \/ Visible(c)
  <2>1. /\ pc[c] = "waiting" /\ executed' = executed
        /\ \/ \E q : Ends(c, Error, q)
           \/ pc' = [pc EXCEPT ![c] = "sending"] /\ UNCHANGED outcome
      BY <1>5, Zenon DEF Reuse, Acquires
  <2>2. CASE \E q : Ends(c, Error, q)
      BY <1>0, <1>1, <2>1, <2>2, Zenon DEF Failure
  <2>3. CASE pc' = [pc EXCEPT ![c] = "sending"] /\ UNCHANGED outcome
      BY <2>1, <2>3, SMT DEF Unseen
  <2> QED BY <2>1, <2>2, <2>3
<1>6. ASSUME NEW c \in Calls, ReadHead(c) PROVE Unseen \/ Visible(c)
  <2>1. /\ pc[c] = "awaiting" /\ executed' = executed
        /\ \/ Ends(c, Error, NoConn)
           \/ pc' = [pc EXCEPT ![c] = "reading"] /\ UNCHANGED outcome
      BY <1>6, Zenon DEF ReadHead, Fails
  <2>2. CASE Ends(c, Error, NoConn)
      BY <1>0, <1>1, <2>1, <2>2, Zenon DEF Failure
  <2>3. CASE pc' = [pc EXCEPT ![c] = "reading"] /\ UNCHANGED outcome
      BY <2>1, <2>3, SMT DEF Unseen
  <2> QED BY <2>1, <2>2, <2>3
<1>7. ASSUME NEW c \in Calls, RefuseResponse(c) \/ TimesOut(c) \/ Raises(c) PROVE Visible(c)
  <2>1. pc[c] # "done" /\ executed' = executed
      BY <1>7, SMT DEF RefuseResponse, TimesOut, Raises, InTry
  <2>2. Ends(c, Error, NoConn) \/ Ends(c, NotReady, NoConn)
      BY <1>7, Zenon DEF RefuseResponse, TimesOut, Raises, Fails
  <2> QED BY <1>0, <1>1, <2>1, <2>2, Zenon DEF Failure
<1>8. ASSUME NEW c \in Calls, Finish(c) PROVE Visible(c)
  <2>1. pc[c] = "reading" /\ executed' = executed /\ Using(c)
      BY <1>8, SMT DEF Finish, Using, InTry
  <2>2. head[c].call = c /\ executed[c] = 1
      BY <2>1, Zenon DEF WireInv, ExchangeOK, ExchangeOf, Reading, Answering
  <2>3. Answer(c) \in Outcome /\ Answers(c, Answer(c))
      BY <2>2, SMT DEF Answer, Answers, Outcome, OutcomeKinds
  <2>4. Ends(c, Error, NoConn) \/ \E q : Ends(c, Answer(c), q)
      BY <1>8, Zenon DEF Finish, Fails
  <2> QED BY <1>0, <1>1, <2>1, <2>3, <2>4, Zenon DEF Failure
<1>9. ASSUME NEW x \in Conns, NodeExecutes(x) PROVE \E c \in Calls : Visible(c)
  <2>1. /\ got[x] = ReqLen /\ UNCHANGED client
        /\ executed' = [executed EXCEPT ![asked[x]] = @ + 1]
      BY <1>9, Zenon DEF NodeExecutes
  <2>2. asked[x] \in Calls /\ executed[asked[x]] = 0
      BY <2>1, SMT DEF IndInv, RequestsOK, WholeOK, Whole
  <2>3. executed' = [executed EXCEPT ![asked[x]] = 1]
      BY <2>1, <2>2, SMT
  <2>4. UNCHANGED <<pc, outcome>>
      BY <2>1, Zenon DEF client
  <2> QED BY <2>2, <2>3, <2>4, Zenon DEF Executes, Visible
<1>10. ASSUME CloseAll \/ UNCHANGED vars \/ \E x \in Conns : NodeSends(x) \/ NodeCloses(x)
       PROVE  Unseen
  <2>1. UNCHANGED <<pc, outcome, executed>>
      BY <1>10, Zenon DEF CloseAll, NodeSends, NodeCloses, vars, client
  <2> QED BY <2>1, Zenon DEF Unseen
<1> QED BY <1>3, <1>4, <1>5, <1>6, <1>7, <1>8, <1>9, <1>10, Zenon
        DEF Next, CallStep, NodeStep, Terminating

LEMMA SettledStays == Known /\ WireInv /\ Settled /\ [Next]_vars => Settled'
<1> SUFFICES ASSUME Known, WireInv, Settled, [Next]_vars PROVE Settled'
    OBVIOUS
<1> USE Basics, WireFacts DEF Known
<1>1. CASE Unseen
    BY <1>1, Zenon DEF Unseen, Settled
<1>2. ASSUME NEW c \in Calls, NEW o \in Outcome, Returns(c, o) PROVE Settled'
  <2>1. o.kind # "none"
      BY <1>2, SMT DEF Returns, Failure, Answers, Error, NotReady
  <2> QED BY <1>2, <2>1, SMT DEF Returns, Settled
<1>3. ASSUME NEW c \in Calls, Executes(c) PROVE Settled'
    BY <1>3, Zenon DEF Executes, Settled
<1> QED BY <1>1, <1>2, <1>3, VisibleSteps, Zenon DEF Visible

Results == [c \in Calls |-> Result(c)]

LEMMA SettledAtFirst == Init => \A c \in Calls : outcome[c].kind = "none" /\ pc[c] = "idle"
<1>1. Init => \A c \in Calls : outcome[c] = Nothing /\ pc[c] = "idle"
    BY Zenon DEF Init
<1>2. Nothing.kind = "none"
    BY SMT DEF Nothing
<1> QED BY <1>1, <1>2, Zenon

LEMMA ExchangeInit == Init => Exchange!Init
<1> SUFFICES ASSUME Init PROVE Exchange!Init
    OBVIOUS
<1>1. executed = [c \in Calls |-> 0]
    BY Zenon DEF Init
<1>2. \A c \in Calls : Result(c) = "pending"
  <2> SUFFICES ASSUME NEW c \in Calls PROVE Result(c) = "pending"
      OBVIOUS
  <2>1. outcome[c].kind = "none"
      BY SettledAtFirst, Zenon
  <2> QED BY <2>1, SMT DEF Result
<1>3. Results = [c \in Calls |-> "pending"]
    BY <1>2, Zenon DEF Results
<1> QED BY <1>1, <1>3, Zenon DEF Exchange!Init, Results

LEMMA ExchangeStep ==
    ASSUME Known, WireInv, Settled, [Next]_vars
    PROVE  [Exchange!Next]_(Exchange!rpcVars)
<1> USE Basics, WireFacts DEF Known
<1>1. ASSUME outcome' = outcome PROVE Results' = Results
    BY <1>1, Zenon DEF Results, Result
<1>2. CASE Unseen
    BY <1>1, <1>2, Zenon DEF Unseen, Exchange!rpcVars, Results
<1>3. ASSUME NEW c \in Calls, Executes(c) PROVE Exchange!Execute(c)
    BY <1>1, <1>3, Zenon DEF Executes, Exchange!Execute, Results
<1>4. ASSUME NEW c \in Calls, NEW o \in Outcome, Returns(c, o)
      PROVE  Exchange!Answer(c) \/ Exchange!Fail(c)
  <2>1. Result(c) = "pending"
      BY <1>4, SMT DEF Returns, Settled, Result
  <2>2. \A d \in Calls \ {c} : outcome'[d] = outcome[d]
      BY <1>4, Zenon DEF Returns
  <2>3. \A d \in Calls \ {c} : Result(d)' = Result(d)
      BY <2>2, Zenon DEF Result
  <2>4. outcome'[c] = o /\ executed' = executed
      BY <1>4, Zenon DEF Returns
  <2>5. Results' = [Results EXCEPT ![c] = Result(c)']
      BY <2>3, Zenon DEF Results
  <2>6. Results[c] = "pending"
      BY <2>1, Zenon DEF Results
  <2>7. CASE Failure(o)
    <3>1. Result(c)' = "failed"
        BY <2>4, <2>7, SMT DEF Failure, Error, NotReady, Result
    <3> QED BY <2>4, <2>5, <2>6, <3>1, Zenon DEF Exchange!Fail, Results
  <2>8. CASE Answers(c, o)
    <3>1. Result(c)' = "answered"
        BY <2>4, <2>8, SMT DEF Answers, Result
    <3>2. executed[c] = 1
        BY <2>8, Zenon DEF Answers
    <3> QED BY <2>4, <2>5, <2>6, <3>1, <3>2, Zenon DEF Exchange!Answer, Results
  <2> QED BY <1>4, <2>7, <2>8, Zenon DEF Returns
<1> QED BY <1>2, <1>3, <1>4, VisibleSteps, Zenon DEF Visible, Exchange!Next

(* The transport keeps what every caller of `http_request` is promised: a   *)
(* call is executed once at most, heard of once, and answered only after    *)
(* its own execution -- though it reconnects, and whatever fails.           *)
THEOREM ImplementsRpcExchange == Spec => ImplementsExchange
<1>1. Init => Settled
  <2>1. "idle" # "done"
      OBVIOUS
  <2> QED BY <2>1, SettledAtFirst, Zenon DEF Settled
<1>2. Spec => [](Known /\ WireInv /\ Settled)
  <2>1. Init => Known /\ WireInv
      BY InitInv, HeldInitially, WireInitially, Zenon DEF Known
  <2>2. Known /\ WireInv /\ [Next]_vars => (Known /\ WireInv)'
      BY Inductive, HeldStays, WireStays, Zenon DEF Known
  <2> QED BY <1>1, <2>1, <2>2, SettledStays, PTL DEF Spec
<1>3. Known /\ WireInv /\ Settled /\ [Next]_vars => [Exchange!Next]_(Exchange!rpcVars)
    BY ExchangeStep
<1> QED BY <1>2, <1>3, ExchangeInit, PTL DEF Spec, ImplementsExchange, Exchange!Spec
=============================================================================
