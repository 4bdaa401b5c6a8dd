-------------------------- MODULE RpcClientProofs --------------------------
(***************************************************************************)
(* What a caller is told is what the node computed for it, for any number   *)
(* of calls and of members, and any number of alterations by the medium.    *)
(***************************************************************************)
EXTENDS RpcClient, FiniteSetTheorems, TLAPS

(* A reply, wherever it got to, carries what the node put in it for its id. *)
Honest(r) ==
    r # NotObject =>
        /\ r \in Object
        /\ r.result = Null => r.error \in Ids
        /\ r.id \in Ids /\ r.result \in Ids =>
              r.result = r.id /\ computed[r.id] = "result"
        /\ r.id \in Ids /\ r.error \in Ids =>
              r.error = r.id /\ computed[r.id] = "error"

GoodPacket(p) ==
    /\ p \in Packet
    /\ p.shape = "object" => Len(p.replies) = 1 /\ p.replies[1] # NotObject
    /\ \A j \in DOMAIN p.replies : Honest(p.replies[j])

(* Nothing is computed for a call the node has not answered.               *)
Fresh ==
    \A c \in Calls : packet[c] = NoPacket =>
        \A i \in DOMAIN IdsOf[c] : computed[IdsOf[c][i]] = "nothing"

PacketsOK ==
    /\ \A c \in Calls : packet[c] # NoPacket => GoodPacket(packet[c])
    /\ \A p \in cache :
        GoodPacket(p) /\ \A j \in DOMAIN p.replies : p.replies[j] # NotObject

IndInv == TypeOK /\ Fresh /\ PacketsOK /\ AnswersAreOwn /\ EveryMemberIsKeyed

(* The argument of _correlated_batch_replies: n distinct members of a set  *)
(* of n are that set, so no lookup by id can miss.                         *)
LEMMA CorrelatedIsTotal ==
    ASSUME NEW ids \in Seq(Ids), NEW replies, replies \in Seq(Object \cup {NotObject}),
           \A i, j \in DOMAIN ids : ids[i] = ids[j] => i = j,
           Correlates(ids, replies)
    PROVE  \A i \in DOMAIN ids : Answered(ids[i], replies)
<1> DEFINE n == Len(ids)
           S == {ids[i] : i \in 1 .. n}
           f == [j \in 1 .. n |-> replies[j].id]
           g == [i \in 1 .. n |-> ids[i]]
<1>1. n \in Nat /\ DOMAIN ids = 1 .. n /\ DOMAIN replies = 1 .. n /\ Len(replies) = n
  BY DEF Correlates
<1>2. IsFiniteSet(1 .. n) /\ Cardinality(1 .. n) = n
  <2> HIDE DEF n
  <2>1. /\ IsFiniteSet(1 .. n)
        /\ Cardinality(1 .. n) = IF 1 > n THEN 0 ELSE n - 1 + 1
    BY <1>1, FS_Interval
  <2>2. (IF 1 > n THEN 0 ELSE n - 1 + 1) = n
    BY <1>1
  <2>3. QED
    BY <2>1, <2>2
<1>3. ExistsBijection(1 .. n, S)
  <2>1. g \in [1 .. n -> S] /\ \A i, j \in 1 .. n : g[i] = g[j] => i = j
    BY <1>1
  <2>2. \A s \in S : \E i \in 1 .. n : g[i] = s
    OBVIOUS
  <2>3. g \in Bijection(1 .. n, S)
    BY <2>1, <2>2 DEF Bijection, Injection, Surjection, IsInjective
  <2>4. QED
    BY <2>3 DEF ExistsBijection
<1>4. IsFiniteSet(S) /\ Cardinality(S) = n
  BY <1>2, <1>3, FS_Bijection
<1>5. f \in Injection(1 .. n, S)
  <2>1. \A j \in 1 .. n : f[j] \in S
    BY <1>1 DEF Correlates
  <2>2. \A j, k \in 1 .. n : f[j] = f[k] => j = k
    BY <1>1 DEF Correlates
  <2>3. QED
    BY <2>1, <2>2 DEF Injection, IsInjective
<1>6. f \in Surjection(1 .. n, S)
  <2>1. f \in [1 .. n -> S]
    BY <1>5 DEF Injection
  <2>2. QED
    BY <1>2, <1>4, <1>5, FS_Injection
<1>7. \A s \in S : \E j \in 1 .. n : f[j] = s
  BY <1>6 DEF Surjection
<1>8. QED
  BY <1>1, <1>7 DEF Answered

(* Whatever a reply says to a call, it says of that call.                  *)
LEMMA DiscriminateOwn ==
    ASSUME NEW id \in Ids, NEW status \in {"ok", "error"}, NEW r \in Object, Honest(r)
    PROVE  LET v == Discriminate(id, status, r) IN
           \/ v = HttpError /\ status = "error"
           \/ v = FetchError
           \/ v = Value(id) /\ computed[id] = "result"
           \/ v = RpcError(id) /\ computed[id] = "error"
<1>1. r # NotObject /\ (r.id = id => r.id \in Ids)
  BY IdsAssumption DEF Object
<1>2. /\ r.result \in Ids \/ r.result \in {Absent, Null}
      /\ r.marker \in {"absent", "2.0", "other"}
  BY DEF Object
<1>3. CASE r.marker = "absent"
  BY <1>1, <1>2, <1>3, IdsAssumption DEF Discriminate, LegacyResult, Honest
<1>4. CASE r.marker = "2.0"
  BY <1>1, <1>2, <1>4, IdsAssumption DEF Discriminate, V2Result, Honest
<1>5. CASE r.marker = "other"
  BY <1>5 DEF Discriminate
<1>6. QED
  BY <1>2, <1>3, <1>4, <1>5

LEMMA NoOutcome == \A k \in {"none", "http", "fetch", "lost", "key_error"} :
    Outcome(k) \in OutcomeType /\ Outcome(k).kind = k
BY DEF Outcome, OutcomeType

LEMMA VerdictTypes == \A r \in Ids :
    Value(r) \in Verdict /\ RpcError(r) \in Verdict
BY DEF Value, RpcError, Verdict

LEMMA MembersTyped ==
    ASSUME NEW c \in Calls
    PROVE  /\ IdsOf[c] \in Seq(Ids)
           /\ Len(IdsOf[c]) \in Nat
           /\ DOMAIN IdsOf[c] = 1 .. Len(IdsOf[c])
           /\ \A i \in DOMAIN IdsOf[c] : IdsOf[c][i] \in Ids
           /\ \A i, j \in DOMAIN IdsOf[c] : IdsOf[c][i] = IdsOf[c][j] => i = j
           /\ c \notin Batches => Len(IdsOf[c]) = 1
BY CallsAssumption

LEMMA InitInv == Init => IndInv
<1> SUFFICES ASSUME Init PROVE IndInv
  OBVIOUS
<1>1. TypeOK
  BY NoOutcome, CallsAssumption DEF Init, TypeOK
<1>2. Fresh
  BY MembersTyped DEF Init, Fresh
<1>3. PacketsOK
  BY DEF Init, PacketsOK
<1>4. AnswersAreOwn /\ EveryMemberIsKeyed
  BY NoOutcome DEF Init, AnswersAreOwn, EveryMemberIsKeyed
<1>5. QED
  BY <1>1, <1>2, <1>3, <1>4 DEF IndInv

(* A reply the node makes.                                                 *)
LEMMA ReplyOfTyped ==
    ASSUME NEW r \in Ids, NEW version \in {"1.1", "2.0"}, NEW how \in {"result", "error"}
    PROVE  LET x == ReplyOf(r, version, how) IN
           /\ x \in Object
           /\ x.id = r
           /\ x.result = Null => x.error \in Ids
           /\ x.result \in Ids => x.result = r /\ how = "result"
           /\ x.error \in Ids => x.error = r /\ how = "error"
BY IdsAssumption DEF ReplyOf, Object

(* A reply the medium spoils says nothing the node did not.                *)
LEMMA SpoiledHonest ==
    ASSUME NEW r \in Object, Honest(r), NEW s \in Spoiled(r)
    PROVE  s \in Object /\ Honest(s)
<1>1. r # NotObject
  BY IdsAssumption
<1>3. CASE \E m \in {"absent", "2.0", "other"} : s = [r EXCEPT !.marker = m]
  BY <1>1, <1>3 DEF Honest, Object
<1>4. CASE s = [r EXCEPT !.id = NoId]
  BY <1>1, <1>4, IdsAssumption DEF Honest, Object
<1>5. CASE s = [r EXCEPT !.result = Absent]
  BY <1>1, <1>5, IdsAssumption DEF Honest, Object
<1>6. CASE s = [r EXCEPT !.result = Absent, !.error = Junk]
  BY <1>1, <1>6, IdsAssumption DEF Honest, Object
<1>7. CASE r.result # Null /\ \E e \in {Absent, Null} : s = [r EXCEPT !.error = e]
  BY <1>1, <1>7, IdsAssumption DEF Honest, Object
<1>8. QED
  BY <1>3, <1>4, <1>5, <1>6, <1>7 DEF Spoiled

(* A packet the medium alters says nothing the node did not.               *)
LEMMA PutGood ==
    ASSUME NEW p, GoodPacket(p), NEW j \in DOMAIN p.replies,
           NEW r \in Object \cup {NotObject}, Honest(r),
           r = NotObject => p.shape = "array"
    PROVE  GoodPacket([p EXCEPT !.replies[j] = r])
<1> DEFINE s == p.replies
           t == [s EXCEPT ![j] = r]
           q == [p EXCEPT !.replies = t]
<1>1. p \in Packet /\ s \in Seq(Object \cup {NotObject})
  BY DEF GoodPacket, Packet
<1>2. /\ t \in Seq(Object \cup {NotObject})
      /\ Len(t) = Len(s) /\ DOMAIN t = DOMAIN s /\ DOMAIN s = 1 .. Len(s)
      /\ \A k \in DOMAIN t : t[k] = IF k = j THEN r ELSE s[k]
  BY <1>1
<1>3. q \in Packet /\ q.replies = t /\ q.shape = p.shape /\ q.status = p.status
  <2> HIDE DEF t
  <2>1. QED
    BY <1>1, <1>2 DEF Packet
<1>4. \A k \in DOMAIN t : Honest(t[k])
  BY <1>2 DEF GoodPacket
<1>5. q.shape = "object" => Len(t) = 1 /\ t[1] # NotObject
  BY <1>2, <1>3 DEF GoodPacket
<1>6. q = [p EXCEPT !.replies[j] = r]
  BY <1>1 DEF Packet
<1>7. GoodPacket(q)
  <2> HIDE DEF q, t
  <2>1. QED
    BY <1>3, <1>4, <1>5 DEF GoodPacket
<1>8. QED
  BY <1>6, <1>7

LEMMA SeenHonest == ASSUME PacketsOK, NEW r \in Seen PROVE r \in Object /\ Honest(r)
<1>1. PICK x \in cache : \E k \in DOMAIN x.replies : r = x.replies[k]
  BY DEF Seen
<1>2. PICK k \in DOMAIN x.replies : r = x.replies[k]
  BY <1>1
<1>3. GoodPacket(x) /\ x.replies[k] # NotObject
  BY DEF PacketsOK
<1>4. QED
  BY <1>2, <1>3 DEF GoodPacket, Honest

LEMMA AlteredGood ==
    ASSUME PacketsOK, NEW p, GoodPacket(p), NEW q \in Altered(p)
    PROVE  GoodPacket(q)
<1> DEFINE s == p.replies
<1>1. p \in Packet /\ s \in Seq(Object \cup {NotObject})
  BY DEF GoodPacket, Packet
<1>2. CASE q \in OtherBodies(p)
  BY <1>1, <1>2 DEF OtherBodies, GoodPacket, Packet
<1>3. CASE q \in Replaced(p)
  <2>1. PICK j \in DOMAIN s : \E r \in Substitutes(p, j) : q = [p EXCEPT !.replies[j] = r]
    BY <1>3 DEF Replaced
  <2>2. PICK r \in Substitutes(p, j) : q = [p EXCEPT !.replies[j] = r]
    BY <2>1
  <2>3. s[j] \in Object \cup {NotObject} /\ Honest(s[j])
    BY <1>1 DEF GoodPacket
  <2>4. CASE r \in Seen
    <3>1. r \in Object /\ Honest(r) /\ r # NotObject
      BY <2>4, SeenHonest, IdsAssumption
    <3>2. QED
      BY <2>2, <3>1, PutGood
  <2>5. CASE s[j] # NotObject /\ r \in Spoiled(s[j])
    <3>1. r \in Object /\ Honest(r) /\ r # NotObject
      BY <2>3, <2>5, SpoiledHonest, IdsAssumption
    <3>2. QED
      BY <2>2, <3>1, PutGood
  <2>6. CASE p.shape = "array" /\ r = NotObject
    BY <2>2, <2>6, PutGood DEF Honest
  <2>7. QED
    BY <2>4, <2>5, <2>6 DEF Substitutes
<1>4. CASE q \in Resized(p)
  <2> DEFINE short == SubSeq(s, 1, Len(s) - 1)
  <2>0. p.shape = "array"
    BY <1>4 DEF Resized
  <2>1. CASE q = [p EXCEPT !.replies = short]
    <3>1. /\ short \in Seq(Object \cup {NotObject})
          /\ \A j \in DOMAIN short : j \in DOMAIN s /\ short[j] = s[j]
      BY <1>1
    <3> HIDE DEF short
    <3>2. q \in Packet /\ q.replies = short /\ q.shape = "array"
      BY <1>1, <2>0, <2>1, <3>1 DEF Packet
    <3>3. QED
      BY <3>1, <3>2 DEF GoodPacket
  <2>2. CASE \E r \in Seen : q = [p EXCEPT !.replies = Append(s, r)]
    <3>1. PICK r \in Seen : q = [p EXCEPT !.replies = Append(s, r)]
      BY <2>2
    <3>2. r \in Object /\ Honest(r)
      BY SeenHonest
    <3>3. /\ Append(s, r) \in Seq(Object \cup {NotObject})
          /\ \A j \in DOMAIN Append(s, r) :
                \/ j \in DOMAIN s /\ Append(s, r)[j] = s[j]
                \/ Append(s, r)[j] = r
      BY <1>1, <3>2
    <3>4. q \in Packet /\ q.replies = Append(s, r) /\ q.shape = "array"
      BY <1>1, <2>0, <3>1, <3>3 DEF Packet
    <3>5. QED
      BY <3>2, <3>3, <3>4 DEF GoodPacket
  <2>3. QED
    BY <1>1, <1>4, <2>0, <2>1, <2>2 DEF Resized, Packet
<1>5. QED
  BY <1>2, <1>3, <1>4 DEF Altered

(* What is computed is not computed again, so what is honest stays so.     *)
Keeps == \A r \in Ids : computed[r] # "nothing" => computed'[r] = computed[r]

LEMMA StaysGood ==
    ASSUME TypeOK, Keeps
    PROVE  /\ \A r : Honest(r) => Honest(r)'
           /\ \A p : GoodPacket(p) => GoodPacket(p)'
           /\ AnswersAreOwn /\ outcome' = outcome => AnswersAreOwn'
<1>1. \A r : Honest(r) => Honest(r)'
  BY DEF Honest, Keeps, TypeOK
<1>2. \A p : GoodPacket(p) => GoodPacket(p)'
  BY <1>1 DEF GoodPacket
<1>3. ASSUME AnswersAreOwn, outcome' = outcome PROVE AnswersAreOwn'
  BY <1>3, MembersTyped DEF AnswersAreOwn, Keeps
<1>4. QED
  BY <1>1, <1>2, <1>3

(* The steps of the client that end a call.                                *)
LEMMA EndsInv ==
    ASSUME IndInv, NEW c \in Calls, NEW o \in OutcomeType, Ends(c, o),
           o.kind # "key_error",
           o.kind = "answers" =>
              /\ Len(o.list) = Len(IdsOf[c])
              /\ \A i \in DOMAIN IdsOf[c] :
                    \/ o.list[i] = Value(IdsOf[c][i]) /\ computed[IdsOf[c][i]] = "result"
                    \/ o.list[i] = RpcError(IdsOf[c][i]) /\ computed[IdsOf[c][i]] = "error"
    PROVE  IndInv'
<1>1. /\ pc' = [pc EXCEPT ![c] = "done"]
      /\ outcome' = [outcome EXCEPT ![c] = o]
      /\ UNCHANGED <<computed, packet, cache, meddled>>
  BY DEF Ends
<1>2. TypeOK'
  BY <1>1 DEF IndInv, TypeOK
<1>3. Fresh'
  BY <1>1 DEF IndInv, Fresh
<1>4. PacketsOK'
  <2>1. Keeps
    BY <1>1 DEF Keeps
  <2>2. QED
    BY <1>1, <2>1, StaysGood DEF IndInv, PacketsOK
<1>5. \A d \in Calls : outcome'[d] = IF d = c THEN o ELSE outcome[d]
  BY <1>1 DEF IndInv, TypeOK
<1>6. AnswersAreOwn'
  BY <1>1, <1>5 DEF IndInv, AnswersAreOwn
<1>7. EveryMemberIsKeyed'
  BY <1>5 DEF IndInv, EveryMemberIsKeyed
<1>8. QED
  BY <1>2, <1>3, <1>4, <1>6, <1>7 DEF IndInv

LEMMA ReceiveOneInv ==
    ASSUME IndInv, NEW c \in Calls, ReceiveOne(c)
    PROVE  IndInv'
<1> DEFINE p == packet[c]
           id == IdsOf[c][1]
           v == ReadReply(id, p)
           o == IF v.kind \in {"http", "fetch"} THEN Outcome(v.kind)
                ELSE [kind |-> "answers", list |-> <<v>>]
<1>1. c \notin Batches /\ p # NoPacket /\ Ends(c, o)
  BY DEF ReceiveOne
<1>2. id \in Ids /\ Len(IdsOf[c]) = 1 /\ DOMAIN IdsOf[c] = {1}
  BY <1>1, MembersTyped
<1>3. GoodPacket(p)
  BY <1>1 DEF IndInv, PacketsOK
<1>4. \/ v = HttpError
      \/ v = FetchError
      \/ v = Value(id) /\ computed[id] = "result"
      \/ v = RpcError(id) /\ computed[id] = "error"
  <2>1. CASE p.shape = "object"
    <3>1. p.replies[1] \in Object /\ Honest(p.replies[1]) /\ p.status \in {"ok", "error"}
      BY <1>3, <2>1 DEF GoodPacket, Packet
    <3>2. v = Discriminate(id, p.status, p.replies[1])
      BY <2>1 DEF ReadReply
    <3> HIDE DEF v, p, id
    <3>3. QED
      BY <1>2, <3>1, <3>2, DiscriminateOwn
  <2>2. CASE p.shape # "object"
    BY <2>2 DEF ReadReply
  <2>3. QED
    BY <2>1, <2>2
<1>5. /\ o \in OutcomeType
      /\ o.kind # "key_error"
      /\ o.kind = "answers" => o.list = <<v>> /\ v.kind \notin {"http", "fetch"}
  <2> HIDE DEF v
  <2>1. v \in Verdict
    BY <1>2, <1>4, VerdictTypes DEF Verdict, HttpError, FetchError
  <2>2. CASE v.kind \in {"http", "fetch"}
    BY <2>2, NoOutcome
  <2>3. CASE v.kind \notin {"http", "fetch"}
    BY <2>1, <2>3 DEF OutcomeType
  <2>4. QED
    BY <2>2, <2>3
<1>6. ASSUME o.kind = "answers"
      PROVE  /\ Len(o.list) = Len(IdsOf[c])
             /\ \A i \in DOMAIN IdsOf[c] :
                   \/ o.list[i] = Value(IdsOf[c][i]) /\ computed[IdsOf[c][i]] = "result"
                   \/ o.list[i] = RpcError(IdsOf[c][i]) /\ computed[IdsOf[c][i]] = "error"
  <2>1. o.list = <<v>> /\ v.kind \notin {"http", "fetch"}
    BY <1>5, <1>6
  <2>2. v # HttpError /\ v # FetchError
    BY <2>1 DEF HttpError, FetchError
  <2> HIDE DEF v, o
  <2>3. QED
    BY <1>2, <1>4, <2>1, <2>2
<1> HIDE DEF o
<1>7. QED
  BY <1>1, <1>5, <1>6, EndsInv

LEMMA ReceiveBatchInv ==
    ASSUME IndInv, NEW c \in Calls, ReceiveBatch(c)
    PROVE  IndInv'
<1> DEFINE p == packet[c]
           ids == IdsOf[c]
           vs == MemberVerdicts(ids, p.replies)
           o == BatchOutcome(c, p)
<1>1. p # NoPacket /\ Ends(c, o)
  BY DEF ReceiveBatch
<1>2. GoodPacket(p) /\ p.replies \in Seq(Object \cup {NotObject})
  BY <1>1 DEF IndInv, PacketsOK, GoodPacket, Packet
<1>3. CASE p.status # "ok" \/ ~(p.shape = "array" /\ Correlates(ids, p.replies))
  <2>1. o = Outcome("http") \/ o = Outcome("fetch")
    BY <1>3 DEF BatchOutcome
  <2> HIDE DEF o
  <2>2. o \in OutcomeType /\ o.kind \in {"http", "fetch"}
    BY <2>1, NoOutcome
  <2>3. QED
    BY <1>1, <2>2, EndsInv
<1>4. CASE p.status = "ok" /\ p.shape = "array" /\ Correlates(ids, p.replies)
  <2>1. \A i \in DOMAIN ids : Answered(ids[i], p.replies)
    BY <1>2, <1>4, MembersTyped, CorrelatedIsTotal
  <2>2. ASSUME NEW i \in DOMAIN ids
        PROVE  \/ vs[i] = FetchError
               \/ vs[i] = Value(ids[i]) /\ computed[ids[i]] = "result"
               \/ vs[i] = RpcError(ids[i]) /\ computed[ids[i]] = "error"
    <3> DEFINE r == ReplyTo(i, ids, p.replies)
    <3>1. PICK j \in DOMAIN p.replies : r = p.replies[j]
      BY <2>1 DEF Answered, ReplyTo
    <3>2. r \in Object /\ Honest(r)
      <4>1. p.replies[j] \in Object \cup {NotObject} /\ Honest(p.replies[j])
        BY <1>2 DEF GoodPacket
      <4>2. p.replies[j] # NotObject
        BY <1>4 DEF Correlates
      <4>3. QED
        BY <3>1, <4>1, <4>2
    <3>3. vs[i] = Discriminate(ids[i], "ok", r)
      BY DEF MemberVerdicts
    <3>4. ids[i] \in Ids
      BY MembersTyped
    <3> HIDE DEF r, vs, ids
    <3>5. QED
      BY <3>2, <3>3, <3>4, DiscriminateOwn
  <2>3. CASE \E i \in DOMAIN vs : vs[i].kind = "fetch"
    <3>1. o = Outcome("fetch")
      BY <1>4, <2>1, <2>3 DEF BatchOutcome
    <3> HIDE DEF o
    <3>2. o \in OutcomeType /\ o.kind = "fetch"
      BY <3>1, NoOutcome
    <3>3. QED
      BY <1>1, <3>2, EndsInv
  <2>4. CASE ~\E i \in DOMAIN vs : vs[i].kind = "fetch"
    <3>1. o = [kind |-> "answers", list |-> vs]
      BY <1>4, <2>1, <2>4 DEF BatchOutcome
    <3>2. DOMAIN vs = 1 .. Len(ids) /\ DOMAIN ids = 1 .. Len(ids) /\ Len(ids) \in Nat
      BY MembersTyped DEF MemberVerdicts
    <3>3. \A i \in DOMAIN ids : vs[i] # FetchError /\ ids[i] \in Ids
      BY <2>4, <3>2, MembersTyped DEF FetchError
    <3>4. \A i \in DOMAIN ids :
            \/ vs[i] = Value(ids[i]) /\ computed[ids[i]] = "result"
            \/ vs[i] = RpcError(ids[i]) /\ computed[ids[i]] = "error"
      BY <2>2, <3>3
    <3>5. vs = [i \in 1 .. Len(ids) |-> vs[i]]
      BY MembersTyped DEF MemberVerdicts
    <3> HIDE DEF vs, o, ids
    <3>6. \A i \in 1 .. Len(ids) : vs[i] \in Verdict
      BY <3>2, <3>3, <3>4, VerdictTypes
    <3>7. vs \in Seq(Verdict) /\ Len(vs) = Len(ids)
      BY <3>2, <3>5, <3>6
    <3>8. o \in OutcomeType /\ o.kind = "answers" /\ o.list = vs
      BY <3>1, <3>7 DEF OutcomeType
    <3>9. QED
      BY <1>1, <3>2, <3>4, <3>7, <3>8, EndsInv DEF ids
  <2>5. QED
    BY <2>3, <2>4
<1>5. QED
  BY <1>3, <1>4

(* The packet the node makes for a call.                                   *)
LEMMA NodeAnswersInv ==
    ASSUME IndInv, NEW c \in Calls, NodeAnswers(c)
    PROVE  IndInv'
<1> DEFINE ids == IdsOf[c]
           n == Len(ids)
<1>1. PICK version \in {"1.1", "2.0"}, how \in [1 .. n -> {"result", "error"}],
           order \in [1 .. n -> 1 .. n] :
        /\ computed' = [r \in Ids |->
                IF \E i \in 1 .. n : ids[i] = r
                THEN how[CHOOSE i \in 1 .. n : ids[i] = r] ELSE computed[r]]
        /\ packet' = [packet EXCEPT ![c] = NodePacket(c, version, how, order)]
        /\ cache' = cache \cup {NodePacket(c, version, how, order)}
  BY DEF NodeAnswers
<1> DEFINE p == NodePacket(c, version, how, order)
           s == [j \in 1 .. n |-> ReplyOf(ids[order[j]], version, how[order[j]])]
<1>2. /\ packet' = [packet EXCEPT ![c] = p] /\ cache' = cache \cup {p}
      /\ packet[c] = NoPacket /\ UNCHANGED <<pc, meddled, outcome>>
  BY <1>1 DEF NodeAnswers
<1>3. /\ n \in Nat /\ DOMAIN ids = 1 .. n
      /\ \A i \in 1 .. n : ids[i] \in Ids
      /\ \A i, j \in 1 .. n : ids[i] = ids[j] => i = j
  BY MembersTyped
<1>4. /\ computed' \in [Ids -> {"nothing", "result", "error"}]
      /\ \A i \in 1 .. n : computed'[ids[i]] = how[i]
      /\ \A r \in Ids : (\A i \in 1 .. n : ids[i] # r) => computed'[r] = computed[r]
  <2> DEFINE at(r) == CHOOSE i \in 1 .. n : ids[i] = r
  <2>1. computed' = [r \in Ids |-> IF \E i \in 1 .. n : ids[i] = r
                                   THEN how[at(r)] ELSE computed[r]]
    BY <1>1
  <2>2. \A i \in 1 .. n : at(ids[i]) = i
    BY <1>3
  <2>3. \A r \in Ids : (\E i \in 1 .. n : ids[i] = r) =>
              at(r) \in 1 .. n /\ how[at(r)] \in {"result", "error"}
    BY <1>3, <2>2
  <2>4. computed \in [Ids -> {"nothing", "result", "error"}]
    BY DEF IndInv, TypeOK
  <2> HIDE DEF at
  <2>5. QED
    BY <1>3, <2>1, <2>2, <2>3, <2>4
<1>5. Keeps
  BY <1>2, <1>3, <1>4 DEF Keeps, IndInv, Fresh
<1>6. \A j \in 1 .. n : s[j] \in Object /\ s[j] # NotObject /\ Honest(s[j])'
  <2> SUFFICES ASSUME NEW j \in 1 .. n
               PROVE  s[j] \in Object /\ s[j] # NotObject /\ Honest(s[j])'
    OBVIOUS
  <2> DEFINE r == ids[order[j]]
             x == ReplyOf(r, version, how[order[j]])
  <2>1. /\ order[j] \in 1 .. n /\ r \in Ids /\ how[order[j]] \in {"result", "error"}
        /\ computed'[r] = how[order[j]] /\ s[j] = x
    BY <1>3, <1>4
  <2>2. /\ x \in Object /\ x.id = r
        /\ x.result = Null => x.error \in Ids
        /\ x.result \in Ids => x.result = r /\ how[order[j]] = "result"
        /\ x.error \in Ids => x.error = r /\ how[order[j]] = "error"
    BY <2>1, ReplyOfTyped
  <2> HIDE DEF x, r, s
  <2>3. QED
    BY <2>1, <2>2, IdsAssumption DEF Honest
<1>7. GoodPacket(p)' /\ \A j \in DOMAIN p.replies : p.replies[j] # NotObject
  <2>0. s = [j \in 1 .. n |-> s[j]] /\ p.replies = s
    BY DEF NodePacket
  <2>1. s \in Seq(Object \cup {NotObject}) /\ DOMAIN s = 1 .. n /\ Len(s) = n
    <3> HIDE DEF s, n, ids
    <3>1. QED
      BY <1>3, <1>6, <2>0
  <2>2. c \notin Batches => n = 1
    BY MembersTyped
  <2>3. p \in Packet
    BY <2>0, <2>1 DEF Packet, NodePacket
  <2> HIDE DEF s, n, ids
  <2>4. p.shape = "object" => Len(s) = 1 /\ s[1] # NotObject
    BY <1>6, <2>2, <2>1 DEF NodePacket
  <2> HIDE DEF p
  <2>5. QED
    BY <1>6, <2>0, <2>1, <2>3, <2>4 DEF GoodPacket
<1> HIDE DEF p, s
<1>8. TypeOK'
  BY <1>2, <1>4, <1>7 DEF IndInv, TypeOK, GoodPacket
<1>9. p # NoPacket
  BY <1>7, CallsAssumption DEF GoodPacket
<1>10. Fresh'
  <2> SUFFICES ASSUME NEW d \in Calls, packet'[d] = NoPacket, NEW i \in DOMAIN IdsOf[d]
               PROVE  computed'[IdsOf[d][i]] = "nothing"
    BY DEF Fresh
  <2>1. d # c /\ packet[d] = NoPacket
    BY <1>2, <1>9 DEF IndInv, TypeOK
  <2>2. IdsOf[d][i] \in Ids /\ computed[IdsOf[d][i]] = "nothing"
    BY <2>1, MembersTyped DEF IndInv, Fresh
  <2>3. \A k \in 1 .. n : ids[k] # IdsOf[d][i]
    BY <1>3, <2>1, CallsAssumption
  <2>4. QED
    BY <1>4, <2>2, <2>3
<1>11. PacketsOK'
  <2>1. \A d \in Calls : packet'[d] = IF d = c THEN p ELSE packet[d]
    BY <1>2 DEF IndInv, TypeOK
  <2>2. QED
    BY <1>2, <1>5, <1>7, <2>1, StaysGood DEF IndInv, PacketsOK
<1>12. AnswersAreOwn' /\ EveryMemberIsKeyed'
  BY <1>2, <1>5, StaysGood DEF IndInv, EveryMemberIsKeyed
<1>13. QED
  BY <1>8, <1>10, <1>11, <1>12 DEF IndInv

(* A packet put on its way that says nothing the node did not.             *)
LEMMA CarryInv ==
    ASSUME IndInv, NEW c \in Calls, NEW q, GoodPacket(q),
           packet' = [packet EXCEPT ![c] = q],
           meddled' \in [Calls -> 0 .. MaxMeddles],
           UNCHANGED <<pc, computed, cache, outcome>>
    PROVE  IndInv'
<1>1. \A d \in Calls : packet'[d] = IF d = c THEN q ELSE packet[d]
  BY DEF IndInv, TypeOK
<1>2. q \in Packet /\ q # NoPacket
  BY CallsAssumption DEF GoodPacket
<1>3. TypeOK'
  BY <1>2 DEF IndInv, TypeOK
<1>4. Fresh'
  BY <1>1, <1>2 DEF IndInv, Fresh
<1>5. PacketsOK'
  <2>1. Keeps
    BY DEF Keeps
  <2>2. QED
    BY <1>1, <2>1, StaysGood DEF IndInv, PacketsOK
<1>6. AnswersAreOwn' /\ EveryMemberIsKeyed'
  BY DEF IndInv, AnswersAreOwn, EveryMemberIsKeyed
<1>7. QED
  BY <1>3, <1>4, <1>5, <1>6 DEF IndInv

LEMMA Inductive == IndInv /\ [Next]_vars => IndInv'
<1> SUFFICES ASSUME IndInv, [Next]_vars PROVE IndInv'
  OBVIOUS
<1>1. ASSUME NEW c \in Calls, Send(c) PROVE IndInv'
  <2>1. Keeps /\ UNCHANGED <<computed, packet, cache, meddled, outcome>>
    BY <1>1 DEF Send, Keeps
  <2>2. TypeOK'
    BY <1>1 DEF Send, IndInv, TypeOK
  <2>3. QED
    BY <2>1, <2>2, StaysGood DEF IndInv, Fresh, PacketsOK, EveryMemberIsKeyed
<1>2. ASSUME NEW c \in Calls, NodeRefuses(c) PROVE IndInv'
  <2> DEFINE q == [status |-> "error", shape |-> "garbled", replies |-> <<>>]
  <2>1. GoodPacket(q)
    BY DEF GoodPacket, Packet
  <2>2. packet' = [packet EXCEPT ![c] = q] /\ meddled' \in [Calls -> 0 .. MaxMeddles]
    BY <1>2 DEF NodeRefuses, IndInv, TypeOK
  <2>3. QED
    BY <1>2, <2>1, <2>2, CarryInv DEF NodeRefuses
<1>3. ASSUME NEW c \in Calls, Meddle(c) PROVE IndInv'
  <2>1. PICK q \in cache \cup Altered(packet[c]) : packet' = [packet EXCEPT ![c] = q]
    BY <1>3 DEF Meddle
  <2>2. GoodPacket(packet[c])
    BY <1>3 DEF Meddle, IndInv, PacketsOK
  <2>3. GoodPacket(q)
    BY <2>2, AlteredGood DEF IndInv, PacketsOK
  <2>4. meddled' \in [Calls -> 0 .. MaxMeddles]
    <3>1. meddled[c] \in 0 .. MaxMeddles /\ meddled[c] < MaxMeddles /\ MaxMeddles \in Nat
      BY <1>3, CallsAssumption DEF Meddle, IndInv, TypeOK
    <3>2. meddled[c] + 1 \in 0 .. MaxMeddles
      BY <3>1
    <3>3. QED
      BY <1>3, <3>2 DEF Meddle, IndInv, TypeOK
  <2>5. QED
    BY <1>3, <2>1, <2>3, <2>4, CarryInv DEF Meddle
<1>4. ASSUME NEW c \in Calls, Lose(c) PROVE IndInv'
  <2>1. Outcome("lost") \in OutcomeType /\ Outcome("lost").kind = "lost"
    BY NoOutcome
  <2>2. QED
    BY <1>4, <2>1, EndsInv DEF Lose
<1>5. CASE UNCHANGED vars
  <2>1. Keeps
    BY <1>5 DEF Keeps, vars
  <2>2. QED
    BY <1>5, <2>1, StaysGood
       DEF IndInv, vars, TypeOK, Fresh, PacketsOK, EveryMemberIsKeyed
<1>6. QED
  BY <1>1, <1>2, <1>3, <1>4, <1>5, NodeAnswersInv, ReceiveOneInv, ReceiveBatchInv
  DEF Next, Terminating

LEMMA Invariance == Spec => []IndInv
BY InitInv, Inductive, PTL DEF Spec

(* A caller is told of each member what the node computed for that very    *)
(* request, at its own position: whatever the number of members, the order *)
(* of the replies, the version they are in, and whatever number of replies *)
(* the medium has lost, repeated, mixed or spoiled.                        *)
THEOREM AnswersOwn == Spec => []AnswersAreOwn
<1>1. IndInv => AnswersAreOwn
  BY DEF IndInv
<1>2. QED
  BY <1>1, Invariance, PTL

(* No lookup of call_batch's by id misses, for a batch of any length.      *)
THEOREM MembersKeyed == Spec => []EveryMemberIsKeyed
<1>1. IndInv => EveryMemberIsKeyed
  BY DEF IndInv
<1>2. QED
  BY <1>1, Invariance, PTL

(* The client's state keeps its types.                                     *)
THEOREM ClientTyped == Spec => []TypeOK
<1>1. IndInv => TypeOK
  BY DEF IndInv
<1>2. QED
  BY <1>1, Invariance, PTL
-----------------------------------------------------------------------------
(* What may not be refused: the node's own reply to a call.                *)
FromNode(c, p) ==
    \E version \in {"1.1", "2.0"}, how \in [1 .. Len(IdsOf[c]) -> {"result", "error"}],
       order \in [1 .. Len(IdsOf[c]) -> 1 .. Len(IdsOf[c])] :
        /\ \A i, j \in 1 .. Len(IdsOf[c]) : order[i] = order[j] => i = j
        /\ p = NodePacket(c, version, how, order)

NothingComputed(c) == \A i \in DOMAIN IdsOf[c] : computed[IdsOf[c][i]] = "nothing"

(* A reply nothing altered is the node's, or the node computed nothing.    *)
Unaltered ==
    \A c \in Calls : pc[c] = "sent" /\ meddled[c] = 0 /\ packet[c] # NoPacket =>
        FromNode(c, packet[c]) \/ NothingComputed(c)

NotYetTold ==
    \A c \in Calls : /\ pc[c] # "done" => outcome[c] = Outcome("none")
                     /\ pc[c] = "idle" => packet[c] = NoPacket

RefusalInv ==
    IndInv /\ Unaltered /\ NotYetTold /\ NothingOwnIsRefused /\ StatusOutranks

(* Either version, of a result or an error, is read under its own status.  *)
LEMMA OwnReplyIsRead ==
    ASSUME NEW id \in Ids, NEW version \in {"1.1", "2.0"},
           NEW how \in {"result", "error"}, NEW status \in {"ok", "error"},
           status = "error" => version = "1.1" /\ how = "error"
    PROVE  Discriminate(id, status, ReplyOf(id, version, how)).kind \in {"result", "rpc"}
<1> DEFINE r == ReplyOf(id, version, how)
<1>1. CASE version = "2.0"
  <2>1. /\ r.marker = "2.0" /\ r.id = id /\ status = "ok"
        /\ \/ r.result = id /\ r.error = Absent
           \/ r.result = Absent /\ r.error = id
    BY <1>1 DEF ReplyOf
  <2> HIDE DEF r
  <2>2. Discriminate(id, status, r) \in {Value(id), RpcError(id)}
    BY <2>1, IdsAssumption DEF Discriminate, V2Result
  <2>3. QED
    BY <2>2 DEF Value, RpcError, r
<1>2. CASE version = "1.1"
  <2>1. /\ r.marker = "absent" /\ r.id = id
        /\ \/ r.result = id /\ r.error = Null /\ status = "ok"
           \/ r.result = Null /\ r.error = id
    BY <1>2 DEF ReplyOf
  <2> HIDE DEF r
  <2>2. Discriminate(id, status, r) \in {Value(id), RpcError(id)}
    BY <2>1, IdsAssumption DEF Discriminate, LegacyResult
  <2>3. QED
    BY <2>2 DEF Value, RpcError, r
<1>3. QED
  BY <1>1, <1>2

(* The replies of the node's packet, each to one member of the call.       *)
LEMMA NodePacketReplies ==
    ASSUME NEW c \in Calls, NEW version \in {"1.1", "2.0"},
           NEW how \in [1 .. Len(IdsOf[c]) -> {"result", "error"}],
           NEW order \in [1 .. Len(IdsOf[c]) -> 1 .. Len(IdsOf[c])]
    PROVE  LET s == NodePacket(c, version, how, order).replies IN
           /\ Len(s) = Len(IdsOf[c]) /\ DOMAIN s = 1 .. Len(IdsOf[c])
           /\ \A j \in DOMAIN s :
                 /\ s[j] = ReplyOf(IdsOf[c][order[j]], version, how[order[j]])
                 /\ s[j].id = IdsOf[c][order[j]] /\ s[j] # NotObject
<1> DEFINE n == Len(IdsOf[c])
           s == NodePacket(c, version, how, order).replies
<1>1. n \in Nat /\ \A i \in 1 .. n : IdsOf[c][i] \in Ids
  BY MembersTyped
<1>2. s = [j \in 1 .. n |-> ReplyOf(IdsOf[c][order[j]], version, how[order[j]])]
  BY DEF NodePacket
<1>3. ASSUME NEW j \in 1 .. n
      PROVE  /\ s[j] = ReplyOf(IdsOf[c][order[j]], version, how[order[j]])
             /\ s[j].id = IdsOf[c][order[j]] /\ s[j] # NotObject
  <2>1. order[j] \in 1 .. n /\ how[order[j]] \in {"result", "error"}
    OBVIOUS
  <2>2. IdsOf[c][order[j]] \in Ids
    BY <1>1, <2>1
  <2>3. s[j] = ReplyOf(IdsOf[c][order[j]], version, how[order[j]])
    BY <1>2
  <2>4. s[j] \in Object /\ s[j].id = IdsOf[c][order[j]]
    BY <2>1, <2>2, <2>3, ReplyOfTyped
  <2>5. QED
    BY <2>3, <2>4, IdsAssumption
<1> HIDE DEF s
<1>4. Len(s) = n /\ DOMAIN s = 1 .. n
  BY <1>1, <1>2
<1>5. QED
  BY <1>3, <1>4 DEF s

LEMMA NodeReplyIsRead ==
    ASSUME NEW c \in Calls, NEW p, FromNode(c, p), c \notin Batches
    PROVE  ReadReply(IdsOf[c][1], p).kind \in {"result", "rpc"}
<1>1. PICK version \in {"1.1", "2.0"}, how \in [1 .. Len(IdsOf[c]) -> {"result", "error"}],
           order \in [1 .. Len(IdsOf[c]) -> 1 .. Len(IdsOf[c])] :
            p = NodePacket(c, version, how, order)
  BY DEF FromNode
<1>2. Len(IdsOf[c]) = 1 /\ IdsOf[c][1] \in Ids /\ order[1] = 1
      /\ how[1] \in {"result", "error"}
  BY MembersTyped
<1>3. p.replies[1] = ReplyOf(IdsOf[c][1], version, how[1])
  BY <1>1, <1>2, NodePacketReplies
<1>4. /\ p.shape = "object" /\ p.status \in {"ok", "error"}
      /\ p.status = "error" => version = "1.1" /\ how[1] = "error"
  BY <1>1 DEF NodePacket
<1>5. QED
  BY <1>2, <1>3, <1>4, OwnReplyIsRead DEF ReadReply

LEMMA NodeBatchIsRead ==
    ASSUME NEW c \in Batches, NEW p, FromNode(c, p)
    PROVE  BatchOutcome(c, p).kind \notin {"http", "fetch"}
<1> DEFINE ids == IdsOf[c]
           n == Len(ids)
           vs == MemberVerdicts(ids, p.replies)
<1>0. c \in Calls
  BY CallsAssumption
<1>1. PICK version \in {"1.1", "2.0"}, how \in [1 .. n -> {"result", "error"}],
           order \in [1 .. n -> 1 .. n] :
        /\ \A i, j \in 1 .. n : order[i] = order[j] => i = j
        /\ p = NodePacket(c, version, how, order)
  BY DEF FromNode
<1>2. /\ n \in Nat /\ DOMAIN ids = 1 .. n
      /\ \A i \in 1 .. n : ids[i] \in Ids
      /\ \A i, j \in 1 .. n : ids[i] = ids[j] => i = j
  BY <1>0, MembersTyped
<1>3. p.status = "ok" /\ p.shape = "array"
  BY <1>1 DEF NodePacket
<1>4. /\ Len(p.replies) = n /\ DOMAIN p.replies = 1 .. n
      /\ \A j \in 1 .. n :
            /\ p.replies[j] = ReplyOf(ids[order[j]], version, how[order[j]])
            /\ p.replies[j].id = ids[order[j]] /\ p.replies[j] # NotObject
  <2> DEFINE s == NodePacket(c, version, how, order).replies
  <2>1. /\ Len(s) = Len(IdsOf[c]) /\ DOMAIN s = 1 .. Len(IdsOf[c])
        /\ \A j \in DOMAIN s :
              /\ s[j] = ReplyOf(IdsOf[c][order[j]], version, how[order[j]])
              /\ s[j].id = IdsOf[c][order[j]] /\ s[j] # NotObject
    BY <1>0, NodePacketReplies
  <2>2. p.replies = s
    BY <1>1
  <2> HIDE DEF s
  <2>3. QED
    BY <2>1, <2>2
<1>5. Correlates(ids, p.replies)
  <2>1. \A j \in 1 .. n : order[j] \in 1 .. n
    OBVIOUS
  <2>2. \A j \in 1 .. n : \E i \in DOMAIN ids : p.replies[j].id = ids[i]
    BY <1>2, <1>4, <2>1
  <2>3. ASSUME NEW j \in 1 .. n, NEW k \in 1 .. n, p.replies[j].id = p.replies[k].id
        PROVE  j = k
    <3>1. ids[order[j]] = ids[order[k]]
      BY <1>4, <2>3
    <3>2. order[j] = order[k]
      BY <1>2, <2>1, <3>1
    <3>3. QED
      BY <1>1, <3>2
  <2>4. QED
    BY <1>4, <2>2, <2>3 DEF Correlates
<1>6. ASSUME NEW i \in DOMAIN ids, Answered(ids[i], p.replies)
      PROVE  vs[i].kind \in {"result", "rpc"}
  <2>1. PICK j \in 1 .. n : ReplyTo(i, ids, p.replies) = p.replies[j]
                            /\ p.replies[j].id = ids[i]
    BY <1>4, <1>6 DEF Answered, ReplyTo
  <2>2. order[j] \in 1 .. n /\ how[order[j]] \in {"result", "error"}
    OBVIOUS
  <2>3. ids[order[j]] = ids[i] /\ ids[i] \in Ids
    BY <1>2, <1>4, <2>1
  <2>4. vs[i] = Discriminate(ids[i], "ok", ReplyOf(ids[i], version, how[order[j]]))
    BY <1>4, <2>1, <2>3 DEF MemberVerdicts
  <2> HIDE DEF vs, ids, n
  <2>5. QED
    BY <2>2, <2>3, <2>4, OwnReplyIsRead
<1>7. DOMAIN vs = DOMAIN ids
  BY DEF MemberVerdicts
<1>8. CASE \E i \in DOMAIN ids : ~Answered(ids[i], p.replies)
  BY <1>3, <1>5, <1>8 DEF BatchOutcome, Outcome
<1>9. CASE \A i \in DOMAIN ids : Answered(ids[i], p.replies)
  <2>1. ~\E i \in DOMAIN vs : vs[i].kind = "fetch"
    <3> HIDE DEF vs
    <3>1. QED
      BY <1>6, <1>7, <1>9
  <2>2. QED
    BY <1>3, <1>5, <1>9, <2>1 DEF BatchOutcome
<1>10. QED
  BY <1>8, <1>9

(* Under another status than 200, the body is never what is complained of. *)
LEMMA StatusIsTold ==
    ASSUME NEW c \in Calls, NEW p, GoodPacket(p), p.status = "error"
    PROVE  /\ c \notin Batches => ReadReply(IdsOf[c][1], p).kind # "fetch"
           /\ BatchOutcome(c, p).kind # "fetch"
<1>1. BatchOutcome(c, p) = Outcome("http")
  BY DEF BatchOutcome
<1>2. ASSUME p.shape = "object", NEW id \in Ids
      PROVE  Discriminate(id, "error", p.replies[1]).kind # "fetch"
  <2> DEFINE r == p.replies[1]
  <2>1. r \in Object
    BY <1>2 DEF GoodPacket, Honest, Packet
  <2> HIDE DEF r
  <2>2. r.marker \in {"absent", "2.0", "other"}
    BY <2>1 DEF Object
  <2>3. Discriminate(id, "error", r) = HttpError
        \/ Discriminate(id, "error", r) = RpcError(r.error)
    BY <2>2 DEF Discriminate, LegacyResult, V2Result
  <2>4. QED
    BY <2>3 DEF HttpError, RpcError, r
<1>3. c \notin Batches => IdsOf[c][1] \in Ids
  BY MembersTyped
<1>4. QED
  BY <1>1, <1>2, <1>3 DEF ReadReply, Outcome, HttpError

LEMMA RefusalInit == Init => RefusalInv
<1> SUFFICES ASSUME Init PROVE RefusalInv
  OBVIOUS
<1>1. Unaltered /\ NotYetTold /\ StatusOutranks
  BY DEF Init, Unaltered, NotYetTold, StatusOutranks
<1>2. NothingOwnIsRefused
  BY DEF Init, NothingOwnIsRefused, Outcome
<1>3. QED
  BY InitInv, <1>1, <1>2 DEF RefusalInv

(* A step that tells no one anything, computes nothing for the calls told, *)
(* and leaves the replies that are on their way, or marks them altered.    *)
LEMMA TellsNoOne ==
    ASSUME RefusalInv, outcome' = outcome,
           \A d \in Calls : pc'[d] = "done" <=> pc[d] = "done",
           \A d \in Calls : pc'[d] = "idle" => pc[d] = "idle" /\ packet'[d] = packet[d],
           \A d \in Calls : pc[d] = "done" => packet'[d] = packet[d] /\ meddled'[d] = meddled[d],
           \A d \in Calls : pc[d] = "done" /\ NothingComputed(d) => NothingComputed(d)'
    PROVE  NotYetTold' /\ NothingOwnIsRefused' /\ StatusOutranks'
<1>1. NotYetTold'
  BY DEF RefusalInv, NotYetTold
<1>2. \A d \in Calls : outcome[d].kind \in {"http", "fetch"} => pc[d] = "done"
  BY DEF RefusalInv, NotYetTold, Outcome
<1>3. NothingOwnIsRefused'
  <2> SUFFICES ASSUME NEW d \in Calls, outcome[d].kind \in {"http", "fetch"},
                      meddled'[d] = 0
               PROVE  NothingComputed(d)'
    BY DEF NothingOwnIsRefused, NothingComputed
  <2>1. pc[d] = "done" /\ meddled[d] = 0
    BY <1>2
  <2>2. NothingComputed(d)
    BY <2>1 DEF RefusalInv, NothingOwnIsRefused, NothingComputed
  <2>3. QED
    BY <2>1, <2>2
<1>4. StatusOutranks'
  BY DEF RefusalInv, StatusOutranks
<1>5. QED
  BY <1>1, <1>3, <1>4

(* A step that ends a call and tells it what may be told.                  *)
LEMMA TellsOne ==
    ASSUME RefusalInv, NEW c \in Calls, NEW o, pc[c] = "sent", Ends(c, o),
           o.kind \in {"http", "fetch"} /\ meddled[c] = 0 => NothingComputed(c),
           packet[c] # NoPacket /\ packet[c].status = "error" => o.kind # "fetch"
    PROVE  Unaltered' /\ NotYetTold' /\ NothingOwnIsRefused' /\ StatusOutranks'
<1>1. /\ UNCHANGED <<computed, packet, cache, meddled>>
      /\ \A d \in Calls : pc'[d] = IF d = c THEN "done" ELSE pc[d]
      /\ \A d \in Calls : outcome'[d] = IF d = c THEN o ELSE outcome[d]
  BY DEF Ends, RefusalInv, IndInv, TypeOK
<1>2. Unaltered'
  BY <1>1 DEF RefusalInv, Unaltered, NothingComputed
<1>3. NotYetTold'
  BY <1>1 DEF RefusalInv, NotYetTold
<1>4. NothingOwnIsRefused'
  BY <1>1 DEF RefusalInv, NothingOwnIsRefused, NothingComputed
<1>5. StatusOutranks'
  BY <1>1 DEF RefusalInv, StatusOutranks
<1>6. QED
  BY <1>2, <1>3, <1>4, <1>5

LEMMA RefusalStep ==
    ASSUME RefusalInv, [Next]_vars
    PROVE  Unaltered' /\ NotYetTold' /\ NothingOwnIsRefused' /\ StatusOutranks'
<1>0. TypeOK /\ IndInv
  BY DEF RefusalInv, IndInv
<1>1. ASSUME NEW c \in Calls, Send(c)
      PROVE  Unaltered' /\ NotYetTold' /\ NothingOwnIsRefused' /\ StatusOutranks'
  <2>1. /\ \A d \in Calls : pc'[d] = IF d = c THEN "sent" ELSE pc[d]
        /\ pc[c] = "idle" /\ UNCHANGED <<computed, packet, cache, meddled, outcome>>
    BY <1>0, <1>1 DEF Send, TypeOK
  <2>2. NotYetTold' /\ NothingOwnIsRefused' /\ StatusOutranks'
    BY <2>1, TellsNoOne DEF NothingComputed
  <2>3. QED
    BY <2>1, <2>2 DEF RefusalInv, NotYetTold, Unaltered, NothingComputed
<1>2. ASSUME NEW c \in Calls, NodeAnswers(c)
      PROVE  Unaltered' /\ NotYetTold' /\ NothingOwnIsRefused' /\ StatusOutranks'
  <2> DEFINE n == Len(IdsOf[c])
  <2>1. PICK version \in {"1.1", "2.0"}, how \in [1 .. n -> {"result", "error"}],
             order \in [1 .. n -> 1 .. n] :
            /\ \A i, j \in 1 .. n : order[i] = order[j] => i = j
            /\ computed' = [r \in Ids |->
                IF \E i \in 1 .. n : IdsOf[c][i] = r
                THEN how[CHOOSE i \in 1 .. n : IdsOf[c][i] = r] ELSE computed[r]]
            /\ packet' = [packet EXCEPT ![c] = NodePacket(c, version, how, order)]
    BY <1>2 DEF NodeAnswers
  <2>2. pc[c] = "sent" /\ UNCHANGED <<pc, meddled, outcome>>
    BY <1>2 DEF NodeAnswers
  <2>3. /\ FromNode(c, packet'[c])
        /\ \A d \in Calls : d # c => packet'[d] = packet[d]
    BY <1>0, <2>1 DEF FromNode, TypeOK
  <2>4. ASSUME NEW d \in Calls, d # c, NothingComputed(d) PROVE NothingComputed(d)'
    <3>1. ASSUME NEW i \in DOMAIN IdsOf[d]
          PROVE  computed'[IdsOf[d][i]] = computed[IdsOf[d][i]]
      <4>1. IdsOf[d][i] \in Ids
        BY MembersTyped
      <4>2. \A k \in 1 .. Len(IdsOf[c]) : IdsOf[c][k] # IdsOf[d][i]
        BY <2>4, MembersTyped, CallsAssumption
      <4>3. QED
        BY <2>1, <4>1, <4>2
    <3>2. QED
      BY <2>4, <3>1 DEF NothingComputed
  <2>5. NotYetTold' /\ NothingOwnIsRefused' /\ StatusOutranks'
    BY <2>2, <2>3, <2>4, TellsNoOne
  <2>6. Unaltered'
    <3> SUFFICES ASSUME NEW d \in Calls, pc'[d] = "sent", meddled'[d] = 0,
                        packet'[d] # NoPacket
                 PROVE  FromNode(d, packet'[d]) \/ NothingComputed(d)'
      BY DEF Unaltered, FromNode, NodePacket
    <3>1. CASE d = c
      BY <2>3, <3>1
    <3>2. CASE d # c
      BY <2>2, <2>3, <2>4, <3>2 DEF RefusalInv, Unaltered
    <3>3. QED
      BY <3>1, <3>2
  <2>7. QED
    BY <2>5, <2>6
<1>3. ASSUME NEW c \in Calls, NodeRefuses(c)
      PROVE  Unaltered' /\ NotYetTold' /\ NothingOwnIsRefused' /\ StatusOutranks'
  <2>1. /\ \A d \in Calls : d # c => packet'[d] = packet[d]
        /\ pc[c] = "sent" /\ packet[c] = NoPacket
        /\ UNCHANGED <<pc, computed, cache, meddled, outcome>>
    BY <1>0, <1>3 DEF NodeRefuses, TypeOK
  <2>2. NothingComputed(c)
    BY <1>0, <2>1 DEF IndInv, Fresh, NothingComputed
  <2>3. NotYetTold' /\ NothingOwnIsRefused' /\ StatusOutranks'
    BY <2>1, TellsNoOne DEF NothingComputed
  <2>4. \A d \in Calls : NothingComputed(d) => NothingComputed(d)'
    BY <2>1 DEF NothingComputed
  <2>5. Unaltered'
    BY <2>1, <2>2, <2>4 DEF RefusalInv, Unaltered
  <2>6. QED
    BY <2>3, <2>5
<1>4. ASSUME NEW c \in Calls, Meddle(c)
      PROVE  Unaltered' /\ NotYetTold' /\ NothingOwnIsRefused' /\ StatusOutranks'
  <2>1. /\ \A d \in Calls : d # c => packet'[d] = packet[d] /\ meddled'[d] = meddled[d]
        /\ pc[c] = "sent" /\ meddled'[c] = meddled[c] + 1
        /\ UNCHANGED <<pc, computed, cache, outcome>>
    BY <1>0, <1>4 DEF Meddle, TypeOK
  <2>2. meddled[c] \in Nat
    BY <1>0, CallsAssumption DEF TypeOK
  <2>3. meddled'[c] # 0
    BY <2>1, <2>2
  <2>4. NotYetTold' /\ NothingOwnIsRefused' /\ StatusOutranks'
    BY <2>1, TellsNoOne DEF NothingComputed
  <2>5. \A d \in Calls : NothingComputed(d) => NothingComputed(d)'
    BY <2>1 DEF NothingComputed
  <2>6. Unaltered'
    BY <2>1, <2>3, <2>5 DEF RefusalInv, Unaltered
  <2>7. QED
    BY <2>4, <2>6
<1>5. ASSUME NEW c \in Calls, Lose(c)
      PROVE  Unaltered' /\ NotYetTold' /\ NothingOwnIsRefused' /\ StatusOutranks'
  <2>1. Outcome("lost").kind = "lost"
    BY NoOutcome
  <2>2. QED
    BY <1>5, <2>1, TellsOne DEF Lose
<1>6. ASSUME NEW c \in Calls, ReceiveOne(c)
      PROVE  Unaltered' /\ NotYetTold' /\ NothingOwnIsRefused' /\ StatusOutranks'
  <2> DEFINE v == ReadReply(IdsOf[c][1], packet[c])
             o == IF v.kind \in {"http", "fetch"} THEN Outcome(v.kind)
                  ELSE [kind |-> "answers", list |-> <<v>>]
  <2>1. pc[c] = "sent" /\ c \notin Batches /\ packet[c] # NoPacket /\ Ends(c, o)
    BY <1>6 DEF ReceiveOne
  <2>2. GoodPacket(packet[c])
    BY <1>0, <2>1 DEF IndInv, PacketsOK
  <2>3. meddled[c] = 0 => v.kind \in {"result", "rpc"} \/ NothingComputed(c)
    BY <2>1, NodeReplyIsRead DEF RefusalInv, Unaltered
  <2>4. packet[c].status = "error" => v.kind # "fetch"
    BY <2>1, <2>2, StatusIsTold
  <2>5. o.kind = IF v.kind \in {"http", "fetch"} THEN v.kind ELSE "answers"
    BY DEF Outcome
  <2> HIDE DEF v, o
  <2>6. QED
    BY <2>1, <2>3, <2>4, <2>5, TellsOne
<1>7. ASSUME NEW c \in Calls, ReceiveBatch(c)
      PROVE  Unaltered' /\ NotYetTold' /\ NothingOwnIsRefused' /\ StatusOutranks'
  <2> DEFINE o == BatchOutcome(c, packet[c])
  <2>1. pc[c] = "sent" /\ c \in Batches /\ packet[c] # NoPacket /\ Ends(c, o)
    BY <1>7 DEF ReceiveBatch
  <2>2. GoodPacket(packet[c])
    BY <1>0, <2>1 DEF IndInv, PacketsOK
  <2>3. meddled[c] = 0 => o.kind \notin {"http", "fetch"} \/ NothingComputed(c)
    BY <2>1, NodeBatchIsRead DEF RefusalInv, Unaltered
  <2>4. packet[c].status = "error" => o.kind # "fetch"
    BY <2>2, StatusIsTold
  <2> HIDE DEF o
  <2>5. QED
    BY <2>1, <2>3, <2>4, TellsOne
<1>8. CASE UNCHANGED vars
  BY <1>8 DEF vars, RefusalInv, Unaltered, NothingComputed, NotYetTold,
     NothingOwnIsRefused, StatusOutranks
<1>9. QED
  BY <1>1, <1>2, <1>3, <1>4, <1>5, <1>6, <1>7, <1>8 DEF Next, Terminating

LEMMA RefusalInvariance == Spec => []RefusalInv
<1>1. RefusalInv /\ [Next]_vars => RefusalInv'
  BY Inductive, RefusalStep DEF RefusalInv
<1>2. QED
  BY RefusalInit, <1>1, PTL DEF Spec

(* The check that refuses foreign replies refuses none of the node's: in   *)
(* either version, a lone reply or a batch of any length in any order.     *)
THEOREM OwnIsNeverRefused == Spec => []NothingOwnIsRefused
<1>1. RefusalInv => NothingOwnIsRefused
  BY DEF RefusalInv
<1>2. QED
  BY <1>1, RefusalInvariance, PTL

(* A reply under another status than 200 is never told as a complaint      *)
(* about its body, whatever the body is.                                   *)
THEOREM StatusAlwaysOutranks == Spec => []StatusOutranks
<1>1. RefusalInv => StatusOutranks
  BY DEF RefusalInv
<1>2. QED
  BY <1>1, RefusalInvariance, PTL
=============================================================================
