----------------------------- MODULE RpcClient -----------------------------
(***************************************************************************)
(* `call` and `call_batch` of BitcoinCoreRpcClient against a node that may  *)
(* speak either version of the protocol, through a medium that may answer   *)
(* a call with another call's reply, and may lose, repeat, reorder, mix or  *)
(* spoil the members of one: "a caching proxy, or another call's own answer *)
(* arriving out of turn" (ARCHITECTURE.md).  It computes nothing: a value   *)
(* or an error object in a reply is one the node put there for that id.     *)
(*                                                                          *)
(* Each call is one HTTP exchange; SessionTransport and HttpRequest say     *)
(* what the exchange itself may come to.                                    *)
(***************************************************************************)
EXTENDS RpcReply

CONSTANTS
    Calls,    \* the calls made, each once
    Batches,  \* those of them that are a call_batch
    IdsOf,    \* the ids of each call's members, in order
    NoPacket,
    MaxMeddles \* how often the medium alters one reply

ASSUME CallsAssumption ==
    /\ MaxMeddles \in Nat
    /\ Batches \subseteq Calls
    /\ IdsOf \in [Calls -> Seq(Ids)]
    /\ \A c \in Calls : IdsOf[c] # <<>> /\ (c \notin Batches => Len(IdsOf[c]) = 1)
    /\ \A c, d \in Calls : \A i \in DOMAIN IdsOf[c], j \in DOMAIN IdsOf[d] :
        IdsOf[c][i] = IdsOf[d][j] => c = d /\ i = j
    /\ NoPacket \notin Packet

VARIABLES
    pc,        \* "idle", "sent" or "done"
    computed,  \* what the node made of each request
    packet,    \* the reply on its way to each call
    cache,     \* the replies the node has made, as the medium keeps them
    meddled,   \* how often the medium has altered the reply
    outcome    \* what the caller got

vars == <<pc, computed, packet, cache, meddled, outcome>>

OutcomeType ==
    [kind : {"none", "answers", "http", "fetch", "lost", "key_error"},
     list : Seq(Verdict)]
Outcome(k) == [kind |-> k, list |-> <<>>]

Init ==
    /\ pc = [c \in Calls |-> "idle"]
    /\ computed = [r \in Ids |-> "nothing"]
    /\ packet = [c \in Calls |-> NoPacket]
    /\ cache = {}
    /\ meddled = [c \in Calls |-> 0]
    /\ outcome = [c \in Calls |-> Outcome("none")]

(* The request is built and posted.                                        *)
Send(c) ==
    /\ pc[c] = "idle"
    /\ pc' = [pc EXCEPT ![c] = "sent"]
    /\ UNCHANGED <<computed, packet, cache, meddled, outcome>>

-----------------------------------------------------------------------------
(* The node.                                                               *)

(* The reply object for one request: 2.0 has one of the two members, 1.1   *)
(* has both, one of them null.                                             *)
ReplyOf(r, version, how) ==
    LET none == IF version = "2.0" THEN Absent ELSE Null IN
    [id |-> r,
     marker |-> IF version = "2.0" THEN "2.0" ELSE "absent",
     result |-> IF how = "result" THEN r ELSE none,
     error |-> IF how = "error" THEN r ELSE none]

(* A lone error of 1.1 is an HTTP 500.                                     *)
NodePacket(c, version, how, order) ==
    [status |-> IF c \notin Batches /\ version = "1.1" /\ how[1] = "error"
                THEN "error" ELSE "ok",
     shape |-> IF c \in Batches THEN "array" ELSE "object",
     replies |-> [j \in 1 .. Len(IdsOf[c]) |->
                    ReplyOf(IdsOf[c][order[j]], version, how[order[j]])]]

(* It executes every member and answers them in an order of its own.       *)
NodeAnswers(c) ==
    LET n == Len(IdsOf[c]) IN
    /\ pc[c] = "sent"
    /\ packet[c] = NoPacket
    /\ \E version \in {"1.1", "2.0"}, how \in [1 .. n -> {"result", "error"}],
          order \in [1 .. n -> 1 .. n] :
        /\ \A i, j \in 1 .. n : order[i] = order[j] => i = j
        /\ computed' = [r \in Ids |->
                IF \E i \in 1 .. n : IdsOf[c][i] = r
                THEN how[CHOOSE i \in 1 .. n : IdsOf[c][i] = r] ELSE computed[r]]
        /\ packet' = [packet EXCEPT ![c] = NodePacket(c, version, how, order)]
        /\ cache' = cache \cup {NodePacket(c, version, how, order)}
    /\ UNCHANGED <<pc, meddled, outcome>>

(* It refuses the exchange: a full work queue, bad credentials.            *)
NodeRefuses(c) ==
    /\ pc[c] = "sent"
    /\ packet[c] = NoPacket
    /\ packet' = [packet EXCEPT ![c] =
            [status |-> "error", shape |-> "garbled", replies |-> <<>>]]
    /\ UNCHANGED <<pc, computed, cache, meddled, outcome>>

-----------------------------------------------------------------------------
(* The medium.                                                             *)

(* A reply that is no answer any more.  Taking the error from a 1.1 reply  *)
(* would make a result of it, which is no longer the node's.               *)
Spoiled(r) ==
    {[r EXCEPT !.marker = m] : m \in {"absent", "2.0", "other"}}
    \cup {[r EXCEPT !.id = NoId], [r EXCEPT !.result = Absent],
          [r EXCEPT !.result = Absent, !.error = Junk]}
    \cup {[r EXCEPT !.error = e] : e \in IF r.result = Null THEN {} ELSE {Absent, Null}}

(* The replies the medium has seen.                                        *)
Seen == UNION {{q.replies[k] : k \in DOMAIN q.replies} : q \in cache}

(* A body under another status or of another shape.                        *)
OtherBodies(p) ==
    {[p EXCEPT !.status = "error"], [p EXCEPT !.shape = "garbled"],
     [p EXCEPT !.shape = "scalar"]}

(* A reply replaced by one the medium has seen, by itself spoiled, or by   *)
(* what is no reply.                                                       *)
Substitutes(p, j) ==
    Seen \cup (IF p.replies[j] = NotObject THEN {} ELSE Spoiled(p.replies[j]))
         \cup (IF p.shape = "array" THEN {NotObject} ELSE {})
Replaced(p) ==
    UNION {{[p EXCEPT !.replies[j] = r] : r \in Substitutes(p, j)} :
             j \in DOMAIN p.replies}

(* A reply too few, or one too many.                                       *)
Resized(p) ==
    IF p.shape # "array" THEN {}
    ELSE {[p EXCEPT !.replies = SubSeq(@, 1, Len(@) - 1)]}
         \cup {[p EXCEPT !.replies = Append(@, r)] : r \in Seen}

Altered(p) == OtherBodies(p) \cup Replaced(p) \cup Resized(p)

Meddle(c) ==
    /\ pc[c] = "sent"
    /\ packet[c] # NoPacket
    /\ meddled[c] < MaxMeddles
    /\ meddled' = [meddled EXCEPT ![c] = @ + 1]
    /\ \E p \in cache \cup Altered(packet[c]) : packet' = [packet EXCEPT ![c] = p]
    /\ UNCHANGED <<pc, computed, cache, outcome>>

-----------------------------------------------------------------------------
(* The client.                                                             *)

Ends(c, o) ==
    /\ pc' = [pc EXCEPT ![c] = "done"]
    /\ outcome' = [outcome EXCEPT ![c] = o]
    /\ UNCHANGED <<computed, packet, cache, meddled>>

(* http_request raises: no answer, a timeout, a reply over the limit.      *)
Lose(c) ==
    /\ pc[c] = "sent"
    /\ Ends(c, Outcome("lost"))

(* call reads its one reply.                                               *)
ReceiveOne(c) ==
    LET v == ReadReply(IdsOf[c][1], packet[c]) IN
    /\ pc[c] = "sent"
    /\ c \notin Batches
    /\ packet[c] # NoPacket
    /\ Ends(c, IF v.kind \in {"http", "fetch"} THEN Outcome(v.kind)
               ELSE [kind |-> "answers", list |-> <<v>>])

(* call_batch reads the status, the shape, the correlation, and then each  *)
(* member's own reply: an RpcError is a value of the list, and any other   *)
(* failure is raised for the whole batch.                                  *)
BatchOutcome(c, p) ==
    LET vs == MemberVerdicts(IdsOf[c], p.replies) IN
    CASE p.status # "ok" -> Outcome("http")
      [] p.status = "ok" /\ ~(p.shape = "array" /\ Correlates(IdsOf[c], p.replies))
           -> Outcome("fetch")
      [] OTHER ->
           IF \E i \in DOMAIN IdsOf[c] : ~Answered(IdsOf[c][i], p.replies)
           THEN Outcome("key_error")
           ELSE IF \E i \in DOMAIN vs : vs[i].kind = "fetch" THEN Outcome("fetch")
           ELSE [kind |-> "answers", list |-> vs]

ReceiveBatch(c) ==
    /\ pc[c] = "sent"
    /\ c \in Batches
    /\ packet[c] # NoPacket
    /\ Ends(c, BatchOutcome(c, packet[c]))

Terminating == (\A c \in Calls : pc[c] = "done") /\ UNCHANGED vars

Next ==
    \/ \E c \in Calls :
        \/ Send(c) \/ NodeAnswers(c) \/ NodeRefuses(c) \/ Meddle(c)
        \/ Lose(c) \/ ReceiveOne(c) \/ ReceiveBatch(c)
    \/ Terminating

Spec == Init /\ [][Next]_vars

-----------------------------------------------------------------------------
(* Properties.                                                             *)

(* Every variable has the values the code can give it.                     *)
TypeOK ==
    /\ pc \in [Calls -> {"idle", "sent", "done"}]
    /\ computed \in [Ids -> {"nothing", "result", "error"}]
    /\ packet \in [Calls -> Packet \cup {NoPacket}]
    /\ cache \in SUBSET Packet
    /\ meddled \in [Calls -> 0 .. MaxMeddles]
    /\ outcome \in [Calls -> OutcomeType]

(* What a caller is told of a member is what the node computed for that    *)
(* very member, at its position, whatever the order, the duplication or    *)
(* the origin of the replies.                                              *)
AnswersAreOwn ==
    \A c \in Calls : outcome[c].kind = "answers" =>
        /\ Len(outcome[c].list) = Len(IdsOf[c])
        /\ \A i \in DOMAIN IdsOf[c] :
            LET v == outcome[c].list[i]
                r == IdsOf[c][i] IN
            \/ v = Value(r) /\ computed[r] = "result"
            \/ v = RpcError(r) /\ computed[r] = "error"

(* "Every request's id is a key of by_id by construction"                  *)
(* (_correlated_batch_replies): call_batch never leaves by a KeyError.     *)
EveryMemberIsKeyed == \A c \in Calls : outcome[c].kind # "key_error"

(* A reply the node made is read, in either version and in any order: no   *)
(* check refuses what nothing altered.                                     *)
NothingOwnIsRefused ==
    \A c \in Calls :
        /\ outcome[c].kind \in {"http", "fetch"}
        /\ meddled[c] = 0
        => \A i \in DOMAIN IdsOf[c] : computed[IdsOf[c][i]] = "nothing"

(* "Losing that would cost the caller the policy HttpError.status is for": *)
(* a reply under another status than 200 is an HttpError, or an error the  *)
(* node computed for this call, and never a complaint about its body.      *)
StatusOutranks ==
    \A c \in Calls :
        /\ packet[c] # NoPacket
        /\ pc[c] = "done"
        /\ packet[c].status = "error"
        => outcome[c].kind # "fetch"

(* "Only a failure of the whole exchange raises ... a reply that is not an *)
(* array, a reply that cannot be attributed to any member, or a member     *)
(* with no reply" (call_batch): a batch whose every member has a reply of  *)
(* its own is answered.                                                    *)
MembersFailAlone ==
    \A c \in Batches :
        outcome[c].kind = "fetch" =>
            ~(packet[c].shape = "array" /\ Correlates(IdsOf[c], packet[c].replies))
=============================================================================
