------------------------------ MODULE RpcReply ------------------------------
(***************************************************************************)
(* What client.py makes of a reply: the shape of the body (`_reply_object`, *)
(* `_batch_reply_array`), the two versions of the protocol (`_discriminate`,*)
(* `_legacy_result`, `_v2_result`), and the correlation of a batch by id    *)
(* (`_correlated_batch_replies`).                                           *)
(*                                                                          *)
(* A value, and an error object, is named by the request it was computed    *)
(* for; how json spells it is not modelled.                                 *)
(***************************************************************************)
EXTENDS Naturals, Sequences

CONSTANTS
    Ids,       \* the id of every request made; _rpc_id never repeats one
    NoId,      \* an id nobody sent, or none at all
    Absent,    \* a member the reply does not have
    Null,      \* a member that is null
    Junk,      \* an `error` that is no error object
    NotObject  \* a member of the array that is no json object

(* `marker` is the `jsonrpc` member.                                       *)
Object ==
    [id : Ids \cup {NoId}, marker : {"absent", "2.0", "other"},
     result : Ids \cup {Absent, Null}, error : Ids \cup {Absent, Null, Junk}]

ASSUME IdsAssumption ==
    /\ NoId \notin Ids /\ Absent \notin Ids /\ Null \notin Ids /\ Junk \notin Ids
    /\ Absent # Null /\ Absent # Junk /\ Null # Junk
    /\ NotObject \notin Object

(* A body that parses to an object, to an array, to neither, or not at all *)
(* ("garbled"), under a status that is 200 ("ok") or is not ("error").     *)
Packet ==
    [status : {"ok", "error"}, shape : {"object", "array", "scalar", "garbled"},
     replies : Seq(Object \cup {NotObject})]

(* What reading one reply comes to.                                        *)
Verdict == [kind : {"result", "rpc", "http", "fetch"}, of : Ids \cup {NoId, Null}]
Value(v) == [kind |-> "result", of |-> v]
RpcError(v) == [kind |-> "rpc", of |-> v]
HttpError == [kind |-> "http", of |-> NoId]
FetchError == [kind |-> "fetch", of |-> NoId]

(* No marker: the error is read before the status, and the id before       *)
(* either.  Only a readable error object outranks the status.              *)
LegacyResult(id, status, r) ==
    CASE r.id = id /\ r.error \in Ids -> RpcError(r.error)
      [] ~(r.id = id /\ r.error \in Ids) /\ status # "ok" -> HttpError
      [] OTHER -> IF r.id = id /\ r.error \in {Absent, Null} /\ r.result # Absent
                  THEN Value(r.result) ELSE FetchError

(* 2.0: the status is read first, then the id, then which of `result` and  *)
(* `error` is present, null or not.                                        *)
FaultyV2Result(id, status, r) == \* a fault: whatever `error` holds is an error
    CASE status # "ok" -> HttpError
      [] status = "ok" /\ r.id = id /\ r.error # Absent -> RpcError(r.error)
      [] status = "ok" /\ r.id = id /\ r.result # Absent /\ r.error = Absent
           -> Value(r.result)
      [] OTHER -> FetchError
FaultyV2ResultOfAny(id, status, r) == \* a fault: whoever's reply it is
    CASE status # "ok" -> HttpError
      [] status = "ok" /\ r.result # Absent /\ r.error = Absent -> Value(r.result)
      [] OTHER -> FetchError
V2Result(id, status, r) ==
    CASE status # "ok" -> HttpError
      [] status = "ok" /\ r.id = id /\ r.result # Absent /\ r.error = Absent
           -> Value(r.result)
      [] status = "ok" /\ r.id = id /\ r.result = Absent /\ r.error \in Ids
           -> RpcError(r.error)
      [] OTHER -> FetchError

(* The version is the presence of the marker; one that is not "2.0" is no  *)
(* answer, and leaves the status to report.                                *)
FaultyDiscriminate(id, status, r) == \* a fault: an unknown marker is no status
    CASE r.marker = "absent" -> LegacyResult(id, status, r)
      [] r.marker = "2.0" -> V2Result(id, status, r)
      [] OTHER -> FetchError
Discriminate(id, status, r) ==
    CASE r.marker = "absent" -> LegacyResult(id, status, r)
      [] r.marker = "2.0" -> V2Result(id, status, r)
      [] OTHER -> IF status # "ok" THEN HttpError ELSE FetchError

(* The reply to a lone call: nothing but one object is an answer, and what *)
(* is not one leaves the status to report.                                 *)
ReadReply(id, p) ==
    IF p.shape = "object" THEN Discriminate(id, p.status, p.replies[1])
    ELSE IF p.status # "ok" THEN HttpError ELSE FetchError

(* Every reply of the array is attributed to a member, and no two of them  *)
(* to one.                                                                 *)
FaultyCorrelates(ids, replies) == \* a fault: the replies are not counted
    /\ \A j \in DOMAIN replies :
        /\ replies[j] # NotObject
        /\ \E i \in DOMAIN ids : replies[j].id = ids[i]
    /\ \A j, k \in DOMAIN replies : replies[j].id = replies[k].id => j = k
Correlates(ids, replies) ==
    /\ Len(replies) = Len(ids)
    /\ \A j \in DOMAIN replies :
        /\ replies[j] # NotObject
        /\ \E i \in DOMAIN ids : replies[j].id = ids[i]
    /\ \A j, k \in DOMAIN replies : replies[j].id = replies[k].id => j = k

(* by_id[request_id], which is a KeyError where the member has no reply.   *)
Answered(id, replies) == \E j \in DOMAIN replies : replies[j].id = id
FaultyReplyTo(i, ids, replies) == replies[i] \* a fault: aligned by position
ReplyTo(i, ids, replies) ==
    replies[CHOOSE j \in DOMAIN replies : replies[j].id = ids[i]]

(* What each member of the batch came to, in the order of the batch.       *)
MemberVerdicts(ids, replies) ==
    [i \in DOMAIN ids |-> Discriminate(ids[i], "ok", ReplyTo(i, ids, replies))]
=============================================================================
