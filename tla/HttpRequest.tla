---------------------------- MODULE HttpRequest ----------------------------
(***************************************************************************)
(* `http_request` of transport.py over each kind of transport it takes, and *)
(* the two loops that read a body under a limit: `_read_bounded`, and       *)
(* `_failure_body` of client.py over `_stream_reader`.                      *)
(*                                                                          *)
(*   urlopen  `urlopen_transport`: urllib raises every status but 2xx as an *)
(*            HTTPError, whose body http_request reads itself               *)
(*   session  `SessionTransport`: every status is a response it reads       *)
(*   caller   a callable of the caller's: it answers a body of any size, or *)
(*            raises an HTTPError                                           *)
(*   stream   `_post_stream`, whose body is read only under a failure       *)
(*                                                                          *)
(* A body is counted in octets; what they spell is not modelled.  Time is   *)
(* one flag, `expired`.                                                     *)
(***************************************************************************)
EXTENDS Integers

CONSTANTS
    Transports, \* which of the four a call may be made over
    MaxBody,    \* max_body_size
    ErrLimit,   \* MAX_ERROR_BODY_SIZE
    Chunk,      \* _READ_CHUNK
    Responses,  \* the responses a peer may give
    NoLength    \* a response that announces no length

Statuses == {"ok", "redirect", "error"}

(* `announced` is the Content-Length, which means nothing to the framing   *)
(* of a chunked body and may be anything beside one.                       *)
ResponseType ==
    [status : Statuses, framing : {"length", "chunked", "close"},
     size : Nat, announced : Nat \cup {NoLength}]

ASSUME LimitsAssumption ==
    /\ Transports \subseteq {"urlopen", "session", "caller", "stream"}
    /\ MaxBody \in Nat
    /\ ErrLimit \in Nat \ {0}
    /\ Chunk \in Nat \ {0}
    /\ NoLength \notin Int
ASSUME ResponsesAssumption ==
    /\ Responses \subseteq ResponseType
    /\ \A r \in Responses :
        /\ r.framing = "length" => r.announced = r.size
        /\ r.framing = "close" => r.announced = NoLength

VARIABLES
    transport,  \* the one this call is made over
    phase,      \* "opening", "reading" or "done"
    resp,       \* the response, from the status line on
    limit,      \* the limit the body is read under
    truncate,   \* the body is cut to it rather than refused
    remaining,  \* what the loop may still read
    buffer,     \* octets the loop holds
    arrived,    \* octets of the body that have come
    peer,       \* "open", "closed" or "reset"
    expired,    \* the deadline has passed
    outcome     \* what http_request came to

reader == <<limit, truncate, remaining, buffer>>
vars == <<transport, phase, resp, reader, arrived, peer, expired, outcome>>

OutcomeKinds == {"none", "fetch_error", "answer", "walk"}
Outcome == [kind : OutcomeKinds, body : Nat]
Nothing == [kind |-> "none", body |-> 0]
FetchError == [kind |-> "fetch_error", body |-> 0]
Answer(n) == [kind |-> "answer", body |-> n]

Init ==
    /\ transport \in Transports
    /\ phase = "opening"
    /\ resp \in Responses
    /\ limit = 0
    /\ truncate = FALSE
    /\ remaining = 0
    /\ buffer = 0
    /\ arrived = 0
    /\ peer = "open"
    /\ expired = FALSE
    /\ outcome = Nothing

Ends(o) ==
    /\ phase' = "done"
    /\ outcome' = o

-----------------------------------------------------------------------------
(* How the body of a response is to be read.                               *)

(* The status is an exception, or below the success boundary of the one    *)
(* that reads it: the body is a diagnosis, cut to ErrLimit.                *)
IsFailure(r) ==
    CASE transport = "session" -> r.status = "error"
      [] OTHER -> r.status # "ok"

(* _failure_body stops at its limit; _read_bounded reads one octet more,   *)
(* to tell a body at the limit from one over it.                           *)
FaultyAllowance(n) == n \* a fault: the extra octet is not asked for
Allowance(n) == IF transport = "stream" THEN n ELSE n + 1

(* The status line and the headers come.  An answer that announces more    *)
(* than the limit is refused before it is read.                            *)
Open ==
    /\ phase = "opening"
    /\ ~expired
    /\ transport # "caller" \/ resp.status # "ok"
    /\ \/ /\ transport = "stream" /\ resp.status = "ok"
          /\ Ends([kind |-> "walk", body |-> 0])
          /\ UNCHANGED reader
       \/ /\ transport # "stream" \/ resp.status # "ok"
          /\ limit' = IF IsFailure(resp) THEN ErrLimit ELSE MaxBody
          /\ truncate' = IsFailure(resp)
          /\ remaining' = Allowance(limit')
          /\ IF ~truncate' /\ resp.announced # NoLength /\ resp.announced > limit'
             THEN Ends(FetchError)
             ELSE phase' = "reading" /\ UNCHANGED outcome
          /\ UNCHANGED buffer
    /\ UNCHANGED <<transport, resp, arrived, peer, expired>>

(* A transport of the caller's answers a body it has read whole, under a   *)
(* status it does not raise: a failure's is cut, an answer's is refused    *)
(* over the limit.                                                         *)
FaultyHandsBack(n) == n \* a fault: a failure's body is not cut
HandsBack(n) ==
    IF resp.status = "error" THEN (IF n > ErrLimit THEN ErrLimit ELSE n) ELSE n
CallerAnswers ==
    /\ phase = "opening"
    /\ transport = "caller"
    /\ IF resp.status # "error" /\ resp.size > MaxBody
       THEN Ends(FetchError)
       ELSE Ends(Answer(HandsBack(resp.size)))
    /\ UNCHANGED <<transport, resp, reader, arrived, peer, expired>>

(* A refused connection, an unresolvable host, an expired timeout.         *)
OpenFails ==
    /\ phase = "opening"
    /\ Ends(FetchError)
    /\ UNCHANGED <<transport, resp, reader, arrived, peer, expired>>

-----------------------------------------------------------------------------
(* The loop.                                                               *)

(* One read that answers octets: as many as one recv brought, and no more  *)
(* than the loop or a chunk asks for.                                      *)
FaultyAsks == Chunk \* a fault: the last read asks for a whole chunk
Asks == IF remaining < Chunk THEN remaining ELSE Chunk
Read ==
    /\ phase = "reading"
    /\ ~expired
    /\ remaining > 0
    /\ \E n \in 1 .. Asks :
        /\ n <= arrived - buffer
        /\ buffer' = buffer + n
        /\ remaining' = remaining - n
    /\ UNCHANGED <<transport, phase, resp, limit, truncate, arrived, peer, expired, outcome>>

(* A read that answers nothing: the body is over, or the peer closed and   *)
(* http.client takes that for its end, which it does unless it is chunked. *)
(* The last chunk may come with the last octet, or be what ReadFails lacks. *)
BodyOver ==
    \/ resp.framing # "close" /\ buffer = resp.size
    \/ resp.framing # "chunked" /\ buffer = arrived /\ peer = "closed"

(* What the loop leaves with.  Over the limit, a diagnosis is cut and an   *)
(* answer refused.                                                         *)
FaultyResult == \* a fault: a body at the limit counts as over it
    IF buffer < limit THEN Answer(buffer)
    ELSE IF truncate THEN Answer(limit) ELSE FetchError
Result ==
    IF buffer <= limit THEN Answer(buffer)
    ELSE IF truncate THEN Answer(limit) ELSE FetchError
Finish ==
    /\ phase = "reading"
    /\ remaining = 0 \/ (~expired /\ BodyOver)
    /\ Ends(Result)
    /\ UNCHANGED <<transport, resp, reader, arrived, peer, expired>>

(* The read fails: a reset, a chunk the peer did not finish, the deadline.  *)
(* At the Content-Length no octet is asked of the socket any more.          *)
(* The body of an HTTPError, or of a streamed failure, is then empty and   *)
(* its status is kept; SessionTransport raises, whatever the status.       *)
AtLength == resp.framing = "length" /\ buffer = resp.size
FaultyFailure == FetchError \* a fault: the status goes with the body
Failure ==
    IF truncate /\ transport # "session" THEN Answer(0) ELSE FetchError
ReadFails ==
    /\ phase = "reading"
    /\ remaining > 0
    /\ \/ peer = "reset" /\ ~ AtLength
       \/ peer = "closed" /\ resp.framing = "chunked" /\ buffer = arrived
    /\ Ends(Failure)
    /\ UNCHANGED <<transport, resp, reader, arrived, peer, expired>>

FaultyReadTimesOut == \* a fault: no deadline on the body of a failure
    /\ phase = "reading"
    /\ ~truncate
    /\ remaining > 0
    /\ expired
    /\ Ends(Failure)
    /\ UNCHANGED <<transport, resp, reader, arrived, peer, expired>>
ReadTimesOut ==
    /\ phase = "reading"
    /\ remaining > 0
    /\ expired
    /\ Ends(Failure)
    /\ UNCHANGED <<transport, resp, reader, arrived, peer, expired>>

OpenTimesOut ==
    /\ phase = "opening"
    /\ expired
    /\ Ends(FetchError)
    /\ UNCHANGED <<transport, resp, reader, arrived, peer, expired>>

-----------------------------------------------------------------------------
(* The peer and the clock.                                                 *)
Drip ==
    /\ phase = "reading"
    /\ peer = "open"
    /\ arrived < resp.size
    /\ \E n \in 1 .. resp.size - arrived : arrived' = arrived + n
    /\ UNCHANGED <<transport, phase, resp, reader, peer, expired, outcome>>

PeerCloses ==
    /\ phase = "reading"
    /\ peer = "open"
    /\ peer' \in {"closed", "reset"}
    /\ UNCHANGED <<transport, phase, resp, reader, arrived, expired, outcome>>

Expire ==
    /\ phase # "done"
    /\ ~expired
    /\ expired' = TRUE
    /\ UNCHANGED <<transport, phase, resp, reader, arrived, peer, outcome>>

Terminating == phase = "done" /\ UNCHANGED vars

Next ==
    \/ Open \/ CallerAnswers \/ OpenFails \/ OpenTimesOut
    \/ Read \/ Finish \/ ReadFails \/ ReadTimesOut
    \/ Drip \/ PeerCloses \/ Expire
    \/ Terminating

Spec == Init /\ [][Next]_vars

(* The clock moves, and a call that its deadline or its limit ends is run. *)
(* Nothing is asked of the peer.                                           *)
Fairness ==
    WF_vars(Expire) /\ WF_vars(OpenTimesOut) /\ WF_vars(ReadTimesOut) /\ WF_vars(Finish)
FairSpec == Spec /\ Fairness

-----------------------------------------------------------------------------
(* Properties.                                                             *)

(* Every variable has the values the code can give it.                     *)
TypeOK ==
    /\ transport \in Transports
    /\ phase \in {"opening", "reading", "done"}
    /\ resp \in Responses
    /\ limit \in Nat /\ remaining \in Nat /\ buffer \in Nat /\ arrived \in Nat
    /\ truncate \in BOOLEAN /\ expired \in BOOLEAN
    /\ peer \in {"open", "closed", "reset"}
    /\ outcome \in Outcome

(* "Having never held more than the limit of it", bar the octet that tells *)
(* a body at the limit from one over it (_read_bounded), and not even that *)
(* for a streamed failure (_failure_body).                                 *)
HeldIsBounded ==
    buffer <= IF truncate /\ transport = "stream" THEN ErrLimit ELSE limit + 1

(* What http_request answers is within the limit of its status, whoever    *)
(* read it: max_body_size for an answer, MAX_ERROR_BODY_SIZE for a failure *)
(* and one of the two for a redirect nothing follows.                      *)
AnswerInLimit ==
    outcome.kind = "answer" =>
        CASE resp.status = "ok" -> outcome.body <= MaxBody
          [] resp.status = "error" -> outcome.body <= ErrLimit
          [] OTHER -> outcome.body <= MaxBody \/ outcome.body <= ErrLimit

(* An answer is the whole body, unless the peer closed under it; only a    *)
(* failure's body is cut, at its limit exactly, or dropped.                *)
WholeOrCut ==
    outcome.kind = "answer" =>
        \/ outcome.body = resp.size
        \/ peer # "open"
        \/ /\ resp.status # "ok"
           /\ \/ outcome.body = 0
              \/ outcome.body = ErrLimit /\ resp.size > ErrLimit

(* The loop refuses a body for its size only when it is over the limit: a  *)
(* body at the limit is an answer.                                         *)
RefusesOnlyOver ==
    [][phase = "reading" /\ ~expired /\ peer = "open"
         /\ outcome'.kind = "fetch_error" => resp.size > MaxBody]_vars

(* The status line of a failure has come, and the call ends without it.    *)
StatusLost ==
    phase = "reading" /\ resp.status = "error" /\ outcome'.kind = "fetch_error"

(* "The status is the part worth keeping" (http_request): over urlopen, a  *)
(* transport of the caller's and the streamed post, a failure is answered  *)
(* under its status, however the reading of its body ends.                 *)
StatusSurvives == [][StatusLost => transport = "session"]_vars

(* "A non-2xx status is not a failure here.  It comes back like any other" *)
(* (http_request), whichever transport reads it.                           *)
StatusIsKept == [][~StatusLost]_vars

(* The deadline ends the call, though the peer neither sends nor closes.   *)
EveryRequestEnds == <>(phase = "done")
=============================================================================
