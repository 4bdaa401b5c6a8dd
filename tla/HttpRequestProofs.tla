------------------------- MODULE HttpRequestProofs -------------------------
(***************************************************************************)
(* What http_request holds and answers, for every limit, every chunk size   *)
(* and every response.                                                      *)
(***************************************************************************)
EXTENDS HttpRequest, TLAPS

(* The loop may still read what its allowance leaves over what it holds.   *)
LoopOK ==
    /\ phase = "opening" => buffer = 0 /\ outcome = Nothing
    /\ phase = "reading" =>
          /\ limit = IF truncate THEN ErrLimit ELSE MaxBody
          /\ truncate <=> IsFailure(resp)
          /\ buffer + remaining = Allowance(limit)
          /\ outcome = Nothing

IndInv == TypeOK /\ LoopOK /\ HeldIsBounded /\ AnswerInLimit

(* An answer within the limit of the way it is read keeps AnswerInLimit.   *)
LEMMA InLimit ==
    ASSUME IndInv, phase = "reading", NEW n \in Nat,
           n <= limit, outcome' = Answer(n), resp' = resp
    PROVE  AnswerInLimit'
<1>1. resp.status \in {"ok", "redirect", "error"} /\ resp.status \in Statuses
  BY ResponsesAssumption DEF IndInv, TypeOK, ResponseType, Statuses
<1>2. resp.status = "ok" => ~IsFailure(resp)
  BY DEF IsFailure
<1>3. resp.status = "error" => IsFailure(resp)
  BY DEF IsFailure
<1>4. QED
  BY <1>1, <1>2, <1>3, LimitsAssumption DEF IndInv, LoopOK, AnswerInLimit, Answer

LEMMA NothingIsBounded == \A n \in Nat : 0 <= n /\ 0 <= n + 1
OBVIOUS

LEMMA InitInv == Init => IndInv
<1> SUFFICES ASSUME Init PROVE IndInv
  OBVIOUS
<1>1. Nothing \in Outcome /\ Nothing.kind = "none"
  BY DEF Nothing, Outcome, OutcomeKinds
<1>2. TypeOK
  BY <1>1 DEF Init, TypeOK
<1>3. LoopOK /\ AnswerInLimit
  BY <1>1 DEF Init, LoopOK, AnswerInLimit
<1>4. HeldIsBounded
  BY DEF Init, HeldIsBounded
<1>5. QED
  BY <1>2, <1>3, <1>4 DEF IndInv

LEMMA Inductive == ASSUME IndInv, [Next]_vars PROVE IndInv'
<1> USE LimitsAssumption DEF IndInv
<1>0. resp \in ResponseType /\ resp.size \in Nat
  BY ResponsesAssumption DEF TypeOK, ResponseType
<1>1. CASE Open
  <2>1. CASE Ends([kind |-> "walk", body |-> 0]) /\ UNCHANGED reader
    BY <1>1, <2>1 DEF Open, Ends, reader, TypeOK, LoopOK, HeldIsBounded,
       AnswerInLimit, Outcome, OutcomeKinds
  <2>2. CASE ~(Ends([kind |-> "walk", body |-> 0]) /\ UNCHANGED reader)
    <3>1. /\ limit' = IF IsFailure(resp) THEN ErrLimit ELSE MaxBody
          /\ truncate' = IsFailure(resp)
          /\ remaining' = Allowance(limit')
          /\ UNCHANGED <<transport, resp, buffer, arrived, peer, expired>>
          /\ \/ phase' = "done" /\ outcome' = FetchError
             \/ phase' = "reading" /\ outcome' = outcome
          /\ phase = "opening"
      BY <1>1, <2>2 DEF Open, Ends
    <3>2. IsFailure(resp) \in BOOLEAN
      BY DEF IsFailure
    <3>3. limit' \in Nat /\ remaining' \in Nat /\ buffer' = 0
      BY <3>1 DEF Allowance, LoopOK
    <3>4. TypeOK'
      BY <3>1, <3>2, <3>3 DEF TypeOK, Outcome, OutcomeKinds, FetchError
    <3>5. LoopOK'
      BY <3>1, <3>2, <3>3 DEF LoopOK, Allowance, IsFailure
    <3>6. HeldIsBounded'
      <4>1. ErrLimit \in Nat
        BY LimitsAssumption
      <4>2. CASE (truncate /\ transport = "stream")'
        BY <3>3, <4>1, <4>2 DEF HeldIsBounded
      <4>3. CASE ~(truncate /\ transport = "stream")'
        BY <3>3, <4>3, NothingIsBounded DEF HeldIsBounded
      <4>4. QED
        BY <4>2, <4>3
    <3>7. AnswerInLimit'
      BY <3>1 DEF LoopOK, AnswerInLimit, FetchError, Nothing
    <3>8. QED
      BY <3>4, <3>5, <3>6, <3>7
  <2>3. QED
    BY <2>1, <2>2
<1>2. CASE CallerAnswers
  <2>1. HandsBack(resp.size) \in Nat
    BY <1>0 DEF HandsBack
  <2>2. outcome' = FetchError \/ outcome' = Answer(HandsBack(resp.size))
    BY <1>2 DEF CallerAnswers, Ends
  <2>3. outcome' \in Outcome
    BY <2>1, <2>2 DEF Outcome, OutcomeKinds, FetchError, Answer
  <2>4. AnswerInLimit'
    BY <1>0, <1>2 DEF CallerAnswers, Ends, HandsBack, AnswerInLimit, FetchError,
       Answer, ResponseType, Statuses
  <2>5. QED
    BY <1>2, <2>3, <2>4 DEF CallerAnswers, Ends, reader, TypeOK, LoopOK, HeldIsBounded
<1>3. CASE OpenFails \/ OpenTimesOut
  BY <1>3 DEF OpenFails, OpenTimesOut, Ends, reader, TypeOK, LoopOK, HeldIsBounded,
     AnswerInLimit, Outcome, OutcomeKinds, FetchError
<1>4. CASE Read
  <2> USE <1>4 DEF Read
  <2>1. PICK n \in 1 .. Asks : /\ n <= arrived - buffer
                               /\ buffer' = buffer + n
                               /\ remaining' = remaining - n
    OBVIOUS
  <2>2. n \in Nat /\ n <= remaining
    BY <2>1 DEF Asks, TypeOK
  <2>3. buffer' \in Nat /\ remaining' \in Nat /\ buffer' + remaining' = Allowance(limit)
    BY <2>1, <2>2 DEF TypeOK, LoopOK
  <2>4. TypeOK' /\ LoopOK'
    BY <2>3 DEF TypeOK, LoopOK, Allowance, IsFailure
  <2>5. HeldIsBounded'
    BY <2>3 DEF HeldIsBounded, TypeOK, LoopOK, Allowance
  <2>6. AnswerInLimit'
    BY DEF AnswerInLimit
  <2>7. QED
    BY <2>4, <2>5, <2>6
<1>5. CASE Finish
  <2> USE <1>5 DEF Finish, Ends
  <2>1. Result \in Outcome
    BY DEF Result, Answer, FetchError, Outcome, OutcomeKinds, TypeOK
  <2>2. AnswerInLimit'
    <3>1. CASE Result = FetchError
      BY <3>1 DEF AnswerInLimit, FetchError
    <3>2. CASE buffer <= limit /\ Result = Answer(buffer)
      BY <3>2, InLimit DEF TypeOK
    <3>3. CASE Result = Answer(limit)
      BY <3>3, InLimit DEF TypeOK
    <3>4. QED
      BY <3>1, <3>2, <3>3 DEF Result
  <2>3. QED
    BY <2>1, <2>2 DEF reader, TypeOK, LoopOK, HeldIsBounded
<1>6. CASE ReadFails \/ ReadTimesOut
  <2>1. /\ Ends(Failure) /\ phase = "reading"
        /\ UNCHANGED <<transport, resp, reader, arrived, peer, expired>>
    BY <1>6 DEF ReadFails, ReadTimesOut
  <2>2. Failure \in Outcome
    BY DEF Failure, Answer, FetchError, Outcome, OutcomeKinds
  <2>3. AnswerInLimit'
    <3>1. CASE Failure = FetchError
      BY <2>1, <3>1 DEF Ends, AnswerInLimit, FetchError
    <3>2. CASE Failure = Answer(0)
      BY <2>1, <3>2, InLimit DEF Ends, TypeOK
    <3>3. QED
      BY <3>1, <3>2 DEF Failure
  <2>4. QED
    BY <2>1, <2>2, <2>3 DEF Ends, reader, TypeOK, LoopOK, HeldIsBounded
<1>7. CASE Drip
  <2>1. PICK n \in 1 .. resp.size - arrived : arrived' = arrived + n
    BY <1>7 DEF Drip
  <2>2. arrived' \in Nat
    BY <1>0, <2>1 DEF TypeOK
  <2>3. QED
    BY <1>7, <2>2 DEF Drip, reader, TypeOK, LoopOK, HeldIsBounded, AnswerInLimit,
       Allowance, IsFailure
<1>8. CASE PeerCloses \/ Expire \/ UNCHANGED vars
  <2>1. UNCHANGED <<transport, phase, resp, reader, arrived, outcome>>
    BY <1>8 DEF PeerCloses, Expire, vars
  <2>2. peer' \in {"open", "closed", "reset"} /\ expired' \in BOOLEAN
    BY <1>8 DEF PeerCloses, Expire, vars, TypeOK
  <2>3. TypeOK' /\ HeldIsBounded' /\ AnswerInLimit'
    BY <2>1, <2>2 DEF reader, TypeOK, HeldIsBounded, AnswerInLimit
  <2>4. LoopOK'
    BY <2>1 DEF reader, LoopOK, Allowance, IsFailure
  <2>5. QED
    BY <2>3, <2>4
<1>9. QED
  BY <1>1, <1>2, <1>3, <1>4, <1>5, <1>6, <1>7, <1>8 DEF Next, Terminating

THEOREM Invariance == Spec => []IndInv
<1>1. IndInv /\ [Next]_vars => IndInv'
  BY Inductive
<1>2. QED
  BY InitInv, <1>1, PTL DEF Spec

(* _read_bounded holds at most one octet over its limit, and _failure_body *)
(* none, for every limit, chunk size and sequence of packets.              *)
THEOREM ReaderIsBounded == Spec => []HeldIsBounded
<1>1. IndInv => HeldIsBounded
  BY DEF IndInv
<1>2. QED
  BY <1>1, Invariance, PTL

(* What http_request answers never exceeds the limit of its status, over   *)
(* each of the transports, one of the caller's included.                   *)
THEOREM AnswerIsBounded == Spec => []AnswerInLimit
<1>1. IndInv => AnswerInLimit
  BY DEF IndInv
<1>2. QED
  BY <1>1, Invariance, PTL

(* The request's state keeps its types.                                    *)
THEOREM RequestTyped == Spec => []TypeOK
<1>1. IndInv => TypeOK
  BY DEF IndInv
<1>2. QED
  BY <1>1, Invariance, PTL
-----------------------------------------------------------------------------
(* What the loop holds has come, and what has come is of this body.  Only  *)
(* a diagnosis is read of a streamed call, and only a failure is cut.      *)
ReadsThisBody ==
    /\ phase = "opening" => arrived = 0
    /\ phase = "reading" =>
          /\ buffer <= arrived
          /\ arrived <= resp.size
          /\ transport = "stream" => truncate

WholeInv == IndInv /\ ReadsThisBody /\ WholeOrCut

LEMMA SizeIsNat == ASSUME TypeOK PROVE resp.size \in Nat /\ resp.status \in Statuses
BY ResponsesAssumption DEF TypeOK, ResponseType

(* What is cut is a failure, and an error is one over every transport.     *)
LEMMA OnlyFailuresAreCut ==
    ASSUME IndInv, phase = "reading"
    PROVE  /\ truncate => resp.status # "ok" /\ limit = ErrLimit
           /\ ~truncate => resp.status # "error" /\ limit = MaxBody
BY DEF IndInv, LoopOK, IsFailure

LEMMA WholeInit == Init => ReadsThisBody /\ WholeOrCut
BY DEF Init, ReadsThisBody, WholeOrCut, Nothing

LEMMA WholeStep == ASSUME WholeInv, [Next]_vars PROVE ReadsThisBody' /\ WholeOrCut'
<1> USE LimitsAssumption DEF WholeInv
<1>0. TypeOK /\ LoopOK /\ resp.size \in Nat /\ resp.status \in Statuses
  BY SizeIsNat DEF IndInv
<1>1. CASE Open
  <2>1. /\ phase = "opening" /\ outcome = Nothing /\ buffer = 0 /\ arrived = 0
        /\ UNCHANGED <<resp, transport, buffer, arrived>>
        /\ outcome' \in {Nothing, FetchError, [kind |-> "walk", body |-> 0]}
        /\ phase' \in {"reading", "done"}
    BY <1>0, <1>1 DEF Open, Ends, reader, LoopOK, ReadsThisBody
  <2>2. outcome'.kind # "answer"
    BY <2>1 DEF Nothing, FetchError
  <2>3. (transport = "stream" => truncate)' \/ phase' = "done"
    BY <1>1 DEF Open, Ends, IsFailure
  <2>4. QED
    BY <1>0, <2>1, <2>2, <2>3 DEF ReadsThisBody, WholeOrCut
<1>2. CASE CallerAnswers
  <2>1. phase' = "done" /\ UNCHANGED resp
    BY <1>2 DEF CallerAnswers, Ends
  <2>2. outcome' = FetchError \/ outcome' = Answer(HandsBack(resp.size))
    BY <1>2 DEF CallerAnswers, Ends
  <2>3. \/ HandsBack(resp.size) = resp.size
        \/ /\ resp.status # "ok"
           /\ HandsBack(resp.size) = ErrLimit /\ resp.size > ErrLimit
    BY DEF HandsBack
  <2>4. QED
    BY <2>1, <2>2, <2>3 DEF ReadsThisBody, WholeOrCut, FetchError, Answer
<1>3. CASE OpenFails \/ OpenTimesOut
  BY <1>3 DEF OpenFails, OpenTimesOut, Ends, ReadsThisBody, WholeOrCut, FetchError
<1>4. CASE Read
  <2>1. PICK n \in 1 .. Asks : n <= arrived - buffer /\ buffer' = buffer + n
    BY <1>4 DEF Read
  <2>2. n \in Int /\ buffer \in Nat /\ arrived \in Nat
    BY <1>0, <2>1 DEF TypeOK
  <2>3. buffer' <= arrived
    BY <2>1, <2>2
  <2>4. QED
    BY <1>4, <2>3 DEF Read, ReadsThisBody, WholeOrCut
<1>5. CASE Finish
  <2>1. /\ phase = "reading" /\ phase' = "done" /\ outcome' = Result
        /\ UNCHANGED <<resp, peer>>
        /\ buffer <= arrived /\ arrived <= resp.size
        /\ buffer \in Nat /\ arrived \in Nat /\ remaining \in Nat
        /\ buffer + remaining = Allowance(limit)
    BY <1>0, <1>5 DEF Finish, Ends, ReadsThisBody, LoopOK, TypeOK
  <2>2. CASE Result = FetchError
    BY <2>1, <2>2 DEF FetchError, ReadsThisBody, WholeOrCut
  <2>3. CASE buffer <= limit /\ Result = Answer(buffer)
    <3>1. outcome'.kind = "answer" /\ outcome'.body = buffer
      BY <2>1, <2>3 DEF Answer
    <3>2. CASE remaining = 0
      <4>1. transport = "stream" /\ buffer = limit
        BY <1>0, <2>1, <2>3, <3>2 DEF Allowance, TypeOK
      <4>2. resp.status # "ok" /\ buffer = ErrLimit
        BY <2>1, <4>1, OnlyFailuresAreCut DEF ReadsThisBody
      <4>3. buffer = resp.size \/ resp.size > ErrLimit
        BY <1>0, <2>1, <4>2
      <4>4. QED
        BY <2>1, <3>1, <4>2, <4>3 DEF ReadsThisBody, WholeOrCut
    <3>3. CASE BodyOver
      BY <2>1, <3>1, <3>3 DEF BodyOver, ReadsThisBody, WholeOrCut
    <3>4. QED
      BY <1>5, <3>2, <3>3 DEF Finish
  <2>4. CASE ~(buffer <= limit) /\ truncate /\ Result = Answer(limit)
    <3>1. limit = ErrLimit /\ resp.status # "ok"
      BY <2>1, <2>4, OnlyFailuresAreCut
    <3>2. resp.size > ErrLimit
      BY <1>0, <2>1, <2>4, <3>1
    <3>3. outcome'.kind = "answer" /\ outcome'.body = ErrLimit
      BY <2>1, <2>4, <3>1 DEF Answer
    <3>4. QED
      BY <2>1, <3>1, <3>2, <3>3 DEF ReadsThisBody, WholeOrCut
  <2>5. QED
    BY <2>2, <2>3, <2>4 DEF Result
<1>6. CASE ReadFails \/ ReadTimesOut
  <2>1. /\ phase = "reading" /\ phase' = "done" /\ outcome' = Failure
        /\ UNCHANGED resp
    BY <1>6 DEF ReadFails, ReadTimesOut, Ends
  <2>2. \/ outcome' = FetchError
        \/ outcome' = Answer(0) /\ truncate
    BY <2>1 DEF Failure
  <2>3. truncate => resp.status # "ok"
    BY <2>1, OnlyFailuresAreCut
  <2>4. QED
    BY <2>1, <2>2, <2>3 DEF FetchError, Answer, ReadsThisBody, WholeOrCut
<1>7. CASE Drip
  <2>1. PICK n \in 1 .. resp.size - arrived : arrived' = arrived + n
    BY <1>7 DEF Drip
  <2>2. n \in Nat /\ buffer \in Nat /\ arrived \in Nat
    BY <1>0, <2>1 DEF TypeOK
  <2>3. phase = "reading" /\ buffer <= arrived /\ n <= resp.size - arrived
    BY <1>7, <2>1 DEF Drip, ReadsThisBody
  <2>4. buffer <= arrived' /\ arrived' <= resp.size
    BY <1>0, <2>1, <2>2, <2>3
  <2>5. QED
    BY <1>7, <2>3, <2>4 DEF Drip, reader, ReadsThisBody, WholeOrCut
<1>8. CASE PeerCloses
  BY <1>0, <1>8 DEF PeerCloses, reader, LoopOK, ReadsThisBody, WholeOrCut, Nothing
<1>9. CASE Expire \/ UNCHANGED vars
  BY <1>9 DEF Expire, vars, reader, ReadsThisBody, WholeOrCut
<1>10. QED
  BY <1>1, <1>2, <1>3, <1>4, <1>5, <1>6, <1>7, <1>8, <1>9 DEF Next, Terminating

THEOREM ReadsOnlyThisBody == Spec => []WholeInv
<1>1. Init => WholeInv
  BY InitInv, WholeInit DEF WholeInv
<1>2. WholeInv /\ [Next]_vars => WholeInv'
  BY Inductive, WholeStep DEF WholeInv
<1>3. QED
  BY <1>1, <1>2, PTL DEF Spec

(* While the peer keeps the connection, http_request answers every octet   *)
(* of a body, or a failure's cut at its limit or dropped: never an answer  *)
(* short of its end.                                                       *)
THEOREM AnswersWholeOrCut == Spec => []WholeOrCut
<1>1. WholeInv => WholeOrCut
  BY DEF WholeInv
<1>2. QED
  BY <1>1, ReadsOnlyThisBody, PTL

(* The ways out of the loop that say fetch_error.                          *)
LEMMA WaysToRefuse ==
    ASSUME WholeInv, [Next]_vars, phase = "reading", outcome'.kind = "fetch_error"
    PROVE  \/ ~truncate /\ limit = MaxBody /\ buffer > limit /\ buffer <= resp.size
           \/ Failure = FetchError /\ (peer # "open" \/ expired)
<1> USE DEF WholeInv
<1>1. outcome = Nothing /\ outcome.kind # "fetch_error" /\ TypeOK
  BY DEF IndInv, LoopOK, Nothing
<1>2. outcome' # outcome
  BY <1>1
<1>3. \/ Finish /\ outcome' = Result
      \/ ReadFails /\ outcome' = Failure
      \/ ReadTimesOut /\ outcome' = Failure
  BY <1>2 DEF Next, Open, CallerAnswers, OpenFails, OpenTimesOut, Read, Finish,
     ReadFails, ReadTimesOut, Drip, PeerCloses, Expire, Terminating, Ends, vars
<1>4. CASE Finish /\ outcome' = Result
  <2>1. ~(buffer <= limit) /\ ~truncate
    BY <1>4 DEF Result, Answer
  <2>2. limit = MaxBody
    BY <2>1, OnlyFailuresAreCut
  <2>3. buffer <= arrived /\ arrived <= resp.size
    BY DEF ReadsThisBody
  <2>4. QED
    BY <1>1, <2>1, <2>2, <2>3, SizeIsNat DEF TypeOK
<1>5. CASE ReadFails /\ outcome' = Failure
  BY <1>5 DEF ReadFails, Failure, Answer
<1>6. CASE ReadTimesOut /\ outcome' = Failure
  BY <1>6 DEF ReadTimesOut, Failure, Answer
<1>7. QED
  BY <1>3, <1>4, <1>5, <1>6

(* A body at its limit is not over it: while the peer and the deadline     *)
(* hold, the loop refuses only what is larger than max_body_size.          *)
THEOREM RefusesOnlyWhatIsOver == Spec => RefusesOnlyOver
<1>1. ASSUME WholeInv, [Next]_vars
      PROVE  [phase = "reading" /\ ~expired /\ peer = "open"
                /\ outcome'.kind = "fetch_error" => resp.size > MaxBody]_vars
  <2> SUFFICES ASSUME phase = "reading", ~expired, peer = "open",
                      outcome'.kind = "fetch_error"
               PROVE  resp.size > MaxBody
    OBVIOUS
  <2>1. limit = MaxBody /\ buffer > limit /\ buffer <= resp.size
    BY <1>1, WaysToRefuse
  <2>2. buffer \in Nat /\ limit \in Nat /\ resp.size \in Nat
    BY <1>1, SizeIsNat DEF WholeInv, IndInv, TypeOK
  <2>3. QED
    BY <2>1, <2>2
<1>2. QED
  BY <1>1, ReadsOnlyThisBody, PTL DEF Spec, RefusesOnlyOver

(* A failure whose status line has come is answered under its status,      *)
(* however its body ends, over every transport but SessionTransport.       *)
THEOREM StatusOutlivesItsBody == Spec => StatusSurvives
<1>1. ASSUME WholeInv, [Next]_vars PROVE [StatusLost => transport = "session"]_vars
  <2> SUFFICES ASSUME StatusLost PROVE transport = "session"
    OBVIOUS
  <2>1. phase = "reading" /\ resp.status = "error" /\ outcome'.kind = "fetch_error"
    BY DEF StatusLost
  <2>2. truncate
    BY <1>1, <2>1, OnlyFailuresAreCut DEF WholeInv
  <2>3. Failure = FetchError
    BY <1>1, <2>1, <2>2, WaysToRefuse
  <2>4. QED
    BY <2>2, <2>3 DEF Failure, Answer, FetchError
<1>2. QED
  BY <1>1, ReadsOnlyThisBody, PTL DEF Spec, StatusSurvives
=============================================================================
