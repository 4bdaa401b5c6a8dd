-------------------------- MODULE StreamedResultMC --------------------------
(***************************************************************************)
(* Replies to one call, the walks of its result, and what `call` would have *)
(* made of the same body.                                                   *)
(***************************************************************************)
EXTENDS StreamedResult, JsonText

CONSTANTS own, ReplyKinds

Q(s) == <<"quote">> \o s \o <<"quote">>
Pair(name, value) == Q(name) \o <<":">> \o value
Obj(s) == <<"{">> \o s \o <<"}">>
Arr(s) == <<"[">> \o s \o <<"]">>
Comma(s, t) == s \o <<",">> \o t

MCLetters == {"res", "idn", "err", "ver", "any", "own", "two"}
MCLimits == [name |-> 8, member |-> 5, result |-> 5]
Null_ == <<"n", "l">>
Digit == <<"d">>
Unicode == <<"\\", "u", "d", "d", "d", "d">> \* spells the name of the result

MCNamed(name) ==
    CASE name \in {Q(<<"res">>), Q(Unicode)} -> "result"
      [] name = Q(<<"idn">>) -> "id"
      [] name = Q(<<"err">>) -> "error"
      [] name = Q(<<"ver">>) -> "jsonrpc"
      [] OTHER -> "other"
MCMember(name, s) ==
    CASE name = "id" -> IF s = Q(<<"own">>) THEN own ELSE NoId
      [] name = "jsonrpc" -> IF s = Q(<<"two">>) THEN "2.0" ELSE "other"
      [] OTHER -> CASE s = Null_ -> Null
                    [] s = Obj(Pair(<<"any">>, Digit)) -> own
                    [] OTHER -> Junk

(* The last part of that name, where there is one.                          *)
PartsNamed(v, name) == {i \in DOMAIN v.parts : MCNamed(v.parts[i].name) = name}
LastOf(t, v, is, name, absent) ==
    IF is = {} THEN absent ELSE MCMember(name, Slice(t, v.parts[Max(is)].value))
MemberOf(t, v, name, absent) == LastOf(t, v, PartsNamed(v, name), name, absent)
ResultOf(v, is) == IF is = {} THEN Absent ELSE v.parts[Max(is)].value
ShapeOf(t, v) ==
    CASE v.to = 0 -> "garbled" [] v.to # 0 /\ t[v.from] = "{" -> "object" [] OTHER -> "scalar"
ParsedAs(t, v) ==
    [shape |-> ShapeOf(t, v),
     replies |-> <<[id |-> MemberOf(t, v, "id", NoId),
                    marker |-> MemberOf(t, v, "jsonrpc", "absent"),
                    result |-> ResultOf(v, PartsNamed(v, "result")),
                    error |-> MemberOf(t, v, "error", Absent)]>>]
MCParsed(body) == ParsedAs(body, Document(body))

-----------------------------------------------------------------------------
(* The replies.                                                            *)

Id == Pair(<<"idn">>, Q(<<"own">>))
TornResult == Q(<<"lead">>)
Results ==
    {Null_, Digit, <<"-", "0">>, <<"d", "d", "d">>, <<"d", "E">>,
     Q(<<"any">>), Q(<<"\\", "quote", "lead", "tail">>), Q(Unicode), TornResult,
     Obj(<<>>), Arr(<<>>), Obj(Pair(<<"any">>, Digit)), Obj(Pair(<<>>, Digit)), Arr(<<"d", " ", ",", "0">>),
     Arr(Comma(Arr(Digit), Obj(<<>>))), Arr(Arr(Arr(<<>>))),
     Obj(Comma(Pair(<<"any">>, Arr(<<"d", ",", "d">>)), Pair(<<"own">>, Digit))),
     Obj(Comma(Pair(<<>>, Obj(Comma(Pair(<<"any">>, Digit), Pair(<<"own">>, Digit)))),
               Pair(<<"any", "any", "any", "any", "any", "any", "any">>, Digit)))}
(* Every result of up to three octets, most of them none.                   *)
Short == UNION {[1 .. n -> {"{", "}", "[", "]", ":", ",", "quote", "d", " "}] : n \in 0 .. 3}
(* As Core writes it, the id last, and the other way round.                 *)
Core(result) == Obj(Comma(Pair(<<"res">>, result), Id))
IdFirst(result) == Obj(Comma(Id, Pair(<<"res">>, result)))
(* The rest of the envelope, around a result that is a digit.               *)
Envelopes ==
    LET res == Pair(<<"res">>, Digit)
        ver == Pair(<<"ver">>, Q(<<"two">>))
        err(v) == Pair(<<"err">>, v)
        error == Obj(Pair(<<"any">>, Digit))
    IN {Obj(Id), Obj(res), Obj(<<>>), Digit, Arr(Id), Obj(Comma(Id, res)),
        Obj(Comma(res, Pair(<<"idn">>, Q(<<"any">>)))), Obj(Comma(Id, Comma(res, res))),
        Obj(Comma(Id, Comma(Pair(Unicode, Digit), res))),
        Obj(Comma(ver, Comma(res, Id))), Obj(Comma(ver, Comma(err(error), Id))),
        Obj(Comma(ver, Comma(res, Comma(err(Null_), Id)))),
        Obj(Comma(res, Comma(err(error), Id))), Obj(Comma(res, Comma(err(Null_), Id))),
        Obj(Comma(res, Comma(err(Arr(Arr(Arr(<<>>)))), Id))),
        Obj(Comma(Pair(<<"res", "any">>, Arr(<<"d", "d">>)), Comma(res, Id))),
        <<" ">> \o Obj(<<" ">> \o Comma(res \o <<" ">>, <<" ">> \o Id)) \o <<" ">>,
        Comma(Obj(Comma(res, Id)), Obj(<<>>))}

(* A reply of a 2.0 node that ends anywhere, and one with any octet of it   *)
(* another.                                                                 *)
Whole == Obj(Comma(Pair(<<"res">>, Arr(Comma(Digit, Q(<<"\\", "n">>)))), Id))
Cut == {SubSeq(Whole, 1, n) : n \in 0 .. Len(Whole)}
Spoilt == {[Whole EXCEPT ![i] = o] : i \in DOMAIN Whole, o \in Marks \cup {"any", "res"}}

Case(t, w, st, tr) == [text |-> t, walk |-> w, status |-> st, transport |-> tr]
Uncaught == Walks \ {"swallow", "swallow members"}

(* A walk that catches a refusal has a run of its own wherever the refusal  *)
(* is one of `call` as well.                                                *)
MCScenarios ==
    IF "any" \in ReplyKinds
    THEN {Case(Core(r), w, "ok", "default") : r \in Results, w \in Uncaught}
         \cup {Case(IdFirst(r), w, "ok", "default") : r \in Results, w \in Uncaught}
         \cup {Case(Core(r), w, "ok", "default") :
                 r \in Results \ {TornResult}, w \in Walks \ Uncaught}
         \cup {Case(Core(r), w, "ok", "whole") :
                 r \in Short, w \in {"skip", "items", "first item"}}
         \cup {Case(t, "value", "ok", "default") : t \in Envelopes}
         \cup {Case(t, "skip", "ok", "whole") : t \in Cut \cup Spoilt}
         \cup {Case(t, "nothing", "error", "default") : t \in Envelopes \cup Cut}
    ELSE {Case(Core(r), "swallow", "ok", "whole") : r \in Short \cup {TornResult}}

-----------------------------------------------------------------------------
(* What `call` makes of the scenario, and what the stream has a bound of    *)
(* its own against.                                                        *)

Body == IF scenario.status = "ok" \/ Len(scenario.text) <= MaxError THEN scenario.text
        ELSE SubSeq(scenario.text, 1, MaxError)
Told(parsed) ==
    ReadReply(RequestId, [status |-> scenario.status, shape |-> parsed.shape,
                          replies |-> parsed.replies])
CallVerdict == Told(MCParsed(Body))

Heavy(v, of) == v.deep > MaxDepth \/ v.to - v.from > Limits[of]
Unwalkable(walk, v) ==
    CASE walk = "skip" -> v.deep > MaxDepth
      [] walk \in {"value", "swallow"} -> Heavy(v, "result")
      [] walk \in {"members", "swallow members"} ->
            \/ scenario.text[v.from] # "{"
            \/ \E i \in DOMAIN v.parts : Heavy(v.parts[i].value, "result")
      [] walk = "items" ->
            \/ scenario.text[v.from] # "["
            \/ \E i \in DOMAIN v.parts : Heavy(v.parts[i].value, "result")
      [] walk = "first member" -> scenario.text[v.from] # "{" \/ v.parts # <<>>
      [] walk = "first item" -> scenario.text[v.from] # "[" \/ v.parts # <<>>
      [] OTHER -> TRUE
(* A walk that does not read the result, or a bound it does not fit.        *)
FailsIn(v) ==
    \E i \in PartsNamed(v, "result") : Unwalkable(scenario.walk, v.parts[i].value)
WalkFails == FailsIn(Document(scenario.text))
EnvelopeFailsIn(v) ==
    \/ v.digits > MaxNumber
    \/ \E i \in DOMAIN v.parts :
        LET name == MCNamed(v.parts[i].name) IN
        \/ name \in Envelope /\ Heavy(v.parts[i].value, "member")
        \/ name = "other" /\ v.parts[i].value.deep > MaxDepth
        \/ name # "other" /\ PartsNamed(v, name) # {i}
EnvelopeFails == EnvelopeFailsIn(Document(scenario.text))

(* What the walk is to have kept of a result it read whole.                 *)
NameOf(name) == IF Len(name) > Limits["name"] THEN <<>> ELSE name
RECURSIVE Kept(_, _)
Kept(parts, walk) ==
    IF parts = <<>> THEN <<>>
    ELSE (IF walk = "items" THEN <<>> ELSE <<NameOf(Head(parts).name)>>)
         \o (IF walk = "members" \/ walk = "items"
             THEN <<Slice(scenario.text, Head(parts).value)>> ELSE <<>>)
         \o Kept(Tail(parts), walk)
KeptBy(walk, v) ==
    CASE walk = "value" -> <<Slice(scenario.text, v)>>
      [] walk \in {"members", "items", "swallow members"} -> Kept(v.parts, walk)
      [] OTHER -> <<>>

-----------------------------------------------------------------------------
(* The properties.                                                         *)

(* A streamed call is told of a reply what `call` is told of it: the same   *)
(* error, the same refusal of the status, or the result, of which the walk *)
(* has what it asked for and every octet of it -- however the octets came.  *)
ToldLike(verdict) ==
    /\ outcome.kind = "result" =>
            /\ verdict.kind = "result"
            /\ outcome.of = KeptBy(scenario.walk, verdict.of)
    /\ outcome.kind \in {"rpc", "http"} => outcome = verdict
AnswersAsCall == outcome.kind \in {"result", "rpc", "http"} => ToldLike(CallVerdict)

(* It is refused only where `call` refuses it, where the walk or a bound of *)
(* the stream does, or where the wire failed: never for how it was cut.     *)
RefusedForCause ==
    outcome.kind = "fetch" =>
        \/ wire # "up" \/ CallVerdict.kind = "fetch"
        \/ WalkFails \/ EnvelopeFails

(* "The reply is refused wherever `call` would refuse it": a walk that      *)
(* catches a refusal does not make an answer of what is no json.            *)
RefusedWhereCallRefuses ==
    outcome.kind \in {"result", "rpc"} => CallVerdict.kind # "fetch"

(* A walk that left some of the result, read none of it, read past it, or   *)
(* caught the refusal of a part of it and went on is no answer, whatever    *)
(* the rest of the reply looks like from where it stopped.                  *)
WholeOrRefused ==
    outcome.kind \in {"result", "rpc"} /\ scenario.status = "ok" => ~ WalkFails
=============================================================================
