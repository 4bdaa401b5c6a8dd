--------------------------- MODULE StreamedResult ---------------------------
(***************************************************************************)
(* `call_stream`: a reply read through JsonStream as it arrives, its       *)
(* `result` by a walk of the caller's, and the rest of it checked as `call` *)
(* checks it.  The walk runs before the id of the reply is known.           *)
(*                                                                          *)
(* Over the default transport the wire may break and the deadline may pass  *)
(* at any moment, the time the walk spends included; over another the body  *)
(* is read whole before (HttpRequest) and the stream is memory.             *)
(***************************************************************************)
EXTENDS JsonStream, RpcReply

CONSTANTS
    RequestId,    \* the id of this call
    Scenarios,    \* the replies and walks: [text, walk, status, transport]
    Named(_),     \* the member a name as read spells: "result", "id", ...
    Member(_, _), \* json.loads of what was kept of a member
    Parsed(_),    \* json.loads of the body of a failure: [shape, replies]
    MaxError      \* MAX_ERROR_BODY_SIZE

(* A walk reads the result whole with `skip` or `value`, or by the members  *)
(* or items of it, each kept with `value`; or it returns after the first of *)
(* those, or before reading anything; or it catches the refusal of a value  *)
(* -- the result itself, or each member; or it reads on past the result.    *)
Walks == {"skip", "value", "members", "items", "first member", "first item", "nothing",
          "swallow", "swallow members", "beyond"}
Envelope == {"jsonrpc", "id", "error"}

Scenario ==
    [text : Seq(Octets), walk : Walks, status : {"ok", "error"},
     transport : {"default", "whole"}]

ASSUME ScenariosAssumption ==
    /\ RequestId \in Ids /\ MaxError \in Nat
    /\ Scenarios \subseteq Scenario

VARIABLES
    scenario,
    wire,     \* "up", past the deadline ("late"), or "broken"
    members,  \* `kept`: what was kept of each member of the reply
    returned, \* what the walk keeps, in order
    depth, start, \* _open, and the octet, where the result starts
    outcome

vars == <<streamVars, scenario, wire, members, returned, depth, start, outcome>>
callVars == <<scenario, wire, members, returned, depth, start, outcome>>

None == [kind |-> "none", of |-> NoId]
Unread == Absent

Init ==
    \E s \in Scenarios :
        /\ scenario = s
        /\ StreamInit(s.text, IF s.status = "ok"
                              THEN Generator("{") \o <<Step("end"), Step("read")>>
                              ELSE <<Step("failure")>>)
        /\ wire = "up"
        /\ members = [m \in Envelope \cup {"result"} |-> Unread]
        /\ returned = <<>> /\ depth = 0 /\ start = 0
        /\ outcome = None

TypeOK ==
    /\ StreamTypeOK
    /\ scenario \in Scenario /\ wire \in {"up", "late", "broken"}
    /\ members \in [Envelope \cup {"result"} ->
                        {Unread} \cup Seq(Octets) \cup Seq(Seq(Octets))]
    /\ returned \in Seq(Seq(Octets))
    /\ depth \in Int /\ start \in Nat

(* What is held at once, whatever the reply: a chunk behind what the        *)
(* longest look ahead leaves of the last one, the value being kept under    *)
(* its own limit, and one octet for each container `skip` has open; of a    *)
(* failure's body, no more than is cut from it.  It is told between two     *)
(* calls of _advance: inside of one, what is kept has the octets it takes   *)
(* before it is measured, no more than the buffer has beside the limit.     *)
LookAhead == IF MaxNumber + 1 > 6 THEN MaxNumber + 1 ELSE 6
HeldIsBounded ==
    /\ fetched - offset <= LookAhead - 1 + Chunk \/ fetched <= MaxError
    /\ Len(kept) <= limit
    /\ Len(nest) <= MaxDepth

(* What the discrimination reads, the walk's answer standing for `result`. *)
Envelop ==
    [id |-> IF members["id"] = Unread THEN NoId ELSE Member("id", members["id"]),
     marker |-> IF members["jsonrpc"] = Unread THEN "absent"
                ELSE Member("jsonrpc", members["jsonrpc"]),
     result |-> members["result"],
     error |-> IF members["error"] = Unread THEN Absent ELSE Member("error", members["error"])]

-----------------------------------------------------------------------------
(* The wire.                                                               *)

Up == wire = "up"
Elapse ==
    /\ Up /\ scenario.transport = "default" /\ todo # <<>>
    /\ wire' = "late"
    /\ UNCHANGED <<streamVars, scenario, members, returned, depth, start, outcome>>

(* read() answers, or raises: it is past the deadline, or the wire breaks,  *)
(* and a wire that broke may pass for one that ended.                      *)
Receive ==
    \/ Up /\ Fill /\ UNCHANGED callVars
    \/ wire = "broken" /\ Wants /\ FillEnd /\ UNCHANGED callVars
    \/ /\ Wants /\ scenario.transport = "default"
       /\ Refuse
       /\ wire' = IF Up THEN "broken" ELSE wire
       /\ UNCHANGED <<scenario, members, returned, depth, start, outcome>>

(* _failure_body: cut at the limit, and empty where reading it fails.       *)
Reply(body) ==
    [status |-> "error", shape |-> Parsed(body).shape, replies |-> Parsed(body).replies]
Answer(v) ==
    /\ outcome' = v /\ todo' = <<>>
    /\ UNCHANGED <<text, fetched, offset, pos, ended, keeping, kept, limit, taken, open,
                   nest, scenario, members, returned, depth, start>>
ReadFailure ==
    /\ Doing("failure")
    /\ \/ /\ Up /\ fetched < MaxError
          /\ \E n \in 1 .. Chunk :
                /\ fetched + n <= Len(text) /\ fetched + n <= MaxError
                /\ Fetch(n)
          /\ UNCHANGED callVars
       \/ /\ fetched = MaxError \/ (Up /\ fetched = Len(text))
          /\ Answer(ReadReply(RequestId, Reply(SubSeq(text, 1, fetched))))
          /\ UNCHANGED wire
       \/ /\ scenario.transport = "default" /\ fetched < MaxError
          /\ Answer(ReadReply(RequestId, Reply(<<>>)))
          /\ wire' = IF Up THEN "broken" ELSE wire

-----------------------------------------------------------------------------
(* The members of the reply.                                               *)

Walking == \E i \in DOMAIN todo : todo[i].do = "returned"

TasksOf(walk) ==
    CASE walk = "skip" -> <<Step("skip")>>
      [] walk = "value" -> KeepValue("result") \o <<Step("note")>>
      [] walk \in {"members", "first member", "swallow members"} -> Generator("{")
      [] walk \in {"items", "first item"} -> Generator("[")
      [] walk = "nothing" -> <<>>
      [] walk = "swallow" -> KeepValue("result") \o <<Step("caught")>>
      [] walk = "beyond" -> <<Step("skip"), Step("skip")>>

(* `name in kept`: only what was kept before is twice.                      *)
Twice(name) == IF name \in DOMAIN members THEN members[name] # Unread ELSE FALSE
EnvelopeMember ==
    LET name == Named(taken) IN
    /\ Doing("yield") /\ ~ Walking
    /\ CASE Twice(name) -> Refuse
         [] ~ Twice(name) /\ name = "result" ->
              Proceed(<<Step("peek"), Step("walk")>> \o Rest)
         [] ~ Twice(name) /\ name \in Envelope ->
              Proceed(KeepValue("member") \o <<Task("store", name)>> \o Rest)
         [] OTHER -> Proceed(<<Step("skip")>> \o Rest)
    /\ UNCHANGED callVars
Store ==
    /\ Doing("store") /\ Proceed(Rest)
    /\ members' = [members EXCEPT ![Of] = taken]
    /\ UNCHANGED <<scenario, wire, returned, depth, start, outcome>>

BeginWalk ==
    /\ Doing("walk")
    /\ Proceed(TasksOf(scenario.walk) \o <<Step("returned")>> \o Rest)
    /\ depth' = open /\ start' = At /\ returned' = <<>>
    /\ UNCHANGED <<scenario, wire, members, outcome>>

(* A name, or an element, is yielded to the walk.                           *)
Returns(i) == todo[i].do = "returned" /\ \A j \in 1 .. i - 1 : todo[j].do # "returned"
WalkMember ==
    /\ Doing("yield") /\ Walking
    /\ \/ /\ scenario.walk \in {"first member", "first item"}
          /\ \E i \in DOMAIN todo :
                /\ Returns(i)
                /\ Proceed(KeepValue("result") \o SubSeq(todo, i, Len(todo)))
       \/ /\ scenario.walk = "swallow members"
          /\ Proceed(KeepValue("result") \o <<Step("caught")>> \o Rest)
       \/ /\ scenario.walk \in {"members", "items"}
          /\ Proceed(KeepValue("result") \o <<Step("note")>> \o Rest)
    /\ returned' = IF Of = "{" THEN Append(returned, taken) ELSE returned
    /\ UNCHANGED <<scenario, wire, members, depth, start, outcome>>
Note ==
    /\ Doing("note") /\ Proceed(Rest)
    /\ returned' = Append(returned, taken)
    /\ UNCHANGED <<scenario, wire, members, depth, start, outcome>>

(* The walk has returned: read(0), and the two counters.                    *)
FaultyInTime == TRUE \* a fault: no read(0)
InTime == wire # "late"
FaultyReadWhole == At # start \* a fault: no look at what the generators left open
ReadWhole == open = depth /\ At # start
EndWalk ==
    /\ Doing("returned")
    /\ IF InTime /\ ReadWhole
       THEN /\ Proceed(Rest)
            /\ members' = [members EXCEPT !["result"] = returned]
       ELSE Refuse /\ UNCHANGED members
    /\ UNCHANGED <<scenario, wire, returned, depth, start, outcome>>

Discriminated ==
    /\ Doing("read")
    /\ Answer(Discriminate(RequestId, "ok", Envelop))
    /\ UNCHANGED wire
Fail == Doing("refused") /\ Answer(FetchError) /\ UNCHANGED wire

Done == todo = <<>> /\ UNCHANGED vars

Next ==
    \/ Elapse \/ Receive \/ ReadFailure
    \/ Scan /\ UNCHANGED callVars
    \/ EnvelopeMember \/ Store \/ BeginWalk \/ WalkMember \/ Note \/ EndWalk
    \/ Discriminated \/ Fail \/ Done

Spec == Init /\ [][Next]_vars

(* A walk that ran past the deadline is no answer, though all that is left  *)
(* of the reply may be in memory by then.                                   *)
LateWalkIsNoAnswer ==
    [](wire = "late" /\ Walking => [](outcome.kind \notin {"result", "rpc"}))
=============================================================================
