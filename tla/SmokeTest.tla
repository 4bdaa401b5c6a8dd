------------------------------ MODULE SmokeTest ------------------------------
(***************************************************************************)
(* Two programs over the nodes of NodeLife: a client of `from_chain`, and   *)
(* rpc_smoke.py, which starts a bitcoind of its own in a fresh datadir,     *)
(* waits for it, checks it and makes sure it stopped, whatever else runs on *)
(* the host.                                                                *)
(***************************************************************************)
EXTENDS ChainClient

CONSTANTS
    Own,      \* the bitcoind the script starts
    Scenarios \* [program, args, run, serves, network, heap, roots]: which nodes ever run

(* A node reports the challenge of the network it is on, if any; nobody but *)
(* the script's node comes near the script's datadir, and no node has the   *)
(* user the script makes up.  smoke() is of regtest alone.                  *)
Reports(service, script) ==
    service.challenge # NoText => ScriptOf[service.challenge] \in {script, NoScript}
Programs == {"client", "smoke", "smoke_chain"}
ASSUME HostAssumption ==
    /\ Own \in Nodes
    /\ \A s \in Scenarios :
          /\ s.program \in Programs
          /\ s.serves \in [Nodes -> Service] /\ s.network \in [Nodes -> Scripts]
          /\ s.args \in Arguments /\ s.run \subseteq Nodes
          /\ s.heap \in [Containers -> Container] /\ s.roots \in Seq(Copies)
          /\ \A n \in Nodes : Reports(s.serves[n], s.network[n])
          /\ s.program # "client" =>
                /\ s.args.challenge = NoText /\ Own \in s.run
                /\ \A n \in Nodes : s.serves[n].user = "unknown"
                /\ \A n \in Nodes \ {Own} : s.serves[n].cookie = "elsewhere"
          /\ s.program = "smoke" => s.args.chain = "regtest"

VARIABLES
    program, \* a client, or smoke() or smoke_chain() of the script
    network, \* the script of the signet each node is really on
    roots,   \* the params of the calls of a client
    late,    \* the clock against STARTUP_TIMEOUT, "yes" or "no"
    result,  \* how the checks ended
    heard    \* of the past: the nodes on whose answers a wait or a check passed

vars == <<nodeVars, callVars, paramsVars, stopped, clientVars,
          program, network, roots, late, result, heard>>
fixed == <<program, network, roots>>

Init ==
    \E s \in Scenarios :
        /\ program = s.program /\ args = s.args /\ serves = s.serves /\ network = s.network
        /\ heap = s.heap /\ roots = s.roots
        /\ members = <<>> /\ phase = "none" /\ path = <<>>
        /\ refusal = NotRefused /\ written = {} /\ changes = 0
        /\ node = [n \in Nodes |-> IF n \in s.run THEN "off" ELSE "gone"] /\ port = NoNode
        /\ file = "absent" /\ pc = "idle" /\ method = "call" /\ auth = "none" /\ fd = "absent"
        /\ credential = NoNode /\ outcome = "none" /\ answered = NoNode
        /\ begunUnder = NoNode /\ stopped = {}
        /\ at = IF s.program = "client" THEN "new" ELSE "port"
        /\ waits = "no" /\ verdict = "none" /\ verified = NoNode
        /\ late = "no" /\ result = "none" /\ heard = {}

-----------------------------------------------------------------------------
(* node(), isolated_node() and wait_for_rpc.                                *)

Moves(to) == at' = to /\ UNCHANGED <<args, verdict, verified>>
Quietly == Still /\ UNCHANGED <<waits, late>>

(* Between this look at the port and the start of the node, and between     *)
(* that and its bind, another process may take the port.                    *)
PortIsFree ==
    /\ at = "port" /\ Quietly
    /\ IF port = NoNode THEN Moves("spawn") /\ UNCHANGED result
       ELSE Moves("over") /\ result' = "failed"
Spawn ==
    /\ at = "spawn" /\ StartNode(Own) /\ Moves("poll")
    /\ UNCHANGED <<callVars, paramsVars, stopped, waits, late, result>>

Elapse == at = "poll" /\ late = "no" /\ late' = "yes" /\ Still
          /\ UNCHANGED <<clientVars, result, heard>>

Fails(as) == result' = as /\ Moves("stop")
FaultyGivesUp == node[Own] = "gone" \* a fault: the wait has no end of its own
GivesUp == late = "yes" \/ node[Own] = "gone"
Poll ==
    /\ at = "poll" /\ waits = "no"
    /\ IF GivesUp THEN Fails("failed") /\ Quietly
       ELSE /\ Ask("call", "cookie", <<>>) /\ Moves("poll") /\ UNCHANGED <<late, result>>
Polled ==
    /\ at = "poll" /\ Heard
    /\ waits' = "no" /\ Still /\ UNCHANGED late
    /\ heard' = IF outcome = "result" THEN heard \cup {answered} ELSE heard
    /\ CASE outcome = "result" -> Moves("version") /\ UNCHANGED result
         [] outcome = "unauthorized" -> Fails("credential")
         [] OTHER -> Moves("poll") /\ UNCHANGED result

-----------------------------------------------------------------------------
(* The checks, in their order.  smoke() asks the version, looks at the      *)
(* cookie, tries a credential that is none, asserts the chain and one it is *)
(* not, sends an unmarked request, asks the REST interface, with a call     *)
(* before each of its four groups of requests, and at last calls over a     *)
(* session, before and after an idle wait.  smoke_chain() asks the version, *)
(* looks at the cookie, asks for the chain's name and asserts the chain.    *)
(* Checks by authenticated calls alone, one after another, are one of them, *)
(* and so are the requests of a group but for assert_chain both ways; the   *)
(* one that is checked to be a 404 is left out.                             *)

MethodOf ==
    [version |-> "call", wrong |-> "call", info |-> "call", chain |-> "chain",
     other |-> "chain", unmarked |-> "raw",
     tip |-> "call", restChain |-> "rest", restOther |-> "rest",
     tx |-> "call", restTx |-> "rest", block |-> "call", restBlock |-> "rest",
     spent |-> "call", restSpent |-> "rest", session |-> "call", idle |-> "call"]
Isolated == program = "smoke_chain"
FaultyAfter == \* a fault: the session is checked before the REST interface
    [version |-> "cookie", wrong |-> "chain", info |-> "chain",
     chain |-> IF Isolated THEN "stop" ELSE "other", other |-> "unmarked",
     unmarked |-> "session", session |-> "idle", idle |-> "tip",
     tip |-> "restChain", restChain |-> "restOther", restOther |-> "tx",
     tx |-> "restTx", restTx |-> "block", block |-> "restBlock",
     restBlock |-> "spent", spent |-> "restSpent", restSpent |-> "stop"]
After ==
    [version |-> "cookie", wrong |-> "chain", info |-> "chain",
     chain |-> IF Isolated THEN "stop" ELSE "other", other |-> "unmarked", unmarked |-> "tip",
     tip |-> "restChain", restChain |-> "restOther", restOther |-> "tx",
     tx |-> "restTx", restTx |-> "block", block |-> "restBlock",
     restBlock |-> "spent", spent |-> "restSpent", restSpent |-> "session",
     session |-> "idle", idle |-> "stop"]
OtherChain == [args EXCEPT !.chain = "main", !.challenge = NoText]

Check ==
    /\ at \in DOMAIN MethodOf
    /\ Ask(MethodOf[at], IF at = "wrong" THEN "user" ELSE "cookie", <<>>)
    /\ Moves(at) /\ UNCHANGED <<late, result>>
CredentialRefused == outcome = "unauthorized"
NamesChain == outcome = "result" /\ serves[answered].chain = args.chain
ChainIs(what, a) == outcome = "result" /\ AssertChainInfo(a, serves[answered]) = what
Passes ==
    CASE at = "wrong" -> CredentialRefused
      [] at = "info" -> NamesChain
      [] at \in {"chain", "restChain"} -> ChainIs("accepted", args)
      [] at \in {"other", "restOther"} -> ChainIs("disagrees", OtherChain)
      [] OTHER -> outcome = "result"
Checked ==
    /\ at \in DOMAIN MethodOf /\ Heard
    /\ waits' = "no" /\ Still /\ UNCHANGED <<args, late>>
    /\ at' = IF Passes THEN After[at] ELSE "stop"
    /\ result' = IF ~ Passes THEN "failed" ELSE IF After[at] = "stop" THEN "passed" ELSE result
    /\ heard' = IF Passes THEN heard \cup {answered} ELSE heard
    /\ IF at \in {"chain", "restChain"} THEN Concludes ELSE UNCHANGED <<verdict, verified>>
CheckCookie ==
    /\ at = "cookie" /\ Quietly
    /\ IF file \in Nodes
       THEN Moves(IF Isolated THEN "info" ELSE "wrong") /\ UNCHANGED result
       ELSE Fails("failed")

-----------------------------------------------------------------------------
(* stop(), in the `finally` of both.                                        *)

AskToStop ==
    /\ at = "stop" /\ Ask("stop", "cookie", <<>>) /\ Moves("stop") /\ UNCHANGED <<late, result>>
Kill ==
    /\ IF Running(Own) THEN Crash(Own) ELSE UNCHANGED nodeVars
    /\ Moves("over")
    /\ UNCHANGED <<callVars, paramsVars, stopped, late, result>>
FaultyGetsDown == \* a fault: a node that could not be asked is left to itself
    Moves(IF outcome = "result" THEN "waiting" ELSE "over") /\ Still /\ UNCHANGED <<late, result>>
GetsDown ==
    IF outcome = "result" THEN Moves("waiting") /\ Still /\ UNCHANGED <<late, result>> ELSE Kill
AskedToStop == at = "stop" /\ Heard /\ waits' = "no" /\ GetsDown
Waited ==
    /\ at = "waiting" /\ UNCHANGED waits
    /\ \/ ~ Running(Own) /\ Moves("over") /\ Still /\ UNCHANGED <<late, result>>
       \/ Kill

-----------------------------------------------------------------------------
Script ==
    \/ (PortIsFree \/ Spawn \/ Poll \/ Check \/ CheckCookie) /\ UNCHANGED heard
    \/ (AskToStop \/ AskedToStop \/ Waited) /\ UNCHANGED heard
    \/ Polled \/ Checked
Client == (FromChain \/ Verified \/ Calls(roots) \/ AsksAgain \/ Returns)
          /\ UNCHANGED <<late, result, heard>>
Program == (Script \/ Client) /\ UNCHANGED fixed
Called == CallStep /\ UNCHANGED <<clientVars, fixed, late, result, heard>>

(* The rest of the host.  Nobody but the script starts its node or comes    *)
(* near its datadir.  A bound: where the params change, the path does not.  *)
Host ==
    /\ \/ NodeStep
       \/ \E n \in Nodes : (program # "client" => n # Own) /\ StartNode(n)
       \/ program = "client" /\ roots = <<>> /\ Swap
    /\ UNCHANGED <<callVars, paramsVars, stopped, clientVars, fixed, late, result, heard>>
OtherThread ==
    /\ roots # <<>> /\ pc = "build" /\ Change
    /\ UNCHANGED <<nodeVars, callVars, stopped, clientVars, fixed, late, result, heard>>
Over == at = "over" /\ waits = "no" /\ UNCHANGED vars

Next ==
    \/ Program \/ Called \/ Host \/ OtherThread \/ Over
    \/ Elapse /\ UNCHANGED fixed
Spec == Init /\ [][Next]_vars

(* The script and its calls run, every call times out at the latest, and    *)
(* so do its two waits.  No node has to do anything.                        *)
FairSpec ==
    Spec /\ WF_vars(Program) /\ WF_vars(Called) /\ WF_vars(Elapse /\ UNCHANGED fixed)

TypeOK ==
    /\ ParamsTypeOK /\ NodeTypeOK /\ ClientTypeOK
    /\ program \in Programs /\ network \in [Nodes -> Scripts]
    /\ at \in {"new", "verify", "ready", "over"}
             \cup {"port", "spawn", "poll", "cookie", "stop", "waiting"} \cup DOMAIN MethodOf
    /\ roots \in Seq(Copies) /\ late \in {"yes", "no"}
    /\ result \in {"none", "passed", "failed", "credential"} /\ heard \subseteq Nodes

(* assert_chain accepts the node that answered only where it is on the      *)
(* network the caller means, and says they disagree only where it is not:   *)
(* two signets have one name, one challenge several spellings, and a node   *)
(* may not report what has to be compared.                                  *)
IsOn(n, a) == serves[n].chain = a.chain /\ (a.chain = "signet" => network[n] = Wanted(a))
VerdictIsTrue ==
    /\ verdict = "accepted" => IsOn(verified, args)
    /\ verdict = "disagrees" => ~ IsOn(verified, args)

(* The script stops no node but its own, and leaves none of its own behind, *)
(* however it ended.  It passes only where every answer it took came from   *)
(* its own node, those of the requests that carry no credential (the REST   *)
(* interface), or one that proves nothing (the 401), included.  And where   *)
(* it gave up on a refused cookie, its node could not have answered any     *)
(* more.                                                                    *)
SmokeIsItsOwn ==
    program # "client" =>
        /\ stopped \subseteq {Own}
        /\ at = "over" => ~ Running(Own)
        /\ result = "passed" => heard = {Own}
        /\ result = "credential" => node[Own] = "gone"

(* However the node behaves, or another in its place, the script ends.      *)
EverySmokeEnds == program # "client" ~> at = "over"
=============================================================================
