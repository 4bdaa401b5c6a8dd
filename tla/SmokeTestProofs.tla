--------------------------- MODULE SmokeTestProofs ---------------------------
(***************************************************************************)
(* Theorems about SmokeTest, for any number of nodes that start, restart,   *)
(* crash and replace each other, whatever they serve: which credential a    *)
(* call is refused, what assert_chain may say, whom the script stops, and   *)
(* what a request holds (the argument is in NodeLifeProofs).                *)
(***************************************************************************)
EXTENDS SmokeTest, NodeLifeProofs

-----------------------------------------------------------------------------
(* The inductive invariant.                                                *)

States == {"off", "starting", "bound", "warming", "up", "stopping", "gone"}
Wrote == {"warming", "up", "stopping", "gone"} \* it has written its cookie
Holds == {"bound", "warming", "up", "stopping"}
Smoking == program # "client"

(* What a scenario gives does not change.                                  *)
GivenOK ==
    /\ program \in Programs
    /\ serves \in [Nodes -> Service] /\ network \in [Nodes -> Scripts] /\ args \in Arguments
    /\ \A n \in Nodes : Reports(serves[n], network[n])
    /\ Smoking => /\ args.challenge = NoText /\ \A n \in Nodes : serves[n].user = "unknown"
                  /\ \A n \in Nodes \ {Own} : serves[n].cookie = "elsewhere"

(* One node has the port, and a cookie is written by a node that has it.    *)
NodesOK ==
    /\ node \in [Nodes -> States]
    /\ \A n \in Nodes : node[n] \in Holds => port = n
    /\ \A n \in Nodes : file = n => node[n] \in Wrote
    /\ Smoking => file \in {Own, "absent"}

(* The cookie a call has opened, and the one it read, are of nodes that     *)
(* wrote them.                                                             *)
CookieOK ==
    /\ ReadsNeverBlock
    /\ \A n \in Nodes : fd = n \/ credential = n => node[n] \in Wrote
    /\ Smoking => fd \in {Own, "absent"} /\ credential \in {Own, NoNode}
    /\ pc = "send" /\ auth = "cookie" => credential \in Nodes
    /\ pc # "idle" /\ auth = "none" => method = "rest"

(* While the node that served when the call began lives, nobody else's      *)
(* cookie is at the path, was opened there or was read there.               *)
BegunOK ==
    begunUnder \in Nodes /\ pc # "idle" =>
        /\ node[begunUnder] \in Wrote
        /\ node[begunUnder] # "gone" =>
              /\ file = begunUnder \/ file \notin Nodes
              /\ pc \in {"judge", "read"} => fd = begunUnder \/ fd \notin Nodes
              /\ pc = "send" /\ auth = "cookie" => credential = begunUnder

OutcomeOK ==
    /\ pc # "idle" => outcome = "none"
    /\ outcome \in {"result", "unauthorized"} => answered \in Nodes
    /\ RejectedOnlyIfReplaced
    /\ Smoking =>
          /\ outcome = "result" /\ auth # "none" => answered = Own
          /\ outcome = "unauthorized" /\ auth = "cookie" => node[Own] = "gone"

(* Where each program may be, and as whom it asks there.                    *)
Checks == DOMAIN MethodOf
AuthOf(c) == IF c = "wrong" THEN "user" ELSE IF MethodOf[c] = "rest" THEN "none" ELSE "cookie"
PlacesOK ==
    /\ IF Smoking
       THEN at \in Checks \cup {"port", "spawn", "poll", "cookie", "stop", "waiting", "over"}
       ELSE at \in {"new", "verify", "ready", "over"}
    /\ waits = "yes" /\ at \in Checks => auth = AuthOf(at)
    /\ waits = "yes" /\ at = "poll" => auth = "cookie"
    /\ at \in {"port", "spawn", "cookie"} => waits = "no"
    /\ at = "verify" => ~ NoSuchSignet(args)
    /\ at = "ready" /\ waits = "yes" /\ method \in {"chain", "rest"} => ~ NoSuchSignet(args)

ScriptOK ==
    Smoking =>
        /\ at \in {"port", "spawn"} => node[Own] = "off"
        /\ result # "none" => at \in {"stop", "waiting", "over"}

(* Once the script's node has been heard it holds the port until it is      *)
(* gone, so that nobody else can be heard while it lives: an answer that    *)
(* proves itself, by the cookie, vouches for all that came before it.       *)
Checking == at \in Checks \/ at = "cookie"
HeardOK ==
    Smoking =>
        /\ heard \subseteq {Own} \/ node[Own] = "gone"
        /\ outcome = "result" /\ auth # "none" => heard \subseteq {Own} /\ node[Own] \in Wrote
        /\ Checking => /\ node[Own] \in Wrote
                       /\ answered \in Nodes => answered = Own \/ node[Own] = "gone"

IndInv ==
    /\ GivenOK /\ NodesOK /\ CookieOK /\ BegunOK /\ OutcomeOK /\ PlacesOK /\ ScriptOK
    /\ HeardOK /\ VerdictIsTrue /\ SmokeIsItsOwn

USE DEF States, Wrote, Holds, Smoking

(* What is no check, and which checks end a run.                            *)
LEMMA CheckNames ==
    /\ {"port", "spawn", "poll", "cookie", "stop", "waiting", "over"} \cap Checks = {}
    /\ {"new", "verify", "ready"} \cap Checks = {}
    /\ \A c \in Checks : /\ After[c] \in Checks \cup {"cookie", "stop"}
                         /\ After[c] = "stop" => c # "wrong" /\ MethodOf[c] # "rest"
    /\ "version" \in Checks /\ "wrong" \in Checks /\ "info" \in Checks
    /\ \A c \in Checks : MethodOf[c] \in {"call", "raw", "chain", "rest"}
    /\ MethodOf["wrong"] # "rest"
BY SMT DEF Checks, MethodOf, After

-----------------------------------------------------------------------------
(* What the nodes do to what a call has read of them.                       *)

Ages ==
    /\ \A n \in Nodes : node[n] \in Wrote => node'[n] \in Wrote
    /\ \A n \in Nodes : node[n] = "gone" => node'[n] = "gone"
    /\ \A n \in Nodes :
          node[n] \in Wrote /\ node'[n] # "gone" /\ (file = n \/ file \notin Nodes) =>
              file' = n \/ file' \notin Nodes

LEMMA NodesUnchanged ==
    ASSUME NodesOK, UNCHANGED nodeVars, program' = program
    PROVE  NodesOK' /\ Ages
BY SMT DEF NodesOK, Ages, nodeVars

LEMMA Starts ==
    ASSUME NodesOK, NEW n \in Nodes, StartNode(n), program' = program
    PROVE  NodesOK' /\ Ages
BY SMT DEF NodesOK, Ages, StartNode, Becomes

LEMMA Binds ==
    ASSUME NodesOK, NEW n \in Nodes, Bind(n), program' = program
    PROVE  NodesOK' /\ Ages
BY NodesAssumption, SMT DEF NodesOK, Ages, Bind, Becomes, NodesAssumption

LEMMA Writes ==
    ASSUME GivenOK, NodesOK, NEW n \in Nodes, WriteCookie(n), program' = program
    PROVE  NodesOK' /\ Ages
BY SMT DEF GivenOK, NodesOK, Ages, WriteCookie, Becomes

LEMMA Loads ==
    ASSUME NodesOK, NEW n \in Nodes, Loaded(n), program' = program
    PROVE  NodesOK' /\ Ages
BY SMT DEF NodesOK, Ages, Loaded, Becomes

LEMMA LeavesOrCrashes ==
    ASSUME NodesOK, NEW n \in Nodes, Leave(n) \/ Crash(n), program' = program
    PROVE  NodesOK' /\ Ages
BY NodesAssumption, SMT DEF NodesOK, Ages, Leave, Crash, Becomes, Running, Frees, WroteHere, NodesAssumption

LEMMA Stops ==
    ASSUME NodesOK, NEW n \in Nodes, node[n] = "up", Becomes(n, "stopping"),
           UNCHANGED <<port, file, program>>
    PROVE  NodesOK' /\ Ages
BY SMT DEF NodesOK, Ages, Becomes

LEMMA Swaps ==
    ASSUME NodesOK, Swap, program = "client", program' = program
    PROVE  NodesOK' /\ Ages
BY NodesAssumption, SMT DEF NodesOK, Ages, Swap, NodesAssumption

-----------------------------------------------------------------------------
(* The host.                                                               *)

(* While the nodes move and a call does not, what is known of it stays      *)
(* known.                                                                  *)
LEMMA AgesCall ==
    ASSUME IndInv, Ages, NodesOK', UNCHANGED <<callVars, fixed, serves, args>>
    PROVE  GivenOK' /\ CookieOK' /\ BegunOK' /\ OutcomeOK'
<1> USE HostAssumption DEF HostAssumption
<1>1. GivenOK'
    BY SMT DEF IndInv, GivenOK, fixed
<1>2. CookieOK'
    BY SMT DEF IndInv, CookieOK, Ages, callVars, fixed, ReadsNeverBlock
<1>3. BegunOK'
    BY SMT DEF IndInv, BegunOK, Ages, callVars
<1>4. OutcomeOK'
    BY SMT DEF IndInv, OutcomeOK, Ages, callVars, fixed, RejectedOnlyIfReplaced
<1> QED BY <1>1, <1>2, <1>3, <1>4, Zenon

LEMMA AgesKeep ==
    ASSUME IndInv, Ages, NodesOK', UNCHANGED <<callVars, stopped, clientVars, fixed, serves, result>>,
           heard' = heard,
           Smoking => /\ node[Own] = "off" => at \notin {"port", "spawn"} \/ node'[Own] = "off"
                      /\ at = "over" => ~ Running(Own)'
    PROVE  IndInv'
<1>1. GivenOK' /\ CookieOK' /\ BegunOK' /\ OutcomeOK'
  <2>1. UNCHANGED <<callVars, fixed, serves, args>>
      BY SMT DEF clientVars
  <2> QED BY <2>1, AgesCall, Zenon
<1> USE HostAssumption DEF HostAssumption
<1>2. PlacesOK'
    BY SMT DEF IndInv, PlacesOK, callVars, clientVars, fixed, AuthOf, NoSuchSignet
<1>3. ScriptOK'
    BY SMT DEF IndInv, ScriptOK, clientVars, fixed
<1>4. HeardOK'
    BY SMT DEF IndInv, HeardOK, Checking, Ages, callVars, clientVars, fixed
<1>5. VerdictIsTrue'
    BY SMT DEF IndInv, VerdictIsTrue, IsOn, Wanted, clientVars, fixed
<1>6. SmokeIsItsOwn'
    BY SMT DEF IndInv, SmokeIsItsOwn, Ages, clientVars, fixed
<1> QED BY <1>1, <1>2, <1>3, <1>4, <1>5, <1>6, Zenon DEF IndInv

LEMMA HostKeeps == ASSUME IndInv, Host PROVE IndInv'
<1> USE HostAssumption DEF HostAssumption
<1>1. /\ UNCHANGED <<callVars, stopped, clientVars, fixed, result>> /\ heard' = heard
      /\ program' = program
    BY SMT DEF Host, fixed
<1>2. GivenOK /\ NodesOK /\ SmokeIsItsOwn /\ ScriptOK
    BY Zenon DEF IndInv
<1>3. ASSUME NEW n \in Nodes, Bind(n) \/ WriteCookie(n) \/ Loaded(n) \/ Leave(n) \/ Crash(n)
      PROVE  IndInv'
  <2>1. NodesOK' /\ Ages
      BY <1>1, <1>2, <1>3, Binds, Writes, Loads, LeavesOrCrashes, Zenon
  <2>2. /\ serves' = serves /\ node[n] \notin {"off", "gone"}
        /\ \E st \in States : node' = [node EXCEPT ![n] = st]
      BY <1>3, SMT DEF Bind, WriteCookie, Loaded, Leave, Crash, Becomes, Running
  <2>3. Smoking => /\ node[Own] = "off" => at \notin {"port", "spawn"} \/ node'[Own] = "off"
                   /\ at = "over" => ~ Running(Own)'
      BY <1>2, <2>2, SMT DEF NodesOK, SmokeIsItsOwn, Running
  <2> QED BY <1>1, <2>1, <2>2, <2>3, AgesKeep, Zenon
<1>4. ASSUME NEW n \in Nodes, StartNode(n), Smoking => n # Own PROVE IndInv'
  <2>1. NodesOK' /\ Ages
      BY <1>1, <1>2, <1>4, Starts, Zenon
  <2>2. serves' = serves /\ node' = [node EXCEPT ![n] = "starting"]
      BY <1>4, Zenon DEF StartNode, Becomes
  <2>3. Smoking => /\ node[Own] = "off" => at \notin {"port", "spawn"} \/ node'[Own] = "off"
                   /\ at = "over" => ~ Running(Own)'
      BY <1>2, <1>4, <2>2, SMT DEF NodesOK, SmokeIsItsOwn, Running
  <2> QED BY <1>1, <2>1, <2>2, <2>3, AgesKeep, Zenon
<1>5. ASSUME program = "client", Swap PROVE IndInv'
  <2>1. NodesOK' /\ Ages
      BY <1>1, <1>2, <1>5, Swaps, Zenon
  <2>2. serves' = serves
      BY <1>5, Zenon DEF Swap
  <2>3. ~ Smoking
      BY <1>5, SMT
  <2> QED BY <1>1, <2>1, <2>2, <2>3, AgesKeep, Zenon
<1> QED BY <1>3, <1>4, <1>5, Zenon DEF Host, NodeStep

-----------------------------------------------------------------------------
(* A call.                                                                 *)

Callers == <<clientVars, fixed, result, heard>>

(* A step of a call that moves no node, and stays in the call.              *)
LEMMA CallGoesOn ==
    ASSUME IndInv, UNCHANGED Callers, UNCHANGED nodeVars,
           UNCHANGED <<method, auth, outcome, answered, begunUnder, stopped>>,
           pc' # "idle", pc # "idle", CookieOK', BegunOK'
    PROVE  IndInv'
<1>1. GivenOK' /\ NodesOK'
    BY SMT DEF IndInv, GivenOK, NodesOK, Callers, clientVars, fixed, nodeVars
<1>2. OutcomeOK'
    BY SMT DEF IndInv, OutcomeOK, Callers, fixed, nodeVars, RejectedOnlyIfReplaced
<1>3. PlacesOK' /\ ScriptOK' /\ HeardOK'
    BY SMT DEF IndInv, PlacesOK, ScriptOK, HeardOK, Checking, Callers, clientVars, fixed, nodeVars,
               AuthOf, NoSuchSignet
<1>4. VerdictIsTrue' /\ SmokeIsItsOwn'
    BY SMT DEF IndInv, VerdictIsTrue, IsOn, Wanted, SmokeIsItsOwn, Running, Callers,
               clientVars, fixed, nodeVars
<1> QED BY <1>1, <1>2, <1>3, <1>4, Zenon DEF IndInv

(* The end of a call.  What `Executes` does to the nodes, it does before.   *)
LEMMA CallEnds ==
    ASSUME IndInv, UNCHANGED Callers, NEW o, NEW n, Ends(o, n), NodesOK', Ages, serves' = serves,
           Smoking => /\ Running(Own)' => Running(Own)
                      /\ node[Own] = "off" => node'[Own] = "off"
                      /\ stopped' \subseteq {Own},
           o \in {"result", "unauthorized"} => n \in Nodes,
           o = "unauthorized" /\ auth = "cookie" => n # begunUnder,
           Smoking => /\ o = "result" /\ auth # "none" =>
                            n = Own /\ heard \subseteq {Own} /\ node'[Own] \in Wrote
                      /\ o = "unauthorized" /\ auth = "cookie" => node'[Own] = "gone"
                      /\ Checking /\ n \in Nodes => n = Own \/ node'[Own] = "gone"
    PROVE  IndInv'
<1> USE HostAssumption DEF HostAssumption
<1>1. GivenOK'
    BY SMT DEF IndInv, GivenOK, Callers, clientVars, fixed
<1>2. CookieOK'
    BY NodesAssumption,
       SMT DEF IndInv, CookieOK, Ages, Ends, Callers, fixed, ReadsNeverBlock, NodesAssumption
<1>3. BegunOK' /\ OutcomeOK'
    BY SMT DEF IndInv, BegunOK, OutcomeOK, Ends, Callers, fixed, RejectedOnlyIfReplaced
<1>4. PlacesOK' /\ ScriptOK'
    BY SMT DEF IndInv, PlacesOK, ScriptOK, Ends, Callers, clientVars, fixed, AuthOf, NoSuchSignet
<1>5. HeardOK'
    BY SMT DEF IndInv, HeardOK, Checking, Ages, Ends, Callers, clientVars, fixed
<1>6. VerdictIsTrue'
    BY SMT DEF IndInv, VerdictIsTrue, IsOn, Wanted, Callers, clientVars, fixed
<1>7. SmokeIsItsOwn'
    BY SMT DEF IndInv, SmokeIsItsOwn, Ages, Callers, clientVars, fixed
<1> QED BY <1>1, <1>2, <1>3, <1>4, <1>5, <1>6, <1>7, Zenon DEF IndInv

LEMMA EndsUnsentKeeps ==
    ASSUME IndInv, UNCHANGED Callers, NEW o, o \notin {"result", "unauthorized"}, EndsUnsent(o)
    PROVE  IndInv'
<1>1. UNCHANGED nodeVars /\ program' = program /\ stopped' = stopped /\ Ends(o, NoNode)
    BY Zenon DEF EndsUnsent, Callers, fixed
<1>2. NodesOK' /\ Ages
    BY <1>1, NodesUnchanged, Zenon DEF IndInv
<1>3. Smoking => stopped' \subseteq {Own}
    BY <1>1, Zenon DEF IndInv, SmokeIsItsOwn
<1>4. /\ Running(Own)' => Running(Own)
      /\ node[Own] = "off" => node'[Own] = "off"
      /\ serves' = serves
    BY <1>1, SMT DEF nodeVars, Running
<1> QED BY <1>1, <1>2, <1>3, <1>4, NodesAssumption, CallEnds, SMT DEF NodesAssumption

LEMMA BuildKeeps == ASSUME IndInv, UNCHANGED Callers, Build \/ OtherThread PROVE IndInv'
<1>1. UNCHANGED <<nodeVars, callVars, stopped>> /\ pc # "idle"
    BY SMT DEF Build, OtherThread
<1>2. CookieOK' /\ BegunOK'
    BY <1>1, SMT DEF IndInv, CookieOK, BegunOK, ReadsNeverBlock, nodeVars, callVars, Callers, fixed
<1>3. UNCHANGED <<method, auth, outcome, answered, begunUnder, stopped>> /\ pc' # "idle"
    BY <1>1, SMT DEF callVars
<1> QED BY <1>1, <1>2, <1>3, CallGoesOn, Zenon

LEMMA AuthHeaderKeeps == ASSUME IndInv, UNCHANGED Callers, AuthHeader PROVE IndInv'
<1>1. /\ UNCHANGED nodeVars /\ UNCHANGED <<method, auth, outcome, answered, begunUnder, stopped>>
      /\ pc = "build" /\ pc' = IF auth = "user" THEN "send" ELSE "open"
      /\ credential' = NoNode /\ fd' = fd
    BY Zenon DEF AuthHeader, Goes
<1>2. CookieOK' /\ BegunOK'
    BY <1>1, NodesAssumption, SMT DEF IndInv, CookieOK, BegunOK, ReadsNeverBlock, nodeVars,
       Callers, fixed, NodesAssumption
<1> QED BY <1>1, <1>2, CallGoesOn, SMT

LEMMA OpenCookieKeeps == ASSUME IndInv, UNCHANGED Callers, OpenCookie PROVE IndInv'
<1>1. CASE Goes("judge") /\ fd' = file /\ UNCHANGED credential
  <2>1. /\ UNCHANGED nodeVars /\ UNCHANGED <<method, auth, outcome, answered, begunUnder, stopped>>
        /\ pc = "open" /\ pc' = "judge" /\ credential' = credential /\ fd' = file
      BY <1>1, Zenon DEF OpenCookie, Goes
  <2>2. CookieOK' /\ BegunOK'
      BY <2>1, SMT DEF IndInv, CookieOK, BegunOK, NodesOK, ReadsNeverBlock, nodeVars,
         Callers, fixed
  <2> QED BY <2>1, <2>2, CallGoesOn, SMT
<1>2. "no cookie" \notin {"result", "unauthorized"} /\ "fetch" \notin {"result", "unauthorized"}
    BY SMT
<1> QED BY <1>1, <1>2, EndsUnsentKeeps, Zenon DEF OpenCookie

LEMMA JudgeCookieKeeps == ASSUME IndInv, UNCHANGED Callers, JudgeCookie PROVE IndInv'
<1>1. CASE Regular /\ Goes("read") /\ UNCHANGED <<fd, credential>>
  <2>1. /\ UNCHANGED nodeVars /\ UNCHANGED <<method, auth, outcome, answered, begunUnder, stopped>>
        /\ pc = "judge" /\ pc' = "read" /\ credential' = credential /\ fd' = fd
        /\ fd # "special"
      BY <1>1, Zenon DEF JudgeCookie, Goes, Regular
  <2>2. CookieOK' /\ BegunOK'
      BY <2>1, SMT DEF IndInv, CookieOK, BegunOK, ReadsNeverBlock, nodeVars, Callers, fixed
  <2> QED BY <2>1, <2>2, CallGoesOn, SMT
<1>2. "fetch" \notin {"result", "unauthorized"}
    BY SMT
<1> QED BY <1>1, <1>2, EndsUnsentKeeps, Zenon DEF JudgeCookie

LEMMA ReadCookieKeeps == ASSUME IndInv, UNCHANGED Callers, ReadCookie PROVE IndInv'
<1>1. CASE fd \in Nodes /\ Goes("send") /\ credential' = fd /\ UNCHANGED fd
  <2>1. /\ UNCHANGED nodeVars /\ UNCHANGED <<method, auth, outcome, answered, begunUnder, stopped>>
        /\ pc = "read" /\ pc' = "send" /\ credential' = fd /\ fd' = fd /\ fd \in Nodes
      BY <1>1, Zenon DEF ReadCookie, Goes
  <2>2. CookieOK' /\ BegunOK'
      BY <2>1, NodesAssumption, SMT DEF IndInv, CookieOK, BegunOK, ReadsNeverBlock, nodeVars,
         Callers, fixed, NodesAssumption
  <2> QED BY <2>1, <2>2, CallGoesOn, SMT
<1>2. "fetch" \notin {"result", "unauthorized"}
    BY SMT
<1> QED BY <1>1, <1>2, EndsUnsentKeeps, Zenon DEF ReadCookie

LEMMA RefusesKeeps == ASSUME IndInv, UNCHANGED Callers, Refuses PROVE IndInv'
<1>1. "refused" \notin {"result", "unauthorized"}
    BY SMT
<1> QED BY <1>1, EndsUnsentKeeps, Zenon DEF Refuses

(* Who answers is who holds the port.                                      *)
LEMMA AnswersKeep ==
    ASSUME IndInv, UNCHANGED Callers, NEW n \in Nodes, port = n, pc = "send", Answers(n)
    PROVE  IndInv'
<1> USE HostAssumption DEF HostAssumption
<1>1. /\ GivenOK /\ NodesOK /\ CookieOK /\ BegunOK /\ SmokeIsItsOwn /\ HeardOK
      /\ program' = program
    BY Zenon DEF IndInv, Callers, fixed
<1>2. "fetch" \notin {"result", "unauthorized"} /\ "http" # "unauthorized" /\ "http" # "result"
      /\ "fetch" # "unauthorized" /\ "result" # "unauthorized" /\ "fetch" # "result"
    BY SMT
<1>3. Authorized(n) /\ auth # "none" /\ Smoking => n = Own
    BY <1>1, NodesAssumption, SMT DEF GivenOK, CookieOK, Authorized, NodesAssumption
<1>4. Smoking /\ n = Own /\ node[n] # "gone" => heard \subseteq {Own}
    BY <1>1, SMT DEF HeardOK
<1>5. Smoking /\ Checking => n = Own \/ node[Own] = "gone"
    BY <1>1, SMT DEF HeardOK, NodesOK
<1>6. method = "stop" => auth # "none"
    BY <1>1, SMT DEF CookieOK
<1>7. ASSUME UNCHANGED <<nodeVars, stopped>>, NEW o, Ends(o, n),
             o = "unauthorized" => ~ Authorized(n) /\ node[n] # "gone" /\ node[n] \in Holds,
             o = "result" => Authorized(n) /\ node[n] \in {"warming", "up"}
      PROVE  IndInv'
  <2>1. NodesOK' /\ Ages
      BY <1>1, <1>7, NodesUnchanged, Zenon
  <2>2. /\ serves' = serves
        /\ Smoking => /\ Running(Own)' => Running(Own)
                      /\ node[Own] = "off" => node'[Own] = "off"
                      /\ stopped' \subseteq {Own}
      BY <1>1, <1>7, SMT DEF nodeVars, Running, SmokeIsItsOwn
  <2>3. ASSUME o = "unauthorized", auth = "cookie"
        PROVE  n # begunUnder /\ (Smoking => node'[Own] = "gone")
    <3>1. credential \in Nodes /\ credential # n /\ node[n] # "gone" /\ node' = node
        BY <1>1, <1>7, <2>3, SMT DEF CookieOK, Authorized, nodeVars
    <3>2. n # begunUnder
        BY <1>1, <2>3, <3>1, SMT DEF BegunOK
    <3>3. Smoking => node[Own] = "gone"
        BY <1>1, <3>1, NodesAssumption, SMT DEF CookieOK, NodesOK, NodesAssumption
    <3> QED BY <3>1, <3>2, <3>3, Zenon
  <2>4. o = "result" /\ auth # "none" /\ Smoking =>
            n = Own /\ heard \subseteq {Own} /\ node'[Own] \in Wrote
      BY <1>7, <1>3, <1>4, SMT DEF nodeVars
  <2>5. Smoking /\ Checking => n = Own \/ node'[Own] = "gone"
      BY <1>7, <1>5, SMT DEF nodeVars
  <2> HIDE DEF Smoking, HostAssumption
  <2> QED BY <1>7, <2>1, <2>2, <2>3, <2>4, <2>5, CallEnds, SMT
<1>8. CASE node[n] \in {"warming", "up"} /\ ~ Authorized(n)
  <2>1. UNCHANGED <<nodeVars, stopped>> /\ Ends("unauthorized", n)
      BY <1>8, SMT DEF Answers
  <2>2. node[n] # "gone" /\ node[n] \in Holds
      BY <1>8, SMT
  <2> QED BY <1>2, <1>7, <1>8, <2>1, <2>2, Zenon
<1>9. CASE node[n] = "warming" /\ Authorized(n)
  <2>1. UNCHANGED <<nodeVars, stopped>> /\ Ends(Unready, n)
      BY <1>9, SMT DEF Answers
  <2>2. Unready # "unauthorized" /\ node[n] \in Holds
      BY <1>9, SMT DEF Unready
  <2> QED BY <1>7, <1>9, <2>1, <2>2, Zenon
<1>10. CASE node[n] = "up" /\ Authorized(n)
  <2>1. (\E o \in {"result", "fetch"} : Ends(o, n)) /\ Executes(n)
      BY <1>10, SMT DEF Answers
  <2>2. CASE method # "stop"
    <3>1. UNCHANGED <<nodeVars, stopped>>
        BY <2>1, <2>2, SMT DEF Executes
    <3> QED BY <1>2, <1>7, <1>10, <2>1, <3>1, SMT
  <2>3. CASE method = "stop"
    <3>1. /\ Becomes(n, "stopping") /\ stopped' = stopped \cup {n}
          /\ UNCHANGED <<port, file, program>> /\ serves' = serves
        BY <1>1, <2>1, <2>3, SMT DEF Executes
    <3>2. NodesOK' /\ Ages
        BY <1>1, <1>10, <3>1, Stops, Zenon
    <3>3. Smoking => n = Own
        BY <1>10, <2>3, <1>3, <1>6, Zenon
    <3>5. Smoking /\ n = Own => heard \subseteq {Own} /\ node'[Own] \in Wrote
        BY <1>1, <1>10, <1>4, <3>1, SMT DEF Becomes, NodesOK
    <3>4. Smoking => /\ Running(Own)' => Running(Own)
                     /\ node[Own] = "off" => node'[Own] = "off"
                     /\ stopped' \subseteq {Own}
        BY <1>1, <1>10, <3>1, <3>3, SMT DEF Running, SmokeIsItsOwn, Becomes, NodesOK
    <3> HIDE DEF Smoking, HostAssumption
    <3> QED BY <1>2, <2>1, <3>1, <3>2, <3>3, <3>4, <3>5, CallEnds, SMT
  <2> QED BY <2>2, <2>3, Zenon
<1>11. CASE EndsUnsent("fetch")
    BY <1>2, <1>11, EndsUnsentKeeps, Zenon
<1> QED BY <1>8, <1>9, <1>10, <1>11, SMT DEF Answers

LEMMA ExchangeKeeps == ASSUME IndInv, UNCHANGED Callers, Exchange PROVE IndInv'
<1>1. "fetch" \notin {"result", "unauthorized"} /\ "http" \notin {"result", "unauthorized"}
    BY SMT
<1>2. ASSUME port \in Nodes, Answers(port) PROVE IndInv'
    BY <1>2, AnswersKeep, Zenon DEF Exchange
<1> QED BY <1>1, <1>2, EndsUnsentKeeps, Zenon DEF Exchange

LEMMA CalledKeeps == ASSUME IndInv, Called PROVE IndInv'
<1>1. UNCHANGED Callers
    BY Zenon DEF Called, Callers
<1> QED BY <1>1, BuildKeeps, RefusesKeeps, AuthHeaderKeeps, OpenCookieKeeps, JudgeCookieKeeps,
           ReadCookieKeeps, ExchangeKeeps, Zenon DEF Called, CallStep

-----------------------------------------------------------------------------
(* What assert_chain makes of a reply.                                     *)

LEMMA VerdictTrue ==
    ASSUME GivenOK, NEW n \in Nodes, ~ NoSuchSignet(args)
    PROVE  /\ AssertChainInfo(args, serves[n]) = "accepted" => IsOn(n, args)
           /\ AssertChainInfo(args, serves[n]) = "disagrees" => ~ IsOn(n, args)
<1> DEFINE s == serves[n]
           Same == Magic(ScriptOf[s.challenge]) = ExpectedMagic(args)
<1>1. args \in Arguments /\ s \in Service /\ Reports(s, network[n])
    BY Zenon DEF GivenOK
<1>2. /\ AssertChainInfo(args, s) = "accepted" =>
            /\ s.chain = args.chain /\ ~ Unreadable(s, ExpectedMagic(args))
            /\ ExpectedMagic(args) # NoMagic => Same
      /\ AssertChainInfo(args, s) = "disagrees" =>
            \/ s.chain # args.chain
            \/ /\ ExpectedMagic(args) # NoMagic /\ ~ Same
               /\ ~ Unreadable(s, ExpectedMagic(args))
    BY SMT DEF AssertChainInfo, Unreadable
<1>3. \A x, y : Magic(x) = Magic(y) <=> x = y
    BY SMT DEF Magic
<1>4. \A x : Magic(x) # NoMagic
    BY SMT DEF Magic, NoMagic
<1>5. ASSUME args.chain = "signet"
      PROVE  ExpectedMagic(args) = Magic(Wanted(args)) /\ Wanted(args) # NoScript
  <2>1. DefaultScript # NoScript
      BY TextsAssumption, SMT DEF TextsAssumption
  <2>2. args.challenge # NoText => ScriptOf[args.challenge] # NoScript
      BY <1>5, Zenon DEF NoSuchSignet
  <2> QED BY <1>5, <2>1, <2>2, Zenon DEF ExpectedMagic, Wanted, DefaultMagic
<1>6. ASSUME args.chain = "signet", ~ Unreadable(s, ExpectedMagic(args))
      PROVE  ScriptOf[s.challenge] = network[n] /\ (Same <=> network[n] = Wanted(args))
  <2>1. s.challenge # NoText /\ ScriptOf[s.challenge] # NoScript
      BY <1>4, <1>5, <1>6, Zenon DEF Unreadable
  <2>2. ScriptOf[s.challenge] = network[n]
      BY <1>1, <2>1, Zenon DEF Reports
  <2> QED BY <1>3, <1>5, <1>6, <2>2, Zenon
<1>7. args.chain # "signet" => ExpectedMagic(args) = NoMagic
    BY Zenon DEF ExpectedMagic
<1>8. IsOn(n, args) <=> s.chain = args.chain /\ (args.chain = "signet" => network[n] = Wanted(args))
    BY Zenon DEF IsOn
<1> HIDE DEF s, Same
<1>9. args.chain = "signet" => ExpectedMagic(args) # NoMagic
    BY <1>4, <1>5, Zenon
<1> QED BY <1>2, <1>6, <1>7, <1>8, <1>9, Zenon DEF s

(* A program heard the answer it asked for, or raises.                      *)
LEMMA ConcludesTruly ==
    ASSUME IndInv, Concludes, ~ NoSuchSignet(args), UNCHANGED <<serves, network, args>>
    PROVE  VerdictIsTrue'
<1>1. GivenOK /\ OutcomeOK
    BY Zenon DEF IndInv
<1>2. CASE outcome = "result"
  <2>1. answered \in Nodes /\ verified' = answered
        /\ verdict' = AssertChainInfo(args, serves[answered])
      BY <1>1, <1>2, Zenon DEF OutcomeOK, Concludes
  <2>2. \A n : IsOn(n, args)' <=> IsOn(n, args)
      BY Zenon DEF IsOn, Wanted
  <2> QED BY <1>1, <2>1, <2>2, VerdictTrue, Zenon DEF VerdictIsTrue
<1>3. CASE outcome # "result"
  <2>1. verdict' = "none" /\ "none" # "accepted" /\ "none" # "disagrees"
      BY <1>3, SMT DEF Concludes
  <2> QED BY <2>1, Zenon DEF VerdictIsTrue
<1> QED BY <1>2, <1>3, Zenon

-----------------------------------------------------------------------------
(* The programs.                                                           *)

CallOK == GivenOK /\ NodesOK /\ CookieOK /\ BegunOK /\ OutcomeOK

LEMMA StillKeeps ==
    ASSUME IndInv, UNCHANGED <<fixed, args>>, Still
    PROVE  CallOK' /\ UNCHANGED <<nodeVars, stopped, pc, method, auth, outcome, answered>>
<1>1. program' = program /\ UNCHANGED <<nodeVars, callVars, serves, stopped>>
    BY SMT DEF Still, nodeVars, fixed
<1>2. NodesOK' /\ Ages
    BY <1>1, NodesUnchanged, Zenon DEF IndInv
<1>3. UNCHANGED <<callVars, fixed, serves, args>>
    BY <1>1, Zenon
<1>4. UNCHANGED <<pc, method, auth, outcome, answered>>
    BY <1>1, Zenon DEF callVars
<1> QED BY <1>1, <1>2, <1>3, <1>4, AgesCall, Zenon DEF CallOK

LEMMA AskKeeps ==
    ASSUME IndInv, UNCHANGED <<fixed, args>>, NEW m, NEW a \in {"cookie", "user"}, NEW r,
           Ask(m, a, r)
    PROVE  /\ CallOK' /\ UNCHANGED <<nodeVars, stopped>>
           /\ method' = m /\ auth' = (IF m = "rest" THEN "none" ELSE a)
           /\ outcome' = "none" /\ answered' = NoNode
           /\ waits = "no" /\ waits' = "yes"
<1>1. /\ UNCHANGED <<nodeVars, fd, credential, stopped>> /\ program' = program
      /\ method' = m /\ auth' = (IF m = "rest" THEN "none" ELSE a)
      /\ waits = "no" /\ waits' = "yes"
      /\ outcome' = "none" /\ answered' = NoNode /\ begunUnder' = Serving
      /\ pc = "idle" /\ pc' = IF m = "rest" THEN "send" ELSE "build"
    BY Zenon DEF Ask, BeginCall, fixed
<1>2. NodesOK' /\ Ages
    BY <1>1, NodesUnchanged, Zenon DEF IndInv
<1>3. GivenOK'
    BY <1>1, SMT DEF IndInv, GivenOK, fixed, nodeVars
<1>4. CookieOK'
    BY <1>1, SMT DEF IndInv, CookieOK, ReadsNeverBlock, nodeVars, fixed
<1>5. BegunOK'
    BY <1>1, NodesAssumption, SMT DEF IndInv, BegunOK, Serving, nodeVars, NodesAssumption
<1>6. OutcomeOK'
    BY <1>1, SMT DEF IndInv, OutcomeOK, RejectedOnlyIfReplaced, fixed
<1> QED BY <1>1, <1>2, <1>3, <1>4, <1>5, <1>6, Zenon DEF CallOK

(* A place a program goes to, and what it knows by then.                    *)
LEMMA PlacesKeep ==
    ASSUME IndInv, CallOK', PlacesOK', ScriptOK', HeardOK', VerdictIsTrue', SmokeIsItsOwn'
    PROVE  IndInv'
BY Zenon DEF IndInv, CallOK

Asks == \E m, r : \E a \in {"cookie", "user"} : Ask(m, a, r)

LEMMA VerdictKept ==
    ASSUME IndInv, UNCHANGED <<serves, network, args, verdict, verified>>
    PROVE  VerdictIsTrue'
BY SMT DEF IndInv, VerdictIsTrue, IsOn, Wanted

LEMMA FromChainKeeps ==
    ASSUME IndInv, FromChain, UNCHANGED fixed, UNCHANGED result
    PROVE  IndInv'
<1>1. /\ UNCHANGED <<fixed, args, network>> /\ UNCHANGED <<program, args, verdict, verified, result>>
      /\ at = "new"
    BY SMT DEF FromChain, fixed
<1>2. \/ at' = "over" /\ Still /\ waits' = waits
      \/ at' = "ready" /\ Still /\ waits' = waits /\ ~ NoSuchSignet(args)
      \/ at' = "verify" /\ ~ NoSuchSignet(args)
         /\ \E m : \E a \in {"cookie", "user"} : Ask(m, a, <<>>)
  <2>1. args.verify = "no" /\ ~ NothingToCompare(args) => ~ NoSuchSignet(args)
      BY Zenon DEF NothingToCompare, NoSuchSignet
  <2>2. Caller \in {"cookie", "user"}
      BY SMT DEF Caller
  <2> QED BY <2>1, <2>2, Zenon DEF FromChain
<1>3. CallOK' /\ UNCHANGED nodeVars
    BY <1>1, <1>2, StillKeeps, AskKeeps, Zenon
<1>4. PlacesOK' /\ ScriptOK' /\ HeardOK' /\ SmokeIsItsOwn'
  <2>1. ~ Smoking /\ ~ Smoking'
      BY <1>1, CheckNames, SMT DEF IndInv, PlacesOK
  <2>2. NoSuchSignet(args)' <=> NoSuchSignet(args)
      BY <1>1, Zenon DEF NoSuchSignet
  <2>3. PlacesOK'
      BY <1>2, <2>1, <2>2, CheckNames, SMT DEF PlacesOK
  <2> QED BY <2>1, <2>3, Zenon DEF ScriptOK, HeardOK, SmokeIsItsOwn
<1>5. VerdictIsTrue'
  <2>1. UNCHANGED <<serves, network, args, verdict, verified>>
      BY <1>1, <1>3, SMT DEF nodeVars
  <2> QED BY <2>1, VerdictKept, Zenon
<1> QED BY <1>3, <1>4, <1>5, PlacesKeep, Zenon

LEMMA ReadyKeeps ==
    ASSUME IndInv, (\E r : Calls(r)) \/ AsksAgain, UNCHANGED fixed, UNCHANGED result
    PROVE  IndInv'
<1>1. /\ UNCHANGED <<fixed, args, network>> /\ UNCHANGED <<program, args, verdict, verified, result>>
      /\ at = "ready" /\ at' = "ready"
    BY SMT DEF Calls, AsksAgain, fixed
<1>2. \E m, r : \E a \in {"cookie", "user"} :
          Ask(m, a, r) /\ (m \in {"chain", "rest"} => ~ NoSuchSignet(args))
  <2>1. CASE AsksAgain
      BY <2>1, Zenon DEF AsksAgain, Caller
  <2>2. CASE \E r : Calls(r)
    <3>1. \A m \in {"call", "raw"} : m \notin {"chain", "rest"}
        BY SMT
    <3> QED BY <2>2, <3>1, Zenon DEF Calls, Caller
  <2> QED BY <2>1, <2>2, Zenon
<1>3. CallOK' /\ UNCHANGED nodeVars /\ (method' \in {"chain", "rest"} => ~ NoSuchSignet(args))
    BY <1>1, <1>2, AskKeeps, Zenon
<1>4. PlacesOK' /\ ScriptOK' /\ HeardOK' /\ SmokeIsItsOwn'
  <2>1. ~ Smoking /\ ~ Smoking'
      BY <1>1, CheckNames, SMT DEF IndInv, PlacesOK
  <2>2. NoSuchSignet(args)' <=> NoSuchSignet(args)
      BY <1>1, Zenon DEF NoSuchSignet
  <2>3. PlacesOK'
      BY <1>1, <1>3, <2>1, <2>2, CheckNames, SMT DEF PlacesOK
  <2> QED BY <2>1, <2>3, Zenon DEF ScriptOK, HeardOK, SmokeIsItsOwn
<1>5. VerdictIsTrue'
  <2>1. UNCHANGED <<serves, network, args, verdict, verified>>
      BY <1>1, <1>3, SMT DEF nodeVars
  <2> QED BY <2>1, VerdictKept, Zenon
<1> QED BY <1>3, <1>4, <1>5, PlacesKeep, Zenon

LEMMA HearsKeeps ==
    ASSUME IndInv, Verified \/ Returns, UNCHANGED fixed, UNCHANGED result
    PROVE  IndInv'
<1>1. /\ UNCHANGED <<fixed, args>> /\ UNCHANGED <<network, program>> /\ Still
      /\ at \in {"verify", "ready"} /\ at' \in {"ready", "over"} /\ waits' = "no"
      /\ waits = "yes"
    BY SMT DEF Verified, Returns, Heard, fixed
<1>2. CallOK' /\ serves' = serves
    BY <1>1, StillKeeps, SMT DEF nodeVars
<1>3. PlacesOK' /\ ScriptOK' /\ HeardOK' /\ SmokeIsItsOwn'
  <2>1. ~ Smoking /\ ~ Smoking'
      BY <1>1, CheckNames, SMT DEF IndInv, PlacesOK
  <2>2. PlacesOK'
      BY <1>1, <2>1, CheckNames, SMT DEF PlacesOK
  <2> QED BY <2>1, <2>2, Zenon DEF ScriptOK, HeardOK, SmokeIsItsOwn
<1>4. UNCHANGED <<serves, network, args>>
    BY <1>1, <1>2, Zenon
<1>5. \/ Concludes /\ ~ NoSuchSignet(args)
      \/ UNCHANGED <<verdict, verified>>
    BY <1>1, SMT DEF Verified, Returns, IndInv, PlacesOK
<1>6. VerdictIsTrue'
    BY <1>4, <1>5, ConcludesTruly, VerdictKept, Zenon
<1> QED BY <1>2, <1>3, <1>6, PlacesKeep, Zenon

-----------------------------------------------------------------------------
(* The script.                                                             *)

Places == Checks \cup {"port", "spawn", "poll", "cookie", "stop", "waiting", "over"}

LEMMA StaysOrAsks ==
    ASSUME IndInv, UNCHANGED fixed, UNCHANGED args, Still \/ Asks
    PROVE  CallOK' /\ UNCHANGED <<node, stopped, program, serves, network>>
<1>1. UNCHANGED <<fixed, args>> /\ UNCHANGED <<program, network>>
    BY SMT DEF fixed
<1>2. CallOK' /\ UNCHANGED <<nodeVars, stopped>>
    BY <1>1, StillKeeps, AskKeeps, Zenon DEF Asks
<1> QED BY <1>1, <1>2, Zenon DEF nodeVars

(* Where nothing is heard, what was heard stays true.                       *)
LEMMA HeardStays ==
    ASSUME IndInv, UNCHANGED fixed, UNCHANGED args, Still \/ Asks, heard' = heard,
           Checking' => Checking
    PROVE  HeardOK'
<1>1. UNCHANGED <<fixed, args>> /\ HeardOK
    BY Zenon DEF fixed, IndInv
<1>2. UNCHANGED <<node, program>>
    BY StaysOrAsks, Zenon
<1>3. UNCHANGED <<outcome, answered, auth>> \/ (outcome' = "none" /\ answered' = NoNode)
    BY <1>1, StillKeeps, AskKeeps, Zenon DEF Asks
<1> QED BY <1>1, <1>2, <1>3, NodesAssumption, SMT DEF HeardOK, NodesAssumption

(* A step that moves no node keeps what is known of the program, if it      *)
(* keeps this.                                                             *)
LEMMA StepKeeps ==
    ASSUME IndInv, Smoking, UNCHANGED fixed, UNCHANGED args, Still \/ Asks,
           VerdictIsTrue' \/ UNCHANGED <<verdict, verified>>,
           at' \in Places,
           waits' = "yes" /\ at' \in Checks => auth' = AuthOf(at'),
           waits' = "yes" /\ at' = "poll" => auth' = "cookie",
           at' \in {"port", "spawn", "cookie"} => waits' = "no",
           at' \in {"port", "spawn"} => node[Own] = "off",
           result' # "none" => at' \in {"stop", "waiting", "over"},
           at' = "over" => ~ Running(Own),
           HeardOK',
           result' = "passed" => heard' = {Own},
           result' = "credential" => node[Own] = "gone"
    PROVE  IndInv'
<1>1. CallOK' /\ UNCHANGED <<node, stopped, program, serves, network>>
    BY StaysOrAsks, Zenon
<1>2. at' \notin {"verify", "ready"}
    BY CheckNames, SMT DEF Places
<1>3. PlacesOK'
    BY <1>1, <1>2, SMT DEF PlacesOK, Places, AuthOf
<1>4. ScriptOK'
    BY <1>1, SMT DEF ScriptOK
<1>5. SmokeIsItsOwn'
    BY <1>1, SMT DEF IndInv, SmokeIsItsOwn, Running
<1>6. VerdictIsTrue'
  <2>1. UNCHANGED <<serves, network, args>>
      BY <1>1, Zenon
  <2> QED BY <2>1, VerdictKept, Zenon
<1> QED BY <1>1, <1>3, <1>4, <1>5, <1>6, PlacesKeep, Zenon

LEMMA SmokeKnows ==
    ASSUME IndInv, at \in Places \ {"over"}
    PROVE  /\ Smoking /\ ScriptOK /\ PlacesOK /\ SmokeIsItsOwn /\ OutcomeOK /\ GivenOK
           /\ HeardOK /\ ~ NoSuchSignet(args)
<1>1. ScriptOK /\ PlacesOK /\ SmokeIsItsOwn /\ OutcomeOK /\ GivenOK /\ HeardOK
    BY Zenon DEF IndInv
<1>2. Smoking
    BY <1>1, CheckNames, SMT DEF PlacesOK, Places
<1> QED BY <1>1, <1>2, Zenon DEF GivenOK, NoSuchSignet

LEMMA PortIsFreeKeeps == ASSUME IndInv, UNCHANGED fixed, PortIsFree, heard' = heard PROVE IndInv'
<1>1. /\ at = "port" /\ Still /\ waits' = waits /\ UNCHANGED args /\ UNCHANGED <<verdict, verified>>
      /\ \/ at' = "spawn" /\ result' = result
         \/ at' = "over" /\ result' = "failed"
    BY Zenon DEF PortIsFree, Quietly, Moves
<1>2. at \in Places \ {"over"} /\ at' \notin Checks /\ ~ Checking'
    BY <1>1, CheckNames, SMT DEF Places, Checking
<1>3. Smoking /\ ScriptOK /\ PlacesOK /\ SmokeIsItsOwn /\ HeardOK'
    BY <1>1, <1>2, SmokeKnows, HeardStays, Zenon
<1>4. node[Own] = "off" /\ result = "none" /\ waits = "no"
    BY <1>1, <1>3, SMT DEF ScriptOK, PlacesOK
<1> HIDE DEF Smoking
<1> QED BY <1>1, <1>2, <1>3, <1>4, StepKeeps, SMT DEF Places, Running

LEMMA SpawnKeeps == ASSUME IndInv, UNCHANGED fixed, Spawn, heard' = heard PROVE IndInv'
<1> USE HostAssumption DEF HostAssumption
<1>1. /\ at = "spawn" /\ at' = "poll" /\ StartNode(Own) /\ UNCHANGED <<callVars, args>>
      /\ UNCHANGED <<verdict, verified, stopped, waits, result, program, network, method>>
      /\ UNCHANGED <<outcome, answered, auth>>
    BY SMT DEF Spawn, Moves, callVars, fixed
<1>2. at \in Places \ {"over"} /\ at' \notin Checks /\ ~ Checking'
    BY <1>1, CheckNames, SMT DEF Places, Checking
<1>3. Smoking /\ ScriptOK /\ PlacesOK /\ SmokeIsItsOwn /\ HeardOK
    BY <1>2, SmokeKnows, Zenon
<1>4. NodesOK' /\ Ages /\ serves' = serves
    BY <1>1, Starts, Zenon DEF IndInv, StartNode
<1>5. CallOK'
    BY <1>1, <1>4, AgesCall, Zenon DEF CallOK
<1>6. waits = "no" /\ result = "none"
    BY <1>1, <1>3, SMT DEF PlacesOK, ScriptOK
<1>7. PlacesOK' /\ ScriptOK' /\ SmokeIsItsOwn'
    BY <1>1, <1>2, <1>3, <1>6, SMT DEF PlacesOK, ScriptOK, SmokeIsItsOwn
<1>8. HeardOK'
    BY <1>1, <1>2, <1>3, <1>4, SMT DEF HeardOK, Ages
<1>9. VerdictIsTrue'
  <2>1. UNCHANGED <<serves, network, args, verdict, verified>>
      BY <1>1, <1>4, Zenon
  <2> QED BY <2>1, VerdictKept, Zenon
<1> QED BY <1>5, <1>7, <1>8, <1>9, PlacesKeep, Zenon

LEMMA PollKeeps == ASSUME IndInv, UNCHANGED fixed, Poll, heard' = heard PROVE IndInv'
<1>1. /\ at = "poll" /\ UNCHANGED args /\ UNCHANGED <<verdict, verified>>
      /\ \/ at' = "stop" /\ result' = "failed" /\ Still
         \/ at' = "poll" /\ result' = result /\ Ask("call", "cookie", <<>>)
    BY Zenon DEF Poll, Quietly, Fails, Moves
<1>2. at \in Places \ {"over"} /\ at' \notin Checks /\ ~ Checking'
    BY <1>1, CheckNames, SMT DEF Places, Checking
<1>3. Smoking /\ ScriptOK /\ result = "none"
    BY <1>1, <1>2, SmokeKnows, SMT DEF ScriptOK
<1>4. Ask("call", "cookie", <<>>) => auth' = "cookie" /\ Asks
  <2>1. "call" # "rest" /\ "cookie" \in {"cookie", "user"}
      BY SMT
  <2> QED BY <2>1, Zenon DEF Ask, BeginCall, Asks
<1>5. HeardOK'
    BY <1>1, <1>2, <1>4, HeardStays, Zenon
<1> HIDE DEF Smoking
<1>6. CASE at' = "stop" /\ result' = "failed" /\ Still
    BY <1>1, <1>2, <1>3, <1>5, <1>6, StepKeeps, SMT DEF Places
<1>7. CASE at' = "poll" /\ result' = result /\ Ask("call", "cookie", <<>>)
    BY <1>1, <1>2, <1>3, <1>4, <1>5, <1>7, StepKeeps, SMT DEF Places
<1> QED BY <1>1, <1>6, <1>7, Zenon

LEMMA PolledKeeps == ASSUME IndInv, UNCHANGED fixed, Polled PROVE IndInv'
<1>1. /\ at = "poll" /\ waits = "yes" /\ waits' = "no" /\ Still
      /\ UNCHANGED args /\ UNCHANGED <<verdict, verified>>
      /\ \/ at' = "version" /\ outcome = "result" /\ result' = result
         \/ at' = "poll" /\ result' = result
         \/ at' = "stop" /\ result' = "credential" /\ outcome = "unauthorized"
      /\ heard' = IF outcome = "result" THEN heard \cup {answered} ELSE heard
    BY SMT DEF Polled, Fails, Moves, Heard
<1>2. at \in Places \ {"over"} /\ at' \in Places
    BY <1>1, CheckNames, SMT DEF Places
<1>3. Smoking /\ ScriptOK /\ PlacesOK /\ OutcomeOK /\ HeardOK
    BY <1>2, SmokeKnows, Zenon
<1>4. auth = "cookie"
    BY <1>1, <1>3, SMT DEF PlacesOK
<1>5. result = "none" /\ (outcome = "unauthorized" => node[Own] = "gone")
    BY <1>1, <1>3, <1>4, SMT DEF ScriptOK, OutcomeOK
<1>6. outcome = "result" =>
          answered = Own /\ heard' \subseteq {Own} /\ node[Own] \in Wrote
    BY <1>1, <1>3, <1>4, SMT DEF OutcomeOK, HeardOK
<1>7. UNCHANGED <<node, program, outcome, answered, auth>>
  <2>1. UNCHANGED <<fixed, args>>
      BY <1>1, Zenon
  <2> QED BY <1>1, <2>1, StaysOrAsks, StillKeeps, Zenon
<1>8. Checking' => outcome = "result"
    BY <1>1, CheckNames, SMT DEF Checking
<1>9. HeardOK'
    BY <1>1, <1>3, <1>6, <1>7, <1>8, SMT DEF HeardOK
<1>10. at' \in Checks \/ at' = "poll" \/ at' = "stop"
    BY <1>1, CheckNames, Zenon
<1> HIDE DEF Smoking
<1> QED BY <1>1, <1>2, <1>3, <1>5, <1>9, <1>10, StepKeeps, SMT

LEMMA CheckKeeps == ASSUME IndInv, UNCHANGED fixed, Check, heard' = heard PROVE IndInv'
<1>1. /\ at \in Checks /\ at' = at /\ result' = result
      /\ Ask(MethodOf[at], IF at = "wrong" THEN "user" ELSE "cookie", <<>>)
      /\ UNCHANGED args /\ UNCHANGED <<verdict, verified>>
    BY Zenon DEF Check, Moves, Checks
<1>2. at \in Places \ {"over"} /\ Checking
    BY <1>1, CheckNames, SMT DEF Places, Checking
<1>3. Smoking /\ ScriptOK /\ result = "none"
    BY <1>1, <1>2, CheckNames, SmokeKnows, SMT DEF ScriptOK
<1>4. Asks /\ auth' = AuthOf(at)
  <2>1. (IF at = "wrong" THEN "user" ELSE "cookie") \in {"cookie", "user"}
      BY SMT
  <2>2. auth' = IF MethodOf[at] = "rest" THEN "none"
                ELSE IF at = "wrong" THEN "user" ELSE "cookie"
      BY <1>1, Zenon DEF Ask, BeginCall
  <2>3. auth' = AuthOf(at)
      BY <2>2, CheckNames, Zenon DEF AuthOf
  <2> QED BY <1>1, <2>1, <2>3, Zenon DEF Asks
<1>5. HeardOK'
    BY <1>1, <1>2, <1>4, HeardStays, Zenon
<1>6. at \notin {"port", "spawn", "poll", "cookie", "over"}
    BY <1>1, CheckNames, SMT
<1> HIDE DEF Smoking
<1> QED BY <1>1, <1>2, <1>3, <1>4, <1>5, <1>6, StepKeeps, SMT

LEMMA CheckCookieKeeps ==
    ASSUME IndInv, UNCHANGED fixed, CheckCookie, heard' = heard
    PROVE  IndInv'
<1>1. /\ at = "cookie" /\ waits' = waits /\ Still
      /\ UNCHANGED args /\ UNCHANGED <<verdict, verified>>
      /\ \/ at' \in {"info", "wrong"} /\ result' = result
         \/ at' = "stop" /\ result' = "failed"
    BY SMT DEF CheckCookie, Fails, Moves, Quietly
<1>2. at \in Places \ {"over"} /\ at' \in Places /\ Checking
      /\ at' \notin {"port", "spawn", "poll", "cookie", "over"}
    BY <1>1, CheckNames, SMT DEF Places, Checking
<1>3. Smoking /\ ScriptOK /\ PlacesOK /\ HeardOK'
    BY <1>1, <1>2, SmokeKnows, HeardStays, Zenon
<1>4. result = "none" /\ waits = "no"
    BY <1>1, <1>3, SMT DEF ScriptOK, PlacesOK
<1> HIDE DEF Smoking
<1> QED BY <1>1, <1>2, <1>3, <1>4, StepKeeps, SMT

LEMMA AskToStopKeeps == ASSUME IndInv, UNCHANGED fixed, AskToStop, heard' = heard PROVE IndInv'
<1>1. /\ at = "stop" /\ at' = at /\ result' = result /\ Ask("stop", "cookie", <<>>)
      /\ UNCHANGED args /\ UNCHANGED <<verdict, verified>>
    BY Zenon DEF AskToStop, Moves
<1>2. at \in Places \ {"over"} /\ at' \notin Checks /\ ~ Checking'
    BY <1>1, CheckNames, SMT DEF Places, Checking
<1>3. Smoking /\ SmokeIsItsOwn
    BY <1>2, SmokeKnows, Zenon
<1>4. Asks
  <2>1. "cookie" \in {"cookie", "user"}
      BY SMT
  <2> QED BY <1>1, <2>1, Zenon DEF Asks
<1>5. /\ result' = "passed" => heard' = {Own}
      /\ result' = "credential" => node[Own] = "gone"
    BY <1>1, <1>3, Zenon DEF SmokeIsItsOwn
<1>6. HeardOK'
    BY <1>1, <1>2, <1>4, HeardStays, Zenon
<1> HIDE DEF Smoking
<1> QED BY <1>1, <1>2, <1>3, <1>4, <1>5, <1>6, StepKeeps, SMT DEF Places

(* A check that passed was answered: by the script's node, if it carried    *)
(* the cookie, and by another only where that node is gone.                 *)
LEMMA PassesKnown ==
    ASSUME IndInv, at \in Checks, waits = "yes", Passes
    PROVE  /\ answered \in Nodes /\ (answered = Own \/ node[Own] = "gone")
           /\ AuthOf(at) = "cookie" => answered = Own /\ heard \subseteq {Own}
           /\ outcome = "result" /\ auth # "none" => answered = Own
<1>1. at \in Places \ {"over"} /\ Checking
    BY CheckNames, SMT DEF Places, Checking
<1>2. Smoking /\ PlacesOK /\ OutcomeOK /\ HeardOK
    BY <1>1, SmokeKnows, Zenon
<1>3. IF at = "wrong" THEN outcome = "unauthorized" ELSE outcome = "result"
    BY SMT DEF Passes, CredentialRefused, NamesChain, ChainIs
<1>4. answered \in Nodes
    BY <1>2, <1>3, SMT DEF OutcomeOK
<1>5. auth = AuthOf(at)
    BY <1>2, Zenon DEF PlacesOK
<1>6. AuthOf("wrong") = "user"
    BY Zenon DEF AuthOf
<1>7. AuthOf(at) = "cookie" => outcome = "result" /\ auth # "none"
    BY <1>3, <1>5, <1>6, SMT
<1> QED BY <1>1, <1>2, <1>4, <1>7, SMT DEF OutcomeOK, HeardOK

LEMMA CheckedKeeps == ASSUME IndInv, UNCHANGED fixed, Checked PROVE IndInv'
<1>1. /\ at \in Checks /\ waits = "yes" /\ waits' = "no" /\ Still /\ UNCHANGED args
      /\ at' = IF Passes THEN After[at] ELSE "stop"
      /\ result' = IF ~ Passes THEN "failed"
                   ELSE IF After[at] = "stop" THEN "passed" ELSE result
      /\ heard' = IF Passes THEN heard \cup {answered} ELSE heard
      /\ Concludes \/ UNCHANGED <<verdict, verified>>
    BY SMT DEF Checked, Heard, Checks
<1>2. at \in Places \ {"over"} /\ Checking
    BY <1>1, CheckNames, SMT DEF Places, Checking
<1>3. /\ Smoking /\ ScriptOK /\ HeardOK /\ ~ NoSuchSignet(args)
    BY <1>2, SmokeKnows, Zenon
<1>4. result = "none"
    BY <1>1, <1>3, CheckNames, SMT DEF ScriptOK
<1>5. UNCHANGED <<node, program, outcome, answered, auth, serves, network>>
  <2>1. UNCHANGED <<fixed, args>>
      BY <1>1, Zenon
  <2> QED BY <1>1, <2>1, StaysOrAsks, StillKeeps, Zenon
<1>6. VerdictIsTrue' \/ UNCHANGED <<verdict, verified>>
    BY <1>1, <1>3, <1>5, ConcludesTruly, Zenon
<1>7. at' \in Checks \cup {"cookie", "stop"}
    BY <1>1, CheckNames, SMT
<1>8. HeardOK'
  <2>1. outcome = "result" /\ auth # "none" => heard' \subseteq {Own}
      BY <1>1, <1>3, PassesKnown, SMT DEF HeardOK
  <2>2. heard' \subseteq {Own} \/ node[Own] = "gone"
      BY <1>1, <1>3, PassesKnown, SMT DEF HeardOK
  <2> QED BY <1>2, <1>3, <1>5, <2>1, <2>2, SMT DEF HeardOK
<1>9. result' = "passed" => heard' = {Own}
  <2>1. ASSUME Passes, After[at] = "stop" PROVE heard' = {Own}
    <3>1. AuthOf(at) = "cookie"
        BY <1>1, <2>1, CheckNames, Zenon DEF AuthOf
    <3>2. answered = Own /\ heard \subseteq {Own}
        BY <1>1, <2>1, <3>1, PassesKnown, Zenon
    <3> QED BY <1>1, <2>1, <3>2, SMT
  <2> QED BY <1>1, <1>4, <2>1, SMT
<1>10. /\ at' \in Places /\ at' \notin {"port", "spawn", "over"}
       /\ result' # "none" => at' = "stop"
       /\ result' # "credential"
    BY <1>1, <1>4, <1>7, CheckNames, SMT DEF Places
<1> HIDE DEF Smoking
<1> QED BY <1>1, <1>3, <1>6, <1>8, <1>9, <1>10, StepKeeps, SMT

(* At the end of stop() the script's node has left or is killed.            *)
LEMMA GetsDownKeeps ==
    ASSUME IndInv, UNCHANGED fixed, AskedToStop \/ Waited, heard' = heard
    PROVE  IndInv'
<1> USE HostAssumption DEF HostAssumption
<1>1. /\ at \in {"stop", "waiting"} /\ UNCHANGED args
      /\ UNCHANGED <<verdict, verified, result, program, network>>
      /\ \/ at' = "waiting" /\ Still
         \/ at' = "over" /\ Still /\ ~ Running(Own)
         \/ at' = "over" /\ Kill
    BY SMT DEF AskedToStop, GetsDown, Waited, Kill, Moves, fixed
<1>2. at \in Places \ {"over"}
    BY <1>1, SMT DEF Places
<1>3. Smoking /\ SmokeIsItsOwn /\ NodesOK /\ HeardOK
    BY <1>2, SmokeKnows, Zenon DEF IndInv
<1>4. ~ Checking /\ ~ Checking' /\ at' \notin Checks
    BY <1>1, CheckNames, SMT DEF Checking
<1>5. /\ result' = "passed" => heard' = {Own}
      /\ result' = "credential" => node[Own] = "gone"
    BY <1>1, <1>3, SMT DEF SmokeIsItsOwn
<1>6. ASSUME Still, at' = "waiting" \/ (at' = "over" /\ ~ Running(Own)) PROVE IndInv'
  <2>1. HeardOK'
      BY <1>1, <1>3, <1>4, <1>6, HeardStays, Zenon
  <2> HIDE DEF Smoking
  <2> QED BY <1>1, <1>3, <1>4, <1>5, <1>6, <2>1, StepKeeps, SMT DEF Places
<1>7. ASSUME at' = "over", Kill PROVE IndInv'
  <2>1. UNCHANGED <<callVars, fixed>> /\ stopped' = stopped
      BY <1>1, <1>7, Zenon DEF Kill, fixed
  <2>2. (Running(Own) /\ Crash(Own)) \/ (~ Running(Own) /\ UNCHANGED nodeVars)
      BY <1>7, Zenon DEF Kill
  <2>3. NodesOK' /\ Ages
      BY <1>1, <1>3, <2>2, LeavesOrCrashes, NodesUnchanged, Zenon
  <2>4. serves' = serves
      BY <2>2, SMT DEF Crash, nodeVars
  <2>5. CallOK'
      BY <1>1, <2>1, <2>3, <2>4, AgesCall, Zenon DEF CallOK
  <2>6. ~ Running(Own)'
      BY <1>3, <2>2, SMT DEF Crash, Becomes, Running, NodesOK, nodeVars
  <2>7. node[Own] = "gone" => node'[Own] = "gone"
      BY <2>3, Zenon DEF Ages
  <2>8. PlacesOK' /\ ScriptOK'
      BY <1>1, <1>3, <1>4, <1>7, SMT DEF PlacesOK, ScriptOK
  <2>9. HeardOK'
      BY <1>3, <1>4, <2>1, <2>3, SMT DEF HeardOK, Ages, callVars
  <2>10. SmokeIsItsOwn'
      BY <1>1, <1>3, <2>1, <2>6, <2>7, SMT DEF SmokeIsItsOwn
  <2>11. VerdictIsTrue'
    <3>1. UNCHANGED <<serves, network, args, verdict, verified>>
        BY <1>1, <2>4, Zenon
    <3> QED BY <3>1, VerdictKept, Zenon
  <2> QED BY <2>5, <2>8, <2>10, <2>11, <2>9, PlacesKeep, Zenon
<1> QED BY <1>1, <1>6, <1>7, Zenon

LEMMA ProgramKeeps == ASSUME IndInv, Program PROVE IndInv'
<1>1. UNCHANGED fixed
    BY Zenon DEF Program
<1>2. CASE Script
    BY <1>1, <1>2, PortIsFreeKeeps, SpawnKeeps, PollKeeps, PolledKeeps, CheckKeeps, CheckedKeeps,
       CheckCookieKeeps, AskToStopKeeps, GetsDownKeeps, Zenon DEF Script
<1>3. CASE Client
  <2>1. UNCHANGED result /\ heard' = heard
      BY <1>3, Zenon DEF Client
  <2> QED BY <1>1, <1>3, <2>1, FromChainKeeps, ReadyKeeps, HearsKeeps, Zenon DEF Client
<1> QED BY <1>2, <1>3, Zenon DEF Program

LEMMA StutterKeeps ==
    ASSUME IndInv,
           (Elapse /\ UNCHANGED fixed) \/ UNCHANGED vars
    PROVE  IndInv'
<1>1. UNCHANGED nodeVars /\ UNCHANGED <<callVars, stopped, clientVars, fixed, serves, result>>
      /\ program' = program /\ heard' = heard
    BY SMT DEF Elapse, Still, vars, fixed, nodeVars
<1>2. NodesOK' /\ Ages
    BY <1>1, NodesUnchanged, Zenon DEF IndInv
<1>3. Smoking => /\ node[Own] = "off" => at \notin {"port", "spawn"} \/ node'[Own] = "off"
                 /\ at = "over" => ~ Running(Own)'
    BY <1>1, SMT DEF IndInv, SmokeIsItsOwn, Running, nodeVars
<1> QED BY <1>1, <1>2, <1>3, AgesKeep, Zenon

LEMMA Initially == Init => IndInv
<1> SUFFICES ASSUME Init PROVE IndInv
    OBVIOUS
<1>1. PICK s \in Scenarios :
          /\ program = s.program /\ args = s.args /\ serves = s.serves /\ network = s.network
          /\ node = [n \in Nodes |-> IF n \in s.run THEN "off" ELSE "gone"]
          /\ at = IF s.program = "client" THEN "new" ELSE "port"
    BY Zenon DEF Init
<1>2. /\ port = NoNode /\ file = "absent" /\ pc = "idle" /\ fd = "absent"
      /\ credential = NoNode /\ outcome = "none" /\ answered = NoNode
      /\ begunUnder = NoNode /\ stopped = {} /\ waits = "no" /\ verdict = "none"
      /\ verified = NoNode /\ result = "none" /\ heard = {}
    BY SMT DEF Init
<1>3. GivenOK /\ (Smoking => node[Own] = "off")
    BY <1>1, HostAssumption, SMT DEF GivenOK, HostAssumption
<1>4. NodesOK
    BY <1>1, <1>2, NodesAssumption, SMT DEF NodesOK, NodesAssumption
<1>5. CookieOK /\ BegunOK
    BY <1>2, NodesAssumption, SMT DEF CookieOK, BegunOK, ReadsNeverBlock, NodesAssumption
<1>6. OutcomeOK
    BY <1>2, SMT DEF OutcomeOK, RejectedOnlyIfReplaced
<1>7. PlacesOK /\ ScriptOK
    BY <1>1, <1>2, <1>3, CheckNames, SMT DEF PlacesOK, ScriptOK, GivenOK
<1>8. HeardOK
    BY <1>1, <1>2, CheckNames, SMT DEF HeardOK, Checking
<1>9. VerdictIsTrue
    BY <1>2, SMT DEF VerdictIsTrue
<1>10. SmokeIsItsOwn
    BY <1>1, <1>2, SMT DEF SmokeIsItsOwn
<1> QED BY <1>3, <1>4, <1>5, <1>6, <1>7, <1>8, <1>9, <1>10, Zenon DEF IndInv

LEMMA Inductive == IndInv /\ [Next]_vars => IndInv'
<1> SUFFICES ASSUME IndInv, [Next]_vars PROVE IndInv'
    OBVIOUS
<1>1. CASE OtherThread
  <2>1. UNCHANGED Callers
      BY <1>1, Zenon DEF OtherThread, Callers
  <2> QED BY <1>1, <2>1, BuildKeeps, Zenon
<1> QED BY <1>1, ProgramKeeps, CalledKeeps, HostKeeps, StutterKeeps, Zenon DEF Next, Over

-----------------------------------------------------------------------------
(* The params: every step begins a request, goes on with one, changes what  *)
(* it reads, or leaves all of it alone.                                     *)

RequestInv == ParamsInv /\ roots \in Seq(Copies)

LEMMA EmptyRequest == <<>> \in Seq(Containers)
BY EmptySeq, Zenon

LEMMA CallStepAndParams ==
    ASSUME CallStep
    PROVE  BuildRequest \/ UNCHANGED paramsVars
<1>1. CASE Build
    BY <1>1, Zenon DEF Build
<1>2. CASE Refuses \/ AuthHeader \/ OpenCookie \/ JudgeCookie \/ ReadCookie
    BY <1>2, Zenon DEF Refuses, AuthHeader, OpenCookie, JudgeCookie, ReadCookie, EndsUnsent, Goes
<1>3. CASE Exchange
  <2>1. ASSUME NEW n, Answers(n) PROVE UNCHANGED paramsVars
    <3>1. ASSUME Executes(n) PROVE UNCHANGED paramsVars
        BY <3>1, Zenon DEF Executes
    <3> QED BY <2>1, <3>1, SMT DEF Answers, EndsUnsent
  <2> QED BY <1>3, <2>1, Zenon DEF Exchange, EndsUnsent
<1> QED BY <1>1, <1>2, <1>3, Zenon DEF CallStep

LEMMA AskAndParams ==
    ASSUME NEW m, NEW a, NEW given \in Seq(Containers), Ask(m, a, given)
    PROVE  UNCHANGED paramsVars \/ \E r \in Seq(Containers) : BeginRequest(r)
BY Zenon DEF Ask, BeginCall

LEMMA ProgramAndParams ==
    ASSUME RequestInv, Program
    PROVE  UNCHANGED paramsVars \/ \E r \in Seq(Containers) : BeginRequest(r)
<1>1. <<>> \in Seq(Containers) /\ roots \in Seq(Containers)
    BY EmptyRequest, ParamsAssumption, SMT DEF RequestInv
<1>2. CASE Still
    BY <1>2, Zenon DEF Still
<1>3. CASE \E m, a : Ask(m, a, <<>>)
    BY <1>1, <1>3, AskAndParams, Zenon
<1>4. CASE \E m, a : Ask(m, a, roots)
    BY <1>1, <1>4, AskAndParams, Zenon
<1>5. CASE Spawn \/ Kill
    BY <1>5, Zenon DEF Spawn, Kill
<1>6. CASE Script
    BY <1>2, <1>3, <1>5, <1>6, Zenon DEF Script, PortIsFree, Poll, Polled, Check, Checked,
       CheckCookie, AskToStop, AskedToStop, GetsDown, Waited, Quietly
<1>7. CASE Client
    BY <1>2, <1>3, <1>4, <1>7, Zenon DEF Client, FromChain, Verified, Calls, AsksAgain, Returns
<1> QED BY <1>6, <1>7, Zenon DEF Program

LEMMA RequestInductive == RequestInv /\ [Next]_vars => RequestInv'
<1> SUFFICES ASSUME RequestInv, [Next]_vars PROVE RequestInv'
    OBVIOUS
<1>1. roots' = roots
    BY Zenon DEF Next, Program, Called, Host, OtherThread, Over, vars, fixed
<1>2. \/ BuildRequest \/ Change \/ UNCHANGED paramsVars
      \/ \E given \in Seq(Containers) : BeginRequest(given)
  <2>1. CASE Program
      BY <2>1, ProgramAndParams, Zenon
  <2>2. CASE Called
      BY <2>2, CallStepAndParams, Zenon DEF Called
  <2>3. CASE Host \/ OtherThread
      BY <2>3, Zenon DEF Host, OtherThread
  <2>4. CASE Over \/ Elapse \/ UNCHANGED vars
      BY <2>4, Zenon DEF Over, Elapse, Still, vars
  <2> QED BY <2>1, <2>2, <2>3, <2>4, Zenon DEF Next
<1>3. ParamsInv'
    BY <1>2, RoundsKeep, Zenon DEF RequestInv
<1> QED BY <1>1, <1>3, Zenon DEF RequestInv

LEMMA RequestInitially == Init => RequestInv
<1> SUFFICES ASSUME Init PROVE RequestInv
    OBVIOUS
<1>1. PICK s \in Scenarios : heap = s.heap /\ roots = s.roots
    BY Zenon DEF Init
<1>2. heap \in [Containers -> Container] /\ roots \in Seq(Copies)
    BY <1>1, HostAssumption, Zenon
<1>3. /\ members = <<>> /\ phase = "none" /\ path = <<>>
      /\ refusal = NotRefused /\ written = {} /\ changes = 0
    BY Zenon DEF Init
<1>4. /\ members \in Seq(Seq(Containers)) /\ path \in Seq(Frame) /\ DOMAIN path = {}
      /\ phase \in {"none", "walk", "encode", "built", "refused"}
      /\ phase # "walk" /\ phase # "encode"
    BY <1>3, SMT
<1>5. /\ refusal \in [in : {"none", "walk", "encode"},
                      as : {"none", "type", "value", "digits", "runtime"}]
      /\ refusal.in = "none" /\ refusal.as = "none"
    BY <1>3, SMT DEF NotRefused
<1>6. changes \in 0 .. MaxChanges
    BY <1>3, ParamsAssumption, SMT
<1>7. ParamsTypeOK
    BY <1>2, <1>3, <1>4, <1>5, <1>6, Zenon DEF ParamsTypeOK
<1>8. RoundsOK /\ WrittenOK /\ SizesOK /\ ~ Reading
    BY <1>3, <1>4, Zenon DEF RoundsOK, WrittenOK, SizesOK, Reading
<1>9. RefusalOK
    BY <1>5, SMT DEF RefusalOK
<1> QED BY <1>2, <1>7, <1>8, <1>9, Zenon DEF RequestInv, ParamsInv

-----------------------------------------------------------------------------
(* The types.  What a call and a program keep of a node is typed by the     *)
(* nodes, the port and the path, each of which a few steps move.            *)

PathTyped == port \in Nodes \cup {NoNode} /\ file \in Files
CallTyped ==
    /\ pc \in {"idle", "build", "open", "judge", "read", "send"}
    /\ method \in Methods /\ auth \in Auths /\ fd \in Files
    /\ credential \in Nodes \cup {NoNode} /\ outcome \in Outcomes
    /\ answered \in Nodes \cup {NoNode} /\ begunUnder \in Nodes \cup {NoNode}
    /\ stopped \subseteq Nodes
ProgramTyped ==
    /\ waits \in {"yes", "no"} /\ verdict \in Verdicts /\ verified \in Nodes \cup {NoNode}
    /\ late \in {"yes", "no"} /\ result \in {"none", "passed", "failed", "credential"}
    /\ heard \subseteq Nodes
TypeInv == IndInv /\ RequestInv /\ PathTyped /\ CallTyped /\ ProgramTyped

LEMMA TypeInvOK == TypeInv => TypeOK
<1> SUFFICES ASSUME TypeInv PROVE TypeOK
    OBVIOUS
<1>1. at \in {"new", "verify", "ready", "over"}
            \cup {"port", "spawn", "poll", "cookie", "stop", "waiting"} \cup DOMAIN MethodOf
    BY SMT DEF TypeInv, IndInv, PlacesOK, Checks
<1>2. NodeTypeOK
    BY Zenon DEF TypeInv, IndInv, GivenOK, NodesOK, PathTyped, CallTyped, NodeTypeOK
<1>3. ClientTypeOK
    BY Zenon DEF TypeInv, IndInv, GivenOK, ProgramTyped, ClientTypeOK
<1> QED BY <1>1, <1>2, <1>3, Zenon DEF TypeInv, IndInv, GivenOK, RequestInv, ParamsInv, ProgramTyped,
           TypeOK

LEMMA PathMoves ==
    ASSUME PathTyped,
           \/ UNCHANGED nodeVars \/ Swap
           \/ \E n \in Nodes : StartNode(n) \/ Bind(n) \/ WriteCookie(n) \/ Loaded(n) \/ Leave(n)
                               \/ Crash(n) \/ UNCHANGED <<port, file>>
    PROVE  PathTyped'
<1>1. CASE UNCHANGED nodeVars
    BY <1>1, Zenon DEF PathTyped, nodeVars
<1>2. CASE Swap
    BY <1>2, Zenon DEF PathTyped, Swap, Files
<1>3. ASSUME NEW n \in Nodes,
             StartNode(n) \/ Bind(n) \/ WriteCookie(n) \/ Loaded(n) \/ UNCHANGED <<port, file>>
      PROVE  PathTyped'
    BY <1>3, Zenon DEF PathTyped, StartNode, Bind, WriteCookie, Loaded, Files
<1>4. ASSUME NEW n \in Nodes, Leave(n) \/ Crash(n) PROVE PathTyped'
    BY <1>4, Zenon DEF PathTyped, Leave, Crash, Frees, Files
<1> QED BY <1>1, <1>2, <1>3, <1>4, Zenon

LEMMA EndsTyped ==
    ASSUME CallTyped, NEW o \in Outcomes, NEW n \in Nodes \cup {NoNode}, Ends(o, n),
           stopped' \subseteq Nodes
    PROVE  CallTyped'
BY Zenon DEF CallTyped, Ends, Files

LEMMA EndsUnsentTyped ==
    ASSUME CallTyped, NEW o \in Outcomes, EndsUnsent(o)
    PROVE  CallTyped' /\ UNCHANGED nodeVars
<1>1. Ends(o, NoNode) /\ stopped' = stopped /\ UNCHANGED nodeVars
    BY Zenon DEF EndsUnsent
<1> QED BY <1>1, EndsTyped, Zenon DEF CallTyped

LEMMA GoesTyped ==
    ASSUME CallTyped, NEW to \in {"open", "judge", "read", "send"}, Goes(to),
           fd' \in Files, credential' \in Nodes \cup {NoNode}
    PROVE  CallTyped' /\ UNCHANGED nodeVars
BY Zenon DEF CallTyped, Goes

LEMMA AnswersTyped ==
    ASSUME PathTyped, CallTyped, NEW n \in Nodes, Answers(n)
    PROVE  PathTyped' /\ CallTyped'
<1>1. stopped \subseteq Nodes
    BY Zenon DEF CallTyped
<1>2. ASSUME NEW o \in Outcomes, Ends(o, n), UNCHANGED <<nodeVars, stopped>>
      PROVE  PathTyped' /\ CallTyped'
    BY <1>1, <1>2, EndsTyped, PathMoves, Zenon
<1>3. /\ "unauthorized" \in Outcomes /\ Unready \in Outcomes /\ "fetch" \in Outcomes
      /\ {"result", "fetch"} \subseteq Outcomes
    BY SMT DEF Unready, Outcomes
<1>4. CASE EndsUnsent("fetch")
    BY <1>3, <1>4, EndsUnsentTyped, PathMoves, Zenon
<1>5. CASE (\E o \in {"result", "fetch"} : Ends(o, n)) /\ Executes(n)
  <2>1. \/ UNCHANGED <<nodeVars, stopped>>
        \/ UNCHANGED <<port, file>> /\ stopped' = stopped \cup {n}
      BY <1>5, Zenon DEF Executes
  <2>2. stopped' \subseteq Nodes /\ PathTyped'
      BY <1>1, <2>1, PathMoves, Zenon
  <2> QED BY <1>3, <1>5, <2>2, EndsTyped, Zenon
<1> QED BY <1>2, <1>3, <1>4, <1>5, SMT DEF Answers

LEMMA CallStepTyped ==
    ASSUME PathTyped, CallTyped, CallStep
    PROVE  PathTyped' /\ CallTyped'
<1>1. "refused" \in Outcomes /\ "no cookie" \in Outcomes /\ "fetch" \in Outcomes /\ "http" \in Outcomes
    BY Zenon DEF Outcomes
<1>2. NoNode \in Nodes \cup {NoNode} /\ Nodes \subseteq Nodes \cup {NoNode}
      /\ fd \in Files /\ file \in Files /\ credential \in Nodes \cup {NoNode}
    BY Zenon DEF PathTyped, CallTyped
<1>3. CASE Build
    BY <1>3, PathMoves, Zenon DEF Build, CallTyped, callVars
<1>4. ASSUME NEW o \in Outcomes, EndsUnsent(o) PROVE PathTyped' /\ CallTyped'
    BY <1>4, EndsUnsentTyped, PathMoves, Zenon
<1>5. ASSUME NEW to \in {"open", "judge", "read", "send"}, Goes(to), fd' \in Files,
             credential' \in Nodes \cup {NoNode}
      PROVE  PathTyped' /\ CallTyped'
    BY <1>5, GoesTyped, PathMoves, Zenon
<1>6. CASE AuthHeader
  <2>1. PICK to \in {"open", "send"} : Goes(to) /\ credential' = NoNode /\ fd' = fd
      BY <1>6, Zenon DEF AuthHeader
  <2> QED BY <1>2, <1>5, <2>1, Zenon
<1>7. CASE OpenCookie
    BY <1>1, <1>2, <1>4, <1>5, <1>7, Zenon DEF OpenCookie
<1>8. CASE JudgeCookie \/ ReadCookie
    BY <1>1, <1>2, <1>4, <1>5, <1>8, Zenon DEF JudgeCookie, ReadCookie
<1>9. CASE Exchange
    BY <1>1, <1>4, <1>9, AnswersTyped, Zenon DEF Exchange
<1>10. CASE Refuses
    BY <1>1, <1>4, <1>10, Zenon DEF Refuses
<1> QED BY <1>3, <1>6, <1>7, <1>8, <1>9, <1>10, Zenon DEF CallStep

LEMMA AskTyped ==
    ASSUME PathTyped, CallTyped, NEW m \in Methods, NEW a \in {"cookie", "user"}, NEW r,
           Ask(m, a, r)
    PROVE  PathTyped' /\ CallTyped' /\ waits' = "yes"
<1>1. /\ method' = m /\ outcome' = "none" /\ answered' = NoNode /\ begunUnder' = Serving
      /\ pc' \in {"send", "build"} /\ UNCHANGED <<nodeVars, fd, credential, stopped>>
      /\ waits' = "yes" /\ auth' \in {"none", a}
    BY Zenon DEF Ask, BeginCall
<1>2. Serving \in Nodes \cup {NoNode}
    BY Zenon DEF Serving
<1> QED BY <1>1, <1>2, PathMoves, Zenon DEF CallTyped, Outcomes, Auths

LEMMA StillTyped ==
    ASSUME PathTyped, CallTyped, Still
    PROVE  PathTyped' /\ CallTyped'
BY PathMoves, Zenon DEF Still, CallTyped, callVars

LEMMA ConcludesTyped ==
    ASSUME CallTyped, Concludes
    PROVE  verdict' \in Verdicts /\ verified' \in Nodes \cup {NoNode}
<1>1. \A a, s : AssertChainInfo(a, s) \in Verdicts
    BY SMT DEF AssertChainInfo, Verdicts
<1>2. "none" \in Verdicts
    BY Zenon DEF Verdicts
<1> QED BY <1>1, <1>2, Zenon DEF Concludes, CallTyped

LEMMA ScriptTyped ==
    ASSUME TypeInv, Script
    PROVE  PathTyped' /\ CallTyped' /\ ProgramTyped'
<1>1. PathTyped /\ CallTyped /\ ProgramTyped /\ Own \in Nodes
    BY HostAssumption, Zenon DEF TypeInv
<1>2. "call" \in Methods /\ "stop" \in Methods /\ \A c \in DOMAIN MethodOf : MethodOf[c] \in Methods
    BY SMT DEF Methods, MethodOf
<1>3. CASE (PortIsFree \/ CheckCookie) /\ UNCHANGED heard
  <2>1. /\ Still /\ UNCHANGED late /\ waits' = waits /\ UNCHANGED <<verdict, verified>>
        /\ result' \in {result, "failed"}
      BY <1>3, SMT DEF PortIsFree, CheckCookie, Quietly, Moves, Fails
  <2> QED BY <1>1, <1>3, <2>1, StillTyped, Zenon DEF ProgramTyped
<1>4. OutcomeOK
    BY Zenon DEF TypeInv, IndInv
<1>5. CASE Polled
  <2>1. /\ Still /\ UNCHANGED late /\ waits' = "no" /\ UNCHANGED <<verdict, verified>>
        /\ result' \in {result, "credential"}
        /\ heard' = IF outcome = "result" THEN heard \cup {answered} ELSE heard
      BY <1>5, SMT DEF Polled, Moves, Fails
  <2>2. heard' \subseteq Nodes
      BY <1>1, <1>4, <2>1, Zenon DEF OutcomeOK, ProgramTyped
  <2> QED BY <1>1, <2>1, <2>2, StillTyped, Zenon DEF ProgramTyped
<1>6. CASE Spawn /\ UNCHANGED heard
  <2>1. /\ StartNode(Own)
        /\ UNCHANGED <<callVars, stopped, waits, late, result, verdict, verified, heard>>
      BY <1>6, Zenon DEF Spawn, Moves
  <2>2. CallTyped' /\ ProgramTyped'
      BY <1>1, <2>1, Zenon DEF CallTyped, ProgramTyped, callVars
  <2> QED BY <1>1, <2>1, <2>2, PathMoves, Zenon
<1>7. ASSUME NEW m \in Methods, NEW a \in {"cookie", "user"}, Ask(m, a, <<>>),
             UNCHANGED <<late, result, verdict, verified, heard>>
      PROVE  PathTyped' /\ CallTyped' /\ ProgramTyped'
  <2>1. PathTyped' /\ CallTyped' /\ waits' = "yes"
      BY <1>1, <1>7, AskTyped, Zenon
  <2>2. ProgramTyped'
      BY <1>1, <1>7, <2>1, Zenon DEF ProgramTyped
  <2> QED BY <2>1, <2>2, Zenon
<1>8. CASE Poll /\ UNCHANGED heard
  <2>1. CASE Fails("failed") /\ Quietly
    <3>1. Still /\ UNCHANGED <<waits, late, verdict, verified>> /\ result' = "failed"
        BY <2>1, Zenon DEF Fails, Quietly, Moves
    <3> QED BY <1>1, <1>8, <3>1, StillTyped, Zenon DEF ProgramTyped
  <2>2. CASE Ask("call", "cookie", <<>>) /\ Moves("poll") /\ UNCHANGED <<late, result>>
      BY <1>2, <1>7, <1>8, <2>2, Zenon DEF Moves
  <2> QED BY <1>8, <2>1, <2>2, Zenon DEF Poll
<1>9. CASE (Check \/ AskToStop) /\ UNCHANGED heard
    BY <1>2, <1>7, <1>9, Zenon DEF Check, AskToStop, Moves
<1>10. CASE Checked
  <2>1. /\ Still /\ late' = late /\ waits' = "no"
        /\ result' \in {"failed", "passed", result}
        /\ Concludes \/ UNCHANGED <<verdict, verified>>
        /\ heard' = IF Passes THEN heard \cup {answered} ELSE heard
      BY <1>10, SMT DEF Checked
  <2>2. Passes => outcome \in {"result", "unauthorized"}
      BY SMT DEF Passes, CredentialRefused, NamesChain, ChainIs
  <2>3. heard' \subseteq Nodes
      BY <1>1, <1>4, <2>1, <2>2, Zenon DEF OutcomeOK, ProgramTyped
  <2>4. verdict' \in Verdicts /\ verified' \in Nodes \cup {NoNode}
      BY <1>1, <2>1, ConcludesTyped, Zenon DEF ProgramTyped
  <2>5. ProgramTyped'
      BY <1>1, <2>1, <2>4, <2>3, Zenon DEF ProgramTyped
  <2> QED BY <1>1, <2>1, <2>5, StillTyped, Zenon
<1>11. CASE (AskedToStop \/ Waited) /\ UNCHANGED heard
  <2>1. /\ waits' \in {waits, "no"} /\ UNCHANGED <<late, result, verdict, verified>>
        /\ Still \/ (Kill /\ UNCHANGED <<callVars, stopped>>)
      BY <1>11, Zenon DEF AskedToStop, Waited, GetsDown, Kill, Moves
  <2>2. ProgramTyped'
      BY <1>1, <1>11, <2>1, Zenon DEF ProgramTyped
  <2>3. ASSUME Kill, UNCHANGED <<callVars, stopped>> PROVE PathTyped' /\ CallTyped'
    <3>1. Crash(Own) \/ UNCHANGED nodeVars
        BY <2>3, Zenon DEF Kill
    <3>2. CallTyped'
        BY <1>1, <2>3, Zenon DEF CallTyped, callVars
    <3> QED BY <1>1, <3>1, <3>2, PathMoves, Zenon
  <2> QED BY <1>1, <2>1, <2>2, <2>3, StillTyped, Zenon
<1> QED BY <1>3, <1>5, <1>6, <1>8, <1>9, <1>10, <1>11, Zenon DEF Script

LEMMA ClientTyped ==
    ASSUME TypeInv, Client
    PROVE  PathTyped' /\ CallTyped' /\ ProgramTyped'
<1>1. PathTyped /\ CallTyped /\ ProgramTyped /\ UNCHANGED <<late, result, heard>>
    BY Zenon DEF TypeInv, Client
<1>2. ASSUME NEW m \in Methods, NEW a \in {"cookie", "user"}, NEW r, Ask(m, a, r),
             UNCHANGED <<verdict, verified>>
      PROVE  PathTyped' /\ CallTyped' /\ ProgramTyped'
  <2>1. PathTyped' /\ CallTyped' /\ waits' = "yes"
      BY <1>1, <1>2, AskTyped, Zenon
  <2>2. ProgramTyped'
      BY <1>1, <1>2, <2>1, Zenon DEF ProgramTyped
  <2> QED BY <2>1, <2>2, Zenon
<1>3. ASSUME Still, waits' \in {waits, "no"}, Concludes \/ UNCHANGED <<verdict, verified>>
      PROVE  PathTyped' /\ CallTyped' /\ ProgramTyped'
  <2>1. verdict' \in Verdicts /\ verified' \in Nodes \cup {NoNode}
      BY <1>1, <1>3, ConcludesTyped, Zenon DEF ProgramTyped
  <2>2. ProgramTyped'
      BY <1>1, <1>3, <2>1, Zenon DEF ProgramTyped
  <2> QED BY <1>1, <1>3, <2>2, StillTyped, Zenon
<1>4. {"call", "raw", "chain", "rest"} \subseteq Methods /\ Caller \in {"cookie", "user"}
    BY SMT DEF Methods, Caller
<1>5. CASE FromChain
  <2>1. UNCHANGED <<verdict, verified>>
        /\ \/ Still /\ waits' = waits
           \/ Ask("chain", Caller, <<>>)
      BY <1>5, Zenon DEF FromChain
  <2> QED BY <1>2, <1>3, <1>4, <2>1, Zenon
<1>6. CASE Verified \/ Returns
    BY <1>3, <1>6, Zenon DEF Verified, Returns
<1>7. CASE Calls(roots) \/ AsksAgain
  <2>1. UNCHANGED <<verdict, verified>>
        /\ \E r : \E m \in {"call", "raw", "chain", "rest"} : Ask(m, Caller, r)
      BY <1>7, Zenon DEF Calls, AsksAgain
  <2> QED BY <1>2, <1>4, <2>1, Zenon
<1> QED BY <1>5, <1>6, <1>7, Zenon DEF Client

LEMMA HostTyped ==
    ASSUME TypeInv, Host \/ OtherThread \/ Over \/ Elapse \/ UNCHANGED vars
    PROVE  PathTyped' /\ CallTyped' /\ ProgramTyped'
<1>1. PathTyped /\ CallTyped /\ ProgramTyped
    BY Zenon DEF TypeInv
<1>2. /\ UNCHANGED <<callVars, stopped, waits, verdict, verified, result, heard>>
      /\ late' \in {late, "yes"}
    BY SMT DEF Host, OtherThread, Over, Elapse, Still, vars, clientVars
<1>3. CallTyped' /\ ProgramTyped'
    BY <1>1, <1>2, Zenon DEF CallTyped, ProgramTyped, callVars
<1>4. CASE UNCHANGED nodeVars
    BY <1>1, <1>3, <1>4, PathMoves, Zenon
<1>5. CASE Host
  <2>1. \/ Swap
        \/ \E n \in Nodes : StartNode(n) \/ Bind(n) \/ WriteCookie(n) \/ Loaded(n) \/ Leave(n)
                            \/ Crash(n)
      BY <1>5, Zenon DEF Host, NodeStep
  <2> QED BY <1>1, <1>3, <2>1, PathMoves, Zenon
<1> QED BY <1>4, <1>5, Zenon DEF OtherThread, Over, Elapse, Still, vars

LEMMA TypeInductive == TypeInv /\ [Next]_vars => TypeInv'
<1> SUFFICES ASSUME TypeInv, [Next]_vars PROVE TypeInv'
    OBVIOUS
<1>1. IndInv' /\ RequestInv'
    BY Inductive, RequestInductive, Zenon DEF TypeInv
<1>2. ASSUME Called PROVE PathTyped' /\ CallTyped' /\ ProgramTyped'
  <2>1. CallStep /\ UNCHANGED <<waits, verdict, verified, late, result, heard>>
      BY <1>2, Zenon DEF Called, clientVars
  <2>2. ProgramTyped'
      BY <2>1, Zenon DEF TypeInv, ProgramTyped
  <2> QED BY <2>1, <2>2, CallStepTyped, Zenon DEF TypeInv
<1>3. PathTyped' /\ CallTyped' /\ ProgramTyped'
    BY <1>2, ScriptTyped, ClientTyped, HostTyped, Zenon DEF Next, Program
<1> QED BY <1>1, <1>3, Zenon DEF TypeInv

LEMMA TypeInitially == Init => TypeInv
<1> SUFFICES ASSUME Init PROVE TypeInv
    OBVIOUS
<1>1. PathTyped /\ CallTyped /\ ProgramTyped
    BY SMT DEF Init, PathTyped, CallTyped, ProgramTyped, Files, Methods, Auths, Outcomes, Verdicts
<1> QED BY <1>1, Initially, RequestInitially, Zenon DEF TypeInv

-----------------------------------------------------------------------------
(* The types of the nodes, of a call, of the two programs and of a request  *)
(* (chains.py, client.py, rpc_smoke.py).                                    *)
THEOREM TypesHold == Spec => []TypeOK
<1>1. TypeInv => TypeOK
    BY TypeInvOK
<1> QED BY <1>1, TypeInitially, TypeInductive, PTL DEF Spec

(* A call that began under the cookie of a node that served, and was        *)
(* answered by that node, was not refused its credential: cookie_auth reads *)
(* the file anew for every call (client.py, chains.py).                     *)
THEOREM RejectedOnlyWhenReplaced == Spec => []RejectedOnlyIfReplaced
<1>1. IndInv => RejectedOnlyIfReplaced
    BY Zenon DEF IndInv, OutcomeOK
<1> QED BY <1>1, Initially, Inductive, PTL DEF Spec

(* Whatever is put at the cookie's path between the checks and the open,    *)
(* cookie_auth reads nothing a read could wait on for ever: it judges the   *)
(* descriptor it reads.                                                     *)
THEOREM NoReadBlocks == Spec => []ReadsNeverBlock
<1>1. IndInv => ReadsNeverBlock
    BY Zenon DEF IndInv, CookieOK
<1> QED BY <1>1, Initially, Inductive, PTL DEF Spec

(* What assert_chain makes of a reply agrees with the network the node that *)
(* gave it is on, for every chain, challenge and script.                    *)
THEOREM VerdictStaysTrue == Spec => []VerdictIsTrue
<1>1. IndInv => VerdictIsTrue
    BY Zenon DEF IndInv
<1> QED BY <1>1, Initially, Inductive, PTL DEF Spec

(* rpc_smoke.py stops its own node and no other, leaves none behind, and    *)
(* gives up on a credential only where its node has exited, whatever other  *)
(* nodes run on the host.  It passes only where each of the answers it      *)
(* checked came from its own node: those of the REST interface, which       *)
(* carries no credential, and the 401 it provokes, as well.                 *)
THEOREM SmokeTouchesItsOwn == Spec => []SmokeIsItsOwn
<1>1. IndInv => SmokeIsItsOwn
    BY Zenon DEF IndInv
<1> QED BY <1>1, Initially, Inductive, PTL DEF Spec

(* Whatever the caller's params hold and however another thread changes     *)
(* them in between, what `_request` built is json; and where nobody did,    *)
(* its walk has refused all that the encoder would, but for a number of too *)
(* many digits.                                                             *)
THEOREM RequestsAreJson == Spec => []RequestIsJson
<1>1. RequestInv => RequestIsJson
    BY ParamsJson, Zenon DEF RequestInv
<1> QED BY <1>1, RequestInitially, RequestInductive, PTL DEF Spec
=============================================================================
