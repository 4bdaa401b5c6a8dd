------------------------------ MODULE NodeLife ------------------------------
(***************************************************************************)
(* bitcoind processes that come and go behind one url and one cookie file,  *)
(* and one authenticated call to whichever is there: the request is built   *)
(* (Params), the cookie read, the exchange made and the reply read.         *)
(*                                                                          *)
(* A node's cookie is named by the node that wrote it, and no node runs     *)
(* twice: a restart is another node.                                        *)
(***************************************************************************)
EXTENDS Params, Chains

CONSTANTS
    Nodes,  \* the processes that may ever run
    NoNode,
    Chain   \* Core's chain names

(* What a node serves: the chain and the challenge it reports, where it     *)
(* writes its cookie, and whether it has the user of the caller (rpcauth).  *)
NoText == "none" \* a member a reply does not have, an argument not given
Service ==
    [chain : Chain \cup {NoText}, challenge : Texts \cup {NoText},
     cookie : {"here", "elsewhere"}, user : {"known", "unknown"}]

(* What is at the path of the cookie: a node's cookie, a file that is none  *)
(* (too large, no ascii, several lines, no colon), what is no regular file, *)
(* what may not be opened, or nothing.                                      *)
Files == Nodes \cup {"junk", "special", "forbidden", "absent"}

ASSUME NodesAssumption ==
    NoNode \notin Nodes /\ Nodes \cap {"junk", "special", "forbidden", "absent"} = {}

VARIABLES
    node,       \* the state of each process
    serves,
    port,       \* the node that holds the port of the url
    file,
    pc,         \* where the call under way is
    method,
    auth,       \* what the call has to say who is calling
    fd,         \* the file the call has opened
    credential, \* what it read there
    outcome,    \* what the last call came to
    answered,   \* the node it was answered by
    begunUnder, \* the node that served, under its cookie, when it began
    stopped     \* the nodes a caller has had stop

nodeVars == <<node, serves, port, file>>
callVars == <<pc, method, auth, fd, credential, outcome, answered, begunUnder>>

Methods == {"call", "raw", "chain", "stop", "rest"}
Auths == {"cookie", "user", "none"}
Outcomes ==
    {"none", "result", "rpc", "unauthorized", "http", "fetch", "no cookie", "refused"}

NodeTypeOK ==
    /\ node \in [Nodes -> {"off", "starting", "bound", "warming", "up", "stopping", "gone"}]
    /\ serves \in [Nodes -> Service]
    /\ port \in Nodes \cup {NoNode} /\ file \in Files
    /\ pc \in {"idle", "build", "open", "judge", "read", "send"}
    /\ method \in Methods /\ auth \in Auths /\ fd \in Files
    /\ credential \in Nodes \cup {NoNode}
    /\ outcome \in Outcomes
    /\ answered \in Nodes \cup {NoNode} /\ begunUnder \in Nodes \cup {NoNode}
    /\ stopped \subseteq Nodes

-----------------------------------------------------------------------------
(* The nodes: the port is bound first, the cookie written next, the block   *)
(* index loaded last.  A clean exit takes the cookie away, a crash does not.*)

Running(n) == node[n] \notin {"off", "gone"}
Becomes(n, state) == node' = [node EXCEPT ![n] = state]

StartNode(n) ==
    /\ node[n] = "off" /\ Becomes(n, "starting")
    /\ UNCHANGED <<serves, port, file>>
Bind(n) ==
    /\ node[n] = "starting"
    /\ IF port = NoNode THEN port' = n /\ Becomes(n, "bound")
       ELSE UNCHANGED port /\ Becomes(n, "gone")
    /\ UNCHANGED <<serves, file>>
WriteCookie(n) ==
    /\ node[n] = "bound" /\ Becomes(n, "warming")
    /\ file' = IF serves[n].cookie = "here" THEN n ELSE file
    /\ UNCHANGED <<serves, port>>
Loaded(n) ==
    /\ node[n] = "warming" /\ Becomes(n, "up")
    /\ UNCHANGED <<serves, port, file>>
Frees(n) == port' = IF port = n THEN NoNode ELSE port
WroteHere(n) == node[n] \in {"warming", "up", "stopping"} /\ serves[n].cookie = "here"
Leave(n) ==
    /\ Running(n) /\ Becomes(n, "gone") /\ Frees(n)
    /\ file' = IF WroteHere(n) THEN "absent" ELSE file
    /\ UNCHANGED serves
Crash(n) ==
    /\ Running(n) /\ Becomes(n, "gone") /\ Frees(n)
    /\ UNCHANGED <<serves, file>>

NodeStep == \E n \in Nodes : Bind(n) \/ WriteCookie(n) \/ Loaded(n) \/ Leave(n) \/ Crash(n)
NodeStarts == \E n \in Nodes : StartNode(n)

(* Somebody puts something else at the path.                                *)
Swap ==
    /\ \E f \in {"junk", "special", "forbidden", "absent"} : file' = f
    /\ UNCHANGED <<node, serves, port>>

-----------------------------------------------------------------------------
(* One call.                                                               *)

Serving ==
    IF port \in Nodes
    THEN IF node[port] \in {"warming", "up"} /\ file = port THEN port ELSE NoNode
    ELSE NoNode

(* "raw" is call_raw, "rest" the REST client, which has no credential and   *)
(* no json.                                                                *)
BeginCall(m, a, roots) ==
    /\ pc = "idle"
    /\ method' = m /\ auth' = IF m = "rest" THEN "none" ELSE a
    /\ outcome' = "none" /\ answered' = NoNode
    /\ begunUnder' = Serving
    /\ IF m = "rest" THEN pc' = "send" /\ UNCHANGED paramsVars
       ELSE pc' = "build" /\ BeginRequest(roots)
    /\ UNCHANGED <<nodeVars, fd, credential, stopped>>

Ends(o, n) ==
    /\ pc' = "idle" /\ outcome' = o /\ answered' = n
    /\ fd' = "absent"
    /\ UNCHANGED <<method, auth, credential, begunUnder>>
EndsUnsent(o) == Ends(o, NoNode) /\ UNCHANGED <<nodeVars, paramsVars, stopped>>

Build ==
    /\ pc = "build" /\ BuildRequest
    /\ UNCHANGED <<nodeVars, callVars, stopped>>
Refuses == pc = "build" /\ phase = "refused" /\ EndsUnsent("refused")

Goes(to) ==
    /\ pc' = to
    /\ UNCHANGED <<method, auth, outcome, answered, begunUnder, nodeVars, paramsVars, stopped>>

(* auth_header: the user and the password, or the cookie read now.          *)
FaultyAuthHeader == \* a fault: the cookie of the first call is kept
    /\ pc = "build" /\ phase = "built"
    /\ IF auth = "user" THEN Goes("send") /\ credential' = NoNode /\ UNCHANGED fd
       ELSE Goes(IF credential # NoNode THEN "send" ELSE "open") /\ UNCHANGED <<fd, credential>>
AuthHeader ==
    /\ pc = "build" /\ phase = "built"
    /\ Goes(IF auth = "user" THEN "send" ELSE "open")
    /\ credential' = NoNode /\ UNCHANGED fd

(* cookie_auth: the open takes the file that is there, and a FIFO without a *)
(* writer; the descriptor is judged; what it holds is read.                 *)
OpenCookie ==
    /\ pc = "open"
    /\ \/ file = "absent" /\ EndsUnsent("no cookie")
       \/ file = "forbidden" /\ EndsUnsent("fetch")
       \/ /\ file \notin {"absent", "forbidden"}
          /\ Goes("judge") /\ fd' = file /\ UNCHANGED credential
FaultyRegular == file # "special" \* a fault: the path is judged, and not the descriptor
Regular == fd # "special"
JudgeCookie ==
    /\ pc = "judge"
    /\ \/ Regular /\ Goes("read") /\ UNCHANGED <<fd, credential>>
       \/ EndsUnsent("fetch") \* no regular file, or fstat failed
FaultyReadCookie == \* a fault: whatever the file holds is taken for a cookie
    pc = "read" /\ Goes("send") /\ credential' = fd /\ UNCHANGED fd
ReadCookie ==
    /\ pc = "read"
    /\ \/ fd \in Nodes /\ Goes("send") /\ credential' = fd /\ UNCHANGED fd
       \/ EndsUnsent("fetch") \* no cookie, or the read failed

(* The exchange.  Nothing may come of it, or a status of a full work queue; *)
(* a node asked to stop may do so with its answer lost.  A "result" is what *)
(* a node that is up says of what it was asked.                             *)
Authorized(n) ==
    \/ auth = "none"
    \/ auth = "user" /\ serves[n].user = "known"
    \/ auth = "cookie" /\ credential = n
Executes(n) ==
    IF method = "stop"
    THEN /\ Becomes(n, "stopping") /\ stopped' = stopped \cup {n}
         /\ UNCHANGED <<serves, port, file, paramsVars>>
    ELSE UNCHANGED <<nodeVars, paramsVars, stopped>>
Unready == \* -28, which call_raw hands back, and a 503 of the REST server
    CASE method = "rest" -> "http" [] method = "raw" -> "result" [] OTHER -> "rpc"
Answers(n) ==
    CASE node[n] \in {"warming", "up"} /\ ~ Authorized(n) ->
            Ends("unauthorized", n) /\ UNCHANGED <<nodeVars, paramsVars, stopped>>
      [] node[n] = "warming" /\ Authorized(n) ->
            /\ Ends(Unready, n)
            /\ UNCHANGED <<nodeVars, paramsVars, stopped>>
      [] node[n] = "up" /\ Authorized(n) ->
            (\E o \in {"result", "fetch"} : Ends(o, n)) /\ Executes(n)
      [] OTHER -> EndsUnsent("fetch")
Exchange ==
    /\ pc = "send"
    /\ \/ EndsUnsent("fetch")
       \/ port \in Nodes /\ (EndsUnsent("http") \/ Answers(port))

CallStep ==
    Build \/ Refuses \/ AuthHeader \/ OpenCookie \/ JudgeCookie \/ ReadCookie \/ Exchange

(* A call that begins while a node serves under its cookie, and is answered *)
(* by that node, is not refused its credential: only a node that came in    *)
(* between, or a file that is no longer its cookie, brings a 401.           *)
RejectedOnlyIfReplaced ==
    outcome = "unauthorized" /\ auth = "cookie" => answered # begunUnder

(* No file a read could wait on for ever is read, whatever is put at the    *)
(* path between its checks.                                                *)
ReadsNeverBlock == pc = "read" => fd # "special"
=============================================================================
