-------------------------- MODULE SessionTransport --------------------------
(***************************************************************************)
(* `SessionTransport` of transport.py: the transport that keeps one         *)
(* connection per (scheme, host, port) and hands it to the next call, and   *)
(* the node at the other end of those connections.                          *)
(*                                                                          *)
(* A call of `__call__` is a process: two calls of one thread are two calls *)
(* that happen not to overlap, so every program's threads are among the     *)
(* interleavings of its calls.  A call is made once.                        *)
(*                                                                          *)
(* Time is one flag per call, `expired`: the clock has passed the deadline  *)
(* the call took before it asked for the lock.  Octets are counted in       *)
(* units: a request is ReqLen of them, so that a write can fail half way,   *)
(* and a body is as many as its limit makes interesting.                    *)
(*                                                                          *)
(* The connection is `_Connection`, the protocol the class drives: octets   *)
(* in order, until either end closes.  What http.client adds to it and the  *)
(* class relies on is in Guarded and ClosesAtLength.                        *)
(***************************************************************************)
EXTENDS Naturals, Sequences

CONSTANTS
    Calls,          \* the calls made, each once
    Keys,           \* the (scheme, host, port) triples
    KeyOf,          \* the key each call's url names
    Conns,          \* the connection objects the factory can answer
    NoCall, NoConn, NoHead,
    ReqLen,         \* the units of a request on the wire
    Responses,      \* the responses a node may give
    MaxBody,        \* max_body_size, in units
    ErrLimit,       \* MAX_ERROR_BODY_SIZE, in units
    Guarded,        \* getresponse() refuses while the last response is open
    ClosesAtLength  \* read1() closes a response whose length it has read

Framings == {"length", "chunked", "close"}

ResponseType ==
    [err : BOOLEAN, framing : Framings, size : Nat, close : BOOLEAN]

ASSUME CallsAssumption ==
    /\ KeyOf \in [Calls -> Keys]
    /\ NoCall \notin Calls
    /\ NoConn \notin Conns
ASSUME WireAssumption ==
    /\ ReqLen \in Nat \ {0}
    /\ MaxBody \in Nat
    /\ ErrLimit \in Nat
    /\ Responses \subseteq ResponseType
    /\ \A r \in Responses : r.framing = "close" => r.close
ASSUME ClientAssumption ==
    /\ Guarded \in BOOLEAN
    /\ ClosesAtLength \in BOOLEAN

VARIABLES
    pc,         \* where each call is in __call__
    lock,       \* the call holding self._lock, or NoCall
    pool,       \* self._connections
    conn,       \* the local `connection` of each call
    canReconnect, \* the call is inside the `try` whose handler reconnects
    written,    \* units of its request a call has handed to its socket
    head,       \* the status line and headers a call has read
    left,       \* `remaining` of _read_bounded: what it may still read
    expired,    \* the call's deadline has passed
    outcome,    \* what the call came to
    sock,       \* the client's end of each connection
    opener,     \* the call each connection was opened by
    unread,     \* http.client holds a response it does not count as closed
    peer,       \* the node's end of each connection
    asked,      \* the call whose request is arriving, or last arrived
    got,        \* units of it the node holds and has not acted on
    owed,       \* what the node has still to send of its response
    down,       \* what has arrived at the client and is not read
    executed    \* how often the node has executed each call

local == <<canReconnect, written, head, left>>
client == <<pc, lock, pool, conn, local, expired, outcome>>
wire == <<sock, opener, unread, peer, asked, got, owed, down>>
vars == <<client, wire, executed>>

-----------------------------------------------------------------------------
(* The wire.  A response is a head, a unit per octet of body and, when it  *)
(* is chunked, the last chunk.                                             *)

ItemKinds == {"head", "unit", "last"}
Item == [kind : ItemKinds, call : Calls, resp : Responses]

KindAt(r, i) ==
    IF i = 1 THEN "head" ELSE IF i <= 1 + r.size THEN "unit" ELSE "last"

Items(c, r) ==
    [i \in 1 .. (IF r.framing = "chunked" THEN r.size + 2 ELSE r.size + 1) |->
        [kind |-> KindAt(r, i), call |-> c, resp |-> r]]

(* What `_read_bounded` is given as its limit.                             *)
Limit(r) == IF r.err THEN ErrLimit ELSE MaxBody

(* The units of the body the call has read.                                *)
Seen(c) == Limit(head[c].resp) + 1 - left[c]

OutcomeKinds == {"none", "error", "notready", "answer", "short"}
Outcome == [kind : OutcomeKinds, from : Calls \cup {NoCall}]
Nothing == [kind |-> "none", from |-> NoCall]
Error == [kind |-> "error", from |-> NoCall]
NotReady == [kind |-> "notready", from |-> NoCall]

Init ==
    /\ pc = [c \in Calls |-> "idle"]
    /\ lock = NoCall
    /\ pool = [k \in Keys |-> NoConn]
    /\ conn = [c \in Calls |-> NoConn]
    /\ canReconnect = [c \in Calls |-> FALSE]
    /\ written = [c \in Calls |-> 0]
    /\ head = [c \in Calls |-> NoHead]
    /\ left = [c \in Calls |-> 0]
    /\ expired = [c \in Calls |-> FALSE]
    /\ outcome = [c \in Calls |-> Nothing]
    /\ sock = [x \in Conns |-> "none"]
    /\ opener = [x \in Conns |-> NoCall]
    /\ unread = [x \in Conns |-> FALSE]
    /\ peer = [x \in Conns |-> "none"]
    /\ asked = [x \in Conns |-> NoCall]
    /\ got = [x \in Conns |-> 0]
    /\ owed = [x \in Conns |-> <<>>]
    /\ down = [x \in Conns |-> <<>>]
    /\ executed = [c \in Calls |-> 0]

-----------------------------------------------------------------------------
(* Pieces of the handlers.                                                 *)

(* The calls inside the `try` of _send_and_receive or of __call__.         *)
InTry == {"connecting", "sending", "awaiting", "reading"}

(* connection.close() on every connection of S, the connections of O being *)
(* opened.  What had arrived over the closed ones, and what the node would *)
(* still have sent, is lost.                                               *)
Swaps(S, O) ==
    /\ sock' = [x \in Conns |-> IF x \in S THEN "closed"
                                ELSE IF x \in O THEN "open" ELSE sock[x]]
    /\ down' = [x \in Conns |-> IF x \in S THEN <<>> ELSE down[x]]
    /\ owed' = [x \in Conns |-> IF x \in S THEN <<>> ELSE owed[x]]
Closes(S) == Swaps(S, {})

(* __call__ returns or raises: the lock is released, the pool left with p  *)
(* under the call's key, and the locals are gone.                          *)
Ends(c, o, p) ==
    /\ pc' = [pc EXCEPT ![c] = "done"]
    /\ lock' = NoCall
    /\ pool' = [pool EXCEPT ![KeyOf[c]] = p]
    /\ outcome' = [outcome EXCEPT ![c] = o]
    /\ conn' = [conn EXCEPT ![c] = NoConn]
    /\ canReconnect' = [canReconnect EXCEPT ![c] = FALSE]
    /\ written' = [written EXCEPT ![c] = 0]
    /\ head' = [head EXCEPT ![c] = NoHead]
    /\ left' = [left EXCEPT ![c] = 0]
    /\ expired' = [expired EXCEPT ![c] = FALSE]

(* `except BaseException`: the connection in play is closed, its key       *)
(* popped, and the exception goes on.                                      *)
FaultyFails(c, o) == \* a fault: popped and not closed
    /\ Ends(c, o, NoConn)
    /\ UNCHANGED <<sock, down, owed>>
Fails(c, o) ==
    /\ Ends(c, o, NoConn)
    /\ Closes({conn[c]})

(* The connection factory, under what is left of the deadline, after the   *)
(* connections of S are closed.  With nothing left it raises, and nothing  *)
(* stays pooled under the key; otherwise the pool holds p until the        *)
(* exchange is over.                                                       *)
OpensFresh(c, S, p) ==
    \/ /\ expired[c]
       /\ Ends(c, Error, NoConn)
       /\ Closes(S)
       /\ UNCHANGED opener
    \/ /\ ~expired[c]
       /\ \E y \in Conns :
            /\ sock[y] = "none"
            /\ conn' = [conn EXCEPT ![c] = y]
            /\ opener' = [opener EXCEPT ![y] = c]
            /\ Swaps(S, {y})
       /\ pc' = [pc EXCEPT ![c] = "connecting"]
       /\ lock' = c
       /\ pool' = [pool EXCEPT ![KeyOf[c]] = p]
       /\ canReconnect' = [canReconnect EXCEPT ![c] = FALSE]
       /\ written' = [written EXCEPT ![c] = 0]
       /\ UNCHANGED <<head, left, expired, outcome>>

(* self._connections.get(key)                                              *)
FaultyPooled(c) == \* a fault: whatever is pooled, under any key
    IF \E k \in Keys : pool[k] # NoConn
    THEN pool[CHOOSE k \in Keys : pool[k] # NoConn] ELSE NoConn
Pooled(c) == pool[KeyOf[c]]

(* _is_reused_connection_dead: the socket is readable with nothing asked.  *)
Readable(x) == down[x] # <<>> \/ peer[x] \in {"closed", "reset"}

-----------------------------------------------------------------------------
(* __call__, as far as the request is written.                             *)

(* The arguments are checked and the deadline is taken, before the lock.   *)
Begin(c) ==
    /\ pc[c] = "idle"
    /\ pc' = [pc EXCEPT ![c] = "waiting"]
    /\ UNCHANGED <<lock, pool, conn, local, expired, outcome, wire, executed>>

(* monotonic() passes the deadline.                                        *)
Expire(c) ==
    /\ pc[c] \notin {"idle", "done"}
    /\ ~expired[c]
    /\ expired' = [expired EXCEPT ![c] = TRUE]
    /\ UNCHANGED <<pc, lock, pool, conn, local, outcome, wire, executed>>

(* `with self._lock`, which no timeout bounds.                             *)
FaultyAcquires(c) == pc[c] = "waiting" \* a fault: no lock
Acquires(c) == pc[c] = "waiting" /\ lock = NoCall

(* Nothing is pooled under the key.                                        *)
OpenFresh(c) ==
    /\ Acquires(c)
    /\ Pooled(c) = NoConn
    /\ OpensFresh(c, {}, NoConn)
    /\ UNCHANGED <<unread, peer, asked, got, executed>>

(* The probe finds the kept connection dead, and it is replaced before     *)
(* anything is sent.                                                       *)
EvictDead(c) ==
    /\ Acquires(c)
    /\ Pooled(c) # NoConn
    /\ Readable(Pooled(c))
    /\ OpensFresh(c, {Pooled(c)}, NoConn)
    /\ UNCHANGED <<unread, peer, asked, got, executed>>

(* The probe finds it alive.  With no time left `_time_left` raises        *)
(* outside the `try`, and the connection, untouched, stays pooled.         *)
Reuse(c) ==
    LET x == Pooled(c) IN
    /\ Acquires(c)
    /\ x # NoConn
    /\ ~Readable(x)
    /\ \/ /\ expired[c]
          /\ Ends(c, Error, x)
       \/ /\ ~expired[c]
          /\ lock' = c
          /\ pc' = [pc EXCEPT ![c] = "sending"]
          /\ conn' = [conn EXCEPT ![c] = x]
          /\ canReconnect' = [canReconnect EXCEPT ![c] = TRUE]
          /\ UNCHANGED <<pool, written, head, left, expired, outcome>>
    /\ UNCHANGED <<wire, executed>>

(* request() on a fresh connection connects first.                         *)
Connect(c) ==
    /\ pc[c] = "connecting"
    /\ ~expired[c]
    /\ peer' = [peer EXCEPT ![conn[c]] = "open"]
    /\ pc' = [pc EXCEPT ![c] = "sending"]
    /\ UNCHANGED <<lock, pool, conn, local, expired, outcome, executed>>
    /\ UNCHANGED <<sock, opener, unread, asked, got, owed, down>>

(* One send.  The kernel takes a write into a connection the peer has      *)
(* closed, and loses it: the reset it draws may come before the next one.  *)
FaultySendUnit(c) == \* a fault: one write too many
    LET x == conn[c] IN
    /\ pc[c] = "sending"
    /\ ~expired[c]
    /\ written' = [written EXCEPT ![c] = @ + 1]
    /\ pc' = [pc EXCEPT ![c] =
                IF written[c] = ReqLen THEN "awaiting" ELSE "sending"]
    /\ UNCHANGED <<lock, pool, conn, canReconnect, head, left, expired, outcome>>
    /\ UNCHANGED <<wire, executed>>
SendUnit(c) ==
    LET x == conn[c] IN
    /\ pc[c] = "sending"
    /\ ~expired[c]
    /\ written' = [written EXCEPT ![c] = @ + 1]
    /\ pc' = [pc EXCEPT ![c] =
                IF written[c] + 1 = ReqLen THEN "awaiting" ELSE "sending"]
    /\ \/ /\ peer[x] = "open"
          /\ asked' = [asked EXCEPT ![x] = c]
          /\ got' = [got EXCEPT ![x] = IF asked[x] = c THEN @ + 1 ELSE 1]
          /\ UNCHANGED peer
       \/ /\ peer[x] = "closed"
          /\ \E p \in {"closed", "reset"} : peer' = [peer EXCEPT ![x] = p]
          /\ UNCHANGED <<asked, got>>
    /\ UNCHANGED <<lock, pool, conn, canReconnect, head, left, expired, outcome>>
    /\ UNCHANGED <<sock, opener, unread, owed, down, executed>>

(* A send raises one of _STALE_CONNECTION_ERRORS.  Over a connection that  *)
(* was reused, the call closes it and starts again on a fresh one; the     *)
(* pool keeps the closed one until that attempt is over.                   *)
FaultySendStale(c) == \* a fault: the reconnect's own failure reconnects
    /\ pc[c] = "sending"
    /\ peer[conn[c]] = "reset"
    /\ OpensFresh(c, {conn[c]}, pool[KeyOf[c]])
    /\ UNCHANGED <<unread, peer, asked, got, executed>>
SendStale(c) ==
    /\ pc[c] = "sending"
    /\ peer[conn[c]] = "reset"
    /\ \/ /\ canReconnect[c]
          /\ OpensFresh(c, {conn[c]}, pool[KeyOf[c]])
       \/ /\ ~canReconnect[c]
          /\ Fails(c, Error)
          /\ UNCHANGED opener
    /\ UNCHANGED <<unread, peer, asked, got, executed>>

-----------------------------------------------------------------------------
(* The response.                                                           *)

(* getresponse() reads the status line and the headers, and the connection *)
(* is pooled while its body is read.  An answer whose announced length is  *)
(* over the limit is refused before that.                                  *)
ReadHead(c) ==
    LET x == conn[c]
        h == Head(down[x]) IN
    /\ pc[c] = "awaiting"
    /\ ~expired[c]
    /\ ~(Guarded /\ unread[x])
    /\ down[x] # <<>>
    /\ h.kind = "head"
    /\ \/ /\ ~h.resp.err /\ h.resp.framing = "length" /\ h.resp.size > MaxBody
          /\ Fails(c, Error)
       \/ /\ h.resp.err \/ h.resp.framing # "length" \/ h.resp.size <= MaxBody
          /\ pc' = [pc EXCEPT ![c] = "reading"]
          /\ head' = [head EXCEPT ![c] = h]
          /\ left' = [left EXCEPT ![c] = Limit(h.resp) + 1]
          /\ down' = [down EXCEPT ![x] = Tail(@)]
          /\ pool' = [pool EXCEPT ![KeyOf[c]] = x]
          /\ UNCHANGED <<lock, conn, canReconnect, written, expired>>
          /\ UNCHANGED <<outcome, sock, owed>>
    /\ UNCHANGED <<opener, unread, peer, asked, got, executed>>

(* http.client's getresponse() over a connection whose last response was   *)
(* never closed: ResponseNotReady, with the request already written.       *)
RefuseResponse(c) ==
    /\ pc[c] = "awaiting"
    /\ Guarded
    /\ unread[conn[c]]
    /\ Fails(c, NotReady)
    /\ UNCHANGED <<opener, unread, peer, asked, got, executed>>

(* One read1() of _read_bounded that answers octets.                       *)
ReadUnit(c) ==
    LET x == conn[c] IN
    /\ pc[c] = "reading"
    /\ ~expired[c]
    /\ left[c] > 0
    /\ down[x] # <<>>
    /\ Head(down[x]).kind = "unit"
    /\ down' = [down EXCEPT ![x] = Tail(@)]
    /\ left' = [left EXCEPT ![c] = @ - 1]
    /\ UNCHANGED <<pc, lock, pool, conn, canReconnect, written, head, expired>>
    /\ UNCHANGED <<outcome, sock, opener, unread, peer, asked, got, owed, executed>>

(* The ways read1() answers b"".  The announced length has been read; the  *)
(* last chunk has come; or the peer has closed, which ends a body that has *)
(* no length and, http.client saying nothing of it, one that is short.     *)
AtLength(c) == head[c].resp.framing = "length" /\ Seen(c) = head[c].resp.size
AtLastChunk(c) ==
    /\ head[c].resp.framing = "chunked"
    /\ down[conn[c]] # <<>>
    /\ Head(down[conn[c]]).kind = "last"
AtClose(c) ==
    /\ head[c].resp.framing # "chunked"
    /\ ~AtLength(c)
    /\ down[conn[c]] = <<>>
    /\ peer[conn[c]] = "closed"

(* response.isclosed() when _read_bounded is done.                         *)
IsClosed(c) == IF AtLength(c) THEN ClosesAtLength ELSE left[c] > 0

(* What __call__ asks of an exchange to keep its connection: the node does *)
(* not close it, and an error body was read to its end.                    *)
FaultyKeeps(c) == ~head[c].resp.close \* a fault: a cut error body is kept
Keeps(c) == ~head[c].resp.close /\ (head[c].resp.err => IsClosed(c))

(* `return response.status, body_bytes`                                    *)
Answer(c) ==
    [kind |-> IF /\ head[c].resp.framing = "length"
                 /\ ~head[c].resp.err
                 /\ Seen(c) < head[c].resp.size THEN "short" ELSE "answer",
     from |-> head[c].call]

(* The end of the body, or the limit.  An answer over the limit is         *)
(* refused; an error body is cut to it.                                    *)
Finish(c) ==
    LET x == conn[c] IN
    /\ pc[c] = "reading"
    /\ \/ left[c] = 0
       \/ ~expired[c] /\ (AtLength(c) \/ AtLastChunk(c) \/ AtClose(c))
    /\ \/ /\ left[c] = 0 /\ ~head[c].resp.err
          /\ Fails(c, Error)
          /\ UNCHANGED unread
       \/ /\ left[c] > 0 \/ head[c].resp.err
          /\ ~Keeps(c)
          /\ Ends(c, Answer(c), NoConn)
          /\ Closes({x})
          /\ UNCHANGED unread
       \/ /\ left[c] > 0 \/ head[c].resp.err
          /\ Keeps(c)
          /\ Ends(c, Answer(c), x)
          /\ unread' = [unread EXCEPT ![x] = ~IsClosed(c)]
          /\ down' = [down EXCEPT ![x] =
                        IF left[c] > 0 /\ AtLastChunk(c) THEN Tail(@) ELSE @]
          /\ UNCHANGED <<sock, owed>>
    /\ UNCHANGED <<opener, peer, asked, got, executed>>

-----------------------------------------------------------------------------
(* The failures of an exchange.                                            *)

(* The deadline, in a connect, a send, a recv or the check before a read.  *)
FaultyTimesOut(c) == \* a fault: the reads of the body have no deadline
    /\ pc[c] \in InTry \ {"reading"}
    /\ expired[c]
    /\ Fails(c, Error)
    /\ UNCHANGED <<opener, unread, peer, asked, got, executed>>
TimesOut(c) ==
    /\ pc[c] \in InTry
    /\ expired[c]
    /\ pc[c] = "reading" => left[c] > 0
    /\ Fails(c, Error)
    /\ UNCHANGED <<opener, unread, peer, asked, got, executed>>

(* Any other exception: a host that refuses, a stream that ends where a    *)
(* status line or a chunk belongs, a reset seen by a read, a peer that     *)
(* speaks no HTTP, an interrupt.                                           *)
FaultyRaises(c) == \* a fault: the reconnect also answers a failed read
    /\ pc[c] \in InTry
    /\ \/ /\ pc[c] = "awaiting" /\ canReconnect[c]
          /\ OpensFresh(c, {conn[c]}, pool[KeyOf[c]])
       \/ /\ ~(pc[c] = "awaiting" /\ canReconnect[c])
          /\ Fails(c, Error)
          /\ UNCHANGED opener
    /\ UNCHANGED <<unread, peer, asked, got, executed>>
FaultyRaisesKeeping(c) == \* a fault: the failed connection stays pooled
    /\ pc[c] \in InTry
    /\ Ends(c, Error, conn[c])
    /\ UNCHANGED <<wire, executed>>
Raises(c) ==
    /\ pc[c] \in InTry
    /\ Fails(c, Error)
    /\ UNCHANGED <<opener, unread, peer, asked, got, executed>>

(* close(), and leaving the `with` block.                                  *)
CloseAll ==
    /\ lock = NoCall
    /\ \E k \in Keys : pool[k] # NoConn
    /\ Closes({pool[k] : k \in Keys})
    /\ pool' = [k \in Keys |-> NoConn]
    /\ UNCHANGED <<pc, lock, conn, local, expired, outcome>>
    /\ UNCHANGED <<opener, unread, peer, asked, got, executed>>

-----------------------------------------------------------------------------
(* The node.                                                               *)

(* It executes a request it holds whole, whether or not the client is      *)
(* still there to read the response.                                       *)
NodeExecutes(x) ==
    /\ peer[x] = "open"
    /\ got[x] = ReqLen
    /\ got' = [got EXCEPT ![x] = 0]
    /\ executed' = [executed EXCEPT ![asked[x]] = @ + 1]
    /\ \/ /\ sock[x] = "closed"
          /\ UNCHANGED owed
       \/ /\ sock[x] = "open"
          /\ \E r \in Responses :
                owed' = [owed EXCEPT ![x] = @ \o Items(asked[x], r)]
    /\ UNCHANGED <<client, sock, opener, unread, peer, asked, down>>

NodeSends(x) ==
    /\ peer[x] = "open"
    /\ sock[x] = "open"
    /\ owed[x] # <<>>
    /\ down' = [down EXCEPT ![x] = Append(@, Head(owed[x]))]
    /\ owed' = [owed EXCEPT ![x] = Tail(@)]
    /\ UNCHANGED <<client, sock, opener, unread, peer, asked, got, executed>>

(* An idle timeout, a shutdown, the end of a response with no length; or a *)
(* crash at any point, which resets.                                       *)
NodeCloses(x) ==
    /\ sock[x] = "open"
    /\ \/ peer[x] = "open" /\ peer' = [peer EXCEPT ![x] = "closed"]
       \/ peer[x] \in {"open", "closed"} /\ peer' = [peer EXCEPT ![x] = "reset"]
    /\ owed' = [owed EXCEPT ![x] = <<>>]
    /\ UNCHANGED <<client, sock, opener, unread, asked, got, down, executed>>

(* Every call has returned.                                                *)
Terminating ==
    /\ \A c \in Calls : pc[c] = "done"
    /\ UNCHANGED vars

CallStep(c) ==
    \/ Begin(c) \/ Expire(c)
    \/ OpenFresh(c) \/ EvictDead(c) \/ Reuse(c)
    \/ Connect(c) \/ SendUnit(c) \/ SendStale(c)
    \/ ReadHead(c) \/ RefuseResponse(c) \/ ReadUnit(c) \/ Finish(c)
    \/ TimesOut(c) \/ Raises(c)

NodeStep(x) == NodeExecutes(x) \/ NodeSends(x) \/ NodeCloses(x)

Next ==
    \/ \E c \in Calls : CallStep(c)
    \/ \E x \in Conns : NodeStep(x)
    \/ CloseAll
    \/ Terminating

Spec == Init /\ [][Next]_vars

(* What the scheduling justifies: the clock moves, a thread that waits for *)
(* a free lock gets it, and one whose deadline has passed, or whose body   *)
(* is read, is run.  Nothing is asked of the node.                         *)
Fairness ==
    \A c \in Calls :
        /\ WF_vars(Expire(c))
        /\ WF_vars(OpenFresh(c) \/ EvictDead(c) \/ Reuse(c))
        /\ WF_vars(TimesOut(c))
        /\ WF_vars(Finish(c))

FairSpec == Spec /\ Fairness

-----------------------------------------------------------------------------
(* Properties.                                                             *)

(* What a call, and the transport, may hold.                               *)
ClientTypeOK ==
    /\ pc \in [Calls -> {"idle", "waiting", "done"} \cup InTry]
    /\ lock \in Calls \cup {NoCall}
    /\ pool \in [Keys -> Conns \cup {NoConn}]
    /\ conn \in [Calls -> Conns \cup {NoConn}]
    /\ canReconnect \in [Calls -> BOOLEAN]
    /\ written \in [Calls -> 0 .. ReqLen]
    /\ head \in [Calls -> Item \cup {NoHead}]
    /\ left \in [Calls -> Nat]
    /\ expired \in [Calls -> BOOLEAN]
    /\ outcome \in [Calls -> Outcome]

(* What a connection may be.                                               *)
WireTypeOK ==
    /\ sock \in [Conns -> {"none", "open", "closed"}]
    /\ opener \in [Conns -> Calls \cup {NoCall}]
    /\ unread \in [Conns -> BOOLEAN]
    /\ peer \in [Conns -> {"none", "open", "closed", "reset"}]
    /\ asked \in [Conns -> Calls \cup {NoCall}]
    /\ got \in [Conns -> 0 .. ReqLen]
    /\ owed \in [Conns -> Seq(Item)]
    /\ down \in [Conns -> Seq(Item)]

(* Every variable has the values the code can give it.                     *)
TypeOK == ClientTypeOK /\ WireTypeOK /\ executed \in [Calls -> Nat]

(* "One lock guarding the whole exchange": a call that is between taking   *)
(* a connection and returning is the one that holds the lock, so no two    *)
(* calls ever drive one socket.                                            *)
WireIsHeld == \A c \in Calls : pc[c] \in InTry <=> lock = c

(* The reconnect resends only what no node can have executed: however the  *)
(* connections die, a call is executed at most once.                       *)
AtMostOnce == \A c \in Calls : executed[c] <= 1

(* An answer is the response the node made to this very call, and to no    *)
(* earlier one whose octets were still to come over the same connection.   *)
NoCrosstalk ==
    \A c \in Calls :
        outcome[c].kind \in {"answer", "short"} =>
            outcome[c].from = c /\ executed[c] = 1

(* What makes the probe unambiguous.  Between calls a pooled connection is *)
(* open here and has nothing asked, owed or unread on it, so that only the *)
(* node's own close can make it readable.                                  *)
PoolIsQuiet ==
    lock = NoCall =>
        \A k \in Keys : pool[k] # NoConn =>
            /\ sock[pool[k]] = "open"
            /\ down[pool[k]] = <<>>
            /\ owed[pool[k]] = <<>>
            /\ got[pool[k]] = 0

(* "Nothing failed is left pooled", and nothing is left open outside the   *)
(* pool: between calls the open connections are exactly the pooled ones.   *)
OpenIsPooled ==
    lock = NoCall =>
        \A x \in Conns : sock[x] = "open" <=> \E k \in Keys : pool[k] = x

(* A call opens at most one connection: the fresh one, the one that        *)
(* replaces a dead one, or the reconnect's, and never two of these.        *)
OneConnectionPerCall ==
    \A x, y \in Conns :
        opener[x] # NoCall /\ opener[x] = opener[y] => x = y

(* A connection is only ever used for the key it was opened for: a request *)
(* and its credential go to no other host.                                 *)
KeysAreApart ==
    /\ \A k \in Keys : pool[k] # NoConn => KeyOf[opener[pool[k]]] = k
    /\ \A c \in Calls : conn[c] # NoConn => KeyOf[opener[conn[c]]] = KeyOf[c]

(* A call whose deadline has passed returns, though the node never sends   *)
(* another octet and another call holds the lock.                          *)
EveryCallEnds == \A c \in Calls : pc[c] = "waiting" ~> pc[c] = "done"

(* "A success read stops only at the end of the body or by raising"        *)
(* (transport.py, in __call__): no success is answered short of the length *)
(* it announced.                                                           *)
AnswersAreWhole == \A c \in Calls : outcome[c].kind # "short"

(* "It keeps the connection http.client gives it and hands the same one to *)
(* the next call" (transport.py, SessionTransport): a call that reaches    *)
(* its response over a kept connection is not refused it.                  *)
KeptConnectionsServe == \A c \in Calls : outcome[c].kind # "notready"

(* The transport implements the exchange its callers are promised.         *)
Result(c) ==
    CASE outcome[c].kind = "none" -> "pending"
      [] outcome[c].kind \in {"error", "notready"} -> "failed"
      [] OTHER -> "answered"

Exchange == INSTANCE RpcExchange
    WITH runs <- executed, result <- [c \in Calls |-> Result(c)]

ImplementsExchange == Exchange!Spec
=============================================================================
