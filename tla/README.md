# Formal models of bitcoin-core-rpc

TLA+ modules, TLC configurations and TLAPS proofs about `bitcoin_core_rpc`
(`src/src/bitcoin_core_rpc`), a client of Bitcoin Core's JSON-RPC and REST
interfaces written over Python's standard library alone. The package is small
and mostly sequential; what is hard in it lies where it meets others: threads
that share one transport, a node that closes, crashes or restarts at any point,
a medium that may answer with someone else's reply, a body that stops anywhere
around a limit, and a deadline over all of it.

`PROJECT.json` maps every definition to the lines it models, and lists the runs,
the mutant each property is tested by, the findings and the hazards.

## 1. Inventory

The package has five modules, `errors < chains < transport < client` and
`__init__` in front. Its parts, from the wire up:

| part | state | operations | what is hard | what makes it correct |
|---|---|---|---|---|
| Deadline below the response (`_resolve`, `_connect`, `_DeadlineSocket`, `_DeadlineReader`, the deadline connections and handlers) | the `deadline` of a connection; a lookup's daemon thread | resolve, connect to each address, TLS handshake, send, recv | a resolver that answers late, several addresses, a peer that takes or gives one octet at a time | no step starts after the deadline or outlives it; a lookup's answer is used whole or not at all |
| Bounded read (`_read_bounded`, `_failure_body`) | buffer, `remaining` | read to a limit, refuse or cut | off by one at the limit; drips; announced sizes that lie | no more held than promised; at the limit is an answer; the deadline ends it |
| `urlopen_transport`, `http_request`, `_post_stream` | none between calls | one exchange | which exceptions become what, per transport; a failure's body that fails too | answer within its limit; a failure keeps its status |
| `SessionTransport` | the pool, one lock, one connection per key | `__call__` (probe, evict, reuse, one reconnect, status line, body, keep or drop), `close` | threads; a node that closes around the probe; leftovers of a cut body; an exception at any point | a call executed at most once; no answer to another call; nothing failed is pooled; a call's key is its own |
| Reading a reply (`_parsed_json_body`, `_reply_object`, `_discriminate`, `_legacy_result`, `_v2_result`, `_correlated_batch_replies`) | none | one reply, one batch | two protocol versions; status, id, error and result read in an order that matters; batches in any order | what a caller is told is what the node computed for that request |
| `BitcoinCoreRpcClient` | url, credentials, timeout, transport: fixed at construction | `call`, `call_batch`, `call_stream`, `call_raw`, `assert_chain`, `for_wallet`, `from_chain` | the above, and a node replaced behind one url | one call is one HTTP request |
| `JsonStream`, `_streamed_result` | buffer, position, offset, what is kept, how many containers are open | `members`, `items`, `skip`, `value`, `end` | tokens cut between chunks; a walk that stops half way; an id that comes after the result | reads what `json.loads` reads, in bounded memory |
| Params (`_params_member`, `_assert_json_params`, `_request_json`) | none | walk, then encode | the structure changes between the two | what is sent is what was walked, or a refusal |
| Credentials (`cookie_auth`, `cookie_path_from_chain`, `auth_header`) | the node's cookie file | read at each call | the node restarts and rewrites it; the path is swapped | a call authenticates to the node that runs now, or fails as such |
| `chains` | tables | ports, datadirs, magics, `_compact_size` | width boundaries | Core's encoding |
| `rpc_smoke.py` (a CI script) | a bitcoind it starts, its datadir | `node`, `wait_for_rpc`, the checks, `stop` | another process on the same port, a node that exits, warms up or answers nothing | it judges and stops its own node, and ends |
| `BitcoinCoreRestClient`, `RpcChannel` | a url and a transport; a client | `get_bin`, `get_json`; any method by name | a truncated binary answer | as `http_request` |
| `errors`, `__init__`, urls and headers, the other CI scripts, fuzz, docs | none of interest | | | |

How they interact: a client builds a request and hands it to `http_request`,
which calls one of the transports. `urlopen_transport` raises a status that is
no success as an `HTTPError`, and `http_request` reads its body;
`SessionTransport` reads every body itself; a transport of the caller's reads
whatever it likes; `call_stream` goes round `http_request`, through
`_post_stream`. All of them read bodies through `_read_bounded` or a loop like
it, and all sockets sit under the deadline classes. Replies come back as
`(status, bytes)` to the reading functions, which decide between a result, an
`RpcError`, an `HttpError` and a `FetchError`.

## 2. Modules

| module | models | stands on |
|---|---|---|
| `SessionTransport` | the class, the wire it drives and the node at its end | Naturals, Sequences |
| `RpcExchange` | what a caller is promised of each call: the abstract specification `SessionTransport` implements | Naturals |
| `SessionTransportMC` | the instances of it TLC checks | `SessionTransport` |
| `SessionTransportProofs` | theorems about it: the lock, at most one execution; the pool, whose answer an answer is, the refinement | `SessionTransport`, TLAPS |
| `HttpRequest` | `http_request` over its four kinds of transport, and the two bounded loops | Integers |
| `HttpRequestMC`, `HttpRequestProofs` | its instance and its theorems | `HttpRequest` |
| `RpcReply` | the reading of a reply, as operators | Naturals, Sequences |
| `RpcClient` | `call` and `call_batch` against a node and a medium | `RpcReply` |
| `RpcClientMC`, `RpcClientProofs` | its instance and its theorems | `RpcClient` |
| `Deadline` | the lookup, the connects, the handshake, the sends and the recvs of a call, against a clock | Naturals |
| `DeadlineMC`, `DeadlineProofs` | its instance and its theorems | `Deadline` |
| `JsonStream` | the scanner of `call_stream` over a document that comes in chunks | Integers, Sequences |
| `StreamedResult` | `call_stream` around it: the envelope, the walk, the failure's body, the wire | `JsonStream`, `RpcReply` |
| `JsonText` | a reading of a whole document, which is what the stream is measured against | |
| `StreamedResultMC`, `StreamedResultProofs` | its instance, with what `call` makes of the same body, and its theorems | `StreamedResult` |
| `JsonGrammar` | the grammar of json over the octets of the stream, with no reader in it | `JsonStream` |
| `JsonProofs` | that the stream tells an answer of json only, and keeps json only | `JsonGrammar`, `StreamedResultProofs` |
| `Params` | the two readings of a request's params, the walk and the encoder, beside another thread | Naturals, Sequences |
| `Chains` | the CompactSize prefix and the magic of a signet | Naturals, Sequences |
| `NodeLife` | processes behind one port and one cookie file, and one authenticated call | `Params`, `Chains` |
| `NodeLifeProofs` | that the prefix reads back; lemmas about the two readings of the params | `NodeLife` |
| `ChainClient` | `from_chain`, `assert_chain` and the calls of the client it makes | `NodeLife` |
| `SmokeTest` | the two programs over these: that client, and `rpc_smoke.py` | `ChainClient` |
| `SmokeTestMC`, `SmokeTestProofs` | its instance and its theorems | `SmokeTest`; the proofs also `NodeLifeProofs` |

An operator whose name begins with `Faulty` is the definition after it with a
plausible bug in it. Nothing uses it: the mutants of `PROJECT.json` put it in
the place of that definition, and the property named there then fails.

### SessionTransport

Each call of `__call__` is a process. Its state is the locals of
`_send_and_receive` and `__call__` that outlive a step (`conn`, whether the call
is inside the `try` that reconnects, what it has written, the head it has read,
`remaining`), and the shared state is `lock` and `pool`. A connection has two
ends and what is between them: what the node holds of a request (`got`), what it
has still to send (`owed`) and what has arrived (`down`).

| action | code (transport.py) |
|---|---|
| `Begin` | `__call__` up to the lock, 1320-1328 |
| `OpenFresh`, `EvictDead`, `Reuse` | the lock and the choice of a connection, 1255-1281; each has the branch where `_time_left` raises |
| `Connect`, `SendUnit` | `request()`, which connects first and writes |
| `SendStale` | `_STALE_CONNECTION_ERRORS` out of `request()`: the one reconnect, 1284-1292, or the failure |
| `ReadHead` | `getresponse()`, the pooling at 1299, and the announced size of `_read_bounded` |
| `RefuseResponse` | `http.client`'s `ResponseNotReady` |
| `ReadUnit`, `Finish` | `_read_bounded`, and keeping or dropping, 1349-1388 |
| `TimesOut`, `Raises` | every other exception: 1294-1297 and 1369-1375 |
| `CloseAll` | `close()` |
| `Expire` | the clock passes a call's deadline |
| `NodeExecutes`, `NodeSends`, `NodeCloses` | the node and the network |

The steps from the lookup in the pool to the choice of a connection are one
action, since the lock is held and nothing of the node's can be seen between
them but what the probe sees; between two sends, and between the probe and the
first send, the node may close or reset. A write into a connection the peer has
closed is taken by the kernel and lost, and the reset it draws may or may not
come before the next write: both are choices of `SendUnit`.

Two constants say what `http.client` does, which is not this package's code.
`ClosesAtLength`: does `read1()` close a response once its Content-Length is
read? `Guarded`: does `getresponse()` refuse while the previous response is
open? CPython has the guard; whether it closes at the length depends on the
patch release. The `_Connection` protocol, which is what the class promises to drive,
has no guard. The runs cover the protocol (no guard, which makes crosstalk as
easy as it can be) and the guarded client that does not close.

### HttpRequest

One request over one of four transports, with the octets of its body counted
one by one: `Open` decides the limit, whether the body is cut or refused, and
what an announced size does; `Read` takes any number of octets that one `recv`
may have brought, up to what the loop asks for; `Finish`, `ReadFails` and
`ReadTimesOut` are the ends of the loop and of the `except` around it;
`CallerAnswers` is the transport that has read whatever it liked; `Drip` and
`PeerCloses` are the peer. A reset behind a body read to its Content-Length is not
seen (`AtLength`): there `read1()` asks the socket for nothing.

The streamed post is here for the half of it that reads a failure, which is
bounded as the others are. A success leaves as `walk`.

### RpcReply and RpcClient

`RpcReply` is the reading of a reply, defined on a record of four members (`id`,
the version marker, `result`, `error`), each of which may be absent, null or
wrong. A value or an error object is named by the id of the request the node
computed it for, so "the answer is this request's" is something an invariant can
say. `LegacyResult`, `V2Result`, `Discriminate` and `Correlates` follow the order
in which the functions of those names ask their questions.

`RpcClient` puts a node before it (either version of the protocol, any order of
the members of a batch, a refusal of the whole exchange) and a medium between:
it may answer a call with any reply it has seen, or replace, spoil, drop or
repeat one member, or change the status or the shape. It does not forge: a value
it delivers is one the node made for the id it stands beside. `MaxMeddles` bounds
how often it touches one reply.

### Deadline

`SessionTransport` has the wire and one flag for the deadline; `Deadline` has the
clock, and of the wire only that an operation blocks, gives way or breaks. Its
state is what time is measured against: each call's own deadline (`due`),
`connection.deadline` (`attr`), which a kept connection carries from one call to
the next, and the timer of the operation under way; beside them the daemon
thread of a lookup, the addresses left, the last error, and how many sockets are
open.

| action | code (transport.py) |
|---|---|
| `Begin` | the deadline, taken before the lock, 1328 |
| `OpenFresh`, `EvictDead`, `Reuse` | the choice of a connection, with `_time_left`, 1255-1281 |
| `ResolveAddress`, `LookUp`, `JoinEnds`, `ReadAnswer`; `ResolverEnds` | `_resolve`; its thread, which may outlive the call |
| `TryAddress`, `NoSocket`, `Connected`, `AttemptFails`, `NoneLeft` | the loop of `_connect` and its three ways to fail |
| `HandshakeEnds` | the rest of `connect()` |
| `StartOp`, `SendTakes`, `RecvBrings`, `Answered` | `sendall`, `readinto`, and the end of `__call__` |
| `Reconnect`, `OpBreaks`, `OpTimesOut` | the `except` clauses of `_send_and_receive` and `__call__` |
| `Tick` | `monotonic()` |

Setting a socket's timeout and beginning the operation is one step, as is setting
the last one of `_connect` and beginning the handshake: what the code does between
them takes no time the model counts. Between two operations any time may pass, so
a call may find its deadline gone at each of them, and a blocked call may be woken
any time after what woke it. A `TimeoutError` that is an errno of the system is an
"error" here; "timeout" is the package's own.

The loop of `_connect` makes each socket outside its `try`, so an address family the
host cannot open ends the call with the other addresses untried (`NoSocket`). Nothing
in the repository says otherwise, so it is a remark and not a finding.

### JsonStream and StreamedResult

A document is a sequence of octets, each named by the class the scanner puts it
in; the stream brings it in reads of one to `Chunk` octets. The state is that of
the object (`offset`, `pos`, `ended`, what is kept and under which limit, `open`),
how much the stream has brought (`fetched`), and `todo`, the Python calls under way
with the innermost first: a method that has to read more stays at the head until
the octets are there, so that every token is cut at every octet.

| action | code (client.py) |
|---|---|
| `Fill`, `FillEnd`, `Receive`; `CutShort` | `_fill` and its refusal of a document cut short, the decoder that holds half a utf-8 sequence back |
| `Advance`, `Refuse` | `_advance`: the buffer, and the hard and the soft limit |
| `Space`, `Expect`, `Chars`, `Escape`, `Scalar` | `_at_end`, `_expect`, `_string`, `_escape`, `_scalar` |
| `Skip`, `Inside`, `After` | the loop of `skip`, over `open_` |
| `Keep`, `Take` | `value` and `_name` |
| `First`, `More` | the generators `members` and `items` |
| `EnvelopeMember`, `Store` | the loop of `_streamed_result` |
| `BeginWalk`, `WalkMember`, `Note`, `EndWalk` | the walk of the caller's, and the two counters after it |
| `Peek`, `End`, `Discriminated`, `Fail` | the rest of `_streamed_result`, ending in `_discriminate` |
| `ReadFailure` | `_failure_body` under a status that is no success |
| `Elapse` | the deadline, which `read(0)` looks at after a walk |

The walks are the ones a caller may write: skip the result, take it as a value,
take its members or its items one by one, stop at the first, read nothing, read past
the end, and catch a refusal. `Limits` are `_MAX_STREAM_NAME`, `max_body_size` and
what the walk passes to `value`.

`JsonText` is the other side of the comparison: the grammar of json as recursive
operators on the whole document. It shares no definition with the scanner.

### Params, Chains, NodeLife, ChainClient and SmokeTest

One specification in five layers; `SmokeTest` has `Init` and `Next`.

| action | code |
|---|---|
| `BeginRequest`, `NextMember`, `ReadItem`, `LeaveContainer`, `Interrupted` | `_request`: `_assert_json_params`, then `_request_json` (client.py); a dict resized while it is iterated |
| `Change` | another thread of the caller's, between any two reads |
| `StartNode`, `Bind`, `WriteCookie`, `Loaded`, `Leave`, `Crash` | bitcoind (external): the port first, the cookie next, the block index last |
| `AuthHeader`; `OpenCookie`, `JudgeCookie`, `ReadCookie` | `auth_header`, of a user and a password or of the cookie; `cookie_auth`: open, `fstat` of the descriptor, read |
| `Exchange` | the request, by what it comes to: `_discriminate` under each status is `RpcReply`'s |
| `Swap` | anybody who puts something else at the path |
| `FromChain`, `Verified` | `from_chain` with `verify_chain`; `_expected_magic` and `_assert_chain_info` are operators |
| `Calls`, `AsksAgain`, `Returns` | `call`, `call_raw`, and `assert_chain` of both clients |
| `PortIsFree`, `Spawn`, `Poll`, `Polled` | `port_is_free`, `node`, `wait_for_rpc` (rpc_smoke.py) |
| `Check`, `Checked`, `CheckCookie` | `smoke` and `smoke_chain`, one check after the other |
| `AskToStop`, `AskedToStop`, `Waited` | `stop`, in the `finally` |

A cookie is named by the node that wrote it, and a node runs once: a restart is
another node, with another cookie. The params of a member are a copy of the caller's
outermost container, everything inside is the caller's own, so `Change` reaches what
is inside and not the copy. A script is a model value with a length, and a magic the
pair that is hashed, which is to take the hash for free of collisions.

A client has a cookie path or a user and a password, and a node knows that user or
does not (`Service`). `smoke` is of regtest and makes every check below; `smoke_chain`
is of any chain, regtest too, and looks at the version, the cookie, the name of the
chain and `assert_chain`: `After` has both orders. What a check asks is a request with
the cookie, one with a made-up user (which has to be refused), or one of the REST
interface, which carries no credential; each group of REST requests stands behind the
authenticated call `check_rest` makes before it, and `check_session` has its calls
before the idle wait and the one after it. Checks made of authenticated calls alone,
one after another, are one step, and so are the REST requests of a group but for
`assert_chain` both ways. The REST request that has to be a 404 is left out. `heard`
is a variable of the past: the nodes whose answer ended the wait or passed a check.

## 3. Runs

| run | asks |
|---|---|
| `session_safety` | three calls, two keys, three connections, every shape of response around both limits, a node that closes or resets anywhere: one lock, at most one execution, no crosstalk, a quiet pool, no leaked or stale connection, keys apart; and the transport implements `RpcExchange` |
| `session_liveness` | every call that waits for the lock returns |
| `session_short_answer`, `session_kept_refused` | findings 1 and 2 |
| `http_limits` | every body up to two octets past the larger limit, every segmentation, close, reset and deadline at any point |
| `http_session_status` | finding 3 |
| `client_replies` | a lone call and a batch of two, replies altered once each |
| `client_member_failure` | finding 4 |
| `deadline` | two calls over one endpoint of each kind (an address or a name, http or https), a resolver that answers late or never, a peer that drips or breaks anything: whose deadline holds, what is left open, and that every call ends |
| `stream` | replies of every small shape, whole, cut and spoilt, in reads of every size, by every walk, over a wire that breaks or is late: what a streamed call tells, against what `call` tells |
| `stream_swallowed_refusal` | finding 5 |
| `node_life` | a client of `from_chain` over nodes that start, crash and replace each other; every signet meant against every signet served; params that change while they are read; and `rpc_smoke.py` beside another node on its port |

### What the properties say

* `AtMostOnce`: the reconnect re-sends only what no node can have executed.
  `ImplementsExchange` adds the order: an answer comes after the one execution of
  its call, and a call hears one outcome.
* `NoCrosstalk` and `PoolIsQuiet` together: an answer is this call's; and what
  makes it so is that between calls a pooled connection has nothing asked, owed
  or unread, which is what the docstring of `_is_reused_connection_dead` needs
  for its probe to mean what it says.
* `OpenIsPooled`: "nothing failed is left pooled" and its converse, nothing is
  left open outside the pool. Between calls only: during a reconnect the pool
  names a connection that is closed.
* `OneConnectionPerCall`: eviction and reconnect are not both spent by one call.
* `KeysAreApart`: a connection never serves a key it was not opened for.
* `WholeOrCut`, `RefusesOnlyOver`, `AnswerInLimit`, `HeldIsBounded`: four sides
  of the octet past the limit. `StatusSurvives`: a failure is answered under its
  status over three of the four transports.
* `AnswersAreOwn`, `EveryMemberIsKeyed`, `NothingOwnIsRefused`, `StatusOutranks`:
  what a batch or a call may be told, and may not be refused.

* `GivenWhatIsLeftOfItsOwn`: each operation begins before the deadline of the call
  that makes it and is given exactly what is left. It breaks where a kept connection
  keeps the deadline of the call before, where an attempt starts after a late lookup,
  and where an operation gets the whole timeout again. `TimesOutOnlyLate` is the
  other side: no call is cut short, and no failure is told as a timeout that is not.
* `SocketsAreClosed`: an attempt that connected too late, too, closes its socket.
* `EveryWaitEnds`: with no help from the resolver or the peer.

* `AnswersAsCall` is what `call_stream` promises: the error, the status or the result
  that `call` would have told of the same body, with every octet of the result the
  walk asked for, however the body was cut. `RefusedForCause` is the other side: a
  refusal is one of `call`'s, of a limit, of the walk or of the wire, and never of
  where a chunk ended. Their reference is `JsonText` with `RpcReply`.
* `WholeOrRefused`: a walk that left some of the result, read none or read past it is
  no answer, whatever the rest looks like from where it stopped. `LateWalkIsNoAnswer`:
  nor is one that ran past the deadline, though all of the reply may be in memory.
* `HeldIsBounded` of the stream: never more than one look-ahead and one chunk beside
  what is kept, and what is kept is within its limit. It holds between two calls of
  `_advance`: that method appends the octets it consumes (`client.py:988`) before it
  measures what it keeps, so inside of it there may be as many more as one token or one
  run of a string has in the buffer. The action `Advance` is the method as a whole.

* `RejectedOnlyIfReplaced`: a 401 comes from a node that was not the one serving when
  the call began. It is why the cookie is read at each call.
* `ReadsNeverBlock`: no file of a kind a read may wait on is read, though the path is
  swapped between any two steps.
* `RequestIsJson`: what is sent has json's names and values, whatever another thread
  changed after the walk; and with no such thread, the encoder refuses nothing the
  walk let through but a number of too many digits.
* `VerdictIsTrue`: `assert_chain` accepts only a node on the network meant, and
  disagrees only with one that is not: two signets have one name, one challenge has
  several spellings, and a node may not report what has to be compared.
* `SmokeIsItsOwn`: the script stops no node but its own and leaves none of its own
  running. Where it passes, its own node made every answer that ended the wait or passed
  a check, those too that prove nothing of who made them, the REST interface's and the
  401. And where it gave up on a refused cookie, its node was gone. It is the order of
  the checks that makes it so: the last is one by the cookie (one of the mutants has
  `check_session` before `check_rest`). `EverySmokeEnds`: in any company.

### Bounds, and why they are enough

`session_*`: two calls show every hand-over of a connection and a third every
one that follows a failure; with two keys both calls of one key and the
isolation of the other are seen; three connections are all that three calls can
open (`OneConnectionPerCall`). A request of two units is the least that can be
half written, and a limit of one unit gives bodies below, at, one over and two
over. `session_safety` and `session_liveness` take every response of these sizes,
in every framing. Connections are
symmetric in `session_safety`, where the only temporal formula is a safety one
and names no connection; no other run uses symmetry.

`http_limits`: a limit for answers (3) below the one for failures (4), so that
confusing them shows, a chunk (2) that divides one and not the other, bodies up
to 6; chunked bodies also with a Content-Length of none or too much.

`client_replies`: two members are the least that can be swapped, a lone call
beside them the least that can be mixed with another; one alteration a reply,
each of every kind, with the three replies of the other calls at hand. The
theorems have neither bound.

`deadline`: two calls, so that the second may find the connection of the first and
its deadline; a timeout of two ticks, so that a deadline may pass at once, half way
or not at all; two addresses, so that one may fail and leave the other no time; and
`MaxTime` of five, which lets the second call begin after the first has used all of
its time and still have all of its own.

`stream`: a chunk (3) above the shortest token and below most, so that a token is
cut once, twice or not at all, and reads of one octet up; two digits and two levels,
so that a number and a nesting at the bound and past it are short; a limit of five for
a value and eight for a name, so that the hard and the soft limit are met inside a
value; a failure's body of twelve. Every result of up to three of nine octets, which
is mostly what is no json, every prefix of one reply and every octet of it replaced
by any other are among the documents. Walks that catch a refusal are run on results
`call` accepts; on the others they are finding 5.

`node_life`: two nodes are the one that was there and the one that came after; one
change by another thread, at any point of the two readings, to containers shared, nested and
inside themselves; two levels of params and an interpreter's stack of four; an octet of
four values, so that a script crosses a width. The bounds that keep the scenarios
apart: where params change no node runs and the path is not swapped. The theorems
have none of them.

Deadlock is checked in every run; `Terminating` is the end of a program's calls.

### Fairness

`SessionTransport`: the clock moves (`Expire`); a thread that waits for a free
lock gets it, weakly, since every call ends once and cannot take it again; a
thread whose deadline has passed, or whose body is read, is run. Nothing is
asked of the node or of the network, so the deadline alone ends a call: this is
what `EveryCallEnds` says. It does not say the call ends *by* its deadline, and
it does not: the wait for the lock is not bounded by it.

`HttpRequest`: the same, for one request.

`Deadline`: the clock ticks, a waiting call gets a lock that stays free, and a
thread that can run does, which includes one whose timer has run out. The resolver
and the peer may do nothing for ever.

`SmokeTest`: the script and its calls run, each call comes to something (its timeout
sees to that), and so do the two waits, for STARTUP_TIMEOUT and for the process to
exit. No node has to do anything. `StreamedResult` has no fairness: its call is a
loop over a stream whose reads end by the deadline of `HttpRequest`.

## 4. Findings

1. **A short success is answered as whole** (`session_short_answer`). "A success
   read stops only at the end of the body or by raising" (transport.py:1365) is
   not so: `read1()` answers `b""` when the peer closes before the Content-Length,
   `_read_bounded` takes that for the end, and the caller gets a 200 with part of
   the body. The JSON parser then refuses it in most cases; a binary REST answer
   has no parser.
2. **A kept connection may refuse its next response** (`session_kept_refused`).
   Where `read1()` leaves a response open at its length, as the earlier patch releases
   of CPython 3.11 do (up to 3.11.7: it is a matter of the patch release), the
   next call over the connection writes its request and then fails with
   `ResponseNotReady`: the node executes a call whose caller gets a `FetchError`.
   The error path asks `isclosed()`; the success path assumes it.
3. **A failure over `SessionTransport` can lose its status**
   (`http_session_status`). `http_request` promises that a status comes back like
   any other, and keeps it over urlopen when the body fails too; over
   `SessionTransport` the failing read raises, and the caller sees a `FetchError`. The
   trace has the head of a failing status received, and then the deadline passing (or
   the peer's reset: both are as short) before the body is read to its end.
4. **One unreadable member fails a batch** (`client_member_failure`).
   `call_batch` says only a failure of the whole exchange raises; a member whose own
   reply is attributable and malformed raises too, and the other answers go.
5. **A walk that catches a refusal makes an answer of what is no json**
   (`stream_swallowed_refusal`). `call_stream` says "The reply is refused wherever
   `call` would refuse it" (client.py:1876) and that a walk which returns before it has
   read the whole result is refused (1873). A `JsonStream` does not remember that it
   refused, and `_streamed_result` looks at two counters (1271-1278), which a refused
   value may leave as a whole one would.

Two remarks. A walk that asks twice where the result has one value reads the next octets
as another one, and a reply with `"result":1 2` in it is answered: "Each value is consumed
once, in order, and every step consumes one" (the docstring of `JsonStream`) has no check
of its own outside of a container. It is the same want as that of finding 5.
And a dict another thread resizes while it is walked or encoded leaves `call` by
a bare `RuntimeError` (`Interrupted`). The docstrings say of `call`'s exceptions nothing
that excludes it.

## 5. Proofs

All theorems but `PrefixReadsBack` are of the form `Spec => []P`, `Spec => [][A]_vars`
or a refinement, for every value of the constants under the named assumptions of the modules: `CallsAssumption`, `WireAssumption`
and `ClientAssumption` of `SessionTransport` (keys are keys, sizes are numbers, a
response without a length closes), `LimitsAssumption` and `ResponsesAssumption` of
`HttpRequest`, `IdsAssumption` and `CallsAssumption` of `RpcReply` and `RpcClient`
(an id is never drawn twice, which `_rpc_id` makes so with 128-bit randomness in
practice), `StreamAssumption` of `JsonStream`, and `TextsAssumption`,
`NodesAssumption`, `ParamsAssumption` and `HostAssumption` of the node's life (a node
reports the challenge of the network it is on, nobody but the script's node writes to
the script's datadir, and the params are of containers and leaves, with no bound on
their number, shape or depth; they may share containers and hold themselves). TLC
evaluates each on the runs.

* `SessionTransportProofs`
  * `TypeCorrect`. Not inductive as stated: that `written` stays within `ReqLen`
    needs that a call which sends has written less. The invariant carries that,
    and that a call in its `try` has a connection.
  * `WireHeld`: the calls inside a `try` are the holder of the lock and no other.
  * `ExecutedAtMostOnce`. The argument is the one the class's docstring makes, in
    three parts of `IndInv`. `WrittenOK`: a call that has not written its whole
    request has been executed nowhere, no connection, this one or one it has left,
    holds a whole copy, and the one it writes to holds no more than it wrote.
    `WholeOK`: at most one connection ever holds a whole copy, and while it does the
    call has not been executed. `RequestsOK` and `SentOverOpen`: a fresh connection
    holds nothing of an earlier request. `StepKinds` sorts every step into those
    that touch no request (`Quiet`, where a reconnect may only happen before the
    request is whole), the sends and the executions; each kind keeps the three.
  And on top of that invariant, in two layers, what is kept between calls.
  * `KeysStayApart`, `OneConnectionEach` and `OpenStaysPooled` need who opened what and
    who has it (`HeldInv`): a connection is opened by one call, for that call's key; a
    call that may still reconnect has opened none; what is open is pooled or in use;
    and the pool names a closed connection only under the key of the call under way.
  * `PoolStaysQuiet` and `AnswersAreOnesOwn` need what is on the wire (`WireInv`). Over
    the connection in use there is, until the node has executed the request, nothing
    but what the call wrote; from then on, what has arrived and what is owed are the
    items of one response to that call, behind those it has read (`Follows`). So a
    response read to its end leaves nothing, and one that was not is never kept. Over
    every other connection there is nothing.
  * `ImplementsRpcExchange`: every step of the transport is a step of `RpcExchange` or a
    stutter of it: an execution of a call never executed before, or the one outcome
    of a call, which is an answer only after its execution.
* `HttpRequestProofs`
  * `ReaderIsBounded`: while reading, `buffer + remaining` is the allowance the
    loop began with.
  * `AnswerIsBounded`, on top of it: a cut body was cut to the limit of its status.
  * `RequestTyped`: `remaining` never becomes negative.
  * `AnswersWholeOrCut`, `RefusesOnlyWhatIsOver` and `StatusOutlivesItsBody`, with
    `ReadsThisBody`: what the loop holds has come, and what has come is of this body,
    so to hold the octet past the limit is to have been sent it.
* `RpcClientProofs`
  * `CorrelatedIsTotal` (a lemma): a sequence of replies as long as that of the
    ids, each attributed to one of them and no two to the same, has one for every
    id. It is the comment at client.py:822-826, by way of the finiteness of the
    ids: an injection of a finite set into one of the same size is onto.
  * `MembersKeyed`: hence `call_batch` never leaves by a `KeyError`.
  * `AnswersOwn`: hence, with the invariant that every value on its way stands
    beside the id it was computed for (whatever the medium has done to its reply),
    an answered member has the node's own answer. Neither the length of a batch nor
    the number of alterations is bounded.
  * `OwnIsNeverRefused` and `StatusAlwaysOutranks`: a reply nothing altered is one the
    node could make (`FromNode`), in some version, with some results and in some order;
    each such reply is read, alone or in a batch of any length.
  * `ClientTyped`.

* `DeadlineProofs`, for any number of calls and addresses and any timeout
  (`TimesAssumption`, `NamesAssumption`). The invariant has four parts: `Held` (the
  call inside the transport is the holder of the lock), `OwnDeadline` (the connection
  it drives carries its deadline, and a timer runs to that), `LateIsLate` (a lookup
  still running behind a join that gave up, and a last error that is a timeout, are
  seen at the deadline or later) and `SocketsCounted` (the holder has one socket or
  none, by where it is). None of the properties is inductive without the first two.
  * `OwnDeadlineHolds`, `NoTimeoutIsEarly`: the two action properties.
  * `NoSocketIsLeft`, and `DeadlineTyped`, whose count of sockets never below zero
    says none is closed twice.

* `StreamedResultProofs`, for any reply, walk, chunk and limits. Its properties are of
  the scanner's stack of calls, and the invariant of each says what may stand in it.
  * `StreamTyped` and `StreamIsBounded`. The bound of the depth looks like the weak
    point of `skip`, which checks it in one place and enters the container in another.
    "inside" is only ever the innermost call, and where it is there is room for one
    level more.
  * `LateIsRefused`: the action property `LateWalkIsNoAnswer`. Where the wire is late while
    the walk runs, `Late` holds from then on: the call has a failure to tell, or the
    reply is still to be read behind what is under way, and a read on a late wire
    refuses, `read(0)` too. It needs the order of the stack (`Order`): one walk, which
    stands in front of what reads the rest of the reply, and nothing in between that
    could answer. What the walk catches is caught inside of it, so a walk that swallows
    the refusal of its own read meets another one when it returns.
  * `NumbersKept`: a number the scanner consumes ends where it ends in the whole
    document, in memory or not, unless the wire broke. What it looks at is the longest
    number of at most `MaxNumber` octets in the buffer, and it looks only when it has
    one octet more than that or the end. The lemma `NumberPrefix` does the rest: of a
    number no octet more of which is digits, nothing longer begins that way.
  * `AllIsRead`: a result, or an error of the node's under a good status, is told only with
    every octet of the document consumed. The two calls behind all the others are the
    one that looks for the end and the one that reads the reply (`Bottom`), until
    nothing is left of the document.
  * `FailureToldByItsBody`: under a failing status, the call is told what the first
    `MaxError` octets of the body say, in whatever chunks they came. Only where the wire
    broke or the deadline passed may it be what an empty body says, which is the status
    alone.

  The last three have no run of their own: each is the part of `AnswersAsCall` that can
  be told without a reader to compare with.
* `JsonProofs`, for any reply, chunk and limits.
  * `AnsweredOfJson`, for the walks that read the values of the result one after another: a
    result or an error of the node's is told under a good status only of octets that are,
    as a whole, a document of json, and utf-8. `JsonGrammar` says what that is with the
    rules of json.org: a document is an element of every family of sets that is closed
    under them. So the theorem compares the scanner with no other reader, and needs no
    induction over the document: a family is fixed, and each step of the scanner is a rule
    of it.
  * The invariant is about what is still to be read. `Completes` is the language of the
    stack of calls, one piece for each call of it (`May`): the octets that would bring the
    stack to the reading of the reply. `Faithful` says that what was consumed, followed by
    any word of that language, is an element of the family. Every step keeps it: a step
    that consumes x and leaves another stack has to show that x followed by a word of the
    new stack is one of the old (`Serves`), which is a lemma for each step of
    `JsonStream` and for each thing the program pushes. When all is read the language is
    the empty word alone, and what was consumed is the document.
  * It needs that the stack is in order: that a generator returns with the containers
    closed that it opened (`NestOK`), that nothing of one walk catches a refusal of
    another (`Lacks`). That two octets of one character stand together comes from the
    wire, of which every octet is decoded before it is looked at (`Utf8Part`).
  * Two kinds of walk are outside of `AnsweredOfJson`. One that swallows a refusal goes on
    behind it (finding 5 of section 4 is what that may do); and the walk `beyond`, which
    asks twice for one value (a remark of section 4).
  * `KeptIsJson`, for every walk, these included: what `value` and `_name` have kept when
    they take it is a document of json by itself, and utf-8. It is what the comment at
    `client.py:1150-1152` promises of the `json.loads` that follows, as far as grammar and
    utf-8 go: "the parser has nothing left to refuse" (the depth is in `HeldIsBounded`).
    The invariant reads the stack up to the call that takes (`Proper`): what is kept,
    followed by any word of that part of the stack, is an element of the family. A refusal
    that is caught keeps nothing, so nothing of one walk reaches what another keeps. It
    needs that behind a call that keeps there is one value, or one string, and the call
    that takes it (`Backs`), and that only the steps of a value come before (`TakeOK`).
    That no half of a character is kept is the theorem's own instance of the grammar: one
    of the families is that of the sequences which neither begin nor end inside a character
    (`Unbrokens`), and what is kept is a stretch of the stream (`Stretch`).
* `NodeLifeProofs`
  * `PrefixReadsBack`, with octets of 256 values and for every length below 2^64, by
    Euclid's division at each width. No run has its property: the lengths where the
    width changes are beyond what TLC can count.
  * Lemmas about the two readings of the params, which `RequestsAreJson` rests on.
    A container may be entered any number of times, at several depths, and hold itself;
    so the walk is not followed container by container. There is a set H of pairs of a
    container and a depth, which holds what the walk has entered. Each pair of H is on
    the path, vetted up to the item its loop is at, or vetted to its end; and what it
    holds is in H, one level down. When the walk is over no pair is on the path any more,
    so all of H is vetted, and the encoder, which enters the same containers at the same
    depths, never leaves H: it meets no name or value the walk would have refused, and
    its stack is never deeper than the walk's bound. The set is a witness that no
    variable names: each step of the walk gives a new one. With a change by another
    thread there is no such set, and what is written is json's because the encoder looks
    at each value itself.
* `SmokeTestProofs`, for any number of nodes, whatever they serve.
  * `RejectedOnlyWhenReplaced`: while the node that served when a call began lives,
    nobody else's cookie is at the path, was opened or was read (`BegunOK`); for that,
    only the holder of the port writes a cookie (`NodesOK`) and nodes only ever age
    (`Ages`).
  * `NoReadBlocks`; `VerdictStaysTrue`; and `SmokeTouchesItsOwn`: in the script's datadir
    there is no cookie but its own node's, so an authenticated answer is its own, and a
    refusal means its node is gone (`OutcomeOK`, `PlacesOK`, `ScriptOK`). For the answers
    that prove nothing there is `HeardOK`: from its first answer on the script's node
    holds the port until it is gone, so any other answer means that it is gone; then no
    later answer is one by the cookie, and the last check, which wants one, fails. So the
    answer of the last check vouches for all before it.
  * `RequestsAreJson`, with the lemmas of `NodeLifeProofs`: the steps outside of the two
    readings leave the params alone, and a call begins with containers no path is in.
  * `TypesHold`: the types not already in these invariants, which need where a call is
    (`CallTyped`), where a loop over the params is (`PathTyped`) and where each of the
    two programs is (`ProgramTyped`).

Only model-checked:

* `AnswersAsCall`, `RefusedForCause` and `WholeOrRefused`: they compare with a recursive
  reader of whole documents, and what that computes for every document is an induction
  over data, which is beyond the prover. `AnsweredOfJson` is the half of it that needs no
  such reader: what is answered was json. `KeptIsJson` says it of each value that is kept.
* `EveryCallEnds`, `EveryRequestEnds`, `EveryWaitEnds` and `EverySmokeEnds`: liveness under
  fairness is beyond the prover.

## 6. Not modelled

* Strings: urls, headers, paths, percent-encoding, messages, and the numbers of a
  reply. They are conversions whose cases a test lists.
* TLS and the resolver, but for the time they take.
* The deadline a connection of urlopen takes for itself (`transport.py:403`). It is a
  later one than the request's, by what building the connection takes (over https,
  loading the trust store), so the last operation of a request over urlopen may end
  that much after the request's own deadline; `_read_bounded` then refuses what it
  brought, unless that fills the limit of a failure's body.
* Readability of a TLS socket for reasons other than its end (session tickets):
  the probe would evict a live connection, which costs a connect and nothing else.
* An interrupt between two bytecodes (`transport.py:1299` and the `try` at 1341):
  the model has an interrupt in every step, not between the halves of one.
* The numbers of a reply (`_json_number`) and of a request (`_assert_json_number`): decimal
  arithmetic and the interpreter's limits. `JsonStream` has the grammar of a number, and
  `Params` that an encoder may refuse one for its digits.
* The types of the arguments of the public functions, `for_wallet`, and `RpcChannel`: they
  refuse or rename, and keep no state.
* `get_bin` of the REST client differs from `get_json` in what it hands back; `HttpRequest`
  has its exchange, `NodeLife` a REST request without a credential.
* What is in the tables of `chains`, the exceptions, the package front, the harnesses, and
  the CI scripts but for the life of the node in `rpc_smoke.py`: what its other checks
  compare is what the package's tests compare.

## 7. Plan

What is left, in the order of what it would add:

1. The deadline urlopen's connection takes for itself, as a third kind of call in
   `Deadline`.
2. `get_bin` over `HttpRequest`, whose short answer (finding 1) no parser sees.
3. Proofs: the converse of `AnsweredOfJson`, that json within the limits is never refused
   for its grammar.
