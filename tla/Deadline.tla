------------------------------ MODULE Deadline ------------------------------
(***************************************************************************)
(* The deadline below the response: what holds the lookup of a host, each  *)
(* connect attempt, the TLS handshake, every send and every recv of a call *)
(* over `SessionTransport` to one reading of the clock, the one the call   *)
(* took before it asked for the lock.                                      *)
(*                                                                         *)
(* SessionTransport.tla has the wire and one flag for the deadline; here   *)
(* is the clock, and of the wire only that an operation blocks, gives way  *)
(* or breaks.  All calls go to one endpoint.  An operation's timer is set  *)
(* and the operation begun in one step: between the two the code does      *)
(* nothing.  Between two operations any time may pass, and a blocked call  *)
(* may be woken any time after what woke it.                               *)
(***************************************************************************)
EXTENDS Naturals

CONSTANTS
    Calls,          \* the calls made, each once
    NoCall, NoTimer,
    Timeout,        \* the timeout of a call
    MaxAddresses,   \* the most addresses a lookup answers
    MaxTime         \* the bound on the clock

ASSUME TimesAssumption ==
    /\ Timeout \in Nat \ {0}
    /\ MaxTime \in Nat
    /\ MaxAddresses \in Nat \ {0}
ASSUME NamesAssumption ==
    /\ NoCall \notin Calls
    /\ NoTimer \notin Nat

VARIABLES
    host,       \* the endpoint: is it written as an address, is it https
    now,        \* monotonic()
    pc,         \* where each call is
    due,        \* the deadline each call took
    lock,       \* the call holding self._lock, or NoCall
    kept,       \* a connection is pooled
    reused,     \* the holder writes to the connection it found pooled
    attr,       \* connection.deadline
    timer,      \* when the operation under way gives up
    lookup,     \* the daemon thread of each call's lookup
    left,       \* the addresses _connect has still to try
    error,      \* the last error of _connect
    sockets,    \* how many sockets are open
    outcome     \* what each call came to

vars == <<host, now, pc, due, lock, kept, reused, attr, timer, lookup, left,
          error, sockets, outcome>>

-----------------------------------------------------------------------------
Hosts == [numeric : BOOLEAN, tls : BOOLEAN]

(* Where a call may be; in those of Inside it holds the lock, in those of  *)
(* Socketed its connection has a socket.                                   *)
Socketed == {"handshaking", "sending", "receiving"}
Inside == {"resolving", "joining", "joined", "choosing", "connecting"}
              \cup Socketed
Places == {"idle", "waiting", "done"} \cup Inside

(* A "timeout" is the package's own: an errno of the system that Python    *)
(* spells TimeoutError too is an "error" like any other.                   *)
Failures == {"timeout", "error"}
Lookups == {"none", "running", "answered", "failed"}

FlagsOK == kept \in BOOLEAN /\ reused \in BOOLEAN

TypeOK ==
    /\ FlagsOK
    /\ host \in Hosts
    /\ now \in Nat
    /\ pc \in [Calls -> Places]
    /\ due \in [Calls -> Nat]
    /\ lock \in Calls \cup {NoCall}
    /\ attr \in Nat
    /\ timer \in Nat \cup {NoTimer}
    /\ lookup \in [Calls -> Lookups]
    /\ left \in Nat
    /\ error \in Failures
    /\ sockets \in Nat
    /\ outcome \in [Calls -> {"none", "answer"} \cup Failures]

Init ==
    /\ host \in Hosts
    /\ now = 0
    /\ pc = [c \in Calls |-> "idle"]
    /\ due = [c \in Calls |-> 0]
    /\ lock = NoCall
    /\ kept = FALSE
    /\ reused = FALSE
    /\ attr = 0
    /\ timer = NoTimer
    /\ lookup = [c \in Calls |-> "none"]
    /\ left = 0
    /\ error = "error"
    /\ sockets = 0
    /\ outcome = [c \in Calls |-> "none"]

-----------------------------------------------------------------------------
(* Pieces of the handlers.                                                 *)

At(c, place) == pc[c] = place
Goes(c, place) == pc' = [pc EXCEPT ![c] = place]

(* `_time_left` and `_seconds_left` answer, or raise.                      *)
TimeLeft(c) == now < due[c]
SecondsLeft == now < attr

(* The next operation is given what is left of connection.deadline.        *)
GivenWhatIsLeft == timer' = attr
NotBlocked == timer = NoTimer
Expired == timer # NoTimer /\ timer <= now

(* __call__ returns or raises with o, the pool and the open sockets being  *)
(* left as they are.                                                       *)
Ends(c, o) ==
    /\ Goes(c, "done")
    /\ outcome' = [outcome EXCEPT ![c] = o]
    /\ lock' = NoCall
    /\ timer' = NoTimer

(* An exception inside the `try` of _send_and_receive or of the read: the  *)
(* connection is closed and dropped.                                       *)
FaultyRaises(c, o) ==
    /\ Ends(c, o)
    /\ kept' = FALSE
    /\ sockets' = sockets - 1

Raises(c, o) ==
    /\ Ends(c, o)
    /\ kept' = FALSE
    /\ sockets' = IF pc[c] \in Socketed THEN sockets - 1 ELSE sockets

lookups == <<lookup, left, error>>

-----------------------------------------------------------------------------
(* The call takes its deadline, before the lock.                           *)
Begin(c) ==
    /\ At(c, "idle")
    /\ now + Timeout <= MaxTime
    /\ due' = [due EXCEPT ![c] = now + Timeout]
    /\ Goes(c, "waiting")
    /\ UNCHANGED <<host, now, lock, kept, reused, attr, timer, lookups, sockets,
                   outcome>>

(* The lock is taken, and nothing is pooled: a connection is made, or      *)
(* `_time_left` raises.                                                    *)
OpenFresh(c) ==
    /\ At(c, "waiting") /\ lock = NoCall
    /\ ~kept
    /\ reused' = FALSE
    /\ \/ /\ TimeLeft(c)
          /\ lock' = c
          /\ attr' = due[c]
          /\ Goes(c, "resolving")
          /\ UNCHANGED <<timer, outcome>>
       \/ /\ ~TimeLeft(c)
          /\ Ends(c, "timeout")
          /\ UNCHANGED attr
    /\ UNCHANGED <<host, now, due, kept, lookups, sockets>>

(* The probe finds the pooled connection dead: it is closed and popped,    *)
(* and replaced as if there had been none.                                 *)
EvictDead(c) ==
    /\ At(c, "waiting") /\ lock = NoCall
    /\ kept
    /\ kept' = FALSE
    /\ sockets' = sockets - 1
    /\ reused' = FALSE
    /\ \/ /\ TimeLeft(c)
          /\ lock' = c
          /\ attr' = due[c]
          /\ Goes(c, "resolving")
          /\ UNCHANGED <<timer, outcome>>
       \/ /\ ~TimeLeft(c)
          /\ Ends(c, "timeout")
          /\ UNCHANGED attr
    /\ UNCHANGED <<host, now, due, lookups>>

(* The probe finds it alive.  A `_time_left` that raises here raises       *)
(* outside the `try`: the connection stays pooled, nothing having been     *)
(* sent over it.                                                           *)
FaultyReuse(c) ==
    /\ At(c, "waiting") /\ lock = NoCall
    /\ kept
    /\ \/ /\ TimeLeft(c)
          /\ lock' = c
          /\ reused' = TRUE
          /\ Goes(c, "sending")
          /\ UNCHANGED <<timer, outcome>>
       \/ /\ ~TimeLeft(c)
          /\ Ends(c, "timeout")
          /\ UNCHANGED reused
    /\ UNCHANGED <<host, now, due, kept, attr, lookups, sockets>>

Reuse(c) ==
    /\ At(c, "waiting") /\ lock = NoCall
    /\ kept
    /\ \/ /\ TimeLeft(c)
          /\ lock' = c
          /\ reused' = TRUE
          /\ attr' = due[c]
          /\ Goes(c, "sending")
          /\ UNCHANGED <<timer, outcome>>
       \/ /\ ~TimeLeft(c)
          /\ Ends(c, "timeout")
          /\ UNCHANGED <<reused, attr>>
    /\ UNCHANGED <<host, now, due, kept, lookups, sockets>>

-----------------------------------------------------------------------------
(* `_resolve`.                                                             *)

(* A host written as an address consults no resolver.                      *)
ResolveAddress(c) ==
    /\ At(c, "resolving")
    /\ host.numeric
    /\ left' = 1
    /\ error' = "error"
    /\ Goes(c, "choosing")
    /\ UNCHANGED <<host, now, due, lock, kept, reused, attr, timer, lookup,
                   sockets, outcome>>

(* The thread is started and waited for, not at all where the deadline is  *)
(* gone by then.                                                           *)
FaultyLookUp(c) ==
    /\ At(c, "resolving")
    /\ ~host.numeric
    /\ lookup' = [lookup EXCEPT ![c] = "running"]
    /\ timer' = NoTimer
    /\ Goes(c, "joining")
    /\ UNCHANGED <<host, now, due, lock, kept, reused, attr, left, error,
                   sockets, outcome>>

LookUp(c) ==
    /\ At(c, "resolving")
    /\ ~host.numeric
    /\ lookup' = [lookup EXCEPT ![c] = "running"]
    /\ \/ SecondsLeft /\ GivenWhatIsLeft /\ Goes(c, "joining")
       \/ ~SecondsLeft /\ UNCHANGED timer /\ Goes(c, "joined")
    /\ UNCHANGED <<host, now, due, lock, kept, reused, attr, left, error,
                   sockets, outcome>>

(* The thread gets its answer or an exception, if it ever does: the call   *)
(* may be over by then.                                                    *)
ResolverEnds(c) ==
    /\ lookup[c] = "running"
    /\ \E r \in {"answered", "failed"} : lookup' = [lookup EXCEPT ![c] = r]
    /\ UNCHANGED <<host, now, pc, due, lock, kept, reused, attr, timer, left,
                   error, sockets, outcome>>

JoinEnds(c) ==
    /\ At(c, "joining")
    /\ lookup[c] # "running" \/ Expired
    /\ timer' = NoTimer
    /\ Goes(c, "joined")
    /\ UNCHANGED <<host, now, due, lock, kept, reused, attr, lookups, sockets,
                   outcome>>

(* `answer` is read: what the thread put there may have come after the     *)
(* join gave up, and is then used as if it had come before.                *)
FaultyReadAnswer(c) ==
    /\ At(c, "joined")
    /\ \/ /\ lookup[c] = "answered"
          /\ left' \in 1 .. MaxAddresses
          /\ error' = "error"
          /\ Goes(c, "choosing")
          /\ UNCHANGED <<lock, kept, timer, sockets, outcome>>
       \/ /\ lookup[c] # "answered"
          /\ Raises(c, "timeout")
          /\ UNCHANGED <<left, error>>
    /\ UNCHANGED <<host, now, due, reused, attr, lookup>>

ReadAnswer(c) ==
    /\ At(c, "joined")
    /\ \/ /\ lookup[c] = "answered"
          /\ left' \in 1 .. MaxAddresses
          /\ error' = "error"
          /\ Goes(c, "choosing")
          /\ UNCHANGED <<lock, kept, timer, sockets, outcome>>
       \/ /\ lookup[c] # "answered"
          /\ Raises(c, IF lookup[c] = "failed" THEN "error" ELSE "timeout")
          /\ UNCHANGED <<left, error>>
    /\ UNCHANGED <<host, now, due, reused, attr, lookup>>

-----------------------------------------------------------------------------
(* `_connect`.                                                             *)

(* The loop takes the next address.  A socket whose attempt has no time    *)
(* left is closed before it connects.                                      *)
TryAddress(c) ==
    /\ At(c, "choosing")
    /\ left > 0
    /\ left' = left - 1
    /\ \/ /\ SecondsLeft
          /\ GivenWhatIsLeft
          /\ sockets' = sockets + 1
          /\ Goes(c, "connecting")
          /\ UNCHANGED error
       \/ /\ ~SecondsLeft
          /\ error' = "timeout"
          /\ UNCHANGED <<pc, timer, sockets>>
    /\ UNCHANGED <<host, now, due, lock, kept, reused, attr, lookup, outcome>>

(* `socket()` itself raises, outside the `try` of the loop: no further     *)
(* address is tried.                                                       *)
NoSocket(c) ==
    /\ At(c, "choosing")
    /\ left > 0
    /\ Raises(c, "error")
    /\ UNCHANGED <<host, now, due, reused, attr, lookups>>

(* Connected: the second settimeout() gives the TLS handshake what is left *)
(* or, where nothing is, gives the address up.                             *)
FaultyConnected(c) ==
    /\ At(c, "connecting")
    /\ \/ /\ SecondsLeft
          /\ \/ host.tls /\ Goes(c, "handshaking") /\ GivenWhatIsLeft
             \/ ~host.tls /\ Goes(c, "sending") /\ timer' = NoTimer
          /\ UNCHANGED <<error, sockets>>
       \/ /\ ~SecondsLeft
          /\ error' = "timeout"
          /\ timer' = NoTimer
          /\ Goes(c, "choosing")
          /\ UNCHANGED sockets
    /\ UNCHANGED <<host, now, due, lock, kept, reused, attr, lookup, left,
                   outcome>>

Connected(c) ==
    /\ At(c, "connecting")
    /\ \/ /\ SecondsLeft
          /\ \/ host.tls /\ Goes(c, "handshaking") /\ GivenWhatIsLeft
             \/ ~host.tls /\ Goes(c, "sending") /\ timer' = NoTimer
          /\ UNCHANGED <<error, sockets>>
       \/ /\ ~SecondsLeft
          /\ error' = "timeout"
          /\ sockets' = sockets - 1
          /\ timer' = NoTimer
          /\ Goes(c, "choosing")
    /\ UNCHANGED <<host, now, due, lock, kept, reused, attr, lookup, left,
                   outcome>>

(* The attempt is refused, or times out.                                   *)
AttemptFails(c) ==
    /\ At(c, "connecting")
    /\ error' \in IF Expired THEN Failures ELSE {"error"}
    /\ sockets' = sockets - 1
    /\ timer' = NoTimer
    /\ Goes(c, "choosing")
    /\ UNCHANGED <<host, now, due, lock, kept, reused, attr, lookup, left,
                   outcome>>

(* Every address failed: the error of the last is raised.                  *)
NoneLeft(c) ==
    /\ At(c, "choosing")
    /\ left = 0
    /\ Raises(c, error)
    /\ UNCHANGED <<host, now, due, reused, attr, lookups>>

HandshakeEnds(c) ==
    /\ At(c, "handshaking")
    /\ timer' = NoTimer
    /\ Goes(c, "sending")
    /\ UNCHANGED <<host, now, due, lock, kept, reused, attr, lookups, sockets,
                   outcome>>

-----------------------------------------------------------------------------
(* `_DeadlineSocket.sendall` and `_DeadlineReader.readinto`.               *)

(* The next send of the loop, or the next recv, is given what is left; the *)
(* loop of _read_bounded asks the same deadline just before.               *)
StartOp(c) ==
    /\ pc[c] \in {"sending", "receiving"}
    /\ NotBlocked
    /\ \/ /\ SecondsLeft
          /\ GivenWhatIsLeft
          /\ UNCHANGED <<pc, lock, kept, sockets, outcome>>
       \/ /\ ~SecondsLeft
          /\ Raises(c, "timeout")
    /\ UNCHANGED <<host, now, due, reused, attr, lookups>>

(* The peer takes a piece, which may be the last of the request.           *)
SendTakes(c) ==
    /\ At(c, "sending") /\ ~NotBlocked
    /\ timer' = NoTimer
    /\ pc' \in {pc, [pc EXCEPT ![c] = "receiving"]}
    /\ UNCHANGED <<host, now, due, lock, kept, reused, attr, lookups, sockets,
                   outcome>>

(* The peer gives a piece of the response, with more to come.              *)
RecvBrings(c) ==
    /\ At(c, "receiving") /\ ~NotBlocked
    /\ timer' = NoTimer
    /\ UNCHANGED <<host, now, pc, due, lock, kept, reused, attr, lookups,
                   sockets, outcome>>

(* The response is whole, and the connection kept if the deadline is not   *)
(* past, which `_read_bounded` asks once more before the read that finds   *)
(* the end: or the node said it would close it, or a failure's body was    *)
(* cut, after which nothing asks.                                          *)
Answered(c) ==
    /\ At(c, "receiving") /\ ~NotBlocked
    /\ Ends(c, "answer")
    /\ \/ now <= due[c] /\ kept' = TRUE /\ UNCHANGED sockets
       \/ kept' = FALSE /\ sockets' = sockets - 1
    /\ UNCHANGED <<host, now, due, reused, attr, lookups>>

(* The peer breaks a handshake, a send or a recv.                          *)
OpBreaks(c) ==
    /\ pc[c] \in Socketed /\ ~NotBlocked
    /\ Raises(c, "error")
    /\ UNCHANGED <<host, now, due, reused, attr, lookups>>

OpTimesOut(c) ==
    /\ pc[c] \in Socketed
    /\ Expired
    /\ Raises(c, "timeout")
    /\ UNCHANGED <<host, now, due, reused, attr, lookups>>

(* A send over the connection found pooled breaks: it is closed, and the   *)
(* one reconnect makes another, with what is left of the call's deadline.  *)
Reconnect(c) ==
    /\ At(c, "sending") /\ ~NotBlocked
    /\ reused
    /\ sockets' = sockets - 1
    /\ reused' = FALSE
    /\ \/ /\ TimeLeft(c)
          /\ attr' = due[c]
          /\ timer' = NoTimer
          /\ Goes(c, "resolving")
          /\ UNCHANGED <<lock, kept, outcome>>
       \/ /\ ~TimeLeft(c)
          /\ Ends(c, "timeout")
          /\ kept' = FALSE
          /\ UNCHANGED attr
    /\ UNCHANGED <<host, now, due, lookups>>

-----------------------------------------------------------------------------
Tick ==
    /\ now < MaxTime
    /\ now' = now + 1
    /\ UNCHANGED <<host, pc, due, lock, kept, reused, attr, timer, lookups,
                   sockets, outcome>>

(* Every call is over: a lookup may outlive them.                          *)
Terminating ==
    /\ \A c \in Calls : pc[c] \in {"idle", "done"}
    /\ now + Timeout > MaxTime \/ \A c \in Calls : At(c, "done")
    /\ UNCHANGED vars

Locks(c) == OpenFresh(c) \/ EvictDead(c) \/ Reuse(c)

(* What the calling thread does without waiting for anyone.                *)
Runs(c) ==
    \/ ResolveAddress(c) \/ LookUp(c) \/ JoinEnds(c) \/ ReadAnswer(c)
    \/ TryAddress(c) \/ NoneLeft(c) \/ StartOp(c) \/ OpTimesOut(c)
    \/ AttemptFails(c) /\ Expired

Next ==
    \/ \E c \in Calls :
          \/ Begin(c) \/ OpenFresh(c) \/ EvictDead(c) \/ Reuse(c)
          \/ ResolveAddress(c) \/ LookUp(c) \/ ResolverEnds(c) \/ JoinEnds(c)
          \/ ReadAnswer(c) \/ TryAddress(c) \/ NoSocket(c) \/ Connected(c)
          \/ AttemptFails(c) \/ NoneLeft(c) \/ HandshakeEnds(c)
          \/ StartOp(c) \/ SendTakes(c) \/ RecvBrings(c) \/ Answered(c)
          \/ OpBreaks(c) \/ OpTimesOut(c) \/ Reconnect(c)
    \/ Tick
    \/ Terminating

(* The clock moves, a waiting thread gets a lock that stays free, and a    *)
(* thread that can run does.  Nothing is asked of the resolver or a peer.  *)
Fairness ==
    /\ WF_vars(Tick)
    /\ \A c \in Calls : WF_vars(Locks(c)) /\ WF_vars(Runs(c))

Spec == Init /\ [][Next]_vars
FairSpec == Spec /\ Fairness

-----------------------------------------------------------------------------
(* The wait for a lookup, each connect attempt, the handshake, every send  *)
(* and every recv begins before the deadline of the call that makes it,    *)
(* and is given exactly what is left of it: over a kept connection too,    *)
(* which carries the deadline of the call before, over a second address,   *)
(* after a reconnect, and after a lookup that answered late.               *)
GivenWhatIsLeftOfItsOwn ==
    [][timer' \notin {timer, NoTimer} =>
          lock' # NoCall /\ timer' = due[lock'] /\ now < timer']_vars

(* A call that fails for the time it took has taken it: no other failure   *)
(* is told as a timeout, and no call is cut by a deadline other than its   *)
(* own, such as the one the call before left on the connection.            *)
TimesOutOnlyLate ==
    [][\A c \in Calls :
          outcome[c] = "none" /\ outcome'[c] = "timeout" => now >= due[c]]_vars

(* Between calls the one socket open is the pooled connection's: every     *)
(* attempt at an address that failed closed its own, whatever failed it.   *)
SocketsAreClosed ==
    lock = NoCall => sockets = IF kept THEN 1 ELSE 0

(* A call that asks for the lock returns or raises, with no help from the  *)
(* resolver or the peer: one that never answers, or drips, is waited for   *)
(* until the deadline.                                                     *)
EveryWaitEnds == \A c \in Calls : At(c, "waiting") ~> At(c, "done")
=============================================================================
