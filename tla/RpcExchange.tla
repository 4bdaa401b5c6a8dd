----------------------------- MODULE RpcExchange -----------------------------
(***************************************************************************)
(* What a caller of `http_request` is promised about each call, whatever    *)
(* carries it: "One call, one HTTP request, and no retry" (__init__.py).    *)
(* The node executes a call at most once, possibly after the caller has     *)
(* been told that it failed; the caller hears one outcome; an answer is the *)
(* node's answer to that very call, which it has executed.                  *)
(***************************************************************************)
EXTENDS Naturals

CONSTANTS Calls

VARIABLES
    runs,   \* how often the node has executed each call
    result  \* "pending", "failed" or "answered"

rpcVars == <<runs, result>>

Init ==
    /\ runs = [c \in Calls |-> 0]
    /\ result = [c \in Calls |-> "pending"]

Execute(c) ==
    /\ runs[c] = 0
    /\ runs' = [runs EXCEPT ![c] = 1]
    /\ UNCHANGED result

Answer(c) ==
    /\ result[c] = "pending"
    /\ runs[c] = 1
    /\ result' = [result EXCEPT ![c] = "answered"]
    /\ UNCHANGED runs

Fail(c) ==
    /\ result[c] = "pending"
    /\ result' = [result EXCEPT ![c] = "failed"]
    /\ UNCHANGED runs

Next == \E c \in Calls : Execute(c) \/ Answer(c) \/ Fail(c)

Spec == Init /\ [][Next]_rpcVars
=============================================================================
