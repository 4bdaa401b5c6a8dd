----------------------------- MODULE ChainClient -----------------------------
(***************************************************************************)
(* `from_chain` and `assert_chain`: a client that asks which chain, and     *)
(* which signet, the node behind its url serves, and what it makes of the   *)
(* answer.                                                                  *)
(***************************************************************************)
EXTENDS NodeLife

(* What `from_chain` is given: `verify` is verify_chain, `who` the user and *)
(* the password, one of them, a cookie path, a path and a user or none of   *)
(* these, and `home` whether default_datadir finds a base.                  *)
Arguments ==
    [chain : Chain, challenge : Texts \cup {NoText}, verify : {"yes", "no"},
     who : {"nobody", "path", "user", "half", "both"}, home : {"known", "unknown"}]

VARIABLES
    args,
    at,       \* where the program is
    waits,    \* "yes" while a call it made is under way
    verdict,  \* what assert_chain last made of a reply
    verified  \* the node whose reply that was

clientVars == <<args, at, waits, verdict, verified>>
Verdicts == {"none", "accepted", "disagrees", "unreadable"}

(* The arguments a constructor refuses, and those assert_chain does before  *)
(* it asks anything.                                                        *)
NoCredentials(a) == a.who \in {"half", "both"} \/ (a.who = "nobody" /\ a.home = "unknown")
NothingToCompare(a) == a.challenge # NoText /\ a.verify = "no"
NoSuchSignet(a) ==
    a.challenge # NoText /\ (IF a.chain = "signet" THEN ScriptOf[a.challenge] = NoScript ELSE TRUE)

NoMagic == <<>>
ExpectedMagic(a) ==
    IF a.chain # "signet" THEN NoMagic
    ELSE IF a.challenge = NoText THEN DefaultMagic ELSE Magic(ScriptOf[a.challenge])

(* _assert_chain_info, of what the service s reports.                       *)
Unreadable(s, magic) ==
    \/ s.chain = NoText
    \/ magic # NoMagic
       /\ (IF s.challenge = NoText THEN TRUE ELSE ScriptOf[s.challenge] = NoScript)
FaultyAssertChainInfo(a, s) == \* a fault: a signet is taken at its name
    CASE s.chain = NoText -> "unreadable"
      [] s.chain # NoText /\ s.chain # a.chain -> "disagrees"
      [] OTHER -> "accepted"
AssertChainInfo(a, s) ==
    LET magic == ExpectedMagic(a) IN
    CASE s.chain = NoText -> "unreadable"
      [] s.chain # NoText /\ s.chain # a.chain -> "disagrees"
      [] s.chain = a.chain /\ Unreadable(s, magic) -> "unreadable"
      [] OTHER -> IF magic # NoMagic /\ Magic(ScriptOf[s.challenge]) # magic
                  THEN "disagrees" ELSE "accepted"

-----------------------------------------------------------------------------
(* The program of a client: construct it, and call.                        *)

Ask(m, a, roots) == waits = "no" /\ BeginCall(m, a, roots) /\ waits' = "yes"
Heard == waits = "yes" /\ pc = "idle"
Still == UNCHANGED <<nodeVars, callVars, paramsVars, stopped>>

Caller == IF args.who = "user" THEN "user" ELSE "cookie"
FromChain ==
    /\ at = "new"
    /\ \/ /\ NoCredentials(args) \/ NothingToCompare(args)
             \/ (args.verify = "yes" /\ NoSuchSignet(args))
          /\ at' = "over" /\ Still /\ UNCHANGED waits
       \/ /\ ~ NoCredentials(args) /\ ~ NothingToCompare(args)
          /\ args.verify = "no"
          /\ at' = "ready" /\ Still /\ UNCHANGED waits
       \/ /\ ~ NoCredentials(args) /\ ~ NoSuchSignet(args)
          /\ args.verify = "yes"
          /\ Ask("chain", Caller, <<>>)
          /\ at' = "verify"
    /\ UNCHANGED <<args, verdict, verified>>

(* assert_chain has its reply, or raises what the call raised.              *)
Concludes ==
    /\ verified' = IF outcome = "result" THEN answered ELSE NoNode
    /\ verdict' = IF outcome = "result" THEN AssertChainInfo(args, serves[answered])
                  ELSE "none"
Verified ==
    /\ at = "verify" /\ Heard
    /\ Concludes
    /\ at' = IF verdict' = "accepted" THEN "ready" ELSE "over"
    /\ waits' = "no" /\ Still /\ UNCHANGED args

(* A client that was built asks again, over either interface, or calls.     *)
Calls(roots) ==
    /\ at = "ready"
    /\ \E m \in {"call", "raw"} : Ask(m, Caller, roots)
    /\ UNCHANGED <<args, at, verdict, verified>>
AsksAgain ==
    /\ at = "ready" /\ ~ NoSuchSignet(args)
    /\ \E m \in {"chain", "rest"} : Ask(m, Caller, <<>>)
    /\ UNCHANGED <<args, at, verdict, verified>>
Returns ==
    /\ at = "ready" /\ Heard
    /\ IF method \in {"chain", "rest"} THEN Concludes ELSE UNCHANGED <<verdict, verified>>
    /\ waits' = "no" /\ Still /\ UNCHANGED <<args, at>>

ClientTypeOK ==
    /\ args \in Arguments /\ waits \in {"yes", "no"}
    /\ verdict \in Verdicts /\ verified \in Nodes \cup {NoNode}

(* The network a node is really on is its chain and, on signet, its script. *)
Wanted(a) == IF a.challenge = NoText THEN DefaultScript ELSE ScriptOf[a.challenge]
=============================================================================
