----------------------------- MODULE SmokeTestMC -----------------------------
(***************************************************************************)
(* The nodes, the arguments and the params of the two programs.             *)
(***************************************************************************)
EXTENDS SmokeTest, TLC

CONSTANTS own, next, p, q, a, b, sDefault, sCustom

MCTexts == {"default", "custom", "CUSTOM", "odd"}
MCScriptOf ==
    [default |-> sDefault, custom |-> sCustom, CUSTOM |-> sCustom, odd |-> NoScript]
MCScriptSize == (sDefault :> 0) @@ (sCustom :> Radix)
MCChain == {"main", "signet", "regtest"}

S(chain, challenge, cookie) ==
    [chain |-> chain, challenge |-> challenge, cookie |-> cookie, user |-> "unknown"]
Knowing(service) == [service EXCEPT !.user = "known"]
A(chain, challenge, verify, who, home) ==
    [chain |-> chain, challenge |-> challenge, verify |-> verify, who |-> who, home |-> home]

Empty == [kind |-> "list", items |-> <<>>]
I(name, value) == [name |-> name, value |-> value]
L(s) == [kind |-> "list", items |-> s]
D(s) == [kind |-> "dict", items |-> s]
NoHeap == [c \in Containers |-> Empty]
Heap(top, second, inner, last) == (p :> top) @@ (q :> second) @@ (a :> inner) @@ (b :> last)

Case(runs, arguments, who, first, second, net, h, rs) ==
    [program |-> runs, args |-> arguments, run |-> who,
     serves |-> (own :> first) @@ (next :> second),
     network |-> (own :> net) @@ (next :> IF second.challenge = "custom" THEN sCustom ELSE net), heap |-> h, roots |-> rs]

(* The arguments of a client, against every kind of signet and a node that  *)
(* is on no signet or says nothing.                                         *)
Given ==
    {A(c, t, "yes", "path", "known") : c \in {"main", "signet"}, t \in MCTexts \cup {NoText}}
    \cup {A("main", NoText, "no", w, h) : w \in {"nobody", "user", "half", "both"}, h \in {"known", "unknown"}}
    \cup {A("signet", "custom", "no", "path", "known"), A("signet", NoText, "yes", "user", "known")}
Signets ==
    {<<S("signet", t, "here"), sCustom>> : t \in {"custom", "CUSTOM", "odd", NoText}}
    \cup {<<S("signet", "default", "here"), sDefault>>}
Served == Signets \cup {<<S(c, NoText, "here"), sDefault>> : c \in {"main", NoText}}
Clients ==
    {Case("client", g, {own}, s[1], s[1], s[2], NoHeap, <<>>) : g \in Given, s \in Served}

(* A client whose node is restarted, or replaced by one of another chain or *)
(* that has its cookie elsewhere; and one of a user its node has, and the   *)
(* next has or has not.                                                     *)
Restarts ==
    {Case("client", A("signet", NoText, "yes", "path", "known"), Nodes,
          S("signet", "default", "here"), next_, sDefault, NoHeap, <<>>) :
        next_ \in {S("signet", "default", "here"), S("main", NoText, "here"),
                    S("signet", "default", "elsewhere")}}
    \cup {Case("client", A("signet", NoText, "yes", "user", "known"), Nodes,
               Knowing(S("signet", "default", "here")), next_, sDefault, NoHeap, <<>>) :
             next_ \in {Knowing(S("signet", "default", "here")), S("main", NoText, "here")}}

(* The script's node beside another on the same port, of the same chain or  *)
(* of the one it must not be on; and one that it only starts, of a signet   *)
(* and of regtest.                                                          *)
Smoke(runs, chain, next_) ==
    Case(runs, A(chain, NoText, "yes", "path", "known"), Nodes,
         S(chain, IF chain = "signet" THEN "default" ELSE NoText, "here"), next_, sDefault,
         NoHeap, <<>>)
Smokes ==
    {Smoke("smoke", "regtest", S(c, NoText, "elsewhere")) : c \in {"regtest", "main"}}
    \cup {Smoke("smoke_chain", "signet", S("signet", "custom", "elsewhere")),
          Smoke("smoke_chain", "regtest", S("regtest", NoText, "elsewhere"))}

(* Params with a container shared by two members, one inside another, one   *)
(* inside itself, and each kind of leaf; no node runs, so that a request    *)
(* that was built has nowhere to go.                                        *)
Inner ==
    {D(<<I("string", "scalar")>>), D(<<I("other", "scalar")>>), D(<<I("string", b)>>),
     L(<<I("string", b), I("string", "scalar")>>), L(<<I("string", a)>>)}
    \cup {L(<<I("string", v)>>) : v \in Leaves}
Last == {L(<<>>), L(<<I("string", "digits")>>), L(<<I("string", a)>>), D(<<I("string", "scalar")>>)}
Requests ==
    {Case("client", A("main", NoText, "no", "path", "known"), {}, S("main", NoText, "here"),
          S("main", NoText, "elsewhere"), sDefault, Heap(top, L(<<I("string", a)>>), i, l), rs) :
        top \in {D(<<I("string", a)>>), L(<<I("string", a), I("string", "scalar")>>)},
        i \in Inner, l \in Last, rs \in {<<p>>, <<p, q>>}}

MCScenarios == Clients \cup Restarts \cup Smokes \cup Requests
=============================================================================
