------------------------- MODULE SessionTransportMC -------------------------
(***************************************************************************)
(* Small instances of SessionTransport.                                     *)
(***************************************************************************)
EXTENDS SessionTransport, TLC

CONSTANTS c1, c2, c3, k1, k2, x1, x2, x3

(* Two calls of one key beside one of another, and two calls of one key.   *)
TwoKeys == (c1 :> k1) @@ (c2 :> k1) @@ (c3 :> k2)
TwoCalls == (c1 :> k1) @@ (c2 :> k1)

R(err, framing, size, close) ==
    [err |-> err, framing |-> framing, size |-> size, close |-> close]

(* With both limits at one unit: bodies at the limit, one over it, and two *)
(* over it, in each framing, a response that closes and one that does not. *)
AllResponses ==
    {R(FALSE, "length", 1, FALSE), R(FALSE, "length", 2, FALSE),
     R(FALSE, "chunked", 1, FALSE), R(FALSE, "chunked", 2, FALSE),
     R(FALSE, "length", 1, TRUE), R(FALSE, "close", 1, TRUE),
     R(TRUE, "length", 1, FALSE), R(TRUE, "length", 2, FALSE),
     R(TRUE, "length", 3, FALSE), R(TRUE, "chunked", 1, FALSE),
     R(TRUE, "chunked", 2, FALSE), R(TRUE, "close", 2, TRUE)}

Symmetry == Permutations({x1, x2, x3})
=============================================================================
