--------------------------- MODULE HttpRequestMC ---------------------------
(***************************************************************************)
(* A small instance of HttpRequest: bodies from none to two octets past the *)
(* larger limit, chunks smaller than either, and chunked bodies that carry  *)
(* a length as well, true or not.                                           *)
(***************************************************************************)
EXTENDS HttpRequest

CONSTANT MaxSize

MCResponses ==
    {r \in [status : Statuses, framing : {"length", "chunked", "close"},
            size : 0 .. MaxSize, announced : {NoLength} \cup 0 .. MaxSize] :
        /\ r.framing = "length" => r.announced = r.size
        /\ r.framing = "chunked" => r.announced \in {NoLength, 0, MaxSize}
        /\ r.framing = "close" => r.announced = NoLength}
=============================================================================
