--------------------------- MODULE MCMutationLock ---------------------------
(* A small instance of MutationLock: three processes, one of which boots an *)
(* engine synchronously while another of its calls is in flight.            *)
EXTENDS MutationLock

CONSTANTS p1, p2, p3, a, b, c, d

ThreeProcs == [x \in Calls |->
    CASE x = a -> p1 [] x = b -> p2 [] OTHER -> p3]
=============================================================================
