---------------------------- MODULE MCWebStream ----------------------------
(* Instances of WebStream for TLC. *)
EXTENDS WebStream, TLC

CONSTANTS s1, p1, p2, k1, k2, a1

\* A stream and a send of one session, and a send of another, by one actor.
Key   == (s1 :> k1) @@ (p1 :> k1) @@ (p2 :> k2)
Actor == (s1 :> a1) @@ (p1 :> a1) @@ (p2 :> a1)
=============================================================================
