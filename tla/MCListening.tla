----------------------------- MODULE MCListening -----------------------------
(* An instance of Listening for TLC. *)
EXTENDS Listening

Listens == 1..3

\* A user who has downloaded everything, and a session with the SECRET_KEY that
\* streams everything: the first uses the outbox alone, the second the cache.
Apart == {[session |-> "user", downloaded |-> Tracks, spared |-> 0],
          [session |-> "key", downloaded |-> {}, spared |-> 2]}
=============================================================================
