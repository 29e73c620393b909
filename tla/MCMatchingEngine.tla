-------------------------- MODULE MCMatchingEngine --------------------------
(* MatchingEngine for TLC: one request, a star and a bench agent. *)
EXTENDS MatchingEngine

=============================================================================
