------------------------------ MODULE MCVotes ------------------------------
(* Instances of Votes for TLC. *)
EXTENDS Votes, TLC

(* The proportions of the default configuration of an answer (voted_up 10,
   voted_down -2, vote_down -1), scaled down. *)
AnswerRanks ==
  (<<"up", "vote">> :> 0) @@ (<<"up", "voted">> :> 3) @@
  (<<"down", "vote">> :> -1) @@ (<<"down", "voted">> :> -2)

(* Only votes up are worth something. *)
UpRanks ==
  (<<"up", "vote">> :> 0) @@ (<<"up", "voted">> :> 2) @@
  (<<"down", "vote">> :> 0) @@ (<<"down", "voted">> :> 0)

(* The default configuration of a comment. *)
NoRanks == [p \in Directions \X Sides |-> 0]

Symmetry == Permutations(Voters)
=============================================================================
