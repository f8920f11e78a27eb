------------------------------ MODULE MCBonfire ------------------------------
(***************************************************************************)
(* The constants of the small instance of Bonfire.                         *)
(***************************************************************************)
EXTENDS Bonfire, TLC

AllowedNames == UserNames \cup RoomNames \cup UserNames \X UserNames
Symmetry == Permutations(Clients) \cup Permutations(UserNames) \cup Permutations(RoomNames)
=============================================================================
