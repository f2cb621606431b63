------------------------------ MODULE MCLadder ------------------------------
(* Passkeys, recovery codes and clients to run the ladder ceremonies with. *)
EXTENDS Ladder

\* Passkeys, codes and clients are interchangeable.
Alike == Permutations(Unlock) \cup Permutations(Code) \cup Permutations(Client)

=============================================================================
