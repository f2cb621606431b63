------------------------------ MODULE MCAnnex ------------------------------
(* Instances of Annex for TLC. *)
EXTENDS Annex, TLC

\* Clients are interchangeable, and so are credentials.
Alike == Permutations(Client) \cup Permutations(Credential)
=============================================================================
