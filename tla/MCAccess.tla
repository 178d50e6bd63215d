------------------------------ MODULE MCAccess ------------------------------
(* Instance of Access for TLC: users, addresses and clients are symmetric.  *)
EXTENDS Access, TLC

Symm == Permutations(Users) \cup Permutations(Emails)
        \cup Permutations(Clients) \cup Permutations(Requests)
=============================================================================
