----------------------------- MODULE MCAccounts -----------------------------
(* Accounts for TLC: the two test accounts and two others, addresses of all  *)
(* kinds, and a password that is too short to be registered.                 *)
EXTENDS Accounts, TLC

CONSTANTS dAdmin, dUser, u1, u2, adminTest, userTest, own, bad

MCDummyId == [r \in Roles |-> IF r = "admin" THEN dAdmin ELSE dUser]
MCDummyBox == [r \in Roles |-> IF r = "admin" THEN adminTest ELSE userTest]

Plain(b) == [box |-> b, upper |-> FALSE, blank |-> FALSE]

MCSpellings == {Plain(adminTest), Plain(bad),
                [Plain(own) EXCEPT !.upper = TRUE, !.blank = TRUE]}

Interchangeable == Permutations(Clients) \cup Permutations({u1, u2})
=============================================================================
