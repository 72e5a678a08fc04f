----------------------------- MODULE MCAccounts -----------------------------
(* Instances of Accounts for TLC: what clients type, and what is stored.    *)
EXTENDS Accounts, TLC

\* One agent, who also tries the Super Admin's name and a name of only spaces.
OddNames == ("ann" :> "ann") @@ ("theadmin" :> "theadmin") @@ (" " :> "")
OneName  == ("ann" :> "ann")
OneEmail == ("ann@" :> "ann@")

\* _ids and slots are interchangeable.
AccountSymmetry == Permutations(Ids) \cup Permutations(Slots)
=============================================================================
