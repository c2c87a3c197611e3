------------------------------ MODULE MCAccounts ------------------------------
(* One address, two requests at once; requests are interchangeable. *)
EXTENDS Accounts, TLC

MCKey == {"accounts", "sessions"} \X Address
MCWatched == <<"sessions", "ada">>
Slots == Permutations(Slot)
===============================================================================
