----------------------------- MODULE MCAccounts -----------------------------
(* An instance of Accounts: two accounts in the file, and a third that     *)
(* signs in with the profile of the first.                                 *)
EXTENDS Accounts, TLC

CONSTANTS a1, a2, a3

MCLoaded  == <<a1, a2>>
MCProfile == a1 :> "p1" @@ a2 :> "p2" @@ a3 :> "p1"
MCSteps   == a1 :> <<"msa", "service">> @@ a2 :> <<"always">> @@ a3 :> <<"always">>
=============================================================================
