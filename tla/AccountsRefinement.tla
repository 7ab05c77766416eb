------------------------- MODULE AccountsRefinement -------------------------
(***************************************************************************)
(* WeatherService implements Accounts: with names and passwords free of    *)
(* commas, the vector of users, the flag and the token left over from one  *)
(* request to the next, and users.txt with its parser amount to accounts,  *)
(* sessions and what a stop leaves, in the presence of every fault.        *)
(***************************************************************************)
EXTENDS WeatherService, Functions

(* A list of users as a function from names to passwords.                  *)
AccountsIn(infos) ==
    [u \in {info.username : info \in infos} |->
        (CHOOSE info \in infos : info.username = u).password]

(* What load_file() would make of users.txt at this moment.                *)
FileInfos == {ParseLine(line) : line \in {l \in Range(file) : IsUserLine(l)}}

Registered ==
    AccountsIn(IF phase = "up" THEN Range(users) ELSE FileInfos)

(* While the file is rewritten, what it is going to hold.                  *)
OnDisk == AccountsIn(IF Writing THEN Range(users) ELSE FileInfos)

Contract == INSTANCE Accounts WITH
    running <- phase = "up",
    accounts <- Registered,
    saved <- OnDisk,
    saving <- Writing,
    issued <- DOMAIN owner,
    reply <- ctx,
    LoadsFail <- "loadFails" \in Faults,
    SavesFail <- "writeFails" \in Faults

(* Every step of the service is a step of Accounts or changes nothing that *)
(* Accounts speaks of: in particular a reload of users.txt gives back what *)
(* was registered unless the file cannot be opened, a request works on the *)
(* session of its own token, a save that cannot open the file leaves what  *)
(* was saved before, and a stop or a failed write in the middle of a       *)
(* rewrite leaves some of the accounts, each with its password.            *)
ImplementsAccounts == Contract!Spec
=============================================================================
