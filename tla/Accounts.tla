------------------------------ MODULE Accounts ------------------------------
(***************************************************************************)
(* What the account service promises to those who send it requests,        *)
(* whatever its lists, flags and files do (src/weather-service.cpp):       *)
(* accounts with a password each, sessions opened by a sign-up or a log-in *)
(* and known by a token, one request answered after the other, and what a  *)
(* stop of the server leaves.                                              *)
(***************************************************************************)
EXTENDS Naturals, Sequences, Functions

CONSTANTS
    Usernames, Passwords, Tokens, Locations,
    Missing,       \* a value a request leaves out
    MaxLocations,  \* bound on the length of a session's list
    LoadsFail,     \* whether the server may start without what was saved
    SavesFail      \* whether a save may end before all is saved

VARIABLES
    running,    \* whether the server takes requests
    accounts,   \* the password of every registered user
    saved,      \* the accounts a stop of the server would leave
    saving,     \* whether they are being replaced
    sessions,   \* the open sessions by token: user, password, locations
    issued,     \* every token given out so far
    reply       \* the request being handled and the answer to it

vars == <<running, accounts, saved, saving, sessions, issued, reply>>

NoReply == [op |-> "none", token |-> Missing, status |-> 0, body |-> <<>>]
Nobody == [u \in {} |-> Missing]

Init ==
    /\ running = FALSE
    /\ accounts = Nobody /\ saved = Nobody /\ saving = FALSE
    /\ sessions = Nobody /\ issued = {}
    /\ reply = NoReply

-----------------------------------------------------------------------------
(* Requests.                                                               *)

Ready == running /\ reply = NoReply

Answer(op, token, status, body) ==
    reply' = [op |-> op, token |-> token, status |-> status, body |-> body]

Refuse(op, token, status) ==
    /\ Answer(op, token, status, <<>>)
    /\ UNCHANGED <<accounts, sessions, issued>>

Update(f, x, value) ==
    [y \in DOMAIN f \cup {x} |-> IF y = x THEN value ELSE f[y]]

(* Faulty variant: the locations of the user's other sessions come along.  *)
SharedSession(u, p) ==
    LET Others == {t \in DOMAIN sessions : sessions[t].username = u}
    IN  [username |-> u, password |-> p,
         locations |-> IF Others = {} THEN <<>>
                       ELSE sessions[CHOOSE t \in Others : TRUE].locations]

(* A session has a copy of the password and no locations.                  *)
NewSession(u, p) == [username |-> u, password |-> p, locations |-> <<>>]

(* It is opened under a token nobody had before.                           *)
OpenSession(op, u, p) ==
    \E token \in Tokens \ issued :
        /\ Answer(op, token, 200, <<>>)
        /\ issued' = issued \cup {token}
        /\ sessions' = Update(sessions, token, NewSession(u, p))

SignUp(u, p) ==
    /\ Ready
    /\ \/ /\ Refuse("signup", Missing, 400)
          /\ Missing \in {u, p} \/ u \in DOMAIN accounts
       \/ /\ OpenSession("signup", u, p)
          /\ Missing \notin {u, p} /\ u \notin DOMAIN accounts
          /\ accounts' = Update(accounts, u, p)
    /\ UNCHANGED <<running, saved, saving>>

Matches(u, p) == u \in DOMAIN accounts /\ accounts[u] = p

LogIn(u, p) ==
    /\ Ready
    /\ \/ /\ Refuse("login", Missing, 400)
          /\ Missing \in {u, p} \/ ~Matches(u, p)
       \/ /\ OpenSession("login", u, p)
          /\ Missing \notin {u, p} /\ Matches(u, p)
          /\ UNCHANGED accounts
    /\ UNCHANGED <<running, saved, saving>>

(* What every other request does first.                                    *)
WithSession(op, token, Handler(_)) ==
    /\ Ready
    /\ \/ Refuse(op, token, 401) /\ token \notin DOMAIN sessions
       \/ token \in DOMAIN sessions /\ Handler(sessions[token])
    /\ UNCHANGED <<running, saved, saving>>

LogOut(token) ==
    WithSession("logout", token, LAMBDA s :
        /\ Answer("logout", token, 200, <<>>)
        /\ sessions' = Restrict(sessions, DOMAIN sessions \ {token})
        /\ UNCHANGED <<accounts, issued>>)

IsLoggedIn(token) ==
    WithSession("amiloggedin", token, LAMBDA s :
        /\ Answer("amiloggedin", token, 200, <<>>)
        /\ UNCHANGED <<accounts, sessions, issued>>)

(* The old password is the one of the session; other sessions of the user  *)
(* keep theirs.                                                            *)
ChangePassword(token, old, new) ==
    WithSession("changepassword", token, LAMBDA s :
        \/ /\ Refuse("changepassword", token, 400)
           /\ Missing \in {old, new} \/ s.password # old
        \/ /\ Answer("changepassword", token, 200, <<>>)
           /\ Missing \notin {old, new} /\ s.password = old
           /\ sessions' = [sessions EXCEPT ![token].password = new]
           /\ accounts' = [accounts EXCEPT ![s.username] = new]
           /\ UNCHANGED issued)

(* A list of locations belongs to the session.                             *)
Subscribe(token, location) ==
    WithSession("subscribe", token, LAMBDA s :
        \/ Refuse("subscribe", token, 400) /\ location = Missing
        \/ /\ Answer("subscribe", token, 200, <<location>>)
           /\ location # Missing /\ Len(s.locations) < MaxLocations
           /\ sessions' = [sessions EXCEPT
                              ![token].locations = Append(@, location)]
           /\ UNCHANGED <<accounts, issued>>)

(* The first occurrence of the location goes.                              *)
Unsubscribe(token, location) ==
    WithSession("unsubscribe", token, LAMBDA s :
        \/ /\ Refuse("unsubscribe", token, 400)
           /\ location \notin Range(s.locations)
        \/ /\ Answer("unsubscribe", token, 200, <<location>>)
           /\ \E i \in DOMAIN s.locations :
                 /\ s.locations[i] = location
                 /\ \A j \in 1..(i - 1) : s.locations[j] # location
                 /\ sessions' = [sessions EXCEPT ![token].locations =
                        SubSeq(@, 1, i - 1) \o SubSeq(@, i + 1, Len(@))]
           /\ UNCHANGED <<accounts, issued>>)

GetLocations(token) ==
    WithSession("getlocations", token, LAMBDA s :
        /\ Answer("getlocations", token, 200, s.locations)
        /\ UNCHANGED <<accounts, sessions, issued>>)

-----------------------------------------------------------------------------
(* The rest of a request, and the server as a whole.                       *)

Changed == reply.op \in {"signup", "changepassword"} /\ reply.status = 200

(* The accounts are saved while a request that changed them is handled.    *)
BeginSave ==
    /\ Changed /\ ~saving
    /\ saving' = TRUE /\ saved' = accounts
    /\ UNCHANGED <<running, accounts, sessions, issued, reply>>

(* Some of the accounts were saved, each with its password.                *)
Partly == \E kept \in SUBSET DOMAIN saved : saved' = Restrict(saved, kept)

(* The request is done after the save, or goes on.                         *)
EndSave ==
    /\ saving /\ saving' = FALSE
    /\ saved' = saved \/ (SavesFail /\ Partly)
    /\ reply' \in {reply, NoReply}
    /\ UNCHANGED <<running, accounts, sessions, issued>>

(* The answer is sent or lost.                                             *)
Done ==
    /\ reply # NoReply /\ ~saving
    /\ reply' = NoReply
    /\ UNCHANGED <<running, accounts, saved, saving, sessions, issued>>

(* The server stops: no session survives, and the accounts that do are the *)
(* saved ones, or some of them if it was saving.                           *)
Stop ==
    /\ running /\ running' = FALSE
    /\ \/ ~saving /\ saved' = saved
       \/ saving /\ Partly
    /\ accounts' = saved' /\ saving' = FALSE
    /\ sessions' = Nobody /\ reply' = NoReply
    /\ UNCHANGED issued

(* The server starts, with the saved accounts or none.                     *)
Run ==
    /\ ~running /\ running' = TRUE
    /\ accounts' = accounts \/ (LoadsFail /\ accounts' = Nobody)
    /\ UNCHANGED <<saved, saving, sessions, issued, reply>>

-----------------------------------------------------------------------------
Request ==
    \/ \E token \in Tokens \cup {Missing} :
          LogOut(token) \/ IsLoggedIn(token) \/ GetLocations(token)
    \/ \E token \in Tokens \cup {Missing}, location \in Locations \cup {Missing} :
          Subscribe(token, location) \/ Unsubscribe(token, location)
    \/ \E u \in Usernames \cup {Missing}, p \in Passwords \cup {Missing} :
          SignUp(u, p) \/ LogIn(u, p)
    \/ \E token \in Tokens \cup {Missing},
          old, new \in Passwords \cup {Missing} :
          ChangePassword(token, old, new)

Next == BeginSave \/ EndSave \/ Done \/ Stop \/ Run \/ Request

Spec == Init /\ [][Next]_vars
=============================================================================
