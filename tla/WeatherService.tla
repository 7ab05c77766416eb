--------------------------- MODULE WeatherService ---------------------------
(***************************************************************************)
(* The account service (src/weather-service.cpp) with its file users.txt   *)
(* (src/helpers.cpp): registered users, sessions by bearer token, the      *)
(* request handlers, and the server process that may stop at any step.     *)
(*                                                                         *)
(* The server handles one request at a time (httpServer.cpp, main), so a   *)
(* handler's changes to memory are one action.  What the outside can see   *)
(* in between - the response being sent, users.txt being truncated and     *)
(* rewritten line by line - is left in todo, in the order of the code, and *)
(* done by actions of its own: the process may stop between any two, and   *)
(* an exception thrown by send() drops what is left.                       *)
(***************************************************************************)
EXTENDS UsersFile, FiniteSets

CONSTANTS
    Tokens,        \* what generate_token() can return; bounds the sessions
    Locations,     \* locations to subscribe to
    Missing,       \* a header that is absent, blank or not "Bearer <token>"
    MaxLocations,  \* bound on the length of a session's list of locations
    Faults         \* what the environment may do, a subset of AllFaults

(* crash: the process stops, but not while it rewrites users.txt;          *)
(* tornSave: it stops while it rewrites users.txt;                         *)
(* sendFails: send() reports an error and send_response_async() throws;    *)
(* openFails: users.txt cannot be opened for writing;                      *)
(* writeFails: it was truncated, and cannot be written to any more;        *)
(* loadFails: it cannot be opened for reading.                             *)
AllFaults == {"crash", "tornSave", "sendFails", "openFails", "writeFails",
              "loadFails"}

ASSUME ServiceAssumption ==
    /\ Missing \notin Usernames \cup Passwords \cup Tokens \cup Locations
    /\ MaxLocations \in Nat
    /\ Faults \subseteq AllFaults

VARIABLES
    phase,            \* the process: "down", "loading" users.txt, or "up"
    loaded,           \* lines of users.txt that load_file() has read
    users,            \* WeatherService::_users
    sessions,         \* WeatherService::_sessions
    isAuthenticated,  \* WeatherService::_isAuthenticated
    bearer,           \* WeatherService::_bearer
    file,             \* the lines of users.txt
    todo,             \* what the running handler still has to do
    ctx               \* the request being handled and the response to it

(* History variables: no action's guard reads revoked, acked or chosen;    *)
(* the domain of owner is what makes a generated token new.                *)
VARIABLES
    owner,            \* the user each token was issued to
    revoked,          \* tokens logged out or lost with the process
    acked,            \* users who received the response to their sign-up
    chosen            \* every name and password pair a handler has accepted

memory == <<users, sessions, isAuthenticated, bearer>>
history == <<owner, revoked, acked, chosen>>
vars == <<phase, loaded, memory, file, todo, ctx, history>>

Steps == {"send", "save", "write"}
Operations == {"signup", "login", "logout", "amiloggedin", "changepassword",
               "subscribe", "unsubscribe", "getlocations"}
NoCtx == [op |-> "none", token |-> Missing, status |-> 0, body |-> <<>>]

-----------------------------------------------------------------------------
(* The server process.                                                     *)

NoSessions == [t \in {} |-> DefaultUserInfo]

Init ==
    /\ phase = "down" /\ loaded = 0
    /\ users = <<>> /\ sessions = NoSessions
    /\ isAuthenticated = FALSE /\ bearer = Missing
    /\ file = <<>> /\ todo = <<>> /\ ctx = NoCtx
    /\ owner = [t \in {} |-> <<Empty>>] /\ revoked = {}
    /\ acked = {} /\ chosen = {}

(* The constructor clears _users and opens users.txt.                      *)
Start ==
    /\ phase = "down"
    /\ phase' = "loading" /\ loaded' = 0 /\ users' = <<>>
    /\ UNCHANGED <<sessions, isAuthenticated, bearer, file, todo, ctx, history>>

(* One turn of load_file()'s loop.                                         *)
LoadLine ==
    /\ phase = "loading" /\ loaded < Len(file)
    /\ loaded' = loaded + 1
    /\ users' = IF IsUserLine(file[loaded + 1])
                THEN Append(users, ParseLine(file[loaded + 1]))
                ELSE users
    /\ UNCHANGED <<phase, sessions, isAuthenticated, bearer, file, todo, ctx,
                   history>>

(* load_file() returns and main() starts serving requests.                 *)
FinishLoading ==
    /\ phase = "loading" /\ loaded = Len(file)
    /\ phase' = "up" /\ loaded' = 0
    /\ UNCHANGED <<memory, file, todo, ctx, history>>

Writing == todo # <<>> /\ todo[1] = "write"

(* users.txt cannot be opened: load_file() returns with an empty _users,   *)
(* the file stays, and main() serves requests all the same.                *)
LoadFails ==
    /\ "loadFails" \in Faults
    /\ phase = "down"
    /\ phase' = "up" /\ loaded' = 0 /\ users' = <<>>
    /\ UNCHANGED <<sessions, isAuthenticated, bearer, file, todo, ctx, history>>

(* The process stops: everything but the file is gone.                     *)
Crash ==
    /\ phase # "down"
    /\ (IF Writing THEN "tornSave" ELSE "crash") \in Faults
    /\ phase' = "down" /\ loaded' = 0
    /\ users' = <<>> /\ sessions' = NoSessions
    /\ isAuthenticated' = FALSE /\ bearer' = Missing
    /\ todo' = <<>> /\ ctx' = NoCtx
    /\ revoked' = DOMAIN owner
    /\ UNCHANGED <<file, owner, acked, chosen>>

-----------------------------------------------------------------------------
(* What the handlers share.                                                *)

Idle == phase = "up" /\ todo = <<>>

(* _sessions[t] as std::map's operator[] reads and writes it: an absent    *)
(* token is given a default-constructed UserInfo.                          *)
Session(t) == IF t \in DOMAIN sessions THEN sessions[t] ELSE DefaultUserInfo
StoreSession(t, info) ==
    sessions' = [x \in DOMAIN sessions \cup {t} |->
                    IF x = t THEN info ELSE sessions[x]]

(* Faulty variant: the flag is never reset.                                *)
AuthenticateNoReset(auth) ==
    /\ isAuthenticated' = (isAuthenticated \/ auth \in DOMAIN sessions)
    /\ bearer' = IF auth \in DOMAIN sessions THEN auth ELSE bearer

(* Faulty variant: the first token that authenticates is kept.             *)
AuthenticateKeepsFirst(auth) ==
    /\ isAuthenticated' = (auth \in DOMAIN sessions)
    /\ bearer' = IF auth \in DOMAIN sessions /\ bearer = Missing
                 THEN auth ELSE bearer

(* authenticate(): the flag is reset on every call, _bearer only replaced  *)
(* by a token that has a session.                                          *)
Authenticate(auth) ==
    /\ isAuthenticated' = (auth \in DOMAIN sessions)
    /\ bearer' = IF auth \in DOMAIN sessions THEN auth ELSE bearer

(* The handler sets the response and has steps left to do.                 *)
Respond(op, token, status, body, steps) ==
    /\ ctx' = [op |-> op, token |-> token, status |-> status, body |-> body]
    /\ todo' = steps

Refuse(op, token, status) ==
    /\ Respond(op, token, status, <<>>, <<"send">>)
    /\ UNCHANGED <<users, sessions, history>>

(* generate_token(): the time and 64 random bits make the token a new one. *)
generate_token(token, u) ==
    /\ token \in Tokens \ DOMAIN owner
    /\ owner' = [t \in DOMAIN owner \cup {token} |->
                    IF t = token THEN u ELSE owner[t]]

-----------------------------------------------------------------------------
(* The handlers, one action each.                                          *)

(* Faulty variant: only users with a session are looked at.                *)
UsernameInSession(u) == \E t \in DOMAIN sessions : sessions[t].username = u

(* sign_up() looks for the name among all users.                           *)
UsernameTaken(u) == \E i \in DOMAIN users : users[i].username = u

(* Faulty variants: the answer before the save; no save.                   *)
AnswerFirst == <<"send", "save">>
AnswerOnly == <<"send">>

(* What sign_up() and change_password() do once memory is updated.         *)
SignUpSteps == <<"save", "send">>
ChangePasswordSteps == <<"send", "save">>

SignUp(u, p) ==
    /\ Idle
    /\ \/ /\ Missing \in {u, p} \/ UsernameTaken(u)
          /\ Refuse("signup", Missing, 400)
       \/ /\ Missing \notin {u, p} /\ ~UsernameTaken(u)
          /\ \E token \in Tokens :
                /\ generate_token(token, u)
                /\ StoreSession(token, NewUserInfo(u, p))
                /\ Respond("signup", token, 200, <<>>, SignUpSteps)
          /\ users' = Append(users, NewUserInfo(u, p))
          /\ chosen' = chosen \cup {<<u, p>>}
          /\ UNCHANGED <<revoked, acked>>
    /\ UNCHANGED <<phase, loaded, isAuthenticated, bearer, file>>

CredentialsMatch(u, p) ==
    \E i \in DOMAIN users : users[i].username = u /\ users[i].password = p

LogIn(u, p) ==
    /\ Idle
    /\ \/ /\ Missing \in {u, p} \/ ~CredentialsMatch(u, p)
          /\ Refuse("login", Missing, 400)
       \/ /\ Missing \notin {u, p} /\ CredentialsMatch(u, p)
          /\ \E token \in Tokens :
                /\ generate_token(token, u)
                /\ StoreSession(token, NewUserInfo(u, p))
                /\ Respond("login", token, 200, <<>>, <<"send">>)
          /\ UNCHANGED <<users, revoked, acked, chosen>>
    /\ UNCHANGED <<phase, loaded, isAuthenticated, bearer, file>>

(* After authenticate() has found the token, the later checks of the same  *)
(* header in log_out() cannot fail.                                        *)
LogOut(auth) ==
    /\ Idle
    /\ Authenticate(auth)
    /\ \/ ~isAuthenticated' /\ Refuse("logout", auth, 401)
       \/ /\ isAuthenticated'
          /\ sessions' = [t \in DOMAIN sessions \ {auth} |-> sessions[t]]
          /\ revoked' = revoked \cup {auth}
          /\ Respond("logout", auth, 200, <<>>, <<"send">>)
          /\ UNCHANGED <<users, owner, acked, chosen>>
    /\ UNCHANGED <<phase, loaded, file>>

IsLoggedIn(auth) ==
    /\ Idle
    /\ Authenticate(auth)
    /\ Respond("amiloggedin", auth, IF isAuthenticated' THEN 200 ELSE 401,
               <<>>, <<"send">>)
    /\ UNCHANGED <<phase, loaded, users, sessions, file, history>>

(* Faulty variant: the name is not compared.                               *)
EveryPassword(u, new) ==
    [i \in DOMAIN users |-> [users[i] EXCEPT !.password = new]]

(* Faulty variant: only the session gets the new password.                 *)
NoNewPassword(u, new) == users

(* _users with a new password for every user of that name.                 *)
WithPassword(u, new) ==
    [i \in DOMAIN users |-> IF users[i].username = u
                            THEN [users[i] EXCEPT !.password = new]
                            ELSE users[i]]

(* The old password is compared with the session's copy.  The response is  *)
(* sent before the file is saved.                                          *)
ChangePassword(auth, old, new) ==
    /\ Idle
    /\ Authenticate(auth)
    /\ \/ ~isAuthenticated' /\ Refuse("changepassword", auth, 401)
       \/ /\ isAuthenticated'
          /\ Missing \in {old, new} \/ Session(bearer').password # old
          /\ Refuse("changepassword", auth, 400)
       \/ /\ isAuthenticated'
          /\ Missing \notin {old, new} /\ Session(bearer').password = old
          /\ StoreSession(bearer', [Session(bearer') EXCEPT !.password = new])
          /\ users' = WithPassword(Session(bearer').username, new)
          /\ chosen' = chosen \cup {<<Session(bearer').username, new>>}
          /\ Respond("changepassword", auth, 200, <<>>,
                     ChangePasswordSteps)
          /\ UNCHANGED <<owner, revoked, acked>>
    /\ UNCHANGED <<phase, loaded, file>>

Subscribe(auth, location) ==
    /\ Idle
    /\ Authenticate(auth)
    /\ \/ ~isAuthenticated' /\ Refuse("subscribe", auth, 401)
       \/ /\ isAuthenticated' /\ location = Missing
          /\ Refuse("subscribe", auth, 400)
       \/ /\ isAuthenticated' /\ location # Missing
          /\ Len(Session(bearer').locations) < MaxLocations
          /\ StoreSession(bearer', [Session(bearer') EXCEPT
                                       !.locations = Append(@, location)])
          /\ Respond("subscribe", auth, 200, <<location>>, <<"send">>)
          /\ UNCHANGED <<users, history>>
    /\ UNCHANGED <<phase, loaded, file>>

(* Faulty variant: the element is blanked, not erased.                     *)
BlankAt(s, i) == [s EXCEPT ![i] = Missing]

(* Faulty variant: every occurrence goes.                                  *)
EraseEvery(s, i) == SelectSeq(s, LAMBDA location : location # s[i])

(* vector::erase of the element at index i.                                *)
EraseAt(s, i) == SubSeq(s, 1, i - 1) \o SubSeq(s, i + 1, Len(s))

Unsubscribe(auth, location) ==
    /\ Idle
    /\ Authenticate(auth)
    /\ \/ ~isAuthenticated' /\ Refuse("unsubscribe", auth, 401)
       \/ /\ isAuthenticated'
          /\ LET list == Session(bearer').locations IN
             \/ /\ \A i \in DOMAIN list : list[i] # location
                /\ Refuse("unsubscribe", auth, 400)
             \/ \E i \in DOMAIN list :
                /\ list[i] = location
                /\ \A j \in 1..(i - 1) : list[j] # location
                /\ StoreSession(bearer', [Session(bearer') EXCEPT
                                             !.locations = EraseAt(list, i)])
                /\ Respond("unsubscribe", auth, 200, <<location>>, <<"send">>)
                /\ UNCHANGED <<users, history>>
    /\ UNCHANGED <<phase, loaded, file>>

GetLocations(auth) ==
    /\ Idle
    /\ Authenticate(auth)
    /\ \/ ~isAuthenticated' /\ Refuse("getlocations", auth, 401)
       \/ /\ isAuthenticated'
          /\ StoreSession(bearer', Session(bearer'))
          /\ Respond("getlocations", auth, 200, Session(bearer').locations,
                     <<"send">>)
          /\ UNCHANGED <<users, history>>
    /\ UNCHANGED <<phase, loaded, file>>

-----------------------------------------------------------------------------
(* The rest of a handler: the steps in todo, first to last.                *)

StepDone ==
    /\ todo' = Tail(todo)
    /\ ctx' = IF Len(todo) = 1 THEN NoCtx ELSE ctx

(* send() takes the response.                                              *)
Send ==
    /\ todo # <<>> /\ todo[1] = "send"
    /\ StepDone
    /\ acked' = IF ctx.op = "signup" /\ ctx.status = 200
                THEN acked \cup {owner[ctx.token]} ELSE acked
    /\ UNCHANGED <<phase, loaded, memory, file, owner, revoked, chosen>>

(* send() fails: the exception leaves the handler for main()'s loop, and   *)
(* the steps after it are never done.                                      *)
SendFails ==
    /\ "sendFails" \in Faults
    /\ todo # <<>> /\ todo[1] = "send"
    /\ todo' = <<>> /\ ctx' = NoCtx
    /\ UNCHANGED <<phase, loaded, memory, file, history>>

(* save_file(): the stream truncates the file,                             *)
OpenFile ==
    /\ todo # <<>> /\ todo[1] = "save"
    /\ file' = <<>> /\ todo' = <<"write">> \o Tail(todo)
    /\ UNCHANGED <<phase, loaded, memory, ctx, history>>

(* or fails to open and ignores what is written to it;                     *)
OpenFails ==
    /\ "openFails" \in Faults
    /\ todo # <<>> /\ todo[1] = "save"
    /\ StepDone
    /\ UNCHANGED <<phase, loaded, memory, file, history>>

(* endl flushes each user's line,                                          *)
WriteLine ==
    /\ Writing /\ Len(file) < Len(users)
    /\ file' = Append(file, Line(users[Len(file) + 1]))
    /\ UNCHANGED <<phase, loaded, memory, todo, ctx, history>>

(* or the write fails, and the stream ignores this line and the rest (the  *)
(* part of a line before its password is no line to load_file());          *)
WriteFails ==
    /\ "writeFails" \in Faults
    /\ Writing /\ Len(file) < Len(users)
    /\ StepDone
    /\ UNCHANGED <<phase, loaded, memory, file, history>>

(* and the stream is closed.                                               *)
CloseFile ==
    /\ Writing /\ Len(file) = Len(users)
    /\ StepDone
    /\ UNCHANGED <<phase, loaded, memory, file, history>>

-----------------------------------------------------------------------------
Handle ==
    \/ \E u \in Usernames \cup {Missing}, p \in Passwords \cup {Missing} :
          SignUp(u, p) \/ LogIn(u, p)
    \/ \E auth \in Tokens \cup {Missing} :
          \/ LogOut(auth) \/ IsLoggedIn(auth) \/ GetLocations(auth)
          \/ \E old, new \in Passwords \cup {Missing} :
                ChangePassword(auth, old, new)
          \/ \E location \in Locations \cup {Missing} :
                Subscribe(auth, location) \/ Unsubscribe(auth, location)

Next ==
    \/ Start \/ LoadLine \/ FinishLoading \/ LoadFails \/ Crash
    \/ Handle
    \/ Send \/ SendFails
    \/ OpenFile \/ OpenFails \/ WriteLine \/ WriteFails \/ CloseFile

Spec == Init /\ [][Next]_vars

-----------------------------------------------------------------------------
(* Properties.                                                             *)

(* Type invariant of the service's variables and of its history.           *)
TypeOK ==
    /\ phase \in {"down", "loading", "up"}
    /\ loaded \in Nat
    /\ users \in Seq(UserInfo(Locations))
    /\ DOMAIN sessions \subseteq Tokens
    /\ sessions \in [DOMAIN sessions -> UserInfo(Locations)]
    /\ isAuthenticated \in BOOLEAN
    /\ bearer \in Tokens \cup {Missing}
    /\ file \in Seq(Text)
    /\ todo \in Seq(Steps)
    /\ ctx \in [op : Operations \cup {"none"}, token : Tokens \cup {Missing},
                status : {0, 200, 400, 401}, body : Seq(Locations)]
    /\ DOMAIN owner \subseteq Tokens
    /\ owner \in [DOMAIN owner -> Usernames]
    /\ revoked \subseteq DOMAIN owner
    /\ acked \subseteq Usernames
    /\ chosen \subseteq Text \X Text

(* No two registered users have the same name, however registrations,      *)
(* stops, reloads of users.txt and failed writes follow each other: the    *)
(* check in sign_up() looks at _users only, and after a restart _users is  *)
(* what the file gave back.  Holds for names without a comma.              *)
UniqueUsernames ==
    \A i, j \in DOMAIN users :
        users[i].username = users[j].username => i = j

(* The sessions are exactly the tokens that were issued and not revoked,   *)
(* and each belongs to the user it was issued to.  operator[] on _sessions *)
(* with a token that is gone would bring a session back, for no user.      *)
SessionsAreLive ==
    /\ DOMAIN sessions = DOMAIN owner \ revoked
    /\ \A t \in DOMAIN sessions : sessions[t].username = owner[t]

(* Every name and password in _users, and every pair a reload of the file  *)
(* would give at this moment, was accepted by sign_up() or                 *)
(* change_password() for that user: after stops and failures, too, while   *)
(* no write fails between the first and the last character of a password.  *)
NoInventedCredentials ==
    /\ \A i \in DOMAIN users :
          <<users[i].username, users[i].password>> \in chosen
    /\ \A i \in DOMAIN file : IsUserLine(file[i]) =>
          <<ParseLine(file[i]).username, ParseLine(file[i]).password>> \in chosen

(* A request touches no session but the one of the token it carries (or    *)
(* was just issued), whatever _bearer was left at by earlier requests.     *)
Untouched(t) ==
    /\ t \in DOMAIN sessions <=> t \in DOMAIN sessions'
    /\ t \in DOMAIN sessions => sessions'[t] = sessions[t]
OnlyOwnSessionTouched ==
    [][\A t \in Tokens : Untouched(t) \/ ctx'.token = t \/ phase' = "down"]_vars

(* A registered user's password changes only in a request that carries a   *)
(* live session of that very user.                                         *)
OnlyOwnerChangesPassword ==
    [][\A i \in DOMAIN users \cap DOMAIN users' :
          users'[i].password # users[i].password =>
             /\ ctx'.op = "changepassword" /\ ctx'.token \in DOMAIN sessions
             /\ owner[ctx'.token] = users[i].username]_vars

(* README.md: "A list of all of the registered users is stored within the  *)
(* users.txt file."  Whenever the file is not being rewritten, it gives    *)
(* back every user whose sign-up was answered.                             *)
UsersFileListsAcked ==
    ~Writing => \A u \in acked : \E i \in DOMAIN file :
                   IsUserLine(file[i]) /\ ParseLine(file[i]).username = u

(* Between two requests the file is the saved form of _users, after any    *)
(* number of changes, stops and reloads.                                   *)
DiskMatchesMemory ==
    Idle => file = [i \in DOMAIN users |-> Line(users[i])]
=============================================================================
