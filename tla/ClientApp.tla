------------------------------ MODULE ClientApp ------------------------------
(***************************************************************************)
(* Runs of the client program (httpClient.cpp) over HttpClient             *)
(* (cas/src/http-client.cpp), each on a connection of its own, and the     *)
(* server as far as Accounts describes it.                                 *)
(*                                                                         *)
(* A run asks the server whether its token is still good, shows one of two *)
(* menus, and does what the user picks; each request waits for its         *)
(* response.  When the server stops, HttpClient is left with a connection  *)
(* that ends or is reset, and never opens another.                         *)
(***************************************************************************)
EXTENDS Naturals, Sequences, FiniteSets

CONSTANTS
    Usernames, Passwords, Tokens, Locations, Missing,
    MaxLocations,   \* bound on the length of a session's list
    Clients,        \* runs of the client program
    Faults          \* what may go wrong, a subset of AllFaults

(* stop: the server stops; kill: the client is killed; sendFails: the      *)
(* client's send() reports an error; loadFails, writeFails: the server     *)
(* cannot open users.txt when it starts, or write all of it.               *)
AllFaults == {"stop", "kill", "sendFails", "loadFails", "writeFails"}

ASSUME ClientAssumption ==
    /\ Missing \notin Usernames \cup Passwords \cup Tokens \cup Locations
                      \cup Clients
    /\ Faults \subseteq AllFaults

VARIABLES running, accounts, saved, saving, sessions, issued, reply

VARIABLES
    unread,      \* clients with a request the server has not read
    serving,     \* the client that is owed the response, or Missing
    at,          \* where main() is: the menus are places to wait for the user
    bearer,      \* g_Bearer; Missing is the empty string
    request,     \* the request that make_request() is making
    answer,      \* the response that is there to be read
    connection   \* what _clientFd is good for

(* History variables.                                                      *)
VARIABLES
    openedBy,    \* the client each token was generated for
    listed       \* the locations the user was told to be subscribed to

server == <<running, accounts, saved, saving, sessions, issued, reply>>
client == <<at, bearer, request, answer, connection, listed>>
vars == <<server, client, unread, serving, openedBy>>

Server == INSTANCE Accounts WITH
    LoadsFail <- "loadFails" \in Faults,
    SavesFail <- "writeFails" \in Faults

NoRequest == [op |-> "none", args |-> <<>>]
NoAnswer == Server!NoReply

Init ==
    /\ Server!Init
    /\ unread = {} /\ serving = Missing
    /\ at = [c \in Clients |-> "off"]
    /\ bearer = [c \in Clients |-> Missing]
    /\ request = [c \in Clients |-> NoRequest]
    /\ answer = [c \in Clients |-> NoAnswer]
    /\ connection = [c \in Clients |-> "none"]
    /\ listed = [c \in Clients |-> <<>>]
    /\ openedBy = [t \in {} |-> Missing]

-----------------------------------------------------------------------------
(* HttpClient.                                                             *)

Goto(c, place) == at' = [at EXCEPT ![c] = place]

(* The process is gone, and what it had in memory.  A request it has sent  *)
(* is still the server's.                                                  *)
End(c) ==
    /\ Goto(c, "ended")
    /\ bearer' = [bearer EXCEPT ![c] = Missing]
    /\ request' = [request EXCEPT ![c] = IF c \in unread THEN @ ELSE NoRequest]
    /\ answer' = [answer EXCEPT ![c] = NoAnswer]
    /\ connection' = [connection EXCEPT ![c] = "none"]
    /\ listed' = [listed EXCEPT ![c] = <<>>]

(* The constructor connects, or throws before main().                      *)
Launch(c) ==
    /\ at[c] = "off"
    /\ \/ running /\ Goto(c, "top")
          /\ connection' = [connection EXCEPT ![c] = "up"]
       \/ ~running /\ Goto(c, "ended") /\ UNCHANGED connection
    /\ UNCHANGED <<server, bearer, request, answer, listed, unread,
                   serving, openedBy>>

(* make_request() up to the first read().  A connection the server has     *)
(* closed takes one more request and is reset by it; the next send()       *)
(* raises SIGPIPE.  After an error the descriptor is closed, and every     *)
(* later send() fails too; main() prints the exception and goes on.        *)
SendRequest(c, op, args) ==
    \/ /\ connection[c] \in {"up", "ended"}
       /\ Goto(c, "waiting")
       /\ request' = [request EXCEPT ![c] = [op |-> op, args |-> args]]
       /\ \/ /\ connection[c] = "up" /\ unread' = unread \cup {c}
             /\ UNCHANGED connection
          \/ /\ connection[c] = "ended" /\ UNCHANGED unread
             /\ \E later \in {"ended", "broken"} :
                   connection' = [connection EXCEPT ![c] = later]
       /\ UNCHANGED <<bearer, answer, listed>>
    \/ connection[c] = "broken" /\ End(c) /\ UNCHANGED unread
    \/ /\ connection[c] = "closed" \/ "sendFails" \in Faults
       /\ connection' = [connection EXCEPT ![c] = "closed"]
       /\ Goto(c, "top")
       /\ UNCHANGED <<bearer, request, answer, listed, unread>>

(* HttpResponse's defaults, which a response without a status line keeps.  *)
DefaultResponse == [NoAnswer EXCEPT !.status = 200]

(* Faulty variant: the end of the connection is not noticed.               *)
AnswerOnly(c, response) == answer[c] # NoAnswer /\ response = answer[c]

(* The rest of make_request(): the response, or, when the connection ends  *)
(* before it, the default one;                                             *)
ResponseTo(c, response) ==
    \/ answer[c] # NoAnswer /\ response = answer[c]
    \/ /\ answer[c] = NoAnswer
       /\ connection[c] \in {"ended", "broken"}
       /\ response = DefaultResponse

(* or an exception, when the server has stopped with the request unread.   *)
ReadFails(c) ==
    /\ at[c] = "waiting" /\ connection[c] = "reset"
    /\ connection' = [connection EXCEPT ![c] = "broken"]
    /\ request' = [request EXCEPT ![c] = NoRequest]
    /\ Goto(c, "top")
    /\ UNCHANGED <<server, bearer, answer, listed, unread, serving,
                   openedBy>>

-----------------------------------------------------------------------------
(* main() of httpClient.cpp.                                               *)

(* Faulty variants: any response will do; a status the server never sends. *)
AnyStatus(status) == status \in {200, 401}
Created(status) == status = 201

(* is_logged_in().                                                         *)
LoggedIn(status) == status = 200

Menus == {"start", "loggedIn"}

(* The head of the loop: without a token there is nothing to ask.          *)
Loop(c) ==
    /\ at[c] = "top"
    /\ \/ /\ bearer[c] = Missing
          /\ Goto(c, "start")
          /\ UNCHANGED <<bearer, request, answer, connection, listed, unread>>
       \/ bearer[c] # Missing /\ SendRequest(c, "amiloggedin", <<bearer[c]>>)
    /\ UNCHANGED <<server, serving, openedBy>>

(* Tokens and lists are bounded: a user asks for no more than there are.   *)
TokenLeft ==
    Cardinality({c \in unread : request[c].op \in {"signup", "login"}})
        < Cardinality(Tokens \ issued)

StartMenu(c) ==
    \E u \in Usernames \cup {Missing}, p \in Passwords \cup {Missing} :
        /\ TokenLeft
        /\ \/ SendRequest(c, "signup", <<u, p>>)
           \/ SendRequest(c, "login", <<u, p>>)

LoggedInMenu(c) ==
    \/ \E op \in {"logout", "getlocations"} : SendRequest(c, op, <<bearer[c]>>)
    \/ \E old, new \in Passwords \cup {Missing} :
          SendRequest(c, "changepassword", <<bearer[c], old, new>>)
    \/ \E location \in Locations \cup {Missing} :
          \/ /\ Len(listed[c]) < MaxLocations
             /\ SendRequest(c, "subscribe", <<bearer[c], location>>)
          \/ SendRequest(c, "unsubscribe", <<bearer[c], location>>)

(* The user picks an option.  What is not a number counts as 0, which      *)
(* quits; a number that is no option brings the menu back.                 *)
Pick(c) ==
    /\ at[c] \in Menus
    /\ \/ at[c] = "start" /\ StartMenu(c)
       \/ at[c] = "loggedIn" /\ LoggedInMenu(c)
       \/ End(c) /\ UNCHANGED unread
       \/ Goto(c, "top") /\ UNCHANGED <<bearer, request, answer,
                                        connection, listed, unread>>
    /\ UNCHANGED <<server, serving, openedBy>>

(* signup() and login() keep the token of a response with status 200, the  *)
(* empty string if it has none; logout() keeps the old one.                *)
NewBearer(c, response) ==
    IF request[c].op \in {"signup", "login"} /\ response.status = 200
    THEN response.token ELSE bearer[c]

(* The list the user can expect after a response with status 200.          *)
NowListed(op, list, body) ==
    CASE op \in {"signup", "login"} -> <<>>
      [] op = "subscribe" -> list \o body
      [] op = "unsubscribe" /\ body # <<>> ->
            LET i == CHOOSE j \in DOMAIN list :
                        /\ list[j] = body[1]
                        /\ \A k \in 1..(j - 1) : list[k] # body[1]
            IN  SubSeq(list, 1, i - 1) \o SubSeq(list, i + 1, Len(list))
      [] OTHER -> list

Receive(c) ==
    /\ at[c] = "waiting"
    /\ \E response \in {answer[c], DefaultResponse} :
          /\ ResponseTo(c, response)
          /\ \/ /\ request[c].op = "amiloggedin"
                /\ Goto(c, IF LoggedIn(response.status) THEN "loggedIn"
                           ELSE "start")
                /\ UNCHANGED <<bearer, listed>>
             \/ /\ request[c].op # "amiloggedin"
                /\ Goto(c, "top")
                /\ bearer' = [bearer EXCEPT ![c] = NewBearer(c, response)]
                /\ listed' = [listed EXCEPT ![c] =
                       IF response.status = 200
                       THEN NowListed(request[c].op, @, response.body) ELSE @]
    /\ request' = [request EXCEPT ![c] = NoRequest]
    /\ answer' = [answer EXCEPT ![c] = NoAnswer]
    /\ UNCHANGED <<server, connection, unread, serving, openedBy>>

Kill(c) ==
    /\ "kill" \in Faults /\ at[c] \notin {"off", "ended"}
    /\ End(c)
    /\ UNCHANGED <<server, unread, serving, openedBy>>

-----------------------------------------------------------------------------
(* The server.                                                             *)

(* What Accounts does with the request.                                    *)
Handle(r) ==
    CASE r.op = "signup" -> Server!SignUp(r.args[1], r.args[2])
      [] r.op = "login" -> Server!LogIn(r.args[1], r.args[2])
      [] r.op = "logout" -> Server!LogOut(r.args[1])
      [] r.op = "amiloggedin" -> Server!IsLoggedIn(r.args[1])
      [] r.op = "changepassword" ->
            Server!ChangePassword(r.args[1], r.args[2], r.args[3])
      [] r.op = "subscribe" -> Server!Subscribe(r.args[1], r.args[2])
      [] r.op = "unsubscribe" -> Server!Unsubscribe(r.args[1], r.args[2])
      [] r.op = "getlocations" -> Server!GetLocations(r.args[1])

Serve(c) ==
    /\ c \in unread /\ unread' = unread \ {c}
    /\ serving' = c
    /\ Handle(request[c])
    /\ openedBy' = [t \in DOMAIN openedBy \cup (issued' \ issued) |->
                       IF t \in issued THEN openedBy[t] ELSE c]
    /\ request' = [request EXCEPT ![c] = IF at[c] = "ended" THEN NoRequest
                                         ELSE @]
    /\ UNCHANGED <<at, bearer, answer, connection, listed>>

(* Faulty variant: the response goes to whoever is waiting.                *)
AnyWaiting == {c \in Clients : at[c] = "waiting"}

(* The connection the request came from.                                   *)
Requester == {serving}

(* The response is sent, before, after or during a save.                   *)
Respond ==
    /\ serving # Missing /\ serving' = Missing
    /\ \E c \in Requester :
          answer' = IF at[c] = "ended" THEN answer
                    ELSE [answer EXCEPT ![c] = reply]
    /\ UNCHANGED <<server, at, bearer, request, connection, listed,
                   unread, openedBy>>

BeginSave ==
    /\ Server!BeginSave
    /\ UNCHANGED <<client, unread, serving, openedBy>>

(* A handler ends when it has done both.                                   *)
EndSave ==
    /\ Server!EndSave
    /\ reply' = NoAnswer <=> serving = Missing
    /\ UNCHANGED <<client, unread, serving, openedBy>>

Done ==
    /\ serving = Missing /\ Server!Done
    /\ UNCHANGED <<client, unread, serving, openedBy>>

Run ==
    /\ Server!Run
    /\ UNCHANGED <<client, unread, serving, openedBy>>

(* The kernel closes the server's connections: those with a request that   *)
(* nobody has read are reset.                                              *)
Stop ==
    /\ "stop" \in Faults /\ Server!Stop
    /\ connection' = [c \in Clients |->
          IF connection[c] # "up" THEN connection[c]
          ELSE IF c \in unread THEN "reset" ELSE "ended"]
    /\ unread' = {} /\ serving' = Missing
    /\ request' = [c \in Clients |-> IF at[c] = "ended" THEN NoRequest
                                     ELSE request[c]]
    /\ UNCHANGED <<at, bearer, answer, listed, openedBy>>

-----------------------------------------------------------------------------
Next ==
    \/ \E c \in Clients :
          \/ Launch(c) \/ Loop(c) \/ Pick(c) \/ Receive(c) \/ ReadFails(c)
          \/ Kill(c) \/ Serve(c)
    \/ Respond \/ BeginSave \/ EndSave \/ Done \/ Run \/ Stop

Spec == Init /\ [][Next]_vars

(* Programs run; users need not.  A server that is up gets to every        *)
(* request (RequestIsServed of HttpServer) and finishes what it handles.   *)
FairSpec ==
    /\ Spec
    /\ \A c \in Clients :
          /\ WF_vars(Loop(c)) /\ WF_vars(Receive(c)) /\ WF_vars(ReadFails(c))
          /\ SF_vars(Serve(c))
    /\ WF_vars(Respond) /\ WF_vars(Done \/ EndSave)

-----------------------------------------------------------------------------
(* Properties.                                                             *)

(* Type invariant of the clients' variables.                               *)
TypeOK ==
    /\ unread \subseteq Clients /\ serving \in Clients \cup {Missing}
    /\ at \in [Clients -> {"off", "top", "waiting", "ended"} \cup Menus]
    /\ bearer \in [Clients -> Tokens \cup {Missing}]
    /\ connection \in [Clients -> {"none", "up", "ended", "reset", "broken",
                                   "closed"}]
    /\ \A c \in Clients :
          /\ at[c] = "waiting" \/ c \in unread => request[c] # NoRequest
          /\ answer[c] # NoAnswer => at[c] = "waiting" /\ c \notin unread
          /\ listed[c] \in Seq(Locations)

(* Tokens that are, or are about to be, the client's g_Bearer.             *)
Held(c) == {bearer[c], answer[c].token}
               \cup (IF serving = c THEN {reply.token} ELSE {})

(* While a client runs, the server keeps no session that was opened for it *)
(* and that it can no longer name: login() and signup() overwrite g_Bearer,*)
(* and logout() keeps it, but the menu that leads to them is shown only    *)
(* when the session of the old token is gone.                              *)
NoSessionForgotten ==
    \A t \in DOMAIN sessions :
        at[openedBy[t]] # "ended" => t \in Held(openedBy[t])

(* A client never holds a token that was generated for another one,        *)
(* whatever the order in which requests are sent, handled and answered.    *)
BearerIsOwn ==
    \A c \in Clients : bearer[c] # Missing => openedBy[bearer[c]] = c

(* README.md: "The started client will display a list of options when not  *)
(* logged in", and the other list "once logged in".  As long as the server *)
(* has not stopped, the menu on the screen is the right one when it is     *)
(* shown.                                                                  *)
MenuIsRight(c) ==
    at'[c] = "loggedIn" <=> bearer'[c] \in DOMAIN sessions'
Shows(c) == at[c] \notin Menus /\ at'[c] \in Menus
MenuFollowsSession ==
    [][\A c \in Clients :
          Shows(c) /\ connection[c] = "up" => MenuIsRight(c)]_vars

(* The same whether the server has stopped or not.                         *)
MenuAlwaysRight ==
    [][\A c \in Clients : Shows(c) => MenuIsRight(c)]_vars

(* The list a user is shown is the one that follows from the responses the *)
(* user has seen: nobody else's requests, and no log-in of the same user   *)
(* elsewhere, get into it.                                                 *)
ListIsAsTold ==
    \A c \in Clients :
        /\ at[c] = "waiting" /\ request[c].op = "getlocations"
        /\ answer[c].status = 200
        => answer[c].body = listed[c]

(* No client is left in read() for a response that nobody owes it: its     *)
(* request is at the server or the response has come, or the connection is *)
(* gone and read() returns.                                                *)
NobodyWaitsInVain ==
    \A c \in Clients : at[c] = "waiting" =>
        \/ c \in unread \/ serving = c \/ answer[c] # NoAnswer
        \/ connection[c] \in {"ended", "reset", "broken"}

(* A user gets the next menu, or the program ends, whatever happens to the *)
(* server; but not after a failed send(): main() then asks the server for  *)
(* ever whether the token is still good.                                   *)
PromptReturns ==
    \A c \in Clients :
        at[c] \in {"top", "waiting"} ~>
            \/ at[c] \in Menus \cup {"ended"}
            \/ connection[c] = "closed" /\ bearer[c] # Missing
=============================================================================
