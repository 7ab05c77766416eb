--------------------------- MODULE ClientAppProofs ---------------------------
(***************************************************************************)
(* Theorems about ClientApp for any number of clients, users and tokens:   *)
(* whose token a client has, which sessions it can still name, which menu  *)
(* it shows, and which list of locations.                                  *)
(***************************************************************************)
EXTENDS ClientApp, TLAPS

Opening == {"signup", "login"}
SessionOps == {"logout", "amiloggedin", "changepassword", "subscribe",
               "unsubscribe", "getlocations"}

-----------------------------------------------------------------------------
(* The inductive invariant.                                                *)

Types ==
    /\ unread \subseteq Clients /\ serving \in Clients \cup {Missing}
    /\ at \in [Clients -> {"off", "top", "waiting", "ended"} \cup Menus]
    /\ bearer \in [Clients -> Tokens \cup {Missing}]
    /\ connection \in [Clients -> {"none", "up", "ended", "reset", "broken",
                                   "closed"}]
    /\ DOMAIN request = Clients /\ DOMAIN answer = Clients
    /\ issued \subseteq Tokens /\ DOMAIN sessions \subseteq issued
    /\ openedBy \in [issued -> Clients]

Owns(c, t) == t \in issued /\ openedBy[t] = c
Own(c) == bearer[c] # Missing => Owns(c, bearer[c])
Live(c) == bearer[c] \in DOMAIN sessions

(* A request other than the two that open a session names the token of the *)
(* client that made it, who may be gone when it is read.                   *)
Asking(c) ==
    at[c] = "waiting" \/ c \in unread =>
        /\ request[c].op \in Opening \cup SessionOps
        /\ request[c].op \in SessionOps =>
              /\ request[c].args[1] = Missing \/ Owns(c, request[c].args[1])
              /\ at[c] = "waiting" => request[c].args[1] = bearer[c]

(* A client waits for its response, on a connection that is up until the   *)
(* server stops.                                                           *)
OnTheWay(c) ==
    /\ c \in unread \/ serving = c =>
          \/ at[c] = "ended"
          \/ at[c] = "waiting" /\ connection[c] = "up" /\ answer[c] = NoAnswer
    /\ c \in unread => serving # c
    /\ answer[c] # NoAnswer => at[c] = "waiting" /\ connection[c] # "reset"

(* What the response to the client's request says.                         *)
Fits(c, response) ==
    /\ response.op = request[c].op
    /\ response.op \in Opening =>
          \/ response.status = 200 /\ Owns(c, response.token)
          \/ response.status = 400 /\ response.token = Missing
    /\ response.op \in SessionOps => response.token = bearer[c]
    /\ response.op = "amiloggedin" =>
          IF response.status = 200 THEN connection[c] = "up" => Live(c)
          ELSE ~Live(c)

Answered(c) ==
    /\ serving = c /\ at[c] = "waiting" => Fits(c, reply)
    /\ answer[c] # NoAnswer => Fits(c, answer[c])

(* The token of a client about to overwrite it has no session any more.    *)
SafeToOpen(c) ==
    \/ at[c] = "start"
    \/ at[c] = "waiting" /\ request[c].op \in Opening
    => ~Live(c)

Remembered(c) ==
    \A t \in DOMAIN sessions :
        openedBy[t] = c /\ at[c] # "ended" => t \in Held(c)

Local(c) ==
    /\ Own(c) /\ Asking(c) /\ OnTheWay(c) /\ Answered(c) /\ SafeToOpen(c)
    /\ Remembered(c)

ServingIsHandled == reply = NoAnswer => serving = Missing

CInv == Types /\ ServingIsHandled /\ \A c \in Clients : Local(c)

LEMMA InitCInv == Init => CInv
<1> SUFFICES ASSUME Init PROVE CInv
  OBVIOUS
<1>1. DOMAIN sessions = {}
  BY DEF Init, Server!Init, Server!Nobody
<1>2. Types
  BY <1>1 DEF Init, Server!Init, Types
<1>3. ASSUME NEW c \in Clients PROVE Local(c)
  <2>1. serving # c
    BY ClientAssumption DEF Init
  <2>2. Own(c) /\ Asking(c) /\ OnTheWay(c) /\ Answered(c)
    BY <2>1 DEF Init, Own, Asking, OnTheWay, Answered
  <2>3. SafeToOpen(c) /\ Remembered(c)
    BY <1>1 DEF Init, SafeToOpen, Remembered, Live
  <2> QED BY <2>2, <2>3 DEF Local
<1> QED BY <1>2, <1>3 DEF CInv, Init, ServingIsHandled

-----------------------------------------------------------------------------
(* Steps of one client, which leave the server and the other clients be.   *)

LEMMA ClientStep ==
    ASSUME CInv, NEW c \in Clients,
           UNCHANGED <<sessions, issued, reply, serving, openedBy>>,
           Types', Local(c)',
           \A d \in Clients \ {c} :
               /\ at'[d] = at[d] /\ bearer'[d] = bearer[d]
               /\ request'[d] = request[d] /\ answer'[d] = answer[d]
               /\ connection'[d] = connection[d]
               /\ d \in unread' <=> d \in unread
    PROVE  CInv'
<1>1. ASSUME NEW d \in Clients \ {c} PROVE Local(d)'
  <2>1. Local(d)
    BY DEF CInv
  <2>2. Own(d)' /\ Asking(d)' /\ OnTheWay(d)'
    BY <2>1 DEF Local, Own, Asking, OnTheWay, Owns
  <2>3. Answered(d)'
    BY <2>1 DEF Local, Answered, Fits, Owns, Live
  <2>4. SafeToOpen(d)' /\ Remembered(d)'
    BY <2>1 DEF Local, SafeToOpen, Live, Remembered, Held
  <2> QED BY <2>2, <2>3, <2>4 DEF Local
<1>2. ServingIsHandled'
  BY DEF CInv, ServingIsHandled
<1> QED BY <1>1, <1>2 DEF CInv

(* A client that is not waiting has nothing on the way.                    *)
LEMMA NotWaiting ==
    ASSUME CInv, NEW c \in Clients, at[c] \notin {"waiting", "ended"}
    PROVE  c \notin unread /\ serving # c /\ answer[c] = NoAnswer
BY DEF CInv, Local, OnTheWay

LEMMA EndCInv ==
    ASSUME CInv, NEW c \in Clients, End(c),
           UNCHANGED <<server, serving, openedBy, unread>>
    PROVE  CInv'
<1>1. UNCHANGED <<sessions, issued, reply>>
  BY DEF server
<1>2. /\ at'[c] = "ended" /\ bearer'[c] = Missing /\ answer'[c] = NoAnswer
      /\ c \in unread => request'[c] = request[c]
      /\ \A d \in Clients \ {c} :
            /\ at'[d] = at[d] /\ bearer'[d] = bearer[d]
            /\ request'[d] = request[d] /\ answer'[d] = answer[d]
            /\ connection'[d] = connection[d]
  BY DEF End, Goto, CInv, Types
<1>3. Types'
  BY <1>1 DEF End, Goto, CInv, Types
<1>4. Local(c)'
  <2>1. Local(c)
    BY DEF CInv
  <2>2. Own(c)' /\ OnTheWay(c)' /\ Answered(c)' /\ SafeToOpen(c)' /\ Remembered(c)'
    BY <1>1, <1>2, <2>1 DEF Local, Own, OnTheWay, Answered, SafeToOpen, Remembered
  <2>3. Asking(c)'
    BY <1>1, <1>2, <2>1 DEF Local, Asking, Owns
  <2> QED BY <2>2, <2>3 DEF Local
<1> QED BY <1>1, <1>2, <1>3, <1>4, ClientStep

LEMMA GotoCInv ==
    ASSUME CInv, NEW c \in Clients, NEW place \in {"top", "ended"} \cup Menus,
           at[c] \notin {"waiting", "ended"}, Goto(c, place),
           place = "start" => ~Live(c),
           connection' \in {connection, [connection EXCEPT ![c] = "up"],
                            [connection EXCEPT ![c] = "closed"]},
           UNCHANGED <<server, bearer, request, answer, unread, serving, openedBy>>
    PROVE  CInv'
<1>1. UNCHANGED <<sessions, issued, reply>>
  BY DEF server
<1>2. /\ at'[c] = place /\ place # "waiting"
      /\ \A d \in Clients \ {c} :
            at'[d] = at[d] /\ connection'[d] = connection[d]
  BY DEF Goto, CInv, Types, Menus
<1>3. Types'
  BY <1>1 DEF Goto, CInv, Types
<1>4. Local(c) /\ c \notin unread /\ serving # c /\ answer[c] = NoAnswer
  BY NotWaiting DEF CInv
<1>5. Local(c)'
  <2>1. Own(c)' /\ OnTheWay(c)' /\ Answered(c)' /\ Asking(c)'
    BY <1>1, <1>2, <1>4 DEF Local, Own, Owns, OnTheWay, Answered, Asking
  <2>2. SafeToOpen(c)' /\ Remembered(c)'
    BY <1>1, <1>2, <1>4 DEF Local, SafeToOpen, Live, Remembered, Held
  <2> QED BY <2>1, <2>2 DEF Local
<1> QED BY <1>1, <1>2, <1>3, <1>5, ClientStep

LEMMA SendRequestCInv ==
    ASSUME CInv, NEW c \in Clients, at[c] \in {"top"} \cup Menus,
           NEW op \in Opening \cup SessionOps, NEW args,
           op \in Opening => ~Live(c), op \in SessionOps => args[1] = bearer[c],
           SendRequest(c, op, args), UNCHANGED <<server, serving, openedBy>>
    PROVE  CInv'
<1>0. /\ Local(c) /\ c \notin unread /\ serving # c /\ answer[c] = NoAnswer
      /\ at[c] \notin {"waiting", "ended"}
  BY NotWaiting DEF CInv, Menus
<1>1. CASE connection[c] \in {"up", "ended"} /\ Goto(c, "waiting")
           /\ request' = [request EXCEPT ![c] = [op |-> op, args |-> args]]
           /\ (\/ /\ connection[c] = "up" /\ unread' = unread \cup {c}
                  /\ UNCHANGED connection
               \/ /\ connection[c] = "ended" /\ UNCHANGED unread
                  /\ \E later \in {"ended", "broken"} :
                        connection' = [connection EXCEPT ![c] = later])
           /\ UNCHANGED <<bearer, answer, listed>>
  <2>1. UNCHANGED <<sessions, issued, reply>>
    BY DEF server
  <2>2. /\ at'[c] = "waiting" /\ request'[c].op = op /\ request'[c].args = args
        /\ c \in unread' => connection'[c] = "up"
        /\ \A d \in Clients \ {c} :
              /\ at'[d] = at[d] /\ request'[d] = request[d]
              /\ connection'[d] = connection[d]
              /\ d \in unread' <=> d \in unread
    <3>1. /\ at'[c] = "waiting" /\ request'[c] = [op |-> op, args |-> args]
          /\ \A d \in Clients \ {c} : at'[d] = at[d] /\ request'[d] = request[d]
      BY <1>1 DEF Goto, CInv, Types
    <3>2. /\ c \in unread' => connection'[c] = "up"
          /\ \A d \in Clients \ {c} : connection'[d] = connection[d]
                                     /\ (d \in unread' <=> d \in unread)
      BY <1>0, <1>1 DEF CInv, Types
    <3> QED BY <3>1, <3>2
  <2>3. Types'
    BY <1>1, <2>1 DEF Goto, CInv, Types
  <2>4. Own(c)' /\ OnTheWay(c)' /\ Answered(c)'
    BY <1>0, <1>1, <2>1, <2>2 DEF Local, Own, Owns, OnTheWay, Answered
  <2>5. Asking(c)'
    BY <1>0, <1>1, <2>1, <2>2 DEF Local, Own, Owns, Asking
  <2>6. SafeToOpen(c)'
    BY <1>1, <2>1, <2>2 DEF SafeToOpen, Live
  <2>7. Remembered(c)'
    BY <1>0, <1>1, <2>1, <2>2 DEF Local, Remembered, Held
  <2>8. Local(c)'
    BY <2>4, <2>5, <2>6, <2>7 DEF Local
  <2> QED BY <1>1, <2>1, <2>2, <2>3, <2>8, ClientStep
<1>2. CASE End(c) /\ UNCHANGED unread
  BY <1>2, EndCInv
<1>3. CASE /\ connection' = [connection EXCEPT ![c] = "closed"] /\ Goto(c, "top")
           /\ UNCHANGED <<bearer, request, answer, listed, unread>>
  BY <1>0, <1>3, GotoCInv
<1> QED BY <1>1, <1>2, <1>3 DEF SendRequest

-----------------------------------------------------------------------------
(* main().                                                                 *)

LEMMA LaunchCInv == ASSUME CInv, NEW c \in Clients, Launch(c) PROVE CInv'
BY GotoCInv DEF Launch

LEMMA LoopCInv == ASSUME CInv, NEW c \in Clients, Loop(c) PROVE CInv'
<1>1. at[c] = "top" /\ UNCHANGED <<server, serving, openedBy>>
  BY DEF Loop
<1>2. CASE bearer[c] = Missing /\ Goto(c, "start")
           /\ UNCHANGED <<bearer, request, answer, connection, listed, unread>>
  <2>1. ~Live(c)
    BY <1>2, ClientAssumption DEF Live, CInv, Types
  <2> QED BY <1>1, <1>2, <2>1, GotoCInv DEF Menus
<1>3. CASE SendRequest(c, "amiloggedin", <<bearer[c]>>)
  BY <1>1, <1>3, SendRequestCInv DEF Opening, SessionOps
<1> QED BY <1>2, <1>3 DEF Loop

LEMMA PickCInv == ASSUME CInv, NEW c \in Clients, Pick(c) PROVE CInv'
<1>1. at[c] \in Menus /\ UNCHANGED <<server, serving, openedBy>>
  BY DEF Pick
<1>2. CASE at[c] = "start" /\ StartMenu(c)
  <2>1. ~Live(c)
    BY <1>2 DEF CInv, Local, SafeToOpen
  <2>2. PICK op \in Opening : \E args : SendRequest(c, op, args)
    BY <1>2 DEF StartMenu, Opening
  <2>3. op \notin SessionOps
    BY DEF Opening, SessionOps
  <2> QED BY <1>1, <2>1, <2>2, <2>3, SendRequestCInv
<1>3. CASE LoggedInMenu(c)
  <2>1. PICK op \in SessionOps : \E args : args[1] = bearer[c] /\ SendRequest(c, op, args)
    <3>1. CASE \E op \in {"logout", "getlocations"} : SendRequest(c, op, <<bearer[c]>>)
      BY <3>1 DEF SessionOps
    <3>2. CASE \E old, new \in Passwords \cup {Missing} :
                  SendRequest(c, "changepassword", <<bearer[c], old, new>>)
      BY <3>2 DEF SessionOps
    <3>3. CASE \E location \in Locations \cup {Missing} :
                  \/ SendRequest(c, "subscribe", <<bearer[c], location>>)
                  \/ SendRequest(c, "unsubscribe", <<bearer[c], location>>)
      BY <3>3 DEF SessionOps
    <3> QED BY <1>3, <3>1, <3>2, <3>3 DEF LoggedInMenu
  <2>2. op \notin Opening
    BY DEF Opening, SessionOps
  <2> QED BY <1>1, <2>1, <2>2, SendRequestCInv
<1>4. CASE End(c) /\ UNCHANGED unread
  BY <1>1, <1>4, EndCInv
<1>5. CASE Goto(c, "top") /\ UNCHANGED <<bearer, request, answer, connection,
                                         listed, unread>>
  BY <1>1, <1>5, GotoCInv DEF Menus
<1> QED BY <1>2, <1>3, <1>4, <1>5 DEF Pick

LEMMA KillCInv == ASSUME CInv, NEW c \in Clients, Kill(c) PROVE CInv'
BY EndCInv DEF Kill

LEMMA ReadFailsCInv == ASSUME CInv, NEW c \in Clients, ReadFails(c) PROVE CInv'
<1>1. /\ at[c] = "waiting" /\ connection[c] = "reset"
      /\ UNCHANGED <<sessions, issued, reply, bearer, answer, unread, serving,
                     openedBy>>
  BY DEF ReadFails, server
<1>2. /\ at'[c] = "top"
      /\ \A d \in Clients \ {c} :
            /\ at'[d] = at[d] /\ request'[d] = request[d]
            /\ connection'[d] = connection[d]
  BY DEF ReadFails, Goto, CInv, Types
<1>3. Types'
  BY <1>1 DEF ReadFails, Goto, CInv, Types
<1>4. Local(c) /\ c \notin unread /\ serving # c /\ answer[c] = NoAnswer
  BY <1>1 DEF CInv, Local, OnTheWay
<1>5. Own(c)' /\ Asking(c)' /\ OnTheWay(c)' /\ Answered(c)' /\ SafeToOpen(c)'
  BY <1>1, <1>2, <1>4
     DEF Local, Own, Owns, Asking, OnTheWay, Answered, SafeToOpen
<1>6. Remembered(c)'
  BY <1>1, <1>2, <1>4 DEF Local, Remembered, Held
<1>7. Local(c)'
  BY <1>5, <1>6 DEF Local
<1> QED BY <1>1, <1>2, <1>3, <1>7, ClientStep

(* The response in the client's hands is one to its request, or the default*)
(* one of a connection that has ended, which has no token.                 *)
LEMMA ReceiveCInv == ASSUME CInv, NEW c \in Clients, Receive(c) PROVE CInv'
<1>1. PICK response \in {answer[c], DefaultResponse} :
        /\ ResponseTo(c, response)
        /\ \/ /\ request[c].op = "amiloggedin"
              /\ Goto(c, IF LoggedIn(response.status) THEN "loggedIn" ELSE "start")
              /\ UNCHANGED <<bearer, listed>>
           \/ /\ request[c].op # "amiloggedin"
              /\ Goto(c, "top")
              /\ bearer' = [bearer EXCEPT ![c] = NewBearer(c, response)]
  BY DEF Receive
<1>2. /\ at[c] = "waiting"
      /\ request' = [request EXCEPT ![c] = NoRequest]
      /\ answer' = [answer EXCEPT ![c] = NoAnswer]
      /\ UNCHANGED <<sessions, issued, reply, connection, unread, serving, openedBy>>
  BY DEF Receive, server
<1>3. Local(c) /\ Types
  BY DEF CInv
<1>4. c \notin unread /\ serving # c
  BY <1>1, <1>2, <1>3 DEF ResponseTo, Local, OnTheWay
<1>5. \/ response = answer[c] /\ answer[c] # NoAnswer /\ Fits(c, response)
      \/ answer[c] = NoAnswer /\ response.status = 200 /\ response.token = Missing
  BY <1>1, <1>3 DEF ResponseTo, DefaultResponse, NoAnswer, Server!NoReply,
                    Local, Answered
<1>6. PICK token : token = bearer'[c]
  OBVIOUS
<1>7. /\ at'[c] \in {"top", "loggedIn", "start"} /\ at'[c] # "waiting"
      /\ at'[c] = "start" => bearer'[c] = bearer[c] /\ ~Live(c)
  <2>1. at'[c] = IF request[c].op # "amiloggedin" THEN "top"
                 ELSE IF response.status = 200 THEN "loggedIn" ELSE "start"
    BY <1>1, <1>3 DEF Goto, Types, LoggedIn
  <2>2. CASE at'[c] = "start"
    <3>1. request[c].op = "amiloggedin" /\ response.status # 200
      BY <2>1, <2>2
    <3> QED BY <1>1, <1>5, <2>1, <3>1 DEF Fits
  <2> QED BY <2>1, <2>2
<1>8. /\ token = bearer[c]
      \/ /\ request[c].op \in Opening /\ ~Live(c)
         /\ token = Missing \/ Owns(c, token)
  <2>1. CASE request[c].op \in Opening /\ response.status = 200
    <3>1. token = response.token
      BY <1>1, <1>3, <1>6, <2>1 DEF Types, NewBearer, Opening
    <3> QED BY <1>2, <1>3, <1>5, <2>1, <3>1 DEF Fits, Local, SafeToOpen
  <2>2. CASE ~(request[c].op \in Opening /\ response.status = 200)
    BY <1>1, <1>3, <1>6, <2>2 DEF Types, NewBearer, Opening
  <2> QED BY <2>1, <2>2
<1>9. /\ \A d \in Clients \ {c} :
            /\ at'[d] = at[d] /\ bearer'[d] = bearer[d]
            /\ request'[d] = request[d] /\ answer'[d] = answer[d]
      /\ answer'[c] = NoAnswer
  BY <1>1, <1>2, <1>3 DEF Goto, Types
<1>10. Types'
  <2>1. token \in Tokens \cup {Missing}
    BY <1>3, <1>8 DEF Types, Owns
  <2>2. bearer' \in [Clients -> Tokens \cup {Missing}]
    BY <1>1, <1>3, <1>6, <2>1 DEF Types
  <2>3. at' \in [Clients -> {"off", "top", "waiting", "ended"} \cup Menus]
    BY <1>1, <1>3 DEF Goto, Types, Menus
  <2> QED BY <1>2, <1>3, <2>2, <2>3 DEF Types
<1>11. Own(c)' /\ Asking(c)' /\ OnTheWay(c)' /\ Answered(c)'
  BY <1>2, <1>3, <1>4, <1>6, <1>7, <1>8, <1>9
     DEF Local, Own, Owns, Asking, OnTheWay, Answered
<1>12. SafeToOpen(c)'
  BY <1>2, <1>7 DEF SafeToOpen, Live
<1>13. Remembered(c)'
  <2> SUFFICES ASSUME NEW t \in DOMAIN sessions, openedBy[t] = c PROVE t = token
    BY <1>2, <1>6 DEF Remembered, Held
  <2>1. t = bearer[c] \/ t = answer[c].token
    BY <1>2, <1>3, <1>4 DEF Local, Remembered, Held
  <2>2. t # Missing
    BY <1>3, ClientAssumption DEF Types
  <2>3. CASE t = bearer[c]
    BY <1>8, <2>3 DEF Live
  <2>4. CASE t = answer[c].token /\ t # bearer[c]
    <3>1. answer[c] # NoAnswer
      BY <2>2, <2>4 DEF NoAnswer, Server!NoReply
    <3>2. Fits(c, answer[c]) /\ Asking(c)
      BY <1>3, <3>1 DEF Local, Answered
    <3>3. answer[c].op \in Opening /\ answer[c].status = 200
      BY <1>2, <2>2, <2>4, <3>2 DEF Fits, Asking
    <3> QED BY <1>1, <1>3, <1>5, <1>6, <2>4, <3>1, <3>2, <3>3
            DEF Types, Fits, NewBearer, Opening
  <2> QED BY <2>1, <2>3, <2>4
<1>14. Local(c)'
  BY <1>11, <1>12, <1>13 DEF Local
<1> QED BY <1>2, <1>9, <1>10, <1>14, ClientStep

-----------------------------------------------------------------------------
(* The server handles a request.                                           *)

(* What Accounts does with it, as far as tokens and sessions go.           *)
LEMMA OpenEffect ==
    ASSUME NEW op, NEW u, NEW p, Server!OpenSession(op, u, p)
    PROVE  /\ reply'.op = op /\ reply'.status = 200
           /\ reply'.token \in Tokens \ issued
           /\ issued' = issued \cup {reply'.token}
           /\ DOMAIN sessions' = DOMAIN sessions \cup {reply'.token}
BY DEF Server!OpenSession, Server!Answer, Server!Update

LEMMA RefuseEffect ==
    ASSUME NEW op, NEW token, NEW status, Server!Refuse(op, token, status)
    PROVE  /\ reply'.op = op /\ reply'.status = status /\ reply'.token = token
           /\ issued' = issued /\ sessions' = sessions
BY DEF Server!Refuse, Server!Answer

OpensOrRefuses(op) ==
    /\ reply = NoAnswer /\ reply'.op = op
    /\ \/ /\ reply'.status = 200
          /\ reply'.token \in Tokens \ issued
          /\ issued' = issued \cup {reply'.token}
          /\ DOMAIN sessions' = DOMAIN sessions \cup {reply'.token}
       \/ /\ reply'.status = 400 /\ reply'.token = Missing
          /\ issued' = issued /\ DOMAIN sessions' = DOMAIN sessions

LEMMA OpeningEffect ==
    ASSUME NEW u, NEW p
    PROVE  /\ Server!SignUp(u, p) => OpensOrRefuses("signup")
           /\ Server!LogIn(u, p) => OpensOrRefuses("login")
<1>1. ASSUME Server!SignUp(u, p) PROVE OpensOrRefuses("signup")
  BY <1>1, OpenEffect, RefuseEffect
     DEF Server!SignUp, Server!Ready, OpensOrRefuses, NoAnswer
<1>2. ASSUME Server!LogIn(u, p) PROVE OpensOrRefuses("login")
  BY <1>2, OpenEffect, RefuseEffect
     DEF Server!LogIn, Server!Ready, OpensOrRefuses, NoAnswer
<1> QED BY <1>1, <1>2

UsesSession(op, token) ==
    /\ reply = NoAnswer /\ reply'.op = op
    /\ reply'.token = token /\ issued' = issued
    /\ DOMAIN sessions' \subseteq DOMAIN sessions
    /\ DOMAIN sessions \ DOMAIN sessions' \subseteq {token}
    /\ op = "amiloggedin" =>
          /\ DOMAIN sessions' = DOMAIN sessions
          /\ reply'.status = 200 <=> token \in DOMAIN sessions

LEMMA SessionEffect ==
    ASSUME NEW token, NEW x, NEW y
    PROVE  /\ Server!LogOut(token) => UsesSession("logout", token)
           /\ Server!IsLoggedIn(token) => UsesSession("amiloggedin", token)
           /\ Server!ChangePassword(token, x, y)
                 => UsesSession("changepassword", token)
           /\ Server!Subscribe(token, x) => UsesSession("subscribe", token)
           /\ Server!Unsubscribe(token, x) => UsesSession("unsubscribe", token)
           /\ Server!GetLocations(token) => UsesSession("getlocations", token)
<1>1. ASSUME Server!LogOut(token) PROVE UsesSession("logout", token)
  BY <1>1, RefuseEffect
     DEF Server!LogOut, Server!WithSession, Server!Ready, Server!Answer,
         UsesSession, NoAnswer, Server!Restrict
<1>2. ASSUME Server!IsLoggedIn(token) PROVE UsesSession("amiloggedin", token)
  BY <1>2, RefuseEffect
     DEF Server!IsLoggedIn, Server!WithSession, Server!Ready, Server!Answer,
         UsesSession, NoAnswer
<1>3. ASSUME Server!ChangePassword(token, x, y)
      PROVE  UsesSession("changepassword", token)
  BY <1>3, RefuseEffect
     DEF Server!ChangePassword, Server!WithSession, Server!Ready, Server!Answer,
         UsesSession, NoAnswer
<1>4. ASSUME Server!Subscribe(token, x) PROVE UsesSession("subscribe", token)
  BY <1>4, RefuseEffect
     DEF Server!Subscribe, Server!WithSession, Server!Ready, Server!Answer,
         UsesSession, NoAnswer
<1>5. ASSUME Server!Unsubscribe(token, x) PROVE UsesSession("unsubscribe", token)
  BY <1>5, RefuseEffect
     DEF Server!Unsubscribe, Server!WithSession, Server!Ready, Server!Answer,
         UsesSession, NoAnswer
<1>6. ASSUME Server!GetLocations(token) PROVE UsesSession("getlocations", token)
  BY <1>6, RefuseEffect
     DEF Server!GetLocations, Server!WithSession, Server!Ready, Server!Answer,
         UsesSession, NoAnswer
<1> QED BY <1>1, <1>2, <1>3, <1>4, <1>5, <1>6

LEMMA HandleEffect ==
    ASSUME NEW r, r.op \in Opening \cup SessionOps, Handle(r)
    PROVE  \/ r.op \in Opening /\ OpensOrRefuses(r.op)
           \/ r.op \in SessionOps /\ UsesSession(r.op, r.args[1])
<1>1. CASE r.op = "signup"
  <2>1. Server!SignUp(r.args[1], r.args[2])
    BY <1>1 DEF Handle
  <2> QED BY <1>1, <2>1, OpeningEffect DEF Opening
<1>2. CASE r.op = "login"
  <2>1. Server!LogIn(r.args[1], r.args[2])
    BY <1>2 DEF Handle
  <2> QED BY <1>2, <2>1, OpeningEffect DEF Opening
<1>3. CASE r.op = "logout"
  <2>1. Server!LogOut(r.args[1])
    BY <1>3 DEF Handle
  <2> QED BY <1>3, <2>1, SessionEffect DEF SessionOps
<1>4. CASE r.op = "amiloggedin"
  <2>1. Server!IsLoggedIn(r.args[1])
    BY <1>4 DEF Handle
  <2> QED BY <1>4, <2>1, SessionEffect DEF SessionOps
<1>5. CASE r.op = "changepassword"
  <2>1. Server!ChangePassword(r.args[1], r.args[2], r.args[3])
    BY <1>5 DEF Handle
  <2> QED BY <1>5, <2>1, SessionEffect DEF SessionOps
<1>6. CASE r.op = "subscribe"
  <2>1. Server!Subscribe(r.args[1], r.args[2])
    BY <1>6 DEF Handle
  <2> QED BY <1>6, <2>1, SessionEffect DEF SessionOps
<1>7. CASE r.op = "unsubscribe"
  <2>1. Server!Unsubscribe(r.args[1], r.args[2])
    BY <1>7 DEF Handle
  <2> QED BY <1>7, <2>1, SessionEffect DEF SessionOps
<1>8. CASE r.op = "getlocations"
  <2>1. Server!GetLocations(r.args[1])
    BY <1>8 DEF Handle
  <2> QED BY <1>8, <2>1, SessionEffect DEF SessionOps
<1> QED BY <1>1, <1>2, <1>3, <1>4, <1>5, <1>6, <1>7, <1>8
        DEF Opening, SessionOps

(* Tokens keep their owners, and only a request of its own client ends a   *)
(* session.                                                                *)
LEMMA ServeEffect ==
    ASSUME CInv, NEW c \in Clients, Serve(c)
    PROVE  /\ serving = Missing /\ issued' \subseteq Tokens
           /\ issued \subseteq issued' /\ DOMAIN sessions' \subseteq issued'
           /\ openedBy' \in [issued' -> Clients]
           /\ \A t \in issued : openedBy'[t] = openedBy[t]
           /\ \A t \in issued' \ issued : openedBy'[t] = c /\ t = reply'.token
           /\ \A t \in DOMAIN sessions' : t \in DOMAIN sessions \/ t \notin issued
           /\ \A t \in DOMAIN sessions \ DOMAIN sessions' : Owns(c, t)
           /\ Fits(c, reply)' \/ at[c] # "waiting"
           /\ reply' # NoAnswer
<1>1. Types /\ Local(c) /\ ServingIsHandled
  BY DEF CInv
<1>2. PICK r : r = request[c] /\ Handle(r)
  BY DEF Serve
<1>3. /\ c \in unread /\ r.op \in Opening \cup SessionOps
      /\ r.op \in SessionOps => r.args[1] = Missing \/ Owns(c, r.args[1])
      /\ at[c] = "waiting" /\ r.op \in SessionOps => r.args[1] = bearer[c]
  BY <1>1, <1>2 DEF Serve, Local, Asking
<1>4. \/ r.op \in Opening /\ OpensOrRefuses(r.op)
      \/ r.op \in SessionOps /\ UsesSession(r.op, r.args[1])
  BY <1>2, <1>3, HandleEffect
<1>5. serving = Missing
  BY <1>1, <1>4 DEF ServingIsHandled, OpensOrRefuses, UsesSession
<1>6. /\ issued' \subseteq Tokens /\ issued \subseteq issued'
      /\ DOMAIN sessions' \subseteq issued'
      /\ \A t \in issued' \ issued : t = reply'.token
      /\ \A t \in DOMAIN sessions' : t \in DOMAIN sessions \/ t \notin issued
  BY <1>1, <1>4 DEF Types, OpensOrRefuses, UsesSession
<1>7. openedBy' = [t \in DOMAIN openedBy \cup (issued' \ issued) |->
                     IF t \in issued THEN openedBy[t] ELSE c]
  BY DEF Serve
<1>8. /\ openedBy' \in [issued' -> Clients]
      /\ \A t \in issued : openedBy'[t] = openedBy[t]
      /\ \A t \in issued' \ issued : openedBy'[t] = c
  BY <1>1, <1>6, <1>7 DEF Types
<1>9. \A t \in DOMAIN sessions \ DOMAIN sessions' : Owns(c, t)
  BY <1>1, <1>3, <1>4, ClientAssumption DEF Types, OpensOrRefuses, UsesSession
<1>10. reply' # NoAnswer /\ reply'.op = r.op
  BY <1>3, <1>4 DEF OpensOrRefuses, UsesSession, NoAnswer, Server!NoReply,
                    Opening, SessionOps
<1>11. Fits(c, reply)' \/ at[c] # "waiting"
  <2> SUFFICES ASSUME at[c] = "waiting" PROVE Fits(c, reply)'
    OBVIOUS
  <2>1. request'[c] = r /\ bearer' = bearer
    BY <1>1, <1>2 DEF Serve, Types
  <2>2. CASE r.op \in Opening /\ OpensOrRefuses(r.op)
    <3>1. reply'.status = 200 => Owns(c, reply.token)'
      BY <1>8, <2>2 DEF OpensOrRefuses, Owns
    <3> QED BY <1>10, <2>1, <2>2, <3>1
            DEF Fits, OpensOrRefuses, Opening, SessionOps
  <2>3. CASE r.op \in SessionOps /\ UsesSession(r.op, r.args[1])
    BY <1>3, <1>10, <2>1, <2>3 DEF Fits, UsesSession, Opening, SessionOps, Live
  <2> QED BY <1>4, <2>2, <2>3
<1> QED BY <1>5, <1>6, <1>8, <1>9, <1>10, <1>11

LEMMA ServeCInv == ASSUME CInv, NEW c \in Clients, Serve(c) PROVE CInv'
<1>0. /\ UNCHANGED <<at, bearer, answer, connection>> /\ serving' = c
      /\ c \in unread /\ unread' = unread \ {c} /\ Types
      /\ request' = [request EXCEPT ![c] = IF at[c] = "ended" THEN NoRequest ELSE @]
  BY DEF Serve, CInv
<1>1. /\ serving = Missing /\ issued' \subseteq Tokens
      /\ issued \subseteq issued' /\ DOMAIN sessions' \subseteq issued'
      /\ openedBy' \in [issued' -> Clients]
      /\ \A t \in issued : openedBy'[t] = openedBy[t]
      /\ \A t \in issued' \ issued : openedBy'[t] = c /\ t = reply'.token
      /\ \A t \in DOMAIN sessions' : t \in DOMAIN sessions \/ t \notin issued
      /\ \A t \in DOMAIN sessions \ DOMAIN sessions' : Owns(c, t)
      /\ Fits(c, reply)' \/ at[c] # "waiting"
      /\ reply' # NoAnswer
  BY ServeEffect
<1>2. Types' /\ ServingIsHandled'
  BY <1>0, <1>1 DEF Types, ServingIsHandled
<1>3. ASSUME NEW d \in Clients
      PROVE  /\ Local(d) /\ Own(d)' /\ Asking(d)' /\ OnTheWay(d)'
             /\ ~Live(d) => ~Live(d)'
             /\ serving # d
             /\ \A t : Owns(d, t) => Owns(d, t)'
             /\ d # c => request'[d] = request[d] /\ serving' # d
             /\ request'[d] = request[d] \/ at[d] = "ended"
  <2>1. Local(d)
    BY DEF CInv
  <2>2. \A t : Owns(d, t) => Owns(d, t)'
    BY <1>1 DEF Owns
  <2>3. /\ d # c => request'[d] = request[d] /\ serving' # d
        /\ request'[d] = request[d] \/ at[d] = "ended"
    BY <1>0 DEF Types
  <2>4. serving # d
    BY <1>1, ClientAssumption
  <2>5. Own(d)'
    BY <1>0, <2>1, <2>2 DEF Local, Own
  <2>6. ~Live(d) => ~Live(d)'
    <3>1. bearer[d] \in issued \/ bearer[d] \notin issued'
      BY <1>1, <2>1, ClientAssumption DEF Local, Own, Owns
    <3> QED BY <1>0, <1>1, <3>1 DEF Live
  <2>7. Asking(d)'
    <3>1. request'[d] = request[d] \/ ~(at'[d] = "waiting" \/ d \in unread')
      BY <1>0, <2>3
    <3> QED BY <1>0, <2>1, <2>2, <3>1 DEF Local, Asking
  <2>8. OnTheWay(d)'
    BY <1>0, <2>1, <2>3 DEF Local, OnTheWay
  <2> QED BY <2>1, <2>2, <2>3, <2>4, <2>5, <2>6, <2>7, <2>8
<1>4. ASSUME NEW d \in Clients PROVE Answered(d)'
  <2>1. CASE d = c
    <3>1. answer[c] = NoAnswer
      BY <1>0, <1>3 DEF Local, OnTheWay, Answered
    <3> QED BY <1>0, <1>1, <2>1, <3>1 DEF Answered
  <2>2. CASE d # c /\ answer[d] # NoAnswer
    <3>1. Fits(d, answer[d]) /\ request'[d] = request[d]
      BY <1>3, <2>2 DEF Local, Answered
    <3>2. Live(d) => Live(d)'
      <4>1. ASSUME Live(d), ~Live(d)' PROVE FALSE
        <5>1. Owns(c, bearer[d])
          BY <1>0, <1>1, <4>1 DEF Live
        <5>2. Owns(d, bearer[d])
          BY <1>0, <1>3, <4>1, ClientAssumption DEF Local, Own, Live, Types
        <5> QED BY <2>2, <5>1, <5>2 DEF Owns
      <4> QED BY <4>1
    <3>3. Fits(d, answer[d])'
      BY <1>0, <1>3, <3>1, <3>2 DEF Fits
    <3> QED BY <1>0, <2>2, <3>3 DEF Answered
  <2>3. CASE d # c /\ answer[d] = NoAnswer
    BY <1>0, <2>3 DEF Answered
  <2> QED BY <2>1, <2>2, <2>3
<1>5. ASSUME NEW d \in Clients PROVE SafeToOpen(d)' /\ Remembered(d)'
  <2>1. SafeToOpen(d)'
    BY <1>0, <1>3 DEF Local, SafeToOpen
  <2>2. Remembered(d)'
    <3> SUFFICES ASSUME NEW t \in DOMAIN sessions', openedBy'[t] = d, at[d] # "ended"
                 PROVE  t \in Held(d)'
      BY <1>0 DEF Remembered
    <3>1. CASE t \in DOMAIN sessions
      <4>1. t \in {bearer[d], answer[d].token}
        BY <1>1, <1>3, <3>1 DEF Local, Remembered, Held, Types, CInv
      <4> QED BY <1>0, <4>1 DEF Held
    <3>2. CASE t \notin DOMAIN sessions
      <4>1. d = c /\ t = reply'.token
        BY <1>1, <3>2
      <4> QED BY <1>0, <4>1 DEF Held
    <3> QED BY <3>1, <3>2
  <2> QED BY <2>1, <2>2
<1> QED BY <1>2, <1>3, <1>4, <1>5 DEF CInv, Local

-----------------------------------------------------------------------------
(* The rest of the server.                                                 *)

LEMMA RespondCInv == ASSUME CInv, Respond PROVE CInv'
<1>0. PICK c \in Clients : c = serving
  BY DEF Respond, CInv, Types
<1>1. /\ serving' = Missing /\ Types
      /\ UNCHANGED <<sessions, issued, reply, at, bearer, request, connection,
                     unread, openedBy>>
      /\ answer' = IF at[c] = "ended" THEN answer
                   ELSE [answer EXCEPT ![c] = reply]
  BY <1>0 DEF Respond, Requester, server, CInv
<1>2. Types' /\ ServingIsHandled'
  BY <1>1 DEF Types, ServingIsHandled
<1>3. ASSUME NEW d \in Clients PROVE Local(d)'
  <2>1. Local(d) /\ serving' # d
    BY <1>1, ClientAssumption DEF CInv
  <2>2. Own(d)' /\ Asking(d)' /\ SafeToOpen(d)'
    BY <1>1, <2>1 DEF Local, Own, Owns, Asking, SafeToOpen, Live
  <2>3. CASE d # c \/ at[c] = "ended"
    <3>1. answer'[d] = answer[d] /\ (serving # d \/ at[d] = "ended")
      BY <1>0, <1>1, <2>3 DEF Types
    <3> QED BY <1>1, <2>1, <2>2, <3>1
            DEF Local, OnTheWay, Answered, Fits, Owns, Live, Remembered, Held
  <2>4. CASE d = c /\ at[c] # "ended"
    <3>1. /\ answer'[c] = reply /\ at[c] = "waiting" /\ connection[c] = "up"
          /\ answer[c] = NoAnswer /\ c \notin unread /\ Fits(c, reply)
      BY <1>0, <1>1, <2>1, <2>4 DEF Types, Local, OnTheWay, Answered
    <3>2. OnTheWay(d)' /\ Answered(d)'
      BY <1>1, <2>1, <2>4, <3>1 DEF OnTheWay, Answered, Fits, Owns, Live
    <3>3. Remembered(d)'
      <4> SUFFICES ASSUME NEW t \in DOMAIN sessions, openedBy[t] = d
                   PROVE  t \in {bearer[d], reply.token}
        BY <1>1, <2>4, <3>1 DEF Remembered, Held
      <4>1. t # Missing
        BY <1>1, ClientAssumption DEF Types
      <4>2. answer[d].token = Missing
        BY <2>4, <3>1 DEF NoAnswer, Server!NoReply
      <4> QED BY <2>1, <2>4, <4>1, <4>2 DEF Local, Remembered, Held
    <3> QED BY <2>2, <3>2, <3>3 DEF Local
  <2> QED BY <2>3, <2>4
<1> QED BY <1>2, <1>3 DEF CInv

(* Saving changes neither tokens nor sessions, and a handler that is done  *)
(* has sent its response.                                                  *)
LEMMA SaveCInv ==
    ASSUME CInv, BeginSave \/ EndSave \/ Done \/ Run PROVE CInv'
<1>1. /\ UNCHANGED <<sessions, issued, at, bearer, request, answer, connection,
                     unread, serving, openedBy>>
      /\ reply' = reply \/ (reply' = NoAnswer /\ serving = Missing)
  BY DEF BeginSave, EndSave, Done, Run, Server!BeginSave, Server!EndSave,
         Server!Done, Server!Run, client, NoAnswer
<1>2. Types' /\ ServingIsHandled'
  BY <1>1 DEF CInv, Types, ServingIsHandled
<1>3. ASSUME NEW d \in Clients PROVE Local(d)'
  <2>1. Local(d) /\ (reply' = reply \/ serving # d)
    BY <1>1, ClientAssumption DEF CInv
  <2>2. Own(d)' /\ Asking(d)' /\ OnTheWay(d)' /\ SafeToOpen(d)'
    BY <1>1, <2>1 DEF Local, Own, Owns, Asking, OnTheWay, SafeToOpen, Live
  <2>3. Answered(d)' /\ Remembered(d)'
    BY <1>1, <2>1 DEF Local, Answered, Fits, Owns, Live, Remembered, Held
  <2> QED BY <2>1, <2>2, <2>3 DEF Local
<1> QED BY <1>2, <1>3 DEF CInv

(* No session survives a stop, and no connection is up after it.           *)
LEMMA StopCInv == ASSUME CInv, Stop PROVE CInv'
<1>1. /\ DOMAIN sessions' = {} /\ unread' = {} /\ serving' = Missing
      /\ UNCHANGED <<issued, at, bearer, answer, openedBy>> /\ Types
      /\ connection' = [c \in Clients |->
            IF connection[c] # "up" THEN connection[c]
            ELSE IF c \in unread THEN "reset" ELSE "ended"]
      /\ request' = [c \in Clients |-> IF at[c] = "ended" THEN NoRequest
                                       ELSE request[c]]
  BY DEF Stop, Server!Stop, Server!Nobody, CInv
<1>2. Types' /\ ServingIsHandled'
  BY <1>1 DEF Types, ServingIsHandled
<1>3. ASSUME NEW d \in Clients PROVE Local(d)'
  <2>1. Local(d) /\ serving' # d /\ connection'[d] # "up"
    BY <1>1, ClientAssumption DEF CInv
  <2>2. at[d] = "ended" \/ request'[d] = request[d]
    BY <1>1
  <2>3. Own(d)' /\ Asking(d)' /\ SafeToOpen(d)' /\ Remembered(d)'
    BY <1>1, <2>1, <2>2
       DEF Local, Own, Owns, Asking, SafeToOpen, Live, Remembered
  <2>4. OnTheWay(d)'
    BY <1>1, <2>1 DEF Local, OnTheWay
  <2>5. Answered(d)'
    <3> SUFFICES ASSUME answer[d] # NoAnswer PROVE Fits(d, answer[d])'
      BY <1>1, <2>1 DEF Answered
    <3>1. Fits(d, answer[d]) /\ request'[d] = request[d]
      BY <2>1, <2>2 DEF Local, Answered, OnTheWay
    <3> QED BY <1>1, <2>1, <3>1 DEF Fits, Owns, Live
  <2> QED BY <2>3, <2>4, <2>5 DEF Local
<1> QED BY <1>2, <1>3 DEF CInv

-----------------------------------------------------------------------------
LEMMA NextCInv == CInv /\ [Next]_vars => CInv'
<1> SUFFICES ASSUME CInv, [Next]_vars PROVE CInv'
  OBVIOUS
<1>1. CASE UNCHANGED vars
  <2>1. UNCHANGED <<sessions, issued, reply, at, bearer, request, answer,
                    connection, unread, serving, openedBy>>
    BY <1>1 DEF vars, server, client
  <2>2. Types' /\ ServingIsHandled'
    BY <2>1 DEF CInv, Types, ServingIsHandled
  <2>3. \A d \in Clients : Local(d)'
    BY <2>1 DEF CInv, Local, Own, Owns, Asking, OnTheWay, SafeToOpen, Live,
                Answered, Fits, Remembered, Held
  <2> QED BY <2>2, <2>3 DEF CInv
<1>2. ASSUME NEW c \in Clients,
             \/ Launch(c) \/ Loop(c) \/ Pick(c) \/ Receive(c) \/ ReadFails(c)
             \/ Kill(c) \/ Serve(c)
      PROVE  CInv'
  BY <1>2, LaunchCInv, LoopCInv, PickCInv, ReceiveCInv, ReadFailsCInv, KillCInv,
     ServeCInv
<1>3. CASE Respond \/ BeginSave \/ EndSave \/ Done \/ Run \/ Stop
  BY <1>3, RespondCInv, SaveCInv, StopCInv
<1> QED BY <1>1, <1>2, <1>3 DEF Next

LEMMA ClientInductive == Spec => []CInv
BY InitCInv, NextCInv, PTL DEF Spec

-----------------------------------------------------------------------------
(* A client never holds a token that was generated for another one, though *)
(* tokens are generated, sent and stored in different steps and the server *)
(* may stop and clients may end between any of them.                       *)
THEOREM OwnBearer == Spec => []BearerIsOwn
<1>1. CInv => BearerIsOwn
  BY DEF CInv, Local, Own, Owns, BearerIsOwn
<1> QED BY <1>1, ClientInductive, PTL

(* As long as a client runs, every session the server keeps for it is the  *)
(* one of its token, or of a token that is on its way: none is left that   *)
(* nobody can log out.                                                     *)
THEOREM SessionsRemembered == Spec => []NoSessionForgotten
<1>1. CInv => NoSessionForgotten
  <2> SUFFICES ASSUME CInv, NEW t \in DOMAIN sessions, at[openedBy[t]] # "ended"
               PROVE  t \in Held(openedBy[t])
    BY DEF NoSessionForgotten
  <2>1. openedBy[t] \in Clients
    BY DEF CInv, Types
  <2> QED BY <2>1 DEF CInv, Local, Remembered
<1> QED BY <1>1, ClientInductive, PTL

(* A menu comes up in main()'s loop and nowhere else.                      *)
LEMMA SendRequestGoes ==
    ASSUME Types, NEW c \in Clients, NEW op, NEW args, SendRequest(c, op, args)
    PROVE  \E place \in {"waiting", "ended", "top"} : Goto(c, place)
BY DEF SendRequest, End

LEMMA OnlyMainShows ==
    ASSUME Types, [Next]_vars, NEW c \in Clients, Shows(c)
    PROVE  Loop(c) \/ Receive(c)
<1>1. at'[c] # at[c] /\ at'[c] \in Menus
  BY DEF Shows
<1>2. CASE UNCHANGED at
  BY <1>1, <1>2
<1>3. ASSUME NEW d \in Clients, Loop(d) \/ Receive(d)
      PROVE  Loop(c) \/ Receive(c)
  <2>1. \E place : Goto(d, place)
    BY <1>3, SendRequestGoes DEF Loop, Receive
  <2>2. d = c
    BY <1>1, <2>1 DEF Goto, Types
  <2> QED BY <1>3, <2>2
<1>4. ASSUME NEW d \in Clients,
             Launch(d) \/ Pick(d) \/ ReadFails(d) \/ Kill(d)
      PROVE  FALSE
  <2>1. \E place \in {"waiting", "ended", "top"} : Goto(d, place)
    <3>1. CASE Launch(d) \/ ReadFails(d) \/ Kill(d)
      BY <3>1 DEF Launch, ReadFails, Kill, End
    <3>2. CASE Pick(d)
      BY <3>2, SendRequestGoes DEF Pick, StartMenu, LoggedInMenu, End
    <3> QED BY <1>4, <3>1, <3>2
  <2> QED BY <1>1, <2>1 DEF Goto, Types, Menus
<1>5. ASSUME NEW d \in Clients, Serve(d) PROVE UNCHANGED at
  BY <1>5 DEF Serve
<1>6. CASE Respond \/ BeginSave \/ EndSave \/ Done \/ Run \/ Stop
  BY <1>2, <1>6 DEF Respond, BeginSave, EndSave, Done, Run, Stop, client
<1> QED BY <1>2, <1>3, <1>4, <1>5, <1>6 DEF Next, vars, client

(* While the server has not stopped, the menu that comes up is the one for *)
(* logged-in users exactly if the client's session is open.                *)
THEOREM MenuFollows == Spec => MenuFollowsSession
<1> DEFINE Right(c) == Shows(c) /\ connection[c] = "up" => MenuIsRight(c)
<1>1. ASSUME CInv, [Next]_vars, NEW c \in Clients,
             Shows(c), connection[c] = "up"
      PROVE  MenuIsRight(c)
  <2>0. Types /\ Local(c)
    BY <1>1 DEF CInv
  <2>1. Loop(c) \/ Receive(c)
    BY <1>1, <2>0, OnlyMainShows
  <2>2. CASE Loop(c)
    <3>1. /\ bearer[c] = Missing /\ at'[c] = "start"
          /\ bearer' = bearer /\ sessions' = sessions
      BY <1>1, <2>0, <2>2, SendRequestGoes
         DEF Loop, Goto, Types, Shows, Menus, server
    <3> QED BY <2>0, <3>1, ClientAssumption DEF MenuIsRight, Types
  <2>3. CASE Receive(c)
    <3>1. answer[c] # NoAnswer /\ Fits(c, answer[c])
      BY <1>1, <2>0, <2>3 DEF Receive, ResponseTo, Local, Answered
    <3>2. /\ request[c].op = "amiloggedin" /\ bearer' = bearer
          /\ sessions' = sessions
          /\ at'[c] = IF answer[c].status = 200 THEN "loggedIn" ELSE "start"
      BY <1>1, <2>0, <2>3, <3>1
         DEF Receive, ResponseTo, Goto, LoggedIn, Types, Shows, Menus, server
    <3> QED BY <1>1, <3>1, <3>2 DEF Fits, Live, MenuIsRight
  <2> QED BY <2>1, <2>2, <2>3
<1>2. CInv /\ [Next]_vars => [\A c \in Clients : Right(c)]_vars
  BY <1>1
<1> QED BY <1>2, ClientInductive, PTL DEF Spec, MenuFollowsSession
-----------------------------------------------------------------------------
(* The lists of locations.  What the server keeps is what the user was     *)
(* told, with the response on its way, if there is one, counted in.        *)

LocationsOf(t) == sessions[t].locations

Lists ==
    \A t \in DOMAIN sessions :
        "locations" \in DOMAIN sessions[t] /\ LocationsOf(t) \in Seq(Locations)

(* The list a user can expect after a response.                            *)
Told(op, list, response) ==
    IF response.status = 200 THEN NowListed(op, list, response.body) ELSE list

Tells(c, response) ==
    /\ Told(request[c].op, listed[c], response) \in Seq(Locations)
    /\ request[c].op = "getlocations" /\ response.status = 200
          => response.body = listed[c]
    /\ connection[c] = "up" =>
          IF request[c].op \in Opening /\ response.status = 200
          THEN response.token \in DOMAIN sessions
                  => LocationsOf(response.token) = <<>>
          ELSE Live(c) => LocationsOf(bearer[c])
                             = Told(request[c].op, listed[c], response)

Shown(c) ==
    /\ listed[c] \in Seq(Locations)
    /\ at[c] = "off" => bearer[c] = Missing
    /\ at[c] = "waiting" \/ c \in unread =>
          (request[c].op = "subscribe" =>
              request[c].args[2] \in Locations \cup {Missing})
    /\ connection[c] = "up" /\ at[c] # "ended" /\ answer[c] = NoAnswer
          /\ serving # c /\ Live(c)
          => LocationsOf(bearer[c]) = listed[c]
    /\ serving = c /\ at[c] = "waiting" => Tells(c, reply)
    /\ answer[c] # NoAnswer => Tells(c, answer[c])

LInv ==
    /\ CInv /\ Lists /\ DOMAIN listed = Clients
    /\ \A c \in Clients : Shown(c)

LEMMA InitLInv == Init => LInv
<1> SUFFICES ASSUME Init PROVE LInv
  OBVIOUS
<1>1. DOMAIN sessions = {}
  BY DEF Init, Server!Init, Server!Nobody
<1>2. <<>> \in Seq(Locations)
  OBVIOUS
<1>3. ASSUME NEW c \in Clients PROVE Shown(c)
  <2>1. serving # c
    BY ClientAssumption DEF Init
  <2> QED BY <1>1, <1>2, <2>1 DEF Init, Shown, Live
<1> QED BY <1>1, <1>3, InitCInv DEF LInv, Init, Lists

(* What a response changes in the list.                                    *)
LEMMA NothingListed ==
    ASSUME NEW op \in Opening, NEW list, NEW body
    PROVE  NowListed(op, list, body) = <<>>
BY DEF NowListed, Opening

LEMMA OneMoreListed ==
    ASSUME NEW list, NEW body
    PROVE  NowListed("subscribe", list, body) = list \o body
BY DEF NowListed

LEMMA SameListed ==
    ASSUME NEW op, op \notin Opening, NEW list, NEW body,
           op # "subscribe", op # "unsubscribe" \/ body = <<>>
    PROVE  NowListed(op, list, body) = list
BY DEF NowListed, Opening

LEMMA OneLessListed ==
    ASSUME NEW list \in Seq(Locations), NEW i \in DOMAIN list,
           \A k \in 1..(i - 1) : list[k] # list[i]
    PROVE  NowListed("unsubscribe", list, <<list[i]>>) =
               SubSeq(list, 1, i - 1) \o SubSeq(list, i + 1, Len(list))
<1> DEFINE First(j) == /\ list[j] = <<list[i]>>[1]
                       /\ \A k \in 1..(j - 1) : list[k] # <<list[i]>>[1]
<1>1. First(i) /\ i \in DOMAIN list
  OBVIOUS
<1>2. ASSUME NEW j \in DOMAIN list, First(j) PROVE j = i
  <2>1. j \in Nat /\ i \in Nat /\ j >= 1 /\ i >= 1 /\ list[j] = list[i]
    BY <1>2
  <2>2. ~(j < i)
    BY <2>1
  <2>3. ~(i < j)
    BY <1>2, <2>1
  <2> QED BY <2>1, <2>2, <2>3
<1>3. (CHOOSE j \in DOMAIN list : First(j)) = i
  BY <1>1, <1>2
<1>4. <<list[i]>> # <<>>
  OBVIOUS
<1> QED BY <1>3, <1>4 DEF NowListed

(* A response without a body.                                              *)
LEMMA EmptyBodyListed ==
    ASSUME NEW op, NEW list \in Seq(Locations)
    PROVE  /\ NowListed(op, list, <<>>) \in Seq(Locations)
           /\ op \notin Opening => NowListed(op, list, <<>>) = list
<1>1. CASE op \in Opening
  <2>1. NowListed(op, list, <<>>) = <<>> /\ <<>> \in Seq(Locations)
    BY <1>1, NothingListed
  <2> QED BY <1>1, <2>1
<1>2. CASE op = "subscribe"
  <2>1. NowListed(op, list, <<>>) = list
    BY <1>2, OneMoreListed
  <2> QED BY <2>1
<1>3. CASE op \notin Opening /\ op # "subscribe"
  <2>1. NowListed(op, list, <<>>) = list
    BY <1>3, SameListed
  <2> QED BY <2>1
<1> QED BY <1>1, <1>2, <1>3

-----------------------------------------------------------------------------
(* Steps of one client.                                                    *)

LEMMA ListStep ==
    ASSUME LInv, CInv', NEW c \in Clients,
           UNCHANGED <<sessions, reply, serving>>,
           DOMAIN listed' = Clients, Shown(c)',
           \A d \in Clients \ {c} :
               /\ at'[d] = at[d] /\ bearer'[d] = bearer[d]
               /\ request'[d] = request[d] /\ answer'[d] = answer[d]
               /\ connection'[d] = connection[d] /\ listed'[d] = listed[d]
               /\ d \in unread' <=> d \in unread
    PROVE  LInv'
<1>1. ASSUME NEW d \in Clients \ {c} PROVE Shown(d)'
  BY DEF LInv, Shown, Tells, Told, Live, LocationsOf
<1>2. Lists'
  BY DEF LInv, Lists, LocationsOf
<1> QED BY <1>1, <1>2 DEF LInv

LEMMA EndLists ==
    ASSUME LInv, CInv', NEW c \in Clients, End(c),
           UNCHANGED <<server, serving, unread>>
    PROVE  LInv'
<1>1. UNCHANGED <<sessions, reply>> /\ CInv /\ Shown(c)
  BY DEF server, LInv
<1>2. /\ at'[c] = "ended" /\ answer'[c] = NoAnswer /\ listed'[c] = <<>>
      /\ c \in unread => request'[c] = request[c]
      /\ DOMAIN listed' = Clients
      /\ \A d \in Clients \ {c} :
            /\ at'[d] = at[d] /\ bearer'[d] = bearer[d]
            /\ request'[d] = request[d] /\ answer'[d] = answer[d]
            /\ connection'[d] = connection[d] /\ listed'[d] = listed[d]
  BY <1>1 DEF End, Goto, CInv, Types, LInv
<1>3. Shown(c)'
  BY <1>1, <1>2 DEF Shown
<1> QED BY <1>1, <1>2, <1>3, ListStep

LEMMA GotoLists ==
    ASSUME LInv, CInv', NEW c \in Clients, NEW place \in {"top", "ended"} \cup Menus,
           at[c] \notin {"waiting", "ended"}, Goto(c, place),
           \/ connection' \in {connection, [connection EXCEPT ![c] = "closed"]}
           \/ at[c] = "off" /\ connection' = [connection EXCEPT ![c] = "up"],
           UNCHANGED <<server, bearer, request, answer, listed, unread, serving>>
    PROVE  LInv'
<1>1. UNCHANGED <<sessions, reply>> /\ CInv /\ Types /\ Shown(c)
  BY DEF server, LInv, CInv
<1>2. /\ at'[c] = place /\ place \notin {"waiting", "off"}
      /\ \A d \in Clients \ {c} :
            at'[d] = at[d] /\ connection'[d] = connection[d]
  BY <1>1 DEF Goto, Types, Menus
<1>3. c \notin unread /\ serving # c /\ answer[c] = NoAnswer
  BY <1>1, NotWaiting
<1>4. connection'[c] = "up" /\ Live(c) => connection[c] = "up"
  BY <1>1, ClientAssumption DEF Shown, Types, Live
<1>5. Shown(c)'
  BY <1>1, <1>2, <1>3, <1>4 DEF Shown, Live, LocationsOf
<1> QED BY <1>1, <1>2, <1>5, ListStep DEF LInv

LEMMA SendRequestLists ==
    ASSUME LInv, CInv', NEW c \in Clients, at[c] \in {"top"} \cup Menus,
           NEW op, NEW args,
           op = "subscribe" => args[2] \in Locations \cup {Missing},
           SendRequest(c, op, args), UNCHANGED <<server, serving>>
    PROVE  LInv'
<1>0. /\ CInv /\ Types /\ Shown(c) /\ at[c] \notin {"waiting", "ended"}
      /\ c \notin unread /\ serving # c /\ answer[c] = NoAnswer
  BY NotWaiting DEF LInv, CInv, Menus
<1>1. CASE connection[c] \in {"up", "ended"} /\ Goto(c, "waiting")
           /\ request' = [request EXCEPT ![c] = [op |-> op, args |-> args]]
           /\ (\/ /\ connection[c] = "up" /\ unread' = unread \cup {c}
                  /\ UNCHANGED connection
               \/ /\ connection[c] = "ended" /\ UNCHANGED unread
                  /\ \E later \in {"ended", "broken"} :
                        connection' = [connection EXCEPT ![c] = later])
           /\ UNCHANGED <<bearer, answer, listed>>
  <2>1. UNCHANGED <<sessions, reply>>
    BY DEF server
  <2>2. /\ at'[c] = "waiting" /\ request'[c].op = op /\ request'[c].args = args
        /\ \A d \in Clients \ {c} : at'[d] = at[d] /\ request'[d] = request[d]
    BY <1>0, <1>1 DEF Goto, Types
  <2>3. /\ connection'[c] = "up" => connection[c] = "up"
        /\ \A d \in Clients \ {c} :
              /\ connection'[d] = connection[d]
              /\ d \in unread' <=> d \in unread
    BY <1>0, <1>1 DEF Types
  <2>4. Shown(c)'
    BY <1>0, <1>1, <2>1, <2>2, <2>3 DEF Shown, Live, LocationsOf
  <2> QED BY <1>1, <2>1, <2>2, <2>3, <2>4, ListStep DEF LInv
<1>2. CASE End(c) /\ UNCHANGED unread
  BY <1>2, EndLists
<1>3. CASE /\ connection' = [connection EXCEPT ![c] = "closed"] /\ Goto(c, "top")
           /\ UNCHANGED <<bearer, request, answer, listed, unread>>
  BY <1>0, <1>3, GotoLists
<1> QED BY <1>1, <1>2, <1>3 DEF SendRequest

LEMMA MainLists ==
    ASSUME LInv, CInv', NEW c \in Clients,
           Launch(c) \/ Loop(c) \/ Pick(c) \/ Kill(c)
    PROVE  LInv'
<1>1. CASE Launch(c)
  BY <1>1, GotoLists DEF Launch
<1>2. CASE Loop(c)
  BY <1>2, GotoLists, SendRequestLists DEF Loop, Menus
<1>3. CASE Pick(c)
  <2>1. at[c] \in Menus /\ UNCHANGED <<server, serving>>
    BY <1>3 DEF Pick
  <2>2. CASE StartMenu(c)
    BY <2>1, <2>2, SendRequestLists DEF StartMenu
  <2>3. CASE LoggedInMenu(c)
    <3>1. CASE \E op \in {"logout", "getlocations"} : SendRequest(c, op, <<bearer[c]>>)
      BY <2>1, <3>1, SendRequestLists
    <3>2. CASE \E old, new \in Passwords \cup {Missing} :
                  SendRequest(c, "changepassword", <<bearer[c], old, new>>)
      BY <2>1, <3>2, SendRequestLists
    <3>3. CASE \E location \in Locations \cup {Missing} :
                  \/ SendRequest(c, "subscribe", <<bearer[c], location>>)
                  \/ SendRequest(c, "unsubscribe", <<bearer[c], location>>)
      BY <2>1, <3>3, SendRequestLists
    <3> QED BY <2>3, <3>1, <3>2, <3>3 DEF LoggedInMenu
  <2>4. CASE End(c) /\ UNCHANGED unread
    BY <2>1, <2>4, EndLists
  <2>5. CASE Goto(c, "top") /\ UNCHANGED <<bearer, request, answer, connection,
                                           listed, unread>>
    BY <2>1, <2>5, GotoLists DEF Menus
  <2> QED BY <1>3, <2>2, <2>3, <2>4, <2>5 DEF Pick
<1>4. CASE Kill(c)
  BY <1>4, EndLists DEF Kill
<1> QED BY <1>1, <1>2, <1>3, <1>4

LEMMA ReadFailsLists ==
    ASSUME LInv, CInv', NEW c \in Clients, ReadFails(c) PROVE LInv'
<1>1. /\ at[c] = "waiting" /\ connection[c] = "reset"
      /\ UNCHANGED <<sessions, reply, bearer, answer, listed, unread, serving>>
  BY DEF ReadFails, server
<1>2. /\ at'[c] = "top" /\ connection'[c] = "broken"
      /\ \A d \in Clients \ {c} :
            /\ at'[d] = at[d] /\ request'[d] = request[d]
            /\ connection'[d] = connection[d]
  BY DEF ReadFails, Goto, LInv, CInv, Types
<1>3. Shown(c) /\ c \notin unread /\ serving # c /\ answer[c] = NoAnswer
  BY <1>1 DEF LInv, CInv, Local, OnTheWay
<1>4. Shown(c)'
  BY <1>1, <1>2, <1>3 DEF Shown
<1> QED BY <1>1, <1>2, <1>4, ListStep DEF LInv

(* A default response comes when the connection is not up any more.        *)
LEMMA ReceiveLists ==
    ASSUME LInv, CInv', NEW c \in Clients, Receive(c) PROVE LInv'
<1>1. PICK response \in {answer[c], DefaultResponse} :
        /\ ResponseTo(c, response)
        /\ \/ /\ request[c].op = "amiloggedin"
              /\ Goto(c, IF LoggedIn(response.status) THEN "loggedIn" ELSE "start")
              /\ UNCHANGED <<bearer, listed>>
           \/ /\ request[c].op # "amiloggedin"
              /\ Goto(c, "top")
              /\ bearer' = [bearer EXCEPT ![c] = NewBearer(c, response)]
              /\ listed' = [listed EXCEPT ![c] =
                     IF response.status = 200
                     THEN NowListed(request[c].op, @, response.body) ELSE @]
  BY DEF Receive
<1>2. /\ at[c] = "waiting"
      /\ request' = [request EXCEPT ![c] = NoRequest]
      /\ answer' = [answer EXCEPT ![c] = NoAnswer]
      /\ UNCHANGED <<sessions, reply, connection, unread, serving>>
  BY DEF Receive, server
<1>3. CInv /\ Types /\ Local(c) /\ Shown(c) /\ DOMAIN listed = Clients
  BY DEF LInv, CInv
<1>4. c \notin unread /\ serving # c
  BY <1>1, <1>2, <1>3 DEF ResponseTo, Local, OnTheWay
<1>5. PICK list : list = Told(request[c].op, listed[c], response)
  OBVIOUS
<1>6. /\ list \in Seq(Locations)
      /\ connection[c] = "up" =>
            /\ Tells(c, response)
            /\ request[c].op = "amiloggedin" => list = listed[c]
  <2>1. CASE response = answer[c] /\ answer[c] # NoAnswer
    BY <1>3, <1>5, <2>1, SameListed DEF Shown, Tells, Told, Opening
  <2>2. CASE answer[c] = NoAnswer /\ connection[c] # "up"
             /\ response = DefaultResponse
    <3>1. response.body = <<>>
      BY <2>2 DEF DefaultResponse, NoAnswer, Server!NoReply
    <3> QED BY <1>3, <1>5, <2>2, <3>1, EmptyBodyListed DEF Shown, Told
  <2> QED BY <1>1, <2>1, <2>2 DEF ResponseTo
<1>7. /\ at'[c] \notin {"off", "waiting"} /\ answer'[c] = NoAnswer
      /\ \A d \in Clients \ {c} :
            /\ at'[d] = at[d] /\ bearer'[d] = bearer[d]
            /\ request'[d] = request[d] /\ answer'[d] = answer[d]
            /\ listed'[d] = listed[d]
      /\ DOMAIN listed' = Clients
  BY <1>1, <1>2, <1>3 DEF Goto, Types
<1>8. /\ listed'[c] \in Seq(Locations)
      /\ connection[c] = "up" => listed'[c] = list
  BY <1>1, <1>3, <1>5, <1>6 DEF Told, Shown
<1>9. ASSUME connection[c] = "up", Live(c)' PROVE LocationsOf(bearer[c])' = listed'[c]
  <2>1. CASE request[c].op \in Opening /\ response.status = 200
    <3>1. bearer'[c] = response.token
      BY <1>1, <1>3, <2>1 DEF Types, NewBearer, Opening
    <3>2. list = <<>>
      BY <1>5, <2>1, NothingListed DEF Told
    <3> QED BY <1>2, <1>6, <1>8, <1>9, <2>1, <3>1, <3>2 DEF Tells, Live, LocationsOf
  <2>2. CASE ~(request[c].op \in Opening /\ response.status = 200)
    <3>1. bearer'[c] = bearer[c]
      BY <1>1, <1>3, <2>2 DEF Types, NewBearer, Opening
    <3> QED BY <1>2, <1>5, <1>6, <1>8, <1>9, <2>2, <3>1 DEF Tells, Live, LocationsOf
  <2> QED BY <2>1, <2>2
<1>10. Shown(c)'
  BY <1>2, <1>4, <1>7, <1>8, <1>9 DEF Shown
<1> QED BY <1>2, <1>7, <1>10, ListStep

-----------------------------------------------------------------------------
(* The server.                                                             *)

(* What a request does to the lists: those of other tokens stay, and that  *)
(* of its own becomes what the response says.                              *)
OthersKept(token) ==
    \A t \in DOMAIN sessions' \cap DOMAIN sessions :
        t # token => LocationsOf(t)' = LocationsOf(t)

OpensList ==
    /\ Lists' /\ reply'.body = <<>>
    /\ \A t \in DOMAIN sessions' \cap DOMAIN sessions :
          LocationsOf(t)' = LocationsOf(t)
    /\ reply'.status = 200 => LocationsOf(reply.token)' = <<>>

UsesList(op, token) ==
    /\ Lists' /\ OthersKept(token)
    /\ reply'.status = 200 => token \in DOMAIN sessions
    /\ \A list \in Seq(Locations) :
          (token \in DOMAIN sessions => list = LocationsOf(token))
          =>
          /\ Told(op, list, reply') \in Seq(Locations)
          /\ token \in DOMAIN sessions'
                => LocationsOf(token)' = Told(op, list, reply')
          /\ op = "getlocations" /\ reply'.status = 200 => reply'.body = list

LEMMA RefuseLists ==
    ASSUME NEW op, NEW token, NEW status, Lists, Server!Refuse(op, token, status)
    PROVE  /\ Lists' /\ sessions' = sessions
           /\ reply'.body = <<>> /\ reply'.status = status
BY DEF Server!Refuse, Server!Answer, Lists, LocationsOf

LEMMA OpenLists ==
    ASSUME NEW op, NEW u, NEW p, Lists, DOMAIN sessions \subseteq issued,
           Server!OpenSession(op, u, p)
    PROVE  OpensList
<1>1. PICK token :
        /\ reply' = [op |-> op, token |-> token, status |-> 200, body |-> <<>>]
        /\ sessions' = [t \in DOMAIN sessions \cup {token} |->
                           IF t = token
                           THEN [username |-> u, password |-> p, locations |-> <<>>]
                           ELSE sessions[t]]
        /\ token \in Tokens \ issued
  BY DEF Server!OpenSession, Server!Answer, Server!Update, Server!NewSession
<1>2. <<>> \in Seq(Locations)
  OBVIOUS
<1>3. sessions'[token].locations = <<>>
  BY <1>1
<1> QED BY <1>1, <1>2, <1>3 DEF OpensList, Lists, LocationsOf

LEMMA OpeningLists ==
    ASSUME NEW u, NEW p, Lists, DOMAIN sessions \subseteq issued,
           Server!SignUp(u, p) \/ Server!LogIn(u, p)
    PROVE  OpensList
<1>1. CASE \E op : Server!OpenSession(op, u, p)
  BY <1>1, OpenLists
<1>2. CASE \E op : Server!Refuse(op, Missing, 400)
  BY <1>2, RefuseLists DEF OpensList, LocationsOf
<1> QED BY <1>1, <1>2 DEF Server!SignUp, Server!LogIn

LEMMA RefusedList ==
    ASSUME NEW op, NEW token, NEW status, Lists, status # 200,
           Server!Refuse(op, token, status)
    PROVE  UsesList(op, token)
BY RefuseLists DEF UsesList, OthersKept, Told, LocationsOf

(* Requests that leave the lists alone.                                    *)
LEMMA ListsAlone ==
    ASSUME NEW op \in {"logout", "amiloggedin", "changepassword", "getlocations"},
           NEW token \in DOMAIN sessions, Lists,
           DOMAIN sessions' \subseteq DOMAIN sessions,
           \A t \in DOMAIN sessions' :
               /\ "locations" \in DOMAIN sessions'[t]
               /\ sessions'[t].locations = sessions[t].locations,
           op = "getlocations" => reply'.body = sessions[token].locations
    PROVE  UsesList(op, token)
<1>1. \A list : Told(op, list, reply') = list
  BY SameListed DEF Told, Opening
<1> QED BY <1>1 DEF UsesList, OthersKept, Lists, LocationsOf

(* The one list that changes.                                              *)
LEMMA ListReplaced ==
    ASSUME NEW token \in DOMAIN sessions, Lists, NEW list \in Seq(Locations),
           sessions' = [sessions EXCEPT ![token].locations = list]
    PROVE  /\ Lists' /\ OthersKept(token) /\ DOMAIN sessions' = DOMAIN sessions
           /\ LocationsOf(token)' = list
<1>1. /\ sessions'[token] = [sessions[token] EXCEPT !.locations = list]
      /\ DOMAIN sessions' = DOMAIN sessions
      /\ \A t \in DOMAIN sessions : t # token => sessions'[t] = sessions[t]
  OBVIOUS
<1>2. /\ "locations" \in DOMAIN sessions'[token]
      /\ sessions'[token].locations = list
  BY <1>1 DEF Lists
<1> QED BY <1>1, <1>2 DEF Lists, OthersKept, LocationsOf

LEMMA SubscribeList ==
    ASSUME NEW token, NEW location, Lists, location \in Locations \cup {Missing},
           Server!Subscribe(token, location)
    PROVE  UsesList("subscribe", token)
<1>1. CASE \E status \in {400, 401} : Server!Refuse("subscribe", token, status)
  BY <1>1, RefusedList
<1>2. CASE /\ token \in DOMAIN sessions /\ location \in Locations
           /\ Server!Answer("subscribe", token, 200, <<location>>)
           /\ sessions' = [sessions EXCEPT
                              ![token].locations = Append(@, location)]
  <2>1. PICK old : old = LocationsOf(token) /\ old \in Seq(Locations)
    BY <1>2 DEF Lists
  <2>2. sessions' = [sessions EXCEPT ![token].locations = Append(old, location)]
    BY <1>2, <2>1 DEF LocationsOf
  <2>3. Append(old, location) \in Seq(Locations)
    BY <1>2, <2>1
  <2>4. /\ Lists' /\ OthersKept(token)
        /\ LocationsOf(token)' = Append(old, location)
    BY <1>2, <2>2, <2>3, ListReplaced
  <2>5. reply'.status = 200 /\ reply'.body = <<location>>
    BY <1>2 DEF Server!Answer
  <2>6. Told("subscribe", old, reply') = Append(old, location)
    <3>1. Told("subscribe", old, reply') = old \o <<location>>
      BY <2>5, OneMoreListed DEF Told
    <3> QED BY <1>2, <2>1, <3>1
  <2> QED BY <1>2, <2>1, <2>3, <2>4, <2>6 DEF UsesList
<1>3. location # Missing => location \in Locations
  OBVIOUS
<1> QED BY <1>1, <1>2, <1>3 DEF Server!Subscribe, Server!WithSession

LEMMA UnsubscribeList ==
    ASSUME NEW token, NEW location, Lists, Server!Unsubscribe(token, location)
    PROVE  UsesList("unsubscribe", token)
<1>1. CASE \E status \in {400, 401} : Server!Refuse("unsubscribe", token, status)
  BY <1>1, RefusedList
<1>2. CASE /\ token \in DOMAIN sessions
           /\ Server!Answer("unsubscribe", token, 200, <<location>>)
           /\ \E i \in DOMAIN sessions[token].locations :
                 /\ sessions[token].locations[i] = location
                 /\ \A j \in 1..(i - 1) : sessions[token].locations[j] # location
                 /\ sessions' = [sessions EXCEPT ![token].locations =
                        SubSeq(@, 1, i - 1) \o SubSeq(@, i + 1, Len(@))]
  <2>1. PICK old : old = sessions[token].locations /\ old \in Seq(Locations)
    BY <1>2 DEF Lists, LocationsOf
  <2>2. PICK i \in DOMAIN old :
          /\ old[i] = location /\ \A j \in 1..(i - 1) : old[j] # location
          /\ sessions' = [sessions EXCEPT ![token].locations =
                 SubSeq(old, 1, i - 1) \o SubSeq(old, i + 1, Len(old))]
    BY <1>2, <2>1
  <2>3. PICK new : new = SubSeq(old, 1, i - 1) \o SubSeq(old, i + 1, Len(old))
    OBVIOUS
  <2>4. new \in Seq(Locations)
    <3>1. /\ i \in Nat /\ Len(old) \in Nat /\ 1 <= i /\ i <= Len(old)
          /\ \A j \in 1..Len(old) : old[j] \in Locations
      BY <2>1, <2>2
    <3>2. SubSeq(old, 1, i - 1) \in Seq(Locations)
      BY <2>1, <3>1
    <3>3. SubSeq(old, i + 1, Len(old)) \in Seq(Locations)
      BY <2>1, <3>1
    <3> QED BY <2>3, <3>2, <3>3
  <2>5. Lists' /\ OthersKept(token) /\ LocationsOf(token)' = new
    BY <1>2, <2>2, <2>3, <2>4, ListReplaced
  <2>6. reply'.status = 200 /\ reply'.body = <<old[i]>>
    BY <1>2, <2>2 DEF Server!Answer
  <2>7. NowListed("unsubscribe", old, <<old[i]>>) = new
    BY <2>1, <2>2, <2>3, OneLessListed
  <2>8. Told("unsubscribe", old, reply') = new
    BY <2>6, <2>7 DEF Told
  <2> QED BY <1>2, <2>1, <2>4, <2>5, <2>8 DEF UsesList, LocationsOf
<1> QED BY <1>1, <1>2 DEF Server!Unsubscribe, Server!WithSession

LEMMA OtherLists ==
    ASSUME NEW token, NEW x, NEW y, Lists
    PROVE  /\ Server!LogOut(token) => UsesList("logout", token)
           /\ Server!IsLoggedIn(token) => UsesList("amiloggedin", token)
           /\ Server!ChangePassword(token, x, y)
                 => UsesList("changepassword", token)
           /\ Server!GetLocations(token) => UsesList("getlocations", token)
<1>1. ASSUME NEW op, \E status \in {400, 401} : Server!Refuse(op, token, status)
      PROVE  UsesList(op, token)
  BY <1>1, RefusedList
<1>2. ASSUME Server!LogOut(token) PROVE UsesList("logout", token)
  BY <1>1, <1>2, ListsAlone
     DEF Server!LogOut, Server!WithSession, Server!Restrict, Lists
<1>3. ASSUME Server!IsLoggedIn(token) PROVE UsesList("amiloggedin", token)
  BY <1>1, <1>3, ListsAlone DEF Server!IsLoggedIn, Server!WithSession, Lists
<1>4. ASSUME Server!ChangePassword(token, x, y)
      PROVE  UsesList("changepassword", token)
  <2>1. CASE token \in DOMAIN sessions
             /\ sessions' = [sessions EXCEPT ![token].password = y]
    <3>1. \A t \in DOMAIN sessions' :
             /\ "locations" \in DOMAIN sessions'[t]
             /\ sessions'[t].locations = sessions[t].locations
      BY <2>1 DEF Lists
    <3> QED BY <2>1, <3>1, ListsAlone
  <2> QED BY <1>1, <1>4, <2>1 DEF Server!ChangePassword, Server!WithSession
<1>5. ASSUME Server!GetLocations(token) PROVE UsesList("getlocations", token)
  BY <1>1, <1>5, ListsAlone
     DEF Server!GetLocations, Server!WithSession, Server!Answer, Lists
<1> QED BY <1>2, <1>3, <1>4, <1>5

LEMMA HandleLists ==
    ASSUME NEW r, r.op \in Opening \cup SessionOps, Lists,
           DOMAIN sessions \subseteq issued, Handle(r),
           r.op = "subscribe" => r.args[2] \in Locations \cup {Missing}
    PROVE  \/ r.op \in Opening /\ OpensList
           \/ r.op \in SessionOps /\ UsesList(r.op, r.args[1])
<1>1. CASE r.op \in Opening
  <2>1. Server!SignUp(r.args[1], r.args[2]) \/ Server!LogIn(r.args[1], r.args[2])
    BY <1>1 DEF Handle, Opening
  <2> QED BY <1>1, <2>1, OpeningLists
<1>2. CASE r.op = "subscribe"
  <2>1. Server!Subscribe(r.args[1], r.args[2])
    BY <1>2 DEF Handle
  <2> QED BY <1>2, <2>1, SubscribeList DEF SessionOps
<1>3. CASE r.op = "unsubscribe"
  <2>1. Server!Unsubscribe(r.args[1], r.args[2])
    BY <1>3 DEF Handle
  <2> QED BY <1>3, <2>1, UnsubscribeList DEF SessionOps
<1>4. CASE r.op \in {"logout", "amiloggedin", "getlocations"}
  <2>1. \/ r.op = "logout" /\ Server!LogOut(r.args[1])
        \/ r.op = "amiloggedin" /\ Server!IsLoggedIn(r.args[1])
        \/ r.op = "getlocations" /\ Server!GetLocations(r.args[1])
    BY <1>4 DEF Handle
  <2> QED BY <1>4, <2>1, OtherLists DEF SessionOps
<1>5. CASE r.op = "changepassword"
  <2>1. Server!ChangePassword(r.args[1], r.args[2], r.args[3])
    BY <1>5 DEF Handle
  <2> QED BY <1>5, <2>1, OtherLists DEF SessionOps
<1> QED BY <1>1, <1>2, <1>3, <1>4, <1>5 DEF SessionOps

LEMMA ServeLists == ASSUME LInv, CInv', NEW c \in Clients, Serve(c) PROVE LInv'
<1>0. /\ UNCHANGED <<at, bearer, answer, connection, listed>> /\ serving' = c
      /\ c \in unread /\ unread' = unread \ {c}
      /\ request' = [request EXCEPT ![c] = IF at[c] = "ended" THEN NoRequest ELSE @]
      /\ CInv /\ Types /\ Lists /\ Local(c) /\ Shown(c) /\ DOMAIN listed = Clients
  BY DEF Serve, LInv, CInv
<1>1. PICK r : r = request[c] /\ Handle(r)
  BY DEF Serve
<1>2. /\ r.op \in Opening \cup SessionOps
      /\ r.op \in SessionOps => r.args[1] = Missing \/ Owns(c, r.args[1])
      /\ at[c] = "waiting" /\ r.op \in SessionOps => r.args[1] = bearer[c]
      /\ r.op = "subscribe" => r.args[2] \in Locations \cup {Missing}
  BY <1>0, <1>1 DEF Local, Asking, Shown
<1>3. \/ r.op \in Opening /\ OpensList
      \/ r.op \in SessionOps /\ UsesList(r.op, r.args[1])
  BY <1>0, <1>1, <1>2, HandleLists DEF Types
<1>4. /\ serving = Missing
      /\ \A t \in DOMAIN sessions' : t \in DOMAIN sessions \/ t \notin issued
  BY <1>0, ServeEffect
<1>5. Lists'
  BY <1>3 DEF OpensList, UsesList
<1>6. ASSUME NEW d \in Clients, NEW t \in DOMAIN sessions', Owns(d, t),
             d # c \/ r.op \in Opening
      PROVE  t \in DOMAIN sessions /\ LocationsOf(t)' = LocationsOf(t)
  <2>1. t \in DOMAIN sessions
    BY <1>4, <1>6 DEF Owns
  <2>2. CASE r.op \in Opening /\ OpensList
    BY <2>1, <2>2 DEF OpensList
  <2>3. CASE r.op \in SessionOps /\ UsesList(r.op, r.args[1])
    <3>1. t # r.args[1]
      BY <1>0, <1>2, <1>6, <2>3, ClientAssumption DEF Owns, Types, Opening, SessionOps
    <3> QED BY <2>1, <2>3, <3>1 DEF UsesList, OthersKept
  <2> QED BY <1>3, <2>2, <2>3
<1>7. ASSUME NEW d \in Clients, d # c PROVE Shown(d)'
  <2>1. Shown(d) /\ Local(d) /\ serving # d /\ serving' # d
    BY <1>0, <1>4, <1>7, ClientAssumption DEF LInv, CInv
  <2>2. request'[d] = request[d]
    BY <1>0, <1>7 DEF Types
  <2>3. Live(d)' => Live(d) /\ LocationsOf(bearer[d])' = LocationsOf(bearer[d])
    <3>1. Live(d)' => bearer[d] # Missing
      BY <1>0, ClientAssumption DEF CInv, Types, Live
    <3> QED BY <1>0, <1>6, <1>7, <2>1, <3>1 DEF Local, Own, Live, LocationsOf
  <2>4. ASSUME answer[d] # NoAnswer PROVE Tells(d, answer[d])'
    <3>1. Tells(d, answer[d]) /\ Fits(d, answer[d])
      BY <2>1, <2>4 DEF Shown, Local, Answered
    <3>2. CASE request[d].op \in Opening /\ answer[d].status = 200
      <4>1. Owns(d, answer[d].token)
        BY <3>1, <3>2 DEF Fits
      <4>2. answer[d].token \in DOMAIN sessions'
               => /\ answer[d].token \in DOMAIN sessions
                  /\ sessions'[answer[d].token].locations
                        = sessions[answer[d].token].locations
        BY <1>6, <1>7, <4>1 DEF LocationsOf
      <4> QED BY <1>0, <2>2, <3>1, <3>2, <4>2 DEF Tells, Told, LocationsOf
    <3>3. CASE ~(request[d].op \in Opening /\ answer[d].status = 200)
      BY <1>0, <2>2, <2>3, <3>1, <3>3 DEF Tells, Told, LocationsOf
    <3> QED BY <3>2, <3>3
  <2> QED BY <1>0, <2>1, <2>2, <2>3, <2>4 DEF Shown, LocationsOf
<1>8. ASSUME at[c] = "waiting" PROVE Tells(c, reply)'
  <2>1. serving # c
    BY <1>4, ClientAssumption
  <2>2. connection[c] = "up" /\ answer[c] = NoAnswer /\ request'[c] = r
    BY <1>0, <1>1, <1>8 DEF Local, OnTheWay, Types
  <2>3. listed[c] \in Seq(Locations) /\ (Live(c) => LocationsOf(bearer[c]) = listed[c])
    BY <1>0, <1>8, <2>1, <2>2 DEF Shown
  <2>4. CASE r.op \in Opening /\ OpensList
    <3>1. Told(r.op, listed[c], reply') \in Seq(Locations)
      BY <2>3, <2>4, EmptyBodyListed DEF OpensList, Told
    <3>2. ASSUME Live(c)' PROVE LocationsOf(bearer[c])' = listed[c]
      <4>1. Owns(c, bearer[c])
        BY <1>0, <3>2, ClientAssumption DEF CInv, Types, Live, Local, Own
      <4> QED BY <1>0, <1>6, <2>3, <2>4, <3>2, <4>1 DEF Live, LocationsOf
    <3> QED BY <1>0, <2>2, <2>4, <3>1, <3>2 DEF Tells, Told, OpensList, Opening
  <2>5. CASE r.op \in SessionOps /\ UsesList(r.op, r.args[1])
    <3>1. PICK token, list :
            token = r.args[1] /\ list = listed[c] /\ list \in Seq(Locations)
      BY <2>3
    <3>2. token = bearer[c] /\ r.op \notin Opening
      BY <1>2, <1>8, <2>5, <3>1 DEF Opening, SessionOps
    <3>3. token \in DOMAIN sessions => list = LocationsOf(token)
      BY <2>3, <3>1, <3>2 DEF Live, LocationsOf
    <3>4. /\ Told(r.op, list, reply') \in Seq(Locations)
          /\ token \in DOMAIN sessions'
                => LocationsOf(token)' = Told(r.op, list, reply')
          /\ r.op = "getlocations" /\ reply'.status = 200 => reply'.body = list
      BY <2>5, <3>1, <3>3 DEF UsesList
    <3> QED BY <1>0, <2>2, <3>1, <3>2, <3>4 DEF Tells, Told, Live, LocationsOf
  <2> QED BY <1>3, <2>4, <2>5
<1>9. Shown(c)'
  <2>1. answer[c] = NoAnswer
    BY <1>0 DEF Local, OnTheWay
  <2>2. at[c] = "ended" \/ request'[c] = request[c]
    BY <1>0 DEF Types
  <2> QED BY <1>0, <1>8, <2>1, <2>2 DEF Shown
<1> QED BY <1>0, <1>5, <1>7, <1>9 DEF LInv

LEMMA RespondLists == ASSUME LInv, CInv', Respond PROVE LInv'
<1>0. PICK c \in Clients : c = serving
  BY DEF Respond, LInv, CInv, Types
<1>1. /\ serving' = Missing /\ Types
      /\ UNCHANGED <<sessions, at, bearer, request, connection, listed, unread>>
      /\ answer' = IF at[c] = "ended" THEN answer
                   ELSE [answer EXCEPT ![c] = reply]
  BY <1>0 DEF Respond, Requester, server, LInv, CInv
<1>2. ASSUME NEW d \in Clients PROVE Shown(d)'
  <2>1. Shown(d) /\ Local(d) /\ serving' # d
    BY <1>1, ClientAssumption DEF LInv, CInv
  <2>2. CASE d # c \/ at[c] = "ended"
    <3>1. answer'[d] = answer[d] /\ (serving # d \/ at[d] = "ended")
      BY <1>0, <1>1, <2>2 DEF Types
    <3> QED BY <1>1, <2>1, <3>1 DEF Shown, Tells, Live, LocationsOf
  <2>3. CASE d = c /\ at[c] # "ended"
    <3>1. answer'[c] = reply /\ at[c] = "waiting" /\ Tells(c, reply)
      BY <1>0, <1>1, <2>1, <2>3 DEF Types, Local, OnTheWay, Shown
    <3>2. Tells(c, answer[c])' /\ reply # NoAnswer
      BY <1>0, <1>1, <3>1, ClientAssumption
         DEF Tells, Live, LocationsOf, LInv, CInv, ServingIsHandled
    <3> QED BY <1>1, <2>1, <2>3, <3>1, <3>2 DEF Shown
  <2> QED BY <2>2, <2>3
<1> QED BY <1>1, <1>2 DEF LInv, Lists, LocationsOf

LEMMA SaveLists ==
    ASSUME LInv, CInv', BeginSave \/ EndSave \/ Done \/ Run PROVE LInv'
<1>1. /\ UNCHANGED <<sessions, at, bearer, request, answer, connection, listed,
                     unread, serving>>
      /\ reply' = reply \/ (reply' = NoAnswer /\ serving = Missing)
  BY DEF BeginSave, EndSave, Done, Run, Server!BeginSave, Server!EndSave,
         Server!Done, Server!Run, client, NoAnswer
<1>2. ASSUME NEW d \in Clients PROVE Shown(d)'
  <2>1. Shown(d) /\ (reply' = reply \/ serving # d)
    BY <1>1, ClientAssumption DEF LInv
  <2> QED BY <1>1, <2>1 DEF Shown, Tells, Live, LocationsOf
<1> QED BY <1>1, <1>2 DEF LInv, Lists, LocationsOf

LEMMA StopLists == ASSUME LInv, CInv', Stop PROVE LInv'
<1>1. /\ DOMAIN sessions' = {} /\ unread' = {} /\ serving' = Missing
      /\ UNCHANGED <<at, bearer, answer, listed>>
      /\ \A c \in Clients : connection'[c] # "up"
      /\ \A c \in Clients : at[c] = "ended" \/ request'[c] = request[c]
  BY DEF Stop, Server!Stop, Server!Nobody
<1>2. ASSUME NEW d \in Clients PROVE Shown(d)'
  <2>1. Shown(d) /\ Local(d) /\ serving' # d
    BY <1>1, ClientAssumption DEF LInv, CInv
  <2> QED BY <1>1, <2>1 DEF Shown, Tells, Local, OnTheWay
<1> QED BY <1>1, <1>2 DEF LInv, Lists

LEMMA NextLInv == LInv /\ [Next]_vars => LInv'
<1> SUFFICES ASSUME LInv, [Next]_vars PROVE LInv'
  OBVIOUS
<1>0. CInv'
  BY NextCInv DEF LInv
<1>1. CASE UNCHANGED vars
  <2>1. UNCHANGED <<sessions, reply, at, bearer, request, answer, connection,
                    listed, unread, serving>>
    BY <1>1 DEF vars, server, client
  <2>2. \A d \in Clients : Shown(d)'
    BY <2>1 DEF LInv, Shown, Tells, Live, LocationsOf
  <2> QED BY <1>0, <2>1, <2>2 DEF LInv, Lists, LocationsOf
<1>2. ASSUME NEW c \in Clients,
             \/ Launch(c) \/ Loop(c) \/ Pick(c) \/ Receive(c) \/ ReadFails(c)
             \/ Kill(c) \/ Serve(c)
      PROVE  LInv'
  BY <1>0, <1>2, MainLists, ReceiveLists, ReadFailsLists, ServeLists
<1>3. CASE Respond \/ BeginSave \/ EndSave \/ Done \/ Run \/ Stop
  BY <1>0, <1>3, RespondLists, SaveLists, StopLists
<1> QED BY <1>1, <1>2, <1>3 DEF Next

LEMMA ListsInductive == Spec => []LInv
BY InitLInv, NextLInv, PTL DEF Spec

(* The client's variables keep their types: who waits has a request, and a *)
(* response is only there for a client that waits for it.                  *)
THEOREM ClientTypeCorrect == Spec => []TypeOK
<1>1. LInv => TypeOK
  <2> SUFFICES ASSUME LInv PROVE TypeOK
    OBVIOUS
  <2>1. Types
    BY DEF LInv, CInv
  <2>2. ASSUME NEW c \in Clients
        PROVE  /\ at[c] = "waiting" \/ c \in unread => request[c] # NoRequest
               /\ answer[c] # NoAnswer => at[c] = "waiting" /\ c \notin unread
               /\ listed[c] \in Seq(Locations)
    BY DEF LInv, CInv, Local, Asking, OnTheWay, Shown, NoRequest, Opening,
           SessionOps
  <2> QED BY <2>1, <2>2 DEF Types, TypeOK
<1> QED BY <1>1, ListsInductive, PTL

(* The list in a response to a client is the one that follows from the     *)
(* responses this client has had: subscriptions of other sessions, also of *)
(* the same user, are never in it, and none of its own is lost.            *)
THEOREM ListsAsTold == Spec => []ListIsAsTold
<1>1. LInv => ListIsAsTold
  <2> SUFFICES ASSUME LInv, NEW c \in Clients, request[c].op = "getlocations",
                      answer[c].status = 200
               PROVE  answer[c].body = listed[c]
    BY DEF ListIsAsTold
  <2>1. answer[c] # NoAnswer
    BY DEF NoAnswer, Server!NoReply
  <2> QED BY <2>1 DEF LInv, Shown, Tells
<1> QED BY <1>1, ListsInductive, PTL

-----------------------------------------------------------------------------
(* A client that waits has its request at the server, or something to read.*)

Expects(c) ==
    at[c] = "waiting" =>
        \/ c \in unread \/ serving = c \/ answer[c] # NoAnswer
        \/ connection[c] \in {"ended", "reset", "broken"}

LEMMA ExpectsAlone ==
    ASSUME NobodyWaitsInVain, NEW c \in Clients, Expects(c)',
           UNCHANGED serving,
           \A d \in Clients \ {c} :
               /\ at'[d] = at[d] /\ answer'[d] = answer[d]
               /\ connection'[d] = connection[d]
               /\ d \in unread' <=> d \in unread
    PROVE  NobodyWaitsInVain'
BY DEF NobodyWaitsInVain, Expects

LEMMA SendRequestExpects ==
    ASSUME CInv, NobodyWaitsInVain, NEW c \in Clients, NEW op, NEW args,
           SendRequest(c, op, args), UNCHANGED serving
    PROVE  NobodyWaitsInVain'
<1>1. /\ Expects(c)'
      /\ \A d \in Clients \ {c} :
            /\ at'[d] = at[d] /\ answer'[d] = answer[d]
            /\ connection'[d] = connection[d]
            /\ d \in unread' <=> d \in unread
  BY DEF SendRequest, Goto, End, Expects, CInv, Types
<1> QED BY <1>1, ExpectsAlone

(* The other steps of a client end its waiting or do not begin it.         *)
LEMMA ClientExpects ==
    ASSUME CInv, NobodyWaitsInVain, NEW c \in Clients,
           Launch(c) \/ Loop(c) \/ Pick(c) \/ Receive(c) \/ ReadFails(c) \/ Kill(c)
    PROVE  NobodyWaitsInVain'
<1>1. ASSUME \E place \in {"top", "ended"} \cup Menus : Goto(c, place),
             UNCHANGED <<serving, unread>>,
             \A d \in Clients \ {c} :
                 answer'[d] = answer[d] /\ connection'[d] = connection[d]
      PROVE  NobodyWaitsInVain'
  <2>1. /\ Expects(c)'
        /\ \A d \in Clients \ {c} : at'[d] = at[d]
    BY <1>1 DEF Goto, Expects, Menus, CInv, Types
  <2> QED BY <1>1, <2>1, ExpectsAlone
<1>2. ASSUME End(c), UNCHANGED <<serving, unread>> PROVE NobodyWaitsInVain'
  BY <1>1, <1>2 DEF End, CInv, Types
<1>3. CASE Launch(c)
  BY <1>1, <1>3 DEF Launch, CInv, Types
<1>4. CASE Loop(c)
  BY <1>1, <1>4, SendRequestExpects DEF Loop, Menus
<1>5. CASE Pick(c)
  <2>1. UNCHANGED serving
    BY <1>5 DEF Pick
  <2>2. CASE StartMenu(c) \/ LoggedInMenu(c)
    BY <2>1, <2>2, SendRequestExpects DEF StartMenu, LoggedInMenu
  <2>3. CASE End(c) /\ UNCHANGED unread
    BY <1>2, <2>1, <2>3
  <2>4. CASE Goto(c, "top") /\ UNCHANGED <<answer, connection, unread>>
    BY <1>1, <2>1, <2>4
  <2> QED BY <1>5, <2>2, <2>3, <2>4 DEF Pick
<1>6. CASE Receive(c)
  <2>1. /\ \E place \in {"top", "ended"} \cup Menus : Goto(c, place)
        /\ UNCHANGED <<serving, unread, connection>>
    BY <1>6 DEF Receive, Menus
  <2>2. \A d \in Clients \ {c} : answer'[d] = answer[d]
    BY <1>6 DEF Receive, CInv, Types
  <2> QED BY <1>1, <2>1, <2>2
<1>7. CASE ReadFails(c)
  BY <1>1, <1>7 DEF ReadFails, CInv, Types
<1>8. CASE Kill(c)
  BY <1>2, <1>8 DEF Kill
<1> QED BY <1>3, <1>4, <1>5, <1>6, <1>7, <1>8

(* A request is read only when the one before has been answered.           *)
LEMMA ServeExpects ==
    ASSUME CInv, NobodyWaitsInVain, NEW c \in Clients, Serve(c)
    PROVE  NobodyWaitsInVain'
<1>1. serving = Missing /\ UNCHANGED <<at, answer, connection>>
  BY ServeEffect DEF Serve, CInv, ServingIsHandled
<1>2. \A d \in Clients : serving # d
  BY <1>1, ClientAssumption
<1> QED BY <1>1, <1>2 DEF Serve, NobodyWaitsInVain

(* There is a response to be sent as long as a client is owed one.         *)
LEMMA RespondExpects ==
    ASSUME CInv, NobodyWaitsInVain, Respond
    PROVE  NobodyWaitsInVain'
<1>1. serving \in Clients /\ reply # NoAnswer
  BY DEF Respond, CInv, Types, ServingIsHandled
<1>2. UNCHANGED <<at, connection, unread>>
  BY DEF Respond
<1>3. at[serving] = "waiting" => answer'[serving] # NoAnswer
  BY <1>1 DEF Respond, Requester, CInv, Types
<1>4. \A d \in Clients : answer[d] # NoAnswer => answer'[d] # NoAnswer
  BY <1>1 DEF Respond, Requester, CInv, Types
<1> QED BY <1>2, <1>3, <1>4 DEF NobodyWaitsInVain

(* When the server stops, every connection a client still waits on ends.   *)
LEMMA StopExpects == ASSUME CInv, NobodyWaitsInVain, Stop PROVE NobodyWaitsInVain'
<1> SUFFICES ASSUME NEW d \in Clients PROVE Expects(d)'
  BY DEF NobodyWaitsInVain, Expects
<1>1. Expects(d) /\ OnTheWay(d)
  BY DEF NobodyWaitsInVain, Expects, CInv, Local
<1>2. /\ UNCHANGED <<at, answer>>
      /\ connection'[d] = (IF connection[d] # "up" THEN connection[d]
                           ELSE IF d \in unread THEN "reset" ELSE "ended")
  BY DEF Stop
<1> QED BY <1>1, <1>2 DEF Expects, OnTheWay

(* Nobody who waits in make_request() has been forgotten: requests are     *)
(* read, handled and answered in different steps, and the server may stop, *)
(* clients may end, and connections may fail between any of them.          *)
THEOREM NobodyForgotten == Spec => []NobodyWaitsInVain
<1>1. Init => NobodyWaitsInVain
  BY DEF Init, NobodyWaitsInVain
<1>2. CInv /\ NobodyWaitsInVain /\ [Next]_vars => NobodyWaitsInVain'
  <2> SUFFICES ASSUME CInv, NobodyWaitsInVain, [Next]_vars
               PROVE  NobodyWaitsInVain'
    OBVIOUS
  <2>1. CASE UNCHANGED <<client, unread, serving>>
    BY <2>1 DEF client, NobodyWaitsInVain
  <2>2. CASE BeginSave \/ EndSave \/ Done \/ Run
    BY <2>1, <2>2 DEF BeginSave, EndSave, Done, Run
  <2>3. CASE Respond \/ Stop
    BY <2>3, RespondExpects, StopExpects
  <2>4. ASSUME NEW c \in Clients,
               \/ Launch(c) \/ Loop(c) \/ Pick(c) \/ Receive(c) \/ ReadFails(c)
               \/ Kill(c) \/ Serve(c)
        PROVE  NobodyWaitsInVain'
    BY <2>4, ClientExpects, ServeExpects
  <2> QED BY <2>1, <2>2, <2>3, <2>4 DEF Next, vars
<1> QED BY <1>1, <1>2, ClientInductive, PTL DEF Spec
=============================================================================
