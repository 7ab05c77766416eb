------------------------ MODULE WeatherServiceProofs ------------------------
(***************************************************************************)
(* Theorems about WeatherService for every value of its constants: any     *)
(* names and passwords, any number of users, tokens and locations, and any *)
(* subset of the faults.                                                   *)
(***************************************************************************)
EXTENDS WeatherService, TLAPS, SequenceTheorems

-----------------------------------------------------------------------------
(* Lemmas about users.txt and about the lists in memory.                   *)

LEMMA TextConcat ==
    ASSUME NEW s \in Text, NEW t \in Text PROVE s \o t \in Text
BY DEF Text

LEMMA FieldText == \A f \in Field \cup {Empty} : <<f>> \in Text
BY DEF Text

LEMMA DefaultUserTyped == DefaultUserInfo \in UserInfo(Locations)
<1>1. <<Empty>> \in Text
  BY FieldText
<1>2. <<>> \in Seq(Locations)
  OBVIOUS
<1> QED BY <1>1, <1>2 DEF DefaultUserInfo, UserInfo

LEMMA UserTyped ==
    ASSUME NEW u \in Text, NEW p \in Text
    PROVE  NewUserInfo(u, p) \in UserInfo(Locations)
BY DefaultUserTyped DEF NewUserInfo, UserInfo

LEMMA LineTyped ==
    ASSUME NEW user \in UserInfo(Locations) PROVE Line(user) \in Text
BY TextConcat DEF Line, UserInfo

LEMMA SplitTyped == ASSUME NEW line \in Text PROVE split(line) \in Text
<1>1. CASE Len(line) = 0
  BY <1>1 DEF split, Text
<1>2. CASE Len(line) # 0
  BY <1>2 DEF split, Text
<1> QED BY <1>1, <1>2

LEMMA ParseTyped ==
    ASSUME NEW line \in Text, IsUserLine(line)
    PROVE  ParseLine(line) \in UserInfo(Locations)
<1> DEFINE f == split(line)
<1>1. f \in Seq(Field \cup {Empty}) /\ Len(f) > 1
  BY SplitTyped DEF IsUserLine, Text
<1>2. f[1] \in Field \cup {Empty} /\ f[2] \in Field \cup {Empty}
  BY <1>1
<1>3. <<f[1]>> \in Text /\ <<f[2]>> \in Text
  BY <1>2, FieldText
<1> QED BY <1>3, UserTyped DEF ParseLine

LEMMA EraseTyped ==
    ASSUME NEW S, NEW s \in Seq(S), NEW i \in DOMAIN s
    PROVE  EraseAt(s, i) \in Seq(S)
BY DEF EraseAt

LEMMA WithPasswordTyped ==
    ASSUME users \in Seq(UserInfo(Locations)), NEW u, NEW new \in Text
    PROVE  WithPassword(u, new) \in Seq(UserInfo(Locations))
<1>1. \A i \in DOMAIN users :
        users[i] \in UserInfo(Locations)
  OBVIOUS
<1>2. \A user \in UserInfo(Locations) :
        [user EXCEPT !.password = new] \in UserInfo(Locations)
  BY DEF UserInfo
<1>3. Len(users) \in Nat /\ DOMAIN users = 1..Len(users)
  OBVIOUS
<1>4. WithPassword(u, new) = [i \in 1..Len(users) |->
          IF users[i].username = u THEN [users[i] EXCEPT !.password = new]
                                   ELSE users[i]]
  BY <1>3 DEF WithPassword
<1>5. \A i \in 1..Len(users) :
        (IF users[i].username = u THEN [users[i] EXCEPT !.password = new]
                                  ELSE users[i]) \in UserInfo(Locations)
  BY <1>1, <1>2, <1>3
<1> QED BY <1>3, <1>4, <1>5, IsASeq

-----------------------------------------------------------------------------
(* Lemmas about what the handlers share.                                   *)

(* A handler that passed authenticate() works on the session of the token  *)
(* its own request carries.                                                *)
LEMMA AuthenticateLemma ==
    ASSUME TypeOK, NEW auth \in Tokens \cup {Missing}, Authenticate(auth)
    PROVE  /\ isAuthenticated' \in BOOLEAN
           /\ bearer' \in Tokens \cup {Missing}
           /\ isAuthenticated' => bearer' = auth /\ auth \in DOMAIN sessions
<1>1. isAuthenticated' \in BOOLEAN
  <2>1. (auth \in DOMAIN sessions) \in BOOLEAN
    OBVIOUS
  <2> QED BY <2>1, Zenon DEF Authenticate
<1>2. bearer' = IF auth \in DOMAIN sessions THEN auth ELSE bearer
  BY Zenon DEF Authenticate
<1>3. bearer' \in Tokens \cup {Missing}
  BY <1>2 DEF TypeOK
<1>4. isAuthenticated' => auth \in DOMAIN sessions
  BY Zenon DEF Authenticate
<1> QED BY <1>1, <1>2, <1>3, <1>4

LEMMA SessionTyped ==
    ASSUME TypeOK, NEW t \in DOMAIN sessions
    PROVE  Session(t) = sessions[t] /\ Session(t) \in UserInfo(Locations)
BY DEF TypeOK, Session

LEMMA StoreLemma ==
    ASSUME TypeOK, NEW t \in Tokens, NEW info \in UserInfo(Locations),
           StoreSession(t, info)
    PROVE  /\ sessions' \in [DOMAIN sessions' -> UserInfo(Locations)]
           /\ DOMAIN sessions' = DOMAIN sessions \cup {t}
           /\ DOMAIN sessions' \subseteq Tokens
           /\ sessions'[t] = info
           /\ \A x \in DOMAIN sessions \ {t} : sessions'[x] = sessions[x]
BY DEF TypeOK, StoreSession

LEMMA TokenLemma ==
    ASSUME TypeOK, NEW token \in Tokens, NEW u \in Usernames,
           generate_token(token, u)
    PROVE  /\ token \notin DOMAIN owner
           /\ DOMAIN owner' = DOMAIN owner \cup {token}
           /\ DOMAIN owner' \subseteq Tokens
           /\ owner' \in [DOMAIN owner' -> Usernames]
           /\ owner'[token] = u
           /\ \A x \in DOMAIN owner : owner'[x] = owner[x]
BY DEF TypeOK, generate_token

CtxTyped ==
    ctx \in [op : Operations \cup {"none"}, token : Tokens \cup {Missing},
             status : {0, 200, 400, 401}, body : Seq(Locations)]

LEMMA StepLists ==
    /\ <<"send">> \in Seq(Steps)
    /\ SignUpSteps \in Seq(Steps)
    /\ ChangePasswordSteps \in Seq(Steps)
BY DEF Steps, SignUpSteps, ChangePasswordSteps

LEMMA NoCtxTyped ==
    NoCtx \in [op : Operations \cup {"none"}, token : Tokens \cup {Missing},
               status : {0, 200, 400, 401}, body : Seq(Locations)]
<1>1. <<>> \in Seq(Locations)
  OBVIOUS
<1> QED BY <1>1 DEF NoCtx

LEMMA ChosenTexts == Usernames \subseteq Text /\ Passwords \subseteq Text
BY TextAssumption

-----------------------------------------------------------------------------
(* The inductive invariant behind the first theorems.  SessionsAreLive is  *)
(* needed for typing: a token that authenticate() accepts has an owner.    *)
(* The last conjunct gives Send the owner of the token it hands out.       *)

IInv ==
    /\ TypeOK
    /\ SessionsAreLive
    /\ ctx.op = "signup" /\ ctx.status = 200 => ctx.token \in DOMAIN owner

LEMMA InitIInv == Init => IInv
<1> SUFFICES ASSUME Init PROVE IInv
  OBVIOUS
<1> USE DEF Init
<1>1. <<>> \in Seq(UserInfo(Locations)) /\ <<>> \in Seq(Text)
      /\ <<>> \in Seq(Steps)
  OBVIOUS
<1>2. ctx.op = "none"
  BY DEF NoCtx
<1>3. TypeOK
  BY <1>1, NoCtxTyped DEF TypeOK, NoSessions
<1>4. SessionsAreLive
  BY DEF SessionsAreLive, NoSessions
<1> QED BY <1>2, <1>3, <1>4 DEF IInv

(* A refusal changes nothing but the response and the flag.                *)
LEMMA RefuseIInv ==
    ASSUME IInv, NEW op \in Operations, NEW token \in Tokens \cup {Missing},
           NEW status \in {400, 401}, Refuse(op, token, status),
           UNCHANGED <<phase, loaded, file>>,
           isAuthenticated' \in BOOLEAN, bearer' \in Tokens \cup {Missing}
    PROVE  IInv'
<1>1. <<>> \in Seq(Locations)
  OBVIOUS
<1>2. CtxTyped' /\ todo' \in Seq(Steps) /\ ctx'.status # 200
  BY <1>1, StepLists DEF Refuse, Respond, CtxTyped
<1>3. UNCHANGED <<users, sessions, owner, revoked, acked, chosen>>
  BY DEF Refuse, history
<1>4. TypeOK'
  BY <1>2, <1>3 DEF IInv, TypeOK, CtxTyped
<1>5. SessionsAreLive'
  BY <1>3 DEF IInv, SessionsAreLive
<1> QED BY <1>2, <1>4, <1>5 DEF IInv

(* Storing a live session under its own user's name keeps the sessions     *)
(* well-typed and live.                                                    *)
LEMMA StoreLive ==
    ASSUME IInv, NEW t \in DOMAIN sessions, NEW info \in UserInfo(Locations),
           info.username = sessions[t].username, StoreSession(t, info),
           UNCHANGED <<owner, revoked>>
    PROVE  /\ DOMAIN sessions' = DOMAIN sessions
           /\ sessions' \in [DOMAIN sessions' -> UserInfo(Locations)]
           /\ SessionsAreLive'
<1>1. TypeOK /\ SessionsAreLive /\ t \in Tokens
  BY DEF IInv, TypeOK
<1>2. /\ sessions' \in [DOMAIN sessions' -> UserInfo(Locations)]
      /\ DOMAIN sessions' = DOMAIN sessions
      /\ sessions'[t] = info
      /\ \A x \in DOMAIN sessions \ {t} : sessions'[x] = sessions[x]
  BY <1>1, StoreLemma
<1>3. SessionsAreLive'
  BY <1>1, <1>2 DEF SessionsAreLive
<1> QED BY <1>2, <1>3

LEMMA SignUpIInv ==
    ASSUME IInv, NEW u \in Usernames \cup {Missing},
           NEW p \in Passwords \cup {Missing}, SignUp(u, p)
    PROVE  IInv'
<1>1. CASE Refuse("signup", Missing, 400)
  <2>1. UNCHANGED <<phase, loaded, isAuthenticated, bearer, file>>
    BY DEF SignUp
  <2>2. isAuthenticated' \in BOOLEAN /\ bearer' \in Tokens \cup {Missing}
    BY <2>1 DEF IInv, TypeOK
  <2> QED BY <1>1, <2>1, <2>2, RefuseIInv DEF Operations
<1>2. ASSUME u \in Usernames, p \in Passwords,
             NEW token \in Tokens, generate_token(token, u),
             StoreSession(token, NewUserInfo(u, p)),
             Respond("signup", token, 200, <<>>, SignUpSteps),
             users' = Append(users, NewUserInfo(u, p)),
             chosen' = chosen \cup {<<u, p>>},
             UNCHANGED <<revoked, acked, phase, loaded, isAuthenticated,
                         bearer, file>>
      PROVE  IInv'
  <2>1. TypeOK /\ SessionsAreLive
    BY DEF IInv
  <2>2. u \in Text /\ p \in Text
    BY <1>2, ChosenTexts
  <2>3. NewUserInfo(u, p) \in UserInfo(Locations)
    BY <2>2, UserTyped
  <2>4. CtxTyped' /\ todo' \in Seq(Steps) /\ ctx'.token = token
    <3>1. <<>> \in Seq(Locations)
      OBVIOUS
    <3> QED BY <1>2, <3>1, StepLists DEF Respond, CtxTyped, Operations
  <2>5. users' \in Seq(UserInfo(Locations))
    BY <1>2, <2>1, <2>3 DEF TypeOK
  <2>6. chosen' \subseteq Text \X Text
    BY <1>2, <2>1, <2>2 DEF TypeOK
  <2>7. /\ token \notin DOMAIN owner
        /\ DOMAIN owner' = DOMAIN owner \cup {token}
        /\ DOMAIN owner' \subseteq Tokens
        /\ owner' \in [DOMAIN owner' -> Usernames]
        /\ owner'[token] = u
        /\ \A x \in DOMAIN owner : owner'[x] = owner[x]
    BY <1>2, <2>1, TokenLemma
  <2>8. /\ sessions' \in [DOMAIN sessions' -> UserInfo(Locations)]
        /\ DOMAIN sessions' = DOMAIN sessions \cup {token}
        /\ DOMAIN sessions' \subseteq Tokens
        /\ sessions'[token] = NewUserInfo(u, p)
        /\ \A x \in DOMAIN sessions \ {token} : sessions'[x] = sessions[x]
    BY <1>2, <2>1, <2>3, StoreLemma
  <2>9. TypeOK'
    BY <1>2, <2>1, <2>4, <2>5, <2>6, <2>7, <2>8 DEF TypeOK, CtxTyped
  <2>10. NewUserInfo(u, p).username = u
    BY DEF NewUserInfo, DefaultUserInfo
  <2>11. SessionsAreLive'
    BY <1>2, <2>1, <2>7, <2>8, <2>10 DEF SessionsAreLive, TypeOK
  <2> QED BY <2>4, <2>7, <2>9, <2>11 DEF IInv
<1> QED BY <1>1, <1>2 DEF SignUp

LEMMA LogInIInv ==
    ASSUME IInv, NEW u \in Usernames \cup {Missing},
           NEW p \in Passwords \cup {Missing}, LogIn(u, p)
    PROVE  IInv'
<1>1. CASE Refuse("login", Missing, 400)
  <2>1. UNCHANGED <<phase, loaded, isAuthenticated, bearer, file>>
    BY DEF LogIn
  <2>2. isAuthenticated' \in BOOLEAN /\ bearer' \in Tokens \cup {Missing}
    BY <2>1 DEF IInv, TypeOK
  <2> QED BY <1>1, <2>1, <2>2, RefuseIInv DEF Operations
<1>2. ASSUME u \in Usernames, p \in Passwords,
             NEW token \in Tokens, generate_token(token, u),
             StoreSession(token, NewUserInfo(u, p)),
             Respond("login", token, 200, <<>>, <<"send">>),
             UNCHANGED <<users, revoked, acked, chosen, phase, loaded,
                         isAuthenticated, bearer, file>>
      PROVE  IInv'
  <2>1. TypeOK /\ SessionsAreLive
    BY DEF IInv
  <2>2. NewUserInfo(u, p) \in UserInfo(Locations)
    BY <1>2, ChosenTexts, UserTyped
  <2>3. CtxTyped' /\ todo' \in Seq(Steps) /\ ctx'.op = "login"
    <3>1. <<>> \in Seq(Locations)
      OBVIOUS
    <3> QED BY <1>2, <3>1, StepLists DEF Respond, CtxTyped, Operations
  <2>4. /\ token \notin DOMAIN owner
        /\ DOMAIN owner' = DOMAIN owner \cup {token}
        /\ DOMAIN owner' \subseteq Tokens
        /\ owner' \in [DOMAIN owner' -> Usernames]
        /\ owner'[token] = u
        /\ \A x \in DOMAIN owner : owner'[x] = owner[x]
    BY <1>2, <2>1, TokenLemma
  <2>5. /\ sessions' \in [DOMAIN sessions' -> UserInfo(Locations)]
        /\ DOMAIN sessions' = DOMAIN sessions \cup {token}
        /\ DOMAIN sessions' \subseteq Tokens
        /\ sessions'[token] = NewUserInfo(u, p)
        /\ \A x \in DOMAIN sessions \ {token} : sessions'[x] = sessions[x]
    BY <1>2, <2>1, <2>2, StoreLemma
  <2>6. TypeOK'
    BY <1>2, <2>1, <2>3, <2>4, <2>5 DEF TypeOK, CtxTyped
  <2>7. NewUserInfo(u, p).username = u
    BY DEF NewUserInfo, DefaultUserInfo
  <2>8. SessionsAreLive'
    BY <1>2, <2>1, <2>4, <2>5, <2>7 DEF SessionsAreLive, TypeOK
  <2> QED BY <2>3, <2>6, <2>8 DEF IInv
<1> QED BY <1>1, <1>2 DEF LogIn

LEMMA LogOutIInv ==
    ASSUME IInv, NEW auth \in Tokens \cup {Missing}, LogOut(auth)
    PROVE  IInv'
<1> USE DEF LogOut
<1>1. TypeOK /\ SessionsAreLive
  BY DEF IInv
<1>2. /\ isAuthenticated' \in BOOLEAN /\ bearer' \in Tokens \cup {Missing}
      /\ isAuthenticated' => bearer' = auth /\ auth \in DOMAIN sessions
  BY <1>1, AuthenticateLemma
<1>3. CASE Refuse("logout", auth, 401)
  BY <1>2, <1>3, RefuseIInv DEF Operations
<1>4. CASE /\ isAuthenticated'
           /\ sessions' = [t \in DOMAIN sessions \ {auth} |-> sessions[t]]
           /\ revoked' = revoked \cup {auth}
           /\ Respond("logout", auth, 200, <<>>, <<"send">>)
           /\ UNCHANGED <<users, owner, acked, chosen>>
  <2>1. CtxTyped' /\ todo' \in Seq(Steps) /\ ctx'.op = "logout"
    <3>1. <<>> \in Seq(Locations)
      OBVIOUS
    <3> QED BY <1>4, <3>1, StepLists DEF Respond, CtxTyped, Operations
  <2>2. auth \in DOMAIN sessions
    BY <1>2, <1>4
  <2>3. DOMAIN sessions' = DOMAIN sessions \ {auth}
        /\ \A t \in DOMAIN sessions' : sessions'[t] = sessions[t]
    BY <1>4
  <2>4. SessionsAreLive'
    BY <1>1, <1>4, <2>2, <2>3 DEF SessionsAreLive
  <2>5. sessions' \in [DOMAIN sessions' -> UserInfo(Locations)]
    BY <1>1, <1>4, <2>3 DEF TypeOK
  <2>6. revoked' \subseteq DOMAIN owner'
    BY <1>1, <1>4, <2>2 DEF TypeOK, SessionsAreLive
  <2>7. TypeOK'
    BY <1>1, <1>2, <1>4, <2>1, <2>3, <2>5, <2>6 DEF TypeOK, CtxTyped
  <2> QED BY <2>1, <2>4, <2>7 DEF IInv
<1> QED BY <1>3, <1>4

LEMMA IsLoggedInIInv ==
    ASSUME IInv, NEW auth \in Tokens \cup {Missing}, IsLoggedIn(auth)
    PROVE  IInv'
<1>1. TypeOK /\ SessionsAreLive
  BY DEF IInv
<1>2. isAuthenticated' \in BOOLEAN /\ bearer' \in Tokens \cup {Missing}
  BY <1>1, AuthenticateLemma DEF IsLoggedIn
<1>3. CtxTyped' /\ todo' \in Seq(Steps) /\ ctx'.op = "amiloggedin"
  <2>1. <<>> \in Seq(Locations)
    OBVIOUS
  <2>2. PICK status \in {200, 401} :
          Respond("amiloggedin", auth, status, <<>>, <<"send">>)
    BY DEF IsLoggedIn
  <2> QED BY <2>1, <2>2, StepLists DEF Respond, CtxTyped, Operations
<1>4. UNCHANGED <<phase, loaded, users, sessions, file, owner, revoked,
                  acked, chosen>>
  BY DEF IsLoggedIn, history
<1>5. TypeOK'
  BY <1>1, <1>2, <1>3, <1>4 DEF TypeOK, CtxTyped
<1>6. SessionsAreLive'
  BY <1>1, <1>4 DEF SessionsAreLive
<1> QED BY <1>3, <1>5, <1>6 DEF IInv

LEMMA ChangePasswordIInv ==
    ASSUME IInv, NEW auth \in Tokens \cup {Missing},
           NEW old \in Passwords \cup {Missing},
           NEW new \in Passwords \cup {Missing}, ChangePassword(auth, old, new)
    PROVE  IInv'
<1>1. TypeOK /\ SessionsAreLive
  BY DEF IInv
<1>2. /\ isAuthenticated' \in BOOLEAN /\ bearer' \in Tokens \cup {Missing}
      /\ isAuthenticated' => bearer' = auth /\ auth \in DOMAIN sessions
  BY <1>1, AuthenticateLemma DEF ChangePassword
<1>3. UNCHANGED <<phase, loaded, file>>
  BY DEF ChangePassword
<1>4. CASE \E status \in {400, 401} : Refuse("changepassword", auth, status)
  BY <1>2, <1>3, <1>4, RefuseIInv DEF Operations
<1>5. ASSUME isAuthenticated', new \in Passwords,
             StoreSession(bearer',
                          [Session(bearer') EXCEPT !.password = new]),
             users' = WithPassword(Session(bearer').username, new),
             chosen' = chosen \cup {<<Session(bearer').username, new>>},
             Respond("changepassword", auth, 200, <<>>, ChangePasswordSteps),
             UNCHANGED <<owner, revoked, acked>>
      PROVE  IInv'
  <2> DEFINE info == [Session(bearer') EXCEPT !.password = new]
  <2>1. bearer' \in DOMAIN sessions /\ new \in Text
    BY <1>2, <1>5, ChosenTexts
  <2>2. /\ Session(bearer') = sessions[bearer']
        /\ Session(bearer') \in UserInfo(Locations)
    BY <1>1, <2>1, SessionTyped
  <2>3. /\ info \in UserInfo(Locations)
        /\ info.username = sessions[bearer'].username
        /\ Session(bearer').username \in Text
    BY <2>1, <2>2 DEF UserInfo
  <2>4. /\ DOMAIN sessions' = DOMAIN sessions
        /\ sessions' \in [DOMAIN sessions' -> UserInfo(Locations)]
        /\ SessionsAreLive'
    BY <1>5, <2>1, <2>3, StoreLive
  <2>5. users' \in Seq(UserInfo(Locations))
    BY <1>1, <1>5, <2>1, WithPasswordTyped DEF TypeOK
  <2>6. chosen' \subseteq Text \X Text
    BY <1>1, <1>5, <2>1, <2>3 DEF TypeOK
  <2>7. CtxTyped' /\ todo' \in Seq(Steps) /\ ctx'.op = "changepassword"
    <3>1. <<>> \in Seq(Locations)
      OBVIOUS
    <3> QED BY <1>5, <3>1, StepLists DEF Respond, CtxTyped, Operations
  <2>8. TypeOK'
    BY <1>1, <1>2, <1>3, <1>5, <2>4, <2>5, <2>6, <2>7 DEF TypeOK, CtxTyped
  <2> QED BY <2>4, <2>7, <2>8 DEF IInv
<1> QED BY <1>4, <1>5 DEF ChangePassword

(* What subscribe(), unsubscribe() and get_locations() have in common: an  *)
(* answer with success that stores the session with another list.          *)
LEMMA ListIInv ==
    ASSUME IInv, NEW t \in DOMAIN sessions, NEW list \in Seq(Locations),
           StoreSession(t, [sessions[t] EXCEPT !.locations = list]),
           NEW op \in Operations \ {"signup"}, NEW body \in Seq(Locations),
           Respond(op, t, 200, body, <<"send">>),
           isAuthenticated' \in BOOLEAN, bearer' \in Tokens \cup {Missing},
           UNCHANGED <<phase, loaded, file, users, owner, revoked, acked,
                       chosen>>
    PROVE  IInv'
<1> DEFINE info == [sessions[t] EXCEPT !.locations = list]
<1>1. TypeOK /\ SessionsAreLive /\ t \in Tokens
  BY DEF IInv, TypeOK
<1>2. sessions[t] \in UserInfo(Locations)
  BY <1>1 DEF TypeOK
<1>3. info \in UserInfo(Locations) /\ info.username = sessions[t].username
  BY <1>2 DEF UserInfo
<1>4. /\ DOMAIN sessions' = DOMAIN sessions
      /\ sessions' \in [DOMAIN sessions' -> UserInfo(Locations)]
      /\ SessionsAreLive'
  BY <1>3, StoreLive
<1>5. CtxTyped' /\ todo' \in Seq(Steps) /\ ctx'.op # "signup"
  BY <1>1, StepLists DEF Respond, CtxTyped, Operations
<1>6. TypeOK'
  BY <1>1, <1>4, <1>5 DEF TypeOK, CtxTyped
<1> QED BY <1>4, <1>5, <1>6 DEF IInv

LEMMA SubscribeIInv ==
    ASSUME IInv, NEW auth \in Tokens \cup {Missing},
           NEW location \in Locations \cup {Missing}, Subscribe(auth, location)
    PROVE  IInv'
<1>1. TypeOK
  BY DEF IInv
<1>2. /\ isAuthenticated' \in BOOLEAN /\ bearer' \in Tokens \cup {Missing}
      /\ isAuthenticated' => bearer' = auth /\ auth \in DOMAIN sessions
  BY <1>1, AuthenticateLemma DEF Subscribe
<1>3. UNCHANGED <<phase, loaded, file>>
  BY DEF Subscribe
<1>4. CASE \E status \in {400, 401} : Refuse("subscribe", auth, status)
  BY <1>2, <1>3, <1>4, RefuseIInv DEF Operations
<1>5. ASSUME isAuthenticated', location \in Locations,
             StoreSession(bearer', [Session(bearer') EXCEPT
                                       !.locations = Append(@, location)]),
             Respond("subscribe", auth, 200, <<location>>, <<"send">>),
             UNCHANGED <<users, history>>
      PROVE  IInv'
  <2>1. auth \in DOMAIN sessions /\ bearer' = auth
    BY <1>2, <1>5
  <2>2. Session(auth) = sessions[auth] /\ sessions[auth] \in UserInfo(Locations)
    BY <1>1, <2>1, SessionTyped
  <2>3. Append(sessions[auth].locations, location) \in Seq(Locations)
    BY <1>5, <2>2 DEF UserInfo
  <2>4. StoreSession(auth, [sessions[auth] EXCEPT
            !.locations = Append(sessions[auth].locations, location)])
    BY <1>5, <2>1, <2>2
  <2>5. <<location>> \in Seq(Locations)
    BY <1>5
  <2> QED BY <1>2, <1>3, <1>5, <2>1, <2>3, <2>4, <2>5, ListIInv
          DEF Operations, history
<1> QED BY <1>4, <1>5 DEF Subscribe

LEMMA UnsubscribeIInv ==
    ASSUME IInv, NEW auth \in Tokens \cup {Missing},
           NEW location \in Locations \cup {Missing},
           Unsubscribe(auth, location)
    PROVE  IInv'
<1>1. TypeOK
  BY DEF IInv
<1>2. /\ isAuthenticated' \in BOOLEAN /\ bearer' \in Tokens \cup {Missing}
      /\ isAuthenticated' => bearer' = auth /\ auth \in DOMAIN sessions
  BY <1>1, AuthenticateLemma DEF Unsubscribe
<1>3. UNCHANGED <<phase, loaded, file>>
  BY DEF Unsubscribe
<1>4. CASE \E status \in {400, 401} : Refuse("unsubscribe", auth, status)
  BY <1>2, <1>3, <1>4, RefuseIInv DEF Operations
<1>5. ASSUME isAuthenticated', NEW i \in DOMAIN Session(bearer').locations,
             Session(bearer').locations[i] = location,
             StoreSession(bearer', [Session(bearer') EXCEPT
                 !.locations = EraseAt(Session(bearer').locations, i)]),
             Respond("unsubscribe", auth, 200, <<location>>, <<"send">>),
             UNCHANGED <<users, history>>
      PROVE  IInv'
  <2>1. auth \in DOMAIN sessions /\ bearer' = auth
    BY <1>2, <1>5
  <2>2. Session(auth) = sessions[auth] /\ sessions[auth] \in UserInfo(Locations)
    BY <1>1, <2>1, SessionTyped
  <2>3. sessions[auth].locations \in Seq(Locations)
    BY <2>2 DEF UserInfo
  <2>4. EraseAt(sessions[auth].locations, i) \in Seq(Locations)
    BY <1>5, <2>1, <2>2, <2>3, EraseTyped
  <2>5. StoreSession(auth, [sessions[auth] EXCEPT
            !.locations = EraseAt(sessions[auth].locations, i)])
    BY <1>5, <2>1, <2>2
  <2>6. location \in Locations
    BY <1>5, <2>1, <2>2, <2>3
  <2>7. <<location>> \in Seq(Locations)
    BY <2>6
  <2> QED BY <1>2, <1>3, <1>5, <2>1, <2>4, <2>5, <2>7, ListIInv
          DEF Operations, history
<1> QED BY <1>4, <1>5 DEF Unsubscribe

LEMMA GetLocationsIInv ==
    ASSUME IInv, NEW auth \in Tokens \cup {Missing}, GetLocations(auth)
    PROVE  IInv'
<1>1. TypeOK
  BY DEF IInv
<1>2. /\ isAuthenticated' \in BOOLEAN /\ bearer' \in Tokens \cup {Missing}
      /\ isAuthenticated' => bearer' = auth /\ auth \in DOMAIN sessions
  BY <1>1, AuthenticateLemma DEF GetLocations
<1>3. UNCHANGED <<phase, loaded, file>>
  BY DEF GetLocations
<1>4. CASE Refuse("getlocations", auth, 401)
  BY <1>2, <1>3, <1>4, RefuseIInv DEF Operations
<1>5. ASSUME isAuthenticated', StoreSession(bearer', Session(bearer')),
             Respond("getlocations", auth, 200, Session(bearer').locations,
                     <<"send">>),
             UNCHANGED <<users, history>>
      PROVE  IInv'
  <2>1. auth \in DOMAIN sessions /\ bearer' = auth
    BY <1>2, <1>5
  <2>2. Session(auth) = sessions[auth] /\ sessions[auth] \in UserInfo(Locations)
    BY <1>1, <2>1, SessionTyped
  <2>3. sessions[auth].locations \in Seq(Locations)
    BY <2>2 DEF UserInfo
  <2>4. sessions[auth] =
            [sessions[auth] EXCEPT !.locations = sessions[auth].locations]
    BY <2>2 DEF UserInfo
  <2>5. StoreSession(auth,
            [sessions[auth] EXCEPT !.locations = sessions[auth].locations])
    BY <1>5, <2>1, <2>2, <2>4
  <2> QED BY <1>2, <1>3, <1>5, <2>1, <2>2, <2>3, <2>5, ListIInv
          DEF Operations, history
<1> QED BY <1>4, <1>5 DEF GetLocations

-----------------------------------------------------------------------------
(* The other steps of the service.                                         *)

LEMMA ProcessIInv ==
    ASSUME IInv,
           Start \/ LoadLine \/ FinishLoading \/ LoadFails \/ Crash
    PROVE  IInv'
<1>1. TypeOK /\ SessionsAreLive
  BY DEF IInv
<1>2. CASE Start \/ LoadFails
  <2>1. /\ users' = <<>> /\ phase' \in {"loading", "up"} /\ loaded' = 0
        /\ UNCHANGED <<sessions, isAuthenticated, bearer, file, todo, ctx,
                       owner, revoked, acked, chosen>>
    BY <1>2 DEF Start, LoadFails, history
  <2>2. users' \in Seq(UserInfo(Locations))
    BY <2>1
  <2>3. TypeOK'
    BY <1>1, <2>1, <2>2 DEF TypeOK
  <2> QED BY <2>1, <2>3 DEF IInv, SessionsAreLive
<1>3. CASE LoadLine
  <2>1. file[loaded + 1] \in Text
    BY <1>1, <1>3 DEF TypeOK, LoadLine
  <2>2. users' \in Seq(UserInfo(Locations))
    <3>1. CASE IsUserLine(file[loaded + 1])
      <4>1. ParseLine(file[loaded + 1]) \in UserInfo(Locations)
        BY <2>1, <3>1, ParseTyped
      <4> QED BY <1>1, <1>3, <3>1, <4>1 DEF TypeOK, LoadLine
    <3>2. CASE ~IsUserLine(file[loaded + 1])
      BY <1>1, <1>3, <3>2 DEF TypeOK, LoadLine
    <3> QED BY <3>1, <3>2
  <2>3. TypeOK'
    BY <1>1, <1>3, <2>2 DEF TypeOK, LoadLine, history
  <2> QED BY <1>3, <2>3 DEF IInv, SessionsAreLive, LoadLine, history
<1>4. CASE FinishLoading
  <2>1. TypeOK'
    BY <1>1, <1>4 DEF TypeOK, FinishLoading, memory, history
  <2> QED BY <1>4, <2>1
          DEF IInv, SessionsAreLive, FinishLoading, memory, history
<1>5. CASE Crash
  <2>1. users' \in Seq(UserInfo(Locations)) /\ todo' \in Seq(Steps)
    BY <1>5 DEF Crash
  <2>2. ctx' = NoCtx /\ CtxTyped' /\ ctx'.op = "none"
    BY <1>5, NoCtxTyped DEF Crash, CtxTyped, NoCtx
  <2>3. DOMAIN sessions' = {} /\ sessions' \in [{} -> UserInfo(Locations)]
    BY <1>5 DEF Crash, NoSessions
  <2>4. TypeOK'
    BY <1>1, <1>5, <2>1, <2>2, <2>3 DEF TypeOK, Crash, CtxTyped
  <2>5. SessionsAreLive'
    BY <1>5, <2>3 DEF Crash, SessionsAreLive
  <2> QED BY <2>2, <2>4, <2>5 DEF IInv
<1> QED BY <1>2, <1>3, <1>4, <1>5

LEMMA TailTyped ==
    ASSUME NEW S, NEW s \in Seq(S), s # <<>>
    PROVE  Tail(s) \in Seq(S) /\ Len(Tail(s)) = Len(s) - 1
OBVIOUS

(* Steps that change nothing but the file, todo and ctx.                   *)
LEMMA RestIInv ==
    ASSUME IInv, todo' \in Seq(Steps), file' \in Seq(Text),
           ctx' = ctx \/ ctx' = NoCtx,
           UNCHANGED <<phase, loaded, users, sessions, isAuthenticated,
                       bearer, owner, revoked, chosen>>,
           acked' \subseteq Usernames
    PROVE  IInv'
<1>1. CtxTyped'
  BY NoCtxTyped DEF IInv, TypeOK, CtxTyped
<1>2. TypeOK'
  BY <1>1 DEF IInv, TypeOK, CtxTyped
<1>3. SessionsAreLive'
  BY DEF IInv, SessionsAreLive
<1>4. (ctx.op = "signup" /\ ctx.status = 200 => ctx.token \in DOMAIN owner)'
  BY DEF IInv, NoCtx
<1> QED BY <1>2, <1>3, <1>4 DEF IInv

LEMMA RestOfHandlerIInv ==
    ASSUME IInv, \/ Send \/ SendFails \/ OpenFile \/ OpenFails
                 \/ WriteLine \/ WriteFails \/ CloseFile
    PROVE  IInv'
<1> USE DEF memory, history
<1>1. TypeOK /\ todo \in Seq(Steps) /\ file \in Seq(Text)
      /\ acked \subseteq Usernames
  BY DEF IInv, TypeOK
<1>2. CASE Send
  <2>1. todo' \in Seq(Steps) /\ (ctx' = ctx \/ ctx' = NoCtx)
    BY <1>1, <1>2, TailTyped DEF Send, StepDone
  <2>2. acked' \subseteq Usernames
    BY <1>1, <1>2 DEF Send, IInv, TypeOK
  <2> QED BY <1>1, <1>2, <2>1, <2>2, RestIInv DEF Send
<1>3. CASE SendFails
  <2>1. todo' \in Seq(Steps)
    BY <1>3 DEF SendFails
  <2> QED BY <1>1, <1>3, <2>1, RestIInv DEF SendFails
<1>4. CASE OpenFile
  <2>1. Tail(todo) \in Seq(Steps) /\ <<"write">> \in Seq(Steps)
    BY <1>1, <1>4, TailTyped DEF OpenFile, Steps
  <2>2. todo' \in Seq(Steps) /\ file' \in Seq(Text)
    BY <1>4, <2>1 DEF OpenFile
  <2> QED BY <1>1, <1>4, <2>2, RestIInv DEF OpenFile
<1>5. CASE OpenFails \/ WriteFails \/ CloseFile
  <2>1. todo # <<>> /\ StepDone /\ UNCHANGED <<phase, loaded, memory, file, history>>
    BY <1>5 DEF OpenFails, WriteFails, CloseFile, Writing
  <2>2. todo' \in Seq(Steps) /\ (ctx' = ctx \/ ctx' = NoCtx)
    BY <1>1, <2>1, TailTyped DEF StepDone
  <2> QED BY <1>1, <2>1, <2>2, RestIInv
<1>6. CASE WriteLine
  <2>1. users[Len(file) + 1] \in UserInfo(Locations)
    BY <1>1, <1>6 DEF WriteLine, TypeOK
  <2>2. file' \in Seq(Text)
    BY <1>1, <1>6, <2>1, LineTyped DEF WriteLine
  <2> QED BY <1>1, <1>6, <2>2, RestIInv DEF WriteLine
<1> QED BY <1>2, <1>3, <1>4, <1>5, <1>6

-----------------------------------------------------------------------------
(* The theorems of the first invariant.                                    *)

LEMMA StutterIInv == ASSUME IInv, UNCHANGED vars PROVE IInv'
BY DEF IInv, TypeOK, SessionsAreLive, vars, memory, history

LEMMA NextIInv == ASSUME IInv, [Next]_vars PROVE IInv'
<1>1. CASE Handle
  BY <1>1, SignUpIInv, LogInIInv, LogOutIInv, IsLoggedInIInv,
     ChangePasswordIInv, SubscribeIInv, UnsubscribeIInv, GetLocationsIInv
     DEF Handle
<1> QED BY <1>1, ProcessIInv, RestOfHandlerIInv, StutterIInv DEF Next

(* The inductive invariant holds in every reachable state.                 *)
THEOREM Inductive == Spec => []IInv
<1>1. IInv /\ [Next]_vars => IInv'
  BY NextIInv
<1> QED BY <1>1, InitIInv, PTL DEF Spec

(* The variables of the service and its history keep their types.          *)
THEOREM TypeCorrect == Spec => []TypeOK
<1>1. IInv => TypeOK
  BY DEF IInv
<1> QED BY <1>1, Inductive, PTL

(* The sessions are exactly the tokens issued and not revoked, each with   *)
(* the name of the user it was issued to: no handler brings a session back *)
(* or leaves one behind.                                                   *)
THEOREM SessionsLive == Spec => []SessionsAreLive
<1>1. IInv => SessionsAreLive
  BY DEF IInv
<1> QED BY <1>1, Inductive, PTL

-----------------------------------------------------------------------------
(* A request touches only the session of its own token.                    *)

LEMMA StoreTouches ==
    ASSUME NEW t, NEW info, StoreSession(t, info), NEW x, x # t
    PROVE  Untouched(x)
BY DEF StoreSession, Untouched

LEMMA SameSessions ==
    ASSUME UNCHANGED sessions, NEW x PROVE Untouched(x)
BY DEF Untouched

LEMMA NewSessionTouches ==
    ASSUME NEW u, NEW p, SignUp(u, p) \/ LogIn(u, p), NEW x
    PROVE  Untouched(x) \/ ctx'.token = x
<1>1. CASE UNCHANGED sessions
  BY <1>1, SameSessions
<1>2. CASE \E token \in Tokens : /\ StoreSession(token, NewUserInfo(u, p))
                                 /\ ctx'.token = token
  BY <1>2, StoreTouches
<1> QED BY <1>1, <1>2 DEF SignUp, LogIn, Refuse, Respond

LEMMA AuthenticatedTouches ==
    ASSUME IInv, NEW auth \in Tokens \cup {Missing}, NEW x,
           \/ LogOut(auth) \/ IsLoggedIn(auth) \/ GetLocations(auth)
           \/ \E old, new \in Passwords \cup {Missing} :
                 ChangePassword(auth, old, new)
           \/ \E location \in Locations \cup {Missing} :
                 Subscribe(auth, location) \/ Unsubscribe(auth, location)
    PROVE  Untouched(x) \/ ctx'.token = x
<1>1. Authenticate(auth)
  BY DEF LogOut, IsLoggedIn, GetLocations, ChangePassword, Subscribe,
         Unsubscribe
<1>2. isAuthenticated' => bearer' = auth
  BY <1>1, AuthenticateLemma DEF IInv
<1>3. ctx'.token = auth
  <2>1. CASE LogOut(auth) \/ IsLoggedIn(auth) \/ GetLocations(auth)
    BY <2>1 DEF LogOut, IsLoggedIn, GetLocations, Refuse, Respond
  <2>2. ASSUME NEW old, NEW new, ChangePassword(auth, old, new)
        PROVE  ctx'.token = auth
    BY <2>2 DEF ChangePassword, Refuse, Respond
  <2>3. ASSUME NEW location, Subscribe(auth, location)
        PROVE  ctx'.token = auth
    BY <2>3 DEF Subscribe, Refuse, Respond
  <2>4. ASSUME NEW location, Unsubscribe(auth, location)
        PROVE  ctx'.token = auth
    <3>1. \/ \E status : Refuse("unsubscribe", auth, status)
          \/ Respond("unsubscribe", auth, 200, <<location>>, <<"send">>)
      BY <2>4 DEF Unsubscribe
    <3> QED BY <3>1 DEF Refuse, Respond
  <2> QED BY <2>1, <2>2, <2>3, <2>4
<1>4. CASE UNCHANGED sessions
  BY <1>4, SameSessions
<1>5. CASE isAuthenticated' /\ \E info : StoreSession(bearer', info)
  BY <1>2, <1>3, <1>5, StoreTouches
<1>6. CASE sessions' = [t \in DOMAIN sessions \ {auth} |-> sessions[t]]
  BY <1>3, <1>6 DEF Untouched
<1> QED BY <1>4, <1>5, <1>6 DEF LogOut, IsLoggedIn, GetLocations,
           ChangePassword, Subscribe, Unsubscribe, Refuse

(* Every step of the program leaves each session alone, unless the request *)
(* being handled carries that session's token or the process stops.        *)
THEOREM OwnSessionOnly == Spec => OnlyOwnSessionTouched
<1>1. ASSUME IInv, [Next]_vars, NEW t \in Tokens
      PROVE  Untouched(t) \/ ctx'.token = t \/ phase' = "down"
  <2>1. CASE Handle
    BY <1>1, <2>1, NewSessionTouches, AuthenticatedTouches DEF Handle
  <2>2. CASE Crash
    BY <2>2 DEF Crash
  <2>3. CASE UNCHANGED sessions
    BY <2>3, SameSessions
  <2> QED BY <1>1, <2>1, <2>2, <2>3 DEF Next, Start, LoadLine, FinishLoading,
            LoadFails, Send, SendFails, OpenFile, OpenFails, WriteLine,
            WriteFails, CloseFile, memory, vars
<1>2. IInv /\ [Next]_vars =>
        [\A t \in Tokens : Untouched(t) \/ ctx'.token = t \/ phase' = "down"]_vars
  BY <1>1
<1> QED BY <1>2, Inductive, PTL DEF Spec, OnlyOwnSessionTouched

-----------------------------------------------------------------------------
(* Only the owner of a live session changes a user's password.             *)

LEMMA AppendKeeps ==
    ASSUME NEW s \in Seq(UserInfo(Locations)), NEW x,
           NEW i \in DOMAIN s \cap DOMAIN Append(s, x)
    PROVE  Append(s, x)[i] = s[i]
OBVIOUS

LEMMA WithPasswordChanges ==
    ASSUME NEW u, NEW new, NEW i \in DOMAIN users, users[i].username # u
    PROVE  WithPassword(u, new)[i].password = users[i].password
BY DEF WithPassword

(* Every step that changes the password of a registered user handles a     *)
(* change_password() request that carries a live session of that user.     *)
THEOREM OwnPasswordOnly == Spec => OnlyOwnerChangesPassword
<1>1. ASSUME IInv, [Next]_vars, NEW i \in DOMAIN users \cap DOMAIN users',
             users'[i].password # users[i].password
      PROVE  /\ ctx'.op = "changepassword" /\ ctx'.token \in DOMAIN sessions
             /\ owner[ctx'.token] = users[i].username
  <2>1. TypeOK /\ SessionsAreLive /\ users \in Seq(UserInfo(Locations))
    BY <1>1 DEF IInv, TypeOK
  <2>2. users' # users
    BY <1>1
  <2>3. users' # <<>>
    BY <1>1
  <2>4. \A x : users' # Append(users, x)
    BY <1>1, <2>1, AppendKeeps
  <2>5. PICK auth \in Tokens \cup {Missing},
             old \in Passwords \cup {Missing},
             new \in Passwords \cup {Missing} : ChangePassword(auth, old, new)
    <3>1. ~(Start \/ LoadLine \/ FinishLoading \/ LoadFails \/ Crash)
      BY <2>2, <2>3, <2>4 DEF Start, LoadLine, FinishLoading, LoadFails, Crash,
                              memory
    <3>2. ~(\/ Send \/ SendFails \/ OpenFile \/ OpenFails
            \/ WriteLine \/ WriteFails \/ CloseFile)
      BY <2>2 DEF Send, SendFails, OpenFile, OpenFails, WriteLine, WriteFails,
                  CloseFile, memory
    <3>3. \A u, p : ~(SignUp(u, p) \/ LogIn(u, p))
      BY <2>2, <2>4 DEF SignUp, LogIn, Refuse
    <3>4. \A auth : ~(LogOut(auth) \/ IsLoggedIn(auth) \/ GetLocations(auth))
      BY <2>2 DEF LogOut, IsLoggedIn, GetLocations, Refuse
    <3>5. \A auth, location :
            ~(Subscribe(auth, location) \/ Unsubscribe(auth, location))
      BY <2>2 DEF Subscribe, Unsubscribe, Refuse
    <3> QED BY <1>1, <2>2, <3>1, <3>2, <3>3, <3>4, <3>5
            DEF Next, Handle, vars, memory
  <2>6. /\ isAuthenticated'
        /\ users' = WithPassword(Session(bearer').username, new)
        /\ ctx'.op = "changepassword" /\ ctx'.token = auth
    BY <2>2, <2>5 DEF ChangePassword, Refuse, Respond
  <2>7. bearer' = auth /\ auth \in DOMAIN sessions
    BY <2>1, <2>5, <2>6, AuthenticateLemma DEF ChangePassword
  <2>8. Session(auth).username = owner[auth]
    BY <2>1, <2>7 DEF Session, SessionsAreLive
  <2>9. users[i].username = Session(auth).username
    BY <1>1, <2>6, <2>7, WithPasswordChanges
  <2> QED BY <2>6, <2>7, <2>8, <2>9
<1>2. IInv /\ [Next]_vars =>
        [\A i \in DOMAIN users \cap DOMAIN users' :
            users'[i].password # users[i].password =>
               /\ ctx'.op = "changepassword" /\ ctx'.token \in DOMAIN sessions
               /\ owner[ctx'.token] = users[i].username]_vars
  BY <1>1
<1> QED BY <1>2, Inductive, PTL DEF Spec, OnlyOwnerChangesPassword
=============================================================================
