---------------------- MODULE AccountsRefinementProofs ----------------------
(***************************************************************************)
(* WeatherService implements Accounts, for names and passwords without a   *)
(* comma: every step of the service, its failures and its stops included,  *)
(* is a step of the contract or changes nothing that the contract speaks   *)
(* of.                                                                     *)
(***************************************************************************)
EXTENDS AccountsRefinement, UsersFileProofs

-----------------------------------------------------------------------------
(* What is left of a request: a response that is being handled has steps   *)
(* to do, only a request that changed the accounts saves them, and a       *)
(* process that is not up has neither requests nor sessions.               *)

StepsHaveRequest == todo = <<>> <=> ctx = NoCtx

OnlyChangesSave ==
    \A i \in DOMAIN todo : todo[i] \in {"save", "write"} =>
        ctx.op \in {"signup", "changepassword"} /\ ctx.status = 200

EmptyWhenDown == phase # "up" => sessions = NoSessions /\ todo = <<>>

RInv == StepsHaveRequest /\ OnlyChangesSave /\ EmptyWhenDown

LEMMA InitRInv == Init => RInv
BY DEF Init, RInv, StepsHaveRequest, OnlyChangesSave, EmptyWhenDown

-----------------------------------------------------------------------------
(* Lists of users as functions from names to passwords.                    *)

UniquelyNamed(infos) ==
    \A i, j \in infos : i.username = j.username => i = j

LEMMA AccountOf ==
    ASSUME NEW infos, UniquelyNamed(infos), NEW info \in infos
    PROVE  /\ info.username \in DOMAIN AccountsIn(infos)
           /\ AccountsIn(infos)[info.username] = info.password
<1>1. (CHOOSE i \in infos : i.username = info.username) = info
  BY DEF UniquelyNamed
<1> QED BY <1>1 DEF AccountsIn

LEMMA AccountFrom ==
    ASSUME NEW infos, UniquelyNamed(infos), NEW u \in DOMAIN AccountsIn(infos)
    PROVE  \E info \in infos : /\ info.username = u
                               /\ info.password = AccountsIn(infos)[u]
<1>1. \E info \in infos : info.username = u
  BY DEF AccountsIn
<1> QED BY <1>1, AccountOf

(* A function is the accounts of a list if it has its names and passwords. *)
LEMMA AccountsAre ==
    ASSUME NEW infos, UniquelyNamed(infos), NEW D, NEW f, f = [u \in D |-> f[u]],
           \A info \in infos : info.username \in D,
           \A u \in D : \E info \in infos :
               info.username = u /\ info.password = f[u]
    PROVE  AccountsIn(infos) = f
<1>1. DOMAIN AccountsIn(infos) = D
  <2>1. DOMAIN AccountsIn(infos) = {info.username : info \in infos}
    BY DEF AccountsIn
  <2> QED BY <2>1
<1>2. ASSUME NEW u \in D PROVE AccountsIn(infos)[u] = f[u]
  BY AccountOf
<1>3. AccountsIn(infos) =
        [u \in DOMAIN AccountsIn(infos) |-> AccountsIn(infos)[u]]
  BY DEF AccountsIn
<1> QED BY <1>1, <1>2, <1>3

LEMMA ListUnique ==
    ASSUME NEW s, \A i, j \in DOMAIN s : s[i].username = s[j].username => i = j
    PROVE  UniquelyNamed(Range(s))
BY DEF UniquelyNamed, Range

-----------------------------------------------------------------------------
(* The handlers.  Between two requests the accounts are the list in        *)
(* memory; a handler leaves the file to later steps.                       *)

LEMMA InMemory == phase = "up" => Registered = AccountsIn(Range(users))
BY DEF Registered

LEMMA InFile == ~Writing => OnDisk = AccountsIn(FileInfos)
BY DEF OnDisk

LEMMA HandlerFrame ==
    ASSUME IInv, RInv, Idle, UNCHANGED <<phase, file>>,
           todo' \in {<<"send">>, SignUpSteps, ChangePasswordSteps}
    PROVE  /\ Contract!Ready
           /\ UNCHANGED <<phase = "up", OnDisk, Writing>>
           /\ Registered = AccountsIn(Range(users))
           /\ Registered' = AccountsIn(Range(users'))
<1>1. ~Writing /\ ~Writing' /\ phase' = "up" /\ phase = "up" /\ ctx = NoCtx
  BY RespondSteps DEF IInv, Idle, Writing, RInv, StepsHaveRequest
<1>2. Contract!Ready
  BY <1>1 DEF Contract!Ready, Contract!NoReply, NoCtx
<1>3. OnDisk' = OnDisk
  BY <1>1 DEF OnDisk, FileInfos
<1>4. Writing' = Writing
  BY <1>1 DEF Writing
<1>5. /\ Registered = AccountsIn(Range(users))
      /\ Registered' = AccountsIn(Range(users'))
  BY <1>1 DEF Registered
<1> QED BY <1>1, <1>2, <1>3, <1>4, <1>5

LEMMA RefuseContract ==
    ASSUME IInv, RInv, Idle, UNCHANGED <<phase, file>>,
           NEW op, NEW token, NEW status, Refuse(op, token, status)
    PROVE  /\ Contract!Refuse(op, token, status)
           /\ Contract!Ready /\ UNCHANGED <<phase = "up", OnDisk, Writing>>
<1>1. /\ todo' = <<"send">> /\ UNCHANGED <<users, sessions, owner>>
      /\ ctx' = [op |-> op, token |-> token, status |-> status, body |-> <<>>]
  BY DEF Refuse, Respond, history
<1>2. /\ Contract!Ready /\ UNCHANGED <<phase = "up", OnDisk, Writing>>
      /\ Registered' = Registered
  BY <1>1, HandlerFrame
<1> QED BY <1>1, <1>2 DEF Contract!Refuse, Contract!Answer

LEMMA AcceptContract ==
    ASSUME IInv, RInv, Idle, UNCHANGED <<phase, file, users>>,
           NEW op, NEW token, NEW body,
           Respond(op, token, 200, body, <<"send">>)
    PROVE  /\ Contract!Answer(op, token, 200, body)
           /\ Contract!Ready /\ UNCHANGED <<phase = "up", OnDisk, Writing>>
           /\ Registered' = Registered
<1>1. /\ Contract!Ready /\ UNCHANGED <<phase = "up", OnDisk, Writing>>
      /\ Registered' = Registered
  BY HandlerFrame DEF Respond
<1> QED BY <1>1 DEF Respond, Contract!Answer

(* authenticate() finds the session the contract speaks of.                *)
LEMMA SameSession ==
    ASSUME IInv, NEW auth \in Tokens \cup {Missing}, Authenticate(auth)
    PROVE  /\ ~isAuthenticated' => auth \notin DOMAIN sessions
           /\ isAuthenticated' => /\ auth \in DOMAIN sessions
                                  /\ bearer' = auth
                                  /\ Session(bearer') = sessions[auth]
                                  /\ sessions[auth] \in UserInfo(Locations)
<1>1. isAuthenticated' = (auth \in DOMAIN sessions)
  BY Zenon DEF Authenticate
<1>2. isAuthenticated' => bearer' = auth /\ auth \in DOMAIN sessions
  BY AuthenticateLemma DEF IInv
<1>3. isAuthenticated' => /\ Session(auth) = sessions[auth]
                          /\ sessions[auth] \in UserInfo(Locations)
  BY <1>2, SessionTyped DEF IInv
<1> QED BY <1>1, <1>2, <1>3

LEMMA StoreIsExcept ==
    ASSUME IInv, NEW t \in DOMAIN sessions, NEW info, StoreSession(t, info)
    PROVE  sessions' = [sessions EXCEPT ![t] = info]
<1>1. sessions = [x \in DOMAIN sessions |-> sessions[x]]
  BY DEF IInv, TypeOK
<1>2. DOMAIN sessions \cup {t} = DOMAIN sessions
  OBVIOUS
<1>3. sessions' = [x \in DOMAIN sessions |->
                      IF x = t THEN info ELSE sessions[x]]
  BY <1>2 DEF StoreSession
<1> QED BY <1>1, <1>3

LEMMA LogOutContract ==
    ASSUME IInv, RInv, NEW auth \in Tokens \cup {Missing}, LogOut(auth)
    PROVE  Contract!LogOut(auth)
<1> USE DEF Contract!LogOut, Contract!WithSession
<1>1. Idle /\ Authenticate(auth) /\ UNCHANGED <<phase, file>>
  BY DEF LogOut
<1>2. CASE ~isAuthenticated' /\ Refuse("logout", auth, 401)
  BY <1>1, <1>2, SameSession, RefuseContract
<1>3. CASE /\ isAuthenticated'
           /\ sessions' = [t \in DOMAIN sessions \ {auth} |-> sessions[t]]
           /\ Respond("logout", auth, 200, <<>>, <<"send">>)
           /\ UNCHANGED <<users, owner>>
  <2>1. sessions' = Contract!Restrict(sessions, DOMAIN sessions \ {auth})
    BY <1>3 DEF Contract!Restrict
  <2> QED BY <1>1, <1>3, <2>1, SameSession, AcceptContract
<1> QED BY <1>2, <1>3 DEF LogOut

LEMMA IsLoggedInContract ==
    ASSUME IInv, RInv, NEW auth \in Tokens \cup {Missing}, IsLoggedIn(auth)
    PROVE  Contract!IsLoggedIn(auth)
<1> USE DEF Contract!IsLoggedIn, Contract!WithSession
<1>1. /\ Idle /\ Authenticate(auth)
      /\ UNCHANGED <<phase, file, users, sessions, owner>>
  BY DEF IsLoggedIn, history
<1>2. CASE ~isAuthenticated'
  <2>1. Refuse("amiloggedin", auth, 401)
    BY <1>2 DEF IsLoggedIn, Refuse
  <2> QED BY <1>1, <1>2, <2>1, SameSession, RefuseContract
<1>3. CASE isAuthenticated'
  <2>1. Respond("amiloggedin", auth, 200, <<>>, <<"send">>)
    BY <1>3 DEF IsLoggedIn
  <2> QED BY <1>1, <1>3, <2>1, SameSession, AcceptContract
<1> QED BY <1>2, <1>3

LEMMA GetLocationsContract ==
    ASSUME IInv, RInv, NEW auth \in Tokens \cup {Missing}, GetLocations(auth)
    PROVE  Contract!GetLocations(auth)
<1> USE DEF Contract!GetLocations, Contract!WithSession
<1>1. Idle /\ Authenticate(auth) /\ UNCHANGED <<phase, file>>
  BY DEF GetLocations
<1>2. CASE ~isAuthenticated' /\ Refuse("getlocations", auth, 401)
  BY <1>1, <1>2, SameSession, RefuseContract
<1>3. CASE /\ isAuthenticated'
           /\ StoreSession(bearer', Session(bearer'))
           /\ Respond("getlocations", auth, 200, Session(bearer').locations,
                      <<"send">>)
           /\ UNCHANGED <<users, owner>>
  <2>1. auth \in DOMAIN sessions /\ bearer' = auth
        /\ Session(bearer') = sessions[auth]
    BY <1>1, <1>3, SameSession
  <2>2. sessions' = [sessions EXCEPT ![auth] = sessions[auth]]
    BY <1>3, <2>1, StoreIsExcept
  <2>3. sessions' = sessions
    BY <2>2 DEF IInv, TypeOK
  <2> QED BY <1>1, <1>3, <2>1, <2>3, AcceptContract
<1> QED BY <1>2, <1>3 DEF GetLocations, history

LEMMA SubscribeContract ==
    ASSUME IInv, RInv, NEW auth \in Tokens \cup {Missing}, NEW location,
           Subscribe(auth, location)
    PROVE  Contract!Subscribe(auth, location)
<1> USE DEF Contract!Subscribe, Contract!WithSession
<1>1. Idle /\ Authenticate(auth) /\ UNCHANGED <<phase, file>>
  BY DEF Subscribe
<1>2. CASE ~isAuthenticated' /\ Refuse("subscribe", auth, 401)
  BY <1>1, <1>2, SameSession, RefuseContract
<1>3. CASE isAuthenticated' /\ location = Missing
           /\ Refuse("subscribe", auth, 400)
  BY <1>1, <1>3, SameSession, RefuseContract
<1>4. CASE /\ isAuthenticated' /\ location # Missing
           /\ Len(Session(bearer').locations) < MaxLocations
           /\ StoreSession(bearer', [Session(bearer') EXCEPT
                                        !.locations = Append(@, location)])
           /\ Respond("subscribe", auth, 200, <<location>>, <<"send">>)
           /\ UNCHANGED <<users, owner>>
  <2>1. auth \in DOMAIN sessions /\ bearer' = auth
        /\ Session(bearer') = sessions[auth]
    BY <1>1, <1>4, SameSession
  <2>2. sessions' = [sessions EXCEPT ![auth] =
                        [sessions[auth] EXCEPT !.locations =
                            Append(@, location)]]
    BY <1>4, <2>1, StoreIsExcept
  <2>3. sessions' = [sessions EXCEPT ![auth].locations = Append(@, location)]
    BY <2>2
  <2> QED BY <1>1, <1>4, <2>1, <2>3, AcceptContract
<1> QED BY <1>2, <1>3, <1>4 DEF Subscribe, history

LEMMA UnsubscribeContract ==
    ASSUME IInv, RInv, NEW auth \in Tokens \cup {Missing}, NEW location,
           Unsubscribe(auth, location)
    PROVE  Contract!Unsubscribe(auth, location)
<1> USE DEF Contract!Unsubscribe, Contract!WithSession
<1>1. Idle /\ Authenticate(auth) /\ UNCHANGED <<phase, file>>
  BY DEF Unsubscribe
<1>2. CASE ~isAuthenticated' /\ Refuse("unsubscribe", auth, 401)
  BY <1>1, <1>2, SameSession, RefuseContract
<1>3. CASE isAuthenticated' /\ Refuse("unsubscribe", auth, 400)
           /\ \A i \in DOMAIN Session(bearer').locations :
                 Session(bearer').locations[i] # location
  <2>1. location \notin Contract!Range(sessions[auth].locations)
    BY <1>1, <1>3, SameSession DEF Contract!Range
  <2> QED BY <1>1, <1>3, <2>1, SameSession, RefuseContract
<1>4. ASSUME isAuthenticated', NEW i \in DOMAIN Session(bearer').locations,
             Session(bearer').locations[i] = location,
             \A j \in 1..(i - 1) : Session(bearer').locations[j] # location,
             StoreSession(bearer', [Session(bearer') EXCEPT !.locations =
                 EraseAt(Session(bearer').locations, i)]),
             Respond("unsubscribe", auth, 200, <<location>>, <<"send">>),
             UNCHANGED <<users, owner>>
      PROVE  Contract!Unsubscribe(auth, location)
  <2>1. auth \in DOMAIN sessions /\ bearer' = auth
        /\ Session(bearer') = sessions[auth]
    BY <1>1, <1>4, SameSession
  <2>2. sessions' = [sessions EXCEPT ![auth] =
                        [sessions[auth] EXCEPT !.locations =
                            EraseAt(sessions[auth].locations, i)]]
    BY <1>4, <2>1, StoreIsExcept
  <2>3. sessions' = [sessions EXCEPT ![auth].locations =
                        SubSeq(@, 1, i - 1) \o SubSeq(@, i + 1, Len(@))]
    BY <2>2 DEF EraseAt
  <2>4. /\ i \in DOMAIN sessions[auth].locations
        /\ sessions[auth].locations[i] = location
        /\ \A j \in 1..(i - 1) : sessions[auth].locations[j] # location
    BY <1>4, <2>1
  <2> QED BY <1>1, <1>4, <2>1, <2>3, <2>4, AcceptContract
<1> QED BY <1>2, <1>3, <1>4 DEF Unsubscribe, history

-----------------------------------------------------------------------------
(* The handlers that work on the accounts.                                 *)

(* The accounts know a name and its password exactly if the list does.     *)
LEMMA AccountsKnow ==
    ASSUME IInv, FInv, NEW u, NEW p
    PROVE  /\ u \in DOMAIN AccountsIn(Range(users)) <=> UsernameTaken(u)
           /\ u \in DOMAIN AccountsIn(Range(users))
                 /\ AccountsIn(Range(users))[u] = p <=> CredentialsMatch(u, p)
<1>1. u \in DOMAIN AccountsIn(Range(users)) <=> UsernameTaken(u)
  <2>1. u \in DOMAIN AccountsIn(Range(users))
          <=> \E info \in Range(users) : info.username = u
    BY DEF AccountsIn
  <2> QED BY <2>1 DEF UsernameTaken, Range
<1>2. \A i \in DOMAIN users : users[i].username = u =>
        AccountsIn(Range(users))[u] = users[i].password
  <2>1. UniquelyNamed(Range(users))
    BY ListUnique DEF FInv, UniqueUsernames
  <2>2. \A i \in DOMAIN users : users[i] \in Range(users)
    BY DEF Range
  <2> QED BY <2>1, <2>2, AccountOf
<1> QED BY <1>1, <1>2 DEF UsernameTaken, CredentialsMatch

LEMMA SameRecord ==
    ASSUME NEW u, NEW p PROVE Contract!NewSession(u, p) = NewUserInfo(u, p)
<1> DEFINE Fields == {"username", "password", "locations"}
<1>1. Contract!NewSession(u, p) =
        [x \in Fields |-> IF x = "username" THEN u
                          ELSE IF x = "password" THEN p ELSE <<>>]
  BY DEF Contract!NewSession
<1>2. DefaultUserInfo =
        [x \in Fields |-> IF x = "username" THEN <<Empty>>
                          ELSE IF x = "password" THEN <<Empty>> ELSE <<>>]
  BY DEF DefaultUserInfo
<1> QED BY <1>1, <1>2 DEF NewUserInfo

LEMMA NewTokenContract ==
    ASSUME IInv, NEW token \in Tokens, NEW u, NEW p, NEW op,
           generate_token(token, u), StoreSession(token, NewUserInfo(u, p)),
           ctx' = [op |-> op, token |-> token, status |-> 200, body |-> <<>>]
    PROVE  Contract!OpenSession(op, u, p)
<1>1. token \in Tokens \ DOMAIN owner
      /\ DOMAIN owner' = DOMAIN owner \cup {token}
  BY DEF generate_token
<1>2. sessions' = Contract!Update(sessions, token, Contract!NewSession(u, p))
  BY SameRecord DEF StoreSession, Contract!Update
<1> QED BY <1>1, <1>2 DEF Contract!OpenSession, Contract!Answer

LEMMA LogInContract ==
    ASSUME IInv, FInv, RInv, NEW u, NEW p, LogIn(u, p)
    PROVE  Contract!LogIn(u, p)
<1> USE DEF Contract!LogIn
<1>1. Idle /\ UNCHANGED <<phase, file>>
  BY DEF LogIn
<1>2. Registered = AccountsIn(Range(users))
  BY <1>1, InMemory DEF Idle
<1>3. Contract!Matches(u, p) <=> CredentialsMatch(u, p)
  BY <1>2, AccountsKnow DEF Contract!Matches
<1>4. CASE /\ Missing \in {u, p} \/ ~CredentialsMatch(u, p)
           /\ Refuse("login", Missing, 400)
  BY <1>1, <1>3, <1>4, RefuseContract
<1>5. ASSUME Missing \notin {u, p}, CredentialsMatch(u, p),
             NEW token \in Tokens, generate_token(token, u),
             StoreSession(token, NewUserInfo(u, p)),
             Respond("login", token, 200, <<>>, <<"send">>),
             UNCHANGED users
      PROVE  Contract!LogIn(u, p)
  <2>1. Contract!OpenSession("login", u, p)
    BY <1>5, NewTokenContract DEF Respond
  <2> QED BY <1>1, <1>3, <1>5, <2>1, AcceptContract
<1> QED BY <1>4, <1>5 DEF LogIn

LEMMA SignUpContract ==
    ASSUME IInv, FInv, RInv, NEW u \in Usernames \cup {Missing},
           NEW p \in Passwords \cup {Missing}, SignUp(u, p)
    PROVE  Contract!SignUp(u, p)
<1> USE DEF Contract!SignUp
<1>1. Idle /\ UNCHANGED <<phase, file>>
  BY DEF SignUp
<1>2. Registered = AccountsIn(Range(users))
  BY <1>1, InMemory DEF Idle
<1>3. u \in DOMAIN Registered <=> UsernameTaken(u)
  BY <1>2, AccountsKnow
<1>4. CASE /\ Missing \in {u, p} \/ UsernameTaken(u)
           /\ Refuse("signup", Missing, 400)
  BY <1>1, <1>3, <1>4, RefuseContract
<1>5. ASSUME Missing \notin {u, p}, ~UsernameTaken(u),
             NEW token \in Tokens, generate_token(token, u),
             StoreSession(token, NewUserInfo(u, p)),
             Respond("signup", token, 200, <<>>, SignUpSteps),
             users' = Append(users, NewUserInfo(u, p))
      PROVE  Contract!SignUp(u, p)
  <2>1. Contract!OpenSession("signup", u, p)
    BY <1>5, NewTokenContract DEF Respond
  <2>2. /\ Contract!Ready
        /\ UNCHANGED <<phase = "up", OnDisk, Writing>>
        /\ Registered' = AccountsIn(Range(users'))
    BY <1>1, <1>5, HandlerFrame DEF Respond
  <2>3. /\ users \in Seq(UserInfo(Locations)) /\ FInv'
        /\ u \in Usernames /\ p \in Passwords
    BY <1>5, SignUpFInv DEF IInv, TypeOK
  <2>4. Range(users') = Range(users) \cup {NewUserInfo(u, p)}
    BY <1>5, <2>3 DEF Range
  <2>5. Registered' = Contract!Update(Registered, u, p)
    <3> DEFINE D == DOMAIN Registered \cup {u}
               f == [x \in D |-> IF x = u THEN p ELSE Registered[x]]
    <3>1. UniquelyNamed(Range(users)) /\ UniquelyNamed(Range(users'))
      BY <2>3, ListUnique DEF FInv, UniqueUsernames
    <3>2. NewUserInfo(u, p).username = u /\ NewUserInfo(u, p).password = p
      BY NewUserFields
    <3>3. \A info \in Range(users') : info.username \in D
      BY <1>2, <2>4, <3>1, <3>2, AccountOf
    <3>4. ASSUME NEW x \in D
          PROVE  \E info \in Range(users') :
                    info.username = x /\ info.password = f[x]
      <4>1. CASE x = u
        BY <2>4, <3>2, <4>1
      <4>2. CASE x # u
        BY <1>2, <2>4, <3>1, <4>2, AccountFrom
      <4> QED BY <4>1, <4>2
    <3>5. f = [x \in D |-> f[x]]
      OBVIOUS
    <3>6. AccountsIn(Range(users')) = f
      <4> HIDE DEF D, f
      <4> QED BY <3>1, <3>3, <3>4, <3>5, AccountsAre
    <3> QED BY <2>2, <3>6 DEF Contract!Update
  <2> QED BY <1>3, <1>5, <2>1, <2>2, <2>5
<1> QED BY <1>4, <1>5 DEF SignUp

(* The list with a new password is the accounts with a new password.       *)
LEMMA NewPasswordAccounts ==
    ASSUME IInv, FInv, FInv', NEW name, NEW new,
           users' = WithPassword(name, new)
    PROVE  AccountsIn(Range(users'))
             = [AccountsIn(Range(users)) EXCEPT ![name] = new]
<1> DEFINE A == AccountsIn(Range(users))
           D == DOMAIN A
           f == [x \in D |-> IF x = name THEN new ELSE A[x]]
<1>1. UniquelyNamed(Range(users)) /\ UniquelyNamed(Range(users'))
  BY ListUnique DEF FInv, UniqueUsernames
<1>2. users \in Seq(UserInfo(Locations))
  BY DEF IInv, TypeOK
<1>3. /\ DOMAIN users' = DOMAIN users
      /\ \A i \in DOMAIN users :
            /\ users'[i].username = users[i].username
            /\ users'[i].password = IF users[i].username = name THEN new
                                    ELSE users[i].password
  <2>1. \A i \in DOMAIN users : users[i] \in UserInfo(Locations)
    BY <1>2
  <2> QED BY <2>1 DEF WithPassword, UserInfo
<1>4. \A info \in Range(users') : info.username \in D
  BY <1>1, <1>3, AccountOf DEF Range
<1>5. ASSUME NEW x \in D
      PROVE  \E info \in Range(users') :
                info.username = x /\ info.password = f[x]
  <2>1. PICK i \in DOMAIN users : users[i].username = x
                                  /\ users[i].password = A[x]
    <3>1. PICK info \in Range(users) : info.username = x
                                       /\ info.password = A[x]
      BY <1>1, AccountFrom
    <3> QED BY <3>1 DEF Range
  <2>2. users'[i] \in Range(users')
    BY <1>3 DEF Range
  <2> QED BY <1>3, <2>1, <2>2
<1>6. f = [x \in D |-> f[x]]
  OBVIOUS
<1>7. AccountsIn(Range(users')) = f
  <2> HIDE DEF D, f
  <2> QED BY <1>1, <1>4, <1>5, <1>6, AccountsAre
<1>8. f = [A EXCEPT ![name] = new]
  <2>1. A = [x \in D |-> A[x]]
    BY DEF AccountsIn
  <2> HIDE DEF A
  <2> QED BY <2>1
<1> QED BY <1>7, <1>8

LEMMA ChangePasswordContract ==
    ASSUME IInv, FInv, RInv, NEW auth \in Tokens \cup {Missing},
           NEW old \in Passwords \cup {Missing},
           NEW new \in Passwords \cup {Missing}, ChangePassword(auth, old, new)
    PROVE  Contract!ChangePassword(auth, old, new)
<1> USE DEF Contract!ChangePassword, Contract!WithSession
<1>1. Idle /\ Authenticate(auth) /\ UNCHANGED <<phase, file>>
  BY DEF ChangePassword
<1>2. CASE ~isAuthenticated' /\ Refuse("changepassword", auth, 401)
  BY <1>1, <1>2, SameSession, RefuseContract
<1>3. CASE /\ isAuthenticated'
           /\ Missing \in {old, new} \/ Session(bearer').password # old
           /\ Refuse("changepassword", auth, 400)
  BY <1>1, <1>3, SameSession, RefuseContract
<1>4. CASE /\ isAuthenticated'
           /\ Missing \notin {old, new} /\ Session(bearer').password = old
           /\ StoreSession(bearer', [Session(bearer') EXCEPT !.password = new])
           /\ users' = WithPassword(Session(bearer').username, new)
           /\ Respond("changepassword", auth, 200, <<>>, ChangePasswordSteps)
           /\ UNCHANGED owner
  <2>1. auth \in DOMAIN sessions /\ bearer' = auth
        /\ Session(bearer') = sessions[auth]
    BY <1>1, <1>4, SameSession
  <2>2. sessions' = [sessions EXCEPT ![auth] =
                        [sessions[auth] EXCEPT !.password = new]]
    BY <1>4, <2>1, StoreIsExcept
  <2>3. sessions' = [sessions EXCEPT ![auth].password = new]
    BY <2>2
  <2>4. /\ Contract!Ready
        /\ UNCHANGED <<phase = "up", OnDisk, Writing>>
        /\ Registered = AccountsIn(Range(users))
        /\ Registered' = AccountsIn(Range(users'))
    BY <1>1, <1>4, HandlerFrame DEF Respond
  <2>5. Registered' = [Registered EXCEPT ![sessions[auth].username] = new]
    BY <1>4, <2>1, <2>4, ChangePasswordFInv, NewPasswordAccounts
  <2>6. Contract!Answer("changepassword", auth, 200, <<>>)
    BY <1>4 DEF Respond, Contract!Answer
  <2> QED BY <1>4, <2>1, <2>3, <2>4, <2>5, <2>6
<1> QED BY <1>2, <1>3, <1>4 DEF ChangePassword

LEMMA HandleContract ==
    ASSUME IInv, FInv, RInv, Handle PROVE Contract!Request
<1>1. ASSUME NEW u \in Usernames \cup {Missing},
             NEW p \in Passwords \cup {Missing}, SignUp(u, p) \/ LogIn(u, p)
      PROVE  Contract!Request
  BY <1>1, SignUpContract, LogInContract DEF Contract!Request
<1>2. ASSUME NEW auth \in Tokens \cup {Missing},
             LogOut(auth) \/ IsLoggedIn(auth) \/ GetLocations(auth)
      PROVE  Contract!Request
  BY <1>2, LogOutContract, IsLoggedInContract, GetLocationsContract
     DEF Contract!Request
<1>3. ASSUME NEW auth \in Tokens \cup {Missing},
             NEW old \in Passwords \cup {Missing},
             NEW new \in Passwords \cup {Missing},
             ChangePassword(auth, old, new)
      PROVE  Contract!Request
  BY <1>3, ChangePasswordContract DEF Contract!Request
<1>4. ASSUME NEW auth \in Tokens \cup {Missing},
             NEW location \in Locations \cup {Missing},
             Subscribe(auth, location) \/ Unsubscribe(auth, location)
      PROVE  Contract!Request
  BY <1>4, SubscribeContract, UnsubscribeContract DEF Contract!Request
<1> QED BY <1>1, <1>2, <1>3, <1>4 DEF Handle

-----------------------------------------------------------------------------
(* The process.                                                            *)

LEMMA FileUnchanged ==
    UNCHANGED file => FileInfos' = FileInfos
BY DEF FileInfos

LEMMA DownSteps ==
    ASSUME RInv, phase # "up"
    PROVE  /\ ~Writing /\ ctx = NoCtx /\ sessions = NoSessions
           /\ Registered = AccountsIn(FileInfos)
           /\ OnDisk = AccountsIn(FileInfos)
BY DEF RInv, EmptyWhenDown, StepsHaveRequest, Writing, Registered, OnDisk

(* Neither loading the file nor stopping meanwhile changes the accounts.   *)
LEMMA LoadingContract ==
    ASSUME RInv, Start \/ LoadLine \/ (Crash /\ phase # "up")
    PROVE  UNCHANGED Contract!vars
<1>1. /\ phase # "up" /\ phase' # "up" /\ UNCHANGED <<file, owner>>
      /\ todo' = <<>> /\ ctx' = NoCtx /\ sessions' = NoSessions
  BY DownSteps DEF Start, LoadLine, Crash, history, RInv, EmptyWhenDown
<1>2. /\ Registered' = AccountsIn(FileInfos)
      /\ OnDisk' = AccountsIn(FileInfos)
  BY <1>1, FileUnchanged DEF Registered, OnDisk, Writing
<1>3. Writing' = Writing
  BY <1>1 DEF Writing, RInv, EmptyWhenDown
<1> QED BY <1>1, <1>2, <1>3, DownSteps DEF Contract!vars

(* The users that FInv finds in the file.                                  *)
LEMMA InfosOfFile ==
    ASSUME CommaFree, FInv
    PROVE  FileInfos = {ParseLine(file[i]) : i \in DOMAIN file}
BY LineChosen DEF FileInfos, Range

LEMMA FileInfosUnique ==
    ASSUME CommaFree, FInv PROVE UniquelyNamed(FileInfos)
BY InfosOfFile DEF FInv, FileUnique, UniquelyNamed

LEMMA FinishLoadingContract ==
    ASSUME CommaFree, IInv, FInv, RInv, FinishLoading PROVE Contract!Run
<1>1. /\ phase = "loading" /\ phase' = "up" /\ loaded = Len(file)
      /\ UNCHANGED <<users, sessions, file, todo, ctx, owner>>
  BY DEF FinishLoading, memory, history
<1>2. /\ DOMAIN users = DOMAIN file
      /\ \A i \in DOMAIN users : users[i] = ParseLine(file[i])
  BY <1>1 DEF FInv, LoadedPrefix, IInv, TypeOK
<1>3. FileInfos = Range(users)
  BY <1>2, InfosOfFile DEF Range
<1>4. Registered' = AccountsIn(Range(users))
  BY <1>1 DEF Registered
<1>5. Writing' = Writing /\ ~Writing'
  BY <1>1, DownSteps DEF Writing
<1>6. OnDisk' = OnDisk
  BY <1>1, <1>5, DownSteps, FileUnchanged DEF OnDisk
<1> QED BY <1>1, <1>3, <1>4, <1>5, <1>6, DownSteps DEF Contract!Run

(* While the file is rewritten it holds some of the accounts.              *)
LEMMA PartOfAccounts ==
    ASSUME CommaFree, IInv, FInv, Writing
    PROVE  \E kept \in SUBSET DOMAIN AccountsIn(Range(users)) :
              AccountsIn(FileInfos)
                = Contract!Restrict(AccountsIn(Range(users)), kept)
<1> DEFINE kept == DOMAIN AccountsIn(FileInfos)
<1>1. UniquelyNamed(Range(users)) /\ UniquelyNamed(FileInfos)
  BY FileInfosUnique, ListUnique DEF FInv, UniqueUsernames
<1>2. \A info \in FileInfos : \E other \in Range(users) :
         info.username = other.username /\ info.password = other.password
  <2>1. ASSUME NEW i \in DOMAIN file
        PROVE  /\ i \in DOMAIN users /\ users[i] \in Range(users)
               /\ ParseLine(file[i]).username = users[i].username
               /\ ParseLine(file[i]).password = users[i].password
    <3>1. i \in DOMAIN users /\ file[i] = Line(users[i])
      BY DEF FInv, WrittenPrefix, IInv, TypeOK
    <3>2. ParseLine(file[i])
            = NewUserInfo(users[i].username, users[i].password)
      BY <3>1, UserChosen
    <3> QED BY <3>1, <3>2, NewUserFields DEF Range
  <2> QED BY <2>1, InfosOfFile
<1>3. ASSUME NEW u \in kept
      PROVE  /\ u \in DOMAIN AccountsIn(Range(users))
             /\ AccountsIn(FileInfos)[u] = AccountsIn(Range(users))[u]
  <2>1. PICK info \in FileInfos :
           info.username = u /\ info.password = AccountsIn(FileInfos)[u]
    BY <1>1, AccountFrom
  <2>2. PICK other \in Range(users) :
           info.username = other.username /\ info.password = other.password
    BY <1>2
  <2> QED BY <1>1, <2>1, <2>2, AccountOf
<1>4. AccountsIn(FileInfos) = [u \in kept |-> AccountsIn(FileInfos)[u]]
  BY DEF AccountsIn
<1>5. AccountsIn(FileInfos)
        = Contract!Restrict(AccountsIn(Range(users)), kept)
  <2> HIDE DEF kept
  <2> QED BY <1>3, <1>4 DEF Contract!Restrict
<1>6. kept \in SUBSET DOMAIN AccountsIn(Range(users))
  BY <1>3
<1> QED BY <1>5, <1>6

(* A server that cannot open users.txt serves without the accounts in it.  *)
LEMMA LoadFailsContract ==
    ASSUME RInv, LoadFails PROVE Contract!Run
<1>1. /\ "loadFails" \in Faults /\ phase = "down" /\ phase' = "up"
      /\ users' = <<>> /\ UNCHANGED <<sessions, file, todo, ctx, owner>>
  BY DEF LoadFails, history
<1>2. /\ UNCHANGED <<OnDisk, Writing>>
      /\ Registered' = AccountsIn(Range(<<>>))
  BY <1>1, DownSteps, FileUnchanged DEF OnDisk, Writing, Registered
<1>3. AccountsIn(Range(<<>>)) = Contract!Nobody
  BY DEF AccountsIn, Range, Contract!Nobody
<1> QED BY <1>1, <1>2, <1>3 DEF Contract!Run

LEMMA CrashContract ==
    ASSUME CommaFree, IInv, FInv, Crash, phase = "up" PROVE Contract!Stop
<1>1. /\ phase' = "down" /\ todo' = <<>> /\ ctx' = NoCtx
      /\ sessions' = NoSessions /\ UNCHANGED <<file, owner>>
  BY DEF Crash
<1>2. /\ ~Writing'
      /\ Registered' = AccountsIn(FileInfos)
      /\ OnDisk' = AccountsIn(FileInfos)
  BY <1>1, FileUnchanged DEF Writing, Registered, OnDisk
<1>3. \/ ~Writing /\ OnDisk' = OnDisk
      \/ Writing /\ Contract!Partly
  <2>1. CASE ~Writing
    BY <1>2, <2>1, InFile
  <2>2. CASE Writing
    BY <1>2, <2>2, PartOfAccounts DEF OnDisk, Contract!Partly
  <2> QED BY <2>1, <2>2
<1>4. Writing' = FALSE
  BY <1>1 DEF Writing
<1>5. sessions' = Contract!Nobody /\ ctx' = Contract!NoReply
  BY <1>1 DEF NoSessions, Contract!Nobody, NoCtx, Contract!NoReply
<1> QED BY <1>1, <1>2, <1>3, <1>4, <1>5 DEF Contract!Stop

-----------------------------------------------------------------------------
(* The rest of a request.                                                  *)

LEMMA TodoTyped ==
    ASSUME IInv, todo # <<>>
    PROVE  1 \in DOMAIN todo /\ Len(todo) >= 1 /\ todo \in Seq(Steps)
BY DEF IInv, TypeOK

(* A step that ends the request, or leaves it as it is, with the accounts  *)
(* in memory and those on disk unchanged.                                  *)
LEMMA DoneContract ==
    ASSUME IInv, RInv, todo # <<>>, ~Writing, ~Writing', ctx' \in {ctx, NoCtx},
           UNCHANGED <<phase, users, sessions, file, owner>>
    PROVE  Contract!Done \/ UNCHANGED Contract!vars
<1>1. FileInfos' = FileInfos
  BY FileUnchanged
<1>2. Registered' = Registered
  BY <1>1 DEF Registered
<1>3. OnDisk' = OnDisk
  BY <1>1 DEF OnDisk
<1>4. Writing' = Writing
  BY DEF Writing
<1>5. ctx # Contract!NoReply /\ NoCtx = Contract!NoReply
  BY DEF RInv, StepsHaveRequest, NoCtx, Contract!NoReply
<1>6. CASE ctx' = ctx
  BY <1>2, <1>3, <1>4, <1>6 DEF Contract!vars
<1>7. CASE ctx' = NoCtx
  BY <1>2, <1>3, <1>4, <1>5, <1>7 DEF Contract!Done
<1> QED BY <1>6, <1>7

LEMMA SendContract ==
    ASSUME IInv, FInv, RInv, Send \/ SendFails \/ OpenFails
    PROVE  Contract!Done \/ UNCHANGED Contract!vars
<1>1. /\ todo # <<>> /\ ~Writing /\ ctx' \in {ctx, NoCtx}
      /\ todo' = Tail(todo) \/ todo' = <<>>
      /\ UNCHANGED <<phase, users, sessions, file, owner>>
  BY DEF Send, SendFails, OpenFails, Writing, StepDone, memory, history
<1>2. ~Writing'
  BY <1>1, TailOrdered DEF IInv, FInv
<1> QED BY <1>1, <1>2, DoneContract

LEMMA OpenFileContract ==
    ASSUME IInv, FInv, RInv, OpenFile PROVE Contract!BeginSave
<1>1. /\ todo # <<>> /\ todo[1] = "save" /\ todo' = <<"write">> \o Tail(todo)
      /\ UNCHANGED <<phase, users, sessions, ctx, owner>>
  BY DEF OpenFile, memory, history
<1>2. phase = "up" /\ Tail(todo) \in Seq(Steps)
  BY <1>1, TodoTyped, TailTyped DEF RInv, EmptyWhenDown
<1>3. todo' # <<>> /\ todo'[1] = "write"
  <2>1. <<"write">> \in Seq(Steps) /\ Len(<<"write">>) = 1
    BY DEF Steps
  <2> QED BY <1>1, <1>2, <2>1, ConcatProperties
<1>4. ~Writing /\ Writing' = TRUE
  BY <1>1, <1>3 DEF Writing
<1>5. ctx.op \in {"signup", "changepassword"} /\ ctx.status = 200
  BY <1>1, TodoTyped DEF RInv, OnlyChangesSave
<1>6. /\ Registered = AccountsIn(Range(users))
      /\ Registered' = AccountsIn(Range(users))
      /\ OnDisk' = AccountsIn(Range(users))
  BY <1>1, <1>2, <1>4 DEF Registered, OnDisk
<1> QED BY <1>1, <1>2, <1>4, <1>5, <1>6
        DEF Contract!BeginSave, Contract!Changed

LEMMA WriteLineContract ==
    ASSUME IInv, FInv, RInv, WriteLine PROVE UNCHANGED Contract!vars
<1>1. Writing /\ UNCHANGED <<phase, users, sessions, todo, ctx, owner>>
  BY DEF WriteLine, memory, history
<1>2. phase = "up" /\ Writing' = Writing
  BY <1>1 DEF Writing, RInv, EmptyWhenDown
<1>3. Registered' = Registered /\ OnDisk' = OnDisk
  BY <1>1, <1>2 DEF Registered, OnDisk
<1> QED BY <1>1, <1>2, <1>3 DEF Contract!vars

(* The complete file gives back the accounts.                              *)
LEMMA CompleteFile ==
    ASSUME CommaFree, IInv, FInv, Writing, Len(file) = Len(users)
    PROVE  AccountsIn(FileInfos) = AccountsIn(Range(users))
<1> DEFINE A == AccountsIn(Range(users))
<1>1. UniquelyNamed(Range(users)) /\ UniquelyNamed(FileInfos)
  BY FileInfosUnique, ListUnique DEF FInv, UniqueUsernames
<1>2. DOMAIN file = DOMAIN users
  BY DEF IInv, TypeOK
<1>3. \A i \in DOMAIN users :
        /\ ParseLine(file[i]).username = users[i].username
        /\ ParseLine(file[i]).password = users[i].password
  <2>1. \A i \in DOMAIN users : file[i] = Line(users[i])
    BY <1>2 DEF FInv, WrittenPrefix
  <2> QED BY <2>1, UserChosen, NewUserFields
<1>4. \A info \in FileInfos : info.username \in DOMAIN A
  <2>1. \A i \in DOMAIN users : users[i].username \in DOMAIN A
    BY <1>1, AccountOf DEF Range
  <2> QED BY <1>2, <1>3, <2>1, InfosOfFile
<1>5. ASSUME NEW u \in DOMAIN A
      PROVE  \E info \in FileInfos :
                info.username = u /\ info.password = A[u]
  <2>1. PICK user \in Range(users) : user.username = u /\ user.password = A[u]
    BY <1>1, AccountFrom
  <2>2. PICK i \in DOMAIN users : users[i] = user
    BY DEF Range
  <2>3. ParseLine(file[i]) \in FileInfos
    BY <1>2, InfosOfFile
  <2> QED BY <1>3, <2>1, <2>2, <2>3
<1>6. A = [u \in DOMAIN A |-> A[u]]
  BY DEF AccountsIn
<1> HIDE DEF A
<1> QED BY <1>1, <1>4, <1>5, <1>6, AccountsAre DEF A

LEMMA CloseFileContract ==
    ASSUME CommaFree, IInv, FInv, RInv, CloseFile \/ WriteFails
    PROVE  Contract!EndSave
<1>1. /\ Writing /\ todo # <<>> /\ todo' = Tail(todo)
      /\ Len(file) = Len(users) \/ "writeFails" \in Faults
      /\ ctx' \in {ctx, NoCtx}
      /\ UNCHANGED <<phase, users, sessions, file, owner>>
  BY DEF CloseFile, WriteFails, StepDone, Writing, memory, history
<1>2. ~Writing'
  BY <1>1, TailOrdered DEF IInv, FInv
<1>3. Writing' = FALSE
  BY <1>2 DEF Writing
<1>4. OnDisk' = OnDisk \/ ("writeFails" \in Faults /\ Contract!Partly)
  <2>1. /\ OnDisk = AccountsIn(Range(users))
        /\ OnDisk' = AccountsIn(FileInfos)
    BY <1>1, <1>2, FileUnchanged DEF OnDisk
  <2>2. CASE Len(file) = Len(users)
    BY <1>1, <2>1, <2>2, CompleteFile
  <2>3. CASE "writeFails" \in Faults
    BY <1>1, <2>1, <2>3, PartOfAccounts DEF Contract!Partly
  <2> QED BY <1>1, <2>2, <2>3
<1>5. Registered' = Registered
  BY <1>1, FileUnchanged DEF Registered
<1>6. NoCtx = Contract!NoReply
  BY DEF NoCtx, Contract!NoReply
<1> QED BY <1>1, <1>3, <1>4, <1>5, <1>6 DEF Contract!EndSave

-----------------------------------------------------------------------------
(* The invariant about what is left of a request.                          *)

LEMMA RespondRInv ==
    ASSUME Idle, phase' = phase,
           \/ todo' = <<"send">> /\ ctx'.op # "none"
           \/ /\ todo' \in {SignUpSteps, ChangePasswordSteps}
              /\ ctx'.op \in {"signup", "changepassword"} /\ ctx'.status = 200
    PROVE  RInv'
<1>1. phase' = "up" /\ todo' # <<>>
  BY DEF Idle, SignUpSteps, ChangePasswordSteps
<1>2. ctx' # NoCtx
  BY DEF NoCtx
<1>3. OnlyChangesSave'
  BY DEF OnlyChangesSave
<1> QED BY <1>1, <1>2, <1>3 DEF RInv, StepsHaveRequest, EmptyWhenDown

LEMMA HandleRInv == ASSUME IInv, Handle PROVE RInv'
<1> USE DEF Refuse, Respond
<1>1. ASSUME NEW u, NEW p, SignUp(u, p) \/ LogIn(u, p) PROVE RInv'
  <2>1. /\ Idle /\ phase' = phase
        /\ \/ todo' = <<"send">> /\ ctx'.op # "none"
           \/ /\ todo' = SignUpSteps
              /\ ctx'.op = "signup" /\ ctx'.status = 200
    BY <1>1 DEF SignUp, LogIn
  <2> QED BY <2>1, RespondRInv
<1>2. ASSUME NEW auth,
             LogOut(auth) \/ IsLoggedIn(auth) \/ GetLocations(auth)
      PROVE  RInv'
  <2>1. Idle /\ phase' = phase /\ todo' = <<"send">> /\ ctx'.op # "none"
    BY <1>2 DEF LogOut, IsLoggedIn, GetLocations
  <2> QED BY <2>1, RespondRInv
<1>3. ASSUME NEW auth, NEW old, NEW new, ChangePassword(auth, old, new)
      PROVE  RInv'
  <2>1. /\ Idle /\ phase' = phase
        /\ \/ todo' = <<"send">> /\ ctx'.op # "none"
           \/ /\ todo' = ChangePasswordSteps
              /\ ctx'.op = "changepassword" /\ ctx'.status = 200
    BY <1>3 DEF ChangePassword
  <2> QED BY <2>1, RespondRInv
<1>4. ASSUME NEW auth, NEW location,
             Subscribe(auth, location) \/ Unsubscribe(auth, location)
      PROVE  RInv'
  <2>1. Idle /\ phase' = phase
    BY <1>4 DEF Subscribe, Unsubscribe
  <2>2. \E op \in {"subscribe", "unsubscribe"} : \E status, body :
          Respond(op, auth, status, body, <<"send">>)
    <3>1. CASE Subscribe(auth, location)
      BY <3>1 DEF Subscribe
    <3>2. CASE Unsubscribe(auth, location)
      BY <3>2 DEF Unsubscribe
    <3> QED BY <1>4, <3>1, <3>2
  <2> QED BY <2>1, <2>2, RespondRInv
<1> QED BY <1>1, <1>2, <1>3, <1>4 DEF Handle

LEMMA ProcessRInv ==
    ASSUME RInv, Start \/ LoadLine \/ FinishLoading \/ LoadFails \/ Crash
    PROVE  RInv'
<1>1. CASE Start \/ LoadLine \/ FinishLoading \/ LoadFails
  <2>1. todo = <<>> /\ UNCHANGED <<sessions, todo, ctx>>
    BY <1>1, DownSteps DEF Start, LoadLine, FinishLoading, LoadFails, memory,
                           RInv, EmptyWhenDown
  <2>2. phase' # "up" => sessions = NoSessions
    BY <1>1 DEF Start, LoadLine, FinishLoading, LoadFails, RInv, EmptyWhenDown
  <2> QED BY <2>1, <2>2 DEF RInv, StepsHaveRequest, OnlyChangesSave,
                            EmptyWhenDown
<1>2. CASE Crash
  BY <1>2 DEF Crash, RInv, StepsHaveRequest, OnlyChangesSave, EmptyWhenDown
<1> QED BY <1>1, <1>2

LEMMA RestOfHandlerRInv ==
    ASSUME IInv, RInv,
           \/ Send \/ SendFails
           \/ OpenFile \/ OpenFails \/ WriteLine \/ WriteFails \/ CloseFile
    PROVE  RInv'
<1>1. todo # <<>> /\ UNCHANGED <<phase, sessions>> /\ phase = "up"
  BY DEF Send, SendFails, OpenFile, OpenFails, WriteLine, WriteFails,
         CloseFile, Writing, memory, RInv, EmptyWhenDown
<1>2. todo \in Seq(Steps) /\ Len(todo) >= 1 /\ ctx # NoCtx
  BY <1>1, TodoTyped DEF RInv, StepsHaveRequest
<1>3. /\ Tail(todo) \in Seq(Steps) /\ Len(Tail(todo)) = Len(todo) - 1
      /\ \A i \in DOMAIN Tail(todo) :
            i + 1 \in DOMAIN todo /\ Tail(todo)[i] = todo[i + 1]
  BY <1>1, <1>2
<1>4. CASE StepDone
  <2>1. todo' = <<>> <=> ctx' = NoCtx
    <3>1. todo' = <<>> <=> Len(todo) = 1
      BY <1>2, <1>3, <1>4, EmptySeq DEF StepDone
    <3> QED BY <1>2, <1>4, <3>1 DEF StepDone
  <2>2. OnlyChangesSave'
    <3>1. CASE ctx' = NoCtx
      BY <2>1, <3>1 DEF OnlyChangesSave
    <3>2. CASE ctx' = ctx
      BY <1>3, <1>4, <3>2 DEF StepDone, RInv, OnlyChangesSave
    <3> QED BY <1>4, <3>1, <3>2 DEF StepDone
  <2> QED BY <1>1, <2>1, <2>2 DEF RInv, StepsHaveRequest, EmptyWhenDown
<1>5. CASE SendFails
  BY <1>1, <1>5 DEF SendFails, RInv, StepsHaveRequest, OnlyChangesSave,
                    EmptyWhenDown
<1>6. CASE OpenFile
  <2>1. <<"write">> \in Seq(Steps) /\ Len(<<"write">>) = 1
    BY DEF Steps
  <2>2. /\ todo' # <<>> /\ ctx' = ctx
        /\ \A i \in DOMAIN todo' :
              i \in DOMAIN todo /\ (i > 1 => todo'[i] = todo[i])
    BY <1>2, <1>3, <1>6, <2>1, ConcatProperties DEF OpenFile
  <2>3. ctx.op \in {"signup", "changepassword"} /\ ctx.status = 200
    BY <1>1, <1>6, TodoTyped DEF OpenFile, RInv, OnlyChangesSave
  <2>4. OnlyChangesSave'
    BY <2>2, <2>3 DEF OnlyChangesSave
  <2> QED BY <1>1, <1>2, <2>2, <2>4 DEF RInv, StepsHaveRequest, EmptyWhenDown
<1>7. CASE WriteLine
  BY <1>1, <1>7 DEF WriteLine, RInv, StepsHaveRequest, OnlyChangesSave,
                    EmptyWhenDown
<1> QED BY <1>4, <1>5, <1>6, <1>7 DEF Send, OpenFails, WriteFails, CloseFile

LEMMA NextRInv == ASSUME IInv, RInv, [Next]_vars PROVE RInv'
<1>1. CASE UNCHANGED vars
  BY <1>1 DEF vars, memory, RInv, StepsHaveRequest, OnlyChangesSave,
              EmptyWhenDown
<1> QED BY <1>1, HandleRInv, ProcessRInv, RestOfHandlerRInv DEF Next

-----------------------------------------------------------------------------
(* The theorem.                                                            *)

LEMMA InitContract == ASSUME Init PROVE Contract!Init
<1>1. phase # "up" /\ ~Writing /\ FileInfos = {}
  BY DEF Init, Writing, FileInfos, Range
<1>2. AccountsIn({}) = Contract!Nobody
  BY DEF AccountsIn, Contract!Nobody
<1>3. Registered = Contract!Nobody /\ OnDisk = Contract!Nobody
  BY <1>1, <1>2 DEF Registered, OnDisk
<1>4. sessions = Contract!Nobody /\ ctx = Contract!NoReply
      /\ DOMAIN owner = {}
  BY DEF Init, NoSessions, Contract!Nobody, NoCtx, Contract!NoReply
<1>5. (phase = "up") = FALSE /\ Writing = FALSE
  BY <1>1 DEF Writing
<1> QED BY <1>3, <1>4, <1>5 DEF Contract!Init

LEMMA NextContract ==
    ASSUME CommaFree, IInv, FInv, RInv, [Next]_vars
    PROVE  [Contract!Next]_Contract!vars
<1> USE DEF Contract!Next
<1>1. CASE Handle
  BY <1>1, HandleContract
<1>2. CASE Start \/ LoadLine \/ FinishLoading \/ LoadFails \/ Crash
  BY <1>2, LoadingContract, FinishLoadingContract, LoadFailsContract,
     CrashContract
<1>3. CASE \/ Send \/ SendFails
           \/ OpenFile \/ OpenFails \/ WriteLine \/ WriteFails \/ CloseFile
  BY <1>3, SendContract, OpenFileContract, WriteLineContract,
     CloseFileContract
<1>4. CASE UNCHANGED vars
  <2>1. /\ UNCHANGED <<phase, users, file, sessions, owner, ctx, todo>>
    BY <1>4 DEF vars, memory, history
  <2>2. Registered' = Registered /\ OnDisk' = OnDisk /\ Writing' = Writing
    BY <2>1, FileUnchanged DEF Registered, OnDisk, Writing
  <2> QED BY <2>1, <2>2 DEF Contract!vars
<1> QED BY <1>1, <1>2, <1>3, <1>4 DEF Next

(* With names and passwords free of commas, every behaviour of the service *)
(* - any number of users, sessions, locations, stops, torn rewrites and    *)
(* failed sends, writes, loads and opens - is one that Accounts allows.    *)
THEOREM Implementation == ASSUME CommaFree PROVE Spec => ImplementsAccounts
<1>1. IInv /\ RInv /\ [Next]_vars => RInv'
  BY NextRInv
<1>2. Init => Contract!Init
  BY InitContract
<1>3. IInv /\ FInv /\ RInv /\ [Next]_vars => [Contract!Next]_Contract!vars
  BY NextContract
<1>4. Spec => []RInv
  BY <1>1, InitRInv, Inductive, PTL DEF Spec
<1> QED BY <1>2, <1>3, <1>4, Inductive, FileInductive, PTL
        DEF Spec, Contract!Spec, ImplementsAccounts
=============================================================================
