-------------------------- MODULE UsersFileProofs --------------------------
(***************************************************************************)
(* Theorems about users.txt and the list of users in memory, for names and *)
(* passwords without a comma: through any number of saves, stops in the    *)
(* middle of one and reloads, only accepted users are listed, each once.   *)
(***************************************************************************)
EXTENDS WeatherServiceProofs

-----------------------------------------------------------------------------
(* What save_file() and load_file() do to a name and password that have no *)
(* comma in them.                                                          *)

(* load_file() reads back what save_file() has written.                    *)
LEMMA PlainLine ==
    ASSUME CommaFree, NEW u \in Usernames, NEW p \in Passwords
    PROVE  IsUserLine(u \o p) /\ ParseLine(u \o p) = NewUserInfo(u, p)
<1>1. PICK f \in Field, g \in Field : u = <<f>> /\ p = <<g>>
  BY DEF CommaFree
<1>2. /\ Len(u \o p) = 2
      /\ (u \o p)[1] = f /\ (u \o p)[2] = g
  <2>1. /\ <<f>> \in Seq(Field) /\ <<g>> \in Seq(Field)
        /\ Len(<<f>>) = 1 /\ Len(<<g>>) = 1
    OBVIOUS
  <2> QED BY <1>1, <2>1, ConcatProperties
<1>3. g # Empty
  BY TextAssumption
<1>4. split(u \o p) = u \o p
  BY <1>2, <1>3 DEF split
<1>5. IsUserLine(u \o p)
  BY <1>2, <1>4 DEF IsUserLine
<1>6. <<split(u \o p)[1]>> = u /\ <<split(u \o p)[2]>> = p
  BY <1>1, <1>2, <1>4
<1> QED BY <1>5, <1>6 DEF ParseLine

LEMMA NewUserFields ==
    ASSUME NEW u, NEW p
    PROVE  NewUserInfo(u, p).username = u /\ NewUserInfo(u, p).password = p
BY DEF NewUserInfo, DefaultUserInfo

-----------------------------------------------------------------------------
(* The inductive invariant.  The file may hold fewer users than were       *)
(* registered, but only lines of accepted pairs, no name twice, and while  *)
(* it is written a prefix of the list in memory.                           *)

ChosenTyped == chosen \subseteq Usernames \X Passwords

UsersChosen ==
    \A i \in DOMAIN users : <<users[i].username, users[i].password>> \in chosen

LineOf(i, u, p) == <<u, p>> \in chosen /\ file[i] = u \o p

FileChosen ==
    \A i \in DOMAIN file :
        \E u \in Usernames, p \in Passwords : LineOf(i, u, p)

FileUnique ==
    \A i, j \in DOMAIN file :
        ParseLine(file[i]).username = ParseLine(file[j]).username => i = j

LoadedPrefix ==
    phase = "loading" =>
        /\ loaded <= Len(file) /\ Len(users) = loaded
        /\ \A i \in DOMAIN users : users[i] = ParseLine(file[i])

WrittenPrefix ==
    Writing => /\ Len(file) <= Len(users)
               /\ \A i \in DOMAIN file : file[i] = Line(users[i])

StepsOrdered ==
    /\ phase # "up" => todo = <<>>
    /\ \A i \in DOMAIN todo : i > 1 => todo[i] # "write"

FInv ==
    /\ ChosenTyped /\ UsersChosen /\ UniqueUsernames
    /\ FileChosen /\ FileUnique
    /\ LoadedPrefix /\ WrittenPrefix /\ StepsOrdered

LEMMA InitFInv == Init => FInv
BY DEF Init, FInv, ChosenTyped, UsersChosen, UniqueUsernames, FileChosen,
       FileUnique, LoadedPrefix, WrittenPrefix, StepsOrdered, Writing

(* What FInv says of one line of the file.                                 *)
LEMMA LineChosen ==
    ASSUME CommaFree, FInv, NEW i \in DOMAIN file
    PROVE  /\ IsUserLine(file[i])
           /\ <<ParseLine(file[i]).username, ParseLine(file[i]).password>>
                 \in chosen
           /\ Line(ParseLine(file[i])) = file[i]
<1>1. PICK u \in Usernames, p \in Passwords : LineOf(i, u, p)
  BY DEF FInv, FileChosen
<1>2. IsUserLine(file[i]) /\ ParseLine(file[i]) = NewUserInfo(u, p)
  BY <1>1, PlainLine DEF LineOf
<1>3. ParseLine(file[i]).username = u /\ ParseLine(file[i]).password = p
  BY <1>2, NewUserFields
<1> QED BY <1>1, <1>2, <1>3 DEF LineOf, Line

(* What FInv says of one user in memory.                                   *)
LEMMA UserChosen ==
    ASSUME CommaFree, FInv, NEW i \in DOMAIN users
    PROVE  /\ users[i].username \in Usernames
           /\ users[i].password \in Passwords
           /\ ParseLine(Line(users[i]))
                 = NewUserInfo(users[i].username, users[i].password)
<1>1. users[i].username \in Usernames /\ users[i].password \in Passwords
  BY DEF FInv, UsersChosen, ChosenTyped
<1> QED BY <1>1, PlainLine DEF Line

-----------------------------------------------------------------------------
(* The steps that leave the list, the file and the accepted pairs alone.   *)

LEMMA SameFInv ==
    ASSUME FInv, UNCHANGED <<users, file, chosen>>, ~Writing',
           phase' = "loading" => phase = "loading" /\ loaded' = loaded,
           StepsOrdered'
    PROVE  FInv'
BY DEF FInv, ChosenTyped, UsersChosen, UniqueUsernames, FileChosen, LineOf,
       FileUnique, LoadedPrefix, WrittenPrefix

LEMMA RespondSteps ==
    ASSUME TypeOK, Idle, phase' = phase,
           todo' \in {<<"send">>, SignUpSteps, ChangePasswordSteps}
    PROVE  /\ StepsOrdered' /\ ~Writing' /\ phase' = "up"
BY DEF Idle, StepsOrdered, Writing, SignUpSteps, ChangePasswordSteps

LEMMA RefuseFInv ==
    ASSUME IInv, FInv, Idle, NEW op, NEW token, NEW status,
           Refuse(op, token, status), UNCHANGED <<phase, loaded, file>>
    PROVE  FInv'
BY RespondSteps, SameFInv DEF IInv, Refuse, Respond, history

-----------------------------------------------------------------------------
(* The handlers.                                                           *)

LEMMA SignUpFInv ==
    ASSUME IInv, FInv, NEW u \in Usernames \cup {Missing},
           NEW p \in Passwords \cup {Missing}, SignUp(u, p)
    PROVE  FInv'
<1>1. CASE Refuse("signup", Missing, 400)
  BY <1>1, RefuseFInv DEF SignUp
<1>2. ASSUME u \in Usernames, p \in Passwords, ~UsernameTaken(u),
             todo' = SignUpSteps,
             users' = Append(users, NewUserInfo(u, p)),
             chosen' = chosen \cup {<<u, p>>}
      PROVE  FInv'
  <2>1. Idle /\ UNCHANGED <<phase, file>>
    BY DEF SignUp
  <2>2. users \in Seq(UserInfo(Locations)) /\ TypeOK
    BY DEF IInv, TypeOK
  <2>3. StepsOrdered' /\ ~Writing' /\ phase' = "up"
    BY <1>2, <2>1, <2>2, RespondSteps
  <2>4. /\ DOMAIN users' = 1..(Len(users) + 1)
        /\ DOMAIN users = 1..Len(users) /\ Len(users) \in Nat
        /\ \A i \in DOMAIN users : users'[i] = users[i]
        /\ users'[Len(users) + 1] = NewUserInfo(u, p)
    BY <1>2, <2>2
  <2>5. ChosenTyped'
    BY <1>2 DEF FInv, ChosenTyped
  <2>6. UsersChosen'
    BY <1>2, <2>4, NewUserFields DEF FInv, UsersChosen
  <2>7. UniqueUsernames'
    BY <1>2, <2>4, NewUserFields DEF FInv, UniqueUsernames, UsernameTaken
  <2>8. FileChosen' /\ FileUnique'
    BY <1>2, <2>1 DEF FInv, FileChosen, LineOf, FileUnique
  <2> QED BY <2>3, <2>5, <2>6, <2>7, <2>8
          DEF FInv, LoadedPrefix, WrittenPrefix
<1> QED BY <1>1, <1>2 DEF SignUp, Respond

LEMMA ChangePasswordFInv ==
    ASSUME IInv, FInv, NEW auth \in Tokens \cup {Missing},
           NEW old \in Passwords \cup {Missing},
           NEW new \in Passwords \cup {Missing}, ChangePassword(auth, old, new)
    PROVE  FInv'
<1>1. Idle /\ Authenticate(auth) /\ UNCHANGED <<phase, loaded, file>> /\ TypeOK
  BY DEF ChangePassword, IInv
<1>2. CASE \E status : Refuse("changepassword", auth, status)
  BY <1>1, <1>2, RefuseFInv
<1>3. ASSUME isAuthenticated', new \in Passwords,
             todo' = ChangePasswordSteps,
             users' = WithPassword(Session(bearer').username, new),
             chosen' = chosen \cup {<<Session(bearer').username, new>>}
      PROVE  FInv'
  <2> DEFINE name == Session(bearer').username
  <2>1. bearer' = auth /\ auth \in DOMAIN sessions
    BY <1>1, <1>3, AuthenticateLemma
  <2>2. name = owner[auth] /\ name \in Usernames
    BY <1>1, <2>1 DEF IInv, SessionsAreLive, TypeOK, Session
  <2>3. StepsOrdered' /\ ~Writing' /\ phase' = "up"
    BY <1>1, <1>3, RespondSteps
  <2>4. users \in Seq(UserInfo(Locations))
    BY <1>1 DEF TypeOK
  <2>5. /\ DOMAIN users' = DOMAIN users
        /\ \A i \in DOMAIN users :
              users'[i] = IF users[i].username = name
                          THEN [users[i] EXCEPT !.password = new]
                          ELSE users[i]
    BY <1>3 DEF WithPassword
  <2>6. \A i \in DOMAIN users :
          /\ users'[i].username = users[i].username
          /\ users'[i].password = IF users[i].username = name THEN new
                                  ELSE users[i].password
    <3> SUFFICES ASSUME NEW i \in DOMAIN users
                 PROVE  /\ users'[i].username = users[i].username
                        /\ users'[i].password =
                              IF users[i].username = name THEN new
                              ELSE users[i].password
      OBVIOUS
    <3>1. users[i] \in UserInfo(Locations)
      BY <2>4
    <3>2. /\ [users[i] EXCEPT !.password = new].username = users[i].username
          /\ [users[i] EXCEPT !.password = new].password = new
      BY <3>1 DEF UserInfo
    <3> QED BY <2>5, <3>2
  <2>7. ChosenTyped'
    BY <1>3, <2>2 DEF FInv, ChosenTyped
  <2>8. UsersChosen'
    BY <1>3, <2>5, <2>6 DEF FInv, UsersChosen
  <2>9. UniqueUsernames'
    BY <2>5, <2>6 DEF FInv, UniqueUsernames
  <2>10. FileChosen' /\ FileUnique'
    BY <1>1, <1>3 DEF FInv, FileChosen, LineOf, FileUnique
  <2> QED BY <2>3, <2>7, <2>8, <2>9, <2>10
          DEF FInv, LoadedPrefix, WrittenPrefix
<1> QED BY <1>2, <1>3 DEF ChangePassword, Respond

(* The handlers that change neither the list of users nor the file.        *)
SessionHandler ==
    \/ \E u \in Usernames \cup {Missing}, p \in Passwords \cup {Missing} :
          LogIn(u, p)
    \/ \E auth \in Tokens \cup {Missing} :
          \/ LogOut(auth) \/ IsLoggedIn(auth) \/ GetLocations(auth)
          \/ \E location \in Locations \cup {Missing} :
                Subscribe(auth, location) \/ Unsubscribe(auth, location)

LEMMA SessionHandlerKeeps ==
    ASSUME SessionHandler
    PROVE  /\ Idle /\ todo' = <<"send">> /\ ctx'.op # "signup"
           /\ UNCHANGED <<phase, loaded, users, file, chosen, acked>>
<1>1. ASSUME NEW u, NEW p, LogIn(u, p)
      PROVE  /\ Idle /\ todo' = <<"send">> /\ ctx'.op # "signup"
             /\ UNCHANGED <<phase, loaded, users, file, chosen, acked>>
  BY <1>1 DEF LogIn, Refuse, Respond, history
<1>2. ASSUME NEW auth, LogOut(auth) \/ IsLoggedIn(auth) \/ GetLocations(auth)
      PROVE  /\ Idle /\ todo' = <<"send">> /\ ctx'.op # "signup"
             /\ UNCHANGED <<phase, loaded, users, file, chosen, acked>>
  BY <1>2 DEF LogOut, IsLoggedIn, GetLocations, Refuse, Respond, history
<1>3. ASSUME NEW auth, NEW location, Subscribe(auth, location)
      PROVE  /\ Idle /\ todo' = <<"send">> /\ ctx'.op # "signup"
             /\ UNCHANGED <<phase, loaded, users, file, chosen, acked>>
  BY <1>3 DEF Subscribe, Refuse, Respond, history
<1>4. ASSUME NEW auth, NEW location, Unsubscribe(auth, location)
      PROVE  /\ Idle /\ todo' = <<"send">> /\ ctx'.op # "signup"
             /\ UNCHANGED <<phase, loaded, users, file, chosen, acked>>
  <2>1. /\ Idle /\ UNCHANGED <<phase, loaded, users, file, chosen, acked>>
        /\ \/ \E status : Respond("unsubscribe", auth, status, <<>>, <<"send">>)
           \/ Respond("unsubscribe", auth, 200, <<location>>, <<"send">>)
    BY <1>4 DEF Unsubscribe, Refuse, history
  <2> QED BY <2>1 DEF Respond
<1> QED BY <1>1, <1>2, <1>3, <1>4 DEF SessionHandler

LEMMA SessionHandlerFInv == ASSUME IInv, FInv, SessionHandler PROVE FInv'
<1>1. /\ Idle /\ todo' = <<"send">>
      /\ UNCHANGED <<phase, loaded, users, file, chosen, acked>>
  BY SessionHandlerKeeps
<1>2. StepsOrdered' /\ ~Writing' /\ phase' = "up"
  BY <1>1, RespondSteps DEF IInv
<1> QED BY <1>1, <1>2, SameFInv
-----------------------------------------------------------------------------
(* The process: starting, loading and stopping.                            *)

LEMMA LoadLineFInv == ASSUME CommaFree, IInv, FInv, LoadLine PROVE FInv'
<1> DEFINE i == loaded + 1
           user == ParseLine(file[i])
<1>1. /\ file \in Seq(Text) /\ users \in Seq(UserInfo(Locations))
      /\ loaded \in Nat
  BY DEF IInv, TypeOK
<1>2. /\ phase = "loading" /\ i \in DOMAIN file /\ Len(users) = loaded
      /\ \A j \in DOMAIN users : users[j] = ParseLine(file[j])
      /\ loaded' = i /\ UNCHANGED <<phase, file, todo, chosen>>
  BY <1>1 DEF LoadLine, FInv, LoadedPrefix, history
<1>3. /\ IsUserLine(file[i])
      /\ <<user.username, user.password>> \in chosen
  BY <1>2, LineChosen
<1>4. users' = Append(users, user)
  BY <1>3 DEF LoadLine
<1>5. /\ DOMAIN users' = 1..i /\ DOMAIN users = 1..loaded
      /\ \A j \in DOMAIN users : users'[j] = users[j]
      /\ users'[i] = user /\ Len(users') = i
  BY <1>1, <1>2, <1>4
<1>6. \A j \in DOMAIN users' : users'[j] = ParseLine(file[j])
  BY <1>1, <1>2, <1>5
<1>7. LoadedPrefix'
  BY <1>1, <1>2, <1>5, <1>6 DEF LoadedPrefix
<1>8. UsersChosen'
  BY <1>1, <1>2, <1>3, <1>5 DEF FInv, UsersChosen
<1>9. DOMAIN users' \subseteq DOMAIN file
  BY <1>1, <1>2, <1>5
<1>10. UniqueUsernames'
  BY <1>6, <1>9 DEF FInv, FileUnique, UniqueUsernames
<1>11. ~Writing' /\ StepsOrdered'
  BY <1>2 DEF FInv, StepsOrdered, Writing
<1> QED BY <1>2, <1>7, <1>8, <1>10, <1>11
        DEF FInv, ChosenTyped, FileChosen, LineOf, FileUnique, WrittenPrefix

LEMMA ProcessFInv ==
    ASSUME CommaFree, IInv, FInv,
           Start \/ LoadLine \/ FinishLoading \/ LoadFails \/ Crash
    PROVE  FInv'
<1>1. CASE Start \/ LoadFails \/ Crash
  <2>1. /\ users' = <<>> /\ todo' = <<>> /\ loaded' = 0
        /\ UNCHANGED <<file, chosen>>
    BY <1>1 DEF Start, LoadFails, Crash, history, FInv, StepsOrdered
  <2>2. file \in Seq(Text)
    BY DEF IInv, TypeOK
  <2>3. UsersChosen' /\ UniqueUsernames' /\ LoadedPrefix'
    BY <2>1, <2>2 DEF UsersChosen, UniqueUsernames, LoadedPrefix
  <2>4. ~Writing' /\ StepsOrdered'
    BY <2>1 DEF Writing, StepsOrdered
  <2> QED BY <2>1, <2>3, <2>4
          DEF FInv, ChosenTyped, FileChosen, LineOf, FileUnique, WrittenPrefix
<1>2. CASE LoadLine
  BY <1>2, LoadLineFInv
<1>3. CASE FinishLoading
  <2>1. /\ UNCHANGED <<users, file, todo, chosen>> /\ phase' = "up"
        /\ todo = <<>>
    BY <1>3 DEF FinishLoading, memory, history, FInv, StepsOrdered
  <2>2. ~Writing' /\ StepsOrdered'
    BY <2>1 DEF Writing, StepsOrdered
  <2> QED BY <2>1, <2>2, SameFInv
<1> QED BY <1>1, <1>2, <1>3

-----------------------------------------------------------------------------
(* The rest of a handler.                                                  *)

LEMMA TailOrdered ==
    ASSUME TypeOK, StepsOrdered, todo # <<>>,
           phase' = phase, todo' = Tail(todo) \/ todo' = <<>>
    PROVE  StepsOrdered' /\ ~Writing'
<1>1. todo \in Seq(Steps)
  BY DEF TypeOK
<1>2. CASE todo' = <<>>
  BY <1>2 DEF StepsOrdered, Writing
<1>3. CASE todo' = Tail(todo)
  <2>1. \A i \in DOMAIN todo' :
          i + 1 \in DOMAIN todo /\ i + 1 > 1 /\ todo'[i] = todo[i + 1]
    BY <1>1, <1>3
  <2>2. phase = "up" /\ \A i \in DOMAIN todo' : todo'[i] # "write"
    BY <2>1 DEF StepsOrdered
  <2>3. todo' # <<>> => 1 \in DOMAIN todo'
    BY <1>1, <1>3
  <2>4. ~Writing'
    BY <2>2, <2>3 DEF Writing
  <2>5. StepsOrdered'
    BY <2>2 DEF StepsOrdered
  <2> QED BY <2>4, <2>5
<1> QED BY <1>2, <1>3

LEMMA WriteLineFInv == ASSUME CommaFree, IInv, FInv, WriteLine PROVE FInv'
<1> DEFINE n == Len(file) + 1
<1>1. /\ file \in Seq(Text) /\ users \in Seq(UserInfo(Locations))
  BY DEF IInv, TypeOK
<1>2. /\ Writing /\ n \in DOMAIN users /\ file' = Append(file, Line(users[n]))
      /\ UNCHANGED <<phase, loaded, users, todo, chosen>>
  BY <1>1 DEF WriteLine, memory, history
<1>3. phase = "up"
  BY <1>2 DEF FInv, StepsOrdered, Writing
<1>4. /\ Len(file') = n /\ DOMAIN file' = 1..n /\ n <= Len(users)
      /\ \A i \in DOMAIN file : file'[i] = file[i]
      /\ file'[n] = Line(users[n]) /\ DOMAIN file = 1..(n - 1)
  BY <1>1, <1>2
<1>5. \A i \in DOMAIN file' : file'[i] = Line(users[i]) /\ i \in DOMAIN users
  <2>1. \A i \in DOMAIN file : file[i] = Line(users[i])
    BY <1>2 DEF FInv, WrittenPrefix
  <2> QED BY <1>1, <1>4, <2>1
<1>6. FileChosen'
  <2> SUFFICES ASSUME NEW i \in DOMAIN file'
               PROVE  \E u \in Usernames, p \in Passwords : LineOf(i, u, p)'
    BY DEF FileChosen
  <2>1. /\ <<users[i].username, users[i].password>> \in chosen'
        /\ file'[i] = users[i].username \o users[i].password
    BY <1>2, <1>5 DEF FInv, UsersChosen, Line
  <2> QED BY <1>5, <2>1, UserChosen DEF LineOf
<1>7. \A i \in DOMAIN file' : ParseLine(file'[i]).username = users[i].username
  BY <1>5, UserChosen, NewUserFields
<1>8. FileUnique'
  BY <1>5, <1>7 DEF FInv, UniqueUsernames, FileUnique
<1>9. WrittenPrefix'
  BY <1>1, <1>2, <1>4, <1>5 DEF WrittenPrefix
<1>10. LoadedPrefix' /\ StepsOrdered'
  BY <1>2, <1>3 DEF FInv, LoadedPrefix, StepsOrdered
<1> QED BY <1>2, <1>6, <1>8, <1>9, <1>10
        DEF FInv, ChosenTyped, UsersChosen, UniqueUsernames

LEMMA RestOfHandlerFInv ==
    ASSUME CommaFree, IInv, FInv,
           \/ Send \/ SendFails
           \/ OpenFile \/ OpenFails \/ WriteLine \/ WriteFails \/ CloseFile
    PROVE  FInv'
<1>1. TypeOK /\ StepsOrdered
  BY DEF IInv, FInv
<1>2. CASE Send \/ SendFails \/ OpenFails \/ WriteFails \/ CloseFile
  <2>1. /\ todo # <<>>
        /\ todo' = Tail(todo) \/ todo' = <<>>
        /\ UNCHANGED <<phase, loaded, users, file, chosen>>
    BY <1>2 DEF Send, SendFails, OpenFails, WriteFails, CloseFile, Writing,
                StepDone, memory, history
  <2>2. StepsOrdered' /\ ~Writing'
    BY <1>1, <2>1, TailOrdered
  <2> QED BY <2>1, <2>2, SameFInv
<1>3. CASE OpenFile
  <2>1. /\ todo # <<>> /\ file' = <<>> /\ todo' = <<"write">> \o Tail(todo)
        /\ UNCHANGED <<phase, users, chosen>> /\ todo \in Seq(Steps)
        /\ phase = "up"
    BY <1>1, <1>3 DEF OpenFile, memory, history, TypeOK, StepsOrdered
  <2>2. /\ Len(Tail(todo)) = Len(todo) - 1 /\ Tail(todo) \in Seq(Steps)
        /\ \A i \in 1..(Len(todo) - 1) : Tail(todo)[i] = todo[i + 1]
    BY <2>1
  <2>3. /\ todo' \in Seq(Steps) /\ Len(todo') = Len(todo)
        /\ \A i \in 2..Len(todo) : todo'[i] = todo[i]
    BY <2>1, <2>2, ConcatProperties DEF Steps
  <2>4. StepsOrdered'
    BY <1>1, <2>1, <2>3 DEF StepsOrdered
  <2>5. users \in Seq(UserInfo(Locations))
    BY <1>1 DEF TypeOK
  <2>6. WrittenPrefix' /\ LoadedPrefix' /\ FileChosen' /\ FileUnique'
    BY <2>1, <2>5 DEF WrittenPrefix, LoadedPrefix, FileChosen, FileUnique
  <2> QED BY <2>1, <2>4, <2>6 DEF FInv, ChosenTyped, UsersChosen, UniqueUsernames
<1>4. CASE WriteLine
  BY <1>4, WriteLineFInv
<1> QED BY <1>2, <1>3, <1>4

-----------------------------------------------------------------------------
(* The theorems about credentials.                                         *)

LEMMA NextFInv == ASSUME CommaFree, IInv, FInv, [Next]_vars PROVE FInv'
<1>1. CASE Handle
  BY <1>1, SignUpFInv, ChangePasswordFInv, SessionHandlerFInv
     DEF Handle, SessionHandler
<1>2. CASE UNCHANGED vars
  BY <1>2 DEF FInv, ChosenTyped, UsersChosen, UniqueUsernames, FileChosen,
     LineOf, FileUnique, LoadedPrefix, WrittenPrefix, StepsOrdered, Writing,
     vars, memory, history
<1> QED BY <1>1, <1>2, ProcessFInv, RestOfHandlerFInv DEF Next

(* The list and the file agree with what was accepted, in every reachable  *)
(* state.                                                                  *)
THEOREM FileInductive == ASSUME CommaFree PROVE Spec => []FInv
<1>1. IInv /\ FInv /\ [Next]_vars => FInv'
  BY NextFInv
<1> QED BY <1>1, InitFInv, Inductive, PTL DEF Spec

(* sign_up()'s check of the list in memory keeps names unique through any  *)
(* number of restarts, torn rewrites, failed writes and failed loads.      *)
THEOREM NamesUnique == ASSUME CommaFree PROVE Spec => []UniqueUsernames
<1>1. FInv => UniqueUsernames
  BY DEF FInv
<1> QED BY <1>1, FileInductive, PTL

(* Nobody is registered, and no reload of users.txt registers anybody,     *)
(* with a name and password that no handler has accepted.                  *)
THEOREM OnlyChosenCredentials ==
    ASSUME CommaFree PROVE Spec => []NoInventedCredentials
<1>1. FInv => NoInventedCredentials
  BY LineChosen DEF FInv, UsersChosen, NoInventedCredentials
<1> QED BY <1>1, FileInductive, PTL
=============================================================================
