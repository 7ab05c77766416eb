-------------------------- MODULE DurabilityProofs --------------------------
(***************************************************************************)
(* Theorems about what survives a stop of the server: a user whose sign-up *)
(* was answered is in users.txt whenever the file is not being rewritten,  *)
(* and between two requests the file is the list in memory.                *)
(***************************************************************************)
EXTENDS UsersFileProofs

(* The process does not stop while it rewrites the file, and the file can  *)
(* be opened and written to.  Responses may fail, and the process may stop *)
(* anywhere else.                                                          *)
SavesComplete ==
    Faults \cap {"tornSave", "openFails", "writeFails", "loadFails"} = {}

-----------------------------------------------------------------------------
(* The inductive invariant.  acked users are in the list as well as in the *)
(* file, because the next save takes them from the list; and the user of a *)
(* sign-up whose response is about to be sent is in both already.          *)

InFile(u) == \E i \in DOMAIN file : ParseLine(file[i]).username = u
InList(u) == \E i \in DOMAIN users : users[i].username = u

AckedInFile == ~Writing => \A u \in acked : InFile(u)
AckedInList == phase = "up" => \A u \in acked : InList(u)

SigningUp == ctx.op = "signup" /\ ctx.status = 200
Answering == todo # <<>> /\ todo[1] = "send"
SignedUpRecorded ==
    SigningUp => /\ InList(owner[ctx.token])
                 /\ Answering => InFile(owner[ctx.token])

NoRequestWhenDown == phase # "up" => ctx.op = "none"

DInv == AckedInFile /\ AckedInList /\ SignedUpRecorded /\ NoRequestWhenDown

LEMMA InitDInv == Init => DInv
BY DEF Init, DInv, AckedInFile, AckedInList, SignedUpRecorded, SigningUp,
       NoRequestWhenDown, NoCtx

(* When save_file() closes the file, whoever is in the list is in it.      *)
LEMMA ClosedFileHasAll ==
    ASSUME CommaFree, IInv, FInv, CloseFile, NEW u, InList(u)
    PROVE  InFile(u)
<1>1. PICK i \in DOMAIN users : users[i].username = u
  BY DEF InList
<1>2. /\ file \in Seq(Text) /\ users \in Seq(UserInfo(Locations))
  BY DEF IInv, TypeOK
<1>3. i \in DOMAIN file /\ file[i] = Line(users[i])
  BY <1>2 DEF CloseFile, FInv, WrittenPrefix
<1> QED BY <1>1, <1>3, UserChosen, NewUserFields DEF InFile

(* When load_file() returns, whoever is in the file is in the list.        *)
LEMMA LoadedListHasAll ==
    ASSUME IInv, FInv, FinishLoading, NEW u, InFile(u)
    PROVE  InList(u)
<1>1. /\ file \in Seq(Text) /\ users \in Seq(UserInfo(Locations))
  BY DEF IInv, TypeOK
<1>2. /\ DOMAIN users = DOMAIN file
      /\ \A i \in DOMAIN users : users[i] = ParseLine(file[i])
  BY <1>1 DEF FinishLoading, FInv, LoadedPrefix
<1> QED BY <1>2 DEF InFile, InList

-----------------------------------------------------------------------------
(* The handlers.                                                           *)

LEMMA OtherHandlerDInv ==
    ASSUME DInv, Idle, phase' = phase, UNCHANGED <<file, acked>>,
           \A u : InList(u) => InList(u)', ~SigningUp'
    PROVE  DInv'
<1>1. AckedInFile'
  BY DEF DInv, AckedInFile, InFile, Idle, Writing
<1>2. AckedInList' /\ NoRequestWhenDown'
  BY DEF DInv, AckedInList, NoRequestWhenDown, Idle
<1> QED BY <1>1, <1>2 DEF DInv, SignedUpRecorded

LEMMA SignUpDInv ==
    ASSUME IInv, DInv, NEW u \in Usernames \cup {Missing},
           NEW p \in Passwords \cup {Missing}, SignUp(u, p)
    PROVE  DInv'
<1>1. Idle /\ UNCHANGED <<phase, file, acked>>
  BY DEF SignUp, Refuse, history
<1>2. CASE Refuse("signup", Missing, 400)
  <2>1. \A x : InList(x) => InList(x)'
    BY <1>2 DEF Refuse, InList
  <2>2. ~SigningUp'
    BY <1>2 DEF Refuse, Respond, SigningUp
  <2> QED BY <1>1, <2>1, <2>2, OtherHandlerDInv
<1>3. ASSUME NEW token \in Tokens, u \in Usernames, generate_token(token, u),
             Respond("signup", token, 200, <<>>, SignUpSteps),
             users' = Append(users, NewUserInfo(u, p))
      PROVE  DInv'
  <2>1. users \in Seq(UserInfo(Locations)) /\ TypeOK
    BY DEF IInv, TypeOK
  <2>2. /\ \A i \in DOMAIN users : i \in DOMAIN users' /\ users'[i] = users[i]
        /\ Len(users) + 1 \in DOMAIN users'
        /\ users'[Len(users) + 1] = NewUserInfo(u, p)
    BY <1>3, <2>1
  <2>3. \A x : InList(x) => InList(x)'
    BY <2>2 DEF InList
  <2>4. InList(u)'
    BY <2>2, NewUserFields DEF InList
  <2>5. owner'[token] = u /\ ctx'.token = token /\ todo'[1] = "save"
    BY <1>3, <2>1, TokenLemma DEF Respond, SignUpSteps
  <2>6. SignedUpRecorded'
    BY <2>4, <2>5 DEF SignedUpRecorded, Answering
  <2>7. AckedInFile'
    BY <1>1 DEF DInv, AckedInFile, InFile, Idle, Writing
  <2>8. AckedInList' /\ NoRequestWhenDown'
    BY <1>1, <2>3 DEF DInv, AckedInList, NoRequestWhenDown, Idle
  <2> QED BY <2>6, <2>7, <2>8 DEF DInv
<1> QED BY <1>2, <1>3 DEF SignUp

LEMMA ChangePasswordDInv ==
    ASSUME IInv, DInv, NEW auth, NEW old, NEW new,
           ChangePassword(auth, old, new)
    PROVE  DInv'
<1>1. Idle /\ UNCHANGED <<phase, file, acked>>
  BY DEF ChangePassword, Refuse, history
<1>2. ~SigningUp'
  BY DEF ChangePassword, Refuse, Respond, SigningUp
<1>3. UNCHANGED users \/ \E name : users' = WithPassword(name, new)
  BY DEF ChangePassword, Refuse
<1>4. \A x : InList(x) => InList(x)'
  <2>1. CASE UNCHANGED users
    BY <2>1 DEF InList
  <2>2. ASSUME NEW name, users' = WithPassword(name, new)
        PROVE  \A x : InList(x) => InList(x)'
    <3>1. users \in Seq(UserInfo(Locations))
      BY DEF IInv, TypeOK
    <3>2. ASSUME NEW i \in DOMAIN users
          PROVE  i \in DOMAIN users' /\ users'[i].username = users[i].username
      <4>1. users[i] \in UserInfo(Locations)
        BY <3>1
      <4>2. [users[i] EXCEPT !.password = new].username = users[i].username
        BY <4>1 DEF UserInfo
      <4> QED BY <2>2, <4>2 DEF WithPassword
    <3> QED BY <3>2 DEF InList
  <2> QED BY <1>3, <2>1, <2>2
<1> QED BY <1>1, <1>2, <1>4, OtherHandlerDInv

LEMMA SessionHandlerDInv == ASSUME DInv, SessionHandler PROVE DInv'
<1>1. /\ Idle /\ ctx'.op # "signup"
      /\ UNCHANGED <<phase, users, file, acked>>
  BY SessionHandlerKeeps
<1>2. (\A x : InList(x) => InList(x)') /\ ~SigningUp'
  BY <1>1 DEF InList, SigningUp
<1> QED BY <1>1, <1>2, OtherHandlerDInv

-----------------------------------------------------------------------------
(* The process and the rest of a handler.                                  *)

LEMMA ProcessDInv ==
    ASSUME SavesComplete, IInv, FInv, DInv,
           Start \/ LoadLine \/ FinishLoading \/ LoadFails \/ Crash
    PROVE  DInv'
<1>1. CASE Start \/ LoadLine
  <2>1. phase # "up" /\ phase' # "up" /\ UNCHANGED <<file, todo, ctx, acked>>
    BY <1>1 DEF Start, LoadLine, history
  <2> QED BY <2>1 DEF DInv, AckedInFile, AckedInList, SignedUpRecorded,
          NoRequestWhenDown, InFile, Writing, SigningUp
<1>2. CASE FinishLoading
  <2>1. /\ phase = "loading" /\ todo = <<>> /\ ctx.op = "none" /\ ~Writing
        /\ UNCHANGED <<users, file, todo, ctx, acked>>
    BY <1>2 DEF FinishLoading, memory, history, FInv, StepsOrdered, DInv,
                NoRequestWhenDown, Writing
  <2>2. \A u \in acked : InFile(u) /\ InList(u)
    BY <1>2, <2>1, LoadedListHasAll DEF DInv, AckedInFile
  <2> QED BY <2>1, <2>2 DEF FinishLoading, DInv, AckedInFile, AckedInList,
          SignedUpRecorded, NoRequestWhenDown, InFile, InList, SigningUp
<1>3. CASE Crash
  <2>1. ~Writing
    BY <1>3 DEF Crash, SavesComplete
  <2>2. phase' = "down" /\ ctx' = NoCtx /\ UNCHANGED <<file, acked>>
    BY <1>3 DEF Crash
  <2> QED BY <2>1, <2>2 DEF DInv, AckedInFile, AckedInList, SignedUpRecorded,
          NoRequestWhenDown, InFile, SigningUp, NoCtx
<1>4. CASE LoadFails
  BY <1>4 DEF LoadFails, SavesComplete
<1> QED BY <1>1, <1>2, <1>3, <1>4

LEMMA SendDInv == ASSUME IInv, FInv, DInv, Send PROVE DInv'
<1>1. /\ Answering /\ ~Writing /\ phase = "up"
      /\ UNCHANGED <<phase, users, file, owner>>
      /\ ctx' = ctx \/ ctx' = NoCtx
  BY DEF Send, StepDone, memory, Answering, Writing, FInv, StepsOrdered
<1>2. acked' = acked \/ (SigningUp /\ acked' = acked \cup {owner[ctx.token]})
  BY DEF Send, SigningUp
<1>3. \A u \in acked' : InFile(u) /\ InList(u)
  BY <1>1, <1>2 DEF DInv, AckedInFile, AckedInList, SignedUpRecorded
<1>4. AckedInFile' /\ AckedInList' /\ NoRequestWhenDown'
  BY <1>1, <1>3 DEF AckedInFile, AckedInList, NoRequestWhenDown, InFile, InList
<1>5. SignedUpRecorded'
  <2>1. CASE ctx' = NoCtx
    BY <2>1 DEF SignedUpRecorded, SigningUp, NoCtx
  <2>2. CASE ctx' = ctx
    BY <1>1, <2>2 DEF DInv, SignedUpRecorded, SigningUp, InFile, InList
  <2> QED BY <1>1, <2>1, <2>2
<1> QED BY <1>4, <1>5 DEF DInv

LEMMA CloseFileDInv ==
    ASSUME CommaFree, IInv, FInv, DInv, CloseFile PROVE DInv'
<1>1. /\ phase = "up" /\ UNCHANGED <<phase, users, file, owner, acked>>
      /\ ctx' = ctx \/ ctx' = NoCtx
  BY DEF CloseFile, StepDone, memory, history, Writing, FInv, StepsOrdered
<1>2. AckedInFile' /\ AckedInList' /\ NoRequestWhenDown'
  BY <1>1, ClosedFileHasAll
     DEF DInv, AckedInFile, AckedInList, NoRequestWhenDown, InFile, InList
<1>3. SignedUpRecorded'
  <2>1. CASE ctx' = NoCtx
    BY <2>1 DEF SignedUpRecorded, SigningUp, NoCtx
  <2>2. CASE ctx' = ctx
    <3>1. SigningUp => InList(owner[ctx.token]) /\ InFile(owner[ctx.token])
      BY ClosedFileHasAll DEF DInv, SignedUpRecorded
    <3> QED BY <1>1, <2>2, <3>1 DEF SignedUpRecorded, SigningUp, InFile, InList
  <2> QED BY <1>1, <2>1, <2>2
<1> QED BY <1>2, <1>3 DEF DInv

LEMMA RestOfHandlerDInv ==
    ASSUME CommaFree, SavesComplete, IInv, FInv, DInv,
           \/ Send \/ SendFails
           \/ OpenFile \/ OpenFails \/ WriteLine \/ WriteFails \/ CloseFile
    PROVE  DInv'
<1>1. CASE SendFails
  <2>1. /\ ~Writing /\ phase = "up" /\ ctx' = NoCtx
        /\ UNCHANGED <<phase, users, file, acked>>
    BY <1>1 DEF SendFails, memory, history, Writing, FInv, StepsOrdered
  <2> QED BY <2>1 DEF DInv, AckedInFile, AckedInList, SignedUpRecorded,
          NoRequestWhenDown, SigningUp, InFile, InList, NoCtx
<1>2. CASE OpenFile \/ WriteLine
  <2>1. /\ Writing' /\ todo'[1] = "write"
        /\ UNCHANGED <<phase, users, ctx, owner, acked>>
    <3>1. CASE OpenFile
      <4>1. Tail(todo) \in Seq(Steps) /\ <<"write">> \in Seq(Steps)
        BY <3>1 DEF OpenFile, IInv, TypeOK, Steps
      <4>2. /\ (<<"write">> \o Tail(todo))[1] = "write"
            /\ <<"write">> \o Tail(todo) # <<>>
        BY <4>1
      <4> QED BY <3>1, <4>2 DEF OpenFile, Writing, memory, history
    <3>2. CASE WriteLine
      BY <3>2 DEF WriteLine, Writing, memory, history
    <3> QED BY <1>2, <3>1, <3>2
  <2> QED BY <2>1 DEF DInv, AckedInFile, AckedInList, SignedUpRecorded,
          NoRequestWhenDown, SigningUp, Answering, InList
<1>3. CASE OpenFails \/ WriteFails
  BY <1>3 DEF OpenFails, WriteFails, SavesComplete
<1> QED BY <1>1, <1>2, <1>3, SendDInv, CloseFileDInv

-----------------------------------------------------------------------------
LEMMA NextDInv ==
    ASSUME CommaFree, SavesComplete, IInv, FInv, DInv, [Next]_vars
    PROVE  DInv'
<1>1. CASE Handle
  BY <1>1, SignUpDInv, ChangePasswordDInv, SessionHandlerDInv
     DEF Handle, SessionHandler
<1>2. CASE UNCHANGED vars
  BY <1>2 DEF DInv, AckedInFile, AckedInList, SignedUpRecorded,
     NoRequestWhenDown, SigningUp, Answering, InFile, InList, Writing, vars,
     memory, history
<1> QED BY <1>1, <1>2, ProcessDInv, RestOfHandlerDInv DEF Next

(* A user who was told that the sign-up succeeded is in users.txt at every *)
(* moment the file is not being rewritten: sign_up() saves before it       *)
(* answers, and each later save and reload keeps the user, for any number  *)
(* of users, requests, stops and failed responses.                         *)
THEOREM AnsweredSignUpsKept ==
    ASSUME CommaFree, SavesComplete PROVE Spec => []UsersFileListsAcked
<1>1. IInv /\ FInv /\ DInv /\ [Next]_vars => DInv'
  BY NextDInv
<1>2. FInv /\ DInv => UsersFileListsAcked
  BY LineChosen DEF DInv, AckedInFile, InFile, UsersFileListsAcked
<1> QED BY <1>1, <1>2, InitDInv, Inductive, FileInductive, PTL DEF Spec
-----------------------------------------------------------------------------
(* The file and the list in memory.  They may differ only while a save is  *)
(* still to be done or under way; a failed response may drop a save.       *)

OnlyStops == Faults \subseteq {"crash"}

SaveDue == \E i \in DOMAIN todo : todo[i] = "save"
Saved ==
    /\ Len(file) = Len(users)
    /\ \A i \in DOMAIN users : file[i] = Line(users[i])
MInv == phase = "up" /\ ~SaveDue /\ ~Writing => Saved

LEMMA HandlerMInv == ASSUME IInv, MInv, Handle PROVE MInv'
<1>1. \/ UNCHANGED <<phase, users, file>> /\ Idle
      \/ todo' = SignUpSteps \/ todo' = ChangePasswordSteps
  <2>1. CASE SessionHandler
    BY <2>1, SessionHandlerKeeps
  <2>2. ASSUME NEW u, NEW p, SignUp(u, p)
        PROVE  (UNCHANGED <<phase, users, file>> /\ Idle) \/ todo' = SignUpSteps
    BY <2>2 DEF SignUp, Refuse, Respond
  <2>3. ASSUME NEW auth, NEW old, NEW new, ChangePassword(auth, old, new)
        PROVE  \/ UNCHANGED <<phase, users, file>> /\ Idle
               \/ todo' = ChangePasswordSteps
    BY <2>3 DEF ChangePassword, Refuse, Respond
  <2> QED BY <2>1, <2>2, <2>3 DEF Handle, SessionHandler
<1>2. CASE UNCHANGED <<phase, users, file>> /\ Idle
  BY <1>2 DEF MInv, Saved, SaveDue, Idle, Writing
<1>3. CASE todo' = SignUpSteps \/ todo' = ChangePasswordSteps
  <2>1. \E i \in DOMAIN todo' : todo'[i] = "save"
    <3>1. CASE todo' = SignUpSteps
      BY <3>1 DEF SignUpSteps
    <3>2. CASE todo' = ChangePasswordSteps
      BY <3>2 DEF ChangePasswordSteps
    <3> QED BY <1>3, <3>1, <3>2
  <2> QED BY <2>1 DEF MInv, SaveDue
<1> QED BY <1>1, <1>2, <1>3

LEMMA LoadedListSaved ==
    ASSUME CommaFree, IInv, FInv, FinishLoading PROVE Saved'
<1>1. /\ file \in Seq(Text) /\ users \in Seq(UserInfo(Locations))
  BY DEF IInv, TypeOK
<1>2. /\ Len(users) = Len(file) /\ DOMAIN users = DOMAIN file
      /\ \A i \in DOMAIN users : users[i] = ParseLine(file[i])
      /\ UNCHANGED <<users, file>>
  BY <1>1 DEF FinishLoading, FInv, LoadedPrefix, memory
<1>3. \A i \in DOMAIN users : file[i] = Line(users[i])
  BY <1>2, LineChosen
<1> QED BY <1>2, <1>3 DEF Saved

LEMMA SendMInv == ASSUME IInv, MInv, Send PROVE MInv'
<1>1. todo \in Seq(Steps) /\ todo # <<>> /\ todo[1] = "send"
  BY DEF IInv, TypeOK, Send
<1>2. todo' = Tail(todo) /\ UNCHANGED <<phase, users, file>>
  BY DEF Send, StepDone, memory
<1>3. SaveDue => SaveDue'
  <2> SUFFICES ASSUME NEW i \in DOMAIN todo, todo[i] = "save"
               PROVE  SaveDue'
    BY DEF SaveDue
  <2>1. i - 1 \in DOMAIN todo' /\ todo'[i - 1] = todo[i]
    BY <1>1, <1>2
  <2> QED BY <2>1 DEF SaveDue
<1>4. ~Writing
  BY <1>1 DEF Writing
<1> QED BY <1>2, <1>3, <1>4 DEF MInv, Saved

LEMMA NextMInv ==
    ASSUME CommaFree, OnlyStops, IInv, FInv, MInv, [Next]_vars
    PROVE  MInv'
<1>1. CASE Start \/ LoadLine \/ Crash
  BY <1>1 DEF Start, LoadLine, Crash, MInv
<1>2. CASE FinishLoading
  BY <1>2, LoadedListSaved DEF MInv
<1>3. CASE SendFails \/ OpenFails \/ WriteFails \/ LoadFails
  BY <1>3 DEF SendFails, OpenFails, WriteFails, LoadFails, OnlyStops
<1>4. CASE OpenFile
  <2>1. Tail(todo) \in Seq(Steps) /\ <<"write">> \in Seq(Steps)
    BY <1>4 DEF OpenFile, IInv, TypeOK, Steps
  <2>2. /\ (<<"write">> \o Tail(todo))[1] = "write"
        /\ <<"write">> \o Tail(todo) # <<>>
    BY <2>1
  <2> QED BY <1>4, <2>2 DEF OpenFile, Writing, MInv
<1>5. CASE WriteLine
  BY <1>5 DEF WriteLine, Writing, MInv
<1>6. CASE CloseFile
  <2>1. /\ file \in Seq(Text) /\ users \in Seq(UserInfo(Locations))
    BY DEF IInv, TypeOK
  <2>2. Saved /\ UNCHANGED <<users, file>>
    BY <1>6, <2>1 DEF CloseFile, FInv, WrittenPrefix, Saved, memory
  <2> QED BY <2>2 DEF MInv, Saved
<1>7. CASE UNCHANGED vars
  BY <1>7 DEF MInv, Saved, SaveDue, Writing, vars, memory
<1> QED BY <1>1, <1>2, <1>3, <1>4, <1>5, <1>6, <1>7, HandlerMInv, SendMInv
        DEF Next

(* Between two requests users.txt is the saved form of the list in memory, *)
(* passwords included, when sends and writes succeed, for any number of    *)
(* changes, stops between two steps, and reloads.                          *)
THEOREM FileIsMemory ==
    ASSUME CommaFree, OnlyStops PROVE Spec => []DiskMatchesMemory
<1>1. Init => MInv
  BY DEF Init, MInv
<1>2. IInv /\ FInv /\ MInv /\ [Next]_vars => MInv'
  BY NextMInv
<1>3. IInv /\ MInv => DiskMatchesMemory
  <2> SUFFICES ASSUME IInv, MInv, Idle
               PROVE  file = [i \in DOMAIN users |-> Line(users[i])]
    BY DEF DiskMatchesMemory
  <2>1. /\ file \in Seq(Text) /\ users \in Seq(UserInfo(Locations))
    BY DEF IInv, TypeOK
  <2>2. Saved
    BY DEF MInv, Idle, SaveDue, Writing
  <2>3. /\ DOMAIN file = DOMAIN users
        /\ file = [i \in DOMAIN file |-> file[i]]
    BY <2>1, <2>2 DEF Saved
  <2> QED BY <2>2, <2>3 DEF Saved
<1> QED BY <1>1, <1>2, <1>3, Inductive, FileInductive, PTL DEF Spec
=============================================================================
