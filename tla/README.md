# Verification of the weather service

A TLA+ development for the code in `src/`: a small HTTP server with user accounts
(`httpServer.cpp`, `weather-service.cpp`, `helpers.cpp`), the socket library it is built
on (`cas/`), and a menu-driven client (`httpClient.cpp`). TLC checks small instances, TLAPS
proves theorems for every instance.

## 1. Inventory of the system

| Part | State it keeps | Operations | Talks to |
|---|---|---|---|
| **Account service** `src/weather-service.cpp` | `_users` (list), `_sessions` (token -> copy of a user, with locations), `_isAuthenticated`, `_bearer` | `sign_up`, `log_in`, `log_out`, `is_logged_in`, `change_password`, `subscribe`, `unsubscribe`, `get_locations`, `authenticate` | called by `handle_context()`; calls `save_file()`, sends through the context |
| **users.txt** `src/helpers.cpp` | the file, one `name,password` per line | `load_file()` at start, `save_file()` after sign-up and password change | account service, `strhelp::split` |
| **Server program** `src/httpServer.cpp` | none of its own | `main()`: get a context, handle it, catch `ServerException`, for ever; `handle_context()`: routes to the service or to files of `www` | event loop, account service |
| **Event loop** `cas/src/http-server.cpp` | `_fds` (the listening socket first), the result of `get_ctx()` | `get_ctx`, `handleAccept`, `handleRead`, `send_response_async`, `close_client_connection` | kernel (`poll`, `accept`, `read`, `send`, `close`), `FdReader` |
| **Descriptor reader** `cas/src/fd-reader.cpp` | `_buffer`, `_index`, `_nBytes`, `_connected` | `read_next`, `eos`, `still_connected` | used by both sides |
| **Message framing** loops in `handleRead()` and `make_request()` | `seqCheck`, the header and the body so far | find the blank line, take `Content-Length` characters | descriptor reader |
| **Messages** `cas/src/http-request.cpp`, `http-response.cpp` | first line, headers, status | `to_string()`, `init_from_raw_http_header()` | both sides; `split`, `trim` |
| **HTTP client** `cas/src/http-client.cpp` | descriptor | connect, send, read the response | framing, messages |
| **Client program** `src/httpClient.cpp` | `g_Bearer`, place in the menus | one request per menu entry, and one per turn of the loop to ask whether the token is good | HTTP client |
| **String helpers, base64, tokens** | none | `split`, `trim`, `base64_encode`, `generate_token` | everybody |

The server awaits each `std::async` at once, so it is one thread of control: poll, accept
or read one request, handle it, send, poll again. Concurrency comes from outside: clients
connect, send parts of requests, close and reset at any moment, several of them as the same
user, and the process may stop at any moment.

What is hard here, and what makes each part correct:

* *Order of answer and save.* `sign_up()` saves and then sends, `change_password()` sends and
  then saves. Between the two the process may stop, and an exception from `send()` skips what
  follows. Correct: a user whose sign-up was answered is in the file; between requests the
  file is what memory is.
* *Rewriting the file.* It is truncated and written line by line; a stop in between and a failed
  `open` change what the next start reads. Correct: names stay unique, no name or password
  appears that nobody chose, and what a stop leaves is some of the accounts.
* *Left-over members.* `_isAuthenticated` and `_bearer` survive the request that set them;
  `operator[]` on `_sessions` creates what is not there. Correct: a request touches only the
  session of its own token; the sessions are exactly the tokens issued and not revoked.
* *Copies.* A session holds a copy of the user's password and a list of locations of its own.
  Correct: the service is one of accounts and sessions, as `Accounts` states it.
* *Descriptor table.* Entries of `_fds` are erased by index in a loop, descriptors are closed
  and given out again, exceptions leave an entry behind. Correct: `_fds` is the table of open
  descriptors, and each response goes to the client whose request it answers.
* *The result of `get_ctx()`* is a local that outlives a client who goes away mid-request.
* *Blocking reads in an event loop*, `accept()` before everything else, descriptors used up, and
  a parser that does not come to an end on a header that was cut off.
* *Framing.* `read()` may cut a message anywhere, also inside the blank line; the buffer has
  room for a terminator that must be kept free.
* *A client and a server that fail separately.* The sessions end with the server and the token
  lives on in the client; a connection that ends, is reset or fails to send leaves
  `HttpClient` in different states; a response that never came has the status 200. Correct: a
  client holds a token of its own, forgets none that is alive, and shows the menu and the list
  that belong to its session.
* *Text.* Unsigned indices that walk past both ends in `trim()`, a `split()` with a limit,
  signed characters in base64.

`PROJECT.json` lists every hazard at its line with the properties that cover it.

## 2. Modules

| Module | Models |
|---|---|
| `UsersFile` | texts, the lines of `users.txt`, `split` and the line parser; no state |
| `WeatherService` | the account service with `users.txt`, the responses it sends and stops of the process |
| `Accounts` | what the service promises: accounts, sessions, one request after another, and what a stop leaves |
| `AccountsRefinement` | `WeatherService` as an implementation of `Accounts` |
| `HttpServer` | clients, kernel, event loop and the server program by kind of response |
| `MessageReader` | `FdReader` and the framing loops over it |
| `ClientApp` | runs of the client program over `HttpClient`, composed with `Accounts` |
| `HttpHeader` | how a header is written, cut off and parsed; `split`, `trim`, `base64_encode` by character |
| `WeatherServiceProofs`, `UsersFileProofs`, `DurabilityProofs` | theorems about `WeatherService`, each on top of the one before |
| `AccountsRefinementProofs` | the refinement, proved |
| `HttpServerProofs` | theorems about `HttpServer` |
| `MessageReaderProofs` | theorems about the reader's bounds, and what it makes of the messages |
| `HttpHeaderProofs` | theorems about `split`, `trim` and the parser |
| `ClientAppProofs` | theorems about `ClientApp` |
| `MC...` | values of the constants for TLC |

**WeatherService.** `users`, `sessions`, `isAuthenticated` and `bearer` are the members of the
class, `file` the lines on disk. A handler's changes to memory are one action, because nothing
else runs meanwhile (`SignUp`, `LogIn`, `LogOut`, `IsLoggedIn`, `ChangePassword`, `Subscribe`,
`Unsubscribe`, `GetLocations`; each with its refusals and `authenticate()` as a conjunct). What
the outside can observe in between is not one action: the handler leaves in `todo` the steps
that follow, in the order of the code, and `Send`, `SendFails`, `OpenFile`, `OpenFails`,
`WriteLine`, `WriteFails` and `CloseFile` take them one at a time. `Crash` may come between any two.
`Start`, `LoadLine` and `FinishLoading` are a new process reading the file; `LoadFails` is one that cannot
open it and serves requests without the users in it. `Faults` says which
failures an instance has: `crash` (a stop, but not while the file is rewritten), `tornSave`
(a stop then), `sendFails`, `openFails` (for writing), `writeFails` (behind the truncation: this line and
those after it are not written), `loadFails`. A SIGPIPE, which ends the process because nothing
handles it, is a `crash`. `owner`, `revoked`, `acked` and `chosen` are history variables; the only use a
guard makes of them is that a generated token is new.

A text is a sequence of comma-free fields, because the comma is the only character the file
gives a meaning to. Joining and splitting then are what they are in the code, and a name
with a comma really does come back as something else.

**Accounts** has none of that: `accounts` is a function from names to passwords, `sessions` one
from tokens, a request is one step that sets `reply`, `saved` is what a stop would leave and
`saving` says that it is being replaced. Passwords are copied into sessions and lists of
locations belong to sessions, because clients can tell. `AccountsRefinement` maps the
service's state onto it: `accounts` is `_users` while the process is up and what
`load_file()` would make of the file while it is not; `saved` is what `load_file()` would make of the
file, or of `_users` while the file is being rewritten. So `Writing` is where `Accounts` begins a
save, a stop or a failed write then leaves `Restrict(saved, kept)`, and a reload that took a line for something
else, a handler that worked on the wrong user or session, a failed open that did more than nothing, or a
failed write that left a password no account had would be a step that `Accounts` does not have. The
constants `LoadsFail` and `SavesFail` say whether the two failures that cost accounts can happen.

**HttpServer.** `open` is the kernel's descriptor table, `fds` is `_fds` without the listening
socket, which is always readable exactly when `backlog` is not empty and goes first. `pc` is
the place of the server's thread; `raw`, `cut`, `result` and `cur` are locals of `handleRead()` and
`get_ctx()`. A request arrives in any number of pieces, each with some header lines. A line's value is
of one of three kinds: `keep-alive`, `colon` (any value with a colon in it: the line is split at its colons,
and with more than two pieces it is not assigned), `other`. A header that was assigned carries the request it
came in, which is what lets `OwnHeadersWin` and `ForeignHeadersAbandoned` tell whose header a handler
sees: with `colon`, or without the header, it may be that of an abandoned request. `KeepAlive` looks at the same
merged headers, so a page's connection may be kept for a header of someone who is gone. `Cuts` says where the pieces of a request
may end: `edge` stands for the request line and for a header with only its last line feed
missing, `line` for everything in between. When the connection ends there, the parser of the
abandoned header goes on for ever (`ParseHangs`, `pc = "stuck"`); which cuts do that is what
`HttpHeader` shows character by character. Clients wait for the response before
they send again (`HttpClient::make_request` is synchronous), and may close or reset whenever
they like. The kernel gives out the lowest free descriptor; after a reset `read()` or
`send()` reports one error and after it the end of the stream.

**MessageReader.** `buffer` with its NUL and its bytes nobody has written, `index`, `nBytes`, as in
`FdReader`. `read()` returns any non-empty part of what has arrived that fits, or fails
(`ReadFails`, after which `_nBytes` is -1 and the reader is not used again). `seqCheck` is the
automaton for the blank line. The peer's messages are a constant; the connection may end
anywhere, losing what has not arrived. What the messages of two correct programs have in common is
`FramingAssumption`: the lines of a header are not empty, and a LF stands only between two of them
(`to_string()`, of values that `getline()` has read), while CR may stand anywhere; the `Content-Length`
in it is that of the body, also behind what is left of the body before (`build_http_request_str()`,
`send_response_async()`); no body has a CR LF. The pages of `www/` do have some, but only a browser gets
those. No message has a NUL in it, which would end what `eos()` sees of a buffer.

A CR is worth a word, because nothing takes it out of what the user types. Within a header it does no
harm. At its very end (`EndsInCR`), as the last character of the last value, it makes the automaton miss
the blank line: after CR the blank line's own CR resets `seqCheck`, and both sides wait. `NoMutualWait` and
`AllReceived` name this as their exception, and the run has such a header.

**ClientApp.** Each client is one run of `httpClient.cpp`. `at` is the place in `main()`'s loop
(`top`, waiting in `make_request()`, at one of the two menus, ended), `bearer` is `g_Bearer`,
`connection` what the descriptor is good for: `up`, `ended` (the server closed it), `reset` (with
the request unread), `broken` (the next `send()` raises SIGPIPE), `closed` (by `make_request()`
after a failed `send()`; nothing opens another). `Loop`, `Pick`, `Receive` and `ReadFails` are the
program, `Launch`, `Kill` begin and end it. On the server's side a request is read (`Serve`), handled
as `Accounts` says, and answered (`Respond`) before, during or after the save; several clients
may have requests waiting. `Stop` ends every connection. `openedBy` and `listed` are history
variables: for whom a token was generated, and the list that follows from the responses the user
has seen; only the bound on a list's length looks at one of them. In `HttpServer` the clients are arbitrary and
the requests empty, here the event loop is only a choice of the next request; what
connects the two is that responses reach their requesters (`AnswersOwnRequests`, proved) and that
requests are served (`RequestIsServed`, checked).

**HttpHeader.** One message per behaviour: `to_string()` writes it, it arrives whole or cut at any
character, `ReadFirstLine`, `ParseHeader` and `Stop` are the parser over its `istringstream`, with
`getline()` leaving its argument alone once the stream has failed. The text functions
are translated by character with the width of their integers: `trim()` walks to `(size_t) -1`, and
base64 has the shifts of a signed `char`. `HeaderAssumption` and `StatusAssumption` say what is
always true of these messages: names are distinct (`headers` is a map) and without blanks or colons, values have no ends of
lines, a value is shorter than `size_t` can count, a first line has three fields, and the second is a status of
three digits (`set_status()`) or a path.

## 3. Runs

| Run | Expected | What it shows | Instance |
|---|---|---|---|
| `service_safety` | pass | the service implements `Accounts`; types, unique names, live sessions, no invented credentials, and that requests act only on the session and the user of their token | 2 names, 2 passwords, 2 tokens, all faults |
| `service_durability` | pass | an answered sign-up is in the file; between requests the file is memory; lists with duplicates are what `Accounts` says | 2 names, 2 passwords, 2 tokens, 2 locations, lists of 2, stops outside of writing |
| `server_requests` | pass | descriptor table, closing, whose response, whose headers a handler sees, and that no complete request is lost | 3 clients with 2 requests between them, 2 descriptors, 1 header, keep-alive or with a colon |
| `server_progress` | pass | every request is answered, every ended connection is closed | 2 clients of 2 requests, 3 descriptors |
| `reader_framing` | pass | buffer bounds, order of characters, framing, progress; reader and peer never wait for each other but behind a header that ends in a CR | buffer of 4, 5 messages |
| `client_sessions` | pass | each client's token, sessions, menu and list; no client waits for a response that nobody owes it | 2 clients, 1 user, 3 tokens, all faults |
| `client_progress` | pass | a client gets back to its menu or ends | 2 clients, 1 token, all faults |
| `text_handling` | pass | which values and which status arrive, when the parser ends and that each pass of it reads, text functions against their definitions | 2 headers, values of up to 3 characters |
| `torn_save` | violation | a stop during the rewrite loses users who were answered long ago | 2 names |
| `body_cut` | violation | a body that arrives late is cut off | buffer of 8 |
| `abandoned_request` | violation | a header that is cut off hangs the server while another client waits | 2 clients |
| `false_login` | violation | a response that never came is taken for a successful log-in | 1 client, a stop |

The bounds, and why they suffice:

* `Tokens` bounds the sessions ever opened. Two make "someone else's session" and two sessions
  of one user possible, and two sign-ups with a stop and a reload between them; the third of
  `client_sessions` is a session opened while two are alive or forgotten.
* Two names and two passwords: a clash of names, a wrong password and a changed one. The clients
  share one name and one password: that is the case in which one could get into the other's
  session.
* `MaxLocations` bounds a list: to one place in `service_safety`, which is about everything else, to two in
  `service_durability` and `client_sessions`, where a location can be in a list twice. The proofs
  (`Implementation`, `ListsAsTold`) do not depend on it.
* Three clients on two descriptors is the smallest instance in which an entry of `_fds` and its
  descriptor differ (the first client leaves, the third gets its number) and in which
  `accept()` and the opening of a page fail. `MaxRequests` bounds the requests of one connection,
  `MaxSent` those of all together: in `server_requests` two, of one client, whose responses have an order, or
  of two, while every client may have begun one more or have abandoned it. Its two kinds of value are those
  `OwnHeadersWin` tells apart, one that is assigned and one that is not; `server_progress` has `keep-alive`
  alone, with or without which a page's connection is kept or closed.
  The cut `line` is left to `server_progress` and `abandoned_request`: after it the server does nothing more.
* A buffer of four is as long as the blank line, so a message takes several reads and the cut
  falls at each of the line's characters.
* The values of `text_handling` are all those of up to two characters out of a letter, half of a
  two-byte character (negative as a `char`), colon and blank, and two of three for the third byte
  of base64; the digits are those of two status codes. `SizeRange` stands for the range of
  `size_t` and is longer than any text; `val` keeps the 16 bits that base64 looks at.

`CHECK_DEADLOCK FALSE` stands in no run of the service and in every other that is to pass: there clients and
messages are finite, and a server without clients waits in `poll()`. The service's runs check
deadlock: with or without tokens left, some request can always be refused or answered.

*Restrictions of the passing runs.* `service_safety` and `service_durability` use names and
passwords without a comma: a user with one does not come back from the file under the same name.
`service_durability` leaves out `tornSave`
(shown by `torn_save`), `openFails` and `writeFails` (the stream's failure is ignored by the code, so nothing
is saved, or not all), `loadFails` (the next save replaces the file that could not be read) and `sendFails` (a
password change whose response fails is not saved until the next save). All five are in `service_safety`. `writeFails` and `loadFails` are among the faults of `client_sessions` and `client_progress` as well.
`server_progress` has a descriptor to spare: without one
`accept()` fails before any other event is looked at, for ever, and no accepted client is served.
Its properties also assume that the thread is never stuck in the parser, and
`abandoned_request` shows that the assumption is needed. `PromptReturns` leaves out a client that
has a token and has failed to send: its loop asks the server, fails, and asks again.

*Fairness.* Weak fairness of the server's thread: it is scheduled while it is not blocked in
`poll()` or `read()`. For `server_progress` also `WF(Completes(c))`: a client that has sent part
of a request sends the rest or goes away, which is what `HttpClient` does, since it sends a
request with one `send()`. `reader_framing` assumes that the reading thread runs and
that the peer sends its next message, `text_handling` that the parser runs. `client_progress` assumes
that the client's thread runs (`Loop`, `Receive`, `ReadFails`), that the handler of a request goes on (`Respond`,
`Done` or `EndSave`), and strong fairness of `Serve(c)`: between two handlers the server is ready
again and again, and that it gets to every request is `RequestIsServed`. Nothing is assumed about
hanging up, connecting, what the user picks, starting the server again or the next request.

Every property of a passing run has a mutant in `PROJECT.json`: a plausible error in one
definition that TLC finds with the same configuration. The faulty variants stand in the
modules before the definition they vary, marked as such, and are used nowhere else.

What the four violations say of the code:

* `torn_save`: `save_file()` truncates the file first, so a stop loses registered users.
* `body_cut`: `make_request()` stops the body at the end of one `read()`.
* `abandoned_request`: `getline()` on a failed stream keeps the old line, so a header that is
  cut off in the middle is parsed for ever, by the server's only thread.
* `false_login`: `HttpResponse` begins with the status 200 and keeps it when nothing was received.

Two things were met besides, and are stated in the properties as the code has them:
`README.md` says that a client may disconnect and reconnect "while maintaining their session";
the server allows it, the client program has no way to do it. A user name or a password that ends in a CR can be
the last header value of a request, and the server waits for the end of that header for ever (`EndsInCR`); no line of
the repository says otherwise. And `logout()` of the client
keeps the token, so it asks the server once more before it shows the first menu.

One exception is part of a property: `RequestsKept` has to leave out the page that cannot be opened, nor its
`404.html`, when no descriptor is left. That request is dropped without a response, and its client waits for ever.

## 4. Proofs

`WeatherServiceProofs` proves, for any names and passwords (commas included), any number of users, tokens
and locations, and any set of faults, from the assumptions `TextAssumption` and
`ServiceAssumption` on the constants:

* `TypeCorrect`: `Spec => []TypeOK`;
* `SessionsLive`: `Spec => []SessionsAreLive`;
* `OwnSessionOnly`: `Spec => OnlyOwnSessionTouched`;
* `OwnPasswordOnly`: `Spec => OnlyOwnerChangesPassword`.

The argument is one inductive invariant, `IInv`: `TypeOK`, `SessionsAreLive`, and that the
response to a successful sign-up names a token that has an owner. `TypeOK` alone is not
inductive: `Send` records the owner of the token it hands out, so the token must be known to
have one; and a handler that passed `authenticate()` reads `sessions[bearer']`, which needs
`AuthenticateLemma` (after a successful `authenticate()`, `_bearer` is the token of this very
request, and it has a session). `SessionsAreLive` is what carries a user's name from the
session to the owner of the token, so `OwnPasswordOnly` rests on it. There is one lemma per
action, the shared ones on `StoreSession`, `Refuse` and the lines of the file first; the two
action properties are then proved action by action under `IInv`.

`UsersFileProofs` and `DurabilityProofs` add what is only true of names and passwords without a
comma (`CommaFree`, an assumption of each theorem):

* `NamesUnique`: `Spec => []UniqueUsernames`, for any set of faults;
* `OnlyChosenCredentials`: `Spec => []NoInventedCredentials`, for any set of faults;
* `AnsweredSignUpsKept`: `Spec => []UsersFileListsAcked`, if a rewrite is not cut off and the file
  can be opened, written and read (`SavesComplete`); failed responses and stops anywhere else are allowed;
* `FileIsMemory`: `Spec => []DiskMatchesMemory`, if there are only stops outside of a rewrite
  (`OnlyStops`).

The invariant of the first two is `FInv`. That names are unique in memory is not inductive, since
a reload replaces the list by the file: so the file must have unique names and accepted pairs
too, and because it is the file in the middle of a rewrite that a stop leaves, `WrittenPrefix`
says that it is then a prefix of the list, and `LoadedPrefix` the same of loading.
`StepsOrdered` says that a rewrite under way is always the next thing the handler does. `DInv` is about
the users who were answered: they are in the file, and in the list as well, because the next
save writes the list; and the user whose answer is still to be sent is in both. This is where
the order of `sign_up()`, save first, is used. `MInv` says that the file is the list unless a
save is due or under way.

`AccountsRefinementProofs` proves `Implementation`: with `CommaFree`, `Spec => ImplementsAccounts`
for every value of the constants and any set of faults. The initial state maps to one of
`Accounts`, and under `IInv`, `FInv` and `RInv` every step maps to a step or to none. `RInv` says
what is left of a request (there are steps to do exactly while a request is being handled,
only a sign-up or a password change saves, a process that is not up has no sessions). The
mapped variables are functions made of lists of users, so the lemmas `AccountOf`, `AccountFrom` and `AccountsAre`
come first: with unique names, such a function has exactly the names and passwords of the list.
Then one lemma per action: `SignUpContract` adds one account, `ChangePasswordContract` replaces
one password in the list wherever the name stands, `FinishLoadingContract` says that memory is what
the file gave back and `LoadFailsContract` that it is nothing, `PartOfAccounts` and `CrashContract` that a prefix
of the list is some of the accounts, `CompleteFile` and `CloseFileContract` that a complete rewrite is all of
them and one that failed some.

`HttpServerProofs` proves, for any connections, headers, number of requests and of descriptors:

* `ServerTypeCorrect`: `Spec => []TypeOK`;
* `DescriptorsAlwaysMatch`: `Spec => []DescriptorsMatch`;
* `OwnAnswers`: `Spec => []AnswersOwnRequests`.

The invariant is `HInv`. A descriptor is for one connection only if a connection waiting in the
backlog is not open yet (`ConnsApart`); an index and a descriptor the thread holds must be valid
(`ThreadOnOpen`). That an answer is to the request its client waits for needs `OneRequest`:
a complete request is the last piece of its stream, and is either there or being handled, never
both; a client with neither has none outstanding. `RawOwned` bounds the request that abandoned
headers are counted to.

The same module proves `OwnHeadersAlwaysWin`, `ForeignHeadersAreAbandoned` and `ClosedOnlyWhenDone`. Their
invariant `OInv` extends `HInv` to the result that `get_ctx()` carries from one client to the next:
every header in it is of a client that has closed (`Abandoned`), which stays true because a closed
client sends nothing more (`StepKeepsClosed`). What the headers of a request are is what `ReadLines` has made of its
lines, so a header with a colon in its value is none of them; `ReadLinesTyped` is the lemma about it.

The last theorem of the module is what `RequestIsServed` rests on as far as it is safety:

* `NoRequestLost`: `Spec => RequestsKept`.

A complete request is under way while it is in the stream of a connection the server has, in the backlog or in
the table, or with the handler. The action property needs one more invariant, `CInv`: a client that has connected and
is not gone is in one of the two (`Connected`). A request can then be lost only with a connection that
is closed, or by a handler that ends early, and of these `PageFails` alone does not depend on the client.

`MessageReaderProofs` proves `ReaderTypeCorrect` (`Spec => []TypeOK`) and `ReaderStaysInBounds`
(`Spec => []ReaderInBounds`) for any buffer of at least two bytes and any messages. Together they
are almost inductive (`RInv`): the NUL at `nBytes` is what stops `eos()`; what is added is that
the header read so far is free of terminators as long as the connection lasts.
With `FramingAssumption` it also proves

* `NothingLostOrReordered`: `Spec => []InOrder`;
* `HeadersStayInStep`: `Spec => []HeadersInStep`.

Neither holds on its own: that the third header is read right depends on where the second body
ended. The invariant `FInv` says where the reader is in what was sent: `Stream` is what the messages
are made of from the end of the last one read (`Left` is what a body that was cut off has left
behind), `Counts` and `Pending` say that what is held in the buffer and on the way is its rest,
`HeaderSoFar` that the header so far is its beginning, that `seqCheck` counts characters of a blank line that do
end it (`Seen`; a CR in front may have hidden some), and that within the blank line it counts all of them unless
the header ends in a CR (`InBlankLine`). Here `FramingAssumption` is needed: a header and the blank line behind it have no
other blank line in them (`OnlyBlankLine`), so the automaton stops there and not before, whatever CRs it
has seen; a body has no line end, so no rest of one starts a blank line; and the length found in the header is the
body's, so that `FinishMessage` leaves nothing in the buffer.

From the same invariant follows that the two sides never wait for each other:

* `NeverBothWait`: `Spec => []NoMutualWait`.

A header that ends in a CR is the exception (`EndsInCR`). If the reader waits between two messages or in
another header, with nothing in the buffer (`NothingHeld`) or on the way, every message that was sent has been read: were there another, `Stream` would go on behind whatever part of its header
has been read (`MoreToRead`).

`HttpHeaderProofs` is about texts of any length, any number of headers and any cut, from
`HeaderAssumption` and `StatusAssumption`:

* `ParserTypeCorrect`: `Spec => []TypeOK`;
* `CutHeadersHang`: `Spec => []HangsWhenCut`;
* `ValuesAsSent`: `Spec => []ValuesArrive`;
* `StatusAsSent`: `Spec => []StatusArrives`;
* `SplittingIsExact`: `Spec => []SplitsAreExact`, and `EverySplitIsExact`, which says it of every text, delimiter
  and limit;
* `LocationListsReadable`: `Spec => []LocationsAreReadable`;
* `LoopRunsDown`: `Spec => []EveryPassReads`, and `PassesAreBounded`, that a pass takes something off;
* `TokensEncodeNames`: `Spec => []TokensAreBase64`.

`split()` is described twice. `Cuts` says where it cuts any text (`SplitIs`); `Laid` what a text looks like
that was put together from pieces and delimiters, with the place where each piece ends. That
splitting undoes the putting together is `SplitOfLaid`, the other way round `SplitIsLaid` and `SplitExact`; the
lists of locations, the lines of a header and the pair in each line are three uses of it. `TrimStrips` says
that `trim()` takes off the blanks at both ends and nothing else, which needs the bound on the length of a value: its
arithmetic is modulo `SizeRange`. The parser's invariants are `HInv`, where `Alive` says of a text that every
line of it is a header, also after any number of lines, so that a cut leaves the loop going
(`CutTextAlive`); `VInv`, which follows a whole header line by line, with as many lines read (`ReadTo`) as
values kept (`ParsedTo`); and `SInv`, that the fields are those of the line that arrived. A status that is cut off has
one or two digits and so is less than 200, which is why no cut behind the first blank makes another status
200 (`CutStatusRead`).

`LoopRunsDown` is the other half of `CutHeadersHang`: unless the header is cut off behind its first line, there is
something to read as long as the loop goes on; `PassesAreBounded` adds that every pass takes some of it, so
that there are no more passes than characters. It is what `ParserEnds`
needs of the data. The line that ends the loop begins with CR, and `KInv` says that this line is still ahead: a text is
`Dying` if it has such a line after some number of others, and stays so when a header is read
(`DyingStays`). A whole message is (`WholeTextDies`), and so is one cut off within its first line (`CutFirstLine`), where
nothing is left.

`TokensEncodeNames` follows `base64_encode()` through its fold. After each character the output has one
sextet per character and one more after every third, and `valb` is where the next begins (`Phase`); that holds for
every name, and gives the length and the alphabet. For plain ASCII `val` is also the last two characters
(`Exact`), in which every sextet that is written lies, so that the sextets are those of the definition. The shifts are
quotients and products by powers of two, of which only 1 to 128 occur: they are written as a table
(`TwoTo`), so that the provers see constants.

These functions are recursive over the length of a text, as is the folding of a list. What is
proved of them for every length goes through `NatInductionOnSet` and `LeastElement`, which take the set of
the lengths that are good and use that the order of the numbers is well-founded (`WFMin`).

`ClientAppProofs` proves, for any number of clients, users, tokens and faults:

* `OwnBearer`: `Spec => []BearerIsOwn`;
* `SessionsRemembered`: `Spec => []NoSessionForgotten`;
* `MenuFollows`: `Spec => MenuFollowsSession`;
* `ListsAsTold`: `Spec => []ListIsAsTold`, and `ClientTypeCorrect`: `Spec => []TypeOK`.

A token passes through three places on its way to the client: the server's reply, the response on
the connection, `g_Bearer`. `CInv` follows it through them, client by client: what is on the way is
at one place only (`OnTheWay`), a response fits the request its client waits for (`Fits`,
`Answered`), a request names the client's own token (`Asking`), and a client about to open a
session has none alive (`SafeToOpen`), which is where the first menu being shown only after a
refusal is used. `ServeEffect` says what a handler does to tokens and sessions, derived from
`Accounts` operation by operation. `LInv` adds the lists: the list at the server is the one the
user was told, with the response on its way counted in (`Tells`); `OneLessListed` is the fact that
removing the first occurrence on both sides gives the same list.

* `NobodyForgotten`: `Spec => []NobodyWaitsInVain`

is the safety part of `PromptReturns`: a client that waits has its request at the server, the response on its
connection, or a connection that has ended. It is inductive under `CInv`: the server takes a request only when the one before
is answered (`ServeExpects`), there is a response as long as one is owed (`RespondExpects`), and a client that
is owed one has a connection that is up, which a stop ends (`StopExpects`).

Only model-checked: the liveness properties, which are out of the prover's reach (`RequestIsServed`,
`DescriptorReclaimed`, `AllReceived`, `PromptReturns`, `ParserEnds`). What they need of the code
besides fairness is proved for four of the five: no request is dropped (`RequestsKept`), the reader does not block
on a message that has arrived (`NoMutualWait`), no client waits for what nobody owes it
(`NobodyWaitsInVain`), and each pass of the parser has something to read (`EveryPassReads`). Every other property of a passing
run is stated by a theorem. `LocationsAreReadable` is proved and in no run.

## 5. What is not modelled

* The table of `set_status()`: of the statuses only those the handlers use appear, as numbers.
* A write to `users.txt` that fails within a line: in front of the password the rest of a line is skipped by
  `load_file()` and so is no line in the model either, but one cut between two characters of a password leaves a
  shorter password, which `NoInventedCredentials` and `ImplementsAccounts` would not allow.
* Reading a page from its file (`read_file_contents()` joins the lines without their ends): the
  contents of pages are not the subject of any property.
* What a cut-off body leaves on the client's connection, where the next response begins:
  `MessageReader` has it, `ClientApp` takes responses as whole, as those of this server are small.
  For the same reason a response is not cut off in `ClientApp`, and the server's `send()` to a client
  that is waiting does not fail there; both are in `WeatherService` and `HttpServer`.
* Memory outside of a text: the byte that a failed `read()` writes before the buffer
  (`fd-reader.cpp:51`) and the one `trim()` reads before a blank text, which is taken to be 0.
* Requests sent without waiting for the response: the client does not do it.
* A client that sends requests for ever can keep later entries of `_fds` from being served; the
  number of requests is bounded in the model, so it does not happen there.
* Errors of the server's constructor, `set_port()`, `set_buffer_size()`, `shutdown()` and
  `is_client_connected()`: before the loop, after it, or never called.
* Web pages, build files, the exception types and the test program, which checks nothing of the
  system.

## 6. Plan

Done: the modules of section 2 and the theorems of section 4. What is left is of smaller worth: clients that reconnect
with their token, as `README.md` describes, which takes a client other than `httpClient.cpp`.
