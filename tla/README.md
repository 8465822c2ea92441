# TrueSight: verification project

TLA+ models of TrueSight, an end-to-end encrypted chat: a Qt desktop client (`client/`), a
C++ server over PostgreSQL (`server/`) and a browser client (`web_client/`). The models are
translated from the code; `docs/message-protocol-v2.md` supplies the promises they are held
against. TLC checks them on small instances and TLAPS proves the main safety results for
every value of the constants. `PROJECT.json` lists the runs, the lines each definition
models, the hazards, the mutants and the theorems.

Run everything from this directory, for example

    tlc -workers 2 -config ConversationOrder.cfg MCConversation.tla
    tlapm ConversationProofs.tla

## 1. Inventory

| component | state | operations | talks to |
|---|---|---|---|
| **MessengerController** `client/src/controllers/messenger.cpp` | open peer, messages on screen, conversation list, two generation counters, Lamport counters in QSettings | authenticated, reset, open, load, send, message received, import share, load the list | server over HTTP; push events from WebSocketClient; keys from IdentityKeys |
| **MessagesController** `server/src/controllers/messages.cpp` | table `messages` | GET a page, POST a message and announce it | Database, WebSocket |
| **challenge login** `get_challenge.cpp`, `validate_challenge.hpp`, `register.cpp` | tables `user_to_pk`, `auth_challenge` | register, get-challenge, validate-challenge | Database, JWT |
| **web client** `web_client/src/composables/useClient.js` | view, session, two generations, counters in IndexedDB | login, logout, open, refresh every 5 s, send, import | server over HTTP |
| **WebSocketClient** `client/src/controllers/websockets.cpp` | running, generation, pending token | run, stop, handleMessage; it never reconnects | server's push, MessengerController |
| **WebSocket, WebSocketSession** `server/src/ws/` | one session per user, outgoing queue, writing flag | accept, run, notify, write_loop | MessagesController |
| **AuthController** `client/src/controllers/auth.cpp` | generation; token and username in AppSettings | auth, autoLogin, logout | IdentityKeys, AppSettings, the server |
| **RegistrationController** `registration.cpp` | key bundle, share, four flags | begin, register, save, finish | the server, `Main.qml` |
| **IdentityKeys** `stores/identity_keys.cpp` | own keys, peers' keys, peers saved in QSettings | load bundle, import share, load, save and forget peers | Auth and Messenger controllers |
| **AppSettings** `app_settings.cpp` | saved login, token, user name | save and clear the login | AuthController |
| **ConversationsController** and the conversation list | none on the server; the list in the clients | one query; merge with imported peers | Database |
| **Database** `server/src/db/` | four threads with a connection each | exec_async | every controller |
| **HTTP server, Router, AuthMiddleware, JWT** | route table | one coroutine per connection; route, authenticate | every controller |
| **cryptography and formats** `crypto/`, `lib/crypto.js` | none | envelope, share payload, base64, AEAD, Ed25519, HKDF | clients and server |
| **QML screens, Vue components** | screen number, drafts, errors | navigation | the controllers |

How they interact. The Qt client is a set of coroutines on one event loop. A handler runs
to its `co_await` without interruption and may resume in another session, with another
conversation open, or after a newer load: `session_generation_`, `load_generation_` and
`peer_` are what it compares. The server runs one `io_context` thread; every SQL statement
is posted to a pool of four threads, so the statements of concurrent handlers interleave
while the code between two statements does not. The messages of one conversation pass from
the sender's counter and settings file through a POST, an INSERT, a push event and a GET to
the receiver's counter and screen.

What is hard:

- *ordering*: display order comes from Lamport counters, kept apart by each client, so one
  missed or reverted tick puts a reply above the message it answers;
- *stale state after an await*: late pages, late replies, logouts during a request;
- *crash recovery and partial failure*: a counter is to be in the settings file before the
  message leaves; the write can fail, the process can end, a POST can fail after its row
  was stored, a request can be repeated below the client;
- *push and reload*: events carry no content and can arrive before, between or after loads;
- *check then act*: validate-challenge reads, verifies and updates in separate statements.

What makes each component correct: for messages, causal and unique counters, persisted
before the send, and a screen that only ever holds the open conversation's verified rows,
newest page, nothing missed; for login, one token per challenge, before it expires, for the
owner of the registered key; for the sockets, at most one session per user in the table and
no event lost while it is open; for login and registration on the client, screen, keys,
token and session that belong together, and a registered key bundle that is never discarded
unsaved; for the formats, signed bytes that have one reading and are the same in every client.

## 2. Plan

Order of work, most important behaviour first.

| # | module | what it models | status |
|---|---|---|---|
| 1 | `Conversation` | messages end to end: Qt client, server, network, settings file | done |
| 2 | `LamportOrder` | abstract: what the protocol document promises of counters | done |
| 3 | `ConversationProofs`, `ScreenProofs` | theorems about 1 and that 1 implements 2; theorems about what a screen shows over time | done |
| 4 | `Challenge`, `OneTimeChallenge`, `ChallengeProofs` | login on the server, its promise, proofs | done |
| 5 | `WebClient`, `WebClientProofs` | the browser client; proofs about its counters | done |
| 6 | `IdentityKeys`, `Registration`, `Session`, `SessionProofs` | keys and settings of one installation; registration; logins, logout, import, the conversation list and the screens that offer them; proofs | done |
| 7 | `Push`, `EventStream`, `PushProofs` | both ends of the push socket: replacing a session, the write loop, a socket closed while opening; its promise; proofs | done |
| 8 | `Signing`, `SigningProofs` | the bytes that both clients sign and rebuild: envelopes, shares, challenges; proofs that they have one reading and agree | done |

`Session` extends `Registration`, which extends `IdentityKeys`: the first composes the
screens with the two components. `Conversation` and `Session` share the messenger: the
first takes logins, logouts and trusted peers as given, the second says when they happen.
In the same way `Conversation` only knows that a socket is open, and `Push` says which
session it belongs to and what becomes of an event. `Signing` stands under all of them: a
signature in the other modules names what was signed, and `Signing` shows from the bytes that
it may.

## 3. Modules and their correspondence to the code

### Conversation

Users `u` with one Qt installation each, one server, one network.

| variable | code |
|---|---|
| `up` | the process runs and is logged in |
| `peer`, `view` | `peer_`, `messages_` (the set of rows; `Before` is their order) |
| `alert` | `messageLoadError` of `Main.qml` |
| `ws` | the push socket, seen from the client and the server's `sessions_` |
| `cache`, `disk` | the counters as QSettings returns them, and as its file holds them |
| `posts`, `gets` | requests in progress, with the coroutine waiting for them: `live` and `current` say that no generation it compares has moved on |
| `rows` | table `messages`; `at` is `created_at` |
| `notes` | push events between `notify` and `onMessageReceived` |
| `sent`, `observed` | history: signed messages, and what each user was shown |
| `covered`, `untold` | history: whether the socket was open since the last load began, and which rows the server then failed to announce |

`Send` is `sendMessageAsync` up to its `co_await`: tick, persist, sign, POST. `PostBegin`,
`PostCommit`, `PostResume` are the server's handler: the transaction begins (its `NOW()`),
commits, and the coroutine resumes to notify and reply. `PostReturn` is the client's
resumption, which reloads. `OpenConversation`, `GetAnswer`, `GetReturn` are a load;
`GetReturn` contains verification, de-duplication, tick and display. `SendUnpersisted`
and the last case of `Receive` are a `sync` that fails. `Flush` stands for what QSettings
does: each construction or `sync` writes what the process has changed, old failures
included. `PostLost`, `PostDetach`, `HandlerFail`, `PostResend`, `GetFail`, `WsDrop`,
`Crash`, `Logout` are the environment's; `Env` says which of them an instance allows.

`LamportOrder` is the document's promise: users write and read, and a message's counter is
above that of everything its writer wrote or read in the conversation.

### Challenge

One action per SQL statement of the three handlers, as that is where they interleave. `asks`
and `answers` are handlers in progress, `handed` the ids that left the server, `tokens` the
access tokens returned, in order. Anyone may answer a challenge that was handed out, with
any key. `AnswerFail` and `AskFail` are an exception in `exec_async` or a closed
connection, before or after the statement took effect; `AskInsert` may lose its answer.
`OneTimeChallenge` is the promise: issue, spend once before expiry, grant once to the owner
of the registered key. An `AnswerUpdate` is a `Spend`, an `AnswerReply` a `Grant`.

### WebClient

One tab. `phase` tells apart logged in, the two awaits of `logout` (generations raised,
session still set), and logged out. A load is `request`, `verify` (all awaits up to line
269), `compare` (`await clock(other)`), `tick`, `display`; a send is `key`, `tick`,
`sign`, `post`, `reply`. IndexedDB carries out transactions in the order they were begun,
so a read has its value and a write its effect from the step that begins it, and the
coroutine learns of it at its next step. The server's rows are numbered per conversation in
the order they were stored, and a page is the newest `PageLimit` of them (`Rows`); a POST
that is reported as failed may have stored its row (`SendPost`). `overlapped` records that a
tick began while another one of the same conversation was between its read and its write.

### IdentityKeys, Registration, Session

One Qt installation and the people who use it, the server's table of keys and the files the
user saved. A bundle stands for its two key pairs and for the `.tskey` file that has them.

| variable | code |
|---|---|
| `own`, `name`, `known` | the keys of `IdentityKeys`, `current_username_`, `other_users_` |
| `cache`, `disk` | saved login and trusted peers, as QSettings returns them and in its file |
| `broken` | the status of `AppSettings::settings_`, which stays an error after the first |
| `reg`, `post`, `table`, `files` | members of RegistrationController, its request, `user_to_pk`, the saved bundles |
| `screen`, `submitting` | `currentScreen`, `registrationSubmitting` of `Main.qml` |
| `auths` | `authAsync` coroutines; `live` says that `generation` is still `generation_` |
| `login` | the user whose `access_token_` is set |
| `list`, `imported`, `loads` | `conversations_`, `imported_peers_`, `loadConversationsAsync` coroutines |
| `trust`, `gone`, `remade` | history: imports reported done; the login a logout said it removed; whether new keys were made while a registration's request was on its way |

A screen offers some operations (`Begin`, `Submit`, `Save`, `Continue`, `ChooseLogin`,
`Login`, `Logout`, `Import`); the answers (`RegisterDone`, `ChallengeReturn`,
`ValidateReturn`, `AuthFail`, `ListReturn`) come when they come and move the screen from
wherever it is. `ValidateReturn` is everything after the second `co_await` of `authAsync`:
saved peers, `saveLogin`, `authFinished` and with it `onAuthenticated`. `Logout` is
`AuthController::logout` with its two syncs, either of which may fail. A sync that fails
leaves the values in the process, and `WriteLeftover` may write them at any later moment.
`Restart` ends the process anywhere and goes on to `autoLogin`; a registration under way
may or may not have reached the server.

### Push

Both ends of one user's socket; a connection has the number of the login whose token opens
it, so a greater number is a later login.

| variable | code |
|---|---|
| `task`, `pending` | the `runAsync` coroutine (`running_`, where it waits, whether its generation is current), `pending_token_` |
| `link`, `net`, `rx` | the socket as the client sees it, frames on their way, texts the generator holds |
| `stage`, `table` | how far `accept` and `run` of a session are; `sessions_[user]` |
| `posted`, `outgoing`, `writing`, `loops` | handlers on the strand, `outgoing_`, `writing_`, the `write_loop` coroutines |
| `last`, `got`, `log`, `events`, `overtaken` | history: the login not followed by a logout; events handled, announced to each session, announced at all; whether handshakes ended out of order |

`Run` and `Stop` are called by login and logout, in any state of the coroutine. `Finish` is
the callback of `QCoro::connect`, which runs the token that waits. `Post` is the handler
that `notify` posts, `WriteDone` and `WriteFail` are a turn of `write_loop`. `ReadEnds` is
the end of `run` and the rest of `accept`.

`EventStream` is the promise: the client handles a first part of what is announced to a
connection, once and in order, and only for the latest login. A `Yield` of a current
coroutine is a `Handle`, `Notify` to an entered session an `Announce`.

### Signing

The one Ed25519 key of a user signs message envelopes, the two keys of a share, and the
server's challenges. The Qt client appends to a buffer (`append_u64`, `append_bytes`,
`signed_envelope`, `signed_payload`), the browser concatenates (`u64`, `field`, `envelope`,
`sharePayload`); both are translated, over sequences of octets, down to the octets of a
64-bit integer, which the one takes by a loop of shifts (`append_u64`) and the other from a
big-endian word (`u64`). `signatures` is everything
signed so far, with what was meant by it, and `accepted` what somebody took to be signed.
`SendMessage`, `CreateShare` and `AnswerChallenge` sign; `LoadRow`, `ImportShare` and
`ValidateChallenge` rebuild the bytes from fields that may be any, and accept if some
signature in circulation has these bytes and this key. Nonces have 12 and tags 16 octets as
both clients check, keys 32; ids and ciphertexts have any length. The other checks of an
import are in `Session`, those of a page in `Conversation`.

## 4. Runs

| run | question | instance |
|---|---|---|
| `ConversationOrder` | are counters and display causal, and so unique, and above an upgraded client's old counter; is a message drawn twice when its request is repeated; does the model implement `LamportOrder` | 2 users signing up to 2 messages each over 2 signatures in all, crash and logout, one repeated POST, user 1 upgraded at 2, counters end at 4 so that both clocks run out |
| `ConversationStale` | can a late page, reply or error reach the wrong or an older screen; are counters unique and persisted when the settings file refuses writes, the process ends and POSTs fail | one user, two peers of which one is unknown, two overlapping loads, 2 messages, logout, a version 1 row, page of 1 |
| `ConversationPush` | can a message be missed silently while the socket is open; does a stored message reach an open conversation | fair, one message, writer and reader, two overlapping loads, failing loads, a socket that may drop, a handler that may fail before its commit or between it and the announcement |
| `ConversationDiskLoss` | violation: causal order with a failing settings file and a crash | 2 users |
| `Challenge` | one token per challenge, proven, live challenges bounded, implements `OneTimeChallenge` | 1 user, 2 keys, 3 ids, 3 handlers at a time, time 0..2 with a lifetime of 1 |
| `WebRefresh` | do refreshes repair the screen after switches, sends, errors and late loads | fair, 2 peers, 2 loads, one conversation that comes to two messages, one sent here, with a page of 1; the peer's counter starts at 1 (`FirstCounters`) |
| `WebOrder` | do counters keep their promise while no two ticks overlap | 1 peer, 2 loads, 2 messages sent and one received, page of 1 |
| `WebClock` | violation: overlapping ticks | 1 peer, 1 load, 1 send at a time |
| `Signing` | does only what was signed verify, as the kind and with the fields it was signed with; does each client verify what the other signed | 2 keys, 2 ids of which one begins the other, counters 1 and 257 of which the browser refuses one, 2 nonces, texts of one and two octets, 2 challenges, 2 signings; domains and types as in the source |
| `Session` | do token, name, keys, trusted peers, list and saved login belong together; are registered keys the server's, and kept until they are saved | 2 people who log in and a peer, 5 bundles of which two are interchangeable, 2 logins and 2 lists in progress, 3 offered shares of which one is forged from two and one conflicts; failing settings, restarts, failing requests, a name taken by somebody else |
| `Push` | is any event lost or reordered on a standing connection; does the latest login get a connection; is an announced event handled; does the model implement `EventStream` | fair, 3 logins, 2 events, connections that break, tokens that ended |

Why the bounds are enough. A violation of causality needs a message displayed or sent, a
clock lost or not raised, and one more message; two signatures and two users give every such
triple, and the theorems below cover the rest. Two loads in flight are the least in which
one overtakes another; a third adds nothing, as only the newest is current. `MaxStamp` only
bounds how often a transaction begins. A page of 1 or 2 rows makes rows fall off the page
within two messages. Three handlers at a time are two of one kind with one of the other;
one user is enough for TLC because nothing in the handlers relates two users, and the proof
covers any number. In `Challenge`, symmetry exchanges keys, ids and handler slots, which are
only compared. `ConversationStale` leaves users without load slots logged out (they could do
nothing but log in) and does not go on from states in which a failed write has left the
process ahead of its file while several requests are in progress (`FaultsAlone`): faults and
overlaps are explored, their product is not. In the same way `ConversationOrder` does not go on
from states in which a repeated request meets a second message or overlapping loads
(`RepeatsAlone`). `WebOrder` stops at the first overlap, after
which its property is true; `WebRefresh` bounds only the counter that the peer's own client
puts on a message (`FirstCounters`), as the repair does not depend on it. In `Session` two logins in progress are the least in which one
answers late, and installations start unregistered or
with one user; two bundles that nobody has are the least with which a registration can be
begun again while the keys of the one before it are unsaved or on their way. In `Signing` ids, texts
and counters differ by what a field would gain if it took an octet from its neighbour: 257 is
1 moved by an octet and more. In `Push`
three logins make one run wait while another opens and a third overtakes both; two events
are the least that can change places or meet a loop at work.

`CHECK_DEADLOCK FALSE` in all runs but `Session`: counters, signatures, signings, stamps,
logins and events run out, users need not act, and a system at rest is a legal end. `Session` never
stops, as every screen offers something.

Fairness. `Conversation`: weak fairness of a request's progress (the server's event loop and
pool, the network and the client's event loop keep running) and of handling announced
messages; none of what users and failures do. The code has no lock and no unbounded retry
that could withhold these steps. `WebClient`: the same for loads and sends, and for the
refresh timer. `MessageShown` assumes in addition that users stop opening conversations
(`UsersSettle`): each click makes the loads before it out of date, so endless clicking shows
nothing. `RefreshRepairs` assumes that the user stops and the server answers
(`Undisturbed`), and that a load ends before the next refresh (`Patient`): a load that takes
longer than five seconds is made out of date by every refresh, and never shown. `Push`:
weak fairness of each step that the two event loops run when it is ready, namely `open` returning,
frames arriving, the generator, the server's upgrade, the posted handlers and the writes
that succeed; none of `ReadEnds` (a server may never notice a broken connection), of
`WriteFail`, `Drop`, `Refuse`, logins or logouts. `LoginConnects` allows that the upgrade is
refused or the connection breaks, `EventHandled` that the connection is down.

### What the violations show

1. `ConversationDiskLoss`. The document promises that after a verified message with clock
   `r` the next send has a greater one. `tick` changes QSettings before it syncs
   (`messenger.cpp:144`); when the sync fails, the load reports an error, but the value
   stays in the process. The next load finds the clock high enough, skips the tick
   (line 420) and displays. After a crash the file's value counts again and the next
   message is signed below one already displayed. The theorems need `Durable`, that not
   both failures occur, for this reason; uniqueness, persistence before a send and the
   bound by the old counter hold without it.
2. `WebClock`. `tick` in `useClient.js` reads and writes the counter in two IndexedDB
   transactions (lines 203 and 213). A send and a refresh that overlap write one after the
   other, and the later write may be the lower one: the next message is signed below one
   already displayed. `WebOrder` shows that this overlap is the only way.

### What the properties leave to a condition

While an automatic login is still waiting for its answer the first screen is shown, and a
registration can be begun; the answer then moves from the registration or download screen to
the messages or to the login screen. `KeysKept` and `RegisteredKeys` hold through this: keys
registered by then are not thrown away, as `registration.cpp:77` refuses to make others. But
nothing leads back to the download screen, so they cannot be saved either. `RegisteredKeys` is
stated for registrations in which no new keys were made while the request with the old ones
was under way (`~remade`), which such a login and a logout make possible: the share is then
made of keys the server does not have, and TLC refutes the property without the condition.
In the browser a load whose last step is late (after the awaits of `useClient.js:270`, where
nothing is compared again) draws one conversation's messages under another's name;
`RefreshRepairs` says that the refreshes repair it, if each load ends before the next
refresh. A message whose announcement the server failed to send after its commit
(`untold`) is missing until the next load, whatever begins it. After fifteen minutes every
request is refused until a new login; no property speaks of that, nor of a challenge spent
on a login whose answer is lost.
`NewestInTable` is stated for handshakes that end in the order of the logins (`~overtaken`):
a slower handshake of an older login takes the table's entry and the newer session hears
nothing more. The repository promises nothing to the contrary, so these are hazards with a
note and no run.

## 5. Proofs

`ConversationProofs` assumes `ConstantsAssumption` only, unless said otherwise.

- `TypeCorrect`: `TypeOK` is inductive.
- `CountersPersisted`, `CountersAboveLegacy`, `CountersUnique`: from `CounterInv`, which adds
  to these three `Settings`: the file is never ahead of the process, and each is 0 or
  above the old counter. Persistence is what makes uniqueness inductive: a new counter
  is above the clock, the clock is at least the file, the file is at least everything
  signed, also across a crash (the process starts from the file), failed writes and logouts.
- `ScreenIsConversation`: from `StoredInv`: signatures are unique, whatever is requested,
  stored with version 2, answered or displayed was signed by somebody, and a page only has
  stored rows of its conversation. No assumption on the order of answers is needed.
- `CausalOrderHolds`, `DisplayCausalHolds`, `ConversationImplementsOrder`, under `Durable`
  (the settings file cannot refuse a write, or the process does not end): from `OrderInv`,
  which adds that a clock lies strictly above everything its user displayed of the
  conversation. The display step is the hard one: a page whose largest counter is below
  the clock needs no tick, any other ticks first. Without `Durable` the clause fails, as the
  first violation shows. The refinement maps `Send` to `Write`, a display to `Read`, all
  else to a stutter.

`ScreenProofs` goes on from `StoredInv`. `ConstantsAssumption` includes that a table found at
the start is finite, as `Cardinality` of a page needs it. `ScreenInv` adds `LoadsOfOpen` (one
load of a user is current, and it is of the open conversation), `SocketOpen` (a covered
screen has an open socket) and `PageCovers`: an answer that will be displayed has every row
on screen but those that `PageLimit` newer rows displaced. `PageCovers` is inductive because
a display ends the current load, so the answer that replaces a screen was asked for after
that screen was drawn, and rows are only added, so a page only loses what is displaced
(`PageShrinks`, `DisplacedStays`), also when a slow transaction commits below rows already
returned. `NeverOlderHolds` follows, for every environment. `NothingMissedHolds` needs `Told`:
a row that came after the current answer was taken (`PageTold`), or that a screen at rest does
not have (`ScreenTold`), is announced or about to be. It holds while the socket stays open:
each commit leaves a handler that will notify, each notification of the open peer begins a
new load, and a load whose error was shown leaves `alert`. A handler that the database cuts off
between its commit and its notification announces its row to nobody, and nothing in the code
asks again: such rows are the third case of `Announced` (`untold`), until the next load
begins. No assumption on the environment is left. Resent requests, failed loads and broken or reopened sockets are allowed.

`ChallengeProofs` assumes `ChallengeAssumption`. `ChallengeInv` has four parts beyond typing:
ids are unique and their users registered (`Tables`); what a handler found out before an
await stays true after it, and a handler that consumed a challenge is the only one at that
challenge and no token exists for it yet (`Checked`); and the two properties themselves. That
last clause of `Checked` is what the conditional UPDATE buys. From it `OneTokenHolds`,
`TokensProven`, `ChallengeTypeCorrect` and `ChallengeImplementsOneTime`. `LiveBoundedHolds`
needs two more parts: `Slotted`, no two handlers have the same slot, and `Room`, a user's
live challenges and the handlers that have found none and will insert one fit into the slots
together: when a handler finds none live, only handlers are left to count, each with a slot
of its own, which it holds until its insert.

`WebClientProofs` assumes `WebAssumption`. `WebTypeCorrect` adds a conjunct `Signing`: what is signed is
at least 1, a page whose counter is compared has a row, and the table is finite, so that its
rows can be numbered. `OrderHolds`: `Ordered` is
inductive as long as `overlapped` is false. Its parts: `OneTick`, a conversation has one tick
at a time, of a load or a send; `LoadsBelow` and `SendsBelow`, what a coroutine read is still
the stored value while it ticks and a lower bound before, and what a send's user knew is not
above it; `KnownBelow`, everything displayed or signed is at most the stored counter. A tick
writes above the value it read, which is the stored one only because of `OneTick`: this is
where the condition is used, and without it the run `WebClock` has the counterexample.

`SessionProofs` assumes `SessionAssumption`. The inductive invariant adds seven parts to
typing. `Logins`: one login at most is still wanted, and the loaded keys and name are its.
`Matching` is `SessionMatches` with keys that exist; it survives what other users do because
a name once registered keeps its key. `Registers` relates the flags of a registration, its
request and the screen. `Genuine` carries the check of `import_share` from `known` to both
copies of the settings, where an identity's rows name each peer once: what a new login
restores is then checked too. `Trusted`: an import reported as done is in the process's
settings, in the file, in `known` and in the list. `Lists`: the list and what is added to it
are this session's, and a request still wanted is of its user. `Forgetting`: after a clean
logout neither copy of the settings has the login or its peers, since what is left in the
process is written later. From these, the nine properties of the run; `KeptHolds`, an action
property, needs of `Registers` that no request is under way once keys are registered.

`PushProofs` assumes `PushAssumption`. Five parts are added to typing. `Working`: a write
loop is at work exactly while the flag says so. `Running`: the socket's run is of the newest
connection requested, the waiting token of a still newer login, and the connection of a run
that was overtaken has been closed. `Unheard`: before a session is entered nothing is
announced to it, and frames travel only on a standing connection. `Ahead`: what the client
has yet to handle is what comes next in the session's log, also after the connection broke;
a step that handles an event is then one of `EventStream`. `InTable` is `NewestInTable`
without the condition on the link. `NothingLost` is inductive with them.

`SigningProofs` assumes `SigningAssumption`: the sizes above, lengths and counters of 64 bits,
and of the constants in the source that the envelope's domain is shorter than 256 octets, that
the share's does not begin with a hex digit or a NUL, and that the key types have no NUL. Eight
octets determine a word (`WordOctets` and the lemmas after it), so a field's length can be read
before the field, and two equal sequences of fields split in the same places: `EnvelopeUnambiguous`.
A share's payload has no lengths; its type ends at the first NUL, and the id, which may
contain NULs, is what is left before 32 octets of key: `PayloadUnambiguous`. An envelope begins with
an octet 0, a share with the letter of its domain, a challenge with a hex digit, hence
`EncodingUnambiguous`, which says that one key can sign all three. `EnvelopesAgree` and `PayloadsAgree` say that
the two clients' functions are equal: `WordAppended`, that the loop of shifts pushes the octets
of the word, and associativity of concatenation. The inductive
invariant is typing, `AcceptedAsMeant`, and `Faithful`: bytes in circulation are what was
meant, as some client encodes it. This is what the ideal signatures of the other modules rest
on, apart from Ed25519 itself. For challenges it depends on the server: the clients sign what
they are sent, and the hex digits are what `random_hex` returns.

Every invariant and action property of the passing runs is proved. Only model-checked:
liveness (`MessageShown`, `RefreshRepairs`, `LoginConnects`, `EventHandled`), as the prover
does not do ENABLED.

## 6. Abstractions, and what is left out

- Users have one installation each, as the protocol document assumes, and no conversation
  with themselves. In `Conversation` peers are trusted for good (`Trusted`): importing and, at
  logout, forgetting keys is in `Session`.
- Signatures are numbers taken in order, one for each signed message: which of two is the
  larger matters only between equal counters of one sender, which `UniqueCounters` excludes.
  Cryptography is ideal: a row that verifies was signed by its sender. Text is left out, so
  a decryption failure, which replaces the text only, is too.
- `notes` has no order: events carry only the sender, and their handler only reloads. Events
  already queued for a socket are lost with it. Reopening a socket takes a new login.
- QSettings and Qt's HTTP retry are external, modelled as the code uses them.
- `created_at` is the start of the inserting transaction and no two are equal. A statement
  of the challenge handlers is one step; ids are never reused and cannot be guessed.
- The limits are symbols: `MaxClock` is 2^63-1 in the Qt client and 2^53-1 in the browser,
  `PageLimit` is 100.
- In `WebClient` rows are stored and dated in one step; that a row may be dated before one that
  was stored earlier is in `Conversation`.
- The browser's await points that nothing depends on are merged; a second logout or login
  during the first, sends that overlap each other, and several tabs are left out of the
  instances. An unknown peer is a load that always fails.
- A sync of the settings either writes everything or fails; a settings file that was edited
  from outside, which `load_saved_peers` refuses, is left out. Signatures of a share are
  records of who signed what. A login in `Session` proves a key as in `Challenge`: the
  answer succeeds when the key is the registered one. Importing also opens the conversation,
  which is `OpenConversation` of `Conversation`. Files once saved stay.
- `open()` of QCoro's socket returns when the socket is connected or closed; its generator
  takes every text that arrived before the connection ended. A session that ends gives up
  what it had queued. The age of a token is left to chance: `Refuse` may happen to any upgrade.

### Not modelled

base64 (`server/src/crypto/crypto.cpp`, `lib/crypto.js`): functions of bytes without state, and
the repository's tests cover them directly. The wrappers over OpenSSL. The pool of four database connections: it only removes
interleavings the models allow. The router and the reading of HTTP and JSON. The browser's
registration, import and list. QML and Vue layout, styles, build and deployment files,
`HealthCheckController`, `MessageStore` and `MessageModel` (empty or unused), dates and
wording.
