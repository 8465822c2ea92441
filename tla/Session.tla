------------------------------- MODULE Session -------------------------------
(*****************************************************************************)
(* The Qt client between its screens: registration, login with the automatic  *)
(* login of a new process, logout, import of a peer's share and the list of   *)
(* conversations. Main.qml decides which operation a screen offers; the       *)
(* signals of the two controllers move the screen from wherever the user is.  *)
(*****************************************************************************)
EXTENDS Registration, Naturals, FiniteSets

CONSTANTS
    Talked,     \* the server's answer to GET /conversations, per user
    Offers,     \* the share files the user may try to import
    Before,     \* the server's table and the saved files before the first start
    MaxAuths,   \* bound on the logins in progress
    MaxLoads    \* bound on the list requests in progress

SessionAssumption ==
    /\ None \notin Users \cup Bundles
    /\ None \notin Share
    /\ None \notin SavedLogin
    /\ None \notin Request
    /\ Foreign \subseteq Bundles
    /\ Env \subseteq EnvEvents
    /\ Talked \in [Users -> SUBSET Users]
    /\ Offers \subseteq Share
    /\ \A b \in Before : b.table \in [Users -> Bundles \cup {None}] /\ b.files \subseteq Bundles
ASSUME SessionAssumption

VARIABLES
    screen,     \* currentScreen
    submitting, \* registrationSubmitting
    auths,      \* authAsync coroutines waiting for an answer
    login,      \* username_, whose token access_token_ is
    list,       \* conversations_
    imported,   \* imported_peers_
    loads,      \* loadConversationsAsync coroutines waiting for an answer
    trust,      \* history: rows of imports reported done, and not logged out since
    gone,       \* history: the login that the last logout said it removed, and no login since
    remade      \* history: new keys were made while a request with others was on its way

session == <<screen, submitting, auths, login, list, imported, loads, trust, gone, remade>>
vars == <<identity, settings, registration, session>>

Screens == {"choice", "login", "register", "download", "messages"}
Auth == [user: Users, path: Bundles, stage: {"challenge", "validate"}, live: BOOLEAN]
Load == [user: Users, live: BOOLEAN]

Peers(shares) == {s.iid : s \in shares}
Dead(s) == {[x EXCEPT !.live = FALSE] : x \in s}

NewAuth(u, b) == [user |-> u, path |-> b, stage |-> "challenge", live |-> TRUE]

-----------------------------------------------------------------------------
(* Registration *)

Begin ==
    /\ screen = "choice"
    /\ MayBegin
    /\ NewKeys
    /\ screen' = "register"
    /\ remade' = (post # None)
    /\ UNCHANGED <<identity, settings, post, table, files, submitting, auths, login, list,
                   imported, loads, trust, gone>>

\* onContinueRequested; registerUsername refuses a bundle already registered.
Submit(u) ==
    /\ screen = "register"
    /\ ~submitting
    /\ SendRequest(u)
    /\ submitting' = ~reg.done
    /\ UNCHANGED <<identity, settings, table, files, screen, auths, login, list, imported,
                   loads, trust, gone, remade>>

Server == RegisterCommit /\ UNCHANGED <<identity, settings, session>>

\* Somebody else takes the name.
RegisterElsewhere(u, b) ==
    /\ "others" \in Env
    /\ b \in Foreign
    /\ \A v \in Users : table[v] # b
    /\ table' = Inserted(u, b)
    /\ table' # table
    /\ UNCHANGED <<identity, settings, reg, post, files, session>>

\* onRegistrationSucceeded
RegisterDone ==
    /\ post # None
    /\ post.stage = "ok"
    /\ Registered
    /\ submitting' = FALSE
    /\ screen' = "download"
    /\ UNCHANGED <<identity, settings, table, files, auths, login, list, imported, loads,
                   trust, gone, remade>>

\* onRegistrationFailed: refused, or no answer, and then the server may have done it.
RegisterFailed ==
    /\ post # None
    /\ \/ post.stage = "taken" /\ table' = table
       \/ "netfail" \in Env /\ table' \in {table, Inserted(post.user, post.bundle)}
    /\ NotRegistered
    /\ submitting' = FALSE
    /\ UNCHANGED <<identity, settings, files, screen, auths, login, list, imported, loads,
                   trust, gone, remade>>

Save ==
    /\ screen = "download"
    /\ SaveShare \/ SavePrivateKey
    /\ UNCHANGED <<identity, settings, session>>

\* The button of RegistrationDownloadsScreen.
MayContinue == BothSaved

Continue ==
    /\ screen = "download"
    /\ MayContinue
    /\ IF BothSaved THEN Forget ELSE UNCHANGED registration
    /\ screen' = "login"
    /\ UNCHANGED <<identity, settings, submitting, auths, login, list, imported, loads, trust,
                   gone, remade>>

-----------------------------------------------------------------------------
(* Login *)

ChooseLogin ==
    /\ screen = "choice"
    /\ screen' = "login"
    /\ UNCHANGED <<identity, settings, registration, submitting, auths, login, list, imported,
                   loads, trust, gone, remade>>

\* auth: the answers of earlier logins are no longer wanted.
Login(u, b) ==
    /\ screen = "login"
    /\ b \in files
    /\ Cardinality(auths) < MaxAuths
    /\ LoadBundle(b, u)
    /\ auths' = Dead(auths) \cup {NewAuth(u, b)}
    /\ gone' = None
    /\ UNCHANGED <<settings, registration, screen, submitting, login, list, imported, loads,
                   trust, remade>>

\* load_from_bundle throws.
LoginUnreadable ==
    /\ screen = "login"
    /\ Clear
    /\ auths' = Dead(auths)
    /\ UNCHANGED <<settings, registration, screen, submitting, login, list, imported, loads,
                   trust, gone, remade>>

\* MUTANT of Wanted: the generation is not compared.
WantedAlways(a) == TRUE

Wanted(a) == a.live

Drop(a) ==
    /\ auths' = auths \ {a}
    /\ UNCHANGED <<identity, settings, registration, screen, submitting, login, list, imported,
                   loads, trust, gone, remade>>

ChallengeReturn(a) ==
    /\ a.stage = "challenge"
    /\ IF Wanted(a)
       THEN /\ auths' = (auths \ {a}) \cup {[a EXCEPT !.stage = "validate"]}
            /\ UNCHANGED <<identity, settings, registration, screen, submitting, login, list,
                           imported, loads, trust, gone, remade>>
       ELSE Drop(a)

\* The catch of authAsync, and onAuthFailed.
LoginFails ==
    /\ Clear
    /\ login' = None
    /\ screen' = "login"
    /\ UNCHANGED <<list, imported, loads, remade>>

\* onAuthenticated
StartSession(u) ==
    /\ imported' = Peers(known')
    /\ list' = imported'
    /\ loads' = Dead(loads) \cup {[user |-> u, live |-> TRUE]}

LoginSucceeds(a) ==
    /\ UNCHANGED <<own, name, remade>>
    /\ login' = a.user
    /\ screen' = "messages"
    /\ StartSession(a.user)

\* MUTANT of Proves: a token is given for a signature of any key.
ProvesAlways(a) == TRUE

\* The signature is by the key the name is registered with (module Challenge).
Proves(a) == table[a.user] = a.path

\* The token: the saved peers, then saveLogin, which fails for good once it has failed.
ValidateReturn(a) ==
    /\ a.stage = "validate"
    /\ Proves(a)
    /\ Cardinality(loads) < MaxLoads
    /\ IF Wanted(a)
       THEN \E ok \in SyncResults :
            /\ auths' = auths \ {a}
            /\ cache' = [cache EXCEPT !.login = [user |-> a.user, path |-> a.path]]
            /\ disk' = AfterSync(disk, cache', ok)
            /\ broken' = (broken \/ ~ok)
            /\ IF broken' THEN LoginFails ELSE known' = Restored /\ LoginSucceeds(a)
            /\ UNCHANGED <<registration, submitting, trust, gone>>
       ELSE Drop(a)

\* A refusal, or no answer.
AuthFail(a) ==
    /\ "netfail" \in Env \/ (a.stage = "validate" /\ ~Proves(a))
    /\ IF Wanted(a)
       THEN /\ auths' = auths \ {a}
            /\ LoginFails
            /\ UNCHANGED <<settings, registration, submitting, trust, gone>>
       ELSE Drop(a)

-----------------------------------------------------------------------------
(* Logout *)

\* MUTANT of Forgotten: the user name is left.
ForgottenPath(s) == [WithoutPeers(s) EXCEPT !.login.path = None]

\* The settings after forget_saved_peers and clearSavedLogin.
Forgotten(s) == [WithoutPeers(s) EXCEPT !.login = None]

\* A sync for each; a failure of either is reported, but both are tried.
Logout ==
    /\ screen = "messages"
    /\ cache' = Forgotten(cache)
    /\ \E ok1 \in SyncResults, ok2 \in SyncResults :
       /\ disk' = AfterSync(AfterSync(disk, [cache' EXCEPT !.login = cache.login], ok1),
                            cache', ok2)
       /\ broken' = (broken \/ ~ok2)
       /\ gone' = IF ok1 /\ ~broken' THEN [user |-> name, path |-> own] ELSE None
    /\ trust' = {r \in trust : ~Mine(r)}
    /\ Clear
    /\ auths' = Dead(auths)
    /\ login' = None
    /\ list' = {}
    /\ imported' = {}
    /\ loads' = Dead(loads)
    /\ screen' = "choice"
    /\ UNCHANGED <<registration, submitting, remade>>

-----------------------------------------------------------------------------
(* Peers and conversations *)

\* addConversationFromShare: the peer is trusted even when it could not be saved.
Import(s) ==
    /\ screen = "messages"
    /\ Accepts(s)
    /\ known' = known \cup {s}
    /\ cache' = WithPeers(cache, known')
    /\ \E ok \in SyncResults :
       /\ disk' = AfterSync(disk, cache', ok)
       /\ imported' = IF ok THEN imported \cup {s.iid} ELSE imported
       /\ list' = IF ok THEN list \cup {s.iid} ELSE list
       /\ trust' = IF ok THEN trust \cup Rows({s}) ELSE trust
    /\ UNCHANGED <<own, name, broken, registration, screen, submitting, auths, login, loads,
                   gone, remade>>

\* MUTANT of Merged: the answer replaces the list.
MergedNot(u) == Talked[u]

\* loadConversationsAsync: the answer, and the imported peers it does not name.
Merged(u) == Talked[u] \cup imported

\* MUTANT of Current: the session is not compared.
CurrentAlways(l) == TRUE

Current(l) == l.live

ListReturn(l) ==
    /\ loads' = loads \ {l}
    /\ list' = IF Current(l) THEN Merged(l.user) ELSE list
    /\ UNCHANGED <<identity, settings, registration, screen, submitting, auths, login, imported,
                   trust, gone, remade>>

ListFail(l) ==
    /\ "netfail" \in Env
    /\ loads' = loads \ {l}
    /\ UNCHANGED <<identity, settings, registration, screen, submitting, auths, login, list,
                   imported, trust, gone, remade>>

-----------------------------------------------------------------------------
(* The process *)

\* autoLogin: with a saved login the first screen already waits for its answer.
AutoLogin(saved) ==
    IF saved = None
    THEN Clear /\ auths' = {} /\ screen' = "choice"
    ELSE \/ /\ saved.path \in files
            /\ LoadBundle(saved.path, saved.user)
            /\ auths' = {NewAuth(saved.user, saved.path)}
            /\ screen' = "choice"
         \/ /\ "disk" \in Env
            /\ Clear /\ auths' = {} /\ screen' = "login"

\* The process ends at any moment; what was not written is lost.
Restart ==
    /\ "restart" \in Env
    /\ cache' = disk
    /\ broken' = FALSE
    /\ reg' = Blank
    /\ post' = None
    /\ table' \in IF post = None THEN {table}
                  ELSE {table, Inserted(post.user, post.bundle)}
    /\ AutoLogin(disk.login)
    /\ submitting' = FALSE
    /\ login' = None
    /\ list' = {}
    /\ imported' = {}
    /\ loads' = {}
    /\ remade' = FALSE
    /\ UNCHANGED <<disk, files, trust, gone>>

Init ==
    /\ own = None /\ name = None /\ known = {}
    /\ cache = [login |-> None, peers |-> {}] /\ disk = cache /\ broken = FALSE
    /\ reg = Blank /\ post = None
    /\ \E b \in Before : table = b.table /\ files = b.files
    /\ screen = "choice" /\ submitting = FALSE /\ auths = {} /\ login = None
    /\ list = {} /\ imported = {} /\ loads = {}
    /\ trust = {} /\ gone = None /\ remade = FALSE

WriteLeftover == Flush /\ UNCHANGED <<registration, session>>

Next ==
    \/ Begin \/ Server \/ RegisterDone \/ RegisterFailed \/ Save \/ Continue
    \/ ChooseLogin \/ LoginUnreadable \/ Logout \/ WriteLeftover \/ Restart
    \/ \E u \in Users : Submit(u)
    \/ \E u \in Users, b \in Bundles : RegisterElsewhere(u, b) \/ Login(u, b)
    \/ \E a \in auths : ChallengeReturn(a) \/ ValidateReturn(a) \/ AuthFail(a)
    \/ \E s \in Offers : Import(s)
    \/ \E l \in loads : ListReturn(l) \/ ListFail(l)

Spec == Init /\ [][Next]_vars

-----------------------------------------------------------------------------
(* Properties *)

IdentityTypes ==
    /\ own \in Bundles \cup {None}
    /\ name \in Users \cup {None}
    /\ known \subseteq Share

SettingsTypes == cache \in Settings /\ disk \in Settings /\ broken \in BOOLEAN

RegistrationTypes ==
    /\ reg \in Registering
    /\ post \in Request \cup {None}
    /\ table \in [Users -> Bundles \cup {None}]
    /\ files \subseteq Bundles

SessionTypes ==
    /\ screen \in Screens
    /\ submitting \in BOOLEAN
    /\ auths \subseteq Auth
    /\ login \in Users \cup {None}
    /\ list \subseteq Users
    /\ imported \subseteq Users
    /\ loads \subseteq Load
    /\ trust \subseteq SavedPeer
    /\ gone \in SavedLogin \cup {None}
    /\ remade \in BOOLEAN

\* The members keep their types.
TypeOK == IdentityTypes /\ SettingsTypes /\ RegistrationTypes /\ SessionTypes

\* On the messages screen the token, the name and the loaded keys are those of one user, the
\* keys are the ones the server has for that user, and no login is still on its way that could
\* change them, whatever logins were started, failed or answered late before.
SessionMatches ==
    screen = "messages" =>
        /\ login # None
        /\ name = login
        /\ own = table[login]
        /\ \A a \in auths : ~a.live

\* A peer whose import was reported as done is, from then on and after any restart, trusted
\* with those keys and in the list whenever its user is logged in, until that user logs out;
\* no late answer of the server and no failed write takes it away.
TrustKept ==
    screen = "messages" =>
        \A r \in trust : Mine(r) => r.share \in known /\ r.share.iid \in list

\* Nothing of another user's list appears: a conversation shown is one the server has for the
\* user logged in or a peer trusted under these keys.
ListIsMine ==
    screen = "messages" => list \subseteq Talked[login] \cup Peers(known)

\* The trusted keys are never a mixture of two offers: of each peer one share is trusted, and
\* both its keys were signed by the key that will verify that peer's messages.
SharesGenuine ==
    \A s \in known :
        /\ s.edSig.by = s.ed /\ s.edSig.key = s.ed
        /\ s.xSig.by = s.ed /\ s.xSig.key = s.x
        /\ \A t \in known : s.iid = t.iid => s = t

\* The login an automatic login will use, in the file or about to be written, is one that the
\* server has accepted: the file named holds the keys of the registered user.
SavedLoginProven ==
    \A s \in {cache, disk} : s.login # None => table[s.login.user] = s.login.path

\* After a logout that reported no error neither the login nor a peer trusted under it is in the
\* file, through restarts and answers that were on their way, until the user logs in again.
LogoutForgets ==
    gone # None =>
        /\ disk.login = None
        /\ \A r \in disk.peers : ~(r.user = gone.user /\ r.key = gone.path)

\* The name the user is told to be registered is registered with the keys to be saved, and the
\* share vouches for those keys, wherever logins have taken the user meanwhile; unless new
\* keys were made while the request with the old ones was on its way.
RegisteredKeys ==
    reg.done /\ reg.bundle # None /\ ~remade =>
        /\ reg.share = MadeShare(reg.bundle, reg.share.iid)
        /\ table[reg.share.iid] = reg.bundle

\* Registered keys that are not yet in both files are not thrown away before the process ends,
\* though a login may take the user from the screen that saves them back to the first one.
KeysKept ==
    [][reg.done /\ ~BothSaved => Restart \/ (reg'.done /\ reg'.bundle = reg.bundle)]_vars
=============================================================================
