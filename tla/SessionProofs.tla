---------------------------- MODULE SessionProofs ----------------------------
(* Theorems about Session, for every value of its constants. *)
EXTENDS Session, TLAPS

\* One login at most is still wanted, and it is the one the loaded keys and name are for.
Logins ==
    /\ \A a, b \in auths : a.live /\ b.live => a = b
    /\ \A a \in auths : a.live => name = a.user /\ own = a.path

\* SessionMatches, and the keys are keys.
Matching == SessionMatches /\ (screen = "messages" => own # None)

\* A request on its way is for a bundle not yet registered, the present one unless
\* new keys were made; what was saved was registered; and what is registered can be asked for.
Registers ==
    /\ post # None => ~reg.done /\ reg.bundle # None
    /\ post # None /\ ~remade => post.bundle = reg.bundle
    /\ post # None /\ post.stage = "ok" => table[post.user] = post.bundle
    /\ reg.shareSaved \/ reg.keySaved => reg.done
    /\ screen = "register" /\ ~reg.done => reg.bundle # None
    /\ reg.done /\ reg.bundle # None => reg.share # None

\* A share is trusted and written only with good signatures, and one for each peer.
OnePerPeer(rows) ==
    /\ \A r \in rows : Verifies(r.share)
    /\ \A r, q \in rows : r.user = q.user /\ r.key = q.key /\ r.share.iid = q.share.iid => r = q

Genuine ==
    /\ \A s \in known : Verifies(s)
    /\ \A s, t \in known : s.iid = t.iid => s = t
    /\ OnePerPeer(cache.peers)
    /\ OnePerPeer(disk.peers)

\* What was reported as imported is in the file, and in the list of the open session.
Trusted ==
    /\ trust \subseteq cache.peers
    /\ trust \subseteq disk.peers
    /\ screen = "messages" =>
         \A r \in trust : Mine(r) => /\ r.share \in known
                                     /\ r.share.iid \in list
                                     /\ r.share.iid \in imported

\* The list, what is added to it, and the requests that will replace it are this session's.
Lists ==
    screen = "messages" =>
        /\ imported \subseteq Peers(known)
        /\ list \subseteq Talked[login] \cup Peers(known)
        /\ \A l \in loads : l.live => l.user = login

\* After a clean logout nothing is left in process or file to bring the login back.
Forgetting ==
    gone # None =>
        /\ screen # "messages"
        /\ \A a \in auths : ~a.live
        /\ cache.login = None /\ disk.login = None
        /\ \A r \in cache.peers \cup disk.peers : ~(r.user = gone.user /\ r.key = gone.path)

-----------------------------------------------------------------------------
(* Operators *)

LEMMA Distinct ==
    /\ None \notin Users
    /\ None \notin Bundles
    /\ None \notin Share /\ None \notin SavedLogin /\ None \notin Request
BY SessionAssumption DEF SessionAssumption

\* A registration gives a free name its bundle and leaves every other name alone.
LEMMA InsertedKeeps ==
    ASSUME TypeOK, NEW u \in Users, NEW b \in Bundles
    PROVE  /\ Inserted(u, b) \in [Users -> Bundles \cup {None}]
           /\ \A v \in Users : table[v] # None => Inserted(u, b)[v] = table[v]
           /\ table[u] = None => Inserted(u, b)[u] = b
BY DEF Inserted, TypeOK, RegistrationTypes

\* The share made for a name and a bundle is one that import_share accepts.
LEMMA MadeShareVerifies ==
    ASSUME NEW b \in Bundles, NEW u \in Users
    PROVE  /\ MadeShare(b, u) \in Share
           /\ Verifies(MadeShare(b, u))
BY DEF MadeShare, Signed, Share, Signature, KeyType, Verifies

\* A share is determined by its name and its two keys when its signatures are good.
LEMMA VerifiedEqual ==
    ASSUME NEW s \in Share, NEW t \in Share, Verifies(s), Verifies(t),
           s.iid = t.iid, s.ed = t.ed, s.x = t.x
    PROVE  s = t
BY DEF Share, Signature, Verifies, Signed

\* What a step can do to the table.
LEMMA TableKeeps ==
    ASSUME TypeOK, [Next]_vars
    PROVE  /\ table' \in [Users -> Bundles \cup {None}]
           /\ \A v \in Users : table[v] # None => table'[v] = table[v]
<1>1. CASE Server \/ RegisterFailed \/ Restart
  <2>1. \/ table' = table
        \/ post # None /\ table' = Inserted(post.user, post.bundle)
    BY <1>1 DEF Server, RegisterCommit, RegisterFailed, Restart
  <2>2. post # None => post.user \in Users /\ post.bundle \in Bundles
    BY DEF TypeOK, RegistrationTypes, Request
  <2> QED BY <2>1, <2>2, InsertedKeeps DEF TypeOK, RegistrationTypes
<1>2. ASSUME NEW u \in Users, NEW b \in Bundles, RegisterElsewhere(u, b)
      PROVE  /\ table' \in [Users -> Bundles \cup {None}]
             /\ \A v \in Users : table[v] # None => table'[v] = table[v]
  BY <1>2, InsertedKeeps DEF RegisterElsewhere
<1>3. CASE \/ UNCHANGED vars
           \/ Begin
           \/ \E u \in Users : Submit(u)
           \/ RegisterDone
           \/ Save
           \/ Continue
           \/ ChooseLogin
           \/ \E u \in Users, b \in Bundles : Login(u, b)
           \/ LoginUnreadable
           \/ \E a \in auths : ChallengeReturn(a)
           \/ \E a \in auths : ValidateReturn(a)
           \/ \E a \in auths : AuthFail(a)
           \/ Logout
           \/ \E s \in Offers : Import(s)
           \/ \E l \in loads : ListReturn(l)
           \/ \E l \in loads : ListFail(l)
           \/ WriteLeftover
  <2>1. table' = table
    BY <1>3 DEF vars, registration, Begin, Submit, RegisterDone, Save, Continue, ChooseLogin,
         Login, LoginUnreadable, ChallengeReturn, ValidateReturn, AuthFail, Logout, Import,
         ListReturn, ListFail, WriteLeftover, Drop, SaveShare, SavePrivateKey, Forget, Flush
  <2> QED BY <2>1 DEF TypeOK, RegistrationTypes
<1> QED BY <1>1, <1>2, <1>3 DEF Next

-----------------------------------------------------------------------------
(* Types *)

\* Requests no longer wanted are requests.
LEMMA DeadAuths ==
    ASSUME NEW S, S \subseteq Auth
    PROVE  Dead(S) \subseteq Auth /\ \A a \in Dead(S) : ~a.live
<1> SUFFICES ASSUME NEW x \in S
             PROVE  [x EXCEPT !.live = FALSE] \in Auth /\ ~[x EXCEPT !.live = FALSE].live
  BY DEF Dead
<1>1. x \in Auth
  OBVIOUS
<1> QED BY <1>1 DEF Auth

LEMMA DeadLoads ==
    ASSUME NEW S, S \subseteq Load
    PROVE  Dead(S) \subseteq Load /\ \A l \in Dead(S) : ~l.live
<1> SUFFICES ASSUME NEW x \in S
             PROVE  [x EXCEPT !.live = FALSE] \in Load /\ ~[x EXCEPT !.live = FALSE].live
  BY DEF Dead
<1>1. x \in Load
  OBVIOUS
<1> QED BY <1>1 DEF Load

LEMMA NewAuthTyped ==
    ASSUME NEW u \in Users, NEW b \in Bundles
    PROVE  NewAuth(u, b) \in Auth
BY DEF NewAuth, Auth

\* Keys, name and peers.
LEMMA IdentityTyped ==
    ASSUME TypeOK, Matching, Logins, Registers, [Next]_vars
    PROVE  IdentityTypes'
<1>1. ASSUME NEW u \in Users, NEW b \in Bundles, Login(u, b) PROVE IdentityTypes'
  BY <1>1 DEF Login, LoadBundle, TypeOK, IdentityTypes, SettingsTypes, RegistrationTypes,
       SessionTypes
<1>2. CASE LoginUnreadable
  BY <1>2 DEF LoginUnreadable, Clear, IdentityTypes
<1>3. ASSUME NEW a \in auths, ValidateReturn(a) PROVE IdentityTypes'
  BY <1>3 DEF ValidateReturn, Drop, identity, LoginFails, Clear, LoginSucceeds, Restored,
       TypeOK, IdentityTypes, SettingsTypes, RegistrationTypes, SessionTypes, Settings,
       SavedPeer
<1>4. ASSUME NEW a \in auths, AuthFail(a) PROVE IdentityTypes'
  BY <1>4 DEF AuthFail, Drop, identity, LoginFails, Clear, TypeOK, IdentityTypes, SettingsTypes,
       RegistrationTypes, SessionTypes
<1>5. CASE Logout
  BY <1>5 DEF Logout, Clear, IdentityTypes
<1>6. ASSUME NEW s \in Offers, Import(s) PROVE IdentityTypes'
  BY <1>6, SessionAssumption DEF Import, SessionAssumption, TypeOK, IdentityTypes,
       SettingsTypes, RegistrationTypes, SessionTypes
<1>7. CASE Restart
  BY <1>7, Distinct DEF Restart, AutoLogin, LoadBundle, Clear, TypeOK, IdentityTypes,
       SettingsTypes, RegistrationTypes, SessionTypes, Settings, SavedLogin
<1>8. CASE \/ Begin \/ Server \/ RegisterDone \/ RegisterFailed
           \/ Save \/ Continue \/ ChooseLogin \/ WriteLeftover \/ UNCHANGED vars
           \/ \E u \in Users : Submit(u)
           \/ \E u \in Users, b \in Bundles : RegisterElsewhere(u, b)
           \/ \E a \in auths : ChallengeReturn(a)
           \/ \E l \in loads : ListReturn(l)
           \/ \E l \in loads : ListFail(l)
  <2>1. UNCHANGED <<own, name, known>>
    BY <1>8 DEF vars, identity, settings, registration, session, Begin, Submit, Server,
         RegisterElsewhere, RegisterDone, RegisterFailed, Save, Continue, ChooseLogin,
         ChallengeReturn, ListReturn, ListFail, WriteLeftover, Drop, Flush, Forget,
         NotRegistered, RegisterCommit, Registered, SavePrivateKey, SaveShare, SendRequest
  <2> QED BY <2>1 DEF TypeOK, IdentityTypes
<1> QED BY <1>1, <1>2, <1>3, <1>4, <1>5, <1>6, <1>7, <1>8 DEF Next

\* The settings of the process and of the file.
LEMMA SettingsTyped ==
    ASSUME TypeOK, Matching, Logins, Registers, [Next]_vars
    PROVE  SettingsTypes'
<1>1. ASSUME NEW a \in auths, ValidateReturn(a) PROVE SettingsTypes'
  <2>1. a \in Auth
    BY DEF TypeOK, SessionTypes
  <2>2. CASE ~Wanted(a)
    BY <1>1, <2>2 DEF ValidateReturn, Drop, settings, TypeOK, SettingsTypes
  <2>3. CASE Wanted(a)
    <3>1. cache' = [cache EXCEPT !.login = [user |-> a.user, path |-> a.path]]
      BY <1>1, <2>3 DEF ValidateReturn
    <3>2. [user |-> a.user, path |-> a.path] \in SavedLogin
      BY <2>1 DEF SavedLogin, Auth
    <3>3. cache' \in Settings
      BY <3>1, <3>2 DEF TypeOK, SettingsTypes, Settings
    <3> QED BY <1>1, <2>3, <3>3 DEF ValidateReturn, AfterSync, SyncResults, TypeOK, SettingsTypes
  <2> QED BY <2>2, <2>3
<1>2. CASE Logout
  BY <1>2 DEF Logout, SyncResults, AfterSync, Forgotten, WithoutPeers, TypeOK, IdentityTypes,
       SettingsTypes, RegistrationTypes, SessionTypes, Settings
<1>3. ASSUME NEW s \in Offers, Import(s) PROVE SettingsTypes'
  <2>1. Rows(known') \subseteq SavedPeer
    BY <1>3, Distinct, SessionAssumption DEF SessionAssumption, Import, Rows, SavedPeer,
         Matching, SessionMatches, TypeOK, IdentityTypes
  <2>2. WithPeers(cache, known') \in Settings
    BY <2>1 DEF WithPeers, TypeOK, SettingsTypes, Settings
  <2> QED BY <1>3, <2>2 DEF Import, AfterSync, SyncResults, TypeOK, SettingsTypes
<1>4. CASE Restart
  BY <1>4 DEF Restart, TypeOK, SettingsTypes
<1>5. CASE WriteLeftover
  BY <1>5 DEF WriteLeftover, Flush, TypeOK, SettingsTypes
<1>6. CASE \/ Begin \/ Server \/ RegisterDone \/ RegisterFailed
           \/ Save \/ Continue \/ ChooseLogin \/ LoginUnreadable \/ UNCHANGED vars
           \/ \E u \in Users : Submit(u)
           \/ \E u \in Users, b \in Bundles : RegisterElsewhere(u, b)
           \/ \E u \in Users, b \in Bundles : Login(u, b)
           \/ \E a \in auths : ChallengeReturn(a)
           \/ \E a \in auths : AuthFail(a)
           \/ \E l \in loads : ListReturn(l)
           \/ \E l \in loads : ListFail(l)
  <2>1. UNCHANGED <<cache, disk, broken>>
    BY <1>6 DEF vars, identity, settings, registration, session, Begin, Submit, Server,
         RegisterElsewhere, RegisterDone, RegisterFailed, Save, Continue, ChooseLogin, Login,
         LoginUnreadable, ChallengeReturn, AuthFail, ListReturn, ListFail, Drop, Forget,
         LoginFails, NotRegistered, RegisterCommit, Registered, SavePrivateKey, SaveShare,
         SendRequest
  <2> QED BY <2>1 DEF TypeOK, SettingsTypes
<1> QED BY <1>1, <1>2, <1>3, <1>4, <1>5, <1>6 DEF Next

\* The registration, the table and the files.
LEMMA RegistrationTyped ==
    ASSUME TypeOK, Matching, Logins, Registers, [Next]_vars
    PROVE  RegistrationTypes'
<1>1. CASE Begin
  BY <1>1 DEF Begin, NewKeys, TypeOK, RegistrationTypes, Registering
<1>2. ASSUME NEW u \in Users, Submit(u) PROVE RegistrationTypes'
  <2>1. CASE reg.busy \/ reg.done
    BY <1>2, <2>1 DEF Submit, SendRequest, TypeOK, RegistrationTypes
  <2>2. CASE ~(reg.busy \/ reg.done)
    <3>1. reg.bundle \in Bundles
      BY <1>2, <2>2 DEF Submit, Registers, TypeOK, RegistrationTypes, Registering
    <3>2. /\ post' = [user |-> u, bundle |-> reg.bundle, stage |-> "wire"]
          /\ reg' = [reg EXCEPT !.busy = TRUE]
      BY <1>2, <2>2 DEF Submit, SendRequest
    <3>3. post' \in Request
      BY <3>1, <3>2 DEF Request
    <3>4. reg' \in Registering
      BY <3>2 DEF TypeOK, RegistrationTypes, Registering
    <3> QED BY <1>2, <3>3, <3>4 DEF Submit, TypeOK, RegistrationTypes
  <2> QED BY <2>1, <2>2
<1>3. CASE Server
  BY <1>3, TableKeeps DEF Server, RegisterCommit, TypeOK, RegistrationTypes, Request
<1>4. ASSUME NEW u \in Users, NEW b \in Bundles, RegisterElsewhere(u, b) PROVE RegistrationTypes'
  BY <1>4, TableKeeps DEF RegisterElsewhere, TypeOK, RegistrationTypes
<1>5. CASE RegisterDone
  BY <1>5, MadeShareVerifies, TableKeeps DEF RegisterDone, Registered, Registers, TypeOK,
       RegistrationTypes, Registering, Request
<1>6. CASE RegisterFailed
  BY <1>6, TableKeeps DEF RegisterFailed, NotRegistered, TypeOK, RegistrationTypes, Registering
<1>7. CASE Save
  BY <1>7 DEF Save, SaveShare, SavePrivateKey, TypeOK, RegistrationTypes, Registering
<1>8. CASE Continue
  BY <1>8 DEF Continue, Forget, registration, TypeOK, RegistrationTypes, Registering
<1>9. CASE Restart
  BY <1>9, TableKeeps DEF Restart, Blank, TypeOK, RegistrationTypes, Registering
<1>10. CASE \/ ChooseLogin \/ LoginUnreadable \/ Logout \/ WriteLeftover \/ UNCHANGED vars
            \/ \E u \in Users, b \in Bundles : Login(u, b)
            \/ \E a \in auths : ChallengeReturn(a)
            \/ \E a \in auths : ValidateReturn(a)
            \/ \E a \in auths : AuthFail(a)
            \/ \E s \in Offers : Import(s)
            \/ \E l \in loads : ListReturn(l)
            \/ \E l \in loads : ListFail(l)
  <2>1. UNCHANGED <<reg, post, table, files>>
    BY <1>10 DEF vars, identity, settings, registration, session, ChooseLogin, Login,
         LoginUnreadable, ChallengeReturn, ValidateReturn, AuthFail, Logout, Import, ListReturn,
         ListFail, WriteLeftover, Drop, Flush, LoginFails, LoginSucceeds, StartSession
  <2> QED BY <2>1 DEF TypeOK, RegistrationTypes
<1> QED BY <1>1, <1>2, <1>3, <1>4, <1>5, <1>6, <1>7, <1>8, <1>9, <1>10 DEF Next

\* The screens, the requests and the histories.
LEMMA SessionTyped ==
    ASSUME TypeOK, Matching, Logins, Registers, [Next]_vars
    PROVE  SessionTypes'
<1>1. CASE Begin
  BY <1>1 DEF Begin, TypeOK, SessionTypes, Screens
<1>2. ASSUME NEW u \in Users, Submit(u) PROVE SessionTypes'
  BY <1>2 DEF Submit, TypeOK, SessionTypes, RegistrationTypes, Registering
<1>3. CASE RegisterDone
  BY <1>3 DEF RegisterDone, TypeOK, SessionTypes, Screens
<1>4. CASE RegisterFailed
  BY <1>4 DEF RegisterFailed, TypeOK, SessionTypes
<1>5. CASE Continue
  BY <1>5 DEF Continue, TypeOK, SessionTypes, Screens
<1>6. CASE ChooseLogin
  BY <1>6 DEF ChooseLogin, TypeOK, SessionTypes, Screens
<1>7. ASSUME NEW u \in Users, NEW b \in Bundles, Login(u, b) PROVE SessionTypes'
  BY <1>7, DeadAuths, NewAuthTyped DEF Login, TypeOK, SessionTypes
<1>8. CASE LoginUnreadable
  BY <1>8, DeadAuths DEF LoginUnreadable, TypeOK, SessionTypes
<1>9. ASSUME NEW a \in auths, ChallengeReturn(a) PROVE SessionTypes'
  BY <1>9 DEF ChallengeReturn, Drop, TypeOK, SessionTypes, Auth
<1>10. ASSUME NEW a \in auths, ValidateReturn(a) PROVE SessionTypes'
  <2>1. a \in Auth
    BY DEF TypeOK, SessionTypes
  <2>2. known' \subseteq Share
    BY IdentityTyped DEF IdentityTypes
  <2>3. CASE ~Wanted(a)
    BY <1>10, <2>3 DEF ValidateReturn, Drop, TypeOK, SessionTypes
  <2>4. CASE Wanted(a) /\ LoginFails
    BY <1>10, <2>4 DEF ValidateReturn, LoginFails, TypeOK, SessionTypes, Screens
  <2>5. CASE Wanted(a) /\ LoginSucceeds(a)
    <3>1. imported' \subseteq Users /\ list' \subseteq Users
      BY <2>2, <2>5 DEF LoginSucceeds, StartSession, Peers, Share
    <3>2. loads' \subseteq Load
      <4>1. loads' = Dead(loads) \cup {[user |-> a.user, live |-> TRUE]}
        BY <2>5 DEF LoginSucceeds, StartSession
      <4>2. Dead(loads) \subseteq Load
        BY DeadLoads DEF TypeOK, SessionTypes
      <4>3. [user |-> a.user, live |-> TRUE] \in Load
        BY <2>1 DEF Load, Auth
      <4> QED BY <4>1, <4>2, <4>3
    <3> QED BY <1>10, <2>1, <2>5, <3>1, <3>2
            DEF ValidateReturn, LoginSucceeds, TypeOK, SessionTypes, Screens, Auth
  <2> QED BY <1>10, <2>3, <2>4, <2>5 DEF ValidateReturn
<1>11. ASSUME NEW a \in auths, AuthFail(a) PROVE SessionTypes'
  BY <1>11 DEF AuthFail, Drop, LoginFails, TypeOK, SessionTypes, Screens
<1>12. CASE Logout
  <2>1. name \in Users /\ own \in Bundles
    BY <1>12 DEF Logout, Matching, SessionMatches, TypeOK, IdentityTypes, SessionTypes
  <2> QED BY <1>12, <2>1, DeadAuths, DeadLoads DEF Logout, TypeOK, SessionTypes, Screens,
       SavedLogin
<1>13. ASSUME NEW s \in Offers, Import(s) PROVE SessionTypes'
  <2>1. s \in Share /\ name \in Users /\ own \in Bundles
    BY <1>13, SessionAssumption DEF SessionAssumption, Import, Matching, SessionMatches, TypeOK,
         IdentityTypes, SessionTypes
  <2>2. Rows({s}) \subseteq SavedPeer /\ s.iid \in Users
    BY <2>1 DEF Rows, SavedPeer, Share
  <2> QED BY <1>13, <2>2 DEF Import, TypeOK, SessionTypes
<1>14. ASSUME NEW l \in loads, ListReturn(l) PROVE SessionTypes'
  BY <1>14, SessionAssumption DEF ListReturn, SessionAssumption, Merged, TypeOK, SessionTypes,
       Load
<1>15. ASSUME NEW l \in loads, ListFail(l) PROVE SessionTypes'
  BY <1>15 DEF ListFail, TypeOK, SessionTypes
<1>16. CASE Restart
  <2>1. screen' \in Screens
    BY <1>16 DEF Restart, AutoLogin, Screens
  <2>2. disk.login # None => disk.login.user \in Users /\ disk.login.path \in Bundles
    BY DEF TypeOK, SettingsTypes, Settings, SavedLogin
  <2>3. auths' \subseteq Auth
    BY <1>16, <2>2, NewAuthTyped DEF Restart, AutoLogin
  <2> QED BY <1>16, <2>1, <2>3 DEF Restart, TypeOK, SessionTypes
<1>17. CASE \/ Server \/ Save \/ WriteLeftover \/ UNCHANGED vars
            \/ \E u \in Users, b \in Bundles : RegisterElsewhere(u, b)
  <2>1. UNCHANGED <<screen, submitting, auths, login, list, imported, loads, trust, gone,
                  remade>>
    BY <1>17 DEF vars, identity, settings, registration, session, Server, RegisterElsewhere,
         Save, WriteLeftover, Flush, RegisterCommit, SavePrivateKey, SaveShare
  <2> QED BY <2>1 DEF TypeOK, SessionTypes
<1> QED BY <1>1, <1>2, <1>3, <1>4, <1>5, <1>6, <1>7, <1>8, <1>9, <1>10, <1>11, <1>12, <1>13,
     <1>14, <1>15, <1>16, <1>17 DEF Next

\* Every step keeps the types.
LEMMA Typed ==
    ASSUME TypeOK, Matching, Logins, Registers, [Next]_vars
    PROVE  TypeOK'
BY IdentityTyped, SettingsTyped, RegistrationTyped, SessionTyped DEF TypeOK

-----------------------------------------------------------------------------
(* Logins *)

\* One login at most stays wanted.
LEMMA LoginsKept ==
    ASSUME TypeOK, Matching, Logins, Registers, [Next]_vars
    PROVE  Logins'
<1>1. ASSUME NEW u \in Users, NEW b \in Bundles, Login(u, b) PROVE Logins'
  <2>1. auths' = Dead(auths) \cup {NewAuth(u, b)} /\ own' = b /\ name' = u
    BY <1>1 DEF Login, LoadBundle
  <2>2. \A x \in Dead(auths) : ~x.live
    BY DeadAuths DEF TypeOK, SessionTypes
  <2>3. NewAuth(u, b).user = u /\ NewAuth(u, b).path = b
    BY DEF NewAuth
  <2> QED BY <2>1, <2>2, <2>3 DEF Logins
<1>2. CASE LoginUnreadable
  BY <1>2, DeadAuths DEF LoginUnreadable, Logins, TypeOK, SessionTypes
<1>3. ASSUME NEW a \in auths, ChallengeReturn(a) PROVE Logins'
  <2>1. a \in Auth
    BY DEF TypeOK, SessionTypes
  <2>2. CASE ~Wanted(a)
    BY <1>3, <2>2 DEF ChallengeReturn, Drop, identity, Logins
  <2>3. CASE Wanted(a)
    <3>1. auths' = (auths \ {a}) \cup {[a EXCEPT !.stage = "validate"]} /\ UNCHANGED identity
      BY <1>3, <2>3 DEF ChallengeReturn
    <3>2. /\ [a EXCEPT !.stage = "validate"].live = a.live
          /\ [a EXCEPT !.stage = "validate"].user = a.user
          /\ [a EXCEPT !.stage = "validate"].path = a.path
      BY <2>1 DEF Auth
    <3> QED BY <2>3, <3>1, <3>2 DEF Wanted, identity, Logins
  <2> QED BY <2>2, <2>3
<1>4. ASSUME NEW a \in auths, ValidateReturn(a) PROVE Logins'
  BY <1>4 DEF ValidateReturn, Wanted, Drop, identity, Logins
<1>5. ASSUME NEW a \in auths, AuthFail(a) PROVE Logins'
  BY <1>5 DEF AuthFail, Wanted, Drop, identity, Logins
<1>6. CASE Logout
  BY <1>6, DeadAuths DEF Logout, Logins, TypeOK, SessionTypes
<1>7. CASE Restart
  <2>1. \/ auths' = {}
        \/ /\ auths' = {NewAuth(disk.login.user, disk.login.path)}
           /\ LoadBundle(disk.login.path, disk.login.user)
           /\ disk.login # None
    BY <1>7 DEF Restart, AutoLogin
  <2>2. \A b \in Bundles, u \in Users : NewAuth(u, b).user = u /\ NewAuth(u, b).path = b
    BY DEF NewAuth
  <2>3. auths' # {} => /\ auths' = {NewAuth(disk.login.user, disk.login.path)}
                       /\ own' = disk.login.path /\ name' = disk.login.user
                       /\ disk.login \in SavedLogin
    BY <1>7, <2>1 DEF Restart, AutoLogin, LoadBundle, TypeOK, SettingsTypes, Settings
  <2> QED BY <2>2, <2>3 DEF Logins, SavedLogin
<1>8. CASE \/ Begin \/ Server \/ RegisterDone \/ RegisterFailed
           \/ Save \/ Continue \/ ChooseLogin \/ WriteLeftover \/ UNCHANGED vars
           \/ \E u \in Users : Submit(u)
           \/ \E u \in Users, b \in Bundles : RegisterElsewhere(u, b)
           \/ \E s \in Offers : Import(s)
           \/ \E l \in loads : ListReturn(l)
           \/ \E l \in loads : ListFail(l)
  <2>1. UNCHANGED <<own, name, auths>>
    BY <1>8 DEF vars, identity, settings, registration, session, Begin, Submit, Server,
         RegisterElsewhere, RegisterDone, RegisterFailed, Save, Continue, ChooseLogin, Import,
         ListReturn, ListFail, WriteLeftover, Flush, Forget, NotRegistered, RegisterCommit,
         Registered, SavePrivateKey, SaveShare, SendRequest
  <2> QED BY <2>1 DEF Logins
<1> QED BY <1>1, <1>2, <1>3, <1>4, <1>5, <1>6, <1>7, <1>8 DEF Next

\* On the messages screen all is of one user.
LEMMA MatchingKept ==
    ASSUME TypeOK, Matching, Logins, Registers, [Next]_vars
    PROVE  Matching'
<1>1. CASE Begin
  BY <1>1 DEF Begin, Matching, SessionMatches
<1>2. CASE Server
  <2>1. UNCHANGED <<screen, login, name, own, auths>>
    BY <1>2 DEF Server, identity, session
  <2> QED BY <2>1, TableKeeps DEF Matching, SessionMatches, TypeOK, SessionTypes
<1>3. ASSUME NEW u \in Users, NEW b \in Bundles, RegisterElsewhere(u, b) PROVE Matching'
  <2>1. UNCHANGED <<screen, login, name, own, auths>>
    BY <1>3 DEF RegisterElsewhere, identity, session
  <2> QED BY <2>1, TableKeeps DEF Matching, SessionMatches, TypeOK, SessionTypes
<1>4. CASE RegisterDone
  BY <1>4 DEF RegisterDone, Matching, SessionMatches
<1>5. CASE RegisterFailed
  <2>1. UNCHANGED <<screen, login, name, own, auths>>
    BY <1>5 DEF RegisterFailed, identity, session
  <2> QED BY <2>1, TableKeeps DEF Matching, SessionMatches, TypeOK, SessionTypes
<1>6. CASE Continue
  BY <1>6 DEF Continue, Matching, SessionMatches
<1>7. CASE ChooseLogin
  BY <1>7 DEF ChooseLogin, Matching, SessionMatches
<1>8. ASSUME NEW u \in Users, NEW b \in Bundles, Login(u, b) PROVE Matching'
  BY <1>8 DEF Login, Matching, SessionMatches
<1>9. CASE LoginUnreadable
  BY <1>9 DEF LoginUnreadable, Matching, SessionMatches
<1>10. ASSUME NEW a \in auths, ChallengeReturn(a) PROVE Matching'
  BY <1>10 DEF ChallengeReturn, Wanted, Drop, identity, registration, Matching, SessionMatches
<1>11. ASSUME NEW a \in auths, ValidateReturn(a) PROVE Matching'
  <2>1. a.user \in Users /\ a.path \in Bundles
    BY DEF TypeOK, SessionTypes, Auth
  <2>2. CASE ~Wanted(a)
    BY <1>11, <2>2 DEF ValidateReturn, Drop, identity, registration, Matching, SessionMatches
  <2>3. CASE Wanted(a) /\ LoginFails
    BY <2>3 DEF LoginFails, Matching, SessionMatches
  <2>4. CASE Wanted(a) /\ LoginSucceeds(a)
    <3>1. name = a.user /\ own = a.path /\ \A b \in auths \ {a} : ~b.live
      BY <2>4 DEF Wanted, Logins
    <3>2. table' = table /\ table[a.user] = a.path /\ auths' = auths \ {a}
      BY <1>11, <2>4 DEF ValidateReturn, Proves, registration
    <3> QED BY <2>1, <2>4, <3>1, <3>2, Distinct DEF LoginSucceeds, Matching, SessionMatches
  <2> QED BY <1>11, <2>2, <2>3, <2>4 DEF ValidateReturn
<1>12. ASSUME NEW a \in auths, AuthFail(a) PROVE Matching'
  BY <1>12 DEF AuthFail, Wanted, Drop, LoginFails, identity, registration, Matching,
       SessionMatches
<1>13. CASE Logout
  BY <1>13 DEF Logout, Matching, SessionMatches
<1>14. CASE Restart
  BY <1>14 DEF Restart, AutoLogin, Matching, SessionMatches
<1>15. CASE \/ Save \/ WriteLeftover \/ UNCHANGED vars
            \/ \E u \in Users : Submit(u)
            \/ \E s \in Offers : Import(s)
            \/ \E l \in loads : ListReturn(l)
            \/ \E l \in loads : ListFail(l)
  <2>1. UNCHANGED <<screen, login, name, own, table, auths>>
    BY <1>15 DEF vars, identity, settings, registration, session, Submit, Save, Import,
         ListReturn, ListFail, WriteLeftover, Flush, SavePrivateKey, SaveShare, SendRequest
  <2> QED BY <2>1 DEF Matching, SessionMatches
<1> QED BY <1>1, <1>2, <1>3, <1>4, <1>5, <1>6, <1>7, <1>8, <1>9, <1>10, <1>11, <1>12, <1>13,
     <1>14, <1>15 DEF Next

\* A login the server has accepted stays accepted.
LEMMA ProvenStays ==
    ASSUME TypeOK, [Next]_vars, NEW s \in Settings,
           s.login # None => table[s.login.user] = s.login.path
    PROVE  s.login # None => table'[s.login.user] = s.login.path
BY TableKeeps, Distinct DEF Settings, SavedLogin

\* The saved login stays one the server has accepted.
LEMMA SavedLoginKept ==
    ASSUME TypeOK, Matching, Logins, Registers, SavedLoginProven, [Next]_vars
    PROVE  SavedLoginProven'
<1>1. CASE Server
  BY <1>1, ProvenStays DEF Server, settings, SavedLoginProven, TypeOK, SettingsTypes
<1>2. ASSUME NEW u \in Users, NEW b \in Bundles, RegisterElsewhere(u, b) PROVE SavedLoginProven'
  BY <1>2, ProvenStays DEF RegisterElsewhere, settings, SavedLoginProven, TypeOK, SettingsTypes
<1>3. CASE RegisterFailed
  BY <1>3, ProvenStays DEF RegisterFailed, settings, SavedLoginProven, TypeOK, SettingsTypes
<1>4. ASSUME NEW a \in auths, ValidateReturn(a) PROVE SavedLoginProven'
  <2>1. CASE ~Wanted(a)
    BY <1>4, <2>1 DEF ValidateReturn, Drop, settings, registration, SavedLoginProven
  <2>2. CASE Wanted(a)
    <3>1. /\ cache' = [cache EXCEPT !.login = [user |-> a.user, path |-> a.path]]
          /\ disk' \in {disk, cache'} /\ table' = table /\ table[a.user] = a.path
      BY <1>4, <2>2 DEF ValidateReturn, AfterSync, Proves, registration
    <3>2. cache'.login = [user |-> a.user, path |-> a.path]
      BY <3>1 DEF TypeOK, SettingsTypes, Settings
    <3>3. \A t \in {cache, disk} : t.login # None => table'[t.login.user] = t.login.path
      BY <3>1 DEF SavedLoginProven
    <3>4. cache'.login # None => table'[cache'.login.user] = cache'.login.path
      BY <3>1, <3>2
    <3> QED BY <3>1, <3>3, <3>4 DEF SavedLoginProven
  <2> QED BY <2>1, <2>2
<1>5. CASE Logout
  <2>1. cache'.login = None /\ table' = table
    BY <1>5 DEF Logout, Forgotten, WithoutPeers, registration, TypeOK, SettingsTypes, Settings
  <2>2. disk'.login \in {disk.login, cache.login, None}
    <3>1. cache' \in Settings
      BY SettingsTyped DEF SettingsTypes
    <3> QED BY <1>5, <2>1, <3>1 DEF Logout, AfterSync, Settings
  <2> QED BY <2>1, <2>2 DEF SavedLoginProven
<1>6. ASSUME NEW s \in Offers, Import(s) PROVE SavedLoginProven'
  <2>1. cache'.login = cache.login /\ disk' \in {disk, cache'} /\ table' = table
    BY <1>6 DEF Import, WithPeers, AfterSync, registration, TypeOK, SettingsTypes, Settings
  <2> QED BY <2>1 DEF SavedLoginProven
<1>7. CASE Restart
  BY <1>7, ProvenStays DEF Restart, SavedLoginProven, TypeOK, SettingsTypes
<1>8. CASE WriteLeftover
  BY <1>8 DEF WriteLeftover, Flush, registration, SavedLoginProven
<1>9. CASE \/ Begin \/ RegisterDone \/ Save
           \/ Continue \/ ChooseLogin \/ LoginUnreadable \/ UNCHANGED vars
           \/ \E u \in Users : Submit(u)
           \/ \E u \in Users, b \in Bundles : Login(u, b)
           \/ \E a \in auths : ChallengeReturn(a)
           \/ \E a \in auths : AuthFail(a)
           \/ \E l \in loads : ListReturn(l)
           \/ \E l \in loads : ListFail(l)
  <2>1. UNCHANGED <<cache, disk, table>>
    BY <1>9 DEF vars, identity, settings, registration, session, Begin, Submit, RegisterDone,
         Save, Continue, ChooseLogin, Login, LoginUnreadable, ChallengeReturn, AuthFail,
         ListReturn, ListFail, Drop, Forget, LoginFails, Registered, SavePrivateKey, SaveShare,
         SendRequest
  <2> QED BY <2>1 DEF SavedLoginProven
<1> QED BY <1>1, <1>2, <1>3, <1>4, <1>5, <1>6, <1>7, <1>8, <1>9 DEF Next

-----------------------------------------------------------------------------
(* Registration *)

\* A request and the members it will be answered into agree.
LEMMA RegistersKept ==
    ASSUME TypeOK, Registers, [Next]_vars
    PROVE  Registers'
<1>1. CASE Begin
  <2>1. PICK b \in Bundles :
            reg' = [reg EXCEPT !.bundle = b, !.share = None, !.done = FALSE,
                               !.shareSaved = FALSE, !.keySaved = FALSE]
    BY <1>1 DEF Begin, NewKeys
  <2>2. /\ reg'.bundle # None /\ ~reg'.done /\ ~reg'.shareSaved /\ ~reg'.keySaved
    BY <2>1, Distinct DEF TypeOK, RegistrationTypes, Registering
  <2> QED BY <1>1, <2>2 DEF Begin, Registers
<1>2. ASSUME NEW u \in Users, Submit(u) PROVE Registers'
  <2>1. CASE reg.busy \/ reg.done
    BY <1>2, <2>1 DEF Submit, SendRequest, Registers
  <2>2. CASE ~(reg.busy \/ reg.done)
    <3>1. /\ post' = [user |-> u, bundle |-> reg.bundle, stage |-> "wire"]
          /\ reg' = [reg EXCEPT !.busy = TRUE]
      BY <1>2, <2>2 DEF Submit, SendRequest
    <3>2. /\ reg'.bundle = reg.bundle /\ reg'.done = reg.done /\ reg'.share = reg.share
          /\ reg'.shareSaved = reg.shareSaved /\ reg'.keySaved = reg.keySaved
      BY <3>1 DEF TypeOK, RegistrationTypes, Registering
    <3> QED BY <1>2, <2>2, <3>1, <3>2 DEF Submit, Registers
  <2> QED BY <2>1, <2>2
<1>3. CASE Server
  <2>1. post \in Request
    BY <1>3 DEF Server, RegisterCommit, TypeOK, RegistrationTypes
  <2>2. /\ post'.user = post.user /\ post'.bundle = post.bundle
        /\ post'.stage = "ok" => table[post.user] = None
    BY <1>3, <2>1 DEF Server, RegisterCommit, Request
  <2>3. table' = Inserted(post.user, post.bundle)
    BY <1>3 DEF Server, RegisterCommit
  <2>4. post'.stage = "ok" => table'[post'.user] = post'.bundle
    BY <2>1, <2>2, <2>3, InsertedKeeps DEF Request
  <2> QED BY <1>3, <2>2, <2>4 DEF Server, RegisterCommit, session, Registers
<1>4. ASSUME NEW u \in Users, NEW b \in Bundles, RegisterElsewhere(u, b) PROVE Registers'
  <2>1. UNCHANGED <<reg, post, remade, screen>>
    BY <1>4 DEF RegisterElsewhere, session
  <2>2. post # None => post.user \in Users /\ post.bundle \in Bundles
    BY DEF TypeOK, RegistrationTypes, Request
  <2> QED BY <2>1, <2>2, TableKeeps, Distinct DEF Registers
<1>5. CASE RegisterDone
  <2>1. post \in Request
    BY <1>5 DEF RegisterDone, TypeOK, RegistrationTypes
  <2>2. reg'.share # None /\ reg'.done
    BY <1>5, <2>1, MadeShareVerifies, Distinct
       DEF RegisterDone, Registered, Registers, TypeOK, RegistrationTypes, Registering, Request
  <2> QED BY <1>5, <2>2 DEF RegisterDone, Registered, Registers
<1>6. CASE RegisterFailed
  <2>1. /\ reg'.bundle = reg.bundle /\ reg'.done = reg.done /\ reg'.share = reg.share
        /\ reg'.shareSaved = reg.shareSaved /\ reg'.keySaved = reg.keySaved
    BY <1>6 DEF RegisterFailed, NotRegistered, TypeOK, RegistrationTypes, Registering
  <2> QED BY <1>6, <2>1 DEF RegisterFailed, NotRegistered, Registers
<1>7. CASE Save
  <2>1. /\ reg'.bundle = reg.bundle /\ reg'.done = reg.done /\ reg'.share = reg.share
        /\ reg.done
        /\ UNCHANGED <<post, table, screen, remade>>
    BY <1>7 DEF Save, SaveShare, SavePrivateKey, session, TypeOK, RegistrationTypes, Registering
  <2> QED BY <2>1 DEF Registers
<1>8. CASE Continue
  <2>1. /\ reg'.bundle = None /\ reg'.done = reg.done /\ reg'.shareSaved = reg.shareSaved
        /\ reg'.keySaved = reg.keySaved /\ UNCHANGED <<post, table>> /\ reg.done
    BY <1>8
       DEF Continue, MayContinue, BothSaved, Forget, Registers, TypeOK, RegistrationTypes,
            Registering
  <2> QED BY <1>8, <2>1 DEF Continue, Registers
<1>9. CASE ChooseLogin
  <2>1. UNCHANGED <<reg, post, table, remade>> /\ screen' # "register"
    BY <1>9 DEF ChooseLogin, registration
  <2> QED BY <2>1 DEF Registers
<1>10. ASSUME NEW a \in auths, ValidateReturn(a) PROVE Registers'
  <2>1. UNCHANGED <<reg, post, table>>
    BY <1>10 DEF ValidateReturn, Drop, registration
  <2>2. (remade => remade') /\ screen' \in {screen, "login", "messages"}
    BY <1>10 DEF ValidateReturn, Drop, LoginFails, LoginSucceeds
  <2> QED BY <2>1, <2>2 DEF Registers
<1>11. ASSUME NEW a \in auths, AuthFail(a) PROVE Registers'
  <2>1. UNCHANGED <<reg, post, table>>
    BY <1>11 DEF AuthFail, Drop, registration
  <2>2. (remade => remade') /\ screen' \in {screen, "login"}
    BY <1>11 DEF AuthFail, Drop, LoginFails
  <2> QED BY <2>1, <2>2 DEF Registers
<1>12. CASE Logout
  <2>1. UNCHANGED <<reg, post, table, remade>> /\ screen' # "register"
    BY <1>12 DEF Logout, registration
  <2> QED BY <2>1 DEF Registers
<1>13. CASE Restart
  BY <1>13 DEF Restart, AutoLogin, Blank, Registers
<1>14. CASE \/ LoginUnreadable \/ WriteLeftover \/ UNCHANGED vars
            \/ \E u \in Users, b \in Bundles : Login(u, b)
            \/ \E a \in auths : ChallengeReturn(a)
            \/ \E s \in Offers : Import(s)
            \/ \E l \in loads : ListReturn(l)
            \/ \E l \in loads : ListFail(l)
  <2>1. UNCHANGED <<reg, post, table, remade, screen>>
    BY <1>14 DEF vars, identity, settings, registration, session, Login, LoginUnreadable,
         ChallengeReturn, Import, ListReturn, ListFail, WriteLeftover, Drop, Flush
  <2> QED BY <2>1 DEF Registers
<1> QED BY <1>1, <1>2, <1>3, <1>4, <1>5, <1>6, <1>7, <1>8, <1>9, <1>10, <1>11, <1>12, <1>13,
     <1>14 DEF Next

\* A registered name keeps its keys.
LEMMA RegisteredStays ==
    ASSUME TypeOK, Registers, RegisteredKeys, [Next]_vars
    PROVE  reg.done /\ reg.bundle # None /\ ~remade =>
               table'[reg.share.iid] = reg.bundle
<1> SUFFICES ASSUME reg.done, reg.bundle # None, ~remade
             PROVE  table'[reg.share.iid] = reg.bundle
  OBVIOUS
<1>1. reg.share \in Share /\ table[reg.share.iid] = reg.bundle
  BY DEF Registers, RegisteredKeys, TypeOK, RegistrationTypes, Registering
<1>2. reg.share.iid \in Users
  BY <1>1 DEF Share
<1> QED BY <1>1, <1>2, TableKeeps

\* The registered name is registered with the keys to be saved.
LEMMA RegisteredKept ==
    ASSUME TypeOK, Registers, [Next]_vars, RegisteredKeys
    PROVE  RegisteredKeys'
<1>1. CASE Begin
  BY <1>1 DEF Begin, NewKeys, RegisteredKeys, TypeOK, RegistrationTypes, Registering
<1>2. ASSUME NEW u \in Users, Submit(u) PROVE RegisteredKeys'
  <2>1. UNCHANGED <<table, remade>> /\ (reg.done => reg' = reg)
    BY <1>2 DEF Submit, SendRequest
  <2>2. reg'.done = reg.done
    BY <1>2 DEF Submit, SendRequest, TypeOK, RegistrationTypes, Registering
  <2> QED BY <2>1, <2>2 DEF RegisteredKeys
<1>3. CASE Server
  <2>1. UNCHANGED <<reg, remade>>
    BY <1>3 DEF Server, RegisterCommit, session
  <2> QED BY <2>1, RegisteredStays DEF RegisteredKeys
<1>4. ASSUME NEW u \in Users, NEW b \in Bundles, RegisterElsewhere(u, b) PROVE RegisteredKeys'
  <2>1. UNCHANGED <<reg, remade>>
    BY <1>4 DEF RegisterElsewhere, session
  <2> QED BY <2>1, RegisteredStays DEF RegisteredKeys
<1>5. CASE RegisterDone
  <2>1. post \in Request
    BY <1>5 DEF RegisterDone, TypeOK, RegistrationTypes
  <2>2. /\ reg'.bundle = reg.bundle /\ reg'.share = MadeShare(reg.bundle, post.user)
        /\ remade => remade'
    BY <1>5 DEF RegisterDone, Registered, TypeOK, RegistrationTypes, Registering
  <2>3. reg'.share.iid = post.user
    BY <2>2 DEF MadeShare
  <2>4. ~remade' => table[post.user] = reg.bundle
    BY <1>5, <2>2 DEF RegisterDone, Registers
  <2> QED BY <1>5, <2>2, <2>3, <2>4 DEF RegisterDone, RegisteredKeys
<1>6. CASE RegisterFailed
  <2>1. /\ reg'.bundle = reg.bundle /\ reg'.done = reg.done /\ reg'.share = reg.share
        /\ UNCHANGED remade
    BY <1>6 DEF RegisterFailed, NotRegistered, TypeOK, RegistrationTypes, Registering
  <2> QED BY <2>1, RegisteredStays DEF RegisteredKeys
<1>7. CASE Save
  <2>1. /\ reg'.bundle = reg.bundle /\ reg'.done = reg.done /\ reg'.share = reg.share
        /\ UNCHANGED <<table, remade>>
    BY <1>7 DEF Save, SaveShare, SavePrivateKey, session, TypeOK, RegistrationTypes, Registering
  <2> QED BY <2>1 DEF RegisteredKeys
<1>8. CASE Continue
  <2>1. reg'.bundle = None
    BY <1>8 DEF Continue, MayContinue, Forget, TypeOK, RegistrationTypes, Registering
  <2> QED BY <2>1 DEF RegisteredKeys
<1>9. ASSUME NEW a \in auths, ValidateReturn(a) PROVE RegisteredKeys'
  BY <1>9 DEF ValidateReturn, Drop, LoginFails, LoginSucceeds, registration, RegisteredKeys
<1>10. ASSUME NEW a \in auths, AuthFail(a) PROVE RegisteredKeys'
  BY <1>10 DEF AuthFail, Drop, LoginFails, registration, RegisteredKeys
<1>11. CASE Restart
  BY <1>11 DEF Restart, Blank, RegisteredKeys
<1>12. CASE \/ ChooseLogin \/ LoginUnreadable \/ Logout \/ WriteLeftover \/ UNCHANGED vars
            \/ \E u \in Users, b \in Bundles : Login(u, b)
            \/ \E a \in auths : ChallengeReturn(a)
            \/ \E s \in Offers : Import(s)
            \/ \E l \in loads : ListReturn(l)
            \/ \E l \in loads : ListFail(l)
  <2>1. UNCHANGED <<reg, table, remade>>
    BY <1>12 DEF vars, identity, settings, registration, session, ChooseLogin, Login,
         LoginUnreadable, ChallengeReturn, Logout, Import, ListReturn, ListFail, WriteLeftover,
         Drop, Flush
  <2> QED BY <2>1 DEF RegisteredKeys
<1> QED BY <1>1, <1>2, <1>3, <1>4, <1>5, <1>6, <1>7, <1>8, <1>9, <1>10, <1>11, <1>12 DEF Next

\* Registered keys are not thrown away unsaved.
LEMMA KeysStay ==
    ASSUME TypeOK, Registers, [Next]_vars, reg.done, ~BothSaved, ~Restart
    PROVE  reg'.done /\ reg'.bundle = reg.bundle
<1>1. CASE Begin
  BY <1>1 DEF Begin, MayBegin
<1>2. ASSUME NEW u \in Users, Submit(u) PROVE reg' = reg
  BY <1>2 DEF Submit, SendRequest
<1>3. CASE RegisterDone \/ RegisterFailed
  BY <1>3 DEF RegisterDone, RegisterFailed, Registers
<1>4. CASE Save
  BY <1>4 DEF Save, SaveShare, SavePrivateKey, TypeOK, RegistrationTypes, Registering
<1>5. CASE Continue
  BY <1>5 DEF Continue, MayContinue
<1>6. CASE \/ Server \/ ChooseLogin \/ LoginUnreadable \/ Logout \/ WriteLeftover
           \/ UNCHANGED vars
           \/ \E u \in Users, b \in Bundles : RegisterElsewhere(u, b) \/ Login(u, b)
           \/ \E a \in auths : ChallengeReturn(a) \/ ValidateReturn(a) \/ AuthFail(a)
           \/ \E s \in Offers : Import(s)
           \/ \E l \in loads : ListReturn(l) \/ ListFail(l)
  <2>1. UNCHANGED reg
    BY <1>6 DEF vars, registration, Server, RegisterCommit, RegisterElsewhere, ChooseLogin,
         Login, LoginUnreadable, ChallengeReturn, ValidateReturn, AuthFail, Logout, Import,
         ListReturn, ListFail, WriteLeftover, Drop
  <2> QED BY <2>1
<1> QED BY <1>1, <1>2, <1>3, <1>4, <1>5, <1>6 DEF Next

-----------------------------------------------------------------------------
(* Peers, conversations and logout *)

\* What the steps that write settings do to the rows of trusted peers.
LEMMA RowsWritten ==
    ASSUME TypeOK, [Next]_vars
    PROVE  /\ \A a \in auths : ValidateReturn(a) =>
                /\ cache'.peers = cache.peers
                /\ disk'.peers \in {disk.peers, cache.peers}
           /\ Logout => /\ cache'.peers = {r \in cache.peers : ~Mine(r)}
                        /\ disk'.peers \in {disk.peers, cache'.peers}
           /\ \A s \in Offers : Import(s) =>
                /\ cache'.peers = {r \in cache.peers : ~Mine(r)} \cup Rows(known \cup {s})
                /\ disk'.peers \in {disk.peers, cache'.peers}
<1> USE DEF TypeOK, SettingsTypes, Settings
<1>1. ASSUME NEW a \in auths, ValidateReturn(a)
      PROVE  cache'.peers = cache.peers /\ disk'.peers \in {disk.peers, cache.peers}
  BY <1>1 DEF ValidateReturn, Drop, settings, AfterSync
<1>2. ASSUME Logout
      PROVE  /\ cache'.peers = {r \in cache.peers : ~Mine(r)}
             /\ disk'.peers \in {disk.peers, cache'.peers}
  <2>1. cache' = [login |-> None, peers |-> {r \in cache.peers : ~Mine(r)}]
    BY <1>2 DEF Logout, Forgotten, WithoutPeers
  <2>2. [cache' EXCEPT !.login = cache.login].peers = cache'.peers
    BY <2>1
  <2> QED BY <1>2, <2>1, <2>2 DEF Logout, AfterSync
<1>3. ASSUME NEW s \in Offers, Import(s)
      PROVE  /\ cache'.peers = {r \in cache.peers : ~Mine(r)} \cup Rows(known \cup {s})
             /\ disk'.peers \in {disk.peers, cache'.peers}
  BY <1>3 DEF Import, WithPeers, AfterSync
<1> QED BY <1>1, <1>2, <1>3

\* The rows an import writes are as good as the ones it replaces.
LEMMA ImportedRows ==
    ASSUME TypeOK, Genuine, NEW s \in Offers, Accepts(s)
    PROVE  /\ \A k \in known \cup {s} : Verifies(k)
           /\ \A k, t \in known \cup {s} : k.iid = t.iid => k = t
           /\ OnePerPeer({r \in cache.peers : ~Mine(r)} \cup Rows(known \cup {s}))
<1>1. s \in Share /\ known \subseteq Share
  BY SessionAssumption DEF SessionAssumption, TypeOK, IdentityTypes
<1>2. \A k \in known \cup {s} : Verifies(k)
  BY DEF Genuine, Accepts
<1>3. \A k \in known : k.iid = s.iid => k = s
  BY <1>1, <1>2, VerifiedEqual DEF Accepts, Agrees
<1>4. \A k, t \in known \cup {s} : k.iid = t.iid => k = t
  BY <1>3 DEF Genuine
<1>5. \A r \in Rows(known \cup {s}) : Mine(r) /\ r.share \in known \cup {s}
  BY DEF Rows, Mine
<1>6. \A r, q \in Rows(known \cup {s}) : r.share = q.share => r = q
  BY DEF Rows
<1>7. ASSUME NEW r \in {x \in cache.peers : ~Mine(x)}, NEW q \in Rows(known \cup {s})
      PROVE  ~(r.user = q.user /\ r.key = q.key)
  BY <1>5 DEF Mine
<1>8. OnePerPeer({r \in cache.peers : ~Mine(r)})
  BY DEF Genuine, OnePerPeer
<1>9. OnePerPeer(Rows(known \cup {s}))
  BY <1>2, <1>4, <1>5, <1>6 DEF OnePerPeer
<1>10. OnePerPeer({r \in cache.peers : ~Mine(r)} \cup Rows(known \cup {s}))
  BY <1>7, <1>8, <1>9 DEF OnePerPeer
<1> QED BY <1>2, <1>4, <1>10

\* Only shares with good signatures are trusted or written, one for each peer.
LEMMA GenuineKept ==
    ASSUME TypeOK, Matching, Logins, Registers, [Next]_vars, Genuine
    PROVE  Genuine'
<1>1. ASSUME NEW u \in Users, NEW b \in Bundles, Login(u, b) PROVE Genuine'
  <2>1. known' = {} /\ UNCHANGED settings
    BY <1>1 DEF Login, LoadBundle
  <2> QED BY <2>1 DEF settings, Genuine, OnePerPeer
<1>2. CASE LoginUnreadable
  <2>1. known' = {} /\ UNCHANGED settings
    BY <1>2 DEF LoginUnreadable, Clear
  <2> QED BY <2>1 DEF settings, Genuine, OnePerPeer
<1>3. ASSUME NEW a \in auths, ValidateReturn(a) PROVE Genuine'
  <2>1. OnePerPeer(cache'.peers) /\ OnePerPeer(disk'.peers)
    BY <1>3, RowsWritten DEF Genuine
  <2>2. known' \in {{}, known, Restored}
    BY <1>3 DEF ValidateReturn, Drop, identity, LoginFails, Clear
  <2>3. /\ \A s \in Restored : Verifies(s)
        /\ \A s, t \in Restored : s.iid = t.iid => s = t
    BY DEF Genuine, OnePerPeer, Restored, Mine
  <2> QED BY <2>1, <2>2, <2>3 DEF Genuine
<1>4. ASSUME NEW a \in auths, AuthFail(a) PROVE Genuine'
  <2>1. known' \in {{}, known} /\ UNCHANGED settings
    BY <1>4 DEF AuthFail, Drop, identity, LoginFails, Clear
  <2> QED BY <2>1 DEF settings, Genuine, OnePerPeer
<1>5. CASE Logout
  <2>1. known' = {}
    BY <1>5 DEF Logout, Clear
  <2>2. OnePerPeer({r \in cache.peers : ~Mine(r)})
    BY DEF Genuine, OnePerPeer
  <2> QED BY <1>5, <2>1, <2>2, RowsWritten DEF Genuine
<1>6. ASSUME NEW s \in Offers, Import(s) PROVE Genuine'
  <2>1. known' = known \cup {s} /\ Accepts(s)
    BY <1>6 DEF Import
  <2> QED BY <1>6, <2>1, RowsWritten, ImportedRows DEF Genuine
<1>7. CASE Restart
  <2>1. known' = {} /\ cache' = disk /\ disk' = disk
    BY <1>7 DEF Restart, AutoLogin, LoadBundle, Clear
  <2> QED BY <2>1 DEF Genuine, OnePerPeer
<1>8. CASE WriteLeftover
  <2>1. disk' = cache /\ cache' = cache /\ known' = known
    BY <1>8 DEF WriteLeftover, Flush, identity
  <2> QED BY <2>1 DEF Genuine, OnePerPeer
<1>9. CASE \/ Begin \/ Server \/ RegisterDone \/ RegisterFailed
           \/ Save \/ Continue \/ ChooseLogin \/ UNCHANGED vars
           \/ \E u \in Users : Submit(u)
           \/ \E u \in Users, b \in Bundles : RegisterElsewhere(u, b)
           \/ \E a \in auths : ChallengeReturn(a)
           \/ \E l \in loads : ListReturn(l)
           \/ \E l \in loads : ListFail(l)
  <2>1. UNCHANGED <<known, cache, disk>>
    BY <1>9 DEF vars, identity, settings, registration, session, Begin, Submit, Server,
         RegisterElsewhere, RegisterDone, RegisterFailed, Save, Continue, ChooseLogin,
         ChallengeReturn, ListReturn, ListFail, Drop, Forget, NotRegistered, RegisterCommit,
         Registered, SavePrivateKey, SaveShare, SendRequest
  <2> QED BY <2>1 DEF Genuine, OnePerPeer, Verifies
<1> QED BY <1>1, <1>2, <1>3, <1>4, <1>5, <1>6, <1>7, <1>8, <1>9 DEF Next

\* What was reported as imported stays in the file and in the open session.
LEMMA TrustedKept ==
    ASSUME TypeOK, Matching, Logins, Registers, [Next]_vars, Trusted
    PROVE  Trusted'
<1>1. CASE Begin
  <2>1. screen' # "messages" /\ UNCHANGED <<trust, cache, disk>>
    BY <1>1 DEF Begin, settings
  <2> QED BY <2>1 DEF Trusted
<1>2. CASE RegisterDone
  <2>1. screen' # "messages" /\ UNCHANGED <<trust, cache, disk>>
    BY <1>2 DEF RegisterDone, settings
  <2> QED BY <2>1 DEF Trusted
<1>3. CASE Continue
  <2>1. screen' # "messages" /\ UNCHANGED <<trust, cache, disk>>
    BY <1>3 DEF Continue, settings
  <2> QED BY <2>1 DEF Trusted
<1>4. CASE ChooseLogin
  <2>1. screen' # "messages" /\ UNCHANGED <<trust, cache, disk>>
    BY <1>4 DEF ChooseLogin, settings
  <2> QED BY <2>1 DEF Trusted
<1>5. ASSUME NEW u \in Users, NEW b \in Bundles, Login(u, b) PROVE Trusted'
  <2>1. screen' # "messages" /\ UNCHANGED <<trust, cache, disk>>
    BY <1>5 DEF Login, settings
  <2> QED BY <2>1 DEF Trusted
<1>6. CASE LoginUnreadable
  <2>1. screen' # "messages" /\ UNCHANGED <<trust, cache, disk>>
    BY <1>6 DEF LoginUnreadable, settings
  <2> QED BY <2>1 DEF Trusted
<1>7. ASSUME NEW a \in auths, ValidateReturn(a) PROVE Trusted'
  <2>1. trust \subseteq cache'.peers /\ trust \subseteq disk'.peers /\ trust' = trust
    BY <1>7, RowsWritten DEF ValidateReturn, Drop, Trusted
  <2>2. CASE ~Wanted(a)
    BY <1>7, <2>1, <2>2 DEF ValidateReturn, Drop, identity, Trusted, Mine
  <2>3. CASE Wanted(a) /\ LoginFails
    BY <2>1, <2>3 DEF LoginFails, Trusted
  <2>4. CASE Wanted(a) /\ LoginSucceeds(a) /\ known' = Restored
    <3>1. own' = own /\ name' = name /\ imported' = Peers(known') /\ list' = imported'
      BY <2>4 DEF LoginSucceeds, StartSession
    <3>2. \A r \in trust : Mine(r) => r.share \in known'
      BY <2>4 DEF Trusted, Restored
    <3>3. \A s \in known' : s.iid \in Peers(known')
      BY DEF Peers
    <3> QED BY <2>1, <3>1, <3>2, <3>3 DEF Trusted, Mine
  <2> QED BY <1>7, <2>2, <2>3, <2>4 DEF ValidateReturn
<1>8. ASSUME NEW a \in auths, AuthFail(a) PROVE Trusted'
  <2>1. UNCHANGED <<trust, cache, disk>>
    BY <1>8 DEF AuthFail, Drop, settings
  <2>2. CASE ~Wanted(a)
    BY <1>8, <2>1, <2>2 DEF AuthFail, Drop, identity, Trusted, Mine
  <2>3. CASE LoginFails
    BY <2>1, <2>3 DEF LoginFails, Trusted
  <2> QED BY <1>8, <2>2, <2>3 DEF AuthFail
<1>9. CASE Logout
  <2>1. screen' # "messages" /\ trust' = {r \in trust : ~Mine(r)}
    BY <1>9 DEF Logout
  <2> QED BY <1>9, <2>1, RowsWritten DEF Trusted
<1>10. ASSUME NEW s \in Offers, Import(s) PROVE Trusted'
  <2>1. /\ screen = "messages" /\ known' = known \cup {s} /\ own' = own /\ name' = name
        /\ screen' = screen
    BY <1>10 DEF Import
  <2>2. \A r \in trust : Mine(r) => r \in Rows(known \cup {s})
    <3> SUFFICES ASSUME NEW r \in trust, Mine(r) PROVE r \in Rows(known \cup {s})
      OBVIOUS
    <3>1. r = [user |-> name, key |-> own, share |-> r.share]
      BY DEF Mine, TypeOK, SessionTypes, SavedPeer
    <3> QED BY <2>1, <3>1 DEF Trusted, Rows
  <2>3. trust \cup Rows({s}) \subseteq cache'.peers
    BY <1>10, <2>2, RowsWritten DEF Trusted, Rows
  <2>4. CASE UNCHANGED <<trust, list, imported>> /\ disk' = disk
    BY <2>1, <2>3, <2>4 DEF Trusted, Mine
  <2>5. CASE /\ disk' = cache' /\ trust' = trust \cup Rows({s})
             /\ list' = list \cup {s.iid} /\ imported' = imported \cup {s.iid}
    <3>1. \A r \in Rows({s}) : r.share = s
      BY DEF Rows
    <3> QED BY <2>1, <2>3, <2>5, <3>1 DEF Trusted, Mine
  <2> QED BY <1>10, <2>4, <2>5 DEF Import, AfterSync
<1>11. ASSUME NEW l \in loads, ListReturn(l) PROVE Trusted'
  <2>1. /\ UNCHANGED <<screen, own, name, known, imported, trust, cache, disk>>
        /\ list' = list \/ imported \subseteq list'
    BY <1>11 DEF ListReturn, Merged, identity, settings
  <2> QED BY <2>1 DEF Trusted, Mine
<1>12. CASE Restart
  <2>1. screen' # "messages" /\ trust' = trust /\ cache' = disk /\ disk' = disk
    BY <1>12 DEF Restart, AutoLogin
  <2> QED BY <2>1 DEF Trusted
<1>13. CASE WriteLeftover
  <2>1. /\ disk' = cache /\ cache' = cache
        /\ UNCHANGED <<screen, own, name, known, list, imported, trust>>
    BY <1>13 DEF WriteLeftover, Flush, identity, session
  <2> QED BY <2>1 DEF Trusted, Mine
<1>14. CASE \/ Server \/ RegisterFailed \/ Save \/ UNCHANGED vars
            \/ \E u \in Users : Submit(u)
            \/ \E u \in Users, b \in Bundles : RegisterElsewhere(u, b)
            \/ \E a \in auths : ChallengeReturn(a)
            \/ \E l \in loads : ListFail(l)
  <2>1. UNCHANGED <<screen, own, name, known, list, imported, trust, cache, disk>>
    BY <1>14 DEF vars, identity, settings, registration, session, Submit, Server,
         RegisterElsewhere, RegisterFailed, Save, ChallengeReturn, ListFail, Drop,
         NotRegistered, RegisterCommit, SavePrivateKey, SaveShare, SendRequest
  <2> QED BY <2>1 DEF Trusted, Mine
<1> QED BY <1>1, <1>2, <1>3, <1>4, <1>5, <1>6, <1>7, <1>8, <1>9, <1>10, <1>11, <1>12, <1>13,
     <1>14 DEF Next

\* The list and the requests for it are of the open session.
LEMMA ListsKept ==
    ASSUME TypeOK, Matching, Logins, Registers, [Next]_vars, Lists
    PROVE  Lists'
<1>1. CASE Begin
  <2>1. screen' # "messages"
    BY <1>1 DEF Begin
  <2> QED BY <2>1 DEF Lists
<1>2. CASE RegisterDone
  <2>1. screen' # "messages"
    BY <1>2 DEF RegisterDone
  <2> QED BY <2>1 DEF Lists
<1>3. CASE Continue
  <2>1. screen' # "messages"
    BY <1>3 DEF Continue
  <2> QED BY <2>1 DEF Lists
<1>4. CASE ChooseLogin
  <2>1. screen' # "messages"
    BY <1>4 DEF ChooseLogin
  <2> QED BY <2>1 DEF Lists
<1>5. ASSUME NEW u \in Users, NEW b \in Bundles, Login(u, b) PROVE Lists'
  <2>1. screen' # "messages"
    BY <1>5 DEF Login
  <2> QED BY <2>1 DEF Lists
<1>6. CASE LoginUnreadable
  <2>1. screen' # "messages"
    BY <1>6 DEF LoginUnreadable
  <2> QED BY <2>1 DEF Lists
<1>7. ASSUME NEW a \in auths, ValidateReturn(a) PROVE Lists'
  <2>1. CASE ~Wanted(a)
    BY <1>7, <2>1 DEF ValidateReturn, Drop, identity, Lists, Peers
  <2>2. CASE Wanted(a) /\ LoginFails
    BY <2>2 DEF LoginFails, Lists
  <2>3. CASE Wanted(a) /\ LoginSucceeds(a)
    <3>1. /\ imported' = Peers(known') /\ list' = imported' /\ login' = a.user
          /\ loads' = Dead(loads) \cup {[user |-> a.user, live |-> TRUE]}
      BY <2>3 DEF LoginSucceeds, StartSession
    <3>2. \A l \in Dead(loads) : ~l.live
      BY DeadLoads DEF TypeOK, SessionTypes
    <3> QED BY <3>1, <3>2 DEF Lists, Peers
  <2> QED BY <1>7, <2>1, <2>2, <2>3 DEF ValidateReturn
<1>8. ASSUME NEW a \in auths, AuthFail(a) PROVE Lists'
  <2>1. CASE ~Wanted(a)
    BY <1>8, <2>1 DEF AuthFail, Drop, identity, Lists, Peers
  <2>2. CASE LoginFails
    BY <2>2 DEF LoginFails, Lists
  <2> QED BY <1>8, <2>1, <2>2 DEF AuthFail
<1>9. CASE Logout
  <2>1. screen' # "messages"
    BY <1>9 DEF Logout
  <2> QED BY <2>1 DEF Lists
<1>10. ASSUME NEW s \in Offers, Import(s) PROVE Lists'
  <2>1. /\ known' = known \cup {s} /\ UNCHANGED <<screen, login, loads>>
        /\ imported' \subseteq imported \cup {s.iid} /\ list' \subseteq list \cup {s.iid}
    BY <1>10 DEF Import
  <2>2. Peers(known') = Peers(known) \cup {s.iid}
    BY <2>1 DEF Peers
  <2> QED BY <2>1, <2>2 DEF Lists
<1>11. ASSUME NEW l \in loads, ListReturn(l) PROVE Lists'
  <2>1. /\ UNCHANGED <<screen, login, known, imported>> /\ loads' \subseteq loads
        /\ list' = list \/ (l.live /\ list' = Talked[l.user] \cup imported)
    BY <1>11 DEF ListReturn, Merged, Current, identity
  <2>2. Peers(known') = Peers(known)
    BY <2>1 DEF Peers
  <2> QED BY <2>1, <2>2 DEF Lists
<1>12. ASSUME NEW l \in loads, ListFail(l) PROVE Lists'
  BY <1>12 DEF ListFail, identity, Lists, Peers
<1>13. CASE Restart
  <2>1. screen' # "messages"
    BY <1>13 DEF Restart, AutoLogin
  <2> QED BY <2>1 DEF Lists
<1>14. CASE \/ Server \/ RegisterFailed \/ Save \/ WriteLeftover \/ UNCHANGED vars
            \/ \E u \in Users : Submit(u)
            \/ \E u \in Users, b \in Bundles : RegisterElsewhere(u, b)
            \/ \E a \in auths : ChallengeReturn(a)
  <2>1. UNCHANGED <<screen, login, known, list, imported, loads>>
    BY <1>14 DEF vars, identity, settings, registration, session, Submit, Server,
         RegisterElsewhere, RegisterFailed, Save, ChallengeReturn, WriteLeftover, Drop, Flush,
         NotRegistered, RegisterCommit, SavePrivateKey, SaveShare, SendRequest
  <2> QED BY <2>1 DEF Lists, Peers
<1> QED BY <1>1, <1>2, <1>3, <1>4, <1>5, <1>6, <1>7, <1>8, <1>9, <1>10, <1>11, <1>12, <1>13,
     <1>14 DEF Next

\* After a clean logout nothing brings the login back.
LEMMA ForgettingKept ==
    ASSUME TypeOK, Matching, Logins, Registers, [Next]_vars, Forgetting
    PROVE  Forgetting'
<1>1. CASE Begin
  <2>1. screen' # "messages" /\ UNCHANGED <<gone, auths, cache, disk>>
    BY <1>1 DEF Begin, settings
  <2> QED BY <2>1 DEF Forgetting
<1>2. CASE RegisterDone
  <2>1. screen' # "messages" /\ UNCHANGED <<gone, auths, cache, disk>>
    BY <1>2 DEF RegisterDone, settings
  <2> QED BY <2>1 DEF Forgetting
<1>3. CASE Continue
  <2>1. screen' # "messages" /\ UNCHANGED <<gone, auths, cache, disk>>
    BY <1>3 DEF Continue, settings
  <2> QED BY <2>1 DEF Forgetting
<1>4. CASE ChooseLogin
  <2>1. screen' # "messages" /\ UNCHANGED <<gone, auths, cache, disk>>
    BY <1>4 DEF ChooseLogin, settings
  <2> QED BY <2>1 DEF Forgetting
<1>5. ASSUME NEW u \in Users, NEW b \in Bundles, Login(u, b) PROVE Forgetting'
  BY <1>5 DEF Login, Forgetting
<1>6. CASE LoginUnreadable
  <2>1. UNCHANGED <<screen, gone, cache, disk>> /\ auths' = Dead(auths)
    BY <1>6 DEF LoginUnreadable, settings
  <2>2. \A a \in auths' : ~a.live
    BY <2>1, DeadAuths DEF TypeOK, SessionTypes
  <2> QED BY <2>1, <2>2 DEF Forgetting
<1>7. ASSUME NEW a \in auths, ChallengeReturn(a) PROVE Forgetting'
  BY <1>7 DEF ChallengeReturn, Wanted, Drop, settings, Forgetting
<1>8. ASSUME NEW a \in auths, ValidateReturn(a) PROVE Forgetting'
  BY <1>8 DEF ValidateReturn, Wanted, Drop, settings, Forgetting
<1>9. ASSUME NEW a \in auths, AuthFail(a) PROVE Forgetting'
  BY <1>9 DEF AuthFail, Wanted, Drop, settings, Forgetting
<1>10. CASE Logout
  <2>1. screen' # "messages" /\ auths' = Dead(auths) /\ cache' = Forgotten(cache)
    BY <1>10 DEF Logout
  <2>2. \A a \in auths' : ~a.live
    BY <2>1, DeadAuths DEF TypeOK, SessionTypes
  <2>3. gone' # None => gone' = [user |-> name, path |-> own] /\ disk' = cache'
    BY <1>10 DEF Logout, AfterSync
  <2>4. cache'.login = None /\ \A r \in cache'.peers : ~Mine(r)
    BY <2>1 DEF Forgotten, WithoutPeers, TypeOK, SettingsTypes, Settings
  <2> QED BY <2>1, <2>2, <2>3, <2>4 DEF Forgetting, Mine
<1>11. ASSUME NEW s \in Offers, Import(s) PROVE Forgetting'
  BY <1>11 DEF Import, Forgetting
<1>12. CASE Restart
  <2>1. CASE gone # None
    BY <1>12, <2>1 DEF Restart, AutoLogin, Forgetting
  <2>2. CASE gone = None
    BY <1>12, <2>2 DEF Restart, Forgetting
  <2> QED BY <2>1, <2>2
<1>13. CASE WriteLeftover
  BY <1>13 DEF WriteLeftover, Flush, session, Forgetting
<1>14. CASE \/ Server \/ RegisterFailed \/ Save \/ UNCHANGED vars
            \/ \E u \in Users : Submit(u)
            \/ \E u \in Users, b \in Bundles : RegisterElsewhere(u, b)
            \/ \E l \in loads : ListReturn(l)
            \/ \E l \in loads : ListFail(l)
  <2>1. UNCHANGED <<screen, auths, cache, disk, gone>>
    BY <1>14 DEF vars, identity, settings, registration, session, Submit, Server,
         RegisterElsewhere, RegisterFailed, Save, ListReturn, ListFail, NotRegistered,
         RegisterCommit, SavePrivateKey, SaveShare, SendRequest
  <2> QED BY <2>1 DEF Forgetting
<1> QED BY <1>1, <1>2, <1>3, <1>4, <1>5, <1>6, <1>7, <1>8, <1>9, <1>10, <1>11, <1>12, <1>13,
     <1>14 DEF Next

-----------------------------------------------------------------------------
(* Theorems *)

Inv ==
    /\ TypeOK /\ Matching /\ Logins /\ Registers
    /\ SavedLoginProven /\ RegisteredKeys
    /\ Genuine /\ Trusted /\ Lists /\ Forgetting

\* A first start.
LEMMA InitInv == ASSUME Init PROVE Inv
<1>1. reg = Blank /\ post = None /\ auths = {} /\ loads = {} /\ known = {} /\ trust = {}
      /\ cache = [login |-> None, peers |-> {}] /\ disk = cache /\ screen = "choice"
      /\ gone = None
  BY DEF Init
<1>2. PICK b \in Before : table = b.table /\ files = b.files
  BY DEF Init
<1>3. IdentityTypes /\ SettingsTypes
  <2>1. IdentityTypes
    BY <1>1 DEF Init, IdentityTypes
  <2>2. [login |-> None, peers |-> {}] \in Settings
    BY DEF Settings
  <2> QED BY <1>1, <2>1, <2>2 DEF Init, SettingsTypes
<1>4. RegistrationTypes
  BY <1>1, <1>2, SessionAssumption DEF SessionAssumption, RegistrationTypes, Registering, Blank
<1>5. SessionTypes
  BY <1>1 DEF Init, SessionTypes, Screens
<1>6. Matching /\ Logins /\ SavedLoginProven /\ Genuine /\ Trusted /\ Lists /\ Forgetting
  BY <1>1 DEF Matching, SessionMatches, Logins, SavedLoginProven, Genuine, OnePerPeer, Trusted,
              Lists, Forgetting
<1>7. Registers /\ RegisteredKeys
  BY <1>1 DEF Registers, RegisteredKeys, Blank
<1> QED BY <1>3, <1>4, <1>5, <1>6, <1>7 DEF Inv, TypeOK

\* Every step keeps the invariant.
LEMMA NextInv == ASSUME Inv, [Next]_vars PROVE Inv'
<1>1. TypeOK' /\ Matching' /\ Logins' /\ Registers'
  BY Typed, MatchingKept, LoginsKept, RegistersKept DEF Inv
<1>2. SavedLoginProven' /\ RegisteredKeys'
  BY SavedLoginKept, RegisteredKept DEF Inv
<1>3. Genuine' /\ Trusted' /\ Lists' /\ Forgetting'
  BY GenuineKept, TrustedKept, ListsKept, ForgettingKept DEF Inv
<1> QED BY <1>1, <1>2, <1>3 DEF Inv

LEMMA AlwaysInv == Spec => []Inv
<1>1. Init => Inv
  BY InitInv
<1>2. Inv /\ [Next]_vars => Inv'
  BY NextInv
<1> QED BY <1>1, <1>2, PTL DEF Spec

\* The members of the client, of its registration and of its settings keep their types.
THEOREM SessionTypeCorrect == Spec => []TypeOK
<1>1. Inv => TypeOK
  BY DEF Inv
<1> QED BY <1>1, AlwaysInv, PTL

\* The open session is of one user, whose keys are the ones the server has, and no login that
\* was started before can still change it.
THEOREM OneSession == Spec => []SessionMatches
<1>1. Inv => SessionMatches
  BY DEF Inv, Matching
<1> QED BY <1>1, AlwaysInv, PTL

\* A peer whose import was reported stays trusted and listed until its user logs out.
THEOREM TrustHolds == Spec => []TrustKept
<1>1. Inv => TrustKept
  BY DEF Inv, Trusted, TrustKept
<1> QED BY <1>1, AlwaysInv, PTL

\* No conversation of another user's session is listed.
THEOREM OwnList == Spec => []ListIsMine
<1>1. Inv => ListIsMine
  BY DEF Inv, Lists, ListIsMine
<1> QED BY <1>1, AlwaysInv, PTL

\* One share of each peer is trusted, and both its keys are signed by its signing key.
THEOREM TrustGenuine == Spec => []SharesGenuine
<1>1. ASSUME NEW s, Verifies(s)
      PROVE  /\ s.edSig.by = s.ed /\ s.edSig.key = s.ed
             /\ s.xSig.by = s.ed /\ s.xSig.key = s.x
  BY <1>1 DEF Verifies, Signed
<1>2. Inv => SharesGenuine
  BY <1>1 DEF Inv, Genuine, SharesGenuine
<1> QED BY <1>2, AlwaysInv, PTL

\* Only a login that the server has accepted is ever saved.
THEOREM SavedProven == Spec => []SavedLoginProven
<1>1. Inv => SavedLoginProven
  BY DEF Inv
<1> QED BY <1>1, AlwaysInv, PTL

\* A logout without an error leaves nothing of the user in the file.
THEOREM LogoutHolds == Spec => []LogoutForgets
<1>1. Inv => LogoutForgets
  BY DEF Inv, Forgetting, LogoutForgets
<1> QED BY <1>1, AlwaysInv, PTL

\* The keys about to be saved are the registered ones.
THEOREM RegisteredHolds == Spec => []RegisteredKeys
<1>1. Inv => RegisteredKeys
  BY DEF Inv
<1> QED BY <1>1, AlwaysInv, PTL

\* Registered keys are kept until both files are saved: beginRegistration refuses to make
\* others, and finishRegistration to forget them.
THEOREM KeptHolds == Spec => KeysKept
<1>1. Inv /\ [Next]_vars =>
        [reg.done /\ ~BothSaved => Restart \/ (reg'.done /\ reg'.bundle = reg.bundle)]_vars
  BY KeysStay DEF Inv
<1> QED BY <1>1, AlwaysInv, PTL DEF Spec, KeysKept
=============================================================================
