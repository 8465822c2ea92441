------------------------------ MODULE IdentityKeys ------------------------------
(*****************************************************************************)
(* What one Qt installation keeps of its user and of the user's peers: the    *)
(* keys in memory (IdentityKeys), and in the settings file the saved login    *)
(* (AppSettings) and the peers trusted under each identity.                   *)
(*                                                                            *)
(* All QSettings objects of a process share one map of values.  A sync writes *)
(* that map to the file or fails; values a failed sync could not write stay   *)
(* in the process and are written by any later one, the event loop's too.     *)
(*****************************************************************************)
CONSTANTS
    Users,    \* user names
    Bundles,  \* key bundles; a bundle also names its keys, and the .tskey file that holds it
    None,     \* nothing: no user, no keys, no saved login
    Env       \* the environment events the instance allows

EnvEvents == {"disk", "restart", "netfail", "others"}

KeyType == {"ed25519", "x25519"}
Signature == [by: Bundles, iid: Users, type: KeyType, key: Bundles]
Share == [iid: Users, ed: Bundles, x: Bundles, edSig: Signature, xSig: Signature]
SavedLogin == [user: Users, path: Bundles]
\* A row under peers_settings_key: the identity it is saved for, and the peer.
SavedPeer == [user: Users, key: Bundles, share: Share]
Settings == [login: SavedLogin \cup {None}, peers: SUBSET SavedPeer]

VARIABLES
    own,     \* the bundle whose keys are loaded
    name,    \* current_username_
    known,   \* other_users_: the shares whose keys are trusted
    cache,   \* the settings as QSettings returns them in this process
    disk,    \* the settings in the file
    broken   \* AppSettings::settings_ has met an error: its status never returns to NoError

identity == <<own, name, known>>
settings == <<cache, disk, broken>>

-----------------------------------------------------------------------------
(* The settings file *)

\* Whether a sync writes.
SyncResults == {TRUE} \cup (IF "disk" \in Env THEN {FALSE} ELSE {})

\* What a sync that writes, or not, leaves of d in the file.
AfterSync(d, new, ok) == IF ok THEN new ELSE d

\* QSettings writes what is left over when the event loop gets to it.
Flush ==
    /\ cache # disk
    /\ disk' = cache
    /\ UNCHANGED <<identity, cache, broken>>

-----------------------------------------------------------------------------
(* Own keys *)

\* load_from_bundle and set_current_username.
LoadBundle(b, u) ==
    /\ own' = b
    /\ name' = u
    /\ known' = {}

Clear ==
    /\ own' = None
    /\ name' = None
    /\ known' = {}

-----------------------------------------------------------------------------
(* Peers *)

\* An ideal Ed25519 signature over crypto::share::signed_payload.
Signed(by, iid, type, key) == [by |-> by, iid |-> iid, type |-> type, key |-> key]

\* The share file made for a user and a bundle.
MadeShare(b, iid) ==
    [iid |-> iid, ed |-> b, x |-> b,
     edSig |-> Signed(b, iid, "ed25519", b), xSig |-> Signed(b, iid, "x25519", b)]

\* MUTANT of Verifies: only the signature of the signing key is looked at.
VerifiesOne(s) == s.edSig = Signed(s.ed, s.iid, "ed25519", s.ed)

\* import_share: both signatures are by the key that signs, for this user and type.
Verifies(s) ==
    /\ s.edSig = Signed(s.ed, s.iid, "ed25519", s.ed)
    /\ s.xSig = Signed(s.ed, s.iid, "x25519", s.x)

\* MUTANT of Agrees: a newer key replaces nothing but is taken as well.
AgreesAlways(s) == TRUE

\* import_share: the keys of a peer already known must be the same.
Agrees(s) == \A k \in known : k.iid = s.iid => k.ed = s.ed /\ k.x = s.x

Accepts(s) ==
    /\ Verifies(s)
    /\ s.iid # name
    /\ Agrees(s)

\* The rows save_peers writes under the key of this identity.
Rows(shares) == {[user |-> name, key |-> own, share |-> s] : s \in shares}

\* peers_settings_key: the rows of this user with these keys.
Mine(r) == r.user = name /\ r.key = own

\* load_saved_peers
Restored == {r.share : r \in {q \in cache.peers : Mine(q)}}

\* save_peers replaces the rows of this identity.
WithPeers(s, shares) == [s EXCEPT !.peers = {r \in @ : ~Mine(r)} \cup Rows(shares)]

\* forget_saved_peers removes them.
WithoutPeers(s) == [s EXCEPT !.peers = {r \in @ : ~Mine(r)}]
=============================================================================
