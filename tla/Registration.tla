------------------------------ MODULE Registration ------------------------------
(*****************************************************************************)
(* RegistrationController: a generated key bundle on its way to the server    *)
(* and into two files.  A handler runs without interruption up to its         *)
(* co_await; the members it reads when it resumes are those of that moment.   *)
(*****************************************************************************)
EXTENDS IdentityKeys

CONSTANT Foreign   \* bundles of other people: never generated here

VARIABLES
    reg,    \* the controller's members
    post,   \* POST /register in progress, None if there is none
    table,  \* table user_to_pk: the bundle each name is registered with
    files   \* bundles saved as .tskey files

registration == <<reg, post, table, files>>

Registering ==
    [bundle: Bundles \cup {None},  \* private_bundle_ and the key members
     share: Share \cup {None},     \* share_file_
     busy: BOOLEAN,                \* registering_
     done: BOOLEAN,                \* registered_
     shareSaved: BOOLEAN, keySaved: BOOLEAN]

Request == [user: Users, bundle: Bundles, stage: {"wire", "ok", "taken"}]

Blank == [bundle |-> None, share |-> None, busy |-> FALSE, done |-> FALSE,
          shareSaved |-> FALSE, keySaved |-> FALSE]

BothSaved == reg.shareSaved /\ reg.keySaved

-----------------------------------------------------------------------------
\* generate_key never repeats a key.
Fresh(b) ==
    /\ b \notin files \cup Foreign \cup {reg.bundle}
    /\ \A u \in Users : table[u] # b
    /\ post # None => post.bundle # b

\* MUTANT of MayBegin: nothing is looked at.
MayBeginAlways == TRUE

\* A registered bundle is not thrown away unsaved.
MayBegin == ~reg.done \/ BothSaved

\* beginRegistration: new keys. A request in progress is not looked at.
NewKeys ==
    \E b \in Bundles :
        /\ Fresh(b)
        /\ reg' = [reg EXCEPT !.bundle = b, !.share = None, !.done = FALSE,
                              !.shareSaved = FALSE, !.keySaved = FALSE]

\* registerUsername, with a valid name; a registered bundle is refused.
SendRequest(u) ==
    IF reg.busy \/ reg.done THEN UNCHANGED <<reg, post>>
    ELSE /\ reg' = [reg EXCEPT !.busy = TRUE]
         /\ post' = [user |-> u, bundle |-> reg.bundle, stage |-> "wire"]

\* MUTANT of Inserted: the last registration wins.
InsertedLast(u, b) == [table EXCEPT ![u] = b]

\* INSERT ... ON CONFLICT DO NOTHING
Inserted(u, b) == [table EXCEPT ![u] = IF @ = None THEN b ELSE @]

\* RegisterController
RegisterCommit ==
    /\ post # None
    /\ post.stage = "wire"
    /\ table' = Inserted(post.user, post.bundle)
    /\ post' = [post EXCEPT !.stage = IF table[post.user] = None THEN "ok" ELSE "taken"]
    /\ UNCHANGED <<reg, files>>

\* registerUsernameAsync resumes: the share is made of the members as they are now.
Registered ==
    /\ post' = None
    /\ reg' = [reg EXCEPT !.share = MadeShare(reg.bundle, post.user),
                          !.done = TRUE, !.busy = FALSE]

NotRegistered ==
    /\ post' = None
    /\ reg' = [reg EXCEPT !.busy = FALSE]

\* saveShare and savePrivateKey, when the file could be written.
SaveShare ==
    /\ reg.done
    /\ reg.share # None
    /\ reg' = [reg EXCEPT !.shareSaved = TRUE]
    /\ UNCHANGED <<post, table, files>>

SavePrivateKey ==
    /\ reg.done
    /\ reg.bundle # None
    /\ reg' = [reg EXCEPT !.keySaved = TRUE]
    /\ files' = files \cup {reg.bundle}
    /\ UNCHANGED <<post, table>>

\* finishRegistration
Forget ==
    /\ BothSaved
    /\ reg' = [reg EXCEPT !.bundle = None, !.share = None]
    /\ UNCHANGED <<post, table, files>>
=============================================================================
