-------------------------------- MODULE Signing --------------------------------
(*****************************************************************************)
(* What the Ed25519 key of a user signs, as bytes: message envelopes, the     *)
(* keys in a share, and login challenges.  Both clients build these bytes,    *)
(* each in its own way, and a signature made by one is checked by the other   *)
(* or by the server.  Everything signed is in circulation; whoever checks     *)
(* rebuilds the bytes from fields that came by another way, as a page or a    *)
(* file.  Ed25519 is ideal: a signature verifies for its key and its bytes.   *)
(*****************************************************************************)
EXTENDS Integers, Sequences, FiniteSets

CONSTANTS
    Iids,              \* user ids in UTF-8
    Counters,          \* message counters, from tick
    Nonces, Texts, Tags,   \* what encryption returns
    Keys,              \* raw Ed25519 public keys; each stands for its owner
    XKeys,             \* raw X25519 public keys
    Challenges,        \* what random_hex returns
    EnvelopeDomain,    \* "true-sight/message-envelope/v2"
    ShareDomain,       \* "true-sight-share-v1/"
    EdType, XType,     \* "ed25519", "x25519"
    MaxWebCounter,     \* Number.MAX_SAFE_INTEGER
    MaxSigned          \* bound on what is signed

Byte == 0..255
HexDigits == (48..57) \cup (97..102)
KeyLen == 32
NonceLen == 12
TagLen == 16

\* A right shift by one octet, and the words of eight octets (a literal 2^64 is beyond TLC).
Shr(n) == n \div 256
Word == {n \in Nat : Shr(Shr(Shr(Shr(Shr(Shr(Shr(n))))))) < 256}

ByteStrings == Iids \cup Nonces \cup Texts \cup Tags \cup Keys \cup XKeys \cup
               {EnvelopeDomain, ShareDomain, EdType, XType}

\* The domains and types are as the source has them: the envelope's is shorter than 256
\* bytes, the share's begins with a letter that is no hex digit, the types have no NUL.
SigningAssumption ==
    /\ \A s \in ByteStrings : s \in Seq(Byte) /\ Len(s) \in Word
    /\ \A k \in Keys \cup XKeys : Len(k) = KeyLen
    /\ \A n \in Nonces : Len(n) = NonceLen
    /\ \A t \in Tags : Len(t) = TagLen
    /\ \A n \in Counters : n \in Word /\ n > 0
    /\ \A c \in Challenges : c \in Seq(HexDigits) /\ c # <<>>
    /\ Len(EnvelopeDomain) < 256
    /\ ShareDomain # <<>> /\ ShareDomain[1] \notin HexDigits \cup {0}
    /\ \A t \in {EdType, XType} : \A i \in 1..Len(t) : t[i] # 0
    /\ MaxWebCounter \in Nat
    /\ MaxSigned \in Nat

ASSUME SigningAssumption

Message == [kind: {"message"}, sender: Iids, receiver: Iids, counter: Counters,
            nonce: Nonces, text: Texts, tag: Tags]
ShareKey == [kind: {"key"}, iid: Iids, type: {EdType, XType}, key: Keys \cup XKeys]
Login == [kind: {"login"}, challenge: Challenges]

Item == Message \cup ShareKey \cup Login
Clients == {"qt", "web"}

VARIABLES
    signatures,  \* in circulation: the key, the bytes, and what its owner meant by them
    accepted     \* what somebody took to be signed by the owner of a key

vars == <<signatures, accepted>>

TypeOK ==
    /\ signatures \subseteq [by: Keys, bytes: Seq(Byte), meant: Item]
    /\ accepted \subseteq [by: Keys, item: Item]

-----------------------------------------------------------------------------
(* The browser's bytes *)

\* Eight octets, the highest first.
u64(n) ==
    LET n1 == Shr(n)
        n2 == Shr(n1)
        n3 == Shr(n2)
        n4 == Shr(n3)
        n5 == Shr(n4)
        n6 == Shr(n5)
        n7 == Shr(n6)
    IN  <<n7 % 256, n6 % 256, n5 % 256, n4 % 256, n3 % 256, n2 % 256, n1 % 256, n % 256>>

field(value) == u64(Len(value)) \o value

envelope(m) ==
    field(EnvelopeDomain) \o (u64(2) \o (field(m.sender) \o (field(m.receiver) \o
        (u64(m.counter) \o (field(m.nonce) \o (field(m.text) \o field(m.tag)))))))

\* What ends the type and the id.
Nul == <<0>>

sharePayload(s) == ShareDomain \o (s.type \o (Nul \o (s.iid \o (Nul \o s.key))))

-----------------------------------------------------------------------------
(* The Qt client's bytes: a buffer that is appended to *)

\* n >> 8 * k
Shifted(n, k) == LET s[j \in 0..7] == IF j = 0 THEN n ELSE Shr(s[j - 1]) IN s[k]

\* MUTANT of append_u64: the lowest octet is pushed first.
append_u64LowFirst(out, value) == out \o [i \in 1..8 |-> Shifted(value, i - 1) % 256]

\* MUTANT of append_u64: the octets are not cut.
append_u64Uncut(out, value) == out \o [i \in 1..8 |-> Shifted(value, 8 - i)]

\* The octet of turn i is value >> 8 * (8 - i), cut to eight bits.
append_u64(out, value) == out \o [i \in 1..8 |-> Shifted(value, 8 - i) % 256]

\* MUTANT of append_bytes: fields have no length.
append_bytesBare(out, bytes) == out \o bytes

append_bytes(out, bytes) == append_u64(out, Len(bytes)) \o bytes

signed_envelope(m) ==
    LET domain == append_bytes(<<>>, EnvelopeDomain)
        version == append_u64(domain, 2)
        sender == append_bytes(version, m.sender)
        receiver == append_bytes(sender, m.receiver)
        clock == append_u64(receiver, m.counter)
        nonce == append_bytes(clock, m.nonce)
        ciphertext == append_bytes(nonce, m.text)
    IN  append_bytes(ciphertext, m.tag)

signed_payload(s) == ((((ShareDomain \o s.type) \o Nul) \o s.iid) \o Nul) \o s.key

-----------------------------------------------------------------------------

Encoded(c, item) ==
    CASE item.kind = "message" -> IF c = "qt" THEN signed_envelope(item) ELSE envelope(item)
      [] item.kind = "key" -> IF c = "qt" THEN signed_payload(item) ELSE sharePayload(item)
      [] item.kind = "login" -> item.challenge

\* The counters a client will sign or read.
Takes(c, counter) == counter > 0 /\ (c = "web" => counter <= MaxWebCounter)

Verifies(k, bytes) == \E s \in signatures : s.by = k /\ s.bytes = bytes

Signed(c, k, items) ==
    /\ Cardinality(signatures) < MaxSigned
    /\ signatures' = signatures \cup
         {[by |-> k, bytes |-> Encoded(c, item), meant |-> item] : item \in items}
    /\ UNCHANGED accepted

Accepted(k, items) ==
    /\ accepted' = accepted \cup {[by |-> k, item |-> item] : item \in items}
    /\ UNCHANGED signatures

\* The two keys of a share, each signed with the first.
Share(iid, ed, x) == {[kind |-> "key", iid |-> iid, type |-> EdType, key |-> ed],
                      [kind |-> "key", iid |-> iid, type |-> XType, key |-> x]}

Init == signatures = {} /\ accepted = {}

\* A client sends a message.
SendMessage(c, k, m) ==
    /\ Takes(c, m.counter)
    /\ Signed(c, k, {m})

\* A registration makes its share.
CreateShare(c, k, iid, x) == Signed(c, k, Share(iid, k, x))

\* A login answers its challenge: the text as it is.
AnswerChallenge(c, k, item) == Signed(c, k, {item})

\* A load takes a row of a page, whose signer it knows.
LoadRow(c, k, m) ==
    /\ Takes(c, m.counter)
    /\ Verifies(k, Encoded(c, m))
    /\ Accepted(k, {m})

\* An import takes a share if both its keys are signed.
ImportShare(c, k, iid, x) ==
    /\ \A item \in Share(iid, k, x) : Verifies(k, Encoded(c, item))
    /\ Accepted(k, Share(iid, k, x))

\* The server takes the answer to a challenge.
ValidateChallenge(k, item) ==
    /\ Verifies(k, item.challenge)
    /\ Accepted(k, {item})

Step(c, k) ==
    \/ \E m \in Message : SendMessage(c, k, m) \/ LoadRow(c, k, m)
    \/ \E iid \in Iids, x \in XKeys : CreateShare(c, k, iid, x) \/ ImportShare(c, k, iid, x)
    \/ \E item \in Login : AnswerChallenge(c, k, item)

Next ==
    \E k \in Keys :
        \/ \E c \in Clients : Step(c, k)
        \/ \E item \in Login : ValidateChallenge(k, item)

Spec == Init /\ [][Next]_vars

-----------------------------------------------------------------------------
(* Properties *)

\* What is taken to be signed was signed by the owner of the key, with exactly these fields
\* and as a thing of this kind: no other split of the bytes into fields verifies, and no
\* message, share or login passes for another.
AcceptedAsMeant ==
    \A a \in accepted : \E s \in signatures : s.by = a.by /\ s.meant = a.item

\* What one client signed verifies for the other, and a login for the server, if the other
\* takes its counter.
EitherClientVerifies ==
    \A s \in signatures : \A c \in Clients :
        (s.meant.kind = "message" => Takes(c, s.meant.counter)) =>
            Verifies(s.by, Encoded(c, s.meant))
=============================================================================
