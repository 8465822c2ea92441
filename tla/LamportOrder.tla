---------------------------- MODULE LamportOrder ----------------------------
(*****************************************************************************)
(* What docs/message-protocol-v2.md promises of message counters, without     *)
(* clocks, files, requests or servers: users write messages and read them,    *)
(* and a message's counter is larger than that of everything its writer had   *)
(* written or read in the same conversation.                                  *)
(*****************************************************************************)
EXTENDS Integers

CONSTANTS Users, MaxClock, Sigs

VARIABLES
    written,   \* messages, each with what its writer knew of the conversation
    read       \* read[u]: the messages u has seen

Messages == {w.msg : w \in written}

Conversation(m) == {m.from, m.to}

\* Everything the writer of m wrote or read in m's conversation.
KnownTo(m) ==
    {k \in Messages \cup read[m.from] :
        /\ Conversation(k) = Conversation(m)
        /\ k.from = m.from \/ k \in read[m.from]}

LInit ==
    /\ written = {}
    /\ read = [u \in Users |-> {}]

Write(m) ==
    /\ \A k \in Messages : k.sig # m.sig
    /\ \A k \in KnownTo(m) : k.ctr < m.ctr
    /\ written' = written \cup {[msg |-> m, past |-> KnownTo(m)]}
    /\ read' = read

\* A reader sees only what somebody in the conversation wrote.
Read(u, ms) ==
    /\ ms \subseteq {m \in Messages : u \in Conversation(m)}
    /\ read' = [read EXCEPT ![u] = @ \cup ms]
    /\ written' = written

LNext ==
    \/ \E m \in [from: Users, to: Users, ctr: 1..MaxClock, sig: Sigs, ver: {2}] : Write(m)
    \/ \E u \in Users : \E ms \in SUBSET Messages : Read(u, ms)

LSpec == LInit /\ [][LNext]_<<written, read>>
=============================================================================
