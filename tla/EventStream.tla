------------------------------ MODULE EventStream ------------------------------
(*****************************************************************************)
(* What push promises: of the events announced to a connection the client     *)
(* handles some first ones, each once and in their order, and only while the  *)
(* connection belongs to the user's latest login.                             *)
(*****************************************************************************)
EXTENDS Naturals, Sequences

CONSTANTS
    Conns,   \* connections, numbered by the login that made them
    Events   \* what is announced

VARIABLES
    latest,  \* the latest login, 0 after a logout
    sent,    \* events announced to each connection
    handled  \* events the client handled from it

vars == <<latest, sent, handled>>

Init ==
    /\ latest = 0
    /\ sent = [c \in Conns |-> <<>>]
    /\ handled = [c \in Conns |-> <<>>]

Login(c) ==
    /\ c > latest
    /\ sent[c] = <<>>
    /\ latest' = c
    /\ UNCHANGED <<sent, handled>>

Logout ==
    /\ latest' = 0
    /\ UNCHANGED <<sent, handled>>

Announce(c, e) ==
    /\ sent' = [sent EXCEPT ![c] = Append(@, e)]
    /\ UNCHANGED <<latest, handled>>

Handle(c) ==
    /\ c = latest
    /\ Len(handled[c]) < Len(sent[c])
    /\ handled' = [handled EXCEPT ![c] = Append(@, sent[c][Len(@) + 1])]
    /\ UNCHANGED <<latest, sent>>

Next ==
    \/ Logout
    \/ \E c \in Conns : Login(c) \/ Handle(c)
    \/ \E c \in Conns, e \in Events : Announce(c, e)

Spec == Init /\ [][Next]_vars
=============================================================================
