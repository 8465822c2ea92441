------------------------------- MODULE WebClient -------------------------------
(*****************************************************************************)
(* The browser client's conversations: openConversation, sendMessage, clock,   *)
(* tick, the poll and logout of useClient.js, one tab of one identity.         *)
(*                                                                           *)
(* JavaScript runs one function at a time up to an await.  The counters are    *)
(* in IndexedDB, which carries out transactions in the order they were begun:  *)
(* a read has its value, and a write its effect, from the step that starts it, *)
(* while the coroutine sees either only later.  Await points that nothing      *)
(* depends on are taken together with the next that something does.            *)
(*****************************************************************************)
EXTENDS Naturals, FiniteSets

CONSTANTS
    Peers,       \* users whose share was imported
    NoPeer,      \* view.peer while no conversation is open
    MaxClock,    \* Number.MAX_SAFE_INTEGER
    PageLimit,   \* the page size asked for, "100" in the code
    LoadSlots,   \* bounds the loads in progress
    SendSlots,   \* bounds the sends in progress
    MaxMine,     \* MaxMine[p] bounds the messages signed here for p
    MaxTheirs,   \* MaxTheirs[p] bounds the messages of p
    Patient      \* every load ends before the next poll, five seconds later

ASSUME WebAssumption ==
    /\ NoPeer \notin Peers
    /\ MaxClock \in Nat \ {0}
    /\ PageLimit \in Nat \ {0}
    /\ MaxMine \in [Peers -> Nat]
    /\ MaxTheirs \in [Peers -> Nat]
    /\ Patient \in BOOLEAN

VARIABLES
    phase,      \* "in", "leaving" while logout clears the storage, "out"
    peer,       \* view.peer
    screen,     \* view.messages, drawn in the order of the counters
    error,      \* view.messageError is not empty
    clocks,     \* the settings clock/<identity>/<peer>
    loads,      \* openConversation calls
    sends,      \* sendMessage calls
    table,      \* the server's rows of this user's conversations, numbered as they came
    seen,       \* history: seen[p], the counters of the rows displayed of p's conversation
    sent,       \* history: messages signed, each with what was known when its user sent it
    overlapped  \* history: one tick of a conversation ran inside another

page == <<peer, screen, error>>
history == <<seen, sent, overlapped>>
vars == <<phase, page, clocks, loads, sends, table, history>>

-----------------------------------------------------------------------------
(* Operators *)

Conversation(p) == {r \in table : r.with = p}

\* A message is stored after those its conversation has.
Store(p, mine, n) ==
    table' = table \cup
        {[with |-> p, mine |-> mine, ctr |-> n, at |-> Cardinality(Conversation(p)) + 1]}

\* The answer to GET /messages: the newest PageLimit rows of the conversation.
Rows(p) == {r \in Conversation(p) : Cardinality({q \in Conversation(p) : q.at > r.at}) < PageLimit}

\* Every counter of the conversation with p that the user has seen or used.
Known(p) == seen[p] \cup {s.ctr : s \in {t \in sent : t.to = p}}

\* maximum of a page.
Top(rows) == CHOOSE n \in {r.ctr : r \in rows} : \A r \in rows : r.ctr <= n

\* clock throws on a value at the limit.
Exhausted(value) == value >= MaxClock

\* MUTANT of NextTick: what was received is not looked at.
NextTickOwn(value, top) == value + 1

NextTick(value, top) == (IF value > top THEN value ELSE top) + 1

\* MUTANT of Fits: none.
FitsAlways(n) == TRUE

\* Number.isSafeInteger(next).
Fits(n) == n <= MaxClock

\* Somebody else has read the counter for p and not written it yet.
Ticking(p) ==
    \/ \E l \in loads : l.with = p /\ l.stage = "tick"
    \/ \E s \in sends : s.to = p /\ s.stage = "tick"

\* A raised generation: the coroutine is out of date.
Outdate(c) == [c EXCEPT !.current = FALSE]

\* ++generation.
Supersede ==
    /\ loads' = {Outdate(l) : l \in loads}
    /\ sends' = {Outdate(s) : s \in sends}

\* openConversation up to its first await.
Open(p) ==
    /\ peer' = p
    /\ screen' = IF peer = p THEN screen ELSE {}
    /\ error' = FALSE
    /\ \E s \in LoadSlots :
         /\ \A l \in loads : l.slot # s
         /\ loads' = {Outdate(l) : l \in loads} \cup
                       {[slot |-> s, with |-> p, current |-> TRUE, stage |-> "request",
                         rows |-> {}, value |-> 0]}

-----------------------------------------------------------------------------
(* The session *)

Login ==
    /\ phase = "out"
    /\ phase' = "in"
    /\ peer' = NoPeer
    /\ screen' = {}
    /\ Supersede
    /\ UNCHANGED <<error, clocks, table, history>>

\* Both generations are raised first; session is null only when the storage is cleared.
LogoutBegin ==
    /\ phase = "in"
    /\ phase' = "leaving"
    /\ Supersede
    /\ UNCHANGED <<page, clocks, table, history>>

LogoutEnd ==
    /\ phase = "leaving"
    /\ phase' = "out"
    /\ peer' = NoPeer
    /\ screen' = {}
    /\ error' = FALSE
    /\ UNCHANGED <<clocks, loads, sends, table, history>>

-----------------------------------------------------------------------------
(* Loading *)

\* The user chooses a conversation.
Choose(p) ==
    /\ phase # "out"
    /\ Open(p)
    /\ UNCHANGED <<phase, clocks, sends, table, history>>

\* MUTANT of PollDue: an error stops the refreshes.
PollDueClean == phase # "out" /\ peer # NoPeer /\ ~error /\ (Patient => loads = {})

PollDue == phase # "out" /\ peer # NoPeer /\ (Patient => loads = {})

\* The five seconds are over.
Poll ==
    /\ PollDue
    /\ Open(peer)
    /\ UNCHANGED <<phase, clocks, sends, table, history>>

LoadAnswer(l) ==
    /\ l.stage = "request"
    /\ loads' = (loads \ {l}) \cup {[l EXCEPT !.stage = "verify", !.rows = Rows(l.with)]}
    /\ UNCHANGED <<phase, page, clocks, sends, table, history>>

\* view.messages = rows.  Nothing is compared again after the last await.
Display(l) ==
    /\ screen' = l.rows
    /\ seen' = [seen EXCEPT ![l.with] = @ \cup {r.ctr : r \in l.rows}]
    /\ loads' = loads \ {l}
    /\ UNCHANGED <<peer, error>>

\* The handler of openConversation: only a current load reports its error.
Fail(l) ==
    /\ error' = (error \/ l.current)
    /\ loads' = loads \ {l}
    /\ UNCHANGED <<peer, screen, seen>>

\* The rows are verified: the last look at the generations, then clock(other) begins.
LoadVerified(l) ==
    /\ l.stage = "verify"
    /\ \/ ~l.current /\ loads' = loads \ {l} /\ UNCHANGED <<page, seen>>
       \/ l.current /\ phase = "out" /\ Fail(l)
       \/ l.current /\ l.rows = {} /\ Display(l)
       \/ /\ l.current /\ phase # "out" /\ l.rows # {}
          /\ loads' = (loads \ {l}) \cup
                        {[l EXCEPT !.stage = "compare", !.value = clocks[l.with]]}
          /\ UNCHANGED <<page, seen>>
    /\ UNCHANGED <<phase, clocks, sends, table, sent, overlapped>>

\* maximum >= await clock(other): tick reads the counter once more.
LoadCompare(l) ==
    /\ l.stage = "compare"
    /\ \/ Exhausted(l.value) /\ Fail(l) /\ UNCHANGED overlapped
       \/ /\ ~Exhausted(l.value)
          /\ Top(l.rows) < l.value
          /\ Display(l)
          /\ UNCHANGED overlapped
       \/ /\ ~Exhausted(l.value)
          /\ Top(l.rows) >= l.value
          /\ IF phase = "out"
             THEN Fail(l) /\ UNCHANGED overlapped
             ELSE /\ loads' = (loads \ {l}) \cup
                                {[l EXCEPT !.stage = "tick", !.value = clocks[l.with]]}
                  /\ overlapped' = (overlapped \/ Ticking(l.with))
                  /\ UNCHANGED <<page, seen>>
    /\ UNCHANGED <<phase, clocks, sends, table, sent>>

LoadTick(l) ==
    LET next == NextTick(l.value, Top(l.rows))
    IN  /\ l.stage = "tick"
        /\ \/ /\ phase = "out" \/ Exhausted(l.value) \/ ~Fits(next)
              /\ Fail(l)
              /\ UNCHANGED clocks
           \/ /\ phase # "out" /\ ~Exhausted(l.value) /\ Fits(next)
              /\ clocks' = [clocks EXCEPT ![l.with] = next]
              /\ loads' = (loads \ {l}) \cup {[l EXCEPT !.stage = "display"]}
              /\ UNCHANGED <<page, seen>>
        /\ UNCHANGED <<phase, sends, table, sent, overlapped>>

LoadDisplay(l) ==
    /\ l.stage = "display"
    /\ Display(l)
    /\ UNCHANGED <<phase, clocks, sends, table, sent, overlapped>>

\* The request fails, or a row cannot be verified or decrypted.  (What raises no error
\* when the load is out of date is the same as LoadVerified's first case.)
LoadError(l) ==
    /\ l.stage \in {"request", "verify"}
    /\ l.current
    /\ Fail(l)
    /\ UNCHANGED <<phase, clocks, sends, table, sent, overlapped>>

-----------------------------------------------------------------------------
(* Sending *)

\* sendMessage up to the await of messageKey.
Send ==
    /\ phase # "out"
    /\ peer # NoPeer
    /\ Cardinality({m \in sent : m.to = peer})
         + Cardinality({s \in sends : s.to = peer /\ s.stage \in {"key", "tick", "sign"}})
       < MaxMine[peer]
    /\ \E k \in SendSlots :
         /\ \A s \in sends : s.slot # k
         /\ sends' = sends \cup
              {[slot |-> k, to |-> peer, current |-> TRUE, stage |-> "key",
                value |-> 0, past |-> Known(peer)]}
    /\ UNCHANGED <<phase, page, clocks, loads, table, history>>

\* tick's clock(other) begins; it, and the rest, throw without a session.
SendRead(s) ==
    /\ s.stage = "key"
    /\ IF phase = "out"
       THEN sends' = sends \ {s} /\ UNCHANGED overlapped
       ELSE /\ sends' = (sends \ {s}) \cup
                          {[s EXCEPT !.stage = "tick", !.value = clocks[s.to]]}
            /\ overlapped' = (overlapped \/ Ticking(s.to))
    /\ UNCHANGED <<phase, page, clocks, loads, table, seen, sent>>

SendTick(s) ==
    LET next == NextTick(s.value, 0)
    IN  /\ s.stage = "tick"
        /\ \/ /\ phase = "out" \/ Exhausted(s.value) \/ ~Fits(next)
              /\ sends' = sends \ {s}
              /\ UNCHANGED clocks
           \/ /\ phase # "out" /\ ~Exhausted(s.value) /\ Fits(next)
              /\ clocks' = [clocks EXCEPT ![s.to] = next]
              /\ sends' = (sends \ {s}) \cup {[s EXCEPT !.stage = "sign", !.value = next]}
        /\ UNCHANGED <<phase, page, loads, table, history>>

\* The envelope is signed and the request made.
SendSign(s) ==
    /\ s.stage = "sign"
    /\ IF phase = "out"
       THEN sends' = sends \ {s} /\ UNCHANGED sent
       ELSE /\ sends' = (sends \ {s}) \cup {[s EXCEPT !.stage = "post"]}
            /\ sent' = sent \cup {[to |-> s.to, ctr |-> s.value, slot |-> s.slot, past |-> s.past]}
    /\ UNCHANGED <<phase, page, clocks, loads, table, seen, overlapped>>

\* The server stores the row and replies; or the request fails, before or after that.
SendPost(s) ==
    /\ s.stage = "post"
    /\ \/ /\ Store(s.to, TRUE, s.value)
          /\ sends' = (sends \ {s}) \cup {[s EXCEPT !.stage = "reply"]}
       \/ /\ Store(s.to, TRUE, s.value) \/ UNCHANGED table
          /\ sends' = sends \ {s}
    /\ UNCHANGED <<phase, page, clocks, loads, history>>

\* The reply opens the conversation the message was sent in, whichever is open now.
SendReply(s) ==
    /\ s.stage = "reply"
    /\ sends' = sends \ {s}
    /\ IF s.current /\ phase # "out"
       THEN Open(s.to)
       ELSE UNCHANGED <<page, loads>>
    /\ UNCHANGED <<phase, clocks, table, history>>

-----------------------------------------------------------------------------
(* The specification *)

\* A peer signs a message; its own counters only rise.
PeerWrites(p) ==
    LET theirs == {r \in Conversation(p) : ~r.mine}
    IN  /\ Cardinality(theirs) < MaxTheirs[p]
        /\ \E n \in 1..MaxClock :
             /\ \A r \in theirs : r.ctr < n
             /\ Store(p, FALSE, n)
        /\ UNCHANGED <<phase, page, clocks, loads, sends, history>>

Init ==
    /\ phase = "out"
    /\ peer = NoPeer
    /\ screen = {}
    /\ error = FALSE
    /\ clocks = [p \in Peers |-> 0]
    /\ loads = {}
    /\ sends = {}
    /\ table = {}
    /\ seen = [p \in Peers |-> {}]
    /\ sent = {}
    /\ overlapped = FALSE

LoadStep(l) ==
    LoadAnswer(l) \/ LoadVerified(l) \/ LoadCompare(l) \/ LoadTick(l) \/ LoadDisplay(l)

SendStep(s) == SendRead(s) \/ SendTick(s) \/ SendSign(s) \/ SendPost(s) \/ SendReply(s)

Next ==
    \/ Login
    \/ LogoutBegin
    \/ LogoutEnd
    \/ \E p \in Peers : Choose(p) \/ PeerWrites(p)
    \/ Poll
    \/ Send
    \/ \E l \in loads : LoadStep(l) \/ LoadError(l)
    \/ \E s \in sends : SendStep(s)

Spec == Init /\ [][Next]_vars

\* The browser's timer and event loop, its storage and the network keep going.
Fairness ==
    /\ WF_vars(Poll)
    /\ \A k \in LoadSlots : WF_vars(\E l \in loads : l.slot = k /\ LoadStep(l))
    /\ \A k \in SendSlots : WF_vars(\E s \in sends : s.slot = k /\ SendStep(s))

FairSpec == Spec /\ Fairness

-----------------------------------------------------------------------------
(* Properties *)

Message == [with: Peers, mine: BOOLEAN, ctr: 1..MaxClock, at: Nat]
Load == [slot: LoadSlots, with: Peers, current: BOOLEAN, value: 0..MaxClock, rows: SUBSET Message,
         stage: {"request", "verify", "compare", "tick", "display"}]
Sending == [slot: SendSlots, to: Peers, current: BOOLEAN, value: 0..MaxClock,
            past: SUBSET (1..MaxClock), stage: {"key", "tick", "sign", "post", "reply"}]
Signed == [to: Peers, ctr: 1..MaxClock, slot: SendSlots, past: SUBSET (1..MaxClock)]

\* Every variable keeps to its set; at most one load is up to date.
TypeOK ==
    /\ phase \in {"in", "leaving", "out"}
    /\ peer \in Peers \cup {NoPeer}
    /\ screen \subseteq Message
    /\ error \in BOOLEAN
    /\ clocks \in [Peers -> 0..MaxClock]
    /\ loads \subseteq Load
    /\ \A l, m \in loads : l.current /\ m.current => l = m
    /\ sends \subseteq Sending
    /\ table \subseteq Message
    /\ seen \in [Peers -> SUBSET (1..MaxClock)]
    /\ sent \subseteq Signed
    /\ overlapped \in BOOLEAN

\* A message carries a larger counter than every message of its conversation that had
\* been displayed or signed when the user sent it: docs/message-protocol-v2.md, 4-6.
CausalOrder ==
    \A s \in sent : \A n \in s.past : n < s.ctr

\* The counters keep their promise as long as no tick of a conversation begins inside
\* another: what breaks it is that tick reads and writes in two transactions.
OrderWithoutOverlap == ~overlapped => CausalOrder

\* At some point the user stops, and the server answers: no step but the refreshes and
\* what they start.  (A click on the open conversation is the same step as a refresh.)
Undisturbed ==
    <>[][~(\/ Login
           \/ LogoutBegin
           \/ Send
           \/ \E p \in Peers : Choose(p) /\ (p # peer \/ loads # {})
           \/ \E l \in loads : LoadError(l))]_vars

\* A page that reaches the largest counter cannot be displayed.
OutOfCounters ==
    \E p \in Peers : p = peer /\ (Exhausted(clocks[p]) \/ \E r \in Rows(p) : r.ctr = MaxClock)

\* The refreshes repair the screen: undisturbed, an open conversation comes to show what
\* the server has of it, whatever an earlier load or a past error left there.
RefreshRepairs ==
    Undisturbed => []((phase = "in" /\ peer # NoPeer) =>
                        <>(phase # "in" \/ screen = Rows(peer) \/ OutOfCounters))

=============================================================================
