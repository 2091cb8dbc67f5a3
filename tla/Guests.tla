------------------------------- MODULE Guests -------------------------------
(***************************************************************************)
(* Sessions with the operator, the task that keeps the name tree.  A       *)
(* client lends the system task a reply hole; the system task offers it a  *)
(* transport hole, takes the name of the client's question hole over it,   *)
(* hands the reply hole on to the operator and tells the operator of the   *)
(* guest; the operator writes the pair on its desk, watches the question   *)
(* hole in its group and answers OK.  From then on the client asks and     *)
(* the operator answers, one exchange at a time.                           *)
(*                                                                         *)
(* A session is one Session::open; its reply hole and its question hole    *)
(* carry the session's name.  The client, the system task's admission and  *)
(* the operator's frame interleave; a client may time out, drop its        *)
(* session or die between any two steps of the others.                     *)
(***************************************************************************)
EXTENDS Naturals, Sequences, FiniteSets

CONSTANTS
    Sessions,   \* the sessions opened
    Caller,     \* the task that opens each
    Muddled,    \* sessions of a client that names another of its own question holes
    TipCap,     \* the most tips the operator's tip hole queues
    MaxAsk,     \* the most requests of a session
    Failures    \* the most times the operator's group has no room for a source

VARIABLES
    user,       \* the client's step in each session
    inbox,      \* the reply hole's queue
    named,      \* what the transport hole carries: the question hole named, or nothing
    ticket,     \* the system task's ticket for each reply hole
    delivered,  \* the reply holes the operator holds
    tips,       \* the operator's tip hole: the guests announced
    question,   \* the question hole's queue
    desk,       \* the pairs admitted
    attached,   \* the question holes in the operator's group
    unread,     \* replies an outbox believes are still queued
    frame,      \* where the operator is in its frame
    asked,      \* the number of each session's last request
    heard,      \* the number of the last answer each session took
    faults

guestsVars == <<user, inbox, named, ticket, delivered, tips, question, desk, attached,
                unread, frame, asked, heard, faults>>
clientVars == <<user, inbox, named, question, asked, heard>>
systemVars == <<ticket, delivered>>
operatorVars == <<desk, attached, unread, frame, faults>>

Nobody == "nobody"
Transport == {"request", "handoff", "connected"}

(* The reply hole lives while the client holds it unsealed; the question hole from its      *)
(* making to its release.                                                                   *)
ReplyAlive(s) ==
    user[s] \in {"lent", "booted", "asked", "ready", "begun", "sent", "leaving", "half"}
AskAlive(s) == user[s] \in {"booted", "asked", "ready", "begun", "sent", "dead", "leaving"}

(* The question holes a client can name to the host.                                        *)
Nameable(s) ==
    {s} \cup {t \in Sessions : s \in Muddled /\ Caller[t] = Caller[s] /\ AskAlive(t)}

Assumptions ==
    /\ Muddled \subseteq Sessions
    /\ TipCap \in Nat \ {0}
    /\ MaxAsk \in Nat /\ Failures \in Nat

guestsInit ==
    /\ user = [s \in Sessions |-> "idle"]
    /\ inbox = [s \in Sessions |-> <<>>]
    /\ named = [s \in Sessions |-> <<>>]
    /\ ticket = [s \in Sessions |-> "none"]
    /\ delivered = {}
    /\ tips = <<>>
    /\ question = [s \in Sessions |-> <<>>]
    /\ desk = {}
    /\ attached = {}
    /\ unread = [s \in Sessions |-> 0]
    /\ frame = [at |-> "tips", guest |-> Nobody, ask |-> Nobody, value |-> 0]
    /\ asked = [s \in Sessions |-> 0]
    /\ heard = [s \in Sessions |-> 0]
    /\ faults = 0

(***************************************************************************)
(* The client: Session::open and the exchange over an open session.        *)
(***************************************************************************)
Becomes(s, step) == user' = [user EXCEPT ![s] = step]

(* A hole that dies takes what it queued with it.                                           *)
Drained(q, s) == [q EXCEPT ![s] = <<>>]

(* A fresh reply hole is shipped to the holder of the tree's tip.                           *)
Lend(s) ==
    /\ user[s] = "idle"
    /\ Becomes(s, "lent")
    /\ UNCHANGED <<inbox, named, question, asked, heard>>

(* The bootstrap names the host and the transport; a fresh question hole is given to the    *)
(* host.  Whatever else arrives, or a dead transport, ends the attempt.                     *)
TakeBoot(s) ==
    /\ user[s] = "lent" /\ inbox[s] # <<>>
    /\ Becomes(s, IF Head(inbox[s]) = "boot" /\ ticket[s] \in Transport
                  THEN "booted" ELSE "leaving")
    /\ inbox' = [inbox EXCEPT ![s] = Tail(@)]
    /\ UNCHANGED <<named, question, asked, heard>>

(* The question hole's number in the host's table goes over the transport.                  *)
NameAsk(s) ==
    /\ user[s] = "booted"
    /\ IF ticket[s] \in Transport
       THEN /\ Becomes(s, "asked")
            /\ \E t \in Nameable(s) : named' = [named EXCEPT ![s] = <<t>>]
       ELSE Becomes(s, "leaving") /\ UNCHANGED named
    /\ UNCHANGED <<inbox, question, asked, heard>>

(* Only an OK opens the session.                                                            *)
TakeAck(s) ==
    /\ user[s] = "asked" /\ inbox[s] # <<>>
    /\ Becomes(s, IF Head(inbox[s]) = "OK" THEN "ready" ELSE "leaving")
    /\ inbox' = [inbox EXCEPT ![s] = Tail(@)]
    /\ UNCHANGED <<named, question, asked, heard>>

OpenTimeout(s) ==
    /\ user[s] \in {"lent", "booted", "asked"}
    /\ Becomes(s, "leaving")
    /\ UNCHANGED <<inbox, named, question, asked, heard>>

(* begin: one exchange at a time; an answer nobody waits for closes the session and seals   *)
(* its reply hole.                                                                          *)
Begin(s) ==
    /\ user[s] = "ready" /\ asked[s] < MaxAsk
    /\ IF inbox[s] = <<>>
       THEN /\ Becomes(s, "begun")
            /\ asked' = [asked EXCEPT ![s] = @ + 1]
            /\ UNCHANGED inbox
       ELSE /\ Becomes(s, "dead")
            /\ inbox' = Drained(inbox, s)
            /\ UNCHANGED asked
    /\ UNCHANGED <<named, question, heard>>

(* The request goes into the question hole.  When it does not, the guard's drop makes the   *)
(* session ready again: nothing was sent.                                                   *)
Send(s) ==
    /\ user[s] = "begun"
    /\ \/ /\ question' = [question EXCEPT ![s] = Append(@, asked[s])]
          /\ Becomes(s, "sent")
          /\ UNCHANGED heard
       \/ /\ Becomes(s, "ready")
          /\ heard' = [heard EXCEPT ![s] = asked[s]]
          /\ UNCHANGED question
    /\ UNCHANGED <<inbox, named, asked>>

Receive(s) ==
    /\ user[s] = "sent" /\ inbox[s] # <<>>
    /\ Becomes(s, "ready")
    /\ heard' = [heard EXCEPT ![s] = Head(inbox[s])]
    /\ inbox' = [inbox EXCEPT ![s] = Tail(@)]
    /\ UNCHANGED <<named, question, asked>>

(* A request sent and not answered in time closes the session: a late answer has nobody to  *)
(* mistake it for another.                                                                  *)
ReceiveTimeout(s) ==
    /\ user[s] = "sent"
    /\ Becomes(s, "dead")
    /\ inbox' = Drained(inbox, s)
    /\ UNCHANGED <<named, question, asked, heard>>

(* The last alias is dropped: the question hole is released, then the reply hole and with   *)
(* it every copy of it.                                                                     *)
Close(s) ==
    /\ user[s] = "ready"
    /\ Becomes(s, "leaving")
    /\ UNCHANGED <<inbox, named, question, asked, heard>>
DropTalk(s) ==
    /\ user[s] = "leaving"
    /\ Becomes(s, "half")
    /\ question' = Drained(question, s)
    /\ UNCHANGED <<inbox, named, asked, heard>>
DropLink(s) ==
    /\ user[s] \in {"half", "dead"}
    /\ Becomes(s, "gone")
    /\ inbox' = Drained(inbox, s)
    /\ question' = Drained(question, s)
    /\ delivered' = delivered \ {s}
    /\ UNCHANGED <<named, asked, heard, ticket>>

(* A task that dies takes all its holes with it.                                            *)
Die(c) ==
    LET mine == {s \in Sessions : Caller[s] = c}
        lost(q) == [s \in Sessions |-> IF s \in mine THEN <<>> ELSE q[s]]
    IN  /\ \E s \in mine : user[s] \notin {"idle", "gone"}
        /\ user' = [s \in Sessions |-> IF s \in mine THEN "gone" ELSE user[s]]
        /\ inbox' = lost(inbox) /\ question' = lost(question)
        /\ delivered' = delivered \ mine
        /\ UNCHANGED <<named, asked, heard, ticket>>

ClientStep(s) ==
    /\ \/ /\ \/ Lend(s) \/ TakeBoot(s) \/ NameAsk(s) \/ TakeAck(s)
             \/ Begin(s) \/ Send(s) \/ Receive(s) \/ Close(s) \/ DropTalk(s)
          /\ UNCHANGED systemVars
       \/ DropLink(s)
    /\ UNCHANGED <<tips, operatorVars>>
ClientFault(s) ==
    /\ \/ (OpenTimeout(s) \/ ReceiveTimeout(s)) /\ UNCHANGED systemVars
       \/ Die(Caller[s])
    /\ UNCHANGED <<tips, operatorVars>>

(***************************************************************************)
(* The system task's admission: Connections::maintain, one ticket at a     *)
(* time.  Every frame asks for every task it knows.                        *)
(***************************************************************************)
SetTicket(s, step) == ticket' = [ticket EXCEPT ![s] = step]

(* A rejected ticket gives up its transport and takes back the reply hole it handed on; the *)
(* ticket stays, so the same reply hole is not admitted twice.                              *)
Reject(s) ==
    /\ SetTicket(s, "rejected")
    /\ named' = Drained(named, s)
    /\ delivered' = delivered \ {s}
    /\ UNCHANGED <<inbox, tips>>

(* A ticket whose reply hole is gone is dropped, a pending one rejected first.              *)
Prune(s) ==
    /\ ticket[s] # "none" /\ ~ReplyAlive(s)
    /\ SetTicket(s, "none")
    /\ named' = Drained(named, s)
    /\ delivered' = IF ticket[s] = "handoff" THEN delivered \ {s} ELSE delivered
    /\ UNCHANGED <<inbox, tips>>

(* A reply hole seen for the first time gets a ticket and a transport of its own.           *)
Collect(s) ==
    /\ ticket[s] = "none" /\ ReplyAlive(s)
    /\ SetTicket(s, "offer")
    /\ UNCHANGED <<named, delivered, inbox, tips>>

(* Pending::advance runs on through its steps until one has to wait.  The reply hole is     *)
(* handed on once, the tip sent when the tip hole has room.                                 *)
Offer(s) ==
    /\ ticket[s] = "offer" /\ ReplyAlive(s)
    /\ inbox' = [inbox EXCEPT ![s] = Append(@, "boot")]
    /\ SetTicket(s, "request")
    /\ UNCHANGED <<named, delivered, tips>>
HandOn(s, ask) ==
    /\ delivered' = delivered \cup {s}
    /\ IF Len(tips) < TipCap
       THEN /\ tips' = Append(tips, [reply |-> s, ask |-> ask])
            /\ SetTicket(s, "connected")
       ELSE /\ SetTicket(s, "handoff")
            /\ UNCHANGED tips
    /\ UNCHANGED <<named, inbox>>
Advance(s) ==
    \/ Offer(s)
    \/ /\ ticket[s] \in {"request", "handoff"} /\ named[s] # <<>> /\ ReplyAlive(s)
       /\ ticket[s] = "handoff" => Len(tips) < TipCap
       /\ HandOn(s, Head(named[s]))
Expire(s) == ticket[s] \in {"offer", "request", "handoff"} /\ Reject(s)

SystemStep(s) ==
    /\ Prune(s) \/ Collect(s) \/ Advance(s)
    /\ UNCHANGED <<user, question, asked, heard, operatorVars>>
SystemFault(s) == Expire(s) /\ UNCHANGED <<user, question, asked, heard, operatorVars>>

(***************************************************************************)
(* The operator's frame: the tips, then one question, its answer, and the  *)
(* sweep of the sessions whose holes are gone.                             *)
(***************************************************************************)
Goes(at) == frame' = [at |-> at, guest |-> Nobody, ask |-> Nobody, value |-> 0]

(* The reply hole came from the system task, the question hole from the guest itself.       *)
ValidReply(s) == s \in delivered /\ ReplyAlive(s)
ValidRequest(s, t) == Caller[t] = Caller[s] /\ AskAlive(t)

(* admit: a pair that shares a hole with one already admitted is not taken.                 *)
Taken(s, t) == \E g \in desk : g.reply = s \/ g.ask = t

Push(s, m) == inbox' = IF ReplyAlive(s) THEN [inbox EXCEPT ![s] = Append(@, m)] ELSE inbox

(* One tip: a guest whose question hole is bad is told so, a taken pair is passed over, a   *)
(* guest whose question hole finds no room in the group is evicted and told so.             *)
Admit(s, t) ==
    \/ /\ desk' = desk \cup {[reply |-> s, ask |-> t]}
       /\ attached' = attached \cup {t}
       /\ frame' = [at |-> "ack", guest |-> s, ask |-> t, value |-> 0]
       /\ UNCHANGED <<inbox, faults>>
    \/ /\ faults < Failures /\ faults' = faults + 1
       /\ Push(s, "NO")
       /\ UNCHANGED <<desk, attached, frame>>
Refuse(s) ==
    /\ IF \E g \in desk : g.reply = s THEN UNCHANGED inbox ELSE Push(s, "NO")
    /\ UNCHANGED <<desk, attached, frame, faults>>
Guest ==
    /\ frame.at = "tips" /\ tips # <<>>
    /\ LET s == Head(tips).reply
           t == Head(tips).ask
       IN  IF ~ValidReply(s) THEN UNCHANGED <<inbox, desk, attached, frame, faults>>
           ELSE IF ~ValidRequest(s, t) THEN Refuse(s)
           ELSE IF Taken(s, t) THEN UNCHANGED <<inbox, desk, attached, frame, faults>>
           ELSE Admit(s, t)
    /\ tips' = Tail(tips)
    /\ UNCHANGED unread

(* The guest is told OK; one that cannot be told is taken off the desk and out of the       *)
(* group.                                                                                   *)
Acknowledge ==
    /\ frame.at = "ack"
    /\ Push(frame.guest, "OK")
    /\ IF ReplyAlive(frame.guest) THEN UNCHANGED <<desk, attached>>
       ELSE /\ desk' = desk \ {[reply |-> frame.guest, ask |-> frame.ask]}
            /\ attached' = attached \ {frame.ask}
    /\ Goes("tips")
    /\ UNCHANGED <<tips, unread, faults>>

(* The tips done, the group is waited on: a question of a guest on the desk is taken, or    *)
(* the wait ends without one.                                                               *)
Wait ==
    /\ frame.at = "tips" /\ tips = <<>>
    /\ \/ \E g \in desk :
            /\ g.ask \in attached /\ question[g.ask] # <<>>
            /\ frame' = [at |-> "reply", guest |-> g.reply, ask |-> g.ask,
                         value |-> Head(question[g.ask])]
            /\ question' = [question EXCEPT ![g.ask] = Tail(@)]
       \/ /\ \A g \in desk : question[g.ask] = <<>>
          /\ Goes("sweep") /\ UNCHANGED question
    /\ UNCHANGED <<inbox, tips, desk, attached, unread, faults>>

(* The answer is sent when the guest has taken the one before it, and dropped otherwise.    *)
Settled(s) == unread[s] = 0 \/ (ReplyAlive(s) /\ inbox[s] = <<>>)
Reply ==
    /\ frame.at = "reply"
    /\ IF Settled(frame.guest) /\ ReplyAlive(frame.guest)
       THEN /\ Push(frame.guest, frame.value)
            /\ unread' = [unread EXCEPT ![frame.guest] = 1]
       ELSE UNCHANGED <<inbox, unread>>
    /\ Goes("sweep")
    /\ UNCHANGED <<tips, question, desk, attached, faults>>

Sweep ==
    LET lost == {g \in desk : ~ReplyAlive(g.reply) \/ ~AskAlive(g.ask)}
        replies == {g.reply : g \in lost}
    IN  /\ frame.at = "sweep"
        /\ desk' = desk \ lost
        /\ attached' = attached \ {g.ask : g \in lost}
        /\ unread' = [s \in Sessions |-> IF s \in replies THEN 0 ELSE unread[s]]
        /\ Goes("tips")
        /\ UNCHANGED <<inbox, tips, question, faults>>

OperatorStep ==
    /\ \/ (Guest \/ Acknowledge) /\ UNCHANGED question
       \/ Wait \/ Reply \/ Sweep
    /\ UNCHANGED <<user, named, asked, heard, systemVars>>

guestsNext ==
    \/ \E s \in Sessions : ClientStep(s) \/ ClientFault(s) \/ SystemStep(s) \/ SystemFault(s)
    \/ OperatorStep

guestsFair ==
    /\ WF_guestsVars(OperatorStep)
    /\ \A s \in Sessions : WF_guestsVars(SystemStep(s)) /\ WF_guestsVars(ClientStep(s))

-----------------------------------------------------------------------------
TypeOK ==
    /\ \A s \in Sessions : named[s] \in {<<>>} \cup {<<t>> : t \in Sessions}
    /\ \A s \in Sessions : unread[s] \in {0, 1} /\ heard[s] <= asked[s] /\ asked[s] <= MaxAsk
    /\ \A g \in desk : g \in [reply : Sessions, ask : Sessions]
    /\ Len(tips) <= TipCap
    /\ frame.at \in {"tips", "ack", "reply", "sweep"}

(* A completed call holds the answer to its own request, never a late answer to an earlier  *)
(* one (session/state.rs, exchange.rs).                                                     *)
Matched == \A s \in Sessions : user[s] = "ready" => heard[s] = asked[s]

(* Two sessions on the desk share neither hole, so an answer goes to the one session whose  *)
(* question it answers, and only to a caller's own (Desk::admit, runtime/import.rs).        *)
OneSession ==
    /\ \A g, h \in desk : g # h => g.reply # h.reply /\ g.ask # h.ask
    /\ \A g \in desk : Caller[g.reply] = Caller[g.ask]

(* The operator's group watches exactly the question holes of the sessions on its desk      *)
(* (management.rs guest, exchange.rs sweep).                                                *)
DeskWatched == attached = {g.ask : g \in desk}

(* The operator holds a reply hole only on a ticket that handed it on: a rejected one took  *)
(* it back (Pending::reject).                                                               *)
HandedOn ==
    \A s \in delivered :
        ticket[s] \in {"handoff", "connected"} \/ (ticket[s] = "none" /\ user[s] = "dead")
=============================================================================
