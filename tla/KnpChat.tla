------------------------------- MODULE KnpChat -------------------------------
(***************************************************************************)
(* The contact chat over KNP (knp_chat.rs) on its transport actor           *)
(* (kononexus_transport.rs).  Each node runs two loops: the chat takes      *)
(* commands of the user and events of its transport, one after the other,   *)
(* and waits for the transport's answer in between; the transport takes     *)
(* commands of the chat and events of the SDK, and the queue of events from *)
(* one to the other is bounded.                                            *)
(*                                                                         *)
(* The SDK is external: it delivers what was sent any number of times and   *)
(* in any order, or never, and says once of each message that the peer's    *)
(* transport has it or that it failed, whatever became of it.  A message is *)
(* named by its id, which stands for its transport id too.  When the 30 s   *)
(* for an acknowledgement are over is left open.                            *)
(***************************************************************************)
EXTENDS Naturals, FiniteSets, SequencesExt

CONSTANTS
  Node,
  Msg,            \* bound: ids of messages
  UserCalls,      \* bound: the commands each user gives
  EventCapacity,  \* KNP_EVENT_CAPACITY
  MaxContacts, MaxPending, MaxSeen, MaxHistory,
  Nothing         \* Option::None

Call == {"contact", "send", "stop"}

ASSUME KnpAssumption ==
  /\ UserCalls \in [Node -> SUBSET Call]
  /\ {EventCapacity, MaxContacts, MaxPending, MaxSeen, MaxHistory} \subseteq Nat \ {0}
  /\ Nothing \notin {"asked", "ok", "failed"}

VARIABLES
  calls,      \* commands of the user without an answer, in their order
  chat,       \* what the chat does: its loop, or what it waits for
  asked,      \* the command the chat gave its transport, and its answer
  transport,  \* the transport runs
  events,     \* events the transport has passed to the chat
  contacts,
  pending,    \* messages whose acknowledgement is awaited
  seen,       \* the last ids that were received
  history,    \* snapshot.messages
  made,       \* ids in use
  displayed,  \* history variable: what each node has shown its user
  wire,       \* what was sent
  unsettled   \* messages of which the SDK has not said what became of them

nodeVars == <<calls, chat, asked, contacts, pending, seen, history, made, displayed>>
netVars == <<transport, events, wire, unsettled>>
knpVars == <<nodeVars, netVars>>

Delivery == {"incoming", "queued", "transport_delivered", "received", "unconfirmed", "failed"}
Entry == [id : Msg, delivery : Delivery]
Packet == [from : Node, to : Node, kind : {"message", "ack"}, id : Msg]
Receipt == [kind : {"delivered", "failed"}, id : Msg]
Work == [do : {"loop", "stop", "closed"}] \cup [do : {"connect"}, peer : Node]
        \cup [do : {"message", "ack"}, peer : Node, id : Msg]

Loop == [do |-> "loop"]

KnpTypeOK ==
  /\ calls \in [Node -> Seq(Call)]
  /\ chat \in [Node -> Work]
  /\ asked \in [Node -> {Nothing, "asked", "ok", "failed"}]
  /\ transport \in [Node -> BOOLEAN]
  /\ contacts \in [Node -> SUBSET Node]
  /\ pending \in [Node -> SUBSET Msg]
  /\ \A n \in Node :
       /\ asked[n] = Nothing <=> chat[n].do \in {"loop", "closed"}
       /\ events[n] \in Seq(Packet \cup Receipt) /\ Len(events[n]) <= EventCapacity
       /\ Cardinality(contacts[n]) <= MaxContacts /\ Cardinality(pending[n]) <= MaxPending
       /\ seen[n] \in Seq(Node \X Msg) /\ Len(seen[n]) <= MaxSeen
       /\ history[n] \in Seq(Entry) /\ Len(history[n]) <= MaxHistory
  /\ made \subseteq Msg
  /\ displayed \in [Node -> SUBSET Msg]
  /\ wire \subseteq Packet
  /\ unsettled \in [Node -> SUBSET Msg]

KnpInit ==
  /\ calls = [n \in Node |-> <<>>]
  /\ chat = [n \in Node |-> Loop] /\ asked = [n \in Node |-> Nothing]
  /\ transport = [n \in Node |-> TRUE] /\ events = [n \in Node |-> <<>>]
  /\ contacts = [n \in Node |-> {}] /\ pending = [n \in Node |-> {}]
  /\ seen = [n \in Node |-> <<>>] /\ history = [n \in Node |-> <<>>]
  /\ made = {} /\ displayed = [n \in Node |-> {}]
  /\ wire = {} /\ unsettled = [n \in Node |-> {}]

-----------------------------------------------------------------------------
(* The history                                                             *)

\* A sequence that drops its first element rather than grow past max.
Bounded(s, max, e) == Append(IF Len(s) = max THEN Tail(s) ELSE s, e)

\* update_delivery: what was received stays so.
Updated(h, m, delivery) ==
  [i \in DOMAIN h |->
    IF h[i].id = m /\ h[i].delivery \notin {"incoming", "received"}
    THEN [h[i] EXCEPT !.delivery = delivery] ELSE h[i]]

HasQueued(h, m) == \E i \in DOMAIN h : h[i] = [id |-> m, delivery |-> "queued"]

-----------------------------------------------------------------------------
(* Commands of the user                                                    *)

MakeCall(n, c) ==
  /\ chat[n].do \notin {"stop", "closed"} /\ ~Contains(calls[n], c)
  /\ calls' = [calls EXCEPT ![n] = Append(@, c)]
  /\ UNCHANGED <<chat, asked, contacts, pending, seen, history, made, displayed, netVars>>

\* The chat waits for its transport, which may be gone.
Await(n, work) ==
  /\ chat' = [chat EXCEPT ![n] = work]
  /\ asked' = [asked EXCEPT ![n] = IF transport[n] THEN "asked" ELSE "failed"]

\* The command the chat took first has its answer.
Answer(n) == calls' = [calls EXCEPT ![n] = Tail(@)]

Takes(n, c) == chat[n] = Loop /\ calls[n] # <<>> /\ Head(calls[n]) = c

TakeContact(n) ==
  /\ Takes(n, "contact")
  /\ \/ Answer(n) /\ UNCHANGED <<chat, asked>>
     \/ \E p \in Node \ {n} :
          /\ p \in contacts[n] \/ Cardinality(contacts[n]) < MaxContacts
          /\ Await(n, [do |-> "connect", peer |-> p])
          /\ UNCHANGED calls
  /\ UNCHANGED <<contacts, pending, seen, history, made, displayed, netVars>>

TakeSend(n) ==
  /\ Takes(n, "send")
  /\ \/ /\ Answer(n) /\ UNCHANGED <<chat, asked, made>>
     \/ \E p \in contacts[n], m \in Msg \ made :
          /\ Cardinality(pending[n]) < MaxPending
          /\ made' = made \cup {m}
          /\ Await(n, [do |-> "message", peer |-> p, id |-> m])
          /\ UNCHANGED calls
  /\ UNCHANGED <<contacts, pending, seen, history, displayed, netVars>>

\* Stop closes the queue of commands, which answers all other callers, and then waits for the
\* transport.
TakeStop(n) ==
  /\ Takes(n, "stop")
  /\ calls' = [calls EXCEPT ![n] = <<"stop">>]
  /\ Await(n, [do |-> "stop"])
  /\ UNCHANGED <<contacts, pending, seen, history, made, displayed, netVars>>

\* The transport has answered.
Resume(n) ==
  /\ asked[n] \in {"ok", "failed"} /\ asked' = [asked EXCEPT ![n] = Nothing]
  /\ chat' = [chat EXCEPT ![n] = IF @.do = "stop" THEN [do |-> "closed"] ELSE Loop]
  /\ LET work == chat[n] ok == asked[n] = "ok" IN
     /\ contacts' = IF work.do = "connect" /\ ok
                    THEN [contacts EXCEPT ![n] = @ \cup {work.peer}] ELSE contacts
     /\ IF work.do = "message" /\ ok
        THEN /\ pending' = [pending EXCEPT ![n] = @ \cup {work.id}]
             /\ history' = [history EXCEPT ![n] =
                  Bounded(@, MaxHistory, [id |-> work.id, delivery |-> "queued"])]
        ELSE UNCHANGED <<pending, history>>
     /\ IF work.do = "ack" THEN UNCHANGED calls ELSE Answer(n)
  /\ UNCHANGED <<seen, made, displayed, netVars>>

-----------------------------------------------------------------------------
(* Events of the transport                                                 *)

Trusts(n, p) == p \in contacts[n]

\* A message is shown unless it was seen, and acknowledged in any case.
OnMessage(n, e) ==
  /\ LET key == <<e.from, e.id>> new == ~Contains(seen[n], key) IN
     /\ seen' = [seen EXCEPT ![n] = IF new THEN Bounded(@, MaxSeen, key) ELSE @]
     /\ history' = [history EXCEPT ![n] =
          IF new THEN Bounded(@, MaxHistory, [id |-> e.id, delivery |-> "incoming"]) ELSE @]
     /\ displayed' = [displayed EXCEPT ![n] = @ \cup {e.id}]
  /\ Await(n, [do |-> "ack", peer |-> e.from, id |-> e.id])
  /\ UNCHANGED pending

OnAck(n, e) ==
  /\ history' = [history EXCEPT ![n] = Updated(@, e.id, "received")]
  /\ pending' = [pending EXCEPT ![n] = @ \ {e.id}]
  /\ UNCHANGED <<chat, asked, seen, displayed>>

\* Mutant of Means: the transport of the peer speaks for its user.
MeansReceived(kind) == IF kind = "failed" THEN "failed" ELSE "received"

\* What a receipt says of a message.
Means(kind) == IF kind = "failed" THEN "failed" ELSE "transport_delivered"

\* Receipts count while the acknowledgement is awaited; a failure ends that.
OnReceipt(n, e) ==
  /\ IF e.id \in pending[n]
     THEN /\ history' = [history EXCEPT ![n] = Updated(@, e.id, Means(e.kind))]
          /\ pending' = IF e.kind = "failed" THEN [pending EXCEPT ![n] = @ \ {e.id}] ELSE pending
     ELSE UNCHANGED <<history, pending>>
  /\ UNCHANGED <<chat, asked, seen, displayed>>

TakeEvent(n) ==
  /\ chat[n] = Loop /\ events[n] # <<>>
  /\ events' = [events EXCEPT ![n] = Tail(@)]
  /\ LET e == Head(events[n]) IN
     \/ e.kind = "message" /\ Trusts(n, e.from) /\ OnMessage(n, e)
     \/ e.kind = "ack" /\ Trusts(n, e.from) /\ OnAck(n, e)
     \/ /\ e.kind \in {"message", "ack"} /\ ~Trusts(n, e.from)
        /\ UNCHANGED <<chat, asked, pending, seen, history, displayed>>
     \/ e.kind \in {"delivered", "failed"} /\ OnReceipt(n, e)
  /\ UNCHANGED <<calls, contacts, made, transport, wire, unsettled>>

\* The transport has ended and so does the chat; all callers hear of it.
EventsClosed(n) ==
  /\ chat[n] = Loop /\ ~transport[n] /\ events[n] = <<>>
  /\ chat' = [chat EXCEPT ![n] = [do |-> "closed"]]
  /\ calls' = [calls EXCEPT ![n] = <<>>]
  /\ UNCHANGED <<asked, contacts, pending, seen, history, made, displayed, netVars>>

\* Mutant of Settled: the history keeps what it says of a message that is given up.
SettledSilently(h, m) == h

\* What the history says of a message that is not awaited any more.
Settled(h, m) == IF HasQueued(h, m) THEN Updated(h, m, "unconfirmed") ELSE h

\* The timer: a message has waited for too long.
GiveUp(n, m) ==
  /\ chat[n] = Loop /\ m \in pending[n]
  /\ pending' = [pending EXCEPT ![n] = @ \ {m}]
  /\ history' = [history EXCEPT ![n] = Settled(@, m)]
  /\ UNCHANGED <<calls, chat, asked, contacts, seen, made, displayed, netVars>>

-----------------------------------------------------------------------------
(* The transport actor                                                     *)

\* Mutant of Wakes: room for an event is awaited before anything else.
WakesWithRoom(n) ==
  IF Len(events[n]) < EventCapacity THEN {"event", "command"} ELSE {}

\* What the loop can take next: a command at any time, an event while there is room for it.
Wakes(n) ==
  {"command"} \cup (IF Len(events[n]) < EventCapacity THEN {"event"} ELSE {})

\* Connect, Send and Shutdown; the SDK may refuse.
TransportCommand(n) ==
  /\ transport[n] /\ "command" \in Wakes(n) /\ asked[n] = "asked"
  /\ LET work == chat[n] IN
     \/ /\ work.do \in {"message", "ack"} /\ asked' = [asked EXCEPT ![n] = "ok"]
        /\ wire' = wire \cup {[from |-> n, to |-> work.peer, kind |-> work.do, id |-> work.id]}
        /\ unsettled' = IF work.do = "message" THEN [unsettled EXCEPT ![n] = @ \cup {work.id}]
                                               ELSE unsettled
        /\ UNCHANGED transport
     \/ /\ work.do = "connect" /\ asked' = [asked EXCEPT ![n] = "ok"]
        /\ UNCHANGED <<wire, unsettled, transport>>
     \/ /\ work.do # "stop" /\ asked' = [asked EXCEPT ![n] = "failed"]
        /\ UNCHANGED <<wire, unsettled, transport>>
     \/ /\ work.do = "stop" /\ asked' = [asked EXCEPT ![n] = "ok"]
        /\ transport' = [transport EXCEPT ![n] = FALSE]
        /\ UNCHANGED <<wire, unsettled>>
  /\ UNCHANGED <<events, calls, chat, contacts, pending, seen, history, made, displayed>>

\* An event of the SDK is passed on.
TransportEvent(n) ==
  /\ transport[n] /\ "event" \in Wakes(n)
  /\ \/ /\ \E packet \in wire :
             packet.to = n /\ events' = [events EXCEPT ![n] = Append(@, packet)]
        /\ UNCHANGED unsettled
     \/ \E m \in unsettled[n], kind \in {"delivered", "failed"} :
          /\ unsettled' = [unsettled EXCEPT ![n] = @ \ {m}]
          /\ events' = [events EXCEPT ![n] = Append(@, [kind |-> kind, id |-> m])]
  /\ UNCHANGED <<transport, wire, nodeVars>>

\* The SDK has ended.
TransportEnds(n) ==
  /\ transport[n] /\ transport' = [transport EXCEPT ![n] = FALSE]
  /\ asked' = [asked EXCEPT ![n] = IF @ = "asked" THEN "failed" ELSE @]
  /\ UNCHANGED <<calls, chat, contacts, pending, seen, history, made, displayed, events, wire,
                 unsettled>>

KnpNext == \E n \in Node :
  \/ \E c \in UserCalls[n] : MakeCall(n, c)
  \/ TakeContact(n)
  \/ TakeSend(n)
  \/ TakeStop(n)
  \/ Resume(n)
  \/ TakeEvent(n)
  \/ EventsClosed(n)
  \/ \E m \in Msg : GiveUp(n, m)
  \/ TransportCommand(n)
  \/ TransportEvent(n)
  \/ TransportEnds(n)

\* Both loops run, and the select of the chat chooses among what is ready at random.
KnpFairness == \A n \in Node :
  /\ SF_knpVars(TakeContact(n) \/ TakeSend(n) \/ TakeStop(n))
  /\ WF_knpVars(Resume(n) \/ TransportCommand(n))

KnpSpec == KnpInit /\ [][KnpNext]_knpVars /\ KnpFairness

-----------------------------------------------------------------------------
(* Properties                                                              *)

\* A message that the sender shows as received has been shown to the other user: an
\* acknowledgement means more than a receipt of the transport.
ReceivedWasShown ==
  \A n \in Node : \A i \in DOMAIN history[n] :
    history[n][i].delivery = "received" => \E p \in Node \ {n} : history[n][i].id \in displayed[p]

\* Every history is well formed and true.
HistoryIsTrue == KnpTypeOK /\ ReceivedWasShown

\* A message that the history shows as queued is awaited, so that an acknowledgement, a
\* failure or the timer will settle it.
QueuedIsAwaited ==
  \A n \in Node : \A m \in Msg : HasQueued(history[n], m) => m \in pending[n]

\* Every command of the user is answered, also while the queue of events is full and when the
\* transport ends: the two loops never wait for each other.
CommandsAnswered ==
  \A n \in Node : \A c \in UserCalls[n] : Contains(calls[n], c) ~> ~Contains(calls[n], c)
=============================================================================
