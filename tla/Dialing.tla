------------------------------- MODULE Dialing -------------------------------
(***************************************************************************)
(* How a node gets and keeps its connections (direct_first.rs,              *)
(* network_recovery.rs and lib.rs, network_task): plans that dial a         *)
(* remembered peer directly before they fall back to relays, bootstrap      *)
(* targets that are dialed again with a backoff, reservations at relays,    *)
(* and the recovery from a change of the network.                          *)
(*                                                                         *)
(* The swarm is external: it has dials under way and connections, and it    *)
(* reports the end of each; connections of one direction count as one.  A   *)
(* deadline that has passed is a member of lapsed or due; when it passes is *)
(* left open.  The TCP and the QUIC listener are one native listener.  The  *)
(* dials of mDNS, the DHT and requests, which no plan or target is about,   *)
(* are left out but for the connections they yield.                         *)
(***************************************************************************)
EXTENDS Naturals, FiniteSets, Sequences, Functions

CONSTANTS
  Peer,
  Listener,    \* bound: ids of circuit listeners
  MaxRelays,   \* MAX_PARTICIPANT_RELAYS
  Nothing      \* Option::None

Kind == {"direct", "circuit"}

ASSUME DialingAssumption ==
  /\ MaxRelays \in Nat
  /\ Nothing \notin Peer \cup Listener /\ \A kinds \in SUBSET Kind : Nothing # kinds

VARIABLES
  links,      \* connections of each peer, by who dialed
  dials,      \* dials under way, by who asked for them
  plans,      \* DirectFirstDials: the plan of each peer, waiting or pending
  lapsed,     \* peers whose plan has expired
  targets,    \* bootstrap_targets
  marked,     \* targets that are connected, as their flag says
  due,        \* targets whose next_attempt has come
  bootRelays, \* relay_bootstrap_peers
  relays,     \* participant_relays
  circuits,   \* circuit listeners of the swarm, by relay
  closing,    \* listeners that were removed, ListenerClosed still to come
  listening,  \* the native listener
  recovering  \* NetworkRecovery has a refresh to make

dialingVars == <<links, dials, plans, lapsed, targets, marked, due, bootRelays, relays,
                 circuits, closing, listening, recovering>>

EndpointSets == (SUBSET Kind) \ {{}}

Connected == {p \in Peer : links[p] # {}}
Dialed == {p \in Peer : dials[p] # {}}

\* The batches of a plan: all direct addresses, then the circuits.  (Up to three circuits
\* are batches of their own; one stands for them.)
Batches(endpoints) ==
  (IF "direct" \in endpoints THEN <<"direct">> ELSE <<>>)
    \o (IF "circuit" \in endpoints THEN <<"circuit">> ELSE <<>>)

Plan == [stage : {"waiting", "pending"}, signed : BOOLEAN,
         batches : {Batches(e) : e \in SUBSET Kind}]

DialingTypeOK ==
  /\ links \in [Peer -> SUBSET {"in", "out"}]
  /\ dials \in [Peer -> SUBSET {"plan", "bootstrap"}]
  /\ plans \in [Peer -> Plan \cup {Nothing}]
  /\ lapsed \subseteq {p \in Peer : plans[p] # Nothing}
  /\ targets \subseteq Peer /\ marked \subseteq targets /\ due \subseteq targets
  /\ bootRelays \in [Peer -> Listener \cup {Nothing}]
  /\ relays \in [Peer -> Listener \cup {Nothing}]
  /\ circuits \in [Listener -> Peer \cup {Nothing}]
  /\ closing \subseteq {l \in Listener : circuits[l] # Nothing}
  /\ {listening, recovering} \subseteq BOOLEAN

\* Remembered peers have a plan from the start, bootstrap targets are dialed at once.
DialingInit(remembered, configured) ==
  /\ links = [p \in Peer |-> {}]
  /\ dials = [p \in Peer |-> IF p \in configured THEN {"bootstrap"} ELSE {}]
  /\ plans = [p \in Peer |-> IF p \in remembered
       THEN [stage |-> "waiting", signed |-> FALSE, batches |-> Batches(Kind)] ELSE Nothing]
  /\ lapsed = {} /\ targets = configured /\ marked = {} /\ due = {}
  /\ bootRelays = [p \in Peer |-> Nothing] /\ relays = [p \in Peer |-> Nothing]
  /\ circuits = [l \in Listener |-> Nothing] /\ closing = {}
  /\ listening = TRUE /\ recovering = TRUE

-----------------------------------------------------------------------------
(* Relays *)

Without(held, ps) == [p \in Peer |-> IF p \in ps THEN Nothing ELSE held[p]]
ListenersOf(held, ps) == {held[p] : p \in ps} \ {Nothing}
Holders(held) == {p \in Peer : held[p] # Nothing}

\* restore_bootstrap_relays, where connected are the peers with a connection: a reservation
\* at every connected target that has none, as far as there is room and the swarm agrees.
Restore(held, connected) ==
  \E new \in SUBSET ((targets \cap connected) \ Holders(held)) :
  \E opened \in Injection(new, {l \in Listener : circuits[l] = Nothing}) :
    /\ new # {} => Cardinality(Holders(held) \cup new) <= MaxRelays
    /\ circuits' = [l \in Listener |-> IF \E p \in new : opened[p] = l
                                      THEN CHOOSE p \in new : opened[p] = l ELSE circuits[l]]
    /\ bootRelays' = [p \in Peer |-> IF p \in new THEN opened[p] ELSE held[p]]

\* The part of Identify that reserves at a participant that offers its relay.
OpenRelay(p) ==
  /\ p \notin targets /\ relays[p] = Nothing /\ Cardinality(Holders(relays)) < MaxRelays
  /\ \E l \in Listener :
       /\ circuits[l] = Nothing
       /\ circuits' = [circuits EXCEPT ![l] = p]
       /\ relays' = [relays EXCEPT ![p] = l]

\* The map without the listener l.
Forgotten(held, l) == [p \in Peer |-> IF held[p] = l THEN Nothing ELSE held[p]]

\* A circuit listener has ended: it was removed, or the relay refused or left.
OnListenerClosed(l) ==
  /\ circuits[l] # Nothing
  /\ circuits' = [circuits EXCEPT ![l] = Nothing]
  /\ closing' = closing \ {l}
  /\ relays' = Forgotten(relays, l)
  /\ bootRelays' = Forgotten(bootRelays, l)
  /\ recovering' = (recovering \/ bootRelays' # bootRelays)
  /\ UNCHANGED <<links, dials, plans, lapsed, targets, marked, due, listening>>

\* The native listener has ended.
OnNativeListenerClosed ==
  /\ listening
  /\ listening' = FALSE /\ recovering' = TRUE
  /\ UNCHANGED <<links, dials, plans, lapsed, targets, marked, due, bootRelays, relays, circuits,
                 closing>>

\* A native address has come or gone, or the user asks for a refresh (RefreshDiscovery).
RequestRecovery ==
  /\ recovering' = TRUE
  /\ UNCHANGED <<links, dials, plans, lapsed, targets, marked, due, bootRelays, relays, circuits,
                 closing, listening>>

-----------------------------------------------------------------------------
(* Plans *)

\* DirectFirstDials::enqueue
Enqueued(plan, endpoints, signed) ==
  IF plan = Nothing
  THEN [stage |-> "waiting", signed |-> signed, batches |-> Batches(endpoints)]
  ELSE plan

\* DirectFirstDials::connected
Dropped(ps, peers) == [p \in Peer |-> IF p \in peers THEN Nothing ELSE ps[p]]

\* The waiting plans that drive tries to dial: neither expired nor of a peer that is
\* connected or being dialed.
Ready(ps) == {p \in Peer \ (lapsed \cup Connected \cup Dialed) :
                ps[p] # Nothing /\ ps[p].stage = "waiting"}

AfterBatch(plan, stage) == [plan EXCEPT !.stage = stage, !.batches = Tail(@)]

\* DirectFirstDials::drive, where the swarm refuses to dial the peers in refused.
Driven(ps, refused) ==
  [p \in Peer |->
    IF ps[p] = Nothing \/ p \in lapsed THEN Nothing
    ELSE IF p \notin Ready(ps) THEN ps[p]
    ELSE IF p \notin refused THEN AfterBatch(ps[p], "pending")
    ELSE IF Len(ps[p].batches) = 1 THEN Nothing
    ELSE AfterBatch(ps[p], "waiting")]

\* DirectFirstDials::failed
Failed(p) ==
  IF plans[p] = Nothing \/ plans[p].stage = "waiting" THEN plans[p]
  ELSE IF p \in lapsed \/ plans[p].batches = <<>> THEN Nothing
  ELSE [plans[p] EXCEPT !.stage = "waiting"]

StillLapsed(ps) == {p \in lapsed : ps[p] # Nothing}

-----------------------------------------------------------------------------
(* Events of the swarm *)

\* A connection is up that the peer (in) or this node (out) dialed; why names a plan's or a
\* target's dial.
OnConnectionEstablished(p, way, why) ==
  /\ links' = [links EXCEPT ![p] = @ \cup {way}]
  /\ dials' = [dials EXCEPT ![p] = @ \ {why}]
  /\ plans' = Dropped(plans, IF way = "out" THEN {p} ELSE {})
  /\ lapsed' = StillLapsed(plans')
  /\ IF p \in targets
     THEN marked' = marked \cup {p} /\ Restore(bootRelays, Connected \cup {p})
     ELSE UNCHANGED <<marked, bootRelays, circuits>>
  /\ UNCHANGED <<targets, due, relays, closing, listening, recovering>>

OnPeerConnectionClosed(p, way) ==
  /\ way \in links[p]
  /\ links' = [links EXCEPT ![p] = @ \ {way}]
  /\ IF links'[p] = {}
     THEN /\ bootRelays' = Without(bootRelays, {p})
          /\ relays' = Without(relays, {p})
          /\ closing' = closing \cup ListenersOf(bootRelays, {p}) \cup ListenersOf(relays, {p})
          /\ marked' = marked \ {p} /\ due' = due \ {p}
     ELSE UNCHANGED <<bootRelays, relays, closing, marked, due>>
  /\ UNCHANGED <<dials, plans, lapsed, targets, circuits, listening, recovering>>

\* mark_bootstrap_failed, for a peer that is not connected.
MarkedFailed(p) == IF p \in Connected THEN marked ELSE marked \ {p}

OnOutgoingConnectionError(p, why) ==
  /\ why \in dials[p]
  /\ dials' = [dials EXCEPT ![p] = @ \ {why}]
  /\ plans' = IF why = "plan" THEN [plans EXCEPT ![p] = Failed(p)] ELSE plans
  /\ lapsed' = StillLapsed(plans')
  /\ marked' = MarkedFailed(p)
  /\ due' = IF p \in Connected THEN due ELSE due \ {p}
  /\ UNCHANGED <<links, targets, bootRelays, relays, circuits, closing, listening, recovering>>

-----------------------------------------------------------------------------
(* Bootstrap targets *)

\* The targets that are dialed, except those the swarm refuses to dial.
Attempted(ps, refused) ==
  [p \in Peer |-> IF p \in ps \ refused THEN dials[p] \cup {"bootstrap"} ELSE dials[p]]

\* The timer bootstrap_retry.
BootstrapRetry ==
  LET late == due \ marked IN
  /\ \E refused \in SUBSET late : dials' = Attempted(late, refused)
  /\ due' = due \ late
  /\ Restore(bootRelays, Connected)
  /\ UNCHANGED <<links, plans, lapsed, targets, marked, relays, closing, listening, recovering>>

\* AddBootstrap: the new target is dialed, whether it is connected or not, and a refresh will
\* set its flag.
AddBootstrap(p) ==
  /\ p \notin targets
  /\ targets' = targets \cup {p}
  /\ \E refused \in SUBSET {p} : dials' = Attempted({p}, refused)
  /\ recovering' = TRUE
  /\ UNCHANGED <<links, plans, lapsed, marked, due, bootRelays, relays, circuits, closing,
                 listening>>

\* Time passes: a plan expires, or the next attempt at a target comes.
PlanExpires(p) ==
  /\ plans[p] # Nothing /\ p \notin lapsed
  /\ lapsed' = lapsed \cup {p}
  /\ UNCHANGED <<links, dials, plans, targets, marked, due, bootRelays, relays, circuits, closing,
                 listening, recovering>>

AttemptDue(p) ==
  /\ p \in targets \ due
  /\ due' = due \cup {p}
  /\ UNCHANGED <<links, dials, plans, lapsed, targets, marked, bootRelays, relays, circuits,
                 closing, listening, recovering>>

\* The steps that neither involve discovery nor tell the dialers an address.
DialingStep ==
  \/ \E p \in Peer :
       \/ \E way \in {"in", "out"} :
            OnConnectionEstablished(p, way, Nothing) \/ OnPeerConnectionClosed(p, way)
       \/ \E why \in dials[p] : OnConnectionEstablished(p, "out", why)
       \/ \E why \in dials[p] : OnOutgoingConnectionError(p, why)
       \/ PlanExpires(p)
  \/ \E p \in Peer : AttemptDue(p)
  \/ \E l \in Listener : OnListenerClosed(l)
  \/ OnNativeListenerClosed
  \/ RequestRecovery
  \/ BootstrapRetry

-----------------------------------------------------------------------------
(* What the loop knows of the swarm.                                       *)

\* The flag of a bootstrap target says whether it is connected, so that it is neither dialed
\* beside its connection nor given up.  A target that was added while it was connected gets
\* its flag with the refresh that was requested.
TargetIsMarked ==
  /\ marked \subseteq Connected
  /\ targets \cap Connected \subseteq marked \/ recovering

\* A circuit listener that was not given up is held by exactly one entry, and an entry names
\* a listener of its own relay: no reservation is forgotten while it takes a place.
CircuitsAreHeld ==
  /\ \A l \in Listener : circuits[l] # Nothing /\ l \notin closing =>
       Cardinality({p \in Peer : bootRelays[p] = l} \cup {p \in Peer : relays[p] = l}) = 1
  /\ \A p \in Peer : \A held \in {bootRelays[p], relays[p]} \ {Nothing} :
       circuits[held] = p /\ held \notin closing

\* Without a native listener a refresh of the network is on its way.
ListenerIsAwaited == listening \/ recovering

NetworkIsHeld == TargetIsMarked /\ CircuitsAreHeld /\ ListenerIsAwaited
=============================================================================
