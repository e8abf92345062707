---------------------------- MODULE Reachability ----------------------------
(***************************************************************************)
(* How a node learns that it can be reached from outside, and what it does  *)
(* while it can (cold_start/reachability.rs, participant_relay.rs, publish  *)
(* of cold_start/runtime.rs and their use in lib.rs, network_task).        *)
(*                                                                         *)
(* An address is confirmed by two observations that come in either order:   *)
(* an AutoNAT server says that it dialed the address, and a connection from *)
(* that server came in on its port.  While an address is confirmed, the     *)
(* node announces it to its swarm, publishes itself as a provider and, if   *)
(* the user consents, relays for others.  Every second a tick puts the      *)
(* three in order; a change of the network or of the NAT status takes all   *)
(* evidence away at once.                                                   *)
(*                                                                         *)
(* Deadlines are the time left, 0 once they have passed; no code tells an   *)
(* entry that has run out from one that is gone.                           *)
(***************************************************************************)
EXTENDS Naturals, FiniteSets

CONSTANTS
  Server,       \* AutoNAT servers
  Address,      \* public direct addresses of this node, all in probe_candidates
  Port,         \* transport and port, as port() returns them
  PortOf,       \* the port of each address
  NativeAddress,\* bound: those that other behaviours may confirm
  Client,       \* peers that may use this node as a relay
  MaxEndpoints, \* MAX_ENDPOINTS
  MatchTtl,     \* 30 s, in units of time in which the tick comes at least once
  ConfirmTtl,   \* 300 s, in the same units
  None

ASSUME AddressAssumption == NativeAddress \subseteq Address /\ PortOf \in [Address -> Port]
ASSUME TtlAssumption == {MatchTtl, ConfirmTtl, MaxEndpoints} \subseteq Nat \ {0}
ASSUME NoneAssumption == None \notin Address

VARIABLES
  \* Witness
  inbound,     \* ports of the direct connections that each server made
  inboundLeft,
  response,    \* the address each server says it reached
  responseLeft,
  confirmed,   \* time left for each address
  owned,       \* owned_external
  \* Participation
  consent,
  reachable,   \* reachable_until
  gate,
  clients,
  \* Discovery
  discovery,   \* FALSE when public discovery is off or could not be restarted
  advertised,
  publication, \* what the running StartProviding query announces
  published,
  retryDue,    \* retry_publish and next_publish have passed
  nextDue,
  \* network_task and what surrounds it
  recovery,    \* the address change that NetworkRecovery waits to handle
  ticked,      \* the tick came in this unit of time
  external,    \* external_addresses of the swarm
  native,      \* those that UPnP, AutoNAT and relays added
  record,      \* what the provider record in the DHT says
  linked,      \* clients with a connection
  accepting,   \* clients whose request passed the gate, its event not yet handled
  reserved,    \* clients that have a reservation or a circuit
  leaving      \* clients that are being disconnected

witnessVars == <<inbound, inboundLeft, response, responseLeft, confirmed>>
announceVars == <<owned, external, native>>
participationVars == <<consent, reachable, gate>>
publishVars == <<discovery, advertised, publication, published, retryDue, nextDue, record>>
relayVars == <<clients, linked, accepting, reserved, leaving>>
vars == <<witnessVars, announceVars, participationVars, publishVars, relayVars, recovery, ticked>>

Fresh == {a \in Address : confirmed[a] > 0}
Enabled == consent /\ reachable > 0

TypeOK ==
  /\ inbound \in [Server -> SUBSET Port]
  /\ inboundLeft \in [Server -> 0..MatchTtl]
  /\ response \in [Server -> Address \cup {None}]
  /\ responseLeft \in [Server -> 0..MatchTtl]
  /\ \A s \in Server : /\ (inbound[s] = {}) = (inboundLeft[s] = 0)
                       /\ (response[s] = None) = (responseLeft[s] = 0)
  /\ confirmed \in [Address -> 0..ConfirmTtl]
  /\ Cardinality(Fresh) <= MaxEndpoints
  /\ {owned, external, native, advertised} \subseteq SUBSET Address
  /\ reachable \in 0..ConfirmTtl
  /\ {consent, gate, discovery, published, retryDue, nextDue, recovery, ticked} \subseteq BOOLEAN
  /\ {publication, record} \subseteq {None} \cup SUBSET Address
  /\ publication # None => discovery /\ publication = advertised
  /\ clients \cup accepting \cup reserved \cup leaving \subseteq linked
  /\ linked \subseteq Client

Init ==
  /\ inbound = [s \in Server |-> {}] /\ inboundLeft = [s \in Server |-> 0]
  /\ response = [s \in Server |-> None] /\ responseLeft = [s \in Server |-> 0]
  /\ confirmed = [a \in Address |-> 0]
  /\ owned = {} /\ external = {} /\ native = {} /\ advertised = {}
  /\ clients = {} /\ linked = {} /\ accepting = {} /\ reserved = {} /\ leaving = {}
  /\ consent \in BOOLEAN /\ discovery \in BOOLEAN
  /\ reachable = 0 /\ gate = FALSE
  /\ publication = None /\ record = None /\ published = FALSE
  /\ retryDue = TRUE /\ nextDue = TRUE
  /\ recovery = FALSE /\ ticked = FALSE

-----------------------------------------------------------------------------
(* Witness *)

\* sync_external, where current are the endpoints confirmed now: what others announced
\* already is not taken over, and only what was taken over is withdrawn.
Sync(current) ==
  LET kept == external \ (owned \ current) IN
  /\ external' = kept \cup current
  /\ owned' = (owned \cap current) \cup (current \ kept)
  /\ UNCHANGED native

HasRoom(address) == Cardinality(Fresh) < MaxEndpoints \/ address \in Fresh

\* What is known of server s now, and matched: a match uses the response up.
Observe(s, ports, portsLeft, address, addressLeft) ==
  LET found == address # None /\ PortOf[address] \in ports IN
  /\ inbound' = [inbound EXCEPT ![s] = ports]
  /\ inboundLeft' = [inboundLeft EXCEPT ![s] = portsLeft]
  /\ response' = [response EXCEPT ![s] = IF found THEN None ELSE address]
  /\ responseLeft' = [responseLeft EXCEPT ![s] = IF found THEN 0 ELSE addressLeft]
  /\ IF found /\ HasRoom(address)
     THEN /\ confirmed' = [confirmed EXCEPT ![address] = ConfirmTtl]
          /\ Sync(Fresh \cup {address})
          /\ reachable' = ConfirmTtl
     ELSE UNCHANGED <<confirmed, announceVars, reachable>>
  /\ UNCHANGED <<consent, gate, publishVars, relayVars, recovery, ticked>>

\* A direct connection from the server came in on this port.
OnConnection(s, port) ==
  Observe(s, inbound[s] \cup {port}, MatchTtl, response[s], responseLeft[s])

\* The answer to a probe, of the node's own AutoNAT or of the discovery client's.
OnProbeResponse(s, address) ==
  Observe(s, inbound[s], inboundLeft[s], address, MatchTtl)

WitnessCleared ==
  /\ inbound' = [s \in Server |-> {}] /\ inboundLeft' = [s \in Server |-> 0]
  /\ response' = [s \in Server |-> None] /\ responseLeft' = [s \in Server |-> 0]
  /\ confirmed' = [a \in Address |-> 0]

-----------------------------------------------------------------------------
(* Participation *)

\* Mutant of Invalidated: the gate waits for the next update.
InvalidatedLater == reachable' = 0 /\ UNCHANGED <<consent, gate>>

Invalidated == reachable' = 0 /\ gate' = FALSE /\ UNCHANGED consent

\* Mutant of Updated: clients are let go when update itself closes the gate.
UpdatedOnClosing(enabled) ==
  /\ clients' = IF gate /\ ~enabled THEN {} ELSE clients
  /\ leaving' = IF gate /\ ~enabled THEN leaving \cup clients ELSE leaving
  /\ UNCHANGED <<linked, accepting, reserved>>

\* update: without consent and evidence, everyone who used the relay is disconnected.
Updated(enabled) ==
  /\ clients' = IF enabled THEN clients ELSE {}
  /\ leaving' = IF enabled THEN leaving ELSE leaving \cup clients
  /\ UNCHANGED <<linked, accepting, reserved>>

\* AutoNAT says Private or Unknown.
OnNatStatus ==
  /\ WitnessCleared /\ Sync({}) /\ Invalidated
  /\ UNCHANGED <<publishVars, relayVars, recovery, ticked>>

\* A request for a reservation or a circuit passes the rate limiters, the gate among them.
Admit(c) ==
  /\ gate /\ c \in linked \ (accepting \cup reserved)
  /\ accepting' = accepting \cup {c}
  /\ UNCHANGED <<witnessVars, announceVars, participationVars, publishVars, recovery, ticked,
                 clients, linked, reserved, leaving>>

\* The relay's event, which observe sees.
OnRelayServer(c) ==
  /\ c \in accepting
  /\ accepting' = accepting \ {c}
  /\ reserved' = reserved \cup {c}
  /\ clients' = clients \cup {c}
  /\ UNCHANGED <<witnessVars, announceVars, participationVars, publishVars, recovery, ticked,
                 linked, leaving>>

Connects(c) ==
  /\ c \notin linked
  /\ linked' = linked \cup {c}
  /\ UNCHANGED <<witnessVars, announceVars, participationVars, publishVars, recovery, ticked,
                 clients, accepting, reserved, leaving>>

OnConnectionClosed(c) ==
  /\ c \in linked
  /\ linked' = linked \ {c}
  /\ clients' = clients \ {c}
  /\ accepting' = accepting \ {c}
  /\ reserved' = reserved \ {c}
  /\ leaving' = leaving \ {c}
  /\ UNCHANGED <<witnessVars, announceVars, participationVars, publishVars, recovery, ticked>>

-----------------------------------------------------------------------------
(* Discovery: the node as a provider *)

\* Mutant of Running: the query goes on when the addresses change.
RunningStill(addresses) == publication

\* The query that announces other addresses is finished, and its result not waited for.
Running(addresses) == IF addresses # advertised THEN None ELSE publication

StillPublished(addresses) == published /\ addresses = advertised

StartsProviding(addresses) ==
  /\ discovery /\ addresses # {}
  /\ Running(addresses) = None
  /\ retryDue /\ (StillPublished(addresses) => nextDue)

Publish(addresses) ==
  /\ IF discovery
     THEN /\ advertised' = addresses
          /\ publication' = IF StartsProviding(addresses) THEN addresses ELSE Running(addresses)
          /\ published' = StillPublished(addresses)
     ELSE UNCHANGED <<advertised, publication, published>>
  /\ retryDue' = (retryDue /\ ~StartsProviding(addresses))
  /\ UNCHANGED <<discovery, nextDue, record>>

\* The end of the StartProviding query: next_publish is 22 hours away, or the query failed.
OnPublication(ok) ==
  /\ publication # None
  /\ publication' = None
  /\ published' = ok
  /\ nextDue' = IF ok THEN FALSE ELSE nextDue
  /\ record' = IF ok THEN publication ELSE record
  /\ UNCHANGED <<discovery, advertised, retryDue, witnessVars, announceVars, participationVars,
                 relayVars, recovery, ticked>>

RetryTimePasses ==
  /\ ~retryDue /\ retryDue' = TRUE
  /\ UNCHANGED <<discovery, advertised, publication, published, nextDue, record, witnessVars,
                 announceVars, participationVars, relayVars, recovery, ticked>>

PublishTimePasses ==
  /\ ~nextDue /\ nextDue' = TRUE
  /\ UNCHANGED <<discovery, advertised, publication, published, retryDue, record, witnessVars,
                 announceVars, participationVars, relayVars, recovery, ticked>>

-----------------------------------------------------------------------------
(* The node *)

Endpoints == IF reachable > 0 THEN Fresh ELSE {}

\* cached_retry, when no change of the network is due.
Tick ==
  /\ Sync(Fresh)
  /\ Publish(Endpoints)
  /\ gate' = Enabled
  /\ Updated(Enabled)
  /\ ticked' = TRUE
  /\ UNCHANGED <<witnessVars, consent, reachable, recovery>>

\* cached_retry, which ends with the recovery from a change: the discovery client is made
\* anew, and gone if that fails.
TickRecovers ==
  /\ recovery /\ recovery' = FALSE
  /\ WitnessCleared /\ Sync({}) /\ Invalidated /\ Updated(FALSE)
  /\ discovery' \in {discovery, FALSE}
  /\ IF discovery
     THEN advertised' = {} /\ publication' = None /\ published' = FALSE
     ELSE UNCHANGED <<advertised, publication, published>>
  /\ retryDue' = (retryDue /\ ~StartsProviding(Endpoints))
  /\ ticked' = TRUE
  /\ UNCHANGED <<nextDue, record>>

\* NewListenAddr, ExpiredListenAddr or ListenerClosed asks NetworkRecovery for a refresh.
AddressChanges ==
  /\ ~recovery /\ recovery' = TRUE
  /\ UNCHANGED <<witnessVars, announceVars, participationVars, publishVars, relayVars, ticked>>

\* UPnP, AutoNAT or a relay confirms an address or takes it back.
NativeConfirms(a) ==
  /\ native' = native \cup {a} /\ external' = external \cup {a}
  /\ UNCHANGED <<owned, witnessVars, participationVars, publishVars, relayVars, recovery, ticked>>

NativeExpires(a) ==
  /\ a \in native
  /\ native' = native \ {a} /\ external' = external \ {a}
  /\ UNCHANGED <<owned, witnessVars, participationVars, publishVars, relayVars, recovery, ticked>>

Less(n) == IF n = 0 THEN 0 ELSE n - 1

TimePasses ==
  /\ ticked /\ ticked' = FALSE
  /\ inboundLeft' = [s \in Server |-> Less(inboundLeft[s])]
  /\ inbound' = [s \in Server |-> IF inboundLeft'[s] = 0 THEN {} ELSE inbound[s]]
  /\ responseLeft' = [s \in Server |-> Less(responseLeft[s])]
  /\ response' = [s \in Server |-> IF responseLeft'[s] = 0 THEN None ELSE response[s]]
  /\ confirmed' = [a \in Address |-> Less(confirmed[a])]
  /\ reachable' = Less(reachable)
  /\ UNCHANGED <<announceVars, consent, gate, publishVars, relayVars, recovery>>

Next ==
  \/ Tick \/ TickRecovers \/ TimePasses \/ AddressChanges \/ OnNatStatus
  \/ RetryTimePasses \/ PublishTimePasses
  \/ \E ok \in BOOLEAN : OnPublication(ok)
  \/ \E s \in Server : \/ \E port \in Port : OnConnection(s, port)
                       \/ \E a \in Address : OnProbeResponse(s, a)
  \/ \E a \in NativeAddress : NativeConfirms(a) \/ NativeExpires(a)
  \/ \E c \in Client : Admit(c) \/ OnRelayServer(c) \/ Connects(c) \/ OnConnectionClosed(c)

Spec == Init /\ [][Next]_vars

\* The tick is an interval of the loop; an event that the swarm has is taken, and a
\* connection that is closed ends.
Fairness ==
  /\ WF_vars(Tick)
  /\ \A c \in Client :
       /\ WF_vars(OnRelayServer(c))
       /\ WF_vars(c \in leaving /\ OnConnectionClosed(c))

FairSpec == Spec /\ Fairness

-----------------------------------------------------------------------------
(* Properties *)

\* The gate of the relay is open only while the user consents and some address is confirmed,
\* or until the tick that follows.  The witness and the participation each keep their own
\* deadlines, which four handlers set and two clear.
RelayIsWitnessed == gate => consent /\ (Fresh # {} \/ ~ticked)

\* The swarm announces what is confirmed, or what others have announced, and what has run
\* out only until the next tick.
AnnouncedIsWitnessed == external \subseteq Fresh \cup native \/ ~ticked

\* What the node offers to others rests on evidence it has.
OfferedIsWitnessed == TypeOK /\ RelayIsWitnessed /\ AnnouncedIsWitnessed

\* The node takes itself for published only if the provider record has the addresses it
\* advertises now: the result of a query that was started for others does not count.
PublishedIsAdvertised == published => record = advertised

Relays(c) == c \in reserved \cup accepting

\* When the node must not relay any more, everyone who relays through it is disconnected,
\* also those whose request passed the gate before it closed (participant_relay.rs, update).
RelayClientsLeave == \A c \in Client : Relays(c) /\ ~Enabled ~> ~Relays(c) \/ Enabled
=============================================================================
