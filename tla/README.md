# Konofix in TLA+

Konofix is a serverless chat: a Tauri desktop program whose Rust half runs one
libp2p swarm (GossipSub, Kademlia, request-response, relays) and whose TypeScript
half shows the result and runs WebRTC calls.  These modules describe what the
program keeps in agreement: its *rooms* (who owns one, who is counted in it, who
may enter it when it is locked), its *sessions* (one at a time, one nickname per
network, and the actors a session owns), its *private messages* and contact chat,
its *files* (how one is offered, sent, claimed, saved and given up) and its
*connections* (whom to dial, what to reserve, what to offer to others and until
when).

Paths are relative to the repository; `lib.rs` is `src-tauri/src/lib.rs` and
the other Rust files are in the same directory.

## 1. Inventory

| Component | State it keeps | Operations | Talks to | What is hard | What makes it correct |
|---|---|---|---|---|---|
| Membership tracker (`room_membership.rs`) | `peers`: peer -> revision and rooms; `rooms`: room -> members; `memberships`, a counter | `apply_snapshot`, `remove_peer`, `remove_room`, `member_count` | called by the runtime | stale, repeated, conflicting revisions; three limits checked on projected values; three structures updated in turn | the structures describe one relation; limits hold; an older snapshot never replaces a newer one |
| Membership runtime and wire checks (`room_membership_runtime.rs`, `_wire.rs`) | known rooms, own revision and rooms, the tracker | register, enter, apply a snapshot, remove a peer, close a room, heartbeat | adapters above, tracker below | snapshots that name unknown rooms; closing the room one is in | nobody is counted in an unknown room; own revisions only grow; nodes converge |
| Membership adapters (`_desktop`, `_network`, `_live`, `_application`, `_production`) | none of their own | the same, with framing and JSON | `network_task` | last connection's end versus one of several | they pass on exactly what happened |
| `network_task`, rooms and presence (`lib.rs`) | `rooms`, `owned_rooms`, `membership`, `membership_seen`, `peers`, `secure_runtime`, `secure_client`, `pending_room_authorizations` | commands of the user, GossipSub messages, request-response events, swarm events, heartbeat and cleanup ticks | all of the above, the UI by events | nine tables that partly repeat one another, each handler updating some of them | tables agree; counts shown are counts; owners keep rooms; the silent disappear |
| Room lock at the owner (`room_password_state.rs`) | revision, verifier, grants, attempt limiter | create, `update_password`, `authorize_join`, `is_authorized`, `prune` | secure-control runtime | grants across password changes, expiry, windows | only those who know the present password hold a grant |
| Secure-control runtime and transport (`secure_control_runtime.rs`, `secure_control_transport.rs`, `secure_channels.rs`) | locks by room, replay cache, private-message windows | handle a control request, prune | owner's lock, private messages | replay, rate limits, order of checks | each message accepted once |
| Secure-control client (`secure_control_client.rs`) | observed locks, authorized revisions, pending requests | observe, forget, track, cancel, handle a response | `network_task`, the remote owner | responses that cross a change | authorized only for the lock the join was made under |
| Nickname leases and chat (`lib.rs`) | canonical nick, session age; nothing for chat | claims over GossipSub, conflict check; a record in the DHT that is a hint only; chat admission | GossipSub, Kademlia | two claimants, each with its own clock | one of two stays, and never neither |
| Session lifecycle (`lib.rs`, `knp_chat_commands.rs`) | `AppState`: command sender, KNP runtime, KNP chat | start, disconnect, start and stop a chat, end of the task | UI commands, `network_task`, the two actors | a late task clearing a new session; commands that hold a gate over awaits | one session; nothing of an old one survives; the gate returns |
| Private messages | replay cache, windows, pending acknowledgements | send, validate, acknowledge | the control channel, presence | lost acknowledgement, repetition | shown once, reported truly, always answered |
| File transfer (`lib.rs`, `incoming_file.rs`) | `pending_incoming`, `incoming`, `outgoing`, public offers, files on disk | offer, accept, chunk, complete, cancel, expire | request-response, the disk, UI | either side may cancel, expire or vanish at each step | complete means identical; slots and temporary files are released |
| Direct and relay file reception (`lib.rs`, `incoming_file.rs`, `src/peer-transport.ts`) | `rtc_incoming_files`, the download folder, the sessions of PeerTransport | begin, write, finish, close, save; reserve and promote a file | the file system, WebRTC, other programs | commands that run at once and use names taken down earlier | nothing overwritten, only verified files saved, no part left |
| Dialing, routes, relays (`direct_first.rs`, `connection_routes.rs`, `participant_relay.rs`, `network_recovery.rs`, `bootstrap_pool_policy.rs`) | plans with timers, bootstrap targets, reservations, the relay's clients | dial, connected, closed, refresh, tick | swarm | maps kept beside the swarm by many handlers | what is kept is what is; nothing is forgotten while it takes a place |
| Cold start (`cold_start.rs`, `cold_start/`) | accepted advertisements, pending requests, contacts; witness, publication | look up, ask, accept, expire; observe, publish | Kademlia, AutoNAT, request-response | bounded caches, stale evidence, results of superseded queries | signed addresses used only while signed; offers rest on evidence |
| KNP chat (`knp_chat*.rs`, `kononexus_transport.rs`) | contacts, pending, history; the transport's queue | contact, send, stop, acknowledge, give up | external SDK | two loops that wait for one another; receipts, acknowledgements and timers in any order | the history is true; every command is answered |
| Group voice (`src/group-voice.ts`) | world queue, turns, sessions, memberships with epochs | request, release, offer, leave, tick | peer transport, world relay | contention without an arbiter; late releases | one speaker, everyone gets a turn |
| Peer transport, calls (`src/peer-transport.ts`) | call sessions, early candidates, tombstones | call, accept, close, signal | WebRTC | signals out of order | a closed call stays closed |
| World relay (`src/world-relay.ts`) | seen events, pending encrypted events, presence | publish, receive, reconnect | public relays | duplicates, unknown senders | each event handled once |
| Private-chat and room UI, main window, localisation, updater, audio | view state | event handlers | all of the above | - | - |
| Headless node, probe, scripts, CI | - | run the same stack | - | - | - |

`PROJECT.json` lists the same components with what is modelled of each, and the
hazards of the code, line by line, with the properties that would catch them.

## 2. The modules

```
RoomMembershipTracker          values of the tracker and its operations
  └ RoomMembershipRuntime      values of the runtime and its operations
      ├ RoomDirectory          one node: network_task's rooms
      └ MembershipGossip       several nodes
          └ MembershipView     what they promise (abstract)
ProtectedRoomState             a room's lock at its owner
SecureControlClient            the joining side
  (both used by RoomDirectory and)
RoomAuthorization              one locked room, its owner and the joiners

Presence                       sessions and nicknames
  └ PrivateMessages            private messages between them

NetworkSession                 AppState, the sessions and the actors of one program
KnpChat                        contact chat: two loops per node

FileTransfer                   several nodes, private and shared files
  └ FileDelivery               what they promise (abstract)
IncomingFiles                  direct and relay downloads, one folder

Dialing                        plans, targets, reservations, recovery
  └ ColdStart                  lookups, advertisements and contacts, on top of it
Reachability                   witness, participation, publication
```

The proofs are beside them:

| Module | Theorems about |
|---|---|
| `RoomMembership_proofs` | lemmas on the operators of the tracker and the runtime |
| `RoomDirectory_proofs` | `RoomDirectory` |
| `MembershipGossip_proofs` | `MembershipGossip`, and that it implements `MembershipView` |
| `RoomAuthorization_proofs` | `RoomAuthorization` |
| `Messages_proofs` | `Presence`, `PrivateMessages` and `KnpChat` |
| `FileTransfer_proofs` | `FileTransfer`, and that it implements `FileDelivery` |
| `IncomingFiles_proofs` | `IncomingFiles` |
| `Network_proofs` | `NetworkSession`, `Reachability`, and `Dialing` with `ColdStart` |

The three lower modules of the first group hold *operators on values*, one per
method of the Rust type, so that the same definitions serve one node
(`RoomDirectory`), many nodes (`MembershipGossip`) and the two ends of a join
(`RoomAuthorization`), and so that lemmas about them are proved once.

### Rooms

**`RoomMembershipTracker`** keeps the three structures of the Rust type
separate.  `SnapshotVerdict` has the checks in the order of the code, `Projected`
the counter the code computes before it changes anything, `Reindexed` and
`Recounted` its two loops.  A list of rooms is the set of its identifiers; a list
that names one twice is refused like a list with an invalid one.

**`RoomMembershipRuntime`** adds the registry, the local revision and the
checks on a received snapshot, and what the five adapters above it decide:
nothing is published before the first revision, and a disconnect counts when no
connection is left.

**`RoomDirectory`** is the state of `network_task` that concerns rooms: eight
of its local variables as VARIABLES, and `aged`, the membership leases that have
not been renewed for some time.  The task runs one arm of its
`select!` loop to the end before it takes the next, with no await between two
writes of these variables, so a handler is one action:

| Action | Code |
|---|---|
| `EnterRoom`, `CreateRoom`, `UpdateRoomPassword`, `AuthorizeRoomEntry` | the `NetworkCommand` arms, lib.rs:3641-3808 |
| `OnPresence`, `OnGoodbye`, `OnSnapshot`, `OnRoomCreate`, `OnRoomClose` | the `WireEvent` arms, lib.rs:4429-4641 |
| `OnJoinRequest`, `OnJoinResponse`, `OnJoinFailure` | the secure-control arms, lib.rs:4647-4734 |
| `OnConnectionClosed` | lib.rs:4162 |
| `MembershipLeaseExpires`, `PresenceLeaseExpires`, `GrantExpires`, `WindowPasses` | the cleanup tick, lib.rs:3517-3545 |
| `LeaseAges` | time, between a renewal of `membership_seen` and the tick |

The environment is any authenticated network: each announcement and snapshot of
two constant sets may arrive at any time, repeatedly or never.  Every remote
message is already bound to its signer, as the code checks before these arms;
the one thing assumed of remote owners is that they do not announce two lock
flags for one revision (`Consistent`), which the lock's code guarantees.  An
action that changes nothing in the code (a refusal) is a disabled action.  A
snapshot that is *accepted* without changing anything (stale, repeated or in
conflict) is not one: it renews its sender's lease (lib.rs:4591-4593), which takes
the peer out of `aged`, and only an aged lease expires.

**`RoomAuthorization`** has both ends of one room.  Announcements are a set
that only grows: any of them may be delivered at any time, which is what
GossipSub and the repeated heartbeat allow.  Requests and responses are in
flight in `asked` and `answered`; a timeout may come before or after the owner
has taken the request.  A stopped or crashed owner keeps nothing: `network_task`
generates its key when it starts (lib.rs:3109), so `Restart` takes the next of
the `Incarnation` identities.  `tried` and `lapsed` are auxiliary: no action
reads them.

**`MembershipGossip`** runs the membership runtime at every node.  `published`
grows; heartbeats are deliveries of the sender's *current* snapshot.

**`MembershipView`** is the abstract specification: commitments, views of
them, and counts.  A view is a commitment somebody made, moves only forward
while it is held, may be lost or narrowed by closing a room, and the counts are
the number of peers viewed.  It knows no tracker, index, counter or message.

### Sessions and messages

**`Presence`** is who is online and who keeps a nickname.  A session is new,
running, stopped by its user or gone on a conflict; it has an age, and at each
heartbeat publishes it with its nickname.

| Action | Code |
|---|---|
| `Start` | `network_task` begins, with an identity made for it |
| `OnPresence`, `OnNickClaim` (with `Conflicts`, `Wins`) | lib.rs:4429-4466, 4486-4505; `check_nick_conflict`, 2939 |
| `OnGoodbye`, `PresenceExpires` | lib.rs:4467, the cleanup tick |
| `Stop`, `Leave` | `NetworkCommand::Stop`; the `break` of a conflict, which says nothing to anybody |

A claim is any age its session has had (`Claimed`): delivered late, again, or
never.  Peer IDs are numbers, so that `<` is their order.  Nothing is assumed of
the tie window and the delay beyond their being numbers, so the proofs hold for
every relation between the two.

**`PrivateMessages`** adds the control channel.  A message is one request and
its answer.  The sender's three maps (`tracked`, `outbound`, `awaited`) are kept
by different handlers; the receiver's checks are in the order of
`accept_private_message`: policy, presence, the message itself, the window, the
replay cache.

| Action | Code |
|---|---|
| `SendPrivateMessage` | `NetworkCommand::SendPrivateMessage` |
| `OnResponse`, `OnOutboundFailure` (with `Reply`, `Answered`, `Cancelled`) | the secure-control arms and `handle_response`, `cancel_pending` |
| `OnPrivateMessage` (with `Accepted`, `Remembered`) | the request arm, `accept_private_message`, `ReplayCache::accept` |
| `SetPrivateMessagesEnabled` | its command |
| `RateWindowPasses`, `ReplayExpires`, `MessageAges` | the limiter's window, the cache's and the message's age |

**`NetworkSession`** is `AppState`.  Four commands take `session_gate` and keep it
until they return, so one record, `call`, is the command in progress; the task of
a session ends without the gate.  Each action is one section of the code between
two awaits or under one lock.

| Action | Code |
|---|---|
| `StartNetwork`, `StartFails`, `StartReturns`, `SpawnKnp`, `InstallKnp` | `start_network`, `install_kononexus_if_current` |
| `TaskReady` ... `TaskLeaves`, `TaskClears`, `TaskTakesChat`, `TaskEndsChat`, `TaskEnds` | the spawned task and its end, `clear_network_session_if_current`, `take_knp_chat_for_owner` |
| `Disconnect`, `DisconnectTakesChat`, `DisconnectStops`, `CallEndsKnp`, `CallEndsChat` | `disconnect_network` and the ends other commands share |
| `StartChat`, `SpawnChat`, `ChatRefused`, `InstallChat`, `SnapshotFails`, `StopChat` | `start_knp_chat`, `stop_knp_chat` |
| `ChatStops`, `ChatCloses`, `ChatReleases`, `KnpStops`, `KnpCloses`, `KnpEnds` | the ends of the two actors' loops |

An actor ends in one of two ways.  One that takes a Stop is "stopping" until it has
let go of all it owns, and then answers ("released", "gone").  One that ends by itself is
"closing": it closes its commands first (knp_chat.rs:354, kononexus_transport.rs:292),
so that `shutdown` finds nobody to send to, or loses its reply, and returns at once
(`ChatDown`, `KnpDown`; knp_chat.rs:187-192, kononexus_transport.rs:191-201), while
a chat's profile is locked for a moment longer (knp_chat.rs:359).

**`KnpChat`** is what those actors do while they run: at each node a chat and a
transport, with a bounded queue of events from the second to the first and an
answer to each command of the first.  The chat waits for the answer in the middle
of a command (`chat[n]` says for which) and takes nothing meanwhile.

| Action | Code |
|---|---|
| `TakeContact`, `TakeSend`, `TakeStop`, `Resume` | the command arm of `run` in knp_chat.rs, before and after the await |
| `TakeEvent` (`OnMessage`, `OnAck`, `OnReceipt`), `EventsClosed` | the event arm |
| `GiveUp` | the timer of the 30 s |
| `TransportCommand`, `TransportEvent`, `TransportEnds` | the loop of kononexus_transport.rs |

The SDK is external: what is in `wire` may be delivered at any time, any number
of times, and each message has one receipt, true or not.

### Files

**`FileTransfer`** is the state of `network_task` that concerns files, at every
node:

| Action | Code |
|---|---|
| `OfferFile`, `AcceptFile`, `TurnDown`, `CancelFile`, `PublishShare`, `ClaimShare` | the `NetworkCommand` arms, lib.rs:3853-4108 |
| `OnOffer`, `OnClaimedOffer`, `RefuseOffer`, `OnClaimPublic`, `OnChunk`, `OnWrongChunk`, `OnComplete`, `OnCancel` | the `FileRequest` arms, lib.rs:4750-5155 |
| `OnResponse` (with `SendNextChunk`), `OnOutboundFailure` | lib.rs:5157-5315 and 3022-3089 |
| `OnPublicFileOffer`, `OnConnectionClosed` | lib.rs:4529, 4162 |
| `IncomingExpires`, `TurnDown`, `ShareExpires` | the cleanup tick, lib.rs:3547-3619 |
| `Leave` | `Stop`, lib.rs:4109; the nickname-conflict exits; a crash |

`inFlight` are requests on their way, in any order; `answers` are responses on
their way back; `tracked` is `outbound_requests`.  libp2p reports one outcome for
each request: `OnResponse`, or `OnOutboundFailure`, which may happen at any time,
whether or not the other end has handled the request.  An outcome of a request
that is not tracked is ignored by the code, so the model drops it; a Cancel's
outcome is nothing to anybody.  `Refused` stands for Rejected, Error and
Complete { verified: false }: no sender acts differently on them.  A chunk is its
number in what the sender *read*; since the file may change after it was offered,
`SendNextChunk` may read more or fewer chunks than were announced, and may fail.
The hash of a Complete is the number of chunks read.  `parts` are the
`.konofixpart` files: a failed write leaves a torn chunk (0) in one.
`offered`, `agreed`, `claimed` and `taken` are auxiliary.

**`FileDelivery`** is the abstract specification: nothing is saved that the
receiver did not agree to, what is saved is saved once and whole, and the
sender is told once how a transfer ended, with success only after the file is
saved.

**`IncomingFiles`** has the downloads that do not go through `network_task`, call
by call to the file system.  Tauri runs these commands at once on a pool of
threads; they hold the lock of `rtc_incoming_files` only for a moment and address
files by name.  `names` is the folder, `disk` what is in the files; a file that
lost its name is out of sight.

| Action | Code |
|---|---|
| `AcceptFile`, `Accepted`, `RejectFile`, `RejectEnds`, `SessionEnds`, `ReceiveChunk`, `FinishReceive` | `acceptFile`, `rejectFile`, `cancelFile`, `failSessionFiles`, `receiveWire` of peer-transport.ts |
| `ConnectionFails`, `Stop` (with `Abandon`) | a connection or ICE state that is "failed" (peer-transport.ts:652-659, 965-982); `stop()` (156-176), called when the network session is over (main.ts:1240-1243) |
| `ReservePart`, `PartIsTaken`, `FinalIsFree`, `FinalIsTaken`, `ReserveFails` | `reserve_incoming_file` |
| `InsertTransfer`, `OpenPart`, `AppendChunk`, `WriteFails`, `Verify`, `VerifyFails` | `begin_rtc_file_receive`, `write_rtc_file_chunk`, `finish_rtc_file_receive` |
| `CloseTakes`, `CloseRemoves` | `close_rtc_file` |
| `SaveRelayFile`, `SaveData`, `SaveFails` | `save_relay_file` |
| `Link`, `LinkUnsupported`, `CreateCopy`, `CopyData`, `CommitFails`, `RemovePart` | `commit_reserved_file` |
| `OtherCreates` | another program; the parts of a run that crashed |

The two ways in which a session ends without a call of `close_rtc_file` leave an
accepted transfer on record; `abandoned`, an auxiliary variable like `rejected`, says
of which.

### Connections

**`Dialing`** is how a node gets and keeps connections, **`ColdStart`** what
the public DHT adds to it; the first has no specification of its own.  The swarm
is external: it has dials and connections, and reports the end of each.

| Action | Code |
|---|---|
| `OnConnectionEstablished`, `OnPeerConnectionClosed`, `OnOutgoingConnectionError` | the swarm events, lib.rs:4139-4300; `connected`, `failed` of `DirectFirstDials` |
| `OnListenerClosed`, `OnNativeListenerClosed`, `RequestRecovery` | `ListenerClosed`, the listen addresses, `RefreshDiscovery` |
| `BootstrapRetry`, `AddBootstrap` (with `Restore`) | the timer, the command, `restore_bootstrap_relays` |
| `CachedRetry`, `CachedRetryRecovers` (with `Driven`, `Lost`) | the timer `cached_retry`: `Discovery::tick`, contacts, `DirectFirstDials::drive`, `NetworkRecovery` |
| `OnProviders`, `OnLookupEnd`, `OnNoAnswer`, `OnCandidate` | `Discovery::next` and the `Candidate` arm |
| `OnIdentify` (with `Listed`, `OpenRelay`) | the Identify arm |
| `OnMdnsDiscovered`, `OnMdnsExpired` (with `Given`) | the mDNS arms |
| `PlanExpires`, `AttemptDue`, `AdExpires` | time |

`book` has the addresses of each peer that were given to the behaviours that dial (kad,
file_transfer, secure_control) and not taken back; `unsigned`, which no guard reads,
those of them that came without a signature: from mDNS, from the configured targets,
from the plan of a remembered peer, or from Identify before the peer was a contact.
Addresses are taken back by value, whoever gave them (`TakenBack`).

**`Reachability`** is the other direction: how a node finds out that others can
reach it, and what it offers while they can.

| Action | Code |
|---|---|
| `OnConnection`, `OnProbeResponse` (with `Observe`, `Sync`) | `Witness` and `sync_external`, cold_start/reachability.rs |
| `OnNatStatus`, `AddressChanges`, `TickRecovers` | AutoNAT, the listen addresses, the recovery in `cached_retry` |
| `Tick` (with `Publish`, `Updated`) | `cached_retry`: `publish` of cold_start/runtime.rs, `update` of participant_relay.rs |
| `OnPublication`, `RetryTimePasses`, `PublishTimePasses` | the StartProviding query and its timers |
| `Admit`, `OnRelayServer`, `Connects`, `OnConnectionClosed` | the relay's rate limiter (the gate), its events as `observe` sees them, connections |
| `NativeConfirms`, `NativeExpires` | UPnP, AutoNAT and relays on their own |

Deadlines are the time left, in units in which the tick comes at least once.

## 3. What is checked

| Run | Instance | Properties |
|---|---|---|
| `directory_counts` | 3 peers, 2 rooms, all snapshots of 2 revisions, every limit at its smallest value that lets the interesting case through | `TypeOK`, `MembershipConsistent`, `RegistryIsTable`, `LeaseCoversMembers`, `CountsKept`, `OwnerOnlyChangesByClosing` |
| `directory_locks` | 3 peers, 1 room id all of them claim, 2 passwords, 2 join ids | `OwnerKeepsRoom`, `LockedRoomAdmitsGranted`, `CountsDrain` |
| `authorization` | owner with 2 identities, 1 joiner, 2 passwords, 2 request ids | `AuthorizedMeansGranted`, `GrantsAreEarned`, `CurrentRoomCanBeJoined` |
| `gossip` | 3 peers, 1 room, 2 revisions a peer | `ViewsAreSound`, `KeepsView` (refinement of `MembershipView`), `Converges` |
| `session` | 2 sessions, 2 chats, 1 profile | `ActorsAreReachable`, `ShutdownFreesProfile`, `SessionsEnd`, `GateIsReleased` |
| `private_messages` | 2 sessions, 2 nicknames, 2 messages, every limit 1 | `RivalsAgree`, `MessageStateIsSound`, `DeliveredWasShown`, `ShownOnce`, `RivalsPart`, `CallersAnswered` |
| `knp_chat` | 2 nodes, 1 message, every capacity 1 | `HistoryIsTrue`, `QueuedIsAwaited`, `CommandsAnswered` |
| `file_transfer` | 2 nodes, 1 slot each way, a private file of one chunk and an empty shared file | `TransfersAreSound`, `Delivers` (refinement of `FileDelivery`), `SlotsReturn` |
| `incoming_files` | 2 direct transfers, 1 relay download, 1 file of another program, 2 names to try, 2 chunks; sessions that end in each of their ways | `SavedIsVerified`, `FolderIsSound`, `NothingOverwritten` |
| `reachability` | 1 AutoNAT server, 2 addresses (TCP and QUIC) and room for one, 1 relay client | `OfferedIsWitnessed`, `PublishedIsAdvertised`, `RelayClientsLeave` |
| `cold_start` | 1 peer in any role, 2 offers of an advertisement, 2 circuit listeners, every limit 1 | `NetworkIsHeld`, `ContactsAreSound`, `DialsAreLive` |
| `directory_lockout` | smallest that shows it; a violation | `OwnerIsAuthorized` (section 6) |

What they show of the hazards, beyond the rooms and transfers described above:

* **Sessions.**  `clear_network_session_if_current` and
  `install_kononexus_if_current` compare channels before they touch `AppState`;
  `ActorsAreReachable` says that thereby no running task is out of the reach of
  Stop, no actor that runs is forgotten, and nothing installed is of another
  session.  `ShutdownFreesProfile` is about the order in which the chat's actor
  ends: when a command that shut a chat down returns, no chat has the lock of its
  profile, except one that ended by itself (section 6); `SessionsEnd` includes the actors that were being started when their
  session ended; `GateIsReleased` is the absence of a deadlock among the
  commands, which wait for actors that end by themselves.
* **Nicknames.**  `RivalsAgree` is safety (two rivals never leave on account of
  one another, and the elder never leaves for one that is younger by more than
  the window), `RivalsPart` liveness.  For *two* rivals at a time this is all the
  rule gives: it is not transitive.  Three sessions with ages 0, W and 2W and
  increasing Peer IDs can all leave, each for another.
* **Private messages.**  `ShownOnce` allows a repetition only after the cache
  has had to drop the entry for others; `MessageStateIsSound` has what a refusal
  must leave behind (nothing, so that the message may be sent again), and that
  the sender's three maps are about the same messages.
* **Contact chat.**  `CommandsAnswered` is the absence of a deadlock between two
  loops that wait for one another; it holds because the transport takes commands
  also when the queue of events is full.
* **Downloads.**  `NothingOverwritten` and `SavedIsVerified` allow one thing
  each that the code does (section 6).  `FolderIsSound` says who will remove each
  part, with sessions that end, offers that are rejected and transfers that are
  closed at any point of the commands: a command that works on it or, once its
  transfer is on record, a call of `close_rtc_file`, which has been made or will be
  when the session ends.  The two exceptions are named and marked: `rejected`,
  while the acceptance was under way, and `abandoned` by a session that ended without
  its files.  Even these are on record, so that no part is beyond the reach of
  `close_rtc_file`; and a session that is abandoned while its acceptance is under way
  leaves no part at all.
* **Offers to others.**  `OfferedIsWitnessed` and `RelayClientsLeave` are about
  four copies of what is confirmed (witness, participation, swarm, gate);
  `PublishedIsAdvertised` about a query's result that comes late.
* **Dialing.**  `NetworkIsHeld` compares the maps with the swarm;
  `DialsAreLive` says that what was signed is dialed only while it is signed, though
  plans wait.  `ContactsAreSound` says what is in use of a contact: its signed addresses
  and, beside them, only those that somebody gave without a signature; its relay, only
  if it was signed; and that nothing signed is left of a contact given up.

### Bounds, and why they are enough

* *Rooms and peers.*  A handler touches one peer and its rooms; the tables
  couple two rooms only through the limits, and two peers only in one room's
  index and count.  Two rooms and two remote peers give every such coupling.
  `gossip` needs the owner, a member and an observer: three peers.
* *Limits.*  `MaxRoomsPerPeer`, `MaxMemberships`, `MaxPeers`, `MaxRoomsTotal`
  and `MaxRoomsPerOwner` are 1 or 2, so every run is *at* its limits most of
  the time; the code's 64, 16384, 2048, 256 and 16 never would be.
* *Revisions.*  `RemoteSnapshot` has two revisions (a newer and an older one),
  `MaxLocalRevision` and `MaxRevision` let a peer enter and leave.  They bound
  the guards of the actions that take a revision and nothing else.
  `directory_locks` has `Settled`: peers that entered all rooms for good, and the older
  snapshot of one of them, whose repetition renews a lease and takes nobody out.
* *Locks.*  `MaxLockRevision` lets a password change once or twice,
  `MaxAttempts` is 1: the limiter is at its limit after one attempt.
* *Sessions.*  A late end needs an old and a new session, an exchange of chats
  an old and a new chat, a profile that is not free yet one profile.
* *Messages.*  One session writes; two messages are one to fill window and cache
  and one to find them full; `MaxShown` 3 lets each appear and one appear again.
  `Window` 0, `MinDelay` 0 and `MaxAge` 1 give the three orders of two ages
  (older, as old, younger); the proofs of `Messages_proofs` cover all others.
* *Chat.*  One message, one contact and one place in every queue: both loops are
  at the point where they wait for each other as soon as anything happens.
  `UserCalls` gives one user the three commands and the other the adding of a
  contact, without which nothing is accepted.
* *Files.*  With one slot each way a private and a shared file contend for it at
  both ends.  A file is announced with one chunk but may be read as none, one or
  two, which gives the chunk that is one too many and the hash of a shorter file;
  the empty shared file is completed without a chunk.  `MaxClaims` 1 and two
  transfer ids bound what users start, and nothing else.
* *Downloads.*  All meet in one name.  Two transfers and a relay download want
  three names and there are two, so each may find the first taken, the second
  taken, or none left; two chunks are needed to be closed between them.
  `OneLeft`: of the two transfers at most one is rejected or abandoned after it was
  accepted; the other, which goes on, is the one it could harm.
* *Reachability.*  Two addresses with room for one, so that one is replaced;
  deadlines of one and two units, so that evidence runs out before, with and
  after what rests on it.
* *Dialing.*  The handlers are about one peer; peers are coupled by the limits
  alone.  One peer is a target, a remembered peer, a participant or all of
  these; two listeners are the most it holds at once.  `Advertised` is `Offers`: all
  endpoints with a relay, or circuits alone, so that an advertisement may widen or
  narrow the one before.  `Few` allows the peer two connections and dials under way at a
  time, of any kind: a dial that a connection of either direction overtakes, two
  connections of which one closes, a plan's dial beside a target's.  An instance with two
  peers is too large to be explored: what couples peers is left to the proof.
* *Symmetry* is used in `authorization` (request ids, passwords, owner
  identities), `cold_start` (listeners) and `incoming_files` (transfers), on
  values the modules compare for equality and nothing else; no liveness is
  checked in those runs.
* *Deadlock* is not checked where the system may really stop: all has been
  said, sent or closed that the bounds allow.

### Fairness, and why the code justifies it

* `WF(LeaseAges(p))`, `WF(MembershipLeaseExpires(p))`: time passes, and the cleanup
  tick fires every eight seconds for as long as the task runs and expires each
  entry older than `PRESENCE_TTL_SECS`.  Between the two a renewal takes the lease back
  to where it was, so a peer that renews it again and again never expires, in the
  model as in the code: weak fairness demands nothing of an action that is
  disabled again and again.  `CountsDrain` therefore has two exceptions.  A peer may be
  counted for as long as something is heard from it (`[]<><<FromPeer(p)>>_vars`); and a
  member without a grant for as long as it repeats an accepted snapshot that does not
  name the room and does not take it out (`[]<><<RenewedWithout(p, r)>>_vars`).
  Heartbeats that name the room are dropped before they renew anything, and may go on
  for ever.
* `WF(OnHeartbeat(n, p))`, `WF(OnRoomCreate(n, r))`: each node repeats its
  snapshot and its rooms every heartbeat under a new GossipSub message id, so a
  delivery that stays possible happens.  This is the assumption that the two
  nodes are connected again and again; `Converges` says what follows, and does
  not assume that nothing is lost in between.
* `Presence`: time passes, and a claim as fresh as can be is delivered again and
  again, for the same reason.  `PrivateMessages` adds
  `WF(OnResponse \/ OnOutboundFailure)`: libp2p reports one outcome of a request
  at the latest when its timeout has passed.
* `NetworkSession`: tasks and actors are run by the executor (`TaskReady \/
  TaskFails`, `TaskStops`, the steps of a task's end, `KnpEnds`,
  `ChatReleases`), an actor that is asked to stop reads that request (`ChatStops`,
  `KnpStops`), and a command goes on when what it awaits is there (`CallNext`).  Nothing makes a
  user give a command, a task leave by itself or an actor fail.
* `KnpChat`: strong fairness for taking commands, because tokio's `select!`
  picks at random among the arms that are ready, so a command that waits while
  events keep coming is taken; weak fairness for `Resume` and
  `TransportCommand`, which stay possible once they are.  Nothing is assumed of
  the SDK.
* `WF(Concluded(n, t))`: libp2p reports the outcome of each request, at the
  latest when the timeout of 300 seconds (lib.rs:3173) has passed.
  `WF(TurnDown(n, t))`, `WF(IncomingExpires(n, t))`: the cleanup tick ends an
  unanswered offer and a transfer without chunks.  Nothing is assumed about
  requests, responses, users, or the other node.
* `Reachability`: `WF(Tick)`, an interval of the loop; `WF(OnRelayServer(c))`, an
  event the swarm has is taken; and a connection that is being closed closes.
* `ColdStart` and `IncomingFiles` state no fairness: they are checked for safety
  only.
* Nothing is assumed about users, disconnects, announcements of other
  incarnations, responses or joins.

### Mutants

Each property of each passing run has a mutant of the code it depends on,
written as an operator next to the definition it changes: a forgotten index, a
snapshot that keeps the rooms it no longer names, a heartbeat of an empty
membership left out, grants that survive a password change, a lock that admits on
anybody's grant, a response credited to the revision of the moment, a lease
dropped without its membership, a transport installed without asking whose
session it is, a reply to Stop before the lock file is closed, a tie that age
decides again, a replay cache asked before the limiter, an answer that does not
say what became of the message, an actor that waits for room before anything
else, a rename in place of a hard link, a channel that is not looked at again
after an await, a gate that closes one tick late, a query that goes on when the
addresses change, a plan that survives its advertisement, a refresh that is not
tried again, and so on.

## 4. What is proved

The eight proof modules of section 2 hold the theorems; tlapm checks them to the
last leaf.  Each inductive invariant was checked as an invariant of the component's
instance before it was proved.  What is assumed is named under each component and is about constants
only.

### The room directory

For every finite set of peers and rooms, every set of announcements and
snapshots and every value of the limits.

*The invariant.*  `Inv` in `RoomDirectory_proofs` is the conjunction of the
types, of the soundness of the bridge (tracker typed, index and counter matching
the per-peer sets, limits kept, members only in known rooms), of the agreement of
registry and table, of `owned` and `locks`, and of the leases.  None of
`MembershipConsistent`, `RegistryIsTable` or `LeaseCoversMembers` is inductive on
its own: a closed room leaves no member behind only because the index holds
exactly the members of the per-peer sets, and it is in the table only because it is
in the registry.

*The argument.*

1. `RoomMembership_proofs` proves, operator by operator, that a sound tracker
   stays sound.  The crux is `RecountedPairs`: adding to the counter for each
   index entry really inserted, and subtracting for each really removed, gives
   the cardinality of the new relation (`RowCardinality` splits the relation by
   peer).  `ReplacedSound`, `RemovePeerSound`, `RemoveRoomsSound` follow, then
   the same for the runtime.
2. `RoomDirectory_proofs` has one lemma per action (or per group of actions that
   change the same variables), then `NextKeepsInv`, which also proves
   `OwnersKept`, the step that `OwnerOnlyChangesByClosing` is about.
3. `CountsKept`: a count is written only for the rooms the bridge reports, so the
   lemmas of "Who is in a room after an operation" show that every room whose
   members a snapshot, a departure or a closing changes is among them.
4. `LockedRoomAdmitsGranted`: only a snapshot brings anybody in, and it is tested
   against the copy in `owned_rooms`; `OwnLocks`, inductive with `Inv`, says that this
   copy agrees with the lock of `secure_runtime` on whether the room is locked.
5. The temporal theorems combine these by PTL.

| Theorem | Property |
|---|---|
| `TypeCorrect` | `TypeOK` |
| `MembershipStaysConsistent` | `MembershipConsistent` |
| `RegistryStaysTable` | `RegistryIsTable` |
| `LeasesCoverMembers` | `LeaseCoversMembers` |
| `OwnRoomsStayOwn` | `OwnerKeepsRoom` |
| `FirstOwnerKeepsRoom` | `OwnerOnlyChangesByClosing` |
| `CountsAreKept` | `CountsKept` |
| `LockedRoomsAdmitGranted` | `LockedRoomAdmitsGranted` |

Assumptions: `FiniteIdentities` and `TrackerLimits` (RoomMembershipTracker),
`RuntimeLimits` (RoomMembershipRuntime), `DirectoryAssumption` (RoomDirectory).

### Membership gossip

For every finite set of peers and rooms and every limit.  Every action replaces one
node's runtime by an operation of it.  `Evolves(before, after, made)` says all that
an operation may do to the node: its own rooms change only with its next revision
(`LocalFollows`), and each view it has of another peer is one it had, perhaps
narrowed by closed rooms, or a later commitment among `made` (`ViewsFollow`).  One
lemma per operation (`RemoteAppliedEvolves`, `PeerDepartedEvolves`,
`RoomsClosedEvolves`, ...) shows this from the lemmas of `RoomMembership_proofs`, and
both results need nothing else of the operations.

*The invariant.*  `ViewsAreSound` is inductive only with `RevisionsArePublished`: the
present revision of each node was published with its present rooms and none later
was, so that a commitment names one set of rooms.

*The refinement.*  `RuntimesKeepView` proves that `Spec` implements
`MembershipView!Spec`, where a view is what the runtime has at hand and the counts
shown are those of the index.  `StepView` maps each step to `View!Step` or a
stutter; `CountIsShown` is where the index and the views meet: the cardinality the
room list shows is that of the peers whose view has the room.

| Theorem | Property |
|---|---|
| `ViewsStaySound` | `ViewsAreSound` |
| `RuntimesKeepView` | `KeepsView` (refinement) |

Assumptions: `FiniteIdentities`, `TrackerLimits`, `RuntimeLimits` and
`GossipAssumption` (MembershipGossip).

### Room authorization

For any joiners, identities of the owner, passwords, requests and limit of attempts.
Nothing that travels says all that is needed: a response carries no revision, an
announcement comes in any order.  `Inv` in `RoomAuthorization_proofs` says that the
announcements of one owner are ordered by their revision and say one thing of each
(`AnnouncedIsSound`); that a client has observed an announcement, nothing older than
its table shows, is authorized only at what it observed last, and remembers under
which announcement each pending join was sent (`ClientIsSound`); and that a response
that will be taken was a grant if the revision is still that one
(`ResponsesAreTrue`), which a password change between request and answer makes
vacuous, as it must.

| Theorem | Property |
|---|---|
| `AuthorizedWereGranted` | `AuthorizedMeansGranted` |
| `GrantsWereEarned` | `GrantsAreEarned` |
| `CurrentRoomIsOpen` | `CurrentRoomCanBeJoined` |

Assumptions: `PasswordAssumption` (ProtectedRoomState) and `AuthorizationAssumption`
(RoomAuthorization).

### Nicknames

For any number of sessions, any window, delay and bound on time.  `RivalsAgree`
says nothing of the moment at which somebody left, so it is not inductive.
`PresenceInv` in `Messages_proofs` adds `LosersYielded`: whoever left for `q` had to
yield to `q`, and still has (`Yielded`): either `q` is older by more than the
window, or has the smaller Peer ID and is not younger by more than the window.
A claim carries an age its session *had*, so what a claim wins by, its session
wins by at least (`ClaimsWin`); one that left gets no older while the other may
(`TickInv`).  `Yielded` is antisymmetric, from which `NeverBothLeave` follows,
and `YoungerNeverWins` is its weaker half; `RivalsAlwaysAgree` is the property of
the run.  The theorems are about `PresenceSpec`; `MessagesKeepPresence` proves that
`PrivateMessages` implements it, from which `RivalsOfMessagesAgree` follows.
Assumptions: `PeerAssumption`, `TimeAssumption`, `NoneAssumption` (Presence).

### Private messages

For any sessions and messages, any rate and any size of the replay cache.
`MessageStateIsSound` and `DeliveredWasShown` need `AnswersAreTrue`: an answer that
is on its way was given after the message was shown.  `ShownOnce` needs
`CachesFollow`: the cache is the end of what was shown, in order, and each message
it dropped was dropped as too old (and is refused since) or has as many behind it as
the cache holds.  The lemmas on the two ways the cache shrinks (`WithoutOldest` and
its neighbours) are about sequences only.

| Theorem | Property |
|---|---|
| `MessageStateStaysSound` | `MessageStateIsSound` |
| `DeliveredMeansShown` | `DeliveredWasShown` |
| `RepetitionsAreFar` | `ShownOnce` |
| `RivalsOfMessagesAgree` | `RivalsAgree` |

Assumptions: those of `Presence` and `MessageAssumption` (PrivateMessages).

### Contact chat

For any nodes, messages and commands of the users, and every capacity.
`HistoryIsTrue` is not inductive, because an acknowledgement is three steps away
from the message it speaks of: the chat has shown the message and decides to
acknowledge it, the packet is on the wire, it waits in the queue of events of the
other node.  `KnpInv` in `Messages_proofs` follows it: a chat that acknowledges has
shown the message (`WorkIsSound`), so has whoever sent an acknowledgement that is on
the wire (`AcksAreTrue`), and every queue of events holds packets of the wire and
receipts (`NodeTyped`).  Nothing is taken back from the wire and nothing that was shown
is unshown (`Grows`), so that what is true of a packet stays true while it is delayed
or repeated.

`WorkIsSound` also says what the chat found before it asked its transport and relies
on when the answer has come: that there is somebody to answer, that the contact is not
the node itself, and that there is room for another contact or message.  It holds
because the chat takes nothing else while it waits.  The last part of `HistoryIsSound`,
that an entry shown as queued is pending, is `QueuedIsAwaited`; the two are changed by
five handlers, and `GiveUp` settles them together.

| Theorem | Property |
|---|---|
| `HistoryStaysTrue` | `HistoryIsTrue` |
| `QueuedStaysAwaited` | `QueuedIsAwaited` |

Assumption: `KnpAssumption` (KnpChat).

### Network sessions

For any number of sessions, chats and profiles.  `session_gate` lets one command in
at a time, but the end of a task does not take it, so a command goes on after each
await on what it found before.  `SessionInv` in `Network_proofs` adds to
`ActorsAreReachable` what is left of that: `CallIsSound`, per place of the command
(its session has no chat yet while it starts, the transport it is about to install is
not installed, no chat is installed while one is spawned), and `TasksAreSound`, that a
task took a transport out only once it had cleared its own sender, and that a session
that has not begun owns nothing.

`ShutdownAwaitsChat` is about all chats with the profile of the one that was shut down,
and a chat that ended by itself may have the lock longer than the command waits.  So it
needs `LocksAreSound`, inductive with `SessionInv` (`LocksInv`): no two chats hold the
lock of one profile, and if one holds it, no other that is installed or that a
command has was started on it.  The crux is `SpawnChat`, which is refused while anybody
has the lock.  Of all steps that end a command only `CallEndsChat` can be the one; it finds
its own chat "closing" or "gone", and by `LocksAreSound` nobody else has the lock.

| Theorem | Property |
|---|---|
| `ActorsStayReachable` | `ActorsAreReachable` |
| `ShutdownAwaitsChat` | `ShutdownFreesProfile` |
| `LocksStaySound` | (`LocksAreSound`, of which the one above makes use) |

Assumption: `NilAssumption` (NetworkSession).

### Reachability

For any servers, addresses (also infinitely many), ports, clients, lifetimes and
limit of confirmed addresses.  Neither property is inductive, because the
witness, the participation and the swarm keep copies that are brought in line one
second apart.  `Inv` in `Network_proofs` says how far they may differ:
`Backed`, that the relay is reachable no longer than some address is confirmed
(both deadlines lose the same at each `TimePasses`, and the two are set and cleared
together); `GateFollows`, that an open gate has consent and a deadline that has
not passed, or no tick yet; `Announced`, that what the swarm announces the witness
or others put there, and that what the witness put there is confirmed or awaits
its tick.  That finitely many addresses are confirmed at any time is part of it,
as the limit is a cardinality.

| Theorem | Property |
|---|---|
| `OffersAreWitnessed` | `OfferedIsWitnessed` |
| `PublishedStaysAdvertised` | `PublishedIsAdvertised` |

Assumptions: `AddressAssumption`, `TtlAssumption`, `NoneAssumption` (Reachability).

### Dialing and cold start

For any peers, listeners and limits.  `ColdStartInv` in `Network_proofs` has two halves,
which meet in the relays that a contact loses.

*Reservations.*  `CircuitsAreHeld` counts the entries of two maps that name a listener.
`Reserved(boot, part, circ, closed)` says the same without cardinalities, and one thing
more: the two maps never name one listener for a peer, so that giving one entry up
leaves the other alone.  Each way in which the maps change is one lemma, whatever the
event: `RestoreReserves` and `OpenRelayReserves` (free listeners are taken),
`WithoutReserves` (entries are given up, and their listeners closed), `ClosedReserves`
(a listener has ended).  `ReservedCircuits` leads back to the property.

*What is signed.*  A plan is drawn up from an advertisement and carried out later, a batch
at a time, and by then the advertisement may have been replaced, have expired or be
lost.  `SignedPlans` says what a signed plan can rely on as long as it is there: its peer
is a contact with addresses, every batch left is among them, and they are those of the
advertisement, if that is still accepted.  `PlanLeft` is what `drive`, `failed` and
`connected` do to plans (keep, shorten or drop them), so that one lemma
(`SignedPlansLeft`) serves every event.  A tick drops the plans of lost contacts before
it dials, so whatever it dials is of an accepted advertisement (`DialedIsSigned`), and
no other step dials a plan (`TicksDial`): `SignedDialsAreLive`.

*What is not.*  `ContactsAreSound` holds because whatever enters `book` is signed by the
advertisement in use or enters `unsigned` with it, and whatever is taken back is taken
from both.  `KnownContacts` is the step of all events that touch addresses and leave
contacts alone (`KnownLeft`); when an advertisement is replaced or lost, what it signed
leaves `book`, so that the rest was not signed.

| Theorem | Property |
|---|---|
| `NetworkStaysHeld` | `NetworkIsHeld` |
| `ContactsStaySound` | `ContactsAreSound` |
| `SignedDialsAreLive` | `DialsAreLive` |

Assumptions: `DialingAssumption` (Dialing) and `ColdStartAssumption` (ColdStart).

### Downloads

For any sets of transfers and relay downloads, any number of attempts, any size,
and any number of files the other program makes.  Commands use names that others
may free and take at any moment, so the argument is about who may remove what.
`Holds(c)` says that somebody acts for `c` on the part `c` made: its command
between reserving and promoting, the transfer while it is in the map, or the call
of `close_rtc_file` that took it.  `Folder` in `IncomingFiles_proofs` says that a
held part is there under its name and is the holder's own file (so two holders
never share a name: `OneHolder`), that a part nobody holds is another program's,
and that a copy or a saved file still has its final name.  `Order` says when a
transfer may be in the map at all: only from the moment at which the command that
made it lets go of the part, and, while it is, its session lasts or its closing
has been called, or it is marked as rejected or abandoned; of one whose command is
done the session does not last.  Every unlink is one lemma (`UnlinkFolder`: the holder gives up
what it holds), every new file another (`CreateKeeps`), every write a third
(`WriteFiles`: handles are to parts, also to somebody else's).

`SavedIsVerified` rests on a second invariant, `Data`, proved from the first.  A
transfer may write to a file that is not its own (a handle outlives its name), but only
once it was given up (`Given`): then nothing of it is verified any more.  `Contents`
says of each part, and of each saved file, that the first `Size` chunks are its own
and all that follow are of transfers given up.

| Theorem | Property |
|---|---|
| `FolderStaysSound` | `FolderIsSound` |
| `NothingIsOverwritten` | `NothingOverwritten` |
| `SavedFilesAreVerified` | `SavedIsVerified` |

Assumption: `IncomingFilesAssumption` (IncomingFiles).

### File transfer

For any sets of nodes, transfers and shares, any sizes and any limits.  `Inv` in
`FileTransfer_proofs` has two halves.

*The sender's half.*  A transfer has one request at a time, on its way or awaited
(`StepsAreSingle`), and it is tracked by the node that still sends it and by no one
else (`StepsAreAwaited`).  That is what bounds the slots, and what makes a late answer
harmless: the request it answers is tracked no more.  Two lemmas carry most actions:
`SendersShrink` (transfers stop together with what is tracked of them) and
`SendersRest`.

*The receiver's half.*  A transfer passes once through its stages: offered, pending at
one node, agreed to and received at one node, saved (`StagesAreOrdered`).  A temporary
file holds what was hashed, or its transfer is `Abandoned`: after a torn write the
sender is refused, and nothing of the transfer is on its way any more
(`PartsAreSound`).  A response answers a request that is tracked and was taken, and
"complete" is said of saved files only (`AnswersAreSound`).  For the shares, no more
files were taken than claims were made (`SharesAreSound`).

*The refinement.*  `TransfersDeliver` proves that `Spec` implements
`FileDelivery!Spec`: each step is a step of `FileDelivery` or a stutter.  The two that
are neither obvious nor stutters are the end of a Complete, where the hash decides that
what was received is what was offered, and the answer to it, after which success is
told; both need the stages.

| Theorem | Property |
|---|---|
| `TransfersStaySound` | `TransfersAreSound` |
| `TransfersDeliver` | `Delivers` (refinement) |

Assumption: `FileTransferAssumption` (FileTransfer).

## 5. What is only model-checked

Every invariant and every action property of the runs is a theorem.  What is left to
TLC is liveness, since the prover has no ENABLED and no fairness:

| Property | Run |
|---|---|
| `CountsDrain` | `directory_locks` |
| `Converges` | `gossip` |
| `SessionsEnd`, `GateIsReleased` | `session` |
| `RivalsPart`, `CallersAnswered` | `private_messages` |
| `CommandsAnswered` | `knp_chat` |
| `SlotsReturn` | `file_transfer` |
| `RelayClientsLeave` | `reachability` |

## 6. Where code and documentation disagree

**A room of an expired owner stays locked in the client** (`directory_lockout`).
docs/SECURE_ROOMS_PRIVATE_CHAT.md:38 says the owner remains authorized; the
cleanup tick (lib.rs:3542) forgets the room in the table but not in
`secure_client`, unlike Goodbye and RoomClose.  A node that then makes the room
itself, or meets the restarted owner under its new identity, is held to the
former owner's lock.  `CurrentRoomCanBeJoined` and `AuthorizedMeansGranted` say
what holds of everybody else (`UpToDate`).

### Observations

Seen while modelling; no run is about them alone.  Where one is an exception to a
property, the property names it.

* *Rooms.*  A password update brings back the count that `owned_rooms` has from
  the day the room was made (lib.rs:3698; the comment at 4603 says counts come
  from membership): `CountsKept` shows it is the only handler that does.  Rooms
  announced by a peer whose Presence never came outlive it (lib.rs:3526;
  docs/TESTING.md:17 expects rooms to go with their host).  A node that closed a
  room and learned it again keeps the revision of the members it took out and
  refuses the same revision with the room in it as a conflict
  (room_membership.rs:229; docs/ROOMS2.md:86 says a heartbeat converges);
  `Converges` shows it is the only obstacle besides presence that keeps getting
  lost.  An announcement delivered late overwrites the table's lock revision
  (lib.rs:4616) though the client refuses it; the next heartbeat repairs it.
  Every verdict but an error renews the membership lease (lib.rs:4591-4593), so a peer
  that goes on repeating an old snapshot without a room stays counted in that room
  though it lost its grant; its own heartbeats, which name the room, are dropped
  (lib.rs:4571).
* *Nicknames.*  Age decides before Peer IDs do (lib.rs:2962); docs/ARCHITECTURE.md:62
  has Peer IDs only.  Where the ages differ by about the window and the younger
  has the smaller Peer ID, neither may yield for as long as claims take
  time (`RivalsPart` says when one does).
* *Sessions.*  The handlers of `network-error` and `nick-conflict` in
  `src/main.ts` (1702-1711) call `disconnect_network`, which ends whichever
  session is current by then.  A transport of an ended session and one of the new
  session may run beside each other for a moment.  `KnpChat::shutdown` of a chat that
  has just ended by itself returns before the profile is unlocked (knp_chat.rs:187-192,
  354-359), so that a start on the same profile, given at once, may be refused; a later
  one is not.
* *Transfers.*  docs/FILE_TRANSFER_SECURITY.md:7 counts unanswered offers and
  transfers together; the path of a claimed file (lib.rs:4846) counts the
  transfers only, so these may go beyond the limit.  A task that
  ends because of a nickname conflict leaves its `.konofixpart` files, which
  `Stop` removes.  A Cancel may be handled before the Offer it is about: the
  receiver then holds, until its lease ends, an offer nobody sends.  The `sha256`
  of a public offer is compared with nothing when the file arrives: what decides
  is the hash the sharer computes while it sends.
* *Downloads.*  A chunk that is being written when its transfer is closed is
  appended to whatever file has the part's name by then, which may be the
  next transfer's part, or the file just saved from it before its part is
  unlinked (lib.rs:2351); docs/ARCHITECTURE.md:66 has only verified data under the final
  name.  `SavedIsVerified` allows exactly such chunks behind the whole file.  An
  offer that is rejected while its acceptance is under way may leave its entry
  and its part (peer-transport.ts:225-233; docs/FILE_TRANSFER_SECURITY.md:41 has
  every path clean up its own): `rejected` marks them.  So may an accepted transfer
  whose session is closed by `stop()` or by a connection that fails
  (peer-transport.ts:156-176, 652-659): neither calls `close_rtc_file`, and
  `disconnect_network` does not clear `rtc_incoming_files`, though the same line of the
  document names disconnects.  `abandoned` marks these.
* *Connections.*  If discovery cannot be restarted after a change of the network,
  its contacts, already without addresses, are not forgotten any more
  (lib.rs:3384-3401).  The sequence of a node's own advertisements begins anew
  with each session.  A target that is added while it is connected is dialed once
  more, and has its flag with the next refresh (`TargetIsMarked`).  Unsigned addresses
  that were known of a peer stay in use when it becomes a contact: `Candidate` takes
  back those of the advertisement before and no others (lib.rs:3357-3363), and
  mDNS goes on giving them (4267-4271).  What the comment at lib.rs:4301 says, that Identify
  introduces no address outside the advertisement, holds of a peer that is a
  contact by then.  Taking back is by value, so it also takes an equal address that mDNS
  gave.

## 7. What is abstracted, and what is not modelled

* Time: a lease, a grant or a window may end whenever it is held.  Presence and
  membership leases are only sets of peers, the latter with those that have aged.  Only ages (`Presence`) and the
  deadlines of `Reachability` are counted.
* Passwords are compared, never hashed; ids and nicknames are values; framing,
  syntax and size checks of messages are membership in a set of valid ones.
* Revisions are unbounded: the code stops at 2^64 - 1 with an error.
* Signatures and source binding are assumed: payload identity is the
  authenticated source.
* In `Presence`: sessions of builds that send no age are left out; a NickClaim
  that has expired is a lost one; the nickname record in the DHT, which decides
  nothing, is not modelled.
* In `FileTransfer`: names, paths and the search for a free name are a
  preparation that may fail (`IncomingFiles` has them); the room scope of an
  offer is a refusal that may happen; a flush, link or copy that fails refuses
  the Complete and leaves nothing, as commit_reserved_file_impl does.  Hashes do
  not collide.
* In `IncomingFiles`: all files have one name and one size; deleting a file does
  not fail; the sender is a source of chunks, each possibly changed.
* In `Dialing`: the addresses of a peer are of two kinds, direct and by circuit,
  and connections of one direction count as one.  Dials of mDNS, the DHT and
  requests are seen by their connections only; what mDNS gives to be known is in
  `ColdStart`.
* In `ColdStart`: whether an answer verifies is left open; the rate limits of a
  node that answers, and its switch to DHT server mode, are not modelled.
* In `KnpChat`: a message's id stands for its transport id; contacts are not
  removed, as there is no command for it.
* Shutdown (`Stop`, the nickname conflict exit) ends the state the modules
  describe (`FileTransfer` has it as `Leave`, `Presence` as `Stop` and `Leave`);
  for the others it is a Goodbye or a silence, both modelled.
* The components marked *not_modelled* in `PROJECT.json`: group voice, calls and
  the world relay are driven by WebRTC, audio devices and public relays in the
  web view, and share no state with what is modelled.

## 8. State of the project

Modelled, with every safety property proved: the membership tracker, runtime and room
directory; room authorization; gossip and files with their abstract specifications,
which they are proved to implement; sessions, nicknames, private messages and contact
chat; downloads; dialing, cold start and reachability.

What would come next: group voice, whose turns are decided by messages with no arbiter
(group-voice.ts:244), and the signals of calls that arrive out of order
(peer-transport.ts:487).
