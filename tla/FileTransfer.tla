---------------------------- MODULE FileTransfer ----------------------------
(***************************************************************************)
(* Native file transfer (lib.rs): every node may send a file to another one*)
(* (Offer, then Chunks, then Complete, each a request that waits for the   *)
(* response to the one before), and share a file that others claim         *)
(* (ClaimPublic), upon which the sharer offers it and the claimant takes it*)
(* without asking.  Either end may cancel.  Requests and responses are lost*)
(* or late, connections close, disks fail, files change while they are     *)
(* read, users do not answer, tasks end.                                   *)
(*                                                                         *)
(* Each request travels on a substream of its own, so requests overtake    *)
(* each other.  libp2p reports one event for each request: its response or *)
(* an OutboundFailure, which says nothing about what the other end did. An *)
(* event for a request that is not tracked any more is ignored, so such a  *)
(* request is in the model until it arrives, and its response is not.      *)
(* The handlers of one node run to their end one at a time; they are the   *)
(* actions.  Time is not modelled: what has a TTL may expire at any moment.*)
(***************************************************************************)
EXTENDS Naturals, Sequences, FiniteSets

CONSTANTS
  Node,
  Transfer,       \* the UUIDs drawn for transfers
  Share,          \* the UUIDs of the public offers
  Sharer,         \* Share -> the node that shares it
  ShareSize,      \* Share -> the size announced, in chunks
  NoShare,        \* no public offer
  Offering,       \* bound: the nodes whose users send private files
  MaxTransfers,   \* MAX_TRANSFERS_PER_DIRECTION (4)
  FileSize,       \* bound: the sizes of private files, in chunks
  MaxClaims       \* bound: claims a node makes

ASSUME FileTransferAssumption ==
  /\ Sharer \in [Share -> Node] /\ NoShare \notin Share
  /\ MaxTransfers \in Nat /\ MaxClaims \in Nat /\ FileSize \subseteq Nat
  /\ ShareSize \in [Share -> Nat] /\ Offering \subseteq Node

VARIABLES
  up,         \* the nodes whose network_task runs
  outgoing,   \* node -> transfer -> [peer, size, sent, read]; read: chunks hashed
  pending,    \* pending_incoming: node -> transfer -> [peer, size, channel]
  incoming,   \* node -> transfer -> [peer, size, hashed]; received is Len(hashed)
  tracked,    \* outbound_requests of all nodes but for Cancels; request.from says whose
  announced,  \* the shares announced to the network
  shared,     \* public_outgoing of all sharers
  known,      \* remote_public_offers: node -> shares
  claims,     \* public_claims: node -> shares
  parts,      \* .konofixpart files: node -> transfer -> the chunks written, 0 a torn one
  inFlight,   \* requests on their way
  answers,    \* responses on their way: [to, body]
  offered,    \* auxiliary: transfer -> size, for the UUIDs drawn
  agreed,     \* auxiliary: transfers a user accepted, or whose share one claimed
  claimed,    \* auxiliary: node -> how many claims it has made
  taken,      \* auxiliary: node -> transfers taken without asking
  saved,      \* transfer -> the chunks of the file under its final name
  outcome     \* transfer -> how the sender's user saw it end

network == <<inFlight, answers>>
sending == <<outgoing, offered, outcome>>
receiving == <<pending, incoming, parts, agreed, taken, saved>>
sharing == <<announced, shared, known, claims, claimed>>

vars == <<up, tracked, network, sending, receiving, sharing>>

Put(f, k, v) == [x \in DOMAIN f \cup {k} |-> IF x = k THEN v ELSE f[x]]

Drop(f, K) == [x \in DOMAIN f \ K |-> f[x]]

Empty == [t \in {} |-> 0]

-----------------------------------------------------------------------------
(***************************************************************************)
(* FileRequest and FileResponse.  Rejected and Error are one: no sender    *)
(* tells them apart but in what it shows.                                  *)
(***************************************************************************)
Offer(n, m, t, size, s) ==
  [kind |-> "Offer", from |-> n, to |-> m, id |-> t, size |-> size, share |-> s]
Chunk(n, m, t, offset, data) ==
  [kind |-> "Chunk", from |-> n, to |-> m, id |-> t, offset |-> offset, data |-> data]
Complete(n, m, t, hash) ==
  [kind |-> "Complete", from |-> n, to |-> m, id |-> t, hash |-> hash]
Cancel(n, m, t) == [kind |-> "Cancel", from |-> n, to |-> m, id |-> t]
ClaimPublic(n, s) ==
  [kind |-> "ClaimPublic", from |-> n, to |-> Sharer[s], id |-> s, turn |-> claimed[n]]

Accepted == [kind |-> "Accepted"]
Refused == [kind |-> "Refused"]
Ack(received) == [kind |-> "Ack", received |-> received]
Verified == [kind |-> "Complete"]

\* The requests a transfer consists of; its sender waits for each.
OfTransfer(r) == r.kind \in {"Offer", "Chunk", "Complete"}

\* A request is sent whose outcome somebody waits for.
Ask(r) ==
  /\ inFlight' = inFlight \cup {r} /\ tracked' = tracked \cup {r}
  /\ UNCHANGED answers

\* The handler of r answers it, or drops its channel (no bodies).
Reply(r, bodies) ==
  answers' = answers \cup (IF r \in tracked THEN [to : {r}, body : bodies] ELSE {})

\* r is taken, and answered, by the node it is addressed to.
Take(r, bodies) == inFlight' = inFlight \ {r} /\ Reply(r, bodies)

\* The sender of r gets its one event for it, and sends R.
Conclude(r, R) ==
  /\ inFlight' = inFlight \cup R
  /\ tracked' = (tracked \ {r}) \cup R
  /\ answers' = {a \in answers : a.to # r}

Init ==
  /\ up = Node
  /\ outgoing = [n \in Node |-> Empty] /\ offered = Empty /\ outcome = Empty
  /\ pending = [n \in Node |-> Empty] /\ incoming = [n \in Node |-> Empty]
  /\ parts = [n \in Node |-> Empty] /\ saved = Empty
  /\ agreed = {} /\ taken = [n \in Node |-> {}]
  /\ announced = {} /\ shared = {} /\ known = [n \in Node |-> {}]
  /\ claims = [n \in Node |-> {}] /\ claimed = [n \in Node |-> 0]
  /\ tracked = {} /\ inFlight = {} /\ answers = {}

-----------------------------------------------------------------------------
(***************************************************************************)
(* Sending.                                                                *)
(***************************************************************************)
SlotFree(slots) == Cardinality(DOMAIN slots) < MaxTransfers

\* The transfer a node starts to send, waiting for the answer to its offer.
Waiting(m, size) == [peer |-> m, size |-> size, sent |-> 0, read |-> 0]

\* NetworkCommand::OfferFile.
OfferFile(n, m, t, size) ==
  /\ n \in up \cap Offering /\ m # n /\ SlotFree(outgoing[n]) /\ t \notin DOMAIN offered
  /\ outgoing' = [outgoing EXCEPT ![n] = Put(@, t, Waiting(m, size))]
  /\ offered' = Put(offered, t, size)
  /\ Ask(Offer(n, m, t, size, NoShare))
  /\ UNCHANGED <<up, outcome, receiving, sharing>>

\* The users of node n are told how those of transfers T ended that it still sends.
Tell(n, T, result) ==
  LET S == T \cap DOMAIN outgoing[n]
  IN  outcome' = [t \in DOMAIN outcome \cup S |-> IF t \in S THEN result ELSE outcome[t]]

StopSending(n, T, result) ==
  /\ outgoing' = [outgoing EXCEPT ![n] = Drop(@, T)]
  /\ Tell(n, T, result)

Finish(r, result) == StopSending(r.from, {r.id}, result) /\ Conclude(r, {})

\* Mutant of Fails: the user is told and the slot stays taken.
FailsKeepingSlot(r) ==
  Tell(r.from, {r.id}, "failed") /\ Conclude(r, {}) /\ UNCHANGED outgoing

Fails(r) == Finish(r, "failed")

\* send_next_chunk: the file has another chunk, or ends, or cannot be read.  What the
\* file has is not what it had when it was offered.
SendNextChunk(r, o) ==
  LET n    == r.from
      next == Chunk(n, o.peer, r.id, o.sent, o.read + 1)
      last == Complete(n, o.peer, r.id, o.read)
  IN  \/ /\ outgoing' = [outgoing EXCEPT ![n][r.id] = [o EXCEPT !.read = @ + 1]]
         /\ Conclude(r, {next})
         /\ UNCHANGED outcome
      \/ /\ outgoing' = [outgoing EXCEPT ![n][r.id] = o]
         /\ Conclude(r, {last})
         /\ UNCHANGED outcome
      \/ Fails(r)

\* request_response::Message::Response, to an Offer, a Chunk or a Complete.  A body
\* that does not fit the kind of the request is a failure as well.
Answered(r, body) ==
  LET sends == r.id \in DOMAIN outgoing[r.from]
      o     == outgoing[r.from][r.id]
  IN  CASE sends /\ r.kind = "Offer" /\ body = Accepted ->
             SendNextChunk(r, [o EXCEPT !.sent = 0, !.read = 0])
        [] sends /\ r.kind = "Chunk" /\ body.kind = "Ack"
                 /\ o.sent <= body.received /\ body.received <= o.size ->
             SendNextChunk(r, [o EXCEPT !.sent = body.received])
        [] r.kind = "Complete" /\ body = Verified -> Finish(r, "completed")
        [] OTHER -> Fails(r)

\* A claim that was refused, or whose request failed, is over: whichever claim of the
\* share is the pending one.
ClaimFails(r) ==
  /\ Conclude(r, {})
  /\ claims' = [claims EXCEPT ![r.from] = @ \ {r.id}]
  /\ UNCHANGED <<announced, shared, known, claimed>>

OnResponse(a) ==
  LET r == a.to
  IN  /\ r \in tracked
      /\ \/ /\ OfTransfer(r)
            /\ Answered(r, a.body)
            /\ UNCHANGED <<offered, sharing>>
         \/ /\ r.kind = "ClaimPublic" /\ a.body # Accepted
            /\ ClaimFails(r)
            /\ UNCHANGED sending
         \/ /\ r.kind = "ClaimPublic" /\ a.body = Accepted
            /\ Conclude(r, {})
            /\ UNCHANGED <<sending, sharing>>
      /\ UNCHANGED <<up, receiving>>

\* request_response::Event::OutboundFailure: a timeout, a closed connection, a failed
\* dial, a channel dropped at the other end.
OnOutboundFailure(r) ==
  /\ r \in tracked
  /\ \/ OfTransfer(r) /\ Fails(r) /\ UNCHANGED <<offered, sharing>>
     \/ r.kind = "ClaimPublic" /\ ClaimFails(r) /\ UNCHANGED sending
  /\ UNCHANGED <<up, receiving>>

-----------------------------------------------------------------------------
(***************************************************************************)
(* Receiving.                                                              *)
(***************************************************************************)
\* r is still to be handled by the node it is addressed to.
Arrives(r, kind) == r \in inFlight /\ r.to \in up /\ r.kind = kind

Received(n, t) == Len(incoming[n][t].hashed)

\* prepare_incoming_transfer: the temporary file is there before the transfer is.
Begin(n, t, peer, size) ==
  /\ incoming' = [incoming EXCEPT ![n] = Put(@, t, [peer |-> peer, size |-> size, hashed |-> <<>>])]
  /\ parts' = [parts EXCEPT ![n] = Put(@, t, <<>>)]

\* file_offer_capacity_error.
HasCapacity(n, peer) ==
  /\ \A t \in DOMAIN pending[n] : pending[n][t].peer # peer
  /\ Cardinality(DOMAIN pending[n]) + Cardinality(DOMAIN incoming[n]) < MaxTransfers

Unused(n, t) == t \notin DOMAIN pending[n] \cup DOMAIN incoming[n] \cup DOMAIN outgoing[n]

\* FileRequest::Offer that asks the user; the response waits for the answer.
OnOffer(r) ==
  LET n == r.to
  IN  /\ Arrives(r, "Offer") /\ r.share = NoShare
      /\ Unused(n, r.id) /\ HasCapacity(n, r.from)
      /\ pending' = [pending EXCEPT ![n] =
                       Put(@, r.id, [peer |-> r.from, size |-> r.size, channel |-> r])]
      /\ inFlight' = inFlight \ {r}
      /\ UNCHANGED <<up, tracked, answers, sending, sharing,
                     incoming, parts, agreed, taken, saved>>

\* What a node has claimed and still knows as announced.
ClaimMatches(n, r) ==
  r.share \in claims[n] \cap known[n] /\ Sharer[r.share] = r.from /\ ShareSize[r.share] = r.size

ClaimUsed(n, s) ==
  claims' = [claims EXCEPT ![n] = @ \ {s}] /\ UNCHANGED <<announced, shared, known, claimed>>

\* FileRequest::Offer of a share this node has claimed: taken without asking, unless
\* the file cannot be prepared or the sharer has gone.
OnClaimedOffer(r) ==
  LET n == r.to
  IN  /\ Arrives(r, "Offer") /\ r.share # NoShare
      /\ Unused(n, r.id) /\ ClaimMatches(n, r) /\ SlotFree(incoming[n])
      /\ ClaimUsed(n, r.share)
      /\ \/ /\ Begin(n, r.id, r.from, r.size)
            /\ agreed' = agreed \cup {r.id} /\ taken' = [taken EXCEPT ![n] = @ \cup {r.id}]
            /\ Take(r, {Accepted})
            /\ UNCHANGED <<pending, saved>>
         \/ \E bodies \in SUBSET {Refused} : Take(r, bodies) /\ UNCHANGED receiving
      /\ UNCHANGED <<up, tracked, sending>>

\* An offer that is refused at once: its capacity, claim, name, size or room will not do.
RefuseOffer(r) ==
  /\ Arrives(r, "Offer")
  /\ Take(r, {Refused})
  /\ UNCHANGED <<up, tracked, sending, receiving, sharing>>

\* NetworkCommand::AcceptFile.  When the file cannot be prepared the channel is dropped,
\* when the sender is gone the temporary file goes again.
AcceptFile(n, t) ==
  /\ n \in up /\ t \in DOMAIN pending[n] /\ SlotFree(incoming[n])
  /\ LET p == pending[n][t]
     IN  /\ pending' = [pending EXCEPT ![n] = Drop(@, {t})]
         /\ \/ /\ Begin(n, t, p.peer, p.size)
               /\ agreed' = agreed \cup {t}
               /\ Reply(p.channel, {Accepted}) /\ UNCHANGED inFlight
            \/ UNCHANGED <<incoming, parts, agreed, network>>
  /\ UNCHANGED <<up, tracked, taken, saved, sending, sharing>>

\* NetworkCommand::RejectFile, and the cleanup tick when PENDING_FILE_OFFER_TTL_SECS have
\* passed.
TurnDown(n, t) ==
  /\ n \in up /\ t \in DOMAIN pending[n]
  /\ pending' = [pending EXCEPT ![n] = Drop(@, {t})]
  /\ Reply(pending[n][t].channel, {Refused}) /\ UNCHANGED inFlight
  /\ UNCHANGED <<up, tracked, incoming, parts, agreed, taken, saved, sending, sharing>>

\* The next chunk of a transfer of this sender, within the size announced.
Expected(n, r) ==
  /\ r.id \in DOMAIN incoming[n] /\ incoming[n][r.id].peer = r.from
  /\ r.offset = Received(n, r.id) /\ Received(n, r.id) + 1 <= incoming[n][r.id].size

\* FileRequest::Chunk, refused.
OnWrongChunk(r) ==
  /\ Arrives(r, "Chunk") /\ ~Expected(r.to, r)
  /\ Take(r, {Refused})
  /\ UNCHANGED <<up, tracked, sending, receiving, sharing>>

\* FileRequest::Chunk.  A failed write may leave a part of the chunk in the file; neither
\* the hash nor the count of what was received knows of it.
OnChunk(r) ==
  LET n == r.to
  IN  /\ Arrives(r, "Chunk") /\ Expected(n, r)
      /\ \/ /\ parts' = [parts EXCEPT ![n][r.id] = Append(@, r.data)]
            /\ incoming' = [incoming EXCEPT ![n][r.id].hashed = Append(@, r.data)]
            /\ Take(r, {Ack(Received(n, r.id) + 1)})
         \/ /\ parts' = [parts EXCEPT ![n][r.id] = Append(@, 0)]
            /\ Take(r, {Refused})
            /\ UNCHANGED incoming
      /\ UNCHANGED <<up, tracked, pending, agreed, taken, saved, sending, sharing>>

\* The transfers are over at the receiver, and their temporary files removed.
Discard(n, T) ==
  /\ incoming' = [incoming EXCEPT ![n] = Drop(@, T)]
  /\ parts' = [parts EXCEPT ![n] = Drop(@, T)]

\* Mutant of IsWhole: the hash alone decides.
HashMatches(i, hash) == i.hashed = [k \in 1..hash |-> k]

\* The sender's hash is that of the first chunks of what it read.
IsWhole(i, hash) == Len(i.hashed) = i.size /\ i.hashed = [k \in 1..hash |-> k]

\* FileRequest::Complete.  A whole file is committed under its final name or, when it
\* cannot be flushed, linked or copied, removed like one that is not whole.
OnComplete(r) ==
  LET n == r.to
  IN  /\ Arrives(r, "Complete")
      /\ \/ /\ r.id \in DOMAIN incoming[n] => incoming[n][r.id].peer # r.from
            /\ Take(r, {Refused})
            /\ UNCHANGED <<incoming, parts, saved>>
         \/ /\ r.id \in DOMAIN incoming[n] /\ incoming[n][r.id].peer = r.from
            /\ Discard(n, {r.id})
            /\ \/ /\ IsWhole(incoming[n][r.id], r.hash)
                  /\ saved' = Put(saved, r.id, parts[n][r.id])
                  /\ Take(r, {Verified})
               \/ Take(r, {Refused}) /\ UNCHANGED saved
      /\ UNCHANGED <<up, tracked, pending, agreed, taken, sending, sharing>>

\* The cleanup tick when INCOMING_TRANSFER_IDLE_TTL_SECS have passed without a chunk.
IncomingExpires(n, t) ==
  /\ n \in up /\ t \in DOMAIN incoming[n]
  /\ Discard(n, {t})
  /\ UNCHANGED <<up, tracked, pending, agreed, taken, saved, network, sending, sharing>>

-----------------------------------------------------------------------------
(***************************************************************************)
(* Cancelling.                                                             *)
(***************************************************************************)
\* Mutant of Untracked: the requests of a cancelled transfer stay tracked.
UntrackedNone(n, T) == tracked

\* outbound_requests without those of these transfers.
Untracked(n, T) == {r \in tracked : ~(r.from = n /\ r.id \in T)}

\* The responses that the sender still tracks after that.
AnswersTo(R) == {a \in answers : a.to \in R}

\* NetworkCommand::CancelFile of a file being sent, or of one being received.  What becomes
\* of the Cancel is nothing to the one who sends it.
CancelFile(n, t) ==
  /\ n \in up
  /\ \/ /\ t \in DOMAIN outgoing[n]
        /\ inFlight' = inFlight \cup {Cancel(n, outgoing[n][t].peer, t)}
        /\ tracked' = Untracked(n, {t}) /\ answers' = AnswersTo(tracked')
        /\ StopSending(n, {t}, "failed")
        /\ UNCHANGED <<offered, receiving>>
     \/ /\ t \in DOMAIN incoming[n]
        /\ inFlight' = inFlight \cup {Cancel(n, incoming[n][t].peer, t)}
        /\ Discard(n, {t})
        /\ UNCHANGED <<tracked, answers, sending, pending, agreed, taken, saved>>
  /\ UNCHANGED <<up, sharing>>

\* FileRequest::Cancel: whatever this node has of the transfer with the one who cancels.
OnCancel(r) ==
  LET n       == r.to
      With(f) == {t \in DOMAIN f \cap {r.id} : f[t].peer = r.from}
      sent    == With(outgoing[n])
  IN  /\ Arrives(r, "Cancel")
      /\ pending' = [pending EXCEPT ![n] = Drop(@, With(@))]
      /\ Discard(n, With(incoming[n]))
      /\ tracked' = Untracked(n, sent) /\ answers' = AnswersTo(tracked')
      /\ StopSending(n, sent, "failed")
      /\ inFlight' = inFlight \ {r}
      /\ UNCHANGED <<up, offered, agreed, taken, saved, sharing>>

-----------------------------------------------------------------------------
(***************************************************************************)
(* Sharing.                                                                *)
(***************************************************************************)
\* NetworkCommand::PublishPublicOffer; a share is announced once.
PublishShare(s) ==
  /\ Sharer[s] \in up /\ s \notin announced
  /\ announced' = announced \cup {s} /\ shared' = shared \cup {s}
  /\ UNCHANGED <<up, tracked, known, claims, claimed, network, sending, receiving>>

\* WireEvent::PublicFileOffer, however late.
OnPublicFileOffer(n, s) ==
  /\ n \in up /\ s \in announced /\ Sharer[s] # n /\ s \notin known[n]
  /\ known' = [known EXCEPT ![n] = @ \cup {s}]
  /\ UNCHANGED <<up, tracked, announced, shared, claims, claimed, network, sending, receiving>>

\* The cleanup tick when PUBLIC_OFFER_TTL_SECS or PUBLIC_CLAIM_TTL_SECS have passed, and
\* the eviction of the oldest of MAX_PUBLIC_OFFERS_REMOTE.
ShareExpires(n, s) ==
  /\ n \in up
  /\ \/ /\ s \in shared /\ Sharer[s] = n /\ shared' = shared \ {s}
        /\ UNCHANGED <<known, claims>>
     \/ /\ s \in known[n]
        /\ known' = [known EXCEPT ![n] = @ \ {s}] /\ claims' = [claims EXCEPT ![n] = @ \ {s}]
        /\ UNCHANGED shared
     \/ /\ s \in claims[n] /\ claims' = [claims EXCEPT ![n] = @ \ {s}]
        /\ UNCHANGED <<shared, known>>
  /\ UNCHANGED <<up, tracked, announced, claimed, network, sending, receiving>>

\* NetworkCommand::ClaimPublicOffer.
ClaimShare(n, s) ==
  /\ n \in up /\ s \in known[n] /\ claimed[n] < MaxClaims
  /\ Ask(ClaimPublic(n, s))
  /\ claims' = [claims EXCEPT ![n] = @ \cup {s}]
  /\ claimed' = [claimed EXCEPT ![n] = @ + 1]
  /\ UNCHANGED <<up, announced, shared, known, sending, receiving>>

\* FileRequest::ClaimPublic: the sharer offers the file in a transfer of its own, or
\* refuses; a share whose file has changed is withdrawn.
OnClaimPublic(r) ==
  LET n == r.to
  IN  /\ Arrives(r, "ClaimPublic")
      /\ \/ /\ SlotFree(outgoing[n]) /\ r.id \in shared
            /\ \E t \in Transfer \ DOMAIN offered :
                 LET o == Offer(n, r.from, t, ShareSize[r.id], r.id)
                 IN  /\ outgoing' = [outgoing EXCEPT ![n] = Put(@, t, Waiting(r.from, o.size))]
                     /\ offered' = Put(offered, t, o.size)
                     /\ tracked' = tracked \cup {o}
                     /\ inFlight' = (inFlight \ {r}) \cup {o} /\ Reply(r, {Accepted})
            /\ UNCHANGED shared
         \/ /\ shared' \in {shared, shared \ {r.id}}
            /\ Take(r, {Refused})
            /\ UNCHANGED <<outgoing, offered, tracked>>
      /\ UNCHANGED <<up, outcome, announced, known, claims, claimed, receiving>>

-----------------------------------------------------------------------------
(***************************************************************************)
(* Connections and tasks end.                                              *)
(***************************************************************************)
\* SwarmEvent::ConnectionClosed, the last connection to m.  Nothing that m sent over it
\* arrives any more; what n sent may have.
OnConnectionClosed(n, m) ==
  LET Of(f) == {t \in DOMAIN f[n] : f[n][t].peer = m}
  IN  /\ n \in up /\ n # m
      /\ pending' = [pending EXCEPT ![n] = Drop(@, Of(pending))]
      /\ Discard(n, Of(incoming))
      /\ tracked' = Untracked(n, Of(outgoing))
      /\ StopSending(n, Of(outgoing), "failed")
      /\ inFlight' = {r \in inFlight : ~(r.from = m /\ r.to = n)}
      /\ answers' = {a \in AnswersTo(tracked') : ~(a.to.from = n /\ a.to.to = m)}
      /\ UNCHANGED <<up, offered, agreed, taken, saved, sharing>>

\* NetworkCommand::Stop removes the temporary files; a task that ends because it lost its
\* nickname, or a crash, leaves them.  Nothing else outlives the task, and a later one has
\* another identity.
Leave(n) ==
  /\ n \in up /\ up' = up \ {n}
  /\ parts' \in {parts, [parts EXCEPT ![n] = Empty]}
  /\ pending' = [pending EXCEPT ![n] = Empty] /\ incoming' = [incoming EXCEPT ![n] = Empty]
  /\ outgoing' = [outgoing EXCEPT ![n] = Empty]
  /\ tracked' = {r \in tracked : r.from # n}
  /\ shared' = {s \in shared : Sharer[s] # n}
  /\ known' = [known EXCEPT ![n] = {}] /\ claims' = [claims EXCEPT ![n] = {}]
  /\ inFlight' = {r \in inFlight : r.to # n}
  /\ answers' = AnswersTo(tracked')
  /\ UNCHANGED <<announced, offered, outcome, agreed, taken, saved, claimed>>

-----------------------------------------------------------------------------
OnRequest(r) ==
  \/ OnOffer(r) \/ OnClaimedOffer(r) \/ RefuseOffer(r)
  \/ OnChunk(r) \/ OnWrongChunk(r) \/ OnComplete(r) \/ OnCancel(r)
  \/ OnClaimPublic(r)

Next ==
  \/ \E n, m \in Node, t \in Transfer, size \in FileSize : OfferFile(n, m, t, size)
  \/ \E n \in Node, t \in Transfer :
       AcceptFile(n, t) \/ TurnDown(n, t) \/ IncomingExpires(n, t) \/ CancelFile(n, t)
  \/ \E s \in Share : PublishShare(s)
  \/ \E n \in Node, s \in Share :
       OnPublicFileOffer(n, s) \/ ShareExpires(n, s) \/ ClaimShare(n, s)
  \/ \E r \in inFlight : OnRequest(r)
  \/ \E a \in answers : OnResponse(a)
  \/ \E r \in tracked : OnOutboundFailure(r)
  \/ \E n, m \in Node : OnConnectionClosed(n, m)
  \/ \E n \in Node : Leave(n)

Spec == Init /\ [][Next]_vars

\* Some request of n for transfer t gets its response or fails.
Concluded(n, t) ==
  \E r \in tracked :
    /\ r.from = n /\ r.id = t
    /\ OnOutboundFailure(r) \/ \E a \in answers : a.to = r /\ OnResponse(a)

\* libp2p reports each request's outcome, at the latest after 300 seconds; the cleanup
\* tick fires as long as the task runs.
Fairness ==
  \A n \in Node, t \in Transfer :
    /\ WF_vars(Concluded(n, t))
    /\ WF_vars(TurnDown(n, t)) /\ WF_vars(IncomingExpires(n, t))

FairSpec == Spec /\ Fairness

-----------------------------------------------------------------------------
(***************************************************************************)
(* Properties.                                                             *)
(***************************************************************************)
\* The types of the state, with what a transfer has never more of than was announced, and
\* the limits of each direction.
TypeOK ==
  /\ up \subseteq Node /\ shared \subseteq announced /\ announced \subseteq Share
  /\ DOMAIN offered \subseteq Transfer
  /\ \A t \in DOMAIN offered : offered[t] \in FileSize \cup {ShareSize[s] : s \in Share}
  /\ DOMAIN outcome \subseteq DOMAIN offered
  /\ \A t \in DOMAIN outcome : outcome[t] \in {"completed", "failed"}
  /\ DOMAIN saved \subseteq agreed /\ agreed \subseteq DOMAIN offered
  /\ \A n \in Node :
       /\ known[n] \subseteq Share /\ claims[n] \subseteq known[n]
       /\ DOMAIN outgoing[n] \cup DOMAIN pending[n] \cup DOMAIN incoming[n] \subseteq DOMAIN offered
       /\ Cardinality(DOMAIN outgoing[n]) <= MaxTransfers
       /\ Cardinality(DOMAIN incoming[n]) <= MaxTransfers
       /\ \A t \in DOMAIN outgoing[n] : outgoing[n][t].sent <= offered[t]
       /\ \A t \in DOMAIN incoming[n] : Received(n, t) <= offered[t]
  /\ \A a \in answers : a.to \in tracked \ inFlight

\* A transfer that is being sent waits for the outcome of exactly one of its requests, and
\* the request is tracked, so its outcome will find the transfer; no request is tracked
\* for a transfer that has ended.  Otherwise its slot would be taken for ever.  Concerns
\* every handler of lib.rs:5157-5315, CancelFile and the clean-up of a closed connection.
TransfersAwaitAnswer ==
  \A n \in up :
    LET steps == {r \in tracked : r.from = n /\ OfTransfer(r)}
    IN  /\ \A t \in DOMAIN outgoing[n] : Cardinality({r \in steps : r.id = t}) = 1
        /\ \A r \in steps : r.id \in DOMAIN outgoing[n] /\ r.to = outgoing[n][r.id].peer

\* While a task runs its temporary files are those of the transfers it receives, whichever
\* way transfers end.  Such a file holds what was hashed; one that a failed write left in
\* another state (lib.rs:5044-5053 keeps the transfer) is never written to or committed
\* again, since the sender has nothing more on its way.
PartsAreReceived ==
  \A n \in up :
    /\ DOMAIN parts[n] = DOMAIN incoming[n]
    /\ \A t \in DOMAIN parts[n] :
         \/ parts[n][t] = incoming[n][t].hashed
         \/ \A r \in inFlight : OfTransfer(r) => r.id # t

\* A claim lets one file in, and the user has made it: what was taken without asking and
\* what may still be is no more than what was claimed (lib.rs:4818-4858).
ClaimsTakeOnce == \A n \in Node : Cardinality(taken[n]) + Cardinality(claims[n]) <= claimed[n]

\* What the slots, the requests, the temporary files and the claims are kept by agrees.
TransfersAreSound == TypeOK /\ TransfersAwaitAnswer /\ PartsAreReceived /\ ClaimsTakeOnce

Delivery == INSTANCE FileDelivery

\* Files are saved and their senders told as FileDelivery says.
Delivers == Delivery!Spec

Busy(n, t) == t \in DOMAIN outgoing[n] \cup DOMAIN pending[n] \cup DOMAIN incoming[n]

\* Every slot is free again in the end, whatever is lost and whoever is silent.
SlotsReturn == \A n \in Node, t \in Transfer : Busy(n, t) ~> ~Busy(n, t)
=============================================================================
