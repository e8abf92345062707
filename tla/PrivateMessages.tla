--------------------------- MODULE PrivateMessages ---------------------------
(***************************************************************************)
(* Private messages between sessions (lib.rs, network_task;                *)
(* secure_control_client.rs, secure_control_runtime.rs, secure_channels.rs, *)
(* secure_control_transport.rs) on top of their presence.  A message is one *)
(* request and its answer; the sender waits until there is an answer or the *)
(* request fails.  The request may arrive, be answered and still fail, and  *)
(* the same message may arrive once more, which the receiver's replay cache *)
(* is for.                                                                  *)
(***************************************************************************)
EXTENDS Presence, Sequences, FiniteSets, SequencesExt

CONSTANTS
  Message,    \* message ids; each is used once
  Sender,     \* bound: the sessions that write private messages
  MaxRate,    \* PRIVATE_RATE_MAX_MESSAGES in one window
  MaxReplay,  \* PRIVATE_REPLAY_MAX_ENTRIES
  MaxShown    \* bound: messages that arrive at a session

ASSUME MessageAssumption == MaxRate \in Nat /\ MaxReplay \in Nat \ {0}

VARIABLES
  from, to,   \* the sender and the target of each message, None before it is sent
  tracked,    \* SecureControlClient.pending of each session
  outbound,   \* secure_outbound_requests
  awaited,    \* pending_private_messages: replies that callers wait for
  told,       \* what the caller of each message was told
  answer,     \* the response to each message that is on its way
  stale,      \* messages older than PRIVATE_MESSAGE_MAX_AGE_MS
  enabled,    \* private_messages_enabled
  rate,       \* messages counted in the current window of each sender, at each session
  replay,     \* ReplayCache, the oldest entry first
  shown       \* private-message events, in their order

senderVars == <<from, to, tracked, outbound, awaited, told>>
receiverVars == <<enabled, rate, replay, shown>>
messageVars == <<senderVars, answer, stale, receiverVars>>
vars == <<presenceVars, messageVars>>

Told == {"nothing", "delivered", "failed"}
Sent == {m \in Message : from[m] # None}

TypeOK ==
  /\ PresenceTypeOK
  /\ from \in [Message -> Peer \cup {None}]
  /\ to \in [Message -> Peer \cup {None}]
  /\ \A m \in Sent : to[m] # None /\ to[m] # from[m]
  /\ told \in [Message -> Told]
  /\ answer \in [Message -> {"none", "accepted", "refused"}]
  /\ stale \subseteq Sent
  /\ enabled \in [Peer -> BOOLEAN]
  /\ rate \in [Peer -> [Peer -> 0..MaxRate]]
  /\ \A p \in Peer :
       /\ \A q \in {tracked[p], outbound[p], awaited[p]} : q \subseteq Sent
       /\ Len(replay[p]) <= MaxReplay
       /\ IsInjective(replay[p])

Init ==
  /\ PresenceInit
  /\ from = [m \in Message |-> None]
  /\ to = [m \in Message |-> None]
  /\ tracked = [p \in Peer |-> {}]
  /\ outbound = [p \in Peer |-> {}]
  /\ awaited = [p \in Peer |-> {}]
  /\ told = [m \in Message |-> "nothing"]
  /\ answer = [m \in Message |-> "none"]
  /\ stale = {}
  /\ enabled = [p \in Peer |-> TRUE]
  /\ rate = [p \in Peer |-> [q \in Peer |-> 0]]
  /\ replay = [p \in Peer |-> <<>>]
  /\ shown = [p \in Peer |-> <<>>]

-----------------------------------------------------------------------------
(* The sender *)

FreshMessage == CHOOSE m \in Message : from[m] = None

SendPrivateMessage(n, m, target) ==
  /\ n \in Sender /\ stage[n] = "running" /\ target \in peers[n]
  /\ from[m] = None /\ m = FreshMessage
  /\ from' = [from EXCEPT ![m] = n]
  /\ to' = [to EXCEPT ![m] = target]
  /\ tracked' = [tracked EXCEPT ![n] = @ \cup {m}]
  /\ outbound' = [outbound EXCEPT ![n] = @ \cup {m}]
  /\ awaited' = [awaited EXCEPT ![n] = @ \cup {m}]
  /\ UNCHANGED <<presenceVars, told, answer, stale, receiverVars>>

\* Mutant of Reply: only a delivery is reported.
ReplyIfDelivered(n, m, what) ==
  IF what = "delivered"
  THEN awaited' = [awaited EXCEPT ![n] = @ \ {m}] /\ told' = [told EXCEPT ![m] = what]
  ELSE UNCHANGED <<awaited, told>>

\* A reply is sent to the caller of m, if there is one.
Reply(n, m, what) ==
  /\ awaited' = [awaited EXCEPT ![n] = @ \ {m}]
  /\ told' = [told EXCEPT ![m] = IF m \in awaited[n] THEN what ELSE @]

\* SecureControlClient::handle_response, for the peer that was asked.
Answered(n, m) == tracked' = [tracked EXCEPT ![n] = @ \ {m}]

OnResponse(n, m) ==
  /\ stage[n] = "running" /\ m \in outbound[n] /\ answer[m] # "none"
  /\ outbound' = [outbound EXCEPT ![n] = @ \ {m}]
  /\ Answered(n, m)
  /\ Reply(n, m, IF answer[m] = "accepted" THEN "delivered" ELSE "failed")
  /\ answer' = [answer EXCEPT ![m] = "none"]
  /\ UNCHANGED <<presenceVars, from, to, stale, receiverVars>>

Cancelled(n, m) == tracked' = [tracked EXCEPT ![n] = @ \ {m}]

\* The dial failed, the connection closed, or CONTROL_REQUEST_TIMEOUT_SECS went by.
OnOutboundFailure(n, m) ==
  /\ stage[n] = "running" /\ m \in outbound[n]
  /\ outbound' = [outbound EXCEPT ![n] = @ \ {m}]
  /\ Cancelled(n, m)
  /\ Reply(n, m, "failed")
  /\ answer' = [answer EXCEPT ![m] = "none"]
  /\ UNCHANGED <<presenceVars, from, to, stale, receiverVars>>

-----------------------------------------------------------------------------
(* The receiver *)

\* ReplayCache::accept of an id that is not in the cache.
Remembered(p, m) ==
  Append(IF Len(replay[p]) >= MaxReplay THEN Tail(replay[p]) ELSE replay[p], m)

\* What is refused before the limiter is asked: the policy, then the sender's presence, then
\* the message itself.
Valid(p, m) == enabled[p] /\ from[m] \in peers[p] /\ m \notin stale

Known(p, m) == m \in ToSet(replay[p])

\* Mutant of Accepted: the id is looked up first, and so remembered, then the limiter.
AcceptedReplayFirst(p, m) ==
  /\ replay' = [replay EXCEPT ![p] = IF Valid(p, m) /\ ~Known(p, m) THEN Remembered(p, m) ELSE @]
  /\ rate' = [rate EXCEPT ![p][from[m]] =
       IF Valid(p, m) /\ ~Known(p, m) /\ @ < MaxRate THEN @ + 1 ELSE @]
  /\ shown' = [shown EXCEPT ![p] =
       IF Valid(p, m) /\ ~Known(p, m) /\ rate[p][from[m]] < MaxRate THEN Append(@, m) ELSE @]

\* SecureControlRuntime::accept_private_message: what the limiter lets through counts, also
\* if it is a repetition; only what is shown is remembered.
Accepted(p, m) ==
  LET allowed == Valid(p, m) /\ rate[p][from[m]] < MaxRate
      new     == allowed /\ ~Known(p, m) IN
  /\ rate' = [rate EXCEPT ![p][from[m]] = IF allowed THEN @ + 1 ELSE @]
  /\ replay' = [replay EXCEPT ![p] = IF new THEN Remembered(p, m) ELSE @]
  /\ shown' = [shown EXCEPT ![p] = IF new THEN Append(@, m) ELSE @]

\* Mutant of Verdict: the answer does not say what became of the message.
VerdictOfValid(p, m) == IF Valid(p, m) THEN "accepted" ELSE "refused"

Verdict(p, m) == IF shown'[p] # shown[p] THEN "accepted" ELSE "refused"

\* Only the request itself is answered, and only while its sender waits for the answer.
OnPrivateMessage(p, m) ==
  /\ from[m] # None /\ p = to[m] /\ stage[p] = "running"
  /\ Len(shown[p]) < MaxShown
  /\ Accepted(p, m)
  /\ answer' = IF m \in outbound[from[m]] /\ answer[m] = "none"
               THEN [answer EXCEPT ![m] = Verdict(p, m)] ELSE answer
  /\ UNCHANGED <<presenceVars, senderVars, stale, enabled>>

SetPrivateMessagesEnabled(p, on) ==
  /\ stage[p] = "running" /\ enabled[p] # on
  /\ Sender # {p}
  /\ enabled' = [enabled EXCEPT ![p] = on]
  /\ UNCHANGED <<presenceVars, senderVars, answer, stale, rate, replay, shown>>

\* PRIVATE_RATE_WINDOW_SECS after the first message of the window.
RateWindowPasses(p, q) ==
  /\ stage[p] = "running" /\ rate[p][q] > 0
  /\ rate' = [rate EXCEPT ![p][q] = 0]
  /\ UNCHANGED <<presenceVars, senderVars, answer, stale, enabled, replay, shown>>

MessageAges(m) ==
  /\ from[m] # None /\ m \notin stale
  /\ stale' = stale \cup {m}
  /\ UNCHANGED <<presenceVars, senderVars, answer, receiverVars>>

\* Mutant of EntryOld: an entry runs out before its message does.
EntryAny(m) == TRUE

\* PRIVATE_REPLAY_TTL_SECS is twice the age a message may have, and the clock skew less.
EntryOld(m) == m \in stale

ReplayExpires(p) ==
  /\ stage[p] = "running" /\ replay[p] # <<>> /\ EntryOld(Head(replay[p]))
  /\ replay' = [replay EXCEPT ![p] = Tail(@)]
  /\ UNCHANGED <<presenceVars, senderVars, answer, stale, enabled, rate, shown>>

-----------------------------------------------------------------------------
MessageNext ==
  \/ \E n \in Peer, m \in Message :
       \/ \E target \in Peer : SendPrivateMessage(n, m, target)
       \/ OnResponse(n, m) \/ OnOutboundFailure(n, m) \/ OnPrivateMessage(n, m)
  \/ \E m \in Message : MessageAges(m)
  \/ \E p \in Peer :
       \/ ReplayExpires(p)
       \/ \E on \in BOOLEAN : SetPrivateMessagesEnabled(p, on)
       \/ \E q \in Peer : RateWindowPasses(p, q)

Next == (PresenceNext /\ UNCHANGED messageVars) \/ MessageNext

Spec == Init /\ [][Next]_vars

\* Besides what keeps sessions together: every request is answered or fails in time.
Fairness ==
  /\ WF_vars(Tick /\ UNCHANGED messageVars)
  /\ \A n, p \in Peer :
       WF_vars(/\ age[p] >= MinDelay /\ stage[p] = "running"
               /\ OnPresence(n, p, age[p] - MinDelay)
               /\ UNCHANGED messageVars)
  /\ \A n \in Peer, m \in Message : WF_vars(OnResponse(n, m) \/ OnOutboundFailure(n, m))

FairSpec == Spec /\ Fairness

-----------------------------------------------------------------------------
(* Properties *)

\* The client's pending requests, the outbound requests and the waiting callers are three
\* maps that five handlers keep: they are always about the same messages.
CallersMatchRequests == \A p \in Peer : awaited[p] = outbound[p] /\ tracked[p] = outbound[p]

\* A sender is told "delivered" only if the message is on the target's screen.
DeliveredWasShown ==
  \A m \in Message : told[m] = "delivered" => m \in ToSet(shown[to[m]])

\* A message appears a second time only after the cache has had to make room for as many
\* others as it holds: the limits on age and entries are such that time never causes it.
ShownOnce ==
  \A p \in Peer : \A i, j \in DOMAIN shown[p] :
    i < j /\ shown[p][i] = shown[p][j] => j - i > MaxReplay

\* A message that was refused, for whatever reason, can be sent again: the cache holds only
\* what was shown (secure_control_runtime.rs, accept_private_message).
RefusedIsForgotten == \A p \in Peer : ToSet(replay[p]) \subseteq ToSet(shown[p])

\* What is remembered of a message, at its sender and at its target, is what is true of it.
MessageStateIsSound == TypeOK /\ CallersMatchRequests /\ RefusedIsForgotten

\* Every caller gets an answer, unless its session ends first.
CallersAnswered ==
  \A m \in Message, p \in Peer :
    m \in awaited[p] ~> told[m] # "nothing" \/ stage[p] # "running"
=============================================================================
