------------------------------ MODULE Presence ------------------------------
(***************************************************************************)
(* Who is online and who keeps a nickname (lib.rs, network_task).  Every    *)
(* session has an identity of its own; at each heartbeat and at each new    *)
(* connection it publishes a Presence and a NickClaim that carry its age.   *)
(* A session that hears of an older one, or of one about as old with a      *)
(* smaller Peer ID, under its own nickname leaves the network.              *)
(*                                                                         *)
(* Peer IDs are numbers, ordered as PeerId is.  Time goes by in steps; a    *)
(* claim is on its way for at least MinDelay of them, and may be delivered  *)
(* any time later, again or never: every age that a session has had is then *)
(* the age of some claim.  Time stops when a session is MaxAge old; the     *)
(* differences between ages, which decide everything, stay the same.        *)
(***************************************************************************)
EXTENDS Naturals

CONSTANTS
  Peer,     \* sessions, with their Peer IDs
  Nick,
  Choice,   \* bound: the nicknames each session may start with
  Window,   \* NICK_SESSION_AGE_TIE_WINDOW_MS
  MinDelay, \* the least time a claim takes
  MaxAge,   \* bound
  None

ASSUME PeerAssumption == Peer \subseteq Nat /\ Choice \in [Peer -> SUBSET Nick]
ASSUME TimeAssumption == {Window, MinDelay, MaxAge} \subseteq Nat
ASSUME NoneAssumption == None \notin Peer \cup Nick

VARIABLES
  stage,   \* "new", "running", "left" on a nickname conflict, or "stopped" by the user
  nick,    \* the nickname of each session
  age,     \* session_age_ms
  winner,  \* whose claim made a session leave
  peers    \* peers of each session, whose Presence it has

presenceVars == <<stage, nick, age, winner, peers>>

Stage == {"new", "running", "left", "stopped"}
Running == {p \in Peer : stage[p] = "running"}

PresenceTypeOK ==
  /\ stage \in [Peer -> Stage]
  /\ nick \in [Peer -> Nick \cup {None}]
  /\ age \in [Peer -> 0..MaxAge]
  /\ winner \in [Peer -> Peer \cup {None}]
  /\ peers \in [Peer -> SUBSET Peer]
  /\ \A p \in Peer :
       /\ peers[p] \subseteq {q \in Peer \ {p} : stage[q] # "new"}
       /\ (winner[p] # None) = (stage[p] = "left")

PresenceInit ==
  /\ stage = [p \in Peer |-> "new"]
  /\ nick = [p \in Peer |-> None]
  /\ age = [p \in Peer |-> 0]
  /\ winner = [p \in Peer |-> None]
  /\ peers = [p \in Peer |-> {}]

Start(p, name) ==
  /\ stage[p] = "new" /\ name \in Choice[p]
  /\ stage' = [stage EXCEPT ![p] = "running"]
  /\ nick' = [nick EXCEPT ![p] = name]
  /\ UNCHANGED <<age, winner, peers>>

Tick ==
  /\ Running # {}
  /\ \A p \in Peer : age[p] < MaxAge
  /\ age' = [p \in Peer |-> IF p \in Running THEN age[p] + 1 ELSE age[p]]
  /\ UNCHANGED <<stage, nick, winner, peers>>

\* The ages that claims of p which may arrive now carry.
Claimed(p) ==
  {a \in 0..age[p] : stage[p] = "running" => a + MinDelay <= age[p]}

AbsDiff(a, b) == IF a < b THEN b - a ELSE a - b

\* Mutant of Wins: in the window it is the age again that decides.
WinsByAge(remote, remoteAge, local, localAge) == remoteAge >= localAge

\* check_nick_conflict, for two different peers under one nickname.
Wins(remote, remoteAge, local, localAge) ==
  IF AbsDiff(remoteAge, localAge) <= Window THEN remote < local ELSE remoteAge > localAge

\* Mutant of Conflicts: a peer that is known already is not asked again.
ConflictsIfNew(n, p, a) ==
  p \notin peers[n] /\ nick[p] = nick[n] /\ Wins(p, a, n, age[n])

Conflicts(n, p, a) == nick[p] = nick[n] /\ Wins(p, a, n, age[n])

\* The loop is left as it is: no Goodbye, no RoomClose, nothing of what Stop does.
Leave(n, p) ==
  /\ stage' = [stage EXCEPT ![n] = "left"]
  /\ winner' = [winner EXCEPT ![n] = p]
  /\ peers' = [peers EXCEPT ![n] = {}]
  /\ UNCHANGED <<nick, age>>

OnPresence(n, p, a) ==
  /\ stage[n] = "running" /\ n # p
  /\ stage[p] # "new" /\ a \in Claimed(p)
  /\ IF Conflicts(n, p, a)
     THEN Leave(n, p)
     ELSE /\ peers' = [peers EXCEPT ![n] = @ \cup {p}]
          /\ UNCHANGED <<stage, nick, age, winner>>

\* The NickClaim of the same age.  One that is too old is dropped, as if it had been lost.
OnNickClaim(n, p, a) ==
  /\ stage[n] = "running" /\ n # p
  /\ stage[p] # "new" /\ a \in Claimed(p)
  /\ Conflicts(n, p, a)
  /\ Leave(n, p)

Stop(p) ==
  /\ stage[p] = "running"
  /\ stage' = [stage EXCEPT ![p] = "stopped"]
  /\ peers' = [peers EXCEPT ![p] = {}]
  /\ UNCHANGED <<nick, age, winner>>

Forgets(n, p) ==
  /\ p \in peers[n]
  /\ peers' = [peers EXCEPT ![n] = @ \ {p}]
  /\ UNCHANGED <<stage, nick, age, winner>>

\* Only Stop publishes a Goodbye.
OnGoodbye(n, p) == stage[p] = "stopped" /\ Forgets(n, p)

\* No Presence of p came for PRESENCE_TTL_SECS.
PresenceExpires(n, p) == Forgets(n, p)

PresenceNext ==
  \/ Tick
  \/ \E p \in Peer : Stop(p) \/ \E name \in Nick : Start(p, name)
  \/ \E n, p \in Peer :
       \/ OnGoodbye(n, p)
       \/ PresenceExpires(n, p)
       \/ \E a \in 0..MaxAge : OnPresence(n, p, a) \/ OnNickClaim(n, p, a)

\* Time goes by, and a session hears of every other one again and again, each time as soon
\* as a claim can arrive.  Heartbeats repeat claims, so the loss of some does not matter.
PresenceFairness ==
  /\ WF_presenceVars(Tick)
  /\ \A n, p \in Peer :
       WF_presenceVars(age[p] >= MinDelay /\ stage[p] = "running"
                         /\ OnPresence(n, p, age[p] - MinDelay))

PresenceSpec == PresenceInit /\ [][PresenceNext]_presenceVars

-----------------------------------------------------------------------------
(* Properties *)

\* Two sessions never both give a nickname up on account of one another, whatever the order
\* and the delay of their claims (lib.rs, check_nick_conflict).
OneOfTwoStays == \A p, q \in Peer : ~(winner[p] = q /\ winner[q] = p)

\* "The older active session ... keeps the nickname": a session that leaves for another
\* does not leave for one that is younger by more than the window.
NoYoungerWinner ==
  \A p \in Peer : winner[p] # None => age[p] <= age[winner[p]] + Window

\* Rivals decide the same way: at most one leaves, and not the one that was there first.
RivalsAgree == OneOfTwoStays /\ NoYoungerWinner

Rivals(p, q) == {p, q} \subseteq Running /\ p # q /\ nick[p] = nick[q]

\* A claim of p that takes no longer than it must is one q yields to.
Beats(p, q) == age[p] >= MinDelay /\ Wins(p, age[p] - MinDelay, q, age[q])

\* Of two sessions that hear each other under one nickname one leaves, if a prompt claim of
\* either can decide it.  Where the younger has the smaller Peer ID and the ages differ by
\* about the window, none can: the elder's claim arrives as one in the window, the other's
\* as one outside of it.
RivalsPart == \A p, q \in Peer : Rivals(p, q) /\ Beats(p, q) ~> ~Rivals(p, q)
=============================================================================
