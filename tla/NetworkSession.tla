--------------------------- MODULE NetworkSession ---------------------------
(***************************************************************************)
(* The life of the network session of the desktop program (lib.rs,         *)
(* AppState) and of the two optional KNP actors it owns: the transport      *)
(* that start_network may spawn and the contact chat of                     *)
(* knp_chat_commands.rs.                                                    *)
(*                                                                         *)
(* The four commands take session_gate and keep it until they return, so   *)
(* one record, call, is the command in progress.  The task of a session    *)
(* ends without the gate, at any time.  Each action is one section of the  *)
(* code between two awaits or under one lock.                              *)
(***************************************************************************)
CONSTANTS
  Session,  \* runs of start_network; each makes its own command channel
  Chat,     \* contact chat sessions
  Profile,  \* chat profiles, directories with an identity and a session.lock
  Nil

ASSUME NilAssumption == Nil \notin Session \cup Chat \cup Profile

VARIABLES
  tx,       \* AppState.tx: the session whose sender is installed
  knp,      \* AppState.kononexus: the session whose transport is installed
  chat,     \* AppState.knp_chat: the installed chat
  owner,    \* KnpChatSession.owner of each chat
  profile,  \* the profile a chat was started on
  actor,    \* the actor task of each chat
  runtime,  \* the transport task of each session
  task,     \* where the spawned task of each session is
  took,     \* what the end of a task took out of AppState, to shut it down
  ready,    \* the oneshot channel from a task to its start_network
  stop,     \* NetworkCommand::Stop is in the session's channel
  call      \* the command that holds session_gate

appState == <<tx, knp, chat>>
chats == <<owner, profile, actor>>
tasks == <<task, took, ready>>
sessionVars == <<appState, chats, runtime, tasks, stop, call>>

TaskAt == {"absent", "starting", "running", "ended", "cleared", "downChat", "downKnp", "done"}
CallAt == {"idle", "ready", "install", "takeChat", "stop", "downKnp", "downChat",
           "spawnChat", "installChat"}
ActorAt == {"absent", "running", "stopping", "closing", "released", "gone"}
KnpAt == {"absent", "running", "stopping", "closing", "gone"}

Calling(at, s, r, c) == [at |-> at, session |-> s, runtime |-> r, chat |-> c]
Idle == Calling("idle", Nil, Nil, Nil)

SessionTypeOK ==
  /\ tx \in Session \cup {Nil}
  /\ knp \in Session \cup {Nil}
  /\ chat \in Chat \cup {Nil}
  /\ owner \in [Chat -> Session \cup {Nil}]
  /\ profile \in [Chat -> Profile \cup {Nil}]
  /\ actor \in [Chat -> ActorAt]
  /\ \A c \in Chat : actor[c] # "absent" => owner[c] # Nil /\ profile[c] # Nil
  /\ runtime \in [Session -> KnpAt]
  /\ task \in [Session -> TaskAt]
  /\ took \in [Session -> [runtime : BOOLEAN, chat : Chat \cup {Nil}]]
  /\ ready \in [Session -> {"waiting", "ok", "lost"}]
  /\ stop \in [Session -> BOOLEAN]
  /\ call \in [at : CallAt, session : Session \cup {Nil}, runtime : Session \cup {Nil},
               chat : Chat \cup {Nil}]

SessionInit ==
  /\ tx = Nil
  /\ knp = Nil
  /\ chat = Nil
  /\ owner = [c \in Chat |-> Nil]
  /\ profile = [c \in Chat |-> Nil]
  /\ actor = [c \in Chat |-> "absent"]
  /\ runtime = [s \in Session |-> "absent"]
  /\ task = [s \in Session |-> "absent"]
  /\ took = [s \in Session |-> [runtime |-> FALSE, chat |-> Nil]]
  /\ ready = [s \in Session |-> "waiting"]
  /\ stop = [s \in Session |-> FALSE]
  /\ call = Idle

\* A fresh channel and a fresh session id: any that was not used yet will do.
FreshSession == CHOOSE s \in Session : task[s] = "absent"
FreshChat == CHOOSE c \in Chat : actor[c] = "absent"

\* The compare of AppState's sender with a session's own channel (same_channel).
Current(s) == tx = s

\* run() owns profile_lock until its last steps.
HoldsLock(c) == actor[c] \in {"running", "stopping", "closing"}
LockHeld(p) == \E c \in Chat : profile[c] = p /\ HoldsLock(c)

-----------------------------------------------------------------------------
(* start_network *)

StartNetwork(s) ==
  /\ call = Idle
  /\ tx = Nil
  /\ task[s] = "absent" /\ s = FreshSession
  /\ tx' = s
  /\ task' = [task EXCEPT ![s] = "starting"]
  /\ call' = Calling("ready", s, Nil, Nil)
  /\ UNCHANGED <<knp, chat, chats, runtime, took, ready, stop>>

\* The task dropped its end of the ready channel: only the sender is withdrawn here.
StartFails ==
  /\ call.at = "ready"
  /\ ready[call.session] = "lost"
  /\ tx' = IF Current(call.session) THEN Nil ELSE tx
  /\ call' = Idle
  /\ UNCHANGED <<knp, chat, chats, runtime, tasks, stop>>

\* No KNP transport is wanted, or it could not be spawned.
StartReturns ==
  /\ call.at = "ready"
  /\ ready[call.session] = "ok"
  /\ call' = Idle
  /\ UNCHANGED <<appState, chats, runtime, tasks, stop>>

SpawnKnp ==
  /\ call.at = "ready"
  /\ ready[call.session] = "ok"
  /\ runtime' = [runtime EXCEPT ![call.session] = "running"]
  /\ call' = [call EXCEPT !.at = "install"]
  /\ UNCHANGED <<appState, chats, tasks, stop>>

\* Which transport the start has to shut down after install_kononexus_if_current.
Displaced(s) == IF Current(s) THEN knp ELSE s

\* Mutant of InstallKnp: installed without asking whose session it is.
InstallKnpAnyway ==
  /\ call.at = "install"
  /\ knp' = call.session
  /\ call' = IF knp = Nil THEN Idle ELSE Calling("downKnp", Nil, knp, Nil)
  /\ UNCHANGED <<tx, chat, chats, runtime, tasks, stop>>

InstallKnp ==
  LET s == call.session IN
  /\ call.at = "install"
  /\ knp' = IF Current(s) THEN s ELSE knp
  /\ call' = IF Displaced(s) = Nil THEN Idle ELSE Calling("downKnp", Nil, Displaced(s), Nil)
  /\ UNCHANGED <<tx, chat, chats, runtime, tasks, stop>>

-----------------------------------------------------------------------------
(* The task of a session *)

TaskReady(s) ==
  /\ task[s] = "starting"
  /\ task' = [task EXCEPT ![s] = "running"]
  /\ ready' = [ready EXCEPT ![s] = "ok"]
  /\ UNCHANGED <<appState, chats, runtime, took, stop, call>>

\* network_task returned an error before it was ready.
TaskFails(s) ==
  /\ task[s] = "starting"
  /\ task' = [task EXCEPT ![s] = "ended"]
  /\ ready' = [ready EXCEPT ![s] = "lost"]
  /\ UNCHANGED <<appState, chats, runtime, took, stop, call>>

TaskStops(s) ==
  /\ task[s] = "running"
  /\ stop[s]
  /\ task' = [task EXCEPT ![s] = "ended"]
  /\ UNCHANGED <<appState, chats, runtime, took, ready, stop, call>>

\* A nickname conflict leaves the loop without a Stop.
TaskLeaves(s) ==
  /\ task[s] = "running"
  /\ task' = [task EXCEPT ![s] = "ended"]
  /\ UNCHANGED <<appState, chats, runtime, took, ready, stop, call>>

\* clear_network_session_if_current
TaskClears(s) ==
  /\ task[s] = "ended"
  /\ task' = [task EXCEPT ![s] = "cleared"]
  /\ IF Current(s)
     THEN /\ tx' = Nil
          /\ took' = [took EXCEPT ![s].runtime = knp = s]
          /\ knp' = IF knp = s THEN Nil ELSE knp
     ELSE UNCHANGED <<tx, knp, took>>
  /\ UNCHANGED <<chat, chats, runtime, ready, stop, call>>

OwnsChat(s) == chat # Nil /\ owner[chat] = s

\* take_knp_chat_for_owner; the await of the chat's end, then of the transport's.
TaskTakesChat(s) ==
  /\ task[s] = "cleared"
  /\ IF OwnsChat(s)
     THEN /\ took' = [took EXCEPT ![s].chat = chat]
          /\ chat' = Nil
     ELSE UNCHANGED <<took, chat>>
  /\ task' = [task EXCEPT ![s] = "downChat"]
  /\ UNCHANGED <<tx, knp, chats, runtime, ready, stop, call>>

\* Mutant of ChatDown: the reply comes before the lock file is closed.
ChatNotRunning(c) == c # Nil => actor[c] # "running"

\* shutdown() returns with the reply to its Stop, the last thing an actor does that took
\* one, or at once when the actor has ended by itself: its commands are closed then, and
\* the replies queued in them dropped, before anything it owns is given up.
ChatDown(c) == c # Nil => actor[c] \in {"closing", "gone"}
KnpDown(s) == s # Nil => runtime[s] \in {"closing", "gone"}

TaskEndsChat(s) ==
  /\ task[s] = "downChat"
  /\ ChatDown(took[s].chat)
  /\ task' = [task EXCEPT ![s] = "downKnp"]
  /\ UNCHANGED <<appState, chats, runtime, took, ready, stop, call>>

TaskEnds(s) ==
  /\ task[s] = "downKnp"
  /\ took[s].runtime => KnpDown(s)
  /\ task' = [task EXCEPT ![s] = "done"]
  /\ UNCHANGED <<appState, chats, runtime, took, ready, stop, call>>

-----------------------------------------------------------------------------
(* disconnect_network *)

\* Mutant of Disconnect: the transport is taken out and not shut down.
DisconnectForgettingKnp ==
  /\ call = Idle
  /\ call' = Calling("takeChat", tx, Nil, Nil)
  /\ tx' = Nil
  /\ knp' = Nil
  /\ UNCHANGED <<chat, chats, runtime, tasks, stop>>

Disconnect ==
  /\ call = Idle
  /\ call' = Calling("takeChat", tx, knp, Nil)
  /\ tx' = Nil
  /\ knp' = Nil
  /\ UNCHANGED <<chat, chats, runtime, tasks, stop>>

DisconnectTakesChat ==
  LET mine == call.session # Nil /\ OwnsChat(call.session) IN
  /\ call.at = "takeChat"
  /\ call' = [call EXCEPT !.at = "stop", !.chat = IF mine THEN chat ELSE Nil]
  /\ chat' = IF mine THEN Nil ELSE chat
  /\ UNCHANGED <<tx, knp, chats, runtime, tasks, stop>>

\* The send of Stop; the receiver of an ended task is gone and the error is ignored.
DisconnectStops ==
  /\ call.at = "stop"
  /\ stop' = [s \in Session |-> stop[s] \/ s = call.session]
  /\ call' = [call EXCEPT !.at = "downKnp"]
  /\ UNCHANGED <<appState, chats, runtime, tasks>>

CallEndsKnp ==
  /\ call.at = "downKnp"
  /\ KnpDown(call.runtime)
  /\ call' = [call EXCEPT !.at = "downChat"]
  /\ UNCHANGED <<appState, chats, runtime, tasks, stop>>

CallEndsChat ==
  /\ call.at = "downChat"
  /\ ChatDown(call.chat)
  /\ call' = Idle
  /\ UNCHANGED <<appState, chats, runtime, tasks, stop>>

-----------------------------------------------------------------------------
(* start_knp_chat and stop_knp_chat *)

StartChat ==
  /\ call = Idle
  /\ tx # Nil
  /\ chat = Nil
  /\ call' = Calling("spawnChat", tx, Nil, Nil)
  /\ UNCHANGED <<appState, chats, runtime, tasks, stop>>

\* The profile is locked by another chat, or the chat could not be spawned.
ChatRefused ==
  /\ call.at = "spawnChat"
  /\ call' = Idle
  /\ UNCHANGED <<appState, chats, runtime, tasks, stop>>

SpawnChat(c, p) ==
  /\ call.at = "spawnChat"
  /\ actor[c] = "absent" /\ c = FreshChat
  /\ ~LockHeld(p)
  /\ actor' = [actor EXCEPT ![c] = "running"]
  /\ owner' = [owner EXCEPT ![c] = call.session]
  /\ profile' = [profile EXCEPT ![c] = p]
  /\ call' = [call EXCEPT !.at = "installChat", !.chat = c]
  /\ UNCHANGED <<appState, runtime, tasks, stop>>

\* Installed only if the session that was current at the start still is.
InstallChat ==
  /\ call.at = "installChat"
  /\ IF Current(call.session)
     THEN chat' = call.chat /\ call' = Idle
     ELSE call' = [call EXCEPT !.at = "downChat"] /\ UNCHANGED chat
  /\ UNCHANGED <<tx, knp, chats, runtime, tasks, stop>>

SnapshotFails ==
  /\ call.at = "installChat"
  /\ actor[call.chat] # "running"
  /\ call' = [call EXCEPT !.at = "downChat"]
  /\ UNCHANGED <<appState, chats, runtime, tasks, stop>>

StopChat ==
  /\ call = Idle
  /\ chat # Nil
  /\ call' = Calling("downChat", Nil, Nil, chat)
  /\ chat' = Nil
  /\ UNCHANGED <<tx, knp, chats, runtime, tasks, stop>>

-----------------------------------------------------------------------------
(* The actors.  A shutdown sends the actor a request and awaits its reply. *)

AskedChat(c) ==
  \/ call.at = "downChat" /\ call.chat = c
  \/ \E s \in Session : task[s] = "downChat" /\ took[s].chat = c

AskedKnp(s) ==
  \/ call.at = "downKnp" /\ call.runtime = s
  \/ task[s] = "downKnp" /\ took[s].runtime

ActorGoes(c, at) ==
  /\ actor' = [actor EXCEPT ![c] = at]
  /\ UNCHANGED <<appState, owner, profile, runtime, tasks, stop, call>>

\* The run loop of a chat takes a Stop, or ends because its transport has; its commands
\* are closed before anything else.
ChatStops(c) == actor[c] = "running" /\ AskedChat(c) /\ ActorGoes(c, "stopping")
ChatCloses(c) == actor[c] = "running" /\ ActorGoes(c, "closing")

\* Mutant of AfterClosing: the caller of shutdown is never answered.
AfterClosingSilent(at) == IF at = "closing" THEN "gone" ELSE "released"

\* What follows the close of the commands: the transport ends, then the lock file is
\* closed, then the caller of shutdown is answered, if there is one.
AfterClosing(at) == IF at = "stopping" THEN "released" ELSE "gone"

ChatReleases(c) ==
  /\ actor[c] \in {"stopping", "closing", "released"}
  /\ ActorGoes(c, AfterClosing(actor[c]))

RuntimeGoes(s, at) ==
  /\ runtime' = [runtime EXCEPT ![s] = at]
  /\ UNCHANGED <<appState, chats, tasks, stop, call>>

\* The same of a transport, which owns no lock.
KnpStops(s) == runtime[s] = "running" /\ AskedKnp(s) /\ RuntimeGoes(s, "stopping")
KnpCloses(s) == runtime[s] = "running" /\ RuntimeGoes(s, "closing")
KnpEnds(s) == runtime[s] \in {"stopping", "closing"} /\ RuntimeGoes(s, "gone")

-----------------------------------------------------------------------------
TaskNext(s) ==
  \/ TaskReady(s) \/ TaskFails(s) \/ TaskStops(s) \/ TaskLeaves(s)
  \/ TaskClears(s) \/ TaskTakesChat(s) \/ TaskEndsChat(s) \/ TaskEnds(s)

CallNext ==
  \/ StartFails \/ StartReturns \/ SpawnKnp \/ InstallKnp
  \/ DisconnectTakesChat \/ DisconnectStops \/ CallEndsKnp \/ CallEndsChat
  \/ ChatRefused \/ (\E c \in Chat, p \in Profile : SpawnChat(c, p))
  \/ InstallChat \/ SnapshotFails

ActorNext ==
  \/ \E c \in Chat : ChatStops(c) \/ ChatCloses(c) \/ ChatReleases(c)
  \/ \E s \in Session : KnpStops(s) \/ KnpCloses(s) \/ KnpEnds(s)

SessionNext ==
  \/ \E s \in Session : StartNetwork(s) \/ TaskNext(s)
  \/ Disconnect \/ StartChat \/ StopChat
  \/ CallNext
  \/ ActorNext

SessionSpec == SessionInit /\ [][SessionNext]_sessionVars

\* The tasks and actors are run by the executor, a command goes on when what it awaits
\* is there, and an actor that is asked to stop reads that request.  Nothing makes the
\* user call a command, a task leave by itself or an actor fail.
SessionFairness ==
  /\ \A s \in Session :
       /\ WF_sessionVars(TaskReady(s) \/ TaskFails(s))
       /\ WF_sessionVars(TaskStops(s))
       /\ WF_sessionVars(TaskClears(s) \/ TaskTakesChat(s) \/ TaskEndsChat(s) \/ TaskEnds(s))
       /\ WF_sessionVars(KnpStops(s))
       /\ WF_sessionVars(KnpEnds(s))
  /\ \A c \in Chat :
       /\ WF_sessionVars(ChatStops(c))
       /\ WF_sessionVars(ChatReleases(c))
  /\ WF_sessionVars(CallNext)

SessionFairSpec == SessionSpec /\ SessionFairness

-----------------------------------------------------------------------------
(* Properties *)

\* A session task that runs can be told to stop: its sender is installed, or Stop was
\* sent or is about to be.  Clearing the sender of another session would leave a task
\* that no command reaches (lib.rs, clear_network_session_if_current).
RunningTaskIsReachable ==
  \A s \in Session : task[s] \in {"starting", "running"} =>
    \/ tx = s
    \/ stop[s]
    \/ call.session = s /\ call.at \in {"takeChat", "stop"}

\* The installed transport and the installed chat belong to the current session; a chat
\* may outlive its session only until the end of that session, or the Disconnect that
\* took it, reaches it.
InstalledBelongsToSession ==
  /\ knp # Nil => knp = tx
  /\ chat # Nil =>
       \/ tx = owner[chat]
       \/ task[owner[chat]] \in {"ended", "cleared"}
       \/ call.at = "takeChat" /\ call.session = owner[chat]

\* No actor is lost: one that runs is installed, or a command or an ending task has it,
\* which stays with it while it stops on request.
RunningActorsAreHeld ==
  /\ \A s \in Session : runtime[s] \in {"running", "stopping"} =>
       \/ knp = s
       \/ call.at = "install" /\ call.session = s
       \/ call.at \in {"takeChat", "stop", "downKnp"} /\ call.runtime = s
       \/ took[s].runtime /\ task[s] # "done"
  /\ \A c \in Chat : actor[c] \in {"running", "stopping"} =>
       \/ chat = c
       \/ call.at \in {"installChat", "stop", "downKnp", "downChat"} /\ call.chat = c
       \/ \E s \in Session : took[s].chat = c /\ task[s] = "downChat"

\* Whatever runs can be stopped by the command that is meant to.
ActorsAreReachable ==
  SessionTypeOK /\ RunningTaskIsReachable /\ InstalledBelongsToSession /\ RunningActorsAreHeld

\* When a command that shut a chat down returns, no chat has the lock of its profile: the
\* reply to Stop is the last thing the actor does (knp_chat.rs, run), and nobody else started
\* on the profile meanwhile.  The exception is a chat that has ended by itself, for which the
\* command does not wait: it may still have the lock, and lets it go a little later.
ShutdownFreesProfile ==
  [][\A c \in Chat : call.chat = c /\ call.at = "downChat" /\ call' = Idle =>
       \A d \in Chat : profile[d] = profile[c] /\ HoldsLock(d)' => actor'[d] = "closing"
    ]_sessionVars

\* A session that was stopped, or whose loop was left, ends, and with it its transport and
\* its chats, the ones included that were being started meanwhile.
SessionsEnd ==
  \A s \in Session :
    (stop[s] \/ task[s] = "ended") ~>
         /\ task[s] = "done"
         /\ runtime[s] \in {"absent", "gone"}
         /\ \A c \in Chat : owner[c] = s => actor[c] = "gone"

\* No command keeps session_gate for ever: none waits for a reply that never comes.
GateIsReleased == []<>(call = Idle)
=============================================================================
