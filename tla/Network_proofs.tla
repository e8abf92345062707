--------------------------- MODULE Network_proofs ---------------------------
(***************************************************************************)
(* Theorems about the network of the program: its sessions and the actors  *)
(* they own (NetworkSession), what a node does because it can be reached   *)
(* (Reachability), and how it gets its connections (Dialing, ColdStart).   *)
(* The three share no state.                                               *)
(***************************************************************************)
EXTENDS NetworkSession, Reachability, ColdStart, SequenceTheorems, FiniteSetTheorems, TLAPS

-----------------------------------------------------------------------------
(***************************************************************************)
(* NetworkSession.  Whatever a network session starts can be stopped by    *)
(* the command that is meant to, and what is shut down is shut down when   *)
(* the command returns, for any number of sessions, chats and profiles.    *)
(*                                                                         *)
(* session_gate lets one command in at a time, but the end of a task does  *)
(* not take it.  So the argument is about what a command has found and may *)
(* still rely on after an await (CallIsSound), and about what the end of a *)
(* task has taken out of AppState (TasksAreSound).                         *)
(***************************************************************************)
\* What the end of a task has taken, and what a session that has not begun cannot have
TasksAreSound ==
  \A s \in Session :
    /\ ready[s] = "lost" => task[s] \notin {"absent", "starting", "running"}
    /\ task[s] \in {"absent", "starting", "running", "ended"} => ~took[s].runtime
    /\ task[s] = "absent" => tx # s /\ call.session # s /\ \A c \in Chat : owner[c] # s

\* What the command that holds session_gate has found before
CallIsSound ==
  /\ call.at \in {"ready", "install"} => call.session \in Session /\ knp # call.session
  /\ call.at = "ready" => \A c \in Chat : owner[c] # call.session
  /\ call.at \in {"spawnChat", "installChat"} => call.session \in Session /\ chat = Nil
  /\ call.at = "installChat" => /\ call.chat \in Chat /\ actor[call.chat] # "absent"
                                /\ owner[call.chat] = call.session
  /\ chat # Nil => actor[chat] # "absent"

SessionInv == ActorsAreReachable /\ TasksAreSound /\ CallIsSound

\* A profile is locked by one chat at most, and by no other than the chat that is installed
\* or that a command has, if that chat was started on it.
LocksAreSound ==
  \A c, d \in Chat : profile[c] = profile[d] /\ HoldsLock(d) /\ c # d =>
    ~HoldsLock(c) /\ chat # c /\ call.chat # c

\* What ShutdownFreesProfile says of a step
Frees ==
  \A c \in Chat : call.chat = c /\ call.at = "downChat" /\ call' = Idle =>
    \A d \in Chat : profile[d] = profile[c] /\ HoldsLock(d)' => actor'[d] = "closing"

\* The flag is set, and nothing else of what was taken.
LEMMA TakenRuntime ==
  ASSUME SessionTypeOK, NEW s \in Session, NEW b \in BOOLEAN,
  took' = [took EXCEPT ![s].runtime = b]
  PROVE  /\ took' \in [Session -> [runtime : BOOLEAN, chat : Chat \cup {Nil}]]
         /\ \A r \in Session : /\ took'[r].chat = took[r].chat
                              /\ took'[r].runtime = IF r = s THEN b ELSE took[r].runtime
BY DEF SessionTypeOK

-----------------------------------------------------------------------------
(* The steps.                                                              *)

\* No sender is installed, so neither is a transport, and no chat is of this session.
LEMMA StartNetworkInv == ASSUME SessionInv, NEW s \in Session, StartNetwork(s) PROVE SessionInv'
<1> USE NilAssumption DEF SessionInv, ActorsAreReachable, StartNetwork, appState, chats, tasks,
        Calling, Idle
<1>1. SessionTypeOK'
  BY DEF SessionTypeOK, TaskAt, CallAt, ActorAt, CallIsSound
<1>2. RunningTaskIsReachable'
  BY DEF SessionTypeOK, RunningTaskIsReachable, TasksAreSound
<1>3. InstalledBelongsToSession'
  BY DEF SessionTypeOK, InstalledBelongsToSession, TasksAreSound, CallIsSound
<1>4. RunningActorsAreHeld'
  BY DEF SessionTypeOK, RunningActorsAreHeld, InstalledBelongsToSession, TasksAreSound,
         CallIsSound
<1>5. TasksAreSound'
  BY DEF SessionTypeOK, TasksAreSound, CallIsSound
<1>6. CallIsSound'
  BY DEF SessionTypeOK, InstalledBelongsToSession, TasksAreSound, CallIsSound
<1> QED
  BY <1>1, <1>2, <1>3, <1>4, <1>5, <1>6

\* The task goes on, and its start hears of it.
LEMMA TaskReadyInv == ASSUME SessionInv, NEW s \in Session, TaskReady(s) PROVE SessionInv'
<1> USE NilAssumption DEF SessionInv, ActorsAreReachable, TaskReady, appState, chats, tasks
<1>1. SessionTypeOK'
  BY DEF SessionTypeOK, TaskAt, CallAt, ActorAt, CallIsSound
<1>2. RunningTaskIsReachable'
  BY DEF SessionTypeOK, RunningTaskIsReachable, TasksAreSound
<1>3. InstalledBelongsToSession'
  BY DEF SessionTypeOK, InstalledBelongsToSession, TasksAreSound, CallIsSound
<1>4. RunningActorsAreHeld'
  BY DEF SessionTypeOK, RunningActorsAreHeld, InstalledBelongsToSession, TasksAreSound,
         CallIsSound
<1>5. TasksAreSound'
  BY DEF SessionTypeOK, TasksAreSound, CallIsSound
<1>6. CallIsSound'
  BY DEF SessionTypeOK, InstalledBelongsToSession, TasksAreSound, CallIsSound
<1> QED
  BY <1>1, <1>2, <1>3, <1>4, <1>5, <1>6

\* The start will withdraw the sender; the task has taken nothing yet.
LEMMA TaskFailsInv == ASSUME SessionInv, NEW s \in Session, TaskFails(s) PROVE SessionInv'
<1> USE NilAssumption DEF SessionInv, ActorsAreReachable, TaskFails, appState, chats, tasks
<1>1. SessionTypeOK'
  BY DEF SessionTypeOK, TaskAt, CallAt, ActorAt, CallIsSound
<1>2. RunningTaskIsReachable'
  BY DEF SessionTypeOK, RunningTaskIsReachable, TasksAreSound
<1>3. InstalledBelongsToSession'
  BY DEF SessionTypeOK, InstalledBelongsToSession, TasksAreSound, CallIsSound
<1>4. RunningActorsAreHeld'
  BY DEF SessionTypeOK, RunningActorsAreHeld, InstalledBelongsToSession, TasksAreSound,
         CallIsSound
<1>5. TasksAreSound'
  BY DEF SessionTypeOK, TasksAreSound, CallIsSound
<1>6. CallIsSound'
  BY DEF SessionTypeOK, InstalledBelongsToSession, TasksAreSound, CallIsSound
<1> QED
  BY <1>1, <1>2, <1>3, <1>4, <1>5, <1>6

\* The task ends, and is to clear what is its own.
LEMMA TaskStopsInv == ASSUME SessionInv, NEW s \in Session, TaskStops(s) PROVE SessionInv'
<1> USE NilAssumption DEF SessionInv, ActorsAreReachable, TaskStops, appState, chats, tasks
<1>1. SessionTypeOK'
  BY DEF SessionTypeOK, TaskAt, CallAt, ActorAt, CallIsSound
<1>2. RunningTaskIsReachable'
  BY DEF SessionTypeOK, RunningTaskIsReachable, TasksAreSound
<1>3. InstalledBelongsToSession'
  BY DEF SessionTypeOK, InstalledBelongsToSession, TasksAreSound, CallIsSound
<1>4. RunningActorsAreHeld'
  BY DEF SessionTypeOK, RunningActorsAreHeld, InstalledBelongsToSession, TasksAreSound,
         CallIsSound
<1>5. TasksAreSound'
  BY DEF SessionTypeOK, TasksAreSound, CallIsSound
<1>6. CallIsSound'
  BY DEF SessionTypeOK, InstalledBelongsToSession, TasksAreSound, CallIsSound
<1> QED
  BY <1>1, <1>2, <1>3, <1>4, <1>5, <1>6

\* The task ends, and is to clear what is its own.
LEMMA TaskLeavesInv == ASSUME SessionInv, NEW s \in Session, TaskLeaves(s) PROVE SessionInv'
<1> USE NilAssumption DEF SessionInv, ActorsAreReachable, TaskLeaves, appState, chats, tasks
<1>1. SessionTypeOK'
  BY DEF SessionTypeOK, TaskAt, CallAt, ActorAt, CallIsSound
<1>2. RunningTaskIsReachable'
  BY DEF SessionTypeOK, RunningTaskIsReachable, TasksAreSound
<1>3. InstalledBelongsToSession'
  BY DEF SessionTypeOK, InstalledBelongsToSession, TasksAreSound, CallIsSound
<1>4. RunningActorsAreHeld'
  BY DEF SessionTypeOK, RunningActorsAreHeld, InstalledBelongsToSession, TasksAreSound,
         CallIsSound
<1>5. TasksAreSound'
  BY DEF SessionTypeOK, TasksAreSound, CallIsSound
<1>6. CallIsSound'
  BY DEF SessionTypeOK, InstalledBelongsToSession, TasksAreSound, CallIsSound
<1> QED
  BY <1>1, <1>2, <1>3, <1>4, <1>5, <1>6

\* The transport that is installed is of the session whose sender is: both are taken, or none.
LEMMA TaskClearsInv == ASSUME SessionInv, NEW s \in Session, TaskClears(s) PROVE SessionInv'
<1> USE NilAssumption DEF SessionInv, ActorsAreReachable, TaskClears, appState, chats, tasks,
        Current
<1>0. /\ took' \in [Session -> [runtime : BOOLEAN, chat : Chat \cup {Nil}]]
      /\ \A r \in Session :
           /\ took'[r].chat = took[r].chat
           /\ took'[r].runtime <=> IF r = s /\ tx = s THEN knp = s ELSE took[r].runtime
  <2>1. CASE tx = s
    <3> SUFFICES ASSUME NEW b \in BOOLEAN, b <=> knp = s, took' = [took EXCEPT ![s].runtime = b]
                 PROVE  /\ took' \in [Session -> [runtime : BOOLEAN, chat : Chat \cup {Nil}]]
                        /\ \A r \in Session :
                             /\ took'[r].chat = took[r].chat
                             /\ took'[r].runtime <=> IF r = s THEN knp = s ELSE took[r].runtime
      BY <2>1, Zenon
    <3> QED
      BY TakenRuntime
  <2>2. CASE tx # s
    BY <2>2 DEF SessionTypeOK
  <2> QED
    BY <2>1, <2>2
<1>1. SessionTypeOK'
  <2>1. took' \in [Session -> [runtime : BOOLEAN, chat : Chat \cup {Nil}]]
    BY <1>0 DEF SessionTypeOK
  <2> QED
    BY <2>1 DEF SessionTypeOK, TaskAt
<1>2. RunningTaskIsReachable'
  BY DEF SessionTypeOK, RunningTaskIsReachable, TasksAreSound
<1>3. InstalledBelongsToSession'
  BY DEF SessionTypeOK, InstalledBelongsToSession, TasksAreSound, CallIsSound
<1>4. RunningActorsAreHeld'
  <2>1. \A r \in Session :
          took'[r].runtime <=> IF r = s /\ tx = s THEN knp = s ELSE took[r].runtime
    BY <1>0
  <2>2. \A r \in Session : took'[r].chat = took[r].chat
    BY <1>0
  <2>3. \A r \in Session : task'[r] = IF r = s THEN "cleared" ELSE task[r]
    BY DEF SessionTypeOK
  <2>4. knp = s => tx = s
    BY DEF InstalledBelongsToSession
  <2>5. ASSUME NEW r \in Session, runtime[r] \in {"running", "stopping"}
        PROVE  \/ knp' = r
               \/ call.at = "install" /\ call.session = r
               \/ call.at \in {"takeChat", "stop", "downKnp"} /\ call.runtime = r
               \/ took'[r].runtime /\ task'[r] # "done"
    BY <2>1, <2>3, <2>4, <2>5 DEF RunningActorsAreHeld, InstalledBelongsToSession, TasksAreSound
  <2>6. ASSUME NEW c \in Chat, actor[c] \in {"running", "stopping"}
        PROVE  \/ chat' = c
               \/ call.at \in {"installChat", "stop", "downKnp", "downChat"} /\ call.chat = c
               \/ \E r \in Session : took'[r].chat = c /\ task'[r] = "downChat"
    BY <2>2, <2>3, <2>6 DEF RunningActorsAreHeld
  <2> QED
    BY <2>5, <2>6 DEF RunningActorsAreHeld
<1>5. TasksAreSound'
  BY DEF SessionTypeOK, TasksAreSound, CallIsSound
<1>6. CallIsSound'
  BY DEF SessionTypeOK, InstalledBelongsToSession, TasksAreSound, CallIsSound
<1> QED
  BY <1>1, <1>2, <1>3, <1>4, <1>5, <1>6

\* A chat of this session that is installed is held by its end from now on.
LEMMA TaskTakesChatInv == ASSUME SessionInv, NEW s \in Session, TaskTakesChat(s) PROVE SessionInv'
<1> USE NilAssumption DEF SessionInv, ActorsAreReachable, TaskTakesChat, appState, chats,
        tasks, OwnsChat
<1>1. SessionTypeOK'
  <2>1. took' \in [Session -> [runtime : BOOLEAN, chat : Chat \cup {Nil}]]
    BY SMTT(30) DEF SessionTypeOK
  <2>2. chat' \in Chat \cup {Nil} /\ task' \in [Session -> TaskAt]
    BY DEF SessionTypeOK, TaskAt
  <2> QED
    BY <2>1, <2>2 DEF SessionTypeOK
<1>2. RunningTaskIsReachable'
  BY DEF SessionTypeOK, RunningTaskIsReachable, TasksAreSound
<1>3. InstalledBelongsToSession'
  BY DEF SessionTypeOK, InstalledBelongsToSession, TasksAreSound, CallIsSound
<1>4. RunningActorsAreHeld'
  <2>1. \A r \in Session : /\ took'[r].runtime = took[r].runtime
                           /\ r # s => took'[r].chat = took[r].chat /\ task'[r] = task[r]
    BY DEF SessionTypeOK
  <2>2. chat # chat' => chat' = Nil /\ took'[s].chat = chat
    BY DEF SessionTypeOK
  <2>3. task'[s] = "downChat" /\ task[s] = "cleared"
    BY DEF SessionTypeOK
  <2>4. ASSUME NEW c \in Chat, actor[c] \in {"running", "stopping"}
        PROVE  \/ chat' = c
               \/ call.at \in {"installChat", "stop", "downKnp", "downChat"} /\ call.chat = c
               \/ \E r \in Session : took'[r].chat = c /\ task'[r] = "downChat"
    BY <2>1, <2>2, <2>3, <2>4 DEF RunningActorsAreHeld
  <2> QED
    BY <2>1, <2>3, <2>4 DEF RunningActorsAreHeld
<1>5. TasksAreSound'
  BY DEF SessionTypeOK, TasksAreSound, CallIsSound
<1>6. CallIsSound'
  BY DEF SessionTypeOK, InstalledBelongsToSession, TasksAreSound, CallIsSound
<1> QED
  BY <1>1, <1>2, <1>3, <1>4, <1>5, <1>6

\* The chat that was taken is gone.
LEMMA TaskEndsChatInv == ASSUME SessionInv, NEW s \in Session, TaskEndsChat(s) PROVE SessionInv'
<1> USE NilAssumption DEF SessionInv, ActorsAreReachable, TaskEndsChat, appState, chats, tasks,
        ChatDown
<1>1. SessionTypeOK'
  BY DEF SessionTypeOK, TaskAt, CallAt, ActorAt, CallIsSound
<1>2. RunningTaskIsReachable'
  BY DEF SessionTypeOK, RunningTaskIsReachable, TasksAreSound
<1>3. InstalledBelongsToSession'
  BY DEF SessionTypeOK, InstalledBelongsToSession, TasksAreSound, CallIsSound
<1>4. RunningActorsAreHeld'
  BY DEF SessionTypeOK, RunningActorsAreHeld, InstalledBelongsToSession, TasksAreSound,
         CallIsSound
<1>5. TasksAreSound'
  BY DEF SessionTypeOK, TasksAreSound, CallIsSound
<1>6. CallIsSound'
  BY DEF SessionTypeOK, InstalledBelongsToSession, TasksAreSound, CallIsSound
<1> QED
  BY <1>1, <1>2, <1>3, <1>4, <1>5, <1>6

\* The transport that was taken is gone.
LEMMA TaskEndsInv == ASSUME SessionInv, NEW s \in Session, TaskEnds(s) PROVE SessionInv'
<1> USE NilAssumption DEF SessionInv, ActorsAreReachable, TaskEnds, appState, chats, tasks,
        KnpDown
<1>1. SessionTypeOK'
  BY DEF SessionTypeOK, TaskAt, CallAt, ActorAt, CallIsSound
<1>2. RunningTaskIsReachable'
  BY DEF SessionTypeOK, RunningTaskIsReachable, TasksAreSound
<1>3. InstalledBelongsToSession'
  BY DEF SessionTypeOK, InstalledBelongsToSession, TasksAreSound, CallIsSound
<1>4. RunningActorsAreHeld'
  BY DEF SessionTypeOK, RunningActorsAreHeld, InstalledBelongsToSession, TasksAreSound,
         CallIsSound
<1>5. TasksAreSound'
  BY DEF SessionTypeOK, TasksAreSound, CallIsSound
<1>6. CallIsSound'
  BY DEF SessionTypeOK, InstalledBelongsToSession, TasksAreSound, CallIsSound
<1> QED
  BY <1>1, <1>2, <1>3, <1>4, <1>5, <1>6

\* The sender is withdrawn; no transport and no chat of this session exist yet.
LEMMA StartFailsInv == ASSUME SessionInv, StartFails PROVE SessionInv'
<1> USE NilAssumption DEF SessionInv, ActorsAreReachable, StartFails, appState, chats, tasks,
        Calling,
        Idle, Current
<1>1. SessionTypeOK'
  BY DEF SessionTypeOK, TaskAt, CallAt, ActorAt, CallIsSound
<1>2. RunningTaskIsReachable'
  BY DEF SessionTypeOK, RunningTaskIsReachable, TasksAreSound
<1>3. InstalledBelongsToSession'
  BY DEF SessionTypeOK, InstalledBelongsToSession, TasksAreSound, CallIsSound
<1>4. RunningActorsAreHeld'
  BY DEF SessionTypeOK, RunningActorsAreHeld, InstalledBelongsToSession, TasksAreSound,
         CallIsSound
<1>5. TasksAreSound'
  BY DEF SessionTypeOK, TasksAreSound, CallIsSound
<1>6. CallIsSound'
  BY DEF SessionTypeOK, InstalledBelongsToSession, TasksAreSound, CallIsSound
<1> QED
  BY <1>1, <1>2, <1>3, <1>4, <1>5, <1>6

\* The start had no transport to install.
LEMMA StartReturnsInv == ASSUME SessionInv, StartReturns PROVE SessionInv'
<1> USE NilAssumption DEF SessionInv, ActorsAreReachable, StartReturns, appState, chats, tasks,
        Calling, Idle
<1>1. SessionTypeOK'
  BY DEF SessionTypeOK, TaskAt, CallAt, ActorAt, CallIsSound
<1>2. RunningTaskIsReachable'
  BY DEF SessionTypeOK, RunningTaskIsReachable, TasksAreSound
<1>3. InstalledBelongsToSession'
  BY DEF SessionTypeOK, InstalledBelongsToSession, TasksAreSound, CallIsSound
<1>4. RunningActorsAreHeld'
  BY DEF SessionTypeOK, RunningActorsAreHeld, InstalledBelongsToSession, TasksAreSound,
         CallIsSound
<1>5. TasksAreSound'
  BY DEF SessionTypeOK, TasksAreSound, CallIsSound
<1>6. CallIsSound'
  BY DEF SessionTypeOK, InstalledBelongsToSession, TasksAreSound, CallIsSound
<1> QED
  BY <1>1, <1>2, <1>3, <1>4, <1>5, <1>6

\* The start has the transport until it installs it.
LEMMA SpawnKnpInv == ASSUME SessionInv, SpawnKnp PROVE SessionInv'
<1> USE NilAssumption DEF SessionInv, ActorsAreReachable, SpawnKnp, appState, chats, tasks
<1>1. SessionTypeOK'
  BY DEF SessionTypeOK, TaskAt, CallAt, ActorAt, KnpAt, CallIsSound
<1>2. RunningTaskIsReachable'
  BY DEF SessionTypeOK, RunningTaskIsReachable, TasksAreSound
<1>3. InstalledBelongsToSession'
  BY DEF SessionTypeOK, InstalledBelongsToSession, TasksAreSound, CallIsSound
<1>4. RunningActorsAreHeld'
  BY DEF SessionTypeOK, RunningActorsAreHeld, InstalledBelongsToSession, TasksAreSound,
         CallIsSound
<1>5. TasksAreSound'
  BY DEF SessionTypeOK, TasksAreSound, CallIsSound
<1>6. CallIsSound'
  BY DEF SessionTypeOK, InstalledBelongsToSession, TasksAreSound, CallIsSound
<1> QED
  BY <1>1, <1>2, <1>3, <1>4, <1>5, <1>6

\* The transport is installed, or the start has it still, to shut it down.
LEMMA InstallKnpInv == ASSUME SessionInv, InstallKnp PROVE SessionInv'
<1> USE NilAssumption DEF SessionInv, ActorsAreReachable, InstallKnp, appState, chats, tasks,
        Calling,
        Idle, Current, Displaced
<1>1. SessionTypeOK'
  BY DEF SessionTypeOK, TaskAt, CallAt, ActorAt, CallIsSound
<1>2. RunningTaskIsReachable'
  BY DEF SessionTypeOK, RunningTaskIsReachable, TasksAreSound
<1>3. InstalledBelongsToSession'
  BY DEF SessionTypeOK, InstalledBelongsToSession, TasksAreSound, CallIsSound
<1>4. RunningActorsAreHeld'
  BY DEF SessionTypeOK, RunningActorsAreHeld, InstalledBelongsToSession, TasksAreSound,
         CallIsSound
<1>5. TasksAreSound'
  BY DEF SessionTypeOK, TasksAreSound, CallIsSound
<1>6. CallIsSound'
  BY DEF SessionTypeOK, InstalledBelongsToSession, TasksAreSound, CallIsSound
<1> QED
  BY <1>1, <1>2, <1>3, <1>4, <1>5, <1>6

\* The command takes the sender and the transport together.
LEMMA DisconnectInv == ASSUME SessionInv, Disconnect PROVE SessionInv'
<1> USE NilAssumption DEF SessionInv, ActorsAreReachable, Disconnect, appState, chats, tasks,
        Calling,
        Idle
<1>1. SessionTypeOK'
  BY DEF SessionTypeOK, TaskAt, CallAt, ActorAt, CallIsSound
<1>2. RunningTaskIsReachable'
  BY DEF SessionTypeOK, RunningTaskIsReachable, TasksAreSound
<1>3. InstalledBelongsToSession'
  BY DEF SessionTypeOK, InstalledBelongsToSession, TasksAreSound, CallIsSound
<1>4. RunningActorsAreHeld'
  BY DEF SessionTypeOK, RunningActorsAreHeld, InstalledBelongsToSession, TasksAreSound,
         CallIsSound
<1>5. TasksAreSound'
  BY DEF SessionTypeOK, TasksAreSound, CallIsSound
<1>6. CallIsSound'
  BY DEF SessionTypeOK, InstalledBelongsToSession, TasksAreSound, CallIsSound
<1> QED
  BY <1>1, <1>2, <1>3, <1>4, <1>5, <1>6

\* The command takes the chat of the session it took the sender of.
LEMMA DisconnectTakesChatInv == ASSUME SessionInv, DisconnectTakesChat PROVE SessionInv'
<1> USE NilAssumption DEF SessionInv, ActorsAreReachable, DisconnectTakesChat, appState, chats,
        tasks,
        OwnsChat
<1>1. SessionTypeOK'
  BY DEF SessionTypeOK, TaskAt, CallAt, ActorAt, CallIsSound
<1>2. RunningTaskIsReachable'
  BY DEF SessionTypeOK, RunningTaskIsReachable, TasksAreSound
<1>3. InstalledBelongsToSession'
  BY DEF SessionTypeOK, InstalledBelongsToSession, TasksAreSound, CallIsSound
<1>4. RunningActorsAreHeld'
  BY DEF SessionTypeOK, RunningActorsAreHeld, InstalledBelongsToSession, TasksAreSound,
         CallIsSound
<1>5. TasksAreSound'
  BY DEF SessionTypeOK, TasksAreSound, CallIsSound
<1>6. CallIsSound'
  BY DEF SessionTypeOK, InstalledBelongsToSession, TasksAreSound, CallIsSound
<1> QED
  BY <1>1, <1>2, <1>3, <1>4, <1>5, <1>6

\* The task was told to stop.
LEMMA DisconnectStopsInv == ASSUME SessionInv, DisconnectStops PROVE SessionInv'
<1> USE NilAssumption DEF SessionInv, ActorsAreReachable, DisconnectStops, appState, chats, tasks
<1>1. SessionTypeOK'
  BY DEF SessionTypeOK, TaskAt, CallAt, ActorAt, CallIsSound
<1>2. RunningTaskIsReachable'
  BY DEF SessionTypeOK, RunningTaskIsReachable, TasksAreSound
<1>3. InstalledBelongsToSession'
  BY DEF SessionTypeOK, InstalledBelongsToSession, TasksAreSound, CallIsSound
<1>4. RunningActorsAreHeld'
  BY DEF SessionTypeOK, RunningActorsAreHeld, InstalledBelongsToSession, TasksAreSound,
         CallIsSound
<1>5. TasksAreSound'
  BY DEF SessionTypeOK, TasksAreSound, CallIsSound
<1>6. CallIsSound'
  BY DEF SessionTypeOK, InstalledBelongsToSession, TasksAreSound, CallIsSound
<1> QED
  BY <1>1, <1>2, <1>3, <1>4, <1>5, <1>6

\* The transport the command had is gone.
LEMMA CallEndsKnpInv == ASSUME SessionInv, CallEndsKnp PROVE SessionInv'
<1> USE NilAssumption DEF SessionInv, ActorsAreReachable, CallEndsKnp, appState, chats, tasks,
        KnpDown
<1>1. SessionTypeOK'
  BY DEF SessionTypeOK, TaskAt, CallAt, ActorAt, CallIsSound
<1>2. RunningTaskIsReachable'
  BY DEF SessionTypeOK, RunningTaskIsReachable, TasksAreSound
<1>3. InstalledBelongsToSession'
  BY DEF SessionTypeOK, InstalledBelongsToSession, TasksAreSound, CallIsSound
<1>4. RunningActorsAreHeld'
  BY DEF SessionTypeOK, RunningActorsAreHeld, InstalledBelongsToSession, TasksAreSound,
         CallIsSound
<1>5. TasksAreSound'
  BY DEF SessionTypeOK, TasksAreSound, CallIsSound
<1>6. CallIsSound'
  BY DEF SessionTypeOK, InstalledBelongsToSession, TasksAreSound, CallIsSound
<1> QED
  BY <1>1, <1>2, <1>3, <1>4, <1>5, <1>6

\* The chat the command had is gone.
LEMMA CallEndsChatInv == ASSUME SessionInv, CallEndsChat PROVE SessionInv'
<1> USE NilAssumption DEF SessionInv, ActorsAreReachable, CallEndsChat, appState, chats, tasks,
        Calling, Idle, ChatDown
<1>1. SessionTypeOK'
  BY DEF SessionTypeOK, TaskAt, CallAt, ActorAt, CallIsSound
<1>2. RunningTaskIsReachable'
  BY DEF SessionTypeOK, RunningTaskIsReachable, TasksAreSound
<1>3. InstalledBelongsToSession'
  BY DEF SessionTypeOK, InstalledBelongsToSession, TasksAreSound, CallIsSound
<1>4. RunningActorsAreHeld'
  BY DEF SessionTypeOK, RunningActorsAreHeld, InstalledBelongsToSession, TasksAreSound,
         CallIsSound
<1>5. TasksAreSound'
  BY DEF SessionTypeOK, TasksAreSound, CallIsSound
<1>6. CallIsSound'
  BY DEF SessionTypeOK, InstalledBelongsToSession, TasksAreSound, CallIsSound
<1> QED
  BY <1>1, <1>2, <1>3, <1>4, <1>5, <1>6

\* No chat is installed while this command has the gate.
LEMMA StartChatInv == ASSUME SessionInv, StartChat PROVE SessionInv'
<1> USE NilAssumption DEF SessionInv, ActorsAreReachable, StartChat, appState, chats, tasks,
        Calling, Idle
<1>1. SessionTypeOK'
  BY DEF SessionTypeOK, TaskAt, CallAt, ActorAt, CallIsSound
<1>2. RunningTaskIsReachable'
  BY DEF SessionTypeOK, RunningTaskIsReachable, TasksAreSound
<1>3. InstalledBelongsToSession'
  BY DEF SessionTypeOK, InstalledBelongsToSession, TasksAreSound, CallIsSound
<1>4. RunningActorsAreHeld'
  BY DEF SessionTypeOK, RunningActorsAreHeld, InstalledBelongsToSession, TasksAreSound,
         CallIsSound
<1>5. TasksAreSound'
  BY DEF SessionTypeOK, TasksAreSound, CallIsSound
<1>6. CallIsSound'
  BY DEF SessionTypeOK, InstalledBelongsToSession, TasksAreSound, CallIsSound
<1> QED
  BY <1>1, <1>2, <1>3, <1>4, <1>5, <1>6

\* No chat was made.
LEMMA ChatRefusedInv == ASSUME SessionInv, ChatRefused PROVE SessionInv'
<1> USE NilAssumption DEF SessionInv, ActorsAreReachable, ChatRefused, appState, chats, tasks,
        Calling,
        Idle
<1>1. SessionTypeOK'
  BY DEF SessionTypeOK, TaskAt, CallAt, ActorAt, CallIsSound
<1>2. RunningTaskIsReachable'
  BY DEF SessionTypeOK, RunningTaskIsReachable, TasksAreSound
<1>3. InstalledBelongsToSession'
  BY DEF SessionTypeOK, InstalledBelongsToSession, TasksAreSound, CallIsSound
<1>4. RunningActorsAreHeld'
  BY DEF SessionTypeOK, RunningActorsAreHeld, InstalledBelongsToSession, TasksAreSound,
         CallIsSound
<1>5. TasksAreSound'
  BY DEF SessionTypeOK, TasksAreSound, CallIsSound
<1>6. CallIsSound'
  BY DEF SessionTypeOK, InstalledBelongsToSession, TasksAreSound, CallIsSound
<1> QED
  BY <1>1, <1>2, <1>3, <1>4, <1>5, <1>6

\* The command has the chat until it installs it.
LEMMA SpawnChatInv ==
  ASSUME SessionInv, NEW c \in Chat, NEW p \in Profile, SpawnChat(c, p)
  PROVE  SessionInv'
<1> USE NilAssumption DEF SessionInv, ActorsAreReachable, SpawnChat, appState, chats, tasks
<1>1. SessionTypeOK'
  BY DEF SessionTypeOK, TaskAt, CallAt, ActorAt, CallIsSound
<1>2. RunningTaskIsReachable'
  BY DEF SessionTypeOK, RunningTaskIsReachable, TasksAreSound
<1>3. InstalledBelongsToSession'
  BY DEF SessionTypeOK, InstalledBelongsToSession, TasksAreSound, CallIsSound
<1>4. RunningActorsAreHeld'
  BY DEF SessionTypeOK, RunningActorsAreHeld, InstalledBelongsToSession, TasksAreSound,
         CallIsSound
<1>5. TasksAreSound'
  BY DEF SessionTypeOK, TasksAreSound, CallIsSound
<1>6. CallIsSound'
  BY DEF SessionTypeOK, InstalledBelongsToSession, TasksAreSound, CallIsSound
<1> QED
  BY <1>1, <1>2, <1>3, <1>4, <1>5, <1>6

\* A chat is installed only for the session whose sender still is.
LEMMA InstallChatInv == ASSUME SessionInv, InstallChat PROVE SessionInv'
<1> USE NilAssumption DEF SessionInv, ActorsAreReachable, InstallChat, appState, chats, tasks,
        Calling,
        Idle, Current
<1>1. SessionTypeOK'
  BY DEF SessionTypeOK, TaskAt, CallAt, ActorAt, CallIsSound
<1>2. RunningTaskIsReachable'
  BY DEF SessionTypeOK, RunningTaskIsReachable, TasksAreSound
<1>3. InstalledBelongsToSession'
  BY DEF SessionTypeOK, InstalledBelongsToSession, TasksAreSound, CallIsSound
<1>4. RunningActorsAreHeld'
  BY DEF SessionTypeOK, RunningActorsAreHeld, InstalledBelongsToSession, TasksAreSound,
         CallIsSound
<1>5. TasksAreSound'
  BY DEF SessionTypeOK, TasksAreSound, CallIsSound
<1>6. CallIsSound'
  BY DEF SessionTypeOK, InstalledBelongsToSession, TasksAreSound, CallIsSound
<1> QED
  BY <1>1, <1>2, <1>3, <1>4, <1>5, <1>6

\* The chat that ended meanwhile is shut down.
LEMMA SnapshotFailsInv == ASSUME SessionInv, SnapshotFails PROVE SessionInv'
<1> USE NilAssumption DEF SessionInv, ActorsAreReachable, SnapshotFails, appState, chats, tasks
<1>1. SessionTypeOK'
  BY DEF SessionTypeOK, TaskAt, CallAt, ActorAt, CallIsSound
<1>2. RunningTaskIsReachable'
  BY DEF SessionTypeOK, RunningTaskIsReachable, TasksAreSound
<1>3. InstalledBelongsToSession'
  BY DEF SessionTypeOK, InstalledBelongsToSession, TasksAreSound, CallIsSound
<1>4. RunningActorsAreHeld'
  BY DEF SessionTypeOK, RunningActorsAreHeld, InstalledBelongsToSession, TasksAreSound,
         CallIsSound
<1>5. TasksAreSound'
  BY DEF SessionTypeOK, TasksAreSound, CallIsSound
<1>6. CallIsSound'
  BY DEF SessionTypeOK, InstalledBelongsToSession, TasksAreSound, CallIsSound
<1> QED
  BY <1>1, <1>2, <1>3, <1>4, <1>5, <1>6

\* The command takes the chat.
LEMMA StopChatInv == ASSUME SessionInv, StopChat PROVE SessionInv'
<1> USE NilAssumption DEF SessionInv, ActorsAreReachable, StopChat, appState, chats, tasks,
        Calling, Idle
<1>1. SessionTypeOK'
  BY DEF SessionTypeOK, TaskAt, CallAt, ActorAt, CallIsSound
<1>2. RunningTaskIsReachable'
  BY DEF SessionTypeOK, RunningTaskIsReachable, TasksAreSound
<1>3. InstalledBelongsToSession'
  BY DEF SessionTypeOK, InstalledBelongsToSession, TasksAreSound, CallIsSound
<1>4. RunningActorsAreHeld'
  BY DEF SessionTypeOK, RunningActorsAreHeld, InstalledBelongsToSession, TasksAreSound,
         CallIsSound
<1>5. TasksAreSound'
  BY DEF SessionTypeOK, TasksAreSound, CallIsSound
<1>6. CallIsSound'
  BY DEF SessionTypeOK, InstalledBelongsToSession, TasksAreSound, CallIsSound
<1> QED
  BY <1>1, <1>2, <1>3, <1>4, <1>5, <1>6

\* The chat that stops is held by who asked it to, as it was while it ran.
LEMMA ChatStopsInv == ASSUME SessionInv, NEW c \in Chat, ChatStops(c) PROVE SessionInv'
<1> USE NilAssumption DEF SessionInv, ActorsAreReachable, ChatStops, ActorGoes,
        appState, chats, tasks
<1>1. SessionTypeOK'
  BY DEF SessionTypeOK, TaskAt, CallAt, ActorAt, KnpAt, CallIsSound
<1>2. RunningTaskIsReachable'
  BY DEF SessionTypeOK, RunningTaskIsReachable, TasksAreSound
<1>3. InstalledBelongsToSession'
  BY DEF SessionTypeOK, InstalledBelongsToSession, TasksAreSound, CallIsSound
<1>4. RunningActorsAreHeld'
  BY DEF SessionTypeOK, RunningActorsAreHeld, InstalledBelongsToSession, TasksAreSound,
         CallIsSound
<1>5. TasksAreSound'
  BY DEF SessionTypeOK, TasksAreSound, CallIsSound
<1>6. CallIsSound'
  BY DEF SessionTypeOK, InstalledBelongsToSession, TasksAreSound, CallIsSound
<1> QED
  BY <1>1, <1>2, <1>3, <1>4, <1>5, <1>6

\* A chat that ends by itself need not be held.
LEMMA ChatClosesInv == ASSUME SessionInv, NEW c \in Chat, ChatCloses(c) PROVE SessionInv'
<1> USE NilAssumption DEF SessionInv, ActorsAreReachable, ChatCloses, ActorGoes,
        appState, chats, tasks
<1>1. SessionTypeOK'
  BY DEF SessionTypeOK, TaskAt, CallAt, ActorAt, KnpAt, CallIsSound
<1>2. RunningTaskIsReachable'
  BY DEF SessionTypeOK, RunningTaskIsReachable, TasksAreSound
<1>3. InstalledBelongsToSession'
  BY DEF SessionTypeOK, InstalledBelongsToSession, TasksAreSound, CallIsSound
<1>4. RunningActorsAreHeld'
  BY DEF SessionTypeOK, RunningActorsAreHeld, InstalledBelongsToSession, TasksAreSound,
         CallIsSound
<1>5. TasksAreSound'
  BY DEF SessionTypeOK, TasksAreSound, CallIsSound
<1>6. CallIsSound'
  BY DEF SessionTypeOK, InstalledBelongsToSession, TasksAreSound, CallIsSound
<1> QED
  BY <1>1, <1>2, <1>3, <1>4, <1>5, <1>6

\* A chat that has let its lock go, or is gone, need not be held.
LEMMA ChatReleasesInv == ASSUME SessionInv, NEW c \in Chat, ChatReleases(c) PROVE SessionInv'
<1> USE NilAssumption DEF SessionInv, ActorsAreReachable, ChatReleases, ActorGoes,
        AfterClosing, appState, chats, tasks
<1>1. SessionTypeOK'
  BY DEF SessionTypeOK, TaskAt, CallAt, ActorAt, KnpAt, CallIsSound
<1>2. RunningTaskIsReachable'
  BY DEF SessionTypeOK, RunningTaskIsReachable, TasksAreSound
<1>3. InstalledBelongsToSession'
  BY DEF SessionTypeOK, InstalledBelongsToSession, TasksAreSound, CallIsSound
<1>4. RunningActorsAreHeld'
  BY DEF SessionTypeOK, RunningActorsAreHeld, InstalledBelongsToSession, TasksAreSound,
         CallIsSound
<1>5. TasksAreSound'
  BY DEF SessionTypeOK, TasksAreSound, CallIsSound
<1>6. CallIsSound'
  BY DEF SessionTypeOK, InstalledBelongsToSession, TasksAreSound, CallIsSound
<1> QED
  BY <1>1, <1>2, <1>3, <1>4, <1>5, <1>6

\* The transport that stops is held by who asked it to, as it was while it ran.
LEMMA KnpStopsInv == ASSUME SessionInv, NEW s \in Session, KnpStops(s) PROVE SessionInv'
<1> USE NilAssumption DEF SessionInv, ActorsAreReachable, KnpStops, RuntimeGoes,
        appState, chats, tasks
<1>1. SessionTypeOK'
  BY DEF SessionTypeOK, TaskAt, CallAt, ActorAt, KnpAt, CallIsSound
<1>2. RunningTaskIsReachable'
  BY DEF SessionTypeOK, RunningTaskIsReachable, TasksAreSound
<1>3. InstalledBelongsToSession'
  BY DEF SessionTypeOK, InstalledBelongsToSession, TasksAreSound, CallIsSound
<1>4. RunningActorsAreHeld'
  BY DEF SessionTypeOK, RunningActorsAreHeld, InstalledBelongsToSession, TasksAreSound,
         CallIsSound
<1>5. TasksAreSound'
  BY DEF SessionTypeOK, TasksAreSound, CallIsSound
<1>6. CallIsSound'
  BY DEF SessionTypeOK, InstalledBelongsToSession, TasksAreSound, CallIsSound
<1> QED
  BY <1>1, <1>2, <1>3, <1>4, <1>5, <1>6

\* A transport that ends by itself need not be held.
LEMMA KnpClosesInv == ASSUME SessionInv, NEW s \in Session, KnpCloses(s) PROVE SessionInv'
<1> USE NilAssumption DEF SessionInv, ActorsAreReachable, KnpCloses, RuntimeGoes,
        appState, chats, tasks
<1>1. SessionTypeOK'
  BY DEF SessionTypeOK, TaskAt, CallAt, ActorAt, KnpAt, CallIsSound
<1>2. RunningTaskIsReachable'
  BY DEF SessionTypeOK, RunningTaskIsReachable, TasksAreSound
<1>3. InstalledBelongsToSession'
  BY DEF SessionTypeOK, InstalledBelongsToSession, TasksAreSound, CallIsSound
<1>4. RunningActorsAreHeld'
  BY DEF SessionTypeOK, RunningActorsAreHeld, InstalledBelongsToSession, TasksAreSound,
         CallIsSound
<1>5. TasksAreSound'
  BY DEF SessionTypeOK, TasksAreSound, CallIsSound
<1>6. CallIsSound'
  BY DEF SessionTypeOK, InstalledBelongsToSession, TasksAreSound, CallIsSound
<1> QED
  BY <1>1, <1>2, <1>3, <1>4, <1>5, <1>6

\* A transport that is gone need not be held.
LEMMA KnpEndsInv == ASSUME SessionInv, NEW s \in Session, KnpEnds(s) PROVE SessionInv'
<1> USE NilAssumption DEF SessionInv, ActorsAreReachable, KnpEnds, RuntimeGoes,
        appState, chats, tasks
<1>1. SessionTypeOK'
  BY DEF SessionTypeOK, TaskAt, CallAt, ActorAt, KnpAt, CallIsSound
<1>2. RunningTaskIsReachable'
  BY DEF SessionTypeOK, RunningTaskIsReachable, TasksAreSound
<1>3. InstalledBelongsToSession'
  BY DEF SessionTypeOK, InstalledBelongsToSession, TasksAreSound, CallIsSound
<1>4. RunningActorsAreHeld'
  BY DEF SessionTypeOK, RunningActorsAreHeld, InstalledBelongsToSession, TasksAreSound,
         CallIsSound
<1>5. TasksAreSound'
  BY DEF SessionTypeOK, TasksAreSound, CallIsSound
<1>6. CallIsSound'
  BY DEF SessionTypeOK, InstalledBelongsToSession, TasksAreSound, CallIsSound
<1> QED
  BY <1>1, <1>2, <1>3, <1>4, <1>5, <1>6

-----------------------------------------------------------------------------
LEMMA SessionInitInv == SessionInit => SessionInv
BY NilAssumption DEF SessionInit, SessionInv, ActorsAreReachable, SessionTypeOK,
   RunningTaskIsReachable, InstalledBelongsToSession, RunningActorsAreHeld, TasksAreSound,
   CallIsSound, TaskAt, CallAt, ActorAt, KnpAt, Idle, Calling

LEMMA SessionNextInv == ASSUME SessionInv, SessionNext PROVE SessionInv'
<1>1. ASSUME NEW s \in Session, TaskNext(s) PROVE SessionInv'
  BY <1>1, TaskReadyInv, TaskFailsInv, TaskStopsInv, TaskLeavesInv, TaskClearsInv,
     TaskTakesChatInv, TaskEndsChatInv, TaskEndsInv
  DEF TaskNext
<1>2. ASSUME CallNext PROVE SessionInv'
  BY <1>2, StartFailsInv, StartReturnsInv, SpawnKnpInv, InstallKnpInv, DisconnectTakesChatInv,
     DisconnectStopsInv, CallEndsKnpInv, CallEndsChatInv, ChatRefusedInv, SpawnChatInv,
     InstallChatInv, SnapshotFailsInv
  DEF CallNext
<1>3. ASSUME ActorNext PROVE SessionInv'
  BY <1>3, ChatStopsInv, ChatClosesInv, ChatReleasesInv, KnpStopsInv, KnpClosesInv, KnpEndsInv
  DEF ActorNext
<1> QED
  BY <1>1, <1>2, <1>3, StartNetworkInv, DisconnectInv, StartChatInv, StopChatInv DEF SessionNext

\* No step but the start of a chat takes a lock, or makes a chat known that was not.
LEMMA OldLocks ==
  ASSUME SessionInv, SessionNext, \A c \in Chat, p \in Profile : ~SpawnChat(c, p)
  PROVE  /\ profile' = profile
         /\ \A c \in Chat : HoldsLock(c)' => HoldsLock(c)
         /\ chat' \in {chat, call.chat, Nil} /\ call'.chat \in {chat, call.chat, Nil}
<1>0. actor \in [Chat -> ActorAt]
  BY DEF SessionInv, ActorsAreReachable, SessionTypeOK
<1>1. ASSUME NEW s \in Session, StartNetwork(s) PROVE UNCHANGED <<profile, actor, chat>>
                                                       /\ call'.chat = Nil
  BY <1>1 DEF StartNetwork, chats, Calling
<1>2. ASSUME NEW s \in Session, TaskNext(s)
      PROVE  UNCHANGED <<profile, actor, call>> /\ chat' \in {chat, Nil}
  BY <1>2 DEF TaskNext, TaskReady, TaskFails, TaskStops, TaskLeaves, TaskClears, TaskTakesChat,
              TaskEndsChat, TaskEnds, appState, chats
<1>3. CASE Disconnect \/ StartChat \/ StopChat
  BY <1>3 DEF Disconnect, StartChat, StopChat, appState, chats, Calling, HoldsLock
<1>4. CASE CallNext
  <2>0. call \in [at : CallAt, session : Session \cup {Nil}, runtime : Session \cup {Nil},
                  chat : Chat \cup {Nil}]
    BY DEF SessionInv, ActorsAreReachable, SessionTypeOK
  <2>1. UNCHANGED <<profile, actor>>
    BY <1>4 DEF CallNext, StartFails, StartReturns, SpawnKnp, InstallKnp, DisconnectTakesChat,
       DisconnectStops, CallEndsKnp, CallEndsChat, ChatRefused, InstallChat, SnapshotFails, chats
  <2>2. chat' \in {chat, call.chat, Nil}
    BY <1>4 DEF CallNext, StartFails, StartReturns, SpawnKnp, InstallKnp, DisconnectTakesChat,
       DisconnectStops, CallEndsKnp, CallEndsChat, ChatRefused, InstallChat, SnapshotFails,
       appState
  <2>3. call'.chat \in {chat, call.chat, Nil}
    <3>1. CASE SpawnKnp \/ DisconnectStops \/ CallEndsKnp \/ SnapshotFails
      <4>1. \E at : call' = [call EXCEPT !.at = at]
        BY <3>1 DEF SpawnKnp, DisconnectStops, CallEndsKnp, SnapshotFails
      <4> QED
        BY <4>1, <2>0
    <3>2. CASE StartFails \/ StartReturns \/ InstallKnp \/ CallEndsChat \/ ChatRefused
      BY <3>2 DEF StartFails, StartReturns, InstallKnp, CallEndsChat, ChatRefused, Idle, Calling
    <3>3. CASE DisconnectTakesChat
      <4>1. \E c \in {chat, Nil} : call' = [call EXCEPT !.at = "stop", !.chat = c]
        BY <3>3 DEF DisconnectTakesChat
      <4> QED
        BY <4>1, <2>0
    <3>4. CASE InstallChat
      <4>1. call' = Idle \/ call' = [call EXCEPT !.at = "downChat"]
        BY <3>4 DEF InstallChat
      <4> QED
        BY <4>1, <2>0 DEF Idle, Calling
    <3> QED
      BY <1>4, <3>1, <3>2, <3>3, <3>4 DEF CallNext
  <2> QED
    BY <2>1, <2>2, <2>3 DEF HoldsLock
<1>5. CASE ActorNext
  <2>1. UNCHANGED <<profile, chat, call>>
    BY <1>5 DEF ActorNext, ChatStops, ChatCloses, ChatReleases, ActorGoes, KnpStops, KnpCloses,
       KnpEnds, RuntimeGoes, appState, chats
  <2>2. \A c \in Chat : HoldsLock(c)' => HoldsLock(c)
    BY <1>0, <1>5 DEF ActorNext, ChatStops, ChatCloses, ChatReleases, ActorGoes, KnpStops,
       KnpCloses, KnpEnds, RuntimeGoes, chats, AfterClosing, HoldsLock
  <2> QED
    BY <2>1, <2>2
<1> QED
  BY <1>1, <1>2, <1>3, <1>4, <1>5 DEF SessionNext, HoldsLock, chats, appState

\* A chat is started only on a profile that nobody has locked, while none is installed.
LEMMA LocksInv == ASSUME SessionInv, LocksAreSound, SessionNext PROVE LocksAreSound'
<1>1. ASSUME NEW c \in Chat, NEW p \in Profile, SpawnChat(c, p) PROVE LocksAreSound'
  <2>1. /\ actor' = [actor EXCEPT ![c] = "running"] /\ profile' = [profile EXCEPT ![c] = p]
        /\ \A d \in Chat : profile[d] = p => ~HoldsLock(d)
        /\ chat' = Nil /\ call'.chat = c
    BY <1>1 DEF SpawnChat, appState, LockHeld, SessionInv, CallIsSound, ActorsAreReachable,
                SessionTypeOK
  <2>2. \A d \in Chat : d # c => profile'[d] = profile[d] /\ (HoldsLock(d)' <=> HoldsLock(d))
    BY <2>1 DEF HoldsLock, SessionInv, ActorsAreReachable, SessionTypeOK
  <2>3. profile'[c] = p
    BY <2>1 DEF SessionInv, ActorsAreReachable, SessionTypeOK
  <2> SUFFICES ASSUME NEW a \in Chat, NEW b \in Chat, profile'[a] = profile'[b], HoldsLock(b)',
                      a # b
               PROVE  ~HoldsLock(a)' /\ chat' # a /\ call'.chat # a
    BY DEF LocksAreSound
  <2>4. CASE a = c
    BY <2>1, <2>2, <2>3, <2>4
  <2>5. CASE b = c
    BY <2>1, <2>2, <2>3, <2>5, NilAssumption
  <2>6. CASE a # c /\ b # c
    BY <2>1, <2>2, <2>6, NilAssumption DEF LocksAreSound
  <2> QED
    BY <2>4, <2>5, <2>6
<1>2. CASE \A c \in Chat, p \in Profile : ~SpawnChat(c, p)
  BY <1>2, OldLocks, NilAssumption DEF LocksAreSound
<1> QED
  BY <1>1, <1>2

\* The one step by which a command that awaits the end of a chat returns finds it closing by
\* itself or gone.
LEMMA NextFrees == ASSUME SessionInv, LocksAreSound, SessionNext PROVE Frees
<1> SUFFICES ASSUME NEW c \in Chat, call.chat = c, call.at = "downChat", call' = Idle,
                    NEW d \in Chat, profile[d] = profile[c], HoldsLock(d)'
             PROVE  actor'[d] = "closing"
  BY DEF Frees
<1>1. call'.at = "idle" /\ call # Idle
  BY DEF Idle, Calling
<1>2. CASE CallEndsChat
  <2>1. actor' = actor /\ actor[c] \in {"closing", "gone"}
    BY <1>2, NilAssumption DEF CallEndsChat, ChatDown, chats
  <2>2. HoldsLock(d)
    BY <2>1 DEF HoldsLock
  <2>3. d = c
    BY <2>2 DEF LocksAreSound
  <2> QED
    BY <2>1, <2>2, <2>3 DEF HoldsLock
<1>3. CASE CallNext /\ ~CallEndsChat
  BY <1>1, <1>3
  DEF CallNext, StartFails, StartReturns, SpawnKnp, InstallKnp, DisconnectTakesChat,
      DisconnectStops, CallEndsKnp, ChatRefused, SpawnChat, InstallChat, SnapshotFails
<1>4. ASSUME NEW s \in Session, TaskNext(s) \/ StartNetwork(s) PROVE FALSE
  BY <1>1, <1>4
  DEF TaskNext, TaskReady, TaskFails, TaskStops, TaskLeaves, TaskClears, TaskTakesChat,
      TaskEndsChat, TaskEnds, StartNetwork
<1>5. CASE Disconnect \/ StartChat \/ StopChat
  BY <1>1, <1>5 DEF Disconnect, StartChat, StopChat
<1>6. CASE ActorNext
  BY <1>1, <1>6 DEF ActorNext, ChatStops, ChatCloses, ChatReleases, ActorGoes, KnpStops, KnpCloses,
     KnpEnds, RuntimeGoes
<1> QED
  BY <1>2, <1>3, <1>4, <1>5, <1>6 DEF SessionNext

-----------------------------------------------------------------------------
(* The theorems.                                                           *)

\* The invariant holds in every state, whatever commands are called and whenever tasks end.
THEOREM NetworkSessionInvariant == SessionSpec => []SessionInv
<1>1. SessionInv /\ [SessionNext]_sessionVars => SessionInv'
  <2> SUFFICES ASSUME SessionInv, UNCHANGED sessionVars PROVE SessionInv'
    BY SessionNextInv
  <2> QED
    BY DEF sessionVars, appState, chats, tasks, SessionInv, ActorsAreReachable, SessionTypeOK,
           RunningTaskIsReachable,
           InstalledBelongsToSession, RunningActorsAreHeld, TasksAreSound, CallIsSound
<1> QED
  BY SessionInitInv, <1>1, PTL DEF SessionSpec

\* A running task can be told to stop, what is installed is of the current session, and no
\* running actor is lost (lib.rs, clear_network_session_if_current, install_kononexus_if_current).
THEOREM ActorsStayReachable == SessionSpec => []ActorsAreReachable
<1>1. SessionInv => ActorsAreReachable
  BY DEF SessionInv
<1> QED
  BY <1>1, NetworkSessionInvariant, PTL

\* A profile is locked by one chat at most, and a chat that is installed or that a command has
\* shares its profile with no other that has the lock (knp_chat.rs, session.lock).
THEOREM LocksStaySound == SessionSpec => []LocksAreSound
<1>1. SessionInit => LocksAreSound
  BY DEF SessionInit, LocksAreSound, HoldsLock
<1>2. SessionInv /\ LocksAreSound /\ [SessionNext]_sessionVars => LocksAreSound'
  <2> SUFFICES ASSUME LocksAreSound, UNCHANGED sessionVars PROVE LocksAreSound'
    BY LocksInv
  <2> QED
    BY DEF LocksAreSound, HoldsLock, sessionVars, appState, chats
<1> QED
  BY <1>1, <1>2, NetworkSessionInvariant, PTL DEF SessionSpec

\* When a command that shut a chat down returns, no chat has the lock of its profile but one
\* that has ended by itself and is about to let it go (knp_chat.rs, run and shutdown).
THEOREM ShutdownAwaitsChat == SessionSpec => ShutdownFreesProfile
<1>1. SessionInv /\ LocksAreSound /\ [SessionNext]_sessionVars => [Frees]_sessionVars
  BY NextFrees
<1>2. SessionSpec => [][Frees]_sessionVars
  BY <1>1, NetworkSessionInvariant, LocksStaySound, PTL DEF SessionSpec
<1> QED
  BY <1>2, PTL DEF ShutdownFreesProfile, Frees

-----------------------------------------------------------------------------
(***************************************************************************)
(* Reachability.  What a node offers to others rests on evidence, and it   *)
(* takes itself for published only when it is, for any servers, addresses, *)
(* clients and lifetimes.                                                  *)
(*                                                                         *)
(* The witness, the participation and the swarm keep copies of what is     *)
(* confirmed.  The invariant says how far the copies may differ: the relay *)
(* is reachable no longer than some address is confirmed (Backed), the     *)
(* gate is closed by the next tick (GateFollows), and what the swarm       *)
(* announces came from the witness or from others (Announced).             *)
(***************************************************************************)
Backed == reachable > 0 => \E a \in Address : confirmed[a] >= reachable

GateFollows == gate => consent /\ (reachable > 0 \/ ~ticked)

Announced ==
  /\ external \subseteq owned \cup native
  /\ owned \subseteq Fresh \/ ~ticked

Inv ==
  /\ TypeOK /\ IsFiniteSet(Fresh)
  /\ Backed /\ GateFollows /\ Announced
  /\ PublishedIsAdvertised

-----------------------------------------------------------------------------
(* The operators of the model.                                             *)

\* sync_external: what is announced is what is confirmed now or what others announced, and
\* what the witness has announced is what is confirmed now (reachability.rs, sync_external).
LEMMA SyncAnnounces ==
  ASSUME NEW current \in SUBSET Address, external \subseteq owned \cup native,
         owned \subseteq Address, external \subseteq Address, Sync(current)
  PROVE  /\ external' \subseteq owned' \cup native'
         /\ owned' \subseteq current
         /\ owned' \subseteq Address /\ external' \subseteq Address /\ native' = native
BY DEF Sync

\* Nothing is confirmed once the witness has been cleared.
LEMMA ClearedFresh ==
  ASSUME WitnessCleared
  PROVE  Fresh' = {}
BY DEF WitnessCleared, Fresh

\* Where there is room for an address, the confirmed ones stay within their limit.
LEMMA FreshBounded ==
  ASSUME TypeOK, IsFiniteSet(Fresh), NEW address \in Address, HasRoom(address)
  PROVE  /\ IsFiniteSet(Fresh \cup {address})
         /\ Cardinality(Fresh \cup {address}) <= MaxEndpoints
<1>1. IsFiniteSet(Fresh \cup {address})
  BY FS_AddElement
<1>2. MaxEndpoints \in Nat /\ Cardinality(Fresh) \in Nat /\ Cardinality(Fresh) <= MaxEndpoints
  BY TtlAssumption, FS_CardinalityType DEF TypeOK
<1>3. CASE address \in Fresh
  <2>1. Fresh \cup {address} = Fresh
    BY <1>3
  <2> QED
    BY <2>1, <1>1, <1>2
<1>4. CASE address \notin Fresh
  <2>1. Cardinality(Fresh \cup {address}) = Cardinality(Fresh) + 1
    BY <1>4, FS_AddElement
  <2>2. Cardinality(Fresh) < MaxEndpoints
    BY <1>4 DEF HasRoom
  <2> QED
    BY <1>1, <1>2, <2>1, <2>2
<1> QED
  BY <1>3, <1>4

LEMMA LessType == \A n \in Nat : Less(n) \in Nat /\ Less(n) <= n /\ (n > 0 => Less(n) = n - 1)
BY DEF Less

-----------------------------------------------------------------------------
(* One lemma for each action, or group of actions with the same effect.    *)

LEMMA InitInv == Init => Inv
<1> SUFFICES ASSUME Init PROVE Inv
  OBVIOUS
<1> USE NoneAssumption, TtlAssumption, AddressAssumption
<1>1. Fresh = {}
  BY DEF Init, Fresh
<1>2. IsFiniteSet(Fresh) /\ Cardinality(Fresh) = 0
  BY <1>1, FS_EmptySet
<1>3. TypeOK
  <2>1. /\ inbound \in [Server -> SUBSET Port] /\ inboundLeft \in [Server -> 0..MatchTtl]
        /\ response \in [Server -> Address \cup {None}]
        /\ responseLeft \in [Server -> 0..MatchTtl]
        /\ confirmed \in [Address -> 0..ConfirmTtl]
        /\ \A s \in Server : /\ (inbound[s] = {}) = (inboundLeft[s] = 0)
                             /\ (response[s] = None) = (responseLeft[s] = 0)
    BY DEF Init
  <2>2. /\ {owned, external, native, advertised} \subseteq SUBSET Address
        /\ reachable \in 0..ConfirmTtl
        /\ {publication, record} \subseteq {None} \cup SUBSET Address
        /\ publication = None
        /\ clients \cup accepting \cup reserved \cup leaving \subseteq linked
        /\ linked \subseteq Client
    BY DEF Init
  <2>3. {consent, gate, discovery, published, retryDue, nextDue, recovery, ticked}
          \subseteq BOOLEAN
    <3>1. /\ consent \in BOOLEAN /\ gate \in BOOLEAN /\ discovery \in BOOLEAN /\ published \in BOOLEAN
          /\ retryDue \in BOOLEAN /\ nextDue \in BOOLEAN /\ recovery \in BOOLEAN /\ ticked \in BOOLEAN
      BY DEF Init
    <3> QED
      BY <3>1
  <2>4. Cardinality(Fresh) <= MaxEndpoints
    BY <1>2
  <2> QED
    BY <2>1, <2>2, <2>3, <2>4 DEF TypeOK
<1> QED
  BY <1>1, <1>2, <1>3
  DEF Init, Inv, Backed, GateFollows, Announced, PublishedIsAdvertised

\* Evidence of a server is taken down, and what it confirms is announced at once.
LEMMA ObserveInv ==
  ASSUME Inv, NEW s \in Server, NEW ports \in SUBSET Port, NEW portsLeft \in 0..MatchTtl,
         NEW address \in Address \cup {None}, NEW addressLeft \in 0..MatchTtl,
         (ports = {}) = (portsLeft = 0), (address = None) = (addressLeft = 0),
         Observe(s, ports, portsLeft, address, addressLeft)
  PROVE  Inv'
<1> USE NoneAssumption, TtlAssumption, AddressAssumption
<1> DEFINE found == address # None /\ PortOf[address] \in ports
<1>1. /\ inbound' = [inbound EXCEPT ![s] = ports]
      /\ inboundLeft' = [inboundLeft EXCEPT ![s] = portsLeft]
      /\ response' = [response EXCEPT ![s] = IF found THEN None ELSE address]
      /\ responseLeft' = [responseLeft EXCEPT ![s] = IF found THEN 0 ELSE addressLeft]
  BY DEF Observe
<1>2. /\ inbound' \in [Server -> SUBSET Port] /\ inboundLeft' \in [Server -> 0..MatchTtl]
      /\ response' \in [Server -> Address \cup {None}]
      /\ responseLeft' \in [Server -> 0..MatchTtl]
      /\ \A r \in Server : /\ (inbound'[r] = {}) = (inboundLeft'[r] = 0)
                           /\ (response'[r] = None) = (responseLeft'[r] = 0)
  <2>1. /\ inbound' \in [Server -> SUBSET Port] /\ inboundLeft' \in [Server -> 0..MatchTtl]
        /\ response' \in [Server -> Address \cup {None}]
        /\ responseLeft' \in [Server -> 0..MatchTtl]
    BY <1>1 DEF Inv, TypeOK
  <2>2. ASSUME NEW r \in Server
        PROVE  /\ (inbound'[r] = {}) = (inboundLeft'[r] = 0)
               /\ (response'[r] = None) = (responseLeft'[r] = 0)
    <3>1. CASE r = s
      BY <1>1, <3>1 DEF Inv, TypeOK
    <3>2. CASE r # s
      BY <1>1, <3>2 DEF Inv, TypeOK
    <3> QED
      BY <3>1, <3>2
  <2> QED
    BY <2>1, <2>2
<1>3. UNCHANGED <<consent, gate, publishVars, relayVars, recovery, ticked>>
  BY DEF Observe
<1>4. CASE found /\ HasRoom(address)
  <2>1. /\ address \in Address
        /\ confirmed' = [confirmed EXCEPT ![address] = ConfirmTtl]
        /\ Sync(Fresh \cup {address}) /\ reachable' = ConfirmTtl
    BY <1>4 DEF Observe
  <2>2. confirmed' \in [Address -> 0..ConfirmTtl]
    BY <2>1 DEF Inv, TypeOK
  <2>3. Fresh' = Fresh \cup {address}
    BY <2>1, <2>2 DEF Inv, TypeOK, Fresh
  <2>4. IsFiniteSet(Fresh') /\ Cardinality(Fresh') <= MaxEndpoints
    BY <2>1, <2>3, <1>4, FreshBounded DEF Inv
  <2>5. /\ external' \subseteq owned' \cup native' /\ owned' \subseteq Fresh'
        /\ owned' \subseteq Address /\ external' \subseteq Address /\ native' = native
    <3>1. Fresh \cup {address} \in SUBSET Address
      BY <2>1 DEF Fresh
    <3>2. external \subseteq owned \cup native /\ owned \subseteq Address /\ external \subseteq Address
      BY DEF Inv, TypeOK, Announced
    <3> QED
      BY <2>1, <2>3, <3>1, <3>2, SyncAnnounces
  <2>6. TypeOK'
    BY <1>2, <1>3, <2>1, <2>2, <2>4, <2>5 DEF Inv, TypeOK, publishVars, relayVars
  <2>7. Backed' /\ GateFollows' /\ Announced' /\ PublishedIsAdvertised'
    BY <1>3, <2>1, <2>2, <2>5
    DEF Inv, TypeOK, Backed, GateFollows, Announced, PublishedIsAdvertised, publishVars
  <2> QED
    BY <2>4, <2>6, <2>7 DEF Inv
<1>5. CASE ~(found /\ HasRoom(address))
  <2>1. UNCHANGED <<confirmed, owned, external, native, reachable>>
    BY <1>5 DEF Observe, announceVars
  <2>2. Fresh' = Fresh
    BY <2>1 DEF Fresh
  <2>3. TypeOK'
    BY <1>2, <1>3, <2>1, <2>2 DEF Inv, TypeOK, publishVars, relayVars
  <2> QED
    BY <1>3, <2>1, <2>2, <2>3
    DEF Inv, Backed, GateFollows, Announced, PublishedIsAdvertised, publishVars
<1> QED
  BY <1>4, <1>5

\* The types of what WitnessCleared changes.
LEMMA ClearedType ==
  ASSUME WitnessCleared
  PROVE  /\ inbound' \in [Server -> SUBSET Port] /\ inboundLeft' \in [Server -> 0..MatchTtl]
         /\ response' \in [Server -> Address \cup {None}]
         /\ responseLeft' \in [Server -> 0..MatchTtl]
         /\ confirmed' \in [Address -> 0..ConfirmTtl]
         /\ \A s \in Server : /\ (inbound'[s] = {}) = (inboundLeft'[s] = 0)
                              /\ (response'[s] = None) = (responseLeft'[s] = 0)
         /\ Fresh' = {} /\ IsFiniteSet(Fresh') /\ Cardinality(Fresh') <= MaxEndpoints
<1> USE TtlAssumption
<1>1. Fresh' = {}
  BY ClearedFresh
<1>2. IsFiniteSet(Fresh') /\ Cardinality(Fresh') = 0
  BY <1>1, FS_EmptySet
<1> QED
  BY <1>1, <1>2 DEF WitnessCleared

\* A change of the NAT status takes all evidence away, and the gate with it.
LEMMA NatStatusInv == ASSUME Inv, OnNatStatus PROVE Inv'
<1> USE TtlAssumption
<1>1. /\ external' \subseteq owned' \cup native' /\ owned' \subseteq {}
      /\ owned' \subseteq Address /\ external' \subseteq Address /\ native' = native
  BY SyncAnnounces DEF OnNatStatus, Inv, TypeOK, Announced
<1>2. reachable' = 0 /\ gate' = FALSE /\ UNCHANGED consent
  BY DEF OnNatStatus, Invalidated
<1>3. UNCHANGED <<publishVars, relayVars, recovery, ticked>> /\ WitnessCleared
  BY DEF OnNatStatus
<1>4. TypeOK'
  <2>1. /\ {owned', external', native', advertised'} \subseteq SUBSET Address
        /\ reachable' \in 0..ConfirmTtl
        /\ {publication', record'} \subseteq {None} \cup SUBSET Address
        /\ publication' # None => discovery' /\ publication' = advertised'
        /\ clients' \cup accepting' \cup reserved' \cup leaving' \subseteq linked'
        /\ linked' \subseteq Client
    BY <1>1, <1>2, <1>3 DEF Inv, TypeOK, publishVars, relayVars
  <2>2. {consent', gate', discovery', published', retryDue', nextDue', recovery', ticked'}
          \subseteq BOOLEAN
    <3>1. /\ consent' \in BOOLEAN /\ gate' \in BOOLEAN /\ discovery' \in BOOLEAN /\ published' \in BOOLEAN
          /\ retryDue' \in BOOLEAN /\ nextDue' \in BOOLEAN /\ recovery' \in BOOLEAN /\ ticked' \in BOOLEAN
      BY <1>2, <1>3 DEF Inv, TypeOK, publishVars
    <3> QED
      BY <3>1
  <2> QED
    BY <2>1, <2>2, <1>3, ClearedType DEF TypeOK
<1> QED
  BY <1>1, <1>2, <1>3, <1>4, ClearedType
  DEF Inv, Backed, GateFollows, Announced, PublishedIsAdvertised, publishVars

\* The tick that handles a change of the network: publication ends with the discovery that
\* asked for it.
LEMMA TickRecoversInv == ASSUME Inv, TickRecovers PROVE Inv'
<1> USE TtlAssumption, NoneAssumption
<1>1. /\ external' \subseteq owned' \cup native' /\ owned' \subseteq {}
      /\ owned' \subseteq Address /\ external' \subseteq Address /\ native' = native
  BY SyncAnnounces DEF TickRecovers, Inv, TypeOK, Announced
<1>2. reachable' = 0 /\ gate' = FALSE /\ UNCHANGED consent
  BY DEF TickRecovers, Invalidated
<1>3. WitnessCleared /\ ticked' = TRUE /\ recovery' = FALSE
  BY DEF TickRecovers
<1>4. /\ discovery' \in BOOLEAN /\ advertised' \in SUBSET Address /\ published' \in BOOLEAN
      /\ publication' \in {None} \cup SUBSET Address
      /\ publication' # None => discovery' /\ publication' = advertised'
      /\ nextDue' = nextDue /\ record' = record
      /\ published' => record' = advertised'
  BY DEF TickRecovers, Inv, TypeOK, PublishedIsAdvertised
<1>5. retryDue' \in BOOLEAN
  BY DEF TickRecovers, Inv, TypeOK
<1>6. /\ clients' \cup accepting' \cup reserved' \cup leaving' \subseteq linked'
      /\ linked' \subseteq Client
  BY DEF TickRecovers, Updated, Inv, TypeOK
<1>7. TypeOK'
  <2>1. /\ {owned', external', native', advertised'} \subseteq SUBSET Address
        /\ reachable' \in 0..ConfirmTtl
        /\ {publication', record'} \subseteq {None} \cup SUBSET Address
    BY <1>1, <1>2, <1>4 DEF Inv, TypeOK
  <2>2. {consent', gate', discovery', published', retryDue', nextDue', recovery', ticked'}
          \subseteq BOOLEAN
    <3>1. /\ consent' \in BOOLEAN /\ gate' \in BOOLEAN /\ discovery' \in BOOLEAN /\ published' \in BOOLEAN
          /\ retryDue' \in BOOLEAN /\ nextDue' \in BOOLEAN /\ recovery' \in BOOLEAN /\ ticked' \in BOOLEAN
      BY <1>2, <1>3, <1>4, <1>5 DEF Inv, TypeOK
    <3> QED
      BY <3>1
  <2> QED
    BY <2>1, <2>2, <1>3, <1>4, <1>6, ClearedType DEF TypeOK
<1> QED
  BY <1>1, <1>2, <1>3, <1>4, <1>7, ClearedType
  DEF Inv, Backed, GateFollows, Announced, PublishedIsAdvertised

\* The tick brings the swarm, the gate and the publication in line with the evidence.
LEMMA TickInv == ASSUME Inv, Tick PROVE Inv'
<1> USE TtlAssumption, NoneAssumption
<1>1. UNCHANGED <<witnessVars, consent, reachable, recovery, discovery, nextDue, record>>
      /\ ticked' = TRUE /\ gate' = Enabled
  BY DEF Tick, Publish
<1>2. Fresh' = Fresh /\ Fresh \subseteq Address
  BY <1>1 DEF Fresh, witnessVars
<1>3. /\ external' \subseteq owned' \cup native' /\ owned' \subseteq Fresh
      /\ owned' \subseteq Address /\ external' \subseteq Address /\ native' = native
  BY <1>2, SyncAnnounces DEF Tick, Inv, TypeOK, Announced
<1>4. Endpoints \in SUBSET Address
  BY <1>2 DEF Endpoints
<1>5. /\ advertised' \in SUBSET Address /\ published' \in BOOLEAN
      /\ publication' \in {None} \cup SUBSET Address
      /\ publication' # None => discovery' /\ publication' = advertised'
      /\ published' => record' = advertised'
  <2>1. CASE discovery
    <3>1. /\ advertised' = Endpoints /\ published' = StillPublished(Endpoints)
          /\ publication' = IF StartsProviding(Endpoints) THEN Endpoints ELSE Running(Endpoints)
      BY <2>1 DEF Tick, Publish
    <3> QED
      BY <1>1, <1>4, <2>1, <3>1
      DEF StillPublished, Running, Inv, TypeOK, PublishedIsAdvertised
  <2>2. CASE ~discovery
    BY <1>1, <2>2 DEF Tick, Publish, Inv, TypeOK, PublishedIsAdvertised
  <2> QED
    BY <2>1, <2>2
<1>6. gate' \in BOOLEAN /\ retryDue' \in BOOLEAN
  <2>1. gate' \in BOOLEAN
    BY <1>1 DEF Enabled, Inv, TypeOK
  <2>2. retryDue' = (retryDue /\ ~StartsProviding(Endpoints)) /\ retryDue \in BOOLEAN
    BY DEF Tick, Publish, Inv, TypeOK
  <2> QED
    BY <2>1, <2>2
<1>7. /\ clients' \cup accepting' \cup reserved' \cup leaving' \subseteq linked'
      /\ linked' \subseteq Client
  BY DEF Tick, Updated, Inv, TypeOK
<1>8. TypeOK'
  BY <1>1, <1>2, <1>3, <1>5, <1>6, <1>7 DEF Inv, TypeOK, witnessVars
<1>9. Backed' /\ GateFollows'
  BY <1>1 DEF Inv, Backed, GateFollows, Enabled, witnessVars
<1> QED
  BY <1>1, <1>2, <1>3, <1>5, <1>8, <1>9 DEF Inv, Announced, PublishedIsAdvertised

\* What time takes from the gate it takes from every address at the same rate.
LEMMA TimePassesInv == ASSUME Inv, TimePasses PROVE Inv'
<1> USE TtlAssumption, NoneAssumption
<1>1. /\ UNCHANGED <<announceVars, consent, gate, publishVars, relayVars, recovery>>
      /\ ticked' = FALSE
  BY DEF TimePasses
<1>2. /\ confirmed' = [a \in Address |-> Less(confirmed[a])] /\ reachable' = Less(reachable)
      /\ confirmed \in [Address -> 0..ConfirmTtl] /\ reachable \in 0..ConfirmTtl
  BY DEF TimePasses, Inv, TypeOK
<1>3. confirmed' \in [Address -> 0..ConfirmTtl] /\ reachable' \in 0..ConfirmTtl
  BY <1>2, LessType
<1>4. Fresh' \subseteq Fresh
  BY <1>2, LessType DEF Fresh
<1>5. IsFiniteSet(Fresh') /\ Cardinality(Fresh') <= MaxEndpoints
  <2>1. IsFiniteSet(Fresh') /\ Cardinality(Fresh') <= Cardinality(Fresh)
    BY <1>4, FS_Subset DEF Inv
  <2>2. Cardinality(Fresh') \in Nat /\ Cardinality(Fresh) \in Nat
    BY <2>1, FS_CardinalityType DEF Inv
  <2> QED
    BY <2>1, <2>2 DEF Inv, TypeOK
<1>6. /\ inboundLeft' \in [Server -> 0..MatchTtl] /\ responseLeft' \in [Server -> 0..MatchTtl]
      /\ inbound' \in [Server -> SUBSET Port] /\ response' \in [Server -> Address \cup {None}]
      /\ \A s \in Server : /\ (inbound'[s] = {}) = (inboundLeft'[s] = 0)
                           /\ (response'[s] = None) = (responseLeft'[s] = 0)
  <2>1. inboundLeft' \in [Server -> 0..MatchTtl] /\ responseLeft' \in [Server -> 0..MatchTtl]
    BY LessType DEF TimePasses, Inv, TypeOK
  <2>2. inbound' \in [Server -> SUBSET Port] /\ response' \in [Server -> Address \cup {None}]
    BY <2>1 DEF TimePasses, Inv, TypeOK
  <2>3. ASSUME NEW s \in Server
        PROVE  /\ (inbound'[s] = {}) = (inboundLeft'[s] = 0)
               /\ (response'[s] = None) = (responseLeft'[s] = 0)
    <3>1. /\ inboundLeft[s] \in Nat /\ inboundLeft'[s] = Less(inboundLeft[s])
          /\ responseLeft[s] \in Nat /\ responseLeft'[s] = Less(responseLeft[s])
      BY DEF TimePasses, Inv, TypeOK
    <3>2. /\ inbound'[s] = IF inboundLeft'[s] = 0 THEN {} ELSE inbound[s]
          /\ response'[s] = IF responseLeft'[s] = 0 THEN None ELSE response[s]
      BY DEF TimePasses
    <3>3. (inbound[s] = {}) = (inboundLeft[s] = 0) /\ (response[s] = None) = (responseLeft[s] = 0)
      BY DEF Inv, TypeOK
    <3> QED
      BY <3>1, <3>2, <3>3 DEF Less
  <2> QED
    BY <2>1, <2>2, <2>3
<1>7. TypeOK'
  BY <1>1, <1>3, <1>5, <1>6 DEF Inv, TypeOK, announceVars, publishVars, relayVars
<1>8. Backed'
  <2> SUFFICES ASSUME reachable' > 0 PROVE \E a \in Address : confirmed'[a] >= reachable'
    BY DEF Backed
  <2>1. reachable > 0 /\ reachable' = reachable - 1
    BY <1>2 DEF Less
  <2>2. PICK a \in Address : confirmed[a] >= reachable
    BY <2>1 DEF Inv, Backed
  <2>3. confirmed'[a] = confirmed[a] - 1
    BY <1>2, <2>1, <2>2 DEF Less
  <2> QED
    BY <1>2, <2>1, <2>2, <2>3
<1>9. GateFollows' /\ Announced' /\ PublishedIsAdvertised'
  BY <1>1 DEF Inv, GateFollows, Announced, PublishedIsAdvertised, announceVars, publishVars
<1> QED
  BY <1>5, <1>7, <1>8, <1>9 DEF Inv

\* What only clients and their connections do.
LEMMA ClientInv ==
  ASSUME Inv, NEW c \in Client, Admit(c) \/ OnRelayServer(c) \/ Connects(c) \/ OnConnectionClosed(c)
  PROVE  Inv'
<1>1. UNCHANGED <<witnessVars, announceVars, participationVars, publishVars, recovery, ticked>>
  BY DEF Admit, OnRelayServer, Connects, OnConnectionClosed
<1>2. Fresh' = Fresh
  BY <1>1 DEF Fresh, witnessVars
<1>3. /\ clients' \cup accepting' \cup reserved' \cup leaving' \subseteq linked'
      /\ linked' \subseteq Client
  BY DEF Admit, OnRelayServer, Connects, OnConnectionClosed, Inv, TypeOK
<1>4. TypeOK'
  BY <1>1, <1>2, <1>3
  DEF Inv, TypeOK, witnessVars, announceVars, participationVars, publishVars
<1> QED
  BY <1>1, <1>2, <1>4
  DEF Inv, Backed, GateFollows, Announced, PublishedIsAdvertised, witnessVars, announceVars,
      participationVars, publishVars

\* A query's result counts for what is advertised, because no other query's is waited for.
LEMMA PublicationInv ==
  ASSUME Inv, NEW ok \in BOOLEAN, OnPublication(ok)
  PROVE  Inv'
<1>1. UNCHANGED <<witnessVars, announceVars, participationVars, relayVars, recovery, ticked,
                  discovery, advertised, retryDue>>
  BY DEF OnPublication
<1>2. Fresh' = Fresh
  BY <1>1 DEF Fresh, witnessVars
<1>3. /\ publication' = None /\ published' \in BOOLEAN /\ nextDue' \in BOOLEAN
      /\ record' \in {None} \cup SUBSET Address
      /\ published' => record' = advertised'
  BY DEF OnPublication, Inv, TypeOK
<1>4. TypeOK'
  BY <1>1, <1>2, <1>3 DEF Inv, TypeOK, witnessVars, announceVars, participationVars, relayVars
<1> QED
  BY <1>1, <1>2, <1>3, <1>4
  DEF Inv, Backed, GateFollows, Announced, PublishedIsAdvertised, witnessVars, announceVars,
      participationVars

\* Others announce addresses of their own.
LEMMA NativeInv ==
  ASSUME Inv, NEW a \in NativeAddress, NativeConfirms(a) \/ NativeExpires(a)
  PROVE  Inv'
<1> USE AddressAssumption
<1>1. UNCHANGED <<owned, witnessVars, participationVars, publishVars, relayVars, recovery, ticked>>
  BY DEF NativeConfirms, NativeExpires
<1>2. Fresh' = Fresh
  BY <1>1 DEF Fresh, witnessVars
<1>3. /\ external' \subseteq Address /\ native' \subseteq Address
      /\ external' \subseteq owned' \cup native'
  BY <1>1 DEF NativeConfirms, NativeExpires, Inv, TypeOK, Announced
<1>4. TypeOK'
  BY <1>1, <1>2, <1>3
  DEF Inv, TypeOK, witnessVars, participationVars, publishVars, relayVars
<1> QED
  BY <1>1, <1>2, <1>3, <1>4
  DEF Inv, Backed, GateFollows, Announced, PublishedIsAdvertised, witnessVars,
      participationVars, publishVars

\* A change of the network is noted, a timer has passed, or nothing happens.
LEMMA TimersInv ==
  ASSUME Inv, AddressChanges \/ RetryTimePasses \/ PublishTimePasses \/ UNCHANGED vars
  PROVE  Inv'
<1>1. /\ UNCHANGED <<witnessVars, announceVars, participationVars, relayVars, ticked, discovery,
                     advertised, publication, published, record>>
      /\ {retryDue', nextDue', recovery'} \subseteq BOOLEAN
  BY DEF AddressChanges, RetryTimePasses, PublishTimePasses, vars, publishVars, Inv, TypeOK
<1>2. Fresh' = Fresh
  BY <1>1 DEF Fresh, witnessVars
<1>3. TypeOK'
  BY <1>1, <1>2
  DEF Inv, TypeOK, witnessVars, announceVars, participationVars, relayVars
<1> QED
  BY <1>1, <1>2, <1>3
  DEF Inv, Backed, GateFollows, Announced, PublishedIsAdvertised, witnessVars, announceVars,
      participationVars

LEMMA NextInv == Inv /\ [Next]_vars => Inv'
<1> SUFFICES ASSUME Inv, [Next]_vars PROVE Inv'
  OBVIOUS
<1> USE TtlAssumption, NoneAssumption
<1>1. ASSUME NEW s \in Server, NEW port \in Port, OnConnection(s, port) PROVE Inv'
  <2>1. /\ inbound[s] \cup {port} \in SUBSET Port /\ MatchTtl \in 0..MatchTtl
        /\ inbound[s] \cup {port} # {} /\ MatchTtl # 0
        /\ response[s] \in Address \cup {None} /\ responseLeft[s] \in 0..MatchTtl
        /\ (response[s] = None) = (responseLeft[s] = 0)
    BY DEF Inv, TypeOK
  <2> QED
    BY <1>1, <2>1, ObserveInv DEF OnConnection
<1>2. ASSUME NEW s \in Server, NEW a \in Address, OnProbeResponse(s, a) PROVE Inv'
  <2>1. /\ inbound[s] \in SUBSET Port /\ inboundLeft[s] \in 0..MatchTtl
        /\ (inbound[s] = {}) = (inboundLeft[s] = 0)
        /\ MatchTtl \in 0..MatchTtl /\ MatchTtl # 0 /\ a # None
    BY DEF Inv, TypeOK
  <2> QED
    BY <1>2, <2>1, ObserveInv DEF OnProbeResponse
<1> QED
  BY <1>1, <1>2, TickInv, TickRecoversInv, TimePassesInv, NatStatusInv, PublicationInv, NativeInv,
     ClientInv, TimersInv
  DEF Next

-----------------------------------------------------------------------------
(* The theorems.                                                           *)

\* The invariant holds in every state, whatever the lifetimes and limits.
THEOREM ReachabilityInvariant == Spec => []Inv
<1>1. Init => Inv
  BY InitInv
<1>2. Inv /\ [Next]_vars => Inv'
  BY NextInv
<1> QED
  BY <1>1, <1>2, PTL DEF Spec

\* The relay's gate is open, and the swarm announces an address, only on evidence the node
\* has, or until the next tick (reachability.rs, participant_relay.rs).
THEOREM OffersAreWitnessed == Spec => []OfferedIsWitnessed
<1>1. Inv => OfferedIsWitnessed
  <2> SUFFICES ASSUME Inv PROVE OfferedIsWitnessed
    OBVIOUS
  <2>1. RelayIsWitnessed
    <3> SUFFICES ASSUME gate, ticked PROVE consent /\ Fresh # {}
      BY DEF RelayIsWitnessed, Inv, GateFollows
    <3>1. consent /\ reachable > 0
      BY DEF Inv, GateFollows
    <3>2. PICK a \in Address : confirmed[a] >= reachable
      BY <3>1 DEF Inv, Backed
    <3>3. confirmed[a] > 0
      BY <3>1, <3>2 DEF Inv, TypeOK
    <3> QED
      BY <3>1, <3>3 DEF Fresh
  <2>2. AnnouncedIsWitnessed
    BY DEF AnnouncedIsWitnessed, Inv, Announced
  <2> QED
    BY <2>1, <2>2 DEF OfferedIsWitnessed, Inv
<1> QED
  BY <1>1, ReachabilityInvariant, PTL

\* The node takes itself for published only while the record says what it advertises, though
\* queries are started, superseded and answered late (cold_start/runtime.rs, publish).
THEOREM PublishedStaysAdvertised == Spec => []PublishedIsAdvertised
<1>1. Inv => PublishedIsAdvertised
  BY DEF Inv
<1> QED
  BY <1>1, ReachabilityInvariant, PTL

-----------------------------------------------------------------------------
(***************************************************************************)
(* Dialing and ColdStart.  What the loop knows of its bootstrap targets,    *)
(* reservations and listener is as the swarm has it, and only what a signed *)
(* advertisement permits is dialed and used, for any number of peers and    *)
(* listeners and every bound.                                              *)
(*                                                                         *)
(* A plan is drawn up with an advertisement and dialed later, a batch at a  *)
(* time; in between the advertisement may be replaced or end.  The          *)
(* invariant says what a plan that is signed can rely on as long as it is   *)
(* there (SignedPlans).  Of the reservations it adds that the two maps      *)
(* never name one listener, so that giving one entry up leaves the other.   *)
(***************************************************************************)
\* A map of reservations, boot of the targets and part of the participants, describes the
\* circuit listeners circ, of which those in closed are given up.
Reserved(boot, part, circ, closed) ==
  /\ boot \in [Peer -> Listener \cup {Nothing}] /\ part \in [Peer -> Listener \cup {Nothing}]
  /\ circ \in [Listener -> Peer \cup {Nothing}]
  /\ closed \subseteq {l \in Listener : circ[l] # Nothing}
  /\ \A l \in Listener : circ[l] # Nothing /\ l \notin closed =>
       boot[circ[l]] = l \/ part[circ[l]] = l
  /\ \A p \in Peer : boot[p] # Nothing =>
       circ[boot[p]] = p /\ boot[p] \notin closed /\ boot[p] # part[p]
  /\ \A p \in Peer : part[p] # Nothing => circ[part[p]] = p /\ part[p] \notin closed

\* The two maps of reservations describe the listeners of the swarm.
ReservationsAgree == Reserved(bootRelays, relays, circuits, closing)

\* The types of what the loop knows of links and targets, of plans, and of contacts.
LinksTyped ==
  /\ links \in [Peer -> SUBSET {"in", "out"}]
  /\ dials \in [Peer -> SUBSET {"plan", "bootstrap"}]
  /\ targets \subseteq Peer /\ marked \subseteq targets /\ due \subseteq targets
  /\ listening \in BOOLEAN /\ recovering \in BOOLEAN

PlansTyped(ps) ==
  /\ ps \in [Peer -> Plan \cup {Nothing}]
  /\ \A p \in Peer : ps[p] # Nothing /\ ps[p].stage = "waiting" => ps[p].batches # <<>>

DiscoveryTyped ==
  /\ discovering \in BOOLEAN /\ query \in BOOLEAN
  /\ attempted \subseteq Peer /\ pending \subseteq attempted
  /\ cache \in [Peer -> Ad \cup {Nothing}]
  /\ contacts \in [Peer -> (SUBSET Kind) \cup {Nothing}]
  /\ claims \subseteq Peer
  /\ book \in [Peer -> SUBSET Kind] /\ unsigned \in [Peer -> SUBSET Kind]

LinksSound == LinksTyped /\ TargetIsMarked /\ ListenerIsAwaited

\* A plan that is signed is of a contact, dials its signed addresses and goes with the
\* advertisement they are from.
SignedPlans ==
  \A p \in Peer : plans[p] # Nothing /\ plans[p].signed =>
    /\ discovering /\ p \in Contact /\ contacts[p] # {}
    /\ \A i \in DOMAIN plans[p].batches : plans[p].batches[i] \in contacts[p]
    /\ cache[p] # Nothing => contacts[p] = cache[p].endpoints

\* The inductive invariant.
ColdStartInv ==
  /\ LinksSound
  /\ ReservationsAgree
  /\ PlansTyped(plans) /\ lapsed \subseteq {p \in Peer : plans[p] # Nothing}
  /\ DiscoveryTyped /\ SignedContacts /\ SignedPlans

-----------------------------------------------------------------------------
(* Reservations.                                                           *)

\* Option::None is no peer, listener or set of addresses.
LEMMA NothingElse ==
  /\ \A p \in Peer : p # Nothing
  /\ \A l \in Listener : l # Nothing
  /\ \A kinds \in SUBSET Kind : kinds # Nothing
BY DialingAssumption

\* What it says of the two maps, as CircuitsAreHeld puts it.
LEMMA ReservedCircuits == ReservationsAgree => CircuitsAreHeld
<1> SUFFICES ASSUME ReservationsAgree PROVE CircuitsAreHeld
  OBVIOUS
<1>1. ASSUME NEW l \in Listener, circuits[l] # Nothing, l \notin closing
      PROVE  Cardinality({p \in Peer : bootRelays[p] = l} \cup {p \in Peer : relays[p] = l}) = 1
  <2>1. circuits[l] \in Peer /\ (bootRelays[circuits[l]] = l \/ relays[circuits[l]] = l)
    BY <1>1 DEF ReservationsAgree, Reserved
  <2>2. \A p \in Peer : bootRelays[p] = l \/ relays[p] = l => p = circuits[l]
    BY NothingElse DEF ReservationsAgree, Reserved
  <2>3. {p \in Peer : bootRelays[p] = l} \cup {p \in Peer : relays[p] = l} = {circuits[l]}
    BY <2>1, <2>2
  <2> QED
    BY <2>3, FS_Singleton
<1>2. ASSUME NEW p \in Peer, NEW held \in {bootRelays[p], relays[p]} \ {Nothing}
      PROVE  circuits[held] = p /\ held \notin closing
  BY DEF ReservationsAgree, Reserved
<1> QED
  BY <1>1, <1>2 DEF CircuitsAreHeld

\* New reservations at targets that had none take listeners that were free.
LEMMA RestoreReserves ==
  ASSUME NEW connected, NEW part, NEW closed, Restore(bootRelays, connected),
         targets \subseteq Peer, Reserved(bootRelays, part, circuits, closed)
  PROVE  Reserved(bootRelays', part, circuits', closed)
<1>1. PICK new \in SUBSET ((targets \cap connected) \ Holders(bootRelays)) :
        \E opened \in Injection(new, {l \in Listener : circuits[l] = Nothing}) :
          /\ circuits' = [l \in Listener |-> IF \E p \in new : opened[p] = l
                            THEN CHOOSE p \in new : opened[p] = l ELSE circuits[l]]
          /\ bootRelays' = [p \in Peer |-> IF p \in new THEN opened[p] ELSE bootRelays[p]]
  BY DEF Restore
<1>2. PICK opened \in Injection(new, {l \in Listener : circuits[l] = Nothing}) :
        /\ circuits' = [l \in Listener |-> IF \E p \in new : opened[p] = l
                          THEN CHOOSE p \in new : opened[p] = l ELSE circuits[l]]
        /\ bootRelays' = [p \in Peer |-> IF p \in new THEN opened[p] ELSE bootRelays[p]]
  BY <1>1
<1>3. /\ \A p \in new : opened[p] \in Listener /\ circuits[opened[p]] = Nothing
      /\ \A p, q \in new : opened[p] = opened[q] => p = q
  BY <1>2 DEF Injection, IsInjective
<1>0. new \subseteq Peer
  BY <1>1
<1>4. ASSUME NEW p \in Peer, p \in new
      PROVE  /\ bootRelays'[p] = opened[p] /\ circuits'[opened[p]] = p
             /\ bootRelays[p] = Nothing
  <2>1. (CHOOSE q \in new : opened[q] = opened[p]) = p
    BY <1>3, <1>4
  <2> QED
    BY <1>1, <1>2, <1>3, <1>4, <2>1 DEF Holders
<1>5. ASSUME NEW p \in Peer, p \notin new PROVE bootRelays'[p] = bootRelays[p]
  BY <1>2, <1>5
<1>6. ASSUME NEW l \in Listener, \A p \in new : opened[p] # l PROVE circuits'[l] = circuits[l]
  BY <1>2, <1>6
<1>7. ASSUME NEW l \in Listener, circuits[l] # Nothing PROVE circuits'[l] = circuits[l]
  BY <1>3, <1>6, <1>7<1>8. ASSUME NEW l \in Listener, circuits'[l] # Nothing, circuits[l] = Nothing
      PROVE  \E p \in new : opened[p] = l
  BY <1>6, <1>8
<1>9. /\ bootRelays' \in [Peer -> Listener \cup {Nothing}]
      /\ circuits' \in [Listener -> Peer \cup {Nothing}]
  <2>1. \A p \in Peer : bootRelays'[p] \in Listener \cup {Nothing}
    BY <1>3, <1>4, <1>5 DEF Reserved
  <2>2. ASSUME NEW l \in Listener PROVE circuits'[l] \in Peer \cup {Nothing}
    BY <1>0, <1>4, <1>6 DEF Reserved
  <2> QED
    BY <1>2, <2>1, <2>2
<1>10. closed \subseteq {l \in Listener : circuits'[l] # Nothing}
  BY <1>7 DEF Reserved
<1>11. ASSUME NEW l \in Listener, circuits'[l] # Nothing, l \notin closed
       PROVE  bootRelays'[circuits'[l]] = l \/ part[circuits'[l]] = l
  <2>1. CASE circuits[l] # Nothing
    <3>1. circuits'[l] = circuits[l] /\ circuits[l] \in Peer
      BY <1>7, <2>1 DEF Reserved
    <3>2. CASE part[circuits[l]] = l
      BY <3>1, <3>2
    <3>3. CASE bootRelays[circuits[l]] = l
      <4>1. circuits[l] \notin new
        BY <1>4, <3>1, <3>3, NothingElse
      <4> QED
        BY <1>5, <3>1, <3>3, <4>1
    <3> QED
      BY <1>11, <2>1, <3>2, <3>3 DEF Reserved
  <2>2. CASE circuits[l] = Nothing
    <3>1. PICK p \in new : opened[p] = l
      BY <1>8, <1>11, <2>2
    <3> QED
      BY <1>0, <1>4, <3>1
  <2> QED
    BY <2>1, <2>2
<1>12. ASSUME NEW p \in Peer, bootRelays'[p] # Nothing
       PROVE  /\ circuits'[bootRelays'[p]] = p
              /\ bootRelays'[p] \notin closed /\ bootRelays'[p] # part[p]
  <2>1. CASE p \in new
    <3>1. bootRelays'[p] = opened[p] /\ circuits'[opened[p]] = p /\ circuits[opened[p]] = Nothing
      BY <1>3, <1>4, <2>1
    <3>2. opened[p] \notin closed /\ opened[p] # part[p]
      BY <1>3, <2>1, <3>1, NothingElse DEF Reserved
    <3> QED
      BY <3>1, <3>2
  <2>2. CASE p \notin new
    <3>1. /\ bootRelays'[p] = bootRelays[p] /\ bootRelays[p] \in Listener
          /\ circuits[bootRelays[p]] = p
      BY <1>5, <1>12, <2>2 DEF Reserved
    <3>2. circuits'[bootRelays[p]] = p
      BY <1>7, <3>1, NothingElse
    <3> QED
      BY <1>12, <3>1, <3>2 DEF Reserved
  <2> QED
    BY <2>1, <2>2
<1>13. ASSUME NEW p \in Peer, part[p] # Nothing
       PROVE  circuits'[part[p]] = p /\ part[p] \notin closed
  <2>1. part[p] \in Listener /\ circuits[part[p]] = p /\ part[p] \notin closed
    BY <1>13 DEF Reserved
  <2> QED
    BY <1>7, <2>1, NothingElse
<1> QED
  BY <1>9, <1>10, <1>11, <1>12, <1>13 DEF Reserved

\* A participant's relay takes a free listener.
LEMMA OpenRelayReserves ==
  ASSUME NEW p \in Peer, OpenRelay(p), Reserved(bootRelays, relays, circuits, closing)
  PROVE  Reserved(bootRelays, relays', circuits', closing)
<1>1. PICK l \in Listener : /\ circuits[l] = Nothing /\ relays[p] = Nothing
                            /\ circuits' = [circuits EXCEPT ![l] = p]
                            /\ relays' = [relays EXCEPT ![p] = l]
  BY DEF OpenRelay
<1>2. /\ circuits'[l] = p /\ \A k \in Listener \ {l} : circuits'[k] = circuits[k]
      /\ relays'[p] = l /\ \A q \in Peer \ {p} : relays'[q] = relays[q]
      /\ relays' \in [Peer -> Listener \cup {Nothing}]
      /\ circuits' \in [Listener -> Peer \cup {Nothing}]
  BY <1>1 DEF Reserved
<1>3. l \notin closing /\ \A q \in Peer : bootRelays[q] # l /\ relays[q] # l
  BY <1>1, NothingElse DEF Reserved
<1>4. closing \subseteq {k \in Listener : circuits'[k] # Nothing}
  BY <1>2, <1>3 DEF Reserved
<1>5. ASSUME NEW k \in Listener, circuits'[k] # Nothing, k \notin closing
      PROVE  bootRelays[circuits'[k]] = k \/ relays'[circuits'[k]] = k
  <2>1. CASE k = l
    BY <1>2, <2>1
  <2>2. CASE k # l
    <3>1. circuits'[k] = circuits[k] /\ circuits[k] \in Peer
      BY <1>2, <1>5, <2>2 DEF Reserved
    <3>2. bootRelays[circuits[k]] = k \/ relays[circuits[k]] = k
      BY <1>5, <3>1 DEF Reserved
    <3> QED
      BY <1>1, <1>2, <3>1, <3>2, NothingElse
  <2> QED
    BY <2>1, <2>2
<1>6. ASSUME NEW q \in Peer, bootRelays[q] # Nothing
      PROVE  circuits'[bootRelays[q]] = q /\ bootRelays[q] \notin closing
             /\ bootRelays[q] # relays'[q]
  BY <1>2, <1>3, <1>6 DEF Reserved
<1>7. ASSUME NEW q \in Peer, relays'[q] # Nothing
      PROVE  circuits'[relays'[q]] = q /\ relays'[q] \notin closing
  BY <1>2, <1>3, <1>7 DEF Reserved
<1> QED
  BY <1>2, <1>4, <1>5, <1>6, <1>7 DEF Reserved

\* Entries of either map are given up, and their listeners with them.
LEMMA WithoutReserves ==
  ASSUME NEW boot, NEW part, NEW circ, NEW closed, NEW ps \in SUBSET Peer,
         Reserved(boot, part, circ, closed)
  PROVE  /\ Reserved(boot, Without(part, ps), circ, closed \cup ListenersOf(part, ps))
         /\ Reserved(Without(boot, ps), part, circ, closed \cup ListenersOf(boot, ps))
<1>1. /\ \A p \in Peer : /\ Without(part, ps)[p] = (IF p \in ps THEN Nothing ELSE part[p])
                         /\ Without(boot, ps)[p] = (IF p \in ps THEN Nothing ELSE boot[p])
      /\ Without(part, ps) \in [Peer -> Listener \cup {Nothing}]
      /\ Without(boot, ps) \in [Peer -> Listener \cup {Nothing}]
  BY DEF Without, Reserved
<1>2. /\ \A l \in ListenersOf(part, ps) : \E p \in ps : part[p] = l /\ l # Nothing
      /\ \A l \in ListenersOf(boot, ps) : \E p \in ps : boot[p] = l /\ l # Nothing
      /\ \A p \in ps : /\ part[p] # Nothing => part[p] \in ListenersOf(part, ps)
                       /\ boot[p] # Nothing => boot[p] \in ListenersOf(boot, ps)
  BY DEF ListenersOf
<1>3. Reserved(boot, Without(part, ps), circ, closed \cup ListenersOf(part, ps))
  <2> DEFINE rest == Without(part, ps)
             gone == closed \cup ListenersOf(part, ps)
  <2>1. \A l \in gone : l \in closed \/ \E p \in ps : part[p] = l /\ l # Nothing
    BY <1>2
  <2>2. \A p \in ps : part[p] # Nothing => part[p] \in gone
    BY <1>2
  <2>3. closed \subseteq gone
    OBVIOUS
  <2> HIDE DEF gone, rest
  <2>4. gone \subseteq {l \in Listener : circ[l] # Nothing}
    BY <2>1, NothingElse DEF Reserved
  <2>5. ASSUME NEW l \in Listener, circ[l] # Nothing, l \notin gone
        PROVE  boot[circ[l]] = l \/ rest[circ[l]] = l
    BY <1>1, <2>2, <2>3, <2>5, NothingElse DEF Reserved, rest
  <2>6. ASSUME NEW p \in Peer, boot[p] # Nothing
        PROVE  circ[boot[p]] = p /\ boot[p] \notin gone /\ boot[p] # rest[p]
    BY <1>1, <2>1, <2>6 DEF Reserved, rest
  <2>7. ASSUME NEW p \in Peer, rest[p] # Nothing
        PROVE  circ[rest[p]] = p /\ rest[p] \notin gone
    BY <1>1, <2>1, <2>7 DEF Reserved, rest
  <2>8. rest \in [Peer -> Listener \cup {Nothing}]
    BY <1>1 DEF rest
  <2> QED
    BY <2>4, <2>5, <2>6, <2>7, <2>8 DEF Reserved, rest, gone
<1>4. Reserved(Without(boot, ps), part, circ, closed \cup ListenersOf(boot, ps))
  <2> DEFINE rest == Without(boot, ps)
             gone == closed \cup ListenersOf(boot, ps)
  <2>1. \A l \in gone : l \in closed \/ \E p \in ps : boot[p] = l /\ l # Nothing
    BY <1>2
  <2>2. \A p \in ps : boot[p] # Nothing => boot[p] \in gone
    BY <1>2
  <2>3. closed \subseteq gone
    OBVIOUS
  <2> HIDE DEF gone, rest
  <2>4. gone \subseteq {l \in Listener : circ[l] # Nothing}
    BY <2>1, NothingElse DEF Reserved
  <2>5. ASSUME NEW l \in Listener, circ[l] # Nothing, l \notin gone
        PROVE  rest[circ[l]] = l \/ part[circ[l]] = l
    BY <1>1, <2>2, <2>3, <2>5, NothingElse DEF Reserved, rest
  <2>6. ASSUME NEW p \in Peer, part[p] # Nothing
        PROVE  circ[part[p]] = p /\ part[p] \notin gone
    BY <1>1, <2>1, <2>6 DEF Reserved, rest
  <2>7. ASSUME NEW p \in Peer, rest[p] # Nothing
        PROVE  circ[rest[p]] = p /\ rest[p] \notin gone /\ rest[p] # part[p]
    BY <1>1, <2>1, <2>7 DEF Reserved, rest
  <2>8. rest \in [Peer -> Listener \cup {Nothing}]
    BY <1>1 DEF rest
  <2> QED
    BY <2>4, <2>5, <2>6, <2>7, <2>8 DEF Reserved, rest, gone
<1> QED
  BY <1>3, <1>4

\* A circuit listener has ended: its entry goes with it.
LEMMA ClosedReserves ==
  ASSUME NEW l \in Listener, circuits' = [circuits EXCEPT ![l] = Nothing],
         closing' = closing \ {l}, relays' = Forgotten(relays, l),
         bootRelays' = Forgotten(bootRelays, l), ReservationsAgree
  PROVE  ReservationsAgree'
<1>1. /\ circuits'[l] = Nothing /\ \A k \in Listener \ {l} : circuits'[k] = circuits[k]
      /\ circuits' \in [Listener -> Peer \cup {Nothing}]
      /\ relays' \in [Peer -> Listener \cup {Nothing}]
      /\ bootRelays' \in [Peer -> Listener \cup {Nothing}]
      /\ \A p \in Peer : /\ relays'[p] = (IF relays[p] = l THEN Nothing ELSE relays[p])
                         /\ bootRelays'[p] = (IF bootRelays[p] = l THEN Nothing ELSE bootRelays[p])
  BY DEF ReservationsAgree, Reserved, Forgotten
<1>2. closing' \subseteq {k \in Listener : circuits'[k] # Nothing}
  BY <1>1 DEF ReservationsAgree, Reserved
<1>3. ASSUME NEW k \in Listener, circuits'[k] # Nothing, k \notin closing'
      PROVE  bootRelays'[circuits'[k]] = k \/ relays'[circuits'[k]] = k
  <2>1. k # l /\ circuits'[k] = circuits[k] /\ circuits[k] \in Peer /\ k \notin closing
    BY <1>1, <1>3 DEF ReservationsAgree, Reserved
  <2>2. bootRelays[circuits[k]] = k \/ relays[circuits[k]] = k
    BY <1>3, <2>1 DEF ReservationsAgree, Reserved
  <2> QED
    BY <1>1, <2>1, <2>2
<1>4. ASSUME NEW p \in Peer, bootRelays'[p] # Nothing
      PROVE  /\ circuits'[bootRelays'[p]] = p /\ bootRelays'[p] \notin closing'
             /\ bootRelays'[p] # relays'[p]
  BY <1>1, <1>4 DEF ReservationsAgree, Reserved
<1>5. ASSUME NEW p \in Peer, relays'[p] # Nothing
      PROVE  circuits'[relays'[p]] = p /\ relays'[p] \notin closing'
  BY <1>1, <1>5 DEF ReservationsAgree, Reserved
<1> QED
  BY <1>1, <1>2, <1>3, <1>4, <1>5 DEF ReservationsAgree, Reserved
-----------------------------------------------------------------------------
(* Plans.                                                                  *)

\* A plan for both kinds of addresses dials directly first.
LEMMA DirectFirst == <<"direct">> \o <<"circuit">> = <<"direct", "circuit">>
<1> DEFINE s == <<"direct">> \o <<"circuit">>
           t == <<"direct", "circuit">>
<1>1. <<"direct">> \in Seq(Kind) /\ <<"circuit">> \in Seq(Kind) /\ t \in Seq(Kind)
  BY DEF Kind
<1>2. s \in Seq(Kind) /\ Len(s) = 2 /\ s[1] = "direct" /\ s[2] = "circuit"
  BY <1>1, ConcatProperties
<1>3. Len(t) = 2 /\ t[1] = "direct" /\ t[2] = "circuit"
  OBVIOUS
<1> HIDE DEF s, t
<1>4. \A i \in 1..Len(s) : s[i] = t[i]
  BY <1>2, <1>3
<1>5. s = t
  BY <1>1, <1>2, <1>3, <1>4, SeqEqual
<1> QED
  BY <1>5 DEF s, t

\* The batches of a plan are of the addresses it was drawn up with.
LEMMA BatchesAre ==
  ASSUME NEW e \in SUBSET Kind
  PROVE  /\ Batches(e) \in {<<>>, <<"direct">>, <<"circuit">>, <<"direct", "circuit">>}
         /\ e # {} => Batches(e) # <<>>
         /\ \A i \in DOMAIN Batches(e) : Batches(e)[i] \in e
<1>1. CASE "direct" \in e /\ "circuit" \in e
  <2>1. Batches(e) = <<"direct", "circuit">>
    BY <1>1, DirectFirst DEF Batches
  <2> QED
    BY <1>1, <2>1
<1>2. CASE "direct" \in e /\ "circuit" \notin e
  <2>1. Batches(e) = <<"direct">>
    BY <1>2 DEF Batches
  <2> QED
    BY <1>2, <2>1
<1>3. CASE "direct" \notin e /\ "circuit" \in e
  <2>1. Batches(e) = <<"circuit">>
    BY <1>3 DEF Batches
  <2> QED
    BY <1>3, <2>1
<1>4. CASE "direct" \notin e /\ "circuit" \notin e
  <2>1. Batches(e) = <<>> /\ e = {}
    BY <1>4 DEF Batches, Kind
  <2> QED
    BY <2>1
<1> QED
  BY <1>1, <1>2, <1>3, <1>4

\* The lists of batches.
BatchLists == {Batches(e) : e \in SUBSET Kind}

\* The lists of batches a plan may have.
LEMMA BatchListsAre == BatchLists = {<<>>, <<"direct">>, <<"circuit">>, <<"direct", "circuit">>}
<1>1. BatchLists \subseteq {<<>>, <<"direct">>, <<"circuit">>, <<"direct", "circuit">>}
  BY BatchesAre DEF BatchLists
<1>2. /\ Batches({}) = <<>> /\ Batches({"direct"}) = <<"direct">>
      /\ Batches({"circuit"}) = <<"circuit">> /\ Batches(Kind) = <<"direct", "circuit">>
  BY DirectFirst DEF Batches, Kind
<1>3. {} \in SUBSET Kind /\ {"direct"} \in SUBSET Kind /\ {"circuit"} \in SUBSET Kind
      /\ Kind \in SUBSET Kind
  BY DEF Kind
<1> QED
  BY <1>1, <1>2, <1>3 DEF BatchLists

\* A list without its first batch.
LEMMA BatchTail ==
  ASSUME NEW b \in BatchLists, b # <<>>
  PROVE  /\ Tail(b) \in BatchLists /\ Head(b) = b[1] /\ 1 \in DOMAIN b
         /\ Len(b) # 1 => Tail(b) # <<>>
         /\ \A i \in DOMAIN Tail(b) : \E j \in DOMAIN b : Tail(b)[i] = b[j]
<1>1. b \in {<<"direct">>, <<"circuit">>, <<"direct", "circuit">>}
  BY BatchListsAre
<1>2. CASE b = <<"direct">>
  BY <1>2, BatchListsAre
<1>3. CASE b = <<"circuit">>
  BY <1>3, BatchListsAre
<1>4. CASE b = <<"direct", "circuit">>
  <2>1. Tail(b) = <<"circuit">> /\ Head(b) = b[1] /\ DOMAIN b = 1..2 /\ b[2] = "circuit"
    BY <1>4
  <2>2. \A i \in DOMAIN Tail(b) : i = 1 /\ Tail(b)[i] = b[2]
    BY <2>1
  <2> QED
    BY <2>1, <2>2, BatchListsAre
<1> QED
  BY <1>1, <1>2, <1>3, <1>4

\* What is left of the plan old: nothing, or some of its batches, one at least if it waits.
PlanLeft(new, old) ==
  new # Nothing =>
    /\ new \in Plan /\ old # Nothing /\ new.signed = old.signed
    /\ new.stage = "waiting" => new.batches # <<>>
    /\ \A i \in DOMAIN new.batches : \E j \in DOMAIN old.batches : new.batches[i] = old.batches[j]

\* The first batch of a plan is dialed or given up.
LEMMA AfterBatchLeft ==
  ASSUME NEW plan \in Plan, plan # Nothing, plan.batches # <<>>,
         NEW stage \in {"waiting", "pending"}, stage = "pending" \/ Len(plan.batches) # 1
  PROVE  PlanLeft(AfterBatch(plan, stage), plan)
<1> DEFINE new == AfterBatch(plan, stage)
<1>1. plan.batches \in BatchLists
  BY DEF Plan, BatchLists
<1>2. /\ Tail(plan.batches) \in BatchLists
      /\ Len(plan.batches) # 1 => Tail(plan.batches) # <<>>
  BY <1>1, BatchTail
<1>3. \A i \in DOMAIN Tail(plan.batches) :
        \E j \in DOMAIN plan.batches : Tail(plan.batches)[i] = plan.batches[j]
  BY <1>1, BatchTail
<1>4. /\ new \in Plan /\ new.signed = plan.signed /\ new.stage = stage
      /\ new.batches = Tail(plan.batches)
  BY <1>2 DEF AfterBatch, Plan, BatchLists
<1> HIDE DEF new
<1>5. PlanLeft(new, plan)
  BY <1>2, <1>3, <1>4 DEF PlanLeft
<1> QED
  BY <1>5 DEF new

\* A plan that is not changed is left.
LEMMA SamePlanLeft ==
  ASSUME NEW ps, PlansTyped(ps), NEW p \in Peer
  PROVE  PlanLeft(ps[p], ps[p])
BY DEF PlanLeft, PlansTyped

\* DirectFirstDials::drive
LEMMA DrivenLeft ==
  ASSUME NEW ps, PlansTyped(ps), NEW refused, NEW p \in Peer
  PROVE  PlanLeft(Driven(ps, refused)[p], ps[p])
<1>1. CASE ps[p] = Nothing \/ p \in lapsed
  BY <1>1 DEF Driven, PlanLeft
<1>2. CASE ~(ps[p] = Nothing \/ p \in lapsed) /\ p \notin Ready(ps)
  <2>1. Driven(ps, refused)[p] = ps[p]
    BY <1>2 DEF Driven
  <2> QED
    BY <2>1, SamePlanLeft
<1>3. CASE ~(ps[p] = Nothing \/ p \in lapsed) /\ p \in Ready(ps)
  <2>1. ps[p] \in Plan /\ ps[p] # Nothing /\ ps[p].batches # <<>>
    BY <1>3 DEF Ready, PlansTyped
  <2>2. CASE p \notin refused
    <3>1. Driven(ps, refused)[p] = AfterBatch(ps[p], "pending")
      BY <1>3, <2>2 DEF Driven
    <3> QED
      BY <2>1, <3>1, AfterBatchLeft
  <2>3. CASE p \in refused /\ Len(ps[p].batches) = 1
    BY <1>3, <2>3 DEF Driven, PlanLeft
  <2>4. CASE p \in refused /\ Len(ps[p].batches) # 1
    <3>1. Driven(ps, refused)[p] = AfterBatch(ps[p], "waiting")
      BY <1>3, <2>4 DEF Driven
    <3> QED
      BY <2>1, <2>4, <3>1, AfterBatchLeft
  <2> QED
    BY <2>2, <2>3, <2>4
<1> QED
  BY <1>1, <1>2, <1>3

\* DirectFirstDials::failed
LEMMA FailedLeft ==
  ASSUME PlansTyped(plans), NEW p \in Peer
  PROVE  PlanLeft(Failed(p), plans[p])
<1>1. CASE plans[p] = Nothing \/ plans[p].stage = "waiting"
  <2>1. Failed(p) = plans[p]
    BY <1>1 DEF Failed
  <2> QED
    BY <2>1, SamePlanLeft
<1>2. CASE /\ ~(plans[p] = Nothing \/ plans[p].stage = "waiting")
           /\ p \in lapsed \/ plans[p].batches = <<>>
  BY <1>2 DEF Failed, PlanLeft
<1>3. CASE /\ ~(plans[p] = Nothing \/ plans[p].stage = "waiting")
           /\ ~(p \in lapsed \/ plans[p].batches = <<>>)
  <2>1. Failed(p) = [plans[p] EXCEPT !.stage = "waiting"] /\ plans[p] \in Plan
    BY <1>3 DEF Failed, PlansTyped
  <2>2. /\ Failed(p) \in Plan /\ Failed(p).signed = plans[p].signed
        /\ Failed(p).batches = plans[p].batches
    BY <2>1 DEF Plan
  <2> QED
    BY <1>3, <2>2 DEF PlanLeft
<1> QED
  BY <1>1, <1>2, <1>3

\* DirectFirstDials::connected
LEMMA DroppedLeft ==
  ASSUME NEW ps, PlansTyped(ps), NEW peers, NEW p \in Peer
  PROVE  PlanLeft(Dropped(ps, peers)[p], ps[p])
BY DEF Dropped, PlanLeft, PlansTyped

\* What is left of plans is typed as they were.
LEMMA LeftTyped ==
  ASSUME NEW ps, PlansTyped(ps), NEW qs, qs = [p \in Peer |-> qs[p]],
         \A p \in Peer : PlanLeft(qs[p], ps[p])
  PROVE  PlansTyped(qs)
BY DEF PlanLeft, PlansTyped

\* What is left of what was left is left.
LEMMA LeftOfLeft ==
  ASSUME NEW x, NEW y, NEW z, PlanLeft(x, y), PlanLeft(y, z)
  PROVE  PlanLeft(x, z)
BY DEF PlanLeft
-----------------------------------------------------------------------------
(* The steps of Dialing.                                                   *)

\* A step that leaves plans, no more, and gives relays up, no more.
PlansLeft ==
  /\ plans' = [p \in Peer |-> plans'[p]] /\ \A p \in Peer : PlanLeft(plans'[p], plans[p])
  /\ lapsed' \subseteq {p \in Peer : plans'[p] # Nothing}

RelaysLeft == \A p \in Peer : relays'[p] = relays[p] \/ relays'[p] = Nothing

\* A step that leaves the plans alone leaves what is said of them.
LEMMA SamePlans ==
  ASSUME ColdStartInv, UNCHANGED <<plans, lapsed>>
  PROVE  PlansLeft
<1>1. \A p \in Peer : PlanLeft(plans'[p], plans[p])
  BY SamePlanLeft DEF ColdStartInv
<1> QED
  BY <1>1 DEF ColdStartInv, PlansTyped, PlansLeft

\* A step of the dialers that discovery has no part in.
LEMMA DialingInv ==
  ASSUME ColdStartInv, UNCHANGED <<discoveryVars, contactVars>>, LinksSound', ReservationsAgree',
         PlansLeft, RelaysLeft
  PROVE  ColdStartInv'
<1>1. PlansTyped(plans')
  BY LeftTyped DEF ColdStartInv, PlansLeft
<1>2. UNCHANGED <<discovering, query, attempted, pending, cache, contacts, claims, book, unsigned>>
  BY DEF discoveryVars, contactVars
<1>3. DiscoveryTyped'
  BY <1>2 DEF ColdStartInv, DiscoveryTyped
<1>4. SignedContacts'
  BY <1>2 DEF ColdStartInv, SignedContacts, RelaysLeft, Contact
<1>5. SignedPlans'
  <2> SUFFICES ASSUME NEW p \in Peer, plans'[p] # Nothing, plans'[p].signed
               PROVE  /\ discovering /\ p \in Contact /\ contacts[p] # {}
                      /\ \A i \in DOMAIN plans'[p].batches : plans'[p].batches[i] \in contacts[p]
                      /\ cache[p] # Nothing => contacts[p] = cache[p].endpoints
    BY <1>2 DEF SignedPlans, Contact
  <2> QED
    BY DEF ColdStartInv, SignedPlans, PlansLeft, PlanLeft
<1> QED
  BY <1>1, <1>3, <1>4, <1>5 DEF ColdStartInv, PlansLeft

\* A connection ends the plan that dialed it and may reserve at a target.
LEMMA OnConnectionEstablishedInv ==
  ASSUME ColdStartInv, UNCHANGED <<discoveryVars, contactVars>>, NEW p \in Peer,
         NEW way \in {"in", "out"}, NEW why, OnConnectionEstablished(p, way, why)
  PROVE  ColdStartInv'
<1>1. /\ LinksTyped /\ TargetIsMarked /\ ListenerIsAwaited /\ PlansTyped(plans)
      /\ links' = [links EXCEPT ![p] = links[p] \cup {way}]
      /\ dials' = [dials EXCEPT ![p] = dials[p] \ {why}]
      /\ plans' = Dropped(plans, IF way = "out" THEN {p} ELSE {})
      /\ lapsed' = StillLapsed(plans')
      /\ marked' = IF p \in targets THEN marked \cup {p} ELSE marked
      /\ UNCHANGED <<targets, due, relays, closing, listening, recovering>>
  BY DEF OnConnectionEstablished, ColdStartInv, LinksSound
<1>2. LinksTyped'
  BY <1>1 DEF LinksTyped
<1>3. Connected' = Connected \cup {p}
  BY <1>1 DEF LinksTyped, Connected
<1>4. TargetIsMarked' /\ ListenerIsAwaited'
  BY <1>1, <1>3 DEF TargetIsMarked, ListenerIsAwaited
<1>5. ReservationsAgree'
  <2>1. CASE p \in targets
    <3>1. Restore(bootRelays, Connected \cup {p}) /\ targets \subseteq Peer
      BY <1>1, <2>1 DEF OnConnectionEstablished, LinksTyped
    <3>2. Reserved(bootRelays', relays, circuits', closing)
      BY <3>1, RestoreReserves DEF ColdStartInv, ReservationsAgree
    <3> QED
      BY <1>1, <3>2 DEF ReservationsAgree
  <2>2. CASE p \notin targets
    <3>1. UNCHANGED <<bootRelays, circuits>>
      BY <2>2 DEF OnConnectionEstablished
    <3> QED
      BY <1>1, <3>1 DEF ColdStartInv, ReservationsAgree
  <2> QED
    BY <2>1, <2>2
<1>6. PlansLeft
  <2>1. \A q \in Peer : PlanLeft(plans'[q], plans[q])
    BY <1>1, DroppedLeft
  <2>2. lapsed' \subseteq {q \in Peer : plans'[q] # Nothing}
    BY <1>1 DEF StillLapsed, ColdStartInv
  <2>3. plans' = [q \in Peer |-> plans'[q]]
    BY <1>1 DEF Dropped
  <2> QED
    BY <2>1, <2>2, <2>3 DEF PlansLeft
<1> QED
  BY <1>1, <1>2, <1>4, <1>5, <1>6, DialingInv DEF LinksSound, RelaysLeft

\* The last connection of a peer takes its flag and its reservations along.
LEMMA OnPeerConnectionClosedInv ==
  ASSUME ColdStartInv, UNCHANGED <<discoveryVars, contactVars>>, NEW p \in Peer, NEW way,
         OnPeerConnectionClosed(p, way)
  PROVE  ColdStartInv'
<1>1. /\ LinksTyped /\ TargetIsMarked /\ ListenerIsAwaited
      /\ links' = [links EXCEPT ![p] = links[p] \ {way}]
      /\ UNCHANGED <<dials, plans, lapsed, targets, circuits, listening, recovering>>
  BY DEF OnPeerConnectionClosed, ColdStartInv, LinksSound
<1>2. CASE links'[p] = {}
  <2>1. /\ bootRelays' = Without(bootRelays, {p}) /\ relays' = Without(relays, {p})
        /\ closing' = closing \cup ListenersOf(bootRelays, {p}) \cup ListenersOf(relays, {p})
        /\ marked' = marked \ {p} /\ due' = due \ {p}
    BY <1>2 DEF OnPeerConnectionClosed
  <2>2. LinksTyped'
    BY <1>1, <2>1 DEF LinksTyped
  <2>3. Connected' = Connected \ {p}
    BY <1>1, <1>2 DEF LinksTyped, Connected
  <2>4. TargetIsMarked' /\ ListenerIsAwaited'
    BY <1>1, <2>1, <2>3 DEF TargetIsMarked, ListenerIsAwaited
  <2>5. Reserved(bootRelays', relays, circuits, closing \cup ListenersOf(bootRelays, {p}))
    BY <2>1, WithoutReserves DEF ColdStartInv, ReservationsAgree
  <2>6. Reserved(bootRelays', relays', circuits,
                 (closing \cup ListenersOf(bootRelays, {p})) \cup ListenersOf(relays, {p}))
    BY <2>1, <2>5, WithoutReserves
  <2>7. ReservationsAgree'
    BY <1>1, <2>1, <2>6 DEF ReservationsAgree
  <2>8. RelaysLeft
    BY <2>1 DEF RelaysLeft, Without
  <2> QED
    BY <1>1, <2>2, <2>4, <2>7, <2>8, SamePlans, DialingInv DEF LinksSound
<1>3. CASE links'[p] # {}
  <2>1. UNCHANGED <<bootRelays, relays, closing, marked, due>>
    BY <1>3 DEF OnPeerConnectionClosed
  <2>2. LinksTyped'
    BY <1>1, <2>1 DEF LinksTyped
  <2>3. Connected' = Connected
    BY <1>1, <1>3 DEF LinksTyped, Connected
  <2>4. TargetIsMarked' /\ ListenerIsAwaited'
    BY <1>1, <2>1, <2>3 DEF TargetIsMarked, ListenerIsAwaited
  <2>5. ReservationsAgree' /\ RelaysLeft
    BY <1>1, <2>1 DEF ColdStartInv, ReservationsAgree, RelaysLeft
  <2> QED
    BY <1>1, <2>2, <2>4, <2>5, SamePlans, DialingInv DEF LinksSound
<1> QED
  BY <1>2, <1>3

\* A failed dial leaves the flag of a target that is connected.
LEMMA OnOutgoingConnectionErrorInv ==
  ASSUME ColdStartInv, UNCHANGED <<discoveryVars, contactVars>>, NEW p \in Peer, NEW why,
         OnOutgoingConnectionError(p, why)
  PROVE  ColdStartInv'
<1>1. /\ LinksTyped /\ TargetIsMarked /\ ListenerIsAwaited /\ PlansTyped(plans)
      /\ dials' = [dials EXCEPT ![p] = dials[p] \ {why}]
      /\ plans' = [plans EXCEPT ![p] = Failed(p)] \/ plans' = plans
      /\ lapsed' = StillLapsed(plans')
      /\ marked' = MarkedFailed(p)
      /\ due' = IF p \in Connected THEN due ELSE due \ {p}
      /\ UNCHANGED <<links, targets, bootRelays, relays, circuits, closing, listening, recovering>>
  BY DEF OnOutgoingConnectionError, ColdStartInv, LinksSound
<1>2. LinksTyped'
  BY <1>1 DEF LinksTyped, MarkedFailed
<1>3. Connected' = Connected
  BY <1>1 DEF Connected
<1>4. TargetIsMarked' /\ ListenerIsAwaited'
  BY <1>1, <1>3 DEF TargetIsMarked, ListenerIsAwaited, MarkedFailed
<1>5. ReservationsAgree' /\ RelaysLeft
  BY <1>1 DEF ColdStartInv, ReservationsAgree, RelaysLeft
<1>6. PlansLeft
  <2>1. plans' = [q \in Peer |-> plans'[q]]
    BY <1>1 DEF PlansTyped
  <2>2. ASSUME NEW q \in Peer PROVE PlanLeft(plans'[q], plans[q])
    <3>1. plans'[q] = plans[q] \/ (q = p /\ plans'[q] = Failed(p))
      BY <1>1 DEF PlansTyped
    <3> QED
      BY <1>1, <3>1, FailedLeft, SamePlanLeft
  <2>3. lapsed' \subseteq {q \in Peer : plans'[q] # Nothing}
    BY <1>1 DEF StillLapsed, ColdStartInv
  <2> QED
    BY <2>1, <2>2, <2>3 DEF PlansLeft
<1> QED
  BY <1>2, <1>4, <1>5, <1>6, DialingInv DEF LinksSound

\* A listener that ends is forgotten by the entry that names it.
LEMMA OnListenerClosedInv ==
  ASSUME ColdStartInv, UNCHANGED <<discoveryVars, contactVars>>, NEW l \in Listener,
         OnListenerClosed(l)
  PROVE  ColdStartInv'
<1>1. /\ LinksTyped /\ TargetIsMarked /\ ListenerIsAwaited
      /\ relays' = Forgotten(relays, l) /\ bootRelays' = Forgotten(bootRelays, l)
      /\ circuits' = [circuits EXCEPT ![l] = Nothing] /\ closing' = closing \ {l}
      /\ recovering' = (recovering \/ bootRelays' # bootRelays)
      /\ UNCHANGED <<links, dials, plans, lapsed, targets, marked, due, listening>>
  BY DEF OnListenerClosed, ColdStartInv, LinksSound
<1>2. recovering' \in BOOLEAN /\ (recovering => recovering')
  BY <1>1 DEF LinksTyped
<1>3. LinksTyped'
  BY <1>1, <1>2 DEF LinksTyped
<1>4. TargetIsMarked' /\ ListenerIsAwaited'
  BY <1>1, <1>2 DEF TargetIsMarked, ListenerIsAwaited, Connected
<1>5. ReservationsAgree'
  BY <1>1, ClosedReserves DEF ColdStartInv
<1>6. RelaysLeft
  BY <1>1 DEF RelaysLeft, Forgotten
<1> QED
  BY <1>1, <1>3, <1>4, <1>5, <1>6, SamePlans, DialingInv DEF LinksSound

\* A step that only changes what is known of the links, targets and native listener.
LEMMA LinksInv ==
  ASSUME ColdStartInv, LinksSound',
         UNCHANGED <<discoveryVars, contactVars, plans, lapsed, bootRelays, relays, circuits,
                     closing>>
  PROVE  ColdStartInv'
<1>1. ReservationsAgree' /\ RelaysLeft
  BY DEF ColdStartInv, ReservationsAgree, RelaysLeft
<1> QED
  BY <1>1, SamePlans, DialingInv

\* The timer dials the targets that are due and restores reservations.
LEMMA BootstrapRetryInv ==
  ASSUME ColdStartInv, UNCHANGED <<discoveryVars, contactVars>>, BootstrapRetry
  PROVE  ColdStartInv'
<1>1. /\ LinksTyped /\ TargetIsMarked /\ ListenerIsAwaited
      /\ \E refused : dials' = Attempted(due \ marked, refused)
      /\ due' = due \ (due \ marked) /\ Restore(bootRelays, Connected)
      /\ UNCHANGED <<links, plans, lapsed, targets, marked, relays, closing, listening,
                     recovering>>
  BY DEF BootstrapRetry, ColdStartInv, LinksSound
<1>2. dials' \in [Peer -> SUBSET {"plan", "bootstrap"}]
  BY <1>1 DEF Attempted, LinksTyped
<1>3. LinksTyped'
  BY <1>1, <1>2 DEF LinksTyped
<1>4. TargetIsMarked' /\ ListenerIsAwaited'
  BY <1>1 DEF TargetIsMarked, ListenerIsAwaited, Connected
<1>5. ReservationsAgree' /\ RelaysLeft
  <2>1. Reserved(bootRelays', relays, circuits', closing)
    BY <1>1, RestoreReserves DEF ColdStartInv, ReservationsAgree, LinksTyped
  <2> QED
    BY <1>1, <2>1 DEF ReservationsAgree, RelaysLeft
<1> QED
  BY <1>1, <1>3, <1>4, <1>5, SamePlans, DialingInv DEF LinksSound

\* The steps of the dialers, those that discovery has no part in.
LEMMA DialingStepInv ==
  ASSUME ColdStartInv, UNCHANGED <<discoveryVars, contactVars>>, DialingStep
  PROVE  ColdStartInv'
<1>0. LinksTyped /\ TargetIsMarked /\ ListenerIsAwaited
  BY DEF ColdStartInv, LinksSound
<1>1. ASSUME NEW p \in Peer, NEW way \in {"in", "out"}, NEW why,
             OnConnectionEstablished(p, way, why)
      PROVE  ColdStartInv'
  BY <1>1, OnConnectionEstablishedInv
<1>2. ASSUME NEW p \in Peer, NEW way, OnPeerConnectionClosed(p, way) PROVE ColdStartInv'
  BY <1>2, OnPeerConnectionClosedInv
<1>3. ASSUME NEW p \in Peer, NEW why, OnOutgoingConnectionError(p, why) PROVE ColdStartInv'
  BY <1>3, OnOutgoingConnectionErrorInv
<1>4. ASSUME NEW p \in Peer, PlanExpires(p) PROVE ColdStartInv'
  <2>1. /\ plans[p] # Nothing /\ lapsed' = lapsed \cup {p}
        /\ UNCHANGED <<links, dials, plans, targets, marked, due, bootRelays, relays, circuits,
                       closing, listening, recovering>>
    BY <1>4 DEF PlanExpires
  <2>2. LinksTyped' /\ TargetIsMarked' /\ ListenerIsAwaited'
    BY <1>0, <2>1 DEF LinksTyped, TargetIsMarked, ListenerIsAwaited, Connected
  <2>3. ReservationsAgree' /\ RelaysLeft
    BY <2>1 DEF ColdStartInv, ReservationsAgree, RelaysLeft
  <2>4. PlansLeft
    <3>1. \A q \in Peer : PlanLeft(plans'[q], plans[q])
      BY <2>1, SamePlanLeft DEF ColdStartInv
    <3> QED
      BY <2>1, <3>1 DEF ColdStartInv, PlansTyped, PlansLeft
  <2> QED
    BY <2>2, <2>3, <2>4, DialingInv DEF LinksSound
<1>5. ASSUME NEW p \in Peer, AttemptDue(p) PROVE ColdStartInv'
  <2>1. /\ p \in targets /\ due' = due \cup {p}
        /\ UNCHANGED <<links, dials, plans, lapsed, targets, marked, bootRelays, relays, circuits,
                       closing, listening, recovering>>
    BY <1>5 DEF AttemptDue
  <2>2. LinksTyped' /\ TargetIsMarked' /\ ListenerIsAwaited'
    BY <1>0, <2>1 DEF LinksTyped, TargetIsMarked, ListenerIsAwaited, Connected
  <2> QED
    BY <2>1, <2>2, LinksInv DEF LinksSound
<1>6. ASSUME NEW l \in Listener, OnListenerClosed(l) PROVE ColdStartInv'
  BY <1>6, OnListenerClosedInv
<1>7. CASE OnNativeListenerClosed
  <2>1. /\ listening' = FALSE /\ recovering' = TRUE
        /\ UNCHANGED <<links, dials, plans, lapsed, targets, marked, due, bootRelays, relays,
                       circuits, closing>>
    BY <1>7 DEF OnNativeListenerClosed
  <2>2. LinksTyped' /\ TargetIsMarked' /\ ListenerIsAwaited'
    BY <1>0, <2>1 DEF LinksTyped, TargetIsMarked, ListenerIsAwaited, Connected
  <2> QED
    BY <2>1, <2>2, LinksInv DEF LinksSound
<1>8. CASE RequestRecovery
  <2>1. /\ recovering' = TRUE
        /\ UNCHANGED <<links, dials, plans, lapsed, targets, marked, due, bootRelays, relays,
                       circuits, closing, listening>>
    BY <1>8 DEF RequestRecovery
  <2>2. LinksTyped' /\ TargetIsMarked' /\ ListenerIsAwaited'
    BY <1>0, <2>1 DEF LinksTyped, TargetIsMarked, ListenerIsAwaited, Connected
  <2> QED
    BY <2>1, <2>2, LinksInv DEF LinksSound
<1>9. CASE BootstrapRetry
  BY <1>9, BootstrapRetryInv
<1> QED
  BY <1>1, <1>2, <1>3, <1>4, <1>5, <1>6, <1>7, <1>8, <1>9 DEF DialingStep
-----------------------------------------------------------------------------
(* The timer cached_retry.                                                 *)

\* What expires leaves the other advertisements as they are.
LEMMA UnexpiredIs ==
  ASSUME DiscoveryTyped, NEW back
  PROVE  /\ Unexpired(back) \in [Peer -> Ad \cup {Nothing}]
         /\ \A p \in Peer : Unexpired(back)[p] # Nothing =>
              Unexpired(back)[p] = cache[p] /\ cache[p] # Nothing /\ ~cache[p].over
BY DEF Unexpired, DiscoveryTyped

\* A peer whose plan is dialed; if the plan is signed it is a contact, and the next batch is
\* one of the addresses it signed.
LEMMA DialedIsSigned ==
  ASSUME ColdStartInv, NEW lost, NEW p \in Ready(Dropped(plans, lost))
  PROVE  /\ p \in Peer /\ p \notin lost /\ plans[p] # Nothing /\ Dropped(plans, lost)[p] = plans[p]
         /\ Head(plans[p].batches) \in Kind
         /\ plans[p].signed =>
              /\ discovering /\ p \in Contact /\ Head(plans[p].batches) \in contacts[p]
              /\ cache[p] # Nothing => contacts[p] = cache[p].endpoints
<1>1. /\ p \in Peer /\ p \notin lost /\ plans[p] # Nothing /\ Dropped(plans, lost)[p] = plans[p]
      /\ plans[p].stage = "waiting"
  BY DEF Ready, Dropped
<1>2. plans[p].batches \in BatchLists /\ plans[p].batches # <<>>
  BY <1>1 DEF ColdStartInv, PlansTyped, Plan, BatchLists
<1>3. Head(plans[p].batches) = plans[p].batches[1] /\ 1 \in DOMAIN plans[p].batches
  BY <1>2, BatchTail
<1>4. Head(plans[p].batches) \in Kind
  BY <1>2, BatchListsAre DEF Kind
<1> QED
  BY <1>1, <1>3, <1>4 DEF ColdStartInv, SignedPlans

\* What a tick leaves behind, as long as the relays of the lost contacts are given up.
LEMMA TickedIs ==
  ASSUME ColdStartInv, NEW refused, NEW back
  PROVE  LET t == Ticked(refused, back)
         IN  /\ t.cache \in [Peer -> Ad \cup {Nothing}] /\ t.claims \subseteq Peer
             /\ t.contacts \in [Peer -> (SUBSET Kind) \cup {Nothing}]
             /\ t.book \in [Peer -> SUBSET Kind] /\ t.unsigned \in [Peer -> SUBSET Kind]
             /\ t.lost \subseteq Peer
             /\ t.dials \in [Peer -> SUBSET {"plan", "bootstrap"}]
             /\ t.plans = [p \in Peer |-> t.plans[p]]
             /\ \A p \in Peer : PlanLeft(t.plans[p], plans[p])
             /\ \A p \in Peer : p \in t.lost => t.plans[p] = Nothing
             /\ \A p \in Peer :
                  /\ t.cache[p] # Nothing => t.cache[p] = cache[p]
                  /\ p \in Contact /\ p \notin t.lost /\ contacts[p] # {} =>
                       t.contacts[p] = contacts[p]
                  /\ t.contacts[p] = Nothing => t.book[p] \subseteq t.unsigned[p] /\ p \notin t.claims
                  /\ t.contacts[p] # Nothing =>
                       /\ t.book[p] \subseteq t.contacts[p] \cup t.unsigned[p]
                       /\ relays[p] # Nothing /\ p \notin t.lost => p \in t.claims
                       /\ p \in t.claims => "direct" \in t.contacts[p]
                  /\ "plan" \in t.dials[p] \ dials[p] /\ plans[p].signed =>
                       /\ cache[p] # Nothing /\ ~cache[p].over
                       /\ Head(plans[p].batches) \in cache[p].endpoints
<1> DEFINE t == Ticked(refused, back)
           accepted == IF discovering THEN Unexpired(back) ELSE cache
           lost == Lost(accepted)
           kept == Dropped(plans, lost)
           dialed == Ready(kept) \ refused
<1>1. /\ LinksTyped /\ PlansTyped(plans) /\ DiscoveryTyped /\ SignedContacts /\ SignedPlans
  BY DEF ColdStartInv, LinksSound
<1>2. /\ accepted \in [Peer -> Ad \cup {Nothing}]
      /\ \A p \in Peer : accepted[p] # Nothing => accepted[p] = cache[p] /\ cache[p] # Nothing
      /\ \A p \in Peer : accepted[p] # Nothing /\ discovering => ~cache[p].over
  BY <1>1, UnexpiredIs DEF DiscoveryTyped
<1>3. /\ t.cache = accepted /\ t.claims = claims \ lost /\ t.lost = lost
      /\ t.book = Remembered(TakenBack(book, contacts, lost), dialed, kept)
      /\ t.unsigned = Remembered(TakenBack(unsigned, contacts, lost),
                                 {p \in dialed : ~kept[p].signed}, kept)
      /\ t.plans = Driven(kept, refused)
      /\ t.dials = [p \in Peer |-> IF p \in dialed THEN dials[p] \cup {"plan"} ELSE dials[p]]
      /\ t.contacts = [p \in Peer |->
           IF p \in Contact /\ discovering /\ p \notin Connected /\ Emptied(contacts, lost)[p] = {}
           THEN Nothing ELSE IF p \in lost THEN {} ELSE contacts[p]]
  BY DEF Ticked
<1>4. \A p \in Peer : p \in lost <=> discovering /\ p \in Contact /\ accepted[p] = Nothing
  BY DEF Lost
<1>5. lost \subseteq Peer
  BY DEF Lost, Contact
<1>6. \A p \in dialed :
        /\ p \in Peer /\ p \notin lost /\ plans[p] # Nothing /\ kept[p] = plans[p]
        /\ Head(plans[p].batches) \in Kind
        /\ plans[p].signed =>
             /\ discovering /\ p \in Contact /\ Head(plans[p].batches) \in contacts[p]
             /\ cache[p] # Nothing => contacts[p] = cache[p].endpoints
  BY DialedIsSigned
<1>7. /\ \A p \in Peer : PlanLeft(Driven(kept, refused)[p], plans[p])
      /\ \A p \in Peer : p \in lost => Driven(kept, refused)[p] = Nothing
  <2>1. PlansTyped(kept)
    <3>1. kept = [p \in Peer |-> kept[p]]
      BY DEF Dropped
    <3>2. \A p \in Peer : PlanLeft(kept[p], plans[p])
      BY <1>1, DroppedLeft
    <3> HIDE DEF kept
    <3> QED
      BY <1>1, <3>1, <3>2, LeftTyped
  <2>2. ASSUME NEW p \in Peer PROVE PlanLeft(Driven(kept, refused)[p], plans[p])
    <3>1. PlanLeft(Driven(kept, refused)[p], kept[p])
      BY <2>1, DrivenLeft
    <3>2. PlanLeft(kept[p], plans[p])
      BY <1>1, DroppedLeft
    <3> QED
      BY <3>1, <3>2, LeftOfLeft
  <2>3. \A p \in Peer : p \in lost => kept[p] = Nothing
    BY DEF Dropped
  <2> HIDE DEF kept
  <2> QED
    BY <2>2, <2>3 DEF Driven
<1>8. /\ \A p \in Peer :
           /\ p \in dialed => t.book[p] = book[p] \cup {Head(plans[p].batches)}
           /\ p \in dialed /\ ~plans[p].signed =>
                t.unsigned[p] = unsigned[p] \cup {Head(plans[p].batches)}
           /\ p \in dialed /\ plans[p].signed => t.unsigned[p] = unsigned[p]
           /\ p \notin dialed /\ p \in lost =>
                t.book[p] = book[p] \ contacts[p] /\ t.unsigned[p] = unsigned[p] \ contacts[p]
           /\ p \notin dialed /\ p \notin lost =>
                t.book[p] = book[p] /\ t.unsigned[p] = unsigned[p]
      /\ t.book = [p \in Peer |-> t.book[p]] /\ t.unsigned = [p \in Peer |-> t.unsigned[p]]
  <2> HIDE DEF t, accepted, lost, kept, dialed
  <2>1. ASSUME NEW p \in Peer
        PROVE  /\ t.book[p] = IF p \in dialed
                 THEN (IF p \in lost THEN book[p] \ contacts[p] ELSE book[p])
                        \cup {Head(kept[p].batches)}
                 ELSE IF p \in lost THEN book[p] \ contacts[p] ELSE book[p]
               /\ t.unsigned[p] = IF p \in dialed /\ ~kept[p].signed
                 THEN (IF p \in lost THEN unsigned[p] \ contacts[p] ELSE unsigned[p])
                        \cup {Head(kept[p].batches)}
                 ELSE IF p \in lost THEN unsigned[p] \ contacts[p] ELSE unsigned[p]
    BY <1>3 DEF Remembered, TakenBack
  <2>2. t.book = [p \in Peer |-> t.book[p]] /\ t.unsigned = [p \in Peer |-> t.unsigned[p]]
    BY <1>3 DEF Remembered
  <2> QED
    BY <1>6, <2>1, <2>2
<1>9. \A p \in Peer : t.contacts[p] =
        IF /\ p \in Contact /\ discovering /\ p \notin Connected
           /\ (IF p \in lost THEN {} ELSE contacts[p]) = {}
        THEN Nothing ELSE IF p \in lost THEN {} ELSE contacts[p]
  BY <1>3 DEF Emptied
<1>10. t.plans = [p \in Peer |-> t.plans[p]] /\ t.contacts = [p \in Peer |-> t.contacts[p]]
  BY <1>3 DEF Driven
<1> HIDE DEF t, accepted, lost, kept, dialed
<1>11. \A p \in Peer : /\ contacts[p] \in (SUBSET Kind) \cup {Nothing}
                       /\ book[p] \in SUBSET Kind /\ unsigned[p] \in SUBSET Kind
                       /\ p \in Contact <=> contacts[p] # Nothing
                       /\ {} # Nothing
  BY <1>1, NothingElse DEF DiscoveryTyped, Contact
<1>12. ASSUME NEW p \in Peer
       PROVE  /\ t.contacts[p] \in (SUBSET Kind) \cup {Nothing}
              /\ p \in Contact /\ p \notin lost /\ contacts[p] # {} => t.contacts[p] = contacts[p]
  BY <1>9, <1>11
<1>13. ASSUME NEW p \in Peer
       PROVE  t.book[p] \in SUBSET Kind /\ t.unsigned[p] \in SUBSET Kind
  <2>1. CASE p \in dialed
    BY <1>6, <1>8, <1>11, <2>1
  <2>2. CASE p \notin dialed
    BY <1>8, <1>11, <2>2
  <2> QED
    BY <2>1, <2>2
<1>14. ASSUME NEW p \in Peer, t.contacts[p] = Nothing
       PROVE  t.book[p] \subseteq t.unsigned[p] /\ p \notin t.claims
  <2>1. CASE p \in lost
    <3>1. p \notin dialed /\ p \notin t.claims /\ p \in Contact
      BY <1>3, <1>4, <1>6, <2>1
    <3>2. book[p] \subseteq contacts[p] \cup unsigned[p]
      BY <1>1, <3>1 DEF SignedContacts
    <3>3. t.book[p] = book[p] \ contacts[p] /\ t.unsigned[p] = unsigned[p] \ contacts[p]
      BY <1>8, <2>1, <3>1
    <3> QED
      BY <3>1, <3>2, <3>3
  <2>2. CASE p \notin lost
    <3>1. contacts[p] \in {{}, Nothing}
      BY <1>9, <1>14, <2>2
    <3>2. book[p] \subseteq unsigned[p] /\ p \notin claims
      BY <1>1, <1>11, <3>1 DEF SignedContacts
    <3>3. ~(p \in dialed /\ plans[p].signed)
      BY <1>6, <1>11, <3>1
    <3>4. t.book[p] \subseteq t.unsigned[p]
      BY <1>8, <2>2, <3>2, <3>3
    <3> QED
      BY <1>3, <3>2, <3>4
  <2> QED
    BY <2>1, <2>2
<1>15. ASSUME NEW p \in Peer, t.contacts[p] # Nothing
       PROVE  /\ t.book[p] \subseteq t.contacts[p] \cup t.unsigned[p]
              /\ relays[p] # Nothing /\ p \notin lost => p \in t.claims
              /\ p \in t.claims => "direct" \in t.contacts[p]
  <2>1. CASE p \in lost
    <3>1. p \notin dialed /\ p \notin t.claims /\ p \in Contact
      BY <1>3, <1>4, <1>6, <2>1
    <3>2. book[p] \subseteq contacts[p] \cup unsigned[p]
      BY <1>1, <3>1 DEF SignedContacts
    <3>3. t.book[p] = book[p] \ contacts[p] /\ t.unsigned[p] = unsigned[p] \ contacts[p]
      BY <1>8, <2>1, <3>1
    <3> QED
      BY <2>1, <3>1, <3>2, <3>3
  <2>2. CASE p \notin lost
    <3>1. t.contacts[p] = contacts[p] /\ p \in Contact
      BY <1>9, <1>11, <1>15, <2>2
    <3>2. book[p] \subseteq contacts[p] \cup unsigned[p]
      BY <1>1, <3>1 DEF SignedContacts
    <3>3. p \in claims => "direct" \in contacts[p]
      BY <1>1, <3>1 DEF SignedContacts
    <3>4. relays[p] # Nothing => p \in claims
      BY <1>1, <3>1 DEF SignedContacts
    <3>5. t.book[p] \subseteq contacts[p] \cup t.unsigned[p]
      <4>1. CASE p \in dialed /\ plans[p].signed
        <5>1. Head(plans[p].batches) \in contacts[p]
          BY <1>6, <4>1
        <5>2. t.book[p] = book[p] \cup {Head(plans[p].batches)} /\ t.unsigned[p] = unsigned[p]
          BY <1>8, <4>1
        <5> QED
          BY <3>2, <5>1, <5>2
      <4>2. CASE p \in dialed /\ ~plans[p].signed
        <5>1. /\ t.book[p] = book[p] \cup {Head(plans[p].batches)}
              /\ t.unsigned[p] = unsigned[p] \cup {Head(plans[p].batches)}
          BY <1>8, <4>2
        <5> QED
          BY <3>2, <5>1
      <4>3. CASE p \notin dialed
        BY <1>8, <2>2, <3>2, <4>3
      <4> QED
        BY <4>1, <4>2, <4>3
    <3> QED
      BY <1>3, <2>2, <3>1, <3>3, <3>4, <3>5
  <2> QED
    BY <2>1, <2>2
<1>16. ASSUME NEW p \in Peer, "plan" \in t.dials[p] \ dials[p], plans[p].signed
       PROVE  /\ cache[p] # Nothing /\ ~cache[p].over
              /\ Head(plans[p].batches) \in cache[p].endpoints
  <2>1. p \in dialed
    BY <1>3, <1>16
  <2>2. p \notin lost /\ discovering /\ p \in Contact
    BY <1>6, <1>16, <2>1
  <2>3. accepted[p] # Nothing
    BY <1>4, <2>2
  <2> QED
    BY <1>2, <1>6, <1>16, <2>1, <2>2, <2>3
<1>17. t.dials \in [Peer -> SUBSET {"plan", "bootstrap"}]
  BY <1>1, <1>3 DEF LinksTyped
<1>18. /\ t.cache \in [Peer -> Ad \cup {Nothing}] /\ t.claims \subseteq Peer
       /\ t.contacts \in [Peer -> (SUBSET Kind) \cup {Nothing}]
       /\ t.book \in [Peer -> SUBSET Kind] /\ t.unsigned \in [Peer -> SUBSET Kind]
       /\ t.lost \subseteq Peer
  <2>1. /\ t.contacts \in [Peer -> (SUBSET Kind) \cup {Nothing}]
        /\ t.book \in [Peer -> SUBSET Kind] /\ t.unsigned \in [Peer -> SUBSET Kind]
    BY <1>8, <1>10, <1>12, <1>13
  <2>2. claims \subseteq Peer
    BY <1>1 DEF DiscoveryTyped
  <2> QED
    BY <1>2, <1>3, <1>5, <2>1, <2>2
<1>19. /\ \A p \in Peer : PlanLeft(t.plans[p], plans[p])
       /\ \A p \in Peer : p \in t.lost => t.plans[p] = Nothing
       /\ \A p \in Peer : t.cache[p] # Nothing => t.cache[p] = cache[p]
  BY <1>2, <1>3, <1>7
<1>20. t.lost = lost
  BY <1>3
<1>21. /\ t.cache \in [Peer -> Ad \cup {Nothing}] /\ t.claims \subseteq Peer
       /\ t.contacts \in [Peer -> (SUBSET Kind) \cup {Nothing}]
       /\ t.book \in [Peer -> SUBSET Kind] /\ t.unsigned \in [Peer -> SUBSET Kind]
       /\ t.lost \subseteq Peer
       /\ t.dials \in [Peer -> SUBSET {"plan", "bootstrap"}]
       /\ t.plans = [p \in Peer |-> t.plans[p]]
       /\ \A p \in Peer : PlanLeft(t.plans[p], plans[p])
       /\ \A p \in Peer : p \in t.lost => t.plans[p] = Nothing
       /\ \A p \in Peer :
            /\ t.cache[p] # Nothing => t.cache[p] = cache[p]
            /\ p \in Contact /\ p \notin t.lost /\ contacts[p] # {} => t.contacts[p] = contacts[p]
            /\ t.contacts[p] = Nothing => t.book[p] \subseteq t.unsigned[p] /\ p \notin t.claims
            /\ t.contacts[p] # Nothing =>
                 /\ t.book[p] \subseteq t.contacts[p] \cup t.unsigned[p]
                 /\ relays[p] # Nothing /\ p \notin t.lost => p \in t.claims
                 /\ p \in t.claims => "direct" \in t.contacts[p]
            /\ "plan" \in t.dials[p] \ dials[p] /\ plans[p].signed =>
                 /\ cache[p] # Nothing /\ ~cache[p].over
                 /\ Head(plans[p].batches) \in cache[p].endpoints
  BY <1>10, <1>12, <1>14, <1>15, <1>16, <1>17, <1>18, <1>19, <1>20
<1> QED
  BY <1>21 DEF t
\* Signed plans that are left are still of contacts, whose addresses stay.
LEMMA SignedPlansLeft ==
  ASSUME ColdStartInv, PlansLeft, discovering' = discovering,
         NEW kept, kept \subseteq Peer,
         \A p \in Peer : p \notin kept => plans'[p] = Nothing,
         \A p \in kept : p \in Contact /\ contacts[p] # {} => contacts'[p] = contacts[p],
         \A p \in kept : cache'[p] # Nothing => cache'[p] = cache[p]
  PROVE  SignedPlans'
<1> SUFFICES ASSUME NEW p \in Peer, plans'[p] # Nothing, plans'[p].signed
             PROVE  /\ discovering /\ p \in Contact' /\ contacts'[p] # {}
                    /\ \A i \in DOMAIN plans'[p].batches : plans'[p].batches[i] \in contacts'[p]
                    /\ cache'[p] # Nothing => contacts'[p] = cache'[p].endpoints
  BY DEF SignedPlans
<1>1. PlanLeft(plans'[p], plans[p]) /\ p \in kept
  BY DEF PlansLeft
<1>2. /\ discovering /\ p \in Contact /\ contacts[p] # {}
      /\ \A i \in DOMAIN plans[p].batches : plans[p].batches[i] \in contacts[p]
      /\ cache[p] # Nothing => contacts[p] = cache[p].endpoints
  BY <1>1 DEF PlanLeft, ColdStartInv, SignedPlans
<1>3. contacts'[p] = contacts[p] /\ p \in Contact'
  BY <1>1, <1>2 DEF Contact
<1>4. \A i \in DOMAIN plans'[p].batches : plans'[p].batches[i] \in contacts[p]
  BY <1>1, <1>2 DEF PlanLeft
<1>5. cache'[p] # Nothing => contacts[p] = cache'[p].endpoints
  BY <1>1, <1>2
<1> QED
  BY <1>2, <1>3, <1>4, <1>5

\* Relays of some peers are given up; nothing else happens to the reservations.
LEMMA GiveUpReserves ==
  ASSUME NEW ps \in SUBSET Peer, GiveUpRelays(ps), NEW boot, NEW circ,
         Reserved(boot, relays, circ, closing)
  PROVE  /\ Reserved(boot, relays', circ, closing') /\ RelaysLeft
         /\ \A p \in Peer : relays'[p] = IF p \in ps THEN Nothing ELSE relays[p]
<1>1. relays' = Without(relays, ps) /\ closing' = closing \cup ListenersOf(relays, ps)
  BY DEF GiveUpRelays
<1>2. Reserved(boot, relays', circ, closing')
  BY <1>1, WithoutReserves
<1>3. \A p \in Peer : relays'[p] = IF p \in ps THEN Nothing ELSE relays[p]
  BY <1>1 DEF Without
<1> QED
  BY <1>2, <1>3 DEF RelaysLeft

\* A tick gives up the contacts that are lost, with all that is known of them.
LEMMA CachedRetryInv == ASSUME ColdStartInv, CachedRetry PROVE ColdStartInv'
<1>1. PICK refused, back :
        LET t == Ticked(refused, back) IN
        /\ IF discovering THEN TickDiscovery ELSE UNCHANGED <<query, attempted, pending>>
        /\ cache' = t.cache /\ contacts' = t.contacts /\ claims' = t.claims
        /\ book' = t.book /\ unsigned' = t.unsigned
        /\ plans' = t.plans /\ dials' = t.dials
        /\ lapsed' = StillLapsed(plans')
        /\ GiveUpRelays(t.lost)
        /\ UNCHANGED <<links, targets, marked, due, bootRelays, circuits, listening, recovering,
                       discovering>>
  BY DEF CachedRetry
<1> DEFINE t == Ticked(refused, back)
<1>2. /\ IF discovering THEN TickDiscovery ELSE UNCHANGED <<query, attempted, pending>>
      /\ cache' = t.cache /\ contacts' = t.contacts /\ claims' = t.claims
      /\ book' = t.book /\ unsigned' = t.unsigned
      /\ plans' = t.plans /\ dials' = t.dials /\ lapsed' = StillLapsed(plans')
      /\ GiveUpRelays(t.lost)
      /\ UNCHANGED <<links, targets, marked, due, bootRelays, circuits, listening, recovering,
                     discovering>>
  BY <1>1
<1>3. /\ t.cache \in [Peer -> Ad \cup {Nothing}] /\ t.claims \subseteq Peer
      /\ t.contacts \in [Peer -> (SUBSET Kind) \cup {Nothing}]
      /\ t.book \in [Peer -> SUBSET Kind] /\ t.unsigned \in [Peer -> SUBSET Kind]
      /\ t.lost \subseteq Peer
      /\ t.dials \in [Peer -> SUBSET {"plan", "bootstrap"}]
      /\ t.plans = [p \in Peer |-> t.plans[p]]
      /\ \A p \in Peer : PlanLeft(t.plans[p], plans[p])
      /\ \A p \in Peer : p \in t.lost => t.plans[p] = Nothing
      /\ \A p \in Peer :
           /\ t.cache[p] # Nothing => t.cache[p] = cache[p]
           /\ p \in Contact /\ p \notin t.lost /\ contacts[p] # {} => t.contacts[p] = contacts[p]
           /\ t.contacts[p] = Nothing => t.book[p] \subseteq t.unsigned[p] /\ p \notin t.claims
           /\ t.contacts[p] # Nothing =>
                /\ t.book[p] \subseteq t.contacts[p] \cup t.unsigned[p]
                /\ relays[p] # Nothing /\ p \notin t.lost => p \in t.claims
                /\ p \in t.claims => "direct" \in t.contacts[p]
  BY TickedIs
<1> HIDE DEF t
<1>4. /\ LinksTyped /\ TargetIsMarked /\ ListenerIsAwaited /\ DiscoveryTyped /\ PlansTyped(plans)
  BY DEF ColdStartInv, LinksSound
<1>5. LinksSound'
  <2>1. LinksTyped'
    BY <1>2, <1>3, <1>4 DEF LinksTyped
  <2>2. TargetIsMarked' /\ ListenerIsAwaited'
    BY <1>2, <1>4 DEF TargetIsMarked, ListenerIsAwaited, Connected
  <2> QED
    BY <2>1, <2>2 DEF LinksSound
<1>6. /\ Reserved(bootRelays, relays', circuits, closing') /\ RelaysLeft
      /\ \A p \in Peer : relays'[p] = IF p \in t.lost THEN Nothing ELSE relays[p]
  BY <1>2, <1>3, GiveUpReserves DEF ColdStartInv, ReservationsAgree
<1>7. ReservationsAgree'
  BY <1>2, <1>6 DEF ReservationsAgree
<1>8. PlansLeft
  <2>1. lapsed' \subseteq {p \in Peer : plans'[p] # Nothing}
    BY <1>2 DEF StillLapsed, ColdStartInv
  <2> QED
    BY <1>2, <1>3, <2>1 DEF PlansLeft
<1>9. PlansTyped(plans')
  BY <1>4, <1>8, LeftTyped DEF PlansLeft
<1>10. DiscoveryTyped'
  <2>1. query' \in BOOLEAN /\ attempted' \subseteq Peer /\ pending' \subseteq attempted'
    BY <1>2, <1>4 DEF TickDiscovery, DiscoveryTyped
  <2> QED
    BY <1>2, <1>3, <1>4, <2>1 DEF DiscoveryTyped
<1>11. SignedContacts'
  BY <1>2, <1>3, <1>6 DEF SignedContacts, Contact
<1>12. SignedPlans'
  <2> DEFINE kept == {p \in Peer : p \notin t.lost}
  <2>1. kept \subseteq Peer /\ \A p \in Peer : p \notin kept => plans'[p] = Nothing
    BY <1>2, <1>3
  <2>2. \A p \in kept : /\ p \in Contact /\ contacts[p] # {} => contacts'[p] = contacts[p]
                        /\ cache'[p] # Nothing => cache'[p] = cache[p]
    BY <1>2, <1>3
  <2> HIDE DEF kept
  <2> QED
    BY <1>2, <1>8, <2>1, <2>2, SignedPlansLeft
<1> QED
  BY <1>5, <1>7, <1>8, <1>9, <1>10, <1>11, <1>12 DEF ColdStartInv, PlansLeft

\* A refresh sets the flags by the connections and forgets what was learned of contacts.
LEMMA CachedRetryRecoversInv == ASSUME ColdStartInv, CachedRetryRecovers PROVE ColdStartInv'
<1>1. PICK refused \in SUBSET (Ready(plans) \cup (targets \ Connected)),
           back \in {FALSE, Accepted # {}} :
        LET t == Ticked(refused, back)
            contacted == {p \in Peer : t.contacts[p] # Nothing}
            away == targets \ Connected IN
        /\ contacts' = [p \in Peer |-> IF p \in contacted THEN {} ELSE Nothing]
        /\ claims' = {}
        /\ book' = TakenBack(t.book, t.contacts, contacted)
        /\ unsigned' = TakenBack(t.unsigned, t.contacts, contacted)
        /\ plans' = Dropped(t.plans, contacted)
        /\ lapsed' = StillLapsed(plans')
        /\ GiveUpRelays(t.lost \cup contacted)
        /\ dials' = [p \in Peer |->
             IF p \in away \ refused THEN t.dials[p] \cup {"bootstrap"} ELSE t.dials[p]]
  BY DEF CachedRetryRecovers
<1> DEFINE t == Ticked(refused, back)
           contacted == {p \in Peer : t.contacts[p] # Nothing}
<1>2. /\ contacts' = [p \in Peer |-> IF p \in contacted THEN {} ELSE Nothing]
      /\ claims' = {}
      /\ book' = TakenBack(t.book, t.contacts, contacted)
      /\ unsigned' = TakenBack(t.unsigned, t.contacts, contacted)
      /\ plans' = Dropped(t.plans, contacted) /\ lapsed' = StillLapsed(plans')
      /\ GiveUpRelays(t.lost \cup contacted)
      /\ dials' = [p \in Peer |-> IF p \in (targets \ Connected) \ refused
                                 THEN t.dials[p] \cup {"bootstrap"} ELSE t.dials[p]]
  BY <1>1
<1>3. /\ t.book \in [Peer -> SUBSET Kind] /\ t.unsigned \in [Peer -> SUBSET Kind]
      /\ t.lost \subseteq Peer
      /\ t.dials \in [Peer -> SUBSET {"plan", "bootstrap"}]
      /\ t.plans = [p \in Peer |-> t.plans[p]]
      /\ \A p \in Peer : PlanLeft(t.plans[p], plans[p])
      /\ \A p \in Peer : p \in t.lost => t.plans[p] = Nothing
      /\ \A p \in Peer :
           /\ p \in Contact /\ p \notin t.lost /\ contacts[p] # {} => t.contacts[p] = contacts[p]
           /\ t.contacts[p] = Nothing => t.book[p] \subseteq t.unsigned[p]
           /\ t.contacts[p] # Nothing => t.book[p] \subseteq t.contacts[p] \cup t.unsigned[p]
  BY TickedIs
<1>4. \A p \in Peer : p \in contacted <=> t.contacts[p] # Nothing
  OBVIOUS
<1>5. contacted \subseteq Peer
  OBVIOUS
<1>6. /\ discovering' \in {discovering, FALSE}
      /\ query' = FALSE /\ attempted' = {} /\ pending' = {}
      /\ cache' = [p \in Peer |-> Nothing]
      /\ marked' = targets \cap Connected /\ due' = due \cap Connected
      /\ \E opened \in {listening, TRUE} : listening' = opened /\ recovering' = ~opened
      /\ Restore(bootRelays, Connected)
      /\ UNCHANGED <<links, targets>>
  BY DEF CachedRetryRecovers, Refreshed
<1> HIDE DEF t, contacted
<1>7. /\ LinksTyped /\ TargetIsMarked /\ ListenerIsAwaited /\ DiscoveryTyped /\ PlansTyped(plans)
      /\ SignedPlans /\ ReservationsAgree
  BY DEF ColdStartInv, LinksSound
<1>8. LinksSound'
  <2>1. listening' \in BOOLEAN /\ recovering' \in BOOLEAN /\ (listening' \/ recovering')
    <3>1. PICK opened \in {listening, TRUE} : listening' = opened /\ recovering' = ~opened
      BY <1>6
    <3>2. CASE opened = TRUE
      BY <3>1, <3>2
    <3>3. CASE opened = FALSE
      BY <3>1, <3>3
    <3> QED
      BY <1>7, <3>2, <3>3 DEF LinksTyped
  <2>2. dials' \in [Peer -> SUBSET {"plan", "bootstrap"}]
    BY <1>2, <1>3
  <2>3. LinksTyped'
    BY <1>6, <1>7, <2>1, <2>2 DEF LinksTyped
  <2>4. TargetIsMarked' /\ ListenerIsAwaited'
    BY <1>6, <2>1 DEF TargetIsMarked, ListenerIsAwaited, Connected
  <2> QED
    BY <2>3, <2>4 DEF LinksSound
<1>9. /\ ReservationsAgree'
      /\ \A p \in Peer : relays'[p] = IF p \in t.lost \cup contacted THEN Nothing ELSE relays[p]
  <2>1. Reserved(bootRelays', relays, circuits', closing)
    BY <1>6, <1>7, RestoreReserves DEF ReservationsAgree, LinksTyped
  <2>2. t.lost \cup contacted \in SUBSET Peer
    BY <1>3, <1>5
  <2>3. /\ Reserved(bootRelays', relays', circuits', closing')
        /\ \A p \in Peer : relays'[p] = IF p \in t.lost \cup contacted THEN Nothing ELSE relays[p]
    BY <1>2, <2>1, <2>2, GiveUpReserves
  <2> QED
    BY <2>3 DEF ReservationsAgree
<1>10. PlansLeft
  <2>1. /\ plans' = [p \in Peer |-> plans'[p]]
        /\ \A p \in Peer : plans'[p] \in {t.plans[p], Nothing}
    BY <1>2 DEF Dropped
  <2>2. lapsed' \subseteq {p \in Peer : plans'[p] # Nothing}
    BY <1>2 DEF StillLapsed, ColdStartInv
  <2>3. \A p \in Peer : PlanLeft(plans'[p], plans[p])
    BY <1>3, <2>1 DEF PlanLeft
  <2> QED
    BY <2>1, <2>2, <2>3 DEF PlansLeft
<1>11. PlansTyped(plans')
  BY <1>7, <1>10, LeftTyped DEF PlansLeft
<1>12. {} # Nothing /\ {} \in SUBSET Kind
  BY NothingElse
<1>13. \A p \in Peer : book'[p] \subseteq unsigned'[p]
  <2>1. \A p \in Peer : p \in contacted => /\ book'[p] = t.book[p] \ t.contacts[p]
                                         /\ unsigned'[p] = t.unsigned[p] \ t.contacts[p]
    BY <1>2 DEF TakenBack
  <2>2. \A p \in Peer : p \notin contacted =>
          book'[p] = t.book[p] /\ unsigned'[p] = t.unsigned[p]
    BY <1>2 DEF TakenBack
  <2> QED
    BY <1>3, <1>4, <2>1, <2>2
<1>14. DiscoveryTyped'
  <2>1. book' \in [Peer -> SUBSET Kind] /\ unsigned' \in [Peer -> SUBSET Kind]
    BY <1>2, <1>3 DEF TakenBack
  <2>2. contacts' \in [Peer -> (SUBSET Kind) \cup {Nothing}]
    BY <1>2
  <2>3. discovering' \in BOOLEAN
    BY <1>6, <1>7 DEF DiscoveryTyped
  <2> QED
    BY <1>2, <1>6, <2>1, <2>2, <2>3 DEF DiscoveryTyped
<1>15. SignedContacts'
  BY <1>2, <1>9, <1>12, <1>13 DEF SignedContacts, Contact
<1>16. SignedPlans'
  <2> SUFFICES ASSUME NEW p \in Peer, plans'[p] # Nothing, plans'[p].signed PROVE FALSE
    BY DEF SignedPlans
  <2>1. plans'[p] = t.plans[p] /\ p \notin contacted
    BY <1>2 DEF Dropped
  <2>2. plans[p] # Nothing /\ plans[p].signed /\ p \notin t.lost
    BY <1>3, <2>1 DEF PlanLeft
  <2>3. p \in Contact /\ contacts[p] # {}
    BY <1>7, <2>2 DEF SignedPlans
  <2> QED
    BY <1>3, <1>4, <2>1, <2>2, <2>3 DEF Contact
<1> QED
  BY <1>8, <1>9, <1>10, <1>11, <1>14, <1>15, <1>16 DEF ColdStartInv, PlansLeft

-----------------------------------------------------------------------------
(* The steps of discovery.                                                 *)

\* A step of discovery that only ends advertisements or requests.
LEMMA DiscoveryInv ==
  ASSUME ColdStartInv, DiscoveryTyped', UNCHANGED <<dialingVars, contactVars, discovering>>,
         \A p \in Peer : cache'[p] # Nothing =>
           cache[p] # Nothing /\ cache'[p].endpoints = cache[p].endpoints
  PROVE  ColdStartInv'
<1>1. /\ UNCHANGED <<links, dials, plans, lapsed, targets, marked, due, bootRelays, relays>>
      /\ UNCHANGED <<circuits, closing, listening, recovering, contacts, claims, book, unsigned>>
      /\ UNCHANGED discovering
  BY DEF dialingVars, contactVars
<1>2. LinksSound'
  BY <1>1 DEF ColdStartInv, LinksSound, LinksTyped, TargetIsMarked, ListenerIsAwaited, Connected
<1>3. ReservationsAgree' /\ SignedContacts'
  BY <1>1 DEF ColdStartInv, ReservationsAgree, SignedContacts, Contact
<1>4. SignedPlans'
  BY <1>1 DEF ColdStartInv, SignedPlans, Contact
<1> QED
  BY <1>1, <1>2, <1>3, <1>4 DEF ColdStartInv

\* Providers are asked; no advertisement changes.
LEMMA OnProvidersInv == ASSUME ColdStartInv, OnProviders(Peer) PROVE ColdStartInv'
<1>1. /\ UNCHANGED <<dialingVars, discovering, query, cache, contactVars>>
      /\ \E asked \in SUBSET (Peer \ attempted) :
           attempted' = attempted \cup asked /\ pending' = pending \cup asked
  BY DEF OnProviders
<1>2. DiscoveryTyped'
  BY <1>1 DEF ColdStartInv, DiscoveryTyped, contactVars
<1> QED
  BY <1>1, <1>2, DiscoveryInv

\* Without an answer a request ends, and advertisements may.
LEMMA OnNoAnswerInv == ASSUME ColdStartInv, NEW p \in Peer, OnNoAnswer(p) PROVE ColdStartInv'
<1>1. /\ UNCHANGED <<dialingVars, discovering, query, attempted, contactVars>>
      /\ pending' = pending \ {p} /\ cache' \in {cache, Unexpired(FALSE)} /\ DiscoveryTyped
  BY DEF OnNoAnswer, ColdStartInv
<1>2. /\ cache' \in [Peer -> Ad \cup {Nothing}]
      /\ \A q \in Peer : cache'[q] # Nothing => cache'[q] = cache[q]
  BY <1>1, UnexpiredIs DEF DiscoveryTyped
<1>3. DiscoveryTyped'
  BY <1>1, <1>2 DEF DiscoveryTyped, contactVars
<1> QED
  BY <1>1, <1>2, <1>3, DiscoveryInv

\* An advertisement that expires stays what it was until a tick drops it.
LEMMA AdExpiresInv == ASSUME ColdStartInv, NEW p \in Peer, AdExpires(p) PROVE ColdStartInv'
<1>1. /\ UNCHANGED <<dialingVars, discovering, query, attempted, pending, contactVars>>
      /\ cache[p] # Nothing /\ cache' = [cache EXCEPT ![p].over = TRUE] /\ DiscoveryTyped
  BY DEF AdExpires, ColdStartInv
<1>2. cache[p] \in Ad
  BY <1>1 DEF DiscoveryTyped
<1>3. [cache[p] EXCEPT !.over = TRUE] \in Ad
      /\ [cache[p] EXCEPT !.over = TRUE].endpoints = cache[p].endpoints
  BY <1>2 DEF Ad
<1>4. /\ cache' \in [Peer -> Ad \cup {Nothing}]
      /\ cache'[p].endpoints = cache[p].endpoints
      /\ \A q \in Peer \ {p} : cache'[q] = cache[q]
  BY <1>1, <1>3 DEF DiscoveryTyped
<1>5. DiscoveryTyped'
  BY <1>1, <1>4 DEF DiscoveryTyped, contactVars
<1> QED
  BY <1>1, <1>4, <1>5, DiscoveryInv

\* The plan for a candidate is of the addresses that it signed.
LEMMA ReplannedIs ==
  ASSUME NEW p, NEW ad \in Ad
  PROVE  LET plan == Replanned(p, ad)
         IN  /\ plan \in Plan /\ plan.batches # <<>> /\ plan.signed
             /\ \A i \in DOMAIN plan.batches : plan.batches[i] \in ad.endpoints
<1> DEFINE plan == Replanned(p, ad)
<1>1. ad.endpoints \in SUBSET Kind /\ ad.endpoints # {}
  BY DEF Ad, EndpointSets
<1>2. plan = [stage |-> "waiting", signed |-> TRUE, batches |-> Batches(ad.endpoints)]
  BY DEF Replanned, Enqueued
<1>3. /\ Batches(ad.endpoints) # <<>>
      /\ \A i \in DOMAIN Batches(ad.endpoints) : Batches(ad.endpoints)[i] \in ad.endpoints
  BY <1>1, BatchesAre
<1>4. plan \in Plan /\ plan.signed /\ plan.batches = Batches(ad.endpoints)
  BY <1>1, <1>2 DEF Plan
<1> HIDE DEF plan
<1>5. /\ plan \in Plan /\ plan.batches # <<>> /\ plan.signed
      /\ \A i \in DOMAIN plan.batches : plan.batches[i] \in ad.endpoints
  BY <1>3, <1>4
<1> QED
  BY <1>5 DEF plan

\* An accepted advertisement replaces the addresses, the plan and the relay claim.
LEMMA OnCandidateInv ==
  ASSUME ColdStartInv, NEW p \in Peer, NEW ad \in Ad, OnCandidate(p, ad)
  PROVE  ColdStartInv'
<1>1. /\ LinksTyped /\ TargetIsMarked /\ ListenerIsAwaited /\ DiscoveryTyped /\ PlansTyped(plans)
      /\ SignedPlans /\ SignedContacts /\ ReservationsAgree
      /\ lapsed \subseteq {q \in Peer : plans[q] # Nothing}
  BY DEF ColdStartInv, LinksSound
<1>2. /\ discovering /\ pending' = pending \ {p}
      /\ cache' = [Unexpired(FALSE) EXCEPT ![p] = ad]
      /\ UNCHANGED <<links, dials, targets, marked, due, bootRelays, circuits, listening,
                     recovering, discovering, query, attempted>>
  BY DEF OnCandidate
<1>3. /\ cache' \in [Peer -> Ad \cup {Nothing}] /\ cache'[p] = ad
      /\ \A q \in Peer \ {p} : cache'[q] # Nothing => cache'[q] = cache[q]
  BY <1>1, <1>2, UnexpiredIs
<1>4. LinksSound'
  BY <1>1, <1>2 DEF LinksSound, LinksTyped, TargetIsMarked, ListenerIsAwaited, Connected
<1>5. CASE p \in Contact \/ Cardinality(Contact) < MaxContacts
  <2>1. /\ book' = TakenBack(book, contacts, {p} \cap Contact)
        /\ unsigned' = TakenBack(unsigned, contacts, {p} \cap Contact)
        /\ plans' = [plans EXCEPT ![p] = Replanned(p, ad)] /\ lapsed' = lapsed \ {p}
        /\ GiveUpRelays(IF ad.relay THEN {} ELSE {p})
        /\ claims' = IF ad.relay THEN claims \cup {p} ELSE claims \ {p}
        /\ contacts' = [contacts EXCEPT ![p] = ad.endpoints]
    BY <1>5 DEF OnCandidate, KnownAfter
  <2>2. /\ ad.endpoints \in SUBSET Kind /\ ad.endpoints # {} /\ ad.endpoints # Nothing
        /\ ad.relay => "direct" \in ad.endpoints
    <3>1. ad.endpoints \in EndpointSets
      BY DEF Ad
    <3> DEFINE offer == [endpoints |-> ad.endpoints, relay |-> ad.relay]
    <3>2. offer \in Advertised
      BY DEF Ad
    <3>3. offer.relay => "direct" \in offer.endpoints
      BY <3>2, ColdStartAssumption
    <3> QED
      BY <3>1, <3>3, NothingElse DEF EndpointSets
  <2> DEFINE plan == Replanned(p, ad)
  <2>3. /\ plan \in Plan /\ plan.batches # <<>> /\ plan.signed
        /\ \A i \in DOMAIN plan.batches : plan.batches[i] \in ad.endpoints
    BY ReplannedIs
  <2> HIDE DEF plan
  <2>4. /\ plans' \in [Peer -> Plan \cup {Nothing}] /\ plans'[p] = plan
        /\ \A q \in Peer \ {p} : plans'[q] = plans[q]
    BY <1>1, <2>1, <2>3 DEF PlansTyped, plan
  <2>5. PlansTyped(plans')
    BY <1>1, <2>3, <2>4 DEF PlansTyped
  <2>6. lapsed' \subseteq {q \in Peer : plans'[q] # Nothing}
    BY <1>1, <2>1, <2>4
  <2>7. /\ contacts' \in [Peer -> (SUBSET Kind) \cup {Nothing}]
        /\ contacts'[p] = ad.endpoints /\ \A q \in Peer \ {p} : contacts'[q] = contacts[q]
    BY <1>1, <2>1, <2>2 DEF DiscoveryTyped
  <2>8. /\ book' \in [Peer -> SUBSET Kind] /\ unsigned' \in [Peer -> SUBSET Kind]
        /\ book'[p] \subseteq unsigned'[p]
        /\ \A q \in Peer \ {p} : book'[q] = book[q] /\ unsigned'[q] = unsigned[q]
    <3>1. /\ book' = [q \in Peer |-> IF q = p /\ q \in Contact THEN book[q] \ contacts[q]
                                    ELSE book[q]]
          /\ unsigned' = [q \in Peer |-> IF q = p /\ q \in Contact
                                    THEN unsigned[q] \ contacts[q] ELSE unsigned[q]]
      BY <2>1 DEF TakenBack
    <3>2. CASE p \in Contact
      <4>1. book[p] \subseteq contacts[p] \cup unsigned[p]
        BY <1>1, <3>2 DEF SignedContacts
      <4> QED
        BY <1>1, <3>1, <3>2, <4>1 DEF DiscoveryTyped
    <3>3. CASE p \notin Contact
      <4>1. book[p] \subseteq unsigned[p]
        BY <1>1, <3>3 DEF SignedContacts
      <4> QED
        BY <1>1, <3>1, <3>3, <4>1 DEF DiscoveryTyped
    <3> QED
      BY <3>2, <3>3
  <2>9. DiscoveryTyped'
    BY <1>1, <1>2, <1>3, <2>1, <2>7, <2>8 DEF DiscoveryTyped
  <2>10. /\ ReservationsAgree' /\ RelaysLeft
         /\ ~ad.relay => relays'[p] = Nothing
    <3> DEFINE ps == IF ad.relay THEN {} ELSE {p}
    <3>1. ps \in SUBSET Peer /\ (~ad.relay => p \in ps)
      OBVIOUS
    <3>2. GiveUpRelays(ps)
      BY <2>1
    <3> HIDE DEF ps
    <3>3. /\ Reserved(bootRelays, relays', circuits, closing') /\ RelaysLeft
          /\ \A q \in Peer : relays'[q] = IF q \in ps THEN Nothing ELSE relays[q]
      BY <1>1, <3>1, <3>2, GiveUpReserves DEF ReservationsAgree
    <3> QED
      BY <1>2, <3>1, <3>3 DEF ReservationsAgree
  <2>11. SignedContacts'
    <3>1. ASSUME NEW q \in Peer
          PROVE  /\ contacts'[q] = Nothing => book'[q] \subseteq unsigned'[q] /\ q \notin claims'
                 /\ contacts'[q] # Nothing =>
                      /\ book'[q] \subseteq contacts'[q] \cup unsigned'[q]
                      /\ relays'[q] # Nothing => q \in claims'
                      /\ q \in claims' => "direct" \in contacts'[q]
      <4>1. CASE q = p
        BY <2>1, <2>2, <2>7, <2>8, <2>10, <4>1
      <4>2. CASE q # p
        <5>1. /\ contacts'[q] = contacts[q] /\ book'[q] = book[q] /\ unsigned'[q] = unsigned[q]
              /\ q \in claims' <=> q \in claims
          BY <2>1, <2>7, <2>8, <4>2
        <5> QED
          BY <1>1, <2>10, <5>1 DEF SignedContacts, Contact, RelaysLeft
      <4> QED
        BY <4>1, <4>2
    <3> QED
      BY <3>1 DEF SignedContacts, Contact
  <2>12. SignedPlans'
    <3> SUFFICES ASSUME NEW q \in Peer, plans'[q] # Nothing, plans'[q].signed
                 PROVE  /\ discovering /\ contacts'[q] # Nothing /\ contacts'[q] # {}
                        /\ \A i \in DOMAIN plans'[q].batches : plans'[q].batches[i] \in contacts'[q]
                        /\ cache'[q] # Nothing => contacts'[q] = cache'[q].endpoints
      BY <1>2 DEF SignedPlans, Contact
    <3>1. CASE q = p
      BY <1>2, <1>3, <2>2, <2>3, <2>4, <2>7, <3>1
    <3>2. CASE q # p
      BY <1>1, <1>2, <1>3, <2>4, <2>7, <3>2 DEF SignedPlans, Contact
    <3> QED
      BY <3>1, <3>2
  <2> QED
    BY <1>4, <2>5, <2>6, <2>9, <2>10, <2>11, <2>12 DEF ColdStartInv
<1>6. CASE ~(p \in Contact \/ Cardinality(Contact) < MaxContacts)
  <2>1. UNCHANGED <<book, unsigned, plans, lapsed, relays, closing, claims, contacts>>
    BY <1>6 DEF OnCandidate, contactVars
  <2>2. DiscoveryTyped'
    BY <1>1, <1>2, <1>3, <2>1 DEF DiscoveryTyped
  <2>3. ReservationsAgree' /\ SignedContacts'
    BY <1>1, <1>2, <2>1 DEF ReservationsAgree, SignedContacts, Contact
  <2>4. SignedPlans'
    BY <1>1, <1>2, <1>3, <1>6, <2>1 DEF SignedPlans, Contact
  <2> QED
    BY <1>1, <1>4, <2>1, <2>2, <2>3, <2>4 DEF ColdStartInv
<1> QED
  BY <1>5, <1>6

\* What a step adds to the addresses that the dialers know nobody signed.
KnownLeft ==
  /\ book' \in [Peer -> SUBSET Kind] /\ unsigned' \in [Peer -> SUBSET Kind]
  /\ \A p \in Peer : book'[p] \ unsigned'[p] \subseteq book[p] \ unsigned[p]

\* So it is when addresses of a peer are given without a signature.
LEMMA GivenKnown ==
  ASSUME DiscoveryTyped, NEW p \in Peer, NEW addresses \in SUBSET Kind, Given(p, addresses)
  PROVE  KnownLeft
<1>1. /\ book' = [book EXCEPT ![p] = book[p] \cup addresses]
      /\ unsigned' = [unsigned EXCEPT ![p] = unsigned[p] \cup addresses]
  BY DEF Given
<1>2. ASSUME NEW q \in Peer
      PROVE  /\ book'[q] \in SUBSET Kind /\ unsigned'[q] \in SUBSET Kind
             /\ book'[q] \ unsigned'[q] \subseteq book[q] \ unsigned[q]
  BY <1>1 DEF DiscoveryTyped
<1>3. book' = [q \in Peer |-> book'[q]] /\ unsigned' = [q \in Peer |-> unsigned'[q]]
  BY <1>1 DEF DiscoveryTyped
<1> QED
  BY <1>2, <1>3 DEF KnownLeft

\* Contacts stay what they signed.
LEMMA KnownContacts ==
  ASSUME SignedContacts, KnownLeft, RelaysLeft, UNCHANGED <<contacts, claims>>
  PROVE  SignedContacts'
<1>1. ASSUME NEW p \in Peer
      PROVE  /\ p \notin Contact => book'[p] \subseteq unsigned'[p] /\ p \notin claims
             /\ p \in Contact => /\ book'[p] \subseteq contacts[p] \cup unsigned'[p]
                                 /\ relays'[p] # Nothing => p \in claims
                                 /\ p \in claims => "direct" \in contacts[p]
  <2>1. book'[p] \ unsigned'[p] \subseteq book[p] \ unsigned[p]
    BY DEF KnownLeft
  <2> QED
    BY <2>1 DEF SignedContacts, RelaysLeft
<1> QED
  BY <1>1 DEF SignedContacts, Contact

\* A step that changes only the links and the addresses known.
LEMMA KnownInv ==
  ASSUME ColdStartInv, LinksSound', KnownLeft,
         UNCHANGED <<discoveryVars, contacts, claims, plans, lapsed, bootRelays, relays, circuits,
                     closing>>
  PROVE  ColdStartInv'
<1>1. UNCHANGED <<discovering, query, attempted, pending, cache>>
  BY DEF discoveryVars
<1>2. ReservationsAgree' /\ RelaysLeft
  BY DEF ColdStartInv, ReservationsAgree, RelaysLeft
<1>3. DiscoveryTyped'
  BY <1>1 DEF ColdStartInv, DiscoveryTyped, KnownLeft
<1>4. SignedContacts'
  BY <1>2, KnownContacts DEF ColdStartInv
<1>5. SignedPlans'
  BY <1>1 DEF ColdStartInv, SignedPlans, Contact
<1> QED
  BY <1>2, <1>3, <1>4, <1>5 DEF ColdStartInv

\* A new target may be connected without its flag, so a refresh is requested.
LEMMA AddBootstrapInv ==
  ASSUME ColdStartInv, NEW p \in Peer, AddBootstrap(p), Given(p, {"direct"}),
         UNCHANGED <<discoveryVars, contacts, claims>>
  PROVE  ColdStartInv'
<1>1. /\ LinksTyped /\ TargetIsMarked
      /\ \E refused : dials' = Attempted({p}, refused)
      /\ targets' = targets \cup {p} /\ recovering' = TRUE
      /\ UNCHANGED <<links, plans, lapsed, marked, due, bootRelays, relays, circuits, closing,
                     listening>>
  BY DEF AddBootstrap, ColdStartInv, LinksSound
<1>2. dials' \in [Peer -> SUBSET {"plan", "bootstrap"}]
  BY <1>1 DEF Attempted, LinksTyped
<1>3. LinksTyped'
  BY <1>1, <1>2 DEF LinksTyped
<1>4. TargetIsMarked' /\ ListenerIsAwaited'
  BY <1>1 DEF TargetIsMarked, ListenerIsAwaited, Connected
<1>5. "direct" \in Kind
  BY DEF Kind
<1> QED
  BY <1>1, <1>3, <1>4, <1>5, GivenKnown, KnownInv DEF ColdStartInv, LinksSound

\* mDNS gives addresses without a signature and takes them back.
LEMMA OnMdnsInv ==
  ASSUME ColdStartInv, NEW p \in Peer, NEW address \in Kind,
         OnMdnsDiscovered(p, address) \/ OnMdnsExpired(p, address)
  PROVE  ColdStartInv'
<1>1. UNCHANGED <<dialingVars, discoveryVars, contacts, claims>>
  BY DEF OnMdnsDiscovered, OnMdnsExpired
<1>2. UNCHANGED <<links, dials, plans, lapsed, targets, marked, due, bootRelays, relays, circuits,
                  closing, listening, recovering>>
  BY <1>1 DEF dialingVars
<1>3. LinksSound'
  BY <1>2 DEF ColdStartInv, LinksSound, LinksTyped, TargetIsMarked, ListenerIsAwaited, Connected
<1>4. KnownLeft
  <2>1. CASE OnMdnsDiscovered(p, address)
    BY <2>1, GivenKnown DEF OnMdnsDiscovered, ColdStartInv
  <2>2. CASE OnMdnsExpired(p, address)
    <3>1. /\ book' = [book EXCEPT ![p] = book[p] \ {address}]
          /\ unsigned' = [unsigned EXCEPT ![p] = unsigned[p] \ {address}]
      BY <2>2 DEF OnMdnsExpired
    <3> QED
      BY <3>1 DEF ColdStartInv, DiscoveryTyped, KnownLeft
  <2> QED
    BY <2>1, <2>2
<1> QED
  BY <1>1, <1>2, <1>3, <1>4, KnownInv

\* Of a contact only signed addresses are taken, and the relay it offered.
LEMMA OnIdentifyInv ==
  ASSUME ColdStartInv, NEW p \in Peer, NEW addresses \in SUBSET Kind, OnIdentify(p, addresses)
  PROVE  ColdStartInv'
<1>1. /\ DiscoveryTyped /\ SignedContacts /\ ReservationsAgree /\ LinksSound
      /\ UNCHANGED <<links, dials, plans, lapsed, targets, marked, due, bootRelays, closing>>
      /\ UNCHANGED <<listening, recovering, contacts, claims>>
      /\ UNCHANGED <<discovering, query, attempted, pending, cache>>
  BY DEF OnIdentify, ColdStartInv, discoveryVars
<1>2. /\ Listed(p, addresses)
      /\ \/ UNCHANGED <<circuits, relays>>
         \/ (p \in Contact => p \in claims) /\ OpenRelay(p)
  BY DEF OnIdentify
<1>3. /\ book' \in [Peer -> SUBSET Kind] /\ unsigned' \in [Peer -> SUBSET Kind]
      /\ \A q \in Peer : book'[q] \ unsigned'[q] \subseteq
           (book[q] \ unsigned[q]) \cup (IF q \in Contact THEN contacts[q] ELSE {})
  <2>1. CASE p \in Contact
    <3>1. /\ book' = [book EXCEPT ![p] = book[p] \cup (addresses \cap contacts[p])]
          /\ unsigned' = unsigned
      BY <1>2, <2>1 DEF Listed
    <3> QED
      BY <1>1, <2>1, <3>1 DEF DiscoveryTyped
  <2>2. CASE p \notin Contact
    <3>1. KnownLeft
      BY <1>1, <1>2, <2>2, GivenKnown DEF Listed
    <3> QED
      BY <3>1 DEF KnownLeft
  <2> QED
    BY <2>1, <2>2
<1>4. \A q \in Peer :
        /\ q \notin Contact => book'[q] \subseteq unsigned'[q]
        /\ q \in Contact => book'[q] \subseteq contacts[q] \cup unsigned'[q]
  <2>1. \A q \in Peer : q \notin Contact => book[q] \subseteq unsigned[q]
    BY <1>1 DEF SignedContacts
  <2>2. \A q \in Peer : q \in Contact => book[q] \subseteq contacts[q] \cup unsigned[q]
    BY <1>1 DEF SignedContacts
  <2> QED
    BY <1>3, <2>1, <2>2
<1>5. DiscoveryTyped'
  BY <1>1, <1>3 DEF DiscoveryTyped
<1>6. /\ ReservationsAgree'
      /\ \A q \in Peer : relays'[q] = relays[q] \/ (q = p /\ (p \in Contact => p \in claims))
  <2>1. CASE UNCHANGED <<circuits, relays>>
    BY <1>1, <2>1 DEF ReservationsAgree
  <2>2. CASE (p \in Contact => p \in claims) /\ OpenRelay(p)
    <3>1. Reserved(bootRelays, relays', circuits', closing)
      BY <1>1, <2>2, OpenRelayReserves DEF ReservationsAgree
    <3>2. \A q \in Peer : relays'[q] = relays[q] \/ q = p
      BY <1>1, <2>2 DEF OpenRelay, ReservationsAgree, Reserved
    <3> QED
      BY <1>1, <2>2, <3>1, <3>2 DEF ReservationsAgree
  <2> QED
    BY <1>2, <2>1, <2>2
<1>7. LinksSound'
  BY <1>1 DEF LinksSound, LinksTyped, TargetIsMarked, ListenerIsAwaited, Connected
<1>8. SignedContacts'
  BY <1>1, <1>4, <1>6 DEF SignedContacts, Contact
<1>9. SignedPlans'
  BY <1>1 DEF ColdStartInv, SignedPlans, Contact
<1> QED
  BY <1>1, <1>5, <1>6, <1>7, <1>8, <1>9 DEF ColdStartInv
-----------------------------------------------------------------------------
(* The specification.                                                      *)

\* At the start there are no connections, reservations or contacts.
LEMMA ColdStartInitInv == ColdStartInit => ColdStartInv
<1> SUFFICES ASSUME ColdStartInit PROVE ColdStartInv
  OBVIOUS
<1>1. PICK remembered \in SUBSET Peer, configured \in SUBSET Peer :
        /\ DialingInit(remembered, configured)
        /\ book = [p \in Peer |-> IF p \in configured THEN {"direct"} ELSE {}]
  BY DEF ColdStartInit
<1>2. /\ discovering \in BOOLEAN /\ query = FALSE /\ attempted = {} /\ pending = {}
      /\ cache = [p \in Peer |-> Nothing] /\ contacts = [p \in Peer |-> Nothing]
      /\ claims = {} /\ unsigned = book
  BY DEF ColdStartInit
<1> DEFINE plan == [stage |-> "waiting", signed |-> FALSE, batches |-> Batches(Kind)]
<1>3. plan \in Plan /\ plan.signed = FALSE /\ plan.batches # <<>>
  <2>1. Kind # {} /\ Kind \in SUBSET Kind
    BY DEF Kind
  <2>2. Batches(Kind) # <<>>
    BY <2>1, BatchesAre
  <2> QED
    BY <2>1, <2>2 DEF Plan
<1>4. /\ plans = [p \in Peer |-> IF p \in remembered THEN plan ELSE Nothing]
      /\ links = [p \in Peer |-> {}] /\ lapsed = {}
      /\ dials = [p \in Peer |-> IF p \in configured THEN {"bootstrap"} ELSE {}]
      /\ targets = configured /\ marked = {} /\ due = {}
      /\ bootRelays = [p \in Peer |-> Nothing] /\ relays = [p \in Peer |-> Nothing]
      /\ circuits = [l \in Listener |-> Nothing] /\ closing = {}
      /\ listening = TRUE /\ recovering = TRUE
  BY <1>1 DEF DialingInit
<1> HIDE DEF plan
<1>5. LinksSound
  <2>1. LinksTyped
    BY <1>4 DEF LinksTyped
  <2>2. TargetIsMarked /\ ListenerIsAwaited
    BY <1>4 DEF TargetIsMarked, ListenerIsAwaited
  <2> QED
    BY <2>1, <2>2 DEF LinksSound
<1>6. ReservationsAgree
  BY <1>4 DEF ReservationsAgree, Reserved
<1>7. PlansTyped(plans)
  <2>1. plans \in [Peer -> Plan \cup {Nothing}]
    BY <1>3, <1>4
  <2>2. \A p \in Peer : plans[p] # Nothing => plans[p] = plan
    BY <1>4
  <2> QED
    BY <1>3, <2>1, <2>2 DEF PlansTyped
<1>8. SignedPlans
  <2>1. \A p \in Peer : plans[p] # Nothing => plans[p] = plan
    BY <1>4
  <2> QED
    BY <1>3, <2>1 DEF SignedPlans
<1>9. DiscoveryTyped /\ SignedContacts
  <2>1. book \in [Peer -> SUBSET Kind]
    BY <1>1 DEF Kind
  <2> QED
    BY <1>2, <2>1 DEF DiscoveryTyped, SignedContacts, Contact
<1> QED
  BY <1>4, <1>5, <1>6, <1>7, <1>8, <1>9 DEF ColdStartInv

\* The invariant is inductive.
LEMMA ColdStartNextInv == ColdStartInv /\ [ColdStartNext]_coldStartVars => ColdStartInv'
<1> SUFFICES ASSUME ColdStartInv, [ColdStartNext]_coldStartVars PROVE ColdStartInv'
  OBVIOUS
<1>1. CASE DialingStep /\ UNCHANGED <<discoveryVars, contactVars>>
  BY <1>1, DialingStepInv
<1>2. CASE CachedRetry
  BY <1>2, CachedRetryInv
<1>3. CASE CachedRetryRecovers
  BY <1>3, CachedRetryRecoversInv
<1>4. CASE OnProviders(Peer)
  BY <1>4, OnProvidersInv
<1>5. CASE OnLookupEnd
  <2>1. /\ query' = FALSE
        /\ UNCHANGED <<dialingVars, discovering, attempted, pending, cache, contactVars>>
    BY <1>5 DEF OnLookupEnd
  <2>2. DiscoveryTyped'
    BY <2>1 DEF ColdStartInv, DiscoveryTyped, contactVars
  <2> QED
    BY <2>1, <2>2, DiscoveryInv
<1>6. ASSUME NEW p \in Peer, OnNoAnswer(p) PROVE ColdStartInv'
  BY <1>6, OnNoAnswerInv
<1>7. ASSUME NEW p \in Peer, NEW ad \in Ad, OnCandidate(p, ad) PROVE ColdStartInv'
  BY <1>7, OnCandidateInv
<1>8. ASSUME NEW p \in Peer, NEW addresses \in SUBSET Kind, OnIdentify(p, addresses)
      PROVE  ColdStartInv'
  BY <1>8, OnIdentifyInv
<1>9. ASSUME NEW p \in Peer, AdExpires(p) PROVE ColdStartInv'
  BY <1>9, AdExpiresInv
<1>10. ASSUME NEW p \in Peer, NEW address \in Kind,
              OnMdnsDiscovered(p, address) \/ OnMdnsExpired(p, address)
       PROVE  ColdStartInv'
  BY <1>10, OnMdnsInv
<1>11. ASSUME NEW p \in Peer, AddBootstrap(p), Given(p, {"direct"}),
              UNCHANGED <<discoveryVars, contacts, claims>>
       PROVE  ColdStartInv'
  BY <1>11, AddBootstrapInv
<1>12. CASE UNCHANGED coldStartVars
  <2>1. /\ UNCHANGED <<dialingVars, contactVars>>
        /\ UNCHANGED <<discovering, query, attempted, pending, cache>>
    BY <1>12 DEF coldStartVars, discoveryVars
  <2>2. DiscoveryTyped'
    BY <2>1 DEF ColdStartInv, DiscoveryTyped, contactVars
  <2> QED
    BY <2>1, <2>2, DiscoveryInv
<1> QED
  BY <1>1, <1>2, <1>3, <1>4, <1>5, <1>6, <1>7, <1>8, <1>9, <1>10, <1>11, <1>12
     DEF ColdStartNext

\* The invariant says what the runs check.
LEMMA ColdStartInvSays == ColdStartInv => NetworkIsHeld /\ ContactsAreSound
<1> SUFFICES ASSUME ColdStartInv PROVE NetworkIsHeld /\ ContactsAreSound
  OBVIOUS
<1>1. NetworkIsHeld
  BY ReservedCircuits DEF ColdStartInv, LinksSound, NetworkIsHeld
<1>2. DialingTypeOK
  <2>1. ReservationsAgree /\ LinksTyped /\ PlansTyped(plans)
        /\ lapsed \subseteq {p \in Peer : plans[p] # Nothing}
    BY DEF ColdStartInv, LinksSound
  <2> QED
    BY <2>1 DEF ReservationsAgree, Reserved, LinksTyped, PlansTyped, DialingTypeOK
<1>3. ColdStartTypeOK
  BY <1>2 DEF ColdStartInv, DiscoveryTyped, ColdStartTypeOK
<1> QED
  BY <1>1, <1>3 DEF ColdStartInv, ContactsAreSound

\* A plan is dialed by a tick, and by nothing else.
LEMMA TicksDial ==
  ASSUME ColdStartInv, ColdStartNext, NEW p \in Peer, "plan" \in dials'[p] \ dials[p],
         plans[p].signed
  PROVE  /\ cache[p] # Nothing /\ ~cache[p].over
         /\ Head(plans[p].batches) \in cache[p].endpoints
<1>0. dials \in [Peer -> SUBSET {"plan", "bootstrap"}] /\ "plan" # "bootstrap"
  BY DEF ColdStartInv, LinksSound, LinksTyped
<1>1. ASSUME NEW refused, NEW back, "plan" \in Ticked(refused, back).dials[p] \ dials[p]
      PROVE  /\ cache[p] # Nothing /\ ~cache[p].over
             /\ Head(plans[p].batches) \in cache[p].endpoints
  BY <1>1, TickedIs
<1>2. CASE DialingStep
  <2>1. \/ \E q \in Peer : \E why : dials' = [dials EXCEPT ![q] = @ \ {why}]
        \/ \E ps, refused : dials' = Attempted(ps, refused)
        \/ dials' = dials
    BY <1>2 DEF DialingStep, OnConnectionEstablished, OnPeerConnectionClosed,
       OnOutgoingConnectionError, PlanExpires, AttemptDue, OnListenerClosed,
       OnNativeListenerClosed, RequestRecovery, BootstrapRetry
  <2>2. dials'[p] \subseteq dials[p] \cup {"bootstrap"}
    BY <1>0, <2>1 DEF Attempted
  <2> QED
    BY <1>0, <2>2
<1>3. CASE CachedRetry
  BY <1>1, <1>3 DEF CachedRetry
<1>4. CASE CachedRetryRecovers
  <2>1. PICK refused \in SUBSET (Ready(plans) \cup (targets \ Connected)),
             back \in {FALSE, Accepted # {}} :
          LET t == Ticked(refused, back)
              away == targets \ Connected IN
          dials' = [q \in Peer |->
            IF q \in away \ refused THEN t.dials[q] \cup {"bootstrap"} ELSE t.dials[q]]
    BY <1>4 DEF CachedRetryRecovers
  <2>2. dials'[p] \subseteq Ticked(refused, back).dials[p] \cup {"bootstrap"}
    BY <2>1
  <2> QED
    BY <1>0, <1>1, <2>2
<1>5. CASE \/ OnProviders(Peer) \/ OnLookupEnd
           \/ \E q \in Peer :
                \/ OnNoAnswer(q) \/ AdExpires(q)
                \/ \E ad \in Ad : OnCandidate(q, ad)
                \/ \E addresses \in SUBSET Kind : OnIdentify(q, addresses)
                \/ \E address \in Kind : OnMdnsDiscovered(q, address) \/ OnMdnsExpired(q, address)
  <2>1. dials' = dials
    BY <1>5 DEF OnProviders, OnLookupEnd, OnNoAnswer, AdExpires, OnCandidate, OnIdentify,
       OnMdnsDiscovered, OnMdnsExpired, dialingVars
  <2> QED
    BY <2>1
<1>6. ASSUME NEW q \in Peer, AddBootstrap(q)
      PROVE  "plan" \notin dials'[p] \ dials[p]
  <2>1. \E refused : dials' = Attempted({q}, refused)
    BY <1>6 DEF AddBootstrap
  <2> QED
    BY <1>0, <2>1 DEF Attempted
<1> QED
  BY <1>2, <1>3, <1>4, <1>5, <1>6 DEF ColdStartNext

\* The invariant of dialing and cold start holds in every reachable state.
THEOREM ColdStartInvariant == ColdStartSpec => []ColdStartInv
<1> QED
  BY ColdStartInitInv, ColdStartNextInv, PTL DEF ColdStartSpec

\* What the loop knows of its targets, reservations and listener is as the swarm has it, in
\* whatever order connections, dials and listeners end.
THEOREM NetworkStaysHeld == ColdStartSpec => []NetworkIsHeld
<1> QED
  BY ColdStartInvariant, ColdStartInvSays, PTL

\* Of a contact the dialers know what its advertisement in use signed and, beside it, only what
\* was given without a signature; nothing of an advertisement that was replaced, has expired or
\* was lost stays in use on its account, nor a relay that it does not offer.
THEOREM ContactsStaySound == ColdStartSpec => []ContactsAreSound
<1> QED
  BY ColdStartInvariant, ColdStartInvSays, PTL

\* No signed address is dialed but for an advertisement that is accepted, has not expired and
\* has that address, however long ago the plan was drawn up.
THEOREM SignedDialsAreLive == ColdStartSpec => DialsAreLive
<1>1. ColdStartInv /\ [ColdStartNext]_coldStartVars =>
        [\A p \in Peer :
           "plan" \in dials'[p] \ dials[p] /\ plans[p].signed =>
             /\ cache[p] # Nothing /\ ~cache[p].over
             /\ Head(plans[p].batches) \in cache[p].endpoints]_coldStartVars
  BY TicksDial
<1> QED
  BY <1>1, ColdStartInvariant, PTL DEF ColdStartSpec, DialsAreLive
=============================================================================
