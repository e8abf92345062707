---------------------------- MODULE Messages_proofs ----------------------------
(***************************************************************************)
(* Private messages: two results, for any set of sessions and messages,    *)
(* any window, delay, rate and size of the cache.                          *)
(*                                                                         *)
(* Of two sessions under one nickname never both leave.  What a session    *)
(* knew when it left is gone from the state: claims are not kept.  The     *)
(* invariant says what can still be told from the ages: a claim is never   *)
(* older than its session, and who left stays as old as it was.            *)
(*                                                                         *)
(* A caller is told "delivered" only of a message that is on the target's  *)
(* screen, and a message comes there a second time only after as many      *)
(* others as the replay cache holds.  The cache is the end of what was     *)
(* shown; the invariant says why each message that it dropped is gone.     *)
(*                                                                         *)
(* The contact chat is the last part, with a comment of its own.           *)
(***************************************************************************)
EXTENDS PrivateMessages, KnpChat, SequenceTheorems, FiniteSetTheorems, TLAPS

-----------------------------------------------------------------------------
(* Presence and nicknames.                                                 *)

\* p yielded to q: q was older by more than the window, or p could not tell and q's Peer ID
\* is the smaller one.  The ages now bear one of the two out.
Yielded(p, q) ==
  \/ age[q] > age[p] + Window
  \/ q < p /\ age[p] <= age[q] + Window

LosersYielded == \A p \in Peer : winner[p] # None => Yielded(p, winner[p])

PresenceInv == PresenceTypeOK /\ LosersYielded

\* A claim that wins leaves the ages as Yielded says.
LEMMA ClaimsWin ==
  ASSUME NEW p \in Peer, NEW n \in Peer, age \in [Peer -> Nat],
         NEW a \in Nat, a <= age[p], Wins(p, a, n, age[n])
  PROVE  Yielded(n, p)
<1> USE PeerAssumption, TimeAssumption
<1>1. age[p] \in Nat /\ age[n] \in Nat /\ Window \in Nat /\ p \in Nat /\ n \in Nat
  OBVIOUS
<1>2. CASE AbsDiff(a, age[n]) <= Window
  <2>1. p < n
    BY <1>2 DEF Wins
  <2>2. age[n] <= a + Window
    BY <1>1, <1>2 DEF AbsDiff
  <2> QED
    BY <1>1, <2>1, <2>2 DEF Yielded
<1>3. CASE ~(AbsDiff(a, age[n]) <= Window)
  <2>1. a > age[n]
    BY <1>3 DEF Wins
  <2>2. a > age[n] + Window
    BY <1>1, <1>3, <2>1 DEF AbsDiff
  <2> QED
    BY <1>1, <2>2 DEF Yielded
<1> QED
  BY <1>2, <1>3

\* Nobody left yet.
LEMMA PresenceInitInv == PresenceInit => PresenceInv
<1> SUFFICES ASSUME PresenceInit PROVE PresenceInv
  OBVIOUS
<1> USE TimeAssumption, NoneAssumption DEF PresenceInit
<1>1. PresenceTypeOK
  BY DEF PresenceTypeOK, Stage
<1>2. LosersYielded
  BY DEF LosersYielded
<1> QED
  BY <1>1, <1>2 DEF PresenceInv

\* Leaving for a claim that wins keeps the invariant.
LEMMA LeaveInv ==
  ASSUME PresenceInv, NEW n \in Peer, NEW p \in Peer, n # p,
         stage[n] = "running", stage[p] # "new",
         NEW a \in Claimed(p), Conflicts(n, p, a), Leave(n, p)
  PROVE  PresenceInv'
<1> USE PeerAssumption, TimeAssumption, NoneAssumption
<1>1. age \in [Peer -> Nat] /\ a \in Nat /\ a <= age[p]
  BY DEF PresenceInv, PresenceTypeOK, Claimed
<1>2. Yielded(n, p)
  BY <1>1, ClaimsWin DEF Conflicts
<1>3. PresenceTypeOK'
  <2>1. /\ stage' \in [Peer -> Stage] /\ winner' \in [Peer -> Peer \cup {None}]
        /\ peers' \in [Peer -> SUBSET Peer]
    BY DEF PresenceInv, PresenceTypeOK, Leave, Stage
  <2>2. UNCHANGED <<nick, age>>
    BY DEF Leave
  <2>3. ASSUME NEW q \in Peer
        PROVE  /\ peers'[q] \subseteq {r \in Peer \ {q} : stage'[r] # "new"}
               /\ (winner'[q] # None) = (stage'[q] = "left")
    BY DEF PresenceInv, PresenceTypeOK, Leave, Stage
  <2> QED
    BY <2>1, <2>2, <2>3 DEF PresenceInv, PresenceTypeOK
<1>4. LosersYielded'
  <2>1. winner' = [winner EXCEPT ![n] = p] /\ winner \in [Peer -> Peer \cup {None}]
    BY DEF Leave, PresenceInv, PresenceTypeOK
  <2>2. ASSUME NEW q \in Peer, winner'[q] # None PROVE Yielded(q, winner'[q])
    <3>1. CASE q = n
      BY <1>2, <2>1, <3>1
    <3>2. CASE q # n
      BY <2>1, <2>2, <3>2 DEF PresenceInv, LosersYielded
    <3> QED
      BY <3>1, <3>2
  <2>3. age' = age
    BY DEF Leave
  <2> QED
    BY <2>2, <2>3 DEF LosersYielded, Yielded
<1> QED
  BY <1>3, <1>4 DEF PresenceInv

\* A step that changes neither ages nor who left for whom keeps LosersYielded.
LEMMA SameLosers ==
  ASSUME LosersYielded, UNCHANGED <<age, winner>>
  PROVE  LosersYielded'
BY DEF LosersYielded, Yielded

\* Those who left stay as old as they were, and nobody gets younger.
LEMMA TickInv == ASSUME PresenceInv, Tick PROVE PresenceInv'
<1> USE PeerAssumption, TimeAssumption, NoneAssumption
<1>1. PresenceTypeOK'
  <2>1. age' \in [Peer -> 0..MaxAge]
    BY DEF PresenceInv, PresenceTypeOK, Tick
  <2> QED
    BY <2>1 DEF PresenceInv, PresenceTypeOK, Tick
<1>2. LosersYielded'
  <2>1. winner' = winner
    BY DEF Tick
  <2>2. ASSUME NEW p \in Peer, NEW q \in Peer, winner[p] = q
        PROVE  age'[q] > age'[p] + Window \/ (q < p /\ age'[p] <= age'[q] + Window)
    <3>1. stage[p] = "left" /\ Yielded(p, q)
      BY <2>2 DEF PresenceInv, PresenceTypeOK, LosersYielded
    <3>2. age[p] \in Nat /\ age[q] \in Nat /\ Window \in Nat
      BY DEF PresenceInv, PresenceTypeOK
    <3>3. age'[p] = age[p]
      BY <3>1 DEF Tick, Running
    <3>4. age'[q] = age[q] \/ age'[q] = age[q] + 1
      BY DEF Tick
    <3> QED
      BY <3>1, <3>2, <3>3, <3>4 DEF Yielded
  <2>3. \A p \in Peer : winner[p] # None => winner[p] \in Peer
    BY DEF PresenceInv, PresenceTypeOK
  <2> QED
    BY <2>1, <2>2, <2>3 DEF LosersYielded, Yielded
<1> QED
  BY <1>1, <1>2 DEF PresenceInv

\* Every step of the sessions preserves the invariant.
LEMMA PresenceNextInv == PresenceInv /\ [PresenceNext]_presenceVars => PresenceInv'
<1> SUFFICES ASSUME PresenceInv, [PresenceNext]_presenceVars PROVE PresenceInv'
  OBVIOUS
<1> USE PeerAssumption, NoneAssumption
<1>1. CASE Tick
  BY <1>1, TickInv
<1>2. ASSUME NEW p \in Peer, NEW name \in Nick, Start(p, name) PROVE PresenceInv'
  <2>1. PresenceTypeOK'
    BY <1>2 DEF Start, PresenceInv, PresenceTypeOK, Stage
  <2> QED
    BY <1>2, <2>1, SameLosers DEF Start, PresenceInv
<1>3. ASSUME NEW p \in Peer, Stop(p) PROVE PresenceInv'
  <2>1. PresenceTypeOK'
    BY <1>3 DEF Stop, PresenceInv, PresenceTypeOK, Stage
  <2> QED
    BY <1>3, <2>1, SameLosers DEF Stop, PresenceInv
<1>4. ASSUME NEW n \in Peer, NEW p \in Peer, Forgets(n, p) PROVE PresenceInv'
  <2>1. PresenceTypeOK'
    BY <1>4 DEF Forgets, PresenceInv, PresenceTypeOK, Stage
  <2> QED
    BY <1>4, <2>1, SameLosers DEF Forgets, PresenceInv
<1>5. ASSUME NEW n \in Peer, NEW p \in Peer, NEW a \in 0..MaxAge, OnPresence(n, p, a)
      PROVE  PresenceInv'
  <2>1. CASE Conflicts(n, p, a)
    BY <1>5, <2>1, LeaveInv DEF OnPresence
  <2>2. CASE ~Conflicts(n, p, a)
    <3>1. PresenceTypeOK'
      BY <1>5, <2>2 DEF OnPresence, PresenceInv, PresenceTypeOK, Stage
    <3> QED
      BY <1>5, <2>2, <3>1, SameLosers DEF OnPresence, PresenceInv
  <2> QED
    BY <2>1, <2>2
<1>6. ASSUME NEW n \in Peer, NEW p \in Peer, NEW a \in 0..MaxAge, OnNickClaim(n, p, a)
      PROVE  PresenceInv'
  BY <1>6, LeaveInv DEF OnNickClaim
<1>7. CASE UNCHANGED presenceVars
  <2>1. PresenceTypeOK'
    BY <1>7 DEF presenceVars, PresenceInv, PresenceTypeOK
  <2> QED
    BY <1>7, <2>1, SameLosers DEF presenceVars, PresenceInv
<1> QED
  BY <1>1, <1>2, <1>3, <1>4, <1>5, <1>6, <1>7
  DEF PresenceNext, OnGoodbye, PresenceExpires

\* The invariant of the presence and the nicknames holds in every state, for all sessions,
\* nicknames, windows, delays and bounds.
THEOREM PresenceInvariant == PresenceSpec => []PresenceInv
<1>1. PresenceInit => PresenceInv
  BY PresenceInitInv
<1>2. PresenceInv /\ [PresenceNext]_presenceVars => PresenceInv'
  BY PresenceNextInv
<1> QED
  BY <1>1, <1>2, PTL DEF PresenceSpec

\* No two sessions ever give a nickname up on account of one another
\* (lib.rs, check_nick_conflict).
THEOREM NeverBothLeave == PresenceSpec => []OneOfTwoStays
<1>1. PresenceInv => OneOfTwoStays
  <2> SUFFICES ASSUME PresenceInv, NEW p \in Peer, NEW q \in Peer, winner[p] = q, winner[q] = p
               PROVE  FALSE
    BY DEF OneOfTwoStays
  <2> USE PeerAssumption, TimeAssumption, NoneAssumption
  <2>1. Yielded(p, q) /\ Yielded(q, p)
    BY DEF PresenceInv, LosersYielded
  <2>2. age[p] \in Nat /\ age[q] \in Nat /\ p \in Nat /\ q \in Nat /\ Window \in Nat
    BY DEF PresenceInv, PresenceTypeOK
  <2> QED
    BY <2>1, <2>2 DEF Yielded
<1> QED
  BY <1>1, PresenceInvariant, PTL

\* Nobody leaves for a session that is younger by more than the window.
THEOREM YoungerNeverWins == PresenceSpec => []NoYoungerWinner
<1>1. PresenceInv => NoYoungerWinner
  <2> SUFFICES ASSUME PresenceInv, NEW p \in Peer, winner[p] # None
               PROVE  age[p] <= age[winner[p]] + Window
    BY DEF NoYoungerWinner
  <2> USE TimeAssumption
  <2>1. winner[p] \in Peer /\ Yielded(p, winner[p])
    BY DEF PresenceInv, LosersYielded, PresenceTypeOK
  <2>2. age[p] \in Nat /\ age[winner[p]] \in Nat /\ Window \in Nat
    BY <2>1 DEF PresenceInv, PresenceTypeOK
  <2> QED
    BY <2>1, <2>2 DEF Yielded
<1> QED
  BY <1>1, PresenceInvariant, PTL

\* Rivals never disagree on who leaves: what check_nick_conflict promises, whatever the
\* number of sessions, their ages and the time their claims take.
THEOREM RivalsAlwaysAgree == PresenceSpec => []RivalsAgree
<1>1. OneOfTwoStays /\ NoYoungerWinner => RivalsAgree
  BY DEF RivalsAgree
<1> QED
  BY <1>1, NeverBothLeave, YoungerNeverWins, PTL
-----------------------------------------------------------------------------
(* Private messages.                                                       *)

\* The messages of these maps are messages of the protocol
MapsTyped ==
  /\ tracked \in [Peer -> SUBSET Message] /\ outbound \in [Peer -> SUBSET Message]
  /\ awaited \in [Peer -> SUBSET Message]
  /\ replay \in [Peer -> Seq(Message)] /\ shown \in [Peer -> Seq(Message)]

\* The cache r holds what was shown last, and what it dropped of s was too old, or shown
\* before as many others as the cache holds
Follows(r, s, old) ==
  LET dropped == Len(s) - Len(r)
  IN  /\ Len(r) <= Len(s)
      /\ \A i \in 1..Len(r) : r[i] = s[dropped + i]
      /\ \A i \in 1..Len(s) : i <= dropped => s[i] \in old \/ i + MaxReplay <= Len(s)

\* What ShownOnce says of one session
Apart(s) == \A i, j \in DOMAIN s : i < j /\ s[i] = s[j] => j - i > MaxReplay

CachesFollow == \A p \in Peer : Follows(replay[p], shown[p], stale)

\* An answer on its way tells the truth, and there are answers to what was sent only
AnswersAreTrue ==
  /\ \A m \in Message : answer[m] = "accepted" => m \in ToSet(shown[to[m]])
  /\ \A m \in Message : answer[m] # "none" \/ told[m] # "nothing" => m \in Sent

Inv ==
  /\ PresenceInv /\ MessageStateIsSound /\ DeliveredWasShown /\ ShownOnce
  /\ MapsTyped /\ CachesFollow /\ AnswersAreTrue

-----------------------------------------------------------------------------
(* The replay cache of one session, and what it showed.                    *)

\* The elements of a sequence with one more.
LEMMA Appended ==
  ASSUME NEW S, NEW s \in Seq(S), NEW m \in S
  PROVE  /\ Append(s, m) \in Seq(S) /\ Len(Append(s, m)) = Len(s) + 1
         /\ Len(s) \in Nat /\ DOMAIN s = 1..Len(s) /\ DOMAIN Append(s, m) = 1..(Len(s) + 1)
         /\ \A i \in 1..Len(s) : Append(s, m)[i] = s[i]
         /\ Append(s, m)[Len(s) + 1] = m
OBVIOUS

\* What is shown stays shown, and so does what is shown next.
LEMMA ShownStays ==
  ASSUME NEW S, NEW s \in Seq(S), NEW m \in S
  PROVE  ToSet(s) \subseteq ToSet(Append(s, m)) /\ m \in ToSet(Append(s, m)) /\ Append(s, m) # s
<1>1. ToSet(s) \subseteq ToSet(Append(s, m))
  BY Appended DEF ToSet
<1>2. m \in ToSet(Append(s, m))
  BY Appended DEF ToSet
<1>3. Append(s, m) # s
  BY Appended
<1> QED
  BY <1>1, <1>2, <1>3

\* A cache without its oldest entry.
LEMMA WithoutOldest ==
  ASSUME NEW S, NEW r \in Seq(S), r # <<>>
  PROVE  /\ Tail(r) \in Seq(S) /\ Len(r) \in Nat \ {0} /\ Len(Tail(r)) = Len(r) - 1
         /\ \A i \in 1..(Len(r) - 1) : Tail(r)[i] = r[i + 1]
         /\ Head(r) = r[1]
         /\ IsInjective(r) => IsInjective(Tail(r))
         /\ ToSet(Tail(r)) \subseteq ToSet(r)
<1>1. /\ Tail(r) \in Seq(S) /\ Len(r) \in Nat \ {0} /\ Len(Tail(r)) = Len(r) - 1
      /\ DOMAIN r = 1..Len(r) /\ DOMAIN Tail(r) = 1..(Len(r) - 1)
      /\ \A i \in 1..(Len(r) - 1) : Tail(r)[i] = r[i + 1]
      /\ Head(r) = r[1]
  OBVIOUS
<1>2. IsInjective(r) => IsInjective(Tail(r))
  <2> SUFFICES ASSUME IsInjective(r), NEW i \in 1..(Len(r) - 1), NEW j \in 1..(Len(r) - 1),
                      Tail(r)[i] = Tail(r)[j]
               PROVE  i = j
    BY <1>1 DEF IsInjective
  <2>1. i + 1 \in DOMAIN r /\ j + 1 \in DOMAIN r /\ r[i + 1] = r[j + 1]
    BY <1>1
  <2>2. i + 1 = j + 1
    BY <2>1 DEF IsInjective
  <2> QED
    BY <1>1, <2>2
<1>3. ToSet(Tail(r)) \subseteq ToSet(r)
  <2> SUFFICES ASSUME NEW i \in 1..(Len(r) - 1) PROVE Tail(r)[i] \in ToSet(r)
    BY <1>1 DEF ToSet
  <2>1. i + 1 \in DOMAIN r /\ Tail(r)[i] = r[i + 1]
    BY <1>1
  <2> QED
    BY <2>1 DEF ToSet
<1> QED
  BY <1>1, <1>2, <1>3

\* What is in the cache was shown.
LEMMA FollowsShown ==
  ASSUME NEW r \in Seq(Message), NEW s \in Seq(Message), NEW old, Follows(r, s, old)
  PROVE  ToSet(r) \subseteq ToSet(s)
<1> SUFFICES ASSUME NEW i \in DOMAIN r PROVE r[i] \in ToSet(s)
  BY DEF ToSet
<1>1. /\ Len(r) \in Nat /\ Len(s) \in Nat /\ DOMAIN r = 1..Len(r) /\ DOMAIN s = 1..Len(s)
      /\ Len(r) <= Len(s) /\ i \in 1..Len(r) /\ r[i] = s[Len(s) - Len(r) + i]
  BY DEF Follows
<1>2. Len(s) - Len(r) + i \in DOMAIN s
  BY <1>1
<1> QED
  BY <1>1, <1>2 DEF ToSet

\* The cache of a session that was shown nothing.
LEMMA EmptyCache ==
  ASSUME NEW old
  PROVE  /\ Len(<<>>) <= MaxReplay /\ IsInjective(<<>>) /\ ToSet(<<>>) = {}
         /\ Follows(<<>>, <<>>, old)
<1>1. Len(<<>>) = 0 /\ DOMAIN <<>> = {} /\ 1..0 = {}
  OBVIOUS
<1>2. Follows(<<>>, <<>>, old)
  BY <1>1 DEF Follows
<1> QED
  BY <1>1, <1>2, MessageAssumption DEF IsInjective, ToSet

\* The cache drops its oldest entry, which is too old or was followed by MaxReplay others.
LEMMA DropFollows ==
  ASSUME NEW r \in Seq(Message), NEW s \in Seq(Message), NEW old, Follows(r, s, old), r # <<>>,
         Head(r) \in old \/ Len(r) > MaxReplay
  PROVE  Follows(Tail(r), s, old)
<1> USE MessageAssumption
<1>1. /\ Len(r) \in Nat \ {0} /\ Len(Tail(r)) = Len(r) - 1 /\ Len(s) \in Nat
      /\ \A i \in 1..(Len(r) - 1) : Tail(r)[i] = r[i + 1]
      /\ Head(r) = r[1]
  BY WithoutOldest
<1>2. Len(r) <= Len(s) /\ \A i \in 1..Len(r) : r[i] = s[Len(s) - Len(r) + i]
  BY DEF Follows
<1>3. ASSUME NEW i \in 1..(Len(r) - 1) PROVE Tail(r)[i] = s[Len(s) - (Len(r) - 1) + i]
  <2>1. i + 1 \in 1..Len(r) /\ Len(s) - Len(r) + (i + 1) = Len(s) - (Len(r) - 1) + i
    BY <1>1
  <2> QED
    BY <1>1, <1>2, <2>1
<1>4. ASSUME NEW i \in 1..Len(s), i <= Len(s) - (Len(r) - 1)
      PROVE  s[i] \in old \/ i + MaxReplay <= Len(s)
  <2>1. CASE i <= Len(s) - Len(r)
    BY <2>1 DEF Follows
  <2>2. CASE i > Len(s) - Len(r)
    <3>1. i = Len(s) - Len(r) + 1
      BY <1>1, <1>2, <1>4, <2>2
    <3>2. CASE Head(r) \in old
      BY <1>1, <1>2, <3>1, <3>2
    <3>3. CASE Len(r) > MaxReplay
      BY <1>1, <3>1, <3>3
    <3> QED
      BY <3>2, <3>3
  <2> QED
    BY <1>1, <2>1, <2>2
<1> QED
  BY <1>1, <1>2, <1>3, <1>4 DEF Follows

\* A message is shown and remembered.
LEMMA AppendFollows ==
  ASSUME NEW r \in Seq(Message), NEW s \in Seq(Message), NEW old, Follows(r, s, old),
         NEW m \in Message
  PROVE  Follows(Append(r, m), Append(s, m), old)
<1> USE MessageAssumption
<1>1. /\ Len(Append(r, m)) = Len(r) + 1 /\ Len(r) \in Nat
      /\ \A i \in 1..Len(r) : Append(r, m)[i] = r[i]
      /\ Append(r, m)[Len(r) + 1] = m
  BY Appended
<1>2. /\ Len(Append(s, m)) = Len(s) + 1 /\ Len(s) \in Nat
      /\ \A i \in 1..Len(s) : Append(s, m)[i] = s[i]
      /\ Append(s, m)[Len(s) + 1] = m
  BY Appended
<1>3. Len(r) <= Len(s) /\ \A i \in 1..Len(r) : r[i] = s[Len(s) - Len(r) + i]
  BY DEF Follows
<1>4. ASSUME NEW i \in 1..(Len(r) + 1)
      PROVE  Append(r, m)[i] = Append(s, m)[(Len(s) + 1) - (Len(r) + 1) + i]
  <2>1. (Len(s) + 1) - (Len(r) + 1) + i = Len(s) - Len(r) + i
    BY <1>1, <1>2
  <2>2. CASE i = Len(r) + 1
    BY <1>1, <1>2, <2>1, <2>2
  <2>3. CASE i \in 1..Len(r)
    <3>1. Len(s) - Len(r) + i \in 1..Len(s)
      BY <1>1, <1>2, <1>3, <2>3
    <3> QED
      BY <1>1, <1>2, <1>3, <2>1, <2>3, <3>1
  <2>4. i = Len(r) + 1 \/ i \in 1..Len(r)
    BY <1>1
  <2> QED
    BY <2>2, <2>3, <2>4
<1>5. ASSUME NEW i \in 1..(Len(s) + 1), i <= (Len(s) + 1) - (Len(r) + 1)
      PROVE  Append(s, m)[i] \in old \/ i + MaxReplay <= Len(s) + 1
  <2>1. i \in 1..Len(s) /\ i <= Len(s) - Len(r)
    BY <1>1, <1>2, <1>5
  <2>2. s[i] \in old \/ i + MaxReplay <= Len(s)
    BY <2>1 DEF Follows
  <2> QED
    BY <1>2, <2>1, <2>2
<1>6. SUFFICES ASSUME NEW a, a = Append(r, m), NEW b, b = Append(s, m)
               PROVE  Follows(a, b, old)
  OBVIOUS
<1>7. Len(a) = Len(r) + 1 /\ Len(b) = Len(s) + 1 /\ Len(a) <= Len(b)
  BY <1>1, <1>2, <1>3, <1>6
<1>8. \A i \in 1..Len(a) : a[i] = b[Len(b) - Len(a) + i]
  BY <1>4, <1>6, <1>7
<1>9. \A i \in 1..Len(b) : i <= Len(b) - Len(a) => b[i] \in old \/ i + MaxReplay <= Len(b)
  BY <1>5, <1>6, <1>7
<1> QED
  BY <1>7, <1>8, <1>9 DEF Follows

\* A message that is neither too old nor remembered was shown long ago, if at all.
LEMMA AppendApart ==
  ASSUME NEW r \in Seq(Message), NEW s \in Seq(Message), NEW old, Follows(r, s, old), Apart(s),
         NEW m \in Message, m \notin old, m \notin ToSet(r)
  PROVE  Apart(Append(s, m))
<1> USE MessageAssumption
<1>1. /\ Len(s) \in Nat /\ DOMAIN s = 1..Len(s) /\ DOMAIN Append(s, m) = 1..(Len(s) + 1)
      /\ \A i \in 1..Len(s) : Append(s, m)[i] = s[i]
      /\ Append(s, m)[Len(s) + 1] = m
  BY Appended
<1>2. Len(r) \in Nat /\ Len(r) <= Len(s) /\ DOMAIN r = 1..Len(r)
  BY DEF Follows
<1>3. ASSUME NEW i \in 1..Len(s), s[i] = m PROVE i + MaxReplay <= Len(s)
  <2>1. CASE i <= Len(s) - Len(r)
    BY <1>3, <2>1 DEF Follows
  <2>2. CASE i > Len(s) - Len(r)
    <3>1. PICK k \in 1..Len(r) : Len(s) - Len(r) + k = i
      <4>1. i - (Len(s) - Len(r)) \in 1..Len(r)
        BY <1>1, <1>2, <2>2
      <4>2. Len(s) - Len(r) + (i - (Len(s) - Len(r))) = i
        BY <1>1, <1>2
      <4> QED
        BY <4>1, <4>2
    <3>2. r[k] = m
      BY <1>3, <3>1 DEF Follows
    <3> QED
      BY <1>2, <3>2 DEF ToSet
  <2> QED
    BY <1>1, <1>2, <2>1, <2>2
<1>4. ASSUME NEW i \in 1..(Len(s) + 1), NEW j \in 1..(Len(s) + 1), i < j,
             Append(s, m)[i] = Append(s, m)[j]
      PROVE  j - i > MaxReplay
  <2>1. i \in 1..Len(s)
    BY <1>1, <1>4
  <2>2. CASE j \in 1..Len(s)
    BY <1>1, <1>4, <2>1, <2>2 DEF Apart
  <2>3. CASE j = Len(s) + 1
    <3>1. i + MaxReplay <= Len(s)
      BY <1>1, <1>3, <1>4, <2>1, <2>3
    <3> QED
      BY <1>1, <2>1, <2>3, <3>1
  <2> QED
    BY <1>1, <2>2, <2>3
<1> QED
  BY <1>1, <1>4 DEF Apart

\* The cache with one more entry is still within its limit, and has each id once.
LEMMA AppendBounded ==
  ASSUME NEW r \in Seq(Message), NEW m \in Message, Len(r) < MaxReplay, IsInjective(r),
         m \notin ToSet(r)
  PROVE  Len(Append(r, m)) <= MaxReplay /\ IsInjective(Append(r, m))
<1> USE MessageAssumption
<1>1. /\ Len(r) \in Nat /\ DOMAIN r = 1..Len(r) /\ DOMAIN Append(r, m) = 1..(Len(r) + 1)
      /\ \A i \in 1..Len(r) : Append(r, m)[i] = r[i]
      /\ Append(r, m)[Len(r) + 1] = m /\ Len(Append(r, m)) = Len(r) + 1
  BY Appended
<1>2. \A i \in 1..Len(r) : r[i] # m
  BY <1>1 DEF ToSet
<1>3. ASSUME NEW i \in 1..(Len(r) + 1), NEW j \in 1..(Len(r) + 1),
             Append(r, m)[i] = Append(r, m)[j]
      PROVE  i = j
  <2>1. CASE i \in 1..Len(r) /\ j \in 1..Len(r)
    BY <1>1, <1>3, <2>1 DEF IsInjective
  <2>2. CASE i = Len(r) + 1 \/ j = Len(r) + 1
    BY <1>1, <1>2, <1>3, <2>2
  <2> QED
    BY <1>1, <2>1, <2>2
<1>4. Len(Append(r, m)) <= MaxReplay
  BY <1>1
<1> QED
  BY <1>1, <1>3, <1>4 DEF IsInjective

\* ReplayCache::accept keeps all that is known of the cache.
LEMMA RememberFollows ==
  ASSUME NEW r \in Seq(Message), NEW s \in Seq(Message), NEW old, Follows(r, s, old), Apart(s),
         Len(r) <= MaxReplay, IsInjective(r), NEW m \in Message, m \notin old, m \notin ToSet(r),
         NEW n, n = Append(IF Len(r) >= MaxReplay THEN Tail(r) ELSE r, m)
  PROVE  /\ n \in Seq(Message) /\ Len(n) <= MaxReplay /\ IsInjective(n)
         /\ Follows(n, Append(s, m), old) /\ Apart(Append(s, m))
<1> USE MessageAssumption
<1>1. Apart(Append(s, m))
  BY AppendApart
<1>2. Follows(Append(r, m), Append(s, m), old)
  BY AppendFollows
<1>3. CASE Len(r) < MaxReplay
  <2>1. n = Append(r, m)
    BY <1>3
  <2> QED
    BY <1>1, <1>2, <1>3, <2>1, AppendBounded
<1>4. CASE Len(r) >= MaxReplay
  <2>1. Len(r) = MaxReplay /\ r # <<>> /\ n = Append(Tail(r), m)
    BY <1>4
  <2>2. /\ Tail(r) \in Seq(Message) /\ Len(Tail(r)) < MaxReplay /\ IsInjective(Tail(r))
        /\ m \notin ToSet(Tail(r))
    BY <2>1, WithoutOldest
  <2>3. n \in Seq(Message) /\ Len(n) <= MaxReplay /\ IsInjective(n)
    <3>1. PICK t \in Seq(Message) : t = Tail(r)
      BY <2>2
    <3>2. Len(t) < MaxReplay /\ IsInjective(t) /\ m \notin ToSet(t)
      BY <2>2, <3>1
    <3>3. Len(Append(t, m)) <= MaxReplay /\ IsInjective(Append(t, m))
      BY <3>2, AppendBounded
    <3> QED
      BY <2>1, <3>1, <3>3
  <2>4. /\ Append(r, m) \in Seq(Message) /\ Append(r, m) # <<>>
        /\ Len(Append(r, m)) > MaxReplay /\ Append(s, m) \in Seq(Message)
    BY <2>1
  <2>5. Tail(Append(r, m)) = n
    BY <2>1
  <2>6. Follows(n, Append(s, m), old)
    BY <1>2, <2>4, <2>5, DropFollows
  <2> QED
    BY <1>1, <2>3, <2>6
<1> QED
  BY <1>3, <1>4

-----------------------------------------------------------------------------
(* The steps.                                                              *)

\* A step that neither shows nor forgets a message leaves the caches as they follow.
LEMMA CachesStay ==
  ASSUME Inv, UNCHANGED <<replay, shown>>, stale \subseteq stale'
  PROVE  CachesFollow' /\ ShownOnce' /\ RefusedIsForgotten'
<1>1. CachesFollow'
  BY DEF Inv, CachesFollow, Follows
<1>2. ShownOnce' /\ RefusedIsForgotten'
  BY DEF Inv, ShownOnce, MessageStateIsSound, RefusedIsForgotten
<1> QED
  BY <1>1, <1>2

\* A step of the presence leaves every message as it is; sessions that left keep their maps.
LEMMA PresenceStep ==
  ASSUME Inv, [PresenceNext]_presenceVars, UNCHANGED messageVars
  PROVE  Inv'
<1> USE DEF messageVars, senderVars, receiverVars
<1>1. PresenceInv'
  BY PresenceNextInv DEF Inv
<1>2. TypeOK'
  BY <1>1 DEF Inv, MessageStateIsSound, TypeOK, PresenceInv, Sent
<1>3. CallersMatchRequests' /\ DeliveredWasShown' /\ MapsTyped' /\ AnswersAreTrue'
  BY DEF Inv, MessageStateIsSound, CallersMatchRequests, DeliveredWasShown, MapsTyped,
         AnswersAreTrue, Sent
<1>4. CachesFollow' /\ ShownOnce' /\ RefusedIsForgotten'
  BY CachesStay
<1> QED
  BY <1>1, <1>2, <1>3, <1>4 DEF Inv, MessageStateIsSound

\* A message that was not sent before has no answer yet, and its caller was told nothing.
LEMMA SendPrivateMessageStep ==
  ASSUME Inv, NEW n \in Peer, NEW m \in Message, NEW target \in Peer,
         SendPrivateMessage(n, m, target)
  PROVE  Inv'
<1> USE NoneAssumption DEF SendPrivateMessage, receiverVars
<1>1. PresenceInv' /\ PresenceTypeOK'
  BY DEF Inv, PresenceInv, PresenceTypeOK, LosersYielded, Yielded, presenceVars
<1>2. Sent' = Sent \cup {m} /\ Sent \subseteq Message /\ m \notin Sent /\ target # n
  BY DEF Inv, MessageStateIsSound, TypeOK, PresenceTypeOK, Sent
<1>3. TypeOK'
  <2>1. /\ from' \in [Message -> Peer \cup {None}] /\ to' \in [Message -> Peer \cup {None}]
        /\ \A x \in Sent' : to'[x] # None /\ to'[x] # from'[x]
    BY <1>2 DEF Inv, MessageStateIsSound, TypeOK, Sent
  <2>2. \A p \in Peer :
          tracked'[p] \subseteq Sent' /\ outbound'[p] \subseteq Sent' /\ awaited'[p] \subseteq Sent'
    BY <1>2, SMTT(30) DEF Inv, MessageStateIsSound, TypeOK, MapsTyped
  <2>3. /\ told' \in [Message -> Told] /\ answer' \in [Message -> {"none", "accepted", "refused"}]
        /\ stale' \subseteq Sent' /\ enabled' \in [Peer -> BOOLEAN]
        /\ rate' \in [Peer -> [Peer -> 0..MaxRate]]
        /\ \A p \in Peer : Len(replay'[p]) <= MaxReplay /\ IsInjective(replay'[p])
    BY <1>2 DEF Inv, MessageStateIsSound, TypeOK
  <2> QED
    BY <1>1, <2>1, <2>2, <2>3 DEF TypeOK
<1>4. CallersMatchRequests' /\ MapsTyped'
  BY DEF Inv, MessageStateIsSound, CallersMatchRequests, MapsTyped
<1>5. \A x \in Message : x # m => to'[x] = to[x]
  BY DEF Inv, MessageStateIsSound, TypeOK
<1>6. told[m] = "nothing" /\ answer[m] = "none"
  BY <1>2 DEF Inv, AnswersAreTrue
<1>7. DeliveredWasShown' /\ AnswersAreTrue'
  BY <1>2, <1>5, <1>6 DEF Inv, DeliveredWasShown, AnswersAreTrue
<1>8. CachesFollow' /\ ShownOnce' /\ RefusedIsForgotten'
  BY CachesStay
<1> QED
  BY <1>1, <1>3, <1>4, <1>7, <1>8 DEF Inv, MessageStateIsSound

\* The request of a message is over: with what its answer said, or as a failure.
LEMMA ConcludedStep ==
  ASSUME Inv, NEW n \in Peer, NEW m \in Message, m \in outbound[n],
         NEW what \in {"delivered", "failed"}, what = "delivered" => answer[m] = "accepted",
         outbound' = [outbound EXCEPT ![n] = @ \ {m}],
         tracked' = [tracked EXCEPT ![n] = @ \ {m}],
         Reply(n, m, what),
         answer' = [answer EXCEPT ![m] = "none"],
         UNCHANGED <<presenceVars, from, to, stale, receiverVars>>
  PROVE  Inv'
<1> USE DEF receiverVars, Reply
<1>1. PresenceInv' /\ PresenceTypeOK'
  BY DEF Inv, PresenceInv, PresenceTypeOK, LosersYielded, Yielded, presenceVars
<1>2. Sent' = Sent /\ m \in Sent
  BY DEF Inv, MessageStateIsSound, TypeOK, Sent
<1>3. TypeOK'
  <2>1. told' \in [Message -> Told] /\ answer' \in [Message -> {"none", "accepted", "refused"}]
    BY DEF Inv, MessageStateIsSound, TypeOK, Told
  <2>2. \A p \in Peer :
          tracked'[p] \subseteq Sent' /\ outbound'[p] \subseteq Sent' /\ awaited'[p] \subseteq Sent'
    BY <1>2 DEF Inv, MessageStateIsSound, TypeOK, MapsTyped
  <2> QED
    BY <1>1, <1>2, <2>1, <2>2 DEF Inv, MessageStateIsSound, TypeOK
<1>4. CallersMatchRequests' /\ MapsTyped'
  BY DEF Inv, MessageStateIsSound, CallersMatchRequests, MapsTyped
<1>5. DeliveredWasShown' /\ AnswersAreTrue'
  <2>1. \A x \in Message : x # m => told'[x] = told[x] /\ answer'[x] = answer[x]
    BY DEF Inv, MessageStateIsSound, TypeOK
  <2>2. told'[m] \in {told[m], what} /\ answer'[m] = "none"
    BY DEF Inv, MessageStateIsSound, TypeOK
  <2> QED
    BY <1>2, <2>1, <2>2 DEF Inv, DeliveredWasShown, AnswersAreTrue
<1>6. CachesFollow' /\ ShownOnce' /\ RefusedIsForgotten'
  BY CachesStay
<1> QED
  BY <1>1, <1>3, <1>4, <1>5, <1>6 DEF Inv, MessageStateIsSound

\* A response is true when it is taken.
LEMMA OnResponseStep ==
  ASSUME Inv, NEW n \in Peer, NEW m \in Message, OnResponse(n, m)
  PROVE  Inv'
BY ConcludedStep DEF OnResponse, Answered

\* A failure claims nothing.
LEMMA OnOutboundFailureStep ==
  ASSUME Inv, NEW n \in Peer, NEW m \in Message, OnOutboundFailure(n, m)
  PROVE  Inv'
BY ConcludedStep DEF OnOutboundFailure, Cancelled

\* A message is shown, remembered and accepted in one step, or none of them.
LEMMA OnPrivateMessageStep ==
  ASSUME Inv, NEW p \in Peer, NEW m \in Message, OnPrivateMessage(p, m)
  PROVE  Inv'
<1> SUFFICES ASSUME NEW allowed \in BOOLEAN, allowed => Valid(p, m) /\ rate[p][from[m]] < MaxRate,
                    NEW new \in BOOLEAN, new => allowed /\ ~Known(p, m),
                    rate' = [rate EXCEPT ![p][from[m]] = IF allowed THEN @ + 1 ELSE @],
                    replay' = [replay EXCEPT ![p] = IF new THEN Remembered(p, m) ELSE @],
                    shown' = [shown EXCEPT ![p] = IF new THEN Append(@, m) ELSE @],
                    from[m] # None, p = to[m],
                    answer' = IF m \in outbound[from[m]] /\ answer[m] = "none"
                              THEN [answer EXCEPT ![m] = Verdict(p, m)] ELSE answer,
                    UNCHANGED <<presenceVars, senderVars, stale, enabled>>
             PROVE  Inv'
  BY DEF OnPrivateMessage, Accepted
<1> USE MessageAssumption DEF senderVars
<1>1. PresenceInv' /\ PresenceTypeOK'
  BY DEF Inv, PresenceInv, PresenceTypeOK, LosersYielded, Yielded, presenceVars
<1>2. from[m] \in Peer /\ m \in Sent /\ Sent' = Sent
  BY DEF Inv, MessageStateIsSound, TypeOK, Sent
<1>3. /\ replay[p] \in Seq(Message) /\ shown[p] \in Seq(Message)
      /\ Len(replay[p]) <= MaxReplay /\ IsInjective(replay[p])
      /\ Follows(replay[p], shown[p], stale) /\ Apart(shown[p])
      /\ ToSet(replay[p]) \subseteq ToSet(shown[p])
  BY DEF Inv, MessageStateIsSound, TypeOK, MapsTyped, CachesFollow, ShownOnce, Apart,
         RefusedIsForgotten
<1>4. /\ replay'[p] = IF new THEN Remembered(p, m) ELSE replay[p]
      /\ shown'[p] = IF new THEN Append(shown[p], m) ELSE shown[p]
      /\ \A q \in Peer : q # p => replay'[q] = replay[q] /\ shown'[q] = shown[q]
  BY DEF Inv, MapsTyped
<1>5. /\ replay'[p] \in Seq(Message) /\ Len(replay'[p]) <= MaxReplay /\ IsInjective(replay'[p])
      /\ Follows(replay'[p], shown'[p], stale) /\ Apart(shown'[p])
  <2>1. CASE new
    <3>1. m \notin stale /\ m \notin ToSet(replay[p])
      BY <2>1 DEF Valid, Known
    <3>2. PICK r \in Seq(Message) : r = replay[p]
      BY <1>3
    <3>3. PICK s \in Seq(Message) : s = shown[p]
      BY <1>3
    <3>4. PICK x : x = Append(IF Len(r) >= MaxReplay THEN Tail(r) ELSE r, m)
      OBVIOUS
    <3>5. /\ x \in Seq(Message) /\ Len(x) <= MaxReplay /\ IsInjective(x)
          /\ Follows(x, Append(s, m), stale) /\ Apart(Append(s, m))
      BY <1>3, <3>1, <3>2, <3>3, <3>4, RememberFollows
    <3>6. replay'[p] = x /\ shown'[p] = Append(s, m)
      BY <1>4, <2>1, <3>2, <3>3, <3>4 DEF Remembered
    <3> QED
      BY <3>5, <3>6
  <2>2. CASE ~new
    BY <1>3, <1>4, <2>2
  <2> QED
    BY <2>1, <2>2
<1>6. ToSet(replay'[p]) \subseteq ToSet(shown'[p])
  <2>1. PICK r \in Seq(Message) : r = replay'[p]
    BY <1>5
  <2>2. PICK s \in Seq(Message) : s = shown'[p]
    <3>1. shown'[p] \in Seq(Message)
      BY <1>3, <1>4
    <3> QED
      BY <3>1
  <2>3. Follows(r, s, stale)
    BY <1>5, <2>1, <2>2
  <2>4. ToSet(r) \subseteq ToSet(s)
    BY ONLY <2>3, FollowsShown, MessageAssumption, r \in Seq(Message), s \in Seq(Message)
  <2> QED
    BY <2>1, <2>2, <2>4
<1>7. MapsTyped'
  <2>1. shown'[p] \in Seq(Message)
    BY <1>3, <1>4
  <2> QED
    BY <1>4, <1>5, <2>1 DEF Inv, MapsTyped
<1>8. RefusedIsForgotten' /\ ShownOnce' /\ CachesFollow'
  <2>1. RefusedIsForgotten'
    BY <1>4, <1>6 DEF Inv, MessageStateIsSound, RefusedIsForgotten
  <2>2. ShownOnce'
    <3>1. \A q \in Peer : Apart(shown[q])
      BY DEF Inv, ShownOnce, Apart
    <3>2. \A q \in Peer : Apart(shown'[q])
      BY <1>4, <1>5, <3>1
    <3> QED
      BY <3>2 DEF ShownOnce, Apart
  <2>3. CachesFollow'
    BY <1>4, <1>5 DEF Inv, CachesFollow
  <2> QED
    BY <2>1, <2>2, <2>3
<1>9. /\ \A q \in Peer : ToSet(shown[q]) \subseteq ToSet(shown'[q])
      /\ shown'[p] # shown[p] => m \in ToSet(shown'[p])
  BY <1>3, <1>4, ShownStays
<1>10. answer' \in [Message -> {"none", "accepted", "refused"}]
  BY DEF Inv, MessageStateIsSound, TypeOK, Verdict
<1>11. rate' \in [Peer -> [Peer -> 0..MaxRate]]
  <2>1. rate \in [Peer -> [Peer -> 0..MaxRate]]
    BY DEF Inv, MessageStateIsSound, TypeOK
  <2>2. (IF allowed THEN rate[p][from[m]] + 1 ELSE rate[p][from[m]]) \in 0..MaxRate
    BY <1>2, <2>1
  <2> QED
    BY <1>2, <2>1, <2>2
<1>12. TypeOK'
  <2>1. \A q \in Peer : Len(replay'[q]) <= MaxReplay /\ IsInjective(replay'[q])
    BY <1>4, <1>5 DEF Inv, MessageStateIsSound, TypeOK
  <2> QED
    BY <1>1, <1>2, <1>10, <1>11, <2>1 DEF Inv, MessageStateIsSound, TypeOK
<1>13. CallersMatchRequests'
  BY DEF Inv, MessageStateIsSound, CallersMatchRequests
<1>14. DeliveredWasShown'
  <2> SUFFICES ASSUME NEW x \in Message, told[x] = "delivered"
               PROVE  x \in ToSet(shown'[to[x]])
    BY DEF DeliveredWasShown
  <2>1. x \in Sent /\ x \in ToSet(shown[to[x]])
    BY DEF Inv, DeliveredWasShown, AnswersAreTrue
  <2>2. to[x] \in Peer
    BY <2>1 DEF Inv, MessageStateIsSound, TypeOK
  <2> QED
    BY <1>9, <2>1, <2>2
<1>15. AnswersAreTrue'
  <2>1. ASSUME NEW x \in Message, answer'[x] = "accepted" PROVE x \in ToSet(shown'[to[x]])
    <3>1. CASE answer[x] = "accepted"
      <4>1. x \in Sent /\ x \in ToSet(shown[to[x]])
        BY <3>1 DEF Inv, AnswersAreTrue
      <4>2. to[x] \in Peer
        BY <4>1 DEF Inv, MessageStateIsSound, TypeOK
      <4> QED
        BY <1>9, <4>1, <4>2
    <3>2. CASE answer[x] # "accepted"
      <4>1. x = m /\ Verdict(p, m) = "accepted"
        BY <2>1, <3>2 DEF Inv, MessageStateIsSound, TypeOK
      <4> QED
        BY <1>9, <4>1 DEF Verdict
    <3> QED
      BY <3>1, <3>2
  <2>2. \A x \in Message : x # m => answer'[x] = answer[x]
    BY DEF Inv, MessageStateIsSound, TypeOK
  <2>3. \A x \in Message : answer'[x] # "none" \/ told[x] # "nothing" => x \in Sent
    BY <1>2, <2>2 DEF Inv, AnswersAreTrue
  <2> QED
    BY <1>2, <2>1, <2>3 DEF AnswersAreTrue
<1> QED
  BY <1>1, <1>7, <1>8, <1>12, <1>13, <1>14, <1>15 DEF Inv, MessageStateIsSound

\* A step that concerns no message: what it leaves is all that the invariant is about.
LEMMA OtherStep ==
  ASSUME Inv, UNCHANGED <<presenceVars, senderVars, answer, shown>>,
         stale \subseteq stale', stale' \subseteq Sent,
         enabled' \in [Peer -> BOOLEAN], rate' \in [Peer -> [Peer -> 0..MaxRate]],
         replay' \in [Peer -> Seq(Message)],
         \A p \in Peer : /\ Len(replay'[p]) <= MaxReplay /\ IsInjective(replay'[p])
                         /\ ToSet(replay'[p]) \subseteq ToSet(shown[p])
                         /\ Follows(replay'[p], shown[p], stale')
  PROVE  Inv'
<1> USE DEF senderVars
<1>1. PresenceInv' /\ PresenceTypeOK'
  BY DEF Inv, PresenceInv, PresenceTypeOK, LosersYielded, Yielded, presenceVars
<1>2. TypeOK'
  <2>1. /\ from' \in [Message -> Peer \cup {None}] /\ to' \in [Message -> Peer \cup {None}]
        /\ \A m \in Sent' : to'[m] # None /\ to'[m] # from'[m]
        /\ told' \in [Message -> Told] /\ answer' \in [Message -> {"none", "accepted", "refused"}]
    BY DEF Inv, MessageStateIsSound, TypeOK, Sent
  <2>2. Sent' = Sent
    BY DEF Sent
  <2>3. \A p \in Peer : \A q \in {tracked'[p], outbound'[p], awaited'[p]} : q \subseteq Sent
    BY DEF Inv, MessageStateIsSound, TypeOK
  <2> QED
    BY <1>1, <2>1, <2>2, <2>3 DEF TypeOK
<1>3. CallersMatchRequests' /\ MapsTyped' /\ RefusedIsForgotten'
  BY DEF Inv, MessageStateIsSound, CallersMatchRequests, MapsTyped, RefusedIsForgotten
<1>4. DeliveredWasShown' /\ AnswersAreTrue' /\ ShownOnce'
  BY DEF Inv, DeliveredWasShown, AnswersAreTrue, ShownOnce, Sent
<1>5. CachesFollow'
  BY DEF CachesFollow
<1> QED
  BY <1>1, <1>2, <1>3, <1>4, <1>5 DEF Inv, MessageStateIsSound

\* What OtherStep asks of the caches holds of those that a step leaves, and more of the
\* messages may be stale.
LEMMA SameCaches ==
  ASSUME Inv, NEW old, stale \subseteq old
  PROVE  /\ replay \in [Peer -> Seq(Message)]
         /\ \A p \in Peer : /\ Len(replay[p]) <= MaxReplay /\ IsInjective(replay[p])
                            /\ ToSet(replay[p]) \subseteq ToSet(shown[p])
                            /\ Follows(replay[p], shown[p], old)
BY DEF Inv, MapsTyped, MessageStateIsSound, TypeOK, RefusedIsForgotten, CachesFollow, Follows

\* The policy changes.
LEMMA PolicyStep ==
  ASSUME Inv, NEW p \in Peer, NEW on \in BOOLEAN, SetPrivateMessagesEnabled(p, on)
  PROVE  Inv'
<1>1. /\ enabled' \in [Peer -> BOOLEAN] /\ rate' \in [Peer -> [Peer -> 0..MaxRate]]
      /\ stale' \subseteq Sent
  BY DEF SetPrivateMessagesEnabled, Inv, MessageStateIsSound, TypeOK
<1> QED
  BY <1>1, SameCaches, OtherStep DEF SetPrivateMessagesEnabled

\* A new window of the rate limiter begins.
LEMMA RateWindowPassesStep ==
  ASSUME Inv, NEW p \in Peer, NEW q \in Peer, RateWindowPasses(p, q)
  PROVE  Inv'
<1>1. rate' \in [Peer -> [Peer -> 0..MaxRate]]
  <2>1. rate \in [Peer -> [Peer -> 0..MaxRate]] /\ 0 \in 0..MaxRate
    BY MessageAssumption DEF Inv, MessageStateIsSound, TypeOK
  <2> QED
    BY <2>1 DEF RateWindowPasses
<1>2. enabled' \in [Peer -> BOOLEAN] /\ stale' \subseteq Sent
  BY DEF RateWindowPasses, Inv, MessageStateIsSound, TypeOK
<1> QED
  BY <1>1, <1>2, SameCaches, OtherStep DEF RateWindowPasses

\* A message that ages makes more of the dropped entries old.
LEMMA MessageAgesStep ==
  ASSUME Inv, NEW m \in Message, MessageAges(m)
  PROVE  Inv'
<1>1. /\ enabled' \in [Peer -> BOOLEAN] /\ rate' \in [Peer -> [Peer -> 0..MaxRate]]
      /\ stale' \subseteq Sent
  BY DEF MessageAges, receiverVars, Inv, MessageStateIsSound, TypeOK, Sent
<1> QED
  BY <1>1, SameCaches, OtherStep DEF MessageAges, receiverVars

\* An entry that expires is of a message too old to be accepted.
LEMMA ReplayExpiresStep ==
  ASSUME Inv, NEW p \in Peer, ReplayExpires(p)
  PROVE  Inv'
<1>1. /\ enabled' \in [Peer -> BOOLEAN] /\ rate' \in [Peer -> [Peer -> 0..MaxRate]]
      /\ stale' \subseteq Sent
  BY DEF ReplayExpires, Inv, MessageStateIsSound, TypeOK
<1>2. /\ replay \in [Peer -> Seq(Message)] /\ shown \in [Peer -> Seq(Message)]
      /\ \A q \in Peer : /\ Len(replay[q]) <= MaxReplay /\ IsInjective(replay[q])
                         /\ ToSet(replay[q]) \subseteq ToSet(shown[q])
                         /\ Follows(replay[q], shown[q], stale)
  BY SameCaches DEF Inv, MapsTyped
<1>3. PICK r \in Seq(Message) : r = replay[p] /\ r # <<>> /\ Head(r) \in stale
  BY <1>2 DEF ReplayExpires, EntryOld
<1>4. PICK s \in Seq(Message) : s = shown[p]
  BY <1>2
<1>5. /\ Tail(r) \in Seq(Message) /\ Len(Tail(r)) <= MaxReplay /\ IsInjective(Tail(r))
      /\ ToSet(Tail(r)) \subseteq ToSet(s)
  BY <1>2, <1>3, <1>4, WithoutOldest, MessageAssumption
<1>6. Follows(Tail(r), s, stale)
  BY <1>2, <1>3, <1>4, DropFollows
<1>7. replay' = [replay EXCEPT ![p] = Tail(r)]
  BY <1>3 DEF ReplayExpires
<1>8. /\ replay' \in [Peer -> Seq(Message)]
      /\ \A q \in Peer : /\ Len(replay'[q]) <= MaxReplay /\ IsInjective(replay'[q])
                         /\ ToSet(replay'[q]) \subseteq ToSet(shown[q])
                         /\ Follows(replay'[q], shown[q], stale)
  BY <1>2, <1>4, <1>5, <1>6, <1>7
<1> QED
  BY <1>1, <1>8, OtherStep DEF ReplayExpires

-----------------------------------------------------------------------------
\* Nothing is sent, shown or remembered yet.
LEMMA InitInv == Init => Inv
<1> SUFFICES ASSUME Init PROVE Inv
  OBVIOUS
<1> USE NoneAssumption, MessageAssumption DEF Init
<1>1. PresenceInv
  BY PresenceInitInv
<1>2. \A p \in Peer : replay[p] = <<>> /\ shown[p] = <<>>
  OBVIOUS
<1>3. TypeOK
  <2>1. Sent = {}
    BY DEF Sent
  <2>2. rate \in [Peer -> [Peer -> 0..MaxRate]]
    OBVIOUS
  <2>3. \A p \in Peer : Len(replay[p]) <= MaxReplay /\ IsInjective(replay[p])
    BY <1>2, EmptyCache
  <2>4. \A p \in Peer : \A q \in {tracked[p], outbound[p], awaited[p]} : q \subseteq Sent
    OBVIOUS
  <2> QED
    BY <1>1, <2>1, <2>2, <2>3, <2>4 DEF TypeOK, PresenceInv, Told
<1>4. CallersMatchRequests /\ DeliveredWasShown /\ AnswersAreTrue /\ MapsTyped
  BY DEF CallersMatchRequests, DeliveredWasShown, AnswersAreTrue, MapsTyped
<1>5. RefusedIsForgotten
  BY <1>2 DEF RefusedIsForgotten
<1>6. ShownOnce
  BY DEF ShownOnce
<1>7. CachesFollow
  BY <1>2, EmptyCache DEF CachesFollow
<1> QED
  BY <1>1, <1>3, <1>4, <1>5, <1>6, <1>7 DEF Inv, MessageStateIsSound

\* Every step preserves the invariant.
LEMMA NextInv == Inv /\ [Next]_vars => Inv'
<1> SUFFICES ASSUME Inv, [Next]_vars PROVE Inv'
  OBVIOUS
<1>1. CASE MessageNext
  BY <1>1, SendPrivateMessageStep, OnResponseStep, OnOutboundFailureStep, OnPrivateMessageStep,
     MessageAgesStep, ReplayExpiresStep, PolicyStep, RateWindowPassesStep DEF MessageNext
<1>2. CASE PresenceNext /\ UNCHANGED messageVars
  BY <1>2, PresenceStep
<1>3. CASE UNCHANGED vars
  BY <1>3, PresenceStep DEF vars
<1> QED
  BY <1>1, <1>2, <1>3 DEF Next

\* The invariant of the private messages holds in every state.
THEOREM PrivateMessagesInvariant == Spec => []Inv
<1>1. Init => Inv
  BY InitInv
<1>2. Inv /\ [Next]_vars => Inv'
  BY NextInv
<1> QED
  BY <1>1, <1>2, PTL DEF Spec

\* The three maps of waiting requests agree, the limits of the rate and of the cache hold, and
\* what was refused is not remembered (accept_private_message).
THEOREM MessageStateStaysSound == Spec => []MessageStateIsSound
<1>1. Inv => MessageStateIsSound
  BY DEF Inv
<1> QED
  BY <1>1, PrivateMessagesInvariant, PTL

\* "delivered" is never told of a message that its target has not shown, however requests,
\* answers and failures cross.
THEOREM DeliveredMeansShown == Spec => []DeliveredWasShown
<1>1. Inv => DeliveredWasShown
  BY DEF Inv
<1> QED
  BY <1>1, PrivateMessagesInvariant, PTL

\* The replay cache lets a repetition through only after PRIVATE_REPLAY_MAX_ENTRIES others.
THEOREM RepetitionsAreFar == Spec => []ShownOnce
<1>1. Inv => ShownOnce
  BY DEF Inv
<1> QED
  BY <1>1, PrivateMessagesInvariant, PTL

\* A step of the messages is no step of the presence: what is proved of the presence holds of
\* sessions that write to each other.
THEOREM MessagesKeepPresence == Spec => PresenceSpec
<1>1. Init => PresenceInit
  BY DEF Init
<1>2. [Next]_vars => [PresenceNext]_presenceVars
  BY DEF Next, MessageNext, vars, SendPrivateMessage, OnResponse, OnOutboundFailure,
         OnPrivateMessage, MessageAges, ReplayExpires, SetPrivateMessagesEnabled,
         RateWindowPasses
<1> QED
  BY <1>1, <1>2, PTL DEF Spec, PresenceSpec

\* Rivals agree in the composed system, too.
THEOREM RivalsOfMessagesAgree == Spec => []RivalsAgree
BY MessagesKeepPresence, RivalsAlwaysAgree, PTL

-----------------------------------------------------------------------------
(***************************************************************************)
(* KnpChat.  What a chat shows of its messages is true, and every message  *)
(* it shows as queued will be settled, for any number of nodes, messages   *)
(* and commands and every capacity, though the SDK repeats, reorders and   *)
(* loses what it is given.                                                 *)
(*                                                                         *)
(* An acknowledgement is three steps away from what it speaks of: the chat *)
(* has decided to send it, it is on the wire, it is in the queue of events *)
(* of the other node.  The invariant follows it (AcksAreTrue and the last  *)
(* part of WorkIsSound), and says what the chat may rely on while it waits *)
(* for its transport: the caller it will answer, and the room it found in  *)
(* its bounded sets (the rest of WorkIsSound).                             *)
(***************************************************************************)
\* The functions of the state have a value for each node.
PerNode ==
  /\ calls = [n \in Node |-> calls[n]]
  /\ chat = [n \in Node |-> chat[n]]
  /\ asked = [n \in Node |-> asked[n]]
  /\ transport = [n \in Node |-> transport[n]]
  /\ events = [n \in Node |-> events[n]]
  /\ contacts = [n \in Node |-> contacts[n]]
  /\ pending = [n \in Node |-> pending[n]]
  /\ seen = [n \in Node |-> seen[n]]
  /\ history = [n \in Node |-> history[n]]
  /\ displayed = [n \in Node |-> displayed[n]]
  /\ unsettled = [n \in Node |-> unsettled[n]]

\* The types of one node's variables; what is in its queue of events was sent, or is a receipt.
NodeTyped(n) ==
  /\ calls[n] \in Seq(Call) /\ chat[n] \in Work
  /\ asked[n] \in {Nothing, "asked", "ok", "failed"} /\ transport[n] \in BOOLEAN
  /\ asked[n] = Nothing <=> chat[n].do \in {"loop", "closed"}
  /\ events[n] \in Seq(wire \cup Receipt) /\ Len(events[n]) <= EventCapacity
  /\ displayed[n] \subseteq Msg /\ unsettled[n] \subseteq Msg
  /\ seen[n] \in Seq(Node \X Msg) /\ Len(seen[n]) <= MaxSeen

ContactsBounded(n) ==
  /\ contacts[n] \subseteq Node \ {n}
  /\ IsFiniteSet(contacts[n]) /\ Cardinality(contacts[n]) <= MaxContacts

PendingBounded(n) ==
  /\ pending[n] \subseteq Msg
  /\ IsFiniteSet(pending[n]) /\ Cardinality(pending[n]) <= MaxPending

\* What the chat relies on when its transport has answered.
WorkIsSound(n) ==
  /\ chat[n].do \in {"connect", "message", "stop"} => calls[n] # <<>>
  /\ chat[n].do = "connect" => /\ chat[n].peer # n
                               /\ \/ chat[n].peer \in contacts[n]
                                  \/ Cardinality(contacts[n]) < MaxContacts
  /\ chat[n].do = "message" => Cardinality(pending[n]) < MaxPending
  /\ chat[n].do = "ack" => chat[n].id \in displayed[n]

HistoryIsSound(n) ==
  /\ history[n] \in Seq(Entry) /\ Len(history[n]) <= MaxHistory
  /\ \A i \in DOMAIN history[n] :
       /\ history[n][i].delivery = "received" =>
            \E p \in Node \ {n} : history[n][i].id \in displayed[p]
       /\ history[n][i].delivery = "queued" => history[n][i].id \in pending[n]

NodeSound(n) ==
  NodeTyped(n) /\ ContactsBounded(n) /\ PendingBounded(n) /\ WorkIsSound(n) /\ HistoryIsSound(n)

\* Whoever acknowledges a message has shown it.
AcksAreTrue == \A packet \in wire : packet.kind = "ack" => packet.id \in displayed[packet.from]

\* The inductive invariant.
KnpInv ==
  /\ PerNode
  /\ \A n \in Node : NodeSound(n)
  /\ made \subseteq Msg /\ wire \subseteq Packet
  /\ AcksAreTrue
-----------------------------------------------------------------------------
(* The operators of the model.                                             *)

\* The variables of node n are as they were.
Same(n) ==
  /\ calls'[n] = calls[n] /\ chat'[n] = chat[n] /\ asked'[n] = asked[n]
  /\ transport'[n] = transport[n] /\ events'[n] = events[n] /\ contacts'[n] = contacts[n]
  /\ pending'[n] = pending[n] /\ seen'[n] = seen[n] /\ history'[n] = history[n]
  /\ displayed'[n] = displayed[n] /\ unsettled'[n] = unsettled[n]

\* Nothing that was sent is taken back, and nothing that was shown.
Grows == wire \subseteq wire' /\ \A p \in Node : displayed[p] \subseteq displayed'[p]

\* A bounded sequence stays one, and has the new element beside elements it had.
LEMMA BoundedGrows ==
  ASSUME NEW S, NEW s \in Seq(S), NEW max \in Nat \ {0}, Len(s) <= max, NEW e \in S
  PROVE  LET t == Bounded(s, max, e)
         IN  /\ t \in Seq(S) /\ Len(t) <= max
             /\ \A i \in DOMAIN t : t[i] = e \/ \E j \in DOMAIN s : t[i] = s[j]
<1> DEFINE t == Bounded(s, max, e)
<1>0. PICK u : u = (IF Len(s) = max THEN Tail(s) ELSE s) /\ t = Append(u, e)
  BY DEF Bounded
<1> HIDE DEF t
<1>1. /\ u \in Seq(S) /\ Len(u) < max
      /\ \A i \in 1..Len(u) : \E j \in 1..Len(s) : u[i] = s[j]
  BY <1>0, SMTT(30)
<1>2. /\ t \in Seq(S) /\ Len(t) = Len(u) + 1 /\ DOMAIN t = 1..Len(t) /\ DOMAIN s = 1..Len(s)
      /\ \A i \in 1..Len(t) : t[i] = IF i <= Len(u) THEN u[i] ELSE e
  BY <1>0, <1>1, LenProperties
<1>3. t \in Seq(S) /\ Len(t) <= max
  BY <1>1, <1>2, LenProperties
<1>4. \A i \in DOMAIN t : t[i] = e \/ \E j \in DOMAIN s : t[i] = s[j]
  BY <1>1, <1>2, LenProperties, SMTT(30)
<1> QED
  BY <1>3, <1>4 DEF t

\* update_delivery changes what is said of one message, and nothing that was received.
LEMMA UpdatedSays ==
  ASSUME NEW h \in Seq(Entry), NEW m, NEW d \in Delivery
  PROVE  LET g == Updated(h, m, d)
         IN  /\ g \in Seq(Entry) /\ Len(g) = Len(h) /\ DOMAIN g = DOMAIN h
             /\ \A i \in DOMAIN h : \/ g[i] = h[i] /\ ~(h[i].id = m /\ h[i].delivery = "queued")
                                    \/ g[i] = [id |-> m, delivery |-> d] /\ h[i].id = m
<1> DEFINE g == Updated(h, m, d)
<1>1. Len(h) \in Nat /\ DOMAIN h = 1..Len(h) /\ \A i \in DOMAIN h : h[i] \in Entry
  BY LenProperties, ElementOfSeq
<1>2. g = [i \in 1..Len(h) |->
             IF h[i].id = m /\ h[i].delivery \notin {"incoming", "received"}
             THEN [h[i] EXCEPT !.delivery = d] ELSE h[i]]
  BY <1>1 DEF Updated
<1>3. ASSUME NEW i \in DOMAIN h
      PROVE  /\ g[i] \in Entry
             /\ \/ g[i] = h[i] /\ ~(h[i].id = m /\ h[i].delivery = "queued")
                \/ g[i] = [id |-> m, delivery |-> d] /\ h[i].id = m
  BY <1>1, <1>2 DEF Entry
<1> HIDE DEF g
<1>4. g \in [1..Len(h) -> Entry]
  BY <1>1, <1>2, <1>3
<1>5. g \in Seq(Entry) /\ Len(g) = Len(h) /\ DOMAIN g = DOMAIN h
  BY <1>1, <1>4
<1> QED
  BY <1>3, <1>5 DEF g

\* A node that does not take part in a step.
LEMMA OtherNode ==
  ASSUME NEW n \in Node, NodeSound(n), Same(n), Grows
  PROVE  NodeSound(n)'
<1>1. NodeTyped(n)'
  <2>1. events[n] \in Seq(wire' \cup Receipt)
    <3>1. wire \cup Receipt \subseteq wire' \cup Receipt
      BY DEF Grows
    <3> QED
      BY <3>1, SeqMonotonic DEF NodeSound, NodeTyped
  <2> QED
    BY <2>1 DEF NodeSound, NodeTyped, Same
<1>2. ContactsBounded(n)' /\ PendingBounded(n)'
  BY DEF NodeSound, ContactsBounded, PendingBounded, Same
<1>3. WorkIsSound(n)'
  BY DEF NodeSound, WorkIsSound, Same, Grows
<1>4. HistoryIsSound(n)'
  BY DEF NodeSound, HistoryIsSound, Same, Grows
<1> QED
  BY <1>1, <1>2, <1>3, <1>4 DEF NodeSound

\* A step of one node.
LEMMA StepOf ==
  ASSUME KnpInv, NEW n \in Node, PerNode', \A x \in Node \ {n} : Same(x), Grows, NodeSound(n)',
         made' \subseteq Msg, wire' \subseteq Packet, AcksAreTrue'
  PROVE  KnpInv'
<1>1. ASSUME NEW x \in Node PROVE NodeSound(x)'
  BY OtherNode DEF KnpInv
<1> QED
  BY <1>1 DEF KnpInv

\* A step that sends nothing and shows nothing.
LEMMA QuietStepOf ==
  ASSUME KnpInv, NEW n \in Node, PerNode', \A x \in Node \ {n} : Same(x), NodeSound(n)',
         made' \subseteq Msg, wire' = wire, displayed' = displayed
  PROVE  KnpInv'
<1>1. Grows /\ AcksAreTrue' /\ wire' \subseteq Packet
  BY DEF KnpInv, Grows, AcksAreTrue
<1> QED
  BY <1>1, StepOf

-----------------------------------------------------------------------------
(* The steps.                                                              *)

\* No chat has begun.
LEMMA KnpInitInv == KnpInit => KnpInv
<1> SUFFICES ASSUME KnpInit PROVE KnpInv
  OBVIOUS
<1>0. {EventCapacity, MaxContacts, MaxPending, MaxSeen, MaxHistory} \subseteq Nat \ {0}
  BY KnpAssumption
<1>1. PerNode
  BY DEF KnpInit, PerNode
<1>2. ASSUME NEW n \in Node PROVE NodeSound(n)
  <2>1. /\ calls[n] = <<>> /\ chat[n] = Loop /\ asked[n] = Nothing /\ transport[n] = TRUE
        /\ events[n] = <<>> /\ contacts[n] = {} /\ pending[n] = {} /\ seen[n] = <<>>
        /\ history[n] = <<>> /\ displayed[n] = {} /\ unsettled[n] = {}
    BY DEF KnpInit
  <2>2. NodeTyped(n)
    <3>1. Loop \in Work /\ Loop.do = "loop"
      BY DEF Loop, Work
    <3>2. /\ <<>> \in Seq(Call) /\ <<>> \in Seq(wire \cup Receipt) /\ <<>> \in Seq(Node \X Msg)
          /\ Len(<<>>) = 0
      BY EmptySeq
    <3>3. Len(events[n]) <= EventCapacity /\ Len(seen[n]) <= MaxSeen
      BY <1>0, <2>1, <3>2
    <3> QED
      BY <2>1, <3>1, <3>2, <3>3 DEF NodeTyped
  <2>3. ContactsBounded(n) /\ PendingBounded(n)
    BY <1>0, <2>1, FS_EmptySet DEF ContactsBounded, PendingBounded
  <2>4. WorkIsSound(n) /\ HistoryIsSound(n)
    BY <1>0, <2>1, EmptySeq DEF WorkIsSound, HistoryIsSound, Loop
  <2> QED
    BY <2>2, <2>3, <2>4 DEF NodeSound
<1>3. made = {} /\ wire = {}
  BY DEF KnpInit
<1> QED
  BY <1>1, <1>2, <1>3 DEF KnpInv, AcksAreTrue

\* Changing one node's value keeps a function of the nodes and the values of the others.
LEMMA ExceptNode ==
  ASSUME NEW f, f = [x \in Node |-> f[x]], NEW n \in Node, NEW v
  PROVE  LET g == [f EXCEPT ![n] = v]
         IN  g = [x \in Node |-> g[x]] /\ g[n] = v /\ \A x \in Node \ {n} : g[x] = f[x]
OBVIOUS

\* The first call has its answer.
LEMMA FirstAnswered ==
  ASSUME NEW n \in Node, PerNode, NodeTyped(n), calls[n] # <<>>, Answer(n)
  PROVE  /\ calls' = [x \in Node |-> calls'[x]] /\ calls'[n] \in Seq(Call)
         /\ \A x \in Node \ {n} : calls'[x] = calls[x]
<1>1. calls' = [calls EXCEPT ![n] = Tail(calls[n])] /\ Tail(calls[n]) \in Seq(Call)
  BY HeadTailProperties DEF Answer, NodeTyped
<1> QED
  BY <1>1, ExceptNode DEF PerNode

\* The chat begins to wait for its transport.
LEMMA Awaiting ==
  ASSUME NEW n \in Node, PerNode, NEW work \in Work, work.do \notin {"loop", "closed"},
         Await(n, work)
  PROVE  /\ chat' = [x \in Node |-> chat'[x]] /\ asked' = [x \in Node |-> asked'[x]]
         /\ chat'[n] = work /\ asked'[n] \in {"asked", "failed"}
         /\ \A x \in Node \ {n} : chat'[x] = chat[x] /\ asked'[x] = asked[x]
BY DEF Await, PerNode

\* A user gives a command.
LEMMA MakeCallInv ==
  ASSUME KnpInv, NEW n \in Node, NEW c \in UserCalls[n], MakeCall(n, c)
  PROVE  KnpInv'
<1>1. c \in Call
  BY KnpAssumption
<1>2. /\ calls' = [calls EXCEPT ![n] = Append(calls[n], c)]
      /\ UNCHANGED <<chat, asked, contacts, pending, seen, history, made, displayed, transport,
                     events, wire, unsettled>>
      /\ PerNode /\ NodeSound(n)
  BY DEF MakeCall, KnpInv, netVars
<1>3. /\ calls' = [x \in Node |-> calls'[x]] /\ calls'[n] = Append(calls[n], c)
      /\ \A x \in Node \ {n} : calls'[x] = calls[x]
  BY <1>2, ExceptNode DEF PerNode
<1>4. PerNode' /\ \A x \in Node \ {n} : Same(x)
  BY <1>2, <1>3 DEF PerNode, Same
<1>5. Append(calls[n], c) \in Seq(Call) /\ Append(calls[n], c) # <<>>
  <2>1. calls[n] \in Seq(Call)
    BY <1>2 DEF NodeSound, NodeTyped
  <2>2. Append(calls[n], c) \in Seq(Call) /\ Len(Append(calls[n], c)) = Len(calls[n]) + 1
    BY <1>1, <2>1
  <2>3. Len(calls[n]) \in Nat /\ Len(<<>>) = 0
    BY <2>1, EmptySeq, LenProperties
  <2>4. Len(Append(calls[n], c)) # 0
    BY <2>2, <2>3
  <2> QED
    BY <2>2, <2>3, <2>4
<1>6. NodeSound(n)'
  BY <1>2, <1>3, <1>5 DEF NodeSound, NodeTyped, ContactsBounded, PendingBounded, WorkIsSound,
                        HistoryIsSound
<1>7. made' \subseteq Msg
  BY <1>2 DEF KnpInv
<1> QED
  BY <1>2, <1>4, <1>6, <1>7, QuietStepOf

\* The chat takes a command that its transport has to carry out.
LEMMA TakesInv ==
  ASSUME KnpInv, NEW n \in Node, NEW work \in Work,
         work.do \in {"connect", "message", "stop"}, Await(n, work),
         calls' = calls \/ calls' = [calls EXCEPT ![n] = <<"stop">>], calls[n] # <<>>,
         work.do = "connect" =>
           work.peer # n /\ (work.peer \in contacts[n] \/ Cardinality(contacts[n]) < MaxContacts),
         work.do = "message" => Cardinality(pending[n]) < MaxPending,
         made' \subseteq Msg,
         UNCHANGED <<contacts, pending, seen, history, displayed, netVars>>
  PROVE  KnpInv'
<1>1. /\ UNCHANGED <<contacts, pending, seen, history, displayed, transport, events, wire,
                     unsettled>>
      /\ PerNode /\ NodeSound(n)
  BY DEF KnpInv, netVars
<1>2. /\ chat' = [x \in Node |-> chat'[x]] /\ asked' = [x \in Node |-> asked'[x]]
      /\ chat'[n] = work /\ asked'[n] \in {"asked", "failed"}
      /\ \A x \in Node \ {n} : chat'[x] = chat[x] /\ asked'[x] = asked[x]
  BY <1>1, Awaiting
<1>3. /\ calls' = [x \in Node |-> calls'[x]] /\ calls'[n] \in {calls[n], <<"stop">>}
      /\ \A x \in Node \ {n} : calls'[x] = calls[x]
  BY <1>1, ExceptNode DEF PerNode
<1>4. PerNode' /\ \A x \in Node \ {n} : Same(x)
  BY <1>1, <1>2, <1>3 DEF PerNode, Same
<1>5. calls'[n] \in Seq(Call) /\ calls'[n] # <<>>
  <2>1. <<"stop">> \in Seq(Call) /\ <<"stop">> # <<>>
    BY DEF Call
  <2> QED
    BY <1>1, <1>3, <2>1 DEF NodeSound, NodeTyped
<1>6. Nothing \notin {"asked", "failed"}
  BY KnpAssumption
<1>7. NodeTyped(n)'
  BY <1>1, <1>2, <1>5, <1>6 DEF NodeSound, NodeTyped
<1>8. NodeSound(n)'
  BY <1>1, <1>2, <1>5, <1>7 DEF NodeSound, ContactsBounded, PendingBounded, WorkIsSound,
                                HistoryIsSound
<1> QED
  BY <1>1, <1>4, <1>8, QuietStepOf

\* A command is refused at once.
LEMMA RefusedInv ==
  ASSUME KnpInv, NEW n \in Node, calls[n] # <<>>, chat[n] = Loop, Answer(n),
         UNCHANGED <<chat, asked, made, contacts, pending, seen, history, displayed, netVars>>
  PROVE  KnpInv'
<1>1. /\ UNCHANGED <<chat, asked, contacts, pending, seen, history, displayed, transport, events,
                     wire, unsettled>>
      /\ PerNode /\ NodeSound(n)
  BY DEF KnpInv, netVars
<1>2. /\ calls' = [x \in Node |-> calls'[x]] /\ calls'[n] \in Seq(Call)
      /\ \A x \in Node \ {n} : calls'[x] = calls[x]
  BY <1>1, FirstAnswered DEF NodeSound
<1>3. PerNode' /\ \A x \in Node \ {n} : Same(x)
  BY <1>1, <1>2 DEF PerNode, Same
<1>4. NodeSound(n)'
  BY <1>1, <1>2 DEF NodeSound, NodeTyped, ContactsBounded, PendingBounded, WorkIsSound,
                    HistoryIsSound, Loop
<1> QED
  BY <1>1, <1>3, <1>4, QuietStepOf DEF KnpInv

\* The chat connects to a contact, if there is room for one.
LEMMA TakeContactInv == ASSUME KnpInv, NEW n \in Node, TakeContact(n) PROVE KnpInv'
<1>1. calls[n] # <<>> /\ chat[n] = Loop
  BY DEF TakeContact, Takes
<1>2. CASE Answer(n) /\ UNCHANGED <<chat, asked>>
  BY <1>1, <1>2, RefusedInv DEF TakeContact
<1>3. ASSUME NEW p \in Node \ {n},
             p \in contacts[n] \/ Cardinality(contacts[n]) < MaxContacts,
             Await(n, [do |-> "connect", peer |-> p]), UNCHANGED calls
      PROVE  KnpInv'
  <2> DEFINE work == [do |-> "connect", peer |-> p]
  <2>1. work \in Work /\ work.do = "connect" /\ work.peer = p
    BY DEF Work
  <2>2. /\ UNCHANGED <<contacts, pending, seen, history, displayed, netVars>>
        /\ made' \subseteq Msg
    BY DEF TakeContact, KnpInv
  <2> HIDE DEF work
  <2>3. Await(n, work)
    BY <1>3 DEF work
  <2> QED
    BY <1>1, <1>3, <2>1, <2>2, <2>3, TakesInv
<1> QED
  BY <1>2, <1>3 DEF TakeContact

\* The chat sends a message, if there is room to await its acknowledgement.
LEMMA TakeSendInv == ASSUME KnpInv, NEW n \in Node, TakeSend(n) PROVE KnpInv'
<1>1. calls[n] # <<>> /\ chat[n] = Loop
  BY DEF TakeSend, Takes
<1>2. CASE Answer(n) /\ UNCHANGED <<chat, asked, made>>
  BY <1>1, <1>2, RefusedInv DEF TakeSend
<1>3. ASSUME NEW p \in contacts[n], NEW m \in Msg \ made, Cardinality(pending[n]) < MaxPending,
             made' = made \cup {m},
             Await(n, [do |-> "message", peer |-> p, id |-> m]), UNCHANGED calls
      PROVE  KnpInv'
  <2> DEFINE work == [do |-> "message", peer |-> p, id |-> m]
  <2>0. p \in Node
    BY DEF KnpInv, NodeSound, ContactsBounded
  <2>1. work \in Work /\ work.do = "message"
    BY <2>0 DEF Work
  <2>2. /\ UNCHANGED <<contacts, pending, seen, history, displayed, netVars>>
        /\ made' \subseteq Msg
    BY <1>3 DEF TakeSend, KnpInv
  <2> HIDE DEF work
  <2>3. Await(n, work)
    BY <1>3 DEF work
  <2> QED
    BY <1>1, <1>3, <2>1, <2>2, <2>3, TakesInv
<1> QED
  BY <1>2, <1>3 DEF TakeSend

\* The chat closes its commands and waits for its transport.
LEMMA TakeStopInv == ASSUME KnpInv, NEW n \in Node, TakeStop(n) PROVE KnpInv'
<1> DEFINE work == [do |-> "stop"]
<1>1. calls[n] # <<>> /\ calls' = [calls EXCEPT ![n] = <<"stop">>]
  BY DEF TakeStop, Takes
<1>2. work \in Work /\ work.do = "stop"
  BY DEF Work
<1>3. /\ UNCHANGED <<contacts, pending, seen, history, displayed, netVars>>
      /\ made' \subseteq Msg
  BY DEF TakeStop, KnpInv
<1>4. Await(n, work)
  BY DEF TakeStop
<1> HIDE DEF work
<1> QED
  BY <1>1, <1>2, <1>3, <1>4, TakesInv

\* A set that is bounded and not full takes one more.
LEMMA OneMore ==
  ASSUME NEW S, IsFiniteSet(S), NEW max \in Nat, NEW e, Cardinality(S) <= max,
         e \in S \/ Cardinality(S) < max
  PROVE  IsFiniteSet(S \cup {e}) /\ Cardinality(S \cup {e}) <= max
<1>1. CASE e \in S
  <2>1. S \cup {e} = S
    BY <1>1
  <2> QED
    BY <2>1
<1>2. CASE e \notin S
  <2>1. IsFiniteSet(S \cup {e}) /\ Cardinality(S \cup {e}) = Cardinality(S) + 1
    BY <1>2, FS_AddElement
  <2>2. Cardinality(S) \in Nat /\ Cardinality(S) < max
    BY <1>2, FS_CardinalityType
  <2> QED
    BY <2>1, <2>2
<1> QED
  BY <1>1, <1>2

\* A bounded set with one less.
LEMMA OneLess ==
  ASSUME NEW S, IsFiniteSet(S), NEW max \in Nat, NEW e, Cardinality(S) <= max
  PROVE  IsFiniteSet(S \ {e}) /\ Cardinality(S \ {e}) <= max
<1>1. CASE e \in S
  <2>1. IsFiniteSet(S \ {e}) /\ Cardinality(S \ {e}) = Cardinality(S) - 1
    BY <1>1, FS_RemoveElement
  <2>2. Cardinality(S) \in Nat
    BY FS_CardinalityType
  <2> QED
    BY <2>1, <2>2
<1>2. CASE e \notin S
  <2>1. S \ {e} = S
    BY <1>2
  <2> QED
    BY <2>1
<1> QED
  BY <1>1, <1>2

\* The transport has connected: the peer is a contact.
LEMMA ResumeContacts ==
  ASSUME KnpInv, NEW n \in Node, Resume(n)
  PROVE  /\ contacts' = [x \in Node |-> contacts'[x]] /\ ContactsBounded(n)'
         /\ \A x \in Node \ {n} : contacts'[x] = contacts[x]
<1>1. PerNode /\ ContactsBounded(n) /\ WorkIsSound(n) /\ chat[n] \in Work /\ MaxContacts \in Nat
  BY KnpAssumption DEF KnpInv, NodeSound, NodeTyped
<1>2. CASE contacts' = contacts
  BY <1>1, <1>2 DEF PerNode, ContactsBounded
<1>3. CASE contacts' # contacts
  <2>1. /\ chat[n].do = "connect"
        /\ contacts' = [contacts EXCEPT ![n] = contacts[n] \cup {chat[n].peer}]
    BY <1>3 DEF Resume
  <2>2. chat[n].peer \in Node \ {n}
    BY <1>1, <2>1 DEF Work, WorkIsSound
  <2>3. /\ IsFiniteSet(contacts[n] \cup {chat[n].peer})
        /\ Cardinality(contacts[n] \cup {chat[n].peer}) <= MaxContacts
    BY <1>1, <2>1, OneMore DEF ContactsBounded, WorkIsSound
  <2>4. /\ contacts' = [x \in Node |-> contacts'[x]]
        /\ \A x \in Node \ {n} : contacts'[x] = contacts[x]
        /\ contacts'[n] = contacts[n] \cup {chat[n].peer}
    BY <1>1, <2>1 DEF PerNode
  <2> QED
    BY <1>1, <2>2, <2>3, <2>4 DEF ContactsBounded
<1> QED
  BY <1>2, <1>3

\* The transport has taken a message: it is queued, and awaited.
LEMMA ResumeMessage ==
  ASSUME KnpInv, NEW n \in Node, Resume(n)
  PROVE  /\ pending' = [x \in Node |-> pending'[x]] /\ history' = [x \in Node |-> history'[x]]
         /\ \A x \in Node \ {n} : pending'[x] = pending[x] /\ history'[x] = history[x]
         /\ PendingBounded(n)' /\ HistoryIsSound(n)'
<1>1. /\ PerNode /\ PendingBounded(n) /\ HistoryIsSound(n) /\ WorkIsSound(n) /\ chat[n] \in Work
      /\ MaxPending \in Nat /\ MaxHistory \in Nat \ {0} /\ displayed' = displayed
  BY KnpAssumption DEF KnpInv, NodeSound, NodeTyped, Resume
<1>2. CASE UNCHANGED <<pending, history>>
  BY <1>1, <1>2 DEF PerNode, PendingBounded, HistoryIsSound
<1>3. CASE chat[n].do = "message" /\ asked[n] = "ok"
  <2> DEFINE m == chat[n].id
             e == [id |-> m, delivery |-> "queued"]
             h == Bounded(history[n], MaxHistory, e)
  <2>1. /\ chat[n].do = "message"
        /\ pending' = [pending EXCEPT ![n] = pending[n] \cup {m}]
        /\ history' = [history EXCEPT ![n] = h]
    BY <1>3 DEF Resume
  <2>2. m \in Msg /\ e \in Entry
    BY <1>1, <2>1 DEF Work, Entry, Delivery
  <2>3. IsFiniteSet(pending[n] \cup {m}) /\ Cardinality(pending[n] \cup {m}) <= MaxPending
    BY <1>1, <2>1, OneMore DEF PendingBounded, WorkIsSound
  <2>4. /\ h \in Seq(Entry) /\ Len(h) <= MaxHistory
        /\ \A i \in DOMAIN h : h[i] = e \/ \E j \in DOMAIN history[n] : h[i] = history[n][j]
    BY <1>1, <2>2, BoundedGrows DEF HistoryIsSound
  <2>5. e.id = m /\ e.delivery = "queued"
    OBVIOUS
  <2> HIDE DEF m, e, h
  <2>6. /\ pending' = [x \in Node |-> pending'[x]] /\ history' = [x \in Node |-> history'[x]]
        /\ \A x \in Node \ {n} : pending'[x] = pending[x] /\ history'[x] = history[x]
        /\ pending'[n] = pending[n] \cup {m} /\ history'[n] = h
    BY <1>1, <2>1 DEF PerNode
  <2>7. PendingBounded(n)'
    BY <1>1, <2>2, <2>3, <2>6 DEF PendingBounded
  <2>8. HistoryIsSound(n)'
    BY <1>1, <2>4, <2>5, <2>6 DEF HistoryIsSound
  <2> QED
    BY <2>6, <2>7, <2>8
<1> QED
  BY <1>2, <1>3 DEF Resume

\* The transport has answered, and so has the chat, if a caller waits.
LEMMA ResumeInv == ASSUME KnpInv, NEW n \in Node, Resume(n) PROVE KnpInv'
<1>1. /\ PerNode /\ NodeSound(n) /\ made \subseteq Msg /\ asked[n] \in {"ok", "failed"}
      /\ UNCHANGED <<seen, made, displayed, transport, events, wire, unsettled>>
  BY DEF KnpInv, Resume, netVars
<1>2. /\ asked' = [asked EXCEPT ![n] = Nothing]
      /\ chat' = [chat EXCEPT ![n] = IF chat[n].do = "stop" THEN [do |-> "closed"] ELSE Loop]
  BY DEF Resume
<1>3. /\ asked' = [x \in Node |-> asked'[x]] /\ chat' = [x \in Node |-> chat'[x]]
      /\ asked'[n] = Nothing /\ chat'[n].do \in {"loop", "closed"} /\ chat'[n] \in Work
      /\ \A x \in Node \ {n} : asked'[x] = asked[x] /\ chat'[x] = chat[x]
  BY <1>1, <1>2 DEF PerNode, Loop, Work
<1>4. /\ calls' = [x \in Node |-> calls'[x]] /\ calls'[n] \in Seq(Call)
      /\ \A x \in Node \ {n} : calls'[x] = calls[x]
  <2>1. CASE calls' = calls
    BY <1>1, <2>1 DEF PerNode, NodeSound, NodeTyped
  <2>2. CASE calls' # calls
    <3>1. Answer(n) /\ chat[n].do # "ack"
      BY <2>2 DEF Resume
    <3>2. chat[n].do \in {"connect", "message", "stop"}
      <4>1. chat[n].do \notin {"loop", "closed"}
        BY <1>1, KnpAssumption DEF NodeSound, NodeTyped
      <4> QED
        BY <1>1, <3>1, <4>1 DEF NodeSound, NodeTyped, Work
    <3> QED
      BY <1>1, <3>1, <3>2, FirstAnswered DEF NodeSound, WorkIsSound
  <2> QED
    BY <2>1, <2>2
<1>5. PerNode' /\ \A x \in Node \ {n} : Same(x)
  BY <1>1, <1>3, <1>4, ResumeContacts, ResumeMessage DEF PerNode, Same
<1>6. NodeTyped(n)' /\ WorkIsSound(n)'
  BY <1>1, <1>3, <1>4 DEF NodeSound, NodeTyped, WorkIsSound
<1> QED
  BY <1>1, <1>5, <1>6, ResumeContacts, ResumeMessage, QuietStepOf DEF NodeSound
\* What the chat takes from its queue was sent, or is a receipt.
LEMMA TakenEvent ==
  ASSUME NEW n \in Node, PerNode, NodeTyped(n), events[n] # <<>>,
         events' = [events EXCEPT ![n] = Tail(@)]
  PROVE  /\ events' = [x \in Node |-> events'[x]] /\ Head(events[n]) \in wire \cup Receipt
         /\ events'[n] \in Seq(wire \cup Receipt) /\ Len(events'[n]) <= EventCapacity
         /\ \A x \in Node \ {n} : events'[x] = events[x]
<1>1. EventCapacity \in Nat
  BY KnpAssumption
<1>2. /\ Head(events[n]) \in wire \cup Receipt /\ Tail(events[n]) \in Seq(wire \cup Receipt)
      /\ Len(Tail(events[n])) = Len(events[n]) - 1 /\ Len(events[n]) \in Nat
      /\ Len(events[n]) <= EventCapacity
  BY HeadTailProperties, LenProperties DEF NodeTyped
<1>3. /\ events' = [x \in Node |-> events'[x]] /\ events'[n] = Tail(events[n])
      /\ \A x \in Node \ {n} : events'[x] = events[x]
  BY ExceptNode DEF PerNode
<1> QED
  BY <1>1, <1>2, <1>3

\* A message comes in: it is shown before its acknowledgement is on its way.
LEMMA OnMessageInv ==
  ASSUME KnpInv, NEW n \in Node, NEW e \in wire, e.from \in contacts[n], OnMessage(n, e),
         events[n] # <<>>, events' = [events EXCEPT ![n] = Tail(@)],
         UNCHANGED <<calls, contacts, made, transport, wire, unsettled>>
  PROVE  KnpInv'
<1> DEFINE key == <<e.from, e.id>>
           new == ~Contains(seen[n], key)
           entry == [id |-> e.id, delivery |-> "incoming"]
           work == [do |-> "ack", peer |-> e.from, id |-> e.id]
<1>1. /\ PerNode /\ NodeSound(n) /\ UNCHANGED pending
      /\ seen' = [seen EXCEPT ![n] = IF new THEN Bounded(seen[n], MaxSeen, key) ELSE seen[n]]
      /\ history' = [history EXCEPT ![n] =
           IF new THEN Bounded(history[n], MaxHistory, entry) ELSE history[n]]
      /\ displayed' = [displayed EXCEPT ![n] = displayed[n] \cup {e.id}]
      /\ Await(n, work) /\ MaxSeen \in Nat \ {0} /\ MaxHistory \in Nat \ {0}
  BY KnpAssumption DEF OnMessage, KnpInv
<1>2. /\ e.id \in Msg /\ e.from \in Node /\ key \in Node \X Msg
      /\ entry \in Entry /\ entry.delivery = "incoming"
      /\ work \in Work /\ work.do = "ack" /\ work.id = e.id
  BY <1>1 DEF KnpInv, Packet, Entry, Delivery, Work
<1> HIDE DEF new, key, entry, work
<1>3. /\ seen' = [x \in Node |-> seen'[x]] /\ history' = [x \in Node |-> history'[x]]
      /\ displayed' = [x \in Node |-> displayed'[x]]
      /\ displayed'[n] = displayed[n] \cup {e.id}
      /\ seen'[n] = IF new THEN Bounded(seen[n], MaxSeen, key) ELSE seen[n]
      /\ history'[n] = IF new THEN Bounded(history[n], MaxHistory, entry) ELSE history[n]
      /\ \A x \in Node \ {n} :
           seen'[x] = seen[x] /\ history'[x] = history[x] /\ displayed'[x] = displayed[x]
  BY <1>1, ExceptNode DEF PerNode
<1>4. /\ chat' = [x \in Node |-> chat'[x]] /\ asked' = [x \in Node |-> asked'[x]]
      /\ chat'[n] = work /\ asked'[n] \in {"asked", "failed"}
      /\ \A x \in Node \ {n} : chat'[x] = chat[x] /\ asked'[x] = asked[x]
  BY <1>1, <1>2, Awaiting
<1>5. /\ events' = [x \in Node |-> events'[x]] /\ events'[n] \in Seq(wire \cup Receipt)
      /\ Len(events'[n]) <= EventCapacity /\ \A x \in Node \ {n} : events'[x] = events[x]
  BY <1>1, TakenEvent DEF NodeSound
<1>6. PerNode' /\ \A x \in Node \ {n} : Same(x)
  BY <1>1, <1>3, <1>4, <1>5 DEF PerNode, Same
<1>7. Grows
  BY <1>3 DEF Grows
<1>8. seen'[n] \in Seq(Node \X Msg) /\ Len(seen'[n]) <= MaxSeen
  BY <1>1, <1>2, <1>3, BoundedGrows DEF NodeSound, NodeTyped
<1>9. Nothing \notin {"asked", "failed"}
  BY KnpAssumption
<1>10. NodeTyped(n)'
  BY <1>1, <1>2, <1>3, <1>4, <1>5, <1>8, <1>9 DEF NodeSound, NodeTyped
<1>11. ContactsBounded(n)' /\ PendingBounded(n)' /\ WorkIsSound(n)'
  BY <1>1, <1>2, <1>3, <1>4 DEF NodeSound, ContactsBounded, PendingBounded, WorkIsSound
<1>12. HistoryIsSound(n)'
  <2>1. \A p \in Node : displayed[p] \subseteq displayed'[p]
    BY <1>7 DEF Grows
  <2>2. CASE history'[n] = history[n]
    BY <1>1, <2>1, <2>2 DEF NodeSound, HistoryIsSound
  <2>3. CASE history'[n] = Bounded(history[n], MaxHistory, entry)
    <3>1. /\ history'[n] \in Seq(Entry) /\ Len(history'[n]) <= MaxHistory
          /\ \A i \in DOMAIN history'[n] :
               history'[n][i] = entry \/ \E j \in DOMAIN history[n] : history'[n][i] = history[n][j]
      BY <1>1, <1>2, <2>3, BoundedGrows DEF NodeSound, HistoryIsSound
    <3>2. \A j \in DOMAIN history[n] :
            /\ history[n][j].delivery = "received" =>
                 \E p \in Node \ {n} : history[n][j].id \in displayed'[p]
            /\ history[n][j].delivery = "queued" => history[n][j].id \in pending'[n]
      BY <1>1, <2>1 DEF NodeSound, HistoryIsSound
    <3>3. ASSUME NEW i \in DOMAIN history'[n]
          PROVE  /\ history'[n][i].delivery = "received" =>
                      \E p \in Node \ {n} : history'[n][i].id \in displayed'[p]
                 /\ history'[n][i].delivery = "queued" => history'[n][i].id \in pending'[n]
      <4>1. CASE history'[n][i] = entry
        BY <1>2, <4>1
      <4>2. CASE \E j \in DOMAIN history[n] : history'[n][i] = history[n][j]
        BY <3>2, <4>2
      <4> QED
        BY <3>1, <4>1, <4>2
    <3> QED
      BY <3>1, <3>3 DEF HistoryIsSound
  <2> QED
    BY <1>3, <2>2, <2>3
<1>13. AcksAreTrue'
  BY <1>7 DEF KnpInv, AcksAreTrue, Grows, Packet
<1>14. made' \subseteq Msg /\ wire' \subseteq Packet
  BY DEF KnpInv
<1>15. NodeSound(n)'
  BY <1>10, <1>11, <1>12 DEF NodeSound
<1> QED
  BY <1>6, <1>7, <1>13, <1>14, <1>15, StepOf

\* What is said of a message changes, and it may be awaited no more: what the history shows as
\* received is true, and what it shows as queued is awaited.
LEMMA SettledInv ==
  ASSUME KnpInv, NEW n \in Node, NEW m \in Msg, NEW d \in Delivery \ {"queued"},
         d = "received" => \E p \in Node \ {n} : m \in displayed[p],
         \/ history' = [history EXCEPT ![n] = Updated(history[n], m, d)]
         \/ history' = history /\ ~HasQueued(history[n], m)
         \/ UNCHANGED <<history, pending>>,
         pending' = pending \/ pending' = [pending EXCEPT ![n] = pending[n] \ {m}],
         UNCHANGED displayed
  PROVE  /\ pending' = [x \in Node |-> pending'[x]] /\ history' = [x \in Node |-> history'[x]]
         /\ \A x \in Node \ {n} : pending'[x] = pending[x] /\ history'[x] = history[x]
         /\ PendingBounded(n)' /\ HistoryIsSound(n)'
         /\ Cardinality(pending'[n]) <= Cardinality(pending[n])
<1>1. PerNode /\ PendingBounded(n) /\ HistoryIsSound(n) /\ MaxPending \in Nat
  BY KnpAssumption DEF KnpInv, NodeSound
<1>2. /\ pending' = [x \in Node |-> pending'[x]] /\ pending'[n] \in {pending[n], pending[n] \ {m}}
      /\ \A x \in Node \ {n} : pending'[x] = pending[x]
  <2>1. CASE pending' = pending
    BY <1>1, <2>1 DEF PerNode
  <2>2. CASE pending' = [pending EXCEPT ![n] = pending[n] \ {m}]
    BY <1>1, <2>2, ExceptNode DEF PerNode
  <2> QED
    BY <2>1, <2>2
<1>3. /\ IsFiniteSet(pending'[n]) /\ Cardinality(pending'[n]) <= Cardinality(pending[n])
      /\ Cardinality(pending'[n]) <= MaxPending
  <2>1. IsFiniteSet(pending[n]) /\ Cardinality(pending[n]) \in Nat
    BY <1>1, FS_CardinalityType DEF PendingBounded
  <2>2. /\ IsFiniteSet(pending[n] \ {m})
        /\ Cardinality(pending[n] \ {m}) <= Cardinality(pending[n])
    BY <2>1, OneLess
  <2>3. Cardinality(pending[n] \ {m}) \in Nat
    BY <2>2, FS_CardinalityType
  <2> QED
    BY <1>1, <1>2, <2>1, <2>2, <2>3 DEF PendingBounded
<1>4. /\ history' = [x \in Node |-> history'[x]]
      /\ history'[n] \in {history[n], Updated(history[n], m, d)}
      /\ \A x \in Node \ {n} : history'[x] = history[x]
  <2>1. CASE history' = history
    BY <1>1, <2>1 DEF PerNode
  <2>2. CASE history' = [history EXCEPT ![n] = Updated(history[n], m, d)]
    BY <1>1, <2>2, ExceptNode DEF PerNode
  <2> QED
    BY <2>1, <2>2
<1>5. HistoryIsSound(n)'
  <2>0. history[n] \in Seq(Entry) /\ \A i \in DOMAIN history[n] : history[n][i] \in Entry
    BY <1>1, ElementOfSeq, LenProperties DEF HistoryIsSound
  <2>1. CASE history'[n] = Updated(history[n], m, d)
    <3> DEFINE g == Updated(history[n], m, d)
               h == history[n]
    <3>1. /\ g \in Seq(Entry) /\ Len(g) = Len(h) /\ DOMAIN g = DOMAIN h
          /\ \A i \in DOMAIN h : \/ g[i] = h[i] /\ ~(h[i].id = m /\ h[i].delivery = "queued")
                                 \/ g[i] = [id |-> m, delivery |-> d] /\ h[i].id = m
      BY <2>0, UpdatedSays
    <3> HIDE DEF g
    <3>2. ASSUME NEW i \in DOMAIN h
          PROVE  /\ g[i].delivery = "received" => \E p \in Node \ {n} : g[i].id \in displayed[p]
                 /\ g[i].delivery = "queued" => g[i].id \in pending'[n]
      <4>1. CASE g[i] = h[i] /\ ~(h[i].id = m /\ h[i].delivery = "queued")
        BY <1>1, <1>2, <4>1 DEF HistoryIsSound
      <4>2. CASE g[i] = [id |-> m, delivery |-> d]
        BY <4>2
      <4> QED
        BY <3>1, <4>1, <4>2
    <3>3. history'[n] = g
      BY <2>1 DEF g
    <3> QED
      BY <1>1, <3>1, <3>2, <3>3 DEF HistoryIsSound
  <2>2. CASE history' = history /\ ~HasQueued(history[n], m)
    <3>1. \A i \in DOMAIN history[n] : ~(history[n][i].id = m /\ history[n][i].delivery = "queued")
      <4>1. \A i \in DOMAIN history[n] :
              history[n][i] = [id |-> history[n][i].id, delivery |-> history[n][i].delivery]
        BY <2>0 DEF Entry
      <4> QED
        BY <2>2, <4>1 DEF HasQueued
    <3> QED
      BY <1>1, <1>2, <2>2, <3>1 DEF HistoryIsSound
  <2>3. CASE UNCHANGED <<history, pending>>
    BY <1>1, <2>3 DEF HistoryIsSound
  <2> QED
    BY <1>1, <2>1, <2>2, <2>3, ExceptNode DEF PerNode
<1> QED
  BY <1>1, <1>2, <1>3, <1>4, <1>5 DEF PendingBounded
\* A message is settled by an event, or by the timer.
LEMMA SettlingInv ==
  ASSUME KnpInv, NEW n \in Node, NEW m \in Msg, NEW d \in Delivery \ {"queued"},
         d = "received" => \E p \in Node \ {n} : m \in displayed[p],
         \/ history' = [history EXCEPT ![n] = Updated(history[n], m, d)]
         \/ history' = history /\ ~HasQueued(history[n], m)
         \/ UNCHANGED <<history, pending>>,
         pending' = pending \/ pending' = [pending EXCEPT ![n] = pending[n] \ {m}],
         \/ UNCHANGED events
         \/ events[n] # <<>> /\ events' = [events EXCEPT ![n] = Tail(@)],
         UNCHANGED <<calls, chat, asked, contacts, seen, made, displayed, transport, wire,
                     unsettled>>
  PROVE  KnpInv'
<1>1. PerNode /\ NodeSound(n) /\ MaxPending \in Nat
  BY KnpAssumption DEF KnpInv
<1>2. /\ pending' = [x \in Node |-> pending'[x]] /\ history' = [x \in Node |-> history'[x]]
      /\ \A x \in Node \ {n} : pending'[x] = pending[x] /\ history'[x] = history[x]
      /\ PendingBounded(n)' /\ HistoryIsSound(n)'
      /\ Cardinality(pending'[n]) <= Cardinality(pending[n])
  BY SettledInv
<1>3. /\ events' = [x \in Node |-> events'[x]] /\ events'[n] \in Seq(wire \cup Receipt)
      /\ Len(events'[n]) <= EventCapacity /\ \A x \in Node \ {n} : events'[x] = events[x]
  <2>1. CASE UNCHANGED events
    BY <1>1, <2>1 DEF PerNode, NodeSound, NodeTyped
  <2>2. CASE events[n] # <<>> /\ events' = [events EXCEPT ![n] = Tail(@)]
    BY <1>1, <2>2, TakenEvent DEF NodeSound
  <2> QED
    BY <2>1, <2>2
<1>4. PerNode' /\ \A x \in Node \ {n} : Same(x)
  BY <1>1, <1>2, <1>3 DEF PerNode, Same
<1>5. NodeTyped(n)' /\ ContactsBounded(n)'
  BY <1>1, <1>3 DEF NodeSound, NodeTyped, ContactsBounded
<1>6. WorkIsSound(n)'
  <2>1. Cardinality(pending[n]) \in Nat /\ Cardinality(pending'[n]) \in Nat
    BY <1>1, <1>2, FS_CardinalityType DEF NodeSound, PendingBounded
  <2> QED
    BY <1>1, <1>2, <2>1 DEF NodeSound, WorkIsSound
<1>7. NodeSound(n)'
  BY <1>2, <1>5, <1>6 DEF NodeSound
<1>8. made' \subseteq Msg
  BY DEF KnpInv
<1> QED
  BY <1>4, <1>7, <1>8, QuietStepOf

\* The chat takes an event of its transport.
LEMMA TakeEventInv == ASSUME KnpInv, NEW n \in Node, TakeEvent(n) PROVE KnpInv'
<1> DEFINE e == Head(events[n])
<1>1. /\ PerNode /\ NodeSound(n) /\ wire \subseteq Packet /\ AcksAreTrue
      /\ events[n] # <<>> /\ events' = [events EXCEPT ![n] = Tail(@)]
      /\ UNCHANGED <<calls, contacts, made, transport, wire, unsettled>>
  BY DEF TakeEvent, KnpInv
<1>2. e \in wire \cup Receipt
  BY <1>1, TakenEvent DEF NodeSound
<1>3. /\ e.id \in Msg
      /\ e.kind \in {"message", "ack"} => e \in wire
      /\ {"received", "failed", "transport_delivered"} \subseteq Delivery \ {"queued"}
  BY <1>1, <1>2 DEF Packet, Receipt, Delivery
<1>4. \/ e.kind = "message" /\ Trusts(n, e.from) /\ OnMessage(n, e)
      \/ e.kind = "ack" /\ Trusts(n, e.from) /\ OnAck(n, e)
      \/ /\ e.kind \in {"message", "ack"} /\ ~Trusts(n, e.from)
         /\ UNCHANGED <<chat, asked, pending, seen, history, displayed>>
      \/ e.kind \in {"delivered", "failed"} /\ OnReceipt(n, e)
  BY DEF TakeEvent
<1> HIDE DEF e
<1>5. CASE e.kind = "message" /\ Trusts(n, e.from) /\ OnMessage(n, e)
  BY <1>1, <1>3, <1>5, OnMessageInv DEF Trusts
<1>6. CASE e.kind = "ack" /\ Trusts(n, e.from) /\ OnAck(n, e)
  <2>1. e.id \in displayed[e.from] /\ e.from \in Node \ {n}
    BY <1>1, <1>3, <1>6 DEF AcksAreTrue, Trusts, NodeSound, ContactsBounded
  <2>2. /\ history' = [history EXCEPT ![n] = Updated(history[n], e.id, "received")]
        /\ pending' = [pending EXCEPT ![n] = pending[n] \ {e.id}]
        /\ UNCHANGED <<chat, asked, seen, displayed>>
    BY <1>6 DEF OnAck
  <2>3. "received" \in Delivery \ {"queued"} /\ \E p \in Node \ {n} : e.id \in displayed[p]
    BY <1>3, <2>1
  <2> QED
    BY <1>1, <1>3, <2>2, <2>3, SettlingInv
<1>7. CASE UNCHANGED <<chat, asked, pending, seen, history, displayed>>
  BY <1>1, <1>3, <1>7, SettlingInv
<1>8. CASE e.kind \in {"delivered", "failed"} /\ OnReceipt(n, e)
  <2> DEFINE d == Means(e.kind)
  <2>1. d \in Delivery \ {"queued"} /\ d # "received"
    BY <1>3 DEF Means
  <2>2. /\ UNCHANGED <<chat, asked, seen, displayed>>
        /\ \/ history' = [history EXCEPT ![n] = Updated(history[n], e.id, d)]
           \/ UNCHANGED <<history, pending>>
        /\ pending' = pending \/ pending' = [pending EXCEPT ![n] = pending[n] \ {e.id}]
    BY <1>8 DEF OnReceipt
  <2> HIDE DEF d
  <2> QED
    BY <1>1, <1>3, <2>1, <2>2, SettlingInv
<1> QED
  BY <1>4, <1>5, <1>6, <1>7, <1>8

\* A message has waited for too long.
LEMMA GiveUpInv == ASSUME KnpInv, NEW n \in Node, NEW m \in Msg, GiveUp(n, m) PROVE KnpInv'
<1>1. "unconfirmed" \in Delivery \ {"queued"}
  BY DEF Delivery
<1>2. /\ pending' = [pending EXCEPT ![n] = pending[n] \ {m}]
      /\ history' = [history EXCEPT ![n] = Settled(history[n], m)]
      /\ UNCHANGED <<calls, chat, asked, contacts, seen, made, displayed, transport, wire,
                     unsettled, events>>
  BY DEF GiveUp, netVars
<1>3. CASE HasQueued(history[n], m)
  <2>1. history' = [history EXCEPT ![n] = Updated(history[n], m, "unconfirmed")]
    BY <1>2, <1>3 DEF Settled
  <2> QED
    BY <1>1, <1>2, <2>1, SettlingInv
<1>4. CASE ~HasQueued(history[n], m)
  <2>1. history' = [history EXCEPT ![n] = history[n]]
    BY <1>2, <1>4 DEF Settled
  <2>2. history' = history
    BY <2>1 DEF KnpInv, PerNode
  <2> QED
    BY <1>1, <1>2, <1>4, <2>2, SettlingInv
<1> QED
  BY <1>3, <1>4

\* The transport is gone, and all callers have an answer.
LEMMA EventsClosedInv == ASSUME KnpInv, NEW n \in Node, EventsClosed(n) PROVE KnpInv'
<1>1. /\ PerNode /\ NodeSound(n) /\ made \subseteq Msg /\ chat[n] = Loop
      /\ UNCHANGED <<asked, contacts, pending, seen, history, made, displayed, transport, events,
                     wire, unsettled>>
      /\ chat' = [chat EXCEPT ![n] = [do |-> "closed"]] /\ calls' = [calls EXCEPT ![n] = <<>>]
  BY DEF EventsClosed, KnpInv, netVars
<1>2. [do |-> "closed"] \in Work /\ Loop.do = "loop" /\ <<>> \in Seq(Call)
  BY DEF Work, Loop
<1>3. /\ chat' = [x \in Node |-> chat'[x]] /\ calls' = [x \in Node |-> calls'[x]]
      /\ chat'[n] = [do |-> "closed"] /\ calls'[n] = <<>>
      /\ \A x \in Node \ {n} : chat'[x] = chat[x] /\ calls'[x] = calls[x]
  BY <1>1, ExceptNode DEF PerNode
<1>4. PerNode' /\ \A x \in Node \ {n} : Same(x)
  BY <1>1, <1>3 DEF PerNode, Same
<1>5. NodeTyped(n)'
  BY <1>1, <1>2, <1>3 DEF NodeSound, NodeTyped
<1>6. WorkIsSound(n)'
  BY <1>3 DEF WorkIsSound
<1>7. ContactsBounded(n)' /\ PendingBounded(n)' /\ HistoryIsSound(n)'
  BY <1>1 DEF NodeSound, ContactsBounded, PendingBounded, HistoryIsSound
<1>8. NodeSound(n)'
  BY <1>5, <1>6, <1>7 DEF NodeSound
<1> QED
  BY <1>1, <1>4, <1>8, QuietStepOf

\* The transport carries out a command: what goes on the wire as an acknowledgement was shown.
LEMMA TransportCommandInv == ASSUME KnpInv, NEW n \in Node, TransportCommand(n) PROVE KnpInv'
<1> DEFINE work == chat[n]
           packet == [from |-> n, to |-> work.peer, kind |-> work.do, id |-> work.id]
<1>1. /\ PerNode /\ NodeSound(n) /\ wire \subseteq Packet /\ AcksAreTrue /\ made \subseteq Msg
      /\ asked[n] = "asked" /\ work \in Work
      /\ UNCHANGED <<events, calls, chat, contacts, pending, seen, history, made, displayed>>
  BY DEF TransportCommand, KnpInv, NodeSound, NodeTyped
<1>2. Nothing \notin {"asked", "ok", "failed"}
  BY KnpAssumption
<1>3. /\ asked' = [x \in Node |-> asked'[x]] /\ asked'[n] \in {"ok", "failed"}
      /\ \A x \in Node \ {n} : asked'[x] = asked[x]
  <2>1. \E a \in {"ok", "failed"} : asked' = [asked EXCEPT ![n] = a]
    BY DEF TransportCommand
  <2> QED
    BY <1>1, <2>1, ExceptNode DEF PerNode
<1>4. /\ transport' = [x \in Node |-> transport'[x]] /\ transport'[n] \in BOOLEAN
      /\ \A x \in Node \ {n} : transport'[x] = transport[x]
  <2>1. transport' = transport \/ transport' = [transport EXCEPT ![n] = FALSE]
    BY DEF TransportCommand
  <2> QED
    BY <1>1, <2>1, ExceptNode DEF PerNode, NodeSound, NodeTyped
<1>5. \/ UNCHANGED <<wire, unsettled>>
      \/ /\ work.do \in {"message", "ack"} /\ wire' = wire \cup {packet}
         /\ \/ UNCHANGED unsettled
            \/ /\ work.do = "message"
               /\ unsettled' = [unsettled EXCEPT ![n] = unsettled[n] \cup {work.id}]
  BY DEF TransportCommand
<1>6. work.do \in {"message", "ack"} =>
        /\ packet \in Packet /\ packet.from = n /\ packet.kind = work.do /\ packet.id = work.id
        /\ work.id \in Msg
  BY <1>1 DEF Work, Packet
<1>7. work.do = "ack" => work.id \in displayed[n]
  BY <1>1 DEF NodeSound, WorkIsSound
<1> HIDE DEF packet
<1>8. /\ unsettled' = [x \in Node |-> unsettled'[x]] /\ unsettled'[n] \subseteq Msg
      /\ \A x \in Node \ {n} : unsettled'[x] = unsettled[x]
  <2>1. CASE UNCHANGED unsettled
    BY <1>1, <2>1 DEF PerNode, NodeSound, NodeTyped
  <2>2. CASE /\ work.do = "message"
             /\ unsettled' = [unsettled EXCEPT ![n] = unsettled[n] \cup {work.id}]
    BY <1>1, <1>6, <2>2, ExceptNode DEF PerNode, NodeSound, NodeTyped
  <2> QED
    BY <1>5, <2>1, <2>2
<1>9. PerNode' /\ \A x \in Node \ {n} : Same(x)
  BY <1>1, <1>3, <1>4, <1>8 DEF PerNode, Same
<1>10. Grows /\ wire' \subseteq Packet /\ AcksAreTrue'
  <2>1. wire \subseteq wire' /\ displayed' = displayed
    BY <1>1, <1>5
  <2>2. wire' \subseteq Packet /\ \A k \in wire' : k \in wire \/ k = packet
    BY <1>1, <1>5, <1>6
  <2>3. \A k \in wire' : k.kind = "ack" => k.id \in displayed[k.from]
    BY <1>1, <1>5, <1>6, <1>7 DEF AcksAreTrue
  <2> QED
    BY <2>1, <2>2, <2>3 DEF Grows, AcksAreTrue
<1>11. events'[n] \in Seq(wire' \cup Receipt)
  <2>1. wire \cup Receipt \subseteq wire' \cup Receipt
    BY <1>10 DEF Grows
  <2> QED
    BY <1>1, <2>1, SeqMonotonic DEF NodeSound, NodeTyped
<1>12. NodeTyped(n)'
  BY <1>1, <1>2, <1>3, <1>4, <1>8, <1>11 DEF NodeSound, NodeTyped
<1>13. ContactsBounded(n)' /\ PendingBounded(n)' /\ WorkIsSound(n)' /\ HistoryIsSound(n)'
  BY <1>1 DEF NodeSound, ContactsBounded, PendingBounded, WorkIsSound, HistoryIsSound
<1>14. NodeSound(n)'
  BY <1>12, <1>13 DEF NodeSound
<1> QED
  BY <1>1, <1>9, <1>10, <1>14, StepOf

\* The transport passes an event on, if the queue has room.
LEMMA TransportEventInv == ASSUME KnpInv, NEW n \in Node, TransportEvent(n) PROVE KnpInv'
<1>1. /\ PerNode /\ NodeSound(n) /\ made \subseteq Msg /\ Len(events[n]) < EventCapacity
      /\ UNCHANGED <<transport, wire, calls, chat, asked, contacts, pending, seen, history, made,
                     displayed>>
  BY DEF TransportEvent, KnpInv, nodeVars, Wakes
<1>2. PICK e \in wire \cup Receipt :
        /\ events' = [events EXCEPT ![n] = Append(events[n], e)]
        /\ unsettled' = unsettled \/ \E m \in Msg : unsettled' = [unsettled EXCEPT ![n] = @ \ {m}]
  <2>1. CASE /\ \E packet \in wire :
                  packet.to = n /\ events' = [events EXCEPT ![n] = Append(@, packet)]
             /\ UNCHANGED unsettled
    BY <2>1
  <2>2. CASE \E m \in unsettled[n], kind \in {"delivered", "failed"} :
               /\ unsettled' = [unsettled EXCEPT ![n] = @ \ {m}]
               /\ events' = [events EXCEPT ![n] = Append(@, [kind |-> kind, id |-> m])]
    <3>1. \A m \in unsettled[n], kind \in {"delivered", "failed"} :
            m \in Msg /\ [kind |-> kind, id |-> m] \in Receipt
      BY <1>1 DEF NodeSound, NodeTyped, Receipt
    <3> QED
      BY <2>2, <3>1
  <2> QED
    BY <2>1, <2>2 DEF TransportEvent
<1>3. /\ unsettled' = [x \in Node |-> unsettled'[x]] /\ unsettled'[n] \subseteq Msg
      /\ \A x \in Node \ {n} : unsettled'[x] = unsettled[x]
  <2>1. CASE unsettled' = unsettled
    BY <1>1, <2>1 DEF PerNode, NodeSound, NodeTyped
  <2>2. ASSUME NEW m \in Msg, unsettled' = [unsettled EXCEPT ![n] = @ \ {m}]
        PROVE  /\ unsettled' = [x \in Node |-> unsettled'[x]] /\ unsettled'[n] \subseteq Msg
               /\ \A x \in Node \ {n} : unsettled'[x] = unsettled[x]
    BY <1>1, <2>2, ExceptNode DEF PerNode, NodeSound, NodeTyped
  <2> QED
    BY <1>2, <2>1, <2>2
<1>4. /\ events' = [x \in Node |-> events'[x]] /\ events'[n] = Append(events[n], e)
      /\ \A x \in Node \ {n} : events'[x] = events[x]
  BY <1>1, <1>2, ExceptNode DEF PerNode
<1>5. events'[n] \in Seq(wire \cup Receipt) /\ Len(events'[n]) <= EventCapacity
  <2>1. Len(events[n]) \in Nat /\ EventCapacity \in Nat /\ events[n] \in Seq(wire \cup Receipt)
    BY <1>1, KnpAssumption, LenProperties DEF NodeSound, NodeTyped
  <2>2. /\ Append(events[n], e) \in Seq(wire \cup Receipt)
        /\ Len(Append(events[n], e)) = Len(events[n]) + 1
    BY <2>1
  <2> QED
    BY <1>1, <1>4, <2>1, <2>2
<1>6. PerNode' /\ \A x \in Node \ {n} : Same(x)
  BY <1>1, <1>3, <1>4 DEF PerNode, Same
<1>7. NodeTyped(n)'
  BY <1>1, <1>3, <1>5 DEF NodeSound, NodeTyped
<1>8. ContactsBounded(n)' /\ PendingBounded(n)' /\ WorkIsSound(n)' /\ HistoryIsSound(n)'
  BY <1>1 DEF NodeSound, ContactsBounded, PendingBounded, WorkIsSound, HistoryIsSound
<1>9. NodeSound(n)'
  BY <1>7, <1>8 DEF NodeSound
<1> QED
  BY <1>1, <1>6, <1>9, QuietStepOf

\* The transport ends.
LEMMA TransportEndsInv == ASSUME KnpInv, NEW n \in Node, TransportEnds(n) PROVE KnpInv'
<1>1. /\ PerNode /\ NodeSound(n) /\ made \subseteq Msg
      /\ transport' = [transport EXCEPT ![n] = FALSE]
      /\ asked' = [asked EXCEPT ![n] = IF asked[n] = "asked" THEN "failed" ELSE asked[n]]
      /\ UNCHANGED <<calls, chat, contacts, pending, seen, history, made, displayed, events, wire,
                     unsettled>>
  BY DEF TransportEnds, KnpInv
<1>2. /\ transport' = [x \in Node |-> transport'[x]] /\ asked' = [x \in Node |-> asked'[x]]
      /\ transport'[n] = FALSE
      /\ asked'[n] = IF asked[n] = "asked" THEN "failed" ELSE asked[n]
      /\ \A x \in Node \ {n} : transport'[x] = transport[x] /\ asked'[x] = asked[x]
  BY <1>1, ExceptNode DEF PerNode
<1>3. PerNode' /\ \A x \in Node \ {n} : Same(x)
  BY <1>1, <1>2 DEF PerNode, Same
<1>4. Nothing \notin {"asked", "failed"}
  BY KnpAssumption
<1>5. NodeTyped(n)'
  BY <1>1, <1>2, <1>4 DEF NodeSound, NodeTyped
<1>6. ContactsBounded(n)' /\ PendingBounded(n)' /\ WorkIsSound(n)' /\ HistoryIsSound(n)'
  BY <1>1 DEF NodeSound, ContactsBounded, PendingBounded, WorkIsSound, HistoryIsSound
<1>7. NodeSound(n)'
  BY <1>5, <1>6 DEF NodeSound
<1> QED
  BY <1>1, <1>3, <1>7, QuietStepOf

\* The invariant is inductive.
LEMMA KnpNextInv == KnpInv /\ [KnpNext]_knpVars => KnpInv'
<1> SUFFICES ASSUME KnpInv, [KnpNext]_knpVars PROVE KnpInv'
  OBVIOUS
<1>1. ASSUME NEW n \in Node,
             \/ \E c \in UserCalls[n] : MakeCall(n, c)
             \/ TakeContact(n)
             \/ TakeSend(n)
             \/ TakeStop(n)
             \/ Resume(n)
             \/ TakeEvent(n)
             \/ EventsClosed(n)
             \/ \E m \in Msg : GiveUp(n, m)
             \/ TransportCommand(n)
             \/ TransportEvent(n)
             \/ TransportEnds(n)
      PROVE  KnpInv'
  BY <1>1, MakeCallInv, TakeContactInv, TakeSendInv, TakeStopInv, ResumeInv, TakeEventInv,
     EventsClosedInv, GiveUpInv, TransportCommandInv, TransportEventInv, TransportEndsInv
<1>2. CASE UNCHANGED knpVars
  <2>1. /\ UNCHANGED <<calls, chat, asked, transport, events, contacts, pending, seen, history>>
        /\ UNCHANGED <<made, displayed, wire, unsettled>>
    BY <1>2 DEF knpVars, nodeVars, netVars
  <2>2. PerNode' /\ Grows /\ AcksAreTrue' /\ made' \subseteq Msg /\ wire' \subseteq Packet
    BY <2>1 DEF KnpInv, PerNode, Grows, AcksAreTrue
  <2>3. ASSUME NEW n \in Node PROVE NodeSound(n)'
    BY <2>1, <2>2, OtherNode DEF KnpInv, Same
  <2> QED
    BY <2>2, <2>3 DEF KnpInv
<1> QED
  BY <1>1, <1>2 DEF KnpNext
-----------------------------------------------------------------------------
(* What the invariant says.                                                *)

LEMMA KnpInvTypeOK == KnpInv => KnpTypeOK
<1> SUFFICES ASSUME KnpInv PROVE KnpTypeOK
  OBVIOUS
<1>1. PerNode /\ wire \subseteq Packet /\ made \subseteq Msg
  BY DEF KnpInv
<1>2. ASSUME NEW n \in Node
      PROVE  /\ calls[n] \in Seq(Call) /\ chat[n] \in Work
             /\ asked[n] \in {Nothing, "asked", "ok", "failed"} /\ transport[n] \in BOOLEAN
             /\ contacts[n] \in SUBSET Node /\ pending[n] \in SUBSET Msg
             /\ displayed[n] \in SUBSET Msg /\ unsettled[n] \in SUBSET Msg
  BY DEF KnpInv, NodeSound, NodeTyped, ContactsBounded, PendingBounded
<1>3. ASSUME NEW n \in Node
      PROVE  /\ asked[n] = Nothing <=> chat[n].do \in {"loop", "closed"}
             /\ Len(events[n]) <= EventCapacity
             /\ Cardinality(contacts[n]) <= MaxContacts /\ Cardinality(pending[n]) <= MaxPending
             /\ seen[n] \in Seq(Node \X Msg) /\ Len(seen[n]) <= MaxSeen
             /\ history[n] \in Seq(Entry) /\ Len(history[n]) <= MaxHistory
  BY DEF KnpInv, NodeSound, NodeTyped, ContactsBounded, PendingBounded, HistoryIsSound
<1>4. ASSUME NEW n \in Node PROVE events[n] \in Seq(Packet \cup Receipt)
  <2>1. events[n] \in Seq(wire \cup Receipt)
    BY DEF KnpInv, NodeSound, NodeTyped
  <2>2. wire \cup Receipt \subseteq Packet \cup Receipt
    BY <1>1
  <2> QED
    BY <2>1, <2>2, SeqMonotonic
<1>5. /\ calls \in [Node -> Seq(Call)] /\ chat \in [Node -> Work]
      /\ asked \in [Node -> {Nothing, "asked", "ok", "failed"}]
      /\ transport \in [Node -> BOOLEAN]
      /\ contacts \in [Node -> SUBSET Node] /\ pending \in [Node -> SUBSET Msg]
      /\ displayed \in [Node -> SUBSET Msg] /\ unsettled \in [Node -> SUBSET Msg]
  <2>1. /\ calls \in [Node -> Seq(Call)] /\ chat \in [Node -> Work]
        /\ asked \in [Node -> {Nothing, "asked", "ok", "failed"}]
        /\ transport \in [Node -> BOOLEAN]
    BY <1>1, <1>2 DEF PerNode
  <2>2. /\ contacts \in [Node -> SUBSET Node] /\ pending \in [Node -> SUBSET Msg]
        /\ displayed \in [Node -> SUBSET Msg] /\ unsettled \in [Node -> SUBSET Msg]
    BY <1>1, <1>2 DEF PerNode
  <2> QED
    BY <2>1, <2>2
<1> QED
  BY <1>1, <1>3, <1>4, <1>5 DEF KnpTypeOK

LEMMA KnpInvHistory == KnpInv => HistoryIsTrue /\ QueuedIsAwaited
<1>1. ASSUME KnpInv PROVE ReceivedWasShown /\ QueuedIsAwaited
  BY <1>1 DEF KnpInv, NodeSound, HistoryIsSound, ReceivedWasShown, QueuedIsAwaited, HasQueued
<1> QED
  BY <1>1, KnpInvTypeOK DEF HistoryIsTrue

\* The invariant holds in every reachable state of the chats and their transports.
THEOREM KnpInvariant == KnpSpec => []KnpInv
<1> QED
  BY KnpInitInv, KnpNextInv, PTL DEF KnpSpec

\* Every history is well formed, and a message that a chat shows as received was shown to the
\* other user: an acknowledgement that is sent, repeated, delayed or taken late is still true.
THEOREM HistoryStaysTrue == KnpSpec => []HistoryIsTrue
<1> QED
  BY KnpInvariant, KnpInvHistory, PTL

\* A message that a chat shows as queued is awaited, through lost, repeated and late receipts.
THEOREM QueuedStaysAwaited == KnpSpec => []QueuedIsAwaited
<1> QED
  BY KnpInvariant, KnpInvHistory, PTL
=============================================================================
