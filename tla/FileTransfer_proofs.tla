------------------------ MODULE FileTransfer_proofs ------------------------
(***************************************************************************)
(* Theorems about FileTransfer: the slots, the requests, the temporary     *)
(* files and the claims stay in agreement, and files are delivered as      *)
(* FileDelivery says, for every set of nodes, transfers and shares and     *)
(* every limit.                                                            *)
(*                                                                         *)
(* The sender's half rests on each transfer having one request at a time,  *)
(* tracked by whoever still sends it.  The receiver's half rests on each   *)
(* transfer passing once through its stages: offered, pending, agreed and  *)
(* received, saved.  A file with a torn chunk is abandoned: nothing of its *)
(* transfer is on its way but refusals and cancels.                        *)
(***************************************************************************)
EXTENDS FileTransfer, FiniteSetTheorems, SequenceTheorems, TLAPS

(***************************************************************************)
(* The inductive invariant: the sender's half.                             *)
(***************************************************************************)
RequestIsTyped(r) ==
  /\ r.from \in Node
  /\ r.kind \in {"Offer", "Chunk", "Complete", "Cancel", "ClaimPublic"}
  /\ OfTransfer(r) => r.id \in DOMAIN offered /\ r.to \in Node
  /\ r.kind = "Offer" => r.size = offered[r.id]
  /\ r.kind = "Chunk" => r.data \in Nat
  /\ r.kind = "Complete" => r.hash \in Nat
  /\ r.kind = "ClaimPublic" => r.turn \in Nat /\ r.turn < claimed[r.from]

\* Requests carry what their sender put in; no claim is numbered like a later one, and
\* nobody waits for a Cancel.
RequestsAreTyped ==
  /\ \A r \in tracked \cup inFlight : RequestIsTyped(r)
  /\ \A r \in tracked : r.kind # "Cancel"

OffersAreTyped ==
  /\ DOMAIN offered \subseteq Transfer
  /\ \A t \in DOMAIN offered : offered[t] \in FileSize \cup {ShareSize[s] : s \in Share}

\* The user is told how a transfer ended once it is not sent any more.
OutcomesAreTold ==
  /\ outcome = [t \in DOMAIN outcome |-> outcome[t]]
  /\ DOMAIN outcome \subseteq DOMAIN offered
  /\ \A t \in DOMAIN outcome : outcome[t] \in {"completed", "failed"}
  /\ \A n \in Node : DOMAIN outgoing[n] \cap DOMAIN outcome = {}

Slot == [peer : Node, size : Nat, sent : Nat, read : Nat]

\* A node sends no more transfers than it has slots, and each as it was offered.
SendersAreSound ==
  /\ DOMAIN outgoing = Node
  /\ \A n \in Node :
       /\ IsFiniteSet(DOMAIN outgoing[n]) /\ Cardinality(DOMAIN outgoing[n]) <= MaxTransfers
       /\ DOMAIN outgoing[n] \subseteq DOMAIN offered
       /\ \A t \in DOMAIN outgoing[n] :
            /\ outgoing[n][t] \in Slot
            /\ outgoing[n][t].size = offered[t] /\ outgoing[n][t].sent <= offered[t]
  /\ \A n, m \in Node : n # m => DOMAIN outgoing[n] \cap DOMAIN outgoing[m] = {}

\* A transfer has one request at a time, on its way or awaited.
StepsAreSingle ==
  \A r, q \in tracked \cup inFlight :
    OfTransfer(r) /\ OfTransfer(q) /\ r.id = q.id => r = q

\* What is sent is awaited, and what is awaited is sent.
StepsAreAwaited ==
  /\ \A n \in Node : \A t \in DOMAIN outgoing[n] :
       \E r \in tracked : OfTransfer(r) /\ r.from = n /\ r.id = t
  /\ \A r \in tracked :
       OfTransfer(r) => r.id \in DOMAIN outgoing[r.from] /\ r.to = outgoing[r.from][r.id].peer

SendInv ==
  /\ RequestsAreTyped /\ OffersAreTyped /\ OutcomesAreTold
  /\ SendersAreSound /\ StepsAreSingle /\ StepsAreAwaited

-----------------------------------------------------------------------------
(***************************************************************************)
(* Responses, the receiver's half and the shares.                          *)
(***************************************************************************)
Body == {Accepted, Refused, Verified} \cup {Ack(k) : k \in Nat}

\* A response answers a request still tracked and taken; Complete is said of saved files.
AnswersAreSound ==
  \A a \in answers :
    /\ a.to \in tracked \ inFlight
    /\ a.body \in Body
    /\ a.body = Verified => a.to.id \in DOMAIN saved

\* What is pending waits for the user with the channel of its offer; what is received has
\* the size announced.
ReceiversAreSound ==
  /\ DOMAIN pending = Node /\ DOMAIN incoming = Node /\ DOMAIN parts = Node
  /\ \A n \in Node :
       /\ \A t \in DOMAIN pending[n] :
            /\ t \in DOMAIN offered /\ pending[n][t].size = offered[t]
            /\ pending[n][t].channel.kind = "Offer" /\ pending[n][t].channel.id = t
       /\ IsFiniteSet(DOMAIN incoming[n]) /\ Cardinality(DOMAIN incoming[n]) <= MaxTransfers
       /\ \A t \in DOMAIN incoming[n] :
            /\ DOMAIN incoming[n][t] = {"peer", "size", "hashed"}
            /\ incoming[n][t].size = offered[t]
            /\ incoming[n][t].hashed \in Seq(Nat) /\ Received(n, t) <= offered[t]

\* A transfer is offered, pending at one node, agreed to and received at one node, and
\* saved, in that order and each once.
StagesAreOrdered ==
  /\ \A r \in inFlight :
       r.kind = "Offer" => r.id \notin agreed /\ \A n \in Node : r.id \notin DOMAIN pending[n]
  /\ \A n \in Node : DOMAIN pending[n] \cap agreed = {}
  /\ \A n, m \in Node : n # m => DOMAIN pending[n] \cap DOMAIN pending[m] = {}
  /\ \A n \in Node : DOMAIN incoming[n] \subseteq agreed \ DOMAIN saved
  /\ \A n, m \in Node : n # m => DOMAIN incoming[n] \cap DOMAIN incoming[m] = {}
  /\ DOMAIN saved \subseteq agreed /\ agreed \subseteq DOMAIN offered

\* Nothing of t is on its way, and nothing but refusals goes back to its sender.
Abandoned(t) ==
  /\ \A r \in inFlight : OfTransfer(r) => r.id # t
  /\ \A a \in answers : OfTransfer(a.to) /\ a.to.id = t => a.body = Refused

\* A temporary file holds what was hashed or belongs to an abandoned transfer.
PartsAreSound ==
  \A n \in up :
    /\ DOMAIN parts[n] = DOMAIN incoming[n]
    /\ \A t \in DOMAIN incoming[n] : parts[n][t] = incoming[n][t].hashed \/ Abandoned(t)

RecvInv == ReceiversAreSound /\ StagesAreOrdered /\ PartsAreSound

\* Shares are announced, claims are of known ones, and no more was taken than claimed.
SharesAreSound ==
  /\ up \subseteq Node /\ shared \subseteq announced /\ announced \subseteq Share
  /\ DOMAIN known = Node /\ DOMAIN claims = Node
  /\ DOMAIN claimed = Node /\ DOMAIN taken = Node
  /\ \A n \in Node :
       /\ known[n] \subseteq Share /\ claims[n] \subseteq known[n] /\ claimed[n] \in Nat
       /\ IsFiniteSet(claims[n]) /\ IsFiniteSet(taken[n])
       /\ Cardinality(taken[n]) + Cardinality(claims[n]) <= claimed[n]

Inv == SendInv /\ AnswersAreSound /\ RecvInv /\ SharesAreSound

-----------------------------------------------------------------------------
(***************************************************************************)
(* Lemmas about the operators.                                             *)
(***************************************************************************)
\* A free slot holds one more entry within the limit.
LEMMA PutWithinLimit ==
  ASSUME NEW f, NEW k, NEW v, IsFiniteSet(DOMAIN f), SlotFree(f)
  PROVE  /\ IsFiniteSet(DOMAIN Put(f, k, v))
         /\ Cardinality(DOMAIN Put(f, k, v)) <= MaxTransfers
<1>1. DOMAIN Put(f, k, v) = DOMAIN f \cup {k}
  BY DEF Put
<1>2. /\ Cardinality(DOMAIN f) \in Nat /\ Cardinality(DOMAIN f) < MaxTransfers
      /\ MaxTransfers \in Nat
  BY FS_CardinalityType, FileTransferAssumption DEF SlotFree
<1>3. IsFiniteSet(DOMAIN f \cup {k})
      /\ Cardinality(DOMAIN f \cup {k}) \in {Cardinality(DOMAIN f), Cardinality(DOMAIN f) + 1}
  BY FS_AddElement
<1> QED
  BY <1>1, <1>2, <1>3

\* A part of a finite set is no larger.
LEMMA SmallerWithinLimit ==
  ASSUME NEW S, NEW T, IsFiniteSet(S), T \subseteq S, NEW k \in Nat, Cardinality(S) <= k
  PROVE  IsFiniteSet(T) /\ Cardinality(T) <= k
<1>1. IsFiniteSet(T) /\ Cardinality(T) <= Cardinality(S)
  BY FS_Subset
<1>2. Cardinality(S) \in Nat /\ Cardinality(T) \in Nat
  BY <1>1, FS_CardinalityType
<1> QED
  BY <1>1, <1>2

\* The sizes offered are natural numbers.
LEMMA SizesAreNat == OffersAreTyped => \A t \in DOMAIN offered : offered[t] \in Nat
BY FileTransferAssumption DEF OffersAreTyped

-----------------------------------------------------------------------------
(***************************************************************************)
(* The sender's half.                                                      *)
(***************************************************************************)
\* When transfers stop being sent together with what is tracked of them, and nothing but
\* cancels gets on its way, the sender's half stays sound.
LEMMA SendersShrink ==
  ASSUME SendInv,
         offered' = offered, claimed' = claimed,
         tracked' \subseteq tracked,
         \A r \in inFlight' \ inFlight : r.kind = "Cancel" /\ r.from \in Node,
         DOMAIN outgoing' = Node,
         \A n \in Node :
           /\ DOMAIN outgoing'[n] \subseteq DOMAIN outgoing[n]
           /\ \A t \in DOMAIN outgoing'[n] : outgoing'[n][t] = outgoing[n][t],
         \A r \in tracked :
           OfTransfer(r) => (r \in tracked' <=> r.id \in DOMAIN outgoing'[r.from])
  PROVE  /\ RequestsAreTyped' /\ OffersAreTyped' /\ SendersAreSound'
         /\ StepsAreSingle' /\ StepsAreAwaited'
<1>1. RequestsAreTyped'
  <2>1. ASSUME NEW r \in tracked' \cup inFlight' PROVE RequestIsTyped(r)'
    <3>1. CASE r \in tracked \cup inFlight
      BY <3>1 DEF SendInv, RequestsAreTyped, RequestIsTyped
    <3>2. CASE r \notin tracked \cup inFlight
      BY <3>2 DEF RequestIsTyped, OfTransfer
    <3> QED
      BY <3>1, <3>2
  <2> QED
    BY <2>1 DEF SendInv, RequestsAreTyped
<1>2. OffersAreTyped'
  BY DEF SendInv, OffersAreTyped
<1>3. SendersAreSound'
  <2>1. ASSUME NEW n \in Node
        PROVE  /\ IsFiniteSet(DOMAIN outgoing'[n])
               /\ Cardinality(DOMAIN outgoing'[n]) <= MaxTransfers
    BY SmallerWithinLimit, FileTransferAssumption DEF SendInv, SendersAreSound
  <2> QED
    BY <2>1 DEF SendInv, SendersAreSound
<1>4. StepsAreSingle'
  BY DEF SendInv, StepsAreSingle, OfTransfer
<1>5. StepsAreAwaited'
  <2>1. ASSUME NEW n \in Node, NEW t \in DOMAIN outgoing'[n]
        PROVE  \E r \in tracked' : OfTransfer(r) /\ r.from = n /\ r.id = t
    <3>1. PICK r \in tracked : OfTransfer(r) /\ r.from = n /\ r.id = t
      BY DEF SendInv, StepsAreAwaited
    <3> QED
      BY <3>1
  <2>2. ASSUME NEW r \in tracked', OfTransfer(r)
        PROVE  r.id \in DOMAIN outgoing'[r.from] /\ r.to = outgoing'[r.from][r.id].peer
    <3>1. r.from \in Node
      BY DEF SendInv, RequestsAreTyped, RequestIsTyped
    <3> QED
      BY <2>2, <3>1 DEF SendInv, StepsAreAwaited
  <2> QED
    BY <2>1, <2>2 DEF StepsAreAwaited
<1> QED
  BY <1>1, <1>2, <1>3, <1>4, <1>5

\* Nothing is sent anew and nothing stops: the sender's half stays as it was.
LEMMA SendersRest ==
  ASSUME SendInv, UNCHANGED sending, claimed' = claimed,
         tracked' \subseteq tracked,
         \A r \in tracked : OfTransfer(r) => r \in tracked',
         \A r \in inFlight' \ inFlight : r.kind = "Cancel" /\ r.from \in Node
  PROVE  SendInv'
<1>1. outgoing' = outgoing /\ offered' = offered /\ outcome' = outcome
  BY DEF sending
<1>2. \A r \in tracked : OfTransfer(r) => r.id \in DOMAIN outgoing[r.from]
  BY DEF SendInv, StepsAreAwaited
<1>3. DOMAIN outgoing = Node
  BY DEF SendInv, SendersAreSound
<1>4. OutcomesAreTold'
  BY <1>1 DEF SendInv, OutcomesAreTold
<1>5. /\ RequestsAreTyped' /\ OffersAreTyped' /\ SendersAreSound'
      /\ StepsAreSingle' /\ StepsAreAwaited'
  BY <1>1, <1>2, <1>3, SendersShrink
<1> QED
  BY <1>4, <1>5 DEF SendInv

\* The users of n are told about the transfers they still send, and only about those.
LEMMA StopTells ==
  ASSUME SendInv, NEW n \in Node, NEW T, NEW result \in {"completed", "failed"},
         StopSending(n, T, result), offered' = offered
  PROVE  /\ OutcomesAreTold'
         /\ DOMAIN outgoing' = Node
         /\ \A m \in Node :
              /\ DOMAIN outgoing'[m] = DOMAIN outgoing[m] \ {t \in T : m = n}
              /\ \A t \in DOMAIN outgoing'[m] : outgoing'[m][t] = outgoing[m][t]
<1> DEFINE S == T \cap DOMAIN outgoing[n]
<1>1. DOMAIN outgoing = Node
  BY DEF SendInv, SendersAreSound
<1>2. outgoing' = [outgoing EXCEPT ![n] = Drop(@, T)]
      /\ outcome' = [t \in DOMAIN outcome \cup S |-> IF t \in S THEN result ELSE outcome[t]]
  BY DEF StopSending, Tell
<1>3. ASSUME NEW m \in Node
      PROVE  /\ DOMAIN outgoing'[m] = DOMAIN outgoing[m] \ {t \in T : m = n}
             /\ \A t \in DOMAIN outgoing'[m] : outgoing'[m][t] = outgoing[m][t]
  <2>1. CASE m = n
    <3>1. outgoing'[m] = Drop(outgoing[m], T)
      BY <1>1, <1>2, <2>1
    <3> QED
      BY <2>1, <3>1 DEF Drop
  <2>2. CASE m # n
    BY <1>1, <1>2, <2>2
  <2> QED
    BY <2>1, <2>2
<1>4. DOMAIN outgoing' = Node
  BY <1>1, <1>2
<1>5. OutcomesAreTold'
  <2>1. outcome' = [t \in DOMAIN outcome' |-> outcome'[t]]
    BY <1>2
  <2>2. DOMAIN outcome' \subseteq DOMAIN offered
        /\ \A t \in DOMAIN outcome' : outcome'[t] \in {"completed", "failed"}
    BY <1>2 DEF SendInv, SendersAreSound, OutcomesAreTold
  <2>3. ASSUME NEW m \in Node PROVE DOMAIN outgoing'[m] \cap DOMAIN outcome' = {}
    <3>1. DOMAIN outcome' = DOMAIN outcome \cup S
      BY <1>2
    <3>2. DOMAIN outgoing[m] \cap DOMAIN outcome = {}
      BY DEF SendInv, OutcomesAreTold
    <3>3. m # n => DOMAIN outgoing[m] \cap S = {}
      BY DEF SendInv, SendersAreSound
    <3> QED
      BY <1>3, <3>1, <3>2, <3>3
  <2> QED
    BY <2>1, <2>2, <2>3 DEF OutcomesAreTold
<1> QED
  BY <1>3, <1>4, <1>5

\* The request whose outcome is known stops its transfer.
LEMMA FinishSends ==
  ASSUME SendInv, NEW r \in tracked, OfTransfer(r),
         NEW result \in {"completed", "failed"}, Finish(r, result),
         UNCHANGED <<offered, claimed>>
  PROVE  SendInv'
<1>1. r.from \in Node
  BY DEF SendInv, RequestsAreTyped, RequestIsTyped
<1>2. StopSending(r.from, {r.id}, result) /\ inFlight' = inFlight /\ tracked' = tracked \ {r}
  BY DEF Finish, Conclude
<1>3. /\ OutcomesAreTold'
      /\ DOMAIN outgoing' = Node
      /\ \A m \in Node :
           /\ DOMAIN outgoing'[m] = DOMAIN outgoing[m] \ {t \in {r.id} : m = r.from}
           /\ \A t \in DOMAIN outgoing'[m] : outgoing'[m][t] = outgoing[m][t]
  BY <1>1, <1>2, StopTells
<1>4. ASSUME NEW q \in tracked, OfTransfer(q)
      PROVE  q \in tracked' <=> q.id \in DOMAIN outgoing'[q.from]
  <2>1. q.from \in Node /\ q.id \in DOMAIN outgoing[q.from]
    BY <1>4 DEF SendInv, RequestsAreTyped, RequestIsTyped, StepsAreAwaited
  <2>2. q.id = r.id => q = r
    BY <1>4 DEF SendInv, StepsAreSingle
  <2> QED
    BY <1>2, <1>3, <2>1, <2>2
<1>5. /\ RequestsAreTyped' /\ OffersAreTyped' /\ SendersAreSound'
      /\ StepsAreSingle' /\ StepsAreAwaited'
  BY <1>2, <1>3, <1>4, SendersShrink
<1> QED
  BY <1>3, <1>5 DEF SendInv

\* A request is tracked unless its transfer has stopped being sent.
LEMMA UntrackedSends ==
  ASSUME SendInv, NEW n \in Node, NEW T, StopSending(n, T, "failed"),
         tracked' = Untracked(n, T), UNCHANGED <<offered, claimed>>,
         \A r \in inFlight' \ inFlight : r.kind = "Cancel" /\ r.from \in Node
  PROVE  SendInv'
<1>1. /\ OutcomesAreTold'
      /\ DOMAIN outgoing' = Node
      /\ \A m \in Node :
           /\ DOMAIN outgoing'[m] = DOMAIN outgoing[m] \ {t \in T : m = n}
           /\ \A t \in DOMAIN outgoing'[m] : outgoing'[m][t] = outgoing[m][t]
  BY StopTells
<1>2. tracked' \subseteq tracked
  BY DEF Untracked
<1>3. ASSUME NEW q \in tracked, OfTransfer(q)
      PROVE  q \in tracked' <=> q.id \in DOMAIN outgoing'[q.from]
  <2>1. q.from \in Node /\ q.id \in DOMAIN outgoing[q.from]
    BY <1>3 DEF SendInv, RequestsAreTyped, RequestIsTyped, StepsAreAwaited
  <2> QED
    BY <1>1, <2>1 DEF Untracked
<1>4. /\ RequestsAreTyped' /\ OffersAreTyped' /\ SendersAreSound'
      /\ StepsAreSingle' /\ StepsAreAwaited'
  BY <1>1, <1>2, <1>3, SendersShrink
<1> QED
  BY <1>1, <1>4 DEF SendInv

\* The next request of a transfer takes the place of the one answered.
LEMMA NextStepSends ==
  ASSUME SendInv, NEW r \in tracked \ inFlight, OfTransfer(r),
         NEW o \in Slot, o.peer = r.to, o.size = offered[r.id], o.sent <= o.size,
         NEW q, OfTransfer(q), q.id = r.id, q.from = r.from, q.to = o.peer,
         q.kind = "Chunk" => q.data \in Nat, q.kind = "Complete" => q.hash \in Nat,
         q.kind \in {"Chunk", "Complete"},
         outgoing' = [outgoing EXCEPT ![r.from][r.id] = o], Conclude(r, {q}),
         UNCHANGED <<offered, outcome, claimed>>
  PROVE  SendInv'
<1>1. /\ r.from \in Node /\ r.to \in Node /\ r.id \in DOMAIN offered
      /\ DOMAIN outgoing = Node /\ r.id \in DOMAIN outgoing[r.from]
  BY DEF SendInv, RequestsAreTyped, RequestIsTyped, StepsAreAwaited, SendersAreSound
<1>2. /\ tracked' = (tracked \ {r}) \cup {q} /\ inFlight' = inFlight \cup {q}
  BY DEF Conclude
<1>3. /\ DOMAIN outgoing' = Node
      /\ \A m \in Node :
           /\ DOMAIN outgoing'[m] = DOMAIN outgoing[m]
           /\ \A t \in DOMAIN outgoing[m] :
                outgoing'[m][t] = IF m = r.from /\ t = r.id THEN o ELSE outgoing[m][t]
  BY <1>1
<1>4. RequestsAreTyped'
  <2>1. RequestIsTyped(q)'
    BY <1>1 DEF RequestIsTyped, OfTransfer
  <2>2. ASSUME NEW x \in tracked \cup inFlight PROVE RequestIsTyped(x)'
    BY DEF SendInv, RequestsAreTyped, RequestIsTyped
  <2> QED
    BY <1>2, <2>1, <2>2 DEF SendInv, RequestsAreTyped
<1>5. OffersAreTyped'
  BY DEF SendInv, OffersAreTyped
<1>6. OutcomesAreTold'
  BY <1>3 DEF SendInv, OutcomesAreTold
<1>7. SendersAreSound'
  <2>1. ASSUME NEW m \in Node
        PROVE  /\ IsFiniteSet(DOMAIN outgoing'[m])
               /\ Cardinality(DOMAIN outgoing'[m]) <= MaxTransfers
               /\ DOMAIN outgoing'[m] \subseteq DOMAIN offered
    BY <1>3 DEF SendInv, SendersAreSound
  <2>2. ASSUME NEW m \in Node, NEW t \in DOMAIN outgoing'[m]
        PROVE  /\ outgoing'[m][t] \in Slot
               /\ outgoing'[m][t].size = offered[t] /\ outgoing'[m][t].sent <= offered[t]
    BY <1>3 DEF SendInv, SendersAreSound
  <2>3. \A n, m \in Node : n # m => DOMAIN outgoing'[n] \cap DOMAIN outgoing'[m] = {}
    BY <1>3 DEF SendInv, SendersAreSound
  <2> QED
    BY <1>3, <2>1, <2>2, <2>3 DEF SendersAreSound
<1>8. StepsAreSingle'
  <2>1. ASSUME NEW x \in tracked' \cup inFlight', OfTransfer(x), x.id = q.id PROVE x = q
    BY <1>2, <2>1 DEF SendInv, StepsAreSingle
  <2>2. ASSUME NEW x \in tracked' \cup inFlight', NEW y \in tracked' \cup inFlight',
               OfTransfer(x), OfTransfer(y), x.id = y.id
        PROVE  x = y
    BY <1>2, <2>1, <2>2 DEF SendInv, StepsAreSingle
  <2> QED
    BY <2>2 DEF StepsAreSingle
<1>9. StepsAreAwaited'
  <2>1. ASSUME NEW n \in Node, NEW t \in DOMAIN outgoing'[n]
        PROVE  \E x \in tracked' : OfTransfer(x) /\ x.from = n /\ x.id = t
    <3>1. PICK x \in tracked : OfTransfer(x) /\ x.from = n /\ x.id = t
      BY <1>3 DEF SendInv, StepsAreAwaited
    <3> QED
      BY <1>2, <3>1
  <2>2. ASSUME NEW x \in tracked', OfTransfer(x)
        PROVE  x.id \in DOMAIN outgoing'[x.from] /\ x.to = outgoing'[x.from][x.id].peer
    <3>1. CASE x = q
      BY <1>1, <1>3, <3>1
    <3>2. CASE x # q
      <4>1. x \in tracked /\ x # r
        BY <1>2, <3>2
      <4>2. /\ x.from \in Node /\ x.id \in DOMAIN outgoing[x.from]
            /\ x.to = outgoing[x.from][x.id].peer
        BY <2>2, <4>1 DEF SendInv, RequestsAreTyped, RequestIsTyped, StepsAreAwaited
      <4>3. x.id # r.id
        BY <2>2, <4>1 DEF SendInv, StepsAreSingle
      <4> QED
        BY <1>3, <4>2, <4>3
    <3> QED
      BY <3>1, <3>2
  <2> QED
    BY <2>1, <2>2 DEF StepsAreAwaited
<1> QED
  BY <1>4, <1>5, <1>6, <1>7, <1>8, <1>9 DEF SendInv

\* A transfer under a new identifier is offered by a node with a free slot.
LEMMA NewOfferSends ==
  ASSUME SendInv, NEW n \in Node, NEW m \in Node, NEW t \in Transfer \ DOMAIN offered, NEW s,
         NEW size \in FileSize \cup {ShareSize[x] : x \in Share}, SlotFree(outgoing[n]),
         outgoing' = [outgoing EXCEPT ![n] = Put(@, t, Waiting(m, size))],
         offered' = Put(offered, t, size),
         tracked' = tracked \cup {Offer(n, m, t, size, s)},
         \A r \in inFlight' : r \in inFlight \/ r = Offer(n, m, t, size, s),
         UNCHANGED <<outcome, claimed>>
  PROVE  SendInv'
<1> DEFINE q == Offer(n, m, t, size, s)
           w == Waiting(m, size)
<1>1. q.kind = "Offer" /\ q.from = n /\ q.to = m /\ q.id = t /\ q.size = size /\ OfTransfer(q)
  BY DEF Offer, OfTransfer
<1>2. size \in Nat
  BY FileTransferAssumption
<1>3. w \in Slot /\ w.size = size /\ w.sent = 0 /\ w.peer = m
  BY <1>2 DEF Waiting, Slot
<1> HIDE DEF q, w
<1>4. tracked' = tracked \cup {q} /\ \A r \in inFlight' : r \in inFlight \/ r = q
  BY DEF q
<1>5. /\ DOMAIN offered' = DOMAIN offered \cup {t} /\ offered'[t] = size
      /\ \A x \in DOMAIN offered : offered'[x] = offered[x]
  <2>1. /\ DOMAIN Put(offered, t, size) = DOMAIN offered \cup {t}
        /\ Put(offered, t, size)[t] = size
        /\ \A x \in DOMAIN offered \ {t} : Put(offered, t, size)[x] = offered[x]
    BY DEF Put
  <2> QED
    BY <2>1
<1>6. DOMAIN outgoing = Node
  BY DEF SendInv, SendersAreSound
<1>7. outgoing'[n] = Put(outgoing[n], t, w) /\ DOMAIN outgoing' = Node
      /\ \A k \in Node \ {n} : outgoing'[k] = outgoing[k]
  BY <1>6 DEF w
<1>8. /\ DOMAIN outgoing'[n] = DOMAIN outgoing[n] \cup {t} /\ outgoing'[n][t] = w
      /\ \A x \in DOMAIN outgoing[n] \ {t} : outgoing'[n][x] = outgoing[n][x]
  <2>1. /\ DOMAIN Put(outgoing[n], t, w) = DOMAIN outgoing[n] \cup {t}
        /\ Put(outgoing[n], t, w)[t] = w
        /\ \A x \in DOMAIN outgoing[n] \ {t} : Put(outgoing[n], t, w)[x] = outgoing[n][x]
    BY DEF Put
  <2> QED
    BY <1>7, <2>1
<1>9. \A k \in Node : DOMAIN outgoing[k] \subseteq DOMAIN offered
  BY DEF SendInv, SendersAreSound
<1>10. \A r \in tracked \cup inFlight : OfTransfer(r) => r.id \in DOMAIN offered /\ r.id # t
  BY DEF SendInv, RequestsAreTyped, RequestIsTyped
<1>11. RequestsAreTyped'
  <2>1. RequestIsTyped(q)'
    BY <1>1, <1>5 DEF RequestIsTyped
  <2>2. ASSUME NEW r \in tracked \cup inFlight PROVE RequestIsTyped(r)'
    BY <1>5, <1>10 DEF SendInv, RequestsAreTyped, RequestIsTyped, OfTransfer
  <2> QED
    BY <1>1, <1>4, <2>1, <2>2 DEF SendInv, RequestsAreTyped
<1>12. OffersAreTyped'
  BY <1>5 DEF SendInv, OffersAreTyped
<1>13. OutcomesAreTold'
  <2>1. t \notin DOMAIN outcome
    BY DEF SendInv, OutcomesAreTold
  <2> QED
    BY <1>5, <1>7, <1>8, <2>1 DEF SendInv, OutcomesAreTold
<1>14. SendersAreSound'
  <2>1. ASSUME NEW k \in Node
        PROVE  /\ IsFiniteSet(DOMAIN outgoing'[k])
               /\ Cardinality(DOMAIN outgoing'[k]) <= MaxTransfers
    <3>1. CASE k = n
      BY <1>7, <3>1, PutWithinLimit DEF SendInv, SendersAreSound
    <3>2. CASE k # n
      BY <1>7, <3>2 DEF SendInv, SendersAreSound
    <3> QED
      BY <3>1, <3>2
  <2>2. ASSUME NEW k \in Node
        PROVE  DOMAIN outgoing'[k] \subseteq DOMAIN offered'
    BY <1>5, <1>7, <1>8, <1>9
  <2>3. ASSUME NEW k \in Node, NEW x \in DOMAIN outgoing'[k]
        PROVE  /\ outgoing'[k][x] \in Slot
               /\ outgoing'[k][x].size = offered'[x] /\ outgoing'[k][x].sent <= offered'[x]
    <3>1. CASE k = n /\ x = t
      BY <1>2, <1>3, <1>5, <1>8, <3>1
    <3>2. CASE ~(k = n /\ x = t)
      <4>1. x \in DOMAIN outgoing[k] /\ outgoing'[k][x] = outgoing[k][x] /\ x \in DOMAIN offered
        BY <1>7, <1>8, <1>9, <3>2
      <4> QED
        BY <1>5, <4>1 DEF SendInv, SendersAreSound
    <3> QED
      BY <3>1, <3>2
  <2>4. ASSUME NEW k \in Node, NEW l \in Node, k # l
        PROVE  DOMAIN outgoing'[k] \cap DOMAIN outgoing'[l] = {}
    BY <1>7, <1>8, <1>9, <2>4 DEF SendInv, SendersAreSound
  <2> QED
    BY <1>7, <2>1, <2>2, <2>3, <2>4 DEF SendersAreSound
<1>15. StepsAreSingle'
  BY <1>1, <1>4, <1>10 DEF SendInv, StepsAreSingle
<1>16. StepsAreAwaited'
  <2>1. ASSUME NEW k \in Node, NEW x \in DOMAIN outgoing'[k]
        PROVE  \E r \in tracked' : OfTransfer(r) /\ r.from = k /\ r.id = x
    <3>1. CASE k = n /\ x = t
      BY <1>1, <1>4, <3>1
    <3>2. CASE ~(k = n /\ x = t)
      <4>1. x \in DOMAIN outgoing[k]
        BY <1>7, <1>8, <3>2
      <4>2. PICK r \in tracked : OfTransfer(r) /\ r.from = k /\ r.id = x
        BY <4>1 DEF SendInv, StepsAreAwaited
      <4> QED
        BY <1>4, <4>2
    <3> QED
      BY <3>1, <3>2
  <2>2. ASSUME NEW r \in tracked', OfTransfer(r)
        PROVE  r.id \in DOMAIN outgoing'[r.from] /\ r.to = outgoing'[r.from][r.id].peer
    <3>1. CASE r = q
      BY <1>1, <1>3, <1>8, <3>1
    <3>2. CASE r # q
      <4>1. r \in tracked /\ r.id # t
        BY <1>4, <1>10, <2>2, <3>2
      <4>2. /\ r.from \in Node /\ r.id \in DOMAIN outgoing[r.from]
            /\ r.to = outgoing[r.from][r.id].peer
        BY <2>2, <4>1 DEF SendInv, RequestsAreTyped, RequestIsTyped, StepsAreAwaited
      <4> QED
        BY <1>7, <1>8, <4>1, <4>2
    <3> QED
      BY <3>1, <3>2
  <2> QED
    BY <2>1, <2>2 DEF StepsAreAwaited
<1> QED
  BY <1>11, <1>12, <1>13, <1>14, <1>15, <1>16 DEF SendInv

\* A claim is a request with a number of its own and part of no transfer.
LEMMA NewClaimSends ==
  ASSUME SendInv, NEW n \in Node, NEW s, Sharer[s] \in Node,
         DOMAIN claimed = Node, claimed[n] \in Nat,
         claimed' = [claimed EXCEPT ![n] = @ + 1],
         Ask(ClaimPublic(n, s)), UNCHANGED sending
  PROVE  SendInv'
<1> SUFFICES ASSUME NEW q, q = ClaimPublic(n, s) PROVE SendInv'
  OBVIOUS
<1>1. /\ q.kind = "ClaimPublic" /\ q.from = n /\ q.to = Sharer[s] /\ q.turn = claimed[n]
      /\ ~OfTransfer(q)
  BY DEF ClaimPublic, OfTransfer
<1>2. tracked' = tracked \cup {q} /\ inFlight' = inFlight \cup {q}
  BY DEF Ask
<1>3. outgoing' = outgoing /\ offered' = offered /\ outcome' = outcome
  BY DEF sending
<1>4. claimed'[n] = claimed[n] + 1 /\ \A m \in Node \ {n} : claimed'[m] = claimed[m]
  OBVIOUS
<1>5. RequestsAreTyped'
  <2>1. RequestIsTyped(q)'
    BY <1>1, <1>4 DEF RequestIsTyped, OfTransfer
  <2>2. ASSUME NEW r \in tracked \cup inFlight PROVE RequestIsTyped(r)'
    <3>1. RequestIsTyped(r)
      BY DEF SendInv, RequestsAreTyped
    <3> QED
      BY <1>3, <1>4, <3>1 DEF RequestIsTyped
  <2>3. \A r \in tracked' : r.kind # "Cancel"
    BY <1>1, <1>2 DEF SendInv, RequestsAreTyped
  <2> QED
    BY <1>2, <2>1, <2>2, <2>3 DEF RequestsAreTyped
<1>6. OffersAreTyped' /\ OutcomesAreTold' /\ SendersAreSound'
  BY <1>3 DEF SendInv, OffersAreTyped, OutcomesAreTold, SendersAreSound
<1>7. StepsAreSingle'
  BY <1>1, <1>2 DEF SendInv, StepsAreSingle
<1>8. StepsAreAwaited'
  BY <1>1, <1>2, <1>3 DEF SendInv, StepsAreAwaited
<1> QED
  BY <1>5, <1>6, <1>7, <1>8 DEF SendInv

-----------------------------------------------------------------------------
(***************************************************************************)
(* Responses.                                                              *)
(***************************************************************************)
\* Responses stay sound when each is an old one still tracked, or a new sound one, and no
\* request they answer gets on its way again.
LEMMA AnswersKept ==
  ASSUME AnswersAreSound,
         DOMAIN saved \subseteq DOMAIN saved',
         \A a \in answers' :
           \/ a \in answers /\ a.to \in tracked' /\ a.to \notin inFlight' \ inFlight
           \/ /\ a.to \in tracked' \ inFlight' /\ a.body \in Body
              /\ a.body = Verified => a.to.id \in DOMAIN saved'
  PROVE  AnswersAreSound'
<1>1. ASSUME NEW a \in answers'
      PROVE  /\ a.to \in tracked' \ inFlight' /\ a.body \in Body
             /\ a.body = Verified => a.to.id \in DOMAIN saved'
  BY DEF AnswersAreSound
<1> QED
  BY <1>1 DEF AnswersAreSound

\* A handler answers the request it took, if its sender still waits.
LEMMA ReplyAnswers ==
  ASSUME AnswersAreSound, NEW r, NEW bodies \in SUBSET Body, Reply(r, bodies),
         r \notin inFlight', inFlight' \subseteq inFlight, tracked' = tracked,
         DOMAIN saved \subseteq DOMAIN saved',
         Verified \in bodies => r.id \in DOMAIN saved'
  PROVE  /\ AnswersAreSound'
         /\ \A a \in answers' \ answers : a.to = r /\ a.body \in bodies
<1>1. ASSUME NEW a \in answers'
      PROVE  a \in answers \/ (r \in tracked /\ a.to = r /\ a.body \in bodies)
  BY DEF Reply
<1>2. AnswersAreSound'
  <2>1. \A a \in answers : a.to \in tracked
    BY DEF AnswersAreSound
  <2> QED
    BY <1>1, <2>1, AnswersKept
<1> QED
  BY <1>1, <1>2

\* Responses to what is not tracked any more are gone.
LEMMA UntrackedAnswers ==
  ASSUME AnswersAreSound, answers' \subseteq AnswersTo(tracked'), tracked' \subseteq tracked,
         \A r \in inFlight' \ inFlight : r \notin tracked, saved' = saved
  PROVE  AnswersAreSound' /\ answers' \subseteq answers
<1>1. \A a \in answers' : a \in answers /\ a.to \in tracked' /\ a.to \in tracked
  BY DEF AnswersTo
<1> QED
  BY <1>1, AnswersKept

-----------------------------------------------------------------------------
(***************************************************************************)
(* The receiver's half.                                                    *)
(***************************************************************************)
\* What nodes have received of t is what they hashed.
Intact(t) == \A n \in up : t \in DOMAIN incoming[n] => parts[n][t] = incoming[n][t].hashed

\* Transfers that stop being pending or received, new requests of intact ones, refusals
\* and responses to intact ones leave the receiver's half sound.
LEMMA ReceiversShrink ==
  ASSUME RecvInv, up' \subseteq up, up \subseteq Node, agreed' = agreed, saved' = saved,
         DOMAIN offered \subseteq DOMAIN offered',
         \A t \in DOMAIN offered : offered'[t] = offered[t],
         DOMAIN pending' = Node, DOMAIN incoming' = Node, DOMAIN parts' = Node,
         \A n \in Node :
           /\ DOMAIN pending'[n] \subseteq DOMAIN pending[n]
           /\ \A t \in DOMAIN pending'[n] : pending'[n][t] = pending[n][t]
           /\ DOMAIN incoming'[n] \subseteq DOMAIN incoming[n]
           /\ \A t \in DOMAIN incoming'[n] : incoming'[n][t] = incoming[n][t],
         \A n \in up' :
           /\ DOMAIN parts'[n] = DOMAIN incoming'[n]
           /\ \A t \in DOMAIN incoming'[n] : parts'[n][t] = parts[n][t],
         \A r \in inFlight' \ inFlight :
           OfTransfer(r) => Intact(r.id) /\ (r.kind = "Offer" => r.id \notin DOMAIN offered),
         \A a \in answers' \ answers :
           OfTransfer(a.to) => a.body = Refused \/ Intact(a.to.id)
  PROVE  RecvInv'
<1>1. ReceiversAreSound'
  <2>1. ASSUME NEW n \in Node, NEW t \in DOMAIN pending'[n]
        PROVE  /\ t \in DOMAIN offered' /\ pending'[n][t].size = offered'[t]
               /\ pending'[n][t].channel.kind = "Offer" /\ pending'[n][t].channel.id = t
    BY DEF RecvInv, ReceiversAreSound
  <2>2. ASSUME NEW n \in Node
        PROVE  /\ IsFiniteSet(DOMAIN incoming'[n])
               /\ Cardinality(DOMAIN incoming'[n]) <= MaxTransfers
    BY SmallerWithinLimit, FileTransferAssumption DEF RecvInv, ReceiversAreSound
  <2>3. ASSUME NEW n \in Node, NEW t \in DOMAIN incoming'[n]
        PROVE  /\ DOMAIN incoming'[n][t] = {"peer", "size", "hashed"}
               /\ incoming'[n][t].size = offered'[t]
               /\ incoming'[n][t].hashed \in Seq(Nat)
               /\ Len(incoming'[n][t].hashed) <= offered'[t]
    <3>1. t \in DOMAIN incoming[n] /\ incoming'[n][t] = incoming[n][t]
      OBVIOUS
    <3>2. t \in DOMAIN offered
      BY <3>1 DEF RecvInv, StagesAreOrdered
    <3> QED
      BY <3>1, <3>2 DEF RecvInv, ReceiversAreSound, Received
  <2> QED
    BY <2>1, <2>2, <2>3 DEF ReceiversAreSound, Received
<1>2. StagesAreOrdered'
  <2>1. ASSUME NEW r \in inFlight', r.kind = "Offer"
        PROVE  r.id \notin agreed /\ \A n \in Node : r.id \notin DOMAIN pending'[n]
    <3>1. CASE r \in inFlight
      BY <2>1, <3>1 DEF RecvInv, StagesAreOrdered
    <3>2. CASE r \notin inFlight
      <4>1. r.id \notin DOMAIN offered
        BY <2>1, <3>2 DEF OfTransfer
      <4> QED
        BY <4>1 DEF RecvInv, StagesAreOrdered, ReceiversAreSound
    <3> QED
      BY <3>1, <3>2
  <2>2. /\ \A n \in Node : DOMAIN pending'[n] \cap agreed = {}
        /\ \A n, m \in Node : n # m => DOMAIN pending'[n] \cap DOMAIN pending'[m] = {}
    BY DEF RecvInv, StagesAreOrdered
  <2>3. /\ \A n \in Node : DOMAIN incoming'[n] \subseteq agreed \ DOMAIN saved
        /\ \A n, m \in Node : n # m => DOMAIN incoming'[n] \cap DOMAIN incoming'[m] = {}
    BY DEF RecvInv, StagesAreOrdered
  <2>4. DOMAIN saved \subseteq agreed /\ agreed \subseteq DOMAIN offered'
    BY DEF RecvInv, StagesAreOrdered
  <2> QED
    BY <2>1, <2>2, <2>3, <2>4 DEF StagesAreOrdered
<1>3. PartsAreSound'
  <2>1. ASSUME NEW n \in up', NEW t \in DOMAIN incoming'[n]
        PROVE  parts'[n][t] = incoming'[n][t].hashed \/ Abandoned(t)'
    <3>1. n \in up /\ n \in Node
      OBVIOUS
    <3>2. /\ t \in DOMAIN incoming[n] /\ incoming'[n][t] = incoming[n][t]
          /\ parts'[n][t] = parts[n][t]
      BY <3>1
    <3>3. CASE parts[n][t] = incoming[n][t].hashed
      BY <3>2, <3>3
    <3>4. CASE parts[n][t] # incoming[n][t].hashed
      <4>1. Abandoned(t) /\ ~Intact(t)
        BY <3>1, <3>2, <3>4 DEF RecvInv, PartsAreSound, Intact
      <4>2. \A r \in inFlight' : OfTransfer(r) => r.id # t
        BY <4>1 DEF Abandoned
      <4>3. \A a \in answers' : OfTransfer(a.to) /\ a.to.id = t => a.body = Refused
        BY <4>1 DEF Abandoned
      <4> QED
        BY <4>2, <4>3 DEF Abandoned
    <3> QED
      BY <3>3, <3>4
  <2> QED
    BY <2>1 DEF PartsAreSound
<1> QED
  BY <1>1, <1>2, <1>3 DEF RecvInv

\* The same when nothing of the receiver changes at all.
LEMMA ReceiversRest ==
  ASSUME RecvInv, UNCHANGED <<up, pending, incoming, parts, agreed, saved>>, up \subseteq Node,
         DOMAIN offered \subseteq DOMAIN offered',
         \A t \in DOMAIN offered : offered'[t] = offered[t],
         \A r \in inFlight' \ inFlight :
           OfTransfer(r) => Intact(r.id) /\ (r.kind = "Offer" => r.id \notin DOMAIN offered),
         \A a \in answers' \ answers :
           OfTransfer(a.to) => a.body = Refused \/ Intact(a.to.id)
  PROVE  RecvInv'
<1>1. DOMAIN pending = Node /\ DOMAIN incoming = Node /\ DOMAIN parts = Node
  BY DEF RecvInv, ReceiversAreSound
<1>2. \A n \in up : DOMAIN parts[n] = DOMAIN incoming[n]
  BY DEF RecvInv, PartsAreSound
<1> QED
  BY <1>1, <1>2, ReceiversShrink

\* An offer that is still on its way, pending or unknown is of an intact transfer, since
\* nobody receives that transfer.
LEMMA NotAgreedIsIntact ==
  ASSUME RecvInv, up \subseteq Node, NEW t, t \notin agreed
  PROVE  Intact(t)
BY DEF RecvInv, StagesAreOrdered, Intact

\* A transfer of which something is on its way, or is to be answered with more than a
\* refusal, is intact.
LEMMA OnItsWayIsIntact ==
  ASSUME RecvInv
  PROVE  /\ \A r \in inFlight : OfTransfer(r) => Intact(r.id)
         /\ \A a \in answers : OfTransfer(a.to) /\ a.body # Refused => Intact(a.to.id)
BY DEF RecvInv, PartsAreSound, Intact, Abandoned

\* An offer that asks the user becomes pending.
LEMMA OfferPends ==
  ASSUME RecvInv, NEW r \in inFlight, r.kind = "Offer", r.to \in Node, r.id \in DOMAIN offered,
         r.size = offered[r.id],
         \A q \in inFlight : OfTransfer(q) /\ q.id = r.id => q = r,
         pending' = [pending EXCEPT ![r.to] =
                       Put(@, r.id, [peer |-> r.from, size |-> r.size, channel |-> r])],
         inFlight' = inFlight \ {r},
         UNCHANGED <<up, offered, incoming, parts, agreed, saved, answers>>
  PROVE  RecvInv'
<1>1. /\ DOMAIN pending = Node
      /\ r.id \notin agreed /\ \A n \in Node : r.id \notin DOMAIN pending[n]
  BY DEF RecvInv, ReceiversAreSound, StagesAreOrdered
<1> DEFINE entry == [peer |-> r.from, size |-> r.size, channel |-> r]
<1>2. entry.size = offered[r.id] /\ entry.channel = r
  OBVIOUS
<1>3. pending' = [pending EXCEPT ![r.to] = Put(@, r.id, entry)]
  OBVIOUS
<1> HIDE DEF entry
<1>4. /\ DOMAIN pending' = Node
      /\ DOMAIN pending'[r.to] = DOMAIN pending[r.to] \cup {r.id}
      /\ pending'[r.to][r.id] = entry
      /\ \A t \in DOMAIN pending[r.to] : t # r.id => pending'[r.to][t] = pending[r.to][t]
      /\ \A n \in Node \ {r.to} : pending'[n] = pending[n]
  BY <1>1, <1>3 DEF Put
<1>5. ReceiversAreSound'
  <2>1. ASSUME NEW n \in Node, NEW t \in DOMAIN pending'[n]
        PROVE  /\ t \in DOMAIN offered /\ pending'[n][t].size = offered[t]
               /\ pending'[n][t].channel.kind = "Offer" /\ pending'[n][t].channel.id = t
    BY <1>1, <1>4, <1>2 DEF RecvInv, ReceiversAreSound
  <2> QED
    BY <1>4, <2>1 DEF RecvInv, ReceiversAreSound, Received
<1>6. StagesAreOrdered'
  <2>1. ASSUME NEW q \in inFlight', q.kind = "Offer"
        PROVE  q.id \notin agreed /\ \A n \in Node : q.id \notin DOMAIN pending'[n]
    <3>1. q.id # r.id
      BY <2>1 DEF OfTransfer
    <3> QED
      BY <1>4, <2>1, <3>1 DEF RecvInv, StagesAreOrdered
  <2>2. /\ \A n \in Node : DOMAIN pending'[n] \cap agreed = {}
        /\ \A n, m \in Node : n # m => DOMAIN pending'[n] \cap DOMAIN pending'[m] = {}
    BY <1>1, <1>4 DEF RecvInv, StagesAreOrdered
  <2> QED
    BY <2>1, <2>2 DEF RecvInv, StagesAreOrdered
<1>7. PartsAreSound'
  BY DEF RecvInv, PartsAreSound, Abandoned
<1> QED
  BY <1>5, <1>6, <1>7 DEF RecvInv

\* A transfer agreed to starts with an empty temporary file and nothing hashed.
LEMMA AgreedBegins ==
  ASSUME RecvInv, up \subseteq Node, NEW n \in up, NEW t \in DOMAIN offered \ agreed, NEW peer,
         offered[t] \in Nat, Begin(n, t, peer, offered[t]), SlotFree(incoming[n]),
         agreed' = agreed \cup {t}, DOMAIN pending' = Node,
         \A m \in Node :
           /\ DOMAIN pending'[m] \subseteq DOMAIN pending[m] \ {t}
           /\ \A x \in DOMAIN pending'[m] : pending'[m][x] = pending[m][x],
         inFlight' \subseteq inFlight,
         \A r \in inFlight' : r.kind = "Offer" => r.id # t,
         \A a \in answers' \ answers : OfTransfer(a.to) => a.to.id = t,
         UNCHANGED <<up, offered, saved>>
  PROVE  RecvInv'
<1> DEFINE entry == [peer |-> peer, size |-> offered[t], hashed |-> <<>>]
<1>1. /\ DOMAIN incoming = Node /\ DOMAIN parts = Node
      /\ \A m \in Node : t \notin DOMAIN incoming[m]
  BY DEF RecvInv, ReceiversAreSound, StagesAreOrdered
<1>2. /\ incoming' = [incoming EXCEPT ![n] = Put(@, t, entry)]
      /\ parts' = [parts EXCEPT ![n] = Put(@, t, <<>>)]
  BY DEF Begin
<1> SUFFICES ASSUME NEW e, e = entry PROVE RecvInv'
  OBVIOUS
<1>3. DOMAIN e = {"peer", "size", "hashed"} /\ e.size = offered[t] /\ e.hashed = <<>>
  OBVIOUS
<1>4. incoming' = [incoming EXCEPT ![n] = Put(@, t, e)]
  BY <1>2
<1> HIDE DEF entry
<1>5. /\ DOMAIN incoming' = Node
      /\ DOMAIN incoming'[n] = DOMAIN incoming[n] \cup {t} /\ incoming'[n][t] = e
      /\ \A x \in DOMAIN incoming[n] : incoming'[n][x] = incoming[n][x]
      /\ \A m \in Node \ {n} : incoming'[m] = incoming[m]
  BY <1>1, <1>4 DEF Put
<1>6. /\ DOMAIN parts' = Node
      /\ DOMAIN parts'[n] = DOMAIN parts[n] \cup {t} /\ parts'[n][t] = <<>>
      /\ \A x \in DOMAIN parts[n] : x # t => parts'[n][x] = parts[n][x]
      /\ \A m \in Node \ {n} : parts'[m] = parts[m]
  BY <1>1, <1>2 DEF Put
<1>7. ReceiversAreSound'
  <2>1. ASSUME NEW m \in Node, NEW x \in DOMAIN pending'[m]
        PROVE  /\ x \in DOMAIN offered /\ pending'[m][x].size = offered[x]
               /\ pending'[m][x].channel.kind = "Offer" /\ pending'[m][x].channel.id = x
    BY DEF RecvInv, ReceiversAreSound
  <2>2. ASSUME NEW m \in Node
        PROVE  /\ IsFiniteSet(DOMAIN incoming'[m])
               /\ Cardinality(DOMAIN incoming'[m]) <= MaxTransfers
    <3>1. CASE m = n
      <4>1. IsFiniteSet(DOMAIN incoming[n])
        BY DEF RecvInv, ReceiversAreSound
      <4>2. /\ IsFiniteSet(DOMAIN Put(incoming[n], t, e))
            /\ Cardinality(DOMAIN Put(incoming[n], t, e)) <= MaxTransfers
        BY <4>1, PutWithinLimit
      <4>3. incoming'[n] = Put(incoming[n], t, e)
        BY <1>1, <1>4
      <4> QED
        BY <3>1, <4>2, <4>3
    <3>2. CASE m # n
      BY <1>5, <3>2 DEF RecvInv, ReceiversAreSound
    <3> QED
      BY <3>1, <3>2
  <2>3. ASSUME NEW m \in Node, NEW x \in DOMAIN incoming'[m]
        PROVE  /\ DOMAIN incoming'[m][x] = {"peer", "size", "hashed"}
               /\ incoming'[m][x].size = offered[x]
               /\ incoming'[m][x].hashed \in Seq(Nat)
               /\ Len(incoming'[m][x].hashed) <= offered[x]
    <3>1. CASE m = n /\ x = t
      <4>1. <<>> \in Seq(Nat) /\ Len(<<>>) = 0
        OBVIOUS
      <4>2. incoming'[m][x] = e
        BY <1>5, <3>1
      <4>3. e.hashed \in Seq(Nat) /\ Len(e.hashed) <= offered[x]
        BY <1>3, <3>1, <4>1
      <4> QED
        BY <1>3, <3>1, <4>2, <4>3
    <3>2. CASE ~(m = n /\ x = t)
      BY <1>5, <3>2 DEF RecvInv, ReceiversAreSound, Received
    <3> QED
      BY <3>1, <3>2
  <2> QED
    BY <1>5, <1>6, <2>1, <2>2, <2>3 DEF ReceiversAreSound, Received
<1>8. StagesAreOrdered'
  <2>1. ASSUME NEW r \in inFlight', r.kind = "Offer"
        PROVE  r.id \notin agreed' /\ \A m \in Node : r.id \notin DOMAIN pending'[m]
    BY <2>1 DEF RecvInv, StagesAreOrdered
  <2>2. /\ \A m \in Node : DOMAIN pending'[m] \cap agreed' = {}
        /\ \A k, m \in Node : k # m => DOMAIN pending'[k] \cap DOMAIN pending'[m] = {}
    BY DEF RecvInv, StagesAreOrdered
  <2>3. t \notin DOMAIN saved
    BY DEF RecvInv, StagesAreOrdered
  <2>4. \A m \in Node : DOMAIN incoming'[m] \subseteq agreed' \ DOMAIN saved
    BY <1>5, <2>3 DEF RecvInv, StagesAreOrdered
  <2>5. \A k, m \in Node : k # m => DOMAIN incoming'[k] \cap DOMAIN incoming'[m] = {}
    BY <1>1, <1>5 DEF RecvInv, StagesAreOrdered
  <2>6. DOMAIN saved \subseteq agreed' /\ agreed' \subseteq DOMAIN offered
    BY DEF RecvInv, StagesAreOrdered
  <2> QED
    BY <2>1, <2>2, <2>4, <2>5, <2>6 DEF StagesAreOrdered
<1>9. PartsAreSound'
  <2>1. ASSUME NEW m \in up PROVE DOMAIN parts'[m] = DOMAIN incoming'[m]
    BY <1>5, <1>6 DEF RecvInv, PartsAreSound
  <2>2. ASSUME NEW m \in up, NEW x \in DOMAIN incoming'[m]
        PROVE  parts'[m][x] = incoming'[m][x].hashed \/ Abandoned(x)'
    <3>1. CASE x = t
      BY <1>1, <1>3, <1>5, <1>6, <3>1
    <3>2. CASE x # t
      <4>1. /\ x \in DOMAIN incoming[m] /\ incoming'[m][x] = incoming[m][x]
            /\ parts'[m][x] = parts[m][x]
        BY <1>5, <1>6, <3>2 DEF RecvInv, PartsAreSound
      <4>2. Abandoned(x) => Abandoned(x)'
        BY <3>2 DEF Abandoned
      <4> QED
        BY <4>1, <4>2 DEF RecvInv, PartsAreSound
    <3> QED
      BY <3>1, <3>2
  <2> QED
    BY <2>1, <2>2 DEF PartsAreSound
<1> QED
  BY <1>7, <1>8, <1>9 DEF RecvInv

\* A chunk is in the file and hashed, or in the file as a torn one.
ChunkWritten(n, t, data) ==
  /\ parts' = [parts EXCEPT ![n][t] = Append(@, data)]
  /\ incoming' = [incoming EXCEPT ![n][t].hashed = Append(@, data)]

ChunkTorn(n, t) ==
  /\ parts' = [parts EXCEPT ![n][t] = Append(@, 0)]
  /\ incoming' = incoming

\* What the files and the hashes are after that: those of other transfers as they were.
LEMMA ChunkWrittenIs ==
  ASSUME NEW n \in Node, NEW t \in DOMAIN incoming[n], NEW data, ChunkWritten(n, t, data),
         DOMAIN incoming = Node, DOMAIN parts = Node, t \in DOMAIN parts[n],
         DOMAIN incoming[n][t] = {"peer", "size", "hashed"}
  PROVE  /\ DOMAIN incoming' = Node /\ DOMAIN parts' = Node
         /\ \A m \in Node : \A x \in DOMAIN incoming[m] :
              ~(m = n /\ x = t) => incoming'[m][x] = incoming[m][x]
         /\ \A m \in Node : \A x \in DOMAIN parts[m] :
              ~(m = n /\ x = t) => parts'[m][x] = parts[m][x]
         /\ \A m \in Node : /\ DOMAIN incoming'[m] = DOMAIN incoming[m]
                            /\ DOMAIN parts'[m] = DOMAIN parts[m]
         /\ DOMAIN incoming'[n][t] = {"peer", "size", "hashed"}
         /\ incoming'[n][t].size = incoming[n][t].size
         /\ incoming'[n][t].hashed = Append(incoming[n][t].hashed, data)
         /\ parts'[n][t] = Append(parts[n][t], data)
<1>1. incoming'[n][t] = [incoming[n][t] EXCEPT !.hashed = Append(@, data)]
  BY DEF ChunkWritten
<1>2. /\ DOMAIN incoming'[n][t] = {"peer", "size", "hashed"}
      /\ incoming'[n][t].size = incoming[n][t].size
      /\ incoming'[n][t].hashed = Append(incoming[n][t].hashed, data)
  BY <1>1
<1>3. DOMAIN incoming' = Node /\ DOMAIN parts' = Node /\ parts'[n][t] = Append(parts[n][t], data)
  BY DEF ChunkWritten
<1>4. /\ \A m \in Node : DOMAIN incoming'[m] = DOMAIN incoming[m]
      /\ \A m \in Node : \A x \in DOMAIN incoming[m] :
           ~(m = n /\ x = t) => incoming'[m][x] = incoming[m][x]
  BY DEF ChunkWritten
<1>5. /\ \A m \in Node : DOMAIN parts'[m] = DOMAIN parts[m]
      /\ \A m \in Node : \A x \in DOMAIN parts[m] :
           ~(m = n /\ x = t) => parts'[m][x] = parts[m][x]
  BY DEF ChunkWritten
<1> QED
  BY <1>2, <1>3, <1>4, <1>5

\* The same of a torn chunk, which only the file knows of.
LEMMA ChunkTornIs ==
  ASSUME NEW n \in Node, NEW t \in DOMAIN incoming[n], ChunkTorn(n, t), DOMAIN parts = Node
  PROVE  /\ incoming' = incoming /\ DOMAIN parts' = Node
         /\ \A m \in Node : DOMAIN parts'[m] = DOMAIN parts[m]
         /\ \A m \in Node : \A x \in DOMAIN parts[m] :
              ~(m = n /\ x = t) => parts'[m][x] = parts[m][x]
BY DEF ChunkTorn

\* A chunk is written to the file and hashed, or torn: then nothing but its refusal is left
\* of the transfer, since the chunk was the one request of it.
LEMMA ChunkReceived ==
  ASSUME RecvInv, up \subseteq Node, NEW n \in up, NEW t \in DOMAIN incoming[n],
         NEW r \in inFlight, OfTransfer(r), r.id = t,
         Received(n, t) + 1 <= incoming[n][t].size, NEW data \in Nat, offered[t] \in Nat,
         \A q \in inFlight : OfTransfer(q) /\ q.id = t => q = r,
         \A a \in answers : OfTransfer(a.to) => a.to.id # t,
         inFlight' = inFlight \ {r},
         \A a \in answers' \ answers : a.to = r,
         \/ ChunkWritten(n, t, data)
         \/ ChunkTorn(n, t) /\ \A a \in answers' \ answers : a.body = Refused,
         UNCHANGED <<up, offered, pending, agreed, saved>>
  PROVE  RecvInv'
<1>1. /\ DOMAIN incoming = Node /\ DOMAIN parts = Node /\ n \in Node
      /\ t \in DOMAIN parts[n]
      /\ DOMAIN incoming[n][t] = {"peer", "size", "hashed"}
      /\ incoming[n][t].hashed \in Seq(Nat) /\ incoming[n][t].size = offered[t]
  BY DEF RecvInv, ReceiversAreSound, PartsAreSound
<1>2. parts[n][t] = incoming[n][t].hashed
  BY OnItsWayIsIntact DEF Intact
<1>3. /\ DOMAIN incoming' = Node /\ DOMAIN parts' = Node
      /\ \A m \in Node :
           /\ DOMAIN incoming'[m] = DOMAIN incoming[m] /\ DOMAIN parts'[m] = DOMAIN parts[m]
           /\ \A x \in DOMAIN incoming[m] : ~(m = n /\ x = t) => incoming'[m][x] = incoming[m][x]
           /\ \A x \in DOMAIN parts[m] : ~(m = n /\ x = t) => parts'[m][x] = parts[m][x]
      /\ DOMAIN incoming'[n][t] = {"peer", "size", "hashed"}
      /\ incoming'[n][t].size = offered[t]
      /\ \/ /\ incoming'[n][t].hashed = Append(incoming[n][t].hashed, data)
            /\ parts'[n][t] = Append(parts[n][t], data)
         \/ /\ incoming'[n][t].hashed = incoming[n][t].hashed
            /\ \A a \in answers' \ answers : a.body = Refused
  <2>1. CASE ChunkWritten(n, t, data)
    BY <1>1, <2>1, ChunkWrittenIs
  <2>2. CASE ChunkTorn(n, t) /\ \A a \in answers' \ answers : a.body = Refused
    <3>1. /\ incoming' = incoming /\ DOMAIN parts' = Node
          /\ \A m \in Node : DOMAIN parts'[m] = DOMAIN parts[m]
          /\ \A m \in Node : \A x \in DOMAIN parts[m] :
               ~(m = n /\ x = t) => parts'[m][x] = parts[m][x]
      BY <1>1, <2>2, ChunkTornIs
    <3> QED
      BY <1>1, <2>2, <3>1
  <2> QED
    BY <2>1, <2>2
<1> SUFFICES ASSUME NEW old \in Seq(Nat), old = incoming[n][t].hashed,
                    NEW new, new = incoming'[n][t].hashed
             PROVE  RecvInv'
  BY <1>1
<1>4. new \in Seq(Nat) /\ Len(new) <= offered[t]
  <2>1. /\ Append(old, data) \in Seq(Nat) /\ Len(old) \in Nat
        /\ Len(Append(old, data)) = Len(old) + 1
    OBVIOUS
  <2>2. Len(old) + 1 <= offered[t] /\ Len(old) <= offered[t]
    BY <1>1, <2>1 DEF Received
  <2>3. new = Append(old, data) \/ new = old
    BY <1>3
  <2> QED
    BY <2>1, <2>2, <2>3
<1>5. ReceiversAreSound'
  <2>1. ASSUME NEW m \in Node, NEW x \in DOMAIN incoming'[m]
        PROVE  /\ DOMAIN incoming'[m][x] = {"peer", "size", "hashed"}
               /\ incoming'[m][x].size = offered[x]
               /\ incoming'[m][x].hashed \in Seq(Nat)
               /\ Len(incoming'[m][x].hashed) <= offered[x]
    <3>1. CASE m = n /\ x = t
      BY <1>3, <1>4, <3>1
    <3>2. CASE ~(m = n /\ x = t)
      BY <1>3, <3>2 DEF RecvInv, ReceiversAreSound, Received
    <3> QED
      BY <3>1, <3>2
  <2> QED
    BY <1>3, <2>1 DEF RecvInv, ReceiversAreSound, Received
<1>6. StagesAreOrdered'
  BY <1>3 DEF RecvInv, StagesAreOrdered
<1>7. PartsAreSound'
  <2>1. \A m \in up : DOMAIN parts'[m] = DOMAIN incoming'[m]
    BY <1>3 DEF RecvInv, PartsAreSound
  <2>2. parts'[n][t] = incoming'[n][t].hashed \/ Abandoned(t)'
    <3>1. CASE \A a \in answers' \ answers : a.body = Refused
      <4>1. \A q \in inFlight' : OfTransfer(q) => q.id # t
        OBVIOUS
      <4>2. \A a \in answers' : OfTransfer(a.to) /\ a.to.id = t => a.body = Refused
        BY <3>1
      <4> QED
        BY <4>1, <4>2 DEF Abandoned
    <3> QED
      BY <1>2, <1>3, <3>1
  <2>3. ASSUME NEW m \in up, NEW x \in DOMAIN incoming'[m], ~(m = n /\ x = t)
        PROVE  parts'[m][x] = incoming'[m][x].hashed \/ Abandoned(x)'
    <3>1. /\ x \in DOMAIN incoming[m] /\ incoming'[m][x] = incoming[m][x]
          /\ parts'[m][x] = parts[m][x]
      BY <1>3, <2>3 DEF RecvInv, PartsAreSound
    <3>2. x # t
      BY <1>1, <2>3, <3>1 DEF RecvInv, StagesAreOrdered
    <3>3. Abandoned(x) => Abandoned(x)'
      BY <3>2 DEF Abandoned
    <3> QED
      BY <3>1, <3>3 DEF RecvInv, PartsAreSound
  <2> QED
    BY <2>1, <2>2, <2>3 DEF PartsAreSound
<1> QED
  BY <1>5, <1>6, <1>7 DEF RecvInv

\* Discarded transfers are gone with their temporary files.
LEMMA DiscardIs ==
  ASSUME ReceiversAreSound, NEW n \in Node, NEW T, Discard(n, T)
  PROVE  /\ DOMAIN incoming' = Node /\ DOMAIN parts' = Node
         /\ \A m \in Node :
              /\ DOMAIN incoming'[m] = DOMAIN incoming[m] \ {t \in T : m = n}
              /\ \A t \in DOMAIN incoming'[m] : incoming'[m][t] = incoming[m][t]
              /\ DOMAIN parts'[m] = DOMAIN parts[m] \ {t \in T : m = n}
              /\ \A t \in DOMAIN parts'[m] : parts'[m][t] = parts[m][t]
<1>1. DOMAIN incoming = Node /\ DOMAIN parts = Node
  BY DEF ReceiversAreSound
<1>2. /\ incoming' = [incoming EXCEPT ![n] = Drop(@, T)]
      /\ parts' = [parts EXCEPT ![n] = Drop(@, T)]
  BY DEF Discard
<1>3. ASSUME NEW m \in Node
      PROVE  /\ DOMAIN incoming'[m] = DOMAIN incoming[m] \ {t \in T : m = n}
             /\ \A t \in DOMAIN incoming'[m] : incoming'[m][t] = incoming[m][t]
             /\ DOMAIN parts'[m] = DOMAIN parts[m] \ {t \in T : m = n}
             /\ \A t \in DOMAIN parts'[m] : parts'[m][t] = parts[m][t]
  <2>1. CASE m = n
    <3>1. incoming'[m] = Drop(incoming[m], T) /\ parts'[m] = Drop(parts[m], T)
      BY <1>1, <1>2, <2>1
    <3> QED
      BY <2>1, <3>1 DEF Drop
  <2>2. CASE m # n
    BY <1>1, <1>2, <2>2
  <2> QED
    BY <2>1, <2>2
<1> QED
  BY <1>1, <1>2, <1>3

\* Pending offers that are dropped at one node are those dropped there.
LEMMA PendingDropped ==
  ASSUME ReceiversAreSound, NEW n \in Node, NEW T,
         pending' = [pending EXCEPT ![n] = Drop(@, T)]
  PROVE  /\ DOMAIN pending' = Node
         /\ \A m \in Node :
              /\ DOMAIN pending'[m] = DOMAIN pending[m] \ {t \in T : m = n}
              /\ \A t \in DOMAIN pending'[m] : pending'[m][t] = pending[m][t]
<1>1. DOMAIN pending = Node
  BY DEF ReceiversAreSound
<1>2. ASSUME NEW m \in Node
      PROVE  /\ DOMAIN pending'[m] = DOMAIN pending[m] \ {t \in T : m = n}
             /\ \A t \in DOMAIN pending'[m] : pending'[m][t] = pending[m][t]
  <2>1. CASE m = n
    <3>1. pending'[m] = Drop(pending[m], T)
      BY <1>1, <2>1
    <3> QED
      BY <2>1, <3>1 DEF Drop
  <2>2. CASE m # n
    BY <1>1, <2>2
  <2> QED
    BY <2>1, <2>2
<1> QED
  BY <1>1, <1>2

\* Transfers end at the receivers, whatever is pending, received or left in files, while the
\* network gets nothing but cancels and refusals.
LEMMA ReceiversDiscard ==
  ASSUME RecvInv, up \subseteq Node, NEW n \in Node, NEW T, Discard(n, T),
         DOMAIN pending' = Node,
         \A m \in Node :
           /\ DOMAIN pending'[m] \subseteq DOMAIN pending[m]
           /\ \A t \in DOMAIN pending'[m] : pending'[m][t] = pending[m][t],
         UNCHANGED <<up, agreed, saved, offered>>,
         \A r \in inFlight' \ inFlight : r.kind = "Cancel",
         \A a \in answers' \ answers : a.body = Refused
  PROVE  RecvInv'
<1>1. /\ DOMAIN incoming' = Node /\ DOMAIN parts' = Node
      /\ \A m \in Node :
           /\ DOMAIN incoming'[m] = DOMAIN incoming[m] \ {t \in T : m = n}
           /\ \A t \in DOMAIN incoming'[m] : incoming'[m][t] = incoming[m][t]
           /\ DOMAIN parts'[m] = DOMAIN parts[m] \ {t \in T : m = n}
           /\ \A t \in DOMAIN parts'[m] : parts'[m][t] = parts[m][t]
  BY DiscardIs DEF RecvInv
<1>2. ASSUME NEW m \in up'
      PROVE  /\ DOMAIN parts'[m] = DOMAIN incoming'[m]
             /\ \A t \in DOMAIN incoming'[m] : parts'[m][t] = parts[m][t]
  <2>1. m \in up /\ m \in Node
    OBVIOUS
  <2>2. DOMAIN parts[m] = DOMAIN incoming[m]
    BY <2>1 DEF RecvInv, PartsAreSound
  <2> QED
    BY <1>1, <2>1, <2>2
<1>3. /\ \A m \in Node :
           /\ DOMAIN incoming'[m] \subseteq DOMAIN incoming[m]
           /\ \A t \in DOMAIN incoming'[m] : incoming'[m][t] = incoming[m][t]
  BY <1>1
<1>4. \A r \in inFlight' \ inFlight : ~OfTransfer(r)
  BY DEF OfTransfer
<1> QED
  BY <1>1, <1>2, <1>3, <1>4, ReceiversShrink

\* Offers stop being pending, and nothing but refusals is said.
LEMMA PendingGone ==
  ASSUME RecvInv, up \subseteq Node, NEW n \in Node, NEW T,
         pending' = [pending EXCEPT ![n] = Drop(@, T)],
         UNCHANGED <<up, incoming, parts, agreed, saved, offered, inFlight>>,
         \A a \in answers' \ answers : a.body = Refused
  PROVE  RecvInv'
<1>1. /\ DOMAIN pending' = Node
      /\ \A m \in Node :
           /\ DOMAIN pending'[m] = DOMAIN pending[m] \ {t \in T : m = n}
           /\ \A t \in DOMAIN pending'[m] : pending'[m][t] = pending[m][t]
  BY PendingDropped DEF RecvInv
<1>2. \A m \in Node : DOMAIN pending'[m] \subseteq DOMAIN pending[m]
  BY <1>1
<1>3. DOMAIN incoming = Node /\ DOMAIN parts = Node
  BY DEF RecvInv, ReceiversAreSound
<1>4. \A m \in up : DOMAIN parts[m] = DOMAIN incoming[m]
  BY DEF RecvInv, PartsAreSound
<1> QED
  BY <1>1, <1>2, <1>3, <1>4, ReceiversShrink

\* A file is saved once, under the transfer its node stops to receive.
LEMMA FileSaved ==
  ASSUME RecvInv, up \subseteq Node, NEW n \in up, NEW t \in DOMAIN incoming[n], NEW file,
         Discard(n, {t}), saved' = Put(saved, t, file),
         inFlight' \subseteq inFlight,
         \A a \in answers' \ answers : a.to.id = t,
         UNCHANGED <<up, offered, pending, agreed>>
  PROVE  RecvInv' /\ t \in agreed \ DOMAIN saved
<1>1. /\ DOMAIN incoming' = Node /\ DOMAIN parts' = Node
      /\ \A m \in Node :
           /\ DOMAIN incoming'[m] = DOMAIN incoming[m] \ {x \in {t} : m = n}
           /\ \A x \in DOMAIN incoming'[m] : incoming'[m][x] = incoming[m][x]
           /\ DOMAIN parts'[m] = DOMAIN parts[m] \ {x \in {t} : m = n}
           /\ \A x \in DOMAIN parts'[m] : parts'[m][x] = parts[m][x]
  BY DiscardIs DEF RecvInv
<1>2. t \in agreed \ DOMAIN saved /\ \A m \in Node \ {n} : t \notin DOMAIN incoming[m]
  BY DEF RecvInv, StagesAreOrdered
<1>3. DOMAIN saved' = DOMAIN saved \cup {t}
  BY DEF Put
<1>4. ReceiversAreSound'
  <2>1. ASSUME NEW m \in Node
        PROVE  /\ IsFiniteSet(DOMAIN incoming'[m])
               /\ Cardinality(DOMAIN incoming'[m]) <= MaxTransfers
    BY <1>1, SmallerWithinLimit, FileTransferAssumption DEF RecvInv, ReceiversAreSound
  <2> QED
    BY <1>1, <2>1 DEF RecvInv, ReceiversAreSound, Received
<1>5. StagesAreOrdered'
  BY <1>1, <1>2, <1>3 DEF RecvInv, StagesAreOrdered
<1>6. PartsAreSound'
  <2>1. ASSUME NEW m \in up PROVE DOMAIN parts'[m] = DOMAIN incoming'[m]
    BY <1>1 DEF RecvInv, PartsAreSound
  <2>2. ASSUME NEW m \in up, NEW x \in DOMAIN incoming'[m]
        PROVE  parts'[m][x] = incoming'[m][x].hashed \/ Abandoned(x)'
    <3>1. /\ x \in DOMAIN incoming[m] /\ incoming'[m][x] = incoming[m][x] /\ x # t
          /\ parts'[m][x] = parts[m][x]
      BY <1>1, <1>2, <2>1
    <3>2. Abandoned(x) => Abandoned(x)'
      BY <3>1 DEF Abandoned
    <3> QED
      BY <3>1, <3>2 DEF RecvInv, PartsAreSound
  <2> QED
    BY <2>1, <2>2 DEF PartsAreSound
<1> QED
  BY <1>2, <1>4, <1>5, <1>6 DEF RecvInv
-----------------------------------------------------------------------------
(***************************************************************************)
(* The actions of the sender.                                              *)
(***************************************************************************)
\* What the invariant says of requests, nodes and sizes.
LEMMA Basics ==
  ASSUME Inv
  PROVE  /\ up \subseteq Node
         /\ \A r \in tracked \cup inFlight : RequestIsTyped(r)
         /\ \A r \in tracked : r.kind # "Cancel"
         /\ \A t \in DOMAIN offered : offered[t] \in Nat
         /\ agreed \subseteq DOMAIN offered
BY SizesAreNat
   DEF Inv, SendInv, RequestsAreTyped, SharesAreSound, RecvInv, StagesAreOrdered

\* Nothing of the shares changes.
LEMMA SharesRest ==
  ASSUME SharesAreSound, UNCHANGED <<sharing, taken>>, up' \subseteq up
  PROVE  SharesAreSound'
BY DEF SharesAreSound, sharing

\* A request that is no answer's is as it was.
LEMMA AnswersRest ==
  ASSUME AnswersAreSound, answers' \subseteq answers, tracked \subseteq tracked',
         \A r \in inFlight' \ inFlight : r \notin tracked, saved' = saved
  PROVE  AnswersAreSound'
<1>1. \A a \in answers' : a \in answers /\ a.to \in tracked
  BY DEF AnswersAreSound
<1> QED
  BY <1>1, AnswersKept

\* The user sends a file: a new transfer, its request and nothing received yet.
LEMMA OfferFileKeeps ==
  ASSUME Inv, NEW n \in Node, NEW m \in Node, NEW t \in Transfer, NEW size \in FileSize,
         OfferFile(n, m, t, size)
  PROVE  Inv'
<1> DEFINE q == Offer(n, m, t, size, NoShare)
<1>1. q.id = t /\ q.kind = "Offer" /\ OfTransfer(q)
  BY DEF Offer, OfTransfer
<1>2. /\ SlotFree(outgoing[n]) /\ t \notin DOMAIN offered
      /\ outgoing' = [outgoing EXCEPT ![n] = Put(@, t, Waiting(m, size))]
      /\ offered' = Put(offered, t, size)
      /\ tracked' = tracked \cup {q} /\ inFlight' = inFlight \cup {q}
      /\ UNCHANGED <<up, outcome, pending, incoming, parts, agreed, taken, saved, answers>>
      /\ UNCHANGED <<announced, shared, known, claims, claimed>>
  BY DEF OfferFile, Ask, receiving, sharing
<1>3. SendInv'
  BY <1>2, NewOfferSends DEF Inv
<1> HIDE DEF q
<1>4. q \notin tracked
  BY <1>1, <1>2, Basics DEF RequestIsTyped
<1>5. AnswersAreSound'
  BY <1>2, <1>4, AnswersRest DEF Inv
<1>6. RecvInv'
  <2>1. Intact(t)
    BY <1>2, Basics, NotAgreedIsIntact DEF Inv
  <2>2. /\ DOMAIN offered \subseteq DOMAIN offered'
        /\ \A x \in DOMAIN offered : offered'[x] = offered[x]
    BY <1>2 DEF Put
  <2> QED
    BY <1>1, <1>2, <2>1, <2>2, Basics, ReceiversRest DEF Inv
<1>7. SharesAreSound'
  BY <1>2, SharesRest DEF Inv, sharing
<1> QED
  BY <1>3, <1>5, <1>6, <1>7 DEF Inv

\* An answered or failed transfer request that stops its transfer.
LEMMA FinishKeeps ==
  ASSUME Inv, NEW r \in tracked, OfTransfer(r), NEW result \in {"completed", "failed"},
         Finish(r, result), UNCHANGED <<offered, sharing, up, receiving>>
  PROVE  Inv'
<1>1. /\ inFlight' = inFlight /\ tracked' = tracked \ {r}
      /\ answers' = {a \in answers : a.to # r}
      /\ UNCHANGED <<up, offered, pending, incoming, parts, agreed, taken, saved, claimed>>
  BY DEF Finish, Conclude, receiving, sharing
<1>2. SendInv'
  BY <1>1, FinishSends DEF Inv
<1>3. AnswersAreSound'
  BY <1>1 DEF Inv, AnswersAreSound
<1>4. RecvInv'
  BY <1>1, Basics, ReceiversRest DEF Inv
<1>5. SharesAreSound'
  BY <1>1, SharesRest DEF Inv
<1> QED
  BY <1>2, <1>3, <1>4, <1>5 DEF Inv

\* The next chunk is sent, or the end of the file, or reading fails.
LEMMA SendNextChunkKeeps ==
  ASSUME Inv, NEW r \in tracked \ inFlight, OfTransfer(r), Intact(r.id),
         NEW o \in Slot, o.peer = r.to, o.size = offered[r.id], o.sent <= o.size,
         SendNextChunk(r, o), UNCHANGED <<offered, sharing, up, receiving>>
  PROVE  Inv'
<1> DEFINE next == Chunk(r.from, o.peer, r.id, o.sent, o.read + 1)
           last == Complete(r.from, o.peer, r.id, o.read)
           more == [o EXCEPT !.read = @ + 1]
<1>1. ASSUME NEW q, NEW p \in Slot, p.peer = r.to, p.size = offered[r.id], p.sent <= p.size,
             OfTransfer(q), q.id = r.id, q.from = r.from, q.to = p.peer,
             q.kind = "Chunk" => q.data \in Nat, q.kind = "Complete" => q.hash \in Nat,
             q.kind \in {"Chunk", "Complete"},
             outgoing' = [outgoing EXCEPT ![r.from][r.id] = p], Conclude(r, {q}),
             UNCHANGED outcome
      PROVE  Inv'
  <2>1. /\ tracked' = (tracked \ {r}) \cup {q} /\ inFlight' = inFlight \cup {q}
        /\ answers' = {a \in answers : a.to # r}
        /\ UNCHANGED <<up, offered, pending, incoming, parts, agreed, taken, saved, claimed>>
    BY <1>1 DEF Conclude, receiving, sharing
  <2>2. SendInv'
    BY <1>1, <2>1, NextStepSends DEF Inv
  <2>3. \A a \in answers' : a \in answers /\ a.to \in tracked' /\ a.to \notin inFlight' \ inFlight
    <3>1. \A a \in answers : a.to \in tracked /\ (OfTransfer(a.to) /\ a.to.id = r.id => a.to = r)
      BY DEF Inv, AnswersAreSound, SendInv, StepsAreSingle
    <3> QED
      BY <1>1, <2>1, <3>1
  <2>4. AnswersAreSound'
    BY <2>1, <2>3, AnswersKept DEF Inv
  <2>5. RecvInv'
    BY <1>1, <2>1, Basics, ReceiversRest DEF Inv
  <2>6. SharesAreSound'
    BY <2>1, SharesRest DEF Inv
  <2> QED
    BY <2>2, <2>4, <2>5, <2>6 DEF Inv
<1>2. CASE /\ outgoing' = [outgoing EXCEPT ![r.from][r.id] = more]
           /\ Conclude(r, {next}) /\ UNCHANGED outcome
  <2>1. more \in Slot /\ more.peer = r.to /\ more.size = offered[r.id] /\ more.sent <= more.size
    BY DEF Slot
  <2>2. /\ OfTransfer(next) /\ next.id = r.id /\ next.from = r.from /\ next.to = more.peer
        /\ next.kind = "Chunk" /\ next.data \in Nat
    BY DEF Slot, Chunk, OfTransfer
  <2> HIDE DEF next, more
  <2> QED
    BY <1>1, <1>2, <2>1, <2>2
<1>3. CASE /\ outgoing' = [outgoing EXCEPT ![r.from][r.id] = o]
           /\ Conclude(r, {last}) /\ UNCHANGED outcome
  <2>1. /\ OfTransfer(last) /\ last.id = r.id /\ last.from = r.from /\ last.to = o.peer
        /\ last.kind = "Complete" /\ last.hash \in Nat
    BY DEF Slot, Complete, OfTransfer
  <2> HIDE DEF last
  <2> QED
    BY <1>1, <1>3, <2>1
<1>4. CASE Fails(r)
  BY <1>4, FinishKeeps DEF Fails
<1> QED
  BY <1>2, <1>3, <1>4 DEF SendNextChunk
\* A claim ends: it is not tracked any more, and perhaps no claim of its share is.
LEMMA ClaimEndsKeeps ==
  ASSUME Inv, NEW r \in tracked, r.kind = "ClaimPublic", Conclude(r, {}),
         UNCHANGED <<sending, receiving, up, announced, shared, known, claimed>>,
         \/ claims' = claims
         \/ claims' = [claims EXCEPT ![r.from] = @ \ {r.id}]
  PROVE  Inv'
<1>1. /\ inFlight' = inFlight /\ tracked' = tracked \ {r}
      /\ answers' = {a \in answers : a.to # r}
      /\ UNCHANGED <<offered, pending, incoming, parts, agreed, taken, saved>>
      /\ ~OfTransfer(r) /\ r.from \in Node
  BY Basics DEF Conclude, sending, receiving, OfTransfer, RequestIsTyped
<1>2. SendInv'
  BY <1>1, SendersRest DEF Inv
<1>3. AnswersAreSound'
  BY <1>1 DEF Inv, AnswersAreSound
<1>4. RecvInv'
  BY <1>1, Basics, ReceiversRest DEF Inv
<1>5. SharesAreSound'
  <2>1. /\ DOMAIN claims = Node /\ DOMAIN claims' = Node
        /\ \A n \in Node : claims'[n] \subseteq claims[n]
    BY <1>1 DEF Inv, SharesAreSound
  <2>2. ASSUME NEW n \in Node
        PROVE  /\ claims'[n] \subseteq known[n] /\ IsFiniteSet(claims'[n])
               /\ Cardinality(taken[n]) + Cardinality(claims'[n]) <= claimed[n]
    <3>1. /\ claims'[n] \subseteq claims[n] /\ claims[n] \subseteq known[n]
          /\ IsFiniteSet(claims[n]) /\ IsFiniteSet(taken[n]) /\ claimed[n] \in Nat
          /\ Cardinality(taken[n]) + Cardinality(claims[n]) <= claimed[n]
      BY <2>1 DEF Inv, SharesAreSound
    <3>2. IsFiniteSet(claims'[n]) /\ Cardinality(claims'[n]) <= Cardinality(claims[n])
      BY <3>1, FS_Subset
    <3>3. /\ Cardinality(taken[n]) \in Nat /\ Cardinality(claims[n]) \in Nat
          /\ Cardinality(claims'[n]) \in Nat
      BY <3>1, <3>2, FS_CardinalityType
    <3> QED
      BY <3>1, <3>2, <3>3
  <2> QED
    BY <1>1, <2>1, <2>2 DEF Inv, SharesAreSound
<1> QED
  BY <1>2, <1>3, <1>4, <1>5 DEF Inv

\* A request that fails ends its transfer, or its claim.
LEMMA OnOutboundFailureKeeps ==
  ASSUME Inv, NEW r \in tracked, OnOutboundFailure(r)
  PROVE  Inv'
<1>1. UNCHANGED <<up, receiving>>
  BY DEF OnOutboundFailure
<1>2. CASE OfTransfer(r) /\ Fails(r) /\ UNCHANGED <<offered, sharing>>
  BY <1>1, <1>2, FinishKeeps DEF Fails
<1>3. CASE r.kind = "ClaimPublic" /\ ClaimFails(r) /\ UNCHANGED sending
  BY <1>1, <1>3, ClaimEndsKeeps DEF ClaimFails
<1> QED
  BY <1>2, <1>3 DEF OnOutboundFailure

\* What the answers are told apart by.
LEMMA BodiesDiffer ==
  /\ Accepted.kind = "Accepted" /\ Refused.kind = "Refused" /\ Verified.kind = "Complete"
  /\ Accepted # Refused /\ Verified # Refused
  /\ \A k : Ack(k).kind = "Ack" /\ Ack(k).received = k
BY DEF Accepted, Refused, Verified, Ack

\* What the sender of an awaited request still has of its transfer.
LEMMA AwaitedSlot ==
  ASSUME Inv, NEW r \in tracked, OfTransfer(r)
  PROVE  /\ r.id \in DOMAIN outgoing[r.from] /\ outgoing[r.from][r.id] \in Slot
         /\ outgoing[r.from][r.id].peer = r.to
         /\ outgoing[r.from][r.id].size = offered[r.id]
<1>1. r.from \in Node
  BY Basics DEF RequestIsTyped
<1> QED
  BY <1>1 DEF Inv, SendInv, StepsAreAwaited, SendersAreSound

\* A transfer that is accepted starts from its beginning.
LEMMA RestartedSlot ==
  ASSUME NEW o \in Slot
  PROVE  LET p == [o EXCEPT !.sent = 0, !.read = 0]
         IN  p \in Slot /\ p.peer = o.peer /\ p.size = o.size /\ p.sent <= p.size
<1>1. DOMAIN o = {"peer", "size", "sent", "read"} /\ o.peer \in Node /\ o.size \in Nat
  BY DEF Slot
<1> DEFINE s == [o EXCEPT !.sent = 0]
           p == [s EXCEPT !.read = 0]
<1>2. /\ DOMAIN s = {"peer", "size", "sent", "read"} /\ s.sent = 0
      /\ s.peer = o.peer /\ s.size = o.size /\ s \in Slot
  BY <1>1 DEF Slot
<1>3. /\ p.sent = 0 /\ p.peer = o.peer /\ p.size = o.size /\ p \in Slot
  BY <1>2 DEF Slot
<1>4. p = [o EXCEPT !.sent = 0, !.read = 0]
  OBVIOUS
<1> QED
  BY <1>1, <1>3, <1>4

\* A response takes its transfer one step on, or ends it.
LEMMA OnResponseKeeps ==
  ASSUME Inv, NEW a \in answers, OnResponse(a)
  PROVE  Inv'
<1> SUFFICES ASSUME NEW r, r = a.to, NEW o, o = outgoing[r.from][r.id], NEW body, body = a.body
             PROVE  Inv'
  OBVIOUS
<1>1. /\ r \in tracked \ inFlight /\ UNCHANGED <<up, receiving>>
      /\ body \in Body
  BY DEF OnResponse, Inv, AnswersAreSound
<1>2. CASE OfTransfer(r) /\ Answered(r, body) /\ UNCHANGED <<offered, sharing>>
  <2>1. o \in Slot /\ o.peer = r.to /\ o.size = offered[r.id]
    BY <1>1, <1>2, AwaitedSlot
  <2>2. body # Refused => Intact(r.id)
    BY <1>2, OnItsWayIsIntact DEF Inv
  <2>3. CASE /\ r.kind = "Offer" /\ body = Accepted
             /\ SendNextChunk(r, [o EXCEPT !.sent = 0, !.read = 0])
    <3> SUFFICES ASSUME NEW p, p = [o EXCEPT !.sent = 0, !.read = 0] PROVE Inv'
      OBVIOUS
    <3>1. p \in Slot /\ p.peer = r.to /\ p.size = offered[r.id] /\ p.sent <= p.size
      BY <2>1, RestartedSlot
    <3>2. SendNextChunk(r, p)
      BY <2>3
    <3>3. Intact(r.id)
      BY <2>2, <2>3, BodiesDiffer
    <3> QED
      BY <1>1, <1>2, <3>1, <3>2, <3>3, SendNextChunkKeeps
  <2>4. CASE /\ r.kind = "Chunk" /\ body.kind = "Ack"
             /\ o.sent <= body.received /\ body.received <= o.size
             /\ SendNextChunk(r, [o EXCEPT !.sent = body.received])
    <3> SUFFICES ASSUME NEW p, p = [o EXCEPT !.sent = body.received] PROVE Inv'
      OBVIOUS
    <3>1. body.received \in Nat
      BY <1>1, <2>4, BodiesDiffer DEF Body
    <3>2. p \in Slot /\ p.peer = r.to /\ p.size = offered[r.id] /\ p.sent <= p.size
      BY <2>1, <2>4, <3>1 DEF Slot
    <3>3. SendNextChunk(r, p)
      BY <2>4
    <3>4. Intact(r.id)
      BY <2>2, <2>4, BodiesDiffer
    <3> QED
      BY <1>1, <1>2, <3>2, <3>3, <3>4, SendNextChunkKeeps
  <2>5. CASE Finish(r, "completed")
    BY <1>1, <1>2, <2>5, FinishKeeps
  <2>6. CASE Fails(r)
    BY <1>1, <1>2, <2>6, FinishKeeps DEF Fails
  <2> QED
    BY <1>2, <2>3, <2>4, <2>5, <2>6 DEF Answered
<1>3. CASE r.kind = "ClaimPublic" /\ ClaimFails(r) /\ UNCHANGED sending
  BY <1>1, <1>3, ClaimEndsKeeps DEF ClaimFails
<1>4. CASE r.kind = "ClaimPublic" /\ Conclude(r, {}) /\ UNCHANGED <<sending, sharing>>
  BY <1>1, <1>4, ClaimEndsKeeps DEF sharing
<1> QED
  BY <1>2, <1>3, <1>4 DEF OnResponse

\* The user cancels what is sent, with its request, or what is received, with its file.
LEMMA CancelFileKeeps ==
  ASSUME Inv, NEW n \in Node, NEW t, CancelFile(n, t)
  PROVE  Inv'
<1>1. n \in up /\ UNCHANGED <<up, sharing>>
  BY DEF CancelFile
<1>2. CASE /\ t \in DOMAIN outgoing[n]
           /\ inFlight' = inFlight \cup {Cancel(n, outgoing[n][t].peer, t)}
           /\ tracked' = Untracked(n, {t}) /\ answers' = AnswersTo(tracked')
           /\ StopSending(n, {t}, "failed")
           /\ UNCHANGED <<offered, receiving>>
  <2> SUFFICES ASSUME NEW c, c = Cancel(n, outgoing[n][t].peer, t) PROVE Inv'
    OBVIOUS
  <2>1. outgoing[n][t].peer \in Node
    BY <1>2 DEF Inv, SendInv, SendersAreSound, Slot
  <2>2. c.kind = "Cancel" /\ c.from = n /\ c.to \in Node /\ ~OfTransfer(c) /\ c \notin tracked
    BY <2>1, Basics DEF Cancel, OfTransfer
  <2>3. inFlight' = inFlight \cup {c} /\ UNCHANGED claimed
    BY <1>1, <1>2 DEF sharing
  <2>4. SendInv'
    BY <1>2, <2>2, <2>3, UntrackedSends DEF Inv
  <2>5. UNCHANGED <<pending, incoming, parts, agreed, taken, saved>> /\ tracked' \subseteq tracked
    BY <1>2 DEF receiving, Untracked
  <2>6. AnswersAreSound' /\ answers' \subseteq answers
    BY <1>2, <2>2, <2>3, <2>5, UntrackedAnswers DEF Inv
  <2>7. RecvInv'
    BY <1>1, <1>2, <2>2, <2>3, <2>5, <2>6, Basics, ReceiversRest DEF Inv
  <2>8. SharesAreSound'
    BY <1>1, <2>5, SharesRest DEF Inv
  <2> QED
    BY <2>4, <2>6, <2>7, <2>8 DEF Inv
<1>3. CASE /\ t \in DOMAIN incoming[n]
           /\ inFlight' = inFlight \cup {Cancel(n, incoming[n][t].peer, t)}
           /\ Discard(n, {t})
           /\ UNCHANGED <<tracked, answers, sending, pending, agreed, taken, saved>>
  <2> SUFFICES ASSUME NEW c, c = Cancel(n, incoming[n][t].peer, t) PROVE Inv'
    OBVIOUS
  <2>1. c.kind = "Cancel" /\ c.from = n /\ ~OfTransfer(c) /\ c \notin tracked
    BY Basics DEF Cancel, OfTransfer
  <2>2. inFlight' = inFlight \cup {c} /\ UNCHANGED <<claimed, offered>>
    BY <1>1, <1>3 DEF sharing, sending
  <2>3. SendInv'
    BY <1>3, <2>1, <2>2, SendersRest DEF Inv
  <2>4. AnswersAreSound'
    BY <1>3, <2>1, <2>2, AnswersRest DEF Inv
  <2>5. RecvInv'
    BY <1>1, <1>3, <2>1, <2>2, Basics, ReceiversDiscard
       DEF Inv, RecvInv, ReceiversAreSound
  <2>6. SharesAreSound'
    BY <1>1, <1>3, SharesRest DEF Inv
  <2> QED
    BY <2>3, <2>4, <2>5, <2>6 DEF Inv
<1> QED
  BY <1>2, <1>3 DEF CancelFile
-----------------------------------------------------------------------------
(***************************************************************************)
(* The actions of the receiver.                                            *)
(***************************************************************************)
\* A request is refused, or dropped, and nothing else happens.
LEMMA RefusalKeeps ==
  ASSUME Inv, NEW r \in inFlight, NEW bodies \in SUBSET {Refused}, Take(r, bodies),
         UNCHANGED <<up, tracked, sending, receiving, sharing>>
  PROVE  Inv'
<1>1. inFlight' = inFlight \ {r} /\ Reply(r, bodies)
  BY DEF Take
<1>2. UNCHANGED <<offered, claimed, pending, incoming, parts, agreed, taken, saved>>
  BY DEF sending, receiving, sharing
<1>3. SendInv'
  BY <1>1, <1>2, SendersRest DEF Inv
<1>4. AnswersAreSound' /\ \A a \in answers' \ answers : a.body = Refused
  <2>1. bodies \in SUBSET Body /\ Verified \notin bodies
    BY BodiesDiffer DEF Body
  <2>2. AnswersAreSound' /\ \A a \in answers' \ answers : a.body \in bodies
    BY <1>1, <1>2, <2>1, ReplyAnswers DEF Inv
  <2> QED
    BY <2>2
<1>5. RecvInv'
  BY <1>1, <1>2, <1>4, Basics, ReceiversRest DEF Inv
<1>6. SharesAreSound'
  BY <1>2, SharesRest DEF Inv
<1> QED
  BY <1>3, <1>4, <1>5, <1>6 DEF Inv

\* Offers and chunks that are refused change nothing else.
LEMMA RefuseOfferKeeps ==
  ASSUME Inv, NEW r \in inFlight, RefuseOffer(r) \/ OnWrongChunk(r)
  PROVE  Inv'
BY RefusalKeeps DEF RefuseOffer, OnWrongChunk

\* The one request of a transfer that is on its way or awaited.
LEMMA OneRequest ==
  ASSUME Inv, NEW r \in inFlight, OfTransfer(r)
  PROVE  /\ \A q \in tracked \cup inFlight : OfTransfer(q) /\ q.id = r.id => q = r
         /\ \A a \in answers : OfTransfer(a.to) => a.to.id # r.id
         /\ r.id \in DOMAIN offered /\ r.from \in Node /\ r.to \in Node
BY Basics DEF Inv, SendInv, StepsAreSingle, AnswersAreSound, RequestIsTyped

\* An offer waits for the user.
LEMMA OnOfferKeeps ==
  ASSUME Inv, NEW r \in inFlight, OnOffer(r)
  PROVE  Inv'
<1>1. /\ r.kind = "Offer" /\ OfTransfer(r) /\ r.to \in up
      /\ pending' = [pending EXCEPT ![r.to] =
                       Put(@, r.id, [peer |-> r.from, size |-> r.size, channel |-> r])]
      /\ inFlight' = inFlight \ {r}
      /\ UNCHANGED <<up, tracked, answers, sending, sharing>>
      /\ UNCHANGED <<incoming, parts, agreed, taken, saved>>
  BY DEF OnOffer, Arrives, OfTransfer
<1>2. offered' = offered /\ claimed' = claimed
  BY <1>1 DEF sending, sharing
<1>3. SendInv'
  BY <1>1, <1>2, SendersRest DEF Inv
<1>4. AnswersAreSound'
  BY <1>1, AnswersRest DEF Inv
<1>5. RecvInv'
  <2>1. r.size = offered[r.id]
    BY <1>1, Basics DEF RequestIsTyped
  <2> QED
    BY <1>1, <1>2, <2>1, OneRequest, OfferPends DEF Inv
<1>6. SharesAreSound'
  BY <1>1, SharesRest DEF Inv
<1> QED
  BY <1>3, <1>4, <1>5, <1>6 DEF Inv

\* A claim is used up for one transfer at the most.
LEMMA ClaimUsedUp ==
  ASSUME SharesAreSound, NEW n \in Node, NEW s \in claims[n], NEW t,
         claims' = [claims EXCEPT ![n] = @ \ {s}],
         taken' = taken \/ taken' = [taken EXCEPT ![n] = @ \cup {t}],
         UNCHANGED <<up, announced, shared, known, claimed>>
  PROVE  SharesAreSound'
<1>1. /\ DOMAIN claims = Node /\ DOMAIN taken = Node
      /\ \A m \in Node :
           /\ known[m] \subseteq Share /\ claims[m] \subseteq known[m] /\ claimed[m] \in Nat
           /\ IsFiniteSet(claims[m]) /\ IsFiniteSet(taken[m])
           /\ Cardinality(taken[m]) + Cardinality(claims[m]) <= claimed[m]
  BY DEF SharesAreSound
<1>2. /\ DOMAIN claims' = Node /\ DOMAIN taken' = Node
      /\ claims'[n] = claims[n] \ {s} /\ taken'[n] \in {taken[n], taken[n] \cup {t}}
      /\ \A m \in Node \ {n} : claims'[m] = claims[m] /\ taken'[m] = taken[m]
  BY <1>1
<1>3. /\ IsFiniteSet(claims'[n]) /\ Cardinality(claims'[n]) = Cardinality(claims[n]) - 1
  BY <1>1, <1>2, FS_RemoveElement
<1>4. /\ IsFiniteSet(taken'[n])
      /\ Cardinality(taken'[n]) \in {Cardinality(taken[n]), Cardinality(taken[n]) + 1}
  <2>1. /\ IsFiniteSet(taken[n] \cup {t})
        /\ Cardinality(taken[n] \cup {t}) \in {Cardinality(taken[n]), Cardinality(taken[n]) + 1}
    BY <1>1, FS_AddElement
  <2> QED
    BY <1>1, <1>2, <2>1
<1>5. Cardinality(taken[n]) \in Nat /\ Cardinality(claims[n]) \in Nat
  BY <1>1, FS_CardinalityType
<1>6. Cardinality(taken'[n]) + Cardinality(claims'[n]) <= claimed[n]
  BY <1>1, <1>3, <1>4, <1>5
<1>7. ASSUME NEW m \in Node
      PROVE  /\ claims'[m] \subseteq known[m]
             /\ IsFiniteSet(claims'[m]) /\ IsFiniteSet(taken'[m])
             /\ Cardinality(taken'[m]) + Cardinality(claims'[m]) <= claimed[m]
  BY <1>1, <1>2, <1>3, <1>4, <1>6
<1> QED
  BY <1>1, <1>2, <1>7 DEF SharesAreSound

\* An offer of what was claimed is taken, and the claim with it.
LEMMA OnClaimedOfferKeeps ==
  ASSUME Inv, NEW r \in inFlight, OnClaimedOffer(r)
  PROVE  Inv'
<1>1. /\ r.kind = "Offer" /\ OfTransfer(r) /\ r.to \in up /\ r.share \in claims[r.to]
      /\ SlotFree(incoming[r.to])
      /\ claims' = [claims EXCEPT ![r.to] = @ \ {r.share}]
      /\ UNCHANGED <<up, tracked, sending, announced, shared, known, claimed>>
  BY DEF OnClaimedOffer, Arrives, OfTransfer, ClaimMatches, ClaimUsed
<1>2. PICK bodies \in {{Accepted}, {Refused}, {}} :
        /\ inFlight' = inFlight \ {r} /\ Reply(r, bodies)
        /\ \/ /\ bodies = {Accepted} /\ Begin(r.to, r.id, r.from, r.size)
              /\ agreed' = agreed \cup {r.id}
              /\ taken' = [taken EXCEPT ![r.to] = @ \cup {r.id}]
              /\ UNCHANGED <<pending, saved>>
           \/ bodies # {Accepted} /\ UNCHANGED receiving
  <2>1. CASE /\ Begin(r.to, r.id, r.from, r.size)
             /\ agreed' = agreed \cup {r.id}
             /\ taken' = [taken EXCEPT ![r.to] = @ \cup {r.id}]
             /\ Take(r, {Accepted})
             /\ UNCHANGED <<pending, saved>>
    BY <2>1 DEF Take
  <2>2. ASSUME NEW b \in SUBSET {Refused}, Take(r, b), UNCHANGED receiving
        PROVE  \E bodies \in {{Accepted}, {Refused}, {}} :
                 /\ inFlight' = inFlight \ {r} /\ Reply(r, bodies)
                 /\ bodies # {Accepted} /\ UNCHANGED receiving
    <3>1. b \in {{Accepted}, {Refused}, {}} /\ b # {Accepted}
      BY BodiesDiffer
    <3> QED
      BY <2>2, <3>1 DEF Take
  <2> QED
    BY <2>1, <2>2 DEF OnClaimedOffer
<1>3. r.to \in Node /\ r.id \in DOMAIN offered /\ r.size = offered[r.id] /\ offered[r.id] \in Nat
  BY <1>1, Basics DEF RequestIsTyped
<1>4. SendInv'
  BY <1>1, <1>2, SendersRest DEF Inv, sending
<1>5. saved' = saved /\ offered' = offered
  BY <1>1, <1>2 DEF receiving, sending
<1>6. AnswersAreSound' /\ \A a \in answers' \ answers : a.to = r /\ a.body \in bodies
  <2>1. bodies \in SUBSET Body /\ Verified \notin bodies
    BY BodiesDiffer DEF Body, Accepted, Verified
  <2> QED
    BY <1>1, <1>2, <1>5, <2>1, ReplyAnswers DEF Inv
<1>7. SharesAreSound'
  BY <1>1, <1>2, <1>3, ClaimUsedUp DEF Inv, receiving
<1>8. RecvInv'
  <2>1. CASE UNCHANGED receiving /\ bodies # {Accepted}
    <3>1. \A a \in answers' \ answers : a.body = Refused
      BY <1>6, <2>1
    <3>2. UNCHANGED <<up, pending, incoming, parts, agreed, saved>>
      BY <1>1, <2>1 DEF receiving
    <3> QED
      BY <1>2, <1>5, <3>1, <3>2, Basics, ReceiversRest DEF Inv
  <2>2. CASE /\ Begin(r.to, r.id, r.from, r.size) /\ agreed' = agreed \cup {r.id}
             /\ UNCHANGED <<pending, saved>>
    <3>1. /\ DOMAIN pending = Node /\ r.id \notin agreed
          /\ \A m \in Node : r.id \notin DOMAIN pending[m]
      BY <1>1 DEF Inv, RecvInv, ReceiversAreSound, StagesAreOrdered
    <3>2. \A q \in inFlight' : q.kind = "Offer" => q.id # r.id
      BY <1>1, <1>2, OneRequest DEF OfTransfer
    <3>3. Begin(r.to, r.id, r.from, offered[r.id]) /\ r.id \in DOMAIN offered \ agreed
      BY <1>3, <2>2, <3>1
    <3> QED
      BY <1>1, <1>2, <1>3, <1>5, <1>6, <2>2, <3>1, <3>2, <3>3, Basics, AgreedBegins DEF Inv
  <2> QED
    BY <1>2, <2>1, <2>2
<1> QED
  BY <1>4, <1>6, <1>7, <1>8 DEF Inv
\* The offer behind a pending entry is not on its way, nor is any other of that transfer.
LEMMA PendingOffer ==
  ASSUME Inv, NEW n \in up, NEW t \in DOMAIN pending[n]
  PROVE  /\ n \in Node /\ t \in DOMAIN offered \ agreed /\ offered[t] \in Nat
         /\ pending[n][t].size = offered[t]
         /\ pending[n][t].channel.id = t /\ pending[n][t].channel \notin inFlight
         /\ \A r \in inFlight : r.kind = "Offer" => r.id # t
         /\ \A m \in Node \ {n} : t \notin DOMAIN pending[m]
<1>1. n \in Node
  BY Basics
<1>2. /\ t \in DOMAIN offered /\ pending[n][t].size = offered[t]
      /\ pending[n][t].channel.kind = "Offer" /\ pending[n][t].channel.id = t
  BY <1>1 DEF Inv, RecvInv, ReceiversAreSound
<1>3. /\ t \notin agreed /\ \A r \in inFlight : r.kind = "Offer" => r.id # t
      /\ \A m \in Node \ {n} : t \notin DOMAIN pending[m]
  BY <1>1 DEF Inv, RecvInv, StagesAreOrdered
<1> QED
  BY <1>1, <1>2, <1>3, Basics

\* The user accepts what is pending, and the transfer begins.
LEMMA AcceptFileKeeps ==
  ASSUME Inv, NEW n \in Node, NEW t, AcceptFile(n, t)
  PROVE  Inv'
<1> SUFFICES ASSUME NEW p, p = pending[n][t] PROVE Inv'
  OBVIOUS
<1>1. /\ n \in up /\ t \in DOMAIN pending[n] /\ SlotFree(incoming[n])
      /\ pending' = [pending EXCEPT ![n] = Drop(@, {t})]
      /\ UNCHANGED <<up, tracked, taken, saved, sending, sharing>>
      /\ \/ /\ Begin(n, t, p.peer, p.size) /\ agreed' = agreed \cup {t}
            /\ Reply(p.channel, {Accepted}) /\ inFlight' = inFlight
         \/ UNCHANGED <<incoming, parts, agreed, inFlight, answers>>
  BY DEF AcceptFile, network
<1>2. offered' = offered /\ claimed' = claimed
  BY <1>1 DEF sending, sharing
<1>3. /\ t \in DOMAIN offered \ agreed /\ offered[t] \in Nat /\ p.size = offered[t]
      /\ p.channel.id = t /\ p.channel \notin inFlight
      /\ \A r \in inFlight : r.kind = "Offer" => r.id # t
      /\ \A m \in Node \ {n} : t \notin DOMAIN pending[m]
  BY <1>1, PendingOffer
<1>4. SendInv'
  BY <1>1, <1>2, SendersRest DEF Inv
<1>5. SharesAreSound'
  BY <1>1, SharesRest DEF Inv
<1>6. /\ DOMAIN pending' = Node
      /\ \A m \in Node :
           /\ DOMAIN pending'[m] = DOMAIN pending[m] \ {x \in {t} : m = n}
           /\ \A x \in DOMAIN pending'[m] : pending'[m][x] = pending[m][x]
  BY <1>1, PendingDropped DEF Inv, RecvInv
<1>7. CASE UNCHANGED <<incoming, parts, agreed, inFlight, answers>>
  <2>1. AnswersAreSound'
    BY <1>1, <1>7, AnswersRest DEF Inv
  <2>2. RecvInv'
    BY <1>1, <1>2, <1>7, Basics, PendingGone DEF Inv
  <2> QED
    BY <1>4, <1>5, <2>1, <2>2 DEF Inv
<1>8. CASE /\ Begin(n, t, p.peer, p.size) /\ agreed' = agreed \cup {t}
           /\ Reply(p.channel, {Accepted}) /\ inFlight' = inFlight
  <2>1. AnswersAreSound' /\ \A a \in answers' \ answers : a.to = p.channel
    <3>1. {Accepted} \in SUBSET Body /\ Verified \notin {Accepted}
      BY DEF Body, Accepted, Verified
    <3> QED
      BY <1>1, <1>3, <1>8, <3>1, ReplyAnswers DEF Inv
  <2>2. Begin(n, t, p.peer, offered[t])
    BY <1>3, <1>8
  <2>3. \A m \in Node : DOMAIN pending'[m] \subseteq DOMAIN pending[m] \ {t}
    BY <1>3, <1>6
  <2>4. RecvInv /\ up \subseteq Node /\ n \in up /\ t \in DOMAIN offered \ agreed
    BY <1>1, <1>3, Basics DEF Inv
  <2>5. /\ \A r \in inFlight' : r.kind = "Offer" => r.id # t
        /\ \A a \in answers' \ answers : OfTransfer(a.to) => a.to.id = t
        /\ UNCHANGED <<up, offered, saved>>
    BY <1>1, <1>2, <1>3, <1>8, <2>1
  <2>6. /\ DOMAIN pending' = Node
        /\ \A m \in Node :
             /\ DOMAIN pending'[m] \subseteq DOMAIN pending[m] \ {t}
             /\ \A x \in DOMAIN pending'[m] : pending'[m][x] = pending[m][x]
    BY <1>6, <2>3
  <2>7. /\ offered[t] \in Nat /\ SlotFree(incoming[n]) /\ agreed' = agreed \cup {t}
        /\ inFlight' \subseteq inFlight
    BY <1>1, <1>3, <1>8
  <2>8. RecvInv'
    BY <2>2, <2>4, <2>5, <2>6, <2>7, AgreedBegins
  <2> QED
    BY <1>4, <1>5, <2>1, <2>8 DEF Inv
<1> QED
  BY <1>1, <1>7, <1>8

\* What is pending is turned down.
LEMMA TurnDownKeeps ==
  ASSUME Inv, NEW n \in Node, NEW t, TurnDown(n, t)
  PROVE  Inv'
<1> SUFFICES ASSUME NEW c, c = pending[n][t].channel PROVE Inv'
  OBVIOUS
<1>1. /\ n \in up /\ t \in DOMAIN pending[n]
      /\ pending' = [pending EXCEPT ![n] = Drop(@, {t})]
      /\ Reply(c, {Refused}) /\ inFlight' = inFlight
      /\ UNCHANGED <<up, tracked, sending, sharing>>
      /\ UNCHANGED <<incoming, parts, agreed, taken, saved>>
  BY DEF TurnDown
<1>2. offered' = offered /\ claimed' = claimed
  BY <1>1 DEF sending, sharing
<1>3. c \notin inFlight
  BY <1>1, PendingOffer
<1>4. SendInv'
  BY <1>1, <1>2, SendersRest DEF Inv
<1>5. AnswersAreSound' /\ \A a \in answers' \ answers : a.body = Refused
  <2>1. {Refused} \in SUBSET Body /\ Verified \notin {Refused}
    BY BodiesDiffer DEF Body
  <2>2. AnswersAreSound' /\ \A a \in answers' \ answers : a.body \in {Refused}
    BY <1>1, <1>3, <2>1, ReplyAnswers DEF Inv
  <2> QED
    BY <2>2
<1>6. RecvInv'
  BY <1>1, <1>2, <1>5, Basics, PendingGone DEF Inv
<1>7. SharesAreSound'
  BY <1>1, SharesRest DEF Inv
<1> QED
  BY <1>4, <1>5, <1>6, <1>7 DEF Inv

\* A chunk is received or torn.
LEMMA OnChunkKeeps ==
  ASSUME Inv, NEW r \in inFlight, OnChunk(r)
  PROVE  Inv'
<1>1. /\ r.kind = "Chunk" /\ OfTransfer(r) /\ r.to \in up /\ Expected(r.to, r)
      /\ UNCHANGED <<up, tracked, pending, agreed, taken, saved, sending, sharing>>
  BY DEF OnChunk, Arrives, OfTransfer
<1>2. PICK body \in Body \ {Verified} :
        /\ inFlight' = inFlight \ {r} /\ Reply(r, {body})
        /\ ChunkWritten(r.to, r.id, r.data) \/ (ChunkTorn(r.to, r.id) /\ body = Refused)
  <2>1. CASE /\ ChunkWritten(r.to, r.id, r.data)
             /\ Take(r, {Ack(Received(r.to, r.id) + 1)})
    <3>1. r.to \in Node /\ r.id \in DOMAIN incoming[r.to]
      BY <1>1, Basics DEF Expected
    <3>2. incoming[r.to][r.id].hashed \in Seq(Nat)
      BY <3>1 DEF Inv, RecvInv, ReceiversAreSound
    <3>3. Received(r.to, r.id) + 1 \in Nat
      <4> SUFFICES ASSUME NEW h \in Seq(Nat), Received(r.to, r.id) = Len(h)
                   PROVE  Received(r.to, r.id) + 1 \in Nat
        BY <3>2 DEF Received
      <4> QED
        OBVIOUS
    <3>4. Ack(Received(r.to, r.id) + 1) \in Body \ {Verified}
      BY <3>3, BodiesDiffer DEF Body
    <3> QED
      BY <2>1, <3>4 DEF Take
  <2>2. CASE ChunkTorn(r.to, r.id) /\ Take(r, {Refused})
    <3>1. Refused \in Body \ {Verified}
      BY BodiesDiffer DEF Body
    <3> QED
      BY <2>2, <3>1 DEF Take
  <2> QED
    BY <2>1, <2>2 DEF OnChunk, ChunkWritten, ChunkTorn
<1>3. offered' = offered /\ claimed' = claimed
  BY <1>1 DEF sending, sharing
<1>4. SendInv'
  BY <1>1, <1>2, <1>3, SendersRest DEF Inv
<1>5. AnswersAreSound' /\ \A a \in answers' \ answers : a.to = r /\ a.body \in {body}
  BY <1>1, <1>2, ReplyAnswers DEF Inv
<1>6. RecvInv'
  <2>1. r.data \in Nat /\ r.id \in DOMAIN offered /\ offered[r.id] \in Nat
    BY <1>1, Basics DEF RequestIsTyped
  <2>4. r.id \in DOMAIN incoming[r.to] /\ Received(r.to, r.id) + 1 <= incoming[r.to][r.id].size
    BY <1>1 DEF Expected
  <2>2. /\ \A q \in inFlight : OfTransfer(q) /\ q.id = r.id => q = r
        /\ \A a \in answers : OfTransfer(a.to) => a.to.id # r.id
    BY <1>1, OneRequest
  <2>3. \/ ChunkWritten(r.to, r.id, r.data)
        \/ ChunkTorn(r.to, r.id) /\ \A a \in answers' \ answers : a.body = Refused
    BY <1>2, <1>5
  <2> QED
    BY <1>1, <1>2, <1>3, <1>5, <2>1, <2>2, <2>3, <2>4, Basics, ChunkReceived DEF Inv
<1>7. SharesAreSound'
  BY <1>1, SharesRest DEF Inv
<1> QED
  BY <1>4, <1>5, <1>6, <1>7 DEF Inv
\* A transfer that is complete is saved or discarded.
LEMMA OnCompleteKeeps ==
  ASSUME Inv, NEW r \in inFlight, OnComplete(r)
  PROVE  Inv'
<1>1. /\ r.kind = "Complete" /\ OfTransfer(r) /\ r.to \in up
      /\ UNCHANGED <<up, tracked, pending, agreed, taken, sending, sharing>>
  BY DEF OnComplete, Arrives, OfTransfer
<1>2. offered' = offered /\ claimed' = claimed
  BY <1>1 DEF sending, sharing
<1>3. ASSUME NEW body \in {Refused, Verified}, Take(r, {body}),
             DOMAIN saved \subseteq DOMAIN saved', body = Verified => r.id \in DOMAIN saved'
      PROVE  /\ SendInv' /\ AnswersAreSound' /\ SharesAreSound' /\ inFlight' = inFlight \ {r}
             /\ \A a \in answers' \ answers : a.to = r /\ a.body = body
  <2>1. inFlight' = inFlight \ {r} /\ Reply(r, {body})
    BY <1>3 DEF Take
  <2>2. SendInv'
    BY <1>1, <1>2, <2>1, SendersRest DEF Inv
  <2>3. AnswersAreSound' /\ \A a \in answers' \ answers : a.to = r /\ a.body \in {body}
    <3>1. {body} \in SUBSET Body /\ (Verified \in {body} => r.id \in DOMAIN saved')
      BY <1>3 DEF Body
    <3> QED
      BY <1>1, <1>3, <2>1, <3>1, ReplyAnswers DEF Inv
  <2>4. SharesAreSound'
    BY <1>1, SharesRest DEF Inv
  <2> QED
    BY <2>1, <2>2, <2>3, <2>4
<1>4. CASE Take(r, {Refused}) /\ UNCHANGED <<incoming, parts, saved>>
  BY <1>1, <1>4, RefusalKeeps DEF receiving
<1>5. CASE /\ r.id \in DOMAIN incoming[r.to] /\ Discard(r.to, {r.id})
           /\ Take(r, {Refused}) /\ UNCHANGED saved
  <2>1. /\ SendInv' /\ AnswersAreSound' /\ SharesAreSound' /\ inFlight' = inFlight \ {r}
        /\ \A a \in answers' \ answers : a.body = Refused
    BY <1>3, <1>5, BodiesDiffer
  <2>2. RecvInv'
    BY <1>1, <1>2, <1>5, <2>1, Basics, ReceiversDiscard DEF Inv, RecvInv, ReceiversAreSound
  <2> QED
    BY <2>1, <2>2 DEF Inv
<1>6. CASE /\ r.id \in DOMAIN incoming[r.to] /\ Discard(r.to, {r.id})
           /\ saved' = Put(saved, r.id, parts[r.to][r.id]) /\ Take(r, {Verified})
  <2>1. DOMAIN saved' = DOMAIN saved \cup {r.id}
    BY <1>6 DEF Put
  <2>2. /\ SendInv' /\ AnswersAreSound' /\ SharesAreSound' /\ inFlight' = inFlight \ {r}
        /\ \A a \in answers' \ answers : a.to = r
    BY <1>3, <1>6, <2>1
  <2>3. RecvInv'
    BY <1>1, <1>2, <1>6, <2>2, Basics, FileSaved DEF Inv
  <2> QED
    BY <2>2, <2>3 DEF Inv
<1> QED
  BY <1>4, <1>5, <1>6 DEF OnComplete

\* An idle transfer is discarded.
LEMMA IncomingExpiresKeeps ==
  ASSUME Inv, NEW n \in Node, NEW t, IncomingExpires(n, t)
  PROVE  Inv'
<1>1. /\ Discard(n, {t}) /\ UNCHANGED <<up, tracked, pending, agreed, taken, saved>>
      /\ UNCHANGED <<inFlight, answers, sending, sharing>>
  BY DEF IncomingExpires, network
<1>2. offered' = offered /\ claimed' = claimed
  BY <1>1 DEF sending, sharing
<1>3. SendInv'
  BY <1>1, <1>2, SendersRest DEF Inv
<1>4. AnswersAreSound'
  BY <1>1, AnswersRest DEF Inv
<1>5. RecvInv'
  BY <1>1, <1>2, Basics, ReceiversDiscard DEF Inv, RecvInv, ReceiversAreSound
<1>6. SharesAreSound'
  BY <1>1, SharesRest DEF Inv
<1> QED
  BY <1>3, <1>4, <1>5, <1>6 DEF Inv

\* What a node has to do with some transfers ends on every side: what is pending, received,
\* sent and awaited, while nothing new gets on its way.
LEMMA AllEnds ==
  ASSUME Inv, NEW n \in Node, NEW P, NEW I, NEW O,
         pending' = [pending EXCEPT ![n] = Drop(@, P)],
         Discard(n, I), tracked' = Untracked(n, O), StopSending(n, O, "failed"),
         inFlight' \subseteq inFlight, answers' \subseteq AnswersTo(tracked'),
         UNCHANGED <<up, offered, agreed, taken, saved, sharing>>
  PROVE  Inv'
<1>1. claimed' = claimed
  BY DEF sharing
<1>2. SendInv'
  BY <1>1, UntrackedSends DEF Inv
<1>3. tracked' \subseteq tracked
  BY DEF Untracked
<1>4. AnswersAreSound' /\ answers' \subseteq answers
  BY <1>3, UntrackedAnswers DEF Inv
<1>5. /\ DOMAIN pending' = Node
      /\ \A m \in Node :
           /\ DOMAIN pending'[m] = DOMAIN pending[m] \ {t \in P : m = n}
           /\ \A t \in DOMAIN pending'[m] : pending'[m][t] = pending[m][t]
  BY PendingDropped DEF Inv, RecvInv
<1>6. \A m \in Node : DOMAIN pending'[m] \subseteq DOMAIN pending[m]
  BY <1>5
<1>7. RecvInv'
  BY <1>4, <1>5, <1>6, Basics, ReceiversDiscard DEF Inv
<1>8. SharesAreSound'
  BY SharesRest DEF Inv
<1> QED
  BY <1>2, <1>4, <1>7, <1>8 DEF Inv

\* The peer cancels: all that this node has of the transfer with it ends.
LEMMA OnCancelKeeps ==
  ASSUME Inv, NEW r \in inFlight, OnCancel(r)
  PROVE  Inv'
<1>1. r.to \in Node
  BY Basics DEF OnCancel, Arrives
<1>2. PICK P, I, O :
        /\ pending' = [pending EXCEPT ![r.to] = Drop(@, P)]
        /\ Discard(r.to, I) /\ tracked' = Untracked(r.to, O) /\ StopSending(r.to, O, "failed")
  <2> DEFINE With(f) == {t \in DOMAIN f \cap {r.id} : f[t].peer = r.from}
  <2>1. pending' = [pending EXCEPT ![r.to] = Drop(@, With(pending[r.to]))]
    BY DEF OnCancel
  <2>2. /\ Discard(r.to, With(incoming[r.to])) /\ tracked' = Untracked(r.to, With(outgoing[r.to]))
        /\ StopSending(r.to, With(outgoing[r.to]), "failed")
    BY DEF OnCancel
  <2> HIDE DEF With
  <2> QED
    BY <2>1, <2>2
<1>3. inFlight' \subseteq inFlight /\ answers' = AnswersTo(tracked')
      /\ UNCHANGED <<up, offered, agreed, taken, saved, sharing>>
  BY DEF OnCancel
<1> QED
  BY <1>1, <1>2, <1>3, AllEnds

\* The last connection to a peer closes: all that this node has with it ends.
LEMMA OnConnectionClosedKeeps ==
  ASSUME Inv, NEW n \in Node, NEW m \in Node, OnConnectionClosed(n, m)
  PROVE  Inv'
<1>1. PICK P, I, O :
        /\ pending' = [pending EXCEPT ![n] = Drop(@, P)]
        /\ Discard(n, I) /\ tracked' = Untracked(n, O) /\ StopSending(n, O, "failed")
  <2> DEFINE Of(f) == {t \in DOMAIN f[n] : f[n][t].peer = m}
  <2>1. pending' = [pending EXCEPT ![n] = Drop(@, Of(pending))]
    BY DEF OnConnectionClosed
  <2>2. /\ Discard(n, Of(incoming)) /\ tracked' = Untracked(n, Of(outgoing))
        /\ StopSending(n, Of(outgoing), "failed")
    BY DEF OnConnectionClosed
  <2> HIDE DEF Of
  <2> QED
    BY <2>1, <2>2
<1>2. inFlight' \subseteq inFlight /\ answers' \subseteq AnswersTo(tracked')
      /\ UNCHANGED <<up, offered, agreed, taken, saved, sharing>>
  BY DEF OnConnectionClosed
<1> QED
  BY <1>1, <1>2, AllEnds
-----------------------------------------------------------------------------
(***************************************************************************)
(* Shares, and tasks that end.                                             *)
(***************************************************************************)
\* When only the shares change, the transfers are as sound as they were.
LEMMA TransfersRest ==
  ASSUME Inv, UNCHANGED <<up, tracked, claimed, network, sending, receiving>>
  PROVE  SendInv' /\ AnswersAreSound' /\ RecvInv'
<1>1. UNCHANGED <<inFlight, answers, offered, pending, incoming, parts, agreed, saved>>
  BY DEF network, sending, receiving
<1>2. SendInv'
  BY <1>1, SendersRest DEF Inv
<1>3. AnswersAreSound'
  BY <1>1, AnswersRest DEF Inv
<1>4. RecvInv'
  BY <1>1, Basics, ReceiversRest DEF Inv
<1> QED
  BY <1>2, <1>3, <1>4

\* Shares that are dropped or forgotten take their claims with them.
LEMMA SharesShrink ==
  ASSUME SharesAreSound, up' \subseteq up, shared' \subseteq shared,
         DOMAIN known' = Node, DOMAIN claims' = Node,
         \A n \in Node :
           known'[n] \subseteq known[n] /\ claims'[n] \subseteq claims[n] \cap known'[n],
         UNCHANGED <<announced, claimed, taken>>
  PROVE  SharesAreSound'
<1>1. ASSUME NEW n \in Node
      PROVE  /\ known'[n] \subseteq Share /\ claims'[n] \subseteq known'[n]
             /\ IsFiniteSet(claims'[n])
             /\ Cardinality(taken[n]) + Cardinality(claims'[n]) <= claimed[n]
  <2>1. /\ IsFiniteSet(claims[n]) /\ IsFiniteSet(taken[n]) /\ claimed[n] \in Nat
        /\ Cardinality(taken[n]) + Cardinality(claims[n]) <= claimed[n]
        /\ known[n] \subseteq Share
    BY DEF SharesAreSound
  <2>2. claims'[n] \subseteq claims[n]
    OBVIOUS
  <2>3. IsFiniteSet(claims'[n]) /\ Cardinality(claims'[n]) <= Cardinality(claims[n])
    BY <2>1, <2>2, FS_Subset
  <2>4. /\ Cardinality(taken[n]) \in Nat /\ Cardinality(claims[n]) \in Nat
        /\ Cardinality(claims'[n]) \in Nat
    BY <2>1, <2>3, FS_CardinalityType
  <2> QED
    BY <2>1, <2>3, <2>4
<1> QED
  BY <1>1 DEF SharesAreSound

\* A share is announced.
LEMMA PublishShareKeeps ==
  ASSUME Inv, NEW s \in Share, PublishShare(s)
  PROVE  Inv'
<1>1. SendInv' /\ AnswersAreSound' /\ RecvInv'
  BY TransfersRest DEF PublishShare
<1>2. SharesAreSound'
  BY DEF Inv, SharesAreSound, PublishShare, receiving
<1> QED
  BY <1>1, <1>2 DEF Inv

\* An announcement arrives.
LEMMA OnPublicFileOfferKeeps ==
  ASSUME Inv, NEW n \in Node, NEW s \in Share, OnPublicFileOffer(n, s)
  PROVE  Inv'
<1>1. SendInv' /\ AnswersAreSound' /\ RecvInv'
  BY TransfersRest DEF OnPublicFileOffer
<1>2. SharesAreSound'
  BY DEF Inv, SharesAreSound, OnPublicFileOffer, receiving
<1> QED
  BY <1>1, <1>2 DEF Inv

\* A share is forgotten, or a claim of it.
LEMMA ShareExpiresKeeps ==
  ASSUME Inv, NEW n \in Node, NEW s \in Share, ShareExpires(n, s)
  PROVE  Inv'
<1>1. SendInv' /\ AnswersAreSound' /\ RecvInv'
  BY TransfersRest DEF ShareExpires
<1>2. SharesAreSound'
  <2>1. /\ DOMAIN known = Node /\ DOMAIN claims = Node
        /\ \A m \in Node : claims[m] \subseteq known[m]
    BY DEF Inv, SharesAreSound
  <2>2. shared' \subseteq shared /\ UNCHANGED <<up, announced, claimed, taken>>
    BY DEF ShareExpires, receiving
  <2>3. /\ DOMAIN known' = Node /\ DOMAIN claims' = Node
        /\ \A m \in Node :
             known'[m] \subseteq known[m] /\ claims'[m] \subseteq claims[m] \cap known'[m]
    BY <2>1 DEF ShareExpires
  <2> QED
    BY <2>2, <2>3, SharesShrink DEF Inv
<1> QED
  BY <1>1, <1>2 DEF Inv

\* A claim is counted with its request.
LEMMA ClaimShareKeeps ==
  ASSUME Inv, NEW n \in Node, NEW s \in Share, ClaimShare(n, s)
  PROVE  Inv'
<1>1. /\ s \in known[n] /\ Ask(ClaimPublic(n, s))
      /\ claims' = [claims EXCEPT ![n] = @ \cup {s}]
      /\ claimed' = [claimed EXCEPT ![n] = @ + 1]
      /\ UNCHANGED <<up, announced, shared, known, sending, receiving>>
  BY DEF ClaimShare
<1>2. /\ DOMAIN claims = Node /\ DOMAIN claimed = Node /\ Sharer[s] \in Node
      /\ \A m \in Node :
           /\ known[m] \subseteq Share /\ claims[m] \subseteq known[m] /\ claimed[m] \in Nat
           /\ IsFiniteSet(claims[m]) /\ IsFiniteSet(taken[m])
           /\ Cardinality(taken[m]) + Cardinality(claims[m]) <= claimed[m]
  BY FileTransferAssumption DEF Inv, SharesAreSound
<1>3. SendInv'
  BY <1>1, <1>2, NewClaimSends DEF Inv
<1> SUFFICES ASSUME NEW q, q = ClaimPublic(n, s) PROVE Inv'
  OBVIOUS
<1>4. /\ tracked' = tracked \cup {q} /\ inFlight' = inFlight \cup {q} /\ answers' = answers
      /\ UNCHANGED <<offered, pending, incoming, parts, agreed, saved, taken>>
  BY <1>1 DEF Ask, sending, receiving
<1>5. ~OfTransfer(q) /\ q \notin tracked
  <2>1. q.kind = "ClaimPublic" /\ q.turn = claimed[n] /\ q.from = n
    BY DEF ClaimPublic
  <2>2. \A r \in tracked : r.kind = "ClaimPublic" => r.turn \in Nat /\ r.turn < claimed[r.from]
    BY Basics DEF RequestIsTyped
  <2> QED
    BY <1>2, <2>1, <2>2 DEF OfTransfer
<1>6. AnswersAreSound'
  BY <1>4, <1>5, AnswersRest DEF Inv
<1>7. RecvInv'
  BY <1>1, <1>4, <1>5, Basics, ReceiversRest DEF Inv
<1>8. SharesAreSound'
  <2>1. /\ DOMAIN claims' = Node /\ claims'[n] = claims[n] \cup {s}
        /\ DOMAIN claimed' = Node /\ claimed'[n] = claimed[n] + 1
        /\ \A m \in Node \ {n} : claims'[m] = claims[m] /\ claimed'[m] = claimed[m]
    BY <1>1, <1>2
  <2>2. /\ IsFiniteSet(claims[n] \cup {s})
        /\ Cardinality(claims[n] \cup {s}) \in {Cardinality(claims[n]), Cardinality(claims[n]) + 1}
    BY <1>2, FS_AddElement
  <2>3. Cardinality(taken[n]) \in Nat /\ Cardinality(claims[n]) \in Nat
    BY <1>2, FS_CardinalityType
  <2>4. /\ IsFiniteSet(claims'[n]) /\ claimed'[n] \in Nat
        /\ Cardinality(taken[n]) + Cardinality(claims'[n]) <= claimed'[n]
    BY <1>2, <2>1, <2>2, <2>3
  <2>5. ASSUME NEW m \in Node
        PROVE  /\ claims'[m] \subseteq known[m] /\ claimed'[m] \in Nat /\ IsFiniteSet(claims'[m])
               /\ Cardinality(taken[m]) + Cardinality(claims'[m]) <= claimed'[m]
    BY <1>1, <1>2, <2>1, <2>4
  <2> QED
    BY <1>1, <1>2, <1>4, <2>1, <2>5 DEF Inv, SharesAreSound
<1> QED
  BY <1>3, <1>6, <1>7, <1>8 DEF Inv

\* A claim makes the sharer offer a transfer of its own.
LEMMA OnClaimPublicKeeps ==
  ASSUME Inv, NEW r \in inFlight, OnClaimPublic(r)
  PROVE  Inv'
<1>1. /\ r.kind = "ClaimPublic" /\ ~OfTransfer(r) /\ r.to \in up
      /\ UNCHANGED <<up, outcome, announced, known, claims, claimed>>
      /\ UNCHANGED <<pending, incoming, parts, agreed, taken, saved>>
  BY DEF OnClaimPublic, Arrives, OfTransfer, receiving
<1>2. SharesAreSound'
  BY <1>1 DEF Inv, SharesAreSound, OnClaimPublic
<1>3. ASSUME NEW t \in Transfer \ DOMAIN offered,
             NEW q, q = Offer(r.to, r.from, t, ShareSize[r.id], r.id),
             SlotFree(outgoing[r.to]), r.id \in shared,
             outgoing' = [outgoing EXCEPT ![r.to] = Put(@, t, Waiting(r.from, q.size))],
             offered' = Put(offered, t, q.size),
             tracked' = tracked \cup {q},
             inFlight' = (inFlight \ {r}) \cup {q}, Reply(r, {Accepted})
      PROVE  Inv'
  <2>1. /\ q.id = t /\ q.kind = "Offer" /\ OfTransfer(q) /\ q.size = ShareSize[r.id] /\ q # r
    BY <1>1, <1>3 DEF Offer, OfTransfer
  <2>2. /\ r.id \in Share /\ r.to \in Node /\ r.from \in Node
    BY <1>1, <1>3, Basics DEF Inv, SharesAreSound, RequestIsTyped
  <2>3. SendInv'
    <3>1. ShareSize[r.id] \in FileSize \cup {ShareSize[x] : x \in Share}
      BY <2>2
    <3>2. /\ outgoing' = [outgoing EXCEPT ![r.to] = Put(@, t, Waiting(r.from, ShareSize[r.id]))]
          /\ offered' = Put(offered, t, ShareSize[r.id])
      BY <1>3, <2>1
    <3>3. /\ tracked' = tracked \cup {Offer(r.to, r.from, t, ShareSize[r.id], r.id)}
          /\ \A x \in inFlight' :
               x \in inFlight \/ x = Offer(r.to, r.from, t, ShareSize[r.id], r.id)
      BY <1>3
    <3>4. SendInv /\ UNCHANGED <<outcome, claimed>> /\ SlotFree(outgoing[r.to])
      BY <1>1, <1>3 DEF Inv
    <3> HIDE DEF Inv
    <3> QED
      BY <2>2, <3>1, <3>2, <3>3, <3>4, NewOfferSends
  <2>4. q \notin tracked \cup inFlight
    BY <1>3, <2>1, Basics DEF RequestIsTyped
  <2>5. \A a \in answers' : a \in answers \/ (r \in tracked /\ a.to = r /\ a.body = Accepted)
    BY <1>3 DEF Reply
  <2>6. AnswersAreSound'
    <3>1. \A a \in answers : a.to \in tracked \ inFlight
      BY DEF Inv, AnswersAreSound
    <3>2. Accepted \in Body /\ Accepted # Verified
      BY DEF Body, Accepted, Verified
    <3> QED
      BY <1>1, <1>3, <2>1, <2>4, <2>5, <3>1, <3>2, AnswersKept DEF Inv
  <2>7. RecvInv'
    <3>1. Intact(t)
      BY <1>3, Basics, NotAgreedIsIntact DEF Inv
    <3>2. /\ DOMAIN offered \subseteq DOMAIN offered'
          /\ \A x \in DOMAIN offered : offered'[x] = offered[x]
      BY <1>3 DEF Put
    <3>3. \A a \in answers' \ answers : ~OfTransfer(a.to)
      BY <1>1, <2>5
    <3> QED
      BY <1>1, <1>3, <2>1, <3>1, <3>2, <3>3, Basics, ReceiversRest DEF Inv
  <2> QED
    BY <1>2, <2>3, <2>6, <2>7 DEF Inv
<1>4. CASE Take(r, {Refused}) /\ UNCHANGED <<outgoing, offered, tracked>>
  <2>1. inFlight' = inFlight \ {r} /\ Reply(r, {Refused})
    BY <1>4 DEF Take
  <2>2. SendInv'
    BY <1>1, <1>4, <2>1, SendersRest DEF Inv, sending
  <2>3. AnswersAreSound' /\ \A a \in answers' \ answers : a.body = Refused
    <3>1. {Refused} \in SUBSET Body /\ Verified \notin {Refused}
      BY BodiesDiffer DEF Body
    <3>2. AnswersAreSound' /\ \A a \in answers' \ answers : a.body \in {Refused}
      BY <1>1, <1>4, <2>1, <3>1, ReplyAnswers DEF Inv
    <3> QED
      BY <3>2
  <2>4. RecvInv'
    BY <1>1, <1>4, <2>1, <2>3, Basics, ReceiversRest DEF Inv
  <2> QED
    BY <1>2, <2>2, <2>3, <2>4 DEF Inv
<1> QED
  BY <1>3, <1>4 DEF OnClaimPublic
\* A task ends with everything its node had but the files left behind.
LEMMA LeaveKeeps ==
  ASSUME Inv, NEW n \in Node, Leave(n)
  PROVE  Inv'
<1>1. /\ up' = up \ {n}
      /\ parts' = parts \/ parts' = [parts EXCEPT ![n] = Empty]
      /\ pending' = [pending EXCEPT ![n] = Empty] /\ incoming' = [incoming EXCEPT ![n] = Empty]
      /\ outgoing' = [outgoing EXCEPT ![n] = Empty]
      /\ tracked' = {r \in tracked : r.from # n}
      /\ shared' = {s \in shared : Sharer[s] # n}
      /\ known' = [known EXCEPT ![n] = {}] /\ claims' = [claims EXCEPT ![n] = {}]
      /\ inFlight' = {r \in inFlight : r.to # n}
      /\ answers' = AnswersTo(tracked')
      /\ UNCHANGED <<announced, offered, outcome, agreed, taken, saved, claimed>>
  BY DEF Leave
<1>2. DOMAIN Empty = {}
  BY DEF Empty
<1>3. SendInv'
  <2>1. DOMAIN outgoing = Node
    BY DEF Inv, SendInv, SendersAreSound
  <2>2. /\ DOMAIN outgoing' = Node
        /\ \A m \in Node :
             /\ DOMAIN outgoing'[m] \subseteq DOMAIN outgoing[m]
             /\ \A t \in DOMAIN outgoing'[m] : outgoing'[m][t] = outgoing[m][t]
    BY <1>1, <1>2, <2>1
  <2>3. ASSUME NEW r \in tracked, OfTransfer(r)
        PROVE  r \in tracked' <=> r.id \in DOMAIN outgoing'[r.from]
    <3>1. r.from \in Node /\ r.id \in DOMAIN outgoing[r.from]
      BY <2>3, Basics, AwaitedSlot DEF RequestIsTyped
    <3> QED
      BY <1>1, <1>2, <2>1, <3>1
  <2>4. /\ RequestsAreTyped' /\ OffersAreTyped' /\ SendersAreSound'
        /\ StepsAreSingle' /\ StepsAreAwaited'
    BY <1>1, <2>2, <2>3, SendersShrink DEF Inv
  <2>5. OutcomesAreTold'
    BY <1>1, <2>2 DEF Inv, SendInv, OutcomesAreTold
  <2> QED
    BY <2>4, <2>5 DEF SendInv
<1>4. AnswersAreSound' /\ answers' \subseteq answers
  BY <1>1, UntrackedAnswers DEF Inv
<1>5. RecvInv'
  <2>1. DOMAIN pending = Node /\ DOMAIN incoming = Node /\ DOMAIN parts = Node
    BY DEF Inv, RecvInv, ReceiversAreSound
  <2>2. /\ DOMAIN pending' = Node /\ DOMAIN incoming' = Node /\ DOMAIN parts' = Node
        /\ \A m \in Node :
             /\ DOMAIN pending'[m] \subseteq DOMAIN pending[m]
             /\ \A t \in DOMAIN pending'[m] : pending'[m][t] = pending[m][t]
             /\ DOMAIN incoming'[m] \subseteq DOMAIN incoming[m]
             /\ \A t \in DOMAIN incoming'[m] : incoming'[m][t] = incoming[m][t]
    BY <1>1, <1>2, <2>1
  <2>3. \A m \in up' : /\ DOMAIN parts'[m] = DOMAIN incoming'[m]
                       /\ \A t \in DOMAIN incoming'[m] : parts'[m][t] = parts[m][t]
    BY <1>1, <2>1, Basics DEF Inv, RecvInv, PartsAreSound
  <2> QED
    BY <1>1, <1>4, <2>2, <2>3, Basics, ReceiversShrink DEF Inv
<1>6. SharesAreSound'
  <2>1. DOMAIN known = Node /\ DOMAIN claims = Node /\ \A m \in Node : claims[m] \subseteq known[m]
    BY DEF Inv, SharesAreSound
  <2>2. /\ DOMAIN known' = Node /\ DOMAIN claims' = Node
        /\ \A m \in Node :
             known'[m] \subseteq known[m] /\ claims'[m] \subseteq claims[m] \cap known'[m]
    BY <1>1, <2>1
  <2> QED
    BY <1>1, <2>2, SharesShrink DEF Inv
<1> QED
  BY <1>3, <1>4, <1>5, <1>6 DEF Inv

-----------------------------------------------------------------------------
(***************************************************************************)
(* The theorems.                                                           *)
(***************************************************************************)
\* Nothing is offered, shared or claimed at first.
LEMMA InitInv == Init => Inv
<1> SUFFICES ASSUME Init PROVE Inv
  OBVIOUS
<1>1. DOMAIN Empty = {}
  BY DEF Empty
<1>2. IsFiniteSet({}) /\ Cardinality({}) = 0
  BY FS_EmptySet
<1>3. SendInv
  <2>1. outcome = [t \in DOMAIN outcome |-> outcome[t]]
    BY DEF Init, Empty
  <2> QED
    BY <1>1, <1>2, <2>1, FileTransferAssumption
       DEF Init, SendInv, RequestsAreTyped, OffersAreTyped, OutcomesAreTold, SendersAreSound,
           StepsAreSingle, StepsAreAwaited
<1>4. AnswersAreSound
  BY DEF Init, AnswersAreSound
<1>5. RecvInv
  BY <1>1, <1>2, FileTransferAssumption
     DEF Init, RecvInv, ReceiversAreSound, StagesAreOrdered, PartsAreSound
<1>6. SharesAreSound
  BY <1>2 DEF Init, SharesAreSound
<1> QED
  BY <1>3, <1>4, <1>5, <1>6 DEF Inv

\* Nothing changes.
LEMMA StutterKeeps == ASSUME Inv, UNCHANGED vars PROVE Inv'
<1>1. SendInv' /\ AnswersAreSound' /\ RecvInv'
  BY TransfersRest DEF vars, sharing
<1>2. SharesAreSound'
  BY SharesRest DEF Inv, vars, receiving
<1> QED
  BY <1>1, <1>2 DEF Inv

\* Every step keeps the invariant.
LEMMA NextInv == Inv /\ [Next]_vars => Inv'
<1> SUFFICES ASSUME Inv, [Next]_vars PROVE Inv'
  OBVIOUS
<1>1. ASSUME NEW n \in Node, NEW m \in Node, NEW t \in Transfer, NEW size \in FileSize,
             OfferFile(n, m, t, size)
      PROVE  Inv'
  BY <1>1, OfferFileKeeps
<1>2. ASSUME NEW n \in Node, NEW t \in Transfer,
             AcceptFile(n, t) \/ TurnDown(n, t) \/ IncomingExpires(n, t) \/ CancelFile(n, t)
      PROVE  Inv'
  BY <1>2, AcceptFileKeeps, TurnDownKeeps, IncomingExpiresKeeps, CancelFileKeeps
<1>3. ASSUME NEW s \in Share, PublishShare(s) PROVE Inv'
  BY <1>3, PublishShareKeeps
<1>4. ASSUME NEW n \in Node, NEW s \in Share,
             OnPublicFileOffer(n, s) \/ ShareExpires(n, s) \/ ClaimShare(n, s)
      PROVE  Inv'
  BY <1>4, OnPublicFileOfferKeeps, ShareExpiresKeeps, ClaimShareKeeps
<1>5. ASSUME NEW r \in inFlight, OnRequest(r) PROVE Inv'
  BY <1>5, OnOfferKeeps, OnClaimedOfferKeeps, RefuseOfferKeeps, OnChunkKeeps, OnCompleteKeeps,
     OnCancelKeeps, OnClaimPublicKeeps DEF OnRequest
<1>6. ASSUME NEW a \in answers, OnResponse(a) PROVE Inv'
  BY <1>6, OnResponseKeeps
<1>7. ASSUME NEW r \in tracked, OnOutboundFailure(r) PROVE Inv'
  BY <1>7, OnOutboundFailureKeeps
<1>8. ASSUME NEW n \in Node, NEW m \in Node, OnConnectionClosed(n, m) PROVE Inv'
  BY <1>8, OnConnectionClosedKeeps
<1>9. ASSUME NEW n \in Node, Leave(n) PROVE Inv'
  BY <1>9, LeaveKeeps
<1>10. CASE UNCHANGED vars
  BY <1>10, StutterKeeps
<1> QED
  BY <1>1, <1>2, <1>3, <1>4, <1>5, <1>6, <1>7, <1>8, <1>9, <1>10 DEF Next

\* The invariant holds of every state file transfer can be in.
THEOREM FileTransferInvariant == Spec => []Inv
<1> QED
  BY InitInv, NextInv, PTL DEF Spec
\* What the slots, the requests, the temporary files and the claims are kept by agrees: a
\* transfer that is sent waits for exactly one request, files on disk are those received,
\* and a claim lets one file in.
THEOREM TransfersStaySound == Spec => []TransfersAreSound
<1>1. ASSUME Inv PROVE TransfersAreSound
  <2>1. TypeOK
    <3>1. ASSUME NEW n \in Node
          PROVE  /\ known[n] \subseteq Share /\ claims[n] \subseteq known[n]
                 /\ DOMAIN outgoing[n] \cup DOMAIN pending[n] \cup DOMAIN incoming[n]
                      \subseteq DOMAIN offered
                 /\ Cardinality(DOMAIN outgoing[n]) <= MaxTransfers
                 /\ Cardinality(DOMAIN incoming[n]) <= MaxTransfers
                 /\ \A t \in DOMAIN outgoing[n] : outgoing[n][t].sent <= offered[t]
                 /\ \A t \in DOMAIN incoming[n] : Received(n, t) <= offered[t]
      <4>1. known[n] \subseteq Share /\ claims[n] \subseteq known[n]
        BY <1>1 DEF Inv, SharesAreSound
      <4>2. /\ DOMAIN outgoing[n] \subseteq DOMAIN offered
            /\ Cardinality(DOMAIN outgoing[n]) <= MaxTransfers
            /\ \A t \in DOMAIN outgoing[n] : outgoing[n][t].sent <= offered[t]
        BY <1>1 DEF Inv, SendInv, SendersAreSound
      <4>3. /\ DOMAIN pending[n] \subseteq DOMAIN offered
            /\ DOMAIN incoming[n] \subseteq DOMAIN offered
            /\ Cardinality(DOMAIN incoming[n]) <= MaxTransfers
            /\ \A t \in DOMAIN incoming[n] : Received(n, t) <= offered[t]
        BY <1>1 DEF Inv, RecvInv, ReceiversAreSound, StagesAreOrdered
      <4> QED
        BY <4>1, <4>2, <4>3
    <3>2. up \subseteq Node /\ shared \subseteq announced /\ announced \subseteq Share
      BY <1>1 DEF Inv, SharesAreSound
    <3>3. /\ DOMAIN offered \subseteq Transfer /\ DOMAIN outcome \subseteq DOMAIN offered
          /\ \A t \in DOMAIN offered : offered[t] \in FileSize \cup {ShareSize[s] : s \in Share}
          /\ \A t \in DOMAIN outcome : outcome[t] \in {"completed", "failed"}
      BY <1>1 DEF Inv, SendInv, OffersAreTyped, OutcomesAreTold
    <3>4. /\ DOMAIN saved \subseteq agreed /\ agreed \subseteq DOMAIN offered
          /\ \A a \in answers : a.to \in tracked \ inFlight
      BY <1>1 DEF Inv, RecvInv, StagesAreOrdered, AnswersAreSound
    <3> QED
      BY <3>1, <3>2, <3>3, <3>4 DEF TypeOK
  <2>2. TransfersAwaitAnswer
    <3> SUFFICES ASSUME NEW n \in up, NEW steps,
                        steps = {r \in tracked : r.from = n /\ OfTransfer(r)}
                 PROVE  /\ \A t \in DOMAIN outgoing[n] : Cardinality({r \in steps : r.id = t}) = 1
                        /\ \A r \in steps :
                             r.id \in DOMAIN outgoing[n] /\ r.to = outgoing[n][r.id].peer
      BY DEF TransfersAwaitAnswer
    <3>1. ASSUME NEW t \in DOMAIN outgoing[n]
          PROVE  Cardinality({r \in steps : r.id = t}) = 1
      <4>1. PICK r \in tracked : OfTransfer(r) /\ r.from = n /\ r.id = t
        BY <1>1, Basics DEF Inv, SendInv, StepsAreAwaited
      <4>2. {q \in steps : q.id = t} = {r}
        BY <1>1, <4>1 DEF Inv, SendInv, StepsAreSingle
      <4> QED
        BY <4>2, FS_Singleton
    <3>2. ASSUME NEW r \in steps
          PROVE  r.id \in DOMAIN outgoing[n] /\ r.to = outgoing[n][r.id].peer
      BY <1>1 DEF Inv, SendInv, StepsAreAwaited
    <3> QED
      BY <3>1, <3>2
  <2>3. PartsAreReceived
    BY <1>1 DEF Inv, RecvInv, PartsAreSound, PartsAreReceived, Abandoned
  <2>4. ClaimsTakeOnce
    BY <1>1 DEF Inv, SharesAreSound, ClaimsTakeOnce
  <2> QED
    BY <2>1, <2>2, <2>3, <2>4 DEF TransfersAreSound
<1> QED
  BY <1>1, FileTransferInvariant, PTL

-----------------------------------------------------------------------------
(***************************************************************************)
(* File transfer implements FileDelivery.                                  *)
(***************************************************************************)
Promise == <<offered, agreed, saved, outcome>>

\* Telling users how their transfers ended is an End, or tells nobody anything.
LEMMA TellEnds ==
  ASSUME Inv, NEW n \in Node, NEW T, NEW result, Tell(n, T, result),
         \/ result = "failed"
         \/ result = "completed" /\ T \subseteq DOMAIN saved,
         UNCHANGED <<offered, agreed, saved>>
  PROVE  Delivery!Next \/ UNCHANGED Promise
<1> DEFINE S == T \cap DOMAIN outgoing[n]
<1>1. outcome' = [t \in DOMAIN outcome \cup S |-> IF t \in S THEN result ELSE outcome[t]]
  BY DEF Tell
<1>2. CASE S = {}
  <2>1. outcome' = [t \in DOMAIN outcome |-> outcome[t]]
    BY <1>1, <1>2
  <2>2. outcome = [t \in DOMAIN outcome |-> outcome[t]]
    BY DEF Inv, SendInv, OutcomesAreTold
  <2> QED
    BY <2>1, <2>2 DEF Promise
<1>3. CASE S # {}
  <2>1. S \subseteq DOMAIN offered /\ S \in SUBSET Transfer /\ S \cap DOMAIN outcome = {}
    BY DEF Inv, SendInv, SendersAreSound, OffersAreTyped, OutcomesAreTold
  <2>2. Delivery!Extends(outcome, outcome', S)
    BY <1>1, <2>1 DEF Delivery!Extends
  <2>3. \A t \in S : outcome'[t] = "failed" \/ (outcome'[t] = "completed" /\ t \in DOMAIN saved)
    BY <1>1
  <2>4. Delivery!End(S)
    BY <1>3, <2>1, <2>2, <2>3 DEF Delivery!End
  <2> QED
    BY <2>1, <2>4 DEF Delivery!Next
<1> QED
  BY <1>2, <1>3

\* A new offer is an Offer.
LEMMA PutOffers ==
  ASSUME Inv, NEW t \in Transfer \ DOMAIN offered, NEW size \in Nat,
         offered' = Put(offered, t, size), UNCHANGED <<agreed, saved, outcome>>
  PROVE  Delivery!Next
<1>1. /\ DOMAIN offered' = DOMAIN offered \cup {t} /\ offered'[t] = size
      /\ \A x \in DOMAIN offered : offered'[x] = offered[x]
  BY DEF Put
<1>2. Delivery!Offer(t)
  BY <1>1 DEF Delivery!Offer, Delivery!Extends
<1> QED
  BY <1>2 DEF Delivery!Next

\* A transfer that is not agreed to yet is agreed to.
LEMMA Agrees ==
  ASSUME Inv, NEW t \in DOMAIN offered \ agreed, agreed' = agreed \cup {t},
         UNCHANGED <<offered, saved, outcome>>
  PROVE  Delivery!Next
<1>1. Delivery!Agree(t) /\ t \in Transfer
  BY DEF Delivery!Agree, Inv, SendInv, OffersAreTyped
<1> QED
  BY <1>1 DEF Delivery!Next

\* The file saved is the whole file: all of it was hashed, and the file holds what was.
LEMMA WholeIsSaved ==
  ASSUME Inv, NEW r \in inFlight, r.kind = "Complete", r.to \in up,
         r.id \in DOMAIN incoming[r.to], IsWhole(incoming[r.to][r.id], r.hash),
         saved' = Put(saved, r.id, parts[r.to][r.id]), UNCHANGED <<offered, agreed, outcome>>
  PROVE  Delivery!Next
<1> DEFINE i == incoming[r.to][r.id]
<1>1. /\ r.to \in Node /\ r.hash \in Nat /\ r.id \in Transfer
      /\ r.id \in agreed \ DOMAIN saved
  BY OneRequest, Basics
     DEF OfTransfer, RequestIsTyped, Inv, SendInv, OffersAreTyped, RecvInv, StagesAreOrdered
<1>2. i.hashed \in Seq(Nat) /\ i.size = offered[r.id]
  BY <1>1 DEF Inv, RecvInv, ReceiversAreSound
<1>3. Len(i.hashed) = i.size /\ i.hashed = [k \in 1..r.hash |-> k]
  BY DEF IsWhole
<1>4. r.hash = offered[r.id]
  <2>1. DOMAIN i.hashed = 1..Len(i.hashed) /\ Len(i.hashed) \in Nat
    BY <1>2
  <2>2. DOMAIN i.hashed = 1..r.hash
    BY <1>3
  <2>3. \A a, b \in Nat : 1..a = 1..b => a = b
    <3> SUFFICES ASSUME NEW a \in Nat, NEW b \in Nat, 1..a = 1..b PROVE a = b
      OBVIOUS
    <3>1. \A k \in Nat : k >= 1 => (k <= a <=> k <= b)
      OBVIOUS
    <3>2. (a >= 1 => a <= b) /\ (b >= 1 => b <= a)
      BY <3>1
    <3> QED
      BY <3>2
  <2> QED
    BY <1>1, <1>2, <1>3, <2>1, <2>2, <2>3
<1>5. parts[r.to][r.id] = Delivery!Whole(offered[r.id])
  <2>1. parts[r.to][r.id] = i.hashed
    BY OnItsWayIsIntact DEF Inv, Intact, OfTransfer
  <2> QED
    BY <1>3, <1>4, <2>1 DEF Delivery!Whole
<1>6. /\ DOMAIN saved' = DOMAIN saved \cup {r.id} /\ saved'[r.id] = Delivery!Whole(offered[r.id])
      /\ \A x \in DOMAIN saved : saved'[x] = saved[x]
  BY <1>1, <1>5 DEF Put
<1>7. Delivery!Save(r.id)
  BY <1>1, <1>6 DEF Delivery!Save, Delivery!Extends
<1> QED
  BY <1>1, <1>7 DEF Delivery!Next
\* Every step of the sender's handlers tells its users or nobody.
LEMMA SenderDelivers ==
  ASSUME Inv,
         \/ \E n \in Node, t \in Transfer : CancelFile(n, t)
         \/ \E a \in answers : OnResponse(a)
         \/ \E r \in tracked : OnOutboundFailure(r)
         \/ \E r \in inFlight : OnCancel(r)
         \/ \E n, m \in Node : OnConnectionClosed(n, m)
  PROVE  Delivery!Next \/ UNCHANGED Promise
<1>1. ASSUME NEW n \in Node, NEW T, StopSending(n, T, "failed"),
             UNCHANGED <<offered, agreed, saved>>
      PROVE  Delivery!Next \/ UNCHANGED Promise
  BY <1>1, TellEnds DEF StopSending
<1>2. ASSUME NEW r \in tracked, Fails(r), UNCHANGED <<offered, agreed, saved>>
      PROVE  Delivery!Next \/ UNCHANGED Promise
  <2>1. r.from \in Node
    BY Basics DEF RequestIsTyped
  <2> QED
    BY <1>1, <1>2, <2>1 DEF Fails, Finish
<1>3. ASSUME NEW n \in Node, NEW t \in Transfer, CancelFile(n, t)
      PROVE  Delivery!Next \/ UNCHANGED Promise
  <2>1. CASE StopSending(n, {t}, "failed") /\ UNCHANGED <<offered, receiving>>
    BY <1>1, <2>1 DEF receiving
  <2>2. CASE UNCHANGED <<sending, agreed, saved>>
    BY <2>2 DEF Promise, sending
  <2> QED
    BY <1>3, <2>1, <2>2 DEF CancelFile
<1>4. ASSUME NEW a \in answers, OnResponse(a)
      PROVE  Delivery!Next \/ UNCHANGED Promise
  <2>1. /\ a.to \in tracked /\ a.to.from \in Node
        /\ a.body = Verified => a.to.id \in DOMAIN saved
        /\ UNCHANGED <<agreed, saved>>
    BY <1>4, Basics DEF OnResponse, Inv, AnswersAreSound, RequestIsTyped, receiving
  <2>2. CASE UNCHANGED sending
    BY <2>1, <2>2 DEF Promise, sending
  <2>3. CASE Answered(a.to, a.body) /\ UNCHANGED offered
    <3>1. CASE a.body = Verified /\ Finish(a.to, "completed")
      <4>1. Tell(a.to.from, {a.to.id}, "completed") /\ {a.to.id} \subseteq DOMAIN saved
        BY <2>1, <3>1 DEF Finish, StopSending
      <4> QED
        BY <2>1, <2>3, <4>1, TellEnds
    <3>2. CASE Fails(a.to)
      BY <1>2, <2>1, <2>3, <3>2
    <3>3. ASSUME NEW o, SendNextChunk(a.to, o)
          PROVE  Delivery!Next \/ UNCHANGED Promise
      <4>1. outcome' = outcome \/ Fails(a.to)
        BY <3>3 DEF SendNextChunk
      <4>2. outcome' = outcome => UNCHANGED Promise
        BY <2>1, <2>3 DEF Promise
      <4> QED
        BY <3>2, <4>1, <4>2
    <3> QED
      BY <2>3, <3>1, <3>2, <3>3 DEF Answered
  <2> QED
    BY <1>4, <2>2, <2>3 DEF OnResponse
<1>5. ASSUME NEW r \in tracked, OnOutboundFailure(r)
      PROVE  Delivery!Next \/ UNCHANGED Promise
  <2>1. CASE Fails(r) /\ UNCHANGED offered
    BY <1>2, <1>5, <2>1 DEF OnOutboundFailure, receiving
  <2>2. CASE UNCHANGED sending
    BY <1>5, <2>2 DEF OnOutboundFailure, Promise, sending, receiving
  <2> QED
    BY <1>5, <2>1, <2>2 DEF OnOutboundFailure
<1>6. ASSUME NEW r \in inFlight, OnCancel(r)
      PROVE  Delivery!Next \/ UNCHANGED Promise
  <2>1. r.to \in Node /\ \E T : StopSending(r.to, T, "failed")
    BY <1>6, Basics DEF OnCancel, Arrives
  <2> QED
    BY <1>1, <1>6, <2>1 DEF OnCancel
<1>7. ASSUME NEW n \in Node, NEW m \in Node, OnConnectionClosed(n, m)
      PROVE  Delivery!Next \/ UNCHANGED Promise
  <2>1. \E T : StopSending(n, T, "failed")
    BY <1>7 DEF OnConnectionClosed
  <2> QED
    BY <1>1, <1>7, <2>1 DEF OnConnectionClosed
<1> QED
  BY <1>3, <1>4, <1>5, <1>6, <1>7

\* Every step of the receiver's handlers agrees to a transfer, saves a file or does neither.
LEMMA ReceiverDelivers ==
  ASSUME Inv, NEW r \in inFlight, OnRequest(r)
  PROVE  Delivery!Next \/ UNCHANGED Promise
<1>1. CASE OnOffer(r) \/ RefuseOffer(r) \/ OnChunk(r) \/ OnWrongChunk(r)
  BY <1>1 DEF OnOffer, RefuseOffer, OnChunk, OnWrongChunk, Promise, sending, receiving
<1>2. CASE OnClaimedOffer(r)
  <2>1. UNCHANGED <<offered, outcome>>
    BY <1>2 DEF OnClaimedOffer, sending
  <2>2. CASE agreed' = agreed \cup {r.id} /\ UNCHANGED saved
    <3>1. r.id \in DOMAIN offered \ agreed
      BY <1>2, OneRequest DEF OnClaimedOffer, Arrives, OfTransfer, Inv, RecvInv, StagesAreOrdered
    <3> QED
      BY <2>1, <2>2, <3>1, Agrees
  <2>3. CASE UNCHANGED receiving
    BY <2>1, <2>3 DEF Promise, receiving
  <2> QED
    BY <1>2, <2>2, <2>3 DEF OnClaimedOffer
<1>3. CASE OnComplete(r)
  <2>1. r.kind = "Complete" /\ r.to \in up /\ UNCHANGED <<offered, agreed, outcome>>
    BY <1>3 DEF OnComplete, Arrives, sending
  <2>2. CASE /\ r.id \in DOMAIN incoming[r.to] /\ IsWhole(incoming[r.to][r.id], r.hash)
             /\ saved' = Put(saved, r.id, parts[r.to][r.id])
    BY <2>1, <2>2, WholeIsSaved
  <2>3. CASE UNCHANGED saved
    BY <2>1, <2>3 DEF Promise
  <2> QED
    BY <1>3, <2>2, <2>3 DEF OnComplete
<1>4. CASE OnCancel(r)
  BY <1>4, SenderDelivers
<1>5. CASE OnClaimPublic(r)
  <2>1. UNCHANGED <<agreed, saved, outcome>>
    BY <1>5 DEF OnClaimPublic, receiving
  <2>2. CASE UNCHANGED offered
    BY <2>1, <2>2 DEF Promise
  <2>3. ASSUME NEW t \in Transfer \ DOMAIN offered,
               offered' = Put(offered, t, ShareSize[r.id]), r.id \in shared
        PROVE  Delivery!Next
    <3>1. ShareSize[r.id] \in Nat
      BY <2>3, FileTransferAssumption DEF Inv, SharesAreSound
    <3> QED
      BY <2>1, <2>3, <3>1, PutOffers
  <2> QED
    BY <1>5, <2>2, <2>3 DEF OnClaimPublic, Offer
<1> QED
  BY <1>1, <1>2, <1>3, <1>4, <1>5 DEF OnRequest

\* Every step is one of FileDelivery, or none of it is seen there.
LEMMA StepDelivers == Inv /\ [Next]_vars => [Delivery!Next]_(Delivery!vars)
<1> SUFFICES ASSUME Inv, [Next]_vars PROVE Delivery!Next \/ UNCHANGED Promise
  BY DEF Promise, Delivery!vars
<1>1. ASSUME NEW n \in Node, NEW m \in Node, NEW t \in Transfer, NEW size \in FileSize,
             OfferFile(n, m, t, size)
      PROVE  Delivery!Next
  <2>1. size \in Nat
    BY FileTransferAssumption
  <2> QED
    BY <1>1, <2>1, PutOffers DEF OfferFile, receiving
<1>2. ASSUME NEW n \in Node, NEW t \in Transfer, AcceptFile(n, t)
      PROVE  Delivery!Next \/ UNCHANGED Promise
  <2>1. t \in DOMAIN offered \ agreed
    BY <1>2, PendingOffer DEF AcceptFile
  <2>2. UNCHANGED <<offered, saved, outcome>> /\ agreed' \in {agreed, agreed \cup {t}}
    BY <1>2 DEF AcceptFile, sending
  <2> QED
    BY <2>1, <2>2, Agrees DEF Promise
<1>3. ASSUME NEW n \in Node, NEW t \in Transfer, TurnDown(n, t) \/ IncomingExpires(n, t)
      PROVE  UNCHANGED Promise
  BY <1>3 DEF TurnDown, IncomingExpires, Promise, sending
<1>4. ASSUME NEW s \in Share, PublishShare(s) PROVE UNCHANGED Promise
  BY <1>4 DEF PublishShare, Promise, sending, receiving
<1>5. ASSUME NEW n \in Node, NEW s \in Share,
             OnPublicFileOffer(n, s) \/ ShareExpires(n, s) \/ ClaimShare(n, s)
      PROVE  UNCHANGED Promise
  BY <1>5 DEF OnPublicFileOffer, ShareExpires, ClaimShare, Promise, sending, receiving
<1>6. ASSUME NEW n \in Node, Leave(n) PROVE UNCHANGED Promise
  BY <1>6 DEF Leave, Promise
<1>7. CASE UNCHANGED vars
  BY <1>7 DEF vars, Promise, sending, receiving
<1> QED
  BY <1>1, <1>2, <1>3, <1>4, <1>5, <1>6, <1>7, SenderDelivers, ReceiverDelivers DEF Next

\* Files are saved and their senders told as FileDelivery says: nothing is saved that was not
\* agreed to, what is saved is whole and saved once, and success is told after the file is
\* saved.
THEOREM TransfersDeliver == Spec => Delivers
<1>1. Init => Delivery!Init
  BY DEF Init, Empty, Delivery!Init
<1> QED
  BY <1>1, StepDelivers, FileTransferInvariant, PTL DEF Spec, Delivers, Delivery!Spec
=============================================================================
