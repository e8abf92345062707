------------------------------ MODULE ColdStart ------------------------------
(***************************************************************************)
(* Finding participants in the public DHT without a server of one's own     *)
(* (cold_start.rs, cold_start/runtime.rs and lib.rs, network_task).  A      *)
(* lookup yields providers, each is asked once for an advertisement that it *)
(* signs for this request, and an accepted one makes the provider a         *)
(* contact: a plan dials its endpoints, and its addresses and its relay may *)
(* be used for as long as the advertisement is accepted and the network has *)
(* not changed.                                                            *)
(*                                                                         *)
(* Whether an answer verifies (shape, identity, signature, challenge,       *)
(* sequence, clock) is left open: any answer may be refused.  Lookups are   *)
(* 300 s apart and a request waits for 5 s, so a peer is asked once at a    *)
(* time.  The addresses of a peer are told apart by kind, direct or through *)
(* a relay; book is what network_task has told the behaviours that dial,    *)
(* signed or not, and has not taken back.                                   *)
(***************************************************************************)
EXTENDS Dialing

CONSTANTS
  MaxAttempted,  \* requests of one lookup (8)
  MaxPending,    \* requests at a time (4)
  MaxContacts,   \* MAX_CACHE
  Advertised     \* bound: what an advertisement may offer

\* One that offers a relay has a direct endpoint.
ASSUME ColdStartAssumption ==
  /\ {MaxAttempted, MaxPending, MaxContacts} \subseteq Nat
  /\ Advertised \subseteq [endpoints : EndpointSets, relay : BOOLEAN]
  /\ \A offer \in Advertised : offer.relay => "direct" \in offer.endpoints

VARIABLES
  discovering, \* discovery is on
  query,       \* a lookup is under way
  attempted,   \* peers asked since the lookup began
  pending,     \* peers whose answer is awaited
  cache,       \* the accepted advertisement of each peer
  contacts,    \* discovery_contacts: the signed addresses in use
  claims,      \* discovery_relay_claims
  book,        \* addresses given to kad, file_transfer and secure_control
  unsigned     \* auxiliary: those of book that were given without a signature

discoveryVars == <<discovering, query, attempted, pending, cache>>
contactVars == <<contacts, claims, book, unsigned>>
coldStartVars == <<dialingVars, discoveryVars, contactVars>>

\* An accepted advertisement; over says that it has expired.
Ad == {ad \in [endpoints : EndpointSets, relay : BOOLEAN, over : BOOLEAN] :
         [endpoints |-> ad.endpoints, relay |-> ad.relay] \in Advertised}

ColdStartTypeOK ==
  /\ DialingTypeOK
  /\ {discovering, query} \subseteq BOOLEAN
  /\ attempted \subseteq Peer /\ pending \subseteq attempted
  /\ cache \in [Peer -> Ad \cup {Nothing}]
  /\ contacts \in [Peer -> (SUBSET Kind) \cup {Nothing}]
  /\ claims \subseteq Peer
  /\ {book, unsigned} \subseteq [Peer -> SUBSET Kind]

ColdStartInit ==
  /\ \E remembered, configured \in SUBSET Peer :
       /\ DialingInit(remembered, configured)
       /\ book = [p \in Peer |-> IF p \in configured THEN {"direct"} ELSE {}]
  /\ discovering \in BOOLEAN
  /\ query = FALSE /\ attempted = {} /\ pending = {}
  /\ cache = [p \in Peer |-> Nothing]
  /\ contacts = [p \in Peer |-> Nothing]
  /\ claims = {} /\ unsigned = book

Contact == {p \in Peer : contacts[p] # Nothing}
Accepted == {p \in Peer : cache[p] # Nothing}

-----------------------------------------------------------------------------
(* The timer cached_retry *)

\* Cache::expire; a clock that went back ends every advertisement.
Unexpired(back) ==
  [p \in Peer |-> IF cache[p] = Nothing \/ back \/ cache[p].over THEN Nothing ELSE cache[p]]

\* Discovery::tick drops the requests that waited too long and may begin a lookup.
TickDiscovery ==
  \E unanswered \in SUBSET pending :
    \/ /\ pending' = pending \ unanswered
       /\ UNCHANGED <<query, attempted>>
    \/ /\ ~query /\ query' = TRUE
       /\ unanswered = pending /\ pending' = {} /\ attempted' = {}

\* The contacts whose advertisement is not accepted any more.
Lost(accepted) == IF discovering THEN {p \in Contact : accepted[p] = Nothing} ELSE {}

\* The addresses known after the plans of dialed have been dialed (register_cached_address).
Remembered(known, dialed, ps) ==
  [p \in Peer |-> IF p \in dialed THEN known[p] \cup {Head(ps[p].batches)} ELSE known[p]]

\* The addresses known after the signed ones of the contacts ps are taken back, by value:
\* whoever else had given one of them.
TakenBack(known, signed, ps) ==
  [p \in Peer |-> IF p \in ps THEN known[p] \ signed[p] ELSE known[p]]

Emptied(f, ps) == [p \in Peer |-> IF p \in ps THEN {} ELSE f[p]]

\* A tick forgets the contacts that are lost and drives the plans that are left, where the
\* swarm refuses to dial the peers in refused.  It leaves this behind:
Ticked(refused, back) ==
  LET accepted == IF discovering THEN Unexpired(back) ELSE cache
      lost == Lost(accepted)
      kept == Dropped(plans, lost)
      dialed == Ready(kept) \ refused IN
  [cache |-> accepted,
   contacts |-> [p \in Peer |->
      IF p \in Contact /\ discovering /\ p \notin Connected /\ Emptied(contacts, lost)[p] = {}
      THEN Nothing ELSE IF p \in lost THEN {} ELSE contacts[p]],
   claims |-> claims \ lost,
   lost |-> lost,
   book |-> Remembered(TakenBack(book, contacts, lost), dialed, kept),
   unsigned |-> Remembered(TakenBack(unsigned, contacts, lost),
                           {p \in dialed : ~kept[p].signed}, kept),
   plans |-> Driven(kept, refused),
   dials |-> [p \in Peer |-> IF p \in dialed THEN dials[p] \cup {"plan"} ELSE dials[p]]]

\* The participant relays of the peers ps are given up.
GiveUpRelays(ps) ==
  /\ relays' = Without(relays, ps)
  /\ closing' = closing \cup ListenersOf(relays, ps)

CachedRetry ==
  \E refused \in SUBSET Ready(plans), back \in {FALSE, Accepted # {}} :
    LET t == Ticked(refused, back) IN
    /\ IF discovering THEN TickDiscovery ELSE UNCHANGED <<query, attempted, pending>>
    /\ cache' = t.cache /\ contacts' = t.contacts /\ claims' = t.claims
    /\ book' = t.book /\ unsigned' = t.unsigned
    /\ plans' = t.plans /\ dials' = t.dials
    /\ lapsed' = StillLapsed(plans')
    /\ GiveUpRelays(t.lost)
    /\ UNCHANGED <<links, targets, marked, due, bootRelays, circuits, listening, recovering,
                   discovering>>

\* Mutant of Refreshed: what cannot be opened again is left to the next change.
RefreshedOnce(opened) == listening' = opened /\ recovering' = FALSE

\* The native listener is opened again if it can be.
Refreshed(opened) == listening' = opened /\ recovering' = ~opened

\* A tick with which a refresh of the network is due.  It drops what was learned of the
\* contacts and what discovery had under way, and dials the targets that are not connected;
\* discovery may end with it.
CachedRetryRecovers ==
  /\ recovering
  /\ \E refused \in SUBSET (Ready(plans) \cup (targets \ Connected)),
        back \in {FALSE, Accepted # {}} :
     LET t == Ticked(refused, back)
         contacted == {p \in Peer : t.contacts[p] # Nothing}
         away == targets \ Connected IN
     /\ contacts' = [p \in Peer |-> IF p \in contacted THEN {} ELSE Nothing]
     /\ claims' = {}
     /\ book' = TakenBack(t.book, t.contacts, contacted)
     /\ unsigned' = TakenBack(t.unsigned, t.contacts, contacted)
     /\ plans' = Dropped(t.plans, contacted)
     /\ lapsed' = StillLapsed(plans')
     /\ GiveUpRelays(t.lost \cup contacted)
     /\ dials' = [p \in Peer |->
          IF p \in away \ refused THEN t.dials[p] \cup {"bootstrap"} ELSE t.dials[p]]
  /\ discovering' \in {discovering, FALSE}
  /\ query' = FALSE /\ attempted' = {} /\ pending' = {}
  /\ cache' = [p \in Peer |-> Nothing]
  /\ \E opened \in {listening, TRUE} : Refreshed(opened)
  /\ marked' = targets \cap Connected /\ due' = due \cap Connected
  /\ Restore(bootRelays, Connected)
  /\ UNCHANGED <<links, targets>>

-----------------------------------------------------------------------------
(* Discovery::next and what the loop does with it *)

\* The lookup has found providers: as many as there is room for are asked.
OnProviders(ps) ==
  /\ discovering /\ query
  /\ \E asked \in SUBSET (ps \ attempted) :
       /\ asked # {}
       /\ Cardinality(attempted \cup asked) <= MaxAttempted
       /\ Cardinality(pending \cup asked) <= MaxPending
       /\ attempted' = attempted \cup asked
       /\ pending' = pending \cup asked
  /\ UNCHANGED <<dialingVars, discovering, query, cache, contactVars>>

OnLookupEnd ==
  /\ discovering /\ query /\ query' = FALSE
  /\ UNCHANGED <<dialingVars, discovering, attempted, pending, cache, contactVars>>

\* A request has failed, its answer was late, empty or refused; a refused answer may have
\* ended other advertisements.
OnNoAnswer(p) ==
  /\ discovering /\ p \in pending
  /\ pending' = pending \ {p}
  /\ cache' \in {cache, Unexpired(FALSE)}
  /\ UNCHANGED <<dialingVars, discovering, query, attempted, contactVars>>

\* Mutant of Replanned: the plan for the addresses of the advertisement before stays.
ReplannedUnlessPlanned(p, ad) == Enqueued(plans[p], ad.endpoints, TRUE)

\* The plan for a candidate replaces any other.
Replanned(p, ad) == Enqueued(Nothing, ad.endpoints, TRUE)

\* Mutant of KnownAfter: the addresses of the advertisement before stay in use.
KnownAfterAll(p) == book

\* The addresses of the advertisement before are taken back.
KnownAfter(p) == TakenBack(book, contacts, {p} \cap Contact)

\* The event Candidate: an answer was accepted.
OnCandidate(p, ad) ==
  /\ discovering /\ p \in pending /\ ~ad.over
  /\ pending' = pending \ {p}
  /\ cache' = [Unexpired(FALSE) EXCEPT ![p] = ad]
  /\ IF p \in Contact \/ Cardinality(Contact) < MaxContacts
     THEN /\ book' = KnownAfter(p)
          /\ unsigned' = TakenBack(unsigned, contacts, {p} \cap Contact)
          /\ plans' = [plans EXCEPT ![p] = Replanned(p, ad)]
          /\ lapsed' = lapsed \ {p}
          /\ GiveUpRelays(IF ad.relay THEN {} ELSE {p})
          /\ claims' = IF ad.relay THEN claims \cup {p} ELSE claims \ {p}
          /\ contacts' = [contacts EXCEPT ![p] = ad.endpoints]
     ELSE UNCHANGED <<contactVars, plans, lapsed, relays, closing>>
  /\ UNCHANGED <<links, dials, targets, marked, due, bootRelays, circuits, listening, recovering,
                 discovering, query, attempted>>

\* The dialers are given addresses of p that nobody signed.
Given(p, addresses) ==
  /\ book' = [book EXCEPT ![p] = @ \cup addresses]
  /\ unsigned' = [unsigned EXCEPT ![p] = @ \cup addresses]

\* Of a contact only signed addresses are taken.
Listed(p, addresses) ==
  IF p \in Contact
  THEN book' = [book EXCEPT ![p] = @ \cup (addresses \cap contacts[p])] /\ UNCHANGED unsigned
  ELSE Given(p, addresses)

\* A native peer says which addresses it has and may offer to relay, which counts for a contact
\* only if its advertisement offers it too.
OnIdentify(p, addresses) ==
  /\ p \in Connected
  /\ Listed(p, addresses)
  /\ \/ UNCHANGED <<circuits, relays>>
     \/ /\ "direct" \in addresses
        /\ p \in Contact => p \in claims /\ "direct" \in contacts[p]
        /\ OpenRelay(p)
  /\ UNCHANGED <<links, dials, plans, lapsed, targets, marked, due, bootRelays, closing,
                 listening, recovering, discoveryVars, contacts, claims>>

\* mDNS finds a peer of the local network, contact or not, or hears no more of it.
OnMdnsDiscovered(p, address) ==
  /\ Given(p, {address})
  /\ UNCHANGED <<dialingVars, discoveryVars, contacts, claims>>

OnMdnsExpired(p, address) ==
  /\ address \in book[p]
  /\ book' = [book EXCEPT ![p] = @ \ {address}]
  /\ unsigned' = [unsigned EXCEPT ![p] = @ \ {address}]
  /\ UNCHANGED <<dialingVars, discoveryVars, contacts, claims>>

\* Time passes: an advertisement expires.
AdExpires(p) ==
  /\ cache[p] # Nothing /\ ~cache[p].over
  /\ cache' = [cache EXCEPT ![p].over = TRUE]
  /\ UNCHANGED <<dialingVars, discovering, query, attempted, pending, contactVars>>

ColdStartNext ==
  \/ DialingStep /\ UNCHANGED <<discoveryVars, contactVars>>
  \/ CachedRetry
  \/ CachedRetryRecovers
  \/ OnProviders(Peer)
  \/ OnLookupEnd
  \/ \E p \in Peer :
       \/ OnNoAnswer(p)
       \/ \E ad \in Ad : OnCandidate(p, ad)
       \/ \E addresses \in SUBSET Kind : OnIdentify(p, addresses)
       \/ \E address \in Kind : OnMdnsDiscovered(p, address) \/ OnMdnsExpired(p, address)
       \/ /\ AddBootstrap(p) /\ Given(p, {"direct"})
          /\ UNCHANGED <<discoveryVars, contacts, claims>>
       \/ AdExpires(p)

ColdStartSpec == ColdStartInit /\ [][ColdStartNext]_coldStartVars

-----------------------------------------------------------------------------
(* What a signed advertisement permits.                                    *)

\* Only what an advertisement in use says is used on its account: of a contact the dialers
\* know its signed addresses, and beside them only what was given without a signature (by mDNS,
\* as a bootstrap target, or before it became a contact, which takes none of that back); its
\* relay is used only if it was offered; and nothing signed is left of a contact given up.
SignedContacts ==
  /\ \A p \in Peer \ Contact : book[p] \subseteq unsigned[p] /\ p \notin claims
  /\ \A p \in Contact : /\ book[p] \subseteq contacts[p] \cup unsigned[p]
                        /\ relays[p] # Nothing => p \in claims
                        /\ p \in claims => "direct" \in contacts[p]

\* The state is well formed, and its contacts are what was signed.
ContactsAreSound == ColdStartTypeOK /\ SignedContacts

\* A dial of signed addresses starts only for an advertisement that is accepted and has not
\* expired, and only to an address it has.
DialsAreLive ==
  [][\A p \in Peer :
       "plan" \in dials'[p] \ dials[p] /\ plans[p].signed =>
         /\ cache[p] # Nothing /\ ~cache[p].over
         /\ Head(plans[p].batches) \in cache[p].endpoints]_coldStartVars
=============================================================================
