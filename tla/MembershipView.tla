--------------------------- MODULE MembershipView ---------------------------
(***************************************************************************)
(* What the membership protocol promises its users, with no tracker, index,*)
(* counter or message in sight (docs/ROOMS2-PROTOCOL.md, "Properties").    *)
(* Each peer commits to sets of rooms one after the other.  Each node has, *)
(* of every other peer, one of these commitments or nothing; it moves      *)
(* forward among them, may lose what it has, may take a closed room out of *)
(* it, and shows for each room the number of peers it has there.           *)
(***************************************************************************)
EXTENDS Naturals, FiniteSets

CONSTANTS Peer, Room, NoView

VARIABLES
  past,   \* the commitments ever made: [peer, revision, rooms]
  view,   \* [Peer -> [Peer -> [revision, rooms] or NoView]]
  count   \* [Peer -> [Room -> Nat]], what each node shows

vars == <<past, view, count>>

RoomsIn(v) == IF v = NoView THEN {} ELSE v.rooms

Shown(v) == [n \in Peer |-> [r \in Room |-> Cardinality({p \in Peer : r \in RoomsIn(v[n][p])})]]

Init ==
  /\ past = {}
  /\ view = [n \in Peer |-> [p \in Peer |-> NoView]]
  /\ count = Shown(view)

\* A new commitment of n, later than those it made before.
Commits(n, s) ==
  /\ s.peer = n
  /\ \A x \in past : x.peer = n => x.revision < s.revision

\* What may become of the view a node has of p.
Moves(p, old, new, commitments) ==
  \/ new = NoView
  \/ /\ old # NoView /\ new # NoView
     /\ new.revision = old.revision /\ new.rooms \subseteq old.rooms
  \/ /\ new # NoView /\ old # NoView => new.revision > old.revision
     /\ [peer |-> p, revision |-> new.revision, rooms |-> new.rooms] \in commitments

Step(n) ==
  /\ \/ UNCHANGED past
     \/ \E R \in SUBSET Room, rev \in {1} \cup {x.revision + 1 : x \in past} :
          LET s == [peer |-> n, revision |-> rev, rooms |-> R]
          IN  Commits(n, s) /\ past' = past \cup {s}
  /\ \A m \in Peer \ {n} : view'[m] = view[m]
  /\ \A p \in Peer : view'[n][p] = view[n][p] \/ Moves(p, view[n][p], view'[n][p], past')
  /\ count' = Shown(view')

Next == \E n \in Peer : Step(n)

Spec == Init /\ [][Next]_vars
=============================================================================
