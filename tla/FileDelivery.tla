---------------------------- MODULE FileDelivery ----------------------------
(***************************************************************************)
(* What file transfer promises (docs/FILE_TRANSFER_SECURITY.md, "Integrity,*)
(* identity and response privacy"; docs/USER_GUIDE.md, "Limits and         *)
(* integrity"), with no request, chunk, slot or temporary file in sight:   *)
(* nothing is saved that the receiver did not agree to, what is saved is   *)
(* saved once and whole, and the sender is told once how it ended, with    *)
(* success only after the file is saved.                                   *)
(***************************************************************************)
EXTENDS Naturals, Sequences

CONSTANT Transfer

VARIABLES
  offered,   \* transfer -> the size announced, in chunks
  agreed,    \* the transfers the receiver agreed to
  saved,     \* transfer -> the chunks under the final file name
  outcome    \* transfer -> what the sender was told in the end

vars == <<offered, agreed, saved, outcome>>

\* The chunks of a file of this size, in order.
Whole(size) == [i \in 1..size |-> i]

Init ==
  /\ offered = [t \in {} |-> 0] /\ agreed = {}
  /\ saved = [t \in {} |-> <<>>] /\ outcome = [t \in {} |-> ""]

Extends(f, g, T) ==
  /\ T \cap DOMAIN f = {} /\ DOMAIN g = DOMAIN f \cup T
  /\ \A t \in DOMAIN f : g[t] = f[t]

Offer(t) == /\ Extends(offered, offered', {t}) /\ offered'[t] \in Nat
            /\ UNCHANGED <<agreed, saved, outcome>>

Agree(t) == /\ t \in DOMAIN offered \ agreed
            /\ agreed' = agreed \cup {t}
            /\ UNCHANGED <<offered, saved, outcome>>

Save(t) == /\ t \in agreed
           /\ Extends(saved, saved', {t}) /\ saved'[t] = Whole(offered[t])
           /\ UNCHANGED <<offered, agreed, outcome>>

\* Several transfers may fail together, with their peer.
End(T) == /\ T # {} /\ T \subseteq DOMAIN offered
          /\ Extends(outcome, outcome', T)
          /\ \A t \in T : \/ outcome'[t] = "failed"
                          \/ outcome'[t] = "completed" /\ t \in DOMAIN saved
          /\ UNCHANGED <<offered, agreed, saved>>

Next == \/ \E t \in Transfer : Offer(t) \/ Agree(t) \/ Save(t)
        \/ \E T \in SUBSET Transfer : End(T)

Spec == Init /\ [][Next]_vars
=============================================================================
