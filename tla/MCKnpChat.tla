----------------------------- MODULE MCKnpChat -----------------------------
(* Two nodes with one place in each queue of events: one sends, the other   *)
(* answers.                                                                *)
EXTENDS KnpChat

CONSTANTS a, b, m1

SenderAndReceiver == a :> {"contact", "send", "stop"} @@ b :> {"contact"}
=============================================================================
