-------------------------- MODULE MCIncomingFiles --------------------------
(***************************************************************************)
(* IncomingFiles with two direct transfers and a file of the relay that    *)
(* meet at the same name, and another program that makes one file.         *)
(***************************************************************************)
EXTENDS IncomingFiles, TLC

Tokens == Permutations(Token)

\* Bound: transfers that end in a way that may leave them on record.
OneLeft == Cardinality(rejected \cup abandoned) <= 1

=============================================================================
