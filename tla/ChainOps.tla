------------------------------ MODULE ChainOps ------------------------------
(* The hash chain of shiroe/storage/events.py as pure operators.            *)
(*                                                                           *)
(* An envelope is abstracted to its own hash and the hash it was sealed on:  *)
(* [hash |-> h, prev |-> p].  SHA-256 over a body that holds a fresh event   *)
(* id is injective for every purpose of the code, so a hash is a positive    *)
(* number that no other envelope has.  0 stands for the genesis sentinel     *)
(* "sha256:0".                                                               *)
EXTENDS Integers, Sequences

Genesis == 0

Envelopes == [hash : Nat \ {Genesis}, prev : Nat]

Hashes(log) == {log[i].hash : i \in DOMAIN log}

\* What _validated_tail returns as the tail: the genesis sentinel for an
\* empty log, the hash of the last envelope otherwise.
TailHash(log) == IF log = <<>> THEN Genesis ELSE log[Len(log)].hash

\* The i-th envelope was sealed on the envelope written just before it.
Linked(log, i) == log[i].prev = IF i = 1 THEN Genesis ELSE log[i - 1].hash

\* The walk of verify_chain and _validated_tail finds no broken link.
ChainOK(log) == \A i \in DOMAIN log : Linked(log, i)

\* The places where the walk would raise HashChainError.
Breaks(log) == {i \in DOMAIN log : ~ Linked(log, i)}
=============================================================================
