----------------------------- MODULE HashChain ------------------------------
(* What the canonical history promises (docs/adr/ADR-0001-canonical-store.md *)
(* and the docstring of shiroe/storage/events.py): one append-only sequence  *)
(* of envelopes, each sealed on the one before it.  No lock, no head marker, *)
(* no process and no crash: EventLog is shown to implement this.             *)
EXTENDS ChainOps

VARIABLE log

Init == log = <<>>

\* The only thing that may ever happen to the history: one fresh envelope,
\* sealed on the current tail, is added at its end.
Seal ==
  /\ log' # <<>>
  /\ LET env == log'[Len(log')]
     IN /\ log' = Append(log, env)
        /\ env.prev = TailHash(log)
        /\ env.hash \notin Hashes(log) \cup {Genesis}

Next == Seal

Spec == Init /\ [][Next]_log
=============================================================================
