---------------------------- MODULE DurableStore ----------------------------
(***************************************************************************)
(* What the write path promises to a client, without files, days or locks: *)
(* an accepted row is buffered until it is stored, a crash loses at most   *)
(* the buffer, and a stored row leaves the store only when it expires.     *)
(***************************************************************************)
EXTENDS Naturals

CONSTANTS
  Rows,     \* accepted samples: records with a field `day`
  Cutoffs   \* cutoff days of retention

VARIABLES
  buffered,  \* accepted, lost by a crash
  stored     \* survives a crash

Init == buffered = {} /\ stored = {}

\* An Append call is acknowledged.
Accept(S) ==
  /\ S \cap (buffered \cup stored) = {}
  /\ buffered' = buffered \cup S
  /\ UNCHANGED stored

\* A flush makes buffered rows durable.
Persist(S) ==
  /\ S \subseteq buffered
  /\ buffered' = buffered \ S
  /\ stored' = stored \cup S

\* Retention deletes rows older than the cutoff.
Expire(S, cutoff) ==
  /\ S \subseteq {row \in stored : row.day < cutoff}
  /\ stored' = stored \ S
  /\ UNCHANGED buffered

\* kill -9.
Lose ==
  /\ buffered' = {}
  /\ UNCHANGED stored

Next ==
  \/ \E S \in SUBSET Rows : Accept(S)
  \/ \E S \in SUBSET buffered : Persist(S)
  \/ \E S \in SUBSET stored, c \in Cutoffs : Expire(S, c)
  \/ Lose

Spec == Init /\ [][Next]_<<buffered, stored>>
====
