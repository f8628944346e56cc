----------------------------- MODULE RoundTrip -----------------------------
(***************************************************************************)
(* One behaviour takes one input through the code: it is written, a power  *)
(* failure may cut the tail off the file, and it is read.  Calculations    *)
(* that write nothing are one step.                                        *)
(***************************************************************************)
EXTENDS Sequences, SequencesExt, FiniteSetsExt

VARIABLES
  input,    \* [kind, data]: what the behaviour is about
  file,     \* what was written
  stage,    \* "new", "written" or "read"
  torn,     \* did the file lose its tail?
  output    \* what was read

vars == <<input, file, stage, torn, output>>

Nothing == [err |-> "nothing"]

Begins(inputs) ==
  input \in inputs /\ file = <<>> /\ stage = "new" /\ torn = FALSE /\ output = Nothing

Writes(kind, contents) ==
  /\ stage = "new" /\ input.kind = kind
  /\ file' = contents /\ stage' = "written"
  /\ UNCHANGED <<input, torn, output>>

Reads(kind, result) ==
  /\ stage = "written" /\ input.kind = kind
  /\ output' = result /\ stage' = "read"
  /\ UNCHANGED <<input, file, torn>>

\* The machine stops before the tail of the file is on disk.
Tears(kind) ==
  /\ stage = "written" /\ ~torn /\ input.kind = kind
  /\ file' \in Prefixes(file) \ {file} /\ torn' = TRUE
  /\ UNCHANGED <<input, stage, output>>

\* The calculations that write nothing.
Computes(kind, result) ==
  /\ stage = "new" /\ input.kind = kind
  /\ output' = result /\ stage' = "read"
  /\ UNCHANGED <<input, file, torn>>

-----------------------------------------------------------------------------
(* Properties are about the end of a behaviour.                             *)

Finished(kind) == stage = "read" /\ input.kind = kind

\* The same elements as often, in any order.
SameBag(s, t) ==
  /\ Len(s) = Len(t)
  /\ \A x \in ToSet(s) \cup ToSet(t) :
       Cardinality({i \in DOMAIN s : s[i] = x}) = Cardinality({i \in DOMAIN t : t[i] = x})
====
