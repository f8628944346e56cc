------------------------------ MODULE Formats ------------------------------
(***************************************************************************)
(* What is written in one form and read back from another: blocks, parts   *)
(* and registry segments on disk, and all that module Lookup looks up.     *)
(* One behaviour takes one input through the code: it is written, a power  *)
(* failure may cut the tail off a file that is written (the code does not  *)
(* sync the files of a part), and it is read.                              *)
(***************************************************************************)
EXTENDS PartFile, BlockReplay, SegmentReplay, Lookup

CONSTANTS
  PartContents,               \* functions from SeriesIDs to samples
  Windows                     \* queried times, records [start, end]

Encodings == {"raw", "gorilla"}

Inputs ==
       [kind : {"part"}, data : [samples : PartContents, encoding : Encodings]]
  \cup [kind : {"merge"}, data : [samples : PartContents, encoding : Encodings,
                                  others : PartContents]]
  \cup BlockInputs \cup SegmentInputs \cup LookupInputs

Init == Begins(Inputs)

-----------------------------------------------------------------------------

WritePartFiles ==
  \E kind \in {"part", "merge"} :
    Writes(kind, WritePart(input.data.samples, input.data.encoding))

\* As Tears, of one of the two bin files of a part.
TearPart ==
  /\ stage = "written" /\ ~torn /\ input.kind \in {"part", "merge"}
  /\ \/ \E s \in Prefixes(file.ts) \ {file.ts} : file' = [file EXCEPT !.ts = s]
     \/ \E s \in Prefixes(file.vals) \ {file.vals} : file' = [file EXCEPT !.vals = s]
  /\ torn' = TRUE
  /\ UNCHANGED <<input, stage, output>>

QueryPart ==
  /\ stage = "written" /\ input.kind = "part"
  /\ \E want \in SUBSET DOMAIN input.data.samples, w \in Windows :
       LET r == ReadPart(file, want, w.start, w.end)
       IN  Reads("part", [err |-> r.err, v |-> r.v, want |-> want, window |-> w])

\* Compaction with a part that a later flush wrote.
MergePart == Reads("merge", MergeParts(file, WritePart(input.data.others, "gorilla")))

Next ==
  \/ WritePartFiles \/ TearPart \/ QueryPart \/ MergePart
  \/ BlockNext \/ SegmentNext \/ LookupNext

Spec == Init /\ [][Next]_vars

-----------------------------------------------------------------------------
(* Properties.  Each is about the end of a behaviour.                       *)

Ascending(s) == \A i \in 1..(Len(s) - 1) : s[i].t <= s[i + 1].t

\* A query of a part returns every sample of the wanted series in its window
\* with its own value, and no other, in the order of time; when the part has
\* lost a tail it fails or is still exact (readPart, both encodings).
PartReadExact ==
  Finished("part") =>
    LET samples == input.data.samples
        inWindow(s) == output.window.start <= s.t /\ s.t <= output.window.end
        wanted == [id \in output.want |-> SelectSeq(samples[id], inWindow)]
    IN  /\ ~torn => output.err = "nil"
        /\ output.err = "nil" =>
             /\ DOMAIN output.v = {id \in output.want : wanted[id] # <<>>}
             /\ \A id \in DOMAIN output.v :
                  SameBag(output.v[id], wanted[id]) /\ Ascending(output.v[id])

\* A merged part holds the samples of both parts and nothing else; a part that
\* lost a tail stops the merge, so its files are not deleted (mergeParts).
MergeKeepsSamples ==
  Finished("merge") =>
    LET a == input.data.samples
        b == input.data.others
        of(f, id) == IF id \in DOMAIN f THEN f[id] ELSE <<>>
    IN  IF torn THEN output.err # "nil"
        ELSE LET all == ReadPartAll(output.v)
             IN  /\ output.err = "nil" /\ all.err = "nil"
                 /\ DOMAIN all.v = DOMAIN a \cup DOMAIN b
                 /\ \A id \in DOMAIN all.v :
                      SameBag(all.v[id], of(a, id) \o of(b, id)) /\ Ascending(all.v[id])

====
