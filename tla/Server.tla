------------------------------- MODULE Server -------------------------------
(***************************************************************************)
(* The process around the storage engine: HTTP handlers that append whole  *)
(* batches, the flush and retention loops, /internal/force_flush, and the  *)
(* end of the process, by SIGTERM (Close and exit, while the handlers go   *)
(* on) or by kill -9.                                                      *)
(*                                                                         *)
(* A batch is one HTTP call, to /api/v1/import or to /api/v1/write.  An    *)
(* entry of a batch is an Append call of module Storage, or an entry       *)
(* without a metric name or without samples.                               *)
(***************************************************************************)
EXTENDS Storage, Sequences

CONSTANTS
  Imports, Writes,   \* the calls to /api/v1/import and to /api/v1/write
  Entries,           \* [Imports \cup Writes -> their entries, in order]
  NoName, NoSamples, \* entries that are no Append call
  MaxEnds            \* bound on ends of the process

Batches == Imports \cup Writes

ASSUME ServerAssumption ==
  /\ Imports \cap Writes = {}
  /\ Entries \in [Batches -> Seq(Requests \cup {NoName, NoSamples})]
  /\ Requests \cap {NoName, NoSamples} = {} /\ NoName # NoSamples
  \* Every entry is an Append call of its own.
  /\ \A b, c \in Batches : \A i \in DOMAIN Entries[b], j \in DOMAIN Entries[c] :
       Entries[b][i] \in Requests /\ Entries[b][i] = Entries[c][j] => b = c /\ i = j
  /\ MaxEnds \in Nat

VARIABLES
  answer,   \* the batch: "none", "running", "ok", "refused", or "lost"
  pos,      \* the entry its handler is at
  main,     \* main(): "serving", "closing", "final" flush, "flushed" or "failed", "ended"
  loops,    \* the loops that Close still waits for
  flusher,  \* who called the running Flush
  before,   \* history: rows acknowledged when the running Flush swapped,
  early,    \* ... rows acknowledged before SIGTERM
  stops

handlers == <<answer, pos>>
process == <<main, loops>>
promises == <<before, early>>
serverVars == <<handlers, process, flusher, promises, stops>>
allVars == <<vars, serverVars>>

ServerInit ==
  /\ Init
  /\ answer = [b \in Batches |-> "none"]
  /\ pos = [b \in Batches |-> 1]
  /\ main = "serving" /\ loops = {"flush", "retention"}
  /\ flusher = "none"
  /\ before = {} /\ early = {}
  /\ stops = 0

-----------------------------------------------------------------------------
(* handleImport and handleRemoteWrite.                                      *)

StartBatch(b) ==
  /\ proc = "up" /\ answer[b] = "none"
  /\ answer' = [answer EXCEPT ![b] = "running"]
  /\ UNCHANGED <<vars, pos, process, flusher, promises, stops>>

\* The handler of b is at entry e.
At(b, e) ==
  /\ answer[b] = "running"
  /\ pos[b] <= Len(Entries[b])
  /\ Entries[b][pos[b]] = e

Advance(b) == pos' = [pos EXCEPT ![b] = @ + 1]

\* One step of the Append call for the entry r; its return moves the handler.
AppendEntry(b, r) ==
  /\ At(b, r)
  /\ \/ /\ ResolveRead(r) \/ ResolveWrite(r) \/ \E d \in Days : IndexForDay(r, d)
        /\ UNCHANGED pos
     \/ AppendMem(r) /\ Advance(b)
  /\ UNCHANGED <<answer, process, flusher, promises, stops>>

\* Append returns at once without samples; remote write counts an entry
\* without a name as skipped.
SkipEntry(b) ==
  /\ At(b, NoSamples) \/ (At(b, NoName) /\ b \in Writes)
  /\ Advance(b)
  /\ UNCHANGED <<vars, answer, process, flusher, promises, stops>>

\* Seeded bug: remote write refuses nameless entries too.
RefuseAnyBatch(b) ==
  /\ At(b, NoName)
  /\ answer' = [answer EXCEPT ![b] = "refused"]
  /\ UNCHANGED <<vars, pos, process, flusher, promises, stops>>

\* Import answers 400 at the first entry without a metric name.
RefuseBatch(b) ==
  /\ At(b, NoName) /\ b \in Imports
  /\ answer' = [answer EXCEPT ![b] = "refused"]
  /\ UNCHANGED <<vars, pos, process, flusher, promises, stops>>

AnswerBatch(b) ==
  /\ answer[b] = "running" /\ pos[b] > Len(Entries[b])
  /\ answer' = [answer EXCEPT ![b] = "ok"]
  /\ UNCHANGED <<vars, pos, process, flusher, promises, stops>>

HandlerStep(b) ==
  \/ \E r \in Requests : AppendEntry(b, r)
  \/ SkipEntry(b) \/ RefuseBatch(b) \/ AnswerBatch(b)

-----------------------------------------------------------------------------
(* Callers of Flush, and the retention loop.                                *)

\* w is granted flushMu and Flush swaps the buffer.
CallFlush(w) ==
  /\ FlushSwap
  /\ flusher' = w
  /\ before' = acked
  /\ UNCHANGED <<handlers, loops, early, stops>>

TickerFlush ==
  /\ "flush" \in loops
  /\ CallFlush("ticker")
  /\ UNCHANGED main

\* handleForceFlush: at any time, as often as clients like.
ForceFlush ==
  /\ CallFlush("http")
  /\ UNCHANGED main

\* The caller goes on: Close returns the error of its Flush to main.
FlushReturns(ok) ==
  /\ flusher' = "none"
  /\ before' = {}
  /\ main' = IF flusher # "close" THEN main ELSE IF ok THEN "flushed" ELSE "failed"

FlushGoesOn ==
  /\ FlushStep
  /\ \/ fpc' # "idle" /\ UNCHANGED <<flusher, before, main>>
     \/ fpc' = "idle" /\ FlushReturns(faults' = faults)
  /\ UNCHANGED <<handlers, loops, early, stops>>

TickerRetention ==
  /\ "retention" \in loops
  /\ \E c \in Cutoffs : ApplyRetention(c)
  /\ UNCHANGED serverVars

RetentionGoesOn ==
  /\ RetentionStep
  /\ UNCHANGED serverVars

Merge ==
  /\ \E d \in Days : ForceMerge(d)
  /\ UNCHANGED serverVars

-----------------------------------------------------------------------------
(* SIGTERM: main calls Close and returns.                                   *)

\* close(stopCh).
Sigterm ==
  /\ main = "serving" /\ stops < MaxEnds
  /\ main' = "closing"
  /\ early' = acked
  /\ UNCHANGED <<vars, handlers, loops, flusher, before, stops>>

\* Seeded bug: the retention loop returns without wg.Done.
LoopExitsNotDone(l) ==
  /\ main = "closing" /\ l \in loops
  /\ l = "flush" => flusher # "ticker"
  /\ l = "retention" => rpc = "idle"
  /\ loops' = IF l = "retention" THEN loops ELSE loops \ {l}
  /\ UNCHANGED <<vars, handlers, main, flusher, promises, stops>>

\* A loop sees stopCh in its select, after any tick it was busy with.
LoopExits(l) ==
  /\ main = "closing" /\ l \in loops
  /\ l = "flush" => flusher # "ticker"
  /\ l = "retention" => rpc = "idle"
  /\ loops' = loops \ {l}
  /\ UNCHANGED <<vars, handlers, main, flusher, promises, stops>>

\* Seeded bug: Close leaves the flush to whoever holds flushMu.
CloseFlushUnlessBusy ==
  /\ main = "closing" /\ loops = {}
  /\ \/ CallFlush("close") /\ main' = "final"
     \/ /\ fpc # "idle"
        /\ main' = "flushed"
        /\ UNCHANGED <<vars, handlers, loops, flusher, promises, stops>>

\* wg.Wait has returned: the final flush.
CloseFlush ==
  /\ main = "closing" /\ loops = {}
  /\ CallFlush("close")
  /\ main' = "final"

\* The process is gone, whatever its goroutines were doing.
ProcessEnds ==
  /\ stops < MaxEnds /\ stops' = stops + 1
  /\ main' = "ended"
  /\ loops' = {}
  /\ flusher' = "none" /\ before' = {} /\ early' = {}
  /\ answer' = [b \in Batches |-> IF answer[b] = "running" THEN "lost" ELSE answer[b]]
  /\ UNCHANGED pos

\* main returns.
Exit ==
  /\ main \in {"flushed", "failed"}
  /\ LoseMemory /\ ProcessEnds
  /\ UNCHANGED crashes

Kill == Crash /\ ProcessEnds

\* The process is started again: Open, then the loops and the listener.
Restart ==
  /\ Open
  /\ main' = "serving" /\ loops' = {"flush", "retention"}
  /\ UNCHANGED <<handlers, flusher, promises, stops>>

-----------------------------------------------------------------------------
ServerNext ==
  \/ \E b \in Batches : StartBatch(b) \/ HandlerStep(b)
  \/ TickerFlush \/ ForceFlush \/ FlushGoesOn
  \/ TickerRetention \/ RetentionGoesOn \/ Merge
  \/ Sigterm \/ CloseFlush \/ Exit \/ Kill \/ Restart
  \/ \E l \in loops : LoopExits(l)

ServerSpec == ServerInit /\ [][ServerNext]_allVars

\* The flush ticker fires again and again; a goroutine that holds flushMu and
\* a main that returns go on; sync.Mutex hands flushMu to the longest waiter,
\* and a select with two ready cases takes each of them in the end.  Nothing
\* makes a client call, a signal arrive or anyone restart the process.
ServerFairness ==
  /\ WF_allVars(TickerFlush) /\ WF_allVars(FlushGoesOn) /\ WF_allVars(RetentionGoesOn)
  /\ WF_allVars(LoopExits("retention")) /\ SF_allVars(LoopExits("flush"))
  /\ SF_allVars(CloseFlush) /\ WF_allVars(Exit)

FairServerSpec == ServerSpec /\ ServerFairness

-----------------------------------------------------------------------------
(* Properties.                                                              *)

\* The entries of b that are Append calls, at positions 1 to n.
AppendsUpTo(b, n) == {Entries[b][i] : i \in 1..n} \cap Requests

\* "One bad series must not block the good ones" (handleRemoteWrite), and an
\* import is cut off at its first nameless entry: an accepted batch has
\* appended every entry that is an Append call, a refused import has appended
\* those before its first nameless entry and none of the others, whatever ran
\* in between.
AnsweredBatches ==
  \A b \in Batches :
    LET all == AppendsUpTo(b, Len(Entries[b]))
        done == {r \in all : st[r] = "done"}
    IN  /\ answer[b] = "ok" => done = all
        /\ answer[b] = "refused" =>
             b \in Imports /\ \E n \in DOMAIN Entries[b] :
               /\ Entries[b][n] = NoName
               /\ \A i \in 1..(n - 1) : Entries[b][i] # NoName
               /\ done = AppendsUpTo(b, n)

\* A Flush that returns nil, to the ticker, to a client of force_flush (204)
\* or to Close, leaves durable every row that was acknowledged before it
\* swapped the buffer and has not expired.
FlushPromise ==
  [][flusher # "none" /\ flusher' = "none" /\ proc' = "up" /\ faults' = faults
       => before \cap acked' \subseteq durable']_allVars

\* "Close stops the flush loop and performs a final flush" (Close): when it
\* returns nil, every row acknowledged before SIGTERM is durable or has
\* expired, although handlers and force_flush calls still run.
CleanShutdown == main = "flushed" => early \cap acked \subseteq durable

\* SIGTERM ends the process, whatever clients keep calling meanwhile.
ShutdownCompletes == main = "closing" ~> main = "ended"
====
