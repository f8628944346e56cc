---------------------------- MODULE ServerProofs ----------------------------
(***************************************************************************)
(* Theorems about the process around the engine (module Server): what an   *)
(* HTTP answer, a Flush that returns nil and a clean shutdown promise.     *)
(***************************************************************************)
EXTENDS Server, StorageProofs

\* Every step of the server is a step of the engine, leaves the engine alone,
\* or ends the process.
LEMMA ServerRunsEngine == ServerSpec => EngineSpec
<1>1. ServerInit => Init
  BY DEF ServerInit
<1>2. [ServerNext]_allVars => [EngineNext]_vars
  <2> SUFFICES ASSUME [ServerNext]_allVars PROVE [EngineNext]_vars
    OBVIOUS
  <2>1. ASSUME NEW b \in Batches, StartBatch(b) \/ HandlerStep(b) PROVE [EngineNext]_vars
    BY <2>1 DEF StartBatch, HandlerStep, AppendEntry, SkipEntry, RefuseBatch, AnswerBatch,
       EngineNext, Next, AppendStep
  <2>2. CASE TickerFlush \/ ForceFlush \/ FlushGoesOn \/ CloseFlush
    BY <2>2 DEF TickerFlush, ForceFlush, FlushGoesOn, CloseFlush, CallFlush, EngineNext, Next
  <2>3. CASE TickerRetention \/ RetentionGoesOn \/ Merge
    BY <2>3 DEF TickerRetention, RetentionGoesOn, Merge, EngineNext, Next
  <2>4. CASE Sigterm \/ \E l \in loops : LoopExits(l)
    BY <2>4 DEF Sigterm, LoopExits
  <2>5. CASE Exit \/ Kill \/ Restart
    BY <2>5 DEF Exit, Kill, Restart, EngineNext, Next, CleanStop
  <2>6. CASE UNCHANGED allVars
    BY <2>6 DEF allVars
  <2> QED
    BY <2>1, <2>2, <2>3, <2>4, <2>5, <2>6 DEF ServerNext
<1> QED
  BY <1>1, <1>2, PTL DEF ServerSpec, EngineSpec

\* The promises of the engine are those of the running server: behind its
\* handlers, loops, orderly stops and restarts no acknowledged row is lost or
\* in two tiers, and the engine remains a durable store.
THEOREM ServerKeepsStore ==
  ASSUME NoPartialFlush, "manifest" \notin FaultKinds
  PROVE  ServerSpec => []NothingLost /\ []NoDuplicate /\ RefinesDurableStore
<1>1. LostInv => NothingLost
  BY DEF LostInv, NothingLost
<1>2. OnceInv => NoDuplicate
  BY DEF OnceInv, TiersDisjoint, NoDuplicate
<1>3. Init => Abstract!Init
  BY DEF Init, Abstract!Init
<1> QED
  BY <1>1, <1>2, <1>3, ServerRunsEngine, LostInvariant, OnceInvariant, AgreeInvariant, RefineNext,
     PTL DEF EngineSpec, RefinesDurableStore, Abstract!Spec

-----------------------------------------------------------------------------
(* Answers.  The position of a handler divides the entries of its batch     *)
(* into those appended and those still to come.                             *)

HandlersInv ==
  /\ answer \in [Batches -> {"none", "running", "ok", "refused", "lost"}]
  /\ pos \in [Batches -> Nat \ {0}]
  /\ \A b \in Batches : \A i \in DOMAIN Entries[b] :
       /\ Entries[b][i] \in Requests => (st[Entries[b][i]] = "done" <=> i < pos[b])
       /\ b \in Imports /\ i < pos[b] => Entries[b][i] # NoName
  /\ \A b \in Batches :
       /\ answer[b] = "ok" => pos[b] > Len(Entries[b])
       /\ answer[b] = "refused" =>
            b \in Imports /\ pos[b] \in DOMAIN Entries[b] /\ Entries[b][pos[b]] = NoName

\* The entries of a batch are numbered from 1.
LEMMA EntriesType ==
  ASSUME NEW b \in Batches
  PROVE  /\ Len(Entries[b]) \in Nat /\ DOMAIN Entries[b] = 1..Len(Entries[b])
         /\ \A i \in DOMAIN Entries[b] : Entries[b][i] \in Requests \cup {NoName, NoSamples}
<1>1. Entries[b] \in Seq(Requests \cup {NoName, NoSamples})
  BY ServerAssumption
<1> QED
  BY <1>1

\* Steps that answer no call move no handler.
LEMMA HandlersKeep ==
  ASSUME HandlersInv, UNCHANGED handlers, \A r \in Requests : st'[r] = "done" <=> st[r] = "done"
  PROVE  HandlersInv'
  BY DEF HandlersInv, handlers

\* Only the end of an Append call answers it.
LEMMA OthersAnswerNothing ==
  ASSUME TypeInv, FlushSwap \/ FlushStep \/ (\E c \in Cutoffs : ApplyRetention(c)) \/ RetentionStep
                  \/ (\E d \in Days : ForceMerge(d)) \/ LoseMemory \/ Open
  PROVE  \A r \in Requests : st'[r] = "done" <=> st[r] = "done"
<1>1. CASE LoseMemory
  BY <1>1 DEF LoseMemory
<1>2. CASE ~LoseMemory
  BY <1>2 DEF FlushSwap, FlushStep, DrainPending, SaveRegistry, SaveRegistryFails, PersistDayIndex,
     PersistDayIndexFails, GetPartition, GetPartitionFails, AddPart, AddPartFails,
     AddPartManifestFails, ApplyRetention, RetentionStep, DropPartition, RemoveAllDone,
     RemoveAllFails, DropInverted, DropInvertedFails, RetentionAborts, DropDay, ForceMerge, Open, calls
<1> QED
  BY <1>1, <1>2

\* The handler of b gets past an entry of its batch.
LEMMA HandlerAdvances ==
  ASSUME HandlersInv, NEW b \in Batches, answer[b] = "running", pos[b] <= Len(Entries[b]),
         UNCHANGED answer, Advance(b),
         \A r \in Requests \ {Entries[b][pos[b]]} : st'[r] = "done" <=> st[r] = "done",
         Entries[b][pos[b]] \in Requests => st'[Entries[b][pos[b]]] = "done",
         Entries[b][pos[b]] = NoName => b \notin Imports
  PROVE  HandlersInv'
<1>1. pos[b] \in Nat \ {0} /\ pos' = [pos EXCEPT ![b] = pos[b] + 1] /\ pos[b] \in DOMAIN Entries[b]
  BY EntriesType DEF HandlersInv, Advance
<1>2. pos' \in [Batches -> Nat \ {0}] /\ pos'[b] = pos[b] + 1
      /\ \A c \in Batches : c # b => pos'[c] = pos[c]
  BY <1>1 DEF HandlersInv
<1>3. ASSUME NEW c \in Batches, NEW i \in DOMAIN Entries[c]
      PROVE  /\ Entries[c][i] \in Requests => (st'[Entries[c][i]] = "done" <=> i < pos'[c])
             /\ c \in Imports /\ i < pos'[c] => Entries[c][i] # NoName
  <2>1. i \in Nat /\ pos[c] \in Nat
    BY EntriesType DEF HandlersInv
  <2>2. CASE c = b /\ i = pos[b]
    BY <1>1, <1>2, <2>2
  <2>3. CASE ~(c = b /\ i = pos[b])
    <3>1. Entries[c][i] \in Requests => Entries[c][i] # Entries[b][pos[b]]
      BY <1>1, <2>3, ServerAssumption
    <3>2. i < pos'[c] <=> i < pos[c]
      BY <1>1, <1>2, <2>1, <2>3
    <3> QED
      BY <3>1, <3>2 DEF HandlersInv
  <2> QED
    BY <2>2, <2>3
<1>4. ASSUME NEW c \in Batches
      PROVE  /\ answer[c] = "ok" => pos'[c] > Len(Entries[c])
             /\ answer[c] = "refused" =>
                  c \in Imports /\ pos'[c] \in DOMAIN Entries[c] /\ Entries[c][pos'[c]] = NoName
  BY <1>2 DEF HandlersInv
<1> QED
  BY <1>2, <1>3, <1>4 DEF HandlersInv

\* A step of the Append call for entry r of batch b.
LEMMA HandlersAppend ==
  ASSUME TypeInv, HandlersInv, NEW b \in Batches, NEW r \in Requests, AppendEntry(b, r)
  PROVE  HandlersInv'
<1>1. At(b, r) /\ UNCHANGED answer
  BY DEF AppendEntry
<1>2. CASE AppendMem(r) /\ Advance(b)
  <2>1. st'[r] = "done" /\ \A s \in Requests \ {r} : st'[s] = st[s]
    BY <1>2 DEF AppendMem, TypeInv, TypeOK
  <2> QED
    BY <1>1, <1>2, <2>1, HandlerAdvances, ServerAssumption DEF At
<1>3. CASE (ResolveRead(r) \/ ResolveWrite(r) \/ \E d \in Days : IndexForDay(r, d)) /\ UNCHANGED pos
  <2>1. \A s \in Requests : st'[s] = "done" <=> st[s] = "done"
    BY <1>3 DEF ResolveRead, ResolveWrite, IndexForDay, Resolved, TypeInv, TypeOK
  <2> QED
    BY <1>1, <1>3, <2>1, HandlersKeep DEF handlers
<1> QED
  BY <1>2, <1>3 DEF AppendEntry

\* Handlers, and everything beside them, keep the positions right.
LEMMA HandlersNext == TypeInv /\ HandlersInv /\ [ServerNext]_allVars => HandlersInv'
<1> SUFFICES ASSUME TypeInv, HandlersInv, [ServerNext]_allVars PROVE HandlersInv'
  OBVIOUS
<1>1. ASSUME NEW b \in Batches, StartBatch(b) PROVE HandlersInv'
  BY <1>1 DEF StartBatch, HandlersInv, vars, calls
<1>2. ASSUME NEW b \in Batches, HandlerStep(b) PROVE HandlersInv'
  <2>1. ASSUME NEW r \in Requests, AppendEntry(b, r) PROVE HandlersInv'
    BY <2>1, HandlersAppend
  <2>2. CASE SkipEntry(b)
    <3>1. /\ answer[b] = "running" /\ pos[b] <= Len(Entries[b]) /\ Advance(b)
          /\ Entries[b][pos[b]] = NoSamples \/ (Entries[b][pos[b]] = NoName /\ b \in Writes)
          /\ UNCHANGED <<answer, st>>
      BY <2>2 DEF SkipEntry, At, vars, calls
    <3>2. /\ Entries[b][pos[b]] = NoName => b \notin Imports
          /\ Entries[b][pos[b]] \notin Requests
      BY <3>1, ServerAssumption
    <3> QED
      BY <3>1, <3>2, HandlerAdvances
  <2>3. CASE RefuseBatch(b)
    <3>1. /\ pos[b] \in DOMAIN Entries[b] /\ Entries[b][pos[b]] = NoName /\ b \in Imports
          /\ answer' = [answer EXCEPT ![b] = "refused"] /\ UNCHANGED <<pos, st>>
      BY <2>3, EntriesType DEF RefuseBatch, At, HandlersInv, vars, calls
    <3> QED
      BY <3>1 DEF HandlersInv
  <2>4. CASE AnswerBatch(b)
    BY <2>4 DEF AnswerBatch, HandlersInv, vars, calls
  <2> QED
    BY <1>2, <2>1, <2>2, <2>3, <2>4 DEF HandlerStep
<1>3. CASE TickerFlush \/ ForceFlush \/ FlushGoesOn \/ CloseFlush
  BY <1>3, HandlersKeep, OthersAnswerNothing DEF TickerFlush, ForceFlush, FlushGoesOn, CloseFlush, CallFlush
<1>4. CASE TickerRetention \/ RetentionGoesOn \/ Merge
  BY <1>4, HandlersKeep, OthersAnswerNothing DEF TickerRetention, RetentionGoesOn, Merge, serverVars
<1>5. CASE Sigterm \/ (\E l \in loops : LoopExits(l)) \/ UNCHANGED allVars
  BY <1>5, HandlersKeep DEF Sigterm, LoopExits, allVars, serverVars, vars, calls
<1>6. CASE Restart
  BY <1>6, HandlersKeep, OthersAnswerNothing DEF Restart
<1>7. CASE Exit \/ Kill
  <2>1. /\ answer' = [b \in Batches |-> IF answer[b] = "running" THEN "lost" ELSE answer[b]]
        /\ UNCHANGED pos /\ LoseMemory
    BY <1>7 DEF Exit, Kill, ProcessEnds, Crash
  <2>2. \A r \in Requests : st'[r] = "done" <=> st[r] = "done"
    BY <2>1, OthersAnswerNothing
  <2> QED
    BY <2>1, <2>2 DEF HandlersInv
<1> QED
  BY <1>1, <1>2, <1>3, <1>4, <1>5, <1>6, <1>7 DEF ServerNext

\* Where a handler stands says what it has appended.
LEMMA HandlersImply == HandlersInv => AnsweredBatches
<1> SUFFICES ASSUME HandlersInv, NEW b \in Batches
    PROVE  /\ answer[b] = "ok" =>
                {r \in AppendsUpTo(b, Len(Entries[b])) : st[r] = "done"}
                  = AppendsUpTo(b, Len(Entries[b]))
           /\ answer[b] = "refused" =>
                b \in Imports /\ \E n \in DOMAIN Entries[b] :
                  /\ Entries[b][n] = NoName
                  /\ \A i \in 1..(n - 1) : Entries[b][i] # NoName
                  /\ {r \in AppendsUpTo(b, Len(Entries[b])) : st[r] = "done"} = AppendsUpTo(b, n)
  BY DEF AnsweredBatches
<1>1. /\ Len(Entries[b]) \in Nat /\ DOMAIN Entries[b] = 1..Len(Entries[b])
      /\ pos[b] \in Nat \ {0}
  BY EntriesType DEF HandlersInv
<1>2. \A i \in 1..Len(Entries[b]) :
        /\ Entries[b][i] \in Requests => (st[Entries[b][i]] = "done" <=> i < pos[b])
        /\ b \in Imports /\ i < pos[b] => Entries[b][i] # NoName
  BY <1>1 DEF HandlersInv
<1>3. CASE answer[b] = "ok"
  <2>1. \A i \in 1..Len(Entries[b]) : i < pos[b]
    BY <1>1, <1>3 DEF HandlersInv
  <2> QED
    BY <1>2, <1>3, <2>1 DEF AppendsUpTo
<1>4. CASE answer[b] = "refused"
  <2> DEFINE n == pos[b]
  <2>1. b \in Imports /\ n \in 1..Len(Entries[b]) /\ Entries[b][n] = NoName /\ NoName \notin Requests
    BY <1>1, <1>4, ServerAssumption DEF HandlersInv
  <2>2. \A i \in 1..(n - 1) : Entries[b][i] # NoName
    BY <1>1, <1>2, <2>1
  <2>3. {r \in AppendsUpTo(b, Len(Entries[b])) : st[r] = "done"} = AppendsUpTo(b, n)
    <3>1. ASSUME NEW r \in AppendsUpTo(b, Len(Entries[b])), st[r] = "done" PROVE r \in AppendsUpTo(b, n)
      <4>1. PICK i \in 1..Len(Entries[b]) : r = Entries[b][i] /\ r \in Requests
        BY DEF AppendsUpTo
      <4>2. i \in 1..n
        BY <1>1, <1>2, <3>1, <4>1
      <4> QED
        BY <4>1, <4>2 DEF AppendsUpTo
    <3>2. ASSUME NEW r \in AppendsUpTo(b, n)
          PROVE  r \in AppendsUpTo(b, Len(Entries[b])) /\ st[r] = "done"
      <4>1. PICK i \in 1..n : r = Entries[b][i] /\ r \in Requests
        BY DEF AppendsUpTo
      <4>2. i \in 1..Len(Entries[b]) /\ i < n
        BY <1>1, <2>1, <4>1
      <4> QED
        BY <1>2, <4>1, <4>2 DEF AppendsUpTo
    <3> QED
      BY <3>1, <3>2
  <2> QED
    BY <1>1, <1>4, <2>1, <2>2, <2>3
<1> QED
  BY <1>3, <1>4

\* An accepted batch has appended all its entries, and a refused import those
\* before its first nameless entry and no other: whatever handlers, flushes,
\* retention, stops and restarts interleave with it.
THEOREM AnsweredBatchesHolds == ServerSpec => []AnsweredBatches
<1>1. ServerInit => HandlersInv
  <2> SUFFICES ASSUME ServerInit PROVE HandlersInv
    OBVIOUS
  <2>1. \A b \in Batches : \A i \in DOMAIN Entries[b] : i \in Nat /\ ~(i < 1)
    BY EntriesType
  <2> QED
    BY <2>1 DEF ServerInit, Init, HandlersInv
<1> QED
  BY <1>1, HandlersNext, HandlersImply, ServerRunsEngine, IdentityInvariant, PTL DEF ServerSpec

-----------------------------------------------------------------------------
(* Durable rows stay.  The parts of an opened partition list all that its   *)
(* manifest lists, and what only p.parts lists is still in the buffer;      *)
(* retention takes rows from the promise before it takes them from disk.    *)

KeepInv ==
  /\ proc = "up" =>
       /\ \A d \in opened : DayRows(durable, d) \subseteq live
       /\ live \ durable \subseteq mem \cup batch
  /\ rpc = "drop" => expired \subseteq opened
  /\ rpc \in {"remove", "index", "forget"} => expired \ {rday} \subseteq opened
  /\ rpc = "remove" => acked \cap DayRows(durable, rday) = {}

\* Steps outside retention, by what they do to the rows.
LEMMA KeepKeeps ==
  ASSUME KeepInv, proc = "up" \/ proc' = "down",
         rpc' = "idle" \/ (UNCHANGED <<rpc, expired, rday, opened, durable>> /\ acked' \subseteq acked),
         proc' = "up" =>
           /\ \A d \in opened' : DayRows(durable', d) \subseteq live'
           /\ live' \ durable' \subseteq mem' \cup batch'
  PROVE  KeepInv'
  BY DEF KeepInv, DayRows

\* A flush keeps them.
LEMMA KeepFlush ==
  ASSUME NoPartialFlush
  PROVE  TypeInv /\ IdentityInv /\ IndexInv /\ KeepInv /\ (FlushSwap \/ FlushStep) => KeepInv'
<1> SUFFICES ASSUME TypeInv, IdentityInv, IndexInv, KeepInv, FlushSwap \/ FlushStep PROVE KeepInv'
  OBVIOUS
<1> USE DEF disk, registry, engine, calls, flush, retention, history
<1>0. proc = "up" /\ rpc = "idle" /\ rpc' = "idle"
  BY DEF FlushSwap, FlushStep, DrainPending, SaveRegistry, SaveRegistryFails, PersistDayIndex,
     PersistDayIndexFails, GetPartition, GetPartitionFails, AddPart, AddPartFails,
     AddPartManifestFails, IndexInv, Exclusion
<1>1. /\ \A d \in opened : DayRows(durable, d) \subseteq live
      /\ live \ durable \subseteq mem \cup batch
  BY <1>0 DEF KeepInv
<1>2. CASE FlushSwap
  <2>1. batch = {}
    BY <1>2 DEF FlushSwap, IdentityInv, FlushKnown
  <2> QED
    BY <1>0, <1>1, <1>2, <2>1, KeepKeeps DEF FlushSwap, DayRows
<1>3. CASE DrainPending \/ SaveRegistry \/ SaveRegistryFails
  BY <1>0, <1>1, <1>3, KeepKeeps DEF DrainPending, SaveRegistry, SaveRegistryFails, DayRows
<1>4. ASSUME NEW d \in Days, PersistDayIndex(d) PROVE KeepInv'
  BY <1>0, <1>1, <1>4, KeepKeeps DEF PersistDayIndex, DayRows
<1>5. ASSUME NEW d \in Days, PersistDayIndexFails(d) PROVE KeepInv'
  <2>1. DayRows(batch, d) = batch
    BY <1>5, AbortRestoresAll DEF PersistDayIndexFails, Fault
  <2> QED
    BY <1>0, <1>1, <1>5, <2>1, KeepKeeps DEF PersistDayIndexFails, FlushAborts, DayRows
<1>6. CASE GetPartition
  BY <1>0, <1>1, <1>6, KeepKeeps DEF GetPartition, DayRows
<1>7. CASE GetPartitionFails \/ AddPartFails \/ AddPartManifestFails
  <2>1. fday \in Days
    BY <1>7 DEF GetPartitionFails, AddPartFails, AddPartManifestFails, TypeInv, CountersOK
  <2>2. DayRows(batch, fday) = batch
    BY <1>7, <2>1, AbortRestoresAll DEF GetPartitionFails, AddPartFails, AddPartManifestFails, Fault
  <2>3. /\ mem' = mem \cup batch /\ UNCHANGED <<durable, opened>>
        /\ live' \subseteq live \cup batch /\ live \subseteq live'
    BY <1>7, <2>2 DEF GetPartitionFails, AddPartFails, AddPartManifestFails, FlushAborts
  <2> QED
    BY <1>0, <1>1, <2>3, KeepKeeps DEF DayRows
<1>8. CASE AddPart
  BY <1>0, <1>1, <1>8, KeepKeeps DEF AddPart, ManifestSaved, DayRows
<1> QED
  BY <1>2, <1>3, <1>4, <1>5, <1>6, <1>7, <1>8 DEF FlushStep

\* So do all other steps.
LEMMA KeepOthers ==
  TypeInv /\ IndexInv /\ AgreeInv /\ RowsAnswered /\ KeepInv
  /\ (AppendStep \/ (\E c \in Cutoffs : ApplyRetention(c)) \/ RetentionStep
       \/ (\E d \in Days : ForceMerge(d)) \/ Crash \/ CleanStop \/ Open) => KeepInv'
<1> SUFFICES ASSUME TypeInv, IndexInv, AgreeInv, RowsAnswered, KeepInv,
                    \/ AppendStep
                    \/ \E c \in Cutoffs : ApplyRetention(c)
                    \/ RetentionStep
                    \/ \E d \in Days : ForceMerge(d)
                    \/ Crash \/ CleanStop \/ Open
    PROVE KeepInv'
  OBVIOUS
<1> USE DEF disk, registry, engine, calls, flush, retention, history
<1>1. CASE AppendStep
  <2>1. /\ UNCHANGED <<proc, opened, live, durable, batch, retention>> /\ mem \subseteq mem'
        /\ \A row \in acked' : row \in acked \/ st[row.req] # "done"
    BY <1>1 DEF AppendStep, ResolveRead, ResolveWrite, IndexForDay, AppendMem, RowsOf
  <2>2. acked' \cap DayRows(durable, rday) \subseteq acked
    BY <2>1 DEF RowsAnswered, DayRows
  <2> QED
    BY <2>1, <2>2 DEF KeepInv, DayRows
<1>2. ASSUME NEW c \in Cutoffs, ApplyRetention(c) PROVE KeepInv'
  BY <1>2 DEF ApplyRetention, KeepInv, DayRows
<1>3. ASSUME NEW d \in Days, DropPartition(d) PROVE KeepInv'
  <2>1. /\ proc = "up" /\ rpc = "drop" /\ rpc' = "remove" /\ rday' = d /\ d \in expired
        /\ opened' = opened \ {d} /\ live' = live \ DayRows(live, d)
        /\ acked' = acked \ DayRows(live, d)
        /\ UNCHANGED <<proc, mem, batch, expired>>
    BY <1>3 DEF DropPartition
  <2>2. PICK removed \in SUBSET DayRows(durable, d) : durable' = durable \ removed
    BY <1>3 DEF DropPartition
  <2>3. DayRows(durable, d) \subseteq DayRows(live, d)
    BY <2>1 DEF KeepInv, DayRows
  <2>4. acked' \cap DayRows(durable', d) = {}
    BY <2>1, <2>2, <2>3 DEF DayRows
  <2>5. live' \ durable' \subseteq mem' \cup batch'
    BY <2>1, <2>2 DEF KeepInv, DayRows
  <2>6. \A e \in opened' : DayRows(durable', e) \subseteq live'
    BY <2>1, <2>2 DEF KeepInv, DayRows
  <2> QED
    BY <2>1, <2>4, <2>5, <2>6 DEF KeepInv
<1>4. CASE RemoveAllDone
  <2>1. /\ proc = "up" /\ rpc = "remove" /\ rpc' = "index"
        /\ durable' = durable \ DayRows(durable, rday)
        /\ UNCHANGED <<proc, mem, batch, live, opened, expired, rday>>
    BY <1>4 DEF RemoveAllDone
  <2>2. rday \notin opened /\ DayRows(live, rday) = {}
    BY <2>1 DEF AgreeInv, RetentionOK, IndexInv, PersistedOnDisk
  <2> QED
    BY <2>1, <2>2 DEF KeepInv, DayRows
<1>5. CASE RemoveAllFails \/ DropInvertedFails \/ DropInverted \/ DropDay
  BY <1>5 DEF RemoveAllFails, DropInvertedFails, RetentionAborts, DropInverted, DropDay, KeepInv, DayRows
<1>6. ASSUME NEW d \in Days, ForceMerge(d) PROVE KeepInv'
  BY <1>6 DEF ForceMerge, ManifestSaved, KeepInv, DayRows
<1>7. CASE Crash \/ CleanStop
  BY <1>7 DEF Crash, CleanStop, LoseMemory, KeepInv
<1>8. CASE Open
  <2>1. rpc = "idle" /\ rpc' = "idle"
    BY <1>8 DEF Open, IndexInv, Exclusion
  <2> QED
    BY <1>8, <2>1 DEF Open, LoadPartitions, KeepInv, DayRows
<1> QED
  BY <1>1, <1>2, <1>3, <1>4, <1>5, <1>6, <1>7, <1>8 DEF RetentionStep

\* The invariants about rows hold together.
RowsInv == TypeInv /\ IdentityInv /\ IndexInv /\ RowsAnswered /\ AgreeInv /\ LostInv /\ KeepInv

\* They hold in every reachable state of an engine that gives up no flush
\* between two days.
LEMMA RowsInvariant ==
  ASSUME NoPartialFlush
  PROVE  EngineSpec => []RowsInv
<1>1. Init => KeepInv
  BY DEF Init, KeepInv
<1>2. KeepInv /\ UNCHANGED vars => KeepInv'
  BY DEF vars, disk, engine, flush, retention, history, KeepInv, DayRows
<1>3. TypeInv /\ IdentityInv /\ IndexInv /\ RowsAnswered /\ AgreeInv /\ KeepInv /\ [EngineNext]_vars
      => KeepInv'
  BY <1>2, KeepFlush, KeepOthers DEF EngineNext, Next
<1> QED
  BY <1>1, <1>3, AnsweredInvariant, AgreeInvariant, LostInvariant, PTL DEF EngineSpec, RowsInv

\* No step takes an acknowledged row from the disk.
LEMMA DurableStays ==
  ASSUME RowsInv, EngineNext
  PROVE  \A row \in durable : row \in durable' \/ row \notin acked'
<1> USE DEF RowsInv, disk, registry, engine, calls, flush, retention, history
<1>1. CASE AddPart
  <2>1. fday \in opened /\ proc = "up"
    BY <1>1 DEF AddPart, AgreeInv, DirectoriesOK
  <2>2. DayRows(durable, fday) \subseteq live
    BY <2>1 DEF KeepInv
  <2> QED
    BY <1>1, <2>2 DEF AddPart, ManifestSaved, DayRows
<1>2. ASSUME NEW d \in Days, ForceMerge(d) PROVE durable \subseteq durable'
  BY <1>2 DEF ForceMerge, ManifestSaved, DayRows, KeepInv
<1>3. ASSUME NEW d \in Days, DropPartition(d)
      PROVE  \A row \in durable : row \in durable' \/ row \notin acked'
  <2>1. DayRows(durable, d) \subseteq DayRows(live, d)
    BY <1>3 DEF DropPartition, KeepInv, DayRows
  <2> QED
    BY <1>3, <2>1 DEF DropPartition
<1>4. CASE RemoveAllDone
  BY <1>4 DEF RemoveAllDone, KeepInv, DayRows
<1>5. CASE FlushSwap \/ (FlushStep /\ ~AddPart)
  BY <1>5 DEF FlushSwap, FlushStep, DrainPending, SaveRegistry, SaveRegistryFails, PersistDayIndex,
     PersistDayIndexFails, GetPartition, GetPartitionFails, AddPartFails, AddPartManifestFails
<1>6. CASE RemoveAllFails \/ DropInverted \/ DropInvertedFails \/ DropDay
           \/ \E c \in Cutoffs : ApplyRetention(c)
  BY <1>6 DEF RemoveAllFails, DropInverted, DropInvertedFails, RetentionAborts, DropDay, ApplyRetention
<1>7. CASE AppendStep \/ Crash \/ CleanStop \/ Open
  BY <1>7 DEF AppendStep, ResolveRead, ResolveWrite, IndexForDay, AppendMem, Crash, CleanStop,
     LoseMemory, Open
<1> QED
  BY <1>1, <1>2, <1>3, <1>4, <1>5, <1>6, <1>7 DEF EngineNext, Next, RetentionStep

-----------------------------------------------------------------------------
(* What a running Flush and a running Close have still to make good.        *)

PromiseInv ==
  /\ flusher = "none" <=> fpc = "idle"
  /\ flusher = "close" <=> main = "final"
  /\ \A row \in before \cup early : row.req \in Requests /\ st[row.req] = "done"
  /\ fpc # "idle" => before \cap acked \subseteq batch \cup durable
  /\ main = "final" => early \cap acked \subseteq before
  /\ main = "flushed" => early \cap acked \subseteq durable

\* What was promised stays promised, or expires.
LEMMA PromisesStand ==
  ASSUME RowsInv, PromiseInv, EngineNext
  PROVE  /\ \A row \in before \cup early : row.req \in Requests /\ st'[row.req] = "done"
         /\ \A row \in before \cup early : row \in acked' => row \in acked
         /\ \A row \in durable : row \in durable' \/ row \notin acked'
<1>1. RowsMove
  BY StepsMoveRows DEF RowsInv
<1> QED
  BY <1>1, DurableStays DEF RowsMove, Fresh, PromiseInv

\* Steps of the engine beside a flush.
LEMMA PromisesBeside ==
  ASSUME RowsInv, PromiseInv, EngineNext, UNCHANGED <<fpc, batch, main, flusher, before, early>>
  PROVE  PromiseInv'
  BY PromisesStand DEF PromiseInv

\* A Flush begins: all that is acknowledged is in the batch or durable.
LEMMA PromiseGiven ==
  ASSUME RowsInv, PromiseInv, NEW w \in {"ticker", "http", "close"}, CallFlush(w),
         (w = "close" /\ main' = "final") \/ (w # "close" /\ main' = main)
  PROVE  PromiseInv'
<1>1. /\ FlushSwap /\ EngineNext /\ flusher' = w /\ before' = acked
      /\ UNCHANGED early
  BY DEF CallFlush, EngineNext, Next
<1>2. /\ proc = "up" /\ fpc = "idle" /\ fpc' = "drain" /\ batch' = mem
      /\ UNCHANGED <<acked, durable, st>>
  BY <1>1 DEF FlushSwap, disk, calls, history
<1>3. batch = {} /\ acked \subseteq mem \cup live /\ live \subseteq durable \cup mem
  BY <1>2 DEF RowsInv, IdentityInv, FlushKnown, LostInv, KeepInv
<1>4. \A row \in acked : row.req \in Requests /\ st[row.req] = "done"
  BY DEF RowsInv, RowsAnswered, TypeInv, TypeOK, Rows
<1>5. flusher = "none" /\ main # "final"
  BY <1>2 DEF PromiseInv
<1> QED
  BY <1>1, <1>2, <1>3, <1>4, <1>5 DEF PromiseInv

\* A step of a Flush that meets no error leaves its rows in the batch or makes
\* them durable, and it returns when the batch is empty.
LEMMA FlushDelivers ==
  ASSUME TypeInv, FlushStep, faults' = faults
  PROVE  batch \subseteq batch' \cup durable' /\ (fpc' = "idle" => batch' = {})
<1> USE DEF disk, registry, engine, calls, flush, retention, history
<1>1. faults \in Nat /\ faults + 1 # faults
  BY DEF TypeInv, TypeOK
<1>2. CASE AddPart
  BY <1>2 DEF AddPart, ManifestSaved, DayRows
<1>3. CASE DrainPending \/ SaveRegistry \/ (\E d \in Days : PersistDayIndex(d)) \/ GetPartition
  BY <1>3 DEF DrainPending, SaveRegistry, PersistDayIndex, GetPartition
<1>4. CASE SaveRegistryFails \/ (\E d \in Days : PersistDayIndexFails(d)) \/ GetPartitionFails
           \/ AddPartFails \/ AddPartManifestFails
  BY <1>1, <1>4 DEF SaveRegistryFails, PersistDayIndexFails, GetPartitionFails, AddPartFails,
     AddPartManifestFails, Fault
<1> QED
  BY <1>2, <1>3, <1>4 DEF FlushStep

\* A Flush goes on, or returns.
LEMMA PromiseKept ==
  ASSUME RowsInv, PromiseInv, FlushGoesOn
  PROVE  /\ PromiseInv'
         /\ fpc' = "idle" /\ faults' = faults => before \cap acked' \subseteq durable'
<1>1. FlushStep /\ EngineNext /\ fpc # "idle" /\ UNCHANGED early
  BY DEF FlushGoesOn, EngineNext, Next, FlushStep, DrainPending, SaveRegistry, SaveRegistryFails,
     PersistDayIndex, PersistDayIndexFails, GetPartition, GetPartitionFails, AddPart, AddPartFails,
     AddPartManifestFails
<1>2. faults' = faults => batch \subseteq batch' \cup durable' /\ (fpc' = "idle" => batch' = {})
  BY <1>1, FlushDelivers DEF RowsInv
<1>3. faults' = faults => before \cap acked' \subseteq batch' \cup durable'
  BY <1>1, <1>2, PromisesStand DEF PromiseInv
<1>4. fpc' # "idle" => faults' = faults
  BY <1>1 DEF FlushStep, DrainPending, SaveRegistry, SaveRegistryFails, PersistDayIndex,
     PersistDayIndexFails, GetPartition, GetPartitionFails, AddPart, AddPartFails,
     AddPartManifestFails, FlushAborts
<1>5. CASE fpc' # "idle"
  <2>1. UNCHANGED <<flusher, before, main>>
    BY <1>5 DEF FlushGoesOn
  <2> QED
    BY <1>1, <1>3, <1>4, <1>5, <2>1, PromisesStand DEF PromiseInv
<1>6. CASE fpc' = "idle"
  <2>1. /\ flusher' = "none" /\ before' = {}
        /\ flusher # "close" => main' = main
        /\ flusher = "close" => main' \in {"flushed", "failed"}
        /\ flusher = "close" /\ main' = "flushed" => faults' = faults
    BY <1>6 DEF FlushGoesOn, FlushReturns
  <2>2. faults' = faults => before \cap acked' \subseteq durable'
    BY <1>2, <1>3, <1>6
  <2>3. main' = "flushed" => early \cap acked' \subseteq durable'
    BY <1>1, <2>1, <2>2, PromisesStand DEF PromiseInv
  <2> QED
    BY <1>1, <1>6, <2>1, <2>2, <2>3, PromisesStand DEF PromiseInv
<1> QED
  BY <1>5, <1>6

\* No step of the server breaks a promise.
LEMMA PromiseNext == RowsInv /\ PromiseInv /\ [ServerNext]_allVars => PromiseInv'
<1> SUFFICES ASSUME RowsInv, PromiseInv, [ServerNext]_allVars PROVE PromiseInv'
  OBVIOUS
<1> USE DEF vars, flush, process, promises
<1>1. ASSUME NEW b \in Batches, StartBatch(b) \/ SkipEntry(b) \/ RefuseBatch(b) \/ AnswerBatch(b)
      PROVE  PromiseInv'
  BY <1>1 DEF StartBatch, SkipEntry, RefuseBatch, AnswerBatch, PromiseInv, disk, calls, history
<1>2. ASSUME NEW b \in Batches, NEW r \in Requests, AppendEntry(b, r) PROVE PromiseInv'
  <2>1. EngineNext /\ UNCHANGED <<flush, process, flusher, promises>>
    BY <1>2 DEF AppendEntry, EngineNext, Next, AppendStep, ResolveRead, ResolveWrite, IndexForDay, AppendMem
  <2> QED
    BY <2>1, PromisesBeside
<1>3. CASE TickerFlush
  BY <1>3, PromiseGiven DEF TickerFlush
<1>4. CASE ForceFlush
  BY <1>4, PromiseGiven DEF ForceFlush
<1>5. CASE CloseFlush
  BY <1>5, PromiseGiven DEF CloseFlush
<1>6. CASE FlushGoesOn
  BY <1>6, PromiseKept
<1>7. CASE TickerRetention \/ RetentionGoesOn \/ Merge
  <2>1. EngineNext /\ UNCHANGED <<flush, serverVars>>
    BY <1>7 DEF TickerRetention, RetentionGoesOn, Merge, EngineNext, Next, ApplyRetention,
       RetentionStep, DropPartition, RemoveAllDone, RemoveAllFails, DropInverted, DropInvertedFails,
       RetentionAborts, DropDay, ForceMerge
  <2> QED
    BY <2>1, PromisesBeside DEF serverVars
<1>8. CASE Sigterm
  <2>1. \A row \in acked : row.req \in Requests /\ st[row.req] = "done"
    BY DEF RowsInv, RowsAnswered, TypeInv, TypeOK, Rows
  <2> QED
    BY <1>8, <2>1 DEF Sigterm, PromiseInv, disk, calls, history
<1>9. CASE (\E l \in loops : LoopExits(l)) \/ UNCHANGED allVars
  BY <1>9 DEF LoopExits, allVars, serverVars, PromiseInv, disk, calls, history
<1>10. CASE Exit \/ Kill
  BY <1>10 DEF Exit, Kill, Crash, LoseMemory, ProcessEnds, PromiseInv
<1>11. CASE Restart
  <2>1. fpc = "idle"
    BY <1>11 DEF Restart, Open, RowsInv, IndexInv, Exclusion
  <2> QED
    BY <1>11, <2>1 DEF Restart, Open, PromiseInv, disk, calls, history
<1> QED
  BY <1>1, <1>2, <1>3, <1>4, <1>5, <1>6, <1>7, <1>8, <1>9, <1>10, <1>11 DEF ServerNext, HandlerStep

\* The promises stand in every reachable state.
LEMMA PromiseInvariant ==
  ASSUME NoPartialFlush
  PROVE  ServerSpec => [](RowsInv /\ PromiseInv)
<1>1. ServerInit => PromiseInv
  BY DEF ServerInit, Init, PromiseInv
<1> QED
  BY <1>1, PromiseNext, RowsInvariant, ServerRunsEngine, PTL DEF ServerSpec

\* Close's promise: when its final flush returns nil, every row acknowledged
\* before SIGTERM is durable or has expired, whatever handlers, force_flush
\* calls, merges and retention did meanwhile and go on doing until the exit.
THEOREM CleanShutdownHolds ==
  ASSUME NoPartialFlush
  PROVE  ServerSpec => []CleanShutdown
<1>1. PromiseInv => CleanShutdown
  BY DEF PromiseInv, CleanShutdown
<1> QED
  BY <1>1, PromiseInvariant, PTL

\* Flush's promise: a Flush that returns nil leaves durable every row that was
\* acknowledged before it swapped the buffer, unless the row has expired.
THEOREM FlushPromiseHolds ==
  ASSUME NoPartialFlush
  PROVE  ServerSpec => FlushPromise
<1>1. RowsInv /\ PromiseInv /\ [ServerNext]_allVars
      => [flusher # "none" /\ flusher' = "none" /\ proc' = "up" /\ faults' = faults
            => before \cap acked' \subseteq durable']_allVars
  <2> SUFFICES ASSUME RowsInv, PromiseInv, ServerNext, flusher # "none", flusher' = "none",
                      proc' = "up", faults' = faults
      PROVE  before \cap acked' \subseteq durable'
    OBVIOUS
  <2>1. CASE FlushGoesOn
    <3>1. PromiseInv' /\ (fpc' = "idle" => before \cap acked' \subseteq durable')
      BY <2>1, PromiseKept
    <3> QED
      BY <3>1 DEF PromiseInv
  <2>2. CASE Exit \/ Kill
    BY <2>2 DEF Exit, Kill, Crash, LoseMemory
  <2>3. CASE ~FlushGoesOn /\ ~Exit /\ ~Kill
    BY <2>3 DEF ServerNext, StartBatch, HandlerStep, AppendEntry, SkipEntry, RefuseBatch,
       AnswerBatch, TickerFlush, ForceFlush, CloseFlush, CallFlush, TickerRetention,
       RetentionGoesOn, Merge, Sigterm, LoopExits, Restart, serverVars
  <2> QED
    BY <2>1, <2>2, <2>3
<1> QED
  BY <1>1, PromiseInvariant, PTL DEF ServerSpec, FlushPromise
====
