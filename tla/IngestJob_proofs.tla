-------------------------- MODULE IngestJob_proofs --------------------------
(***************************************************************************)
(* Theorems about IngestJob for any number of jobs, tiles and calls of the *)
(* processor.  Whatever restarts, timeouts, retries and second calls come  *)
(* in between, no tile is marked COMPLETED that was not ingested.  Of a    *)
(* job that none of them met, failed downloads and retries included, the   *)
(* stored progress is exact, and its completion is whole.                  *)
(***************************************************************************)
EXTENDS IngestJob, FiniteSetTheorems, TLAPS

Tables ==
    /\ job \in [Job -> JobRow]
    /\ tile \in [Job -> [Tile -> TileStatus]]

Data ==
    /\ tileCache \in SUBSET (Job \X Tile)
    /\ region \in Job \cup {NoJob}
    /\ held \subseteq OldPlaces \cup UNION {Region(j) : j \in Job}
    /\ recorded \in [Job -> Nat]
    /\ ingested \in SUBSET (Job \X Tile)

Counts ==
    /\ stale \in SUBSET Job /\ disturbed \in SUBSET Job
    /\ jobCalls \in Nat /\ jobFaults \in Nat

\* A call has a job, and a tile from the one it takes up to the note of its
\* progress; it marks only what was ingested.
CallSound(call) ==
    /\ call.at # "idle" => call.job \in Job
    /\ call.at \in {"fetch", "ingest", "mark", "progress"} => call.now \in Tile
    /\ call.at = "mark" => <<call.job, call.now>> \in ingested

JobIInv ==
    /\ Tables /\ Data /\ Counts
    /\ proc \in [Processor -> Call]
    /\ \A p \in Processor : CallSound(proc[p])
    /\ CompletedTileWasIngested

LEMMA IdleCallSound == IdleCall \in Call /\ IdleCall.at = "idle"
  BY DEF IdleCall, Call, JobStep

\* No job exists at first.
LEMMA InitJobIInv == JobInit => JobIInv
  <1> SUFFICES ASSUME JobInit PROVE JobIInv
    OBVIOUS
  <1>1. Tables
    BY DEF JobInit, Tables, JobRow, JobStatus, ChangeType, TileStatus
  <1>2. Data /\ Counts
    BY DEF JobInit, Data, Counts
  <1>3. proc \in [Processor -> Call] /\ \A p \in Processor : CallSound(proc[p])
    BY IdleCallSound DEF JobInit, CallSound
  <1>4. CompletedTileWasIngested
    BY DEF JobInit, CompletedTileWasIngested
  <1> QED
    BY <1>1, <1>2, <1>3, <1>4 DEF JobIInv

\* What the call p is at after a step of it, and what no other call notices.
LEMMA MoveSound ==
    ASSUME JobIInv, NEW p \in Processor, NEW call \in Call, proc' = [proc EXCEPT ![p] = call],
           ingested \subseteq ingested', CallSound(call)'
    PROVE  proc' \in [Processor -> Call] /\ \A q \in Processor : CallSound(proc[q])'
  <1>1. proc' \in [Processor -> Call] /\ proc'[p] = call
        /\ \A q \in Processor : q # p => proc'[q] = proc[q]
    BY DEF JobIInv
  <1>2. \A q \in Processor : q # p => CallSound(proc[q])'
    BY <1>1 DEF JobIInv, CallSound
  <1> QED
    BY <1>1, <1>2 DEF CallSound

LEMMA ReturnSound ==
    ASSUME JobIInv, NEW p \in Processor, Return(p), ingested' = ingested
    PROVE  proc' \in [Processor -> Call] /\ \A q \in Processor : CallSound(proc[q])'
  BY IdleCallSound, MoveSound DEF Return, CallSound

LEMMA GotoSound ==
    ASSUME JobIInv, NEW p \in Processor, NEW s \in JobStep, Goto(p, s), ingested \subseteq ingested',
           proc[p].at # "idle",
           s \in {"fetch", "ingest", "mark", "progress"}
               => proc[p].at \in {"fetch", "ingest", "mark", "progress"},
           s = "mark" => <<proc[p].job, proc[p].now>> \in ingested'
    PROVE  proc' \in [Processor -> Call] /\ \A q \in Processor : CallSound(proc[q])'
  <1>1. PICK old \in Call : old = proc[p] /\ CallSound(old)
    BY DEF JobIInv
  <1>2. PICK new : new = [old EXCEPT !.at = s]
    OBVIOUS
  <1>3. new \in Call /\ new.at = s /\ new.job = old.job /\ new.now = old.now
    BY <1>2 DEF Call
  <1>4. proc' = [proc EXCEPT ![p] = new]
    BY <1>1, <1>2 DEF Goto
  <1>5. CallSound(new)'
    BY <1>1, <1>3 DEF CallSound
  <1> QED
    BY <1>3, <1>4, <1>5, MoveSound

\* The status of a job, and that of a tile.
LEMMA SetSound ==
    ASSUME Tables, NEW j \in Job, NEW status \in JobStatus, Set(j, status)
    PROVE  job' \in [Job -> JobRow]
  BY DEF Tables, Set, JobRow

LEMMA SetTileSound ==
    ASSUME JobIInv, NEW j \in Job, NEW t \in Tile, NEW status \in TileStatus, SetTile(j, t, status),
           ingested' = ingested, status = "COMPLETED" => <<j, t>> \in ingested
    PROVE  tile' \in [Job -> [Tile -> TileStatus]] /\ CompletedTileWasIngested'
  <1>1. tile' \in [Job -> [Tile -> TileStatus]]
        /\ \A k \in Job, u \in Tile :
             tile'[k][u] = IF k = j /\ u = t THEN status ELSE tile[k][u]
    BY DEF JobIInv, Tables, SetTile
  <1> QED
    BY <1>1 DEF JobIInv, CompletedTileWasIngested

\* A job is made.
LEMMA CreateJobIInv ==
    ASSUME JobIInv, NEW j \in Job, NEW type \in ChangeTypes[j], CreateIngestJob(j, type)
    PROVE  JobIInv'
  <1> DEFINE others == {k \in Job : job[k].status # "NONE"}
  <1>1. Cardinality(others) \in Nat
    BY JobAssumption, FS_Subset, FS_CardinalityType
  <1>2. type \in ChangeType
    BY JobAssumption DEF ChangeType
  <1> HIDE DEF others
  <1>3. PICK row : row = [job[j] EXCEPT !.status = "PENDING", !.changeType = type,
                                        !.createdAt = Cardinality(others)]
    OBVIOUS
  <1>4. row \in JobRow
    BY <1>1, <1>2, <1>3 DEF JobIInv, Tables, JobRow, JobStatus
  <1>5. job' = [job EXCEPT ![j] = row]
    BY <1>3 DEF CreateIngestJob, others, JobIInv, Tables
  <1>6. job' \in [Job -> JobRow]
    BY <1>4, <1>5 DEF JobIInv, Tables
  <1>7. UNCHANGED <<tile, proc, stale, jobCalls, disturbed, jobFaults>>
        /\ UNCHANGED <<tileCache, region, held, recorded, ingested>>
    BY DEF CreateIngestJob, quiet, data
  <1> QED
    BY <1>6, <1>7 DEF JobIInv, Tables, Data, Counts, CallSound, CompletedTileWasIngested

\* A call on a job begins.
LEMMA EnterSound ==
    ASSUME JobIInv, NEW p \in Processor, NEW j \in Job, NEW at \in {"retry", "read"},
           NEW allowFailed \in BOOLEAN, Enter(p, j, at, allowFailed), ingested' = ingested
    PROVE  /\ proc' \in [Processor -> Call] /\ \A q \in Processor : CallSound(proc[q])'
           /\ disturbed' \in SUBSET Job /\ jobCalls' \in Nat
  <1>1. PICK new : new = [IdleCall EXCEPT !.at = at, !.job = j, !.allowFailed = allowFailed]
    OBVIOUS
  <1>2. new \in Call /\ new.at = at /\ new.job = j
    BY <1>1, IdleCallSound DEF Call, JobStep
  <1>3. proc' = [proc EXCEPT ![p] = new]
    BY <1>1 DEF Enter
  <1>4. CallSound(new)'
    BY <1>2 DEF CallSound
  <1>5. Disturbs(j) \subseteq Job
    BY DEF Disturbs, JobIInv, Call
  <1>6. proc' \in [Processor -> Call] /\ \A q \in Processor : CallSound(proc[q])'
    BY <1>2, <1>3, <1>4, MoveSound
  <1>7. disturbed' \in SUBSET Job /\ jobCalls' \in Nat
    BY <1>5 DEF Enter, JobIInv, Counts
  <1> QED
    BY <1>6, <1>7

LEMMA StartCallIInv ==
    ASSUME JobIInv, NEW p \in Processor, NEW j \in Job, StartCall(p, j)
    PROVE  JobIInv'
  <1>1. Enter(p, j, "read", FALSE) /\ UNCHANGED <<job, tile, stale, jobFaults>>
        /\ UNCHANGED <<tileCache, region, held, recorded, ingested>>
    BY DEF StartCall, data
  <1>2. /\ proc' \in [Processor -> Call] /\ \A q \in Processor : CallSound(proc[q])'
        /\ disturbed' \in SUBSET Job /\ jobCalls' \in Nat
    BY <1>1, EnterSound
  <1> QED
    BY <1>1, <1>2 DEF JobIInv, Tables, Data, Counts, CompletedTileWasIngested

LEMMA RetryIInv ==
    ASSUME JobIInv, NEW p \in Processor, NEW j \in Job, RetryFailedIngestJob(p, j)
    PROVE  JobIInv'
  <1>1. UNCHANGED <<stale, jobFaults>> /\ UNCHANGED <<tileCache, region, held, recorded, ingested>>
    BY DEF RetryFailedIngestJob, data
  <1>2. CASE Enter(p, j, "read", TRUE) /\ Set(j, "PENDING") /\ UNCHANGED tile
    <2>1. /\ proc' \in [Processor -> Call] /\ \A q \in Processor : CallSound(proc[q])'
          /\ disturbed' \in SUBSET Job /\ jobCalls' \in Nat
      BY <1>1, <1>2, EnterSound
    <2>2. job' \in [Job -> JobRow]
      BY <1>2, SetSound DEF JobIInv, JobStatus
    <2> QED
      BY <1>1, <1>2, <2>1, <2>2 DEF JobIInv, Tables, Data, Counts, CompletedTileWasIngested
  <1>3. ASSUME Enter(p, j, "retry", TRUE), UNCHANGED job,
               tile' = [tile EXCEPT ![j] = [t \in Tile |->
                          IF tile[j][t] = "FAILED" THEN "PENDING" ELSE tile[j][t]]]
        PROVE  JobIInv'
    <2>1. /\ proc' \in [Processor -> Call] /\ \A q \in Processor : CallSound(proc[q])'
          /\ disturbed' \in SUBSET Job /\ jobCalls' \in Nat
      BY <1>1, <1>3, EnterSound
    <2>2. tile' \in [Job -> [Tile -> TileStatus]]
      BY <1>3 DEF JobIInv, Tables, TileStatus
    <2>3. \A k \in Job, u \in Tile : tile'[k][u] = "COMPLETED" => tile[k][u] = "COMPLETED"
      BY <1>3 DEF JobIInv, Tables
    <2> QED
      BY <1>1, <1>3, <2>1, <2>2, <2>3 DEF JobIInv, Tables, Data, Counts, CompletedTileWasIngested
  <1> QED
    BY <1>2, <1>3 DEF RetryFailedIngestJob

\* The steps that only move a call on, or set the status of its job.
LEMMA StatusStep ==
    ASSUME JobIInv, UNCHANGED <<tile, quiet, data, jobFaults>>, job' \in [Job -> JobRow],
           proc' \in [Processor -> Call] /\ \A q \in Processor : CallSound(proc[q])'
    PROVE  JobIInv'
  BY DEF JobIInv, Tables, Data, Counts, CompletedTileWasIngested, quiet, data

LEMMA JobOfCall ==
    ASSUME JobIInv, NEW p \in Processor, proc[p].at # "idle"
    PROVE  proc[p] \in Call /\ proc[p].job \in Job
  BY DEF JobIInv, CallSound

LEMMA RetrySetsRunningIInv ==
    ASSUME JobIInv, NEW p \in Processor, RetrySetsRunning(p)
    PROVE  JobIInv'
  BY JobOfCall, GotoSound, SetSound, StatusStep
     DEF RetrySetsRunning, At, JobIInv, JobStatus, JobStep, data

LEMMA SetRunningIInv ==
    ASSUME JobIInv, NEW p \in Processor, SetRunning(p)
    PROVE  JobIInv'
  BY JobOfCall, GotoSound, SetSound, StatusStep
     DEF SetRunning, At, JobIInv, JobStatus, JobStep, data

LEMMA ReadJobIInv ==
    ASSUME JobIInv, NEW p \in Processor, ReadJob(p)
    PROVE  JobIInv'
  <1>1. UNCHANGED <<job, tile, quiet, data, jobFaults>> /\ proc[p].at = "read"
    BY DEF ReadJob, At
  <1>2. CASE Return(p)
    BY <1>1, <1>2, ReturnSound, StatusStep DEF JobIInv, Tables, data
  <1>3. ASSUME NEW limit \in BatchSizes,
               proc' = [proc EXCEPT ![p] =
                 [proc[p] EXCEPT !.at = IF job[proc[p].job].status = "RUNNING" THEN "purge" ELSE "begin",
                           !.batch = IF TileJob(proc[p].job) THEN Batch(proc[p].job, limit) ELSE {},
                           !.done = job[proc[p].job].tilesDone,
                           !.purged = job[proc[p].job].purged]]
        PROVE  JobIInv'
    <2> DEFINE j == proc[p].job
               at == IF job[j].status = "RUNNING" THEN "purge" ELSE "begin"
               batch == IF TileJob(j) THEN Batch(j, limit) ELSE {}
    <2>1. proc[p] \in Call /\ j \in Job
      BY <1>1, JobOfCall
    <2>2. job[j].tilesDone \in Nat /\ job[j].purged \in BOOLEAN
      BY <2>1 DEF JobIInv, Tables, JobRow
    <2>3. batch \in SUBSET Tile
      BY DEF Batch, Pending
    <2>4. at \in JobStep /\ at \in {"purge", "begin"}
      BY DEF JobStep
    <2> HIDE DEF at, batch
    <2>5. PICK new : new = [proc[p] EXCEPT !.at = at, !.batch = batch, !.done = job[j].tilesDone,
                                           !.purged = job[j].purged]
      OBVIOUS
    <2>6. new \in Call /\ new.at = at /\ new.job = j
      BY <2>1, <2>2, <2>3, <2>4, <2>5 DEF Call
    <2>7. proc' = [proc EXCEPT ![p] = new]
      BY <1>3, <2>5 DEF at, batch
    <2>8. CallSound(new)'
      BY <2>1, <2>4, <2>6 DEF CallSound
    <2> QED
      BY <1>1, <2>6, <2>7, <2>8, MoveSound, StatusStep DEF JobIInv, Tables, data
  <1> QED
    BY <1>2, <1>3 DEF ReadJob

\* Steps on the node's data: the tiles marked are none, or one that was ingested.
LEMMA DataStep ==
    ASSUME JobIInv, job' \in [Job -> JobRow], UNCHANGED <<tile, quiet>>, jobFaults' \in Nat,
           Data', ingested \subseteq ingested',
           proc' \in [Processor -> Call] /\ \A q \in Processor : CallSound(proc[q])'
    PROVE  JobIInv'
  BY DEF JobIInv, Tables, Counts, CompletedTileWasIngested, quiet

LEMMA PurgeIfNeededIInv ==
    ASSUME JobIInv, NEW p \in Processor, PurgeIfNeeded(p)
    PROVE  JobIInv'
  <1> DEFINE s == IF Kind(proc[p].job) = "shrink" THEN "commit" ELSE "purged"
  <1>1. proc[p] \in Call /\ proc[p].job \in Job /\ proc[p].at = "purge"
    BY JobOfCall DEF PurgeIfNeeded, At
  <1>2. UNCHANGED <<job, tile, quiet, tileCache, region, recorded, ingested, jobFaults>>
    BY DEF PurgeIfNeeded
  <1>3. CASE Goto(p, "purged") /\ UNCHANGED held
    <2>1. proc' \in [Processor -> Call] /\ \A q \in Processor : CallSound(proc[q])'
      BY <1>1, <1>2, <1>3, GotoSound DEF JobStep
    <2> QED
      BY <1>2, <1>3, <2>1, DataStep DEF JobIInv, Tables, Data, Counts
  <1>4. CASE /\ held' = held \cap Region(proc[p].job)
             /\ proc' = [proc EXCEPT ![p].purged = TRUE, ![p].at = s]
    <2>0. s \in {"commit", "purged"} /\ s \in JobStep
      BY DEF JobStep
    <2> HIDE DEF s
    <2>1. PICK new : new = [proc[p] EXCEPT !.purged = TRUE, !.at = s]
      OBVIOUS
    <2>2. new \in Call /\ new.at = s /\ new.job = proc[p].job
      BY <1>1, <2>0, <2>1 DEF Call
    <2>3. proc' = [proc EXCEPT ![p] = new]
      BY <1>4, <2>1 DEF JobIInv
    <2>4. CallSound(new)'
      BY <1>1, <2>0, <2>2 DEF CallSound
    <2>5. proc' \in [Processor -> Call] /\ \A q \in Processor : CallSound(proc[q])'
      BY <1>2, <2>2, <2>3, <2>4, MoveSound
    <2> QED
      BY <1>2, <1>4, <2>5, DataStep DEF JobIInv, Tables, Data, Counts
  <1> QED
    BY <1>3, <1>4 DEF PurgeIfNeeded

LEMMA NotePurgeIInv ==
    ASSUME JobIInv, NEW p \in Processor, NotePurge(p)
    PROVE  JobIInv'
  <1> DEFINE s == IF Kind(proc[p].job) = "import" THEN "import" ELSE "tiles"
  <1>1. proc[p] \in Call /\ proc[p].job \in Job /\ proc[p].at = "purged"
    BY JobOfCall DEF NotePurge, At
  <1>2. proc[p].purged \in BOOLEAN
    BY <1>1 DEF Call
  <1>3. job' \in [Job -> JobRow]
    BY <1>1, <1>2 DEF NotePurge, JobIInv, Tables, JobRow
  <1>4. s \in {"import", "tiles"} /\ s \in JobStep /\ Goto(p, s)
    BY DEF NotePurge, JobStep
  <1> HIDE DEF s
  <1>5. proc' \in [Processor -> Call] /\ \A q \in Processor : CallSound(proc[q])'
    BY <1>1, <1>4, GotoSound DEF NotePurge, data
  <1> QED
    BY <1>3, <1>5, StatusStep DEF NotePurge

\* Steps on one tile.
LEMMA TileStep ==
    ASSUME JobIInv, UNCHANGED <<job, quiet, data>>, jobFaults' \in Nat,
           tile' \in [Job -> [Tile -> TileStatus]], CompletedTileWasIngested',
           proc' \in [Processor -> Call] /\ \A q \in Processor : CallSound(proc[q])'
    PROVE  JobIInv'
  BY DEF JobIInv, Tables, Data, Counts, quiet, data

LEMMA TakeTileIInv ==
    ASSUME JobIInv, NEW p \in Processor, TakeTile(p)
    PROVE  JobIInv'
  <1>1. proc[p] \in Call /\ proc[p].job \in Job /\ UNCHANGED <<job, quiet, data, jobFaults>>
    BY JobOfCall DEF TakeTile, At
  <1>2. PICK t \in proc[p].batch :
           /\ SetTile(proc[p].job, t, "RUNNING")
           /\ proc' = [proc EXCEPT ![p] = [proc[p] EXCEPT !.at = "fetch", !.now = t,
                                                          !.batch = proc[p].batch \ {t}]]
    BY DEF TakeTile
  <1>3. t \in Tile
    BY <1>1, <1>2 DEF Call
  <1>4. tile' \in [Job -> [Tile -> TileStatus]] /\ CompletedTileWasIngested'
    BY <1>1, <1>2, <1>3, SetTileSound DEF data, TileStatus
  <1>5. PICK new : new = [proc[p] EXCEPT !.at = "fetch", !.now = t, !.batch = proc[p].batch \ {t}]
    OBVIOUS
  <1>6. new \in Call /\ new.at = "fetch" /\ new.now = t /\ new.job = proc[p].job
    BY <1>1, <1>3, <1>5 DEF Call, JobStep
  <1>7. proc' = [proc EXCEPT ![p] = new]
    BY <1>2, <1>5
  <1>8. CallSound(new)'
    BY <1>1, <1>3, <1>6 DEF CallSound
  <1>9. proc' \in [Processor -> Call] /\ \A q \in Processor : CallSound(proc[q])'
    BY <1>1, <1>6, <1>7, <1>8, MoveSound DEF data
  <1> QED
    BY <1>1, <1>4, <1>9, TileStep DEF JobIInv, Counts

LEMMA FetchTileIInv ==
    ASSUME JobIInv, NEW p \in Processor, FetchTile(p)
    PROVE  JobIInv'
  <1>1. proc[p] \in Call /\ proc[p].job \in Job /\ proc[p].now \in Tile /\ proc[p].at = "fetch"
    BY JobOfCall DEF FetchTile, At, JobIInv, CallSound
  <1>2. proc' \in [Processor -> Call] /\ \A q \in Processor : CallSound(proc[q])'
    BY <1>1, GotoSound DEF FetchTile, JobStep
  <1>3. Data'
    BY <1>1 DEF FetchTile, JobIInv, Data
  <1> QED
    BY <1>2, <1>3, DataStep DEF FetchTile, JobIInv, Tables, Counts

\* The elements of a tile are stored: from now on the tile may be marked.
LEMMA IngestTileIInv ==
    ASSUME JobIInv, NEW p \in Processor, IngestTile(p)
    PROVE  JobIInv'
  <1> DEFINE j == proc[p].job
             t == proc[p].now
  <1>1. proc[p] \in Call /\ j \in Job /\ t \in Tile /\ proc[p].at = "ingest"
    BY JobOfCall DEF IngestTile, At, JobIInv, CallSound
  <1>2. ingested' = ingested \cup {<<j, t>>}
    BY DEF IngestTile
  <1>3. proc' \in [Processor -> Call] /\ \A q \in Processor : CallSound(proc[q])'
    BY <1>1, <1>2, GotoSound DEF IngestTile, JobStep
  <1>4. Area[j][t] \in Region(j)
    BY <1>1 DEF Region
  <1>5. held' \subseteq OldPlaces \cup UNION {Region(k) : k \in Job}
    BY <1>1, <1>4 DEF IngestTile, JobIInv, Data
  <1>6. Data'
    BY <1>1, <1>2, <1>5 DEF IngestTile, JobIInv, Data
  <1> QED
    BY <1>2, <1>3, <1>6, DataStep DEF IngestTile, JobIInv, Tables, Counts

LEMMA MarkTileIInv ==
    ASSUME JobIInv, NEW p \in Processor, MarkTile(p)
    PROVE  JobIInv'
  <1>1. /\ proc[p] \in Call /\ proc[p].job \in Job /\ proc[p].now \in Tile /\ proc[p].at = "mark"
        /\ <<proc[p].job, proc[p].now>> \in ingested
    BY JobOfCall DEF MarkTile, At, JobIInv, CallSound
  <1>2. proc' \in [Processor -> Call] /\ \A q \in Processor : CallSound(proc[q])'
    BY <1>1, GotoSound DEF MarkTile, JobStep, data
  <1>3. tile' \in [Job -> [Tile -> TileStatus]] /\ CompletedTileWasIngested'
    BY <1>1, SetTileSound DEF MarkTile, data, TileStatus
  <1> QED
    BY <1>2, <1>3, TileStep DEF MarkTile, JobIInv, Counts

LEMMA NoteProgressIInv ==
    ASSUME JobIInv, NEW p \in Processor, NoteProgress(p)
    PROVE  JobIInv'
  <1> DEFINE done == proc[p].done + 1
  <1>1. proc[p] \in Call /\ proc[p].job \in Job
    BY JobOfCall DEF NoteProgress, At
  <1>2. done \in Nat
    BY <1>1 DEF Call
  <1>3. /\ job' = [job EXCEPT ![proc[p].job].tilesDone = done, ![proc[p].job].purged = TRUE]
        /\ proc' = [proc EXCEPT ![p] = [proc[p] EXCEPT !.at = "tiles", !.now = 0, !.done = done]]
        /\ UNCHANGED <<tile, quiet, data, jobFaults>>
    BY DEF NoteProgress
  <1> HIDE DEF done
  <1>4. job' \in [Job -> JobRow]
    BY <1>1, <1>2, <1>3 DEF JobIInv, Tables, JobRow
  <1>5. PICK new : new = [proc[p] EXCEPT !.at = "tiles", !.now = 0, !.done = done]
    OBVIOUS
  <1>6. new \in Call /\ new.at = "tiles" /\ new.job = proc[p].job
    BY <1>1, <1>2, <1>5 DEF Call, JobStep
  <1>7. proc' = [proc EXCEPT ![p] = new]
    BY <1>3, <1>5
  <1>8. CallSound(new)'
    BY <1>1, <1>6 DEF CallSound
  <1>9. proc' \in [Processor -> Call] /\ \A q \in Processor : CallSound(proc[q])'
    BY <1>3, <1>6, <1>7, <1>8, MoveSound DEF data
  <1> QED
    BY <1>3, <1>4, <1>9, StatusStep

LEMMA TileFailsIInv ==
    ASSUME JobIInv, NEW p \in Processor, TileFails(p)
    PROVE  JobIInv'
  <1>1. proc[p] \in Call /\ proc[p].job \in Job /\ proc[p].now \in Tile /\ proc[p].at # "idle"
    BY JobOfCall DEF TileFails, At, JobIInv, CallSound
  <1>2. proc' \in [Processor -> Call] /\ \A q \in Processor : CallSound(proc[q])'
    BY <1>1, GotoSound DEF TileFails, JobStep, data
  <1>3. tile' \in [Job -> [Tile -> TileStatus]] /\ CompletedTileWasIngested'
    BY <1>1, SetTileSound DEF TileFails, data, TileStatus
  <1>4. jobFaults' \in Nat /\ UNCHANGED <<job, quiet, data>>
    BY DEF TileFails, JobIInv, Counts
  <1> QED
    BY <1>2, <1>3, <1>4, TileStep

LEMMA FailJobIInv ==
    ASSUME JobIInv, NEW p \in Processor, FailJob(p)
    PROVE  JobIInv'
  BY JobOfCall, ReturnSound, SetSound, StatusStep DEF FailJob, At, JobIInv, JobStatus, data

LEMMA CountRemainingIInv ==
    ASSUME JobIInv, NEW p \in Processor, CountRemaining(p)
    PROVE  JobIInv'
  <1>1. UNCHANGED <<job, tile, quiet, data, jobFaults>> /\ proc[p].at = "tiles"
    BY DEF CountRemaining, At
  <1>2. proc' \in [Processor -> Call] /\ \A q \in Processor : CallSound(proc[q])'
    BY <1>1, ReturnSound, GotoSound DEF CountRemaining, JobStep, data
  <1> QED
    BY <1>1, <1>2, StatusStep DEF JobIInv, Tables

LEMMA ImportIInv ==
    ASSUME JobIInv, NEW p \in Processor, Import(p)
    PROVE  JobIInv'
  <1> DEFINE j == proc[p].job
  <1>1. j \in Job /\ proc[p].at = "import"
    BY JobOfCall DEF Import, At
  <1>2. UNCHANGED <<job, tile, quiet, tileCache, region, recorded>>
    BY DEF Import
  <1>3. CASE Goto(p, "commit") /\ ingested' = ingested \cup {<<j, t>> : t \in Tile}
             /\ held' = held \cup Region(j) /\ UNCHANGED jobFaults
    <2>1. proc' \in [Processor -> Call] /\ \A q \in Processor : CallSound(proc[q])'
      BY <1>1, <1>3, GotoSound DEF JobStep
    <2>2. {<<j, t>> : t \in Tile} \subseteq Job \X Tile
      BY <1>1
    <2>3. Data'
      BY <1>1, <1>2, <1>3, <2>2 DEF JobIInv, Data
    <2> QED
      BY <1>2, <1>3, <2>1, <2>3, DataStep DEF JobIInv, Tables, Counts
  <1>4. CASE jobFaults' = jobFaults + 1 /\ Goto(p, "fail") /\ UNCHANGED <<ingested, held>>
    <2>1. proc' \in [Processor -> Call] /\ \A q \in Processor : CallSound(proc[q])'
      BY <1>1, <1>4, GotoSound DEF JobStep
    <2> QED
      BY <1>2, <1>4, <2>1, DataStep DEF JobIInv, Tables, Data, Counts
  <1> QED
    BY <1>3, <1>4 DEF Import

LEMMA CommitBboxIInv ==
    ASSUME JobIInv, NEW p \in Processor, CommitBbox(p)
    PROVE  JobIInv'
  <1> DEFINE s == IF Kind(proc[p].job) = "shrink" THEN "complete" ELSE "record"
  <1>1. proc[p].job \in Job /\ proc[p].at = "commit"
    BY JobOfCall DEF CommitBbox, At
  <1>2. s \in {"complete", "record"} /\ s \in JobStep /\ Goto(p, s)
    BY DEF CommitBbox, JobStep
  <1> HIDE DEF s
  <1>3. proc' \in [Processor -> Call] /\ \A q \in Processor : CallSound(proc[q])'
    BY <1>1, <1>2, GotoSound DEF CommitBbox
  <1>4. Data'
    BY <1>1 DEF CommitBbox, JobIInv, Data
  <1> QED
    BY <1>3, <1>4, DataStep DEF CommitBbox, JobIInv, Tables, Counts

LEMMA RecordIngestIInv ==
    ASSUME JobIInv, NEW p \in Processor, RecordIngestComplete(p)
    PROVE  JobIInv'
  <1> DEFINE count == IF Kind(proc[p].job) = "import" THEN Tiles ELSE proc[p].done
  <1>1. proc[p] \in Call /\ proc[p].at = "record"
    BY JobOfCall DEF RecordIngestComplete, At
  <1>2. count \in Nat
    BY <1>1, JobAssumption DEF Call
  <1>3. recorded' = [recorded EXCEPT ![region] = count]
    BY DEF RecordIngestComplete
  <1> HIDE DEF count
  <1>4. recorded' \in [Job -> Nat]
    BY <1>2, <1>3 DEF JobIInv, Data
  <1>5. proc' \in [Processor -> Call] /\ \A q \in Processor : CallSound(proc[q])'
    BY <1>1, GotoSound DEF RecordIngestComplete, JobStep
  <1>6. Data'
    BY <1>4 DEF RecordIngestComplete, JobIInv, Data
  <1> QED
    BY <1>5, <1>6, DataStep DEF RecordIngestComplete, JobIInv, Tables, Counts

LEMMA CompleteJobIInv ==
    ASSUME JobIInv, NEW p \in Processor, CompleteJob(p)
    PROVE  JobIInv'
  <1>1. proc[p].job \in Job
    BY JobOfCall DEF CompleteJob, At
  <1>2. job' \in [Job -> JobRow]
    BY <1>1, SetSound DEF CompleteJob, JobIInv, JobStatus
  <1>3. proc' \in [Processor -> Call] /\ \A q \in Processor : CallSound(proc[q])'
    BY ReturnSound DEF CompleteJob
  <1>4. Data'
    BY DEF CompleteJob, ClearJobTileCache, JobIInv, Data
  <1> QED
    BY <1>2, <1>3, <1>4, DataStep DEF CompleteJob, JobIInv, Tables, Counts

\* The cron finds jobs that are too old, and fails them later.
LEMMA FindStaleIInv == ASSUME JobIInv, FindStale PROVE JobIInv'
  <1>1. PICK old \in SUBSET Job : stale' = old /\ disturbed' = disturbed \cup old
    BY DEF FindStale
  <1> QED
    BY <1>1 DEF FindStale, data, JobIInv, Tables, Data, Counts, CallSound, CompletedTileWasIngested

LEMMA FailStaleIInv == ASSUME JobIInv, FailStale PROVE JobIInv'
  <1>1. \A j \in Job : [job[j] EXCEPT !.status = "FAILED"] \in JobRow
    BY DEF JobIInv, Tables, JobRow, JobStatus
  <1>2. job' \in [Job -> JobRow]
    BY <1>1 DEF FailStale, JobIInv, Tables
  <1> QED
    BY <1>2 DEF FailStale, ClearJobTileCache, JobIInv, Tables, Data, Counts, CallSound,
       CompletedTileWasIngested

\* After a restart no call is under way; the rows and the cache are what they were.
LEMMA JobCrashIInv == ASSUME JobIInv, JobCrash PROVE JobIInv'
  <1>1. proc' \in [Processor -> Call] /\ \A p \in Processor : CallSound(proc[p])'
    BY IdleCallSound DEF JobCrash, CallSound
  <1>2. {proc[p].job : p \in Processor} \ {NoJob} \subseteq Job
    BY DEF JobIInv, Call
  <1> QED
    BY <1>1, <1>2 DEF JobCrash, data, JobIInv, Tables, Data, Counts, CompletedTileWasIngested

\* JobIInv is inductive.
LEMMA NextJobIInv == JobIInv /\ [JobNext]_jobVars => JobIInv'
  <1> SUFFICES ASSUME JobIInv, [JobNext]_jobVars PROVE JobIInv'
    OBVIOUS
  <1>1. CASE UNCHANGED jobVars
    BY <1>1 DEF jobVars, JobIInv, Tables, Data, Counts, CallSound, CompletedTileWasIngested
  <1>2. CASE JobNext
    BY <1>2, CreateJobIInv, StartCallIInv, RetryIInv, RetrySetsRunningIInv, ReadJobIInv,
       SetRunningIInv, PurgeIfNeededIInv, NotePurgeIInv, TakeTileIInv, FetchTileIInv, IngestTileIInv,
       MarkTileIInv, NoteProgressIInv, TileFailsIInv, FailJobIInv, CountRemainingIInv,
       ImportIInv, CommitBboxIInv, RecordIngestIInv, CompleteJobIInv, FindStaleIInv, FailStaleIInv,
       JobCrashIInv
       DEF JobNext
  <1> QED
    BY <1>1, <1>2

\* The invariant of jobs, tiles and calls.
THEOREM SpecJobIInv == JobSpec => []JobIInv
  <1> QED
    BY InitJobIInv, NextJobIInv, PTL DEF JobSpec

\* The types of the variables are invariant.
THEOREM JobTypesCorrect == JobSpec => []JobTypeOK
  <1>1. JobIInv => JobTypeOK
    BY DEF JobIInv, Tables, Data, Counts, JobTypeOK
  <1> QED
    BY <1>1, SpecJobIInv, PTL

\* No tile is skipped for ever because of a mark that came too early.
THEOREM MarksAreEarned == JobSpec => []CompletedTileWasIngested
  <1>1. JobIInv => CompletedTileWasIngested
    BY DEF JobIInv
  <1> QED
    BY <1>1, SpecJobIInv, PTL

-----------------------------------------------------------------------------
(* A job that no restart, timeout or second call met.                        *)

MarkedTiles(j) == {t \in Tile : tile[j][t] = "COMPLETED"}
InHand == {"fetch", "ingest", "mark"}

\* What is known of its tiles and places until it completes.
Kept(j) ==
    /\ job[j].status = "NONE" => ~job[j].purged /\ MarkedTiles(j) = {}
    /\ job[j].status \notin {"NONE", "COMPLETED"} => \A t \in MarkedTiles(j) : Area[j][t] \in held
    /\ job[j].purged /\ job[j].status # "COMPLETED" /\ Kind(j) # "refresh"
         => held \subseteq Region(j)

\* Between its calls.
AtRest(j) ==
    /\ \A t \in Tile : tile[j][t] # "RUNNING"
    /\ job[j].tilesDone = Cardinality(MarkedTiles(j))
    /\ MarkedTiles(j) # {} => job[j].purged

\* A half-done job is left alone by the calls on others.
JobWhole(j) ==
    /\ Kept(j)
    /\ job[j].purged /\ job[j].status # "COMPLETED" =>
         \A q \in Processor : proc[q].job \in {NoJob, j}
    /\ (\A p \in Processor : proc[p].job # j) => AtRest(j)

\* What its call c has read and counted is what is stored, ...
CountsExact(c, j) ==
    /\ job[j].status \notin {"NONE", "COMPLETED"}
    /\ c.at # "progress" => job[j].tilesDone = Cardinality(MarkedTiles(j))
    /\ c.at = "progress" => job[j].tilesDone + 1 = Cardinality(MarkedTiles(j))
    /\ c.at # "progress" /\ MarkedTiles(j) # {} => job[j].purged
    /\ c.at \notin {"retry", "read"} => c.done = job[j].tilesDone /\ c.batch \subseteq Pending(j)
    /\ c.at \in {"begin", "purge"} => c.purged = job[j].purged
    /\ c.at = "purged" => (job[j].purged => c.purged)

\* ... the one tile under way is the one it has in hand, ...
TilesExact(c, j) ==
    /\ \A t \in Tile : tile[j][t] = "RUNNING" => c.at \in InHand /\ t = c.now
    /\ c.at \in InHand => tile[j][c.now] = "RUNNING"
    /\ c.at = "mark" => Area[j][c.now] \in held
    /\ c.at \in InHand \cup {"tiles", "progress"} => TileJob(j)

\* ... and what it is through with is done.
PlacesExact(c, j) ==
    /\ c.at \notin {"retry", "read", "begin", "purge"} /\ Kind(j) # "refresh"
         => held \subseteq Region(j)
    /\ c.at = "import" => Kind(j) = "import"
    /\ c.at \in {"purged", "record"} => Kind(j) # "shrink"
    /\ c.at \in {"commit", "record", "complete"} =>
         /\ TileJob(j) => MarkedTiles(j) = Tile
         /\ Kind(j) = "import" => Region(j) \subseteq held
    /\ c.at \in {"record", "complete"} => region = j
    /\ c.at = "complete" /\ Kind(j) # "shrink" => recorded[j] = Tiles

CallExact(c, j) == CountsExact(c, j) /\ TilesExact(c, j) /\ PlacesExact(c, j)

\* No other call is under way.
Alone(p) == \A q \in Processor : q # p => proc[q].job = NoJob

WholeIInv ==
    /\ stale \subseteq disturbed
    /\ \A p \in Processor : proc[p].at = "idle" => proc[p].job = NoJob
    /\ \A j \in Job \ disturbed : JobWhole(j)
    /\ \A p \in Processor, j \in Job \ disturbed :
         proc[p].job = j => Alone(p) /\ CallExact(proc[p], j)

LEMMA InitWhole == JobInit => WholeIInv
  <1> SUFFICES ASSUME JobInit PROVE WholeIInv
    OBVIOUS
  <1>1. \A p \in Processor : proc[p].job = NoJob
    BY DEF JobInit, IdleCall
  <1>2. \A j \in Job : MarkedTiles(j) = {}
    BY DEF JobInit, MarkedTiles
  <1>3. Cardinality({}) = 0
    BY FS_EmptySet
  <1>4. \A j \in Job : JobWhole(j)
    BY <1>1, <1>2, <1>3 DEF JobInit, JobWhole, Kept, AtRest
  <1> QED
    BY <1>1, <1>4, JobAssumption DEF JobInit, WholeIInv

\* The tiles of a job are finitely many.
LEMMA DoneIsFinite ==
    ASSUME NEW j \in Job
    PROVE  IsFiniteSet(MarkedTiles(j)) /\ Cardinality(MarkedTiles(j)) \in Nat /\ Cardinality(Tile) = Tiles
  <1>1. IsFiniteSet(Tile) /\ Cardinality(Tile) = Tiles
    BY JobAssumption, FS_Interval DEF Tile
  <1>2. MarkedTiles(j) \in SUBSET Tile
    BY DEF MarkedTiles
  <1> QED
    BY <1>1, <1>2, FS_Subset, FS_CardinalityType

LEMMA SameTiles ==
    ASSUME NEW j \in Job, tile'[j] = tile[j]
    PROVE  MarkedTiles(j)' = MarkedTiles(j) /\ Pending(j)' = Pending(j)
  BY DEF MarkedTiles, Pending

\* The call p, at work on the job j.
On(p, j) == proc[p].at # "idle" /\ proc[p].job = j

LEMMA OnJob == ASSUME JobIInv, NEW p \in Processor, proc[p].at # "idle" PROVE \E j \in Job : On(p, j)
  BY JobOfCall DEF On

\* Of the other jobs that are undisturbed, none is half done and none has a call.
LEMMA OtherJobs ==
    ASSUME JobIInv, WholeIInv, NEW p \in Processor, NEW j \in Job, On(p, j),
           NEW k \in Job \ disturbed, k # j
    PROVE  /\ \A q \in Processor : proc[q].job # k
           /\ AtRest(k) /\ (job[k].status = "COMPLETED" \/ (~job[k].purged /\ MarkedTiles(k) = {}))
  <1>1. j # NoJob
    BY JobAssumption
  <1>2. \A q \in Processor : proc[q].job # k
    BY <1>1 DEF WholeIInv, Alone, On
  <1>3. JobWhole(k)
    BY DEF WholeIInv
  <1>4. ~(job[k].purged /\ job[k].status # "COMPLETED")
    BY <1>1, <1>3 DEF JobWhole, On
  <1>5. job[k].purged \in BOOLEAN
    BY DEF JobIInv, Tables, JobRow
  <1> QED
    BY <1>2, <1>3, <1>4, <1>5 DEF JobWhole, AtRest

\* Everything p does is about its own job.
OwnStep(j) ==
    /\ \A k \in Job : k # j => job'[k] = job[k] /\ tile'[k] = tile[k]
    /\ UNCHANGED <<stale, disturbed>>

LEMMA OthersWhole ==
    ASSUME JobIInv, WholeIInv, NEW p \in Processor, NEW j \in Job, On(p, j), OwnStep(j),
           NEW k \in Job \ disturbed, k # j,
           \A q \in Processor : q # p => proc'[q] = proc[q],
           proc'[p].job \in {j, NoJob}
    PROVE  JobWhole(k)' /\ \A q \in Processor : proc'[q].job # k
  <1>1. /\ \A q \in Processor : proc[q].job # k
        /\ AtRest(k) /\ (job[k].status = "COMPLETED" \/ (~job[k].purged /\ MarkedTiles(k) = {}))
    BY OtherJobs
  <1>2. job'[k] = job[k] /\ tile'[k] = tile[k] /\ MarkedTiles(k)' = MarkedTiles(k)
    BY SameTiles DEF OwnStep
  <1>3. k # NoJob
    BY JobAssumption
  <1>4. \A q \in Processor : proc'[q].job # k
    BY <1>1, <1>3
  <1>5. Kept(k)'
    BY <1>1, <1>2 DEF Kept
  <1>6. AtRest(k)'
    BY <1>1, <1>2 DEF AtRest
  <1>7. job'[k].purged => job'[k].status = "COMPLETED"
    BY <1>1, <1>2
  <1> QED
    BY <1>4, <1>5, <1>6, <1>7 DEF JobWhole

\* A step after which the call goes on.
LEMMA CallGoesOn ==
    ASSUME JobIInv, WholeIInv, NEW p \in Processor, NEW j \in Job, On(p, j), OwnStep(j),
           NEW c, proc' = [proc EXCEPT ![p] = c], c.job = j, c.at # "idle",
           j \notin disturbed => Kept(j)' /\ CallExact(c, j)'
    PROVE  WholeIInv'
  <1>1. /\ proc'[p] = c /\ \A q \in Processor : q # p => proc'[q] = proc[q]
    BY DEF JobIInv
  <1>2. stale' = stale /\ disturbed' = disturbed /\ j # NoJob
    BY JobAssumption DEF OwnStep
  <1>3. \A k \in Job \ disturbed : k # j => JobWhole(k)' /\ \A q \in Processor : proc'[q].job # k
    BY <1>1, OthersWhole
  <1>4. j \notin disturbed => Alone(p)'
    BY <1>1 DEF WholeIInv, Alone, On
  <1>5. j \notin disturbed => JobWhole(j)'
    BY <1>1, <1>4 DEF JobWhole, Alone
  <1>6. \A q \in Processor : proc'[q].at = "idle" => proc'[q].job = NoJob
    BY <1>1 DEF WholeIInv
  <1>7. ASSUME NEW q \in Processor, NEW k \in Job \ disturbed', proc'[q].job = k
        PROVE  Alone(q)' /\ CallExact(proc[q], k)'
    <2>1. k = j /\ k \notin disturbed
      BY <1>2, <1>3, <1>7
    <2>2. q = p
      BY <1>2, <1>4, <1>7, <2>1 DEF Alone
    <2> QED
      BY <1>1, <1>4, <2>1, <2>2
  <1> QED
    BY <1>2, <1>3, <1>5, <1>6, <1>7 DEF WholeIInv

\* A step with which it returns.
LEMMA CallReturns ==
    ASSUME JobIInv, WholeIInv, NEW p \in Processor, NEW j \in Job, On(p, j), OwnStep(j), Return(p),
           j \notin disturbed => Kept(j)' /\ AtRest(j)'
    PROVE  WholeIInv'
  <1>1. /\ proc'[p] = IdleCall /\ \A q \in Processor : q # p => proc'[q] = proc[q]
    BY DEF JobIInv, Return
  <1>2. IdleCall.job = NoJob /\ IdleCall.at = "idle" /\ j # NoJob
    BY JobAssumption DEF IdleCall
  <1>3. stale' = stale /\ disturbed' = disturbed
    BY DEF OwnStep
  <1>4. \A k \in Job \ disturbed : k # j => JobWhole(k)' /\ \A q \in Processor : proc'[q].job # k
    BY <1>1, <1>2, OthersWhole
  <1>5. j \notin disturbed => \A q \in Processor : proc'[q].job = NoJob
    BY <1>1, <1>2 DEF WholeIInv, Alone, On
  <1>6. j \notin disturbed => JobWhole(j)'
    BY <1>5 DEF JobWhole
  <1>7. \A q \in Processor : proc'[q].at = "idle" => proc'[q].job = NoJob
    BY <1>1, <1>2 DEF WholeIInv
  <1>8. \A q \in Processor, k \in Job \ disturbed : proc'[q].job # k
    BY <1>2, <1>4, <1>5
  <1> QED
    BY <1>3, <1>4, <1>6, <1>7, <1>8 DEF WholeIInv

\* What is known of the call p on a job that is undisturbed.
LEMMA Undisturbed ==
    ASSUME JobIInv, WholeIInv, NEW p \in Processor, NEW j \in Job, On(p, j), j \notin disturbed
    PROVE  /\ Kept(j) /\ CallExact(proc[p], j) /\ job[j] \in JobRow
           /\ tile[j] \in [Tile -> TileStatus]
  BY DEF WholeIInv, JobWhole, On, JobIInv, Tables

\* The call c is proc[p], moved to the step s.
Moved(c, p, s) ==
    /\ c.at = s /\ c.job = proc[p].job /\ c.now = proc[p].now /\ c.batch = proc[p].batch
    /\ c.done = proc[p].done /\ c.purged = proc[p].purged

LEMMA GoesTo ==
    ASSUME JobIInv, NEW p \in Processor, NEW s, Goto(p, s)
    PROVE  \E c : proc' = [proc EXCEPT ![p] = c] /\ Moved(c, p, s)
  <1> DEFINE c == [proc[p] EXCEPT !.at = s]
  <1>1. proc[p] \in Call
    BY DEF JobIInv
  <1>2. Moved(c, p, s)
    BY <1>1 DEF Moved, Call
  <1>3. proc' = [proc EXCEPT ![p] = c]
    BY DEF Goto
  <1> QED
    BY <1>2, <1>3

LEMMA RetrySetsRunningWhole ==
    ASSUME JobIInv, WholeIInv, NEW p \in Processor, RetrySetsRunning(p)
    PROVE  WholeIInv'
  <1>1. PICK j \in Job : On(p, j)
    BY OnJob DEF RetrySetsRunning, At
  <1>2. PICK c : proc' = [proc EXCEPT ![p] = c] /\ Moved(c, p, "read")
    BY GoesTo DEF RetrySetsRunning
  <1>3. /\ proc[p].at = "retry" /\ job' = [job EXCEPT ![j].status = "RUNNING"]
        /\ UNCHANGED <<tile, stale, disturbed, held, region, recorded>>
    BY <1>1 DEF RetrySetsRunning, At, Set, On, quiet, data
  <1>4. ASSUME j \notin disturbed PROVE Kept(j)' /\ CallExact(c, j)'
    <2>1. Kept(j) /\ CallExact(proc[p], j) /\ job[j] \in JobRow
      BY <1>1, <1>4, Undisturbed
    <2>2. /\ job'[j].status = "RUNNING" /\ job'[j].purged = job[j].purged
          /\ job'[j].tilesDone = job[j].tilesDone /\ job'[j].changeType = job[j].changeType
      BY <1>3, <2>1 DEF JobIInv, Tables, JobRow
    <2>3. MarkedTiles(j)' = MarkedTiles(j)
      BY <1>3, SameTiles
    <2> QED
      BY <1>2, <1>3, <2>1, <2>2, <2>3
      DEF Kept, CallExact, CountsExact, TilesExact, PlacesExact, InHand, Moved, Kind, TileJob
  <1>5. OwnStep(j)
    BY <1>3 DEF OwnStep, JobIInv, Tables
  <1> QED
    BY <1>1, <1>2, <1>4, <1>5, CallGoesOn DEF Moved, On

LEMMA SetRunningWhole ==
    ASSUME JobIInv, WholeIInv, NEW p \in Processor, SetRunning(p)
    PROVE  WholeIInv'
  <1>1. PICK j \in Job : On(p, j)
    BY OnJob DEF SetRunning, At
  <1>2. PICK c : proc' = [proc EXCEPT ![p] = c] /\ Moved(c, p, "purge")
    BY GoesTo DEF SetRunning
  <1>3. /\ proc[p].at = "begin" /\ job' = [job EXCEPT ![j].status = "RUNNING"]
        /\ UNCHANGED <<tile, stale, disturbed, held, region, recorded>>
    BY <1>1 DEF SetRunning, At, Set, On, quiet, data
  <1>4. ASSUME j \notin disturbed PROVE Kept(j)' /\ CallExact(c, j)'
    <2>1. Kept(j) /\ CallExact(proc[p], j) /\ job[j] \in JobRow
      BY <1>1, <1>4, Undisturbed
    <2>2. /\ job'[j].status = "RUNNING" /\ job'[j].purged = job[j].purged
          /\ job'[j].tilesDone = job[j].tilesDone /\ job'[j].changeType = job[j].changeType
      BY <1>3, <2>1 DEF JobIInv, Tables, JobRow
    <2>3. MarkedTiles(j)' = MarkedTiles(j) /\ Pending(j)' = Pending(j)
      BY <1>3, SameTiles
    <2> QED
      BY <1>2, <1>3, <2>1, <2>2, <2>3
      DEF Kept, CallExact, CountsExact, TilesExact, PlacesExact, InHand, Moved, Kind, TileJob
  <1>5. OwnStep(j)
    BY <1>3 DEF OwnStep, JobIInv, Tables
  <1> QED
    BY <1>1, <1>2, <1>4, <1>5, CallGoesOn DEF Moved, On

LEMMA ReadJobWhole ==
    ASSUME JobIInv, WholeIInv, NEW p \in Processor, ReadJob(p)
    PROVE  WholeIInv'
  <1>1. PICK j \in Job : On(p, j)
    BY OnJob DEF ReadJob, At
  <1>2. proc[p].at = "read" /\ UNCHANGED <<job, tile, stale, disturbed, held, region, recorded>>
    BY DEF ReadJob, At, quiet, data
  <1>3. OwnStep(j) /\ MarkedTiles(j)' = MarkedTiles(j) /\ Pending(j)' = Pending(j)
    BY <1>2, SameTiles DEF OwnStep
  <1>4. CASE Return(p)
    <2>1. ASSUME j \notin disturbed PROVE Kept(j)' /\ AtRest(j)'
      <3>1. Kept(j) /\ CallExact(proc[p], j)
        BY <1>1, <2>1, Undisturbed
      <3> QED
        BY <1>2, <1>3, <3>1
        DEF Kept, CallExact, CountsExact, TilesExact, InHand, AtRest, Kind
    <2> QED
      BY <1>1, <1>3, <1>4, <2>1, CallReturns
  <1>5. CASE ~Return(p)
    <2>1. PICK limit \in BatchSizes :
            proc' = [proc EXCEPT ![p] =
              [proc[p] EXCEPT !.at = IF job[j].status = "RUNNING" THEN "purge" ELSE "begin",
                              !.batch = IF TileJob(j) THEN Batch(j, limit) ELSE {},
                              !.done = job[j].tilesDone, !.purged = job[j].purged]]
      BY <1>1, <1>5 DEF ReadJob, On
    <2> DEFINE at == IF job[j].status = "RUNNING" THEN "purge" ELSE "begin"
               batch == IF TileJob(j) THEN Batch(j, limit) ELSE {}
    <2>2. at \in {"purge", "begin"} /\ batch \subseteq Pending(j)
      BY DEF Batch
    <2> HIDE DEF at, batch
    <2>3. PICK c : c = [proc[p] EXCEPT !.at = at, !.batch = batch, !.done = job[j].tilesDone,
                                       !.purged = job[j].purged]
      OBVIOUS
    <2>4. /\ c.at = at /\ c.job = j /\ c.batch = batch /\ c.done = job[j].tilesDone
          /\ c.purged = job[j].purged /\ c.now = proc[p].now
      BY <1>1, <2>3 DEF JobIInv, Call, On
    <2>5. proc' = [proc EXCEPT ![p] = c]
      BY <2>1, <2>3 DEF at, batch
    <2>6. ASSUME j \notin disturbed PROVE Kept(j)' /\ CallExact(c, j)'
      <3>1. Kept(j) /\ CallExact(proc[p], j)
        BY <1>1, <2>6, Undisturbed
      <3> QED
        BY <1>2, <1>3, <2>2, <2>4, <3>1
        DEF Kept, CallExact, CountsExact, TilesExact, PlacesExact, InHand, Kind, TileJob
    <2> QED
      BY <1>1, <1>3, <2>2, <2>4, <2>5, <2>6, CallGoesOn
  <1> QED
    BY <1>4, <1>5

\* The purge takes only what is outside, and may be skipped when it was made.
LEMMA PurgeIfNeededWhole ==
    ASSUME JobIInv, WholeIInv, NEW p \in Processor, PurgeIfNeeded(p)
    PROVE  WholeIInv'
  <1>1. PICK j \in Job : On(p, j)
    BY OnJob DEF PurgeIfNeeded, At
  <1>2. proc[p].at = "purge" /\ UNCHANGED <<job, tile, stale, disturbed, region, recorded>>
    BY DEF PurgeIfNeeded, At, quiet
  <1>3. OwnStep(j) /\ MarkedTiles(j)' = MarkedTiles(j) /\ Pending(j)' = Pending(j)
    BY <1>2, SameTiles DEF OwnStep
  <1>4. CASE SkipsPurge(p)
    <2>1. Goto(p, "purged") /\ held' = held
      BY <1>4 DEF PurgeIfNeeded
    <2>2. PICK c : proc' = [proc EXCEPT ![p] = c] /\ Moved(c, p, "purged")
      BY <2>1, GoesTo
    <2>3. ASSUME j \notin disturbed PROVE Kept(j)' /\ CallExact(c, j)'
      <3>1. Kept(j) /\ CallExact(proc[p], j)
        BY <1>1, <2>3, Undisturbed
      <3>2. Kind(j) = "refresh" \/ (Kind(j) # "shrink" /\ proc[p].purged)
        BY <1>1, <1>4 DEF SkipsPurge, On
      <3> QED
        BY <1>2, <1>3, <2>1, <2>2, <3>1, <3>2
        DEF Kept, CallExact, CountsExact, TilesExact, PlacesExact, InHand, Moved, Kind, TileJob
    <2> QED
      BY <1>1, <1>3, <2>2, <2>3, CallGoesOn DEF Moved, On
  <1>5. CASE ~SkipsPurge(p)
    <2> DEFINE s == IF Kind(j) = "shrink" THEN "commit" ELSE "purged"
    <2>1. held' = held \cap Region(j)
          /\ proc' = [proc EXCEPT ![p].purged = TRUE, ![p].at = s]
      BY <1>1, <1>5 DEF PurgeIfNeeded, On
    <2>2. s \in {"commit", "purged"} /\ (s = "commit" <=> Kind(j) = "shrink")
      OBVIOUS
    <2> HIDE DEF s
    <2>3. PICK c : c = [proc[p] EXCEPT !.purged = TRUE, !.at = s]
      OBVIOUS
    <2>4. /\ c.at = s /\ c.job = j /\ c.batch = proc[p].batch /\ c.done = proc[p].done
          /\ c.purged /\ c.now = proc[p].now
      BY <1>1, <2>3 DEF JobIInv, Call, On
    <2>5. proc' = [proc EXCEPT ![p] = c]
      BY <2>1, <2>3 DEF JobIInv
    <2>6. ASSUME j \notin disturbed PROVE Kept(j)' /\ CallExact(c, j)'
      <3>1. Kept(j) /\ CallExact(proc[p], j)
        BY <1>1, <2>6, Undisturbed
      <3>2. \A t \in MarkedTiles(j) : Area[j][t] \in Region(j)
        BY DEF MarkedTiles, Region
      <3>3. Kept(j)'
        BY <1>2, <1>3, <2>1, <3>1, <3>2 DEF Kept, Kind
      <3>4. CountsExact(c, j)' /\ TilesExact(c, j)' /\ PlacesExact(c, j)'
        BY <1>2, <1>3, <2>1, <2>2, <2>4, <3>1
        DEF CallExact, CountsExact, TilesExact, PlacesExact, InHand, Kind, TileJob
      <3> QED
        BY <3>3, <3>4 DEF CallExact
    <2> QED
      BY <1>1, <1>3, <2>2, <2>4, <2>5, <2>6, CallGoesOn
  <1> QED
    BY <1>4, <1>5

LEMMA NotePurgeWhole ==
    ASSUME JobIInv, WholeIInv, NEW p \in Processor, NotePurge(p)
    PROVE  WholeIInv'
  <1>1. PICK j \in Job : On(p, j)
    BY OnJob DEF NotePurge, At
  <1> DEFINE s == IF Kind(j) = "import" THEN "import" ELSE "tiles"
  <1>2. /\ proc[p].at = "purged" /\ job' = [job EXCEPT ![j].purged = proc[p].purged]
        /\ UNCHANGED <<tile, stale, disturbed, held, region, recorded>> /\ Goto(p, s)
    BY <1>1 DEF NotePurge, At, On, quiet, data
  <1>3. s \in {"import", "tiles"} /\ (s = "import" <=> Kind(j) = "import")
    OBVIOUS
  <1> HIDE DEF s
  <1>4. PICK c : proc' = [proc EXCEPT ![p] = c] /\ Moved(c, p, s)
    BY <1>2, GoesTo
  <1>5. ASSUME j \notin disturbed PROVE Kept(j)' /\ CallExact(c, j)'
    <2>1. Kept(j) /\ CallExact(proc[p], j) /\ job[j] \in JobRow
      BY <1>1, <1>5, Undisturbed
    <2>2. /\ job'[j].status = job[j].status /\ job'[j].purged = proc[p].purged
          /\ job'[j].tilesDone = job[j].tilesDone /\ job'[j].changeType = job[j].changeType
      BY <1>2, <2>1 DEF JobIInv, Tables, JobRow
    <2>3. MarkedTiles(j)' = MarkedTiles(j) /\ Pending(j)' = Pending(j)
      BY <1>2, SameTiles
    <2>4. TileJob(j) \/ Kind(j) \in {"import", "shrink"}
      BY <2>1 DEF TileJob, Kind, JobRow, ChangeType
    <2> QED
      BY <1>2, <1>3, <1>4, <2>1, <2>2, <2>3, <2>4
      DEF Kept, CallExact, CountsExact, TilesExact, PlacesExact, InHand, Moved, Kind, TileJob
  <1>6. OwnStep(j)
    BY <1>2 DEF OwnStep, JobIInv, Tables
  <1> QED
    BY <1>1, <1>3, <1>4, <1>5, <1>6, CallGoesOn DEF Moved, On

LEMMA SetTileIs ==
    ASSUME JobIInv, NEW j \in Job, NEW t \in Tile, NEW status, SetTile(j, t, status)
    PROVE  /\ \A k \in Job : k # j => tile'[k] = tile[k]
           /\ \A u \in Tile : tile'[j][u] = IF u = t THEN status ELSE tile[j][u]
           /\ MarkedTiles(j)' = IF status = "COMPLETED" THEN MarkedTiles(j) \cup {t} ELSE MarkedTiles(j) \ {t}
           /\ Pending(j) \ {t} \subseteq Pending(j)'
  <1>1. /\ \A k \in Job : k # j => tile'[k] = tile[k]
        /\ \A u \in Tile : tile'[j][u] = IF u = t THEN status ELSE tile[j][u]
    BY DEF SetTile, JobIInv, Tables
  <1> QED
    BY <1>1 DEF MarkedTiles, Pending

LEMMA TakeTileWhole ==
    ASSUME JobIInv, WholeIInv, NEW p \in Processor, TakeTile(p)
    PROVE  WholeIInv'
  <1>1. PICK j \in Job : On(p, j)
    BY OnJob DEF TakeTile, At
  <1>2. proc[p].at = "tiles" /\ UNCHANGED <<job, stale, disturbed, held, region, recorded>>
        /\ proc[p] \in Call
    BY DEF TakeTile, At, quiet, data, JobIInv
  <1>3. PICK t \in proc[p].batch :
           /\ SetTile(j, t, "RUNNING")
           /\ proc' = [proc EXCEPT ![p] = [proc[p] EXCEPT !.at = "fetch", !.now = t,
                                                          !.batch = proc[p].batch \ {t}]]
    BY <1>1 DEF TakeTile, On
  <1>4. t \in Tile
    BY <1>2 DEF Call
  <1>5. /\ \A k \in Job : k # j => tile'[k] = tile[k]
        /\ \A u \in Tile : tile'[j][u] = IF u = t THEN "RUNNING" ELSE tile[j][u]
        /\ MarkedTiles(j)' = MarkedTiles(j) \ {t} /\ Pending(j) \ {t} \subseteq Pending(j)'
    BY <1>3, <1>4, SetTileIs
  <1>6. PICK c : c = [proc[p] EXCEPT !.at = "fetch", !.now = t, !.batch = proc[p].batch \ {t}]
    OBVIOUS
  <1>7. /\ c.at = "fetch" /\ c.job = j /\ c.now = t /\ c.batch = proc[p].batch \ {t}
        /\ c.done = proc[p].done /\ c.purged = proc[p].purged
    BY <1>1, <1>2, <1>6 DEF Call, On
  <1>8. ASSUME j \notin disturbed PROVE Kept(j)' /\ CallExact(c, j)'
    <2>1. Kept(j) /\ CallExact(proc[p], j)
      BY <1>1, <1>8, Undisturbed
    <2>2. proc[p].batch \subseteq Pending(j)
      BY <1>2, <2>1 DEF CallExact, CountsExact
    <2>3. MarkedTiles(j)' = MarkedTiles(j)
      BY <1>5, <2>2 DEF Pending, MarkedTiles
    <2> QED
      BY <1>2, <1>4, <1>5, <1>7, <2>1, <2>2, <2>3
      DEF Kept, CallExact, CountsExact, TilesExact, PlacesExact, InHand, Kind, TileJob
  <1>9. OwnStep(j)
    BY <1>2, <1>5 DEF OwnStep
  <1> QED
    BY <1>1, <1>3, <1>6, <1>7, <1>8, <1>9, CallGoesOn

LEMMA FetchTileWhole ==
    ASSUME JobIInv, WholeIInv, NEW p \in Processor, FetchTile(p)
    PROVE  WholeIInv'
  <1>1. PICK j \in Job : On(p, j)
    BY OnJob DEF FetchTile, At
  <1>2. proc[p].at = "fetch" /\ UNCHANGED <<job, tile, stale, disturbed, held, region, recorded>>
    BY DEF FetchTile, At, quiet
  <1>3. PICK c : proc' = [proc EXCEPT ![p] = c] /\ Moved(c, p, "ingest")
    BY GoesTo DEF FetchTile
  <1>4. OwnStep(j) /\ MarkedTiles(j)' = MarkedTiles(j) /\ Pending(j)' = Pending(j)
    BY <1>2, SameTiles DEF OwnStep
  <1>5. ASSUME j \notin disturbed PROVE Kept(j)' /\ CallExact(c, j)'
    <2>1. Kept(j) /\ CallExact(proc[p], j)
      BY <1>1, <1>5, Undisturbed
    <2> QED
      BY <1>2, <1>3, <1>4, <2>1
      DEF Kept, CallExact, CountsExact, TilesExact, PlacesExact, InHand, Moved, Kind, TileJob
  <1> QED
    BY <1>1, <1>3, <1>4, <1>5, CallGoesOn DEF Moved, On

\* What is ingested is inside the region of the job.
LEMMA IngestTileWhole ==
    ASSUME JobIInv, WholeIInv, NEW p \in Processor, IngestTile(p)
    PROVE  WholeIInv'
  <1>1. PICK j \in Job : On(p, j)
    BY OnJob DEF IngestTile, At
  <1>2. /\ proc[p].at = "ingest" /\ UNCHANGED <<job, tile, stale, disturbed, region, recorded>>
        /\ held' = held \cup {Area[j][proc[p].now]} /\ proc[p].now \in Tile
    BY <1>1 DEF IngestTile, At, On, quiet, JobIInv, CallSound
  <1>3. PICK c : proc' = [proc EXCEPT ![p] = c] /\ Moved(c, p, "mark")
    BY GoesTo DEF IngestTile
  <1>4. OwnStep(j) /\ MarkedTiles(j)' = MarkedTiles(j) /\ Pending(j)' = Pending(j)
    BY <1>2, SameTiles DEF OwnStep
  <1>5. ASSUME j \notin disturbed PROVE Kept(j)' /\ CallExact(c, j)'
    <2>1. Kept(j) /\ CallExact(proc[p], j)
      BY <1>1, <1>5, Undisturbed
    <2>2. Area[j][proc[p].now] \in Region(j)
      BY <1>2 DEF Region
    <2> QED
      BY <1>2, <1>3, <1>4, <2>1, <2>2
      DEF Kept, CallExact, CountsExact, TilesExact, PlacesExact, InHand, Moved, Kind, TileJob
  <1> QED
    BY <1>1, <1>3, <1>4, <1>5, CallGoesOn DEF Moved, On

\* One tile more is done, and none but this one.
LEMMA MarkTileWhole ==
    ASSUME JobIInv, WholeIInv, NEW p \in Processor, MarkTile(p)
    PROVE  WholeIInv'
  <1>1. PICK j \in Job : On(p, j)
    BY OnJob DEF MarkTile, At
  <1> DEFINE t == proc[p].now
  <1>2. /\ proc[p].at = "mark" /\ UNCHANGED <<job, stale, disturbed, held, region, recorded>>
        /\ SetTile(j, t, "COMPLETED") /\ t \in Tile
    BY <1>1 DEF MarkTile, At, On, quiet, data, JobIInv, CallSound
  <1>3. PICK c : proc' = [proc EXCEPT ![p] = c] /\ Moved(c, p, "progress")
    BY GoesTo DEF MarkTile
  <1>4. /\ \A k \in Job : k # j => tile'[k] = tile[k]
        /\ \A u \in Tile : tile'[j][u] = IF u = t THEN "COMPLETED" ELSE tile[j][u]
        /\ MarkedTiles(j)' = MarkedTiles(j) \cup {t} /\ Pending(j) \ {t} \subseteq Pending(j)'
    BY <1>2, SetTileIs
  <1>5. OwnStep(j)
    BY <1>2, <1>4 DEF OwnStep
  <1>6. ASSUME j \notin disturbed PROVE Kept(j)' /\ CallExact(c, j)'
    <2>1. Kept(j) /\ CallExact(proc[p], j) /\ job[j] \in JobRow
      BY <1>1, <1>6, Undisturbed
    <2>2. tile[j][t] = "RUNNING" /\ Area[j][t] \in held
      BY <1>2, <2>1 DEF CallExact, TilesExact, InHand
    <2>3. t \notin MarkedTiles(j) /\ t \notin Pending(j)
      BY <2>2 DEF MarkedTiles, Pending
    <2>4. Cardinality(MarkedTiles(j)') = Cardinality(MarkedTiles(j)) + 1
      BY <1>4, <2>3, DoneIsFinite, FS_AddElement
    <2>5. Cardinality(MarkedTiles(j))' = Cardinality(MarkedTiles(j)) + 1
      BY <2>4
    <2>6. Kept(j)'
      BY <1>2, <1>4, <2>1, <2>2 DEF Kept, Kind, CallExact, CountsExact
    <2>7. CountsExact(c, j)'
      BY <1>2, <1>3, <1>4, <2>1, <2>3, <2>5 DEF CallExact, CountsExact, Moved
    <2>8. TilesExact(c, j)' /\ PlacesExact(c, j)'
      BY <1>2, <1>3, <1>4, <2>1
      DEF CallExact, TilesExact, PlacesExact, InHand, Moved, Kind, TileJob
    <2> QED
      BY <2>6, <2>7, <2>8 DEF CallExact
  <1> QED
    BY <1>1, <1>3, <1>5, <1>6, CallGoesOn DEF Moved, On

\* The count stored is again that of the tiles.
LEMMA NoteProgressWhole ==
    ASSUME JobIInv, WholeIInv, NEW p \in Processor, NoteProgress(p)
    PROVE  WholeIInv'
  <1>1. PICK j \in Job : On(p, j)
    BY OnJob DEF NoteProgress, At
  <1> DEFINE done == proc[p].done + 1
  <1>2. /\ proc[p].at = "progress" /\ UNCHANGED <<tile, stale, disturbed, held, region, recorded>>
        /\ job' = [job EXCEPT ![j].tilesDone = done, ![j].purged = TRUE]
        /\ proc' = [proc EXCEPT ![p] = [proc[p] EXCEPT !.at = "tiles", !.now = 0, !.done = done]]
        /\ proc[p] \in Call
    BY <1>1 DEF NoteProgress, At, On, quiet, data, JobIInv
  <1>3. PICK c : c = [proc[p] EXCEPT !.at = "tiles", !.now = 0, !.done = done]
    OBVIOUS
  <1>4. /\ c.at = "tiles" /\ c.job = j /\ c.batch = proc[p].batch /\ c.done = done
        /\ proc' = [proc EXCEPT ![p] = c]
    BY <1>1, <1>2, <1>3 DEF Call, On
  <1>5. ASSUME j \notin disturbed PROVE Kept(j)' /\ CallExact(c, j)'
    <2>1. Kept(j) /\ CallExact(proc[p], j) /\ job[j] \in JobRow
      BY <1>1, <1>5, Undisturbed
    <2>2. /\ job'[j].status = job[j].status /\ job'[j].purged
          /\ job'[j].tilesDone = done /\ job'[j].changeType = job[j].changeType
      BY <1>2, <2>1 DEF JobIInv, Tables, JobRow
    <2>3. MarkedTiles(j)' = MarkedTiles(j) /\ Pending(j)' = Pending(j)
      BY <1>2, SameTiles
    <2>4. done = Cardinality(MarkedTiles(j))
      BY <1>2, <2>1 DEF CallExact, CountsExact
    <2> HIDE DEF done
    <2> QED
      BY <1>2, <1>4, <2>1, <2>2, <2>3, <2>4
      DEF Kept, CallExact, CountsExact, TilesExact, PlacesExact, InHand, Kind, TileJob
  <1>6. OwnStep(j)
    BY <1>2 DEF OwnStep, JobIInv, Tables
  <1> QED
    BY <1>1, <1>4, <1>5, <1>6, CallGoesOn

LEMMA TileFailsWhole ==
    ASSUME JobIInv, WholeIInv, NEW p \in Processor, TileFails(p)
    PROVE  WholeIInv'
  <1>1. PICK j \in Job : On(p, j)
    BY OnJob DEF TileFails, At
  <1> DEFINE t == proc[p].now
  <1>2. /\ proc[p].at \in {"fetch", "ingest"} /\ UNCHANGED <<job, stale, disturbed, held, region, recorded>>
        /\ SetTile(j, t, "FAILED") /\ t \in Tile
    BY <1>1 DEF TileFails, At, On, quiet, data, JobIInv, CallSound
  <1>3. PICK c : proc' = [proc EXCEPT ![p] = c] /\ Moved(c, p, "fail")
    BY GoesTo DEF TileFails
  <1>4. /\ \A k \in Job : k # j => tile'[k] = tile[k]
        /\ \A u \in Tile : tile'[j][u] = IF u = t THEN "FAILED" ELSE tile[j][u]
        /\ MarkedTiles(j)' = MarkedTiles(j) \ {t} /\ Pending(j) \ {t} \subseteq Pending(j)'
    BY <1>2, SetTileIs
  <1>5. OwnStep(j)
    BY <1>2, <1>4 DEF OwnStep
  <1>6. ASSUME j \notin disturbed PROVE Kept(j)' /\ CallExact(c, j)'
    <2>1. Kept(j) /\ CallExact(proc[p], j)
      BY <1>1, <1>6, Undisturbed
    <2>2. tile[j][t] = "RUNNING"
      BY <1>2, <2>1 DEF CallExact, TilesExact, InHand
    <2>3. MarkedTiles(j)' = MarkedTiles(j) /\ Pending(j) \subseteq Pending(j)'
      BY <1>4, <2>2 DEF MarkedTiles, Pending
    <2> HIDE DEF t
    <2> QED
      BY <1>2, <1>3, <1>4, <2>1, <2>3
      DEF Kept, CallExact, CountsExact, TilesExact, PlacesExact, InHand, Moved, Kind, TileJob, t
  <1> QED
    BY <1>1, <1>3, <1>5, <1>6, CallGoesOn DEF Moved, On

LEMMA FailJobWhole ==
    ASSUME JobIInv, WholeIInv, NEW p \in Processor, FailJob(p)
    PROVE  WholeIInv'
  <1>1. PICK j \in Job : On(p, j)
    BY OnJob DEF FailJob, At
  <1>2. /\ proc[p].at = "fail" /\ job' = [job EXCEPT ![j].status = "FAILED"] /\ Return(p)
        /\ UNCHANGED <<tile, stale, disturbed, held>>
    BY <1>1 DEF FailJob, At, Set, On, quiet, data
  <1>3. ASSUME j \notin disturbed PROVE Kept(j)' /\ AtRest(j)'
    <2>1. Kept(j) /\ CallExact(proc[p], j) /\ job[j] \in JobRow
      BY <1>1, <1>3, Undisturbed
    <2>2. /\ job'[j].status = "FAILED" /\ job'[j].purged = job[j].purged
          /\ job'[j].tilesDone = job[j].tilesDone /\ job'[j].changeType = job[j].changeType
      BY <1>2, <2>1 DEF JobIInv, Tables, JobRow
    <2>3. MarkedTiles(j)' = MarkedTiles(j)
      BY <1>2, SameTiles
    <2> QED
      BY <1>2, <2>1, <2>2, <2>3
      DEF Kept, AtRest, CallExact, CountsExact, TilesExact, InHand, Kind
  <1>4. OwnStep(j)
    BY <1>2 DEF OwnStep, JobIInv, Tables
  <1> QED
    BY <1>1, <1>2, <1>3, <1>4, CallReturns

\* With no tile left to ingest, and none in hand, all are done.
LEMMA CountRemainingWhole ==
    ASSUME JobIInv, WholeIInv, NEW p \in Processor, CountRemaining(p)
    PROVE  WholeIInv'
  <1>1. PICK j \in Job : On(p, j)
    BY OnJob DEF CountRemaining, At
  <1>2. proc[p].at = "tiles" /\ UNCHANGED <<job, tile, stale, disturbed, held, region, recorded>>
    BY DEF CountRemaining, At, quiet, data
  <1>3. OwnStep(j) /\ MarkedTiles(j)' = MarkedTiles(j) /\ Pending(j)' = Pending(j)
    BY <1>2, SameTiles DEF OwnStep
  <1>4. CASE Return(p)
    <2>1. ASSUME j \notin disturbed PROVE Kept(j)' /\ AtRest(j)'
      <3>1. Kept(j) /\ CallExact(proc[p], j)
        BY <1>1, <2>1, Undisturbed
      <3> QED
        BY <1>2, <1>3, <3>1
        DEF Kept, CallExact, CountsExact, TilesExact, InHand, AtRest, Kind
    <2> QED
      BY <1>1, <1>3, <1>4, <2>1, CallReturns
  <1>5. CASE ~Return(p)
    <2>1. Remaining(j) = {} /\ Goto(p, "commit")
      BY <1>1, <1>5 DEF CountRemaining, On
    <2>2. PICK c : proc' = [proc EXCEPT ![p] = c] /\ Moved(c, p, "commit")
      BY <2>1, GoesTo
    <2>3. ASSUME j \notin disturbed PROVE Kept(j)' /\ CallExact(c, j)'
      <3>1. Kept(j) /\ CallExact(proc[p], j) /\ tile[j] \in [Tile -> TileStatus]
        BY <1>1, <2>3, Undisturbed
      <3>2. \A t \in Tile : tile[j][t] \notin {"PENDING", "FAILED", "RUNNING"}
        BY <1>2, <2>1, <3>1 DEF Remaining, CallExact, TilesExact, InHand
      <3>3. MarkedTiles(j) = Tile
        BY <3>1, <3>2 DEF MarkedTiles, TileStatus
      <3>4. TileJob(j) /\ Kind(j) # "import"
        BY <1>2, <3>1 DEF CallExact, TilesExact, TileJob
      <3> QED
        BY <1>2, <1>3, <2>2, <3>1, <3>3, <3>4
        DEF Kept, CallExact, CountsExact, TilesExact, PlacesExact, InHand, Moved, Kind, TileJob
    <2> QED
      BY <1>1, <1>3, <2>2, <2>3, CallGoesOn DEF Moved, On
  <1> QED
    BY <1>4, <1>5

LEMMA ImportWhole ==
    ASSUME JobIInv, WholeIInv, NEW p \in Processor, Import(p)
    PROVE  WholeIInv'
  <1>1. PICK j \in Job : On(p, j)
    BY OnJob DEF Import, At
  <1>2. proc[p].at = "import" /\ UNCHANGED <<job, tile, stale, disturbed, region, recorded>>
    BY DEF Import, At, quiet
  <1>3. OwnStep(j) /\ MarkedTiles(j)' = MarkedTiles(j) /\ Pending(j)' = Pending(j)
    BY <1>2, SameTiles DEF OwnStep
  <1>4. PICK s \in {"commit", "fail"} :
          Goto(p, s) /\ held' = IF s = "commit" THEN held \cup Region(j) ELSE held
    BY <1>1 DEF Import, On
  <1>5. PICK c : proc' = [proc EXCEPT ![p] = c] /\ Moved(c, p, s)
    BY <1>4, GoesTo
  <1>6. ASSUME j \notin disturbed PROVE Kept(j)' /\ CallExact(c, j)'
    <2>1. Kept(j) /\ CallExact(proc[p], j)
      BY <1>1, <1>6, Undisturbed
    <2>2. Kind(j) = "import" /\ held \subseteq Region(j) /\ ~TileJob(j)
      BY <1>2, <2>1 DEF CallExact, PlacesExact, TileJob
    <2> QED
      BY <1>2, <1>3, <1>4, <1>5, <2>1, <2>2
      DEF Kept, CallExact, CountsExact, TilesExact, PlacesExact, InHand, Moved, Kind, TileJob
  <1> QED
    BY <1>1, <1>3, <1>5, <1>6, CallGoesOn DEF Moved, On

LEMMA CommitBboxWhole ==
    ASSUME JobIInv, WholeIInv, NEW p \in Processor, CommitBbox(p)
    PROVE  WholeIInv'
  <1>1. PICK j \in Job : On(p, j)
    BY OnJob DEF CommitBbox, At
  <1> DEFINE s == IF Kind(j) = "shrink" THEN "complete" ELSE "record"
  <1>2. /\ proc[p].at = "commit" /\ UNCHANGED <<job, tile, stale, disturbed, held, recorded>>
        /\ region' = j /\ Goto(p, s)
    BY <1>1 DEF CommitBbox, At, On, quiet
  <1>3. s \in {"complete", "record"} /\ (s = "complete" <=> Kind(j) = "shrink")
    OBVIOUS
  <1> HIDE DEF s
  <1>4. PICK c : proc' = [proc EXCEPT ![p] = c] /\ Moved(c, p, s)
    BY <1>2, GoesTo
  <1>5. OwnStep(j) /\ MarkedTiles(j)' = MarkedTiles(j) /\ Pending(j)' = Pending(j)
    BY <1>2, SameTiles DEF OwnStep
  <1>6. ASSUME j \notin disturbed PROVE Kept(j)' /\ CallExact(c, j)'
    <2>1. Kept(j) /\ CallExact(proc[p], j)
      BY <1>1, <1>6, Undisturbed
    <2> QED
      BY <1>2, <1>3, <1>4, <1>5, <2>1
      DEF Kept, CallExact, CountsExact, TilesExact, PlacesExact, InHand, Moved, Kind, TileJob
  <1> QED
    BY <1>1, <1>3, <1>4, <1>5, <1>6, CallGoesOn DEF Moved, On

\* The count filed is that of all tiles.
LEMMA RecordIngestWhole ==
    ASSUME JobIInv, WholeIInv, NEW p \in Processor, RecordIngestComplete(p)
    PROVE  WholeIInv'
  <1>1. PICK j \in Job : On(p, j)
    BY OnJob DEF RecordIngestComplete, At
  <1> DEFINE count == IF Kind(j) = "import" THEN Tiles ELSE proc[p].done
  <1>2. /\ proc[p].at = "record" /\ UNCHANGED <<job, tile, stale, disturbed, held, region>>
        /\ recorded' = [recorded EXCEPT ![region] = count]
    BY <1>1 DEF RecordIngestComplete, At, On, quiet
  <1>3. PICK c : proc' = [proc EXCEPT ![p] = c] /\ Moved(c, p, "complete")
    BY GoesTo DEF RecordIngestComplete
  <1>4. OwnStep(j) /\ MarkedTiles(j)' = MarkedTiles(j) /\ Pending(j)' = Pending(j)
    BY <1>2, SameTiles DEF OwnStep
  <1>5. ASSUME j \notin disturbed PROVE Kept(j)' /\ CallExact(c, j)'
    <2>1. Kept(j) /\ CallExact(proc[p], j) /\ job[j] \in JobRow
      BY <1>1, <1>5, Undisturbed
    <2>2. region = j /\ Kind(j) \in {"tiles", "refresh", "import"}
      BY <1>2, <2>1 DEF CallExact, PlacesExact, Kind, JobRow, ChangeType
    <2>3. count = Tiles
      BY <1>2, <2>1, <2>2, DoneIsFinite DEF CallExact, CountsExact, PlacesExact, TileJob
    <2>4. recorded'[j] = Tiles
      BY <1>2, <2>2, <2>3 DEF JobIInv, Data
    <2> HIDE DEF count
    <2> QED
      BY <1>2, <1>3, <1>4, <2>1, <2>2, <2>4
      DEF Kept, CallExact, CountsExact, TilesExact, PlacesExact, InHand, Moved, Kind, TileJob
  <1> QED
    BY <1>1, <1>3, <1>4, <1>5, CallGoesOn DEF Moved, On

LEMMA CompleteJobWhole ==
    ASSUME JobIInv, WholeIInv, NEW p \in Processor, CompleteJob(p)
    PROVE  WholeIInv'
  <1>1. PICK j \in Job : On(p, j)
    BY OnJob DEF CompleteJob, At
  <1>2. /\ proc[p].at = "complete" /\ job' = [job EXCEPT ![j].status = "COMPLETED"] /\ Return(p)
        /\ UNCHANGED <<tile, stale, disturbed, held>>
    BY <1>1 DEF CompleteJob, At, Set, On, quiet
  <1>3. ASSUME j \notin disturbed PROVE Kept(j)' /\ AtRest(j)'
    <2>1. Kept(j) /\ CallExact(proc[p], j) /\ job[j] \in JobRow
      BY <1>1, <1>3, Undisturbed
    <2>2. /\ job'[j].status = "COMPLETED" /\ job'[j].purged = job[j].purged
          /\ job'[j].tilesDone = job[j].tilesDone /\ job'[j].changeType = job[j].changeType
      BY <1>2, <2>1 DEF JobIInv, Tables, JobRow
    <2>3. MarkedTiles(j)' = MarkedTiles(j)
      BY <1>2, SameTiles
    <2> QED
      BY <1>2, <2>1, <2>2, <2>3
      DEF Kept, AtRest, CallExact, CountsExact, TilesExact, InHand, Kind
  <1>4. OwnStep(j)
    BY <1>2 DEF OwnStep, JobIInv, Tables
  <1> QED
    BY <1>1, <1>2, <1>3, <1>4, CallReturns

\* A job that is made has nothing done yet.
LEMMA CreateJobWhole ==
    ASSUME JobIInv, WholeIInv, NEW j \in Job, NEW type \in ChangeTypes[j], CreateIngestJob(j, type)
    PROVE  WholeIInv'
  <1>1. /\ job[j].status = "NONE" /\ UNCHANGED <<tile, proc, stale, disturbed, held, region, recorded>>
        /\ \A k \in Job : k # j => job'[k] = job[k]
        /\ job'[j].status = "PENDING" /\ job'[j].purged = job[j].purged
        /\ job'[j].tilesDone = job[j].tilesDone
    <2>1. PICK row : row = [job[j] EXCEPT !.status = "PENDING", !.changeType = type,
                             !.createdAt = Cardinality({k \in Job : job[k].status # "NONE"})]
      OBVIOUS
    <2>2. /\ row.status = "PENDING" /\ row.purged = job[j].purged
          /\ row.tilesDone = job[j].tilesDone
      BY <2>1 DEF JobIInv, Tables, JobRow
    <2>3. job' = [job EXCEPT ![j] = row]
      BY <2>1 DEF CreateIngestJob, JobIInv, Tables
    <2>4. /\ job[j].status = "NONE"
          /\ UNCHANGED <<tile, proc, stale, disturbed, held, region, recorded>>
      BY DEF CreateIngestJob, quiet, data
    <2> QED
      BY <2>2, <2>3, <2>4 DEF JobIInv, Tables
  <1>2. \A k \in Job : MarkedTiles(k)' = MarkedTiles(k) /\ Pending(k)' = Pending(k)
    BY <1>1, SameTiles
  <1>3. ASSUME NEW k \in Job \ disturbed PROVE JobWhole(k)'
    <2>1. JobWhole(k)
      BY DEF WholeIInv
    <2>2. CASE k = j
      <3>1. ~job[j].purged /\ MarkedTiles(j) = {}
        BY <1>1, <2>1, <2>2 DEF JobWhole, Kept
      <3> QED
        BY <1>1, <1>2, <2>1, <2>2, <3>1 DEF JobWhole, Kept, AtRest
    <2>3. CASE k # j
      BY <1>1, <1>2, <2>1, <2>3 DEF JobWhole, Kept, AtRest, Kind
    <2> QED
      BY <2>2, <2>3
  <1>4. ASSUME NEW q \in Processor, NEW k \in Job \ disturbed, proc[q].job = k
        PROVE  Alone(q)' /\ CallExact(proc[q], k)'
    <2>1. Alone(q) /\ CallExact(proc[q], k)
      BY <1>4 DEF WholeIInv
    <2>2. k # j
      BY <1>1, <2>1 DEF CallExact, CountsExact
    <2> QED
      BY <1>1, <1>2, <2>1, <2>2
      DEF Alone, CallExact, CountsExact, TilesExact, PlacesExact, Kind, TileJob
  <1> QED
    BY <1>1, <1>3, <1>4 DEF WholeIInv

\* A call p enters on j, which keeps what it has done.
Entering(p, j, at) ==
    /\ at \in {"retry", "read"} /\ \E allowed : Enter(p, j, at, allowed)
    /\ \A k \in Job : k # j => job'[k] = job[k] /\ tile'[k] = tile[k]
    /\ UNCHANGED <<stale, held>>
    /\ job'[j].status \notin {"NONE", "COMPLETED"} /\ job[j].status \notin {"NONE", "COMPLETED"}
    /\ job'[j].purged = job[j].purged /\ job'[j].tilesDone = job[j].tilesDone
    /\ job'[j].changeType = job[j].changeType /\ MarkedTiles(j)' = MarkedTiles(j)
    /\ \A t \in Tile : tile'[j][t] = "RUNNING" => tile[j][t] = "RUNNING"

\* Its own job is disturbed when another call is under way, and so are the jobs
\* of the other calls and the jobs that are half done.
LEMMA Disturbing ==
    ASSUME NEW j \in Job
    PROVE  /\ \A q \in Processor : proc[q].job # NoJob => {proc[q].job, j} \subseteq Disturbs(j)
           /\ \A k \in Job : k # j /\ job[k].purged /\ job[k].status # "COMPLETED"
                => k \in Disturbs(j)
  <1> DEFINE busy == {proc[q].job : q \in Processor} \ {NoJob}
  <1>1. Disturbs(j) = busy \cup {j : k \in busy}
                        \cup {k \in Job \ {j} : job[k].purged /\ job[k].status # "COMPLETED"}
    BY DEF Disturbs
  <1>2. ASSUME NEW q \in Processor, proc[q].job # NoJob
        PROVE  proc[q].job \in Disturbs(j) /\ j \in Disturbs(j)
    <2>1. proc[q].job \in busy
      BY <1>2
    <2> HIDE DEF busy
    <2>2. j \in {j : k \in busy}
      BY <2>1
    <2> QED
      BY <1>1, <2>1, <2>2
  <1>3. ASSUME NEW k \in Job, k # j, job[k].purged, job[k].status # "COMPLETED"
        PROVE  k \in Disturbs(j)
    <2> HIDE DEF busy
    <2> QED
      BY <1>1, <1>3
  <1> QED
    BY <1>2, <1>3

LEMMA EnterWhole ==
    ASSUME JobIInv, WholeIInv, NEW p \in Processor, NEW j \in Job, NEW at, Entering(p, j, at)
    PROVE  WholeIInv'
  <1> USE DEF Entering
  <1>1. PICK allowed : Enter(p, j, at, allowed)
    OBVIOUS
  <1>2. /\ proc[p].at = "idle" /\ disturbed' = disturbed \cup Disturbs(j)
        /\ proc'[p].at = at /\ proc'[p].job = j /\ j # NoJob
        /\ \A q \in Processor : q # p => proc'[q] = proc[q]
    BY <1>1, JobAssumption DEF Enter, At, JobIInv, IdleCall
  <1>3. \A q \in Processor : proc[q].job # NoJob => {proc[q].job, j} \subseteq disturbed'
    BY <1>2, Disturbing
  <1>4. \A k \in Job \ disturbed' : k # j /\ job[k].purged => job[k].status = "COMPLETED"
    BY <1>2, Disturbing
  <1>5. stale' \subseteq disturbed'
    <2>1. stale' = stale /\ stale \subseteq disturbed
      BY DEF WholeIInv
    <2> QED
      BY <1>2, <2>1
  <1>6. \A q \in Processor : proc'[q].at = "idle" => proc'[q].job = NoJob
    <2>1. proc'[p].at # "idle"
      BY <1>2
    <2> QED
      BY <1>2, <2>1 DEF WholeIInv
  <1>7. \A k \in Job \ disturbed' : AtRest(k) /\ Kept(k)
    <2> SUFFICES ASSUME NEW k \in Job \ disturbed' PROVE AtRest(k) /\ Kept(k)
      OBVIOUS
    <2>1. JobWhole(k)
      BY <1>2 DEF WholeIInv
    <2>2. \A q \in Processor : proc[q].job # k
      BY <1>3, JobAssumption
    <2> QED
      BY <2>1, <2>2 DEF JobWhole
  <1>8. ASSUME NEW k \in Job \ disturbed' PROVE JobWhole(k)'
    <2>1. CASE k # j
      <3>1. job'[k] = job[k] /\ MarkedTiles(k)' = MarkedTiles(k) /\ tile'[k] = tile[k] /\ held' = held
        BY <2>1, SameTiles
      <3> QED
        BY <1>4, <1>7, <1>8, <2>1, <3>1 DEF JobWhole, Kept, AtRest, Kind
    <2>2. CASE k = j
      <3>1. \A q \in Processor : proc[q].job = NoJob
        BY <1>3, <1>8, <2>2
      <3>2. \A q \in Processor : proc'[q].job \in {NoJob, j}
        BY <1>2, <3>1
      <3>3. Kept(j) /\ held' = held
        BY <1>7, <1>8, <2>2
      <3> QED
        BY <1>2, <2>2, <3>2, <3>3 DEF JobWhole, Kept, Kind
    <2> QED
      BY <2>1, <2>2
  <1>9. ASSUME NEW q \in Processor, NEW k \in Job \ disturbed', proc'[q].job = k
        PROVE  Alone(q)' /\ CallExact(proc[q], k)'
    <2>1. \A r \in Processor : proc[r].job # k
      BY <1>3, <1>9, JobAssumption
    <2>2. q = p /\ k = j
      BY <1>2, <1>9, <2>1
    <2>3. \A r \in Processor : proc[r].job = NoJob
      BY <1>3, <1>9, <2>2
    <2>4. Alone(p)'
      BY <1>2, <2>3 DEF Alone
    <2>5. AtRest(j)
      BY <1>7, <1>9, <2>2
    <2>6. CountsExact(proc[p], j)'
      BY <1>2, <2>5 DEF CountsExact, AtRest
    <2>7. TilesExact(proc[p], j)' /\ PlacesExact(proc[p], j)'
      BY <1>2, <2>5 DEF TilesExact, PlacesExact, InHand, AtRest
    <2> QED
      BY <2>2, <2>4, <2>6, <2>7 DEF CallExact
  <1> QED
    BY <1>5, <1>6, <1>8, <1>9 DEF WholeIInv

LEMMA StartCallWhole ==
    ASSUME JobIInv, WholeIInv, NEW p \in Processor, NEW j \in Job, StartCall(p, j)
    PROVE  WholeIInv'
  <1>1. /\ Enter(p, j, "read", FALSE) /\ UNCHANGED <<job, tile, stale, held>>
        /\ job[j].status \in {"PENDING", "RUNNING"}
    BY DEF StartCall, Active, data
  <1>2. MarkedTiles(j)' = MarkedTiles(j)
    BY <1>1, SameTiles
  <1>3. Entering(p, j, "read")
    BY <1>1, <1>2 DEF Entering
  <1> QED
    BY <1>3, EnterWhole

LEMMA RetryWhole ==
    ASSUME JobIInv, WholeIInv, NEW p \in Processor, NEW j \in Job, RetryFailedIngestJob(p, j)
    PROVE  WholeIInv'
  <1>1. job[j].status = "FAILED" /\ UNCHANGED <<stale, held>>
    BY DEF RetryFailedIngestJob, data
  <1>2. CASE Enter(p, j, "read", TRUE) /\ Set(j, "PENDING") /\ UNCHANGED tile
    <2>1. /\ job'[j].status = "PENDING" /\ job'[j].purged = job[j].purged
          /\ job'[j].tilesDone = job[j].tilesDone /\ job'[j].changeType = job[j].changeType
          /\ \A k \in Job : k # j => job'[k] = job[k]
      BY <1>2 DEF Set, JobIInv, Tables, JobRow
    <2>2. MarkedTiles(j)' = MarkedTiles(j)
      BY <1>2, SameTiles
    <2>3. Entering(p, j, "read")
      BY <1>1, <1>2, <2>1, <2>2 DEF Entering
    <2> QED
      BY <2>3, EnterWhole
  <1>3. ASSUME Enter(p, j, "retry", TRUE), UNCHANGED job,
               tile' = [tile EXCEPT ![j] = [t \in Tile |->
                          IF @[t] = "FAILED" THEN "PENDING" ELSE @[t]]]
        PROVE  WholeIInv'
    <2>1. /\ \A k \in Job : k # j => tile'[k] = tile[k]
          /\ \A t \in Tile : tile'[j][t] = IF tile[j][t] = "FAILED" THEN "PENDING" ELSE tile[j][t]
      BY <1>3 DEF JobIInv, Tables
    <2>2. MarkedTiles(j)' = MarkedTiles(j)
      BY <2>1 DEF MarkedTiles
    <2>3. \A t \in Tile : tile'[j][t] = "RUNNING" => tile[j][t] = "RUNNING"
      BY <2>1
    <2>4. Entering(p, j, "retry")
      BY <1>1, <1>3, <2>1, <2>2, <2>3 DEF Entering
    <2> QED
      BY <2>4, EnterWhole
  <1> QED
    BY <1>2, <1>3 DEF RetryFailedIngestJob

\* More jobs are disturbed; what is known of the others holds on.
LEMMA FindStaleWhole == ASSUME JobIInv, WholeIInv, FindStale PROVE WholeIInv'
  <1>1. /\ UNCHANGED <<job, tile, proc, held, region, recorded>>
        /\ stale' \subseteq disturbed' /\ disturbed \subseteq disturbed'
    BY DEF FindStale, data
  <1>2. \A k \in Job : MarkedTiles(k)' = MarkedTiles(k) /\ Pending(k)' = Pending(k)
    BY <1>1, SameTiles
  <1>3. \A k \in Job \ disturbed' : JobWhole(k)'
    BY <1>1, <1>2 DEF WholeIInv, JobWhole, Kept, AtRest, Kind
  <1>4. \A q \in Processor, k \in Job \ disturbed' :
          proc'[q].job = k => Alone(q)' /\ CallExact(proc[q], k)'
    BY <1>1, <1>2
    DEF WholeIInv, Alone, CallExact, CountsExact, TilesExact, PlacesExact, Kind, TileJob
  <1> QED
    BY <1>1, <1>3, <1>4 DEF WholeIInv

\* The jobs that are failed late are disturbed ones.
LEMMA FailStaleWhole == ASSUME JobIInv, WholeIInv, FailStale PROVE WholeIInv'
  <1>1. /\ UNCHANGED <<tile, proc, held, region, recorded, disturbed>> /\ stale' = {}
        /\ \A k \in Job : k \notin stale => job'[k] = job[k]
    BY DEF FailStale, JobIInv, Tables
  <1>2. \A k \in Job : MarkedTiles(k)' = MarkedTiles(k) /\ Pending(k)' = Pending(k)
    BY <1>1, SameTiles
  <1>3. \A k \in Job \ disturbed : job'[k] = job[k]
    BY <1>1 DEF WholeIInv
  <1>4. \A k \in Job \ disturbed : JobWhole(k)'
    BY <1>1, <1>2, <1>3 DEF WholeIInv, JobWhole, Kept, AtRest, Kind
  <1>5. \A q \in Processor, k \in Job \ disturbed :
          proc'[q].job = k => Alone(q)' /\ CallExact(proc[q], k)'
    BY <1>1, <1>2, <1>3
    DEF WholeIInv, Alone, CallExact, CountsExact, TilesExact, PlacesExact, Kind, TileJob
  <1> QED
    BY <1>1, <1>4, <1>5 DEF WholeIInv

\* A restart disturbs every job that has a call.
LEMMA JobCrashWhole == ASSUME JobIInv, WholeIInv, JobCrash PROVE WholeIInv'
  <1>1. /\ UNCHANGED <<job, tile, held>> /\ stale' = {}
        /\ disturbed' = disturbed \cup ({proc[p].job : p \in Processor} \ {NoJob})
        /\ \A p \in Processor : proc'[p] = IdleCall
    BY DEF JobCrash, data
  <1>2. \A p \in Processor : proc'[p].job = NoJob
    BY <1>1 DEF IdleCall
  <1>3. \A k \in Job : MarkedTiles(k)' = MarkedTiles(k)
    BY <1>1, SameTiles
  <1>4. ASSUME NEW k \in Job \ disturbed' PROVE JobWhole(k)'
    <2>1. JobWhole(k)
      BY <1>1, <1>4 DEF WholeIInv
    <2>2. \A p \in Processor : proc[p].job # k
      BY <1>1, <1>4, JobAssumption
    <2>3. Kept(k) /\ AtRest(k)
      BY <2>1, <2>2 DEF JobWhole
    <2> QED
      BY <1>1, <1>2, <1>3, <2>3 DEF JobWhole, Kept, AtRest, Kind
  <1> QED
    BY <1>1, <1>2, <1>4, JobAssumption DEF WholeIInv

LEMMA NextWhole == JobIInv /\ WholeIInv /\ [JobNext]_jobVars => WholeIInv'
  <1> SUFFICES ASSUME JobIInv, WholeIInv, [JobNext]_jobVars PROVE WholeIInv'
    OBVIOUS
  <1>1. CASE UNCHANGED jobVars
    <2>1. UNCHANGED <<job, tile, region, held, recorded, proc, stale, disturbed>>
      BY <1>1 DEF jobVars
    <2>2. \A k \in Job : MarkedTiles(k)' = MarkedTiles(k) /\ Pending(k)' = Pending(k)
      BY <2>1, SameTiles
    <2> QED
      BY <2>1, <2>2 DEF WholeIInv, JobWhole, Kept, AtRest, Alone, CallExact, CountsExact,
                        TilesExact, PlacesExact, Kind, TileJob
  <1>2. CASE JobNext
    BY <1>2, CreateJobWhole, StartCallWhole, RetryWhole, RetrySetsRunningWhole, ReadJobWhole,
       SetRunningWhole, PurgeIfNeededWhole, NotePurgeWhole, TakeTileWhole, FetchTileWhole,
       IngestTileWhole, MarkTileWhole, NoteProgressWhole, TileFailsWhole, FailJobWhole,
       CountRemainingWhole, ImportWhole, CommitBboxWhole, RecordIngestWhole, CompleteJobWhole,
       FindStaleWhole, FailStaleWhole, JobCrashWhole
       DEF JobNext
  <1> QED
    BY <1>1, <1>2

LEMMA SpecWhole == JobSpec => []WholeIInv
  BY InitWhole, NextWhole, SpecJobIInv, PTL DEF JobSpec

\* Of a job that nothing disturbed, the stored progress is exact between its calls.
THEOREM StoredProgressIsExact == JobSpec => []ProgressIsExact
  <1>1. WholeIInv => ProgressIsExact
    BY DEF WholeIInv, JobWhole, AtRest, MarkedTiles, ProgressIsExact
  <1> QED
    BY <1>1, SpecWhole, PTL

\* Only its own call completes a job.
LEMMA OnlyCompletes ==
    ASSUME JobIInv, JobNext, NEW j \in Job,
           job'[j].status = "COMPLETED", job[j].status # "COMPLETED"
    PROVE  \E p \in Processor : CompleteJob(p) /\ On(p, j)
  <1>1. job \in [Job -> JobRow]
    BY DEF JobIInv, Tables
  <1>2. ASSUME UNCHANGED job PROVE FALSE
    BY <1>2
  <1>3. ASSUME NEW k, NEW status, Set(k, status), status # "COMPLETED" PROVE FALSE
    <2>1. k = j => job'[j].status = status
      BY <1>1, <1>3 DEF Set, JobRow
    <2>2. k # j => job'[j] = job[j]
      BY <1>1, <1>3 DEF Set
    <2> QED
      BY <1>3, <2>1, <2>2
  <1>4. ASSUME NEW k \in Job, NEW type \in ChangeTypes[k], CreateIngestJob(k, type) PROVE FALSE
    <2>1. k = j => job'[j].status = "PENDING"
      BY <1>1, <1>4 DEF CreateIngestJob, JobRow
    <2>2. k # j => job'[j] = job[j]
      BY <1>1, <1>4 DEF CreateIngestJob
    <2> QED
      BY <2>1, <2>2
  <1>5. ASSUME NEW p \in Processor, NEW k \in Job, StartCall(p, k) \/ RetryFailedIngestJob(p, k)
        PROVE  FALSE
    BY <1>2, <1>3, <1>5 DEF StartCall, RetryFailedIngestJob
  <1>6. ASSUME NEW p \in Processor, NotePurge(p) \/ NoteProgress(p) PROVE FALSE
    <2>1. job'[j].status = job[j].status
      <3>1. CASE NotePurge(p)
        <4>1. job' = [job EXCEPT ![proc[p].job].purged = proc[p].purged]
          BY <3>1 DEF NotePurge
        <4> QED
          BY <1>1, <4>1 DEF JobRow
      <3>2. CASE NoteProgress(p)
        <4>1. job' = [job EXCEPT ![proc[p].job].tilesDone = proc[p].done + 1,
                                 ![proc[p].job].purged = TRUE]
          BY <3>2 DEF NoteProgress
        <4> QED
          BY <1>1, <4>1 DEF JobRow
      <3> QED
        BY <1>6, <3>1, <3>2
    <2> QED
      BY <2>1
  <1>7. ASSUME NEW p \in Processor, RetrySetsRunning(p) \/ SetRunning(p) \/ FailJob(p) PROVE FALSE
    BY <1>3, <1>7 DEF RetrySetsRunning, SetRunning, FailJob
  <1>8. ASSUME NEW p \in Processor,
               \/ ReadJob(p) \/ PurgeIfNeeded(p) \/ TakeTile(p) \/ FetchTile(p) \/ IngestTile(p)
               \/ MarkTile(p) \/ TileFails(p) \/ CountRemaining(p) \/ Import(p) \/ CommitBbox(p)
               \/ RecordIngestComplete(p)
        PROVE  FALSE
    BY <1>2, <1>8 DEF ReadJob, PurgeIfNeeded, TakeTile, FetchTile, IngestTile, MarkTile, TileFails,
                      CountRemaining, Import, CommitBbox, RecordIngestComplete
  <1>9. ~FindStale /\ ~JobCrash
    BY <1>2 DEF FindStale, JobCrash
  <1>10. ~FailStale
    <2>1. ASSUME FailStale PROVE job'[j] = job[j] \/ job'[j].status = "FAILED"
      BY <1>1, <2>1 DEF FailStale, JobRow
    <2> QED
      BY <2>1
  <1>11. PICK p \in Processor : CompleteJob(p)
    BY <1>4, <1>5, <1>6, <1>7, <1>8, <1>9, <1>10 DEF JobNext
  <1>12. proc[p].job = j /\ proc[p].at # "idle"
    BY <1>1, <1>11 DEF CompleteJob, Set, At
  <1> QED
    BY <1>11, <1>12 DEF On

\* A job that completes undisturbed has everything: its tiles, the node's
\* region, the count filed for it, and nothing outside it.
THEOREM CompletionsAreWhole == JobSpec => CompletionIsWhole
  <1> DEFINE Has(j) ==
        /\ region = j
        /\ Kind(j) # "refresh" => held \subseteq Region(j)
        /\ Kind(j) # "shrink" => Region(j) \subseteq held /\ recorded[j] = Tiles
        /\ TileJob(j) => \A t \in Tile : tile[j][t] = "COMPLETED"
  <1>1. ASSUME JobIInv, WholeIInv, JobNext, NEW j \in Job \ disturbed',
               job'[j].status = "COMPLETED", job[j].status # "COMPLETED"
        PROVE  Has(j)
    <2>1. PICK p \in Processor : CompleteJob(p) /\ On(p, j)
      BY <1>1, OnlyCompletes
    <2>2. proc[p].at = "complete" /\ j \notin disturbed
      BY <1>1, <2>1 DEF CompleteJob, At, quiet
    <2>3. Kept(j) /\ CallExact(proc[p], j) /\ job[j] \in JobRow
      BY <1>1, <2>1, <2>2, Undisturbed
    <2>4. region = j /\ (Kind(j) # "refresh" => held \subseteq Region(j))
      BY <2>2, <2>3 DEF CallExact, PlacesExact
    <2>5. /\ TileJob(j) => MarkedTiles(j) = Tile
          /\ Kind(j) = "import" => Region(j) \subseteq held
          /\ Kind(j) # "shrink" => recorded[j] = Tiles
      BY <2>2, <2>3 DEF CallExact, PlacesExact
    <2>6. TileJob(j) => Region(j) \subseteq held
      BY <2>3, <2>5 DEF CallExact, CountsExact, Kept, Region
    <2>7. Kind(j) # "shrink" => TileJob(j) \/ Kind(j) = "import"
      BY <2>3 DEF TileJob, Kind, JobRow, ChangeType
    <2>8. TileJob(j) => \A t \in Tile : tile[j][t] = "COMPLETED"
      BY <2>5 DEF MarkedTiles
    <2> QED
      BY <2>4, <2>5, <2>6, <2>7, <2>8
  <1>2. JobIInv /\ WholeIInv /\ [JobNext]_jobVars
          => [\A j \in Job \ disturbed' :
                (job'[j].status = "COMPLETED" /\ job[j].status # "COMPLETED") => Has(j)]_jobVars
    BY <1>1
  <1> QED
    BY <1>2, SpecJobIInv, SpecWhole, PTL DEF JobSpec, CompletionIsWhole
=============================================================================
