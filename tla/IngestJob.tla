------------------------------ MODULE IngestJob ------------------------------
(***************************************************************************)
(* OSM ingest jobs of one node: a job row with its tiles, the processors   *)
(* that advance it (the one started with the job, the cron, a poll, a      *)
(* retry), the tile cache on disk and the region the job commits at last.  *)
(* Every processor reads job and tiles once and then works from that copy. *)
(***************************************************************************)
EXTENDS Naturals, FiniteSets

CONSTANTS
    Job,          \* jobs that may be created
    ChangeTypes,  \* the change types job j may be created with
    NoJob,        \* the processor is idle; no region has been committed
    Tiles,        \* number of tiles of a job
    Area,         \* Area[j][t]: the place tile t of job j covers
    OldPlaces,    \* places whose properties the node holds before any job
    Processor,    \* concurrent calls of processIngestJob
    BatchSizes,   \* tiles a call may take (OSM_TILES_PER_CRON, or all of them)
    MaxJobCalls,  \* bound: number of calls of processIngestJob
    MaxJobFaults  \* bound: number of failed downloads, timeouts and restarts

ASSUME JobAssumption ==
    /\ NoJob \notin Job /\ IsFiniteSet(Job)
    /\ ChangeTypes \in [Job -> SUBSET {"tiles", "refresh", "import", "shrink"}]
    /\ Tiles \in Nat \ {0} /\ BatchSizes \subseteq Nat \ {0}
    /\ \A j \in Job : DOMAIN Area[j] = 1..Tiles
    /\ MaxJobCalls \in Nat /\ MaxJobFaults \in Nat

VARIABLES
    job,        \* the table IngestJob
    tile,       \* the table IngestJobTile: tile[j][t] is a status
    tileCache,  \* downloaded tiles on disk
    region,     \* the job whose bbox the node settings hold
    held,     \* the places whose properties the node holds
    recorded,   \* recorded[j]: elements recordIngestComplete noted for its bbox
    proc,       \* the calls of processIngestJob under way
    stale,      \* jobs failStaleIngestJobs has found and not failed yet
    jobCalls, jobFaults,
    ingested,   \* history: tiles whose elements were stored
    disturbed   \* history: jobs met by a restart, a timeout or a second call

jobVars == <<job, tile, tileCache, region, held, recorded, proc,
             stale, jobCalls, jobFaults, ingested, disturbed>>

\* Changed only where jobs and calls come and go; the node's data.
quiet == <<stale, jobCalls, disturbed>>
data == <<tileCache, region, held, recorded, ingested>>

Tile == 1..Tiles
\* "tiles" stands for initial, expand and move, "import" for both file imports.
ChangeType == {"tiles", "refresh", "import", "shrink"}
Kind(j) == job[j].changeType
TileJob(j) == Kind(j) \in {"tiles", "refresh"}
JobStatus == {"NONE", "PENDING", "RUNNING", "COMPLETED", "FAILED"}
TileStatus == {"PENDING", "RUNNING", "COMPLETED", "FAILED"}
JobRow == [status : JobStatus, changeType : ChangeType, createdAt : Nat,
           tilesDone : Nat, purged : BOOLEAN]
JobStep == {"idle", "retry", "read", "begin", "purge", "purged", "tiles", "fetch",
         "ingest", "mark", "progress", "import", "commit", "record", "complete", "fail"}

\* A call: the step it is at, its job, whether it may resume a FAILED job, the
\* tiles of its batch it has left and the one it is at, and its own count of
\* finished tiles and note of the purge.
Call == [at : JobStep, job : Job \cup {NoJob}, allowFailed : BOOLEAN,
         batch : SUBSET Tile, now : Tile \cup {0}, done : Nat, purged : BOOLEAN]
IdleCall == [at |-> "idle", job |-> NoJob, allowFailed |-> FALSE,
             batch |-> {}, now |-> 0, done |-> 0, purged |-> FALSE]

JobInit ==
    /\ job = [j \in Job |-> [status |-> "NONE", changeType |-> "tiles", createdAt |-> 0,
                            tilesDone |-> 0, purged |-> FALSE]]
    /\ tile = [j \in Job |-> [t \in Tile |-> "PENDING"]]
    /\ tileCache = {}
    /\ region = NoJob
    /\ held = OldPlaces
    /\ recorded = [j \in Job |-> 0]
    /\ proc = [p \in Processor |-> IdleCall]
    /\ stale = {}
    /\ jobCalls = 0 /\ jobFaults = 0
    /\ ingested = {} /\ disturbed = {}

\* The places inside the bbox of job j.
Region(j) == {Area[j][t] : t \in Tile}

\* The first tiles of a job, by index, that wait or failed.
Pending(j) == {t \in Tile : tile[j][t] \in {"PENDING", "FAILED"}}
Batch(j, limit) ==
    {t \in Pending(j) : Cardinality({u \in Pending(j) : u < t}) < limit}

\* p moves to step s; nothing else of the call changes.
Goto(p, s) == proc' = [proc EXCEPT ![p].at = s]
At(p, s) == proc[p].at = s
Return(p) == proc' = [proc EXCEPT ![p] = IdleCall]
Set(j, status) == job' = [job EXCEPT ![j].status = status]
SetTile(j, t, status) == tile' = [tile EXCEPT ![j][t] = status]

CreateIngestJob(j, changeType) ==
    /\ job[j].status = "NONE"
    /\ job' = [job EXCEPT ![j].status = "PENDING", ![j].changeType = changeType,
                          ![j].createdAt = Cardinality({k \in Job : job[k].status # "NONE"})]
    /\ UNCHANGED <<tile, proc, quiet, data, jobFaults>>

\* Jobs in whose way a call on j comes: j itself while another call is at work
\* on it, the jobs of the other calls, and the jobs that are half done.
Disturbs(j) ==
    LET busy == {proc[q].job : q \in Processor} \ {NoJob} IN
    busy \cup {j : k \in busy}
         \cup {k \in Job \ {j} : job[k].purged /\ job[k].status # "COMPLETED"}

\* A call of processIngestJob on j begins.
Enter(p, j, at, allowFailed) ==
    /\ At(p, "idle")
    /\ jobCalls < MaxJobCalls
    /\ jobCalls' = jobCalls + 1
    /\ proc' = [proc EXCEPT ![p] = [IdleCall EXCEPT !.at = at, !.job = j,
                                                    !.allowFailed = allowFailed]]
    /\ disturbed' = disturbed \cup Disturbs(j)

Active == {j \in Job : job[j].status \in {"PENDING", "RUNNING"}}

\* startIngestJob for a fresh job, or advanceActiveIngestJobs for the youngest
\* active one (cron and polls).
StartCall(p, j) ==
    /\ \/ job[j].status = "PENDING"
       \/ j \in Active /\ \A k \in Active : job[k].createdAt <= job[j].createdAt
    /\ Enter(p, j, "read", FALSE)
    /\ UNCHANGED <<job, tile, data, stale, jobFaults>>

\* retryFailedIngestJob: an import goes back to PENDING, the FAILED tiles of a
\* tile job do, and a second statement sets the job RUNNING.
RetryFailedIngestJob(p, j) ==
    /\ job[j].status = "FAILED"
    /\ \/ /\ Kind(j) = "import"
          /\ Enter(p, j, "read", TRUE)
          /\ Set(j, "PENDING")
          /\ UNCHANGED tile
       \/ /\ Kind(j) # "import"
          /\ Enter(p, j, "retry", TRUE)
          /\ tile' = [tile EXCEPT ![j] = [t \in Tile |->
                        IF @[t] = "FAILED" THEN "PENDING" ELSE @[t]]]
          /\ UNCHANGED job
    /\ UNCHANGED <<data, stale, jobFaults>>

RetrySetsRunning(p) ==
    /\ At(p, "retry")
    /\ Set(proc[p].job, "RUNNING")
    /\ Goto(p, "read")
    /\ UNCHANGED <<tile, quiet, data, jobFaults>>

\* The one read of job and tiles the whole call works from.
ReadJob(p) ==
    LET j == proc[p].job IN
    /\ At(p, "read")
    /\ IF \/ job[j].status = "COMPLETED"
          \/ job[j].status = "FAILED" /\ ~proc[p].allowFailed
       THEN Return(p)
       ELSE \E limit \in BatchSizes : proc' = [proc EXCEPT ![p] =
              [@ EXCEPT !.at = IF job[j].status = "RUNNING" THEN "purge" ELSE "begin",
                        !.batch = IF TileJob(j) THEN Batch(j, limit) ELSE {},
                        !.done = job[j].tilesDone,
                        !.purged = job[j].purged]]
    /\ UNCHANGED <<job, tile, quiet, data, jobFaults>>

SetRunning(p) ==
    /\ At(p, "begin")
    /\ Set(proc[p].job, "RUNNING")
    /\ Goto(p, "purge")
    /\ UNCHANGED <<tile, quiet, data, jobFaults>>

\* purgeOutsideBbox deletes the properties outside the new bbox.  A refresh and
\* a job noted as purged skip it (runPurgeIfNeeded), a shrink never does.
SkipsPurge(p) ==
    LET type == Kind(proc[p].job) IN
    type = "refresh" \/ (type # "shrink" /\ proc[p].purged)

PurgeIfNeeded(p) ==
    LET j == proc[p].job IN
    /\ At(p, "purge")
    /\ IF SkipsPurge(p)
       THEN Goto(p, "purged") /\ UNCHANGED held
       ELSE /\ held' = held \cap Region(j)
            /\ proc' = [proc EXCEPT ![p].purged = TRUE,
                          ![p].at = IF Kind(j) = "shrink" THEN "commit" ELSE "purged"]
    /\ UNCHANGED <<job, tile, quiet, tileCache, region, recorded, ingested, jobFaults>>

\* A later statement writes the call's statistics, the note of the purge included.
NotePurge(p) ==
    LET j == proc[p].job IN
    /\ At(p, "purged")
    /\ job' = [job EXCEPT ![j].purged = proc[p].purged]
    /\ Goto(p, IF Kind(j) = "import" THEN "import" ELSE "tiles")
    /\ UNCHANGED <<tile, quiet, data, jobFaults>>

TakeTile(p) ==
    /\ At(p, "tiles")
    /\ \E t \in proc[p].batch :
         /\ \A u \in proc[p].batch : t <= u
         /\ SetTile(proc[p].job, t, "RUNNING")
         /\ proc' = [proc EXCEPT ![p] = [@ EXCEPT !.at = "fetch", !.now = t,
                                                  !.batch = proc[p].batch \ {t}]]
    /\ UNCHANGED <<job, quiet, data, jobFaults>>

\* Mutant: a tile in the cache is taken to be ingested.
FetchTileOnce(p) ==
    /\ At(p, "fetch")
    /\ tileCache' = tileCache \cup {<<proc[p].job, proc[p].now>>}
    /\ Goto(p, IF <<proc[p].job, proc[p].now>> \in tileCache THEN "mark" ELSE "ingest")
    /\ UNCHANGED <<job, tile, quiet, region, held, recorded, ingested, jobFaults>>

\* fetchTileOverpassData: the cached answer, or a download that is then cached.
FetchTile(p) ==
    /\ At(p, "fetch")
    /\ tileCache' = tileCache \cup {<<proc[p].job, proc[p].now>>}
    /\ Goto(p, "ingest")
    /\ UNCHANGED <<job, tile, quiet, region, held, recorded, ingested, jobFaults>>

IngestTile(p) ==
    /\ At(p, "ingest")
    /\ ingested' = ingested \cup {<<proc[p].job, proc[p].now>>}
    /\ held' = held \cup {Area[proc[p].job][proc[p].now]}
    /\ Goto(p, "mark")
    /\ UNCHANGED <<job, tile, quiet, tileCache, region, recorded, jobFaults>>

MarkTile(p) ==
    /\ At(p, "mark")
    /\ SetTile(proc[p].job, proc[p].now, "COMPLETED")
    /\ Goto(p, "progress")
    /\ UNCHANGED <<job, quiet, data, jobFaults>>

\* Mutant: the count is written before it grows.
NoteProgressLate(p) ==
    LET j == proc[p].job IN
    /\ At(p, "progress")
    /\ job' = [job EXCEPT ![j].tilesDone = proc[p].done, ![j].purged = TRUE]
    /\ proc' = [proc EXCEPT ![p] = [@ EXCEPT !.at = "tiles", !.now = 0,
                                             !.done = proc[p].done + 1]]
    /\ UNCHANGED <<tile, quiet, data, jobFaults>>

\* tilesDone is the call's own count, written over whatever is stored.
NoteProgress(p) ==
    LET j == proc[p].job IN
    /\ At(p, "progress")
    /\ job' = [job EXCEPT ![j].tilesDone = proc[p].done + 1, ![j].purged = TRUE]
    /\ proc' = [proc EXCEPT ![p] = [@ EXCEPT !.at = "tiles", !.now = 0,
                                             !.done = proc[p].done + 1]]
    /\ UNCHANGED <<tile, quiet, data, jobFaults>>

\* A download that is not cached or the ingest of its elements fails: the tile
\* is FAILED first and the job in the next statement.
TileFails(p) ==
    /\ jobFaults < MaxJobFaults
    /\ \/ At(p, "fetch") /\ <<proc[p].job, proc[p].now>> \notin tileCache
       \/ At(p, "ingest")
    /\ SetTile(proc[p].job, proc[p].now, "FAILED")
    /\ Goto(p, "fail")
    /\ jobFaults' = jobFaults + 1
    /\ UNCHANGED <<job, quiet, data>>

FailJob(p) ==
    /\ At(p, "fail")
    /\ Set(proc[p].job, "FAILED")
    /\ Return(p)
    /\ UNCHANGED <<tile, quiet, data, jobFaults>>

\* Mutant: only the tiles that failed count as remaining.
RemainingFailedOnly(j) == {t \in Tile : tile[j][t] = "FAILED"}

\* The tiles the job still has to ingest, as counted after a batch: one left
\* RUNNING is not among them.
Remaining(j) == {t \in Tile : tile[j][t] \in {"PENDING", "FAILED"}}

CountRemaining(p) ==
    /\ At(p, "tiles") /\ proc[p].batch = {}
    /\ IF Remaining(proc[p].job) # {} THEN Return(p) ELSE Goto(p, "commit")
    /\ UNCHANGED <<job, tile, quiet, data, jobFaults>>

\* importGeofabrikRegion or importGeoJsonFile in one go.
Import(p) ==
    LET j == proc[p].job IN
    /\ At(p, "import")
    /\ \/ /\ Goto(p, "commit")
          /\ ingested' = ingested \cup {<<j, t>> : t \in Tile}
          /\ held' = held \cup Region(j)
          /\ UNCHANGED jobFaults
       \/ /\ jobFaults < MaxJobFaults
          /\ jobFaults' = jobFaults + 1
          /\ Goto(p, "fail")
          /\ UNCHANGED <<ingested, held>>
    /\ UNCHANGED <<job, tile, quiet, tileCache, region, recorded>>

CommitBbox(p) ==
    /\ At(p, "commit")
    /\ region' = proc[p].job
    /\ Goto(p, IF Kind(proc[p].job) = "shrink" THEN "complete" ELSE "record")
    /\ UNCHANGED <<job, tile, quiet, tileCache, held, recorded, ingested, jobFaults>>

\* recordIngestComplete reads the settings again and files this call's count
\* under the bbox it finds there.
RecordIngestComplete(p) ==
    LET j == proc[p].job IN
    /\ At(p, "record")
    /\ recorded' = [recorded EXCEPT ![region] =
                      IF Kind(j) = "import" THEN Tiles ELSE proc[p].done]
    /\ Goto(p, "complete")
    /\ UNCHANGED <<job, tile, quiet, tileCache, region, held, ingested, jobFaults>>

ClearJobTileCache(jobs) == tileCache' = {c \in tileCache : c[1] \notin jobs}

CompleteJob(p) ==
    /\ At(p, "complete")
    /\ Set(proc[p].job, "COMPLETED")
    /\ ClearJobTileCache({j \in {proc[p].job} : TileJob(j)})
    /\ Return(p)
    /\ UNCHANGED <<tile, quiet, region, held, recorded, ingested, jobFaults>>

\* failStaleIngestJobs finds the jobs that are too old and fails them by id in
\* a later statement, whatever became of them since.
FindStale ==
    /\ stale = {}
    /\ jobFaults < MaxJobFaults
    /\ jobFaults' = jobFaults + 1
    /\ \E old \in SUBSET {j \in Job : job[j].status \in {"PENDING", "RUNNING"}} :
         /\ old # {}
         /\ stale' = old
         /\ disturbed' = disturbed \cup old
    /\ UNCHANGED <<job, tile, proc, data, jobCalls>>

FailStale ==
    /\ stale # {}
    /\ job' = [j \in Job |-> IF j \in stale
                             THEN [job[j] EXCEPT !.status = "FAILED"] ELSE job[j]]
    /\ ClearJobTileCache(stale)
    /\ stale' = {}
    /\ UNCHANGED <<tile, proc, jobCalls, disturbed, region, held, recorded, ingested, jobFaults>>

JobCrash ==
    /\ jobFaults < MaxJobFaults
    /\ jobFaults' = jobFaults + 1
    /\ disturbed' = disturbed \cup ({proc[p].job : p \in Processor} \ {NoJob})
    /\ proc' = [p \in Processor |-> IdleCall]
    /\ stale' = {}
    /\ UNCHANGED <<job, tile, data, jobCalls>>

JobNext ==
    \/ \E j \in Job : \E changeType \in ChangeTypes[j] : CreateIngestJob(j, changeType)
    \/ \E p \in Processor, j \in Job : StartCall(p, j) \/ RetryFailedIngestJob(p, j)
    \/ \E p \in Processor :
         \/ RetrySetsRunning(p) \/ ReadJob(p) \/ SetRunning(p)
         \/ PurgeIfNeeded(p) \/ NotePurge(p)
         \/ TakeTile(p) \/ FetchTile(p) \/ IngestTile(p) \/ MarkTile(p)
         \/ NoteProgress(p) \/ TileFails(p) \/ FailJob(p)
         \/ CountRemaining(p) \/ Import(p)
         \/ CommitBbox(p) \/ RecordIngestComplete(p) \/ CompleteJob(p)
    \/ FindStale \/ FailStale \/ JobCrash

JobSpec == JobInit /\ [][JobNext]_jobVars
-----------------------------------------------------------------------------
\* The types of the variables.
JobTypeOK ==
    /\ job \in [Job -> JobRow]
    /\ tile \in [Job -> [Tile -> TileStatus]]
    /\ tileCache \in SUBSET (Job \X Tile)
    /\ region \in Job \cup {NoJob}
    /\ held \subseteq OldPlaces \cup UNION {Region(j) : j \in Job}
    /\ recorded \in [Job -> Nat]
    /\ proc \in [Processor -> Call]
    /\ stale \in SUBSET Job
    /\ jobCalls \in Nat /\ jobFaults \in Nat
    /\ ingested \in SUBSET (Job \X Tile)
    /\ disturbed \in SUBSET Job

\* A tile is marked COMPLETED only after its elements were stored, whatever
\* restarts, retries, timeouts and second calls come in between: no tile is
\* skipped for ever because of a mark that came too early.
CompletedTileWasIngested ==
    \A j \in Job, t \in Tile : tile[j][t] = "COMPLETED" => <<j, t>> \in ingested

\* Between the calls on a job that no restart, timeout or second call met, the
\* stored progress is the number of its COMPLETED tiles, failed downloads and
\* retries included.
ProgressIsExact ==
    \A j \in Job \ disturbed :
        (\A p \in Processor : proc[p].job # j)
            => job[j].tilesDone = Cardinality({t \in Tile : tile[j][t] = "COMPLETED"})

\* A job that completes undisturbed, however often it failed and was retried,
\* has ingested every tile, is the node's region, filed the whole count under
\* it, and leaves properties nowhere else (a refresh removes none).
CompletionIsWhole ==
    [][\A j \in Job \ disturbed' :
         (job'[j].status = "COMPLETED" /\ job[j].status # "COMPLETED") =>
            /\ region = j
            /\ Kind(j) # "refresh" => held \subseteq Region(j)
            /\ Kind(j) # "shrink" => Region(j) \subseteq held /\ recorded[j] = Tiles
            /\ TileJob(j) => \A t \in Tile : tile[j][t] = "COMPLETED"]_jobVars
=============================================================================
