-------------------------- MODULE SchedulerProofs --------------------------
(***************************************************************************)
(* Proofs about Scheduler, for every value of its constants: types, that a *)
(* job never has two runs under way, that what a deletion took stays away, *)
(* and that a sync cursor may be resumed from.                             *)
(***************************************************************************)
EXTENDS Scheduler, TLAPS

(* Where the pipeline has read the cursors, and where it merges.           *)
Merging == {"merge", "commit", "save"}
Syncing == {"fetch", "files"} \cup Merging

TickSound == tick.pc \in {"due", "spawn"} => tick.job \in Jobs

TypeInv ==
    /\ TypeOK
    /\ TickSound
    /\ \A s \in Slots : runs[s].pc \in {"commit", "save"} => runs[s].at \in Endpoints

-----------------------------------------------------------------------------
(* A run under way is in the in-flight set, or the tick is about to put it *)
(* there; a job the tick is about to start is not.                         *)
OnceInv ==
    /\ TypeInv
    /\ JobRunsOnce
    /\ \A s \in Executing : runs[s].job # AdHoc =>
          IF runs[s].pc = "insert" THEN tick.pc = "spawn" /\ tick.job = runs[s].job
          ELSE runs[s].job \in inflight
    /\ tick.pc \in {"due", "spawn"} => tick.job \notin inflight

(* A deletion no run overlapped finds none later, and takes things away in *)
(* its order, all but what a failed step left.                             *)
DeletedInv ==
    /\ TypeInv
    /\ (deletion # "no" /\ ~late) =>
          /\ Active = {}
          /\ deletion \in {"data", "done"} => table = remnant.table
          /\ deletion = "done" => output = remnant.output
    /\ deletion \in {"no", "config"} => remnant.table = Nothing
    /\ deletion \in {"no", "config", "data"} => remnant.output = Nothing

(* An endpoint whose cursor the run has not saved yet.                     *)
Unsaved(r, e) == r.pc \in {"fetch", "files"} \/ (r.pc \in Merging /\ e >= r.at)

(* What the run under way knows of the endpoints it has not saved: the     *)
(* saved cursor, and that its file goes on from there.                     *)
Continues(r, e) ==
    Unsaved(r, e) =>
        /\ r.from[e] = cursor[e]
        /\ (r.pc # "fetch" /\ r.got[e] # 0) =>
              /\ r.got[e] >= r.from[e]
              /\ r.pc = "files" =>
                    r.fetched[e] # {} /\ (r.from[e] + 1)..r.got[e] \subseteq r.fetched[e]
              /\ r.pc \in Merging => (r.from[e] + 1)..r.got[e] \subseteq output[e]

AtEndpoint(r) ==
    /\ r.pc = "commit" => r.snap = table[r.at] /\ r.batch = output[r.at]
    /\ r.pc = "save" => output[r.at] \subseteq table[r.at]

CursorInv ==
    /\ TypeInv
    /\ deletion # "no" => \A e \in Endpoints : cursor[e] = 0
    /\ \A e \in Endpoints : cursor[e] <= published[e]
    /\ \A s \in Slots, e \in Endpoints :
          runs[s].from[e] <= published[e] /\ runs[s].got[e] <= published[e]
    /\ ~overlap =>
          /\ \A s, t \in Executing : s = t
          /\ CursorCovered
          /\ deletion = "no" => \A s \in Executing :
                AtEndpoint(runs[s]) /\ \A e \in Endpoints : Continues(runs[s], e)

-----------------------------------------------------------------------------
(* Only one execution moves, and it keeps its job.                         *)
Moves(s, r) == r \in Run /\ runs' = [runs EXCEPT ![s] = r]

(* A slot without a run.                                                   *)
LEMMA IdleRun ==
    Idle \in Run /\ Idle.pc = "idle" /\ \A e \in Endpoints : Idle.from[e] = 0 /\ Idle.got[e] = 0
BY SchedulerAssumption DEF Idle, Run, Steps, Stamps

(* What a move does to the executions.                                     *)
LEMMA MovesOne ==
    ASSUME TypeOK, NEW s \in Slots, NEW r, Moves(s, r)
    PROVE  /\ runs' \in [Slots -> Run] /\ runs'[s] = r
           /\ \A o \in Slots : o # s => runs'[o] = runs[o]
BY DEF TypeOK, Moves

(* A run that only goes on to another step.                                *)
LEMMA Goes ==
    ASSUME TypeOK, NEW s \in Slots, NEW pc \in Steps, Go(s, pc)
    PROVE  \E r : /\ Moves(s, r) /\ r.pc = pc /\ r.job = runs[s].job
                  /\ r.from = runs[s].from /\ r.got = runs[s].got
                  /\ r.fetched = runs[s].fetched /\ r.at = runs[s].at
                  /\ r.snap = runs[s].snap /\ r.batch = runs[s].batch
<1>1. PICK r : r = [runs[s] EXCEPT !.pc = pc]
  OBVIOUS
<1>2. runs[s] \in Run
  BY DEF TypeOK
<1>3. r \in Run /\ r.pc = pc /\ r.job = runs[s].job
      /\ r.from = runs[s].from /\ r.got = runs[s].got
      /\ r.fetched = runs[s].fetched /\ r.at = runs[s].at
      /\ r.snap = runs[s].snap /\ r.batch = runs[s].batch
  BY <1>1, <1>2 DEF Run
<1>4. runs' = [runs EXCEPT ![s] = r]
  BY <1>1 DEF Go
<1> QED BY <1>3, <1>4 DEF Moves

(* A run that ends.                                                        *)
LEMMA Ends ==
    ASSUME NEW s \in Slots, Set(s, Idle)
    PROVE  Moves(s, Idle)
BY IdleRun DEF Set, Moves

(* create_sync_run: a fresh execution, and its row.                        *)
LEMMA CreateDoes ==
    ASSUME TypeOK, NEW s \in Slots, NEW job \in Jobs \cup {AdHoc}, CreateRun(s, job)
    PROVE  /\ runs[s].pc = "idle" /\ rows' \in [Jobs -> JobRows] /\ overlap' \in BOOLEAN
           /\ overlap' = (overlap \/ Executing # {})
           /\ \E r : Moves(s, r) /\ r.pc = "insert" /\ r.job = job
                 /\ \A e \in Endpoints : r.from[e] = 0 /\ r.got[e] = 0
<1>1. PICK r : r = [Idle EXCEPT !.pc = "insert", !.job = job]
  OBVIOUS
<1>2. r \in Run /\ r.pc = "insert" /\ r.job = job
                 /\ \A e \in Endpoints : r.from[e] = 0 /\ r.got[e] = 0
  BY <1>1, IdleRun DEF Run, Steps
<1>3. runs' = [runs EXCEPT ![s] = r]
  BY <1>1 DEF CreateRun, Set
<1>4. rows' \in [Jobs -> JobRows]
  BY DEF CreateRun, TypeOK, JobRows, Ages
<1>5. overlap' \in BOOLEAN
  BY DEF CreateRun, TypeOK
<1> QED BY <1>2, <1>3, <1>4, <1>5 DEF CreateRun, At, Moves

(* The cursors are read,                                                   *)
LEMMA LoadCursorsDoes ==
    ASSUME TypeOK, NEW s \in Slots, LoadCursors(s)
    PROVE  \E r : Moves(s, r) /\ r.pc = "fetch" /\ r.job = runs[s].job /\ r.from = cursor
                  /\ r.got = runs[s].got
<1>1. PICK r : r = [runs[s] EXCEPT !.pc = "fetch", !.from = cursor]
  OBVIOUS
<1>2. runs[s] \in Run /\ cursor \in [Endpoints -> Stamps]
  BY DEF TypeOK
<1>3. r \in Run /\ r.pc = "fetch" /\ r.job = runs[s].job /\ r.from = cursor
      /\ r.got = runs[s].got
  BY <1>1, <1>2 DEF Run, Steps
<1>4. runs' = [runs EXCEPT ![s] = r]
  BY <1>1 DEF LoadCursors, Set
<1> QED BY <1>3, <1>4 DEF Moves

(* the records after them fetched,                                         *)
LEMMA FetchDoes ==
    ASSUME TypeOK, NEW s \in Slots, Fetch(s)
    PROVE  \E r : /\ Moves(s, r) /\ r.pc = "files" /\ r.job = runs[s].job /\ r.from = runs[s].from
                  /\ \A e \in Endpoints :
                        /\ r.got[e] \in {0, published[e]}
                        /\ r.got[e] # 0 => r.fetched[e] # {}
                        /\ (r.from[e] + 1)..published[e] \subseteq r.fetched[e]
<1>1. PICK again \in {0, 1} :
        LET batch(e) == {k \in 1..published[e] : k > runs[s].from[e] - again} IN
        Set(s, [runs[s] EXCEPT
                !.pc = "files",
                !.fetched = [e \in Endpoints |-> batch(e)],
                !.got = [e \in Endpoints |-> IF batch(e) = {} THEN 0 ELSE published[e]]])
  BY DEF Fetch
<1> DEFINE b(e) == {k \in 1..published[e] : k > runs[s].from[e] - again}
<1>2. PICK f : f = [e \in Endpoints |-> b(e)]
  OBVIOUS
<1>3. PICK g : g = [e \in Endpoints |-> IF b(e) = {} THEN 0 ELSE published[e]]
  OBVIOUS
<1>4. PICK r : r = [runs[s] EXCEPT !.pc = "files", !.fetched = f, !.got = g]
  OBVIOUS
<1>5. runs' = [runs EXCEPT ![s] = r]
  BY <1>1, <1>2, <1>3, <1>4 DEF Set
<1>6. runs[s] \in Run /\ published \in [Endpoints -> 0..MaxRecords] /\ MaxRecords \in Nat
      /\ runs[s].from \in [Endpoints -> 0..MaxRecords]
  BY SchedulerAssumption DEF TypeOK, Run, Stamps
<1>7. \A e \in Endpoints : b(e) \in SUBSET (0..MaxRecords)
  BY <1>6
<1>8. f \in [Endpoints -> SUBSET (0..MaxRecords)]
  BY <1>2, <1>7
<1>9. g \in [Endpoints -> 0..MaxRecords]
  BY <1>3, <1>6
<1>10. r \in Run /\ r.pc = "files" /\ r.job = runs[s].job /\ r.from = runs[s].from
       /\ r.fetched = f /\ r.got = g
  BY <1>4, <1>6, <1>8, <1>9 DEF Run, Steps, Stamps
<1>11. ASSUME NEW e \in Endpoints
       PROVE  /\ g[e] \in {0, published[e]} /\ (g[e] # 0 => f[e] # {})
              /\ (runs[s].from[e] + 1)..published[e] \subseteq f[e]
  <2>1. f[e] = b(e) /\ g[e] = IF b(e) = {} THEN 0 ELSE published[e]
    BY <1>2, <1>3
  <2>2. (runs[s].from[e] + 1)..published[e] \subseteq b(e)
    BY <1>6
  <2> QED BY <2>1, <2>2
<1> QED BY <1>5, <1>10, <1>11 DEF Moves

(* written into the endpoints' files,                                      *)
LEMMA WriteFilesDoes ==
    ASSUME TypeOK, NEW s \in Slots, WriteFiles(s)
    PROVE  /\ \E r : /\ Moves(s, r) /\ r.pc = "merge" /\ r.job = runs[s].job
                     /\ r.from = runs[s].from /\ r.got = runs[s].got /\ r.at = 1
           /\ output' \in [Endpoints -> SUBSET Stamps]
           /\ \A e \in Endpoints : runs[s].fetched[e] # {} => output'[e] = runs[s].fetched[e]
<1>0. PICK f : f = [e \in Endpoints |-> {}]
  OBVIOUS
<1>1. PICK r : r = [runs[s] EXCEPT !.pc = "merge", !.at = 1, !.fetched = f]
  OBVIOUS
<1>2. runs[s] \in Run /\ f \in [Endpoints -> SUBSET Stamps]
  BY <1>0 DEF TypeOK
<1>3. r \in Run /\ r.pc = "merge" /\ r.job = runs[s].job
      /\ r.from = runs[s].from /\ r.got = runs[s].got /\ r.at = 1
  BY <1>1, <1>2 DEF Run, Steps
<1>4. runs' = [runs EXCEPT ![s] = r]
  BY <1>0, <1>1 DEF WriteFiles, Set
<1>5. output' \in [Endpoints -> SUBSET Stamps]
  BY <1>2 DEF WriteFiles, TypeOK, Run
<1> QED BY <1>3, <1>4, <1>5 DEF Moves, WriteFiles

(* and merged, endpoint by endpoint:                                       *)
LEMMA MergeReadDoes ==
    ASSUME TypeOK, NEW s \in Slots, MergeRead(s)
    PROVE  \E r : /\ Moves(s, r) /\ r.job = runs[s].job /\ r.from = runs[s].from /\ r.got = runs[s].got
                  /\ \/ r.pc = "complete"
                     \/ r.pc = "merge" /\ r.at = runs[s].at + 1
                     \/ /\ r.pc = "commit" /\ r.at = runs[s].at /\ r.at \in Endpoints
                        /\ r.snap = table[r.at] /\ r.batch = output[r.at]
<1>1. runs[s] \in Run /\ table \in [Endpoints -> SUBSET Stamps] /\ output \in [Endpoints -> SUBSET Stamps]
  BY DEF TypeOK
<1>2. CASE runs[s].at \notin Endpoints
  <2>1. Go(s, "complete") /\ "complete" \in Steps
    BY <1>2 DEF MergeRead, Steps
  <2> QED BY <2>1, Goes
<1>3. CASE runs[s].at \in Endpoints /\ output[runs[s].at] = {}
  <2>1. PICK r : r = [runs[s] EXCEPT !.at = runs[s].at + 1]
    OBVIOUS
  <2>2. r \in Run /\ r.pc = runs[s].pc /\ r.job = runs[s].job
        /\ r.from = runs[s].from /\ r.got = runs[s].got /\ r.at = runs[s].at + 1
    BY <1>1, <2>1 DEF Run
  <2>3. runs' = [runs EXCEPT ![s] = r] /\ runs[s].pc = "merge"
    BY <1>3, <2>1 DEF MergeRead, Set, At
  <2> QED BY <2>2, <2>3 DEF Moves
<1>4. CASE runs[s].at \in Endpoints /\ output[runs[s].at] # {}
  <2>1. PICK r : r = [runs[s] EXCEPT !.pc = "commit", !.snap = table[runs[s].at], !.batch = output[runs[s].at]]
    OBVIOUS
  <2>2. r \in Run /\ r.pc = "commit" /\ r.job = runs[s].job
        /\ r.from = runs[s].from /\ r.got = runs[s].got /\ r.at = runs[s].at
        /\ r.snap = table[runs[s].at] /\ r.batch = output[runs[s].at]
    BY <1>1, <1>4, <2>1 DEF Run, Steps
  <2>3. runs' = [runs EXCEPT ![s] = r]
    BY <1>4, <2>1 DEF MergeRead, Set
  <2> QED BY <1>4, <2>2, <2>3 DEF Moves
<1> QED BY <1>2, <1>3, <1>4

(* the table takes the union of what was read,                             *)
LEMMA MergeCommitDoes ==
    ASSUME TypeOK, NEW s \in Slots, MergeCommit(s)
    PROVE  /\ \E r : /\ Moves(s, r) /\ r.pc = "save" /\ r.job = runs[s].job /\ r.at = runs[s].at
                     /\ r.from = runs[s].from /\ r.got = runs[s].got
           /\ table' \in [Endpoints -> SUBSET Stamps]
<1>1. PICK r : r = [runs[s] EXCEPT !.pc = "save", !.snap = {}, !.batch = {}]
  OBVIOUS
<1>2. runs[s] \in Run
  BY DEF TypeOK
<1>3. r \in Run /\ r.pc = "save" /\ r.job = runs[s].job /\ r.at = runs[s].at
      /\ r.from = runs[s].from /\ r.got = runs[s].got
  BY <1>1, <1>2 DEF Run, Steps
<1>4. runs' = [runs EXCEPT ![s] = r]
  BY <1>1 DEF MergeCommit, Set
<1>5. table' \in [Endpoints -> SUBSET Stamps]
  BY <1>2 DEF MergeCommit, TypeOK, Run
<1> QED BY <1>3, <1>4, <1>5 DEF Moves

(* and the cursor is saved while the connector's row is there.             *)
LEMMA SaveCursorDoes ==
    ASSUME TypeOK, NEW s \in Slots, SaveCursor(s)
    PROVE  /\ cursor' \in [Endpoints -> Stamps]
           /\ \E r : /\ Moves(s, r) /\ r.job = runs[s].job
                     /\ r.from = runs[s].from /\ r.got = runs[s].got
                     /\ \/ /\ deletion = "no" /\ r.pc = "merge" /\ r.at = runs[s].at + 1
                           /\ cursor' = [cursor EXCEPT ![runs[s].at] =
                                            IF runs[s].got[runs[s].at] = 0 THEN @ ELSE runs[s].got[runs[s].at]]
                        \/ deletion # "no" /\ r.pc = "releaseFailed" /\ cursor' = cursor
<1>1. runs[s] \in Run /\ cursor \in [Endpoints -> Stamps]
  BY DEF TypeOK
<1>2. CASE deletion = "no"
  <2>0. PICK n : n = runs[s].at + 1
    OBVIOUS
  <2>1. PICK r : r = [runs[s] EXCEPT !.pc = "merge", !.at = n]
    OBVIOUS
  <2>9. n \in Nat
    BY <1>1, <2>0 DEF Run
  <2>2. r \in Run /\ r.pc = "merge" /\ r.job = runs[s].job
        /\ r.from = runs[s].from /\ r.got = runs[s].got /\ r.at = n
    BY <1>1, <2>1, <2>9 DEF Run, Steps
  <2>3. /\ runs' = [runs EXCEPT ![s] = r]
        /\ cursor' = [cursor EXCEPT ![runs[s].at] =
                            IF runs[s].got[runs[s].at] = 0 THEN @ ELSE runs[s].got[runs[s].at]]
    BY <1>2, <2>0, <2>1 DEF SaveCursor, Set, ConfigExists
  <2>4. cursor' \in [Endpoints -> Stamps]
    BY <1>1, <2>3 DEF Run
  <2> QED BY <1>2, <2>0, <2>2, <2>3, <2>4 DEF Moves
<1>3. CASE deletion # "no"
  <2>1. Go(s, "releaseFailed") /\ "releaseFailed" \in Steps /\ cursor' = cursor
    BY <1>3 DEF SaveCursor, Error, ConfigExists, Steps
  <2> QED BY <1>1, <1>3, <2>1, Goes
<1> QED BY <1>2, <1>3

(* update_sync_run changes a row into a row.                               *)
LEMMA FinishDoes ==
    ASSUME TypeOK, NEW s \in Slots, FinishRow(s)
    PROVE  rows' \in [Jobs -> JobRows]
<1> DEFINE j == runs[s].job
<1>0. rows \in [Jobs -> JobRows] /\ j \in Jobs \cup {AdHoc}
  BY DEF TypeOK, Run
<1>1. CASE j = AdHoc \/ rows[j] = NoRows
  BY <1>0, <1>1 DEF FinishRow
<1>2. CASE ~(j = AdHoc \/ rows[j] = NoRows)
  <2>1. rows[j] \in JobRows
    BY <1>0, <1>2
  <2>2. PICK q : q = IF rows[j].of = s THEN [rows[j] EXCEPT !.status = "finished", !.of = NoSlot]
                     ELSE [rows[j] EXCEPT !.before = "old"]
    OBVIOUS
  <2>3. q \in JobRows
    BY <2>1, <2>2 DEF JobRows, Ages
  <2>4. rows' = [rows EXCEPT ![j] = q]
    BY <1>0, <1>2, <2>2 DEF FinishRow
  <2> QED BY <1>0, <2>3, <2>4
<1> QED BY <1>1, <1>2

-----------------------------------------------------------------------------
(* Types.                                                                  *)
LEMMA InitTypes == Init => TypeInv
<1> SUFFICES ASSUME Init PROVE TypeInv
  OBVIOUS
<1>1. MaxRecords \in Nat
  BY SchedulerAssumption
<1>2. runs \in [Slots -> Run]
  BY IdleRun DEF Init
<1>3. published \in [Endpoints -> Stamps] /\ cursor \in [Endpoints -> Stamps]
  BY <1>1 DEF Init, Stamps
<1>4. rows \in [Jobs -> JobRows]
  BY DEF Init, NoRows, JobRows, Ages, NoSlot
<1>5. jobs \in [Jobs -> {"none", "on", "off"}]
  BY DEF Init
<1>6. tick \in [pc : {"idle", "running", "due", "spawn"}, todo : SUBSET Jobs, job : Jobs \cup {AdHoc}]
  BY DEF Init, NoTick
<1>7. TypeOK
  BY <1>2, <1>3, <1>4, <1>5, <1>6 DEF Init, Nothing, TypeOK
<1> QED BY <1>7, IdleRun DEF Init, TypeInv, TickSound, NoTick

(* A step of one execution that leaves the rest of the state well typed.   *)
LEMMA TypesMove ==
    ASSUME TypeInv, NEW s \in Slots, NEW r, Moves(s, r),
           r.pc \in {"commit", "save"} => r.at \in Endpoints,
           published' \in [Endpoints -> Stamps], jobs' \in [Jobs -> {"none", "on", "off"}],
           rows' \in [Jobs -> JobRows], cursor' \in [Endpoints -> Stamps],
           table' \in [Endpoints -> SUBSET Stamps], output' \in [Endpoints -> SUBSET Stamps],
           inflight' \subseteq Jobs \cup {AdHoc},
           tick' \in [pc : {"idle", "running", "due", "spawn"}, todo : SUBSET Jobs, job : Jobs \cup {AdHoc}],
           tick'.pc \in {"due", "spawn"} => tick'.job \in Jobs,
           deletion' = deletion, overlap' \in BOOLEAN, late' = late, remnant' = remnant,
           adhocs' \in Nat, edits' \in Nat, faults' \in Nat, crashes' \in Nat
    PROVE  TypeInv'
<1>1. TypeOK'
  BY MovesOne DEF TypeInv, TypeOK
<1> QED BY <1>1, MovesOne DEF TypeInv, TickSound

(* spawn_job ends.                                                         *)
LEMMA LaunchTypes == ASSUME TypeInv, NEW s \in Slots, Launch(s) PROVE TypeInv'
<1>0. TypeOK /\ runs[s] \in Run
  BY DEF TypeInv, TypeOK
<1>1. PICK r : Moves(s, r) /\ r.pc = "config"
  BY <1>0, Goes DEF Launch, Steps
<1>2. inflight' \subseteq Jobs \cup {AdHoc}
  BY <1>0 DEF Launch, TypeOK, Run
<1>3. /\ tick' \in [pc : {"idle", "running", "due", "spawn"}, todo : SUBSET Jobs, job : Jobs \cup {AdHoc}]
      /\ tick'.pc \in {"due", "spawn"} => tick'.job \in Jobs
  BY <1>0 DEF Launch, TypeOK, TypeInv, TickSound
<1> QED BY <1>0, <1>1, <1>2, <1>3, TypesMove DEF Launch, database, history, counters, TypeOK

(* The steps of the pipeline that keep to their execution.                 *)
LEMMA PipelineTypes ==
    ASSUME TypeInv, NEW s \in Slots,
           \/ LoadConfig(s) \/ LoadCursors(s) \/ Fetch(s) \/ MergeRead(s) \/ FailStep(s)
    PROVE  TypeInv'
<1>0. TypeOK /\ TickSound
  BY DEF TypeInv
<1>1. PICK r : Moves(s, r) /\ (r.pc \in {"commit", "save"} => r.at \in Endpoints)
  <2>1. CASE LoadConfig(s)
    BY <1>0, <2>1, Goes DEF LoadConfig, Error, Steps
  <2>2. CASE FailStep(s)
    BY <1>0, <2>2, Goes DEF FailStep, Error, Steps
  <2>3. CASE LoadCursors(s)
    BY <1>0, <2>3, LoadCursorsDoes
  <2>4. CASE Fetch(s)
    BY <1>0, <2>4, FetchDoes
  <2>5. CASE MergeRead(s)
    BY <1>0, <2>5, MergeReadDoes
  <2> QED BY <2>1, <2>2, <2>3, <2>4, <2>5
<1>2. /\ UNCHANGED <<published, database, table, output, inflight, tick, deletion, history, adhocs, edits, crashes>>
      /\ faults' \in Nat
  BY <1>0 DEF LoadConfig, LoadCursors, Fetch, MergeRead, FailStep, counters, TypeOK
<1> QED BY <1>0, <1>1, <1>2, TypesMove DEF database, history, TypeOK, TickSound

(* The steps that write files, tables, cursors and rows.                   *)
LEMMA StoreTypes ==
    ASSUME TypeInv, NEW s \in Slots,
           \/ WriteFiles(s) \/ MergeCommit(s) \/ SaveCursor(s) \/ Complete(s) \/ Release(s) \/ MarkFailed(s)
    PROVE  TypeInv'
<1>0. TypeOK /\ TickSound /\ runs[s] \in Run
  BY DEF TypeInv, TypeOK
<1>1. CASE WriteFiles(s)
  <2>1. PICK r : Moves(s, r) /\ r.pc = "merge"
    BY <1>0, <1>1, WriteFilesDoes
  <2>2. output' \in [Endpoints -> SUBSET Stamps]
    BY <1>0, <1>1, WriteFilesDoes
  <2> QED BY <1>0, <1>1, <2>1, <2>2, TypesMove DEF WriteFiles, database, history, counters, TypeOK, TickSound
<1>2. CASE MergeCommit(s)
  <2>1. PICK r : Moves(s, r) /\ r.pc = "save" /\ r.at = runs[s].at
    BY <1>0, <1>2, MergeCommitDoes
  <2>2. table' \in [Endpoints -> SUBSET Stamps]
    BY <1>0, <1>2, MergeCommitDoes
  <2>3. r.at \in Endpoints
    BY <1>2, <2>1 DEF MergeCommit, At, TypeInv
  <2> QED BY <1>0, <1>2, <2>1, <2>2, <2>3, TypesMove DEF MergeCommit, database, history, counters, TypeOK, TickSound
<1>3. CASE SaveCursor(s)
  <2>1. PICK r : Moves(s, r) /\ r.pc \in {"merge", "releaseFailed"}
    BY <1>0, <1>3, SaveCursorDoes
  <2>2. cursor' \in [Endpoints -> Stamps]
    BY <1>0, <1>3, SaveCursorDoes
  <2> QED BY <1>0, <1>3, <2>1, <2>2, TypesMove DEF SaveCursor, history, counters, TypeOK, TickSound
<1>4. CASE Complete(s)
  <2>1. PICK r : Moves(s, r) /\ r.pc = "release"
    BY <1>0, <1>4, Goes DEF Complete, Steps
  <2>2. rows' \in [Jobs -> JobRows]
    BY <1>0, <1>4, FinishDoes DEF Complete
  <2> QED BY <1>0, <1>4, <2>1, <2>2, TypesMove DEF Complete, history, counters, TypeOK, TickSound
<1>5. CASE Release(s)
  <2>1. PICK r : Moves(s, r) /\ r.pc \in {"idle", "fail"}
    BY <1>0, <1>5, Goes, Ends, IdleRun DEF Release, Steps
  <2> QED BY <1>0, <1>5, <2>1, TypesMove DEF Release, database, history, counters, TypeOK, TickSound
<1>6. CASE MarkFailed(s)
  <2>1. PICK r : Moves(s, r) /\ r.pc = "idle"
    BY <1>0, <1>6, Ends, IdleRun DEF MarkFailed
  <2>2. rows' \in [Jobs -> JobRows]
    BY <1>0, <1>6, FinishDoes DEF MarkFailed
  <2> QED BY <1>0, <1>6, <2>1, <2>2, TypesMove DEF MarkFailed, history, counters, TypeOK, TickSound
<1> QED BY <1>1, <1>2, <1>3, <1>4, <1>5, <1>6

(* The tick, and a run on request.                                         *)
LEMMA TickTypes ==
    ASSUME TypeInv, TickList \/ TickRunning \/ TickDue \/ \E s \in Slots : TriggerConnectorRun(s)
    PROVE  TypeInv'
<1>0. /\ TypeOK /\ TickSound
      /\ tick \in [pc : {"idle", "running", "due", "spawn"}, todo : SUBSET Jobs, job : Jobs \cup {AdHoc}]
  BY DEF TypeInv, TypeOK
<1>1. CASE TickList \/ TickRunning
  <2>1. /\ tick' \in [pc : {"idle", "running", "due", "spawn"}, todo : SUBSET Jobs, job : Jobs \cup {AdHoc}]
        /\ tick'.pc \in {"due", "spawn"} => tick'.job \in Jobs
    <3>1. CASE TickList
      BY <3>1 DEF TickList, NoTick
    <3>2. CASE TickRunning
      <4>1. CASE tick' = NoTick
        BY <4>1 DEF NoTick
      <4>2. CASE tick' # NoTick
        <5>1. PICK j \in tick.todo : \/ tick' = [tick EXCEPT !.todo = @ \ {j}]
                                     \/ tick' = [pc |-> "due", todo |-> tick.todo \ {j}, job |-> j]
          BY <3>2, <4>2 DEF TickRunning
        <5>2. tick.pc = "running"
          BY <3>2 DEF TickRunning
        <5> QED BY <1>0, <5>1, <5>2
      <4> QED BY <4>1, <4>2
    <3> QED BY <1>1, <3>1, <3>2
  <2>2. UNCHANGED <<published, database, table, output, runs, inflight, deletion, history, counters>>
    BY <1>1 DEF TickList, TickRunning
  <2> QED BY <1>0, <2>1, <2>2 DEF TypeInv, TypeOK, TickSound, database, history, counters
<1>2. CASE TickDue
  <2>1. tick.pc = "due" /\ tick.job \in Jobs
    BY <1>0, <1>2 DEF TickDue, TickSound
  <2>2. UNCHANGED <<published, jobs, cursor, table, output, inflight, deletion, late, remnant, counters>>
    BY <1>2 DEF TickDue
  <2>3. CASE UNCHANGED <<runs, rows, overlap>> /\ tick' = [tick EXCEPT !.pc = "running", !.job = AdHoc]
    <3>1. tick' \in [pc : {"idle", "running", "due", "spawn"}, todo : SUBSET Jobs, job : Jobs \cup {AdHoc}]
          /\ tick'.pc = "running"
      BY <1>0, <2>3
    <3> QED BY <1>0, <2>2, <2>3, <3>1 DEF TypeInv, TypeOK, TickSound, database, history, counters
  <2>4. CASE tick' = [tick EXCEPT !.pc = "spawn"] /\ \E s \in Slots : CreateRun(s, tick.job)
    <3>1. PICK s \in Slots : CreateRun(s, tick.job)
      BY <2>4
    <3>2. PICK r : Moves(s, r) /\ r.pc = "insert"
      BY <1>0, <2>1, <3>1, CreateDoes
    <3>3. rows' \in [Jobs -> JobRows] /\ overlap' \in BOOLEAN
      BY <1>0, <2>1, <3>1, CreateDoes
    <3>4. tick' \in [pc : {"idle", "running", "due", "spawn"}, todo : SUBSET Jobs, job : Jobs \cup {AdHoc}]
          /\ tick'.job = tick.job
      BY <1>0, <2>4
    <3> QED BY <1>0, <2>1, <2>2, <3>2, <3>3, <3>4, TypesMove DEF counters, TypeOK
  <2> QED BY <1>2, <2>3, <2>4 DEF TickDue
<1>3. ASSUME NEW s \in Slots, TriggerConnectorRun(s) PROVE TypeInv'
  <2>1. PICK r : Moves(s, r) /\ r.pc = "insert"
    BY <1>0, <1>3, CreateDoes DEF TriggerConnectorRun
  <2>2. rows' \in [Jobs -> JobRows] /\ overlap' \in BOOLEAN
    BY <1>0, <1>3, CreateDoes DEF TriggerConnectorRun
  <2>3. /\ UNCHANGED <<published, jobs, cursor, table, output, inflight, tick, deletion, late, remnant, edits, faults, crashes>>
        /\ adhocs' \in Nat
    BY <1>0, <1>3 DEF TriggerConnectorRun, TypeOK
  <2> QED BY <1>0, <2>1, <2>2, <2>3, TypesMove DEF TypeOK, TickSound
<1> QED BY <1>1, <1>2, <1>3

(* The world outside, changes of the schedule, deletion, a restart.        *)
LEMMA OtherTypes ==
    ASSUME TypeInv,
           \/ \E e \in Endpoints : Publish(e)
           \/ IntervalElapses
           \/ \E on \in BOOLEAN : Schedule(on)
           \/ \E j \in Jobs : DeleteJob(j)
           \/ DeleteConfig \/ DeleteData \/ DeleteOutput \/ DeletionFails \/ Restart \/ UNCHANGED vars
    PROVE  TypeInv'
<1>0. TypeOK /\ MaxRecords \in Nat
  BY SchedulerAssumption DEF TypeInv
<1>1. ASSUME NEW e \in Endpoints, Publish(e) PROVE TypeInv'
  <2>1. published' \in [Endpoints -> Stamps]
    BY <1>0, <1>1 DEF Publish, TypeOK, Stamps
  <2> QED BY <1>0, <1>1, <2>1 DEF Publish, TypeInv, TypeOK, TickSound, database, history, counters
<1>2. CASE IntervalElapses
  <2>1. rows' \in [Jobs -> JobRows]
    <3>1. \A q \in JobRows : [q EXCEPT !.age = IF @ = "fresh" THEN "old" ELSE @,
                                       !.before = IF @ = "fresh" THEN "old" ELSE @] \in JobRows
      BY DEF JobRows, Ages
    <3>2. \A j \in Jobs : rows[j] \in JobRows
      BY <1>0 DEF TypeOK
    <3> QED BY <1>2, <3>1, <3>2 DEF IntervalElapses
  <2> QED BY <1>0, <1>2, <2>1 DEF IntervalElapses, TypeInv, TypeOK, TickSound, history, counters
<1>3. ASSUME NEW on \in BOOLEAN, Schedule(on) PROVE TypeInv'
  <2>1. jobs' \in [Jobs -> {"none", "on", "off"}]
    BY <1>0, <1>3 DEF Schedule, TypeOK
  <2> QED BY <1>0, <1>3, <2>1 DEF Schedule, TypeInv, TypeOK, TickSound, history
<1>4. ASSUME NEW j \in Jobs, DeleteJob(j) PROVE TypeInv'
  BY <1>0, <1>4 DEF DeleteJob, TypeInv, TypeOK, TickSound, history
<1>5. CASE DeleteConfig
  <2>1. /\ jobs' \in [Jobs -> {"none", "on", "off"}] /\ rows' \in [Jobs -> JobRows]
        /\ cursor' \in [Endpoints -> Stamps]
    BY <1>0, <1>5 DEF DeleteConfig, NoRows, JobRows, Ages, NoSlot, Stamps
  <2> QED BY <1>0, <1>5, <2>1 DEF DeleteConfig, TypeInv, TypeOK, TickSound, counters
<1>6. CASE DeleteData \/ DeleteOutput
  <2>1. table' \in [Endpoints -> SUBSET Stamps] /\ output' \in [Endpoints -> SUBSET Stamps]
    BY <1>0, <1>6 DEF DeleteData, DeleteOutput, Nothing, TypeOK
  <2> QED BY <1>0, <1>6, <2>1 DEF DeleteData, DeleteOutput, TypeInv, TypeOK, TickSound, database, history, counters
<1>7. CASE Restart
  <2>1. runs' \in [Slots -> Run] /\ \A s \in Slots : runs'[s].pc = "idle"
    BY <1>7, IdleRun DEF Restart
  <2>2. rows' \in [Jobs -> JobRows]
    <3>1. ASSUME NEW q \in JobRows
          PROVE  (IF q.status # "running" THEN q ELSE IF q.before = "none" THEN NoRows
                  ELSE [NoRows EXCEPT !.status = "finished", !.age = q.before]) \in JobRows
      BY <3>1 DEF JobRows, NoRows, Ages, NoSlot
    <3>2. \A j \in Jobs : rows[j] \in JobRows
      BY <1>0 DEF TypeOK
    <3> QED BY <1>7, <3>1, <3>2 DEF Restart
  <2>3. /\ tick' \in [pc : {"idle", "running", "due", "spawn"}, todo : SUBSET Jobs, job : Jobs \cup {AdHoc}]
        /\ tick'.pc = "idle"
    BY <1>7 DEF Restart, NoTick
  <2>5. /\ deletion' \in {"no", "config", "data", "done", "interrupted"}
        /\ crashes' \in Nat /\ inflight' = {}
    <3>1. /\ deletion' = IF deletion \in {"config", "data"} THEN "interrupted" ELSE deletion
          /\ crashes' = crashes + 1 /\ inflight' = {}
      BY <1>7 DEF Restart
    <3> QED BY <1>0, <3>1 DEF TypeOK
  <2>6. UNCHANGED <<published, jobs, cursor, table, output, overlap, late, remnant, adhocs, edits, faults>>
    BY <1>7 DEF Restart, history
  <2>4. TypeOK'
    BY <1>0, <2>1, <2>2, <2>3, <2>5, <2>6 DEF TypeOK
  <2> QED BY <2>1, <2>3, <2>4 DEF TypeInv, TickSound
<1>9. CASE DeletionFails
  <2>1. /\ table' \in [Endpoints -> SUBSET Stamps] /\ output' \in [Endpoints -> SUBSET Stamps]
        /\ remnant' \in [table : [Endpoints -> SUBSET Stamps], output : [Endpoints -> SUBSET Stamps]]
        /\ deletion' \in {"data", "done"} /\ faults' \in Nat
    BY <1>0, <1>9 DEF DeletionFails, DeleteDataFails, DeleteOutputFails, TypeOK
  <2> QED BY <1>0, <1>9, <2>1 DEF DeletionFails, TypeInv, TypeOK, TickSound, database
<1>8. CASE UNCHANGED vars
  BY <1>8 DEF vars, database, history, counters, TypeInv, TypeOK, TickSound
<1> QED BY <1>1, <1>2, <1>3, <1>4, <1>5, <1>6, <1>7, <1>8, <1>9

(* Every step keeps the types.                                             *)
LEMMA StepTypes == TypeInv /\ [Next]_vars => TypeInv'
BY LaunchTypes, PipelineTypes, StoreTypes, TickTypes, OtherTypes DEF Next, RunStep

(* Every reachable state of the scheduler (lib.rs, db.rs) is well typed.   *)
THEOREM TypeCorrect == Spec => []TypeOK
<1>1. TypeInv => TypeOK
  BY DEF TypeInv
<1> QED BY <1>1, InitTypes, StepTypes, PTL DEF Spec

-----------------------------------------------------------------------------
(* One run per job.                                                        *)
LEMMA InitOnce == Init => OnceInv
<1> SUFFICES ASSUME Init PROVE OnceInv
  OBVIOUS
<1>1. Executing = {}
  BY IdleRun DEF Init, Executing, Active
<1> QED BY <1>1, InitTypes DEF OnceInv, JobRunsOnce, Init, NoTick

InSet(r) == r.pc \notin {"idle", "insert", "fail"}

(* A run keeps its job, and the in-flight set and the tick stay.           *)
LEMMA OnceMoves ==
    ASSUME OnceInv, TypeInv', NEW s \in Slots, NEW r, Moves(s, r), r.job = runs[s].job,
           r.pc \in {"idle", "fail"} \/ (InSet(r) /\ InSet(runs[s])),
           tick' = tick, inflight' = inflight
    PROVE  OnceInv'
<1>0. TypeOK
  BY DEF OnceInv, TypeInv
<1>1. /\ runs'[s] = r /\ \A o \in Slots : o # s => runs'[o] = runs[o]
  BY <1>0, MovesOne
<1>2. \A o \in Executing' : o \in Executing /\ runs'[o].job = runs[o].job
                            /\ (runs'[o].pc = "insert" <=> runs[o].pc = "insert")
  BY <1>1 DEF Executing, Active, InSet
<1>3. JobRunsOnce'
  BY <1>2 DEF OnceInv, JobRunsOnce
<1> QED BY <1>2, <1>3 DEF OnceInv

(* A run ends, its key leaving the set or having left it.                  *)
LEMMA OnceEnds ==
    ASSUME OnceInv, TypeInv', NEW s \in Slots, NEW r, Moves(s, r), r.pc \in {"idle", "fail"},
           tick' = tick,
           inflight' = inflight \/ (s \in Executing /\ runs[s].pc # "insert" /\ inflight' = inflight \ {runs[s].job})
    PROVE  OnceInv'
<1>0. TypeOK /\ JobRunsOnce
  BY DEF OnceInv, TypeInv
<1>1. /\ runs'[s] = r /\ \A o \in Slots : o # s => runs'[o] = runs[o]
  BY <1>0, MovesOne
<1>2. \A o \in Executing' : o # s /\ o \in Executing /\ runs'[o] = runs[o]
  BY <1>1 DEF Executing, Active
<1>3. JobRunsOnce'
  BY <1>2 DEF OnceInv, JobRunsOnce
<1>4. \A o \in Executing' : runs[o].job # AdHoc /\ runs[o].job \in inflight => runs[o].job \in inflight'
  BY <1>0, <1>2 DEF JobRunsOnce
<1> QED BY <1>2, <1>3, <1>4 DEF OnceInv

(* A run is created: of no job, or of the job the tick has found due.      *)
LEMMA OnceCreates ==
    ASSUME OnceInv, TypeInv', NEW s \in Slots, NEW job \in Jobs \cup {AdHoc}, CreateRun(s, job),
           inflight' = inflight,
           \/ job = AdHoc /\ tick' = tick
           \/ tick.pc = "due" /\ job = tick.job /\ tick'.pc = "spawn" /\ tick'.job = tick.job
    PROVE  OnceInv'
<1>0. TypeOK /\ JobRunsOnce
  BY DEF OnceInv, TypeInv
<1>1. PICK r : Moves(s, r) /\ r.pc = "insert" /\ r.job = job
  BY <1>0, CreateDoes
<1>2. /\ runs'[s] = r /\ \A o \in Slots : o # s => runs'[o] = runs[o]
  BY <1>0, <1>1, MovesOne
<1>3. \A o \in Executing' : o = s \/ (o \in Executing /\ runs'[o] = runs[o])
  BY <1>2 DEF Executing, Active
<1>4. \A o \in Executing : job # AdHoc => runs[o].job # job
  BY DEF OnceInv
<1>5. JobRunsOnce'
  BY <1>0, <1>1, <1>2, <1>3, <1>4 DEF JobRunsOnce
<1> QED BY <1>1, <1>2, <1>3, <1>5 DEF OnceInv

(* The run goes into the in-flight set.                                    *)
LEMMA OnceLaunches == ASSUME OnceInv, TypeInv', NEW s \in Slots, Launch(s) PROVE OnceInv'
<1>0. TypeOK /\ JobRunsOnce /\ runs[s].pc = "insert" /\ s \in Executing
  BY DEF OnceInv, TypeInv, Launch, At, Executing, Active
<1>1. PICK r : Moves(s, r) /\ r.pc = "config" /\ r.job = runs[s].job
  BY <1>0, Goes DEF Launch, Steps
<1>2. /\ runs'[s] = r /\ \A o \in Slots : o # s => runs'[o] = runs[o]
  BY <1>0, <1>1, MovesOne
<1>3. \A o \in Executing' : o \in Executing /\ runs'[o].job = runs[o].job
  BY <1>0, <1>1, <1>2 DEF Executing, Active
<1>4. JobRunsOnce'
  BY <1>0, <1>3 DEF JobRunsOnce
<1>5. inflight' = inflight \cup {runs[s].job}
  BY DEF Launch
<1>6. CASE runs[s].job = AdHoc
  <2>1. tick' = tick /\ AdHoc \notin Jobs /\ TickSound
    BY <1>6, SchedulerAssumption DEF Launch, OnceInv, TypeInv
  <2>2. tick.pc \in {"due", "spawn"} => tick.job \notin inflight'
    BY <1>5, <1>6, <2>1 DEF OnceInv, TickSound
  <2>3. \A o \in Executing' : runs'[o].job # AdHoc =>
          IF runs'[o].pc = "insert" THEN tick.pc = "spawn" /\ tick.job = runs'[o].job
          ELSE runs'[o].job \in inflight'
    <3> SUFFICES ASSUME NEW o \in Executing', runs'[o].job # AdHoc
                 PROVE  IF runs'[o].pc = "insert" THEN tick.pc = "spawn" /\ tick.job = runs'[o].job
                        ELSE runs'[o].job \in inflight'
      OBVIOUS
    <3>1. o # s /\ o \in Slots /\ o \in Executing
      BY <1>1, <1>2, <1>3, <1>6 DEF Executing, Active
    <3>2. runs'[o] = runs[o]
      BY <1>2, <3>1
    <3> QED BY <1>5, <3>1, <3>2 DEF OnceInv
  <2> QED BY <1>4, <2>1, <2>2, <2>3 DEF OnceInv
<1>7. CASE runs[s].job # AdHoc
  <2>1. tick.job = runs[s].job
    BY <1>0, <1>7 DEF OnceInv
  <2>2. tick'.pc = "running"
    BY <1>0, <1>7 DEF Launch, TypeOK
  <2>3. ASSUME NEW o \in Executing', runs'[o].job # AdHoc
        PROVE  runs'[o].pc # "insert" /\ runs'[o].job \in inflight'
    <3>1. CASE o = s
      BY <1>1, <1>2, <1>5, <3>1
    <3>2. CASE o # s
      <4>1. runs'[o] = runs[o] /\ o \in Executing /\ o \in Slots
        BY <1>2, <1>3, <3>2 DEF Executing, Active
      <4>2. runs[o].job # runs[s].job
        BY <1>0, <1>7, <3>2, <4>1 DEF JobRunsOnce
      <4> QED BY <1>5, <2>1, <2>3, <4>1, <4>2 DEF OnceInv
    <3> QED BY <3>1, <3>2
  <2> QED BY <1>4, <2>2, <2>3 DEF OnceInv
<1> QED BY <1>6, <1>7

(* The tick asks the in-flight set before it takes a job.                  *)
LEMMA OnceTick == ASSUME OnceInv, TypeInv', TickList \/ TickRunning \/ TickDue PROVE OnceInv'
<1>0. TypeOK /\ TickSound
  BY DEF OnceInv, TypeInv
<1>1. CASE runs' = runs /\ inflight' = inflight /\ tick.pc # "spawn"
           /\ (tick'.pc \in {"due", "spawn"} => tick'.job \notin inflight)
  <2>1. Executing' = Executing
    BY <1>1 DEF Executing, Active
  <2> QED BY <1>1, <2>1 DEF OnceInv, JobRunsOnce
<1>2. CASE TickList
  BY <1>1, <1>2 DEF TickList, NoTick
<1>3. CASE TickRunning
  <2>1. CASE tick' = NoTick
    BY <1>1, <1>3, <2>1 DEF TickRunning, NoTick
  <2>2. CASE tick' # NoTick
    <3>1. PICK j \in tick.todo : IF j \in inflight THEN tick' = [tick EXCEPT !.todo = @ \ {j}]
                                 ELSE tick' = [pc |-> "due", todo |-> tick.todo \ {j}, job |-> j]
      BY <1>3, <2>2 DEF TickRunning
    <3>2. tick.pc = "running"
      BY <1>3 DEF TickRunning
    <3>3. tick'.pc \in {"due", "spawn"} => tick'.job \notin inflight
      <4>1. CASE j \in inflight
        <5>1. tick'.pc = "running"
          BY <1>0, <3>1, <3>2, <4>1 DEF TypeOK
        <5> QED BY <5>1
      <4>2. CASE j \notin inflight
        BY <3>1, <4>2
      <4> QED BY <4>1, <4>2
    <3> QED BY <1>1, <1>3, <3>2, <3>3 DEF TickRunning
  <2> QED BY <2>1, <2>2
<1>4. CASE TickDue
  <2>0. tick.pc = "due" /\ inflight' = inflight
    BY <1>4 DEF TickDue
  <2>1. CASE runs' = runs /\ tick' = [tick EXCEPT !.pc = "running", !.job = AdHoc]
    <3>1. tick'.pc = "running"
      BY <1>0, <2>1 DEF TypeOK
    <3> QED BY <1>1, <2>0, <2>1, <3>1
  <2>2. CASE tick' = [tick EXCEPT !.pc = "spawn"] /\ \E s \in Slots : CreateRun(s, tick.job)
    <3>1. tick'.pc = "spawn" /\ tick'.job = tick.job /\ tick.job \in Jobs
      BY <1>0, <2>0, <2>2 DEF TypeOK, TickSound
    <3> QED BY <2>0, <2>2, <3>1, OnceCreates
  <2> QED BY <1>4, <2>1, <2>2 DEF TickDue
<1> QED BY <1>2, <1>3, <1>4

(* Every step keeps it.                                                    *)
LEMMA StepOnce == OnceInv /\ [Next]_vars => OnceInv'
<1> SUFFICES ASSUME OnceInv, [Next]_vars PROVE OnceInv'
  OBVIOUS
<1>0. TypeInv' /\ TypeOK
  BY StepTypes DEF OnceInv, TypeInv
<1>1. ASSUME NEW s \in Slots, Launch(s) PROVE OnceInv'
  BY <1>0, <1>1, OnceLaunches
<1>2. ASSUME NEW s \in Slots,
             \/ LoadConfig(s) \/ LoadCursors(s) \/ Fetch(s) \/ WriteFiles(s) \/ MergeRead(s) \/ MergeCommit(s)
             \/ SaveCursor(s) \/ Complete(s) \/ FailStep(s)
      PROVE  OnceInv'
  <2>1. /\ InSet(runs[s]) /\ tick' = tick /\ inflight' = inflight
    BY <1>2 DEF LoadConfig, LoadCursors, Fetch, WriteFiles, MergeRead, MergeCommit, SaveCursor, Complete, FailStep,
       At, InSet
  <2>2. PICK r : Moves(s, r) /\ r.job = runs[s].job /\ r.pc \notin {"idle", "insert", "fail"}
    <3>1. CASE LoadConfig(s) \/ Complete(s) \/ FailStep(s)
      <4>1. PICK pc \in Steps \ {"idle", "insert", "fail"} : Go(s, pc)
        BY <3>1 DEF LoadConfig, Complete, FailStep, Error, Steps
      <4> QED BY <1>0, <4>1, Goes
    <3> QED BY <1>0, <1>2, <3>1, LoadCursorsDoes, FetchDoes, WriteFilesDoes, MergeReadDoes, MergeCommitDoes,
            SaveCursorDoes
  <2> QED BY <1>0, <2>1, <2>2, OnceMoves DEF InSet
<1>3. ASSUME NEW s \in Slots, Release(s) \/ MarkFailed(s) PROVE OnceInv'
  <2>1. PICK r : Moves(s, r) /\ r.pc \in {"idle", "fail"}
    BY <1>0, <1>3, Goes, Ends, IdleRun DEF Release, MarkFailed, Steps
  <2>2. tick' = tick
        /\ \/ inflight' = inflight
           \/ s \in Executing /\ runs[s].pc # "insert" /\ inflight' = inflight \ {runs[s].job}
    BY <1>3 DEF Release, MarkFailed, Executing, Active
  <2> QED BY <1>0, <2>1, <2>2, OnceEnds
<1>4. ASSUME NEW s \in Slots, TriggerConnectorRun(s) PROVE OnceInv'
  BY <1>0, <1>4, OnceCreates DEF TriggerConnectorRun
<1>5. CASE TickList \/ TickRunning \/ TickDue
  BY <1>0, <1>5, OnceTick
<1>6. CASE \/ \E e \in Endpoints : Publish(e)
           \/ IntervalElapses
           \/ \E on \in BOOLEAN : Schedule(on)
           \/ \E j \in Jobs : DeleteJob(j)
           \/ DeleteConfig \/ DeleteData \/ DeleteOutput \/ DeletionFails \/ UNCHANGED vars
  <2>1. UNCHANGED <<runs, inflight, tick>>
    BY <1>6 DEF Publish, IntervalElapses, Schedule, DeleteJob, DeleteConfig, DeleteData, DeleteOutput, DeletionFails, vars
  <2>2. Executing' = Executing
    BY <2>1 DEF Executing, Active
  <2> QED BY <1>0, <2>1, <2>2 DEF OnceInv, JobRunsOnce
<1>7. CASE Restart
  <2>1. Executing' = {} /\ tick'.pc = "idle"
    BY <1>7, IdleRun DEF Restart, Executing, Active, NoTick
  <2> QED BY <1>0, <2>1 DEF OnceInv, JobRunsOnce
<1> QED BY <1>1, <1>2, <1>3, <1>4, <1>5, <1>6, <1>7 DEF Next, RunStep

(* JobRunsOnce always holds: the tick never spawns a job that still runs,  *)
(* whatever fails, is edited, deleted or restarted.                        *)
THEOREM OneRunPerJob == Spec => []JobRunsOnce
<1>1. OnceInv => JobRunsOnce
  BY DEF OnceInv
<1> QED BY <1>1, InitOnce, StepOnce, PTL DEF Spec

-----------------------------------------------------------------------------
(* What was deleted.                                                       *)
LEMMA InitDeleted == Init => DeletedInv
BY InitTypes DEF Init, DeletedInv

(* Nothing runs, so only the deletion itself and a restart do anything.    *)
LEMMA StepDeleted == DeletedInv /\ [Next]_vars => DeletedInv'
<1> SUFFICES ASSUME DeletedInv, [Next]_vars PROVE DeletedInv'
  OBVIOUS
<1> USE DEF DeletedInv
<1>0. TypeInv' /\ TypeOK
  BY StepTypes DEF TypeInv
<1>1. ASSUME NEW s \in Slots, RunStep(s) \/ FailStep(s) PROVE DeletedInv'
  <2>1. s \in Active
    BY <1>1 DEF RunStep, Launch, LoadConfig, LoadCursors, Fetch, WriteFiles, MergeRead, MergeCommit, SaveCursor,
       Complete, Release, MarkFailed, FailStep, At, Active
  <2>2. UNCHANGED <<deletion, late, remnant>>
    BY <1>1 DEF RunStep, Launch, LoadConfig, LoadCursors, Fetch, WriteFiles, MergeRead, MergeCommit, SaveCursor,
       Complete, Release, MarkFailed, FailStep, history
  <2> QED BY <1>0, <2>1, <2>2
<1>2. CASE DeleteConfig
  <2>1. /\ UNCHANGED <<runs, remnant>> /\ deletion = "no" /\ deletion' = "config"
        /\ late' = (Active # {})
    BY <1>2 DEF DeleteConfig
  <2> QED BY <1>0, <2>1 DEF Active
<1>3. ASSUME NEW s \in Slots, TriggerConnectorRun(s) PROVE DeletedInv'
  BY <1>0, <1>3 DEF TriggerConnectorRun, ConfigExists
<1>4. CASE TickDue
  <2>1. UNCHANGED <<table, output, deletion, late, remnant>>
    BY <1>4 DEF TickDue
  <2>2. deletion # "no" => UNCHANGED runs
    BY <1>4, <2>1 DEF TickDue, ConfigExists
  <2> QED BY <1>0, <2>1, <2>2 DEF Active
<1>5. CASE DeleteData \/ DeleteOutput \/ DeletionFails
  <2>1. UNCHANGED <<runs, late>>
    BY <1>5 DEF DeleteData, DeleteOutput, DeletionFails, history
  <2>2. DeleteData \/ (DeletionFails /\ DeleteDataFails) =>
          /\ deletion = "config" /\ deletion' = "data"
          /\ table' = remnant'.table /\ remnant'.output = remnant.output
    BY <1>0 DEF DeleteData, DeleteDataFails, history, TypeOK
  <2>3. DeleteOutput \/ (DeletionFails /\ DeleteOutputFails) =>
          /\ deletion = "data" /\ deletion' = "done" /\ table' = table
          /\ output' = remnant'.output /\ remnant'.table = remnant.table
    BY <1>0 DEF DeleteOutput, DeleteOutputFails, history, TypeOK
  <2>4. CASE DeleteData \/ (DeletionFails /\ DeleteDataFails)
    BY <1>0, <2>1, <2>2, <2>4 DEF Active
  <2>5. CASE DeleteOutput \/ (DeletionFails /\ DeleteOutputFails)
    BY <1>0, <2>1, <2>3, <2>5 DEF Active
  <2> QED BY <1>5, <2>4, <2>5 DEF DeletionFails
<1>6. CASE \/ \E e \in Endpoints : Publish(e)
           \/ IntervalElapses \/ TickList \/ TickRunning
           \/ \E on \in BOOLEAN : Schedule(on)
           \/ \E j \in Jobs : DeleteJob(j)
           \/ UNCHANGED vars
  <2>1. UNCHANGED <<runs, table, output, deletion, late, remnant>>
    BY <1>6 DEF Publish, IntervalElapses, TickList, TickRunning, Schedule, DeleteJob, vars, history
  <2> QED BY <1>0, <2>1 DEF Active
<1>7. CASE Restart
  <2>1. (\A s \in Slots : runs'[s].pc = "idle") /\ UNCHANGED <<table, output, late, remnant>>
    BY <1>7, IdleRun DEF Restart, history
  <2>2. deletion' = IF deletion \in {"config", "data"} THEN "interrupted" ELSE deletion
    BY <1>7 DEF Restart
  <2> QED BY <1>0, <2>1, <2>2 DEF Active
<1> QED BY <1>1, <1>2, <1>3, <1>4, <1>5, <1>6, <1>7 DEF Next

(* DeletedStaysDeleted always holds: after a deletion no run overlapped,   *)
(* what its failed steps left stays and nothing else comes back.           *)
THEOREM DeletionIsLasting == Spec => []DeletedStaysDeleted
<1>1. DeletedInv => DeletedStaysDeleted
  BY DEF DeletedInv, DeletedStaysDeleted
<1> QED BY <1>1, InitDeleted, StepDeleted, PTL DEF Spec

-----------------------------------------------------------------------------
(* Cursors.  A step of the run under way, when it is the only one.         *)
LEMMA CursorStep ==
    ASSUME CursorInv, TypeInv', NEW s \in Slots, NEW r, Moves(s, r), s \in Executing,
           UNCHANGED <<published, overlap, deletion>>,
           \A e \in Endpoints : r.from[e] <= published[e] /\ r.got[e] <= published[e],
           \A e \in Endpoints : cursor'[e] <= published[e],
           deletion # "no" => cursor' = cursor,
           ~overlap => \A e \in Endpoints : 1..cursor'[e] \subseteq table'[e],
           (~overlap /\ deletion = "no") => AtEndpoint(r)' /\ \A e \in Endpoints : Continues(r, e)'
    PROVE  CursorInv'
<1>0. TypeOK
  BY DEF CursorInv, TypeInv
<1>1. runs'[s] = r /\ \A o \in Slots : o # s => runs'[o] = runs[o]
  BY <1>0, MovesOne
<1>2. \A o \in Executing' : o = s \/ o \in Executing
  BY <1>1 DEF Executing, Active
<1>3. \A o \in Slots, e \in Endpoints : runs'[o].from[e] <= published'[e] /\ runs'[o].got[e] <= published'[e]
  BY <1>1 DEF CursorInv
<1>4. ~overlap => \A o \in Executing' : o = s
  BY <1>2 DEF CursorInv
<1>5. ~overlap' /\ deletion' = "no" => \A o \in Executing' :
          AtEndpoint(runs[o])' /\ \A e \in Endpoints : Continues(runs[o], e)'
  BY <1>1, <1>4 DEF AtEndpoint, Continues, Unsaved
<1> QED BY <1>3, <1>4, <1>5 DEF CursorInv, CursorCovered

(* A step out of, or before, the pipeline.                                 *)
LEMMA CursorAway ==
    ASSUME CursorInv, TypeInv', NEW s \in Slots, NEW r, Moves(s, r), s \in Executing, r.pc \notin Syncing,
           r.from = runs[s].from \/ \A e \in Endpoints : r.from[e] = 0,
           r.got = runs[s].got \/ \A e \in Endpoints : r.got[e] = 0,
           UNCHANGED <<published, cursor, table, overlap, deletion>>
    PROVE  CursorInv'
<1>1. \A e \in Endpoints : published[e] >= 0
  BY SchedulerAssumption DEF CursorInv, TypeInv, TypeOK, Stamps
<1>2. AtEndpoint(r)' /\ \A e \in Endpoints : Continues(r, e)'
  BY DEF AtEndpoint, Continues, Unsaved, Syncing, Merging
<1>3. \A e \in Endpoints : r.from[e] <= published[e] /\ r.got[e] <= published[e]
  BY <1>1 DEF CursorInv
<1> QED BY <1>2, <1>3, CursorStep DEF CursorInv, CursorCovered

(* Numbers are numbers.                                                    *)
LEMMA StampsAre ==
    ASSUME TypeOK, NEW s \in Slots, NEW e \in Endpoints
    PROVE  /\ runs[s] \in Run /\ cursor[e] \in Nat /\ published[e] \in Nat /\ runs[s].from[e] \in Nat
           /\ runs[s].got[e] \in Nat /\ runs[s].at \in Nat /\ e \in Nat /\ e >= 1
<1>1. EndpointCount \in Nat /\ MaxRecords \in Nat
  BY SchedulerAssumption
<1>2. e \in Nat /\ e >= 1
  BY <1>1 DEF Endpoints
<1>3. /\ cursor[e] \in 0..MaxRecords /\ published[e] \in 0..MaxRecords /\ runs[s] \in Run
  BY DEF TypeOK, Stamps
<1>4. /\ runs[s].from[e] \in 0..MaxRecords /\ runs[s].got[e] \in 0..MaxRecords /\ runs[s].at \in Nat
  BY <1>3 DEF Run, Stamps
<1> QED BY <1>1, <1>2, <1>3, <1>4

(* load_cursors takes the saved ones.                                      *)
LEMMA CursorReads == ASSUME CursorInv, TypeInv', NEW s \in Slots, LoadCursors(s) PROVE CursorInv'
<1>0. TypeOK /\ s \in Executing
  BY DEF CursorInv, TypeInv, LoadCursors, At, Executing, Active
<1>1. PICK r : Moves(s, r) /\ r.pc = "fetch" /\ r.from = cursor /\ r.got = runs[s].got
  BY <1>0, LoadCursorsDoes
<1>2. UNCHANGED <<published, cursor, table, output, overlap, deletion>>
  BY DEF LoadCursors, database, history
<1>3. AtEndpoint(r)' /\ \A e \in Endpoints : Continues(r, e)'
  BY <1>1, <1>2 DEF AtEndpoint, Continues
<1> QED BY <1>0, <1>1, <1>2, <1>3, CursorStep DEF CursorInv, CursorCovered

(* What is fetched goes on from there.                                     *)
LEMMA CursorFetches == ASSUME CursorInv, TypeInv', NEW s \in Slots, Fetch(s) PROVE CursorInv'
<1>0. TypeOK /\ s \in Executing /\ runs[s].pc = "fetch"
  BY DEF CursorInv, TypeInv, Fetch, At, Executing, Active
<1>1. PICK r : /\ Moves(s, r) /\ r.pc = "files" /\ r.from = runs[s].from
               /\ \A e \in Endpoints :
                     /\ r.got[e] \in {0, published[e]}
                     /\ r.got[e] # 0 => r.fetched[e] # {}
                     /\ (r.from[e] + 1)..published[e] \subseteq r.fetched[e]
  BY <1>0, FetchDoes
<1>2. UNCHANGED <<published, cursor, table, output, overlap, deletion>>
  BY DEF Fetch, database, history
<1>3. \A e \in Endpoints : r.from[e] <= published[e] /\ r.got[e] <= published[e]
  BY <1>0, <1>1, StampsAre DEF CursorInv
<1>4. ASSUME ~overlap, deletion = "no", NEW e \in Endpoints PROVE Continues(r, e)'
  <2>1. r.from[e] = cursor[e]
    BY <1>0, <1>1, <1>4 DEF CursorInv, Continues, Unsaved
  <2>2. r.got[e] # 0 => r.got[e] = published[e]
    BY <1>1
  <2> QED BY <1>1, <1>2, <1>3, <2>1, <2>2 DEF Continues, Merging
<1>5. AtEndpoint(r)'
  BY <1>1 DEF AtEndpoint
<1> QED BY <1>0, <1>1, <1>2, <1>3, <1>4, <1>5, CursorStep DEF CursorInv, CursorCovered

(* The files hold what was fetched.                                        *)
LEMMA CursorWrites == ASSUME CursorInv, TypeInv', NEW s \in Slots, WriteFiles(s) PROVE CursorInv'
<1>0. TypeOK /\ s \in Executing /\ runs[s].pc = "files"
  BY DEF CursorInv, TypeInv, WriteFiles, At, Executing, Active
<1>1. PICK r : /\ Moves(s, r) /\ r.pc = "merge" /\ r.from = runs[s].from /\ r.got = runs[s].got /\ r.at = 1
  BY <1>0, WriteFilesDoes
<1>2. UNCHANGED <<published, cursor, table, overlap, deletion>>
  BY DEF WriteFiles, database, history
<1>3. \A e \in Endpoints : runs[s].fetched[e] # {} => output'[e] = runs[s].fetched[e]
  BY <1>0, WriteFilesDoes
<1>4. ASSUME ~overlap, deletion = "no", NEW e \in Endpoints PROVE Continues(r, e)'
  <2>1. Continues(runs[s], e)
    BY <1>0, <1>4 DEF CursorInv
  <2> QED BY <1>0, <1>1, <1>2, <1>3, <2>1 DEF Continues, Unsaved, Merging
<1>5. AtEndpoint(r)'
  BY <1>1 DEF AtEndpoint
<1> QED BY <1>0, <1>1, <1>2, <1>4, <1>5, CursorStep DEF CursorInv, CursorCovered

(* merge_parquet reads table and file.                                     *)
LEMMA CursorMerges == ASSUME CursorInv, TypeInv', NEW s \in Slots, MergeRead(s) PROVE CursorInv'
<1>0. TypeOK /\ s \in Executing /\ runs[s].pc = "merge"
  BY DEF CursorInv, TypeInv, MergeRead, At, Executing, Active
<1>1. PICK r : /\ Moves(s, r) /\ r.from = runs[s].from /\ r.got = runs[s].got
               /\ \/ r.pc = "complete"
                  \/ r.pc = "merge" /\ r.at = runs[s].at + 1
                  \/ /\ r.pc = "commit" /\ r.at = runs[s].at /\ r.at \in Endpoints
                     /\ r.snap = table[r.at] /\ r.batch = output[r.at]
  BY <1>0, MergeReadDoes
<1>2. UNCHANGED <<published, cursor, table, output, overlap, deletion>>
  BY DEF MergeRead, database, history
<1>4. ASSUME ~overlap, deletion = "no", NEW e \in Endpoints PROVE Continues(r, e)'
  <2>1. Continues(runs[s], e)
    BY <1>0, <1>4 DEF CursorInv
  <2>2. Unsaved(r, e) => Unsaved(runs[s], e) /\ r.pc \in Merging
    BY <1>0, <1>1, StampsAre DEF Unsaved, Merging
  <2> QED BY <1>0, <1>1, <1>2, <2>1, <2>2 DEF Continues, Merging
<1>5. AtEndpoint(r)'
  BY <1>1, <1>2 DEF AtEndpoint
<1> QED BY <1>0, <1>1, <1>2, <1>4, <1>5, CursorStep DEF CursorInv, CursorCovered

(* It writes their union.                                                  *)
LEMMA CursorCommits == ASSUME CursorInv, TypeInv', NEW s \in Slots, MergeCommit(s) PROVE CursorInv'
<1>0. TypeOK /\ s \in Executing /\ runs[s].pc = "commit" /\ runs[s].at \in Endpoints
  BY DEF CursorInv, TypeInv, MergeCommit, At, Executing, Active
<1>1. PICK r : /\ Moves(s, r) /\ r.pc = "save" /\ r.at = runs[s].at
               /\ r.from = runs[s].from /\ r.got = runs[s].got
  BY <1>0, MergeCommitDoes
<1>2. /\ UNCHANGED <<published, cursor, output, overlap, deletion>>
      /\ table' = [table EXCEPT ![runs[s].at] = runs[s].snap \cup runs[s].batch]
  BY DEF MergeCommit, database, history
<1>3. ASSUME ~overlap, deletion = "no"
      PROVE  /\ AtEndpoint(r)'
             /\ \A e \in Endpoints : table[e] \subseteq table'[e] /\ Continues(r, e)'
  <2>1. runs[s].snap = table[runs[s].at] /\ runs[s].batch = output[runs[s].at]
    BY <1>0, <1>3 DEF CursorInv, AtEndpoint
  <2>2. \A e \in Endpoints : table[e] \subseteq table'[e]
    BY <1>0, <1>2, <2>1 DEF TypeOK
  <2>3. AtEndpoint(r)'
    BY <1>0, <1>1, <1>2, <2>1 DEF AtEndpoint, TypeOK
  <2>4. ASSUME NEW e \in Endpoints PROVE Continues(r, e)'
    <3>1. Continues(runs[s], e)
      BY <1>0, <1>3 DEF CursorInv
    <3> QED BY <1>0, <1>1, <1>2, <3>1 DEF Continues, Unsaved, Merging
  <2> QED BY <2>2, <2>3, <2>4
<1>4. ~overlap => \A e \in Endpoints : 1..cursor'[e] \subseteq table'[e]
  <2>1. CASE deletion = "no"
    BY <1>2, <1>3, <2>1 DEF CursorInv, CursorCovered
  <2>2. CASE deletion # "no"
    BY <1>2, <2>2 DEF CursorInv
  <2> QED BY <2>1, <2>2
<1> QED BY <1>0, <1>1, <1>2, <1>3, <1>4, CursorStep DEF CursorInv

(* The cursor moves to what the table holds by then.                       *)
LEMMA CursorSaves ==
    ASSUME CursorInv, TypeInv', NEW s \in Slots, SaveCursor(s)
    PROVE  CursorInv' /\ CursorNeverRegresses
<1> DEFINE e0 == runs[s].at
<1>0. TypeOK /\ s \in Executing /\ runs[s].pc = "save" /\ e0 \in Endpoints
  BY DEF CursorInv, TypeInv, SaveCursor, At, Executing, Active
<1>1. PICK r : /\ Moves(s, r) /\ r.from = runs[s].from /\ r.got = runs[s].got
               /\ \/ /\ deletion = "no" /\ r.pc = "merge" /\ r.at = e0 + 1
                     /\ cursor' = [cursor EXCEPT ![e0] = IF runs[s].got[e0] = 0 THEN @ ELSE runs[s].got[e0]]
                  \/ deletion # "no" /\ r.pc = "releaseFailed" /\ cursor' = cursor
  BY <1>0, SaveCursorDoes
<1>2. UNCHANGED <<published, table, output, overlap, deletion>>
  BY DEF SaveCursor, history
<1>3. CASE deletion # "no"
  <2>1. CursorInv'
    BY <1>0, <1>1, <1>2, <1>3, CursorAway DEF Syncing, Merging
  <2> QED BY <1>2, <1>3, <2>1 DEF CursorNeverRegresses
<1>4. CASE deletion = "no"
  <2>0. cursor \in [Endpoints -> Stamps]
    BY <1>0 DEF TypeOK
  <2>1. /\ cursor'[e0] = (IF runs[s].got[e0] = 0 THEN cursor[e0] ELSE runs[s].got[e0])
        /\ \A e \in Endpoints : e # e0 => cursor'[e] = cursor[e]
    BY <1>0, <1>1, <1>4, <2>0
  <2>2. \A e \in Endpoints : cursor'[e] <= published[e]
    BY <1>0, <2>1 DEF CursorInv
  <2>3. ASSUME ~overlap
        PROVE  /\ AtEndpoint(runs[s]) /\ Continues(runs[s], e0) /\ CursorCovered
               /\ \A e \in Endpoints : Continues(runs[s], e)
    BY <1>0, <1>4, <2>3 DEF CursorInv
  <2>4. ASSUME ~overlap, runs[s].got[e0] # 0
        PROVE  /\ runs[s].got[e0] >= cursor[e0]
               /\ 1..runs[s].got[e0] \subseteq table[e0]
    <3>1. Unsaved(runs[s], e0)
      BY <1>0, StampsAre DEF Unsaved, Merging
    <3>2. /\ runs[s].from[e0] = cursor[e0] /\ runs[s].got[e0] >= cursor[e0]
          /\ (cursor[e0] + 1)..runs[s].got[e0] \subseteq output[e0]
      BY <1>0, <2>3, <2>4, <3>1 DEF Continues, Merging
    <3>3. output[e0] \subseteq table[e0] /\ 1..cursor[e0] \subseteq table[e0]
      BY <1>0, <2>3, <2>4 DEF AtEndpoint, CursorCovered
    <3>4. cursor[e0] \in Nat /\ runs[s].got[e0] \in Nat
      BY <1>0, StampsAre
    <3>5. \A k \in 1..runs[s].got[e0] : k \in 1..cursor[e0] \/ k \in (cursor[e0] + 1)..runs[s].got[e0]
      BY <3>4
    <3> QED BY <3>2, <3>3, <3>5
  <2>5. ~overlap => \A e \in Endpoints : 1..cursor'[e] \subseteq table'[e]
    BY <1>2, <2>1, <2>3, <2>4 DEF CursorCovered
  <2>6. ASSUME ~overlap, NEW e \in Endpoints PROVE Continues(r, e)'
    <3>1. Continues(runs[s], e)
      BY <2>3, <2>6
    <3>2. Unsaved(r, e) => e # e0 /\ Unsaved(runs[s], e) /\ r.pc = "merge"
      BY <1>0, <1>1, <1>4, StampsAre DEF Unsaved, Merging
    <3> QED BY <1>0, <1>1, <1>2, <2>1, <3>1, <3>2 DEF Continues, Merging
  <2>7. AtEndpoint(r)'
    BY <1>1, <1>4 DEF AtEndpoint
  <2>8. \A e \in Endpoints : r.from[e] <= published[e] /\ r.got[e] <= published[e]
    BY <1>1 DEF CursorInv
  <2>9. CursorInv'
    BY <1>0, <1>1, <1>2, <1>4, <2>2, <2>5, <2>6, <2>7, <2>8, CursorStep
  <2>10. ~overlap => \A e \in Endpoints : cursor'[e] >= cursor[e]
    BY <1>0, <2>1, <2>4, StampsAre
  <2> QED BY <2>9, <2>10 DEF CursorNeverRegresses
<1> QED BY <1>3, <1>4

(* The steps of a run outside the pipeline.                                *)
LEMMA CursorLeaves ==
    ASSUME CursorInv, TypeInv', NEW s \in Slots,
           \/ Launch(s) \/ LoadConfig(s) \/ Complete(s) \/ FailStep(s) \/ Release(s)
    PROVE  CursorInv'
<1>0. TypeOK /\ s \in Executing
  BY DEF CursorInv, TypeInv, Launch, LoadConfig, Complete, FailStep, Release, At, Executing, Active
<1>1. PICK r : /\ Moves(s, r) /\ r.pc \notin Syncing
               /\ r.from = runs[s].from \/ \A e \in Endpoints : r.from[e] = 0
               /\ r.got = runs[s].got \/ \A e \in Endpoints : r.got[e] = 0
  <2>1. Set(s, Idle) \/ \E pc \in Steps \ Syncing : Go(s, pc)
    BY DEF Launch, LoadConfig, Complete, FailStep, Release, Error, Steps, Syncing, Merging
  <2>2. CASE Set(s, Idle)
    BY <2>2, Ends, IdleRun DEF Syncing, Merging
  <2>3. CASE \E pc \in Steps \ Syncing : Go(s, pc)
    BY <1>0, <2>3, Goes
  <2> QED BY <2>1, <2>2, <2>3
<1>2. UNCHANGED <<published, cursor, table, overlap, deletion>>
  BY DEF Launch, LoadConfig, Complete, FailStep, Release, database, history
<1> QED BY <1>0, <1>1, <1>2, CursorAway

(* A second run is an overlap, and the first knows nothing yet.            *)
LEMMA CursorCreates ==
    ASSUME CursorInv, TypeInv', NEW s \in Slots, NEW job \in Jobs \cup {AdHoc}, CreateRun(s, job),
           UNCHANGED <<published, cursor, table, deletion>>
    PROVE  CursorInv'
<1>0. TypeOK /\ MaxRecords \in Nat
  BY SchedulerAssumption DEF CursorInv, TypeInv
<1>1. PICK r : Moves(s, r) /\ r.pc = "insert" /\ \A e \in Endpoints : r.from[e] = 0 /\ r.got[e] = 0
  BY <1>0, CreateDoes
<1>2. runs[s].pc = "idle" /\ overlap' = (overlap \/ Executing # {})
  BY <1>0, CreateDoes
<1>3. runs'[s] = r /\ \A o \in Slots : o # s => runs'[o] = runs[o]
  BY <1>0, <1>1, MovesOne
<1>4. ~overlap' => ~overlap /\ \A o \in Executing' : o = s
  BY <1>2, <1>3 DEF Executing, Active
<1>5. \A o \in Slots, e \in Endpoints : runs'[o].from[e] <= published'[e] /\ runs'[o].got[e] <= published'[e]
  <2>1. \A e \in Endpoints : published[e] >= 0
    BY <1>0 DEF TypeOK, Stamps
  <2> QED BY <1>1, <1>3, <2>1 DEF CursorInv
<1>6. ~overlap' => \A o \in Executing' : AtEndpoint(runs[o])' /\ \A e \in Endpoints : Continues(runs[o], e)'
  BY <1>1, <1>3, <1>4 DEF AtEndpoint, Continues, Unsaved, Merging
<1> QED BY <1>4, <1>5, <1>6 DEF CursorInv, CursorCovered

(* Steps that leave executions alone, or only end one.                     *)
LEMMA CursorOthers ==
    ASSUME CursorInv, TypeInv',
           \/ \E s \in Slots : MarkFailed(s)
           \/ \E e \in Endpoints : Publish(e)
           \/ IntervalElapses \/ TickList \/ TickRunning
           \/ \E on \in BOOLEAN : Schedule(on)
           \/ \E j \in Jobs : DeleteJob(j)
           \/ DeleteConfig \/ DeleteData \/ DeleteOutput \/ DeletionFails \/ Restart \/ UNCHANGED vars
    PROVE  CursorInv' /\ CursorNeverRegresses
<1>0. TypeOK /\ \A e \in Endpoints : cursor[e] \in Nat /\ published[e] \in Nat
  BY SchedulerAssumption DEF CursorInv, TypeInv, TypeOK, Stamps
<1>1. ASSUME NEW s \in Slots, MarkFailed(s) PROVE CursorInv' /\ CursorNeverRegresses
  <2>1. Moves(s, Idle) /\ runs[s].pc = "fail" /\ Idle.pc = "idle"
        /\ \A e \in Endpoints : Idle.from[e] = 0 /\ Idle.got[e] = 0
    BY <1>1, Ends, IdleRun DEF MarkFailed, At
  <2>2. runs'[s] = Idle /\ \A o \in Slots : o # s => runs'[o] = runs[o]
    BY <1>0, <2>1, MovesOne
  <2>3. \A o \in Executing' : o \in Executing /\ runs'[o] = runs[o]
    BY <2>1, <2>2 DEF Executing, Active
  <2>4. UNCHANGED <<published, cursor, table, output, deletion, overlap>>
    BY <1>1 DEF MarkFailed, history
  <2>5. \A o \in Slots, e \in Endpoints : runs'[o].from[e] <= published'[e] /\ runs'[o].got[e] <= published'[e]
    BY <1>0, <2>1, <2>2, <2>4 DEF CursorInv
  <2>6. ~overlap' /\ deletion' = "no" => \A o \in Executing' :
          AtEndpoint(runs[o])' /\ \A e \in Endpoints : Continues(runs[o], e)'
    BY <2>3, <2>4 DEF CursorInv, AtEndpoint, Continues, Unsaved
  <2>7. CursorInv'
    BY <2>3, <2>4, <2>5, <2>6 DEF CursorInv, CursorCovered
  <2> QED BY <1>0, <2>4, <2>7 DEF CursorNeverRegresses
<1>2. CASE runs' = runs /\ UNCHANGED <<cursor, table, output, deletion, overlap>>
           /\ \A e \in Endpoints : published'[e] >= published[e]
  <2>1. Executing' = Executing
    BY <1>2 DEF Executing, Active
  <2>2. \A s \in Slots, e \in Endpoints : runs[s].from[e] \in Nat /\ runs[s].got[e] \in Nat
    BY <1>0, StampsAre
  <2>3. \A e \in Endpoints : published'[e] \in Nat
    BY SchedulerAssumption DEF TypeInv, TypeOK, Stamps
  <2>4. \A s \in Slots, e \in Endpoints : runs[s].from[e] <= published'[e] /\ runs[s].got[e] <= published'[e]
                                          /\ cursor[e] <= published'[e]
    BY <1>0, <1>2, <2>2, <2>3 DEF CursorInv
  <2>5. \A e \in Endpoints : cursor[e] <= published'[e]
    BY <1>0, <1>2, <2>3 DEF CursorInv
  <2>6. CursorInv'
    BY <1>2, <2>1, <2>4, <2>5 DEF CursorInv, CursorCovered, AtEndpoint, Continues, Unsaved
  <2> QED BY <1>0, <1>2, <2>6 DEF CursorNeverRegresses
<1>3. ASSUME NEW e \in Endpoints, Publish(e) PROVE CursorInv' /\ CursorNeverRegresses
  <2>1. /\ UNCHANGED <<runs, cursor, table, output, deletion, overlap>>
        /\ \A f \in Endpoints : published'[f] >= published[f]
    BY <1>0, <1>3 DEF Publish, database, history, TypeOK
  <2> QED BY <1>2, <2>1
<1>4. CASE \/ IntervalElapses \/ TickList \/ TickRunning
           \/ \E on \in BOOLEAN : Schedule(on)
           \/ \E j \in Jobs : DeleteJob(j)
           \/ UNCHANGED vars
  <2>1. UNCHANGED <<runs, cursor, table, output, deletion, overlap, published>>
    BY <1>4 DEF IntervalElapses, TickList, TickRunning, Schedule, DeleteJob, vars, database, history
  <2> QED BY <1>0, <1>2, <2>1
<1>5. CASE DeleteConfig \/ DeleteData \/ DeleteOutput \/ DeletionFails
  <2>1. runs' = runs /\ published' = published /\ overlap' = overlap /\ deletion' # "no"
    BY <1>5 DEF DeleteConfig, DeleteData, DeleteOutput, DeletionFails, DeleteDataFails, DeleteOutputFails, history
  <2>2. \A e \in Endpoints : cursor'[e] = 0
    BY <1>5 DEF DeleteConfig, DeleteData, DeleteOutput, DeletionFails, DeleteDataFails, DeleteOutputFails,
       database, CursorInv
  <2>3. Executing' = Executing
    BY <2>1 DEF Executing, Active
  <2>4. CursorInv'
    BY <1>0, <2>1, <2>2, <2>3 DEF CursorInv, CursorCovered
  <2> QED BY <2>1, <2>4 DEF CursorNeverRegresses
<1>6. CASE Restart
  <2>1. /\ \A s \in Slots : runs'[s] = Idle
        /\ UNCHANGED <<published, cursor, table, output, overlap>>
        /\ deletion' = "no" <=> deletion = "no"
    BY <1>6 DEF Restart, history
  <2>2. Executing' = {}
    BY <2>1, IdleRun DEF Executing, Active
  <2>3. \A s \in Slots, e \in Endpoints : runs'[s].from[e] <= published'[e] /\ runs'[s].got[e] <= published'[e]
    BY <1>0, <2>1, IdleRun
  <2>4. CursorInv'
    BY <2>1, <2>2, <2>3 DEF CursorInv, CursorCovered
  <2> QED BY <1>0, <2>1, <2>4 DEF CursorNeverRegresses
<1> QED BY <1>1, <1>3, <1>4, <1>5, <1>6

(* No cursor at the start.                                                 *)
LEMMA InitCursor == Init => CursorInv
<1> SUFFICES ASSUME Init PROVE CursorInv
  OBVIOUS
<1>1. Executing = {} /\ \A s \in Slots : runs[s] = Idle
  BY IdleRun DEF Init, Executing, Active
<1>2. \A e \in Endpoints : cursor[e] = 0 /\ published[e] = 0
  BY DEF Init
<1> QED BY <1>1, <1>2, InitTypes, IdleRun DEF CursorInv, CursorCovered, Init

(* Every step keeps it, and no cursor moves back.                          *)
LEMMA StepCursor == CursorInv /\ [Next]_vars => CursorInv' /\ CursorNeverRegresses
<1> SUFFICES ASSUME CursorInv, [Next]_vars PROVE CursorInv' /\ CursorNeverRegresses
  OBVIOUS
<1>0. TypeInv' /\ TypeOK /\ TickSound /\ \A e \in Endpoints : cursor[e] \in Nat
  BY StepTypes, SchedulerAssumption DEF CursorInv, TypeInv, TypeOK, Stamps
<1>1. cursor' = cursor => CursorNeverRegresses
  BY <1>0 DEF CursorNeverRegresses
<1>2. ASSUME NEW s \in Slots, RunStep(s) \/ FailStep(s) PROVE CursorInv' /\ CursorNeverRegresses
  <2>1. CASE SaveCursor(s)
    BY <1>0, <2>1, CursorSaves
  <2>2. CASE MarkFailed(s)
    BY <1>0, <2>2, CursorOthers
  <2>3. CASE \/ Launch(s) \/ LoadConfig(s) \/ LoadCursors(s) \/ Fetch(s) \/ WriteFiles(s) \/ MergeRead(s)
             \/ MergeCommit(s) \/ Complete(s) \/ Release(s) \/ FailStep(s)
    <3>1. cursor' = cursor
      BY <2>3 DEF Launch, LoadConfig, LoadCursors, Fetch, WriteFiles, MergeRead, MergeCommit, Complete, Release,
         FailStep, database
    <3> QED BY <1>0, <1>1, <2>3, <3>1, CursorReads, CursorFetches, CursorWrites, CursorMerges, CursorCommits,
            CursorLeaves
  <2> QED BY <1>2, <2>1, <2>2, <2>3 DEF RunStep
<1>3. ASSUME NEW s \in Slots, TriggerConnectorRun(s) PROVE CursorInv' /\ CursorNeverRegresses
  <2>1. CreateRun(s, AdHoc) /\ UNCHANGED <<published, cursor, table, deletion>>
    BY <1>3 DEF TriggerConnectorRun
  <2> QED BY <1>0, <1>1, <2>1, CursorCreates
<1>4. CASE TickDue
  <2>0. UNCHANGED <<published, cursor, table, output, deletion>>
    BY <1>4 DEF TickDue
  <2>1. CASE UNCHANGED <<runs, overlap>>
    <3>1. Executing' = Executing
      BY <2>1 DEF Executing, Active
    <3> QED BY <1>0, <1>1, <2>0, <2>1, <3>1 DEF CursorInv, CursorCovered, AtEndpoint, Continues, Unsaved
  <2>2. CASE \E s \in Slots : CreateRun(s, tick.job)
    <3>1. tick.job \in Jobs
      BY <1>0, <1>4 DEF TickDue, TickSound
    <3> QED BY <1>0, <1>1, <2>0, <2>2, <3>1, CursorCreates
  <2> QED BY <1>4, <2>1, <2>2 DEF TickDue
<1>5. CASE \/ \E e \in Endpoints : Publish(e)
           \/ IntervalElapses \/ TickList \/ TickRunning
           \/ \E on \in BOOLEAN : Schedule(on)
           \/ \E j \in Jobs : DeleteJob(j)
           \/ DeleteConfig \/ DeleteData \/ DeleteOutput \/ DeletionFails \/ Restart \/ UNCHANGED vars
  BY <1>0, <1>5, CursorOthers
<1> QED BY <1>2, <1>3, <1>4, <1>5 DEF Next

(* CursorSound holds of every step: while no two runs of the preset were   *)
(* under way at once, what is before a saved cursor is in the table, and   *)
(* the cursor does not move back.                                          *)
THEOREM CursorsHold == Spec => CursorSound
<1>1. CursorInv => CursorCovered
  BY DEF CursorInv, CursorCovered
<1>2. CursorInv /\ [Next]_vars => CursorInv' /\ [CursorCovered' /\ CursorNeverRegresses]_vars
  <2>1. CursorInv' => CursorCovered'
    BY <1>1, PTL
  <2> QED BY <2>1, StepCursor
<1> QED BY <1>2, InitCursor, PTL DEF Spec, CursorSound
=============================================================================
