------------------------------ MODULE Ingestion ------------------------------
(***************************************************************************)
(* The CSV ingestion pipeline (backend/ingestion/pipeline.py): runs of the *)
(* command line tool, concurrent, repeated and killed at will, load files  *)
(* through ClickHouse's tx_staging into tx_raw, with one INGEST_BATCH row  *)
(* in Postgres per file content.                                           *)
(*                                                                         *)
(* A file is its content: batch_key is its SHA-256, and as the row of a    *)
(* key is created once and never deleted, file, key and batch id are one.  *)
(* Its validated rows are inserted in chunks 1..Chunks[f].  ClickHouse     *)
(* runs the promotion statement on its own: the client may stop waiting    *)
(* (30 s) or die while the server goes on, and a failing INSERT ... SELECT *)
(* may leave some of its blocks behind.                                    *)
(***************************************************************************)
EXTENDS Naturals, FiniteSets

CONSTANTS
    Runs,      \* processes that run the tool, again and again
    Files,
    NoFile,
    Chunks,    \* Chunks[f]: insert_json_rows calls the file takes
    Malformed, \* files with a row the validator rejects
    OldChunks  \* chunks <<f, i>> whose transactions are past tx_staging's TTL

ASSUME IngestionConfig ==
    /\ NoFile \notin Files
    /\ Chunks \in [Files -> Nat]
    /\ Malformed \subseteq Files

VARIABLES
    status,    \* INGEST_BATCH.status of each file, "none" before the row exists
    rowCount,  \* INGEST_BATCH.row_count, in chunks
    staged,    \* chunks in tx_staging
    raw,       \* copies of each chunk in tx_raw
    promotion, \* the INSERT ... SELECT of each file at the server
    run        \* where each run stands

vars == <<status, rowCount, staged, raw, promotion, run>>

batch == <<status, rowCount>>
clickhouse == <<staged, raw, promotion>>

ChunksOf(f) == {f} \X (1..Chunks[f])

AllChunks == UNION {ChunksOf(f) : f \in Files}

\* A run: what it does next, its file, the chunk it inserts next, and the exit
\* code of the last run of this process.
Idle == [pc |-> "idle", file |-> NoFile, next |-> 1, exit |-> "none"]

File(r) == run[r].file
At(r, pc) == run[r].pc = pc
Goto(r, pc) == run' = [run EXCEPT ![r].pc = pc]
Exit(r, code) == run' = [run EXCEPT ![r].pc = "idle", ![r].exit = code]

Init ==
    /\ status = [f \in Files |-> "none"]
    /\ rowCount = [f \in Files |-> 0]
    /\ staged = {}
    /\ raw = [c \in AllChunks |-> 0]
    /\ promotion = [f \in Files |-> "none"]
    /\ run = [r \in Runs |-> Idle]
-----------------------------------------------------------------------------
Start(r) ==
    /\ At(r, "idle")
    /\ \E f \in Files :
          run' = [run EXCEPT ![r] = [Idle EXCEPT !.pc = "create", !.file = f]]
    /\ UNCHANGED <<batch, clickhouse>>

\* Mutant of CreateBatch: a batch that failed is tried again.
CreateBatchRetry(r) ==
    /\ At(r, "create") /\ status[File(r)] \in {"none", "failed"}
    /\ status' = [status EXCEPT ![File(r)] = "staging"] /\ Goto(r, "stage")
    /\ UNCHANGED <<rowCount, clickhouse>>

\* Mutant of CreateBatch: a batch in staging is taken over.
CreateBatchTakeOver(r) ==
    /\ At(r, "create") /\ status[File(r)] \in {"none", "staging"}
    /\ status' = [status EXCEPT ![File(r)] = "staging"] /\ Goto(r, "stage")
    /\ UNCHANGED <<rowCount, clickhouse>>

\* Mutant of CreateBatch: the row of a key is overwritten.
CreateBatchUpsert(r) ==
    /\ At(r, "create") /\ status[File(r)] \in {"none", "committed"}
    /\ status' = [status EXCEPT ![File(r)] = "staging"] /\ Goto(r, "stage")
    /\ UNCHANGED <<rowCount, clickhouse>>

\* create_batch.  Any error but a duplicate ends the run, also when it is only
\* the answer to the INSERT that is lost and the row is there.
CreateBatch(r) ==
    LET f == File(r) IN
    /\ At(r, "create")
    /\ \/ /\ status[f] = "none"
          /\ status' = [status EXCEPT ![f] = "staging"]
          /\ Goto(r, "stage") \/ Exit(r, "failure")
       \/ status[f] # "none" /\ Goto(r, "duplicate") /\ UNCHANGED status
       \/ Exit(r, "failure") /\ UNCHANGED status
    /\ UNCHANGED <<rowCount, clickhouse>>

\* get_by_key: the record found is the result; if the lookup fails the
\* duplicate error is raised again, which the tool takes for a success too.
ReportDuplicate(r) ==
    /\ At(r, "duplicate")
    /\ Exit(r, "success")
    /\ UNCHANGED <<batch, clickhouse>>

\* Mutant of Stage: one chunk too many.
StageOneMore(r) ==
    LET f == File(r)
        i == run[r].next
    IN
    /\ At(r, "stage")
    /\ \/ /\ i <= Chunks[f] + 1 /\ staged' = staged \cup {<<f, i>>}
          /\ run' = [run EXCEPT ![r].next = i + 1]
       \/ i > Chunks[f] + 1 /\ Goto(r, "promote") /\ UNCHANGED staged
    /\ UNCHANGED <<batch, raw, promotion>>

\* Mutant of Stage: the rows the validator rejects are skipped.
StageValidRows(r) ==
    LET f == File(r)
        i == run[r].next
    IN
    /\ At(r, "stage")
    /\ \/ /\ i <= Chunks[f] /\ staged' = staged \cup {<<f, i>>}
          /\ run' = [run EXCEPT ![r].next = i + 1]
       \/ i > Chunks[f] /\ Goto(r, "promote") /\ UNCHANGED staged
    /\ UNCHANGED <<batch, raw, promotion>>

\* Validation of the whole file, then insert_json_rows per chunk.
Stage(r) ==
    LET f == File(r)
        i == run[r].next
    IN
    /\ At(r, "stage")
    /\ \/ f \in Malformed /\ Goto(r, "fail") /\ UNCHANGED staged
       \/ /\ f \notin Malformed /\ i <= Chunks[f]
          /\ \/ /\ staged' = staged \cup {<<f, i>>}
                /\ run' = [run EXCEPT ![r].next = i + 1]
             \/ /\ Goto(r, "fail")
                /\ staged' \in {staged, staged \cup {<<f, i>>}}
       \/ f \notin Malformed /\ i > Chunks[f] /\ Goto(r, "promote") /\ UNCHANGED staged
    /\ UNCHANGED <<batch, raw, promotion>>

\* execute_statement(promote_sql) sends the statement, or cannot.
Promote(r) ==
    /\ At(r, "promote")
    /\ \/ /\ promotion' = [promotion EXCEPT ![File(r)] = "running"]
          /\ Goto(r, "promoting")
       \/ Goto(r, "fail") /\ UNCHANGED promotion
    /\ UNCHANGED <<batch, staged, raw>>

\* Mutant of Promoted: the statement is taken for done once it is sent.
PromotedEarly(r) ==
    /\ At(r, "promoting")
    /\ Goto(r, "commit")
    /\ UNCHANGED <<batch, clickhouse>>

\* The server has answered 200.
Promoted(r) ==
    /\ At(r, "promoting")
    /\ promotion[File(r)] = "done"
    /\ Goto(r, "commit")
    /\ UNCHANGED <<batch, clickhouse>>

\* The server has answered with an error, the connection broke, or the client
\* gave up waiting.
PromoteError(r) ==
    /\ At(r, "promoting")
    /\ Goto(r, "fail")
    /\ UNCHANGED <<batch, clickhouse>>

\* update_status(committed).  An error may come before or after the update.
Commit(r) ==
    LET f == File(r)
        applied == /\ status' = [status EXCEPT ![f] = "committed"]
                   /\ rowCount' = [rowCount EXCEPT ![f] = Chunks[f]]
    IN
    /\ At(r, "commit")
    /\ \/ applied /\ Exit(r, "success")
       \/ (applied \/ UNCHANGED batch) /\ Goto(r, "fail")
    /\ UNCHANGED clickhouse

\* The except branch: update_status(failed), whose own errors are logged only.
MarkFailed(r) ==
    LET f == File(r) IN
    /\ At(r, "fail")
    /\ \/ /\ status' = [status EXCEPT ![f] = "failed"]
          /\ rowCount' = [rowCount EXCEPT ![f] = 0]
       \/ UNCHANGED batch
    /\ Exit(r, "failure")
    /\ UNCHANGED clickhouse

Crash(r) ==
    /\ ~At(r, "idle")
    /\ Exit(r, "failure")
    /\ UNCHANGED <<batch, clickhouse>>
-----------------------------------------------------------------------------
Copied(part) == [c \in AllChunks |-> IF c \in part THEN raw[c] + 1 ELSE raw[c]]

\* The server finishes a promotion, or stops somewhere in it.
ServerCopies(f) ==
    LET selected == staged \cap ChunksOf(f) IN
    /\ promotion[f] = "running"
    /\ \/ raw' = Copied(selected) /\ promotion' = [promotion EXCEPT ![f] = "done"]
       \/ /\ \E part \in SUBSET selected : raw' = Copied(part)
          /\ promotion' = [promotion EXCEPT ![f] = "failed"]
    /\ UNCHANGED <<batch, staged, run>>

\* A background merge of tx_staging drops rows past TTL created_at + 7 days,
\* where created_at is the date of the transaction, not of the load.
Expire ==
    /\ \E c \in staged \cap OldChunks : staged' = staged \ {c}
    /\ UNCHANGED <<batch, raw, promotion, run>>

RunStep(r) ==
    \/ CreateBatch(r) \/ ReportDuplicate(r) \/ Stage(r)
    \/ Promote(r) \/ Promoted(r) \/ PromoteError(r)
    \/ Commit(r) \/ MarkFailed(r)

Next ==
    \/ \E r \in Runs : Start(r) \/ RunStep(r) \/ Crash(r)
    \/ \E f \in Files : ServerCopies(f)
    \/ Expire

Spec == Init /\ [][Next]_vars
-----------------------------------------------------------------------------
Working == {"stage", "promote", "promoting", "commit", "fail"}

RunStates == [pc : {"idle", "create", "duplicate"} \cup Working,
              file : Files \cup {NoFile}, next : Nat \ {0},
              exit : {"none", "success", "failure"}]

TypeOK ==
    /\ status \in [Files -> {"none", "staging", "committed", "failed"}]
    /\ rowCount \in [Files -> Nat]
    /\ staged \subseteq AllChunks
    /\ raw \in [AllChunks -> Nat]
    /\ promotion \in [Files -> {"none", "running", "done", "failed"}]
    /\ run \in [Runs -> RunStates]
    /\ \A r \in Runs : ~At(r, "idle") => File(r) \in Files

(***************************************************************************)
(* "Duplicate file rejected, rollups never double-count": no row of a file *)
(* reaches tx_raw twice, whatever runs load it at once or again, and       *)
(* whichever of them time out, fail or are killed on the way.              *)
(***************************************************************************)
NoDoubleCount == \A c \in AllChunks : raw[c] <= 1

(***************************************************************************)
(* A batch that is committed has all its rows in tx_raw, once, and counts  *)
(* them, if none of its transactions is past the TTL of tx_staging.        *)
(***************************************************************************)
Loaded(f) == rowCount[f] = Chunks[f] /\ \A c \in ChunksOf(f) : raw[c] = 1

CommittedIsLoaded ==
    \A f \in Files :
        status[f] = "committed" /\ ChunksOf(f) \cap OldChunks = {} => Loaded(f)

(***************************************************************************)
(* The unique key is a gate: of all the runs on a file at most one gets    *)
(* past create_batch, so the status a run writes is its own.               *)
(***************************************************************************)
OneWorkerPerFile ==
    \A r, s \in Runs :
        run[r].pc \in Working /\ run[s].pc \in Working /\ File(r) = File(s) => r = s

(***************************************************************************)
(* A committed batch whose run is over is settled for good: no late or     *)
(* repeated run works on the file again, or turns its loaded rows into a   *)
(* failed batch.                                                           *)
(***************************************************************************)
Settled(f) ==
    status[f] = "committed" /\ \A r \in Runs : run[r].pc \in Working => File(r) # f

CommittedIsFinal == [][\A f \in Files : Settled(f) => Settled(f)']_vars

\* A failed promotion is over too: nothing sends the statement again.
PromotionOver(f) == promotion[f] \in {"done", "failed"}

Once == INSTANCE LoadOnce WITH
    Valid <- Files \ Malformed,
    Kept <- {f \in Files : ChunksOf(f) \cap OldChunks = {}},
    Rows <- [f \in Files |-> ChunksOf(f)],
    outcome <- status,
    load <- [f \in Files |-> IF PromotionOver(f) THEN "over" ELSE "open"],
    copies <- raw

(***************************************************************************)
(* Seen from outside, whatever runs are started, killed and repeated, a    *)
(* file is loaded once at most, committed after that, given up for good,   *)
(* and kept out of tx_raw by a single invalid row.                         *)
(***************************************************************************)
ImplementsLoadOnce == Once!Spec
=============================================================================
