-------------------------- MODULE Ingestion_proofs --------------------------
(***************************************************************************)
(* Proofs about Ingestion, for any number of concurrent and repeated runs  *)
(* of the tool and any files.                                              *)
(***************************************************************************)
EXTENDS Ingestion, TLAPS

LEMMA ChunkFacts ==
    /\ \A f \in Files : ChunksOf(f) \subseteq AllChunks
    /\ \A f \in Files : \A i \in 1..Chunks[f] : <<f, i>> \in ChunksOf(f)
    /\ \A c \in AllChunks : c[1] \in Files /\ c \in ChunksOf(c[1])
    /\ \A f : \A c \in ChunksOf(f) : c[1] = f
  BY DEF ChunksOf, AllChunks

LEMMA CopiedType ==
    ASSUME raw \in [AllChunks -> Nat], NEW part
    PROVE  /\ Copied(part) \in [AllChunks -> Nat]
           /\ \A c \in AllChunks :
                 Copied(part)[c] = IF c \in part THEN raw[c] + 1 ELSE raw[c]
  BY DEF Copied

\* A step of one run leaves its file and the other runs as they are.
OnlyMoves(r) ==
    /\ run' \in [Runs -> RunStates]
    /\ run'[r].file = File(r)
    /\ \A s \in Runs \ {r} : run'[s] = run[s]

LEMMA GotoMoves ==
    ASSUME TypeOK, NEW r \in Runs, NEW pc \in {"duplicate"} \cup Working, Goto(r, pc)
    PROVE  OnlyMoves(r) /\ run'[r].pc = pc /\ run'[r].next = run[r].next
  <1>1. run[r] \in RunStates
    BY DEF TypeOK
  <1>2. run'[r] = [run[r] EXCEPT !.pc = pc]
    BY DEF Goto, TypeOK
  <1>3. run'[r] \in RunStates /\ run'[r].file = run[r].file
        /\ run'[r].pc = pc /\ run'[r].next = run[r].next
    BY <1>1, <1>2 DEF RunStates
  <1>. QED
    BY <1>3 DEF Goto, TypeOK, OnlyMoves, File

LEMMA ExitMoves ==
    ASSUME TypeOK, NEW r \in Runs, NEW code \in {"success", "failure"}, Exit(r, code)
    PROVE  OnlyMoves(r) /\ run'[r].pc = "idle"
  <1>1. run[r] \in RunStates
    BY DEF TypeOK
  <1>2. run'[r] = [run[r] EXCEPT !.pc = "idle", !.exit = code]
    BY DEF Exit, TypeOK
  <1>3. run'[r] \in RunStates /\ run'[r].file = run[r].file /\ run'[r].pc = "idle"
    BY <1>1, <1>2 DEF RunStates
  <1>. QED
    BY <1>3 DEF Exit, TypeOK, OnlyMoves, File

\* A run that starts has a file and nothing else.
LEMMA StartMoves ==
    ASSUME TypeOK, NEW r \in Runs, Start(r)
    PROVE  /\ run' \in [Runs -> RunStates]
           /\ run'[r].pc = "create" /\ run'[r].file \in Files
           /\ \A s \in Runs \ {r} : run'[s] = run[s]
  <1>1. PICK f \in Files :
           run' = [run EXCEPT ![r] = [Idle EXCEPT !.pc = "create", !.file = f]]
    BY DEF Start
  <1>2. Idle \in RunStates
    BY DEF Idle, RunStates
  <1>3. \A x \in RunStates :
           /\ [x EXCEPT !.pc = "create", !.file = f] \in RunStates
           /\ [x EXCEPT !.pc = "create", !.file = f].pc = "create"
           /\ [x EXCEPT !.pc = "create", !.file = f].file = f
    BY DEF RunStates
  <1>. QED
    BY <1>1, <1>2, <1>3 DEF TypeOK

\* Stage moves a run on by one chunk, or out of staging.
LEMMA StageMoves ==
    ASSUME TypeOK, NEW r \in Runs, Stage(r)
    PROVE  /\ OnlyMoves(r) /\ run'[r].pc \in {"stage", "promote", "fail"}
           /\ staged' \subseteq AllChunks
  <1>1. File(r) \in Files /\ run[r] \in RunStates /\ run[r].next \in Nat \ {0}
    <2>1. run[r] \in RunStates
      BY DEF TypeOK
    <2>2. run[r].next \in Nat \ {0}
      BY <2>1 DEF RunStates
    <2>. QED
      BY <2>1, <2>2 DEF TypeOK, Stage, At
  <1>2. ASSUME NEW pc \in {"promote", "fail"}, Goto(r, pc)
        PROVE  OnlyMoves(r) /\ run'[r].pc = pc
    BY <1>2, GotoMoves DEF Working
  <1>3. ASSUME run' = [run EXCEPT ![r].next = run[r].next + 1]
        PROVE  OnlyMoves(r) /\ run'[r].pc = "stage"
    <2>1. run'[r] = [run[r] EXCEPT !.next = run[r].next + 1]
      BY <1>3 DEF TypeOK
    <2>2. \A x \in RunStates, n \in Nat \ {0} :
             /\ [x EXCEPT !.next = n] \in RunStates
             /\ [x EXCEPT !.next = n].file = x.file
             /\ [x EXCEPT !.next = n].pc = x.pc
      BY DEF RunStates
    <2>3. run'[r] \in RunStates /\ run'[r].file = run[r].file /\ run'[r].pc = run[r].pc
      BY <1>1, <2>1, <2>2
    <2>4. run[r].pc = "stage"
      BY DEF Stage, At
    <2>5. run' \in [Runs -> RunStates] /\ \A s \in Runs \ {r} : run'[s] = run[s]
      BY <1>3, <2>3 DEF TypeOK
    <2>. QED
      BY <2>3, <2>4, <2>5 DEF OnlyMoves, File
  <1>4. run[r].next <= Chunks[File(r)] => <<File(r), run[r].next>> \in AllChunks
    BY <1>1, ChunkFacts, IngestionConfig
  <1>5. staged' \subseteq AllChunks
    BY <1>4 DEF Stage, TypeOK
  <1>. QED
    BY <1>2, <1>3, <1>5 DEF Stage
-----------------------------------------------------------------------------
LEMMA TypeInit == Init => TypeOK
  BY DEF Init, TypeOK, Idle, At, RunStates

LEMMA TypeStep == TypeOK /\ [Next]_vars => TypeOK'
  <1>. SUFFICES ASSUME TypeOK, [Next]_vars PROVE TypeOK'
    OBVIOUS
  <1>1. ASSUME NEW r \in Runs, OnlyMoves(r), ~At(r, "idle")
        PROVE  /\ run' \in [Runs -> RunStates]
               /\ \A s \in Runs : ~At(s, "idle")' => File(s)' \in Files
    BY <1>1 DEF OnlyMoves, TypeOK, At, File
  <1>2. ASSUME NEW r \in Runs, Start(r)
        PROVE  TypeOK'
    BY <1>2, StartMoves DEF Start, TypeOK, batch, clickhouse, At, File
  <1>3. ASSUME NEW r \in Runs, CreateBatch(r)
        PROVE  TypeOK'
    <2>1. OnlyMoves(r) /\ ~At(r, "idle")
      BY <1>3, GotoMoves, ExitMoves DEF CreateBatch, Working, At
    <2>. QED
      BY <1>1, <1>3, <2>1 DEF CreateBatch, TypeOK, clickhouse
  <1>4. ASSUME NEW r \in Runs, ReportDuplicate(r)
        PROVE  TypeOK'
    <2>1. OnlyMoves(r) /\ ~At(r, "idle")
      BY <1>4, ExitMoves DEF ReportDuplicate, At
    <2>. QED
      BY <1>1, <1>4, <2>1 DEF ReportDuplicate, TypeOK, batch, clickhouse
  <1>5. ASSUME NEW r \in Runs, Stage(r)
        PROVE  TypeOK'
    <2>1. OnlyMoves(r) /\ ~At(r, "idle") /\ staged' \subseteq AllChunks
      BY <1>5, StageMoves DEF Stage, At
    <2>. QED
      BY <1>1, <1>5, <2>1 DEF Stage, TypeOK, batch
  <1>6. ASSUME NEW r \in Runs, Promote(r)
        PROVE  TypeOK'
    <2>1. OnlyMoves(r) /\ ~At(r, "idle")
      BY <1>6, GotoMoves DEF Promote, Working, At
    <2>. QED
      BY <1>1, <1>6, <2>1 DEF Promote, TypeOK, batch
  <1>7. ASSUME NEW r \in Runs, Promoted(r) \/ PromoteError(r)
        PROVE  TypeOK'
    <2>1. OnlyMoves(r) /\ ~At(r, "idle")
      BY <1>7, GotoMoves DEF Promoted, PromoteError, Working, At
    <2>. QED
      BY <1>1, <1>7, <2>1 DEF Promoted, PromoteError, TypeOK, batch, clickhouse
  <1>8. ASSUME NEW r \in Runs, Commit(r) \/ MarkFailed(r)
        PROVE  TypeOK'
    <2>1. OnlyMoves(r) /\ ~At(r, "idle")
      BY <1>8, GotoMoves, ExitMoves DEF Commit, MarkFailed, Working, At
    <2>2. /\ status' \in [Files -> {"none", "staging", "committed", "failed"}]
          /\ rowCount' \in [Files -> Nat]
      <3>1. File(r) \in Files /\ Chunks[File(r)] \in Nat
        BY <2>1, IngestionConfig DEF TypeOK
      <3>. QED
        BY <1>8, <3>1 DEF Commit, MarkFailed, TypeOK, batch
    <2>. QED
      BY <1>1, <1>8, <2>1, <2>2 DEF Commit, MarkFailed, TypeOK, clickhouse
  <1>9. ASSUME NEW r \in Runs, Crash(r)
        PROVE  TypeOK'
    <2>1. OnlyMoves(r) /\ ~At(r, "idle")
      BY <1>9, ExitMoves DEF Crash
    <2>. QED
      BY <1>1, <1>9, <2>1 DEF Crash, TypeOK, batch, clickhouse
  <1>10. ASSUME NEW f \in Files, ServerCopies(f)
         PROVE  TypeOK'
    <2>1. raw' \in [AllChunks -> Nat]
      BY <1>10, CopiedType DEF ServerCopies, TypeOK
    <2>. QED
      BY <1>10, <2>1 DEF ServerCopies, TypeOK, batch, At, File
  <1>11. CASE Expire \/ UNCHANGED vars
    BY <1>11 DEF Expire, vars, TypeOK, batch, At, File
  <1>. QED
    BY <1>2, <1>3, <1>4, <1>5, <1>6, <1>7, <1>8, <1>9, <1>10, <1>11 DEF Next, RunStep

(***************************************************************************)
(* Every reachable state of the pipeline is well formed; in particular a   *)
(* run that is under way always has a file.                                *)
(***************************************************************************)
THEOREM TypeCorrect == Spec => []TypeOK
  BY TypeInit, TypeStep, PTL DEF Spec
-----------------------------------------------------------------------------
(***************************************************************************)
(* Why no row is loaded twice.  The unique key lets one run past           *)
(* create_batch and nothing ever deletes the row (Gate, OneWorkerPerFile), *)
(* so a run about to promote is the first to do so (Unpromoted), and what  *)
(* the server has not finished promoting has left nothing in tx_raw        *)
(* (RawFollows).                                                           *)
(***************************************************************************)
Gate == \A r \in Runs : run[r].pc \in Working => status[File(r)] # "none"

Unpromoted ==
    /\ \A f \in Files : status[f] = "none" => promotion[f] = "none"
    /\ \A r \in Runs : run[r].pc \in {"stage", "promote"} => promotion[File(r)] = "none"

RawFollows ==
    \A c \in AllChunks : promotion[c[1]] \in {"none", "running"} => raw[c] = 0

Inv == TypeOK /\ Gate /\ OneWorkerPerFile /\ Unpromoted /\ RawFollows /\ NoDoubleCount

LEMMA InvInit == Init => Inv
  <1>. SUFFICES ASSUME Init PROVE Inv
    OBVIOUS
  <1>1. \A r \in Runs : run[r].pc = "idle"
    BY DEF Init, Idle
  <1>2. Gate /\ OneWorkerPerFile /\ Unpromoted
    BY <1>1 DEF Init, Gate, OneWorkerPerFile, Unpromoted, Working
  <1>3. RawFollows /\ NoDoubleCount
    BY DEF Init, RawFollows, NoDoubleCount
  <1>. QED
    BY TypeInit, <1>2, <1>3 DEF Inv

\* The run that gets past create_batch is the only worker of its file, and
\* every other step of a run leaves the workers as they are or removes one.
LEMMA WorkersStep ==
    ASSUME Inv, NEW r \in Runs, Start(r) \/ RunStep(r) \/ Crash(r)
    PROVE  /\ \A s \in Runs \ {r} : run'[s] = run[s]
           /\ run'[r].pc \in Working =>
                 /\ File(r) \in Files /\ run'[r].file = File(r)
                 /\ \/ run[r].pc \in Working
                    \/ status[File(r)] = "none"
                 /\ run'[r].pc = "stage" =>
                       run[r].pc = "stage" \/ status[File(r)] = "none"
                 /\ run'[r].pc = "promote" => run[r].pc = "stage"
  <1>. USE DEF Inv
  <1>1. CASE Start(r)
    BY <1>1, StartMoves DEF Working
  <1>2. CASE CreateBatch(r)
    BY <1>2, GotoMoves, ExitMoves DEF CreateBatch, Working, OnlyMoves, TypeOK, At
  <1>3. CASE ReportDuplicate(r) \/ Crash(r)
    BY <1>3, ExitMoves DEF ReportDuplicate, Crash, Working, OnlyMoves
  <1>4. CASE Stage(r)
    BY <1>4, StageMoves DEF Stage, Working, OnlyMoves, TypeOK, At
  <1>5. CASE Promote(r) \/ Promoted(r) \/ PromoteError(r)
    BY <1>5, GotoMoves DEF Promote, Promoted, PromoteError, Working, OnlyMoves, TypeOK, At
  <1>6. CASE Commit(r) \/ MarkFailed(r)
    BY <1>6, GotoMoves, ExitMoves DEF Commit, MarkFailed, Working, OnlyMoves, TypeOK, At
  <1>. QED
    BY <1>1, <1>2, <1>3, <1>4, <1>5, <1>6 DEF RunStep

\* What a step of a run writes besides: the status only of its own file and
\* never back to "none", a promotion only from "promote", and nothing in raw.
LEMMA WritesStep ==
    ASSUME Inv, NEW r \in Runs, Start(r) \/ RunStep(r) \/ Crash(r)
    PROVE  /\ raw' = raw
           /\ \A f \in Files : status[f] # "none" => status'[f] # "none"
           /\ run'[r].pc \in Working => status'[File(r)] # "none"
           /\ \A f \in Files :
                 \/ status[f] = "none"
                 \/ run[r].pc \in Working /\ File(r) = f
                 \/ status'[f] = status[f]
           /\ \/ promotion' = promotion
              \/ /\ run[r].pc = "promote" /\ run'[r].pc = "promoting"
                 /\ promotion' = [promotion EXCEPT ![File(r)] = "running"]
  <1>. USE DEF Inv
  <1>0. ASSUME NEW f \in Files, status' = [status EXCEPT ![File(r)] = "committed"]
                             \/ status' = [status EXCEPT ![File(r)] = "failed"]
                             \/ status' = [status EXCEPT ![File(r)] = "staging"]
        PROVE  /\ status[f] # "none" => status'[f] # "none"
               /\ File(r) = f => status'[f] # "none"
               /\ File(r) # f => status'[f] = status[f]
    BY <1>0 DEF TypeOK
  <1>1. CASE Start(r)
    BY <1>1, StartMoves DEF Start, Working, batch, clickhouse
  <1>2. CASE CreateBatch(r)
    <2>1. File(r) \in Files
      BY <1>2 DEF CreateBatch, TypeOK, At
    <2>2. raw' = raw /\ promotion' = promotion
      BY <1>2 DEF CreateBatch, clickhouse
    <2>3. run'[r].pc \in Working => status' = [status EXCEPT ![File(r)] = "staging"]
      BY <1>2, GotoMoves, ExitMoves DEF CreateBatch, Working
    <2>4. \/ status' = status
          \/ /\ status[File(r)] = "none"
             /\ status' = [status EXCEPT ![File(r)] = "staging"]
      BY <1>2 DEF CreateBatch
    <2>. QED
      BY <1>0, <2>1, <2>2, <2>3, <2>4
  <1>3. CASE ReportDuplicate(r) \/ Crash(r)
    BY <1>3, ExitMoves DEF ReportDuplicate, Crash, Working, batch, clickhouse
  <1>4. CASE Stage(r)
    BY <1>4 DEF Stage, batch, Gate, Working, At
  <1>5. CASE Promote(r)
    <2>1. \/ Goto(r, "promoting") /\ promotion' = [promotion EXCEPT ![File(r)] = "running"]
          \/ Goto(r, "fail") /\ UNCHANGED promotion
      BY <1>5 DEF Promote
    <2>2. run'[r].pc = "promoting" \/ promotion' = promotion
      BY <2>1, GotoMoves DEF Working
    <2>. QED
      BY <1>5, <2>1, <2>2 DEF Promote, batch, Gate, Working, At
  <1>6. CASE Promoted(r) \/ PromoteError(r)
    BY <1>6 DEF Promoted, PromoteError, batch, clickhouse, Gate, Working, At
  <1>7. CASE Commit(r) \/ MarkFailed(r)
    <2>1. File(r) \in Files /\ status[File(r)] # "none"
      BY <1>7 DEF Commit, MarkFailed, TypeOK, At, Gate, Working
    <2>2. \/ status' = status
          \/ status' = [status EXCEPT ![File(r)] = "committed"]
          \/ status' = [status EXCEPT ![File(r)] = "failed"]
      BY <1>7 DEF Commit, MarkFailed, batch
    <2>3. raw' = raw /\ promotion' = promotion
      BY <1>7 DEF Commit, MarkFailed, clickhouse
    <2>4. run[r].pc \in Working
      BY <1>7 DEF Commit, MarkFailed, At, Working
    <2>. QED
      BY <1>0, <2>1, <2>2, <2>3, <2>4
  <1>. QED
    BY <1>1, <1>2, <1>3, <1>4, <1>5, <1>6, <1>7 DEF RunStep

LEMMA InvStep == Inv /\ [Next]_vars => Inv'
  <1>. SUFFICES ASSUME Inv, [Next]_vars PROVE Inv'
    OBVIOUS
  <1>0. TypeOK'
    BY TypeStep DEF Inv
  <1>. USE DEF Inv
  <1>1. ASSUME NEW r \in Runs, Start(r) \/ RunStep(r) \/ Crash(r)
        PROVE  Inv'
    <2>1. /\ \A s \in Runs \ {r} : run'[s] = run[s]
          /\ \A s \in Runs \ {r} : run[s].pc \in Working => File(s) \in Files
      BY <1>1, WorkersStep DEF TypeOK, At, Working
    <2>2. Gate'
      BY <1>1, <2>1, WorkersStep, WritesStep DEF Gate, File
    <2>3. OneWorkerPerFile'
      BY <1>1, <2>1, WorkersStep DEF OneWorkerPerFile, Gate, File
    <2>4. Unpromoted'
      <3>1. CASE promotion' = promotion
        BY <1>1, <2>1, <3>1, WorkersStep, WritesStep DEF Unpromoted, File, Working
      <3>2. CASE /\ run[r].pc = "promote" /\ run'[r].pc = "promoting"
                 /\ promotion' = [promotion EXCEPT ![File(r)] = "running"]
        <4>1. status[File(r)] # "none" /\ File(r) \in Files
          BY <3>2 DEF Gate, Working, TypeOK, At
        <4>2. \A s \in Runs \ {r} : run[s].pc \in {"stage", "promote"} => File(s) # File(r)
          BY <3>2 DEF OneWorkerPerFile, Working
        <4>3. \A f \in Files : f # File(r) => promotion'[f] = promotion[f]
          BY <3>2 DEF TypeOK
        <4>4. \A f \in Files : status'[f] = "none" => status[f] = "none"
          BY <1>1, WritesStep
        <4>. QED
          BY <2>1, <3>2, <4>1, <4>2, <4>3, <4>4 DEF Unpromoted, File, Working
      <3>. QED
        BY <1>1, <3>1, <3>2, WritesStep
    <2>5. RawFollows'
      <3>1. \A c \in AllChunks : promotion'[c[1]] \in {"none", "running"}
               => promotion[c[1]] \in {"none", "running"}
        <4>1. \A c \in AllChunks : c[1] \in Files
          BY ChunkFacts
        <4>2. run[r].pc = "promote" => promotion[File(r)] = "none"
          BY DEF Unpromoted
        <4>. QED
          BY <1>1, <4>1, <4>2, WritesStep DEF TypeOK
      <3>. QED
        BY <1>1, <3>1, WritesStep DEF RawFollows
    <2>6. NoDoubleCount'
      BY <1>1, WritesStep DEF NoDoubleCount
    <2>. QED
      BY <1>0, <2>2, <2>3, <2>4, <2>5, <2>6
  <1>2. ASSUME NEW f \in Files, ServerCopies(f)
        PROVE  Inv'
    <2>1. PICK part \in SUBSET ChunksOf(f) : raw' = Copied(part)
      BY <1>2 DEF ServerCopies
    <2>2. /\ promotion[f] = "running" /\ promotion'[f] \in {"done", "failed"}
          /\ \A g \in Files \ {f} : promotion'[g] = promotion[g]
      BY <1>2 DEF ServerCopies, TypeOK
    <2>3. \A c \in AllChunks : raw'[c] = IF c \in part THEN raw[c] + 1 ELSE raw[c]
      BY <2>1, CopiedType DEF TypeOK
    <2>4. \A c \in AllChunks : c[1] \in Files /\ (c \in part => c[1] = f)
      BY <2>1, ChunkFacts
    <2>5. \A c \in AllChunks : raw[c] \in Nat
      BY DEF TypeOK
    <2>6. RawFollows' /\ NoDoubleCount'
      BY <2>2, <2>3, <2>4, <2>5 DEF RawFollows, NoDoubleCount
    <2>7. status' = status /\ run' = run
      BY <1>2 DEF ServerCopies, batch
    <2>8. Gate' /\ OneWorkerPerFile'
      BY <2>7 DEF Gate, OneWorkerPerFile, File
    <2>9. Unpromoted'
      <3>1. status[f] # "none" /\ \A r \in Runs : run[r].pc \in {"stage", "promote"} =>
                                     File(r) # f /\ File(r) \in Files
        BY <2>2 DEF Unpromoted, TypeOK, At
      <3>. QED
        BY <2>2, <2>7, <3>1 DEF Unpromoted, File
    <2>. QED
      BY <1>0, <2>6, <2>8, <2>9
  <1>3. CASE Expire \/ UNCHANGED vars
    <2>1. UNCHANGED <<status, raw, promotion, run>>
      BY <1>3 DEF Expire, vars, batch
    <2>2. Gate' /\ OneWorkerPerFile' /\ Unpromoted' /\ RawFollows' /\ NoDoubleCount'
      BY <2>1 DEF Gate, OneWorkerPerFile, Unpromoted, RawFollows, NoDoubleCount, File
    <2>. QED
      BY <1>0, <2>2
  <1>. QED
    BY <1>1, <1>2, <1>3 DEF Next

(***************************************************************************)
(* "Duplicate file rejected, rollups never double-count": whatever runs    *)
(* load a file at once, again or after one was killed, no row of it is in  *)
(* tx_raw twice.                                                           *)
(***************************************************************************)
THEOREM NoDoubleCountCorrect == Spec => []NoDoubleCount
  <1>1. Inv => NoDoubleCount
    BY DEF Inv
  <1>. QED
    BY <1>1, InvInit, InvStep, PTL DEF Spec

(***************************************************************************)
(* The unique key on batch_key admits one run per file past create_batch.  *)
(***************************************************************************)
THEOREM OneWorkerCorrect == Spec => []OneWorkerPerFile
  <1>1. Inv => OneWorkerPerFile
    BY DEF Inv
  <1>. QED
    BY <1>1, InvInit, InvStep, PTL DEF Spec

(***************************************************************************)
(* Once a batch is committed and its run is over, nothing changes its      *)
(* status and no run works on its file, for good.                          *)
(***************************************************************************)
THEOREM CommittedStays == Spec => CommittedIsFinal
  <1>1. ASSUME Inv, [Next]_vars, NEW f \in Files, Settled(f)
        PROVE  Settled(f)'
    <2>1. ASSUME NEW r \in Runs, Start(r) \/ RunStep(r) \/ Crash(r)
          PROVE  Settled(f)'
      <3>1. status'[f] = "committed"
        BY <1>1, <2>1, WritesStep DEF Settled
      <3>2. run'[r].pc \in Working => run'[r].file # f
        BY <1>1, <2>1, WorkersStep DEF Settled
      <3>3. \A s \in Runs \ {r} : run'[s] = run[s]
        BY <1>1, <2>1, WorkersStep
      <3>. QED
        BY <1>1, <3>1, <3>2, <3>3 DEF Settled, File
    <2>2. CASE Expire \/ UNCHANGED vars \/ \E g \in Files : ServerCopies(g)
      BY <1>1, <2>2 DEF Expire, vars, ServerCopies, batch, Settled, File
    <2>. QED
      BY <1>1, <2>1, <2>2 DEF Next
  <1>2. Inv /\ [Next]_vars => [\A f \in Files : Settled(f) => Settled(f)']_vars
    BY <1>1
  <1>. QED
    BY <1>2, InvInit, InvStep, PTL DEF Spec, CommittedIsFinal
-----------------------------------------------------------------------------
(***************************************************************************)
(* Why a committed batch is loaded.  A run promotes once it has staged     *)
(* every chunk (StagedSoFar); what is staged of a file whose transactions  *)
(* are recent stays, so the statement, whenever the server runs it, copies *)
(* them all (PromotedWhole); and a run commits after the answer to it      *)
(* (CommitsPromoted).                                                      *)
(***************************************************************************)
Recent(f) == ChunksOf(f) \cap OldChunks = {}

StagedBefore(f, i) == \A c \in ChunksOf(f) : c[2] < i => c \in staged

StagedSoFar ==
    \A r \in Runs :
        /\ run[r].pc = "create" => run[r].next = 1
        /\ run[r].pc = "stage" /\ Recent(File(r)) => StagedBefore(File(r), run[r].next)
        /\ run[r].pc = "promote" /\ Recent(File(r)) => ChunksOf(File(r)) \subseteq staged

PromotedWhole ==
    \A f \in Files : Recent(f) =>
        /\ promotion[f] \in {"running", "done"} => ChunksOf(f) \subseteq staged
        /\ promotion[f] = "done" => \A c \in ChunksOf(f) : raw[c] = 1

CommitsPromoted ==
    /\ \A r \in Runs : run[r].pc = "commit" => promotion[File(r)] = "done"
    /\ \A f \in Files :
          status[f] = "committed" => promotion[f] = "done" /\ rowCount[f] = Chunks[f]

LoadInv == Inv /\ StagedSoFar /\ PromotedWhole /\ CommitsPromoted

LEMMA LoadInit == Init => LoadInv
  <1>. SUFFICES ASSUME Init PROVE LoadInv
    OBVIOUS
  <1>1. \A r \in Runs : run[r].pc = "idle"
    BY DEF Init, Idle
  <1>2. StagedSoFar
    BY <1>1 DEF StagedSoFar
  <1>3. PromotedWhole /\ CommitsPromoted
    BY <1>1 DEF Init, PromotedWhole, CommitsPromoted
  <1>. QED
    BY InvInit, <1>2, <1>3 DEF LoadInv

\* Nothing but the TTL takes a chunk out of tx_staging.
LEMMA RecentStaysStaged ==
    ASSUME [Next]_vars, NEW f, Recent(f), NEW c \in ChunksOf(f), c \in staged
    PROVE  c \in staged'
  <1>1. CASE \E r \in Runs : Start(r) \/ RunStep(r) \/ Crash(r)
    BY <1>1 DEF Start, RunStep, CreateBatch, ReportDuplicate, Stage, Promote, Promoted,
                PromoteError, Commit, MarkFailed, Crash, clickhouse
  <1>2. CASE Expire
    BY <1>2 DEF Expire, Recent
  <1>3. CASE (\E g \in Files : ServerCopies(g)) \/ UNCHANGED vars
    BY <1>3 DEF ServerCopies, vars
  <1>. QED
    BY <1>1, <1>2, <1>3 DEF Next

\* Where a step takes the run, and what it has staged on the way.
LEMMA LoadStep ==
    ASSUME LoadInv, NEW r \in Runs, Start(r) \/ RunStep(r) \/ Crash(r)
    PROVE  /\ run'[r].pc = "create" => run'[r].next = 1
           /\ run'[r].pc = "stage" /\ Recent(File(r)) =>
                 \A c \in ChunksOf(File(r)) : c[2] < run'[r].next => c \in staged'
           /\ run'[r].pc = "promote" /\ Recent(File(r)) => ChunksOf(File(r)) \subseteq staged'
           /\ run'[r].pc = "commit" => promotion[File(r)] = "done"
  <1>. USE DEF LoadInv, Inv
  <1>0. \A f \in Files : \A c \in ChunksOf(f) : c = <<f, c[2]>> /\ c[2] \in 1..Chunks[f]
    BY DEF ChunksOf
  <1>1. CASE Start(r)
    <2>1. PICK f \in Files :
             run' = [run EXCEPT ![r] = [Idle EXCEPT !.pc = "create", !.file = f]]
      BY <1>1 DEF Start
    <2>2. run'[r].next = 1 /\ run'[r].pc = "create"
      BY <2>1 DEF TypeOK, Idle
    <2>. QED
      BY <2>2
  <1>2. CASE CreateBatch(r)
    <2>1. run'[r].pc \in {"stage", "duplicate", "idle"}
      BY <1>2, GotoMoves, ExitMoves DEF CreateBatch, Working
    <2>2. run'[r].pc = "stage" => run'[r].next = 1
      BY <1>2, GotoMoves, ExitMoves DEF CreateBatch, Working, StagedSoFar, At
    <2>3. File(r) \in Files /\ Chunks[File(r)] \in Nat
      BY <1>2, IngestionConfig DEF CreateBatch, TypeOK, At
    <2>4. \A c \in ChunksOf(File(r)) : ~(c[2] < 1)
      BY <1>0, <2>3
    <2>. QED
      BY <2>1, <2>2, <2>4
  <1>3. CASE ReportDuplicate(r) \/ MarkFailed(r) \/ Crash(r)
    BY <1>3, ExitMoves DEF ReportDuplicate, MarkFailed, Crash
  <1>4. CASE Stage(r)
    <2>1. run[r].pc = "stage" /\ File(r) \in Files /\ Chunks[File(r)] \in Nat
      BY <1>4, IngestionConfig DEF Stage, TypeOK, At
    <2>2. run'[r].pc \in {"stage", "promote", "fail"} /\ run[r].next \in Nat
      <3>1. run[r] \in RunStates
        BY DEF TypeOK
      <3>. QED
        BY <1>4, <3>1, StageMoves DEF RunStates
    <2>3. Recent(File(r)) => StagedBefore(File(r), run[r].next)
      BY <2>1 DEF StagedSoFar
    <2>4. ASSUME Recent(File(r)), run'[r].pc = "stage"
          PROVE  \A c \in ChunksOf(File(r)) : c[2] < run'[r].next => c \in staged'
      <3>1. /\ staged' = staged \cup {<<File(r), run[r].next>>}
            /\ run' = [run EXCEPT ![r].next = run[r].next + 1]
        BY <1>4, <2>4, GotoMoves DEF Stage, Working
      <3>2. run'[r].next = run[r].next + 1
        BY <3>1 DEF TypeOK, RunStates
      <3>3. SUFFICES ASSUME NEW c \in ChunksOf(File(r)), c[2] < run[r].next + 1
                     PROVE  c \in staged'
        BY <3>2
      <3>4. c = <<File(r), c[2]>> /\ c[2] \in Nat
        BY <1>0, <2>1
      <3>5. c[2] < run[r].next \/ c[2] = run[r].next
        BY <2>2, <3>3, <3>4
      <3>6. c[2] < run[r].next => c \in staged
        BY <2>3, <2>4 DEF StagedBefore
      <3>. QED
        BY <3>1, <3>4, <3>5, <3>6
    <2>5. ASSUME Recent(File(r)), run'[r].pc = "promote"
          PROVE  ChunksOf(File(r)) \subseteq staged'
      <3>1. run' = [run EXCEPT ![r].next = run[r].next + 1] => run'[r].pc = "stage"
        BY <2>1 DEF TypeOK, RunStates
      <3>2. run[r].next > Chunks[File(r)] /\ staged' = staged
        BY <1>4, <2>5, <3>1, GotoMoves DEF Stage, Working
      <3>. QED
        BY <1>0, <2>1, <2>2, <2>3, <2>5, <3>2 DEF StagedBefore
    <2>. QED
      BY <2>2, <2>4, <2>5
  <1>5. CASE Promote(r) \/ PromoteError(r)
    BY <1>5, GotoMoves DEF Promote, PromoteError, Working
  <1>6. CASE Promoted(r)
    BY <1>6, GotoMoves DEF Promoted, Working
  <1>7. CASE Commit(r)
    BY <1>7, GotoMoves, ExitMoves DEF Commit, Working
  <1>. QED
    BY <1>1, <1>2, <1>3, <1>4, <1>5, <1>6, <1>7 DEF RunStep

\* The status becomes committed only at the end of a promotion, with the count.
LEMMA CommitStep ==
    ASSUME LoadInv, NEW r \in Runs, Start(r) \/ RunStep(r) \/ Crash(r), NEW f \in Files
    PROVE  status'[f] = "committed" => promotion[f] = "done" /\ rowCount'[f] = Chunks[f]
  <1>. USE DEF LoadInv, Inv, CommitsPromoted
  <1>1. CASE UNCHANGED batch
    BY <1>1 DEF batch
  <1>2. CASE CreateBatch(r)
    <2>1. rowCount' = rowCount /\ (status' = status \/ status' = [status EXCEPT ![File(r)] = "staging"])
      BY <1>2 DEF CreateBatch
    <2>. QED
      BY <2>1 DEF TypeOK
  <1>3. CASE Commit(r)
    <2>1. promotion[File(r)] = "done"
      BY <1>3 DEF Commit, At
    <2>2. \/ UNCHANGED batch
          \/ /\ status' = [status EXCEPT ![File(r)] = "committed"]
             /\ rowCount' = [rowCount EXCEPT ![File(r)] = Chunks[File(r)]]
      BY <1>3 DEF Commit
    <2>. QED
      BY <1>1, <2>1, <2>2 DEF TypeOK
  <1>4. CASE MarkFailed(r)
    <2>1. \/ UNCHANGED batch
          \/ /\ status' = [status EXCEPT ![File(r)] = "failed"]
             /\ rowCount' = [rowCount EXCEPT ![File(r)] = 0]
      BY <1>4 DEF MarkFailed
    <2>. QED
      BY <1>1, <2>1 DEF TypeOK
  <1>5. CASE Start(r) \/ ReportDuplicate(r) \/ Stage(r) \/ Promote(r) \/ Promoted(r)
             \/ PromoteError(r) \/ Crash(r)
    BY <1>1, <1>5 DEF Start, ReportDuplicate, Stage, Promote, Promoted, PromoteError, Crash
  <1>. QED
    BY <1>2, <1>3, <1>4, <1>5 DEF RunStep

LEMMA LoadInvStep == LoadInv /\ [Next]_vars => LoadInv'
  <1>. SUFFICES ASSUME LoadInv, [Next]_vars PROVE LoadInv'
    OBVIOUS
  <1>0. Inv'
    BY InvStep DEF LoadInv
  <1>1. \A f \in Files : Recent(f) /\ ChunksOf(f) \subseteq staged => ChunksOf(f) \subseteq staged'
    BY RecentStaysStaged
  <1>. USE DEF LoadInv, Inv
  <1>2. ASSUME NEW r \in Runs, Start(r) \/ RunStep(r) \/ Crash(r)
        PROVE  StagedSoFar' /\ PromotedWhole' /\ CommitsPromoted'
    <2>1. /\ \A s \in Runs \ {r} : run'[s] = run[s]
          /\ \A s \in Runs : run[s].pc \in Working => File(s) \in Files
          /\ run'[r].pc \in Working => File(r) \in Files /\ run'[r].file = File(r)
      BY <1>2, WorkersStep DEF TypeOK, At, Working
    <2>2. StagedSoFar'
      <3>1. ASSUME NEW s \in Runs \ {r}
            PROVE  /\ run'[s].pc = "create" => run'[s].next = 1
                   /\ run'[s].pc = "stage" /\ Recent(run'[s].file) =>
                         \A c \in ChunksOf(run'[s].file) : c[2] < run'[s].next => c \in staged'
                   /\ run'[s].pc = "promote" /\ Recent(run'[s].file) =>
                         ChunksOf(run'[s].file) \subseteq staged'
        BY <1>2, <2>1, RecentStaysStaged DEF StagedSoFar, StagedBefore, File
      <3>2. /\ run'[r].pc = "create" => run'[r].next = 1
            /\ run'[r].pc = "stage" /\ Recent(run'[r].file) =>
                  \A c \in ChunksOf(run'[r].file) : c[2] < run'[r].next => c \in staged'
            /\ run'[r].pc = "promote" /\ Recent(run'[r].file) =>
                  ChunksOf(run'[r].file) \subseteq staged'
        BY <1>2, <2>1, LoadStep DEF Working
      <3>. QED
        BY <3>1, <3>2 DEF StagedSoFar, StagedBefore, File, Recent, ChunksOf
    <2>3. PromotedWhole'
      <3>1. CASE promotion' = promotion
        BY <1>1, <1>2, <3>1, WritesStep DEF PromotedWhole, Recent, ChunksOf
      <3>2. CASE /\ run[r].pc = "promote" /\ run'[r].pc = "promoting"
                 /\ promotion' = [promotion EXCEPT ![File(r)] = "running"]
        <4>1. Recent(File(r)) => ChunksOf(File(r)) \subseteq staged
          BY <3>2 DEF StagedSoFar
        <4>2. \A f \in Files : promotion'[f] = IF f = File(r) THEN "running" ELSE promotion[f]
          BY <3>2 DEF TypeOK
        <4>3. raw' = raw
          BY <1>2, WritesStep
        <4>. QED
          BY <1>1, <4>1, <4>2, <4>3 DEF PromotedWhole, Recent, ChunksOf
      <3>. QED
        BY <1>2, <3>1, <3>2, WritesStep
    <2>4. CommitsPromoted'
      <3>1. \A f \in Files : promotion[f] = "done" => promotion'[f] = "done"
        <4>1. run[r].pc = "promote" => promotion[File(r)] = "none"
          BY DEF Unpromoted
        <4>. QED
          BY <1>2, <4>1, WritesStep DEF TypeOK
      <3>2. run'[r].pc = "commit" => promotion'[run'[r].file] = "done"
        BY <1>2, <2>1, <3>1, LoadStep DEF Working
      <3>3. \A s \in Runs \ {r} : run'[s].pc = "commit" => promotion'[run'[s].file] = "done"
        BY <2>1, <3>1 DEF CommitsPromoted, Working, File
      <3>. QED
        BY <1>2, <3>1, <3>2, <3>3, CommitStep DEF CommitsPromoted, File
    <2>. QED
      BY <2>2, <2>3, <2>4
  <1>3. ASSUME NEW f \in Files, ServerCopies(f)
        PROVE  StagedSoFar' /\ PromotedWhole' /\ CommitsPromoted'
    <2>1. UNCHANGED <<status, rowCount, staged, run>>
      BY <1>3 DEF ServerCopies, batch
    <2>2. /\ promotion[f] = "running"
          /\ \A g \in Files \ {f} : promotion'[g] = promotion[g]
      BY <1>3 DEF ServerCopies, TypeOK
    <2>3. StagedSoFar'
      BY <2>1 DEF StagedSoFar, StagedBefore, Recent, ChunksOf, File
    <2>4. CommitsPromoted'
      <3>1. \A g \in Files : promotion[g] = "done" => promotion'[g] = "done"
        BY <2>2
      <3>2. \A r \in Runs : run[r].pc = "commit" => File(r) \in Files
        BY DEF TypeOK, At
      <3>. QED
        BY <2>1, <3>1, <3>2 DEF CommitsPromoted, File
    <2>5. PICK part \in SUBSET ChunksOf(f) :
             /\ raw' = Copied(part)
             /\ promotion'[f] = "done" => part = staged \cap ChunksOf(f)
      BY <1>3, <2>2 DEF ServerCopies, TypeOK
    <2>6. \A c \in AllChunks : raw'[c] = IF c \in part THEN raw[c] + 1 ELSE raw[c]
      BY <2>5, CopiedType DEF TypeOK
    <2>7. ASSUME NEW g \in Files, Recent(g)
          PROVE  /\ promotion'[g] \in {"running", "done"} => ChunksOf(g) \subseteq staged
                 /\ promotion'[g] = "done" => \A c \in ChunksOf(g) : raw'[c] = 1
      <3>1. CASE g # f
        <4>1. \A c \in ChunksOf(g) : c \in AllChunks /\ c \notin part
          BY <2>5, <3>1, ChunkFacts
        <4>. QED
          BY <2>2, <2>6, <2>7, <3>1, <4>1 DEF PromotedWhole
      <3>2. CASE g = f
        <4>1. ChunksOf(f) \subseteq staged
          BY <2>2, <2>7, <3>2 DEF PromotedWhole
        <4>2. \A c \in ChunksOf(f) : c \in AllChunks /\ raw[c] = 0
          BY <2>2, ChunkFacts DEF RawFollows
        <4>. QED
          BY <2>5, <2>6, <3>2, <4>1, <4>2
      <3>. QED
        BY <3>1, <3>2
    <2>. QED
      BY <2>1, <2>3, <2>4, <2>7 DEF PromotedWhole, Recent, ChunksOf
  <1>4. CASE Expire \/ UNCHANGED vars
    <2>1. UNCHANGED <<status, rowCount, raw, promotion, run>>
      BY <1>4 DEF Expire, vars, batch
    <2>2. CommitsPromoted'
      BY <2>1 DEF CommitsPromoted, File
    <2>3. PromotedWhole'
      BY <1>1, <2>1 DEF PromotedWhole, Recent, ChunksOf
    <2>4. \A f : Recent(f) => \A c \in ChunksOf(f) : c \in staged => c \in staged'
      BY RecentStaysStaged
    <2>5. StagedSoFar'
      BY <2>1, <2>4 DEF StagedSoFar, StagedBefore, Recent, ChunksOf, File
    <2>. QED
      BY <1>0, <2>2, <2>3, <2>5
  <1>. QED
    BY <1>0, <1>2, <1>3, <1>4 DEF Next

(***************************************************************************)
(* A batch that is committed has each of its rows in tx_raw exactly once   *)
(* and counts them, for any number of runs, kills and lost answers, as     *)
(* long as none of its transactions is past the TTL of tx_staging.         *)
(***************************************************************************)
THEOREM LoadedCorrect == Spec => []CommittedIsLoaded
  <1>1. LoadInv => CommittedIsLoaded
    BY DEF LoadInv, PromotedWhole, CommitsPromoted, CommittedIsLoaded, Loaded, Recent
  <1>. QED
    BY <1>1, LoadInit, LoadInvStep, PTL DEF Spec
-----------------------------------------------------------------------------
(***************************************************************************)
(* Why the pipeline implements LoadOnce.  The status of a file is the one  *)
(* its only worker left (OnDuty), so that a commit follows "staging" and   *)
(* nothing a failure; and a file with an invalid row gets no further than  *)
(* "stage", so its statement is never sent (InvalidStays).                 *)
(***************************************************************************)
OnDuty ==
    \A r \in Runs :
        /\ run[r].pc \in {"stage", "promote", "promoting", "commit"} => status[File(r)] = "staging"
        /\ run[r].pc = "fail" => status[File(r)] \in {"staging", "committed"}
        /\ run[r].pc \in {"promote", "promoting", "commit"} => File(r) \notin Malformed

InvalidStays == \A f \in Malformed : promotion[f] = "none"

OnceInv == LoadInv /\ OnDuty /\ InvalidStays

LEMMA OnceInvInit == Init => OnceInv
  <1>. SUFFICES ASSUME Init PROVE OnceInv
    OBVIOUS
  <1>1. \A r \in Runs : run[r].pc = "idle"
    BY DEF Init, Idle
  <1>2. OnDuty /\ InvalidStays
    BY <1>1, IngestionConfig DEF Init, OnDuty, InvalidStays
  <1>. QED
    BY LoadInit, <1>2 DEF OnceInv

LEMMA DutyStep ==
    ASSUME OnceInv, NEW r \in Runs, Start(r) \/ RunStep(r) \/ Crash(r)
    PROVE  /\ run'[r].pc \in {"stage", "promote", "promoting", "commit"} =>
                 status'[File(r)] = "staging"
           /\ run'[r].pc = "fail" => status'[File(r)] \in {"staging", "committed"}
           /\ run'[r].pc \in {"promote", "promoting", "commit"} => File(r) \notin Malformed
  <1>. USE DEF OnceInv, LoadInv, Inv
  <1>1. CASE Start(r) \/ ReportDuplicate(r) \/ MarkFailed(r) \/ Crash(r)
    BY <1>1, StartMoves, ExitMoves DEF ReportDuplicate, MarkFailed, Crash
  <1>2. CASE CreateBatch(r)
    <2>1. /\ run'[r].pc \in {"stage", "duplicate", "idle"}
          /\ run'[r].pc = "stage" => status' = [status EXCEPT ![File(r)] = "staging"]
      BY <1>2, GotoMoves, ExitMoves DEF CreateBatch, Working
    <2>2. File(r) \in Files
      BY <1>2 DEF CreateBatch, TypeOK, At
    <2>. QED
      BY <2>1, <2>2 DEF TypeOK
  <1>3. CASE Stage(r)
    <2>1. /\ run[r].pc = "stage" /\ status' = status
          /\ run'[r].pc \in {"stage", "promote", "fail"}
      BY <1>3, StageMoves DEF Stage, At, batch
    <2>2. run'[r].pc = "promote" => File(r) \notin Malformed
      BY <1>3, GotoMoves DEF Stage, Working
    <2>. QED
      BY <2>1, <2>2 DEF OnDuty
  <1>4. CASE Promote(r) \/ Promoted(r) \/ PromoteError(r)
    <2>1. /\ run[r].pc \in {"promote", "promoting"} /\ status' = status
          /\ run'[r].pc \in {"promoting", "commit", "fail"}
      BY <1>4, GotoMoves DEF Promote, Promoted, PromoteError, At, batch, Working
    <2>. QED
      BY <2>1 DEF OnDuty
  <1>5. CASE Commit(r)
    <2>1. run[r].pc = "commit" /\ run'[r].pc \in {"idle", "fail"} /\ File(r) \in Files
      BY <1>5, GotoMoves, ExitMoves DEF Commit, At, Working, TypeOK
    <2>2. status' = status \/ status' = [status EXCEPT ![File(r)] = "committed"]
      BY <1>5 DEF Commit, batch
    <2>. QED
      BY <2>1, <2>2 DEF OnDuty, TypeOK
  <1>. QED
    BY <1>1, <1>2, <1>3, <1>4, <1>5 DEF RunStep

LEMMA OnceInvStep == OnceInv /\ [Next]_vars => OnceInv'
  <1>. SUFFICES ASSUME OnceInv, [Next]_vars PROVE OnceInv'
    OBVIOUS
  <1>0. LoadInv'
    BY LoadInvStep DEF OnceInv
  <1>. USE DEF OnceInv, LoadInv, Inv
  <1>1. ASSUME NEW r \in Runs, Start(r) \/ RunStep(r) \/ Crash(r)
        PROVE  OnDuty' /\ InvalidStays'
    <2>1. /\ \A s \in Runs \ {r} : run'[s] = run[s]
          /\ \A s \in Runs : run[s].pc \in Working => File(s) \in Files
          /\ run'[r].pc \in Working => File(r) \in Files /\ run'[r].file = File(r)
      BY <1>1, WorkersStep DEF TypeOK, At, Working
    <2>2. ASSUME NEW s \in Runs \ {r}, run[s].pc \in Working
          PROVE  status'[File(s)] = status[File(s)]
      BY <1>1, <2>1, <2>2, WritesStep DEF Gate, OneWorkerPerFile
    <2>3. OnDuty'
      BY <1>1, <2>1, <2>2, DutyStep DEF OnDuty, Working, File
    <2>4. InvalidStays'
      <3>1. run[r].pc = "promote" => File(r) \notin Malformed
        BY DEF OnDuty
      <3>. QED
        BY <1>1, <3>1, WritesStep, IngestionConfig DEF InvalidStays, TypeOK
    <2>. QED
      BY <2>3, <2>4
  <1>2. ASSUME NEW f \in Files, ServerCopies(f)
        PROVE  OnDuty' /\ InvalidStays'
    <2>1. /\ UNCHANGED <<status, run>> /\ promotion[f] = "running"
          /\ \A g \in Files \ {f} : promotion'[g] = promotion[g]
      BY <1>2 DEF ServerCopies, batch, TypeOK
    <2>. QED
      BY <2>1, IngestionConfig DEF OnDuty, InvalidStays, File
  <1>3. CASE Expire \/ UNCHANGED vars
    <2>1. UNCHANGED <<status, promotion, run>>
      BY <1>3 DEF Expire, vars, batch
    <2>2. OnDuty' /\ InvalidStays'
      BY <2>1 DEF OnDuty, InvalidStays, File
    <2>. QED
      BY <1>0, <2>2
  <1>. QED
    BY <1>0, <1>1, <1>2, <1>3 DEF Next

\* What LoadOnce sees of a state.
OnceLoad == [f \in Files |-> IF PromotionOver(f) THEN "over" ELSE "open"]

OnceStep == [Once!Next]_(Once!vars)

LEMMA OnceInit == Init => Once!Init
  <1>. SUFFICES ASSUME Init PROVE Once!Init
    OBVIOUS
  <1>1. OnceLoad = [f \in Files |-> "open"]
    BY DEF Init, OnceLoad, PromotionOver
  <1>2. UNION {[g \in Files |-> ChunksOf(g)][f] : f \in Files} = AllChunks
    BY DEF AllChunks
  <1>. QED
    BY <1>1, <1>2 DEF Init, Once!Init, OnceLoad

\* A step that writes no status, sends nothing and copies nothing is invisible.
LEMMA Invisible ==
    ASSUME UNCHANGED <<status, raw>>,
           \A f \in Files : PromotionOver(f)' <=> PromotionOver(f)
    PROVE  OnceStep
  <1>1. OnceLoad' = OnceLoad
    BY DEF OnceLoad
  <1>. QED
    BY <1>1 DEF OnceStep, Once!vars, OnceLoad

LEMMA OnceRunStep ==
    ASSUME OnceInv, NEW r \in Runs, Start(r) \/ RunStep(r) \/ Crash(r)
    PROVE  OnceStep
  <1>. USE DEF OnceInv, LoadInv, Inv
  <1>1. CASE UNCHANGED <<status, raw, promotion>>
    BY <1>1, Invisible DEF PromotionOver
  <1>2. UNCHANGED promotion => OnceLoad' = OnceLoad
    BY DEF OnceLoad, PromotionOver
  <1>3. CASE Promote(r)
    <2>1. UNCHANGED <<status, raw>> /\ promotion[File(r)] = "none"
      BY <1>3 DEF Promote, batch, Unpromoted, At
    <2>2. promotion' = promotion \/ promotion' = [promotion EXCEPT ![File(r)] = "running"]
      BY <1>3 DEF Promote
    <2>3. \A f \in Files : PromotionOver(f)' <=> PromotionOver(f)
      BY <2>1, <2>2 DEF PromotionOver, TypeOK
    <2>. QED
      BY <2>1, <2>3, Invisible
  <1>4. CASE CreateBatch(r)
    <2>1. UNCHANGED <<raw, promotion>> /\ File(r) \in Files
      BY <1>4 DEF CreateBatch, clickhouse, TypeOK, At
    <2>2. CASE status[File(r)] = "none" /\ status' = [status EXCEPT ![File(r)] = "staging"]
      <3>1. Once!Register(File(r))
        BY <1>2, <2>1, <2>2 DEF Once!Register, OnceLoad
      <3>. QED
        BY <2>1, <3>1 DEF OnceStep, Once!Next
    <2>. QED
      BY <1>1, <1>4, <2>1, <2>2 DEF CreateBatch
  <1>5. CASE Commit(r)
    <2>1. /\ UNCHANGED <<raw, promotion>> /\ File(r) \in Files
          /\ status[File(r)] = "staging" /\ promotion[File(r)] = "done"
      BY <1>5 DEF Commit, clickhouse, TypeOK, At, OnDuty, CommitsPromoted
    <2>2. Recent(File(r)) => \A c \in ChunksOf(File(r)) : raw[c] = 1
      BY <2>1 DEF PromotedWhole
    <2>3. CASE status' = [status EXCEPT ![File(r)] = "committed"]
      <3>1. Once!Confirm(File(r))
        BY <1>2, <2>1, <2>2, <2>3 DEF Once!Confirm, OnceLoad, PromotionOver, Recent
      <3>. QED
        BY <2>1, <3>1 DEF OnceStep, Once!Next
    <2>. QED
      BY <1>1, <1>5, <2>1, <2>3 DEF Commit, batch
  <1>6. CASE MarkFailed(r)
    <2>1. /\ UNCHANGED <<raw, promotion>> /\ File(r) \in Files
          /\ status[File(r)] \in {"staging", "committed"}
      BY <1>6 DEF MarkFailed, clickhouse, TypeOK, At, OnDuty
    <2>2. CASE status' = [status EXCEPT ![File(r)] = "failed"]
      <3>1. Once!GiveUp(File(r))
        BY <1>2, <2>1, <2>2 DEF Once!GiveUp, OnceLoad
      <3>. QED
        BY <2>1, <3>1 DEF OnceStep, Once!Next
    <2>. QED
      BY <1>1, <1>6, <2>1, <2>2 DEF MarkFailed, batch
  <1>7. CASE Start(r) \/ ReportDuplicate(r) \/ Stage(r) \/ Promoted(r) \/ PromoteError(r)
             \/ Crash(r)
    BY <1>1, <1>7 DEF Start, ReportDuplicate, Stage, Promoted, PromoteError, Crash,
                      batch, clickhouse
  <1>. QED
    BY <1>3, <1>4, <1>5, <1>6, <1>7 DEF RunStep

LEMMA OnceLoads ==
    ASSUME OnceInv, NEW f \in Files, ServerCopies(f)
    PROVE  OnceStep
  <1>. USE DEF OnceInv, LoadInv, Inv
  <1>1. status' = status /\ promotion[f] = "running"
    BY DEF ServerCopies, batch
  <1>2. f \in Files \ Malformed
    BY <1>1 DEF InvalidStays
  <1>3. status[f] \in {"staging", "failed"}
    BY <1>1 DEF TypeOK, Unpromoted, CommitsPromoted
  <1>4. OnceLoad' = [OnceLoad EXCEPT ![f] = "over"] /\ OnceLoad[f] = "open"
    <2>1. PromotionOver(f)' /\ \A g \in Files \ {f} : PromotionOver(g)' <=> PromotionOver(g)
      BY DEF ServerCopies, TypeOK, PromotionOver
    <2>. QED
      BY <1>1, <2>1 DEF OnceLoad, PromotionOver
  <1>5. \E part \in SUBSET [g \in Files |-> ChunksOf(g)][f] :
           raw' = [c \in DOMAIN raw |-> IF c \in part THEN raw[c] + 1 ELSE raw[c]]
    <2>1. PICK part \in SUBSET ChunksOf(f) : raw' = Copied(part)
      BY DEF ServerCopies
    <2>2. DOMAIN raw = AllChunks
      BY DEF TypeOK
    <2>. QED
      BY <2>1, <2>2 DEF Copied
  <1>6. Once!Load(f)
    BY <1>1, <1>2, <1>3, <1>4, <1>5 DEF Once!Load, OnceLoad
  <1>. QED
    BY <1>6 DEF OnceStep, Once!Next

(***************************************************************************)
(* The tool, Postgres and ClickHouse together implement LoadOnce: whatever *)
(* runs are started at once, killed and repeated, a file is loaded at most *)
(* once, committed only with each of its recent rows in place, given up    *)
(* for good, and not loaded at all if one of its rows is invalid.          *)
(***************************************************************************)
THEOREM LoadOnceImplemented == Spec => ImplementsLoadOnce
  <1>1. OnceInv /\ [Next]_vars => [Once!Next]_(Once!vars)
    <2>. SUFFICES ASSUME OnceInv, [Next]_vars PROVE OnceStep
      BY DEF OnceStep
    <2>1. CASE Expire \/ UNCHANGED vars
      BY <2>1, Invisible DEF Expire, vars, batch, PromotionOver
    <2>. QED
      BY <2>1, OnceRunStep, OnceLoads DEF Next
  <1>. QED
    BY <1>1, OnceInit, OnceInvInit, OnceInvStep, PTL DEF Spec, ImplementsLoadOnce, Once!Spec
-----------------------------------------------------------------------------
(***************************************************************************)
(* What a run has left to do: its chunks, and the calls after them.  Each  *)
(* of its steps takes from it and nothing adds to it.                      *)
(***************************************************************************)
Remaining(r) == Chunks[File(r)] + 1 - run[r].next

RunLeft(r) ==
    CASE At(r, "create") -> 6 + Chunks[File(r)]
      [] At(r, "stage") -> 5 + Remaining(r)
      [] At(r, "promote") -> 4
      [] At(r, "promoting") -> 3
      [] At(r, "commit") -> 2
      [] At(r, "fail") \/ At(r, "duplicate") -> 1
      [] OTHER -> 0

\* The chunks are staged one after the other, from the first, none beyond the
\* last.
ChunksInTurn ==
    \A r \in Runs :
        /\ At(r, "create") => run[r].next = 1
        /\ At(r, "stage") => run[r].next <= Chunks[File(r)] + 1

RunBounded ==
    \A r \in Runs :
        /\ RunLeft(r) \in Nat
        /\ RunLeft(r) = 0 <=> At(r, "idle")
        /\ ~At(r, "idle") => RunLeft(r) <= 6 + Chunks[File(r)]

LEMMA StageForward ==
    ASSUME TypeOK, NEW r \in Runs, Stage(r)
    PROVE  \/ run'[r].pc = "fail"
           \/ /\ run'[r].pc = "stage" /\ run[r].next <= Chunks[File(r)]
              /\ run'[r].next = run[r].next + 1
           \/ run'[r].pc = "promote" /\ run[r].next > Chunks[File(r)]
  <1>1. ASSUME NEW pc \in {"promote", "fail"}, Goto(r, pc)
        PROVE  run'[r].pc = pc
    BY <1>1, GotoMoves DEF Working
  <1>2. ASSUME run' = [run EXCEPT ![r].next = run[r].next + 1]
        PROVE  run'[r].pc = "stage" /\ run'[r].next = run[r].next + 1
    <2>1. run[r] \in RunStates /\ run[r].pc = "stage"
      BY DEF TypeOK, Stage, At
    <2>2. run'[r] = [run[r] EXCEPT !.next = run[r].next + 1]
      BY <1>2 DEF TypeOK
    <2>. QED
      BY <2>1, <2>2 DEF RunStates
  <1>. QED
    BY <1>1, <1>2 DEF Stage

\* Where each step of a run leads.
Forward(r) ==
    \/ /\ At(r, "create")
       /\ \/ run'[r].pc \in {"duplicate", "idle"}
          \/ run'[r].pc = "stage" /\ run'[r].next = run[r].next
    \/ At(r, "duplicate") /\ run'[r].pc = "idle"
    \/ /\ At(r, "stage")
       /\ \/ run'[r].pc = "fail"
          \/ /\ run'[r].pc = "stage" /\ run[r].next <= Chunks[File(r)]
             /\ run'[r].next = run[r].next + 1
          \/ run'[r].pc = "promote" /\ run[r].next > Chunks[File(r)]
    \/ At(r, "promote") /\ run'[r].pc \in {"promoting", "fail"}
    \/ At(r, "promoting") /\ run'[r].pc \in {"commit", "fail"}
    \/ At(r, "commit") /\ run'[r].pc \in {"idle", "fail"}
    \/ At(r, "fail") /\ run'[r].pc = "idle"

LEMMA RunForward ==
    ASSUME TypeOK, NEW r \in Runs, RunStep(r)
    PROVE  OnlyMoves(r) /\ Forward(r)
  <1>1. CASE CreateBatch(r)
    BY <1>1, GotoMoves, ExitMoves DEF CreateBatch, Working, Forward
  <1>2. CASE ReportDuplicate(r)
    BY <1>2, ExitMoves DEF ReportDuplicate, Forward
  <1>3. CASE Stage(r)
    <2>1. At(r, "stage")
      BY <1>3 DEF Stage
    <2>. QED
      BY <1>3, <2>1, StageMoves, StageForward DEF Forward
  <1>4. CASE Promote(r) \/ Promoted(r) \/ PromoteError(r)
    BY <1>4, GotoMoves DEF Promote, Promoted, PromoteError, Working, Forward
  <1>5. CASE Commit(r)
    BY <1>5, GotoMoves, ExitMoves DEF Commit, Working, Forward
  <1>6. CASE MarkFailed(r)
    BY <1>6, ExitMoves DEF MarkFailed, Forward
  <1>. QED
    BY <1>1, <1>2, <1>3, <1>4, <1>5, <1>6 DEF RunStep

\* What else happens leaves a run where it is, or starts it, or kills it.
LEMMA OthersMove ==
    ASSUME TypeOK, [Next]_vars, NEW r \in Runs, ~RunStep(r)
    PROVE  run'[r] = run[r] \/ Start(r) \/ Crash(r)
  <1>1. ASSUME NEW s \in Runs, s # r, Start(s) \/ RunStep(s) \/ Crash(s)
        PROVE  run'[r] = run[r]
    <2>1. CASE Start(s)
      BY <1>1, <2>1, StartMoves
    <2>2. CASE RunStep(s)
      BY <1>1, <2>2, RunForward DEF OnlyMoves
    <2>3. CASE Crash(s)
      BY <1>1, <2>3, ExitMoves DEF Crash, OnlyMoves
    <2>. QED
      BY <1>1, <2>1, <2>2, <2>3
  <1>. QED
    BY <1>1 DEF Next, ServerCopies, Expire, vars

LEMMA TurnInit == Init => ChunksInTurn
  BY DEF Init, Idle, ChunksInTurn, At

LEMMA TurnStep == TypeOK /\ ChunksInTurn /\ [Next]_vars => ChunksInTurn'
  <1>. SUFFICES ASSUME TypeOK, ChunksInTurn, [Next]_vars, NEW r \in Runs
                PROVE  /\ At(r, "create")' => run'[r].next = 1
                       /\ At(r, "stage")' => run'[r].next <= Chunks[File(r)'] + 1
    BY DEF ChunksInTurn
  <1>1. CASE run'[r] = run[r]
    BY <1>1 DEF ChunksInTurn, At, File
  <1>2. CASE Start(r)
    <2>1. PICK f \in Files :
             run' = [run EXCEPT ![r] = [Idle EXCEPT !.pc = "create", !.file = f]]
      BY <1>2 DEF Start
    <2>2. run'[r].pc = "create" /\ run'[r].next = 1
      BY <2>1 DEF Idle, TypeOK
    <2>. QED
      BY <2>2 DEF At
  <1>3. CASE Crash(r)
    BY <1>3, ExitMoves DEF Crash, At
  <1>4. CASE RunStep(r)
    <2>1. OnlyMoves(r) /\ Forward(r)
      BY <1>4, RunForward
    <2>2. ~At(r, "idle") /\ ~At(r, "create")'
      BY <2>1 DEF Forward, At
    <2>3. /\ run[r].next \in Nat
          /\ File(r)' = File(r) /\ Chunks[File(r)] \in Nat
      BY <2>1, <2>2, IngestionConfig DEF TypeOK, RunStates, OnlyMoves, File
    <2>. QED
      BY <2>1, <2>2, <2>3 DEF ChunksInTurn, Forward, At
  <1>. QED
    BY <1>1, <1>2, <1>3, <1>4, OthersMove

LEMMA TurnCorrect == Spec => [](TypeOK /\ ChunksInTurn)
  BY TypeInit, TypeStep, TurnInit, TurnStep, PTL DEF Spec

LEMMA RunInside == TypeOK /\ ChunksInTurn => RunBounded
  <1>. SUFFICES ASSUME TypeOK, ChunksInTurn, NEW r \in Runs
                PROVE  /\ RunLeft(r) \in Nat
                       /\ RunLeft(r) = 0 <=> At(r, "idle")
                       /\ ~At(r, "idle") => RunLeft(r) <= 6 + Chunks[File(r)]
    BY DEF RunBounded
  <1>1. CASE At(r, "idle")
    BY <1>1 DEF RunLeft, At
  <1>2. CASE ~At(r, "idle")
    <2>1. run[r].next \in Nat \ {0} /\ Chunks[File(r)] \in Nat
      BY <1>2, IngestionConfig DEF TypeOK, RunStates
    <2>2. At(r, "stage") => Remaining(r) \in 0..Chunks[File(r)]
      BY <2>1 DEF ChunksInTurn, Remaining
    <2>3. run[r].pc \in {"create", "duplicate"} \cup Working
      BY <1>2 DEF TypeOK, RunStates, At
    <2>. QED
      BY <1>2, <2>1, <2>2, <2>3 DEF RunLeft, At, Working
  <1>. QED
    BY <1>1, <1>2

LEMMA RunDescends ==
    ASSUME TypeOK, ChunksInTurn, NEW r \in Runs, RunStep(r)
    PROVE  ~At(r, "idle") /\ RunLeft(r)' < RunLeft(r)
  <1>1. OnlyMoves(r) /\ Forward(r)
    BY RunForward
  <1>2. ~At(r, "idle")
    BY <1>1 DEF Forward, At
  <1>3. /\ run[r].next \in Nat \ {0}
        /\ File(r)' = File(r) /\ Chunks[File(r)] \in Nat
    BY <1>1, <1>2, IngestionConfig DEF TypeOK, RunStates, OnlyMoves, File
  <1>4. CASE At(r, "create")
    BY <1>1, <1>3, <1>4 DEF Forward, At, RunLeft, Remaining
  <1>5. CASE At(r, "stage")
    <2>1. run[r].next <= Chunks[File(r)] + 1
      BY <1>5 DEF ChunksInTurn
    <2>. QED
      BY <1>1, <1>3, <1>5, <2>1 DEF Forward, At, RunLeft, Remaining
  <1>6. CASE ~At(r, "create") /\ ~At(r, "stage")
    BY <1>1, <1>6 DEF Forward, At, RunLeft
  <1>. QED
    BY <1>2, <1>4, <1>5, <1>6

(***************************************************************************)
(* A run of the tool is over after as many steps as its file has chunks,   *)
(* and six: each call of ingest_file it makes takes from what is left,     *)
(* and no other run, no promotion of the server and no expiry adds to it.  *)
(* What may keep a run is one call that is not answered, never a loop.     *)
(***************************************************************************)
THEOREM RunsDescend ==
    Spec => /\ []RunBounded
            /\ [][\A r \in Runs : /\ RunStep(r) => RunLeft(r)' < RunLeft(r)
                                  /\ ~At(r, "idle") => RunLeft(r)' <= RunLeft(r)]_vars
  <1>. DEFINE Descent == \A r \in Runs : /\ RunStep(r) => RunLeft(r)' < RunLeft(r)
                                         /\ ~At(r, "idle") => RunLeft(r)' <= RunLeft(r)
  <1>1. (TypeOK /\ ChunksInTurn)' => RunBounded'
    BY RunInside, PTL
  <1>2. TypeOK /\ ChunksInTurn /\ [Next]_vars => Descent
    <2>. SUFFICES ASSUME TypeOK, ChunksInTurn, [Next]_vars, NEW r \in Runs
                  PROVE  /\ RunStep(r) => RunLeft(r)' < RunLeft(r)
                         /\ ~At(r, "idle") => RunLeft(r)' <= RunLeft(r)
      OBVIOUS
    <2>1. RunLeft(r) \in Nat /\ RunLeft(r)' \in Nat
      BY <1>1, RunInside, TypeStep, TurnStep DEF RunBounded
    <2>2. CASE RunStep(r)
      BY <2>1, <2>2, RunDescends
    <2>3. CASE run'[r] = run[r]
      <3>1. RunLeft(r)' = RunLeft(r)
        BY <2>3 DEF RunLeft, Remaining, At, File
      <3>2. RunStep(r) => RunLeft(r)' < RunLeft(r)
        BY RunDescends
      <3>. QED
        BY <2>1, <3>1, <3>2
    <2>4. CASE Crash(r) /\ ~RunStep(r)
      <3>1. RunLeft(r)' = 0
        BY <2>4, ExitMoves DEF Crash, RunLeft, At
      <3>. QED
        BY <2>1, <2>4, <3>1
    <2>5. CASE Start(r) /\ ~RunStep(r)
      BY <2>5 DEF Start
    <2>. QED
      BY <2>2, <2>3, <2>4, <2>5, OthersMove
  <1>. QED
    BY <1>2, RunInside, TurnCorrect, PTL DEF Spec
=============================================================================
