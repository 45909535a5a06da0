-------------------------- MODULE ReportRendering --------------------------
(***************************************************************************)
(* The PDF of one finished analysis: reports/services.py, the worker's     *)
(* hook that calls it, and the delete that reclaims its file.              *)
(*                                                                         *)
(* Calls to generate_report_for_analysis race: the hook fires the moment   *)
(* the run is done, which is the moment the UI waits for to POST.  Calls   *)
(* in one process exclude one another with a reference-counted lock; calls *)
(* in two processes meet only in the database and the file system.         *)
(*                                                                         *)
(* A call mints at most one report id and one lock object, so both are     *)
(* named after the call.                                                   *)
(***************************************************************************)
EXTENDS Naturals, FiniteSets

CONSTANTS
  Call,     \* calls to generate_report_for_analysis
  Proc,     \* processes; one that crashes is replaced under the same name
  NoCall, NoProc, NoReport,
  Crashes,  \* bound: whether processes crash
  Deletes,  \* bound: whether the analysis may be deleted
  Contention \* statements may give up, files may resist removal

ASSUME CallAssumption == IsFiniteSet(Call)

ASSUME SwitchAssumption == {Crashes, Deletes, Contention} \subseteq BOOLEAN

ASSUME NullAssumption ==
  /\ NoCall \notin Call
  /\ NoProc \notin Proc
  /\ NoReport \notin [id : Call, bytes : Call]

VARIABLES
  \* The database.
  analysis,  \* the AnalysisResult row: "done", "deleted"
  column,    \* its report_status
  unsaid,    \* history: the last attempt to write the column gave up
  row,       \* the GeneratedReport row: whose report id, whose bytes it describes
  \* MEDIA_ROOT/reports.
  file,      \* for each report id, the call whose render the file holds
  stuck,     \* history: report ids whose file could not be removed
  \* Each process's _LOCK_REGISTRY, for this analysis.
  registry,  \* the lock registered under the analysis id
  interest,  \* a registered lock's interested_thread_count
  holder,    \* the call that holds a lock
  \* The calls.
  pc, kind, proc,
  entry,     \* the lock a call has taken an interest in
  target,    \* the report id a call renders under
  raised,    \* whether a call is leaving with an exception
  \* DELETE of the analysis.
  deleting, leftovers,
  latest     \* history: how the attempt to render that finished last ended

said == <<column, unsaid>>
disk == <<file, stuck>>
dbVars == <<analysis, said, row>>
lockVars == <<registry, interest, holder>>
deleteVars == <<deleting, leftovers>>
vars == <<dbVars, disk, lockVars, pc, kind, proc, entry, target, raised, deleteVars, latest>>

Report == [id : Call, bytes : Call]

Locked  == {"locked", "announcing", "rendering", "rendered", "yielding", "failing", "releasing"}
Running == Locked \cup {"called", "adopting", "entering", "waiting", "leaving", "stamping"}
Over    == {"ended", "lost"}

TypeOK ==
  /\ analysis \in {"done", "deleted"}
  /\ column   \in {"pending", "generating", "ready", "failed", "skipped"}
  /\ unsaid   \in BOOLEAN
  /\ row      \in Report \cup {NoReport}
  /\ file     \in [Call -> Call \cup {NoCall}]
  /\ stuck \subseteq Call
  /\ registry \in [Proc -> Call \cup {NoCall}]
  /\ interest \in [Call -> Nat]
  /\ holder   \in [Call -> Call \cup {NoCall}]
  /\ pc       \in [Call -> {"idle"} \cup Running \cup Over]
  /\ kind     \in [Call -> {"hook", "post"}]
  /\ proc     \in [Call -> Proc \cup {NoProc}]
  /\ entry    \in [Call -> Call \cup {NoCall}]
  /\ target   \in [Call -> Call \cup {NoCall}]
  /\ raised   \in [Call -> BOOLEAN]
  /\ deleting \in {"no", "resolved", "dropped", "over"}
  /\ leftovers \subseteq Call
  /\ latest   \in {"none", "rendered", "failed"}

Init ==
  /\ analysis = "done"
  /\ column   = "pending"
  /\ unsaid   = FALSE
  /\ row      = NoReport
  /\ file     = [c \in Call |-> NoCall]
  /\ stuck    = {}
  /\ registry = [p \in Proc |-> NoCall]
  /\ interest = [c \in Call |-> 0]
  /\ holder   = [c \in Call |-> NoCall]
  /\ pc       = [c \in Call |-> "idle"]
  /\ kind     = [c \in Call |-> "post"]
  /\ proc     = [c \in Call |-> NoProc]
  /\ entry    = [c \in Call |-> NoCall]
  /\ target   = [c \in Call |-> NoCall]
  /\ raised   = [c \in Call |-> FALSE]
  /\ deleting = "no"
  /\ leftovers = {}
  /\ latest   = "none"

Goto(c, l) == pc' = [pc EXCEPT ![c] = l]

(* set_report_status: an UPDATE by primary key.  One that gives up is      *)
(* logged, and its caller goes on.                                         *)
SetColumn(v) ==
  \/ column' = (IF analysis = "done" THEN v ELSE column) /\ unsaid' = FALSE
  \/ Contention /\ UNCHANGED column /\ unsaid' = TRUE

ReportId == IF row = NoReport THEN NoCall ELSE row.id

(* Only a POST (or a download whose file is missing) passes force=True.    *)
Adopts(c) == row # NoReport /\ kind[c] = "hook"

-----------------------------------------------------------------------------
(* The callers.                                                            *)

Hooks == {c \in Call : kind[c] = "hook"}

(* _maybe_generate_report, once per run, right after it became done.       *)
BeginHook(c, p) ==
  /\ pc[c] = "idle"
  /\ Hooks = {}
  /\ kind' = [kind EXCEPT ![c] = "hook"]
  /\ proc' = [proc EXCEPT ![c] = p]
  /\ \/ SetColumn("skipped") /\ Goto(c, "ended")        \* auto_generate_pdf is off
     \/ SetColumn("generating") /\ Goto(c, "called")
  /\ UNCHANGED <<analysis, row, disk, lockVars, entry, target, raised, deleteVars, latest>>

(* POST /api/analysis/{id}/report, whose view has read a done row.         *)
BeginPost(c, p) ==
  /\ pc[c] = "idle"
  /\ analysis = "done"
  /\ proc' = [proc EXCEPT ![c] = p]
  /\ Goto(c, "called")
  /\ UNCHANGED <<dbVars, disk, lockVars, kind, entry, target, raised, deleteVars, latest>>

(* The hook's own stamp, after the call returned or raised.                *)
HookStampsReady(c) ==
  /\ pc[c] = "stamping"
  /\ SetColumn("ready")
  /\ Goto(c, "ended")
  /\ UNCHANGED <<analysis, row, disk, lockVars, kind, proc, entry, target, raised,
                 deleteVars, latest>>

HookStamps(c) ==
  /\ pc[c] = "stamping"
  /\ SetColumn(IF raised[c] THEN "failed" ELSE "ready")
  /\ Goto(c, "ended")
  /\ UNCHANGED <<analysis, row, disk, lockVars, kind, proc, entry, target, raised,
                 deleteVars, latest>>

-----------------------------------------------------------------------------
(* generate_report_for_analysis.                                           *)

(* The fast path, outside the lock.                                        *)
CheckExisting(c) ==
  /\ pc[c] = "called"
  /\ Goto(c, IF Adopts(c) THEN "adopting" ELSE "entering")
  /\ UNCHANGED <<dbVars, disk, lockVars, kind, proc, entry, target, raised, deleteVars, latest>>

(* ... or its query fails, and so does the call, which has said nothing.   *)
CheckRaises(c) ==
  /\ Contention
  /\ pc[c] = "called"
  /\ raised' = [raised EXCEPT ![c] = TRUE]
  /\ Goto(c, IF kind[c] = "hook" THEN "stamping" ELSE "ended")
  /\ UNCHANGED <<dbVars, disk, lockVars, kind, proc, entry, target, deleteVars, latest>>

(* An existing row is returned: the column is healed.  Inside the lock the *)
(* call still has to release it.                                           *)
Adopt(c) ==
  /\ pc[c] = "adopting"
  /\ SetColumn("ready")
  /\ Goto(c, IF entry[c] # NoCall THEN "releasing"
             ELSE IF kind[c] = "hook" THEN "stamping" ELSE "ended")
  /\ UNCHANGED <<analysis, row, disk, lockVars, kind, proc, entry, target, raised,
                 deleteVars, latest>>

RegisterUncounted(c) ==
  LET lock == IF registry[proc[c]] = NoCall THEN c ELSE registry[proc[c]] IN
  /\ pc[c] = "entering"
  /\ registry' = [registry EXCEPT ![proc[c]] = lock]
  /\ entry'    = [entry EXCEPT ![c] = lock]
  /\ Goto(c, "waiting")
  /\ UNCHANGED <<dbVars, disk, interest, holder, kind, proc, target, raised, deleteVars, latest>>

(* _analysis_report_lock: register an interest, under the registry guard ...*)
Register(c) ==
  LET lock == IF registry[proc[c]] = NoCall THEN c ELSE registry[proc[c]] IN
  /\ pc[c] = "entering"
  /\ registry' = [registry EXCEPT ![proc[c]] = lock]
  /\ interest' = [interest EXCEPT ![lock] = @ + 1]
  /\ entry'    = [entry EXCEPT ![c] = lock]
  /\ Goto(c, "waiting")
  /\ UNCHANGED <<dbVars, disk, holder, kind, proc, target, raised, deleteVars, latest>>

(* ... acquire ...                                                         *)
Acquire(c) ==
  /\ pc[c] = "waiting"
  /\ holder[entry[c]] = NoCall
  /\ holder' = [holder EXCEPT ![entry[c]] = c]
  /\ Goto(c, "locked")
  /\ UNCHANGED <<dbVars, disk, registry, interest, kind, proc, entry, target, raised,
                 deleteVars, latest>>

ReleaseOnSuccess(c) ==
  /\ pc[c] = "releasing"
  /\ holder' = [holder EXCEPT ![entry[c]] = IF raised[c] THEN @ ELSE NoCall]
  /\ Goto(c, "leaving")
  /\ UNCHANGED <<dbVars, disk, registry, interest, kind, proc, entry, target, raised,
                 deleteVars, latest>>

(* ... release ...                                                         *)
Release(c) ==
  /\ pc[c] = "releasing"
  /\ holder' = [holder EXCEPT ![entry[c]] = NoCall]
  /\ Goto(c, "leaving")
  /\ UNCHANGED <<dbVars, disk, registry, interest, kind, proc, entry, target, raised,
                 deleteVars, latest>>

UnregisterEarly(c) ==
  /\ pc[c] = "leaving"
  /\ interest' = [interest EXCEPT ![entry[c]] = @ - 1]
  /\ registry' = [registry EXCEPT ![proc[c]] = IF interest[entry[c]] <= 2 THEN NoCall ELSE @]
  /\ Goto(c, IF kind[c] = "hook" THEN "stamping" ELSE "ended")
  /\ UNCHANGED <<dbVars, disk, holder, kind, proc, entry, target, raised, deleteVars, latest>>

(* ... and drop the lock object nobody is interested in any more.          *)
Unregister(c) ==
  /\ pc[c] = "leaving"
  /\ interest' = [interest EXCEPT ![entry[c]] = @ - 1]
  /\ registry' = [registry EXCEPT ![proc[c]] = IF interest[entry[c]] <= 1 THEN NoCall ELSE @]
  /\ Goto(c, IF kind[c] = "hook" THEN "stamping" ELSE "ended")
  /\ UNCHANGED <<dbVars, disk, holder, kind, proc, entry, target, raised, deleteVars, latest>>

(* The re-read under the lock: an existing row's id is used again.         *)
Recheck(c) ==
  /\ pc[c] = "locked"
  /\ IF Adopts(c)
       THEN Goto(c, "adopting") /\ UNCHANGED target
       ELSE /\ Goto(c, "announcing")
            /\ target' = [target EXCEPT ![c] = IF row = NoReport THEN c ELSE ReportId]
  /\ UNCHANGED <<dbVars, disk, lockVars, kind, proc, entry, raised, deleteVars, latest>>

(* ... or its query fails: nothing has been announced, nothing is said.    *)
RecheckRaises(c) ==
  /\ Contention
  /\ pc[c] = "locked"
  /\ raised' = [raised EXCEPT ![c] = TRUE]
  /\ Goto(c, "releasing")
  /\ UNCHANGED <<dbVars, disk, lockVars, kind, proc, entry, target, deleteVars, latest>>

Announce(c) ==
  /\ pc[c] = "announcing"
  /\ SetColumn("generating")
  /\ Goto(c, "rendering")
  /\ UNCHANGED <<analysis, row, disk, lockVars, kind, proc, entry, target, raised,
                 deleteVars, latest>>

(* build_report: os.replace of a complete temporary file, or an exception. *)
Render(c) ==
  /\ pc[c] = "rendering"
  /\ \/ file' = [file EXCEPT ![target[c]] = c] /\ Goto(c, "rendered")
     \/ Goto(c, "failing") /\ UNCHANGED file
  /\ UNCHANGED <<dbVars, stuck, lockVars, kind, proc, entry, target, raised, deleteVars, latest>>

(* generated_at as auto_now_add alone would have it: the first render's.    *)
SaveKeepsDescription(c) ==
  /\ pc[c] = "rendered"
  /\ file[target[c]] # NoCall
  /\ analysis = "done"
  /\ ReportId \in {NoCall, target[c]}
  /\ row'    = IF row = NoReport THEN [id |-> target[c], bytes |-> c] ELSE row
  /\ latest' = "rendered"
  /\ Goto(c, "adopting")
  /\ UNCHANGED <<analysis, said, disk, lockVars, kind, proc, entry, target, raised, deleteVars>>

(* report.save(): an UPDATE of the row the call read, or an INSERT.        *)
Save(c) ==
  /\ pc[c] = "rendered"
  /\ file[target[c]] # NoCall
  /\ analysis = "done"
  /\ ReportId \in {NoCall, target[c]}
  /\ row'    = [id |-> target[c], bytes |-> c]
  /\ latest' = "rendered"
  /\ Goto(c, "adopting")
  /\ UNCHANGED <<analysis, said, disk, lockVars, kind, proc, entry, target, raised, deleteVars>>

(* Any other error of save(): the file already has its name and stays.     *)
SaveRaises(c) ==
  /\ Contention
  /\ pc[c] = "rendered"
  /\ file[target[c]] # NoCall
  /\ Goto(c, "failing")
  /\ UNCHANGED <<dbVars, disk, lockVars, kind, proc, entry, target, raised, deleteVars, latest>>

(* IntegrityError: another process inserted its row first, or the analysis *)
(* the row points at is gone.                                              *)
SaveRefused(c) ==
  /\ pc[c] = "rendered"
  /\ file[target[c]] # NoCall
  /\ analysis = "deleted" \/ ReportId \notin {NoCall, target[c]}
  /\ Goto(c, "yielding")
  /\ UNCHANGED <<dbVars, disk, lockVars, kind, proc, entry, target, raised, deleteVars, latest>>

(* stat() does not find the file: a delete reclaimed it after the rename.  *)
StatFails(c) ==
  /\ pc[c] = "rendered"
  /\ file[target[c]] = NoCall
  /\ Goto(c, "failing")
  /\ UNCHANGED <<dbVars, disk, lockVars, kind, proc, entry, target, raised, deleteVars, latest>>

(* delete_paths: best effort, what cannot be removed is logged and left.   *)
Remove(ids) ==
  \E left \in SUBSET ids :
    /\ left = {} \/ Contention
    /\ file'  = [k \in Call |-> IF k \in ids \ left THEN NoCall ELSE file[k]]
    /\ stuck' = stuck \cup left

YieldWrongFile(c) ==
  /\ pc[c] = "yielding"
  /\ \/ row # NoReport /\ Goto(c, "adopting") /\ Remove({ReportId})
     \/ /\ row = NoReport \/ Contention
        /\ Goto(c, "failing") /\ UNCHANGED disk
  /\ UNCHANGED <<dbVars, lockVars, kind, proc, entry, target, raised, deleteVars, latest>>

(* The winner's row is adopted and our file discarded; without a winner    *)
(* the IntegrityError is raised, or what its query raised.                 *)
Yield(c) ==
  /\ pc[c] = "yielding"
  /\ \/ row # NoReport /\ Goto(c, "adopting") /\ Remove({target[c]})
     \/ /\ row = NoReport \/ Contention
        /\ Goto(c, "failing") /\ UNCHANGED disk
  /\ UNCHANGED <<dbVars, lockVars, kind, proc, entry, target, raised, deleteVars, latest>>

FailSilently(c) ==
  /\ pc[c] = "failing"
  /\ raised' = [raised EXCEPT ![c] = TRUE]
  /\ latest' = "failed"
  /\ Goto(c, "releasing")
  /\ UNCHANGED <<dbVars, disk, lockVars, kind, proc, entry, target, deleteVars>>

(* Whatever was raised: the column says failed before it leaves.           *)
Fail(c) ==
  /\ pc[c] = "failing"
  /\ SetColumn("failed")
  /\ raised' = [raised EXCEPT ![c] = TRUE]
  /\ latest' = "failed"
  /\ Goto(c, "releasing")
  /\ UNCHANGED <<analysis, row, disk, lockVars, kind, proc, entry, target, deleteVars>>

-----------------------------------------------------------------------------
(* delete_analysis: the paths first, the rows next, the files last.        *)

ResolvePaths ==
  /\ Deletes
  /\ deleting = "no"
  /\ deleting'  = "resolved"
  /\ leftovers' = {ReportId} \ {NoCall}
  /\ UNCHANGED <<dbVars, disk, lockVars, pc, kind, proc, entry, target, raised, latest>>

DropRows ==
  /\ deleting = "resolved"
  /\ deleting' = "dropped"
  /\ analysis' = "deleted"
  /\ row'      = NoReport
  /\ UNCHANGED <<said, disk, lockVars, pc, kind, proc, entry, target, raised, leftovers, latest>>

Reclaim ==
  /\ deleting = "dropped"
  /\ deleting' = "over"
  /\ Remove(leftovers)
  /\ UNCHANGED <<dbVars, lockVars, pc, kind, proc, entry, target, raised, leftovers, latest>>

(* A process dies: its threads stop where they are, its registry is gone.  *)
Crash(p) ==
  LET dying == {c \in Call : proc[c] = p /\ pc[c] \in Running} IN
  /\ Crashes
  /\ dying # {}
  /\ pc'       = [c \in Call |-> IF c \in dying THEN "lost" ELSE pc[c]]
  /\ registry' = [registry EXCEPT ![p] = NoCall]
  /\ UNCHANGED <<dbVars, disk, interest, holder, kind, proc, entry, target, raised,
                 deleteVars, latest>>

-----------------------------------------------------------------------------
LockStep(c) == Register(c) \/ Acquire(c) \/ Release(c) \/ Unregister(c)

RenderStep(c) ==
  \/ CheckExisting(c) \/ CheckRaises(c)
  \/ Adopt(c)
  \/ Recheck(c) \/ RecheckRaises(c)
  \/ Announce(c)
  \/ Render(c)
  \/ Save(c)
  \/ SaveRaises(c)
  \/ SaveRefused(c)
  \/ StatFails(c)
  \/ Yield(c)
  \/ Fail(c)

CallStep(c) == LockStep(c) \/ RenderStep(c) \/ HookStamps(c)

DeleteStep == ResolvePaths \/ DropRows \/ Reclaim

Next ==
  \/ \E c \in Call, p \in Proc : BeginHook(c, p) \/ BeginPost(c, p)
  \/ \E c \in Call : CallStep(c)
  \/ DeleteStep
  \/ \E p \in Proc : Crash(p)

Spec == Init /\ [][Next]_vars

(* A thread of a live process runs on, and a render ends.                  *)
FairSpec == Spec /\ \A c \in Call : WF_vars(CallStep(c))

-----------------------------------------------------------------------------
Quiet == \A c \in Call : pc[c] \in {"idle", "ended"}

(* In one process no two threads render the report at once: whoever waits  *)
(* waits on the lock object that is held, although objects come and go.    *)
OneRenderPerProcess ==
  \A c, d \in Call : /\ pc[c] \in Locked \ {"releasing"}
                     /\ pc[d] \in Locked \ {"releasing"}
                     /\ proc[c] = proc[d]
                     => c = d

(* A report the API lists can be downloaded: its file is on disk, in every *)
(* interleaving of renders, of the loser's clean-up and of a delete.       *)
RowHasItsFile == row # NoReport => file[ReportId] # NoCall

(* Calls that all ran in one process leave a row whose size, page count    *)
(* and generated_at are those of the bytes on disk, unless these come from *)
(* a call that failed: its save, after the file had got its name.          *)
RowDescribesItsFile ==
  /\ Quiet
  /\ \A c, d \in Call : {proc[c], proc[d]} \subseteq Proc => proc[c] = proc[d]
  /\ row # NoReport
  => file[ReportId] = row.bytes \/ raised[file[ReportId]]

(* No PDF is left that no row points at, unless a process crashed, its     *)
(* call failed (the database took no row for it), the file could not be    *)
(* removed, or it got its row after the delete of the analysis had looked. *)
NoStrayPdf ==
  Quiet /\ deleting # "dropped" =>
    \A c \in Call : file[c] # NoCall =>
      \/ ReportId = c
      \/ raised[file[c]]
      \/ c \in stuck
      \/ deleting = "over" /\ c \notin leftovers

(* "One state this row must never be abandoned in is generating": when no  *)
(* call is left, and none was cut off by a crash, the column is settled,   *)
(* unless the last statement that was to settle it gave up.                *)
GeneratingIsNotAbandoned ==
  Quiet /\ analysis = "done" /\ column = "generating" => unsaid

(* The column says ready only when there is a report.                      *)
ReadyMeansAReport == column = "ready" /\ analysis = "done" => row # NoReport

(* The column says failed only when the latest attempt really did fail,   *)
(* a hook said so again after it had let go of the lock, or the statement  *)
(* that was to say otherwise gave up.                                      *)
FailedMeansLatestFailed ==
  Quiet /\ analysis = "done" /\ column = "failed" =>
    latest = "failed" \/ unsaid \/ \E c \in Call : kind[c] = "hook" /\ raised[c]

(* What is left when every call has ended: a row that describes its file,  *)
(* no file without a row, and a column that tells the latest outcome, but  *)
(* for what an error of the database or the file system has prevented.     *)
SettledReportIsTrue == RowDescribesItsFile /\ NoStrayPdf /\ FailedMeansLatestFailed

(* Every call comes to an end: the lock is always handed on.               *)
EveryCallEnds == \A c \in Call : pc[c] \in Running ~> pc[c] \in Over

-----------------------------------------------------------------------------
(* Inductive invariants: what makes the ones above true step by step.      *)

Interested == Locked \cup {"waiting", "leaving"}

(* "adopting" is reached both outside the lock and under it.               *)
InLock(c) == pc[c] \in Interested \/ (pc[c] = "adopting" /\ entry[c] # NoCall)

Sharers(l) == {c \in Call : InLock(c) /\ entry[c] = l}

(* Why a process's calls exclude one another: all that wait, hold or leave *)
(* share the registered lock ...                                           *)
SharedLock == \A c \in Call : InLock(c) => entry[c] \in Call /\ entry[c] = registry[proc[c]]

(* ... whoever is past acquire holds it ...                                *)
HeldLock == \A c \in Call : InLock(c) /\ pc[c] \notin {"waiting", "leaving"} => holder[entry[c]] = c

(* ... its count is their number, so that the entry goes with the last ... *)
CountedLock ==
  \A p \in Proc : registry[p] # NoCall =>
    /\ proc[registry[p]] = p
    /\ interest[registry[p]] = Cardinality(Sharers(registry[p]))

(* ... and a call that still has to register may bring a lock of its own.  *)
FreshLock ==
  \A c \in Call : pc[c] \in {"idle", "called", "entering"} =>
    /\ interest[c] = 0
    /\ entry[c] = NoCall
    /\ \A p \in Proc : registry[p] # c

LockInv == SharedLock /\ HeldLock /\ CountedLock /\ FreshLock

(* Why rows, files and the column agree: a report row exists while its     *)
(* analysis does, a call that yields has a winner other than itself, a     *)
(* call that will say "ready" has seen a row, and while the column says    *)
(* "generating" there is a call that will settle it (or was cut off), or   *)
(* the last attempt to say otherwise gave up.                              *)
Promised(c) == pc[c] = "adopting" \/ (pc[c] \in {"releasing", "leaving", "stamping"} /\ ~raised[c])

Settler(c) ==
  \/ pc[c] \in {"rendering", "rendered", "yielding", "failing", "adopting", "lost"}
  \/ kind[c] = "hook" /\ pc[c] \in Running

(* A call runs in a process, knows under which id it renders, and gives    *)
(* way only to another's report.                                           *)
CallInv(c) ==
  /\ pc[c] # "idle" => proc[c] \in Proc
  /\ pc[c] = "idle" => proc[c] = NoProc /\ kind[c] = "post"
  /\ pc[c] \in {"announcing", "rendering", "rendered", "yielding"} => target[c] \in Call
  /\ pc[c] = "yielding" => analysis = "deleted" \/ ReportId \notin {NoCall, target[c]}
  /\ Promised(c) => analysis = "deleted" \/ row # NoReport

RenderingInv ==
  /\ deleting \in {"dropped", "over"} <=> analysis = "deleted"
  /\ analysis = "deleted" => row = NoReport
  /\ \A c \in Call : CallInv(c)
  /\ column = "generating" => analysis = "deleted" \/ unsaid \/ \E c \in Call : Settler(c)
  /\ RowHasItsFile
  /\ ReadyMeansAReport

(* Why a settled report is true.  Calls of one process find, under their   *)
(* lock, the row they looked at and the bytes they wrote, and a row whose  *)
(* file is not its own is about to be saved again ...                      *)
OneProcess == \A c, d \in Call : {proc[c], proc[d]} \subseteq Proc => proc[c] = proc[d]

SoleRender ==
  \A c \in Call :
    /\ pc[c] \in {"announcing", "rendering", "rendered"} => ReportId \in {NoCall, target[c]}
    /\ pc[c] = "rendered" => file[target[c]] \in {c, NoCall}
    /\ pc[c] = "yielding" => analysis = "deleted"

Rewritten ==
  \E c \in Call :
    \/ pc[c] = "lost"
    \/ pc[c] = "rendered" /\ target[c] = ReportId
    \/ pc[c] = "failing" /\ file[ReportId] = c

DescribedInv ==
  OneProcess =>
    /\ SoleRender
    /\ row # NoReport =>
         file[ReportId] = row.bytes \/ raised[file[ReportId]] \/ Rewritten

(* ... while the analysis is there, a call renders under its own id or the *)
(* row's, so that a file without a row is its namesake's, which is about   *)
(* to save it, take it away or fail; after the delete, what is found under *)
(* a reclaimed id was rendered since, by a call that fails ...             *)
TargetInv ==
  analysis = "done" =>
    \A c \in Call : pc[c] \in {"announcing", "rendering", "rendered", "yielding"} =>
      target[c] \in {c, ReportId}

FailingRender(c) ==
  pc[c] \in {"rendered", "yielding", "failing", "lost"} \/ raised[c]

Unowned(k) ==
  /\ file[k] = k
  /\ \/ pc[k] \in {"rendered", "yielding"} /\ target[k] = k
     \/ pc[k] \in {"failing", "lost"} \/ raised[k] \/ k \in stuck

StrayInv ==
  /\ TargetInv
  /\ \A k \in Call : file[k] # NoCall =>
       /\ analysis = "done" /\ ReportId # k => Unowned(k)
       /\ deleting = "over" /\ k \in leftovers => FailingRender(file[k]) \/ k \in stuck

(* ... and a failed column that a later render made untrue is about to be  *)
(* set to ready, or the attempt to do so gave up.                          *)
FailedInv ==
  /\ \A c \in Call : pc[c] = "stamping" => kind[c] = "hook"
  /\ column = "failed" /\ analysis = "done" =>
       \/ latest = "failed"
       \/ unsaid
       \/ \E c \in Call : pc[c] \in {"adopting", "lost"} \/ (kind[c] = "hook" /\ raised[c])

SettledInv == DescribedInv /\ StrayInv /\ FailedInv
=============================================================================
