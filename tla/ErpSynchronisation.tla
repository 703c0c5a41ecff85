-------------------------- MODULE ErpSynchronisation --------------------------
(***************************************************************************)
(* The catalogue of project tasks and its synchronisation with the ERP.    *)
(*                                                                         *)
(* A person launches one global run; a thread of the server reads the ERP  *)
(* page by page, then applies it project by project, each project in its   *)
(* own transaction and each outcome recorded in another.  Meanwhile the    *)
(* ERP changes, people synchronise one project or import a file, and the   *)
(* server may stop, crash and start again.                                 *)
(*                                                                         *)
(* A row of the catalogue is what requests refer to.  Labels, budgets and  *)
(* the freshness of a row are written with it and left out, as is whether  *)
(* a task is active.  What leaves the labour account group, or is closed,  *)
(* is absent from the ERP's listing.                                       *)
(***************************************************************************)
EXTENDS FiniteSetsExt, SequencesExt, Sorting

CONSTANTS
  Projects,
  Tasks,        \* TaskIDs, by which the ERP orders its listing
  Codes,        \* task codes of a project
  Workforce,    \* those that resolve to a resource class
  PageSize,
  Reusing,      \* TRUE: the ERP may give a code to another task
  NoTask,
  MaxRuns, MaxErpChanges  \* bounds on launches and on what happens outside

ASSUME ErpAssumption ==
  /\ Tasks \subseteq Nat \ {0}
  /\ NoTask \notin Tasks \cup [project: Projects, code: Codes]
  /\ Workforce \subseteq Codes
  /\ PageSize \in Nat \ {0}
  /\ IsFiniteSet(Projects)
  /\ MaxRuns \in Nat /\ MaxErpChanges \in Nat

VARIABLES
  erp,        \* the tasks of the ERP
  owner,      \* the task the ERP gave a code to
  project,    \* Project: linked to the ERP, not linked, or inactive
  catalogue,  \* TaskCatalogEntry, in the order of creation
  runs,       \* AcumaticaProjectTaskSyncRun, in the order of launch
  server,     \* "up", "stopping" or "down"
  launching,  \* run inserted and not yet given to the executor, or 0
  queue,      \* what the executor holds
  work,       \* what its thread does
  targeted,   \* the synchronisation of one project under way
  changes     \* number of changes outside

erpVars == <<erp, owner, project, catalogue, runs, server, launching, queue,
             work, targeted, changes>>
outside == <<erp, owner, project, changes>>

Item == [task: Tasks \cup {NoTask}, project: Projects, code: Codes]
Linkage == {"linked", "unlinked", "inactive"}
Outcome == {"synchronized", "ignored", "rejected"}
Active == {"PENDING", "RUNNING"}
Ended == {"COMPLETED", "COMPLETED_WITH_ERRORS", "FAILED", "INTERRUPTED"}

Run == [status: Active \cup Ended, key: BOOLEAN, total: Nat,
        results: UNION {[S -> Outcome] : S \in SUBSET Projects}]

Resting == [at |-> "rest"]

ErpTypeOK ==
  /\ erp \in [Tasks -> [project: Projects, code: Codes] \cup {NoTask}]
  /\ owner \in [Projects \X Codes -> Tasks \cup {NoTask}]
  /\ project \in [Projects -> Linkage]
  /\ catalogue \in Seq(Item)
  /\ runs \in Seq(Run) /\ Len(runs) <= MaxRuns
  /\ server \in {"up", "stopping", "down"}
  /\ launching \in 0 .. MaxRuns
  /\ queue \in Seq(1 .. MaxRuns)
  /\ work.at \in {"rest", "discover", "page", "projects", "record"}
  /\ changes \in 0 .. MaxErpChanges

\* One task the ERP already has, and one imported from a file.
ErpInit ==
  /\ \E t \in Tasks, p \in Projects, c \in Codes :
       /\ erp = [u \in Tasks |-> IF u = t THEN [project |-> p, code |-> c]
                                 ELSE NoTask]
       /\ owner = [held \in Projects \X Codes |->
                     IF held = <<p, c>> THEN t ELSE NoTask]
       /\ catalogue \in
            {<<[task |-> NoTask, project |-> p, code |-> d]>> : d \in Codes}
  /\ project \in [Projects -> Linkage]
  /\ runs = <<>> /\ server = "up" /\ launching = 0 /\ queue = <<>>
  /\ work = Resting /\ targeted = Resting /\ changes = 0

-----------------------------------------------------------------------------
(* The catalogue.                                                          *)

\* A row imported from a file does not own the TaskID, and never clears it.
Written_Cleared(row, item) == item

Written(row, item) ==
  IF item.task = NoTask THEN [item EXCEPT !.task = row.task] ELSE item

\* upsert, on the rows and whether all went well so far.  The TaskID finds a
\* row before its project and code do; a row found by these is adopted.
Upsert(done, item) ==
  LET rows == done.rows
      byTask == {i \in DOMAIN rows :
                   item.task # NoTask /\ rows[i].task = item.task}
      byCode == {i \in DOMAIN rows : /\ rows[i].project = item.project
                                     /\ rows[i].code = item.code}
      found == IF byTask # {} THEN byTask ELSE byCode
      conflict == byTask # {} /\ byCode # {} /\ byTask # byCode
      ignored == found = {} /\ item.task # NoTask /\ item.code \notin Workforce
  IN  IF ~done.well \/ ignored THEN done
      ELSE IF conflict THEN [done EXCEPT !.well = FALSE]
      ELSE [done EXCEPT !.rows =
              IF found = {} THEN Append(rows, item)
              ELSE [i \in DOMAIN rows |->
                      IF i \in found THEN Written(rows[i], item)
                      ELSE rows[i]]]

\* _synchronize_rows: all the tasks of a project, or none, in the order of the
\* answer, so that the latest is the last that is applied.
Latest(items) == CHOOSE x \in items : \A y \in items : y.task <= x.task

Synchronised(items) ==
  MapThenFoldSet(LAMBDA item, done : Upsert(done, item),
                 [rows |-> catalogue, well |-> TRUE],
                 LAMBDA item : item, Latest, items)

-----------------------------------------------------------------------------
(* The run.                                                                *)

ActiveRuns == {r \in DOMAIN runs : runs[r].key}

\* launch: an active run is returned, whatever asks for another.
LaunchFree == ActiveRuns = {} /\ Len(runs) < MaxRuns

Launch ==
  /\ server = "up" /\ launching = 0
  /\ LaunchFree
  /\ runs' = Append(runs, [status |-> "PENDING", key |-> TRUE, total |-> 0,
                           results |-> [p \in {} |-> "ignored"]])
  /\ launching' = Len(runs')
  /\ UNCHANGED <<outside, catalogue, server, queue, work, targeted>>

EndedAs_KeyKept(r, status) == [runs EXCEPT ![r].status = status]

EndedAs(r, status) ==
  [runs EXCEPT ![r].status = status, ![r].key = FALSE]

\* _fail_run
Failing(r) ==
  IF runs[r].status \in Ended THEN runs ELSE EndedAs(r, "FAILED")

\* An executor that is shut down accepts nothing.
Submit ==
  /\ launching # 0
  /\ launching' = 0
  /\ \/ server = "up" /\ queue' = Append(queue, launching) /\ UNCHANGED runs
     \/ server = "stopping" /\ runs' = Failing(launching) /\ UNCHANGED queue
  /\ UNCHANGED <<outside, catalogue, server, work, targeted>>

\* _execute
Begin ==
  /\ work = Resting /\ queue # <<>>
  /\ queue' = Tail(queue)
  /\ LET r == Head(queue) IN
     IF runs[r].status = "PENDING"
     THEN /\ runs' = [runs EXCEPT ![r].status = "RUNNING"]
          /\ work' = [at |-> "discover", run |-> r]
     ELSE UNCHANGED <<runs, work>>
  /\ UNCHANGED <<outside, catalogue, server, launching, targeted>>

\* The projects are listed once; those linked to the ERP are read from it.
Discover ==
  /\ work.at = "discover"
  /\ runs' = [runs EXCEPT ![work.run].total = Cardinality(Projects)]
  /\ work' = [at |-> IF \E p \in Projects : project[p] = "linked"
                     THEN "page" ELSE "projects",
              run |-> work.run, listed |-> project, todo |-> Projects,
              rows |-> <<>>]
  /\ UNCHANGED <<outside, catalogue, server, launching, queue, targeted>>

\* What the ERP answers now, ordered by TaskID.
Listing ==
  LET order == Increasing({t \in Tasks : erp[t] # NoTask})
  IN  [i \in DOMAIN order |->
         [task |-> order[i], project |-> erp[order[i]].project,
          code |-> erp[order[i]].code]]

Page ==
  LET skip == Len(work.rows)
  IN  SubSeq(Listing, skip + 1, Min({skip + PageSize, Len(Listing)}))

\* A task whose rows disagree makes the whole answer invalid.
Consistent(rows) ==
  \A x, y \in ToSet(rows) : x.task = y.task => x = y

\* fetch_project_snapshots: pages follow each other by what was received.
FetchPage ==
  /\ work.at = "page"
  /\ work' = [at |-> IF Len(Page) < PageSize THEN "projects" ELSE "page",
              run |-> work.run, listed |-> work.listed, todo |-> work.todo,
              rows |-> work.rows \o Page]
  /\ Len(Page) < PageSize => Consistent(work'.rows)
  /\ UNCHANGED <<outside, catalogue, runs, server, launching, queue, targeted>>

\* The ERP or its answer cannot be read, or the database fails.
RunFails ==
  /\ work # Resting
  /\ runs' = Failing(work.run)
  /\ work' = Resting
  /\ UNCHANGED <<outside, catalogue, server, launching, queue, targeted>>

Snapshot(p) == {x \in ToSet(work.rows) : x.project = p}

\* _process_project: the transaction of one project, which may be refused.
OutcomeFor(p, done) ==
  CASE work.listed[p] = "inactive" -> "ignored"
    [] work.listed[p] = "unlinked" -> "rejected"
    [] OTHER -> IF done.well THEN "synchronized" ELSE "rejected"

ApplyProject ==
  /\ work.at = "projects"
  /\ \E p \in work.todo, fails \in BOOLEAN :
       LET done == IF fails THEN [rows |-> catalogue, well |-> FALSE]
                   ELSE Synchronised(Snapshot(p))
           outcome == OutcomeFor(p, done)
       IN
       /\ catalogue' = IF outcome = "synchronized" THEN done.rows
                       ELSE catalogue
       /\ work' = [at |-> "record", run |-> work.run, listed |-> work.listed,
                   todo |-> work.todo \ {p}, rows |-> work.rows,
                   project |-> p, outcome |-> outcome]
  /\ UNCHANGED <<outside, runs, server, launching, queue, targeted>>

\* _record_project
RecordProject ==
  /\ work.at = "record"
  /\ runs' = IF runs[work.run].status = "RUNNING"
             THEN [runs EXCEPT ![work.run].results =
                     [p \in DOMAIN @ \cup {work.project} |->
                        IF p = work.project THEN work.outcome ELSE @[p]]]
             ELSE runs
  /\ work' = [at |-> "projects", run |-> work.run, listed |-> work.listed,
              todo |-> work.todo, rows |-> work.rows]
  /\ UNCHANGED <<outside, catalogue, server, launching, queue, targeted>>

Verdict(r) ==
  IF \E p \in DOMAIN runs[r].results : runs[r].results[p] = "rejected"
  THEN "COMPLETED_WITH_ERRORS" ELSE "COMPLETED"

\* _complete_run
Complete ==
  /\ work.at = "projects" /\ work.todo = {}
  /\ runs' = IF runs[work.run].status = "RUNNING"
             THEN EndedAs(work.run, Verdict(work.run)) ELSE runs
  /\ work' = Resting
  /\ UNCHANGED <<outside, catalogue, server, launching, queue, targeted>>

\* The thread of the executor.
Worker ==
  \/ Begin \/ Discover \/ FetchPage \/ RunFails \/ ApplyProject
  \/ RecordProject \/ Complete

-----------------------------------------------------------------------------
(* The server.                                                             *)

\* shutdown: what is queued is dropped, what runs goes on.
Stop ==
  /\ server = "up"
  /\ server' = "stopping"
  /\ queue' = <<>>
  /\ UNCHANGED <<outside, catalogue, runs, launching, work, targeted>>

\* The interpreter waits for the thread of the executor.
Exit ==
  /\ server = "stopping" /\ launching = 0 /\ work = Resting
  /\ server' = "down"
  /\ targeted' = Resting
  /\ UNCHANGED <<outside, catalogue, runs, launching, queue, work>>

ServerCrash ==
  /\ server # "down"
  /\ server' = "down"
  /\ launching' = 0 /\ queue' = <<>> /\ work' = Resting /\ targeted' = Resting
  /\ UNCHANGED <<outside, catalogue, runs>>

Interrupted_RunningOnly == {r \in ActiveRuns : runs[r].status = "RUNNING"}

\* reconcile_interrupted_runs
Interrupted == ActiveRuns

Restart ==
  /\ server = "down"
  /\ server' = "up"
  /\ runs' = [r \in DOMAIN runs |->
                IF r \in Interrupted
                THEN [runs[r] EXCEPT !.status = "INTERRUPTED", !.key = FALSE]
                ELSE runs[r]]
  /\ UNCHANGED <<outside, catalogue, launching, queue, work, targeted>>

-----------------------------------------------------------------------------
(* What people and the ERP do meanwhile.                                   *)

\* synchronize_project: the answer of the ERP, then the transaction.
BeginTargeted ==
  /\ server = "up" /\ targeted = Resting
  /\ \E p \in Projects :
       /\ project[p] # "unlinked"
       /\ targeted' = [at |-> "apply",
                       items |-> {x \in ToSet(Listing) : x.project = p}]
  /\ UNCHANGED <<outside, catalogue, runs, server, launching, queue, work>>

CommitTargeted ==
  /\ targeted.at = "apply"
  /\ LET done == Synchronised(targeted.items) IN
     catalogue' = IF done.well THEN done.rows ELSE catalogue
  /\ targeted' = Resting
  /\ UNCHANGED <<outside, runs, server, launching, queue, work>>

Happens == changes < MaxErpChanges /\ changes' = changes + 1

\* A task of a file, which has no TaskID.
ImportFile ==
  /\ Happens
  /\ \E p \in Projects, c \in Codes :
       catalogue' = Upsert([rows |-> catalogue, well |-> TRUE],
                           [task |-> NoTask, project |-> p, code |-> c]).rows
  /\ UNCHANGED <<erp, owner, project, runs, server, launching, queue, work,
                 targeted>>

\* upsert_external_project binds a project to the ERP and takes its status.
SyncProject ==
  /\ Happens
  /\ \E p \in Projects, status \in {"linked", "inactive"} :
       project' = [project EXCEPT ![p] = status]
  /\ UNCHANGED <<erp, owner, catalogue, runs, server, launching, queue, work,
                 targeted>>

\* A task appears, changes its code, or disappears.
ErpChanges ==
  /\ Happens
  /\ \E t \in Tasks :
       \/ /\ erp[t] # NoTask
          /\ erp' = [erp EXCEPT ![t] = NoTask]
          /\ UNCHANGED owner
       \/ \E p \in Projects, c \in Codes :
            /\ erp[t] # NoTask => erp[t].project = p
            /\ \A u \in Tasks \ {t} : erp[u] # [project |-> p, code |-> c]
            /\ Reusing \/ owner[<<p, c>>] \in {t, NoTask}
            /\ erp' = [erp EXCEPT ![t] = [project |-> p, code |-> c]]
            /\ owner' = [owner EXCEPT ![<<p, c>>] = t]
  /\ UNCHANGED <<project, catalogue, runs, server, launching, queue, work,
                 targeted>>

ErpNext ==
  \/ Launch \/ Submit \/ Worker
  \/ Stop \/ Exit \/ ServerCrash \/ Restart
  \/ BeginTargeted \/ CommitTargeted \/ ImportFile \/ SyncProject \/ ErpChanges

\* Threads go on with what they do, and the server is started again.
ErpFairness ==
  /\ WF_erpVars(Submit) /\ WF_erpVars(Worker)
  /\ WF_erpVars(Exit) /\ WF_erpVars(Restart)

ErpSpec == ErpInit /\ [][ErpNext]_erpVars /\ ErpFairness

-----------------------------------------------------------------------------
\* Requests and approvals refer to a row of the catalogue: a row that carries
\* the TaskID of the ERP keeps it, whatever is renamed, removed or imported
\* again, and however old the answer that is applied.
TaskKeepsItsRow ==
  [][\A i \in DOMAIN catalogue :
       /\ i \in DOMAIN catalogue'
       /\ catalogue[i].task # NoTask =>
            catalogue'[i].task = catalogue[i].task]_erpVars

\* The active run bars the launch of another: somebody is about to end it, or
\* the next start of the server does.  What it says when it has completed is
\* what became of each project it listed.
RunsAreAccountedFor ==
  /\ Cardinality(ActiveRuns) <= 1
  /\ \A r \in ActiveRuns :
       \/ server # "up" \/ r = launching
       \/ r \in ToSet(queue) \/ (work # Resting /\ work.run = r)
  /\ \A r \in DOMAIN runs :
       /\ runs[r].key <=> runs[r].status \in Active
       /\ runs[r].status \in {"COMPLETED", "COMPLETED_WITH_ERRORS"} =>
            /\ Cardinality(DOMAIN runs[r].results) = runs[r].total
            /\ runs[r].status = "COMPLETED" <=>
                 \A p \in DOMAIN runs[r].results :
                   runs[r].results[p] # "rejected"

\* A run that was launched ends, through stops and crashes.
EveryRunEnds ==
  \A r \in 1 .. MaxRuns :
    (r \in DOMAIN runs /\ runs[r].status \in Active)
      ~> (r \in DOMAIN runs /\ runs[r].status \in Ended)
=============================================================================
