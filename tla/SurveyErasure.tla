---------------------------- MODULE SurveyErasure ----------------------------
(***************************************************************************)
(* The permanent erasure of surveys, through failures and restores.        *)
(*                                                                         *)
(* A request is committed in the database and then written to an archive   *)
(* outside it; only then is the user told, and only then does a worker     *)
(* remove files and rows. If the database is lost, a backup from before    *)
(* the request may be restored: the erasures of the archive are then       *)
(* repeated before the application starts. Database, archive and object    *)
(* storage commit apart, and every process may die between any two steps.  *)
(***************************************************************************)
EXTENDS Naturals, FiniteSets

CONSTANTS Surveys,
          Processes,  \* requests, workers and operators at one time
          NoSurvey,   \* the survey of a process that has none
          MaxStarts,  \* bound: processes started, the restore gate aside
          MaxExports  \* bound: surveys with an export at one time

ASSUME ErasureAssumption == NoSurvey \notin Surveys /\ MaxStarts \in Nat

VARIABLES db,       \* survey, survey_deletion and survey_export_job of each survey
          stored,   \* the object of the export of each survey
          late,     \* uploads under way whose transaction has ended
          process,  \* the processes
          current,  \* current.json: no document or one, the set of its surveys
          pending,  \* pending.json
          phase,    \* online, or restored and not yet passed by the gate
          backup,   \* the last backup of database and objects, if any
          acked,    \* history: erasures confirmed to a user
          gone,     \* history: surveys whose erasure was completed
          starts    \* number of processes started

archive == <<current, pending>>
history == <<acked, gone>>
vars == <<db, stored, late, process, archive, phase, backup, history, starts>>

(* A survey is absent, live or in the trash, and has at most one export.   *)
(* The reference of the file is noted in the job once it is available, or  *)
(* cancelled after the upload.                                             *)
Rows == [survey : {"none", "live", "trash"},
         deletion : {"none", "pending", "completed"},
         export : {"none", "queued", "cancelled", "noted"}]

NoRows == [survey |-> "none", deletion |-> "none", export |-> "none"]

(* What is done once the archive holds doc: confirm a deletion to a user,  *)
(* erase a survey, or nothing (the sweep, the start of the API, the        *)
(* operator's publish). lock: the erasure lock, held while the database    *)
(* transaction around the publication is alive.                            *)
Process == [work : {"none", "confirm", "erase", "sweep", "operator", "render", "gate"},
            at : {"idle", "asked", "exported", "pending", "current", "published",
                  "rendering", "uploaded", "gating", "erasing", "deleted"},
            survey : Surveys \cup {NoSurvey},
            doc : SUBSET Surveys,
            lock : {"none", "held"}]

NoProcess == [work |-> "none", at |-> "idle", survey |-> NoSurvey, doc |-> {},
              lock |-> "none"]

Init == /\ db = [s \in Surveys |-> NoRows]
        /\ stored = [s \in Surveys |-> "none"]
        /\ late = {}
        /\ process = [p \in Processes |-> NoProcess]
        /\ current = {} /\ pending = {}
        /\ phase = "online"
        /\ backup = {}
        /\ acked = {} /\ gone = {}
        /\ starts = 0

(***************************************************************************)
(* Locks and processes                                                     *)
(***************************************************************************)

(* pg_advisory_xact_lock(hashtextextended(survey)), with the survey's row. *)
Free(s) == \A p \in Processes :
             process[p].survey = s =>
               process[p].at \notin {"rendering", "uploaded", "erasing", "deleted"}

(* pg_advisory_xact_lock(1937076838, 1). *)
ErasureFree == \A p \in Processes : process[p].lock = "none"

(* flock on the archive. *)
ArchiveFree == \A p \in Processes : process[p].at \notin {"pending", "current"}

At(p, at) == process[p].at = at
Become(p, r) == process' = [process EXCEPT ![p] = r]
Goto(p, at) == process' = [process EXCEPT ![p].at = at]

Start(p, work, s, at) ==
  /\ At(p, "idle") /\ starts < MaxStarts
  /\ starts' = starts + 1
  /\ Become(p, [NoProcess EXCEPT !.work = work, !.survey = s, !.at = at])

Online == phase = "online"
Requested == {s \in Surveys : db[s].deletion # "none"}

(***************************************************************************)
(* Surveys and their exports                                               *)
(***************************************************************************)

Change(s, rows) ==
  /\ Online /\ Free(s)
  /\ db' = [db EXCEPT ![s] = rows]
  /\ UNCHANGED <<stored, late, process, archive, phase, backup, history, starts>>

Create(s) == /\ db[s].survey = "none" /\ db[s].deletion = "none"
             /\ Change(s, [db[s] EXCEPT !.survey = "live"])

(* By a user, or by retention some time after its end. *)
Trash(s) == /\ db[s].survey = "live"
            /\ Change(s, [db[s] EXCEPT !.survey = "trash"])

(* Not once the erasure is requested: see also survey_erasure_guard. *)
TakeOut(s) == /\ db[s].survey = "trash" /\ db[s].deletion = "none"
              /\ Change(s, [db[s] EXCEPT !.survey = "live"])

OrderExport(s) == /\ db[s].survey = "live" /\ db[s].export = "none"
                  /\ Cardinality({t \in Surveys : db[t].export # "none"}) < MaxExports
                  /\ Change(s, [db[s] EXCEPT !.export = "queued"])

(* _cancel: the survey is in the trash or its requester lost the right to  *)
(* it. An earlier attempt may have uploaded.                               *)
CancelExport(s) ==
  /\ db[s].export = "queued"
  /\ Change(s, [db[s] EXCEPT !.export = IF stored[s] = "none" THEN "cancelled" ELSE "noted"])

(* _render keeps the survey locked until the reference is committed. *)
BeginRender(p, s) ==
  /\ Online /\ Free(s)
  /\ db[s].survey = "live" /\ db[s].export = "queued"
  /\ Start(p, "render", s, "rendering")
  /\ UNCHANGED <<db, stored, late, archive, phase, backup, history>>

(* put_immutable accepts an object that is already there. *)
Upload(p) ==
  /\ At(p, "rendering")
  /\ stored' = [stored EXCEPT ![process[p].survey] = "own"]
  /\ Goto(p, "uploaded")
  /\ UNCHANGED <<db, late, archive, phase, backup, history, starts>>

NoteExport(p) ==
  /\ At(p, "uploaded")
  /\ db' = [db EXCEPT ![process[p].survey].export = "noted"]
  /\ Become(p, NoProcess)
  /\ UNCHANGED <<stored, late, archive, phase, backup, history, starts>>

(* put_object runs in a thread and in the storage's own time: its request  *)
(* may be carried out after the handler timed out or its process died.     *)
LateUpload(s) ==
  /\ s \in late
  /\ late' = late \ {s}
  /\ stored' = [stored EXCEPT ![s] = IF @ = "none" THEN "stray" ELSE @]
  /\ UNCHANGED <<db, process, archive, phase, backup, history, starts>>

(***************************************************************************)
(* Requests                                                                *)
(***************************************************************************)

(* request_deletion, in one transaction with the checks of its caller. *)
Request(S) ==
  /\ \A s \in S : Free(s) /\ db[s].survey = "trash" /\ db[s].deletion = "none"
  /\ S = {} \/ ErasureFree
  /\ db' = [s \in Surveys |-> IF s \in S THEN [db[s] EXCEPT !.deletion = "pending"] ELSE db[s]]

(* author: delete-permanently. *)
Delete(p, s) ==
  /\ Online
  /\ Request({s})
  /\ Start(p, "confirm", s, "asked")
  /\ UNCHANGED <<stored, late, archive, phase, backup, history>>

(* The same request again, or deletion-status. *)
DeleteAgain(p, s) ==
  /\ Online /\ Free(s) /\ s \in Requested
  /\ Start(p, "confirm", s, "asked")
  /\ UNCHANGED <<db, stored, late, archive, phase, backup, history>>

(* sweep_retention; without a request also the start of the API. *)
Sweep(p, S) ==
  /\ Online
  /\ Request(S)
  /\ Start(p, "sweep", NoSurvey, "asked")
  /\ UNCHANGED <<stored, late, archive, phase, backup, history>>

(* AsyncpgSurveyDeletion.handle: the outbox delivers the event at least    *)
(* once, perhaps again after a failure or to two workers.                  *)
Handle(p, s) ==
  /\ Online /\ s \in Requested
  /\ Start(p, "erase", s, "asked")
  /\ UNCHANGED <<db, stored, late, archive, phase, backup, history>>

(***************************************************************************)
(* The archive                                                             *)
(***************************************************************************)

(* export_checkpoint_in_transaction, which keeps the erasure lock. *)
Export(p) ==
  /\ At(p, "asked") /\ ErasureFree
  /\ process' = [process EXCEPT ![p].at = "exported", ![p].doc = Requested,
                                ![p].lock = "held"]
  /\ UNCHANGED <<db, stored, late, archive, phase, backup, history, starts>>

(* recovery.py publish, also on a restored database: export_checkpoint     *)
(* returns the lock before the publication.                                *)
OperatorExports(p) ==
  /\ At(p, "idle") /\ ErasureFree /\ starts < MaxStarts
  /\ starts' = starts + 1
  /\ Become(p, [NoProcess EXCEPT !.work = "operator", !.at = "exported", !.doc = Requested])
  /\ UNCHANGED <<db, stored, late, archive, phase, backup, history>>

(* The transaction is lost or the request cancelled. The thread that       *)
(* publishes goes on; nobody hears of its success.                         *)
Detach(p) ==
  /\ process[p].lock = "held"
  /\ process' = [process EXCEPT ![p].lock = "none"]
  /\ UNCHANGED <<db, stored, late, archive, phase, backup, history, starts>>

(* Mutant: the documents in the archive are not compared. *)
ExtendsAnything(p) == TRUE

(* extends: no erasure of the archive is left out. *)
Extends(p) == \A old \in current \cup pending : old \subseteq process[p].doc

Published(p) == IF process[p].lock = "held"
                THEN [process[p] EXCEPT !.at = "published", !.lock = "none"]
                ELSE NoProcess

Unchanged(p) ==
  /\ At(p, "exported") /\ ArchiveFree
  /\ process[p].work # "operator"
  /\ current = {process[p].doc} /\ pending = {}
  /\ Become(p, Published(p))
  /\ UNCHANGED <<db, stored, late, archive, phase, backup, history, starts>>

WritePending(p) ==
  /\ At(p, "exported") /\ ArchiveFree /\ Extends(p)
  /\ process[p].work = "operator" \/ current # {process[p].doc} \/ pending # {}
  /\ pending' = {process[p].doc}
  /\ Goto(p, "pending")
  /\ UNCHANGED <<db, stored, late, current, phase, backup, history, starts>>

WriteCurrent(p) ==
  /\ At(p, "pending")
  /\ current' = {process[p].doc}
  /\ Goto(p, "current")
  /\ UNCHANGED <<db, stored, late, pending, phase, backup, history, starts>>

RemovePending(p) ==
  /\ At(p, "current")
  /\ pending' = {}
  /\ Become(p, Published(p))
  /\ UNCHANGED <<db, stored, late, current, phase, backup, history, starts>>

(* The user is told, or the sweep reports success. *)
Report(p) ==
  /\ At(p, "published") /\ process[p].work \in {"confirm", "sweep"}
  /\ acked' = IF process[p].work = "confirm" THEN acked \cup {process[p].survey} ELSE acked
  /\ Become(p, NoProcess)
  /\ UNCHANGED <<db, stored, late, archive, phase, backup, gone, starts>>

(***************************************************************************)
(* The erasure                                                             *)
(***************************************************************************)

(* Mutant: the worker erases without a look at the archive. *)
ReadyUnpublished(p) == At(p, "asked") \/ At(p, "published")

Ready(p) == At(p, "published")

(* _erase takes the survey's lock; a completed erasure is left alone. *)
BeginErase(p) ==
  LET s == process[p].survey IN
  /\ Ready(p) /\ process[p].work = "erase"
  /\ Free(s)
  /\ IF db[s].deletion = "completed" THEN Become(p, NoProcess) ELSE Goto(p, "erasing")
  /\ UNCHANGED <<db, stored, late, archive, phase, backup, history, starts>>

(* Mutant: only objects whose reference was noted are deleted. *)
FilesNoted(s) == db[s].export = "noted"

(* The noted version, and what is found where the job uploads. *)
HasFiles(s) == db[s].export # "none"

DeleteFiles(p) ==
  LET s == process[p].survey IN
  /\ At(p, "erasing")
  /\ stored' = [stored EXCEPT ![s] = IF HasFiles(s) THEN "none" ELSE @]
  /\ Goto(p, "deleted")
  /\ UNCHANGED <<db, late, archive, phase, backup, history, starts>>

Complete(p) ==
  LET s == process[p].survey IN
  /\ At(p, "deleted")
  /\ db' = [db EXCEPT ![s] = [NoRows EXCEPT !.deletion = "completed"]]
  /\ gone' = gone \cup {s}
  /\ IF process[p].work = "gate"
     THEN process' = [process EXCEPT ![p].at = "gating", ![p].survey = NoSurvey]
     ELSE Become(p, NoProcess)
  /\ UNCHANGED <<stored, late, archive, phase, backup, acked, starts>>

(* The process dies, or the database, the archive or the storage fails.    *)
(* An upload may have left; a gate leaves the application offline.         *)
Fail(p) ==
  /\ ~At(p, "idle")
  /\ Become(p, NoProcess)
  /\ late' \in IF At(p, "rendering") THEN {late, late \cup {process[p].survey}} ELSE {late}
  /\ UNCHANGED <<db, stored, archive, phase, backup, history, starts>>

(***************************************************************************)
(* Backup and restore                                                      *)
(***************************************************************************)

AllStop == process' = [p \in Processes |-> NoProcess]

(* backup.sh stops all writers before it copies database and objects. *)
TakeBackup ==
  /\ Online /\ backup = {}
  /\ backup' = {[db |-> db, stored |-> stored]}
  /\ AllStop
  /\ UNCHANGED <<db, stored, late, archive, phase, history, starts>>

(* The database is lost at any time and restored on a fresh system. *)
Restore ==
  /\ \E b \in backup : db' = b.db /\ stored' = b.stored
  /\ late' = {}
  /\ phase' = "restored"
  /\ AllStop
  /\ UNCHANGED <<archive, backup, history, starts>>

(* An erasure of the archive is requested anew, the survey in the trash. *)
Revoked(r) == [r EXCEPT !.deletion = "pending",
                        !.survey = IF @ = "none" THEN "none" ELSE "trash"]

(* fetch, and the transaction of reapply_checkpoint: every erasure of the  *)
(* archive is requested, also one the backup knows as completed.           *)
Reapply(p) ==
  /\ phase = "restored"
  /\ \A q \in Processes : process[q].work # "gate"
  /\ At(p, "idle") /\ ArchiveFree /\ pending = {}
  /\ \E doc \in current :
       /\ Requested \subseteq doc
       /\ \A s \in Requested : db[s].survey # "live"
       /\ db' = [s \in Surveys |-> IF s \in doc THEN Revoked(db[s]) ELSE db[s]]
       /\ Become(p, [NoProcess EXCEPT !.work = "gate", !.at = "gating", !.doc = doc])
  /\ UNCHANGED <<stored, late, archive, phase, backup, history, starts>>

(* The eraser without its publisher. *)
EraseNext(p) ==
  /\ At(p, "gating")
  /\ \E s \in process[p].doc :
       process' = [process EXCEPT ![p].at = "erasing", ![p].survey = s, ![p].doc = @ \ {s}]
  /\ UNCHANGED <<db, stored, late, archive, phase, backup, history, starts>>

GateDone(p) == At(p, "gating") /\ process[p].doc = {}

PassGate(p) ==
  /\ GateDone(p)
  /\ phase' = "online"
  /\ Become(p, NoProcess)
  /\ UNCHANGED <<db, stored, late, archive, backup, history, starts>>

Next == \/ \E s \in Surveys : \/ Create(s)
                              \/ Trash(s)
                              \/ TakeOut(s)
                              \/ OrderExport(s)
                              \/ CancelExport(s)
                              \/ LateUpload(s)
        \/ \E p \in Processes, s \in Surveys : \/ BeginRender(p, s)
                                               \/ Delete(p, s)
                                               \/ DeleteAgain(p, s)
                                               \/ Handle(p, s)
        \/ \E p \in Processes, S \in SUBSET Surveys : Sweep(p, S)
        \/ \E p \in Processes : \/ Upload(p)
                                \/ NoteExport(p)
                                \/ Export(p)
                                \/ OperatorExports(p)
                                \/ Detach(p)
                                \/ Unchanged(p)
                                \/ WritePending(p)
                                \/ WriteCurrent(p)
                                \/ RemovePending(p)
                                \/ Report(p)
                                \/ BeginErase(p)
                                \/ DeleteFiles(p)
                                \/ Complete(p)
                                \/ Fail(p)
                                \/ Reapply(p)
                                \/ EraseNext(p)
                                \/ PassGate(p)
        \/ TakeBackup
        \/ Restore

Spec == Init /\ [][Next]_vars

(***************************************************************************)
(* Properties                                                              *)
(***************************************************************************)

(* The variables hold values of their types. *)
TypeOK == /\ db \in [Surveys -> Rows]
          /\ stored \in [Surveys -> {"none", "own", "stray"}]
          /\ late \subseteq Surveys
          /\ process \in [Processes -> Process]
          /\ current \subseteq SUBSET Surveys
          /\ pending \subseteq SUBSET Surveys
          /\ phase \in {"online", "restored"}
          /\ backup \subseteq [db : [Surveys -> Rows],
                               stored : [Surveys -> {"none", "own", "stray"}]]
          /\ acked \subseteq Surveys
          /\ gone \subseteq Surveys
          /\ starts \in Nat

(* An erasure the user was told of stands: whenever the application runs,  *)
(* whatever was restored and whoever died publishing, it is on record and  *)
(* the survey is not in use (author, publish, extends, reapply_checkpoint).*)
ConfirmedErasureStands ==
  Online => \A s \in acked : db[s].deletion # "none" /\ db[s].survey # "live"

(* A survey whose erasure was once completed is never there again while    *)
(* the application runs, although a backup may hold it: neither its rows   *)
(* nor a request that could still be refused (erase, reapply_checkpoint).  *)
ErasedStaysErased ==
  Online => \A s \in gone : db[s] = [NoRows EXCEPT !.deletion = "completed"]

(* After a completed erasure no file is left, but one whose upload         *)
(* outlived its transaction; and until an erasure is requested, what the   *)
(* export job names is there (_erase, _render, _cancel).                   *)
FilesMatchRows ==
  \A s \in Surveys :
    /\ db[s].deletion = "completed" => stored[s] # "own"
    /\ db[s].deletion = "none" /\ db[s].export = "noted" => stored[s] # "none"
=============================================================================
