------------------------- MODULE SurveyErasureProofs -------------------------
(***************************************************************************)
(* An erasure that was confirmed or completed stands through any restore,  *)
(* for any number of surveys and processes.                                *)
(*                                                                         *)
(* The argument: what a user is told of, or a worker begins to remove, is  *)
(* in the archive (PublishedIsArchived, ErasureHeld), the archive never    *)
(* forgets (WriterExtends), and the gate requests and erases all of it     *)
(* before the application runs again (GateCovers).                         *)
(***************************************************************************)
EXTENDS SurveyErasure, TLAPS

Works(p, works) == process[p].work \in works
Stands(p, ats) == process[p].at \in ats

Locking == {"rendering", "uploaded", "erasing", "deleted"}
Publishing == {"exported", "pending", "current"}

(* What a restore brings back: every document of the archive names it. *)
Archived == {s \in Surveys : current # {} /\ \A doc \in current : s \in doc}

RowsSound(d, f) ==
  \A s \in Surveys :
    /\ d[s].deletion # "none" => d[s].survey # "live"
    /\ d[s].deletion = "completed" => d[s] = [NoRows EXCEPT !.deletion = "completed"]
    /\ d[s].export = "none" => f[s] # "own"
    /\ d[s].deletion = "none" /\ d[s].export = "noted" => f[s] # "none"

BackupSound == \A b \in backup : RowsSound(b.db, b.stored)

(* Which steps belong to which work. *)
StepsOfWork ==
  \A p \in Processes :
    /\ Works(p, {"none"}) <=> Stands(p, {"idle"})
    /\ Works(p, {"confirm", "sweep"}) => Stands(p, {"asked", "published"} \cup Publishing)
    /\ Works(p, {"erase"}) =>
         Stands(p, {"asked", "published", "erasing", "deleted"} \cup Publishing)
    /\ Works(p, {"operator"}) => Stands(p, Publishing)
    /\ Works(p, {"render"}) => Stands(p, {"rendering", "uploaded"})
    /\ Works(p, {"gate"}) => Stands(p, {"gating", "erasing", "deleted"})
    /\ process[p].lock = "held" =>
         Stands(p, Publishing) /\ Works(p, {"confirm", "erase", "sweep"})
    /\ Works(p, {"confirm", "erase", "render"}) \/ Stands(p, {"erasing", "deleted"})
         => process[p].survey \in Surveys
    /\ Works(p, {"confirm", "erase", "sweep", "render"}) => Online
    /\ Works(p, {"gate"}) => ~Online

LocksExclusive ==
  \A p, q \in Processes :
    p # q /\ Stands(p, Locking) /\ Stands(q, Locking) => process[p].survey # process[q].survey

RenderHeld ==
  \A p \in Processes : Works(p, {"render"}) =>
    LET s == process[p].survey IN
    /\ db[s].survey = "live" /\ db[s].deletion = "none" /\ db[s].export = "queued"
    /\ At(p, "uploaded") => stored[s] = "own"

ErasureHeld ==
  \A p \in Processes : Stands(p, {"erasing", "deleted"}) =>
    /\ db[process[p].survey].deletion = "pending"
    /\ process[p].survey \in Archived
    /\ At(p, "deleted") => stored[process[p].survey] # "own"

(* A confirmation or an erasure is on the way of its own request. *)
Followed(p) == /\ process[p].survey \in Requested
               /\ Stands(p, Publishing) => process[p].survey \in process[p].doc
               /\ At(p, "published") => process[p].survey \in Archived

PublishedIsArchived == \A p \in Processes : Works(p, {"confirm", "erase"}) => Followed(p)

(* One writer, whose document extends the current one. *)
WriterExtends ==
  /\ \A p, q \in Processes :
       Stands(p, {"pending", "current"}) /\ Stands(q, {"pending", "current"}) => p = q
  /\ \A p \in Processes :
       /\ At(p, "pending") => \A old \in current : old \subseteq process[p].doc
       /\ At(p, "current") => current = {process[p].doc}
  /\ \A a, b \in current : a = b

HistoryArchived == acked \cup gone \subseteq Archived

(* One gate, with everything before it that it has not erased yet. *)
Covered(p) == /\ process[p].doc \subseteq Archived
              /\ \A s \in process[p].doc : db[s].deletion = "pending" /\ s # process[p].survey
              /\ \A s \in acked \cup gone : \/ s \in process[p].doc
                                            \/ s = process[p].survey
                                            \/ db[s].deletion = "completed"
              /\ At(p, "gating") => process[p].survey = NoSurvey

OneGate == \A p, q \in Processes : Works(p, {"gate"}) /\ Works(q, {"gate"}) => p = q

GateCovers == OneGate /\ \A p \in Processes : Works(p, {"gate"}) => Covered(p)

OnlineKept == Online => /\ acked \subseteq Requested
                        /\ \A s \in gone : db[s].deletion = "completed"

IInv == /\ TypeOK /\ RowsSound(db, stored) /\ BackupSound
        /\ StepsOfWork /\ LocksExclusive /\ RenderHeld /\ ErasureHeld
        /\ PublishedIsArchived /\ WriterExtends /\ HistoryArchived
        /\ GateCovers /\ OnlineKept

-----------------------------------------------------------------------------
(* Types. *)

(* Requests are of surveys. *)
LEMMA RequestedTyped == Requested \subseteq Surveys
  BY DEF Requested

(* A publication ends with a process of the right type. *)
LEMMA PublishedTyped == ASSUME TypeOK, NEW p \in Processes PROVE Published(p) \in Process
<1>1. process[p] \in Process
  BY DEF TypeOK
<1>2. [process[p] EXCEPT !.at = "published", !.lock = "none"] \in Process
  BY <1>1 DEF Process
<1>3. NoProcess \in Process
  BY DEF Process, NoProcess
<1> QED BY <1>2, <1>3 DEF Published

(* What the gate makes of a row. *)
LEMMA ReappliedTyped ==
  ASSUME NEW r \in Rows
  PROVE  Revoked(r) \in Rows
  BY DEF Rows, Revoked

(* Every step keeps the types. *)
LEMMA TypeKept == ASSUME TypeOK, StepsOfWork, [Next]_vars PROVE TypeOK'
<1>1. ASSUME NEW s \in Surveys, Create(s) PROVE TypeOK'
  <2>1. db' \in [Surveys -> Rows]
    BY <1>1 DEF Create, Change, Rows, TypeOK
  <2> QED BY <1>1, <2>1 DEF Create, Change, TypeOK, archive, history
<1>2. ASSUME NEW s \in Surveys, Trash(s) PROVE TypeOK'
  <2>1. db' \in [Surveys -> Rows]
    BY <1>2 DEF Trash, Change, Rows, TypeOK
  <2> QED BY <1>2, <2>1 DEF Trash, Change, TypeOK, archive, history
<1>3. ASSUME NEW s \in Surveys, TakeOut(s) PROVE TypeOK'
  <2>1. db' \in [Surveys -> Rows]
    BY <1>3 DEF TakeOut, Change, Rows, TypeOK
  <2> QED BY <1>3, <2>1 DEF TakeOut, Change, TypeOK, archive, history
<1>4. ASSUME NEW s \in Surveys, OrderExport(s) PROVE TypeOK'
  <2>1. db' \in [Surveys -> Rows]
    BY <1>4 DEF OrderExport, Change, Rows, TypeOK
  <2> QED BY <1>4, <2>1 DEF OrderExport, Change, TypeOK, archive, history
<1>5. ASSUME NEW s \in Surveys, CancelExport(s) PROVE TypeOK'
  <2>1. db' \in [Surveys -> Rows]
    BY <1>5 DEF CancelExport, Change, Rows, TypeOK
  <2> QED BY <1>5, <2>1 DEF CancelExport, Change, TypeOK, archive, history
<1>6. ASSUME NEW s \in Surveys, LateUpload(s) PROVE TypeOK'
  <2>1. stored' \in [Surveys -> {"none", "own", "stray"}]
    BY <1>6 DEF LateUpload, TypeOK
  <2> QED BY <1>6, <2>1 DEF LateUpload, TypeOK, archive, history
<1>7. ASSUME NEW p \in Processes, NEW s \in Surveys, BeginRender(p, s)
      PROVE  TypeOK'
  <2>1. process' \in [Processes -> Process]
    BY <1>7 DEF BeginRender, Start, At, Become, Process, NoProcess, TypeOK
  <2> QED BY <1>7, <2>1 DEF BeginRender, Start, At, Become, TypeOK, archive,
       history
<1>8. ASSUME NEW p \in Processes, NEW s \in Surveys, Delete(p, s) PROVE TypeOK'
  <2>1. process' \in [Processes -> Process]
    BY <1>8 DEF Delete, Request, Start, At, Become, Process, NoProcess, TypeOK
  <2>2. db' \in [Surveys -> Rows]
    BY <1>8 DEF Delete, Request, Start, At, Become, Rows, TypeOK
  <2> QED BY <1>8, <2>1, <2>2 DEF Delete, Request, Start, At, Become, TypeOK,
       archive, history
<1>9. ASSUME NEW p \in Processes, NEW s \in Surveys, DeleteAgain(p, s)
      PROVE  TypeOK'
  <2>1. process' \in [Processes -> Process]
    BY <1>9 DEF DeleteAgain, Start, At, Become, Process, NoProcess, TypeOK
  <2> QED BY <1>9, <2>1 DEF DeleteAgain, Start, At, Become, TypeOK, archive,
       history
<1>10. ASSUME NEW p \in Processes, NEW s \in Surveys, Handle(p, s)
       PROVE  TypeOK'
  <2>1. process' \in [Processes -> Process]
    BY <1>10 DEF Handle, Start, At, Become, Process, NoProcess, TypeOK
  <2> QED BY <1>10, <2>1 DEF Handle, Start, At, Become, TypeOK, archive,
       history
<1>11. ASSUME NEW p \in Processes, NEW S \in SUBSET Surveys, Sweep(p, S)
       PROVE  TypeOK'
  <2>1. process' \in [Processes -> Process]
    BY <1>11 DEF Sweep, Request, Start, At, Become, Process, NoProcess, TypeOK
  <2>2. db' \in [Surveys -> Rows]
    BY <1>11 DEF Sweep, Request, Start, At, Become, Rows, TypeOK
  <2> QED BY <1>11, <2>1, <2>2 DEF Sweep, Request, Start, At, Become, TypeOK,
       archive, history
<1>12. ASSUME NEW p \in Processes, Upload(p) PROVE TypeOK'
  <2>1. process' \in [Processes -> Process]
    BY <1>12 DEF Upload, Goto, At, Process, NoProcess, TypeOK
  <2>2. stored' \in [Surveys -> {"none", "own", "stray"}]
    BY <1>12 DEF Upload, Goto, At, Process, TypeOK
  <2> QED BY <1>12, <2>1, <2>2 DEF Upload, Goto, At, TypeOK, archive, history
<1>13. ASSUME NEW p \in Processes, NoteExport(p) PROVE TypeOK'
  <2>1. process' \in [Processes -> Process]
    BY <1>13 DEF NoteExport, Become, At, Process, NoProcess, TypeOK
  <2>2. db' \in [Surveys -> Rows]
    BY <1>13 DEF NoteExport, Become, At, Rows, TypeOK
  <2> QED BY <1>13, <2>1, <2>2 DEF NoteExport, Become, At, TypeOK, archive,
       history
<1>14. ASSUME NEW p \in Processes, Export(p) PROVE TypeOK'
  <2>1. process' \in [Processes -> Process]
    <3>1. process[p] \in Process
      BY DEF TypeOK
    <3>2. [process[p] EXCEPT !.at = "exported", !.doc = Requested, !.lock = "held"] \in Process
      BY <3>1, RequestedTyped DEF Process
    <3> QED BY <1>14, <3>2 DEF Export, TypeOK
  <2> QED BY <1>14, <2>1 DEF Export, At, TypeOK, archive, history
<1>15. ASSUME NEW p \in Processes, OperatorExports(p) PROVE TypeOK'
  <2>1. process' \in [Processes -> Process]
    <3>1. [NoProcess EXCEPT !.work = "operator", !.at = "exported", !.doc = Requested] \in Process
      BY RequestedTyped DEF Process, NoProcess
    <3> QED BY <1>15, <3>1 DEF OperatorExports, Become, TypeOK
  <2> QED BY <1>15, <2>1 DEF OperatorExports, Become, At, TypeOK, archive,
       history
<1>16. ASSUME NEW p \in Processes, Detach(p) PROVE TypeOK'
  <2>1. process' \in [Processes -> Process]
    BY <1>16 DEF Detach, Process, NoProcess, TypeOK
  <2> QED BY <1>16, <2>1 DEF Detach, TypeOK, archive, history
<1>17. ASSUME NEW p \in Processes, Unchanged(p) PROVE TypeOK'
  <2>1. process' \in [Processes -> Process]
    BY <1>17, PublishedTyped DEF Unchanged, Become, TypeOK
  <2> QED BY <1>17, <2>1 DEF Unchanged, Published, Become, At, TypeOK, archive,
       history
<1>18. ASSUME NEW p \in Processes, WritePending(p) PROVE TypeOK'
  <2>1. process' \in [Processes -> Process]
    BY <1>18 DEF WritePending, Goto, At, Process, NoProcess, TypeOK
  <2>2. pending' \subseteq SUBSET Surveys
    BY <1>18 DEF WritePending, Goto, At, Process, TypeOK
  <2> QED BY <1>18, <2>1, <2>2 DEF WritePending, Goto, At, TypeOK, archive,
       history
<1>19. ASSUME NEW p \in Processes, WriteCurrent(p) PROVE TypeOK'
  <2>1. process' \in [Processes -> Process]
    BY <1>19 DEF WriteCurrent, Goto, At, Process, NoProcess, TypeOK
  <2>2. current' \subseteq SUBSET Surveys
    BY <1>19 DEF WriteCurrent, Goto, At, Process, TypeOK
  <2> QED BY <1>19, <2>1, <2>2 DEF WriteCurrent, Goto, At, TypeOK, archive,
       history
<1>20. ASSUME NEW p \in Processes, RemovePending(p) PROVE TypeOK'
  <2>1. process' \in [Processes -> Process]
    BY <1>20, PublishedTyped DEF RemovePending, Become, TypeOK
  <2> QED BY <1>20, <2>1 DEF RemovePending, Published, Become, At, TypeOK,
       archive, history
<1>21. ASSUME NEW p \in Processes, Report(p) PROVE TypeOK'
  <2>1. process' \in [Processes -> Process]
    BY <1>21 DEF Report, Become, At, Process, NoProcess, TypeOK
  <2>2. acked' \subseteq Surveys
    BY <1>21 DEF Report, Process, TypeOK, StepsOfWork, Works, Stands, At
  <2> QED BY <1>21, <2>1, <2>2 DEF Report, Become, At, TypeOK, archive, history
<1>22. ASSUME NEW p \in Processes, BeginErase(p) PROVE TypeOK'
  <2>1. process' \in [Processes -> Process]
    BY <1>22 DEF BeginErase, Ready, Become, Goto, At, Process, NoProcess,
       TypeOK
  <2> QED BY <1>22, <2>1 DEF BeginErase, Ready, Become, Goto, At, TypeOK,
       archive, history
<1>23. ASSUME NEW p \in Processes, DeleteFiles(p) PROVE TypeOK'
  <2>1. process' \in [Processes -> Process]
    BY <1>23 DEF DeleteFiles, Goto, At, Process, NoProcess, TypeOK
  <2>2. stored' \in [Surveys -> {"none", "own", "stray"}]
    BY <1>23 DEF DeleteFiles, Goto, At, Process, TypeOK
  <2> QED BY <1>23, <2>1, <2>2 DEF DeleteFiles, Goto, At, TypeOK, archive,
       history
<1>24. ASSUME NEW p \in Processes, Complete(p) PROVE TypeOK'
  <2>1. process' \in [Processes -> Process]
    BY <1>24 DEF Complete, Become, At, Process, NoProcess, TypeOK
  <2>2. db' \in [Surveys -> Rows]
    BY <1>24 DEF Complete, Become, At, Rows, NoRows, TypeOK
  <2>3. gone' \subseteq Surveys
    BY <1>24 DEF Complete, TypeOK, StepsOfWork, Works, Stands, At
  <2> QED BY <1>24, <2>1, <2>2, <2>3 DEF Complete, Become, At, TypeOK, archive,
       history
<1>25. ASSUME NEW p \in Processes, Fail(p) PROVE TypeOK'
  <2>1. process' \in [Processes -> Process]
    BY <1>25 DEF Fail, Become, At, Process, NoProcess, TypeOK
  <2>2. late' \subseteq Surveys
    <3>1. process[p] \in Process
      BY DEF TypeOK
    <3>2. At(p, "rendering") => process[p].survey \in Surveys
      BY <3>1 DEF StepsOfWork, Works, Stands, At, Process, Publishing
    <3> QED BY <1>25, <3>2 DEF Fail, TypeOK
  <2> QED BY <1>25, <2>1, <2>2 DEF Fail, Become, At, TypeOK, archive, history
<1>26. ASSUME NEW p \in Processes, Reapply(p) PROVE TypeOK'
  <2>1. process' \in [Processes -> Process]
    <3>1. ASSUME NEW doc \in current
          PROVE  [NoProcess EXCEPT !.work = "gate", !.at = "gating", !.doc = doc] \in Process
      BY <3>1 DEF Process, NoProcess, TypeOK
    <3> QED BY <1>26, <3>1 DEF Reapply, Become, TypeOK
  <2>2. db' \in [Surveys -> Rows]
    <3>1. \A s \in Surveys : db[s] \in Rows /\ Revoked(db[s]) \in Rows
      BY ReappliedTyped DEF TypeOK
    <3> QED BY <1>26, <3>1 DEF Reapply
  <2> QED BY <1>26, <2>1, <2>2 DEF Reapply, Become, At, TypeOK, archive,
       history
<1>27. ASSUME NEW p \in Processes, EraseNext(p) PROVE TypeOK'
  <2>1. process' \in [Processes -> Process]
    BY <1>27 DEF EraseNext, At, Process, NoProcess, TypeOK
  <2> QED BY <1>27, <2>1 DEF EraseNext, At, TypeOK, archive, history
<1>28. ASSUME NEW p \in Processes, PassGate(p) PROVE TypeOK'
  <2>1. process' \in [Processes -> Process]
    BY <1>28 DEF PassGate, GateDone, Become, At, Process, NoProcess, TypeOK
  <2> QED BY <1>28, <2>1 DEF PassGate, GateDone, Become, At, TypeOK, archive,
       history
<1>29. ASSUME TakeBackup PROVE TypeOK'
  <2>1. process' \in [Processes -> Process]
    BY <1>29 DEF TakeBackup, AllStop, Process, NoProcess, TypeOK
  <2> QED BY <1>29, <2>1 DEF TakeBackup, AllStop, TypeOK, archive, history
<1>30. ASSUME Restore PROVE TypeOK'
  <2>1. process' \in [Processes -> Process]
    BY <1>30 DEF Restore, AllStop, Process, NoProcess, TypeOK
  <2> QED BY <1>30, <2>1 DEF Restore, AllStop, TypeOK, archive, history
<1>31. CASE UNCHANGED vars
  BY <1>31 DEF TypeOK, vars, archive, history
<1> QED BY <1>1, <1>2, <1>3, <1>4, <1>5, <1>6, <1>7, <1>8, <1>9, <1>10, <1>11,
     <1>12, <1>13, <1>14, <1>15, <1>16, <1>17, <1>18, <1>19, <1>20, <1>21,
     <1>22, <1>23, <1>24, <1>25, <1>26, <1>27, <1>28, <1>29, <1>30, <1>31
     DEF Next

(* What a rendering and an erasure know of their survey. *)
LEMMA RenderKnown ==
  ASSUME IInv, NEW p \in Processes, Stands(p, {"rendering", "uploaded"})
  PROVE  LET s == process[p].survey IN
         /\ s \in Surveys /\ Works(p, {"render"}) /\ Online
         /\ db[s].survey = "live" /\ db[s].deletion = "none" /\ db[s].export = "queued"
         /\ At(p, "uploaded") => stored[s] = "own"
<1>1. process[p] \in Process
  BY DEF IInv, TypeOK
<1>2. Works(p, {"render"})
  BY <1>1 DEF IInv, StepsOfWork, Works, Stands, Publishing, Process
<1> QED BY <1>2 DEF IInv, StepsOfWork, RenderHeld, Works

LEMMA ErasureKnown ==
  ASSUME IInv, NEW p \in Processes, Stands(p, {"erasing", "deleted"})
  PROVE  LET s == process[p].survey IN
         /\ s \in Surveys /\ Works(p, {"erase", "gate"})
         /\ db[s].deletion = "pending" /\ s \in Archived
         /\ At(p, "deleted") => stored[s] # "own"
<1>1. process[p] \in Process
  BY DEF IInv, TypeOK
<1>2. Works(p, {"erase", "gate"})
  BY <1>1 DEF IInv, StepsOfWork, Works, Stands, Publishing, Process
<1> QED BY <1>2 DEF IInv, StepsOfWork, ErasureHeld, Works, Stands

-----------------------------------------------------------------------------
(* Rows, files and backups. *)

(* Every step keeps the rows sound. *)
LEMMA RowsKept ==
  ASSUME IInv, [Next]_vars
  PROVE  RowsSound(db', stored')
<1>1. ASSUME NEW s \in Surveys, Create(s) PROVE RowsSound(db', stored')
  BY <1>1 DEF Create, Change, IInv, TypeOK, Rows, RowsSound, At
<1>2. ASSUME NEW s \in Surveys, Trash(s) PROVE RowsSound(db', stored')
  BY <1>2 DEF Trash, Change, IInv, TypeOK, Rows, RowsSound, At
<1>3. ASSUME NEW s \in Surveys, TakeOut(s) PROVE RowsSound(db', stored')
  BY <1>3 DEF TakeOut, Change, IInv, TypeOK, Rows, RowsSound, At
<1>4. ASSUME NEW s \in Surveys, OrderExport(s) PROVE RowsSound(db', stored')
  BY <1>4 DEF OrderExport, Change, IInv, TypeOK, Rows, RowsSound, At
<1>5. ASSUME NEW s \in Surveys, CancelExport(s) PROVE RowsSound(db', stored')
  <2> DEFINE r == [db[s] EXCEPT !.export = IF stored[s] = "none" THEN "cancelled" ELSE "noted"]
  <2>1. db[s] \in Rows /\ db[s].deletion # "completed"
    BY <1>5 DEF CancelExport, IInv, TypeOK, RowsSound, NoRows
  <2>2. /\ r.survey = db[s].survey /\ r.deletion = db[s].deletion
        /\ r.export \in {"cancelled", "noted"} /\ (r.export = "noted" => stored[s] # "none")
    BY <2>1 DEF Rows
  <2>3. db' = [db EXCEPT ![s] = r] /\ stored' = stored
    BY <1>5 DEF CancelExport, Change
  <2> QED BY <2>1, <2>2, <2>3 DEF IInv, TypeOK, RowsSound
<1>6. ASSUME NEW s \in Surveys, LateUpload(s) PROVE RowsSound(db', stored')
  BY <1>6 DEF LateUpload, IInv, TypeOK, Rows, RowsSound, At
<1>7. ASSUME NEW p \in Processes, NEW s \in Surveys, Delete(p, s)
      PROVE  RowsSound(db', stored')
  BY <1>7 DEF Delete, Request, Start, At, Become, IInv, TypeOK, Rows, RowsSound
<1>8. ASSUME NEW p \in Processes, NEW S \in SUBSET Surveys, Sweep(p, S)
      PROVE  RowsSound(db', stored')
  BY <1>8 DEF Sweep, Request, Start, At, Become, IInv, TypeOK, Rows, RowsSound
<1>9. ASSUME NEW p \in Processes, Upload(p) PROVE RowsSound(db', stored')
  <2> DEFINE t == process[p].survey
  <2>1. t \in Surveys /\ db[t].deletion = "none" /\ db[t].export = "queued"
    BY <1>9, RenderKnown DEF Upload, At, Stands
  <2>2. db' = db /\ stored' = [stored EXCEPT ![t] = "own"]
    BY <1>9 DEF Upload
  <2> QED BY <2>1, <2>2 DEF IInv, TypeOK, RowsSound
<1>10. ASSUME NEW p \in Processes, NoteExport(p) PROVE RowsSound(db', stored')
  <2> DEFINE t == process[p].survey
  <2>1. t \in Surveys /\ db[t].deletion = "none" /\ stored[t] = "own"
    BY <1>10, RenderKnown DEF NoteExport, At, Stands
  <2>2. db' = [db EXCEPT ![t].export = "noted"] /\ stored' = stored
    BY <1>10 DEF NoteExport
  <2> QED BY <2>1, <2>2 DEF IInv, TypeOK, Rows, RowsSound
<1>11. ASSUME NEW p \in Processes, DeleteFiles(p) PROVE RowsSound(db', stored')
  BY <1>11 DEF DeleteFiles, Goto, At, IInv, TypeOK, Rows, RowsSound,
     ErasureHeld, Stands
<1>12. ASSUME NEW p \in Processes, Complete(p) PROVE RowsSound(db', stored')
  BY <1>12 DEF Complete, Become, At, IInv, TypeOK, Rows, RowsSound,
     ErasureHeld, Stands, NoRows
<1>13. ASSUME NEW p \in Processes, Reapply(p) PROVE RowsSound(db', stored')
  <2>1. PICK doc \in current :
           db' = [s \in Surveys |-> IF s \in doc THEN Revoked(db[s]) ELSE db[s]]
    BY <1>13 DEF Reapply
  <2>2. ASSUME NEW s \in Surveys
        PROVE  /\ Revoked(db[s]).survey # "live" /\ Revoked(db[s]).deletion = "pending"
               /\ Revoked(db[s]).export = db[s].export
    BY DEF Revoked, IInv, TypeOK, Rows
  <2>3. stored' = stored
    BY <1>13 DEF Reapply
  <2> QED BY <2>1, <2>2, <2>3 DEF IInv, RowsSound
<1>14. ASSUME Restore PROVE RowsSound(db', stored')
  BY <1>14 DEF Restore, AllStop, IInv, TypeOK, Rows, RowsSound, At, BackupSound
<1>15. CASE UNCHANGED <<db, stored>>
  BY <1>15 DEF IInv, TypeOK, Rows, RowsSound, At
<1> QED BY <1>1, <1>2, <1>3, <1>4, <1>5, <1>6, <1>7, <1>8, <1>9, <1>10, <1>11,
     <1>12, <1>13, <1>14, <1>15 DEF Next, vars, archive, history,
     BeginRender, Start, At, Become, DeleteAgain, Handle, Export,
     OperatorExports, Detach, Unchanged, Published, WritePending, Goto,
     WriteCurrent, RemovePending, Report, BeginErase, Ready, Fail, EraseNext,
     PassGate, GateDone, TakeBackup, AllStop

(* A backup holds rows that were sound. *)
LEMMA BackupKept ==
  ASSUME IInv, [Next]_vars
  PROVE  BackupSound'
<1>1. ASSUME TakeBackup PROVE BackupSound'
  BY <1>1 DEF TakeBackup, AllStop, IInv, BackupSound
<1>2. CASE UNCHANGED backup
  BY <1>2 DEF IInv, BackupSound
<1> QED BY <1>1, <1>2 DEF Next, vars, archive, history,
     Create, Change, Trash, TakeOut, OrderExport, CancelExport, LateUpload,
     BeginRender, Start, At, Become, Delete, Request, DeleteAgain, Handle,
     Sweep, Upload, Goto, NoteExport, Export, OperatorExports, Detach,
     Unchanged, Published, WritePending, WriteCurrent, RemovePending, Report,
     BeginErase, Ready, DeleteFiles, Complete, Fail, Reapply, EraseNext,
     PassGate, GateDone, Restore, AllStop

(* A gate between two surveys is the only one. *)
LEMMA GateKnown ==
  ASSUME IInv, NEW p \in Processes, At(p, "gating")
  PROVE  /\ Works(p, {"gate"}) /\ process[p].survey = NoSurvey
         /\ \A q \in Processes : Works(q, {"gate"}) => q = p
<1>1. process[p] \in Process
  BY DEF IInv, TypeOK
<1>2. Works(p, {"gate"})
  BY <1>1 DEF IInv, StepsOfWork, Works, Stands, Publishing, Process, At
<1> QED BY <1>2 DEF IInv, GateCovers, OneGate, Covered

-----------------------------------------------------------------------------
(* Processes, their locks and the archive's writer. *)

(* A process goes only through the steps of its work. *)
LEMMA StepsKept ==
  ASSUME IInv, TypeOK', [Next]_vars
  PROVE  StepsOfWork'
<1>1. ASSUME NEW p \in Processes, NEW s \in Surveys, BeginRender(p, s)
      PROVE  StepsOfWork'
  BY <1>1 DEF BeginRender, Start, At, Become, IInv, TypeOK, Process, NoProcess,
     StepsOfWork, Works, Stands, Publishing, Online
<1>2. ASSUME NEW p \in Processes, NEW s \in Surveys, Delete(p, s)
      PROVE  StepsOfWork'
  BY <1>2 DEF Delete, Request, Start, At, Become, IInv, TypeOK, Process,
     NoProcess, StepsOfWork, Works, Stands, Publishing, Online
<1>3. ASSUME NEW p \in Processes, NEW s \in Surveys, DeleteAgain(p, s)
      PROVE  StepsOfWork'
  BY <1>3 DEF DeleteAgain, Start, At, Become, IInv, TypeOK, Process, NoProcess,
     StepsOfWork, Works, Stands, Publishing, Online
<1>4. ASSUME NEW p \in Processes, NEW s \in Surveys, Handle(p, s)
      PROVE  StepsOfWork'
  BY <1>4 DEF Handle, Start, At, Become, IInv, TypeOK, Process, NoProcess,
     StepsOfWork, Works, Stands, Publishing, Online
<1>5. ASSUME NEW p \in Processes, NEW S \in SUBSET Surveys, Sweep(p, S)
      PROVE  StepsOfWork'
  BY <1>5 DEF Sweep, Request, Start, At, Become, IInv, TypeOK, Process,
     NoProcess, StepsOfWork, Works, Stands, Publishing, Online
<1>6. ASSUME NEW p \in Processes, Upload(p) PROVE StepsOfWork'
  BY <1>6 DEF Upload, Goto, At, IInv, TypeOK, Process, NoProcess, StepsOfWork,
     Works, Stands, Publishing, Online
<1>7. ASSUME NEW p \in Processes, NoteExport(p) PROVE StepsOfWork'
  BY <1>7 DEF NoteExport, Become, At, IInv, TypeOK, Process, NoProcess,
     StepsOfWork, Works, Stands, Publishing, Online
<1>8. ASSUME NEW p \in Processes, Export(p) PROVE StepsOfWork'
  BY <1>8 DEF Export, At, IInv, TypeOK, Process, NoProcess, StepsOfWork, Works,
     Stands, Publishing, Online
<1>9. ASSUME NEW p \in Processes, OperatorExports(p) PROVE StepsOfWork'
  BY <1>9 DEF OperatorExports, Become, At, IInv, TypeOK, Process, NoProcess,
     StepsOfWork, Works, Stands, Publishing, Online
<1>10. ASSUME NEW p \in Processes, Detach(p) PROVE StepsOfWork'
  BY <1>10 DEF Detach, IInv, TypeOK, Process, NoProcess, StepsOfWork, Works,
     Stands, Publishing, Online
<1>11. ASSUME NEW p \in Processes, Unchanged(p) PROVE StepsOfWork'
  BY <1>11 DEF Unchanged, Published, Become, At, IInv, TypeOK, Process,
     NoProcess, StepsOfWork, Works, Stands, Publishing, Online
<1>12. ASSUME NEW p \in Processes, WritePending(p) PROVE StepsOfWork'
  BY <1>12 DEF WritePending, Goto, At, IInv, TypeOK, Process, NoProcess,
     StepsOfWork, Works, Stands, Publishing, Online
<1>13. ASSUME NEW p \in Processes, WriteCurrent(p) PROVE StepsOfWork'
  BY <1>13 DEF WriteCurrent, Goto, At, IInv, TypeOK, Process, NoProcess,
     StepsOfWork, Works, Stands, Publishing, Online
<1>14. ASSUME NEW p \in Processes, RemovePending(p) PROVE StepsOfWork'
  BY <1>14 DEF RemovePending, Published, Become, At, IInv, TypeOK, Process,
     NoProcess, StepsOfWork, Works, Stands, Publishing, Online
<1>15. ASSUME NEW p \in Processes, Report(p) PROVE StepsOfWork'
  BY <1>15 DEF Report, Become, At, IInv, TypeOK, Process, NoProcess,
     StepsOfWork, Works, Stands, Publishing, Online
<1>16. ASSUME NEW p \in Processes, BeginErase(p) PROVE StepsOfWork'
  BY <1>16 DEF BeginErase, Ready, Become, Goto, At, IInv, TypeOK, Process,
     NoProcess, StepsOfWork, Works, Stands, Publishing, Online
<1>17. ASSUME NEW p \in Processes, DeleteFiles(p) PROVE StepsOfWork'
  BY <1>17 DEF DeleteFiles, Goto, At, IInv, TypeOK, Process, NoProcess,
     StepsOfWork, Works, Stands, Publishing, Online
<1>18. ASSUME NEW p \in Processes, Complete(p) PROVE StepsOfWork'
  BY <1>18 DEF Complete, Become, At, IInv, TypeOK, Process, NoProcess,
     StepsOfWork, Works, Stands, Publishing, Online
<1>19. ASSUME NEW p \in Processes, Fail(p) PROVE StepsOfWork'
  BY <1>19 DEF Fail, Become, At, IInv, TypeOK, Process, NoProcess, StepsOfWork,
     Works, Stands, Publishing, Online
<1>20. ASSUME NEW p \in Processes, Reapply(p) PROVE StepsOfWork'
  BY <1>20 DEF Reapply, Become, At, IInv, TypeOK, Process, NoProcess,
     StepsOfWork, Works, Stands, Publishing, Online
<1>21. ASSUME NEW p \in Processes, EraseNext(p) PROVE StepsOfWork'
  BY <1>21 DEF EraseNext, At, IInv, TypeOK, Process, NoProcess, StepsOfWork,
     Works, Stands, Publishing, Online
<1>22. ASSUME NEW p \in Processes, PassGate(p) PROVE StepsOfWork'
  <2>1. \A q \in Processes : q # p => ~Works(q, {"gate"}) /\ process'[q] = process[q]
    BY <1>22, GateKnown DEF PassGate, GateDone, Become, IInv, TypeOK
  <2>2. process'[p] = NoProcess /\ phase' = "online"
    BY <1>22 DEF PassGate, Become, IInv, TypeOK
  <2> QED BY <2>1, <2>2 DEF NoProcess, IInv, StepsOfWork, Works, Stands,
       Publishing, Online
<1>23. ASSUME TakeBackup PROVE StepsOfWork'
  BY <1>23 DEF TakeBackup, AllStop, IInv, TypeOK, Process, NoProcess,
     StepsOfWork, Works, Stands, Publishing, Online
<1>24. ASSUME Restore PROVE StepsOfWork'
  BY <1>24 DEF Restore, AllStop, IInv, TypeOK, Process, NoProcess, StepsOfWork,
     Works, Stands, Publishing, Online
<1>25. CASE UNCHANGED <<process, phase>>
  BY <1>25 DEF IInv, TypeOK, Process, NoProcess, StepsOfWork, Works, Stands,
     Publishing, Online
<1> QED BY <1>1, <1>2, <1>3, <1>4, <1>5, <1>6, <1>7, <1>8, <1>9, <1>10, <1>11,
     <1>12, <1>13, <1>14, <1>15, <1>16, <1>17, <1>18, <1>19, <1>20, <1>21,
     <1>22, <1>23, <1>24, <1>25 DEF Next, vars, archive, history,
     Create, Change, Trash, TakeOut, OrderExport, CancelExport, LateUpload

(* Two processes never hold the lock of one survey. *)
LEMMA LocksKept ==
  ASSUME IInv, TypeOK', [Next]_vars
  PROVE  LocksExclusive'
<1>1. ASSUME NEW p \in Processes, NEW s \in Surveys, BeginRender(p, s)
      PROVE  LocksExclusive'
  BY <1>1 DEF BeginRender, Start, At, Become, IInv, TypeOK, NoProcess,
     LocksExclusive, Locking, Stands, Free
<1>2. ASSUME NEW p \in Processes, NEW s \in Surveys, Delete(p, s)
      PROVE  LocksExclusive'
  BY <1>2 DEF Delete, Request, Start, At, Become, IInv, TypeOK, NoProcess,
     LocksExclusive, Locking, Stands
<1>3. ASSUME NEW p \in Processes, NEW s \in Surveys, DeleteAgain(p, s)
      PROVE  LocksExclusive'
  BY <1>3 DEF DeleteAgain, Start, At, Become, IInv, TypeOK, NoProcess,
     LocksExclusive, Locking, Stands
<1>4. ASSUME NEW p \in Processes, NEW s \in Surveys, Handle(p, s)
      PROVE  LocksExclusive'
  BY <1>4 DEF Handle, Start, At, Become, IInv, TypeOK, NoProcess,
     LocksExclusive, Locking, Stands
<1>5. ASSUME NEW p \in Processes, NEW S \in SUBSET Surveys, Sweep(p, S)
      PROVE  LocksExclusive'
  BY <1>5 DEF Sweep, Request, Start, At, Become, IInv, TypeOK, NoProcess,
     LocksExclusive, Locking, Stands
<1>6. ASSUME NEW p \in Processes, Upload(p) PROVE LocksExclusive'
  BY <1>6 DEF Upload, Goto, At, IInv, TypeOK, NoProcess, LocksExclusive,
     Locking, Stands
<1>7. ASSUME NEW p \in Processes, NoteExport(p) PROVE LocksExclusive'
  BY <1>7 DEF NoteExport, Become, At, IInv, TypeOK, NoProcess, LocksExclusive,
     Locking, Stands
<1>8. ASSUME NEW p \in Processes, Export(p) PROVE LocksExclusive'
  BY <1>8 DEF Export, At, IInv, TypeOK, NoProcess, LocksExclusive, Locking,
     Stands
<1>9. ASSUME NEW p \in Processes, OperatorExports(p) PROVE LocksExclusive'
  BY <1>9 DEF OperatorExports, Become, At, IInv, TypeOK, NoProcess,
     LocksExclusive, Locking, Stands
<1>10. ASSUME NEW p \in Processes, Detach(p) PROVE LocksExclusive'
  BY <1>10 DEF Detach, IInv, TypeOK, NoProcess, LocksExclusive, Locking, Stands
<1>11. ASSUME NEW p \in Processes, Unchanged(p) PROVE LocksExclusive'
  BY <1>11 DEF Unchanged, Published, Become, At, IInv, TypeOK, NoProcess,
     LocksExclusive, Locking, Stands
<1>12. ASSUME NEW p \in Processes, WritePending(p) PROVE LocksExclusive'
  BY <1>12 DEF WritePending, Goto, At, IInv, TypeOK, NoProcess, LocksExclusive,
     Locking, Stands
<1>13. ASSUME NEW p \in Processes, WriteCurrent(p) PROVE LocksExclusive'
  BY <1>13 DEF WriteCurrent, Goto, At, IInv, TypeOK, NoProcess, LocksExclusive,
     Locking, Stands
<1>14. ASSUME NEW p \in Processes, RemovePending(p) PROVE LocksExclusive'
  BY <1>14 DEF RemovePending, Published, Become, At, IInv, TypeOK, NoProcess,
     LocksExclusive, Locking, Stands
<1>15. ASSUME NEW p \in Processes, Report(p) PROVE LocksExclusive'
  BY <1>15 DEF Report, Become, At, IInv, TypeOK, NoProcess, LocksExclusive,
     Locking, Stands
<1>16. ASSUME NEW p \in Processes, BeginErase(p) PROVE LocksExclusive'
  <2> DEFINE s == process[p].survey
  <2>1. s \in Surveys
    BY <1>16 DEF BeginErase, IInv, StepsOfWork, Works
  <2>2. \A q \in Processes : Stands(q, Locking) => process[q].survey # s
    BY <1>16 DEF BeginErase, Free, Stands, Locking
  <2>3. \/ process' = [process EXCEPT ![p] = NoProcess]
        \/ process' = [process EXCEPT ![p].at = "erasing"]
    BY <1>16 DEF BeginErase, Become, Goto
  <2>4. \A q \in Processes : q # p => process'[q] = process[q]
    BY <2>3 DEF IInv, TypeOK
  <2>5. process'[p].at \notin Locking \/ process'[p].survey = s
    BY <2>3 DEF NoProcess, Locking, IInv, TypeOK, Process
  <2> QED BY <2>2, <2>4, <2>5 DEF IInv, LocksExclusive, Stands
<1>17. ASSUME NEW p \in Processes, DeleteFiles(p) PROVE LocksExclusive'
  BY <1>17 DEF DeleteFiles, Goto, At, IInv, TypeOK, NoProcess, LocksExclusive,
     Locking, Stands
<1>18. ASSUME NEW p \in Processes, Complete(p) PROVE LocksExclusive'
  <2>1. process'[p].at \notin Locking /\ \A q \in Processes : q # p => process'[q] = process[q]
    BY <1>18 DEF Complete, Become, NoProcess, Locking, IInv, TypeOK, Process
  <2> QED BY <2>1 DEF IInv, LocksExclusive, Stands
<1>19. ASSUME NEW p \in Processes, Fail(p) PROVE LocksExclusive'
  BY <1>19 DEF Fail, Become, At, IInv, TypeOK, NoProcess, LocksExclusive,
     Locking, Stands
<1>20. ASSUME NEW p \in Processes, Reapply(p) PROVE LocksExclusive'
  BY <1>20 DEF Reapply, Become, At, IInv, TypeOK, NoProcess, LocksExclusive,
     Locking, Stands
<1>21. ASSUME NEW p \in Processes, EraseNext(p) PROVE LocksExclusive'
  <2>1. \A q \in Processes : q # p => ~Stands(q, Locking)
    <3>1. ~Online /\ \A q \in Processes : q # p => ~Works(q, {"gate"})
      BY <1>21, GateKnown DEF EraseNext, IInv, StepsOfWork
    <3> QED BY <3>1, RenderKnown, ErasureKnown DEF Locking, Stands, Works,
         IInv, StepsOfWork
  <2>2. \A q \in Processes : q # p => process'[q] = process[q]
    BY <1>21 DEF EraseNext, IInv, TypeOK
  <2> QED BY <2>1, <2>2 DEF LocksExclusive, Stands
<1>22. ASSUME NEW p \in Processes, PassGate(p) PROVE LocksExclusive'
  BY <1>22 DEF PassGate, GateDone, Become, At, IInv, TypeOK, NoProcess,
     LocksExclusive, Locking, Stands
<1>23. ASSUME TakeBackup PROVE LocksExclusive'
  BY <1>23 DEF TakeBackup, AllStop, IInv, TypeOK, NoProcess, LocksExclusive,
     Locking, Stands
<1>24. ASSUME Restore PROVE LocksExclusive'
  BY <1>24 DEF Restore, AllStop, IInv, TypeOK, NoProcess, LocksExclusive,
     Locking, Stands
<1>25. CASE UNCHANGED process
  BY <1>25 DEF IInv, TypeOK, NoProcess, LocksExclusive, Locking, Stands
<1> QED BY <1>1, <1>2, <1>3, <1>4, <1>5, <1>6, <1>7, <1>8, <1>9, <1>10, <1>11,
     <1>12, <1>13, <1>14, <1>15, <1>16, <1>17, <1>18, <1>19, <1>20, <1>21,
     <1>22, <1>23, <1>24, <1>25 DEF Next, vars, archive, history,
     Create, Change, Trash, TakeOut, OrderExport, CancelExport, LateUpload

(* The writer holds the archive and extends it. *)
LEMMA WriterKept ==
  ASSUME IInv, TypeOK', [Next]_vars
  PROVE  WriterExtends'
<1>1. ASSUME NEW p \in Processes, NEW s \in Surveys, BeginRender(p, s)
      PROVE  WriterExtends'
  BY <1>1 DEF BeginRender, Start, At, Become, IInv, TypeOK, NoProcess,
     WriterExtends, Stands, archive
<1>2. ASSUME NEW p \in Processes, NEW s \in Surveys, Delete(p, s)
      PROVE  WriterExtends'
  BY <1>2 DEF Delete, Request, Start, At, Become, IInv, TypeOK, NoProcess,
     WriterExtends, Stands, archive
<1>3. ASSUME NEW p \in Processes, NEW s \in Surveys, DeleteAgain(p, s)
      PROVE  WriterExtends'
  BY <1>3 DEF DeleteAgain, Start, At, Become, IInv, TypeOK, NoProcess,
     WriterExtends, Stands, archive
<1>4. ASSUME NEW p \in Processes, NEW s \in Surveys, Handle(p, s)
      PROVE  WriterExtends'
  BY <1>4 DEF Handle, Start, At, Become, IInv, TypeOK, NoProcess,
     WriterExtends, Stands, archive
<1>5. ASSUME NEW p \in Processes, NEW S \in SUBSET Surveys, Sweep(p, S)
      PROVE  WriterExtends'
  BY <1>5 DEF Sweep, Request, Start, At, Become, IInv, TypeOK, NoProcess,
     WriterExtends, Stands, archive
<1>6. ASSUME NEW p \in Processes, Upload(p) PROVE WriterExtends'
  BY <1>6 DEF Upload, Goto, At, IInv, TypeOK, NoProcess, WriterExtends, Stands,
     archive
<1>7. ASSUME NEW p \in Processes, NoteExport(p) PROVE WriterExtends'
  BY <1>7 DEF NoteExport, Become, At, IInv, TypeOK, NoProcess, WriterExtends,
     Stands, archive
<1>8. ASSUME NEW p \in Processes, Export(p) PROVE WriterExtends'
  BY <1>8 DEF Export, At, IInv, TypeOK, NoProcess, WriterExtends, Stands,
     archive
<1>9. ASSUME NEW p \in Processes, OperatorExports(p) PROVE WriterExtends'
  BY <1>9 DEF OperatorExports, Become, At, IInv, TypeOK, NoProcess,
     WriterExtends, Stands, archive
<1>10. ASSUME NEW p \in Processes, Detach(p) PROVE WriterExtends'
  BY <1>10 DEF Detach, IInv, TypeOK, NoProcess, WriterExtends, Stands, At,
     archive
<1>11. ASSUME NEW p \in Processes, Unchanged(p) PROVE WriterExtends'
  <2>1. current' = current
    BY <1>11 DEF Unchanged, archive
  <2>2. /\ process'[p].at \notin {"pending", "current"}
        /\ \A q \in Processes : q # p => process'[q] = process[q]
    BY <1>11 DEF Unchanged, Published, Become, At, NoProcess, IInv, TypeOK,
       Process
  <2> QED BY <2>1, <2>2 DEF IInv, WriterExtends, Stands, At
<1>12. ASSUME NEW p \in Processes, WritePending(p) PROVE WriterExtends'
  BY <1>12 DEF WritePending, Goto, At, IInv, TypeOK, NoProcess, WriterExtends,
     Stands, archive, ArchiveFree, Extends
<1>13. ASSUME NEW p \in Processes, WriteCurrent(p) PROVE WriterExtends'
  BY <1>13 DEF WriteCurrent, Goto, At, IInv, TypeOK, NoProcess, WriterExtends,
     Stands, archive
<1>14. ASSUME NEW p \in Processes, RemovePending(p) PROVE WriterExtends'
  BY <1>14 DEF RemovePending, Published, Become, At, IInv, TypeOK, NoProcess,
     WriterExtends, Stands, archive
<1>15. ASSUME NEW p \in Processes, Report(p) PROVE WriterExtends'
  BY <1>15 DEF Report, Become, At, IInv, TypeOK, NoProcess, WriterExtends,
     Stands, archive
<1>16. ASSUME NEW p \in Processes, BeginErase(p) PROVE WriterExtends'
  <2>1. current' = current
    BY <1>16 DEF BeginErase, archive
  <2>2. /\ process'[p].at \notin {"pending", "current"}
        /\ \A q \in Processes : q # p => process'[q] = process[q]
    BY <1>16 DEF BeginErase, Ready, Become, Goto, At, NoProcess, IInv, TypeOK,
       Process
  <2> QED BY <2>1, <2>2 DEF IInv, WriterExtends, Stands, At
<1>17. ASSUME NEW p \in Processes, DeleteFiles(p) PROVE WriterExtends'
  BY <1>17 DEF DeleteFiles, Goto, At, IInv, TypeOK, NoProcess, WriterExtends,
     Stands, archive
<1>18. ASSUME NEW p \in Processes, Complete(p) PROVE WriterExtends'
  <2>1. current' = current
    BY <1>18 DEF Complete, archive
  <2>2. /\ process'[p].at \notin {"pending", "current"}
        /\ \A q \in Processes : q # p => process'[q] = process[q]
    BY <1>18 DEF Complete, Become, At, NoProcess, IInv, TypeOK, Process
  <2> QED BY <2>1, <2>2 DEF IInv, WriterExtends, Stands, At
<1>19. ASSUME NEW p \in Processes, Fail(p) PROVE WriterExtends'
  BY <1>19 DEF Fail, Become, At, IInv, TypeOK, NoProcess, WriterExtends,
     Stands, archive
<1>20. ASSUME NEW p \in Processes, Reapply(p) PROVE WriterExtends'
  BY <1>20 DEF Reapply, Become, At, IInv, TypeOK, NoProcess, WriterExtends,
     Stands, archive
<1>21. ASSUME NEW p \in Processes, EraseNext(p) PROVE WriterExtends'
  BY <1>21 DEF EraseNext, At, IInv, TypeOK, NoProcess, WriterExtends, Stands,
     archive
<1>22. ASSUME NEW p \in Processes, PassGate(p) PROVE WriterExtends'
  BY <1>22 DEF PassGate, GateDone, Become, At, IInv, TypeOK, NoProcess,
     WriterExtends, Stands, archive
<1>23. ASSUME TakeBackup PROVE WriterExtends'
  BY <1>23 DEF TakeBackup, AllStop, IInv, TypeOK, NoProcess, WriterExtends,
     Stands, At, archive
<1>24. ASSUME Restore PROVE WriterExtends'
  BY <1>24 DEF Restore, AllStop, IInv, TypeOK, NoProcess, WriterExtends,
     Stands, At, archive
<1>25. CASE UNCHANGED <<process, current>>
  BY <1>25 DEF IInv, TypeOK, NoProcess, WriterExtends, Stands, At, archive
<1> QED BY <1>1, <1>2, <1>3, <1>4, <1>5, <1>6, <1>7, <1>8, <1>9, <1>10, <1>11,
     <1>12, <1>13, <1>14, <1>15, <1>16, <1>17, <1>18, <1>19, <1>20, <1>21,
     <1>22, <1>23, <1>24, <1>25 DEF Next, vars, archive, history,
     Create, Change, Trash, TakeOut, OrderExport, CancelExport, LateUpload

(* The archive forgets nothing. *)
LEMMA ArchivedGrows ==
  ASSUME IInv, [Next]_vars
  PROVE  Archived \subseteq Archived'
<1>1. ASSUME NEW p \in Processes, WriteCurrent(p)
      PROVE  Archived \subseteq Archived'
  BY <1>1 DEF WriteCurrent, At, Archived, IInv, WriterExtends
<1>2. CASE UNCHANGED current
  BY <1>2 DEF Archived
<1> QED BY <1>1, <1>2 DEF Next, vars, archive, history,
     Create, Change, Trash, TakeOut, OrderExport, CancelExport, LateUpload,
     BeginRender, Start, At, Become, Delete, Request, DeleteAgain, Handle,
     Sweep, Upload, Goto, NoteExport, Export, OperatorExports, Detach,
     Unchanged, Published, WritePending, RemovePending, Report, BeginErase,
     Ready, DeleteFiles, Complete, Fail, Reapply, EraseNext, PassGate,
     GateDone, TakeBackup, AllStop, Restore

(* What is confirmed or completed was in the archive. *)
LEMMA HistoryKept ==
  ASSUME IInv, [Next]_vars
  PROVE  HistoryArchived'
<1>1. ASSUME NEW p \in Processes, Report(p) PROVE HistoryArchived'
  BY <1>1, ArchivedGrows DEF Report, At, Works, IInv, HistoryArchived,
     PublishedIsArchived, Followed
<1>2. ASSUME NEW p \in Processes, Complete(p) PROVE HistoryArchived'
  BY <1>2, ArchivedGrows, ErasureKnown DEF Complete, At, Stands, IInv,
     HistoryArchived
<1>3. CASE UNCHANGED <<acked, gone>>
  BY <1>3, ArchivedGrows DEF IInv, HistoryArchived
<1> QED BY <1>1, <1>2, <1>3 DEF Next, vars, archive, history,
     Create, Change, Trash, TakeOut, OrderExport, CancelExport, LateUpload,
     BeginRender, Start, At, Become, Delete, Request, DeleteAgain, Handle,
     Sweep, Upload, Goto, NoteExport, Export, OperatorExports, Detach,
     Unchanged, Published, WritePending, WriteCurrent, RemovePending,
     BeginErase, Ready, DeleteFiles, Fail, Reapply, EraseNext, PassGate,
     GateDone, TakeBackup, AllStop, Restore

(* A late upload aside, nothing happens to the rows and the object of s. *)
Untouched(s) == /\ db'[s] = db[s]
                /\ stored'[s] # stored[s] => stored'[s] = "stray" /\ stored[s] = "none"

(* Nobody else touches the rows of a survey that is locked. *)
LEMMA LocksHold ==
  ASSUME IInv, [Next]_vars,
         NEW q \in Processes, Stands(q, Locking), process'[q] = process[q]
  PROVE  Untouched(process[q].survey)
<1>1. ASSUME NEW s \in Surveys, Create(s) PROVE Untouched(process[q].survey)
  BY <1>1 DEF Create, Change, IInv, TypeOK, Stands, At, Untouched, Free,
     Locking
<1>2. ASSUME NEW s \in Surveys, Trash(s) PROVE Untouched(process[q].survey)
  BY <1>2 DEF Trash, Change, IInv, TypeOK, Stands, At, Untouched, Free, Locking
<1>3. ASSUME NEW s \in Surveys, TakeOut(s) PROVE Untouched(process[q].survey)
  BY <1>3 DEF TakeOut, Change, IInv, TypeOK, Stands, At, Untouched, Free,
     Locking
<1>4. ASSUME NEW s \in Surveys, OrderExport(s)
      PROVE  Untouched(process[q].survey)
  BY <1>4 DEF OrderExport, Change, IInv, TypeOK, Stands, At, Untouched, Free,
     Locking
<1>5. ASSUME NEW s \in Surveys, CancelExport(s)
      PROVE  Untouched(process[q].survey)
  BY <1>5 DEF CancelExport, Change, IInv, TypeOK, Stands, At, Untouched, Free,
     Locking
<1>6. ASSUME NEW s \in Surveys, LateUpload(s)
      PROVE  Untouched(process[q].survey)
  BY <1>6 DEF LateUpload, IInv, TypeOK, Stands, At, Untouched
<1>7. ASSUME NEW p \in Processes, NEW s \in Surveys, Delete(p, s)
      PROVE  Untouched(process[q].survey)
  <2>1. process[q].survey \in Surveys
    BY RenderKnown, ErasureKnown DEF Locking, Stands
  <2>2. process[q].survey \notin {s}
    BY <1>7 DEF Delete, Request, Free, Stands, Locking
  <2>3. stored' = stored /\ \A t \in Surveys : t \notin {s} => db'[t] = db[t]
    BY <1>7 DEF Delete, Request, IInv, TypeOK
  <2> QED BY <2>1, <2>2, <2>3 DEF Untouched
<1>8. ASSUME NEW p \in Processes, NEW S \in SUBSET Surveys, Sweep(p, S)
      PROVE  Untouched(process[q].survey)
  <2>1. process[q].survey \in Surveys
    BY RenderKnown, ErasureKnown DEF Locking, Stands
  <2>2. process[q].survey \notin S
    BY <1>8 DEF Sweep, Request, Free, Stands, Locking
  <2>3. stored' = stored /\ \A t \in Surveys : t \notin S => db'[t] = db[t]
    BY <1>8 DEF Sweep, Request, IInv, TypeOK
  <2> QED BY <2>1, <2>2, <2>3 DEF Untouched
<1>9. ASSUME NEW p \in Processes, Upload(p) PROVE Untouched(process[q].survey)
  <2>0. process'[p].at # process[p].at /\ process[p].at \in Locking
    BY <1>9 DEF Upload, Goto, At, NoProcess, IInv, TypeOK, Process, Locking
  <2>1. p # q /\ Stands(p, Locking)
    BY <2>0 DEF Stands
  <2>2. process[p].survey # process[q].survey
    BY <2>1 DEF IInv, LocksExclusive
  <2> QED BY <1>9, <2>2 DEF Upload, IInv, TypeOK, Untouched
<1>10. ASSUME NEW p \in Processes, NoteExport(p)
       PROVE  Untouched(process[q].survey)
  BY <1>10 DEF NoteExport, Become, At, IInv, TypeOK, Stands, Untouched,
     LocksExclusive, Locking, NoProcess
<1>11. ASSUME NEW p \in Processes, DeleteFiles(p)
       PROVE  Untouched(process[q].survey)
  <2>0. process'[p].at # process[p].at /\ process[p].at \in Locking
    BY <1>11 DEF DeleteFiles, Goto, At, NoProcess, IInv, TypeOK, Process,
       Locking
  <2>1. p # q /\ Stands(p, Locking)
    BY <2>0 DEF Stands
  <2>2. process[p].survey # process[q].survey
    BY <2>1 DEF IInv, LocksExclusive
  <2> QED BY <1>11, <2>2 DEF DeleteFiles, IInv, TypeOK, Untouched
<1>12. ASSUME NEW p \in Processes, Complete(p)
       PROVE  Untouched(process[q].survey)
  <2>0. process'[p].at # process[p].at /\ process[p].at \in Locking
    BY <1>12 DEF Complete, Become, At, NoProcess, IInv, TypeOK, Process,
       Locking
  <2>1. p # q /\ Stands(p, Locking)
    BY <2>0 DEF Stands
  <2>2. process[p].survey # process[q].survey
    BY <2>1 DEF IInv, LocksExclusive
  <2> QED BY <1>12, <2>2 DEF Complete, IInv, TypeOK, Untouched
<1>13. ASSUME NEW p \in Processes, Reapply(p)
       PROVE  Untouched(process[q].survey)
  <2>1. ~Online /\ ~Works(q, {"gate"})
    BY <1>13 DEF Reapply, Works, Online
  <2> QED BY <2>1, RenderKnown, ErasureKnown DEF Locking, Stands, Works, IInv,
       StepsOfWork
<1>14. ASSUME Restore PROVE Untouched(process[q].survey)
  BY <1>14 DEF Restore, AllStop, IInv, TypeOK, Stands, At, Untouched,
     NoProcess, Locking
<1>15. CASE UNCHANGED <<db, stored>>
  BY <1>15 DEF IInv, TypeOK, Stands, At, Untouched
<1> QED BY <1>1, <1>2, <1>3, <1>4, <1>5, <1>6, <1>7, <1>8, <1>9, <1>10, <1>11,
     <1>12, <1>13, <1>14, <1>15 DEF Next, vars, archive, history,
     BeginRender, Start, At, Become, DeleteAgain, Handle, Export,
     OperatorExports, Detach, Unchanged, Published, WritePending, Goto,
     WriteCurrent, RemovePending, Report, BeginErase, Ready, Fail, EraseNext,
     PassGate, GateDone, TakeBackup, AllStop

(* The steps that take a survey's lock or go on with it. *)
NewlyLocked(q) == \/ \E s \in Surveys : BeginRender(q, s)
                  \/ Upload(q)
                  \/ BeginErase(q) /\ Ready(q) /\ process' = [process EXCEPT ![q].at = "erasing"]
                  \/ DeleteFiles(q)
                  \/ EraseNext(q)

(* A process that gets hold of a survey does it in one of these steps. *)
LEMMA NewLock ==
  ASSUME IInv, [Next]_vars,
         NEW q \in Processes, Stands(q, Locking)', process'[q] # process[q]
  PROVE  NewlyLocked(q)
<1>1. ASSUME NEW p \in Processes, NEW s \in Surveys, BeginRender(p, s)
      PROVE  NewlyLocked(q)
  BY <1>1 DEF BeginRender, Start, At, Become, IInv, TypeOK, Process, NoProcess,
     NewlyLocked, Stands, Locking
<1>2. ASSUME NEW p \in Processes, NEW s \in Surveys, Delete(p, s)
      PROVE  NewlyLocked(q)
  BY <1>2 DEF Delete, Request, Start, At, Become, IInv, TypeOK, Process,
     NoProcess, NewlyLocked, Stands, Locking
<1>3. ASSUME NEW p \in Processes, NEW s \in Surveys, DeleteAgain(p, s)
      PROVE  NewlyLocked(q)
  BY <1>3 DEF DeleteAgain, Start, At, Become, IInv, TypeOK, Process, NoProcess,
     NewlyLocked, Stands, Locking
<1>4. ASSUME NEW p \in Processes, NEW s \in Surveys, Handle(p, s)
      PROVE  NewlyLocked(q)
  BY <1>4 DEF Handle, Start, At, Become, IInv, TypeOK, Process, NoProcess,
     NewlyLocked, Stands, Locking
<1>5. ASSUME NEW p \in Processes, NEW S \in SUBSET Surveys, Sweep(p, S)
      PROVE  NewlyLocked(q)
  BY <1>5 DEF Sweep, Request, Start, At, Become, IInv, TypeOK, Process,
     NoProcess, NewlyLocked, Stands, Locking
<1>6. ASSUME NEW p \in Processes, Upload(p) PROVE NewlyLocked(q)
  BY <1>6 DEF Upload, Goto, At, IInv, TypeOK, Process, NoProcess, NewlyLocked,
     Stands, Locking
<1>7. ASSUME NEW p \in Processes, NoteExport(p) PROVE NewlyLocked(q)
  BY <1>7 DEF NoteExport, Become, At, IInv, TypeOK, Process, NoProcess,
     NewlyLocked, Stands, Locking
<1>8. ASSUME NEW p \in Processes, Export(p) PROVE NewlyLocked(q)
  BY <1>8 DEF Export, At, IInv, TypeOK, Process, NoProcess, NewlyLocked,
     Stands, Locking
<1>9. ASSUME NEW p \in Processes, OperatorExports(p) PROVE NewlyLocked(q)
  BY <1>9 DEF OperatorExports, Become, At, IInv, TypeOK, Process, NoProcess,
     NewlyLocked, Stands, Locking
<1>10. ASSUME NEW p \in Processes, Detach(p) PROVE NewlyLocked(q)
  BY <1>10 DEF Detach, IInv, TypeOK, Process, NoProcess, NewlyLocked, Stands,
     Locking, At, StepsOfWork, Publishing
<1>11. ASSUME NEW p \in Processes, Unchanged(p) PROVE NewlyLocked(q)
  BY <1>11 DEF Unchanged, Published, Become, At, IInv, TypeOK, Process,
     NoProcess, NewlyLocked, Stands, Locking
<1>12. ASSUME NEW p \in Processes, WritePending(p) PROVE NewlyLocked(q)
  BY <1>12 DEF WritePending, Goto, At, IInv, TypeOK, Process, NoProcess,
     NewlyLocked, Stands, Locking
<1>13. ASSUME NEW p \in Processes, WriteCurrent(p) PROVE NewlyLocked(q)
  BY <1>13 DEF WriteCurrent, Goto, At, IInv, TypeOK, Process, NoProcess,
     NewlyLocked, Stands, Locking
<1>14. ASSUME NEW p \in Processes, RemovePending(p) PROVE NewlyLocked(q)
  BY <1>14 DEF RemovePending, Published, Become, At, IInv, TypeOK, Process,
     NoProcess, NewlyLocked, Stands, Locking
<1>15. ASSUME NEW p \in Processes, Report(p) PROVE NewlyLocked(q)
  BY <1>15 DEF Report, Become, At, IInv, TypeOK, Process, NoProcess,
     NewlyLocked, Stands, Locking
<1>16. ASSUME NEW p \in Processes, BeginErase(p) PROVE NewlyLocked(q)
  BY <1>16 DEF BeginErase, Ready, Become, Goto, At, IInv, TypeOK, Process,
     NoProcess, NewlyLocked, Stands, Locking
<1>17. ASSUME NEW p \in Processes, DeleteFiles(p) PROVE NewlyLocked(q)
  BY <1>17 DEF DeleteFiles, Goto, At, IInv, TypeOK, Process, NoProcess,
     NewlyLocked, Stands, Locking
<1>18. ASSUME NEW p \in Processes, Complete(p) PROVE NewlyLocked(q)
  BY <1>18 DEF Complete, Become, At, IInv, TypeOK, Process, NoProcess,
     NewlyLocked, Stands, Locking
<1>19. ASSUME NEW p \in Processes, Fail(p) PROVE NewlyLocked(q)
  BY <1>19 DEF Fail, Become, At, IInv, TypeOK, Process, NoProcess, NewlyLocked,
     Stands, Locking
<1>20. ASSUME NEW p \in Processes, Reapply(p) PROVE NewlyLocked(q)
  BY <1>20 DEF Reapply, Become, At, IInv, TypeOK, Process, NoProcess,
     NewlyLocked, Stands, Locking
<1>21. ASSUME NEW p \in Processes, EraseNext(p) PROVE NewlyLocked(q)
  BY <1>21 DEF EraseNext, At, IInv, TypeOK, Process, NoProcess, NewlyLocked,
     Stands, Locking
<1>22. ASSUME NEW p \in Processes, PassGate(p) PROVE NewlyLocked(q)
  BY <1>22 DEF PassGate, GateDone, Become, At, IInv, TypeOK, Process,
     NoProcess, NewlyLocked, Stands, Locking
<1>23. ASSUME TakeBackup PROVE NewlyLocked(q)
  BY <1>23 DEF TakeBackup, AllStop, IInv, TypeOK, Process, NoProcess,
     NewlyLocked, Stands, Locking, At
<1>24. ASSUME Restore PROVE NewlyLocked(q)
  BY <1>24 DEF Restore, AllStop, IInv, TypeOK, Process, NoProcess, NewlyLocked,
     Stands, Locking, At
<1>25. CASE UNCHANGED process
  BY <1>25 DEF IInv, TypeOK, Process, NoProcess, NewlyLocked, Stands, Locking,
     At
<1> QED BY <1>1, <1>2, <1>3, <1>4, <1>5, <1>6, <1>7, <1>8, <1>9, <1>10, <1>11,
     <1>12, <1>13, <1>14, <1>15, <1>16, <1>17, <1>18, <1>19, <1>20, <1>21,
     <1>22, <1>23, <1>24, <1>25 DEF Next, vars, archive, history,
     Create, Change, Trash, TakeOut, OrderExport, CancelExport, LateUpload

(* A rendering keeps the rows it began with. *)
LEMMA RenderKept ==
  ASSUME IInv, TypeOK', StepsOfWork', [Next]_vars
  PROVE  RenderHeld'
<1> SUFFICES ASSUME NEW q \in Processes, Works(q, {"render"})'
             PROVE  LET s == process'[q].survey IN
                    /\ db'[s].survey = "live" /\ db'[s].deletion = "none"
                    /\ db'[s].export = "queued"
                    /\ At(q, "uploaded")' => stored'[s] = "own"
  BY DEF RenderHeld
<1>1. Stands(q, {"rendering", "uploaded"})'
  BY DEF StepsOfWork
<1>2. CASE process'[q] = process[q]
  <2>1. Stands(q, {"rendering", "uploaded"}) /\ Stands(q, Locking)
    BY <1>1, <1>2 DEF Stands, Locking
  <2> QED BY <1>2, <2>1, RenderKnown, LocksHold DEF Untouched, At
<1>3. CASE process'[q] # process[q]
  <2>1. NewlyLocked(q)
    BY <1>1, <1>3, NewLock DEF Stands, Locking
  <2>2. ASSUME NEW s \in Surveys, BeginRender(q, s)
        PROVE  /\ process'[q].survey = s /\ process'[q].at = "rendering"
               /\ db' = db /\ stored' = stored /\ s \notin Requested
               /\ db[s].survey = "live" /\ db[s].export = "queued"
    BY <2>2 DEF BeginRender, Start, Become, NoProcess, IInv, TypeOK, RowsSound,
       Requested
  <2>3. CASE \E s \in Surveys : BeginRender(q, s)
    BY <2>2, <2>3 DEF At, Requested
  <2>4. CASE Upload(q)
    <3>1. RenderHeld /\ Works(q, {"render"}) /\ process[q].survey \in Surveys
      BY <2>4, RenderKnown DEF Upload, At, Stands, IInv
    <3>2. /\ process'[q].survey = process[q].survey /\ db' = db
          /\ stored' = [stored EXCEPT ![process[q].survey] = "own"]
      BY <2>4 DEF Upload, Goto, IInv, TypeOK, Process
    <3> QED BY <3>1, <3>2 DEF RenderHeld, IInv, TypeOK
  <2>5. CASE BeginErase(q) \/ DeleteFiles(q) \/ EraseNext(q)
    <3>1. process[q].work # "render"
      BY <2>5, ErasureKnown, GateKnown DEF BeginErase, DeleteFiles, EraseNext,
         At, Stands, Works
    <3>2. \/ process' = [process EXCEPT ![q] = NoProcess]
          \/ process' = [process EXCEPT ![q].at = "erasing"]
          \/ process' = [process EXCEPT ![q].at = "deleted"]
          \/ \E s \in process[q].doc :
               process' = [process EXCEPT ![q].at = "erasing", ![q].survey = s, ![q].doc = @ \ {s}]
      BY <2>5 DEF BeginErase, DeleteFiles, EraseNext, Goto, Become
    <3>3. process'[q].work \in {process[q].work, "none"}
      <4>1. process \in [Processes -> Process]
        BY DEF IInv, TypeOK
      <4>2. CASE process' = [process EXCEPT ![q] = NoProcess]
        BY <4>1, <4>2 DEF NoProcess
      <4>3. CASE process' = [process EXCEPT ![q].at = "erasing"]
        BY <4>1, <4>3 DEF Process
      <4>4. CASE process' = [process EXCEPT ![q].at = "deleted"]
        BY <4>1, <4>4 DEF Process
      <4>5. ASSUME NEW s \in process[q].doc,
                   process' = [process EXCEPT ![q].at = "erasing", ![q].survey = s, ![q].doc = @ \ {s}]
            PROVE  process'[q].work = process[q].work
        BY <4>1, <4>5 DEF Process
      <4> QED BY <3>2, <4>2, <4>3, <4>4, <4>5
    <3> QED BY <3>1, <3>3 DEF Works
  <2> QED BY <2>1, <2>3, <2>4, <2>5 DEF NewlyLocked
<1> QED BY <1>2, <1>3

(* An erasure keeps its request, in the database and the archive. *)
LEMMA ErasureKept ==
  ASSUME IInv, TypeOK', [Next]_vars
  PROVE  ErasureHeld'
<1> SUFFICES ASSUME NEW q \in Processes, Stands(q, {"erasing", "deleted"})'
             PROVE  LET s == process'[q].survey IN
                    /\ db'[s].deletion = "pending" /\ s \in Archived'
                    /\ At(q, "deleted")' => stored'[s] # "own"
  BY DEF ErasureHeld
<1>1. CASE process'[q] = process[q]
  <2>1. Stands(q, {"erasing", "deleted"}) /\ Stands(q, Locking)
    BY <1>1 DEF Stands, Locking
  <2> QED BY <1>1, <2>1, ErasureKnown, LocksHold, ArchivedGrows DEF Untouched,
       At
<1>2. CASE process'[q] # process[q]
  <2>1. NewlyLocked(q)
    BY <1>2, NewLock DEF Stands, Locking
  <2>2. CASE \E s \in Surveys : BeginRender(q, s)
    BY <2>2 DEF BeginRender, Start, Become, NoProcess, Stands, IInv, TypeOK
  <2>3. CASE Upload(q)
    BY <2>3 DEF Upload, Goto, Stands, IInv, TypeOK, Process
  <2>4. CASE BeginErase(q) /\ Ready(q) /\ process' = [process EXCEPT ![q].at = "erasing"]
    <3>1. /\ process'[q].survey = process[q].survey /\ process'[q].at = "erasing"
          /\ db' = db /\ Works(q, {"erase"}) /\ At(q, "published")
      BY <2>4 DEF BeginErase, Ready, Works, IInv, TypeOK, Process
    <3>2. process[q].survey \in Requested /\ process[q].survey \in Archived
      BY <3>1 DEF IInv, PublishedIsArchived, Followed, Works
    <3>3. db[process[q].survey].deletion # "completed"
      BY <2>4 DEF BeginErase, Become, NoProcess, IInv, TypeOK
    <3> QED BY <3>1, <3>2, <3>3, ArchivedGrows DEF At, Requested, IInv, TypeOK,
         Rows
  <2>5. CASE DeleteFiles(q)
    <3> DEFINE s == process[q].survey
    <3>1. s \in Surveys /\ db[s].deletion = "pending" /\ s \in Archived
      BY <2>5, ErasureKnown DEF DeleteFiles, At, Stands
    <3>2. /\ process'[q].survey = s /\ db' = db
          /\ stored' = [stored EXCEPT ![s] = IF HasFiles(s) THEN "none" ELSE @]
      BY <2>5 DEF DeleteFiles, Goto, IInv, TypeOK, Process
    <3>3. stored'[s] # "own"
      BY <3>1, <3>2 DEF HasFiles, IInv, TypeOK, RowsSound
    <3> QED BY <3>1, <3>2, <3>3, ArchivedGrows
  <2>6. CASE EraseNext(q)
    <3>1. PICK s \in process[q].doc :
            process' = [process EXCEPT ![q].at = "erasing", ![q].survey = s, ![q].doc = @ \ {s}]
      BY <2>6 DEF EraseNext
    <3>2. process'[q].survey = s /\ process'[q].at = "erasing" /\ db' = db
      BY <2>6, <3>1 DEF EraseNext, IInv, TypeOK, Process
    <3>3. db[s].deletion = "pending" /\ s \in Archived
      BY <2>6, <3>1, GateKnown DEF EraseNext, IInv, GateCovers, Covered
    <3> QED BY <3>2, <3>3, ArchivedGrows DEF At
  <2> QED BY <2>1, <2>2, <2>3, <2>4, <2>5, <2>6 DEF NewlyLocked
<1> QED BY <1>1, <1>2

-----------------------------------------------------------------------------
(* Requests. *)

(* Only a restore takes a request back. *)
LEMMA RequestsStand ==
  ASSUME IInv, [Next]_vars, ~Restore
  PROVE  Requested \subseteq Requested'
<1>1. ASSUME NEW s \in Surveys, Create(s) PROVE Requested \subseteq Requested'
  BY <1>1 DEF Create, Change, Requested, IInv, TypeOK, Rows
<1>2. ASSUME NEW s \in Surveys, Trash(s) PROVE Requested \subseteq Requested'
  BY <1>2 DEF Trash, Change, Requested, IInv, TypeOK, Rows
<1>3. ASSUME NEW s \in Surveys, TakeOut(s) PROVE Requested \subseteq Requested'
  BY <1>3 DEF TakeOut, Change, Requested, IInv, TypeOK, Rows
<1>4. ASSUME NEW s \in Surveys, OrderExport(s)
      PROVE  Requested \subseteq Requested'
  BY <1>4 DEF OrderExport, Change, Requested, IInv, TypeOK, Rows
<1>5. ASSUME NEW s \in Surveys, CancelExport(s)
      PROVE  Requested \subseteq Requested'
  BY <1>5 DEF CancelExport, Change, Requested, IInv, TypeOK, Rows
<1>6. ASSUME NEW p \in Processes, NEW s \in Surveys, Delete(p, s)
      PROVE  Requested \subseteq Requested'
  BY <1>6 DEF Delete, Request, Start, At, Become, Requested, IInv, TypeOK, Rows
<1>7. ASSUME NEW p \in Processes, NEW S \in SUBSET Surveys, Sweep(p, S)
      PROVE  Requested \subseteq Requested'
  BY <1>7 DEF Sweep, Request, Start, At, Become, Requested, IInv, TypeOK, Rows
<1>8. ASSUME NEW p \in Processes, NoteExport(p)
      PROVE  Requested \subseteq Requested'
  <2>1. /\ process[p].survey \in Surveys
    BY <1>8, RenderKnown DEF NoteExport, At, Stands
  <2>2. db' = [db EXCEPT ![process[p].survey].export = "noted"]
    BY <1>8 DEF NoteExport
  <2> QED BY <2>1, <2>2 DEF Requested, IInv, TypeOK, Rows
<1>9. ASSUME NEW p \in Processes, Complete(p)
      PROVE  Requested \subseteq Requested'
  BY <1>9 DEF Complete, Become, At, Requested, IInv, TypeOK, Rows, NoRows
<1>10. ASSUME NEW p \in Processes, Reapply(p)
       PROVE  Requested \subseteq Requested'
  <2>1. \E doc : db' = [s \in Surveys |-> IF s \in doc THEN Revoked(db[s]) ELSE db[s]]
    BY <1>10 DEF Reapply
  <2>2. \A s \in Surveys : Revoked(db[s]).deletion = "pending"
    BY DEF Revoked, IInv, TypeOK, Rows
  <2> QED BY <2>1, <2>2 DEF Requested
<1>11. ASSUME Restore PROVE Requested \subseteq Requested'
  BY <1>11
<1>12. CASE UNCHANGED db
  BY <1>12 DEF Requested, IInv, TypeOK, Rows
<1> QED BY <1>1, <1>2, <1>3, <1>4, <1>5, <1>6, <1>7, <1>8, <1>9, <1>10, <1>11,
     <1>12 DEF Next, vars, archive, history,
     LateUpload, BeginRender, Start, At, Become, DeleteAgain, Handle, Upload,
     Goto, Export, OperatorExports, Detach, Unchanged, Published, WritePending,
     WriteCurrent, RemovePending, Report, BeginErase, Ready, DeleteFiles, Fail,
     EraseNext, PassGate, GateDone, TakeBackup, AllStop

(* The steps of a confirmation or an erasure follow its request. *)
LEMMA FollowedStep ==
  ASSUME IInv, TypeOK', [Next]_vars,
         Requested \subseteq Requested', Archived \subseteq Archived',
         NEW q \in Processes, Works(q, {"confirm", "erase"})', process'[q] # process[q]
  PROVE  Followed(q)'
<1>1. ASSUME NEW p \in Processes, NEW s \in Surveys, BeginRender(p, s)
      PROVE  Followed(q)'
  BY <1>1 DEF BeginRender, Start, At, Become, IInv, TypeOK, Process, NoProcess,
     Followed, PublishedIsArchived, Works, Stands, Publishing
<1>2. ASSUME NEW p \in Processes, NEW s \in Surveys, Delete(p, s)
      PROVE  Followed(q)'
  BY <1>2 DEF Delete, Request, Start, At, Become, IInv, TypeOK, Process,
     NoProcess, Followed, PublishedIsArchived, Works, Stands, Publishing,
     Requested, Rows
<1>3. ASSUME NEW p \in Processes, NEW s \in Surveys, DeleteAgain(p, s)
      PROVE  Followed(q)'
  BY <1>3 DEF DeleteAgain, Start, At, Become, IInv, TypeOK, Process, NoProcess,
     Followed, PublishedIsArchived, Works, Stands, Publishing
<1>4. ASSUME NEW p \in Processes, NEW s \in Surveys, Handle(p, s)
      PROVE  Followed(q)'
  BY <1>4 DEF Handle, Start, At, Become, IInv, TypeOK, Process, NoProcess,
     Followed, PublishedIsArchived, Works, Stands, Publishing
<1>5. ASSUME NEW p \in Processes, NEW S \in SUBSET Surveys, Sweep(p, S)
      PROVE  Followed(q)'
  BY <1>5 DEF Sweep, Request, Start, At, Become, IInv, TypeOK, Process,
     NoProcess, Followed, PublishedIsArchived, Works, Stands, Publishing
<1>6. ASSUME NEW p \in Processes, Upload(p) PROVE Followed(q)'
  BY <1>6 DEF Upload, Goto, At, IInv, TypeOK, Process, NoProcess, Followed,
     PublishedIsArchived, Works, Stands, Publishing
<1>7. ASSUME NEW p \in Processes, NoteExport(p) PROVE Followed(q)'
  BY <1>7 DEF NoteExport, Become, At, IInv, TypeOK, Process, NoProcess,
     Followed, PublishedIsArchived, Works, Stands, Publishing
<1>8. ASSUME NEW p \in Processes, Export(p) PROVE Followed(q)'
  BY <1>8 DEF Export, At, IInv, TypeOK, Process, NoProcess, Followed,
     PublishedIsArchived, Works, Stands, Publishing
<1>9. ASSUME NEW p \in Processes, OperatorExports(p) PROVE Followed(q)'
  BY <1>9 DEF OperatorExports, Become, At, IInv, TypeOK, Process, NoProcess,
     Followed, PublishedIsArchived, Works, Stands, Publishing
<1>10. ASSUME NEW p \in Processes, Detach(p) PROVE Followed(q)'
  BY <1>10 DEF Detach, IInv, TypeOK, Process, NoProcess, Followed,
     PublishedIsArchived, Works, Stands, Publishing, At, StepsOfWork
<1>11. ASSUME NEW p \in Processes, Unchanged(p) PROVE Followed(q)'
  <2>1. q = p /\ process[p].lock = "held"
    BY <1>11 DEF Unchanged, Published, Become, NoProcess, Works, IInv, TypeOK
  <2>2. process'[p] = [process[p] EXCEPT !.at = "published", !.lock = "none"]
    BY <1>11, <2>1 DEF Unchanged, Published, Become, IInv, TypeOK
  <2>3. /\ process[p] \in Process
        /\ Works(p, {"confirm", "erase"}) /\ Stands(p, Publishing)
    BY <1>11, <2>1, <2>2 DEF Unchanged, At, Stands, Publishing, Works, IInv,
       TypeOK, Process
  <2>4. process[p].survey \in Requested /\ process[p].survey \in process[p].doc
    BY <2>3 DEF IInv, PublishedIsArchived, Followed
  <2>5. process[p].survey \in Archived'
    BY <1>11, <2>4 DEF Unchanged, At, Archived, Requested
  <2> QED BY <2>1, <2>2, <2>3, <2>4, <2>5 DEF Followed, Stands, Publishing,
       Process
<1>12. ASSUME NEW p \in Processes, WritePending(p) PROVE Followed(q)'
  BY <1>12 DEF WritePending, Goto, At, IInv, TypeOK, Process, NoProcess,
     Followed, PublishedIsArchived, Works, Stands, Publishing
<1>13. ASSUME NEW p \in Processes, WriteCurrent(p) PROVE Followed(q)'
  BY <1>13 DEF WriteCurrent, Goto, At, IInv, TypeOK, Process, NoProcess,
     Followed, PublishedIsArchived, Works, Stands, Publishing
<1>14. ASSUME NEW p \in Processes, RemovePending(p) PROVE Followed(q)'
  <2>1. q = p /\ process[p].lock = "held"
    BY <1>14 DEF RemovePending, Published, Become, NoProcess, Works, IInv,
       TypeOK
  <2>2. process'[p] = [process[p] EXCEPT !.at = "published", !.lock = "none"]
    BY <1>14, <2>1 DEF RemovePending, Published, Become, IInv, TypeOK
  <2>3. /\ process[p] \in Process
        /\ Works(p, {"confirm", "erase"}) /\ Stands(p, Publishing)
    BY <1>14, <2>1, <2>2 DEF RemovePending, At, Stands, Publishing, Works,
       IInv, TypeOK, Process
  <2>4. process[p].survey \in Requested /\ process[p].survey \in process[p].doc
    BY <2>3 DEF IInv, PublishedIsArchived, Followed
  <2>5. process[p].survey \in Archived'
    BY <1>14, <2>4 DEF RemovePending, At, Archived, Requested, IInv,
       WriterExtends
  <2> QED BY <2>1, <2>2, <2>3, <2>4, <2>5 DEF Followed, Stands, Publishing,
       Process
<1>15. ASSUME NEW p \in Processes, Report(p) PROVE Followed(q)'
  BY <1>15 DEF Report, Become, At, IInv, TypeOK, Process, NoProcess, Followed,
     PublishedIsArchived, Works, Stands, Publishing
<1>16. ASSUME NEW p \in Processes, BeginErase(p) PROVE Followed(q)'
  BY <1>16 DEF BeginErase, Ready, Become, Goto, At, IInv, TypeOK, Process,
     NoProcess, Followed, PublishedIsArchived, Works, Stands, Publishing
<1>17. ASSUME NEW p \in Processes, DeleteFiles(p) PROVE Followed(q)'
  BY <1>17 DEF DeleteFiles, Goto, At, IInv, TypeOK, Process, NoProcess,
     Followed, PublishedIsArchived, Works, Stands, Publishing
<1>18. ASSUME NEW p \in Processes, Complete(p) PROVE Followed(q)'
  BY <1>18 DEF Complete, Become, At, IInv, TypeOK, Process, NoProcess,
     Followed, PublishedIsArchived, Works, Stands, Publishing
<1>19. ASSUME NEW p \in Processes, Fail(p) PROVE Followed(q)'
  BY <1>19 DEF Fail, Become, At, IInv, TypeOK, Process, NoProcess, Followed,
     PublishedIsArchived, Works, Stands, Publishing
<1>20. ASSUME NEW p \in Processes, Reapply(p) PROVE Followed(q)'
  BY <1>20 DEF Reapply, Become, At, IInv, TypeOK, Process, NoProcess, Followed,
     PublishedIsArchived, Works, Stands, Publishing
<1>21. ASSUME NEW p \in Processes, EraseNext(p) PROVE Followed(q)'
  BY <1>21 DEF EraseNext, At, IInv, TypeOK, Process, NoProcess, Followed,
     PublishedIsArchived, Works, Stands, Publishing
<1>22. ASSUME NEW p \in Processes, PassGate(p) PROVE Followed(q)'
  BY <1>22 DEF PassGate, GateDone, Become, At, IInv, TypeOK, Process,
     NoProcess, Followed, PublishedIsArchived, Works, Stands, Publishing
<1>23. ASSUME TakeBackup PROVE Followed(q)'
  BY <1>23 DEF TakeBackup, AllStop, IInv, TypeOK, Process, NoProcess, Followed,
     PublishedIsArchived, Works, Stands, Publishing, At
<1>24. ASSUME Restore PROVE Followed(q)'
  BY <1>24 DEF Restore, AllStop, IInv, TypeOK, Process, NoProcess, Followed,
     PublishedIsArchived, Works, Stands, Publishing, At
<1>25. CASE UNCHANGED process
  BY <1>25 DEF IInv, TypeOK, Process, NoProcess, Followed, PublishedIsArchived,
     Works, Stands, Publishing, At
<1> QED BY <1>1, <1>2, <1>3, <1>4, <1>5, <1>6, <1>7, <1>8, <1>9, <1>10, <1>11,
     <1>12, <1>13, <1>14, <1>15, <1>16, <1>17, <1>18, <1>19, <1>20, <1>21,
     <1>22, <1>23, <1>24, <1>25 DEF Next, vars, archive, history,
     Create, Change, Trash, TakeOut, OrderExport, CancelExport, LateUpload

(* So do the steps of the others. *)
LEMMA PublishedKept ==
  ASSUME IInv, TypeOK', [Next]_vars
  PROVE  PublishedIsArchived'
<1> SUFFICES ASSUME NEW q \in Processes, Works(q, {"confirm", "erase"})'
             PROVE  Followed(q)'
  BY DEF PublishedIsArchived
<1>1. ~Restore
  BY DEF Restore, AllStop, NoProcess, Works
<1>2. Requested \subseteq Requested' /\ Archived \subseteq Archived'
  BY <1>1, RequestsStand, ArchivedGrows
<1>3. CASE process'[q] = process[q]
  BY <1>2, <1>3 DEF IInv, PublishedIsArchived, Followed, Works, Stands, At
<1>4. CASE process'[q] # process[q]
  BY <1>2, <1>4, FollowedStep
<1> QED BY <1>3, <1>4

-----------------------------------------------------------------------------
(* The gate. *)

(* While a gate runs nothing else changes rows. *)
LEMMA GateAlone ==
  ASSUME IInv, [Next]_vars,
         NEW q \in Processes, Works(q, {"gate"}), process'[q] = process[q]
  PROVE  UNCHANGED <<db, acked, gone>>
<1>1. ASSUME NEW s \in Surveys, Create(s) PROVE UNCHANGED <<db, acked, gone>>
  BY <1>1 DEF Create, Change, IInv, TypeOK, StepsOfWork, Works, Stands,
     Publishing, Online
<1>2. ASSUME NEW s \in Surveys, Trash(s) PROVE UNCHANGED <<db, acked, gone>>
  BY <1>2 DEF Trash, Change, IInv, TypeOK, StepsOfWork, Works, Stands,
     Publishing, Online
<1>3. ASSUME NEW s \in Surveys, TakeOut(s) PROVE UNCHANGED <<db, acked, gone>>
  BY <1>3 DEF TakeOut, Change, IInv, TypeOK, StepsOfWork, Works, Stands,
     Publishing, Online
<1>4. ASSUME NEW s \in Surveys, OrderExport(s)
      PROVE  UNCHANGED <<db, acked, gone>>
  BY <1>4 DEF OrderExport, Change, IInv, TypeOK, StepsOfWork, Works, Stands,
     Publishing, Online
<1>5. ASSUME NEW s \in Surveys, CancelExport(s)
      PROVE  UNCHANGED <<db, acked, gone>>
  BY <1>5 DEF CancelExport, Change, IInv, TypeOK, StepsOfWork, Works, Stands,
     Publishing, Online
<1>6. ASSUME NEW p \in Processes, NEW s \in Surveys, Delete(p, s)
      PROVE  UNCHANGED <<db, acked, gone>>
  BY <1>6 DEF Delete, Request, Start, At, Become, IInv, TypeOK, StepsOfWork,
     Works, Stands, Publishing, Online
<1>7. ASSUME NEW p \in Processes, NEW S \in SUBSET Surveys, Sweep(p, S)
      PROVE  UNCHANGED <<db, acked, gone>>
  BY <1>7 DEF Sweep, Request, Start, At, Become, IInv, TypeOK, StepsOfWork,
     Works, Stands, Publishing, Online
<1>8. ASSUME NEW p \in Processes, NoteExport(p)
      PROVE  UNCHANGED <<db, acked, gone>>
  BY <1>8, RenderKnown DEF NoteExport, At, Stands, IInv, StepsOfWork, Works
<1>9. ASSUME NEW p \in Processes, Report(p) PROVE UNCHANGED <<db, acked, gone>>
  BY <1>9 DEF Report, Become, At, IInv, TypeOK, StepsOfWork, Works, Stands,
     Publishing, Online
<1>10. ASSUME NEW p \in Processes, Complete(p)
       PROVE  UNCHANGED <<db, acked, gone>>
  <2>1. Works(p, {"erase", "gate"})
    BY <1>10, ErasureKnown DEF Complete, At, Stands
  <2>2. ~Works(p, {"erase"})
    BY DEF IInv, StepsOfWork, Works
  <2>3. p = q
    BY <2>1, <2>2 DEF IInv, GateCovers, OneGate, Works
  <2>4. process'[p].at # "deleted"
    BY <1>10 DEF Complete, Become, NoProcess, IInv, TypeOK, Process
  <2> QED BY <1>10, <2>3, <2>4 DEF Complete, At
<1>11. ASSUME NEW p \in Processes, Reapply(p)
       PROVE  UNCHANGED <<db, acked, gone>>
  BY <1>11 DEF Reapply, Works
<1>12. ASSUME Restore PROVE UNCHANGED <<db, acked, gone>>
  BY <1>12 DEF Restore, AllStop, NoProcess, Works
<1>13. CASE UNCHANGED <<db, acked, gone>>
  BY <1>13 DEF IInv, TypeOK, StepsOfWork, Works, Stands, Publishing, Online
<1> QED BY <1>1, <1>2, <1>3, <1>4, <1>5, <1>6, <1>7, <1>8, <1>9, <1>10, <1>11,
     <1>12, <1>13 DEF Next, vars, archive, history,
     LateUpload, BeginRender, Start, At, Become, DeleteAgain, Handle, Upload,
     Goto, Export, OperatorExports, Detach, Unchanged, Published, WritePending,
     WriteCurrent, RemovePending, BeginErase, Ready, DeleteFiles, Fail,
     EraseNext, PassGate, GateDone, TakeBackup, AllStop

(* A gate starts only where there is none. *)
LEMMA OneGateKept ==
  ASSUME IInv, TypeOK', [Next]_vars
  PROVE  OneGate'
<1>1. ASSUME NEW p \in Processes, NEW s \in Surveys, BeginRender(p, s)
      PROVE  OneGate'
  BY <1>1 DEF BeginRender, Start, At, Become, IInv, TypeOK, NoProcess,
     GateCovers, OneGate, Works
<1>2. ASSUME NEW p \in Processes, NEW s \in Surveys, Delete(p, s)
      PROVE  OneGate'
  BY <1>2 DEF Delete, Request, Start, At, Become, IInv, TypeOK, NoProcess,
     GateCovers, OneGate, Works
<1>3. ASSUME NEW p \in Processes, NEW s \in Surveys, DeleteAgain(p, s)
      PROVE  OneGate'
  BY <1>3 DEF DeleteAgain, Start, At, Become, IInv, TypeOK, NoProcess,
     GateCovers, OneGate, Works
<1>4. ASSUME NEW p \in Processes, NEW s \in Surveys, Handle(p, s)
      PROVE  OneGate'
  BY <1>4 DEF Handle, Start, At, Become, IInv, TypeOK, NoProcess, GateCovers,
     OneGate, Works
<1>5. ASSUME NEW p \in Processes, NEW S \in SUBSET Surveys, Sweep(p, S)
      PROVE  OneGate'
  BY <1>5 DEF Sweep, Request, Start, At, Become, IInv, TypeOK, NoProcess,
     GateCovers, OneGate, Works
<1>6. ASSUME NEW p \in Processes, Upload(p) PROVE OneGate'
  BY <1>6 DEF Upload, Goto, At, IInv, TypeOK, NoProcess, GateCovers, OneGate,
     Works
<1>7. ASSUME NEW p \in Processes, NoteExport(p) PROVE OneGate'
  BY <1>7 DEF NoteExport, Become, At, IInv, TypeOK, NoProcess, GateCovers,
     OneGate, Works
<1>8. ASSUME NEW p \in Processes, Export(p) PROVE OneGate'
  BY <1>8 DEF Export, At, IInv, TypeOK, NoProcess, GateCovers, OneGate, Works
<1>9. ASSUME NEW p \in Processes, OperatorExports(p) PROVE OneGate'
  BY <1>9 DEF OperatorExports, Become, At, IInv, TypeOK, NoProcess, GateCovers,
     OneGate, Works
<1>10. ASSUME NEW p \in Processes, Detach(p) PROVE OneGate'
  BY <1>10 DEF Detach, IInv, TypeOK, NoProcess, GateCovers, OneGate, Works
<1>11. ASSUME NEW p \in Processes, Unchanged(p) PROVE OneGate'
  BY <1>11 DEF Unchanged, Published, Become, At, IInv, TypeOK, NoProcess,
     GateCovers, OneGate, Works
<1>12. ASSUME NEW p \in Processes, WritePending(p) PROVE OneGate'
  BY <1>12 DEF WritePending, Goto, At, IInv, TypeOK, NoProcess, GateCovers,
     OneGate, Works
<1>13. ASSUME NEW p \in Processes, WriteCurrent(p) PROVE OneGate'
  BY <1>13 DEF WriteCurrent, Goto, At, IInv, TypeOK, NoProcess, GateCovers,
     OneGate, Works
<1>14. ASSUME NEW p \in Processes, RemovePending(p) PROVE OneGate'
  BY <1>14 DEF RemovePending, Published, Become, At, IInv, TypeOK, NoProcess,
     GateCovers, OneGate, Works
<1>15. ASSUME NEW p \in Processes, Report(p) PROVE OneGate'
  BY <1>15 DEF Report, Become, At, IInv, TypeOK, NoProcess, GateCovers,
     OneGate, Works
<1>16. ASSUME NEW p \in Processes, BeginErase(p) PROVE OneGate'
  <2>1. \/ process' = [process EXCEPT ![p] = NoProcess]
        \/ process' = [process EXCEPT ![p].at = "erasing"]
    BY <1>16 DEF BeginErase, Become, Goto
  <2>2. \A q \in Processes : q # p => process'[q] = process[q]
    BY <2>1 DEF IInv, TypeOK
  <2>3. process'[p].work \in {process[p].work, "none"}
    BY <2>1 DEF NoProcess, IInv, TypeOK, Process
  <2> QED BY <2>2, <2>3 DEF IInv, GateCovers, OneGate, Works
<1>17. ASSUME NEW p \in Processes, DeleteFiles(p) PROVE OneGate'
  BY <1>17 DEF DeleteFiles, Goto, At, IInv, TypeOK, NoProcess, GateCovers,
     OneGate, Works
<1>18. ASSUME NEW p \in Processes, Complete(p) PROVE OneGate'
  BY <1>18 DEF Complete, Become, At, IInv, TypeOK, NoProcess, GateCovers,
     OneGate, Works
<1>19. ASSUME NEW p \in Processes, Fail(p) PROVE OneGate'
  BY <1>19 DEF Fail, Become, At, IInv, TypeOK, NoProcess, GateCovers, OneGate,
     Works
<1>20. ASSUME NEW p \in Processes, Reapply(p) PROVE OneGate'
  BY <1>20 DEF Reapply, Become, At, IInv, TypeOK, NoProcess, GateCovers,
     OneGate, Works
<1>21. ASSUME NEW p \in Processes, EraseNext(p) PROVE OneGate'
  BY <1>21 DEF EraseNext, At, IInv, TypeOK, NoProcess, GateCovers, OneGate,
     Works
<1>22. ASSUME NEW p \in Processes, PassGate(p) PROVE OneGate'
  BY <1>22 DEF PassGate, GateDone, Become, At, IInv, TypeOK, NoProcess,
     GateCovers, OneGate, Works
<1>23. ASSUME TakeBackup PROVE OneGate'
  BY <1>23 DEF TakeBackup, AllStop, IInv, TypeOK, NoProcess, GateCovers,
     OneGate, Works
<1>24. ASSUME Restore PROVE OneGate'
  BY <1>24 DEF Restore, AllStop, IInv, TypeOK, NoProcess, GateCovers, OneGate,
     Works
<1>25. CASE UNCHANGED process
  BY <1>25 DEF IInv, TypeOK, NoProcess, GateCovers, OneGate, Works
<1> QED BY <1>1, <1>2, <1>3, <1>4, <1>5, <1>6, <1>7, <1>8, <1>9, <1>10, <1>11,
     <1>12, <1>13, <1>14, <1>15, <1>16, <1>17, <1>18, <1>19, <1>20, <1>21,
     <1>22, <1>23, <1>24, <1>25 DEF Next, vars, archive, history,
     Create, Change, Trash, TakeOut, OrderExport, CancelExport, LateUpload

(* The gate erases what it does not drop. *)
LEMMA CoveredStep ==
  ASSUME IInv, TypeOK', [Next]_vars,
         NEW q \in Processes, Works(q, {"gate"})', process'[q] # process[q]
  PROVE  Covered(q)'
<1>1. ASSUME NEW p \in Processes, NEW s \in Surveys, BeginRender(p, s)
      PROVE  Covered(q)'
  BY <1>1 DEF BeginRender, Start, At, Become, IInv, TypeOK, Process, NoProcess,
     GateCovers, Covered, Works, Stands, StepsOfWork, Publishing
<1>2. ASSUME NEW p \in Processes, NEW s \in Surveys, Delete(p, s)
      PROVE  Covered(q)'
  BY <1>2 DEF Delete, Request, Start, At, Become, IInv, TypeOK, Process,
     NoProcess, GateCovers, Covered, Works, Stands, StepsOfWork, Publishing
<1>3. ASSUME NEW p \in Processes, NEW s \in Surveys, DeleteAgain(p, s)
      PROVE  Covered(q)'
  BY <1>3 DEF DeleteAgain, Start, At, Become, IInv, TypeOK, Process, NoProcess,
     GateCovers, Covered, Works, Stands, StepsOfWork, Publishing
<1>4. ASSUME NEW p \in Processes, NEW s \in Surveys, Handle(p, s)
      PROVE  Covered(q)'
  BY <1>4 DEF Handle, Start, At, Become, IInv, TypeOK, Process, NoProcess,
     GateCovers, Covered, Works, Stands, StepsOfWork, Publishing
<1>5. ASSUME NEW p \in Processes, NEW S \in SUBSET Surveys, Sweep(p, S)
      PROVE  Covered(q)'
  BY <1>5 DEF Sweep, Request, Start, At, Become, IInv, TypeOK, Process,
     NoProcess, GateCovers, Covered, Works, Stands, StepsOfWork, Publishing
<1>6. ASSUME NEW p \in Processes, Upload(p) PROVE Covered(q)'
  BY <1>6 DEF Upload, Goto, At, IInv, TypeOK, Process, NoProcess, GateCovers,
     Covered, Works, Stands, StepsOfWork, Publishing
<1>7. ASSUME NEW p \in Processes, NoteExport(p) PROVE Covered(q)'
  BY <1>7 DEF NoteExport, Become, At, IInv, TypeOK, Process, NoProcess,
     GateCovers, Covered, Works, Stands, StepsOfWork, Publishing
<1>8. ASSUME NEW p \in Processes, Export(p) PROVE Covered(q)'
  BY <1>8 DEF Export, At, IInv, TypeOK, Process, NoProcess, GateCovers,
     Covered, Works, Stands, StepsOfWork, Publishing
<1>9. ASSUME NEW p \in Processes, OperatorExports(p) PROVE Covered(q)'
  BY <1>9 DEF OperatorExports, Become, At, IInv, TypeOK, Process, NoProcess,
     GateCovers, Covered, Works, Stands, StepsOfWork, Publishing
<1>10. ASSUME NEW p \in Processes, Detach(p) PROVE Covered(q)'
  BY <1>10 DEF Detach, IInv, TypeOK, Process, NoProcess, GateCovers, Covered,
     Works, Stands, StepsOfWork, Publishing, At
<1>11. ASSUME NEW p \in Processes, Unchanged(p) PROVE Covered(q)'
  BY <1>11 DEF Unchanged, Published, Become, At, IInv, TypeOK, Process,
     NoProcess, GateCovers, Covered, Works, Stands, StepsOfWork, Publishing
<1>12. ASSUME NEW p \in Processes, WritePending(p) PROVE Covered(q)'
  BY <1>12 DEF WritePending, Goto, At, IInv, TypeOK, Process, NoProcess,
     GateCovers, Covered, Works, Stands, StepsOfWork, Publishing
<1>13. ASSUME NEW p \in Processes, WriteCurrent(p) PROVE Covered(q)'
  BY <1>13 DEF WriteCurrent, Goto, At, IInv, TypeOK, Process, NoProcess,
     GateCovers, Covered, Works, Stands, StepsOfWork, Publishing
<1>14. ASSUME NEW p \in Processes, RemovePending(p) PROVE Covered(q)'
  BY <1>14 DEF RemovePending, Published, Become, At, IInv, TypeOK, Process,
     NoProcess, GateCovers, Covered, Works, Stands, StepsOfWork, Publishing
<1>15. ASSUME NEW p \in Processes, Report(p) PROVE Covered(q)'
  BY <1>15 DEF Report, Become, At, IInv, TypeOK, Process, NoProcess,
     GateCovers, Covered, Works, Stands, StepsOfWork, Publishing
<1>16. ASSUME NEW p \in Processes, BeginErase(p) PROVE Covered(q)'
  BY <1>16 DEF BeginErase, Ready, Become, Goto, At, IInv, TypeOK, Process,
     NoProcess, GateCovers, Covered, Works, Stands, StepsOfWork, Publishing
<1>17. ASSUME NEW p \in Processes, DeleteFiles(p) PROVE Covered(q)'
  <2>1. q = p /\ At(p, "erasing") /\ UNCHANGED <<db, current, acked, gone>>
    BY <1>17 DEF DeleteFiles, Goto, archive, history, IInv, TypeOK
  <2>2. process'[p] = [process[p] EXCEPT !.at = "deleted"]
    BY <1>17, <2>1 DEF DeleteFiles, Goto, IInv, TypeOK
  <2>3. Works(p, {"gate"})
    BY <2>1, <2>2 DEF Works, IInv, TypeOK, Process
  <2> QED BY <2>1, <2>2, <2>3 DEF IInv, TypeOK, Process, GateCovers, Covered,
       At, Archived
<1>18. ASSUME NEW p \in Processes, Complete(p) PROVE Covered(q)'
  <2> DEFINE s == process[p].survey
  <2>1. q = p /\ process[p].work = "gate"
    BY <1>18 DEF Complete, Become, NoProcess, Works, IInv, TypeOK, Process
  <2>2. Covered(p) /\ s \in Surveys
    BY <1>18, <2>1, ErasureKnown DEF Complete, At, Stands, Works, IInv,
       GateCovers
  <2>3. process' = [process EXCEPT ![p].at = "gating", ![p].survey = NoSurvey]
    BY <1>18, <2>1 DEF Complete
  <2>4. /\ process'[p].doc = process[p].doc /\ process'[p].survey = NoSurvey
        /\ process[p].doc \subseteq Surveys
    BY <2>3 DEF IInv, TypeOK, Process
  <2>5. db' = [db EXCEPT ![s] = [NoRows EXCEPT !.deletion = "completed"]]
    BY <1>18 DEF Complete
  <2>6. db'[s].deletion = "completed" /\ \A t \in Surveys : t # s => db'[t] = db[t]
    BY <2>2, <2>5 DEF NoRows, IInv, TypeOK
  <2>7. acked' = acked /\ gone' = gone \cup {s} /\ current' = current
    BY <1>18 DEF Complete, archive
  <2>8. process'[p].doc \subseteq Archived'
    BY <2>2, <2>4, <2>7 DEF Covered, Archived
  <2>9. \A t \in process'[p].doc : db'[t].deletion = "pending" /\ t # process'[p].survey
    BY <2>2, <2>4, <2>6, ErasureAssumption DEF Covered
  <2>10. acked \subseteq Surveys /\ gone \subseteq Surveys
    BY DEF IInv, TypeOK
  <2>11. \A t \in acked' \cup gone' : t \in process'[p].doc \/ db'[t].deletion = "completed"
    BY <2>2, <2>4, <2>6, <2>7, <2>10 DEF Covered
  <2> QED BY <2>1, <2>4, <2>8, <2>9, <2>11 DEF Covered
<1>19. ASSUME NEW p \in Processes, Fail(p) PROVE Covered(q)'
  BY <1>19 DEF Fail, Become, At, IInv, TypeOK, Process, NoProcess, GateCovers,
     Covered, Works, Stands, StepsOfWork, Publishing
<1>20. ASSUME NEW p \in Processes, Reapply(p) PROVE Covered(q)'
  <2>1. PICK doc \in current :
           /\ db' = [s \in Surveys |-> IF s \in doc THEN Revoked(db[s]) ELSE db[s]]
           /\ process' = [process EXCEPT ![p] = [NoProcess EXCEPT !.work = "gate",
                                                                !.at = "gating", !.doc = doc]]
    BY <1>20 DEF Reapply, Become
  <2>2. q = p /\ UNCHANGED <<current, acked, gone>>
    BY <1>20, <2>1 DEF Reapply, archive, history, IInv, TypeOK
  <2>3. process'[p].doc = doc /\ process'[p].survey = NoSurvey
    BY <2>1 DEF NoProcess, IInv, TypeOK
  <2>4. Archived = doc
    BY <2>1 DEF IInv, TypeOK, WriterExtends, Archived
  <2>5. Archived' = doc
    BY <2>2, <2>4 DEF Archived
  <2>6. \A t \in doc : t \in Surveys /\ db'[t].deletion = "pending"
    <3>1. doc \subseteq Surveys
      BY DEF IInv, TypeOK
    <3>2. \A t \in Surveys : Revoked(db[t]).deletion = "pending"
      BY DEF Revoked, IInv, TypeOK, Rows
    <3> QED BY <2>1, <3>1, <3>2
  <2>7. acked \cup gone \subseteq doc
    BY <2>4 DEF IInv, HistoryArchived
  <2> QED BY <2>2, <2>3, <2>5, <2>6, <2>7, ErasureAssumption DEF Covered
<1>21. ASSUME NEW p \in Processes, EraseNext(p) PROVE Covered(q)'
  BY <1>21 DEF EraseNext, At, IInv, TypeOK, Process, NoProcess, GateCovers,
     Covered, Works, Stands, StepsOfWork, Publishing
<1>22. ASSUME NEW p \in Processes, PassGate(p) PROVE Covered(q)'
  BY <1>22 DEF PassGate, GateDone, Become, At, IInv, TypeOK, Process,
     NoProcess, GateCovers, Covered, Works, Stands, StepsOfWork, Publishing
<1>23. ASSUME TakeBackup PROVE Covered(q)'
  BY <1>23 DEF TakeBackup, AllStop, IInv, TypeOK, Process, NoProcess,
     GateCovers, Covered, Works, Stands, StepsOfWork, Publishing, At
<1>24. ASSUME Restore PROVE Covered(q)'
  BY <1>24 DEF Restore, AllStop, IInv, TypeOK, Process, NoProcess, GateCovers,
     Covered, Works, Stands, StepsOfWork, Publishing, At
<1>25. CASE UNCHANGED process
  BY <1>25 DEF IInv, TypeOK, Process, NoProcess, GateCovers, Covered, Works,
     Stands, StepsOfWork, Publishing, At
<1> QED BY <1>1, <1>2, <1>3, <1>4, <1>5, <1>6, <1>7, <1>8, <1>9, <1>10, <1>11,
     <1>12, <1>13, <1>14, <1>15, <1>16, <1>17, <1>18, <1>19, <1>20, <1>21,
     <1>22, <1>23, <1>24, <1>25 DEF Next, vars, archive, history,
     Create, Change, Trash, TakeOut, OrderExport, CancelExport, LateUpload

(* The gate covers the history in every step. *)
LEMMA GateKept ==
  ASSUME IInv, TypeOK', [Next]_vars
  PROVE  GateCovers'
<1> SUFFICES ASSUME NEW q \in Processes, Works(q, {"gate"})'
             PROVE  Covered(q)'
  BY OneGateKept DEF GateCovers
<1>1. CASE process'[q] = process[q]
  BY <1>1, GateAlone, ArchivedGrows DEF IInv, GateCovers, Covered, Works, At
<1>2. CASE process'[q] # process[q]
  BY <1>2, CoveredStep
<1> QED BY <1>1, <1>2

(* Outside the gate a completed erasure stays completed. *)
LEMMA CompletedStands ==
  ASSUME IInv, [Next]_vars, Online, ~Restore,
         NEW t \in Surveys, db[t].deletion = "completed"
  PROVE  db'[t].deletion = "completed"
<1>1. ASSUME NEW s \in Surveys, Create(s) PROVE db'[t].deletion = "completed"
  BY <1>1 DEF Create, Change, IInv, TypeOK, Rows
<1>2. ASSUME NEW s \in Surveys, Trash(s) PROVE db'[t].deletion = "completed"
  BY <1>2 DEF Trash, Change, IInv, TypeOK, Rows
<1>3. ASSUME NEW s \in Surveys, TakeOut(s) PROVE db'[t].deletion = "completed"
  BY <1>3 DEF TakeOut, Change, IInv, TypeOK, Rows
<1>4. ASSUME NEW s \in Surveys, OrderExport(s)
      PROVE  db'[t].deletion = "completed"
  BY <1>4 DEF OrderExport, Change, IInv, TypeOK, Rows
<1>5. ASSUME NEW s \in Surveys, CancelExport(s)
      PROVE  db'[t].deletion = "completed"
  BY <1>5 DEF CancelExport, Change, IInv, TypeOK, Rows
<1>6. ASSUME NEW p \in Processes, NEW s \in Surveys, Delete(p, s)
      PROVE  db'[t].deletion = "completed"
  BY <1>6 DEF Delete, Request, Start, At, Become, IInv, TypeOK, Rows
<1>7. ASSUME NEW p \in Processes, NEW S \in SUBSET Surveys, Sweep(p, S)
      PROVE  db'[t].deletion = "completed"
  BY <1>7 DEF Sweep, Request, Start, At, Become, IInv, TypeOK, Rows
<1>8. ASSUME NEW p \in Processes, NoteExport(p)
      PROVE  db'[t].deletion = "completed"
  <2>1. /\ process[p].survey \in Surveys /\ db' = [db EXCEPT ![process[p].survey].export = "noted"]
    BY <1>8, RenderKnown DEF NoteExport, At, Stands
  <2> QED BY <2>1 DEF IInv, TypeOK, Rows
<1>9. ASSUME NEW p \in Processes, Complete(p)
      PROVE  db'[t].deletion = "completed"
  BY <1>9 DEF Complete, Become, At, IInv, TypeOK, Rows, NoRows
<1>10. ASSUME NEW p \in Processes, Reapply(p)
       PROVE  db'[t].deletion = "completed"
  BY <1>10 DEF Reapply, Online
<1>11. ASSUME Restore PROVE db'[t].deletion = "completed"
  BY <1>11
<1>12. CASE UNCHANGED db
  BY <1>12 DEF IInv, TypeOK, Rows
<1> QED BY <1>1, <1>2, <1>3, <1>4, <1>5, <1>6, <1>7, <1>8, <1>9, <1>10, <1>11,
     <1>12 DEF Next, vars, archive, history,
     LateUpload, BeginRender, Start, At, Become, DeleteAgain, Handle, Upload,
     Goto, Export, OperatorExports, Detach, Unchanged, Published, WritePending,
     WriteCurrent, RemovePending, Report, BeginErase, Ready, DeleteFiles, Fail,
     EraseNext, PassGate, GateDone, TakeBackup, AllStop

(* The application starts on a history that is erased. *)
LEMMA PassedGate ==
  ASSUME IInv, NEW p \in Processes, PassGate(p)
  PROVE  \A s \in acked \cup gone : db'[s].deletion = "completed"
<1>1. At(p, "gating") /\ process[p].doc = {} /\ db' = db
  BY DEF PassGate, GateDone
<1>2. Covered(p) /\ process[p].survey = NoSurvey
  BY <1>1, GateKnown DEF IInv, GateCovers
<1> QED BY <1>1, <1>2, ErasureAssumption DEF Covered, IInv, TypeOK

(* The steps that start or stop the application. *)
LEMMA PhaseStep ==
  ASSUME [Next]_vars, phase' # phase
  PROVE  Restore \/ \E q \in Processes : PassGate(q)
<1>1. ASSUME NEW p \in Processes, PassGate(p)
      PROVE  Restore \/ \E q \in Processes : PassGate(q)
  BY <1>1
<1>2. ASSUME Restore PROVE Restore \/ \E q \in Processes : PassGate(q)
  BY <1>2
<1>3. CASE UNCHANGED phase
  BY <1>3
<1> QED BY <1>1, <1>2, <1>3 DEF Next, vars, archive, history,
     Create, Change, Trash, TakeOut, OrderExport, CancelExport, LateUpload,
     BeginRender, Start, At, Become, Delete, Request, DeleteAgain, Handle,
     Sweep, Upload, Goto, NoteExport, Export, OperatorExports, Detach,
     Unchanged, Published, WritePending, WriteCurrent, RemovePending, Report,
     BeginErase, Ready, DeleteFiles, Complete, Fail, Reapply, EraseNext,
     TakeBackup, AllStop

(* The steps that make history while it runs. *)
LEMMA HistoryStep ==
  ASSUME [Next]_vars, UNCHANGED phase, <<acked, gone>>' # <<acked, gone>>
  PROVE  \E q \in Processes : Report(q) \/ Complete(q)
<1>1. ASSUME NEW p \in Processes, Report(p)
      PROVE  \E q \in Processes : Report(q) \/ Complete(q)
  BY <1>1
<1>2. ASSUME NEW p \in Processes, Complete(p)
      PROVE  \E q \in Processes : Report(q) \/ Complete(q)
  BY <1>2
<1>3. CASE UNCHANGED <<acked, gone>>
  BY <1>3
<1> QED BY <1>1, <1>2, <1>3 DEF Next, vars, archive, history,
     Create, Change, Trash, TakeOut, OrderExport, CancelExport, LateUpload,
     BeginRender, Start, At, Become, Delete, Request, DeleteAgain, Handle,
     Sweep, Upload, Goto, NoteExport, Export, OperatorExports, Detach,
     Unchanged, Published, WritePending, WriteCurrent, RemovePending,
     BeginErase, Ready, DeleteFiles, Fail, Reapply, EraseNext, PassGate,
     GateDone, TakeBackup, AllStop, Restore

(* What is confirmed or completed stays so while the application runs. *)
LEMMA OnlineStands ==
  ASSUME IInv, [Next]_vars
  PROVE  OnlineKept'
<1> SUFFICES ASSUME Online'
             PROVE  /\ acked' \subseteq Requested'
                    /\ \A s \in gone' : db'[s].deletion = "completed"
  BY DEF OnlineKept
<1>0. acked \subseteq Surveys /\ gone \subseteq Surveys /\ ~Restore
  BY DEF IInv, TypeOK, Restore, Online
<1>1. CASE \E p \in Processes : PassGate(p)
  <2>1. PICK p \in Processes : PassGate(p)
    BY <1>1
  <2>2. acked' = acked /\ gone' = gone
    BY <2>1 DEF PassGate, history
  <2> QED BY <1>0, <2>1, <2>2, PassedGate DEF Requested
<1>2. CASE Online
  <2>1. /\ Requested \subseteq Requested' /\ acked \subseteq Requested
        /\ \A s \in gone : db'[s].deletion = "completed"
    BY <1>0, <1>2, RequestsStand, CompletedStands DEF IInv, OnlineKept
  <2>2. CASE UNCHANGED <<acked, gone>>
    BY <2>1, <2>2
  <2>3. ASSUME NEW p \in Processes, Report(p)
        PROVE  acked' \subseteq Requested' /\ gone' = gone
    <3>1. process[p].work = "confirm" => process[p].survey \in Requested
      BY DEF IInv, PublishedIsArchived, Followed, Works
    <3> QED BY <2>1, <2>3, <3>1 DEF Report
  <2>4. ASSUME NEW p \in Processes, Complete(p)
        PROVE  /\ acked' = acked
               /\ \A s \in gone' : db'[s].deletion = "completed"
    <3>1. process[p].survey \in Surveys
      BY <2>4, ErasureKnown DEF Complete, At, Stands
    <3>2. db'[process[p].survey].deletion = "completed"
      BY <2>4, <3>1 DEF Complete, NoRows, IInv, TypeOK
    <3> QED BY <2>1, <2>4, <3>2 DEF Complete
  <2>5. UNCHANGED phase
    BY <1>2 DEF Online
  <2> QED BY <2>1, <2>2, <2>3, <2>4, <2>5, HistoryStep
<1> QED BY <1>0, <1>1, <1>2, PhaseStep DEF Online

-----------------------------------------------------------------------------
(* The invariant and the theorems. *)

(* Nothing has happened yet. *)
LEMMA InitInv == Init => IInv
<1> SUFFICES ASSUME Init PROVE IInv
  OBVIOUS
<1>1. TypeOK
  BY ErasureAssumption DEF Init, TypeOK, Rows, NoRows, Process, NoProcess
<1>2. RowsSound(db, stored) /\ BackupSound
  BY DEF Init, RowsSound, NoRows, BackupSound
<1>3. \A p \in Processes : process[p] = NoProcess
  BY DEF Init
<1>4. StepsOfWork /\ LocksExclusive /\ RenderHeld /\ ErasureHeld
  BY <1>3 DEF NoProcess, StepsOfWork, LocksExclusive, RenderHeld, ErasureHeld,
     Works, Stands,
     Locking, Publishing
<1>5. PublishedIsArchived /\ WriterExtends /\ GateCovers
  BY <1>3 DEF Init, NoProcess, PublishedIsArchived, WriterExtends, GateCovers,
     OneGate, Works,
     Stands, At
<1>6. HistoryArchived /\ OnlineKept
  BY DEF Init, HistoryArchived, OnlineKept
<1> QED BY <1>1, <1>2, <1>4, <1>5, <1>6 DEF IInv

(* The invariant is inductive. *)
LEMMA InvKept == IInv /\ [Next]_vars => IInv'
<1> SUFFICES ASSUME IInv, [Next]_vars PROVE IInv'
  OBVIOUS
<1>1. TypeOK'
  BY TypeKept DEF IInv
<1>2. StepsOfWork'
  BY <1>1, StepsKept
<1>3. RowsSound(db, stored)' /\ BackupSound' /\ HistoryArchived' /\ OnlineKept'
  BY RowsKept, BackupKept, HistoryKept, OnlineStands
<1>4. LocksExclusive' /\ RenderHeld' /\ ErasureHeld'
  BY <1>1, <1>2, LocksKept, RenderKept, ErasureKept
<1>5. PublishedIsArchived' /\ WriterExtends' /\ GateCovers'
  BY <1>1, PublishedKept, WriterKept, GateKept
<1> QED BY <1>1, <1>2, <1>3, <1>4, <1>5 DEF IInv

(* The invariant holds in every reachable state. *)
THEOREM InvariantHolds == Spec => []IInv
<1> QED BY InitInv, InvKept, PTL DEF Spec

(* The variables keep values of their types through every request, sweep,  *)
(* worker, gate, failure, backup and restore.                              *)
THEOREM TypeCorrect == Spec => []TypeOK
<1>1. IInv => TypeOK
  BY DEF IInv
<1> QED BY <1>1, InvariantHolds, PTL

(* Whenever the application runs, an erasure a user was told of is on      *)
(* record and its survey not in use (delete-permanently, the archive's     *)
(* publish and extends, reapply_checkpoint).                               *)
THEOREM ConfirmedStands == Spec => []ConfirmedErasureStands
<1>1. IInv => ConfirmedErasureStands
  BY DEF IInv, OnlineKept, RowsSound, TypeOK, Requested, ConfirmedErasureStands
<1> QED BY <1>1, InvariantHolds, PTL

(* Whenever the application runs, a survey that was once erased is there   *)
(* no more, whatever backup was restored (_erase, reapply_checkpoint).     *)
THEOREM ErasedStands == Spec => []ErasedStaysErased
<1>1. IInv => ErasedStaysErased
  BY DEF IInv, OnlineKept, RowsSound, TypeOK, ErasedStaysErased
<1> QED BY <1>1, InvariantHolds, PTL

(* No file outlives a completed erasure but one uploaded too late, and     *)
(* what a job names is there before its survey is to be erased (_erase,    *)
(* _render, _cancel).                                                      *)
THEOREM FilesMatch == Spec => []FilesMatchRows
<1>1. IInv => FilesMatchRows
  BY DEF IInv, RowsSound, NoRows, FilesMatchRows
<1> QED BY <1>1, InvariantHolds, PTL
=============================================================================
