-------------------------- MODULE JobDispatch_proofs --------------------------
(***************************************************************************)
(* Proofs about JobDispatch, for any sets of jobs, workers, kills, edits   *)
(* and events.                                                             *)
(***************************************************************************)
EXTENDS JobDispatch, Integers, TLAPS

-----------------------------------------------------------------------------
(* Types                                                                   *)

(* The daemons start with well-typed tables, lists and calls.              *)
LEMMA InitType == Init => TypeOK
<1> USE DEF Status, NoRow
<1>1. AnyJob \in Jobs
  BY JobsAssumption DEF AnyJob
<1>2. Init => NetTypeOK
  BY <1>1 DEF Init, NetInit, NetTypeOK, SubmitState, ReportState, KillState
<1>3. Init => ManagerTypeOK
  BY <1>1 DEF Init, ManagerInit, ManagerTypeOK, AddState, KillerState,
     EditState
<1>4. Init => WorkerTypeOK
  BY DEF Init, WorkerInit, WorkerTypeOK, WaddState, ExecState, ProcState,
     Entry, NoEntry
<1>5. QED
  BY <1>2, <1>3, <1>4 DEF TypeOK

(* A step of the manager keeps the types. *)
LEMMA ManagerStepType ==
    ASSUME TypeOK, ManagerNext, UNCHANGED workerVars
    PROVE  TypeOK'
<1> USE DEF TypeOK, NetTypeOK, ManagerTypeOK, WorkerTypeOK, workerVars, Config,
     Status, NoRow, SubmitState, ReportState, KillState, AddState, KillerState, EditState
<1>1. ASSUME NEW j \in Jobs, AddJobInsert(j) PROVE TypeOK'
  BY <1>1 DEF AddJobInsert, AddGoto, netVars
<1>2. ASSUME NEW j \in Jobs, AddJobRoute(j) PROVE TypeOK'
  BY <1>2 DEF AddJobRoute, AddGoto, SelectWorker
<1>3. ASSUME NEW j \in Jobs, AddJobStore(j) PROVE TypeOK'
  BY <1>3 DEF AddJobStore, AddGoto, SaveRow, netVars
<1>4. ASSUME NEW j \in Jobs, AddJobNoScript(j) PROVE TypeOK'
  BY <1>4 DEF AddJobNoScript, AddGoto, netVars
<1>5. ASSUME NEW j \in Jobs, AddJobSend(j) PROVE TypeOK'
  BY <1>5 DEF AddJobSend, AddGoto
<1>6. ASSUME NEW j \in Jobs, AddJobAccepted(j) PROVE TypeOK'
  BY <1>6 DEF AddJobAccepted, AddGoto, netVars
<1>7. ASSUME NEW j \in Jobs, AddJobRejected(j) PROVE TypeOK'
  BY <1>7 DEF AddJobRejected, AddGoto, netVars
<1>8. ASSUME NEW j \in Jobs, AddJobSaveError(j) PROVE TypeOK'
  BY <1>8 DEF AddJobSaveError, AddGoto, SaveRow, netVars
<1>9. ASSUME NEW j \in Jobs, AddJobBroken(j) PROVE TypeOK'
  BY <1>9 DEF AddJobBroken, AddGoto, netVars
<1>10. ASSUME NEW j \in Jobs, UpdateJobRefuse(j) PROVE TypeOK'
  BY <1>10 DEF UpdateJobRefuse, ReportGoto, managerVars
<1>11. ASSUME NEW j \in Jobs, UpdateJobRead(j) PROVE TypeOK'
  BY <1>11 DEF UpdateJobRead, ReportGoto, managerVars
<1>12. ASSUME NEW j \in Jobs, UpdateJobSave(j) PROVE TypeOK'
  BY <1>12 DEF UpdateJobSave, ReportGoto, SaveRow
<1>13. ASSUME NEW j \in Jobs, DeleteJob(j) PROVE TypeOK'
  BY <1>13 DEF DeleteJob, netVars
<1>14. ASSUME NEW e \in Edits, NEW j \in Jobs, EditJobRead(e, j) PROVE TypeOK'
  BY <1>14 DEF EditJobRead, netVars
<1>15. ASSUME NEW e \in Edits, EditJobSave(e) PROVE TypeOK'
  BY <1>15 DEF EditJobSave, EditOver, SaveRow, netVars
<1>16. ASSUME NEW k \in Kills, NEW j \in Jobs, KillJobFind(k, j) PROVE TypeOK'
  BY <1>16 DEF KillJobFind, netVars
<1>17. ASSUME NEW k \in Kills, KillJobSend(k) PROVE TypeOK'
  BY <1>17 DEF KillJobSend, KillGoto, SelectWorker
<1>18. ASSUME NEW k \in Kills, KillJobNoWorker(k) PROVE TypeOK'
  BY <1>18 DEF KillJobNoWorker, KillGoto, SelectWorker, netVars
<1>19. ASSUME NEW k \in Kills, KillJobSaveError(k) PROVE TypeOK'
  BY <1>19 DEF KillJobSaveError, KillGoto, SaveRow, netVars
<1>20. ASSUME NEW k \in Kills, KillJobReturn(k) PROVE TypeOK'
  BY <1>20 DEF KillJobReturn, KillGoto, netVars
<1>21. ASSUME Reconfigure PROVE TypeOK'
  BY <1>21 DEF Reconfigure, netVars
<1>22. ASSUME ManagerCrash PROVE TypeOK'
  BY <1>22 DEF ManagerCrash, EditOver
<1>23. QED
  BY <1>1, <1>2, <1>3, <1>4, <1>5, <1>6, <1>7, <1>8, <1>9, <1>10, <1>11,
     <1>12, <1>13, <1>14, <1>15, <1>16, <1>17, <1>18, <1>19, <1>20, <1>21,
          <1>22
  DEF ManagerNext, AddJobStep, UpdateJobStep, KillJobStep

(* A step of a worker keeps the types. *)
LEMMA WorkerStepType ==
    ASSUME TypeOK, WorkerNext, UNCHANGED managerVars
    PROVE  TypeOK'
<1> USE DEF TypeOK, NetTypeOK, ManagerTypeOK, WorkerTypeOK, managerVars,
     Status, NoRow, SubmitState, ReportState, KillState, WaddState, ExecState,
     ProcState, Entry
<1>1. ASSUME NEW j \in Jobs, WAddBadKey(j) PROVE TypeOK'
  BY <1>1 DEF WAddBadKey, Reply, workerVars
<1>2. ASSUME NEW j \in Jobs, WAddAppend(j) PROVE TypeOK'
  BY <1>2 DEF WAddAppend, WaddGoto, Reply, AppendJob
<1>3. ASSUME NEW j \in Jobs, WAddLogin(j) PROVE TypeOK'
  BY <1>3 DEF WAddLogin, WaddGoto, netVars
<1>4. ASSUME NEW j \in Jobs, WAddReport(j) PROVE TypeOK'
  BY <1>4 DEF WAddReport, WaddGoto, SendStatus
<1>5. ASSUME NEW j \in Jobs, WAddSpawn(j) PROVE TypeOK'
  BY <1>5 DEF WAddSpawn, WaddGoto, ExecGoto, Reply
<1>6. ASSUME NEW j \in Jobs, WAddLoginFails(j) PROVE TypeOK'
  BY <1>6 DEF WAddLoginFails, WaddGoto, Reply
<1>7. ASSUME NEW j \in Jobs, WAddPanic(j) PROVE TypeOK'
  BY <1>7 DEF WAddPanic, WaddGoto, Reply
<1>8. ASSUME NEW j \in Jobs, ExecFailed(j) PROVE TypeOK'
  BY <1>8 DEF ExecFailed, ExecGoto, netVars
<1>9. ASSUME NEW j \in Jobs, ExecStart(j) PROVE TypeOK'
  BY <1>9 DEF ExecStart, ExecGoto, SendStatus
<1>10. ASSUME NEW j \in Jobs, ExecSetPid(j) PROVE TypeOK'
  BY <1>10 DEF ExecSetPid, ExecGoto, SetPid, netVars
<1>11. ASSUME NEW j \in Jobs, ExecWait(j) PROVE TypeOK'
  BY <1>11 DEF ExecWait, ExecGoto, SendStatus, FinalStatus, UserCancel
<1>12. ASSUME NEW j \in Jobs, ExecRemove(j) PROVE TypeOK'
  BY <1>12 DEF ExecRemove, ExecGoto, RemoveJob, netVars, NoEntry
<1>13. ASSUME NEW j \in Jobs, ExecFail(j) PROVE TypeOK'
  BY <1>13 DEF ExecFail, ExecGoto, SendStatus
<1>14. ASSUME NEW j \in Jobs, ExecPanic(j) PROVE TypeOK'
  BY <1>14 DEF ExecPanic, Die, KillAt, NoEntry
<1>15. ASSUME NEW j \in Jobs, ScriptExit(j) PROVE TypeOK'
  BY <1>15 DEF ScriptExit, netVars
<1>16. ASSUME NEW j \in Jobs, SubmitNoWorker(j) PROVE TypeOK'
  BY <1>16 DEF SubmitNoWorker, Reply, workerVars
<1>17. ASSUME NEW k \in Kills, WKillFind(k) PROVE TypeOK'
  BY <1>17 DEF WKillFind, KillAt, workerVars
<1>18. ASSUME NEW k \in Kills, WKillRefuse(k) PROVE TypeOK'
  BY <1>18 DEF WKillRefuse, WKillGoto, workerVars, KillAt
<1>19. ASSUME NEW k \in Kills, WKillMark(k) PROVE TypeOK'
  BY <1>19 DEF WKillMark, SetUserCancel, WKillGoto, KillAt
<1>20. ASSUME NEW k \in Kills, WKillGroup(k) PROVE TypeOK'
  BY <1>20 DEF WKillGroup, WKillGoto, KillAt
<1>21. ASSUME NEW k \in Kills, WKillSelf(k) PROVE TypeOK'
  BY <1>21 DEF WKillSelf, Die, KillAt, NoEntry
<1>22. ASSUME NEW k \in Kills, KillNoWorker(k) PROVE TypeOK'
  BY <1>22 DEF KillNoWorker, WKillGoto, workerVars, KillAt
<1>23. ASSUME NEW w \in Workers, WorkerCrash(w) PROVE TypeOK'
  BY <1>23 DEF WorkerCrash, Die, KillAt, NoEntry
<1>24. ASSUME NEW w \in Workers, WorkerRestart(w) PROVE TypeOK'
  BY <1>24 DEF WorkerRestart, netVars
<1>25. QED
  BY <1>1, <1>2, <1>3, <1>4, <1>5, <1>6, <1>7, <1>8, <1>9, <1>10, <1>11,
     <1>12, <1>13, <1>14, <1>15, <1>16, <1>17, <1>18, <1>19, <1>20, <1>21,
          <1>22, <1>23, <1>24
  DEF WorkerNext, WAddStep, ExecStep, WKillStep

(* A step that changes nothing keeps the types.                            *)
LEMMA StutterType == TypeOK /\ UNCHANGED vars => TypeOK'
BY DEF TypeOK, NetTypeOK, ManagerTypeOK, WorkerTypeOK, vars

(* Every reachable state of the manager and the workers is well-typed, for *)
(* any number of jobs, workers and requests.                               *)
THEOREM TypeCorrect == Spec => []TypeOK
<1>1. TypeOK /\ [Next]_vars => TypeOK'
  BY ManagerStepType, WorkerStepType, StutterType DEF Next
<1>2. QED
  BY <1>1, InitType, PTL DEF Spec
-----------------------------------------------------------------------------
(* Control: who is doing what with a job                                   *)

(* At the start no handler is anywhere: see NewApi and InitDB.             *)
LEMMA InitControl == Init => ControlInv
BY DEF Init, NetInit, ManagerInit, WorkerInit, ControlInv, SubmitInv, ExecInv,
   ListInv, ReportInv, UserCancel, NoEntry

(* The manager's handlers keep the control invariant of both daemons.      *)
LEMMA ManagerStepControl ==
    ASSUME TypeOK, ControlInv, ManagerNext, UNCHANGED workerVars
    PROVE  ControlInv'
<1> USE DEF TypeOK, NetTypeOK, ManagerTypeOK, ControlInv, SubmitInv, ExecInv,
     ListInv, ReportInv, UserCancel, workerVars, Status, NoRow
<1>1. ASSUME NEW j \in Jobs, AddJobInsert(j) PROVE ControlInv'
  BY <1>1 DEF AddJobInsert, AddGoto, netVars
<1>2. ASSUME NEW j \in Jobs, AddJobRoute(j) PROVE ControlInv'
  BY <1>2 DEF AddJobRoute, AddGoto, SelectWorker
<1>3. ASSUME NEW j \in Jobs, AddJobStore(j) PROVE ControlInv'
  BY <1>3 DEF AddJobStore, AddGoto, SaveRow, netVars
<1>4. ASSUME NEW j \in Jobs, AddJobNoScript(j) PROVE ControlInv'
  BY <1>4 DEF AddJobNoScript, AddGoto, netVars
<1>5. ASSUME NEW j \in Jobs, AddJobSend(j) PROVE ControlInv'
  BY <1>5 DEF AddJobSend, AddGoto
<1>6. ASSUME NEW j \in Jobs, AddJobAccepted(j) PROVE ControlInv'
  BY <1>6 DEF AddJobAccepted, AddGoto, netVars
<1>7. ASSUME NEW j \in Jobs, AddJobRejected(j) PROVE ControlInv'
  BY <1>7 DEF AddJobRejected, AddGoto, netVars
<1>8. ASSUME NEW j \in Jobs, AddJobSaveError(j) PROVE ControlInv'
  BY <1>8 DEF AddJobSaveError, AddGoto, SaveRow, netVars
<1>9. ASSUME NEW j \in Jobs, AddJobBroken(j) PROVE ControlInv'
  BY <1>9 DEF AddJobBroken, AddGoto, netVars
<1>10. ASSUME NEW j \in Jobs, UpdateJobRefuse(j) PROVE ControlInv'
  BY <1>10 DEF UpdateJobRefuse, ReportGoto, managerVars
<1>11. ASSUME NEW j \in Jobs, UpdateJobRead(j) PROVE ControlInv'
  BY <1>11 DEF UpdateJobRead, ReportGoto, managerVars
<1>12. ASSUME NEW j \in Jobs, UpdateJobSave(j) PROVE ControlInv'
  BY <1>12 DEF UpdateJobSave, ReportGoto, SaveRow
<1>13. ASSUME NEW j \in Jobs, DeleteJob(j) PROVE ControlInv'
  BY <1>13 DEF DeleteJob, netVars
<1>14. ASSUME NEW e \in Edits, NEW j \in Jobs, EditJobRead(e, j)
     PROVE ControlInv'
  BY <1>14 DEF EditJobRead, netVars
<1>15. ASSUME NEW e \in Edits, EditJobSave(e) PROVE ControlInv'
  BY <1>15 DEF EditJobSave, EditOver, SaveRow, netVars
<1>16. ASSUME NEW k \in Kills, NEW j \in Jobs, KillJobFind(k, j)
     PROVE ControlInv'
  BY <1>16 DEF KillJobFind, netVars
<1>17. ASSUME NEW k \in Kills, KillJobSend(k) PROVE ControlInv'
  BY <1>17 DEF KillJobSend, KillGoto, SelectWorker
<1>18. ASSUME NEW k \in Kills, KillJobNoWorker(k) PROVE ControlInv'
  BY <1>18 DEF KillJobNoWorker, KillGoto, SelectWorker, netVars
<1>19. ASSUME NEW k \in Kills, KillJobSaveError(k) PROVE ControlInv'
  BY <1>19 DEF KillJobSaveError, KillGoto, SaveRow, netVars
<1>20. ASSUME NEW k \in Kills, KillJobReturn(k) PROVE ControlInv'
  BY <1>20 DEF KillJobReturn, KillGoto, netVars
<1>21. ASSUME Reconfigure PROVE ControlInv'
  BY <1>21 DEF Reconfigure, netVars
<1>22. ASSUME ManagerCrash PROVE ControlInv'
  BY <1>22 DEF ManagerCrash, EditOver
<1>23. QED
  BY <1>1, <1>2, <1>3, <1>4, <1>5, <1>6, <1>7, <1>8, <1>9, <1>10, <1>11,
     <1>12, <1>13, <1>14, <1>15, <1>16, <1>17, <1>18, <1>19, <1>20, <1>21,
          <1>22
  DEF ManagerNext, AddJobStep, UpdateJobStep, KillJobStep

(* The worker's handlers, execCmd and a worker's death keep it too.         *)
LEMMA WorkerStepControl ==
    ASSUME TypeOK, ControlInv, WorkerNext, UNCHANGED managerVars
    PROVE  ControlInv'
<1> USE DEF TypeOK, NetTypeOK, WorkerTypeOK, Entry, ControlInv, SubmitInv, ExecInv,
     ListInv, ReportInv, UserCancel, managerVars, Status, NoRow
<1>1. ASSUME NEW j \in Jobs, WAddBadKey(j) PROVE ControlInv'
  BY <1>1 DEF WAddBadKey, Reply, workerVars
<1>2. ASSUME NEW j \in Jobs, WAddAppend(j) PROVE ControlInv'
  BY <1>2 DEF WAddAppend, WaddGoto, Reply, AppendJob
<1>3. ASSUME NEW j \in Jobs, WAddLogin(j) PROVE ControlInv'
  BY <1>3 DEF WAddLogin, WaddGoto, netVars
<1>4. ASSUME NEW j \in Jobs, WAddReport(j) PROVE ControlInv'
  BY <1>4 DEF WAddReport, WaddGoto, SendStatus
<1>5. ASSUME NEW j \in Jobs, WAddSpawn(j) PROVE ControlInv'
  BY <1>5 DEF WAddSpawn, WaddGoto, ExecGoto, Reply, Answered
<1>6. ASSUME NEW j \in Jobs, WAddLoginFails(j) PROVE ControlInv'
  BY <1>6 DEF WAddLoginFails, WaddGoto, Reply
<1>7. ASSUME NEW j \in Jobs, WAddPanic(j) PROVE ControlInv'
  BY <1>7 DEF WAddPanic, WaddGoto, Reply, NoResponse
<1>8. ASSUME NEW j \in Jobs, ExecFailed(j) PROVE ControlInv'
  BY <1>8 DEF ExecFailed, ExecGoto, Answered, netVars
<1>9. ASSUME NEW j \in Jobs, ExecStart(j) PROVE ControlInv'
  BY <1>9 DEF ExecStart, ExecGoto, SendStatus
<1>10. ASSUME NEW j \in Jobs, ExecSetPid(j) PROVE ControlInv'
  BY <1>10 DEF ExecSetPid, ExecGoto, SetPid, Answered, netVars
<1>11. ASSUME NEW j \in Jobs, ExecWait(j) PROVE ControlInv'
  BY <1>11 DEF ExecWait, ExecGoto, SendStatus, FinalStatus, UserCancel
<1>12. ASSUME NEW j \in Jobs, ExecRemove(j) PROVE ControlInv'
  BY <1>12 DEF ExecRemove, ExecGoto, RemoveJob, Answered, netVars, NoEntry
<1>13. ASSUME NEW j \in Jobs, ExecFail(j) PROVE ControlInv'
  BY <1>13 DEF ExecFail, ExecGoto, SendStatus
<1>14. ASSUME NEW j \in Jobs, ExecPanic(j) PROVE ControlInv'
  BY <1>14 DEF ExecPanic, Die, NoResponse, KillAt, NoEntry
<1>15. ASSUME NEW j \in Jobs, ScriptExit(j) PROVE ControlInv'
  BY <1>15 DEF ScriptExit, netVars
<1>16. ASSUME NEW j \in Jobs, SubmitNoWorker(j) PROVE ControlInv'
  BY <1>16 DEF SubmitNoWorker, Reply, workerVars
<1>17. ASSUME NEW k \in Kills, WKillFind(k) PROVE ControlInv'
  BY <1>17 DEF WKillFind, KillAt, Reaches, workerVars
<1>18. ASSUME NEW k \in Kills, WKillRefuse(k) PROVE ControlInv'
  BY <1>18 DEF WKillRefuse, WKillGoto, Reaches, workerVars, KillAt
<1>19. ASSUME NEW k \in Kills, WKillMark(k) PROVE ControlInv'
  BY <1>19 DEF WKillMark, SetUserCancel, WKillGoto, KillAt
<1>20. ASSUME NEW k \in Kills, WKillGroup(k) PROVE ControlInv'
  BY <1>20 DEF WKillGroup, WKillGoto, KillAt
<1>21. ASSUME NEW k \in Kills, WKillSelf(k) PROVE ControlInv'
  BY <1>21 DEF WKillSelf, Die, KillAt, NoEntry
<1>22. ASSUME NEW k \in Kills, KillNoWorker(k) PROVE ControlInv'
  BY <1>22 DEF KillNoWorker, WKillGoto, workerVars, KillAt
<1>23. ASSUME NEW w \in Workers, WorkerCrash(w) PROVE ControlInv'
  BY <1>23 DEF WorkerCrash, Die, KillAt, NoEntry
<1>24. ASSUME NEW w \in Workers, WorkerRestart(w) PROVE ControlInv'
  BY <1>24 DEF WorkerRestart, netVars
<1>25. QED
  BY <1>1, <1>2, <1>3, <1>4, <1>5, <1>6, <1>7, <1>8, <1>9, <1>10, <1>11,
     <1>12, <1>13, <1>14, <1>15, <1>16, <1>17, <1>18, <1>19, <1>20, <1>21,
          <1>22, <1>23, <1>24
  DEF WorkerNext, WAddStep, ExecStep, WKillStep

(* So does a step that changes nothing.                                    *)
LEMMA StutterControl == ControlInv /\ UNCHANGED vars => ControlInv'
BY DEF ControlInv, SubmitInv, ExecInv, ListInv, ReportInv, UserCancel, vars

-----------------------------------------------------------------------------
(* What once justified a status goes on justifying it                      *)

(* No handler of the manager takes away what justifies a status.           *)
LEMMA ManagerKeepsJustified ==
    ASSUME TypeOK, ManagerNext, UNCHANGED workerVars,
           NEW i \in Jobs, NEW s \in Justified(i)
    PROVE  s \in Justified(i)'
<1> USE DEF TypeOK, NetTypeOK, ManagerTypeOK, Status, Justified, workerVars
<1>1. ASSUME NEW j \in Jobs, AddJobInsert(j) PROVE s \in Justified(i)'
  BY <1>1 DEF AddJobInsert, AddGoto, netVars
<1>2. ASSUME NEW j \in Jobs, AddJobRoute(j) PROVE s \in Justified(i)'
  BY <1>2 DEF AddJobRoute, AddGoto, SelectWorker
<1>3. ASSUME NEW j \in Jobs, AddJobStore(j) PROVE s \in Justified(i)'
  BY <1>3 DEF AddJobStore, AddGoto, SaveRow, netVars
<1>4. ASSUME NEW j \in Jobs, AddJobNoScript(j) PROVE s \in Justified(i)'
  BY <1>4 DEF AddJobNoScript, AddGoto, netVars
<1>5. ASSUME NEW j \in Jobs, AddJobSend(j) PROVE s \in Justified(i)'
  BY <1>5 DEF AddJobSend, AddGoto
<1>6. ASSUME NEW j \in Jobs, AddJobAccepted(j) PROVE s \in Justified(i)'
  BY <1>6 DEF AddJobAccepted, AddGoto, netVars
<1>7. ASSUME NEW j \in Jobs, AddJobRejected(j) PROVE s \in Justified(i)'
  BY <1>7 DEF AddJobRejected, AddGoto, netVars
<1>8. ASSUME NEW j \in Jobs, AddJobSaveError(j) PROVE s \in Justified(i)'
  BY <1>8 DEF AddJobSaveError, AddGoto, SaveRow, netVars
<1>9. ASSUME NEW j \in Jobs, AddJobBroken(j) PROVE s \in Justified(i)'
  BY <1>9 DEF AddJobBroken, AddGoto, netVars
<1>10. ASSUME NEW j \in Jobs, UpdateJobRefuse(j) PROVE s \in Justified(i)'
  BY <1>10 DEF UpdateJobRefuse, ReportGoto, managerVars
<1>11. ASSUME NEW j \in Jobs, UpdateJobRead(j) PROVE s \in Justified(i)'
  BY <1>11 DEF UpdateJobRead, ReportGoto, managerVars
<1>12. ASSUME NEW j \in Jobs, UpdateJobSave(j) PROVE s \in Justified(i)'
  BY <1>12 DEF UpdateJobSave, ReportGoto, SaveRow
<1>13. ASSUME NEW j \in Jobs, DeleteJob(j) PROVE s \in Justified(i)'
  BY <1>13 DEF DeleteJob, netVars
<1>14. ASSUME NEW e \in Edits, NEW j \in Jobs, EditJobRead(e, j)
     PROVE s \in Justified(i)'
  BY <1>14 DEF EditJobRead, netVars
<1>15. ASSUME NEW e \in Edits, EditJobSave(e) PROVE s \in Justified(i)'
  BY <1>15 DEF EditJobSave, EditOver, SaveRow, netVars
<1>16. ASSUME NEW k \in Kills, NEW j \in Jobs, KillJobFind(k, j)
     PROVE s \in Justified(i)'
  BY <1>16 DEF KillJobFind, netVars
<1>17. ASSUME NEW k \in Kills, KillJobSend(k) PROVE s \in Justified(i)'
  BY <1>17 DEF KillJobSend, KillGoto, SelectWorker
<1>18. ASSUME NEW k \in Kills, KillJobNoWorker(k) PROVE s \in Justified(i)'
  BY <1>18 DEF KillJobNoWorker, KillGoto, SelectWorker, netVars
<1>19. ASSUME NEW k \in Kills, KillJobSaveError(k) PROVE s \in Justified(i)'
  BY <1>19 DEF KillJobSaveError, KillGoto, SaveRow, netVars
<1>20. ASSUME NEW k \in Kills, KillJobReturn(k) PROVE s \in Justified(i)'
  BY <1>20 DEF KillJobReturn, KillGoto, netVars
<1>21. ASSUME Reconfigure PROVE s \in Justified(i)'
  BY <1>21 DEF Reconfigure, netVars
<1>22. ASSUME ManagerCrash PROVE s \in Justified(i)'
  BY <1>22 DEF ManagerCrash, EditOver
<1>23. QED
  BY <1>1, <1>2, <1>3, <1>4, <1>5, <1>6, <1>7, <1>8, <1>9, <1>10, <1>11,
     <1>12, <1>13, <1>14, <1>15, <1>16, <1>17, <1>18, <1>19, <1>20, <1>21,
          <1>22
  DEF ManagerNext, AddJobStep, UpdateJobStep, KillJobStep

(* No step of a worker does: an ended script stays ended, a cancelled job  *)
(* stays cancelled, what failed stays failed.                              *)
LEMMA WorkerKeepsJustified ==
    ASSUME TypeOK, ControlInv, WorkerNext, UNCHANGED managerVars,
           NEW i \in Jobs, NEW s \in Justified(i)
    PROVE  s \in Justified(i)'
<1> USE DEF TypeOK, NetTypeOK, WorkerTypeOK, ControlInv, SubmitInv, ExecInv,
     Status, Justified, managerVars
<1>1. ASSUME NEW j \in Jobs, WAddBadKey(j) PROVE s \in Justified(i)'
  BY <1>1 DEF WAddBadKey, Reply, workerVars
<1>2. ASSUME NEW j \in Jobs, WAddAppend(j) PROVE s \in Justified(i)'
  BY <1>2 DEF WAddAppend, WaddGoto, Reply, AppendJob
<1>3. ASSUME NEW j \in Jobs, WAddLogin(j) PROVE s \in Justified(i)'
  BY <1>3 DEF WAddLogin, WaddGoto, netVars
<1>4. ASSUME NEW j \in Jobs, WAddReport(j) PROVE s \in Justified(i)'
  BY <1>4 DEF WAddReport, WaddGoto, SendStatus
<1>5. ASSUME NEW j \in Jobs, WAddSpawn(j) PROVE s \in Justified(i)'
  BY <1>5 DEF WAddSpawn, WaddGoto, ExecGoto, Reply, Answered
<1>6. ASSUME NEW j \in Jobs, WAddLoginFails(j) PROVE s \in Justified(i)'
  BY <1>6 DEF WAddLoginFails, WaddGoto, Reply
<1>7. ASSUME NEW j \in Jobs, WAddPanic(j) PROVE s \in Justified(i)'
  BY <1>7 DEF WAddPanic, WaddGoto, Reply, NoResponse
<1>8. ASSUME NEW j \in Jobs, ExecFailed(j) PROVE s \in Justified(i)'
  BY <1>8 DEF ExecFailed, ExecGoto, Answered, netVars
<1>9. ASSUME NEW j \in Jobs, ExecStart(j) PROVE s \in Justified(i)'
  BY <1>9 DEF ExecStart, ExecGoto, SendStatus
<1>10. ASSUME NEW j \in Jobs, ExecSetPid(j) PROVE s \in Justified(i)'
  BY <1>10 DEF ExecSetPid, ExecGoto, SetPid, Answered, netVars
<1>11. ASSUME NEW j \in Jobs, ExecWait(j) PROVE s \in Justified(i)'
  BY <1>11 DEF ExecWait, ExecGoto, SendStatus, FinalStatus, UserCancel
<1>12. ASSUME NEW j \in Jobs, ExecRemove(j) PROVE s \in Justified(i)'
  BY <1>12 DEF ExecRemove, ExecGoto, RemoveJob, Answered, netVars, NoEntry
<1>13. ASSUME NEW j \in Jobs, ExecFail(j) PROVE s \in Justified(i)'
  BY <1>13 DEF ExecFail, ExecGoto, SendStatus
<1>14. ASSUME NEW j \in Jobs, ExecPanic(j) PROVE s \in Justified(i)'
  BY <1>14 DEF ExecPanic, Die, NoResponse, KillAt, NoEntry
<1>15. ASSUME NEW j \in Jobs, ScriptExit(j) PROVE s \in Justified(i)'
  BY <1>15 DEF ScriptExit, netVars
<1>16. ASSUME NEW j \in Jobs, SubmitNoWorker(j) PROVE s \in Justified(i)'
  BY <1>16 DEF SubmitNoWorker, Reply, workerVars
<1>17. ASSUME NEW k \in Kills, WKillFind(k) PROVE s \in Justified(i)'
  BY <1>17 DEF WKillFind, KillAt, Reaches, workerVars
<1>18. ASSUME NEW k \in Kills, WKillRefuse(k) PROVE s \in Justified(i)'
  BY <1>18 DEF WKillRefuse, WKillGoto, Reaches, workerVars, KillAt
<1>19. ASSUME NEW k \in Kills, WKillMark(k) PROVE s \in Justified(i)'
  BY <1>19 DEF WKillMark, SetUserCancel, WKillGoto, KillAt
<1>20. ASSUME NEW k \in Kills, WKillGroup(k) PROVE s \in Justified(i)'
  BY <1>20 DEF WKillGroup, WKillGoto, KillAt
<1>21. ASSUME NEW k \in Kills, WKillSelf(k) PROVE s \in Justified(i)'
  BY <1>21 DEF WKillSelf, Die, KillAt, NoEntry
<1>22. ASSUME NEW k \in Kills, KillNoWorker(k) PROVE s \in Justified(i)'
  BY <1>22 DEF KillNoWorker, WKillGoto, workerVars, KillAt
<1>23. ASSUME NEW w \in Workers, WorkerCrash(w) PROVE s \in Justified(i)'
  BY <1>23 DEF WorkerCrash, Die, KillAt, NoEntry
<1>24. ASSUME NEW w \in Workers, WorkerRestart(w) PROVE s \in Justified(i)'
  BY <1>24 DEF WorkerRestart, netVars
<1>25. QED
  BY <1>1, <1>2, <1>3, <1>4, <1>5, <1>6, <1>7, <1>8, <1>9, <1>10, <1>11,
     <1>12, <1>13, <1>14, <1>15, <1>16, <1>17, <1>18, <1>19, <1>20, <1>21,
          <1>22, <1>23, <1>24
  DEF WorkerNext, WAddStep, ExecStep, WKillStep

-----------------------------------------------------------------------------
(* Every status on its way to a row, and in a row, is justified            *)

(* There is no row, no report and no snapshot at the start.                *)
LEMMA InitStatus == Init => SnapshotInv /\ StatusJustified
BY DEF Init, NetInit, ManagerInit, SnapshotInv, StatusJustified, NoRow

(* What the manager saves or reads is justified: saveJob, UpdateJob and    *)
(* KillJob save UNKNOWN, an ERROR of their own, or what a report or a      *)
(* snapshot says.                                                          *)
LEMMA ManagerStepStatus ==
    ASSUME IInv, ManagerNext, UNCHANGED workerVars
    PROVE  (SnapshotInv /\ StatusJustified)'
<1> USE DEF IInv, TypeOK, NetTypeOK, ManagerTypeOK, SnapshotInv, StatusJustified,
     Status, NoRow
<1>0. \A i \in Jobs : \A s \in Justified(i) : s \in Justified(i)'
  BY ManagerKeepsJustified
<1>1. ASSUME NEW j \in Jobs, AddJobInsert(j)
     PROVE (SnapshotInv /\ StatusJustified)'
  <2>1. "UNKNOWN" \in Justified(j)'
    BY <1>1 DEF AddJobInsert, AddGoto, netVars, Justified
  <2>2. QED
    BY <1>1, <1>0, <2>1 DEF AddJobInsert, AddGoto, netVars
<1>2. ASSUME NEW j \in Jobs, AddJobRoute(j)
     PROVE (SnapshotInv /\ StatusJustified)'
  BY <1>2, <1>0 DEF AddJobRoute, AddGoto, SelectWorker
<1>3. ASSUME NEW j \in Jobs, AddJobStore(j)
     PROVE (SnapshotInv /\ StatusJustified)'
  <2>1. "UNKNOWN" \in Justified(j)'
    BY <1>3 DEF AddJobStore, AddGoto, SaveRow, netVars, Justified
  <2>2. QED
    BY <1>3, <1>0, <2>1 DEF AddJobStore, AddGoto, SaveRow, netVars
<1>4. ASSUME NEW j \in Jobs, AddJobNoScript(j)
     PROVE (SnapshotInv /\ StatusJustified)'
  BY <1>4, <1>0 DEF AddJobNoScript, AddGoto, netVars
<1>5. ASSUME NEW j \in Jobs, AddJobSend(j)
     PROVE (SnapshotInv /\ StatusJustified)'
  BY <1>5, <1>0 DEF AddJobSend, AddGoto
<1>6. ASSUME NEW j \in Jobs, AddJobAccepted(j)
     PROVE (SnapshotInv /\ StatusJustified)'
  BY <1>6, <1>0 DEF AddJobAccepted, AddGoto, netVars
<1>7. ASSUME NEW j \in Jobs, AddJobRejected(j)
     PROVE (SnapshotInv /\ StatusJustified)'
  BY <1>7, <1>0 DEF AddJobRejected, AddGoto, netVars
<1>8. ASSUME NEW j \in Jobs, AddJobSaveError(j)
     PROVE (SnapshotInv /\ StatusJustified)'
  <2>1. "ERROR" \in Justified(j)'
    BY <1>8 DEF AddJobSaveError, AddGoto, SaveRow, netVars, Justified
  <2>2. QED
    BY <1>8, <1>0, <2>1 DEF AddJobSaveError, AddGoto, SaveRow, netVars
<1>9. ASSUME NEW j \in Jobs, AddJobBroken(j)
     PROVE (SnapshotInv /\ StatusJustified)'
  BY <1>9, <1>0 DEF AddJobBroken, AddGoto, netVars
<1>10. ASSUME NEW j \in Jobs, UpdateJobRefuse(j)
     PROVE (SnapshotInv /\ StatusJustified)'
  BY <1>10, <1>0 DEF UpdateJobRefuse, ReportGoto, managerVars
<1>11. ASSUME NEW j \in Jobs, UpdateJobRead(j)
     PROVE (SnapshotInv /\ StatusJustified)'
  BY <1>11, <1>0 DEF UpdateJobRead, ReportGoto, managerVars
<1>12. ASSUME NEW j \in Jobs, UpdateJobSave(j)
     PROVE (SnapshotInv /\ StatusJustified)'
  BY <1>12, <1>0 DEF UpdateJobSave, ReportGoto, SaveRow
<1>13. ASSUME NEW j \in Jobs, DeleteJob(j)
     PROVE (SnapshotInv /\ StatusJustified)'
  BY <1>13, <1>0 DEF DeleteJob, netVars
<1>14. ASSUME NEW e \in Edits, NEW j \in Jobs, EditJobRead(e, j)
     PROVE (SnapshotInv /\ StatusJustified)'
  BY <1>14, <1>0 DEF EditJobRead, netVars
<1>15. ASSUME NEW e \in Edits, EditJobSave(e)
     PROVE (SnapshotInv /\ StatusJustified)'
  BY <1>15, <1>0 DEF EditJobSave, EditOver, SaveRow, netVars
<1>16. ASSUME NEW k \in Kills, NEW j \in Jobs, KillJobFind(k, j)
     PROVE (SnapshotInv /\ StatusJustified)'
  BY <1>16, <1>0 DEF KillJobFind, netVars
<1>17. ASSUME NEW k \in Kills, KillJobSend(k)
     PROVE (SnapshotInv /\ StatusJustified)'
  BY <1>17, <1>0 DEF KillJobSend, KillGoto, SelectWorker
<1>18. ASSUME NEW k \in Kills, KillJobNoWorker(k)
     PROVE (SnapshotInv /\ StatusJustified)'
  BY <1>18, <1>0 DEF KillJobNoWorker, KillGoto, SelectWorker, netVars
<1>19. ASSUME NEW k \in Kills, KillJobSaveError(k)
     PROVE (SnapshotInv /\ StatusJustified)'
  <2>1. "ERROR" \in Justified(kill[k].job)'
    BY <1>19 DEF KillJobSaveError, KillGoto, SaveRow, netVars, Justified,
       KillerState
  <2>2. QED
    BY <1>19, <1>0, <2>1 DEF KillJobSaveError, KillGoto, SaveRow, netVars
<1>20. ASSUME NEW k \in Kills, KillJobReturn(k)
     PROVE (SnapshotInv /\ StatusJustified)'
  BY <1>20, <1>0 DEF KillJobReturn, KillGoto, netVars
<1>21. ASSUME Reconfigure PROVE (SnapshotInv /\ StatusJustified)'
  BY <1>21, <1>0 DEF Reconfigure, netVars
<1>22. ASSUME ManagerCrash PROVE (SnapshotInv /\ StatusJustified)'
  BY <1>22, <1>0 DEF ManagerCrash, EditOver
<1>23. QED
  BY <1>1, <1>2, <1>3, <1>4, <1>5, <1>6, <1>7, <1>8, <1>9, <1>10, <1>11,
     <1>12, <1>13, <1>14, <1>15, <1>16, <1>17, <1>18, <1>19, <1>20, <1>21,
          <1>22
  DEF ManagerNext, AddJobStep, UpdateJobStep, KillJobStep

(* What a worker reports is justified at the moment it sends the PUT.      *)
LEMMA WorkerStepStatus ==
    ASSUME IInv, WorkerNext, UNCHANGED managerVars
    PROVE  (SnapshotInv /\ StatusJustified)'
<1> USE DEF IInv, TypeOK, NetTypeOK, WorkerTypeOK, ManagerTypeOK, SnapshotInv,
     StatusJustified, ControlInv, SubmitInv, ExecInv, ListInv, Status, NoRow, managerVars
<1>0. \A i \in Jobs : \A s \in Justified(i) : s \in Justified(i)'
  BY WorkerKeepsJustified
<1>1. ASSUME NEW j \in Jobs, WAddBadKey(j)
     PROVE (SnapshotInv /\ StatusJustified)'
  BY <1>1, <1>0 DEF WAddBadKey, Reply, workerVars
<1>2. ASSUME NEW j \in Jobs, WAddAppend(j)
     PROVE (SnapshotInv /\ StatusJustified)'
  BY <1>2, <1>0 DEF WAddAppend, WaddGoto, Reply, AppendJob
<1>3. ASSUME NEW j \in Jobs, WAddLogin(j)
     PROVE (SnapshotInv /\ StatusJustified)'
  BY <1>3, <1>0 DEF WAddLogin, WaddGoto, netVars
<1>4. ASSUME NEW j \in Jobs, WAddReport(j)
     PROVE (SnapshotInv /\ StatusJustified)'
  <2>1. "NOTSTARTED" \in Justified(j)'
    BY <1>4 DEF WAddReport, WaddGoto, SendStatus, Justified
  <2>2. QED
    BY <1>4, <1>0, <2>1 DEF WAddReport, WaddGoto, SendStatus
<1>5. ASSUME NEW j \in Jobs, WAddSpawn(j)
     PROVE (SnapshotInv /\ StatusJustified)'
  BY <1>5, <1>0 DEF WAddSpawn, WaddGoto, ExecGoto, Reply, Answered
<1>6. ASSUME NEW j \in Jobs, WAddLoginFails(j)
     PROVE (SnapshotInv /\ StatusJustified)'
  BY <1>6, <1>0 DEF WAddLoginFails, WaddGoto, Reply
<1>7. ASSUME NEW j \in Jobs, WAddPanic(j)
     PROVE (SnapshotInv /\ StatusJustified)'
  BY <1>7, <1>0 DEF WAddPanic, WaddGoto, Reply, NoResponse
<1>8. ASSUME NEW j \in Jobs, ExecFailed(j)
     PROVE (SnapshotInv /\ StatusJustified)'
  BY <1>8, <1>0 DEF ExecFailed, ExecGoto, Answered, netVars
<1>9. ASSUME NEW j \in Jobs, ExecStart(j)
     PROVE (SnapshotInv /\ StatusJustified)'
  <2>1. "INPROGRESS" \in Justified(j)'
    BY <1>9 DEF ExecStart, ExecGoto, SendStatus, Justified
  <2>2. QED
    BY <1>9, <1>0, <2>1 DEF ExecStart, ExecGoto, SendStatus
<1>10. ASSUME NEW j \in Jobs, ExecSetPid(j)
     PROVE (SnapshotInv /\ StatusJustified)'
  BY <1>10, <1>0 DEF ExecSetPid, ExecGoto, SetPid, Answered, netVars
<1>11. ASSUME NEW j \in Jobs, ExecWait(j)
     PROVE (SnapshotInv /\ StatusJustified)'
  <2>1. FinalStatus(j) \in Justified(j)'
    BY <1>11 DEF ExecWait, ExecGoto, SendStatus, FinalStatus, UserCancel,
       Justified, ProcState
  <2>2. QED
    BY <1>11, <1>0, <2>1 DEF ExecWait, ExecGoto, SendStatus
<1>12. ASSUME NEW j \in Jobs, ExecRemove(j)
     PROVE (SnapshotInv /\ StatusJustified)'
  BY <1>12, <1>0 DEF ExecRemove, ExecGoto, RemoveJob, Answered, netVars,
     NoEntry
<1>13. ASSUME NEW j \in Jobs, ExecFail(j)
     PROVE (SnapshotInv /\ StatusJustified)'
  <2>1. "SYSCANCELLED" \in Justified(j)'
    BY <1>13 DEF ExecFail, ExecGoto, SendStatus, Justified
  <2>2. QED
    BY <1>13, <1>0, <2>1 DEF ExecFail, ExecGoto, SendStatus
<1>14. ASSUME NEW j \in Jobs, ExecPanic(j)
     PROVE (SnapshotInv /\ StatusJustified)'
  BY <1>14, <1>0 DEF ExecPanic, Die, NoResponse, KillAt, NoEntry
<1>15. ASSUME NEW j \in Jobs, ScriptExit(j)
     PROVE (SnapshotInv /\ StatusJustified)'
  BY <1>15, <1>0 DEF ScriptExit, netVars
<1>16. ASSUME NEW j \in Jobs, SubmitNoWorker(j)
     PROVE (SnapshotInv /\ StatusJustified)'
  BY <1>16, <1>0 DEF SubmitNoWorker, Reply, workerVars
<1>17. ASSUME NEW k \in Kills, WKillFind(k)
     PROVE (SnapshotInv /\ StatusJustified)'
  BY <1>17, <1>0 DEF WKillFind, KillAt, Reaches, workerVars
<1>18. ASSUME NEW k \in Kills, WKillRefuse(k)
     PROVE (SnapshotInv /\ StatusJustified)'
  BY <1>18, <1>0 DEF WKillRefuse, WKillGoto, Reaches, workerVars, KillAt
<1>19. ASSUME NEW k \in Kills, WKillMark(k)
     PROVE (SnapshotInv /\ StatusJustified)'
  BY <1>19, <1>0 DEF WKillMark, SetUserCancel, WKillGoto, KillAt
<1>20. ASSUME NEW k \in Kills, WKillGroup(k)
     PROVE (SnapshotInv /\ StatusJustified)'
  BY <1>20, <1>0 DEF WKillGroup, WKillGoto, KillAt
<1>21. ASSUME NEW k \in Kills, WKillSelf(k)
     PROVE (SnapshotInv /\ StatusJustified)'
  BY <1>21, <1>0 DEF WKillSelf, Die, KillAt, NoEntry
<1>22. ASSUME NEW k \in Kills, KillNoWorker(k)
     PROVE (SnapshotInv /\ StatusJustified)'
  BY <1>22, <1>0 DEF KillNoWorker, WKillGoto, workerVars, KillAt
<1>23. ASSUME NEW w \in Workers, WorkerCrash(w)
     PROVE (SnapshotInv /\ StatusJustified)'
  BY <1>23, <1>0 DEF WorkerCrash, Die, KillAt, NoEntry
<1>24. ASSUME NEW w \in Workers, WorkerRestart(w)
     PROVE (SnapshotInv /\ StatusJustified)'
  BY <1>24, <1>0 DEF WorkerRestart, netVars
<1>25. QED
  BY <1>1, <1>2, <1>3, <1>4, <1>5, <1>6, <1>7, <1>8, <1>9, <1>10, <1>11,
     <1>12, <1>13, <1>14, <1>15, <1>16, <1>17, <1>18, <1>19, <1>20, <1>21,
          <1>22, <1>23, <1>24
  DEF WorkerNext, WAddStep, ExecStep, WKillStep

(* A step that changes nothing changes no status.                          *)
LEMMA StutterStatus == IInv /\ UNCHANGED vars => (SnapshotInv /\ StatusJustified)'
BY DEF IInv, SnapshotInv, StatusJustified, Justified, vars

-----------------------------------------------------------------------------
(* The invariant, and what follows from it                                 *)

(* IInv holds in every reachable state: it is kept by every handler, every *)
(* goroutine and every fault.                                              *)
THEOREM Invariance == Spec => []IInv
<1>1. Init => IInv
  BY InitType, InitControl, InitStatus DEF IInv
<1>2. IInv /\ [Next]_vars => IInv'
  <2> SUFFICES ASSUME IInv, [Next]_vars PROVE IInv'
    OBVIOUS
  <2>1. TypeOK /\ ControlInv
    BY DEF IInv
  <2>2. CASE ManagerNext /\ UNCHANGED workerVars
    BY <2>1, <2>2, ManagerStepType, ManagerStepControl, ManagerStepStatus
       DEF IInv
  <2>3. CASE WorkerNext /\ UNCHANGED managerVars
    BY <2>1, <2>3, WorkerStepType, WorkerStepControl, WorkerStepStatus
       DEF IInv
  <2>4. CASE UNCHANGED vars
    BY <2>1, <2>4, StutterType, StutterControl, StutterStatus DEF IInv
  <2>5. QED
    BY <2>2, <2>3, <2>4 DEF Next
<1>3. QED
  BY <1>1, <1>2, PTL DEF Spec

(* However saves are ordered, the status of a job's row is warranted.      *)
THEOREM StatusIsJustified == Spec => []StatusJustified
<1>1. IInv => StatusJustified
  BY DEF IInv
<1>2. QED
  BY <1>1, Invariance, PTL

(* A script that runs under a living worker is in that worker's job list.  *)
THEOREM RunningScriptsAreListed == Spec => []RunningIsListed
<1>1. IInv => RunningIsListed
  BY DEF IInv, TypeOK, WorkerTypeOK, ExecState, ControlInv, ExecInv, ListInv,
         RunningIsListed
<1>2. QED
  BY <1>1, Invariance, PTL

(* execCmd never returns from a run with the job still in the list.        *)
THEOREM RunsLeaveNoEntry == Spec => []RanJobsLeaveTheList
<1>1. IInv => RanJobsLeaveTheList
  BY DEF IInv, ControlInv, ListInv, RanJobsLeaveTheList
<1>2. QED
  BY <1>1, Invariance, PTL

-----------------------------------------------------------------------------
(* What a step may do to a row                                             *)

(* A row changes by an insertion, a save of AddJob or KillJob, a save of   *)
(* what a worker reported, a user's PUT, or a deletion.                    *)
RowChange(i) ==
    \/ row'[i] = row[i]
    \/ row'[i] = "UNKNOWN" /\ add[i] \in {"start", "routed"}
    \/ row'[i] \in {NoRow, "ERROR"}
    \/ row'[i] = report[i].status /\ report[i].pc = "merged"
    \/ EditSaved(i)

(* Every step keeps to RowChange.                                          *)
LEMMA RowChanges ==
    ASSUME IInv, [Next]_vars, NEW i \in Jobs
    PROVE  RowChange(i)
<1>1. CASE ManagerNext
  <2> USE DEF IInv, TypeOK, NetTypeOK, ManagerTypeOK, RowChange, EditSaved
  <2>1. ASSUME NEW j \in Jobs, AddJobInsert(j) PROVE RowChange(i)
    BY <2>1 DEF AddJobInsert, netVars
  <2>2. ASSUME NEW j \in Jobs, AddJobRoute(j) PROVE RowChange(i)
    BY <2>2 DEF AddJobRoute
  <2>3. ASSUME NEW j \in Jobs, AddJobStore(j) PROVE RowChange(i)
    BY <2>3 DEF AddJobStore, SaveRow, netVars
  <2>4. ASSUME NEW j \in Jobs, AddJobNoScript(j) PROVE RowChange(i)
    BY <2>4 DEF AddJobNoScript, netVars
  <2>5. ASSUME NEW j \in Jobs, AddJobSend(j) PROVE RowChange(i)
    BY <2>5 DEF AddJobSend
  <2>6. ASSUME NEW j \in Jobs, AddJobAccepted(j) PROVE RowChange(i)
    BY <2>6 DEF AddJobAccepted, netVars
  <2>7. ASSUME NEW j \in Jobs, AddJobRejected(j) PROVE RowChange(i)
    BY <2>7 DEF AddJobRejected, netVars
  <2>8. ASSUME NEW j \in Jobs, AddJobSaveError(j) PROVE RowChange(i)
    BY <2>8 DEF AddJobSaveError, SaveRow, netVars
  <2>9. ASSUME NEW j \in Jobs, AddJobBroken(j) PROVE RowChange(i)
    BY <2>9 DEF AddJobBroken, netVars
  <2>10. ASSUME NEW j \in Jobs, UpdateJobRefuse(j) PROVE RowChange(i)
    BY <2>10 DEF UpdateJobRefuse, managerVars
  <2>11. ASSUME NEW j \in Jobs, UpdateJobRead(j) PROVE RowChange(i)
    BY <2>11 DEF UpdateJobRead, managerVars
  <2>12. ASSUME NEW j \in Jobs, UpdateJobSave(j) PROVE RowChange(i)
    BY <2>12 DEF UpdateJobSave, SaveRow
  <2>13. ASSUME NEW j \in Jobs, DeleteJob(j) PROVE RowChange(i)
    BY <2>13 DEF DeleteJob, netVars
  <2>14. ASSUME NEW e \in Edits, NEW j \in Jobs, EditJobRead(e, j)
       PROVE RowChange(i)
    BY <2>14 DEF EditJobRead, netVars
  <2>15. ASSUME NEW e \in Edits, EditJobSave(e) PROVE RowChange(i)
    BY <2>15 DEF EditJobSave, EditOver, SaveRow, netVars
  <2>16. ASSUME NEW k \in Kills, NEW j \in Jobs, KillJobFind(k, j)
       PROVE RowChange(i)
    BY <2>16 DEF KillJobFind, netVars
  <2>17. ASSUME NEW k \in Kills, KillJobSend(k) PROVE RowChange(i)
    BY <2>17 DEF KillJobSend
  <2>18. ASSUME NEW k \in Kills, KillJobNoWorker(k) PROVE RowChange(i)
    BY <2>18 DEF KillJobNoWorker, netVars
  <2>19. ASSUME NEW k \in Kills, KillJobSaveError(k) PROVE RowChange(i)
    BY <2>19 DEF KillJobSaveError, SaveRow, netVars
  <2>20. ASSUME NEW k \in Kills, KillJobReturn(k) PROVE RowChange(i)
    BY <2>20 DEF KillJobReturn, netVars
  <2>21. ASSUME Reconfigure PROVE RowChange(i)
    BY <2>21 DEF Reconfigure, netVars
  <2>22. ASSUME ManagerCrash PROVE RowChange(i)
    BY <2>22 DEF ManagerCrash, EditOver
  <2>23. QED
    BY <1>1, <2>1, <2>2, <2>3, <2>4, <2>5, <2>6, <2>7, <2>8, <2>9, <2>10,
       <2>11, <2>12, <2>13, <2>14, <2>15, <2>16, <2>17, <2>18, <2>19, <2>20,
            <2>21, <2>22
    DEF ManagerNext, AddJobStep, UpdateJobStep, KillJobStep
<1>2. CASE UNCHANGED managerVars
  BY <1>2 DEF managerVars, RowChange
<1>3. QED
  BY <1>1, <1>2 DEF Next, vars, managerVars

(* Reports are saved in the order the worker made them.                    *)
THEOREM ReportsAreSavedInOrder == Spec => ReportsInOrder
<1> DEFINE A == \A j \in Jobs :
                  row'[j] # row[j] /\ ~EditSaved(j) =>
                    /\ row'[j] = "NOTSTARTED" => exec[j] = "idle"
                    /\ row'[j] = "INPROGRESS" => exec[j] \in {"announcing", "dead"}
<1>1. IInv /\ [Next]_vars => [A]_vars
  BY RowChanges DEF IInv, ControlInv, ReportInv, RowChange, NoRow
<1>2. QED
  BY <1>1, Invariance, PTL DEF Spec, ReportsInOrder

(* What execCmd reported last is replaced only by a deletion, an ERROR of  *)
(* a manager handler or a user's PUT.                                      *)
THEOREM LastWordIsKept == Spec => LastWordStays
<1> DEFINE A == \A j \in Jobs :
                  exec[j] = "done" /\ row'[j] # row[j] =>
                    row'[j] \in {NoRow, "ERROR"} \/ EditSaved(j)
<1>1. IInv /\ [Next]_vars => [A]_vars
  <2> SUFFICES ASSUME IInv, [Next]_vars, NEW j \in Jobs,
                      exec[j] = "done", row'[j] # row[j]
               PROVE  row'[j] \in {NoRow, "ERROR"} \/ EditSaved(j)
    BY DEF vars
  <2>1. add[j] \notin {"start", "routed"}
    BY DEF IInv, ControlInv, SubmitInv, ExecInv
  <2>2. report[j].pc # "merged"
    BY DEF IInv, ControlInv, ReportInv
  <2>3. QED
    BY <2>1, <2>2, RowChanges DEF RowChange
<1>2. QED
  BY <1>1, Invariance, PTL DEF Spec, LastWordStays

-----------------------------------------------------------------------------
(* JobDispatch implements JobLifecycle                                     *)

Lives == [j \in Jobs |-> LifeOf(j)]
LifeStep == Lifecycle!Next \/ UNCHANGED Lifecycle!vars

(* The initial states map to the initial state of JobLifecycle.            *)
LEMMA InitLife == Init => Lifecycle!Init
BY DEF Init, NetInit, ManagerInit, WorkerInit, Lifecycle!Init, Gone, Blamed,
   LifeOf

(* What Justified says of the control, Warranted says of the script's life. *)
LEMMA JustifiedWarranted ==
    ASSUME IInv, NEW i \in Jobs, NEW s \in Justified(i)
    PROVE  Lifecycle!Warranted(i, s)
BY DEF IInv, TypeOK, WorkerTypeOK, ProcState, Justified, Lifecycle!Warranted,
   LifeOf, Blamed

(* A save of a warranted status is Show, or finds no row. *)
LEMMA SaveShows ==
    ASSUME IInv, NEW i \in Jobs, NEW s \in Status, SaveRow(i, s), Lifecycle!Warranted(i, s),
           Lives' = Lives, UNCHANGED <<add, kill, cancelled>>
    PROVE  LifeStep
<1> USE DEF IInv, TypeOK, ManagerTypeOK, Lives
<1>1. Blamed' = Blamed
  BY DEF Blamed
<1>2. CASE row[i] = NoRow
  <2>1. row' = row /\ Gone' = Gone
    BY <1>2 DEF SaveRow, Gone
  <2> QED BY <1>1, <2>1 DEF LifeStep, Lifecycle!vars
<1>3. CASE row[i] # NoRow
  <2>1. row' = [row EXCEPT ![i] = s] /\ s # NoRow
    BY <1>3 DEF SaveRow, Status, NoRow
  <2>2. \A j \in Jobs : row'[j] = NoRow <=> row[j] = NoRow
    BY <1>3, <2>1
  <2>3. Gone' = Gone
    BY <2>2 DEF Gone
  <2>4. Lifecycle!Show(i, s)
    BY <1>1, <1>3, <2>1, <2>3 DEF Lifecycle!Show
  <2> QED BY <2>4 DEF LifeStep, Lifecycle!Next
<1> QED BY <1>2, <1>3

(* A step of the manager is Submit, Show, GiveUp or Delete, or changes     *)
(* nothing that JobLifecycle sees.                                         *)
LEMMA ManagerStepLife ==
    ASSUME IInv, ManagerNext, UNCHANGED workerVars
    PROVE  LifeStep
<1> USE DEF IInv, TypeOK, NetTypeOK, ManagerTypeOK, Status, NoRow
<1>0. cancelled' = cancelled /\ Lives' = Lives
  BY DEF workerVars, Lives, LifeOf
<1> USE DEF Lives
<1>1. ASSUME NEW j \in Jobs, AddJobInsert(j) PROVE LifeStep
  <2>1. Lifecycle!Submit(j)
    BY <1>1, <1>0 DEF AddJobInsert, AddGoto, netVars, Lifecycle!Submit, Gone,
       Blamed, ControlInv, SubmitInv
  <2>2. QED
    BY <2>1 DEF LifeStep, Lifecycle!Next
<1>2. ASSUME NEW j \in Jobs, AddJobRoute(j) PROVE LifeStep
  <2>1. Gone' = Gone
    BY <1>2 DEF AddJobRoute, AddGoto, SelectWorker, Gone
  <2>2. Blamed' = Blamed
    BY <1>2 DEF AddJobRoute, AddGoto, SelectWorker, Blamed
  <2>3. QED
    BY <1>2, <1>0, <2>1, <2>2 DEF AddJobRoute, AddGoto, SelectWorker,
       LifeStep, Lifecycle!vars
<1>3. ASSUME NEW j \in Jobs, AddJobStore(j) PROVE LifeStep
  <2>1. Lifecycle!Warranted(j, "UNKNOWN")
    BY <1>3, JustifiedWarranted DEF AddJobStore, SnapshotInv, EditState,
       Lifecycle!Warranted
  <2>2. \/ Lifecycle!Show(j, "UNKNOWN")
        \/ UNCHANGED Lifecycle!vars
    BY <1>3, <1>0, <2>1 DEF AddJobStore, AddGoto, SaveRow, netVars,
       Lifecycle!Show, Lifecycle!vars, Gone, Blamed
  <2>3. j \in Jobs /\ "UNKNOWN" \in Status
    BY <1>3 DEF AddJobStore, EditState
  <2>4. QED
    BY <2>2, <2>3 DEF LifeStep, Lifecycle!Next
<1>4. ASSUME NEW j \in Jobs, AddJobNoScript(j) PROVE LifeStep
  <2>1. Gone' = Gone
    BY <1>4 DEF AddJobNoScript, AddGoto, netVars, Gone
  <2>2. Blamed' = Blamed
    BY <1>4 DEF AddJobNoScript, AddGoto, netVars, Blamed
  <2>3. QED
    BY <1>4, <1>0, <2>1, <2>2 DEF AddJobNoScript, AddGoto, netVars, LifeStep,
       Lifecycle!vars
<1>5. ASSUME NEW j \in Jobs, AddJobSend(j) PROVE LifeStep
  <2>1. Gone' = Gone
    BY <1>5 DEF AddJobSend, AddGoto, Gone
  <2>2. Blamed' = Blamed
    BY <1>5 DEF AddJobSend, AddGoto, Blamed
  <2>3. QED
    BY <1>5, <1>0, <2>1, <2>2 DEF AddJobSend, AddGoto, LifeStep,
       Lifecycle!vars
<1>6. ASSUME NEW j \in Jobs, AddJobAccepted(j) PROVE LifeStep
  <2>1. Gone' = Gone
    BY <1>6 DEF AddJobAccepted, AddGoto, netVars, Gone
  <2>2. Blamed' = Blamed
    BY <1>6 DEF AddJobAccepted, AddGoto, netVars, Blamed
  <2>3. QED
    BY <1>6, <1>0, <2>1, <2>2 DEF AddJobAccepted, AddGoto, netVars, LifeStep,
       Lifecycle!vars
<1>7. ASSUME NEW j \in Jobs, AddJobRejected(j) PROVE LifeStep
  <2>1. Gone' = Gone
    BY <1>7 DEF AddJobRejected, AddGoto, netVars, Gone
  <2>2. Blamed' = Blamed
    BY <1>7 DEF AddJobRejected, AddGoto, netVars, Blamed
  <2>3. QED
    BY <1>7, <1>0, <2>1, <2>2 DEF AddJobRejected, AddGoto, netVars, LifeStep,
       Lifecycle!vars
<1>8. ASSUME NEW j \in Jobs, AddJobSaveError(j) PROVE LifeStep
  <2>1. Blamed' = Blamed \cup {j}
    BY <1>8 DEF AddJobSaveError, AddGoto, SaveRow, netVars, Blamed,
       KillerState
  <2>2. Lifecycle!GiveUp(j)
    BY <1>8, <1>0, <2>1 DEF AddJobSaveError, AddGoto, SaveRow, netVars,
       Lifecycle!GiveUp, Gone
  <2>3. j \in Jobs
    BY <1>8 DEF KillerState
  <2>4. QED
    BY <2>2, <2>3 DEF LifeStep, Lifecycle!Next
<1>9. ASSUME NEW j \in Jobs, AddJobBroken(j) PROVE LifeStep
  <2>1. Gone' = Gone
    BY <1>9 DEF AddJobBroken, AddGoto, netVars, Gone
  <2>2. Blamed' = Blamed
    BY <1>9 DEF AddJobBroken, AddGoto, netVars, Blamed
  <2>3. QED
    BY <1>9, <1>0, <2>1, <2>2 DEF AddJobBroken, AddGoto, netVars, LifeStep,
       Lifecycle!vars
<1>10. ASSUME NEW j \in Jobs, UpdateJobRefuse(j) PROVE LifeStep
  <2>1. Gone' = Gone
    BY <1>10 DEF UpdateJobRefuse, ReportGoto, managerVars, Gone
  <2>2. Blamed' = Blamed
    BY <1>10 DEF UpdateJobRefuse, ReportGoto, managerVars, Blamed
  <2>3. QED
    BY <1>10, <1>0, <2>1, <2>2 DEF UpdateJobRefuse, ReportGoto, managerVars,
       LifeStep, Lifecycle!vars
<1>11. ASSUME NEW j \in Jobs, UpdateJobRead(j) PROVE LifeStep
  <2>1. Gone' = Gone
    BY <1>11 DEF UpdateJobRead, ReportGoto, managerVars, Gone
  <2>2. Blamed' = Blamed
    BY <1>11 DEF UpdateJobRead, ReportGoto, managerVars, Blamed
  <2>3. QED
    BY <1>11, <1>0, <2>1, <2>2 DEF UpdateJobRead, ReportGoto, managerVars,
       LifeStep, Lifecycle!vars
<1>12. ASSUME NEW j \in Jobs, UpdateJobSave(j) PROVE LifeStep
  <2>1. Lifecycle!Warranted(j, report[j].status)
    BY <1>12, JustifiedWarranted DEF UpdateJobSave, SnapshotInv, EditState,
       Lifecycle!Warranted
  <2>2. PICK s \in Status : s = report[j].status
    BY <1>12 DEF UpdateJobSave, EditState
  <2>3. QED
    BY <1>12, <1>0, <2>1, <2>2, SaveShows DEF UpdateJobSave
<1>13. ASSUME NEW j \in Jobs, DeleteJob(j) PROVE LifeStep
  <2>1. Lifecycle!Delete(j)
    BY <1>13, <1>0 DEF DeleteJob, netVars, Lifecycle!Delete, Gone, Blamed,
       ControlInv, SubmitInv
  <2>2. QED
    BY <2>1 DEF LifeStep, Lifecycle!Next
<1>14. ASSUME NEW e \in Edits, NEW j \in Jobs, EditJobRead(e, j)
     PROVE LifeStep
  <2>1. Gone' = Gone
    BY <1>14 DEF EditJobRead, netVars, Gone
  <2>2. Blamed' = Blamed
    BY <1>14 DEF EditJobRead, netVars, Blamed
  <2>3. QED
    BY <1>14, <1>0, <2>1, <2>2 DEF EditJobRead, netVars, LifeStep,
       Lifecycle!vars
<1>15. ASSUME NEW e \in Edits, EditJobSave(e) PROVE LifeStep
  <2>1. Lifecycle!Warranted(edit[e].job, edit[e].status)
    BY <1>15, JustifiedWarranted DEF EditJobSave, SnapshotInv, EditState,
       Lifecycle!Warranted
  <2>2. PICK s \in Status, i \in Jobs : s = edit[e].status /\ i = edit[e].job
    BY <1>15 DEF EditJobSave, EditState
  <2>3. QED
    BY <1>15, <1>0, <2>1, <2>2, SaveShows DEF EditJobSave
<1>16. ASSUME NEW k \in Kills, NEW j \in Jobs, KillJobFind(k, j)
     PROVE LifeStep
  <2>1. Gone' = Gone
    BY <1>16 DEF KillJobFind, netVars, Gone
  <2>2. Blamed' = Blamed
    BY <1>16 DEF KillJobFind, netVars, Blamed
  <2>3. QED
    BY <1>16, <1>0, <2>1, <2>2 DEF KillJobFind, netVars, LifeStep,
       Lifecycle!vars
<1>17. ASSUME NEW k \in Kills, KillJobSend(k) PROVE LifeStep
  <2>1. Gone' = Gone
    BY <1>17 DEF KillJobSend, KillGoto, SelectWorker, Gone
  <2>2. Blamed' = Blamed
    BY <1>17 DEF KillJobSend, KillGoto, SelectWorker, Blamed
  <2>3. QED
    BY <1>17, <1>0, <2>1, <2>2 DEF KillJobSend, KillGoto, SelectWorker,
       LifeStep, Lifecycle!vars
<1>18. ASSUME NEW k \in Kills, KillJobNoWorker(k) PROVE LifeStep
  <2>1. Gone' = Gone
    BY <1>18 DEF KillJobNoWorker, KillGoto, SelectWorker, netVars, Gone
  <2>2. Blamed' = Blamed
    BY <1>18 DEF KillJobNoWorker, KillGoto, SelectWorker, netVars, Blamed
  <2>3. QED
    BY <1>18, <1>0, <2>1, <2>2 DEF KillJobNoWorker, KillGoto, SelectWorker,
       netVars, LifeStep, Lifecycle!vars
<1>19. ASSUME NEW k \in Kills, KillJobSaveError(k) PROVE LifeStep
  <2>1. Blamed' = Blamed \cup {kill[k].job}
    BY <1>19 DEF KillJobSaveError, KillGoto, SaveRow, netVars, Blamed,
       KillerState
  <2>2. Lifecycle!GiveUp(kill[k].job)
    BY <1>19, <1>0, <2>1 DEF KillJobSaveError, KillGoto, SaveRow, netVars,
       Lifecycle!GiveUp, Gone
  <2>3. kill[k].job \in Jobs
    BY <1>19 DEF KillerState
  <2>4. QED
    BY <2>2, <2>3 DEF LifeStep, Lifecycle!Next
<1>20. ASSUME NEW k \in Kills, KillJobReturn(k) PROVE LifeStep
  <2>1. Gone' = Gone
    BY <1>20 DEF KillJobReturn, KillGoto, netVars, Gone
  <2>2. Blamed' = Blamed
    BY <1>20 DEF KillJobReturn, KillGoto, netVars, Blamed
  <2>3. QED
    BY <1>20, <1>0, <2>1, <2>2 DEF KillJobReturn, KillGoto, netVars,
       LifeStep, Lifecycle!vars
<1>21. ASSUME Reconfigure PROVE LifeStep
  <2>1. Gone' = Gone
    BY <1>21 DEF Reconfigure, netVars, Gone
  <2>2. Blamed' = Blamed
    BY <1>21 DEF Reconfigure, netVars, Blamed
  <2>3. QED
    BY <1>21, <1>0, <2>1, <2>2 DEF Reconfigure, netVars, LifeStep,
       Lifecycle!vars
<1>22. ASSUME ManagerCrash PROVE LifeStep
  <2>1. Gone' = Gone
    BY <1>22 DEF ManagerCrash, EditOver, Gone
  <2>2. Blamed' = Blamed
    BY <1>22 DEF ManagerCrash, EditOver, Blamed
  <2>3. QED
    BY <1>22, <1>0, <2>1, <2>2 DEF ManagerCrash, EditOver, LifeStep,
       Lifecycle!vars
<1>23. QED
  BY <1>1, <1>2, <1>3, <1>4, <1>5, <1>6, <1>7, <1>8, <1>9, <1>10, <1>11,
     <1>12, <1>13, <1>14, <1>15, <1>16, <1>17, <1>18, <1>19, <1>20, <1>21,
          <1>22
  DEF ManagerNext, AddJobStep, UpdateJobStep, KillJobStep

(* A worker moves the lives of its jobs forward only.                      *)
LEMMA WorkerStepAdvance ==
    ASSUME IInv, WorkerNext, UNCHANGED managerVars, NEW i \in Jobs
    PROVE  LifeOf(i)' = LifeOf(i) \/ <<LifeOf(i), LifeOf(i)'>> \in Lifecycle!Follows
<1> USE DEF IInv, TypeOK, NetTypeOK, WorkerTypeOK, ControlInv, ExecInv, SubmitInv,
     ProcState, LifeOf, Lifecycle!Follows
<1>1. ASSUME NEW j \in Jobs, WAddBadKey(j)
     PROVE LifeOf(i)' = LifeOf(i) \/ <<LifeOf(i),
     LifeOf(i)'>> \in Lifecycle!Follows
  BY <1>1 DEF WAddBadKey, Reply, workerVars
<1>2. ASSUME NEW j \in Jobs, WAddAppend(j)
     PROVE LifeOf(i)' = LifeOf(i) \/ <<LifeOf(i),
     LifeOf(i)'>> \in Lifecycle!Follows
  BY <1>2 DEF WAddAppend, WaddGoto, Reply, AppendJob
<1>3. ASSUME NEW j \in Jobs, WAddLogin(j)
     PROVE LifeOf(i)' = LifeOf(i) \/ <<LifeOf(i),
     LifeOf(i)'>> \in Lifecycle!Follows
  BY <1>3 DEF WAddLogin, WaddGoto, netVars
<1>4. ASSUME NEW j \in Jobs, WAddReport(j)
     PROVE LifeOf(i)' = LifeOf(i) \/ <<LifeOf(i),
     LifeOf(i)'>> \in Lifecycle!Follows
  BY <1>4 DEF WAddReport, WaddGoto, SendStatus
<1>5. ASSUME NEW j \in Jobs, WAddSpawn(j)
     PROVE LifeOf(i)' = LifeOf(i) \/ <<LifeOf(i),
     LifeOf(i)'>> \in Lifecycle!Follows
  BY <1>5 DEF WAddSpawn, WaddGoto, ExecGoto, Reply, Answered
<1>6. ASSUME NEW j \in Jobs, WAddLoginFails(j)
     PROVE LifeOf(i)' = LifeOf(i) \/ <<LifeOf(i),
     LifeOf(i)'>> \in Lifecycle!Follows
  BY <1>6 DEF WAddLoginFails, WaddGoto, Reply
<1>7. ASSUME NEW j \in Jobs, WAddPanic(j)
     PROVE LifeOf(i)' = LifeOf(i) \/ <<LifeOf(i),
     LifeOf(i)'>> \in Lifecycle!Follows
  BY <1>7 DEF WAddPanic, WaddGoto, Reply, NoResponse
<1>8. ASSUME NEW j \in Jobs, ExecFailed(j)
     PROVE LifeOf(i)' = LifeOf(i) \/ <<LifeOf(i),
     LifeOf(i)'>> \in Lifecycle!Follows
  BY <1>8 DEF ExecFailed, ExecGoto, Answered, netVars
<1>9. ASSUME NEW j \in Jobs, ExecStart(j)
     PROVE LifeOf(i)' = LifeOf(i) \/ <<LifeOf(i),
     LifeOf(i)'>> \in Lifecycle!Follows
  BY <1>9 DEF ExecStart, ExecGoto, SendStatus
<1>10. ASSUME NEW j \in Jobs, ExecSetPid(j)
     PROVE LifeOf(i)' = LifeOf(i) \/ <<LifeOf(i),
     LifeOf(i)'>> \in Lifecycle!Follows
  BY <1>10 DEF ExecSetPid, ExecGoto, SetPid, Answered, netVars
<1>11. ASSUME NEW j \in Jobs, ExecWait(j)
     PROVE LifeOf(i)' = LifeOf(i) \/ <<LifeOf(i),
     LifeOf(i)'>> \in Lifecycle!Follows
  BY <1>11 DEF ExecWait, ExecGoto, SendStatus, FinalStatus, UserCancel
<1>12. ASSUME NEW j \in Jobs, ExecRemove(j)
     PROVE LifeOf(i)' = LifeOf(i) \/ <<LifeOf(i),
     LifeOf(i)'>> \in Lifecycle!Follows
  BY <1>12 DEF ExecRemove, ExecGoto, RemoveJob, Answered, netVars, NoEntry
<1>13. ASSUME NEW j \in Jobs, ExecFail(j)
     PROVE LifeOf(i)' = LifeOf(i) \/ <<LifeOf(i),
     LifeOf(i)'>> \in Lifecycle!Follows
  BY <1>13 DEF ExecFail, ExecGoto, SendStatus
<1>14. ASSUME NEW j \in Jobs, ExecPanic(j)
     PROVE LifeOf(i)' = LifeOf(i) \/ <<LifeOf(i),
     LifeOf(i)'>> \in Lifecycle!Follows
  BY <1>14 DEF ExecPanic, Die, NoResponse, KillAt, NoEntry
<1>15. ASSUME NEW j \in Jobs, ScriptExit(j)
     PROVE LifeOf(i)' = LifeOf(i) \/ <<LifeOf(i),
     LifeOf(i)'>> \in Lifecycle!Follows
  BY <1>15 DEF ScriptExit, netVars
<1>16. ASSUME NEW j \in Jobs, SubmitNoWorker(j)
     PROVE LifeOf(i)' = LifeOf(i) \/ <<LifeOf(i),
     LifeOf(i)'>> \in Lifecycle!Follows
  BY <1>16 DEF SubmitNoWorker, Reply, workerVars
<1>17. ASSUME NEW k \in Kills, WKillFind(k)
     PROVE LifeOf(i)' = LifeOf(i) \/ <<LifeOf(i),
     LifeOf(i)'>> \in Lifecycle!Follows
  BY <1>17 DEF WKillFind, KillAt, Reaches, workerVars
<1>18. ASSUME NEW k \in Kills, WKillRefuse(k)
     PROVE LifeOf(i)' = LifeOf(i) \/ <<LifeOf(i),
     LifeOf(i)'>> \in Lifecycle!Follows
  BY <1>18 DEF WKillRefuse, WKillGoto, Reaches, workerVars, KillAt
<1>19. ASSUME NEW k \in Kills, WKillMark(k)
     PROVE LifeOf(i)' = LifeOf(i) \/ <<LifeOf(i),
     LifeOf(i)'>> \in Lifecycle!Follows
  BY <1>19 DEF WKillMark, SetUserCancel, WKillGoto, KillAt
<1>20. ASSUME NEW k \in Kills, WKillGroup(k)
     PROVE LifeOf(i)' = LifeOf(i) \/ <<LifeOf(i),
     LifeOf(i)'>> \in Lifecycle!Follows
  BY <1>20 DEF WKillGroup, WKillGoto, KillAt
<1>21. ASSUME NEW k \in Kills, WKillSelf(k)
     PROVE LifeOf(i)' = LifeOf(i) \/ <<LifeOf(i),
     LifeOf(i)'>> \in Lifecycle!Follows
  BY <1>21 DEF WKillSelf, Die, KillAt, NoEntry
<1>22. ASSUME NEW k \in Kills, KillNoWorker(k)
     PROVE LifeOf(i)' = LifeOf(i) \/ <<LifeOf(i),
     LifeOf(i)'>> \in Lifecycle!Follows
  BY <1>22 DEF KillNoWorker, WKillGoto, workerVars, KillAt
<1>23. ASSUME NEW w \in Workers, WorkerCrash(w)
     PROVE LifeOf(i)' = LifeOf(i) \/ <<LifeOf(i),
     LifeOf(i)'>> \in Lifecycle!Follows
  BY <1>23 DEF WorkerCrash, Die, KillAt, NoEntry
<1>24. ASSUME NEW w \in Workers, WorkerRestart(w)
     PROVE LifeOf(i)' = LifeOf(i) \/ <<LifeOf(i),
     LifeOf(i)'>> \in Lifecycle!Follows
  BY <1>24 DEF WorkerRestart, netVars
<1>25. QED
  BY <1>1, <1>2, <1>3, <1>4, <1>5, <1>6, <1>7, <1>8, <1>9, <1>10, <1>11,
     <1>12, <1>13, <1>14, <1>15, <1>16, <1>17, <1>18, <1>19, <1>20, <1>21,
          <1>22, <1>23, <1>24
  DEF WorkerNext, WAddStep, ExecStep, WKillStep

(* A step of a worker is Flag or Advance, or changes nothing that          *)
(* JobLifecycle sees.                                                      *)
LEMMA WorkerStepLife ==
    ASSUME IInv, TypeOK', WorkerNext, UNCHANGED managerVars
    PROVE  LifeStep
<1>1. row' = row /\ Gone' = Gone /\ Blamed' = Blamed
  BY DEF managerVars, Gone, Blamed
<1>2. CASE \E k \in Kills : WKillMark(k)
  <2>1. PICK k \in Kills : WKillMark(k)
    BY <1>2
  <2>2. wkill[k].job \in Jobs
    BY DEF IInv, TypeOK, NetTypeOK
  <2>3. Lives' = Lives
    BY <2>1 DEF WKillMark, Lives, LifeOf
  <2>4. Lifecycle!Flag(wkill[k].job) \/ UNCHANGED Lifecycle!vars
    BY <1>1, <2>1, <2>3 DEF WKillMark, Lives, Lifecycle!Flag, Lifecycle!vars
  <2>5. QED
    BY <2>2, <2>4 DEF LifeStep, Lifecycle!Next
<1>3. CASE cancelled' = cancelled
  <2>1. \A i \in Jobs : LifeOf(i)' = LifeOf(i) \/ <<LifeOf(i), LifeOf(i)'>> \in Lifecycle!Follows
    BY WorkerStepAdvance
  <2>2. \A i \in Jobs : LifeOf(i)' \in Lifecycle!Life
    BY DEF TypeOK, WorkerTypeOK, ProcState, LifeOf, Lifecycle!Life
  <2>3. Lifecycle!Advance
    BY <1>1, <1>3, <2>1, <2>2 DEF Lifecycle!Advance
  <2>4. QED
    BY <2>3 DEF LifeStep, Lifecycle!Next
<1>4. cancelled' = cancelled \/ \E k \in Kills : WKillMark(k)
  BY DEF WorkerNext, WAddStep, ExecStep, WKillStep, WAddBadKey, WAddAppend,
     WAddLogin, WAddReport, WAddSpawn, WAddLoginFails,
         WAddPanic, ExecFailed, ExecStart, ExecSetPid, ExecWait, ExecRemove,
         ExecFail, ExecPanic, ScriptExit, SubmitNoWorker, WKillFind, WKillRefuse,
         WKillGroup, WKillSelf, KillNoWorker, WorkerCrash, WorkerRestart,
         Die, workerVars
<1>5. QED
  BY <1>2, <1>3, <1>4

(* The manager and the workers, for any number of jobs, workers, requests  *)
(* and faults, show of a job only what its script's life warrants, and     *)
(* never bring a deleted row back.                                         *)
THEOREM Refinement == Spec => ImplementsLifecycle
<1>1. Init => Lifecycle!Init
  BY InitLife
<1>2. IInv /\ IInv' /\ [Next]_vars => [Lifecycle!Next]_Lifecycle!vars
  <2> SUFFICES ASSUME IInv, IInv', [Next]_vars PROVE LifeStep
    BY DEF LifeStep
  <2>1. CASE ManagerNext /\ UNCHANGED workerVars
    BY <2>1, ManagerStepLife
  <2>2. CASE WorkerNext /\ UNCHANGED managerVars
    BY <2>2, WorkerStepLife DEF IInv
  <2>3. CASE UNCHANGED vars
    BY <2>3 DEF vars, LifeStep, Lifecycle!vars, Gone, Blamed, LifeOf
  <2>4. QED
    BY <2>1, <2>2, <2>3 DEF Next
<1>3. QED
  BY <1>1, <1>2, Invariance, PTL DEF Spec, ImplementsLifecycle, Lifecycle!Spec

-----------------------------------------------------------------------------
(* Nobody waits for good                                                   *)
(*                                                                         *)
(* What JobSettles says is, but for the fairness: somebody can always go   *)
(* on, and it goes on only so often.  Who can is written out here: the     *)
(* predicates below are the guards of the actions, disregarding what only  *)
(* a user, an admin or a fault may do.                                     *)

(* The manager's handlers AddJob and KillJob, the worker's AddJob and      *)
(* execCmd, when they have ended, or have not begun.                       *)
AddOver(j) == add[j] \in {"start", "accepted", "failed", "dead"}
KillOver(k) == kill[k].pc \in {"start", "done", "failed", "dead"}
WAddOver(j) == wadd[j] \in {"idle", "done", "aborted"}
ExecOver(j) == exec[j] \in {"idle", "done", "dead"}

(* The PUT of a job is being served, or it is at its end. *)
PutOpen(j) == report[j].pc \in {"sent", "merged"}
PutOver(j) == report[j].pc \in {"saved", "refused", "broken"}

(* Their next step depends on nobody. *)
AddCan(j) ==
    \/ add[j] \in {"inserted", "routed", "stored", "failing"}
    \/ add[j] = "waiting" /\ submit[j] \in {"ok", "error"}
KillCan(k) ==
    \/ kill[k].pc \in {"read", "failing"}
    \/ kill[k].pc = "waiting" /\ wkill[k].pc = "done"
WAddCan(j) ==
    \/ wadd[j] \in {"listed", "ready"}
    \/ wadd[j] = "reporting" /\ PutOver(j)
ExecCan(j) ==
    \/ exec[j] = "prep"
    \/ exec[j] \in {"failing", "announcing", "finishing"} /\ PutOver(j)
    \/ exec[j] = "pumping" /\ proc[j] # "running"

(* A handler that has begun and not ended can go on, or the call it waits  *)
(* for is being served: manager and workers, which call each other while   *)
(* a request is open, never wait in a circle.  Only execCmd waits for      *)
(* something else, which is its script.                                    *)
NobodyWaitsForGood ==
    /\ \A j \in Jobs :
         /\ \/ AddOver(j) \/ AddCan(j) \/ submit[j] = "sent"
            \/ submit[j] = "held" /\ ~WAddOver(j)
         /\ WAddOver(j) \/ WAddCan(j) \/ PutOpen(j)
         /\ \/ ExecOver(j) \/ ExecCan(j) \/ PutOpen(j)
            \/ exec[j] = "pumping" /\ proc[j] = "running"
    /\ \A k \in Kills :
         KillOver(k) \/ KillCan(k) \/ wkill[k].pc \in {"sent", "found", "marked"}

(* It rests on who holds a call: a POST is held exactly while the worker's *)
(* handler runs, and whoever awaits an answer has made the call.           *)
WaitInv ==
    /\ \A j \in Jobs :
         /\ add[j] = "waiting" => submit[j] # "none"
         /\ submit[j] = "held" <=> wadd[j] \in {"listed", "ready", "reporting"}
         /\ submit[j] = "ok" <=> wadd[j] = "done"
         /\ wadd[j] = "reporting" => report[j].pc # "none"
         /\ exec[j] \in {"failing", "announcing", "finishing"} => report[j].pc # "none"
    /\ \A k \in Kills :
         /\ kill[k].pc \in {"start", "read"} => wkill[k].pc = "none"
         /\ kill[k].pc = "waiting" => wkill[k].pc # "none"

(* At the start nobody waits. *)
LEMMA InitWait == Init => WaitInv
BY DEF Init, NetInit, ManagerInit, WorkerInit, WaitInv

(* A step of UpdateJob moves an open PUT, and nothing else that WaitInv is *)
(* about.                                                                  *)
LEMMA UpdateJobMoves ==
    ASSUME NetTypeOK, NEW j \in Jobs, UpdateJobStep(j)
    PROVE  /\ UNCHANGED <<add, kill, to, submit, wkill>>
           /\ \A i \in Jobs : \/ report'[i] = report[i]
                              \/ /\ PutOpen(i)
                                 /\ report'[i].pc \in {"merged", "saved", "refused"}
<1>1. PICK pc \in {"merged", "saved", "refused"} : PutOpen(j) /\ ReportGoto(j, pc)
  BY DEF UpdateJobStep, UpdateJobRefuse, UpdateJobRead, UpdateJobSave, PutOpen
<1>2. UNCHANGED <<add, kill, to, submit, wkill>>
  BY DEF UpdateJobStep, UpdateJobRefuse, UpdateJobRead, UpdateJobSave, managerVars
<1> QED BY <1>1, <1>2 DEF ReportGoto, NetTypeOK

(* The manager's steps keep it. *)
LEMMA ManagerStepWait ==
    ASSUME IInv, WaitInv, ManagerNext, UNCHANGED workerVars
    PROVE  WaitInv'
<1> USE DEF IInv, TypeOK, NetTypeOK, ManagerTypeOK, ControlInv, SubmitInv, WaitInv, workerVars
<1>1. ASSUME NEW j \in Jobs, AddJobStep(j) \/ AddJobBroken(j) PROVE WaitInv'
  BY <1>1 DEF AddJobStep, AddJobInsert, AddJobRoute, AddJobStore, AddJobNoScript, AddJobSend,
     AddJobAccepted, AddJobRejected, AddJobBroken, AddJobSaveError, AddGoto, netVars
<1>2. ASSUME NEW j \in Jobs, UpdateJobStep(j) PROVE WaitInv'
  <2>1. UNCHANGED <<add, kill, submit, wkill>>
    BY <1>2, UpdateJobMoves
  <2>2. \A i \in Jobs : report[i].pc # "none" => report'[i].pc # "none"
    BY <1>2, UpdateJobMoves
  <2> QED BY <2>1, <2>2
<1>3. ASSUME NEW k \in Kills, KillJobSend(k) PROVE WaitInv'
  BY <1>3 DEF KillJobSend, KillGoto
<1>4. ASSUME NEW k \in Kills, NEW pc, pc \notin {"start", "read", "waiting"}, KillGoto(k, pc),
             UNCHANGED <<add, netVars>>
      PROVE  WaitInv'
  BY <1>4 DEF KillGoto, netVars
<1>5. ASSUME NEW k \in Kills, NEW j \in Jobs, KillJobFind(k, j) PROVE WaitInv'
  BY <1>5 DEF KillJobFind, netVars
<1>6. ASSUME UNCHANGED <<add, kill, netVars>> PROVE WaitInv'
  BY <1>6 DEF netVars
<1>7. ASSUME ManagerCrash PROVE WaitInv'
  BY <1>7 DEF ManagerCrash
<1>8. ASSUME \/ Reconfigure \/ \E j \in Jobs : DeleteJob(j)
             \/ \E e \in Edits : (\E j \in Jobs : EditJobRead(e, j)) \/ EditJobSave(e)
      PROVE  UNCHANGED <<add, kill, netVars>>
  BY <1>8 DEF Reconfigure, DeleteJob, EditJobRead, EditJobSave
<1>9. ASSUME NEW k \in Kills, KillJobNoWorker(k) \/ KillJobSaveError(k) \/ KillJobReturn(k)
      PROVE  WaitInv'
  BY <1>4, <1>9 DEF KillJobNoWorker, KillJobSaveError, KillJobReturn
<1> QED BY <1>1, <1>2, <1>3, <1>5, <1>6, <1>7, <1>8, <1>9 DEF ManagerNext, KillJobStep

(* The workers' steps keep it. *)
LEMMA WorkerStepWait ==
    ASSUME IInv, WaitInv, WorkerNext, UNCHANGED managerVars
    PROVE  WaitInv'
<1> USE DEF IInv, TypeOK, NetTypeOK, WorkerTypeOK, ControlInv, SubmitInv, ExecInv, WaitInv,
     managerVars
<1>1. ASSUME NEW j \in Jobs, WAddStep(j) PROVE WaitInv'
  BY <1>1 DEF WAddStep, WAddBadKey, WAddAppend, WAddLogin, WAddReport, WAddSpawn, WaddGoto,
     ExecGoto, Reply, SendStatus, netVars, workerVars
<1>2. ASSUME NEW j \in Jobs, WAddLoginFails(j) \/ WAddPanic(j) \/ SubmitNoWorker(j)
      PROVE  WaitInv'
  BY <1>2 DEF WAddLoginFails, WAddPanic, SubmitNoWorker, WaddGoto, Reply, workerVars
<1>3. ASSUME NEW j \in Jobs, ExecStep(j) \/ ExecFail(j) \/ ScriptExit(j) PROVE WaitInv'
  BY <1>3 DEF ExecStep, ExecFailed, ExecStart, ExecSetPid, ExecWait, ExecRemove, ExecFail,
     ScriptExit, ExecGoto, SendStatus, netVars
<1>4. ASSUME NEW k \in Kills,
             WKillFind(k) \/ WKillRefuse(k) \/ WKillMark(k) \/ WKillGroup(k) \/ KillNoWorker(k)
      PROVE  WaitInv'
  BY <1>4 DEF WKillFind, WKillRefuse, WKillMark, WKillGroup, KillNoWorker, WKillGoto, KillAt,
     workerVars
<1>5. ASSUME NEW w, Die(w) PROVE WaitInv'
  BY <1>5 DEF Die, KillAt
<1>6. ASSUME NEW w \in Workers, WorkerRestart(w) PROVE WaitInv'
  BY <1>6 DEF WorkerRestart, netVars
<1> QED BY <1>1, <1>2, <1>3, <1>4, <1>5, <1>6
        DEF WorkerNext, WKillStep, WKillSelf, ExecPanic, WorkerCrash

(* Who waits for a call has made it, throughout. *)
THEOREM WaitInvariance == Spec => []WaitInv
<1>1. IInv /\ WaitInv /\ [Next]_vars => WaitInv'
  <2> SUFFICES ASSUME IInv, WaitInv, [Next]_vars PROVE WaitInv'
    OBVIOUS
  <2>1. CASE UNCHANGED vars
    BY <2>1 DEF WaitInv, vars
  <2> QED BY <2>1, ManagerStepWait, WorkerStepWait DEF Next
<1> QED BY <1>1, InitWait, Invariance, PTL DEF Spec

(* No handler of a manager or worker is stuck. *)
THEOREM HandlersAreNotStuck == Spec => []NobodyWaitsForGood
<1>1. IInv /\ WaitInv => NobodyWaitsForGood
  <2> SUFFICES ASSUME IInv, WaitInv PROVE NobodyWaitsForGood
    OBVIOUS
  <2> USE DEF IInv, TypeOK, NetTypeOK, ManagerTypeOK, WorkerTypeOK, WaitInv
  <2>1. ASSUME NEW j \in Jobs
        PROVE  \/ AddOver(j) \/ AddCan(j) \/ submit[j] = "sent"
               \/ submit[j] = "held" /\ ~WAddOver(j)
    BY DEF AddOver, AddCan, WAddOver, AddState, SubmitState
  <2>2. ASSUME NEW j \in Jobs PROVE PutOpen(j) \/ PutOver(j) \/ report[j].pc = "none"
    BY DEF PutOpen, PutOver, ReportState
  <2>3. ASSUME NEW j \in Jobs PROVE WAddOver(j) \/ WAddCan(j) \/ PutOpen(j)
    BY <2>2 DEF WAddOver, WAddCan, WaddState
  <2>4. ASSUME NEW j \in Jobs
        PROVE  \/ ExecOver(j) \/ ExecCan(j) \/ PutOpen(j)
               \/ exec[j] = "pumping" /\ proc[j] = "running"
    BY <2>2 DEF ExecOver, ExecCan, ExecState
  <2>5. ASSUME NEW k \in Kills
        PROVE  KillOver(k) \/ KillCan(k) \/ wkill[k].pc \in {"sent", "found", "marked"}
    BY DEF KillOver, KillCan, KillerState, KillState
  <2> QED BY <2>1, <2>3, <2>4, <2>5 DEF NobodyWaitsForGood
<1> QED BY <1>1, Invariance, WaitInvariance, PTL

(* How far AddJob, KillJob and the calls to the worker have come. *)
AddRank(place) ==
    CASE place = "start" -> 0
      [] place = "inserted" -> 1
      [] place = "routed" -> 2
      [] place = "stored" -> 3
      [] place = "waiting" -> 4
      [] place = "failing" -> 5
      [] OTHER -> 6

KillRank(place) ==
    CASE place = "start" -> 0
      [] place = "read" -> 1
      [] place \in {"waiting", "failing"} -> 2
      [] OTHER -> 3

PostRank(place) ==
    CASE place = "none" -> 0
      [] place = "sent" -> 1
      [] place = "held" -> 2
      [] OTHER -> 3

DeleteRank(place) ==
    CASE place = "none" -> 0
      [] place = "sent" -> 1
      [] place = "found" -> 2
      [] place = "marked" -> 3
      [] OTHER -> 4

(* The worker's part of a job makes three PUTs, one after the other: its   *)
(* progress is that of handler and execCmd, and within it that of the PUT. *)
WAddRank(place) ==
    CASE place = "idle" -> 0
      [] place = "listed" -> 1
      [] place = "ready" -> 2
      [] place = "reporting" -> 3
      [] OTHER -> 4

ExecRank(place) ==
    CASE place = "idle" -> 0
      [] place = "prep" -> 1
      [] place \in {"failing", "announcing"} -> 2
      [] place = "pumping" -> 3
      [] place = "finishing" -> 4
      [] OTHER -> 5

PutRank(place) ==
    CASE place = "none" -> 0
      [] place = "sent" -> 1
      [] place = "merged" -> 2
      [] OTHER -> 3

Progress(j) == 4 * (WAddRank(wadd[j]) + ExecRank(exec[j])) + PutRank(report[j].pc)

(* Handlers and calls only go forward, whatever is refused, breaks or      *)
(* dies: AddJob, KillJob, the calls they make, and the worker's part of a  *)
(* job, which with its three PUTs has 39 steps at most (that sendStatus    *)
(* tries a refused PUT once more is within such a step: see OnlyTwoTries   *)
(* of WorkerLogin_proofs).  With NobodyWaitsForGood, each of them ends if  *)
(* it is scheduled and the script ends.                                    *)
OnlyForward ==
    [][/\ \A j \in Jobs :
            /\ add'[j] # add[j] => AddRank(add[j]) < AddRank(add'[j])
            /\ submit'[j] # submit[j] => PostRank(submit[j]) < PostRank(submit'[j])
            /\ <<wadd[j], exec[j], report[j]>>' # <<wadd[j], exec[j], report[j]>>
                  => Progress(j) < Progress(j)'
       /\ \A k \in Kills :
            /\ kill'[k] # kill[k] => KillRank(kill[k].pc) < KillRank(kill'[k].pc)
            /\ wkill'[k] # wkill[k] => DeleteRank(wkill[k].pc) < DeleteRank(wkill'[k].pc)]_vars

(* How a step may move the worker's part of job j. *)
Advance(j) ==
    \/ UNCHANGED <<wadd[j], exec[j], report[j]>>
    \/ WAddRank(wadd[j]) < WAddRank(wadd'[j]) /\ ExecRank(exec[j]) <= ExecRank(exec'[j])
    \/ ExecRank(exec[j]) < ExecRank(exec'[j]) /\ WAddRank(wadd[j]) <= WAddRank(wadd'[j])
    \/ UNCHANGED <<wadd[j], exec[j]>> /\ PutRank(report[j].pc) < PutRank(report'[j].pc)

(* A PUT has fewer steps than one step of its caller counts. *)
LEMMA PutsFit ==
    ASSUME NEW w \in 0 .. 4, NEW e \in 0 .. 5, NEW p \in 0 .. 3,
           NEW v \in 0 .. 4, NEW f \in 0 .. 5, NEW q \in 0 .. 3,
           (w < v /\ e <= f) \/ (e < f /\ w <= v) \/ (w = v /\ e = f /\ p < q)
    PROVE  4 * (w + e) + p < 4 * (v + f) + q
OBVIOUS

(* So every advance is progress. *)
LEMMA AdvanceCounts ==
    ASSUME NEW j \in Jobs, Advance(j),
           <<wadd[j], exec[j], report[j]>>' # <<wadd[j], exec[j], report[j]>>
    PROVE  Progress(j) < Progress(j)'
<1>1. \A place : WAddRank(place) \in 0 .. 4
  BY DEF WAddRank
<1>2. \A place : ExecRank(place) \in 0 .. 5
  BY DEF ExecRank
<1>3. \A place : PutRank(place) \in 0 .. 3
  BY DEF PutRank
<1>4. PICK w \in 0 .. 4, v \in 0 .. 4 : w = WAddRank(wadd[j]) /\ v = WAddRank(wadd'[j])
  BY <1>1
<1>5. PICK e \in 0 .. 5, f \in 0 .. 5 : e = ExecRank(exec[j]) /\ f = ExecRank(exec'[j])
  BY <1>2
<1>6. PICK p \in 0 .. 3, q \in 0 .. 3 : p = PutRank(report[j].pc) /\ q = PutRank(report'[j].pc)
  BY <1>3
<1>7. (w < v /\ e <= f) \/ (e < f /\ w <= v) \/ (w = v /\ e = f /\ p < q)
  BY <1>4, <1>5, <1>6 DEF Advance
<1>8. 4 * (w + e) + p < 4 * (v + f) + q
  BY <1>7, PutsFit
<1> QED BY <1>4, <1>5, <1>6, <1>8 DEF Progress

(* What a step does to the parts that handle job j and kill k. *)
JobForward(j) ==
    /\ add'[j] # add[j] => AddRank(add[j]) < AddRank(add'[j])
    /\ submit'[j] # submit[j] => PostRank(submit[j]) < PostRank(submit'[j])
    /\ Advance(j)

KillForward(k) ==
    /\ kill'[k] # kill[k] => KillRank(kill[k].pc) < KillRank(kill'[k].pc)
    /\ wkill'[k] # wkill[k] => DeleteRank(wkill[k].pc) < DeleteRank(wkill'[k].pc)

(* A step of the manager goes forward in every job. *)
LEMMA ManagerJobForward ==
    ASSUME IInv, ManagerNext, UNCHANGED workerVars, NEW i \in Jobs
    PROVE  JobForward(i)
<1> USE DEF IInv, TypeOK, NetTypeOK, ManagerTypeOK, ControlInv, SubmitInv, JobForward, Advance,
            workerVars
<1>1. ASSUME NEW j \in Jobs, AddJobStep(j) \/ AddJobBroken(j) PROVE JobForward(i)
  <2>1. UNCHANGED <<wadd[i], exec[i], report[i]>>
    BY <1>1 DEF AddJobStep, AddJobInsert, AddJobRoute, AddJobStore, AddJobNoScript, AddJobSend,
       AddJobAccepted, AddJobRejected, AddJobBroken, AddJobSaveError, netVars
  <2>2. submit'[i] # submit[i] => PostRank(submit[i]) < PostRank(submit'[i])
    BY <1>1 DEF AddJobStep, AddJobInsert, AddJobRoute, AddJobStore, AddJobNoScript, AddJobSend,
       AddJobAccepted, AddJobRejected, AddJobBroken, AddJobSaveError, netVars, PostRank
  <2>3. add'[i] # add[i] => AddRank(add[i]) < AddRank(add'[i])
    BY <1>1 DEF AddJobStep, AddJobInsert, AddJobRoute, AddJobStore, AddJobNoScript, AddJobSend,
       AddJobAccepted, AddJobRejected, AddJobBroken, AddJobSaveError, AddGoto, AddRank
  <2> QED BY <2>1, <2>2, <2>3
<1>2. ASSUME NEW j \in Jobs, UpdateJobStep(j) PROVE JobForward(i)
  BY <1>2 DEF UpdateJobStep, UpdateJobRefuse, UpdateJobRead, UpdateJobSave, ReportGoto,
     managerVars, PutRank
<1>3. ASSUME ManagerCrash PROVE JobForward(i)
  BY <1>3 DEF ManagerCrash, AddRank, PutRank, AddState
<1>4. ASSUME UNCHANGED <<add, submit, report>> PROVE JobForward(i)
  BY <1>4
<1>5. ASSUME \/ Reconfigure \/ \E j \in Jobs : DeleteJob(j)
             \/ \E e \in Edits : (\E j \in Jobs : EditJobRead(e, j)) \/ EditJobSave(e)
             \/ \E k \in Kills : (\E j \in Jobs : KillJobFind(k, j)) \/ KillJobStep(k)
      PROVE  UNCHANGED <<add, submit, report>>
  BY <1>5 DEF Reconfigure, DeleteJob, EditJobRead, EditJobSave, KillJobFind, KillJobStep,
     KillJobSend, KillJobNoWorker, KillJobSaveError, KillJobReturn, netVars
<1> QED BY <1>1, <1>2, <1>3, <1>4, <1>5 DEF ManagerNext

(* A step of a worker goes forward in every job. *)
LEMMA WorkerJobForward ==
    ASSUME IInv, WaitInv, WorkerNext, UNCHANGED managerVars, NEW i \in Jobs
    PROVE  JobForward(i)
<1> USE DEF IInv, TypeOK, NetTypeOK, WorkerTypeOK, ControlInv, SubmitInv, ExecInv, WaitInv,
            JobForward, Advance, managerVars, WAddRank, ExecRank, PostRank
<1>1. ASSUME NEW j \in Jobs, WAddBadKey(j) \/ WAddAppend(j) \/ SubmitNoWorker(j)
      PROVE  JobForward(i)
  BY <1>1 DEF WAddBadKey, WAddAppend, SubmitNoWorker, WaddGoto, Reply, workerVars
<1>2. ASSUME NEW j \in Jobs, WAddLogin(j) \/ WAddReport(j)
      PROVE  JobForward(i)
  BY <1>2 DEF WAddLogin, WAddReport, WaddGoto, SendStatus, netVars
<1>3. ASSUME NEW j \in Jobs, WAddSpawn(j) \/ WAddLoginFails(j) \/ WAddPanic(j)
      PROVE  JobForward(i)
  BY <1>3 DEF WAddSpawn, WAddLoginFails, WAddPanic, WaddGoto, ExecGoto, Reply
<1>4. ASSUME NEW j \in Jobs, ExecStep(j) \/ ExecFail(j) \/ ScriptExit(j) PROVE JobForward(i)
  BY <1>4 DEF ExecStep, ExecFailed, ExecStart, ExecSetPid, ExecWait, ExecRemove, ExecFail,
     ScriptExit, ExecGoto, SendStatus, netVars
<1>5. ASSUME NEW w, Die(w) PROVE JobForward(i)
  BY <1>5 DEF Die, ExecState, WaddState
<1>6. ASSUME UNCHANGED <<wadd, exec, submit, report>> PROVE JobForward(i)
  BY <1>6
<1>7. ASSUME \/ \E w \in Workers : WorkerRestart(w)
             \/ \E k \in Kills : \/ WKillFind(k) \/ WKillRefuse(k) \/ WKillMark(k)
                                 \/ WKillGroup(k) \/ KillNoWorker(k)
      PROVE  UNCHANGED <<wadd, exec, submit, report>>
  BY <1>7 DEF WorkerRestart, WKillFind, WKillRefuse, WKillMark, WKillGroup, KillNoWorker,
     workerVars, netVars
<1> QED BY <1>1, <1>2, <1>3, <1>4, <1>5, <1>6, <1>7
        DEF WorkerNext, WAddStep, WKillStep, WKillSelf, ExecPanic, WorkerCrash

(* A step goes forward in every kill. *)
LEMMA KillsForward ==
    ASSUME IInv, WaitInv, [Next]_vars, NEW i \in Kills
    PROVE  KillForward(i)
<1> USE DEF IInv, TypeOK, NetTypeOK, ManagerTypeOK, WaitInv, KillForward, KillRank, DeleteRank
<1>1. ASSUME NEW k \in Kills, NEW j \in Jobs, KillJobFind(k, j) PROVE KillForward(i)
  BY <1>1 DEF KillJobFind, netVars
<1>2. ASSUME NEW k \in Kills, KillJobSend(k) PROVE KillForward(i)
  BY <1>2 DEF KillJobSend, KillGoto
<1>3. ASSUME NEW k \in Kills, KillJobNoWorker(k) \/ KillJobSaveError(k) \/ KillJobReturn(k)
      PROVE  KillForward(i)
  BY <1>3 DEF KillJobNoWorker, KillJobSaveError, KillJobReturn, KillGoto, netVars
<1>4. ASSUME ManagerCrash PROVE KillForward(i)
  BY <1>4 DEF ManagerCrash, KillerState
<1>5. ASSUME NEW k \in Kills,
             \/ WKillFind(k) \/ WKillRefuse(k) \/ WKillMark(k) \/ WKillGroup(k)
             \/ KillNoWorker(k),
             UNCHANGED managerVars
      PROVE  KillForward(i)
  BY <1>5 DEF WKillFind, WKillRefuse, WKillMark, WKillGroup, KillNoWorker, WKillGoto, KillAt,
     managerVars
<1>6. ASSUME NEW w, Die(w), UNCHANGED managerVars PROVE KillForward(i)
  BY <1>6 DEF Die, KillAt, managerVars
<1>7. ASSUME UNCHANGED <<kill, wkill>> PROVE KillForward(i)
  BY <1>7
<1>8. ASSUME \/ UNCHANGED vars \/ Reconfigure
             \/ \E j \in Jobs : \/ AddJobStep(j) \/ AddJobBroken(j) \/ UpdateJobStep(j)
                                \/ DeleteJob(j)
             \/ \E e \in Edits : (\E j \in Jobs : EditJobRead(e, j)) \/ EditJobSave(e)
      PROVE  UNCHANGED <<kill, wkill>>
  BY <1>8 DEF vars, Reconfigure, AddJobStep, AddJobInsert, AddJobRoute, AddJobStore,
     AddJobNoScript, AddJobSend, AddJobAccepted, AddJobRejected, AddJobSaveError, AddJobBroken,
     UpdateJobStep, UpdateJobRefuse, UpdateJobRead, UpdateJobSave, DeleteJob, EditJobRead,
     EditJobSave, managerVars, netVars
<1>9. ASSUME NEW j \in Jobs,
             \/ WAddStep(j) \/ WAddLoginFails(j) \/ WAddPanic(j) \/ ExecStep(j)
             \/ ExecFail(j) \/ ScriptExit(j) \/ SubmitNoWorker(j),
             UNCHANGED managerVars
      PROVE  UNCHANGED <<kill, wkill>>
  BY <1>9 DEF WAddStep, WAddBadKey, WAddAppend, WAddLogin, WAddReport, WAddSpawn,
     WAddLoginFails, WAddPanic, ExecStep, ExecFailed, ExecStart, ExecSetPid, ExecWait,
     ExecRemove, ExecFail, ScriptExit, SubmitNoWorker, SendStatus, managerVars, netVars
<1>10. ASSUME NEW w \in Workers, WorkerRestart(w), UNCHANGED managerVars
       PROVE  UNCHANGED <<kill, wkill>>
  BY <1>10 DEF WorkerRestart, managerVars, netVars
<1>11. CASE ManagerNext
  BY <1>1, <1>2, <1>3, <1>4, <1>7, <1>8, <1>11 DEF ManagerNext, KillJobStep
<1>12. CASE WorkerNext /\ UNCHANGED managerVars
  BY <1>5, <1>6, <1>7, <1>9, <1>10, <1>12
     DEF WorkerNext, WKillStep, WKillSelf, ExecPanic, WorkerCrash
<1> QED BY <1>7, <1>8, <1>11, <1>12 DEF Next

(* Whatever happens, handlers and calls go forward. *)
THEOREM HandlersGoForward == Spec => OnlyForward
<1> DEFINE A == /\ \A j \in Jobs :
                     /\ add'[j] # add[j] => AddRank(add[j]) < AddRank(add'[j])
                     /\ submit'[j] # submit[j] => PostRank(submit[j]) < PostRank(submit'[j])
                     /\ <<wadd[j], exec[j], report[j]>>' # <<wadd[j], exec[j], report[j]>>
                           => Progress(j) < Progress(j)'
                /\ \A k \in Kills :
                     /\ kill'[k] # kill[k] => KillRank(kill[k].pc) < KillRank(kill'[k].pc)
                     /\ wkill'[k] # wkill[k]
                           => DeleteRank(wkill[k].pc) < DeleteRank(wkill'[k].pc)
<1>1. IInv /\ WaitInv /\ [Next]_vars => [A]_vars
  <2> SUFFICES ASSUME IInv, WaitInv, Next PROVE A
    BY DEF vars
  <2>1. \A j \in Jobs : JobForward(j)
    BY ManagerJobForward, WorkerJobForward DEF Next
  <2>2. \A j \in Jobs : <<wadd[j], exec[j], report[j]>>' # <<wadd[j], exec[j], report[j]>>
                          => Progress(j) < Progress(j)'
    BY <2>1, AdvanceCounts DEF JobForward
  <2>3. \A k \in Kills : KillForward(k)
    BY KillsForward
  <2> QED BY <2>1, <2>2, <2>3 DEF JobForward, KillForward
<1> QED BY <1>1, Invariance, WaitInvariance, PTL DEF Spec, OnlyForward

(* Nothing happens that may take the last word from a job: no connection   *)
(* breaks, no report is refused for another reason than that the row is    *)
(* gone, the manager does not die, a worker that died stays dead, and no   *)
(* user's PUT saves what it read earlier.                                  *)
Calm ==
    /\ Edits = {}
    /\ Events \cap {"break", "refuse", "mgrcrash", "restart"} = {}

(* When AddJob and execCmd have ended, the user gets a final status: there *)
(* is no row whose job is over for everyone and goes on for its reader,    *)
(* whatever fails on the way (a login, a fork, the routing, a key), is     *)
(* killed, deleted or reconfigured, unless the job's worker has died.      *)
RestIsFinal ==
    Calm => \A j \in Jobs :
        AddOver(j) /\ ExecOver(j) => row[j] \in Ended \cup {NoRow} \/ Stranded(j)

(* It rests on what has become of a job's parts, ...                       *)
FateInv ==
    \A j \in Jobs :
        /\ add[j] # "dead" /\ report[j].pc # "broken"
        /\ add[j] \in {"routed", "stored"} \/ submit[j] # "none" => to[j] \in Workers
        /\ wadd[j] \in {"idle", "listed", "ready"} => report[j].pc = "none"
        /\ wadd[j] = "done" => exec[j] # "idle"
        /\ exec[j] = "dead" => Stranded(j)
        /\ submit[j] = "error" => Stranded(j) \/ report[j].pc = "none"
        /\ add[j] \in {"failing", "failed"} => submit[j] \in {"none", "error"}
        /\ add[j] = "accepted" => submit[j] = "ok"

(* ... and on what was said about it last.                                 *)
SaidInv ==
    \A j \in Jobs :
        /\ report[j].pc = "saved" => row[j] \in {report[j].status, "ERROR", NoRow}
        /\ report[j].pc = "refused" => row[j] = NoRow
        /\ exec[j] \in {"failing", "finishing", "done"} => report[j].status \in Ended
        /\ exec[j] = "done" => report[j].pc \in {"saved", "refused"}
        /\ add[j] = "failed" => Stranded(j) \/ row[j] \in {"ERROR", NoRow}

(* At the start there are neither parts nor words. *)
LEMMA InitFate == Init => FateInv /\ SaidInv
BY DEF Init, NetInit, ManagerInit, WorkerInit, FateInv, SaidInv

(* A PUT that is served changes no part's fate. *)
LEMMA FateStays ==
    ASSUME FateInv, UNCHANGED <<add, to, submit, wadd, exec, up>>,
           \A i \in Jobs : /\ report[i].pc = "none" => report'[i].pc = "none"
                           /\ report[i].pc # "broken" => report'[i].pc # "broken"
    PROVE  FateInv'
BY DEF FateInv, Stranded

(* In calm, the manager keeps the fate of the parts. *)
LEMMA ManagerStepFate ==
    ASSUME Calm, IInv, WaitInv, FateInv, ManagerNext, UNCHANGED workerVars
    PROVE  FateInv'
<1> USE DEF IInv, TypeOK, NetTypeOK, ManagerTypeOK, ControlInv, SubmitInv, ExecInv, WaitInv,
            FateInv, Stranded, workerVars
<1>1. ASSUME NEW j \in Jobs, AddJobInsert(j) \/ AddJobStore(j) \/ AddJobNoScript(j)
      PROVE  FateInv'
  BY <1>1 DEF AddJobInsert, AddJobStore, AddJobNoScript, AddGoto, netVars
<1>2. ASSUME NEW j \in Jobs, AddJobRoute(j) PROVE FateInv'
  BY <1>2, JobsAssumption DEF AddJobRoute, AddGoto, SelectWorker, Config
<1>3. ASSUME NEW j \in Jobs, AddJobSend(j) PROVE FateInv'
  BY <1>3 DEF AddJobSend, AddGoto
<1>4. ASSUME NEW j \in Jobs, AddJobAccepted(j) \/ AddJobRejected(j) \/ AddJobSaveError(j)
      PROVE  FateInv'
  BY <1>4 DEF AddJobAccepted, AddJobRejected, AddJobSaveError, AddGoto, netVars
<1>5. ASSUME NEW j \in Jobs, UpdateJobStep(j) PROVE FateInv'
  <2>1. UNCHANGED <<add, to, submit>>
    BY <1>5, UpdateJobMoves
  <2>2. \A i \in Jobs : /\ report[i].pc = "none" => report'[i].pc = "none"
                        /\ report[i].pc # "broken" => report'[i].pc # "broken"
    BY <1>5, UpdateJobMoves DEF PutOpen
  <2> QED BY <2>1, <2>2, FateStays
<1>6. ASSUME UNCHANGED <<add, to, submit, report>> PROVE FateInv'
  BY <1>6
<1>7. ASSUME \/ Reconfigure \/ \E j \in Jobs : DeleteJob(j)
             \/ \E k \in Kills : (\E j \in Jobs : KillJobFind(k, j)) \/ KillJobStep(k)
      PROVE  UNCHANGED <<add, to, submit, report>>
  BY <1>7 DEF Reconfigure, DeleteJob, KillJobFind, KillJobStep, KillJobSend, KillJobNoWorker,
     KillJobSaveError, KillJobReturn, netVars
<1>8. ~ManagerCrash /\ ~\E j \in Jobs : AddJobBroken(j)
  BY DEF Calm, ManagerCrash, AddJobBroken
<1> QED BY <1>1, <1>2, <1>3, <1>4, <1>5, <1>6, <1>7, <1>8
        DEF ManagerNext, AddJobStep, Calm

(* So do the workers. *)
LEMMA WorkerStepFate ==
    ASSUME Calm, IInv, WaitInv, FateInv, WorkerNext, UNCHANGED managerVars
    PROVE  FateInv'
<1> USE DEF IInv, TypeOK, NetTypeOK, WorkerTypeOK, ControlInv, SubmitInv, ExecInv, WaitInv,
            FateInv, Stranded, managerVars
<1>1. ASSUME NEW j \in Jobs, WAddBadKey(j) \/ WAddAppend(j) \/ SubmitNoWorker(j)
      PROVE  FateInv'
  BY <1>1, JobsAssumption
     DEF WAddBadKey, WAddAppend, SubmitNoWorker, WaddGoto, Reply, workerVars
<1>2. ASSUME NEW j \in Jobs, WAddLogin(j) \/ WAddReport(j) PROVE FateInv'
  BY <1>2 DEF WAddLogin, WAddReport, WaddGoto, SendStatus, netVars
<1>3. ASSUME NEW j \in Jobs, WAddSpawn(j) \/ WAddLoginFails(j) PROVE FateInv'
  BY <1>3 DEF WAddSpawn, WAddLoginFails, WaddGoto, ExecGoto, Reply
<1>4. ASSUME NEW j \in Jobs, ExecStep(j) \/ ExecFail(j) \/ ScriptExit(j) PROVE FateInv'
  BY <1>4 DEF ExecStep, ExecFailed, ExecStart, ExecSetPid, ExecWait, ExecRemove, ExecFail,
     ScriptExit, ExecGoto, SendStatus, netVars
<1>5. ASSUME NEW w, Die(w) PROVE FateInv'
  BY <1>5, JobsAssumption DEF Die
<1>6. ASSUME NEW k \in Kills,
             WKillFind(k) \/ WKillRefuse(k) \/ WKillMark(k) \/ WKillGroup(k) \/ KillNoWorker(k)
      PROVE  UNCHANGED <<up, wadd, exec, to, submit, report>>
  BY <1>6 DEF WKillFind, WKillRefuse, WKillMark, WKillGroup, KillNoWorker, workerVars
<1>7. ASSUME UNCHANGED <<up, wadd, exec, to, submit, report>> PROVE FateInv'
  BY <1>7
<1>8. /\ ~\E w \in Workers : WorkerRestart(w)
      /\ ~\E j \in Jobs : WAddPanic(j)
  BY DEF Calm, WorkerRestart, WAddPanic, NoResponse
<1> QED BY <1>1, <1>2, <1>3, <1>4, <1>5, <1>6, <1>7, <1>8
        DEF WorkerNext, WAddStep, WKillStep, WKillSelf, ExecPanic, WorkerCrash

(* In calm, the manager saves and keeps the last word. *)
LEMMA ManagerStepSaid ==
    ASSUME Calm, IInv, FateInv, SaidInv, ManagerNext, UNCHANGED workerVars
    PROVE  SaidInv'
<1> USE DEF IInv, TypeOK, NetTypeOK, ManagerTypeOK, ControlInv, SubmitInv, ExecInv, ReportInv,
            FateInv, SaidInv, Stranded, workerVars, NoRow, Status
<1>1. ASSUME NEW j \in Jobs, AddJobInsert(j) \/ AddJobStore(j) PROVE SaidInv'
  BY <1>1 DEF AddJobInsert, AddJobStore, SaveRow, AddGoto, netVars
<1>2. ASSUME NEW j \in Jobs, AddJobRoute(j) PROVE SaidInv'
  BY <1>2 DEF AddJobRoute, AddGoto
<1>3. ASSUME NEW j \in Jobs,
             AddJobNoScript(j) \/ AddJobSend(j) \/ AddJobAccepted(j) \/ AddJobRejected(j)
      PROVE  SaidInv'
  BY <1>3 DEF AddJobNoScript, AddJobSend, AddJobAccepted, AddJobRejected, AddGoto, netVars
<1>4. ASSUME NEW j \in Jobs, AddJobSaveError(j) PROVE SaidInv'
  BY <1>4 DEF AddJobSaveError, SaveRow, AddGoto, netVars
<1>5. ASSUME NEW j \in Jobs, UpdateJobRefuse(j) \/ UpdateJobRead(j) PROVE SaidInv'
  BY <1>5 DEF UpdateJobRefuse, UpdateJobRead, ReportGoto, managerVars, Calm
<1>6. ASSUME NEW j \in Jobs, UpdateJobSave(j) PROVE SaidInv'
  BY <1>6 DEF UpdateJobSave, SaveRow, ReportGoto
<1>7. ASSUME NEW j \in Jobs, DeleteJob(j) PROVE SaidInv'
  BY <1>7 DEF DeleteJob, netVars
<1>8. ASSUME NEW k \in Kills, KillJobSaveError(k) PROVE SaidInv'
  BY <1>8 DEF KillJobSaveError, SaveRow, netVars
<1>9. ASSUME UNCHANGED <<row, add, to, report>> PROVE SaidInv'
  BY <1>9
<1>10. ASSUME \/ Reconfigure
              \/ \E k \in Kills : \/ \E j \in Jobs : KillJobFind(k, j)
                                  \/ KillJobSend(k) \/ KillJobNoWorker(k) \/ KillJobReturn(k)
       PROVE  UNCHANGED <<row, add, to, report>>
  BY <1>10 DEF Reconfigure, KillJobFind, KillJobSend, KillJobNoWorker, KillJobReturn, netVars
<1>11. ~ManagerCrash /\ ~\E j \in Jobs : AddJobBroken(j)
  BY DEF Calm, ManagerCrash, AddJobBroken
<1> QED BY <1>1, <1>2, <1>3, <1>4, <1>5, <1>6, <1>7, <1>8, <1>9, <1>10, <1>11
        DEF ManagerNext, AddJobStep, UpdateJobStep, KillJobStep, Calm

(* In calm, execCmd awaits the answer to its last word before it ends. *)
LEMMA WorkerStepSaid ==
    ASSUME Calm, IInv, FateInv, SaidInv, WorkerNext, UNCHANGED managerVars
    PROVE  SaidInv'
<1> USE DEF IInv, TypeOK, NetTypeOK, WorkerTypeOK, ControlInv, ExecInv, FateInv, SaidInv,
            Stranded, managerVars
<1>1. ASSUME NEW j \in Jobs, WAddReport(j) PROVE SaidInv'
  BY <1>1 DEF WAddReport, SendStatus
<1>2. ASSUME NEW j \in Jobs, WAddSpawn(j) PROVE SaidInv'
  BY <1>2 DEF WAddSpawn, ExecGoto
<1>3. ASSUME NEW j \in Jobs, ExecStart(j) \/ ExecFail(j) PROVE SaidInv'
  BY <1>3 DEF ExecStart, ExecFail, ExecGoto, SendStatus, Ended
<1>4. ASSUME NEW j \in Jobs, ExecWait(j) PROVE SaidInv'
  BY <1>4 DEF ExecWait, ExecGoto, SendStatus, FinalStatus, Ended
<1>5. ASSUME NEW j \in Jobs, ExecFailed(j) \/ ExecSetPid(j) \/ ExecRemove(j) PROVE SaidInv'
  BY <1>5 DEF ExecFailed, ExecSetPid, ExecRemove, ExecGoto, Answered, netVars
<1>6. ASSUME NEW w, Die(w) PROVE SaidInv'
  BY <1>6 DEF Die
<1>7. ASSUME UNCHANGED <<up, exec, to, report>> PROVE SaidInv'
  BY <1>7
<1>8. ASSUME \/ \E j \in Jobs : \/ WAddBadKey(j) \/ WAddAppend(j) \/ WAddLogin(j)
                                \/ WAddLoginFails(j) \/ ScriptExit(j) \/ SubmitNoWorker(j)
             \/ \E k \in Kills : \/ WKillFind(k) \/ WKillRefuse(k) \/ WKillMark(k)
                                 \/ WKillGroup(k) \/ KillNoWorker(k)
      PROVE  UNCHANGED <<up, exec, to, report>>
  BY <1>8 DEF WAddBadKey, WAddAppend, WAddLogin, WAddLoginFails, ScriptExit, SubmitNoWorker,
     WKillFind, WKillRefuse, WKillMark, WKillGroup, KillNoWorker, workerVars, netVars
<1>9. /\ ~\E w \in Workers : WorkerRestart(w)
      /\ ~\E j \in Jobs : WAddPanic(j)
  BY DEF Calm, WorkerRestart, WAddPanic, NoResponse
<1> QED BY <1>1, <1>2, <1>3, <1>4, <1>5, <1>6, <1>7, <1>8, <1>9
        DEF WorkerNext, WAddStep, ExecStep, WKillStep, WKillSelf, ExecPanic, WorkerCrash

(* A job that is over for AddJob and execCmd is over for its reader. *)
THEOREM JobsRestFinal == Spec => []RestIsFinal
<1> DEFINE Fates == Calm => FateInv /\ SaidInv
<1>1. Init => Fates
  BY InitFate
<1>2. IInv /\ WaitInv /\ Fates /\ [Next]_vars => Fates'
  <2> SUFFICES ASSUME IInv, WaitInv, [Next]_vars, Calm, FateInv, SaidInv
               PROVE  FateInv' /\ SaidInv'
    BY DEF Calm
  <2>1. CASE UNCHANGED vars
    BY <2>1 DEF FateInv, SaidInv, Stranded, vars
  <2> QED BY <2>1, ManagerStepFate, WorkerStepFate, ManagerStepSaid, WorkerStepSaid DEF Next
<1>3. IInv /\ WaitInv /\ Fates => RestIsFinal
  <2> SUFFICES ASSUME IInv, WaitInv, FateInv, SaidInv, NEW j \in Jobs, AddOver(j), ExecOver(j),
                      ~Stranded(j)
               PROVE  row[j] \in Ended \cup {NoRow}
    BY DEF RestIsFinal
  <2>1. CASE add[j] = "start"
    BY <2>1 DEF IInv, ControlInv, SubmitInv
  <2>2. CASE add[j] = "failed"
    BY <2>2 DEF SaidInv, Ended
  <2>3. CASE add[j] = "accepted"
    <3>1. exec[j] = "done"
      BY <2>3 DEF WaitInv, FateInv, ExecOver
    <3> QED BY <3>1 DEF SaidInv, Ended
  <2> QED BY <2>1, <2>2, <2>3 DEF AddOver, FateInv
<1> QED BY <1>1, <1>2, <1>3, Invariance, WaitInvariance, PTL DEF Spec
=============================================================================
