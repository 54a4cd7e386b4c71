----------------------- MODULE AccessRevocationProofs -----------------------
(***************************************************************************)
(* Two facts about the disconnection queue, for any set of users and any   *)
(* number of failures.  Whatever the number of workers, a task SUCCEEDED   *)
(* only if the endpoint was told to drop the user after the task was last  *)
(* armed: the leaseToken makes the updates of an overtaken handler void.   *)
(* And while a single process both provisions and revokes, no snapshot can *)
(* bring back a user who was cut off; the run MCRevocationApiSync shows    *)
(* that this process must indeed be the only one.                          *)
(***************************************************************************)
EXTENDS AccessRevocation, TLAPS

(* The handler that owns a task has kicked its user since it was armed.    *)
KickedInv ==
    /\ SucceededMeansKicked
    /\ \A w \in Workers, u \in Users :
        handler[w][u] = "kicked" /\ Owned(w, u) => u \notin armed

(* Handlers inside the node lock exclude a sync of their process, and the  *)
(* snapshot of a worker's sync names nobody whom that worker has cut off.  *)
LockInv ==
    /\ \A w \in Workers : cutOff[w] \cap allowed = {}
    /\ NoStaleSnapshot
    /\ \A p \in Syncers : syncing[p] = "no" => snapshot[p] = {}
    /\ \A w \in Workers, u \in Users :
        handler[w][u] \in InLock => syncing[w] = "no"

OneProcess == \A p, q \in Syncers : p = q

(* The initial state is well formed.                                       *)
LEMMA TypeInit == Init => TypeOK
BY RevocationAssumption DEF Init, TypeOK, Statuses, Open, Done, InLock

(* Every step of a handler, a sync or the environment keeps it so.         *)
LEMMA TypeStep == TypeOK /\ [Next]_vars => TypeOK'
<1> SUFFICES ASSUME TypeOK, [Next]_vars PROVE TypeOK'
  OBVIOUS
<1> USE RevocationAssumption
    DEF TypeOK, Statuses, Open, Done, InLock, taskVars, syncVars, histVars
<1>1. ASSUME NEW u \in Users, Deplete(u)
      PROVE  TypeOK'
  BY <1>1 DEF Deplete
<1>2. ASSUME NEW u \in Users, Restore(u)
      PROVE  TypeOK'
  BY <1>2 DEF Restore
<1>3. ASSUME NEW status \in {"active", "disabled", "retired"}, SetNode(status)
      PROVE  TypeOK'
  BY <1>3 DEF SetNode
<1>4. ASSUME NEW u \in Users, Notice(u)
      PROVE  TypeOK'
  BY <1>4 DEF Notice
<1>5. ASSUME NEW u \in Users, Enqueue(u)
      PROVE  TypeOK'
  BY <1>5 DEF Enqueue
<1>6. ASSUME NEW u \in Users, BackoffEnds(u)
      PROVE  TypeOK'
  BY <1>6 DEF BackoffEnds
<1>7. ASSUME NEW u \in Users, LeaseLapses(u)
      PROVE  TypeOK'
  BY <1>7 DEF LeaseLapses
<1>8. ASSUME NEW w \in Workers, NEW u \in Users, Claim(w, u)
      PROVE  TypeOK'
  BY <1>8 DEF Claim, Goto
<1>9. ASSUME NEW w \in Workers, NEW u \in Users, ResolveAccess(w, u)
      PROVE  TypeOK'
  BY <1>9 DEF ResolveAccess, Goto
<1>10. ASSUME NEW w \in Workers, NEW u \in Users, CancelTask(w, u)
      PROVE  TypeOK'
  BY <1>10 DEF CancelTask, Finish, Goto
<1>11. ASSUME NEW w \in Workers, NEW u \in Users, ConfirmLease(w, u)
      PROVE  TypeOK'
  BY <1>11 DEF ConfirmLease, Goto
<1>12. ASSUME NEW w \in Workers, NEW u \in Users, Kick(w, u)
      PROVE  TypeOK'
  BY <1>12 DEF Kick, Drop, Goto
<1>13. ASSUME NEW w \in Workers, NEW u \in Users, KickFails(w, u)
      PROVE  TypeOK'
  BY <1>13 DEF KickFails, Drop, Goto
<1>14. ASSUME NEW w \in Workers, NEW u \in Users, MarkSucceeded(w, u)
      PROVE  TypeOK'
  BY <1>14 DEF MarkSucceeded, Finish, Goto
<1>15. ASSUME NEW w \in Workers, NEW u \in Users, Retry(w, u)
      PROVE  TypeOK'
  BY <1>15 DEF Retry, Finish, Goto
<1>16. ASSUME NEW p \in Syncers, SyncStart(p)
      PROVE  TypeOK'
  BY <1>16 DEF SyncStart
<1>17. ASSUME NEW p \in Syncers, NEW u \in Users, ReadAccess(p, u)
      PROVE  TypeOK'
  BY <1>17 DEF ReadAccess
<1>18. ASSUME NEW p \in Syncers, Provision(p)
      PROVE  TypeOK'
  BY <1>18 DEF Provision, EndSync
<1>19. ASSUME NEW p \in Syncers, ProvisionFails(p)
      PROVE  TypeOK'
  BY <1>19 DEF ProvisionFails, EndSync
<1>20. ASSUME NEW w \in Workers, WorkerCrash(w)
      PROVE  TypeOK'
  BY <1>20 DEF WorkerCrash, EndSync
<1>21. CASE UNCHANGED vars
  BY <1>21 DEF vars
<1>22. ASSUME NEW u \in Users, Connect(u) \/ Leave(u)
      PROVE  TypeOK'
  BY <1>22 DEF Connect, Leave
<1> QED
  BY <1>1, <1>2, <1>3, <1>4, <1>5, <1>6, <1>7, <1>8, <1>9, <1>10, <1>11,
     <1>12, <1>13, <1>14, <1>15, <1>16, <1>17, <1>18, <1>19, <1>20, <1>21, <1>22
  DEF Next, HandlerStep, SyncStep

(* No step lets an overtaken handler complete a task.                      *)
LEMMA KickedStep == TypeOK /\ KickedInv /\ [Next]_vars => KickedInv'
<1> SUFFICES ASSUME TypeOK, KickedInv, [Next]_vars PROVE KickedInv'
  OBVIOUS
<1> USE RevocationAssumption
    DEF TypeOK, KickedInv, SucceededMeansKicked, Owned, Open, Done, Statuses, InLock,
        taskVars, syncVars, histVars
<1>1. ASSUME NEW u \in Users, Deplete(u)
      PROVE  KickedInv'
  BY <1>1 DEF Deplete
<1>2. ASSUME NEW u \in Users, Restore(u)
      PROVE  KickedInv'
  BY <1>2 DEF Restore
<1>3. ASSUME NEW status \in {"active", "disabled", "retired"}, SetNode(status)
      PROVE  KickedInv'
  BY <1>3 DEF SetNode
<1>4. ASSUME NEW u \in Users, Notice(u)
      PROVE  KickedInv'
  BY <1>4 DEF Notice
<1>5. ASSUME NEW u \in Users, Enqueue(u)
      PROVE  KickedInv'
  <2>1. CASE task[u] \in Open
    BY <1>5, <2>1 DEF Enqueue
  <2>2. CASE task[u] \notin Open
    <3>1. /\ task' = [task EXCEPT ![u] = "PENDING"] /\ armed' = armed \cup {u}
          /\ owner' = [owner EXCEPT ![u] = Nobody] /\ handler' = handler
      BY <1>5, <2>2 DEF Enqueue
    <3>2. ASSUME NEW v \in Users, task'[v] = "SUCCEEDED" PROVE v \notin armed'
      BY <3>1, <3>2
    <3>3. ASSUME NEW w \in Workers, NEW v \in Users,
                 handler'[w][v] = "kicked", task'[v] = "RUNNING", owner'[v] = w
          PROVE  v \notin armed'
      BY <3>1, <3>3
    <3> QED
      BY <3>2, <3>3
  <2> QED
    BY <2>1, <2>2
<1>6. ASSUME NEW u \in Users, BackoffEnds(u)
      PROVE  KickedInv'
  BY <1>6 DEF BackoffEnds
<1>7. ASSUME NEW u \in Users, LeaseLapses(u)
      PROVE  KickedInv'
  BY <1>7 DEF LeaseLapses
<1>8. ASSUME NEW w \in Workers, NEW u \in Users, Claim(w, u)
      PROVE  KickedInv'
  BY <1>8 DEF Claim, Goto
<1>9. ASSUME NEW w \in Workers, NEW u \in Users, ResolveAccess(w, u)
      PROVE  KickedInv'
  BY <1>9 DEF ResolveAccess, Goto
<1>10. ASSUME NEW w \in Workers, NEW u \in Users, CancelTask(w, u)
      PROVE  KickedInv'
  BY <1>10 DEF CancelTask, Finish, Goto
<1>11. ASSUME NEW w \in Workers, NEW u \in Users, ConfirmLease(w, u)
      PROVE  KickedInv'
  BY <1>11 DEF ConfirmLease, Goto
<1>12. ASSUME NEW w \in Workers, NEW u \in Users, Kick(w, u)
      PROVE  KickedInv'
  BY <1>12 DEF Kick, Drop, Goto
<1>13. ASSUME NEW w \in Workers, NEW u \in Users, KickFails(w, u)
      PROVE  KickedInv'
  BY <1>13 DEF KickFails, Drop, Goto
<1>14. ASSUME NEW w \in Workers, NEW u \in Users, MarkSucceeded(w, u)
      PROVE  KickedInv'
  BY <1>14 DEF MarkSucceeded, Finish, Goto
<1>15. ASSUME NEW w \in Workers, NEW u \in Users, Retry(w, u)
      PROVE  KickedInv'
  BY <1>15 DEF Retry, Finish, Goto
<1>16. ASSUME NEW p \in Syncers, SyncStart(p)
      PROVE  KickedInv'
  BY <1>16 DEF SyncStart
<1>17. ASSUME NEW p \in Syncers, NEW u \in Users, ReadAccess(p, u)
      PROVE  KickedInv'
  BY <1>17 DEF ReadAccess
<1>18. ASSUME NEW p \in Syncers, Provision(p)
      PROVE  KickedInv'
  BY <1>18 DEF Provision, EndSync
<1>19. ASSUME NEW p \in Syncers, ProvisionFails(p)
      PROVE  KickedInv'
  BY <1>19 DEF ProvisionFails, EndSync
<1>20. ASSUME NEW w \in Workers, WorkerCrash(w)
      PROVE  KickedInv'
  BY <1>20 DEF WorkerCrash, EndSync
<1>21. CASE UNCHANGED vars
  BY <1>21 DEF vars
<1>22. ASSUME NEW u \in Users, Connect(u) \/ Leave(u)
      PROVE  KickedInv'
  BY <1>22 DEF Connect, Leave
<1> QED
  BY <1>1, <1>2, <1>3, <1>4, <1>5, <1>6, <1>7, <1>8, <1>9, <1>10, <1>11,
     <1>12, <1>13, <1>14, <1>15, <1>16, <1>17, <1>18, <1>19, <1>20, <1>21, <1>22
  DEF Next, HandlerStep, SyncStep

(* No step lets a worker's snapshot meet a revocation of the same worker.  *)
LEMMA LockStep == TypeOK /\ LockInv /\ [Next]_vars => LockInv'
<1> SUFFICES ASSUME TypeOK, LockInv, [Next]_vars PROVE LockInv'
  OBVIOUS
<1> USE RevocationAssumption
    DEF TypeOK, LockInv, NoStaleSnapshot, LockFree, InLock, taskVars,
        syncVars, histVars
<1>1. ASSUME NEW u \in Users, Deplete(u)
      PROVE  LockInv'
  BY <1>1 DEF Deplete
<1>2. ASSUME NEW u \in Users, Restore(u)
      PROVE  LockInv'
  BY <1>2 DEF Restore
<1>3. ASSUME NEW status \in {"active", "disabled", "retired"}, SetNode(status)
      PROVE  LockInv'
  BY <1>3 DEF SetNode
<1>4. ASSUME NEW u \in Users, Notice(u)
      PROVE  LockInv'
  BY <1>4 DEF Notice
<1>5. ASSUME NEW u \in Users, Enqueue(u)
      PROVE  LockInv'
  BY <1>5 DEF Enqueue
<1>6. ASSUME NEW u \in Users, BackoffEnds(u)
      PROVE  LockInv'
  BY <1>6 DEF BackoffEnds
<1>7. ASSUME NEW u \in Users, LeaseLapses(u)
      PROVE  LockInv'
  BY <1>7 DEF LeaseLapses
<1>8. ASSUME NEW w \in Workers, NEW u \in Users, Claim(w, u)
      PROVE  LockInv'
  BY <1>8 DEF Claim, Goto
<1>9. ASSUME NEW w \in Workers, NEW u \in Users, ResolveAccess(w, u)
      PROVE  LockInv'
  BY <1>9 DEF ResolveAccess, Goto
<1>10. ASSUME NEW w \in Workers, NEW u \in Users, CancelTask(w, u)
      PROVE  LockInv'
  BY <1>10 DEF CancelTask, Finish, Goto
<1>11. ASSUME NEW w \in Workers, NEW u \in Users, ConfirmLease(w, u)
      PROVE  LockInv'
  BY <1>11 DEF ConfirmLease, Goto
<1>12. ASSUME NEW w \in Workers, NEW u \in Users, Kick(w, u)
      PROVE  LockInv'
  BY <1>12 DEF Kick, Drop, Goto
<1>13. ASSUME NEW w \in Workers, NEW u \in Users, KickFails(w, u)
      PROVE  LockInv'
  <2>1. CASE Drop(w, u)
    BY <1>13, <2>1 DEF KickFails, Drop, Goto
  <2>2. CASE UNCHANGED <<onNode, online, histVars>>
    BY <1>13, <2>2 DEF KickFails, Goto
  <2> QED
    BY <1>13, <2>1, <2>2 DEF KickFails
<1>14. ASSUME NEW w \in Workers, NEW u \in Users, MarkSucceeded(w, u)
      PROVE  LockInv'
  BY <1>14 DEF MarkSucceeded, Finish, Goto
<1>15. ASSUME NEW w \in Workers, NEW u \in Users, Retry(w, u)
      PROVE  LockInv'
  BY <1>15 DEF Retry, Finish, Goto
<1>16. ASSUME NEW p \in Syncers, SyncStart(p)
      PROVE  LockInv'
  BY <1>16 DEF SyncStart
<1>17. ASSUME NEW p \in Syncers, NEW u \in Users, ReadAccess(p, u)
      PROVE  LockInv'
  BY <1>17 DEF ReadAccess
<1>18. ASSUME NEW p \in Syncers, Provision(p)
      PROVE  LockInv'
  BY <1>18 DEF Provision, EndSync
<1>19. ASSUME NEW p \in Syncers, ProvisionFails(p)
      PROVE  LockInv'
  BY <1>19 DEF ProvisionFails, EndSync
<1>20. ASSUME NEW w \in Workers, WorkerCrash(w)
      PROVE  LockInv'
  BY <1>20 DEF WorkerCrash, EndSync
<1>21. CASE UNCHANGED vars
  BY <1>21 DEF vars
<1>22. ASSUME NEW u \in Users, Connect(u) \/ Leave(u)
      PROVE  LockInv'
  BY <1>22 DEF Connect, Leave
<1> QED
  BY <1>1, <1>2, <1>3, <1>4, <1>5, <1>6, <1>7, <1>8, <1>9, <1>10, <1>11,
     <1>12, <1>13, <1>14, <1>15, <1>16, <1>17, <1>18, <1>19, <1>20, <1>21, <1>22
  DEF Next, HandlerStep, SyncStep

(* In a single process, no step puts a user back who was cut off.          *)
LEMMA AloneStep ==
    OneProcess /\ TypeOK /\ LockInv /\ NoStaleProvision /\ [Next]_vars
        => NoStaleProvision'
<1> SUFFICES ASSUME OneProcess, TypeOK, LockInv, NoStaleProvision, [Next]_vars
             PROVE  NoStaleProvision'
  OBVIOUS
<1> USE RevocationAssumption
    DEF OneProcess, TypeOK, LockInv, NoStaleSnapshot, NoStaleProvision
<1>1. ASSUME NEW u \in Users, Restore(u)
      PROVE  NoStaleProvision'
  BY <1>1 DEF Restore
<1>2. ASSUME NEW w \in Workers, NEW u \in Users, Kick(w, u)
      PROVE  NoStaleProvision'
  BY <1>2 DEF Kick, Drop
<1>3. ASSUME NEW p \in Syncers, Provision(p)
      PROVE  NoStaleProvision'
  BY <1>3 DEF Provision, histVars
<1>4. ASSUME NEW p \in Syncers, ProvisionFails(p)
      PROVE  NoStaleProvision'
  BY <1>4 DEF ProvisionFails, histVars
<1>5. ASSUME NEW w \in Workers, NEW u \in Users, KickFails(w, u)
      PROVE  NoStaleProvision'
  BY <1>5 DEF KickFails, Drop, histVars
<1>6. CASE UNCHANGED <<onNode, cutOff>>
  BY <1>6
<1> QED
  BY <1>1, <1>2, <1>3, <1>4, <1>5, <1>6
  DEF Next, HandlerStep, SyncStep, vars, taskVars, syncVars, histVars, Deplete,
      SetNode, Notice, Enqueue, BackoffEnds, LeaseLapses, Claim, ResolveAccess,
      Connect, Leave, CancelTask, Finish, ConfirmLease, MarkSucceeded, Retry,
      SyncStart, ReadAccess, WorkerCrash

(* The queue and its handlers are well formed in every behaviour.          *)
THEOREM TypeCorrect == Spec => []TypeOK
BY TypeInit, TypeStep, PTL DEF Spec

(* With any number of workers, crashes and lapsed leases, a revocation     *)
(* that is recorded as SUCCEEDED has been carried out since it was armed.  *)
THEOREM SuccessIsReal == Spec => []SucceededMeansKicked
<1>1. Init => KickedInv
  BY DEF Init, KickedInv, SucceededMeansKicked
<1>2. KickedInv => SucceededMeansKicked
  BY DEF KickedInv
<1> QED
  BY <1>1, <1>2, TypeInit, TypeStep, KickedStep, PTL DEF Spec

(* With any number of processes, the node lock of a worker keeps what it   *)
(* has cut off out of the lists it provisions itself.                      *)
THEOREM OwnSnapshotsAreSafe == Spec => []NoStaleSnapshot
<1>1. Init => LockInv
  BY DEF Init, LockInv, NoStaleSnapshot, InLock
<1>2. LockInv => NoStaleSnapshot
  BY DEF LockInv
<1> QED
  BY <1>1, <1>2, TypeInit, TypeStep, LockStep, PTL DEF Spec

(* If provisioning and revocation run in one process, its node lock keeps  *)
(* users who were cut off away from the endpoint.                          *)
THEOREM OneProcessIsSafe == OneProcess => (Spec => []NoStaleProvision)
<1> SUFFICES ASSUME OneProcess PROVE Spec => []NoStaleProvision
  OBVIOUS
<1>1. Init => LockInv /\ NoStaleProvision
  BY DEF Init, LockInv, NoStaleSnapshot, NoStaleProvision, InLock
<1>2. TypeOK /\ LockInv /\ NoStaleProvision /\ [Next]_vars => NoStaleProvision'
  BY AloneStep
<1> QED
  BY <1>1, <1>2, TypeInit, TypeStep, LockStep, PTL DEF Spec
=============================================================================
