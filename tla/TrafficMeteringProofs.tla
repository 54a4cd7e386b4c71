------------------------ MODULE TrafficMeteringProofs ------------------------
(***************************************************************************)
(* For any number of processes, users, batches and failures, the claim,    *)
(* import and acknowledge protocol of TrafficMetering conserves traffic.   *)
(* Conservation alone is not inductive: an acknowledgement is harmless     *)
(* only because whoever sends one has seen the import, and an import bills *)
(* the right amount only because the batch a process holds is still the    *)
(* one in the agent's state file.  These facts make up Inv.                *)
(***************************************************************************)
EXTENDS TrafficMetering, TLAPS

(* Identities are given out in order, and 0 names no batch.                *)
IdsInv ==
    /\ \A id \in imported \cup lateAcks : id # 0 /\ id < nextId
    /\ stateFile.id < nextId
    /\ stateFile.id = 0 => stateFile = NoBatch

(* Outside the two windows of the claim handler, memory and state file     *)
(* agree and nothing is in flight inside the agent.                        *)
AgentInv ==
    /\ agent # "persisted" => pending = stateFile
    /\ agent = "persisted" => stateFile.id # 0
    /\ agent = "collected" => stateFile = NoBatch
    /\ agent # "collected" => collected = NoTraffic

(* A process past the import, and whoever sent an acknowledgement, acts on *)
(* an imported batch; one before the import holds the agent's batch.       *)
SyncInv ==
    /\ \A p \in Procs :
        /\ pc[p] = "claimed" => held[p].id # 0
        /\ pc[p] \in {"imported", "acked"} => held[p].id \in imported
    /\ lateAcks \subseteq imported

(* The users whose restriction has reached the revocation tasks.           *)
Handled == revocations \cup cutOff \cup missed

(* While a batch is replayable, the syncs that have imported it account    *)
(* for every restricted user, and so has any sync that sent its ack.       *)
QueueInv ==
    /\ \A p \in Procs :
        /\ held[p].id < nextId
        /\ held[p].id = stateFile.id /\ held[p].id # 0 => held[p] = stateFile
        /\ pc[p] = "imported" /\ held[p] = stateFile =>
            \A u \in Users :
                Restricted(u) => u \in Handled \cup todo[p] \cup queue[p]
    /\ stateFile.id \in lateAcks => \A u \in Users : Restricted(u) => u \in Handled

(* The agent no longer holds a batch that is marked ACKED, nor one that a  *)
(* sync is about to mark; its next batch will have a new identity.         *)
AckInv ==
    /\ \A id \in acked : id # 0 /\ id < nextId /\ id # stateFile.id
    /\ \A p \in Procs : pc[p] = "acked" => held[p].id # stateFile.id

Inv == TypeOK /\ IdsInv /\ AgentInv /\ SyncInv /\ RetrySameBatch /\ Conservation

(* The initial state is well formed.                                       *)
LEMMA TypeInit == Init => TypeOK
BY ConstantsAssumption
DEF Init, TypeOK, Traffic, NoTraffic, Batch, NoBatch, Phases

(* Every step keeps the state well formed.                                 *)
LEMMA TypeStep == TypeOK /\ [Next]_vars => TypeOK'
<1> SUFFICES ASSUME TypeOK, [Next]_vars PROVE TypeOK'
  OBVIOUS
<1> USE ConstantsAssumption DEF TypeOK, Traffic, NoTraffic, Batch, NoBatch, Phases,
        agentVars, dbVars, taskVars, syncVars
<1>1. ASSUME NEW u \in Users, Use(u) PROVE TypeOK'
  BY <1>1 DEF Use
<1>2. ASSUME NEW u \in Users, Credit(u) PROVE TypeOK'
  BY <1>2 DEF Credit
<1>3. ASSUME NEW u \in Users, ReadPermission(u) \/ Kick(u) \/ CloseTask(u) \/ TaskFails(u)
      PROVE  TypeOK'
  <2>1. CASE ReadPermission(u)
    BY <2>1 DEF ReadPermission, HandlerOnly
  <2>2. CASE Kick(u)
    BY <2>2 DEF Kick, HandlerOnly
  <2>3. CASE CloseTask(u)
    BY <2>3 DEF CloseTask, HandlerOnly
  <2>4. CASE TaskFails(u)
    BY <2>4 DEF TaskFails, HandlerOnly
  <2> QED
    BY <1>3, <2>1, <2>2, <2>3, <2>4
<1>4. ASSUME NEW p \in Procs, ClaimPending(p) PROVE TypeOK'
  BY <1>4 DEF ClaimPending, SyncAt, At
<1>5. ASSUME NEW p \in Procs, ClaimCollect(p) PROVE TypeOK'
  BY <1>5 DEF ClaimCollect, SyncAt, At
<1>6. CASE ClaimPersist
  BY <1>6 DEF ClaimPersist
<1>7. CASE ClaimRespond
  BY <1>7 DEF ClaimRespond, SyncAt, At
<1>8. CASE ClaimPersistFails
  BY <1>8 DEF ClaimPersistFails, EndSync, SyncAt, At, Plus
<1>9. CASE AgentRestart
  BY <1>9 DEF AgentRestart, EndSync, SyncAt, At, Plus
<1>10. ASSUME NEW p \in Procs, Import(p) PROVE TypeOK'
  <2>1. held[p] \in Batch /\ held[p].id \in Nat /\ held[p].traffic \in Traffic
    OBVIOUS
  <2>2. Plus(consumed, held[p].traffic) \in Traffic
    BY <2>1 DEF Plus
  <2>3. consumed' \in Traffic /\ imported' \subseteq Nat
    BY <1>10, <2>1, <2>2 DEF Import
  <2> QED
    BY <1>10, <2>3 DEF Import, Active
<1>11. ASSUME NEW p \in Procs, NEW u \in Users, CheckAccess(p, u) PROVE TypeOK'
  BY <1>11 DEF CheckAccess
<1>12. ASSUME NEW p \in Procs, NEW u \in Users, Enqueue(p, u) PROVE TypeOK'
  BY <1>12 DEF Enqueue, Rearm
<1>13. ASSUME NEW p \in Procs, Ack(p) PROVE TypeOK'
  BY <1>13 DEF Ack, DropPending
<1>14. ASSUME NEW p \in Procs, AckConflict(p) PROVE TypeOK'
  BY <1>14 DEF AckConflict, EndSync, SyncAt, At
<1>15. ASSUME NEW p \in Procs, AckTimeout(p) PROVE TypeOK'
  <2>1. held[p] \in Batch /\ held[p].id \in Nat
    OBVIOUS
  <2>2. lateAcks' \subseteq Nat
    BY <1>15, <2>1 DEF AckTimeout
  <2>3. /\ pc' \in [Procs -> Phases] /\ held' \in [Procs -> Batch]
        /\ todo' \in [Procs -> SUBSET Users] /\ queue' \in [Procs -> SUBSET Users]
    BY <1>15 DEF AckTimeout, EndSync, SyncAt, At
  <2> QED
    BY <1>15, <2>2, <2>3 DEF AckTimeout
<1>16. ASSUME NEW id \in 1..MaxBatches, DeliverLateAck(id) PROVE TypeOK'
  BY <1>16 DEF DeliverLateAck, DropPending
<1>17. ASSUME NEW p \in Procs, MarkAcked(p) PROVE TypeOK'
  BY <1>17 DEF MarkAcked, EndSync, SyncAt, At
<1>18. ASSUME NEW p \in Procs, SyncFails(p) PROVE TypeOK'
  BY <1>18 DEF SyncFails, EndSync, SyncAt, At
<1>19. CASE UNCHANGED vars
  BY <1>19 DEF vars
<1> QED
  BY <1>1, <1>2, <1>3, <1>4, <1>5, <1>6, <1>7, <1>8, <1>9, <1>10,
     <1>11, <1>12, <1>13, <1>14, <1>15, <1>16, <1>17, <1>18, <1>19
  DEF Next, SyncStep, AgentStep, TaskStep

(* The inductive invariant holds before any traffic.                       *)
LEMMA InvInit == Init => Inv
<1> SUFFICES ASSUME Init PROVE Inv
  OBVIOUS
<1> QED
  BY TypeInit, ConstantsAssumption
  DEF Init, Inv, IdsInv, AgentInv, SyncInv, RetrySameBatch, Conservation, Unbilled,
      NoTraffic, NoBatch

(* Every step of the agent, of a sync or of a failure preserves Inv.       *)
LEMMA InvStep == Inv /\ [Next]_vars => Inv'
<1> SUFFICES ASSUME Inv, [Next]_vars PROVE Inv'
  OBVIOUS
<1>0. TypeOK'
  BY TypeStep DEF Inv
<1> USE <1>0, ConstantsAssumption DEF Inv, TypeOK, IdsInv, AgentInv, SyncInv,
        RetrySameBatch, Conservation, Unbilled, Traffic, NoTraffic, Batch, NoBatch,
        Phases, agentVars, dbVars, taskVars, syncVars
<1>1. ASSUME NEW u \in Users, Use(u) PROVE Inv'
  <2>1. /\ \A v \in Users : Unbilled(v)' = Unbilled(v)
        /\ \A v \in Users : Unbilled(v) \in Nat
    BY <1>1 DEF Use
  <2>2. ASSUME NEW v \in Users
        PROVE  used'[v] = counter'[v] + collected'[v] + Unbilled(v)' + consumed'[v]
                            + lost'[v]
    <3>1. counter'[v] - counter[v] = used'[v] - used[v]
      BY <1>1 DEF Use
    <3> QED
      BY <1>1, <2>1, <3>1 DEF Use
  <2>3. Conservation'
    BY <2>2
  <2> QED
    BY <1>1, <2>3 DEF Use
<1>2. ASSUME NEW u \in Users, Credit(u) PROVE Inv'
  BY <1>2 DEF Credit
<1>3. ASSUME NEW u \in Users, ReadPermission(u) \/ Kick(u) \/ CloseTask(u) \/ TaskFails(u)
      PROVE  Inv'
  BY <1>3 DEF ReadPermission, Kick, CloseTask, TaskFails, HandlerOnly
<1>4. ASSUME NEW p \in Procs, ClaimPending(p) PROVE Inv'
  BY <1>4 DEF ClaimPending, SyncAt, At
<1>5. ASSUME NEW p \in Procs, ClaimCollect(p) PROVE Inv'
  BY <1>5 DEF ClaimCollect, SyncAt, At
<1>6. CASE ClaimPersist
  BY <1>6 DEF ClaimPersist
<1>7. CASE ClaimRespond
  BY <1>7 DEF ClaimRespond, SyncAt, At
<1>8. CASE ClaimPersistFails
  BY <1>8 DEF ClaimPersistFails, EndSync, SyncAt, At, Plus
<1>9. CASE AgentRestart
  BY <1>9 DEF AgentRestart, EndSync, SyncAt, At, Plus
<1>10. ASSUME NEW p \in Procs, Import(p) PROVE Inv'
  BY <1>10 DEF Import, Plus, Active
<1>11. ASSUME NEW p \in Procs, NEW u \in Users, CheckAccess(p, u) PROVE Inv'
  BY <1>11 DEF CheckAccess
<1>12. ASSUME NEW p \in Procs, NEW u \in Users, Enqueue(p, u) PROVE Inv'
  BY <1>12 DEF Enqueue, Rearm
<1>13. ASSUME NEW p \in Procs, Ack(p) PROVE Inv'
  BY <1>13 DEF Ack, ReadyToAck, IsPending, DropPending
<1>14. ASSUME NEW p \in Procs, AckConflict(p) PROVE Inv'
  BY <1>14 DEF AckConflict, EndSync, SyncAt, At
<1>15. ASSUME NEW p \in Procs, AckTimeout(p) PROVE Inv'
  BY <1>15 DEF AckTimeout, ReadyToAck, EndSync, SyncAt, At
<1>16. ASSUME NEW id \in 1..MaxBatches, DeliverLateAck(id) PROVE Inv'
  BY <1>16 DEF DeliverLateAck, IsPending, DropPending
<1>17. ASSUME NEW p \in Procs, MarkAcked(p) PROVE Inv'
  BY <1>17 DEF MarkAcked, EndSync, SyncAt, At
<1>18. ASSUME NEW p \in Procs, SyncFails(p) PROVE Inv'
  BY <1>18 DEF SyncFails, EndSync, SyncAt, At
<1>19. CASE UNCHANGED vars
  BY <1>19 DEF vars
<1> QED
  BY <1>1, <1>2, <1>3, <1>4, <1>5, <1>6, <1>7, <1>8, <1>9, <1>10,
     <1>11, <1>12, <1>13, <1>14, <1>15, <1>16, <1>17, <1>18, <1>19
  DEF Next, SyncStep, AgentStep, TaskStep

(* The metering state is well formed whatever the processes, the agent and *)
(* their failures do.                                                      *)
THEOREM TypeCorrect == Spec => []TypeOK
BY TypeInit, TypeStep, PTL DEF Spec

(* No replay, repeated or late acknowledgement, crash or restart bills a   *)
(* unit twice or drops an unbilled one.                                    *)
THEOREM TrafficConserved == Spec => []Conservation
<1>1. Inv => Conservation
  BY DEF Inv
<1> QED
  BY InvInit, InvStep, <1>1, PTL DEF Spec

(* A batch that some process has claimed and nobody has imported is the    *)
(* one the agent would hand out again.                                     *)
THEOREM SameBatchRetried == Spec => []RetrySameBatch
<1>1. Inv => RetrySameBatch
  BY DEF Inv
<1> QED
  BY InvInit, InvStep, <1>1, PTL DEF Spec

(* Nobody is restricted at the start.                                      *)
LEMMA QueueInit == Init => QueueInv /\ RestrictedIsQueued
BY ConstantsAssumption
DEF Init, QueueInv, Handled, RestrictedIsQueued, Restricted, NoBatch, NoTraffic

(* Every step preserves the accounting of restricted users.                *)
LEMMA QueueStep ==
    Inv /\ QueueInv /\ RestrictedIsQueued /\ [Next]_vars
        => QueueInv' /\ RestrictedIsQueued'
<1> DEFINE Goal == QueueInv' /\ RestrictedIsQueued'
<1> SUFFICES ASSUME Inv, QueueInv, RestrictedIsQueued, [Next]_vars PROVE Goal
  OBVIOUS
<1>0. TypeOK'
  BY TypeStep DEF Inv
<1> USE <1>0, ConstantsAssumption DEF Inv, TypeOK, IdsInv, AgentInv, SyncInv,
        RetrySameBatch, QueueInv, Handled, RestrictedIsQueued, Restricted, Active, Traffic,
        NoTraffic, Batch, NoBatch, Phases, agentVars, dbVars, taskVars, syncVars
<1>1. ASSUME NEW u \in Users, Use(u) PROVE Goal
  BY <1>1 DEF Use
<1>2. ASSUME NEW u \in Users, Credit(u) PROVE Goal
  BY <1>2 DEF Credit
<1>3. ASSUME NEW u \in Users, ReadPermission(u) \/ Kick(u) \/ CloseTask(u) \/ TaskFails(u)
      PROVE  Goal
  BY <1>3 DEF ReadPermission, Kick, CloseTask, TaskFails, HandlerOnly
<1>4. ASSUME NEW p \in Procs, ClaimPending(p) PROVE Goal
  BY <1>4 DEF ClaimPending, SyncAt, At
<1>5. ASSUME NEW p \in Procs, ClaimCollect(p) PROVE Goal
  BY <1>5 DEF ClaimCollect, SyncAt, At
<1>6. CASE ClaimPersist
  BY <1>6 DEF ClaimPersist
<1>7. CASE ClaimRespond
  BY <1>7 DEF ClaimRespond, SyncAt, At
<1>8. CASE ClaimPersistFails
  BY <1>8 DEF ClaimPersistFails, EndSync, SyncAt, At, Plus
<1>9. CASE AgentRestart
  BY <1>9 DEF AgentRestart, EndSync, SyncAt, At, Plus
<1>10. ASSUME NEW p \in Procs, Import(p) PROVE Goal
  BY <1>10 DEF Import, Plus, Active
<1>11. ASSUME NEW p \in Procs, NEW u \in Users, CheckAccess(p, u) PROVE Goal
  BY <1>11 DEF CheckAccess
<1>12. ASSUME NEW p \in Procs, NEW u \in Users, Enqueue(p, u) PROVE Goal
  BY <1>12 DEF Enqueue, Rearm
<1>13. ASSUME NEW p \in Procs, Ack(p) PROVE Goal
  BY <1>13 DEF Ack, ReadyToAck, IsPending, DropPending
<1>14. ASSUME NEW p \in Procs, AckConflict(p) PROVE Goal
  BY <1>14 DEF AckConflict, EndSync, SyncAt, At
<1>15. ASSUME NEW p \in Procs, AckTimeout(p) PROVE Goal
  <2>1. held[p].id # 0 /\ held[p].id \in imported
    BY <1>15 DEF AckTimeout, ReadyToAck
  <2>2. /\ \A v \in Users : Restricted(v)' <=> Restricted(v)
        /\ RestrictedIsQueued'
    BY <1>15 DEF AckTimeout
  <2>3. ASSUME stateFile'.id \in lateAcks', NEW v \in Users, Restricted(v)'
        PROVE  v \in Handled'
    <3>1. CASE stateFile.id \in lateAcks
      BY <1>15, <2>2, <2>3, <3>1 DEF AckTimeout
    <3>2. CASE stateFile.id = held[p].id
      BY <1>15, <2>1, <2>2, <2>3, <3>2 DEF AckTimeout, ReadyToAck
    <3> QED
      BY <1>15, <2>3, <3>1, <3>2 DEF AckTimeout
  <2>4. ASSUME NEW q \in Procs
        PROVE  /\ held'[q].id < nextId'
               /\ held'[q].id = stateFile'.id /\ held'[q].id # 0 => held'[q] = stateFile'
               /\ pc'[q] = "imported" /\ held'[q] = stateFile' =>
                   \A v \in Users :
                     Restricted(v)' => v \in Handled' \cup todo'[q] \cup queue'[q]
    BY <1>15, <2>2 DEF AckTimeout, EndSync, SyncAt, At
  <2> QED
    BY <2>2, <2>3, <2>4
<1>16. ASSUME NEW id \in 1..MaxBatches, DeliverLateAck(id) PROVE Goal
  BY <1>16 DEF DeliverLateAck, IsPending, DropPending
<1>17. ASSUME NEW p \in Procs, MarkAcked(p) PROVE Goal
  BY <1>17 DEF MarkAcked, EndSync, SyncAt, At
<1>18. ASSUME NEW p \in Procs, SyncFails(p) PROVE Goal
  BY <1>18 DEF SyncFails, EndSync, SyncAt, At
<1>19. CASE UNCHANGED vars
  BY <1>19 DEF vars
<1> QED
  BY <1>1, <1>2, <1>3, <1>4, <1>5, <1>6, <1>7, <1>8, <1>9, <1>10,
     <1>11, <1>12, <1>13, <1>14, <1>15, <1>16, <1>17, <1>18, <1>19
  DEF Next, SyncStep, AgentStep, TaskStep

(* A user out of quota has an open revocation task, has been kicked for    *)
(* it, or is named by a batch the agent still holds: no failure between    *)
(* import and acknowledgement can lose the disconnection.  The exception   *)
(* is a user of missed, whose task processDue closed on what it had read   *)
(* or kicked before the quota ran out.                                     *)
THEOREM RestrictionDurable == Spec => []RestrictedIsQueued
BY InvInit, InvStep, QueueInit, QueueStep, PTL DEF Spec

(* No step marks a batch that the agent holds, or brings one back that is  *)
(* marked.                                                                 *)
LEMMA AckStep == Inv /\ AckInv /\ [Next]_vars => AckInv'
<1> SUFFICES ASSUME Inv, AckInv, [Next]_vars PROVE AckInv'
  OBVIOUS
<1> USE ConstantsAssumption DEF Inv, TypeOK, IdsInv, AgentInv, SyncInv, AckInv, Batch,
        NoBatch, Phases, agentVars, dbVars, taskVars, syncVars
<1>1. ASSUME NEW u \in Users, Use(u) PROVE AckInv'
  BY <1>1 DEF Use
<1>2. ASSUME NEW u \in Users, Credit(u) PROVE AckInv'
  BY <1>2 DEF Credit
<1>3. ASSUME NEW u \in Users, ReadPermission(u) \/ Kick(u) \/ CloseTask(u) \/ TaskFails(u)
      PROVE  AckInv'
  <2>1. CASE ReadPermission(u)
    BY <2>1 DEF ReadPermission, HandlerOnly
  <2>2. CASE Kick(u)
    BY <2>2 DEF Kick, HandlerOnly
  <2>3. CASE CloseTask(u)
    BY <2>3 DEF CloseTask, HandlerOnly
  <2>4. CASE TaskFails(u)
    BY <2>4 DEF TaskFails, HandlerOnly
  <2> QED
    BY <1>3, <2>1, <2>2, <2>3, <2>4
<1>4. ASSUME NEW p \in Procs, ClaimPending(p) PROVE AckInv'
  BY <1>4 DEF ClaimPending, SyncAt, At
<1>5. ASSUME NEW p \in Procs, ClaimCollect(p) PROVE AckInv'
  BY <1>5 DEF ClaimCollect, SyncAt, At
<1>6. CASE ClaimPersist
  BY <1>6 DEF ClaimPersist
<1>7. CASE ClaimRespond
  BY <1>7 DEF ClaimRespond, SyncAt, At
<1>8. CASE ClaimPersistFails
  BY <1>8 DEF ClaimPersistFails, EndSync, SyncAt, At
<1>9. CASE AgentRestart
  BY <1>9 DEF AgentRestart, EndSync, SyncAt, At
<1>10. ASSUME NEW p \in Procs, Import(p) PROVE AckInv'
  BY <1>10 DEF Import
<1>11. ASSUME NEW p \in Procs, NEW u \in Users, CheckAccess(p, u) PROVE AckInv'
  BY <1>11 DEF CheckAccess
<1>12. ASSUME NEW p \in Procs, NEW u \in Users, Enqueue(p, u) PROVE AckInv'
  BY <1>12 DEF Enqueue, Rearm
<1>13. ASSUME NEW p \in Procs, Ack(p) PROVE AckInv'
  BY <1>13 DEF Ack, ReadyToAck, IsPending, DropPending
<1>14. ASSUME NEW p \in Procs, AckConflict(p) PROVE AckInv'
  BY <1>14 DEF AckConflict, EndSync, SyncAt, At
<1>15. ASSUME NEW p \in Procs, AckTimeout(p) PROVE AckInv'
  BY <1>15 DEF AckTimeout, ReadyToAck, EndSync, SyncAt, At
<1>16. ASSUME NEW id \in 1..MaxBatches, DeliverLateAck(id) PROVE AckInv'
  BY <1>16 DEF DeliverLateAck, IsPending, DropPending
<1>17. ASSUME NEW p \in Procs, MarkAcked(p) PROVE AckInv'
  BY <1>17 DEF MarkAcked, EndSync, SyncAt, At
<1>18. ASSUME NEW p \in Procs, SyncFails(p) PROVE AckInv'
  BY <1>18 DEF SyncFails, EndSync, SyncAt, At
<1>19. CASE UNCHANGED vars
  BY <1>19 DEF vars
<1> QED
  BY <1>1, <1>2, <1>3, <1>4, <1>5, <1>6, <1>7, <1>8, <1>9, <1>10,
     <1>11, <1>12, <1>13, <1>14, <1>15, <1>16, <1>17, <1>18, <1>19
  DEF Next, SyncStep, AgentStep, TaskStep

(* A batch is marked ACKED only once the agent has dropped it for good,    *)
(* whichever process, late request or restart dropped it.                  *)
THEOREM MarkedIsDropped == Spec => []AckedIsDropped
<1>1. Init => AckInv
  BY DEF Init, AckInv
<1>2. AckInv => AckedIsDropped
  BY DEF AckInv, AckedIsDropped
<1> QED
  BY InvInit, InvStep, AckStep, <1>1, <1>2, PTL DEF Spec

(* Every step is a step of the abstract meter, or leaves it alone.         *)
LEMMA MeterStep == Inv /\ [Next]_vars => [Meter!Next]_(Meter!vars)
<1> DEFINE Goal == [Meter!Next]_(Meter!vars)
<1> SUFFICES ASSUME Inv, [Next]_vars PROVE Goal
  OBVIOUS
<1>0. TypeOK'
  BY TypeStep DEF Inv
<1> USE <1>0, ConstantsAssumption DEF Inv, TypeOK, IdsInv, AgentInv, SyncInv,
        RetrySameBatch, Unbilled, Outstanding, Meter!Next, Meter!vars, Meter!Use,
        Meter!Bill, Meter!Lose, Meter!Moves, Traffic, NoTraffic, Batch, NoBatch,
        Phases, agentVars, dbVars, taskVars, syncVars
<1>1. ASSUME NEW u \in Users, Use(u) PROVE Goal
  <2>1. ASSUME NEW v \in Users
        PROVE  Outstanding'[v] = IF v = u THEN Outstanding[v] + 1 ELSE Outstanding[v]
    <3>1. /\ counter'[v] = IF v = u THEN counter[v] + 1 ELSE counter[v]
          /\ Unbilled(v)' = Unbilled(v) /\ Unbilled(v) \in Nat
      BY <1>1 DEF Use
    <3>2. /\ Outstanding'[v] = counter'[v] + collected'[v] + Unbilled(v)'
          /\ Outstanding[v] = counter[v] + collected[v] + Unbilled(v)
          /\ collected' = collected
      BY <1>1 DEF Use
    <3>3. counter[v] \in Nat /\ collected[v] \in Nat
      OBVIOUS
    <3> QED
      BY <3>1, <3>2, <3>3
  <2>3. Outstanding' = [Outstanding EXCEPT ![u] = @ + 1]
    BY <2>1
  <2>2. UNCHANGED <<consumed, lost>>
    BY <1>1 DEF Use
  <2> QED
    BY <2>2, <2>3
<1>2. ASSUME NEW u \in Users, Credit(u) PROVE Goal
  BY <1>2 DEF Credit
<1>3. ASSUME NEW u \in Users, ReadPermission(u) \/ Kick(u) \/ CloseTask(u) \/ TaskFails(u)
      PROVE  Goal
  BY <1>3 DEF ReadPermission, Kick, CloseTask, TaskFails, HandlerOnly
<1>4. ASSUME NEW p \in Procs, ClaimPending(p) PROVE Goal
  BY <1>4 DEF ClaimPending, SyncAt, At
<1>5. ASSUME NEW p \in Procs, ClaimCollect(p) PROVE Goal
  BY <1>5 DEF ClaimCollect, SyncAt, At
<1>6. CASE ClaimPersist
  BY <1>6 DEF ClaimPersist
<1>7. CASE ClaimRespond
  BY <1>7 DEF ClaimRespond, SyncAt, At
<1>8. CASE ClaimPersistFails
  BY <1>8 DEF ClaimPersistFails, EndSync, SyncAt, At, Plus
<1>9. CASE AgentRestart
  BY <1>9 DEF AgentRestart, EndSync, SyncAt, At, Plus
<1>10. ASSUME NEW p \in Procs, Import(p) PROVE Goal
  <2>1. CASE held[p].id \in imported
    BY <1>10, <2>1 DEF Import
  <2>2. CASE held[p].id \notin imported
    <3>1. stateFile = held[p] /\ held[p].traffic \in Traffic
      BY <1>10, <2>2 DEF Import
    <3>2. ASSUME NEW v \in Users
          PROVE  /\ consumed'[v] >= consumed[v]
                 /\ Outstanding'[v] + consumed'[v] = Outstanding[v] + consumed[v]
      <4>1. consumed'[v] = consumed[v] + held[p].traffic[v]
        BY <1>10, <2>2 DEF Import, Plus
      <4>2. Outstanding[v] = counter[v] + collected[v] + held[p].traffic[v]
        BY <2>2, <3>1
      <4>3. Outstanding'[v] = counter[v] + collected[v]
        BY <1>10, <3>1 DEF Import
      <4> QED
        BY <3>1, <4>1, <4>2, <4>3
    <3>3. lost' = lost
      BY <1>10 DEF Import
    <3> QED
      BY <3>2, <3>3
  <2> QED
    BY <2>1, <2>2
<1>11. ASSUME NEW p \in Procs, NEW u \in Users, CheckAccess(p, u) PROVE Goal
  BY <1>11 DEF CheckAccess
<1>12. ASSUME NEW p \in Procs, NEW u \in Users, Enqueue(p, u) PROVE Goal
  BY <1>12 DEF Enqueue, Rearm
<1>13. ASSUME NEW p \in Procs, Ack(p) PROVE Goal
  BY <1>13 DEF Ack, ReadyToAck, IsPending, DropPending
<1>14. ASSUME NEW p \in Procs, AckConflict(p) PROVE Goal
  BY <1>14 DEF AckConflict, EndSync, SyncAt, At
<1>15. ASSUME NEW p \in Procs, AckTimeout(p) PROVE Goal
  BY <1>15 DEF AckTimeout, ReadyToAck, EndSync, SyncAt, At
<1>16. ASSUME NEW id \in 1..MaxBatches, DeliverLateAck(id) PROVE Goal
  <2>0. id \in imported /\ imported' = imported /\ (pending.id = id => stateFile.id = id)
    BY <1>16 DEF DeliverLateAck
  <2>1. ASSUME NEW v \in Users PROVE Unbilled(v)' = Unbilled(v)
    <3>1. CASE IsPending(id)
      BY <1>16, <2>0, <3>1 DEF DeliverLateAck, IsPending, DropPending
    <3>2. CASE ~IsPending(id)
      BY <1>16, <2>0, <3>2 DEF DeliverLateAck
    <3> QED
      BY <3>1, <3>2
  <2>2. UNCHANGED <<counter, collected, consumed, lost>>
    BY <1>16 DEF DeliverLateAck
  <2>3. Outstanding' = Outstanding
    BY <2>1, <2>2
  <2> QED
    BY <2>2, <2>3
<1>17. ASSUME NEW p \in Procs, MarkAcked(p) PROVE Goal
  BY <1>17 DEF MarkAcked, EndSync, SyncAt, At
<1>18. ASSUME NEW p \in Procs, SyncFails(p) PROVE Goal
  BY <1>18 DEF SyncFails, EndSync, SyncAt, At
<1>19. CASE UNCHANGED vars
  BY <1>19 DEF vars
<1> QED
  BY <1>1, <1>2, <1>3, <1>4, <1>5, <1>6, <1>7, <1>8, <1>9, <1>10,
     <1>11, <1>12, <1>13, <1>14, <1>15, <1>16, <1>17, <1>18, <1>19
  DEF Next, SyncStep, AgentStep, TaskStep

(* The claim/import/acknowledge protocol implements the meter that bills   *)
(* every unit at most once and never takes a bill back.                    *)
THEOREM ImplementsMeter == Spec => MeterSpec
<1>1. Init => Meter!Init
  BY ConstantsAssumption
  DEF Init, Meter!Init, Meter!Zero, Outstanding, Unbilled, NoTraffic, NoBatch
<1> QED
  BY InvInit, InvStep, <1>1, MeterStep, PTL DEF Spec, MeterSpec, Meter!Spec
=============================================================================
