--------------------------- MODULE TrafficMetering ---------------------------
(***************************************************************************)
(* How the bytes a VLESS endpoint carries become billed usage: the node    *)
(* agent's claim/acknowledge protocol (ops/xray-agent/main.go), the        *)
(* control plane's UsageSyncService.syncNodeRecord that drives it, and the *)
(* idempotent import EntitlementService.applyTrafficBatch.                 *)
(*                                                                         *)
(* Several processes may synchronise one endpoint: the worker's recurring  *)
(* tasks and the administrator's POST /nodes/:id/sync, which runs in an    *)
(* API process.  The promise chains of withNodeLock and trafficImportTail  *)
(* serialise only the syncs of one process, so a process has one sync of   *)
(* the endpoint in progress and different processes interleave freely.     *)
(*                                                                         *)
(* Bytes are counted in units at the 1x machine rate: the multiplier and   *)
(* the order in which a member's grants are used up are left out.          *)
(***************************************************************************)
EXTENDS Naturals

CONSTANTS
    Procs,         \* processes that call syncNode on this endpoint
    Nobody,        \* not a process
    Users,         \* accounts provisioned on it
    InitialQuota,  \* units a member may spend before access is refused
    MaxTraffic,    \* bound: units a user sends through the endpoint
    MaxQuota,      \* bound: quota a user can be topped up to
    MaxBatches,    \* bound: traffic batches the agent creates
    MaxFailures    \* bound: crashes, lost answers and failed writes

ASSUME ConstantsAssumption ==
    /\ Nobody \notin Procs
    /\ InitialQuota \in Nat \ {0}
    /\ MaxTraffic \in Nat
    /\ MaxQuota \in Nat
    /\ MaxBatches \in Nat
    /\ MaxFailures \in Nat

VARIABLES
    \* The xray core and the node agent
    counter,      \* xray's per-user counters
    agent,        \* progress of the claim handler that holds a.mu
    waiter,       \* whose request that handler is to answer, if still waited for
    collected,    \* traffic read and reset but not persisted yet
    stateFile,    \* the batch in the state file
    pending,      \* a.pending
    nextId,       \* randomID(): the identity of the next batch
    \* The control plane's database
    imported,     \* UsageImportBatch rows (external ids)
    acked,        \* those with status ACKED
    consumed,     \* units billed to a user
    quota,        \* units granted to a user
    \* The revocation tasks of the endpoint
    revocations,  \* users with an open NodeAccessRevocation task
    verdict,      \* what the handler of that task has read or done
    \* The processes that synchronise, and calls still on the wire
    pc,           \* pc[p]: how far syncNodeRecord of p has got
    held,         \* the batch it works on
    todo,         \* impacted users it has not checked yet
    queue,        \* restricted users it has not queued yet
    lateAcks,     \* ack requests whose caller has given up
    failures,     \* failures so far
    \* History
    used,         \* units a user has sent
    lost,         \* units reset in xray and never persisted
    cutOff,       \* users kicked since they were last found restricted
    missed        \* users whose task ended on a reading older than the restriction

agentVars == <<agent, waiter, collected, stateFile, pending, nextId>>
taskVars == <<revocations, verdict, cutOff, missed>>
dbVars == <<imported, acked, consumed, quota, taskVars>>
syncVars == <<pc, held, todo, queue>>
vars == <<counter, agentVars, dbVars, syncVars, lateAcks, failures, used, lost>>

Traffic == [Users -> Nat]
NoTraffic == [u \in Users |-> 0]
NoBatch == [id |-> 0, traffic |-> NoTraffic]
Batch == [id : Nat, traffic : Traffic]

Phases == {"idle", "claiming", "claimed", "imported", "acked"}

Plus(f, g) == [u \in Users |-> f[u] + g[u]]
Active(b) == {u \in Users : b.traffic[u] > 0}
Restricted(u) == consumed[u] >= quota[u]

-----------------------------------------------------------------------------
Init ==
    /\ counter = NoTraffic
    /\ agent = "free" /\ waiter = Nobody /\ collected = NoTraffic
    /\ stateFile = NoBatch /\ pending = NoBatch /\ nextId = 1
    /\ imported = {} /\ acked = {}
    /\ consumed = NoTraffic
    /\ quota = [u \in Users |-> InitialQuota]
    /\ revocations = {} /\ verdict = [u \in Users |-> "none"]
    /\ pc = [p \in Procs |-> "idle"] /\ held = [p \in Procs |-> NoBatch]
    /\ todo = [p \in Procs |-> {}] /\ queue = [p \in Procs |-> {}]
    /\ lateAcks = {} /\ failures = 0
    /\ used = NoTraffic /\ lost = NoTraffic
    /\ cutOff = {} /\ missed = {}

(* Traffic passes through the endpoint.  A depleted user is cut off only   *)
(* once its revocation has been carried out, so nothing stops it here.     *)
Use(u) ==
    /\ used[u] < MaxTraffic
    /\ used' = [used EXCEPT ![u] = @ + 1]
    /\ counter' = [counter EXCEPT ![u] = @ + 1]
    /\ UNCHANGED <<agentVars, dbVars, syncVars, lateAcks, failures, lost>>

(* A renewal, a traffic pack or a credit raises a user's quota.  What was  *)
(* done about an earlier restriction is of no use for the next one.        *)
Credit(u) ==
    /\ quota[u] < MaxQuota
    /\ quota' = [quota EXCEPT ![u] = @ + 1]
    /\ LET over == {v \in {u} : consumed[u] <= quota[u]} IN
         cutOff' = cutOff \ over /\ missed' = missed \ over
    /\ UNCHANGED <<counter, agentVars, imported, acked, consumed, revocations,
                   verdict, syncVars, lateAcks, failures, used, lost>>

-----------------------------------------------------------------------------
(* The revocation worker, as far as the metering depends on it (leases and *)
(* provisioning are module AccessRevocation).  The handler of an open task *)
(* reads the member's access, acts on it and closes the task, each in a    *)
(* database call or a request of its own: an import may change the access  *)
(* in between, and enqueue leaves a task that is RUNNING as it is.         *)
HandlerOnly == UNCHANGED <<counter, agentVars, imported, acked, consumed, quota,
                           syncVars, lateAcks, used, lost>>

ReadPermission(u) ==
    /\ u \in revocations /\ verdict[u] = "none"
    /\ verdict' = [verdict EXCEPT ![u] = IF Restricted(u) THEN "denied" ELSE "allowed"]
    /\ UNCHANGED <<revocations, cutOff, missed, failures>> /\ HandlerOnly

(* adapters.kickUsers.                                                     *)
Kick(u) ==
    /\ verdict[u] = "denied"
    /\ verdict' = [verdict EXCEPT ![u] = "kicked"]
    /\ cutOff' = IF Restricted(u) THEN cutOff \cup {u} ELSE cutOff
    /\ UNCHANGED <<revocations, missed, failures>> /\ HandlerOnly

(* CANCELED after a reading that allowed access, SUCCEEDED after a kick.   *)
(* Neither update looks at the access again.                               *)
CloseTask(u) ==
    /\ verdict[u] \in {"allowed", "kicked"}
    /\ verdict' = [verdict EXCEPT ![u] = "none"]
    /\ revocations' = revocations \ {u}
    /\ missed' = IF Restricted(u) /\ u \notin cutOff THEN missed \cup {u} ELSE missed
    /\ UNCHANGED <<cutOff, failures>> /\ HandlerOnly

(* The kick or a write fails, or the handler is gone until its lease runs  *)
(* out: the task stays open and is taken up again.                         *)
TaskFails(u) ==
    /\ verdict[u] # "none" /\ failures < MaxFailures
    /\ failures' = failures + 1
    /\ verdict' = [verdict EXCEPT ![u] = "none"]
    /\ UNCHANGED <<revocations, cutOff, missed>> /\ HandlerOnly

TaskStep(u) == ReadPermission(u) \/ Kick(u) \/ CloseTask(u)

-----------------------------------------------------------------------------
(* The sync of p is in phase ph with batch b and no users to look at.      *)
At(f, p, v) == [q \in Procs |-> IF q = p THEN v ELSE f[q]]

SyncAt(p, ph, b) ==
    /\ pc' = At(pc, p, ph) /\ held' = At(held, p, b)
    /\ todo' = At(todo, p, {}) /\ queue' = At(queue, p, {})

(* The sync of p fails, which markSyncFailure records, or is complete.     *)
EndSync(p) == SyncAt(p, "idle", NoBatch)

(* The agent forgets its batch, file and memory together.                  *)
DropPending == stateFile' = NoBatch /\ pending' = NoBatch

(* Mutant: a claim is refused while a batch is pending.                    *)
ClaimPendingRefused(p) ==
    /\ pc[p] = "idle" /\ agent = "free" /\ pending # NoBatch
    /\ EndSync(p)
    /\ UNCHANGED <<counter, agentVars, dbVars, lateAcks, failures, used, lost>>

(* POST /traffic/claim.  The agent answers with the batch it holds ...     *)
ClaimPending(p) ==
    /\ pc[p] = "idle" /\ agent = "free" /\ pending # NoBatch
    /\ SyncAt(p, "claimed", pending)
    /\ UNCHANGED <<counter, agentVars, dbVars, lateAcks, failures, used, lost>>

(* ... and otherwise reads and resets xray's counters,                     *)
ClaimCollect(p) ==
    /\ pc[p] = "idle" /\ agent = "free" /\ pending = NoBatch
    /\ nextId <= MaxBatches
    /\ agent' = "collected" /\ waiter' = p
    /\ collected' = counter
    /\ counter' = NoTraffic
    /\ SyncAt(p, "claiming", NoBatch)
    /\ UNCHANGED <<stateFile, pending, nextId, dbVars, lateAcks, failures,
                   used, lost>>

(* writes the new batch to the state file (a temporary file and a rename), *)
ClaimPersist ==
    /\ agent = "collected"
    /\ stateFile' = [id |-> nextId, traffic |-> collected]
    /\ nextId' = nextId + 1
    /\ collected' = NoTraffic
    /\ agent' = "persisted"
    /\ UNCHANGED <<counter, waiter, pending, dbVars, syncVars, lateAcks, failures,
                   used, lost>>

(* and publishes and answers it, if the caller still waits.                *)
ClaimRespond ==
    /\ agent = "persisted"
    /\ pending' = stateFile
    /\ agent' = "free" /\ waiter' = Nobody
    /\ SyncAt(waiter, "claimed", stateFile)
    /\ UNCHANGED <<counter, collected, stateFile, nextId, dbVars, lateAcks,
                   failures, used, lost>>

(* The reset went through but the query's answer or the file did not: the  *)
(* handler answers with an error and the counters are gone.                *)
ClaimPersistFails ==
    /\ agent = "collected" /\ failures < MaxFailures
    /\ failures' = failures + 1
    /\ lost' = Plus(lost, collected)
    /\ collected' = NoTraffic
    /\ agent' = "free" /\ waiter' = Nobody
    /\ EndSync(waiter)
    /\ UNCHANGED <<counter, stateFile, pending, nextId, dbVars, lateAcks, used>>

(* Mutant: the agent comes up without loadPendingBatch.                    *)
AgentRestartEmpty ==
    /\ failures < MaxFailures
    /\ failures' = failures + 1
    /\ DropPending
    /\ lost' = Plus(lost, collected)
    /\ collected' = NoTraffic
    /\ agent' = "free" /\ waiter' = Nobody
    /\ EndSync(waiter)
    /\ UNCHANGED <<counter, nextId, dbVars, lateAcks, used>>

(* The agent dies and is restarted; loadPendingBatch reads the state file. *)
AgentRestart ==
    /\ failures < MaxFailures
    /\ failures' = failures + 1
    /\ pending' = stateFile
    /\ lost' = Plus(lost, collected)
    /\ collected' = NoTraffic
    /\ agent' = "free" /\ waiter' = Nobody
    /\ EndSync(waiter)
    /\ UNCHANGED <<counter, stateFile, nextId, dbVars, lateAcks, used>>

-----------------------------------------------------------------------------
(* Mutant: a replayed batch is billed again.                               *)
ImportTwice(p) ==
    /\ pc[p] = "claimed"
    /\ imported' = imported \cup {held[p].id}
    /\ consumed' = Plus(consumed, held[p].traffic)
    /\ pc' = [pc EXCEPT ![p] = "imported"]
    /\ todo' = [todo EXCEPT ![p] = Active(held[p])]
    /\ UNCHANGED <<held, queue, counter, agentVars, acked, quota, taskVars, lateAcks,
                   failures, used, lost>>

(* applyTrafficBatch: one serializable transaction.  A batch that has its  *)
(* row already is replayed: nothing is billed, its users are impacted.     *)
Import(p) ==
    LET b == held[p] IN
    /\ pc[p] = "claimed"
    /\ imported' = imported \cup {b.id}
    /\ consumed' = IF b.id \in imported THEN consumed
                                        ELSE Plus(consumed, b.traffic)
    /\ pc' = [pc EXCEPT ![p] = "imported"]
    /\ todo' = [todo EXCEPT ![p] = Active(b)]
    /\ UNCHANGED <<held, queue, counter, agentVars, acked, quota, taskVars, lateAcks,
                   failures, used, lost>>

(* Mutant: a user at exactly the quota is still let through.               *)
CheckAccessOffByOne(p, u) ==
    /\ pc[p] = "imported" /\ u \in todo[p]
    /\ todo' = [todo EXCEPT ![p] = @ \ {u}]
    /\ queue' = [queue EXCEPT ![p] = IF consumed[u] > quota[u] THEN @ \cup {u} ELSE @]
    /\ UNCHANGED <<pc, held, counter, agentVars, dbVars, lateAcks, failures, used, lost>>

(* getNodeAccess of one impacted user; the users are read one by one.      *)
CheckAccess(p, u) ==
    /\ pc[p] = "imported" /\ u \in todo[p]
    /\ todo' = [todo EXCEPT ![p] = @ \ {u}]
    /\ queue' = [queue EXCEPT ![p] = IF Restricted(u) THEN @ \cup {u} ELSE @]
    /\ UNCHANGED <<pc, held, counter, agentVars, dbVars, lateAcks, failures, used, lost>>

(* The row is created, or armed again after SUCCEEDED or CANCELED; an open *)
(* task, RUNNING too, is left as it is.                                    *)
Rearm(u) ==
    IF u \in revocations
    THEN UNCHANGED taskVars
    ELSE /\ revocations' = revocations \cup {u}
         /\ cutOff' = cutOff \ {u} /\ missed' = missed \ {u}
         /\ UNCHANGED verdict

(* enforcement.enqueue for a user found restricted.                        *)
Enqueue(p, u) ==
    /\ pc[p] = "imported" /\ todo[p] = {} /\ u \in queue[p]
    /\ Rearm(u)
    /\ queue' = [queue EXCEPT ![p] = @ \ {u}]
    /\ UNCHANGED <<pc, held, todo, counter, agentVars, imported, acked, consumed, quota,
                   lateAcks, failures, used, lost>>

(* Mutant: an acknowledgement drops whatever batch is pending.             *)
IsPendingAny(id) == pending # NoBatch

(* POST /traffic/ack, in the agent: the batch named must be the pending    *)
(* one.                                                                    *)
IsPending(id) == pending # NoBatch /\ pending.id = id

(* Mutant: the batch is acknowledged before the restrictions are queued.   *)
ReadyBeforeQueue(p) ==
    /\ pc[p] = "imported"
    /\ todo[p] = {}

ReadyToAck(p) ==
    /\ pc[p] = "imported"
    /\ todo[p] = {} /\ queue[p] = {}

Ack(p) ==
    LET id == held[p].id IN
    /\ ReadyToAck(p) /\ agent = "free"
    /\ IsPending(id) /\ DropPending
    /\ pc' = [pc EXCEPT ![p] = "acked"]
    /\ UNCHANGED <<held, todo, queue, counter, agent, waiter, collected, nextId, dbVars, lateAcks,
                   failures, used, lost>>

(* 409: another sync acknowledged the batch; this one fails.               *)
AckConflict(p) ==
    /\ ReadyToAck(p) /\ agent = "free"
    /\ ~IsPending(held[p].id)
    /\ EndSync(p)
    /\ UNCHANGED <<counter, agentVars, dbVars, lateAcks, failures, used, lost>>

(* The caller stops waiting for its acknowledgement, which may still       *)
(* reach the agent at any later time.                                      *)
AckTimeout(p) ==
    /\ ReadyToAck(p) /\ failures < MaxFailures
    /\ failures' = failures + 1
    /\ lateAcks' = lateAcks \cup {held[p].id}
    /\ EndSync(p)
    /\ UNCHANGED <<counter, agentVars, dbVars, used, lost>>

DeliverLateAck(id) ==
    /\ id \in lateAcks /\ agent = "free"
    /\ lateAcks' = lateAcks \ {id}
    /\ IF IsPending(id) THEN DropPending ELSE UNCHANGED <<stateFile, pending>>
    /\ UNCHANGED <<counter, agent, waiter, collected, nextId, dbVars, syncVars,
                   failures, used, lost>>

(* Mutant: the row is marked before the agent has answered.                *)
MarkAckedEarly(p) ==
    /\ pc[p] \in {"imported", "acked"}
    /\ acked' = acked \cup {held[p].id}
    /\ EndSync(p)
    /\ UNCHANGED <<counter, agentVars, imported, consumed, quota, taskVars,
                   lateAcks, failures, used, lost>>

(* Mutant: the sync ends in a state from which no tick starts over.        *)
MarkAckedStuck(p) ==
    /\ pc[p] = "acked"
    /\ acked' = acked \cup {held[p].id}
    /\ SyncAt(p, "done", NoBatch)
    /\ UNCHANGED <<counter, agentVars, imported, consumed, quota, taskVars,
                   lateAcks, failures, used, lost>>

(* store.acknowledgeTrafficBatch and markTrafficSyncSuccess end the        *)
(* metering part of the sync; provisioning is module AccessRevocation.     *)
MarkAcked(p) ==
    /\ pc[p] = "acked"
    /\ acked' = acked \cup {held[p].id}
    /\ EndSync(p)
    /\ UNCHANGED <<counter, agentVars, imported, consumed, quota, taskVars,
                   lateAcks, failures, used, lost>>

(* The process crashes, or a call or a write of its sync fails: the        *)
(* failure is recorded and the next tick starts over.                      *)
SyncFails(p) ==
    /\ pc[p] # "idle" /\ failures < MaxFailures
    /\ failures' = failures + 1
    /\ waiter' = IF waiter = p THEN Nobody ELSE waiter
    /\ EndSync(p)
    /\ UNCHANGED <<counter, agent, collected, stateFile, pending, nextId,
                   dbVars, lateAcks, used, lost>>

SyncStep(p) ==
    \/ ClaimPending(p) \/ ClaimCollect(p) \/ Import(p)
    \/ \E u \in Users : CheckAccess(p, u) \/ Enqueue(p, u)
    \/ Ack(p) \/ AckConflict(p) \/ MarkAcked(p)

AgentStep == ClaimPersist \/ ClaimRespond

Next ==
    \/ \E u \in Users : Use(u) \/ Credit(u) \/ TaskStep(u) \/ TaskFails(u)
    \/ \E p \in Procs : SyncStep(p) \/ AckTimeout(p) \/ SyncFails(p)
    \/ AgentStep \/ ClaimPersistFails \/ AgentRestart
    \/ \E id \in 1..MaxBatches : DeliverLateAck(id)

Spec == Init /\ [][Next]_vars

(* RecurringTask reschedules itself after every tick, whether the tick     *)
(* succeeded, failed or timed out, and the agent answers what it started.  *)
Fairness ==
    /\ \A p \in Procs : WF_vars(SyncStep(p))
    /\ WF_vars(AgentStep)

FairSpec == Spec /\ Fairness

-----------------------------------------------------------------------------
TypeOK ==
    /\ counter \in Traffic /\ used \in Traffic /\ lost \in Traffic
    /\ agent \in {"free", "collected", "persisted"}
    /\ waiter \in Procs \cup {Nobody}
    /\ collected \in Traffic
    /\ stateFile \in Batch /\ pending \in Batch
    /\ nextId \in Nat \ {0}
    /\ imported \subseteq Nat /\ acked \subseteq Nat
    /\ consumed \in Traffic /\ quota \in Traffic
    /\ revocations \subseteq Users
    /\ cutOff \subseteq Users /\ missed \subseteq Users
    /\ verdict \in [Users -> {"none", "allowed", "denied", "kicked"}]
    /\ pc \in [Procs -> Phases] /\ held \in [Procs -> Batch]
    /\ todo \in [Procs -> SUBSET Users] /\ queue \in [Procs -> SUBSET Users]
    /\ lateAcks \subseteq Nat
    /\ failures \in Nat

(* Units of a user in the agent's batch that no import has billed yet.     *)
Unbilled(u) == IF stateFile.id \in imported THEN 0 ELSE stateFile.traffic[u]

(* Every unit a user sent is in exactly one place: still counted by xray,  *)
(* in the agent's hands, billed once, or lost in the window between the    *)
(* counter reset and the state file of claimTraffic.  Whatever replays,    *)
(* repeated acknowledgements and restarts happen, applyTrafficBatch bills  *)
(* nothing twice and acknowledgeTraffic drops nothing unbilled.            *)
Conservation ==
    \A u \in Users :
        used[u] = counter[u] + collected[u] + Unbilled(u) + consumed[u] + lost[u]

(* "A failed control-plane apply must retry the same batch ID"             *)
(* (docs/PUBLIC_OPERATIONS.md): while a batch some process has claimed is  *)
(* not imported, the agent keeps exactly that batch, and would hand it out *)
(* again.                                                                  *)
RetrySameBatch ==
    \A p \in Procs :
        pc[p] = "claimed" /\ held[p].id \notin imported
            => stateFile = held[p]

(* The queue write precedes the acknowledgement: a user who has used up    *)
(* the quota has an open revocation task, or has been kicked for it, or is *)
(* still named by a batch that the agent will hand out again, so a         *)
(* failure, a restart or a second process cannot skip enqueue.  There is   *)
(* one way out, the users of missed: processDue reads that access is valid *)
(* (or kicks while it is), an import then uses up the quota, enqueue finds *)
(* the task still RUNNING and changes nothing, the batch is acknowledged,  *)
(* and the handler closes the task.                                        *)
RestrictedIsQueued ==
    \A u \in Users :
        Restricted(u) =>
            u \in revocations \cup cutOff \cup missed \cup Active(stateFile)

(* The row of a batch is marked ACKED only after the agent dropped it.     *)
AckedIsDropped == stateFile # NoBatch => stateFile.id \notin acked

(* Every batch the agent made durable is imported and dropped in the end,  *)
(* however often the sync failed in between.                               *)
BatchSettles ==
    \A id \in 1..MaxBatches :
        stateFile.id = id ~> id \in imported /\ stateFile.id # id

(* The agent's batch names u, and the sync of it has yet to look at u, or  *)
(* nothing has been done about u since the quota ran out.                  *)
Owed(u) ==
    /\ u \in Active(stateFile)
    /\ stateFile.id \in imported => u \notin cutOff \cup missed

(* Whoever is out of quota and named by the agent's batch has an open      *)
(* revocation task at some later time, or new quota, however often the     *)
(* sync of the batch fails.  This includes a user of missed, or one served *)
(* again after the kick, as soon as a new batch names them.                *)
RestrictionReachesQueue ==
    \A u \in Users :
        Restricted(u) /\ Owed(u) ~> u \in revocations \/ ~Restricted(u)

(* The abstract meter this protocol implements.                            *)
Outstanding == [u \in Users |-> counter[u] + collected[u] + Unbilled(u)]
Meter == INSTANCE ReliableMeter WITH outstanding <- Outstanding,
                                     billed <- consumed
MeterSpec == Meter!Spec
=============================================================================
