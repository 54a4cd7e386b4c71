-------------------------- MODULE AccessRevocation --------------------------
(***************************************************************************)
(* Cutting a member off one endpoint when the entitlement is used up:      *)
(* the durable NodeAccessRevocation queue of QuotaEnforcementService and   *)
(* the provisioning half of UsageSyncService.syncNodeRecord, which puts    *)
(* users on the same endpoint.  Both run under withNodeLock, a promise     *)
(* chain that is private to a process.                                     *)
(*                                                                         *)
(* Workers run processDue (a worker's RecurringTask never overlaps with    *)
(* itself).  Syncers run full synchronisations: the workers, and the API   *)
(* process that serves POST /nodes/:id/sync.  The leaseToken of a task is  *)
(* fresh for every claim; since a worker handles a task once at a time and *)
(* a crash ends the handler, the claiming worker identifies it.  A lease   *)
(* that runs out and a backoff that ends are events of their own.          *)
(***************************************************************************)
EXTENDS Naturals

CONSTANTS
    Workers,     \* worker processes
    Syncers,     \* processes that synchronise the endpoint
    Nobody,      \* not a worker
    Users,
    MaxChanges,  \* bound: entitlement and endpoint changes
    MaxFailures  \* bound: worker crashes, failed calls and lapsed leases

ASSUME RevocationAssumption ==
    /\ Workers \subseteq Syncers
    /\ Nobody \notin Workers
    /\ MaxChanges \in Nat /\ MaxFailures \in Nat

VARIABLES
    allowed,   \* users getNodeAccess allows on this endpoint
    node,      \* the endpoint: "active", "disabled" or "retired"
    onNode,    \* users the endpoint serves
    online,    \* those with a live session on it
    task,      \* status of a user's NodeAccessRevocation row
    due,       \* nextAttemptAt has come
    owner,     \* leaseToken
    leased,    \* leaseUntil is in the future
    noticed,   \* users found restricted whose enqueue is under way
    handler,   \* handler[w][u]: progress of processDue in w with u's task
    syncing,   \* progress of a full sync
    snapshot,  \* the users a sync is going to provision
    unread,    \* the users whose access it has not resolved yet
    changes,
    failures,
    \* History
    cutOff,    \* users a worker cut off while restricted, not allowed since
    armed      \* users whose task was armed and not kicked since

taskVars == <<task, due, owner, leased>>
syncVars == <<syncing, snapshot, unread>>
histVars == <<cutOff, armed>>
vars == <<allowed, node, onNode, online, taskVars, noticed, handler, syncVars,
          changes, failures, histVars>>

Open == {"PENDING", "RUNNING"}
Done == {"SUCCEEDED", "CANCELED"}
Statuses == Open \cup Done \cup {"NONE"}

(* A handler holds the node lock of its worker from the access check on.   *)
InLock == {"allowed", "gone", "denied", "kicking", "kicked", "failed"}

(* Mutant: a revocation does not wait for the sync of its process.         *)
LockFreeOfHandlers(p) ==
    p \in Workers => \A u \in Users : handler[p][u] \notin InLock

LockFree(p) ==
    /\ syncing[p] = "no"
    /\ p \in Workers => \A u \in Users : handler[p][u] \notin InLock

-----------------------------------------------------------------------------
Init ==
    /\ allowed = Users /\ node = "active" /\ onNode = Users
    /\ online = {}
    /\ task = [u \in Users |-> "NONE"]
    /\ due = [u \in Users |-> FALSE]
    /\ owner = [u \in Users |-> Nobody]
    /\ leased = [u \in Users |-> FALSE]
    /\ noticed = {}
    /\ handler = [w \in Workers |-> [u \in Users |-> "no"]]
    /\ syncing = [p \in Syncers |-> "no"]
    /\ snapshot = [p \in Syncers |-> {}]
    /\ unread = [p \in Syncers |-> {}]
    /\ changes = 0 /\ failures = 0
    /\ cutOff = [w \in Workers |-> {}] /\ armed = {}

(* The quota runs out on some endpoint, the plan expires, ...              *)
Deplete(u) ==
    /\ u \in allowed /\ changes < MaxChanges
    /\ allowed' = allowed \ {u}
    /\ changes' = changes + 1
    /\ UNCHANGED <<node, onNode, online, taskVars, noticed, handler, syncVars,
                   failures, histVars>>

(* ... and a pack, a renewal or a credit restores access.                  *)
Restore(u) ==
    /\ u \notin allowed /\ changes < MaxChanges
    /\ allowed' = allowed \cup {u}
    /\ changes' = changes + 1
    /\ cutOff' = [w \in Workers |-> cutOff[w] \ {u}]
    /\ UNCHANGED <<node, onNode, online, taskVars, noticed, handler, syncVars,
                   failures, armed>>

(* An administrator disables, enables or retires the endpoint.             *)
SetNode(status) ==
    /\ changes < MaxChanges /\ node \notin {"retired", status}
    /\ node' = status
    /\ changes' = changes + 1
    /\ UNCHANGED <<allowed, onNode, online, taskVars, noticed, handler, syncVars,
                   failures, histVars>>

(* A member opens a session, or closes the last one.                       *)
Connect(u) ==
    /\ u \in onNode \ online
    /\ online' = online \cup {u}
    /\ UNCHANGED <<allowed, node, onNode, taskVars, noticed, handler, syncVars,
                   changes, failures, histVars>>

Leave(u) ==
    /\ u \in online
    /\ online' = online \ {u}
    /\ UNCHANGED <<allowed, node, onNode, taskVars, noticed, handler, syncVars,
                   changes, failures, histVars>>

-----------------------------------------------------------------------------
(* A traffic import, of this or another endpoint, or the presence scan     *)
(* finds a user restricted ...                                             *)
Notice(u) ==
    /\ u \notin allowed /\ u \notin noticed
    /\ noticed' = noticed \cup {u}
    /\ UNCHANGED <<allowed, node, onNode, online, taskVars, handler, syncVars,
                   changes, failures, histVars>>

(* ... and enqueues: a new or a finished task is armed, an open one is     *)
(* left alone.                                                             *)
Enqueue(u) ==
    /\ u \in noticed
    /\ noticed' = noticed \ {u}
    /\ IF task[u] \in Open
       THEN UNCHANGED <<taskVars, armed>>
       ELSE /\ task' = [task EXCEPT ![u] = "PENDING"]
            /\ due' = [due EXCEPT ![u] = TRUE]
            /\ owner' = [owner EXCEPT ![u] = Nobody]
            /\ leased' = [leased EXCEPT ![u] = FALSE]
            /\ armed' = armed \cup {u}
    /\ UNCHANGED <<allowed, node, onNode, online, handler, syncVars, changes, failures,
                   cutOff>>

(* The backoff of a failed attempt ends.                                   *)
BackoffEnds(u) ==
    /\ task[u] = "PENDING" /\ ~due[u]
    /\ due' = [due EXCEPT ![u] = TRUE]
    /\ UNCHANGED <<allowed, node, onNode, online, task, owner, leased, noticed, handler,
                   syncVars, changes, failures, histVars>>

(* 120 seconds pass.  The claiming worker may have died, or may be waiting *)
(* for the node lock or for the endpoint; the latter is counted.           *)
LeaseLapses(u) ==
    LET orphaned == handler[owner[u]][u] = "no" IN
    /\ task[u] = "RUNNING" /\ leased[u]
    /\ orphaned \/ failures < MaxFailures
    /\ failures' = IF orphaned THEN failures ELSE failures + 1
    /\ leased' = [leased EXCEPT ![u] = FALSE]
    /\ UNCHANGED <<allowed, node, onNode, online, task, due, owner, noticed, handler,
                   syncVars, changes, histVars>>

-----------------------------------------------------------------------------
(* Mutant: the leaseToken is not part of the conditional updates.          *)
OwnedByAnyone(w, u) == task[u] = "RUNNING"

(* processDue of worker w with the task of user u.                         *)
Owned(w, u) == task[u] = "RUNNING" /\ owner[u] = w

Goto(w, u, step) == handler' = [handler EXCEPT ![w][u] = step]

(* Mutant: a task whose lease has lapsed is not picked up again.           *)
ClaimableWhenPending(u) == task[u] = "PENDING" /\ due[u]

Claimable(u) ==
    \/ task[u] = "PENDING" /\ due[u]
    \/ task[u] = "RUNNING" /\ ~leased[u]

(* The compare-and-set claim.                                              *)
Claim(w, u) ==
    /\ handler[w][u] = "no" /\ Claimable(u)
    /\ task' = [task EXCEPT ![u] = "RUNNING"]
    /\ owner' = [owner EXCEPT ![u] = w]
    /\ leased' = [leased EXCEPT ![u] = TRUE]
    /\ Goto(w, u, "waiting")
    /\ UNCHANGED <<allowed, node, onNode, online, due, noticed, syncVars, changes,
                   failures, histVars>>

(* With the node lock: does the endpoint exist, and does the user have     *)
(* access to it now?                                                       *)
ResolveAccess(w, u) ==
    /\ handler[w][u] = "waiting" /\ LockFree(w)
    /\ Goto(w, u, CASE node = "retired" -> "gone"
                    [] node = "active" /\ u \in allowed -> "allowed"
                    [] OTHER -> "denied")
    /\ UNCHANGED <<allowed, node, onNode, online, taskVars, noticed, syncVars, changes,
                   failures, histVars>>

(* Every update of the task is conditional on still owning it.             *)
Finish(w, u, status) ==
    /\ IF Owned(w, u)
       THEN /\ task' = [task EXCEPT ![u] = status]
            /\ owner' = [owner EXCEPT ![u] = Nobody]
            /\ leased' = [leased EXCEPT ![u] = FALSE]
            /\ due' = [due EXCEPT ![u] = FALSE]
       ELSE UNCHANGED taskVars
    /\ Goto(w, u, "no")
    /\ UNCHANGED <<allowed, node, onNode, online, noticed, syncVars, changes>>

CancelTask(w, u) ==
    /\ handler[w][u] \in {"allowed", "gone"}
    /\ Finish(w, u, "CANCELED")
    /\ UNCHANGED <<failures, histVars>>

(* stillOwned, after the access check.                                     *)
ConfirmLease(w, u) ==
    /\ handler[w][u] = "denied"
    /\ Goto(w, u, IF Owned(w, u) /\ leased[u] THEN "kicking" ELSE "no")
    /\ UNCHANGED <<allowed, node, onNode, online, taskVars, noticed, syncVars, changes,
                   failures, histVars>>

(* adapters.kickUsers: the endpoint drops the user and its sessions.       *)
Drop(w, u) ==
    /\ onNode' = onNode \ {u} /\ online' = online \ {u}
    /\ cutOff' = [cutOff EXCEPT ![w] = IF u \in allowed THEN @ ELSE @ \cup {u}]
    /\ armed' = armed \ {u}

Kick(w, u) ==
    /\ handler[w][u] = "kicking"
    /\ Drop(w, u)
    /\ Goto(w, u, "kicked")
    /\ UNCHANGED <<allowed, node, taskVars, noticed, syncVars, changes, failures>>

(* The request fails, or it was carried out and the answer is lost.        *)
KickFails(w, u) ==
    /\ handler[w][u] = "kicking" /\ failures < MaxFailures
    /\ failures' = failures + 1
    /\ Drop(w, u) \/ UNCHANGED <<onNode, online, histVars>>
    /\ Goto(w, u, "failed")
    /\ UNCHANGED <<allowed, node, taskVars, noticed, syncVars, changes>>

MarkSucceeded(w, u) ==
    /\ handler[w][u] = "kicked"
    /\ Finish(w, u, "SUCCEEDED")
    /\ UNCHANGED <<failures, histVars>>

(* Mutant: a failed attempt parks the task in a status of its own.         *)
RetryParked(w, u) ==
    /\ handler[w][u] = "failed"
    /\ Finish(w, u, "FAILED")
    /\ UNCHANGED <<failures, histVars>>

(* A failed attempt waits for its backoff; attempts never run out.         *)
Retry(w, u) ==
    /\ handler[w][u] = "failed"
    /\ Finish(w, u, "PENDING")
    /\ UNCHANGED <<failures, histVars>>

HandlerStep(w, u) ==
    \/ Claim(w, u) \/ ResolveAccess(w, u) \/ CancelTask(w, u)
    \/ ConfirmLease(w, u) \/ Kick(w, u) \/ MarkSucceeded(w, u) \/ Retry(w, u)

-----------------------------------------------------------------------------
(* The provisioning half of a full sync, under the syncer's node lock.     *)
SyncStart(p) ==
    /\ node = "active" /\ LockFree(p)
    /\ syncing' = [syncing EXCEPT ![p] = "reading"]
    /\ unread' = [unread EXCEPT ![p] = Users]
    /\ snapshot' = [snapshot EXCEPT ![p] = {}]
    /\ UNCHANGED <<allowed, node, onNode, online, taskVars, noticed, handler, changes,
                   failures, histVars>>

(* Mutant: a user who was once cut off is left out of later snapshots.     *)
ReadAccessOfUnrevoked(p, u) ==
    /\ syncing[p] = "reading" /\ u \in unread[p]
    /\ unread' = [unread EXCEPT ![p] = @ \ {u}]
    /\ snapshot' = [snapshot EXCEPT ![p] =
                       IF u \in allowed /\ task[u] # "SUCCEEDED" THEN @ \cup {u} ELSE @]
    /\ UNCHANGED <<allowed, node, onNode, online, taskVars, noticed, handler, syncing,
                   changes, failures, histVars>>

(* getNodeProvisioningUsers resolves the accounts one after another.       *)
ReadAccess(p, u) ==
    /\ syncing[p] = "reading" /\ u \in unread[p]
    /\ unread' = [unread EXCEPT ![p] = @ \ {u}]
    /\ snapshot' = [snapshot EXCEPT ![p] = IF u \in allowed THEN @ \cup {u} ELSE @]
    /\ UNCHANGED <<allowed, node, onNode, online, taskVars, noticed, handler, syncing,
                   changes, failures, histVars>>

EndSync(p) ==
    /\ syncing' = [syncing EXCEPT ![p] = "no"]
    /\ snapshot' = [snapshot EXCEPT ![p] = {}]
    /\ unread' = [unread EXCEPT ![p] = {}]

(* PUT /users: the agent removes who is not in the list, then adds.        *)
Provision(p) ==
    /\ syncing[p] = "reading" /\ unread[p] = {}
    /\ onNode' = snapshot[p] /\ online' = online \cap onNode'
    /\ EndSync(p)
    /\ UNCHANGED <<allowed, node, taskVars, noticed, handler, changes, failures,
                   histVars>>

(* The call fails part of the way: some removals, or all of them and some  *)
(* additions, have happened.                                               *)
ProvisionFails(p) ==
    /\ syncing[p] = "reading" /\ failures < MaxFailures
    /\ failures' = failures + 1
    /\ \/ unread[p] # {} /\ onNode' = onNode
       \/ /\ unread[p] = {}
          /\ \/ \E gone \in SUBSET (onNode \ snapshot[p]) : onNode' = onNode \ gone
             \/ \E new \in SUBSET (snapshot[p] \ onNode) :
                   onNode' = (onNode \cap snapshot[p]) \cup new
    /\ online' = online \cap onNode'
    /\ EndSync(p)
    /\ UNCHANGED <<allowed, node, taskVars, noticed, handler, changes, histVars>>

SyncStep(p) == SyncStart(p) \/ Provision(p) \/ \E u \in Users : ReadAccess(p, u)

(* A worker dies and is started again: promises, locks and the enqueues it *)
(* had under way are gone.                                                 *)
WorkerCrash(w) ==
    /\ failures < MaxFailures
    /\ failures' = failures + 1
    /\ handler' = [handler EXCEPT ![w] = [u \in Users |-> "no"]]
    /\ EndSync(w)
    /\ noticed' \in SUBSET noticed
    /\ UNCHANGED <<allowed, node, onNode, online, taskVars, changes, histVars>>

Next ==
    \/ \E u \in Users :
        Deplete(u) \/ Restore(u) \/ Connect(u) \/ Leave(u) \/ Notice(u)
                   \/ Enqueue(u) \/ BackoffEnds(u) \/ LeaseLapses(u)
    \/ \E status \in {"active", "disabled", "retired"} : SetNode(status)
    \/ \E w \in Workers :
        \/ WorkerCrash(w)
        \/ \E u \in Users : HandlerStep(w, u) \/ KickFails(w, u)
    \/ \E p \in Syncers : SyncStep(p) \/ ProvisionFails(p)

Spec == Init /\ [][Next]_vars

(* The recurring tasks of a worker run again and again: collectPresence    *)
(* records who has a session on an active endpoint and checkOnlineUsers    *)
(* looks at whoever was recorded in the last three minutes, so a member    *)
(* who stays connected is noticed (one without a session need never be);   *)
(* processDue sees a task that is due, and the promise chain of            *)
(* withNodeLock is first come, first served, so a waiting handler gets its *)
(* turn.  A sync that has begun ends; none need begin.                     *)
Fairness ==
    /\ \A u \in Users :
        /\ WF_vars(u \in online /\ node = "active" /\ Notice(u))
        /\ WF_vars(Enqueue(u))
        /\ WF_vars(BackoffEnds(u))
        /\ WF_vars(LeaseLapses(u))
    /\ \A w \in Workers, u \in Users :
        WF_vars(HandlerStep(w, u)) /\ SF_vars(ResolveAccess(w, u))
    /\ \A p \in Syncers :
        WF_vars(Provision(p) \/ \E u \in Users : ReadAccess(p, u))

FairSpec == Spec /\ Fairness

-----------------------------------------------------------------------------
TypeOK ==
    /\ allowed \subseteq Users /\ noticed \subseteq Users
    /\ onNode \subseteq Users /\ online \subseteq onNode
    /\ node \in {"active", "disabled", "retired"}
    /\ task \in [Users -> Statuses]
    /\ due \in [Users -> BOOLEAN] /\ leased \in [Users -> BOOLEAN]
    /\ owner \in [Users -> Workers \cup {Nobody}]
    /\ handler \in [Workers -> [Users -> InLock \cup {"no", "waiting"}]]
    /\ syncing \in [Syncers -> {"no", "reading"}]
    /\ snapshot \in [Syncers -> SUBSET Users]
    /\ unread \in [Syncers -> SUBSET Users]
    /\ changes \in Nat /\ failures \in Nat
    /\ cutOff \in [Workers -> SUBSET Users] /\ armed \subseteq Users

(* docs/adr/0015: provisioning and revocation serialize per node "to       *)
(* prevent stale provision snapshots undoing revocation".  Once a          *)
(* restricted user has been cut off, no provisioning puts the user back    *)
(* before access is restored.                                              *)
NoStaleProvision == \A w \in Workers : cutOff[w] \cap onNode = {}

(* What the node lock does ensure with any number of processes: the list a *)
(* worker is about to provision never names a member whom the same worker  *)
(* has cut off and who has not got access back since, however long ago the *)
(* member's access was resolved.                                           *)
NoStaleSnapshot == \A w \in Workers : cutOff[w] \cap snapshot[w] = {}

(* A task that has SUCCEEDED was kicked after it was last armed: a handler *)
(* whose lease lapsed cannot complete the task of a later claim.           *)
SucceededMeansKicked == \A u \in Users : task[u] = "SUCCEEDED" => u \notin armed

(* "Failures retry indefinitely": whatever fails in between, and even if   *)
(* no provisioning sweep ever runs, a restricted user does not keep a      *)
(* session on an active endpoint for ever.  (A user without a session may  *)
(* well stay provisioned, when the enqueue of the import was lost: nothing *)
(* but a sweep looks at such a user.)                                      *)
Disconnected ==
    \A u \in Users :
        u \in online \ allowed /\ node = "active"
            ~> u \notin online \/ u \in allowed \/ node # "active"

(* A member whose access is restored while a kick is under way loses the   *)
(* connection, but with node synchronisation enabled, so that full sweeps  *)
(* keep starting, syncNodeRecord brings the member back.                   *)
Reconnected ==
    (\A w \in Workers : SF_vars(SyncStart(w))) =>
        \A u \in Users :
            u \in allowed \ onNode /\ node = "active"
                ~> u \in onNode \/ u \notin allowed \/ node # "active"
=============================================================================
