----------------------------- MODULE NodeRuntime -----------------------------
(***************************************************************************)
(* Starting and stopping the service of one endpoint: NodeRuntimeCommand   *)
(* rows written by administrators (NodeRuntimeCommandService.enqueue,      *)
(* NodeOpsService.stopServer, startServer and deleteServer), executed by   *)
(* the single sync worker (processNext) through the node agent             *)
(* (serviceControl), and the periodic projection of the observed state.    *)
(*                                                                         *)
(* Commands of different endpoints do not interact, so one endpoint of one *)
(* server is modelled.  A command is identified by its idempotency key.    *)
(* startServer's key carries the time of the call, and a client chooses a  *)
(* key for each request, so these come from the set Keys; the keys of      *)
(* stopServer and deleteServer are the same at every call.                 *)
(***************************************************************************)
EXTENDS Naturals

CONSTANTS
    Admins,        \* concurrent administrator requests
    Keys,          \* idempotency keys of clients and of startServer
    QuickRestart,  \* may the worker be back within two minutes of a claim?
    MaxFailures,   \* bound: failed calls, service failures, agent restarts
    MaxCrashes     \* bound: worker crashes

ASSUME RuntimeAssumption ==
    /\ {"server-stop", "server-delete"} \cap Keys = {}
    /\ QuickRestart \in BOOLEAN
    /\ MaxFailures \in Nat /\ MaxCrashes \in Nat

VARIABLES
    \* Database
    serverActive,  \* NodeServer.active
    retired,       \* retiredAt of the server and its endpoint
    runtimeState,  \* Node.runtimeState
    command,       \* the NodeRuntimeCommand rows
    overdue,       \* the RUNNING row's startedAt is two minutes old
    \* Agent and systemd
    service,       \* state of the unit
    completed,     \* a.completed: <<key, is it a retirement stop>>
    \* Processes
    admin,         \* progress of each administrator request
    worker,        \* progress of processNext
    probe,         \* the status refreshRuntimeStatuses has read
    failures,
    crashes

dbVars == <<serverActive, retired, runtimeState, command, overdue>>
hostVars == <<service, completed>>
countVars == <<failures, crashes>>
vars == <<dbVars, hostVars, admin, worker, probe, countVars>>

Actions == {"START", "STOP", "STATUS"}
Statuses == {"QUEUED", "RUNNING", "SUCCEEDED", "FAILED"}
AllKeys == Keys \cup {"server-stop", "server-delete"}
NoCommand == [action |-> "NONE", status |-> "NONE"]
Commands == [action : Actions, status : Statuses] \cup {NoCommand}

UnitStates == {"active", "inactive", "failed"}
RuntimeStates == {"UNKNOWN", "ACTIVE", "INACTIVE", "FAILED"}

(* parseState *)
Parse(unit) ==
    CASE unit = "active" -> "ACTIVE"
      [] unit = "inactive" -> "INACTIVE"
      [] unit = "failed" -> "FAILED"

Active(k) == command[k].status \in {"QUEUED", "RUNNING"}

(* Mutant: neither the check nor the unique index looks for one.           *)
NoneActive == FALSE

SomeActive == \E k \in AllKeys : Active(k)
SetStatus(k, status) == command' = [command EXCEPT ![k].status = status]

AdminStates ==
    [at : {"idle", "enqueue", "create", "disable", "disable+", "enable", "enable+", "retire"},
     op : {"none", "request", "stop", "start", "delete"},
     key : AllKeys, action : Actions]
WorkerStates ==
    [at : {"down", "idle", "claimed", "call", "recheck", "finish", "failed"},
     key : AllKeys, forced : BOOLEAN, answer : RuntimeStates]

Idle == [at |-> "idle", op |-> "none", key |-> "server-stop", action |-> "STATUS"]
NoWork == [at |-> "idle", key |-> "server-stop", forced |-> FALSE, answer |-> "UNKNOWN"]

-----------------------------------------------------------------------------
Init ==
    /\ serverActive = TRUE /\ retired = FALSE /\ runtimeState = "UNKNOWN"
    /\ command = [k \in AllKeys |-> NoCommand] /\ overdue = FALSE
    /\ service = "active" /\ completed = {}
    /\ admin = [a \in Admins |-> Idle]
    /\ worker = NoWork /\ probe = "UNKNOWN"
    /\ failures = 0 /\ crashes = 0

-----------------------------------------------------------------------------
(* Administrators.                                                         *)
Set(a, op, at, key, action) ==
    admin' = [admin EXCEPT ![a] = [at |-> at, op |-> op, key |-> key, action |-> action]]

Unused(k) == command[k] = NoCommand /\ \A a \in Admins : admin[a].key # k

(* POST /nodes/:id/runtime-commands; a client may repeat a key.            *)
Request(a, key, action) ==
    /\ admin[a].at = "idle"
    /\ Set(a, "request", "enqueue", key, action)
    /\ UNCHANGED <<dbVars, hostVars, worker, probe, countVars>>

(* stopServer, startServer and deleteServer first read the server and the  *)
(* runtimeState of its endpoints, ...                                      *)
ReadServer(a, op) ==
    /\ admin[a].at = "idle" /\ ~retired
    /\ \/ /\ op = "stop"
          /\ Set(a, op, IF runtimeState = "INACTIVE" THEN "disable" ELSE "disable+",
                 "server-stop", "STOP")
       \/ /\ op = "delete"
          /\ Set(a, op, IF runtimeState = "INACTIVE" THEN "retire" ELSE "enqueue",
                 "server-delete", "STOP")
       \/ /\ op = "start"
          /\ \E k \in Keys :
                /\ Unused(k)
                /\ Set(a, op, IF runtimeState = "ACTIVE" THEN "enable" ELSE "enable+",
                       k, "START")
    /\ UNCHANGED <<dbVars, hostVars, worker, probe, countVars>>

(* ... and stop and start then write the access policy.  A "+" marks an    *)
(* endpoint whose state calls for a command.                               *)
WritePolicy(a) ==
    LET at == admin[a].at IN
    /\ at \in {"disable", "disable+", "enable", "enable+"}
    /\ serverActive' = (at \in {"enable", "enable+"})
    /\ admin' = [admin EXCEPT ![a] =
                    IF at \in {"disable+", "enable+"} THEN [@ EXCEPT !.at = "enqueue"]
                                                      ELSE Idle]
    /\ UNCHANGED <<retired, runtimeState, command, overdue, hostVars, worker,
                   probe, countVars>>

(* queueServerStops and queueServerStarts ignore how enqueue ended.        *)
Continue(a) ==
    admin' = [admin EXCEPT ![a] =
                 IF @.op = "delete" THEN [@ EXCEPT !.at = "retire"] ELSE Idle]

(* The command with this key exists: it is the answer, if it is the same   *)
(* command.                                                                *)
Replay(a) ==
    LET req == admin[a] IN
    /\ req.at \in {"enqueue", "create"} /\ command[req.key] # NoCommand
    /\ Continue(a)
    /\ UNCHANGED <<dbVars, hostVars, worker, probe, countVars>>

(* The checks of enqueue: the transaction is read committed, so what they  *)
(* saw may have changed when the row is created.                           *)
Accepts(action) ==
    /\ ~retired
    /\ action = "START" => serverActive
    /\ ~SomeActive

Check(a) ==
    /\ admin[a].at = "enqueue" /\ command[admin[a].key] = NoCommand
    /\ IF Accepts(admin[a].action)
       THEN admin' = [admin EXCEPT ![a].at = "create"]
       ELSE Continue(a)
    /\ UNCHANGED <<dbVars, hostVars, worker, probe, countVars>>

(* The unique index NodeRuntimeCommand_nodeId_active_key decides between   *)
(* two concurrent creations.                                               *)
Create(a) ==
    LET req == admin[a] IN
    /\ req.at = "create" /\ command[req.key] = NoCommand
    /\ IF SomeActive
       THEN UNCHANGED command
       ELSE command' = [command EXCEPT ![req.key] =
                           [action |-> req.action, status |-> "QUEUED"]]
    /\ Continue(a)
    /\ UNCHANGED <<serverActive, retired, runtimeState, overdue, hostVars, worker,
                   probe, countVars>>

Retire(a) ==
    /\ admin[a].at = "retire"
    /\ retired' = TRUE /\ serverActive' = FALSE
    /\ admin' = [admin EXCEPT ![a] = Idle]
    /\ UNCHANGED <<runtimeState, command, overdue, hostVars, worker, probe,
                   countVars>>

(* The API process dies between two steps of a request.                    *)
RequestLost(a) ==
    /\ admin[a] # Idle /\ failures < MaxFailures
    /\ failures' = failures + 1
    /\ admin' = [admin EXCEPT ![a] = Idle]
    /\ UNCHANGED <<dbVars, hostVars, worker, probe, crashes>>

-----------------------------------------------------------------------------
(* The worker: processNext.                                                *)
Goto(at) == worker' = [worker EXCEPT !.at = at]

ClaimCommand(k) ==
    /\ worker.at = "idle" /\ command[k].status = "QUEUED"
    /\ SetStatus(k, "RUNNING") /\ overdue' = FALSE
    /\ worker' = [NoWork EXCEPT !.at = "claimed", !.key = k]
    /\ UNCHANGED <<serverActive, retired, runtimeState, hostVars, admin, probe,
                   countVars>>

(* getNodeForRuntimeCommand: a retired endpoint is stopped, whatever the   *)
(* command says.                                                           *)
ReadNode ==
    /\ worker.at = "claimed"
    /\ worker' = [worker EXCEPT !.at = "call", !.forced = retired]
    /\ UNCHANGED <<dbVars, hostVars, admin, probe, countVars>>

Intent == IF worker.forced THEN "STOP" ELSE command[worker.key].action
Token == <<worker.key, worker.forced>>
Target(action) == IF action = "START" THEN "active" ELSE "inactive"

(* serviceControl in the agent, under controlMu: a key it has completed is *)
(* answered from memory, any other runs systemctl and waits for the state. *)
Control(action) ==
    /\ service' = IF Token \in completed THEN service ELSE Target(action)
    /\ completed' = completed \cup {Token}

AfterCall ==
    IF ~worker.forced /\ command[worker.key].action = "START" THEN "recheck" ELSE "finish"

Call ==
    /\ worker.at = "call"
    /\ IF Intent = "STATUS"
       THEN /\ worker' = [worker EXCEPT !.at = AfterCall, !.answer = Parse(service)]
            /\ UNCHANGED hostVars
       ELSE /\ worker' = [worker EXCEPT !.at = AfterCall, !.answer = Parse(Target(Intent))]
            /\ Control(Intent)
    /\ UNCHANGED <<dbVars, admin, probe, countVars>>

(* The call times out or systemctl fails; it may have had its effect, and  *)
(* only the answer may have been lost.                                     *)
CallFails ==
    /\ worker.at = "call" /\ failures < MaxFailures
    /\ failures' = failures + 1
    /\ Goto("failed")
    /\ \/ UNCHANGED hostVars
       \/ Intent # "STATUS" /\ Control(Intent)
       \/ Intent = "START" /\ service' = "failed" /\ UNCHANGED completed
    /\ UNCHANGED <<dbVars, admin, probe, crashes>>

(* Mutant: the endpoint's retirement is not read again after a start.      *)
RecheckSkipped ==
    /\ worker.at = "recheck"
    /\ Goto("finish")
    /\ UNCHANGED <<dbVars, hostVars, admin, probe, countVars>>

(* After a start: has the endpoint been retired meanwhile?                 *)
Recheck ==
    /\ worker.at = "recheck"
    /\ worker' = IF retired THEN [worker EXCEPT !.at = "call", !.forced = TRUE]
                            ELSE [worker EXCEPT !.at = "finish"]
    /\ UNCHANGED <<dbVars, hostVars, admin, probe, countVars>>

(* The state must be the one asked for; then node and command are written. *)
Finish ==
    /\ worker.at = "finish"
    /\ IF Intent # "STATUS" /\ worker.answer # Parse(Target(Intent))
       THEN SetStatus(worker.key, "FAILED") /\ UNCHANGED runtimeState
       ELSE SetStatus(worker.key, "SUCCEEDED") /\ runtimeState' = worker.answer
    /\ worker' = NoWork /\ overdue' = FALSE
    /\ UNCHANGED <<serverActive, retired, hostVars, admin, probe, countVars>>

(* Mutant: the command is left as it is when its attempt fails.            *)
MarkFailedForgotten ==
    /\ worker.at = "failed"
    /\ worker' = NoWork
    /\ UNCHANGED <<dbVars, hostVars, admin, probe, countVars>>

MarkFailed ==
    /\ worker.at = "failed"
    /\ SetStatus(worker.key, "FAILED")
    /\ worker' = NoWork /\ overdue' = FALSE
    /\ UNCHANGED <<serverActive, retired, runtimeState, hostVars, admin, probe,
                   countVars>>

WorkerStep ==
    \/ \E k \in AllKeys : ClaimCommand(k)
    \/ ReadNode \/ Call \/ Recheck \/ Finish \/ MarkFailed

(* refreshRuntimeStatuses, a task of its own: reads the agent, then writes *)
(* what it read over whatever the row holds by then.                       *)
Probe ==
    /\ worker.at # "down" /\ ~retired /\ probe = "UNKNOWN"
    /\ probe' = Parse(service)
    /\ UNCHANGED <<dbVars, hostVars, admin, worker, countVars>>

(* Mutant: an answer is kept once a state is known.                        *)
ProbeWriteOnce ==
    /\ probe # "UNKNOWN"
    /\ runtimeState' = IF runtimeState = "UNKNOWN" THEN probe ELSE runtimeState
    /\ probe' = "UNKNOWN"
    /\ UNCHANGED <<serverActive, retired, command, overdue, hostVars, admin, worker,
                   countVars>>

ProbeWrite ==
    /\ probe # "UNKNOWN"
    /\ runtimeState' = probe
    /\ probe' = "UNKNOWN"
    /\ UNCHANGED <<serverActive, retired, command, overdue, hostVars, admin, worker,
                   countVars>>

(* The worker dies: what it was doing is forgotten ...                     *)
WorkerCrash ==
    /\ worker.at # "down" /\ crashes < MaxCrashes
    /\ crashes' = crashes + 1
    /\ worker' = [NoWork EXCEPT !.at = "down"]
    /\ probe' = "UNKNOWN"
    /\ UNCHANGED <<dbVars, hostVars, admin, failures>>

(* ... two minutes go by ...                                               *)
BecomesOverdue ==
    /\ ~overdue /\ \E k \in AllKeys : command[k].status = "RUNNING"
    /\ overdue' = TRUE
    /\ UNCHANGED <<serverActive, retired, runtimeState, command, hostVars, admin,
                   worker, probe, countVars>>

(* Mutant: interrupted commands are given a status nobody looks for.       *)
WorkerStartAbandons ==
    /\ worker.at = "down"
    /\ QuickRestart \/ overdue \/ \A k \in AllKeys : command[k].status # "RUNNING"
    /\ worker' = NoWork
    /\ command' = [k \in AllKeys |->
                      IF command[k].status = "RUNNING" /\ overdue
                      THEN [command[k] EXCEPT !.status = "ABANDONED"] ELSE command[k]]
    /\ overdue' = FALSE
    /\ UNCHANGED <<serverActive, retired, runtimeState, hostVars, admin, probe,
                   countVars>>

(* ... and on its next start, and only then, recoverAbandonedCommands      *)
(* queues the commands that have been running for two minutes.             *)
WorkerStart ==
    /\ worker.at = "down"
    /\ QuickRestart \/ overdue \/ \A k \in AllKeys : command[k].status # "RUNNING"
    /\ worker' = NoWork
    /\ command' = [k \in AllKeys |->
                      IF command[k].status = "RUNNING" /\ overdue
                      THEN [command[k] EXCEPT !.status = "QUEUED"] ELSE command[k]]
    /\ overdue' = FALSE
    /\ UNCHANGED <<serverActive, retired, runtimeState, hostVars, admin, probe,
                   countVars>>

(* The service dies on its own.                                            *)
ServiceFails ==
    /\ service = "active" /\ failures < MaxFailures
    /\ failures' = failures + 1
    /\ service' = "failed"
    /\ UNCHANGED <<dbVars, completed, admin, worker, probe, crashes>>

(* The agent restarts, or its memory of completed keys reaches the limit   *)
(* and is cleared.                                                         *)
AgentForgets ==
    /\ completed # {} /\ failures < MaxFailures
    /\ failures' = failures + 1
    /\ completed' = {}
    /\ UNCHANGED <<dbVars, service, admin, worker, probe, crashes>>

AdminStep(a) ==
    WritePolicy(a) \/ Replay(a) \/ Check(a) \/ Create(a) \/ Retire(a)

Next ==
    \/ \E a \in Admins :
        \/ \E k \in Keys, action \in Actions : Request(a, k, action)
        \/ \E op \in {"stop", "start", "delete"} : ReadServer(a, op)
        \/ AdminStep(a) \/ RequestLost(a)
    \/ WorkerStep \/ CallFails \/ Probe \/ ProbeWrite
    \/ WorkerCrash \/ BecomesOverdue \/ WorkerStart
    \/ ServiceFails \/ AgentForgets

Spec == Init /\ [][Next]_vars

(* The worker polls for commands and refreshes the state for as long as it *)
(* runs, its supervisor restarts it, and a request that has begun goes on. *)
Fairness ==
    /\ WF_vars(WorkerStep) /\ WF_vars(WorkerStart) /\ WF_vars(BecomesOverdue)
    /\ WF_vars(Probe) /\ WF_vars(ProbeWrite)
    /\ \A a \in Admins : WF_vars(AdminStep(a))

FairSpec == Spec /\ Fairness

-----------------------------------------------------------------------------
TypeOK ==
    /\ serverActive \in BOOLEAN /\ retired \in BOOLEAN /\ overdue \in BOOLEAN
    /\ runtimeState \in RuntimeStates /\ probe \in RuntimeStates
    /\ command \in [AllKeys -> Commands]
    /\ service \in UnitStates
    /\ completed \subseteq AllKeys \X BOOLEAN
    /\ admin \in [Admins -> AdminStates] /\ worker \in WorkerStates
    /\ failures \in Nat /\ crashes \in Nat

(* docs/adr/0004: "A command succeeds only after the agent observes the    *)
(* requested systemd state."  When processNext writes SUCCEEDED for a stop *)
(* the unit is not running, even if the answer is the agent's memory of an *)
(* attempt that a crash of the worker interrupted.                         *)
StopIsTrue ==
    [][\A k \in AllKeys :
          command[k].action = "STOP" /\ command[k].status = "RUNNING"
                                     /\ command'[k].status = "SUCCEEDED"
              => service # "active"]_vars

(* A start that overlaps with the retirement of the endpoint, up to the    *)
(* second look at retiredAt, is undone, or its command fails.              *)
RetiredStartUndone ==
    retired /\ worker.at \in {"claimed", "recheck"}
        ~> service # "active" \/ worker.at = "failed"

(* Every accepted command is executed to an end, also if the worker that   *)
(* claimed it dies (docs/adr/0004: "Interrupted worker commands are        *)
(* recovered").                                                            *)
CommandSettles ==
    \A k \in AllKeys : Active(k) ~> command[k].status \in {"SUCCEEDED", "FAILED"}

(* Whatever stale answers are written over newer ones, the projection      *)
(* Node.runtimeState keeps coming back to the state of the unit.           *)
ProjectionConverges == []<>(retired \/ runtimeState = Parse(service))

(* A server that an administrator stops or deletes does not go on serving, *)
(* unless it is started again: docs/DOMAIN_MODEL.md says that a deletion's *)
(* "durable stop commands disconnect any running services", and the        *)
(* confirmation of stopServer (apps/web/src/app/admin/nodes/page.tsx) that *)
(* current connections will be disconnected.                               *)
ServerStops == ~serverActive ~> serverActive \/ service # "active"
=============================================================================
