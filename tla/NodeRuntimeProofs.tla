--------------------------- MODULE NodeRuntimeProofs ---------------------------
(***************************************************************************)
(* A stop that is reported as SUCCEEDED is true, for any number of         *)
(* administrators, keys, failures, crashes and restarts, quick or not.     *)
(*                                                                         *)
(* The agent may answer a stop from its memory of completed keys, so the   *)
(* invariant has to say that nothing has started the unit since.  It does: *)
(* at most one command is active, the worker's own, and while that is a    *)
(* stop whose key the agent remembers, the unit is not running.            *)
(***************************************************************************)
EXTENDS NodeRuntime, TLAPS

Executing == {"claimed", "call", "recheck", "finish", "failed"}

Inv ==
    /\ \A j, k \in AllKeys : Active(j) /\ Active(k) => j = k
    /\ worker.at \in Executing => command[worker.key].status = "RUNNING"
    /\ \A k \in AllKeys, forced \in BOOLEAN :
          <<k, forced>> \in completed => command[k] # NoCommand
    /\ \A k \in AllKeys, forced \in BOOLEAN :
          <<k, forced>> \in completed /\ Active(k) /\ command[k].action = "STOP"
              => service # "active"
    /\ worker.at = "recheck" => command[worker.key].action = "START"
    /\ worker.at = "finish" /\ command[worker.key].action = "STOP" => service # "active"

-----------------------------------------------------------------------------
(* The resting states of a request and of the worker have their types.     *)
LEMMA RestTypes == Idle \in AdminStates /\ NoWork \in WorkerStates
BY DEF Idle, NoWork, AdminStates, WorkerStates, AllKeys, Actions, RuntimeStates

(* A command that exists may change its status.                            *)
LEMMA StatusType ==
    ASSUME TypeOK, NEW k \in AllKeys, command[k] # NoCommand,
           NEW status \in Statuses, SetStatus(k, status)
    PROVE  command' \in [AllKeys -> Commands]
BY DEF TypeOK, SetStatus, Commands, NoCommand

(* The rows, the agent and the processes start with their types.           *)
LEMMA TypeInit == Init => TypeOK
<1> SUFFICES ASSUME Init PROVE TypeOK
  OBVIOUS
<1>1. /\ serverActive \in BOOLEAN /\ retired \in BOOLEAN
      /\ overdue \in BOOLEAN
  BY Zenon DEF Init
<1>2. command \in [AllKeys -> Commands]
  BY DEF Init, Commands
<1> QED
  BY <1>1, <1>2, RestTypes DEF Init, TypeOK, UnitStates, RuntimeStates

(* Every step of every process preserves the types; a command that is      *)
(* executed exists by Inv.                                                 *)
LEMMA TypeStep == TypeOK /\ Inv /\ [Next]_vars => TypeOK'
<1> SUFFICES ASSUME TypeOK, Inv, [Next]_vars PROVE TypeOK'
  OBVIOUS
<1> USE RuntimeAssumption, RestTypes DEF TypeOK, dbVars, hostVars, countVars
<1>0. worker.at \in Executing => command[worker.key] # NoCommand
  BY DEF Inv, NoCommand
<1>1. ASSUME NEW a \in Admins, NEW k \in Keys, NEW act \in Actions, Request(a, k, act)
      PROVE  TypeOK'
  BY <1>1 DEF Request, Set, AdminStates, AllKeys
<1>2. ASSUME NEW a \in Admins, NEW op \in {"stop", "start", "delete"}, ReadServer(a, op)
      PROVE  TypeOK'
  BY <1>2 DEF ReadServer, Set, AdminStates, AllKeys, Actions
<1>3. ASSUME NEW a \in Admins, WritePolicy(a)
      PROVE  TypeOK'
  <2>1. serverActive' \in BOOLEAN
    <3>1. serverActive' = (admin[a].at \in {"enable", "enable+"})
      BY <1>3, Zenon DEF WritePolicy
    <3>2. serverActive' = TRUE \/ serverActive' = FALSE
      BY <3>1
    <3> QED
      BY <3>2, Zenon
  <2>2. admin' \in [Admins -> AdminStates]
    BY <1>3 DEF WritePolicy, AdminStates
  <2> QED
    BY <1>3, <2>1, <2>2 DEF WritePolicy
<1>4. ASSUME NEW a \in Admins, Continue(a)
      PROVE  admin' \in [Admins -> AdminStates]
  BY <1>4 DEF Continue, AdminStates
<1>5. ASSUME NEW a \in Admins, Replay(a)
      PROVE  TypeOK'
  BY <1>4, <1>5 DEF Replay
<1>6. ASSUME NEW a \in Admins, Check(a)
      PROVE  TypeOK'
  <2>1. admin' \in [Admins -> AdminStates]
    BY <1>4, <1>6 DEF Check, AdminStates
  <2> QED
    BY <1>6, <2>1 DEF Check
<1>7. ASSUME NEW a \in Admins, Create(a)
      PROVE  TypeOK'
  <2>1. command' \in [AllKeys -> Commands]
    BY <1>7 DEF Create, Commands, Statuses, AdminStates
  <2> QED
    BY <1>4, <1>7, <2>1 DEF Create
<1>8. ASSUME NEW a \in Admins, Retire(a)
      PROVE  TypeOK'
  <2>1. serverActive' \in BOOLEAN /\ retired' \in BOOLEAN
    BY <1>8, Zenon DEF Retire
  <2> QED
    BY <1>8, <2>1 DEF Retire
<1>9. ASSUME NEW a \in Admins, RequestLost(a)
      PROVE  TypeOK'
  BY <1>9 DEF RequestLost
<1>10. ASSUME NEW k \in AllKeys, ClaimCommand(k)
       PROVE  TypeOK'
  <2>1. command' \in [AllKeys -> Commands]
    BY <1>10, StatusType DEF ClaimCommand, NoCommand, Statuses
  <2>2. worker' \in WorkerStates
    BY <1>10 DEF ClaimCommand, WorkerStates
  <2>3. overdue' \in BOOLEAN
    BY <1>10, Zenon DEF ClaimCommand
  <2> QED
    BY <1>10, <2>1, <2>2, <2>3 DEF ClaimCommand
<1>11. CASE ReadNode
  BY <1>11 DEF ReadNode, WorkerStates
<1>12. CASE Call
  <2>1. worker' \in WorkerStates
    BY <1>12 DEF Call, AfterCall, WorkerStates, Parse, Target, Intent, UnitStates, RuntimeStates
  <2>2. service' \in UnitStates /\ completed' \subseteq AllKeys \X BOOLEAN
    BY <1>12 DEF Call, Control, Token, Target, WorkerStates, UnitStates
  <2> QED
    BY <1>12, <2>1, <2>2 DEF Call
<1>13. CASE CallFails
  <2>1. worker' \in WorkerStates
    BY <1>13 DEF CallFails, Goto, WorkerStates
  <2>2. service' \in UnitStates /\ completed' \subseteq AllKeys \X BOOLEAN
    BY <1>13 DEF CallFails, Control, Token, Target, WorkerStates, UnitStates
  <2> QED
    BY <1>13, <2>1, <2>2 DEF CallFails
<1>14. CASE Recheck
  BY <1>14 DEF Recheck, WorkerStates
<1>15. CASE Finish
  <2>1. command' \in [AllKeys -> Commands]
    BY <1>0, <1>15, StatusType DEF Finish, Executing, Statuses, WorkerStates
  <2>2. runtimeState' \in RuntimeStates
    BY <1>15 DEF Finish, WorkerStates
  <2>3. overdue' \in BOOLEAN
    BY <1>15, Zenon DEF Finish
  <2> QED
    BY <1>15, <2>1, <2>2, <2>3 DEF Finish
<1>16. CASE MarkFailed
  <2>1. command' \in [AllKeys -> Commands]
    BY <1>0, <1>16, StatusType DEF MarkFailed, Executing, Statuses, WorkerStates
  <2>2. overdue' \in BOOLEAN
    BY <1>16, Zenon DEF MarkFailed
  <2> QED
    BY <1>16, <2>1, <2>2 DEF MarkFailed
<1>17. CASE Probe
  BY <1>17 DEF Probe, Parse, UnitStates, RuntimeStates
<1>18. CASE ProbeWrite
  BY <1>18 DEF ProbeWrite, RuntimeStates
<1>19. CASE WorkerCrash
  BY <1>19 DEF WorkerCrash, WorkerStates, RuntimeStates
<1>20. CASE BecomesOverdue
  BY <1>20 DEF BecomesOverdue
<1>21. CASE WorkerStart
  <2>1. command' \in [AllKeys -> Commands]
    BY <1>21 DEF WorkerStart, Commands, Statuses, NoCommand
  <2>2. overdue' \in BOOLEAN
    BY <1>21, Zenon DEF WorkerStart
  <2> QED
    BY <1>21, <2>1, <2>2 DEF WorkerStart
<1>22. CASE ServiceFails
  BY <1>22 DEF ServiceFails, UnitStates
<1>23. CASE AgentForgets
  BY <1>23 DEF AgentForgets
<1>24. CASE UNCHANGED vars
  BY <1>24 DEF vars
<1> QED
  BY <1>1, <1>2, <1>3, <1>5, <1>6, <1>7, <1>8, <1>9, <1>10, <1>11, <1>12, <1>13, <1>14, <1>15,
     <1>16, <1>17, <1>18, <1>19, <1>20, <1>21, <1>22, <1>23, <1>24
  DEF Next, AdminStep, WorkerStep

(* Nothing has been asked of a fresh system.                               *)
LEMMA InvInit == Init => Inv
BY RuntimeAssumption DEF Init, Inv, Active, NoCommand, NoWork, Executing

(* Every step of every process preserves Inv.                              *)
LEMMA InvStep == TypeOK /\ Inv /\ [Next]_vars => Inv'
<1> SUFFICES ASSUME TypeOK, Inv, [Next]_vars PROVE Inv'
  OBVIOUS
<1> USE RuntimeAssumption
    DEF TypeOK, Inv, Active, Executing, AdminStates, WorkerStates, AllKeys, Commands, Actions,
        Statuses, NoCommand,
        dbVars, hostVars, countVars
<1>1. ASSUME NEW a \in Admins, NEW k \in Keys, NEW act \in Actions, Request(a, k, act)
      PROVE  Inv'
  BY <1>1 DEF Request, Set
<1>2. ASSUME NEW a \in Admins, NEW op \in {"stop", "start", "delete"}, ReadServer(a, op)
      PROVE  Inv'
  BY <1>2 DEF ReadServer, Set, Unused
<1>3. ASSUME NEW a \in Admins, WritePolicy(a)
      PROVE  Inv'
  BY <1>3 DEF WritePolicy
<1>4. ASSUME NEW a \in Admins, Replay(a)
      PROVE  Inv'
  BY <1>4 DEF Replay, Continue
<1>5. ASSUME NEW a \in Admins, Check(a)
      PROVE  Inv'
  BY <1>5 DEF Check, Continue
<1>6. ASSUME NEW a \in Admins, Create(a)
      PROVE  Inv'
  BY <1>6 DEF Create, Continue, SomeActive
<1>7. ASSUME NEW a \in Admins, Retire(a)
      PROVE  Inv'
  BY <1>7 DEF Retire
<1>8. ASSUME NEW a \in Admins, RequestLost(a)
      PROVE  Inv'
  BY <1>8 DEF RequestLost
<1>9. ASSUME NEW k \in AllKeys, ClaimCommand(k)
      PROVE  Inv'
  BY <1>9 DEF ClaimCommand, SetStatus, NoWork
<1>10. CASE ReadNode
  BY <1>10 DEF ReadNode
<1>11. CASE Call
  <2> DEFINE key == worker.key
  <2>1. key \in AllKeys /\ command[key].status = "RUNNING" /\ command' = command
    BY <1>11 DEF Call
  <2>2. PICK answer : worker' = [worker EXCEPT !.at = AfterCall, !.answer = answer]
    BY <1>11, Zenon DEF Call
  <2>3. worker'.key = key /\ worker'.at = AfterCall
    BY <2>2
  <2>4. command[key].action = "STOP" => service' # "active"
    BY <1>11, <2>1 DEF Call, Control, Intent, Token, Target
  <2>5. \A k \in AllKeys, forced \in BOOLEAN :
          <<k, forced>> \in completed' => <<k, forced>> \in completed \/ k = key
    BY <1>11 DEF Call, Control, Token
  <2>6. \A k \in AllKeys : Active(k) => k = key
    BY <2>1
  <2>7. worker'.at = "recheck" => command[key].action = "START"
    BY <2>3 DEF AfterCall
  <2>8. worker'.at \in {"recheck", "finish"}
    BY <2>3 DEF AfterCall
  <2> HIDE DEF key, TypeOK
  <2> QED
    BY <2>1, <2>3, <2>4, <2>5, <2>6, <2>7, <2>8
<1>12. CASE Recheck
  BY <1>12 DEF Recheck
<1>13. CASE Finish
  BY <1>13 DEF Finish, SetStatus, NoWork, Intent, Target, Parse
<1>14. CASE MarkFailed
  BY <1>14 DEF MarkFailed, SetStatus, NoWork
<1>15. CASE CallFails
  BY <1>15 DEF CallFails, Goto, Control, Intent, Token, Target
<1>16. CASE Probe
  BY <1>16 DEF Probe, Parse
<1>17. CASE ProbeWrite
  BY <1>17 DEF ProbeWrite
<1>18. CASE WorkerCrash
  BY <1>18 DEF WorkerCrash, NoWork
<1>19. CASE BecomesOverdue
  BY <1>19 DEF BecomesOverdue
<1>20. CASE WorkerStart
  BY <1>20 DEF WorkerStart, NoWork
<1>21. CASE ServiceFails
  BY <1>21 DEF ServiceFails
<1>22. CASE AgentForgets
  BY <1>22 DEF AgentForgets
<1>23. CASE UNCHANGED vars
  BY <1>23 DEF vars
<1> HIDE DEF TypeOK, Inv, AllKeys, Actions, AdminStates, WorkerStates, Commands
<1> QED
  BY <1>1, <1>2, <1>3, <1>4, <1>5, <1>6, <1>7, <1>8, <1>9, <1>10, <1>11, <1>12, <1>13, <1>14, <1>15, <1>16, <1>17, <1>18, <1>19, <1>20, <1>21, <1>22, <1>23
  DEF Next, AdminStep, WorkerStep

(* Rows, agent memory and process states have their types in every         *)
(* reachable state.                                                        *)
THEOREM TypeCorrect == Spec => []TypeOK
BY TypeInit, TypeStep, InvInit, InvStep, PTL DEF Spec

(* docs/adr/0004: "A command succeeds only after the agent observes the    *)
(* requested systemd state": a stop that processNext marks SUCCEEDED finds *)
(* the unit stopped.                                                       *)
THEOREM StopsAreReal == Spec => StopIsTrue
<1> DEFINE Stopped ==
      \A k \in AllKeys :
          command[k].action = "STOP" /\ command[k].status = "RUNNING"
                                     /\ command'[k].status = "SUCCEEDED"
              => service # "active"
<1>1. TypeOK /\ Inv /\ [Next]_vars => [Stopped]_vars
  <2> SUFFICES ASSUME TypeOK, Inv, Next, NEW k \in AllKeys,
                      command[k].action = "STOP", command[k].status = "RUNNING",
                      command'[k].status = "SUCCEEDED"
               PROVE  service # "active"
    OBVIOUS
  <2>1. CASE Finish
    BY <2>1 DEF Finish, SetStatus, Inv, Active, Executing, TypeOK
  <2>2. ASSUME NEW a \in Admins, Create(a)
        PROVE  FALSE
    BY <2>2 DEF Create, TypeOK
  <2>3. ASSUME NEW j \in AllKeys, ClaimCommand(j)
        PROVE  FALSE
    BY <2>3 DEF ClaimCommand, SetStatus, TypeOK
  <2>4. CASE MarkFailed
    BY <2>4 DEF MarkFailed, SetStatus, TypeOK
  <2>5. CASE WorkerStart
    BY <2>5 DEF WorkerStart, TypeOK
  <2>6. CASE UNCHANGED command
    BY <2>6
  <2> QED
    BY <2>1, <2>2, <2>3, <2>4, <2>5, <2>6
    DEF Next, AdminStep, WorkerStep, Request, ReadServer, WritePolicy, Replay, Check, Retire,
        RequestLost, ReadNode, Call, Recheck, CallFails, Probe, ProbeWrite, WorkerCrash,
        BecomesOverdue, ServiceFails, AgentForgets, dbVars
<1>2. Spec => [][Stopped]_vars
  BY <1>1, TypeInit, TypeStep, InvInit, InvStep, PTL DEF Spec
<1> QED
  BY <1>2 DEF StopIsTrue
=============================================================================
