-------------------------- MODULE AgentRolloutProofs --------------------------
(***************************************************************************)
(* For any fleet, any number of rollouts and failures: one job is in       *)
(* flight, the canary goes first, and the outcomes on record are true.     *)
(* The argument is about what the service and a machine know of each       *)
(* other.  A job the updater has in its journal is in flight, or has the   *)
(* outcome that the journal shows (JournalInv); so has a job whose outcome *)
(* is reported by a request still on the wire (LateInv).  What the journal *)
(* shows is in turn what is linked and runs on the machine (MachineInv),   *)
(* and what a rollback returns to is what was there at the claim (BaseInv).*)
(***************************************************************************)
EXTENDS AgentRollout, TLAPS

(* A rollout that was not created has no jobs.                             *)
NoneInv == \A r \in Rollouts : rollout[r] = "NONE" => \A i \in Installations : job[r][i] = "NONE"

OneInFlight ==
    \A q, r \in Rollouts, i, j \in Installations :
        job[q][i] \in InFlight /\ job[r][j] \in InFlight => q = r /\ i = j

(* The updater is between two writes only while its journal says so.       *)
AtInv ==
    \A i \in Installations :
        /\ at[i] \in {"switched", "restarted", "recorded"} => Phase(i) = "INSTALLING"
        /\ at[i] \in {"relink", "relinked", "returned", "restored"} => Phase(i) = "ROLLING_BACK"

JournalOK(i) ==
    journal[i] # Empty =>
        /\ signed[journal[i].job]
        /\ \/ job[journal[i].job][i] \in InFlight
           \/ job[journal[i].job][i] \in Terminal /\ job[journal[i].job][i] = Phase(i)

MachineOK(i) ==
    /\ journal[i] = Empty => running[i] = link[i]
    /\ Phase(i) \in {"DOWNLOADING", "VERIFYING", "FAILED", "ROLLED_BACK"}
          \/ at[i] \in {"returned", "restored"}
        => link[i] = journal[i].old /\ running[i] = journal[i].old
    /\ Phase(i) \in {"LOCAL_HEALTHY", "CHECKING", "SUCCEEDED"} \/ at[i] = "recorded"
        => link[i] = Candidate(i) /\ running[i] = Candidate(i)
    /\ at[i] = "relinked" => link[i] = journal[i].old

BaseOK(i) ==
    \A r \in Rollouts : job[r][i] \in InFlight =>
        base[i] = IF journal[i] # Empty /\ journal[i].job = r THEN journal[i].old ELSE link[i]

(* What the journal shows and what the service will make of a report       *)
(* agree: an outcome is reported only if it is on record already, or is    *)
(* the one the journal shows, or is about a job the updater refused.       *)
Honest(m) ==
    m.status \in Terminal /\ job[m.job][m.by] \in InFlight =>
        \/ ~signed[m.job] /\ m.status = "FAILED"
        \/ journal[m.by] # Empty /\ journal[m.by].job = m.job /\ Phase(m.by) = m.status

LateOK(m) == job[m.job][m.by] \in InFlight \cup Terminal /\ Honest(m)

JournalInv == \A i \in Installations : JournalOK(i)
MachineInv == \A i \in Installations : MachineOK(i)
BaseInv == \A i \in Installations : BaseOK(i)
LateInv == \A m \in late : LateOK(m)

Inv ==
    /\ TypeOK /\ NoneInv /\ OneInFlight /\ AtInv /\ JournalInv
    /\ LateInv /\ MachineInv /\ BaseInv

-----------------------------------------------------------------------------
JobStates == {"NONE", "QUEUED"} \cup InFlight \cup Terminal

(* What an accepted report m does to the jobs.                             *)
Reported(m) ==
    /\ m \in Messages
    /\ rollout' \in [Rollouts -> RolloutStates]
    /\ \A r \in Rollouts : rollout'[r] = "NONE" => rollout[r] = "NONE"
    /\ job' \in [Rollouts -> [Installations -> JobStates]]
    /\ job[m.job][m.by] \in InFlight \cup Terminal
    /\ job[m.job][m.by] \in Terminal => job'[m.job][m.by] = job[m.job][m.by]
    /\ job[m.job][m.by] \in InFlight => job'[m.job][m.by] = m.status
    /\ \A r \in Rollouts, i \in Installations :
        \/ job'[r][i] = job[r][i]
        \/ job[r][i] = "QUEUED" /\ job'[r][i] = "CANCELED"
        \/ r = m.job /\ i = m.by

(* A report an updater writes is a message.                                *)
LEMMA MessageType ==
    ASSUME NEW r \in Rollouts, NEW i \in Installations, NEW status \in InFlight \cup Terminal
    PROVE  Message(r, i, status) \in Messages
<1>1. Match(r, i) \in BOOLEAN
  BY Zenon DEF Match
<1> QED
  BY <1>1 DEF Message, Messages

(* A journal that shows a phase is a journal.                              *)
LEMMA JournalType ==
    ASSUME TypeOK, NEW i \in Installations, Phase(i) \in Phases
    PROVE  /\ journal[i] # Empty /\ journal[i] \in Journals
           /\ journal[i].job \in Rollouts /\ journal[i].old \in Binaries
           /\ Candidate(i) \in Binaries
BY DEF TypeOK, Phase, Phases, Empty, Journals, Candidate

(* What writing a phase to the journal leaves alone.                       *)
LEMMA SetPhaseEffect ==
    ASSUME TypeOK, NEW i \in Installations, NEW phase \in Phases, Phase(i) \in Phases,
           SetPhase(i, phase)
    PROVE  /\ journal' \in [Installations -> Journals \cup {Empty}]
           /\ journal'[i] # Empty /\ journal'[i].phase = phase
           /\ journal'[i].job = journal[i].job /\ journal'[i].old = journal[i].old
           /\ \A j \in Installations : j # i => journal'[j] = journal[j]
<1>1. journal[i] \in Journals
  BY JournalType
<1>2. [journal[i] EXCEPT !.phase = phase] \in Journals
  BY <1>1 DEF Journals
<1>3. journal' = [journal EXCEPT ![i] = [journal[i] EXCEPT !.phase = phase]]
  BY DEF SetPhase
<1>4. /\ journal \in [Installations -> Journals \cup {Empty}]
      /\ journal'[i] = [journal[i] EXCEPT !.phase = phase]
      /\ \A j \in Installations : j # i => journal'[j] = journal[j]
  BY <1>3 DEF TypeOK
<1>5. Empty \notin Journals
  BY DEF Empty, Journals, Phases
<1>6. /\ journal'[i].phase = phase
      /\ journal'[i].job = journal[i].job /\ journal'[i].old = journal[i].old
  BY <1>1, <1>4 DEF Journals
<1> QED
  BY <1>2, <1>3, <1>4, <1>5, <1>6

(* Accepts and Apply together have the effect Reported describes.          *)
LEMMA ReportEffect ==
    ASSUME TypeOK, NEW m \in Messages, Accepts(m), Apply(m)
    PROVE  Reported(m)
<1> USE DEF TypeOK, JobStates
<1>0. m.job \in Rollouts /\ m.by \in Installations /\ m.status \in InFlight \cup Terminal
  BY DEF Messages
<1>1. job[m.job][m.by] \in InFlight \cup Terminal
  BY <1>0 DEF Accepts
<1>2. CASE job[m.job][m.by] \in Terminal
  BY <1>0, <1>1, <1>2 DEF Apply, Reported, InFlight, Terminal
<1>3. CASE job[m.job][m.by] \notin Terminal
  <2> DEFINE failed == m.status \in {"FAILED", "ROLLED_BACK"}
             all == [i \in Installations |->
                       IF i = m.by THEN m.status
                       ELSE IF failed /\ job[m.job][i] = "QUEUED" THEN "CANCELED"
                       ELSE job[m.job][i]]
  <2>1. job' = [job EXCEPT ![m.job] = all]
    BY <1>3 DEF Apply
  <2>2. all \in [Installations -> JobStates]
    BY <1>0 DEF Terminal
  <2>3. /\ job' \in [Rollouts -> [Installations -> JobStates]]
        /\ job'[m.job][m.by] = m.status
    BY <1>0, <2>1, <2>2
  <2>4. rollout' \in [Rollouts -> RolloutStates]
    BY <1>0, <1>3 DEF Apply, RolloutStates
  <2>5. \A r \in Rollouts : rollout'[r] = "NONE" => rollout[r] = "NONE"
    BY <1>0, <1>3 DEF Apply
  <2>6. ASSUME NEW r \in Rollouts, NEW i \in Installations
        PROVE  \/ job'[r][i] = job[r][i]
               \/ job[r][i] = "QUEUED" /\ job'[r][i] = "CANCELED"
               \/ r = m.job /\ i = m.by
    BY <1>0, <2>1
  <2> QED
    BY <1>0, <1>1, <1>3, <2>3, <2>4, <2>5, <2>6 DEF Reported
<1> QED
  BY <1>2, <1>3

(* A request that got no answer was handled or is on the wire; one that    *)
(* got an answer was handled.                                              *)
Sent(m) ==
    /\ m \in Messages /\ UNCHANGED <<order, release, signed>>
    /\ \/ Reported(m) /\ late' = late
       \/ UNCHANGED <<rollout, job>> /\ late' = late \cup {m}

(* Answered and Unanswered have the effects Reported and Sent describe.    *)
LEMMA RequestEffect ==
    ASSUME TypeOK, NEW m \in Messages
    PROVE  /\ Answered(m) => Reported(m) /\ UNCHANGED <<order, release, signed, late>>
           /\ Unanswered(m) => Sent(m)
BY ReportEffect DEF Answered, Unanswered, Sent

-----------------------------------------------------------------------------
(* Nothing has been created and every machine runs what it came with.      *)
LEMMA InvInit == Init => Inv
<1> SUFFICES ASSUME Init PROVE Inv
  OBVIOUS
<1>1. online \in BOOLEAN /\ late \subseteq Messages /\ failures \in Nat
  BY Zenon DEF Init
<1>2. TypeOK
  BY <1>1 DEF Init, TypeOK, RolloutStates, Binaries, Steps
<1> QED
  BY <1>2 DEF Init, Inv, NoneInv, OneInFlight, AtInv, JournalInv, LateInv, MachineInv, BaseInv,
     JournalOK, MachineOK, BaseOK, InFlight, Phase, Empty

(* The state keeps its type, and the updaters their place.                 *)
LEMMA TypeStep == TypeOK /\ AtInv /\ [Next]_vars => TypeOK' /\ AtInv'
<1> DEFINE Goal == TypeOK' /\ AtInv'
<1> SUFFICES ASSUME TypeOK, AtInv, [Next]_vars PROVE Goal
  OBVIOUS
<1> USE DEF TypeOK, AtInv, Phase, Journals, Phases, Empty, Steps,
        serverVars, agentVars, Fail, Goto
<1>1. ASSUME NEW r \in Rollouts, NEW o \in Orders, NEW b \in Releases, NEW s \in BOOLEAN,
             CreateRollout(r, o, b, s)
      PROVE  Goal
  BY <1>1 DEF CreateRollout, RolloutStates, Binaries
<1>2. ASSUME NEW r \in Rollouts, CancelRollout(r) PROVE Goal
  BY <1>2 DEF CancelRollout, RolloutStates, Terminal
<1>3. CASE Outage
  <2>1. online' \in BOOLEAN
    BY <1>3, Zenon DEF Outage
  <2> QED
    BY <1>3, <2>1 DEF Outage
<1>4. ASSUME NEW m \in late, LateReport(m) PROVE Goal
  <2>1. CASE Accepts(m)
    <3>1. Reported(m)
      BY <1>4, <2>1, ReportEffect DEF LateReport
    <3> QED
      BY <1>4, <3>1 DEF LateReport, Reported, JobStates
  <2>2. CASE ~Accepts(m)
    BY <1>4, <2>2 DEF LateReport
  <2> QED
    BY <2>1, <2>2
<1> USE JournalType, SetPhaseEffect
<1>5. ASSUME NEW i \in Installations, SwitchLink(i) PROVE Goal
  BY <1>5 DEF SwitchLink
<1>6. ASSUME NEW i \in Installations, Restart(i) PROVE Goal
  BY <1>6 DEF Restart
<1>7. ASSUME NEW i \in Installations, Record(i) PROVE Goal
  BY <1>7 DEF Record
<1>8. ASSUME NEW i \in Installations, SaveHealthy(i) PROVE Goal
  BY <1>8 DEF SaveHealthy
<1>9. ASSUME NEW i \in Installations, Confirm(i) PROVE Goal
  <2>1. Phase(i) \in Phases /\ at[i] = "idle"
    BY <1>9 DEF Confirm
  <2>2. /\ journal' \in [Installations -> Journals \cup {Empty}]
        /\ \A j \in Installations : j # i => journal'[j] = journal[j]
    BY <1>9, <2>1 DEF Confirm
  <2>3. AtInv'
    BY <1>9, <2>1, <2>2 DEF Confirm
  <2>4. TypeOK'
    BY <1>9, <2>2 DEF Confirm
  <2> QED
    BY <2>3, <2>4
<1>10. ASSUME NEW i \in Installations, ResumeRollback(i) PROVE Goal
  BY <1>10 DEF ResumeRollback
<1>11. ASSUME NEW i \in Installations, Relink(i) PROVE Goal
  BY <1>11 DEF Relink
<1>12. ASSUME NEW i \in Installations, RestartOld(i) PROVE Goal
  BY <1>12 DEF RestartOld
<1>13. ASSUME NEW i \in Installations, RecordOld(i) PROVE Goal
  BY <1>13 DEF RecordOld
<1>14. ASSUME NEW i \in Installations, SaveRolledBack(i) PROVE Goal
  BY <1>14 DEF SaveRolledBack
<1>15. ASSUME NEW i \in Installations, Crash(i) PROVE Goal
  BY <1>15 DEF Crash
<1>16. ASSUME NEW i \in Installations, AgentRestarts(i) PROVE Goal
  BY <1>16 DEF AgentRestarts
<1>17. ASSUME NEW i \in Installations, BadArtifact(i) PROVE Goal
  <2>1. Phase(i) \in Phases /\ at[i] = "idle"
    BY <1>17 DEF BadArtifact
  <2>2. /\ journal' \in [Installations -> Journals \cup {Empty}]
        /\ \A j \in Installations : j # i => journal'[j] = journal[j]
    BY <1>17, <2>1 DEF BadArtifact
  <2>3. AtInv'
    BY <1>17, <2>1, <2>2 DEF BadArtifact
  <2>4. TypeOK'
    BY <1>17, <2>2 DEF BadArtifact
  <2> QED
    BY <2>3, <2>4
<1>18. ASSUME NEW i \in Installations, BeginRollback(i) PROVE Goal
  BY <1>18 DEF BeginRollback, Unhealthy
<1> USE RequestEffect, MessageType DEF JobStates
<1>19. ASSUME NEW i \in Installations, BeginRollbackFails(i) PROVE Goal
  <2>1. Phase(i) \in Phases
    BY <1>19 DEF BeginRollbackFails, Unhealthy
  <2>2. Sent(Message(journal[i].job, i, "ROLLING_BACK"))
    BY <1>19, <2>1 DEF BeginRollbackFails, BestEffort, InFlight
  <2> QED
    <3>1. /\ journal' \in [Installations -> Journals \cup {Empty}]
          /\ \A j \in Installations : j # i => journal'[j] = journal[j]
      BY <1>19, <2>1 DEF BeginRollbackFails
    <3>2. /\ rollout' \in [Rollouts -> RolloutStates] /\ UNCHANGED <<order, release, signed>>
          /\ job' \in [Rollouts -> [Installations -> JobStates]] /\ late' \subseteq Messages
      BY <2>2 DEF Sent, Reported
    <3>3. AtInv'
      BY <1>19, <3>1 DEF BeginRollbackFails
    <3>4. /\ UNCHANGED <<online, link, running, recorded, base>>
          /\ failures' \in Nat /\ at' \in [Installations -> Steps]
      BY <1>19 DEF BeginRollbackFails
    <3>5. TypeOK'
      BY <3>1, <3>2, <3>4
    <3> QED
      BY <3>3, <3>5
<1>20. ASSUME NEW i \in Installations, RollbackFails(i) PROVE Goal
  <2>1. Phase(i) \in Phases
    BY <1>20 DEF RollbackFails
  <2>2. Sent(Message(journal[i].job, i, "ROLLING_BACK"))
    BY <1>20, <2>1 DEF RollbackFails, BestEffort, InFlight
  <2> QED
    <3>1. /\ journal' \in [Installations -> Journals \cup {Empty}]
          /\ \A j \in Installations : j # i => journal'[j] = journal[j]
      BY <1>20, <2>1 DEF RollbackFails
    <3>2. /\ rollout' \in [Rollouts -> RolloutStates] /\ UNCHANGED <<order, release, signed>>
          /\ job' \in [Rollouts -> [Installations -> JobStates]] /\ late' \subseteq Messages
      BY <2>2 DEF Sent, Reported
    <3>3. AtInv'
      BY <1>20, <3>1 DEF RollbackFails
    <3>4. /\ UNCHANGED <<online, link, running, recorded, base>>
          /\ failures' \in Nat /\ at' \in [Installations -> Steps]
      BY <1>20 DEF RollbackFails
    <3>5. TypeOK'
      BY <3>1, <3>2, <3>4
    <3> QED
      BY <3>3, <3>5
<1>21. ASSUME NEW i \in Installations, Poll(i) PROVE Goal
  BY <1>21 DEF Poll, MarkClaimed, InFlight
<1>22. ASSUME NEW i \in Installations, PollRefused(i) PROVE Goal
  BY <1>22 DEF PollRefused, RolloutStates, Terminal
<1>23. ASSUME NEW i \in Installations, PollUnanswered(i) PROVE Goal
  <2>1. PICK r \in Rollouts :
             /\ MarkClaimed(r, i)
             /\ late' \in {late} \cup IF signed[r] \/ journal[i] # Empty THEN {}
                                      ELSE {late \cup {Message(r, i, "FAILED")}}
    BY <1>23 DEF PollUnanswered
  <2>2. late' \subseteq Messages
    BY <2>1 DEF Terminal
  <2> QED
    BY <1>23, <2>1, <2>2 DEF PollUnanswered, MarkClaimed, InFlight
<1>24. ASSUME NEW i \in Installations, Advance(i) PROVE Goal
  <2>1. Phase(i) \in Phases /\ NextPhase[Phase(i)] \in Phases \cap InFlight
    BY <1>24 DEF Advance, MayAdvance, NextPhase, InFlight
  <2>2. Reported(Message(journal[i].job, i, NextPhase[Phase(i)])) /\ UNCHANGED <<order, release, signed, late>>
    BY <1>24, <2>1 DEF Advance
  <2> QED
    <3>1. /\ journal' \in [Installations -> Journals \cup {Empty}]
          /\ \A j \in Installations : j # i => journal'[j] = journal[j]
      BY <1>24, <2>1 DEF Advance
    <3>2. AtInv'
      BY <1>24, <3>1 DEF Advance, MayAdvance
    <3>3. TypeOK'
      BY <1>24, <2>2, <3>1 DEF Advance, Reported
    <3> QED
      BY <3>2, <3>3
<1>25. ASSUME NEW i \in Installations, AdvanceUnanswered(i) PROVE Goal
  <2>1. Phase(i) \in Phases /\ NextPhase[Phase(i)] \in Phases \cap InFlight
    BY <1>25 DEF AdvanceUnanswered, MayAdvance, NextPhase, InFlight
  <2>2. Sent(Message(journal[i].job, i, NextPhase[Phase(i)]))
    BY <1>25, <2>1 DEF AdvanceUnanswered
  <2> QED
    <3>1. /\ rollout' \in [Rollouts -> RolloutStates] /\ UNCHANGED <<order, release, signed>>
          /\ job' \in [Rollouts -> [Installations -> JobStates]] /\ late' \subseteq Messages
      BY <2>2 DEF Sent, Reported
    <3> QED
      BY <1>25, <3>1 DEF AdvanceUnanswered
<1>26. ASSUME NEW i \in Installations, Finish(i) PROVE Goal
  <2>1. Phase(i) \in Phases \cap Terminal
    BY <1>26 DEF Finish, Terminal
  <2>2. Reported(Message(journal[i].job, i, Phase(i))) /\ UNCHANGED <<order, release, signed, late>>
    BY <1>26, <2>1 DEF Finish
  <2> QED
    BY <1>26, <2>1, <2>2 DEF Finish, Reported
<1>27. ASSUME NEW i \in Installations, FinishUnanswered(i) PROVE Goal
  <2>1. Phase(i) \in Phases \cap Terminal
    BY <1>27 DEF FinishUnanswered, Terminal
  <2>2. Sent(Message(journal[i].job, i, Phase(i)))
    BY <1>27, <2>1 DEF FinishUnanswered
  <2> QED
    <3>1. /\ rollout' \in [Rollouts -> RolloutStates] /\ UNCHANGED <<order, release, signed>>
          /\ job' \in [Rollouts -> [Installations -> JobStates]] /\ late' \subseteq Messages
      BY <2>2 DEF Sent, Reported
    <3> QED
      BY <1>27, <3>1 DEF FinishUnanswered
<1>28. CASE UNCHANGED vars
  BY <1>28 DEF vars
<1> HIDE JournalType, SetPhaseEffect, RequestEffect, MessageType DEF Goal, TypeOK, AtInv, Phase
<1> QED
  BY <1>1, <1>2, <1>3, <1>4, <1>5, <1>6, <1>7, <1>8, <1>9, <1>10, <1>11, <1>12, <1>13, <1>14,
     <1>15, <1>16, <1>17, <1>18, <1>19, <1>20, <1>21, <1>22, <1>23, <1>24, <1>25, <1>26, <1>27,
     <1>28 DEF Next, Admin, Local, Net, Fault

-----------------------------------------------------------------------------
Claimed(r, i) ==
    /\ job[r][i] = "QUEUED" /\ Claimable(r, i)
    /\ job' = [job EXCEPT ![r][i] = "DOWNLOADING"]
    /\ base' = [base EXCEPT ![i] = link[i]]
    /\ UNCHANGED <<rollout, order, release, signed>>

Refused(r, i) ==
    /\ PollGives(r, i) /\ ~signed[r]
    /\ job' = [job EXCEPT ![r] = [j \in Installations |->
                 IF j = i THEN "FAILED"
                 ELSE IF job[r][j] = "QUEUED" THEN "CANCELED" ELSE job[r][j]]]
    /\ rollout' = [rollout EXCEPT ![r] = "PAUSED"]
    /\ UNCHANGED <<order, release, signed, base>>

(* What a step may do to the service's database, and to base.              *)
ServerMove ==
    \/ UNCHANGED <<serverVars, base>>
    \/ \E r \in Rollouts, o \in Orders, b \in Releases, s \in BOOLEAN : CreateRollout(r, o, b, s)
    \/ \E r \in Rollouts : CancelRollout(r)
    \/ \E r \in Rollouts, i \in Installations : Claimed(r, i) \/ Refused(r, i)
    \/ \E m \in Messages : Honest(m) /\ Reported(m) /\ UNCHANGED <<order, release, signed, base>>

(* A claim is a Claimed step, or finds the job claimed already.            *)
LEMMA ClaimEffect ==
    ASSUME NEW r \in Rollouts, NEW i \in Installations, PollGives(r, i), MarkClaimed(r, i)
    PROVE  IF job[r][i] = "QUEUED" THEN Claimed(r, i) ELSE UNCHANGED <<serverVars, base>>
BY DEF PollGives, MarkClaimed, Claimed, serverVars

(* Every step of the system is one of them.                                *)
LEMMA ServerStep == Inv /\ [Next]_vars => ServerMove
<1> SUFFICES ASSUME Inv, [Next]_vars PROVE ServerMove
  OBVIOUS
<1> USE DEF Inv
<1>1. ASSUME NEW r \in Rollouts, NEW o \in Orders, NEW b \in Releases, NEW s \in BOOLEAN,
             CreateRollout(r, o, b, s)
      PROVE  ServerMove
  BY <1>1 DEF ServerMove
<1>2. ASSUME NEW r \in Rollouts, CancelRollout(r) PROVE ServerMove
  BY <1>2 DEF ServerMove
<1>3. CASE Outage
  BY <1>3 DEF Outage, ServerMove
<1>4. ASSUME NEW m \in late, LateReport(m) PROVE ServerMove
  <2>1. m \in Messages
    BY DEF TypeOK
  <2>2. CASE Accepts(m)
    <3>1. Reported(m) /\ UNCHANGED <<order, release, signed, base>>
      BY <1>4, <2>1, <2>2, ReportEffect DEF LateReport
    <3> QED
      BY <2>1, <3>1 DEF ServerMove, LateInv, LateOK
  <2>3. CASE ~Accepts(m)
    BY <1>4, <2>3 DEF LateReport, ServerMove, serverVars
  <2> QED
    BY <2>2, <2>3
<1>5. ASSUME NEW i \in Installations, Local(i) PROVE ServerMove
  BY <1>5 DEF Local, SwitchLink, Restart, Record, SaveHealthy, Confirm, ResumeRollback, Relink,
     RestartOld, RecordOld, SaveRolledBack, ServerMove
<1>6. ASSUME NEW i \in Installations, Crash(i) \/ AgentRestarts(i) \/ BadArtifact(i) \/ BeginRollback(i)
      PROVE  ServerMove
  BY <1>6 DEF Crash, AgentRestarts, BadArtifact, BeginRollback, ServerMove
<1>7. ASSUME NEW m \in Messages, Sent(m), Honest(m), base' = base PROVE ServerMove
  BY <1>7 DEF Sent, ServerMove, serverVars
<1>8. ASSUME NEW i \in Installations, BeginRollbackFails(i) \/ RollbackFails(i) PROVE ServerMove
  <2>1. Phase(i) \in Phases
    BY <1>8 DEF BeginRollbackFails, Unhealthy, RollbackFails, AtInv, Phases
  <2>2. Message(journal[i].job, i, "ROLLING_BACK") \in Messages
    BY <2>1, JournalType, MessageType DEF InFlight
  <2>3. Honest(Message(journal[i].job, i, "ROLLING_BACK"))
    BY DEF Honest, Message, Terminal
  <2> QED
    BY <1>7, <1>8, <2>2, <2>3, RequestEffect DEF BeginRollbackFails, RollbackFails, BestEffort
<1>9. ASSUME NEW i \in Installations, Poll(i) \/ PollUnanswered(i) PROVE ServerMove
  <2>1. PICK r \in Rollouts : PollGives(r, i) /\ MarkClaimed(r, i)
    BY <1>9 DEF Poll, PollUnanswered
  <2> QED
    BY <2>1, ClaimEffect DEF ServerMove
<1>10. ASSUME NEW i \in Installations, PollRefused(i) PROVE ServerMove
  <2>1. PICK r \in Rollouts : Refused(r, i)
    BY <1>10 DEF PollRefused, Refused
  <2> QED
    BY <2>1 DEF ServerMove
<1>11. ASSUME NEW i \in Installations, Advance(i) \/ AdvanceUnanswered(i) PROVE ServerMove
  <2>1. Phase(i) \in Phases /\ NextPhase[Phase(i)] \in InFlight
    BY <1>11 DEF Advance, AdvanceUnanswered, MayAdvance, NextPhase, InFlight, Phases
  <2>2. Message(journal[i].job, i, NextPhase[Phase(i)]) \in Messages
    BY <2>1, JournalType, MessageType
  <2>3. Honest(Message(journal[i].job, i, NextPhase[Phase(i)]))
    BY <2>1 DEF Honest, Message, Terminal, InFlight
  <2> QED
    BY <1>7, <1>11, <2>2, <2>3, RequestEffect DEF Advance, AdvanceUnanswered, ServerMove
<1>12. ASSUME NEW i \in Installations, Finish(i) \/ FinishUnanswered(i) PROVE ServerMove
  <2>1. Phase(i) \in Phases /\ Phase(i) \in Terminal
    BY <1>12 DEF Finish, FinishUnanswered, Terminal, Phases
  <2>2. Message(journal[i].job, i, Phase(i)) \in Messages
    BY <2>1, JournalType, MessageType
  <2>3. Honest(Message(journal[i].job, i, Phase(i)))
    BY <2>1, JournalType DEF Honest, Message
  <2> QED
    BY <1>7, <1>12, <2>2, <2>3, RequestEffect DEF Finish, FinishUnanswered, ServerMove
<1>13. CASE UNCHANGED vars
  BY <1>13 DEF vars, ServerMove, serverVars
<1> QED
  BY <1>1, <1>2, <1>3, <1>4, <1>5, <1>6, <1>8, <1>9, <1>10, <1>11, <1>12, <1>13
  DEF Next, Admin, Net, Fault

(* The positions of a rollout are machines.                                *)
LEMMA OrderType ==
    ASSUME TypeOK, NEW r \in Rollouts, NEW i
    PROVE  Targets(r) \subseteq Installations /\ Before(r, i) \subseteq Installations
<1>1. \A n \in DOMAIN order[r] : order[r][n] \in Installations
  <2>1. CASE order[r] = <<>>
    BY <2>1
  <2>2. CASE order[r] \in Orders
    BY <2>2 DEF Orders
  <2> QED
    BY <2>1, <2>2 DEF TypeOK
<1> QED
  BY <1>1 DEF Targets, Before

(* Who may start is settled by the successes before it, and those stay.    *)
LEMMA CanaryKept ==
    ASSUME TypeOK, CanaryFirst, order' = order,
           \A r \in Rollouts, i \in Installations :
              /\ job[r][i] = "SUCCEEDED" => job'[r][i] = "SUCCEEDED"
              /\ job[r][i] \in {"QUEUED", "CANCELED"} =>
                    \/ job'[r][i] \in {"QUEUED", "CANCELED"}
                    \/ \A j \in Before(r, i) : job[r][j] = "SUCCEEDED"
    PROVE  CanaryFirst'
<1> SUFFICES ASSUME NEW r \in Rollouts, NEW i \in Targets(r),
                    job'[r][i] \notin {"QUEUED", "CANCELED"}, NEW j \in Before(r, i)
             PROVE  job'[r][j] = "SUCCEEDED"
  BY DEF CanaryFirst, Targets, Before
<1>1. i \in Installations /\ j \in Installations
  BY OrderType
<1>2. job[r][j] = "SUCCEEDED"
  BY <1>1 DEF CanaryFirst
<1> QED
  BY <1>1, <1>2

(* The three invariants of the service, by what a step may do to it.       *)
LEMMA ServerInvStep ==
    ASSUME TypeOK, TypeOK', NoneInv, OneInFlight, CanaryFirst, ServerMove
    PROVE  NoneInv' /\ OneInFlight' /\ CanaryFirst'
<1> DEFINE Goal == NoneInv' /\ OneInFlight' /\ CanaryFirst'
<1> USE DEF NoneInv, OneInFlight
<1>1. ASSUME UNCHANGED <<serverVars, base>> PROVE Goal
  <2>1. CanaryFirst'
    BY <1>1 DEF serverVars, CanaryFirst, Targets, Before
  <2> QED
    BY <1>1, <2>1 DEF serverVars
<1>2. ASSUME NEW r \in Rollouts, NEW o \in Orders, NEW b \in Releases, NEW s \in BOOLEAN,
             CreateRollout(r, o, b, s)
      PROVE  Goal
  <2>1. \A q \in Rollouts : q # r => /\ job'[q] = job[q] /\ order'[q] = order[q]
                                     /\ rollout'[q] = rollout[q]
    BY <1>2 DEF CreateRollout, TypeOK
  <2>2. /\ rollout'[r] # "NONE" /\ order'[r] = o
        /\ \A i \in Installations :
              job'[r][i] = IF \E n \in DOMAIN o : o[n] = i THEN "QUEUED" ELSE "NONE"
    BY <1>2 DEF CreateRollout, TypeOK
  <2>3. NoneInv'
    BY <2>1, <2>2
  <2>4. OneInFlight'
    BY <2>1, <2>2 DEF InFlight
  <2>5. CanaryFirst'
    <3> SUFFICES ASSUME NEW q \in Rollouts, NEW i \in Targets(q)',
                        job'[q][i] \notin {"QUEUED", "CANCELED"}
                 PROVE  \A j \in Before(q, i)' : job'[q][j] = "SUCCEEDED"
      BY DEF CanaryFirst
    <3>1. CASE q = r
      <4>1. PICK n \in DOMAIN o : i = o[n]
        BY <2>2, <3>1 DEF Targets
      <4>2. o[n] \in Installations
        BY DEF Orders
      <4> QED
        BY <2>2, <3>1, <4>1, <4>2
    <3>2. CASE q # r
      BY <2>1, <3>2 DEF CanaryFirst, Targets, Before
    <3> QED
      BY <3>1, <3>2
  <2> QED
    BY <2>3, <2>4, <2>5
<1>3. ASSUME NEW r \in Rollouts, CancelRollout(r) PROVE Goal
  <2>1. /\ order' = order
        /\ \A q \in Rollouts : rollout'[q] = "NONE" => rollout[q] = "NONE"
        /\ \A q \in Rollouts, i \in Installations :
              job'[q][i] = job[q][i] \/ (job[q][i] = "QUEUED" /\ job'[q][i] = "CANCELED")
    BY <1>3 DEF CancelRollout, TypeOK
  <2>2. CanaryFirst'
    BY <2>1, CanaryKept
  <2> QED
    BY <2>1, <2>2 DEF InFlight
<1>4. ASSUME NEW r \in Rollouts, NEW i \in Installations, Claimed(r, i) PROVE Goal
  <2>1. /\ order' = order /\ rollout' = rollout /\ rollout[r] # "NONE"
        /\ \A q \in Rollouts, j \in Installations :
              job'[q][j] = IF q = r /\ j = i THEN "DOWNLOADING" ELSE job[q][j]
    BY <1>4 DEF Claimed, Claimable, TypeOK
  <2>2. CanaryFirst'
    BY <1>4, <2>1, CanaryKept DEF Claimed, Claimable
  <2>3. NoneInv'
    BY <1>4, <2>1 DEF Claimed
  <2>4. OneInFlight'
    BY <1>4, <2>1 DEF Claimed, Claimable
  <2> QED
    BY <2>2, <2>3, <2>4
<1>5. ASSUME NEW r \in Rollouts, NEW i \in Installations, Refused(r, i) PROVE Goal
  <2>1. /\ order' = order /\ job[r][i] # "NONE" /\ job[r][i] \notin Terminal
        /\ \A q \in Rollouts : rollout'[q] = "NONE" => rollout[q] = "NONE"
        /\ \A q \in Rollouts, j \in Installations :
              \/ job'[q][j] = job[q][j]
              \/ job[q][j] = "QUEUED" /\ job'[q][j] = "CANCELED"
              \/ q = r /\ j = i /\ job'[q][j] = "FAILED"
    <3>1. /\ order' = order /\ job[r][i] # "NONE" /\ job[r][i] \notin Terminal
          /\ \A q \in Rollouts : rollout'[q] = "NONE" => rollout[q] = "NONE"
      BY <1>5 DEF Refused, PollGives, Active, TypeOK
    <3>2. ASSUME NEW q \in Rollouts, NEW j \in Installations
          PROVE  \/ job'[q][j] = job[q][j]
                 \/ job[q][j] = "QUEUED" /\ job'[q][j] = "CANCELED"
                 \/ q = r /\ j = i /\ job'[q][j] = "FAILED"
      BY <1>5 DEF Refused, TypeOK
    <3> QED
      BY <3>1, <3>2
  <2>2. CanaryFirst'
    BY <1>5, <2>1, CanaryKept DEF Refused, PollGives, Claimable, Terminal
  <2>3. NoneInv'
    BY <2>1
  <2>4. OneInFlight'
    BY <2>1 DEF InFlight
  <2> QED
    BY <2>2, <2>3, <2>4
<1>6. ASSUME NEW m \in Messages, Reported(m), UNCHANGED order PROVE Goal
  <2>1. CanaryFirst'
    BY <1>6, CanaryKept DEF Reported, InFlight, Terminal
  <2>2. NoneInv'
    BY <1>6 DEF Reported, InFlight, Terminal, Messages
  <2>3. OneInFlight'
    BY <1>6 DEF Reported, InFlight, Terminal
  <2> QED
    BY <2>1, <2>2, <2>3
<1> HIDE DEF Goal, NoneInv, OneInFlight
<1>7. Goal
  BY <1>1, <1>2, <1>3, <1>4, <1>5, <1>6 DEF ServerMove
<1> QED
  BY <1>7 DEF Goal

-----------------------------------------------------------------------------
(* What a step of the service leaves of the jobs that were claimed: their  *)
(* release, their outcome if they have one, and who is in flight.          *)
LEMMA ClaimedKept ==
    ASSUME Inv, ServerMove, NEW r \in Rollouts, NEW i \in Installations
    PROVE  /\ job[r][i] \in InFlight \cup Terminal =>
                /\ job'[r][i] \in InFlight \cup Terminal
                /\ signed'[r] = signed[r] /\ release'[r] = release[r]
           /\ job[r][i] \in Terminal => job'[r][i] = job[r][i]
           /\ job'[r][i] \in InFlight => job[r][i] \in InFlight \/ Claimed(r, i)
           /\ job[r][i] \in InFlight => base'[i] = base[i]
<1> USE DEF Inv, TypeOK
<1>1. CASE UNCHANGED <<serverVars, base>>
  BY <1>1 DEF serverVars
<1>2. ASSUME NEW q \in Rollouts, NEW o \in Orders, NEW b \in Releases, NEW s \in BOOLEAN,
             CreateRollout(q, o, b, s)
      PROVE  /\ q = r => job[r][i] \notin InFlight \cup Terminal /\ job'[r][i] \notin InFlight
             /\ q # r => job'[r] = job[r] /\ signed'[r] = signed[r] /\ release'[r] = release[r]
             /\ base' = base
  BY <1>2 DEF CreateRollout, NoneInv, InFlight, Terminal
<1>3. ASSUME NEW q \in Rollouts, CancelRollout(q)
      PROVE  /\ UNCHANGED <<signed, release, base>>
             /\ job'[r][i] = job[r][i] \/ (job[r][i] = "QUEUED" /\ job'[r][i] = "CANCELED")
  BY <1>3 DEF CancelRollout
<1>4. ASSUME NEW q \in Rollouts, NEW j \in Installations, Claimed(q, j)
      PROVE  /\ UNCHANGED <<signed, release>>
             /\ q = r /\ j = i => job[r][i] = "QUEUED"
             /\ ~(q = r /\ j = i) => job'[r][i] = job[r][i]
             /\ job[r][i] \notin InFlight
  BY <1>4 DEF Claimed, Claimable
<1>5. ASSUME NEW q \in Rollouts, NEW j \in Installations, Refused(q, j)
      PROVE  /\ UNCHANGED <<signed, release, base>>
             /\ \/ job'[r][i] = job[r][i]
                \/ job[r][i] = "QUEUED" /\ job'[r][i] = "CANCELED"
                \/ job[r][i] \notin Terminal /\ job'[r][i] = "FAILED"
  BY <1>5 DEF Refused, PollGives, Active
<1>6. ASSUME NEW m \in Messages, Reported(m), UNCHANGED <<order, release, signed, base>>
      PROVE  /\ job[r][i] \in InFlight \cup Terminal => job'[r][i] \in InFlight \cup Terminal
             /\ job[r][i] \in Terminal => job'[r][i] = job[r][i]
             /\ job'[r][i] \in InFlight => job[r][i] \in InFlight
  BY <1>6 DEF Reported, Messages, InFlight, Terminal
<1> HIDE DEF Inv, TypeOK
<1>7. /\ \A x \in InFlight : x \notin Terminal \cup {"QUEUED", "NONE"}
      /\ "FAILED" \in Terminal /\ "CANCELED" \in Terminal /\ "QUEUED" \notin Terminal
  BY DEF InFlight, Terminal
<1> QED
  BY <1>1, <1>2, <1>3, <1>4, <1>5, <1>6, <1>7 DEF ServerMove, serverVars

(* A job in a journal, or one whose report is late, has been claimed, and  *)
(* gets its outcome only from an honest report.                            *)
LEMMA OutcomeKept ==
    ASSUME Inv, ServerMove, NEW i \in Installations, journal[i] # Empty
    PROVE  LET r == journal[i].job IN
           /\ r \in Rollouts /\ signed'[r] /\ release'[r] = release[r]
           /\ \/ job'[r][i] \in InFlight
              \/ job'[r][i] \in Terminal /\ job'[r][i] = Phase(i)
<1> DEFINE r == journal[i].job
<1>1. /\ r \in Rollouts /\ signed[r] /\ job[r][i] \in InFlight \cup Terminal
      /\ job[r][i] \in Terminal => job[r][i] = Phase(i)
  BY DEF Inv, TypeOK, Journals, JournalInv, JournalOK, InFlight, Terminal
<1> HIDE DEF r
<1>2. /\ job'[r][i] \in InFlight \cup Terminal
      /\ signed'[r] = signed[r] /\ release'[r] = release[r]
      /\ job[r][i] \in Terminal => job'[r][i] = job[r][i]
  BY <1>1, ClaimedKept
<1>3. ASSUME job[r][i] \in InFlight, job'[r][i] \in Terminal
      PROVE  job'[r][i] = Phase(i)
  <2> USE DEF Inv, TypeOK
  <2>1. CASE UNCHANGED <<serverVars, base>>
    BY <1>3, <2>1 DEF serverVars, InFlight, Terminal
  <2>2. ASSUME NEW q \in Rollouts, NEW o \in Orders, NEW b \in Releases, NEW s \in BOOLEAN,
               CreateRollout(q, o, b, s)
        PROVE  FALSE
    BY <1>1, <1>3, <2>2 DEF CreateRollout, NoneInv, InFlight, Terminal
  <2>3. ASSUME NEW q \in Rollouts, CancelRollout(q) PROVE FALSE
    BY <1>1, <1>3, <2>3 DEF CancelRollout, InFlight, Terminal
  <2>4. ASSUME NEW q \in Rollouts, NEW j \in Installations, Claimed(q, j) PROVE FALSE
    BY <1>1, <1>3, <2>4 DEF Claimed, Claimable, InFlight, Terminal
  <2>5. ASSUME NEW q \in Rollouts, NEW j \in Installations, Refused(q, j) PROVE FALSE
    BY <1>1, <1>3, <2>5 DEF Refused, InFlight, Terminal
  <2>6. ASSUME NEW m \in Messages, Honest(m), Reported(m) PROVE job'[r][i] = Phase(i)
    <3>1. job[r][i] # "QUEUED" /\ job'[r][i] # job[r][i]
      BY <1>3 DEF InFlight, Terminal
    <3>2. m.job = r /\ m.by = i
      BY <1>1, <2>6, <3>1 DEF Reported
    <3>3. job'[r][i] = m.status
      BY <1>3, <2>6, <3>2 DEF Reported
    <3> QED
      BY <1>1, <1>3, <2>6, <3>2, <3>3 DEF Honest
  <2> HIDE DEF Inv, TypeOK
  <2> QED
    BY <2>1, <2>2, <2>3, <2>4, <2>5, <2>6 DEF ServerMove
<1> QED
  BY <1>1, <1>2, <1>3 DEF r

MachineGoal(i) ==
    /\ JournalOK(i)' /\ MachineOK(i)' /\ BaseOK(i)'
    /\ \A m \in late' : m.by = i => LateOK(m)'

(* A machine that takes no part in a step stays as it is described.        *)
LEMMA KeptMachine ==
    ASSUME Inv, ServerMove, NEW i \in Installations,
           journal'[i] = journal[i], at'[i] = at[i], link'[i] = link[i]
    PROVE  /\ JournalOK(i)' /\ BaseOK(i)'
           /\ journal[i] # Empty => Candidate(i)' = Candidate(i)
           /\ running'[i] = running[i] => MachineOK(i)'
           /\ \A m \in late : m.by = i => LateOK(m)'
<1> USE DEF Phase
<1>1. JournalOK(i)'
  BY OutcomeKept DEF JournalOK
<1>2. ASSUME running'[i] = running[i] PROVE MachineOK(i)'
  <2>1. CASE journal[i] = Empty
    BY <1>2, <2>1 DEF Inv, MachineInv, MachineOK, Empty, AtInv, TypeOK, Steps
  <2>2. CASE journal[i] # Empty
    BY <1>2, <2>2, OutcomeKept DEF Inv, MachineInv, MachineOK, Candidate
  <2> QED
    BY <2>1, <2>2
<1>3. BaseOK(i)'
  <2> SUFFICES ASSUME NEW r \in Rollouts, job'[r][i] \in InFlight
               PROVE  base'[i] = IF journal[i] # Empty /\ journal[i].job = r
                                 THEN journal[i].old ELSE link[i]
    BY DEF BaseOK
  <2>1. CASE job[r][i] \in InFlight
    BY <2>1, ClaimedKept DEF Inv, BaseInv, BaseOK
  <2>2. CASE Claimed(r, i)
    <3>1. ~(journal[i] # Empty /\ journal[i].job = r)
      BY <2>2 DEF Claimed, Inv, JournalInv, JournalOK, InFlight, Terminal
    <3> QED
      BY <2>2, <3>1 DEF Claimed, Inv, TypeOK
  <2> QED
    BY <2>1, <2>2, ClaimedKept
<1>4. ASSUME NEW m \in late, m.by = i PROVE LateOK(m)'
  <2>1. m.job \in Rollouts
    BY DEF Inv, TypeOK, Messages
  <2>2. /\ job[m.job][i] \in InFlight \cup Terminal /\ Honest(m)
    BY <1>4 DEF Inv, LateInv, LateOK
  <2>3. /\ job'[m.job][i] \in InFlight \cup Terminal /\ signed'[m.job] = signed[m.job]
        /\ job'[m.job][i] \in InFlight => job[m.job][i] \in InFlight \/ Claimed(m.job, i)
    BY <2>1, <2>2, ClaimedKept
  <2>4. ~Claimed(m.job, i)
    BY <2>2 DEF Claimed, InFlight, Terminal
  <2> QED
    BY <1>4, <2>2, <2>3, <2>4 DEF LateOK, Honest
<1>5. journal[i] # Empty => Candidate(i)' = Candidate(i)
  BY OutcomeKept DEF Candidate
<1> QED
  BY <1>1, <1>2, <1>3, <1>4, <1>5

(* While the updater is at work on a job, that job has the one slot, and   *)
(* whatever the updater does to its link or its phase, the service knows   *)
(* no outcome of it.                                                       *)
LEMMA WorkingMachine ==
    ASSUME Inv, ServerMove, NEW i \in Installations, Phase(i) \in Phases \ Terminal,
           journal'[i] # Empty, journal'[i].job = journal[i].job, journal'[i].old = journal[i].old
    PROVE  /\ JournalOK(i)' /\ BaseOK(i)' /\ Candidate(i)' = Candidate(i)
           /\ job'[journal[i].job][i] \in InFlight
           /\ \A m \in late : m.by = i => LateOK(m)'
<1> DEFINE r == journal[i].job
<1>1. /\ journal[i] # Empty /\ r \in Rollouts
      /\ signed[r] /\ job[r][i] \in InFlight
  <2>1. journal[i] # Empty /\ r \in Rollouts
    BY JournalType DEF Inv
  <2> QED
    BY <2>1 DEF Inv, JournalInv, JournalOK
<1>2. /\ signed'[r] /\ release'[r] = release[r]
      /\ job'[r][i] \in InFlight
  BY <1>1, OutcomeKept
<1>3. \A q \in Rollouts : job'[q][i] \in InFlight => q = r
  <2> SUFFICES ASSUME NEW q \in Rollouts, job'[q][i] \in InFlight PROVE q = r
    OBVIOUS
  <2>1. CASE job[q][i] \in InFlight
    BY <1>1, <2>1 DEF Inv, OneInFlight
  <2>2. ~Claimed(q, i)
    BY <1>1 DEF Claimed, Claimable
  <2> QED
    BY <2>1, <2>2, ClaimedKept
<1>4. base'[i] = journal[i].old
  BY <1>1, ClaimedKept DEF Inv, BaseInv, BaseOK
<1>5. JournalOK(i)' /\ BaseOK(i)' /\ Candidate(i)' = Candidate(i)
  BY <1>2, <1>3, <1>4 DEF JournalOK, BaseOK, Candidate
<1>6. ASSUME NEW m \in late, m.by = i PROVE LateOK(m)'
  <2>1. m.job \in Rollouts
    BY DEF Inv, TypeOK, Messages
  <2>2. job[m.job][i] \in InFlight \cup Terminal /\ Honest(m)
    BY <1>6 DEF Inv, LateInv, LateOK
  <2>3. job'[m.job][i] \in InFlight \cup Terminal
    BY <2>1, <2>2, ClaimedKept
  <2>4. job'[m.job][i] \in InFlight => m.status \notin Terminal
    BY <1>1, <1>3, <1>6, <2>1, <2>2 DEF Honest
  <2> QED
    BY <1>6, <2>3, <2>4 DEF LateOK, Honest
<1> QED
  BY <1>2, <1>5, <1>6

(* Every step keeps journals, machines, claims and reports in agreement.   *)
LEMMA MachineStep ==
    ASSUME Inv, ServerMove, [Next]_vars
    PROVE  \A i \in Installations : MachineGoal(i)
<1> DEFINE Goal == \A i \in Installations : MachineGoal(i)
           Alone(i) == /\ \A j \in Installations : j # i =>
                            /\ journal'[j] = journal[j] /\ at'[j] = at[j]
                            /\ link'[j] = link[j] /\ running'[j] = running[j]
                       /\ \A m \in late' : m.by # i => m \in late
<1>a. ASSUME NEW i \in Installations, MachineGoal(i), Alone(i) PROVE Goal
  BY <1>a, KeptMachine DEF MachineGoal
<1>b. ASSUME UNCHANGED <<journal, at, link, running>>, late' \subseteq late PROVE Goal
  BY <1>b, KeptMachine DEF MachineGoal
<1>c. ASSUME NEW i \in Installations, UNCHANGED <<journal, at, link, running>>,
             NEW m, m.by = i, LateOK(m)', late' \subseteq late \cup {m}
      PROVE  Goal
  BY <1>c, KeptMachine DEF MachineGoal
<1>d. ASSUME NEW i \in Installations, late' = late, Phase(i) \in Phases \ Terminal, Alone(i),
             journal'[i] # Empty, journal'[i].job = journal[i].job, journal'[i].old = journal[i].old,
             Candidate(i)' = Candidate(i) => MachineOK(i)'
      PROVE  Goal
  <2>1. MachineGoal(i)
    BY <1>d, WorkingMachine DEF MachineGoal
  <2> QED
    BY <1>a, <1>d, <2>1
<1> HIDE DEF Goal
<1>1. ASSUME NEW r \in Rollouts, NEW o \in Orders, NEW b \in Releases, NEW s \in BOOLEAN,
             CreateRollout(r, o, b, s)
      PROVE  Goal
  BY <1>b, <1>1 DEF CreateRollout, agentVars
<1>2. ASSUME NEW r \in Rollouts, CancelRollout(r) PROVE Goal
  BY <1>b, <1>2 DEF CancelRollout, agentVars
<1>3. ASSUME Outage PROVE Goal
  BY <1>b, <1>3 DEF Outage, agentVars
<1>4. ASSUME NEW m \in late, LateReport(m) PROVE Goal
  BY <1>b, <1>4 DEF LateReport, agentVars
<1>5. ASSUME NEW i \in Installations, PollRefused(i) PROVE Goal
  BY <1>b, <1>5 DEF PollRefused, agentVars
<1>6. ASSUME UNCHANGED vars PROVE Goal
  BY <1>b, <1>6 DEF vars, agentVars
<1> USE DEF Inv, Phase
<1>t. /\ at \in [Installations -> Steps] /\ link \in [Installations -> Binaries]
      /\ running \in [Installations -> Binaries] /\ journal \in [Installations -> Journals \cup {Empty}]
  BY DEF TypeOK
<1>p. \A i \in Installations : Phase(i) \in Phases => journal[i] # Empty
  BY JournalType
<1> USE <1>t, <1>p
<1>7. ASSUME NEW i \in Installations, SwitchLink(i) PROVE Goal
  <2>1. Phase(i) \in Phases \ Terminal
    BY <1>7 DEF SwitchLink, Phases, Terminal
  <2>2. MachineOK(i)'
    BY <1>7 DEF SwitchLink, Goto, MachineOK, Empty
  <2> QED
    BY <1>d, <1>7, <2>1, <2>2 DEF SwitchLink, Goto
<1>8. ASSUME NEW i \in Installations, Restart(i) PROVE Goal
  <2>1. Phase(i) = "INSTALLING" /\ Phase(i) \in Phases \ Terminal
    BY <1>8 DEF Restart, AtInv, Phases, Terminal
  <2>2. MachineOK(i)'
    BY <1>8, <2>1 DEF Restart, Goto, MachineOK, Empty
  <2> QED
    BY <1>d, <1>8, <2>1, <2>2 DEF Restart, Goto
<1>9. ASSUME NEW i \in Installations, Record(i) PROVE Goal
  <2>1. Phase(i) = "INSTALLING" /\ Phase(i) \in Phases \ Terminal
    BY <1>9 DEF Record, Phases, Terminal
  <2>2. Candidate(i)' = Candidate(i) => MachineOK(i)'
    BY <1>9, <2>1 DEF Record, Goto, MachineOK, Empty
  <2> QED
    BY <1>d, <1>9, <2>1, <2>2 DEF Record, Goto
<1>10. ASSUME NEW i \in Installations, SaveHealthy(i) PROVE Goal
  <2>1. Phase(i) \in Phases \ Terminal
    BY <1>10 DEF SaveHealthy, AtInv, Phases, Terminal
  <2>2. /\ journal'[i] # Empty /\ journal'[i].phase = "LOCAL_HEALTHY"
        /\ journal'[i].job = journal[i].job /\ journal'[i].old = journal[i].old
        /\ \A j \in Installations : j # i => journal'[j] = journal[j]
    BY <1>10, <2>1, SetPhaseEffect DEF SaveHealthy, Phases
  <2>3. Candidate(i)' = Candidate(i) => MachineOK(i)'
    BY <1>10, <2>2 DEF SaveHealthy, Goto, MachineInv, MachineOK, agentVars
  <2> QED
    BY <1>d, <1>10, <2>1, <2>2, <2>3 DEF SaveHealthy, Goto, agentVars
<1>11. ASSUME NEW i \in Installations, Confirm(i) PROVE Goal
  <2>1. Phase(i) \in Phases \ Terminal
    BY <1>11 DEF Confirm, Phases, Terminal
  <2>2. /\ journal'[i] # Empty /\ journal'[i].phase = "SUCCEEDED"
        /\ journal'[i].job = journal[i].job /\ journal'[i].old = journal[i].old
        /\ \A j \in Installations : j # i => journal'[j] = journal[j]
    BY <1>11, <2>1, SetPhaseEffect DEF Confirm, Phases
  <2>3. Candidate(i)' = Candidate(i) => MachineOK(i)'
    BY <1>11, <2>2 DEF Confirm, MachineInv, MachineOK, agentVars
  <2> QED
    BY <1>d, <1>11, <2>1, <2>2, <2>3 DEF Confirm, agentVars
<1>12. ASSUME NEW i \in Installations, ResumeRollback(i) PROVE Goal
  <2>1. Phase(i) = "ROLLING_BACK" /\ Phase(i) \in Phases \ Terminal
    BY <1>12 DEF ResumeRollback, Phases, Terminal
  <2>2. MachineOK(i)'
    BY <1>12, <2>1 DEF ResumeRollback, Goto, MachineOK
  <2> QED
    BY <1>d, <1>12, <2>1, <2>2 DEF ResumeRollback, Goto, agentVars
<1>13. ASSUME NEW i \in Installations, Relink(i) PROVE Goal
  <2>1. Phase(i) = "ROLLING_BACK" /\ Phase(i) \in Phases \ Terminal
    BY <1>13 DEF Relink, AtInv, Phases, Terminal
  <2>2. MachineOK(i)'
    BY <1>13, <2>1 DEF Relink, Goto, MachineOK
  <2> QED
    BY <1>d, <1>13, <2>1, <2>2 DEF Relink, Goto
<1>14. ASSUME NEW i \in Installations, RestartOld(i) PROVE Goal
  <2>1. Phase(i) = "ROLLING_BACK" /\ Phase(i) \in Phases \ Terminal
    BY <1>14 DEF RestartOld, AtInv, Phases, Terminal
  <2>2. MachineOK(i)'
    BY <1>14, <2>1 DEF RestartOld, Goto, MachineInv, MachineOK
  <2> QED
    BY <1>d, <1>14, <2>1, <2>2 DEF RestartOld, Goto
<1>15. ASSUME NEW i \in Installations, RecordOld(i) PROVE Goal
  <2>1. Phase(i) = "ROLLING_BACK" /\ Phase(i) \in Phases \ Terminal
    BY <1>15 DEF RecordOld, AtInv, Phases, Terminal
  <2>2. MachineOK(i)'
    BY <1>15, <2>1 DEF RecordOld, Goto, MachineInv, MachineOK
  <2> QED
    BY <1>d, <1>15, <2>1, <2>2 DEF RecordOld, Goto
<1>16. ASSUME NEW i \in Installations, SaveRolledBack(i) PROVE Goal
  <2>1. Phase(i) \in Phases \ Terminal
    BY <1>16 DEF SaveRolledBack, AtInv, Phases, Terminal
  <2>2. /\ journal'[i] # Empty /\ journal'[i].phase = "ROLLED_BACK"
        /\ journal'[i].job = journal[i].job /\ journal'[i].old = journal[i].old
        /\ \A j \in Installations : j # i => journal'[j] = journal[j]
    BY <1>16, <2>1, SetPhaseEffect DEF SaveRolledBack, Phases
  <2>3. MachineOK(i)'
    BY <1>16, <2>2 DEF SaveRolledBack, Goto, MachineInv, MachineOK, agentVars
  <2> QED
    BY <1>d, <1>16, <2>1, <2>2, <2>3 DEF SaveRolledBack, Goto, agentVars
<1>17. ASSUME NEW i \in Installations, BadArtifact(i) PROVE Goal
  <2>1. Phase(i) \in Phases \ Terminal /\ at[i] = "idle"
    BY <1>17 DEF BadArtifact, AtInv, Phases, Terminal, Steps
  <2>2. /\ journal'[i] # Empty /\ journal'[i].phase = "FAILED"
        /\ journal'[i].job = journal[i].job /\ journal'[i].old = journal[i].old
        /\ \A j \in Installations : j # i => journal'[j] = journal[j]
    BY <1>17, <2>1, SetPhaseEffect DEF BadArtifact, Phases
  <2>3. MachineOK(i)'
    BY <1>17, <2>1, <2>2 DEF BadArtifact, MachineInv, MachineOK, agentVars
  <2> QED
    BY <1>d, <1>17, <2>1, <2>2, <2>3 DEF BadArtifact, agentVars
<1>18. ASSUME NEW i \in Installations, BeginRollback(i) PROVE Goal
  <2>1. Phase(i) \in Phases \ Terminal
    BY <1>18 DEF BeginRollback, Unhealthy, Phases, Terminal
  <2>2. /\ journal'[i] # Empty /\ journal'[i].phase = "ROLLING_BACK"
        /\ journal'[i].job = journal[i].job /\ journal'[i].old = journal[i].old
        /\ \A j \in Installations : j # i => journal'[j] = journal[j]
    BY <1>18, <2>1, SetPhaseEffect DEF BeginRollback, Phases
  <2>3. MachineOK(i)'
    BY <1>18, <2>2 DEF BeginRollback, Goto, MachineOK
  <2> QED
    BY <1>d, <1>18, <2>1, <2>2, <2>3 DEF BeginRollback, Goto, agentVars
<1>19. ASSUME NEW i \in Installations, Crash(i) PROVE Goal
  <2>1. /\ Phase(i) \in {"INSTALLING", "ROLLING_BACK"}
        /\ Phase(i) \in Phases \ Terminal
    BY <1>19 DEF Crash, AtInv, Phases, Terminal, Steps
  <2>2. MachineOK(i)'
    BY <1>19, <2>1 DEF Crash, Goto, MachineOK
  <2> QED
    BY <1>d, <1>19, <2>1, <2>2 DEF Crash, Goto, agentVars
<1>20. ASSUME NEW i \in Installations, AgentRestarts(i) PROVE Goal
  <2>1. UNCHANGED <<journal, at, link, late>> /\ running' = [running EXCEPT ![i] = link[i]]
    BY <1>20 DEF AgentRestarts
  <2>2. MachineOK(i)'
    <3>1. CASE journal[i] = Empty
      BY <1>20, <2>1, <3>1 DEF AgentRestarts, MachineOK, Empty, AtInv, Steps
    <3>2. CASE journal[i] # Empty
      BY <1>20, <2>1, <3>2, KeptMachine DEF AgentRestarts, MachineInv, MachineOK
    <3> QED
      BY <3>1, <3>2
  <2>3. MachineGoal(i)
    BY <2>1, <2>2, KeptMachine DEF MachineGoal
  <2> QED
    BY <1>a, <2>1, <2>3
<1>21. ASSUME NEW i \in Installations, PollUnanswered(i) PROVE Goal
  <2>1. PICK r \in Rollouts :
             /\ PollGives(r, i) /\ MarkClaimed(r, i)
             /\ late' \in {late} \cup IF signed[r] \/ journal[i] # Empty THEN {}
                                      ELSE {late \cup {Message(r, i, "FAILED")}}
    BY <1>21 DEF PollUnanswered
  <2>2. CASE late' = late
    BY <1>b, <1>21, <2>2 DEF PollUnanswered, agentVars
  <2>3. CASE late' # late
    <3>1. late' = late \cup {Message(r, i, "FAILED")} /\ ~signed[r]
      BY <2>1, <2>3
    <3>2. signed' = signed /\ job'[r][i] \in InFlight
      BY <2>1 DEF MarkClaimed, PollGives, Active, TypeOK, InFlight, Terminal
    <3>3. PICK m : m = Message(r, i, "FAILED")
      OBVIOUS
    <3>4. m.by = i /\ m.job = r /\ m.status = "FAILED"
      BY <3>3 DEF Message
    <3>5. LateOK(m)'
      BY <3>1, <3>2, <3>4 DEF LateOK, Honest
    <3>6. UNCHANGED <<journal, at, link, running>> /\ late' \subseteq late \cup {m}
      BY <1>21, <3>1, <3>3 DEF PollUnanswered, agentVars
    <3> QED
      BY <1>c, <3>4, <3>5, <3>6
  <2> QED
    BY <2>2, <2>3
<1>22. ASSUME NEW i \in Installations, AdvanceUnanswered(i) \/ FinishUnanswered(i) PROVE Goal
  <2> DEFINE status == IF Phase(i) \in DOMAIN NextPhase THEN NextPhase[Phase(i)] ELSE Phase(i)
  <2>0. PICK m : m = Message(journal[i].job, i, status)
    OBVIOUS
  <2>1. Phase(i) \in Phases /\ status \in InFlight \cup {Phase(i)} /\ status \in InFlight \cup Terminal
    BY <1>22 DEF AdvanceUnanswered, FinishUnanswered, MayAdvance, NextPhase, InFlight, Phases, Terminal
  <2>2. Unanswered(m) /\ UNCHANGED <<journal, at, link, running>>
    BY <1>22, <2>0 DEF AdvanceUnanswered, FinishUnanswered, MayAdvance, NextPhase, agentVars
  <2> HIDE DEF status
  <2>3. m \in Messages /\ m.by = i /\ m.job = journal[i].job /\ m.status = status
    BY <2>0, <2>1, JournalType, MessageType DEF Message
  <2>4. Sent(m)
    BY <2>2, <2>3, RequestEffect
  <2>5. LateOK(m)'
    <3>1. job'[m.job][i] \in InFlight \cup Terminal
      BY <2>1, <2>3, OutcomeKept
    <3> QED
      BY <2>1, <2>2, <2>3, <3>1 DEF LateOK, Honest, InFlight, Terminal
  <2>6. late' \subseteq late \cup {m}
    BY <2>4 DEF Sent
  <2> QED
    BY <1>c, <2>2, <2>3, <2>5, <2>6
<1>23. ASSUME NEW i \in Installations, BeginRollbackFails(i) \/ RollbackFails(i) PROVE Goal
  <2>0. PICK m : m = Message(journal[i].job, i, "ROLLING_BACK")
    OBVIOUS
  <2>1. Phase(i) \in Phases \ Terminal
    BY <1>23 DEF BeginRollbackFails, Unhealthy, RollbackFails, AtInv, Phases, Terminal
  <2>2. /\ m \in Messages /\ Sent(m)
        /\ m.by = i /\ m.job = journal[i].job /\ m.status = "ROLLING_BACK"
    <3>1. m \in Messages
      BY <2>0, <2>1, JournalType, MessageType DEF InFlight
    <3> QED
      BY <1>23, <2>0, <3>1, RequestEffect DEF BeginRollbackFails, RollbackFails, BestEffort, Message
  <2>3. /\ journal'[i] # Empty
        /\ journal'[i].job = journal[i].job /\ journal'[i].old = journal[i].old
        /\ \A j \in Installations : j # i => journal'[j] = journal[j]
        /\ \/ journal'[i].phase = Phase(i)
           \/ journal'[i].phase = "ROLLING_BACK"
           \/ journal'[i].phase = "ROLLED_BACK" /\ at[i] = "restored"
    <3>1. CASE journal' = journal
      BY <2>1, <3>1
    <3>2. CASE SetPhase(i, "ROLLING_BACK")
      BY <2>1, <3>2, SetPhaseEffect DEF Phases
    <3>3. CASE SetPhase(i, "ROLLED_BACK") /\ at[i] = "restored"
      BY <2>1, <3>3, SetPhaseEffect DEF Phases
    <3> QED
      BY <1>23, <3>1, <3>2, <3>3 DEF BeginRollbackFails, RollbackFails
  <2>4. /\ UNCHANGED <<link, running>> /\ at' = [at EXCEPT ![i] = "idle"]
    BY <1>23 DEF BeginRollbackFails, RollbackFails, Goto, agentVars
  <2>5. /\ JournalOK(i)' /\ BaseOK(i)' /\ Candidate(i)' = Candidate(i)
        /\ job'[journal[i].job][i] \in InFlight
        /\ \A n \in late : n.by = i => LateOK(n)'
    BY <2>1, <2>3, WorkingMachine
  <2>6. MachineOK(i)'
    BY <2>3, <2>4, <2>5 DEF MachineInv, MachineOK
  <2>7. LateOK(m)'
    BY <2>2, <2>5 DEF LateOK, Honest, Terminal
  <2>8. \A n \in late' : n \in late \/ n = m
    BY <2>2 DEF Sent
  <2>9. MachineGoal(i)
    BY <2>5, <2>6, <2>7, <2>8 DEF MachineGoal
  <2> QED
    BY <1>a, <2>2, <2>3, <2>4, <2>8, <2>9
<1>24. ASSUME NEW i \in Installations, Advance(i) PROVE Goal
  <2> DEFINE m == Message(journal[i].job, i, NextPhase[Phase(i)])
  <2>1. /\ Phase(i) \in DOMAIN NextPhase /\ Phase(i) \in Phases \ Terminal /\ at[i] = "idle"
        /\ NextPhase[Phase(i)] \in InFlight /\ NextPhase[Phase(i)] \in Phases
    BY <1>24 DEF Advance, MayAdvance, NextPhase, Phases, Terminal, InFlight
  <2>2. /\ journal'[i] # Empty /\ journal'[i].phase = NextPhase[Phase(i)]
        /\ journal'[i].job = journal[i].job /\ journal'[i].old = journal[i].old
        /\ \A j \in Installations : j # i => journal'[j] = journal[j]
    BY <1>24, <2>1, SetPhaseEffect DEF Advance
  <2>3. UNCHANGED <<at, link, running, late>>
    BY <1>24 DEF Advance, Answered, agentVars
  <2>4. Candidate(i)' = Candidate(i) => MachineOK(i)'
    BY <2>1, <2>2, <2>3 DEF NextPhase, MachineInv, MachineOK
  <2> QED
    BY <1>d, <2>1, <2>2, <2>3, <2>4
<1>25. ASSUME NEW i \in Installations, Poll(i) PROVE Goal
  <2>1. PICK r \in Rollouts :
             /\ PollGives(r, i) /\ signed[r] /\ MarkClaimed(r, i)
             /\ journal' = [journal EXCEPT ![i] = [job |-> r, phase |-> "DOWNLOADING", old |-> link[i]]]
    BY <1>25 DEF Poll
  <2>2. journal[i] = Empty /\ UNCHANGED <<at, link, running, late>> /\ at[i] = "idle"
    BY <1>25 DEF Poll, agentVars, AtInv, Empty, Steps
  <2>3. /\ journal'[i] = [job |-> r, phase |-> "DOWNLOADING", old |-> link[i]]
        /\ \A j \in Installations : j # i => journal'[j] = journal[j]
    BY <2>1
  <2>4. /\ journal'[i] # Empty /\ journal'[i].job = r /\ journal'[i].phase = "DOWNLOADING"
        /\ journal'[i].old = link[i]
    BY <2>3 DEF Empty
  <2>5. signed'[r] /\ job'[r][i] \in InFlight /\ base'[i] = link[i]
    <3>1. CASE job[r][i] = "QUEUED"
      BY <2>1, <3>1 DEF MarkClaimed, TypeOK, InFlight
    <3>2. CASE job[r][i] # "QUEUED"
      <4>1. job[r][i] \in InFlight /\ job' = job /\ base' = base /\ signed' = signed
        BY <2>1, <3>2 DEF MarkClaimed, PollGives, Active, TypeOK
      <4> QED
        BY <2>1, <2>2, <4>1 DEF BaseInv, BaseOK
    <3> QED
      BY <3>1, <3>2
  <2>6. \A q \in Rollouts : job'[q][i] \in InFlight => q = r
    <3> SUFFICES ASSUME NEW q \in Rollouts, job'[q][i] \in InFlight, q # r PROVE FALSE
      OBVIOUS
    <3>1. job[q][i] \in InFlight
      BY <2>1 DEF MarkClaimed, TypeOK
    <3>2. CASE job[r][i] = "QUEUED"
      BY <2>1, <3>1, <3>2 DEF PollGives, Claimable
    <3>3. CASE job[r][i] # "QUEUED"
      BY <2>1, <3>1, <3>3 DEF PollGives, Active, TypeOK, OneInFlight
    <3> QED
      BY <3>2, <3>3
  <2>7. JournalOK(i)' /\ BaseOK(i)'
    BY <2>4, <2>5, <2>6 DEF JournalOK, BaseOK
  <2>8. MachineOK(i)'
    BY <2>2, <2>4 DEF MachineInv, MachineOK
  <2>9. ASSUME NEW m \in late, m.by = i PROVE LateOK(m)'
    <3>1. m.job \in Rollouts
      BY DEF TypeOK, Messages
    <3>2. job[m.job][i] \in InFlight \cup Terminal /\ Honest(m)
      BY <2>9 DEF LateInv, LateOK
    <3>3. /\ job'[m.job][i] \in InFlight \cup Terminal /\ signed'[m.job] = signed[m.job]
          /\ job'[m.job][i] \in InFlight => job[m.job][i] \in InFlight \/ Claimed(m.job, i)
      BY <3>1, <3>2, ClaimedKept
    <3>4. ~Claimed(m.job, i)
      BY <3>2 DEF Claimed, InFlight, Terminal
    <3> QED
      BY <2>2, <2>9, <3>2, <3>3, <3>4 DEF LateOK, Honest
  <2>10. MachineGoal(i)
    BY <2>2, <2>7, <2>8, <2>9 DEF MachineGoal
  <2> QED
    BY <1>a, <2>2, <2>3, <2>10
<1>26. ASSUME NEW i \in Installations, Finish(i) PROVE Goal
  <2> DEFINE r == journal[i].job
             m == Message(r, i, Phase(i))
  <2>1. Phase(i) \in Phases /\ Phase(i) \in Terminal /\ at[i] = "idle" /\ Phase(i) \notin InFlight
    BY <1>26 DEF Finish, Phases, Terminal, InFlight, AtInv, Steps
  <2>2. /\ journal[i] # Empty /\ r \in Rollouts
        /\ m \in Messages /\ m.by = i /\ m.job = r /\ m.status = Phase(i)
    BY <2>1, JournalType, MessageType DEF Message
  <2>3. Reported(m) /\ late' = late /\ signed' = signed
    BY <1>26, <2>2, RequestEffect DEF Finish
  <2>4. /\ journal'[i] = Empty /\ UNCHANGED <<at, link, running, base>>
        /\ \A j \in Installations : j # i => journal'[j] = journal[j]
    BY <1>26 DEF Finish, agentVars
  <2>5. \A q \in Rollouts : job'[q][i] \in InFlight => q # r /\ job[q][i] \in InFlight
    BY <2>1, <2>2, <2>3 DEF Reported, InFlight, Terminal
  <2>6. JournalOK(i)' /\ BaseOK(i)'
    BY <2>4, <2>5 DEF JournalOK, BaseInv, BaseOK
  <2>7. MachineOK(i)'
    <3>1. running[i] = link[i]
      BY <1>26 DEF Finish, MachineInv, MachineOK
    <3> QED
      BY <2>1, <2>4, <3>1 DEF MachineOK, Empty
  <2>8. ASSUME NEW n \in late, n.by = i PROVE LateOK(n)'
    <3>1. n.job \in Rollouts
      BY DEF TypeOK, Messages
    <3>2. job[n.job][i] \in InFlight \cup Terminal /\ Honest(n)
      BY <2>8 DEF LateInv, LateOK
    <3>3. job'[n.job][i] \in InFlight \cup Terminal
      BY <3>1, <3>2, ClaimedKept
    <3> QED
      BY <2>3, <2>5, <2>8, <3>1, <3>2, <3>3 DEF LateOK, Honest
  <2>9. MachineGoal(i)
    BY <2>3, <2>6, <2>7, <2>8 DEF MachineGoal
  <2> QED
    BY <1>a, <2>3, <2>4, <2>9
<1> HIDE <1>t, <1>p DEF Inv, Phase
<1>27. Goal
  BY <1>1, <1>2, <1>3, <1>4, <1>5, <1>6, <1>7, <1>8, <1>9, <1>10, <1>11, <1>12, <1>13, <1>14,
     <1>15, <1>16, <1>17, <1>18, <1>19, <1>20, <1>21, <1>22, <1>23, <1>24, <1>25, <1>26
  DEF Next, Admin, Local, Net, Fault
<1> QED
  BY <1>27 DEF Goal
-----------------------------------------------------------------------------
(* The invariant is inductive together with the order of the machines.     *)
LEMMA InvStep == Inv /\ CanaryFirst /\ [Next]_vars => Inv' /\ CanaryFirst'
<1> SUFFICES ASSUME Inv, CanaryFirst, [Next]_vars PROVE Inv' /\ CanaryFirst'
  OBVIOUS
<1>1. TypeOK' /\ AtInv'
  BY TypeStep DEF Inv
<1>2. ServerMove
  BY ServerStep
<1>3. NoneInv' /\ OneInFlight' /\ CanaryFirst'
  BY <1>1, <1>2, ServerInvStep DEF Inv
<1>4. \A i \in Installations : MachineGoal(i)
  BY <1>2, MachineStep
<1>5. JournalInv' /\ MachineInv' /\ BaseInv'
  BY <1>4 DEF MachineGoal, JournalInv, MachineInv, BaseInv
<1>6. \A m \in late' : m.by \in Installations
  BY <1>1 DEF TypeOK, Messages
<1>7. LateInv'
  BY <1>4, <1>6 DEF MachineGoal, LateInv
<1> QED
  BY <1>1, <1>3, <1>5, <1>7 DEF Inv

(* The invariant and the order hold in every reachable state.              *)
LEMMA Invariance == Spec => [](Inv /\ CanaryFirst)
<1>1. Init => Inv /\ CanaryFirst
  BY InvInit DEF Init, CanaryFirst, Targets
<1> QED
  BY <1>1, InvStep, PTL DEF Spec

(* A job that is in flight and that no updater can verify has changed      *)
(* nothing on its machine.                                                 *)
LEMMA RefusedUntouched ==
    ASSUME Inv, NEW r \in Rollouts, NEW i \in Installations, job[r][i] \in InFlight, ~signed[r]
    PROVE  link[i] = base[i] /\ running[i] = base[i]
<1>1. journal[i] # Empty => journal[i].job # r /\ journal[i] \in Journals
  BY DEF Inv, TypeOK, JournalInv, JournalOK
<1>2. base[i] = link[i]
  BY <1>1 DEF Inv, BaseInv, BaseOK
<1>3. CASE journal[i] = Empty
  BY <1>2, <1>3 DEF Inv, MachineInv, MachineOK
<1>4. CASE journal[i] # Empty
  <2>1. journal[i].job \in Rollouts /\ Phase(i) \in Phases
    BY <1>1, <1>4 DEF Phase, Journals
  <2>2. job[journal[i].job][i] \notin InFlight
    BY <1>1, <1>4, <2>1 DEF Inv, OneInFlight
  <2>3. Phase(i) \in {"SUCCEEDED", "FAILED", "ROLLED_BACK"}
    BY <1>4, <2>1, <2>2 DEF Inv, JournalInv, JournalOK, Terminal, Phases
  <2> QED
    BY <1>2, <2>3 DEF Inv, MachineInv, MachineOK
<1> QED
  BY <1>3, <1>4

(* A report that settles a job that is in flight says what is on the       *)
(* machine.                                                                *)
LEMMA HonestOutcome ==
    ASSUME Inv, NEW r \in Rollouts, NEW i \in Installations, job[r][i] \in InFlight,
           journal[i] # Empty, journal[i].job = r
    PROVE  /\ Phase(i) = "SUCCEEDED" => link[i] = release[r] /\ running[i] = release[r]
           /\ Phase(i) \in {"FAILED", "ROLLED_BACK"} => link[i] = base[i] /\ running[i] = base[i]
<1>1. base[i] = journal[i].old
  BY DEF Inv, BaseInv, BaseOK
<1> QED
  BY <1>1 DEF Inv, MachineInv, MachineOK, Candidate

Settles ==
    \A r \in Rollouts, i \in Installations :
        job[r][i] \in InFlight =>
           /\ job'[r][i] = "SUCCEEDED" => link[i] = release[r] /\ running[i] = release[r]
           /\ job'[r][i] \in {"FAILED", "ROLLED_BACK"} => link[i] = base[i] /\ running[i] = base[i]

(* An outcome is put on record only by an honest report or a refusal.      *)
LEMMA SettlesStep == Inv /\ [Next]_vars => Settles
<1> SUFFICES ASSUME Inv, [Next]_vars, NEW r \in Rollouts, NEW i \in Installations,
                    job[r][i] \in InFlight,
                    job'[r][i] \in {"SUCCEEDED", "FAILED", "ROLLED_BACK"}
             PROVE  /\ job'[r][i] = "SUCCEEDED" => link[i] = release[r] /\ running[i] = release[r]
                    /\ job'[r][i] \in {"FAILED", "ROLLED_BACK"} =>
                          link[i] = base[i] /\ running[i] = base[i]
  BY DEF Settles
<1> DEFINE Goal == /\ job'[r][i] = "SUCCEEDED" => link[i] = release[r] /\ running[i] = release[r]
                   /\ job'[r][i] \in {"FAILED", "ROLLED_BACK"} =>
                         link[i] = base[i] /\ running[i] = base[i]
<1>0. ServerMove
  BY ServerStep
<1> USE DEF Inv, TypeOK
<1>1. ASSUME UNCHANGED <<serverVars, base>> PROVE Goal
  BY <1>1 DEF serverVars, InFlight
<1>2. ASSUME NEW q \in Rollouts, NEW o \in Orders, NEW b \in Releases, NEW s \in BOOLEAN,
             CreateRollout(q, o, b, s)
      PROVE  Goal
  BY <1>2 DEF CreateRollout, NoneInv, InFlight
<1>3. ASSUME NEW q \in Rollouts, CancelRollout(q) PROVE Goal
  BY <1>3 DEF CancelRollout, InFlight
<1>4. ASSUME NEW q \in Rollouts, NEW j \in Installations, Claimed(q, j) PROVE Goal
  BY <1>4 DEF Claimed, Claimable, InFlight
<1>5. ASSUME NEW q \in Rollouts, NEW j \in Installations, Refused(q, j) PROVE Goal
  <2>1. q = r /\ j = i /\ ~signed[r] /\ job'[r][i] = "FAILED"
    BY <1>5 DEF Refused, InFlight
  <2> QED
    BY <2>1, RefusedUntouched
<1>6. ASSUME NEW m \in Messages, Honest(m), Reported(m) PROVE Goal
  <2>1. job[r][i] # "QUEUED" /\ job'[r][i] # job[r][i]
    BY DEF InFlight
  <2>2. m.job = r /\ m.by = i
    BY <1>6, <2>1 DEF Reported
  <2>3. job'[r][i] = m.status /\ m.status \in Terminal
    BY <1>6, <2>2 DEF Reported, Terminal
  <2>4. CASE ~signed[r] /\ m.status = "FAILED"
    BY <2>3, <2>4, RefusedUntouched
  <2>5. CASE journal[i] # Empty /\ journal[i].job = r /\ Phase(i) = m.status
    BY <2>3, <2>5, HonestOutcome
  <2> QED
    BY <1>6, <2>2, <2>3, <2>4, <2>5 DEF Honest
<1> HIDE DEF Inv, TypeOK, Goal
<1>7. Goal
  BY <1>0, <1>1, <1>2, <1>3, <1>4, <1>5, <1>6 DEF ServerMove
<1> QED
  BY <1>7 DEF Goal

-----------------------------------------------------------------------------
(* Jobs, journals, links and reports keep their types whatever is lost,    *)
(* late or fails in poll, report, execute and rollback.                    *)
THEOREM TypeCorrect == Spec => []TypeOK
BY Invariance, PTL DEF Inv

(* claimNext and the updaters' journals: one job is in flight fleet-wide,  *)
(* and a machine whose Agent is being replaced or restored holds it.       *)
THEOREM OneReplacement == Spec => []SingleReplacement
<1>1. ASSUME Inv PROVE SingleReplacement
  <2>1. ASSUME NEW i \in Installations,
               \/ at[i] # "idle"
               \/ Phase(i) \in {"INSTALLING", "LOCAL_HEALTHY", "CHECKING", "ROLLING_BACK"}
        PROVE  job[journal[i].job][i] \in InFlight
    <3>1. Phase(i) \in {"INSTALLING", "LOCAL_HEALTHY", "CHECKING", "ROLLING_BACK"}
      BY <1>1, <2>1 DEF Inv, TypeOK, AtInv, Steps
    <3>2. journal[i] # Empty
      BY <3>1 DEF Phase, Empty
    <3> QED
      BY <1>1, <3>1, <3>2 DEF Inv, JournalInv, JournalOK, Terminal
  <2>2. \A q, r \in Rollouts, i, j \in Installations :
          job[q][i] \in InFlight /\ job[r][j] \in InFlight => <<q, i>> = <<r, j>>
    BY <1>1 DEF Inv, OneInFlight
  <2> QED
    BY <2>1, <2>2 DEF SingleReplacement
<1> QED
  BY <1>1, Invariance, PTL

(* claimNext: a machine is not touched before every machine in front of it *)
(* in its rollout has succeeded.                                           *)
THEOREM CanaryGoesFirst == Spec => []CanaryFirst
BY Invariance, PTL

(* report: the outcome the service records is what is on the machine, also *)
(* when the report is late or is made twice.                               *)
THEOREM OutcomesAreTrue == Spec => OutcomeIsTrue
<1>1. Inv /\ [Next]_vars => [Settles]_vars
  BY SettlesStep
<1> QED
  BY <1>1, Invariance, PTL DEF Spec, OutcomeIsTrue, Settles
=============================================================================
