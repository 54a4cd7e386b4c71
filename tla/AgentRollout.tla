---------------------------- MODULE AgentRollout ----------------------------
(***************************************************************************)
(* Agent updates: AgentUpdatesService hands out the jobs of a rollout, and *)
(* the agent-updater daemon of every machine downloads, installs, checks   *)
(* and reports one job at a time from a journal on its disk.               *)
(*                                                                         *)
(* Every handler of the service runs under one advisory lock, so it is one *)
(* step.  A request of the updater is handled and answered, handled but    *)
(* not answered, or given up on and handled later or never.  The updater   *)
(* may crash between any two writes to its disk; what it does between two  *)
(* of them is one step.  A call that fails and changes nothing is no step. *)
(***************************************************************************)
EXTENDS Naturals, Sequences, FiniteSets

CONSTANTS
    Installations,  \* (server, service unit) pairs with an updater
    MaxRollouts,    \* bound: rollouts an administrator creates
    Releases,       \* uploaded binaries
    Legacy,         \* the binary that was there before
    MaxFailures     \* bound: crashes, lost or late requests, failed checks

ASSUME RolloutAssumption ==
    /\ Legacy \notin Releases
    /\ MaxRollouts \in Nat /\ MaxFailures \in Nat

VARIABLES
    \* The service's database
    rollout,   \* AgentRollout.status
    order,     \* the installations of a rollout by position, canary first
    release,   \* the release of a rollout
    signed,    \* can the updaters verify its manifest with the pinned key?
    job,       \* AgentUpdateJob.status; activeKey is set while Active
    \* The machines
    journal,   \* job.json
    link,      \* the binary the Agent's entry is linked to
    running,   \* the binary the Agent's process executes
    recorded,  \* current.json: the binary whose version is on record
    at,        \* where the updater is in execute or rollback
    late,      \* reports the updater has given up on
    online,    \* does the control plane still answer?
    \* History
    base,      \* the binary an installation had when its job was claimed
    failures

serverVars == <<rollout, order, release, signed, job>>
agentVars == <<link, running, recorded>>
vars == <<serverVars, journal, agentVars, at, late, online, base, failures>>

Rollouts == 1 .. MaxRollouts
Binaries == Releases \cup {Legacy}
Terminal == {"SUCCEEDED", "ROLLED_BACK", "FAILED", "CANCELED"}
InFlight == {"DOWNLOADING", "VERIFYING", "INSTALLING", "CHECKING", "ROLLING_BACK"}
RolloutStates == {"NONE", "RUNNING", "PAUSED", "CANCELED", "SUCCEEDED"}
Phases == {"DOWNLOADING", "VERIFYING", "INSTALLING", "LOCAL_HEALTHY", "CHECKING",
           "ROLLING_BACK", "ROLLED_BACK", "SUCCEEDED", "FAILED"}
Steps == {"idle", "switched", "restarted", "recorded",
          "relink", "relinked", "returned", "restored"}

Empty == [phase |-> "none"]
Journals == [job : Rollouts, phase : Phases, old : Binaries]
Targets(r) == {order[r][n] : n \in DOMAIN order[r]}

Init ==
    /\ rollout = [r \in Rollouts |-> "NONE"]
    /\ order = [r \in Rollouts |-> <<>>]
    /\ release = [r \in Rollouts |-> Legacy]
    /\ signed = [r \in Rollouts |-> FALSE]
    /\ job = [r \in Rollouts |-> [i \in Installations |-> "NONE"]]
    /\ journal = [i \in Installations |-> Empty]
    /\ link = [i \in Installations |-> Legacy]
    /\ running = [i \in Installations |-> Legacy]
    /\ recorded = [i \in Installations |-> Legacy]
    /\ at = [i \in Installations |-> "idle"]
    /\ late = {} /\ online = TRUE
    /\ base = [i \in Installations |-> Legacy]
    /\ failures = 0

Fail == failures < MaxFailures /\ failures' = failures + 1

-----------------------------------------------------------------------------
(* The service.  activeKey makes a job the only open one of its machine.   *)
Active(r, i) == job[r][i] \notin Terminal \cup {"NONE"}

CreateRollout(r, o, b, s) ==
    /\ rollout[r] = "NONE"
    /\ \A q \in Rollouts : q < r => rollout[q] # "NONE"
    /\ \A n \in DOMAIN o, q \in Rollouts : ~Active(q, o[n])
    /\ rollout' = [rollout EXCEPT ![r] = "RUNNING"]
    /\ order' = [order EXCEPT ![r] = o]
    /\ release' = [release EXCEPT ![r] = b]
    /\ signed' = [signed EXCEPT ![r] = s]
    /\ job' = [job EXCEPT ![r] =
                 [i \in Installations |-> IF \E n \in DOMAIN o : o[n] = i THEN "QUEUED" ELSE "NONE"]]
    /\ IF s THEN UNCHANGED failures ELSE Fail
    /\ UNCHANGED <<online, journal, agentVars, at, late, base>>

CancelRollout(r) ==
    /\ rollout[r] \in {"RUNNING", "PAUSED"}
    /\ rollout' = [rollout EXCEPT ![r] = "CANCELED"]
    /\ job' = [job EXCEPT ![r] =
                 [i \in Installations |-> IF @[i] = "QUEUED" THEN "CANCELED" ELSE @[i]]]
    /\ UNCHANGED <<online, order, release, signed, journal, agentVars, at, late, base, failures>>

Before(r, i) ==
    {order[r][m] : m \in {k \in DOMAIN order[r] :
                            \E n \in DOMAIN order[r] : k < n /\ order[r][n] = i}}

(* Mutant: the next machine does not wait for the canary.                  *)
ClaimableInAnyOrder(r, i) ==
    /\ rollout[r] = "RUNNING"
    /\ \A q \in Rollouts, j \in Installations : job[q][j] \notin InFlight

(* Mutant: only the jobs of the same rollout are counted.                  *)
ClaimablePerRollout(r, i) ==
    /\ rollout[r] = "RUNNING"
    /\ \A j \in Installations : job[r][j] \notin InFlight
    /\ \A j \in Before(r, i) : job[r][j] = "SUCCEEDED"

(* One job in flight fleet-wide, and the machines before it have succeeded. *)
Claimable(r, i) ==
    /\ rollout[r] = "RUNNING"
    /\ \A q \in Rollouts, j \in Installations : job[q][j] \notin InFlight
    /\ \A j \in Before(r, i) : job[r][j] = "SUCCEEDED"

(* poll gives out the open job of the installation, claimed before or now. *)
PollGives(r, i) ==
    /\ Active(r, i)
    /\ job[r][i] = "QUEUED" => Claimable(r, i)

MarkClaimed(r, i) ==
    /\ job' = IF job[r][i] = "QUEUED" THEN [job EXCEPT ![r][i] = "DOWNLOADING"] ELSE job
    /\ base' = IF job[r][i] = "QUEUED" THEN [base EXCEPT ![i] = link[i]] ELSE base
    /\ UNCHANGED <<rollout, order, release, signed>>

(* Mutant: a report that was accepted before is refused.                   *)
CanReportOnce(from, to) ==
    /\ from \notin Terminal
    /\ \/ to = "ROLLING_BACK" /\ from \in {"INSTALLING", "CHECKING"}
       \/ to \in {"FAILED", "ROLLED_BACK"}
       \/ <<from, to>> \in {<<"DOWNLOADING", "VERIFYING">>, <<"VERIFYING", "INSTALLING">>,
                            <<"INSTALLING", "CHECKING">>, <<"CHECKING", "SUCCEEDED">>}

CanReport(from, to) ==
    \/ from = to
    \/ /\ from \notin Terminal
       /\ \/ to = "ROLLING_BACK" /\ from \in {"INSTALLING", "CHECKING"}
          \/ to \in {"FAILED", "ROLLED_BACK"}
          \/ <<from, to>> \in {<<"DOWNLOADING", "VERIFYING">>, <<"VERIFYING", "INSTALLING">>,
                               <<"INSTALLING", "CHECKING">>, <<"CHECKING", "SUCCEEDED">>}

(* current() of the updater matches the release: file hash and version.    *)
Match(r, i) == link[i] = release[r] /\ recorded[i] = link[i]

Accepts(m) ==
    /\ job[m.job][m.by] \notin {"NONE", "QUEUED"}
    /\ CanReport(job[m.job][m.by], m.status)
    /\ m.status = "SUCCEEDED" => m.match

(* What a report that is accepted writes: a failure pauses the rollout and *)
(* cancels its queued jobs, the last success completes it.                 *)
Apply(m) ==
    LET r == m.job
        failed == m.status \in {"FAILED", "ROLLED_BACK"}
        all == [i \in Installations |->
                  IF i = m.by THEN m.status
                  ELSE IF failed /\ job[r][i] = "QUEUED" THEN "CANCELED" ELSE job[r][i]]
    IN
    IF job[r][m.by] \in Terminal THEN UNCHANGED <<rollout, job>>
    ELSE
    /\ job' = [job EXCEPT ![r] = all]
    /\ rollout' = [rollout EXCEPT ![r] =
                     IF failed THEN "PAUSED"
                     ELSE IF m.status = "SUCCEEDED" /\ \A i \in Targets(r) : all[i] = "SUCCEEDED"
                     THEN "SUCCEEDED" ELSE @]

-----------------------------------------------------------------------------
(* Requests of the updater.                                                *)
Messages == [job : Rollouts, by : Installations, status : InFlight \cup Terminal,
             match : BOOLEAN]
Message(r, i, status) == [job |-> r, by |-> i, status |-> status, match |-> Match(r, i)]

Answered(m) == online /\ Accepts(m) /\ Apply(m) /\ UNCHANGED <<order, release, signed, late>>

Unanswered(m) ==
    /\ \/ Accepts(m) /\ Apply(m) /\ UNCHANGED late
       \/ late' = late \cup {m} /\ UNCHANGED <<rollout, job>>
    /\ UNCHANGED <<order, release, signed>>

(* A report the updater no longer waits for is handled after all.          *)
LateReport(m) ==
    /\ m \in late
    /\ late' = late \ {m}
    /\ IF Accepts(m) THEN Apply(m) ELSE UNCHANGED <<rollout, job>>
    /\ UNCHANGED <<online, order, release, signed, journal, agentVars, at, base, failures>>

(* tick without a journal: the job is verified and put in the journal.     *)
Poll(i) ==
    /\ online /\ journal[i] = Empty
    /\ \E r \in Rollouts :
        /\ PollGives(r, i) /\ signed[r]
        /\ MarkClaimed(r, i)
        /\ journal' = [journal EXCEPT ![i] =
                         [job |-> r, phase |-> "DOWNLOADING", old |-> link[i]]]
    /\ UNCHANGED <<online, agentVars, at, late, failures>>

(* Its manifest cannot be verified: reported as FAILED without a journal.  *)
PollRefused(i) ==
    /\ online /\ journal[i] = Empty
    /\ \E r \in Rollouts :
        /\ PollGives(r, i) /\ ~signed[r]
        /\ LET failed == [j \in Installations |->
                            IF j = i THEN "FAILED"
                            ELSE IF job[r][j] = "QUEUED" THEN "CANCELED" ELSE job[r][j]]
           IN  job' = [job EXCEPT ![r] = failed]
        /\ rollout' = [rollout EXCEPT ![r] = "PAUSED"]
    /\ UNCHANGED <<online, order, release, signed, journal, agentVars, at, late, base, failures>>

(* No answer to a poll: the updater has given up on it and may be at work, *)
(* or the report that follows a job it refuses is late.                    *)
PollUnanswered(i) ==
    /\ Fail
    /\ \E r \in Rollouts :
        /\ PollGives(r, i)
        /\ MarkClaimed(r, i)
        /\ late' \in {late} \cup
                IF signed[r] \/ journal[i] # Empty THEN {}
                ELSE {late \cup {Message(r, i, "FAILED")}}
    /\ UNCHANGED <<online, journal, agentVars, at>>

-----------------------------------------------------------------------------
(* The updater's execute.                                                  *)
Phase(i) == journal[i].phase
Candidate(i) == release[journal[i].job]
SetPhase(i, phase) == journal' = [journal EXCEPT ![i].phase = phase]
Goto(i, step) == at' = [at EXCEPT ![i] = step]

(* The phase a journal is advanced to when the report of it is accepted.   *)
NextPhase == [DOWNLOADING |-> "VERIFYING", VERIFYING |-> "INSTALLING",
              LOCAL_HEALTHY |-> "CHECKING"]

(* download and the verifications pass, the candidate runs.                *)
MayAdvance(i) ==
    /\ at[i] = "idle" /\ journal[i] # Empty
    /\ Phase(i) \in DOMAIN NextPhase
    /\ Phase(i) = "DOWNLOADING" => Active(journal[i].job, i)
    /\ Phase(i) = "LOCAL_HEALTHY" => running[i] = Candidate(i)

(* advance: first the report, then the journal.                            *)
Advance(i) ==
    /\ MayAdvance(i)
    /\ Answered(Message(journal[i].job, i, NextPhase[Phase(i)]))
    /\ SetPhase(i, NextPhase[Phase(i)])
    /\ UNCHANGED <<online, agentVars, at, base, failures>>

AdvanceUnanswered(i) ==
    /\ Fail /\ MayAdvance(i)
    /\ Unanswered(Message(journal[i].job, i, NextPhase[Phase(i)]))
    /\ UNCHANGED <<online, journal, agentVars, at, base>>

(* The file does not have the hash of the manifest; nothing was replaced.  *)
BadArtifact(i) ==
    /\ Fail
    /\ Phase(i) \in {"DOWNLOADING", "VERIFYING"}
    /\ SetPhase(i, "FAILED")
    /\ UNCHANGED <<online, serverVars, agentVars, at, late, base>>

(* INSTALLING: switchLink, unless the candidate already runs ...           *)
SwitchLink(i) ==
    /\ Phase(i) = "INSTALLING" /\ at[i] = "idle"
    /\ link[i] # Candidate(i) \/ running[i] # Candidate(i)
    /\ link' = [link EXCEPT ![i] = Candidate(i)]
    /\ Goto(i, "switched")
    /\ UNCHANGED <<online, serverVars, journal, running, recorded, late, base, failures>>

(* ... systemctl restart ...                                               *)
Restart(i) ==
    /\ at[i] = "switched"
    /\ running' = [running EXCEPT ![i] = link[i]]
    /\ Goto(i, "restarted")
    /\ UNCHANGED <<online, serverVars, journal, link, recorded, late, base, failures>>

(* ... the health check, and current.json ...                              *)
Record(i) ==
    /\ Phase(i) = "INSTALLING" /\ at[i] \in {"idle", "restarted"}
    /\ link[i] = Candidate(i) /\ running[i] = Candidate(i)
    /\ recorded' = [recorded EXCEPT ![i] = Candidate(i)]
    /\ Goto(i, "recorded")
    /\ UNCHANGED <<online, serverVars, journal, link, running, late, base, failures>>

(* Mutant: a phase that tick does not know.                                *)
SaveHealthyRenamed(i) ==
    /\ at[i] = "recorded"
    /\ SetPhase(i, "HEALTHY") /\ Goto(i, "idle")
    /\ UNCHANGED <<online, serverVars, agentVars, late, base, failures>>

(* ... then the journal.                                                   *)
SaveHealthy(i) ==
    /\ at[i] = "recorded"
    /\ SetPhase(i, "LOCAL_HEALTHY") /\ Goto(i, "idle")
    /\ UNCHANGED <<online, serverVars, agentVars, late, base, failures>>

(* The last health check; SUCCEEDED is saved before it is reported.        *)
Confirm(i) ==
    /\ Phase(i) = "CHECKING" /\ at[i] = "idle" /\ running[i] = Candidate(i)
    /\ SetPhase(i, "SUCCEEDED")
    /\ UNCHANGED <<online, serverVars, agentVars, at, late, base, failures>>

(* A hash, the link, the restart or a health check fails.                  *)
Unhealthy(i) ==
    \/ Phase(i) = "INSTALLING" /\ at[i] \in {"idle", "switched", "restarted"}
    \/ Phase(i) \in {"LOCAL_HEALTHY", "CHECKING"} /\ at[i] = "idle"

(* Mutant: the job is given up with the candidate still linked.            *)
BeginRollbackAsFailed(i) ==
    /\ Fail /\ Unhealthy(i)
    /\ SetPhase(i, "FAILED") /\ Goto(i, "idle")
    /\ UNCHANGED <<online, serverVars, agentVars, late, base>>

(* rollback persists its intent before it touches the link.                *)
BeginRollback(i) ==
    /\ Fail /\ Unhealthy(i)
    /\ SetPhase(i, "ROLLING_BACK") /\ Goto(i, "relink")
    /\ UNCHANGED <<online, serverVars, agentVars, late, base>>

(* The deferred report of a rollback that did not come to its end is best  *)
(* effort: its answer is not looked at.                                    *)
BestEffort(i) ==
    Unanswered(Message(journal[i].job, i, "ROLLING_BACK"))

(* The intent cannot be saved, but the deferred save or the report may be. *)
BeginRollbackFails(i) ==
    /\ Fail /\ Unhealthy(i)
    /\ \/ SetPhase(i, "ROLLING_BACK")
       \/ UNCHANGED journal
    /\ BestEffort(i)
    /\ Goto(i, "idle")
    /\ UNCHANGED <<online, agentVars, base>>

ResumeRollback(i) ==
    /\ Phase(i) = "ROLLING_BACK" /\ at[i] = "idle"
    /\ Goto(i, "relink")
    /\ UNCHANGED <<online, serverVars, journal, agentVars, late, base, failures>>

(* Mutant: the rollback is reported before the old binary is restored.     *)
RelinkReported(i) ==
    /\ at[i] = "relink"
    /\ Answered(Message(journal[i].job, i, "ROLLING_BACK"))
    /\ link' = [link EXCEPT ![i] = journal[i].old]
    /\ Goto(i, "relinked")
    /\ UNCHANGED <<online, journal, running, recorded, base, failures>>

Relink(i) ==
    /\ at[i] = "relink"
    /\ link' = [link EXCEPT ![i] = journal[i].old]
    /\ Goto(i, "relinked")
    /\ UNCHANGED <<online, serverVars, journal, running, recorded, late, base, failures>>

RestartOld(i) ==
    /\ at[i] = "relinked"
    /\ running' = [running EXCEPT ![i] = link[i]]
    /\ Goto(i, "returned")
    /\ UNCHANGED <<online, serverVars, journal, link, recorded, late, base, failures>>

RecordOld(i) ==
    /\ at[i] = "returned" /\ running[i] = journal[i].old
    /\ recorded' = [recorded EXCEPT ![i] = journal[i].old]
    /\ Goto(i, "restored")
    /\ UNCHANGED <<online, serverVars, journal, link, running, late, base, failures>>

SaveRolledBack(i) ==
    /\ at[i] = "restored"
    /\ SetPhase(i, "ROLLED_BACK") /\ Goto(i, "idle")
    /\ UNCHANGED <<online, serverVars, agentVars, late, base, failures>>

(* The old file, its restart, its health check or a write fails.           *)
RollbackFails(i) ==
    /\ Fail
    /\ at[i] \in {"relink", "relinked", "returned", "restored"}
    /\ \/ UNCHANGED journal
       \/ at[i] = "restored" /\ SetPhase(i, "ROLLED_BACK")
    /\ BestEffort(i)
    /\ Goto(i, "idle")
    /\ UNCHANGED <<online, agentVars, base>>

(* The outcome is accepted: a receipt, and the journal is removed.         *)
Finish(i) ==
    /\ Phase(i) \in {"SUCCEEDED", "ROLLED_BACK", "FAILED"}
    /\ Answered(Message(journal[i].job, i, Phase(i)))
    /\ journal' = [journal EXCEPT ![i] = Empty]
    /\ UNCHANGED <<online, agentVars, at, base, failures>>

(* No answer, or a crash before the journal is removed: reported again.    *)
FinishUnanswered(i) ==
    /\ Fail
    /\ Phase(i) \in {"SUCCEEDED", "ROLLED_BACK", "FAILED"}
    /\ Unanswered(Message(journal[i].job, i, Phase(i)))
    /\ UNCHANGED <<online, journal, agentVars, at, base>>

(* The updater dies: the next tick starts from the journal.                *)
Crash(i) ==
    /\ Fail
    /\ at[i] # "idle"
    /\ Goto(i, "idle")
    /\ UNCHANGED <<online, serverVars, journal, agentVars, late, base>>

(* From some time on the control plane answers no more.                    *)
Outage ==
    /\ Fail
    /\ online /\ online' = FALSE
    /\ UNCHANGED <<serverVars, journal, agentVars, at, late, base>>

(* systemd starts an Agent that died again, from the link.                 *)
AgentRestarts(i) ==
    /\ running[i] # link[i]
    /\ running' = [running EXCEPT ![i] = link[i]]
    /\ UNCHANGED <<online, serverVars, journal, link, recorded, at, late, base, failures>>

-----------------------------------------------------------------------------
Orders == {o \in UNION {[1 .. n -> Installations] : n \in 1 .. Cardinality(Installations)} :
             \A m, n \in DOMAIN o : o[m] = o[n] => m = n}

Admin ==
    \E r \in Rollouts :
        \/ CancelRollout(r)
        \/ \E o \in Orders, b \in Releases, s \in BOOLEAN : CreateRollout(r, o, b, s)

Local(i) ==
    \/ SwitchLink(i) \/ Restart(i) \/ Record(i) \/ SaveHealthy(i) \/ Confirm(i)
    \/ ResumeRollback(i) \/ Relink(i) \/ RestartOld(i) \/ RecordOld(i) \/ SaveRolledBack(i)

Net(i) == Poll(i) \/ PollRefused(i) \/ Advance(i) \/ Finish(i)

Fault(i) ==
    \/ PollUnanswered(i) \/ AdvanceUnanswered(i) \/ FinishUnanswered(i)
    \/ BadArtifact(i) \/ BeginRollback(i) \/ BeginRollbackFails(i) \/ RollbackFails(i)
    \/ Crash(i) \/ AgentRestarts(i)

Next ==
    \/ Admin \/ Outage
    \/ \E m \in late : LateReport(m)
    \/ \E i \in Installations : Local(i) \/ Net(i) \/ Fault(i)

Spec == Init /\ [][Next]_vars

(* The daemon ticks every 15 seconds and carries on from its journal; its   *)
(* requests get through again and again unless the control plane is gone.  *)
FairSpec ==
    /\ Spec
    /\ \A i \in Installations : WF_vars(Local(i)) /\ WF_vars(Net(i))

-----------------------------------------------------------------------------
TypeOK ==
    /\ rollout \in [Rollouts -> RolloutStates]
    /\ order \in [Rollouts -> Orders \cup {<<>>}]
    /\ release \in [Rollouts -> Binaries] /\ signed \in [Rollouts -> BOOLEAN]
    /\ job \in [Rollouts -> [Installations -> {"NONE", "QUEUED"} \cup InFlight \cup Terminal]]
    /\ journal \in [Installations -> Journals \cup {Empty}]
    /\ link \in [Installations -> Binaries] /\ running \in [Installations -> Binaries]
    /\ recorded \in [Installations -> Binaries] /\ base \in [Installations -> Binaries]
    /\ at \in [Installations -> Steps]
    /\ late \subseteq Messages
    /\ online \in BOOLEAN /\ failures \in Nat

(* docs/adr/0016: "At most one job is in flight fleet-wide".  And it is    *)
(* the job the machines are at work on: an updater that has begun to       *)
(* replace or to restore the binary of its Agent holds the one slot, even  *)
(* after lost answers, crashes and reports that arrive late.               *)
SingleReplacement ==
    /\ \A q, r \in Rollouts, i, j \in Installations :
        job[q][i] \in InFlight /\ job[r][j] \in InFlight => <<q, i>> = <<r, j>>
    /\ \A i \in Installations :
        at[i] # "idle" \/ Phase(i) \in {"INSTALLING", "LOCAL_HEALTHY", "CHECKING", "ROLLING_BACK"}
            => job[journal[i].job][i] \in InFlight

(* "Only confirmed success allows the next position to start": no machine  *)
(* of a rollout has its binary replaced unless those before it run the     *)
(* release.                                                                *)
CanaryFirst ==
    \A r \in Rollouts : \A i \in Targets(r) :
        job[r][i] \notin {"QUEUED", "CANCELED"} =>
            \A j \in Before(r, i) : job[r][j] = "SUCCEEDED"

(* What the service records is true when it records it: SUCCEEDED only of  *)
(* a machine whose Agent is linked to the release and runs it, ROLLED_BACK *)
(* and FAILED only of one that has the binary it had before.               *)
OutcomeIsTrue ==
    [][\A r \in Rollouts, i \in Installations :
         job[r][i] \in InFlight =>
            /\ job'[r][i] = "SUCCEEDED" => link[i] = release[r] /\ running[i] = release[r]
            /\ job'[r][i] \in {"FAILED", "ROLLED_BACK"} =>
                  link[i] = base[i] /\ running[i] = base[i]]_vars

(* A rollback whose intent could not be saved but was reported: the server *)
(* waits for ROLLED_BACK, the journal goes on to CHECKING and SUCCEEDED.   *)
Wedged(r, i) ==
    /\ job[r][i] = "ROLLING_BACK"
    /\ journal[i] # Empty /\ journal[i].job = r
    /\ Phase(i) \in {"LOCAL_HEALTHY", "SUCCEEDED"}

(* "It finishes local rollback even when the control plane is              *)
(* unreachable": no request need ever be answered.                         *)
RollbackCompletes ==
    (\E i \in Installations : Phase(i) = "ROLLING_BACK") ~>
        \A i \in Installations : Phase(i) # "ROLLING_BACK"

(* A rollout does not stand still: all machines are done, or it is paused  *)
(* or canceled, unless the control plane is gone or a job is wedged.       *)
RolloutSettles ==
    (\E r \in Rollouts : rollout[r] = "RUNNING") ~>
        \/ \A r \in Rollouts : rollout[r] # "RUNNING"
        \/ ~online
        \/ \E r \in Rollouts, i \in Installations : Wedged(r, i)
=============================================================================
