# TLA+ models of the Hysteria2 control plane

The repository is a control plane for a proxy service: an API and a standalone
sync worker (`apps/api`, NestJS and Prisma over PostgreSQL), a web
application (`apps/web`), and agents that run on the proxy hosts (`ops/`, Go).
Members buy plans and traffic packs, use VLESS and Hysteria endpoints, are billed
per byte, and are cut off when the entitlement is used up. Most of what can go
wrong goes wrong *between* processes: several API processes, the worker, one
agent per host and a payment gateway share rows and calls, each of them can die
between two steps, and every call can be lost, repeated or answered late.

This directory holds models of those protocols, TLC runs over small instances,
and proofs checked by TLAPS. `PROJECT.json` is the machine-readable index: the
components, the runs, for every definition the lines it translates, the hazards,
and the theorems. Source paths below are relative to `src/`.

## Inventory

| Part | State it keeps | Operations | Hard behaviour | What makes it correct |
|---|---|---|---|---|
| Traffic claim and import (`usage-sync`, `ops/xray-agent`, `EntitlementService.applyTrafficBatch`) | xray counters, the agent's pending batch in memory and in its state file, `UsageImportBatch` rows, billed usage | claim, import, check access, enqueue revocation, acknowledge | agent and worker restarts, lost and late acknowledgements, two processes that sync one endpoint | every byte billed once or lost in one known window; nobody over quota is forgotten |
| Access revocation (`kick-service`) and provisioning | `NodeAccessRevocation` rows with lease and backoff; the users of an endpoint | enqueue, claim, check, kick, finish; read access, provision | leases that lapse, stale snapshots, locks private to a process | a cut-off member stays off; success means the kick happened; failures are retried for ever |
| Node runtime commands (`node-ops`, `serviceControl` of the agent) | `NodeRuntimeCommand` rows, `Node.runtimeState`, the systemd unit, the agent's memory of keys | request, stop/start/delete server, execute, recover, probe | worker crash in mid-command, lost answers, retirement during a start | one active command per endpoint; a reported stop is real; commands end; deletion stops the service |
| Epay payments (`epay`, `payments`) | `EpayPaymentAttempt` rows, orders, `EpayRefundAttempt` rows | checkout, expiry, replacement, callback, query, settle, record failure | callback against query against administrator; lost callbacks; a purchase that can no longer be granted | a payment is answered once, by the purchase or by a refund |
| Refunds (`group-buy-reconciliation.service.ts`) | the refund row, the member, the payment | query, claim, submit, query, confirm, exception, fallback purchase | no answer to a submission; two reconcilers of one row | submitted once; confirmed only if carried out; never money and purchase |
| Server traffic guard | server policy, usage per cycle | collect, disable, request stop | cycle boundaries, stops that race with commands | a server over its limit stops once per cycle |
| Sync worker (`sync-worker.ts`) | timers and in-flight promises of some thirty recurring tasks | tick, timeout, reschedule, shut down | an operation that never settles | a task never overlaps with itself and always runs again |
| Wallet ledger (`wallet`) | balance, ledger entries | post, set balance, recover credit | concurrent postings with one key | balance is the sum of the ledger, never negative |
| Commerce, entitlements, scheduled plans | `Subscription` and `EntitlementGrant` rows of a customer, quotes frozen into payment attempts | purchase, renew, switch, upgrade, gift, redeem, refund, edit, activate early | a payment fulfilled on another timeline than it was quoted on; eight operations written at different times over two records of one plan | plans do not overlap, the two records agree, no plan is cut short unasked |
| Group buys | groups, members with one slot per customer, payment attempts | create, join, pay, complete, expire, cancel, leave | late and repeated payments against completion, expiry and cancellation | rewards for two or for nobody; one order per member; nobody stays blocked |
| Agent updates (`agent-updates`, `ops/agent-updater`) | rollouts and jobs; journal, link, running binary and version record of every machine | create, cancel, poll, report; download, verify, install, check, roll back | crash between any two writes, lost and late reports, control plane gone | one replacement at a time, canary first; recorded outcomes are true; a rollback ends |
| Check-in, referrals, holiday draws, gifts | one row per key | grant, reverse | concurrent claims of the last prize | once per key, within the stock |
| Campaign mail, SEO queue, backups | jobs with leases | send, publish, restore | crash in mid-job | at most one effect per job |
| Authentication, reports, settings, tickets, portal, web | rows of their own | CRUD and projections | – | not a protocol over several steps |

The worker calls the other services; API processes call them as well, on behalf
of administrators and members. They share only the database and the agents. Node
locks (`withNodeLock`) are chains of promises in one process's memory, which is
the origin of one of the disagreements below.

## Modules

Each component module holds state, actions, specification, fairness and
properties; the operators called *Mutant* are faulty variants of the definition
that follows them and are not part of any specification. The configurations
`MC*.cfg` name the component module directly, except for `MCAccessRevocation`,
which adds a symmetry set. `*Proofs` modules hold theorems.

| Module | Models | Abstract specification | Proofs |
|---|---|---|---|
| `TrafficMetering` | `syncNodeRecord` up to the acknowledgement, the agent's `claimTraffic` and `acknowledgeTraffic`, `applyTrafficBatch` | `ReliableMeter` | `TrafficMeteringProofs` |
| `AccessRevocation` | `QuotaEnforcementService`, the provisioning half of `syncNodeRecord` | – | `AccessRevocationProofs` |
| `NodeRuntime` | `NodeRuntimeCommandService`, `stopServer`, `startServer`, `deleteServer`, `serviceControl` | – | `NodeRuntimeProofs` |
| `EpayPayment` | `EpayService` from checkout to settlement, `EpayReconciliationService` | `PaymentOutcome` | `EpayPaymentProofs` |
| `EpayRefund` | `GroupBuyReconciliationService` | – | `EpayRefundProofs` |
| `AgentRollout` | `AgentUpdatesService` and the updater daemon `ops/agent-updater` | – | `AgentRolloutProofs` |
| `PlanTimeline` | the operations of commerce, entitlements, store and finance that change a standard plan | – | `PlanTimelineProofs` |
| `GroupBuy` | `GroupBuyService` in the balance-rebate mode, with the parts of Epay, wallet and account deletion that reach into a group | – | `GroupBuyProofs` |

### TrafficMetering

A process (`Procs`) is a worker or an API process; its sync of the endpoint goes
through `idle`, `claiming`, `claimed`, `imported`, `acked`. The agent's claim
handler holds `a.mu` and has three visible steps, because a crash between them
matters: reading and resetting the counters (`ClaimCollect`), writing the state
file (`ClaimPersist`), publishing and answering (`ClaimRespond`).
`applyTrafficBatch` is one serializable transaction, hence one step. The users
of a batch are checked one by one (`CheckAccess`) and queued afterwards
(`Enqueue`), as in the code. An acknowledgement whose caller gave up stays on
the wire (`lateAcks`) and may arrive at any later time. Bytes are units at the
1x rate. The handler of a revocation task reads the access (`ReadPermission`),
kicks (`Kick`) and closes the task (`CloseTask`) in calls of their own, and
`enqueue` (`Rearm`) leaves a RUNNING task alone: a restriction that an import
causes between the reading and the closing is lost with the task (`missed`, a
history variable, as is `cutOff`). Leases and provisioning are the business of
`AccessRevocation`.

### AccessRevocation

One endpoint. `handler[w][u]` is how far `processDue` of worker `w` has come with
the task of `u`; steps from the access check to the final update are inside the
node lock of `w`. Time is not modelled: a lease that runs out (`LeaseLapses`) and
a backoff that ends (`BackoffEnds`) are events. `getNodeProvisioningUsers` reads
the accounts one by one (`ReadAccess`), and a failed `PUT /users` may have
carried out some of the removals, or all of them and some of the additions. A
kick may be executed without its answer arriving (`KickFails`). `online` are the
members with a session: `checkOnlineUsers` looks only at presence rows of the
last 180 seconds with live clients, so nobody else is noticed by it.
History variables: `cutOff` (kicked while restricted, not allowed since) and
`armed` (task armed and not kicked since).

### NodeRuntime

One endpoint of one server; a command is identified by its idempotency key.
`enqueue` is two steps, the checks and the creation, because its transaction is
read committed and the unique index on active commands is what decides. The
stop that the traffic guard requests is one of the requests. The agent remembers
completed keys and answers a repeated one from memory (`Control`); a retirement
stop has a key of its own. `QuickRestart` says whether a worker can be back
within the two minutes after which `recoverAbandonedCommands` takes a command.
The transient states ACTIVATING and DEACTIVATING are left out: `control` in the
agent waits for a final state before it answers.

### EpayPayment

The attempts of one member, with the gateway's view of the order and any number
of handlers (callbacks, the worker's query, administrators). Checkout and
`settleVerifiedPayment` are serializable transactions and one step each.
`recordSettlementFailure` sets no isolation level and so runs read committed: its
read of `orderId` (`ReadOrder`) and its unconditional write of the refund
(`RecordRejection`) are two steps, and another handler's settlement can commit
between them. `overtaken` is history: the attempts to which that has happened.
What a handler carries over to its next step is state. Whether a purchase can be granted (`grantable`) may
change at any time, and a customer may open and pay the order after `expiresAt`.
`Broken` attempts have an unreadable credential
snapshot. What a settlement does to a plan or a group is the subject of
`PlanTimeline` and `GroupBuy`; gateway-test attempts are not modelled.

### EpayRefund

One refund and the reconcilers that work on it; `kind` says whether it is owed to
a group-buy member, to a member whose account was deleted, or for a purchase that
could not be granted. A reconciler reads the row once (`seen`) and acts on that
through up to three requests. `standing` counts submissions that reached the
gateway, or may have, and were not refused. With `OddAnswers` the gateway may
answer pending, closed or not_found for an order it has been paid for.
`disturbed` is history: two reconcilers were at work at once, or an answer was odd.
`crowded` says that older rows fill the worker's batch and stay in it (`Crowd`).

### AgentRollout

The handlers of `AgentUpdatesService` run under one advisory lock, so each is one
step. `at[i]` is where the updater of machine `i` is between two writes to its
disk: a crash (`Crash`) loses only that, and the next tick goes on from the journal.
A report is answered, handled without an answer, or given up on and handled
later (`late`). `base` is history: the binary a machine had when its job was
claimed, against which ROLLED_BACK and FAILED are judged. Files and hashes are
the binaries they name; `signed` says whether the pinned key verifies the manifest.

### PlanTimeline

One customer. Row `r` of `sub` and row `r` of `grant` are the two records of one
plan, `bill[r]` the orders behind it. An Epay purchase is four steps: the quote, read
outside the transaction that creates the attempt, the attempt, perhaps its
expiry, and the settlement, which applies the quoted mode and date to whatever
the timeline is by then. `stale` and `irregular` are history: a payment was
fulfilled that would not be quoted so any more; a grant was replaced whose
subscription lives on. They name exceptions of the properties, see below. An
upgrade is settled whatever the status of its attempt, since the code compares the
time of the payment with the quote's expiry (`SettleUpgrade`). An order remembers
whether it came from a RENEW or a REPLACE code, so that PlanKept can tell a
renewal from a replacement.
Quota buckets and cycles, prices, months of different length, traffic packs,
Ultra plans and the legacy checkout are left out.

### GroupBuy

Customers, groups of two, and the attempts that pay for members. Transactions
work on `Rows`, so that `abandonPendingPayments`, `preparePayment`, the fulfilment
and `advanceBalanceRebateGroup` compose as in the code. The worker's list of due
groups is read in one step and worked off in others. A member's status PAID exists
only inside a transaction in this mode and is left out. A rejected settlement and
the refund it leads to are two steps (`SettleRejected`, `RecordRejection`), as in
`EpayPayment`. A refusal of the wallet
or of the plan policy rolls the transaction back and is no step.

## Runs

Passing runs (distinct states in brackets):

| Run | Question | Bounds |
|---|---|---|
| `metering` (303,249) | Conservation, RetrySameBatch, RestrictedIsQueued, AckedIsDropped; refinement of `ReliableMeter`; BatchSettles, RestrictionReachesQueue | worker and API process, 1 member with 3 units and a quota of 1 or 2, 2 batches, 2 failures: enough for a replay in one process while the other is in the next batch, and for an import while a task is being closed |
| `revocation_two` (174,474) | NoStaleSnapshot, SucceededMeansKicked, Disconnected, Reconnected | 2 processes, 1 member, 3 changes, 2 failures: two claims of one task, a re-arming in between, a stale snapshot |
| `runtime` (239,800) | StopIsTrue, RetiredStartUndone, CommandSettles, ProjectionConverges | 1 administrator, 3 keys, 1 failure, 1 crash, the worker down for at least two minutes |
| `epay` (217,705) | AbandonedNotFulfilled, SettledIsAnswered; refinement of `PaymentOutcome`; PaidSettles | 2 attempts, one of them broken, 2 handlers, 1 failure, 2 changes of terms: a purchase refused by one handler and granted by the other |
| `refund_race` (103,512) | ConfirmedMeansRefunded, ResubmittedOnlyIfDisturbed, BothOnlyIfDisturbed, RefundSeen | worker and administrator, all three kinds of refund, odd answers, 4 failures |
| `rollout` (477,500) | SingleReplacement, CanaryFirst, OutcomeIsTrue; RollbackCompletes, RolloutSettles | 2 machines, 2 rollouts of one release in any order of machines, 2 failures: a crash or lost report in the course of a rollback, a second rollout over the remains of the first |
| `plans` (290,706) | PlansDisjoint, InStep, PlanKept | 2 plans, terms of 2 units, 2 units of time, 3 orders, refunds or edits, one payment under way: enough for a plan, a reservation and what a third operation does to both |
| `group_buy` (499,106) | RewardsTogether, PaidOnce; PurchaseUnblocked | 3 customers, 1 group of two, 3 attempts, 1 handler between its read and its refund (`MaxRecorders`): a third payer, a member who comes back, two payments of one member, a refund written over a settlement |

Processes and attempts are interchangeable, so two of each show every
interaction of two; what holds for any number is the subject of the proofs,
among it the races of several administrators over one endpoint. Bounds on
traffic, batches, changes, failures and crashes are constants named `Max...` and
appear only in guards. Deadlock is not checked where the bounded environment may
run out of events; the `NodeRuntime` runs check it, since an administrator can
always ask for something.

### Where the code and what is said about it disagree

Each of these runs is expected to end in a violation; the trace is the
counterexample.

| Run | Property | What happens |
|---|---|---|
| `revocation_api_sync` | NoStaleProvision | `POST /nodes/:id/sync` provisions from the API process, under a lock the worker does not share. ADR 0015 says both serialize in the single worker. |
| `runtime_restart` | CommandSettles | A worker back within two minutes leaves the interrupted command RUNNING for ever, and the endpoint takes no other. ADR 0004 says interrupted commands are recovered. |
| `runtime_stop` | ServerStops | `stopServer` and `deleteServer` go on when their stop was refused because another command was active (`Promise.allSettled`), and `stopServer` uses the same key every time, so the second stop replays the first one's result. `DOMAIN_MODEL.md` says durable stop commands disconnect running services, the confirmation dialog that connections will be dropped. |
| `refund_twice` | NeverResubmitted | `recordException` overwrites SUBMITTED with FAILED unconditionally; a second submission follows. The unit test says a submitted refund is never resubmitted. |

In the last case two reconcilers are needed only because the gateway is steady:
if a query of a paid order may answer pending, closed or not_found, the
check at lines 159-165 of `group-buy-reconciliation.service.ts` records the
exception before it looks whether the refund was submitted, and one reconciler
is enough to submit twice, or to refund and then grant the purchase.
ResubmittedOnlyIfDisturbed and BothOnlyIfDisturbed say that nothing else does:
crashes, failures and retries alone never lead there. RefundSeen allows a group-buy
member the fallback purchase instead of the confirmation, for the same reason.

Weaker spots are stated as exceptions of properties that hold:

- `enqueue` on a running task is a no-op. If its handler has already seen the
  member allowed, it cancels the task, and the restriction that was just enqueued
  with it; the batch is acknowledged meanwhile, so neither task nor batch is left
  (`missed`, the exception of RestrictedIsQueued and, until a new batch names the
  member, of RestrictionReachesQueue). The presence scan finds the
  member while it has a session, which is why Disconnected holds; a member
  without a session stays provisioned until a sweep runs.
- `recordSettlementFailure` reads `orderId` and writes the refund read committed.
  If another handler settles the attempt in between, the customer has the order
  and a refund (`overtaken`, the exception of OutcomeSpec and PaidOnce).
- The worker takes the ten refunds that were updated longest ago. The row of a
  member who was given the fallback purchase stays FAILED and is left as it is, so
  ten such rows keep every later refund waiting for an administrator (`crowded`,
  the exception of RefundSeen).
- not_found for an expired attempt closes it for good (`closePayment`), so a
  payment made afterwards waits for a callback that may not come, although ADR
  0010 says that missing results only update the failure projection. PaidSettles
  leaves closed attempts out.
- `rollback` saves its intent first. If that fails, its deferred function tries to
  save again and reports ROLLING_BACK; if only the report gets through, the server
  waits for ROLLED_BACK while the journal goes on to SUCCEEDED, which the server
  refuses for ever. The one slot of the fleet stays taken (`Wedged`, the exception of
  RolloutSettles).
- A payment is fulfilled with the mode and date it was quoted with (`stale`). A
  scheduled switch then starts at a date at which the current plan has not ended or
  has long ended, so plans overlap; a renewal paid late, after a reservation was
  bought, cancels the grant of the reservation and leaves its subscription.
  PlansDisjoint and PlanKept hold otherwise.
- A gift, or a code, for a customer with a reservation (`irregular`): the gift
  cancels the grant of a reservation but not its subscription, and a code works on
  the subscription that ends last, which is the reservation and not the current
  plan. InStep and PlanKept hold otherwise.
- In particular a RENEW code for the current plan takes that plan away
  (`RenewalMissesPlan`, the third exception of PlanKept), although
  `docs/DOMAIN_MODEL.md:132` says that RENEW extends the same current plan. A
  customer who has bought plan 1 and reserved plan 2 redeems a RENEW code for plan
  1: the code finds the reservation, overwrites it with a term of plan 1 from now,
  and `grantFromOrder` cancels the grant of the running plan 1. Without the
  exception TLC reaches this from the initial state in three steps.
- A customer who pays into a group that two others have completed, after coming
  back to it or because one of them paid late, keeps the slot: nothing ever frees
  it, and `resolveStandardPlanPurchasePolicy` refuses every later purchase (`Surplus`,
  the exception of PurchaseUnblocked).

Two more were met while modelling and are listed as hazards without a property: a
creator whose payment is rejected at fulfilment keeps the slot with status
PAYMENT_PENDING; and a creator whose order is fully refunded while the group is open
is rewarded all the same when the group completes.

## Fairness

- `RecurringTask` reschedules itself after every tick, whatever its outcome, so
  the steps of a sync, of `processDue`, of `processNext`, of the probe and of the
  reconciliations are weakly fair. This assumes that an operation settles: one
  that never does keeps `inFlight` set, and the task is skipped from then on
  (listed as a hazard).
- `ResolveAccess` and, as the premise of Reconnected, `SyncStart` are strongly
  fair, because `withNodeLock` chains promises first come, first served.
- `Reconcile` is strongly fair for each attempt: the query selects the attempts
  that have gone longest without one.
- The presence scan (`Notice`) is weakly fair only for members who have a
  session on an active endpoint: `collectPresence` records them and
  `checkOnlineUsers` pages through what was recorded in the last 180 seconds. Notice
  by a traffic import may happen and need not.
- The refund task's `Begin` is weakly fair for the worker, not for the
  administrator; a run that has begun goes on. It is not enabled once the batch is
  full of rows that are never updated (`crowded`); any other row that stays open is
  updated when it is looked at, and so moves behind the rest.
- In `TrafficMetering` the revocation handler is not fair: no property there
  depends on tasks being worked off.
- An updater's local steps are weakly fair, and so are its requests while the
  control plane is there: the daemon ticks every 15 seconds and carries on from its
  journal. `Outage` switches the control plane off for good; RollbackCompletes
  does not need it.
- Groups become due (`GroupDue`), and the worker's pass over them is weakly fair
  (`ListDue`, `ExpireListed`): the refund task calls `expireDueGroups` first.
  Customers need not do anything.
- `PlanTimeline` claims no liveness.
- The environment (traffic, customers, gateway, callbacks, administrators,
  crashes) is not fair. In particular all callbacks may be lost and, for
  Disconnected, no sweep need ever run.

## Proofs

All theorems hold for every value of the constants that satisfies the named
assumption of the module (bounds are naturals, the process names are distinct
from the placeholder, and the like); the sets need not be finite. The inductive
invariants of `AgentRollout`, `GroupBuy` and `PlanTimeline` were checked by TLC on
the instances of their runs before they were proved.

- `TrafficMeteringProofs`: TypeCorrect, TrafficConserved, SameBatchRetried,
  RestrictionDurable, MarkedIsDropped, ImplementsMeter. Conservation is not inductive: an
  acknowledgement must be for an imported batch, and a claimed batch must be the
  one in the state file. `Inv` adds that identities are given out in order
  (`IdsInv`), that the agent's memory and file agree outside the claim handler
  (`AgentInv`), and that whoever acknowledges has imported (`SyncInv`).
  RestrictedIsQueued needs `QueueInv` as well: a sync that has imported the
  agent's batch accounts for every restricted member, and so does one whose
  acknowledgement is still on the wire. Accounted for means an open
  task, a kick since the quota ran out, or a task closed on an older reading
  (`Handled`). MarkedIsDropped needs `AckInv`: the agent
  holds neither a batch marked ACKED nor one that a sync is about to mark, and it
  never gives out an identity again. The refinement maps `outstanding` to
  counters, collected traffic and the unbilled batch.
- `AccessRevocationProofs`: TypeCorrect; OwnSnapshotsAreSafe and SuccessIsReal, for any number of
  workers, because the handler that has kicked and still owns the task kicked
  after the arming (`KickedInv`); OneProcessIsSafe, NoStaleProvision if there is
  one process, because handlers inside the node lock exclude a sync and so no
  snapshot names a member who is cut off (`LockInv`). The run
  `revocation_api_sync` shows that the hypothesis is needed.
- `NodeRuntimeProofs`: TypeCorrect; StopsAreReal, an action property. The
  invariant says that there is at most one active command, that the one being
  executed is RUNNING, and that a completed key of an active stop means the unit
  does not run: nobody else can start it, since a start would be another active
  command.
- `EpayPaymentProofs`: TypeCorrect, ReplacedIsNotFulfilled, SettledIsTrue,
  KeepsPromise (the refinement). The invariant adds that whoever is settling
  holds a paid attempt, that orders and refunds exclude each other except for
  overtaken attempts, and that an attempt has at most one order. The refinement
  shows an overtaken payment as what it was answered with first.
- `EpayRefundProofs`: TypeCorrect; ConfirmedIsTrue for any reconcilers and
  answers; SubmittedOnce and MoneyOrPurchase, also for any number of
  reconcilers: as long as nothing was disturbed at most one is at work
  (`UndisturbedInv`, `OneAtWork`), and while a submission stands, the row says
  SUBMITTED or CONFIRMED, the fallback is not allowed, and the one at work has
  read SUBMITTED or is the one that submitted (`StandingInv`).
- `AgentRolloutProofs`: TypeCorrect; OneReplacement, CanaryGoesFirst and
  OutcomesAreTrue, for any machines and rollouts. What the server believes and what
  a machine does are tied together by the updater's journal, so the invariant says
  of a job in a journal that it is in flight or has the outcome the journal shows
  (`JournalInv`), and the same of a report that is still on the wire (`LateInv`);
  that the journal's phase and step say which binary is linked and which runs
  (`MachineInv`); and that a rollback returns to what was there at the claim
  (`BaseInv`). A late report is harmless because of the second part only.
- `GroupBuyProofs`: RewardedTogether and OrdersPaidOnce, for any customers, groups,
  payments and lapse of time. Every transaction is a function from rows to rows, and
  what is proved of each is that it keeps the rows `Good`: the status of a group
  fits its members (in an OPEN group just the creator is FULFILLED, in one waiting
  for its creator's payment there is no other member, rewards come with SUCCEEDED),
  and attempts and orders belong to each other. Rewards are not inductive without
  the first: the second payment must find exactly one fulfilled member. OrdersPaidOnce
  leaves out the overtaken attempts, as PaidOnce does.
- `PlanTimelineProofs`: PlansNeverOverlap, RecordsInStep and PlansAreKept (an action
  property), for any plans, term and number of operations. The invariant adds that a
  grant that is not ACTIVE has ended (`Ended`; else a revived row would keep a start
  in the past of another plan); unless the history is irregular, that an open
  subscription has an open grant with the same start (`Regular`: that is why a
  renewal, which ends every other grant, ends none that is open) and that a
  reservation is for at most one offer (`Brief`: an early start, which gives a new
  term, takes nothing away). The current subscription (the last to end, then the
  newest) is shown to exist by a least-counterexample argument over the rows.

Only model-checked: every liveness property, RetiredStartUndone among them (TLAPS does
not handle fairness here), and what the violation runs show.

## Not modelled

- The web application, half of the repository's lines, is presentation over the API.
- Authentication, reports, dashboards, settings, tickets, the portal and most of the
  control-plane store are single-row writes, projections and request-scoped checks:
  no protocol over several steps. Together with the web application they are why
  the models stand for a small share of all lines and a large share of the
  concurrent ones.
- Wallet: every change of a balance locks the customer's row and writes balance and
  ledger entry in one transaction. A zero posting writes no entry, so a repeated
  set-balance of a zero difference is not recognised as a replay
  (`wallet-ledger.ts:70`); it changes nothing.
- Quota arithmetic (multiplier, carry, order of grants), cycles, traffic packs, Ultra
  plans, plan resets, discounts, redemption limits, the legacy plan checkout.
- The older group-buy mode (plan only with the group, refund otherwise), of which only
  the refunds are modelled (`EpayRefund`); new groups never have it.
- Check-in, referrals, holiday draws, gifts: one serializable transaction per key.
- Campaign mail and SEO queues: leases like those of `AccessRevocation` around text
  generation. Backups: external tools behind a maintenance gate.
- The tick of `RecurringTask`: its effect is the fairness above.
- The lossy read-and-clear of Hysteria endpoints, which `PUBLIC_OPERATIONS.md`
  documents as lossy.
- Signatures, encryption, formatting and wording are abstracted to whether a message
  counts.

`PROJECT.json` lists every part with its status.

## Plan

Done: metering, revocation, runtime, payments and refunds with their theorems; then
agent updates, the plan timeline and the group-buy lifecycle with their runs and
theorems. Every invariant and every action property that a run checks is a theorem.

Next, in this order:

1. Quota arithmetic and cycles as functions against a reference definition.
2. Prize reservation and the mail queue.
