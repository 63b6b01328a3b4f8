# Polis: a verification development

This directory holds TLA+ specifications of the parts of Polis whose correctness
depends on concurrency, retries, leases and crashes; TLC configurations that
check them on small instances; and TLAPS proofs of the properties that matter
most for every instance. Paths below are relative to the repository root.

## 1. The system

Polis collects votes on short comments, computes opinion groups from them and
serves the result. Its parts, the state each keeps and what makes each correct:

| component | where | state and operations | correctness |
|---|---|---|---|
| polis-queue/1 database | `server/postgres/migrations/000019` | five tables (requests, heads, runs, jobs, attempts) behind the `pq_*` functions: enqueue, claim, heartbeat, finalize, fail/release/park, due/reap, cancel, status | one owner at a time; a fenced token stays fenced; a job settles once; the head shows the newest wanted success |
| noop executor | `delphi/polismath/queue/executor.py` | one token, a reaper cursor, a lane cursor; one loop | its conclusions are true in spite of lost replies; a crash costs an attempt, not the job |
| queue producer | `server/src/queue/enqueue.ts` | none; one retried call | one job per request key |
| Delphi jobs database, polis-queue/2 and /3 | migrations `000023`, `000024` | the /1 tables plus inputs, scope guards, exit confirmations, provider requests | an attempt's job is not handed on before its process is proved gone; a scope is not released while anything of it may run; provider requests are never submitted twice |
| polis-jobs daemon | `queue-rs/src/jobs` | a journal on disk, child process groups, pending terminal calls, a lease thread per job | no orphan child; an exit is confirmed only when true; recovery after a crash of the daemon |
| sealed job graphs | migrations `000027`, `000029`; `queue-rs/src/jobs/graph.rs`; `delphi/scripts/job_graph_*.py` | a plan sealed once, stage jobs with inputs | stages run after their inputs; a failed stage ends the graph |
| Delphi results, writers, run record | migrations `000028`, `000030`, `000031`, `000038`, `000041`; `delphi/polismath/delphi_storage` | staged, then published result sets | readers see a complete set |
| math coordinator | migration `000021`, `coordinator-rs/src` | generations and leases per conversation, an engine child, a cache | one publisher per generation; no lost vote |
| math poller: live ingestion | `delphi/polismath/poller/service.py`, `math_writer.py` | two poll windows with watermarks, a pool with one worker per conversation, parked and unresolved conversations, retry counts, a cache; three threads (vote poll, moderation poll, reconciler) and the workers | every vote reaches the math, in spite of late commits, failures and evictions; moderation follows; broken publications are replaced |
| math poller: memory admission | `admission.py` | a first-in-first-out line of reservations, charges of cached and of held objects | the budget is never exceeded; no charge leaks; nobody waits for ever |
| math poller: backfill | `backfill.py` | a sweep with buffer and cursor, slots, a saved state of failures, pause and gate | a newer publication is never overwritten; DRAINED and COMPLETE are true; every target is repaired or on record |
| math poller: large memory class | `capacity.py`, `capacity_queue.py`, `promotion.py`, `rebuild_child.py` | routing records, receipts, jobs in the Delphi database, promoted bundles | a conversation is computed in one place at a time |
| math poller: readiness and coordinator bridge | `readiness.py`, `coordinator_bridge.py` | report lines; a client of the coordinator | |
| math engine | `delphi/polismath/conversation`, `pca_kmeans_rep` | PCA, clustering, representativeness | numerical |
| math worker (Clojure) | `math/src/polismath` | the predecessor of the poller and the engine | as the poller |
| id triggers | migrations `000042`, `000044` | `tid_auto`, `pid_auto` | ids are dense and unique under concurrent inserts |
| polis-api | `queue-rs/polis-api` | routes, an LRU cache of math bodies, vote writes, invites | a cache body is never older than what it replaces |
| API server (Node) | `server/src` | routes, math cache | as polis-api |
| polis-auth | `queue-rs/polis-auth` | key snapshots, revocations, admission | one participant per identity |
| migration runner | `queue-rs/polis-migrate` | an applied-migrations ledger under a lock | each migration once, in order |
| narrative and UMAP pipeline | `delphi/umap_narrative`, `delphi/scripts/job_poller.py` | long numerical scripts, an LLM batch | provider bookkeeping |
| web clients, deployment, CI | `client-*`, `cdk`, `ci` | | |

Components meet in the database: the producers and the workers of the queue
only ever call `pq_*` functions, each one transaction, and learn of each
other's work from the replies alone. Replies can be lost after the commit
(`CommitOutcomeUnknown`), and processes can die between any two calls.

Within the math poller, components share memory. The vote poll, the moderation
poll and the reconciler each read their own window or list and hand batches to
the pool; its workers take the conversation from the cache under the cache's
lock, ask the admission for memory, compute, write the three math tables in one
transaction and cache the result. The backfill submits its jobs to the same
pool, so a worker drains live work and a job of one conversation together. The
capacity router takes conversations out of the live path and promotes bundles
computed elsewhere into the same tables.

The hard behaviours are listed one by one, with their lines, in
`PROJECT.json` under `hazards`.

## 2. The plan

1. **PolisQueue**, **JobLedger**, **NoopExecutor**, **PolisQueueProofs**,
   **NoopProofs** (done).
2. **DelphiJobs**, **ScopeLock**, **DelphiProofs** (done): the /2 and /3
   database: exit proof, provider requests, scope guards, the poison latch.
3. **PolisJobs**, **PolisJobsProofs** (done): the daemon over DelphiJobs:
   journal before spawn, children, heartbeats, pending terminal calls, crash,
   restart and recovery. What DelphiJobs leaves open (that an exit is only
   confirmed of a process that is gone) is this module's main property.
   Next comes **ProviderHandshake**: the slots of `task.rs`, the child's intent,
   acknowledgement and result files, and that a batch is paid for once.
4. **PollWindow**, **MathPoller**, **MathMirror**, **PollerProofs**,
   **HealingProofs** (done): the
   poll windows, the three threads and the workers, over the tables.
5. **MemoryAdmission**, **MemoryProofs** (done): the line, the
   evictor, held objects.
6. **Backfill**, **BackfillProofs** (done): the scheduler beside live work.
7. **CapacityRouting**: the routing records and receipts between poller, queue and
   bundles; what of it the backfill sees is in Backfill already.
8. **JobGraph**: sealing, release of stages, the failure cascade.
9. **Coordinator**: generations, leases and publication.
10. **IdTriggers**: `tid_auto` and `pid_auto` under READ COMMITTED, with admission.
11. **PcaCache**, **Migrate**, and the pure algorithms (`pq_backoff`, ordering).

Proofs follow the modules: an inductive invariant for each, and the refinement
of its abstract promise where there is one. Those of the modules above are done
(section 6), and handed on to the processes that call the database: to the
daemons through `JobsSpec => DelphiSpec`, to the executors through
`ExecSpec => Spec`. The /2 calls are no refinement of JobLedger: an alias binds
further keys to a job that exists, a binding ends after a day and the key is
bound anew, and /2 moves no head. What they share with it, that a job is settled
once and that its records tell one story, is proved of them directly. For the
modules below the first theorem is the invariant of JobGraph, that a stage is
released once and only after all it waits for.

## 3. The modules

### PolisQueue

One action per granted `pq_*` function of migration 000019. All of them lock
the rows they decide on before they decide, so a call is one atomic action;
the calls that answer `fenced`, `conflict`, `existing`, `already_succeeded`,
`invalid_output` or `none` change nothing and are stuttering steps here.

| TLA+ | SQL |
|---|---|
| `request`, `head`, `run`, `job`, `attempt` | the five tables; rows are records, an `absent` state stands for a missing row |
| `pq_enqueue`, `pq_claim`, `pq_heartbeat`, `pq_finalize`, `pq_cancel` | the functions of the same names |
| `pq_end_attempt(a, action)` | `pq_fail`, `pq_release`, `pq_park` through `pq_end_attempt` |
| `pq_terminate_attempt` | the shared ending, backoff included (any wait of 1..WaitTicks) |
| `reap_expired`, `reap_parked` | the first two branches of `pq_reap_one`; the third is unreachable, which is what `BudgetLeft` says |
| `Tick` | the database clock: `lease` and `wait` count down |

A run has exactly one job in /1, so both share one identity. `owner_id` is
minted with `attempt_id` and adds nothing to a comparison, so a token is its
attempt. Calls may be made with any attempt ever claimed, at any later time:
this covers every delayed, duplicated and retried worker call.

### JobLedger

What producers and readers rely on: a request slot is bound to one job for
good, a job settles once, and a product shows the newest requested job once it
succeeded. `PolisQueue` implements it under `Ledger == INSTANCE JobLedger WITH
bound <- SlotBound, phase <- Phase, desired <- Desired, published <- Published`.

### NoopExecutor

Extends PolisQueue with the processes: the executor's loop (`pc`), the reaper
page it read earlier (`page`), its token (`held`), what it concluded
(`verdict`), and a manager that reads a status and cancels by the version read
(`view`). Every executor call commits with its reply delivered, commits with
its reply lost (`BeatLost`, `RefuseLost`, `FinalizeLost`, and for a claim
`Claim(e, "renewing")`), or does not commit (`ClaimUncommitted`; for the other
calls nothing happens and the same call is sent again). `Crash` loses the
process's memory and leaves its lease to expire.

### PolisQueueProofs, NoopProofs

The theorems about PolisQueue and NoopExecutor, see section 6.

### DelphiJobs

Extends PolisQueue with what migrations 000023 and 000024 add. The rows, the
ownership test and the shared endings (`terminate`, `succeed`) are PolisQueue's;
the functions that 000023 replaces have actions of their own, and those it takes
over (`pd_heartbeat`, `pd_cancel`) wrap the /1 actions.

| TLA+ | SQL |
|---|---|
| `proved` | `process_exit_confirmed_at` of the attempts |
| `guard` | `delphi_job_guards` |
| `image` | `code_image_digest` of the runs |
| `provider` | `delphi_provider_requests`, without the batch number |
| `pd_admit`, `pd_alias` | the two answers of `pd_enqueue` that write: `enqueued`, and a second key for the holder |
| `binding_expires` | the DELETE of an expired key row at the head of `pd_enqueue` |
| `pd_claim`, `pd_end_attempt`, `pd_finalize` | `pq_claim`, `pq_end_attempt` (with `confirm_exit`), `pd_finalize` |
| `pd_reap_expired`, `pd_reap_parked` | the branches of the /2 `pq_reap_one` |
| `pd_release_scope`, `pd_provider_intent`, `pd_provider_update` | the functions of the same names |

Why a call is one action. Admissions of a scope take an advisory lock on it
before they read the guard. `pq_claim` looks at attempts and provider requests
in the snapshot of its SELECT, and rechecks only the job row once it has the
lock; that is enough because a waiting job is resolved and can only stop being
so by being claimed, which is `WaitingIsResolved`. `pd_release_scope` decides
in one statement over one snapshot, and what it asks for is stable: a job that
is quiet stays quiet, which is what `ScopeLock` says. The key's deletion is an
action of its own because the admission that follows it in the same transaction
may answer conflict or poisoned and change nothing else.

A scope is its product: the admission stores the caller's scope, and callers
pass one string for both (`delphi/polismath/poller/capacity_queue.py`). The
jobs of a scope are numbered under its lock, so "the newest runs by creation
time", which the poison latch asks for, are the newest generations.

The design fails closed. A provider request that is still open when its job is
cancelled or dies has no owner left who could complete it
(`PaidWorkClearedByOwner`), and holds the job's scope until an operator acts.
No property asks that every scope is released in the end, because the code
does not promise it.

### ScopeLock

What a guard promises its callers: a scope has one holder, from admission until
the job is quiet, and a quiet job stays quiet. DelphiJobs implements it with
`activity <- Activity, holder <- Holder`, where a job is busy while it is not
terminal, has an unproved attempt, or an open provider request.

### DelphiProofs

The theorems about DelphiJobs, see section 6.

### PolisJobs

Extends DelphiJobs with its workers, the daemons of `queue-rs/src/jobs`, and
the processes they start. Producers, reapers and managers call the database as
in DelphiJobs (`DatabaseCall`); attempts are only claimed and ended by a daemon.

| TLA+ | code |
|---|---|
| `up`, `draining` | the daemon processes past `recover`, and `shutdown::requested` |
| `stage` | where `task::run` is in its course, one task per attempt; `renewing` is the middle of `claim_one` after a lost answer |
| `plan` | the `Action` that `outcome::decide` chose |
| `fenced` | `LeaseState.fenced` of the task's heartbeat thread |
| `pending` | `Ctx.pending`: `fail` is `daemon_restarted` or `claim_uncertain`, `confirm` an exit whose last call failed |
| `entry`, `stale` | the journal file, without (`bare`) or with the process group; and whether it names a boot or container that is over |
| `child` | the process group: not yet, alive, or gone |
| `home` | the journal directory the attempt belongs to |
| `Claim`, `Renew`, `RenewFails` | `claim_one` |
| `WriteEntry`, `Spawn`, `RewriteEntry`, `RewriteFails`, `Refuse` | `task::run` up to the running child |
| `Beat`, `LeaseElapses` | `Heartbeat::start` |
| `Reap`, `Kill`, `Stuck` | the wait loop and `kill_and_reap` |
| `End`, `Confirm`, `FinalizeFenced`, `FinalizeRefused`, `CallLost`, `GiveUp` | the last calls, `terminal` and its eight tries |
| `RetryPending`, `RetryLost` | `retry_pending` |
| `Die`, `Reboot`, `Start`, `provably_gone` | the death of a process, `recover`, the journal's proof |

A task, its heartbeat thread, the main loop and the child are separate actions
that interleave freely; a call to the database is one step, since it is one
transaction, and what the daemon does with the answer is in the same step only
where no other thread could tell. A lost answer is a step of its own that
commits and leaves the caller where it was.

`Faults` names what the deployment excludes or makes rare. A daemon in a
container is its first process, so its children die with it
(`cdk/launchTemplates.ts` starts it with `docker run --rm`): with `"host"` a
daemon may also die alone. `"stuck"` lets a group survive its kill, `"journal"`
an entry fail to be rewritten. The safety runs have the faults, the liveness
run has none.

What the code does not promise is not stated: a refusal whose call fails drops
its proof and its journal entry (`GiveUp`), a crash before the first journal
write leaves an attempt nobody can prove ended, and so its job parked until an
operator acts. `ExitsGetRecorded` therefore speaks of attempts that had a
process. The hazards list names these lines.

### PolisJobsProofs

The theorems about PolisJobs, see section 6.

### PollWindow

The pure part of a poll: what it reads, which of the rows it delivers, and how
watermark and window move (`PollWindow`, `VoteWindow` and `ModerationWindow` of
`service.py`). A row is stamped when its transaction begins and visible when it
commits, so a poll reads again everything above `lower`, one overlap below the
watermark, and takes away what is in `handled`.

### MathPoller

Extends PollWindow with the threads, the pool and the tables.

| TLA+ | code |
|---|---|
| `votes`, `comments`, `math` | the tables; the three math tables are written in one transaction and are one record, `whole` unless an earlier writer left it in pieces |
| `win`, `rows` | `_vote_window`, `_mod_window`, and the rows of a poll in progress |
| `queue`, `parked`, `unresolved`, `worker` | `ConversationWorkerPool`; a queue is kept coalesced |
| `cache`, `attempts`, `repaired` | `_convs`, `_retry_counts`, `_startup_repair_done` |
| `thr` | where each of the three threads is |
| `Poll`, `Check`, `Invalidate`, `Unpark`, `Submit`, `Advance` | `_poll_votes_once`, `_poll_moderation_once` with `_unpark`, whose test, invalidation and un-parking are separate steps as no lock spans them |
| `Reconcile`, `Reconciled` | `_reconcile_once`, which heals through the same steps |
| `Drain`, `Compute`, `Write`, `Keep`, `Rest` | `_run`, `_run_engine`, `_compute_and_publish`, `MathWriter.write_conv_updates`, `_remember` |
| `Fail` | `_on_engine_error` with `_requeue` or the park; a commit may have gone through |
| `Repair`, `Evict`, `Restart` | `_repair_incomplete_snapshots`, an eviction, the end of the process |

A conversation's matrix is, for each cell (participant and statement), the stamp
of the vote it shows; its moderation is the set of statements moderated out.
Everything else the engine publishes is a function of the two. `running` are the
threads that are not stalled: a thread that is slow for the whole behaviour is
one whose rows need not be modelled.

### MathMirror

What readers of `math_main` rely on: a cell shows some committed vote of that
cell or none, and of the votes that were not too late the newest is shown again
and again. MathPoller implements it with `missed <- missed \cap votes` and
`shown` the cells of `math`. The refinement lets a published value go back for a
while: a cold rebuild reads votes the poll has not delivered yet, and the poll's
next batch is applied over them, newest of the batch first.

### MemoryAdmission

Sizes in units; `Used` is what the accountant charges, `Real` what the workers
and the cache really refer to. `Lookup` is `hold`; `Reserve`, `Blocked`, `Evict`,
`Again` and `Grant` are the loop of `reserve`, cut where it gives its lock up:
the evictor runs with the cache lock only, on a shortfall and a protected set it
saw earlier, and the second look decides to refuse, defer or sleep. `Remember` is
`_remember` with the evictions of the cache caps, `LetGo` and `Release` the two
`finally` blocks of `_run_engine` in their order, `Fail` the same on an error. A
computation's estimate is assumed to cover the object it makes, and
conversations only grow. There are finitely many of them, without which no sum
of charges would mean anything.

### MemoryProofs

What the sum of a function over a finite set does when the function changes, and
the theorems about MemoryAdmission, see section 6.

### Backfill

| TLA+ | code |
|---|---|
| `row`, `source`, `newest`, `cutoff` | the target publication, the source's label, the votes, the grace window |
| `queued`, `worker`, `parked`, `Deliver`, `LiveRun`, `LiveFails`, `LiveRouted` | the pool and live work, as far as a job meets them |
| `routed`, `Route`, `TakeBack`, `Promote` | the capacity router and `promote_bundle` |
| `in_flight`, `choosing`, `Lost` | the slots, the step that holds `_lock`, `_reap_lost` |
| `buffer`, `cursor`, `seen` | `_next_target` and its pages |
| `failures`, `paused`, `approved`, `gated` | the saved state |
| `Refuse`, `PutBack`, `Admit`, `Submit`, `Reconcile`, `Finish` | `step`, `_admit_one`, `_finish_sweep` |
| `Start`, `LoadHistory`, `Publish`, `CheckPublished`, `JobFails`, `Report` | `run_job`, `_execute`; `clean` stands for the tick that the conditional write compares |
| `TogglePause`, `ApproveGate`, `Drained`, `ReportGate`, `Restart` | SIGUSR2, SIGUSR1, the DRAINED and gate reports, the process |

A publication is its state and its newest vote. What only delays (pacing,
pressure, the vote budget, backoff) is chance: `due` is any set of targets.

### PollerProofs, HealingProofs, BackfillProofs

The theorems about MathPoller, what holds of all its behaviours and what holds while
healing is undisturbed, and about Backfill, see section 6.

## 4. The runs

| run | shows |
|---|---|
| `queue` | the safety of the tables, `FencedForever` and the refinement of JobLedger: 2 jobs, 2 products and 2 keys, so that two runs of one product can supersede each other and two products can not; 3 attempts, budget 2, lease and backoff of 1 tick |
| `noop_executor` | two executors, two crashes, one job that is the public fixture and one that is refused: true conclusions, a reaper that spares owners, and `EveryJobSettles` |
| `delphi` | the /2 database: 2 jobs of one scope under 2 keys, 2 digests and 2 images, 2 attempts and 2 provider requests, so that a request can be left open by the first attempt and met by the next; the poison latch at 1; the refinement of ScopeLock |
| `polis_jobs` | `ExitsAreReal`, `ScopeHasOneProcess`, `ProcessesAreJournaled`: 2 jobs of one scope, 2 attempts, one daemon, all faults |
| `polis_jobs_provider` | `ChildrenStartResolved`: 1 job, 2 attempts, a provider request |
| `polis_jobs_live` | `ExitsGetRecorded` with one daemon in a container, 2 attempts |
| `poller` | the math poller with a vote or a moderation thread beside the reconciler: no vote inside the overlap is forgotten, moderation settles, what is shown catches up again and again, a broken publication is replaced |
| `memory` | three conversations in a budget of 3: memory fits, no charge is left, nobody waits for ever |
| `backfill` | two targets: jobs keep their slots, a stop is quiet, nothing newer is overwritten, COMPLETE is true, every target settles |
| `polis_jobs_drain` | a violation: the deployment's comment says a stopped daemon lets its child finish (`cdk/launchTemplates.ts:71`), the daemon kills it (`queue-rs/src/jobs/task.rs:620`) |
| `poller_unmoderation` | a violation: a comment says that reading the whole moderation state "also captures un-moderation" (`service.py:1504`); an empty list changes nothing (`conversation.py:637`), so the last statement moderated back in stays out |
| `poller_unpark` | a violation: `_unpark` promises that a healed conversation is rebuilt (`service.py:1165`); its test, invalidation and un-parking are not one step (`service.py:1172`), and with all three threads running a failure in between leaves a stale conversation in the cache and a batch in nobody's hands |

Bounds. Two jobs of one product are what supersession needs (the older may
finish before, between or after); a third would repeat the pattern. A budget of
2 with 3 attempts has every path: first try, retry, last try, and one park that
costs no budget. One tick of lease and one of backoff separate "not yet" from
"expired", which is all the guards ask. Attempts bound the claims, so no other
bound on the counters is needed. `CHECK_DEADLOCK FALSE` is set because the
system may really be done: all jobs terminal, no key left to use, no vote to come.

The Delphi run. `PoisonLimit` is 3 in the code and only enters as the length of
a window; at 1 a single dead job latches its scope, is refused under one image
and admitted under the other. Two jobs of one scope are what a handover needs;
two attempts for a budget of two give an expiry, a return and a further try.

The daemon's runs. Two attempts are what a second process beside a first needs,
be they of one job or of two jobs of one scope. One daemon is enough: restarted,
it meets its own orphans, and to the database two daemons are only two sets of
attempts. Crashes, lost answers and heartbeats are not bounded: all of them only
move between finitely many states. Budget and attempts bound the claims.

The poller's runs. Conversations meet only in the threads' lists, so one is
enough, and cells do not meet at all; two statements are needed to tell "nothing
is moderated out" from "another one is". Stamps up to 3 with an overlap of 2 have
a vote that is late but inside the overlap, one that is outside of it, and one
that supersedes. A retry cap of 1 has both the retry and the park, and two faults
(failed runs, evictions, restarts, in any combination) park a conversation or
combine a failure with a restart. `ThreadSets` keeps `poller` to two threads,
because with three of them `NothingForgotten` fails: that is `poller_unpark`,
with a retry cap of 0 to be short.

The memory run. With a budget of 3, computations of 1 fit side by side and beside
cached objects, several of them fill the budget and make the next wait or evict,
and one of 4 fits never. Three conversations are what it needs to have a
runner, a first in line and one behind it, or a held, a detached and a running
one. `CacheBudget` 1 makes the cache evict whenever two are in it.

The backfill run. `z1` gets a second vote and may have a source row ahead of the
votes, `z2` stays as it is; both start with any row. One fault (a failing job or
live run, a lost message through a park, a route, a restart) and two signals
(pause and resume) meet a gate after the first publication. Concurrency and page
size are 2, so jobs overlap; other page sizes, large jobs and inputs beyond
`MaxInput` are covered by the proofs.

Every property has a mutant in `PROJECT.json`: a slip of the code, written as a
definition next to the original (`ended_off_by_one`, `lower_at_watermark`,
`unhold_only`, ...), under which TLC finds the property violated in the same run.

## 5. Fairness

`noop_executor` (`FairSpec`). `main` runs `run_once` for ever
and its supervisor restarts it (`WF Progress`, `WF Restart`; crashes are
finitely many); replies and row locks are not lost at every single attempt, so
a claim or a reap that is possible again and again succeeds at last (`SF Claim`,
`SF ReapNext`: `SKIP LOCKED` and a lost reply make weak fairness too weak); the
clock advances (`WF ClockTick`). Nothing is assumed of producers or managers.

`polis_jobs_live` (`FairJobsSpec`). A task that started a child goes on
(`WF Proceed`): its wait loop ends by the child's exit, a fence, a stop or
`child_timeout`, and `terminal` tries eight times and then gives up. A daemon
that is down is started again (`WF Start`: `Restart=always` in
`cdk/launchTemplates.ts`). The main loop repeats its pending calls at each
reaper tick for as long as it is up, and the database is not away at every one
of them for ever (`SF RetryPending`; crashes may be infinitely many). Nothing is
assumed of children, heartbeats, reapers or managers.

`poller` (`FairPollerSpec`). The loops of the threads and the workers of the pool
go on (`WF` of each thread's and each worker's steps); the reconciler comes round
whatever the others do (`WF Reconcile`, `WF Reconciled`), and the startup repair
that failed is repeated by it (`WF Repair`). Nothing is assumed of votes,
moderation, failures, evictions or restarts; failures and restarts are finitely
many.

`memory` (`AdmissionSpec`). A worker goes on with what it has begun (`WF
Proceed`): a computation returns, and a waiter looks again at least every
`poll_s`. New work need not come.

`backfill` (`BackfillSpec`). Workers, the scheduler's loop and the live poll go
on. A decision to admit, refuse or end the sweep needs a moment without live
work, which comes and goes: `SF Decide`, justified because live work without new
votes ends and the scheduler looks again every interval. Failures that wait
become due. The operator, new votes, the router and failures owe nothing.

## 6. The proofs

`tlapm PolisQueueProofs.tla` proves, for all constants that satisfy
`ConstantsAssumption` (positive budget, lease and backoff; `None` is no id):

- the inductive invariant `IInv`: `TypeOK`, `RowsLinked`, `SingleOwner`,
  `EpochsOrdered`, `SuccessHasOneAttempt`, `RunMirrorsJob`, `HeadShowsDesired`,
  `BudgetLeft`. None of the safety properties is inductive alone. `RowsLinked`
  is the strengthening they share: it says where each pointer between rows
  leads. `SingleOwner` and `EpochsOrdered` need each other (a claim's epoch is
  new because no attempt is ahead of its job), and `HeadShowsDesired` needs
  `RunMirrorsJob`, since a head is judged by the run and the functions guard on
  the job;
- `Spec => []` of each part (`RowsWellFormed`, `OneOwner`, `EpochNamesOwnership`,
  `OneSuccess`, `OneStory`, `HeadsRight`, `BudgetNeverStrands`); the types,
  `RowsLinked` and
  `HeadShowsDesired` are only proved, no run checks them;
- `FencedStaysFenced`: from the invariant, no step makes a fenced token owned;
- `QueueIsALedger`: `Spec => ImplementsLedger`.

Each action has a lemma of its own; the actions that end an attempt
(`pq_end_attempt`, `reap_expired`, `pq_cancel`) share lemmas about what any
ending preserves.

`tlapm NoopProofs.tla` proves about NoopExecutor, for every number of executors,
jobs and attempts, and with the crashes and lost replies that the model allows
at any point:

- `ExecutorsUseTheQueue`: `ExecSpec => Spec`, so the theorems above hold with the
  executors, the producer and the manager as callers;
- the inductive invariant `ExecIInv`: `IInv`, the types of the processes, and what
  ties a process's memory to the tables. `VerdictTrue` is not inductive: that a
  retried `pq_finalize` is told the truth depends on whose attempt it is. By
  `HeldRight` an executor acts on a claimed attempt, which cannot have succeeded
  before the executor got as far as finalizing; by `HeldApart` nobody else acts on
  it, so a success found by a retry is its own; by `VerdictsClaimed` nothing is
  concluded of an attempt that a later claim could still take. `ViewRight` says
  that a job at the version the manager read is as it was read;
- `ExecSpec => []VerdictTrue` (`VerdictsAreTrue`), and the action properties `ReaperSparesOwners`
  (`RenewedLeasesAreSpared`) and `CancelSawIt` (`CancelsWereSeen`);
- `ExecutorsKeepTheLedger`: with these callers the queue implements JobLedger,
  fenced tokens stay fenced, a job has one owner and has budget left while it waits.

Each call of the database is reduced to `Moves(S, C)`, all that a bystander can
notice of it: claims and successes last, only an owner in `S` succeeds, only a
lapsed lease expires, versions grow whenever state or owner change, only jobs in
`C` are cancelled. The processes' lemmas use that alone.

`tlapm DelphiProofs.tla` proves about DelphiJobs, from `ConstantsAssumption`
alone:

- the inductive invariant `DelphiIInv`: `DelphiTypeOK`, `DelphiLinked`,
  `OneProcess`, `WaitingIsResolved`, `ScopeHeld`, `ProviderWorkSettled`,
  `AliasesAgree`. `DelphiLinked` is the strengthening: of a running job only
  the owner's process can be alive, so confirming the owner's exit is enough to
  make the job fit for a claim again; a guard holds a job of its own scope, so
  a job that holds one scope can lose no other; the keys of a guarded job carry
  the guard's digest;
- `DelphiSpec => []` of each part (`DelphiRowsWellFormed`, `NoSecondProcess`,
  `WaitingNeedsNothing`, `BusyHoldsScope`, `PaidWorkSettled`, `KeysAgree`);
- `OnlyOwnersClear`: `DelphiSpec => PaidWorkClearedByOwner`;
- `GuardsAreAScopeLock`: `DelphiSpec => ImplementsScopeLock`;
- a second inductive invariant, `HistoryIInv`, on top of the first
  (`HistoryHolds`), and from it `PoisonNeverSpreads` (`DelphiSpec =>
  []PoisonBounds`) and `DelphiBudgetNeverStrands` (`DelphiSpec => []BudgetLeft`).
  `PoisonBounds` says nothing of why a dead run cannot join two stretches of dead
  runs afterwards. `LatchKept` does: of no run, dead or alive, are all the
  `PoisonLimit` before it dead under its image, as was the case when it was
  admitted. It lasts because only the newest run of a scope can still die
  (`GuardsNewest`: an older one gave its guard up, which takes a job that is
  terminal for good) and because generations are given out in order (`Dated`).
  `BudgetKept` adds to `BudgetLeft` that a running job has spent budget on its
  attempt, which is what a park gives back;
- `DelphiTokensStayFenced`: `DelphiSpec => TokenStaysFenced`, the property of /1
  under the calls that replaced it. After any of them a job is not running, or
  runs on under its owner with no lease revived, or was claimed with a new
  attempt; no run checks this one;
- `DelphiTellsOneStory`: `SingleOwner`, `EpochsOrdered`, `SuccessHasOneAttempt` and
  `RunMirrorsJob`, the four of /1, under the /2 calls (`StoryIInv`); and
  `JobsSettleOnce` (`DelphiSpec => SettledForGood`): of a settled job the state,
  the terminal attempt and the run's state never change. Every call that stops
  a live job does it in a way that `Stops` says once: the job does not run any
  more, its run shows its state, and at most the attempt that owned it was
  ended, with a success exactly if the job succeeded. `StopsKeepStory` is
  argued for all of them; claim and admission add what is their own. No run
  checks these under /2; TLC confirmed the four invariants on the instance of
  the run `delphi` before they were proved.

Most calls start nothing: no process, no request, no admission
(`NothingStarts`). One lemma (`NothingStartsInv`) shows that such a call keeps
the invariant if a job that waits or succeeded after it is resolved, another
(`OthersStayBusy`) that it is a `Quiesce` of the lock or none; each action is
then shown to be such a call. Only `pd_admit`, `pd_claim` and
`pd_provider_intent` need an argument of their own.

The calls that admit nothing are of one more kind for the history, `Ageing`: runs
and guards stay or are let go, counts stay or move with claim and park, and who
dies held the guard. `AgeingKeeps` is argued once.

`tlapm PolisJobsProofs.tla` proves about PolisJobs, for every set of daemons
and every choice of `Faults`:

- `DaemonsUseTheDatabase`: `JobsSpec => DelphiSpec`. Each step of a daemon is a
  call of DelphiJobs or leaves the database alone, so the theorems above hold
  with the daemons as callers;
- the inductive invariant `JobsIInv`: the types, `DelphiIInv`, and for each
  attempt `Sound` and `Ready`. `ExitsAreReal` is not inductive: that a call
  which confirms an exit tells the truth depends on where its task is, what it
  wrote to the journal, and whether its daemon is up. `Sound` says it: a live
  process is watched or orphaned, journaled and unproved; what is pending, or
  named by an entry of an earlier container, has ended; a task runs only in a
  daemon that is up, so a starting daemon has none beside its journal; before
  its claim there is nothing of an attempt. `Ready` says that between claim and
  spawn nothing of the job is in doubt: the claim found it so, a transition
  never leads back into doubt, and only the owner may submit, which by
  `RunningLinked` and `Sound` is this attempt;
- `Spec => []` of `JobsTypeOK`, `ExitsAreReal`, `ProcessesAreJournaled`, and
  `ChildrenStartResolved`, from `JobsIInv` (`DaemonsWellTyped`,
  `NoLiveExitConfirmed`, `RecoveryFindsProcesses`, `NoChildStartsInDoubt`);
- `OneProcessPerScope`: `JobsSpec => []ScopeHasOneProcess`. It needs both sides:
  a live process is unproved (`Sound`), so its job is busy and holds the guard
  of its scope (`ScopeHeld`), so two of one scope are of one job, and of one job
  only one attempt may be unproved (`OneProcess`);
- `DaemonsKeepTheLock` (the scope lock, fenced tokens, paid work, settled jobs) and
  `DaemonsKeepTheRecords` (the story of a job, `PoisonBounds`, `BudgetLeft`): what
  DelphiProofs shows of any callers, stated of the daemons;
- `NoExitIsLost`: `JobsSpec => []ExitsAreKept`, what `ExitsGetRecorded` rests on
  besides fairness. While the journal can be written, a process whose exit the
  database does not know keeps its entry; and if nothing else of `Faults` may
  happen either, somebody still has to report it: the task, a pending call, or
  the next start of its daemon (`InHand`). The entry alone would not do, since
  a running daemon does not read its journal again. `ExitKept` is the inductive
  form: a task past its proof has it in the database, and one that refuses its
  claim has started nothing.

A step of one task leaves every other attempt `Untouched`, which keeps `Sound`
(`UntouchedSound`), so each action is argued for its own attempt only.

`tlapm PollerProofs.tla` proves about MathPoller, from `PollerAssumption` and
`OverlapAssumption`, for any conversations, cells, statements, threads, retry cap
and overlap:

- the inductive invariant `PollerInv`: the types, `CarriedWork` and `CarriedVotes`
  (what a worker or a queue carries is work, and votes that are in the table),
  `Unstranded`, `Justified` (what is below a window unread was overtaken by an
  overlap) and, for each conversation, `Genuine`: every matrix, published, cached
  or being computed, shows votes of the table;
- `Spec => []` of `PollerTypeOK`, `NeverStranded` and `MissedOnlyWhenLate`
  (`PollerKeepsTypes`, `NoWorkIsStranded`, `OnlyLateVotesAreMissed`).
  `NeverStranded` is not inductive by itself: that a conversation in doubt with an
  idle worker is parked or being healed needs `Unstranded`, which also follows
  the conversation a healing thread holds between its steps;
- `PollerIsAMirror`: the poller implements the safety of MathMirror: every
  publication shows committed votes of its own cells, votes never disappear.

`tlapm HealingProofs.tla` proves when the poller forgets nothing. It is not always
so: `_unpark` looks at the park, drops the cache and un-parks in three steps
without a lock over them, and the run `poller_unpark` shows how two polls that do so at once
lose a batch. `HealsUndisturbed` excludes just that: while a poll stands between
its look and its un-parking, the conversation stays parked, or only rebuilds are
queued and run for it and the other poll has nothing to do with it.

- `ForgetsOnlyWhenDisturbed`: `PollerSpec /\ []HealsUndisturbed =>
  []NothingForgotten /\ []ModerationSettles`, for all constants and any
  threads running. The race is the only way to forget.
- `OnePollForgetsNothing`, `OnePollSettles`: when no thread set holds both polls, as
  in the run `poller`, healing is undisturbed (`OnePollUndisturbed`), so both
  invariants hold of `PollerSpec` as it is.

The two invariants are statements about *news*: a vote, or the statements
moderated out. News are `Due` once a poll handed them over or could have. The
inductive invariant `HealInv` says of all news that are due that they are
`Kept`, in three parts. `Covered`: they are in a batch that is queued, or a
rebuild is queued, or the conversation is parked or being healed, or they are
shown and whatever is cached has them, or the running worker's result will show
them and, if it fails, what is retried will. `Ordered`: no batch holds older votes of the cell
without them, or the newer are queued behind it; without this a retried batch
could overwrite what is published. `Guarded`: what a worker keeps or a cache
holds while a poll is about to un-park has them, since the un-parking leaves it
in place. `Twice` is the case of two polls that un-park one conversation, which
`HealsUndisturbed` allows for rebuilds; `WorkersRest`, `ThreadsWait`, `InWindow` and
`Dated` are what a worker, a thread and a window at rest look like. TLC checked `HealInv` with both
polls running and `HealsUndisturbed` as a constraint, before it was proved. Each
action is argued for the conversation it works on; all others are `Untouched`.

`tlapm BackfillProofs.tla` proves about Backfill, from `BackfillAssumption`, for
any list of conversations, page size, concurrency, large jobs and bounds:

- the inductive invariant `BackfillInv`: `Typed`, and four facts that do not need
  one another. `Slots` ties a job, its slot and the step that admits it together:
  a job is in one place, queued or run, and has its slot until it has reported.
  `Stopped`: a confirmed stop leaves no slot taken. `Fresh`: what a job is about to
  write is as new as the row it saw, and the row is no newer while it is
  untouched. `Swept`: an invalid row behind the cursor was seen;
- `JobsKeepTheirSlots`, `StopsAreQuiet` (from `Slots` and `Stopped`: no slot, no
  job), `LiveWritesWin` (`NeverOlder`, from `Fresh`) and `CompletionIsTrue`
  (`CompleteIsTrue`: the fresh count finds missing and stale rows, `Swept` the
  invalid ones, which no count looks for).

`tlapm MemoryProofs.tla` proves about MemoryAdmission, from
`AdmissionAssumption`, for every finite set of conversations and every capacity,
cache budget, number of cached conversations, size and number of failures:

- the inductive invariant `Books` (`BooksInductive`, `BooksAreKept`), three facts
  about each conversation and one sum. `ChargeMatches`: what is charged is cached,
  or dropped from the cache under a worker that holds it. `HoldMatches`: what a
  worker refers to is held, and charged, from the lookup until it lets go.
  `GrantMatches`: who has a grant, and that what it cached was estimated.
  `BoundFits`: the sum of `Bound` is within the capacity;
- `MemoryAlwaysFits` (`MemoryFits`) and `EveryChargeIsOwned` (`NoChargeIsLeft`);
- `TheLineMoves`, what `NobodyWaitsForEver` rests on besides fairness. `LineKept`:
  a worker stands in the line once and exactly while it waits, so that no
  ticket of one that was granted, refused or deferred blocks it. `LineMoves`:
  when nobody computes, the first in line can be granted, or is refused by its
  second look, or finds a cached object that nobody holds to evict. The last is
  where `ChargeMatches` comes in: a charge in nobody's hands would forbid the
  refusal and could not be evicted.

`MemoryFits` is not inductive, and neither is the sum that `reserve` compares with
the capacity: between `_remember` and the release of the reservation a new object
is charged while its grant still stands, so charges and grants together may
exceed the budget, and the memory does not. `Bound` counts such an object once.
It bounds what is really in use from above, and `reserve` grants only what keeps
it within the capacity.

The first part of the module is what this takes: `SumFunctionOnSet` unfolds into a `CHOOSE`n
element of a fold that no prover sees through, so it is first shown
that there is a function with the equations of a sum (`SumsExist`, by the
smallest set for which there is none) and that the community operator is that
function (`SumsToSum`), then that a sum can be taken apart at any element
(`SumAny`), is changed by one update by the difference (`SumUpdate`), is monotone
(`SumMonotone`), and takes up what is added on a subset (`SumWithin`).

Only model-checked:

- the liveness properties, out of the prover's reach: `EveryJobSettles`,
  `ExitsGetRecorded`, the `[]<>Current` half of `ImplementsMirror`,
  `PiecesAreReplaced`, `NobodyWaitsForEver`, `EveryTargetSettles`. The part of
  two of them that needs no fairness is proved: `NoExitIsLost`, `TheLineMoves`;
- that `NothingForgotten` and `ModerationSettles` fail when both polls run:
  `poller_unpark` shows it for the first. For the second, TLC finds it with both
  polls running on two statements, a retry cap of 0 and two faults: a
  conversation is parked twice, the vote thread un-parks it the second time after
  an invalidation that belongs to the first, and it goes on from a cached state
  that lacks the lost moderation batch. Where they hold is proved (HealingProofs).

## 7. Not modelled

Grants, catalog fingerprints and installation records of the migrations; the
shape validation of replies (`validate`, `protocol.ts`); `pg_notify` wake-ups,
which only shorten waits; the order of claims within a lane, which `FOR UPDATE
SKIP LOCKED` makes unreliable anyway. Of the /2 and /3 database: the inputs and
child jobs that only the sealed graphs create, the attempt logs and the closed
table of scope aliases, which are written once and decide nothing here, and the
worker classes, since nothing passes from one to another. Of the daemon: the slots of
the provider handshake, which are reduced to the calls they make, log lines,
transports and inputs; the release call after a terminal reply is any release at
any time. Components listed as `not_modelled` in
`PROJECT.json` carry their reason there.

Of the math poller: which conversations a process takes (shard and allow list),
the once-only mode, the copies of identical vote rows (`handled` counts them; to
the engine a copy is the vote), the numerical state of the engine beside cells and
moderation, and the readiness lines. Of the admission: the measured resident set,
which can only raise the charge. Of the backfill: pacing, pressure, the vote
budget and backoff as anything but chance, the reports, the calibration binding,
and damage of the state file. Of the large class: the routing records, receipts
and the submission of its jobs. Offline tooling that replays, compares, certifies
or collects (`delphi/polismath/replay`, `delphi/polismath/regression`,
`delphi/scripts`) runs once over fixed inputs and keeps no state that a second
actor touches; it makes up most of the Python lines.

## 8. Seen while modelling, without a run

- `admission.py:63` says that memory a worker still references is always counted.
  While `_on_engine_error` runs, the traceback keeps the frame and with it the
  object, after hold and reservation are gone. `MemoryFits` leaves errors being
  handled apart.
- `reserve` is documented to refuse only what can never fit; its second look also
  refuses the first in line when nothing is granted and only held objects are in
  its way, which is what keeps `NobodyWaitsForEver` true.
- Two threads that heal one conversation can un-park it with its retry count above
  the cap, so that the next failure parks it at once.
- Publications that end as source ahead, live owned or with a failed check are not
  counted by the backfill's gate.
- The sweep is paged by participant count. A row whose count grows past the cursor
  is not seen in that sweep, and COMPLETE never counts invalid rows, so it can be
  said once over such a row; the model keeps the order fixed.
- `pq_backoff` clamps a shifted value and adds a byte of the attempt's id; the model
  lets a job wait for any time from 1 to `WaitTicks`.
