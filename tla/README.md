# VEYRS in TLA+

VEYRS (`src/backend/veyrs`) is a vulnerability-management platform: a FastAPI
application served by several uvicorn worker processes over one PostgreSQL
database, with remote execution agents, scanner imports, an intelligence corpus, a
finding lifecycle, SLAs, tickets, workflows and upgrades around it. This directory
holds TLA+ models of the parts whose correctness depends on the order in which
things happen or on rules with many cases, the TLC configurations that check
them, and proofs that TLAPS checks.

`PROJECT.json` is the index: components, runs, mutants (for each property a
plausible bug of the code that makes it fail), the source lines behind every
definition, findings, hazards and theorems.

    tlc -workers 2 -config dispatch.cfg MCAgentDispatch.tla
    tlc -workers 2 -config platform.cfg MCPlatform.tla
    tlapm AgentDispatchProofs.tla

## How the program executes, and what every model takes from it

* All shared state is in PostgreSQL at READ COMMITTED. `db.py` gives each HTTP
  request a session (`autoflush=False`, `expire_on_commit=False`) and one
  transaction, committed by the endpoint and rolled back on any exception.
* An ORM object is a *copy* of its row. Until the transaction commits, other
  requests may commit changes to that row; at the flush, an `UPDATE` writes only
  the columns whose value differs from the copy, and no version is compared.
* Only `claim_next` (`FOR UPDATE SKIP LOCKED`) and the counters of references
  (`FOR UPDATE`) lock rows. Everything else is kept consistent by unique
  constraints, or not at all.
* What is outside the database (the vault, the external ticket system, the wiki,
  the mail server, the host's file system, the feeds) shares no transaction with
  it: it changes before the commit, and no rollback undoes it.

A module therefore splits a request into a step that reads and a step that
commits wherever its component can be entered twice at once: `AgentDispatch`,
`Ticketing`, `ItsmSync`, `OrgSettings`, `ScannerSync`, `SecretStore`, `Outbox`,
`Updates`, `WorkflowRules`, `AiGateway`, `ScanAuthority`, `AssetSources`,
`RiskRegister`, `Compliance`, `Runbooks`, `FixPlan`. `FindingLifecycle`, `SignIn`,
`Grants`, `SoftwareInventory` and `FindingIdentity` are about what long sequences of
transactions do to one subject, and take each transaction as one action.

## Inventory

| component (source) | state | operations | what is hard | module |
|---|---|---|---|---|
| agent dispatch (`services/agents`, `api/v1/agents`, `integrations/veyrs-agent`) | job rows, event log, agent rows, tokens in the agents' memory | queue, claim, stream, extend, result, fail, cancel, reap, heartbeat, set status, delete | handlers over stale copies, lost answers, leases that lapse while the agent works, batches | `AgentDispatch` |
| scanning switch (`services/scanning`) | one flag per tenant | on, off with or without cancelling the queue | read once by requests that commit later | `AgentDispatch` |
| agent authority (`services/agents`, `api/v1/agents`) | target policy, tools, assets, the job, verdicts | declare, enable, edit rules, queue, claim, decline, submit | heartbeats and toggles that overlap, rules of two kinds, when absence is evidence | `ScanAuthority` |
| finding lifecycle (`services/correlation`, `api/v1/findings`, `models/vulnerability`) | state, detection and fix times, owner, events | detect, re-detect, transition, advance, assign, accept | walks of several states, automatic and manual moves mixed, regressions | `LifecycleGraph`, `PathTo`, `FindingLifecycle` |
| engagements, risk acceptance (`services/engagements`) | acceptances, previous states, sightings and absences | reconcile, accept, approve, reject, revoke, expire | counters per test, overlapping acceptances | `FindingLifecycle` |
| SLA (`services/sla`) | policy, due date, breach, escalation, SLA events | apply, evaluate, close, re-apply | a deadline computed from a detection that moves, a periodic job | `FindingLifecycle` |
| finding identity (`services/dedupe`, `correlation.ensure_finding`) | hashes, tool ids, scope | match a record of a report | which of three algorithms decides, re-keying | `FindingIdentity` |
| versions, fix plan (`services/versions`, `services/fix_plan`) | ranges, path rules | order, affected, plan, patch rules | an order with markers, two patches each validated alone | `FixPlan` |
| software inventory (`services/inventory`) | installed rows | report, sweep, install, remove | one report naming a product twice, reads before the flush | `SoftwareInventory` |
| ticketing, auto-ticketing (`services/ticketing`, `autoticket`, `remediation`) | tickets, counters, links, budget | open, move, approve, link | check-then-create, remote issue before the commit | `TicketGraph`, `Ticketing` |
| ITSM synchronisation (`services/itsm`, `itsm_inbound`) | link, digest, secrets, remote ticket | push, poll, webhook | replay, reorder, rotated secrets, replaced connectors | `ItsmSync` |
| workflow rules (`services/workflow`) | definitions, runs | trigger, write, rename, seed | a step that breaks the transaction, counts written from copies | `WorkflowRules` |
| intelligence corpus (`intel/feeds`, `services/intelligence`, `intel_pipeline`) | corpus, runs with watermarks, findings of each tenant | pull in pages, fail, die, walk the tenants | progress over several commits, order among three feeds | `FeedSync` |
| intelligence schedule (`services/intel_schedule`, `scripts/sync-intel.sh`) | intervals per tenant, last runs | ask, fetch, change | an hourly timer against intervals in hours | `Cadence` |
| tenant settings (`organizations.settings`) | one document | every switch and section editor, the digest | the whole document is written back | `OrgSettings` |
| notifications, digest (`services/notifications`, `digest`) | outbox rows | queue, dispatch, flush | two dispatchers, death between mail and commit | `Outbox` |
| scanner connectors (`services/scanners`) | connector row, imported scans | edit, test, pull, preview | whole-request rollback after partial work | `ScannerSync` |
| upgrades (`services/updates`, `scripts/veyrs-updater.sh`) | spool, uploads, installed tree, backups | check, upload chunks, request, install, report | two processes over a directory, kills | `Updates` |
| secret vault (`security/secrets`, `secret_vault`, `services/secret_storage`) | rows, vault entries | save, migrate, collect | no shared transaction, outages half way | `SecretStore` |
| authentication (`api/v1/auth`, `security/mfa*`, `services/oidc_auth`, `radius_auth`) | account, codes, challenges, tokens | sign in by four doors, enrol, refresh, disable | one budget over several endpoints, things begun before and finished after | `SignIn` |
| authorisation (`api/v1/admin`, `security/scope`) | roles, memberships, sources | grant, narrow, synchronise, show | who may take back what from whom | `Grants` |
| assets and CMDB (`services/cmdb`) | staging rows, links, assets | sync, link, promote, patch, delete | stale staging copies, records that return | `AssetSources` |
| risk register (`services/risk_register`) | risks, seats, links | open, edit, close, RACI | overlapping patches | `RiskRegister` |
| compliance (`services/compliance`) | claims, assessments, gaps | claim, refresh, stale, assess | person, signal and calendar write one column | `Compliance` |
| knowledge, wiki (`services/docs`) | revisions, page link | edit, publish | page before link, silent wiki | `Runbooks` |
| AI gateway (`services/ai/gateway`) | policy, endpoints, audit lines | ask, answer, administer | budget counted before, line written after | `AiGateway` |
| risk engine, CVSS, reports, search, console, CLI, site, packaging | | compute, read, render | little state over time | none |

How they interact: a job's result is imported (`importers`), which creates,
updates and closes findings (`correlation`, `engagements`); a finding that
changes is scored, assigned, given an SLA, ticketed and passed to workflow rules,
in that order and in one transaction; a remediation ticket that is resolved
advances its finding, and an external ITSM system moves the ticket. Feeds,
inventory and fix plan say which findings there are; settings switch all of it.

## Modules

| module | what it is |
|---|---|
| `AgentDispatch` | the dispatcher: jobs, log, agents, switch, requests in flight |
| `JobLifecycle` | abstract specification: the life of one job as its owner sees it |
| `LifecycleGraph`, `TicketGraph` | the states of a finding and of a ticket, their transitions, the routes |
| `PathTo` | the breadth-first search that computes a route, as the code runs it |
| `FindingLifecycle` | one finding under imports, operators, tickets, workflows, acceptances, the sweep and time |
| the others | one component each, as in the inventory |
| `MCAgentDispatch`, `MCFindingLifecycle`, `MCFindingMix`, `MCTicketing`, `MCOperations`, `MCPlatform`, `MCAccess`, `MCRecords` | instances for TLC |
| `*Proofs` | theorems and proofs |

`MCTicketing`, `MCOperations`, `MCPlatform`, `MCAccess` and `MCRecords` put several
components that do not share state into one run: a behaviour is about one of
them, and the others rest in one initial state, so the states add up and are
not multiplied. Components that do interact are in one module: an import, the
SLA and acceptances in `FindingLifecycle`; both state machines and the finding in
`Ticketing`; corpus and tenants in `FeedSync`.

### AgentDispatch

* `job[j]` is a row of `agent_jobs`. `token` is the number of the lease (a lease
  mints a fresh random string and increments `attempts`, so the number stands
  for the string); `lease` is `lease_expires_at`, as `live`, `lapsed` or NULL;
  `seq` is `last_event_seq`; `pinned` is `requested_agent_id`.
* `events[j]` is the set of sequence numbers in `agent_job_events`, where
  `UNIQUE (organization_id, job_id, seq)` makes an insert of a taken number
  abort the transaction (`Appendable`).
* `imports[j]` lists, for each import of the job's output, the token it was
  submitted under. `agent[a]` is a row of `exec_agents`; `scanning` the switch;
  `held[a]` what the agent process remembers.
* `worker[w]` is the request a thread executes: which rows it loaded
  (`loaded`, `rows`, `seen`), and what it was asked.

Each endpoint is a pair `XBegin` (authentication, loads, refusals) and `XCommit`
(the handler's changes, the flush, the constraint), or `Abandon`, which covers
refusals, constraint violations, lost connections and dead workers: nothing is
written. `ClaimCommit` reads and writes in one step because the row is locked and
re-read. `Flush` writes dirty columns only, which is what makes a requeue that
meets a concurrent lease extension keep the extension's expiry, and a heartbeat
that computed no new status leave an operator's status alone.

`JobLifecycle` states what a job promises: it is queued once, granted only when
waiting and at most `MaxAttempts` times, returned, and settled at most once with
at most one import; `KeepsLifecycle` is `JobLifecycle!Spec` under the mapping
`LifeOf`, a refinement that is also proved.

Left out: which job a claim prefers, heartbeat age (the reaper may find any agent
stale), editing `max_concurrency`, dry runs, enrolment and token rotation, the
content of events. What admits a job is `ScanAuthority`.

### FindingLifecycle

* `finding` is the row of `findings`: `state`, `detected_at`, `remediated_at`
  (`fixed`), team and user (`owner`), `sla_policy_id`, `sla_due_at`,
  `sla_breached`, `escalation_level`, `accepted_until`. `moves` and `sla` are the
  FindingEvents and SlaEvents of the last transaction.
* `warned` says whether an SlaEvent "warned" exists, which is how the sweep looks
  for one. `absences[t]` is `consecutive_absences` of the sighting by test `t`.
  `acceptances[a]` is a risk acceptance that covers the finding, with the
  `previous_state` of its link.

The operators in the section "What the services do to a row" translate the
service functions (`transition`, `advance`, `apply_assignment`, `apply_sla`,
`_reactivate`, ...); an action is a transaction composed of them in the order of
the code, e.g. `ImportSees` is `ensure_finding`, `record_sighting`,
`process_finding` (which assigns, then applies the SLA). Where the code decides by
data that is not modelled, the model has a free choice: the policy that matches,
the owner that the rules name, the target a workflow asks for, the options of an
import. `FindingLifecycle` takes the route as a constant `Path` of which it
assumes only that it is a walk, so the theorems hold for any search; the
instances give it `Route`, and the run `records` shows for all 225 pairs of states
that `PathTo` returns `Route` and never `None`.

Left out: several findings (no operation reads one to write another), scores,
severity, business hours (a window is a number of time units), expiry warnings,
deletion of an SLA policy and an edit of one that is not re-applied, and more than
one workflow firing in a transaction.

### The other modules in one line each

The comment at the head of a module says what it is about and where the code is;
`PROJECT.json` names the lines behind each definition. What the state stands for,
where the names do not say it: in `SignIn`, `otp` is what Redis keeps and `ghost` a
history of guesses and of factors used; in `Grants`, a row of `user_roles` has its
source and its teams; in `FeedSync`, a CVE has a revision number instead of its text
and `runs` are the rows of the feed runs; in `Cadence`, ages are in hours and
saturate one above the largest that matters, and `due` are the places in the script of
the feeds of this turn that have not run; in `WorkflowRules`, `worker` is the
transaction and `context` the `WorkflowContext` of the workflow under way, `done` what
its steps did, which becomes `effects` with the commit, and `state` becomes "closed"
with it too; rows that are seeded together have one time of creation, so their order
is any; in `OrgSettings`, the document maps
its sections to small values; in `Outbox`, `mailings` is what the mail server has
seen; in `SecretStore`, an entry of the vault has a number for its value and keys
are never given out twice (they are UUIDs); in `Updates`, the position of the
updater in its script is `updater.step`; in `Ticketing`, `tx[w]` is a transaction
with what it looked at; in `ItsmSync`, `mail` is webhooks on their way; in
`FixPlan`, a version is the sequence of segments it parses to; in `AssetSources`,
`staged` are the staging rows and `register` the assets; in `FindingIdentity`, a
hash is the tuple it is computed of.

## Runs

| run | instance | shows |
|---|---|---|
| `dispatch` | 2 threads; per behaviour either 2 agents and 1 job, 1 agent whose row is disabled, aged, revived and deleted, or 2 jobs moved by one transaction | the log has no gaps, token and lease agree with the state, a token has one holder, one import under the lease in force, ends are final, pins are remembered, the limit is overshot only by concurrent claims, the switch spares running jobs, `JobLifecycle` is implemented |
| `dispatch_liveness` | 1 agent that forgets | orphaned jobs are released |
| `finding` | 2 tests and the states of the scans' business, or 2 acceptances | events account for every hop; a scan that sees the finding takes it out of the fixed states; however acceptances end, the finding is open again on its first window; the clock restarts only on purpose |
| `finding_sla` | 2 policies, 2 levels, 1 acceptance, time 0..2, fair sweep | one window; breaches and levels stick; an overdue open finding is marked |
| `tickets` | 2 threads over 2 findings; 1 ticket and its twin; 2 editors of path rules; 7 reports of software | references are unique, one ticket per finding and budget but for the overlaps the code allows, approvals by somebody else; issues and tickets agree once the line is quiet; plans obey the rules and fix what they say; no row and no exposure is lost |
| `operations` | 2 of every actor, 1 kill, 1 upload | upgrades are audited, whole, signed and forward; no credential is lost; notices are mailed once but for deaths and overlaps; what is believed imported was committed |
| `platform` | 2 CVEs and 1 tenant; 2 writers and the digest; 2 organizations and 2 feeds; 2 transactions over 3 slugs; 2 askers and 3 policies; 1 agent with 3 targets | no revision is missed and nobody is left untold; a section is lost only to an overlap; nobody waits longer than his interval; runs, counts and effects of workflows agree; the assistant keeps policy, budget and log; the agent stays within its policy and its word is evidence only if it covered the target |
| `access` | 2 wrong answers, 2 guesses, 2 codes, 2 tokens; 2 roles, 2 teams | one budget, no factor works twice, a session has one live token and none after its end; nobody holds a role nobody gave, lists show what is served |
| `records` | every pair of states; 2 sources and 2 keys; 2 writers of a risk; 2 controls; 2 clerks; 2 reports | the search returns the first of the shortest walks; assets are reconciled with their sources; risks, claims, runbooks and identities are kept |
| `dispatch_disabled`, `finding_regression`, `epss_rescore` | small instances | three statements of comments and docs that the code does not keep (`findings` in `PROJECT.json`) |

### Bounds

Two of every actor are enough for a race between two requests, and every unwanted
interleaving met while modelling is of two. Two attempts, tries or wrong answers
give one repetition and one last. A bound on a counter (`Max...`) stops what could
go on forever, and is at least one more than what the property needs to see happen:
a revision after the one that was told, an edit after the copy was read, a job after
the one that was declined. Windows of 1 and 2 units and a clock up to 2 let a
deadline be met and be passed; `MaxAbsences` 2 is the highest default threshold, and
a counter above the threshold does what one at the threshold does; the ladder
<<1, 2>> has one level before and one after the tight deadline. Versions are chosen
so that 7.2 lies in a range, on its edge and beyond it; targets so that each is
covered by a rule of the wrong kind; reports so that a product comes twice, in both
orders, without a version, and not at all; outcomes of a scan so that each clause of
`_coverage` decides once.

In `dispatch`, `finding`, `tickets` and `access` the whole of the component exceeds
what TLC can enumerate, and a behaviour has a mix of requests (`mix`, `Traffics`,
`focus`); the mixes overlap so that every two handlers that write a common column
meet in one of them. The theorems have neither mixes nor bounds.

`FixPlan.PathsObeyTheRules` and `AssetSources.PreviewsAgree` are about what the code
returns and are evaluated where no request is half way. Symmetry is used where the
actors differ in nothing but their names; `finding_sla` and `dispatch_liveness`, which
check liveness, use none.

### Fairness

`finding_sla` (`FairSpec`): the sweep is run every hour (`veyrs-maintenance.timer`
starts `sync-intel.sh`, which runs `veyrs run-sla`), and time passes. Weak fairness
is enough: while a finding is open the sweep is always possible. Nothing runs
`expire_due` but a request, so no fairness is given to it.

`dispatch_liveness` (`Fairness`): a request that began ends (commit or rollback),
because the server has timeouts; time passes; the reaper is called by cron again and
again (docs/DEPLOYMENT.md), and its calls are not all rolled back. The last is strong
fairness and is needed: an agent that streams into one job all the time can make each
reap of the whole batch fail. Nothing is assumed of agents. No other run assumes
fairness.

## Disagreements met while modelling

Besides the three findings that a run repeats. Each was confirmed by a
counterexample of TLC, or by reading where it says so less than a behaviour. Paths
are below `backend/veyrs` unless they start with `docs` or `scripts`.

*Dispatch and agents.*
* `services/agents.py:672`: an agent marked offline is leased a job at its next
  claim; `models/agent.py:56` says "Jobs stop being offered".
* `services/agents.py:1217`: the reaper takes a job whose lease was extended between
  its read and its write; `:1200` says "whose holder went silent". The other way
  round, an extension verified before a reap commits after it (`:740`, `:722`).
* `services/agents.py:678`: a claim reads the switch once and leases after it was
  turned off; `services/scanning.py:20-23` says that queueing and claiming are refused.
* `integrations/veyrs-agent`, `run_job`: "Do NOT requeue: another agent may
  legitimately be allowed" - not requeueing ends the job for every agent.

*Findings.*
* `services/correlation.py:270`: assigning a new finding walks new, deferred,
  assigned, the shortest route; `:268` says "Walks new -> triaged ->
  risk_assessed -> assigned so the event log shows the full lifecycle".
* `services/engagements.py:337`, `:455`, `:561`: states are written without
  `can_transition`; `models/vulnerability.py:46` says "The only transitions the
  service layer will perform". A closure by absence also writes no SLA event
  (`models/sla.py:81` "Every SLA state change") and takes a finding in verification
  back to remediated (`docs/USER_MANUAL.md:324` says it moves to verified).
* `services/engagements.py:491`: `expire_due` is called by its endpoint only; `:23`
  says "a job that acts on it". `api/v1/findings.py:452`: nothing reads the date to
  reopen the finding; `docs/USER_GUIDE.md:104` says "it reopens on the `until` date".
* `services/correlation.py:321`: `remediated_at` survives a failed verification, so a
  finding accepted later counts in the mean time to remediate; `docs/USER_GUIDE.md:105`
  says "Accepted findings are excluded from MTTR". `services/engagements.py:338`: every
  import that misses a remediated finding writes the time of its fix again.
* `services/ticketing.py:264`: a resolved ticket walks an accepted finding to
  remediated; `:279` expects it to stay.
* `services/workflow.py:225`: every known state is reached by walking; `:357` says
  "An illegal transition is reported as a step error, not forced".
* `services/engagements.py:262`: an import that leaves `close_absent` unset closes
  what it misses; `api/v1/integrations.py:176` says "NOT closed unless close_absent
  is set".
* No caller passes `close_missing=True`, so correlation never closes a finding;
  `agents.submit_inventory` says "keeping it would leave findings open against a
  package that was removed".
* Identity: `models/engagement.py:129-133` promises that `dedupe_within_engagement`
  confines the match; the match by tool id ignores it (`services/dedupe.py:82`).

*Intelligence, inventory and plans.*
* `services/correlation.py:681`: `correlate_asset` "runs when an importer or CMDB
  sync adds software to an asset"; neither calls it.
* `services/inventory.py:345`: "Autoflush means" a row is seen; the session is made
  with `autoflush=False`. `:272`: an operator's row survives a sweep, but an
  installation recorded over it makes it the sweep's, which may then delete it.
* `services/versions.py`: patch markers (`p`, `sp`, `hotfix`) and `ga`, `final` sort
  below the bare release.
* `models/upgrade.py`: a path "must stop" at a rule; the plan considers the rules that
  cover the current stop only.
* `services/intel_schedule.py:29-30` "fires hourly"; `veyrs-intel-sync.timer:8` is
  daily. An interval equal to the tick is in effect twice as long.

*Tickets.*
* `services/ticketing.py:10` "One open remediation ticket per finding": two
  transactions, or a resolved ticket taken up again, leave two. "Closed and remediated
  findings never get one" while `OPEN_STATES` contains remediated.
* `services/itsm_inbound.py` "Idempotent": a replayed webhook adds its comment again.
  An unlinked link still handles inbound events and is never reactivated by a push.

*Operations and records.*
* `services/updates.py:500`: a chunk sent twice passes both offset checks and the
  upload fails its digest. A kill in the middle of an install whose tree already names
  the target is later refused as "not newer".
* `services/scanners.py`: an `httpx` error is no `ScannerError`, so a whole sync is
  rolled back with its run; the audit line of a preview is rolled back too.
* `services/ai/gateway.py`: "Audit - written for allowed, degraded AND blocked calls
  alike": not for a call whose endpoint is deleted before it answers; and a call that
  an external endpoint received and failed has a line that calls it internal.
* `services/workflow.py`: six of the triggers on offer are fired by nothing;
  `ticket.created` is fired and not on offer.
* `services/cmdb.py:284`: narrowing the fields of a source leaves the old values; a
  preview counts differently from the promotion under `auto_promote` (`:952`).
* `services/compliance.py:411`: a claim "not applicable" may be put with an empty
  justification; a catalogue seeded at boot resets titles "without clobbering".
* `services/risk_register.py:230`: overlapping edits leave a score that is not the
  product of its factors; two closures clear each other's note.
* A document whose wiki page was removed fails to be published forever; one that
  somebody edited in the wiki is not restored.
* A directory that is down charges the person's budget of wrong answers.

Hazards that are real and in no run, because the model treats the transaction as one
step or leaves the data out: `services/correlation.py:317`,
`services/engagements.py:337`, `:338`, `:455`, `:491`, `:566`, `services/sla.py:419`,
`:453`, `services/autoticket.py:199`, `services/agents.py:1154`.

## Proofs

TLAPS proves the theorems listed in `PROJECT.json` for every value of the constants:
any number of agents, jobs, requests, tenants, workflows, askers, retries. They assume what the modules
name in `ASSUME`: numbers are numbers, sets of actors are finite where something is
counted, special values are not members of the sets they stand beside, `Path` is a
walk. Every invariant below is inductive only with what is added to it; each was
checked by TLC as an invariant of a run before it was proved.

**AgentDispatchProofs.** Commits are computed from copies. `IInv` adds, for every
request in flight, that each copy is a *snapshot* of the row (`Snapshot`): it is not
ahead of the row, and as long as the sequence numbers agree, the columns that decide
agree too. `Advance` says what any step may do to a row, and three lemmas carry the
argument: a snapshot survives any advance (`SnapshotAdvances`); an insert into a log
without gaps succeeds only if the copy's number is current (`SucceedsOnlyIfFresh`);
hence a handler that logs decided on current columns, and flushing its columns is an
advance to a consistent row (`HandledFlush`, `HandledCommit`). Extending a lease logs
nothing, which is why it needs a lemma of its own, and why `lease` is not among the
columns a snapshot vouches for. From `IInv` follow the invariants of the run
`dispatch`, its action properties, and `ImplementsLifecycle`: every commit is a step
of `JobLifecycle` or a stutter. `OvershootBounded` needs more than it says: the jobs
an agent holds and the claims that may still commit are counted together.

**FindingLifecycleProofs.** `IInv` adds to the types that a detection is not in the
future: without it a restart, which sets the detection to now, could move a deadline
out of the window of the new detection. The argument is compositional, as the code
is: each operator on a row has a lemma that it keeps the row `Sound`, one that its
result `Follows` the row (restarts the clock, or forgets nothing), and one that its
events lead from the old state to the new (`Led`); these compose, so an action made of
four operators follows from four lemmas.

**AccessProofs.** `SignInInv` adds to `SignInIsBounded` that the row's count is the
history's (`Counted`), that every factor used is below what would work again (`Used`),
and to `SessionsAreClosed` that a session begins with a token of its own, has at most
one live and none once it was ended (`Closed`). `GrantsInv` accounts for every role by
its row's source. `AccessTypeCorrect` puts both together for the instances of the run
`access`, as `OperationsTypeCorrect` and `PlatformTypeCorrect` do for theirs: a
component that rests keeps its invariant, so one of its steps is enough.

**OperationsProofs.** What a request
holds is tied to what was committed: a puller's copy believes only what was imported
(`Believed`, `Honest`); a dispatcher's copies tell no more than what happened, and a
row that is not excused is in one batch at most (`Told`, `Carries`, `Once`); no two
rows, saves or conversions name one vault entry, a migration's stale copy is of a row
that names another entry by now, and what is about to be collected is neither named
nor young (`Alone`, `Migration`, `Collection`); the updater's position in its script
says what it has established about its copy and its target (`Progress`), and the tree
that is not broken is the one that was backed up (`Backed`). `OperationsTypeCorrect`
is about all four.

**PlatformProofs.** `FeedInv` follows a revision from its source to the tenant: it is
in the corpus, still to be pulled, refused, or above the watermark (`Pulled`); who does
not show it is awaited by the walk, or an interrupted run says why (`Told`,
`NvdTold`). `SettingsInv` says what each held copy of the document may lack.

**TenantProofs.** `TenantsServed` is about the four services a tenant configures.
`CadenceInv` says how long a feed may have waited *at this moment* (`Waited`): a feed
behind others waits for the fetches before it, one that was missed by a turn for the
rest of that turn and the timer, and an hour of waiting always moves the bound with it;
`NobodyGetsLess` is what is left when the largest of these bounds is put for all.
`AiInv` ties what an asker waits for to the call that was sent and to its endpoint
(`WaitingsFit`, `CallsFit`), lets no line be of a call somebody still waits for
(`LinesFit`), and counts the lines of the day together with the calls that may still get
one (`BudgetFits`): that sum grows when a call begins and not when it is answered.
`AuthorityInv` adds to `AgentsAreTrusted` that an enabled tool exists, and so does one
that is being toggled. `WorkflowsInv` follows a transaction from its trigger to its
commit: what has run is honest and of different workflows (`Recorded`); the workflow
under way obeys the rules so far (`Partial`), and what its steps did is what will be
written (`Going`); and the transaction read no more rows than there are, with counts
that are at most the number of runs in the log (`Reading`): so the count it writes, one
more than what it read, is never too high, and is right unless another transaction
committed in between, which `overlapped` remembers. The least element of a set (the next
feed, the endpoint that is chosen, the next workflow) exists by `LeastNatural`, from the
well-foundedness of < on the naturals; that a seeding which puts every one of n built-in
workflows somewhere in n places puts none twice is `OnceEach`.

**RecordProofs.** `RecordsInv` puts the inductive invariants of six subjects together; `RecordsKept`
is about four of them. `RegisterInv`
says what a request holds of a risk agrees with itself, and so does the row it will be
written over unless `torn` remembers an overlap. An
overlap is settled by a commit over a row that is as it was read *with what is derived
from it*, the score and the date of the closure (`Factors`, `Closure`): a row whose
factors were changed there and back may still have the score of another request, which
the induction does not forgive and which takes three writers and five edits to reach.
`ComplianceInv`
knows what each request read (`Reads`): rows of the catalogue that are still there, and
for an exclusion a justification that is brought or was read; gaps are only made with
the completion (`AssessmentFits`); and a count that is not below the number of controls
is a count of all of them (`AllInstalled`). `RunbooksInv` adds `Mirrored`, which holds
until publications overlap or an answer is lost: at most one publication is under way,
it read the link that is there, what it sent is on its page, and no other page exists;
and that no edit has read a version that is ahead of the article, so that a revision
whose number is free is the next one. `IdentityInv` adds that a finding nobody took over
was only ever given the id it has (`IdsAreOwn`), and, where the id is the key, that the
key says so (`IdsAreUnique`): two findings of one id would have one key.

`AssetsReconciled` is about the sources of the estate. `SourcesInv` says of what is
committed that links lead, that a row exists only while its source does, and that the
absent rows are the unlisted ones (`CommittedFits`); of a reading under way, that as long as
the source exists its own rows are listed and absent as the reading found them, so that
what it will mark absent is judged by what stands there (`ReadFits`); of a promotion, that it has
dropped no row and no asset, and that what it has left in an asset is what the highest
source among the rows copied so far states (`PromotionFits`). That the assets it links to
are still there when it commits is in both. Reading an export and promoting a selection
are recursive functions over the entries and the rows: each is followed to the least step
at which its invariant would fail (`LeastNatural`). The names take the longest argument
(`NamesFit`): an asset has the name it had before the transaction or that of a row the
transaction handled, hence two assets of one name, one of them new, are explained by a
renaming or by rows that are of one asset and disagree on its name. The proof refuted the
reason the property gave before, that a row was linked by hand: two records that share a
serial number and not a name are enough. `PreviewsAgree` compares a preview with
the sync it previews, entry by entry (`Abreast`): without promotion, a reading looks only
at rows of other sources and at the register, which neither has touched. `MaxAssets` names the assets there can be: the theorem assumes
that there are names for one asset and for all that the sources list when they are first
read, and a reading begins while there are names for its export. `RecordsTyped`
is about all six.

`RoutesAreLegal` gives what `FindingLifecycle` assumes of `Path`: the search of `path_to`
returns a walk and never `None`. `RouteInv` says that every trail in the queue is a walk
to its state, and that a state that was seen waits in the queue or has all its successors
among the seen. Had the queue run empty, no transition would leave the seen states; but
such a set is empty or is all of them (`EveryStateIsReached`), the target included.

**TicketProofs.** `RemediationInv` puts four invariants together. `WorkInv` says what a
transaction holds: who holds the lock of a counter is the only one whose reference is
not yet a row's, so the references taken are dense counted together (`TakenAreDense`);
the tickets of the automation and those that were decided on stay below the cap plus
one for each other transaction (`Committed`); a move decided on a state that is still
the ticket's if the ticket is a change that needs an approval (`ApprovalsAreKept`); no
two transactions have pushed one finding (`PushesAreApart`). `SyncInv` says that while
no answer was lost at most one push is under way, what the remote issue holds is what
the link or the answered push says, and every issue raised has a connector of its own,
the next one's included (`AnswersAreKept`). `FixInv` needs for `PathsObeyTheRules` that
a way takes each rule's stop at most once: the stops still ahead, a finite set, lose
one at every hop, so a way ends before `MaxHops` if there are fewer rules than that;
`FixPlansStaySound` says so as its hypothesis, because the code cuts a longer way. What
a patch read and what it merges are sane unless the row was written in between
(`EditsInv`). In `InventoryInv` the fold of `install` over the items of a report is
followed item by item: the partial report keeps each row told apart and of a known
product (`Tidy`), by the least item at which it would fail to.

Only model-checked: liveness (`OverdueIsBreached`, `OrphansAreReaped`), which is out of
the prover's reach, and the rest of `RoutesAreFirst`: that the route is the shortest and of the
shortest the first compares it with a function that is defined by recursion over the
graph, and would need an induction over the length of walks. It has no constants:
the states and the edges are the code's, and TLC searches every pair of them, so its run
leaves no instance out.

## Not modelled

* The risk engine and CVSS (`engines/risk.py`, `engines/cvss.py`): formulas over one
  row. What is of order about them - who calls them, and when - is in `FeedSync`
  as far as the feeds are concerned; the rescoring after an edit of an asset, a
  promotion or an import is not.
* The parsers of thirty report formats, the dialects of scanners, ticket systems and
  directories, the parsing of versions and of feed records: data, of which the models
  take the result.
* Reports, search, views, analytics, documents' rendering: reads.
* The command line, the console, the site, packaging, backups: entry points.
* Row level security and tenant binding, API keys, the request limiter, the audit
  log's chain of hashes; the commit of an audit line is modelled where a component
  promises one (`Updates`, `ScannerSync`, `AiGateway`).

## Plan

1. A module of the risk engine's callers: which operations leave a score behind what
   it is computed from.
