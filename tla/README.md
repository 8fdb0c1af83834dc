# Career Agent Core: a TLA+ verification project

Career Agent Core discovers job postings, scores them, fills application forms
and either submits them or hands them to a person. These modules model the
parts of it where several processes, a shared SQLite database and a human act
on the same rows, check the properties that make those parts correct with TLC,
and prove the central ones with TLAPS.

`tlc -config <run>.cfg <module>.tla` repeats a run, `tlapm <module>.tla` a proof.

## 1. Inventory

### Parts, their state, and how they interact

| part | code | state | operations |
|---|---|---|---|
| assisted handoff | `pkg/storage/assisted.go` | `assisted_applications`: handoff state and lease of each job | claim, renew, release a lease; ask to continue; submit answers; record questions, refill, manual review, revalidation; confirm, not found; create a plan |
| assisted browser | `cmd/assist` | its phase, its job, answers in memory | claim the lease, open a page, poll once a second, refill, type answers, clean up |
| apply session | `pkg/storage/sessions.go` | `application_sessions`, `application_session_items` | start, pick next, mark open, advance, pause, stop |
| session control | `cmd/dashboard/apply_session_api.go`, `main.go` | the goroutine that opens the next job, its child process | start, pause, resume, stop, skip, auto-advance, launch with a ready timeout |
| questions and answers | `pkg/storage/questions.go`, `cmd/dashboard/assisted_answers_api.go` | `application_questions`, `pending_answers`, `assisted_fill_summary` | replace, prepare, mark a fill, queue, take, discard |
| eligibility | `pkg/storage/eligibility_reconcile.go` | the rows one reconciliation has read | with every poll of the queue: reads it, then writes SKIPPED and deletes the handoff row of each posting that fails the policy |
| job funnel | `pkg/storage/manager.go`, `promote.go`, `duplicates.go` | `job_funnel`, `applied_jobs`, `execution_state` | add, claim, retry with backoff, defer, reap, requeue, promote, sweep |
| worker pipeline | `cmd/agent/pipeline.go`, `main.go` | workers, the queue between feeder and workers | validate, fetch, score, submit; every outcome is a funnel status |
| submission attempt | `pkg/submitter/browser.go`, `vision.go` | a browser page, `form_mappings`, the counters of one call | open, reach the form, fill by one of four handlers, click, judge the outcome, enter an emailed code, repair, recover from a dead target |
| circuit breakers | `cmd/agent/circuit_breaker.go`, `pkg/scraper/circuit_breaker.go` | state, failures, opening time | allow, success, failure |
| language models | `pkg/mcp` | the provider, the offload route of a job | preflight, route a call, generate a job's documents with retries |
| agent supervision | `cmd/agent/main.go`, `cmd/dashboard/main.go` | lock file, PID, managed process | start, stop, kill, probe |
| settings and watchdog | `pkg/config`, `cmd/agent/watchdog.go` | `operator_settings.yaml`, `active_operator_settings.json`, the profile in memory; stalled cycles | save, read, take over, acknowledge; observe |
| discovery | `pkg/scraper` | the refresh under way, the Yahoo breaker; rows of `job_funnel` | ask each kind of source, retry, fall back, filter, insert under a cap, note the place |
| eligibility gate | `pkg/config` eligibility, title policy, location | none | judge a title, a place, a description |
| answer vault | `pkg/answers` | `approved_answers`, `answer_aliases` | save, save an absence, bind wordings, edit, revoke, seed, resolve a question |
| knowledge base | `pkg/knowledge`, `cmd/dashboard` | pending questions with their advisory columns | group, approve, re-evaluate, remember |
| tracker | `pkg/tracker`, `pkg/storage/tracker_cursor.go` | `tracker_cursor`, `processed_emails`, `unmatched_outcomes` | scan two ranges of a mailbox, classify, match, record, advance |

The assisted browser and the dashboard never call each other. The dashboard
starts `cmd/assist` and reads one "ready" line from it; everything else goes
through rows: the dashboard sets `continue_requested` or `answers_provided` on
a leased row, the browser reads the state with every poll; the browser asks
the session tables whether its work is finished; the dashboard asks the lease
table whether a browser is live before it opens the next one.

### What is hard here

* Exclusion across processes rests on one UPDATE with a NOT EXISTS and on
  heartbeats that stop while a page opens or a form is filled, and every poll of
  the dashboard may delete the row a browser is on.
* A process may be killed at any statement; none of its deferred cleanup runs.
* Auto-advance picks, gates, marks and launches in separate commits, while the
  operator confirms, skips, pauses and stops, and the dashboard restarts.
* Requests are rows set by one process and consumed by another, which may be
  closing. Answers are rows that must be consumed once and never left behind.
* Questions are written by the browser, by preparation and by the automatic
  pipeline, in transactions of their own.
* Funnel rows are claimed by an unconditional write, from a batch loaded
  earlier, and reset by a reaper; discovery, the e-mail tracker, the dashboard
  and the operator's commands write the same rows meanwhile.
* A submission and the rows that record it are three steps apart. The reconciliation
  of the queue writes by id what it read before, and two checks that guard against
  doing something twice answer "no" when the database does not answer.
* One call of `AttemptSubmit` drives a page it cannot trust: the target may die
  at any call, the server's answer appears later than the program looks, a click
  that reports an error may have been received, and one error value travels
  through fallback, recovery and retry, where it decides whether to click again.

* Requests to one employer system overlap: some end after the circuit opened for
  others, or while a probe is out, and three nodes must write the row back.
* Discovery adds to the queue the workers drain, in several writes a posting,
  with a cap that is counted at the insert.
* The tracker's checkpoint moves over numbers, the messages it stands for are
  deleted, renumbered, and acknowledged one by one by a process that may die.
* Approving, editing and withdrawing an answer check before they open their
  transaction; a look through the queue resolves and marks separately, with the
  profile its request read at the start.
* The agent's lock file keeps the PID of a process that is gone; settings are
  read twice in a cycle while the operator saves.

`PROJECT.json` lists every hazard at its line, with the properties that cover it.

### What makes each part correct

* lease: nobody joins a browser that keeps its heartbeat; a dead lease runs out
* requests: handled by the browser or withdrawn with the lease
* session: one item in progress; outcomes recorded once, together with the
  handoff row; the browser of a decided item closes; a session stalls only on an
  item that a kill or a restart abandoned
* answers: handed over once, gone with the outcome, typed while a browser runs
* funnel: a recorded application is not repeated while the record can be read;
  APPLIED stays and a worker's row is its own, but for a reconciliation that has
  read the row before; retries end within their budget; no row stays PROCESSING
* submission: no click that was not asked for; success has evidence, or a word in
  the URL; one filing unless the acceptance could not be seen; bounded clicks; the call returns
* breaker and workers: a failing system is left alone and still asked again; every
  posting leaves the queue; the pipeline is implemented
* models: what the preflight found is what is called; the service loses no job but
  by calls it reports as failed
* supervision: one agent; true answers; settings taken over; a stall has and keeps
  its alert
* discovery: the cap, the end of a refresh, no posting lost on the way to its row
* vault: no declaration typed without a grant that stands, but by an edit that raced
  another; no wording bound unasked; a report that says what would be filled
* tracker: nothing passed over, one move a message unless its check failed,
  everything handled

## 2. Modules

| module | models | extends |
|---|---|---|
| `JobIds` | job identifiers, ordered as a session orders them | |
| `AssistedLease` | the handoff rows and every statement that writes them | `JobIds` |
| `AssistProcess` | `cmd/assist` processes, the dashboard's handlers, kills, the clock | `AssistedLease` |
| `BrowserDesk` | abstract: visible browsers, none opened beside one that is attended to, outcomes that stay | |
| `ApplySession` | the session tables and their statements | `JobIds` |
| `ApplySessionFlow` | session, auto-advance, launcher and browsers together | `AssistProcess`, `ApplySession` |
| `AssistedQuestions` | questions, pending answers, the fill marker | `JobIds` |
| `AnswerFlow` | questions and answers between form, tables and card | `AssistProcess`, `AssistedQuestions` |
| `JobFunnel` | `job_funnel`, `applied_jobs`, the cards, every statement on them | |
| `AgentPipeline` | the daemon, its workers in the pipeline graph, everyone else who writes the funnel | `JobFunnel` |
| `EmployerSite` | the page, the employer's server behind it, the mailbox | |
| `SubmitAttempt` | one call of `AttemptSubmit` with its handlers | `EmployerSite` |
| `SourceCircuit` | one circuit breaker | |
| `ModelCalls` | models, their preflight and routing, the offload service, document generation | |
| `AgentNetwork` | workers with requests under way behind a breaker, and their documents | `AgentPipeline`, `SourceCircuit`, `ModelCalls` |
| `OperatorSettings` | settings file, profile and acknowledgement | |
| `AgentSupervision` | agent processes, lock file, dashboard, the daemon's cycles and watchdog | `OperatorSettings` |
| `JobEligibility` | the eligibility gate as operators | |
| `PostingUrl` | what is read off a posting's URL | |
| `Discovery` | a refresh of all sources beside the workers | `SourceCircuit`, `JobEligibility`, `PostingUrl` |
| `OutcomeMail` | classification and matching of a message | |
| `OutcomeTracker` | the scan, the mailbox, the funnel it writes | `OutcomeMail` |
| `QuestionWords` | what is read off the wording of a question | |
| `AnswerVault` | the vault's rows, operations and lookups, as functions on its state | `QuestionWords` |
| `ApplicationKnowledge` | the queue's questions, the dashboard's requests, browsers, the vault | `AnswerVault` |
| `AssistProcessProofs` | theorems about `AssistProcess` | `AssistProcess` |
| `HandoffProofs` | theorems about `AnswerFlow` and `ApplySessionFlow` | both, `AssistProcessProofs` |
| `AgentProofs` | theorems about `AgentPipeline`, `AgentNetwork`, `ModelCalls` | `AgentNetwork` |
| `SubmitAttemptProofs` | theorems about `SubmitAttempt` | `SubmitAttempt` |
| `AgentSupervisionProofs` | theorems about `AgentSupervision` | `AgentSupervision` |
| `DiscoveryProofs` | a theorem about `Discovery` | `Discovery` |
| `TrackerProofs` | theorems about `OutcomeTracker` | `OutcomeTracker` |
| `KnowledgeProofs` | theorems about `ApplicationKnowledge` | `ApplicationKnowledge` |
| `MC...` | one per model checked | |

A store module has one action per statement or transaction, named after the Go
function, with the WHERE clause as its guard. A statement whose WHERE selects
no row is the action being disabled where the caller ignores it, and an explicit
alternative where the caller reacts (`RecordOrExit`, `Submits`). The process
modules add control: `phase[p]` is where `main()` is, and a composing module
takes a step of the process and says what else it writes.

### How state corresponds to code

| variable | code |
|---|---|
| `state`, `owner` | `assisted_state`, `lease_owner`; "absent" is no row |
| `ttl` | time until `lease_expires_at` |
| `age` | time since `updated_at`, which every write to a row refreshes; counted while the row is owned, up to the heartbeat window |
| `phase`, `job` | position in `main()` of `cmd/assist`; `-job-id` |
| `lapsed` | history: processes that let the heartbeat window pass, or whose row was deleted |
| `session`, `stopAfter`, `item` | the columns of the latest session; `auto_advance` is always set by the dashboard |
| `advance`, `next`, `child` | position in `advanceApplySession`, its job, the process it launched |
| `abandoned` | history: items left in progress by a kill or a restart |
| `question`, `pending`, `source` | rows of `application_questions`, `pending_answers`; `fill_source` |
| `status`, `retries`, `backoff` | columns of `job_funnel`; `next_eligible_at` in the future |
| `reason` | `status_reason`, of which only "promoted" is ever read back |
| `intent`, `applied`, `card` | `processing_intent`, `applied_jobs`, the card of the operator's queue |
| `agent`, `at`, `promoted` | the process, the node each posting's worker is in, `Intent` of the loaded batch |
| `clearing` | the patterns of a requeue between its two statements |
| `selected`, `removed` | what reconciliations of the queue have read and refused; those whose card is still to be deleted |
| `sent`, `unchecked` | histories, no columns: an application has gone out; the last duplicate check failed |
| `page`, `answer`, `code` | the Playwright page; the server's answer not rendered yet; the e-mail with the code |
| `accepted`, `clicks`, `trail`, `missed` | history: filings received, clicks on Submit, what this page went through, an acceptance out of the program's sight |
| `pc`, `err`, `outcome` | position in `AttemptSubmit`; `dynErr` or `execErr`; the error returned |
| `attempt`, `complete`, `recoveries`, `verdict`, `baseline`, `emailed` | `attempt`, `initialAttemptComplete`, `targetRecoveries`, `lastVerdict`, `urlBeforeSubmitClick`, `emailedCode` |
| `mapping`, `marked`, `touched` | the row of `form_mappings`; `markAutomaticFillAttempted` called; history: a handler ran on the form |
| `circuit`, `failures`, `cooldown` | `state`, `consecutiveFailures`, what is left of the cooldown since `openedAt` |
| `asked`, `streak`, `quiet`, `lost`, `refused` | how long a posting's request is under way; histories of the failures in a row, the time since the last request, the postings that failed for want of documents the agent could have made, those for which the service reported a call as failed |
| `stage`, `term`, `holder`, `probing`, `pidFile` | of each agent, its position in `main`; SIGTERM pending; the flock, exclusive and shared; the content of the lock file |
| `file`, `active`, `profile`, `eff` | `operator_settings.yaml`, `active_operator_settings.json`, the daemon's `prof`, the settings a cycle read first |
| `phase`, `stage`, `tries`, `found`, `owed`, `fallback` (Discovery) | which kind of source a refresh asks; each inquiry, its attempts, what it has still to insert and to note the place of; whether SerpApi is given up |
| `row`, `source`, `placed` | `status`, `discovery_source`, and whether `job_location` and `is_remote` are set |
| `cursor`, `processed`, `unmatched` | rows of `tracker_cursor`, `processed_emails`, `unmatched_outcomes` |
| `inbox`, `validity`, `arrived` | the mailbox by UID, its UIDVALIDITY, the dates |
| `unchecked` (tracker) | history: acknowledged messages whose check failed |
| `work`, `watchdog` | what the snapshot after a batch shows; `stalledCycles`, whether `previousConfirmed` is still zero, whether `lastAlert` is set |
| `vault`, `pending`, `fillable`, `held`, `request` | `approved_answers` and `answer_aliases`; open questions, those marked `auto_fillable`; leased jobs; the position of each request in its handler, with the profile it has read |
| `configured`, `profiles` | the families `pii.yaml` has a value for, now and so far |
| `granted`, `regranted` | histories: rows whose last save had both boxes and was not withdrawn since; rows an edit gave reuse back that had read them before the withdrawal |
| `taken`, `form` | answers in a process; answers of a request between its check and its commit |

### Abstractions

* Owner tokens are random and never drawn again. A killed process's token
  becomes `Lost`, so a process identifier can start again.
* Time is a number of ticks. Only the order "heartbeat window before lease
  duration" matters; `LeaseTimesAssumption` states it.
* The renewal, the session check and the reading of the state in one poll are
  one step. A write between them is seen by the next poll, one second later.
* `GetAssistedLaunchInfo` may refuse for reasons outside the tables (policy,
  ATS, revalidation); what it grants satisfies the conditions modelled.
* Only the latest session is kept. Starting one is refused while one is open,
  and every statement filters on sessions that are not finished.
* The order of a session is the order of job numbers.
* A database error is modelled where the code takes it for an answer and goes on to
  do something it would not have done: `HasApplied` (`Eligible`), `WasEmailProcessed`
  (`ToHandle`), the second statement of the pruning, the calls of a tracker scan and
  of a refresh. A failed transaction is one that did not happen.
* A session item has two terminal states for the code's four: `decided` for
  confirmed and not found, `left` for skipped and blocked.
* An item of a session whose row the queue page deletes keeps its state; a row the
  page adds belongs to no session.
* In the funnel both quarantines are `QUARANTINED`, and everything the tracker
  records is `EMPLOYER_ANSWERED`: no statement tells them apart.
* A posting is in a batch once, and the next batch is loaded when the last is
  drained, so a worker is a function of the posting; `Workers` bounds how many
  postings are in a node. The single-instance lock is assumed: one agent.
* `AutoSubmit` is read anew in every cycle: any value of `AutoSubmitModes`,
  each time a score passes. What pages, models and forms answer is free.
* `ClickSubmit` is the click inside `AttemptSubmit`; the error it returns comes
  later and may be any that the code can return after the click.
* In `SubmitAttempt` a fill handler is one step: it fails before the click, is
  gated, finds no button, or clicks; its target may close anywhere in it. Which
  field gets which value is left out, except whether a field stayed uncommitted.
* A click is dispatched, then answered; `Render` shows the answer whenever it
  likes. `Unseen`, a click reported as failed that the server has received, is
  what the browser allows: a timeout or a crash after dispatch.
* Three URLs suffice: the posting, the form behind Apply, and any later page. Which of
  them contain "thank", "success" or "confirmation" is given (`Wordings`): none, or
  the form and what comes after it.
* `accepted` counts to 2, which stands for "more than once". The mailbox matters
  only with a `SecurityCodeFetcher`.
* A nil `mapper`, a configuration the agent does not use, is left out. The
  consent page (browser.go:1708) gets its choice before the fill is reported:
  it is not the application form. The report's own write may fail and is then
  only logged; `marked` is the call, not the row.
* The postings of `AgentNetwork` are all of one employer system: breakers of two
  domains share nothing. A request is shorter than a cooldown
  (`NetworkAssumption`: 3 tries of 10 s against 2 minutes). What the documents of
  an attempt come to is one of the outcomes `ModelCalls` computes for every
  combination of service, provider and oversized prompts in `Attempts`. Beside
  the agent only discovery moves a posting there; the others are in
  `AgentPipeline`, which it refines.
* In `Discovery` what a source answers is a fixed set, which may be withheld by
  any error. A URL is its site, label, segments and parameters; a location or a
  description is the countries and remote phrases found in it; the word lists
  keep a word of each kind. A stop or a kill of the agent is `Restart`.
* In `OutcomeTracker` a message is what classification and matching find in it,
  and a date is a number of messages, while IMAP compares days.
* In the vault a wording is a sequence of words, each list names one spelling of
  a word, and an answer has no text: what matters is its sensitivity, whether its
  reuse was granted, and its scope. `Normalize` is not the identity: it drops
  stop words and markers, so different wordings share a key.
* A request of the dashboard reads `pii.yaml` once; so do an assisted browser at a fill
  and a preflight run, for which any profile configured so far will do. The group of
  an approval is read at the moment its profile is. The look a preflight run ends
  with is that of a request.
* A settings value is the mode and the list of countries; a settings file can be
  missing or corrupt.
* A funnel write that fails is logged and ignored by the code. The models let
  it succeed, except the statements of the pruning.
* The watchdog's snapshot is one of four: an empty queue or a new application, a day
  with a dominant terminal status, one without, or one that cannot be read.
* `RecordAssistedQuestions` and `RecordAssistedRefill` are two commits, the
  questions and the state; each has its own action.

## 3. Runs

| run | instance | shows |
|---|---|---|
| `assist_process` | 2 jobs, one direct; 2 processes; window 2, lease 3 | only a lapsed browser is joined by another, no orphaned request, refinement of `BrowserDesk` |
| `apply_session` | 2 jobs, one direct; 1 process; window 1, lease 2 | one item in progress, outcomes recorded together, the browser of a decided item closes, no stall but on an abandoned item |
| `answers` | 1 job, 1 question; 2 processes; window 2, lease 3 | answers handed over once, gone with the outcome, typed; fill source; requests handled, dead leases run out |
| `agent_pipeline` | 1 posting, 3 attempts, both modes, every requeue status | rows of workers safe, dedup rows earned and respected, APPLIED kept (176,678 states) |
| `agent_network` | 2 postings, 2 workers, batches of 2, 2 attempts; threshold, cooldown 2, requests of 1 tick; 38 ways an attempt's documents go (115,901 states) | refinement of `AgentPipeline`; probes spaced; no row stays PROCESSING, no posting stays in the queue; no job lost by the service but for calls it reports as failed |
| `submit_attempt` | every mode and route, 3 rounds, 1 recovery, URLs worded or not | gate, evidence, filings, order of the report; the call returns |
| `outcome_tracker` | 2 postings of one employer, 2 messages of 4 kinds, batches of 1, 1 fault, 2 generations (549,578 states) | nothing passed over, one move a message; everything handled |
| `agent_supervision` | 2 agents, 2 modes, 2 scopes, alert after 2 cycles (1,010,208 states) | one agent, true answers; settings taken over, a stall alerted for good |
| `discovery` | 5 inquiries of 3 kinds, 3 postings, 1 board, cap and worker 1, 2 tries, threshold and cooldown 1 (174,250 states) | the cap; refreshes end, postings are recorded |
| `application_knowledge` | 3 questions of 2 jobs, 2 requests, 2 profiles, 2 decisions, 3 with an edit or a withdrawal, global scope (679,804 states) | declarations granted, wordings confirmed, reports as read |
| `yahoo_probe_lost` | as `discovery` | violation: half open, and no probe out |
| `screened_without_description` | as `discovery` | violation: scored, though the description excludes it |

### Why the bounds are enough

Two jobs let a lease on one row meet a claim on the other, and let a session
have a current and a next item. Two processes let one start while the other
runs, is silent, closes or has been killed; a third can only repeat what the
second does, and `OneProcess` is proved for any number. The session run has one
process, which may be killed and started again, and a window of one tick, so that
time passes while no process runs, which is when it matters to a session; two
browsers at once are the subject of the other two runs. In the answer run the second
process may take the row over while the first still fills, types or cleans up.

The funnel properties speak of one posting at a time, and no statement but the
reaper, the sweep and requeue touches two. One posting already meets every
writer in every order, with a limit of three attempts so that failures below,
at and after a requeue differ; that several postings and workers do not disturb
each other is what the proofs add, for any number. A reconciliation may hold what it
read for as long as it likes, and another may read meanwhile. In `agent_network` two workers
have requests under way at once, so one can fail as a straggler of the other or
be refused while the other probes; two postings share a batch. A threshold and a
cooldown of two tell the first failure from the last and the beginning of a
cooldown from its end; `ProbesSpaced` holds for any.

A call of `AttemptSubmit` concerns one posting and shares nothing with others but
`form_mappings`, whose row may be there or not. Three rounds and one recovery
are the code's own numbers; the theorems hold for any. `clicks` is not capped:
the theorem `ClicksBounded` bounds it.

Two messages and batches of one let a batch end between them, one be deleted
under the other, and one be fetched twice; the four kinds name their
application, name only the employer, cannot be acknowledged, and are no outcome.
One fault may hit any call or be a kill; two generations let the checkpoint be of
an old one. Two agents meet in every order of start, probe, signal and kill, and
`OneAgent` is proved for any number. The discovery run has a board, a feed and two
queries that bring in the same posting, and a cap of one, so that it is reached.
The three questions of `application_knowledge` are two wordings of a declaration, at
two employers, and a routine question that a profile fact answers without asking
(its wording is a declaration's at any employer but this one). The fact
can be configured and taken out again, so a request can look with a profile that is
no longer there. An approval, an edit that takes its reuse away and one that races
it are three decisions, one more than the other kinds may take (`ChangeLimit`). Only the
global scope is in the instance: with a second one it is too large, and the lookups
are by scope before anything else.

`DecisionLimit`, `ChangeLimit`, `MaxMail`, `MaxFaults` and `MaxGenerations` bound what the
environment may do, in the guards. No counter of the code is unbounded: `retries`
stops at `MaxRetryAttempts` by the code itself, which `PipelineTypeCorrect`
proves; `ttl` and `age` are capped by the constants `LeaseDuration` and
`HeartbeatTimeout`, `failures`, `quiet` and the watchdog's count where no
statement distinguishes more. No state constraint is used; `application_knowledge`
has the two requests symmetric, and checks no temporal property.

`agent_supervision` and `outcome_tracker` do not check deadlock: all agents that
are ever launched may have ended, all messages may have come and been handled.

### Fairness

The processes are fair (`WF` of their own steps, never of closing a window or
of being killed), the clock is fair, and in `ApplySessionFlow` so is
auto-advance, because a ticker calls it for ever and each of its steps ends, the
launch by a timeout. Nothing obliges the operator. `SessionStallsOnlyAbandoned`
further assumes that the dashboard is eventually no longer restarted: each restart
abandons the goroutine that is opening the next job. An item that was already
marked when its browser was killed, or its launch cut off, is one nothing but the
operator takes up; the property says that these two are the only ones.

In `AgentNetwork` the daemon is started again when it is down, loads a batch
when it can, time passes, and no worker is stuck for ever: each wait in a node
has a timeout, and graph and loop go on after any error. Discovery is not obliged
to do anything. `DeferralsEnd` further assumes that kills, signals and spent
quotas come to an end, because none of them is counted against a posting; open
circuits need no such assumption, which is its point.

In `SubmitAttempt` the call takes its next step: every wait in it (navigation,
settling, the mailbox, the model) has a timeout. Nothing obliges the server to
answer, the page to render or a code to arrive, and the target may close again
and again: `AttemptEnds` rests on the rounds and the recoveries only.

`OutcomeTracker` is scanned every fifteen minutes for ever. In `AgentSupervision`
each agent goes on, probes end and the start has a deadline; `SettingsSettle`
assumes that the operator stops changing the file and that a daemon keeps
running, `StallIsAlerted` that the queue goes on yielding nothing but one terminal
status; its alert must then stay, so one of an earlier stall does not count. In `Discovery`
some step of the refresh is taken when one can be: which one is open.

Nothing is assumed of how long a page takes to open or a form to fill, or of when
the queue page deletes a row: time passes in every phase of a process.

### The violations

Each states what a comment promises, and `PROJECT.json` "findings" quotes it.

* A half-open breaker refuses everything until its probe is recorded.
  `discoverWithYahooHTML` records a 200, a 429, a 5xx and a failed request; any
  other final status, a request that cannot be made and a cancelled context
  record nothing. The circuit stays half open for as long as the process lives,
  and Yahoo is not asked again. `RefreshEnds` holds all the same: the refusals
  end the inquiries.
* The gate that runs "once the full description has been fetched" is given `job`,
  the copy made when the node began; the description went into `state.Job`.

### Seen while modelling

Traces the models reach that no run states as a property.

Assisted browser and session:

* The lease runs for twenty minutes, and its claim promises "the sole visible assisted
  browser"; another plan "must wait until the active lease expires or is released"
  (assisted.go:139-141). But another claim looks at the heartbeat, of thirty seconds,
  and opening a page (two `Goto` of up to 45 s, cmd/assist main.go:210-216), waiting for
  a direct browser (30 s, :328) and filling a form send none. A second process
  then claims another row; the first, coming back, renews its own, since renewal looks
  at the owner only, and both browsers stay. `AnotherOnlyAfterLapse` is what is left of
  the promise: one of two was silent for that long.
* `GetAssistedQueue`, polled by the dashboard, deletes rows that no longer fit the
  policy, leased ones included: the browser loses its lease with the next poll, and
  until then another may be opened beside it.
* When answers cannot be typed, the fallback records manual review from
  `continue_requested`; the row is at `answers_provided`; the process exits,
  against the comment at cmd/assist main.go:781.
* Stopping a session finishes it, and a browser asks only open sessions whether
  its work is finished (sessions.go:317), so it stays open.
* An item in progress whose process was killed, or whose launch a restart of the
  dashboard cut off, keeps `NextApplySessionJob` from offering anything
  (sessions.go:251), so the ticker, which is there for "an assisted process that
  exits without a clean handoff, a lease that expires, or a dashboard that was
  restarted mid-session" (apply_session_api.go:197-201), cannot move that session on.
  Only the operator can.
* A question answered before and found again keeps the status `answered`
  (questions.go:511): a refill can find questions and leave none to answer.
  Typing a subset of the answers sets the unresolved count to zero.

Funnel and attempt:

* `ReconcileAssistedQueueEligibility` reads the queue into memory and later sets
  SKIPPED by id alone, without a transaction (eligibility_reconcile.go:105-148). A
  posting that was requeued and claimed, or applied to, in between is moved, although
  "already-applied jobs ... are never touched" (:95-97): the exception `selected` in
  `WorkedRowIsClaimed` and `AppliedStays`, which fail without it.
* `HasApplied` answers no on any database error (manager.go:972-980), and the pipeline
  goes on to the click: the exception `unchecked` in `NoResubmission`.
* The agent reads a promotion from `status_reason`, which the first retry, the
  first deferral and every claim overwrite. `processing_intent` survives them,
  is never read by the agent, and refuses the second promotion.
* The click and the rows that record it are separate. After a kill in between
  the reaper returns the posting to the queue, and it is submitted again.
* Marking a card not found also overwrites what the tracker has recorded and
  rows a worker holds, and the next claim then overwrites the write-off; a card
  whose posting was requeued keeps its old status, so the queue shows it and the
  confirmation refuses it; a completed card keeps a later plan from being made.
* `AttemptSubmit` reads the mailbox to learn whether the last submission was
  accepted, and then returns "no outcome" without looking at the code it got. A
  code challenge after the last round ends the loop: the attempt is reported as
  failed, although the comment at browser.go:2184 counts on a next attempt.
* `isSubmissionConfirmed` looks at the URL before it looks at error wording: an error
  shown in place is an unchanged URL, never `reasonErrorPhrase`, and a posting whose
  URL contains "success" (a Customer Success role) is confirmed with no click and no
  move, whatever error the page shows (browser.go:481-484).
* A target that closes after an accepted click starts the first fill again, past
  the re-check of #89: with the failed click that Vision repeats, these are the
  second filings that `missed` stands for.
* `confirmOrError` turns a security-code gate behind a cached, learned or Vision
  mapping into a plain failure. The #99 branch returns a captcha without asking
  the mailbox. Narrowing to flagged fields can hide the code challenge. A cached
  mapping is deleted when its target closes once too often, though the mapping
  was not at fault.

Requests and models:

* A call the service reports as failed is not tried in the process, so the service can
  cost a job the agent could have completed, which the comment at client.go:393-398
  rules out; `DocumentsNotLost` says it is the only way. The first
  document that fails decides, so a quota error behind another one is not seen;
  a quota spent while tailoring leaves FAILED_SUBMIT, while scoring leaves the
  row to the reaper; a failed embedding is tried again, a failed score is final.
* Any HTTP response closes a domain's circuit. A stop makes the requests under
  way count as failed, and the breaker forgets everything with the process.

Supervision and settings:

* Between the flock and the truncation the lock file holds the last PID: a start
  waiting then kills its own child, and Stop signals a dead or recycled PID. The
  shared lock of a status probe can refuse an agent that starts.
* A start through `go run` never sees its child's PID: it answers that it failed
  and leaves the agent running.
* Countries the operator removes stay in the daemon's profile until it restarts,
  and the acknowledgement compares the mode only; what is acknowledged and what is
  applied are two readings; the acknowledgement of the last daemon counts for the
  next. An alert whose publication fails is not tried again, and the published row is
  never cleared.

Discovery:

* A row refused by the cap is recorded as skipped and never admitted later; boards
  beyond the first `maxBoardsPerSource` are never asked; requeue and
  reconciliation put rows back outside the cap.
* A crash or a failed write between `AddToFunnel` and `UpdateFunnelIdentity` loses
  the place of a posting for ever, and a posting whose feed gives its place only as
  codes is screened without them.

Tracker:

* The date of a confirmation is later than the mail it is about, so a scan that
  starts with it may begin above that mail; `Awaited` leaves that case out.
* A message taken up twice after a kill moves nothing twice, but two trackers at
  once may apply one message twice; when the posting it was about is already
  decided, a vague message moves the only one left. A message that is read again
  after its posting moved on is recorded as unmatched, where the test at
  imap_test.go:716 expects nothing to be written.
* A database error in listing the companies acknowledges mail as unmatched.
* `WasEmailProcessed` answers no on a database error (manager.go:932-939), and the
  acknowledgement that conflicts is ignored (imap.go:746-758): an acknowledged message
  that is fetched again may then move a second application, the exception `unchecked`
  in `AcknowledgedMovesOne`.

Vault:

* `UpdateAnswer` reads the grant before its transaction and writes it after
  (store.go:406, 424): an edit that keeps reuse and races one that takes it away
  gives a declaration its reuse back, though "a declaration that has lost its reuse
  grant may be re-granted only through the same two-decision path Save enforces, never
  by an edit" (store.go:409-411). That is `regranted`, the one exception of
  `DeclarationsAreGranted`, which fails without it. `AddAliases` checks outside its
  transaction as well and may bind wordings to an answer that was withdrawn,
  which a later approval revives.
* A request resolves the queue with the profile it read when it was opened
  (knowledge_api.go:41-51). One that began before a profile was saved marks with the
  old facts, also after the look that followed the save, and the marks stay: no browser
  that opens then would fill them. `ReportIsAsRead` therefore speaks of the
  profile the request has read, and fails for the one configured.
* An approval without reuse leaves the aliases of the row; an approval with reuse
  takes a wording over from the row it was bound to. A crash between the save and
  the binding leaves wordings unbound.
* A wording that is a declaration only through an employer's name may be stored as
  routine and typed at another employer; and a routine question approved in the
  group of a declaration may file a routine answer for both.
  `DeclarationsAreGranted` excludes the two.
* An essay question that matches a routine pattern is filled: only a declaration
  escalates a pattern. `ApproveAbsence` grants reuse of a declaration without the
  second box; `DeclarationsAreGranted` speaks of values.
* `auto_fillable` stays after a withdrawal until the next look; two looks at once
  may each write what the other has made stale. Saving the profile reads and
  writes whole files.

## 4. Proofs

Every invariant and every action property the runs check is proved: for each
there is a theorem that states it for all values of the constants. The
inductive invariants were first checked by TLC on the instances of the runs.

### The assisted handoff

`AssistProcessProofs` proves, for any set of jobs and processes and any times
with the heartbeat window shorter than the lease:

| theorem | says |
|---|---|
| `TypeCorrect` | `Spec => []TypeOK` |
| `NoRequestOrphaned` | `Spec => []NoOrphanRequest` |
| `HolderKeepsLease` | `Spec => []HolderLive` |
| `OneProcess` | `Spec => []AnotherOnlyAfterLapse` |
| `RefinesDesk` | `Spec => ImplementsDesk` |

None assumes anything of how long a step takes or when a row is deleted.

`AnotherOnlyAfterLapse` is not inductive. That a second process cannot claim rests
on the first one's row being live, which is `HolderLive`: a running process that has
not lapsed owns its row, and the row's heartbeat is recent. `HolderLive` in turn needs
to know, at a launch, that the new process's token is on no other row, and, at a kill,
that the token leaves every row: `OwnersRun`. It also needs that a lease has run at
least as long as its last heartbeat is old, so that it cannot end before the window.
The inductive invariant is

    IInv == TypeOK /\ HolderLive /\ OwnersRun /\ AnotherOnlyAfterLapse

The proof has one lemma per kind of step: a write to one row, a poll, a move
without a write, the end of a process, a tick, a prune. The refinement maps the
desk to the processes in an open phase, and those unattended to the ones of them that
lapsed; `StepRefines` shows that a launch is `Open`, leaving the open phases is
`Close`, a lapse is `GiveUp`, an outcome is `Decide`, and every other step leaves desk
and outcomes alone. A tick, or a deleted row, may have several lapse at once; that only
one of them is on the desk and still attended to is `AnotherOnlyAfterLapse` again.

`HandoffProofs` proves, for any jobs, processes and questions:

| theorem | says |
|---|---|
| `AnswersKeepProcess` | `AnswerSpec => Spec`, the `Spec` of `AssistProcess` |
| `AnswerTypeCorrect` | `AnswerSpec => []AnswerTypeOK` |
| `OutcomeClearsAnswers` | `AnswerSpec => []OutcomeHoldsNoAnswers` |
| `OnScreenIsAssisted` | `AnswerSpec => []FillOnScreenIsAssisted` |
| `OneProcessAnswers` | `AnswerSpec => []AnotherOnlyAfterLapse` |
| `AnswersHandedOver` | `AnswerSpec => []HandedOverOnce` |
| `SessionsKeepProcess` | `FlowSpec => Spec` |
| `FlowTypeCorrect` | `FlowSpec => []FlowTypeOK` |
| `OneSessionProcess` | `FlowSpec => []AnotherOnlyAfterLapse` |
| `OneItemInProgress` | `FlowSpec => []OneInProgress` |
| `OutcomesTogether` | `FlowSpec => OutcomesCommitTogether` |

Every step of either composition is a step of `AssistProcess` or leaves its
variables alone, so what is proved there holds beside questions and answers and
inside a session. On top of that:

* `HandedOverOnce` needs to know who could queue an answer a second time while a
  process that owns its row holds it: nobody, because the card it came from stays closed
  from the take until the process has typed or dropped the answers (`CardIsClosed`).
  Exclusion is not needed for it: a process that lost its row to another is no longer
  the owner, and answers it still has in memory may be given again to the next one.
* `FillOnScreenIsAssisted` needs that a row somebody owns exists
  (`OwnedRowsExist`): the automatic pipeline, the other writer of the marker,
  does so only while there is no row, so a process that still owns its row has
  not been crossed by it (`RecordingIsMarked`).
* `OneInProgress` needs that between the pick and the write of
  `advanceApplySession` no item gets in progress (`PickedIsAlone`), which is what
  the mutex around it is worth.

### The agent

`AgentProofs` proves of the pipeline, for any set of postings and any `Workers`,
`CycleLimit`, `MaxRetryAttempts`, modes and requeue statuses allowed by
`AgentAssumption` (the statuses `cmd/requeue` accepts):

| theorem | says |
|---|---|
| `PipelineTypeCorrect` | `Spec => []PipelineTypeOK` |
| `RowsOfWorkers` | `Spec => []WorkedRowIsClaimed` |
| `DedupEarned` | `Spec => []DedupIsEarned` |
| `NotResubmitted` | `Spec => NoResubmission` |
| `AppliedIsKept` | `Spec => AppliedStays` |

The type invariant is not inductive: the statement that counts a failure does not
look at the count it starts from. That the count is below the limit follows from
`BudgetLeft` (a spent budget is only seen on rows no worker holds), which needs
`RowClaimed` (who may move a worker's row, reconciliations included), which needs
`DownIsEmpty` (the reaper runs while nobody works). `NoResubmission` needs
`CheckedForDuplicate`: between the check and the click no dedup row is written, so
one that is there at the click was there when the check failed. `DedupIsEarned`
needs `SentFirst`. The invariant is their conjunction over all postings. Most steps
concern one posting: `OneRow` reduces them to its row, `LeaveKeepsInv` and
`AdvanceKeepsInv` to whether the worker goes on, and `OutsideKeepsInv` treats all
writers that are not the agent; the reaper, the batch and requeue touch every
posting and are treated on their own.

And of the network around it, for any postings, workers, threshold, cooldown and
request time allowed by `NetworkAssumption`, and any `Attempts`
(`AttemptsAssumption`: the service is there for an attempt or it is not):

| theorem | says |
|---|---|
| `NetRefinesPipeline` | `NetSpec => RefinesPipeline` |
| `NetRowsOfWorkers`, `NetNotResubmitted`, `NetRecordsKept` | what is proved of the pipeline, carried over |
| `NetTypeCorrect` | `NetSpec => []NetTypeOK` |
| `ProbesSpaced` | `NetSpec => ProbesAreSpaced` |
| `NoDocumentsLost` | `NetSpec => []DocumentsNotLost` |
| `PreflightCoversCalls` | a call's model is remote, or was found by `PreflightModels` |

The refinement needs no invariant: each step of a worker is one of
`AgentPipeline`'s with the breaker beside it, or leaves the funnel alone; a
failure to make documents is the verdict FAILED_SUBMIT of the submission node.
`ProbesAreSpaced` needs that the breaker counts the streak (`StreakIsCounted`:
the circuit is closed exactly while the streak is short of the threshold) and that
what is left of the cooldown has not been quiet yet (`CooldownIsQuiet`).
`NoDocumentsLost` is a fact about the code of a call rather than about steps: a
service that is refused, times out or answers unusably is given up for the rest of the
job, and what comes out is what the agent would have made alone; so where documents are
owed and not made, an attempt before the last word had a call that the service
reported as failed (`UniformAnswers`, `AttemptResult`, `LastIsLast`, `NothingOwed`).

`SubmitAttemptProofs` proves, for any `MaxAttempts`, `MaxTargetRecoveryAttempts`
and `Routes` allowed by `SubmitAssumption`:

| theorem | says |
|---|---|
| `SubmitTypeCorrect` | `Spec => []SubmitTypeOK` |
| `FillsAreRecorded` | `Spec => []MarkedBeforeFill` |
| `GateHolds` | `Spec => []NeverClicksUnasked` |
| `ClicksBounded` | `Spec => []ClicksAreCounted` |
| `FiledOnce` | `Spec => []FiledTwiceOnlyUnseen` |
| `GateFinality` | `Spec => GateIsFinal` |
| `SuccessIsEvident` | `Spec => SuccessHasEvidence` |

One invariant carries them all. `ClickInv` says at which points the click of the
current round or recovery has been spent, so that giving a round back does not
give a click back. `EvidenceInv` ties what the page shows to what was clicked: a
URL other than the baseline means the page moved after a click, which needs
that the baseline is read again on every new page, and that nothing moves a
page between baseline and click. `FilingInv` says what is known of an
acceptance that was not missed: the answer is on its way or on the screen, so
the re-check or the code gate stops the next click. `RoundInv` and `GateInv`
say where the counters and a gated error may be. TLC has checked the whole
invariant on the instance of the run. The proof has a lemma per conjunct and,
in each, a step per action; the moves of the site are treated once.

`AgentSupervisionProofs` proves, for any agents, launched either way, and any
settings with `find_only` among the modes:

| theorem | says |
|---|---|
| `SupervisionTypeCorrect` | `Spec => []SupervisionTypeOK` |
| `OneAgent` | `Spec => []AtMostOneAgent` |
| `StartAnswered` | `Spec => []StartAnswerIsTrue` |

The invariant is that the holder of the flock is the agent past it
(`HolderIsHolding`), and that a PID in the file is of an agent that got as far as
writing it (`PidIsWritten`), which is what makes "started" true.

### Discovery, tracker and vault

| theorem | says | module |
|---|---|---|
| `SourceBounded` | `Spec => []PendingBounded` | `DiscoveryProofs` |
| `TrackerTypeCorrect` | `Spec => []TrackerTypeOK` | `TrackerProofs` |
| `NoMessageSkipped` | `Spec => []NothingSkipped` | `TrackerProofs` |
| `MessageMovesOne` | `Spec => []AcknowledgedMovesOne` | `TrackerProofs` |
| `ReportHolds` | `KnowledgeSpec => []ReportIsAsRead` | `KnowledgeProofs` |
| `DeclarationsGranted` | `KnowledgeSpec => []DeclarationsAreGranted` | `KnowledgeProofs` |
| `WordingsConfirmed` | `KnowledgeSpec => []DeclaredWordingsConfirmed` | `KnowledgeProofs` |

`SourceBounded` holds for any sources, postings, answers, errors, cap and number
of workers, from a table that keeps the bound (`RecordedAssumption`). `QueueInv`
adds that the table is finite and that no more rows are PROCESSING than there
are workers: a posting is added while the count of DISCOVERED rows is below the
cap, and what else a source has in the queue is with a worker, from where a
restart or a deferral may bring it back.

`NoMessageSkipped` holds for any mail, contents, batch size and number of faults
and renumberings. The checkpoint alone says nothing while a batch is under way:
`BatchCovers` says that in the range a batch will move it over, every message
that still matters is in what is left to do. That a deletion, a failed call or a
kill does not break it needs where a scan stands (`BatchInMailbox`), that a
checkpoint of another numbering counts for nothing (`CheckpointInMailbox`), and
that dates run with delivery (`ClockRuns`). `MessageMovesOne` needs that a message
that has moved an application is acknowledged in the same transaction
(`MovedIsProcessed`), so that it can be taken up again only by a check that fails.

`ReportHolds` is for any questions, profiles, scopes and number of requests, browsers
and decisions. While one request looks through the queue undisturbed,
what it has left behind is as it found it (`LookedAtIsCurrent`); another request
that read before it and writes now would break that, so nothing found before may
still be unwritten (`FindingsHold`), and what is marked meanwhile is found with the
same reading of the profile.

`DeclarationsGranted` and `WordingsConfirmed` rest on one invariant, `GrantInv`: every
row under a key of a declaration is stored as one, and has reuse, while it is not
withdrawn, only if it was saved with both boxes and not taken back, if an edit gave it
back that had read it before, or if it is an absence (`RowsGranted`); a wording of a declaration
is bound only to such a row, and confirmed (`AliasesFiled`); a grant confirms its
own wording (`GrantsConfirmed`). It holds across the steps a request takes with
what it read before: the group to save is one group of the inbox (`SavesGroup`),
the wordings to bind belong to the row (`BindsFiled`), and an edit that will write
reuse read it from a row that had it (`EditsAllowed`), which is why the exception of
the property is the only one. It assumes of the questions
that they have their fields and that a prompt is a sequence
(`QuestionsAssumption`), and of the curated lists that the wording of a family that
is no declaration has no declaration's words (`SeedsAssumption`, which TLC evaluates on
the lists themselves).

Looking for this invariant showed that the exception the property makes, a
wording that is a declaration only by an employer's name, was too narrow: an
answer is filed under the wording of its group, and a routine question grouped
with a declaration (by the skill or family they share) files its answer under a wording
that answers both. `Declarations` now names what a question may be filed under
(`FiledAs`), and asks that it be a declaration too. The questions of the run that are
`Declarations` meet neither exception; with others TLC reaches both.

### What stays with TLC

All liveness: `ContinueHandled`, `DeadLeaseExpires`, `OutcomeClosesBrowser`,
`SessionStallsOnlyAbandoned`, `AnswersHandled`, `ProcessingEnds`, `DeferralsEnd`, `AttemptEnds`,
`MailHandled`, `SettingsSettle`, `StallIsAlerted`, `RefreshEnds`, `PostingIsRecorded`.
Fairness and ENABLED are out of the prover's reach. So is what the recursive
parts of the word lists compute: `IsDeclaration` and the families are used in the
proofs as functions of the words (`SameWordsAlike`), and what they say of a
given wording is only evaluated. `FlowTypeOK`, `AnswerTypeOK` and the inductive
invariants held on the instances of their runs; they are kept for the proofs and are not
listed with the runs. The two violations are traces and have no theorem.

## 5. Plan

Done: the assisted handoff with its session and answers, the funnel and the
agent pipeline, the submission attempt; the network in front of the pipeline with
its breaker and models, supervision and settings, discovery and the gate, the
tracker, the vault and the knowledge base; eight modules of proofs, which cover every
safety property of the runs.

Next, in this order:

1. Composition of `AgentPipeline`'s click with `SubmitAttempt`, so that the errors
   that may follow a click are those the attempt returns.
2. More abstract specifications, as `BrowserDesk` is one: an agent that
   may or may not run, a mailbox read in order.

### Not modelled

* The filling of single fields, page scraping and parsing, prompts and HTTP of the
  model clients: I/O whose results are choices of the models' environment.
* Ranking and the queue plan: floating point scores and an ordering no other
  part depends on for correctness.
* Attempts, effort, interactions, form inventory, dogfood records and the
  documents of a handoff: records written in single statements and read by
  reports.
* The security filters: their verdict is a choice of the pipeline's nodes.
* The rejection feedback file, the counts of unmatched outcomes and the
  extraction of a message's body.
* Schema migrations, one-shot maintenance other than requeue and reconcile,
  benchmarks, delegation, log triage, demos, the stateless NLP service and scripts.
