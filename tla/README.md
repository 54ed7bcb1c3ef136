# Afagh: a TLA+ model of the university system's engines

Afagh (`afagh-next`, a Next.js application over PostgreSQL and Redis) runs the
business of a university: registration, student requests, tuition, exams,
graduation, payroll. Its core is a set of *engines* under `afagh-next/src/lib`
called by server actions (`app/**/actions.ts`) and cron routes
(`app/api/cron/**`). The engines keep their state in PostgreSQL, some of it in
Redis, and many actors work on the same rows at once: students, clerks with a
page loaded earlier, jobs of the scheduler, worker ticks, and a server process
that may stop between two statements. This directory models the parts where that
matters, checks them with TLC and proves the main results with TLAPS.

Paths below are relative to `afagh-next/src` unless they start with `docs/` or
`deploy/`.

## 1. Inventory

| Component | State it keeps | Operations | What is hard |
| --- | --- | --- | --- |
| Workflow engine `lib/workflow-engine.ts` | `student_requests` (status, step, issuedAt), `request_step_logs`, `request_parallel_checkpoints`, a PostgreSQL advisory lock | `submitStudentRequest`, `advanceWorkflowStep`, `clearParallelCheckpoint`, `checkAndTriggerSlaTimeouts`; council buttons of `app/admin/actions.ts` | decisions on stale pages, parallel clearance, overlapping SLA jobs, a session lock on a pooled connection |
| Process templates (same file, `BUILTIN_PROCESSES`) | five seeded processes | none | which step types and timeouts meet |
| Workflow outbox `lib/workflow-events.ts`, `lib/workflow-handlers.ts` | `workflow_events`, the handler registry of the process | `fireWorkflowEvent`, `dispatchWorkflowEvents`, `retryPendingWorkflowEvents`, cron route, retry button | work outside a transaction, retries that overlap, restarts, handler loaded or not |
| Equivalence batch `lib/enroll-engine.ts`, tuition `lib/tuition-engine.ts` | `enrollments` of the terms 00EQn, `student_ledger` charges | `applyEquivalenceBatch`, `chargeTermTuition` | partial failure, find-then-insert, re-running |
| Waiting room `lib/waitingRoom.ts` | Redis: queue (ZSET), seat counts (hash), waitlist counters | `enqueue`, `warmupCapacities`, seat script, `releaseSeat`, `takeSeat` | a counter duplicated in two stores, cold start |
| Enrollment worker `lib/enroll-engine.ts` | `enrollments`, `course_offerings.enrolledCount` | `processQueuedSubmit`, ticked every 250 ms | overlapping ticks, no transaction |
| Drop and promotion `app/student/actions.ts` | same rows and counters | `dropCourseAction` | a drop beside a tick or another drop |
| Finance desk `app/admin/finance/actions.ts`, `lib/finance-engine.ts`, `lib/audit-chain.ts` | discounts, sponsorships, cheques, loans, ledger, `audit_logs` | add, decide, delete, `clearCheque`, `appendAudit`, reminder scan | status read without a lock, two clerks on one cheque, a scan cut off |
| Account and fee rules `lib/finance-rules.ts`, `lib/finance-engine.ts` | the same rows, read | worklist, statement, reliefs, formulas, unit buckets, charge by formula | two computations of one balance, caps, rounding, ties |
| Graduation `lib/graduation-engine.ts` | dossier, checklist of departments, degrees, student status | scan, open, clear, advance, hold, fee, issue | unlocked read-then-write of the dossier state, slow automatic clearance |
| Exam custody `lib/exam-engine.ts`, grade sheet `app/professor/grades/actions.ts` | attendance, minutes, vault totals, deliveries, grades, hashes, appeals | eight stages; save, finalise, resolve | counts read before an advisory lock; two modules writing the same grades |
| Contracts `lib/contract-engine.ts`, `app/professor/documents/actions.ts` | contracts, documents, one-time codes, signatures | ensure, issue code, sign | no transactions, oldest or newest code, attempts |
| Payroll `lib/payroll-engine.ts` | `payroll_statements`, payments | compute, midterm, settle | recompute beside payment, gates over others' rows |
| Scheduling, admissions, open courses | plan phases and room shifts; staged students; capacities | advance, assign, import, enrol | read-then-write counters |
| Regulations, curriculum, exam planning | none, or written once | evaluation, seating | large pure evaluations |
| Migration, sessions, settings, messaging, files, reports, pages | configuration or nothing | I/O | left out (section 7) |

How they meet. `advanceWorkflowStep` writes the event row in its own transaction
and dispatches it after the commit; the handler calls the equivalence batch,
which writes registrations and asks the tuition engine for a charge. The worker
takes seats in Redis and writes rows in PostgreSQL; the drop does the reverse and
promotes a waiter. Graduation keeps a checklist of its own, beside the workflow's
checkout process, and reads the ledger. The grade sheet and the exam engine write
the same enrollments; payroll reads final grades and signed documents before it
settles. The scheduler (`deploy/scheduler.sh`) calls four cron routes for ever:
cheque reminders, graduation scan, report refresh, and the retry of workflow
events. It does *not* call the SLA job: that one runs from a button.

What makes each component correct, in a sentence:

- Workflow engine: a request goes through its steps one at a time, ends once, and
  nothing touches it afterwards; the log says which step is waiting.
- Outbox: what is PROCESSED has really happened; nothing is left without outcome.
- Tuition charge: a term is charged once, for everything in it.
- Enrollment: never more students than seats; both counters agree with the rows; the
  waitlist is a line and is served first. All four do break when sessions overlap;
  what is asked is that nothing but a few named steps breaks them, and by how much.
- Finance desk: a cheque enters the ledger once; every decision was allowed from the
  status it really met; the audit trail tells what happened, deletions that overran a
  decision included; a pending cheque's student is reminded.
- Account: both reports show one balance, but for terms charged in both types; no
  relief beyond the charge; a formula and a unit count that do not depend on row order.
- Graduation: no degree without its gates; the status is the one the facts ask for.
- Exam custody: halls counted once, papers handed over once and only by way of the
  vault; one open appeal; the stored hash tells the final grades, but for those written
  past it.
- Contract and payroll: an advance and a settlement once each, together the net, and
  a settlement only with every document signed.

The hazards, each at its line, are listed in `PROJECT.json`.

## 2. Modules

| Module | Models | Code it stands for |
| --- | --- | --- |
| `WorkflowTemplates` | the five processes, by what the engine branches on | `BUILTIN_PROCESSES` |
| `Workflow` | requests, logs, checkpoints, staff pages, council buttons, SLA job and its lock | `workflow-engine.ts`, `admin/actions.ts` |
| `RequestLifecycle` | the abstract promise: open, next stage, certify, end | what `Workflow` refines |
| `WorkflowEvents` | outbox, retry, transfer handler, equivalence batch, tuition charge, restarts | `workflow-events.ts`, `workflow-handlers.ts`, `enroll-engine.ts`, `tuition-engine.ts` |
| `Enrollment` | queue, seats, worker ticks, drop and promotion, warmup, failures | `waitingRoom.ts`, `enroll-engine.ts`, `student/actions.ts` |
| `EnrollmentRaces` | `Enrollment` with a history of the steps that can break its promises | the same steps |
| `FinanceDesk` | the desk's transactions statement by statement, audit rows, reminder scan | `admin/finance/actions.ts`, `finance-engine.ts`, `audit-chain.ts` |
| `StudentAccount` | reliefs, formulas, buckets, both balances, over rows that change | `finance-rules.ts`, `finance-engine.ts` |
| `Graduation` | one dossier from the scan to the degree | `graduation-engine.ts`, both `graduation/actions.ts` |
| `ExamCustody` | attendance, minutes, vault, handover, delivery | `exam-engine.ts`, stages 1 to 5 |
| `ExamGrades` | EXTENDS `ExamCustody`: stages 6 to 8 composed with the grade sheet | `exam-engine.ts`, `professor/grades/actions.ts` |
| `TeachingTerm` | contract, codes, signatures, payments | `contract-engine.ts`, `professor/documents/actions.ts`, `payroll-engine.ts` |
| `WorkflowEventsClaims`, `StudentAccountClaims`, `ExamClaims`, `TeachingClaims` | statements of comments and messages that the code does not keep | quoted at each property |
| `MC...` | instances for TLC | |
| `WorkflowProofs`, `EventsProofs`, `EnrollmentProofs`, `FinanceDeskProofs`, `AccountProofs`, `GraduationProofs`, `ExamProofs`, `TeachingProofs` | theorems of each model and their proofs | |

One convention throughout: what the code does in one transaction *under a lock it
takes first* is one action; what it does statement by statement, or reads before its
transaction, is one action per statement, and the values read travel in the record
of the call (`job`, `drop`, `clerk`, `call`). `overlap` is a constant of a behaviour,
chosen at its start: calls one at a time, or any number of them at once. Some
promises hold only of calls one at a time, and say so.

### Workflow

One variable per column: `status`, `step` (the stepOrder of currentStepId),
`issued`, `logs` (rows in id order: step, action, completedAt null or not, and
whether slaHours have passed), `cleared`, and `row`, the outbox row. Each
transaction of the engine locks the request's row first (`select ... for
update`), so it is one action. What the code does not make atomic is not atomic:

- The page. An expert loads it (`View` keeps step and checkpoints shown) and
  decides later (`Decide`, `ClearCheckpoint`); the server action gets only the
  request's id.
- The SLA job. `pg_try_advisory_lock`, the query, each entry's transaction and
  `pg_advisory_unlock` are separate actions, and the lock statements each choose a
  connection of the pool: the lock is a session's, re-entrant, and lost when the
  session closes (`CloseLockConnection`, `ServerCrash`).

`Advance` has one disjunct per way `advanceWorkflowStep` ends: already final,
reject, return, escalate (with its special case of a pending escalation), move,
final approval. Whether the student qualifies for a self-issued certificate is the
environment's choice. Fees, notifications and tracking codes are left out.

### WorkflowEvents

Everything after the commit of the final approval runs statement by statement in
jobs (`job`): read the PENDING rows, look up and write each course, then for each
equivalence term compute, look up and write the charge, then write the outcome.
`Chunk` is the code's split of the courses into terms of at most `TermUnits`.
`Retry` reads FAILED and SKIPPED rows and resets them one by one. `registered`
says that this process has loaded the engine; `shared` is whether the build gives
the cron route the pages' module instances, which the code does not settle, so it
is a choice of the initial state. `Items` holds the courses that pass the handler's
own filter; the fee of a term with courses is taken as non-zero.

### Enrollment

`queue`, `warm`, `seats`, `wl` are in Redis; `status`, `place`, `count` are in
PostgreSQL. The worker (`job`) and the drop (`drop`) take one statement per action;
the seat script is atomic, `releaseSeat` and `takeSeat` are two commands each. The
cart and the validation filters are the environment's choice in `ReadCart`, which
stands for all the reads before the first seat. `FindFull` puts the student in line, or
refuses where there is no waitlist. `TicketFails`, `DropFails` and `Crash` end sessions
anywhere. Nothing keeps ticks, drops, warmups and failures apart: `dropCourseAction`
checks no window and takes no lock, and the warmup is a button. Left out: an outage of
Redis with its SQL fallback, the council's referrals, a change of capacity, the ticket's
progress display.

`EnrollmentRaces` takes each step of `Enrollment` together with a note in history
variables that no step reads: `excess` and `drift` count, for each class, the steps
that can overbook it and those that can put its counters at odds (a write of the seats
that is not based on the seats it replaces, a seat taken or a waiter promoted while the
seat is handed over, a row written or dropped twice, a session cut off in between);
`open` counts the seats left to newcomers while somebody waits, and `late` has the
ticks that hold a place drawn before a shift, and the rows written with one. A note
depends on the step and the state it is taken in, never on whether a promise has been
broken, so the properties say of every behaviour that *nothing else* breaks one, and by
how much these steps do.

### FinanceDesk

The rows of one student in four tables are `Record`, each with its `status`. A
clerk's button is a READ COMMITTED transaction: `Read` (no lock; `LockCheque` is the
one SELECT ... FOR UPDATE, of `clearCheque`), `UpdateRow` or `DeleteRow`, which waits
for the row's `holder`, `SelectLast` (the newest audit row) and `Commit` (the audit
insert and the commit). `RollBack` ends a transaction anywhere. An update names the
id and the status read (`admin/finance/actions.ts:135`, `:261`, `:405`, `:543`) and gives
up when the row has another; a delete names the id only, so it takes whatever the row
has become with it. `MayDecide` and `MayDelete` hold each table's checks. The scan
selects the pending cheques whose `remindedAt` is not set, then for each sends a message
and marks the row in two steps; it may fail at either, or die.

### StudentAccount

The rows change by whole transactions here. `WorklistBalance` is computed as
`listFinanceStudents` does it, from sums grouped in SQL by term and charge type;
`StatementBalance` as `getStudentFinance` and `buildTranscript` do, row by row within
a term. `TermAdjustment` is the relief of a term: discounts up to the charges, then
sponsorships up to what is left, each row to what the earlier ones left (`Apply`).
`ById` is the order the statement reads reliefs in; the worklist reads them in any.
`Better` is the order of formulas, `BucketCourseUnits` the split of a course's units
with what the columns leave over, `ToRial` the rounding of `finance-rules.ts` to the
nearest Rial. `0` stands for null. What the code accumulates over a list is a
recursive function of the position, and what SQL sums over rows is a sum over a set.

### Graduation

`audit` is the dossier's row, `rows` the checklist, `past` a history of what was once
settled. Every button changes one fact and then calls `advanceDossier`, which is
`AdvanceRead` (the row), `AdvanceDecide` (the checklist, and the cascade `Due`) and
`AdvanceWrite`. `startClearance` inserts department after department, the automatic
clearance writes what an outside service answered some time ago, the stamp fee is a
ledger row and then a flag. Only `IssueDegree` is a transaction.

### ExamCustody and ExamGrades

`minutes[h]` is a hall's sheet (signed, present, received), `collected[c]` the totals
of a course in the vault, `packets` and `deliveries` what follows. Each stage reads
something outside its transaction (`CountHall`, `CountSheets` and so on keep the
count) and then acts under an advisory lock and a row lock. `vaultReceiveHall` and
`openExamAppeal` are two actions each under their lock (`holder`, `filing`), so that
what the lock excludes can be seen. `full` is the comparison with `totalHallsCount`,
which is 1. `ExamGrades` adds `grade`, `hash` (the rows it was computed from) and
`appeals`; the engine writes them in transactions, the sheet's page statement by
statement, and both are steps of one `Next`. The page hashes each grade with the status
it has *before* it becomes FINALIZED (`Sheet`), the engine the grades alone (`Totals`).
`OldGrade` is what an exam appeal compares with: its own old grade, the row's, or 0.
The history `late` has the students whose grade was written past the hash: by an exam
appeal, or while some call is making their sheet final.

### TeachingTerm

`docs` are the professor's documents with their signed flag, `codes` the one-time
codes of both kinds. The page picks the *oldest unused* code of the document, the
inbox the *newest* (`Picked`). The page marks the code, sets the document and counts
the signature in three steps; the inbox does it in one transaction. A payment locks
the statements, reads one, passes the gates (`CheckGrades`, `CheckPapers`, or
`RefuseSettlement`) and commits (`Pay`); `computeTermPayroll` reads before and writes
after, by id. `payments` is a history variable: row, kind, amount, the net it was
computed from, and how many documents the gate saw.

## 3. Runs

| Run | Question | Result |
| --- | --- | --- |
| `workflow` | a transfer, a checkout, or a certificate and a drop, under stale pages, departments, council buttons and overlapping SLA jobs | 298,496 states, holds |
| `events` | jobs over one student's forms, overlapping or one at a time, errors, a restart; safety and liveness | 244,475 states, safety and liveness hold |
| `enrollment` | three students and a class of one seat with a waitlist; ticks, drops, warmups and a failure, all overlapping | 1,152,556 states, holds |
| `finance_desk` | two clerks and the reminder scan on one student's rows, a failure; safety and liveness | 112,354 states, safety and liveness hold |
| `student_account` | accounts of up to four rows in every order | 87,387 states, holds |
| `graduation` | one dossier, calls one at a time from the start, overlapping with a crash from each stage | 1,682,516 states, holds |
| `exam` | two courses in two halls, from attendance to appeals, with the grade sheet | 373,859 states, holds |
| `teaching_term` | contract, codes, signatures and payments, with a crash | 382,110 states, holds |
| `claim_pending_retried` | is a PENDING event run again in the end? | violated |
| `claim_cheque_counted_once` | does clearing a cheque lower the balance by its amount? | violated |
| `claim_collected_from_every_hall` | is a collected course collected from all its halls? | violated |
| `claim_new_code` | is a new one-time code looked at? | violated |

What the properties say:

- `Workflow`: `OneOpenLog` (at most one open log row, the last one and of the current
  step), `IssuedWentThroughEveryStep`, `EventOnlyForIssued`, `TerminalIsFinal` (an
  action property), `LifecycleSpec` (refinement of `RequestLifecycle`).
- `WorkflowEvents`: `ProcessedIsInTranscript`, `SerialOneChargePerTerm`,
  `SerialChargeCoversTerm`, `EventuallyAnOutcome`, `EventuallyProcessed`.
- `Enrollment`: `NoOverbooking` and `CountersAgree` (but for what `excess` and `drift`
  count), `WaitersInLine` (two waiters share a place only if one drew it before a shift
  and wrote it after), `SeatsKeptForWaiters` (while somebody waits, the class is full but
  for seats being handed over and those `open` counts).
- `FinanceDesk`: `ChequePaidOnce`, `AuditTellsStatus` (the newest audit row about a
  row names its status), `TrailIsLegal` (the trail of a row begins with its insert, every
  decision starts where the entry before ended and was allowed from there, a deletion
  was allowed from some status the row once had), `EventuallyReminded`.
- `StudentAccount`: `ReportsDifferByRelief` (the two balances differ by the reliefs that
  terms charged in both types get twice, and by nothing else), `ReliefIsCapped` and
  `EveryUnitIsCharged` (against
  reference definitions), `FormulaIsDetermined`.
- `Graduation`: `DegreeNeedsGates`, `StatusIsDue`, `GraduateHasDegree`,
  `HeldDossierWaits`.
- Exam: `VaultCountsOnce`, `DeliveredOnceThroughVault`, `OneOpenAppeal`,
  `HashTellsGrades` (a final sheet's hash has every grade but the `late` ones; calls may
  overlap and stop).
- `TeachingTerm`: `PaidOnce`, `SettledWithSignedPapers`.

### Bounds, and why they are enough

- `workflow`: `MaxLogs = 4` log rows per request (`MaxTransferLogs = 3` for the
  transfer): the processes have two steps, so every step can be escalated once besides
  its own row. Two experts are enough for one to hold a page the other made stale; two
  departments the least that can clear in different orders; two SLA jobs and two
  connections show the lock re-entered, refused, and unlocked from the wrong session
  (`MaxLock = 2`). `OneGroup` keeps a behaviour to the requests and actors of one of
  three groups; requests share nothing but the lock. THESIS_DEFENSE, of three steps,
  adds no branch, and the theorems are for any length.
- `events`: form 1 has three courses and `TermUnits = 2`, so it fills one term and
  starts the second; form 2 shares a term with it; form 3 is the one-course form.
  Three courses of one unit stand for the code's limit of 20. A behaviour is of one
  mode: two jobs at once on two forms, or one at a time on three with a second error.
- `enrollment`: three students and one class of one seat with a waitlist: the third is
  where a line of two forms. Two ticks, two drops and the forced warmup overlap in any
  way, and one session or the server may fail at any statement. `MaxRequests = 5`
  tickets, drops and warmups together: three students register and wait, one drops and
  another request meets it. Without the notes (|registered| at most the capacity, both
  counters equal to it, places distinct, seats full while somebody waits) each of the
  four properties is violated within these bounds, so the cases do happen. A class
  without waitlist and carts of several classes are in the model and covered by the
  theorems; in TLC a second class multiplies the states and shares nothing but the job.
- `finance_desk`: at most one live row, of any table, or a cheque and a discount
  (`FewRows`): rows of different tables share only the audit trail. Four audit rows
  hold an addition and three decisions, and two clerks are enough for one to decide on
  what the other has changed, and for a delete to overrun a decision. One fault is a
  failed transaction, a failed message or a dead scan.
- `student_account`: three ledger rows, two reliefs of a kind, four rows in all: a
  term with two charges, two reliefs that together pass the charge and one row
  besides. Orders of the formulas matter to the charge by formula only (`Plain`).
- `graduation`: seven calls take a dossier from the scan to the degree with a detour;
  three calls that overlap start from each stage (`QuietFile`) and one may be cut off.
- `exam`: a course in both halls and one in one, three students, four calls from each
  of the points the procedure reaches (`Midway`), three when they overlap.
- `teaching_term`: two wrong codes lock (five in the code: the race is the same), two
  contracts, two codes, six calls or four that overlap; three net amounts, so that a
  recomputation can fall below the advance.

Symmetry is used only in runs with invariants and action properties: experts and
departments, students and ticks, the calls under way; no model tells two of them
apart. `CHECK_DEADLOCK FALSE` is said where the system may stop: everything is
decided and no job runs, or a bound is used up.

### Fairness

`WorkflowEvents`: a job that runs goes on, since the `await`s of one function follow
each other unless the process stops; every step of a job is weakly fair, one condition
per job. The cron route is called for ever by `deploy/scheduler.sh` (the loop at lines
84-108), so `CronRetry` is weakly fair too, for some job. The liveness properties say
"unless the server restarts": a restart can leave a row PENDING, which no retry
selects; that is `claim_pending_retried`.

`FinanceDesk`: the same loop calls the reminder scan for ever (`ScanPending`), a scan
goes on to its next cheque (`SendReminder`, `MarkReminded`), and a transaction that
has begun goes on (`Write`), so a row is not held for ever. Nothing is assumed of
clerks.

Nothing is assumed of staff, of the retry button, of the loading of the engine, or
of the SLA job, which no scheduler calls: no liveness is claimed for it. Graduation,
exam and teaching are moved by people alone and state no fairness.

## 4. What disagrees with the repository's own words

Four runs show a sentence of the repository refuted; `findings` in `PROJECT.json`
quotes it with the trace.

1. A restart between commit and outcome leaves an event PENDING
   (`lib/workflow-events.ts:251`).
2. Clearing a cheque writes a payment into the ledger, and the balance subtracts the
   cleared cheque besides (`lib/finance-engine.ts:243`).
3. No code of the application writes `totalHallsCount` (a load test,
   `afagh-next/scripts/exam-load-seed.mjs:190`, does), so a course in two halls is fully
   collected after the first (`lib/exam-engine.ts:417`).
4. An expired one-time code is the oldest unused one for ever, and a new one is never
   looked at (`lib/contract-engine.ts:229`).

Others were found with the same models and are described here only, to keep the suite
small:

- Two experts with the same page approve one after the other, and the second completes
  a step neither saw (`lib/workflow-engine.ts:32-34`, `docs/WORKFLOW.md:40-41`). The row
  lock orders the decisions; it does not compare the step with the one on the page.
- Two SLA jobs hold the advisory lock on one pooled connection, and the second moves a
  step that has just been opened (`docs/WORKFLOW.md:46-47`).
- The council's button approves a transfer past the engine: no event, so no grade
  (`docs/USER_MANUAL.md:78`).
- `app/student/actions.ts:3-5` says that the capacity "does not go back to 29" when
  somebody drops, and that the first of the waitlist is REGISTERED at once. It does go
  back: a tick takes the seat a drop has released before the waiter is promoted; then
  the waiter is promoted too, and the class has a student too many.
- Two waiters get one place: tick A draws number 2, tick B draws 3 and writes its row, a
  drop promotes the first and shifts B to 2, then A writes 2
  (`app/student/actions.ts:46-48`, `lib/enroll-engine.ts:298-321`).
- A delete takes a decision with it: it is checked against a row read without a lock, and
  the DELETE re-checks nothing, so a discount approved, a coverage confirmed or a cheque
  cleared in between is deleted (`app/admin/finance/actions.ts:168-171`, `:293-296`,
  `:436-438`, `:574-576`), against the comments at `:166` (an approved discount is never
  deletable) and `:292` and the messages at `:436` (a cleared cheque is not deleted) and
  `:574`. `TrailIsLegal` says that deletions, and only they, do this; clearing and
  deleting leave a payment in the ledger without its cheque.
- The worklist and the statement show different balances for a term with charges of
  both types: with CHARGE 45, TUITION_CHARGE 45 and a fixed discount of 60, the statement
  takes off 60, the worklist 45 twice. The comments say that the numbers cannot diverge
  (`lib/finance-engine.ts:112-114`) and that the shared function guarantees it
  structurally (`:386-388`, `lib/finance-rules.ts:138-140`).
  `ReportsDifferByRelief` says that this is the only cause, and the amount.
- The hash stored for a final sheet cannot be recomputed from its rows: the page hashes
  the statuses before it sets them to FINALIZED, so the first hash of a sheet is never
  that of the final rows; and an accepted exam appeal, or a grade written between the
  reading and FINALIZED, leaves it with other grades. `professor/grades/actions.ts:241`
  and `:277` call it a real chain hash of the stored grades against tampering,
  `lib/exam-engine.ts:561` a hash of the grades for verification. What it still tells is
  `HashTellsGrades`.
- Two transactions read the same newest audit row, so the hash chain forks
  (`lib/audit-chain.ts:4-6`); `AuditTellsStatus` says what the trail still tells.
- A reminder is sent twice after a failure between message and mark
  (`lib/finance-engine.ts:638`).
- The gates of `settleFinal` read at READ COMMITTED: a document created or a grade
  reopened between gate and commit is not seen (`lib/payroll-engine.ts:808`).
- The automatic clearance sums ledger rows of type DEBIT and CREDIT, which the finance
  engine does not write (`docs/GRADUATION.md:99`).

Behaviours of the models that no text promises otherwise:

- Workflow: escalating a step whose escalation is pending closes its log row and opens
  none, so the request drops out of the SLA query. Two overlapping jobs can write two
  charges for one term. After a restart, a retry by the cron route alone ends in SKIPPED
  until something loads the engine.
- Finance: the charge by formula is repeated at every click.
- Graduation: overlapping calls can overwrite ON_HOLD or ISSUED with an earlier state,
  take a half-written checklist for complete, overwrite a waiver with an automatic
  result, pay the stamp fee twice, and return a graduate's status to pending by a second
  dossier; a rejected thesis recomputes nothing.
- Exam: attendance can change after the minutes are signed; saving a grade turns a
  final one into a draft; the grade sheet's answer to an appeal takes no lock.
- Contract and payroll: two page loads make two contracts and documents, a crash leaves
  a contract without one; a stale count of attempts clears a lock; the net may change
  after the settlement; two computations at once make two statements.

## 5. What is proved

For every value of the constants: any sets of requests, experts, departments, clerks,
halls, students, offerings, ticks and overlapping calls, processes and forms of any
length, any tables of reliefs and formulas, every bound. Every invariant and every
action property that a passing run checks is stated by one of these theorems.

| Theorem | States |
| --- | --- |
| `WorkflowProofs` `TypeCorrect` | `Spec => []TypeOK` |
| `WorkflowProofs` `OneOpenLogHolds` | `Spec => []OneOpenLog` |
| `WorkflowProofs` `EventOnlyForIssuedHolds` | `Spec => []EventOnlyForIssued` |
| `WorkflowProofs` `IssuedWentThroughEveryStepHolds` | `Spec => []IssuedWentThroughEveryStep` |
| `WorkflowProofs` `TerminalIsFinalHolds` | `Spec => TerminalIsFinal` |
| `WorkflowProofs` `ImplementsLifecycle` | `Spec => LifecycleSpec` |
| `FinanceDeskProofs` `TypeCorrect` | `Spec => []TypeOK` |
| `FinanceDeskProofs` `ChequePaidOnceHolds` | `Spec => []ChequePaidOnce` |
| `FinanceDeskProofs` `AuditTellsStatusHolds` | `Spec => []AuditTellsStatus` |
| `FinanceDeskProofs` `TrailIsLegalHolds` | `Spec => []TrailIsLegal` |
| `EventsProofs` `EventsTypeOK` | `Spec => []TypeOK` |
| `EventsProofs` `ProcessedInTranscript` | `Spec => []ProcessedIsInTranscript` |
| `EventsProofs` `SerialNeverTwice` | `ModesSpec => []SerialOneChargePerTerm` |
| `EventsProofs` `SerialChargesCover` | `ModesSpec => []SerialChargeCoversTerm` |
| `EnrollmentProofs` `HistoryOnlyWatches` | `HistorySpec => Spec` |
| `EnrollmentProofs` `EnrollmentTypeOK` | `HistorySpec => []HistoryTypeOK` |
| `EnrollmentProofs` `ClassesNotOverbooked` | `HistorySpec => []NoOverbooking` |
| `EnrollmentProofs` `CountersAgreeHolds` | `HistorySpec => []CountersAgree` |
| `EnrollmentProofs` `WaitersInLineHolds` | `HistorySpec => []WaitersInLine` |
| `EnrollmentProofs` `SeatsKeptForWaitersHolds` | `HistorySpec => []SeatsKeptForWaiters` |
| `AccountProofs` `AccountTypeOK` | `Spec => []TypeOK` |
| `AccountProofs` `FormulaIsDeterminedHolds` | `Spec => []FormulaIsDetermined` |
| `AccountProofs` `EveryUnitIsChargedHolds` | `Spec => []EveryUnitIsCharged` |
| `AccountProofs` `ReliefIsCappedHolds` | `Spec => []ReliefIsCapped` |
| `AccountProofs` `ReportsDifferByReliefHolds` | `Spec => []ReportsDifferByRelief` |
| `GraduationProofs` `GraduationTypeOK` | `Spec => []TypeOK` |
| `GraduationProofs` `DegreesNeedGates` | `Spec => []DegreeNeedsGates` |
| `GraduationProofs` `StatusesAreDue` | `Spec => []StatusIsDue` |
| `GraduationProofs` `GraduatesHaveDegrees` | `Spec => []GraduateHasDegree` |
| `GraduationProofs` `HeldDossiersWait` | `Spec => HeldDossierWaits` |
| `ExamProofs` `TypeCorrect` | `Spec => []TypeOK` |
| `ExamProofs` `VaultCountsOnceHolds` | `Spec => []VaultCountsOnce` |
| `ExamProofs` `DeliveredOnceThroughVaultHolds` | `Spec => []DeliveredOnceThroughVault` |
| `ExamProofs` `OneOpenAppealHolds` | `Spec => []OneOpenAppeal` |
| `ExamProofs` `HashTellsGradesHolds` | `Spec => []HashTellsGrades` |
| `TeachingProofs` `TypeCorrect` | `Spec => []TypeOK` |
| `TeachingProofs` `PaidOnceHolds` | `Spec => []PaidOnce` |
| `TeachingProofs` `SettledWithSignedPapersHolds` | `Spec => []SettledWithSignedPapers` |

`ModesSpec` (`MCWorkflowEvents`) is `Spec` of behaviours that choose at their start
whether jobs overlap; the last two theorems of `EventsProofs` are about those with one
job at a time, for any number of errors and restarts. `HistorySpec` is the
`Spec` of `Enrollment`, with every overlap and failure, and the history that no step
reads. The other theorems are of the plain `Spec`.

The assumptions are those the modules state of their constants: templates are
non-empty sequences of steps and each request has a process (`WorkflowAssumption`);
a form has a student and at least one course, and forms are finitely many
(`EventsAssumption`); students and ticks are finitely many and a class has a capacity
(`EnrollmentAssumption`); each row has a table (`FinanceAssumption`); the account's
tables are sets of typed rows with ids as keys, finite where the code sums over them
(`AccountAssumption`); a department has a kind of automatic clearance and the settings
are Booleans (`GraduationAssumption`); seats map students to halls and courses, halls
and students are finite (`ExamAssumption`, `GradesAssumption`); net amounts are natural
numbers and the percentage is one (`TeachingAssumption`); the "no value" constants are
not members, and bounds are natural numbers.

**Workflow.** The invariants are not inductive by themselves:
`IssuedWentThroughEveryStep` does not say how far a request that is not issued has
come, and `OneOpenLog` compares a row with the current step, which must be a step of
the process for the move to keep it. The inductive invariant is

    IInv == TypeOK /\ LockInv /\ OneOpenLog /\ EventOnlyForIssued /\ StepInv

where `StepInv` says that the step is a step of the process, every step up to it has
a log row, a certificate means APPROVED and, unless self-issued, the last step; and
`LockInv` that a session holding the advisory lock holds it at least once, so the
count stays a natural number at unlock. All actors change a request through
`Advance`, `Create` or a status column update, so the proof shows for each of these
that the one request's new record is well formed (`RequestOK`) and `OneRequestStep`
lifts that to all requests. Rows of the log are handled by lemmas about sequences
(`CloseNewestType`, `CloseNewestClosesAll`, `AppendRow`). The refinement maps every
step to one lifecycle action of one request or a stutter (`NextRefines`), and uses
`IInv` for the step in range and for events exactly with certificates.

**Outbox and charges.**

    IInv == DataOK /\ ProcessedIsInTranscript /\ \A j \in Job : JobOK(j)

`JobOK` says what a job has written by where it is in the handler: before course n of
the form is looked up, the courses before n are in the transcript, and once charging
begins all of them are. Registrations are only ever added, so nothing another job, a restart or
a retry does takes that back; the write of the outcome then meets the invariant.

The charges hold with one job at a time only:

    SInv == mode = "serial" => Alone /\ (\A j \in Job : SerialJobOK(j))
                               /\ OneChargePerTerm /\ ChargesFollow

`SerialJobOK` says that what a job has computed and what it has looked for are still so
when it writes, `ChargesFollow` that every term of a form either is charged for all it
holds, or its charge ended in an error, or somebody still `Owes` it: a form not yet
processed, or the job now charging it. That the terms of a form (`Chunk`) hold all its
courses is an induction on the form's items, made from the least number that would not
do.

**Enrollment.** The counters are kept in two stores, one statement at a time, so none
of the properties is inductive, and the invariant has to say for every moment of every
session which seats and rows it stands for:

    Ordered == TypedState /\ Cold /\ \A o \in Offering : Balanced(o) /\ Kept(o)

`Balanced` compares, for each class, two pairs of books. Those who have a seat are the
registered students, the ticks that hold a seat for a row they are to write, and the
drops that have not released theirs; the seats taken are the count in Redis and the
drops that are to take a promoted student's seat again. `excess` and `drift` bound by
how much the two may differ. In the same way `enrolledCount` with the sessions that are
to raise it equals the registered students with those a drop has still to take off, but
for `drift`. Each step moves one session or one row from one sum to another, or is
noted, so each case is a fact about cardinalities of sets that gain or lose one
element. `NoOverbooking` follows from the first pair, `CountersAgree` since all sums over
sessions are empty at rest. `Kept` says the same of the free seats while somebody waits
or has found the class full, and is stronger than `SeatsKeptForWaiters` by the second.
`Cold` says that before the seats are first filled nobody is registered and no drop
runs, so the early returns of `releaseSeat` and `takeSeat` are never taken with a row
at stake.

The waiting line is met apart, by `Lines`: no place in the line and no number a tick
has drawn and not yet written is beyond the counter, and of two equal ones, of rows or
ticks, one is `late`. The shift moves all rows of a class together, so rows stay distinct among
themselves; the numbers drawn are not shifted, and `NoteShift` marks exactly those.

**Finance desk.**

    IInv == TypeOK /\ TxInv /\ ClearedAreCheques /\ ChequePaidOnce /\ AuditTellsStatus

A decision is checked against a status that may be old by the time it is written, so
`ChequePaidOnce` needs to know why it still holds. `TxInv` says it: what a transaction
is to write was allowed from the status it read, and a transaction that has written its
row, or locked the cheque it is to clear, holds the row, whose committed status is then
still the one it read. The step that matters is `UpdateRow`, which meets the row's
present status; the commit then publishes what `TxInv` describes.

The trail needs one invariant more,

    TrailInv == EntryInv /\ EntriesEndSomewhere /\ TrailIsLegal

where `EntryInv` says what the entry of a transaction in flight is going to be: an
insert has its table's first status, and a deletion was allowed from a status that the
trail already tells. With `AuditTellsStatus` (the newest entry about a row ends with its
status) and the lock of a transaction that has written, the entry that a decision
commits starts where the one before it ended. Of a deletion only the status it read is
known, and that is all `TrailIsLegal` asks of it.

**Account.** Only the types and "the formulas are a list of all formulas" are
invariants of steps (`IInv == TypeOK /\ AllFormulas`); the content is in the operators,
and each theorem is an induction over data. The library's induction rules cannot be
instantiated, so `FiniteInduction` and `AllNaturals` state induction over *sets of
sets* and *sets of numbers* (whatever contains the empty set, and each of its members
with one element more, contains the whole), and a property is put in as the set of
those that have it. On these rest: a sum over a finite set exists, is the only solution
of its equations, and so does not depend on the order in which its definition chooses
the elements (`SumsExist`, `SumsUnique`, `SumUnfold`); it can be split and regrouped
(`SumParts`); the rows applied one after the other take the smaller of what they ask
and what there is (`ApplyIsCapped`); a list can be sorted by id, and sorting keeps its
sum (`OrderExists`, `OrderKeepsAmounts`); the formula picked from a list precedes the
others that match (`PickPrecedes`). `ReportsDifferByRelief` is then: the relief of a term is
the same in either order of its rows, a term charged in both types is two entries of the
worklist and any other is one, and the sums over the whole account are the sums of the
sums of its terms; what is left is the difference over the mixed terms.

**Graduation.**

    IInv == TypeOK /\ FileOK /\ StudentOK /\ (\A k : CallOK(k)) /\ SerialOK

The calls overlap and read without a lock, so an old copy of a dossier is written back.
What makes `DegreeNeedsGates` hold all the same is that the gates are facts that only
come to be: an approval, a photograph, a payment stays, and `past` remembers what was once
settled. `CallOK` says that a gate that is open in the copy a call has read is open now,
and so is still open when the call writes. The cascade `Due` of the code is met once,
by lemmas on which gates each of its answers implies. `SerialOK` is for calls one at a
time: between calls the status is what the facts ask for, and during one the copy is
the row.

**Exams.**

    IInv == CustodyOK /\ VaultCountsOnce /\ ChainInv /\ BookOK /\ OneOpenAppeal /\ CallInv

`ChainInv` links the stages: a course marked collected has at least one hall counted,
a received hall has signed minutes, and a course with a delivery was collected.
`CallInv` says what each call in flight has kept, and which lock it holds: between the
two halves of `vaultReceiveHall` the hall is held and not yet received, between those
of `openExamAppeal` the student's enrollment is held and no appeal is open. That the
sheets of a course never exceed its seats in the received halls is a fact of
cardinalities of disjoint sets, one for each hall.

The hash is met apart from the rest, for calls that overlap and stop as they like:

    HashInv == (\A k : FinalCallOK(k)) /\ \A c \in Course : Told(c)

`FinalCallOK` says of a finalisation, which reads the sheet, writes the hash and then
the rows, that what it has read, and then what it has stored, has every grade of the
course that is not `late`; `Told` says that of the hash of every sheet whose rows are all
final. Every other way to change a grade takes the row out of the final ones, or marks
it `late`: always for an exam appeal, and for the others while a finalisation of the
course is in flight. A finalisation clears the marks of the grades its hash tells, when
no other one is in flight.

**Contract and payroll.**

    IInv == PapersOK /\ StatementsOK /\ PaymentsOK /\ SettledWithSignedPapers
            /\ OneStatement /\ CallInv /\ (no payment saw more documents than there are)

`PaymentsOK` relates each payment to its statement's status and columns: an advance
rules out DRAFT, a settlement implies FINAL_SETTLED, and two payments of one kind for
one row are the same. `CallInv` gives a payment in flight the lock it holds, a status
that is payable *now*, and the signed documents its gate saw. Every way a document
changes only ever sets `signed`, so no step of a signature takes one from under a
settlement (`StepInv`, `OtherCalls`); only `Pay` adds payments, and `PaidBefore` says
that a statement that may be paid has not been.

Model-checked only: the liveness properties `EventuallyAnOutcome`,
`EventuallyProcessed` and `EventuallyReminded`, since neither fairness with ENABLED nor
liveness is in the prover's reach, and the four violated claims, which are traces.

## 6. Plan

Done: the workflow engine, its outbox and handler, the enrollment core, the finance
desk and the account, graduation, exams and grades, contracts and payroll; theorems of
all of them. Next, in this order:

1. `Enrollment` extended: council referrals that add to `enrolledCount` without a seat
   in Redis, a capacity change, the SQL fallback without Redis; and the theorems of the
   extended steps.
2. The charge by formula with its computation outside the transaction, and two
   attempts at a contract's code at once: hazards without a property so far.
3. Small models for room shifts and phases of the scheduling engine and for the
   capacities of open courses.
4. What the overlapping modes keep: weaker invariants that hold without the
   conditions of `SerialOneChargePerTerm`, `StatusIsDue` and `HeldDossierWaits`.

## 7. Not modelled, and why

More than half of the repository's lines are pages: React components that render
state and call the actions modelled here. They keep no state the properties depend
on, but for the page of the workflow experts, which is stale by design and is in
`Workflow`.

Of the engines: the scheduling engine (phases, quotas, room shifts) and open courses
(a capacity read before its transaction) are state machines of their own and in the
plan. Admissions and the migration of legacy data are batches of one operator with
staging and rollback. Exam planning writes seats once, before the session; they are
the constants `HallOf` and `CourseOf`. Regulations and curriculum resolution are pure
evaluations of stored definitions, without a reference to check them against. The
session generator is calendar arithmetic. Sign-in, settings, messaging, upload, outside
services and reports are I/O or read-only. `afagh-erp` is an earlier prototype that
`afagh-next` replaced.

Inside modelled components: fees and notifications of requests; definitions of
discount types, sponsors and formulas; which students are eligible for graduation;
the calculation of a term's pay (a choice of a net amount, including its repeated
deduction of absences at `lib/payroll-engine.ts:520`); a Redis outage; the capacity
changes and referrals of the group manager and the council.

## 8. Running

    tlasany Workflow.tla
    tlc -workers 2 -config Workflow.cfg MCWorkflow
    tlapm WorkflowProofs.tla

Each run of the table is `tlc -config <cfg> <module>` as `PROJECT.json` names them; the
passing ones take from seconds to about three minutes.

The mutants in `PROJECT.json` name, for each property of a passing run, a definition
and a plausible bug in it; the operators are next to the definitions they change and
are marked "Mutant". Putting one in place of its original makes TLC violate the
property, which shows that the property depends on that code.
