---------------------------- MODULE WorkflowEvents ----------------------------
(***************************************************************************)
(* The outbox of the workflow engine (lib/workflow-events.ts) and its one   *)
(* handler, which writes the approved equivalences of a course transfer to  *)
(* the transcript and charges their tuition (lib/workflow-handlers.ts,      *)
(* applyCourseTransfer and applyEquivalenceBatch of lib/enroll-engine.ts,   *)
(* chargeTermTuition of lib/tuition-engine.ts).                             *)
(*                                                                          *)
(* The event row is committed with the final approval; everything after     *)
(* that runs outside any transaction, one statement at a time, in jobs that *)
(* overlap: the dispatch that follows the approval, the cron route and the  *)
(* retry button of the admin panel.  A job can die between two statements.  *)
(*                                                                          *)
(* The handler is registered when workflow-handlers.ts is loaded, which the *)
(* engine imports and the cron route does not: the route finds the handler  *)
(* only if the build gives it the module instances of the pages, and only   *)
(* after something in this server process has loaded the engine.            *)
(***************************************************************************)
EXTENDS Naturals, Sequences, FiniteSets, FiniteSetsExt

CONSTANTS
  Request,      \* ids of course-transfer requests
  Student,
  StudentOf,    \* request -> student
  Course,
  Units,        \* course -> units
  Items,        \* request -> the courses of its form, in order
  Single,       \* requests with the one-course form (no items list)
  TermUnits,    \* EQUIV_TERM_UNITS, 20 in the code
  Job,          \* concurrent invocations of the dispatcher or the retry
  MaxFaults,    \* bound: handler errors
  MaxCrashes    \* bound: server restarts

ASSUME EventsAssumption ==
  /\ Request \subseteq Nat /\ IsFiniteSet(Request)
  /\ StudentOf \in [Request -> Student]
  /\ Units \in [Course -> Nat]
  /\ Items \in [Request -> Seq(Course)]
  /\ \A r \in Request : Items[r] # << >>
  /\ \A r \in Single \intersect Request : Len(Items[r]) = 1

VARIABLES
  ev,           \* status of the request's workflow_events row
  shared,       \* the build shares module instances between pages and routes
  registered,   \* the engine, and so the handler, is loaded in the process
  enrolled,     \* enrollments rows, unique in <<student, course, term>>
  charges,      \* TUITION_CHARGE rows of a student and term, by id: what each covers
  unpaid,       \* <<student, term>> whose last charge ended in a swallowed error
  job,          \* program counter and locals of each job
  faults, crashes

vars == <<ev, shared, registered, enrolled, charges, unpaid, job, faults, crashes>>
dataVars == <<shared, enrolled, charges, unpaid>>

CurrentTerm == 0    \* equivalence terms 00EQ1, 00EQ2, ... are 1, 2, ...

\* Step 2 of applyEquivalenceBatch: a course that would take the chunk over the
\* limit starts the next chunk.
Chunk(r) ==
  LET its == Items[r]
      c[i \in DOMAIN its] ==
        IF i = 1 THEN [term |-> 1, units |-> Units[its[1]]]
        ELSE IF c[i - 1].units + Units[its[i]] > TermUnits
             THEN [term |-> c[i - 1].term + 1, units |-> Units[its[i]]]
             ELSE [term |-> c[i - 1].term, units |-> c[i - 1].units + Units[its[i]]]
  IN c

TermOfItem(r, i) == IF r \in Single THEN CurrentTerm ELSE Chunk(r)[i].term
RowOfItem(r, i) == <<StudentOf[r], Items[r][i], TermOfItem(r, i)>>

\* The number of equivalence terms the batch touches: all of them are charged.
TermsCharged(r) == IF r \in Single THEN 0 ELSE Chunk(r)[Len(Items[r])].term

Terms == {CurrentTerm} \union
         UNION {{TermOfItem(r, i) : i \in DOMAIN Items[r]} : r \in Request}

Transcript(s, t) == {c \in Course : <<s, c, t>> \in enrolled}

IdleJob == [pc |-> "idle", cron |-> FALSE, todo |-> {}, req |-> 0, at |-> 0,
            found |-> FALSE, covers |-> {}]

\* The job goes to dispatch request r, the rows of todo after it.
Dispatching(j, r, todo) ==
  [IdleJob EXCEPT !.pc = "dispatch", !.cron = job[j].cron, !.req = r, !.todo = todo]

\* The registry the job sees holds the handler.
HandlerKnown(j) == job[j].cron => shared /\ registered

\* A retry goes on with the next row of its list; a dispatch is over.
Finished(j) ==
  IF job[j].todo = {} THEN IdleJob
  ELSE [IdleJob EXCEPT !.pc = "reset", !.cron = job[j].cron, !.todo = job[j].todo]

Goto(j, label) == job' = [job EXCEPT ![j].pc = label]

-----------------------------------------------------------------------------
(* advanceWorkflowStep commits the final approval with the PENDING row, and  *)
(* goes on to dispatch it.                                                   *)

Approve(r, j) ==
  /\ ev[r] = "NONE"
  /\ job[j] = IdleJob
  /\ ev' = [ev EXCEPT ![r] = "PENDING"]
  /\ registered' = TRUE
  /\ job' = [job EXCEPT ![j] = Dispatching(j, r, {})]
  /\ UNCHANGED <<dataVars, faults, crashes>>

\* Mutant: only the skipped rows are read.
RetrySkippedOnly(j, fromCron) ==
  /\ job[j] = IdleJob
  /\ LET rows == {r \in Request : ev[r] = "SKIPPED"}
     IN  /\ rows # {}
         /\ job' = [job EXCEPT ![j] =
              [IdleJob EXCEPT !.pc = "reset", !.cron = fromCron, !.todo = rows]]
  /\ registered' = (registered \/ ~fromCron)
  /\ UNCHANGED <<ev, dataVars, faults, crashes>>

\* retryPendingWorkflowEvents reads the rows to run again.  The button's action
\* is in a module that imports the engine; the cron route is not.
Retry(j, fromCron) ==
  /\ job[j] = IdleJob
  /\ LET rows == {r \in Request : ev[r] \in {"FAILED", "SKIPPED"}}
     IN  /\ rows # {}
         /\ job' = [job EXCEPT ![j] =
              [IdleJob EXCEPT !.pc = "reset", !.cron = fromCron, !.todo = rows]]
  /\ registered' = (registered \/ ~fromCron)
  /\ UNCHANGED <<ev, dataVars, faults, crashes>>

CronRetry(j) == Retry(j, TRUE)
ButtonRetry(j) == Retry(j, FALSE)

\* It sets the next row back to PENDING, whatever became of it meanwhile.
ResetToPending(j) ==
  /\ job[j].pc = "reset"
  /\ LET r == Min(job[j].todo)
     IN  /\ ev' = [ev EXCEPT ![r] = "PENDING"]
         /\ job' = [job EXCEPT ![j] = Dispatching(j, r, job[j].todo \ {r})]
  /\ UNCHANGED <<registered, dataVars, faults, crashes>>

\* Mutant: without a handler the row is left as it is.
ReadPendingIgnoringUnknown(j) ==
  /\ job[j].pc = "dispatch"
  /\ \/ /\ ev[job[j].req] # "PENDING" \/ ~HandlerKnown(j)
        /\ job' = [job EXCEPT ![j] = Finished(j)]
     \/ /\ ev[job[j].req] = "PENDING" /\ HandlerKnown(j)
        /\ job' = [job EXCEPT ![j].pc = "find row", ![j].at = 1]
  /\ UNCHANGED <<ev, registered, dataVars, faults, crashes>>

\* dispatchWorkflowEvent reads the PENDING rows of the request.
ReadPending(j) ==
  /\ job[j].pc = "dispatch"
  /\ \/ ev[job[j].req] # "PENDING" /\ job' = [job EXCEPT ![j] = Finished(j)]
     \/ ev[job[j].req] = "PENDING" /\ ~HandlerKnown(j) /\ Goto(j, "skip")
     \/ /\ ev[job[j].req] = "PENDING" /\ HandlerKnown(j)
        /\ job' = [job EXCEPT ![j].pc = "find row", ![j].at = 1]
  /\ UNCHANGED <<ev, registered, dataVars, faults, crashes>>

-----------------------------------------------------------------------------
(* The handler: each course of the form in turn, then each term's tuition.   *)

FindRow(j) ==
  /\ job[j].pc = "find row"
  /\ job' = [job EXCEPT ![j].pc = "write row",
                        ![j].found = RowOfItem(job[j].req, job[j].at) \in enrolled]
  /\ UNCHANGED <<ev, registered, dataVars, faults, crashes>>

\* Update the row found, or insert one: the unique constraint rejects the
\* insert when another job inserted it first.
WriteRow(j) ==
  LET r == job[j].req
      n == RowOfItem(r, job[j].at)
  IN  /\ job[j].pc = "write row"
      /\ \/ /\ ~job[j].found /\ n \in enrolled
            /\ Goto(j, "fail")
            /\ UNCHANGED enrolled
         \/ /\ job[j].found \/ n \notin enrolled
            /\ enrolled' = enrolled \union {n}
            /\ job' = [job EXCEPT ![j] =
                 IF job[j].at < Len(Items[r]) THEN [@ EXCEPT !.pc = "find row", !.at = job[j].at + 1]
                 ELSE IF TermsCharged(r) = 0 THEN [@ EXCEPT !.pc = "succeed"]
                 ELSE [@ EXCEPT !.pc = "compute", !.at = 1]]
      /\ UNCHANGED <<ev, shared, registered, charges, unpaid, faults, crashes>>

\* Mutant: an error of the handler is swallowed.
HandlerErrorSwallowed(j) ==
  /\ job[j].pc \in {"find row", "write row"}
  /\ faults < MaxFaults
  /\ faults' = faults + 1
  /\ Goto(j, "succeed")
  /\ UNCHANGED <<ev, registered, dataVars, crashes>>

HandlerFails(j) ==
  /\ job[j].pc \in {"find row", "write row"}
  /\ faults < MaxFaults
  /\ faults' = faults + 1
  /\ Goto(j, "fail")
  /\ UNCHANGED <<ev, registered, dataVars, crashes>>

\* Mutant: the tuition is computed from the courses of this form only.
ComputeTuitionOfForm(j) ==
  LET r == job[j].req
  IN  /\ job[j].pc = "compute"
      /\ job' = [job EXCEPT ![j].pc = "find charge",
           ![j].covers = {Items[r][i] : i \in {n \in DOMAIN Items[r] : TermOfItem(r, n) = job[j].at}}]
      /\ UNCHANGED <<ev, registered, dataVars, faults, crashes>>

\* computeTermTuition: the student's rows of the term, in a statement of its own.
ComputeTuition(j) ==
  /\ job[j].pc = "compute"
  /\ job' = [job EXCEPT ![j].pc = "find charge",
                        ![j].covers = Transcript(StudentOf[job[j].req], job[j].at)]
  /\ UNCHANGED <<ev, registered, dataVars, faults, crashes>>

\* Mutant: a charge is written without looking for the term's.
FindChargeNever(j) ==
  /\ job[j].pc = "find charge"
  /\ job' = [job EXCEPT ![j].pc = "write charge", ![j].found = FALSE]
  /\ UNCHANGED <<ev, registered, dataVars, faults, crashes>>

FindCharge(j) ==
  /\ job[j].pc = "find charge"
  /\ job' = [job EXCEPT ![j].pc = "write charge",
                        ![j].found = charges[<<StudentOf[job[j].req], job[j].at>>] # << >>]
  /\ UNCHANGED <<ev, registered, dataVars, faults, crashes>>

NextTerm(j) ==
  job' = [job EXCEPT ![j] =
    IF job[j].at < TermsCharged(job[j].req) THEN [@ EXCEPT !.pc = "compute", !.at = job[j].at + 1]
                                            ELSE [@ EXCEPT !.pc = "succeed"]]

\* The charge found is updated (any of them, had two jobs written one each).
WriteCharge(j) ==
  LET key == <<StudentOf[job[j].req], job[j].at>>
  IN  /\ job[j].pc = "write charge"
      /\ \/ /\ job[j].found
            /\ \E i \in DOMAIN charges[key] : charges' = [charges EXCEPT ![key][i] = job[j].covers]
         \/ /\ ~job[j].found
            /\ charges' = [charges EXCEPT ![key] = Append(@, job[j].covers)]
      /\ unpaid' = unpaid \ {key}
      /\ NextTerm(j)
      /\ UNCHANGED <<ev, shared, registered, enrolled, faults, crashes>>

\* An error of the charge is logged; the equivalence counts as done.
ChargeFails(j) ==
  /\ job[j].pc \in {"compute", "find charge", "write charge"}
  /\ faults < MaxFaults
  /\ faults' = faults + 1
  /\ unpaid' = unpaid \union {<<StudentOf[job[j].req], job[j].at>>}
  /\ NextTerm(j)
  /\ UNCHANGED <<ev, shared, registered, enrolled, charges, crashes>>

-----------------------------------------------------------------------------
(* The dispatcher writes the outcome, whatever the row's status is by now.   *)

Outcome == [succeed |-> "PROCESSED", fail |-> "FAILED", skip |-> "SKIPPED"]

\* Mutant: the handler's result is stored as it is.
MarkResult(j) ==
  /\ job[j].pc \in DOMAIN Outcome
  /\ ev' = [ev EXCEPT ![job[j].req] = job[j].pc]
  /\ job' = [job EXCEPT ![j] = Finished(j)]
  /\ UNCHANGED <<registered, dataVars, faults, crashes>>

MarkOutcome(j) ==
  /\ job[j].pc \in DOMAIN Outcome
  /\ ev' = [ev EXCEPT ![job[j].req] = Outcome[job[j].pc]]
  /\ job' = [job EXCEPT ![j] = Finished(j)]
  /\ UNCHANGED <<registered, dataVars, faults, crashes>>

\* The server restarts: its jobs are gone and no module is loaded.
Restart ==
  /\ crashes < MaxCrashes
  /\ crashes' = crashes + 1
  /\ job' = [j \in Job |-> IdleJob]
  /\ registered' = FALSE
  /\ UNCHANGED <<ev, dataVars, faults>>

\* A page or an action that imports the engine is served.
LoadEngine ==
  /\ ~registered
  /\ registered' = TRUE
  /\ UNCHANGED <<ev, dataVars, job, faults, crashes>>

-----------------------------------------------------------------------------
Init ==
  /\ ev = [r \in Request |-> "NONE"]
  /\ shared \in BOOLEAN
  /\ registered = FALSE
  /\ enrolled = {}
  /\ charges = [k \in Student \X Terms |-> << >>]
  /\ unpaid = {}
  /\ job = [j \in Job |-> IdleJob]
  /\ faults = 0
  /\ crashes = 0

JobStep(j) ==
  \/ ResetToPending(j) \/ ReadPending(j)
  \/ FindRow(j) \/ WriteRow(j)
  \/ ComputeTuition(j) \/ FindCharge(j) \/ WriteCharge(j)
  \/ MarkOutcome(j)

Next ==
  \/ \E j \in Job, r \in Request : Approve(r, j)
  \/ \E j \in Job : CronRetry(j) \/ ButtonRetry(j) \/ JobStep(j) \/ HandlerFails(j) \/ ChargeFails(j)
  \/ Restart
  \/ LoadEngine

\* A job that runs goes on, and the scheduler keeps calling the cron route.
Fairness ==
  /\ \A j \in Job : WF_vars(JobStep(j))
  /\ WF_vars(\E j \in Job : CronRetry(j))

Spec == Init /\ [][Next]_vars /\ Fairness

-----------------------------------------------------------------------------
Pc == {"idle", "reset", "dispatch", "find row", "write row", "compute", "find charge",
       "write charge"} \union DOMAIN Outcome

TypeOK ==
  /\ ev \in [Request -> {"NONE", "PENDING", "PROCESSED", "FAILED", "SKIPPED"}]
  /\ shared \in BOOLEAN
  /\ registered \in BOOLEAN
  /\ enrolled \subseteq Student \X Course \X Terms
  /\ DOMAIN charges = Student \X Terms
  /\ \A k \in DOMAIN charges : charges[k] \in Seq(SUBSET Course)
  /\ unpaid \subseteq Student \X Terms
  /\ \A j \in Job :
       /\ job[j].pc \in Pc
       /\ job[j].pc \notin {"idle", "reset"} => job[j].req \in Request
       /\ job[j].todo \subseteq Request

\* An event is PROCESSED only when every course of its form is in the student's
\* transcript: after errors half-way, retries, restarts and overlapping jobs.
ProcessedIsInTranscript ==
  \A r \in Request : ev[r] = "PROCESSED" =>
    \A i \in DOMAIN Items[r] : RowOfItem(r, i) \in enrolled

\* While jobs do not overlap, running an event again after an error or a restart
\* never charges a term twice.
OneChargePerTerm == \A k \in DOMAIN charges : Len(charges[k]) <= 1

\* While jobs do not overlap, when no event is left to run, every equivalence
\* term of a student is charged for all the courses in it, those another form
\* of the same student brought included, unless its charge failed.
ChargeCoversTerm ==
  (\A r \in Request : ev[r] \in {"NONE", "PROCESSED"}) =>
    \A s \in Student, t \in Terms \ {CurrentTerm} :
      Transcript(s, t) # {} /\ <<s, t>> \notin unpaid =>
        charges[<<s, t>>] = << Transcript(s, t) >>

\* Every event gets an outcome in the end, whatever errors its handler meets and
\* however many jobs reset it and race on it, unless the server restarts.
EventuallyAnOutcome ==
  \A r \in Request :
    ev[r] = "PENDING" ~> ev[r] \in {"PROCESSED", "FAILED", "SKIPPED"} \/ crashes > 0

\* If the cron route has the pages' modules, the outcome is in the end that the
\* event was processed, unless the server restarts.
EventuallyProcessed ==
  \A r \in Request :
    shared /\ ev[r] = "PENDING" ~> ev[r] = "PROCESSED" \/ crashes > 0
=============================================================================
