------------------------------ MODULE Enrollment ------------------------------
(***************************************************************************)
(* Course registration of afagh-next: the waiting room in Redis             *)
(* (lib/waitingRoom.ts), the worker that turns a student's cart into        *)
(* registrations (processQueuedSubmit of lib/enroll-engine.ts) and the drop *)
(* that promotes the first waiter (dropCourseAction, app/student/actions.ts)*)
(*                                                                          *)
(* The capacity lives twice, as course_offerings.enrolledCount in the       *)
(* database and as a seat count in Redis, and no transaction spans the two: *)
(* each statement is an action here.  setInterval starts a tick every       *)
(* 250 ms whether or not the last one is done, so workers overlap.          *)
(*                                                                          *)
(* Redis answers (its outage and the SQL fallback are not modelled), and    *)
(* the council's referrals and the ticket's progress display are left out.  *)
(***************************************************************************)
EXTENDS Integers, Sequences, FiniteSets

CONSTANTS
  Student, Offering,
  Capacity,     \* offering -> capacity
  HasWaitlist,  \* offerings with waitlistCapacity > 0
  Tick,         \* overlapping ticks of the worker
  DropCall,     \* calls of dropCourseAction under way
  NoStudent, NoOffering,
  MaxRequests,  \* bound: tickets, drops and forced warmups ever asked for, together
  MaxCrashes    \* bound: server restarts and sessions that end in an error

ASSUME EnrollmentAssumption ==
  /\ IsFiniteSet(Student) /\ IsFiniteSet(Tick) /\ IsFiniteSet(DropCall)
  /\ Capacity \in [Offering -> Nat]
  /\ HasWaitlist \subseteq Offering
  /\ NoStudent \notin Student /\ NoOffering \notin Offering
  /\ MaxRequests \in Nat /\ MaxCrashes \in Nat

VARIABLES
  queue,    \* the ZSET of tickets, oldest first
  status,   \* enrollments.status of <<student, offering>>, "NONE" without a row
  place,    \* enrollments.waitlistPosition, 0 for null
  count,    \* course_offerings.enrolledCount
  warm,     \* the hash afagh:caps exists in Redis
  seats,    \* its taken seats
  wl,       \* the INCR counter of waitlist positions
  job,      \* each tick's program counter and locals
  drop,     \* each call of dropCourseAction
  warmup,   \* the admin's forced warmup: program counter, what it read
  requests, crashes

rows == <<status, place, count>>
redis == <<queue, warm, seats, wl>>
sessions == <<job, drop, warmup>>
bounds == <<requests, crashes>>
vars == <<queue, status, place, count, warm, seats, wl, job, drop, warmup, requests, crashes>>

Key == Student \X Offering
Registered(o) == {s \in Student : status[<<s, o>>] = "REGISTERED"}
Waiting(o) == {s \in Student : status[<<s, o>>] = "WAITLISTED"}

NoCounts == [o \in Offering |-> 0]
IdleJob == [pc |-> "idle", who |-> NoStudent, todo |-> {}, at |-> NoOffering,
            place |-> 0, counts |-> NoCounts]
IdleDrop == [pc |-> "idle", who |-> NoStudent, at |-> NoOffering, first |-> NoStudent, taken |-> 0]
IdleWarmup == [pc |-> "idle", counts |-> NoCounts]

Requested ==
  /\ requests < MaxRequests
  /\ requests' = requests + 1
  /\ UNCHANGED crashes

-----------------------------------------------------------------------------
(* The student asks for a ticket.                                            *)

Submit(s) ==
  /\ Requested
  /\ queue' = Append(queue, s)
  /\ UNCHANGED <<rows, warm, seats, wl, sessions>>

-----------------------------------------------------------------------------
(* A tick of the worker: ZPOPMIN, then processQueuedSubmit.                  *)

Go(w, pc) == job' = [job EXCEPT ![w].pc = pc]

Pop(w) ==
  /\ job[w] = IdleJob
  /\ queue # << >>
  /\ job' = [job EXCEPT ![w].pc = "read", ![w].who = Head(queue)]
  /\ queue' = Tail(queue)
  /\ UNCHANGED <<rows, warm, seats, wl, drop, warmup, bounds>>

\* The cart less what is registered.  The student edits the cart at any time,
\* also while the ticket waits, so what it holds is the environment's choice, as
\* is what of it fails the filters (regulation, clashes, prerequisites).  A hard
\* error (finance among them) ends the ticket, and so does an empty cart.
ReadCart(w) ==
  LET s == job[w].who
  IN  /\ job[w].pc = "read"
      /\ \E todo \in SUBSET {o \in Offering : status[<<s, o>>] # "REGISTERED"} :
           job' = [job EXCEPT ![w] = IF todo = {} THEN IdleJob
                                     ELSE [@ EXCEPT !.pc = "warm?", !.todo = todo]]
      /\ UNCHANGED <<rows, redis, drop, warmup, bounds>>

\* warmupCapacities(false): EXISTS, then the counts from the database, then
\* DEL and HSET in one MULTI.
CheckWarm(w) ==
  /\ job[w].pc = "warm?"
  /\ Go(w, IF warm THEN "seat" ELSE "counts")
  /\ UNCHANGED <<rows, redis, drop, warmup, bounds>>

ReadCounts(w) ==
  /\ job[w].pc = "counts"
  /\ job' = [job EXCEPT ![w].pc = "fill", ![w].counts = count]
  /\ UNCHANGED <<rows, redis, drop, warmup, bounds>>

FillSeats(w) ==
  /\ job[w].pc = "fill"
  /\ warm' = TRUE
  /\ seats' = job[w].counts
  /\ job' = [job EXCEPT ![w].pc = "seat", ![w].counts = NoCounts]
  /\ UNCHANGED <<queue, rows, wl, drop, warmup, bounds>>

\* The job when offering o of its cart is done: the next one, or the end.
Without(w, o) ==
  LET left == job[w].todo \ {o}
  IN  IF left = {} THEN IdleJob
      ELSE [IdleJob EXCEPT !.pc = "seat", !.who = job[w].who, !.todo = left]

NextOffering(w) == job' = [job EXCEPT ![w] = Without(w, job[w].at)]

\* Mutant: one seat too many.
TakeSeatBeyond(w, o) ==
  /\ job[w].pc = "seat"
  /\ o \in job[w].todo
  /\ seats[o] <= Capacity[o]
  /\ seats' = [seats EXCEPT ![o] = @ + 1]
  /\ job' = [job EXCEPT ![w].pc = "register", ![w].at = o]
  /\ UNCHANGED <<queue, rows, warm, wl, drop, warmup, bounds>>

\* SEAT_LUA, one atomic script.
TakeSeat(w, o) ==
  /\ job[w].pc = "seat"
  /\ o \in job[w].todo
  /\ seats[o] < Capacity[o]
  /\ seats' = [seats EXCEPT ![o] = @ + 1]
  /\ job' = [job EXCEPT ![w].pc = "register", ![w].at = o]
  /\ UNCHANGED <<queue, rows, warm, wl, drop, warmup, bounds>>

\* Without a waiting list the offering is refused and stays in the cart.
FindFull(w, o) ==
  /\ job[w].pc = "seat"
  /\ o \in job[w].todo
  /\ seats[o] >= Capacity[o]
  /\ job' = [job EXCEPT ![w] = IF o \in HasWaitlist THEN [@ EXCEPT !.pc = "place", !.at = o]
                              ELSE Without(w, o)]
  /\ UNCHANGED <<rows, redis, drop, warmup, bounds>>

\* Mutant: the place is read, not counted up.
ReadPlace(w) ==
  /\ job[w].pc = "place"
  /\ job' = [job EXCEPT ![w].pc = "wait", ![w].place = wl[job[w].at] + 1]
  /\ UNCHANGED <<rows, redis, drop, warmup, bounds>>

TakePlace(w) ==
  /\ job[w].pc = "place"
  /\ wl' = [wl EXCEPT ![job[w].at] = @ + 1]
  /\ job' = [job EXCEPT ![w].pc = "wait", ![w].place = wl[job[w].at] + 1]
  /\ UNCHANGED <<queue, rows, warm, seats, drop, warmup, bounds>>

\* insert ... on conflict do update: whatever the row's status was.
WriteRow(w) ==
  LET k == <<job[w].who, job[w].at>>
  IN  /\ \/ /\ job[w].pc = "register"
            /\ status' = [status EXCEPT ![k] = "REGISTERED"]
            /\ place' = [place EXCEPT ![k] = 0]
            /\ Go(w, "count")
         \/ /\ job[w].pc = "wait"
            /\ status' = [status EXCEPT ![k] = "WAITLISTED"]
            /\ place' = [place EXCEPT ![k] = job[w].place]
            /\ NextOffering(w)
      /\ UNCHANGED <<count, redis, drop, warmup, bounds>>

AddToCount(w) ==
  /\ job[w].pc = "count"
  /\ count' = [count EXCEPT ![job[w].at] = @ + 1]
  /\ NextOffering(w)
  /\ UNCHANGED <<status, place, redis, drop, warmup, bounds>>

-----------------------------------------------------------------------------
(* dropCourseAction: the drop, then the promotion of the first waiter.       *)

StartDrop(d, s, o) ==
  /\ Requested
  /\ drop[d] = IdleDrop
  /\ status[<<s, o>>] = "REGISTERED"
  /\ drop' = [drop EXCEPT ![d].pc = "drop", ![d].who = s, ![d].at = o]
  /\ UNCHANGED <<rows, redis, job, warmup>>

DropRow(d) ==
  /\ drop[d].pc = "drop"
  /\ status' = [status EXCEPT ![<<drop[d].who, drop[d].at>>] = "DROPPED"]
  /\ drop' = [drop EXCEPT ![d].pc = "uncount"]
  /\ UNCHANGED <<place, count, redis, job, warmup, bounds>>

\* Mutant: the count has no floor.
TakeFromCountFreely(d) ==
  /\ drop[d].pc = "uncount"
  /\ count' = [count EXCEPT ![drop[d].at] = @ - 1]
  /\ drop' = [drop EXCEPT ![d].pc = "get"]
  /\ UNCHANGED <<status, place, redis, job, warmup, bounds>>

TakeFromCount(d) ==
  /\ drop[d].pc = "uncount"
  /\ count' = [count EXCEPT ![drop[d].at] = IF @ = 0 THEN 0 ELSE @ - 1]
  /\ drop' = [drop EXCEPT ![d].pc = "get"]
  /\ UNCHANGED <<status, place, redis, job, warmup, bounds>>

\* releaseSeat and takeSeat: HGET and HSET, two commands, or nothing when cold.
GetSeats(d) ==
  LET Got(pc) == drop' = [drop EXCEPT ![d].pc = pc, ![d].taken = seats[drop[d].at]]
  IN  /\ \/ drop[d].pc = "get" /\ Got(IF warm THEN "release" ELSE "select")
         \/ drop[d].pc = "again" /\ warm /\ Got("retake")
         \/ drop[d].pc = "again" /\ ~warm /\ drop' = [drop EXCEPT ![d] = IdleDrop]
      /\ UNCHANGED <<rows, redis, job, warmup, bounds>>

\* Mutant: the drop ends when the seat is released.
ReleaseSeatOnly(d) ==
  /\ drop[d].pc = "release"
  /\ seats' = [seats EXCEPT ![drop[d].at] = IF drop[d].taken = 0 THEN 0 ELSE drop[d].taken - 1]
  /\ drop' = [drop EXCEPT ![d] = IdleDrop]
  /\ UNCHANGED <<queue, rows, warm, wl, job, warmup, bounds>>

ReleaseSeat(d) ==
  /\ drop[d].pc = "release"
  /\ seats' = [seats EXCEPT ![drop[d].at] = IF drop[d].taken = 0 THEN 0 ELSE drop[d].taken - 1]
  /\ drop' = [drop EXCEPT ![d].pc = "select", ![d].taken = 0]
  /\ UNCHANGED <<queue, rows, warm, wl, job, warmup, bounds>>

FirstWaiter(o) ==
  {s \in Waiting(o) : \A t \in Waiting(o) : place[<<s, o>>] <= place[<<t, o>>]}

SelectWaiter(d) ==
  /\ drop[d].pc = "select"
  /\ \/ /\ Waiting(drop[d].at) = {}
        /\ drop' = [drop EXCEPT ![d] = IdleDrop]
     \/ \E f \in FirstWaiter(drop[d].at) :
          drop' = [drop EXCEPT ![d].pc = "promote", ![d].first = f]
  /\ UNCHANGED <<rows, redis, job, warmup, bounds>>

Promote(d) ==
  LET k == <<drop[d].first, drop[d].at>>
  IN  /\ drop[d].pc = "promote"
      /\ status' = [status EXCEPT ![k] = "REGISTERED"]
      /\ place' = [place EXCEPT ![k] = 0]
      /\ drop' = [drop EXCEPT ![d].pc = "shift", ![d].first = NoStudent]
      /\ UNCHANGED <<count, redis, job, warmup, bounds>>

\* Mutant: the promoted student is not counted.
ShiftWithoutCounting(d) ==
  /\ drop[d].pc = "shift"
  /\ place' = [k \in Key |->
       IF k[2] = drop[d].at /\ status[k] = "WAITLISTED" THEN place[k] - 1 ELSE place[k]]
  /\ drop' = [drop EXCEPT ![d].pc = "again"]
  /\ UNCHANGED <<status, count, redis, job, warmup, bounds>>

ShiftWaiters(d) ==
  /\ drop[d].pc = "shift"
  /\ place' = [k \in Key |->
       IF k[2] = drop[d].at /\ status[k] = "WAITLISTED" THEN place[k] - 1 ELSE place[k]]
  /\ drop' = [drop EXCEPT ![d].pc = "recount"]
  /\ UNCHANGED <<status, count, redis, job, warmup, bounds>>

CountPromoted(d) ==
  /\ drop[d].pc = "recount"
  /\ count' = [count EXCEPT ![drop[d].at] = @ + 1]
  /\ drop' = [drop EXCEPT ![d].pc = "again"]
  /\ UNCHANGED <<status, place, redis, job, warmup, bounds>>

RetakeSeat(d) ==
  LET o == drop[d].at
  IN  /\ drop[d].pc = "retake"
      /\ seats' = [seats EXCEPT ![o] =
           IF drop[d].taken + 1 < Capacity[o] THEN drop[d].taken + 1 ELSE Capacity[o]]
      /\ drop' = [drop EXCEPT ![d] = IdleDrop]
      /\ UNCHANGED <<queue, rows, warm, wl, job, warmup, bounds>>

-----------------------------------------------------------------------------
(* warmupCapacities(true), from the admin page or its route.                 *)

ReadForWarmup ==
  /\ Requested
  /\ warmup = IdleWarmup
  /\ warmup' = [pc |-> "fill", counts |-> count]
  /\ UNCHANGED <<rows, redis, job, drop>>

FillForWarmup ==
  /\ warmup.pc = "fill"
  /\ warm' = TRUE
  /\ seats' = warmup.counts
  /\ warmup' = IdleWarmup
  /\ UNCHANGED <<queue, rows, wl, job, drop, bounds>>

-----------------------------------------------------------------------------
(* Failures: what Redis and the database hold by then stays.                 *)

\* A statement throws: the worker finishes the ticket with an internal error.
TicketFails(w) ==
  /\ crashes < MaxCrashes
  /\ job[w] # IdleJob
  /\ crashes' = crashes + 1
  /\ job' = [job EXCEPT ![w] = IdleJob]
  /\ UNCHANGED <<rows, redis, drop, warmup, requests>>

\* A statement throws: the drop's action ends with it.
DropFails(d) ==
  /\ crashes < MaxCrashes
  /\ drop[d] # IdleDrop
  /\ crashes' = crashes + 1
  /\ drop' = [drop EXCEPT ![d] = IdleDrop]
  /\ UNCHANGED <<rows, redis, job, warmup, requests>>

\* The server process dies.
Crash ==
  /\ crashes < MaxCrashes
  /\ crashes' = crashes + 1
  /\ job' = [w \in Tick |-> IdleJob]
  /\ drop' = [d \in DropCall |-> IdleDrop]
  /\ warmup' = IdleWarmup
  /\ UNCHANGED <<rows, redis, requests>>

-----------------------------------------------------------------------------
Init ==
  /\ queue = << >>
  /\ status = [k \in Key |-> "NONE"]
  /\ place = [k \in Key |-> 0]
  /\ count = NoCounts
  /\ warm = FALSE
  /\ seats = NoCounts
  /\ wl = NoCounts
  /\ job = [w \in Tick |-> IdleJob]
  /\ drop = [d \in DropCall |-> IdleDrop]
  /\ warmup = IdleWarmup
  /\ requests = 0
  /\ crashes = 0

Process(w) ==
  \/ Pop(w) \/ ReadCart(w)
  \/ CheckWarm(w) \/ ReadCounts(w) \/ FillSeats(w)
  \/ \E o \in Offering : TakeSeat(w, o) \/ FindFull(w, o)
  \/ TakePlace(w) \/ WriteRow(w) \/ AddToCount(w)

Drop(d) ==
  \/ \E s \in Student, o \in Offering : StartDrop(d, s, o)
  \/ DropRow(d) \/ TakeFromCount(d) \/ GetSeats(d) \/ ReleaseSeat(d)
  \/ SelectWaiter(d) \/ Promote(d) \/ ShiftWaiters(d) \/ CountPromoted(d)
  \/ RetakeSeat(d)

Next ==
  \/ \E s \in Student : Submit(s)
  \/ \E w \in Tick : Process(w) \/ TicketFails(w)
  \/ \E d \in DropCall : Drop(d) \/ DropFails(d)
  \/ ReadForWarmup \/ FillForWarmup
  \/ Crash

Spec == Init /\ [][Next]_vars
-----------------------------------------------------------------------------
TickPc == {"idle", "read", "warm?", "counts", "fill", "seat", "place", "register",
           "wait", "count"}
DropPc == {"idle", "drop", "uncount", "get", "release", "select", "promote", "shift",
           "recount", "again", "retake"}
Counts == [Offering -> Nat]

TypeOK ==
  /\ queue \in Seq(Student)
  /\ status \in [Key -> {"NONE", "REGISTERED", "WAITLISTED", "DROPPED"}]
  /\ place \in [Key -> Int]
  /\ count \in Counts /\ seats \in Counts /\ wl \in Counts
  /\ warm \in BOOLEAN
  /\ job \in [Tick -> [pc : TickPc, who : Student \union {NoStudent}, todo : SUBSET Offering,
                       at : Offering \union {NoOffering}, place : Nat, counts : Counts]]
  /\ drop \in [DropCall -> [pc : DropPc, who : Student \union {NoStudent},
                            at : Offering \union {NoOffering},
                            first : Student \union {NoStudent}, taken : Nat]]
  /\ warmup \in [pc : {"idle", "fill"}, counts : Counts]
  /\ requests \in Nat /\ crashes \in Nat
=============================================================================
