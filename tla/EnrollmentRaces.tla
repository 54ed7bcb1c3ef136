---------------------------- MODULE EnrollmentRaces ----------------------------
(***************************************************************************)
(* What the overlaps of Enrollment cost.  Nothing keeps a drop, a tick, the  *)
(* forced warmup and a failure apart, and the code's promises (a class is    *)
(* never overbooked, the counters agree, the waiters are in line and are     *)
(* served first) do break.  History variables, which no step reads, note     *)
(* each step that can break them where it happens; the properties then say   *)
(* of every behaviour that nothing else does, and by how much.               *)
(***************************************************************************)
EXTENDS Enrollment

VARIABLES
  excess,   \* students a class may have beyond its capacity
  drift,    \* by how much its two counters may be wrong
  open,     \* seats newcomers may take before the waiters
  late      \* ticks and rows whose place in the line missed a shift

history == <<excess, drift, open, late>>
allVars == <<vars, history>>

\* Sessions at offering o: ticks that hold a seat, have a row to count, found the
\* class full; drops that have still to count down, to release, to hand the seat
\* to the first waiter, to count the promoted student, to take the seat again.
TicksAt(o, pcs) == {w \in Tick : job[w].at = o /\ job[w].pc \in pcs}
DropsAt(o, pcs) == {d \in DropCall : drop[d].at = o /\ drop[d].pc \in pcs}

Queueing == {"place", "wait"}
Unreleased == {"uncount", "get", "release"}
Unretaken == {"shift", "recount", "again", "retake"}
Handing == {"select", "promote"} \union Unretaken

One(b) == IF b THEN 1 ELSE 0
Gap(a, b) == IF a < b THEN b - a ELSE a - b
Lost(due, n) == IF n < due THEN due - n ELSE 0
Adds(f, o, n) == [f EXCEPT ![o] = @ + n]

-----------------------------------------------------------------------------
(* A write of the seats that is not based on the seats it replaces.          *)

\* The seats are filled with counts read before.
NoteFill ==
  /\ excess' = [o \in Offering |-> excess[o] + Lost(seats[o], seats'[o])]
  /\ drift' = [o \in Offering |-> drift[o] + Gap(seats[o], seats'[o])]
  /\ open' = [o \in Offering |-> open[o] + Lost(seats[o], seats'[o])]
  /\ UNCHANGED late

\* HSET after HGET: one seat less, or one more up to the capacity, was due.
NoteStore(o, due, counted) ==
  /\ excess' = Adds(excess, o, Lost(due, seats'[o]))
  /\ drift' = Adds(drift, o, Gap(counted, seats'[o]))
  /\ open' = Adds(open, o, Lost(due, seats'[o]))
  /\ UNCHANGED late

NoteRelease(d) == LET o == drop[d].at IN NoteStore(o, seats[o] - 1, seats[o] - 1)

NoteRetake(d) ==
  LET o == drop[d].at
  IN  NoteStore(o, IF seats[o] < Capacity[o] THEN seats[o] + 1 ELSE Capacity[o], seats[o] + 1)

-----------------------------------------------------------------------------
(* The seat of a promoted student, between the promotion and takeSeat.       *)

Promised(o) == seats[o] + Cardinality(DropsAt(o, Unretaken))

\* A newcomer takes the seat promised to a promoted student.
NoteSeat(o) ==
  /\ excess' = Adds(excess, o, One(DropsAt(o, Unretaken) # {} /\ Promised(o) >= Capacity[o]))
  /\ UNCHANGED <<drift, open, late>>

\* A waiter is promoted to a seat a newcomer has taken, or is registered already.
NotePromote(d) ==
  LET o == drop[d].at
      again == status[<<drop[d].first, o>>] = "REGISTERED"
  IN  /\ excess' = Adds(excess, o, One(~again /\ Promised(o) >= Capacity[o]))
      /\ drift' = Adds(drift, o, One(again))
      /\ late' = [late EXCEPT !.rows = @ \ {<<drop[d].first, o>>}]
      /\ UNCHANGED open

\* Nobody waits yet, but a tick has found the class full and will wait.
NoteSelect(d) ==
  LET o == drop[d].at
  IN  /\ open' = Adds(open, o, One(drop'[d] = IdleDrop /\ TicksAt(o, Queueing) # {}))
      /\ UNCHANGED <<excess, drift, late>>

\* The places ticks hold are not shifted: their rows are not written yet.
NoteShift(d) ==
  /\ late' = [late EXCEPT !.ticks = @ \union TicksAt(drop[d].at, {"wait"})]
  /\ UNCHANGED <<excess, drift, open>>

-----------------------------------------------------------------------------
(* Rows written twice.                                                       *)

\* A row registered, or put on the line, while it is registered.
NoteRow(w) ==
  LET k == <<job[w].who, job[w].at>>
      missed == job[w].pc = "wait" /\ w \in late.ticks
  IN  /\ drift' = Adds(drift, job[w].at, One(status[k] = "REGISTERED"))
      /\ late' = [ticks |-> late.ticks \ {w},
                  rows |-> IF missed THEN late.rows \union {k} ELSE late.rows \ {k}]
      /\ UNCHANGED <<excess, open>>

\* A row dropped that is not registered any more.
NoteDropRow(d) ==
  LET o == drop[d].at
      again == status[<<drop[d].who, o>>] # "REGISTERED"
  IN  /\ excess' = Adds(excess, o, One(again))
      /\ drift' = Adds(drift, o, One(again))
      /\ UNCHANGED <<open, late>>

\* The count's floor.
NoteUncount(d) ==
  /\ drift' = Adds(drift, drop[d].at, One(count[drop[d].at] = 0))
  /\ UNCHANGED <<excess, open, late>>

-----------------------------------------------------------------------------
(* Sessions that end in an error, or with the server.                        *)

NoteEnd(ticks, drops) ==
  LET Cut(o, held, dropped) ==
        Cardinality(ticks \intersect TicksAt(o, held))
          + Cardinality(drops \intersect DropsAt(o, dropped))
  IN  /\ excess' = [o \in Offering |-> excess[o] + Cut(o, {}, Unretaken)]
      /\ drift' = [o \in Offering |->
                     drift[o] + Cut(o, {"register", "count"}, Unreleased \union Unretaken)]
      /\ open' = [o \in Offering |-> open[o] + Cut(o, {}, Handing)]
      /\ late' = [late EXCEPT !.ticks = @ \ ticks]

-----------------------------------------------------------------------------
HistoryInit ==
  /\ Init
  /\ excess = NoCounts /\ drift = NoCounts /\ open = NoCounts
  /\ late = [ticks |-> {}, rows |-> {}]

NotedProcess(w) ==
  \/ FillSeats(w) /\ NoteFill
  \/ \E o \in Offering : TakeSeat(w, o) /\ NoteSeat(o)
  \/ WriteRow(w) /\ NoteRow(w)
  \/ /\ \/ Pop(w) \/ ReadCart(w) \/ CheckWarm(w) \/ ReadCounts(w)
        \/ \E o \in Offering : FindFull(w, o)
        \/ TakePlace(w) \/ AddToCount(w)
     /\ UNCHANGED history

NotedDrop(d) ==
  \/ DropRow(d) /\ NoteDropRow(d)
  \/ TakeFromCount(d) /\ NoteUncount(d)
  \/ ReleaseSeat(d) /\ NoteRelease(d)
  \/ SelectWaiter(d) /\ NoteSelect(d)
  \/ Promote(d) /\ NotePromote(d)
  \/ ShiftWaiters(d) /\ NoteShift(d)
  \/ RetakeSeat(d) /\ NoteRetake(d)
  \/ /\ \/ \E s \in Student, o \in Offering : StartDrop(d, s, o)
        \/ GetSeats(d) \/ CountPromoted(d)
     /\ UNCHANGED history

HistoryNext ==
  \/ \E w \in Tick : NotedProcess(w) \/ (TicketFails(w) /\ NoteEnd({w}, {}))
  \/ \E d \in DropCall : NotedDrop(d) \/ (DropFails(d) /\ NoteEnd({}, {d}))
  \/ Crash /\ NoteEnd(Tick, DropCall)
  \/ FillForWarmup /\ NoteFill
  \/ (ReadForWarmup \/ \E s \in Student : Submit(s)) /\ UNCHANGED history

HistorySpec == HistoryInit /\ [][HistoryNext]_allVars

-----------------------------------------------------------------------------
HistoryTypeOK ==
  /\ TypeOK
  /\ excess \in Counts /\ drift \in Counts /\ open \in Counts
  /\ late \in [ticks : SUBSET Tick, rows : SUBSET Key]

\* A class has at most one student too many for each seat that a stale write of
\* the seats has lost, that a newcomer or a second promotion has taken while a
\* drop hands it over, that was released twice for one row, or that a failure
\* has kept a promoted student from taking.  Nothing else overbooks it: ticks
\* that overlap, a restart between the seat and the row, a second ticket.
NoOverbooking ==
  \A o \in Offering : Cardinality(Registered(o)) <= Capacity[o] + excess[o]

Resting ==
  /\ \A w \in Tick : job[w] = IdleJob
  /\ \A d \in DropCall : drop[d] = IdleDrop

\* Between sessions enrolledCount and the seats in Redis are both the number of
\* registered students, up to the steps that put them at odds: a stale write of
\* the seats, a row registered or dropped twice, a session that failed half way.
CountersAgree ==
  Resting =>
    \A o \in Offering :
      /\ Gap(count[o], Cardinality(Registered(o))) <= drift[o]
      /\ Gap(seats[o], Cardinality(Registered(o))) <= drift[o]

\* Two waiters of a class have the same place only when one of them had drawn its
\* number before a drop shifted the line and wrote it afterwards; and nobody has
\* a place beyond the counter, so a newcomer is behind everyone.
WaitersInLine ==
  \A o \in Offering : \A s \in Waiting(o) :
    /\ place[<<s, o>>] <= wl[o]
    /\ \A t \in Waiting(o) \ {s} :
         place[<<s, o>>] = place[<<t, o>>] => {<<s, o>>, <<t, o>>} \intersect late.rows # {}

\* While somebody waits for a class, a newcomer finds a free seat only if a drop
\* is handing it over, or the seat was left open: by a stale write of the seats,
\* by a drop that failed, by a drop that looked for a waiter before the tick that
\* found the class full had written its row.
SeatsKeptForWaiters ==
  \A o \in Offering :
    Waiting(o) # {} => Capacity[o] <= seats[o] + Cardinality(DropsAt(o, Handing)) + open[o]
=============================================================================
