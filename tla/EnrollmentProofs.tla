--------------------------- MODULE EnrollmentProofs ---------------------------
(***************************************************************************)
(* Theorems of Enrollment with its history, for every behaviour, any         *)
(* students, offerings, capacities, and any number of overlapping ticks and  *)
(* drops: types, what the overlaps may cost a class's capacity and its two   *)
(* counters, the waiting line, and the seats of those who wait.              *)
(***************************************************************************)
EXTENDS EnrollmentRaces, FiniteSetTheorems, TLAPS

AtOffering == {"place", "register", "wait", "count"}

\* What a tick and a drop keep in their locals.
TickOK(x) ==
  /\ x.pc = "idle" => x = IdleJob
  /\ x.pc # "idle" => x.who \in Student
  /\ x.pc \in AtOffering => x.at \in x.todo

DropOK(z) ==
  /\ z.pc = "idle" => z = IdleDrop
  /\ z.pc # "idle" => z.at \in Offering /\ z.who \in Student
  /\ z.pc = "promote" => z.first \in Student

\* The locals of the sessions.
LocalsOK == (\A w \in Tick : TickOK(job[w])) /\ (\A d \in DropCall : DropOK(drop[d]))

-----------------------------------------------------------------------------
(* What a step makes of the locals of its session.                           *)

JobLocals == [pc : TickPc, who : Student \union {NoStudent}, todo : SUBSET Offering,
           at : Offering \union {NoOffering}, place : Nat, counts : Counts]
DropLocals == [pc : DropPc, who : Student \union {NoStudent}, at : Offering \union {NoOffering},
            first : Student \union {NoStudent}, taken : Nat]
WarmupLocals == [pc : {"idle", "fill"}, counts : Counts]

JobIs(w, x) == x \in JobLocals /\ job' = [job EXCEPT ![w] = x]
DropIs(d, z) == z \in DropLocals /\ drop' = [drop EXCEPT ![d] = z]

\* The sessions by their rows.
LEMMA Typed ==
  ASSUME TypeOK
  PROVE  job \in [Tick -> JobLocals] /\ drop \in [DropCall -> DropLocals] /\ warmup \in WarmupLocals
BY DEF TypeOK, JobLocals, DropLocals, WarmupLocals

\* Sessions at rest.
LEMMA IdleRows ==
  /\ NoCounts \in Counts /\ \A o \in Offering : NoCounts[o] = 0
  /\ IdleJob \in JobLocals /\ IdleJob.pc = "idle" /\ IdleJob.at = NoOffering /\ IdleJob.who = NoStudent /\ IdleJob.todo = {}
  /\ IdleDrop \in DropLocals /\ IdleDrop.pc = "idle" /\ IdleDrop.at = NoOffering
  /\ IdleWarmup \in WarmupLocals /\ IdleWarmup.pc = "idle"
  /\ TickOK(IdleJob) /\ DropOK(IdleDrop)
<1>1. NoCounts \in Counts /\ \A o \in Offering : NoCounts[o] = 0
  BY DEF NoCounts, Counts
<1>2. "idle" \in TickPc /\ "idle" \in DropPc
  BY DEF TickPc, DropPc
<1>3. IdleJob.pc = "idle" /\ IdleJob.at = NoOffering /\ IdleJob.who = NoStudent /\ IdleJob.todo = {}
  BY DEF IdleJob
<1>4. IdleJob \in JobLocals
  BY <1>1, <1>2 DEF IdleJob, JobLocals
<1>5. IdleDrop \in DropLocals /\ IdleDrop.pc = "idle" /\ IdleDrop.at = NoOffering
  BY <1>2 DEF IdleDrop, DropLocals
<1>6. IdleWarmup \in WarmupLocals /\ IdleWarmup.pc = "idle"
  BY <1>1 DEF IdleWarmup, WarmupLocals
<1>7. "idle" \notin AtOffering
  BY DEF AtOffering
<1>8. TickOK(IdleJob)
  BY <1>3, <1>7 DEF TickOK
<1>9. DropOK(IdleDrop)
  BY <1>5, <1>7 DEF DropOK
<1> QED BY <1>1, <1>3, <1>4, <1>5, <1>6, <1>8, <1>9

\* A tick moves, the others stay.
LEMMA JobMoves ==
  ASSUME TypeOK, LocalsOK, NEW w \in Tick, NEW x, JobIs(w, x), TickOK(x)
  PROVE  /\ job' \in [Tick -> JobLocals] /\ job'[w] = x
         /\ \A v \in Tick : v # w => job'[v] = job[v]
         /\ \A v \in Tick : TickOK(job'[v])
<1>1. job' = [job EXCEPT ![w] = x] /\ x \in JobLocals /\ job \in [Tick -> JobLocals]
  BY Typed DEF JobIs
<1>2. \A v \in Tick : job'[v] = IF v = w THEN x ELSE job[v]
  BY <1>1
<1>3. job' \in [Tick -> JobLocals]
  BY <1>1
<1> QED BY <1>2, <1>3 DEF LocalsOK

\* A drop moves, the others stay.
LEMMA DropMoves ==
  ASSUME TypeOK, LocalsOK, NEW d \in DropCall, NEW z, DropIs(d, z), DropOK(z)
  PROVE  /\ drop' \in [DropCall -> DropLocals] /\ drop'[d] = z
         /\ \A e \in DropCall : e # d => drop'[e] = drop[e]
         /\ \A e \in DropCall : DropOK(drop'[e])
<1>1. drop' = [drop EXCEPT ![d] = z] /\ z \in DropLocals /\ drop \in [DropCall -> DropLocals]
  BY Typed DEF DropIs
<1>2. \A e \in DropCall : drop'[e] = IF e = d THEN z ELSE drop[e]
  BY <1>1
<1>3. drop' \in [DropCall -> DropLocals]
  BY <1>1
<1> QED BY <1>2, <1>3 DEF LocalsOK

\* A tick takes a ticket.
LEMMA PopShape ==
  ASSUME TypeOK, NEW w \in Tick, Pop(w)
  PROVE  \E z : /\ JobIs(w, z)
                /\ z.pc = "read" /\ z.who = Head(queue) /\ z.todo = job[w].todo
                /\ z.at = job[w].at /\ z.place = job[w].place /\ z.counts = job[w].counts
<1> DEFINE y == job[w]
           h == Head(queue)
           z == [y EXCEPT !.pc = "read", !.who = h]
<1>1. y \in JobLocals /\ "read" \in TickPc
  BY Typed DEF TickPc, DropPc
<1>2. h \in Student
  BY DEF TypeOK, Pop
<1>3. job' = [job EXCEPT ![w] = z]
  BY DEF Pop
<1> HIDE DEF y, h
<1>4. /\ z \in JobLocals /\ z.pc = "read" /\ z.who = h /\ z.todo = y.todo
     /\ z.at = y.at /\ z.place = y.place /\ z.counts = y.counts
  BY <1>1, <1>2 DEF JobLocals
<1> HIDE DEF z
<1> QED BY <1>3, <1>4 DEF JobIs, y, h

\* A tick has read the cart.
LEMMA ReadCartShape ==
  ASSUME TypeOK, NEW w \in Tick, NEW todo \in SUBSET Offering,
         job' = [job EXCEPT ![w] = [@ EXCEPT !.pc = "warm?", !.todo = todo]]
  PROVE  \E z : /\ JobIs(w, z)
                /\ z.pc = "warm?" /\ z.who = job[w].who /\ z.todo = todo
                /\ z.at = job[w].at /\ z.place = job[w].place /\ z.counts = job[w].counts
<1> DEFINE y == job[w]
           z == [y EXCEPT !.pc = "warm?", !.todo = todo]
<1>1. y \in JobLocals /\ "warm?" \in TickPc
  BY Typed DEF TickPc, DropPc
<1>2. todo \in SUBSET Offering
  OBVIOUS
<1>3. job' = [job EXCEPT ![w] = z]
  OBVIOUS
<1> HIDE DEF y
<1>4. /\ z \in JobLocals /\ z.pc = "warm?" /\ z.who = y.who /\ z.todo = todo
     /\ z.at = y.at /\ z.place = y.place /\ z.counts = y.counts
  BY <1>1, <1>2 DEF JobLocals
<1> HIDE DEF z
<1> QED BY <1>3, <1>4 DEF JobIs, y

\* A tick goes to its next statement.
LEMMA GoShape ==
  ASSUME TypeOK, NEW w \in Tick, NEW pc \in TickPc, Go(w, pc)
  PROVE  \E z : /\ JobIs(w, z)
                /\ z.pc = pc /\ z.who = job[w].who /\ z.todo = job[w].todo
                /\ z.at = job[w].at /\ z.place = job[w].place /\ z.counts = job[w].counts
<1> DEFINE y == job[w]
           z == [y EXCEPT !.pc = pc]
<1>1. y \in JobLocals
  BY Typed DEF TickPc, DropPc
<1>2. pc \in TickPc
  OBVIOUS
<1>3. job' = [job EXCEPT ![w] = z]
  BY DEF Go
<1> HIDE DEF y
<1>4. /\ z \in JobLocals /\ z.pc = pc /\ z.who = y.who /\ z.todo = y.todo
     /\ z.at = y.at /\ z.place = y.place /\ z.counts = y.counts
  BY <1>1, <1>2 DEF JobLocals
<1> HIDE DEF z
<1> QED BY <1>3, <1>4 DEF JobIs, y

\* A tick has read the counts.
LEMMA ReadCountsShape ==
  ASSUME TypeOK, NEW w \in Tick, ReadCounts(w)
  PROVE  \E z : /\ JobIs(w, z)
                /\ z.pc = "fill" /\ z.who = job[w].who /\ z.todo = job[w].todo
                /\ z.at = job[w].at /\ z.place = job[w].place /\ z.counts = count
<1> DEFINE y == job[w]
           c == count
           z == [y EXCEPT !.pc = "fill", !.counts = c]
<1>1. y \in JobLocals /\ "fill" \in TickPc
  BY Typed DEF TickPc, DropPc
<1>2. c \in Counts
  BY DEF TypeOK
<1>3. job' = [job EXCEPT ![w] = z]
  BY DEF ReadCounts
<1> HIDE DEF y, c
<1>4. /\ z \in JobLocals /\ z.pc = "fill" /\ z.who = y.who /\ z.todo = y.todo
     /\ z.at = y.at /\ z.place = y.place /\ z.counts = c
  BY <1>1, <1>2 DEF JobLocals
<1> HIDE DEF z
<1> QED BY <1>3, <1>4 DEF JobIs, y, c

\* A tick has filled the seats.
LEMMA FillSeatsShape ==
  ASSUME TypeOK, NEW w \in Tick, FillSeats(w)
  PROVE  \E z : /\ JobIs(w, z)
                /\ z.pc = "seat" /\ z.who = job[w].who /\ z.todo = job[w].todo
                /\ z.at = job[w].at /\ z.place = job[w].place /\ z.counts = NoCounts
<1> DEFINE y == job[w]
           z == [y EXCEPT !.pc = "seat", !.counts = NoCounts]
<1>1. y \in JobLocals /\ "seat" \in TickPc
  BY Typed DEF TickPc, DropPc
<1>2. NoCounts \in Counts
  BY IdleRows
<1>3. job' = [job EXCEPT ![w] = z]
  BY DEF FillSeats
<1> HIDE DEF y
<1>4. /\ z \in JobLocals /\ z.pc = "seat" /\ z.who = y.who /\ z.todo = y.todo
     /\ z.at = y.at /\ z.place = y.place /\ z.counts = NoCounts
  BY <1>1, <1>2 DEF JobLocals
<1> HIDE DEF z
<1> QED BY <1>3, <1>4 DEF JobIs, y

\* A tick has a seat.
LEMMA TakeSeatShape ==
  ASSUME TypeOK, NEW w \in Tick, NEW o \in Offering, TakeSeat(w, o)
  PROVE  \E z : /\ JobIs(w, z)
                /\ z.pc = "register" /\ z.who = job[w].who /\ z.todo = job[w].todo
                /\ z.at = o /\ z.place = job[w].place /\ z.counts = job[w].counts
<1> DEFINE y == job[w]
           z == [y EXCEPT !.pc = "register", !.at = o]
<1>1. y \in JobLocals /\ "register" \in TickPc
  BY Typed DEF TickPc, DropPc
<1>2. o \in Offering
  OBVIOUS
<1>3. job' = [job EXCEPT ![w] = z]
  BY DEF TakeSeat
<1> HIDE DEF y
<1>4. /\ z \in JobLocals /\ z.pc = "register" /\ z.who = y.who /\ z.todo = y.todo
     /\ z.at = o /\ z.place = y.place /\ z.counts = y.counts
  BY <1>1, <1>2 DEF JobLocals
<1> HIDE DEF z
<1> QED BY <1>3, <1>4 DEF JobIs, y

\* The offering a tick is at.
LEMMA AtOf ==
  ASSUME TypeOK, LocalsOK, NEW w \in Tick, job[w].pc \in AtOffering
  PROVE  job[w].at \in job[w].todo /\ job[w].at \in Offering /\ job[w].who \in Student
<1>1. job[w] \in JobLocals /\ TickOK(job[w])
  BY Typed DEF LocalsOK
<1>2. job[w].todo \subseteq Offering /\ job[w].pc # "idle"
  BY <1>1 DEF JobLocals, AtOffering
<1> QED BY <1>1, <1>2 DEF TickOK

\* A tick has a place in the line.
LEMMA TakePlaceShape ==
  ASSUME TypeOK, NEW w \in Tick, LocalsOK, TakePlace(w)
  PROVE  \E z : /\ JobIs(w, z)
                /\ z.pc = "wait" /\ z.who = job[w].who /\ z.todo = job[w].todo
                /\ z.at = job[w].at /\ z.place = wl[job[w].at] + 1 /\ z.counts = job[w].counts
<1> DEFINE y == job[w]
           n == wl[job[w].at] + 1
           z == [y EXCEPT !.pc = "wait", !.place = n]
<1>1. y \in JobLocals /\ "wait" \in TickPc
  BY Typed DEF TickPc, DropPc
<1>2. n \in Nat
  BY AtOf, "place" \in AtOffering DEF TypeOK, Counts, TakePlace, AtOffering
<1>3. job' = [job EXCEPT ![w] = z]
  BY DEF TakePlace
<1> HIDE DEF y, n
<1>4. /\ z \in JobLocals /\ z.pc = "wait" /\ z.who = y.who /\ z.todo = y.todo
     /\ z.at = y.at /\ z.place = n /\ z.counts = y.counts
  BY <1>1, <1>2 DEF JobLocals
<1> HIDE DEF z
<1> QED BY <1>3, <1>4 DEF JobIs, y, n

\* The tick's next offering, or its end.
LEMMA WithoutShape ==
  ASSUME TypeOK, LocalsOK, NEW w \in Tick, NEW o, job[w].pc # "idle"
  PROVE  /\ Without(w, o) \in JobLocals /\ TickOK(Without(w, o))
         /\ Without(w, o).pc \in {"idle", "seat"} /\ Without(w, o).at = NoOffering
<1> DEFINE i == IdleJob
           h == job[w].who
           left == job[w].todo \ {o}
           z == [i EXCEPT !.pc = "seat", !.who = h, !.todo = left]
<1>1. i \in JobLocals /\ i.pc = "idle" /\ i.at = NoOffering /\ TickOK(i) /\ "seat" \in TickPc
  BY IdleRows DEF TickPc
<1>2. h \in Student /\ left \subseteq Offering
  BY Typed DEF JobLocals, LocalsOK, TickOK
<1>3. Without(w, o) = IF left = {} THEN i ELSE z
  BY DEF Without
<1> HIDE DEF i, h, left
<1>4. z \in JobLocals /\ z.pc = "seat" /\ z.who = h /\ z.at = NoOffering
  BY <1>1, <1>2 DEF JobLocals
<1>5. TickOK(z)
  BY <1>2, <1>4 DEF TickOK, AtOffering
<1> HIDE DEF z
<1> QED BY <1>1, <1>3, <1>4, <1>5

\* A tick finds a class full.
LEMMA FindFullShape ==
  ASSUME TypeOK, LocalsOK, NEW w \in Tick, NEW o \in Offering, FindFull(w, o)
  PROVE  \E z : /\ JobIs(w, z) /\ TickOK(z)
                /\ \/ z.pc = "place" /\ z.at = o
                   \/ z.pc \in {"idle", "seat"}
<1> DEFINE y == job[w]
           z == [y EXCEPT !.pc = "place", !.at = o]
<1>1. y \in JobLocals /\ TickOK(y) /\ y.pc = "seat" /\ o \in y.todo /\ "place" \in TickPc
  BY Typed DEF TickPc, LocalsOK, FindFull
<1>2. job' = [job EXCEPT ![w] = IF o \in HasWaitlist THEN z ELSE Without(w, o)]
  BY DEF FindFull
<1>3. Without(w, o) \in JobLocals /\ TickOK(Without(w, o)) /\ Without(w, o).pc \in {"idle", "seat"}
  BY <1>1, WithoutShape
<1> HIDE DEF y
<1>4. z \in JobLocals /\ z.pc = "place" /\ z.at = o /\ z.who = y.who /\ z.todo = y.todo
  BY <1>1 DEF JobLocals
<1>5. TickOK(z)
  BY <1>1, <1>4 DEF TickOK
<1> HIDE DEF z
<1>6. CASE o \in HasWaitlist
  <2>1. JobIs(w, z)
    BY <1>2, <1>4, <1>6 DEF JobIs
  <2> QED BY <2>1, <1>4, <1>5
<1>7. CASE o \notin HasWaitlist
  <2>1. JobIs(w, Without(w, o))
    BY <1>2, <1>3, <1>7 DEF JobIs
  <2> QED BY <2>1, <1>3
<1> QED BY <1>6, <1>7

DropTo(d, pc) == drop' = [drop EXCEPT ![d].pc = pc]
DropTaking(d, pc, n) == drop' = [drop EXCEPT ![d].pc = pc, ![d].taken = n]
DropWith(d, pc, f) == drop' = [drop EXCEPT ![d].pc = pc, ![d].first = f]

\* A drop goes to its next statement.
LEMMA DropGoes ==
  ASSUME TypeOK, NEW d \in DropCall, NEW pc \in DropPc, DropTo(d, pc)
  PROVE  \E z : /\ DropIs(d, z) /\ z.pc = pc /\ z.who = drop[d].who /\ z.at = drop[d].at
                /\ z.first = drop[d].first /\ z.taken = drop[d].taken
<1> DEFINE y == drop[d]
           z == [y EXCEPT !.pc = pc]
<1>1. y \in DropLocals
  BY Typed
<1>2. drop' = [drop EXCEPT ![d] = z]
  BY DEF DropTo
<1> HIDE DEF y
<1>3. /\ z \in DropLocals /\ z.pc = pc /\ z.who = y.who /\ z.at = y.at
      /\ z.first = y.first /\ z.taken = y.taken
  BY <1>1 DEF DropLocals
<1> HIDE DEF z
<1> QED BY <1>2, <1>3 DEF DropIs, y

\* The same with the seats it has read.
LEMMA DropGoesTaking ==
  ASSUME TypeOK, NEW d \in DropCall, NEW pc \in DropPc, NEW n \in Nat,
         DropTaking(d, pc, n)
  PROVE  \E z : /\ DropIs(d, z) /\ z.pc = pc /\ z.who = drop[d].who /\ z.at = drop[d].at
                /\ z.first = drop[d].first /\ z.taken = n
<1> DEFINE y == drop[d]
           z == [y EXCEPT !.pc = pc, !.taken = n]
<1>1. y \in DropLocals
  BY Typed
<1>2. drop' = [drop EXCEPT ![d] = z]
  BY DEF DropTaking
<1> HIDE DEF y
<1>3. /\ z \in DropLocals /\ z.pc = pc /\ z.who = y.who /\ z.at = y.at
      /\ z.first = y.first /\ z.taken = n
  BY <1>1 DEF DropLocals
<1> HIDE DEF z
<1> QED BY <1>2, <1>3 DEF DropIs, y

\* The same with the waiter it has found, or none any more.
LEMMA DropGoesWith ==
  ASSUME TypeOK, NEW d \in DropCall, NEW pc \in DropPc, NEW f \in Student \union {NoStudent},
         DropWith(d, pc, f)
  PROVE  \E z : /\ DropIs(d, z) /\ z.pc = pc /\ z.who = drop[d].who /\ z.at = drop[d].at
                /\ z.first = f
<1> DEFINE y == drop[d]
           z == [y EXCEPT !.pc = pc, !.first = f]
<1>1. y \in DropLocals
  BY Typed
<1>2. drop' = [drop EXCEPT ![d] = z]
  BY DEF DropWith
<1> HIDE DEF y
<1>3. z \in DropLocals /\ z.pc = pc /\ z.who = y.who /\ z.at = y.at /\ z.first = f
  BY <1>1 DEF DropLocals
<1> HIDE DEF z
<1> QED BY <1>2, <1>3 DEF DropIs, y

\* A drop under way has an offering and a student.
LEMMA DropAt ==
  ASSUME LocalsOK, NEW d \in DropCall, drop[d].pc # "idle"
  PROVE  drop[d].at \in Offering /\ drop[d].who \in Student
BY DEF LocalsOK, DropOK

\* A drop that goes on with the same class and student keeps its locals in order.
LEMMA GoesOK ==
  ASSUME LocalsOK, NEW d \in DropCall, drop[d].pc # "idle",
         NEW z, z.pc \notin {"idle", "promote"}, z.at = drop[d].at, z.who = drop[d].who
  PROVE  DropOK(z)
BY DropAt DEF DropOK

\* A row is dropped.
LEMMA DropRowForm ==
  ASSUME TypeOK, LocalsOK, NEW d \in DropCall, DropRow(d)
  PROVE  /\ drop[d].pc = "drop" /\ drop[d].at \in Offering /\ drop[d].who \in Student
         /\ \E z : DropIs(d, z) /\ DropOK(z) /\ z.pc = "uncount" /\ z.at = drop[d].at
<1>1. drop[d].pc = "drop" /\ drop[d].at \in Offering /\ drop[d].who \in Student
  BY DropAt DEF DropRow
<1>2. PICK z : DropIs(d, z) /\ z.pc = "uncount" /\ z.at = drop[d].at /\ z.who = drop[d].who
  <2>1. "uncount" \in DropPc
    BY DEF DropPc
  <2>2. DropTo(d, "uncount")
    BY DEF DropRow, DropTo, DropTaking, DropWith
  <2> QED BY <2>1, <2>2, DropGoes
<1>3. DropOK(z)
  BY <1>1, <1>2, GoesOK
<1> QED BY <1>1, <1>2, <1>3

\* The count goes down.
LEMMA TakeFromCountForm ==
  ASSUME TypeOK, LocalsOK, NEW d \in DropCall, TakeFromCount(d)
  PROVE  /\ drop[d].pc = "uncount" /\ drop[d].at \in Offering /\ drop[d].who \in Student
         /\ \E z : DropIs(d, z) /\ DropOK(z) /\ z.pc = "get" /\ z.at = drop[d].at
<1>1. drop[d].pc = "uncount" /\ drop[d].at \in Offering /\ drop[d].who \in Student
  BY DropAt DEF TakeFromCount
<1>2. PICK z : DropIs(d, z) /\ z.pc = "get" /\ z.at = drop[d].at /\ z.who = drop[d].who
  <2>1. "get" \in DropPc
    BY DEF DropPc
  <2>2. DropTo(d, "get")
    BY DEF TakeFromCount, DropTo, DropTaking, DropWith
  <2> QED BY <2>1, <2>2, DropGoes
<1>3. DropOK(z)
  BY <1>1, <1>2, GoesOK
<1> QED BY <1>1, <1>2, <1>3

\* The line is shifted.
LEMMA ShiftWaitersForm ==
  ASSUME TypeOK, LocalsOK, NEW d \in DropCall, ShiftWaiters(d)
  PROVE  /\ drop[d].pc = "shift" /\ drop[d].at \in Offering /\ drop[d].who \in Student
         /\ \E z : DropIs(d, z) /\ DropOK(z) /\ z.pc = "recount" /\ z.at = drop[d].at
<1>1. drop[d].pc = "shift" /\ drop[d].at \in Offering /\ drop[d].who \in Student
  BY DropAt DEF ShiftWaiters
<1>2. PICK z : DropIs(d, z) /\ z.pc = "recount" /\ z.at = drop[d].at /\ z.who = drop[d].who
  <2>1. "recount" \in DropPc
    BY DEF DropPc
  <2>2. DropTo(d, "recount")
    BY DEF ShiftWaiters, DropTo, DropTaking, DropWith
  <2> QED BY <2>1, <2>2, DropGoes
<1>3. DropOK(z)
  BY <1>1, <1>2, GoesOK
<1> QED BY <1>1, <1>2, <1>3

\* The promoted student is counted.
LEMMA CountPromotedForm ==
  ASSUME TypeOK, LocalsOK, NEW d \in DropCall, CountPromoted(d)
  PROVE  /\ drop[d].pc = "recount" /\ drop[d].at \in Offering /\ drop[d].who \in Student
         /\ \E z : DropIs(d, z) /\ DropOK(z) /\ z.pc = "again" /\ z.at = drop[d].at
<1>1. drop[d].pc = "recount" /\ drop[d].at \in Offering /\ drop[d].who \in Student
  BY DropAt DEF CountPromoted
<1> DEFINE p == "again"
<1>2. PICK z : DropIs(d, z) /\ z.pc = p /\ z.at = drop[d].at /\ z.who = drop[d].who
  <2>1. p \in DropPc
    BY DEF DropPc
  <2>2. DropTo(d, p)
    BY DEF CountPromoted, DropTo
  <2> HIDE DEF p
  <2> QED BY <2>1, <2>2, DropGoes
<1>3. DropOK(z)
  BY <1>1, <1>2, GoesOK
<1> QED BY <1>1, <1>2, <1>3

\* The seat is released.
LEMMA ReleaseSeatForm ==
  ASSUME TypeOK, LocalsOK, NEW d \in DropCall, ReleaseSeat(d)
  PROVE  /\ drop[d].pc = "release" /\ drop[d].at \in Offering /\ drop[d].who \in Student
         /\ \E z : DropIs(d, z) /\ DropOK(z) /\ z.pc = "select" /\ z.at = drop[d].at
<1>1. drop[d].pc = "release" /\ drop[d].at \in Offering /\ drop[d].who \in Student
  BY DropAt DEF ReleaseSeat
<1>2. PICK z : DropIs(d, z) /\ z.pc = "select" /\ z.at = drop[d].at /\ z.who = drop[d].who
  <2>1. "select" \in DropPc /\ 0 \in Nat
    BY DEF DropPc
  <2>2. DropTaking(d, "select", 0)
    BY DEF ReleaseSeat, DropTo, DropTaking, DropWith
  <2> QED BY <2>1, <2>2, DropGoesTaking
<1>3. DropOK(z)
  BY <1>1, <1>2, GoesOK
<1> QED BY <1>1, <1>2, <1>3

\* The waiter is promoted.
LEMMA PromoteForm ==
  ASSUME TypeOK, LocalsOK, NEW d \in DropCall, Promote(d)
  PROVE  /\ drop[d].pc = "promote" /\ drop[d].at \in Offering /\ drop[d].who \in Student
         /\ \E z : DropIs(d, z) /\ DropOK(z) /\ z.pc = "shift" /\ z.at = drop[d].at
<1>1. drop[d].pc = "promote" /\ drop[d].at \in Offering /\ drop[d].who \in Student
  BY DropAt DEF Promote
<1>2. PICK z : DropIs(d, z) /\ z.pc = "shift" /\ z.at = drop[d].at /\ z.who = drop[d].who
  <2>1. "shift" \in DropPc /\ NoStudent \in Student \union {NoStudent}
    BY DEF DropPc
  <2>2. DropWith(d, "shift", NoStudent)
    BY DEF Promote, DropTo, DropTaking, DropWith
  <2> QED BY <2>1, <2>2, DropGoesWith
<1>3. DropOK(z)
  BY <1>1, <1>2, GoesOK
<1> QED BY <1>1, <1>2, <1>3

\* The waiter of a promotion.
LEMMA FirstOf ==
  ASSUME LocalsOK, NEW d \in DropCall, drop[d].pc = "promote"
  PROVE  drop[d].first \in Student
BY DEF LocalsOK, DropOK

\* A drop starts.
LEMMA StartDropForm ==
  ASSUME TypeOK, LocalsOK, NEW d \in DropCall, NEW s \in Student, NEW o \in Offering,
         StartDrop(d, s, o)
  PROVE  \E z : DropIs(d, z) /\ DropOK(z) /\ z.pc = "drop" /\ z.at = o
<1> DEFINE y == drop[d]
           z == [y EXCEPT !.pc = "drop", !.who = s, !.at = o]
<1>1. y \in DropLocals /\ "drop" \in DropPc
  BY Typed DEF DropPc
<1>2. drop' = [drop EXCEPT ![d] = z]
  BY DEF StartDrop
<1> HIDE DEF y
<1>3. z \in DropLocals /\ z.pc = "drop" /\ z.who = s /\ z.at = o
  BY <1>1 DEF DropLocals
<1>4. DropOK(z)
  BY <1>3 DEF DropOK
<1> HIDE DEF z
<1> QED BY <1>2, <1>3, <1>4 DEF DropIs

\* A drop reads the seats; before the seats are filled it goes on without them.
LEMMA GetSeatsForm ==
  ASSUME TypeOK, LocalsOK, NEW d \in DropCall, GetSeats(d)
  PROVE  /\ drop[d].at \in Offering
         /\ \E z : /\ DropIs(d, z) /\ DropOK(z)
                   /\ \/ /\ drop[d].pc = "get" /\ z.at = drop[d].at
                         /\ z.pc = IF warm THEN "release" ELSE "select"
                      \/ warm /\ drop[d].pc = "again" /\ z.pc = "retake" /\ z.at = drop[d].at
                      \/ ~warm /\ drop[d].pc = "again" /\ z = IdleDrop
<1> DEFINE n == seats[drop[d].at]
           p == IF warm THEN "release" ELSE "select"
<1>1. drop[d].pc \in {"get", "again"} /\ drop[d].at \in Offering /\ drop[d].pc # "idle"
  BY DropAt DEF GetSeats
<1>2. n \in Nat /\ p \in DropPc /\ "retake" \in DropPc
  BY <1>1 DEF TypeOK, Counts, DropPc
<1>3. CASE drop[d].pc = "get"
  <2>1. DropTaking(d, p, n)
    BY <1>3 DEF GetSeats, DropTaking
  <2> HIDE DEF n, p
  <2>2. PICK z : DropIs(d, z) /\ z.pc = p /\ z.at = drop[d].at /\ z.who = drop[d].who
    BY <1>2, <2>1, DropGoesTaking
  <2>3. p \notin {"idle", "promote"}
    BY DEF p
  <2>4. DropOK(z)
    BY <1>1, <2>2, <2>3, GoesOK
  <2> QED BY <1>1, <1>3, <2>2, <2>4 DEF p
<1>4. CASE drop[d].pc = "again" /\ warm
  <2>1. DropTaking(d, "retake", n)
    BY <1>4 DEF GetSeats, DropTaking
  <2> HIDE DEF n
  <2>2. PICK z : DropIs(d, z) /\ z.pc = "retake" /\ z.at = drop[d].at /\ z.who = drop[d].who
    BY <1>2, <2>1, DropGoesTaking
  <2>3. DropOK(z)
    BY <1>1, <2>2, GoesOK
  <2> QED BY <1>1, <1>4, <2>2, <2>3
<1>5. CASE drop[d].pc = "again" /\ ~warm
  <2>1. DropIs(d, IdleDrop) /\ DropOK(IdleDrop)
    BY <1>5, IdleRows DEF GetSeats, DropIs
  <2> QED BY <1>1, <1>5, <2>1
<1> QED BY <1>1, <1>3, <1>4, <1>5

\* A drop looks for the first waiter.
LEMMA SelectWaiterForm ==
  ASSUME TypeOK, LocalsOK, NEW d \in DropCall, SelectWaiter(d)
  PROVE  /\ drop[d].pc = "select" /\ drop[d].at \in Offering
         /\ \E z : /\ DropIs(d, z) /\ DropOK(z)
                   /\ \/ Waiting(drop[d].at) = {} /\ z = IdleDrop
                      \/ z.pc = "promote" /\ z.at = drop[d].at
<1>1. drop[d].pc = "select" /\ drop[d].pc # "idle" /\ drop[d].at \in Offering /\ drop[d].who \in Student
  BY DropAt DEF SelectWaiter
<1>2. CASE Waiting(drop[d].at) = {} /\ drop' = [drop EXCEPT ![d] = IdleDrop]
  <2>1. DropIs(d, IdleDrop) /\ DropOK(IdleDrop)
    BY <1>2, IdleRows DEF DropIs
  <2> QED BY <1>1, <1>2, <2>1
<1>3. ASSUME NEW f \in FirstWaiter(drop[d].at),
             DropWith(d, "promote", f)
      PROVE  \E z : DropIs(d, z) /\ DropOK(z) /\ z.pc = "promote" /\ z.at = drop[d].at
  <2>1. f \in Student /\ "promote" \in DropPc
    BY DEF FirstWaiter, Waiting, DropPc
  <2>2. PICK z : DropIs(d, z) /\ z.pc = "promote" /\ z.at = drop[d].at /\ z.who = drop[d].who
                 /\ z.first = f
    BY <1>3, <2>1, DropGoesWith
  <2>3. DropOK(z)
    BY <1>1, <2>1, <2>2 DEF DropOK
  <2> QED BY <2>2, <2>3
<1> QED BY <1>1, <1>2, <1>3 DEF SelectWaiter, DropWith

\* The seat is taken again: the drop is done.
LEMMA RetakeSeatForm ==
  ASSUME TypeOK, LocalsOK, NEW d \in DropCall, RetakeSeat(d)
  PROVE  /\ drop[d].pc = "retake" /\ drop[d].at \in Offering
         /\ DropIs(d, IdleDrop) /\ DropOK(IdleDrop)
BY DropAt, IdleRows DEF RetakeSeat, DropIs

-----------------------------------------------------------------------------
(* Types and locals, in every behaviour.                                     *)

RowStatus == {"NONE", "REGISTERED", "WAITLISTED", "DROPPED"}

StoreOK ==
  /\ queue \in Seq(Student)
  /\ status \in [Key -> RowStatus] /\ place \in [Key -> Int]
  /\ count \in Counts /\ seats \in Counts /\ wl \in Counts
  /\ warm \in BOOLEAN /\ requests \in Nat /\ crashes \in Nat

\* The rows and the sessions make up the types.
LEMMA TypeParts ==
  TypeOK <=> /\ StoreOK /\ job \in [Tick -> JobLocals] /\ drop \in [DropCall -> DropLocals]
             /\ warmup \in WarmupLocals
BY DEF TypeOK, StoreOK, RowStatus, JobLocals, DropLocals, WarmupLocals

\* The same of the next state.
LEMMA TypePartsNext ==
  (TypeOK <=> /\ StoreOK /\ job \in [Tick -> JobLocals] /\ drop \in [DropCall -> DropLocals]
              /\ warmup \in WarmupLocals)'
BY TypeParts, PTL

\* What the rows of a step of a tick must show.
LEMMA TickTypes ==
  ASSUME TypeOK, LocalsOK, NEW w \in Tick, NEW z, JobIs(w, z), TickOK(z), StoreOK',
         UNCHANGED <<drop, warmup>>
  PROVE  TypeOK' /\ LocalsOK'
<1>1. job' \in [Tick -> JobLocals] /\ \A v \in Tick : TickOK(job'[v])
  BY JobMoves
<1>2. drop' \in [DropCall -> DropLocals] /\ warmup' \in WarmupLocals
  BY Typed
<1>3. TypeOK'
  BY <1>1, <1>2, TypePartsNext
<1>4. (\A w_1 \in Tick : TickOK(job[w_1]))'
  BY <1>1
<1>5. (\A d \in DropCall : DropOK(drop[d]))'
  BY DEF LocalsOK
<1> QED BY <1>3, <1>4, <1>5 DEF LocalsOK

\* What the rows of a step of a drop must show.
LEMMA DropTypes ==
  ASSUME TypeOK, LocalsOK, NEW d \in DropCall, NEW z, DropIs(d, z), DropOK(z), StoreOK',
         UNCHANGED <<job, warmup>>
  PROVE  TypeOK' /\ LocalsOK'
<1>1. drop' \in [DropCall -> DropLocals] /\ \A e \in DropCall : DropOK(drop'[e])
  BY DropMoves
<1>2. job' \in [Tick -> JobLocals] /\ warmup' \in WarmupLocals
  BY Typed
<1>3. TypeOK'
  BY <1>1, <1>2, TypePartsNext
<1>4. (\A e \in DropCall : DropOK(drop[e]))'
  BY <1>1
<1>5. (\A w \in Tick : TickOK(job[w]))'
  BY DEF LocalsOK
<1> QED BY <1>3, <1>4, <1>5 DEF LocalsOK

\* The rows when a step leaves them.
LEMMA StoreStays ==
  ASSUME TypeOK, UNCHANGED <<rows, redis>>, requests' \in Nat, crashes' \in Nat
  PROVE  StoreOK'
BY TypeParts DEF StoreOK, rows, redis

\* A tick at a statement that needs no offering.
LEMMA NoOfferingOK ==
  ASSUME NEW z, z.pc \in {"read", "warm?", "counts", "fill", "seat"}, z.who \in Student
  PROVE  TickOK(z)
<1>1. z.pc # "idle" /\ z.pc \notin AtOffering
  BY DEF AtOffering
<1> QED BY <1>1 DEF TickOK

\* The student of a tick under way.
LEMMA WhoOf ==
  ASSUME LocalsOK, NEW w \in Tick, job[w].pc # "idle"
  PROVE  job[w].who \in Student
BY DEF LocalsOK, TickOK

\* A tick that goes on with the next offering keeps its types.
LEMMA NextOfferingTypes ==
  ASSUME TypeOK, LocalsOK, NEW w \in Tick, job[w].pc \in AtOffering, NextOffering(w),
         StoreOK', UNCHANGED <<drop, warmup>>
  PROVE  TypeOK' /\ LocalsOK'
<1>1. JobIs(w, Without(w, job[w].at)) /\ TickOK(Without(w, job[w].at))
  BY WithoutShape DEF NextOffering, AtOffering, JobIs
<1> QED BY <1>1, TickTypes

\* Every statement of a tick keeps types and locals.
LEMMA ProcessTypes ==
  ASSUME TypeOK, LocalsOK, NEW w \in Tick, Process(w)
  PROVE  TypeOK' /\ LocalsOK'
<1>0. StoreOK
  BY TypeParts
<1>1. CASE Pop(w)
  <2>1. Head(queue) \in Student /\ Tail(queue) \in Seq(Student)
    BY <1>0, <1>1 DEF Pop, StoreOK, bounds
  <2>2. StoreOK' /\ UNCHANGED <<drop, warmup>>
    BY <1>0, <1>1, <2>1 DEF Pop, StoreOK, bounds, rows
  <2>3. PICK z : JobIs(w, z) /\ z.pc = "read" /\ z.who = Head(queue)
    BY <1>1, PopShape
  <2> QED BY <2>1, <2>2, <2>3, NoOfferingOK, TickTypes
<1>2. CASE ReadCart(w)
  <2>1. StoreOK' /\ UNCHANGED <<drop, warmup>> /\ job[w].pc = "read"
    BY <1>2, StoreStays, <1>0 DEF ReadCart, StoreOK, bounds
  <2>2. PICK todo \in SUBSET Offering :
          job' = [job EXCEPT ![w] = IF todo = {} THEN IdleJob
                                    ELSE [@ EXCEPT !.pc = "warm?", !.todo = todo]]
    BY <1>2 DEF ReadCart
  <2>3. CASE todo = {}
    BY <2>1, <2>2, <2>3, IdleRows, TickTypes DEF JobIs
  <2>4. CASE todo # {}
    <3>1. PICK z : JobIs(w, z) /\ z.pc = "warm?" /\ z.who = job[w].who
      BY <2>2, <2>4, ReadCartShape
    <3> QED BY <2>1, <3>1, WhoOf, NoOfferingOK, TickTypes
  <2> QED BY <2>3, <2>4
<1>3. CASE CheckWarm(w)
  <2>1. StoreOK' /\ UNCHANGED <<drop, warmup>> /\ job[w].pc = "warm?"
    BY <1>3, StoreStays, <1>0 DEF CheckWarm, StoreOK, bounds
  <2>2. PICK pc \in {"seat", "counts"} : Go(w, pc)
    BY <1>3 DEF CheckWarm
  <2>3. pc \in TickPc
    BY DEF TickPc
  <2>4. PICK z : JobIs(w, z) /\ z.pc = pc /\ z.who = job[w].who
    BY <2>2, <2>3, GoShape
  <2> QED BY <2>1, <2>4, WhoOf, NoOfferingOK, TickTypes
<1>4. CASE ReadCounts(w)
  <2>1. StoreOK' /\ UNCHANGED <<drop, warmup>> /\ job[w].pc = "counts"
    BY <1>4, StoreStays, <1>0 DEF ReadCounts, StoreOK, bounds
  <2>2. PICK z : JobIs(w, z) /\ z.pc = "fill" /\ z.who = job[w].who
    BY <1>4, ReadCountsShape
  <2> QED BY <2>1, <2>2, WhoOf, NoOfferingOK, TickTypes
<1>5. CASE FillSeats(w)
  <2>1. job[w].counts \in Counts
    BY Typed DEF JobLocals
  <2>2. StoreOK' /\ UNCHANGED <<drop, warmup>> /\ job[w].pc = "fill"
    BY <1>0, <1>5, <2>1 DEF FillSeats, StoreOK, bounds, rows
  <2>3. PICK z : JobIs(w, z) /\ z.pc = "seat" /\ z.who = job[w].who
    BY <1>5, FillSeatsShape
  <2> QED BY <2>2, <2>3, WhoOf, NoOfferingOK, TickTypes
<1>6. ASSUME NEW o \in Offering, TakeSeat(w, o) PROVE TypeOK' /\ LocalsOK'
  <2>1. StoreOK' /\ UNCHANGED <<drop, warmup>> /\ job[w].pc = "seat" /\ o \in job[w].todo
    BY <1>0, <1>6 DEF TakeSeat, StoreOK, bounds, rows, Counts
  <2>2. PICK z : JobIs(w, z) /\ z.pc = "register" /\ z.who = job[w].who /\ z.todo = job[w].todo /\ z.at = o
    BY <1>6, TakeSeatShape
  <2>3. TickOK(z)
    BY <2>1, <2>2, WhoOf DEF TickOK
  <2> QED BY <2>1, <2>2, <2>3, TickTypes
<1>7. ASSUME NEW o \in Offering, FindFull(w, o) PROVE TypeOK' /\ LocalsOK'
  <2>1. StoreOK' /\ UNCHANGED <<drop, warmup>>
    BY <1>7, StoreStays, <1>0 DEF FindFull, StoreOK, bounds
  <2>2. PICK z : JobIs(w, z) /\ TickOK(z)
    BY <1>7, FindFullShape
  <2> QED BY <2>1, <2>2, TickTypes
<1>9. CASE TakePlace(w)
  <2>1. job[w].pc \in AtOffering /\ job[w].pc # "idle"
    BY <1>9 DEF TakePlace, AtOffering
  <2>2. job[w].at \in Offering /\ job[w].at \in job[w].todo /\ job[w].who \in Student
    BY <2>1, AtOf
  <2>3. StoreOK' /\ UNCHANGED <<drop, warmup>>
    BY <1>0, <1>9, <2>2 DEF TakePlace, StoreOK, bounds, rows, Counts
  <2>4. PICK z : JobIs(w, z) /\ z.pc = "wait" /\ z.who = job[w].who
                 /\ z.todo = job[w].todo /\ z.at = job[w].at
    BY <1>9, TakePlaceShape
  <2>5. TickOK(z)
    BY <2>2, <2>4 DEF TickOK
  <2> QED BY <2>3, <2>4, <2>5, TickTypes
<1>10. CASE WriteRow(w)
  <2> DEFINE k == <<job[w].who, job[w].at>>
  <2>1. job[w].pc \in {"register", "wait"} /\ job[w].pc \in AtOffering
    BY <1>10 DEF WriteRow, AtOffering
  <2>2. k \in Key /\ job[w].at \in job[w].todo /\ job[w].who \in Student
    BY <2>1, AtOf DEF Key
  <2>3. job[w].place \in Int /\ "REGISTERED" \in RowStatus /\ "WAITLISTED" \in RowStatus
    BY Typed DEF JobLocals, RowStatus
  <2>4. UNCHANGED <<count, redis, drop, warmup, bounds>>
    BY <1>10 DEF WriteRow
  <2>5. StoreOK'
    <3>1. PICK v \in RowStatus, n \in Int :
            status' = [status EXCEPT ![k] = v] /\ place' = [place EXCEPT ![k] = n]
      BY <1>10, <2>3 DEF WriteRow
    <3> HIDE DEF k
    <3>2. status' \in [Key -> RowStatus] /\ place' \in [Key -> Int]
      BY <1>0, <2>2, <3>1 DEF StoreOK, bounds
    <3> QED BY <1>0, <2>4, <3>2 DEF StoreOK, bounds, redis
  <2>6. CASE job[w].pc = "register"
    <3>1. Go(w, "count") /\ "count" \in TickPc
      BY <1>10, <2>6 DEF WriteRow, TickPc
    <3>2. PICK z : JobIs(w, z) /\ z.pc = "count" /\ z.who = job[w].who
                   /\ z.todo = job[w].todo /\ z.at = job[w].at
      BY <3>1, GoShape
    <3>3. TickOK(z)
      BY <2>2, <3>2 DEF TickOK
    <3> QED BY <2>4, <2>5, <3>2, <3>3, TickTypes
  <2>7. CASE job[w].pc = "wait"
    <3>1. NextOffering(w)
      BY <1>10, <2>7 DEF WriteRow
    <3> QED BY <2>1, <2>4, <2>5, <3>1, NextOfferingTypes
  <2> QED BY <2>1, <2>6, <2>7
<1>11. CASE AddToCount(w)
  <2>1. job[w].pc \in AtOffering /\ NextOffering(w) /\ UNCHANGED <<drop, warmup>>
    BY <1>11 DEF AddToCount, AtOffering
  <2>2. job[w].at \in Offering
    BY <2>1, AtOf
  <2>3. StoreOK'
    BY <1>0, <1>11, <2>2 DEF AddToCount, StoreOK, bounds, redis, Counts
  <2> QED BY <2>1, <2>3, NextOfferingTypes
<1> QED
  BY <1>1, <1>2, <1>3, <1>4, <1>5, <1>6, <1>7, <1>9, <1>10, <1>11 DEF Process


\* Every statement of a drop keeps types and locals.
LEMMA DropKeepsTypes ==
  ASSUME TypeOK, LocalsOK, NEW d \in DropCall, Drop(d)
  PROVE  TypeOK' /\ LocalsOK'
<1>0. StoreOK
  BY TypeParts
<1>1. ASSUME NEW s \in Student, NEW o \in Offering, StartDrop(d, s, o) PROVE TypeOK' /\ LocalsOK'
  <2>1. StoreOK' /\ UNCHANGED <<job, warmup>>
    BY <1>1, StoreStays, <1>0 DEF StartDrop, Requested, StoreOK
  <2> QED BY <1>1, <2>1, StartDropForm, DropTypes
<1>2. CASE DropRow(d)
  <2>1. drop[d].at \in Offering /\ drop[d].who \in Student
    BY <1>2, DropRowForm
  <2>2. <<drop[d].who, drop[d].at>> \in Key /\ "DROPPED" \in RowStatus
    BY <2>1 DEF Key, RowStatus
  <2>3. StoreOK' /\ UNCHANGED <<job, warmup>>
    BY <1>0, <1>2, <2>2 DEF DropRow, StoreOK, redis, bounds
  <2> QED BY <1>2, <2>3, DropRowForm, DropTypes
<1>3. CASE TakeFromCount(d)
  <2>1. drop[d].at \in Offering
    BY <1>3, TakeFromCountForm
  <2>2. count' = [count EXCEPT ![drop[d].at] = IF @ = 0 THEN 0 ELSE @ - 1]
    BY <1>3 DEF TakeFromCount
  <2>3. count' \in Counts
    BY <1>0, <2>1, <2>2 DEF StoreOK, Counts
  <2>4. StoreOK' /\ UNCHANGED <<job, warmup>>
    BY <1>0, <1>3, <2>3 DEF TakeFromCount, StoreOK, redis, bounds
  <2> QED BY <1>3, <2>4, TakeFromCountForm, DropTypes
<1>4. CASE GetSeats(d)
  <2>1. StoreOK' /\ UNCHANGED <<job, warmup>>
    BY <1>4, StoreStays, <1>0 DEF GetSeats, StoreOK, bounds
  <2>2. PICK z : DropIs(d, z) /\ DropOK(z)
    BY <1>4, GetSeatsForm
  <2> QED BY <2>1, <2>2, DropTypes
<1>5. CASE ReleaseSeat(d)
  <2>1. drop[d].at \in Offering
    BY <1>5, ReleaseSeatForm
  <2>2. drop[d].taken \in Nat
    BY Typed DEF DropLocals
  <2>3. PICK n \in Nat : seats' = [seats EXCEPT ![drop[d].at] = n]
    <3>1. (IF drop[d].taken = 0 THEN 0 ELSE drop[d].taken - 1) \in Nat
      BY <2>2
    <3> QED BY <1>5, <3>1 DEF ReleaseSeat
  <2>4. seats' \in Counts
    BY <1>0, <2>3 DEF StoreOK, Counts
  <2>5. StoreOK' /\ UNCHANGED <<job, warmup>>
    BY <1>0, <1>5, <2>4 DEF ReleaseSeat, StoreOK, rows, bounds
  <2> QED BY <1>5, <2>5, ReleaseSeatForm, DropTypes
<1>6. CASE SelectWaiter(d)
  <2>1. StoreOK' /\ UNCHANGED <<job, warmup>>
    BY <1>6, StoreStays, <1>0 DEF SelectWaiter, StoreOK, bounds
  <2>2. PICK z : DropIs(d, z) /\ DropOK(z)
    BY <1>6, SelectWaiterForm
  <2> QED BY <2>1, <2>2, DropTypes
<1>7. CASE Promote(d)
  <2>1. drop[d].at \in Offering /\ drop[d].first \in Student
    BY <1>7, PromoteForm, FirstOf
  <2>2. <<drop[d].first, drop[d].at>> \in Key /\ "REGISTERED" \in RowStatus
    BY <2>1 DEF Key, RowStatus
  <2>3. StoreOK' /\ UNCHANGED <<job, warmup>>
    BY <1>0, <1>7, <2>2 DEF Promote, StoreOK, redis, bounds
  <2> QED BY <1>7, <2>3, PromoteForm, DropTypes
<1>8. CASE ShiftWaiters(d)
  <2>1. \A k \in Key : place[k] - 1 \in Int /\ place[k] \in Int
    BY <1>0 DEF StoreOK
  <2>2. place' \in [Key -> Int]
    BY <1>8, <2>1 DEF ShiftWaiters
  <2>3. StoreOK' /\ UNCHANGED <<job, warmup>>
    BY <1>0, <1>8, <2>2 DEF ShiftWaiters, StoreOK, redis, bounds
  <2> QED BY <1>8, <2>3, ShiftWaitersForm, DropTypes
<1>9. CASE CountPromoted(d)
  <2>1. drop[d].at \in Offering
    BY <1>9, CountPromotedForm
  <2>2. count' = [count EXCEPT ![drop[d].at] = @ + 1]
    BY <1>9 DEF CountPromoted
  <2>3. count' \in Counts
    BY <1>0, <2>1, <2>2 DEF StoreOK, Counts
  <2>4. StoreOK' /\ UNCHANGED <<job, warmup>>
    BY <1>0, <1>9, <2>3 DEF CountPromoted, StoreOK, redis, bounds
  <2>5. PICK z : DropIs(d, z) /\ DropOK(z)
    BY <1>9, CountPromotedForm
  <2> QED BY <2>4, <2>5, DropTypes
<1>10. CASE RetakeSeat(d)
  <2>1. drop[d].at \in Offering
    BY <1>10, RetakeSeatForm
  <2>2. drop[d].taken + 1 \in Nat /\ Capacity[drop[d].at] \in Nat
    BY <2>1, Typed, EnrollmentAssumption DEF DropLocals
  <2>3. PICK n \in Nat : seats' = [seats EXCEPT ![drop[d].at] = n]
    BY <1>10, <2>2 DEF RetakeSeat
  <2>4. seats' \in Counts
    BY <1>0, <2>3 DEF StoreOK, Counts
  <2>5. StoreOK' /\ UNCHANGED <<job, warmup>>
    BY <1>0, <1>10, <2>4 DEF RetakeSeat, StoreOK, rows, bounds
  <2> QED BY <1>10, <2>5, RetakeSeatForm, DropTypes
<1> QED
  BY <1>1, <1>2, <1>3, <1>4, <1>5, <1>6, <1>7, <1>8, <1>9, <1>10 DEF Drop

\* Every step keeps types and locals.
LEMMA NextTypes ==
  ASSUME TypeOK, LocalsOK, [Next]_vars
  PROVE  TypeOK' /\ LocalsOK'
<1>0. StoreOK
  BY TypeParts
<1>1. ASSUME NEW s \in Student, Submit(s) PROVE TypeOK' /\ LocalsOK'
  <2>1. StoreOK'
    BY <1>0, <1>1 DEF Submit, Requested, StoreOK, rows
  <2>2. UNCHANGED sessions
    BY <1>1 DEF Submit
  <2> QED BY <2>1, <2>2, Typed, TypePartsNext DEF LocalsOK, sessions
<1>2. ASSUME NEW w \in Tick, TicketFails(w) PROVE TypeOK' /\ LocalsOK'
  <2>1. StoreOK' /\ UNCHANGED <<drop, warmup>> /\ JobIs(w, IdleJob)
    BY <1>2, StoreStays, <1>0, IdleRows DEF TicketFails, StoreOK, JobIs
  <2> QED BY <2>1, IdleRows, TickTypes
<1>3. ASSUME NEW d \in DropCall, DropFails(d) PROVE TypeOK' /\ LocalsOK'
  <2>1. StoreOK' /\ UNCHANGED <<job, warmup>> /\ DropIs(d, IdleDrop)
    BY <1>3, StoreStays, <1>0, IdleRows DEF DropFails, StoreOK, DropIs
  <2> QED BY <2>1, IdleRows, DropTypes
<1>4. CASE ReadForWarmup
  <2>1. StoreOK' /\ UNCHANGED <<job, drop>>
    BY <1>4, StoreStays, <1>0 DEF ReadForWarmup, Requested, StoreOK
  <2>2. warmup' \in WarmupLocals
    BY <1>0, <1>4 DEF ReadForWarmup, StoreOK, WarmupLocals
  <2> QED BY <2>1, <2>2, Typed, TypePartsNext DEF LocalsOK
<1>5. CASE FillForWarmup
  <2>1. warmup.counts \in Counts
    BY Typed DEF WarmupLocals
  <2>2. StoreOK' /\ UNCHANGED <<job, drop>>
    BY <1>0, <1>5, <2>1 DEF FillForWarmup, StoreOK, rows, bounds
  <2>3. warmup' \in WarmupLocals
    BY <1>5, IdleRows DEF FillForWarmup
  <2> QED BY <2>2, <2>3, Typed, TypePartsNext DEF LocalsOK
<1>6. CASE Crash
  <2>1. StoreOK'
    BY <1>6, StoreStays, <1>0 DEF Crash, StoreOK
  <2>2. job' \in [Tick -> JobLocals] /\ drop' \in [DropCall -> DropLocals] /\ warmup' \in WarmupLocals
    BY <1>6, IdleRows DEF Crash
  <2>3. (\A w \in Tick : TickOK(job'[w])) /\ \A d \in DropCall : DropOK(drop'[d])
    BY <1>6, IdleRows DEF Crash
  <2> QED BY <2>1, <2>2, <2>3, TypePartsNext DEF LocalsOK
<1>7. CASE UNCHANGED vars
  <2>1. StoreOK' /\ UNCHANGED sessions
    BY <1>0, <1>7 DEF vars, StoreOK, sessions
  <2> QED BY <2>1, Typed, TypePartsNext DEF LocalsOK, sessions
<1> QED
  BY <1>1, <1>2, <1>3, <1>4, <1>5, <1>6, <1>7, ProcessTypes, DropKeepsTypes DEF Next

\* The rows and sessions at the start.
LEMMA InitTypes ==
  ASSUME Init
  PROVE  TypeOK /\ LocalsOK
<1>1. StoreOK
  <2>0. << >> \in Seq(Student)
    OBVIOUS
  <2>1. queue \in Seq(Student) /\ warm \in BOOLEAN /\ requests \in Nat /\ crashes \in Nat
    BY <2>0 DEF Init
  <2>2. count \in Counts /\ seats \in Counts /\ wl \in Counts
    BY IdleRows DEF Init
  <2>3. status \in [Key -> RowStatus] /\ place \in [Key -> Int]
    BY DEF Init, RowStatus
  <2> QED BY <2>1, <2>2, <2>3 DEF StoreOK
<1>2. job \in [Tick -> JobLocals] /\ drop \in [DropCall -> DropLocals] /\ warmup \in WarmupLocals
  BY IdleRows DEF Init
<1> QED BY <1>1, <1>2, TypeParts, IdleRows DEF Init, LocalsOK

-----------------------------------------------------------------------------
(* The history only watches.                                                 *)

\* A noted step is a step.
LEMMA NotedIsNext == [HistoryNext]_allVars => [Next]_vars
BY DEF HistoryNext, NotedProcess, NotedDrop, Next, Process, Drop, allVars

\* Every behaviour with the history is a behaviour of the registration: no note
\* holds back or adds a step of waitingRoom.ts, processQueuedSubmit or
\* dropCourseAction.
THEOREM HistoryOnlyWatches == HistorySpec => Spec
<1>1. HistoryInit => Init
  BY DEF HistoryInit
<1> QED BY <1>1, NotedIsNext, PTL DEF HistorySpec, Spec

-----------------------------------------------------------------------------
(* Types of the history.                                                     *)

NotesOK ==
  /\ excess \in Counts /\ drift \in Counts /\ open \in Counts
  /\ late \in [ticks : SUBSET Tick, rows : SUBSET Key]

\* The numbers noted are natural.
LEMMA NotedNumbers ==
  /\ \A b : One(b) \in Nat
  /\ \A a, b \in Int : Gap(a, b) \in Nat /\ Lost(a, b) \in Nat
<1>1. \A b : One(b) \in Nat
  BY DEF One
<1>2. \A a, b \in Int : Gap(a, b) \in Nat /\ Lost(a, b) \in Nat
  BY DEF Gap, Lost
<1> QED BY <1>1, <1>2

\* A number added to one offering.
LEMMA AddsCounts ==
  ASSUME NEW f \in Counts, NEW o \in Offering, NEW n \in Nat
  PROVE  /\ Adds(f, o, n) \in Counts /\ Adds(f, o, n)[o] = f[o] + n
         /\ \A q \in Offering : q # o => Adds(f, o, n)[q] = f[q]
<1>1. f \in [Offering -> Nat]
  BY DEF Counts
<1>2. Adds(f, o, n) = [f EXCEPT ![o] = f[o] + n] /\ f[o] + n \in Nat
  BY <1>1 DEF Adds
<1> QED BY <1>1, <1>2 DEF Counts

\* Sessions are finitely many.
LEMMA SessionsFinite ==
  ASSUME NEW o, NEW pcs
  PROVE  /\ IsFiniteSet(TicksAt(o, pcs)) /\ Cardinality(TicksAt(o, pcs)) \in Nat
         /\ IsFiniteSet(DropsAt(o, pcs)) /\ Cardinality(DropsAt(o, pcs)) \in Nat
<1>1. TicksAt(o, pcs) \subseteq Tick /\ DropsAt(o, pcs) \subseteq DropCall
  BY DEF TicksAt, DropsAt
<1>2. IsFiniteSet(Tick) /\ IsFiniteSet(DropCall)
  BY EnrollmentAssumption
<1>3. IsFiniteSet(TicksAt(o, pcs)) /\ IsFiniteSet(DropsAt(o, pcs))
  BY <1>1, <1>2, FS_Subset
<1> QED BY <1>3, FS_CardinalityType

\* So are the sessions cut off.
LEMMA CutNumbers ==
  ASSUME NEW o, NEW pcs, NEW ticks, NEW drops
  PROVE  /\ Cardinality(ticks \intersect TicksAt(o, pcs)) \in Nat
         /\ Cardinality(drops \intersect DropsAt(o, pcs)) \in Nat
<1>1. /\ ticks \intersect TicksAt(o, pcs) \subseteq TicksAt(o, pcs)
      /\ drops \intersect DropsAt(o, pcs) \subseteq DropsAt(o, pcs)
  OBVIOUS
<1>2. IsFiniteSet(ticks \intersect TicksAt(o, pcs)) /\ IsFiniteSet(drops \intersect DropsAt(o, pcs))
  BY <1>1, SessionsFinite, FS_Subset
<1> QED BY <1>2, FS_CardinalityType

\* A note of seats filled keeps the types.
LEMMA NoteFillTypes ==
  ASSUME NotesOK, TypeOK, TypeOK', NoteFill
  PROVE  NotesOK'
<1>1. seats \in [Offering -> Nat] /\ seats' \in [Offering -> Nat]
  BY DEF TypeOK, Counts
<1>2. \A o \in Offering : Lost(seats[o], seats'[o]) \in Nat /\ Gap(seats[o], seats'[o]) \in Nat
  BY <1>1, NotedNumbers
<1>3. excess' \in Counts /\ drift' \in Counts /\ open' \in Counts
  BY <1>2 DEF NoteFill, NotesOK, Counts
<1> QED BY <1>3 DEF NoteFill, NotesOK

\* A note of seats stored keeps the types.
LEMMA NoteStoreTypes ==
  ASSUME NotesOK, TypeOK', NEW o \in Offering, NEW due \in Int, NEW counted \in Int,
         NoteStore(o, due, counted)
  PROVE  NotesOK'
<1>1. seats'[o] \in Int
  BY DEF TypeOK, Counts
<1>2. Lost(due, seats'[o]) \in Nat /\ Gap(counted, seats'[o]) \in Nat
  BY <1>1, NotedNumbers
<1>3. excess' \in Counts /\ drift' \in Counts /\ open' \in Counts
  BY <1>2, AddsCounts DEF NoteStore, NotesOK
<1> QED BY <1>3 DEF NoteStore, NotesOK

\* A note of sessions cut off keeps the types.
LEMMA NoteEndTypes ==
  ASSUME NotesOK, NEW ticks, NEW drops, NoteEnd(ticks, drops)
  PROVE  NotesOK'
<1>1. ASSUME NEW o \in Offering, NEW held, NEW dropped
      PROVE  Cardinality(ticks \intersect TicksAt(o, held))
               + Cardinality(drops \intersect DropsAt(o, dropped)) \in Nat
  <2> DEFINE a == Cardinality(ticks \intersect TicksAt(o, held))
             b == Cardinality(drops \intersect DropsAt(o, dropped))
  <2>1. a \in Nat
    BY CutNumbers
  <2>2. b \in Nat
    BY CutNumbers
  <2> HIDE DEF a, b
  <2>3. a + b \in Nat
    BY <2>1, <2>2
  <2> QED BY <2>3 DEF a, b
<1>2. excess' \in Counts /\ drift' \in Counts /\ open' \in Counts
  BY <1>1 DEF NoteEnd, NotesOK, Counts
<1>3. late' \in [ticks : SUBSET Tick, rows : SUBSET Key]
  BY DEF NoteEnd, NotesOK
<1> QED BY <1>2, <1>3 DEF NotesOK

\* A noted step of a tick keeps the types of the history.
LEMMA TickNotes ==
  ASSUME NotesOK, TypeOK, LocalsOK, TypeOK', NEW w \in Tick, NotedProcess(w)
  PROVE  NotesOK'
<1>1. CASE FillSeats(w) /\ NoteFill
  BY <1>1, NoteFillTypes
<1>2. ASSUME NEW o \in Offering, NoteSeat(o) PROVE NotesOK'
  <2>1. One(DropsAt(o, Unretaken) # {} /\ Promised(o) >= Capacity[o]) \in Nat
    BY NotedNumbers
  <2> QED BY <1>2, <2>1, AddsCounts DEF NoteSeat, NotesOK
<1>3. CASE WriteRow(w) /\ NoteRow(w)
  <2>1. job[w].pc \in AtOffering
    BY <1>3 DEF WriteRow, AtOffering
  <2>2. job[w].at \in Offering /\ <<job[w].who, job[w].at>> \in Key
    BY <2>1, AtOf DEF Key
  <2>3. One(status[<<job[w].who, job[w].at>>] = "REGISTERED") \in Nat
    BY NotedNumbers
  <2>4. drift' \in Counts
    BY <1>3, <2>2, <2>3, AddsCounts DEF NoteRow, NotesOK
  <2>5. late.ticks \in SUBSET Tick /\ late.rows \in SUBSET Key
    BY DEF NotesOK
  <2>6. late' \in [ticks : SUBSET Tick, rows : SUBSET Key]
    BY <1>3, <2>2, <2>5 DEF NoteRow
  <2> QED BY <1>3, <2>4, <2>6 DEF NoteRow, NotesOK
<1>4. CASE UNCHANGED history
  BY <1>4 DEF history, NotesOK
<1> QED BY <1>1, <1>2, <1>3, <1>4 DEF NotedProcess

\* A noted step of a drop keeps the types of the history.
LEMMA DropNotes ==
  ASSUME NotesOK, TypeOK, LocalsOK, TypeOK', NEW d \in DropCall, NotedDrop(d)
  PROVE  NotesOK'
<1> DEFINE o == drop[d].at
<1>1. CASE DropRow(d) /\ NoteDropRow(d)
  <2>1. o \in Offering /\ One(status[<<drop[d].who, o>>] # "REGISTERED") \in Nat
    BY <1>1, DropRowForm, NotedNumbers
  <2> QED BY <1>1, <2>1, AddsCounts DEF NoteDropRow, NotesOK
<1>2. CASE TakeFromCount(d) /\ NoteUncount(d)
  <2>1. o \in Offering /\ One(count[o] = 0) \in Nat
    BY <1>2, TakeFromCountForm, NotedNumbers
  <2> QED BY <1>2, <2>1, AddsCounts DEF NoteUncount, NotesOK
<1>3. CASE ReleaseSeat(d) /\ NoteRelease(d)
  <2>1. o \in Offering
    BY <1>3, ReleaseSeatForm
  <2>2. seats[o] - 1 \in Int
    BY <2>1 DEF TypeOK, Counts
  <2> QED BY <1>3, <2>1, <2>2, NoteStoreTypes DEF NoteRelease
<1>4. CASE SelectWaiter(d) /\ NoteSelect(d)
  <2>1. o \in Offering /\ One(drop'[d] = IdleDrop /\ TicksAt(o, Queueing) # {}) \in Nat
    BY <1>4, SelectWaiterForm, NotedNumbers
  <2> QED BY <1>4, <2>1, AddsCounts DEF NoteSelect, NotesOK
<1>5. CASE Promote(d) /\ NotePromote(d)
  <2> DEFINE again == status[<<drop[d].first, o>>] = "REGISTERED"
  <2>1. o \in Offering /\ One(~again /\ Promised(o) >= Capacity[o]) \in Nat /\ One(again) \in Nat
    BY <1>5, PromoteForm, NotedNumbers
  <2>2. excess' \in Counts /\ drift' \in Counts
    BY <1>5, <2>1, AddsCounts DEF NotePromote, NotesOK
  <2>3. late' \in [ticks : SUBSET Tick, rows : SUBSET Key]
    BY <1>5 DEF NotePromote, NotesOK
  <2> QED BY <1>5, <2>2, <2>3 DEF NotePromote, NotesOK
<1>6. CASE ShiftWaiters(d) /\ NoteShift(d)
  <2>1. TicksAt(o, {"wait"}) \subseteq Tick
    BY DEF TicksAt
  <2>2. late' \in [ticks : SUBSET Tick, rows : SUBSET Key]
    BY <1>6, <2>1 DEF NoteShift, NotesOK
  <2> QED BY <1>6, <2>2 DEF NoteShift, NotesOK
<1>7. CASE RetakeSeat(d) /\ NoteRetake(d)
  <2>1. o \in Offering
    BY <1>7, RetakeSeatForm
  <2>2. seats[o] + 1 \in Int /\ (IF seats[o] < Capacity[o] THEN seats[o] + 1 ELSE Capacity[o]) \in Int
    BY <2>1, EnrollmentAssumption DEF TypeOK, Counts
  <2> QED BY <1>7, <2>1, <2>2, NoteStoreTypes DEF NoteRetake
<1>8. CASE UNCHANGED history
  BY <1>8 DEF history, NotesOK
<1> QED BY <1>1, <1>2, <1>3, <1>4, <1>5, <1>6, <1>7, <1>8 DEF NotedDrop

\* Types, locals and history.
TypedState == TypeOK /\ LocalsOK /\ NotesOK

\* They hold in every behaviour.
LEMMA TypesHold == HistorySpec => []TypedState
<1>1. HistoryInit => TypedState
  <2>1. HistoryInit => NotesOK
    BY IdleRows DEF HistoryInit, NotesOK
  <2> QED BY <2>1, InitTypes DEF HistoryInit, TypedState
<1>2. TypedState /\ [HistoryNext]_allVars => TypedState'
  <2> SUFFICES ASSUME TypedState, [HistoryNext]_allVars
               PROVE  TypedState'
    OBVIOUS
  <2>1. TypeOK' /\ LocalsOK'
    BY NotedIsNext, NextTypes DEF TypedState
  <2>2. NotesOK'
    <3>1. CASE UNCHANGED allVars
      BY <3>1 DEF allVars, history, NotesOK, TypedState
    <3>2. ASSUME NEW w \in Tick, NotedProcess(w) PROVE NotesOK'
      BY <2>1, <3>2, TickNotes DEF TypedState
    <3>3. ASSUME NEW d \in DropCall, NotedDrop(d) PROVE NotesOK'
      BY <2>1, <3>3, DropNotes DEF TypedState
    <3>4. ASSUME NEW ticks, NEW drops, NoteEnd(ticks, drops) PROVE NotesOK'
      BY <3>4, NoteEndTypes DEF TypedState
    <3>5. CASE NoteFill
      BY <2>1, <3>5, NoteFillTypes DEF TypedState
    <3>6. CASE UNCHANGED history
      BY <3>6 DEF history, NotesOK, TypedState
    <3> QED BY <3>1, <3>2, <3>3, <3>4, <3>5, <3>6 DEF HistoryNext
  <2> QED BY <2>1, <2>2 DEF TypedState
<1> QED BY <1>1, <1>2, PTL DEF HistorySpec

\* Every variable of the waiting room, the worker, the drop and the history keeps its
\* type, whatever ticks, drops, warmups and crashes overlap (waitingRoom.ts,
\* processQueuedSubmit, dropCourseAction); in particular no counter falls below zero.
THEOREM EnrollmentTypeOK == HistorySpec => []HistoryTypeOK
<1>1. TypedState => HistoryTypeOK
  BY DEF TypedState, NotesOK, HistoryTypeOK
<1> QED BY <1>1, TypesHold, PTL

-----------------------------------------------------------------------------
(* The figures of a class: its registered students and the sessions at it.   *)

Reg(o) == Cardinality(Registered(o))
Hold(o) == Cardinality(TicksAt(o, {"register"}))
ToCount(o) == Cardinality(TicksAt(o, {"count"}))
Uncounted(o) == Cardinality(DropsAt(o, {"uncount"}))
ToRelease(o) == Cardinality(DropsAt(o, Unreleased))
ToRetake(o) == Cardinality(DropsAt(o, Unretaken))
ToRecount(o) == Cardinality(DropsAt(o, {"shift", "recount"}))
ToHand(o) == Cardinality(DropsAt(o, Handing))

\* A session at offering o at one of the statements pcs.
In(x, o, pcs) == x.at = o /\ x.pc \in pcs

\* A finite set of which one element may come or go.
LEMMA SetMove ==
  ASSUME NEW S, NEW T, NEW w, IsFiniteSet(S), \A v : v # w => (v \in S <=> v \in T)
  PROVE  Cardinality(T) = Cardinality(S) - One(w \in S) + One(w \in T)
<1>1. IsFiniteSet(S \ {w}) /\ Cardinality(S) \in Nat /\ Cardinality(S \ {w}) \in Nat
      /\ Cardinality(S \ {w}) = IF w \in S THEN Cardinality(S) - 1 ELSE Cardinality(S)
  BY FS_RemoveElement, FS_CardinalityType
<1>2. CASE w \in T
  <2>1. T = (S \ {w}) \union {w}
    BY <1>2
  <2>2. Cardinality(T) = Cardinality(S \ {w}) + 1
    BY <1>1, <2>1, FS_AddElement
  <2> QED BY <1>1, <1>2, <2>2 DEF One
<1>3. CASE w \notin T
  <2>1. T = S \ {w}
    BY <1>3
  <2> QED BY <1>1, <1>3, <2>1 DEF One
<1> QED BY <1>2, <1>3

\* The students registered are finitely many.
LEMMA RegisteredFinite ==
  ASSUME NEW o
  PROVE  IsFiniteSet(Registered(o)) /\ Reg(o) \in Nat
<1>1. Registered(o) \subseteq Student /\ IsFiniteSet(Student)
  BY EnrollmentAssumption DEF Registered
<1>2. IsFiniteSet(Registered(o))
  BY <1>1, FS_Subset
<1> QED BY <1>2, FS_CardinalityType DEF Reg

\* The figures are natural numbers.
LEMMA FiguresNat ==
  ASSUME NEW o
  PROVE  /\ Reg(o) \in Nat /\ Hold(o) \in Nat /\ ToCount(o) \in Nat /\ Uncounted(o) \in Nat
         /\ ToRelease(o) \in Nat /\ ToRetake(o) \in Nat /\ ToRecount(o) \in Nat /\ ToHand(o) \in Nat
BY RegisteredFinite, SessionsFinite
   DEF Hold, ToCount, Uncounted, ToRelease, ToRetake, ToRecount, ToHand

\* A step of one tick moves that tick only.
LEMMA TickMove ==
  ASSUME TypeOK, LocalsOK, NEW w \in Tick, NEW z, JobIs(w, z), TickOK(z), NEW o, NEW pcs
  PROVE  Cardinality(TicksAt(o, pcs)')
           = Cardinality(TicksAt(o, pcs)) - One(In(job[w], o, pcs)) + One(In(z, o, pcs))
<1> DEFINE S == TicksAt(o, pcs)
           T == TicksAt(o, pcs)'
<1>1. IsFiniteSet(S)
  BY SessionsFinite
<1>2. job'[w] = z /\ \A v \in Tick : v # w => job'[v] = job[v]
  BY JobMoves
<1>3. S = {v \in Tick : job[v].at = o /\ job[v].pc \in pcs}
      /\ T = {v \in Tick : job'[v].at = o /\ job'[v].pc \in pcs}
  BY DEF TicksAt
<1>4. \A v : v # w => (v \in S <=> v \in T)
  BY <1>2, <1>3
<1>5. (w \in S <=> In(job[w], o, pcs)) /\ (w \in T <=> In(z, o, pcs))
  BY <1>2, <1>3 DEF In
<1> HIDE DEF S, T
<1>6. Cardinality(T) = Cardinality(S) - One(w \in S) + One(w \in T)
  BY <1>1, <1>4, SetMove
<1>7. One(w \in S) = One(In(job[w], o, pcs)) /\ One(w \in T) = One(In(z, o, pcs))
  BY <1>5 DEF One
<1> QED BY <1>6, <1>7 DEF S, T

\* A step of one drop moves that drop only.
LEMMA DropMove ==
  ASSUME TypeOK, LocalsOK, NEW d \in DropCall, NEW z, DropIs(d, z), DropOK(z), NEW o, NEW pcs
  PROVE  Cardinality(DropsAt(o, pcs)')
           = Cardinality(DropsAt(o, pcs)) - One(In(drop[d], o, pcs)) + One(In(z, o, pcs))
<1> DEFINE S == DropsAt(o, pcs)
           T == DropsAt(o, pcs)'
<1>1. IsFiniteSet(S)
  BY SessionsFinite
<1>2. drop'[d] = z /\ \A e \in DropCall : e # d => drop'[e] = drop[e]
  BY DropMoves
<1>3. S = {e \in DropCall : drop[e].at = o /\ drop[e].pc \in pcs}
      /\ T = {e \in DropCall : drop'[e].at = o /\ drop'[e].pc \in pcs}
  BY DEF DropsAt
<1>4. \A e : e # d => (e \in S <=> e \in T)
  BY <1>2, <1>3
<1>5. (d \in S <=> In(drop[d], o, pcs)) /\ (d \in T <=> In(z, o, pcs))
  BY <1>2, <1>3 DEF In
<1> HIDE DEF S, T
<1>6. Cardinality(T) = Cardinality(S) - One(d \in S) + One(d \in T)
  BY <1>1, <1>4, SetMove
<1>7. One(d \in S) = One(In(drop[d], o, pcs)) /\ One(d \in T) = One(In(z, o, pcs))
  BY <1>5 DEF One
<1> QED BY <1>6, <1>7 DEF S, T

\* The figures of the ticks, the drops and the rows, when a step leaves them.
TickFiguresStay(o) == Hold(o)' = Hold(o) /\ ToCount(o)' = ToCount(o)
DropFiguresStay(o) ==
  /\ Uncounted(o)' = Uncounted(o) /\ ToRelease(o)' = ToRelease(o) /\ ToRetake(o)' = ToRetake(o)
  /\ ToRecount(o)' = ToRecount(o) /\ ToHand(o)' = ToHand(o)

\* They stay with the variables they are of.
LEMMA FiguresStay ==
  ASSUME NEW o
  PROVE  /\ UNCHANGED job => TickFiguresStay(o)
         /\ UNCHANGED drop => DropFiguresStay(o)
         /\ UNCHANGED status => Reg(o)' = Reg(o) /\ Waiting(o)' = Waiting(o)
<1>1. ASSUME UNCHANGED job PROVE \A pcs : TicksAt(o, pcs)' = TicksAt(o, pcs)
  BY <1>1 DEF TicksAt
<1>2. ASSUME UNCHANGED drop PROVE \A pcs : DropsAt(o, pcs)' = DropsAt(o, pcs)
  BY <1>2 DEF DropsAt
<1>3. ASSUME UNCHANGED status PROVE Registered(o)' = Registered(o) /\ Waiting(o)' = Waiting(o)
  BY <1>3 DEF Registered, Waiting
<1>4. UNCHANGED job => TickFiguresStay(o)
  BY <1>1 DEF TickFiguresStay, Hold, ToCount
<1>5. UNCHANGED drop => DropFiguresStay(o)
  BY <1>2 DEF DropFiguresStay, Uncounted, ToRelease, ToRetake, ToRecount, ToHand
<1> QED BY <1>3, <1>4, <1>5 DEF Reg

\* What a tick's step does to the figures of a class.
LEMMA TickFigures ==
  ASSUME TypeOK, LocalsOK, NEW w \in Tick, NEW z, JobIs(w, z), TickOK(z), NEW o
  PROVE  /\ Hold(o)' = Hold(o) - One(In(job[w], o, {"register"})) + One(In(z, o, {"register"}))
         /\ ToCount(o)' = ToCount(o) - One(In(job[w], o, {"count"})) + One(In(z, o, {"count"}))
BY TickMove DEF Hold, ToCount

\* What a drop's step does to the figures of a class.
LEMMA DropFigures ==
  ASSUME TypeOK, LocalsOK, NEW d \in DropCall, NEW z, DropIs(d, z), DropOK(z), NEW o
  PROVE  /\ Uncounted(o)' = Uncounted(o) - One(In(drop[d], o, {"uncount"})) + One(In(z, o, {"uncount"}))
         /\ ToRelease(o)' = ToRelease(o) - One(In(drop[d], o, Unreleased)) + One(In(z, o, Unreleased))
         /\ ToRetake(o)' = ToRetake(o) - One(In(drop[d], o, Unretaken)) + One(In(z, o, Unretaken))
         /\ ToRecount(o)' = ToRecount(o) - One(In(drop[d], o, {"shift", "recount"}))
                              + One(In(z, o, {"shift", "recount"}))
         /\ ToHand(o)' = ToHand(o) - One(In(drop[d], o, Handing)) + One(In(z, o, Handing))
BY DropMove DEF Uncounted, ToRelease, ToRetake, ToRecount, ToHand

\* One row is written.
RowTo(s, o, v) == status' = [status EXCEPT ![<<s, o>>] = v]

\* What a written row does to the students of a class.
LEMMA RowMove ==
  ASSUME TypeOK, NEW s \in Student, NEW o \in Offering, NEW v, RowTo(s, o, v), NEW q \in Offering
  PROVE  /\ Reg(q)' = Reg(q) - One(q = o /\ status[<<s, o>>] = "REGISTERED")
                        + One(q = o /\ v = "REGISTERED")
         /\ q # o => Waiting(q)' = Waiting(q)
         /\ v # "WAITLISTED" => Waiting(q)' \subseteq Waiting(q)
<1> DEFINE S == Registered(q)
           T == Registered(q)'
<1>1. \A u \in Student : status'[<<u, q>>] = IF u = s /\ q = o THEN v ELSE status[<<u, q>>]
  <2>1. status \in [Key -> RowStatus] /\ \A u \in Student : <<u, q>> \in Key
    BY TypeParts DEF StoreOK, Key
  <2> QED BY <2>1 DEF RowTo
<1>2. S = {u \in Student : status[<<u, q>>] = "REGISTERED"}
      /\ T = {u \in Student : status'[<<u, q>>] = "REGISTERED"}
  BY DEF Registered
<1>3. IsFiniteSet(S)
  BY RegisteredFinite
<1>4. \A u : u # s => (u \in S <=> u \in T)
  BY <1>1, <1>2
<1>5. CASE q = o
  <2>1. (s \in S <=> q = o /\ status[<<s, o>>] = "REGISTERED")
        /\ (s \in T <=> q = o /\ v = "REGISTERED")
    BY <1>1, <1>2, <1>5
  <2> HIDE DEF S, T
  <2>2. Cardinality(T) = Cardinality(S) - One(s \in S) + One(s \in T)
    BY <1>3, <1>4, SetMove
  <2>3. /\ One(s \in S) = One(q = o /\ status[<<s, o>>] = "REGISTERED")
        /\ One(s \in T) = One(q = o /\ v = "REGISTERED")
    BY <2>1 DEF One
  <2>4. Reg(q)' = Reg(q) - One(q = o /\ status[<<s, o>>] = "REGISTERED")
                    + One(q = o /\ v = "REGISTERED")
    BY <2>2, <2>3 DEF Reg, S, T
  <2>5. v # "WAITLISTED" => Waiting(q)' \subseteq Waiting(q)
    BY <1>1 DEF Waiting
  <2> QED BY <1>5, <2>4, <2>5
<1>6. CASE q # o
  <2>1. S = T /\ Waiting(q)' = Waiting(q)
    BY <1>1, <1>2, <1>6 DEF Waiting
  <2>2. Reg(q)' = Reg(q) /\ Reg(q) \in Nat
    BY <2>1, RegisteredFinite DEF Reg
  <2> QED BY <1>6, <2>1, <2>2 DEF One
<1> QED BY <1>5, <1>6

-----------------------------------------------------------------------------
(* Before the first tick fills the seats there is nothing to drop.           *)

Cold ==
  ~warm =>
    /\ \A k \in Key : status[k] = "NONE"
    /\ \A w \in Tick : job[w].pc \in {"idle", "read", "warm?", "counts", "fill"}
    /\ \A d \in DropCall : drop[d] = IdleDrop

\* Every step keeps it so, and the seats once filled stay in Redis.
LEMMA ColdStays ==
  ASSUME TypeOK, LocalsOK, Cold, [Next]_vars
  PROVE  Cold'
<1> DEFINE early == {"idle", "read", "warm?", "counts", "fill"}
<1> SUFFICES ASSUME ~warm'
             PROVE  /\ \A k \in Key : status'[k] = "NONE"
                    /\ \A w \in Tick : job'[w].pc \in early
                    /\ \A d \in DropCall : drop'[d] = IdleDrop
  BY DEF Cold
<1>1. ~warm
  <2>1. CASE UNCHANGED vars
    BY <2>1 DEF vars
  <2>2. ASSUME NEW w \in Tick, Process(w) PROVE warm' = warm \/ warm'
    BY <2>2 DEF Process, Pop, ReadCart, CheckWarm, ReadCounts, FillSeats, TakeSeat, FindFull,
         TakePlace, WriteRow, AddToCount, redis
  <2>3. ASSUME NEW d \in DropCall, Drop(d) PROVE warm' = warm
    BY <2>3 DEF Drop, StartDrop, DropRow, TakeFromCount, GetSeats, ReleaseSeat, SelectWaiter,
         Promote, ShiftWaiters, CountPromoted, RetakeSeat, redis
  <2>4. CASE \/ \E s \in Student : Submit(s)
             \/ \E w \in Tick : TicketFails(w)
             \/ \E d \in DropCall : DropFails(d)
             \/ ReadForWarmup \/ FillForWarmup \/ Crash
    BY <2>4 DEF Submit, TicketFails, DropFails, ReadForWarmup, FillForWarmup, Crash, redis
  <2> QED BY <2>1, <2>2, <2>3, <2>4 DEF Next
<1>2. /\ \A k \in Key : status[k] = "NONE"
      /\ \A w \in Tick : job[w].pc \in early
      /\ \A d \in DropCall : drop[d] = IdleDrop /\ drop[d].pc = "idle"
  BY <1>1, IdleRows DEF Cold
<1>3. ASSUME NEW w \in Tick, NEW z, JobIs(w, z), z.pc \in early
      PROVE  \A v \in Tick : job'[v].pc \in early
  <2>1. \A v \in Tick : job'[v] = IF v = w THEN z ELSE job[v]
    BY <1>3, Typed DEF JobIs
  <2> QED BY <1>2, <1>3, <2>1
<1>4. ASSUME NEW w \in Tick, Process(w)
      PROVE  (\A v \in Tick : job'[v].pc \in early) /\ UNCHANGED <<status, drop>>
  <2>1. CASE Pop(w)
    <3>1. PICK z : JobIs(w, z) /\ z.pc = "read"
      BY <2>1, PopShape
    <3> QED BY <1>3, <2>1, <3>1 DEF Pop, rows
  <2>2. CASE ReadCart(w)
    <3>1. PICK todo \in SUBSET Offering :
            job' = [job EXCEPT ![w] = IF todo = {} THEN IdleJob
                                      ELSE [@ EXCEPT !.pc = "warm?", !.todo = todo]]
      BY <2>2 DEF ReadCart
    <3>2. CASE todo = {}
      <4>1. JobIs(w, IdleJob) /\ IdleJob.pc \in early
        BY <3>1, <3>2, IdleRows DEF JobIs
      <4> QED BY <1>3, <2>2, <4>1 DEF ReadCart, rows
    <3>3. CASE todo # {}
      <4>1. PICK z : JobIs(w, z) /\ z.pc = "warm?"
        BY <3>1, <3>3, ReadCartShape
      <4> QED BY <1>3, <2>2, <4>1 DEF ReadCart, rows
    <3> QED BY <3>2, <3>3
  <2>3. CASE CheckWarm(w)
    <3>1. Go(w, "counts") /\ "counts" \in TickPc
      BY <1>1, <2>3 DEF CheckWarm, TickPc
    <3>2. PICK z : JobIs(w, z) /\ z.pc = "counts"
      BY <3>1, GoShape
    <3> QED BY <1>3, <2>3, <3>2 DEF CheckWarm, rows
  <2>4. CASE ReadCounts(w)
    <3>1. PICK z : JobIs(w, z) /\ z.pc = "fill"
      BY <2>4, ReadCountsShape
    <3> QED BY <1>3, <2>4, <3>1 DEF ReadCounts, rows
  <2>5. job[w].pc \notin {"seat", "place", "register", "wait", "count"}
    BY <1>2
  <2> QED BY <1>4, <2>1, <2>2, <2>3, <2>4, <2>5
       DEF Process, FillSeats, TakeSeat, FindFull, TakePlace, WriteRow, AddToCount
<1>5. ASSUME NEW d \in DropCall, Drop(d) PROVE FALSE
  <2>1. ASSUME NEW s \in Student, NEW o \in Offering, StartDrop(d, s, o) PROVE FALSE
    <3>1. <<s, o>> \in Key
      BY DEF Key
    <3> QED BY <1>2, <2>1, <3>1 DEF StartDrop
  <2>2. drop[d].pc = "idle"
    BY <1>2
  <2> QED BY <1>5, <2>1, <2>2 DEF Drop, DropRow, TakeFromCount, GetSeats, ReleaseSeat, SelectWaiter,
         Promote, ShiftWaiters, CountPromoted, RetakeSeat
<1>6. ASSUME NEW w \in Tick, TicketFails(w)
      PROVE  (\A v \in Tick : job'[v].pc \in early) /\ UNCHANGED <<status, drop>>
  <2>1. JobIs(w, IdleJob) /\ IdleJob.pc \in early
    BY <1>6, IdleRows DEF TicketFails, JobIs
  <2> QED BY <1>3, <1>6, <2>1 DEF TicketFails, rows
<1>7. ASSUME NEW d \in DropCall, DropFails(d) PROVE FALSE
  BY <1>2, <1>7 DEF DropFails
<1>8. CASE Crash
  BY <1>2, <1>8, IdleRows DEF Crash, rows
<1>9. CASE (\E s \in Student : Submit(s)) \/ ReadForWarmup \/ FillForWarmup \/ UNCHANGED vars
  BY <1>2, <1>9 DEF Submit, ReadForWarmup, FillForWarmup, vars, rows, sessions
<1> QED BY <1>2, <1>4, <1>5, <1>6, <1>7, <1>8, <1>9 DEF Next

-----------------------------------------------------------------------------
(* The books of a class.                                                     *)

\* Students registered, with the seats ticks hold for students to come and drops
\* have not released yet; the seats taken, with those promised to promoted students.
Students(o) == Reg(o) + Hold(o) + ToRelease(o)
Taken(o) == seats[o] + ToRetake(o)

Balanced(o) ==
  /\ Students(o) <= Capacity[o] + excess[o]
  /\ Students(o) <= Taken(o) + excess[o]
  /\ Students(o) <= Taken(o) + drift[o] /\ Taken(o) <= Students(o) + drift[o]
  /\ Reg(o) + Uncounted(o) <= count[o] + ToCount(o) + ToRecount(o) + drift[o]
  /\ count[o] + ToCount(o) + ToRecount(o) <= Reg(o) + Uncounted(o) + drift[o]

Kept(o) ==
  Waiting(o) # {} \/ TicksAt(o, Queueing) # {} => Capacity[o] <= seats[o] + ToHand(o) + open[o]

InOrder(o) == Balanced(o) /\ Kept(o)

\* The inductive invariant, the waiting line apart.
Ordered == TypedState /\ Cold /\ \A o \in Offering : InOrder(o)

\* The numbers of a class are natural.
LEMMA Numbers ==
  TypedState => \A o \in Offering :
    /\ count[o] \in Nat /\ seats[o] \in Nat /\ wl[o] \in Nat /\ Capacity[o] \in Nat
    /\ excess[o] \in Nat /\ drift[o] \in Nat /\ open[o] \in Nat
BY EnrollmentAssumption DEF TypedState, TypeOK, NotesOK, Counts

\* In the next state too.
LEMMA NumbersNext ==
  (TypedState => \A o \in Offering :
    /\ count[o] \in Nat /\ seats[o] \in Nat /\ wl[o] \in Nat /\ Capacity[o] \in Nat
    /\ excess[o] \in Nat /\ drift[o] \in Nat /\ open[o] \in Nat)'
BY Numbers, PTL

\* A step that leaves the figures and the numbers of a class leaves it balanced.
LEMMA SameBalanced ==
  ASSUME NEW q, Balanced(q), Reg(q)' = Reg(q), TickFiguresStay(q), DropFiguresStay(q),
         count'[q] = count[q], seats'[q] = seats[q], excess'[q] = excess[q], drift'[q] = drift[q]
  PROVE  Balanced(q)'
BY DEF Balanced, Students, Taken, TickFiguresStay, DropFiguresStay

\* A step that brings nobody to the line and leaves the seats leaves the seats kept.
LEMMA SameKept ==
  ASSUME NEW q, Kept(q), Waiting(q)' \subseteq Waiting(q),
         TicksAt(q, Queueing)' \subseteq TicksAt(q, Queueing),
         ToHand(q)' = ToHand(q), seats'[q] = seats[q], open'[q] = open[q]
  PROVE  Kept(q)'
BY DEF Kept

\* The line of ticks after one tick's step.
LEMMA QueueMove ==
  ASSUME TypeOK, LocalsOK, NEW w \in Tick, NEW z, JobIs(w, z), TickOK(z), NEW q
  PROVE  /\ ~In(z, q, Queueing) => TicksAt(q, Queueing)' \subseteq TicksAt(q, Queueing)
         /\ In(job[w], q, Queueing) => TicksAt(q, Queueing)' \subseteq TicksAt(q, Queueing)
<1>1. job'[w] = z /\ \A v \in Tick : v # w => job'[v] = job[v]
  BY JobMoves
<1> QED BY <1>1 DEF TicksAt, In

\* A tick that neither registers nor counts here leaves the figures.
LEMMA TickElsewhere ==
  ASSUME TypeOK, LocalsOK, NEW w \in Tick, NEW z, JobIs(w, z), TickOK(z), NEW q,
         job[w].at # q \/ job[w].pc \notin {"register", "count"},
         z.at # q \/ z.pc \notin {"register", "count"}
  PROVE  TickFiguresStay(q)
<1>1. /\ ~In(job[w], q, {"register"}) /\ ~In(job[w], q, {"count"})
      /\ ~In(z, q, {"register"}) /\ ~In(z, q, {"count"})
  BY DEF In
<1>2. Hold(q) \in Nat /\ ToCount(q) \in Nat
  BY FiguresNat
<1> QED BY <1>1, <1>2, TickFigures DEF One, TickFiguresStay

\* A drop of another class leaves the figures.
LEMMA DropElsewhere ==
  ASSUME TypeOK, LocalsOK, NEW d \in DropCall, NEW z, DropIs(d, z), DropOK(z), NEW q,
         drop[d].at # q, z.at # q
  PROVE  DropFiguresStay(q)
<1>1. \A pcs : One(In(drop[d], q, pcs)) = 0 /\ One(In(z, q, pcs)) = 0
  BY DEF In, One
<1> QED BY <1>1, FiguresNat, DropFigures DEF DropFiguresStay

\* A tick's step that touches no figure and no number keeps every class in order.
LEMMA QuietTick ==
  ASSUME Ordered, NEW w \in Tick, NEW z, JobIs(w, z), TickOK(z), NEW q \in Offering,
         job[w].at # q \/ job[w].pc \notin {"register", "count"},
         z.at # q \/ z.pc \notin {"register", "count"},
         ~In(z, q, Queueing) \/ In(job[w], q, Queueing) \/ seats[q] >= Capacity[q],
         UNCHANGED <<status, count, seats, drop, history>>
  PROVE  InOrder(q)'
<1>0. TypeOK /\ LocalsOK /\ InOrder(q)
  BY DEF Ordered, TypedState
<1>1. TickFiguresStay(q)
  BY <1>0, TickElsewhere
<1>2. DropFiguresStay(q) /\ Reg(q)' = Reg(q) /\ Waiting(q)' = Waiting(q)
  BY FiguresStay
<1>3. UNCHANGED <<excess, drift, open>>
  BY DEF history
<1>4. Balanced(q)'
  BY <1>0, <1>1, <1>2, <1>3, SameBalanced DEF InOrder
<1>5. Kept(q)'
  <2>1. CASE ~In(z, q, Queueing) \/ In(job[w], q, Queueing)
    <3>1. TicksAt(q, Queueing)' \subseteq TicksAt(q, Queueing)
      BY <1>0, <2>1, QueueMove
    <3> QED BY <1>0, <1>2, <1>3, <3>1, SameKept DEF InOrder, DropFiguresStay
  <2>2. CASE seats[q] >= Capacity[q]
    <3>1. seats[q] \in Nat /\ Capacity[q] \in Nat /\ open[q] \in Nat /\ ToHand(q) \in Nat
      BY Numbers, FiguresNat DEF Ordered
    <3>2. seats'[q] = seats[q] /\ open'[q] = open[q] /\ ToHand(q)' = ToHand(q)
      BY <1>2, <1>3 DEF DropFiguresStay
    <3> QED BY <2>2, <3>1, <3>2 DEF Kept
  <2> QED BY <2>1, <2>2
<1> QED BY <1>4, <1>5 DEF InOrder

-----------------------------------------------------------------------------
(* Each step keeps the books of every class.                                 *)

\* The seats are filled with counts read before, by a tick or by the admin.
LEMMA FillInOrder ==
  ASSUME Ordered, TypedState', NEW q \in Offering, NoteFill,
         TickFiguresStay(q), DropFiguresStay(q), UNCHANGED <<status, count>>,
         TicksAt(q, Queueing)' \subseteq TicksAt(q, Queueing)
  PROVE  InOrder(q)'
<1>1. Reg(q)' = Reg(q) /\ Waiting(q)' = Waiting(q) /\ count'[q] = count[q]
  BY FiguresStay
<1>2. /\ count[q] \in Nat /\ seats[q] \in Nat /\ Capacity[q] \in Nat /\ seats'[q] \in Nat
      /\ excess[q] \in Nat /\ drift[q] \in Nat /\ open[q] \in Nat
  BY Numbers, NumbersNext DEF Ordered
<1>3. /\ excess'[q] = excess[q] + Lost(seats[q], seats'[q])
      /\ drift'[q] = drift[q] + Gap(seats[q], seats'[q])
      /\ open'[q] = open[q] + Lost(seats[q], seats'[q])
  BY DEF NoteFill
<1>4. Balanced(q) /\ Kept(q)
  BY DEF Ordered, InOrder
<1>5. Balanced(q)'
  BY <1>1, <1>2, <1>3, <1>4, FiguresNat
     DEF Balanced, Students, Taken, Gap, Lost, TickFiguresStay, DropFiguresStay
<1>6. Kept(q)'
  BY <1>1, <1>2, <1>3, <1>4, FiguresNat DEF Kept, Lost, DropFiguresStay
<1> QED BY <1>5, <1>6 DEF InOrder

\* A number added to one offering, seen at any.
LEMMA AddsAt ==
  ASSUME NEW f \in Counts, NEW o \in Offering, NEW n \in Nat, NEW q \in Offering
  PROVE  /\ q = o => Adds(f, o, n)[q] = f[q] + n
         /\ q # o => Adds(f, o, n)[q] = f[q]
BY AddsCounts

\* One more at one offering, perhaps.
LEMMA AddsOne ==
  ASSUME NEW f \in Counts, NEW o \in Offering, NEW b, NEW q \in Offering
  PROVE  Adds(f, o, One(b))[q] = f[q] + One(q = o /\ b)
<1>1. One(b) \in Nat /\ f[q] \in Nat
  BY NotedNumbers DEF Counts
<1>2. CASE q = o
  <2>1. Adds(f, o, One(b))[q] = f[q] + One(b)
    BY <1>1, <1>2, AddsCounts
  <2>2. One(q = o /\ b) = One(b)
    BY <1>2 DEF One
  <2> QED BY <2>1, <2>2
<1>3. CASE q # o
  <2>1. Adds(f, o, One(b))[q] = f[q]
    BY <1>1, <1>3, AddsCounts
  <2>2. One(q = o /\ b) = 0
    BY <1>3 DEF One
  <2> QED BY <1>1, <2>1, <2>2
<1> QED BY <1>2, <1>3

\* A tick takes a seat.
LEMMA TakeSeatInOrder ==
  ASSUME Ordered, TypedState', NEW w \in Tick, NEW o \in Offering, TakeSeat(w, o), NoteSeat(o),
         NEW q \in Offering
  PROVE  InOrder(q)'
<1> DEFINE passed == DropsAt(o, Unretaken) # {} /\ Promised(o) >= Capacity[o]
<1>0. TypeOK /\ LocalsOK /\ Balanced(q) /\ Kept(q)
  BY DEF Ordered, TypedState, InOrder
<1>1. PICK z : JobIs(w, z) /\ z.pc = "register" /\ z.who = job[w].who /\ z.todo = job[w].todo /\ z.at = o
  BY <1>0, TakeSeatShape
<1>2. TickOK(z)
  BY <1>0, <1>1, WhoOf DEF TickOK, TakeSeat
<1>3. job[w].pc = "seat" /\ seats[o] < Capacity[o] /\ UNCHANGED <<status, count, drop>>
  BY DEF TakeSeat, rows
<1>4. Reg(q)' = Reg(q) /\ Waiting(q)' = Waiting(q) /\ count'[q] = count[q] /\ DropFiguresStay(q)
  BY <1>3, FiguresStay
<1>5. /\ count[q] \in Nat /\ seats[q] \in Nat /\ Capacity[q] \in Nat
      /\ excess[q] \in Nat /\ drift[q] \in Nat /\ open[q] \in Nat
  BY Numbers DEF Ordered
<1>6. Hold(q)' = Hold(q) + One(q = o) /\ ToCount(q)' = ToCount(q)
  BY <1>0, <1>1, <1>2, <1>3, TickFigures, FiguresNat DEF In, One
<1>7. seats'[q] = seats[q] + One(q = o)
  <2>1. seats' = [seats EXCEPT ![o] = seats[o] + 1] /\ seats \in [Offering -> Nat]
    BY <1>0 DEF TakeSeat, TypeOK, Counts
  <2> QED BY <1>5, <2>1 DEF One
<1>8. drift'[q] = drift[q] /\ open'[q] = open[q]
  BY DEF NoteSeat
<1>9. excess'[q] = excess[q] + One(q = o /\ passed)
  <2>1. excess \in Counts /\ excess' = Adds(excess, o, One(passed))
    BY DEF Ordered, TypedState, NotesOK, NoteSeat
  <2> HIDE DEF passed
  <2> QED BY <2>1, AddsOne
<1>10. DropsAt(q, Unretaken) = {} => ToRetake(q) = 0
  BY FS_EmptySet DEF ToRetake
<1>11. Promised(q) = Taken(q)
  BY DEF Promised, Taken, ToRetake
<1>12. Balanced(q)'
  <2>1. CASE q = o
    <3>1. Students(q)' = Students(q) + 1 /\ Taken(q)' = Taken(q) + 1
      BY <1>4, <1>5, <1>6, <1>7, <2>1, FiguresNat DEF Students, Taken, DropFiguresStay, One
    <3>2. Students(q) \in Nat /\ Taken(q) \in Nat
      BY <1>5, FiguresNat DEF Students, Taken
    <3>3. CASE DropsAt(q, Unretaken) # {} /\ Promised(q) >= Capacity[q]
      <4>1. excess'[q] = excess[q] + 1
        BY <1>9, <2>1, <3>3 DEF One
      <4> QED BY <1>0, <1>4, <1>5, <1>6, <1>8, <2>1, <3>1, <3>2, <4>1, FiguresNat
           DEF Balanced, DropFiguresStay
    <3>4. CASE ~(DropsAt(q, Unretaken) # {} /\ Promised(q) >= Capacity[q])
      <4>1. excess'[q] = excess[q]
        BY <1>5, <1>9, <3>4 DEF One
      <4>2. Taken(q) < Capacity[q]
        <5>1. CASE DropsAt(q, Unretaken) = {}
          BY <1>3, <1>5, <1>10, <2>1, <5>1 DEF Taken
        <5>2. CASE ~(Promised(q) >= Capacity[q])
          BY <1>5, <1>11, <3>2, <5>2
        <5> QED BY <3>4, <5>1, <5>2
      <4> QED BY <1>0, <1>4, <1>5, <1>6, <1>8, <3>1, <3>2, <4>1, <4>2, FiguresNat
           DEF Balanced, DropFiguresStay
    <3> QED BY <3>3, <3>4
  <2>2. CASE q # o
    <3>1. TickFiguresStay(q) /\ seats'[q] = seats[q] /\ excess'[q] = excess[q]
      BY <1>5, <1>6, <1>7, <1>9, <2>2, FiguresNat DEF One, TickFiguresStay
    <3> QED BY <1>0, <1>4, <1>8, <3>1, SameBalanced
  <2> QED BY <2>1, <2>2
<1>13. Kept(q)'
  <2>1. TicksAt(q, Queueing)' \subseteq TicksAt(q, Queueing)
    BY <1>0, <1>1, <1>2, QueueMove DEF In, Queueing
  <2>2. seats'[q] >= seats[q] /\ ToHand(q)' = ToHand(q) /\ ToHand(q) \in Nat /\ seats'[q] \in Nat
    BY <1>4, <1>5, <1>7, FiguresNat DEF One, DropFiguresStay
  <2> QED BY <1>0, <1>4, <1>5, <1>8, <2>1, <2>2 DEF Kept
<1> QED BY <1>12, <1>13 DEF InOrder

\* A tick writes its row.
LEMMA WriteRowInOrder ==
  ASSUME Ordered, TypedState', NEW w \in Tick, WriteRow(w), NoteRow(w), NEW q \in Offering
  PROVE  InOrder(q)'
<1> DEFINE o == job[w].at
           s == job[w].who
           was == status[<<s, o>>] = "REGISTERED"
<1>0. TypeOK /\ LocalsOK /\ Balanced(q) /\ Kept(q)
  BY DEF Ordered, TypedState, InOrder
<1>1. job[w].pc \in {"register", "wait"} /\ UNCHANGED <<count, seats, drop>>
  BY DEF WriteRow, redis
<1>2. o \in Offering /\ s \in Student /\ o \in job[w].todo
  BY <1>0, <1>1, AtOf DEF AtOffering
<1>3. /\ count[q] \in Nat /\ seats[q] \in Nat /\ Capacity[q] \in Nat
      /\ excess[q] \in Nat /\ drift[q] \in Nat /\ open[q] \in Nat
  BY Numbers DEF Ordered
<1>4. DropFiguresStay(q) /\ count'[q] = count[q] /\ seats'[q] = seats[q]
  BY <1>1, FiguresStay
<1>5. excess'[q] = excess[q] /\ open'[q] = open[q]
  BY DEF NoteRow
<1>6. drift'[q] = drift[q] + One(q = o /\ was)
  <2>1. drift \in Counts /\ drift' = Adds(drift, o, One(was))
    BY DEF Ordered, TypedState, NotesOK, NoteRow
  <2> HIDE DEF was
  <2> QED BY <1>2, <2>1, AddsOne
<1>7. CASE job[w].pc = "register"
  <2>1. RowTo(s, o, "REGISTERED") /\ Go(w, "count") /\ "count" \in TickPc
    BY <1>7 DEF WriteRow, RowTo, TickPc
  <2>2. PICK z : JobIs(w, z) /\ z.pc = "count" /\ z.who = s /\ z.todo = job[w].todo /\ z.at = o
    BY <1>0, <2>1, GoShape
  <2>3. TickOK(z)
    BY <1>2, <2>2 DEF TickOK
  <2>4. /\ Hold(q)' = Hold(q) - One(q = o) /\ ToCount(q)' = ToCount(q) + One(q = o)
    BY <1>0, <1>7, <2>2, <2>3, TickFigures, FiguresNat DEF In, One
  <2>5. /\ Reg(q)' = Reg(q) - One(q = o /\ was) + One(q = o)
        /\ Waiting(q)' \subseteq Waiting(q)
    BY <1>0, <1>2, <2>1, RowMove DEF One
  <2>6. Balanced(q)'
    <3>1. CASE q = o
      BY <1>0, <1>3, <1>4, <1>5, <1>6, <2>4, <2>5, <3>1, FiguresNat
         DEF Balanced, Students, Taken, One, DropFiguresStay
    <3>2. CASE q # o
      BY <1>0, <1>3, <1>4, <1>5, <1>6, <2>4, <2>5, <3>2, FiguresNat
         DEF Balanced, Students, Taken, One, DropFiguresStay
    <3> QED BY <3>1, <3>2
  <2>7. TicksAt(q, Queueing)' \subseteq TicksAt(q, Queueing)
    BY <1>0, <2>2, <2>3, QueueMove DEF In, Queueing
  <2> QED BY <1>0, <1>4, <1>5, <2>5, <2>6, <2>7, SameKept DEF InOrder, DropFiguresStay
<1>8. CASE job[w].pc = "wait"
  <2>1. RowTo(s, o, "WAITLISTED") /\ NextOffering(w)
    BY <1>8 DEF WriteRow, RowTo
  <2> DEFINE z == Without(w, o)
  <2>2. JobIs(w, z) /\ TickOK(z) /\ z.pc \in {"idle", "seat"}
    BY <1>0, <1>8, <2>1, WithoutShape DEF JobIs, NextOffering
  <2> HIDE DEF z
  <2>3. TickFiguresStay(q)
    BY <1>0, <1>8, <2>2, TickElsewhere
  <2>4. /\ Reg(q)' = Reg(q) - One(q = o /\ was)
        /\ q # o => Waiting(q)' = Waiting(q)
    BY <1>0, <1>2, <2>1, RowMove, FiguresNat DEF One
  <2>5. Balanced(q)'
    <3>1. CASE q = o /\ was
      BY <1>0, <1>3, <1>4, <1>5, <1>6, <2>3, <2>4, <3>1, FiguresNat
         DEF Balanced, Students, Taken, One, DropFiguresStay, TickFiguresStay
    <3>2. CASE ~(q = o /\ was)
      BY <1>0, <1>3, <1>4, <1>5, <1>6, <2>3, <2>4, <3>2, FiguresNat
         DEF Balanced, Students, Taken, One, DropFiguresStay, TickFiguresStay
    <3> QED BY <3>1, <3>2
  <2>6. TicksAt(q, Queueing)' \subseteq TicksAt(q, Queueing)
    BY <1>0, <2>2, QueueMove DEF In, Queueing
  <2>7. CASE q = o
    <3>1. w \in TicksAt(q, Queueing)
      BY <1>8, <2>7 DEF TicksAt, Queueing
    <3> QED BY <1>0, <1>4, <1>5, <2>5, <3>1 DEF Kept, InOrder, DropFiguresStay
  <2>8. CASE q # o
    BY <1>0, <1>4, <1>5, <2>4, <2>5, <2>6, <2>8, SameKept DEF InOrder, DropFiguresStay
  <2> QED BY <2>7, <2>8
<1> QED BY <1>1, <1>7, <1>8

\* A tick counts its student.
LEMMA AddToCountInOrder ==
  ASSUME Ordered, TypedState', NEW w \in Tick, AddToCount(w), UNCHANGED history, NEW q \in Offering
  PROVE  InOrder(q)'
<1> DEFINE o == job[w].at
           z == Without(w, o)
<1>0. TypeOK /\ LocalsOK /\ Balanced(q) /\ Kept(q)
  BY DEF Ordered, TypedState, InOrder
<1>1. job[w].pc = "count" /\ UNCHANGED <<status, seats, drop>> /\ o \in Offering
  BY <1>0, AtOf DEF AddToCount, redis, AtOffering
<1>2. JobIs(w, z) /\ TickOK(z) /\ z.pc \in {"idle", "seat"}
  BY <1>0, <1>1, WithoutShape DEF JobIs, NextOffering, AddToCount
<1>3. /\ count[q] \in Nat /\ seats[q] \in Nat /\ Capacity[q] \in Nat
      /\ excess[q] \in Nat /\ drift[q] \in Nat /\ open[q] \in Nat
  BY Numbers DEF Ordered
<1>4. /\ DropFiguresStay(q) /\ seats'[q] = seats[q] /\ Reg(q)' = Reg(q) /\ Waiting(q)' = Waiting(q)
      /\ excess'[q] = excess[q] /\ drift'[q] = drift[q] /\ open'[q] = open[q]
  BY <1>1, FiguresStay DEF history
<1> HIDE DEF z
<1>5. Hold(q)' = Hold(q) /\ ToCount(q)' = ToCount(q) - One(q = o)
  BY <1>0, <1>1, <1>2, TickFigures, FiguresNat DEF In, One
<1>6. count'[q] = count[q] + One(q = o)
  <2>1. count' = [count EXCEPT ![o] = count[o] + 1] /\ count \in [Offering -> Nat]
    BY <1>0 DEF AddToCount, TypeOK, Counts
  <2> QED BY <1>1, <1>3, <2>1 DEF One
<1>7. Balanced(q)'
  BY <1>0, <1>3, <1>4, <1>5, <1>6, FiguresNat DEF Balanced, Students, Taken, One, DropFiguresStay
<1>8. TicksAt(q, Queueing)' \subseteq TicksAt(q, Queueing)
  BY <1>0, <1>2, QueueMove DEF In, Queueing
<1> QED BY <1>0, <1>4, <1>7, <1>8, SameKept DEF InOrder, DropFiguresStay

\* Every noted step of a tick keeps the books.
LEMMA ProcessInOrder ==
  ASSUME Ordered, TypedState', NEW w \in Tick, NotedProcess(w), NEW q \in Offering
  PROVE  InOrder(q)'
<1>0. TypeOK /\ LocalsOK
  BY DEF Ordered, TypedState
<1>1. CASE FillSeats(w) /\ NoteFill
  <2>1. PICK z : JobIs(w, z) /\ z.pc = "seat" /\ z.who = job[w].who
    BY <1>0, <1>1, FillSeatsShape
  <2>2. job[w].pc = "fill" /\ UNCHANGED <<status, count, drop>>
    BY <1>1 DEF FillSeats, rows
  <2>3. TickOK(z)
    BY <1>0, <2>1, <2>2, WhoOf, NoOfferingOK
  <2>4. TickFiguresStay(q) /\ DropFiguresStay(q)
    BY <1>0, <2>1, <2>2, <2>3, TickElsewhere, FiguresStay
  <2>5. TicksAt(q, Queueing)' \subseteq TicksAt(q, Queueing)
    BY <1>0, <2>1, <2>3, QueueMove DEF In, Queueing
  <2> QED BY <1>1, <2>2, <2>4, <2>5, FillInOrder
<1>2. ASSUME NEW o \in Offering, TakeSeat(w, o), NoteSeat(o) PROVE InOrder(q)'
  BY <1>2, TakeSeatInOrder
<1>3. CASE WriteRow(w) /\ NoteRow(w)
  BY <1>3, WriteRowInOrder
<1>4. CASE Pop(w) /\ UNCHANGED history
  <2>1. PICK z : JobIs(w, z) /\ z.pc = "read" /\ z.who = Head(queue)
    BY <1>0, <1>4, PopShape
  <2>2. TickOK(z) /\ job[w].pc = "idle" /\ UNCHANGED <<status, count, seats, drop>>
    BY <1>0, <1>4, <2>1, NoOfferingOK, IdleRows DEF Pop, rows, TypeOK
  <2> QED BY <1>4, <2>1, <2>2, QuietTick DEF In, Queueing
<1>5. CASE ReadCart(w) /\ UNCHANGED history
  <2>1. job[w].pc = "read" /\ UNCHANGED <<status, count, seats, drop>>
    BY <1>5 DEF ReadCart, rows, redis
  <2>2. PICK todo \in SUBSET Offering :
          job' = [job EXCEPT ![w] = IF todo = {} THEN IdleJob
                                    ELSE [@ EXCEPT !.pc = "warm?", !.todo = todo]]
    BY <1>5 DEF ReadCart
  <2>3. CASE todo = {}
    <3>1. JobIs(w, IdleJob) /\ TickOK(IdleJob) /\ IdleJob.pc = "idle"
      BY <2>2, <2>3, IdleRows DEF JobIs
    <3> QED BY <1>5, <2>1, <3>1, QuietTick DEF In, Queueing
  <2>4. CASE todo # {}
    <3>1. PICK z : JobIs(w, z) /\ z.pc = "warm?" /\ z.who = job[w].who
      BY <1>0, <2>2, <2>4, ReadCartShape
    <3>2. TickOK(z)
      BY <1>0, <2>1, <3>1, WhoOf, NoOfferingOK
    <3> QED BY <1>5, <2>1, <3>1, <3>2, QuietTick DEF In, Queueing
  <2> QED BY <2>3, <2>4
<1>6. CASE CheckWarm(w) /\ UNCHANGED history
  <2>1. job[w].pc = "warm?" /\ UNCHANGED <<status, count, seats, drop>>
    BY <1>6 DEF CheckWarm, rows, redis
  <2>2. PICK pc \in {"seat", "counts"} : Go(w, pc)
    BY <1>6 DEF CheckWarm
  <2>3. pc \in TickPc
    BY DEF TickPc
  <2>4. PICK z : JobIs(w, z) /\ z.pc = pc /\ z.who = job[w].who
    BY <1>0, <2>2, <2>3, GoShape
  <2>5. TickOK(z)
    BY <1>0, <2>1, <2>4, WhoOf, NoOfferingOK
  <2> QED BY <1>6, <2>1, <2>4, <2>5, QuietTick DEF In, Queueing
<1>7. CASE ReadCounts(w) /\ UNCHANGED history
  <2>1. PICK z : JobIs(w, z) /\ z.pc = "fill" /\ z.who = job[w].who
    BY <1>0, <1>7, ReadCountsShape
  <2>2. job[w].pc = "counts" /\ UNCHANGED <<status, count, seats, drop>>
    BY <1>7 DEF ReadCounts, rows, redis
  <2>3. TickOK(z)
    BY <1>0, <2>1, <2>2, WhoOf, NoOfferingOK
  <2> QED BY <1>7, <2>1, <2>2, <2>3, QuietTick DEF In, Queueing
<1>8. ASSUME NEW o \in Offering, FindFull(w, o), UNCHANGED history PROVE InOrder(q)'
  <2>1. job[w].pc = "seat" /\ seats[o] >= Capacity[o] /\ UNCHANGED <<status, count, seats, drop>>
    BY <1>8 DEF FindFull, rows, redis
  <2>2. PICK z : /\ JobIs(w, z) /\ TickOK(z)
                 /\ (z.pc = "place" /\ z.at = o) \/ z.pc \in {"idle", "seat"}
    BY <1>0, <1>8, FindFullShape
  <2>3. In(z, q, Queueing) => seats[q] >= Capacity[q]
    BY <2>1, <2>2 DEF In, Queueing
  <2> QED BY <1>8, <2>1, <2>2, <2>3, QuietTick
<1>9. CASE TakePlace(w) /\ UNCHANGED history
  <2>1. job[w].pc = "place" /\ UNCHANGED <<status, count, seats, drop>>
    BY <1>9 DEF TakePlace, rows
  <2>2. job[w].at \in job[w].todo /\ job[w].who \in Student
    BY <1>0, <2>1, AtOf DEF AtOffering
  <2>3. PICK z : /\ JobIs(w, z) /\ z.pc = "wait" /\ z.who = job[w].who
                 /\ z.todo = job[w].todo /\ z.at = job[w].at
    BY <1>0, <1>9, TakePlaceShape
  <2>4. TickOK(z)
    BY <2>2, <2>3 DEF TickOK
  <2>5. In(z, q, Queueing) => In(job[w], q, Queueing)
    BY <2>1, <2>3 DEF In, Queueing
  <2> QED BY <1>9, <2>1, <2>3, <2>4, <2>5, QuietTick
<1>10. CASE AddToCount(w) /\ UNCHANGED history
  BY <1>10, AddToCountInOrder
<1> QED
  BY <1>1, <1>2, <1>3, <1>4, <1>5, <1>6, <1>7, <1>8, <1>9, <1>10 DEF NotedProcess

\* A drop leaves the books of the other classes.
LEMMA ElsewhereInOrder ==
  ASSUME Ordered, NEW d \in DropCall, NEW z, DropIs(d, z), DropOK(z), NEW q \in Offering,
         drop[d].at # q, z.at # q, UNCHANGED job,
         Reg(q)' = Reg(q), Waiting(q)' \subseteq Waiting(q),
         count'[q] = count[q], seats'[q] = seats[q],
         excess'[q] = excess[q], drift'[q] = drift[q], open'[q] = open[q]
  PROVE  InOrder(q)'
<1>1. TypeOK /\ LocalsOK /\ Balanced(q) /\ Kept(q)
  BY DEF Ordered, TypedState, InOrder
<1>2. DropFiguresStay(q) /\ TickFiguresStay(q)
  BY <1>1, DropElsewhere, FiguresStay
<1>3. TicksAt(q, Queueing)' = TicksAt(q, Queueing)
  BY DEF TicksAt
<1> QED BY <1>1, <1>2, <1>3, SameBalanced, SameKept DEF InOrder, DropFiguresStay

\* A drop's step that touches no figure of its class keeps the books.
LEMMA QuietDrop ==
  ASSUME Ordered, NEW d \in DropCall, NEW z, DropIs(d, z), DropOK(z), NEW q \in Offering,
         DropFiguresStay(q), UNCHANGED <<status, count, seats, job, history>>
  PROVE  InOrder(q)'
<1>1. Balanced(q) /\ Kept(q)
  BY DEF Ordered, InOrder
<1>2. TickFiguresStay(q) /\ Reg(q)' = Reg(q) /\ Waiting(q)' = Waiting(q)
  BY FiguresStay
<1>3. TicksAt(q, Queueing)' = TicksAt(q, Queueing)
  BY DEF TicksAt
<1> QED BY <1>1, <1>2, <1>3, SameBalanced, SameKept DEF InOrder, DropFiguresStay, history

\* What the figures of a class do when a drop of it goes from statement a to b.
FigureMoves(o, a, b) ==
  /\ Uncounted(o)' = Uncounted(o) - One(a = "uncount") + One(b = "uncount")
  /\ ToRelease(o)' = ToRelease(o) - One(a \in Unreleased) + One(b \in Unreleased)
  /\ ToRetake(o)' = ToRetake(o) - One(a \in Unretaken) + One(b \in Unretaken)
  /\ ToRecount(o)' = ToRecount(o) - One(a \in {"shift", "recount"}) + One(b \in {"shift", "recount"})
  /\ ToHand(o)' = ToHand(o) - One(a \in Handing) + One(b \in Handing)

\* The figures after a drop's step at its own class.
LEMMA OwnFigures ==
  ASSUME Ordered, NEW d \in DropCall, NEW z, DropIs(d, z), DropOK(z), NEW o \in Offering,
         drop[d].at = o \/ drop[d].pc = "idle", z.at = o \/ z.pc = "idle"
  PROVE  FigureMoves(o, drop[d].pc, z.pc)
<1>1. TypeOK /\ LocalsOK
  BY DEF Ordered, TypedState
<1>2. "idle" \notin Unreleased /\ "idle" \notin Unretaken /\ "idle" \notin Handing
      /\ "idle" \notin {"uncount"} /\ "idle" \notin {"shift", "recount"}
  BY DEF Unreleased, Unretaken, Handing
<1>3. \A pcs : "idle" \notin pcs =>
        /\ One(In(drop[d], o, pcs)) = One(drop[d].pc \in pcs)
        /\ One(In(z, o, pcs)) = One(z.pc \in pcs)
  BY DEF In, One
<1>4. One(drop[d].pc \in {"uncount"}) = One(drop[d].pc = "uncount")
      /\ One(z.pc \in {"uncount"}) = One(z.pc = "uncount")
  BY DEF One
<1> QED BY <1>1, <1>2, <1>3, <1>4, DropFigures DEF FigureMoves

\* The row is dropped.
LEMMA DropRowInOrder ==
  ASSUME Ordered, NEW d \in DropCall, DropRow(d), NoteDropRow(d), NEW q \in Offering
  PROVE  InOrder(q)'
<1> DEFINE o == drop[d].at
           s == drop[d].who
           again == status[<<s, o>>] # "REGISTERED"
<1>0. TypeOK /\ LocalsOK /\ Balanced(q) /\ Kept(q)
  BY DEF Ordered, TypedState, InOrder
<1>1. drop[d].pc = "drop" /\ o \in Offering /\ s \in Student
  BY <1>0, DropRowForm
<1>2. PICK z : DropIs(d, z) /\ DropOK(z) /\ z.pc = "uncount" /\ z.at = o
  BY <1>0, DropRowForm
<1>3. RowTo(s, o, "DROPPED") /\ UNCHANGED <<count, seats, job>>
  BY DEF DropRow, RowTo, redis
<1>4. /\ Reg(q)' = Reg(q) - One(q = o /\ ~again)
      /\ Waiting(q)' \subseteq Waiting(q)
  BY <1>0, <1>1, <1>3, RowMove, FiguresNat DEF One
<1>5. excess'[q] = excess[q] + One(q = o /\ again) /\ drift'[q] = drift[q] + One(q = o /\ again)
  <2>1. /\ excess \in Counts /\ excess' = Adds(excess, o, One(again))
        /\ drift \in Counts /\ drift' = Adds(drift, o, One(again))
    BY DEF Ordered, TypedState, NotesOK, NoteDropRow
  <2> HIDE DEF again
  <2> QED BY <1>1, <2>1, AddsOne
<1>6. open'[q] = open[q] /\ count'[q] = count[q] /\ seats'[q] = seats[q]
  BY <1>3 DEF NoteDropRow
<1>7. /\ count[q] \in Nat /\ seats[q] \in Nat /\ Capacity[q] \in Nat
      /\ excess[q] \in Nat /\ drift[q] \in Nat /\ open[q] \in Nat
  BY Numbers DEF Ordered
<1>8. CASE q # o
  <2>1. Reg(q)' = Reg(q) /\ excess'[q] = excess[q] /\ drift'[q] = drift[q]
    BY <1>4, <1>5, <1>7, <1>8, FiguresNat DEF One
  <2> QED BY <1>2, <1>3, <1>4, <1>6, <1>8, <2>1, ElsewhereInOrder
<1>9. CASE q = o
  <2>1. /\ Uncounted(q)' = Uncounted(q) + 1 /\ ToRelease(q)' = ToRelease(q) + 1
        /\ ToRetake(q)' = ToRetake(q) /\ ToRecount(q)' = ToRecount(q) /\ ToHand(q)' = ToHand(q)
    <3>1. FigureMoves(q, drop[d].pc, z.pc)
      BY <1>1, <1>2, <1>9, OwnFigures
    <3> QED BY <1>1, <1>2, <1>9, <3>1, FiguresNat DEF FigureMoves, One, Unreleased, Unretaken, Handing
  <2>2. TickFiguresStay(q) /\ TicksAt(q, Queueing)' = TicksAt(q, Queueing)
    BY <1>3, FiguresStay DEF TicksAt
  <2>3. Balanced(q)'
    <3>1. CASE again
      BY <1>0, <1>4, <1>5, <1>6, <1>7, <1>9, <2>1, <2>2, <3>1, FiguresNat
         DEF Balanced, Students, Taken, One, TickFiguresStay
    <3>2. CASE ~again
      BY <1>0, <1>4, <1>5, <1>6, <1>7, <1>9, <2>1, <2>2, <3>2, FiguresNat
         DEF Balanced, Students, Taken, One, TickFiguresStay
    <3> QED BY <3>1, <3>2
  <2> QED BY <1>0, <1>4, <1>6, <2>1, <2>2, <2>3, SameKept DEF InOrder
<1> QED BY <1>8, <1>9

\* The dropped student is taken from the count.
LEMMA TakeFromCountInOrder ==
  ASSUME Ordered, NEW d \in DropCall, TakeFromCount(d), NoteUncount(d), NEW q \in Offering
  PROVE  InOrder(q)'
<1> DEFINE o == drop[d].at
           floor == count[o] = 0
<1>0. TypeOK /\ LocalsOK /\ Balanced(q) /\ Kept(q)
  BY DEF Ordered, TypedState, InOrder
<1>1. drop[d].pc = "uncount" /\ o \in Offering
  BY <1>0, TakeFromCountForm
<1>2. PICK z : DropIs(d, z) /\ DropOK(z) /\ z.pc = "get" /\ z.at = o
  BY <1>0, TakeFromCountForm
<1>3. UNCHANGED <<status, seats, job>>
  BY DEF TakeFromCount, redis
<1>4. /\ Reg(q)' = Reg(q) /\ Waiting(q)' = Waiting(q) /\ TickFiguresStay(q)
      /\ TicksAt(q, Queueing)' = TicksAt(q, Queueing)
  BY <1>3, FiguresStay DEF TicksAt
<1>5. drift'[q] = drift[q] + One(q = o /\ floor)
  <2>1. drift \in Counts /\ drift' = Adds(drift, o, One(floor))
    BY DEF Ordered, TypedState, NotesOK, NoteUncount
  <2> HIDE DEF floor
  <2> QED BY <1>1, <2>1, AddsOne
<1>6. open'[q] = open[q] /\ excess'[q] = excess[q] /\ seats'[q] = seats[q]
  BY <1>3 DEF NoteUncount
<1>7. /\ count[q] \in Nat /\ seats[q] \in Nat /\ Capacity[q] \in Nat
      /\ excess[q] \in Nat /\ drift[q] \in Nat /\ open[q] \in Nat
  BY Numbers DEF Ordered
<1>8. count \in [Offering -> Nat]
      /\ count' = [count EXCEPT ![o] = IF count[o] = 0 THEN 0 ELSE count[o] - 1]
  BY <1>0 DEF TakeFromCount, TypeOK, Counts
<1>9. CASE q # o
  <2>1. count'[q] = count[q]
    BY <1>8, <1>9
  <2>2. drift'[q] = drift[q]
    BY <1>5, <1>7, <1>9 DEF One
  <2> QED BY <1>2, <1>3, <1>4, <1>6, <1>9, <2>1, <2>2, ElsewhereInOrder
<1>10. CASE q = o
  <2>1. /\ Uncounted(q)' = Uncounted(q) - 1 /\ ToRelease(q)' = ToRelease(q)
        /\ ToRetake(q)' = ToRetake(q) /\ ToRecount(q)' = ToRecount(q) /\ ToHand(q)' = ToHand(q)
    <3>1. FigureMoves(q, drop[d].pc, z.pc)
      BY <1>1, <1>2, <1>10, OwnFigures
    <3> QED BY <1>1, <1>2, <1>10, <3>1, FiguresNat DEF FigureMoves, One, Unreleased, Unretaken, Handing
  <2>2. count'[q] = IF floor THEN 0 ELSE count[q] - 1
    BY <1>8, <1>10
  <2>3. Balanced(q)'
    <3>1. CASE floor
      BY <1>0, <1>4, <1>5, <1>6, <1>7, <1>10, <2>1, <2>2, <3>1, FiguresNat
         DEF Balanced, Students, Taken, One, TickFiguresStay
    <3>2. CASE ~floor
      BY <1>0, <1>4, <1>5, <1>6, <1>7, <1>10, <2>1, <2>2, <3>2, FiguresNat
         DEF Balanced, Students, Taken, One, TickFiguresStay
    <3> QED BY <3>1, <3>2
  <2> QED BY <1>0, <1>4, <1>6, <2>1, <2>3, SameKept DEF InOrder
<1> QED BY <1>9, <1>10

\* A drop reads the seats.
LEMMA GetSeatsInOrder ==
  ASSUME Ordered, NEW d \in DropCall, GetSeats(d), UNCHANGED history, NEW q \in Offering
  PROVE  InOrder(q)'
<1>0. TypeOK /\ LocalsOK /\ Cold
  BY DEF Ordered, TypedState
<1> DEFINE o == drop[d].at
<1>1. drop[d].pc \in {"get", "again"} /\ o \in Offering /\ UNCHANGED <<status, count, seats, job>>
  BY <1>0, GetSeatsForm DEF GetSeats, rows, redis
<1>2. warm
  BY <1>0, <1>1, IdleRows DEF Cold
<1>3. PICK z : /\ DropIs(d, z) /\ DropOK(z) /\ z.at = o
               /\ \/ drop[d].pc = "get" /\ z.pc = "release"
                  \/ drop[d].pc = "again" /\ z.pc = "retake"
  BY <1>0, <1>2, GetSeatsForm
<1>4. DropFiguresStay(q)
  <2>1. CASE q # o
    BY <1>0, <1>3, <2>1, DropElsewhere
  <2>2. CASE q = o
    <3>1. FigureMoves(q, drop[d].pc, z.pc)
      BY <1>1, <1>3, <2>2, OwnFigures
    <3> QED BY <1>1, <1>3, <2>2, <3>1, FiguresNat DEF FigureMoves, One, Unreleased, Unretaken, Handing, DropFiguresStay
  <2> QED BY <2>1, <2>2
<1> QED BY <1>1, <1>3, <1>4, QuietDrop

\* The seat is released.
LEMMA ReleaseSeatInOrder ==
  ASSUME Ordered, TypedState', NEW d \in DropCall, ReleaseSeat(d), NoteRelease(d), NEW q \in Offering
  PROVE  InOrder(q)'
<1> DEFINE o == drop[d].at
           lost == Lost(seats[o] - 1, seats'[o])
           gap == Gap(seats[o] - 1, seats'[o])
<1>0. TypeOK /\ LocalsOK /\ Balanced(q) /\ Kept(q)
  BY DEF Ordered, TypedState, InOrder
<1>1. drop[d].pc = "release" /\ o \in Offering
  BY <1>0, ReleaseSeatForm
<1>2. PICK z : DropIs(d, z) /\ DropOK(z) /\ z.pc = "select" /\ z.at = o
  BY <1>0, ReleaseSeatForm
<1>3. UNCHANGED <<status, count, job>>
  BY DEF ReleaseSeat, rows
<1>4. /\ Reg(q)' = Reg(q) /\ Waiting(q)' = Waiting(q) /\ TickFiguresStay(q)
      /\ TicksAt(q, Queueing)' = TicksAt(q, Queueing) /\ count'[q] = count[q]
  BY <1>3, FiguresStay DEF TicksAt
<1>5. /\ count[q] \in Nat /\ seats[q] \in Nat /\ Capacity[q] \in Nat /\ seats'[q] \in Nat
      /\ excess[q] \in Nat /\ drift[q] \in Nat /\ open[q] \in Nat
  BY Numbers, NumbersNext DEF Ordered
<1>6. /\ excess \in Counts /\ excess' = Adds(excess, o, lost)
      /\ drift \in Counts /\ drift' = Adds(drift, o, gap)
      /\ open \in Counts /\ open' = Adds(open, o, lost)
  BY DEF Ordered, TypedState, NotesOK, NoteRelease, NoteStore
<1>7. seats[o] \in Nat /\ seats'[o] \in Nat
  BY <1>1, Numbers, NumbersNext DEF Ordered
<1>8. lost \in Nat /\ gap \in Nat
  <2>1. seats[o] - 1 \in Int /\ seats'[o] \in Int
    BY <1>7
  <2> QED BY <2>1, NotedNumbers
<1>9. CASE q # o
  <2>1. seats'[q] = seats[q]
    BY <1>0, <1>9 DEF ReleaseSeat, TypeOK, Counts
  <2>2. excess'[q] = excess[q] /\ drift'[q] = drift[q] /\ open'[q] = open[q]
    <3> HIDE DEF lost, gap
    <3> QED BY <1>1, <1>6, <1>8, <1>9, AddsAt
  <2> QED BY <1>2, <1>3, <1>4, <1>9, <2>1, <2>2, ElsewhereInOrder
<1>10. CASE q = o
  <2>1. /\ Uncounted(q)' = Uncounted(q) /\ ToRelease(q)' = ToRelease(q) - 1
        /\ ToRetake(q)' = ToRetake(q) /\ ToRecount(q)' = ToRecount(q) /\ ToHand(q)' = ToHand(q) + 1
    <3>1. FigureMoves(q, drop[d].pc, z.pc)
      BY <1>1, <1>2, <1>10, OwnFigures
    <3> QED BY <1>1, <1>2, <1>10, <3>1, FiguresNat DEF FigureMoves, One, Unreleased, Unretaken, Handing
  <2>2. /\ excess'[q] = excess[q] + Lost(seats[q] - 1, seats'[q])
        /\ drift'[q] = drift[q] + Gap(seats[q] - 1, seats'[q])
        /\ open'[q] = open[q] + Lost(seats[q] - 1, seats'[q])
    <3>1. excess'[q] = excess[q] + lost /\ drift'[q] = drift[q] + gap /\ open'[q] = open[q] + lost
      <4> HIDE DEF lost, gap
      <4> QED BY <1>1, <1>6, <1>8, <1>10, AddsAt
    <3> QED BY <1>10, <3>1
  <2>3. Balanced(q)'
    BY <1>0, <1>4, <1>5, <2>1, <2>2, FiguresNat
       DEF Balanced, Students, Taken, Lost, Gap, TickFiguresStay
  <2>4. Kept(q)'
    BY <1>0, <1>4, <1>5, <2>1, <2>2, FiguresNat DEF Kept, Lost
  <2> QED BY <2>3, <2>4 DEF InOrder
<1> QED BY <1>9, <1>10

\* A drop looks for the first waiter.
LEMMA SelectWaiterInOrder ==
  ASSUME Ordered, NEW d \in DropCall, SelectWaiter(d), NoteSelect(d), NEW q \in Offering
  PROVE  InOrder(q)'
<1> DEFINE o == drop[d].at
           early == drop'[d] = IdleDrop /\ TicksAt(o, Queueing) # {}
<1>0. TypeOK /\ LocalsOK /\ Balanced(q) /\ Kept(q)
  BY DEF Ordered, TypedState, InOrder
<1>1. drop[d].pc = "select" /\ o \in Offering
  BY <1>0, SelectWaiterForm
<1>2. PICK z : /\ DropIs(d, z) /\ DropOK(z)
               /\ \/ Waiting(o) = {} /\ z = IdleDrop
                  \/ z.pc = "promote" /\ z.at = o
  BY <1>0, SelectWaiterForm
<1>3. UNCHANGED <<status, count, seats, job>>
  BY DEF SelectWaiter, rows, redis
<1>4. /\ Reg(q)' = Reg(q) /\ Waiting(q)' = Waiting(q) /\ TickFiguresStay(q)
      /\ TicksAt(q, Queueing)' = TicksAt(q, Queueing) /\ count'[q] = count[q] /\ seats'[q] = seats[q]
  BY <1>3, FiguresStay DEF TicksAt
<1>5. /\ count[q] \in Nat /\ seats[q] \in Nat /\ Capacity[q] \in Nat
      /\ excess[q] \in Nat /\ drift[q] \in Nat /\ open[q] \in Nat
  BY Numbers DEF Ordered
<1>6. open'[q] = open[q] + One(q = o /\ early) /\ excess'[q] = excess[q] /\ drift'[q] = drift[q]
  <2>1. open \in Counts /\ open' = Adds(open, o, One(early)) /\ UNCHANGED <<excess, drift>>
    BY DEF Ordered, TypedState, NotesOK, NoteSelect
  <2> HIDE DEF early
  <2> QED BY <1>1, <2>1, AddsOne
<1>7. drop'[d] = z /\ IdleDrop.pc = "idle" /\ IdleDrop.at = NoOffering /\ NoOffering \notin Offering
  BY <1>0, <1>2, DropMoves, IdleRows, EnrollmentAssumption
<1>8. CASE q # o
  <2>1. open'[q] = open[q]
    BY <1>5, <1>6, <1>8 DEF One
  <2>2. z.at # q
    BY <1>2, <1>7, <1>8
  <2> QED BY <1>2, <1>3, <1>4, <1>6, <1>8, <2>1, <2>2, ElsewhereInOrder
<1>9. CASE q = o
  <2>1. /\ Uncounted(q)' = Uncounted(q) /\ ToRelease(q)' = ToRelease(q)
        /\ ToRetake(q)' = ToRetake(q) /\ ToRecount(q)' = ToRecount(q)
        /\ ToHand(q)' = ToHand(q) - One(z.pc = "idle")
    <3>1. CASE z = IdleDrop
      <4>1. z.pc = "idle"
        BY <1>7, <3>1
      <4>9. FigureMoves(q, drop[d].pc, z.pc)
        BY <1>1, <1>2, <1>9, <4>1, OwnFigures
      <4> QED BY <1>1, <1>2, <1>9, <4>1, <4>9, FiguresNat DEF FigureMoves, One, Unreleased, Unretaken, Handing
    <3>2. CASE z.pc = "promote" /\ z.at = o
      <4>1. FigureMoves(q, drop[d].pc, z.pc)
        BY <1>1, <1>2, <1>9, <3>2, OwnFigures
      <4> QED BY <1>1, <1>2, <1>9, <3>2, <4>1, FiguresNat DEF FigureMoves, One, Unreleased, Unretaken, Handing
    <3> QED BY <1>2, <3>1, <3>2
  <2>3. Balanced(q)'
    BY <1>0, <1>4, <1>5, <1>6, <2>1, FiguresNat DEF Balanced, Students, Taken, TickFiguresStay
  <2>4. Kept(q)'
    <3>1. CASE z = IdleDrop /\ Waiting(q) = {}
      <4>1. ToHand(q)' = ToHand(q) - 1
        BY <1>7, <2>1, <3>1 DEF One
      <4>2. CASE TicksAt(q, Queueing) = {}
        BY <1>4, <3>1, <4>2 DEF Kept
      <4>3. CASE TicksAt(q, Queueing) # {}
        <5>1. open'[q] = open[q] + 1
          BY <1>6, <1>7, <1>9, <3>1, <4>3 DEF One
        <5> QED BY <1>0, <1>4, <1>5, <4>1, <4>3, <5>1, FiguresNat DEF Kept
      <4> QED BY <4>2, <4>3
    <3>2. CASE z.pc = "promote"
      <4>1. ToHand(q)' = ToHand(q)
        BY <2>1, <3>2, FiguresNat DEF One
      <4>2. open'[q] = open[q]
        BY <1>5, <1>6, <1>7, <3>2 DEF One
      <4> QED BY <1>0, <1>4, <4>1, <4>2, SameKept
    <3> QED BY <1>2, <1>9, <3>1, <3>2
  <2> QED BY <2>3, <2>4 DEF InOrder
<1> QED BY <1>8, <1>9

\* The waiter is promoted.
LEMMA PromoteInOrder ==
  ASSUME Ordered, NEW d \in DropCall, Promote(d), NotePromote(d), NEW q \in Offering
  PROVE  InOrder(q)'
<1> DEFINE o == drop[d].at
           s == drop[d].first
           again == status[<<s, o>>] = "REGISTERED"
           passed == ~again /\ Promised(o) >= Capacity[o]
<1>0. TypeOK /\ LocalsOK /\ Balanced(q) /\ Kept(q)
  BY DEF Ordered, TypedState, InOrder
<1>1. drop[d].pc = "promote" /\ o \in Offering /\ s \in Student
  BY <1>0, PromoteForm, FirstOf
<1>2. PICK z : DropIs(d, z) /\ DropOK(z) /\ z.pc = "shift" /\ z.at = o
  BY <1>0, PromoteForm
<1>3. RowTo(s, o, "REGISTERED") /\ UNCHANGED <<count, seats, job>>
  BY DEF Promote, RowTo, redis
<1>4. /\ Reg(q)' = Reg(q) - One(q = o /\ again) + One(q = o)
      /\ Waiting(q)' \subseteq Waiting(q)
  BY <1>0, <1>1, <1>3, RowMove DEF One
<1>5. excess'[q] = excess[q] + One(q = o /\ passed) /\ drift'[q] = drift[q] + One(q = o /\ again)
  <2>1. /\ excess \in Counts /\ excess' = Adds(excess, o, One(passed))
        /\ drift \in Counts /\ drift' = Adds(drift, o, One(again))
    BY DEF Ordered, TypedState, NotesOK, NotePromote
  <2> HIDE DEF again, passed
  <2> QED BY <1>1, <2>1, AddsOne
<1>6. open'[q] = open[q] /\ count'[q] = count[q] /\ seats'[q] = seats[q]
  BY <1>3 DEF NotePromote
<1>7. /\ count[q] \in Nat /\ seats[q] \in Nat /\ Capacity[q] \in Nat
      /\ excess[q] \in Nat /\ drift[q] \in Nat /\ open[q] \in Nat
  BY Numbers DEF Ordered
<1>8. CASE q # o
  <2>1. Reg(q)' = Reg(q) /\ excess'[q] = excess[q] /\ drift'[q] = drift[q]
    BY <1>4, <1>5, <1>7, <1>8, FiguresNat DEF One
  <2> QED BY <1>2, <1>3, <1>4, <1>6, <1>8, <2>1, ElsewhereInOrder
<1>9. CASE q = o
  <2>1. /\ Uncounted(q)' = Uncounted(q) /\ ToRelease(q)' = ToRelease(q)
        /\ ToRetake(q)' = ToRetake(q) + 1 /\ ToRecount(q)' = ToRecount(q) + 1 /\ ToHand(q)' = ToHand(q)
    <3>1. FigureMoves(q, drop[d].pc, z.pc)
      BY <1>1, <1>2, <1>9, OwnFigures
    <3> QED BY <1>1, <1>2, <1>9, <3>1, FiguresNat DEF FigureMoves, One, Unreleased, Unretaken, Handing
  <2>2. TickFiguresStay(q) /\ TicksAt(q, Queueing)' = TicksAt(q, Queueing)
    BY <1>3, FiguresStay DEF TicksAt
  <2>3. Promised(q) = Taken(q) /\ Taken(q) \in Nat /\ Students(q) \in Nat
    BY <1>7, FiguresNat DEF Promised, Taken, ToRetake, Students
  <2>4. Balanced(q)'
    <3>1. CASE again
      <4>1. excess'[q] = excess[q] /\ drift'[q] = drift[q] + 1 /\ Reg(q)' = Reg(q)
        BY <1>4, <1>5, <1>7, <1>9, <3>1, FiguresNat DEF One
      <4> QED BY <1>0, <1>6, <1>7, <2>1, <2>2, <4>1, FiguresNat
           DEF Balanced, Students, Taken, TickFiguresStay
    <3>2. CASE ~again
      <4>1. drift'[q] = drift[q] /\ Reg(q)' = Reg(q) + 1
        BY <1>4, <1>5, <1>7, <1>9, <3>2, FiguresNat DEF One
      <4>2. Students(q)' = Students(q) + 1 /\ Taken(q)' = Taken(q) + 1
        BY <1>6, <1>7, <2>1, <2>2, <4>1, FiguresNat DEF Students, Taken, TickFiguresStay
      <4>3. CASE Taken(q) >= Capacity[q]
        <5>1. excess'[q] = excess[q] + 1
          BY <1>5, <1>9, <2>3, <3>2, <4>3 DEF One
        <5> QED BY <1>0, <1>6, <1>7, <2>1, <2>2, <2>3, <4>1, <4>2, <5>1, FiguresNat
             DEF Balanced, TickFiguresStay
      <4>4. CASE Taken(q) < Capacity[q]
        <5>1. excess'[q] = excess[q]
          BY <1>5, <1>7, <1>9, <2>3, <4>4 DEF One
        <5> QED BY <1>0, <1>6, <1>7, <2>1, <2>2, <2>3, <4>1, <4>2, <4>4, <5>1, FiguresNat
             DEF Balanced, TickFiguresStay
      <4> QED BY <1>7, <2>3, <4>3, <4>4
    <3> QED BY <3>1, <3>2
  <2> QED BY <1>0, <1>4, <1>6, <2>1, <2>2, <2>4, SameKept DEF InOrder
<1> QED BY <1>8, <1>9

\* The promoted student is counted.
LEMMA CountPromotedInOrder ==
  ASSUME Ordered, NEW d \in DropCall, CountPromoted(d), UNCHANGED history, NEW q \in Offering
  PROVE  InOrder(q)'
<1> DEFINE o == drop[d].at
<1>0. TypeOK /\ LocalsOK /\ Balanced(q) /\ Kept(q)
  BY DEF Ordered, TypedState, InOrder
<1>1. drop[d].pc = "recount" /\ o \in Offering
  BY <1>0, CountPromotedForm
<1> DEFINE p == "again"
<1>2. PICK z : DropIs(d, z) /\ DropOK(z) /\ z.pc = p /\ z.at = o
  BY <1>0, CountPromotedForm
<1>3. UNCHANGED <<status, seats, job>>
  BY DEF CountPromoted, redis
<1>4. /\ Reg(q)' = Reg(q) /\ Waiting(q)' = Waiting(q) /\ TickFiguresStay(q)
      /\ TicksAt(q, Queueing)' = TicksAt(q, Queueing) /\ seats'[q] = seats[q]
      /\ excess'[q] = excess[q] /\ drift'[q] = drift[q] /\ open'[q] = open[q]
  BY <1>3, FiguresStay DEF TicksAt, history
<1>5. /\ count[q] \in Nat /\ seats[q] \in Nat /\ Capacity[q] \in Nat
      /\ excess[q] \in Nat /\ drift[q] \in Nat /\ open[q] \in Nat
  BY Numbers DEF Ordered
<1>6. count \in [Offering -> Nat] /\ count' = [count EXCEPT ![o] = count[o] + 1]
  BY <1>0 DEF CountPromoted, TypeOK, Counts
<1>7. CASE q # o
  <2>1. count'[q] = count[q]
    BY <1>6, <1>7
  <2> QED BY <1>2, <1>3, <1>4, <1>7, <2>1, ElsewhereInOrder
<1>8. CASE q = o
  <2>1. /\ Uncounted(q)' = Uncounted(q) /\ ToRelease(q)' = ToRelease(q)
        /\ ToRetake(q)' = ToRetake(q) /\ ToRecount(q)' = ToRecount(q) - 1 /\ ToHand(q)' = ToHand(q)
    <3>1. FigureMoves(q, drop[d].pc, z.pc)
      BY <1>1, <1>2, <1>8, OwnFigures
    <3> QED BY <1>1, <1>2, <1>8, <3>1, FiguresNat DEF FigureMoves, One, Unreleased, Unretaken, Handing
  <2>2. count'[q] = count[q] + 1
    BY <1>1, <1>6, <1>8
  <2>3. Balanced(q)'
    BY <1>0, <1>4, <1>5, <2>1, <2>2, FiguresNat DEF Balanced, Students, Taken, TickFiguresStay
  <2> QED BY <1>0, <1>4, <2>1, <2>3, SameKept DEF InOrder
<1> QED BY <1>7, <1>8

\* After a step too, the drops at some statements are counted by a natural number.
LEMMA DropsNatNext ==
  ASSUME NEW o
  PROVE  ToRetake(o)' \in Nat /\ ToHand(o)' \in Nat
<1>1. /\ DropsAt(o, Unretaken)' \in SUBSET DropCall /\ DropsAt(o, Handing)' \in SUBSET DropCall
      /\ IsFiniteSet(DropCall)
  BY EnrollmentAssumption DEF DropsAt
<1>2. IsFiniteSet(DropsAt(o, Unretaken)') /\ IsFiniteSet(DropsAt(o, Handing)')
  BY <1>1, FS_Subset
<1> QED BY <1>2, FS_CardinalityType DEF ToRetake, ToHand

\* The seat is taken again.
LEMMA RetakeSeatInOrder ==
  ASSUME Ordered, TypedState', NEW d \in DropCall, RetakeSeat(d), NoteRetake(d), NEW q \in Offering
  PROVE  InOrder(q)'
<1> DEFINE o == drop[d].at
           due == IF seats[o] < Capacity[o] THEN seats[o] + 1 ELSE Capacity[o]
           lost == Lost(due, seats'[o])
           gap == Gap(seats[o] + 1, seats'[o])
<1>0. TypeOK /\ LocalsOK /\ Balanced(q) /\ Kept(q)
  BY DEF Ordered, TypedState, InOrder
<1>1. drop[d].pc = "retake" /\ o \in Offering /\ DropIs(d, IdleDrop) /\ DropOK(IdleDrop)
  BY <1>0, RetakeSeatForm
<1>2. UNCHANGED <<status, count, job>>
  BY DEF RetakeSeat, rows
<1>3. /\ Reg(q)' = Reg(q) /\ Waiting(q)' = Waiting(q) /\ TickFiguresStay(q)
      /\ TicksAt(q, Queueing)' = TicksAt(q, Queueing) /\ count'[q] = count[q]
  BY <1>2, FiguresStay DEF TicksAt
<1>4. /\ count[q] \in Nat /\ seats[q] \in Nat /\ Capacity[q] \in Nat /\ seats'[q] \in Nat
      /\ excess[q] \in Nat /\ drift[q] \in Nat /\ open[q] \in Nat
  BY Numbers, NumbersNext DEF Ordered
<1>5. /\ excess \in Counts /\ excess' = Adds(excess, o, lost)
      /\ drift \in Counts /\ drift' = Adds(drift, o, gap)
      /\ open \in Counts /\ open' = Adds(open, o, lost)
  BY DEF Ordered, TypedState, NotesOK, NoteRetake, NoteStore
<1>6. seats[o] \in Nat /\ seats'[o] \in Nat /\ Capacity[o] \in Nat
  BY <1>1, Numbers, NumbersNext DEF Ordered
<1>7. lost \in Nat /\ gap \in Nat
  <2>1. seats[o] + 1 \in Int /\ due \in Int /\ seats'[o] \in Int
    BY <1>6
  <2> HIDE DEF due
  <2> QED BY <2>1, NotedNumbers
<1>8. IdleDrop.pc = "idle" /\ IdleDrop.at \notin Offering
  BY IdleRows, EnrollmentAssumption
<1>9. CASE q # o
  <2>1. seats'[q] = seats[q]
    BY <1>0, <1>9 DEF RetakeSeat, TypeOK, Counts
  <2>2. excess'[q] = excess[q] /\ drift'[q] = drift[q] /\ open'[q] = open[q]
    <3> HIDE DEF lost, gap
    <3> QED BY <1>1, <1>5, <1>7, <1>9, AddsAt
  <2> QED BY <1>1, <1>2, <1>3, <1>8, <1>9, <2>1, <2>2, ElsewhereInOrder
<1>10. CASE q = o
  <2>1. /\ Uncounted(q)' = Uncounted(q) /\ ToRelease(q)' = ToRelease(q)
        /\ ToRetake(q)' = ToRetake(q) - 1 /\ ToRecount(q)' = ToRecount(q) /\ ToHand(q)' = ToHand(q) - 1
    <3>1. FigureMoves(q, drop[d].pc, IdleDrop.pc)
      BY <1>1, <1>8, <1>10, OwnFigures
    <3> QED BY <1>1, <1>8, <1>10, <3>1, FiguresNat DEF FigureMoves, One, Unreleased, Unretaken, Handing
  <2>2. /\ excess'[q] = excess[q] + Lost(due, seats'[q])
        /\ drift'[q] = drift[q] + Gap(seats[q] + 1, seats'[q])
        /\ open'[q] = open[q] + Lost(due, seats'[q])
    <3>1. excess'[q] = excess[q] + lost /\ drift'[q] = drift[q] + gap /\ open'[q] = open[q] + lost
      <4> HIDE DEF lost, gap
      <4> QED BY <1>1, <1>5, <1>7, <1>10, AddsAt
    <3> QED BY <1>10, <3>1
  <2>3. due = IF seats[q] < Capacity[q] THEN seats[q] + 1 ELSE Capacity[q]
    BY <1>10
  <2> HIDE DEF due
  <2>4. Balanced(q)'
    <3>1. CASE seats[q] < Capacity[q]
      <4>1. due = seats[q] + 1
        BY <2>3, <3>1
      <4> QED BY <1>0, <1>3, <1>4, <2>1, <2>2, <4>1, FiguresNat, DropsNatNext
           DEF Balanced, Students, Taken, Lost, Gap, TickFiguresStay
    <3>2. CASE ~(seats[q] < Capacity[q])
      <4>1. due = Capacity[q] /\ Capacity[q] <= seats[q]
        BY <1>4, <2>3, <3>2
      <4> QED BY <1>0, <1>3, <1>4, <2>1, <2>2, <4>1, FiguresNat, DropsNatNext
           DEF Balanced, Students, Taken, Lost, Gap, TickFiguresStay
    <3> QED BY <3>1, <3>2
  <2>5. Kept(q)'
    <3>1. CASE seats[q] < Capacity[q]
      <4>1. due = seats[q] + 1
        BY <2>3, <3>1
      <4> QED BY <1>0, <1>3, <1>4, <2>1, <2>2, <4>1, FiguresNat, DropsNatNext DEF Kept, Lost
    <3>2. CASE ~(seats[q] < Capacity[q])
      <4>1. due = Capacity[q]
        BY <2>3, <3>2
      <4> QED BY <1>0, <1>3, <1>4, <2>1, <2>2, <4>1, FiguresNat, DropsNatNext DEF Kept, Lost
    <3> QED BY <3>1, <3>2
  <2> QED BY <2>4, <2>5 DEF InOrder
<1> QED BY <1>9, <1>10

\* Every noted step of a drop keeps the books.
LEMMA DropInOrder ==
  ASSUME Ordered, TypedState', NEW d \in DropCall, NotedDrop(d), NEW q \in Offering
  PROVE  InOrder(q)'
<1>0. TypeOK /\ LocalsOK
  BY DEF Ordered, TypedState
<1>1. ASSUME NEW s \in Student, NEW o \in Offering, StartDrop(d, s, o), UNCHANGED history
      PROVE  InOrder(q)'
  <2>1. PICK z : DropIs(d, z) /\ DropOK(z) /\ z.pc = "drop" /\ z.at = o
    BY <1>0, <1>1, StartDropForm
  <2>2. drop[d] = IdleDrop /\ UNCHANGED <<status, count, seats, job>>
    BY <1>1 DEF StartDrop, rows, redis
  <2>3. drop[d].pc = "idle" /\ drop[d].at \notin Offering
    BY <2>2, IdleRows, EnrollmentAssumption
  <2>4. DropFiguresStay(q)
    <3>1. CASE q # o
      BY <1>0, <2>1, <2>3, <3>1, DropElsewhere
    <3>2. CASE q = o
      <4>1. FigureMoves(q, drop[d].pc, z.pc)
        BY <2>1, <2>3, <3>2, OwnFigures
      <4> QED BY <2>1, <2>3, <3>2, <4>1, FiguresNat DEF FigureMoves, One, Unreleased, Unretaken, Handing, DropFiguresStay
    <3> QED BY <3>1, <3>2
  <2> QED BY <1>1, <2>1, <2>2, <2>4, QuietDrop
<1>2. CASE ShiftWaiters(d) /\ NoteShift(d)
  <2>1. drop[d].pc = "shift" /\ UNCHANGED <<status, count, seats, job>>
    BY <1>2 DEF ShiftWaiters, redis
  <2>2. PICK z : DropIs(d, z) /\ DropOK(z) /\ z.pc = "recount" /\ z.at = drop[d].at
    BY <1>0, <1>2, ShiftWaitersForm
  <2>3. DropFiguresStay(q)
    <3>1. CASE q # drop[d].at
      BY <1>0, <2>2, <3>1, DropElsewhere
    <3>2. CASE q = drop[d].at
      <4>1. FigureMoves(q, drop[d].pc, z.pc)
        BY <2>1, <2>2, <3>2, OwnFigures
      <4> QED BY <2>1, <2>2, <3>2, <4>1, FiguresNat DEF FigureMoves, One, Unreleased, Unretaken, Handing, DropFiguresStay
    <3> QED BY <3>1, <3>2
  <2>4. /\ TickFiguresStay(q) /\ Reg(q)' = Reg(q) /\ Waiting(q)' = Waiting(q)
        /\ TicksAt(q, Queueing)' = TicksAt(q, Queueing)
    BY <2>1, FiguresStay DEF TicksAt
  <2> QED BY <1>2, <2>1, <2>3, <2>4, SameBalanced, SameKept
       DEF Ordered, InOrder, NoteShift, DropFiguresStay
<1> QED
  BY <1>1, <1>2, DropRowInOrder, TakeFromCountInOrder, GetSeatsInOrder, ReleaseSeatInOrder,
     SelectWaiterInOrder, PromoteInOrder, CountPromotedInOrder, RetakeSeatInOrder DEF NotedDrop

-----------------------------------------------------------------------------
(* Sessions that end in an error, or with the server.                        *)

Ended(ticks, drops) ==
  /\ job' = [w \in Tick |-> IF w \in ticks THEN IdleJob ELSE job[w]]
  /\ drop' = [d \in DropCall |-> IF d \in drops THEN IdleDrop ELSE drop[d]]

\* The ticks and the drops of a class that end.
CutTicks(ticks, o, pcs) == Cardinality(ticks \intersect TicksAt(o, pcs))
CutDrops(drops, o, pcs) == Cardinality(drops \intersect DropsAt(o, pcs))

\* What is left of them.
LEMMA EndMoves ==
  ASSUME NEW ticks, NEW drops, Ended(ticks, drops), NEW o, NEW pcs, "idle" \notin pcs
  PROVE  /\ TicksAt(o, pcs)' \subseteq TicksAt(o, pcs)
         /\ Cardinality(TicksAt(o, pcs)') = Cardinality(TicksAt(o, pcs)) - CutTicks(ticks, o, pcs)
         /\ Cardinality(DropsAt(o, pcs)') = Cardinality(DropsAt(o, pcs)) - CutDrops(drops, o, pcs)
<1>1. TicksAt(o, pcs)' = TicksAt(o, pcs) \ ticks
  <2>1. \A w \in Tick : job'[w] = IF w \in ticks THEN IdleJob ELSE job[w]
    BY DEF Ended
  <2>2. IdleJob.pc \notin pcs
    BY IdleRows
  <2> QED BY <2>1, <2>2 DEF TicksAt
<1>2. DropsAt(o, pcs)' = DropsAt(o, pcs) \ drops
  <2>1. \A d \in DropCall : drop'[d] = IF d \in drops THEN IdleDrop ELSE drop[d]
    BY DEF Ended
  <2>2. IdleDrop.pc \notin pcs
    BY IdleRows
  <2> QED BY <2>1, <2>2 DEF DropsAt
<1> DEFINE A == TicksAt(o, pcs)
           B == DropsAt(o, pcs)
<1>3. ticks \cap A = A \cap ticks /\ drops \cap B = B \cap drops
  OBVIOUS
<1>4. IsFiniteSet(A) /\ IsFiniteSet(B)
  BY SessionsFinite
<1>5. CutTicks(ticks, o, pcs) = Cardinality(ticks \cap A)
      /\ CutDrops(drops, o, pcs) = Cardinality(drops \cap B)
  BY DEF CutTicks, CutDrops
<1> HIDE DEF A, B
<1>6. Cardinality(A \ ticks) = Cardinality(A) - Cardinality(A \cap ticks)
  BY <1>4, FS_Difference
<1>7. Cardinality(B \ drops) = Cardinality(B) - Cardinality(B \cap drops)
  BY <1>4, FS_Difference
<1>8. Cardinality(A \ ticks) = Cardinality(A) - CutTicks(ticks, o, pcs)
  BY <1>3, <1>5, <1>6
<1>9. Cardinality(B \ drops) = Cardinality(B) - CutDrops(drops, o, pcs)
  BY <1>3, <1>5, <1>7
<1> QED BY <1>1, <1>2, <1>8, <1>9 DEF A, B

\* A cut at statements of two kinds.
LEMMA CutBoth ==
  ASSUME NEW ticks, NEW drops, NEW o, NEW a, NEW b, a \cap b = {}
  PROVE  /\ CutTicks(ticks, o, a \union b) = CutTicks(ticks, o, a) + CutTicks(ticks, o, b)
         /\ CutDrops(drops, o, a \union b) = CutDrops(drops, o, a) + CutDrops(drops, o, b)
<1>1. CutTicks(ticks, o, a \union b) = CutTicks(ticks, o, a) + CutTicks(ticks, o, b)
  <2> DEFINE S == ticks \cap TicksAt(o, a)
             T == ticks \cap TicksAt(o, b)
  <2>1. IsFiniteSet(S) /\ IsFiniteSet(T)
    BY SessionsFinite, FS_Intersection
  <2>2. S \cap T = {} /\ ticks \cap TicksAt(o, a \union b) = S \cup T
    BY DEF TicksAt
  <2> HIDE DEF S, T
  <2>3. Cardinality(S \cup T) = Cardinality(S) + Cardinality(T) - Cardinality(S \cap T)
    BY <2>1, FS_Union
  <2>4. Cardinality(S \cap T) = 0 /\ Cardinality(S) \in Nat /\ Cardinality(T) \in Nat
    BY <2>1, <2>2, FS_EmptySet, FS_CardinalityType
  <2>5. CutTicks(ticks, o, a \union b) = Cardinality(S \cup T)
    BY <2>2 DEF CutTicks
  <2>6. CutTicks(ticks, o, a) = Cardinality(S) /\ CutTicks(ticks, o, b) = Cardinality(T)
    BY DEF CutTicks, S, T
  <2> QED BY <2>3, <2>4, <2>5, <2>6
<1>2. CutDrops(drops, o, a \union b) = CutDrops(drops, o, a) + CutDrops(drops, o, b)
  <2> DEFINE S == drops \cap DropsAt(o, a)
             T == drops \cap DropsAt(o, b)
  <2>1. IsFiniteSet(S) /\ IsFiniteSet(T)
    BY SessionsFinite, FS_Intersection
  <2>2. S \cap T = {} /\ drops \cap DropsAt(o, a \union b) = S \cup T
    BY DEF DropsAt
  <2> HIDE DEF S, T
  <2>3. Cardinality(S \cup T) = Cardinality(S) + Cardinality(T) - Cardinality(S \cap T)
    BY <2>1, FS_Union
  <2>4. Cardinality(S \cap T) = 0 /\ Cardinality(S) \in Nat /\ Cardinality(T) \in Nat
    BY <2>1, <2>2, FS_EmptySet, FS_CardinalityType
  <2>5. CutDrops(drops, o, a \union b) = Cardinality(S \cup T)
    BY <2>2 DEF CutDrops
  <2>6. CutDrops(drops, o, a) = Cardinality(S) /\ CutDrops(drops, o, b) = Cardinality(T)
    BY DEF CutDrops, S, T
  <2> QED BY <2>3, <2>4, <2>5, <2>6
<1> QED BY <1>1, <1>2

\* A cut at some of the statements is a part of it.
LEMMA CutPart ==
  ASSUME NEW drops, NEW o, NEW a, NEW b, a \subseteq b
  PROVE  CutDrops(drops, o, a) <= CutDrops(drops, o, b)
<1>1. drops \cap DropsAt(o, a) \in SUBSET (drops \cap DropsAt(o, b))
  BY DEF DropsAt
<1>2. IsFiniteSet(drops \cap DropsAt(o, b))
  BY SessionsFinite, FS_Intersection
<1> QED BY <1>1, <1>2, FS_Subset DEF CutDrops

\* No tick is at a statement of none.
LEMMA CutNone ==
  ASSUME NEW ticks, NEW o
  PROVE  CutTicks(ticks, o, {}) = 0
<1>1. ticks \cap TicksAt(o, {}) = {}
  BY DEF TicksAt
<1> QED BY <1>1, FS_EmptySet DEF CutTicks

\* Sessions that end keep the books of every class.
LEMMA EndInOrder ==
  ASSUME Ordered, NEW ticks, NEW drops, Ended(ticks, drops), NoteEnd(ticks, drops),
         UNCHANGED <<status, count, seats>>, NEW q \in Offering
  PROVE  InOrder(q)'
<1> DEFINE h == CutTicks(ticks, q, {"register"})
           c == CutTicks(ticks, q, {"count"})
           u == CutDrops(drops, q, {"uncount"})
           r == CutDrops(drops, q, Unreleased)
           p == CutDrops(drops, q, Unretaken)
           x == CutDrops(drops, q, {"shift", "recount"})
           k == CutDrops(drops, q, Handing)
<1>0. Balanced(q) /\ Kept(q)
  BY DEF Ordered, InOrder
<1>1. /\ h \in Nat /\ c \in Nat /\ u \in Nat /\ r \in Nat /\ p \in Nat /\ x \in Nat /\ k \in Nat
  BY CutNumbers DEF CutTicks, CutDrops
<1>2. Hold(q)' = Hold(q) - h /\ ToCount(q)' = ToCount(q) - c
  BY EndMoves DEF Hold, ToCount
<1>3. /\ Uncounted(q)' = Uncounted(q) - u /\ ToRecount(q)' = ToRecount(q) - x
  BY EndMoves DEF Uncounted, ToRecount
<1>4. /\ ToRelease(q)' = ToRelease(q) - r /\ ToRetake(q)' = ToRetake(q) - p
      /\ ToHand(q)' = ToHand(q) - k
  <2>1. "idle" \notin Unreleased /\ "idle" \notin Unretaken /\ "idle" \notin Handing
    BY DEF Unreleased, Unretaken, Handing
  <2> QED BY <2>1, EndMoves DEF ToRelease, ToRetake, ToHand
<1>5. TicksAt(q, Queueing)' \subseteq TicksAt(q, Queueing)
  BY EndMoves DEF Queueing
<1>6. Reg(q)' = Reg(q) /\ Waiting(q)' = Waiting(q) /\ count'[q] = count[q] /\ seats'[q] = seats[q]
  BY FiguresStay
<1>7. u <= r /\ x <= p
  BY CutPart DEF Unreleased, Unretaken
<1>8. excess'[q] = excess[q] + p /\ drift'[q] = drift[q] + (h + c + (r + p)) /\ open'[q] = open[q] + k
  <2>1. /\ excess'[q] = excess[q] + (CutTicks(ticks, q, {}) + p)
        /\ drift'[q] = drift[q] + (CutTicks(ticks, q, {"register", "count"})
                                     + CutDrops(drops, q, Unreleased \union Unretaken))
        /\ open'[q] = open[q] + (CutTicks(ticks, q, {}) + k)
    BY DEF NoteEnd, CutTicks, CutDrops
  <2>2. CutTicks(ticks, q, {"register", "count"}) = h + c
    <3>1. {"register", "count"} = {"register"} \union {"count"} /\ {"register"} \cap {"count"} = {}
      OBVIOUS
    <3> QED BY <3>1, CutBoth
  <2>3. CutDrops(drops, q, Unreleased \union Unretaken) = r + p
    <3>1. Unreleased \cap Unretaken = {}
      BY DEF Unreleased, Unretaken
    <3> QED BY <3>1, CutBoth
  <2> HIDE DEF h, c, r, p, k
  <2> QED BY <1>1, <2>1, <2>2, <2>3, CutNone
<1> HIDE DEF h, c, u, r, p, x, k
<1>9. /\ count[q] \in Nat /\ seats[q] \in Nat /\ Capacity[q] \in Nat
      /\ excess[q] \in Nat /\ drift[q] \in Nat /\ open[q] \in Nat
  BY Numbers DEF Ordered
<1>10. Balanced(q)'
  BY <1>0, <1>1, <1>2, <1>3, <1>4, <1>6, <1>7, <1>8, <1>9, FiguresNat DEF Balanced, Students, Taken
<1>11. Kept(q)'
  BY <1>0, <1>1, <1>4, <1>5, <1>6, <1>8, <1>9, FiguresNat DEF Kept
<1> QED BY <1>10, <1>11 DEF InOrder

-----------------------------------------------------------------------------
(* The books of every class, in every behaviour.                             *)

\* They hold at the start.
LEMMA InitOrdered ==
  ASSUME HistoryInit, TypedState
  PROVE  Ordered
<1>1. ASSUME NEW o \in Offering PROVE InOrder(o)
  <2>1. \A pcs : "idle" \notin pcs => TicksAt(o, pcs) = {} /\ DropsAt(o, pcs) = {}
    BY IdleRows DEF HistoryInit, Init, TicksAt, DropsAt
  <2>2. /\ "idle" \notin Unreleased /\ "idle" \notin Unretaken /\ "idle" \notin Handing
        /\ "idle" \notin Queueing
    BY DEF Unreleased, Unretaken, Handing, Queueing
  <2>3. Registered(o) = {} /\ Waiting(o) = {}
    <3>1. \A s \in Student : <<s, o>> \in Key
      BY DEF Key
    <3> QED BY <3>1 DEF HistoryInit, Init, Registered, Waiting
  <2>4. /\ Hold(o) = 0 /\ ToCount(o) = 0 /\ Uncounted(o) = 0 /\ ToRelease(o) = 0
        /\ ToRetake(o) = 0 /\ ToRecount(o) = 0 /\ Reg(o) = 0
    BY <2>1, <2>2, <2>3, FS_EmptySet
       DEF Hold, ToCount, Uncounted, ToRelease, ToRetake, ToRecount, Reg
  <2>5. count[o] = 0 /\ seats[o] = 0 /\ excess[o] = 0 /\ drift[o] = 0 /\ Capacity[o] \in Nat
    BY IdleRows, Numbers DEF HistoryInit, Init
  <2>6. Balanced(o)
    BY <2>4, <2>5 DEF Balanced, Students, Taken
  <2>7. Kept(o)
    BY <2>1, <2>2, <2>3 DEF Kept
  <2> QED BY <2>6, <2>7 DEF InOrder
<1>2. Cold
  BY IdleRows DEF HistoryInit, Init, Cold
<1> QED BY <1>1, <1>2 DEF Ordered

\* Every step with its note keeps them.
LEMMA OrderedStays ==
  ASSUME Ordered, TypedState', [HistoryNext]_allVars
  PROVE  Ordered'
<1>0. TypeOK /\ LocalsOK /\ Cold
  BY DEF Ordered, TypedState
<1>1. Cold'
  BY <1>0, NotedIsNext, ColdStays
<1>2. ASSUME NEW q \in Offering PROVE InOrder(q)'
  <2>1. ASSUME NEW w \in Tick, NotedProcess(w) PROVE InOrder(q)'
    BY <2>1, ProcessInOrder
  <2>2. ASSUME NEW d \in DropCall, NotedDrop(d) PROVE InOrder(q)'
    BY <2>2, DropInOrder
  <2>3. ASSUME NEW w \in Tick, TicketFails(w), NoteEnd({w}, {}) PROVE InOrder(q)'
    <3>1. Ended({w}, {}) /\ UNCHANGED <<status, count, seats>>
      BY <1>0, <2>3, Typed DEF TicketFails, Ended, rows, redis
    <3> QED BY <2>3, <3>1, EndInOrder
  <2>4. ASSUME NEW d \in DropCall, DropFails(d), NoteEnd({}, {d}) PROVE InOrder(q)'
    <3>1. Ended({}, {d}) /\ UNCHANGED <<status, count, seats>>
      BY <1>0, <2>4, Typed DEF DropFails, Ended, rows, redis
    <3> QED BY <2>4, <3>1, EndInOrder
  <2>5. CASE Crash /\ NoteEnd(Tick, DropCall)
    <3>1. Ended(Tick, DropCall) /\ UNCHANGED <<status, count, seats>>
      BY <2>5 DEF Crash, Ended, rows, redis
    <3> QED BY <2>5, <3>1, EndInOrder
  <2>6. CASE FillForWarmup /\ NoteFill
    <3>1. UNCHANGED <<status, count, job, drop>>
      BY <2>6 DEF FillForWarmup, rows
    <3>2. TickFiguresStay(q) /\ DropFiguresStay(q) /\ TicksAt(q, Queueing)' = TicksAt(q, Queueing)
      BY <3>1, FiguresStay DEF TicksAt
    <3> QED BY <2>6, <3>1, <3>2, FillInOrder
  <2>7. ASSUME UNCHANGED <<status, count, seats, job, drop, history>> PROVE InOrder(q)'
    <3>1. /\ Reg(q)' = Reg(q) /\ Waiting(q)' = Waiting(q)
          /\ TickFiguresStay(q) /\ DropFiguresStay(q)
          /\ TicksAt(q, Queueing)' = TicksAt(q, Queueing)
      BY <2>7, FiguresStay DEF TicksAt
    <3> QED BY <2>7, <3>1, SameBalanced, SameKept
         DEF Ordered, InOrder, DropFiguresStay, history
  <2>8. CASE ReadForWarmup /\ UNCHANGED history
    BY <2>7, <2>8 DEF ReadForWarmup, rows, redis
  <2>9. CASE (\E s \in Student : Submit(s)) /\ UNCHANGED history
    BY <2>7, <2>9 DEF Submit, rows, sessions
  <2>10. CASE UNCHANGED allVars
    BY <2>7, <2>10 DEF allVars, vars
  <2> QED BY <2>1, <2>2, <2>3, <2>4, <2>5, <2>6, <2>8, <2>9, <2>10 DEF HistoryNext
<1> QED BY <1>1, <1>2 DEF Ordered

\* They hold in every behaviour.
LEMMA OrderHolds == HistorySpec => []Ordered
<1>1. HistoryInit /\ TypedState => Ordered
  BY InitOrdered
<1>2. Ordered /\ TypedState' /\ [HistoryNext]_allVars => Ordered'
  BY OrderedStays
<1> QED BY <1>1, <1>2, TypesHold, PTL DEF HistorySpec

\* A class is overbooked by no more than the stale writes of its seats, the seats
\* taken during a hand-over, the double drops and the failed hand-overs have cost it
\* (reserveSeats, releaseSeat, takeSeat, dropCourseAction), in every behaviour.
THEOREM ClassesNotOverbooked == HistorySpec => []NoOverbooking
<1>1. Ordered => NoOverbooking
  <2> SUFFICES ASSUME Ordered, NEW o \in Offering
               PROVE  Cardinality(Registered(o)) <= Capacity[o] + excess[o]
    BY DEF NoOverbooking
  <2>1. Students(o) <= Capacity[o] + excess[o] /\ Capacity[o] + excess[o] \in Nat
    BY Numbers DEF Ordered, InOrder, Balanced
  <2>2. Reg(o) <= Students(o) /\ Reg(o) \in Nat /\ Students(o) \in Nat
    BY FiguresNat DEF Students
  <2>3. Reg(o) <= Capacity[o] + excess[o]
    BY <2>1, <2>2
  <2> QED BY <2>3 DEF Reg
<1> QED BY <1>1, OrderHolds, PTL

\* Between sessions enrolledCount and the seats in Redis are off the number of
\* registered students by no more than the stale writes, the rows written or dropped
\* twice and the sessions that failed half way have cost them.
THEOREM CountersAgreeHolds == HistorySpec => []CountersAgree
<1>1. Ordered => CountersAgree
  <2> SUFFICES ASSUME Ordered, Resting, NEW o \in Offering
               PROVE  /\ Gap(count[o], Cardinality(Registered(o))) <= drift[o]
                      /\ Gap(seats[o], Cardinality(Registered(o))) <= drift[o]
    BY DEF CountersAgree
  <2>1. \A pcs : "idle" \notin pcs => TicksAt(o, pcs) = {} /\ DropsAt(o, pcs) = {}
    BY IdleRows DEF Resting, TicksAt, DropsAt
  <2>2. "idle" \notin Unreleased /\ "idle" \notin Unretaken
    BY DEF Unreleased, Unretaken
  <2>3. /\ Hold(o) = 0 /\ ToCount(o) = 0 /\ Uncounted(o) = 0 /\ ToRelease(o) = 0
        /\ ToRetake(o) = 0 /\ ToRecount(o) = 0
    BY <2>1, <2>2, FS_EmptySet DEF Hold, ToCount, Uncounted, ToRelease, ToRetake, ToRecount
  <2>4. count[o] \in Nat /\ seats[o] \in Nat /\ drift[o] \in Nat /\ Reg(o) \in Nat
    BY Numbers, FiguresNat DEF Ordered
  <2>5. /\ Reg(o) <= count[o] + drift[o] /\ count[o] <= Reg(o) + drift[o]
        /\ Reg(o) <= seats[o] + drift[o] /\ seats[o] <= Reg(o) + drift[o]
    BY <2>3, <2>4 DEF Ordered, InOrder, Balanced, Students, Taken
  <2>6. Gap(count[o], Reg(o)) <= drift[o] /\ Gap(seats[o], Reg(o)) <= drift[o]
    BY <2>4, <2>5 DEF Gap
  <2> QED BY <2>6 DEF Reg
<1> QED BY <1>1, OrderHolds, PTL

\* While somebody waits, no seat is free to a newcomer beyond those a drop is handing
\* over and those a stale write, a failed drop or a drop that looked too early left open.
THEOREM SeatsKeptForWaitersHolds == HistorySpec => []SeatsKeptForWaiters
<1>1. Ordered => SeatsKeptForWaiters
  BY DEF Ordered, InOrder, Kept, ToHand, SeatsKeptForWaiters
<1> QED BY <1>1, OrderHolds, PTL

-----------------------------------------------------------------------------
(* The waiting line.                                                         *)

\* The ticks that have drawn a place and will write it.
Drawn(o) == TicksAt(o, {"wait"})

Line(o) ==
  /\ \A s \in Waiting(o) : place[<<s, o>>] <= wl[o]
  /\ \A w \in Drawn(o) : job[w].place <= wl[o]
  /\ \A s, t \in Waiting(o) :
       s # t /\ <<s, o>> \notin late.rows /\ <<t, o>> \notin late.rows
         => place[<<s, o>>] # place[<<t, o>>]
  /\ \A s \in Waiting(o), w \in Drawn(o) :
       <<s, o>> \notin late.rows /\ w \notin late.ticks => place[<<s, o>>] # job[w].place
  /\ \A v, w \in Drawn(o) :
       v # w /\ v \notin late.ticks /\ w \notin late.ticks => job[v].place # job[w].place

\* A step that brings nobody new to the line of a class, moves nobody in it and
\* forgets no late place leaves it as it was.
LEMMA SameLine ==
  ASSUME NEW q, Line(q), Waiting(q)' \subseteq Waiting(q), Drawn(q)' \subseteq Drawn(q),
         \A s \in Waiting(q)' : place'[<<s, q>>] = place[<<s, q>>],
         \A w \in Drawn(q)' : job'[w].place = job[w].place,
         wl'[q] = wl[q],
         \A s \in Waiting(q)' : <<s, q>> \in late.rows => <<s, q>> \in late'.rows,
         \A w \in Drawn(q)' : w \in late.ticks => w \in late'.ticks
  PROVE  Line(q)'
<1>1. \A s \in Waiting(q)' : place'[<<s, q>>] <= wl'[q]
  BY DEF Line
<1>2. \A w \in Drawn(q)' : job'[w].place <= wl'[q]
  BY DEF Line
<1>3. \A s, t \in Waiting(q)' :
        s # t /\ <<s, q>> \notin late'.rows /\ <<t, q>> \notin late'.rows
          => place'[<<s, q>>] # place'[<<t, q>>]
  BY DEF Line
<1>4. \A s \in Waiting(q)', w \in Drawn(q)' :
        <<s, q>> \notin late'.rows /\ w \notin late'.ticks => place'[<<s, q>>] # job'[w].place
  BY DEF Line
<1>5. \A v, w \in Drawn(q)' :
        v # w /\ v \notin late'.ticks /\ w \notin late'.ticks => job'[v].place # job'[w].place
  BY DEF Line
<1> QED BY <1>1, <1>2, <1>3, <1>4, <1>5 DEF Line

\* A tick that does not draw a place leaves the drawn ones.
LEMMA DrawnMove ==
  ASSUME TypeOK, LocalsOK, NEW w \in Tick, NEW z, JobIs(w, z), TickOK(z), z.pc # "wait", NEW q
  PROVE  Drawn(q)' \subseteq Drawn(q) \ {w} /\ \A v \in Drawn(q)' : job'[v] = job[v]
<1>1. job'[w] = z /\ \A v \in Tick : v # w => job'[v] = job[v]
  BY JobMoves
<1> QED BY <1>1 DEF Drawn, TicksAt

\* A tick's step that writes no row and draws no place leaves the lines.
LEMMA QuietLine ==
  ASSUME TypeOK, LocalsOK, NEW w \in Tick, NEW z, JobIs(w, z), TickOK(z), z.pc # "wait",
         NEW q \in Offering, Line(q), UNCHANGED <<status, place, wl>>,
         late' = late
  PROVE  Line(q)'
<1>1. Drawn(q)' \subseteq Drawn(q) /\ \A v \in Drawn(q)' : job'[v].place = job[v].place
  BY DrawnMove
<1>2. Waiting(q)' = Waiting(q)
  BY FiguresStay
<1> QED BY <1>1, <1>2, SameLine

\* A tick draws a place.
LEMMA TakePlaceLine ==
  ASSUME TypedState, NEW w \in Tick, TakePlace(w), late' = late, NEW q \in Offering, Line(q)
  PROVE  Line(q)'
<1> DEFINE o == job[w].at
           n == wl[o] + 1
<1>0. TypeOK /\ LocalsOK
  BY DEF TypedState
<1>1. job[w].pc = "place" /\ o \in Offering /\ o \in job[w].todo /\ job[w].who \in Student
  BY <1>0, AtOf DEF TakePlace, AtOffering
<1>2. PICK z : /\ JobIs(w, z) /\ z.pc = "wait" /\ z.who = job[w].who
               /\ z.todo = job[w].todo /\ z.at = o /\ z.place = n
  BY <1>0, TakePlaceShape
<1>3. TickOK(z)
  BY <1>1, <1>2 DEF TickOK
<1>4. job'[w] = z /\ \A v \in Tick : v # w => job'[v] = job[v]
  BY <1>0, <1>2, <1>3, JobMoves
<1>5. Waiting(q)' = Waiting(q) /\ UNCHANGED place
  BY FiguresStay DEF TakePlace, rows
<1>6. CASE q # o
  <2>1. Drawn(q)' \subseteq Drawn(q) \ {w}
    BY <1>2, <1>4, <1>6 DEF Drawn, TicksAt
  <2>2. \A v \in Drawn(q)' : job'[v].place = job[v].place
    BY <1>4, <2>1 DEF Drawn, TicksAt
  <2>3. wl'[q] = wl[q]
    BY <1>0, <1>6 DEF TakePlace, TypeOK, Counts
  <2> QED BY <1>5, <2>1, <2>2, <2>3, SameLine
<1>7. CASE q = o
  <2>1. Drawn(q)' = Drawn(q) \union {w} /\ w \notin Drawn(q)
    BY <1>1, <1>2, <1>4, <1>7 DEF Drawn, TicksAt
  <2>2. job'[w].place = n /\ \A v \in Drawn(q) : job'[v].place = job[v].place
    BY <1>2, <1>4, <2>1 DEF Drawn, TicksAt
  <2>3. wl'[q] = n /\ wl[q] \in Nat /\ n = wl[q] + 1
    <3>1. wl' = [wl EXCEPT ![o] = wl[o] + 1] /\ wl \in [Offering -> Nat]
      BY <1>0 DEF TakePlace, TypeOK, Counts
    <3> QED BY <1>1, <1>7, <3>1
  <2>4. \A s \in Waiting(q) : place[<<s, q>>] \in Int /\ place[<<s, q>>] <= wl[q]
    BY <1>0 DEF Line, TypeOK, Waiting, Key
  <2>5. \A v \in Drawn(q) : job[v].place \in Nat /\ job[v].place <= wl[q]
    BY <1>0, Typed DEF Line, JobLocals, Drawn, TicksAt
  <2> HIDE DEF n
  <2>6. \A s \in Waiting(q) : place'[<<s, q>>] <= wl'[q] /\ place'[<<s, q>>] # n
    BY <1>5, <2>3, <2>4
  <2>7. \A v \in Drawn(q) : job'[v].place <= wl'[q] /\ job'[v].place # n
    BY <2>2, <2>3, <2>5
  <2>8. n <= wl'[q]
    BY <2>3
  <2>9. /\ \A s \in Waiting(q)' : place'[<<s, q>>] <= wl'[q]
        /\ \A v \in Drawn(q)' : job'[v].place <= wl'[q]
    BY <1>5, <2>1, <2>2, <2>6, <2>7, <2>8
  <2>10. \A s, t \in Waiting(q)' :
           s # t /\ <<s, q>> \notin late'.rows /\ <<t, q>> \notin late'.rows
             => place'[<<s, q>>] # place'[<<t, q>>]
    BY <1>5 DEF Line
  <2>11. \A s \in Waiting(q)', v \in Drawn(q)' :
           <<s, q>> \notin late'.rows /\ v \notin late'.ticks => place'[<<s, q>>] # job'[v].place
    BY <1>5, <2>1, <2>2, <2>6 DEF Line
  <2>12. \A u, v \in Drawn(q)' :
           u # v /\ u \notin late'.ticks /\ v \notin late'.ticks => job'[u].place # job'[v].place
    BY <2>1, <2>2, <2>7 DEF Line
  <2> QED BY <2>9, <2>10, <2>11, <2>12 DEF Line
<1> QED BY <1>6, <1>7

\* One row is written with its place.
RowsTo(s, o, v, n) == RowTo(s, o, v) /\ place' = [place EXCEPT ![<<s, o>>] = n]

\* What a written row does to the other rows of its class.
LEMMA RowsAfter ==
  ASSUME TypeOK, NEW s \in Student, NEW o \in Offering, NEW v, NEW n, RowsTo(s, o, v, n)
  PROVE  \A t \in Student : t # s =>
           /\ t \in Waiting(o)' <=> t \in Waiting(o)
           /\ place'[<<t, o>>] = place[<<t, o>>]
<1>1. \A t \in Student : t # s =>
        status'[<<t, o>>] = status[<<t, o>>] /\ place'[<<t, o>>] = place[<<t, o>>]
  BY DEF RowsTo, RowTo, TypeOK, Key
<1> QED BY <1>1 DEF Waiting

\* What it does to the other classes: nothing.
LEMMA RowsElsewhere ==
  ASSUME TypeOK, NEW s \in Student, NEW o \in Offering, NEW v, NEW n, RowsTo(s, o, v, n),
         NEW q \in Offering, q # o
  PROVE  Waiting(q)' = Waiting(q) /\ \A t \in Student : place'[<<t, q>>] = place[<<t, q>>]
<1>1. \A t \in Student :
        status'[<<t, q>>] = status[<<t, q>>] /\ place'[<<t, q>>] = place[<<t, q>>]
  BY DEF RowsTo, RowTo, TypeOK, Key
<1> QED BY <1>1 DEF Waiting

\* The row itself.
LEMMA RowAfter ==
  ASSUME TypeOK, NEW s \in Student, NEW o \in Offering, NEW v, NEW n, RowsTo(s, o, v, n)
  PROVE  status'[<<s, o>>] = v /\ place'[<<s, o>>] = n
BY DEF RowsTo, RowTo, TypeOK, Key

\* A tick writes its row: behind everyone, or wherever its number leads by now.
LEMMA WriteRowLine ==
  ASSUME TypedState, NEW w \in Tick, WriteRow(w), NoteRow(w), NEW q \in Offering, Line(q)
  PROVE  Line(q)'
<1>0. TypeOK /\ LocalsOK
  BY DEF TypedState
<1>1. job[w].pc \in {"register", "wait"} /\ UNCHANGED wl
  BY DEF WriteRow, redis
<1>a. PICK o, s : o = job[w].at /\ s = job[w].who
  OBVIOUS
<1> DEFINE k == <<s, o>>
<1>2. o \in Offering /\ s \in Student /\ o \in job[w].todo
  BY <1>0, <1>1, <1>a, AtOf DEF AtOffering
<1>3. /\ late'.ticks = late.ticks \ {w}
      /\ late'.rows = IF job[w].pc = "wait" /\ w \in late.ticks THEN late.rows \union {k}
                      ELSE late.rows \ {k}
  BY <1>a DEF NoteRow
<1>4. PICK z : JobIs(w, z) /\ TickOK(z) /\ z.pc # "wait"
  <2>1. CASE job[w].pc = "register"
    <3>1. Go(w, "count") /\ "count" \in TickPc
      BY <2>1 DEF WriteRow, TickPc
    <3>2. PICK z : JobIs(w, z) /\ z.pc = "count" /\ z.who = s /\ z.todo = job[w].todo /\ z.at = o
      BY <1>0, <1>a, <3>1, GoShape
    <3>3. TickOK(z)
      BY <1>2, <3>2 DEF TickOK
    <3> QED BY <3>2, <3>3
  <2>2. CASE job[w].pc = "wait"
    <3>1. NextOffering(w)
      BY <2>2 DEF WriteRow
    <3> QED BY <1>0, <2>2, <3>1, WithoutShape DEF NextOffering, JobIs
  <2> QED BY <1>1, <2>1, <2>2
<1>5. Drawn(q)' \subseteq Drawn(q) \ {w} /\ \A v \in Drawn(q)' : job'[v] = job[v]
  BY <1>0, <1>4, DrawnMove
<1>6. CASE job[w].pc = "register" \/ q # o
  <2>1. PICK n \in Int :
          \/ job[w].pc = "register" /\ RowsTo(s, o, "REGISTERED", n)
          \/ job[w].pc = "wait" /\ RowsTo(s, o, "WAITLISTED", n)
    <3>1. job[w].place \in Int
      BY <1>0, Typed DEF JobLocals
    <3>2. CASE job[w].pc = "register"
      BY <1>a, <3>2 DEF WriteRow, RowsTo, RowTo
    <3>3. CASE job[w].pc = "wait"
      BY <1>a, <3>1, <3>3 DEF WriteRow, RowsTo, RowTo
    <3> QED BY <1>1, <3>2, <3>3
  <2>2. Waiting(q)' \subseteq Waiting(q)
        /\ \A t \in Waiting(q)' : place'[<<t, q>>] = place[<<t, q>>] /\ <<t, q>> # k
    <3> DEFINE v == IF job[w].pc = "register" THEN "REGISTERED" ELSE "WAITLISTED"
    <3>0. RowsTo(s, o, v, n)
      BY <1>6, <2>1
    <3>a. q = o => v = "REGISTERED"
      BY <1>6
    <3> HIDE DEF v
    <3>1. /\ \A t \in Student : t # s \/ q # o =>
               /\ t \in Waiting(q)' <=> t \in Waiting(q)
               /\ place'[<<t, q>>] = place[<<t, q>>]
          /\ \A t \in Waiting(q)' : t # s \/ q # o
      <4>1. status'[<<s, o>>] = v
        BY <1>0, <1>2, <3>0, RowAfter
      <4>2. \A t \in Waiting(q)' : t # s \/ q # o
        BY <3>a, <4>1 DEF Waiting
      <4>3. \A t \in Student : t # s \/ q # o =>
             /\ t \in Waiting(q)' <=> t \in Waiting(q)
             /\ place'[<<t, q>>] = place[<<t, q>>]
        <5>1. CASE q # o
          BY <1>0, <1>2, <3>0, <5>1, RowsElsewhere
        <5>2. CASE q = o
          BY <1>0, <1>2, <3>0, <5>2, RowsAfter
        <5> QED BY <5>1, <5>2
      <4> QED BY <4>2, <4>3
    <3>2. Waiting(q)' \subseteq Student
      BY DEF Waiting
    <3> QED BY <3>1, <3>2
  <2>3. \A t \in Waiting(q)' : <<t, q>> \in late.rows => <<t, q>> \in late'.rows
    BY <1>3, <2>2
  <2>4. \A v \in Drawn(q)' : v \in late.ticks => v \in late'.ticks
    BY <1>3, <1>5
  <2> QED BY <1>1, <1>5, <2>2, <2>3, <2>4, SameLine
<1>7. CASE job[w].pc = "wait" /\ q = o
  <2> DEFINE n == job[w].place
  <2>1. RowsTo(s, o, "WAITLISTED", n) /\ n \in Int
    BY <1>0, <1>a, <1>7, Typed DEF WriteRow, RowsTo, RowTo, JobLocals
  <2>2. /\ \A t \in Student : t # s =>
             /\ t \in Waiting(q)' <=> t \in Waiting(q)
             /\ place'[<<t, q>>] = place[<<t, q>>]
        /\ place'[<<s, q>>] = n
    BY <1>0, <1>2, <1>7, <2>1, RowsAfter, RowAfter
  <2>3. w \in Drawn(q)
    BY <1>a, <1>7 DEF Drawn, TicksAt
  <2>4. <<s, q>> \in late'.rows <=> w \in late.ticks
    BY <1>3, <1>7
  <2>5. \A t \in Student : t # s => (<<t, q>> \in late'.rows <=> <<t, q>> \in late.rows)
    BY <1>3, <1>7
  <2>6. Waiting(q)' \subseteq Student /\ Waiting(q) \subseteq Student
    BY DEF Waiting
  <2> HIDE DEF n
  <2>7. n = job[w].place
    BY DEF n
  <2>8. \A t \in Waiting(q)' : place'[<<t, q>>] <= wl'[q]
    <3> TAKE t \in Waiting(q)'
    <3>1. CASE t = s
      BY <1>1, <2>2, <2>3, <2>7, <3>1 DEF Line
    <3>2. CASE t # s
      BY <1>1, <2>2, <2>6, <3>2 DEF Line
    <3> QED BY <3>1, <3>2
  <2>9. \A v \in Drawn(q)' : job'[v].place <= wl'[q]
    BY <1>1, <1>5 DEF Line
  <2>10. \A t, u \in Waiting(q)' :
           t # u /\ <<t, q>> \notin late'.rows /\ <<u, q>> \notin late'.rows
             => place'[<<t, q>>] # place'[<<u, q>>]
    <3> SUFFICES ASSUME NEW t \in Waiting(q)', NEW u \in Waiting(q)', t # u,
                        <<t, q>> \notin late'.rows, <<u, q>> \notin late'.rows
                 PROVE  place'[<<t, q>>] # place'[<<u, q>>]
      OBVIOUS
    <3>1. CASE t # s /\ u # s
      BY <2>2, <2>5, <2>6, <3>1 DEF Line
    <3>2. CASE t = s
      BY <2>2, <2>3, <2>4, <2>5, <2>6, <2>7, <3>2 DEF Line
    <3>3. CASE u = s
      BY <2>2, <2>3, <2>4, <2>5, <2>6, <2>7, <3>3 DEF Line
    <3> QED BY <3>1, <3>2, <3>3
  <2>11. \A t \in Waiting(q)', v \in Drawn(q)' :
           <<t, q>> \notin late'.rows /\ v \notin late'.ticks => place'[<<t, q>>] # job'[v].place
    <3> SUFFICES ASSUME NEW t \in Waiting(q)', NEW v \in Drawn(q)',
                        <<t, q>> \notin late'.rows, v \notin late'.ticks
                 PROVE  place'[<<t, q>>] # job'[v].place
      OBVIOUS
    <3>1. v \in Drawn(q) /\ v # w /\ v \notin late.ticks /\ job'[v].place = job[v].place
      BY <1>3, <1>5
    <3>2. CASE t = s
      BY <2>2, <2>3, <2>4, <2>7, <3>1, <3>2 DEF Line
    <3>3. CASE t # s
      BY <2>2, <2>5, <2>6, <3>1, <3>3 DEF Line
    <3> QED BY <3>2, <3>3
  <2>12. \A u, v \in Drawn(q)' :
           u # v /\ u \notin late'.ticks /\ v \notin late'.ticks => job'[u].place # job'[v].place
    BY <1>3, <1>5 DEF Line
  <2> QED BY <2>8, <2>9, <2>10, <2>11, <2>12 DEF Line
<1> QED BY <1>1, <1>6, <1>7

\* A drop's step that leaves the rows leaves the lines.
LEMMA RowsStayLine ==
  ASSUME NEW q \in Offering, Line(q), UNCHANGED <<status, place, wl, job>>, late' = late
  PROVE  Line(q)'
<1>1. Waiting(q)' = Waiting(q)
  BY FiguresStay
<1>2. Drawn(q)' = Drawn(q)
  BY DEF Drawn, TicksAt
<1> QED BY <1>1, <1>2, SameLine

\* A drop takes its row, or the promoted one, out of the line.
LEMMA LeaveLine ==
  ASSUME TypeOK, NEW s \in Student, NEW o \in Offering, NEW v, v # "WAITLISTED", RowTo(s, o, v),
         place' = place \/ place' = [place EXCEPT ![<<s, o>>] = 0], UNCHANGED <<wl, job>>,
         late'.ticks = late.ticks,
         late'.rows = late.rows \/ late'.rows = late.rows \ {<<s, o>>},
         NEW q \in Offering, Line(q)
  PROVE  Line(q)'
<1>1. \A t \in Student : status'[<<t, q>>] = IF t = s /\ q = o THEN v ELSE status[<<t, q>>]
  BY DEF RowTo, TypeOK, Key
<1>2. Waiting(q)' \subseteq Waiting(q) /\ \A t \in Waiting(q)' : t # s \/ q # o
  BY <1>1 DEF Waiting
<1>3. \A t \in Student : t # s \/ q # o => place'[<<t, q>>] = place[<<t, q>>]
  BY DEF TypeOK, Key
<1>4. \A t \in Waiting(q)' : place'[<<t, q>>] = place[<<t, q>>]
  BY <1>2, <1>3 DEF Waiting
<1>5. \A t \in Waiting(q)' : <<t, q>> \in late.rows => <<t, q>> \in late'.rows
  BY <1>2
<1>6. Drawn(q)' = Drawn(q)
  BY DEF Drawn, TicksAt
<1> QED BY <1>2, <1>4, <1>5, <1>6, SameLine

\* A drop shifts the line of its class; the places drawn and not written are late.
LEMMA ShiftLine ==
  ASSUME TypeOK, LocalsOK, NEW d \in DropCall, ShiftWaiters(d), NoteShift(d),
         NEW q \in Offering, Line(q)
  PROVE  Line(q)'
<1>1. drop[d].at \in Offering /\ UNCHANGED <<status, wl, job>>
  BY ShiftWaitersForm DEF ShiftWaiters, redis
<1>2. Waiting(q)' = Waiting(q) /\ Drawn(q)' = Drawn(q)
  BY <1>1, FiguresStay DEF Drawn, TicksAt
<1>3. late'.rows = late.rows /\ late'.ticks = late.ticks \union Drawn(drop[d].at)
  BY DEF NoteShift, Drawn
<1>4. \A k \in Key : place'[k] = IF k[2] = drop[d].at /\ status[k] = "WAITLISTED"
                                 THEN place[k] - 1 ELSE place[k]
  BY DEF ShiftWaiters
<1>5. \A s \in Waiting(q) : <<s, q>> \in Key /\ status[<<s, q>>] = "WAITLISTED"
  BY DEF Waiting, Key
<1>6. \A s \in Waiting(q) :
        place'[<<s, q>>] = IF q = drop[d].at THEN place[<<s, q>>] - 1 ELSE place[<<s, q>>]
  BY <1>4, <1>5
<1>7. CASE q # drop[d].at
  BY <1>1, <1>2, <1>3, <1>6, <1>7, SameLine
<1>8. CASE q = drop[d].at
  <2>1. \A s \in Waiting(q) : place'[<<s, q>>] = place[<<s, q>>] - 1 /\ place[<<s, q>>] \in Int
    BY <1>5, <1>6, <1>8 DEF TypeOK
  <2>2. wl[q] \in Nat /\ wl'[q] = wl[q]
    BY <1>1 DEF TypeOK, Counts
  <2>3. \A s \in Waiting(q)' : place'[<<s, q>>] <= wl'[q]
    BY <1>2, <2>1, <2>2 DEF Line
  <2>4. \A w \in Drawn(q)' : job'[w].place <= wl'[q]
    BY <1>1, <1>2, <2>2 DEF Line
  <2>5. \A s, t \in Waiting(q)' :
          s # t /\ <<s, q>> \notin late'.rows /\ <<t, q>> \notin late'.rows
            => place'[<<s, q>>] # place'[<<t, q>>]
    <3>1. \A s, t \in Waiting(q) : place'[<<s, q>>] = place'[<<t, q>>] => place[<<s, q>>] = place[<<t, q>>]
      BY <2>1
    <3> QED BY <1>2, <1>3, <3>1 DEF Line
  <2>6. \A w \in Drawn(q)' : w \in late'.ticks
    BY <1>2, <1>3, <1>8
  <2> QED BY <2>3, <2>4, <2>5, <2>6 DEF Line
<1> QED BY <1>7, <1>8

\* Sessions that end leave the lines.
LEMMA EndLine ==
  ASSUME NEW ticks, NEW drops, Ended(ticks, drops), NoteEnd(ticks, drops),
         UNCHANGED <<status, place, wl>>, NEW q \in Offering, Line(q)
  PROVE  Line(q)'
<1>1. Waiting(q)' = Waiting(q)
  BY FiguresStay
<1>2. \A w \in Tick : job'[w] = IF w \in ticks THEN IdleJob ELSE job[w]
  BY DEF Ended
<1>3. Drawn(q)' \subseteq Drawn(q) \ ticks /\ \A w \in Drawn(q)' : job'[w].place = job[w].place
  BY <1>2, IdleRows DEF Drawn, TicksAt
<1>4. late'.rows = late.rows /\ late'.ticks = late.ticks \ ticks
  BY DEF NoteEnd
<1> QED BY <1>1, <1>3, <1>4, SameLine

\* Every noted step of a tick keeps the lines.
LEMMA ProcessLine ==
  ASSUME TypedState, NEW w \in Tick, NotedProcess(w), NEW q \in Offering, Line(q)
  PROVE  Line(q)'
<1>0. TypeOK /\ LocalsOK
  BY DEF TypedState
<1>1. CASE FillSeats(w) /\ NoteFill
  <2>1. PICK z : JobIs(w, z) /\ z.pc = "seat" /\ z.who = job[w].who
    BY <1>0, <1>1, FillSeatsShape
  <2>2. job[w].pc = "fill" /\ UNCHANGED <<status, place, wl>>
    BY <1>1 DEF FillSeats, rows
  <2>3. TickOK(z)
    BY <1>0, <2>1, <2>2, WhoOf, NoOfferingOK
  <2> QED BY <1>0, <1>1, <2>1, <2>2, <2>3, QuietLine DEF NoteFill
<1>2. ASSUME NEW o \in Offering, TakeSeat(w, o), NoteSeat(o) PROVE Line(q)'
  <2>1. job[w].pc = "seat" /\ o \in job[w].todo /\ UNCHANGED <<status, place, wl>>
    BY <1>2 DEF TakeSeat, rows
  <2>2. PICK z : JobIs(w, z) /\ z.pc = "register" /\ z.who = job[w].who /\ z.todo = job[w].todo /\ z.at = o
    BY <1>0, <1>2, TakeSeatShape
  <2>3. TickOK(z)
    BY <1>0, <2>1, <2>2, WhoOf DEF TickOK
  <2> QED BY <1>0, <1>2, <2>1, <2>2, <2>3, QuietLine DEF NoteSeat
<1>3. CASE WriteRow(w) /\ NoteRow(w)
  BY <1>3, WriteRowLine
<1>4. CASE Pop(w) /\ UNCHANGED history
  <2>1. PICK z : JobIs(w, z) /\ z.pc = "read" /\ z.who = Head(queue)
    BY <1>0, <1>4, PopShape
  <2>2. TickOK(z) /\ UNCHANGED <<status, place, wl>>
    BY <1>0, <1>4, <2>1, NoOfferingOK DEF Pop, rows, TypeOK
  <2> QED BY <1>0, <1>4, <2>1, <2>2, QuietLine DEF history
<1>5. CASE ReadCart(w) /\ UNCHANGED history
  <2>1. job[w].pc = "read" /\ UNCHANGED <<status, place, wl>>
    BY <1>5 DEF ReadCart, rows, redis
  <2>2. PICK todo \in SUBSET Offering :
          job' = [job EXCEPT ![w] = IF todo = {} THEN IdleJob
                                    ELSE [@ EXCEPT !.pc = "warm?", !.todo = todo]]
    BY <1>5 DEF ReadCart
  <2>3. CASE todo = {}
    <3>1. JobIs(w, IdleJob) /\ TickOK(IdleJob) /\ IdleJob.pc # "wait"
      BY <2>2, <2>3, IdleRows DEF JobIs
    <3> QED BY <1>0, <1>5, <2>1, <3>1, QuietLine DEF history
  <2>4. CASE todo # {}
    <3>1. PICK z : JobIs(w, z) /\ z.pc = "warm?" /\ z.who = job[w].who
      BY <1>0, <2>2, <2>4, ReadCartShape
    <3>2. TickOK(z)
      BY <1>0, <2>1, <3>1, WhoOf, NoOfferingOK
    <3> QED BY <1>0, <1>5, <2>1, <3>1, <3>2, QuietLine DEF history
  <2> QED BY <2>3, <2>4
<1>6. CASE CheckWarm(w) /\ UNCHANGED history
  <2>1. job[w].pc = "warm?" /\ UNCHANGED <<status, place, wl>>
    BY <1>6 DEF CheckWarm, rows, redis
  <2>2. PICK pc \in {"seat", "counts"} : Go(w, pc)
    BY <1>6 DEF CheckWarm
  <2>3. pc \in TickPc
    BY DEF TickPc
  <2>4. PICK z : JobIs(w, z) /\ z.pc = pc /\ z.who = job[w].who
    BY <1>0, <2>2, <2>3, GoShape
  <2>5. TickOK(z)
    BY <1>0, <2>1, <2>4, WhoOf, NoOfferingOK
  <2> QED BY <1>0, <1>6, <2>1, <2>4, <2>5, QuietLine DEF history
<1>7. CASE ReadCounts(w) /\ UNCHANGED history
  <2>1. PICK z : JobIs(w, z) /\ z.pc = "fill" /\ z.who = job[w].who
    BY <1>0, <1>7, ReadCountsShape
  <2>2. job[w].pc = "counts" /\ UNCHANGED <<status, place, wl>>
    BY <1>7 DEF ReadCounts, rows, redis
  <2>3. TickOK(z)
    BY <1>0, <2>1, <2>2, WhoOf, NoOfferingOK
  <2> QED BY <1>0, <1>7, <2>1, <2>2, <2>3, QuietLine DEF history
<1>8. ASSUME NEW o \in Offering, FindFull(w, o), UNCHANGED history PROVE Line(q)'
  <2>1. UNCHANGED <<status, place, wl>>
    BY <1>8 DEF FindFull, rows, redis
  <2>2. PICK z : /\ JobIs(w, z) /\ TickOK(z)
                 /\ (z.pc = "place" /\ z.at = o) \/ z.pc \in {"idle", "seat"}
    BY <1>0, <1>8, FindFullShape
  <2>3. z.pc # "wait"
    BY <2>2
  <2> QED BY <1>0, <1>8, <2>1, <2>2, <2>3, QuietLine DEF history
<1>9. CASE TakePlace(w) /\ UNCHANGED history
  BY <1>9, TakePlaceLine DEF history
<1>10. CASE AddToCount(w) /\ UNCHANGED history
  <2> DEFINE z == Without(w, job[w].at)
  <2>1. job[w].pc = "count" /\ UNCHANGED <<status, place, wl>>
    BY <1>10 DEF AddToCount, redis
  <2>2. JobIs(w, z) /\ TickOK(z) /\ z.pc \in {"idle", "seat"}
    BY <1>0, <1>10, <2>1, WithoutShape DEF JobIs, NextOffering, AddToCount
  <2> HIDE DEF z
  <2> QED BY <1>0, <1>10, <2>1, <2>2, QuietLine DEF history
<1> QED
  BY <1>1, <1>2, <1>3, <1>4, <1>5, <1>6, <1>7, <1>8, <1>9, <1>10 DEF NotedProcess

\* Every noted step of a drop keeps the lines.
LEMMA DropLine ==
  ASSUME TypedState, NEW d \in DropCall, NotedDrop(d), NEW q \in Offering, Line(q)
  PROVE  Line(q)'
<1>0. TypeOK /\ LocalsOK
  BY DEF TypedState
<1>1. CASE DropRow(d) /\ NoteDropRow(d)
  <2>1. drop[d].at \in Offering /\ drop[d].who \in Student
    BY <1>0, <1>1, DropRowForm
  <2>2. RowTo(drop[d].who, drop[d].at, "DROPPED") /\ UNCHANGED <<place, wl, job, late>>
    BY <1>1 DEF DropRow, RowTo, redis, NoteDropRow
  <2> QED BY <1>0, <2>1, <2>2, LeaveLine
<1>2. CASE Promote(d) /\ NotePromote(d)
  <2>1. drop[d].at \in Offering /\ drop[d].first \in Student
    BY <1>0, <1>2, PromoteForm, FirstOf
  <2>2. /\ RowTo(drop[d].first, drop[d].at, "REGISTERED") /\ UNCHANGED <<wl, job>>
        /\ place' = [place EXCEPT ![<<drop[d].first, drop[d].at>>] = 0]
        /\ late'.ticks = late.ticks /\ late'.rows = late.rows \ {<<drop[d].first, drop[d].at>>}
    BY <1>2 DEF Promote, RowTo, redis, NotePromote
  <2> QED BY <1>0, <2>1, <2>2, LeaveLine
<1>3. CASE ShiftWaiters(d) /\ NoteShift(d)
  BY <1>0, <1>3, ShiftLine
<1>4. CASE \/ TakeFromCount(d) /\ NoteUncount(d)
           \/ ReleaseSeat(d) /\ NoteRelease(d)
           \/ SelectWaiter(d) /\ NoteSelect(d)
           \/ RetakeSeat(d) /\ NoteRetake(d)
  BY <1>4, RowsStayLine DEF TakeFromCount, NoteUncount, ReleaseSeat, NoteRelease, SelectWaiter,
       NoteSelect, RetakeSeat, NoteRetake, NoteStore, rows, redis
<1>5. CASE /\ (\E s \in Student, o \in Offering : StartDrop(d, s, o)) \/ GetSeats(d) \/ CountPromoted(d)
           /\ UNCHANGED history
  BY <1>5, RowsStayLine DEF StartDrop, GetSeats, CountPromoted, rows, redis, history
<1> QED BY <1>1, <1>2, <1>3, <1>4, <1>5 DEF NotedDrop

Lines == \A o \in Offering : Line(o)

\* Every step keeps the lines of every class.
LEMMA LinesStay ==
  ASSUME TypedState, Lines, [HistoryNext]_allVars
  PROVE  Lines'
<1>0. TypeOK /\ LocalsOK
  BY DEF TypedState
<1> SUFFICES ASSUME NEW q \in Offering PROVE Line(q)'
  BY DEF Lines
<1>1. Line(q)
  BY DEF Lines
<1>2. ASSUME NEW w \in Tick, NotedProcess(w) PROVE Line(q)'
  BY <1>1, <1>2, ProcessLine
<1>3. ASSUME NEW d \in DropCall, NotedDrop(d) PROVE Line(q)'
  BY <1>1, <1>3, DropLine
<1>4. ASSUME NEW w \in Tick, TicketFails(w), NoteEnd({w}, {}) PROVE Line(q)'
  <2>1. Ended({w}, {}) /\ UNCHANGED <<status, place, wl>>
    BY <1>0, <1>4, Typed DEF TicketFails, Ended, rows, redis
  <2> QED BY <1>1, <1>4, <2>1, EndLine
<1>5. ASSUME NEW d \in DropCall, DropFails(d), NoteEnd({}, {d}) PROVE Line(q)'
  <2>1. Ended({}, {d}) /\ UNCHANGED <<status, place, wl>>
    BY <1>0, <1>5, Typed DEF DropFails, Ended, rows, redis
  <2> QED BY <1>1, <1>5, <2>1, EndLine
<1>6. CASE Crash /\ NoteEnd(Tick, DropCall)
  <2>1. Ended(Tick, DropCall) /\ UNCHANGED <<status, place, wl>>
    BY <1>6 DEF Crash, Ended, rows, redis
  <2> QED BY <1>1, <1>6, <2>1, EndLine
<1>7. CASE FillForWarmup /\ NoteFill
  BY <1>1, <1>7, RowsStayLine DEF FillForWarmup, NoteFill, rows
<1>8. CASE (ReadForWarmup \/ \E s \in Student : Submit(s)) /\ UNCHANGED history
  BY <1>1, <1>8, RowsStayLine DEF ReadForWarmup, Submit, rows, redis, sessions, history
<1>9. CASE UNCHANGED allVars
  BY <1>1, <1>9, RowsStayLine DEF allVars, vars, history
<1> QED BY <1>2, <1>3, <1>4, <1>5, <1>6, <1>7, <1>8, <1>9 DEF HistoryNext

\* Nobody waits at a place beyond the counter, and two waiters of a class share a place
\* only when one of them had drawn it before a drop shifted the line, and wrote it after
\* (the INCR of waitingRoom.ts, the insert of enroll-engine.ts, the shift of
\* dropCourseAction), in every behaviour.
THEOREM WaitersInLineHolds == HistorySpec => []WaitersInLine
<1>1. HistoryInit => Lines
  <2> SUFFICES ASSUME HistoryInit, NEW o \in Offering PROVE Line(o)
    BY DEF Lines
  <2>1. Waiting(o) = {}
    <3>1. \A s \in Student : <<s, o>> \in Key
      BY DEF Key
    <3> QED BY <3>1 DEF HistoryInit, Init, Waiting
  <2>2. Drawn(o) = {}
    BY IdleRows DEF HistoryInit, Init, Drawn, TicksAt
  <2> QED BY <2>1, <2>2 DEF Line
<1>2. TypedState /\ Lines /\ [HistoryNext]_allVars => Lines'
  BY LinesStay
<1>3. Lines => WaitersInLine
  <2> SUFFICES ASSUME Lines, NEW o \in Offering, NEW s \in Waiting(o)
               PROVE  /\ place[<<s, o>>] <= wl[o]
                      /\ \A t \in Waiting(o) \ {s} :
                           place[<<s, o>>] = place[<<t, o>>]
                             => {<<s, o>>, <<t, o>>} \intersect late.rows # {}
    BY DEF WaitersInLine
  <2>1. Line(o)
    BY DEF Lines
  <2> QED BY <2>1 DEF Line
<1> QED BY <1>1, <1>2, <1>3, TypesHold, PTL DEF HistorySpec
=============================================================================
