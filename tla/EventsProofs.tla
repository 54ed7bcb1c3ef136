---------------------------- MODULE EventsProofs ----------------------------
(***************************************************************************)
(* Theorems of WorkflowEvents, for any forms, students and courses, any     *)
(* limit of units a term, and any number of overlapping jobs; and, for the  *)
(* behaviours of one job at a time, of what the terms are charged.          *)
(***************************************************************************)
EXTENDS MCWorkflowEvents, WellFoundedInduction, SequenceTheorems, TLAPS

JobRow == [pc : Pc, cron : BOOLEAN, todo : SUBSET Request, req : Nat, at : Nat,
           found : BOOLEAN, covers : SUBSET Course]
Working == Pc \ {"idle", "reset", "dispatch"}
Charging == {"compute", "find charge", "write charge"}

\* Every course of the form is in the transcript; those before item n are.
InTranscript(r) == \A i \in DOMAIN Items[r] : RowOfItem(r, i) \in enrolled
Before(r, n) == \A i \in DOMAIN Items[r] : i < n => RowOfItem(r, i) \in enrolled

\* Where a job is in its handler tells how much of the form it has written.
JobOK(j) ==
  LET x == job[j]
  IN /\ x.pc \notin {"idle", "reset"} => x.req \in Request
     /\ x.pc = "reset" => x.todo # {}
     /\ x.pc \in {"find row", "write row"} => x.at \in DOMAIN Items[x.req] /\ Before(x.req, x.at)
     /\ x.pc \in Charging => x.at \in 1..TermsCharged(x.req)
     /\ x.pc \in Charging \union {"succeed"} => InTranscript(x.req)

\* The rows have their types.
StoreOK ==
  /\ ev \in [Request -> {"NONE", "PENDING", "PROCESSED", "FAILED", "SKIPPED"}]
  /\ shared \in BOOLEAN /\ registered \in BOOLEAN
  /\ enrolled \subseteq Student \X Course \X Terms
  /\ charges \in [Student \X Terms -> Seq(SUBSET Course)]
  /\ unpaid \subseteq Student \X Terms

DataOK == StoreOK /\ job \in [Job -> JobRow]

\* The inductive invariant.
IInv == DataOK /\ ProcessedIsInTranscript /\ \A j \in Job : JobOK(j)

-----------------------------------------------------------------------------
(* One job at a time.                                                       *)

\* Nobody changes the row a job works on, the term it has computed or the charge it
\* has looked for.
SerialJobOK(j) ==
  LET x == job[j]
      key == <<StudentOf[x.req], x.at>>
  IN /\ x.pc \in Working => ev[x.req] = "PENDING"
     /\ x.pc \in {"find charge", "write charge"} => x.covers = Transcript(StudentOf[x.req], x.at)
     /\ x.pc = "write charge" => (x.found <=> charges[key] # << >>)

\* Request r is still to bring the charge of its term t up to date.
Owes(r, t) ==
  /\ r \notin Single /\ t \in 1..TermsCharged(r)
  /\ ev[r] \notin {"NONE", "PROCESSED"}
  /\ \A j \in Job : job[j].req = r =>
       job[j].pc # "succeed" /\ (job[j].pc \in Charging => job[j].at <= t)

\* A term whose charge is not of all its courses is one whose charge failed, or which
\* some request still owes.
ChargesFollow ==
  \A s \in Student, t \in Terms \ {CurrentTerm} :
    Transcript(s, t) # {} /\ <<s, t>> \notin unpaid /\ charges[<<s, t>>] # << Transcript(s, t) >>
      => \E r \in Request : StudentOf[r] = s /\ Owes(r, t)

Alone == \A j \in Job \ {j1} : job[j] = IdleJob

\* The inductive invariant of one job at a time.
SerialInv == Alone /\ (\A j \in Job : SerialJobOK(j)) /\ OneChargePerTerm /\ ChargesFollow

SInv == mode = "serial" => SerialInv

-----------------------------------------------------------------------------
(* The chunks of a form: induction on the items, by the least number that    *)
(* would not do.                                                             *)

\* Every set of naturals has a least one.
LEMMA Least ==
  ASSUME NEW T \in SUBSET Nat, T # {}
  PROVE  \E m \in T : \A n \in T : m <= n
<1>1. IsWellFoundedOn(OpToRel(<, Nat), Nat)
  BY NatLessThanWellFounded
<1>2. PICK m \in T : \A n \in T : ~ (<<n, m>> \in OpToRel(<, Nat))
  BY <1>1, WFMin
<1>3. \A n \in T : ~ (n < m)
  BY <1>2 DEF OpToRel
<1> QED BY <1>3

\* A set of naturals that has 0, and with every number the next, has all.
LEMMA AllNaturals ==
  ASSUME NEW T, 0 \in T, \A n \in Nat : n \in T => n + 1 \in T
  PROVE  \A n \in Nat : n \in T
<1> SUFFICES ASSUME Nat \ T # {} PROVE FALSE
  OBVIOUS
<1>1. PICK m \in Nat \ T : \A n \in Nat \ T : m <= n
  BY Least
<1>2. m # 0 /\ m - 1 \in Nat /\ m - 1 \in T
  BY <1>1
<1> QED BY <1>1, <1>2

ChunkRow == [term : Nat, units : Nat]

\* The chunk of an item, from that of the item before.
NextChunk(r, i, p) ==
  IF p.units + Units[Items[r][i]] > TermUnits
    THEN [term |-> p.term + 1, units |-> Units[Items[r][i]]]
    ELSE [term |-> p.term, units |-> p.units + Units[Items[r][i]]]
FirstChunk(r) == [term |-> 1, units |-> Units[Items[r][1]]]

\* The items of a form are courses.
LEMMA ItemTypes ==
  ASSUME NEW r \in Request
  PROVE  /\ Len(Items[r]) \in Nat /\ Len(Items[r]) >= 1 /\ DOMAIN Items[r] = 1..Len(Items[r])
         /\ \A i \in 1..Len(Items[r]) : Items[r][i] \in Course /\ Units[Items[r][i]] \in Nat
         /\ StudentOf[r] \in Student /\ r \in Nat
<1>1. /\ Items[r] \in Seq(Course) /\ Items[r] # << >> /\ StudentOf[r] \in Student
      /\ Units \in [Course -> Nat] /\ r \in Nat
  BY EventsAssumption
<1>2. Len(Items[r]) \in Nat /\ DOMAIN Items[r] = 1..Len(Items[r]) /\ Items[r] \in [1..Len(Items[r]) -> Course]
  BY <1>1, LenProperties
<1>3. Len(Items[r]) # 0
  BY <1>1, EmptySeq
<1> QED BY <1>1, <1>2, <1>3

\* A chunk follows: of the same term or the next.
LEMMA NextChunkType ==
  ASSUME NEW r \in Request, NEW i \in 1..Len(Items[r]), NEW p \in ChunkRow
  PROVE  /\ NextChunk(r, i, p) \in ChunkRow
         /\ NextChunk(r, i, p).term \in {p.term, p.term + 1}
<1>1. Units[Items[r][i]] \in Nat
  BY ItemTypes
<1>2. p.term \in Nat /\ p.units \in Nat
  BY DEF ChunkRow
<1> HIDE DEF ChunkRow
<1>3. CASE p.units + Units[Items[r][i]] > TermUnits
  <2>1. NextChunk(r, i, p) = [term |-> p.term + 1, units |-> Units[Items[r][i]]]
    BY <1>3 DEF NextChunk
  <2> QED BY <1>1, <1>2, <2>1 DEF ChunkRow
<1>4. CASE ~(p.units + Units[Items[r][i]] > TermUnits)
  <2>1. NextChunk(r, i, p) = [term |-> p.term, units |-> p.units + Units[Items[r][i]]]
    BY <1>4 DEF NextChunk
  <2> QED BY <1>1, <1>2, <2>1 DEF ChunkRow
<1> QED BY <1>3, <1>4

\* The recursion has a solution on the first n items, for every n.
LEMMA ChunksExist ==
  ASSUME NEW r \in Request, NEW n \in Nat, n <= Len(Items[r])
  PROVE  \E f \in [1..n -> ChunkRow] :
           \A i \in 1..n : f[i] = IF i = 1 THEN FirstChunk(r) ELSE NextChunk(r, i, f[i - 1])
<1> DEFINE Solves(m) ==
             \E f \in [1..m -> ChunkRow] :
               \A i \in 1..m : f[i] = IF i = 1 THEN FirstChunk(r) ELSE NextChunk(r, i, f[i - 1])
           T == {m \in Nat : m <= Len(Items[r]) => Solves(m)}
<1>1. Solves(0)
  <2>1. \A i \in 1..0 : FALSE
    OBVIOUS
  <2>2. [i \in 1..0 |-> FirstChunk(r)] \in [1..0 -> ChunkRow]
    BY <2>1
  <2> QED BY <2>1, <2>2
<1>2. ASSUME NEW m \in Nat, m + 1 <= Len(Items[r]), Solves(m) PROVE Solves(m + 1)
  <2>1. PICK f \in [1..m -> ChunkRow] :
          \A i \in 1..m : f[i] = IF i = 1 THEN FirstChunk(r) ELSE NextChunk(r, i, f[i - 1])
    BY <1>2
  <2> DEFINE e == IF m + 1 = 1 THEN FirstChunk(r) ELSE NextChunk(r, m + 1, f[m])
             g == [i \in 1..(m + 1) |-> IF i = m + 1 THEN e ELSE f[i]]
  <2>2. m + 1 \in 1..Len(Items[r]) /\ Units[Items[r][1]] \in Nat
    BY <1>2, ItemTypes
  <2>3. m + 1 # 1 => f[m] \in ChunkRow
    BY <2>1
  <2>4. e \in ChunkRow
    BY <2>2, <2>3, NextChunkType DEF ChunkRow, FirstChunk
  <2> HIDE DEF e
  <2>5. g \in [1..(m + 1) -> ChunkRow]
    BY <2>1, <2>4
  <2>6. g[m + 1] = e /\ \A i \in 1..m : g[i] = f[i]
    BY <2>1
  <2>7. ASSUME NEW i \in 1..(m + 1)
        PROVE  g[i] = IF i = 1 THEN FirstChunk(r) ELSE NextChunk(r, i, g[i - 1])
    <3>1. CASE i = m + 1
      BY <2>6, <3>1 DEF e
    <3>2. CASE i # m + 1
      <4>1. i \in 1..m /\ (i # 1 => i - 1 \in 1..m)
        BY <3>2
      <4> QED BY <2>1, <2>6, <4>1
    <3> QED BY <3>1, <3>2
  <2> QED BY <2>5, <2>7
<1> HIDE DEF Solves
<1>3. 0 \in T /\ \A m \in Nat : m \in T => m + 1 \in T
  BY <1>1, <1>2, ItemTypes
<1>4. n \in T
  BY <1>3, AllNaturals
<1> QED BY <1>4 DEF Solves

\* What Chunk computes.
LEMMA ChunkDef ==
  ASSUME NEW r \in Request
  PROVE  /\ Chunk(r) \in [1..Len(Items[r]) -> ChunkRow]
         /\ Chunk(r)[1].term = 1
         /\ \A i \in 2..Len(Items[r]) : Chunk(r)[i] = NextChunk(r, i, Chunk(r)[i - 1])
<1> DEFINE D == 1..Len(Items[r])
<1>1. DOMAIN Items[r] = D /\ Len(Items[r]) \in Nat /\ Len(Items[r]) >= 1
  BY ItemTypes
<1>2. PICK f \in [D -> ChunkRow] :
        \A i \in D : f[i] = IF i = 1 THEN FirstChunk(r) ELSE NextChunk(r, i, f[i - 1])
  <2>1. Len(Items[r]) \in Nat /\ Len(Items[r]) <= Len(Items[r])
    BY <1>1
  <2> QED BY <2>1, ChunksExist
<1>3. f = [i \in D |-> IF i = 1 THEN FirstChunk(r) ELSE NextChunk(r, i, f[i - 1])]
  BY <1>2
<1>4. Chunk(r) = CHOOSE c : c = [i \in D |-> IF i = 1 THEN FirstChunk(r) ELSE NextChunk(r, i, c[i - 1])]
  BY <1>1 DEF Chunk, FirstChunk, NextChunk
<1>5. Chunk(r) = [i \in D |-> IF i = 1 THEN FirstChunk(r) ELSE NextChunk(r, i, Chunk(r)[i - 1])]
  BY <1>3, <1>4
<1> DEFINE c == Chunk(r)
<1> HIDE DEF c
<1>6. c = [i \in D |-> IF i = 1 THEN FirstChunk(r) ELSE NextChunk(r, i, c[i - 1])]
  BY <1>5 DEF c
<1>7. c[1] = FirstChunk(r) /\ \A i \in 2..Len(Items[r]) : c[i] = NextChunk(r, i, c[i - 1])
  <2>1. 1 \in D /\ \A i \in 2..Len(Items[r]) : i \in D /\ i # 1
    BY <1>1
  <2> HIDE DEF D
  <2>2. \A i \in D : c[i] = IF i = 1 THEN FirstChunk(r) ELSE NextChunk(r, i, c[i - 1])
    BY <1>6
  <2> QED BY <2>1, <2>2
<1>8. c \in [D -> ChunkRow]
  <2> DEFINE T == {i \in Nat : i + 1 \in D => c[i + 1] \in ChunkRow}
  <2>1. 0 \in T
    BY <1>1, <1>7, ItemTypes DEF FirstChunk, ChunkRow
  <2>2. ASSUME NEW i \in Nat, i \in T PROVE i + 1 \in T
    <3> SUFFICES ASSUME (i + 1) + 1 \in D PROVE c[(i + 1) + 1] \in ChunkRow
      OBVIOUS
    <3>1. i + 1 \in D /\ i + 2 \in 2..Len(Items[r]) /\ c[i + 1] \in ChunkRow
      BY <1>1, <2>2
    <3>2. c[i + 2] = NextChunk(r, i + 2, c[i + 1]) /\ Units[Items[r][i + 2]] \in Nat
      BY <1>1, <1>7, <3>1, ItemTypes
    <3>3. NextChunk(r, i + 2, c[i + 1]) \in ChunkRow
      BY <1>1, <3>1, NextChunkType
    <3> QED BY <3>2, <3>3
  <2> HIDE DEF T
  <2>3. \A i \in Nat : i \in T
    BY <2>1, <2>2, AllNaturals
  <2>4. ASSUME NEW i \in D PROVE c[i] \in ChunkRow
    <3>1. i - 1 \in Nat /\ (i - 1) + 1 = i
      BY <1>1
    <3> QED BY <2>3, <3>1 DEF T
  <2>5. DOMAIN c = D /\ c = [i \in D |-> c[i]]
    BY <1>6
  <2> QED BY <2>4, <2>5
<1> QED BY <1>7, <1>8 DEF c, FirstChunk
\* The terms of the chunks go from the first to the last without a gap.
LEMMA ChunkTerms ==
  ASSUME NEW r \in Request
  PROVE  LET last == Chunk(r)[Len(Items[r])].term
         IN /\ last \in Nat
            /\ \A i \in 1..Len(Items[r]) : Chunk(r)[i].term \in 1..last
            /\ \A t \in 1..last : \E i \in 1..Len(Items[r]) : Chunk(r)[i].term = t
<1> DEFINE N == Len(Items[r])
           c == Chunk(r)
           NoGap(n) == /\ \A i \in 1..n : c[i].term \in 1..(c[n].term)
                       /\ \A t \in 1..(c[n].term) : \E i \in 1..n : c[i].term = t
           T == {n \in Nat : n + 1 <= N => NoGap(n + 1)}
<1>1. /\ N \in Nat /\ N >= 1 /\ c \in [1..N -> ChunkRow] /\ c[1].term = 1
      /\ \A i \in 2..N : c[i] = NextChunk(r, i, c[i - 1])
  BY ItemTypes, ChunkDef
<1>2. ASSUME NEW i \in 2..N PROVE c[i].term \in {c[i - 1].term, c[i - 1].term + 1}
  <2>1. i - 1 \in 1..N /\ i \in 1..N
    BY <1>1
  <2>2. c[i - 1] \in ChunkRow
    BY <1>1, <2>1
  <2> QED BY <1>1, <2>1, <2>2, NextChunkType
<1>3. \A i \in 1..N : c[i].term \in Nat
  BY <1>1 DEF ChunkRow
<1> HIDE DEF N, c
<1>4. NoGap(1)
  BY <1>1
<1>5. ASSUME NEW n \in Nat, n >= 1, n + 1 <= N, NoGap(n) PROVE NoGap(n + 1)
  <2>1. /\ n \in 1..N /\ n + 1 \in 1..N /\ n + 1 \in 2..N /\ (n + 1) - 1 = n
        /\ c[n].term \in Nat /\ c[n + 1].term \in Nat
    BY <1>1, <1>3, <1>5
  <2>2. c[n + 1].term \in {c[n].term, c[n].term + 1}
    BY <1>2, <2>1
  <2>3. ASSUME NEW i \in 1..(n + 1) PROVE c[i].term \in 1..(c[n + 1].term)
    <3>1. CASE i \in 1..n
      <4>1. c[i].term \in 1..(c[n].term)
        BY <1>5, <3>1
      <4> QED BY <2>1, <2>2, <4>1
    <3>2. CASE i = n + 1
      <4>1. c[n].term \in 1..(c[n].term)
        BY <1>5
      <4> QED BY <2>1, <2>2, <3>2, <4>1
    <3> QED BY <3>1, <3>2
  <2>4. ASSUME NEW t \in 1..(c[n + 1].term) PROVE \E i \in 1..(n + 1) : c[i].term = t
    <3>1. CASE t \in 1..(c[n].term)
      <4>1. PICK i \in 1..n : c[i].term = t
        BY <1>5, <3>1
      <4> QED BY <4>1
    <3>2. CASE t = c[n + 1].term
      BY <3>2
    <3> QED BY <2>1, <2>2, <3>1, <3>2
  <2> QED BY <2>3, <2>4
<1> HIDE DEF NoGap
<1>6. 0 \in T
  BY <1>4
<1>7. ASSUME NEW n \in Nat, n \in T PROVE n + 1 \in T
  <2> SUFFICES ASSUME (n + 1) + 1 <= N PROVE NoGap((n + 1) + 1)
    OBVIOUS
  <2>1. n + 1 \in Nat /\ n + 1 >= 1 /\ NoGap(n + 1)
    BY <1>1, <1>7
  <2> QED BY <1>5, <2>1
<1>8. N - 1 \in T /\ (N - 1) + 1 = N
  <2>1. N - 1 \in Nat
    BY <1>1
  <2> HIDE DEF T
  <2>2. Nat \subseteq T
    BY <1>6, <1>7, AllNaturals
  <2>3. N - 1 \in T
    BY <2>1, <2>2
  <2> QED BY <1>1, <2>3
<1>9. NoGap(N)
  BY <1>1, <1>8
<1>10. N \in 1..N
  BY <1>1
<1> QED BY <1>3, <1>9, <1>10 DEF NoGap, N, c

\* The terms of a form, and those it is charged for: the same but for the current one.
LEMMA FormTerms ==
  ASSUME NEW r \in Request
  PROVE  /\ TermsCharged(r) \in Nat /\ (r \in Single <=> TermsCharged(r) = 0)
         /\ 1..TermsCharged(r) \subseteq Terms \ {CurrentTerm}
         /\ \A i \in DOMAIN Items[r] :
              /\ TermOfItem(r, i) \in Terms
              /\ TermOfItem(r, i) # CurrentTerm => TermOfItem(r, i) \in 1..TermsCharged(r)
<1>1. DOMAIN Items[r] = 1..Len(Items[r]) /\ Len(Items[r]) \in Nat /\ Len(Items[r]) >= 1
  BY ItemTypes
<1>2. \A i \in DOMAIN Items[r] : TermOfItem(r, i) \in Terms
  BY DEF Terms
<1>3. CASE r \in Single
  <2>1. TermsCharged(r) = 0 /\ \A i : TermOfItem(r, i) = CurrentTerm
    BY <1>3 DEF TermsCharged, TermOfItem
  <2>2. \A t \in 1..0 : FALSE
    OBVIOUS
  <2> QED BY <1>2, <1>3, <2>1, <2>2
<1>4. CASE r \notin Single
  <2> DEFINE last == Chunk(r)[Len(Items[r])].term
  <2>1. TermsCharged(r) = last /\ \A i : TermOfItem(r, i) = Chunk(r)[i].term
    BY <1>4 DEF TermsCharged, TermOfItem
  <2>2. /\ last \in Nat
        /\ \A i \in 1..Len(Items[r]) : Chunk(r)[i].term \in 1..last
        /\ \A t \in 1..last : \E i \in 1..Len(Items[r]) : Chunk(r)[i].term = t
    BY ChunkTerms
  <2> HIDE DEF last
  <2>3. last >= 1
    <3>1. 1 \in 1..Len(Items[r])
      BY <1>1
    <3> QED BY <2>2, <3>1
  <2>4. ASSUME NEW t \in 1..last PROVE t \in Terms \ {CurrentTerm}
    <3>1. PICK i \in 1..Len(Items[r]) : Chunk(r)[i].term = t
      BY <2>2
    <3>2. t \in Terms
      BY <1>1, <1>2, <2>1, <3>1
    <3> QED BY <3>2 DEF CurrentTerm
  <2>5. TermsCharged(r) \in Nat /\ (r \in Single <=> TermsCharged(r) = 0)
    BY <1>4, <2>1, <2>2, <2>3
  <2>6. 1..TermsCharged(r) \subseteq Terms \ {CurrentTerm}
    BY <2>1, <2>4
  <2>7. ASSUME NEW i \in DOMAIN Items[r]
        PROVE  TermOfItem(r, i) \in Terms /\ TermOfItem(r, i) \in 1..TermsCharged(r)
    BY <1>1, <1>2, <2>1, <2>2
  <2> QED BY <2>5, <2>6, <2>7
<1> QED BY <1>3, <1>4
-----------------------------------------------------------------------------
(* The jobs' records.                                                       *)

\* The step is job j's.
Others(j) == job' \in [Job -> JobRow] /\ \A i \in Job \ {j} : job'[i] = job[i]

\* A job is given a row.
LEMMA Given ==
  ASSUME job \in [Job -> JobRow], NEW j \in Job, NEW x \in JobRow, job' = [job EXCEPT ![j] = x]
  PROVE  Others(j) /\ job'[j] = x
BY DEF Others

\* A job moves to another statement.
LEMMA SetPc ==
  ASSUME job \in [Job -> JobRow], NEW j \in Job, NEW p \in Pc,
         job' = [job EXCEPT ![j].pc = p]
  PROVE  /\ Others(j) /\ job'[j].pc = p
         /\ job'[j].req = job[j].req /\ job'[j].todo = job[j].todo
         /\ job'[j].at = job[j].at /\ job'[j].found = job[j].found /\ job'[j].covers = job[j].covers
<1> DEFINE y == job[j]
           x == [y EXCEPT !.pc = p]
<1>1. job' = [job EXCEPT ![j] = x]
  OBVIOUS
<1>2. y \in JobRow
  OBVIOUS
<1> HIDE DEF y
<1>3. /\ x \in JobRow /\ x.pc = p /\ x.req = y.req /\ x.todo = y.todo
      /\ x.at = y.at /\ x.found = y.found /\ x.covers = y.covers
  BY <1>2 DEF JobRow
<1> HIDE DEF x
<1>4. Others(j) /\ job'[j] = x
  BY <1>1, <1>3, Given
<1> QED BY <1>3, <1>4 DEF y

\* The row of an idle job.
LEMMA IdleRow == IdleJob \in JobRow /\ IdleJob.pc = "idle"
BY DEF IdleJob, JobRow, Pc

\* The row of a retry with its list.
LEMMA ResetRow ==
  ASSUME NEW cron \in BOOLEAN, NEW todo \in SUBSET Request, NEW y,
         y = [IdleJob EXCEPT !.pc = "reset", !.cron = cron, !.todo = todo]
  PROVE  y \in JobRow /\ y.pc = "reset" /\ y.todo = todo
BY DEF IdleJob, JobRow, Pc

\* The row of a dispatch.
LEMMA DispatchRow ==
  ASSUME job \in [Job -> JobRow], NEW j \in Job, NEW r \in Request, NEW todo \in SUBSET Request, NEW y,
         y = Dispatching(j, r, todo)
  PROVE  y \in JobRow /\ y.pc = "dispatch" /\ y.req = r
<1> DEFINE cron == job[j].cron
<1>1. cron \in BOOLEAN /\ r \in Nat
  BY ItemTypes DEF JobRow
<1>2. y = [IdleJob EXCEPT !.pc = "dispatch", !.cron = cron, !.req = r, !.todo = todo]
  BY DEF Dispatching
<1> HIDE DEF cron
<1> QED BY <1>1, <1>2, IdleRow DEF JobRow, Pc

\* What is left of a job when its dispatch is over: a retry's list, or nothing.
LEMMA FinishedRow ==
  ASSUME job \in [Job -> JobRow], NEW j \in Job, NEW y, y = Finished(j)
  PROVE  /\ y \in JobRow
         /\ y.pc = "idle" \/ (y.pc = "reset" /\ y.todo # {})
<1>1. CASE job[j].todo = {}
  BY <1>1, IdleRow DEF Finished
<1>2. CASE job[j].todo # {}
  <2> DEFINE cron == job[j].cron
             todo == job[j].todo
  <2>1. cron \in BOOLEAN /\ todo \in SUBSET Request /\ todo # {}
    BY <1>2 DEF JobRow
  <2>2. y = [IdleJob EXCEPT !.pc = "reset", !.cron = cron, !.todo = todo]
    BY <1>2 DEF Finished
  <2> HIDE DEF cron, todo
  <2>3. y \in JobRow /\ y.pc = "reset" /\ y.todo = todo
    BY <2>1, <2>2, IdleRow DEF JobRow, Pc
  <2> QED BY <2>1, <2>3
<1> QED BY <1>1, <1>2

\* The least request of a retry's list is one of them.
LEMMA MinOf ==
  ASSUME NEW T \in SUBSET Request, T # {}
  PROVE  Min(T) \in T
<1>1. T \in SUBSET Nat
  BY ItemTypes
<1>2. PICK m \in T : \A n \in T : m <= n
  BY <1>1, Least
<1> QED BY <1>2 DEF Min

-----------------------------------------------------------------------------
(* What each step does to its job.                                          *)

\* The approval gives the job its request.
LEMMA ApproveDoes ==
  ASSUME DataOK, NEW j \in Job, NEW r \in Request, Approve(r, j)
  PROVE  Others(j) /\ job'[j].pc = "dispatch" /\ job'[j].req = r
<1> DEFINE y == Dispatching(j, r, {})
<1>1. {} \in SUBSET Request /\ job' = [job EXCEPT ![j] = y] /\ job \in [Job -> JobRow]
  BY DEF Approve, DataOK
<1>2. y \in JobRow /\ y.pc = "dispatch" /\ y.req = r
  BY <1>1, DispatchRow
<1> HIDE DEF y
<1> QED BY <1>1, <1>2, Given

\* A retry lists the rows to run again.
LEMMA RetryDoes ==
  ASSUME DataOK, NEW j \in Job, NEW fromCron \in BOOLEAN, Retry(j, fromCron)
  PROVE  Others(j) /\ job'[j].pc = "reset" /\ job'[j].todo # {}
<1> DEFINE todo == {r \in Request : ev[r] \in {"FAILED", "SKIPPED"}}
           x == [IdleJob EXCEPT !.pc = "reset", !.cron = fromCron, !.todo = todo]
<1>1. todo # {} /\ job' = [job EXCEPT ![j] = x] /\ job \in [Job -> JobRow]
  BY DEF Retry, DataOK
<1>2. todo \in SUBSET Request
  OBVIOUS
<1> HIDE DEF todo
<1>3. x \in JobRow /\ x.pc = "reset" /\ x.todo = todo
  BY <1>2, ResetRow
<1> HIDE DEF x
<1> QED BY <1>1, <1>3, Given

\* The next row of the list is a request, set back to PENDING.
LEMMA ResetDoes ==
  ASSUME DataOK, NEW j \in Job, JobOK(j), ResetToPending(j)
  PROVE  /\ Others(j) /\ job'[j].pc = "dispatch" /\ job'[j].req \in Request
         /\ ev' = [ev EXCEPT ![job'[j].req] = "PENDING"]
<1> DEFINE r == Min(job[j].todo)
           rest == job[j].todo \ {r}
           y == Dispatching(j, r, rest)
<1>1. job \in [Job -> JobRow] /\ job[j] \in JobRow /\ job[j].pc = "reset"
  BY DEF DataOK, ResetToPending
<1>2. job[j].todo \in SUBSET Request /\ job[j].todo # {}
  BY <1>1 DEF JobRow, JobOK
<1>3. r \in Request
  BY <1>2, MinOf
<1>4. ev' = [ev EXCEPT ![r] = "PENDING"] /\ job' = [job EXCEPT ![j] = y]
  BY DEF ResetToPending
<1> HIDE DEF r
<1>5. rest \in SUBSET Request
  BY <1>2
<1> HIDE DEF rest
<1>6. y \in JobRow /\ y.pc = "dispatch" /\ y.req = r
  BY <1>1, <1>3, <1>5, DispatchRow
<1> HIDE DEF y
<1>7. Others(j) /\ job'[j] = y
  BY <1>1, <1>4, <1>6, Given
<1> QED BY <1>3, <1>4, <1>6, <1>7

\* The end of a dispatch.
LEMMA FinishDoes ==
  ASSUME DataOK, NEW j \in Job, job' = [job EXCEPT ![j] = Finished(j)]
  PROVE  Others(j) /\ (job'[j].pc = "idle" \/ (job'[j].pc = "reset" /\ job'[j].todo # {}))
<1> DEFINE y == Finished(j)
<1>1. job \in [Job -> JobRow] /\ job' = [job EXCEPT ![j] = y]
  BY DEF DataOK
<1>2. y \in JobRow /\ (y.pc = "idle" \/ (y.pc = "reset" /\ y.todo # {}))
  BY <1>1, FinishedRow
<1> HIDE DEF y
<1> QED BY <1>1, <1>2, Given

\* The dispatcher passes over the row, skips it or starts the handler with the first item.
LEMMA ReadDoes ==
  ASSUME DataOK, NEW j \in Job, ReadPending(j)
  PROVE  /\ Others(j)
         /\ \/ job'[j].pc = "idle"
            \/ job'[j].pc = "reset" /\ job'[j].todo # {}
            \/ /\ job'[j].pc \in {"skip", "find row"} /\ job'[j].req = job[j].req
               /\ ev[job[j].req] = "PENDING"
               /\ job'[j].pc = "find row" => job'[j].at = 1
<1>1. job \in [Job -> JobRow] /\ "skip" \in Pc /\ "find row" \in Pc
  BY DEF DataOK, Pc, Outcome
<1>2. CASE job' = [job EXCEPT ![j] = Finished(j)]
  BY <1>2, FinishDoes
<1>3. CASE ev[job[j].req] = "PENDING" /\ Goto(j, "skip")
  <2>1. Others(j) /\ job'[j].pc = "skip" /\ job'[j].req = job[j].req
    BY <1>1, <1>3, SetPc DEF Goto
  <2> QED BY <1>3, <2>1
<1>4. CASE ev[job[j].req] = "PENDING" /\ job' = [job EXCEPT ![j].pc = "find row", ![j].at = 1]
  <2> DEFINE y == job[j]
             x == [y EXCEPT !.pc = "find row", !.at = 1]
  <2>1. job' = [job EXCEPT ![j] = x] /\ y \in JobRow
    BY <1>1, <1>4
  <2> HIDE DEF y
  <2>2. x \in JobRow /\ x.pc = "find row" /\ x.req = y.req /\ x.at = 1
    BY <1>1, <2>1 DEF JobRow
  <2> HIDE DEF x
  <2>3. Others(j) /\ job'[j] = x
    BY <1>1, <2>1, <2>2, Given
  <2> QED BY <1>4, <2>2, <2>3 DEF y
<1> QED BY <1>2, <1>3, <1>4 DEF ReadPending

\* The handler looks for the item's row.
LEMMA FindRowDoes ==
  ASSUME DataOK, NEW j \in Job, FindRow(j)
  PROVE  Others(j) /\ job'[j].pc = "write row" /\ job'[j].req = job[j].req /\ job'[j].at = job[j].at
<1> DEFINE y == job[j]
           b == RowOfItem(job[j].req, job[j].at) \in enrolled
           x == [y EXCEPT !.pc = "write row", !.found = b]
<1>1. job' = [job EXCEPT ![j] = x]
  BY DEF FindRow
<1>2. job \in [Job -> JobRow] /\ y \in JobRow /\ b \in BOOLEAN /\ "write row" \in Pc
  BY DEF DataOK, Pc
<1> HIDE DEF y, b
<1>3. x \in JobRow /\ x.pc = "write row" /\ x.req = y.req /\ x.at = y.at
  BY <1>2 DEF JobRow
<1> HIDE DEF x
<1>4. Others(j) /\ job'[j] = x
  BY <1>1, <1>2, <1>3, Given
<1> QED BY <1>3, <1>4 DEF y

\* The courses of the term are read.
LEMMA ComputeDoes ==
  ASSUME DataOK, NEW j \in Job, ComputeTuition(j)
  PROVE  /\ Others(j) /\ job'[j].pc = "find charge"
         /\ job'[j].req = job[j].req /\ job'[j].at = job[j].at
         /\ job'[j].covers = Transcript(StudentOf[job[j].req], job[j].at)
<1> DEFINE y == job[j]
           c == Transcript(StudentOf[job[j].req], job[j].at)
           x == [y EXCEPT !.pc = "find charge", !.covers = c]
<1>1. job' = [job EXCEPT ![j] = x]
  BY DEF ComputeTuition
<1>2. job \in [Job -> JobRow] /\ y \in JobRow /\ c \in SUBSET Course /\ "find charge" \in Pc
  BY DEF DataOK, Pc, Transcript
<1> HIDE DEF y, c
<1>3. x \in JobRow /\ x.pc = "find charge" /\ x.req = y.req /\ x.at = y.at /\ x.covers = c
  BY <1>2 DEF JobRow
<1> HIDE DEF x
<1>4. Others(j) /\ job'[j] = x
  BY <1>1, <1>2, <1>3, Given
<1> QED BY <1>3, <1>4 DEF y, c

\* The term's charge is looked for.
LEMMA FindChargeDoes ==
  ASSUME DataOK, NEW j \in Job, FindCharge(j)
  PROVE  /\ Others(j) /\ job'[j].pc = "write charge"
         /\ job'[j].req = job[j].req /\ job'[j].at = job[j].at /\ job'[j].covers = job[j].covers
         /\ job'[j].found <=> charges[<<StudentOf[job[j].req], job[j].at>>] # << >>
<1> DEFINE y == job[j]
           b == charges[<<StudentOf[job[j].req], job[j].at>>] # << >>
           x == [y EXCEPT !.pc = "write charge", !.found = b]
<1>1. job' = [job EXCEPT ![j] = x]
  BY DEF FindCharge
<1>2. job \in [Job -> JobRow] /\ y \in JobRow /\ b \in BOOLEAN /\ "write charge" \in Pc
  BY DEF DataOK, Pc
<1> HIDE DEF y, b
<1>3. /\ x \in JobRow /\ x.pc = "write charge" /\ x.req = y.req /\ x.at = y.at
      /\ x.covers = y.covers /\ x.found = b
  BY <1>2 DEF JobRow
<1> HIDE DEF x
<1>4. Others(j) /\ job'[j] = x
  BY <1>1, <1>2, <1>3, Given
<1> QED BY <1>3, <1>4 DEF y, b

\* The row is written, and the handler goes on; or another job inserted it first.
LEMMA WriteRowDoes ==
  ASSUME DataOK, NEW j \in Job, WriteRow(j)
  PROVE  /\ Others(j) /\ job'[j].req = job[j].req
         /\ \/ enrolled' = enrolled /\ job'[j].pc = "fail"
            \/ /\ enrolled' = enrolled \union {RowOfItem(job[j].req, job[j].at)}
               /\ \/ /\ job[j].at < Len(Items[job[j].req])
                     /\ job'[j].pc = "find row" /\ job'[j].at = job[j].at + 1
                  \/ /\ ~(job[j].at < Len(Items[job[j].req]))
                     /\ \/ TermsCharged(job[j].req) = 0 /\ job'[j].pc = "succeed"
                        \/ /\ TermsCharged(job[j].req) # 0
                           /\ job'[j].pc = "compute" /\ job'[j].at = 1
<1> DEFINE y == job[j]
           r == job[j].req
           n == RowOfItem(r, job[j].at)
<1>1. /\ job \in [Job -> JobRow] /\ y \in JobRow /\ y.at \in Nat
      /\ "fail" \in Pc /\ "find row" \in Pc /\ "succeed" \in Pc /\ "compute" \in Pc
  BY DEF DataOK, Pc, Outcome, JobRow
<1>4. job[j].at \in Nat
  BY <1>1 DEF JobRow
<1>2. CASE Goto(j, "fail") /\ UNCHANGED enrolled
  <2>1. job' = [job EXCEPT ![j].pc = "fail"] /\ "fail" \in Pc
    BY <1>1, <1>2 DEF Goto
  <2>2. Others(j) /\ job'[j].pc = "fail" /\ job'[j].req = job[j].req
    BY <1>1, <2>1, SetPc
  <2> QED BY <1>2, <2>2
<1>3. CASE /\ enrolled' = enrolled \union {n}
           /\ job' = [job EXCEPT ![j] =
                IF job[j].at < Len(Items[r]) THEN [@ EXCEPT !.pc = "find row", !.at = job[j].at + 1]
                ELSE IF TermsCharged(r) = 0 THEN [@ EXCEPT !.pc = "succeed"]
                ELSE [@ EXCEPT !.pc = "compute", !.at = 1]]
  <2>1. CASE job[j].at < Len(Items[r])
    <3> DEFINE m == job[j].at + 1
               x == [y EXCEPT !.pc = "find row", !.at = m]
    <3>1. job' = [job EXCEPT ![j] = x]
      BY <1>3, <2>1
    <3>4. m \in Nat
      BY <1>4
    <3> HIDE DEF y, m
    <3>2. x \in JobRow /\ x.pc = "find row" /\ x.req = y.req /\ x.at = m
      BY <1>1, <3>4 DEF JobRow
    <3> HIDE DEF x
    <3>3. Others(j) /\ job'[j] = x
      BY <1>1, <3>1, <3>2, Given
    <3> QED BY <1>3, <2>1, <3>2, <3>3 DEF y, m
  <2>2. CASE ~(job[j].at < Len(Items[r])) /\ TermsCharged(r) = 0
    <3> DEFINE x == [y EXCEPT !.pc = "succeed"]
    <3>1. job' = [job EXCEPT ![j] = x]
      BY <1>1, <1>3, <2>2
    <3> HIDE DEF y
    <3>2. x \in JobRow /\ x.pc = "succeed" /\ x.req = y.req
      BY <1>1, <3>1 DEF JobRow
    <3> HIDE DEF x
    <3>3. Others(j) /\ job'[j] = x
      BY <1>1, <3>1, <3>2, Given
    <3> QED BY <1>3, <2>2, <3>2, <3>3 DEF y
  <2>3. CASE ~(job[j].at < Len(Items[r])) /\ TermsCharged(r) # 0
    <3> DEFINE x == [y EXCEPT !.pc = "compute", !.at = 1]
    <3>1. job' = [job EXCEPT ![j] = x]
      BY <1>1, <1>3, <2>3
    <3> HIDE DEF y
    <3>2. x \in JobRow /\ x.pc = "compute" /\ x.req = y.req /\ x.at = 1
      BY <1>1, <3>1 DEF JobRow
    <3> HIDE DEF x
    <3>3. Others(j) /\ job'[j] = x
      BY <1>1, <3>1, <3>2, Given
    <3> QED BY <1>3, <2>3, <3>2, <3>3 DEF y
  <2> QED BY <2>1, <2>2, <2>3
<1> QED BY <1>2, <1>3 DEF WriteRow

\* The handler goes on with the form's next term, or is done.
LEMMA NextTermDoes ==
  ASSUME DataOK, NEW j \in Job, NextTerm(j)
  PROVE  /\ Others(j) /\ job'[j].req = job[j].req
         /\ \/ /\ job[j].at < TermsCharged(job[j].req)
               /\ job'[j].pc = "compute" /\ job'[j].at = job[j].at + 1
            \/ ~(job[j].at < TermsCharged(job[j].req)) /\ job'[j].pc = "succeed"
<1> DEFINE y == job[j]
<1>1. job \in [Job -> JobRow] /\ y \in JobRow /\ y.at \in Nat /\ {"succeed", "compute"} \subseteq Pc
  BY DEF DataOK, Pc, Outcome, JobRow
<1>2. CASE job[j].at < TermsCharged(job[j].req)
  <2> DEFINE m == job[j].at + 1
             x == [y EXCEPT !.pc = "compute", !.at = m]
  <2>1. job' = [job EXCEPT ![j] = x]
    BY <1>2 DEF NextTerm
  <2>4. m \in Nat
    BY <1>1
  <2> HIDE DEF y, m
  <2>2. x \in JobRow /\ x.pc = "compute" /\ x.req = y.req /\ x.at = m
    BY <1>1, <2>4 DEF JobRow
  <2> HIDE DEF x
  <2>3. Others(j) /\ job'[j] = x
    BY <1>1, <2>1, <2>2, Given
  <2> QED BY <1>2, <2>2, <2>3 DEF y, m
<1>3. CASE ~(job[j].at < TermsCharged(job[j].req))
  <2> DEFINE x == [y EXCEPT !.pc = "succeed"]
  <2>1. job' = [job EXCEPT ![j] = x]
    BY <1>1, <1>3 DEF NextTerm
  <2> HIDE DEF y
  <2>2. x \in JobRow /\ x.pc = "succeed" /\ x.req = y.req
    BY <1>1 DEF JobRow
  <2> HIDE DEF x
  <2>3. Others(j) /\ job'[j] = x
    BY <1>1, <2>1, <2>2, Given
  <2> QED BY <1>3, <2>2, <2>3 DEF y
<1> QED BY <1>2, <1>3

\* The handler stops at an error.
LEMMA FailDoes ==
  ASSUME DataOK, NEW j \in Job, HandlerFails(j)
  PROVE  Others(j) /\ job'[j].pc = "fail" /\ job'[j].req = job[j].req
<1>1. job' = [job EXCEPT ![j].pc = "fail"] /\ "fail" \in Pc /\ job \in [Job -> JobRow]
  BY DEF HandlerFails, Goto, Pc, Outcome, DataOK
<1> QED BY <1>1, SetPc

-----------------------------------------------------------------------------
(* The inductive invariant.                                                 *)

\* What an item writes.
LEMMA RowType ==
  ASSUME NEW r \in Request, NEW i \in DOMAIN Items[r]
  PROVE  RowOfItem(r, i) \in Student \X Course \X Terms
BY ItemTypes, FormTerms DEF RowOfItem

\* A step of a job that only adds to the transcript keeps the invariant, if it leaves
\* the job where the job may be and marks as processed only what is written.
LEMMA StepKeeps ==
  ASSUME IInv, NEW j \in Job, Others(j), StoreOK', JobOK(j)', enrolled \subseteq enrolled',
         \A r \in Request : ev'[r] = "PROCESSED" => ev[r] = "PROCESSED" \/ InTranscript(r)
  PROVE  IInv'
<1>1. DataOK'
  BY DEF DataOK, Others
<1>2. ProcessedIsInTranscript'
  BY DEF IInv, ProcessedIsInTranscript, InTranscript
<1>3. ASSUME NEW i \in Job PROVE JobOK(i)'
  <2>1. CASE i = j
    BY <2>1
  <2>2. CASE i # j
    <3>1. job'[i] = job[i] /\ JobOK(i)
      BY <2>2 DEF Others, IInv
    <3> QED BY <3>1 DEF JobOK, Before, InTranscript
  <2> QED BY <2>1, <2>2
<1> QED BY <1>1, <1>2, <1>3 DEF IInv

\* A step that leaves the store alone.
LEMMA JobKeeps ==
  ASSUME IInv, NEW j \in Job, Others(j), JobOK(j)',
         UNCHANGED <<ev, shared, registered, enrolled, charges, unpaid>>
  PROVE  IInv'
<1>1. StoreOK'
  BY DEF IInv, DataOK, StoreOK
<1> QED BY <1>1, StepKeeps

\* The initial states.
LEMMA InitIInv ==
  ASSUME Init
  PROVE  IInv
<1>1. StoreOK
  <2>1. << >> \in Seq(SUBSET Course)
    OBVIOUS
  <2>2. charges \in [Student \X Terms -> Seq(SUBSET Course)]
    BY <2>1 DEF Init
  <2> QED BY <2>2 DEF Init, StoreOK
<1>2. job \in [Job -> JobRow] /\ \A j \in Job : job[j].pc = "idle"
  BY IdleRow DEF Init
<1>3. \A j \in Job : JobOK(j)
  BY <1>2 DEF JobOK, Charging
<1>4. ProcessedIsInTranscript
  BY DEF Init, ProcessedIsInTranscript
<1> QED BY <1>1, <1>2, <1>3, <1>4 DEF IInv, DataOK

\* The approval.
LEMMA ApproveKeeps ==
  ASSUME IInv, NEW j \in Job, NEW r \in Request, Approve(r, j)
  PROVE  IInv'
<1>1. Others(j) /\ job'[j].pc = "dispatch" /\ job'[j].req = r
  BY ApproveDoes DEF IInv
<1>2. JobOK(j)'
  BY <1>1 DEF JobOK, Charging
<1>3. StoreOK' /\ enrolled' = enrolled
  BY DEF Approve, IInv, DataOK, StoreOK, dataVars
<1>4. \A q \in Request : ev'[q] = "PROCESSED" => ev[q] = "PROCESSED"
  BY DEF Approve, IInv, DataOK, StoreOK
<1> QED BY <1>1, <1>2, <1>3, <1>4, StepKeeps

\* The retry, of the cron route or the button.
LEMMA RetryKeeps ==
  ASSUME IInv, NEW j \in Job, NEW fromCron \in BOOLEAN, Retry(j, fromCron)
  PROVE  IInv'
<1>1. Others(j) /\ job'[j].pc = "reset" /\ job'[j].todo # {}
  BY RetryDoes DEF IInv
<1>2. JobOK(j)'
  BY <1>1 DEF JobOK, Charging
<1>3. StoreOK' /\ enrolled' = enrolled /\ ev' = ev
  BY DEF Retry, IInv, DataOK, StoreOK, dataVars
<1> QED BY <1>1, <1>2, <1>3, StepKeeps

\* The next row of a retry.
LEMMA ResetKeeps ==
  ASSUME IInv, NEW j \in Job, ResetToPending(j)
  PROVE  IInv'
<1>1. /\ Others(j) /\ job'[j].pc = "dispatch" /\ job'[j].req \in Request
      /\ ev' = [ev EXCEPT ![job'[j].req] = "PENDING"]
  BY ResetDoes DEF IInv
<1>2. JobOK(j)'
  BY <1>1 DEF JobOK, Charging
<1>3. StoreOK' /\ enrolled' = enrolled
  BY <1>1 DEF ResetToPending, IInv, DataOK, StoreOK, dataVars
<1>4. \A q \in Request : ev'[q] = "PROCESSED" => ev[q] = "PROCESSED"
  BY <1>1 DEF IInv, DataOK, StoreOK
<1> QED BY <1>1, <1>2, <1>3, <1>4, StepKeeps

\* The read of the row.
LEMMA ReadKeeps ==
  ASSUME IInv, NEW j \in Job, ReadPending(j)
  PROVE  IInv'
<1>1. /\ Others(j)
      /\ \/ job'[j].pc = "idle"
         \/ job'[j].pc = "reset" /\ job'[j].todo # {}
         \/ /\ job'[j].pc \in {"skip", "find row"} /\ job'[j].req = job[j].req
            /\ job'[j].pc = "find row" => job'[j].at = 1
  BY ReadDoes DEF IInv
<1>2. job[j].req \in Request
  BY DEF IInv, JobOK, ReadPending
<1>3. 1 \in DOMAIN Items[job[j].req] /\ \A i \in DOMAIN Items[job[j].req] : ~(i < 1)
  BY <1>2, ItemTypes
<1>4. JobOK(j)'
  BY <1>1, <1>2, <1>3 DEF JobOK, Charging, Before
<1> QED BY <1>1, <1>4, JobKeeps DEF ReadPending, dataVars

\* The lookup of an item's row.
LEMMA FindRowKeeps ==
  ASSUME IInv, NEW j \in Job, FindRow(j)
  PROVE  IInv'
<1>1. Others(j) /\ job'[j].pc = "write row" /\ job'[j].req = job[j].req /\ job'[j].at = job[j].at
  BY FindRowDoes DEF IInv
<1>2. UNCHANGED <<ev, shared, registered, enrolled, charges, unpaid>> /\ job[j].pc = "find row"
  BY DEF FindRow, dataVars
<1>3. JobOK(j)'
  BY <1>1, <1>2 DEF JobOK, IInv, Charging, Before
<1> QED BY <1>1, <1>2, <1>3, JobKeeps

\* The write of an item's row: the items before the next one are written, and after
\* the last one all are.
LEMMA WriteRowKeeps ==
  ASSUME IInv, NEW j \in Job, WriteRow(j)
  PROVE  IInv'
<1> DEFINE r == job[j].req
           n == job[j].at
<1>1. /\ Others(j) /\ job'[j].req = r
      /\ \/ enrolled' = enrolled /\ job'[j].pc = "fail"
         \/ /\ enrolled' = enrolled \union {RowOfItem(r, n)}
            /\ \/ n < Len(Items[r]) /\ job'[j].pc = "find row" /\ job'[j].at = n + 1
               \/ /\ ~(n < Len(Items[r]))
                  /\ \/ TermsCharged(r) = 0 /\ job'[j].pc = "succeed"
                     \/ TermsCharged(r) # 0 /\ job'[j].pc = "compute" /\ job'[j].at = 1
  BY WriteRowDoes DEF IInv
<1>2. /\ job[j].pc = "write row"
      /\ UNCHANGED <<ev, shared, registered, charges, unpaid>>
  BY DEF WriteRow
<1>3. r \in Request /\ n \in DOMAIN Items[r] /\ Before(r, n)
  BY <1>2 DEF JobOK, IInv
<1>4. /\ DOMAIN Items[r] = 1..Len(Items[r]) /\ Len(Items[r]) \in Nat /\ n \in Nat /\ n <= Len(Items[r])
      /\ RowOfItem(r, n) \in Student \X Course \X Terms /\ TermsCharged(r) \in Nat
  BY <1>3, ItemTypes, RowType, FormTerms
<1> HIDE DEF r, n
<1>5. StoreOK' /\ enrolled \subseteq enrolled'
  BY <1>1, <1>2, <1>4 DEF IInv, DataOK, StoreOK
<1>6. JobOK(j)'
  <2>1. CASE job'[j].pc = "fail"
    BY <1>1, <1>3, <2>1 DEF JobOK, Charging
  <2>2. CASE enrolled' = enrolled \union {RowOfItem(r, n)}
    <3>1. \A i \in DOMAIN Items[r] : i < n + 1 => RowOfItem(r, i) \in enrolled'
      <4>1. \A i \in DOMAIN Items[r] : i < n + 1 => i < n \/ i = n
        BY <1>4
      <4> QED BY <1>3, <2>2, <4>1 DEF Before
    <3>2. CASE n < Len(Items[r]) /\ job'[j].pc = "find row" /\ job'[j].at = n + 1
      <4>1. n + 1 \in DOMAIN Items[r]
        <5> DEFINE L == Len(Items[r])
        <5>1. L \in Nat /\ n \in Nat /\ n < L /\ DOMAIN Items[r] = 1..L
          BY <1>4, <3>2
        <5> HIDE DEF L
        <5>2. n + 1 \in 1..L
          BY <5>1
        <5> QED BY <5>1, <5>2
      <4> QED BY <1>1, <1>3, <3>1, <3>2, <4>1 DEF JobOK, Charging, Before
    <3>3. CASE ~(n < Len(Items[r]))
      <4>1. \A i \in DOMAIN Items[r] : RowOfItem(r, i) \in enrolled'
        <5>1. \A i \in DOMAIN Items[r] : i < n + 1
          BY <1>4, <3>3
        <5> QED BY <3>1, <5>1
      <4>2. CASE job'[j].pc = "succeed"
        BY <1>1, <1>3, <4>1, <4>2 DEF JobOK, Charging, InTranscript
      <4>3. CASE TermsCharged(r) # 0 /\ job'[j].pc = "compute" /\ job'[j].at = 1
        <5>1. 1 \in 1..TermsCharged(r)
          BY <1>4, <4>3
        <5> QED BY <1>1, <1>3, <4>1, <4>3, <5>1 DEF JobOK, Charging, InTranscript
      <4>4. job'[j].pc # "find row" /\ job'[j].pc # "fail" => job'[j].pc \in {"succeed", "compute"}
        BY <1>1
      <4> QED BY <1>1, <3>3, <4>2, <4>3, <2>1
    <3> QED BY <1>1, <2>1, <3>2, <3>3
  <2> QED BY <1>1, <2>1, <2>2
<1> QED BY <1>1, <1>2, <1>5, <1>6, StepKeeps

\* The steps of the charge of a term, but its write and its error.
LEMMA ChargeStepKeeps ==
  ASSUME IInv, NEW j \in Job, ComputeTuition(j) \/ FindCharge(j)
  PROVE  IInv'
<1>1. /\ Others(j) /\ job'[j].pc \in {"find charge", "write charge"}
      /\ job'[j].req = job[j].req /\ job'[j].at = job[j].at
  BY ComputeDoes, FindChargeDoes DEF IInv
<1>2. UNCHANGED <<ev, shared, registered, enrolled, charges, unpaid>> /\ job[j].pc \in Charging
  BY DEF ComputeTuition, FindCharge, dataVars, Charging
<1>3. JobOK(j)'
  BY <1>1, <1>2 DEF JobOK, IInv, Charging, InTranscript
<1> QED BY <1>1, <1>2, <1>3, JobKeeps

\* The job after a term.
LEMMA NextTermKeeps ==
  ASSUME IInv, NEW j \in Job, job[j].pc \in Charging, NextTerm(j), enrolled' = enrolled
  PROVE  Others(j) /\ JobOK(j)'
<1> DEFINE r == job[j].req
           n == job[j].at
<1>1. /\ Others(j) /\ job'[j].req = r
      /\ \/ n < TermsCharged(r) /\ job'[j].pc = "compute" /\ job'[j].at = n + 1
         \/ job'[j].pc = "succeed"
  BY NextTermDoes DEF IInv
<1>2. r \in Request /\ n \in 1..TermsCharged(r) /\ InTranscript(r)
  BY DEF JobOK, IInv, Charging
<1>3. TermsCharged(r) \in Nat
  BY <1>2, FormTerms
<1> HIDE DEF r, n
<1>4. n < TermsCharged(r) => n + 1 \in 1..TermsCharged(r)
  BY <1>2, <1>3
<1> QED BY <1>1, <1>2, <1>4 DEF JobOK, Charging, InTranscript

\* The key of the charge a job works on.
LEMMA KeyType ==
  ASSUME IInv, NEW j \in Job, job[j].pc \in Charging
  PROVE  /\ <<StudentOf[job[j].req], job[j].at>> \in Student \X Terms
         /\ job[j].covers \in SUBSET Course /\ job[j].at \in Terms \ {CurrentTerm}
<1>1. job[j].req \in Request /\ job[j].at \in 1..TermsCharged(job[j].req)
  BY DEF JobOK, IInv, Charging
<1>2. job[j].covers \in SUBSET Course
  BY DEF IInv, DataOK, JobRow
<1> QED BY <1>1, <1>2, ItemTypes, FormTerms

\* The write of the charge.
LEMMA WriteChargeKeeps ==
  ASSUME IInv, NEW j \in Job, WriteCharge(j)
  PROVE  IInv'
<1> DEFINE key == <<StudentOf[job[j].req], job[j].at>>
           c == job[j].covers
<1>1. /\ job[j].pc \in Charging /\ NextTerm(j)
      /\ UNCHANGED <<ev, shared, registered, enrolled>> /\ unpaid' = unpaid \ {key}
  BY DEF WriteCharge, Charging
<1>2. key \in Student \X Terms /\ c \in SUBSET Course
  BY <1>1, KeyType
<1>3. /\ charges \in [Student \X Terms -> Seq(SUBSET Course)]
      /\ \/ \E i \in DOMAIN charges[key] : charges' = [charges EXCEPT ![key][i] = c]
         \/ charges' = [charges EXCEPT ![key] = Append(@, c)]
  BY DEF WriteCharge, IInv, DataOK, StoreOK
<1> HIDE DEF key, c
<1>4. charges' \in [Student \X Terms -> Seq(SUBSET Course)]
  <2>1. charges[key] \in Seq(SUBSET Course)
    BY <1>2, <1>3
  <2>2. Append(charges[key], c) \in Seq(SUBSET Course)
    BY <1>2, <2>1
  <2>3. \A i \in DOMAIN charges[key] : [charges[key] EXCEPT ![i] = c] \in Seq(SUBSET Course)
    BY <1>2, <2>1, ExceptSeq
  <2> QED BY <1>2, <1>3, <2>2, <2>3
<1>5. StoreOK'
  BY <1>1, <1>4 DEF IInv, DataOK, StoreOK
<1>6. Others(j) /\ JobOK(j)'
  BY <1>1, NextTermKeeps
<1> QED BY <1>1, <1>5, <1>6, StepKeeps

\* The charge that fails.
LEMMA ChargeFailsKeeps ==
  ASSUME IInv, NEW j \in Job, ChargeFails(j)
  PROVE  IInv'
<1> DEFINE key == <<StudentOf[job[j].req], job[j].at>>
<1>1. /\ job[j].pc \in Charging /\ NextTerm(j)
      /\ UNCHANGED <<ev, shared, registered, enrolled, charges>> /\ unpaid' = unpaid \union {key}
  BY DEF ChargeFails, Charging
<1>2. key \in Student \X Terms
  BY <1>1, KeyType
<1> HIDE DEF key
<1>3. StoreOK'
  BY <1>1, <1>2 DEF IInv, DataOK, StoreOK
<1>4. Others(j) /\ JobOK(j)'
  BY <1>1, NextTermKeeps
<1> QED BY <1>1, <1>3, <1>4, StepKeeps

\* The handler that stops at an error.
LEMMA HandlerFailsKeeps ==
  ASSUME IInv, NEW j \in Job, HandlerFails(j)
  PROVE  IInv'
<1>1. Others(j) /\ job'[j].pc = "fail" /\ job'[j].req = job[j].req
  BY FailDoes DEF IInv
<1>2. /\ UNCHANGED <<ev, shared, registered, enrolled, charges, unpaid>>
      /\ job[j].pc \in {"find row", "write row"}
  BY DEF HandlerFails, dataVars
<1>3. JobOK(j)'
  BY <1>1, <1>2 DEF JobOK, IInv, Charging
<1> QED BY <1>1, <1>2, <1>3, JobKeeps

\* The outcome: PROCESSED is written by a job whose handler has gone through the form.
LEMMA OutcomeKeeps ==
  ASSUME IInv, NEW j \in Job, MarkOutcome(j)
  PROVE  IInv'
<1> DEFINE r == job[j].req
           o == Outcome[job[j].pc]
<1>1. Others(j) /\ (job'[j].pc = "idle" \/ (job'[j].pc = "reset" /\ job'[j].todo # {}))
  BY FinishDoes DEF IInv, MarkOutcome
<1>2. JobOK(j)'
  BY <1>1 DEF JobOK, Charging
<1>3. job[j].pc \in {"succeed", "fail", "skip"} /\ ev' = [ev EXCEPT ![r] = o]
  BY DEF MarkOutcome, Outcome
<1>4. /\ o \in {"PROCESSED", "FAILED", "SKIPPED"}
      /\ o = "PROCESSED" => job[j].pc = "succeed"
  BY <1>3 DEF Outcome
<1>5. r \in Request /\ (o = "PROCESSED" => InTranscript(r))
  BY <1>3, <1>4 DEF IInv, JobOK, Charging
<1>6. UNCHANGED <<shared, registered, enrolled, charges, unpaid>>
  BY DEF MarkOutcome, dataVars
<1> HIDE DEF r, o
<1>7. StoreOK'
  BY <1>3, <1>4, <1>5, <1>6 DEF IInv, DataOK, StoreOK
<1>8. \A q \in Request : ev'[q] = "PROCESSED" => ev[q] = "PROCESSED" \/ InTranscript(q)
  BY <1>3, <1>5 DEF IInv, DataOK, StoreOK
<1> QED BY <1>1, <1>2, <1>6, <1>7, <1>8, StepKeeps

\* The restart.
LEMMA RestartKeeps ==
  ASSUME IInv, Restart
  PROVE  IInv'
<1>1. /\ job' = [j \in Job |-> IdleJob] /\ registered' = FALSE
      /\ UNCHANGED <<ev, shared, enrolled, charges, unpaid>>
  BY DEF Restart, dataVars
<1>2. job' \in [Job -> JobRow] /\ \A j \in Job : job'[j].pc = "idle"
  BY <1>1, IdleRow
<1>3. \A j \in Job : JobOK(j)'
  BY <1>2 DEF JobOK, Charging
<1>4. DataOK'
  BY <1>1, <1>2 DEF IInv, DataOK, StoreOK
<1>5. ProcessedIsInTranscript'
  BY <1>1 DEF IInv, ProcessedIsInTranscript
<1> QED BY <1>3, <1>4, <1>5 DEF IInv

\* The step of a module that loads, and of no variable of the model.
LEMMA StutterKeeps ==
  ASSUME IInv, LoadEngine \/ UNCHANGED vars
  PROVE  IInv'
<1>1. registered' \in BOOLEAN /\ UNCHANGED <<ev, shared, enrolled, charges, unpaid, job>>
  BY DEF LoadEngine, dataVars, vars, IInv, DataOK, StoreOK
<1>2. DataOK'
  BY <1>1 DEF IInv, DataOK, StoreOK
<1>3. ProcessedIsInTranscript'
  BY <1>1 DEF IInv, ProcessedIsInTranscript
<1>4. \A j \in Job : JobOK(j)'
  BY <1>1 DEF IInv, JobOK, Charging, Before, InTranscript
<1> QED BY <1>2, <1>3, <1>4 DEF IInv

\* Every step of the outbox keeps the invariant.
LEMMA NextIInv ==
  ASSUME IInv, [Next]_vars
  PROVE  IInv'
<1>1. ASSUME NEW j \in Job, NEW r \in Request, Approve(r, j) PROVE IInv'
  BY <1>1, ApproveKeeps
<1>2. ASSUME NEW j \in Job, CronRetry(j) \/ ButtonRetry(j) PROVE IInv'
  BY <1>2, RetryKeeps DEF CronRetry, ButtonRetry
<1>3. ASSUME NEW j \in Job, JobStep(j) PROVE IInv'
  BY <1>3, ResetKeeps, ReadKeeps, FindRowKeeps, WriteRowKeeps, ChargeStepKeeps, WriteChargeKeeps,
     OutcomeKeeps DEF JobStep
<1>4. ASSUME NEW j \in Job, HandlerFails(j) \/ ChargeFails(j) PROVE IInv'
  BY <1>4, HandlerFailsKeeps, ChargeFailsKeeps
<1> QED BY <1>1, <1>2, <1>3, <1>4, RestartKeeps, StutterKeeps DEF Next

\* The inductive invariant says what the type invariant does.
LEMMA IInvTypes ==
  ASSUME IInv
  PROVE  TypeOK
<1>1. ASSUME NEW j \in Job
      PROVE  /\ job[j].pc \in Pc
             /\ job[j].pc \notin {"idle", "reset"} => job[j].req \in Request
             /\ job[j].todo \subseteq Request
  BY DEF IInv, DataOK, JobRow, JobOK
<1> QED BY <1>1 DEF IInv, DataOK, StoreOK, TypeOK

\* The inductive invariant holds in every behaviour of the outbox.
THEOREM IInvHolds == Spec => []IInv
<1>1. Init => IInv
  BY InitIInv
<1>2. IInv /\ [Next]_vars => IInv'
  BY NextIInv
<1> QED BY <1>1, <1>2, PTL DEF Spec

\* Rows, charges and jobs keep their types: a job past the read of its row works on a
\* request, at every interleaving of any number of jobs, errors and restarts.
THEOREM EventsTypeOK == Spec => []TypeOK
<1>1. IInv => TypeOK
  BY IInvTypes
<1> QED BY <1>1, IInvHolds, PTL

\* An event is PROCESSED only when every course of its form is in the transcript:
\* for any forms and any number of overlapping jobs (dispatchWorkflowEvent,
\* applyEquivalenceBatch).
THEOREM ProcessedInTranscript == Spec => []ProcessedIsInTranscript
<1>1. IInv => ProcessedIsInTranscript
  BY DEF IInv
<1> QED BY <1>1, IInvHolds, PTL

-----------------------------------------------------------------------------
(* One job at a time: what the terms are charged.                           *)

\* Only one job moves.
LEMMA OnlyOne ==
  ASSUME Alone, Alone', NEW j \in Job, job[j].pc # "idle" \/ job'[j].pc # "idle"
  PROVE  j = j1
BY IdleRow DEF Alone

\* The idle jobs keep what is said of a job.
LEMMA IdleOK ==
  ASSUME Alone', NEW j \in Job, j = j1, SerialJobOK(j)'
  PROVE  \A i \in Job : SerialJobOK(i)'
<1> SUFFICES ASSUME NEW i \in Job, i # j1 PROVE SerialJobOK(i)'
  OBVIOUS
<1>1. job'[i].pc = "idle"
  BY IdleRow DEF Alone
<1> QED BY <1>1 DEF SerialJobOK, Working

\* What a request owes it still owes after a step that leaves its event to run, and
\* its job short of the term.
LEMMA OwesStays ==
  ASSUME Alone', NEW j \in Job, j = j1, NEW r \in Request, NEW t, Owes(r, t),
         ev'[r] \notin {"NONE", "PROCESSED"},
         job'[j].req = r => /\ job'[j].pc # "succeed"
                            /\ job'[j].pc \in Charging => job'[j].at <= t
  PROVE  Owes(r, t)'
<1>1. ASSUME NEW i \in Job, job'[i].req = r
      PROVE  job'[i].pc # "succeed" /\ (job'[i].pc \in Charging => job'[i].at <= t)
  <2>1. CASE i = j
    BY <1>1, <2>1
  <2>2. CASE i # j
    <3>1. job'[i].pc = "idle"
      BY <2>2, IdleRow DEF Alone
    <3> QED BY <3>1 DEF Charging
  <2> QED BY <2>1, <2>2
<1> QED BY <1>1 DEF Owes

\* A step that writes no row and no charge and moves the job past no term.
LEMMA QuietKeeps ==
  ASSUME SerialInv, Alone', NEW j \in Job, j = j1, SerialJobOK(j)',
         UNCHANGED <<enrolled, charges, unpaid>>,
         \A r \in Request : ev[r] \notin {"NONE", "PROCESSED"} =>
           \/ ev'[r] \notin {"NONE", "PROCESSED"}
           \/ job[j].req = r /\ job[j].pc = "succeed",
         job'[j].pc # "succeed",
         job'[j].pc \in Charging =>
           job[j].pc \in Charging /\ job'[j].req = job[j].req /\ job'[j].at = job[j].at
  PROVE  SerialInv'
<1>1. ASSUME NEW r \in Request, NEW t, Owes(r, t) PROVE Owes(r, t)'
  <2>1. ev'[r] \notin {"NONE", "PROCESSED"}
    BY <1>1 DEF Owes
  <2>2. job'[j].req = r => (job'[j].pc \in Charging => job'[j].at <= t)
    BY <1>1 DEF Owes
  <2> QED BY <1>1, <2>1, <2>2, OwesStays
<1>2. \A s, t : Transcript(s, t)' = Transcript(s, t)
  BY DEF Transcript
<1>3. ChargesFollow'
  BY <1>1, <1>2 DEF SerialInv, ChargesFollow
<1>4. OneChargePerTerm'
  BY DEF SerialInv, OneChargePerTerm
<1> QED BY <1>3, <1>4, IdleOK DEF SerialInv

\* The approval, a retry and its next row.
LEMMA SerialStart ==
  ASSUME IInv, SerialInv, Alone', NEW j \in Job, NEW r \in Request, NEW fromCron \in BOOLEAN,
         Approve(r, j) \/ Retry(j, fromCron) \/ ResetToPending(j)
  PROVE  SerialInv'
<1>1. DataOK /\ JobOK(j)
  BY DEF IInv
<1>2. job'[j].pc \in {"dispatch", "reset"}
  BY <1>1, ApproveDoes, RetryDoes, ResetDoes
<1>3. j = j1
  BY <1>2, OnlyOne DEF SerialInv
<1>4. UNCHANGED <<enrolled, charges, unpaid>>
  BY DEF Approve, Retry, ResetToPending, dataVars
<1>5. ASSUME NEW q \in Request, ev[q] \notin {"NONE", "PROCESSED"}
      PROVE  ev'[q] \notin {"NONE", "PROCESSED"}
  <2>1. ev' = ev \/ \E p \in Request : ev' = [ev EXCEPT ![p] = "PENDING"]
    BY <1>1, ResetDoes DEF Approve, Retry
  <2> QED BY <1>1, <1>5, <2>1 DEF DataOK, StoreOK
<1>6. SerialJobOK(j)'
  BY <1>2 DEF SerialJobOK, Working
<1> QED BY <1>2, <1>3, <1>4, <1>5, <1>6, QuietKeeps DEF Charging

\* The read of the row: the handler starts on a PENDING one.
LEMMA SerialRead ==
  ASSUME IInv, SerialInv, Alone', NEW j \in Job, ReadPending(j)
  PROVE  SerialInv'
<1>1. \/ job'[j].pc \in {"idle", "reset"}
      \/ /\ job'[j].pc \in {"skip", "find row"} /\ job'[j].req = job[j].req
         /\ ev[job[j].req] = "PENDING"
  BY ReadDoes DEF IInv
<1>2. UNCHANGED <<ev, enrolled, charges, unpaid>> /\ job[j].pc = "dispatch"
  BY DEF ReadPending, dataVars
<1>3. j = j1
  BY <1>2, OnlyOne DEF SerialInv
<1>4. SerialJobOK(j)'
  BY <1>1, <1>2 DEF SerialJobOK, Working
<1> QED BY <1>1, <1>2, <1>3, <1>4, QuietKeeps DEF Charging

\* The lookup of an item's row, the reads of a charge and the handler's error.
LEMMA SerialLook ==
  ASSUME IInv, SerialInv, Alone', NEW j \in Job,
         FindRow(j) \/ HandlerFails(j) \/ ComputeTuition(j) \/ FindCharge(j)
  PROVE  SerialInv'
<1>1. job[j].pc \in {"find row", "write row", "compute", "find charge"}
  BY DEF FindRow, HandlerFails, ComputeTuition, FindCharge
<1>2. j = j1 /\ SerialJobOK(j) /\ DataOK
  BY <1>1, OnlyOne DEF SerialInv, IInv
<1>3. UNCHANGED <<ev, enrolled, charges, unpaid>>
  BY DEF FindRow, HandlerFails, ComputeTuition, FindCharge, dataVars
<1>4. ev[job[j].req] = "PENDING"
  BY <1>1, <1>2 DEF SerialJobOK, Working, Pc
<1>5. /\ job'[j].req = job[j].req
      /\ \/ job'[j].pc \in {"write row", "fail"}
         \/ /\ job'[j].pc = "find charge" /\ job[j].pc = "compute" /\ job'[j].at = job[j].at
            /\ job'[j].covers = Transcript(StudentOf[job[j].req], job[j].at)
         \/ /\ job'[j].pc = "write charge" /\ job[j].pc = "find charge" /\ job'[j].at = job[j].at
            /\ job'[j].covers = job[j].covers
            /\ job'[j].found <=> charges[<<StudentOf[job[j].req], job[j].at>>] # << >>
  <2>1. CASE FindRow(j)
    BY <1>2, <2>1, FindRowDoes
  <2>2. CASE HandlerFails(j)
    BY <1>2, <2>2, FailDoes
  <2>3. CASE ComputeTuition(j)
    BY <1>2, <2>3, ComputeDoes DEF ComputeTuition
  <2>4. CASE FindCharge(j)
    BY <1>2, <2>4, FindChargeDoes DEF FindCharge
  <2> QED BY <2>1, <2>2, <2>3, <2>4
<1>6. \A s, t : Transcript(s, t)' = Transcript(s, t)
  BY <1>3 DEF Transcript
<1>7. SerialJobOK(j)'
  <2>1. CASE job'[j].pc \in {"write row", "fail"}
    BY <1>3, <1>4, <1>5, <2>1 DEF SerialJobOK
  <2>2. CASE job'[j].pc = "find charge"
    BY <1>3, <1>4, <1>5, <1>6, <2>2 DEF SerialJobOK
  <2>3. CASE job'[j].pc = "write charge"
    <3>1. job[j].covers = Transcript(StudentOf[job[j].req], job[j].at)
      BY <1>2, <1>5, <2>3 DEF SerialJobOK
    <3> QED BY <1>3, <1>4, <1>5, <1>6, <2>3, <3>1 DEF SerialJobOK
  <2> QED BY <1>5, <2>1, <2>2, <2>3
<1>8. job'[j].pc # "succeed"
  BY <1>5
<1>9. job'[j].pc \in Charging => job[j].pc \in Charging /\ job'[j].at = job[j].at
  BY <1>5 DEF Charging
<1> QED BY <1>2, <1>3, <1>5, <1>7, <1>8, <1>9, QuietKeeps

\* The outcome: a request whose event is PROCESSED owes nothing, its job has gone
\* through all its terms.
LEMMA SerialOutcome ==
  ASSUME IInv, SerialInv, Alone', NEW j \in Job, MarkOutcome(j)
  PROVE  SerialInv'
<1>1. job'[j].pc \in {"idle", "reset"}
  BY FinishDoes DEF IInv, MarkOutcome
<1>2. /\ UNCHANGED <<enrolled, charges, unpaid>> /\ job[j].pc \in {"succeed", "fail", "skip"}
      /\ ev' = [ev EXCEPT ![job[j].req] = Outcome[job[j].pc]]
  BY DEF MarkOutcome, dataVars, Outcome
<1>3. j = j1
  BY <1>2, OnlyOne DEF SerialInv
<1>4. Outcome[job[j].pc] \in {"NONE", "PROCESSED"} => job[j].pc = "succeed"
  BY <1>2 DEF Outcome
<1>5. \A r \in Request : ev[r] \notin {"NONE", "PROCESSED"} =>
           \/ ev'[r] \notin {"NONE", "PROCESSED"}
           \/ job[j].req = r /\ job[j].pc = "succeed"
  BY <1>2, <1>4 DEF IInv, DataOK, StoreOK
<1>6. SerialJobOK(j)'
  BY <1>1 DEF SerialJobOK, Working
<1> QED BY <1>1, <1>2, <1>3, <1>5, <1>6, QuietKeeps DEF Charging

\* The write of an item's row: its term is one the form is still to charge.
LEMMA SerialWriteRow ==
  ASSUME IInv, SerialInv, Alone', NEW j \in Job, WriteRow(j)
  PROVE  SerialInv'
<1> DEFINE r == job[j].req
           n == job[j].at
           t0 == TermOfItem(r, n)
<1>1. /\ job'[j].req = r
      /\ \/ enrolled' = enrolled /\ job'[j].pc = "fail"
         \/ /\ enrolled' = enrolled \union {RowOfItem(r, n)}
            /\ \/ job'[j].pc = "find row"
               \/ TermsCharged(r) = 0 /\ job'[j].pc = "succeed"
               \/ job'[j].pc = "compute" /\ job'[j].at = 1
  BY WriteRowDoes DEF IInv
<1>2. job[j].pc = "write row" /\ UNCHANGED <<ev, charges, unpaid>>
  BY DEF WriteRow
<1>3. j = j1 /\ r \in Request /\ n \in DOMAIN Items[r]
  BY <1>2, OnlyOne DEF SerialInv, IInv, JobOK
<1>4. ev[r] = "PENDING"
  BY <1>2 DEF SerialInv, SerialJobOK, Working, Pc
<1>5. /\ TermsCharged(r) \in Nat /\ (r \in Single <=> TermsCharged(r) = 0)
      /\ t0 # CurrentTerm => t0 \in 1..TermsCharged(r)
  BY <1>3, FormTerms
<1>6. RowOfItem(r, n) = <<StudentOf[r], Items[r][n], t0>>
  BY DEF RowOfItem
<1> HIDE DEF r, n, t0
<1>7. SerialJobOK(j)'
  BY <1>1, <1>2, <1>4 DEF SerialJobOK
<1>8. CASE enrolled' = enrolled /\ job'[j].pc = "fail"
  BY <1>2, <1>3, <1>7, <1>8, QuietKeeps DEF Charging
<1>9. CASE /\ enrolled' = enrolled \union {RowOfItem(r, n)}
           /\ \/ job'[j].pc = "find row"
              \/ TermsCharged(r) = 0 /\ job'[j].pc = "succeed"
              \/ job'[j].pc = "compute" /\ job'[j].at = 1
  <2>1. ASSUME NEW q \in Request, NEW t, Owes(q, t) PROVE Owes(q, t)'
    <3>1. ev'[q] \notin {"NONE", "PROCESSED"} /\ q \notin Single /\ t \in 1..TermsCharged(q)
      BY <1>2, <2>1 DEF Owes
    <3>2. t >= 1
      BY <3>1, FormTerms
    <3>3. job'[j].req = q => /\ job'[j].pc # "succeed"
                             /\ job'[j].pc \in Charging => job'[j].at <= t
      BY <1>1, <1>5, <1>9, <3>1, <3>2 DEF Charging
    <3> QED BY <1>3, <2>1, <3>1, <3>3, OwesStays
  <2>2. ASSUME NEW q \in Request, NEW t, q = r, t = t0, t # CurrentTerm PROVE Owes(q, t)'
    <3>1. t \in 1..TermsCharged(q) /\ q \notin Single /\ t >= 1 /\ ev'[q] = "PENDING"
      <4>1. TermsCharged(q) \in Nat /\ t \in 1..TermsCharged(q)
        BY <1>5, <2>2
      <4>2. TermsCharged(q) # 0 /\ t >= 1
        BY <4>1
      <4>3. q \notin Single
        BY <1>5, <2>2, <4>2
      <4> QED BY <1>2, <1>4, <2>2, <4>1, <4>2, <4>3
    <3>2. ASSUME NEW i \in Job, job'[i].req = q
          PROVE  job'[i].pc # "succeed" /\ (job'[i].pc \in Charging => job'[i].at <= t)
      <4>1. CASE i = j
        BY <1>5, <1>9, <2>2, <3>1, <4>1 DEF Charging
      <4>2. CASE i # j
        <5>1. job'[i].pc = "idle"
          BY <1>3, <4>2, IdleRow DEF Alone
        <5> QED BY <5>1 DEF Charging
      <4> QED BY <4>1, <4>2
    <3> QED BY <3>1, <3>2 DEF Owes
  <2>3. ASSUME NEW s \in Student, NEW t \in Terms \ {CurrentTerm}, <<s, t>> # <<StudentOf[r], t0>>
        PROVE  Transcript(s, t)' = Transcript(s, t)
    <3>1. \A c : <<s, c, t>> # RowOfItem(r, n)
      BY <1>6, <2>3
    <3>2. \A c : <<s, c, t>> \in enrolled' <=> <<s, c, t>> \in enrolled
      BY <1>9, <3>1
    <3> QED BY <3>2 DEF Transcript
  <2>4. ChargesFollow'
    <3> SUFFICES ASSUME NEW s \in Student, NEW t \in Terms \ {CurrentTerm},
                        Transcript(s, t)' # {}, <<s, t>> \notin unpaid',
                        charges'[<<s, t>>] # << Transcript(s, t)' >>
                 PROVE  \E q \in Request : StudentOf[q] = s /\ Owes(q, t)'
      BY DEF ChargesFollow
    <3>1. CASE <<s, t>> = <<StudentOf[r], t0>>
      BY <1>3, <2>2, <3>1
    <3>2. CASE <<s, t>> # <<StudentOf[r], t0>>
      <4>1. PICK q \in Request : StudentOf[q] = s /\ Owes(q, t)
        BY <1>2, <2>3, <3>2 DEF SerialInv, ChargesFollow
      <4> QED BY <2>1, <4>1
    <3> QED BY <3>1, <3>2
  <2>5. OneChargePerTerm'
    BY <1>2 DEF SerialInv, OneChargePerTerm
  <2> QED BY <1>3, <1>7, <2>4, <2>5, IdleOK DEF SerialInv
<1> QED BY <1>1, <1>8, <1>9

\* After a term the job owes all it owed but that term.
LEMMA SerialNextTerm ==
  ASSUME IInv, SerialInv, Alone', NEW j \in Job, j = j1, job[j].pc \in Charging, NextTerm(j), ev' = ev
  PROVE  /\ SerialJobOK(j)'
         /\ \A q \in Request, t \in Terms :
              Owes(q, t) /\ <<StudentOf[q], t>> # <<StudentOf[job[j].req], job[j].at>> => Owes(q, t)'
<1> DEFINE r == job[j].req
           n == job[j].at
<1>1. /\ job'[j].req = r
      /\ \/ n < TermsCharged(r) /\ job'[j].pc = "compute" /\ job'[j].at = n + 1
         \/ ~(n < TermsCharged(r)) /\ job'[j].pc = "succeed"
  BY NextTermDoes DEF IInv
<1>2. r \in Request /\ n \in 1..TermsCharged(r) /\ TermsCharged(r) \in Nat
  <2>1. r \in Request /\ n \in 1..TermsCharged(r)
    BY DEF JobOK, IInv, Charging
  <2> QED BY <2>1, FormTerms
<1>3. ev[r] = "PENDING"
  BY DEF SerialInv, SerialJobOK, Working, Charging, Pc
<1> HIDE DEF r, n
<1>4. SerialJobOK(j)'
  BY <1>1, <1>3 DEF SerialJobOK
<1>5. ASSUME NEW q \in Request, NEW t \in Terms, Owes(q, t), <<StudentOf[q], t>> # <<StudentOf[r], n>>
      PROVE  Owes(q, t)'
  <2>1. ev'[q] \notin {"NONE", "PROCESSED"}
    BY <1>5 DEF Owes
  <2>2. CASE q # r
    BY <1>1, <1>5, <2>1, <2>2, OwesStays
  <2>3. CASE q = r
    <3>1. t # n
      BY <1>5, <2>3
    <3>2. n <= t /\ t \in 1..TermsCharged(r)
      BY <1>5, <2>3 DEF Owes, r, n
    <3>3. n < TermsCharged(r) /\ n + 1 <= t
      BY <1>2, <3>1, <3>2
    <3>4. job'[j].pc # "succeed" /\ job'[j].at <= t
      BY <1>1, <3>3
    <3> QED BY <1>5, <2>1, <3>4, OwesStays
  <2> QED BY <2>2, <2>3
<1> QED BY <1>4, <1>5 DEF r, n

\* The write of the charge brings the term up to date: the charge that was found, the
\* only one, is rewritten, or the first one is written.
LEMMA SerialWriteCharge ==
  ASSUME IInv, SerialInv, Alone', NEW j \in Job, WriteCharge(j)
  PROVE  SerialInv'
<1> DEFINE s0 == StudentOf[job[j].req]
           t0 == job[j].at
           key == <<s0, t0>>
           c == job[j].covers
<1>1. /\ job[j].pc = "write charge" /\ NextTerm(j) /\ UNCHANGED <<ev, enrolled>>
      /\ unpaid' = unpaid \ {key}
      /\ \/ job[j].found /\ \E i \in DOMAIN charges[key] : charges' = [charges EXCEPT ![key][i] = c]
         \/ ~job[j].found /\ charges' = [charges EXCEPT ![key] = Append(@, c)]
  BY DEF WriteCharge
<1>2. j = j1 /\ SerialJobOK(j)
  BY <1>1, OnlyOne DEF SerialInv
<1>3. key \in Student \X Terms /\ c \in SUBSET Course
  BY <1>1, KeyType DEF Charging
<1>4. c = Transcript(s0, t0) /\ (job[j].found <=> charges[key] # << >>)
  BY <1>1, <1>2 DEF SerialJobOK
<1>5. /\ charges \in [Student \X Terms -> Seq(SUBSET Course)]
      /\ charges[key] \in Seq(SUBSET Course) /\ Len(charges[key]) <= 1
  BY <1>3 DEF IInv, DataOK, StoreOK, SerialInv, OneChargePerTerm
<1>6. /\ SerialJobOK(j)'
      /\ \A q \in Request, t \in Terms :
           Owes(q, t) /\ <<StudentOf[q], t>> # <<s0, t0>> => Owes(q, t)'
  BY <1>1, <1>2, SerialNextTerm DEF Charging
<1> HIDE DEF s0, t0, c
<1>7. charges' = [charges EXCEPT ![key] = << c >>]
  <2> DEFINE old == charges[key]
  <2> HIDE DEF key
  <2>1. old \in Seq(SUBSET Course) /\ Len(old) <= 1 /\ Len(old) \in Nat
    BY <1>5, LenProperties
  <2>2. CASE ~job[j].found
    <3>1. old = << >> /\ charges' = [charges EXCEPT ![key] = Append(old, c)]
      BY <1>1, <1>4, <2>2
    <3>2. Append(<< >>, c) = << c >>
      OBVIOUS
    <3> QED BY <3>1, <3>2
  <2>3. CASE job[j].found
    <3>1. PICK i \in DOMAIN old : charges' = [charges EXCEPT ![key] = [old EXCEPT ![i] = c]]
      BY <1>1, <1>3, <1>5, <2>3
    <3>2. Len(old) = 1 /\ DOMAIN old = 1..1
      <4>1. old # << >>
        BY <1>4, <2>3
      <4>2. Len(old) # 0
        BY <2>1, <4>1, EmptySeq
      <4>3. Len(old) = 1
        <5> DEFINE L == Len(old)
        <5>1. L \in Nat /\ L <= 1 /\ L # 0
          BY <2>1, <4>2
        <5> HIDE DEF L
        <5>2. L = 1
          BY <5>1
        <5> QED BY <5>2 DEF L
      <4>4. DOMAIN old = 1..Len(old)
        BY <2>1, LenProperties
      <4> QED BY <4>3, <4>4
    <3>3. i = 1
      BY <3>1, <3>2
    <3>4. [old EXCEPT ![1] = c] = << c >>
      BY <2>1, <3>2
    <3> QED BY <3>1, <3>3, <3>4
  <2> QED BY <2>2, <2>3
<1>8. OneChargePerTerm'
  <2>1. Len(<< c >>) = 1
    OBVIOUS
  <2> HIDE DEF key
  <2> QED BY <1>3, <1>5, <1>7, <2>1 DEF SerialInv, OneChargePerTerm
<1>9. \A s, t : Transcript(s, t)' = Transcript(s, t)
  BY <1>1 DEF Transcript
<1>10. ChargesFollow'
  <2> SUFFICES ASSUME NEW s \in Student, NEW t \in Terms \ {CurrentTerm},
                      Transcript(s, t) # {}, <<s, t>> \notin unpaid',
                      charges'[<<s, t>>] # << Transcript(s, t) >>
               PROVE  \E q \in Request : StudentOf[q] = s /\ Owes(q, t)'
    BY <1>9 DEF ChargesFollow
  <2>1. <<s, t>> # key
    BY <1>3, <1>4, <1>5, <1>7
  <2>2. charges'[<<s, t>>] = charges[<<s, t>>] /\ <<s, t>> \notin unpaid
    BY <1>1, <1>5, <1>7, <2>1
  <2>3. PICK q \in Request : StudentOf[q] = s /\ Owes(q, t)
    BY <2>2 DEF SerialInv, ChargesFollow
  <2> QED BY <1>6, <2>1, <2>3
<1> QED BY <1>2, <1>6, <1>8, <1>10, IdleOK DEF SerialInv

\* The charge that fails: the term is one whose charge failed.
LEMMA SerialChargeFails ==
  ASSUME IInv, SerialInv, Alone', NEW j \in Job, ChargeFails(j)
  PROVE  SerialInv'
<1> DEFINE s0 == StudentOf[job[j].req]
           t0 == job[j].at
<1>1. /\ job[j].pc \in Charging /\ NextTerm(j) /\ UNCHANGED <<ev, enrolled, charges>>
      /\ unpaid' = unpaid \union {<<s0, t0>>}
  BY DEF ChargeFails, Charging
<1>2. j = j1
  BY <1>1, OnlyOne DEF SerialInv, Charging
<1>3. /\ SerialJobOK(j)'
      /\ \A q \in Request, t \in Terms :
           Owes(q, t) /\ <<StudentOf[q], t>> # <<s0, t0>> => Owes(q, t)'
  BY <1>1, <1>2, SerialNextTerm
<1> HIDE DEF s0, t0
<1>4. \A s, t : Transcript(s, t)' = Transcript(s, t)
  BY <1>1 DEF Transcript
<1>5. ChargesFollow'
  <2> SUFFICES ASSUME NEW s \in Student, NEW t \in Terms \ {CurrentTerm},
                      Transcript(s, t) # {}, <<s, t>> \notin unpaid',
                      charges[<<s, t>>] # << Transcript(s, t) >>
               PROVE  \E q \in Request : StudentOf[q] = s /\ Owes(q, t)'
    BY <1>1, <1>4 DEF ChargesFollow
  <2>1. <<s, t>> # <<s0, t0>> /\ <<s, t>> \notin unpaid
    BY <1>1
  <2>2. PICK q \in Request : StudentOf[q] = s /\ Owes(q, t)
    BY <2>1 DEF SerialInv, ChargesFollow
  <2> QED BY <1>3, <2>1, <2>2
<1>6. OneChargePerTerm'
  BY <1>1 DEF SerialInv, OneChargePerTerm
<1> QED BY <1>2, <1>3, <1>5, <1>6, IdleOK DEF SerialInv

\* A step that touches the jobs at most to make them idle: what is owed stays owed.
LEMMA SerialQuiet ==
  ASSUME SerialInv, Alone', UNCHANGED <<ev, enrolled, charges, unpaid>>,
         \A j \in Job : job'[j] = job[j] \/ job'[j].pc = "idle"
  PROVE  SerialInv'
<1>1. \A s, t : Transcript(s, t)' = Transcript(s, t)
  BY DEF Transcript
<1>2. \A j \in Job : SerialJobOK(j)'
  BY <1>1 DEF SerialInv, SerialJobOK, Working
<1>3. ASSUME NEW r \in Request, NEW t, Owes(r, t) PROVE Owes(r, t)'
  BY <1>3 DEF Owes, Charging
<1>4. ChargesFollow'
  BY <1>1, <1>3 DEF SerialInv, ChargesFollow
<1>5. OneChargePerTerm'
  BY DEF SerialInv, OneChargePerTerm
<1> QED BY <1>2, <1>4, <1>5 DEF SerialInv

\* The restart, and the load of the engine.
LEMMA SerialRestart ==
  ASSUME SerialInv, Alone', Restart \/ LoadEngine
  PROVE  SerialInv'
<1>1. UNCHANGED <<ev, enrolled, charges, unpaid>>
  BY DEF Restart, LoadEngine, dataVars
<1>2. \A j \in Job : job'[j] = job[j] \/ job'[j].pc = "idle"
  BY IdleRow DEF Restart, LoadEngine
<1> QED BY <1>1, <1>2, SerialQuiet

\* Every step of one job at a time keeps the invariant.
LEMMA SerialNext ==
  ASSUME IInv, SerialInv, Alone', Next
  PROVE  SerialInv'
<1>1. ASSUME NEW j \in Job, NEW r \in Request, Approve(r, j) PROVE SerialInv'
  <2>1. TRUE \in BOOLEAN
    OBVIOUS
  <2> QED BY <1>1, <2>1, SerialStart
<1>2. ASSUME NEW j \in Job, CronRetry(j) \/ ButtonRetry(j) PROVE SerialInv'
  <2>1. PICK b \in BOOLEAN : Retry(j, b)
    BY <1>2 DEF CronRetry, ButtonRetry
  <2>2. PICK r \in Request : TRUE
    BY <2>1 DEF Retry
  <2> QED BY <2>1, <2>2, SerialStart
<1>3. ASSUME NEW j \in Job, JobStep(j) PROVE SerialInv'
  <2>1. CASE ResetToPending(j)
    <3>1. TRUE \in BOOLEAN /\ \E r \in Request : TRUE
      BY <2>1, ResetDoes DEF IInv
    <3> QED BY <2>1, <3>1, SerialStart
  <2> QED BY <1>3, <2>1, SerialRead, SerialLook, SerialWriteRow, SerialWriteCharge, SerialOutcome
      DEF JobStep
<1>4. ASSUME NEW j \in Job, HandlerFails(j) \/ ChargeFails(j) PROVE SerialInv'
  BY <1>4, SerialLook, SerialChargeFails
<1> QED BY <1>1, <1>2, <1>3, <1>4, SerialRestart DEF Next

\* The initial states.
LEMMA InitSInv ==
  ASSUME ModesInit
  PROVE  SInv
<1>1. /\ \A j \in Job : job[j] = IdleJob
      /\ charges = [k \in Student \X Terms |-> << >>] /\ enrolled = {}
  BY DEF ModesInit, Init
<1>2. \A j \in Job : SerialJobOK(j)
  BY <1>1, IdleRow DEF SerialJobOK, Working
<1>3. Len(<< >>) = 0
  OBVIOUS
<1>4. OneChargePerTerm
  BY <1>1, <1>3 DEF OneChargePerTerm
<1>5. \A s, t : Transcript(s, t) = {}
  BY <1>1 DEF Transcript
<1> QED BY <1>1, <1>2, <1>4, <1>5 DEF SInv, SerialInv, Alone, ChargesFollow

ModesNext == [UNCHANGED mode /\ Next /\ WithinMode']_<<vars, mode>>

\* Both invariants hold in the behaviours of the two modes.
THEOREM ModesHold == ModesSpec => [](IInv /\ SInv)
<1>1. ModesInit => IInv /\ SInv
  BY InitIInv, InitSInv DEF ModesInit
<1>2. ASSUME IInv, SInv, ModesNext PROVE IInv' /\ SInv'
  <2>1. [Next]_vars
    BY <1>2 DEF ModesNext
  <2>2. IInv'
    BY <1>2, <2>1, NextIInv
  <2>3. CASE UNCHANGED <<vars, mode>>
    <3> SUFFICES ASSUME mode' = "serial" PROVE SerialInv'
      BY <2>2 DEF SInv
    <3>1. SerialInv /\ UNCHANGED <<ev, enrolled, charges, unpaid, job>>
      BY <1>2, <2>3 DEF SInv, vars
    <3>2. Alone'
      BY <3>1 DEF SerialInv, Alone
    <3> QED BY <3>1, <3>2, SerialQuiet
  <2>4. CASE UNCHANGED mode /\ Next /\ WithinMode'
    <3> SUFFICES ASSUME mode' = "serial" PROVE SerialInv'
      BY <2>2 DEF SInv
    <3>1. SerialInv /\ Alone'
      BY <1>2, <2>4 DEF SInv, WithinMode, Alone
    <3> QED BY <1>2, <2>4, <3>1, SerialNext
  <2> QED BY <1>2, <2>2, <2>3, <2>4 DEF ModesNext
<1> QED BY <1>1, <1>2, PTL DEF ModesSpec, ModesNext

\* While one job runs at a time a term is never charged twice: for any forms, errors
\* and restarts (chargeTermTuition looks for the charge first).
THEOREM SerialNeverTwice == ModesSpec => []SerialOneChargePerTerm
<1>1. SInv => SerialOneChargePerTerm
  BY DEF SInv, SerialInv, SerialOneChargePerTerm
<1> QED BY <1>1, ModesHold, PTL

\* While one job runs at a time, once no event is left to run every equivalence term is
\* charged for all its courses, whatever forms of the student brought them
\* (computeTermTuition reads the term, chargeTermTuition rewrites its charge).
THEOREM SerialChargesCover == ModesSpec => []SerialChargeCoversTerm
<1>1. ASSUME SInv PROVE SerialChargeCoversTerm
  <2> SUFFICES ASSUME mode = "serial", \A r \in Request : ev[r] \in {"NONE", "PROCESSED"}
               PROVE  ChargeCoversTerm
    BY DEF SerialChargeCoversTerm, ChargeCoversTerm
  <2>1. \A r \in Request : \A t : ~Owes(r, t)
    BY DEF Owes
  <2> QED BY <1>1, <2>1 DEF SInv, SerialInv, ChargesFollow, ChargeCoversTerm
<1> QED BY <1>1, ModesHold, PTL
=============================================================================
