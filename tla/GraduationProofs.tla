--------------------------- MODULE GraduationProofs ---------------------------
(***************************************************************************)
(* Theorems of Graduation, for any departments and automatic checks, any    *)
(* settings, any number of overlapping calls and every bound.               *)
(***************************************************************************)
EXTENDS Graduation, TLAPS

\* What must hold of a dossier before a degree is issued.  Each part, once true, stays
\* true: heads do not take their approval back, and past remembers what rows forget.
Gates ==
  /\ audit.head
  /\ audit.thesis => past.passed
  /\ ~SajjadPending(audit)
  /\ FinalDocsDone(audit)
  /\ past.settled # {}
  /\ ~overlap => past.settled = Dept

\* The status is the one its facts ask for, or a status the cascade does not compute.
DueNow ==
  audit.status \notin {"NONE", "ON_HOLD", "ISSUED"} /\ audit.irandoc # "REJECTED"
    => audit.status = Due(audit, rows)

\* The row of the dossier and the history it is measured against.
FileOK ==
  /\ Exists => audit.irandoc # "NONE"
  /\ ~Exists => ~audit.head /\ Existing(rows) = {}
  /\ Exists /\ audit.thesis => audit.irandoc # "SKIPPED"
  /\ audit.irandoc = "PASSED" => past.passed
  /\ Settled(rows) \subseteq past.settled
  /\ audit.status \in {"READY_TO_ISSUE", "ISSUED"} => Gates
  /\ Final # {} => Gates

StudentOK ==
  /\ student = "GRADUATED" => Final # {}
  /\ ~overlap /\ Final # {} => student = "GRADUATED"

\* A copy of the row that advanceDossier holds: every gate it shows open is open now.
ReadOK(a) ==
  /\ a.thesis = audit.thesis
  /\ a.head => audit.head
  /\ a.photo => audit.photo
  /\ a.paid => audit.paid
  /\ ~SajjadPending(a) => ~SajjadPending(audit)
  /\ a.irandoc = "PASSED" => past.passed
  /\ a.thesis => a.irandoc # "SKIPPED"
  /\ a.status \notin {"ISSUED", "ON_HOLD"}

\* What a call may rely on at its next statement.
CallOK(k) ==
  LET x == call[k]
  IN /\ x.pc \notin {"idle", "open"} => Exists
     /\ x.pc = "open" => (~overlap => ~Exists)
     /\ x.pc = "pending" => (~overlap => Final = {} /\ DueNow)
     /\ x.pc = "confirm" => ~SajjadPending(audit) /\ (~overlap => DueNow)
     /\ x.pc = "insert" => (~overlap => Dept \ Existing(rows) \subseteq x.todo)
     /\ x.pc = "check" => x.todo \subseteq Existing(rows)
     /\ x.pc = "decide" => ReadOK(x.read) /\ (~overlap => x.read = audit)
     /\ x.pc = "write" =>
          /\ x.next \notin {"ISSUED", "ON_HOLD"}
          /\ x.next = "READY_TO_ISSUE" => Gates
          /\ ~overlap => x.next = Due(audit, rows) /\ audit.status \notin {"ISSUED", "ON_HOLD"}
     /\ x.pc = "issue" =>
          /\ x.degree.type # "TRANSCRIPT" => Gates
          /\ ~overlap => DueNow
          /\ ~overlap /\ x.degree.type # "TRANSCRIPT" => audit.status \in {"READY_TO_ISSUE", "ISSUED"}

\* Of calls that do not overlap one is under way; while none inserts the checklist, it
\* is complete or absent; and between them the status is due.
SerialOK ==
  ~overlap =>
    /\ \A j, k \in Session : call[j] # Idle /\ call[k] # Idle => j = k
    /\ \/ Existing(rows) \in {{}, Dept}
       \/ \E k \in Session : call[k].pc = "insert"
    /\ Quiet => DueNow

\* The inductive invariant.
IInv ==
  /\ TypeOK /\ FileOK /\ StudentOK
  /\ \A k \in Session : CallOK(k)
  /\ SerialOK

-----------------------------------------------------------------------------
AuditRow ==
  [status : Status \union {"NONE"}, head : BOOLEAN, thesis : BOOLEAN,
   irandoc : {"NONE", "PENDING", "PASSED", "REJECTED", "SKIPPED"},
   sajjad : {"NONE", "SUBMITTED", "SKIPPED", "CONFIRMED"},
   code : BOOLEAN, photo : BOOLEAN, paid : BOOLEAN]
ReadRow ==
  [status : Status, head : BOOLEAN, thesis : BOOLEAN,
   irandoc : {"PENDING", "PASSED", "REJECTED", "SKIPPED"},
   sajjad : {"NONE", "SUBMITTED", "SKIPPED", "CONFIRMED"},
   code : BOOLEAN, photo : BOOLEAN, paid : BOOLEAN]
Degree == [type : DegreeType, coded : BOOLEAN]

\* The calls by their next statement.
LEMMA CallFields ==
  ASSUME NEW x \in CallType
  PROVE  /\ x.pc \in {"idle", "open", "pending", "advance", "auto", "pay", "paid", "confirm",
                      "insert", "check", "decide", "write", "issue"}
         /\ x.pc = "idle" <=> x = Idle
         /\ x.pc \in {"insert", "check"} => x.todo \subseteq Dept
         /\ x.pc \in {"insert", "check"} =>
              \A d : [x EXCEPT !.todo = @ \ {d}] = [pc |-> x.pc, todo |-> x.todo \ {d}]
         /\ x.pc = "decide" => x.read \in ReadRow
         /\ x.pc = "write" => x.next \in Status
         /\ x.pc = "issue" => x.degree \in Degree
BY DEF CallType, Idle, At, ReadRow, Degree

\* What a call may become.
LEMMA CallTypes ==
  /\ \A pc \in {"idle", "open", "pending", "advance", "auto", "pay", "paid", "confirm"} :
       At(pc) \in CallType /\ At(pc).pc = pc
  /\ Idle \in CallType /\ Idle = At("idle") /\ Idle.pc = "idle"
  /\ \A pc \in {"insert", "check"}, todo \in SUBSET Dept : [pc |-> pc, todo |-> todo] \in CallType
  /\ \A a \in ReadRow : [pc |-> "decide", read |-> a] \in CallType
  /\ \A s \in Status : [pc |-> "write", next |-> s] \in CallType
  /\ \A d \in Degree : [pc |-> "issue", degree |-> d] \in CallType
BY DEF CallType, Idle, At, ReadRow, Degree

\* The cascade: it never asks for an issued or held dossier, opens the last step only
\* when every gate is open, and does not look at the status itself.
LEMMA DueCases ==
  ASSUME NEW a \in AuditRow, NEW r
  PROVE  /\ Due(a, r) \in Status \ {"ISSUED", "ON_HOLD"}
         /\ ~a.head => Due(a, r) = "HEAD_APPROVAL"
         /\ Due(a, r) = "READY_TO_ISSUE" =>
              /\ a.head /\ ~ThesisPending(a)
              /\ Existing(r) # {} /\ Settled(r) = Existing(r)
              /\ ~SajjadPending(a) /\ FinalDocsDone(a)
         /\ \A s : Due([a EXCEPT !.status = s], r) = Due(a, r)
         /\ ~SajjadPending(a) => Due([a EXCEPT !.sajjad = "CONFIRMED"], r) = Due(a, r)
<1>1. /\ Due(a, r) \in Status \ {"ISSUED", "ON_HOLD"}
      /\ ~a.head => Due(a, r) = "HEAD_APPROVAL"
  BY DEF Due, Status, AuditRow
<1>2. Due(a, r) = "READY_TO_ISSUE" =>
        /\ a.head /\ ~ThesisPending(a)
        /\ Existing(r) # {} /\ Settled(r) = Existing(r)
        /\ ~SajjadPending(a) /\ FinalDocsDone(a)
  BY DEF Due
<1>3. ASSUME NEW s PROVE Due([a EXCEPT !.status = s], r) = Due(a, r)
  <2> DEFINE b == [a EXCEPT !.status = s]
  <2>1. b.head = a.head /\ b.thesis = a.thesis /\ b.irandoc = a.irandoc /\ b.sajjad = a.sajjad
        /\ b.code = a.code /\ b.photo = a.photo /\ b.paid = a.paid
    BY DEF AuditRow
  <2> HIDE DEF b
  <2>2. ThesisPending(b) = ThesisPending(a) /\ SajjadPending(b) = SajjadPending(a)
        /\ FinalDocsDone(b) = FinalDocsDone(a)
    BY <2>1 DEF ThesisPending, SajjadPending, FinalDocsDone
  <2>3. Due(b, r) = Due(a, r)
    BY <2>1, <2>2 DEF Due
  <2> QED BY <2>3 DEF b
<1>4. ASSUME ~SajjadPending(a) PROVE Due([a EXCEPT !.sajjad = "CONFIRMED"], r) = Due(a, r)
  <2> DEFINE b == [a EXCEPT !.sajjad = "CONFIRMED"]
  <2>1. b.head = a.head /\ b.thesis = a.thesis /\ b.irandoc = a.irandoc /\ b.sajjad = "CONFIRMED"
        /\ b.code = a.code /\ b.photo = a.photo /\ b.paid = a.paid
    BY DEF AuditRow
  <2> HIDE DEF b
  <2>2. ThesisPending(b) = ThesisPending(a) /\ ~SajjadPending(b) /\ FinalDocsDone(b) = FinalDocsDone(a)
    BY <2>1 DEF ThesisPending, SajjadPending, FinalDocsDone
  <2>3. Due(b, r) = Due(a, r)
    BY <1>4, <2>1, <2>2 DEF Due
  <2> QED BY <2>3 DEF b
<1> QED BY <1>1, <1>2, <1>3, <1>4

-----------------------------------------------------------------------------
\* What no step takes back.
Grows ==
  /\ overlap' = overlap
  /\ Exists => Exists'
  /\ audit'.thesis = audit.thesis
  /\ audit.head => audit'.head
  /\ audit.photo => audit'.photo
  /\ audit.paid => audit'.paid
  /\ ~SajjadPending(audit) => ~SajjadPending(audit')
  /\ past.passed => past'.passed
  /\ past.settled \subseteq past'.settled
  /\ Existing(rows) \subseteq Existing(rows')

\* Gates once open stay open.
LEMMA GatesStay ==
  ASSUME past'.settled \subseteq Dept, Grows, Gates
  PROVE  Gates'
BY DEF Gates, Grows, FinalDocsDone

\* A call undisturbed by the step of another.
LEMMA OtherCall ==
  ASSUME TypeOK', Grows, NEW j \in Session, CallOK(j), call'[j] = call[j],
         ~overlap => call[j] = Idle
  PROVE  CallOK(j)'
<1> DEFINE x == call[j]
<1>1. CASE x.pc = "idle"
  BY <1>1 DEF CallOK
<1>2. CASE x.pc # "idle"
  <2>1. overlap /\ overlap'
    BY <1>2 DEF Idle, Grows
  <2>2. x.pc = "decide" => ReadOK(x.read)'
    BY DEF CallOK, ReadOK, Grows
  <2>3. Gates => Gates'
    BY GatesStay DEF TypeOK
  <2> QED BY <1>2, <2>1, <2>2, <2>3 DEF CallOK, Grows
<1> QED BY <1>1, <1>2

\* Beginning or continuing a call changes that call only, and of calls that do not
\* overlap none other is under way.
LEMMA OneCall ==
  ASSUME IInv, NEW k \in Session, NEW x \in CallType,
         Begin(k, x) \/ (call[k] # Idle /\ Go(k, x))
  PROVE  /\ call' \in [Session -> CallType] /\ call'[k] = x
         /\ \A j \in Session : j # k => call'[j] = call[j]
         /\ ~overlap => \A j \in Session : j # k => call[j] = Idle
         /\ overlap' = overlap /\ debit' = debit
         /\ calls' \in Nat /\ crashes' \in Nat
<1>1. call \in [Session -> CallType] /\ calls \in Nat /\ crashes \in Nat
  BY DEF IInv, TypeOK
<1>2. ~overlap => \A j \in Session : j # k => call[j] = Idle
  BY DEF IInv, SerialOK, Begin
<1>3. call' = [call EXCEPT ![k] = x]
  BY DEF Begin, Go
<1> QED BY <1>1, <1>2, <1>3 DEF Begin, Go

\* The invariant after a step of call k, from what the step does to the file and to k.
LEMMA StepInv ==
  ASSUME IInv, NEW k \in Session, NEW x \in CallType,
         Begin(k, x) \/ (call[k] # Idle /\ Go(k, x)),
         audit' \in AuditRow, rows' \in [Dept -> RowStatus \union {"NONE"}],
         student' \in {"ACTIVE", "PENDING_GRADUATION", "GRADUATED"},
         degrees' \subseteq Degree, credits' \in Nat,
         past' \in [settled : SUBSET Dept, passed : BOOLEAN],
         Grows, FileOK', StudentOK', CallOK(k)',
         ~overlap => Existing(rows') \in {{}, Dept} \/ x.pc = "insert",
         ~overlap /\ x = Idle => DueNow'
  PROVE  IInv'
<1>1. /\ call' \in [Session -> CallType] /\ call'[k] = x
      /\ \A j \in Session : j # k => call'[j] = call[j]
      /\ ~overlap => \A j \in Session : j # k => call[j] = Idle
      /\ overlap' = overlap /\ debit' = debit
      /\ calls' \in Nat /\ crashes' \in Nat
  BY OneCall
<1>2. TypeOK'
  BY <1>1 DEF IInv, TypeOK, AuditRow, Degree
<1>3. \A j \in Session : CallOK(j)'
  <2> SUFFICES ASSUME NEW j \in Session, j # k PROVE CallOK(j)'
    OBVIOUS
  <2>1. CallOK(j) /\ call'[j] = call[j] /\ (~overlap => call[j] = Idle)
    BY <1>1 DEF IInv
  <2> QED BY <1>2, <2>1, OtherCall
<1>4. SerialOK'
  <2> SUFFICES ASSUME ~overlap'
               PROVE  /\ \A i, j \in Session : call'[i] # Idle /\ call'[j] # Idle => i = j
                      /\ \/ Existing(rows') \in {{}, Dept}
                         \/ \E j \in Session : call'[j].pc = "insert"
                      /\ Quiet' => DueNow'
    BY DEF SerialOK, Existing
  <2>1. \A i, j \in Session : call'[i] # Idle /\ call'[j] # Idle => i = j
    BY <1>1
  <2>2. Quiet' => DueNow'
    BY <1>1 DEF Quiet
  <2> QED BY <1>1, <2>1, <2>2
<1> QED BY <1>2, <1>3, <1>4 DEF IInv
\* Of calls that do not overlap, one that does not insert sees the whole checklist or none.
LEMMA WholeChecklist ==
  ASSUME IInv, NEW k \in Session, NEW x,
         Begin(k, x) \/ (call[k] # Idle /\ Go(k, x)), ~overlap, call[k].pc # "insert"
  PROVE  Existing(rows) \in {{}, Dept}
<1>1. \A j \in Session : j # k => call[j] = Idle
  BY DEF IInv, SerialOK, Begin
<1> QED BY <1>1 DEF IInv, SerialOK, Idle

\* A call begins when all is quiet, unless calls overlap: then the status is due.
LEMMA BeginsQuiet ==
  ASSUME IInv, NEW k \in Session, NEW x, Begin(k, x), ~overlap
  PROVE  DueNow
BY DEF IInv, SerialOK, Begin, Quiet

\* The row and the history after a step that leaves a row of the dossier behind.
LEMMA FileStep ==
  ASSUME IInv, Grows, past'.settled \subseteq Dept, Exists', audit'.irandoc # "NONE",
         audit'.thesis => audit'.irandoc # "SKIPPED",
         audit'.irandoc = "PASSED" => past'.passed,
         Settled(rows') \subseteq past'.settled,
         audit'.status \in {"READY_TO_ISSUE", "ISSUED"} =>
           Gates \/ audit.status \in {"READY_TO_ISSUE", "ISSUED"},
         Final' # {} => Gates \/ Final # {}
  PROVE  FileOK'
<1>1. Gates => Gates'
  BY GatesStay
<1>2. audit'.status \in {"READY_TO_ISSUE", "ISSUED"} => Gates'
  BY <1>1 DEF IInv, FileOK
<1>3. Final' # {} => Gates'
  BY <1>1 DEF IInv, FileOK
<1> QED BY <1>2, <1>3 DEF FileOK, Settled

\* A step that changes nothing but its call (and the payments).
LEMMA CallStep ==
  ASSUME IInv, NEW k \in Session, NEW x \in CallType,
         Begin(k, x) \/ (call[k] # Idle /\ Go(k, x)),
         UNCHANGED <<file, student, degrees>>, credits' \in Nat,
         CallOK(k)', call[k].pc # "insert",
         ~overlap /\ x = Idle => DueNow
  PROVE  IInv'
<1>1. /\ audit' = audit /\ rows' = rows /\ past' = past /\ overlap' = overlap
      /\ student' = student /\ degrees' = degrees
  BY DEF file, Begin, Go
<1>2. Grows
  BY <1>1 DEF Grows, Exists
<1>3. FileOK' /\ StudentOK' /\ DueNow' = DueNow
  BY <1>1 DEF IInv, FileOK, StudentOK, Exists, Gates, Final, DueNow
<1>4. /\ audit \in AuditRow /\ rows \in [Dept -> RowStatus \union {"NONE"}]
      /\ student \in {"ACTIVE", "PENDING_GRADUATION", "GRADUATED"}
      /\ degrees \subseteq Degree /\ past \in [settled : SUBSET Dept, passed : BOOLEAN]
  BY DEF IInv, TypeOK, AuditRow, Degree
<1>5. ~overlap => Existing(rows) \in {{}, Dept}
  BY WholeChecklist
<1> QED BY <1>1, <1>2, <1>3, <1>4, <1>5, StepInv

\* A step that changes the dossier's row and leaves the checklist.
LEMMA AuditStep ==
  ASSUME IInv, NEW k \in Session, NEW x \in CallType,
         Begin(k, x) \/ (call[k] # Idle /\ Go(k, x)),
         audit' \in AuditRow, rows' = rows,
         UNCHANGED credits,
         past' \in [settled : SUBSET Dept, passed : BOOLEAN],
         student' \in {"ACTIVE", "PENDING_GRADUATION", "GRADUATED"},
         degrees' \subseteq Degree,
         Grows, FileOK', StudentOK', CallOK(k)',
         call[k].pc = "insert" => call[k].todo = {},
         ~overlap /\ x = Idle => DueNow'
  PROVE  IInv'
<1>1. rows' \in [Dept -> RowStatus \union {"NONE"}] /\ credits' \in Nat
  BY DEF IInv, TypeOK
<1>2. ASSUME ~overlap PROVE Existing(rows') \in {{}, Dept}
  <2>1. CASE call[k].pc = "insert"
    <3>1. Dept \ Existing(rows) \subseteq {}
      BY <1>2, <2>1 DEF IInv, CallOK
    <3>2. Existing(rows) = Dept
      BY <3>1 DEF Existing
    <3> QED BY <3>2
  <2>2. CASE call[k].pc # "insert"
    BY <1>2, <2>2, WholeChecklist
  <2> QED BY <2>1, <2>2
<1> QED BY <1>1, <1>2, StepInv

-----------------------------------------------------------------------------
\* The initial states satisfy the invariant.
LEMMA InitIInv == ASSUME GraduationAssumption, Init PROVE IInv
<1>1. PICK thesis \in BOOLEAN : audit = NoAudit(thesis)
  BY DEF Init
<1>2. /\ audit.status = "NONE" /\ ~audit.head /\ audit.irandoc = "NONE" /\ audit \in AuditRow
  BY <1>1 DEF NoAudit, AuditRow
<1>3. \A k \in Session : call[k] = Idle
  BY DEF Init
<1>4. TypeOK
  <2>1. call \in [Session -> CallType]
    BY CallTypes DEF Init
  <2>2. debit \in Nat
    BY DEF Init, GraduationAssumption
  <2> QED BY <1>2, <2>1, <2>2 DEF Init, TypeOK, AuditRow, RowStatus
<1>5. Existing(rows) = {} /\ Settled(rows) = {} /\ Final = {}
  BY DEF Init, Existing, Settled, Final
<1>6. FileOK /\ StudentOK
  BY <1>2, <1>5 DEF FileOK, StudentOK, Exists, Init
<1>7. \A k \in Session : CallOK(k)
  BY <1>3 DEF CallOK, Idle
<1>8. SerialOK
  BY <1>2, <1>3, <1>5 DEF SerialOK, DueNow
<1> QED BY <1>4, <1>6, <1>7, <1>8 DEF IInv
-----------------------------------------------------------------------------
(* Steps that change nothing but their call.                                *)

\* The row and the checklist as they are.
LEMMA FileTypes ==
  ASSUME IInv
  PROVE  /\ audit \in AuditRow /\ rows \in [Dept -> RowStatus \union {"NONE"}]
         /\ student \in {"ACTIVE", "PENDING_GRADUATION", "GRADUATED"}
         /\ degrees \subseteq Degree /\ credits \in Nat
         /\ past \in [settled : SUBSET Dept, passed : BOOLEAN]
         /\ \A k \in Session : call[k] \in CallType
BY DEF IInv, TypeOK, AuditRow, Degree

\* The call as the step leaves it.
LEMMA Becomes ==
  ASSUME IInv, NEW k \in Session, NEW x, Begin(k, x) \/ Go(k, x)
  PROVE  call'[k] = x /\ overlap' = overlap
BY DEF IInv, TypeOK, Begin, Go

\* A call that begins was idle.
LEMMA WasIdle ==
  ASSUME NEW k, NEW x, Begin(k, x) PROVE call[k].pc = "idle"
BY DEF Begin, Idle

\* The scan finds no dossier.
LEMMA ScanStep == ASSUME IInv, NEW k \in Session, ScanFinds(k) PROVE IInv'
<1>1. /\ Begin(k, At("open")) /\ ~Exists /\ UNCHANGED <<file, student, degrees>> /\ credits' = credits
  BY DEF ScanFinds
<1>2. At("open") \in CallType /\ At("open").pc = "open" /\ At("open") # Idle
  BY CallTypes DEF Idle
<1>3. call'[k] = At("open") /\ ~Exists'
  BY <1>1, Becomes DEF file, Exists
<1>4. CallOK(k)'
  BY <1>2, <1>3 DEF CallOK
<1> QED BY <1>1, <1>2, <1>4, WasIdle, FileTypes, CallStep

\* A button starts a procedure.
LEMMA PressStep == ASSUME IInv, NEW k \in Session, Press(k) PROVE IInv'
<1>1. Exists /\ UNCHANGED <<file, student, degrees>> /\ credits' = credits
  BY DEF Press
<1>2. PICK pc \in {"advance", "auto", "insert"} :
        Begin(k, IF pc = "insert" THEN [pc |-> pc, todo |-> Dept] ELSE At(pc))
  BY DEF Press
<1> DEFINE x == IF pc = "insert" THEN [pc |-> pc, todo |-> Dept] ELSE At(pc)
<1>3. x \in CallType /\ x.pc = pc /\ (x.pc = "insert" => x.todo = Dept) /\ x # Idle
  BY CallTypes DEF Idle
<1>4. Begin(k, x)
  BY <1>2
<1> HIDE DEF x
<1>5. call'[k] = x /\ Exists'
  BY <1>1, <1>4, Becomes DEF file, Exists
<1>6. CallOK(k)'
  BY <1>2, <1>3, <1>5 DEF CallOK
<1> QED BY <1>1, <1>3, <1>4, <1>6, WasIdle, FileTypes, CallStep

\* The fee is looked up.
LEMMA PayReadStep == ASSUME IInv, NEW k \in Session, PayRead(k) PROVE IInv'
<1> DEFINE x == At(IF Fee > 0 /\ ~audit.paid THEN "pay" ELSE "paid")
<1>1. Exists /\ Begin(k, x) /\ UNCHANGED <<file, student, degrees>> /\ credits' = credits
  BY DEF PayRead
<1>2. x \in CallType /\ x.pc \in {"pay", "paid"} /\ x # Idle
  BY CallTypes DEF Idle
<1> HIDE DEF x
<1>3. call'[k] = x /\ Exists'
  BY <1>1, Becomes DEF file, Exists
<1>4. CallOK(k)'
  BY <1>2, <1>3 DEF CallOK
<1> QED BY <1>1, <1>2, <1>4, WasIdle, FileTypes, CallStep

\* The ministry is asked: the request is not pending and, without overlap, the status due.
LEMMA AskStep == ASSUME IInv, NEW k \in Session, AskMinistry(k) PROVE IInv'
<1>1. /\ Exists /\ ~SajjadPending(audit) /\ Begin(k, At("confirm"))
      /\ UNCHANGED <<file, student, degrees>> /\ credits' = credits
  BY DEF AskMinistry
<1>2. At("confirm") \in CallType /\ At("confirm").pc = "confirm" /\ At("confirm") # Idle
  BY CallTypes DEF Idle
<1>3. call'[k] = At("confirm") /\ overlap' = overlap /\ Exists' /\ audit' = audit /\ rows' = rows
  BY <1>1, Becomes DEF file, Exists
<1>4. ~overlap => DueNow
  BY <1>1, BeginsQuiet
<1>5. CallOK(k)'
  BY <1>1, <1>2, <1>3, <1>4 DEF CallOK, DueNow
<1> QED BY <1>1, <1>2, <1>5, WasIdle, FileTypes, CallStep

\* The payment is inserted.
LEMMA PayInsertStep == ASSUME IInv, NEW k \in Session, PayInsert(k) PROVE IInv'
<1>1. /\ call[k].pc = "pay" /\ Go(k, At("paid"))
      /\ UNCHANGED <<file, student, degrees>> /\ credits' \in Nat
  BY FileTypes DEF PayInsert
<1>2. At("paid") \in CallType /\ At("paid").pc = "paid" /\ At("paid") # Idle
  BY CallTypes DEF Idle
<1>3. call'[k] = At("paid") /\ Exists'
  BY <1>1, Becomes DEF file, Exists, IInv, CallOK
<1>4. CallOK(k)'
  BY <1>2, <1>3 DEF CallOK
<1>5. call[k] # Idle
  BY <1>1 DEF Idle
<1> QED BY <1>1, <1>2, <1>4, <1>5, CallStep

\* The unsettled rows are listed: each of them exists.
LEMMA ReadChecklistStep == ASSUME IInv, NEW k \in Session, ReadChecklist(k) PROVE IInv'
<1> DEFINE todo == {d \in Existing(rows) \ Settled(rows) : AutoCheck[d] # "NONE"}
           x == [pc |-> "check", todo |-> todo]
<1>1. /\ call[k].pc = "auto" /\ Go(k, x)
      /\ UNCHANGED <<file, student, degrees>> /\ credits' = credits
  BY DEF ReadChecklist
<1>2. todo \subseteq Existing(rows) /\ todo \in SUBSET Dept
  BY DEF Existing
<1> HIDE DEF todo
<1>3. x \in CallType /\ x.pc = "check" /\ x.todo = todo /\ x # Idle
  BY <1>2, CallTypes DEF Idle
<1> HIDE DEF x
<1>4. call'[k] = x /\ Exists' /\ rows' = rows
  BY <1>1, Becomes DEF file, Exists, IInv, CallOK
<1>5. CallOK(k)'
  BY <1>2, <1>3, <1>4 DEF CallOK, Existing
<1>6. call[k] # Idle
  BY <1>1 DEF Idle
<1> QED BY <1>1, <1>3, <1>5, <1>6, FileTypes, CallStep

\* The checks are done.
LEMMA ChecksDoneStep == ASSUME IInv, NEW k \in Session, ChecksDone(k) PROVE IInv'
<1>1. /\ call[k].pc = "check" /\ Go(k, At("advance"))
      /\ UNCHANGED <<file, student, degrees>> /\ credits' = credits
  BY DEF ChecksDone
<1>2. At("advance") \in CallType /\ At("advance").pc = "advance" /\ At("advance") # Idle
  BY CallTypes DEF Idle
<1>3. call'[k] = At("advance") /\ Exists'
  BY <1>1, Becomes DEF file, Exists, IInv, CallOK
<1>4. CallOK(k)'
  BY <1>2, <1>3 DEF CallOK
<1>5. call[k] # Idle
  BY <1>1 DEF Idle
<1> QED BY <1>1, <1>2, <1>4, <1>5, FileTypes, CallStep

\* The row is read: an issued or held dossier stays, of another a copy is taken.
LEMMA AdvanceReadStep == ASSUME IInv, NEW k \in Session, AdvanceRead(k) PROVE IInv'
<1> DEFINE x == IF audit.status \in {"ISSUED", "ON_HOLD"} THEN Idle ELSE [pc |-> "decide", read |-> audit]
<1>1. /\ call[k].pc = "advance" /\ Go(k, x)
      /\ UNCHANGED <<file, student, degrees>> /\ credits' = credits
  BY DEF AdvanceRead
<1>2. /\ Exists /\ audit \in AuditRow /\ audit.irandoc # "NONE"
      /\ (audit.thesis => audit.irandoc # "SKIPPED") /\ (audit.irandoc = "PASSED" => past.passed)
  BY <1>1, FileTypes DEF IInv, CallOK, FileOK
<1>3. audit \in ReadRow
  BY <1>2 DEF AuditRow, ReadRow, Exists
<1>4. call'[k] = x /\ audit' = audit /\ past' = past /\ overlap' = overlap
  BY <1>1, Becomes DEF file
<1>5. x \in CallType
  BY <1>3, CallTypes
<1>6. CallOK(k)'
  <2>1. CASE audit.status \in {"ISSUED", "ON_HOLD"}
    BY <1>4, <2>1 DEF CallOK, Idle
  <2>2. CASE audit.status \notin {"ISSUED", "ON_HOLD"}
    <3>1. call'[k] = [pc |-> "decide", read |-> audit]
      BY <1>4, <2>2
    <3>2. ReadOK(audit)'
      BY <1>2, <1>4, <2>2 DEF ReadOK
    <3>3. Exists'
      BY <1>2, <1>4 DEF Exists
    <3> QED BY <1>4, <3>1, <3>2, <3>3 DEF CallOK
  <2> QED BY <2>1, <2>2
<1>7. x = Idle => DueNow
  BY DEF DueNow, Idle
<1>8. call[k] # Idle
  BY <1>1 DEF Idle
<1> HIDE DEF x
<1> QED BY <1>1, <1>5, <1>6, <1>7, <1>8, FileTypes, CallStep

\* The next status is chosen from the copy and the checklist of now: the last step only when every gate is open.
LEMMA AdvanceDecideStep == ASSUME IInv, NEW k \in Session, AdvanceDecide(k) PROVE IInv'
<1> DEFINE a == call[k].read
           next == Due(a, rows)
           arrives == a.head /\ ~ThesisPending(a) /\ Existing(rows) = {} /\ a.status # "CLEARANCE"
           x == IF arrives THEN [pc |-> "insert", todo |-> Dept]
                ELSE IF next = a.status THEN Idle ELSE [pc |-> "write", next |-> next]
<1>1. /\ call[k].pc = "decide" /\ Go(k, x)
      /\ UNCHANGED <<file, student, degrees>> /\ credits' = credits
  BY DEF AdvanceDecide
<1>2. Exists /\ ReadOK(a) /\ (~overlap => a = audit)
  BY <1>1 DEF IInv, CallOK
<1>3. a \in ReadRow
  BY <1>1, FileTypes, CallFields
<1>4. a \in AuditRow
  BY <1>3 DEF ReadRow, AuditRow
<1>5. next \in Status /\ next \notin {"ISSUED", "ON_HOLD"}
  BY <1>4, DueCases
<1>6. next = "READY_TO_ISSUE" => Gates
  <2> SUFFICES ASSUME next = "READY_TO_ISSUE" PROVE Gates
    OBVIOUS
  <2>1. /\ a.head /\ ~ThesisPending(a) /\ Existing(rows) # {} /\ Settled(rows) = Existing(rows)
        /\ ~SajjadPending(a) /\ FinalDocsDone(a)
    BY <1>4, DueCases
  <2>2. audit.head /\ ~SajjadPending(audit) /\ FinalDocsDone(audit)
    BY <1>2, <2>1 DEF ReadOK, FinalDocsDone
  <2>3. audit.thesis => past.passed
    BY <1>2, <2>1 DEF ReadOK, ThesisPending
  <2>4. Settled(rows) \subseteq past.settled /\ past.settled \subseteq Dept
    BY FileTypes DEF IInv, FileOK
  <2>5. ~overlap => Existing(rows) = Dept
    BY <1>1, <2>1, WholeChecklist DEF Idle
  <2> QED BY <2>1, <2>2, <2>3, <2>4, <2>5 DEF Gates
<1>7. call'[k] = x /\ audit' = audit /\ rows' = rows /\ past' = past /\ overlap' = overlap /\ Exists'
  BY <1>1, <1>2, Becomes DEF file, Exists
<1>8. x \in CallType
  BY <1>5, CallTypes
<1>9. Gates' = Gates
  BY <1>7 DEF Gates
<1>10. CallOK(k)'
  <2>1. CASE arrives
    <3>1. call'[k].pc = "insert" /\ call'[k].todo = Dept
      BY <1>7, <2>1
    <3> QED BY <1>7, <3>1 DEF CallOK
  <2>2. CASE ~arrives /\ next = a.status
    BY <1>7, <2>2 DEF CallOK, Idle
  <2>3. CASE ~arrives /\ next # a.status
    <3>1. call'[k].pc = "write" /\ call'[k].next = next
      BY <1>7, <2>3
    <3>2. ~overlap => audit.status \notin {"ISSUED", "ON_HOLD"} /\ next = Due(audit, rows)
      BY <1>2 DEF ReadOK
    <3> HIDE DEF next
    <3> QED BY <1>5, <1>6, <1>7, <1>9, <3>1, <3>2 DEF CallOK
  <2> QED BY <2>1, <2>2, <2>3
<1>11. ~overlap /\ x = Idle => DueNow
  BY <1>2 DEF DueNow, Idle
<1>12. call[k] # Idle
  BY <1>1 DEF Idle
<1> HIDE DEF x
<1> QED BY <1>1, <1>8, <1>10, <1>11, <1>12, FileTypes, CallStep

\* A degree is asked for: unless it is a transcript the dossier is ready, and its gates are open.
LEMMA IssueReadStep == ASSUME IInv, NEW k \in Session, NEW type \in DegreeType, NEW given \in BOOLEAN, IssueRead(k, type, given) PROVE IInv'
<1> DEFINE degree == [type |-> type, coded |-> type = "PERMANENT" \/ given]
           x == [pc |-> "issue", degree |-> degree]
<1>1. /\ Exists /\ Begin(k, x)
      /\ UNCHANGED <<file, student, degrees>> /\ credits' = credits
      /\ type # "TRANSCRIPT" => audit.status \in {"READY_TO_ISSUE", "ISSUED"}
  BY DEF IssueRead
<1>2. degree \in Degree /\ degree.type = type
  BY DEF Degree
<1> HIDE DEF degree
<1>3. x \in CallType /\ x.pc = "issue" /\ x.degree = degree /\ x # Idle
  BY <1>2, CallTypes DEF Idle
<1> HIDE DEF x
<1>4. call'[k] = x /\ audit' = audit /\ rows' = rows /\ past' = past /\ overlap' = overlap /\ Exists'
  BY <1>1, Becomes DEF file, Exists
<1>5. (~overlap => DueNow) /\ DueNow' = DueNow /\ Gates' = Gates
  BY <1>1, <1>4, BeginsQuiet DEF DueNow, Gates
<1>6. type # "TRANSCRIPT" => Gates
  BY <1>1 DEF IInv, FileOK
<1>7. CallOK(k)'
  BY <1>1, <1>2, <1>3, <1>4, <1>5, <1>6 DEF CallOK
<1> QED BY <1>1, <1>3, <1>7, WasIdle, FileTypes, CallStep

\* A call is cut off, of calls that overlap.
LEMMA CrashStep == ASSUME IInv, NEW k \in Session, Crash(k) PROVE IInv'
<1>1. /\ overlap /\ overlap' = overlap /\ debit' = debit /\ calls' = calls /\ crashes' = crashes + 1
      /\ audit' = audit /\ rows' = rows /\ past' = past /\ student' = student
      /\ degrees' = degrees /\ credits' = credits /\ call' = [call EXCEPT ![k] = Idle]
  BY DEF Crash, file
<1>2. TypeOK'
  BY <1>1, CallTypes DEF IInv, TypeOK
<1>3. FileOK' /\ StudentOK'
  BY <1>1 DEF IInv, FileOK, StudentOK, Exists, Gates, Final
<1>4. Grows
  BY <1>1 DEF Grows, Exists
<1>5. ASSUME NEW j \in Session PROVE CallOK(j)'
  <2>1. CASE j = k
    <3>1. call'[j].pc = "idle"
      BY <1>1, <2>1 DEF IInv, TypeOK, Idle
    <3> QED BY <3>1 DEF CallOK
  <2>2. CASE j # k
    BY <1>1, <1>2, <1>4, <2>2, OtherCall DEF IInv, TypeOK
  <2> QED BY <2>1, <2>2
<1>6. SerialOK'
  BY <1>1 DEF SerialOK
<1> QED BY <1>2, <1>3, <1>5, <1>6 DEF IInv
-----------------------------------------------------------------------------
(* Steps that change the dossier's row.                                     *)

\* A button changes a fact and advances: no gate closes, and the status does not
\* become one of the last two.
LEMMA FactStep ==
  ASSUME IInv, NEW k \in Session, NEW a \in AuditRow, ChangeFact(k, a),
         past' \in [settled : SUBSET Dept, passed : BOOLEAN],
         past'.settled = past.settled, past.passed => past'.passed,
         a.irandoc = "PASSED" => past'.passed,
         a.thesis = audit.thesis, a.irandoc \in {audit.irandoc, "PASSED"},
         audit.head => a.head, audit.photo => a.photo, audit.paid => a.paid,
         ~SajjadPending(audit) => ~SajjadPending(a),
         a.status \in {audit.status, "CATALOG_REVIEW"}
  PROVE  IInv'
<1>1. /\ Exists /\ audit' = a /\ Begin(k, At("advance"))
      /\ rows' = rows /\ student' = student /\ degrees' = degrees /\ credits' = credits
  BY DEF ChangeFact
<1>2. At("advance") \in CallType /\ At("advance").pc = "advance" /\ At("advance") # Idle
  BY CallTypes DEF Idle
<1>3. call'[k] = At("advance") /\ overlap' = overlap /\ call[k].pc = "idle"
  BY <1>1, Becomes, WasIdle
<1>4. Exists'
  BY <1>1 DEF Exists
<1>5. Grows
  BY <1>1, <1>3, <1>4 DEF Grows
<1>6. FileOK'
  <2>1. audit'.irandoc # "NONE" /\ (audit'.thesis => audit'.irandoc # "SKIPPED")
    BY <1>1 DEF IInv, FileOK
  <2>2. Settled(rows') \subseteq past'.settled
    BY <1>1 DEF IInv, FileOK
  <2>3. Final' = Final
    BY <1>1 DEF Final
  <2>4. audit'.status \in {"READY_TO_ISSUE", "ISSUED"} => audit.status \in {"READY_TO_ISSUE", "ISSUED"}
    BY <1>1
  <2>5. audit'.irandoc = "PASSED" => past'.passed
    BY <1>1
  <2> QED BY <1>4, <1>5, <2>1, <2>2, <2>3, <2>4, <2>5, FileStep
<1>7. StudentOK'
  BY <1>1, <1>3 DEF IInv, StudentOK, Final
<1>8. CallOK(k)'
  BY <1>2, <1>3, <1>4 DEF CallOK
<1> QED BY <1>1, <1>2, <1>3, <1>5, <1>6, <1>7, <1>8, FileTypes, AuditStep

\* The head approves.
LEMMA HeadStep == ASSUME IInv, NEW k \in Session, ApproveByHead(k) PROVE IInv'
<1> DEFINE a == [audit EXCEPT !.head = TRUE]
<1>1. ChangeFact(k, a) /\ past' = past
  BY DEF ApproveByHead
<1>2. audit \in AuditRow /\ past \in [settled : SUBSET Dept, passed : BOOLEAN]
      /\ (audit.irandoc = "PASSED" => past.passed)
  BY FileTypes DEF IInv, FileOK
<1>3. a \in AuditRow /\ a.thesis = audit.thesis /\ a.irandoc \in {audit.irandoc, "PASSED"}
      /\ (audit.head => a.head) /\ (audit.photo => a.photo) /\ (audit.paid => a.paid)
      /\ a.status \in {audit.status, "CATALOG_REVIEW"}
  BY <1>2 DEF AuditRow, Status
<1>4. ~SajjadPending(audit) => ~SajjadPending(a)
  BY <1>2 DEF AuditRow, SajjadPending
<1>5. /\ past' \in [settled : SUBSET Dept, passed : BOOLEAN]
      /\ past'.settled = past.settled /\ (past.passed => past'.passed)
      /\ (a.irandoc = "PASSED" => past'.passed)
  BY <1>1, <1>2 DEF AuditRow
<1> HIDE DEF a
<1> QED BY <1>1, <1>3, <1>4, <1>5, FactStep

\* The ministry's request is waived.
LEMMA WaiveStep == ASSUME IInv, NEW k \in Session, WaiveSajjad(k) PROVE IInv'
<1> DEFINE a == [audit EXCEPT !.sajjad = "SKIPPED"]
<1>1. ChangeFact(k, a) /\ past' = past
  BY DEF WaiveSajjad
<1>2. audit \in AuditRow /\ past \in [settled : SUBSET Dept, passed : BOOLEAN]
      /\ (audit.irandoc = "PASSED" => past.passed)
  BY FileTypes DEF IInv, FileOK
<1>3. a \in AuditRow /\ a.thesis = audit.thesis /\ a.irandoc \in {audit.irandoc, "PASSED"}
      /\ (audit.head => a.head) /\ (audit.photo => a.photo) /\ (audit.paid => a.paid)
      /\ a.status \in {audit.status, "CATALOG_REVIEW"}
  BY <1>2 DEF AuditRow, Status
<1>4. ~SajjadPending(audit) => ~SajjadPending(a)
  BY <1>2 DEF AuditRow, SajjadPending
<1>5. /\ past' \in [settled : SUBSET Dept, passed : BOOLEAN]
      /\ past'.settled = past.settled /\ (past.passed => past'.passed)
      /\ (a.irandoc = "PASSED" => past'.passed)
  BY <1>1, <1>2 DEF AuditRow
<1> HIDE DEF a
<1> QED BY <1>1, <1>3, <1>4, <1>5, FactStep

\* The photo is handed in.
LEMMA PhotoStep == ASSUME IInv, NEW k \in Session, SetFinalPhoto(k) PROVE IInv'
<1> DEFINE a == [audit EXCEPT !.photo = TRUE]
<1>1. ChangeFact(k, a) /\ past' = past
  BY DEF SetFinalPhoto
<1>2. audit \in AuditRow /\ past \in [settled : SUBSET Dept, passed : BOOLEAN]
      /\ (audit.irandoc = "PASSED" => past.passed)
  BY FileTypes DEF IInv, FileOK
<1>3. a \in AuditRow /\ a.thesis = audit.thesis /\ a.irandoc \in {audit.irandoc, "PASSED"}
      /\ (audit.head => a.head) /\ (audit.photo => a.photo) /\ (audit.paid => a.paid)
      /\ a.status \in {audit.status, "CATALOG_REVIEW"}
  BY <1>2 DEF AuditRow, Status
<1>4. ~SajjadPending(audit) => ~SajjadPending(a)
  BY <1>2 DEF AuditRow, SajjadPending
<1>5. /\ past' \in [settled : SUBSET Dept, passed : BOOLEAN]
      /\ past'.settled = past.settled /\ (past.passed => past'.passed)
      /\ (a.irandoc = "PASSED" => past'.passed)
  BY <1>1, <1>2 DEF AuditRow
<1> HIDE DEF a
<1> QED BY <1>1, <1>3, <1>4, <1>5, FactStep

\* A held dossier is taken up again.
LEMMA ResumeStep == ASSUME IInv, NEW k \in Session, ResumeDossier(k) PROVE IInv'
<1> DEFINE a == [audit EXCEPT !.status = "CATALOG_REVIEW"]
<1>1. ChangeFact(k, a) /\ past' = past
  BY DEF ResumeDossier
<1>2. audit \in AuditRow /\ past \in [settled : SUBSET Dept, passed : BOOLEAN]
      /\ (audit.irandoc = "PASSED" => past.passed)
  BY FileTypes DEF IInv, FileOK
<1>3. a \in AuditRow /\ a.thesis = audit.thesis /\ a.irandoc \in {audit.irandoc, "PASSED"}
      /\ (audit.head => a.head) /\ (audit.photo => a.photo) /\ (audit.paid => a.paid)
      /\ a.status \in {audit.status, "CATALOG_REVIEW"}
  BY <1>2 DEF AuditRow, Status
<1>4. ~SajjadPending(audit) => ~SajjadPending(a)
  BY <1>2 DEF AuditRow, SajjadPending
<1>5. /\ past' \in [settled : SUBSET Dept, passed : BOOLEAN]
      /\ past'.settled = past.settled /\ (past.passed => past'.passed)
      /\ (a.irandoc = "PASSED" => past'.passed)
  BY <1>1, <1>2 DEF AuditRow
<1> HIDE DEF a
<1> QED BY <1>1, <1>3, <1>4, <1>5, FactStep

\* The thesis passes the similarity check, and history notes it.
LEMMA PassStep == ASSUME IInv, NEW k \in Session, IrandocPasses(k) PROVE IInv'
<1> DEFINE a == [audit EXCEPT !.irandoc = "PASSED"]
<1>1. ChangeFact(k, a) /\ past' = [past EXCEPT !.passed = TRUE]
  BY DEF IrandocPasses
<1>2. audit \in AuditRow /\ past \in [settled : SUBSET Dept, passed : BOOLEAN]
      /\ (audit.irandoc = "PASSED" => past.passed)
  BY FileTypes DEF IInv, FileOK
<1>3. a \in AuditRow /\ a.thesis = audit.thesis /\ a.irandoc \in {audit.irandoc, "PASSED"}
      /\ (audit.head => a.head) /\ (audit.photo => a.photo) /\ (audit.paid => a.paid)
      /\ a.status \in {audit.status, "CATALOG_REVIEW"}
  BY <1>2 DEF AuditRow, Status
<1>4. ~SajjadPending(audit) => ~SajjadPending(a)
  BY <1>2 DEF AuditRow, SajjadPending
<1>5. /\ past' \in [settled : SUBSET Dept, passed : BOOLEAN]
      /\ past'.settled = past.settled /\ (past.passed => past'.passed)
      /\ (a.irandoc = "PASSED" => past'.passed)
  BY <1>1, <1>2 DEF AuditRow
<1> HIDE DEF a
<1> QED BY <1>1, <1>3, <1>4, <1>5, FactStep

\* The student submits the ministry's code.
LEMMA SubmitStep == ASSUME IInv, NEW k \in Session, SubmitSajjad(k) PROVE IInv'
<1> DEFINE a == [audit EXCEPT !.code = TRUE, !.sajjad = "SUBMITTED"]
<1>1. ChangeFact(k, a) /\ past' = past
  BY DEF SubmitSajjad
<1>2. audit \in AuditRow /\ past \in [settled : SUBSET Dept, passed : BOOLEAN]
      /\ (audit.irandoc = "PASSED" => past.passed)
  BY FileTypes DEF IInv, FileOK
<1>3. /\ a.status = audit.status /\ a.head = audit.head /\ a.thesis = audit.thesis
      /\ a.irandoc = audit.irandoc /\ a.code /\ a.sajjad = "SUBMITTED"
      /\ a.photo = audit.photo /\ a.paid = audit.paid
  BY <1>2 DEF AuditRow
<1>4. a \in AuditRow
  BY <1>2 DEF AuditRow
<1> HIDE DEF a
<1>5. ~SajjadPending(a)
  BY <1>3 DEF SajjadPending
<1> QED BY <1>1, <1>2, <1>3, <1>4, <1>5, FactStep

\* The fee is marked as paid.
LEMMA PaidStep == ASSUME IInv, NEW k \in Session, PayMark(k) PROVE IInv'
<1> DEFINE a == [audit EXCEPT !.paid = TRUE]
<1>1. /\ call[k].pc = "paid" /\ audit' = a /\ Go(k, At("advance"))
      /\ rows' = rows /\ past' = past /\ student' = student /\ degrees' = degrees /\ credits' = credits
  BY DEF PayMark
<1>2. audit \in AuditRow /\ Exists
  BY <1>1, FileTypes DEF IInv, CallOK
<1>3. /\ a \in AuditRow /\ a.thesis = audit.thesis /\ a.irandoc = audit.irandoc /\ a.status = audit.status
      /\ a.head = audit.head /\ a.photo = audit.photo /\ a.paid /\ SajjadPending(a) = SajjadPending(audit)
  BY <1>2 DEF AuditRow, SajjadPending
<1> HIDE DEF a
<1>4. At("advance") \in CallType /\ At("advance").pc = "advance" /\ At("advance") # Idle
  BY CallTypes DEF Idle
<1>5. call'[k] = At("advance") /\ overlap' = overlap /\ Exists'
  BY <1>1, <1>2, <1>3, Becomes DEF Exists
<1>6. Grows
  BY <1>1, <1>2, <1>3, <1>5 DEF Grows
<1>7. FileOK'
  <2>1. /\ audit'.irandoc # "NONE" /\ (audit'.thesis => audit'.irandoc # "SKIPPED")
        /\ (audit'.irandoc = "PASSED" => past'.passed)
        /\ Settled(rows') \subseteq past'.settled /\ past'.settled \subseteq Dept
    BY <1>1, <1>2, <1>3, FileTypes DEF IInv, FileOK
  <2>2. audit'.status = audit.status /\ Final' = Final
    BY <1>1, <1>3 DEF Final
  <2> QED BY <1>5, <1>6, <2>1, <2>2, FileStep
<1>8. StudentOK'
  BY <1>1, <1>5 DEF IInv, StudentOK, Final
<1>9. CallOK(k)'
  BY <1>4, <1>5 DEF CallOK
<1>10. call[k] # Idle /\ call[k].pc # "insert"
  BY <1>1 DEF Idle
<1> QED BY <1>1, <1>3, <1>4, <1>6, <1>7, <1>8, <1>9, <1>10, FileTypes, AuditStep

\* A statement that writes the row of an existing dossier and ends the call: it keeps
\* the gates open, and without overlap it leaves the status due.
LEMMA LastWrite ==
  ASSUME IInv, NEW k \in Session, NEW a \in AuditRow,
         Begin(k, Idle) \/ (call[k] # Idle /\ Go(k, Idle)),
         call[k].pc # "insert", Exists, audit' = a,
         UNCHANGED <<rows, past, student, degrees, credits>>,
         a.status # "NONE", a.thesis = audit.thesis, a.irandoc \in {audit.irandoc, "REJECTED"},
         a.head = audit.head, a.photo = audit.photo, a.paid = audit.paid,
         ~SajjadPending(audit) => ~SajjadPending(a),
         a.status \in {"READY_TO_ISSUE", "ISSUED"} =>
           Gates \/ audit.status \in {"READY_TO_ISSUE", "ISSUED"},
         ~overlap => DueNow'
  PROVE  IInv'
<1>1. call'[k] = Idle /\ overlap' = overlap /\ Idle \in CallType /\ Idle.pc = "idle"
  BY Becomes, CallTypes
<1>2. Exists'
  BY DEF Exists
<1>3. Grows
  BY <1>1, <1>2 DEF Grows
<1>4. FileOK'
  <2>1. /\ audit'.irandoc # "NONE" /\ (audit'.thesis => audit'.irandoc # "SKIPPED")
        /\ (audit'.irandoc = "PASSED" => past'.passed)
        /\ Settled(rows') \subseteq past'.settled /\ past'.settled \subseteq Dept
    BY FileTypes DEF IInv, FileOK
  <2>2. Final' = Final
    BY DEF Final
  <2>3. audit'.status \in {"READY_TO_ISSUE", "ISSUED"} =>
          Gates \/ audit.status \in {"READY_TO_ISSUE", "ISSUED"}
    OBVIOUS
  <2> QED BY <1>2, <1>3, <2>1, <2>2, <2>3, FileStep
<1>5. StudentOK'
  BY <1>1 DEF IInv, StudentOK, Final
<1>6. CallOK(k)'
  BY <1>1 DEF CallOK
<1> QED BY <1>1, <1>3, <1>4, <1>5, <1>6, FileTypes, AuditStep

\* The thesis is rejected: the status is not computed, and not claimed to be due.
LEMMA RejectStep == ASSUME IInv, NEW k \in Session, IrandocRejects(k) PROVE IInv'
<1> DEFINE a == [audit EXCEPT !.irandoc = "REJECTED"]
<1>1. /\ Exists /\ audit' = a /\ Begin(k, Idle) /\ UNCHANGED <<rows, past, student, degrees, credits>>
  BY DEF IrandocRejects
<1>2. audit \in AuditRow /\ audit.status # "NONE"
  BY <1>1, FileTypes DEF Exists
<1>3. /\ a \in AuditRow /\ a.thesis = audit.thesis /\ a.irandoc = "REJECTED" /\ a.status = audit.status
      /\ a.head = audit.head /\ a.photo = audit.photo /\ a.paid = audit.paid
      /\ SajjadPending(a) = SajjadPending(audit)
  BY <1>2 DEF AuditRow, SajjadPending
<1> HIDE DEF a
<1>4. DueNow'
  BY <1>1, <1>3 DEF DueNow
<1> QED BY <1>1, <1>2, <1>3, <1>4, WasIdle, LastWrite

\* The dossier is put on hold.
LEMMA HoldStep == ASSUME IInv, NEW k \in Session, HoldDossier(k) PROVE IInv'
<1> DEFINE a == [audit EXCEPT !.status = "ON_HOLD"]
<1>1. /\ Exists /\ audit' = a /\ Begin(k, Idle) /\ UNCHANGED <<rows, past, student, degrees, credits>>
  BY DEF HoldDossier
<1>2. /\ a \in AuditRow /\ a.thesis = audit.thesis /\ a.irandoc = audit.irandoc /\ a.status = "ON_HOLD"
      /\ a.head = audit.head /\ a.photo = audit.photo /\ a.paid = audit.paid
      /\ SajjadPending(a) = SajjadPending(audit)
  BY FileTypes DEF AuditRow, Status, SajjadPending
<1> HIDE DEF a
<1>3. DueNow'
  BY <1>1, <1>2 DEF DueNow
<1> QED BY <1>1, <1>2, <1>3, WasIdle, LastWrite

\* The ministry's code is confirmed: the cascade does not see the difference.
LEMMA ConfirmStep == ASSUME IInv, NEW k \in Session, ConfirmCode(k) PROVE IInv'
<1> DEFINE a == [audit EXCEPT !.sajjad = "CONFIRMED"]
<1>1. /\ call[k].pc = "confirm" /\ audit' = a /\ Go(k, Idle) /\ UNCHANGED <<rows, past, student, degrees, credits>>
  BY DEF ConfirmCode
<1>2. /\ Exists /\ audit \in AuditRow /\ ~SajjadPending(audit) /\ (~overlap => DueNow)
  BY <1>1, FileTypes DEF IInv, CallOK
<1>3. /\ a \in AuditRow /\ a.thesis = audit.thesis /\ a.irandoc = audit.irandoc /\ a.status = audit.status
      /\ a.head = audit.head /\ a.photo = audit.photo /\ a.paid = audit.paid
      /\ ~SajjadPending(a)
  BY <1>2 DEF AuditRow, SajjadPending
<1>4. Due(a, rows) = Due(audit, rows)
  BY <1>2, DueCases
<1> HIDE DEF a
<1>5. ~overlap => DueNow'
  BY <1>1, <1>2, <1>3, <1>4 DEF DueNow
<1>6. call[k] # Idle /\ call[k].pc # "insert" /\ a.status # "NONE"
  BY <1>1, <1>2, <1>3 DEF Idle, Exists
<1> QED BY <1>1, <1>2, <1>3, <1>5, <1>6, LastWrite

\* The chosen status is written.
LEMMA WriteStep == ASSUME IInv, NEW k \in Session, AdvanceWrite(k) PROVE IInv'
<1> DEFINE next == call[k].next
           a == [audit EXCEPT !.status = next]
<1>1. /\ call[k].pc = "write" /\ audit' = a /\ Go(k, Idle) /\ UNCHANGED <<rows, past, student, degrees, credits>>
  BY DEF AdvanceWrite
<1>2. /\ Exists /\ audit \in AuditRow /\ next \in Status /\ next # "ISSUED"
      /\ (next = "READY_TO_ISSUE" => Gates) /\ (~overlap => next = Due(audit, rows))
  BY <1>1, FileTypes, CallFields DEF IInv, CallOK
<1>3. Due(a, rows) = Due(audit, rows)
  BY <1>2, DueCases
<1> HIDE DEF next
<1>4. /\ a \in AuditRow /\ a.thesis = audit.thesis /\ a.irandoc = audit.irandoc /\ a.status = next
      /\ a.head = audit.head /\ a.photo = audit.photo /\ a.paid = audit.paid
      /\ SajjadPending(a) = SajjadPending(audit)
  BY <1>2 DEF AuditRow, SajjadPending
<1> HIDE DEF a
<1>5. ~overlap => DueNow'
  BY <1>1, <1>2, <1>3, <1>4 DEF DueNow
<1>6. call[k] # Idle /\ call[k].pc # "insert" /\ a.status # "NONE"
  BY <1>1, <1>2, <1>4 DEF Idle, Status
<1> QED BY <1>1, <1>2, <1>4, <1>5, <1>6, LastWrite
\* The dossier is opened, unless another call has opened it.
LEMMA OpenStep == ASSUME IInv, NEW k \in Session, OpenDossier(k) PROVE IInv'
<1> DEFINE a == [audit EXCEPT !.status = "HEAD_APPROVAL",
                             !.irandoc = IF audit.thesis THEN "PENDING" ELSE "SKIPPED"]
<1>1. /\ call[k].pc = "open" /\ audit' = (IF Exists THEN audit ELSE a) /\ Go(k, At("pending"))
      /\ rows' = rows /\ past' = past /\ student' = student /\ degrees' = degrees /\ credits' = credits
  BY DEF OpenDossier
<1>2. audit \in AuditRow /\ (~overlap => ~Exists)
  BY <1>1, FileTypes DEF IInv, CallOK
<1>3. /\ a \in AuditRow /\ a.thesis = audit.thesis /\ a.status = "HEAD_APPROVAL"
      /\ a.irandoc = (IF audit.thesis THEN "PENDING" ELSE "SKIPPED")
      /\ a.head = audit.head /\ a.photo = audit.photo /\ a.paid = audit.paid
      /\ a.sajjad = audit.sajjad /\ a.code = audit.code
  BY <1>2 DEF AuditRow, Status
<1> HIDE DEF a
<1>4. At("pending") \in CallType /\ At("pending").pc = "pending" /\ At("pending") # Idle
  BY CallTypes DEF Idle
<1>5. call'[k] = At("pending") /\ overlap' = overlap
  BY <1>1, Becomes
<1>6. audit' \in AuditRow /\ Exists'
  BY <1>1, <1>2, <1>3 DEF Exists
<1>7. Grows
  BY <1>1, <1>2, <1>3, <1>5, <1>6 DEF Grows, SajjadPending
<1>8. ~Exists => Final = {}
  BY DEF IInv, FileOK, Gates
<1>9. Final' = Final
  BY <1>1 DEF Final
<1>10. FileOK'
  <2>1. audit'.irandoc # "NONE" /\ (audit'.thesis => audit'.irandoc # "SKIPPED")
        /\ (audit'.irandoc = "PASSED" => past'.passed)
    BY <1>1, <1>2, <1>3 DEF IInv, FileOK
  <2>2. Settled(rows') \subseteq past'.settled /\ past'.settled \subseteq Dept
    BY <1>1, FileTypes DEF IInv, FileOK
  <2>3. audit'.status \in {"READY_TO_ISSUE", "ISSUED"} => audit.status \in {"READY_TO_ISSUE", "ISSUED"}
    BY <1>1, <1>3
  <2> QED BY <1>6, <1>7, <1>9, <2>1, <2>2, <2>3, FileStep
<1>11. StudentOK'
  BY <1>1, <1>5, <1>9 DEF IInv, StudentOK
<1>12. ~overlap => DueNow'
  <2> SUFFICES ASSUME ~overlap PROVE Due(audit', rows') = "HEAD_APPROVAL" /\ audit'.status = "HEAD_APPROVAL"
    BY DEF DueNow
  <2>1. audit' = a /\ ~a.head
    BY <1>1, <1>2, <1>3 DEF IInv, FileOK
  <2> QED BY <1>3, <2>1, DueCases
<1>13. CallOK(k)'
  BY <1>2, <1>4, <1>5, <1>6, <1>8, <1>9, <1>12 DEF CallOK
<1>14. call[k] # Idle /\ call[k].pc # "insert"
  BY <1>1 DEF Idle
<1> QED BY <1>1, <1>4, <1>6, <1>7, <1>10, <1>11, <1>13, <1>14, FileTypes, AuditStep

\* The checklist is complete and the clearance entered.
LEMMA EnterStep == ASSUME IInv, NEW k \in Session, EnterClearance(k) PROVE IInv'
<1> DEFINE a == [audit EXCEPT !.status = "CLEARANCE"]
<1>1. /\ call[k].pc = "insert" /\ call[k].todo = {} /\ audit' = a /\ Go(k, At("auto"))
      /\ rows' = rows /\ past' = past /\ student' = student /\ degrees' = degrees /\ credits' = credits
  BY DEF EnterClearance
<1>2. audit \in AuditRow /\ Exists
  BY <1>1, FileTypes DEF IInv, CallOK
<1>3. /\ a \in AuditRow /\ a.thesis = audit.thesis /\ a.irandoc = audit.irandoc /\ a.status = "CLEARANCE"
      /\ a.head = audit.head /\ a.photo = audit.photo /\ a.paid = audit.paid
      /\ SajjadPending(a) = SajjadPending(audit)
  BY <1>2 DEF AuditRow, Status, SajjadPending
<1> HIDE DEF a
<1>4. At("auto") \in CallType /\ At("auto").pc = "auto" /\ At("auto") # Idle
  BY CallTypes DEF Idle
<1>5. call'[k] = At("auto") /\ overlap' = overlap /\ Exists'
  BY <1>1, <1>3, Becomes DEF Exists
<1>6. Grows
  BY <1>1, <1>3, <1>5 DEF Grows
<1>7. FileOK'
  <2>1. /\ audit'.irandoc # "NONE" /\ (audit'.thesis => audit'.irandoc # "SKIPPED")
        /\ (audit'.irandoc = "PASSED" => past'.passed)
        /\ Settled(rows') \subseteq past'.settled /\ past'.settled \subseteq Dept
    BY <1>1, <1>2, <1>3, FileTypes DEF IInv, FileOK
  <2>2. audit'.status = "CLEARANCE" /\ Final' = Final
    BY <1>1, <1>3 DEF Final
  <2> QED BY <1>5, <1>6, <2>1, <2>2, FileStep
<1>8. StudentOK'
  BY <1>1, <1>5 DEF IInv, StudentOK, Final
<1>9. CallOK(k)'
  BY <1>4, <1>5 DEF CallOK
<1>10. call[k] # Idle
  BY <1>1 DEF Idle
<1> QED BY <1>1, <1>3, <1>4, <1>6, <1>7, <1>8, <1>9, <1>10, FileTypes, AuditStep

\* The scan sets the student's status, whatever it is: without overlap no degree has been issued.
LEMMA PendingStep == ASSUME IInv, NEW k \in Session, MarkPending(k) PROVE IInv'
<1>1. /\ call[k].pc = "pending" /\ student' = "PENDING_GRADUATION" /\ Go(k, Idle)
      /\ audit' = audit /\ rows' = rows /\ past' = past /\ degrees' = degrees /\ credits' = credits
  BY DEF MarkPending, file
<1>2. Exists /\ (~overlap => Final = {} /\ DueNow)
  BY <1>1 DEF IInv, CallOK
<1>3. call'[k] = Idle /\ overlap' = overlap /\ Idle \in CallType /\ Idle.pc = "idle"
  BY <1>1, Becomes, CallTypes
<1>4. Grows
  BY <1>1, <1>2, <1>3 DEF Grows, Exists
<1>5. FileOK'
  BY <1>1, <1>3 DEF IInv, FileOK, Exists, Gates, Final
<1>6. StudentOK'
  BY <1>1, <1>2, <1>3 DEF StudentOK, Final
<1>7. CallOK(k)'
  BY <1>3 DEF CallOK
<1>8. ~overlap => DueNow'
  BY <1>1, <1>2 DEF DueNow
<1>9. call[k] # Idle /\ call[k].pc # "insert"
  BY <1>1 DEF Idle
<1> QED BY <1>1, <1>3, <1>4, <1>5, <1>6, <1>7, <1>8, <1>9, FileTypes, AuditStep

\* The degree is issued: of any kind but a transcript only with the gates open, and then the student graduates.
LEMMA IssueStep == ASSUME IInv, NEW k \in Session, IssueDegree(k) PROVE IInv'
<1> DEFINE d == call[k].degree
           a == [audit EXCEPT !.status = "ISSUED"]
<1>1. /\ call[k].pc = "issue" /\ degrees' = degrees \union {d} /\ Go(k, Idle)
      /\ rows' = rows /\ past' = past /\ credits' = credits
      /\ d.type = "TRANSCRIPT" => audit' = audit /\ student' = student
      /\ d.type # "TRANSCRIPT" => audit' = a /\ student' = "GRADUATED"
  BY DEF IssueDegree
<1>2. /\ Exists /\ audit \in AuditRow /\ d \in Degree /\ degrees \subseteq Degree
      /\ (d.type # "TRANSCRIPT" => Gates) /\ (~overlap => DueNow)
  BY <1>1, FileTypes, CallFields DEF IInv, CallOK
<1>3. /\ a \in AuditRow /\ a.thesis = audit.thesis /\ a.irandoc = audit.irandoc /\ a.status = "ISSUED"
      /\ a.head = audit.head /\ a.photo = audit.photo /\ a.paid = audit.paid
      /\ SajjadPending(a) = SajjadPending(audit)
  BY <1>2 DEF AuditRow, Status, SajjadPending
<1> HIDE DEF a
<1>4. call'[k] = Idle /\ overlap' = overlap /\ Idle \in CallType /\ Idle.pc = "idle"
  BY <1>1, Becomes, CallTypes
<1>5. audit' \in AuditRow /\ Exists'
  BY <1>1, <1>2, <1>3 DEF Exists
<1>6. Grows
  BY <1>1, <1>3, <1>4, <1>5 DEF Grows
<1>7. Final' = IF d.type = "TRANSCRIPT" THEN Final ELSE Final \union {d}
  BY <1>1 DEF Final
<1>8. FileOK'
  <2>1. /\ audit'.irandoc # "NONE" /\ (audit'.thesis => audit'.irandoc # "SKIPPED")
        /\ (audit'.irandoc = "PASSED" => past'.passed)
        /\ Settled(rows') \subseteq past'.settled /\ past'.settled \subseteq Dept
    BY <1>1, <1>2, <1>3, FileTypes DEF IInv, FileOK
  <2>2. audit'.status \in {"READY_TO_ISSUE", "ISSUED"} =>
          Gates \/ audit.status \in {"READY_TO_ISSUE", "ISSUED"}
    BY <1>1, <1>2
  <2>3. Final' # {} => Gates \/ Final # {}
    BY <1>2, <1>7
  <2> QED BY <1>5, <1>6, <2>1, <2>2, <2>3, FileStep
<1>9. StudentOK'
  <2> HIDE DEF d
  <2>1. CASE d.type = "TRANSCRIPT"
    BY <1>1, <1>4, <1>7, <2>1 DEF IInv, StudentOK
  <2>2. CASE d.type # "TRANSCRIPT"
    BY <1>1, <1>7, <2>2 DEF StudentOK
  <2> QED BY <2>1, <2>2
<1>10. CallOK(k)'
  BY <1>4 DEF CallOK
<1>11. ~overlap => DueNow'
  BY <1>1, <1>2, <1>3 DEF DueNow
<1>12. /\ call[k] # Idle /\ call[k].pc # "insert" /\ degrees' \subseteq Degree
       /\ student' \in {"ACTIVE", "PENDING_GRADUATION", "GRADUATED"}
  BY <1>1, <1>2, FileTypes DEF Idle
<1> QED BY <1>1, <1>4, <1>5, <1>6, <1>8, <1>9, <1>10, <1>11, <1>12, FileTypes, AuditStep

-----------------------------------------------------------------------------
(* Steps that change the checklist.                                         *)

\* Writing a row of the checklist: no row disappears, and history notes a settled one.
LEMMA RowWritten ==
  ASSUME IInv, NEW d \in Dept, NEW to \in RowStatus, SetRow(d, to)
  PROVE  /\ rows' \in [Dept -> RowStatus \union {"NONE"}]
         /\ past' \in [settled : SUBSET Dept, passed : BOOLEAN]
         /\ Existing(rows') = Existing(rows) \union {d}
         /\ Settled(rows') \subseteq past'.settled
         /\ past.settled \subseteq past'.settled /\ past'.passed = past.passed
<1>1. /\ rows \in [Dept -> RowStatus \union {"NONE"}] /\ past \in [settled : SUBSET Dept, passed : BOOLEAN]
      /\ Settled(rows) \subseteq past.settled /\ rows' = [rows EXCEPT ![d] = to]
  BY FileTypes DEF IInv, FileOK, SetRow
<1>2. rows' \in [Dept -> RowStatus \union {"NONE"}] /\ rows'[d] = to
      /\ \A e \in Dept : e # d => rows'[e] = rows[e]
  BY <1>1
<1>3. Existing(rows') = Existing(rows) \union {d}
  BY <1>2 DEF Existing, RowStatus
<1>4. CASE to \in {"CLEARED", "WAIVED"}
  <2>1. past' = [past EXCEPT !.settled = past.settled \union {d}]
    BY <1>4 DEF SetRow
  <2>2. past' = [settled |-> past.settled \union {d}, passed |-> past.passed]
    BY <1>1, <2>1
  <2>3. Settled(rows') \subseteq Settled(rows) \union {d}
    BY <1>2 DEF Settled
  <2> QED BY <1>1, <1>2, <1>3, <2>2, <2>3
<1>5. CASE to \notin {"CLEARED", "WAIVED"}
  <2>1. past' = past
    BY <1>5 DEF SetRow
  <2>2. Settled(rows') \subseteq Settled(rows)
    BY <1>2, <1>5 DEF Settled
  <2> QED BY <1>1, <1>2, <1>3, <2>1, <2>2
<1> QED BY <1>4, <1>5

\* A step that may write a row and goes on: the dossier's own row is not touched.
LEMMA RowStep ==
  ASSUME IInv, NEW k \in Session, NEW x \in CallType,
         Begin(k, x) \/ (call[k] # Idle /\ Go(k, x)), x # Idle,
         NEW d \in Dept, NEW to \in RowStatus, SetRow(d, to) \/ UNCHANGED <<rows, past>>,
         UNCHANGED <<audit, student, degrees, credits>>, Exists,
         Existing(rows) \subseteq Existing(rows') => CallOK(k)',
         ~overlap => x.pc = "insert" \/ (d \in Existing(rows) /\ call[k].pc # "insert")
  PROVE  IInv'
<1>1. /\ rows' \in [Dept -> RowStatus \union {"NONE"}]
      /\ past' \in [settled : SUBSET Dept, passed : BOOLEAN]
      /\ Existing(rows') = Existing(rows) \union {d} \/ Existing(rows') = Existing(rows)
      /\ Settled(rows') \subseteq past'.settled
      /\ past.settled \subseteq past'.settled /\ past'.passed = past.passed
  <2>1. CASE SetRow(d, to)
    BY <2>1, RowWritten
  <2>2. CASE UNCHANGED <<rows, past>>
    BY <2>2, FileTypes DEF IInv, FileOK
  <2> QED BY <2>1, <2>2
<1>2. overlap' = overlap /\ Exists'
  BY Becomes DEF Exists
<1>3. Grows
  BY <1>1, <1>2 DEF Grows
<1>4. Final' = Final
  BY DEF Final
<1>5. FileOK'
  <2>1. /\ audit'.irandoc # "NONE" /\ (audit'.thesis => audit'.irandoc # "SKIPPED")
        /\ (audit'.irandoc = "PASSED" => past'.passed) /\ past'.settled \subseteq Dept
    BY <1>1 DEF IInv, FileOK
  <2>2. audit'.status = audit.status
    OBVIOUS
  <2> QED BY <1>1, <1>2, <1>3, <1>4, <2>1, <2>2, FileStep
<1>6. StudentOK'
  BY <1>2, <1>4 DEF IInv, StudentOK
<1>7. ~overlap => Existing(rows') \in {{}, Dept} \/ x.pc = "insert"
  <2> SUFFICES ASSUME ~overlap, x.pc # "insert" PROVE Existing(rows') \in {{}, Dept}
    OBVIOUS
  <2>1. Existing(rows) \in {{}, Dept} /\ d \in Existing(rows)
    BY WholeChecklist
  <2> QED BY <1>1, <2>1
<1>8. CallOK(k)'
  BY <1>3 DEF Grows
<1> QED BY <1>1, <1>3, <1>5, <1>6, <1>7, <1>8, FileTypes, StepInv

\* An expert decides on a row of the checklist: the row exists, so the dossier does.
LEMMA ClearStep == ASSUME IInv, NEW k \in Session, NEW d \in Dept, NEW to \in RowStatus, SetClearance(k, d, to) PROVE IInv'
<1>1. /\ rows[d] # "NONE" /\ SetRow(d, to) /\ Begin(k, At("advance"))
      /\ UNCHANGED <<audit, student, degrees, credits>>
  BY DEF SetClearance
<1>2. At("advance") \in CallType /\ At("advance").pc = "advance" /\ At("advance") # Idle
  BY CallTypes DEF Idle
<1>3. d \in Existing(rows) /\ Exists
  BY <1>1 DEF Existing, IInv, FileOK
<1>4. call'[k] = At("advance") /\ Exists' /\ call[k].pc = "idle"
  BY <1>1, <1>3, Becomes, WasIdle DEF Exists
<1>5. CallOK(k)'
  BY <1>2, <1>4 DEF CallOK
<1> QED BY <1>1, <1>2, <1>3, <1>4, <1>5, RowStep

\* A missing row is inserted.
LEMMA InsertStep == ASSUME IInv, NEW k \in Session, NEW d \in Dept, InsertRow(k, d) PROVE IInv'
<1> DEFINE x == [pc |-> "insert", todo |-> call[k].todo \ {d}]
<1>1. /\ call[k].pc = "insert" /\ d \in call[k].todo
      /\ Go(k, [call[k] EXCEPT !.todo = @ \ {d}]) /\ UNCHANGED <<audit, student, degrees, credits>>
  BY DEF InsertRow
<1>2. call[k] \in CallType /\ call[k].todo \subseteq Dept /\ Exists /\ Go(k, x)
  BY <1>1, FileTypes, CallFields DEF IInv, CallOK
<1>3. x \in CallType /\ x.pc = "insert" /\ x.todo = call[k].todo \ {d} /\ x # Idle
  BY <1>2, CallTypes DEF Idle
<1> HIDE DEF x
<1>4. call'[k] = x /\ overlap' = overlap /\ Exists'
  BY <1>1, <1>2, Becomes DEF Exists
<1>5. PICK to \in RowStatus : SetRow(d, to) \/ UNCHANGED <<rows, past>>
  BY DEF InsertRow, RowStatus
<1>6. ASSUME Existing(rows) \subseteq Existing(rows') PROVE CallOK(k)'
  <2>1. ~overlap => Dept \ Existing(rows) \subseteq call[k].todo
    BY <1>1 DEF IInv, CallOK
  <2>2. d \in Existing(rows')
    <3>1. CASE rows[d] = "NONE"
      <4>1. SetRow(d, "PENDING") /\ "PENDING" \in RowStatus
        BY <3>1 DEF InsertRow, RowStatus
      <4> QED BY <4>1, RowWritten
    <3>2. CASE rows[d] # "NONE"
      BY <1>6, <3>2 DEF Existing
    <3> QED BY <3>1, <3>2
  <2>3. ~overlap => Dept \ Existing(rows') \subseteq x.todo
    BY <1>3, <1>6, <2>1, <2>2
  <2> QED BY <1>3, <1>4, <2>3 DEF CallOK
<1>7. x.pc = "insert" \/ (d \in Existing(rows) /\ call[k].pc # "insert")
  BY <1>3
<1>8. call[k] # Idle
  BY <1>1 DEF Idle
<1> QED BY <1>1, <1>2, <1>3, <1>5, <1>6, <1>7, <1>8, RowStep

\* An automatic check decides on a row that exists.
LEMMA CheckStep == ASSUME IInv, NEW k \in Session, NEW d \in Dept, CheckRow(k, d) PROVE IInv'
<1> DEFINE x == [pc |-> "check", todo |-> call[k].todo \ {d}]
<1>1. /\ call[k].pc = "check" /\ d \in call[k].todo
      /\ Go(k, [call[k] EXCEPT !.todo = @ \ {d}]) /\ UNCHANGED <<audit, student, degrees, credits>>
  BY DEF CheckRow
<1>2. call[k] \in CallType /\ call[k].todo \subseteq Dept /\ Exists /\ Go(k, x)
  BY <1>1, FileTypes, CallFields DEF IInv, CallOK
<1>3. x \in CallType /\ x.pc = "check" /\ x.todo = call[k].todo \ {d} /\ x # Idle
  BY <1>2, CallTypes DEF Idle
<1> HIDE DEF x
<1>4. call'[k] = x /\ overlap' = overlap /\ Exists'
  BY <1>1, <1>2, Becomes DEF Exists
<1>5. PICK to \in RowStatus : SetRow(d, to) \/ UNCHANGED <<rows, past>>
  BY DEF CheckRow, RowStatus
<1>6. ASSUME Existing(rows) \subseteq Existing(rows') PROVE CallOK(k)'
  <2>1. call[k].todo \subseteq Existing(rows)
    BY <1>1 DEF IInv, CallOK
  <2>2. x.todo \subseteq Existing(rows')
    BY <1>3, <1>6, <2>1
  <2> QED BY <1>3, <1>4, <2>2 DEF CallOK
<1>7. x.pc = "insert" \/ (d \in Existing(rows) /\ call[k].pc # "insert")
  BY <1>1 DEF IInv, CallOK
<1>8. call[k] # Idle
  BY <1>1 DEF Idle
<1> QED BY <1>1, <1>2, <1>3, <1>5, <1>6, <1>7, <1>8, RowStep
-----------------------------------------------------------------------------
\* A step of a call preserves the invariant.
LEMMA ButtonInv == ASSUME IInv, NEW k \in Session, Button(k) PROVE IInv'
<1>1. CASE ScanFinds(k) BY <1>1, ScanStep
<1>2. CASE ApproveByHead(k) BY <1>2, HeadStep
<1>3. CASE HoldDossier(k) BY <1>3, HoldStep
<1>4. CASE ResumeDossier(k) BY <1>4, ResumeStep
<1>5. CASE IrandocPasses(k) BY <1>5, PassStep
<1>6. CASE IrandocRejects(k) BY <1>6, RejectStep
<1>7. CASE \E d \in Dept, to \in RowStatus : SetClearance(k, d, to) BY <1>7, ClearStep
<1>8. CASE Press(k) BY <1>8, PressStep
<1>9. CASE SubmitSajjad(k) BY <1>9, SubmitStep
<1>10. CASE WaiveSajjad(k) BY <1>10, WaiveStep
<1>11. CASE SetFinalPhoto(k) BY <1>11, PhotoStep
<1>12. CASE PayRead(k) BY <1>12, PayReadStep
<1>13. CASE AskMinistry(k) BY <1>13, AskStep
<1>14. CASE \E type \in DegreeType, given \in BOOLEAN : IssueRead(k, type, given) BY <1>14, IssueReadStep
<1> QED
  BY <1>1, <1>2, <1>3, <1>4, <1>5, <1>6, <1>7, <1>8, <1>9, <1>10, <1>11, <1>12, <1>13, <1>14 DEF Button

\* A later statement of a call preserves the invariant.
LEMMA ContinueInv == ASSUME IInv, NEW k \in Session, Continue(k) PROVE IInv'
<1>1. CASE OpenDossier(k) BY <1>1, OpenStep
<1>2. CASE MarkPending(k) BY <1>2, PendingStep
<1>3. CASE \E d \in Dept : InsertRow(k, d) \/ CheckRow(k, d) BY <1>3, InsertStep, CheckStep
<1>4. CASE EnterClearance(k) BY <1>4, EnterStep
<1>5. CASE ReadChecklist(k) BY <1>5, ReadChecklistStep
<1>6. CASE ChecksDone(k) BY <1>6, ChecksDoneStep
<1>7. CASE AdvanceRead(k) BY <1>7, AdvanceReadStep
<1>8. CASE AdvanceDecide(k) BY <1>8, AdvanceDecideStep
<1>9. CASE AdvanceWrite(k) BY <1>9, WriteStep
<1>10. CASE PayInsert(k) BY <1>10, PayInsertStep
<1>11. CASE PayMark(k) BY <1>11, PaidStep
<1>12. CASE ConfirmCode(k) BY <1>12, ConfirmStep
<1>13. CASE IssueDegree(k) BY <1>13, IssueStep
<1> QED
  BY <1>1, <1>2, <1>3, <1>4, <1>5, <1>6, <1>7, <1>8, <1>9, <1>10, <1>11, <1>12, <1>13 DEF Continue

\* The invariant is inductive.
LEMMA NextIInv == ASSUME IInv, [Next]_vars PROVE IInv'
<1>1. CASE Next
  BY <1>1, ButtonInv, ContinueInv, CrashStep DEF Next
<1>2. CASE UNCHANGED vars
  <2>1. UNCHANGED <<audit, rows, past, student, degrees, debit, credits, call, overlap, calls, crashes>>
    BY <1>2 DEF vars
  <2>2. TypeOK' /\ StudentOK'
    BY <2>1 DEF IInv, TypeOK, StudentOK, Final
  <2>3. FileOK'
    BY <2>1 DEF IInv, FileOK, Exists, Gates, Final
  <2>4. ASSUME NEW k \in Session PROVE CallOK(k)'
    <3>1. Gates' = Gates /\ DueNow' = DueNow /\ Exists' = Exists /\ Final' = Final
      BY <2>1 DEF Gates, DueNow, Exists, Final
    <3>2. CallOK(k) /\ (call[k].pc = "decide" => ReadOK(call[k].read)' = ReadOK(call[k].read))
      BY <2>1 DEF IInv, ReadOK
    <3> QED BY <2>1, <3>1, <3>2 DEF CallOK
  <2>5. SerialOK'
    BY <2>1 DEF IInv, SerialOK, DueNow, Quiet
  <2> QED BY <2>2, <2>3, <2>4, <2>5 DEF IInv
<1> QED BY <1>1, <1>2

\* The invariant holds in every reachable state.
THEOREM IInvHolds == Spec => []IInv
<1>1. Init => IInv
  BY InitIInv, GraduationAssumption
<1>2. IInv /\ [Next]_vars => IInv'
  BY NextIInv
<1> QED BY <1>1, <1>2, PTL DEF Spec

\* Every variable keeps its type, for any departments, settings and bounds.
THEOREM GraduationTypeOK == Spec => []TypeOK
<1>1. IInv => TypeOK
  BY DEF IInv
<1> QED BY <1>1, IInvHolds, PTL

\* A degree is issued only for a dossier whose gates are open, however calls overlap,
\* break off and write the status they chose from what they read before.
THEOREM DegreesNeedGates == Spec => []DegreeNeedsGates
<1>1. IInv => DegreeNeedsGates
  BY DEF IInv, FileOK, Gates, DegreeNeedsGates
<1> QED BY <1>1, IInvHolds, PTL

\* Between calls that do not overlap the status is the one its facts ask for.
THEOREM StatusesAreDue == Spec => []StatusIsDue
<1>1. IInv => StatusIsDue
  BY DEF IInv, SerialOK, DueNow, StatusIsDue
<1> QED BY <1>1, IInvHolds, PTL

\* A graduate has a degree, and without overlap whoever has one is a graduate.
THEOREM GraduatesHaveDegrees == Spec => []GraduateHasDegree
<1>1. IInv => GraduateHasDegree
  BY DEF IInv, StudentOK, GraduateHasDegree
<1> QED BY <1>1, IInvHolds, PTL

-----------------------------------------------------------------------------
\* What a step may do to a dossier on hold or issued while calls do not overlap.
HeldWaits ==
  ~overlap /\ audit.status \in {"ON_HOLD", "ISSUED"} /\ audit'.status # audit.status
    => audit'.status \in {"CATALOG_REVIEW", "CLEARANCE", "ON_HOLD"}

\* Only the buttons move a held or issued dossier: a call that writes a status it
\* chose, or issues a degree, began with a dossier that was neither and was alone since.
LEMMA HeldStep == ASSUME IInv, NEW k \in Session, Button(k) \/ Continue(k) \/ Crash(k) PROVE HeldWaits
<1> SUFFICES ASSUME ~overlap, audit.status \in {"ON_HOLD", "ISSUED"}, audit'.status # audit.status
             PROVE  audit'.status \in {"CATALOG_REVIEW", "CLEARANCE", "ON_HOLD"}
  BY DEF HeldWaits
<1>1. audit \in AuditRow /\ audit' # audit /\ Exists
  BY FileTypes DEF Exists
<1>2. CASE Button(k)
  <2>1. CASE HoldDossier(k)
    BY <1>1, <2>1 DEF HoldDossier, AuditRow
  <2>2. CASE ResumeDossier(k)
    BY <1>1, <2>2 DEF ResumeDossier, ChangeFact, AuditRow
  <2>3. CASE IrandocRejects(k)
    BY <1>1, <2>3 DEF IrandocRejects, AuditRow
  <2>4. CASE ApproveByHead(k) \/ IrandocPasses(k) \/ SubmitSajjad(k) \/ WaiveSajjad(k) \/ SetFinalPhoto(k)
    <3>1. audit'.status = audit.status
      BY <1>1, <2>4 DEF ApproveByHead, IrandocPasses, SubmitSajjad, WaiveSajjad, SetFinalPhoto,
                        ChangeFact, AuditRow
    <3> QED BY <3>1
  <2>5. CASE \/ ScanFinds(k) \/ Press(k) \/ PayRead(k) \/ AskMinistry(k)
             \/ \E d \in Dept, to \in RowStatus : SetClearance(k, d, to)
             \/ \E type \in DegreeType, given \in BOOLEAN : IssueRead(k, type, given)
    BY <1>1, <2>5 DEF ScanFinds, Press, PayRead, AskMinistry, SetClearance, IssueRead, file
  <2> QED BY <1>2, <2>1, <2>2, <2>3, <2>4, <2>5 DEF Button
<1>3. CASE Continue(k)
  <2>1. CASE OpenDossier(k)
    BY <1>1, <2>1 DEF OpenDossier
  <2>2. CASE EnterClearance(k)
    BY <1>1, <2>2 DEF EnterClearance, AuditRow
  <2>3. CASE PayMark(k) \/ ConfirmCode(k)
    BY <1>1, <2>3 DEF PayMark, ConfirmCode, AuditRow
  <2>4. CASE AdvanceWrite(k)
    BY <2>4 DEF AdvanceWrite, IInv, CallOK
  <2>5. CASE IssueDegree(k)
    BY <1>1, <2>5 DEF IssueDegree, IInv, CallOK, AuditRow
  <2>6. CASE \/ MarkPending(k) \/ ReadChecklist(k) \/ ChecksDone(k) \/ AdvanceRead(k)
             \/ AdvanceDecide(k) \/ PayInsert(k) \/ \E d \in Dept : InsertRow(k, d) \/ CheckRow(k, d)
    BY <1>1, <2>6 DEF MarkPending, ReadChecklist, ChecksDone, AdvanceRead, AdvanceDecide, PayInsert,
                      InsertRow, CheckRow, file
  <2> QED BY <1>3, <2>1, <2>2, <2>3, <2>4, <2>5, <2>6 DEF Continue
<1>4. CASE Crash(k)
  BY <1>4 DEF Crash
<1> QED BY <1>2, <1>3, <1>4

\* A dossier on hold or issued waits for a button.
THEOREM HeldDossiersWait == Spec => HeldDossierWaits
<1>1. IInv /\ [Next]_vars => [HeldWaits]_vars
  BY HeldStep DEF Next
<1>2. HeldDossierWaits <=> [][HeldWaits]_vars
  BY PTL DEF HeldDossierWaits, HeldWaits
<1> QED BY <1>1, <1>2, IInvHolds, PTL DEF Spec
=============================================================================
