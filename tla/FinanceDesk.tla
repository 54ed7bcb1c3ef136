------------------------------ MODULE FinanceDesk ------------------------------
(***************************************************************************)
(* The finance desk of one student (app/admin/finance/actions.ts and the    *)
(* cheque part of lib/finance-engine.ts): discounts, sponsorships, cheques  *)
(* and loans, each a row with a status, decided on by several clerks, and   *)
(* the reminder scan the scheduler calls.                                   *)
(*                                                                          *)
(* Every clerk's action is one READ COMMITTED transaction of several        *)
(* statements: it reads the row without a lock (only clearCheque locks it), *)
(* checks the status it read, writes the row, selects the newest audit_logs *)
(* row and inserts its own behind it.  Each statement is an action here.  A *)
(* write waits for a transaction that holds the row; what it wrote is seen  *)
(* by the others from the commit on.  The insert into audit_logs and the    *)
(* commit that follows it are one action, so rows get their ids in the      *)
(* order of the commits.                                                    *)
(***************************************************************************)
EXTENDS Naturals, Sequences, FiniteSets

CONSTANTS
  Record,        \* rows of the four tables the model may create
  KindOf,        \* record -> its table
  AutoApproved,  \* discounts whose type does not require approval
  Clerk,         \* finance clerks acting at the same time
  NoClerk, NoRecord,
  MaxAudit,      \* bound: rows of audit_logs
  MaxFaults      \* bound: failed transactions and failed messages

Kind == {"DISCOUNT", "SPONSORSHIP", "CHEQUE", "LOAN"}

ASSUME FinanceAssumption ==
  /\ KindOf \in [Record -> Kind]
  /\ AutoApproved \subseteq Record
  /\ NoClerk \notin Clerk
  /\ NoRecord \notin Record
  /\ MaxAudit \in Nat
  /\ MaxFaults \in Nat

VARIABLES
  status,    \* the row's committed status; "NONE" before it exists
  ledger,    \* cheque -> student_ledger rows that clearing it has added
  reminded,  \* cheques whose remindedAt is set
  audit,     \* audit_logs: [rec, from, to, prev], prev = position of the row before
  holder,    \* the transaction that holds the row's lock
  clerk,     \* a clerk's transaction: pc, record, target status, status read
  scan,      \* the reminder scan: cheques still to be looked at
  sending,   \* the cheque whose message is out and whose remindedAt is not yet set
  told,      \* history: cheques whose student has been sent a message
  faults     \* failures so far

scanning == <<scan, sending, told>>
vars == <<status, ledger, reminded, audit, holder, clerk, scanning, faults>>

Statuses == {"NONE", "PENDING", "APPROVED", "REJECTED", "CONFIRMED", "PAID",
             "BOUNCED", "CANCELLED", "CLEARED", "ACTIVE", "SETTLED", "DELETED"}

Cheques == {r \in Record : KindOf[r] = "CHEQUE"}

\* The status a new row is inserted with.
InitialStatus(r) ==
  CASE KindOf[r] = "DISCOUNT" -> IF r \in AutoApproved THEN "APPROVED" ELSE "PENDING"
    [] KindOf[r] = "LOAN" -> "ACTIVE"
    [] OTHER -> "PENDING"

\* The decisions the buttons offer, by table.
Targets(kind) ==
  CASE kind = "DISCOUNT" -> {"APPROVED", "REJECTED"}
    [] kind = "SPONSORSHIP" -> {"CONFIRMED", "PAID", "REJECTED"}
    [] kind = "CHEQUE" -> {"BOUNCED", "CANCELLED", "PENDING", "CLEARED"}
    [] kind = "LOAN" -> {"ACTIVE", "SETTLED", "CANCELLED"}

\* setDiscountStatusAction decides on a pending discount only.
MayDecideDiscount(from) == from = "PENDING"

\* setSponsorshipStatusAction: a confirmed coverage may still be paid, not refused.
MayDecideSponsorship(from, to) ==
  IF to = "REJECTED" THEN from = "PENDING" ELSE from \in {"PENDING", "CONFIRMED"}

\* setChequeStatusAction refuses a cleared cheque, clearCheque all but a pending one.
MayDecideCheque(from, to) ==
  IF to = "CLEARED" THEN from = "PENDING" ELSE from # "CLEARED"

\* setLoanStatusAction refuses a settled or cancelled loan.
MayDecideLoan(from) == from \notin {"SETTLED", "CANCELLED"}

MayDecide(kind, from, to) ==
  /\ from \notin {"NONE", "DELETED"}
  /\ CASE kind = "DISCOUNT" -> MayDecideDiscount(from)
       [] kind = "SPONSORSHIP" -> MayDecideSponsorship(from, to)
       [] kind = "CHEQUE" -> MayDecideCheque(from, to)
       [] kind = "LOAN" -> MayDecideLoan(from)

\* A row with this status has an effect on the balance and is not to be deleted.
Protected(kind) ==
  CASE kind = "DISCOUNT" -> {"APPROVED"}
    [] kind = "SPONSORSHIP" -> {"CONFIRMED", "PAID"}
    [] kind = "CHEQUE" -> {"CLEARED"}
    [] kind = "LOAN" -> {"SETTLED"}

MayDelete(kind, from) == from \notin {"NONE", "DELETED"} \union Protected(kind)

IdleClerk ==
  [pc |-> "idle", rec |-> NoRecord, to |-> "NONE", from |-> "NONE", was |-> FALSE, last |-> 0]

\* A transaction of a clerk about row r, with what it read of the row.
Tx(pc, r, to) ==
  [pc |-> pc, rec |-> r, to |-> to, from |-> status[r], was |-> r \in reminded, last |-> 0]

-----------------------------------------------------------------------------
(* The clerks' transactions.                                                *)

\* Bound: every transaction that began still finds room for its audit row.
RoomToAudit ==
  Len(audit) + Cardinality({k \in Clerk : clerk[k].pc # "idle"}) < MaxAudit

\* The insert of a new row: add...Action.
Add(k, r) ==
  /\ clerk[k].pc = "idle"
  /\ status[r] = "NONE"
  /\ holder[r] = NoClerk
  /\ RoomToAudit
  /\ holder' = [holder EXCEPT ![r] = k]
  /\ clerk' = [clerk EXCEPT ![k] = Tx("written", r, InitialStatus(r))]
  /\ UNCHANGED <<status, ledger, reminded, audit, scanning, faults>>

\* The select and the checks of set...StatusAction and delete...Action.
Read(k, r, to) ==
  /\ clerk[k].pc = "idle"
  /\ RoomToAudit
  /\ \/ to \in Targets(KindOf[r]) \ {"CLEARED"} /\ MayDecide(KindOf[r], status[r], to)
     \/ to = "DELETED" /\ MayDelete(KindOf[r], status[r])
  /\ clerk' = [clerk EXCEPT ![k] = Tx("read", r, to)]
  /\ UNCHANGED <<status, ledger, reminded, audit, holder, scanning, faults>>

\* Mutant: clearCheque without the check of CLEARED.
LockChequeWithoutStatus(k, r) ==
  /\ clerk[k].pc = "idle"
  /\ r \in Cheques
  /\ holder[r] = NoClerk
  /\ RoomToAudit
  /\ status[r] \notin {"NONE", "DELETED", "CANCELLED", "BOUNCED"}
  /\ holder' = [holder EXCEPT ![r] = k]
  /\ clerk' = [clerk EXCEPT ![k] = Tx("read", r, "CLEARED")]
  /\ UNCHANGED <<status, ledger, reminded, audit, scanning, faults>>

\* clearCheque's SELECT ... FOR UPDATE and its checks.
LockCheque(k, r) ==
  /\ clerk[k].pc = "idle"
  /\ r \in Cheques
  /\ holder[r] = NoClerk
  /\ RoomToAudit
  /\ MayDecide("CHEQUE", status[r], "CLEARED")
  /\ holder' = [holder EXCEPT ![r] = k]
  /\ clerk' = [clerk EXCEPT ![k] = Tx("read", r, "CLEARED")]
  /\ UNCHANGED <<status, ledger, reminded, audit, scanning, faults>>

\* Mutant: the update names the row only, not the status read.
UpdateRowBlindly(k) ==
  LET r == clerk[k].rec
  IN /\ clerk[k].pc = "read"
     /\ clerk[k].to # "DELETED"
     /\ holder[r] \in {NoClerk, k}
     /\ clerk' = [clerk EXCEPT ![k].pc = "written"]
     /\ holder' = [holder EXCEPT ![r] = k]
     /\ UNCHANGED <<status, ledger, reminded, audit, scanning, faults>>

\* UPDATE ... WHERE id = ? AND status = <the status read>; no row: give up.
UpdateRow(k) ==
  LET t == clerk[k]
      r == t.rec
  IN /\ t.pc = "read"
     /\ t.to # "DELETED"
     /\ holder[r] \in {NoClerk, k}
     /\ IF status[r] = t.from
        THEN /\ clerk' = [clerk EXCEPT ![k].pc = "written"]
             /\ holder' = [holder EXCEPT ![r] = k]
        ELSE /\ clerk' = [clerk EXCEPT ![k] = IdleClerk]
             /\ holder' = [holder EXCEPT ![r] = NoClerk]
     /\ UNCHANGED <<status, ledger, reminded, audit, scanning, faults>>

\* DELETE ... WHERE id = ?: whatever the row has become since it was read.
DeleteRow(k) ==
  LET r == clerk[k].rec
  IN /\ clerk[k].pc = "read"
     /\ clerk[k].to = "DELETED"
     /\ holder[r] = NoClerk
     /\ clerk' = [clerk EXCEPT ![k].pc = "written"]
     /\ holder' = [holder EXCEPT ![r] = k]
     /\ UNCHANGED <<status, ledger, reminded, audit, scanning, faults>>

\* appendAudit selects the newest committed row of audit_logs, without a lock.
SelectLast(k) ==
  /\ clerk[k].pc = "written"
  /\ clerk' = [clerk EXCEPT ![k].pc = "appending", ![k].last = Len(audit)]
  /\ UNCHANGED <<status, ledger, reminded, audit, holder, scanning, faults>>

\* remindedAt as the transaction writes it: null for a cheque that is pending again,
\* the value read before for the other decisions.
RemindedAfter(t) ==
  CASE t.to \in {"PENDING", "DELETED"} -> reminded \ {t.rec}
    [] t.to \in {"BOUNCED", "CANCELLED"} /\ t.rec \in Cheques ->
         IF t.was THEN reminded \union {t.rec} ELSE reminded \ {t.rec}
    [] OTHER -> reminded

\* Mutant: the audit row is written for a decision only, not for a deletion.
CommitAuditsDecisions(k) ==
  LET t == clerk[k]
      r == t.rec
  IN /\ t.pc = "appending"
     /\ status' = [status EXCEPT ![r] = t.to]
     /\ ledger' = [ledger EXCEPT ![r] = IF t.to = "CLEARED" THEN @ + 1 ELSE @]
     /\ reminded' = RemindedAfter(t)
     /\ audit' = IF t.to = "DELETED" THEN audit
                 ELSE Append(audit, [rec |-> r, from |-> t.from, to |-> t.to, prev |-> t.last])
     /\ holder' = [holder EXCEPT ![r] = NoClerk]
     /\ clerk' = [clerk EXCEPT ![k] = IdleClerk]
     /\ UNCHANGED <<scanning, faults>>

\* appendAudit's insert and the commit: the row's new status, the ledger row of a
\* cleared cheque and the audit row appear together.
Commit(k) ==
  LET t == clerk[k]
      r == t.rec
  IN /\ t.pc = "appending"
     /\ status' = [status EXCEPT ![r] = t.to]
     /\ ledger' = [ledger EXCEPT ![r] = IF t.to = "CLEARED" THEN @ + 1 ELSE @]
     /\ reminded' = RemindedAfter(t)
     /\ audit' = Append(audit, [rec |-> r, from |-> t.from, to |-> t.to, prev |-> t.last])
     /\ holder' = [holder EXCEPT ![r] = NoClerk]
     /\ clerk' = [clerk EXCEPT ![k] = IdleClerk]
     /\ UNCHANGED <<scanning, faults>>

\* A statement fails or the connection is lost: nothing of it remains.
RollBack(k) ==
  /\ clerk[k].pc # "idle"
  /\ faults < MaxFaults
  /\ faults' = faults + 1
  /\ holder' = [r \in Record |-> IF holder[r] = k THEN NoClerk ELSE holder[r]]
  /\ clerk' = [clerk EXCEPT ![k] = IdleClerk]
  /\ UNCHANGED <<status, ledger, reminded, audit, scanning>>

-----------------------------------------------------------------------------
(* The reminder scan.                                                       *)

\* Mutant: the scan takes pending rows of every table.
ScanPendingEverything ==
  /\ scan = {} /\ sending = NoRecord
  /\ scan' = {r \in Record : status[r] = "PENDING" /\ r \notin reminded}
  /\ scan' # {}
  /\ UNCHANGED <<status, ledger, reminded, audit, holder, clerk, sending, told, faults>>

\* The scan reads the pending cheques that were not reminded; all are due.
ScanPending ==
  /\ scan = {} /\ sending = NoRecord
  /\ scan' = {r \in Cheques : status[r] = "PENDING" /\ r \notin reminded}
  /\ scan' # {}
  /\ UNCHANGED <<status, ledger, reminded, audit, holder, clerk, sending, told, faults>>

\* The message is sent, whatever the cheque is by now.
SendReminder(r) ==
  /\ r \in scan
  /\ sending = NoRecord
  /\ sending' = r
  /\ told' = told \union {r}
  /\ scan' = scan \ {r}
  /\ UNCHANGED <<status, ledger, reminded, audit, holder, clerk, faults>>

\* Then remindedAt is set; the update waits for a transaction that holds the row.
MarkReminded ==
  /\ sending # NoRecord
  /\ holder[sending] = NoClerk
  /\ reminded' = IF status[sending] = "DELETED" THEN reminded ELSE reminded \union {sending}
  /\ sending' = NoRecord
  /\ UNCHANGED <<status, ledger, audit, holder, clerk, scan, told, faults>>

\* Mutant: the failure is caught before the update, which sets remindedAt.
ReminderFailsAndIsMarked(r) ==
  /\ (r \in scan /\ sending = NoRecord) \/ r = sending
  /\ faults < MaxFaults
  /\ faults' = faults + 1
  /\ scan' = scan \ {r}
  /\ sending' = NoRecord
  /\ reminded' = reminded \union {r}
  /\ UNCHANGED <<status, ledger, audit, holder, clerk, told>>

\* The message is not sent, or remindedAt not set: left for the next scan.
ReminderFails(r) ==
  /\ (r \in scan /\ sending = NoRecord) \/ r = sending
  /\ faults < MaxFaults
  /\ faults' = faults + 1
  /\ scan' = scan \ {r}
  /\ sending' = NoRecord
  /\ UNCHANGED <<status, ledger, reminded, audit, holder, clerk, told>>

\* The server stops in the middle of a scan.
ScanDies ==
  /\ scan # {} \/ sending # NoRecord
  /\ faults < MaxFaults
  /\ faults' = faults + 1
  /\ scan' = {} /\ sending' = NoRecord
  /\ UNCHANGED <<status, ledger, reminded, audit, holder, clerk, told>>

-----------------------------------------------------------------------------
Init ==
  /\ status = [r \in Record |-> "NONE"]
  /\ ledger = [r \in Record |-> 0]
  /\ reminded = {}
  /\ audit = << >>
  /\ holder = [r \in Record |-> NoClerk]
  /\ clerk = [k \in Clerk |-> IdleClerk]
  /\ scan = {} /\ sending = NoRecord /\ told = {}
  /\ faults = 0

Write(k) == UpdateRow(k) \/ DeleteRow(k) \/ SelectLast(k) \/ Commit(k)

Request(k) ==
  \E r \in Record :
    \/ Add(k, r)
    \/ LockCheque(k, r)
    \/ \E to \in Targets(KindOf[r]) \union {"DELETED"} : Read(k, r, to)

Scan ==
  \/ ScanPending \/ MarkReminded \/ ScanDies
  \/ \E r \in Cheques : SendReminder(r) \/ ReminderFails(r)

Next ==
  \/ \E k \in Clerk : Request(k) \/ Write(k) \/ RollBack(k)
  \/ Scan

\* The scheduler calls the scan for ever, and a transaction that began goes on.
Fairness ==
  /\ WF_vars(ScanPending) /\ WF_vars(MarkReminded)
  /\ \A r \in Cheques : WF_vars(SendReminder(r))
  /\ \A k \in Clerk : WF_vars(Write(k))

Spec == Init /\ [][Next]_vars /\ Fairness

-----------------------------------------------------------------------------
AuditRow == [rec : Record, from : Statuses, to : Statuses, prev : Nat]

TypeOK ==
  /\ status \in [Record -> Statuses]
  /\ ledger \in [Record -> Nat]
  /\ reminded \subseteq Cheques
  /\ audit \in Seq(AuditRow)
  /\ holder \in [Record -> Clerk \union {NoClerk}]
  /\ clerk \in [Clerk -> [pc : {"idle", "read", "written", "appending"},
                          rec : Record \union {NoRecord},
                          to : Statuses, from : Statuses, was : BOOLEAN, last : Nat]]
  /\ scan \subseteq Cheques /\ told \subseteq Cheques
  /\ sending \in Cheques \union {NoRecord}
  /\ faults \in Nat

\* However many clerks press the button, and whatever else is decided on the
\* cheque meanwhile, clearing it adds one payment to the ledger, and a payment
\* is in the ledger only for a cheque that was cleared (clearCheque's lock).
ChequePaidOnce ==
  \A r \in Record :
    /\ ledger[r] <= 1
    /\ status[r] = "CLEARED" => ledger[r] = 1
    /\ ledger[r] = 1 => status[r] \in {"CLEARED", "DELETED"}

RowsAbout(r) == {i \in DOMAIN audit : audit[i].rec = r}

\* The audit trail alone tells the present status of every row: the newest entry
\* about a row names the status it has, for interleaved and failed transactions.
AuditTellsStatus ==
  \A r \in Record :
    IF RowsAbout(r) = {} THEN status[r] = "NONE"
    ELSE \E i \in RowsAbout(r) :
           /\ \A j \in RowsAbout(r) : j <= i
           /\ audit[i].to = status[r]

\* Entry e of the trail, after the entries "before" about the same row.
LegalAfter(e, before, trail) ==
  IF e.to = "DELETED"
  THEN MayDelete(KindOf[e.rec], e.from) /\ \E i \in before : trail[i].to = e.from
  ELSE IF before = {} THEN e.from = "NONE" /\ e.to = InitialStatus(e.rec)
  ELSE /\ MayDecide(KindOf[e.rec], e.from, e.to)
       /\ \E i \in before : trail[i].to = e.from /\ \A l \in before : l <= i

\* The history of a row that the audit trail tells is one the checks allow, whatever
\* the clerks had read: it begins with the insert, and each decision starts from
\* the status the entry before it ends with and is allowed from there, so none
\* overwrites another and none follows a deletion.  A deletion was allowed from a
\* status the row once had, which need not be its last: the DELETE compares nothing,
\* so it may take a decision of another clerk with it.
TrailIsLegal ==
  \A j \in DOMAIN audit :
    LegalAfter(audit[j], {i \in RowsAbout(audit[j].rec) : i < j}, audit)

\* A cheque that stays pending gets its message, also when a message fails, when
\* the server stops in the middle of a scan and when clerks write the row meanwhile:
\* remindedAt never hides a cheque whose student was not told.
EventuallyReminded ==
  \A r \in Cheques : status[r] = "PENDING" ~> (r \in told \/ status[r] # "PENDING")
=============================================================================
