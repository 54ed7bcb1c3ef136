--------------------------- MODULE FinanceDeskProofs ---------------------------
(***************************************************************************)
(* Theorems of FinanceDesk, for every set of rows and clerks and every      *)
(* bound.                                                                   *)
(***************************************************************************)
EXTENDS FinanceDesk, SequenceTheorems, TLAPS

ClerkTx ==
  [pc : {"idle", "read", "written", "appending"}, rec : Record \union {NoRecord},
   to : Statuses, from : Statuses, was : BOOLEAN, last : Nat]

\* A transaction that has written its row, or is to clear a cheque, holds the row.
HoldsRow(t) ==
  \/ t.pc \in {"written", "appending"}
  \/ t.pc = "read" /\ t.to = "CLEARED"

\* What a transaction knows of the row it decides on: the decision is allowed from
\* the status it read, and while it holds the row that status is still the row's.
TxOK(k) ==
  LET t == clerk[k]
  IN t.pc # "idle" =>
       /\ t.rec \in Record
       /\ t.to = "DELETED" \/ t.from = "NONE" \/ MayDecide(KindOf[t.rec], t.from, t.to)
       /\ t.to = "CLEARED" => t.rec \in Cheques
       /\ HoldsRow(t) => holder[t.rec] = k
       /\ HoldsRow(t) /\ t.to # "DELETED" => status[t.rec] = t.from

TxInv == \A k \in Clerk : TxOK(k)

\* What the audit row of a transaction will say: an insert has the table's first
\* status, and a deletion was allowed from a status the trail tells.
EntryOK(t) ==
  t.pc # "idle" =>
    /\ t.to # "NONE"
    /\ t.to # "DELETED" /\ t.from = "NONE" => t.to = InitialStatus(t.rec)
    /\ t.to = "DELETED" =>
         MayDelete(KindOf[t.rec], t.from) /\ \E i \in RowsAbout(t.rec) : audit[i].to = t.from

EntryInv == \A k \in Clerk : EntryOK(clerk[k])

\* Only cheques are ever cleared, and no entry of the trail ends with no row at all.
ClearedAreCheques == \A r \in Record : status[r] = "CLEARED" => r \in Cheques
EntriesEndSomewhere == \A i \in DOMAIN audit : audit[i].to # "NONE"

\* The inductive invariants: what the rows are, and what the trail tells of them.
IInv == TypeOK /\ TxInv /\ ClearedAreCheques /\ ChequePaidOnce /\ AuditTellsStatus
TrailInv == EntryInv /\ EntriesEndSomewhere /\ TrailIsLegal

-----------------------------------------------------------------------------
\* The statuses the buttons offer, and those rows are inserted with, are statuses.
LEMMA TargetsType ==
  ASSUME NEW r \in Record
  PROVE  /\ KindOf[r] \in Kind
         /\ Targets(KindOf[r]) \subseteq Statuses
         /\ InitialStatus(r) \in Statuses \ {"CLEARED"}
<1>1. KindOf[r] \in Kind
  BY FinanceAssumption
<1>2. Targets(KindOf[r]) \subseteq Statuses
  BY <1>1 DEF Kind, Targets, Statuses
<1>3. InitialStatus(r) \in Statuses \ {"CLEARED"}
  BY <1>1 DEF Kind, InitialStatus, Statuses
<1> QED BY <1>1, <1>2, <1>3

\* A cleared or deleted cheque may be decided on no more; nor is any other row cleared.
LEMMA DecisionLeavesCleared ==
  ASSUME NEW r \in Record, NEW from, NEW to, MayDecide(KindOf[r], from, to)
  PROVE  /\ from \notin {"NONE", "DELETED"}
         /\ r \in Cheques => from # "CLEARED"
         /\ r \in Cheques /\ to = "CLEARED" => from = "PENDING"
BY DEF MayDecide, MayDecideCheque, Cheques

-----------------------------------------------------------------------------
\* What a step must show that changes clerk k's transaction, his lock on row r and
\* nothing the tables hold.
LEMMA OneClerkStep ==
  ASSUME IInv, NEW k \in Clerk, NEW t \in ClerkTx, NEW r \in Record,
         NEW h \in {k, NoClerk},
         clerk' = [clerk EXCEPT ![k] = t],
         holder' = [holder EXCEPT ![r] = h],
         holder[r] \in {NoClerk, k},
         UNCHANGED <<status, ledger, reminded, audit, scanning, faults>>,
         TxOK(k)'
  PROVE  IInv'
<1>1. TypeOK'
  BY DEF IInv, TypeOK, ClerkTx, scanning
<1>2. TxInv'
  <2> SUFFICES ASSUME NEW j \in Clerk, j # k PROVE TxOK(j)'
    BY DEF TxInv
  <2>1. clerk'[j] = clerk[j] /\ TxOK(j)
    BY DEF IInv, TypeOK, TxInv
  <2>2. ASSUME clerk[j].pc # "idle", HoldsRow(clerk[j])
        PROVE  holder'[clerk[j].rec] = holder[clerk[j].rec]
    <3>1. holder[clerk[j].rec] = j /\ clerk[j].rec \in Record
      BY <2>1, <2>2 DEF TxOK
    <3>2. clerk[j].rec # r
      BY <3>1, FinanceAssumption
    <3> QED BY <3>1, <3>2 DEF IInv, TypeOK
  <2> QED BY <2>1, <2>2 DEF TxOK
<1>3. ClearedAreCheques' /\ ChequePaidOnce' /\ AuditTellsStatus'
  BY DEF IInv, ClearedAreCheques, ChequePaidOnce, AuditTellsStatus, RowsAbout
<1> QED BY <1>1, <1>2, <1>3 DEF IInv

-----------------------------------------------------------------------------
\* The invariant holds of the empty tables.
THEOREM InitIInv == Init => IInv
<1> SUFFICES ASSUME Init PROVE IInv
  OBVIOUS
<1>1. TypeOK
  <2>1. audit \in Seq(AuditRow)
    BY EmptySeq DEF Init
  <2>2. IdleClerk \in ClerkTx
    BY DEF IdleClerk, ClerkTx, Statuses
  <2> QED BY <2>1, <2>2 DEF Init, TypeOK, ClerkTx, Statuses
<1>2. TxInv
  BY DEF Init, TxInv, TxOK, IdleClerk
<1>3. ClearedAreCheques /\ ChequePaidOnce
  BY DEF Init, ClearedAreCheques, ChequePaidOnce
<1>4. AuditTellsStatus
  <2>1. \A r \in Record : RowsAbout(r) = {}
    BY EmptySeq DEF Init, RowsAbout
  <2> QED BY <2>1 DEF Init, AuditTellsStatus
<1> QED BY <1>1, <1>2, <1>3, <1>4 DEF IInv

\* The insert of a row keeps the invariant.
LEMMA AddInv ==
  ASSUME IInv, NEW k \in Clerk, NEW r \in Record, Add(k, r)
  PROVE  IInv'
<1> DEFINE t == Tx("written", r, InitialStatus(r))
<1>1. t \in ClerkTx
  BY TargetsType DEF Tx, ClerkTx, IInv, TypeOK
<1>2. clerk' = [clerk EXCEPT ![k] = t] /\ holder' = [holder EXCEPT ![r] = k]
  BY DEF Add
<1>3. TxOK(k)'
  <2>1. clerk'[k] = t /\ holder'[r] = k /\ status' = status /\ status[r] = "NONE"
    BY <1>2 DEF Add, IInv, TypeOK
  <2>2. t.rec = r /\ t.to = InitialStatus(r) /\ t.from = "NONE"
    BY <2>1 DEF Tx
  <2> QED BY <2>1, <2>2, TargetsType DEF TxOK
<1> QED BY <1>1, <1>2, <1>3, OneClerkStep DEF Add

\* Reading a row without its lock keeps the invariant.
LEMMA ReadInv ==
  ASSUME IInv, NEW k \in Clerk, NEW r \in Record,
         NEW to \in Targets(KindOf[r]) \union {"DELETED"}, Read(k, r, to)
  PROVE  IInv'
<1> DEFINE t == Tx("read", r, to)
<1>1. t \in ClerkTx
  <2>1. to \in Statuses
    BY TargetsType DEF Statuses
  <2> QED BY <2>1 DEF Tx, ClerkTx, IInv, TypeOK
<1>2. clerk' = [clerk EXCEPT ![k] = t] /\ UNCHANGED <<status, ledger, reminded, audit, holder, scanning, faults>>
  BY DEF Read
<1>3. TxOK(k)'
  <2>1. clerk'[k] = t
    BY <1>2 DEF IInv, TypeOK
  <2>2. t.pc = "read" /\ t.rec = r /\ t.to = to /\ t.from = status[r]
    BY DEF Tx
  <2>3. to # "CLEARED" /\ (to = "DELETED" \/ MayDecide(KindOf[r], status[r], to))
    BY DEF Read
  <2> QED BY <1>2, <2>1, <2>2, <2>3 DEF TxOK, HoldsRow
<1>4. TypeOK'
  BY <1>1, <1>2 DEF IInv, TypeOK, ClerkTx, scanning
<1>5. ASSUME NEW j \in Clerk, j # k PROVE TxOK(j)'
  BY <1>2, <1>5 DEF IInv, TypeOK, TxInv, TxOK
<1>6. ClearedAreCheques' /\ ChequePaidOnce' /\ AuditTellsStatus'
  BY <1>2 DEF IInv, ClearedAreCheques, ChequePaidOnce, AuditTellsStatus, RowsAbout
<1> QED BY <1>3, <1>4, <1>5, <1>6 DEF IInv, TxInv

\* SELECT ... FOR UPDATE of a pending cheque keeps the invariant.
LEMMA LockChequeInv ==
  ASSUME IInv, NEW k \in Clerk, NEW r \in Record, LockCheque(k, r)
  PROVE  IInv'
<1> DEFINE t == Tx("read", r, "CLEARED")
<1>1. t \in ClerkTx
  BY DEF Tx, ClerkTx, IInv, TypeOK, Statuses
<1>2. clerk' = [clerk EXCEPT ![k] = t] /\ holder' = [holder EXCEPT ![r] = k]
  BY DEF LockCheque
<1>3. TxOK(k)'
  <2>1. clerk'[k] = t /\ holder'[r] = k /\ status' = status
    BY <1>2 DEF LockCheque, IInv, TypeOK
  <2>2. t.rec = r /\ t.to = "CLEARED" /\ t.from = status[r]
    BY DEF Tx
  <2>3. r \in Cheques /\ MayDecide(KindOf[r], status[r], "CLEARED")
    BY DEF LockCheque, Cheques
  <2> QED BY <2>1, <2>2, <2>3 DEF TxOK
<1> QED BY <1>1, <1>2, <1>3, OneClerkStep DEF LockCheque

\* The row lock taken by an UPDATE, or given up when the row has changed.
LEMMA UpdateRowInv ==
  ASSUME IInv, NEW k \in Clerk, UpdateRow(k)
  PROVE  IInv'
<1> DEFINE r == clerk[k].rec
           t == [clerk[k] EXCEPT !.pc = "written"]
<1>1. clerk[k] \in ClerkTx /\ clerk[k].pc = "read" /\ TxOK(k) /\ r \in Record
  BY DEF UpdateRow, IInv, TypeOK, ClerkTx, TxInv, TxOK
<1>2. CASE status[r] = clerk[k].from
  <2>1. t \in ClerkTx /\ clerk' = [clerk EXCEPT ![k] = t] /\ holder' = [holder EXCEPT ![r] = k]
    BY <1>1, <1>2 DEF UpdateRow, ClerkTx, IInv, TypeOK
  <2>2. TxOK(k)'
    <3>1. clerk'[k] = t /\ holder'[r] = k /\ status' = status
      BY <1>1, <2>1 DEF UpdateRow, IInv, TypeOK
    <3>2. t.rec = r /\ t.to = clerk[k].to /\ t.from = clerk[k].from
      BY <1>1 DEF ClerkTx
    <3> QED BY <1>1, <1>2, <3>1, <3>2 DEF TxOK
  <2> QED BY <1>1, <2>1, <2>2, OneClerkStep DEF UpdateRow
<1>3. CASE status[r] # clerk[k].from
  <2>1. IdleClerk \in ClerkTx /\ clerk' = [clerk EXCEPT ![k] = IdleClerk] /\ holder' = [holder EXCEPT ![r] = NoClerk]
    BY <1>3 DEF UpdateRow, ClerkTx, IdleClerk, Statuses
  <2>2. TxOK(k)'
    BY <2>1 DEF TxOK, IdleClerk, IInv, TypeOK
  <2> QED BY <1>1, <2>1, <2>2, OneClerkStep DEF UpdateRow
<1> QED BY <1>2, <1>3

\* The row lock taken by a DELETE.
LEMMA DeleteRowInv ==
  ASSUME IInv, NEW k \in Clerk, DeleteRow(k)
  PROVE  IInv'
<1> DEFINE r == clerk[k].rec
           t == [clerk[k] EXCEPT !.pc = "written"]
<1>1. clerk[k] \in ClerkTx /\ clerk[k].pc = "read" /\ TxOK(k) /\ r \in Record
  BY DEF DeleteRow, IInv, TypeOK, ClerkTx, TxInv, TxOK
<1>2. t \in ClerkTx /\ clerk' = [clerk EXCEPT ![k] = t] /\ holder' = [holder EXCEPT ![r] = k]
  BY <1>1 DEF DeleteRow, ClerkTx, IInv, TypeOK
<1>3. TxOK(k)'
  <2>1. clerk'[k] = t /\ holder'[r] = k
    BY <1>1, <1>2 DEF IInv, TypeOK
  <2>2. t.rec = r /\ t.to = "DELETED"
    BY <1>1 DEF ClerkTx, DeleteRow
  <2> QED BY <1>1, <2>1, <2>2 DEF TxOK
<1> QED BY <1>1, <1>2, <1>3, OneClerkStep DEF DeleteRow

\* Looking for the newest audit row.
LEMMA SelectLastInv ==
  ASSUME IInv, NEW k \in Clerk, SelectLast(k)
  PROVE  IInv'
<1> DEFINE r == clerk[k].rec
           t == [clerk[k] EXCEPT !.pc = "appending", !.last = Len(audit)]
<1>1. clerk[k] \in ClerkTx /\ clerk[k].pc = "written" /\ TxOK(k) /\ r \in Record /\ holder[r] = k
  BY DEF SelectLast, IInv, TypeOK, ClerkTx, TxInv, TxOK, HoldsRow
<1>2. Len(audit) \in Nat
  BY LenProperties DEF IInv, TypeOK
<1>3. t \in ClerkTx /\ clerk' = [clerk EXCEPT ![k] = t] /\ holder' = [holder EXCEPT ![r] = k]
  BY <1>1, <1>2 DEF SelectLast, ClerkTx, IInv, TypeOK
<1>4. TxOK(k)'
  <2>1. clerk'[k] = t /\ holder' = holder /\ status' = status
    BY <1>3 DEF SelectLast, IInv, TypeOK
  <2>2. t.pc = "appending" /\ t.rec = r /\ t.to = clerk[k].to /\ t.from = clerk[k].from
    BY <1>1 DEF ClerkTx
  <2> QED BY <1>1, <2>1, <2>2 DEF TxOK, HoldsRow
<1> QED BY <1>1, <1>3, <1>4, OneClerkStep DEF SelectLast

-----------------------------------------------------------------------------
\* A commit changes the status of one row, which the transaction held, and as the
\* checks of the row's table allow.
LEMMA CommitDecides ==
  ASSUME IInv, NEW k \in Clerk, Commit(k)
  PROVE  /\ clerk[k] \in ClerkTx /\ clerk[k].rec \in Record
         /\ holder[clerk[k].rec] = k
         /\ clerk[k].to # "DELETED" => status[clerk[k].rec] = clerk[k].from
         /\ \/ clerk[k].to = "DELETED" \/ clerk[k].from = "NONE"
            \/ MayDecide(KindOf[clerk[k].rec], clerk[k].from, clerk[k].to)
         /\ clerk[k].to = "CLEARED" => clerk[k].rec \in Cheques
BY DEF Commit, IInv, TypeOK, ClerkTx, TxInv, TxOK, HoldsRow

\* The insert of the audit row and the commit keep the invariant.
LEMMA CommitInv ==
  ASSUME IInv, NEW k \in Clerk, Commit(k)
  PROVE  IInv'
<1> DEFINE t == clerk[k]
           r == t.rec
           e == [rec |-> r, from |-> t.from, to |-> t.to, prev |-> t.last]
<1>1. /\ t \in ClerkTx /\ r \in Record /\ holder[r] = k
      /\ t.to # "DELETED" => status[r] = t.from
      /\ t.to = "DELETED" \/ t.from = "NONE" \/ MayDecide(KindOf[r], t.from, t.to)
      /\ t.to = "CLEARED" => r \in Cheques
  BY CommitDecides
<1>2. /\ status' = [status EXCEPT ![r] = t.to]
      /\ ledger' = [ledger EXCEPT ![r] = IF t.to = "CLEARED" THEN @ + 1 ELSE @]
      /\ reminded' = RemindedAfter(t)
      /\ audit' = Append(audit, e)
      /\ holder' = [holder EXCEPT ![r] = NoClerk]
      /\ clerk' = [clerk EXCEPT ![k] = IdleClerk]
      /\ UNCHANGED <<scanning, faults>>
  BY DEF Commit
<1>3. e \in AuditRow /\ audit \in Seq(AuditRow)
  BY <1>1 DEF AuditRow, ClerkTx, IInv, TypeOK
<1>4. TypeOK'
  <2>1. IdleClerk \in ClerkTx
    BY DEF IdleClerk, ClerkTx, Statuses
  <2>2. audit' \in Seq(AuditRow)
    BY <1>2, <1>3, AppendProperties
  <2>3. reminded' \subseteq Cheques
    BY <1>2 DEF RemindedAfter, IInv, TypeOK
  <2>4. ledger' \in [Record -> Nat]
    BY <1>1, <1>2 DEF IInv, TypeOK
  <2>5. status' \in [Record -> Statuses] /\ holder' \in [Record -> Clerk \union {NoClerk}]
    BY <1>1, <1>2 DEF IInv, TypeOK, ClerkTx
  <2>6. clerk' \in [Clerk -> ClerkTx]
    BY <1>2, <2>1 DEF IInv, TypeOK, ClerkTx
  <2> QED BY <1>2, <2>2, <2>3, <2>4, <2>5, <2>6 DEF IInv, TypeOK, ClerkTx, scanning
<1>5. TxInv'
  <2> SUFFICES ASSUME NEW j \in Clerk PROVE TxOK(j)'
    BY DEF TxInv
  <2>1. CASE j = k
    BY <1>2, <2>1 DEF TxOK, IdleClerk, IInv, TypeOK
  <2>2. CASE j # k
    <3>1. clerk'[j] = clerk[j] /\ TxOK(j)
      BY <1>2, <2>2 DEF IInv, TypeOK, TxInv
    <3>2. ASSUME clerk[j].pc # "idle", HoldsRow(clerk[j])
          PROVE  /\ holder'[clerk[j].rec] = holder[clerk[j].rec]
                 /\ status'[clerk[j].rec] = status[clerk[j].rec]
      <4>1. holder[clerk[j].rec] = j /\ clerk[j].rec \in Record /\ clerk[j].rec # r
        BY <1>1, <2>2, <3>1, <3>2 DEF TxOK
      <4> QED BY <1>2, <4>1 DEF IInv, TypeOK
    <3> QED BY <3>1, <3>2 DEF TxOK
  <2> QED BY <2>1, <2>2
<1>6. ClearedAreCheques'
  BY <1>1, <1>2 DEF IInv, TypeOK, ClearedAreCheques
<1>7. ChequePaidOnce'
  <2> SUFFICES ASSUME NEW q \in Record
               PROVE  /\ ledger'[q] <= 1
                      /\ status'[q] = "CLEARED" => ledger'[q] = 1
                      /\ ledger'[q] = 1 => status'[q] \in {"CLEARED", "DELETED"}
    BY DEF ChequePaidOnce
  <2>1. /\ ledger[q] \in Nat /\ ledger[q] <= 1
        /\ status[q] = "CLEARED" => ledger[q] = 1
        /\ ledger[q] = 1 => status[q] \in {"CLEARED", "DELETED"}
        /\ status[q] = "CLEARED" => q \in Cheques
    BY DEF IInv, TypeOK, ChequePaidOnce, ClearedAreCheques
  <2>2. CASE q # r
    BY <1>1, <1>2, <2>1, <2>2 DEF IInv, TypeOK
  <2>3. CASE q = r
    <3>1. status'[q] = t.to /\ ledger'[q] = IF t.to = "CLEARED" THEN ledger[q] + 1 ELSE ledger[q]
      BY <1>1, <1>2, <2>3 DEF IInv, TypeOK
    <3>2. CASE t.to = "DELETED"
      BY <2>1, <3>1, <3>2
    <3>3. CASE t.to # "DELETED"
      <4>1. status[q] \notin {"CLEARED", "DELETED"}
        <5>1. status[q] = t.from
          BY <1>1, <2>3, <3>3
        <5>2. CASE t.from = "NONE"
          BY <5>1, <5>2
        <5>3. CASE MayDecide(KindOf[q], t.from, t.to)
          BY <2>1, <5>1, <5>3, DecisionLeavesCleared
        <5> QED BY <1>1, <2>3, <3>3, <5>2, <5>3
      <4>2. ledger[q] = 0
        BY <2>1, <4>1
      <4> QED BY <3>1, <4>2
    <3> QED BY <3>2, <3>3
  <2> QED BY <2>2, <2>3
<1>8. AuditTellsStatus'
  <2>1. /\ DOMAIN audit = 1..Len(audit) /\ Len(audit) \in Nat
        /\ DOMAIN audit' = 1..(Len(audit) + 1)
        /\ audit'[Len(audit) + 1] = e
        /\ \A i \in 1..Len(audit) : audit'[i] = audit[i]
    BY <1>2, <1>3, AppendProperties, LenProperties
  <2> SUFFICES ASSUME NEW q \in Record
               PROVE  IF RowsAbout(q)' = {} THEN status'[q] = "NONE"
                      ELSE \E i \in RowsAbout(q)' :
                             /\ \A j \in RowsAbout(q)' : j <= i
                             /\ audit'[i].to = status'[q]
    BY DEF AuditTellsStatus
  <2>2. CASE q = r
    <3>1. Len(audit) + 1 \in RowsAbout(q)'
      BY <2>1, <2>2 DEF RowsAbout
    <3>2. \A j \in RowsAbout(q)' : j <= Len(audit) + 1
      BY <2>1 DEF RowsAbout
    <3>3. audit'[Len(audit) + 1].to = status'[q]
      BY <1>1, <1>2, <2>1, <2>2 DEF IInv, TypeOK
    <3> QED BY <3>1, <3>2, <3>3
  <2>3. CASE q # r
    <3>1. RowsAbout(q)' = RowsAbout(q)
      BY <2>1, <2>3 DEF RowsAbout
    <3>2. status'[q] = status[q]
      BY <1>1, <1>2, <2>3 DEF IInv, TypeOK
    <3>3. \A i \in RowsAbout(q) : audit'[i] = audit[i]
      BY <2>1 DEF RowsAbout
    <3> QED BY <3>1, <3>2, <3>3 DEF IInv, AuditTellsStatus
  <2> QED BY <2>2, <2>3
<1> QED BY <1>4, <1>5, <1>6, <1>7, <1>8 DEF IInv

\* A transaction that fails gives back what it held.
LEMMA RollBackInv ==
  ASSUME IInv, NEW k \in Clerk, RollBack(k)
  PROVE  IInv'
<1>1. IdleClerk \in ClerkTx
  BY DEF IdleClerk, ClerkTx, Statuses
<1>2. TypeOK'
  <2>1. clerk' \in [Clerk -> ClerkTx]
    BY <1>1 DEF RollBack, IInv, TypeOK, ClerkTx
  <2>2. holder' \in [Record -> Clerk \union {NoClerk}] /\ faults' \in Nat
    BY DEF RollBack, IInv, TypeOK
  <2> QED BY <2>1, <2>2 DEF RollBack, IInv, TypeOK, ClerkTx, scanning
<1>3. TxInv'
  <2> SUFFICES ASSUME NEW j \in Clerk PROVE TxOK(j)'
    BY DEF TxInv
  <2>1. CASE j = k
    BY <2>1 DEF RollBack, TxOK, IdleClerk, IInv, TypeOK
  <2>2. CASE j # k
    <3>1. clerk'[j] = clerk[j] /\ TxOK(j) /\ status' = status
      BY <2>2 DEF RollBack, IInv, TypeOK, TxInv
    <3>2. \A q \in Record : holder[q] = j => holder'[q] = j
      BY <2>2 DEF RollBack
    <3> QED BY <3>1, <3>2 DEF TxOK
  <2> QED BY <2>1, <2>2
<1>4. ClearedAreCheques' /\ ChequePaidOnce' /\ AuditTellsStatus'
  BY DEF RollBack, IInv, ClearedAreCheques, ChequePaidOnce, AuditTellsStatus, RowsAbout
<1> QED BY <1>2, <1>3, <1>4 DEF IInv

\* The reminder scan writes remindedAt only, and of cheques only.
LEMMA ScanInv ==
  ASSUME IInv, Scan
  PROVE  IInv'
<1>1. UNCHANGED <<status, ledger, audit, holder, clerk>>
  BY DEF Scan, ScanPending, MarkReminded, ScanDies, SendReminder, ReminderFails
<1>2. /\ reminded' \subseteq Cheques /\ scan' \subseteq Cheques /\ told' \subseteq Cheques
      /\ sending' \in Cheques \union {NoRecord} /\ faults' \in Nat
  <2>1. CASE ScanPending
    BY <2>1 DEF ScanPending, IInv, TypeOK
  <2>2. CASE MarkReminded
    BY <2>2 DEF MarkReminded, IInv, TypeOK
  <2>3. CASE ScanDies
    BY <2>3 DEF ScanDies, IInv, TypeOK
  <2>4. ASSUME NEW r \in Cheques, SendReminder(r) \/ ReminderFails(r)
        PROVE  /\ reminded' \subseteq Cheques /\ scan' \subseteq Cheques /\ told' \subseteq Cheques
               /\ sending' \in Cheques \union {NoRecord} /\ faults' \in Nat
    BY <2>4 DEF SendReminder, ReminderFails, IInv, TypeOK
  <2> QED BY <2>1, <2>2, <2>3, <2>4 DEF Scan
<1>3. TypeOK'
  BY <1>1, <1>2 DEF IInv, TypeOK
<1>4. TxInv'
  BY <1>1 DEF IInv, TxInv, TxOK
<1>5. ClearedAreCheques' /\ ChequePaidOnce' /\ AuditTellsStatus'
  BY <1>1 DEF IInv, ClearedAreCheques, ChequePaidOnce, AuditTellsStatus, RowsAbout
<1> QED BY <1>3, <1>4, <1>5 DEF IInv

-----------------------------------------------------------------------------
\* Every step of every clerk and of the scan keeps the invariant.
THEOREM NextIInv == IInv /\ [Next]_vars => IInv'
<1> SUFFICES ASSUME IInv, [Next]_vars PROVE IInv'
  OBVIOUS
<1>1. ASSUME NEW k \in Clerk, NEW r \in Record, Add(k, r) PROVE IInv'
  BY <1>1, AddInv
<1>2. ASSUME NEW k \in Clerk, NEW r \in Record, LockCheque(k, r) PROVE IInv'
  BY <1>2, LockChequeInv
<1>3. ASSUME NEW k \in Clerk, NEW r \in Record,
             NEW to \in Targets(KindOf[r]) \union {"DELETED"}, Read(k, r, to)
      PROVE  IInv'
  BY <1>3, ReadInv
<1>4. ASSUME NEW k \in Clerk, Write(k) PROVE IInv'
  BY <1>4, UpdateRowInv, DeleteRowInv, SelectLastInv, CommitInv DEF Write
<1>5. ASSUME NEW k \in Clerk, RollBack(k) PROVE IInv'
  BY <1>5, RollBackInv
<1>6. CASE Scan
  BY <1>6, ScanInv
<1>7. CASE UNCHANGED vars
  <2>1. UNCHANGED <<status, ledger, reminded, audit, holder, clerk, scan, sending, told, faults>>
    BY <1>7 DEF vars, scanning
  <2>2. TypeOK'
    BY <2>1 DEF IInv, TypeOK
  <2>3. TxInv'
    BY <2>1 DEF IInv, TxInv, TxOK
  <2>4. ClearedAreCheques' /\ ChequePaidOnce' /\ AuditTellsStatus'
    BY <2>1 DEF IInv, ClearedAreCheques, ChequePaidOnce, AuditTellsStatus, RowsAbout
  <2> QED BY <2>2, <2>3, <2>4 DEF IInv
<1> QED BY <1>1, <1>2, <1>3, <1>4, <1>5, <1>6, <1>7 DEF Next, Request

\* The invariant holds in every state the desk reaches.
THEOREM IInvHolds == Spec => []IInv
<1> QED BY InitIInv, NextIInv, PTL DEF Spec

\* Every variable of the desk keeps its type, for any rows, clerks and bounds.
THEOREM TypeCorrect == Spec => []TypeOK
<1>1. IInv => TypeOK
  BY DEF IInv
<1> QED BY <1>1, IInvHolds, PTL

\* clearCheque adds one ledger row for a cheque, for any number of clerks.
THEOREM ChequePaidOnceHolds == Spec => []ChequePaidOnce
<1>1. IInv => ChequePaidOnce
  BY DEF IInv
<1> QED BY <1>1, IInvHolds, PTL

\* The newest audit row about a row names its status, whatever runs beside it.
THEOREM AuditTellsStatusHolds == Spec => []AuditTellsStatus
<1>1. IInv => AuditTellsStatus
  BY DEF IInv
<1> QED BY <1>1, IInvHolds, PTL

-----------------------------------------------------------------------------
\* The trail of the empty tables.
LEMMA TrailInit == Init => TrailInv
<1> SUFFICES ASSUME Init PROVE TrailInv
  OBVIOUS
<1>1. DOMAIN audit = {}
  BY EmptySeq DEF Init
<1>2. EntryInv
  BY DEF Init, EntryInv, EntryOK, IdleClerk
<1> QED BY <1>1, <1>2 DEF TrailInv, EntriesEndSomewhere, TrailIsLegal

\* A step that appends no entry keeps what the trail says, if the transaction it
\* changes has the right entry in mind.
LEMMA TrailKept ==
  ASSUME IInv, TrailInv, NEW k \in Clerk, NEW t \in ClerkTx,
         clerk' = [clerk EXCEPT ![k] = t], audit' = audit, EntryOK(t)
  PROVE  TrailInv'
<1>1. EntryInv'
  <2> SUFFICES ASSUME NEW j \in Clerk PROVE EntryOK(clerk[j])'
    BY DEF EntryInv
  <2>1. EntryOK(clerk'[j])
    BY DEF IInv, TypeOK, TrailInv, EntryInv
  <2>2. clerk'[j].rec = clerk[j]'.rec /\ \A r : RowsAbout(r)' = RowsAbout(r)
    BY DEF RowsAbout
  <2> QED BY <2>1, <2>2 DEF EntryOK
<1>2. EntriesEndSomewhere' /\ TrailIsLegal'
  BY DEF TrailInv, EntriesEndSomewhere, TrailIsLegal, RowsAbout
<1> QED BY <1>1, <1>2 DEF TrailInv

\* A transaction that begins has the right entry in mind.
LEMMA TrailRequest ==
  ASSUME IInv, TrailInv, NEW k \in Clerk, Request(k)
  PROVE  TrailInv'
<1> PICK r \in Record :
      \/ Add(k, r)
      \/ LockCheque(k, r)
      \/ \E to \in Targets(KindOf[r]) \union {"DELETED"} : Read(k, r, to)
  BY DEF Request
<1> DEFINE First == InitialStatus(r)
<1>1. CASE Add(k, r)
  <2> DEFINE t == Tx("written", r, First)
  <2>1. /\ First \in Statuses /\ First # "NONE" /\ First # "DELETED"
    BY FinanceAssumption DEF InitialStatus, Kind, Statuses
  <2>2. t \in ClerkTx /\ clerk' = [clerk EXCEPT ![k] = t] /\ audit' = audit
    BY <1>1, <2>1 DEF Add, Tx, ClerkTx, IInv, TypeOK
  <2>3. t.to = First /\ t.rec = r
    BY DEF Tx
  <2>4. EntryOK(t)
    BY <2>1, <2>3 DEF EntryOK
  <2> QED BY <2>2, <2>4, TrailKept
<1>2. CASE LockCheque(k, r)
  <2> DEFINE t == Tx("read", r, "CLEARED")
  <2>1. t \in ClerkTx /\ clerk' = [clerk EXCEPT ![k] = t] /\ audit' = audit
    BY <1>2 DEF LockCheque, Tx, ClerkTx, IInv, TypeOK, Statuses
  <2>2. t.to = "CLEARED" /\ t.from # "NONE"
    BY <1>2 DEF Tx, LockCheque, MayDecide
  <2>3. EntryOK(t)
    BY <2>2 DEF EntryOK
  <2> QED BY <2>1, <2>3, TrailKept
<1>3. ASSUME NEW to \in Targets(KindOf[r]) \union {"DELETED"}, Read(k, r, to)
      PROVE  TrailInv'
  <2> DEFINE t == Tx("read", r, to)
  <2>1. to \in Statuses /\ to # "NONE"
    BY FinanceAssumption DEF Targets, Kind, Statuses
  <2>2. t \in ClerkTx /\ clerk' = [clerk EXCEPT ![k] = t] /\ audit' = audit
    BY <1>3, <2>1 DEF Read, Tx, ClerkTx, IInv, TypeOK
  <2>3. t.to = to /\ t.from = status[r] /\ t.rec = r
    BY DEF Tx
  <2>4. status[r] # "NONE" /\ (to = "DELETED" => MayDelete(KindOf[r], status[r]))
    <3>1. CASE MayDecide(KindOf[r], status[r], to) /\ to \in Targets(KindOf[r])
      <4>1. to # "DELETED"
        BY <3>1, FinanceAssumption DEF Targets, Kind
      <4> QED BY <3>1, <4>1 DEF MayDecide
    <3>2. CASE MayDelete(KindOf[r], status[r])
      BY <3>2 DEF MayDelete
    <3> QED BY <1>3, <3>1, <3>2 DEF Read
  <2>5. \E i \in RowsAbout(r) : audit[i].to = status[r]
    BY <2>4 DEF IInv, AuditTellsStatus
  <2>6. EntryOK(t)
    BY <2>1, <2>3, <2>4, <2>5 DEF EntryOK
  <2> QED BY <2>2, <2>6, TrailKept
<1> QED BY <1>1, <1>2, <1>3

\* A statement between the first and the commit keeps it, and so does giving up.
LEMMA TrailWrite ==
  ASSUME IInv, TrailInv, NEW k \in Clerk,
         UpdateRow(k) \/ DeleteRow(k) \/ SelectLast(k) \/ RollBack(k)
  PROVE  TrailInv'
<1>1. clerk[k] \in ClerkTx /\ EntryOK(clerk[k])
  BY DEF IInv, TypeOK, ClerkTx, TrailInv, EntryInv
<1>2. IdleClerk \in ClerkTx /\ EntryOK(IdleClerk)
  BY DEF IdleClerk, ClerkTx, EntryOK, Statuses
<1>3. Len(audit) \in Nat
  BY LenProperties DEF IInv, TypeOK
<1>4. ASSUME NEW pc \in {"written", "appending"}, NEW n \in Nat
      PROVE  /\ [clerk[k] EXCEPT !.pc = pc, !.last = n] \in ClerkTx
             /\ clerk[k].pc # "idle" => EntryOK([clerk[k] EXCEPT !.pc = pc, !.last = n])
  BY <1>1 DEF ClerkTx, EntryOK
<1>5. audit' = audit /\ clerk[k].pc # "idle"
  BY DEF UpdateRow, DeleteRow, SelectLast, RollBack
<1>6. CASE clerk' = [clerk EXCEPT ![k] = IdleClerk]
  BY <1>2, <1>5, <1>6, TrailKept
<1>7. CASE clerk' = [clerk EXCEPT ![k].pc = "written"]
  <2>1. clerk' = [clerk EXCEPT ![k] = [clerk[k] EXCEPT !.pc = "written", !.last = clerk[k].last]]
    BY <1>1, <1>7 DEF IInv, TypeOK, ClerkTx
  <2>2. clerk[k].last \in Nat
    BY <1>1 DEF ClerkTx
  <2> QED BY <1>4, <1>5, <2>1, <2>2, TrailKept
<1>8. CASE clerk' = [clerk EXCEPT ![k].pc = "appending", ![k].last = Len(audit)]
  <2>1. clerk' = [clerk EXCEPT ![k] = [clerk[k] EXCEPT !.pc = "appending", !.last = Len(audit)]]
    BY <1>1, <1>8 DEF IInv, TypeOK, ClerkTx
  <2> QED BY <1>3, <1>4, <1>5, <2>1, TrailKept
<1> QED BY <1>6, <1>7, <1>8 DEF UpdateRow, DeleteRow, SelectLast, RollBack

\* The commit appends the entry its transaction had in mind, and what this entry
\* starts from is what the trail so far ends with, but for a deletion.
LEMMA TrailCommit ==
  ASSUME IInv, TrailInv, NEW k \in Clerk, Commit(k)
  PROVE  TrailInv'
<1> DEFINE t == clerk[k]
           r == t.rec
           e == [rec |-> r, from |-> t.from, to |-> t.to, prev |-> t.last]
           N == Len(audit)
<1>1. /\ t \in ClerkTx /\ r \in Record
      /\ t.to # "DELETED" => status[r] = t.from
      /\ t.to = "DELETED" \/ t.from = "NONE" \/ MayDecide(KindOf[r], t.from, t.to)
  BY CommitDecides
<1>2. /\ audit' = Append(audit, e) /\ clerk' = [clerk EXCEPT ![k] = IdleClerk] /\ t.pc # "idle"
  BY DEF Commit
<1>3. e \in AuditRow /\ audit \in Seq(AuditRow)
  BY <1>1 DEF AuditRow, ClerkTx, IInv, TypeOK
<1>4. /\ DOMAIN audit = 1..N /\ N \in Nat /\ DOMAIN audit' = 1..(N + 1)
      /\ audit'[N + 1] = e
      /\ \A i \in 1..N : audit'[i] = audit[i]
  BY <1>2, <1>3, AppendProperties, LenProperties
<1>5. EntryOK(t)
  BY DEF TrailInv, EntryInv
<1>6. \A q \in Record : /\ RowsAbout(q) \subseteq 1..N
                        /\ RowsAbout(q) = {i \in RowsAbout(q)' : i < N + 1}
                        /\ RowsAbout(q) \subseteq RowsAbout(q)'
  BY <1>4 DEF RowsAbout
<1>7. EntryInv'
  <2> SUFFICES ASSUME NEW j \in Clerk, j # k PROVE EntryOK(clerk[j])'
    BY <1>2 DEF EntryInv, EntryOK, IdleClerk, IInv, TypeOK
  <2>1. clerk'[j] = clerk[j] /\ EntryOK(clerk[j]) /\ (clerk[j].pc # "idle" => clerk[j].rec \in Record)
    BY <1>2 DEF IInv, TypeOK, TxInv, TxOK, TrailInv, EntryInv
  <2> QED BY <1>4, <1>6, <2>1 DEF EntryOK
<1>8. EntriesEndSomewhere'
  BY <1>2, <1>4, <1>5 DEF TrailInv, EntriesEndSomewhere, EntryOK
<1>9. TrailIsLegal'
  <2> DEFINE Before(q, j) == {i \in DOMAIN audit' : audit'[i].rec = q /\ i < j}
  <2> SUFFICES ASSUME NEW j \in 1..(N + 1)
      PROVE  LegalAfter(audit'[j], Before(audit'[j].rec, j), audit')
    <3>1. \A j \in DOMAIN audit' : {i \in RowsAbout(audit[j].rec) : i < j}' = Before(audit'[j].rec, j)
      BY DEF RowsAbout
    <3> QED BY <1>4, <3>1 DEF TrailIsLegal
  <2>1. CASE j \in 1..N
    <3>1. audit'[j] = audit[j] /\ audit[j].rec \in Record
      <4>1. audit[j] \in AuditRow
        BY <1>3, <1>4, <2>1, ElementOfSeq
      <4> QED BY <1>4, <2>1, <4>1 DEF AuditRow
    <3>2. Before(audit[j].rec, j) = {i \in RowsAbout(audit[j].rec) : i < j}
      BY <1>4, <2>1 DEF RowsAbout
    <3>3. \A i \in RowsAbout(audit[j].rec) : audit'[i] = audit[i]
      BY <1>4, <1>6, <3>1
    <3>4. LegalAfter(audit[j], Before(audit[j].rec, j), audit)
      BY <1>4, <2>1, <3>2 DEF TrailInv, TrailIsLegal
    <3> QED BY <3>1, <3>2, <3>3, <3>4 DEF LegalAfter
  <2>2. CASE j = N + 1
    <3>1. audit'[j] = e /\ audit'[j].rec = r
      BY <1>4, <2>2
    <3>2. Before(r, j) = RowsAbout(r)
      <4>1. \A i \in 1..N : audit'[i].rec = audit[i].rec
        BY <1>4
      <4> QED BY <1>4, <2>2, <4>1 DEF RowsAbout
    <3> SUFFICES LegalAfter(e, RowsAbout(r), audit')
      <4> HIDE DEF Before
      <4> QED BY <3>1, <3>2
    <3>3. \A i \in RowsAbout(r) : audit'[i] = audit[i]
      BY <1>1, <1>4, <1>6
    <3>4. CASE t.to = "DELETED"
      BY <1>2, <1>5, <3>3, <3>4 DEF EntryOK, LegalAfter
    <3>5. CASE t.to # "DELETED" /\ RowsAbout(r) = {}
      <4>1. t.from = "NONE"
        BY <1>1, <3>5 DEF IInv, AuditTellsStatus
      <4> QED BY <1>2, <1>5, <3>5, <4>1 DEF EntryOK, LegalAfter
    <3>6. CASE t.to # "DELETED" /\ RowsAbout(r) # {}
      <4>1. PICK i \in RowsAbout(r) : (\A l \in RowsAbout(r) : l <= i) /\ audit[i].to = status[r]
        BY <1>1, <3>6 DEF IInv, AuditTellsStatus
      <4>2. audit[i].to = t.from /\ t.from # "NONE"
        BY <1>1, <1>4, <1>6, <3>6, <4>1 DEF TrailInv, EntriesEndSomewhere
      <4> QED BY <1>1, <3>3, <3>6, <4>1, <4>2 DEF LegalAfter
    <3> QED BY <3>4, <3>5, <3>6
  <2> QED BY <2>1, <2>2
<1> QED BY <1>7, <1>8, <1>9 DEF TrailInv

\* Every step of every clerk and of the scan keeps what the trail says.
LEMMA TrailNext == IInv /\ TrailInv /\ [Next]_vars => TrailInv'
<1> SUFFICES ASSUME IInv, TrailInv, [Next]_vars PROVE TrailInv'
  OBVIOUS
<1>1. ASSUME NEW k \in Clerk, Request(k) PROVE TrailInv'
  BY <1>1, TrailRequest
<1>2. ASSUME NEW k \in Clerk, Write(k) \/ RollBack(k) PROVE TrailInv'
  BY <1>2, TrailWrite, TrailCommit DEF Write
<1>3. CASE Scan \/ UNCHANGED vars
  <2>1. UNCHANGED <<audit, clerk>>
    BY <1>3 DEF vars, Scan, ScanPending, MarkReminded, ScanDies, SendReminder, ReminderFails
  <2> QED BY <2>1 DEF TrailInv, EntryInv, EntryOK, EntriesEndSomewhere, TrailIsLegal, RowsAbout
<1> QED BY <1>1, <1>2, <1>3 DEF Next

\* The history the trail tells is legal in every behaviour, deletions and the
\* decisions they overrun included.
THEOREM TrailIsLegalHolds == Spec => []TrailIsLegal
<1>1. TrailInv => TrailIsLegal
  BY DEF TrailInv
<1> QED BY <1>1, TrailInit, TrailNext, IInvHolds, PTL DEF Spec
=============================================================================
