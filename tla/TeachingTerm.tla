----------------------------- MODULE TeachingTerm -----------------------------
(***************************************************************************)
(* A professor's term: the contract and its electronic signature            *)
(* (lib/contract-engine.ts and app/professor/documents/actions.ts) and the  *)
(* payment for it (lib/payroll-engine.ts), which settles only when every    *)
(* document is signed and every grade final.                                *)
(*                                                                          *)
(* Contract and page signature run statement by statement, without a        *)
(* transaction; the two payments hold the rows of the statement from their  *)
(* SELECT ... FOR UPDATE to the commit.  Each statement is an action.       *)
(***************************************************************************)
EXTENDS Integers, Sequences, FiniteSets

CONSTANTS
  Session,      \* calls that may be under way at the same time
  NoSession,
  Net,          \* net amounts a computation of the term may come to
  Percent,      \* setting PAYROLL_MIDTERM_PERCENT
  MaxAttempts,  \* wrong codes before the lock (5 in the code)
  MaxRows,      \* bound: contracts
  MaxCodes,     \* bound: codes issued
  MaxCalls,     \* bound: calls begun
  MaxCrashes    \* bound: calls cut off

ASSUME TeachingAssumption ==
  /\ NoSession \notin Session
  /\ Net \subseteq Nat
  /\ Percent \in 0..100
  /\ MaxAttempts \in Nat \ {0} /\ MaxRows \in Nat /\ MaxCodes \in Nat
  /\ MaxCalls \in Nat /\ MaxCrashes \in Nat

VARIABLES
  contracts,   \* rows of professor_term_contracts
  docs,        \* electronic_documents: sequence of [signed, signatures]
  codes,       \* signature_otps and doc_sign_otps: [kind, doc, used, tries, locked, expired]
  statements,  \* payroll_statements: [contract, status, net, midterm, final]
  holder,      \* the payment that holds the statements FOR UPDATE
  held,        \* contracts whose statements it holds
  gradesFinal, \* no registered student of the professor waits for a final grade
  payments,    \* history: [row, kind, amount, net, papers] of every payment
  call,        \* session -> the call under way
  overlap,     \* whether calls overlap in this behaviour
  calls, crashes

papers == <<contracts, docs, codes>>
pay == <<statements, holder, held, payments>>
vars == <<papers, pay, gradesFinal, call, overlap, calls, crashes>>

Idle == [pc |-> "idle"]

\* PAGE: the contract page; INBOX: the documents inbox.
CodeKind == {"PAGE", "INBOX"}
StatementStatus == {"DRAFT", "MID_TERM_PAID", "FINAL_SETTLED"}

-----------------------------------------------------------------------------
(* Beginning and continuing a call.                                         *)

Begin(k, next) ==
  /\ call[k] = Idle
  /\ overlap \/ \A j \in Session : call[j] = Idle
  /\ calls < MaxCalls
  /\ calls' = calls + 1
  /\ call' = [call EXCEPT ![k] = next]
  /\ UNCHANGED <<gradesFinal, overlap, crashes>>

Go(k, next) ==
  /\ call' = [call EXCEPT ![k] = next]
  /\ UNCHANGED <<gradesFinal, overlap, calls, crashes>>

-----------------------------------------------------------------------------
(* The contract.                                                            *)

\* What a caller of ensureContractDocument does next with document d.
After(then, d) ==
  CASE then = "view" -> Idle
    [] then = "ask" -> [pc |-> "issue", kind |-> "PAGE", doc |-> d]
    [] then = "sign" -> [pc |-> "check", kind |-> "PAGE", doc |-> d]

\* ensureContractDocument finds a document of the term (its rewriting of a pending
\* one changes the text only) or finds none.
EnsureContract(k, then) ==
  /\ \/ docs = <<>> /\ Begin(k, [pc |-> "contract", then |-> then])
     \/ \E d \in DOMAIN docs : Begin(k, After(then, d))
  /\ UNCHANGED <<papers, pay>>

InsertContract(k) ==
  /\ call[k].pc = "contract"
  /\ contracts < MaxRows
  /\ contracts' = contracts + 1
  /\ Go(k, [call[k] EXCEPT !.pc = "document"])
  /\ UNCHANGED <<docs, codes, pay>>

InsertDocument(k) ==
  /\ call[k].pc = "document"
  /\ docs' = Append(docs, [signed |-> FALSE, signatures |-> 0])
  /\ Go(k, After(call[k].then, Len(docs) + 1))
  /\ UNCHANGED <<contracts, codes, pay>>

-----------------------------------------------------------------------------
(* One-time codes and signatures.                                           *)

\* sendOtpAction refuses a signed document, and inserts later.
AskInboxCode(k, d) ==
  /\ ~docs[d].signed
  /\ Begin(k, [pc |-> "issue", kind |-> "INBOX", doc |-> d])
  /\ UNCHANGED <<papers, pay>>

\* issueContractOtp, sendOtpAction.
IssueCode(k) ==
  /\ call[k].pc = "issue"
  /\ Len(codes) < MaxCodes
  /\ codes' = Append(codes, [kind |-> call[k].kind, doc |-> call[k].doc, used |-> FALSE,
                             tries |-> 0, locked |-> FALSE, expired |-> FALSE])
  /\ Go(k, Idle)
  /\ UNCHANGED <<contracts, docs, pay>>

\* verifySignAction refuses a signed document before it looks for the code.
OpenInbox(k, d) ==
  /\ ~docs[d].signed
  /\ Begin(k, [pc |-> "check", kind |-> "INBOX", doc |-> d])
  /\ UNCHANGED <<papers, pay>>

CodesOf(kind, d) == {i \in DOMAIN codes : codes[i].kind = kind /\ codes[i].doc = d}

\* The page takes the oldest unused code of the document, the inbox its newest code.
Picked(kind, d) ==
  IF kind = "PAGE"
    THEN {i \in CodesOf(kind, d) : ~codes[i].used /\ \A j \in CodesOf(kind, d) : j < i => codes[j].used}
    ELSE {i \in CodesOf(kind, d) : \A j \in CodesOf(kind, d) : j <= i}

Usable(i) == ~codes[i].used /\ ~codes[i].expired /\ ~codes[i].locked

\* The code typed in is compared with the row that is picked.
CheckCode(k, right) ==
  /\ call[k].pc = "check"
  /\ \E i \in Picked(call[k].kind, call[k].doc) :
       /\ Usable(i)
       /\ Go(k, [pc |-> IF right THEN "right" ELSE "wrong", kind |-> call[k].kind,
                 doc |-> call[k].doc, code |-> i, tries |-> codes[i].tries])
  /\ UNCHANGED <<papers, pay>>

\* No code, or one that is used, expired or locked.
RefuseCode(k) ==
  /\ call[k].pc = "check"
  /\ \A i \in Picked(call[k].kind, call[k].doc) : ~Usable(i)
  /\ Go(k, Idle)
  /\ UNCHANGED <<papers, pay>>

\* The count read before, plus one; the page clears a lock another call has set.
CountAttempt(k) ==
  LET i == call[k].code
      attempts == call[k].tries + 1
      full == attempts >= MaxAttempts
  IN /\ call[k].pc = "wrong"
     /\ codes' = [codes EXCEPT ![i] =
          [@ EXCEPT !.tries = attempts,
                    !.locked = full \/ (codes[i].locked /\ call[k].kind = "INBOX")]]
     /\ Go(k, Idle)
     /\ UNCHANGED <<contracts, docs, pay>>

\* The inbox: code, signature and status in one transaction.
SignInbox(k) ==
  /\ call[k].pc = "right" /\ call[k].kind = "INBOX"
  /\ codes' = [codes EXCEPT ![call[k].code].used = TRUE]
  /\ docs' = [docs EXCEPT ![call[k].doc] = [signed |-> TRUE, signatures |-> @.signatures + 1]]
  /\ Go(k, Idle)
  /\ UNCHANGED <<contracts, pay>>

\* The page: the code first, then the status, then the signature.
UseCode(k) ==
  /\ call[k].pc = "right" /\ call[k].kind = "PAGE"
  /\ codes' = [codes EXCEPT ![call[k].code].used = TRUE]
  /\ Go(k, [call[k] EXCEPT !.pc = "sign"])
  /\ UNCHANGED <<contracts, docs, pay>>

SignPage(k) ==
  /\ call[k].pc = "sign"
  /\ docs' = [docs EXCEPT ![call[k].doc].signed = TRUE]
  /\ Go(k, [call[k] EXCEPT !.pc = "signature"])
  /\ UNCHANGED <<contracts, codes, pay>>

InsertSignature(k) ==
  /\ call[k].pc = "signature"
  /\ docs' = [docs EXCEPT ![call[k].doc].signatures = @ + 1]
  /\ Go(k, Idle)
  /\ UNCHANGED <<contracts, codes, pay>>

-----------------------------------------------------------------------------
(* Payroll.                                                                 *)

\* computeTermPayroll looks for the statement under any contract of the professor.
Found(c) == {i \in DOMAIN statements : statements[i].contract \in 1..contracts}

\* computeTermPayroll reads a contract, a statement of the professor and the term's
\* data; a settled statement is left alone.
ReadTerm(k, net) ==
  /\ \E c \in 1..contracts :
       IF Found(c) = {}
         THEN Begin(k, [pc |-> "insert", contract |-> c, net |-> net])
         ELSE \E i \in Found(c) :
                /\ statements[i].status # "FINAL_SETTLED"
                /\ Begin(k, [pc |-> "update", row |-> i, net |-> net])
  /\ UNCHANGED <<papers, pay>>

\* The foreign key of the new row waits for a contract that is held.
InsertStatement(k) ==
  /\ call[k].pc = "insert"
  /\ call[k].contract \notin held
  /\ statements' = Append(statements, [contract |-> call[k].contract, status |-> "DRAFT",
                                       net |-> call[k].net, midterm |-> 0, final |-> 0])
  /\ Go(k, Idle)
  /\ UNCHANGED <<papers, holder, held, payments>>

\* The update goes by the row's id and leaves status and payments.
UpdateStatement(k) ==
  /\ call[k].pc = "update"
  /\ statements[call[k].row].contract \notin held
  /\ statements' = [statements EXCEPT ![call[k].row].net = call[k].net]
  /\ Go(k, Idle)
  /\ UNCHANGED <<papers, holder, held, payments>>

\* payMidterm takes a draft, settleFinal whatever is not settled.
Payable(status, to) ==
  IF to = "MID_TERM_PAID" THEN status = "DRAFT" ELSE status # "FINAL_SETTLED"

\* Mutant: the statement is read without FOR UPDATE.
ReadStatement(k, to) ==
  /\ \E i \in DOMAIN statements :
       /\ Payable(statements[i].status, to)
       /\ Begin(k, [pc |-> IF to = "MID_TERM_PAID" THEN "pay" ELSE "grades", row |-> i, to |-> to,
                    net |-> statements[i].net, paid |-> statements[i].midterm, papers |-> 0])
  /\ UNCHANGED <<papers, pay>>

\* The professor's statements FOR UPDATE; one of them is paid.
LockStatement(k, to) ==
  /\ holder = NoSession
  /\ holder' = k
  /\ held' = {statements[i].contract : i \in DOMAIN statements}
  /\ \E i \in DOMAIN statements :
       /\ Payable(statements[i].status, to)
       /\ Begin(k, [pc |-> IF to = "MID_TERM_PAID" THEN "pay" ELSE "grades", row |-> i, to |-> to,
                    net |-> statements[i].net, paid |-> statements[i].midterm, papers |-> 0])
  /\ UNCHANGED <<papers, statements, payments>>

\* settleFinal's first gate, in the payment's transaction.
CheckGrades(k) ==
  /\ call[k].pc = "grades"
  /\ gradesFinal
  /\ Go(k, [call[k] EXCEPT !.pc = "documents"])
  /\ UNCHANGED <<papers, pay>>

\* Mutant: a professor with a signed document passes.
CheckSomePapers(k) ==
  /\ call[k].pc = "documents"
  /\ docs # <<>> => \E d \in DOMAIN docs : docs[d].signed
  /\ Go(k, [call[k] EXCEPT !.pc = "pay", !.papers = Len(docs)])
  /\ UNCHANGED <<papers, pay>>

\* The second gate: no document of the term is unsigned.
CheckPapers(k) ==
  /\ call[k].pc = "documents"
  /\ \A d \in DOMAIN docs : docs[d].signed
  /\ Go(k, [call[k] EXCEPT !.pc = "pay", !.papers = Len(docs)])
  /\ UNCHANGED <<papers, pay>>

Released == holder' = NoSession /\ held' = {}

\* A gate is closed: the transaction rolls back.
RefuseSettlement(k) ==
  /\ \/ call[k].pc = "grades" /\ ~gradesFinal
     \/ call[k].pc = "documents" /\ \E d \in DOMAIN docs : ~docs[d].signed
  /\ Released
  /\ Go(k, Idle)
  /\ UNCHANGED <<papers, statements, payments>>

\* Mutant: a settlement below the advance asks the difference back.
RemainderOwed(net, paid) == net - paid

\* What settleFinal pays.
Remainder(net, paid) == IF net > paid THEN net - paid ELSE 0

\* The update of the statement, the audit row and the commit.
Pay(k) ==
  LET p == call[k]
      amount == IF p.to = "MID_TERM_PAID" THEN (p.net * Percent) \div 100 ELSE Remainder(p.net, p.paid)
  IN /\ p.pc = "pay"
     /\ statements' = IF p.to = "MID_TERM_PAID"
          THEN [statements EXCEPT ![p.row] = [@ EXCEPT !.midterm = amount, !.status = p.to]]
          ELSE [statements EXCEPT ![p.row] = [@ EXCEPT !.final = amount, !.status = p.to]]
     /\ payments' = Append(payments, [row |-> p.row, to |-> p.to, amount |-> amount,
                                      net |-> p.net, papers |-> p.papers])
     /\ Released
     /\ Go(k, Idle)
     /\ UNCHANGED papers

-----------------------------------------------------------------------------
(* What happens around the calls.                                           *)

\* A code's five (or two) minutes pass.
Expire(i) ==
  /\ ~codes[i].expired
  /\ codes' = [codes EXCEPT ![i].expired = TRUE]
  /\ UNCHANGED <<contracts, docs, pay, gradesFinal, call, overlap, calls, crashes>>

\* The professor's grades become final, or one is opened again (ExamGrades).
GradesChange ==
  /\ gradesFinal' = ~gradesFinal
  /\ UNCHANGED <<papers, pay, call, overlap, calls, crashes>>

\* The server stops in the middle of a call: an open transaction rolls back.
Crash(k) ==
  /\ call[k] # Idle
  /\ crashes < MaxCrashes
  /\ crashes' = crashes + 1
  /\ IF holder = k THEN Released ELSE UNCHANGED <<holder, held>>
  /\ call' = [call EXCEPT ![k] = Idle]
  /\ UNCHANGED <<papers, statements, payments, gradesFinal, overlap, calls>>

-----------------------------------------------------------------------------
Init ==
  /\ contracts = 0 /\ docs = <<>> /\ codes = <<>>
  /\ statements = <<>> /\ holder = NoSession /\ held = {} /\ payments = <<>>
  /\ gradesFinal \in BOOLEAN
  /\ call = [k \in Session |-> Idle]
  /\ overlap \in BOOLEAN /\ calls = 0 /\ crashes = 0

Sign(k) ==
  \/ \E then \in {"view", "ask", "sign"} : EnsureContract(k, then)
  \/ \E d \in DOMAIN docs : AskInboxCode(k, d) \/ OpenInbox(k, d)
  \/ \E right \in BOOLEAN : CheckCode(k, right)
  \/ InsertContract(k) \/ InsertDocument(k) \/ IssueCode(k)
  \/ RefuseCode(k) \/ CountAttempt(k) \/ SignInbox(k) \/ UseCode(k) \/ SignPage(k) \/ InsertSignature(k)

Payroll(k) ==
  \/ \E net \in Net : ReadTerm(k, net)
  \/ \E to \in StatementStatus \ {"DRAFT"} : LockStatement(k, to)
  \/ InsertStatement(k) \/ UpdateStatement(k)
  \/ CheckGrades(k) \/ CheckPapers(k) \/ RefuseSettlement(k) \/ Pay(k)

Next ==
  \/ \E k \in Session : Sign(k) \/ Payroll(k) \/ Crash(k)
  \/ \E i \in DOMAIN codes : Expire(i)
  \/ GradesChange

Spec == Init /\ [][Next]_vars

-----------------------------------------------------------------------------
(* Properties.                                                              *)

TypeOK ==
  /\ contracts \in 0..MaxRows
  /\ docs \in Seq([signed : BOOLEAN, signatures : Nat])
  /\ codes \in Seq([kind : CodeKind, doc : DOMAIN docs, used : BOOLEAN, tries : 0..MaxAttempts,
                    locked : BOOLEAN, expired : BOOLEAN])
  /\ statements \in Seq([contract : 1..contracts, status : StatementStatus, net : Net,
                         midterm : Nat, final : Nat])
  /\ holder \in Session \union {NoSession}
  /\ held \subseteq 1..contracts
  /\ payments \in Seq([row : DOMAIN statements, to : StatementStatus, amount : Nat, net : Net, papers : Nat])

PaidFor(i, to) == {p \in DOMAIN payments : payments[p].row = i /\ payments[p].to = to}

\* A statement is paid an advance at most once and settled at most once, the advance
\* first; its columns tell what was paid, and a settlement pays exactly what the
\* advance left of the net amount it read.  Of computations that do not overlap
\* there is one statement, whatever contracts exist (payMidterm, settleFinal,
\* computeTermPayroll).
PaidOnce ==
  /\ \A i \in DOMAIN statements :
       /\ \A to \in StatementStatus : Cardinality(PaidFor(i, to)) <= 1
       /\ \A p \in PaidFor(i, "MID_TERM_PAID"), q \in PaidFor(i, "FINAL_SETTLED") : p < q
       /\ \A p \in PaidFor(i, "MID_TERM_PAID") : statements[i].midterm = payments[p].amount
       /\ \A p \in PaidFor(i, "FINAL_SETTLED") :
            /\ statements[i].final = payments[p].amount
            /\ \/ statements[i].midterm + payments[p].amount = payments[p].net
               \/ statements[i].midterm > payments[p].net /\ payments[p].amount = 0
  /\ ~overlap => Len(statements) <= 1

\* Who has been settled with had signed every document there was at the time, and
\* none of those signatures is ever taken back (settleFinal's gate against every
\* way a document changes).
SettledWithSignedPapers ==
  \A p \in DOMAIN payments :
    payments[p].to = "FINAL_SETTLED" => \A d \in 1..payments[p].papers : docs[d].signed
=============================================================================
