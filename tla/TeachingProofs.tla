---------------------------- MODULE TeachingProofs ----------------------------
(***************************************************************************)
(* Theorems of TeachingTerm, for any number of overlapping calls, any net   *)
(* amounts and percentage, and every bound.                                 *)
(***************************************************************************)
EXTENDS TeachingTerm, FiniteSetTheorems, SequenceTheorems, TLAPS

Paid == {"MID_TERM_PAID", "FINAL_SETTLED"}

DocRow == [signed : BOOLEAN, signatures : Nat]
CodeRow == [kind : CodeKind, doc : Nat, used : BOOLEAN, tries : 0..MaxAttempts,
            locked : BOOLEAN, expired : BOOLEAN]
StatementRow == [contract : Nat, status : StatementStatus, net : Net, midterm : Nat, final : Nat]
PaymentRow == [row : Nat, to : StatementStatus, amount : Nat, net : Net, papers : Nat]

\* The papers; a code that is not locked has tries left.
PapersOK ==
  /\ contracts \in 0..MaxRows
  /\ docs \in Seq(DocRow)
  /\ codes \in Seq(CodeRow)
  /\ \A i \in DOMAIN codes :
       /\ codes[i].doc \in DOMAIN docs
       /\ codes[i].locked \/ codes[i].tries < MaxAttempts

\* The statements and what holds them.
StatementsOK ==
  /\ statements \in Seq(StatementRow)
  /\ \A i \in DOMAIN statements : statements[i].contract \in 1..contracts
  /\ holder \in Session \union {NoSession}
  /\ held \subseteq 1..contracts

\* The payments of a statement against its status and its columns.
PaymentsOK ==
  /\ payments \in Seq(PaymentRow)
  /\ \A p \in DOMAIN payments :
       LET s == statements[payments[p].row]
       IN /\ payments[p].row \in DOMAIN statements
          /\ payments[p].to \in Paid
          /\ payments[p].to = "MID_TERM_PAID" => s.status # "DRAFT" /\ s.midterm = payments[p].amount
          /\ payments[p].to = "FINAL_SETTLED" =>
               /\ s.status = "FINAL_SETTLED"
               /\ s.final = payments[p].amount
               /\ \/ s.midterm + payments[p].amount = payments[p].net
                  \/ s.midterm > payments[p].net /\ payments[p].amount = 0
  /\ \A p, q \in DOMAIN payments :
       payments[p].row = payments[q].row =>
         /\ payments[p].to = payments[q].to => p = q
         /\ payments[p].to = "MID_TERM_PAID" /\ payments[q].to = "FINAL_SETTLED" => p < q

\* What a call brings from one step to the next; a payment still holds the statement
\* it locked, as it read it.
SignCallOK(k) ==
  LET x == call[k]
  IN /\ x.pc \in {"contract", "document"} =>
          DOMAIN x = {"pc", "then"} /\ x.then \in {"view", "ask", "sign"}
     /\ x.pc \in {"issue", "check"} => x.kind \in CodeKind /\ x.doc \in DOMAIN docs
     /\ x.pc \in {"right", "wrong", "sign", "signature"} =>
          /\ DOMAIN x = {"pc", "kind", "doc", "code", "tries"}
          /\ x.kind \in CodeKind /\ x.doc \in DOMAIN docs /\ x.code \in DOMAIN codes
          /\ x.tries \in 0..(MaxAttempts - 1)

PayCallOK(k) ==
  LET x == call[k]
  IN /\ x.pc = "insert" =>
          /\ x.contract \in 1..contracts /\ x.net \in Net
          /\ ~overlap => statements = <<>>
     /\ x.pc = "update" => x.row \in DOMAIN statements /\ x.net \in Net
     /\ x.pc \in {"grades", "documents", "pay"} =>
          /\ DOMAIN x = {"pc", "row", "to", "net", "paid", "papers"}
          /\ holder = k
          /\ x.row \in DOMAIN statements /\ x.to \in Paid /\ x.net \in Net
          /\ Payable(statements[x.row].status, x.to)
          /\ x.paid = statements[x.row].midterm
          /\ x.papers \in 0..Len(docs)
          /\ \A d \in 1..x.papers : docs[d].signed

CallInv ==
  /\ DOMAIN call = Session
  /\ \A k \in Session : SignCallOK(k) /\ PayCallOK(k)
  /\ ~overlap => \A j, k \in Session : call[j] # Idle /\ call[k] # Idle => j = k

OneStatement == ~overlap => Len(statements) <= 1

\* The inductive invariant.
IInv ==
  /\ PapersOK /\ StatementsOK /\ PaymentsOK
  /\ SettledWithSignedPapers /\ OneStatement /\ CallInv
  /\ \A p \in DOMAIN payments : payments[p].papers <= Len(docs)

-----------------------------------------------------------------------------
\* The rows of the four sequences.
LEMMA Rows ==
  ASSUME PapersOK, StatementsOK, PaymentsOK
  PROVE  /\ Len(docs) \in Nat /\ DOMAIN docs = 1..Len(docs) /\ docs \in [1..Len(docs) -> DocRow]
         /\ Len(codes) \in Nat /\ DOMAIN codes = 1..Len(codes) /\ codes \in [1..Len(codes) -> CodeRow]
         /\ Len(statements) \in Nat /\ DOMAIN statements = 1..Len(statements)
         /\ statements \in [1..Len(statements) -> StatementRow]
         /\ Len(payments) \in Nat /\ DOMAIN payments = 1..Len(payments)
         /\ payments \in [1..Len(payments) -> PaymentRow]
BY LenProperties DEF PapersOK, StatementsOK, PaymentsOK

\* Replacing one row of a sequence leaves a sequence of the same length.
LEMMA ReplaceRow ==
  ASSUME NEW S, NEW s \in Seq(S), NEW i, NEW e \in S
  PROVE  /\ [s EXCEPT ![i] = e] \in Seq(S)
         /\ DOMAIN [s EXCEPT ![i] = e] = DOMAIN s
         /\ Len([s EXCEPT ![i] = e]) = Len(s)
         /\ \A j \in DOMAIN s : [s EXCEPT ![i] = e][j] = IF j = i THEN e ELSE s[j]
<1> DEFINE t == [s EXCEPT ![i] = e]
<1>1. Len(s) \in Nat /\ DOMAIN s = 1..Len(s) /\ s \in [1..Len(s) -> S]
  BY LenProperties
<1>2. t \in [1..Len(s) -> S]
  BY <1>1
<1>3. t \in Seq(S) /\ DOMAIN t = 1..Len(s)
  BY <1>1, <1>2, SeqDef
<1>4. Len(t) = Len(s)
  BY <1>1, <1>3, LenProperties
<1>5. \A j \in DOMAIN s : t[j] = IF j = i THEN e ELSE s[j]
  BY <1>1
<1> QED BY <1>1, <1>3, <1>4, <1>5

\* Appending a row leaves the others where they are.
LEMMA AppendRow ==
  ASSUME NEW S, NEW s \in Seq(S), NEW e \in S
  PROVE  /\ Append(s, e) \in Seq(S)
         /\ Len(s) \in Nat /\ Len(Append(s, e)) = Len(s) + 1
         /\ DOMAIN s = 1..Len(s) /\ DOMAIN Append(s, e) = 1..(Len(s) + 1)
         /\ \A j \in DOMAIN s : Append(s, e)[j] = s[j]
         /\ Append(s, e)[Len(s) + 1] = e
BY LenProperties, AppendProperties

-----------------------------------------------------------------------------
\* Beginning or continuing a call changes that call only, and of calls that do not
\* overlap none other is under way.
LEMMA OneCall ==
  ASSUME CallInv, NEW k \in Session, NEW x,
         Begin(k, x) \/ (call[k] # Idle /\ Go(k, x))
  PROVE  /\ DOMAIN call' = Session /\ overlap' = overlap
         /\ call'[k] = x
         /\ \A j \in Session : j # k => call'[j] = call[j]
         /\ ~overlap => \A j \in Session : j # k => call[j] = Idle
         /\ ~overlap' => \A j, l \in Session : call'[j] # Idle /\ call'[l] # Idle => j = l
<1>1. /\ overlap' = overlap /\ call' = [call EXCEPT ![k] = x] /\ DOMAIN call = Session
  BY DEF CallInv, Begin, Go
<1>2. ~overlap => \A j \in Session : j # k => call[j] = Idle
  BY DEF CallInv, Begin
<1>3. /\ DOMAIN call' = Session /\ call'[k] = x
      /\ \A j \in Session : j # k => call'[j] = call[j]
  BY <1>1
<1> QED BY <1>1, <1>2, <1>3

\* A call undisturbed by another's step: documents, codes and statements stay, no
\* signature is taken back, and what it holds is not changed.
LEMMA OtherCalls ==
  ASSUME NEW j \in Session, SignCallOK(j), PayCallOK(j), call'[j] = call[j], overlap' = overlap,
         PapersOK, PapersOK', StatementsOK, StatementsOK',
         contracts <= contracts', Len(docs) <= Len(docs'), Len(codes) <= Len(codes'),
         Len(statements) <= Len(statements'),
         \A d \in DOMAIN docs : docs[d].signed => docs'[d].signed,
         holder = j =>
           /\ holder' = j
           /\ \A i \in DOMAIN statements :
                statements'[i].status = statements[i].status /\ statements'[i].midterm = statements[i].midterm,
         ~overlap => call[j] = Idle
  PROVE  SignCallOK(j)' /\ PayCallOK(j)'
<1>1. /\ Len(docs) \in Nat /\ Len(docs') \in Nat /\ DOMAIN docs = 1..Len(docs) /\ DOMAIN docs' = 1..Len(docs')
      /\ Len(codes) \in Nat /\ Len(codes') \in Nat /\ DOMAIN codes = 1..Len(codes) /\ DOMAIN codes' = 1..Len(codes')
      /\ Len(statements) \in Nat /\ Len(statements') \in Nat
      /\ DOMAIN statements = 1..Len(statements) /\ DOMAIN statements' = 1..Len(statements')
  BY LenProperties DEF PapersOK, StatementsOK
<1>2. DOMAIN docs \subseteq DOMAIN docs' /\ DOMAIN codes \subseteq DOMAIN codes'
      /\ DOMAIN statements \subseteq DOMAIN statements'
  BY <1>1
<1>3. 1..contracts \subseteq 1..contracts'
  BY DEF PapersOK
<1>4. SignCallOK(j)'
  BY <1>2 DEF SignCallOK
<1>5. PayCallOK(j)'
  <2>1. call[j].pc = "insert" => overlap
    BY DEF Idle
  <2>2. ASSUME call[j].pc \in {"grades", "documents", "pay"}
        PROVE  /\ holder' = j
               /\ statements'[call[j].row].status = statements[call[j].row].status
               /\ statements'[call[j].row].midterm = statements[call[j].row].midterm
               /\ call[j].papers \in 0..Len(docs')
               /\ \A d \in 1..call[j].papers : docs'[d].signed
    <3>1. holder = j /\ call[j].row \in DOMAIN statements /\ call[j].papers \in 0..Len(docs)
          /\ \A d \in 1..call[j].papers : docs[d].signed
      BY <2>2 DEF PayCallOK
    <3>2. \A d \in 1..call[j].papers : d \in DOMAIN docs
      BY <1>1, <3>1
    <3>3. call[j].papers \in 0..Len(docs')
      BY <1>1, <3>1
    <3>4. \A d \in 1..call[j].papers : docs'[d].signed
      BY <3>1, <3>2
    <3> QED BY <3>1, <3>3, <3>4
  <2> QED BY <1>2, <1>3, <2>1, <2>2 DEF PayCallOK
<1> QED BY <1>4, <1>5

\* An idle call brings nothing.
LEMMA IdleCall ==
  ASSUME NEW k \in Session, call'[k] = Idle
  PROVE  SignCallOK(k)' /\ PayCallOK(k)'
BY DEF SignCallOK, PayCallOK, Idle

\* Payments stay as they are when rows are added, and only net amounts change.
LEMMA PaymentsFrame ==
  ASSUME IInv, UNCHANGED payments, StatementsOK', PapersOK',
         Len(statements) <= Len(statements'),
         \A i \in DOMAIN statements :
           /\ statements'[i].status = statements[i].status
           /\ statements'[i].midterm = statements[i].midterm /\ statements'[i].final = statements[i].final,
         Len(docs) <= Len(docs'),
         \A d \in DOMAIN docs : docs[d].signed => docs'[d].signed
  PROVE  PaymentsOK' /\ SettledWithSignedPapers' /\ \A p \in DOMAIN payments' : payments'[p].papers <= Len(docs')
<1>1. /\ Len(docs) \in Nat /\ Len(docs') \in Nat /\ DOMAIN docs = 1..Len(docs)
      /\ Len(statements) \in Nat /\ Len(statements') \in Nat
      /\ DOMAIN statements = 1..Len(statements) /\ DOMAIN statements' = 1..Len(statements')
      /\ DOMAIN payments = 1..Len(payments) /\ payments \in [1..Len(payments) -> PaymentRow]
  BY LenProperties DEF IInv, PapersOK, StatementsOK, PaymentsOK
<1>2. PaymentsOK'
  <2>1. \A p \in DOMAIN payments : payments[p].row \in DOMAIN statements /\ payments[p].row \in DOMAIN statements'
    BY <1>1 DEF IInv, PaymentsOK
  <2> QED BY <2>1 DEF IInv, PaymentsOK
<1>3. \A p \in DOMAIN payments : payments[p].papers \in Nat /\ payments[p].papers <= Len(docs)
  BY <1>1 DEF IInv, PaymentRow
<1>4. SettledWithSignedPapers'
  BY <1>1, <1>3 DEF IInv, SettledWithSignedPapers
<1> QED BY <1>1, <1>2, <1>3, <1>4

\* What a step of call k must show that makes no payment.
LEMMA StepInv ==
  ASSUME IInv, NEW k \in Session, NEW x, Begin(k, x) \/ (call[k] # Idle /\ Go(k, x)),
         UNCHANGED payments, PapersOK', StatementsOK', OneStatement',
         contracts <= contracts', Len(docs) <= Len(docs'), Len(codes) <= Len(codes'),
         Len(statements) <= Len(statements'),
         \A d \in DOMAIN docs : docs[d].signed => docs'[d].signed,
         \A i \in DOMAIN statements :
           /\ statements'[i].status = statements[i].status
           /\ statements'[i].midterm = statements[i].midterm /\ statements'[i].final = statements[i].final,
         holder # k => holder = NoSession \/ holder' = holder,
         SignCallOK(k)', PayCallOK(k)'
  PROVE  IInv'
<1>1. PaymentsOK' /\ SettledWithSignedPapers' /\ \A p \in DOMAIN payments' : payments'[p].papers <= Len(docs')
  BY PaymentsFrame
<1>2. ASSUME NEW j \in Session, j # k PROVE SignCallOK(j)' /\ PayCallOK(j)'
  <2>1. call'[j] = call[j] /\ overlap' = overlap /\ SignCallOK(j) /\ PayCallOK(j)
    BY <1>2, OneCall DEF IInv, CallInv
  <2>2. ~overlap => call[j] = Idle
    BY <1>2, OneCall DEF IInv
  <2>3. holder = j => holder' = j
    BY <1>2, TeachingAssumption
  <2>4. PapersOK /\ StatementsOK
    BY DEF IInv
  <2> QED BY <2>1, <2>2, <2>3, <2>4, OtherCalls
<1>3. /\ DOMAIN call' = Session
      /\ ~overlap' => \A j, l \in Session : call'[j] # Idle /\ call'[l] # Idle => j = l
  BY OneCall DEF IInv
<1>4. CallInv'
  BY <1>2, <1>3 DEF CallInv
<1> QED BY <1>1, <1>4 DEF IInv

\* What a step of call k must show that changes papers only.
LEMMA SignStepInv ==
  ASSUME IInv, NEW k \in Session, NEW x, Begin(k, x) \/ (call[k] # Idle /\ Go(k, x)),
         UNCHANGED pay, PapersOK',
         contracts <= contracts', Len(docs) <= Len(docs'), Len(codes) <= Len(codes'),
         \A d \in DOMAIN docs : docs[d].signed => docs'[d].signed,
         SignCallOK(k)', PayCallOK(k)'
  PROVE  IInv'
<1>1. UNCHANGED <<statements, holder, held, payments>>
  BY DEF pay
<1>2. 1..contracts \subseteq 1..contracts'
  BY DEF IInv, PapersOK
<1>3. StatementsOK'
  BY <1>1, <1>2 DEF IInv, StatementsOK
<1>4. Len(statements) \in Nat
  BY Rows DEF IInv
<1>5. OneStatement'
  BY <1>1, OneCall DEF IInv, OneStatement
<1> QED BY <1>1, <1>3, <1>4, <1>5, StepInv

\* What a step of call k must show that changes nothing but that call.
LEMMA CallStepInv ==
  ASSUME IInv, NEW k \in Session, NEW x, Begin(k, x) \/ (call[k] # Idle /\ Go(k, x)),
         UNCHANGED <<papers, pay>>, SignCallOK(k)', PayCallOK(k)'
  PROVE  IInv'
<1>1. UNCHANGED <<contracts, docs, codes>> /\ PapersOK'
  BY DEF papers, IInv, PapersOK
<1>2. Len(docs) \in Nat /\ Len(codes) \in Nat /\ contracts \in Nat
  BY Rows DEF IInv, PapersOK
<1> QED BY <1>1, <1>2, SignStepInv

\* A step named in the call is taken by a call that is under way.
LEMMA UnderWay ==
  ASSUME NEW k \in Session, call[k].pc # "idle"
  PROVE  call[k] # Idle
BY DEF Idle

-----------------------------------------------------------------------------
\* The initial state is the start of a term.
THEOREM InitIInv == Init => IInv
<1> SUFFICES ASSUME Init PROVE IInv
  OBVIOUS
<1>1. /\ docs \in Seq(DocRow) /\ codes \in Seq(CodeRow) /\ statements \in Seq(StatementRow)
      /\ payments \in Seq(PaymentRow) /\ Len(statements) = 0
      /\ DOMAIN docs = {} /\ DOMAIN codes = {} /\ DOMAIN statements = {} /\ DOMAIN payments = {}
  BY EmptySeq DEF Init
<1>2. PapersOK /\ StatementsOK /\ PaymentsOK /\ SettledWithSignedPapers /\ OneStatement
  BY <1>1, TeachingAssumption DEF Init, PapersOK, StatementsOK, PaymentsOK, SettledWithSignedPapers, OneStatement
<1>3. CallInv
  BY DEF Init, CallInv, SignCallOK, PayCallOK, Idle
<1> QED BY <1>1, <1>2, <1>3 DEF IInv

-----------------------------------------------------------------------------
\* What a caller goes on with after the document is found or made.
LEMMA AfterOK ==
  ASSUME NEW k \in Session, NEW then \in {"view", "ask", "sign"}, NEW d \in DOMAIN docs',
         call'[k] = After(then, d)
  PROVE  SignCallOK(k)' /\ PayCallOK(k)'
<1>1. CASE then = "view"
  BY <1>1, IdleCall DEF After
<1>2. CASE then \in {"ask", "sign"}
  <2>1. call'[k].pc \in {"issue", "check"} /\ call'[k].kind \in CodeKind /\ call'[k].doc = d
    BY <1>2 DEF After, CodeKind
  <2> QED BY <2>1 DEF SignCallOK, PayCallOK
<1> QED BY <1>1, <1>2

\* The contract and its document.
LEMMA EnsureContractInv ==
  ASSUME IInv, NEW k \in Session, NEW then \in {"view", "ask", "sign"}, EnsureContract(k, then)
  PROVE  IInv'
<1>1. UNCHANGED <<papers, pay>> /\ docs' = docs
  BY DEF EnsureContract, papers
<1>2. ASSUME Begin(k, [pc |-> "contract", then |-> then]) PROVE IInv'
  <2>1. call'[k] = [pc |-> "contract", then |-> then]
    BY <1>2, OneCall DEF IInv
  <2>2. SignCallOK(k)' /\ PayCallOK(k)'
    BY <2>1 DEF SignCallOK, PayCallOK
  <2> QED BY <1>1, <1>2, <2>2, CallStepInv
<1>3. ASSUME NEW d \in DOMAIN docs, Begin(k, After(then, d)) PROVE IInv'
  <2>1. call'[k] = After(then, d)
    BY <1>3, OneCall DEF IInv
  <2>2. SignCallOK(k)' /\ PayCallOK(k)'
    BY <1>1, <2>1, AfterOK
  <2> QED BY <1>1, <1>3, <2>2, CallStepInv
<1> QED BY <1>2, <1>3 DEF EnsureContract

\* A contract is added; its document is to come.
LEMMA InsertContractInv ==
  ASSUME IInv, NEW k \in Session, InsertContract(k)
  PROVE  IInv'
<1> DEFINE x == [call[k] EXCEPT !.pc = "document"]
<1>1. /\ call[k].pc = "contract" /\ Go(k, x) /\ UNCHANGED <<docs, codes, pay>>
      /\ contracts' = contracts + 1 /\ contracts < MaxRows
  BY DEF InsertContract
<1>2. DOMAIN call[k] = {"pc", "then"} /\ call[k].then \in {"view", "ask", "sign"}
  BY <1>1 DEF IInv, CallInv, SignCallOK
<1>3. call[k] # Idle
  BY <1>1, UnderWay
<1>4. call'[k] = x
  BY <1>1, <1>3, OneCall DEF IInv
<1>5. DOMAIN x = {"pc", "then"} /\ x.pc = "document" /\ x.then = call[k].then
  BY <1>2
<1>6. SignCallOK(k)' /\ PayCallOK(k)'
  BY <1>2, <1>4, <1>5 DEF SignCallOK, PayCallOK
<1>7. PapersOK' /\ contracts <= contracts'
  BY <1>1, TeachingAssumption DEF IInv, PapersOK
<1>8. Len(docs) \in Nat /\ Len(codes) \in Nat
  BY Rows DEF IInv
<1> HIDE DEF x
<1> QED BY <1>1, <1>3, <1>6, <1>7, <1>8, SignStepInv

\* A document is added, unsigned; the caller goes on with it.
LEMMA InsertDocumentInv ==
  ASSUME IInv, NEW k \in Session, InsertDocument(k)
  PROVE  IInv'
<1> DEFINE e == [signed |-> FALSE, signatures |-> 0]
           n == Len(docs)
           x == After(call[k].then, n + 1)
<1>1. /\ call[k].pc = "document" /\ Go(k, x) /\ UNCHANGED <<contracts, codes, pay>>
      /\ docs' = Append(docs, e)
  BY DEF InsertDocument
<1>2. call[k].then \in {"view", "ask", "sign"}
  BY <1>1 DEF IInv, CallInv, SignCallOK
<1>3. e \in DocRow /\ docs \in Seq(DocRow)
  BY DEF DocRow, IInv, PapersOK
<1>4. /\ docs' \in Seq(DocRow) /\ n \in Nat /\ Len(docs') = n + 1
      /\ DOMAIN docs = 1..n /\ DOMAIN docs' = 1..(n + 1)
      /\ \A d \in DOMAIN docs : docs'[d] = docs[d]
  BY <1>1, <1>3, AppendRow
<1>5. call[k] # Idle
  BY <1>1, UnderWay
<1>6. call'[k] = x
  BY <1>1, <1>5, OneCall DEF IInv
<1>7. n + 1 \in DOMAIN docs'
  BY <1>4
<1>8. SignCallOK(k)' /\ PayCallOK(k)'
  BY <1>2, <1>6, <1>7, AfterOK
<1>9. PapersOK'
  BY <1>1, <1>4 DEF IInv, PapersOK
<1>10. Len(codes) \in Nat /\ contracts \in Nat
  BY Rows DEF IInv, PapersOK
<1>11. \A d \in DOMAIN docs : docs[d].signed => docs'[d].signed
  BY <1>4
<1>12. contracts <= contracts' /\ Len(docs) <= Len(docs') /\ Len(codes) <= Len(codes')
  BY <1>1, <1>4, <1>10
<1> HIDE DEF x
<1> QED BY <1>1, <1>5, <1>8, <1>9, <1>11, <1>12, SignStepInv

-----------------------------------------------------------------------------
\* A code is asked for, or a document opened to be signed, in the inbox.
LEMMA InboxInv ==
  ASSUME IInv, NEW k \in Session, NEW d \in DOMAIN docs, AskInboxCode(k, d) \/ OpenInbox(k, d)
  PROVE  IInv'
<1>1. PICK pc \in {"issue", "check"} : Begin(k, [pc |-> pc, kind |-> "INBOX", doc |-> d])
  BY DEF AskInboxCode, OpenInbox
<1>2. UNCHANGED <<papers, pay>> /\ docs' = docs
  BY DEF AskInboxCode, OpenInbox, papers
<1>3. call'[k] = [pc |-> pc, kind |-> "INBOX", doc |-> d]
  BY <1>1, OneCall DEF IInv
<1>4. SignCallOK(k)' /\ PayCallOK(k)'
  BY <1>2, <1>3 DEF SignCallOK, PayCallOK, CodeKind
<1> QED BY <1>1, <1>2, <1>4, CallStepInv

\* A code is inserted with all its tries left.
LEMMA IssueCodeInv ==
  ASSUME IInv, NEW k \in Session, IssueCode(k)
  PROVE  IInv'
<1> DEFINE e == [kind |-> call[k].kind, doc |-> call[k].doc, used |-> FALSE,
                 tries |-> 0, locked |-> FALSE, expired |-> FALSE]
           n == Len(codes)
<1>1. /\ call[k].pc = "issue" /\ Go(k, Idle) /\ UNCHANGED <<contracts, docs, pay>>
      /\ codes' = Append(codes, e)
  BY DEF IssueCode
<1>2. call[k].kind \in CodeKind /\ call[k].doc \in DOMAIN docs
  BY <1>1 DEF IInv, CallInv, SignCallOK
<1>3. e \in CodeRow /\ codes \in Seq(CodeRow) /\ e.doc \in DOMAIN docs /\ e.tries < MaxAttempts
  <2>1. call[k].doc \in Nat
    BY <1>2, Rows DEF IInv
  <2> QED BY <1>2, <2>1, TeachingAssumption DEF CodeRow, IInv, PapersOK
<1>4. /\ codes' \in Seq(CodeRow) /\ n \in Nat /\ Len(codes') = n + 1
      /\ DOMAIN codes = 1..n /\ DOMAIN codes' = 1..(n + 1) /\ codes'[n + 1] = e
      /\ \A i \in DOMAIN codes : codes'[i] = codes[i]
  BY <1>1, <1>3, AppendRow
<1>5. call[k] # Idle
  BY <1>1, UnderWay
<1>6. SignCallOK(k)' /\ PayCallOK(k)'
  BY <1>1, <1>5, OneCall, IdleCall DEF IInv
<1>7. \A i \in DOMAIN codes' : codes'[i].doc \in DOMAIN docs /\ (codes'[i].locked \/ codes'[i].tries < MaxAttempts)
  <2> HIDE DEF e
  <2> QED BY <1>3, <1>4 DEF IInv, PapersOK
<1>8. PapersOK'
  BY <1>1, <1>4, <1>7 DEF IInv, PapersOK
<1>9. Len(docs) \in Nat /\ contracts \in Nat
  BY Rows DEF IInv, PapersOK
<1>10. contracts <= contracts' /\ Len(docs) <= Len(docs') /\ Len(codes) <= Len(codes')
  BY <1>1, <1>4, <1>9
<1> QED BY <1>1, <1>5, <1>6, <1>8, <1>10, SignStepInv

\* A code is compared, or refused.
LEMMA CheckCodeInv ==
  ASSUME IInv, NEW k \in Session, NEW right \in BOOLEAN, CheckCode(k, right)
  PROVE  IInv'
<1>1. call[k].pc = "check" /\ UNCHANGED <<papers, pay>> /\ docs' = docs /\ codes' = codes
  BY DEF CheckCode, papers
<1>2. PICK i \in DOMAIN codes :
        /\ ~codes[i].locked
        /\ Go(k, [pc |-> IF right THEN "right" ELSE "wrong", kind |-> call[k].kind,
                  doc |-> call[k].doc, code |-> i, tries |-> codes[i].tries])
  BY DEF CheckCode, Picked, CodesOf, Usable
<1> DEFINE x == [pc |-> IF right THEN "right" ELSE "wrong", kind |-> call[k].kind,
                 doc |-> call[k].doc, code |-> i, tries |-> codes[i].tries]
<1>3. call[k].kind \in CodeKind /\ call[k].doc \in DOMAIN docs
  BY <1>1 DEF IInv, CallInv, SignCallOK
<1>4. codes[i].tries \in 0..(MaxAttempts - 1)
  <2>1. codes[i] \in CodeRow
    BY Rows DEF IInv
  <2>2. codes[i].tries < MaxAttempts
    BY <1>2 DEF IInv, PapersOK
  <2> QED BY <2>1, <2>2, TeachingAssumption DEF CodeRow
<1>5. call[k] # Idle
  BY <1>1, UnderWay
<1>6. call'[k] = x
  BY <1>2, <1>5, OneCall DEF IInv
<1>7. SignCallOK(k)' /\ PayCallOK(k)'
  <2>1. call'[k].pc \in {"right", "wrong"} /\ DOMAIN call'[k] = {"pc", "kind", "doc", "code", "tries"}
    BY <1>6
  <2>2. call'[k].kind = call[k].kind /\ call'[k].doc = call[k].doc /\ call'[k].code = i /\ call'[k].tries = codes[i].tries
    BY <1>6
  <2> QED BY <1>1, <1>3, <1>4, <2>1, <2>2 DEF SignCallOK, PayCallOK
<1> QED BY <1>1, <1>2, <1>5, <1>7, CallStepInv

\* A code that cannot be used ends the call.
LEMMA RefuseCodeInv ==
  ASSUME IInv, NEW k \in Session, RefuseCode(k)
  PROVE  IInv'
<1>1. call[k] # Idle /\ Go(k, Idle) /\ UNCHANGED <<papers, pay>>
  BY UnderWay DEF RefuseCode
<1>2. SignCallOK(k)' /\ PayCallOK(k)'
  BY <1>1, OneCall, IdleCall DEF IInv
<1> QED BY <1>1, <1>2, CallStepInv

-----------------------------------------------------------------------------
\* A code that is replaced by one with the same document and, unless it is locked,
\* tries left.
LEMMA ChangeCode ==
  ASSUME PapersOK, NEW i \in DOMAIN codes, NEW e \in CodeRow, e.doc = codes[i].doc,
         e.locked \/ e.tries < MaxAttempts, codes' = [codes EXCEPT ![i] = e],
         contracts' = contracts, docs' \in Seq(DocRow), DOMAIN docs' = DOMAIN docs
  PROVE  PapersOK' /\ Len(codes') = Len(codes)
<1>1. codes' \in Seq(CodeRow) /\ Len(codes') = Len(codes) /\ DOMAIN codes' = DOMAIN codes
      /\ \A j \in DOMAIN codes : codes'[j] = IF j = i THEN e ELSE codes[j]
  BY ReplaceRow DEF PapersOK
<1>2. \A j \in DOMAIN codes' : codes'[j].doc \in DOMAIN docs' /\ (codes'[j].locked \/ codes'[j].tries < MaxAttempts)
  BY <1>1 DEF PapersOK
<1> QED BY <1>1, <1>2 DEF PapersOK

\* The code that is marked used.
LEMMA MarkUsed ==
  ASSUME PapersOK, NEW i \in DOMAIN codes, codes[i] \in CodeRow,
         codes' = [codes EXCEPT ![i].used = TRUE],
         contracts' = contracts, docs' \in Seq(DocRow), DOMAIN docs' = DOMAIN docs
  PROVE  PapersOK' /\ Len(codes') = Len(codes)
<1> DEFINE e == [codes[i] EXCEPT !.used = TRUE]
<1>1. e \in CodeRow /\ e.doc = codes[i].doc /\ e.locked = codes[i].locked /\ e.tries = codes[i].tries
  BY DEF CodeRow
<1>2. codes' = [codes EXCEPT ![i] = e]
  OBVIOUS
<1>3. e.locked \/ e.tries < MaxAttempts
  BY <1>1 DEF PapersOK
<1> HIDE DEF e
<1> QED BY <1>1, <1>2, <1>3, ChangeCode

\* What a call that signs brings.
LEMMA SigningCall ==
  ASSUME IInv, NEW k \in Session, call[k].pc \in {"right", "wrong", "sign", "signature"}
  PROVE  /\ call[k] # Idle
         /\ DOMAIN call[k] = {"pc", "kind", "doc", "code", "tries"}
         /\ call[k].kind \in CodeKind
         /\ call[k].doc \in DOMAIN docs /\ docs[call[k].doc] \in DocRow
         /\ call[k].code \in DOMAIN codes /\ codes[call[k].code] \in CodeRow
         /\ call[k].tries \in 0..(MaxAttempts - 1)
         /\ Len(docs) \in Nat /\ Len(codes) \in Nat /\ contracts \in Nat
<1>1. SignCallOK(k) /\ call[k] # Idle
  BY UnderWay DEF IInv, CallInv
<1> QED BY <1>1, Rows DEF SignCallOK, IInv, PapersOK

\* A wrong code counts, and locks the code at the last attempt.
LEMMA CountAttemptInv ==
  ASSUME IInv, NEW k \in Session, CountAttempt(k)
  PROVE  IInv'
<1> DEFINE i == call[k].code
           attempts == call[k].tries + 1
           lock == attempts >= MaxAttempts \/ (codes[i].locked /\ call[k].kind = "INBOX")
           e == [codes[i] EXCEPT !.tries = attempts, !.locked = lock]
<1>1. /\ call[k].pc = "wrong" /\ Go(k, Idle) /\ UNCHANGED <<contracts, docs, pay>>
      /\ codes' = [codes EXCEPT ![i] = e]
  BY DEF CountAttempt
<1>2. /\ call[k] # Idle /\ i \in DOMAIN codes /\ codes[i] \in CodeRow
      /\ call[k].tries \in 0..(MaxAttempts - 1)
      /\ Len(docs) \in Nat /\ Len(codes) \in Nat /\ contracts \in Nat
  BY <1>1, SigningCall
<1>3. attempts \in 0..MaxAttempts /\ lock \in BOOLEAN /\ (lock \/ attempts < MaxAttempts)
  BY <1>2, TeachingAssumption
<1>4. e \in CodeRow /\ e.doc = codes[i].doc /\ e.locked = lock /\ e.tries = attempts
  <2> HIDE DEF lock, attempts
  <2> QED BY <1>2, <1>3 DEF CodeRow
<1>5. PapersOK' /\ Len(codes') = Len(codes)
  <2>1. PapersOK /\ docs' \in Seq(DocRow) /\ DOMAIN docs' = DOMAIN docs
    BY <1>1 DEF IInv, PapersOK
  <2> HIDE DEF e, lock, attempts, i
  <2> QED BY <1>1, <1>2, <1>3, <1>4, <2>1, ChangeCode
<1>6. SignCallOK(k)' /\ PayCallOK(k)'
  BY <1>1, <1>2, OneCall, IdleCall DEF IInv
<1> QED BY <1>1, <1>2, <1>5, <1>6, SignStepInv

\* A document whose row is replaced by one that is signed, or as signed as before.
LEMMA ChangeDoc ==
  ASSUME docs \in Seq(DocRow), NEW d \in DOMAIN docs, NEW e \in DocRow,
         docs[d].signed => e.signed, docs' = [docs EXCEPT ![d] = e]
  PROVE  /\ docs' \in Seq(DocRow) /\ DOMAIN docs' = DOMAIN docs /\ Len(docs') = Len(docs)
         /\ \A c \in DOMAIN docs : docs[c].signed => docs'[c].signed
<1>1. /\ docs' \in Seq(DocRow) /\ DOMAIN docs' = DOMAIN docs /\ Len(docs') = Len(docs)
      /\ \A c \in DOMAIN docs : docs'[c] = IF c = d THEN e ELSE docs[c]
  BY ReplaceRow
<1> QED BY <1>1

\* The inbox signs in one transaction.
LEMMA SignInboxInv ==
  ASSUME IInv, NEW k \in Session, SignInbox(k)
  PROVE  IInv'
<1> DEFINE d == call[k].doc
           i == call[k].code
           e == [signed |-> TRUE, signatures |-> docs[d].signatures + 1]
<1>1. /\ call[k].pc = "right" /\ Go(k, Idle) /\ UNCHANGED <<contracts, pay>>
      /\ codes' = [codes EXCEPT ![i].used = TRUE] /\ docs' = [docs EXCEPT ![d] = e]
  BY DEF SignInbox
<1>2. /\ call[k] # Idle /\ i \in DOMAIN codes /\ codes[i] \in CodeRow
      /\ d \in DOMAIN docs /\ docs[d] \in DocRow
      /\ Len(docs) \in Nat /\ Len(codes) \in Nat /\ contracts \in Nat
  BY <1>1, SigningCall
<1>3. e \in DocRow /\ e.signed
  BY <1>2 DEF DocRow
<1>4. PapersOK /\ docs \in Seq(DocRow)
  BY DEF IInv, PapersOK
<1>5. /\ docs' \in Seq(DocRow) /\ DOMAIN docs' = DOMAIN docs /\ Len(docs') = Len(docs)
      /\ \A c \in DOMAIN docs : docs[c].signed => docs'[c].signed
  <2> HIDE DEF e, d
  <2> QED BY <1>1, <1>2, <1>3, <1>4, ChangeDoc
<1>6. PapersOK' /\ Len(codes') = Len(codes)
  <2> HIDE DEF i
  <2> QED BY <1>1, <1>2, <1>4, <1>5, MarkUsed
<1>7. SignCallOK(k)' /\ PayCallOK(k)'
  BY <1>1, <1>2, OneCall, IdleCall DEF IInv
<1>8. contracts <= contracts' /\ Len(docs) <= Len(docs') /\ Len(codes) <= Len(codes')
  BY <1>1, <1>2, <1>5, <1>6
<1> QED BY <1>1, <1>2, <1>5, <1>6, <1>7, <1>8, SignStepInv

\* The page goes from the code to the status to the signature.
LEMMA NextSigningStep ==
  ASSUME IInv, NEW k \in Session, call[k].pc \in {"right", "sign"},
         NEW pc \in {"sign", "signature"}, Go(k, [call[k] EXCEPT !.pc = pc]),
         DOMAIN codes' = DOMAIN codes, DOMAIN docs' = DOMAIN docs
  PROVE  SignCallOK(k)' /\ PayCallOK(k)'
<1> DEFINE x == [call[k] EXCEPT !.pc = pc]
<1>1. /\ call[k] # Idle /\ DOMAIN call[k] = {"pc", "kind", "doc", "code", "tries"}
      /\ call[k].kind \in CodeKind /\ call[k].doc \in DOMAIN docs /\ call[k].code \in DOMAIN codes
      /\ call[k].tries \in 0..(MaxAttempts - 1)
  BY SigningCall
<1>2. call'[k] = x
  BY <1>1, OneCall DEF IInv
<1>3. /\ DOMAIN x = {"pc", "kind", "doc", "code", "tries"} /\ x.pc = pc
      /\ x.kind = call[k].kind /\ x.doc = call[k].doc /\ x.code = call[k].code /\ x.tries = call[k].tries
  BY <1>1
<1> HIDE DEF x
<1> QED BY <1>1, <1>2, <1>3 DEF SignCallOK, PayCallOK

\* The page marks the code used and goes on to the status.
LEMMA UseCodeInv ==
  ASSUME IInv, NEW k \in Session, UseCode(k)
  PROVE  IInv'
<1> DEFINE i == call[k].code
<1>1. /\ call[k].pc = "right" /\ Go(k, [call[k] EXCEPT !.pc = "sign"]) /\ UNCHANGED <<contracts, docs, pay>>
      /\ codes' = [codes EXCEPT ![i].used = TRUE]
  BY DEF UseCode
<1>2. /\ call[k] # Idle /\ i \in DOMAIN codes /\ codes[i] \in CodeRow
      /\ Len(docs) \in Nat /\ Len(codes) \in Nat /\ contracts \in Nat
  BY <1>1, SigningCall
<1>3. PapersOK' /\ Len(codes') = Len(codes)
  <2>1. PapersOK /\ docs' \in Seq(DocRow) /\ DOMAIN docs' = DOMAIN docs
    BY <1>1 DEF IInv, PapersOK
  <2> HIDE DEF i
  <2> QED BY <1>1, <1>2, <2>1, MarkUsed
<1>4. DOMAIN codes' = DOMAIN codes
  BY <1>1
<1>5. SignCallOK(k)' /\ PayCallOK(k)'
  BY <1>1, <1>4, NextSigningStep
<1> QED BY <1>1, <1>2, <1>3, <1>5, SignStepInv

\* The page sets the document signed and goes on to the signature.
LEMMA SignPageInv ==
  ASSUME IInv, NEW k \in Session, SignPage(k)
  PROVE  IInv'
<1> DEFINE d == call[k].doc
           e == [docs[d] EXCEPT !.signed = TRUE]
<1>1. /\ call[k].pc = "sign" /\ Go(k, [call[k] EXCEPT !.pc = "signature"]) /\ UNCHANGED <<contracts, codes, pay>>
      /\ docs' = [docs EXCEPT ![d] = e]
  BY DEF SignPage
<1>2. /\ call[k] # Idle /\ d \in DOMAIN docs /\ docs[d] \in DocRow
      /\ Len(docs) \in Nat /\ Len(codes) \in Nat /\ contracts \in Nat
  BY <1>1, SigningCall
<1>3. e \in DocRow /\ e.signed
  BY <1>2 DEF DocRow
<1>4. /\ docs' \in Seq(DocRow) /\ DOMAIN docs' = DOMAIN docs /\ Len(docs') = Len(docs)
      /\ \A c \in DOMAIN docs : docs[c].signed => docs'[c].signed
  <2>1. docs \in Seq(DocRow)
    BY DEF IInv, PapersOK
  <2> HIDE DEF e, d
  <2> QED BY <1>1, <1>2, <1>3, <2>1, ChangeDoc
<1>5. PapersOK'
  BY <1>1, <1>4 DEF IInv, PapersOK
<1>6. SignCallOK(k)' /\ PayCallOK(k)'
  BY <1>1, <1>4, NextSigningStep
<1>7. contracts <= contracts' /\ Len(docs) <= Len(docs') /\ Len(codes) <= Len(codes')
  BY <1>1, <1>2, <1>4
<1> QED BY <1>1, <1>2, <1>4, <1>5, <1>6, <1>7, SignStepInv

\* The page counts the signature.
LEMMA InsertSignatureInv ==
  ASSUME IInv, NEW k \in Session, InsertSignature(k)
  PROVE  IInv'
<1> DEFINE d == call[k].doc
           e == [docs[d] EXCEPT !.signatures = @ + 1]
<1>1. /\ call[k].pc = "signature" /\ Go(k, Idle) /\ UNCHANGED <<contracts, codes, pay>>
      /\ docs' = [docs EXCEPT ![d] = e]
  BY DEF InsertSignature
<1>2. /\ call[k] # Idle /\ d \in DOMAIN docs /\ docs[d] \in DocRow
      /\ Len(docs) \in Nat /\ Len(codes) \in Nat /\ contracts \in Nat
  BY <1>1, SigningCall
<1>3. e \in DocRow /\ (docs[d].signed => e.signed)
  BY <1>2 DEF DocRow
<1>4. /\ docs' \in Seq(DocRow) /\ DOMAIN docs' = DOMAIN docs /\ Len(docs') = Len(docs)
      /\ \A c \in DOMAIN docs : docs[c].signed => docs'[c].signed
  <2>1. docs \in Seq(DocRow)
    BY DEF IInv, PapersOK
  <2> HIDE DEF e, d
  <2> QED BY <1>1, <1>2, <1>3, <2>1, ChangeDoc
<1>5. PapersOK'
  BY <1>1, <1>4 DEF IInv, PapersOK
<1>6. SignCallOK(k)' /\ PayCallOK(k)'
  BY <1>1, <1>2, OneCall, IdleCall DEF IInv
<1>7. contracts <= contracts' /\ Len(docs) <= Len(docs') /\ Len(codes) <= Len(codes')
  BY <1>1, <1>2, <1>4
<1> QED BY <1>1, <1>2, <1>4, <1>5, <1>6, <1>7, SignStepInv

-----------------------------------------------------------------------------
\* What a step of call k must show that changes statements and locks only.
LEMMA PayStepInv ==
  ASSUME IInv, NEW k \in Session, NEW x, Begin(k, x) \/ (call[k] # Idle /\ Go(k, x)),
         UNCHANGED <<papers, payments>>, StatementsOK', OneStatement',
         Len(statements) <= Len(statements'),
         \A i \in DOMAIN statements :
           /\ statements'[i].status = statements[i].status
           /\ statements'[i].midterm = statements[i].midterm /\ statements'[i].final = statements[i].final,
         holder # k => holder = NoSession \/ holder' = holder,
         SignCallOK(k)', PayCallOK(k)'
  PROVE  IInv'
<1>1. UNCHANGED <<contracts, docs, codes>> /\ PapersOK'
  BY DEF papers, IInv, PapersOK
<1>2. Len(docs) \in Nat /\ Len(codes) \in Nat /\ contracts \in Nat
  BY Rows DEF IInv, PapersOK
<1> QED BY <1>1, <1>2, StepInv

\* computeTermPayroll: the statement of the professor, or none.
LEMMA ReadTermInv ==
  ASSUME IInv, NEW k \in Session, NEW net \in Net, ReadTerm(k, net)
  PROVE  IInv'
<1>1. /\ UNCHANGED <<papers, pay>>
      /\ UNCHANGED <<contracts, docs, codes, statements, holder>>
  BY DEF ReadTerm, papers, pay
<1>2. ASSUME NEW c \in 1..contracts, Found(c) = {}, Begin(k, [pc |-> "insert", contract |-> c, net |-> net])
      PROVE  IInv'
  <2>1. call'[k] = [pc |-> "insert", contract |-> c, net |-> net]
    BY <1>2, OneCall DEF IInv
  <2>2. DOMAIN statements = {} /\ statements \in Seq(StatementRow)
    BY <1>2 DEF Found, IInv, StatementsOK
  <2>3. statements = <<>>
    BY <2>2, Rows, EmptySeq DEF IInv
  <2>4. SignCallOK(k)' /\ PayCallOK(k)'
    BY <1>1, <2>1, <2>3 DEF SignCallOK, PayCallOK
  <2> QED BY <1>1, <1>2, <2>4, CallStepInv
<1>3. ASSUME NEW i \in DOMAIN statements, Begin(k, [pc |-> "update", row |-> i, net |-> net])
      PROVE  IInv'
  <2>1. call'[k] = [pc |-> "update", row |-> i, net |-> net]
    BY <1>3, OneCall DEF IInv
  <2>2. SignCallOK(k)' /\ PayCallOK(k)'
    BY <1>1, <2>1 DEF SignCallOK, PayCallOK
  <2> QED BY <1>1, <1>3, <2>2, CallStepInv
<1> QED BY <1>2, <1>3 DEF ReadTerm, Found

\* A statement is added; of calls that do not overlap, the first.
LEMMA InsertStatementInv ==
  ASSUME IInv, NEW k \in Session, InsertStatement(k)
  PROVE  IInv'
<1> DEFINE e == [contract |-> call[k].contract, status |-> "DRAFT", net |-> call[k].net, midterm |-> 0, final |-> 0]
           n == Len(statements)
<1>1. /\ call[k].pc = "insert" /\ Go(k, Idle) /\ UNCHANGED <<papers, holder, held, payments>>
      /\ statements' = Append(statements, e) /\ contracts' = contracts
  BY DEF InsertStatement, papers
<1>2. /\ call[k] # Idle /\ call[k].contract \in 1..contracts /\ call[k].net \in Net
      /\ ~overlap => statements = <<>>
  BY <1>1, UnderWay DEF IInv, CallInv, PayCallOK
<1>3. e \in StatementRow /\ e.contract \in 1..contracts /\ statements \in Seq(StatementRow)
  BY <1>2 DEF StatementRow, StatementStatus, IInv, StatementsOK, PapersOK
<1>4. /\ statements' \in Seq(StatementRow) /\ n \in Nat /\ Len(statements') = n + 1
      /\ DOMAIN statements = 1..n /\ DOMAIN statements' = 1..(n + 1) /\ statements'[n + 1] = e
      /\ \A i \in DOMAIN statements : statements'[i] = statements[i]
  BY <1>1, <1>3, AppendRow
<1>5. StatementsOK'
  <2> HIDE DEF e
  <2>1. \A i \in DOMAIN statements' : statements'[i].contract \in 1..contracts
    BY <1>3, <1>4 DEF IInv, StatementsOK
  <2> QED BY <1>1, <1>4, <2>1 DEF IInv, StatementsOK
<1>6. OneStatement'
  <2>1. overlap' = overlap
    BY <1>1 DEF Go
  <2>2. ~overlap => n = 0
    BY <1>2, EmptySeq
  <2> QED BY <1>4, <2>1, <2>2 DEF OneStatement
<1>7. SignCallOK(k)' /\ PayCallOK(k)'
  BY <1>1, <1>2, OneCall, IdleCall DEF IInv
<1>8. /\ n <= Len(statements')
      /\ \A i \in DOMAIN statements :
           /\ statements'[i].status = statements[i].status
           /\ statements'[i].midterm = statements[i].midterm /\ statements'[i].final = statements[i].final
  BY <1>4
<1> QED BY <1>1, <1>2, <1>5, <1>6, <1>7, <1>8, PayStepInv

\* A computation that finds a statement changes its net amount.
LEMMA UpdateStatementInv ==
  ASSUME IInv, NEW k \in Session, UpdateStatement(k)
  PROVE  IInv'
<1> DEFINE r == call[k].row
           e == [statements[r] EXCEPT !.net = call[k].net]
<1>1. /\ call[k].pc = "update" /\ Go(k, Idle) /\ UNCHANGED <<papers, holder, held, payments>>
      /\ statements' = [statements EXCEPT ![r] = e] /\ contracts' = contracts
  BY DEF UpdateStatement, papers
<1>2. call[k] # Idle /\ r \in DOMAIN statements /\ call[k].net \in Net
  BY <1>1, UnderWay DEF IInv, CallInv, PayCallOK
<1>3. statements \in Seq(StatementRow) /\ statements[r] \in StatementRow
  BY <1>2, Rows DEF IInv, StatementsOK
<1>4. /\ e \in StatementRow /\ e.contract = statements[r].contract /\ e.status = statements[r].status
      /\ e.midterm = statements[r].midterm /\ e.final = statements[r].final
  BY <1>2, <1>3 DEF StatementRow
<1>5. /\ statements' \in Seq(StatementRow) /\ DOMAIN statements' = DOMAIN statements
      /\ Len(statements') = Len(statements) /\ Len(statements) \in Nat
      /\ \A i \in DOMAIN statements : statements'[i] = IF i = r THEN e ELSE statements[i]
  <2>1. statements \in Seq(StatementRow) /\ e \in StatementRow
    BY <1>3, <1>4
  <2>2. Len(statements) \in Nat
    BY Rows DEF IInv
  <2>3. statements' = [statements EXCEPT ![r] = e]
    BY <1>1
  <2> HIDE DEF e, r
  <2> QED BY <2>1, <2>2, <2>3, ReplaceRow
<1>6. \A i \in DOMAIN statements :
        /\ statements'[i].status = statements[i].status /\ statements'[i].contract = statements[i].contract
        /\ statements'[i].midterm = statements[i].midterm /\ statements'[i].final = statements[i].final
  <2> HIDE DEF e
  <2> QED BY <1>4, <1>5
<1>7. StatementsOK'
  BY <1>1, <1>5, <1>6 DEF IInv, StatementsOK
<1>8. OneStatement'
  BY <1>1, <1>5 DEF IInv, OneStatement, Go
<1>9. SignCallOK(k)' /\ PayCallOK(k)'
  BY <1>1, <1>2, OneCall, IdleCall DEF IInv
<1> QED BY <1>1, <1>2, <1>5, <1>6, <1>7, <1>8, <1>9, PayStepInv

-----------------------------------------------------------------------------
\* The statements FOR UPDATE, one of them to be paid.
LEMMA LockStatementInv ==
  ASSUME IInv, NEW k \in Session, NEW to \in StatementStatus \ {"DRAFT"}, LockStatement(k, to)
  PROVE  IInv'
<1>1. PICK i \in DOMAIN statements :
        /\ Payable(statements[i].status, to)
        /\ Begin(k, [pc |-> IF to = "MID_TERM_PAID" THEN "pay" ELSE "grades", row |-> i, to |-> to,
                     net |-> statements[i].net, paid |-> statements[i].midterm, papers |-> 0])
  BY DEF LockStatement
<1> DEFINE x == [pc |-> IF to = "MID_TERM_PAID" THEN "pay" ELSE "grades", row |-> i, to |-> to,
                 net |-> statements[i].net, paid |-> statements[i].midterm, papers |-> 0]
<1>2. /\ UNCHANGED <<papers, statements, payments>> /\ UNCHANGED <<contracts, docs, codes>>
      /\ holder = NoSession /\ holder' = k
      /\ held' = {statements[j].contract : j \in DOMAIN statements}
  BY DEF LockStatement, papers
<1>3. call'[k] = x
  BY <1>1, OneCall DEF IInv
<1>4. StatementsOK' /\ OneStatement'
  BY <1>1, <1>2 DEF IInv, StatementsOK, OneStatement, Begin
<1>5. statements[i].net \in Net /\ Len(docs) \in Nat /\ Len(statements) \in Nat
  BY Rows DEF IInv, StatementRow
<1>6. to \in Paid
  BY DEF StatementStatus, Paid
<1>7. /\ x.pc \in {"pay", "grades"} /\ DOMAIN x = {"pc", "row", "to", "net", "paid", "papers"}
      /\ x.row = i /\ x.to = to /\ x.net = statements[i].net /\ x.paid = statements[i].midterm /\ x.papers = 0
  OBVIOUS
<1>8. SignCallOK(k)' /\ PayCallOK(k)'
  <2> HIDE DEF x
  <2> QED BY <1>1, <1>2, <1>3, <1>5, <1>6, <1>7 DEF SignCallOK, PayCallOK
<1> QED BY <1>1, <1>2, <1>4, <1>5, <1>8, PayStepInv

\* What a payment brings to its gates and to its commit.
LEMMA PayingCall ==
  ASSUME IInv, NEW k \in Session, call[k].pc \in {"grades", "documents", "pay"}
  PROVE  /\ call[k] # Idle /\ holder = k
         /\ DOMAIN call[k] = {"pc", "row", "to", "net", "paid", "papers"}
         /\ call[k].row \in DOMAIN statements /\ statements[call[k].row] \in StatementRow
         /\ call[k].to \in Paid /\ call[k].net \in Net
         /\ Payable(statements[call[k].row].status, call[k].to)
         /\ call[k].paid = statements[call[k].row].midterm
         /\ call[k].papers \in 0..Len(docs)
         /\ \A d \in 1..call[k].papers : docs[d].signed
<1>1. PayCallOK(k) /\ call[k] # Idle
  BY UnderWay DEF IInv, CallInv
<1> QED BY <1>1, Rows DEF PayCallOK, IInv

\* The gate of the grades.
LEMMA CheckGradesInv ==
  ASSUME IInv, NEW k \in Session, CheckGrades(k)
  PROVE  IInv'
<1> DEFINE x == [call[k] EXCEPT !.pc = "documents"]
<1>1. call[k].pc = "grades" /\ Go(k, x) /\ UNCHANGED <<papers, pay>> /\ UNCHANGED <<docs, statements, holder>>
  BY DEF CheckGrades, papers, pay
<1>2. call[k] # Idle /\ PayCallOK(k) /\ DOMAIN call[k] = {"pc", "row", "to", "net", "paid", "papers"}
  BY <1>1, PayingCall DEF IInv, CallInv
<1>3. call'[k] = x
  BY <1>1, <1>2, OneCall DEF IInv
<1>4. /\ DOMAIN x = {"pc", "row", "to", "net", "paid", "papers"} /\ x.pc = "documents" /\ x.row = call[k].row
      /\ x.to = call[k].to /\ x.net = call[k].net /\ x.paid = call[k].paid /\ x.papers = call[k].papers
  BY <1>2
<1>5. SignCallOK(k)' /\ PayCallOK(k)'
  <2> HIDE DEF x
  <2> QED BY <1>1, <1>2, <1>3, <1>4 DEF SignCallOK, PayCallOK
<1> QED BY <1>1, <1>2, <1>5, CallStepInv

\* The gate of the papers: every document there is, is signed.
LEMMA CheckPapersInv ==
  ASSUME IInv, NEW k \in Session, CheckPapers(k)
  PROVE  IInv'
<1> DEFINE x == [call[k] EXCEPT !.pc = "pay", !.papers = Len(docs)]
<1>1. /\ call[k].pc = "documents" /\ Go(k, x) /\ UNCHANGED <<papers, pay>>
      /\ UNCHANGED <<docs, statements, holder>> /\ \A d \in DOMAIN docs : docs[d].signed
  BY DEF CheckPapers, papers, pay
<1>2. call[k] # Idle /\ PayCallOK(k) /\ DOMAIN call[k] = {"pc", "row", "to", "net", "paid", "papers"}
  BY <1>1, PayingCall DEF IInv, CallInv
<1>3. call'[k] = x
  BY <1>1, <1>2, OneCall DEF IInv
<1>4. /\ DOMAIN x = {"pc", "row", "to", "net", "paid", "papers"} /\ x.pc = "pay" /\ x.row = call[k].row
      /\ x.to = call[k].to /\ x.net = call[k].net /\ x.paid = call[k].paid /\ x.papers = Len(docs)
  BY <1>2
<1>5. Len(docs) \in Nat /\ DOMAIN docs = 1..Len(docs)
  BY Rows DEF IInv
<1>6. SignCallOK(k)' /\ PayCallOK(k)'
  <2> HIDE DEF x
  <2> QED BY <1>1, <1>2, <1>3, <1>4, <1>5 DEF SignCallOK, PayCallOK
<1> QED BY <1>1, <1>2, <1>6, CallStepInv

\* A settlement that is refused gives back its locks.
LEMMA RefuseSettlementInv ==
  ASSUME IInv, NEW k \in Session, RefuseSettlement(k)
  PROVE  IInv'
<1>1. /\ call[k].pc \in {"grades", "documents"} /\ Go(k, Idle) /\ UNCHANGED <<papers, statements, payments>>
      /\ holder' = NoSession /\ held' = {} /\ contracts' = contracts
  BY DEF RefuseSettlement, Released, papers
<1>2. call[k] # Idle /\ holder = k
  BY <1>1, PayingCall
<1>3. StatementsOK' /\ OneStatement'
  BY <1>1 DEF IInv, StatementsOK, OneStatement, Go
<1>4. SignCallOK(k)' /\ PayCallOK(k)'
  BY <1>1, <1>2, OneCall, IdleCall DEF IInv
<1>5. Len(statements) \in Nat
  BY Rows DEF IInv
<1> QED BY <1>1, <1>2, <1>3, <1>4, <1>5, PayStepInv

-----------------------------------------------------------------------------
\* A percentage of a net amount, and what an advance leaves of it.
LEMMA Amounts ==
  ASSUME NEW net \in Net, NEW paid \in Nat
  PROVE  /\ (net * Percent) \div 100 \in Nat
         /\ Remainder(net, paid) \in Nat
         /\ paid + Remainder(net, paid) = net \/ (paid > net /\ Remainder(net, paid) = 0)
<1>1. net \in Nat /\ Percent \in Nat
  BY TeachingAssumption
<1>2. \A a \in Nat : a \div 100 \in Nat
  OBVIOUS
<1>3. net * Percent \in Nat
  BY <1>1
<1>4. (net * Percent) \div 100 \in Nat
  <2> DEFINE a == net * Percent
  <2>1. a \in Nat
    BY <1>3
  <2> HIDE DEF a
  <2>2. a \div 100 \in Nat
    BY <1>2, <2>1
  <2> QED BY <2>2 DEF a
<1>5. /\ Remainder(net, paid) \in Nat
      /\ paid + Remainder(net, paid) = net \/ (paid > net /\ Remainder(net, paid) = 0)
  BY <1>1 DEF Remainder
<1> QED BY <1>4, <1>5

\* The payments already made for a statement that may be paid: none before an advance,
\* no settlement before a settlement.
LEMMA PaidBefore ==
  ASSUME IInv, NEW r \in DOMAIN statements, NEW to \in Paid, Payable(statements[r].status, to),
         NEW p \in DOMAIN payments, payments[p].row = r
  PROVE  to = "FINAL_SETTLED" /\ payments[p].to = "MID_TERM_PAID"
BY DEF IInv, PaymentsOK, Payable, Paid

\* What the commit of a payment writes: the statement's row e and the payment f.
LEMMA PayWrites ==
  ASSUME IInv, NEW k \in Session, Pay(k)
  PROVE  \E e \in StatementRow, f \in PaymentRow :
           /\ statements' = [statements EXCEPT ![call[k].row] = e]
           /\ payments' = Append(payments, f)
           /\ e.contract = statements[call[k].row].contract /\ e.status = call[k].to
           /\ f.row = call[k].row /\ f.to = call[k].to /\ f.papers = call[k].papers
           /\ f.to = "MID_TERM_PAID" => e.midterm = f.amount
           /\ f.to = "FINAL_SETTLED" =>
                /\ e.midterm = statements[call[k].row].midterm /\ e.final = f.amount
                /\ e.midterm + f.amount = f.net \/ (e.midterm > f.net /\ f.amount = 0)
<1> DEFINE x == call[k]
           s == statements[x.row]
           entry(a) == [row |-> x.row, to |-> x.to, amount |-> a, net |-> x.net, papers |-> x.papers]
<1>1. /\ x.row \in DOMAIN statements /\ s \in StatementRow /\ x.to \in Paid /\ x.net \in Net
      /\ x.paid = s.midterm /\ x.papers \in 0..Len(docs)
  BY PayingCall DEF Pay
<1>2. x.row \in Nat /\ x.papers \in Nat /\ s.midterm \in Nat /\ x.to \in StatementStatus
  BY <1>1, Rows DEF IInv, StatementRow, Paid, StatementStatus
<1>3. \A a \in Nat : entry(a) \in PaymentRow
  BY <1>1, <1>2 DEF PaymentRow
<1>4. CASE x.to = "MID_TERM_PAID"
  <2> DEFINE a == (x.net * Percent) \div 100
             e == [s EXCEPT !.midterm = a, !.status = x.to]
             f == entry(a)
  <2>1. a \in Nat
    BY <1>1, <1>2, Amounts
  <2>2. statements' = [statements EXCEPT ![x.row] = e] /\ payments' = Append(payments, f)
    BY <1>4 DEF Pay
  <2> HIDE DEF a
  <2>3. e \in StatementRow /\ e.contract = s.contract /\ e.status = x.to /\ e.midterm = a
    <3> HIDE DEF s, x
    <3> QED BY <1>1, <1>2, <2>1 DEF StatementRow
  <2>4. /\ f \in PaymentRow /\ f.row = x.row /\ f.to = x.to /\ f.papers = x.papers
        /\ f.amount = a /\ f.to # "FINAL_SETTLED"
    BY <1>3, <1>4, <2>1
  <2> HIDE DEF e, f
  <2> QED BY <2>2, <2>3, <2>4
<1>5. CASE x.to = "FINAL_SETTLED"
  <2> DEFINE a == Remainder(x.net, x.paid)
             e == [s EXCEPT !.final = a, !.status = x.to]
             f == entry(a)
  <2>1. a \in Nat /\ (s.midterm + a = x.net \/ (s.midterm > x.net /\ a = 0))
    BY <1>1, <1>2, Amounts
  <2>2. statements' = [statements EXCEPT ![x.row] = e] /\ payments' = Append(payments, f)
    BY <1>5 DEF Pay
  <2> HIDE DEF a
  <2>3. /\ e \in StatementRow /\ e.contract = s.contract /\ e.status = x.to
        /\ e.final = a /\ e.midterm = s.midterm
    <3> HIDE DEF s, x
    <3> QED BY <1>1, <1>2, <2>1 DEF StatementRow
  <2>4. /\ f \in PaymentRow /\ f.row = x.row /\ f.to = x.to /\ f.papers = x.papers
        /\ f.amount = a /\ f.net = x.net /\ f.to # "MID_TERM_PAID"
    BY <1>3, <1>5, <2>1
  <2> HIDE DEF e, f
  <2> QED BY <2>1, <2>2, <2>3, <2>4
<1> QED BY <1>1, <1>4, <1>5 DEF Paid

\* The commit of a payment.
LEMMA PayInv ==
  ASSUME IInv, NEW k \in Session, Pay(k)
  PROVE  IInv'
<1> DEFINE r == call[k].row
           n == Len(payments)
<1>1. /\ call[k] # Idle /\ holder = k /\ r \in DOMAIN statements /\ call[k].to \in Paid
      /\ Payable(statements[r].status, call[k].to) /\ call[k].papers \in 0..Len(docs)
      /\ \A d \in 1..call[k].papers : docs[d].signed
  BY PayingCall DEF Pay
<1>2. /\ Go(k, Idle) /\ holder' = NoSession /\ held' = {} /\ UNCHANGED <<contracts, docs, codes>>
  BY DEF Pay, Released, papers
<1>3. PICK e \in StatementRow, f \in PaymentRow :
        /\ statements' = [statements EXCEPT ![r] = e]
        /\ payments' = Append(payments, f)
        /\ e.contract = statements[r].contract /\ e.status = call[k].to
        /\ f.row = r /\ f.to = call[k].to /\ f.papers = call[k].papers
        /\ f.to = "MID_TERM_PAID" => e.midterm = f.amount
        /\ f.to = "FINAL_SETTLED" =>
             /\ e.midterm = statements[r].midterm /\ e.final = f.amount
             /\ e.midterm + f.amount = f.net \/ (e.midterm > f.net /\ f.amount = 0)
  BY PayWrites
<1>4. statements \in Seq(StatementRow) /\ payments \in Seq(PaymentRow) /\ Len(docs) \in Nat
      /\ statements' = [statements EXCEPT ![r] = e] /\ payments' = Append(payments, f)
  BY <1>3, Rows DEF IInv, StatementsOK, PaymentsOK
<1> HIDE DEF r
<1>5. /\ statements' \in Seq(StatementRow) /\ DOMAIN statements' = DOMAIN statements
      /\ Len(statements') = Len(statements)
      /\ \A i \in DOMAIN statements : statements'[i] = IF i = r THEN e ELSE statements[i]
  <2>1. statements \in Seq(StatementRow) /\ e \in StatementRow
    BY <1>4
  <2>2. statements' = [statements EXCEPT ![r] = e]
    BY <1>4
  <2> QED BY <2>1, <2>2, ReplaceRow
<1>6. /\ payments' \in Seq(PaymentRow) /\ n \in Nat
      /\ DOMAIN payments = 1..n /\ DOMAIN payments' = 1..(n + 1) /\ payments'[n + 1] = f
      /\ \A p \in DOMAIN payments : payments'[p] = payments[p]
  BY <1>4, AppendRow
<1> HIDE DEF n
<1>7. PapersOK'
  BY <1>2 DEF IInv, PapersOK
<1>8. StatementsOK'
  BY <1>2, <1>3, <1>5 DEF IInv, StatementsOK
<1>9. OneStatement'
  BY <1>2, <1>5 DEF IInv, OneStatement, Go
<1>10. \A p \in DOMAIN payments : payments[p].row = r => f.to = "FINAL_SETTLED" /\ payments[p].to = "MID_TERM_PAID"
  BY <1>1, <1>3, PaidBefore
<1>11. PaymentsOK'
  <2> DEFINE Told(q, s) ==
        /\ q.row \in DOMAIN statements /\ q.to \in Paid
        /\ q.to = "MID_TERM_PAID" => s.status # "DRAFT" /\ s.midterm = q.amount
        /\ q.to = "FINAL_SETTLED" =>
             /\ s.status = "FINAL_SETTLED" /\ s.final = q.amount
             /\ s.midterm + q.amount = q.net \/ (s.midterm > q.net /\ q.amount = 0)
  <2>1. \A p \in DOMAIN payments : Told(payments[p], statements[payments[p].row])
    BY DEF IInv, PaymentsOK
  <2>2. Told(f, e)
    BY <1>1, <1>3 DEF Paid
  <2>3. \A p \in DOMAIN payments : payments[p].row = r => Told(payments[p], e)
    <3>1. ASSUME NEW p \in DOMAIN payments, payments[p].row = r
          PROVE  e.status = "FINAL_SETTLED" /\ e.midterm = statements[r].midterm /\ payments[p].to = "MID_TERM_PAID"
      BY <1>3, <1>10, <3>1
    <3> QED BY <2>1, <3>1 DEF Paid
  <2> HIDE DEF Told
  <2>4. \A p \in DOMAIN payments' : Told(payments'[p], statements'[payments'[p].row])
    <3>1. ASSUME NEW p \in DOMAIN payments PROVE Told(payments'[p], statements'[payments'[p].row])
      <4>1. payments'[p] = payments[p] /\ payments[p].row \in DOMAIN statements
        BY <1>6, <2>1 DEF Told
      <4> QED BY <1>5, <2>1, <2>3, <4>1
    <3>2. Told(payments'[n + 1], statements'[payments'[n + 1].row])
      BY <1>1, <1>3, <1>5, <1>6, <2>2 DEF r
    <3>3. DOMAIN payments' = DOMAIN payments \union {n + 1}
      BY <1>6
    <3> QED BY <3>1, <3>2, <3>3
  <2>5. \A p, q \in DOMAIN payments' :
          payments'[p].row = payments'[q].row =>
            /\ payments'[p].to = payments'[q].to => p = q
            /\ payments'[p].to = "MID_TERM_PAID" /\ payments'[q].to = "FINAL_SETTLED" => p < q
    <3> SUFFICES ASSUME NEW p \in DOMAIN payments', NEW q \in DOMAIN payments', payments'[p].row = payments'[q].row
                 PROVE  /\ payments'[p].to = payments'[q].to => p = q
                        /\ payments'[p].to = "MID_TERM_PAID" /\ payments'[q].to = "FINAL_SETTLED" => p < q
      OBVIOUS
    <3>1. CASE p \in DOMAIN payments /\ q \in DOMAIN payments
      BY <1>6, <3>1 DEF IInv, PaymentsOK
    <3>2. CASE p \in DOMAIN payments /\ q = n + 1
      BY <1>3, <1>6, <1>10, <3>2
    <3>3. CASE p = n + 1 /\ q \in DOMAIN payments
      BY <1>3, <1>6, <1>10, <3>3
    <3>4. CASE p = n + 1 /\ q = n + 1
      BY <3>4
    <3>5. DOMAIN payments' = DOMAIN payments \union {n + 1}
      BY <1>6
    <3> QED BY <3>1, <3>2, <3>3, <3>4, <3>5
  <2> QED BY <1>5, <1>6, <2>4, <2>5 DEF PaymentsOK, Told
<1>12. SettledWithSignedPapers' /\ \A p \in DOMAIN payments' : payments'[p].papers <= Len(docs')
  <2>1. DOMAIN payments' = DOMAIN payments \union {n + 1}
    BY <1>6
  <2>2. f.papers <= Len(docs) /\ \A d \in 1..f.papers : docs[d].signed
    BY <1>1, <1>3, <1>4
  <2> QED BY <1>2, <1>6, <2>1, <2>2 DEF IInv, SettledWithSignedPapers
<1>13. ASSUME NEW j \in Session, j # k PROVE SignCallOK(j)' /\ PayCallOK(j)'
  <2>1. call'[j] = call[j] /\ overlap' = overlap /\ SignCallOK(j) /\ PayCallOK(j)
        /\ (~overlap => call[j] = Idle)
    BY <1>1, <1>2, <1>13, OneCall DEF IInv, CallInv
  <2>2. holder # j
    BY <1>1, <1>13
  <2>3. PapersOK /\ StatementsOK /\ Len(docs) \in Nat /\ Len(codes) \in Nat /\ Len(statements) \in Nat /\ contracts \in Nat
    BY Rows DEF IInv, PapersOK
  <2> QED BY <1>2, <1>5, <1>7, <1>8, <2>1, <2>2, <2>3, OtherCalls
<1>14. SignCallOK(k)' /\ PayCallOK(k)'
  BY <1>1, <1>2, OneCall, IdleCall DEF IInv
<1>15. /\ DOMAIN call' = Session
       /\ ~overlap' => \A j, l \in Session : call'[j] # Idle /\ call'[l] # Idle => j = l
  BY <1>1, <1>2, OneCall DEF IInv
<1>16. CallInv'
  BY <1>13, <1>14, <1>15 DEF CallInv
<1> QED BY <1>7, <1>8, <1>9, <1>11, <1>12, <1>16 DEF IInv

-----------------------------------------------------------------------------
\* A call is cut off: what it holds is free again, and nothing it has written is lost.
LEMMA CrashInv ==
  ASSUME IInv, NEW k \in Session, Crash(k)
  PROVE  IInv'
<1>1. /\ call[k] # Idle /\ call' = [call EXCEPT ![k] = Idle] /\ overlap' = overlap
      /\ UNCHANGED <<contracts, docs, codes, statements, payments>>
      /\ IF holder = k THEN holder' = NoSession /\ held' = {} ELSE holder' = holder /\ held' = held
  BY DEF Crash, Released, papers
<1>2. /\ DOMAIN call = Session
      /\ \A j \in Session : SignCallOK(j) /\ PayCallOK(j)
      /\ ~overlap => \A j, l \in Session : call[j] # Idle /\ call[l] # Idle => j = l
  BY DEF IInv, CallInv
<1>3. /\ DOMAIN call' = Session /\ call'[k] = Idle
      /\ \A j \in Session : j # k => call'[j] = call[j]
  BY <1>1, <1>2
<1>4. PapersOK' /\ OneStatement'
  BY <1>1 DEF IInv, PapersOK, OneStatement
<1>5. StatementsOK'
  BY <1>1 DEF IInv, StatementsOK
<1>6. PaymentsOK' /\ SettledWithSignedPapers' /\ \A p \in DOMAIN payments' : payments'[p].papers <= Len(docs')
  BY <1>1 DEF IInv, PaymentsOK, SettledWithSignedPapers
<1>7. ASSUME NEW j \in Session, j # k PROVE SignCallOK(j)' /\ PayCallOK(j)'
  <2>1. /\ call'[j] = call[j] /\ SignCallOK(j) /\ PayCallOK(j) /\ (~overlap => call[j] = Idle)
    BY <1>1, <1>2, <1>3, <1>7
  <2>2. holder = j => holder' = j
    BY <1>1, <1>7
  <2>3. PapersOK /\ StatementsOK /\ Len(docs) \in Nat /\ Len(codes) \in Nat /\ Len(statements) \in Nat /\ contracts \in Nat
    BY Rows DEF IInv, PapersOK
  <2> QED BY <1>1, <1>4, <1>5, <2>1, <2>2, <2>3, OtherCalls
<1>8. SignCallOK(k)' /\ PayCallOK(k)'
  BY <1>3, IdleCall
<1>9. ~overlap' => \A j, l \in Session : call'[j] # Idle /\ call'[l] # Idle => j = l
  BY <1>1, <1>2, <1>3
<1>10. CallInv'
  BY <1>3, <1>7, <1>8, <1>9 DEF CallInv
<1> QED BY <1>4, <1>5, <1>6, <1>10 DEF IInv

\* What a step must show that changes neither calls nor statements: the invariant
\* speaks of a code by its document and its tries only.
LEMMA AroundInv ==
  ASSUME IInv, UNCHANGED <<contracts, docs, pay, call, overlap>>, PapersOK', Len(codes') = Len(codes),
         DOMAIN codes' = DOMAIN codes
  PROVE  IInv'
<1>1. UNCHANGED <<statements, holder, held, payments>>
  BY DEF pay
<1>2. StatementsOK' /\ OneStatement'
  BY <1>1 DEF IInv, StatementsOK, OneStatement
<1>3. PaymentsOK' /\ SettledWithSignedPapers' /\ \A p \in DOMAIN payments' : payments'[p].papers <= Len(docs')
  BY <1>1 DEF IInv, PaymentsOK, SettledWithSignedPapers
<1>4. CallInv'
  BY <1>1 DEF IInv, CallInv, SignCallOK, PayCallOK
<1> QED BY <1>2, <1>3, <1>4 DEF IInv

\* A code's time runs out.
LEMMA ExpireInv ==
  ASSUME IInv, NEW i \in DOMAIN codes, Expire(i)
  PROVE  IInv'
<1> DEFINE e == [codes[i] EXCEPT !.expired = TRUE]
<1>1. codes' = [codes EXCEPT ![i] = e] /\ UNCHANGED <<contracts, docs, pay, call, overlap>>
  BY DEF Expire
<1>2. codes \in Seq(CodeRow) /\ codes[i] \in CodeRow /\ PapersOK
  BY Rows DEF IInv, PapersOK
<1>3. e \in CodeRow /\ e.doc = codes[i].doc /\ e.locked = codes[i].locked /\ e.tries = codes[i].tries
  BY <1>2 DEF CodeRow
<1> HIDE DEF e
<1>4. /\ codes' \in Seq(CodeRow) /\ DOMAIN codes' = DOMAIN codes /\ Len(codes') = Len(codes)
      /\ \A j \in DOMAIN codes : codes'[j] = IF j = i THEN e ELSE codes[j]
  BY <1>1, <1>2, <1>3, ReplaceRow
<1>5. PapersOK'
  BY <1>1, <1>2, <1>3, <1>4 DEF PapersOK
<1> QED BY <1>1, <1>4, <1>5, AroundInv

-----------------------------------------------------------------------------
\* Every step of a contract's or document's signature keeps the invariant.
LEMMA SignInv ==
  ASSUME IInv, NEW k \in Session, Sign(k)
  PROVE  IInv'
BY EnsureContractInv, InsertContractInv, InsertDocumentInv, InboxInv, IssueCodeInv, CheckCodeInv,
   RefuseCodeInv, CountAttemptInv, SignInboxInv, UseCodeInv, SignPageInv, InsertSignatureInv DEF Sign

\* Every step of the payroll keeps it.
LEMMA PayrollInv ==
  ASSUME IInv, NEW k \in Session, Payroll(k)
  PROVE  IInv'
BY ReadTermInv, InsertStatementInv, UpdateStatementInv, LockStatementInv, CheckGradesInv, CheckPapersInv,
   RefuseSettlementInv, PayInv DEF Payroll

\* Every step keeps the inductive invariant.
THEOREM NextIInv == IInv /\ [Next]_vars => IInv'
<1> SUFFICES ASSUME IInv, [Next]_vars PROVE IInv'
  OBVIOUS
<1>1. ASSUME NEW k \in Session, Sign(k) PROVE IInv'
  BY <1>1, SignInv
<1>2. ASSUME NEW k \in Session, Payroll(k) PROVE IInv'
  BY <1>2, PayrollInv
<1>3. ASSUME NEW k \in Session, Crash(k) PROVE IInv'
  BY <1>3, CrashInv
<1>4. ASSUME NEW i \in DOMAIN codes, Expire(i) PROVE IInv'
  BY <1>4, ExpireInv
<1>5. ASSUME UNCHANGED <<papers, pay, call, overlap>> PROVE IInv'
  <2>1. UNCHANGED <<contracts, docs, codes, pay, call, overlap>> /\ PapersOK'
    BY <1>5 DEF papers, IInv, PapersOK
  <2> QED BY <2>1, AroundInv
<1>6. GradesChange \/ UNCHANGED vars => UNCHANGED <<papers, pay, call, overlap>>
  BY DEF GradesChange, vars
<1> QED BY <1>1, <1>2, <1>3, <1>4, <1>5, <1>6 DEF Next

\* The inductive invariant holds in every reachable state.
THEOREM IInvHolds == Spec => []IInv
BY InitIInv, NextIInv, PTL DEF Spec

\* Every variable keeps its type; the document a code is for, the contract of a
\* statement and the statement of a payment exist.
THEOREM TypeCorrect == Spec => []TypeOK
<1> DEFINE C == [kind : CodeKind, doc : DOMAIN docs, used : BOOLEAN, tries : 0..MaxAttempts,
                 locked : BOOLEAN, expired : BOOLEAN]
           S == [contract : 1..contracts, status : StatementStatus, net : Net, midterm : Nat, final : Nat]
           P == [row : DOMAIN statements, to : StatementStatus, amount : Nat, net : Net, papers : Nat]
<1>1. IInv => TypeOK
  <2> SUFFICES ASSUME IInv PROVE TypeOK
    OBVIOUS
  <2>1. PapersOK /\ StatementsOK /\ PaymentsOK
    BY DEF IInv
  <2>2. codes \in Seq(C)
    <3>1. \A i \in 1..Len(codes) : codes[i] \in C
      BY <2>1, Rows DEF PapersOK, CodeRow
    <3>2. codes \in [1..Len(codes) -> C] /\ Len(codes) \in Nat
      BY <2>1, <3>1, Rows
    <3> HIDE DEF C
    <3> QED BY <3>2, SeqDef
  <2>3. statements \in Seq(S)
    <3>1. \A i \in 1..Len(statements) : statements[i] \in S
      BY <2>1, Rows DEF StatementsOK, StatementRow
    <3>2. statements \in [1..Len(statements) -> S] /\ Len(statements) \in Nat
      BY <2>1, <3>1, Rows
    <3> HIDE DEF S
    <3> QED BY <3>2, SeqDef
  <2>4. payments \in Seq(P)
    <3>1. \A p \in 1..Len(payments) : payments[p] \in P
      BY <2>1, Rows DEF PaymentsOK, PaymentRow
    <3>2. payments \in [1..Len(payments) -> P] /\ Len(payments) \in Nat
      BY <2>1, <3>1, Rows
    <3> HIDE DEF P
    <3> QED BY <3>2, SeqDef
  <2> QED BY <2>1, <2>2, <2>3, <2>4 DEF TypeOK, PapersOK, StatementsOK, DocRow
<1> QED BY IInvHolds, <1>1, PTL

\* An advance and a settlement are each paid once for a statement, in that order, as
\* its columns tell, and a settlement pays what the advance left; computations that
\* do not overlap make one statement.
THEOREM PaidOnceHolds == Spec => []PaidOnce
<1>1. IInv => PaidOnce
  <2> SUFFICES ASSUME IInv PROVE PaidOnce
    OBVIOUS
  <2>1. \A i, to : \A p, q \in PaidFor(i, to) : p = q
    BY DEF IInv, PaymentsOK, PaidFor
  <2>2. \A i, to : Cardinality(PaidFor(i, to)) <= 1
    <3> SUFFICES ASSUME NEW i, NEW to PROVE Cardinality(PaidFor(i, to)) <= 1
      OBVIOUS
    <3>1. CASE PaidFor(i, to) = {}
      BY <3>1, FS_EmptySet
    <3>2. CASE PaidFor(i, to) # {}
      <4>1. PICK p : PaidFor(i, to) = {p}
        BY <2>1, <3>2
      <4> QED BY <4>1, FS_Singleton
    <3> QED BY <3>1, <3>2
  <2>3. \A i \in DOMAIN statements :
          \A p \in PaidFor(i, "MID_TERM_PAID"), q \in PaidFor(i, "FINAL_SETTLED") : p < q
    BY DEF IInv, PaymentsOK, PaidFor
  <2>4. \A i \in DOMAIN statements : \A p \in PaidFor(i, "MID_TERM_PAID") : statements[i].midterm = payments[p].amount
    BY DEF IInv, PaymentsOK, PaidFor
  <2>5. \A i \in DOMAIN statements : \A p \in PaidFor(i, "FINAL_SETTLED") :
            /\ statements[i].final = payments[p].amount
            /\ \/ statements[i].midterm + payments[p].amount = payments[p].net
               \/ statements[i].midterm > payments[p].net /\ payments[p].amount = 0
    BY DEF IInv, PaymentsOK, PaidFor
  <2> QED BY <2>2, <2>3, <2>4, <2>5 DEF PaidOnce, IInv, OneStatement
<1> QED BY IInvHolds, <1>1, PTL

\* Every document there was at a settlement was signed, and stays so.
THEOREM SettledWithSignedPapersHolds == Spec => []SettledWithSignedPapers
<1>1. IInv => SettledWithSignedPapers
  BY DEF IInv
<1> QED BY IInvHolds, <1>1, PTL
=============================================================================
