---------------------------- MODULE StudentAccount ----------------------------
(***************************************************************************)
(* The account of one student as the finance pages compute it               *)
(* (lib/finance-rules.ts, listFinanceStudents and getStudentFinance of      *)
(* lib/finance-engine.ts).  The rows change by whole transactions here      *)
(* (FinanceDesk has their interleavings); the two reports are operators on  *)
(* them: the worklist's balance from sums the database grouped, and the     *)
(* statement's balance, term by term, from the rows.                        *)
(*                                                                          *)
(* Amounts are natural numbers of Rials; 0 stands for null in a term, a     *)
(* degree, a major or a year.                                               *)
(***************************************************************************)
EXTENDS Integers, FiniteSets, SequencesExt

CONSTANTS
  Term,        \* terms of the student; 0 is "without a term"
  Amount,      \* amounts a clerk enters
  Discount,    \* discount rows: [id, term, kind, value]
  Sponsorship, \* sponsorship rows: [id, term, kind, value]
  Cheque,      \* cheque rows: [id, term, amount]
  Loan,        \* loan rows: [id, term, amount]
  Formula,     \* formulas: [id, active, degree, major, from, to, priority, fixed, theory, practical, general]
  Student,     \* possible students: [degree, major, year]
  Course,      \* courses: [units, theory, practical, general]
  MaxLedger,   \* bound: rows of student_ledger
  MaxRelief    \* bound: discounts, and sponsorships, in effect

TermKey == Term \union {0}

\* The columns of the rows a report reads.
ReliefRow == [id : Nat, term : TermKey, kind : {"PERCENT", "FIXED"}, value : Nat]
PaperRow == [id : Nat, term : TermKey, amount : Nat \ {0}]
FormulaRow == [id : Nat \ {0}, active : BOOLEAN, degree : Nat, major : Nat, from : Nat, to : Nat,
               priority : Int, fixed : Nat, theory : Nat, practical : Nat, general : Nat]
CourseRow == [units : Nat, theory : Nat, practical : Nat, general : BOOLEAN]

\* An id is the primary key of its table.
Keyed(rows) == \A r, s \in rows : r.id = s.id => r = s

ASSUME AccountAssumption ==
  /\ Term \subseteq Nat \ {0} /\ IsFiniteSet(Term)
  /\ Amount \subseteq Nat \ {0}
  /\ Discount \subseteq ReliefRow /\ Keyed(Discount)
  /\ Sponsorship \subseteq ReliefRow /\ Keyed(Sponsorship)
  /\ Cheque \subseteq PaperRow /\ IsFiniteSet(Cheque)
  /\ Loan \subseteq PaperRow /\ IsFiniteSet(Loan)
  /\ Formula \subseteq FormulaRow /\ IsFiniteSet(Formula)
  /\ Student \subseteq [degree : Nat, major : Nat, year : Nat]
  /\ Course \subseteq CourseRow /\ IsFiniteSet(Course)
  /\ MaxLedger \in Nat
  /\ MaxRelief \in Nat

VARIABLES
  ledger,    \* student_ledger: [term, type, amount], in the order of createdAt
  discounts, \* approved discounts, in the order the database returns them
  sponsors,  \* confirmed or paid sponsorships, likewise
  cheques,   \* cheque -> status
  loans,     \* loan -> status
  taken,     \* courses of the term the formula is applied to
  formulas,  \* tuition_formulas in the order the database returns them
  student    \* degree, major and entry year

vars == <<ledger, discounts, sponsors, cheques, loans, taken, formulas, student>>

Least(a, b) == IF a <= b THEN a ELSE b

\* Math.round(num / den): to the nearest Rial, a half upwards.
ToRial(num, den) == (2 * num + den) \div (2 * den)

-----------------------------------------------------------------------------
(* The relief of one term.                                                  *)

\* A percentage of base, or a fixed amount (discountAmount with appliesTo BOTH and
\* no cap of the type, applySponsorships' amount).
ReliefAmount(d, base) ==
  IF d.kind = "PERCENT" THEN ToRial(base * Least(d.value, 100), 100)
  ELSE ToRial(d.value, 1)

\* A row without a term has its effect in every term.
OfTerm(rows, t) == {i \in DOMAIN rows : rows[i].term \in {0, t}}

AmountsOn(rows, t, base) == [i \in OfTerm(rows, t) |-> ReliefAmount(rows[i], base)]

\* Mutant: an amount larger than what is left is applied in full.
ApplyWithoutCap(amounts, last, total) ==
  LET left[i \in 0..last] ==
        IF i = 0 THEN total
        ELSE IF i \in DOMAIN amounts THEN left[i - 1] - amounts[i] ELSE left[i - 1]
  IN [left |-> left[last], lines |-> amounts]

\* The amounts applied one after the other, each to what the earlier ones left
\* (applyDiscounts and applySponsorships over the rows up to the last).
Apply(amounts, last, total) ==
  LET left[i \in 0..last] ==
        IF i = 0 THEN total
        ELSE IF i \in DOMAIN amounts THEN left[i - 1] - Least(amounts[i], left[i - 1])
        ELSE left[i - 1]
  IN [left |-> left[last], lines |-> [i \in DOMAIN amounts |-> Least(amounts[i], left[i - 1])]]

\* computeTermAdjustments for one term: discounts on the charges, sponsorships on
\* what the discounts leave.
TermAdjustment(t, charges, ds, ss) ==
  LET disc == Apply(AmountsOn(ds, t, charges), Len(ds), charges)
      spon == Apply(AmountsOn(ss, t, disc.left), Len(ss), disc.left)
  IN [charges |-> charges, discounts |-> charges - disc.left,
      sponsorships |-> disc.left - spon.left, share |-> spon.left,
      discountLines |-> disc.lines, sponsorLines |-> spon.lines]

-----------------------------------------------------------------------------
(* The two reports.                                                         *)

ChargeType == {"CHARGE", "TUITION_CHARGE"}
PaymentType == {"PAYMENT", "CREDIT"}

RowsOf(t, types) == {i \in DOMAIN ledger : ledger[i].term = t /\ ledger[i].type \in types}
SumOfAmounts(rows) == SumFunctionOnSet([i \in DOMAIN ledger |-> ledger[i].amount], rows)

ClearedCheques(t) == {c \in DOMAIN cheques : cheques[c] = "CLEARED" /\ c.term = t}
CountedLoans(t) == {l \in DOMAIN loans : loans[l] \in {"ACTIVE", "SETTLED"} /\ l.term = t}
SumOfPapers(papers) == SumFunction([p \in papers |-> p.amount])

\* getStudentFinance reads the discounts by descending id.
ById(rows) ==
  LET order == CHOOSE p \in Bijection(DOMAIN rows, DOMAIN rows) :
                 \A i, j \in DOMAIN rows : i < j => rows[p[i]].id >= rows[p[j]].id
  IN [i \in DOMAIN rows |-> rows[order[i]]]

Adjustment(t) ==
  TermAdjustment(t, SumOfAmounts(RowsOf(t, ChargeType)), ById(discounts), ById(sponsors))

\* buildTranscript: the balance of one term of the statement.
TermBalance(t) ==
  LET a == Adjustment(t)
  IN a.charges - a.discounts - a.sponsorships - SumOfAmounts(RowsOf(t, PaymentType))
     - SumOfPapers(ClearedCheques(t)) - SumOfPapers(CountedLoans(t))

\* transcriptTotals
StatementBalance == SumFunction([t \in TermKey |-> TermBalance(t)])

\* listFinanceStudents hands computeTermAdjustments one entry per term and type.
WorklistEntries ==
  {[term |-> t, type |-> y] : t \in TermKey, y \in ChargeType} \intersect
  {[term |-> r.term, type |-> r.type] : r \in {ledger[i] : i \in DOMAIN ledger}}

WorklistShare(e) ==
  TermAdjustment(e.term, SumOfAmounts(RowsOf(e.term, {e.type})), discounts, sponsors).share

\* Mutant: cheques on their way count as well.
WorklistCountingPending ==
  SumFunction([e \in WorklistEntries |-> WorklistShare(e)])
  - SumFunction([t \in TermKey |-> SumOfAmounts(RowsOf(t, PaymentType))])
  - SumOfPapers({c \in DOMAIN cheques : cheques[c] \in {"CLEARED", "PENDING"}})
  - SumOfPapers({l \in DOMAIN loans : loans[l] \in {"ACTIVE", "SETTLED"}})

WorklistBalance ==
  SumFunction([e \in WorklistEntries |-> WorklistShare(e)])
  - SumFunction([t \in TermKey |-> SumOfAmounts(RowsOf(t, PaymentType))])
  - SumOfPapers({c \in DOMAIN cheques : cheques[c] = "CLEARED"})
  - SumOfPapers({l \in DOMAIN loans : loans[l] \in {"ACTIVE", "SETTLED"}})

-----------------------------------------------------------------------------
(* The formula.                                                             *)

Unless(field, ok) == field = 0 \/ ok

\* formulaMatches: a field that is null does not restrict.
FormulaMatches(f, s) ==
  /\ f.active
  /\ Unless(f.degree, f.degree = s.degree)
  /\ Unless(f.major, f.major = s.major)
  /\ Unless(f.from, s.year # 0 /\ s.year >= f.from)
  /\ Unless(f.to, s.year # 0 /\ s.year <= f.to)

NoFormula == [id |-> 0]

\* Mutant: among equal priorities the first row wins.
BetterByPriority(best, f) == IF f.priority < best.priority THEN f ELSE best

\* The smaller priority, and of equal priorities the smaller id.
Better(best, f) ==
  IF f.priority # best.priority
  THEN IF f.priority < best.priority THEN f ELSE best
  ELSE IF f.id < best.id THEN f ELSE best

\* The best of the rows that match, taken one after the other.
PickFormula(rows, s) ==
  LET best[i \in 0..Len(rows)] ==
        IF i = 0 THEN NoFormula
        ELSE IF ~FormulaMatches(rows[i], s) THEN best[i - 1]
        ELSE IF best[i - 1] = NoFormula THEN rows[i] ELSE Better(best[i - 1], rows[i])
  IN best[Len(rows)]

\* Mutant: the units that are neither theory nor practice are lost.
BucketsWithoutRest(c) ==
  IF c.general THEN [theory |-> 0, practical |-> 0, general |-> c.units]
  ELSE LET practical == Least(c.units, c.practical)
       IN [theory |-> Least(c.units - practical, c.theory),
           practical |-> practical, general |-> 0]

\* bucketCourseUnits: what the columns leave over is theory.
BucketCourseUnits(c) ==
  IF c.general THEN [theory |-> 0, practical |-> 0, general |-> c.units]
  ELSE LET practical == Least(c.units, c.practical)
           theory == Least(c.units - practical, c.theory)
       IN [theory |-> theory + (c.units - practical - theory),
           practical |-> practical, general |-> 0]

TotalBuckets(cs) ==
  [theory |-> SumFunction([c \in cs |-> BucketCourseUnits(c).theory]),
   practical |-> SumFunction([c \in cs |-> BucketCourseUnits(c).practical]),
   general |-> SumFunction([c \in cs |-> BucketCourseUnits(c).general])]

TuitionFromFormula(f, b) ==
  ToRial(f.fixed, 1)
  + ToRial(b.theory * f.theory + b.practical * f.practical + b.general * f.general, 1)

-----------------------------------------------------------------------------
Insert(t, type, amount) ==
  /\ Len(ledger) < MaxLedger
  /\ ledger' = Append(ledger, [term |-> t, type |-> type, amount |-> amount])

\* recordLedgerAction
RecordLedger(t, type, amount) ==
  /\ type \in {"PAYMENT", "CHARGE"}
  /\ Insert(t, type, amount)
  /\ UNCHANGED <<discounts, sponsors, cheques, loans, taken, formulas, student>>

\* Mutant: a charge of nothing is inserted too.
ChargeOfNothing(t) ==
  LET f == PickFormula(formulas, student)
      total == TuitionFromFormula(f, TotalBuckets(taken))
  IN /\ f # NoFormula
     /\ Insert(t, "TUITION_CHARGE", total)
     /\ UNCHANGED <<discounts, sponsors, cheques, loans, taken, formulas, student>>

\* chargeByFormulaAction: one more charge at every click.
ChargeByFormula(t) ==
  LET f == PickFormula(formulas, student)
      total == TuitionFromFormula(f, TotalBuckets(taken))
  IN /\ f # NoFormula
     /\ total > 0
     /\ Insert(t, "TUITION_CHARGE", total)
     /\ UNCHANGED <<discounts, sponsors, cheques, loans, taken, formulas, student>>

\* addDiscountAction without approval, setDiscountStatusAction to APPROVED.
ApproveDiscount(d) ==
  /\ Len(discounts) < MaxRelief
  /\ \A i \in DOMAIN discounts : discounts[i] # d
  /\ discounts' = Append(discounts, d)
  /\ UNCHANGED <<ledger, sponsors, cheques, loans, taken, formulas, student>>

\* setSponsorshipStatusAction to CONFIRMED or PAID.
ConfirmSponsorship(s) ==
  /\ Len(sponsors) < MaxRelief
  /\ \A i \in DOMAIN sponsors : sponsors[i] # s
  /\ sponsors' = Append(sponsors, s)
  /\ UNCHANGED <<ledger, discounts, cheques, loans, taken, formulas, student>>

\* addChequeAction, and setChequeStatusAction back to PENDING.
AwaitCheque(c) ==
  /\ cheques[c] \in {"NONE", "BOUNCED", "CANCELLED"}
  /\ cheques' = [cheques EXCEPT ![c] = "PENDING"]
  /\ UNCHANGED <<ledger, discounts, sponsors, loans, taken, formulas, student>>

\* setChequeStatusAction to BOUNCED or CANCELLED.
RefuseCheque(c, to) ==
  /\ cheques[c] \notin {"NONE", "CLEARED"}
  /\ cheques' = [cheques EXCEPT ![c] = to]
  /\ UNCHANGED <<ledger, discounts, sponsors, loans, taken, formulas, student>>

\* clearCheque: a payment in the ledger, and the cheque CLEARED.
ClearCheque(c) ==
  /\ cheques[c] = "PENDING"
  /\ Insert(c.term, "PAYMENT", c.amount)
  /\ cheques' = [cheques EXCEPT ![c] = "CLEARED"]
  /\ UNCHANGED <<discounts, sponsors, loans, taken, formulas, student>>

\* addLoanAction and setLoanStatusAction.
DecideLoan(l, to) ==
  /\ loans[l] \notin {"SETTLED", "CANCELLED"}
  /\ loans[l] = "NONE" => to = "ACTIVE"
  /\ loans' = [loans EXCEPT ![l] = to]
  /\ UNCHANGED <<ledger, discounts, sponsors, cheques, taken, formulas, student>>

\* The enrollment of a course of the term.
TakeCourse(c) ==
  /\ c \notin taken
  /\ taken' = taken \union {c}
  /\ UNCHANGED <<ledger, discounts, sponsors, cheques, loans, formulas, student>>

Init ==
  /\ ledger = << >> /\ discounts = << >> /\ sponsors = << >>
  /\ cheques = [c \in Cheque |-> "NONE"]
  /\ loans = [l \in Loan |-> "NONE"]
  /\ taken = {}
  /\ formulas \in SetToSeqs(Formula)
  /\ student \in Student

Next ==
  \/ \E t \in TermKey, type \in {"PAYMENT", "CHARGE"}, a \in Amount : RecordLedger(t, type, a)
  \/ \E t \in Term : ChargeByFormula(t)
  \/ \E d \in Discount : ApproveDiscount(d)
  \/ \E s \in Sponsorship : ConfirmSponsorship(s)
  \/ \E c \in Cheque : AwaitCheque(c) \/ ClearCheque(c) \/ \E to \in {"BOUNCED", "CANCELLED"} : RefuseCheque(c, to)
  \/ \E l \in Loan, to \in {"ACTIVE", "SETTLED", "CANCELLED"} : DecideLoan(l, to)
  \/ \E c \in Course : TakeCourse(c)

Spec == Init /\ [][Next]_vars

-----------------------------------------------------------------------------
LedgerRow == [term : TermKey, type : ChargeType \union PaymentType, amount : Nat \ {0}]

TypeOK ==
  /\ ledger \in Seq(LedgerRow)
  /\ discounts \in Seq(Discount)
  /\ sponsors \in Seq(Sponsorship)
  /\ cheques \in [Cheque -> {"NONE", "PENDING", "CLEARED", "BOUNCED", "CANCELLED"}]
  /\ loans \in [Loan -> {"NONE", "ACTIVE", "SETTLED", "CANCELLED"}]
  /\ taken \subseteq Course
  /\ formulas \in Seq(Formula)
  /\ student \in Student

\* Terms with charges of both types, and what such a term has left of its charges
\* when each type is relieved on its own.
Mixed == {t \in TermKey : \A y \in ChargeType : RowsOf(t, {y}) # {}}
SplitShare(t) ==
  WorklistShare([term |-> t, type |-> "CHARGE"])
  + WorklistShare([term |-> t, type |-> "TUITION_CHARGE"])

\* The comments of both functions promise one balance on the worklist and on the
\* statement.  They part in one way only, whatever rows there are in whatever
\* order: the worklist relieves each type of charge of a term on its own, so a
\* term charged in both types has its fixed amounts taken off, and its caps
\* applied, twice.
ReportsDifferByRelief ==
  StatementBalance - WorklistBalance
    = SumFunction([t \in Mixed |-> Adjustment(t).share - SplitShare(t)])

\* What the reliefs of a term come to is the reference: the sum of the discounts up
\* to the charges, the sum of the sponsorships up to what is then left; every line
\* is part of it, and no term is ever relieved of more than it was charged.
ReliefIsCapped ==
  \A t \in TermKey :
    LET a == Adjustment(t)
        asked == SumFunction(AmountsOn(discounts, t, a.charges))
        net == a.charges - a.discounts
        covered == SumFunction(AmountsOn(sponsors, t, net))
    IN /\ a.discounts = Least(asked, a.charges)
       /\ a.sponsorships = Least(covered, net)
       /\ SumFunction(a.discountLines) = a.discounts
       /\ SumFunction(a.sponsorLines) = a.sponsorships
       /\ a.share = net - a.sponsorships

\* The formula that charges a student depends on the formulas, not on the order of
\* the rows: it matches, and no other that matches comes before it by priority, id.
FormulaIsDetermined ==
  LET matching == {f \in Formula : FormulaMatches(f, student)}
      picked == PickFormula(formulas, student)
  IN IF matching = {} THEN picked = NoFormula
     ELSE /\ picked \in matching
          /\ \A f \in matching : \/ f.priority > picked.priority
                                 \/ f.priority = picked.priority /\ f.id >= picked.id

\* The three buckets hold every unit of the courses taken, whatever the theory and
\* practice columns of a course say.
EveryUnitIsCharged ==
  LET b == TotalBuckets(taken)
  IN b.theory + b.practical + b.general = SumFunction([c \in taken |-> c.units])
=============================================================================
