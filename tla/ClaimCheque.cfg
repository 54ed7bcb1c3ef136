SPECIFICATION AccountSpec
CONSTANTS
  Term = {1, 2}
  Amount = {100, 45}
  Discount <- SomeDiscounts
  Sponsorship <- SomeSponsorships
  Cheque <- SomeCheques
  Loan <- SomeLoans
  Formula <- SomeFormulas
  Student <- SomeStudents
  Course <- SomeCourses
  MaxLedger = 3
  MaxRelief = 2
  MaxRows = 4
PROPERTY ChequeCountsOnce
CHECK_DEADLOCK FALSE
