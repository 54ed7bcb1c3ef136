-------------------------- MODULE WorkflowTemplates --------------------------
(***************************************************************************)
(* The process definitions the workflow engine seeds into                   *)
(* process_definitions / process_steps (BUILTIN_PROCESSES).  A process is   *)
(* the sequence of its steps in stepOrder; of a step only what the engine   *)
(* branches on is kept: its type and what the SLA engine does when the      *)
(* step is overdue.  All five templates give every step a positive slaHours.*)
(***************************************************************************)
EXTENDS Sequences

TimeoutAction == {"ESCALATE", "AUTO_APPROVE", "AUTO_REJECT", "NOTIFY"}

StepType == {"USER", "AUTO_INTEGRATION", "PARALLEL_GATEWAY"}

ProcessStep == [type : StepType, timeout : TimeoutAction]

EnrollmentCert ==
  << [type |-> "AUTO_INTEGRATION", timeout |-> "AUTO_APPROVE"],
     [type |-> "USER",             timeout |-> "AUTO_APPROVE"] >>

CourseTransfer ==
  << [type |-> "USER", timeout |-> "ESCALATE"],      \* head of department
     [type |-> "USER", timeout |-> "AUTO_APPROVE"] >> \* education office

ThesisDefense ==
  << [type |-> "USER", timeout |-> "ESCALATE"],
     [type |-> "USER", timeout |-> "ESCALATE"],
     [type |-> "USER", timeout |-> "NOTIFY"] >>

GraduationCheckout ==
  << [type |-> "PARALLEL_GATEWAY", timeout |-> "NOTIFY"],
     [type |-> "USER",             timeout |-> "ESCALATE"] >>

EmergencyDrop ==
  << [type |-> "USER", timeout |-> "AUTO_APPROVE"],
     [type |-> "USER", timeout |-> "AUTO_APPROVE"] >>

BuiltinProcesses ==
  [ENROLLMENT_CERT     |-> EnrollmentCert,
   COURSE_TRANSFER     |-> CourseTransfer,
   THESIS_DEFENSE      |-> ThesisDefense,
   GRADUATION_CHECKOUT |-> GraduationCheckout,
   EMERGENCY_DROP      |-> EmergencyDrop]
=============================================================================
