-------------------------- MODULE MCTicketWorkflow --------------------------
(* Small instances of TicketWorkflow for TLC.                              *)
EXTENDS TicketWorkflow, TLC

CONSTANTS tier1, lead, admin, customer

(* A first-line analyst, a second-line lead who also administers, an       *)
(* administrator without a tier and a customer, two of them at a time.     *)
HandlersRoles == (tier1 :> {"T1"}) @@ (lead :> {"T2", "ADMIN"})
AdminAndCustomerRoles == (admin :> {"ADMIN"}) @@ (customer :> {"CUSTOMER"})

OwnershipOnly == OwnershipOps \cup AnswerOps
StatusDuringEscalation == StatusOps \cup {"escalate_user"} \cup AnswerOps

AnswersOnly == {"escalate_user"} \cup AnswerOps

RequestSymmetry == Permutations(Requests)
Symmetry == RequestSymmetry \cup Permutations(Escalations)
=============================================================================
