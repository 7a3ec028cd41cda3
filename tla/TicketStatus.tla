---------------------------- MODULE TicketStatus ----------------------------
(***************************************************************************)
(* The main status of a ticket and the operations that move it:            *)
(* _available_actions and execute_ticket_action of                         *)
(* backend/app/modules/tickets/service.py.                                 *)
(***************************************************************************)

Statuses == {"WAITING_RESPONSE", "IN_PROGRESS", "RESPONSE_TIMEOUT",
             "RESOLUTION_TIMEOUT", "RESOLVED", "CLOSED", "REOPENED"}

StatusAllows(op, status) ==
    /\ op = "respond" => status \in {"WAITING_RESPONSE", "RESPONSE_TIMEOUT"}
    /\ op = "resolve" => status \in {"IN_PROGRESS", "RESPONSE_TIMEOUT", "RESOLUTION_TIMEOUT"}
    /\ op = "close" => status = "RESOLVED"
    /\ op = "reopen" => status = "CLOSED"

MainStatusAfter(op, status) ==
    CASE op = "respond" /\ status \in {"WAITING_RESPONSE", "REOPENED"} -> "IN_PROGRESS"
      [] op = "resolve" -> "RESOLVED"
      [] op = "close"   -> "CLOSED"
      [] op = "reopen"  -> "WAITING_RESPONSE"
      [] OTHER          -> status
=============================================================================
