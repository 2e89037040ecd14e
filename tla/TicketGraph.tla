----------------------------- MODULE TicketGraph -----------------------------
(* The ITIL record types, their states and the transitions each allows.        *)
(* (models/ticketing)                                                          *)

\* Only changes have a graph of their own; "remediation" stands for the types
\* that use the default one.
TicketTypes == {"remediation", "change"}

OpenTicketStates == {"open", "in_progress", "on_hold", "awaiting_approval",
                     "approved", "scheduled", "implemented", "verifying"}

TicketStates == OpenTicketStates \cup {"rejected", "resolved", "closed", "cancelled"}

DefaultTransitions ==
  [s \in TicketStates |->
     CASE s = "open"        -> {"in_progress", "on_hold", "cancelled", "resolved"}
       [] s = "in_progress" -> {"on_hold", "resolved", "cancelled", "verifying"}
       [] s = "on_hold"     -> {"in_progress", "cancelled"}
       [] s = "verifying"   -> {"resolved", "in_progress"}
       [] s = "resolved"    -> {"closed", "in_progress"}
       [] OTHER             -> {}]

ChangeTransitions ==
  [s \in TicketStates |->
     CASE s = "open"              -> {"awaiting_approval", "cancelled"}
       [] s = "awaiting_approval" -> {"approved", "rejected", "cancelled"}
       [] s = "approved"          -> {"scheduled", "cancelled"}
       [] s = "rejected"          -> {"open", "cancelled"}
       [] s = "scheduled"         -> {"implemented", "cancelled", "on_hold"}
       [] s = "on_hold"           -> {"scheduled", "cancelled"}
       [] s = "implemented"       -> {"verifying", "cancelled"}
       [] s = "verifying"         -> {"resolved", "implemented"}
       [] s = "resolved"          -> {"closed"}
       [] OTHER                   -> {}]

AllowedTicketTransitions(type, current) ==
  IF type = "change" THEN ChangeTransitions[current] ELSE DefaultTransitions[current]

CanTransitionTicket(type, current, target) ==
  target \in AllowedTicketTransitions(type, current)

\* The states a change reaches only through its approval.
WorkStates == {"scheduled", "on_hold", "implemented", "verifying", "resolved", "closed"}
=============================================================================
