---------------------------- MODULE OrderStates ----------------------------
(***************************************************************************)
(* The order state machine of the ledger database: the statuses of an      *)
(* order, the transitions the trigger orders_validate_transition lets      *)
(* through, and the three ways the rest of the schema groups the statuses. *)
(***************************************************************************)

\* An order not yet inserted has status "none"; the others are order_status.
Statuses ==
    { "none", "PROPOSED", "VALIDATED", "PENDING_APPROVAL", "SUBMITTED",
      "PARTIALLY_FILLED", "FILLED", "CANCELLED", "REJECTED", "EXPIRED",
      "FILL_PENDING_RECONSTRUCTION" }

\* order_transition_allowed: the table of legal (from, to) pairs.
TransitionAllowed ==
    ( {"PROPOSED"} \X {"VALIDATED", "REJECTED"} )
    \cup ( {"VALIDATED"} \X {"PENDING_APPROVAL", "SUBMITTED",
                             "FILL_PENDING_RECONSTRUCTION", "REJECTED"} )
    \cup ( {"PENDING_APPROVAL"} \X {"SUBMITTED", "EXPIRED", "CANCELLED"} )
    \cup ( {"SUBMITTED"} \X {"PARTIALLY_FILLED", "FILLED", "CANCELLED",
                             "REJECTED", "EXPIRED"} )
    \cup ( {"PARTIALLY_FILLED"} \X {"FILLED", "CANCELLED", "EXPIRED"} )
    \cup ( {"FILL_PENDING_RECONSTRUCTION"} \X {"FILLED", "EXPIRED", "CANCELLED"} )

\* orders_validate_transition: a legal pair, and never the LIVE-only status.
MayMove(from, to) ==
    /\ <<from, to>> \in TransitionAllowed
    /\ to # "PENDING_APPROVAL"

\* Mutant: a partially filled order counts as closed.
OpenWithoutPartial ==
    { "PROPOSED", "VALIDATED", "PENDING_APPROVAL", "SUBMITTED",
      "FILL_PENDING_RECONSTRUCTION" }

\* order_is_open: the statuses in which an order still holds its reservation.
OpenStatuses ==
    { "PROPOSED", "VALIDATED", "PENDING_APPROVAL", "SUBMITTED",
      "PARTIALLY_FILLED", "FILL_PENDING_RECONSTRUCTION" }

\* fills_check_eligibility: the statuses in which a fill row may be inserted.
FillStatuses ==
    { "SUBMITTED", "PARTIALLY_FILLED", "FILL_PENDING_RECONSTRUCTION", "FILLED" }

\* open_broker_orders and reconcile: the statuses an activity may advance.
WorkingStatuses == { "SUBMITTED", "PARTIALLY_FILLED" }
=============================================================================
