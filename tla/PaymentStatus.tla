--------------------------- MODULE PaymentStatus ---------------------------
(***************************************************************************)
(* The vocabulary of the payment ledger: the statuses of a payment         *)
(* transaction and of a booking, and the state machine that models/payment *)
(* declares "authoritative" over the former.  Pure data, no variables.     *)
(***************************************************************************)

TxStatus == {"PENDING", "PROCESSING", "SUCCESSFUL", "FAILED", "CANCELLED",
             "EXPIRED", "REFUND_PENDING", "PARTIALLY_REFUNDED", "REFUNDED"}

\* The booking statuses the payment code distinguishes (it treats REJECTED as
\* CANCELLED and leaves the operational ones alone).
BookingStatus == {"PENDING", "CONFIRMED", "CANCELLED"}

InvoiceStatus == {"NONE", "PAID", "PARTIALLY_PAID", "CANCELLED"}

\* PaymentStateMachine.ALLOWED_TRANSITIONS.
AllowedTransitions ==
    [s \in TxStatus |->
        CASE s = "PENDING" -> {"PROCESSING", "SUCCESSFUL", "FAILED",
                               "CANCELLED", "EXPIRED"}
          [] s = "PROCESSING" -> {"SUCCESSFUL", "FAILED", "CANCELLED", "EXPIRED"}
          [] s = "SUCCESSFUL" -> {"REFUND_PENDING", "PARTIALLY_REFUNDED", "REFUNDED"}
          [] s = "REFUND_PENDING" -> {"PARTIALLY_REFUNDED", "REFUNDED", "SUCCESSFUL"}
          [] s = "PARTIALLY_REFUNDED" -> {"REFUNDED", "PARTIALLY_REFUNDED"}
          [] OTHER -> {}]

\* PaymentStateMachine.can_transition.
CanTransition(current, target) ==
    current = target \/ target \in AllowedTransitions[current]

\* The statuses handle_verified_payment and reconcile_booking_payment revive
\* without asking the state machine.
Recoverable == {"FAILED", "EXPIRED", "CANCELLED"}

\* Statuses of a row that still waits for its money.
Open == {"PENDING", "PROCESSING"}

\* Statuses a refund event may act on.
Settled == {"SUCCESSFUL", "PARTIALLY_REFUNDED", "REFUNDED"}
=============================================================================
