------------------------------- MODULE Problems --------------------------------
(***************************************************************************)
(* The errors of domain/errors.ts, named by their codes, and the statuses  *)
(* that errorHandler answers them with.  Whatever is no DomainError and no *)
(* failed validation is an internal error, a violated constraint of the    *)
(* database too, except for what the double-entry trigger raises.          *)
(***************************************************************************)

NotFound == {"account_not_found", "transaction_not_found"}
Conflict == {"account_frozen", "idempotency_conflict"}
BadRequest == {"idempotency_key_required", "validation_error"}
Unprocessable == {"unbalanced_transaction", "currency_mismatch", "unsupported_currency",
                  "invalid_amount", "double_entry_violation"}

Refusals == NotFound \cup Conflict \cup BadRequest \cup Unprocessable

\* mapDomainError, and the rest of errorHandler.
StatusOf(code) ==
    CASE code \in NotFound -> 404
      [] code \in Conflict -> 409
      [] code \in BadRequest -> 400
      [] code \in Unprocessable -> 422
      [] OTHER -> 500
=============================================================================
