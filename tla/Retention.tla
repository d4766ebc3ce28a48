------------------------------ MODULE Retention ------------------------------
(***************************************************************************)
(* How long a memory is kept: consent, retention windows, the worker that  *)
(* enforces them, and what the context gates read of the same state before *)
(* the worker comes round.                                                 *)
(*                                                                         *)
(* Times are half days, so that a window can end inside a day.             *)
(***************************************************************************)
EXTENDS Naturals

CONSTANT Forever    \* later than every time: no window, no expiry

ASSUME TimeAssumption == Forever \in Nat

Day == 2

Sensitivities == {"low", "medium", "high"}

Packs ==
  [default  |-> [low |-> 365, medium |-> 180, high |-> 90],
   strict   |-> [low |-> 180, medium |-> 90,  high |-> 30],
   extended |-> [low |-> Forever, medium |-> 365, high |-> 180]]

\* The days a pack keeps a label; an unknown pack is the default one.
WindowDays(policy, sensitivity) ==
  Packs[IF policy \in DOMAIN Packs THEN policy ELSE "default"][sensitivity]

\* No consent on record counts as granted without end.
ConsentStatus(row, now) ==
  IF row.consent.status = "withdrawn" THEN "withdrawn"
  ELSE IF now >= row.consent.until THEN "expired"
  ELSE row.consent.status

ConsentRevoked(row, now) == ConsentStatus(row, now) \in {"withdrawn", "expired"}

RetentionExempt(row) == row.legalHold \/ row.pinned \/ row.protected

\* Whole days, rounded down.
AgeDays(row, now) == IF now < row.created THEN 0 ELSE (now - row.created) \div Day

ExpiresAt(row, policy) ==
  LET days == WindowDays(policy, row.sensitivity)
  IN  IF days = Forever THEN Forever ELSE row.created + days * Day

Evaluate(row, now, policy) ==
  IF RetentionExempt(row) THEN "held"
  ELSE IF ConsentRevoked(row, now) THEN "consent_revoked"
  ELSE IF AgeDays(row, now) >= WindowDays(policy, row.sensitivity) THEN "expired"
  ELSE "retain"

EligibleForDeletion(outcome) == outcome \in {"expired", "consent_revoked"}

RetentionPassFromNow(row, now, policy, preview) ==
  IF preview \/ row.status # "active" THEN row
  ELSE IF EligibleForDeletion(Evaluate(row, now, policy)) THEN [row EXCEPT !.status = "deleted"]
  ELSE [row EXCEPT !.expiresAt = ExpiresAt([row EXCEPT !.created = now], policy)]

\* One row in one pass: deleted when due, else stamped with the end of its window.
RetentionPass(row, now, policy, preview) ==
  IF preview \/ row.status # "active" THEN row
  ELSE IF EligibleForDeletion(Evaluate(row, now, policy)) THEN [row EXCEPT !.status = "deleted"]
  ELSE [row EXCEPT !.expiresAt = ExpiresAt(row, policy)]
=============================================================================
