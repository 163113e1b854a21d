----------------------------- MODULE QuotaLaws ------------------------------
(***************************************************************************)
(* Any sequence of quota payloads applied to a session, as                 *)
(* ApplyQuotaPayload does without concurrency, to check the arithmetic of  *)
(* Quota.tla on all small values, the contradictory ones included.         *)
(***************************************************************************)
EXTENDS Quota

CONSTANT MaxQuota     \* bound: the largest quota reported

ASSUME MaxQuotaAssumption == MaxQuota \in Nat

VARIABLES
  balance,  \* RandomIPSession, as far as quotas go
  payload   \* the payload applied last

quotaVars == <<balance, payload>>

Values == 0..MaxQuota \cup {NoValue}

Payloads == [remaining : Values, total : Values, used : Values]

Empty == [remaining |-> NoValue, total |-> NoValue, used |-> NoValue]

QuotaInit ==
  /\ balance \in [user : {0, 1}, remaining : {0}, total : {0}, used : {0}, known : {FALSE}]
  /\ payload = Empty

ApplyQuotaPayload(p) ==
  LET quota == resolveQuotaFromPayload(p, balance)
  IN  /\ balance' = normalizeSession(
             [balance EXCEPT !.remaining = quota.remaining, !.total = quota.total,
                             !.used = quota.used, !.known = quota.known])
      /\ payload' = p

QuotaNext == \E p \in Payloads : ApplyQuotaPayload(p)

QuotaSpec == QuotaInit /\ [][QuotaNext]_quotaVars

\* Whatever the service reports, what is left and what is used add up to the
\* total, and only a user's quota with something in it counts as known.
Balanced ==
  /\ balance.remaining >= 0 /\ balance.used >= 0
  /\ balance.remaining + balance.used = balance.total
  /\ balance.known => balance.user > 0 /\ balance.total > 0

\* An answer that arrives twice (a repeated call) changes nothing more.
AppliedOnce ==
  LET again == resolveQuotaFromPayload(payload, balance)
  IN  payload # Empty =>
        /\ again.remaining = balance.remaining
        /\ again.total = balance.total
        /\ again.used = balance.used

=============================================================================
