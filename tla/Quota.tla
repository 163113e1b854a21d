------------------------------- MODULE Quota --------------------------------
(***************************************************************************)
(* The quota arithmetic of the official proxy account                      *)
(* (surveycore/proxy/quota.go).  Quotas are integers here, one unit being  *)
(* the smallest the service uses; NoValue stands for nil and for every     *)
(* value optionalNonNegativeFloat rejects.                                 *)
(***************************************************************************)
EXTENDS Integers, FiniteSets

NoValue == -1

Larger(a, b) == IF a < b THEN b ELSE a

\* A slip: the total is not raised to what it must hold.
NormalizeUnraised(remaining, total, used, defaultTotal) ==
  LET known == IF total = NoValue THEN Larger(defaultTotal, 0) ELSE total
  IN  IF used # NoValue
      THEN [remaining |-> Larger(known - used, 0), total |-> known, used |-> used]
      ELSE IF remaining # NoValue
      THEN [remaining |-> remaining, total |-> known, used |-> Larger(known - remaining, 0)]
      ELSE [remaining |-> known, total |-> known, used |-> 0]

\* NormalizeQuotaState: a used quota decides, else a remaining one; the total
\* is raised to whichever decides.
NormalizeQuotaState(remaining, total, used, defaultTotal) ==
  LET known == IF total = NoValue THEN Larger(defaultTotal, 0) ELSE total
  IN  IF used # NoValue
      THEN [remaining |-> Larger(known, used) - used,
            total |-> Larger(known, used), used |-> used]
      ELSE IF remaining # NoValue
      THEN [remaining |-> remaining, total |-> Larger(known, remaining),
            used |-> Larger(known, remaining) - remaining]
      ELSE [remaining |-> known, total |-> known, used |-> 0]

\* normalizeSession: the quota of a session, and whether it counts as known.
normalizeSession(s) ==
  LET q == NormalizeQuotaState(s.remaining, s.total, s.used, 0)
  IN  [s EXCEPT !.remaining = q.remaining, !.total = q.total, !.used = q.used,
                !.known = s.user > 0 /\ s.known /\ (q.total > 0 \/ q.used > 0)]

\* A payload may hold more than quotas.
Reported(payload) == {f \in {"remaining", "total", "used"} : payload[f] # NoValue}

\* A slip: a lone used quota is added to what was used before.
ResolveAdding(payload, fallback) ==
  LET old == NormalizeQuotaState(fallback.remaining, fallback.total, fallback.used, 0)
      more == IF payload.used = NoValue THEN 0 ELSE payload.used
      quota == NormalizeQuotaState(NoValue, old.total, old.used + more, old.total)
  IN  [remaining |-> quota.remaining, total |-> quota.total, used |-> quota.used,
       known |-> Reported(payload) # {}]

\* The quota a payload and the session before it add up to: two reported
\* values stand by themselves, one needs a known quota to complete it.
resolveQuotaFromPayload(payload, fallback) ==
  LET old == NormalizeQuotaState(fallback.remaining, fallback.total, fallback.used, 0)
      reported == Cardinality(Reported(payload))
      candidate ==
        IF reported >= 2
        THEN NormalizeQuotaState(payload.remaining, payload.total, payload.used, old.total)
        ELSE IF payload.remaining # NoValue
        THEN NormalizeQuotaState(payload.remaining, old.total, NoValue, old.total)
        ELSE IF payload.total # NoValue
        THEN NormalizeQuotaState(NoValue, payload.total, old.used, payload.total)
        ELSE NormalizeQuotaState(NoValue, old.total, payload.used, old.total)
      usable == (reported >= 2 \/ (reported = 1 /\ fallback.known))
                  /\ (candidate.total > 0 \/ candidate.used > 0)
      quota == IF usable THEN candidate ELSE old
  IN  [remaining |-> quota.remaining, total |-> quota.total, used |-> quota.used,
       known |-> usable]

=============================================================================
