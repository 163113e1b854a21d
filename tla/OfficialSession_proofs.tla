----------------------- MODULE OfficialSession_proofs -----------------------
(***************************************************************************)
(* Proofs about the quota arithmetic, for quotas of any size, and about    *)
(* the session with the official proxy service that keeps such a quota,    *)
(* for any number of calls, failures, clears and restarts and accounts of  *)
(* any size.                                                               *)
(*                                                                         *)
(* The lemmas of the first part say what the operators of Quota answer:    *)
(* something balanced, whatever they are given; a balanced quota is its    *)
(* own normal form; and reports that stay within the account lead to       *)
(* nothing beyond it.  Its theorems are about any sequence of reports.     *)
(*                                                                         *)
(* The invariant of the second part says what the calls under way know:    *)
(* the device id of the session they hold, and, unless somebody cleared    *)
(* the session, its user.  Beside it every session anywhere is normal, so  *)
(* that storing and loading it again changes nothing.                      *)
(***************************************************************************)
EXTENDS OfficialSession, QuotaLaws, FiniteSetTheorems, TLAPS


-----------------------------------------------------------------------------
(* The quota arithmetic: what the operators of Quota answer                *)

\* What a payload or a session may hold for one of the three values.
Known == Nat \cup {NoValue}

Quotas == [remaining : Nat, total : Nat, used : Nat]

Adds(q) == q \in Quotas /\ q.remaining + q.used = q.total

\* NormalizeQuotaState (quota.go:18) answers three natural numbers of which two
\* add up to the third, whatever it is given.
LEMMA NormalizedIsBalanced ==
  ASSUME NEW r \in Known, NEW t \in Known, NEW u \in Known, NEW d \in Nat
  PROVE  Adds(NormalizeQuotaState(r, t, u, d))
BY DEF NormalizeQuotaState, Larger, Known, NoValue, Quotas, Adds

\* A balanced quota is its own normal form (quota.go:80 is idempotent).
LEMMA BalancedIsNormal ==
  ASSUME NEW r \in Nat, NEW t \in Nat, NEW u \in Nat, NEW d \in Nat, r + u = t
  PROVE  NormalizeQuotaState(r, t, u, d) = [remaining |-> r, total |-> t, used |-> u]
BY DEF NormalizeQuotaState, Larger, NoValue

\* A used quota decides: the total becomes what it must hold, and no more.
LEMMA UsedDecides ==
  ASSUME NEW r \in Known, NEW t \in Known, NEW u \in Nat, NEW d \in Nat
  PROVE  /\ NormalizeQuotaState(r, t, u, d).used = u
         /\ NormalizeQuotaState(r, t, u, d).total \in {u, d} \cup ({t} \ {NoValue})
BY DEF NormalizeQuotaState, Larger, Known, NoValue

\* A session whose quota is balanced, and known only with something in it.
Balances(s) ==
  /\ s.remaining \in Nat /\ s.total \in Nat /\ s.used \in Nat /\ s.known \in BOOLEAN
  /\ s.remaining + s.used = s.total

Carries(p) == p.remaining \in Known /\ p.total \in Known /\ p.used \in Known

\* Whatever is reported, resolveQuotaFromPayload (quota.go:100) answers a
\* balanced quota, and one with something in it if it calls it known.
LEMMA ResolvedIsBalanced ==
  ASSUME NEW p, Carries(p), NEW s, Balances(s)
  PROVE  LET quota == resolveQuotaFromPayload(p, s)
         IN  /\ quota \in [remaining : Nat, total : Nat, used : Nat, known : BOOLEAN]
             /\ quota.remaining + quota.used = quota.total
             /\ quota.known => quota.total > 0
<1> DEFINE old == NormalizeQuotaState(s.remaining, s.total, s.used, 0)
           both == NormalizeQuotaState(p.remaining, p.total, p.used, old.total)
           left == NormalizeQuotaState(p.remaining, old.total, NoValue, old.total)
           all == NormalizeQuotaState(NoValue, p.total, old.used, p.total)
           gone == NormalizeQuotaState(NoValue, old.total, p.used, old.total)
<1>1. /\ s.remaining \in Known /\ s.total \in Known /\ s.used \in Known
      /\ p.remaining \in Known /\ p.total \in Known /\ p.used \in Known
      /\ NoValue \in Known
  BY DEF Balances, Carries, Known
<1>2. Adds(old)
  BY <1>1, NormalizedIsBalanced
<1>3. old.total \in Nat /\ old.total \in Known /\ old.used \in Known
  BY <1>2 DEF Adds, Quotas, Known
<1>4. Adds(both) /\ Adds(left) /\ Adds(gone)
  BY <1>1, <1>3, NormalizedIsBalanced
<1>5. p.total # NoValue => Adds(all)
  <2>1. p.total # NoValue => p.total \in Nat
    BY <1>1 DEF Known
  <2> QED
    BY <1>1, <1>3, <2>1, NormalizedIsBalanced
<1> DEFINE reported == Cardinality(Reported(p))
           candidate ==
             IF reported >= 2 THEN both
             ELSE IF p.remaining # NoValue THEN left
             ELSE IF p.total # NoValue THEN all ELSE gone
           usable == /\ (reported >= 2 \/ (reported = 1 /\ s.known))
                     /\ (candidate.total > 0 \/ candidate.used > 0)
           quota == IF usable THEN candidate ELSE old
<1>6. Adds(candidate)
  <2> HIDE DEF both, left, all, gone, reported
  <2> QED
    BY <1>4, <1>5
<1>7. Adds(quota)
  <2> HIDE DEF candidate, old, usable
  <2> QED
    BY <1>2, <1>6
<1>8. usable => quota.total > 0
  <2> HIDE DEF candidate
  <2> QED
    BY <1>6 DEF Adds, Quotas
<1>9. usable \in BOOLEAN
  OBVIOUS
<1>10. resolveQuotaFromPayload(p, s) =
         [remaining |-> quota.remaining, total |-> quota.total, used |-> quota.used,
          known |-> usable]
  BY Zenon DEF resolveQuotaFromPayload
<1> HIDE DEF quota, usable
<1> QED
  BY <1>7, <1>8, <1>9, <1>10 DEF Adds, Quotas

\* Two of the three fields make a report of two values.
LEMMA TwoReported ==
  ASSUME NEW p, NEW f \in {"remaining", "total"}, p[f] # NoValue, p.used # NoValue
  PROVE  Cardinality(Reported(p)) >= 2
<1>1. {f, "used"} \subseteq Reported(p) /\ Reported(p) \subseteq {"remaining", "total", "used"}
  BY DEF Reported
<1>2. IsFiniteSet({"remaining", "total", "used"})
  <2>1. IsFiniteSet({"used"})
    BY FS_Singleton
  <2>2. IsFiniteSet({"used"} \cup {"total"})
    BY <2>1, FS_AddElement
  <2>3. IsFiniteSet(({"used"} \cup {"total"}) \cup {"remaining"})
    BY <2>2, FS_AddElement
  <2>4. {"remaining", "total", "used"} = ({"used"} \cup {"total"}) \cup {"remaining"}
    OBVIOUS
  <2> QED
    BY <2>3, <2>4
<1>3. IsFiniteSet(Reported(p))
  BY <1>1, <1>2, FS_Subset
<1>4. Cardinality({f, "used"}) = 2
  <2>1. IsFiniteSet({f}) /\ Cardinality({f}) = 1
    BY FS_Singleton
  <2>2. {f, "used"} = {f} \cup {"used"} /\ "used" \notin {f}
    OBVIOUS
  <2> QED
    BY <2>1, <2>2, FS_AddElement
<1> QED
  BY <1>1, <1>3, <1>4, FS_Subset, FS_CardinalityType

\* A report with the used quota, applied to a session within the account, leads
\* to a quota within it, whichever of the other values it holds.
LEMMA ResolvedWithinAccount ==
  ASSUME NEW gone \in Nat, NEW granted \in Nat, gone <= granted,
         NEW p, Carries(p), p.used \in 0..gone, p.total <= granted,
         NEW s, Balances(s), s.used <= gone, s.total <= granted
  PROVE  LET quota == resolveQuotaFromPayload(p, s)
         IN  quota.used <= gone /\ quota.total <= granted
<1> DEFINE old == NormalizeQuotaState(s.remaining, s.total, s.used, 0)
           both == NormalizeQuotaState(p.remaining, p.total, p.used, old.total)
           left == NormalizeQuotaState(p.remaining, old.total, NoValue, old.total)
           all == NormalizeQuotaState(NoValue, p.total, old.used, p.total)
           lone == NormalizeQuotaState(NoValue, old.total, p.used, old.total)
           reported == Cardinality(Reported(p))
           candidate ==
             IF reported >= 2 THEN both
             ELSE IF p.remaining # NoValue THEN left
             ELSE IF p.total # NoValue THEN all ELSE lone
           usable == /\ (reported >= 2 \/ (reported = 1 /\ s.known))
                     /\ (candidate.total > 0 \/ candidate.used > 0)
           quota == IF usable THEN candidate ELSE old
           Within(q) == q.used <= gone /\ q.total <= granted
<1>1. old = [remaining |-> s.remaining, total |-> s.total, used |-> s.used]
  BY BalancedIsNormal DEF Balances
<1>2. Within(old) /\ old.total \in Nat
  BY <1>1 DEF Balances
<1>3. /\ p.used \in Nat /\ p.used <= gone
      /\ p.remaining \in Known /\ p.total \in Known /\ old.total \in Known
      /\ NoValue \in Known
  BY <1>2 DEF Carries, Known
<1>4. p.used # NoValue
  BY DEF NoValue
<1>5. Within(both)
  <2> HIDE DEF old
  <2>1. /\ both.used = p.used
        /\ both.total \in {p.used, old.total} \cup ({p.total} \ {NoValue})
    BY <1>2, <1>3, UsedDecides
  <2> QED
    BY <1>2, <2>1
<1>6. Within(lone)
  <2> HIDE DEF old
  <2>1. /\ lone.used = p.used
        /\ lone.total \in {p.used, old.total} \cup ({old.total} \ {NoValue})
    BY <1>2, <1>3, UsedDecides
  <2> QED
    BY <1>2, <2>1
<1>7. p.remaining # NoValue \/ p.total # NoValue => reported >= 2
  BY <1>4, TwoReported
<1>8. candidate = both \/ candidate = lone
  <2> HIDE DEF both, left, all, lone, reported
  <2> QED
    BY <1>7
<1>9. Within(quota)
  <2> HIDE DEF old, both, lone, candidate, usable
  <2> QED
    BY <1>2, <1>5, <1>6, <1>8
<1>10. resolveQuotaFromPayload(p, s) =
        [remaining |-> quota.remaining, total |-> quota.total, used |-> quota.used,
         known |-> usable]
  BY Zenon DEF resolveQuotaFromPayload
<1> HIDE DEF quota, usable
<1> QED
  BY <1>9, <1>10

\* Completing a report from what it led to leads to the same: the four ways
\* resolveQuotaFromPayload (quota.go:100) makes a quota, each taken again.
LEMMA CompletedAgain ==
  ASSUME NEW r \in Known, NEW t \in Known, NEW u \in Known, NEW d \in Nat, NEW v \in Nat
  PROVE  LET both == NormalizeQuotaState(r, t, u, d)
             left == NormalizeQuotaState(r, d, NoValue, d)
             all == NormalizeQuotaState(NoValue, t, v, t)
             lone == NormalizeQuotaState(NoValue, d, u, d)
         IN  /\ NormalizeQuotaState(r, t, u, both.total) = both
             /\ r # NoValue => NormalizeQuotaState(r, left.total, NoValue, left.total) = left
             /\ t # NoValue => NormalizeQuotaState(NoValue, t, all.used, t) = all
             /\ u # NoValue => NormalizeQuotaState(NoValue, lone.total, u, lone.total) = lone
<1>1. LET both == NormalizeQuotaState(r, t, u, d)
      IN  NormalizeQuotaState(r, t, u, both.total) = both
  BY DEF NormalizeQuotaState, Larger, Known, NoValue
<1>2. ASSUME r # NoValue
      PROVE  LET left == NormalizeQuotaState(r, d, NoValue, d)
             IN  NormalizeQuotaState(r, left.total, NoValue, left.total) = left
  BY <1>2 DEF NormalizeQuotaState, Larger, Known, NoValue
<1>3. ASSUME t # NoValue
      PROVE  LET all == NormalizeQuotaState(NoValue, t, v, t)
             IN  NormalizeQuotaState(NoValue, t, all.used, t) = all
  BY <1>3 DEF NormalizeQuotaState, Larger, Known, NoValue
<1>4. ASSUME u # NoValue
      PROVE  LET lone == NormalizeQuotaState(NoValue, d, u, d)
             IN  NormalizeQuotaState(NoValue, lone.total, u, lone.total) = lone
  BY <1>4 DEF NormalizeQuotaState, Larger, Known, NoValue
<1> QED
  BY <1>1, <1>2, <1>3, <1>4

\* The same report, applied to the quota it led to (n after s), leaves it as it
\* is, as long as the second session counts as known what the first one did.
LEMMA ResolvedAgain ==
  ASSUME NEW p, Carries(p), NEW s, Balances(s), NEW n, Balances(n),
         n.remaining = resolveQuotaFromPayload(p, s).remaining,
         n.total = resolveQuotaFromPayload(p, s).total,
         n.used = resolveQuotaFromPayload(p, s).used,
         n.known => resolveQuotaFromPayload(p, s).known,
         s.known /\ resolveQuotaFromPayload(p, s).known => n.known
  PROVE  LET again == resolveQuotaFromPayload(p, n)
         IN  /\ again.remaining = n.remaining
             /\ again.total = n.total
             /\ again.used = n.used
<1> DEFINE Values3(x) == [remaining |-> x.remaining, total |-> x.total, used |-> x.used]
           reported == Cardinality(Reported(p))
           Candidate(x) ==
             IF reported >= 2
             THEN NormalizeQuotaState(p.remaining, p.total, p.used, x.total)
             ELSE IF p.remaining # NoValue
             THEN NormalizeQuotaState(p.remaining, x.total, NoValue, x.total)
             ELSE IF p.total # NoValue
             THEN NormalizeQuotaState(NoValue, p.total, x.used, p.total)
             ELSE NormalizeQuotaState(NoValue, x.total, p.used, x.total)
           Usable(x) == /\ (reported >= 2 \/ (reported = 1 /\ x.known))
                        /\ (Candidate(x).total > 0 \/ Candidate(x).used > 0)
           Quota(x) == IF Usable(x) THEN Candidate(x) ELSE Values3(x)
<1>1. ASSUME NEW x, Balances(x)
      PROVE  resolveQuotaFromPayload(p, x) =
               [remaining |-> Quota(x).remaining, total |-> Quota(x).total,
                used |-> Quota(x).used, known |-> Usable(x)]
  <2> DEFINE old == NormalizeQuotaState(x.remaining, x.total, x.used, 0)
             made == IF reported >= 2
                     THEN NormalizeQuotaState(p.remaining, p.total, p.used, old.total)
                     ELSE IF p.remaining # NoValue
                     THEN NormalizeQuotaState(p.remaining, old.total, NoValue, old.total)
                     ELSE IF p.total # NoValue
                     THEN NormalizeQuotaState(NoValue, p.total, old.used, p.total)
                     ELSE NormalizeQuotaState(NoValue, old.total, p.used, old.total)
             use == /\ (reported >= 2 \/ (reported = 1 /\ x.known))
                    /\ (made.total > 0 \/ made.used > 0)
             quota == IF use THEN made ELSE old
  <2>1. old = Values3(x)
    BY <1>1, BalancedIsNormal DEF Balances
  <2>2. old.total = x.total /\ old.used = x.used
    BY <2>1
  <2>3. resolveQuotaFromPayload(p, x) =
          [remaining |-> quota.remaining, total |-> quota.total, used |-> quota.used,
           known |-> use]
    BY Zenon DEF resolveQuotaFromPayload
  <2> HIDE DEF old
  <2>4. made = Candidate(x)
    BY <2>2
  <2> HIDE DEF made, Candidate
  <2>5. use = Usable(x) /\ quota = Quota(x)
    BY <2>1, <2>4
  <2> HIDE DEF use, quota, Quota, Usable
  <2> QED
    BY <2>3, <2>5
<1> HIDE DEF Values3
<1>2. /\ n.remaining = Quota(s).remaining /\ n.total = Quota(s).total
      /\ n.used = Quota(s).used
      /\ n.known => Usable(s)
      /\ s.known /\ Usable(s) => n.known
  <2> HIDE DEF Quota, Usable
  <2>1. resolveQuotaFromPayload(p, s) =
          [remaining |-> Quota(s).remaining, total |-> Quota(s).total,
           used |-> Quota(s).used, known |-> Usable(s)]
    BY <1>1
  <2> QED
    BY <2>1
<1>3. Values3(n).remaining = n.remaining /\ Values3(n).total = n.total /\ Values3(n).used = n.used
  BY DEF Values3
<1>4. CASE ~Usable(s)
  <2>1. /\ n.remaining = s.remaining /\ n.total = s.total /\ n.used = s.used
        /\ n.known = FALSE
    BY <1>2, <1>4 DEF Values3, Balances
  <2>2. Candidate(n) = Candidate(s)
    BY <2>1
  <2>3. ~Usable(n)
    <3> HIDE DEF Candidate
    <3> QED
      BY <1>4, <2>1, <2>2
  <2>4. Quota(n) = Values3(n)
    <3> HIDE DEF Usable
    <3> QED
      BY <2>3
  <2> QED
    BY <1>1, <1>3, <2>4
<1>5. CASE Usable(s)
  <2>1. /\ n.remaining = Candidate(s).remaining /\ n.total = Candidate(s).total
        /\ n.used = Candidate(s).used
    <3> HIDE DEF Usable, Candidate
    <3> QED
      BY <1>2, <1>5
  <2>2. reported >= 2 \/ (reported = 1 /\ s.known /\ n.known)
    <3> HIDE DEF Candidate
    <3> QED
      BY <1>2, <1>5
  <2>3. reported >= 2 \/ p.remaining # NoValue \/ p.total # NoValue \/ p.used # NoValue
    <3> SUFFICES ASSUME p.remaining = NoValue, p.total = NoValue, p.used = NoValue
                 PROVE  reported >= 2
      OBVIOUS
    <3>1. Reported(p) = {}
      BY DEF Reported
    <3>2. reported = 0
      BY <3>1, FS_EmptySet
    <3> QED
      BY <2>2, <3>2
  <2>4. /\ p.remaining \in Known /\ p.total \in Known /\ p.used \in Known
        /\ s.total \in Nat /\ s.used \in Nat
    BY DEF Carries, Balances
  <2>5. Candidate(n) = Candidate(s)
    <3>1. CASE reported >= 2
      BY <2>1, <2>4, <3>1, CompletedAgain
    <3>2. CASE ~(reported >= 2) /\ p.remaining # NoValue
      BY <2>1, <2>4, <3>2, CompletedAgain
    <3>3. CASE ~(reported >= 2) /\ p.remaining = NoValue /\ p.total # NoValue
      BY <2>1, <2>4, <3>3, CompletedAgain
    <3>4. CASE ~(reported >= 2) /\ p.remaining = NoValue /\ p.total = NoValue
      BY <2>1, <2>3, <2>4, <3>4, CompletedAgain
    <3> QED
      BY <3>1, <3>2, <3>3, <3>4
  <2> HIDE DEF Candidate, reported
  <2>6. Quota(n) = Candidate(s)
    BY <1>5, <2>2, <2>5
  <2> QED
    BY <1>1, <2>1, <2>6
<1> QED
  BY <1>4, <1>5

\* normalizeSession (quota.go:80) leaves a balanced quota as it is.
LEMMA NormalizedSession ==
  ASSUME NEW s, Balances(s)
  PROVE  normalizeSession(s) =
           [s EXCEPT !.remaining = s.remaining, !.total = s.total, !.used = s.used,
                     !.known = s.user > 0 /\ s.known /\ (s.total > 0 \/ s.used > 0)]
<1> DEFINE q == NormalizeQuotaState(s.remaining, s.total, s.used, 0)
<1>1. q = [remaining |-> s.remaining, total |-> s.total, used |-> s.used]
  BY BalancedIsNormal DEF Balances
<1>2. q.remaining = s.remaining /\ q.total = s.total /\ q.used = s.used
  BY <1>1
<1>3. normalizeSession(s) =
        [s EXCEPT !.remaining = q.remaining, !.total = q.total, !.used = q.used,
                  !.known = s.user > 0 /\ s.known /\ (q.total > 0 \/ q.used > 0)]
  BY Zenon DEF normalizeSession
<1> HIDE DEF q
<1> QED
  BY <1>2, <1>3

-----------------------------------------------------------------------------
(* Any sequence of reports                                                 *)

QuotaSessions == [user : {0, 1}, remaining : Nat, total : Nat, used : Nat, known : BOOLEAN]

\* The strengthening of Balanced: the values are natural numbers.
QuotaInv == balance \in QuotaSessions /\ Balanced

\* What a report leaves behind: the quota it was resolved to, known to a user.
LEMMA AppliedGives ==
  ASSUME QuotaInv, NEW p \in Payloads, ApplyQuotaPayload(p)
  PROVE  LET quota == resolveQuotaFromPayload(p, balance)
         IN  /\ QuotaInv' /\ payload' = p /\ Carries(p)
             /\ Balances(balance) /\ Balances(balance')
             /\ balance'.remaining = quota.remaining /\ balance'.total = quota.total
             /\ balance'.used = quota.used
             /\ balance'.known = (balance.user > 0 /\ quota.known)
<1> DEFINE quota == resolveQuotaFromPayload(p, balance)
           fresh == [balance EXCEPT !.remaining = quota.remaining, !.total = quota.total,
                                    !.used = quota.used, !.known = quota.known]
           known == fresh.user > 0 /\ fresh.known /\ (fresh.total > 0 \/ fresh.used > 0)
<1>1. Carries(p)
  BY MaxQuotaAssumption DEF Payloads, Values, Carries, Known
<1>2. balance \in QuotaSessions /\ Balances(balance)
  BY DEF QuotaInv, QuotaSessions, Balances, Balanced
<1>3. /\ quota \in [remaining : Nat, total : Nat, used : Nat, known : BOOLEAN]
      /\ quota.remaining + quota.used = quota.total
      /\ quota.known => quota.total > 0
  BY <1>1, <1>2, ResolvedIsBalanced
<1>4. balance' = normalizeSession(fresh) /\ payload' = p
  BY DEF ApplyQuotaPayload
<1> HIDE DEF quota
<1>5. /\ fresh \in QuotaSessions
      /\ fresh.remaining = quota.remaining /\ fresh.total = quota.total
      /\ fresh.used = quota.used /\ fresh.known = quota.known /\ fresh.user = balance.user
  BY <1>2, <1>3 DEF QuotaSessions
<1> HIDE DEF fresh
<1>6. Balances(fresh)
  BY <1>3, <1>5 DEF QuotaSessions, Balances
<1>7. known \in BOOLEAN /\ known = (balance.user > 0 /\ quota.known)
  BY <1>3, <1>5
<1>8. balance' = [fresh EXCEPT !.remaining = fresh.remaining, !.total = fresh.total,
                               !.used = fresh.used, !.known = known]
  BY <1>4, <1>6, NormalizedSession
<1> HIDE DEF known
<1>9. /\ balance'.user = fresh.user /\ balance'.remaining = fresh.remaining
      /\ balance'.total = fresh.total /\ balance'.used = fresh.used
      /\ balance'.known = known /\ balance' \in QuotaSessions
  BY <1>5, <1>7, <1>8 DEF QuotaSessions
<1>10. QuotaInv' /\ Balances(balance')
  BY <1>3, <1>5, <1>7, <1>9 DEF QuotaInv, QuotaSessions, Balanced, Balances
<1> QED
  BY <1>1, <1>2, <1>4, <1>5, <1>7, <1>9, <1>10 DEF quota

LEMMA QuotaInvariant == QuotaSpec => []QuotaInv
<1>1. QuotaInit => QuotaInv
  <2> SUFFICES ASSUME QuotaInit PROVE QuotaInv
    OBVIOUS
  <2>1. /\ balance.user \in {0, 1} /\ balance.remaining = 0 /\ balance.total = 0
        /\ balance.used = 0 /\ balance.known = FALSE
    BY DEF QuotaInit
  <2>2. balance \in QuotaSessions
    <3>1. {0} \subseteq Nat /\ {FALSE} \subseteq BOOLEAN
      OBVIOUS
    <3>2. balance \in [user : {0, 1}, remaining : {0}, total : {0}, used : {0},
                       known : {FALSE}]
      BY DEF QuotaInit
    <3> QED
      BY <3>1, <3>2, Zenon DEF QuotaSessions
  <2> QED
    BY <2>1, <2>2 DEF QuotaInv, Balanced
<1>2. QuotaInv /\ [QuotaNext]_quotaVars => QuotaInv'
  <2>1. QuotaInv /\ UNCHANGED quotaVars => QuotaInv'
    BY DEF QuotaInv, Balanced, quotaVars
  <2> QED
    BY <2>1, AppliedGives DEF QuotaNext
<1> QED
  BY <1>1, <1>2, PTL DEF QuotaSpec

\* Quotas reported in any number and order leave what remains and what is used
\* adding up to the total, and nothing empty counts as known (quota.go:80-132,
\* official_session.go:124): for every bound on the values, MaxQuota included.
THEOREM QuotaIsBalanced == QuotaSpec => []Balanced
<1>1. QuotaInv => Balanced
  BY DEF QuotaInv
<1> QED
  BY <1>1, QuotaInvariant, PTL

\* A report that arrives twice, as of a repeated call, changes nothing more
\* (quota.go:100, official_session.go:124).  A report of a single value counts
\* only beside a known quota: that is why it matters that what was known before
\* the report, and is usable with it, is known after it.
THEOREM ReportsAreIdempotent == QuotaSpec => []AppliedOnce
<1>1. QuotaInit => AppliedOnce
  BY DEF QuotaInit, AppliedOnce
<1>2. QuotaInv /\ AppliedOnce /\ [QuotaNext]_quotaVars => AppliedOnce'
  <2> SUFFICES ASSUME QuotaInv, AppliedOnce, [QuotaNext]_quotaVars PROVE AppliedOnce'
    OBVIOUS
  <2>1. CASE UNCHANGED quotaVars
    BY <2>1 DEF AppliedOnce, quotaVars
  <2>2. ASSUME NEW p \in Payloads, ApplyQuotaPayload(p) PROVE AppliedOnce'
    <3>1. balance.known => balance.user > 0
      BY DEF QuotaInv, Balanced
    <3>2. resolveQuotaFromPayload(p, balance).known \in BOOLEAN
      BY <2>2, AppliedGives, ResolvedIsBalanced
    <3>3. LET again == resolveQuotaFromPayload(p, balance')
          IN  /\ again.remaining = balance'.remaining
              /\ again.total = balance'.total
              /\ again.used = balance'.used
      BY <2>2, <3>1, <3>2, AppliedGives, ResolvedAgain
    <3> QED
      BY <2>2, <3>3, AppliedGives DEF AppliedOnce
  <2> QED
    BY <2>1, <2>2 DEF QuotaNext
<1> QED
  BY <1>1, <1>2, QuotaInvariant, PTL DEF QuotaSpec

-----------------------------------------------------------------------------
(* The session                                                             *)


Normal(s) ==
  /\ s \in Sessions
  /\ s.remaining + s.used = s.total
  /\ s.known => s.user > 0 /\ s.total > 0

Replies == [user : 0..1, remaining : Known, total : Known, used : Known]

Typed ==
  /\ loaded \in BOOLEAN /\ behind \in BOOLEAN /\ devices \in Nat
  /\ pc \in [Calls -> {"idle", "post", "reply", "apply"}]
  /\ kind \in [Calls -> Kinds]
  /\ seen \in [Calls -> Sessions]
  /\ reply \in [Calls -> Replies]
  /\ account \in [total : Nat, used : Nat] /\ account.used <= account.total
  /\ cleared \in {"no", "early", "yes"} /\ clears \in Nat

AllNormal ==
  /\ Normal(session)
  /\ row = NoRow \/ (row = Stored(row.session) /\ Normal(row.session))
  /\ \A c \in Calls : Normal(seen[c])

\* Before the first load nothing is under way.
AtRest == ~loaded => session = Blank /\ ~behind /\ \A c \in Calls : pc[c] = "idle"

CallsKnowDevice == \A c \in Calls : pc[c] # "idle" => seen[c].device = session.device

RowsDevice ==
  cleared # "early" /\ row.ok /\ row.session.device # 0 /\ loaded =>
    session.device = row.session.device

DeviceKnown ==
  clears = 0 => (loaded => session.device # 0) /\ (row.ok => row.session.device # 0)

LoggedIn ==
  \A c \in Calls :
    /\ cleared = "no" /\ pc[c] # "idle" /\ kind[c] # "ActivateTrial" =>
         seen[c].user = 1 /\ session.user = 1
    /\ pc[c] = "apply" => kind[c] # "ActivateTrial"

Inv ==
  /\ Typed /\ AllNormal /\ AtRest /\ MemoryIsRow
  /\ CallsKnowDevice /\ RowsDevice /\ DeviceKnown /\ LoggedIn

-----------------------------------------------------------------------------
(* Sessions                                                                *)

LEMMA BlankIsNormal == Normal(Blank) /\ NoRow.ok = FALSE /\ NoRow.session = Blank
BY DEF Normal, Blank, NoRow, Sessions

LEMMA StoredFields ==
  ASSUME NEW s PROVE Stored(s).ok = TRUE /\ Stored(s).session = s
BY DEF Stored

\* A balanced session, known only with something in it, is normal once it went
\* through normalizeSession, which leaves all but "known" as they are.
LEMMA NormalizedIsNormal ==
  ASSUME NEW s \in Sessions, s.remaining + s.used = s.total, s.known => s.total > 0
  PROVE  LET n == normalizeSession(s)
         IN  /\ Normal(n)
             /\ n.device = s.device /\ n.user = s.user
             /\ n.total = s.total /\ n.used = s.used /\ n.remaining = s.remaining
             /\ n.known = (s.user > 0 /\ s.known)
<1> DEFINE known == s.user > 0 /\ s.known /\ (s.total > 0 \/ s.used > 0)
<1>1. Balances(s)
  BY DEF Balances, Sessions
<1>2. normalizeSession(s) = [s EXCEPT !.remaining = s.remaining, !.total = s.total,
                                      !.used = s.used, !.known = known]
  BY <1>1, NormalizedSession
<1>3. known \in BOOLEAN /\ known = (s.user > 0 /\ s.known)
  OBVIOUS
<1>4. known => s.user > 0 /\ s.total > 0
  OBVIOUS
<1> HIDE DEF known
<1>5. /\ normalizeSession(s) \in Sessions
      /\ normalizeSession(s).device = s.device /\ normalizeSession(s).user = s.user
      /\ normalizeSession(s).total = s.total /\ normalizeSession(s).used = s.used
      /\ normalizeSession(s).remaining = s.remaining /\ normalizeSession(s).known = known
  BY <1>2, <1>3 DEF Sessions
<1> QED
  BY <1>3, <1>4, <1>5 DEF Normal

\* What is stored is loaded again as it was.
LEMMA NormalIsFixed ==
  ASSUME NEW s, Normal(s) PROVE normalizeSession(s) = s
<1> DEFINE n == normalizeSession(s)
<1>1. /\ n \in Sessions
      /\ n.device = s.device /\ n.user = s.user
      /\ n.total = s.total /\ n.used = s.used /\ n.remaining = s.remaining
      /\ n.known = (s.user > 0 /\ s.known)
  BY NormalizedIsNormal DEF Normal
<1>2. n.known = s.known
  <2>1. s.known \in BOOLEAN /\ n.known \in BOOLEAN
    BY <1>1 DEF Normal, Sessions
  <2>2. s.known => s.user > 0
    BY DEF Normal
  <2> QED
    BY <1>1, <2>1, <2>2
<1>3. s \in Sessions
  BY DEF Normal
<1> HIDE DEF n
<1>4. n = s
  BY <1>1, <1>2, <1>3 DEF Sessions
<1> QED
  BY <1>4 DEF n

\* A session that is given a device id stays normal, and all else in it the same.
LEMMA DeviceGiven ==
  ASSUME NEW s, Normal(s), NEW d \in Nat
  PROVE  LET n == normalizeSession([s EXCEPT !.device = d])
         IN  Normal(n) /\ n.device = d /\ n.user = s.user /\ n.used = s.used /\ n.total = s.total
<1> DEFINE given == [s EXCEPT !.device = d]
<1>1. s \in Sessions /\ s.remaining + s.used = s.total /\ (s.known => s.total > 0)
  BY DEF Normal
<1>2. given \in Sessions /\ given.remaining + given.used = given.total
      /\ (given.known => given.total > 0)
      /\ given.device = d /\ given.user = s.user /\ given.used = s.used /\ given.total = s.total
  BY <1>1 DEF Sessions
<1> HIDE DEF given
<1>3. /\ Normal(normalizeSession(given))
      /\ normalizeSession(given).device = given.device
      /\ normalizeSession(given).user = given.user
      /\ normalizeSession(given).used = given.used
      /\ normalizeSession(given).total = given.total
  BY <1>2, NormalizedIsNormal
<1>4. /\ Normal(normalizeSession(given))
      /\ normalizeSession(given).device = d /\ normalizeSession(given).user = s.user
      /\ normalizeSession(given).used = s.used /\ normalizeSession(given).total = s.total
  BY <1>2, <1>3
<1> QED
  BY <1>4 DEF given

LEMMA RowRead ==
  ASSUME Inv
  PROVE  /\ Normal(ReadRow)
         /\ row.ok = TRUE => ReadRow = row.session /\ row = Stored(ReadRow)
         /\ row.ok # TRUE => ReadRow = session /\ row = NoRow
<1>1. row = NoRow \/ (row = Stored(row.session) /\ Normal(row.session))
  BY DEF Inv, AllNormal
<1>2. CASE row = NoRow
  BY <1>2, BlankIsNormal DEF Inv, AllNormal, ReadRow
<1>3. CASE row = Stored(row.session) /\ Normal(row.session)
  BY <1>3, StoredFields, NormalIsFixed DEF ReadRow
<1> QED
  BY <1>1, <1>2, <1>3

\* EnsureLoaded answers the session in memory, loads the stored one, or draws a
\* device id, which it may fail to store; if it fails, nothing was under way.
LEMMA Loaded ==
  ASSUME Inv, NEW ok \in BOOLEAN, EnsureLoaded(ok)
  PROVE  \/ /\ UNCHANGED <<manager, row, behind, devices>>
            /\ loaded \/ ~ok
         \/ /\ ~loaded /\ loaded' = TRUE /\ row.ok
            /\ session' = row.session /\ row' = row /\ behind' = behind /\ devices' = devices
            /\ clears = 0 \/ ok => session'.device # 0
         \/ /\ ~loaded /\ loaded' = TRUE /\ devices' = devices + 1
            /\ row.ok => row.session.device = 0
            /\ Normal(session') /\ session'.device = devices + 1
            /\ session'.user = ReadRow.user /\ session'.used = ReadRow.used
            /\ session'.total = ReadRow.total
            /\ \/ row' = Stored(session') /\ behind' = FALSE
               \/ row' = row /\ behind' = TRUE
<1>1. CASE loaded /\ ok /\ UNCHANGED <<manager, row, devices, behind, failures>>
  BY <1>1
<1>2. CASE ~loaded /\ ~ok /\ Fail /\ UNCHANGED <<manager, row, devices, behind>>
  BY <1>2
<1>3. CASE /\ ~loaded /\ ReadRow.device # 0 /\ ok
           /\ session' = ReadRow /\ loaded' = TRUE
           /\ UNCHANGED <<row, devices, behind, failures>>
  <2>1. row.ok = TRUE
    <3>1. session.device = 0
      BY <1>3 DEF Inv, AtRest, Blank
    <3> QED
      BY <1>3, <3>1, RowRead
  <2> QED
    BY <1>3, <2>1, RowRead DEF Inv, AtRest
<1>4. CASE /\ ~loaded /\ ReadRow.device = 0 /\ ~ok /\ Fail
           /\ session' = ReadRow /\ loaded' = row.ok
           /\ UNCHANGED <<row, devices, behind>>
  <2>1. CASE row.ok = TRUE
    <3>1. row.session.device = 0 /\ clears # 0
      BY <1>4, <2>1, RowRead DEF Inv, DeviceKnown
    <3> QED
      BY <1>4, <2>1, <3>1, RowRead DEF Inv, AtRest
  <2>2. CASE row.ok # TRUE
    <3>1. session' = session /\ row.ok = FALSE
      BY <1>4, <2>2, RowRead, BlankIsNormal
    <3> QED
      BY <1>4, <3>1 DEF manager, Inv, Typed
  <2> QED
    BY <2>1, <2>2
<1>5. CASE ~loaded /\ ReadRow.device = 0 /\ NewDevice /\ Write(Stored(session'), ok)
  <2>1. /\ session' = normalizeSession([ReadRow EXCEPT !.device = devices'])
        /\ loaded' = TRUE /\ devices' = devices + 1
    BY <1>5 DEF NewDevice
  <2>2. devices' \in Nat
    BY <2>1 DEF Inv, Typed
  <2>3. /\ Normal(session') /\ session'.device = devices'
        /\ session'.user = ReadRow.user /\ session'.used = ReadRow.used
        /\ session'.total = ReadRow.total
    <3>1. Normal(ReadRow)
      BY RowRead
    <3> HIDE DEF ReadRow
    <3> QED
      BY <3>1, <2>1, <2>2, DeviceGiven
  <2>4. row.ok => row.session.device = 0
    BY <1>5, RowRead
  <2>5. \/ row' = Stored(session') /\ behind' = FALSE
        \/ row' = row /\ behind' = TRUE
    BY <1>5 DEF Write
  <2> QED
    BY <1>5, <2>1, <2>3, <2>4, <2>5
<1> QED
  BY <1>1, <1>2, <1>3, <1>4, <1>5 DEF EnsureLoaded


\* The row takes the session, or the write is behind.
Saved ==
  \/ row' = Stored(session') /\ behind' = FALSE
  \/ row' = row /\ behind' = TRUE

\* Setting a session with a balanced quota changes nothing but its quota.
LEMMA QuotaSet ==
  ASSUME NEW s \in Sessions, NEW ok \in BOOLEAN,
         NEW q \in [remaining : Nat, total : Nat, used : Nat, known : BOOLEAN],
         q.remaining + q.used = q.total, q.known => q.total > 0,
         SetSession(WithQuota(s, q), ok)
  PROVE  /\ loaded' = TRUE /\ Saved
         /\ Normal(session') /\ session'.device = s.device /\ session'.user = s.user
         /\ session'.used = q.used /\ session'.total = q.total
<1> DEFINE new == WithQuota(s, q)
<1>1. /\ new \in Sessions /\ new.remaining + new.used = new.total
      /\ new.known => new.total > 0
      /\ new.device = s.device /\ new.user = s.user
      /\ new.used = q.used /\ new.total = q.total
  BY DEF WithQuota, Sessions
<1>2. loaded' = TRUE /\ session' = normalizeSession(new) /\ Write(Stored(session'), ok)
  BY DEF SetSession
<1> HIDE DEF new
<1>3. /\ Normal(normalizeSession(new))
      /\ normalizeSession(new).device = new.device /\ normalizeSession(new).user = new.user
      /\ normalizeSession(new).used = new.used /\ normalizeSession(new).total = new.total
  BY <1>1, NormalizedIsNormal
<1>4. Saved
  BY <1>2 DEF Write, Saved
<1> QED
  BY <1>1, <1>2, <1>3, <1>4

-----------------------------------------------------------------------------
(* One step                                                                *)

KeepsUser ==
  session.user > 0 /\ loaded' /\ cleared' = "no" => session'.user = session.user

KeepsDevice ==
  row.ok /\ row.session.device # 0 /\ cleared' # "early" =>
    row'.ok /\ row'.session.device = row.session.device

LEMMA InitInv == ASSUME Init PROVE Inv
<1> USE DEF Init
<1>1. Typed
  <2>1. NoReply \in Replies
    BY DEF NoReply, Replies, Known
  <2>2. Blank \in Sessions
    BY BlankIsNormal DEF Normal
  <2>3. account \in [total : Nat, used : Nat] /\ account.used <= account.total
    BY OfficialSessionAssumption
  <2>4. kind \in [Calls -> Kinds]
    BY DEF Kinds
  <2> QED
    BY <2>1, <2>2, <2>3, <2>4 DEF Typed
<1>2. AllNormal
  BY BlankIsNormal DEF AllNormal
<1>3. AtRest /\ MemoryIsRow /\ CallsKnowDevice /\ RowsDevice /\ DeviceKnown /\ LoggedIn
  BY BlankIsNormal DEF AtRest, MemoryIsRow, CallsKnowDevice, RowsDevice, DeviceKnown, LoggedIn
<1> QED
  BY <1>1, <1>2, <1>3 DEF Inv

\* A call goes on or ends, and the session is left alone.
LEMMA Moved ==
  ASSUME Inv, NEW c \in Calls, pc[c] # "idle",
         NEW at \in {"idle", "post", "reply"}, pc' = [pc EXCEPT ![c] = at],
         reply' \in [Calls -> Replies],
         account' \in [total : Nat, used : Nat], account'.used <= account'.total,
         UNCHANGED <<manager, row, kind, seen, devices, behind, cleared, clears>>
  PROVE  Inv' /\ KeepsUser /\ KeepsDevice
<1> USE DEF manager
<1>1. Typed'
  BY DEF Inv, Typed
<1>2. AllNormal' /\ MemoryIsRow' /\ RowsDevice' /\ DeviceKnown'
  BY DEF Inv, AllNormal, MemoryIsRow, RowsDevice, DeviceKnown
<1>3. AtRest'
  BY DEF Inv, AtRest
<1>4. CallsKnowDevice'
  BY DEF Inv, Typed, CallsKnowDevice
<1>5. LoggedIn'
  BY DEF Inv, Typed, LoggedIn
<1>6. KeepsUser /\ KeepsDevice
  BY DEF KeepsUser, KeepsDevice
<1> QED
  BY <1>1, <1>2, <1>3, <1>4, <1>5, <1>6 DEF Inv

\* A call ends with a session of the same device id and, unless somebody
\* cleared the session, of the same user.
LEMMA Ended ==
  ASSUME Inv, NEW c \in Calls, pc[c] # "idle", pc' = [pc EXCEPT ![c] = "idle"],
         loaded' = TRUE, Saved, Normal(session'), session'.device = session.device,
         cleared = "no" /\ session.user = 1 => session'.user = 1,
         UNCHANGED <<kind, seen, reply, account, devices, cleared, clears>>
  PROVE  Inv' /\ KeepsUser /\ KeepsDevice
<1>1. loaded = TRUE
  BY DEF Inv, AtRest, Typed
<1>2. session'.user \in 0..1 /\ session.user \in 0..1
  BY DEF Inv, AllNormal, Normal, Sessions
<1>3. Typed'
  BY DEF Inv, Typed, Saved
<1>4. AllNormal'
  BY StoredFields DEF Inv, AllNormal, Saved
<1>5. MemoryIsRow'
  BY DEF MemoryIsRow, Saved
<1>6. AtRest'
  BY DEF AtRest
<1>7. CallsKnowDevice'
  BY DEF Inv, Typed, CallsKnowDevice
<1>8. RowsDevice'
  BY <1>1, StoredFields DEF Inv, RowsDevice, Saved
<1>9. DeviceKnown'
  BY <1>1, StoredFields DEF Inv, DeviceKnown, Saved
<1>10. LoggedIn'
  BY <1>2 DEF Inv, Typed, LoggedIn
<1>11. KeepsUser
  BY <1>2 DEF KeepsUser
<1>12. KeepsDevice
  BY <1>1, StoredFields DEF Inv, RowsDevice, KeepsDevice, Saved
<1> QED
  BY <1>3, <1>4, <1>5, <1>6, <1>7, <1>8, <1>9, <1>10, <1>11, <1>12 DEF Inv

\* A call that goes on knows the session it has just loaded.
LEMMA BeginStep ==
  ASSUME Inv, NEW c \in Calls, NEW k \in Kinds, NEW ok \in BOOLEAN, Begin(c, k, ok)
  PROVE  Inv' /\ KeepsUser /\ KeepsDevice
<1> DEFINE at == IF ok /\ (k = "ActivateTrial" \/ session'.user > 0) THEN "post" ELSE "idle"
<1>1. /\ pc[c] = "idle" /\ pc' = [pc EXCEPT ![c] = at]
      /\ kind' = [kind EXCEPT ![c] = k] /\ seen' = [seen EXCEPT ![c] = session']
      /\ UNCHANGED <<reply, account, cleared, clears>>
      /\ EnsureLoaded(ok)
  BY DEF Begin
<1>2. at \in {"idle", "post"} /\ (at = "post" => ok /\ (k = "ActivateTrial" \/ session'.user > 0))
  OBVIOUS
<1> HIDE DEF at
<1>3. CASE UNCHANGED <<manager, row, behind, devices>> /\ (loaded \/ ~ok)
  <2> USE <1>1, <1>2, <1>3 DEF manager
  <2>1. session' \in Sessions /\ Normal(session')
    BY DEF Inv, AllNormal, Normal
  <2>2. Typed'
    BY <2>1 DEF Inv, Typed
  <2>3. AllNormal'
    BY <2>1 DEF Inv, Typed, AllNormal
  <2>4. AtRest'
    BY DEF Inv, Typed, AtRest
  <2>5. MemoryIsRow' /\ RowsDevice' /\ DeviceKnown'
    BY DEF Inv, MemoryIsRow, RowsDevice, DeviceKnown
  <2>6. CallsKnowDevice'
    BY DEF Inv, Typed, CallsKnowDevice
  <2>7. LoggedIn'
    BY <2>1 DEF Inv, Typed, LoggedIn, Sessions
  <2>8. KeepsUser /\ KeepsDevice
    BY DEF KeepsUser, KeepsDevice
  <2> QED
    BY <2>2, <2>3, <2>4, <2>5, <2>6, <2>7, <2>8 DEF Inv
<1>4. CASE \/ /\ ~loaded /\ loaded' = TRUE /\ row.ok
              /\ session' = row.session /\ row' = row /\ behind' = behind /\ devices' = devices
              /\ clears = 0 \/ ok => session'.device # 0
           \/ /\ ~loaded /\ loaded' = TRUE /\ devices' = devices + 1
              /\ row.ok => row.session.device = 0
              /\ Normal(session') /\ session'.device = devices + 1
              /\ session'.user = ReadRow.user /\ session'.used = ReadRow.used
              /\ session'.total = ReadRow.total
              /\ Saved
  <2>1. ~loaded /\ loaded' = TRUE /\ session.user = 0 /\ \A d \in Calls : pc[d] = "idle"
    BY <1>4, BlankIsNormal DEF Inv, AtRest, Blank
  <2>2. Normal(session') /\ session' \in Sessions
    <3>1. row.ok => Normal(row.session)
      BY BlankIsNormal DEF Inv, AllNormal
    <3> QED
      BY <1>4, <3>1 DEF Normal
  <2>3. row' = row \/ row' = Stored(session')
    BY <1>4 DEF Saved
  <2>4. behind' \in BOOLEAN /\ devices' \in Nat
    <3>1. behind \in BOOLEAN /\ devices \in Nat
      BY DEF Inv, Typed
    <3>2. behind' \in BOOLEAN
      BY <1>4, <3>1 DEF Saved
    <3>3. devices' = devices \/ devices' = devices + 1
      BY <1>4
    <3> QED
      BY <3>1, <3>2, <3>3
  <2>5. Typed'
    BY <1>1, <1>2, <2>1, <2>2, <2>4 DEF Inv, Typed
  <2>6. AllNormal'
    BY <1>1, <2>2, <2>3, StoredFields DEF Inv, Typed, AllNormal
  <2>7. AtRest'
    BY <2>1 DEF AtRest
  <2>8. MemoryIsRow'
    <3>1. row.ok => row = Stored(row.session)
      BY BlankIsNormal DEF Inv, AllNormal
    <3> QED
      BY <1>4, <3>1 DEF MemoryIsRow, Saved
  <2>9. CallsKnowDevice'
    BY <1>1, <2>1 DEF Inv, Typed, CallsKnowDevice
  <2>10. RowsDevice'
    BY <1>4, StoredFields DEF RowsDevice, Saved
  <2>11. DeviceKnown'
    <3>1. devices + 1 # 0
      BY DEF Inv, Typed
    <3>2. clears' = clears
      BY <1>1
    <3>3. clears = 0 => session'.device # 0
      BY <1>4, <3>1
    <3>4. clears = 0 /\ row'.ok => row'.session.device # 0
      BY <2>3, <3>3, StoredFields DEF Inv, DeviceKnown
    <3> QED
      BY <3>2, <3>3, <3>4 DEF DeviceKnown
  <2>12. LoggedIn'
    BY <1>1, <1>2, <2>1, <2>2 DEF Inv, Typed, LoggedIn, Sessions
  <2>13. KeepsUser
    BY <2>1 DEF KeepsUser
  <2>14. KeepsDevice
    BY <1>4 DEF KeepsDevice
  <2> QED
    BY <2>5, <2>6, <2>7, <2>8, <2>9, <2>10, <2>11, <2>12, <2>13, <2>14 DEF Inv
<1> QED
  BY <1>1, <1>3, <1>4, Loaded DEF Saved

\* What the service answers is a quota of the account it has by then.
LEMMA Served ==
  ASSUME Inv, NEW c \in Calls, NEW named \in BOOLEAN, NEW report \in Reports,
         Serve(c, named, report)
  PROVE  /\ account' \in [total : Nat, used : Nat] /\ account'.used <= account'.total
         /\ account.used <= account'.used /\ account.total <= account'.total
         /\ reply' = [reply EXCEPT ![c] = reply'[c]] /\ reply'[c] \in Replies
         /\ "used" \in report => reply'[c].used = account'.used
         /\ reply'[c].total <= account'.total
<1>1. /\ account' \in [total : Nat, used : Nat] /\ account'.used <= account'.total
      /\ account.used <= account'.used /\ account.total <= account'.total
  BY DEF Serve, Inv, Typed
<1> DEFINE now == [user |-> 1, remaining |-> account'.total - account'.used,
                   total |-> account'.total, used |-> account'.used]
           fields == IF named THEN report \cup {"user"} ELSE report
           answer == [f \in DOMAIN now |-> IF f \in fields THEN now[f] ELSE NoReply[f]]
<1>2. reply' = [reply EXCEPT ![c] = answer]
  BY DEF Serve
<1>3. reply'[c] = answer
  BY <1>2 DEF Inv, Typed
<1>4. /\ now.user \in 0..1 /\ now.remaining \in Known /\ now.total \in Known /\ now.used \in Known
      /\ NoReply.user \in 0..1 /\ NoReply.remaining \in Known /\ NoReply.total \in Known
      /\ NoReply.used \in Known /\ NoReply.total <= account'.total
  BY <1>1 DEF NoReply, Known, NoValue
<1>5. /\ answer = [user |-> answer.user, remaining |-> answer.remaining,
                   total |-> answer.total, used |-> answer.used]
      /\ answer.user \in {now.user, NoReply.user}
      /\ answer.remaining \in {now.remaining, NoReply.remaining}
      /\ answer.total \in {now.total, NoReply.total}
      /\ answer.used \in {now.used, NoReply.used}
      /\ "used" \in report => answer.used = now.used
  OBVIOUS
<1>6. now.total = account'.total /\ now.used = account'.used
  OBVIOUS
<1> HIDE DEF answer, now
<1>7. answer \in Replies
  BY <1>4, <1>5 DEF Replies
<1>8. answer.total <= account'.total
  BY <1>1, <1>4, <1>5, <1>6
<1> QED
  BY <1>1, <1>2, <1>3, <1>5, <1>6, <1>7, <1>8

LEMMA ServeStep ==
  ASSUME Inv, NEW c \in Calls, NEW named \in BOOLEAN, NEW report \in Reports,
         Serve(c, named, report)
  PROVE  Inv' /\ KeepsUser /\ KeepsDevice
<1>1. /\ pc[c] = "post" /\ pc' = [pc EXCEPT ![c] = "reply"]
      /\ UNCHANGED <<manager, row, kind, seen, devices, behind, cleared, clears>>
  BY DEF Serve, Goto, bounds
<1>2. /\ account' \in [total : Nat, used : Nat] /\ account'.used <= account'.total
      /\ reply' \in [Calls -> Replies]
  BY Served DEF Inv, Typed
<1> QED
  BY <1>1, <1>2, Moved

LEMMA PostFailsStep ==
  ASSUME Inv, NEW c \in Calls, PostFails(c)
  PROVE  Inv' /\ KeepsUser /\ KeepsDevice
<1>1. /\ pc[c] # "idle" /\ pc' = [pc EXCEPT ![c] = "idle"]
      /\ UNCHANGED <<manager, row, kind, seen, devices, behind, cleared, clears>>
      /\ reply' = reply /\ account' = account
  BY DEF PostFails, Goto, bounds
<1>2. /\ account' \in [total : Nat, used : Nat] /\ account'.used <= account'.total
      /\ reply' \in [Calls -> Replies]
  BY <1>1 DEF Inv, Typed
<1> QED
  BY <1>1, <1>2, Moved

\* What a call under way sets has the quota its answer and the session it read
\* add up to, and nothing else of that session changes but the user.
LEMMA AnswerSet ==
  ASSUME Inv, NEW c \in Calls, NEW ok \in BOOLEAN, NEW s \in Sessions,
         SetSession(WithQuota(s, resolveQuotaFromPayload(reply[c], seen[c])), ok)
  PROVE  LET quota == resolveQuotaFromPayload(reply[c], seen[c])
         IN  /\ loaded' = TRUE /\ Saved /\ Normal(session')
             /\ session'.device = s.device /\ session'.user = s.user
             /\ session'.used = quota.used /\ session'.total = quota.total
<1> DEFINE quota == resolveQuotaFromPayload(reply[c], seen[c])
<1>1. Balances(seen[c])
  BY DEF Inv, AllNormal, Normal, Sessions, Balances
<1>2. Carries(reply[c])
  BY DEF Inv, Typed, Replies, Carries
<1>3. /\ quota \in [remaining : Nat, total : Nat, used : Nat, known : BOOLEAN]
      /\ quota.remaining + quota.used = quota.total
      /\ quota.known => quota.total > 0
  BY <1>1, <1>2, ResolvedIsBalanced
<1> HIDE DEF quota
<1>4. SetSession(WithQuota(s, quota), ok)
  BY DEF quota
<1> QED
  BY <1>3, <1>4, QuotaSet DEF quota

LEMMA SetParsedStep ==
  ASSUME Inv, NEW c \in Calls, NEW ok \in BOOLEAN, SetParsed(c, ok)
  PROVE  Inv' /\ KeepsUser /\ KeepsDevice
<1>1. /\ pc[c] # "idle" /\ pc' = [pc EXCEPT ![c] = "idle"]
      /\ UNCHANGED <<kind, seen, reply, account, devices, cleared, clears>>
  BY DEF SetParsed, Goto
<1>2. CASE reply[c].user <= 0
  <2>1. UNCHANGED <<manager, row, behind>>
    BY <1>2 DEF SetParsed
  <2>2. reply' \in [Calls -> Replies] /\ account' \in [total : Nat, used : Nat]
        /\ account'.used <= account'.total
    BY <1>1 DEF Inv, Typed
  <2> QED
    BY <1>1, <2>1, <2>2, Moved
<1>3. CASE ~(reply[c].user <= 0)
  <2> DEFINE s == [seen[c] EXCEPT !.user = reply[c].user]
  <2>1. reply[c].user = 1
    BY <1>3 DEF Inv, Typed, Replies
  <2>2. s \in Sessions /\ s.device = seen[c].device /\ s.user = 1
    BY <2>1 DEF Inv, Typed, Sessions
  <2>3. SetSession(WithQuota(s, resolveQuotaFromPayload(reply[c], seen[c])), ok)
    BY <1>3 DEF SetParsed
  <2> HIDE DEF s
  <2>4. /\ loaded' = TRUE /\ Saved /\ Normal(session')
        /\ session'.device = seen[c].device /\ session'.user = 1
    BY <2>2, <2>3, AnswerSet
  <2>5. session'.device = session.device
    BY <1>1, <2>4 DEF Inv, CallsKnowDevice
  <2> QED
    BY <1>1, <2>4, <2>5, Ended
<1> QED
  BY <1>2, <1>3

\* The call is under way, so the session is loaded, and only read.
LEMMA ReadForQuotaStep ==
  ASSUME Inv, NEW c \in Calls, ReadForQuota(c)
  PROVE  Inv' /\ KeepsUser /\ KeepsDevice
<1>1. /\ kind[c] \in {"ExtractProxy", "RedeemCard"}
      /\ pc[c] = "reply" /\ pc' = [pc EXCEPT ![c] = "apply"]
      /\ seen' = [seen EXCEPT ![c] = session']
      /\ UNCHANGED <<kind, reply, account, cleared, clears>>
      /\ EnsureLoaded(TRUE)
  BY DEF ReadForQuota, Goto
<1>2. loaded = TRUE
  BY <1>1 DEF Inv, AtRest, Typed
<1>3. UNCHANGED <<manager, row, behind, devices>>
  BY <1>1, <1>2, Loaded
<1> USE <1>1, <1>2, <1>3 DEF manager
<1>4. session' \in Sessions /\ Normal(session')
  BY DEF Inv, AllNormal, Normal
<1>5. Typed'
  BY <1>4 DEF Inv, Typed
<1>6. AllNormal'
  BY <1>4 DEF Inv, Typed, AllNormal
<1>7. AtRest' /\ MemoryIsRow' /\ RowsDevice' /\ DeviceKnown'
  BY DEF Inv, AtRest, MemoryIsRow, RowsDevice, DeviceKnown
<1>8. CallsKnowDevice'
  BY DEF Inv, Typed, CallsKnowDevice
<1>9. LoggedIn'
  BY DEF Inv, Typed, LoggedIn
<1>10. KeepsUser /\ KeepsDevice
  BY DEF KeepsUser, KeepsDevice
<1> QED
  BY <1>5, <1>6, <1>7, <1>8, <1>9, <1>10 DEF Inv

LEMMA ApplyQuotaStep ==
  ASSUME Inv, NEW c \in Calls, NEW ok \in BOOLEAN, ApplyQuota(c, ok)
  PROVE  Inv' /\ KeepsUser /\ KeepsDevice
<1>1. /\ pc[c] = "apply" /\ pc[c] # "idle" /\ pc' = [pc EXCEPT ![c] = "idle"]
      /\ UNCHANGED <<kind, seen, reply, account, devices, cleared, clears>>
      /\ SetSession(WithQuota(seen[c], resolveQuotaFromPayload(reply[c], seen[c])), ok)
  BY DEF ApplyQuota, Goto
<1>2. seen[c] \in Sessions
  BY DEF Inv, Typed
<1>3. /\ loaded' = TRUE /\ Saved /\ Normal(session')
      /\ session'.device = seen[c].device /\ session'.user = seen[c].user
  BY <1>1, <1>2, AnswerSet
<1>4. session'.device = session.device
  BY <1>1, <1>3 DEF Inv, CallsKnowDevice
<1>5. cleared = "no" => session'.user = 1
  BY <1>1, <1>3 DEF Inv, LoggedIn
<1> QED
  BY <1>1, <1>3, <1>4, <1>5, Ended

LEMMA ClearStep ==
  ASSUME Inv, NEW ok \in BOOLEAN, Clear(ok)
  PROVE  Inv' /\ KeepsUser /\ KeepsDevice
<1>1. /\ clears' = clears + 1 /\ loaded' = TRUE
      /\ session' = [Blank EXCEPT !.device = session.device]
      /\ cleared' = IF loaded /\ cleared # "early" THEN "yes" ELSE "early"
      /\ Write(IF session.device # 0 THEN Stored(session') ELSE NoRow, ok)
      /\ UNCHANGED <<pc, kind, seen, reply, account, devices>>
  BY DEF Clear, calls
<1>2. Normal(session') /\ session'.device = session.device
  <2>1. session.device \in Nat
    BY DEF Inv, AllNormal, Normal, Sessions
  <2>2. session' = [device |-> session.device, user |-> 0, remaining |-> 0,
                    total |-> 0, used |-> 0, known |-> FALSE]
    BY <1>1 DEF Blank
  <2> QED
    BY <2>1, <2>2 DEF Normal, Sessions
<1>3. \/ session.device # 0 /\ row' = Stored(session') /\ behind' = FALSE
      \/ session.device = 0 /\ row' = NoRow /\ behind' = FALSE
      \/ row' = row /\ behind' = TRUE
  BY <1>1 DEF Write
<1>4. clears' # 0 /\ clears' \in Nat /\ cleared' \in {"yes", "early"} /\ behind' \in BOOLEAN
  <2>1. clears \in Nat
    BY DEF Inv, Typed
  <2>2. clears' # 0 /\ clears' \in Nat
    BY <1>1, <2>1
  <2>3. cleared' \in {"yes", "early"}
    BY <1>1
  <2>4. behind' \in BOOLEAN
    BY <1>3
  <2> QED
    BY <2>2, <2>3, <2>4
<1>5. Typed'
  BY <1>1, <1>4 DEF Inv, Typed
<1>6. AllNormal'
  <2>1. row' = NoRow \/ (row' = Stored(row'.session) /\ Normal(row'.session))
    BY <1>2, <1>3, StoredFields DEF Inv, AllNormal
  <2>2. \A c \in Calls : Normal(seen'[c])
    BY <1>1 DEF Inv, AllNormal
  <2> QED
    BY <1>2, <2>1, <2>2 DEF AllNormal
<1>7. AtRest' /\ DeviceKnown' /\ LoggedIn' /\ KeepsUser
  <2>1. \A c \in Calls : pc'[c] = "apply" => kind'[c] # "ActivateTrial"
    BY <1>1 DEF Inv, LoggedIn
  <2>2. LoggedIn'
    BY <1>4, <2>1 DEF LoggedIn
  <2> QED
    BY <1>1, <1>4, <2>2 DEF AtRest, DeviceKnown, KeepsUser
<1>8. MemoryIsRow'
  <2>1. session.device = 0 => session' = Blank
    BY <1>1 DEF Blank
  <2> QED
    BY <1>3, <2>1 DEF MemoryIsRow
<1>9. CallsKnowDevice'
  BY <1>1, <1>2 DEF Inv, CallsKnowDevice
<1>10. cleared' # "early" /\ row.ok /\ row.session.device # 0 =>
         session.device = row.session.device
  BY <1>1 DEF Inv, RowsDevice
<1>11. RowsDevice'
  BY <1>2, <1>3, <1>10, StoredFields, BlankIsNormal DEF RowsDevice
<1>12. KeepsDevice
  BY <1>2, <1>3, <1>10, StoredFields DEF KeepsDevice
<1> QED
  BY <1>5, <1>6, <1>7, <1>8, <1>9, <1>11, <1>12 DEF Inv

LEMMA RestartStep ==
  ASSUME Inv, Restart PROVE Inv' /\ KeepsUser /\ KeepsDevice
<1> USE DEF Restart
<1>1. Typed'
  <2>1. NoReply \in Replies
    BY DEF NoReply, Replies, Known
  <2>2. Blank \in Sessions
    BY BlankIsNormal DEF Normal
  <2> QED
    BY <2>1, <2>2 DEF Inv, Typed
<1>2. AllNormal'
  BY BlankIsNormal DEF Inv, AllNormal
<1>3. AtRest' /\ MemoryIsRow' /\ CallsKnowDevice' /\ RowsDevice' /\ LoggedIn'
  BY DEF AtRest, MemoryIsRow, CallsKnowDevice, RowsDevice, LoggedIn
<1>4. DeviceKnown'
  BY DEF Inv, DeviceKnown
<1>5. KeepsUser /\ KeepsDevice
  BY DEF KeepsUser, KeepsDevice
<1> QED
  BY <1>1, <1>2, <1>3, <1>4, <1>5 DEF Inv


LEMMA StutterStep ==
  ASSUME Inv, UNCHANGED vars PROVE Inv' /\ KeepsUser /\ KeepsDevice
BY DEF vars, manager, calls, bounds, Inv, Typed, AllNormal, AtRest, MemoryIsRow,
       CallsKnowDevice, RowsDevice, DeviceKnown, LoggedIn, KeepsUser, KeepsDevice

LEMMA Step ==
  ASSUME Inv, [Next]_vars PROVE Inv' /\ KeepsUser /\ KeepsDevice
<1>1. CASE UNCHANGED vars
  BY <1>1, StutterStep
<1>2. CASE \E c \in Calls : CallStep(c)
  <2>1. PICK c \in Calls : CallStep(c)
    BY <1>2
  <2> QED
    BY <2>1, BeginStep, ServeStep, PostFailsStep, ReadForQuotaStep, SetParsedStep,
       ApplyQuotaStep DEF CallStep
<1>3. CASE \E ok \in BOOLEAN : Clear(ok)
  BY <1>3, ClearStep
<1>4. CASE Restart
  BY <1>4, RestartStep
<1> QED
  BY <1>1, <1>2, <1>3, <1>4 DEF Next

LEMMA Invariant == Spec => []Inv
<1>1. Init => Inv
  BY InitInv
<1>2. Inv /\ [Next]_vars => Inv'
  BY Step
<1> QED
  BY <1>1, <1>2, PTL DEF Spec

-----------------------------------------------------------------------------
(* Theorems                                                                *)

\* Unless the last write failed, memory and row agree, for any number of
\* concurrent calls (official_session.go holds its mutex over the store call).
THEOREM MemoryRow == Spec => []MemoryIsRow
<1>1. Inv => MemoryIsRow
  BY DEF Inv
<1> QED
  BY <1>1, Invariant, PTL

\* The stored device id outlives failures, stale writes and restarts.
THEOREM DeviceKept == Spec => DeviceSurvives
<1>1. Inv /\ [Next]_vars => [KeepsDevice]_vars
  BY Step
<1>2. Spec => [][KeepsDevice]_vars
  BY <1>1, Invariant, PTL DEF Spec
<1> QED
  BY <1>2 DEF DeviceSurvives, KeepsDevice

\* Within a process only Clear logs the account out.
THEOREM OnlyClearLogsOut == Spec => UserKept
<1>1. Inv /\ [Next]_vars => [KeepsUser]_vars
  BY Step
<1>2. Spec => [][KeepsUser]_vars
  BY <1>1, Invariant, PTL DEF Spec
<1> QED
  BY <1>2 DEF UserKept, KeepsUser

\* A session with a user has the device id the service knows it by, however
\* often generating or storing that id failed.
THEOREM UserHasDevice == Spec => []AccountHasDevice
<1>1. Inv => AccountHasDevice
  BY DEF Inv, AtRest, DeviceKnown, AccountHasDevice, Blank
<1> QED
  BY <1>1, Invariant, PTL

-----------------------------------------------------------------------------
(* The quota                                                               *)

Under(s, a) == s.used <= a.used /\ s.total <= a.total

\* No session anywhere, and no answer under way, claims more than the account has.
AllUnder ==
  /\ Under(session, account) /\ Under(row.session, account)
  /\ \A c \in Calls :
       /\ Under(seen[c], account)
       /\ pc[c] \in {"reply", "apply"} =>
            reply[c].used \in 0..account.used /\ reply[c].total <= account.total

UsedReported == \A report \in Reports : "used" \in report

LEMMA BlankIsUnder == ASSUME Inv PROVE Under(Blank, account)
BY DEF Inv, Typed, Under, Blank

\* A call ends, and what it set is under the account, as is then the row.
LEMMA EndedUnder ==
  ASSUME Inv, AllUnder, NEW c \in Calls, pc' = [pc EXCEPT ![c] = "idle"],
         Under(session', account), row' = row \/ row' = Stored(session'),
         UNCHANGED <<seen, reply, account>>
  PROVE  AllUnder'
<1>1. Under(row'.session, account)
  BY StoredFields DEF AllUnder
<1>2. \A d \in Calls : pc'[d] \in {"reply", "apply"} => pc[d] \in {"reply", "apply"}
  BY DEF Inv, Typed
<1> QED
  BY <1>1, <1>2 DEF AllUnder

LEMMA BeginUnder ==
  ASSUME Inv, AllUnder, NEW c \in Calls, NEW k \in Kinds, NEW ok \in BOOLEAN,
         Begin(c, k, ok)
  PROVE  AllUnder'
<1>1. /\ seen' = [seen EXCEPT ![c] = session'] /\ UNCHANGED <<reply, account>>
      /\ pc' \in {[pc EXCEPT ![c] = "post"], [pc EXCEPT ![c] = "idle"]}
      /\ EnsureLoaded(ok)
  BY DEF Begin
<1>2. Under(ReadRow, account)
  BY RowRead DEF AllUnder, Inv, Typed
<1>3. Under(session', account) /\ (row' = row \/ row' = Stored(session'))
  BY <1>1, <1>2, Loaded DEF AllUnder, Under, manager
<1>4. Under(row'.session, account)
  BY <1>3, StoredFields DEF AllUnder
<1>5. \A d \in Calls : pc'[d] \in {"reply", "apply"} => pc[d] \in {"reply", "apply"}
  BY <1>1 DEF Inv, Typed
<1>6. \A d \in Calls : Under(seen'[d], account)
  BY <1>1, <1>3 DEF Inv, Typed, AllUnder
<1> QED
  BY <1>1, <1>3, <1>4, <1>5, <1>6 DEF AllUnder

LEMMA ServeUnder ==
  ASSUME Inv, AllUnder, UsedReported, NEW c \in Calls, NEW named \in BOOLEAN,
         NEW report \in Reports, Serve(c, named, report)
  PROVE  AllUnder'
<1>1. /\ pc[c] = "post" /\ pc' = [pc EXCEPT ![c] = "reply"]
      /\ UNCHANGED <<session, row, seen>>
  BY DEF Serve, Goto, manager
<1>2. /\ account \in [total : Nat, used : Nat] /\ account' \in [total : Nat, used : Nat]
      /\ account.used <= account'.used /\ account.total <= account'.total
      /\ reply' = [reply EXCEPT ![c] = reply'[c]]
      /\ reply'[c].used = account'.used /\ reply'[c].total <= account'.total
  BY Served DEF UsedReported, Inv, Typed
<1>3. /\ session \in Sessions /\ row.session \in Sessions
      /\ \A d \in Calls : seen[d] \in Sessions
  BY BlankIsNormal DEF Inv, AllNormal, Normal
<1>4. ASSUME NEW s \in Sessions, Under(s, account) PROVE Under(s, account')
  BY <1>2, <1>4 DEF Under, Sessions
<1>5. Under(session', account') /\ Under(row'.session, account')
  BY <1>1, <1>3, <1>4 DEF AllUnder
<1>6. \A d \in Calls : Under(seen'[d], account')
  BY <1>1, <1>3, <1>4 DEF AllUnder
<1>7. ASSUME NEW d \in Calls, pc'[d] \in {"reply", "apply"}
      PROVE  reply'[d].used \in 0..account'.used /\ reply'[d].total <= account'.total
  <2>1. CASE d = c
    BY <1>2, <2>1
  <2>2. CASE d # c
    <3>1. pc'[d] = pc[d] /\ reply'[d] = reply[d]
      BY <1>1, <1>2, <2>2 DEF Inv, Typed
    <3>2. reply[d].used \in 0..account.used /\ reply[d].total <= account.total
      BY <1>7, <3>1 DEF AllUnder
    <3>3. reply[d].total \in Int
      BY DEF Inv, Typed, Replies, Known, NoValue
    <3> QED
      BY <1>2, <3>1, <3>2, <3>3
  <2> QED
    BY <2>1, <2>2
<1> QED
  BY <1>5, <1>6, <1>7 DEF AllUnder

\* A report of the used quota leads to a session under the account.
LEMMA AnswerUnder ==
  ASSUME Inv, AllUnder, NEW c \in Calls, NEW ok \in BOOLEAN, NEW s \in Sessions,
         pc[c] \in {"reply", "apply"},
         SetSession(WithQuota(s, resolveQuotaFromPayload(reply[c], seen[c])), ok)
  PROVE  Under(session', account) /\ (row' = row \/ row' = Stored(session'))
<1> DEFINE quota == resolveQuotaFromPayload(reply[c], seen[c])
<1>1. Balances(seen[c])
  BY DEF Inv, AllNormal, Normal, Sessions, Balances
<1>2. Carries(reply[c])
  BY DEF Inv, Typed, Replies, Carries
<1>3. /\ account.used \in Nat /\ account.total \in Nat /\ account.used <= account.total
      /\ reply[c].used \in 0..account.used /\ reply[c].total <= account.total
      /\ seen[c].used <= account.used /\ seen[c].total <= account.total
  BY DEF Inv, Typed, AllUnder, Under
<1>4. quota.used <= account.used /\ quota.total <= account.total
  BY <1>1, <1>2, <1>3, ResolvedWithinAccount
<1>5. session'.used = quota.used /\ session'.total = quota.total /\ Saved
  BY AnswerSet
<1> HIDE DEF quota
<1> QED
  BY <1>4, <1>5 DEF Under, Saved

LEMMA SetParsedUnder ==
  ASSUME Inv, AllUnder, NEW c \in Calls, NEW ok \in BOOLEAN, SetParsed(c, ok)
  PROVE  AllUnder'
<1>1. /\ pc[c] = "reply" /\ pc' = [pc EXCEPT ![c] = "idle"]
      /\ UNCHANGED <<seen, reply, account>>
  BY DEF SetParsed, Goto
<1>2. CASE reply[c].user <= 0
  <2>1. session' = session /\ row' = row
    BY <1>2 DEF SetParsed, manager
  <2> QED
    BY <1>1, <2>1, EndedUnder DEF AllUnder
<1>3. CASE ~(reply[c].user <= 0)
  <2> DEFINE s == [seen[c] EXCEPT !.user = reply[c].user]
  <2>1. s \in Sessions
    BY DEF Inv, Typed, Sessions, Replies
  <2>2. SetSession(WithQuota(s, resolveQuotaFromPayload(reply[c], seen[c])), ok)
    BY <1>3 DEF SetParsed
  <2> HIDE DEF s
  <2>3. Under(session', account) /\ (row' = row \/ row' = Stored(session'))
    BY <1>1, <2>1, <2>2, AnswerUnder
  <2> QED
    BY <1>1, <2>3, EndedUnder
<1> QED
  BY <1>2, <1>3

LEMMA ApplyQuotaUnder ==
  ASSUME Inv, AllUnder, NEW c \in Calls, NEW ok \in BOOLEAN, ApplyQuota(c, ok)
  PROVE  AllUnder'
<1>1. /\ pc[c] = "apply" /\ pc' = [pc EXCEPT ![c] = "idle"]
      /\ UNCHANGED <<seen, reply, account>>
      /\ SetSession(WithQuota(seen[c], resolveQuotaFromPayload(reply[c], seen[c])), ok)
  BY DEF ApplyQuota, Goto
<1>2. seen[c] \in Sessions
  BY DEF Inv, Typed
<1>3. Under(session', account) /\ (row' = row \/ row' = Stored(session'))
  BY <1>1, <1>2, AnswerUnder
<1> QED
  BY <1>1, <1>3, EndedUnder

LEMMA ReadForQuotaUnder ==
  ASSUME Inv, AllUnder, NEW c \in Calls, ReadForQuota(c)
  PROVE  AllUnder'
<1>1. /\ pc[c] = "reply" /\ pc' = [pc EXCEPT ![c] = "apply"]
      /\ seen' = [seen EXCEPT ![c] = session']
      /\ UNCHANGED <<reply, account>> /\ EnsureLoaded(TRUE)
  BY DEF ReadForQuota, Goto
<1>2. loaded = TRUE
  BY <1>1 DEF Inv, AtRest, Typed
<1>3. session' = session /\ row' = row
  BY <1>1, <1>2, Loaded DEF manager
<1>4. \A d \in Calls : pc'[d] \in {"reply", "apply"} => pc[d] \in {"reply", "apply"}
  BY <1>1 DEF Inv, Typed
<1>5. \A d \in Calls : Under(seen'[d], account)
  BY <1>1, <1>3 DEF Inv, Typed, AllUnder
<1> QED
  BY <1>1, <1>3, <1>4, <1>5 DEF AllUnder

LEMMA ClearUnder ==
  ASSUME Inv, AllUnder, NEW ok \in BOOLEAN, Clear(ok)
  PROVE  AllUnder'
<1>1. /\ session' = [Blank EXCEPT !.device = session.device]
      /\ Write(IF session.device # 0 THEN Stored(session') ELSE NoRow, ok)
      /\ UNCHANGED <<pc, seen, reply, account>>
  BY DEF Clear, calls
<1>2. row' = row \/ row' = Stored(session') \/ row' = NoRow
  BY <1>1 DEF Write
<1>3. session'.used = 0 /\ session'.total = 0
  BY <1>1 DEF Blank
<1>4. Under(session', account) /\ Under(Blank, account)
  BY <1>3, BlankIsUnder DEF Inv, Typed, Under
<1>5. Under(row'.session, account)
  BY <1>2, <1>4, StoredFields, BlankIsNormal DEF AllUnder
<1> QED
  BY <1>1, <1>4, <1>5 DEF AllUnder

LEMMA RestartUnder ==
  ASSUME Inv, AllUnder, Restart PROVE AllUnder'
<1>1. /\ session' = Blank /\ pc' = [c \in Calls |-> "idle"]
      /\ seen' = [c \in Calls |-> Blank] /\ row' = row /\ account' = account
  BY DEF Restart
<1> QED
  BY <1>1, BlankIsUnder DEF AllUnder

LEMMA UnderStep ==
  ASSUME UsedReported, Inv, AllUnder, [Next]_vars PROVE AllUnder'
<1>1. CASE UNCHANGED vars
  BY <1>1 DEF vars, manager, calls, AllUnder
<1>2. CASE \E c \in Calls : CallStep(c)
  <2>1. PICK c \in Calls : CallStep(c)
    BY <1>2
  <2>2. CASE PostFails(c)
    <3>1. /\ pc' = [pc EXCEPT ![c] = "idle"]
          /\ UNCHANGED <<session, row, seen, reply, account>>
      BY <2>2 DEF PostFails, Goto, manager
    <3> QED
      BY <3>1, EndedUnder DEF AllUnder
  <2> QED
    BY <2>1, <2>2, BeginUnder, ServeUnder, ReadForQuotaUnder, SetParsedUnder,
       ApplyQuotaUnder DEF CallStep
<1>3. CASE \E ok \in BOOLEAN : Clear(ok)
  BY <1>3, ClearUnder
<1>4. CASE Restart
  BY <1>4, RestartUnder
<1> QED
  BY <1>1, <1>2, <1>3, <1>4 DEF Next

\* If every answer reports the used quota, the session never claims more used
\* or granted than the account has, in whatever order the answers are applied
\* and however stale the sessions are that they are applied to.
THEOREM QuotaNotOverstated ==
  ASSUME UsedReported PROVE Spec => []NeverOverstated
<1>1. Init => AllUnder
  BY BlankIsNormal, BlankIsUnder, InitInv DEF Init, AllUnder
<1>2. Inv /\ AllUnder /\ [Next]_vars => AllUnder'
  BY UnderStep
<1>3. AllUnder => NeverOverstated
  BY DEF AllUnder, Under, NeverOverstated
<1> QED
  BY <1>1, <1>2, <1>3, Invariant, PTL DEF Spec

-----------------------------------------------------------------------------
(* Types                                                                   *)

\* The bounds of the counters; what a call posts is of a loaded session, and
\* only a trial needs no user.
Counted ==
  /\ requests \in 0..MaxRequests /\ failures \in 0..MaxFailures
  /\ clears \in 0..MaxClears /\ boots \in Nat
  /\ \A c \in Calls : pc[c] = "post" =>
       loaded /\ (kind[c] = "ActivateTrial" \/ seen[c].user > 0)

LEMMA FailCounted ==
  ASSUME failures \in 0..MaxFailures, Fail PROVE failures' \in 0..MaxFailures
BY OfficialSessionAssumption DEF Fail

LEMMA WriteCounted ==
  ASSUME failures \in 0..MaxFailures, NEW record, NEW ok \in BOOLEAN, Write(record, ok)
  PROVE  failures' \in 0..MaxFailures
BY FailCounted DEF Write

LEMMA CountedStep ==
  ASSUME Inv, Counted, [Next]_vars PROVE Counted'
<1>1. CASE UNCHANGED vars
  BY <1>1 DEF vars, manager, calls, bounds, Counted
<1>2. ASSUME NEW c \in Calls, NEW k \in Kinds, NEW ok \in BOOLEAN, Begin(c, k, ok)
      PROVE  Counted'
  <2>1. /\ requests' = requests + 1 /\ requests < MaxRequests
        /\ UNCHANGED <<clears, boots>> /\ EnsureLoaded(ok)
        /\ kind' = [kind EXCEPT ![c] = k] /\ seen' = [seen EXCEPT ![c] = session']
        /\ pc' = [pc EXCEPT ![c] =
                    IF ok /\ (k = "ActivateTrial" \/ session'.user > 0) THEN "post" ELSE "idle"]
    BY <1>2 DEF Begin
  <2>2. failures' \in 0..MaxFailures
    BY <2>1, FailCounted, WriteCounted DEF EnsureLoaded, Counted
  <2>3. ok => loaded' = TRUE
    BY <2>1, Loaded DEF Inv, Typed, manager
  <2>4. loaded => loaded'
    BY <2>1, Loaded DEF manager
  <2>5. \A d \in Calls : pc'[d] = "post" =>
          loaded' /\ (kind'[d] = "ActivateTrial" \/ seen'[d].user > 0)
    BY <2>1, <2>3, <2>4 DEF Inv, Typed, Counted
  <2>6. requests' \in 0..MaxRequests
    BY <2>1, OfficialSessionAssumption DEF Counted
  <2> QED
    BY <2>1, <2>2, <2>5, <2>6 DEF Counted
<1>3. ASSUME NEW c \in Calls,
             \/ \E named \in BOOLEAN, report \in Reports : Serve(c, named, report)
             \/ PostFails(c)
      PROVE  Counted'
  <2>1. /\ UNCHANGED <<loaded, kind, seen, bounds>>
        /\ pc' \in {[pc EXCEPT ![c] = "reply"], [pc EXCEPT ![c] = "idle"]}
    BY <1>3 DEF Serve, PostFails, Goto, manager
  <2> QED
    BY <2>1 DEF Inv, Typed, Counted, bounds
<1>4. ASSUME NEW c \in Calls, NEW ok \in BOOLEAN, SetParsed(c, ok) \/ ApplyQuota(c, ok)
      PROVE  Counted'
  <2>1. /\ UNCHANGED <<kind, seen, requests, clears, boots>>
        /\ pc' = [pc EXCEPT ![c] = "idle"] /\ (loaded => loaded')
    BY <1>4 DEF SetParsed, ApplyQuota, SetSession, Goto, manager
  <2>2. failures' \in 0..MaxFailures
    BY <1>4, WriteCounted DEF SetParsed, ApplyQuota, SetSession, Counted
  <2> QED
    BY <2>1, <2>2 DEF Inv, Typed, Counted
<1>5. ASSUME NEW c \in Calls, ReadForQuota(c) PROVE Counted'
  <2>1. /\ UNCHANGED <<kind, requests, clears, boots>> /\ EnsureLoaded(TRUE)
        /\ seen' = [seen EXCEPT ![c] = session'] /\ pc' = [pc EXCEPT ![c] = "apply"]
        /\ pc[c] = "reply"
    BY <1>5 DEF ReadForQuota, Goto
  <2>2. loaded = TRUE
    BY <2>1 DEF Inv, AtRest, Typed
  <2>3. UNCHANGED <<loaded, failures>>
    BY <2>1, <2>2 DEF EnsureLoaded, manager
  <2> QED
    BY <2>1, <2>3 DEF Inv, Typed, Counted
<1>6. ASSUME NEW ok \in BOOLEAN, Clear(ok) PROVE Counted'
  <2>1. /\ clears < MaxClears /\ clears' = clears + 1 /\ loaded' = TRUE
        /\ UNCHANGED <<pc, kind, seen, requests, boots>>
    BY <1>6 DEF Clear, calls
  <2>2. failures' \in 0..MaxFailures
    BY <1>6, WriteCounted DEF Clear, Counted
  <2>3. clears' \in 0..MaxClears
    BY <2>1, OfficialSessionAssumption DEF Counted
  <2> QED
    BY <2>1, <2>2, <2>3 DEF Counted
<1>7. CASE Restart
  <2>1. /\ boots' = boots + 1 /\ UNCHANGED <<requests, failures, clears>>
        /\ pc' = [c \in Calls |-> "idle"]
    BY <1>7 DEF Restart
  <2> QED
    BY <2>1 DEF Counted
<1> QED
  BY <1>1, <1>2, <1>3, <1>4, <1>5, <1>6, <1>7 DEF Next, CallStep

\* Every variable of the manager and its calls stays in its type.
THEOREM TypeCorrect == Spec => []TypeOK
<1>1. Init => Counted
  BY OfficialSessionAssumption DEF Init, Counted
<1>2. Inv /\ Counted /\ [Next]_vars => Counted'
  BY CountedStep
<1>3. Inv /\ Counted => TypeOK
  <2> SUFFICES ASSUME Inv, Counted PROVE TypeOK
    OBVIOUS
  <2>1. session \in Sessions /\ row \in [ok : BOOLEAN, session : Sessions]
    <3>1. session \in Sessions
      BY DEF Inv, AllNormal, Normal
    <3>2. row = NoRow => row \in [ok : BOOLEAN, session : Sessions]
      BY BlankIsNormal DEF NoRow, Normal
    <3>3. ASSUME NEW s \in Sessions PROVE Stored(s) \in [ok : BOOLEAN, session : Sessions]
      BY DEF Stored
    <3> QED
      BY <3>1, <3>2, <3>3 DEF Inv, AllNormal, Normal
  <2>2. Replies \subseteq [user : 0..1, remaining : Int, total : Int, used : Int]
    BY DEF Replies, Known, NoValue
  <2>3. reply \in [Calls -> [user : 0..1, remaining : Int, total : Int, used : Int]]
    BY <2>2 DEF Inv, Typed
  <2> QED
    BY <2>1, <2>3 DEF Inv, Typed, Counted, TypeOK
<1> QED
  BY <1>1, <1>2, <1>3, Invariant, PTL DEF Spec

=============================================================================
