-------------------------- MODULE OfficialSession ---------------------------
(***************************************************************************)
(* The session with the official proxy service: OfficialSessionManager,    *)
(* the calls OfficialClient makes for concurrent REST requests, and the    *)
(* row the store keeps (surveycore/proxy/official_*.go, service/store.go). *)
(*                                                                         *)
(* Every method of the manager holds its mutex to the end, store call      *)
(* included, so each is one step; a client call is several of them with    *)
(* the service in between.  Calls read the session, wait for the network   *)
(* and write it back, as other calls, failed writes and restarts go on.    *)
(*                                                                         *)
(* Device ids are numbers drawn in order, 0 the empty one; the service     *)
(* knows the account as one user with a total and a used quota.            *)
(***************************************************************************)
EXTENDS Quota

CONSTANTS
  Calls,        \* concurrent requests
  MaxRequests,  \* bound: calls begun
  MaxFailures,  \* bound: failing store accesses and generators
  MaxClears,    \* bound: uses of Clear
  MaxBoots,     \* bound: starts of the process
  Reports,      \* the sets of quota values an answer may report
  TrialQuota    \* the account's total at the beginning

ASSUME OfficialSessionAssumption ==
  /\ MaxRequests \in Nat /\ MaxFailures \in Nat /\ MaxClears \in Nat
  /\ MaxBoots \in Nat /\ TrialQuota \in Nat
  /\ Reports \subseteq SUBSET {"remaining", "total", "used"}

VARIABLES
  loaded, session,     \* OfficialSessionManager
  row,                 \* v1_proxy_session: the stored session, if any
  pc, kind, seen, reply,   \* each call: where it is, which, what it read, got
  account,             \* the service: total and used quota
  devices,             \* device ids generated so far
  behind,              \* the last write of this process failed
  cleared,             \* Clear in this process: "no", "early" (before a load), "yes"
  requests, failures, clears, boots    \* bounds

manager == <<loaded, session>>
calls   == <<pc, kind, seen, reply>>
bounds  == <<requests, failures, clears, boots>>
vars    == <<manager, row, calls, account, devices, behind, cleared, bounds>>

Blank == [device |-> 0, user |-> 0, remaining |-> 0, total |-> 0, used |-> 0,
          known |-> FALSE]

NoRow == [ok |-> FALSE, session |-> Blank]

Stored(s) == [ok |-> TRUE, session |-> s]

NoReply == [user |-> 0, remaining |-> NoValue, total |-> NoValue, used |-> NoValue]

Kinds == {"ActivateTrial", "SyncQuota", "ExtractProxy", "RedeemCard"}

Init ==
  /\ loaded = FALSE /\ session = Blank /\ row = NoRow
  /\ pc = [c \in Calls |-> "idle"]
  /\ kind = [c \in Calls |-> "SyncQuota"]
  /\ seen = [c \in Calls |-> Blank]
  /\ reply = [c \in Calls |-> NoReply]
  /\ account = [total |-> TrialQuota, used |-> 0]
  /\ devices = 0 /\ behind = FALSE /\ cleared = "no"
  /\ requests = 0 /\ failures = 0 /\ clears = 0 /\ boots = 1

-----------------------------------------------------------------------------
(* OfficialSessionManager                                                  *)

Fail == failures < MaxFailures /\ failures' = failures + 1

\* The store takes the record, or fails and the caller gets an error.
Write(record, ok) ==
  \/ ok /\ row' = record /\ behind' = FALSE /\ UNCHANGED failures
  \/ ~ok /\ Fail /\ behind' = TRUE /\ UNCHANGED row

\* The session read, before a device id is generated for it.
ReadRow == IF row.ok THEN normalizeSession(row.session) ELSE session

NewDevice ==
  /\ devices' = devices + 1
  /\ session' = normalizeSession([ReadRow EXCEPT !.device = devices'])
  /\ loaded' = TRUE

\* A slip: the session counts as loaded although there is no device id yet.
EnsureLoadedAnyway(ok) ==
  \/ /\ loaded /\ ok
     /\ UNCHANGED <<manager, row, devices, behind, failures>>
  \/ /\ ~loaded /\ ~ok /\ Fail
     /\ session' = ReadRow /\ loaded' = TRUE
     /\ UNCHANGED <<row, devices, behind>>

\* A slip: a session that cannot be read counts as absent.
EnsureLoadedOrNew(ok) ==
  \/ /\ loaded /\ ok
     /\ UNCHANGED <<manager, row, devices, behind, failures>>
  \/ /\ ~loaded /\ ReadRow.device # 0 /\ ok
     /\ session' = ReadRow /\ loaded' = TRUE
     /\ UNCHANGED <<row, devices, behind, failures>>
  \/ /\ ~loaded /\ ok /\ Fail
     /\ devices' = devices + 1
     /\ session' = [Blank EXCEPT !.device = devices'] /\ loaded' = TRUE
     /\ row' = Stored(session') /\ UNCHANGED behind
  \/ ~loaded /\ ~row.ok /\ NewDevice /\ Write(Stored(session'), ok)

EnsureLoaded(ok) ==
  \/ /\ loaded /\ ok
     /\ UNCHANGED <<manager, row, devices, behind, failures>>
  \/ /\ ~loaded /\ ~ok /\ Fail         \* LoadSession fails
     /\ UNCHANGED <<manager, row, devices, behind>>
  \/ /\ ~loaded /\ ReadRow.device # 0 /\ ok
     /\ session' = ReadRow /\ loaded' = TRUE
     /\ UNCHANGED <<row, devices, behind, failures>>
  \/ /\ ~loaded /\ ReadRow.device = 0
     /\ \/ /\ ~ok /\ Fail              \* the generator fails
           /\ session' = ReadRow /\ loaded' = row.ok
           /\ UNCHANGED <<row, devices, behind>>
        \/ NewDevice /\ Write(Stored(session'), ok)

\* A slip: only what is known about the quota is worth a write.
SetSessionIfKnown(s, ok) ==
  /\ session' = normalizeSession(s)
  /\ loaded' = TRUE
  /\ IF session'.known THEN Write(Stored(session'), ok)
     ELSE ok /\ UNCHANGED <<row, behind, failures>>

SetSession(s, ok) ==
  /\ session' = normalizeSession(s)
  /\ loaded' = TRUE
  /\ Write(Stored(session'), ok)

\* Clear keeps the device id it finds in memory.
Clear(ok) ==
  /\ clears < MaxClears /\ clears' = clears + 1
  /\ session' = [Blank EXCEPT !.device = session.device]
  /\ loaded' = TRUE
  /\ cleared' = IF loaded /\ cleared # "early" THEN "yes" ELSE "early"
  /\ Write(IF session.device # 0 THEN Stored(session') ELSE NoRow, ok)
  /\ UNCHANGED <<calls, account, devices, requests, boots>>

-----------------------------------------------------------------------------
(* OfficialClient                                                          *)

Goto(c, from, to) == pc[c] = from /\ pc' = [pc EXCEPT ![c] = to]

\* EnsureLoaded, and RequireAuthenticated for all but the trial.
Begin(c, k, ok) ==
  /\ pc[c] = "idle" /\ requests < MaxRequests
  /\ requests' = requests + 1
  /\ EnsureLoaded(ok)
  /\ kind' = [kind EXCEPT ![c] = k]
  /\ seen' = [seen EXCEPT ![c] = session']
  /\ pc' = [pc EXCEPT ![c] =
              IF ok /\ (k = "ActivateTrial" \/ session'.user > 0) THEN "post" ELSE "idle"]
  /\ UNCHANGED <<reply, account, cleared, clears, boots>>

\* The service handles the request, for a device id it knows the user of.
Serve(c, named, report) ==
  /\ Goto(c, "post", "reply")
  /\ account' =
       CASE kind[c] = "ExtractProxy" /\ account.used < account.total ->
              [account EXCEPT !.used = @ + 1]
         [] kind[c] = "RedeemCard" -> [account EXCEPT !.total = @ + 1]
         [] OTHER -> account
  /\ LET now == [user |-> 1, remaining |-> account'.total - account'.used,
                 total |-> account'.total, used |-> account'.used]
         fields == IF named THEN report \cup {"user"} ELSE report
     IN  reply' = [reply EXCEPT ![c] =
                     [f \in DOMAIN now |-> IF f \in fields THEN now[f] ELSE NoReply[f]]]
  /\ UNCHANGED <<manager, row, kind, seen, devices, behind, cleared, bounds>>

\* No answer, an error status or no JSON, before or after the service acted.
PostFails(c) ==
  /\ Goto(c, "post", "idle") \/ Goto(c, "reply", "idle")
  /\ UNCHANGED <<manager, row, kind, seen, reply, account, devices, behind,
                 cleared, bounds>>

WithQuota(s, quota) ==
  [s EXCEPT !.remaining = quota.remaining, !.total = quota.total,
            !.used = quota.used, !.known = quota.known]

\* A slip: the user id of the answer is not checked.
SetParsedUnchecked(c, ok) ==
  /\ kind[c] \in {"ActivateTrial", "SyncQuota"}
  /\ Goto(c, "reply", "idle")
  /\ SetSession(WithQuota([seen[c] EXCEPT !.user = reply[c].user],
                          resolveQuotaFromPayload(reply[c], seen[c])), ok)
  /\ UNCHANGED <<kind, seen, reply, account, devices, cleared, requests, clears, boots>>

\* parseSessionPayload, then SetSession, of ActivateTrial and SyncQuota: the
\* fallback is the session read at the beginning of the call.
SetParsed(c, ok) ==
  /\ kind[c] \in {"ActivateTrial", "SyncQuota"}
  /\ Goto(c, "reply", "idle")
  /\ IF reply[c].user <= 0
     THEN UNCHANGED <<manager, row, behind, failures>>
     ELSE SetSession(WithQuota([seen[c] EXCEPT !.user = reply[c].user],
                               resolveQuotaFromPayload(reply[c], seen[c])), ok)
  /\ UNCHANGED <<kind, seen, reply, account, devices, cleared, requests, clears, boots>>

\* ApplyQuotaPayload of the other calls: the session is read once more ...
ReadForQuota(c) ==
  /\ kind[c] \in {"ExtractProxy", "RedeemCard"}
  /\ Goto(c, "reply", "apply")
  /\ EnsureLoaded(TRUE)
  /\ seen' = [seen EXCEPT ![c] = session']
  /\ UNCHANGED <<kind, reply, account, cleared, requests, clears, boots>>

\* ... and, the mutex free in between, set with the new quota.
ApplyQuota(c, ok) ==
  /\ Goto(c, "apply", "idle")
  /\ SetSession(WithQuota(seen[c], resolveQuotaFromPayload(reply[c], seen[c])), ok)
  /\ UNCHANGED <<kind, seen, reply, account, devices, cleared, requests, clears, boots>>

\* The process ends anywhere, and another starts.
Restart ==
  /\ boots < MaxBoots /\ boots' = boots + 1
  /\ loaded' = FALSE /\ session' = Blank /\ behind' = FALSE /\ cleared' = "no"
  /\ pc' = [c \in Calls |-> "idle"]
  /\ seen' = [c \in Calls |-> Blank] /\ reply' = [c \in Calls |-> NoReply]
  /\ UNCHANGED <<row, kind, account, devices, requests, failures, clears>>

CallStep(c) ==
  \/ \E k \in Kinds, ok \in BOOLEAN : Begin(c, k, ok)
  \/ \E named \in BOOLEAN, report \in Reports : Serve(c, named, report)
  \/ PostFails(c) \/ ReadForQuota(c)
  \/ \E ok \in BOOLEAN : SetParsed(c, ok) \/ ApplyQuota(c, ok)

Next ==
  \/ \E c \in Calls : CallStep(c)
  \/ \E ok \in BOOLEAN : Clear(ok)
  \/ Restart

Spec == Init /\ [][Next]_vars

-----------------------------------------------------------------------------
(* Properties                                                              *)

Sessions == [device : Nat, user : 0..1, remaining : Nat, total : Nat, used : Nat,
             known : BOOLEAN]

\* Every variable of the session manager and of its calls stays in its type;
\* what a call posts is of a loaded session, and only a trial needs no user.
TypeOK ==
  /\ loaded \in BOOLEAN /\ session \in Sessions
  /\ row \in [ok : BOOLEAN, session : Sessions]
  /\ pc \in [Calls -> {"idle", "post", "reply", "apply"}]
  /\ \A c \in Calls : pc[c] = "post" =>
       loaded /\ (kind[c] = "ActivateTrial" \/ seen[c].user > 0)
  /\ kind \in [Calls -> Kinds]
  /\ seen \in [Calls -> Sessions]
  /\ reply \in [Calls -> [user : 0..1, remaining : Int, total : Int, used : Int]]
  /\ account \in [total : Nat, used : Nat]
  /\ devices \in Nat /\ behind \in BOOLEAN
  /\ cleared \in {"no", "early", "yes"}
  /\ requests \in 0..MaxRequests /\ failures \in 0..MaxFailures
  /\ clears \in 0..MaxClears /\ boots \in Nat

\* Unless the last write failed, a restart finds the session this process
\* works with: no interleaving of calls leaves memory and row apart.
MemoryIsRow ==
  loaded /\ ~behind => row = Stored(session) \/ (row = NoRow /\ session = Blank)

\* A stored device id is never replaced or lost, through failed reads, failed
\* writes, stale writes and restarts, unless Clear comes before the first load.
DeviceSurvives ==
  [][row.ok /\ row.session.device # 0 /\ cleared' # "early" =>
       row'.ok /\ row'.session.device = row.session.device]_vars

\* Within one process nothing but Clear logs the account out: neither a stale
\* quota update nor an answer without a user.
UserKept ==
  [][session.user > 0 /\ loaded' /\ cleared' = "no" => session'.user = session.user]_vars

\* In whatever order answers that report the used quota are applied, the
\* session never claims more used or granted than the account has.
NeverOverstated ==
  session.used <= account.used /\ session.total <= account.total

\* The session of a user has the device id the service knows it by, also when
\* generating or storing that id failed at first: only Clear can lose it.
AccountHasDevice == session.user > 0 /\ clears = 0 => session.device # 0

=============================================================================
