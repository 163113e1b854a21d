----------------------------- MODULE ProxyPool ------------------------------
(***************************************************************************)
(* The proxy lease pool (pkg/surveycore/proxy/pool.go) as the engine's     *)
(* owners use it: Acquire, then MarkSuccess or MarkCooldown, then Release. *)
(*                                                                         *)
(* mu makes Add, Release, the Mark operations and every pop atomic.  An    *)
(* Acquire is several of these: it pops, waits for fetchMu, pops again,    *)
(* fetches without mu, adds what it fetched, and pops a last time.         *)
(*                                                                         *)
(* The order of the free leases is left out: a pop takes any usable lease  *)
(* where the code takes the first, and where several leases have one       *)
(* address any of them may be the one looked at.  Addresses are already    *)
(* normalised; a raw lease is poolable when its address is valid and its   *)
(* Poolable flag is set.  Times are integers.                              *)
(***************************************************************************)
EXTENDS Integers

CONSTANTS
  Owners,      \* owner keys
  Addresses,   \* normalised proxy addresses
  NoAddress,   \* of an owner without lease
  RequiredTTL, \* Pool.requiredTTL
  CooldownFor, \* options.CooldownOnError
  Fetches,     \* what a Fetch or an Add may bring: sets of raw leases
  MaxNow,      \* bound: the clock
  MaxCalls     \* bound: Acquire calls

ASSUME PoolAssumption ==
  /\ NoAddress \notin Addresses \cup Owners
  /\ RequiredTTL \in Int
  /\ CooldownFor \in Nat \ {0}
  /\ Fetches \subseteq SUBSET [addr : Addresses, expire : Int, poolable : BOOLEAN]
  /\ MaxNow \in Nat /\ MaxCalls \in Nat

Leases == [addr : Addresses, expire : Int]

NoLease == [addr |-> NoAddress, expire |-> 0]

VARIABLES
  leases,     \* Pool.leases: the free ones
  inUse,      \* Pool.inUse
  successful, \* Pool.successful
  cooldown,   \* Pool.cooldown: until when, 0 for no entry
  fetchMu,    \* who holds fetchMu, NoAddress for nobody
  now,        \* the clock
  canceled,   \* the context of every Acquire is over
  loc,        \* where each owner is
  fetched,    \* what its Fetch brought
  until,      \* the end of the cooldown it computed before taking mu
  calls       \* Acquire calls so far (bound)

pool   == <<leases, inUse, successful, cooldown>>
vars   == <<pool, fetchMu, now, canceled, loc, fetched, until, calls>>

Init ==
  /\ leases = {} /\ successful = {}
  /\ inUse = [o \in Owners |-> NoLease]
  /\ cooldown = [a \in Addresses |-> 0]
  /\ fetchMu = NoAddress
  /\ now = 1 /\ canceled = FALSE
  /\ loc = [o \in Owners |-> "idle"]
  /\ fetched = [o \in Owners |-> {}]
  /\ until = [o \in Owners |-> 0]
  /\ calls = 0

Goto(o, from, to) == loc[o] = from /\ loc' = [loc EXCEPT ![o] = to]

-----------------------------------------------------------------------------
(* What holds under mu                                                     *)

\* ProxyLeaseHasSufficientTTL: no expiry, or enough left.
HasTTL(l) == l.expire <= 0 \/ l.expire - now >= RequiredTTL

Cooling(a) == cooldown[a] > now

\* purgeExpiredCooldownsLocked
Purged == [a \in Addresses |-> IF cooldown[a] <= now THEN 0 ELSE cooldown[a]]

\* Slips: the leases in use, or the successes, are forgotten.
BlockedSuccesses(excluded) == successful

BlockedInUse(excluded) ==
  {inUse[o].addr : o \in {p \in Owners : p # excluded /\ inUse[p] # NoLease}}

\* blockedAddressesLocked(excluded)
Blocked(excluded) ==
  successful \cup {inUse[o].addr : o \in {p \in Owners : p # excluded /\ inUse[p] # NoLease}}

\* One lease of S for every address of S.
OnePerAddress(S) ==
  {R \in SUBSET S : \A l \in S : \E r \in R : r.addr = l.addr
                                              /\ \A q \in R : q.addr = l.addr => q = r}

Poolable(raw) == {[addr |-> r.addr, expire |-> r.expire] : r \in {x \in raw : x.poolable}}

\* A slip: an address that is cooling down is merged again.
MergeCooling(raw) ==
  /\ cooldown' = Purged
  /\ LET fresh == {l \in Poolable(raw) :
                     /\ HasTTL(l)
                     /\ l.addr \notin Blocked(NoAddress)
                     /\ \A known \in leases : known.addr # l.addr}
     IN  \E added \in OnePerAddress(fresh) : leases' = leases \cup added
  /\ UNCHANGED <<inUse, successful>>

\* mergeLocked: usable leases of addresses the pool does not know.
Merge(raw) ==
  /\ cooldown' = Purged
  /\ LET fresh == {l \in Poolable(raw) :
                     /\ HasTTL(l) /\ ~Cooling(l.addr)
                     /\ l.addr \notin Blocked(NoAddress)
                     /\ \A known \in leases : known.addr # l.addr}
     IN  \E added \in OnePerAddress(fresh) : leases' = leases \cup added
  /\ UNCHANGED <<inUse, successful>>

\* popAvailableLocked: what is cooling or about to expire is dropped, what is
\* blocked stays, one of the others becomes the owner's.
Pop(o, found, missed) ==
  /\ cooldown' = Purged
  /\ \E seen \in OnePerAddress(leases) :
       LET kept == {l \in seen : ~Cooling(l.addr) /\ HasTTL(l)}
           free == {l \in kept : l.addr \notin Blocked(o)}
       IN  \/ /\ free = {}
              /\ leases' = kept
              /\ UNCHANGED inUse
              /\ loc' = [loc EXCEPT ![o] = missed]
           \/ \E l \in free :
                /\ leases' = kept \ {l}
                /\ inUse' = [inUse EXCEPT ![o] = l]
                /\ loc' = [loc EXCEPT ![o] = found]
  /\ UNCHANGED successful

-----------------------------------------------------------------------------
(* Acquire                                                                 *)

Acquire(o) ==
  /\ Goto(o, "idle", "firstPop") /\ calls < MaxCalls
  /\ calls' = calls + 1
  /\ UNCHANGED <<pool, fetchMu, now, canceled, fetched, until>>

FirstPop(o) ==
  /\ loc[o] = "firstPop"
  /\ Pop(o, "holding", "lockFetch")
  /\ UNCHANGED <<fetchMu, now, canceled, fetched, until, calls>>

\* lockFetch polls TryLock and gives up when the context is over.
LockFetch(o) ==
  /\ Goto(o, "lockFetch", "secondPop")
  /\ fetchMu = NoAddress /\ ~canceled
  /\ fetchMu' = o
  /\ UNCHANGED <<pool, now, canceled, fetched, until, calls>>

LockFetchCanceled(o) ==
  /\ Goto(o, "lockFetch", "idle") /\ canceled
  /\ UNCHANGED <<pool, fetchMu, now, canceled, fetched, until, calls>>

\* The deferred Unlock runs with the return.
UnlockIfDone(o) == fetchMu' = IF loc'[o] \in {"idle", "holding"} THEN NoAddress ELSE fetchMu

SecondPop(o) ==
  /\ loc[o] = "secondPop"
  /\ Pop(o, "holding", "fetch")
  /\ UnlockIfDone(o)
  /\ UNCHANGED <<now, canceled, fetched, until, calls>>

\* A slip: the error return leaves fetchMu locked.
FetchReturnsLocked(o) ==
  /\ \/ /\ Goto(o, "fetch", "add")
        /\ \E raw \in Fetches : fetched' = [fetched EXCEPT ![o] = raw]
     \/ Goto(o, "fetch", "idle") /\ UNCHANGED fetched
  /\ UNCHANGED <<fetchMu, pool, now, canceled, until, calls>>

\* Fetch answers leases, or an error that Acquire returns (no fetcher is one).
FetchReturns(o) ==
  /\ \/ /\ Goto(o, "fetch", "add")
        /\ \E raw \in Fetches : fetched' = [fetched EXCEPT ![o] = raw]
     \/ Goto(o, "fetch", "idle") /\ UNCHANGED fetched
  /\ UnlockIfDone(o)
  /\ UNCHANGED <<pool, now, canceled, until, calls>>

AddFetched(o) ==
  /\ Goto(o, "add", "thirdPop")
  /\ Merge(fetched[o])
  /\ fetched' = [fetched EXCEPT ![o] = {}]
  /\ UNCHANGED <<fetchMu, now, canceled, until, calls>>

\* Another owner may have popped what this one fetched: ErrProxyUnavailable.
ThirdPop(o) ==
  /\ loc[o] = "thirdPop"
  /\ Pop(o, "holding", "idle")
  /\ UnlockIfDone(o)
  /\ UNCHANGED <<now, canceled, fetched, until, calls>>

-----------------------------------------------------------------------------
(* The end of an attempt, as releaseExecutionLease does it: MarkSuccess or *)
(* MarkCooldown, or neither without a cooldown, then Release.              *)

MarkSuccess(o) ==
  /\ Goto(o, "holding", "marked")
  /\ successful' = successful \cup {inUse[o].addr}
  /\ UNCHANGED <<leases, inUse, cooldown, fetchMu, now, canceled, fetched, until, calls>>

\* until is computed before mu is taken.
ReadClock(o) ==
  /\ Goto(o, "holding", "cooling")
  /\ until' = [until EXCEPT ![o] = now + CooldownFor]
  /\ UNCHANGED <<pool, fetchMu, now, canceled, fetched, calls>>

MarkCooldown(o) ==
  /\ Goto(o, "cooling", "marked")
  /\ cooldown' = [cooldown EXCEPT ![inUse[o].addr] = IF until[o] > @ THEN until[o] ELSE @]
  /\ leases' = {l \in leases : l.addr # inUse[o].addr}
  /\ UNCHANGED <<inUse, successful, fetchMu, now, canceled, fetched, until, calls>>

Release(o) ==
  /\ loc[o] \in {"holding", "marked"}
  /\ loc' = [loc EXCEPT ![o] = "idle"]
  /\ inUse' = [inUse EXCEPT ![o] = NoLease]
  /\ UNCHANGED <<leases, successful, cooldown, fetchMu, now, canceled, fetched, until, calls>>

-----------------------------------------------------------------------------
(* The environment: Pool.Add, the clock, the end of the run.               *)

Add(raw) ==
  /\ Merge(raw)
  /\ UNCHANGED <<fetchMu, now, canceled, loc, fetched, until, calls>>

Tick ==
  /\ now < MaxNow
  /\ now' = now + 1
  /\ UNCHANGED <<pool, fetchMu, canceled, loc, fetched, until, calls>>

Cancel ==
  /\ ~canceled /\ canceled' = TRUE
  /\ UNCHANGED <<pool, fetchMu, now, loc, fetched, until, calls>>

AcquireStep(o) ==
  \/ FirstPop(o) \/ LockFetch(o) \/ LockFetchCanceled(o) \/ SecondPop(o)
  \/ FetchReturns(o) \/ AddFetched(o) \/ ThirdPop(o)

UseStep(o) == MarkSuccess(o) \/ ReadClock(o) \/ MarkCooldown(o) \/ Release(o)

Next ==
  \/ \E o \in Owners : Acquire(o) \/ AcquireStep(o) \/ UseStep(o)
  \/ \E raw \in Fetches : Add(raw)
  \/ Tick \/ Cancel

\* Goroutines run, Fetch answers (it has a timeout), leases are given back.
Fairness == \A o \in Owners : WF_vars(AcquireStep(o)) /\ WF_vars(UseStep(o))

Spec == Init /\ [][Next]_vars /\ Fairness

-----------------------------------------------------------------------------
(* Properties                                                              *)

Locations == {"idle", "firstPop", "lockFetch", "secondPop", "fetch", "add",
              "thirdPop", "holding", "cooling", "marked"}

Held == {"holding", "cooling", "marked"}

Fetching == {"secondPop", "fetch", "add", "thirdPop"}

\* Every variable of the pool stays in its type, and an owner is in inUse
\* exactly from its pop to its release.
TypeOK ==
  /\ leases \subseteq Leases
  /\ inUse \in [Owners -> Leases \cup {NoLease}]
  /\ successful \subseteq Addresses
  /\ cooldown \in [Addresses -> Nat]
  /\ fetchMu \in Owners \cup {NoAddress}
  /\ now \in Nat /\ canceled \in BOOLEAN
  /\ loc \in [Owners -> Locations]
  /\ fetched \in [Owners -> SUBSET [addr : Addresses, expire : Int, poolable : BOOLEAN]]
  /\ until \in [Owners -> Nat]
  /\ calls \in Nat
  /\ \A o \in Owners : loc[o] \in Held <=> inUse[o] # NoLease

\* Two owners never work through one proxy address at the same time, however
\* their pops, fetches and merges interleave.
LeaseExclusive ==
  \A o, p \in Owners :
    loc[o] \in Held /\ loc[p] \in Held /\ inUse[o].addr = inUse[p].addr => o = p

\* An address that carried a successful submission is never handed out
\* again: who holds one unmarked holds one that has not succeeded before.
SuccessNotReused ==
  \A o \in Owners : loc[o] \in {"holding", "cooling"} => inUse[o].addr \notin successful

\* What is free to be popped is nobody's, has not succeeded and is not
\* cooling down, also just after an attempt failed on it.
FreeLeasesClean ==
  \A l \in leases :
    /\ l.addr \notin successful
    /\ ~Cooling(l.addr)
    /\ \A o \in Owners : inUse[o] # NoLease => inUse[o].addr # l.addr

\* The pool keeps one free lease per address.
FreeAddressesDistinct ==
  \A k, l \in leases : k.addr = l.addr => k = l

\* The proxy service is asked by one owner at a time: fetchMu is held exactly
\* by the owner between its second and its third pop.
FetchSingleFlight ==
  \A o \in Owners : loc[o] \in Fetching <=> fetchMu = o

\* Every Acquire answers, a lease or an error.
AcquireAnswers ==
  \A o \in Owners :
    (loc[o] \in {"firstPop", "lockFetch"} \cup Fetching) ~> (loc[o] \in {"idle", "holding"})

=============================================================================
