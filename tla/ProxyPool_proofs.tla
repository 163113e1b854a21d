-------------------------- MODULE ProxyPool_proofs --------------------------
(***************************************************************************)
(* Lease exclusivity of the proxy pool, for every set of owners and of     *)
(* addresses, every answer of the proxy service and every clock.           *)
(*                                                                         *)
(* The exclusivity of leases is not inductive alone: a pop hands out a     *)
(* free lease, so free leases must be distinct and disjoint from the held  *)
(* ones; a merge keeps that because it rejects known addresses.  PoolInv   *)
(* is the conjunction that each step preserves.                            *)
(***************************************************************************)
EXTENDS ProxyPool, TLAPS

PoolInv ==
  /\ TypeOK
  /\ LeaseExclusive
  /\ SuccessNotReused
  /\ FreeLeasesClean
  /\ FreeAddressesDistinct

LEMMA NoLeaseFacts ==
  /\ NoLease \notin Leases
  /\ \A l \in Leases : l # NoLease /\ l.addr \in Addresses
BY PoolAssumption DEF NoLease, Leases

\* The pool is empty and nobody holds anything at the start.
LEMMA InitPoolInv == Init => PoolInv
<1> SUFFICES ASSUME Init PROVE PoolInv
  OBVIOUS
<1>1. TypeOK
  <2>1. leases \subseteq Leases /\ successful \subseteq Addresses
    BY DEF Init
  <2>2. inUse \in [Owners -> Leases \cup {NoLease}] /\ cooldown \in [Addresses -> Nat]
    BY DEF Init
  <2>3. fetchMu \in Owners \cup {NoAddress} /\ now \in Nat /\ canceled \in BOOLEAN
    BY DEF Init
  <2>4. loc \in [Owners -> Locations] /\ until \in [Owners -> Nat] /\ calls \in Nat
    BY DEF Init, Locations
  <2>5. fetched \in [Owners -> SUBSET [addr : Addresses, expire : Int, poolable : BOOLEAN]]
    BY DEF Init
  <2>6. \A o \in Owners : loc[o] \in Held <=> inUse[o] # NoLease
    BY DEF Init, Held
  <2> QED
    BY <2>1, <2>2, <2>3, <2>4, <2>5, <2>6 DEF TypeOK
<1>2. LeaseExclusive /\ SuccessNotReused
  BY DEF Init, LeaseExclusive, SuccessNotReused, Held
<1>3. FreeLeasesClean /\ FreeAddressesDistinct
  BY DEF Init, FreeLeasesClean, FreeAddressesDistinct
<1> QED
  BY <1>1, <1>2, <1>3 DEF PoolInv

\* Purging and testing cooldowns commute: purged entries were over.
LEMMA PurgedCooling ==
  ASSUME TypeOK, now' = now, cooldown' = Purged
  PROVE  /\ cooldown' \in [Addresses -> Nat]
         /\ \A a \in Addresses : Cooling(a)' <=> Cooling(a)
BY DEF TypeOK, Purged, Cooling

\* A set with one lease per address is a subset with distinct addresses.
LEMMA OnePerAddressFacts ==
  ASSUME NEW S, NEW R \in OnePerAddress(S)
  PROVE  /\ R \subseteq S
         /\ \A r \in R, q \in R : r.addr = q.addr /\ r \in S => r = q
BY DEF OnePerAddress

-----------------------------------------------------------------------------
(* The pool's own part of the invariant: what Pop and Merge touch.         *)

PoolTypes ==
  /\ leases \subseteq Leases
  /\ inUse \in [Owners -> Leases \cup {NoLease}]
  /\ successful \subseteq Addresses
  /\ cooldown \in [Addresses -> Nat]
  /\ now \in Nat
  /\ loc \in [Owners -> Locations]
  /\ \A o \in Owners : loc[o] \in Held <=> inUse[o] # NoLease

OtherTypes ==
  /\ fetchMu \in Owners \cup {NoAddress}
  /\ canceled \in BOOLEAN
  /\ fetched \in [Owners -> SUBSET [addr : Addresses, expire : Int, poolable : BOOLEAN]]
  /\ until \in [Owners -> Nat]
  /\ calls \in Nat

Core ==
  /\ PoolTypes
  /\ LeaseExclusive
  /\ SuccessNotReused
  /\ FreeLeasesClean
  /\ FreeAddressesDistinct

LEMMA CoreAndTypes == PoolInv <=> Core /\ OtherTypes
BY DEF PoolInv, TypeOK, Core, PoolTypes, OtherTypes

\* What an owner pops is free for it alone: the pop of any owner without a
\* lease keeps the pool's invariant.
LEMMA PopKeepsCore ==
  ASSUME PoolInv, NEW o \in Owners, loc[o] \notin Held,
         NEW missed \in Locations \ Held, now' = now, Pop(o, "holding", missed)
  PROVE  Core'
<1> PICK seen \in OnePerAddress(leases) :
      LET kept == {l \in seen : ~Cooling(l.addr) /\ HasTTL(l)}
          free == {l \in kept : l.addr \notin Blocked(o)}
      IN  \/ /\ free = {}
             /\ leases' = kept
             /\ UNCHANGED inUse
             /\ loc' = [loc EXCEPT ![o] = missed]
          \/ \E l \in free :
               /\ leases' = kept \ {l}
               /\ inUse' = [inUse EXCEPT ![o] = l]
               /\ loc' = [loc EXCEPT ![o] = "holding"]
  BY DEF Pop
<1> DEFINE kept == {l \in seen : ~Cooling(l.addr) /\ HasTTL(l)}
           free == {l \in kept : l.addr \notin Blocked(o)}
<1>1. TypeOK /\ successful' = successful /\ cooldown' = Purged
  BY DEF PoolInv, Pop
<1>2. /\ cooldown' \in [Addresses -> Nat]
      /\ \A a \in Addresses : Cooling(a)' <=> Cooling(a)
  BY <1>1, PurgedCooling
<1>3. kept \subseteq leases
  BY OnePerAddressFacts
<1>4. inUse[o] = NoLease
  BY <1>1 DEF TypeOK
<1>5. CASE leases' = kept /\ inUse' = inUse /\ loc' = [loc EXCEPT ![o] = missed]
  <2>1. PoolTypes'
    BY <1>1, <1>2, <1>3, <1>4, <1>5 DEF PoolTypes, TypeOK
  <2>2. LeaseExclusive' /\ SuccessNotReused'
    BY <1>1, <1>5 DEF PoolInv, LeaseExclusive, SuccessNotReused, TypeOK, Held
  <2>3. FreeLeasesClean'
    BY <1>1, <1>2, <1>3, <1>5 DEF PoolInv, FreeLeasesClean, TypeOK, Leases
  <2>4. FreeAddressesDistinct'
    BY <1>3, <1>5 DEF PoolInv, FreeAddressesDistinct
  <2> QED
    BY <2>1, <2>2, <2>3, <2>4 DEF Core
<1>6. ASSUME NEW l \in free, leases' = kept \ {l}, inUse' = [inUse EXCEPT ![o] = l],
             loc' = [loc EXCEPT ![o] = "holding"]
      PROVE  Core'
  <2>1. l \in leases /\ l \in Leases /\ l # NoLease /\ l.addr \in Addresses
    BY <1>1, <1>3, NoLeaseFacts DEF TypeOK
  <2>2. /\ l.addr \notin successful
        /\ \A p \in Owners : inUse[p] # NoLease => inUse[p].addr # l.addr
    BY <2>1 DEF PoolInv, FreeLeasesClean
  <2>3. PoolTypes'
    BY <1>1, <1>2, <1>3, <1>6, <2>1 DEF PoolTypes, TypeOK, Locations, Held
  <2>4. LeaseExclusive'
    BY <1>1, <1>6, <2>2 DEF PoolInv, LeaseExclusive, TypeOK
  <2>5. SuccessNotReused'
    BY <1>1, <1>6, <2>2 DEF PoolInv, SuccessNotReused, TypeOK
  <2>6. \A k \in leases' : k \in leases /\ k.addr # l.addr
    BY <1>3, <1>6, <2>1 DEF PoolInv, FreeAddressesDistinct
  <2>7. FreeLeasesClean'
    BY <1>1, <1>2, <1>6, <2>6 DEF PoolInv, FreeLeasesClean, TypeOK, Leases
  <2>8. FreeAddressesDistinct'
    BY <2>6 DEF PoolInv, FreeAddressesDistinct
  <2> QED
    BY <2>3, <2>4, <2>5, <2>7, <2>8 DEF Core
<1> QED
  BY <1>5, <1>6

\* A merge adds usable leases of unknown addresses, one for each address.
LEMMA MergeKeepsCore ==
  ASSUME PoolInv, NEW raw \in SUBSET [addr : Addresses, expire : Int, poolable : BOOLEAN],
         now' = now, Merge(raw),
         loc' \in [Owners -> Locations],
         \A o \in Owners : /\ loc'[o] \in Held <=> loc[o] \in Held
                           /\ loc'[o] \in Held => loc'[o] = loc[o]
  PROVE  Core'
<1> DEFINE fresh == {l \in Poolable(raw) :
                     /\ HasTTL(l) /\ ~Cooling(l.addr)
                     /\ l.addr \notin Blocked(NoAddress)
                     /\ \A known \in leases : known.addr # l.addr}
<1>1. TypeOK /\ successful' = successful /\ inUse' = inUse /\ cooldown' = Purged
  BY DEF PoolInv, Merge
<1>2. /\ cooldown' \in [Addresses -> Nat]
      /\ \A a \in Addresses : Cooling(a)' <=> Cooling(a)
  BY <1>1, PurgedCooling
<1>3. PICK added \in OnePerAddress(fresh) : leases' = leases \cup added
  BY DEF Merge
<1>4. /\ added \subseteq fresh
      /\ \A r \in added, q \in added : r.addr = q.addr => r = q
  BY OnePerAddressFacts
<1>5. fresh \subseteq Leases
  BY DEF Poolable, Leases
<1>6. \A l \in fresh : /\ l.addr \notin successful /\ ~Cooling(l.addr)
                       /\ \A o \in Owners : inUse[o] # NoLease => inUse[o].addr # l.addr
                       /\ \A known \in leases : known.addr # l.addr
  BY PoolAssumption DEF Blocked
<1>7. PoolTypes'
  BY <1>1, <1>2, <1>3, <1>4, <1>5 DEF PoolTypes, TypeOK
<1>8. LeaseExclusive' /\ SuccessNotReused'
  BY <1>1 DEF PoolInv, LeaseExclusive, SuccessNotReused, TypeOK, Held
<1>9. FreeLeasesClean'
  BY <1>1, <1>2, <1>3, <1>4, <1>5, <1>6 DEF PoolInv, FreeLeasesClean, TypeOK, Leases
<1>10. FreeAddressesDistinct'
  BY <1>3, <1>4, <1>6 DEF PoolInv, FreeAddressesDistinct
<1> QED
  BY <1>7, <1>8, <1>9, <1>10 DEF Core

-----------------------------------------------------------------------------
(* The steps                                                               *)

\* The uses of a lease keep the invariant: a cooldown drops the free leases
\* of its address, a success follows the only holder's.
LEMMA UseKeepsInv ==
  ASSUME PoolInv, NEW o \in Owners, UseStep(o)
  PROVE  PoolInv'
<1>1. TypeOK /\ LeaseExclusive /\ SuccessNotReused /\ FreeLeasesClean /\ FreeAddressesDistinct
  BY DEF PoolInv
<1>2. ASSUME loc[o] \in Held
      PROVE  inUse[o] \in Leases /\ inUse[o].addr \in Addresses /\ inUse[o] # NoLease
  BY <1>1, <1>2, NoLeaseFacts DEF TypeOK
<1>3. CASE MarkSuccess(o)
  <2>1. inUse[o].addr \in Addresses /\ inUse[o] # NoLease
    BY <1>2, <1>3 DEF MarkSuccess, Goto, Held
  <2>2. PoolTypes'
    BY <1>1, <1>3, <2>1 DEF MarkSuccess, Goto, PoolTypes, TypeOK, Locations, Held
  <2>3. OtherTypes'
    BY <1>1, <1>3 DEF MarkSuccess, OtherTypes, TypeOK
  <2>4. LeaseExclusive'
    BY <1>1, <1>3 DEF MarkSuccess, Goto, LeaseExclusive, TypeOK, Held
  <2>5. SuccessNotReused'
    BY <1>1, <1>3 DEF MarkSuccess, Goto, LeaseExclusive, SuccessNotReused, TypeOK, Held
  <2>6. FreeLeasesClean'
    BY <1>1, <1>3, <2>1 DEF MarkSuccess, FreeLeasesClean, Cooling
  <2>7. FreeAddressesDistinct'
    BY <1>1, <1>3 DEF MarkSuccess, FreeAddressesDistinct
  <2> QED
    BY <2>2, <2>3, <2>4, <2>5, <2>6, <2>7 DEF PoolInv, TypeOK, PoolTypes, OtherTypes
<1>4. CASE ReadClock(o)
  <2>1. PoolTypes'
    BY <1>1, <1>4 DEF ReadClock, Goto, pool, PoolTypes, TypeOK, Locations, Held
  <2>2. OtherTypes'
    BY <1>1, <1>4, PoolAssumption DEF ReadClock, OtherTypes, TypeOK
  <2>3. LeaseExclusive' /\ SuccessNotReused'
    BY <1>1, <1>4 DEF ReadClock, Goto, pool, LeaseExclusive, SuccessNotReused, TypeOK, Held
  <2>4. FreeLeasesClean' /\ FreeAddressesDistinct'
    BY <1>1, <1>4 DEF ReadClock, pool, FreeLeasesClean, FreeAddressesDistinct, Cooling
  <2> QED
    BY <2>1, <2>2, <2>3, <2>4 DEF PoolInv, TypeOK, PoolTypes, OtherTypes
<1>5. CASE MarkCooldown(o)
  <2>1. inUse[o].addr \in Addresses
    BY <1>2, <1>5 DEF MarkCooldown, Goto, Held
  <2>2. PoolTypes'
    BY <1>1, <1>5, <2>1 DEF MarkCooldown, Goto, PoolTypes, TypeOK, Locations, Held
  <2>3. OtherTypes'
    BY <1>1, <1>5 DEF MarkCooldown, OtherTypes, TypeOK
  <2>4. LeaseExclusive' /\ SuccessNotReused'
    BY <1>1, <1>5 DEF MarkCooldown, Goto, LeaseExclusive, SuccessNotReused, TypeOK, Held
  <2>5. \A l \in leases' : /\ l \in leases /\ l.addr # inUse[o].addr
                           /\ l.addr \in Addresses /\ cooldown'[l.addr] = cooldown[l.addr]
    BY <1>1, <1>5, <2>1 DEF MarkCooldown, TypeOK, Leases
  <2>6. FreeLeasesClean'
    BY <1>1, <1>5, <2>5 DEF MarkCooldown, FreeLeasesClean, Cooling
  <2>7. FreeAddressesDistinct'
    BY <1>1, <2>5 DEF FreeAddressesDistinct
  <2> QED
    BY <2>2, <2>3, <2>4, <2>6, <2>7 DEF PoolInv, TypeOK, PoolTypes, OtherTypes
<1>6. CASE Release(o)
  <2>1. PoolTypes'
    BY <1>1, <1>6 DEF Release, PoolTypes, TypeOK, Locations, Held
  <2>2. OtherTypes'
    BY <1>1, <1>6 DEF Release, OtherTypes, TypeOK
  <2>3. LeaseExclusive' /\ SuccessNotReused'
    BY <1>1, <1>6 DEF Release, LeaseExclusive, SuccessNotReused, TypeOK, Held
  <2>4. FreeLeasesClean' /\ FreeAddressesDistinct'
    BY <1>1, <1>6 DEF Release, FreeLeasesClean, FreeAddressesDistinct, Cooling, TypeOK
  <2> QED
    BY <2>1, <2>2, <2>3, <2>4 DEF PoolInv, TypeOK, PoolTypes, OtherTypes
<1> QED
  BY <1>3, <1>4, <1>5, <1>6 DEF UseStep

\* The part of the invariant outside the pool's own variables is disturbed
\* by typed assignments only.
LEMMA AcquireKeepsInv ==
  ASSUME PoolInv, NEW o \in Owners, Acquire(o) \/ AcquireStep(o)
  PROVE  PoolInv'
<1>1. TypeOK /\ LeaseExclusive /\ SuccessNotReused /\ FreeLeasesClean /\ FreeAddressesDistinct
  BY DEF PoolInv
<1>2. ASSUME UNCHANGED <<pool, now>>, NEW from \in Locations \ Held,
             NEW to \in Locations \ Held, Goto(o, from, to)
      PROVE  Core'
  <2>1. PoolTypes'
    BY <1>1, <1>2 DEF Goto, pool, PoolTypes, TypeOK, Locations, Held
  <2>2. LeaseExclusive' /\ SuccessNotReused'
    BY <1>1, <1>2 DEF Goto, pool, LeaseExclusive, SuccessNotReused, TypeOK, Locations, Held
  <2>3. FreeLeasesClean' /\ FreeAddressesDistinct'
    BY <1>1, <1>2 DEF pool, FreeLeasesClean, FreeAddressesDistinct, Cooling
  <2> QED
    BY <2>1, <2>2, <2>3 DEF Core
<1>3. \A n \in {"idle", "firstPop", "lockFetch", "secondPop", "fetch", "add", "thirdPop"} :
        n \in Locations \ Held
  BY DEF Locations, Held
<1>4. CASE Acquire(o)
  <2>1. Core'
    BY <1>2, <1>3, <1>4 DEF Acquire
  <2>2. OtherTypes'
    BY <1>1, <1>4 DEF Acquire, OtherTypes, TypeOK
  <2> QED
    BY <2>1, <2>2, CoreAndTypes, PTL
<1>5. CASE FirstPop(o)
  <2>1. Core'
    BY <1>3, <1>5, PopKeepsCore DEF FirstPop
  <2>2. OtherTypes'
    BY <1>1, <1>5 DEF FirstPop, OtherTypes, TypeOK
  <2> QED
    BY <2>1, <2>2, CoreAndTypes, PTL
<1>6. CASE LockFetch(o)
  <2>1. Core'
    BY <1>2, <1>3, <1>6 DEF LockFetch
  <2>2. OtherTypes'
    BY <1>1, <1>6 DEF LockFetch, OtherTypes, TypeOK
  <2> QED
    BY <2>1, <2>2, CoreAndTypes, PTL
<1>7. CASE LockFetchCanceled(o)
  <2>1. Core'
    BY <1>2, <1>3, <1>7 DEF LockFetchCanceled
  <2>2. OtherTypes'
    BY <1>1, <1>7 DEF LockFetchCanceled, OtherTypes, TypeOK
  <2> QED
    BY <2>1, <2>2, CoreAndTypes, PTL
<1>8. CASE SecondPop(o)
  <2>1. Core'
    BY <1>3, <1>8, PopKeepsCore DEF SecondPop
  <2>2. OtherTypes'
    BY <1>1, <1>8 DEF SecondPop, UnlockIfDone, OtherTypes, TypeOK
  <2> QED
    BY <2>1, <2>2, CoreAndTypes, PTL
<1>9. CASE FetchReturns(o)
  <2>1. Core'
    BY <1>2, <1>3, <1>9 DEF FetchReturns
  <2>2. OtherTypes'
    BY <1>1, <1>9, PoolAssumption DEF FetchReturns, UnlockIfDone, OtherTypes, TypeOK
  <2> QED
    BY <2>1, <2>2, CoreAndTypes, PTL
<1>10. CASE AddFetched(o)
  <2>1. fetched[o] \in SUBSET [addr : Addresses, expire : Int, poolable : BOOLEAN]
    BY <1>1 DEF TypeOK
  <2>2. loc' \in [Owners -> Locations]
    BY <1>1, <1>3, <1>10 DEF AddFetched, Goto, TypeOK
  <2>3. \A p \in Owners : /\ loc'[p] \in Held <=> loc[p] \in Held
                          /\ loc'[p] \in Held => loc'[p] = loc[p]
    BY <1>1, <1>3, <1>10 DEF AddFetched, Goto, TypeOK
  <2>4. Core'
    BY <1>10, <2>1, <2>2, <2>3, MergeKeepsCore DEF AddFetched
  <2>5. OtherTypes'
    BY <1>1, <1>10 DEF AddFetched, OtherTypes, TypeOK
  <2> QED
    BY <2>4, <2>5, CoreAndTypes, PTL
<1>11. CASE ThirdPop(o)
  <2>1. Core'
    BY <1>3, <1>11, PopKeepsCore DEF ThirdPop
  <2>2. OtherTypes'
    BY <1>1, <1>11 DEF ThirdPop, UnlockIfDone, OtherTypes, TypeOK
  <2> QED
    BY <2>1, <2>2, CoreAndTypes, PTL
<1> QED
  BY <1>4, <1>5, <1>6, <1>7, <1>8, <1>9, <1>10, <1>11 DEF AcquireStep

\* Time passing can only end a cooldown; an Add is a merge by nobody.
LEMMA EnvironmentKeepsInv ==
  ASSUME PoolInv, (\E raw \in Fetches : Add(raw)) \/ Tick \/ Cancel
  PROVE  PoolInv'
<1>1. TypeOK /\ LeaseExclusive /\ SuccessNotReused /\ FreeLeasesClean /\ FreeAddressesDistinct
  BY DEF PoolInv
<1>2. ASSUME NEW raw \in Fetches, Add(raw)
      PROVE  PoolInv'
  <2>1. raw \in SUBSET [addr : Addresses, expire : Int, poolable : BOOLEAN]
    BY PoolAssumption
  <2>2. loc' = loc /\ loc \in [Owners -> Locations]
    BY <1>1, <1>2 DEF Add, TypeOK
  <2>3. Core'
    BY <1>2, <2>1, <2>2, MergeKeepsCore DEF Add
  <2>4. OtherTypes'
    BY <1>1, <1>2 DEF Add, OtherTypes, TypeOK
  <2> QED
    BY <2>3, <2>4, CoreAndTypes, PTL
<1>3. CASE Tick
  <2>1. PoolTypes' /\ OtherTypes'
    BY <1>1, <1>3 DEF Tick, pool, PoolTypes, OtherTypes, TypeOK
  <2>2. LeaseExclusive' /\ SuccessNotReused' /\ FreeAddressesDistinct'
    BY <1>1, <1>3 DEF Tick, pool, LeaseExclusive, SuccessNotReused, FreeAddressesDistinct
  <2>3. FreeLeasesClean'
    <3>1. \A a \in Addresses : Cooling(a)' => Cooling(a)
      BY <1>1, <1>3 DEF Tick, pool, Cooling, TypeOK
    <3> QED
      BY <1>1, <1>3, <3>1 DEF Tick, pool, FreeLeasesClean, TypeOK, Leases
  <2> QED
    BY <2>1, <2>2, <2>3 DEF PoolInv, TypeOK, PoolTypes, OtherTypes
<1>4. CASE Cancel
  <2>1. PoolTypes' /\ OtherTypes'
    BY <1>1, <1>4 DEF Cancel, pool, PoolTypes, OtherTypes, TypeOK
  <2>2. LeaseExclusive' /\ SuccessNotReused' /\ FreeAddressesDistinct' /\ FreeLeasesClean'
    BY <1>1, <1>4 DEF Cancel, pool, LeaseExclusive, SuccessNotReused, FreeAddressesDistinct,
                      FreeLeasesClean, Cooling
  <2> QED
    BY <2>1, <2>2 DEF PoolInv, TypeOK, PoolTypes, OtherTypes
<1> QED
  BY <1>2, <1>3, <1>4

LEMMA StutterKeepsInv ==
  ASSUME PoolInv, UNCHANGED vars
  PROVE  PoolInv'
BY DEF PoolInv, vars, pool, TypeOK, LeaseExclusive, SuccessNotReused, FreeLeasesClean,
       FreeAddressesDistinct, Cooling

\* PoolInv holds in every state of every behaviour.
THEOREM PoolInvariant == Spec => []PoolInv
<1>1. PoolInv /\ [Next]_vars => PoolInv'
  <2> SUFFICES ASSUME PoolInv, [Next]_vars PROVE PoolInv'
    OBVIOUS
  <2>1. CASE Next
    <3>1. ASSUME NEW o \in Owners, Acquire(o) \/ AcquireStep(o) PROVE PoolInv'
      BY <3>1, AcquireKeepsInv
    <3>2. ASSUME NEW o \in Owners, UseStep(o) PROVE PoolInv'
      BY <3>2, UseKeepsInv
    <3>3. CASE (\E raw \in Fetches : Add(raw)) \/ Tick \/ Cancel
      BY <3>3, EnvironmentKeepsInv
    <3> QED
      BY <2>1, <3>1, <3>2, <3>3 DEF Next
  <2>2. CASE UNCHANGED vars
    BY <2>2, StutterKeepsInv
  <2> QED
    BY <2>1, <2>2
<1> QED
  BY <1>1, InitPoolInv, PTL DEF Spec

\* Every variable of pool.go's Pool keeps its type, and inUse names an owner
\* exactly from its pop to its Release.
THEOREM PoolTypeCorrect == Spec => []TypeOK
<1>1. PoolInv => TypeOK
  BY DEF PoolInv
<1> QED
  BY <1>1, PoolInvariant, PTL

\* Acquire never gives two owners leases of one address at the same time.
THEOREM LeaseExclusivity == Spec => []LeaseExclusive
<1>1. PoolInv => LeaseExclusive
  BY DEF PoolInv
<1> QED
  BY <1>1, PoolInvariant, PTL

\* An address that MarkSuccess has seen is never acquired again.
THEOREM SuccessesNotReused == Spec => []SuccessNotReused
<1>1. PoolInv => SuccessNotReused
  BY DEF PoolInv
<1> QED
  BY <1>1, PoolInvariant, PTL

\* What popAvailableLocked may hand out is nobody's, has not succeeded, is
\* not cooling down, and is the only free lease of its address.
THEOREM FreeLeasesAreClean == Spec => [](FreeLeasesClean /\ FreeAddressesDistinct)
<1>1. PoolInv => FreeLeasesClean /\ FreeAddressesDistinct
  BY DEF PoolInv
<1> QED
  BY <1>1, PoolInvariant, PTL

-----------------------------------------------------------------------------
(* fetchMu                                                                 *)

\* The deferred Unlock of Acquire is reached from every return: fetchMu is
\* held exactly between an owner's second and third pop, so at most one
\* owner asks the proxy service.
THEOREM FetchExclusivity == Spec => []FetchSingleFlight
<1>1. Init => FetchSingleFlight
  BY PoolAssumption DEF Init, FetchSingleFlight, Fetching
<1>2. TypeOK /\ FetchSingleFlight /\ [Next]_vars => FetchSingleFlight'
  <2> SUFFICES ASSUME TypeOK, FetchSingleFlight, [Next]_vars
               PROVE  FetchSingleFlight'
    OBVIOUS
  <2>1. ASSUME NEW o \in Owners, loc[o] \notin Fetching,
               NEW to \in Locations \ Fetching,
               loc' = [loc EXCEPT ![o] = to], fetchMu' = fetchMu
        PROVE  FetchSingleFlight'
    BY <2>1 DEF FetchSingleFlight, TypeOK
  <2>2. ASSUME NEW o \in Owners, loc[o] \in Fetching,
               NEW to \in Locations,
               loc' = [loc EXCEPT ![o] = to],
               fetchMu' = IF to \in Fetching THEN fetchMu ELSE NoAddress
        PROVE  FetchSingleFlight'
    BY <2>2, PoolAssumption DEF FetchSingleFlight, TypeOK
  <2>3. ASSUME NEW o \in Owners, Acquire(o) \/ LockFetchCanceled(o) PROVE FetchSingleFlight'
    BY <2>1, <2>3 DEF Acquire, LockFetchCanceled, Goto, Fetching, Locations
  <2>4. ASSUME NEW o \in Owners, FirstPop(o) PROVE FetchSingleFlight'
    <3>1. PICK to \in {"holding", "lockFetch"} : loc' = [loc EXCEPT ![o] = to]
      BY <2>4 DEF FirstPop, Pop
    <3> QED
      BY <2>1, <2>4, <3>1 DEF FirstPop, Fetching, Locations
  <2>5. ASSUME NEW o \in Owners, LockFetch(o) PROVE FetchSingleFlight'
    BY <2>5, PoolAssumption DEF LockFetch, Goto, FetchSingleFlight, Fetching, TypeOK
  <2>6. ASSUME NEW o \in Owners, SecondPop(o) PROVE FetchSingleFlight'
    <3>1. PICK to \in {"holding", "fetch"} : loc' = [loc EXCEPT ![o] = to]
      BY <2>6 DEF SecondPop, Pop
    <3>2. loc'[o] = to
      BY <3>1 DEF TypeOK
    <3> QED
      BY <2>2, <2>6, <3>1, <3>2 DEF SecondPop, UnlockIfDone, Fetching, Locations
  <2>7. ASSUME NEW o \in Owners, FetchReturns(o) PROVE FetchSingleFlight'
    <3>1. PICK to \in {"idle", "add"} : loc' = [loc EXCEPT ![o] = to]
      BY <2>7 DEF FetchReturns, Goto
    <3>2. loc'[o] = to /\ loc[o] = "fetch"
      BY <2>7, <3>1 DEF FetchReturns, Goto, TypeOK
    <3> QED
      BY <2>2, <2>7, <3>1, <3>2 DEF FetchReturns, UnlockIfDone, Fetching, Locations
  <2>8. ASSUME NEW o \in Owners, AddFetched(o) PROVE FetchSingleFlight'
    BY <2>2, <2>8 DEF AddFetched, Goto, Fetching, Locations
  <2>9. ASSUME NEW o \in Owners, ThirdPop(o) PROVE FetchSingleFlight'
    <3>1. PICK to \in {"holding", "idle"} : loc' = [loc EXCEPT ![o] = to]
      BY <2>9 DEF ThirdPop, Pop
    <3>2. loc'[o] = to
      BY <3>1 DEF TypeOK
    <3> QED
      BY <2>2, <2>9, <3>1, <3>2 DEF ThirdPop, UnlockIfDone, Fetching, Locations
  <2>10. ASSUME NEW o \in Owners, UseStep(o) PROVE FetchSingleFlight'
    BY <2>1, <2>10 DEF UseStep, MarkSuccess, ReadClock, MarkCooldown, Release, Goto,
                       Fetching, Locations
  <2>11. CASE UNCHANGED <<loc, fetchMu>>
    BY <2>11 DEF FetchSingleFlight
  <2> QED
    BY <2>3, <2>4, <2>5, <2>6, <2>7, <2>8, <2>9, <2>10, <2>11
       DEF Next, AcquireStep, Add, Tick, Cancel, vars
<1> QED
  BY <1>1, <1>2, PoolTypeCorrect, PTL DEF Spec

=============================================================================
