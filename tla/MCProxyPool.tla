---------------------------- MODULE MCProxyPool -----------------------------
(* The pool with fetches that repeat an address, expire, and carry a lease *)
(* that is not poolable.                                                   *)
EXTENDS ProxyPool

CONSTANTS a1, a2

Raw(a, e, p) == [addr |-> a, expire |-> e, poolable |-> p]

MCFetches == {{}, {Raw(a1, 0, TRUE)},
              {Raw(a1, 3, TRUE), Raw(a1, 0, TRUE), Raw(a2, 2, FALSE)},
              {Raw(a1, 2, TRUE), Raw(a2, 0, TRUE)}}

=============================================================================
