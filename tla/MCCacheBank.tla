----------------------------- MODULE MCCacheBank -----------------------------
(* Four messages over two sets: two same-set pairs, so that a set wakeup    *)
(* moves some waiters and leaves others.                                    *)
EXTENDS CacheBank, TLC

CONSTANTS m1, m2, m3, m4, s1, s2

MCSetOf == m1 :> s1 @@ m2 :> s1 @@ m3 :> s2 @@ m4 :> s2

=============================================================================
