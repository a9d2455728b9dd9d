----------------------------- MODULE MCKeyCache -----------------------------
EXTENDS KeyCacheHistory
CONSTANTS g1, g2, n1

MCGoroutines == {g1, g2}
MCNames == {n1}
MCAddresses == 1 .. 3

C(expiry, unused, offlineExpiry) ==
    [Expiry |-> expiry, ExpiryUnused |-> unused, ExpiryOffline |-> offlineExpiry]
Calm == [outages |-> 0, closes |-> FALSE, callers |-> MCGoroutines]

(* Safety: two callers with a sweep, and with an outage and offline        *)
(* caching; one caller, everything else at once.                           *)
MCScenarios == {<<C(TRUE, TRUE, FALSE), Calm>>,
                <<C(TRUE, FALSE, TRUE), [Calm EXCEPT !.outages = 1]>>,
                <<C(TRUE, TRUE, TRUE), [outages |-> 1, closes |-> TRUE, callers |-> {g1}]>>}
(* The smallest setting for the race of Get and Delete.                    *)
StaleScenarios == {<<C(TRUE, TRUE, FALSE), Calm>>}
=============================================================================
