--------------------------- MODULE MCKeyCacheLive ---------------------------
EXTENDS KeyCache
CONSTANTS g1, g2, n1

MCGoroutines == {g1, g2}
MCNames == {n1}
MCAddresses == 1 .. 3

C(expiry, unused, offlineExpiry) ==
    [Expiry |-> expiry, ExpiryUnused |-> unused, ExpiryOffline |-> offlineExpiry]
Calm == [outages |-> 0, closes |-> FALSE, callers |-> MCGoroutines]
Outages == [Calm EXCEPT !.outages = 1]
Closes == [Calm EXCEPT !.closes = TRUE, !.callers = {g1}]

(* An outage with and without offline caching; two callers and a sweep;    *)
(* closing the cache while all four collectors run.                        *)
MCScenarios == {<<C(TRUE, FALSE, TRUE), Outages>>,
                <<C(TRUE, FALSE, FALSE), Outages>>,
                <<C(TRUE, TRUE, FALSE), Calm>>,
                <<C(TRUE, TRUE, TRUE), Closes>>}
=============================================================================
