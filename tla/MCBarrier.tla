----------------------------- MODULE MCBarrier -----------------------------
EXTENDS Barrier
CONSTANTS g1, g2, g3, k1, k2, b1, b2, b3
MCGoroutines == {g1, g2, g3}
MCKeys == {k1, k2}
MCBarriers == {b1, b2, b3}
=============================================================================
