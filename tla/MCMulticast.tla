---------------------------- MODULE MCMulticast ----------------------------
EXTENDS Multicast
CONSTANTS s1, s2, s3, l1
MCSubscribers == {s1, s2, s3}
MCLoggers == {l1}
=============================================================================
