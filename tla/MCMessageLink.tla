---------------------------- MODULE MCMessageLink -----------------------------
EXTENDS MessageLink

CONSTANTS s1, s2, m1, m2
=============================================================================
