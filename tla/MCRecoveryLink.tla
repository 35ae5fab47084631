---------------------------- MODULE MCRecoveryLink ----------------------------
EXTENDS RecoveryLink

CONSTANTS s1, s2
=============================================================================
