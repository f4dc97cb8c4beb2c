------------------------------ MODULE MCMpsc ------------------------------
EXTENDS Mpsc

CONSTANTS f1, t1

MCForwarders == {f1}
MCTees == {t1}

=============================================================================
