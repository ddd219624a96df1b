------------------------------- MODULE MCQuota -------------------------------
\* Instances of Quota for TLC.
EXTENDS Quota, TLC

CONSTANTS s1, c1, c2, a1, a2

Conf(l, st, ex, d) == [limit |-> l, startsAt |-> st, expiresAt |-> ex,
                       direction |-> d]
Tight == Conf(1, 0, 0, "total")
Closing == Conf(1, 0, 1, "total")
Windowed == Conf(2, 0, 1, "total")
Endless == Conf(2, 0, 0, "in")
OnlyEndless == {Endless}
OnlyTight == {Tight}
=============================================================================
