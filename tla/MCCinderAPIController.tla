----------------------- MODULE MCCinderAPIController -----------------------
(* Model-checking instance of CinderAPIController: two contents of the    *)
(* OpenStack secret, two custom configs, bounded users and failures.       *)
EXTENDS CinderAPIController

CONSTANTS s1, s2, c1, c2

MCSecretVals == {s1, s2}
MCCfgVals == {c1, c2}

=============================================================================
