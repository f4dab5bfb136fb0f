----------------------------- MODULE MCProfiles -----------------------------
EXTENDS Profiles

\* The orders are the ones of the standard operators.
ASSUME \A S \in SUBSET (0..3) : Ascending(S) = SetToSortSeq(S, <)

Setup(tails, version, ids, requests, puts, panel, misses, crashes, faults) ==
    [tails |-> tails, version |-> version, ids |-> ids,
     left |-> [requests |-> requests, puts |-> puts, panel |-> panel, misses |-> misses,
               crashes |-> crashes, faults |-> faults]]

\* The store: with a failing write and a crash, and with two crashes; a first start; the
\* settings: with requests of users and profiles, on both kinds of firmware, and with a
\* version that cannot be read.
MCSetups ==
    {Setup(FALSE, <<1, 7>>, {0, 1}, 2, 0, 0, 0, 1, 1), Setup(FALSE, <<1, 7>>, {1}, 2, 0, 0, 0, 2, 0),
     Setup(FALSE, <<1>>, {}, 1, 0, 0, 0, 1, 1), Setup(FALSE, <<1, 10>>, {0}, 1, 1, 0, 1, 0, 0),
     Setup(TRUE, <<1, 9>>, {0}, 0, 2, 0, 1, 0, 0), Setup(TRUE, <<1, 9>>, {0}, 1, 0, 1, 0, 0, 0),
     Setup(TRUE, <<1, 9>>, {0}, 0, 1, 1, 0, 0, 0)}

MCApply == {Setup(FALSE, <<1, 7>>, {0}, 1, 0, 1, 0, 0, 0)}

MCSpeeds == {Setup(FALSE, <<1, 10>>, {0}, 0, 1, 0, 0, 0, 0)}

MCFields == {"hyst", "late_heads", "release_speed", "decrement", "formula", "predec", "sound"}

\* In range and beyond it, a wrong choice, a percentage that does not fit a byte.
MCInputs ==
    [hyst |-> {<<25>>, <<6000>>}, late_heads |-> {<<1200, 60>>}, decrement |-> {<<300>>},
     formula |-> {<<2>>}, predec |-> {<<7>>, <<5>>}, sound |-> {<<0>>, <<1>>}, s_temp |-> {<<780>>}]

MCBodies ==
    {[hyst |-> <<20>>, predec |-> <<13>>, late_heads |-> <<15, -1>>, release_speed |-> <<30>>, formula |-> <<3>>]}
=============================================================================
