--------------------------- MODULE MCLevelSensors ---------------------------
EXTENDS LevelSensors

Setup(first, second, used, trigger, tides, requests, orders) ==
    [wiring |-> <<first, second>>, used |-> used, options |-> [trigger |-> trigger, guard |-> "block"],
     left |-> [tides |-> tides, requests |-> requests, orders |-> orders,
              misses |-> IF orders = 1 /\ tides > 1 THEN 1 ELSE 0]]

\* The wizard on every wiring, with one sensor; two sensors and a process; switching and
\* settings with two sensors; processes with one sensor, and with restarts and settings.
MCSetups ==
    {Setup(w, "npn", {1}, "notify", 2, 3, 0) : w \in {"npn", "pnp", "input", "stuck_low"}}
        \cup {Setup(w, "npn", {1}, "notify", 1, 2, 0) : w \in {"npn_open", "pnp_open", "stuck_high"}}
        \cup {Setup("npn", "npn", {1, 2}, t, 3, 0, 1) : t \in {"pause", "abort"}}
        \cup {Setup("npn", "npn", {1, 2}, "notify", 2, 2, 0)}
        \cup {Setup("npn", "npn", {1}, "pause", 0, 1, 3)}

MCFilled == {Setup("npn", "npn", {1}, "pause", 1, 0, 1)}
=============================================================================
