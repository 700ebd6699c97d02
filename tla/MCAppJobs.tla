----------------------------- MODULE MCAppJobs ------------------------------
EXTENDS AppJobs, TLC

CONSTANTS a, b

\* ruTorrent (b) needs rTorrent (a).
Needs == (a :> {}) @@ (b :> {a})
=============================================================================
