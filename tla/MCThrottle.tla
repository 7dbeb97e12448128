----------------------------- MODULE MCThrottle -----------------------------
\* Instances of Throttle: two callers, a small clock.
EXTENDS Throttle
=============================================================================
