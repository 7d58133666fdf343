-------------------------- MODULE MCSubscriptions --------------------------
EXTENDS Subscriptions, TLC

Requests == Permutations(Request)
=============================================================================
