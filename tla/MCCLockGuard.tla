---------------------------- MODULE MCCLockGuard ----------------------------
(* CLockGuard for TLC: the groups of objects that users lock together.     *)
EXTENDS CLockGuard

CONSTANTS a, b

\* One object; two objects; the other order, with an empty slot between.
MCRequests == {<<a>>, <<a, b>>, <<b, Null, a>>}
=============================================================================
