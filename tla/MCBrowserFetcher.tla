-------------------------- MODULE MCBrowserFetcher --------------------------
(* Three fetches that share two permits and a readiness check, for TLC.    *)
EXTENDS BrowserFetcher, TLC

CONSTANTS f1, f2, f3, r1

MCCalls  == {f1, f2, f3, r1}
MCChecks == {r1}
=============================================================================
