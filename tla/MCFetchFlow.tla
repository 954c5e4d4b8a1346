---------------------------- MODULE MCFetchFlow ----------------------------
(* Small instances of FetchFlow for TLC.                                   *)
EXTENDS FetchFlow, TLC

CONSTANTS api, worker, redis, c1, c2, c3, c4, c5, u1

Plain == [url |-> u1, mode |-> "auto", save |-> "null", force |-> FALSE, caches |-> TRUE,
          fallback |-> FALSE, selector |-> FALSE, valid |-> TRUE]

AllInApi == [c \in Callers |-> api]
InBoth   == [c \in Callers |-> IF c = c4 THEN worker ELSE api]

SharedRedis == [p \in Processes |-> redis]
OwnMemory   == [p \in Processes |-> p]

(* Three callers of one key, one with a selector and one in another        *)
(* process that forces a refresh; a browser call that may fall back and    *)
(* keeps no artifact; a call with a forbidden header.                      *)
MixedReq == (c1 :> Plain)
         @@ (c2 :> [Plain EXCEPT !.selector = TRUE])
         @@ (c3 :> [Plain EXCEPT !.mode = "browser", !.fallback = TRUE, !.save = "false"])
         @@ (c4 :> [Plain EXCEPT !.force = TRUE])
         @@ (c5 :> [Plain EXCEPT !.valid = FALSE])

(* A browser call that may fall back, and one that may not.                *)
FallbackReq == (c1 :> [Plain EXCEPT !.mode = "browser", !.fallback = TRUE])
            @@ (c2 :> [Plain EXCEPT !.mode = "browser"])
=============================================================================
