----------------------------- MODULE MCUpstream -----------------------------
(* A fetch that may be redirected, tried again, or never answered, two of  *)
(* its domain that the guard refuses and that come before it or wait for   *)
(* it, and one of another domain, for TLC.                                 *)
EXTENDS Upstream

CONSTANTS c1, c2, c3, c4, site, other, page, mirror, private

MCCallers  == {c1, c2, c3, c4}
MCDomains  == {site, other}
MCDomainOf == [c \in MCCallers |-> IF c = c4 THEN other ELSE site]
MCUrls     == {page, mirror, private}
MCAllowed  == {page, mirror}
MCUrlOf    == [c \in MCCallers |-> IF c = c1 THEN page ELSE private]
=============================================================================
