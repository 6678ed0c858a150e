-------------------------- MODULE MCSessionService --------------------------
(* Two services of one process: two calls for one of them, or one for each.*)
EXTENDS SessionService, TLC

CONSTANTS sa, sb, link, c1, c2

MCSocketOf == (sa :> link) @@ (sb :> link)
MCCases == {(c1 :> sa) @@ (c2 :> sa), (c1 :> sa) @@ (c2 :> sb)}

=============================================================================
