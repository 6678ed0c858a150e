--------------------------- MODULE MCSocketCache ---------------------------
(* One process lists a loopback address, two others and a relative URI, of *)
(* which services sa and sb list some; another one is that of service sc.  *)
EXTENDS SocketCache, TLC

CONSTANTS sa, sb, sc

MCEndpoints == (sa :> {2, 3}) @@ (sb :> {1, 2, 5}) @@ (sc :> {4})
MCRelUri == (sa :> 6) @@ (sb :> 7) @@ (sc :> 8)
MCSdUris == <<3, 5>>
MCCases ==
  {<<FALSE, <<sa, sa>>, FALSE, 0, 1>>, <<FALSE, <<sb, sb>>, TRUE, 0, 0>>,
   <<TRUE, <<sa, sb>>, FALSE, 0, 0>>, <<TRUE, <<sa, sc>>, FALSE, 1, 0>>,
   <<FALSE, <<sc, sc>>, FALSE, 1, 2>>}

=============================================================================
