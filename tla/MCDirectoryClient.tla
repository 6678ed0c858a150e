------------------------- MODULE MCDirectoryClient -------------------------
\* An instance of DirectoryClient for TLC.
EXTENDS DirectoryClient

MCAttempts == 1..2

Case(enforce, n, overlap, maxC, maxD) ==
  [enforceAuth |-> enforce, attempts |-> n, overlap |-> overlap, maxCloses |-> maxC, maxDetours |-> maxD]

\* Two connections one after the other, with something that goes wrong or a close(); and
\* one connection with both.
MCCases == {Case(FALSE, 2, FALSE, 0, 1), Case(TRUE, 2, FALSE, 0, 1), Case(FALSE, 2, FALSE, 1, 0),
            Case(FALSE, 1, FALSE, 1, 2), Case(TRUE, 1, FALSE, 1, 2)}

\* Two connections that overlap.
MCOverlap == {Case(FALSE, 2, TRUE, 0, 0)}
=============================================================================
