--------------------------- MODULE MCZoneVersions ---------------------------
(* One node, a writer and two readers.                                      *)
EXTENDS ZoneVersions, TLC

CONSTANTS n1, t1, t2, t3

MCNodes == {n1}
MCReaders == {t2, t3}
MCWriters == {t1}

\* The two readers do the same things.
ReaderSymmetry == Permutations({t2, t3})
=============================================================================
