---------------------------- MODULE MCTransfers ----------------------------
(* Instances of Transfers for TLC.                                         *)
EXTENDS Transfers

\* Sectors smaller than a page, as large and larger, and no MDTS or one that
\* binds before, or after, the other limits do.
MCControllers ==
  [sgl : BOOLEAN, mdts : {0, 1, 2, 3, 5}, lba_sz : {1, 2, 4, 8}]

=============================================================================
