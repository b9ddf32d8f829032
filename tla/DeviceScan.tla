----------------------------- MODULE DeviceScan -----------------------------
(***************************************************************************)
(* What the scan for devices promises to clients: the service appears      *)
(* once, and from then on every disk and the partitions of every disk are  *)
(* known.  A client that asks for a device never gets "no such device"     *)
(* merely for having come too early.                                       *)
(***************************************************************************)
EXTENDS FiniteSets

CONSTANT Disks

VARIABLES
  disks,     \* the disks that have been found
  explored,  \* those whose partition tables have been read
  served     \* the service is open for clients

vars == <<disks, explored, served>>

TypeOK ==
  /\ disks \subseteq Disks
  /\ explored \subseteq disks
  /\ served \in BOOLEAN

Init == disks = {} /\ explored = {} /\ served = FALSE

\* Mutant: the end is announced whenever nothing happens to be under way.
MutantExplore ==
  /\ disks' \in SUBSET Disks /\ disks \subseteq disks'
  /\ explored' \in SUBSET disks' /\ explored \subseteq explored'
  /\ served' \in {served, served \/ explored' = disks'}

\* The scan goes on; it may find disks, read partition tables, and end with it.
Explore ==
  /\ ~served
  /\ disks' \in SUBSET Disks /\ disks \subseteq disks'
  /\ explored' \in SUBSET disks' /\ explored \subseteq explored'
  /\ served' \in {FALSE, explored' = disks'}

Spec == Init /\ [][Explore]_vars

=============================================================================
