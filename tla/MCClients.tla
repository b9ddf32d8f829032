------------------------------ MODULE MCClients ------------------------------
(* Instances of Clients for TLC.                                           *)
EXTENDS Clients

\* One disk, which may have a partition.

MCParts   == {1}
MCDevices == Disks \X ({0} \union MCParts)

=============================================================================
