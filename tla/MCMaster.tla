------------------------------- MODULE MCMaster -------------------------------
(***************************************************************************)
(* Instances of Master for TLC: one record the zone needs (its SOA) and    *)
(* one it does not, each absent, good or undecodable.                      *)
(***************************************************************************)
EXTENDS Master

CONSTANTS soa, host, good

MCRec == {soa, host}

(* SanityChecks: a zone needs its SOA record.                              *)
MCSaneZones == {z \in Zone : z[soa] # NoRecord}
=============================================================================
