-------------------------- MODULE MCCachedPackages --------------------------
(* An instance of CachedPackages: two processes, two applications. *)
EXTENDS CachedPackages
==========================================================================
