------------------------------ MODULE MCBcache ------------------------------
(* Bounded instances of Bcache: a cache smaller than the disk.             *)
EXTENDS Bcache
=============================================================================
