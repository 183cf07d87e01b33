---------------------------- MODULE MCCatalogSync ----------------------------
(* Instances of CatalogSync for TLC.                                         *)
EXTENDS CatalogSync
=============================================================================
