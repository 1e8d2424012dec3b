------------------------------ MODULE MCCatalog ------------------------------
(***************************************************************************)
(* Instances of Catalog for TLC.                                          *)
(***************************************************************************)
EXTENDS Catalog, TLC

CONSTANTS a, b, c1

AllFaults == (Labels \ {"idle", "undoDirs"}) \cup {"crash"}

\* Two catalogs that share one component.
SharedComponentOf == a :> c1 @@ b :> c1

OneImageIn == [c \in Components |-> <<main>>]
NoImageIn == [c \in Components |-> <<>>]

CatalogInstancesMax == [i \in Images |-> 1]
=============================================================================
