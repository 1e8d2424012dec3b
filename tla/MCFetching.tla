----------------------------- MODULE MCFetching -----------------------------
(***************************************************************************)
(* Instance of Fetching for TLC: three transfers of one source, of which  *)
(* one requires verification, listed in any order; build 2 is an unsigned *)
(* rebuild of build 1's version, build 3 a signed new version.            *)
(***************************************************************************)
EXTENDS Fetching

CONSTANTS s1, plain, packed, checked

FetchingOrders == {<<plain, checked, packed>>, <<checked, packed, plain>>}
FetchingSource == [t \in Transfers |-> s1]
FetchingVersion == <<1, 1, 2>>
FetchingMin == [t \in Transfers |-> IF t = packed THEN 2 ELSE 0]
=============================================================================
