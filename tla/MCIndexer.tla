------------------------------- MODULE MCIndexer -------------------------------
(***************************************************************************)
(* A small instance of Indexer: the node's own electrs, an indexer on the  *)
(* LAN for another chain, and one on a port nobody scans.                  *)
(***************************************************************************)
EXTENDS Indexer

MCChainOf == [n \in Nodes |-> IF n = "lan" THEN "signet" ELSE "main"]

MCPins == {None, [host |-> "own", scheme |-> "bare"]}

Saves(n, s, m) == [url |-> [host |-> n, scheme |-> s], manual |-> m]

MCFiles ==
    [network : {"main"},
     indexer : {None, Saves("electrs", "tcp", FALSE), Saves("lan", "tcp", FALSE),
                Saves("own", "bare", TRUE), Saves("own", "ssl", FALSE)}]
=============================================================================
