--------------------------- MODULE MCEventIndexer ---------------------------
(* The event indexer for TLC, in one or several environments of its chain,  *)
(* its RPC nodes and its store; environment is which of them a behaviour is *)
(* of, and "own" the one the module's own constants describe.  The logs are *)
(* interchangeable.                                                          *)
EXTENDS EventIndexer, TLC

CONSTANT Environments

VARIABLE environment

allVars == <<vars, environment>>

(* The head reported truthfully, reorganisations between rounds only, and  *)
(* no deeper than the lookback window can make up for (Lookback + 2).      *)
Steady == INSTANCE EventIndexer WITH
  MaxHeight <- 4, MaxFork <- 1, MaxReorgDepth <- 3, FromBlock <- 1, Lookback <- 1,
  ScanWindow <- 2, MinHashWindow <- 1, MaxSplitDepth <- 1, AtomicStore <- TRUE,
  MaxLag <- 0, MissDepth <- 0, MidRoundReorg <- FALSE, MaxFaults <- 1

(* The same with no lookback and the shortest hash window that covers the  *)
(* reorganisations: pruning stops exactly where it must.                   *)
Pruned == INSTANCE EventIndexer WITH
  MaxHeight <- 5, MaxFork <- 1, MaxReorgDepth <- 2, FromBlock <- 1, Lookback <- 0,
  ScanWindow <- 2, MinHashWindow <- 1, MaxSplitDepth <- 1, AtomicStore <- TRUE,
  MaxLag <- 0, MissDepth <- 0, MidRoundReorg <- FALSE, MaxFaults <- 1

(* The JSON adapter may crash between its two files; the chain never       *)
(* reorganises.                                                            *)
Json == INSTANCE EventIndexer WITH
  MaxHeight <- 4, MaxFork <- 0, MaxReorgDepth <- 3, FromBlock <- 1, Lookback <- 1,
  ScanWindow <- 2, MinHashWindow <- 1, MaxSplitDepth <- 1, AtomicStore <- FALSE,
  MaxLag <- 0, MissDepth <- 0, MidRoundReorg <- FALSE, MaxFaults <- 1

Of(name) == environment = name /\ UNCHANGED environment

InitAll ==
  /\ environment \in Environments
  /\ \/ environment = "own" /\ Init
     \/ environment = "steady" /\ Steady!Init
     \/ environment = "pruned" /\ Pruned!Init
     \/ environment = "json" /\ Json!Init

NextAll ==
  \/ Of("own") /\ Next
  \/ Of("steady") /\ Steady!Next
  \/ Of("pruned") /\ Pruned!Next
  \/ Of("json") /\ Json!Next

SpecAll == InitAll /\ [][NextAll]_allVars

FairSpecAll == SpecAll /\ WF_allVars(Of("own") /\ RoundStep) /\ WF_allVars(Of("own") /\ Restart)

LogSymmetry == Permutations(LogId)

-----------------------------------------------------------------------------
(* Where getLogs misses nothing, a round that worked through its chunks    *)
(* leaves exactly the canonical logs up to its head, also with the         *)
(* shortest hash window and after a crash between the JSON adapter's files *)
(* (Pruned's RoundConverges is that of every environment whose MissDepth   *)
(* is 0).                                                                  *)
RoundsExact == environment # "own" => Pruned!RoundConverges
=============================================================================
