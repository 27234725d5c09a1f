---------------------------- MODULE EventIndexer ----------------------------
(***************************************************************************)
(* One source of the on-chain event indexer                                *)
(* (aastar/src/indexer/indexer.service.ts, pollSource): a poll round reads *)
(* the head, checks the recorded block hashes for a reorganisation, scans  *)
(* the lookback window and everything above it chunk by chunk, and commits *)
(* each chunk with its cursor.                                             *)
(*                                                                         *)
(* Every await of the code is a step boundary: the chain may grow or       *)
(* reorganise, the process may crash or be asked to stop between any two   *)
(* of them.  The poll loop that drives several sources is PollLoop.        *)
(***************************************************************************)
EXTENDS Integers, Sequences, FiniteSets, Functions

-----------------------------------------------------------------------------
(***************************************************************************)
(* The chain the indexer reads over JSON-RPC.  It is not code of this      *)
(* repository: it is modelled from what indexer.service.ts asks of it      *)
(* (getBlockNumber, getBlock, getLogs) and from the events the comments of *)
(* that file say it must survive, reorganisations above all.               *)
(*                                                                         *)
(* Only what the indexer can tell apart is kept.  A block is the fork that *)
(* produced it and the set of logs of the indexed contract it holds.       *)
(* Block hashes are only ever compared at one height, so a hash is the     *)
(* fork number: two blocks of one height have one hash iff they come from  *)
(* one fork, and every reorganisation starts a fork of its own.  A chain   *)
(* never returns to a fork it has left.                                    *)
(***************************************************************************)
CONSTANTS
  LogId,         \* the logs (txHash:logIndex) the contract may ever emit
  MaxHeight,     \* bound: blocks mined
  MaxFork,       \* bound: reorganisations
  MaxReorgDepth  \* the deepest reorganisation, in blocks counted from the head

ASSUME ChainAssumption ==
  /\ MaxHeight \in Nat
  /\ MaxFork \in Nat
  /\ MaxReorgDepth \in Nat

VARIABLES
  chain,         \* chain[h] is the canonical block of height h (genesis, 0, is implicit)
  fork           \* the number of the current fork

chainVars == <<chain, fork>>

Block == [fork : Nat, logs : SUBSET LogId]

Height == Len(chain)

HashAt(h) == IF h = 0 THEN 0 ELSE chain[h].fork

LogsBetween(a, b) ==
  UNION { { [id |-> l, block |-> h, hash |-> chain[h].fork] : l \in chain[h].logs }
          : h \in (a..b) \cap (1..Height) }

LogsUpTo(h) == LogsBetween(1, h)

OnChain == { l.id : l \in LogsUpTo(Height) }

ChainInit == chain = <<>> /\ fork = 0

(* A block on top: any of the logs that are not on the chain yet. *)
Mine ==
  /\ Height < MaxHeight
  /\ \E new \in SUBSET (LogId \ OnChain) :
       chain' = Append(chain, [fork |-> fork, logs |-> new])
  /\ UNCHANGED fork

(* The blocks from height h on are replaced by as many of a new fork; a log *)
(* of the dropped blocks may come back at another height or never.  A new   *)
(* fork that is shorter than the old one is the same as an RPC node that    *)
(* reports a lower head (MaxLag in EventIndexer).                           *)
Reorg ==
  /\ fork < MaxFork
  /\ \E h \in 1..Height :
       /\ h > Height - MaxReorgDepth
       /\ LET kept == { l.id : l \in LogsUpTo(h - 1) }
          IN \E place \in [LogId \ kept -> (h..Height) \cup {0}] :
               chain' = [i \in 1..Height |->
                           IF i < h THEN chain[i]
                           ELSE [fork |-> fork + 1,
                                 logs |-> { l \in LogId \ kept : place[l] = i }]]
  /\ fork' = fork + 1

ChainTypeOK == chain \in Seq(Block) /\ fork \in Nat

-----------------------------------------------------------------------------
(* The source and the service that polls it.                               *)
CONSTANTS
  FromBlock,      \* source.fromBlock
  Lookback,       \* lookbackBlocks (INDEXER_LOOKBACK_BLOCKS)
  ScanWindow,     \* scanWindowBlocks (INDEXER_SCAN_WINDOW)
  MinHashWindow,  \* the 32 of pruneBlockHashes
  MaxSplitDepth,  \* MAX_SPLIT_DEPTH
  AtomicStore,    \* TRUE: the Postgres adapter; FALSE: the JSON adapter's two files
  MaxLag,         \* how many blocks an RPC node's head may be behind
  MissDepth,      \* getLogs may miss the logs of the last MissDepth blocks
  MidRoundReorg,  \* TRUE: the chain may reorganise during a round
  MaxFaults       \* bound: RPC errors, failed writes, crashes and shutdowns

ASSUME IndexerAssumption ==
  /\ FromBlock \in Nat
  /\ Lookback \in Nat
  /\ ScanWindow \in Nat \ {0}
  /\ MinHashWindow \in Nat
  /\ MaxSplitDepth \in Nat
  /\ AtomicStore \in BOOLEAN
  /\ MaxLag \in Nat
  /\ MissDepth \in Nat
  /\ MidRoundReorg \in BOOLEAN
  /\ MaxFaults \in Nat

VARIABLES
  events,     \* the table of indexed events
  saved,      \* the saved IndexerSourceState: cursor (lastProcessedBlock) and hashes
  pc,         \* the await the round is at
  latest,     \* doPoll: the head the round works up to
  tip,        \* doPoll: the hash of that block
  state,      \* pollSource: the round's copy of the state
  unchecked,  \* detectReorg: the heights not compared yet
  reorg,      \* detectReorg: lowestMismatch
  chunkStart, \* pollSource
  firstChunk, \* pollSource
  ranges,     \* getLogsAdaptive: the ranges still to fetch, lowest first
  logs,       \* the logs fetched for this chunk
  stopping,   \* onModuleDestroy was called
  faults,     \* faults so far (MaxFaults)
  pruned      \* history: the highest floor pruneBlockHashes has used

storeVars == <<events, saved, pruned>>
roundVars == <<latest, tip, state, unchecked, reorg, chunkStart, firstChunk, ranges, logs>>
vars == <<chainVars, storeVars, roundVars, pc, stopping, faults>>

-----------------------------------------------------------------------------
None == -1

PC == {"idle", "tip", "load", "detect", "chunk", "logs", "commit", "flush"}

HashWindow == IF 4 * Lookback > MinHashWindow THEN 4 * Lookback ELSE MinHashWindow

(* getState, or the default of a source that has none: both look the same. *)
NoState == [cursor |-> FromBlock - 1, hashes |-> [h \in {} |-> 0]]

Larger(a, b) == IF a > b THEN a ELSE b

HeightsToCheck(st, head) == { h \in DOMAIN st.hashes : h =< head /\ h =< st.cursor }

(* Bug: the hashes of the dropped fork stay recorded. *)
RewindKeepsHashes(st, height) ==
  IF height = None THEN st
  ELSE [cursor |-> Larger(FromBlock - 1, height - 1), hashes |-> st.hashes]

(* What a detected reorganisation does to the round's copy of the state. *)
Rewind(st, height) ==
  IF height = None THEN st
  ELSE [cursor |-> Larger(FromBlock - 1, height - 1),
        hashes |-> Restrict(st.hashes, { h \in DOMAIN st.hashes : h < height })]

(* Bugs: no lower bound; no lookback. *)
ScanFromUnbounded(st) == st.cursor - Lookback
ScanFromCursor(st) == Larger(FromBlock, st.cursor + 1)

ScanFrom(st) == Larger(FromBlock, st.cursor - Lookback)

ChunkEnd == IF chunkStart + ScanWindow - 1 < latest THEN chunkStart + ScanWindow - 1 ELSE latest

Ids(S) == { e.id : e \in S }

(* Bug: dedup on the whole record instead of the id. *)
NewEventsByRecord(stored, found) == found \ stored

(* hasEvent / saveEvent: a known id is skipped, of two logs with one id in  *)
(* one answer the first in block order is stored.                           *)
NewEvents(stored, found) ==
  { l \in found : /\ l.id \notin Ids(stored)
                  /\ \A m \in found : m.id = l.id => l.block =< m.block }

(* Bugs: the orphans stay; everything goes. *)
RetainedAll == events
RetainedNone == IF firstChunk /\ reorg # None THEN {} ELSE events

Retained == IF firstChunk /\ reorg # None THEN { e \in events : e.block < reorg } ELSE events

EventsAfterChunk == Retained \cup NewEvents(Retained, logs)

(* Bug: only the tips are recorded. *)
RecordNothing(hashes, found) == hashes

Record(hashes, found) ==
  [h \in DOMAIN hashes \cup { l.block : l \in found } |->
     IF \E l \in found : l.block = h
     THEN (CHOOSE l \in found : l.block = h).hash
     ELSE hashes[h]]

RecordTip(hashes) ==
  IF ChunkEnd = latest
  THEN [h \in DOMAIN hashes \cup {latest} |-> IF h = latest THEN tip ELSE hashes[h]]
  ELSE hashes

Floor(cursor) == cursor - HashWindow

(* Bug: the floor itself is pruned. *)
PruneBlockHashesAtFloor(hashes, cursor) ==
  Restrict(hashes, { h \in DOMAIN hashes : h > Floor(cursor) })

PruneBlockHashes(hashes, cursor) ==
  Restrict(hashes, { h \in DOMAIN hashes : h >= Floor(cursor) })

StateAfterChunk ==
  [cursor |-> ChunkEnd,
   hashes |-> PruneBlockHashes(RecordTip(Record(state.hashes, logs)), ChunkEnd)]

-----------------------------------------------------------------------------
Init ==
  /\ ChainInit
  /\ events = {} /\ saved = NoState /\ pruned = Floor(FromBlock - 1)
  /\ pc = "idle"
  /\ latest = 0 /\ tip = 0 /\ state = NoState
  /\ unchecked = {} /\ reorg = None
  /\ chunkStart = 0 /\ firstChunk = TRUE
  /\ ranges = <<>> /\ logs = {}
  /\ stopping = FALSE /\ faults = 0

Goto(l) == pc' = l

(* The round's local variables are gone when it is over. *)
EndRound ==
  /\ Goto("idle")
  /\ latest' = 0 /\ tip' = 0 /\ state' = NoState
  /\ unchecked' = {} /\ reorg' = None
  /\ chunkStart' = 0 /\ firstChunk' = TRUE
  /\ ranges' = <<>> /\ logs' = {}

-----------------------------------------------------------------------------
(* doPoll: getBlockNumber.  The node that answers may be behind. *)
BeginRound ==
  /\ pc = "idle" /\ ~stopping
  /\ \E behind \in 0..MaxLag : behind =< Height /\ latest' = Height - behind
  /\ Goto("tip")
  /\ UNCHANGED <<chainVars, storeVars, tip, state, unchecked, reorg, chunkStart, firstChunk,
                 ranges, logs, stopping, faults>>

(* doPoll: getBlock(latest). *)
FetchTip ==
  /\ pc = "tip"
  /\ tip' = HashAt(latest)
  /\ Goto("load")
  /\ UNCHANGED <<chainVars, storeVars, latest, state, unchecked, reorg, chunkStart, firstChunk,
                 ranges, logs, stopping, faults>>

(* doPoll: a round that is asked to stop before its source begins ends here. *)
StopBeforeSource ==
  /\ pc = "load" /\ stopping
  /\ EndRound
  /\ UNCHANGED <<chainVars, storeVars, stopping, faults>>

LoadState ==
  /\ pc = "load" /\ ~stopping
  /\ state' = saved
  /\ unchecked' = HeightsToCheck(saved, latest)
  /\ reorg' = None
  /\ Goto("detect")
  /\ UNCHANGED <<chainVars, storeVars, latest, tip, chunkStart, firstChunk, ranges, logs,
                 stopping, faults>>

(* detectReorg: from the highest recorded height down, while they differ. *)
NextToCheck(h) == h \in unchecked /\ \A i \in unchecked : i =< h

HashDiffers ==
  /\ pc = "detect"
  /\ \E h \in unchecked :
       /\ NextToCheck(h) /\ state.hashes[h] # HashAt(h)
       /\ reorg' = h
       /\ unchecked' = unchecked \ {h}
  /\ UNCHANGED <<chainVars, storeVars, latest, tip, state, chunkStart, firstChunk, ranges, logs,
                 pc, stopping, faults>>

Detected == \A h \in unchecked : NextToCheck(h) => state.hashes[h] = HashAt(h)

(* The first height that matches ends the walk; the state is rewound below  *)
(* the lowest that did not, and the scan starts.                            *)
StartScan ==
  /\ pc = "detect" /\ Detected
  /\ LET rewound == Rewind(state, reorg)
     IN /\ ScanFrom(rewound) =< latest
        /\ state' = rewound
        /\ chunkStart' = ScanFrom(rewound)
  /\ firstChunk' = TRUE
  /\ unchecked' = {}
  /\ Goto("chunk")
  /\ UNCHANGED <<chainVars, storeVars, latest, tip, reorg, ranges, logs, stopping, faults>>

(* scanFrom > latest: the chain has not reached the source yet. *)
NothingToScan ==
  /\ pc = "detect" /\ Detected
  /\ ScanFrom(Rewind(state, reorg)) > latest
  /\ EndRound
  /\ UNCHANGED <<chainVars, storeVars, stopping, faults>>

StartChunk ==
  /\ pc = "chunk" /\ chunkStart =< latest /\ ~stopping
  /\ ranges' = <<[from |-> chunkStart, to |-> ChunkEnd, depth |-> 0]>>
  /\ logs' = {}
  /\ Goto("logs")
  /\ UNCHANGED <<chainVars, storeVars, latest, tip, state, unchecked, reorg, chunkStart,
                 firstChunk, stopping, faults>>

StopBetweenChunks ==
  /\ pc = "chunk" /\ chunkStart =< latest /\ stopping
  /\ EndRound
  /\ UNCHANGED <<chainVars, storeVars, stopping, faults>>

FinishRound ==
  /\ pc = "chunk" /\ chunkStart > latest
  /\ EndRound
  /\ UNCHANGED <<chainVars, storeVars, stopping, faults>>
-----------------------------------------------------------------------------
(* What a node that answers now may return for the range: it may not have   *)
(* indexed the logs of the newest MissDepth blocks yet.                      *)
Answers(r) ==
  LET all  == LogsBetween(r.from, r.to)
      sure == { l \in all : l.block =< Height - MissDepth }
  IN { sure \cup late : late \in SUBSET (all \ sure) }

(* getLogsAdaptive: the next range is answered. *)
GetLogs ==
  /\ pc = "logs" /\ ranges # <<>>
  /\ \E answer \in Answers(Head(ranges)) : logs' = logs \cup answer
  /\ ranges' = Tail(ranges)
  /\ IF Tail(ranges) = <<>> THEN Goto("commit") ELSE Goto("logs")
  /\ UNCHANGED <<chainVars, storeVars, latest, tip, state, unchecked, reorg, chunkStart,
                 firstChunk, stopping, faults>>

(* ... or refused, and fetched again as two halves. *)
SplitRange ==
  /\ pc = "logs" /\ ranges # <<>>
  /\ LET r   == Head(ranges)
         mid == (r.from + r.to) \div 2
     IN /\ r.depth < MaxSplitDepth /\ r.from < r.to
        /\ ranges' = << [from |-> r.from, to |-> mid, depth |-> r.depth + 1],
                        [from |-> mid + 1, to |-> r.to, depth |-> r.depth + 1] >>
                      \o Tail(ranges)
  /\ UNCHANGED <<chainVars, storeVars, latest, tip, state, unchecked, reorg, chunkStart,
                 firstChunk, logs, pc, stopping, faults>>

(* runInTransaction: the deletion of a reorganisation, the new events and   *)
(* the state, in one step on Postgres.                                       *)
CommitChunk ==
  /\ pc = "commit" /\ AtomicStore
  /\ events' = EventsAfterChunk
  /\ state' = StateAfterChunk /\ saved' = StateAfterChunk
  /\ pruned' = Larger(pruned, Floor(ChunkEnd))
  /\ chunkStart' = ChunkEnd + 1
  /\ firstChunk' = FALSE
  /\ Goto("chunk")
  /\ UNCHANGED <<chainVars, latest, tip, unchecked, reorg, ranges, logs, stopping, faults>>

(* Bug: the events file is not waited for. *)
FlushEventsUnawaited ==
  /\ pc = "commit" /\ ~AtomicStore
  /\ events' \in {events, EventsAfterChunk}
  /\ state' = StateAfterChunk
  /\ Goto("flush")
  /\ UNCHANGED <<chainVars, saved, pruned, latest, tip, unchecked, reorg, chunkStart,
                 firstChunk, ranges, logs, stopping, faults>>

(* The JSON adapter renames the events file first ... *)
FlushEvents ==
  /\ pc = "commit" /\ ~AtomicStore
  /\ events' = EventsAfterChunk
  /\ state' = StateAfterChunk
  /\ Goto("flush")
  /\ UNCHANGED <<chainVars, saved, pruned, latest, tip, unchecked, reorg, chunkStart,
                 firstChunk, ranges, logs, stopping, faults>>

(* ... and the state file second. *)
FlushState ==
  /\ pc = "flush"
  /\ saved' = state
  /\ pruned' = Larger(pruned, Floor(ChunkEnd))
  /\ chunkStart' = ChunkEnd + 1
  /\ firstChunk' = FALSE
  /\ Goto("chunk")
  /\ UNCHANGED <<chainVars, events, latest, tip, state, unchecked, reorg, ranges, logs,
                 stopping, faults>>

-----------------------------------------------------------------------------
(* An RPC call or a write fails, or the process crashes: what is not in the *)
(* store is lost and the next round starts from it.                          *)
Fault ==
  /\ pc # "idle" /\ faults < MaxFaults
  /\ faults' = faults + 1
  /\ EndRound
  /\ UNCHANGED <<chainVars, storeVars, stopping>>

(* onModuleDestroy. *)
Stop ==
  /\ ~stopping /\ faults < MaxFaults
  /\ faults' = faults + 1
  /\ stopping' = TRUE
  /\ UNCHANGED <<chainVars, storeVars, roundVars, pc>>

(* onModuleDestroy waits for the round in flight, then the process restarts. *)
Restart ==
  /\ stopping /\ pc = "idle"
  /\ stopping' = FALSE
  /\ UNCHANGED <<chainVars, storeVars, roundVars, pc, faults>>

ChainStep ==
  /\ \/ Mine
     \/ Reorg /\ (MidRoundReorg \/ pc = "idle")
  /\ UNCHANGED <<storeVars, roundVars, pc, stopping, faults>>

(* The steps of a round that meets no fault. *)
RoundStep ==
  \/ BeginRound \/ FetchTip \/ StopBeforeSource \/ LoadState
  \/ HashDiffers \/ StartScan \/ NothingToScan
  \/ StartChunk \/ StopBetweenChunks \/ FinishRound
  \/ GetLogs \/ SplitRange
  \/ CommitChunk \/ FlushEvents \/ FlushState

Next == RoundStep \/ ChainStep \/ Fault \/ Stop \/ Restart

Spec == Init /\ [][Next]_vars

(* setInterval keeps calling pollTick, and every await of a round is settled *)
(* by the RPC client's timeout.  Restart is fair because the process is run  *)
(* by a supervisor.                                                          *)
Fairness == WF_vars(RoundStep) /\ WF_vars(Restart)

FairSpec == Spec /\ Fairness

-----------------------------------------------------------------------------
Log == [id : LogId, block : Nat, hash : Nat]

BlockRange == [from : Nat, to : Nat, depth : Nat]

StateOK(st) ==
  /\ st.cursor \in Int /\ st.cursor >= -1
  /\ DOMAIN st.hashes \subseteq Nat
  /\ \A h \in DOMAIN st.hashes : st.hashes[h] \in Nat

(* The types, and the one bound the RPC calls rely on: the round never asks *)
(* for a block above the chain.                                              *)
StoreTypeOK == events \subseteq Log /\ StateOK(saved) /\ pruned \in Int

RoundTypeOK ==
  /\ latest \in 0..Height /\ tip \in Nat
  /\ StateOK(state)
  /\ unchecked \subseteq 0..Height /\ reorg \in Nat \cup {None}
  /\ chunkStart \in Nat /\ firstChunk \in BOOLEAN
  /\ ranges \in Seq(BlockRange) /\ logs \subseteq Log

ControlTypeOK == pc \in PC /\ stopping \in BOOLEAN /\ faults \in 0..MaxFaults

TypeOK == ChainTypeOK /\ StoreTypeOK /\ RoundTypeOK /\ ControlTypeOK

(* No two stored events are one log: indexer.service.ts dedups on           *)
(* txHash:logIndex across rescans, splits, crashes and reorganisations.      *)
NoDuplicates == \A d, e \in events : d.id = e.id => d = e

(* A stored event that pruning has not passed by has a recorded hash at its *)
(* height, in the state that is committed with it: without one no later     *)
(* detectReorg would look at the height, and an orphan would stay for good.  *)
HashCover == \A e \in events : e.block >= pruned => e.block \in DOMAIN saved.hashes

(* detectReorg stops at the first height that still matches because "its     *)
(* ancestors are canonical too": every recorded height below it matches.     *)
MatchProvesBelow ==
  pc = "detect" /\ Detected =>
    \A h \in unchecked : state.hashes[h] = HashAt(h)

RoundDone == pc = "chunk" /\ chunkStart > latest

(* A round that worked through all its chunks leaves the canonical logs up  *)
(* to the head it started from: nothing orphaned, and nothing missed but     *)
(* what the node had not indexed yet.                                        *)
RoundConverges ==
  RoundDone =>
    /\ \A e \in events : e.block =< latest => e \in LogsUpTo(latest) /\ e.block >= FromBlock
    /\ \A l \in LogsUpTo(latest - MissDepth) : l.block >= FromBlock => l \in events

(* After a round up to the true head no event of a dropped fork is stored.   *)
OrphansDropped ==
  RoundDone /\ latest = Height => \A e \in events : e.hash = HashAt(e.block)

(* Only orphans are ever deleted. *)
NoCanonicalLoss ==
  [][\A e \in events : e \in LogsUpTo(Height) => e \in events']_vars

(* Once the chain rests the store catches up with it and stays there. *)
CaughtUp ==
  /\ saved.cursor = Height
  /\ events = { l \in LogsUpTo(Height) : l.block >= FromBlock }

EventuallyCaughtUp == <>[](CaughtUp \/ Height < FromBlock)
=============================================================================
