------------------------- MODULE EventIndexerProofs -------------------------
(***************************************************************************)
(* Proofs about EventIndexer for every value of its constants.             *)
(***************************************************************************)
EXTENDS EventIndexer, WellFoundedInduction, TLAPS

(* The logs a range of the chain holds are well-typed, lie in the range and *)
(* carry the canonical hash of their block.                                  *)
LEMMA LogsBetweenFacts ==
  ASSUME ChainTypeOK, NEW a \in Int, NEW b \in Int, NEW l \in LogsBetween(a, b)
  PROVE  /\ l \in Log
         /\ l.block \in 1..Height /\ a =< l.block /\ l.block =< b
         /\ l.hash = chain[l.block].fork
<1>1. PICK h \in (a..b) \cap (1..Height) :
        l \in { [id |-> i, block |-> h, hash |-> chain[h].fork] : i \in chain[h].logs }
  BY DEF LogsBetween
<1>2. chain[h] \in Block
  BY DEF ChainTypeOK, Height
<1>3. PICK i \in chain[h].logs : l = [id |-> i, block |-> h, hash |-> chain[h].fork]
  BY <1>1
<1> QED
  BY <1>2, <1>3 DEF Block, Log, Height

LEMMA HashAtType ==
  ASSUME ChainTypeOK, NEW h \in 0..Height
  PROVE  HashAt(h) \in Nat
<1>1. CASE h = 0
  BY <1>1 DEF HashAt
<1>2. CASE h # 0
  <2>1. chain[h] \in Block
    BY <1>2 DEF ChainTypeOK, Height
  <2> QED
    BY <1>2, <2>1 DEF HashAt, Block
<1> QED
  BY <1>1, <1>2

LEMMA ChunkEndType ==
  ASSUME chunkStart \in Nat, latest \in Nat
  PROVE  ChunkEnd \in Nat /\ ChunkEnd =< latest
BY IndexerAssumption DEF ChunkEnd

LEMMA HashWindowType == HashWindow \in Nat
BY IndexerAssumption DEF HashWindow

LEMMA NoStateOK == StateOK(NoState)
BY IndexerAssumption DEF StateOK, NoState

LEMMA RewindOK ==
  ASSUME NEW st, StateOK(st), NEW height \in Nat \cup {None}
  PROVE  StateOK(Rewind(st, height))
BY IndexerAssumption DEF StateOK, Rewind, Larger, Restrict, None

(* The heights a chunk leaves recorded: those that were and those of the    *)
(* logs, and the tip, as far as pruning keeps them.                          *)
LEMMA StateAfterChunkFacts ==
  ASSUME StateOK(state), logs \subseteq Log, chunkStart \in Nat, latest \in Nat, tip \in Nat
  PROVE  /\ StateOK(StateAfterChunk)
         /\ StateAfterChunk.cursor = ChunkEnd
         /\ \A h \in DOMAIN state.hashes \cup { l.block : l \in logs } :
              h >= Floor(ChunkEnd) => h \in DOMAIN StateAfterChunk.hashes
<1> DEFINE R == Record(state.hashes, logs)
           T == RecordTip(R)
<1>1. /\ DOMAIN R = DOMAIN state.hashes \cup { l.block : l \in logs }
      /\ \A h \in DOMAIN R : h \in Nat /\ R[h] \in Nat
  <2>1. DOMAIN R = DOMAIN state.hashes \cup { l.block : l \in logs }
    BY DEF Record
  <2>2. ASSUME NEW h \in DOMAIN R
        PROVE  h \in Nat /\ R[h] \in Nat
    <3>1. CASE \E l \in logs : l.block = h
      <4>1. (CHOOSE l \in logs : l.block = h) \in logs
        BY <3>1
      <4> QED
        BY <3>1, <4>1, <2>1, <2>2 DEF Record, Log
    <3>2. CASE ~ \E l \in logs : l.block = h
      <4>1. h \in DOMAIN state.hashes
        BY <3>2, <2>1, <2>2
      <4> QED
        BY <3>2, <4>1, <2>2 DEF Record, StateOK
    <3> QED
      BY <3>1, <3>2
  <2> QED
    BY <2>1, <2>2
<1>2. /\ DOMAIN R \subseteq DOMAIN T
      /\ \A h \in DOMAIN T : h \in Nat /\ T[h] \in Nat
  BY <1>1 DEF RecordTip
<1>3. ChunkEnd \in Nat /\ Floor(ChunkEnd) \in Int
  BY ChunkEndType, HashWindowType DEF Floor
<1>4. /\ StateAfterChunk.cursor = ChunkEnd
      /\ StateAfterChunk.hashes = [h \in { i \in DOMAIN T : i >= Floor(ChunkEnd) } |-> T[h]]
  BY DEF StateAfterChunk, PruneBlockHashes, Restrict
<1> HIDE DEF R, T
<1> QED
  BY <1>1, <1>2, <1>3, <1>4 DEF StateOK

-----------------------------------------------------------------------------
(* The chain is a sequence of blocks that never gets shorter. *)
LEMMA ChainStepType ==
  ASSUME ChainTypeOK, Mine \/ Reorg
  PROVE  ChainTypeOK' /\ Height =< Height' /\ Height \in Nat
<1>1. CASE Mine
  <2>1. PICK new \in SUBSET (LogId \ OnChain) :
          chain' = Append(chain, [fork |-> fork, logs |-> new])
    BY <1>1 DEF Mine
  <2>2. [fork |-> fork, logs |-> new] \in Block
    BY DEF Block, ChainTypeOK
  <2>3. fork' = fork
    BY <1>1 DEF Mine
  <2> QED
    BY <2>1, <2>2, <2>3 DEF ChainTypeOK, Height
<1>2. CASE Reorg
  <2>1. PICK h \in 1..Height :
          LET kept == { l.id : l \in LogsUpTo(h - 1) }
          IN \E place \in [LogId \ kept -> (h..Height) \cup {0}] :
               chain' = [i \in 1..Height |->
                           IF i < h THEN chain[i]
                           ELSE [fork |-> fork + 1,
                                 logs |-> { l \in LogId \ kept : place[l] = i }]]
    BY <1>2 DEF Reorg
  <2> DEFINE kept == { l.id : l \in LogsUpTo(h - 1) }
  <2>2. PICK place \in [LogId \ kept -> (h..Height) \cup {0}] :
               chain' = [i \in 1..Height |->
                           IF i < h THEN chain[i]
                           ELSE [fork |-> fork + 1,
                                 logs |-> { l \in LogId \ kept : place[l] = i }]]
    BY <2>1
  <2> HIDE DEF kept
  <2>3. \A i \in 1..Height : chain[i] \in Block
    BY DEF ChainTypeOK, Height
  <2>4. \A i \in 1..Height :
          [fork |-> fork + 1, logs |-> { l \in LogId \ kept : place[l] = i }] \in Block
    BY DEF ChainTypeOK, Block
  <2>5. chain' \in [1..Height -> Block]
    BY <2>2, <2>3, <2>4
  <2>6. Height \in Nat
    BY DEF ChainTypeOK, Height
  <2>7. chain' \in Seq(Block) /\ Len(chain') = Height
    BY <2>5, <2>6 DEF ChainTypeOK
  <2>8. fork' = fork + 1
    BY <1>2 DEF Reorg
  <2> QED
    BY <2>6, <2>7, <2>8 DEF ChainTypeOK, Height
<1> QED
  BY <1>1, <1>2

LEMMA HeightType == ChainTypeOK => Height \in Nat
BY DEF ChainTypeOK, Height

LEMMA EndRoundType ==
  ASSUME TypeOK, EndRound, UNCHANGED <<chainVars, storeVars>>,
         stopping' \in BOOLEAN, faults' \in 0..MaxFaults
  PROVE  TypeOK'
<1>1. ChainTypeOK' /\ Height' = Height /\ Height \in Nat
  BY HeightType DEF TypeOK, ChainTypeOK, Height, chainVars
<1>2. StoreTypeOK'
  BY DEF TypeOK, StoreTypeOK, storeVars
<1>3. RoundTypeOK'
  BY <1>1, NoStateOK DEF RoundTypeOK, EndRound
<1>4. ControlTypeOK'
  BY DEF ControlTypeOK, EndRound, Goto, PC
<1> QED
  BY <1>1, <1>2, <1>3, <1>4 DEF TypeOK

LEMMA TypeStep == TypeOK /\ [Next]_vars => TypeOK'
<1> SUFFICES ASSUME TypeOK, [Next]_vars PROVE TypeOK'
  OBVIOUS
<1> USE IndexerAssumption DEF Goto, PC
<1>0. Height \in Nat
  BY HeightType DEF TypeOK
(* Most steps leave the chain alone, and the store with it. *)
<1> DEFINE Still == UNCHANGED <<chainVars>>
<1>a. ASSUME Still PROVE ChainTypeOK' /\ Height' = Height
  BY <1>a DEF chainVars, TypeOK, ChainTypeOK, Height
<1>b. ASSUME UNCHANGED storeVars PROVE StoreTypeOK'
  BY <1>b DEF storeVars, TypeOK, StoreTypeOK
<1>1. CASE BeginRound
  <2>1. latest' \in 0..Height
    BY <1>0, <1>1 DEF BeginRound
  <2>2. RoundTypeOK'
    BY <1>1, <1>a, <2>1 DEF TypeOK, RoundTypeOK, BeginRound
  <2>3. ControlTypeOK'
    BY <1>1 DEF TypeOK, ControlTypeOK, BeginRound
  <2> QED
    BY <1>1, <1>a, <1>b, <2>2, <2>3 DEF TypeOK, BeginRound
<1>2. CASE FetchTip
  <2>1. tip' \in Nat
    BY <1>2, HashAtType DEF FetchTip, TypeOK, RoundTypeOK
  <2>2. RoundTypeOK'
    BY <1>2, <1>a, <2>1 DEF TypeOK, RoundTypeOK, FetchTip
  <2>3. ControlTypeOK'
    BY <1>2 DEF TypeOK, ControlTypeOK, FetchTip
  <2> QED
    BY <1>2, <1>a, <1>b, <2>2, <2>3 DEF TypeOK, FetchTip
<1>3. CASE StopBeforeSource \/ NothingToScan \/ StopBetweenChunks \/ FinishRound
  BY <1>3, EndRoundType
     DEF TypeOK, ControlTypeOK, StopBeforeSource, NothingToScan, StopBetweenChunks, FinishRound
<1>4. CASE LoadState
  <2>1. HeightsToCheck(saved, latest) \subseteq 0..Height
    BY <1>0 DEF TypeOK, StoreTypeOK, RoundTypeOK, HeightsToCheck, StateOK
  <2>2. RoundTypeOK'
    BY <1>4, <1>a, <2>1 DEF TypeOK, StoreTypeOK, RoundTypeOK, LoadState, None
  <2>3. ControlTypeOK'
    BY <1>4 DEF TypeOK, ControlTypeOK, LoadState
  <2> QED
    BY <1>4, <1>a, <1>b, <2>2, <2>3 DEF TypeOK, LoadState
<1>5. CASE HashDiffers
  <2>1. reorg' \in unchecked /\ unchecked' \subseteq unchecked
    BY <1>5 DEF HashDiffers
  <2>2. RoundTypeOK'
    BY <1>5, <1>0, <1>a, <2>1 DEF TypeOK, RoundTypeOK, HashDiffers
  <2>3. ControlTypeOK'
    BY <1>5 DEF TypeOK, ControlTypeOK, HashDiffers
  <2> QED
    BY <1>5, <1>a, <1>b, <2>2, <2>3 DEF TypeOK, HashDiffers
<1>6. CASE StartScan
  <2>1. StateOK(Rewind(state, reorg))
    BY RewindOK DEF TypeOK, RoundTypeOK
  <2>2. ScanFrom(Rewind(state, reorg)) \in Nat
    BY <2>1 DEF ScanFrom, Larger, StateOK
  <2>3. state' = Rewind(state, reorg) /\ chunkStart' = ScanFrom(Rewind(state, reorg))
    BY <1>6 DEF StartScan
  <2>4. RoundTypeOK'
    BY <1>6, <1>a, <2>1, <2>2, <2>3 DEF TypeOK, RoundTypeOK, StartScan
  <2>5. ControlTypeOK'
    BY <1>6 DEF TypeOK, ControlTypeOK, StartScan
  <2> QED
    BY <1>6, <1>a, <1>b, <2>4, <2>5 DEF TypeOK, StartScan
<1>7. CASE StartChunk
  <2>1. [from |-> chunkStart, to |-> ChunkEnd, depth |-> 0] \in BlockRange
    BY <1>0, ChunkEndType DEF BlockRange, TypeOK, RoundTypeOK
  <2>2. RoundTypeOK'
    BY <1>7, <1>a, <2>1 DEF TypeOK, RoundTypeOK, StartChunk
  <2>3. ControlTypeOK'
    BY <1>7 DEF TypeOK, ControlTypeOK, StartChunk
  <2> QED
    BY <1>7, <1>a, <1>b, <2>2, <2>3 DEF TypeOK, StartChunk
<1>8. CASE GetLogs
  <2>1. Head(ranges) \in BlockRange /\ Tail(ranges) \in Seq(BlockRange)
    BY <1>8 DEF GetLogs, TypeOK, RoundTypeOK
  <2>2. PICK answer \in Answers(Head(ranges)) : logs' = logs \cup answer
    BY <1>8 DEF GetLogs
  <2>3. answer \subseteq LogsBetween(Head(ranges).from, Head(ranges).to)
    BY <2>2 DEF Answers
  <2>4. answer \subseteq Log
    BY <2>1, <2>3, LogsBetweenFacts DEF TypeOK, BlockRange
  <2>5. RoundTypeOK'
    BY <1>8, <1>a, <2>1, <2>2, <2>4 DEF TypeOK, RoundTypeOK, GetLogs
  <2>6. ControlTypeOK'
    BY <1>8 DEF TypeOK, ControlTypeOK, GetLogs
  <2> QED
    BY <1>8, <1>a, <1>b, <2>5, <2>6 DEF TypeOK, GetLogs
<1>9. CASE SplitRange
  <2> DEFINE r   == Head(ranges)
             mid == (r.from + r.to) \div 2
             lower == [from |-> r.from, to |-> mid, depth |-> r.depth + 1]
             upper == [from |-> mid + 1, to |-> r.to, depth |-> r.depth + 1]
  <2>1. r \in BlockRange /\ Tail(ranges) \in Seq(BlockRange)
    BY <1>9 DEF SplitRange, TypeOK, RoundTypeOK
  <2>2. r.from \in Nat /\ r.to \in Nat /\ r.depth \in Nat
    BY <2>1 DEF BlockRange
  <2>3. mid \in Nat
    BY <2>2
  <2>4. ranges' = <<lower, upper>> \o Tail(ranges)
    BY <1>9 DEF SplitRange
  <2> HIDE DEF r, mid
  <2>5. lower \in BlockRange /\ upper \in BlockRange
    BY <2>2, <2>3 DEF BlockRange
  <2> HIDE DEF lower, upper
  <2>6. ranges' \in Seq(BlockRange)
    BY <2>1, <2>4, <2>5
  <2>7. RoundTypeOK'
    BY <1>9, <1>a, <2>6 DEF TypeOK, RoundTypeOK, SplitRange
  <2>8. ControlTypeOK'
    BY <1>9 DEF TypeOK, ControlTypeOK, SplitRange
  <2> QED
    BY <1>9, <1>a, <1>b, <2>7, <2>8 DEF TypeOK, SplitRange
<1>c. /\ EventsAfterChunk \subseteq Log
      /\ StateOK(StateAfterChunk)
      /\ ChunkEnd \in Nat
      /\ Larger(pruned, Floor(ChunkEnd)) \in Int
  <2>1. EventsAfterChunk \subseteq Log
    BY DEF TypeOK, StoreTypeOK, RoundTypeOK, EventsAfterChunk, Retained, NewEvents
  <2>2. StateOK(StateAfterChunk) /\ ChunkEnd \in Nat
    BY <1>0, StateAfterChunkFacts, ChunkEndType DEF TypeOK, RoundTypeOK
  <2> QED
    BY <2>1, <2>2, HashWindowType DEF Floor, Larger, TypeOK, StoreTypeOK
<1>10. CASE CommitChunk
  <2>1. StoreTypeOK'
    BY <1>10, <1>c DEF CommitChunk, StoreTypeOK
  <2>. firstChunk' \in BOOLEAN
    BY <1>10 DEF CommitChunk
  <2>. /\ UNCHANGED <<latest, tip, unchecked, reorg, ranges, logs>>
       /\ state' = StateAfterChunk /\ chunkStart' = ChunkEnd + 1
    BY <1>10 DEF CommitChunk
  <2>. Height' = Height
    BY <1>10, <1>a DEF CommitChunk
  <2>2. RoundTypeOK'
    BY <1>c DEF TypeOK, RoundTypeOK
  <2>3. ControlTypeOK'
    BY <1>10 DEF TypeOK, ControlTypeOK, CommitChunk
  <2> QED
    BY <1>10, <1>a, <2>1, <2>2, <2>3 DEF TypeOK, CommitChunk
<1>11. CASE FlushEvents
  <2>1. StoreTypeOK'
    BY <1>11, <1>c DEF FlushEvents, TypeOK, StoreTypeOK
  <2>2. RoundTypeOK'
    BY <1>11, <1>a, <1>c DEF TypeOK, RoundTypeOK, FlushEvents
  <2>3. ControlTypeOK'
    BY <1>11 DEF TypeOK, ControlTypeOK, FlushEvents
  <2> QED
    BY <1>11, <1>a, <2>1, <2>2, <2>3 DEF TypeOK, FlushEvents
<1>12. CASE FlushState
  <2>1. StoreTypeOK'
    BY <1>12, <1>c DEF FlushState, TypeOK, StoreTypeOK, RoundTypeOK
  <2>. firstChunk' \in BOOLEAN
    BY <1>12 DEF FlushState
  <2>. /\ UNCHANGED <<latest, tip, state, unchecked, reorg, ranges, logs>>
       /\ chunkStart' = ChunkEnd + 1
    BY <1>12 DEF FlushState
  <2>. Height' = Height
    BY <1>12, <1>a DEF FlushState
  <2>2. RoundTypeOK'
    BY <1>c DEF TypeOK, RoundTypeOK
  <2>3. ControlTypeOK'
    BY <1>12 DEF TypeOK, ControlTypeOK, FlushState
  <2> QED
    BY <1>12, <1>a, <2>1, <2>2, <2>3 DEF TypeOK, FlushState
<1>13. CASE Fault
  <2>1. faults' \in 0..MaxFaults /\ stopping' \in BOOLEAN
    BY <1>13 DEF Fault, TypeOK, ControlTypeOK
  <2> QED
    BY <1>13, <2>1, EndRoundType DEF Fault
<1>14. CASE Stop \/ Restart
  <2>1. UNCHANGED <<chainVars, storeVars, roundVars, pc>>
    BY <1>14 DEF Stop, Restart
  <2>2. RoundTypeOK'
    BY <1>a, <2>1 DEF TypeOK, RoundTypeOK, roundVars
  <2>3. ControlTypeOK'
    <3>1. stopping' \in BOOLEAN
      BY <1>14 DEF Stop, Restart
    <3>2. faults' \in 0..MaxFaults
      BY <1>14 DEF TypeOK, ControlTypeOK, Stop, Restart
    <3> QED
      BY <2>1, <3>1, <3>2 DEF TypeOK, ControlTypeOK
  <2> QED
    BY <1>a, <1>b, <2>1, <2>2, <2>3 DEF TypeOK
<1>15. CASE ChainStep
  <2>1. ChainTypeOK' /\ Height =< Height'
    BY <1>15, ChainStepType DEF ChainStep, TypeOK
  <2>2. Height' \in Nat
    BY <2>1, HeightType DEF ChainTypeOK, Height
  <2>3. 0..Height \subseteq 0..Height'
    BY <1>0, <2>1, <2>2
  <2>4. RoundTypeOK'
    BY <1>15, <2>3 DEF ChainStep, TypeOK, RoundTypeOK, roundVars
  <2>5. ControlTypeOK'
    BY <1>15 DEF ChainStep, TypeOK, ControlTypeOK
  <2> QED
    BY <1>15, <1>b, <2>1, <2>4, <2>5 DEF ChainStep, TypeOK
<1>16. CASE UNCHANGED vars
  <2>1. UNCHANGED <<chainVars, storeVars, roundVars, pc, stopping, faults>>
    BY <1>16 DEF vars
  <2>2. RoundTypeOK' /\ ControlTypeOK'
    BY <1>a, <2>1 DEF TypeOK, RoundTypeOK, ControlTypeOK, roundVars
  <2> QED
    BY <1>a, <1>b, <2>1, <2>2 DEF TypeOK
<1> QED
  BY <1>1, <1>2, <1>3, <1>4, <1>5, <1>6, <1>7, <1>8, <1>9, <1>10, <1>11, <1>12, <1>13, <1>14,
     <1>15, <1>16 DEF Next, RoundStep

(* Every variable keeps its type whatever the chain, the RPC node and the    *)
(* process do, and a round never asks the node for a block above its chain.  *)
THEOREM TypeCorrect == Spec => []TypeOK
<1>1. Init => TypeOK
  <2> SUFFICES ASSUME Init PROVE TypeOK
    OBVIOUS
  <2>1. ChainTypeOK /\ Height = 0
    BY DEF Init, ChainInit, ChainTypeOK, Height
  <2>2. StoreTypeOK
    BY NoStateOK, IndexerAssumption, HashWindowType DEF Init, StoreTypeOK, Floor
  <2>3. RoundTypeOK
    BY <2>1, NoStateOK DEF Init, RoundTypeOK, None
  <2>4. ControlTypeOK
    <3>1. faults \in 0..MaxFaults
      BY IndexerAssumption DEF Init
    <3> QED
      BY <3>1 DEF Init, ControlTypeOK, PC
  <2> QED
    BY <2>1, <2>2, <2>3, <2>4 DEF TypeOK
<1> QED
  BY <1>1, TypeStep, PTL DEF Spec

-----------------------------------------------------------------------------
(* What a round's logs and pending ranges look like: the ranges are apart   *)
(* and in order, the logs lie below them, and one block has one hash in one *)
(* answer even when the chain reorganises between two of its halves.         *)
RangesInv ==
  /\ \A i \in 1..Len(ranges) : ranges[i].from =< ranges[i].to
  /\ \A i, j \in 1..Len(ranges) : i < j => ranges[i].to < ranges[j].from
  /\ \A l \in logs, i \in 1..Len(ranges) : l.block < ranges[i].from
  /\ \A l, m \in logs : l.block = m.block => l.hash = m.hash

LEMMA RangesStep == TypeOK /\ RangesInv /\ [Next]_vars => RangesInv'
<1> SUFFICES ASSUME TypeOK, RangesInv, [Next]_vars PROVE RangesInv'
  OBVIOUS
<1> USE IndexerAssumption
<1>1. CASE UNCHANGED <<ranges, logs>>
  BY <1>1 DEF RangesInv
<1>2. CASE EndRound
  BY <1>2 DEF EndRound, RangesInv
<1>3. CASE StartChunk
  <2>1. chunkStart =< ChunkEnd
    BY <1>3, HeightType DEF StartChunk, ChunkEnd, TypeOK, RoundTypeOK
  <2> QED
    BY <1>3, <2>1 DEF StartChunk, RangesInv
<1>4. CASE GetLogs
  <2> DEFINE r == Head(ranges)
  <2>1. PICK answer \in Answers(r) : logs' = logs \cup answer
    BY <1>4 DEF GetLogs
  <2>2. /\ ranges \in Seq(BlockRange) /\ ranges # <<>>
        /\ ranges' = Tail(ranges)
        /\ r = ranges[1] /\ r \in BlockRange
    BY <1>4 DEF GetLogs, TypeOK, RoundTypeOK
  <2>3. ASSUME NEW l \in answer
        PROVE  /\ l.block \in Nat /\ r.from =< l.block /\ l.block =< r.to
               /\ l.hash = chain[l.block].fork
    <3>1. l \in LogsBetween(r.from, r.to)
      BY <2>1 DEF Answers
    <3> QED
      BY <2>2, <3>1, LogsBetweenFacts, HeightType DEF TypeOK, BlockRange
  <2>4. /\ Len(ranges') = Len(ranges) - 1
        /\ \A i \in 1..Len(ranges') : i + 1 \in 1..Len(ranges) /\ ranges'[i] = ranges[i + 1]
    BY <2>2
  <2>5. \A i \in 1..Len(ranges) :
          ranges[i] \in BlockRange /\ ranges[i].from \in Nat /\ ranges[i].to \in Nat
    <3>1. \A i \in 1..Len(ranges) : ranges[i] \in BlockRange
      BY <2>2
    <3> QED
      BY <3>1 DEF BlockRange
  <2>6. \A l \in logs : l.block \in Nat /\ l.block < r.from
    BY <2>2 DEF RangesInv, TypeOK, RoundTypeOK, Log
  <2> HIDE DEF r
  <2>7. \A i \in 1..Len(ranges') : ranges'[i].from =< ranges'[i].to
    BY <2>4 DEF RangesInv
  <2>8. \A i, j \in 1..Len(ranges') : i < j => ranges'[i].to < ranges'[j].from
    BY <2>2, <2>4 DEF RangesInv
  <2>9. \A l \in logs', i \in 1..Len(ranges') : l.block < ranges'[i].from
    BY <2>1, <2>2, <2>3, <2>4, <2>5 DEF RangesInv
  <2>10. \A l, m \in logs' : l.block = m.block => l.hash = m.hash
    BY <2>1, <2>2, <2>3, <2>6 DEF RangesInv, BlockRange
  <2> QED
    BY <2>7, <2>8, <2>9, <2>10 DEF RangesInv
<1>5. CASE SplitRange
  <2> DEFINE r   == Head(ranges)
             mid == (r.from + r.to) \div 2
             lower == [from |-> r.from, to |-> mid, depth |-> r.depth + 1]
             upper == [from |-> mid + 1, to |-> r.to, depth |-> r.depth + 1]
  <2>1. /\ ranges \in Seq(BlockRange) /\ ranges # <<>>
        /\ r = ranges[1] /\ r \in BlockRange
        /\ r.from < r.to
        /\ ranges' = <<lower, upper>> \o Tail(ranges)
        /\ logs' = logs
    BY <1>5 DEF SplitRange, TypeOK, RoundTypeOK
  <2>2. r.from \in Nat /\ r.to \in Nat
    BY <2>1 DEF BlockRange
  <2>3. mid \in Nat /\ r.from =< mid /\ mid < r.to
    BY <2>1, <2>2
  <2>4. /\ lower.from = r.from /\ lower.to = mid
        /\ upper.from = mid + 1 /\ upper.to = r.to
    OBVIOUS
  <2>5. \A i \in 1..Len(ranges) : ranges[i].from \in Nat /\ ranges[i].to \in Nat
    <3>1. \A i \in 1..Len(ranges) : ranges[i] \in BlockRange
      BY <2>1
    <3> QED
      BY <3>1 DEF BlockRange
  <2> HIDE DEF r, mid, lower, upper
  <2>6. /\ Len(ranges') = Len(ranges) + 1
        /\ ranges'[1] = lower /\ ranges'[2] = upper
        /\ \A i \in 3..Len(ranges') : i - 1 \in 2..Len(ranges) /\ ranges'[i] = ranges[i - 1]
    BY <2>1
  <2>7. \A i \in 1..Len(ranges') : ranges'[i].from =< ranges'[i].to
    BY <2>1, <2>2, <2>3, <2>4, <2>6 DEF RangesInv
  <2>8. ASSUME NEW i \in 1..Len(ranges'), NEW j \in 1..Len(ranges'), i < j
        PROVE  ranges'[i].to < ranges'[j].from
    <3>1. CASE j = 2
      <4>1. i = 1
        BY <2>8, <3>1
      <4>2. ranges'[i].to = mid /\ ranges'[j].from = mid + 1
        BY <2>4, <2>6, <3>1, <4>1
      <4> QED
        BY <2>3, <4>2
    <3>2. CASE j > 2 /\ i =< 2
      <4>1. r.to < ranges'[j].from
        BY <2>1, <2>6, <3>2 DEF RangesInv
      <4>2. ranges'[j].from \in Nat
        BY <2>1, <2>5, <2>6, <3>2
      <4>3. i = 1 \/ i = 2
        BY <2>1, <2>6, <3>2
      <4>4. ranges'[i].to = mid \/ ranges'[i].to = r.to
        BY <2>4, <2>6, <4>3
      <4>5. mid < ranges'[j].from
        BY <2>2, <2>3, <4>1, <4>2
      <4> QED
        BY <4>1, <4>4, <4>5
    <3>3. CASE j > 2 /\ i > 2
      <4>1. i - 1 \in 1..Len(ranges) /\ j - 1 \in 1..Len(ranges) /\ i - 1 < j - 1
        BY <2>1, <2>6, <2>8, <3>3
      <4>2. ranges'[i] = ranges[i - 1] /\ ranges'[j] = ranges[j - 1]
        <5>1. i \in 3..Len(ranges') /\ j \in 3..Len(ranges')
          BY <3>3
        <5> QED
          BY <2>6, <5>1
      <4> QED
        BY <4>1, <4>2 DEF RangesInv
    <3> QED
      BY <2>8, <3>1, <3>2, <3>3
  <2>9. ASSUME NEW l \in logs, NEW i \in 1..Len(ranges')
        PROVE  l.block < ranges'[i].from
    <3>1. l.block \in Nat /\ l.block < r.from
      BY <2>1 DEF RangesInv, TypeOK, RoundTypeOK, Log
    <3>2. CASE i =< 2
      BY <2>2, <2>3, <2>4, <2>6, <3>1, <3>2
    <3>3. CASE i > 2
      BY <2>6, <3>3 DEF RangesInv
    <3> QED
      BY <3>2, <3>3
  <2>10. logs' = logs
    BY <2>1
  <2> QED
    BY <2>7, <2>8, <2>9, <2>10 DEF RangesInv
<1> QED
  BY <1>1, <1>2, <1>3, <1>4, <1>5
     DEF Next, RoundStep, vars, roundVars, BeginRound, FetchTip, StopBeforeSource, LoadState,
         HashDiffers, StartScan, NothingToScan, StopBetweenChunks, FinishRound, CommitChunk,
         FlushEvents, FlushState, ChainStep, Fault, Stop, Restart

-----------------------------------------------------------------------------
LEMMA ChunkKeepsUnique ==
  ASSUME TypeOK, RangesInv, NoDuplicates,
         NEW d \in EventsAfterChunk, NEW e \in EventsAfterChunk, d.id = e.id
  PROVE  d = e
<1>1. Retained \subseteq events
  BY DEF Retained
<1>2. CASE d \in Retained /\ e \in Retained
  BY <1>1, <1>2 DEF NoDuplicates
<1>3. CASE d \in NewEvents(Retained, logs) /\ e \in NewEvents(Retained, logs)
  <2>1. d \in logs /\ e \in logs /\ d \in Log /\ e \in Log
    BY <1>3 DEF NewEvents, TypeOK, RoundTypeOK
  <2>2. d.block =< e.block /\ e.block =< d.block
    BY <1>3, <2>1 DEF NewEvents
  <2>3. d.block = e.block
    BY <2>1, <2>2 DEF Log
  <2>4. d.hash = e.hash
    BY <2>1, <2>3 DEF RangesInv
  <2> QED
    BY <2>1, <2>3, <2>4 DEF Log
<1>4. ~(d \in Retained /\ e \in NewEvents(Retained, logs))
  BY DEF NewEvents, Ids
<1>5. ~(e \in Retained /\ d \in NewEvents(Retained, logs))
  BY DEF NewEvents, Ids
<1> QED
  BY <1>2, <1>3, <1>4, <1>5 DEF EventsAfterChunk

(* No log is ever stored twice, on either adapter and however rounds, faults *)
(* and reorganisations interleave.                                           *)
THEOREM NeverDuplicated == Spec => []NoDuplicates
<1> DEFINE IInv == RangesInv /\ NoDuplicates
<1>1. Init => IInv
  BY DEF Init, RangesInv, NoDuplicates
<1>2. TypeOK /\ IInv /\ [Next]_vars => IInv'
  <2> SUFFICES ASSUME TypeOK, IInv, [Next]_vars PROVE NoDuplicates'
    BY RangesStep
  <2>1. CASE UNCHANGED events
    BY <2>1 DEF NoDuplicates
  <2>2. CASE events' = EventsAfterChunk
    BY <2>2, ChunkKeepsUnique DEF NoDuplicates
  <2> QED
    BY <2>1, <2>2
       DEF Next, RoundStep, vars, storeVars, BeginRound, FetchTip, StopBeforeSource, LoadState,
           HashDiffers, StartScan, NothingToScan, StartChunk, StopBetweenChunks, FinishRound,
           GetLogs, SplitRange, CommitChunk, FlushEvents, FlushState, ChainStep, Fault, Stop,
           Restart
<1> QED
  BY <1>1, <1>2, TypeCorrect, PTL DEF Spec

-----------------------------------------------------------------------------
(* The round's copy of the hashes never drifts from the saved ones: between *)
(* the detection and the first commit it is the saved state rewound, after   *)
(* a commit it is what was saved.                                            *)
CopyInv ==
  /\ pc # "flush"
  /\ pc = "detect" => state = saved
  /\ pc \in {"chunk", "logs", "commit"} =>
       state.hashes = IF firstChunk THEN Rewind(saved, reorg).hashes ELSE saved.hashes

LEMMA CopyStep == AtomicStore /\ CopyInv /\ [Next]_vars => CopyInv'
<1> SUFFICES ASSUME AtomicStore, CopyInv, [Next]_vars PROVE CopyInv'
  OBVIOUS
<1> USE DEF Goto, CopyInv
<1>1. CASE EndRound
  BY <1>1 DEF EndRound
<1>2. CASE BeginRound \/ FetchTip
  BY <1>2 DEF BeginRound, FetchTip
<1>3. CASE LoadState
  <2>1. pc' = "detect" /\ state' = saved /\ saved' = saved
    BY <1>3 DEF LoadState, storeVars
  <2> QED
    BY <2>1
<1>4. CASE HashDiffers
  <2>1. pc = "detect" /\ pc' = "detect" /\ state' = state /\ saved' = saved
    BY <1>4 DEF HashDiffers, storeVars
  <2> QED
    BY <2>1
<1>5. CASE StartScan
  <2>1. state' = Rewind(saved, reorg) /\ saved' = saved /\ reorg' = reorg
    BY <1>5 DEF StartScan, storeVars
  <2>2. firstChunk' = TRUE /\ pc' = "chunk"
    BY <1>5 DEF StartScan
  <2>3. state'.hashes = Rewind(saved', reorg').hashes
    BY <2>1
  <2> QED
    BY <2>2, <2>3
<1>6. CASE StartChunk \/ GetLogs \/ SplitRange
  <2>1. UNCHANGED <<saved, state, reorg, firstChunk>> /\ pc' \in {"logs", "commit"}
        /\ pc \in {"chunk", "logs"}
    BY <1>6 DEF StartChunk, GetLogs, SplitRange, storeVars
  <2> QED
    BY <2>1 DEF Rewind
<1>7. CASE CommitChunk
  BY <1>7 DEF CommitChunk
<1>8. CASE FlushEvents \/ FlushState
  BY <1>8 DEF FlushEvents, FlushState
<1>9. CASE UNCHANGED <<saved, state, reorg, firstChunk, pc>>
  BY <1>9 DEF Rewind
<1> QED
  BY <1>1, <1>2, <1>3, <1>4, <1>5, <1>6, <1>7, <1>8, <1>9
     DEF Next, RoundStep, vars, storeVars, roundVars, StopBeforeSource, NothingToScan,
         StopBetweenChunks, FinishRound, ChainStep, Fault, Stop, Restart

LEMMA CoverStep ==
  AtomicStore /\ TypeOK /\ CopyInv /\ HashCover /\ [Next]_vars => HashCover'
<1> SUFFICES ASSUME AtomicStore, TypeOK, CopyInv, HashCover, [Next]_vars PROVE HashCover'
  OBVIOUS
<1>1. CASE UNCHANGED storeVars
  BY <1>1 DEF storeVars, HashCover
<1>2. CASE CommitChunk
  <2>1. /\ events' = EventsAfterChunk /\ saved' = StateAfterChunk
        /\ pruned' = Larger(pruned, Floor(ChunkEnd))
        /\ pc = "commit"
    BY <1>2 DEF CommitChunk
  <2>2. ChunkEnd \in Nat /\ Floor(ChunkEnd) \in Int /\ pruned \in Int
    BY HeightType, ChunkEndType, HashWindowType
       DEF Floor, TypeOK, RoundTypeOK, StoreTypeOK
  <2>3. pruned' >= pruned /\ pruned' >= Floor(ChunkEnd) /\ pruned' \in Int
    BY <2>1, <2>2 DEF Larger
  <2>4. \A h \in DOMAIN state.hashes \cup { l.block : l \in logs } :
          h >= Floor(ChunkEnd) => h \in DOMAIN StateAfterChunk.hashes
    BY StateAfterChunkFacts, HeightType DEF TypeOK, RoundTypeOK
  <2>5. ASSUME NEW e \in EventsAfterChunk, e.block >= pruned'
        PROVE  e.block \in DOMAIN StateAfterChunk.hashes
    <3>1. e.block \in Nat
      BY DEF EventsAfterChunk, Retained, NewEvents, TypeOK, StoreTypeOK, RoundTypeOK, Log
    <3>2. e.block >= Floor(ChunkEnd) /\ e.block >= pruned
      BY <2>2, <2>3, <2>5, <3>1
    <3>3. CASE e \in logs
      BY <2>4, <3>2, <3>3
    <3>4. CASE e \in Retained
      <4>1. e.block \in DOMAIN saved.hashes
        BY <3>2, <3>4 DEF Retained, HashCover
      <4>2. e.block \in DOMAIN state.hashes
        BY <2>1, <3>4, <4>1 DEF CopyInv, Rewind, Restrict, Retained
      <4> QED
        BY <2>4, <3>2, <4>2
    <3> QED
      BY <3>3, <3>4 DEF EventsAfterChunk, NewEvents
  <2> QED
    BY <2>1, <2>5 DEF HashCover
<1>3. CASE FlushEvents \/ FlushState
  BY <1>3 DEF FlushEvents, FlushState, CopyInv
<1> QED
  BY <1>1, <1>2, <1>3
     DEF Next, RoundStep, vars, BeginRound, FetchTip, StopBeforeSource, LoadState, HashDiffers,
         StartScan, NothingToScan, StartChunk, StopBetweenChunks, FinishRound, GetLogs,
         SplitRange, ChainStep, Fault, Stop, Restart

(* On Postgres, whatever the chain and its nodes do, a stored event never    *)
(* loses the recorded hash that lets a later round see it was orphaned,      *)
(* until pruneBlockHashes passes it by.                                      *)
THEOREM AlwaysCovered == ASSUME AtomicStore PROVE Spec => []HashCover
<1>1. Init => CopyInv /\ HashCover
  BY DEF Init, CopyInv, HashCover
<1> QED
  BY <1>1, CopyStep, CoverStep, TypeCorrect, PTL DEF Spec

-----------------------------------------------------------------------------
(* The environment in which the indexer promises to converge: nodes report  *)
(* the true head and may miss the logs of a lookback window at most; the     *)
(* chain reorganises between rounds, no deeper than a rescan from the lowest *)
(* recorded mismatch reaches; a chunk is longer than the lookback window;    *)
(* and the JSON adapter, whose two files a crash can part, meets no          *)
(* reorganisation.  (The code's MinHashWindow is 32.)                        *)
Orderly ==
  /\ MaxLag = 0 /\ ~MidRoundReorg
  /\ MissDepth =< Lookback
  /\ MaxReorgDepth =< Lookback + 2
  /\ ScanWindow > Lookback
  /\ MinHashWindow >= 1
  /\ AtomicStore \/ MaxFork = 0

(* l is a log of the chain as it is now. *)
On(l) ==
  /\ l.block \in 1..Height
  /\ l.id \in chain[l.block].logs
  /\ l.hash = chain[l.block].fork

(* A block is of no later fork than the chain, and a log is in one block. *)
ChainInv ==
  /\ fork =< MaxFork
  /\ \A h \in 1..Height : chain[h].fork =< fork
  /\ \A g, h \in 1..Height : chain[g].logs \cap chain[h].logs # {} => g = h

(* The store knows the chain below height d as it is, and of the rest only  *)
(* what has been dropped.                                                    *)
HashesKnow(d) ==
  \A h \in DOMAIN saved.hashes :
    /\ FromBlock =< h /\ h =< saved.cursor
    /\ saved.hashes[h] =< fork
    /\ saved.hashes[h] = HashAt(h) <=> h < d

EventsKnow(d) ==
  /\ \A e \in events :
       /\ FromBlock =< e.block /\ e.block =< Height
       /\ e.hash =< fork
       /\ On(e) <=> e.block < d
       /\ IF AtomicStore THEN e.block =< saved.cursor ELSE e.block < d
  /\ \A l \in Log :
       On(l) /\ FromBlock =< l.block /\ l.block =< saved.cursor - MissDepth /\ l.block < d
         => l \in events

(* How far the chain can have changed since the last commit: a rescan       *)
(* reaches below it and pruning has not passed it.                           *)
CursorKnows(d) ==
  /\ saved.cursor >= FromBlock - 1
  /\ saved.cursor >= FromBlock =>
       /\ saved.cursor =< Height
       /\ saved.cursor - Lookback - 1 =< d
       /\ \/ saved.cursor \in DOMAIN saved.hashes
          \/ saved.cursor < Height /\ saved.cursor - Lookback =< d
  /\ ~AtomicStore => saved.cursor < d
  /\ pruned =< Larger(Height, FromBlock - 1) - HashWindow
  /\ pruned =< Larger(d, FromBlock)

StoreKnows(d) == HashesKnow(d) /\ EventsKnow(d) /\ CursorKnows(d)

StoreInv == \E d \in Nat : StoreKnows(d)

(* detectReorg: what is compared already lies above what is not, and differs *)
(* at its lowest height.                                                     *)
DetectInv ==
  /\ state = saved
  /\ IF reorg = None
     THEN unchecked = DOMAIN saved.hashes
     ELSE /\ reorg \in DOMAIN saved.hashes
          /\ saved.hashes[reorg] # HashAt(reorg)
          /\ unchecked = { h \in DOMAIN saved.hashes : h < reorg }

Through == IF pc = "flush" THEN ChunkEnd ELSE chunkStart - 1

(* The scan: the events the first commit will keep are those of the chain,  *)
(* the hashes are the chain's, and what lies below the chunk is complete.    *)
KeptInv ==
  /\ \A e \in events : On(e) <=> e \in Retained
  /\ \A e \in Retained : FromBlock =< e.block /\ (AtomicStore => e.block =< state.cursor)
  /\ \A l \in Log :
       On(l) /\ FromBlock =< l.block /\ l.block =< Through /\ l.block =< latest - MissDepth
         => l \in Retained

CopyAgrees ==
  /\ \A h \in DOMAIN state.hashes :
       FromBlock =< h /\ h =< state.cursor /\ state.hashes[h] = HashAt(h)
  /\ FromBlock - 1 =< state.cursor /\ state.cursor =< latest

ChunkInv ==
  /\ FromBlock =< chunkStart
  /\ pc # "flush" => state.cursor =< chunkStart + ScanWindow - 1
  /\ pc \in {"logs", "commit", "flush"} \/ firstChunk => chunkStart =< latest
  /\ pc = "flush" =>
       /\ ~AtomicStore
       /\ state.cursor = ChunkEnd
       /\ ChunkEnd \in DOMAIN state.hashes \/ ChunkEnd < latest

(* getLogs: what is fetched is of the chain and in the chunk, and what is    *)
(* missing lies in a range still to fetch.                                   *)
FetchInv ==
  /\ \A l \in logs : On(l) /\ chunkStart =< l.block /\ l.block =< ChunkEnd
  /\ \A i \in 1..Len(ranges) : chunkStart =< ranges[i].from /\ ranges[i].to =< ChunkEnd
  /\ \A l \in Log :
       On(l) /\ chunkStart =< l.block /\ l.block =< ChunkEnd /\ l.block =< latest - MissDepth
         => \/ l \in logs
            \/ \E i \in 1..Len(ranges) : ranges[i].from =< l.block /\ l.block =< ranges[i].to
  /\ pc = "commit" => ranges = <<>>

Scanning == pc \in {"chunk", "logs", "commit", "flush"}

RoundInv ==
  /\ ~AtomicStore => reorg = None
  /\ pc # "idle" => saved.cursor =< Larger(latest, FromBlock - 1)
  /\ pc \notin {"idle", "tip"} => tip = HashAt(latest)
  /\ pc = "detect" => DetectInv
  /\ Scanning => KeptInv /\ CopyAgrees /\ ChunkInv
  /\ pc \in {"logs", "commit"} => FetchInv

IndexerInv == ChainInv /\ StoreInv /\ RoundInv

-----------------------------------------------------------------------------
LEMMA LeastOf ==
  ASSUME NEW T \in SUBSET Nat, T # {}
  PROVE  \E x \in T : \A y \in T : x =< y
<1> DEFINE Below == { ss \in Nat \X Nat : ss[1] < ss[2] }
<1>1. IsWellFoundedOn(Below, Nat)
  BY NatLessThanWellFounded DEF OpToRel
<1> HIDE DEF Below
<1>2. PICK x \in T : \A y \in T : ~ (<<y, x>> \in Below)
  BY <1>1, WFMin
<1>3. ASSUME NEW y \in T PROVE x =< y
  <2>1. <<y, x>> \in Nat \X Nat /\ <<y, x>>[1] = y /\ <<y, x>>[2] = x
    OBVIOUS
  <2>2. ~ (y < x)
    BY <1>2, <2>1 DEF Below
  <2> QED
    BY <2>2
<1> QED
  BY <1>3

LEMMA HighestOf ==
  ASSUME NEW n \in Nat, NEW S \in SUBSET (0..n), S # {}
  PROVE  \E m \in S : \A k \in S : k =< m
<1> DEFINE T == { n - k : k \in S }
<1>1. T \in SUBSET Nat /\ T # {}
  <2>1. \A k \in S : n - k \in Nat
    OBVIOUS
  <2> QED
    BY <2>1
<1>2. PICK x \in T : \A y \in T : x =< y
  <2> HIDE DEF T
  <2> QED
    BY <1>1, LeastOf
<1>4. PICK m \in S : x = n - m
  BY <1>2
<1>5. ASSUME NEW k \in S PROVE k =< m
  <2>1. n - m =< n - k
    BY <1>2, <1>4
  <2> QED
    BY <2>1
<1> QED
  BY <1>5

(* What a range of the chain holds, log by log. *)
LEMMA LogsBetweenAre ==
  ASSUME ChainTypeOK, NEW a \in Int, NEW b \in Int, NEW l
  PROVE  l \in LogsBetween(a, b) <=> l \in Log /\ On(l) /\ a =< l.block /\ l.block =< b
<1>1. Height \in Nat
  BY HeightType
<1>2. ASSUME l \in LogsBetween(a, b)
      PROVE  l \in Log /\ On(l) /\ a =< l.block /\ l.block =< b
  <2>1. PICK h \in (a..b) \cap (1..Height) :
          l \in { [id |-> i, block |-> h, hash |-> chain[h].fork] : i \in chain[h].logs }
    BY <1>2 DEF LogsBetween
  <2>2. PICK i \in chain[h].logs : l = [id |-> i, block |-> h, hash |-> chain[h].fork]
    BY <2>1
  <2>3. l.block = h /\ l.id = i /\ l.hash = chain[h].fork
    BY <2>2
  <2>4. l \in Log
    BY <1>2, LogsBetweenFacts
  <2> QED
    BY <2>1, <2>2, <2>3, <2>4 DEF On
<1>3. ASSUME l \in Log, On(l), a =< l.block, l.block =< b
      PROVE  l \in LogsBetween(a, b)
  <2>1. l = [id |-> l.id, block |-> l.block, hash |-> chain[l.block].fork]
    BY <1>3 DEF Log, On
  <2>2. l.block \in (a..b) \cap (1..Height)
    BY <1>3, <1>1 DEF On
  <2> DEFINE h == l.block
  <2>3. l \in { [id |-> i, block |-> h, hash |-> chain[h].fork] : i \in chain[h].logs }
    BY <1>3, <2>1 DEF On
  <2> HIDE DEF h
  <2> QED
    BY <2>2, <2>3 DEF LogsBetween, h
<1> QED
  BY <1>2, <1>3

LEMMA HashAtBound ==
  ASSUME ChainTypeOK, ChainInv, NEW h \in 0..Height
  PROVE  HashAt(h) =< fork
<1>1. CASE h = 0
  BY <1>1 DEF HashAt, ChainTypeOK
<1>2. CASE h # 0
  BY <1>2, HeightType DEF HashAt, ChainInv
<1> QED
  BY <1>1, <1>2

(* A new block changes nothing below it. *)
LEMMA MineFacts ==
  ASSUME ChainTypeOK, ChainInv, Mine
  PROVE  /\ Height' = Height + 1 /\ fork' = fork
         /\ ChainInv'
         /\ \A h \in 1..Height : chain'[h] = chain[h]
<1>0. Height \in Nat
  BY HeightType
<1>1. PICK new \in SUBSET (LogId \ OnChain) :
        chain' = Append(chain, [fork |-> fork, logs |-> new])
  BY DEF Mine
<1>2. fork' = fork
  BY DEF Mine
<1>3. /\ Height' = Height + 1
      /\ \A h \in 1..Height : chain'[h] = chain[h]
      /\ chain'[Height + 1] = [fork |-> fork, logs |-> new]
  BY <1>1 DEF ChainTypeOK, Height
<1>4. ASSUME NEW h \in 1..Height PROVE chain[h].logs \cap new = {}
  <2>1. SUFFICES ASSUME NEW i \in chain[h].logs PROVE i \in OnChain
    BY <1>1
  <2> DEFINE l == [id |-> i, block |-> h, hash |-> chain[h].fork]
  <2>2. chain[h] \in Block
    BY DEF ChainTypeOK, Height
  <2>3. l \in Log /\ On(l)
    BY <2>2, <1>0 DEF Log, On, Block
  <2>4. l \in LogsUpTo(Height)
    BY <1>0, <2>3, LogsBetweenAre DEF LogsUpTo
  <2>5. l.id = i
    OBVIOUS
  <2> HIDE DEF l
  <2> QED
    BY <2>4, <2>5 DEF OnChain
<1>5. \A h \in 1..Height' : chain'[h].fork =< fork'
  BY <1>0, <1>2, <1>3 DEF ChainInv, ChainTypeOK
<1>6. ASSUME NEW g \in 1..Height', NEW h \in 1..Height', chain'[g].logs \cap chain'[h].logs # {}
      PROVE  g = h
  <2>1. CASE g \in 1..Height /\ h \in 1..Height
    BY <1>3, <1>6, <2>1 DEF ChainInv
  <2>2. CASE g = Height + 1 /\ h \in 1..Height
    BY <1>3, <1>4, <1>6, <2>2
  <2>3. CASE g \in 1..Height /\ h = Height + 1
    BY <1>3, <1>4, <1>6, <2>3
  <2> QED
    BY <1>0, <1>3, <2>1, <2>2, <2>3
<1> QED
  BY <1>2, <1>3, <1>5, <1>6 DEF ChainInv

(* A reorganisation from height h on: below it nothing changes, above it     *)
(* every block is of the new fork.                                           *)
ForkedAt(h) ==
  /\ Height' = Height /\ fork' = fork + 1
  /\ \A i \in 1..Height : IF i < h THEN chain'[i] = chain[i] ELSE chain'[i].fork = fork'

LEMMA ReorgFacts ==
  ASSUME ChainTypeOK, ChainInv, Reorg
  PROVE  /\ fork < MaxFork
         /\ ChainInv'
         /\ \E h \in 1..Height : h > Height - MaxReorgDepth /\ ForkedAt(h)
<1>0. Height \in Nat /\ fork \in Nat /\ MaxFork \in Nat
  BY HeightType, ChainAssumption DEF ChainTypeOK
<1>1. PICK h \in 1..Height :
        /\ h > Height - MaxReorgDepth
        /\ LET kept == { l.id : l \in LogsUpTo(h - 1) }
           IN \E place \in [LogId \ kept -> (h..Height) \cup {0}] :
                chain' = [i \in 1..Height |->
                            IF i < h THEN chain[i]
                            ELSE [fork |-> fork + 1,
                                  logs |-> { l \in LogId \ kept : place[l] = i }]]
  BY DEF Reorg
<1> DEFINE kept == { l.id : l \in LogsUpTo(h - 1) }
<1>2. PICK place \in [LogId \ kept -> (h..Height) \cup {0}] :
        chain' = [i \in 1..Height |->
                    IF i < h THEN chain[i]
                    ELSE [fork |-> fork + 1,
                          logs |-> { l \in LogId \ kept : place[l] = i }]]
  BY <1>1
<1>3. ASSUME NEW i \in 1..Height, i < h PROVE chain[i].logs \subseteq kept
  <2>1. SUFFICES ASSUME NEW x \in chain[i].logs PROVE x \in kept
    OBVIOUS
  <2> DEFINE l == [id |-> x, block |-> i, hash |-> chain[i].fork]
  <2>2. chain[i] \in Block
    BY DEF ChainTypeOK, Height
  <2>3. l \in Log /\ On(l) /\ l.block = i /\ l.id = x
    BY <2>2, <1>0 DEF Log, On, Block
  <2> HIDE DEF l
  <2>4. h - 1 \in Int /\ 1 =< l.block /\ l.block =< h - 1
    BY <1>0, <1>3, <2>3
  <2>5. l \in LogsUpTo(h - 1)
    BY <2>3, <2>4, LogsBetweenAre DEF LogsUpTo
  <2> QED
    BY <2>3, <2>5
<1> HIDE DEF kept
<1>4. chain' \in [1..Height -> Block]
  <2>1. \A i \in 1..Height : chain[i] \in Block
    BY DEF ChainTypeOK, Height
  <2>2. \A i \in 1..Height :
          [fork |-> fork + 1, logs |-> { l \in LogId \ kept : place[l] = i }] \in Block
    BY <1>0 DEF Block
  <2> QED
    BY <1>2, <2>1, <2>2
<1>5. Height' = Height
  BY <1>0, <1>4 DEF Height
<1>6. fork' = fork + 1 /\ fork < MaxFork
  BY DEF Reorg
<1>7. \A i \in 1..Height :
        IF i < h THEN chain'[i] = chain[i]
        ELSE chain'[i].fork = fork + 1 /\ chain'[i].logs = { l \in LogId \ kept : place[l] = i }
  BY <1>2
<1>8. \A i \in 1..Height' : chain'[i].fork =< fork'
  <2>1. \A i \in 1..Height : chain[i] \in Block
    BY DEF ChainTypeOK, Height
  <2>2. \A i \in 1..Height : chain[i].fork \in Nat
    BY <2>1 DEF Block
  <2> QED
    BY <1>0, <1>5, <1>6, <1>7, <2>2 DEF ChainInv
<1>9. ASSUME NEW i \in 1..Height, NEW j \in 1..Height, chain'[i].logs \cap chain'[j].logs # {}
      PROVE  i = j
  <2>1. CASE i < h /\ j < h
    BY <1>7, <1>9, <2>1 DEF ChainInv
  <2>2. CASE ~(i < h) /\ ~(j < h)
    BY <1>7, <1>9, <2>2
  <2>3. CASE i < h /\ ~(j < h)
    BY <1>3, <1>7, <1>9, <2>3
  <2>4. CASE ~(i < h) /\ j < h
    BY <1>3, <1>7, <1>9, <2>4
  <2> QED
    BY <2>1, <2>2, <2>3, <2>4
<1>10. ForkedAt(h)
  BY <1>5, <1>6, <1>7 DEF ForkedAt
<1>11. ChainInv'
  BY <1>0, <1>5, <1>6, <1>8, <1>9 DEF ChainInv
<1> QED
  BY <1>1, <1>6, <1>10, <1>11

LEMMA Unmoved ==
  ASSUME ChainTypeOK, Height =< Height', Height' \in Nat,
         \A h \in 1..Height : chain'[h] = chain[h]
  PROVE  /\ \A h \in 0..Height : HashAt(h)' = HashAt(h)
         /\ \A l \in Log : l.block =< Height => (On(l)' <=> On(l))
<1>0. Height \in Nat
  BY HeightType
<1>1. \A h \in 0..Height : HashAt(h)' = HashAt(h)
  BY <1>0 DEF HashAt
<1>2. ASSUME NEW l \in Log, l.block =< Height PROVE On(l)' <=> On(l)
  <2>1. l.block \in 1..Height <=> l.block \in 1..Height'
    BY <1>0, <1>2 DEF Log
  <2> QED
    BY <2>1 DEF On
<1> QED
  BY <1>1, <1>2

LEMMA OnBounds ==
  ASSUME ChainTypeOK, ChainInv, NEW l \in Log, On(l)
  PROVE  l.block \in 1..Height /\ l.hash =< fork /\ l.hash = HashAt(l.block)
BY DEF On, ChainInv, HashAt

(* Two logs of the chain with one id are one log. *)
LEMMA OnUnique ==
  ASSUME ChainInv, NEW l \in Log, NEW m \in Log, On(l), On(m), l.id = m.id
  PROVE  l = m
<1>1. l.block = m.block
  BY DEF On, ChainInv
<1>2. l.hash = m.hash
  BY <1>1 DEF On
<1> QED
  BY <1>1, <1>2 DEF Log

-----------------------------------------------------------------------------
LEMMA StoreMine ==
  ASSUME TypeOK, ChainInv, Mine, UNCHANGED storeVars, NEW d \in Nat, StoreKnows(d)
  PROVE  StoreKnows(d)'
<1>0. Height \in Nat /\ HashWindow \in Nat /\ fork \in Nat
  BY HeightType, HashWindowType DEF TypeOK, ChainTypeOK
<1>1. /\ Height' = Height + 1 /\ fork' = fork
      /\ \A h \in 1..Height : chain'[h] = chain[h]
  BY MineFacts DEF TypeOK
<1>2. /\ \A h \in 0..Height : HashAt(h)' = HashAt(h)
      /\ \A l \in Log : l.block =< Height => (On(l)' <=> On(l))
  BY <1>0, <1>1, Unmoved DEF TypeOK
<1>3. events' = events /\ saved' = saved /\ pruned' = pruned
  BY DEF storeVars
<1>4. /\ saved.cursor \in Int /\ DOMAIN saved.hashes \subseteq Nat /\ pruned \in Int
      /\ events \subseteq Log
  BY DEF TypeOK, StoreTypeOK, StateOK
<1>5. saved.cursor =< Height \/ saved.cursor < FromBlock
  BY <1>4, IndexerAssumption DEF StoreKnows, CursorKnows
<1>6. HashesKnow(d)'
  <2>1. \A h \in DOMAIN saved.hashes : h \in 0..Height
    BY <1>0, <1>4, <1>5, IndexerAssumption DEF StoreKnows, HashesKnow
  <2> QED
    BY <1>1, <1>2, <1>3, <2>1 DEF StoreKnows, HashesKnow
<1>7. EventsKnow(d)'
  <2>1. ASSUME NEW e \in events
        PROVE  /\ FromBlock =< e.block /\ e.block =< Height'
               /\ e.hash =< fork'
               /\ On(e)' <=> e.block < d
               /\ IF AtomicStore THEN e.block =< saved'.cursor ELSE e.block < d
    <3>1. e \in Log /\ e.block \in Nat /\ e.block =< Height
      BY <1>4 DEF StoreKnows, EventsKnow, Log
    <3>2. On(e)' <=> On(e)
      BY <1>2, <3>1
    <3>3. e.block =< Height'
      BY <1>0, <1>1, <3>1
    <3> QED
      BY <1>1, <1>3, <3>2, <3>3 DEF StoreKnows, EventsKnow
  <2>2. ASSUME NEW l \in Log, On(l)', FromBlock =< l.block,
               l.block =< saved.cursor - MissDepth, l.block < d
        PROVE  l \in events
    <3>1. l.block =< Height
      BY <1>0, <1>4, <1>5, <2>2, IndexerAssumption DEF Log
    <3>2. On(l)
      BY <1>2, <2>2, <3>1
    <3> QED
      BY <2>2, <3>2 DEF StoreKnows, EventsKnow
  <2> QED
    BY <1>3, <2>1, <2>2 DEF EventsKnow
<1>8. CursorKnows(d)'
  BY <1>0, <1>1, <1>3, <1>4, IndexerAssumption DEF StoreKnows, CursorKnows, Larger
<1> QED
  BY <1>6, <1>7, <1>8 DEF StoreKnows

(* A reorganisation lowers the height up to which the store knows the chain, *)
(* and not below what the next round rescans.                                *)
LEMMA StoreReorg ==
  ASSUME Orderly, TypeOK, ChainInv, UNCHANGED storeVars, NEW d \in Nat, StoreKnows(d),
         fork < MaxFork, NEW h \in 1..Height, h > Height - MaxReorgDepth, ForkedAt(h)
  PROVE  StoreKnows(IF h < d THEN h ELSE d)'
<1> DEFINE k == IF h < d THEN h ELSE d
<1>0. Height \in Nat /\ HashWindow \in Nat /\ fork \in Nat /\ MaxFork \in Nat
  BY HeightType, HashWindowType, ChainAssumption DEF TypeOK, ChainTypeOK
<1>a. AtomicStore
  BY <1>0 DEF Orderly
<1>1. /\ Height' = Height /\ fork' = fork + 1
      /\ \A i \in 1..Height : IF i < h THEN chain'[i] = chain[i] ELSE chain'[i].fork = fork'
  BY DEF ForkedAt
<1>3. events' = events /\ saved' = saved /\ pruned' = pruned
  BY DEF storeVars
<1>4. /\ saved.cursor \in Int /\ DOMAIN saved.hashes \subseteq Nat /\ pruned \in Int
      /\ events \subseteq Log
      /\ \A i \in DOMAIN saved.hashes : saved.hashes[i] \in Nat
  BY DEF TypeOK, StoreTypeOK, StateOK
<1>5. saved.cursor =< Height \/ saved.cursor < FromBlock
  BY <1>4, IndexerAssumption DEF StoreKnows, CursorKnows
<1>k. k \in Nat /\ k =< d /\ k =< h /\ (k = d \/ k = h)
  BY <1>0
<1> HIDE DEF k
<1>6. HashesKnow(k)'
  <2>1. ASSUME NEW i \in DOMAIN saved.hashes
        PROVE  /\ FromBlock =< i /\ i =< saved.cursor
               /\ saved.hashes[i] =< fork'
               /\ saved.hashes[i] = HashAt(i)' <=> i < k
    <3>1. i \in 0..Height /\ saved.hashes[i] \in Nat /\ saved.hashes[i] =< fork
      BY <1>0, <1>4, <1>5, IndexerAssumption DEF StoreKnows, HashesKnow
    <3>2. saved.hashes[i] = HashAt(i) <=> i < d
      BY DEF StoreKnows, HashesKnow
    <3>3. CASE i < h
      <4>1. HashAt(i)' = HashAt(i)
        BY <1>1, <3>1, <3>3 DEF HashAt
      <4>2. i < d <=> i < k
        BY <1>k, <3>1, <3>3
      <4> QED
        BY <1>0, <1>1, <3>1, <3>2, <4>1, <4>2 DEF StoreKnows, HashesKnow
    <3>4. CASE ~(i < h)
      <4>1. HashAt(i)' = fork + 1
        BY <1>1, <3>1, <3>4 DEF HashAt
      <4>2. ~(i < k)
        BY <1>k, <3>1, <3>4
      <4> QED
        BY <1>0, <1>1, <3>1, <4>1, <4>2 DEF StoreKnows, HashesKnow
    <3> QED
      BY <3>3, <3>4
  <2> QED
    BY <1>3, <2>1 DEF HashesKnow
<1>7. EventsKnow(k)'
  <2>1. ASSUME NEW l \in Log, l.block \in 1..Height, l.block < h
        PROVE  On(l)' <=> On(l)
    BY <1>1, <2>1 DEF On
  <2>2. ASSUME NEW e \in events
        PROVE  /\ FromBlock =< e.block /\ e.block =< Height'
               /\ e.hash =< fork'
               /\ On(e)' <=> e.block < k
               /\ IF AtomicStore THEN e.block =< saved'.cursor ELSE e.block < k
    <3>1. /\ e \in Log /\ e.block \in Nat /\ e.hash \in Nat
          /\ e.block =< Height /\ e.hash =< fork /\ FromBlock =< e.block
          /\ (On(e) <=> e.block < d) /\ e.block =< saved.cursor
      BY <1>a, <1>4 DEF StoreKnows, EventsKnow, Log
    <3>2. CASE e.block < h /\ e.block > 0
      <4>1. On(e)' <=> On(e)
        BY <1>0, <2>1, <3>1, <3>2
      <4> QED
        BY <1>a, <1>0, <1>1, <1>3, <1>k, <3>1, <3>2, <4>1
    <3>3. CASE ~(e.block < h)
      <4>1. ~ On(e)'
        BY <1>0, <1>1, <3>1, <3>3 DEF On
      <4> QED
        BY <1>a, <1>0, <1>1, <1>3, <1>k, <3>1, <3>3, <4>1
    <3>4. CASE e.block = 0
      <4>1. ~ On(e)' /\ ~ On(e)
        BY <3>4 DEF On
      <4> QED
        BY <1>a, <1>0, <1>1, <1>3, <1>k, <3>1, <3>4, <4>1
    <3> QED
      BY <3>1, <3>2, <3>3, <3>4
  <2>3. ASSUME NEW l \in Log, On(l)', FromBlock =< l.block,
               l.block =< saved.cursor - MissDepth, l.block < k
        PROVE  l \in events
    <3>1. l.block \in 1..Height /\ l.block < h /\ l.block < d
      BY <1>0, <1>1, <1>k, <2>3 DEF On
    <3> QED
      BY <2>1, <2>3, <3>1 DEF StoreKnows, EventsKnow
  <2> QED
    BY <1>3, <2>2, <2>3 DEF EventsKnow
<1>8. CursorKnows(k)'
  <2>1. Height - Lookback - 1 =< h /\ Height - HashWindow =< h
    BY <1>0, IndexerAssumption, ChainAssumption DEF Orderly, HashWindow
  <2>2. pruned =< Larger(k, FromBlock)
    BY <1>0, <1>4, <1>k, <2>1, IndexerAssumption DEF StoreKnows, CursorKnows, Larger
  <2>3. saved.cursor >= FromBlock =>
          /\ saved.cursor - Lookback - 1 =< k
          /\ \/ saved.cursor \in DOMAIN saved.hashes
             \/ saved.cursor < Height /\ saved.cursor - Lookback =< k
    BY <1>0, <1>4, <1>k, <2>1, IndexerAssumption DEF StoreKnows, CursorKnows
  <2> QED
    BY <1>a, <1>1, <1>3, <2>2, <2>3 DEF StoreKnows, CursorKnows
<1> QED
  BY <1>6, <1>7, <1>8 DEF StoreKnows, k

LEMMA StoreStay ==
  ASSUME UNCHANGED <<chainVars, storeVars>>, StoreInv
  PROVE  StoreInv'
<1>1. PICK d \in Nat : StoreKnows(d)
  BY DEF StoreInv
<1>2. chain' = chain /\ fork' = fork /\ events' = events /\ saved' = saved /\ pruned' = pruned
  BY DEF chainVars, storeVars
<1>3. HashesKnow(d)'
  BY <1>1, <1>2 DEF StoreKnows, HashesKnow, HashAt
<1>4. EventsKnow(d)'
  <2>1. Height' = Height /\ \A l : On(l)' <=> On(l)
    BY <1>2 DEF On, Height
  <2> QED
    BY <1>1, <1>2, <2>1 DEF StoreKnows, EventsKnow
<1>5. CursorKnows(d)'
  BY <1>1, <1>2 DEF StoreKnows, CursorKnows, Height
<1> QED
  BY <1>3, <1>4, <1>5 DEF StoreKnows, StoreInv

(* A committed chunk: the store knows the whole chain again. *)
LEMMA StoreCommit ==
  ASSUME TypeOK', ChainInv', KeptInv', CopyAgrees', saved' = state', pc' = "chunk",
         firstChunk' = FALSE, chunkStart' = state'.cursor + 1, FromBlock =< state'.cursor,
         state'.cursor \in DOMAIN state'.hashes \/ state'.cursor < latest',
         pruned' + HashWindow =< Height' \/ pruned' + HashWindow =< FromBlock - 1
  PROVE  StoreInv'
<1>0. PICK H \in Nat : Height' = H
  BY DEF TypeOK, ChainTypeOK, Height
<1>1. PICK c \in Int, p \in Int, t \in 0..H : state'.cursor = c /\ pruned' = p /\ latest' = t
  BY <1>0 DEF TypeOK, RoundTypeOK, StoreTypeOK, StateOK
<1>t. events' \subseteq Log /\ DOMAIN state'.hashes \subseteq Nat
  BY DEF TypeOK, RoundTypeOK, StoreTypeOK, StateOK
<1>2. /\ FromBlock \in Nat /\ MissDepth \in Nat /\ Lookback \in Nat /\ AtomicStore \in BOOLEAN
      /\ HashWindow \in Nat
  BY IndexerAssumption, HashWindowType
<1> DEFINE d == H + 1
<1>3. d \in Nat /\ d = H + 1
  OBVIOUS
<1> HIDE DEF d
<1>4. Retained' = events'
  BY DEF Retained
<1>5. \A l \in Log : On(l)' => l.block \in 1..Height' /\ l.hash =< fork'
  BY DEF On, ChainInv
<1>6. c =< t /\ FromBlock - 1 =< c
  BY <1>1 DEF CopyAgrees
<1>7. HashesKnow(d)'
  <2>1. ASSUME NEW h \in DOMAIN state'.hashes
        PROVE  /\ FromBlock =< h /\ h =< state'.cursor
               /\ state'.hashes[h] =< fork'
               /\ state'.hashes[h] = HashAt(h)' <=> h < d
    <3>1. FromBlock =< h /\ h =< state'.cursor /\ state'.hashes[h] = HashAt(h)'
      BY DEF CopyAgrees
    <3>2. h \in 0..Height' /\ h < d
      BY <1>0, <1>1, <1>t, <1>2, <1>3, <1>6, <3>1
    <3>3. HashAt(h)' =< fork'
      BY <1>0, <3>2 DEF HashAt, ChainInv, TypeOK, ChainTypeOK
    <3> QED
      BY <3>1, <3>2, <3>3
  <2> QED
    BY <2>1 DEF HashesKnow
<1>8. EventsKnow(d)'
  <2>1. ASSUME NEW e \in events'
        PROVE  /\ FromBlock =< e.block /\ e.block =< Height'
               /\ e.hash =< fork'
               /\ On(e)' <=> e.block < d
               /\ IF AtomicStore THEN e.block =< saved'.cursor ELSE e.block < d
    <3>1. e \in Log /\ On(e)' /\ FromBlock =< e.block
          /\ (AtomicStore => e.block =< state'.cursor)
      BY <1>t, <1>4 DEF KeptInv
    <3>2. e.block \in 1..Height' /\ e.hash =< fork'
      BY <1>5, <3>1
    <3> QED
      BY <1>0, <1>3, <3>1, <3>2
  <2>2. ASSUME NEW l \in Log, On(l)', FromBlock =< l.block, l.block =< saved'.cursor - MissDepth
        PROVE  l \in events'
    <3>1. l.block \in Nat
      BY DEF Log
    <3>2. l.block =< chunkStart' - 1 /\ l.block =< latest' - MissDepth
      BY <1>1, <1>2, <1>6, <2>2, <3>1
    <3>3. Through' = chunkStart' - 1
      BY DEF Through
    <3> QED
      BY <1>4, <2>2, <3>2, <3>3 DEF KeptInv
  <2> QED
    BY <2>1, <2>2 DEF EventsKnow
<1>9. CursorKnows(d)'
  <2>1. c =< H /\ c < d /\ c - Lookback =< d /\ c - Lookback - 1 =< d
    BY <1>1, <1>2, <1>3, <1>6
  <2>2. c \in DOMAIN state'.hashes \/ c < H
    BY <1>1
  <2>3. p + HashWindow =< H \/ p + HashWindow =< FromBlock - 1
    BY <1>0, <1>1
  <2>4. p =< Larger(d, FromBlock) /\ p =< Larger(H, FromBlock - 1) - HashWindow
    BY <1>1, <1>2, <1>3, <2>3 DEF Larger
  <2> QED
    BY <1>0, <1>1, <1>6, <2>1, <2>2, <2>4 DEF CursorKnows
<1> QED
  BY <1>3, <1>7, <1>8, <1>9 DEF StoreKnows, StoreInv

-----------------------------------------------------------------------------
(* What a chunk leaves, whichever adapter writes it. *)
LEMMA ChunkLeaves ==
  ASSUME TypeOK, ChainInv, KeptInv, CopyAgrees, ChunkInv, FetchInv, pc = "commit",
         tip = HashAt(latest)
  PROVE  /\ chunkStart =< ChunkEnd /\ ChunkEnd =< latest
         /\ StateAfterChunk.cursor = ChunkEnd
         /\ \A h \in DOMAIN StateAfterChunk.hashes :
              /\ FromBlock =< h /\ h =< ChunkEnd
              /\ StateAfterChunk.hashes[h] = HashAt(h)
         /\ ChunkEnd \in DOMAIN StateAfterChunk.hashes \/ ChunkEnd < latest
         /\ \A e \in EventsAfterChunk :
              On(e) /\ FromBlock =< e.block /\ (AtomicStore => e.block =< ChunkEnd)
         /\ \A l \in Log :
              On(l) /\ FromBlock =< l.block /\ l.block =< ChunkEnd /\ l.block =< latest - MissDepth
                => l \in EventsAfterChunk
<1>0. /\ Height \in Nat /\ HashWindow \in Nat
      /\ chunkStart \in Nat /\ latest \in 0..Height /\ latest \in Nat
      /\ state.cursor \in Int /\ DOMAIN state.hashes \subseteq Nat
      /\ FromBlock \in Nat /\ ScanWindow \in Nat \ {0} /\ MissDepth \in Nat
      /\ logs \subseteq Log /\ events \subseteq Log
  BY HeightType, HashWindowType, IndexerAssumption
     DEF TypeOK, RoundTypeOK, StoreTypeOK, StateOK
<1>1. chunkStart =< ChunkEnd /\ ChunkEnd =< latest /\ ChunkEnd \in Nat
  BY <1>0 DEF ChunkInv, ChunkEnd
<1>2. state.cursor =< ChunkEnd
  BY <1>0 DEF ChunkInv, ChunkEnd, CopyAgrees
<1>3. FromBlock =< chunkStart
  BY DEF ChunkInv
<1>4. \A l \in logs :
        /\ l \in Log /\ l.block \in Nat /\ On(l)
        /\ chunkStart =< l.block /\ l.block =< ChunkEnd /\ l.hash = HashAt(l.block)
  <2>1. \A l \in logs : l \in Log /\ l.block \in Nat
    BY <1>0 DEF Log
  <2>2. \A l \in logs : On(l) /\ chunkStart =< l.block /\ l.block =< ChunkEnd
    BY DEF FetchInv
  <2> QED
    BY <2>1, <2>2, OnBounds DEF TypeOK
<1> DEFINE R == Record(state.hashes, logs)
           T == RecordTip(R)
<1>5. ASSUME NEW h \in DOMAIN R
      PROVE  FromBlock =< h /\ h =< ChunkEnd /\ R[h] = HashAt(h)
  <2>1. DOMAIN R = DOMAIN state.hashes \cup { l.block : l \in logs }
    BY DEF Record
  <2>2. CASE \E l \in logs : l.block = h
    <3>1. (CHOOSE l \in logs : l.block = h) \in logs /\ (CHOOSE l \in logs : l.block = h).block = h
      BY <2>2
    <3>2. R[h] = (CHOOSE l \in logs : l.block = h).hash
      BY <2>1, <2>2, <1>5 DEF Record
    <3> QED
      BY <1>0, <1>1, <1>3, <1>4, <3>1, <3>2
  <2>3. CASE ~ \E l \in logs : l.block = h
    <3>1. h \in DOMAIN state.hashes
      BY <1>5, <2>1, <2>3
    <3>2. R[h] = state.hashes[h]
      BY <1>5, <2>1, <2>3 DEF Record
    <3> QED
      BY <1>0, <1>1, <1>2, <3>1, <3>2 DEF CopyAgrees
  <2> QED
    BY <2>2, <2>3
<1>6. /\ \A h \in DOMAIN T : FromBlock =< h /\ h =< ChunkEnd /\ T[h] = HashAt(h)
      /\ ChunkEnd \in DOMAIN T \/ ChunkEnd < latest
  <2>1. CASE ChunkEnd = latest
    <3>1. DOMAIN T = DOMAIN R \cup {latest}
          /\ \A h \in DOMAIN T : T[h] = IF h = latest THEN tip ELSE R[h]
      BY <2>1 DEF RecordTip
    <3> HIDE DEF T, R
    <3> QED
      BY <1>0, <1>1, <1>3, <1>5, <2>1, <3>1
  <2>2. CASE ChunkEnd # latest
    <3>1. T = R
      BY <2>2 DEF RecordTip
    <3> HIDE DEF T, R
    <3> QED
      BY <1>0, <1>1, <1>5, <2>2, <3>1
  <2> QED
    BY <2>1, <2>2
<1>7. /\ StateAfterChunk.cursor = ChunkEnd
      /\ StateAfterChunk.hashes = [h \in { i \in DOMAIN T : i >= Floor(ChunkEnd) } |-> T[h]]
  BY DEF StateAfterChunk, PruneBlockHashes, Restrict
<1> HIDE DEF R, T
<1>8. ChunkEnd >= Floor(ChunkEnd)
  BY <1>0, <1>1 DEF Floor
<1>9. ASSUME NEW e \in EventsAfterChunk
      PROVE  On(e) /\ FromBlock =< e.block /\ (AtomicStore => e.block =< ChunkEnd)
  <2>1. CASE e \in Retained
    <3>1. e \in events
      BY <2>1 DEF Retained
    <3>2. e \in Log /\ e.block \in Nat
      BY <1>0, <3>1 DEF Log
    <3> QED
      BY <1>0, <1>1, <1>2, <2>1, <3>1, <3>2 DEF KeptInv
  <2>2. CASE e \in logs
    BY <1>0, <1>1, <1>3, <1>4, <2>2
  <2> QED
    BY <2>1, <2>2 DEF EventsAfterChunk, NewEvents
<1>10. ASSUME NEW l \in Log, On(l), FromBlock =< l.block, l.block =< ChunkEnd,
              l.block =< latest - MissDepth
       PROVE  l \in EventsAfterChunk
  <2>0. l.block \in Nat
    BY DEF Log
  <2>1. CASE l.block < chunkStart
    <3>1. Through = chunkStart - 1 /\ l.block =< chunkStart - 1
      BY <1>0, <2>0, <2>1 DEF Through
    <3> QED
      BY <1>10, <3>1 DEF KeptInv, EventsAfterChunk
  <2>2. CASE ~(l.block < chunkStart)
    <3>1. chunkStart =< l.block /\ ranges = <<>>
      BY <1>0, <2>0, <2>2 DEF FetchInv
    <3>2. l \in logs
      BY <1>10, <3>1 DEF FetchInv
    <3>3. \A m \in logs : m.id = l.id => m = l
      BY <1>4, <1>10, OnUnique
    <3>4. CASE l.id \in Ids(Retained)
      <4>1. PICK e \in Retained : e.id = l.id
        BY <3>4 DEF Ids
      <4>2. e \in events /\ e \in Log /\ On(e)
        BY <1>0, <4>1 DEF Retained, KeptInv
      <4>3. e = l
        BY <1>10, <4>1, <4>2, OnUnique
      <4> QED
        BY <4>1, <4>3 DEF EventsAfterChunk
    <3>5. CASE l.id \notin Ids(Retained)
      <4>1. \A m \in logs : m.id = l.id => l.block =< m.block
        BY <2>0, <3>3
      <4>2. l \in NewEvents(Retained, logs)
        BY <3>2, <3>5, <4>1 DEF NewEvents
      <4> QED
        BY <4>2 DEF EventsAfterChunk
    <3> QED
      BY <3>4, <3>5
  <2> QED
    BY <2>1, <2>2
<1> QED
  BY <1>1, <1>6, <1>7, <1>8, <1>9, <1>10

-----------------------------------------------------------------------------
(* The parts of RoundInv that a step leaves alone when it leaves what they  *)
(* read alone.                                                               *)
LEMMA ScanStays ==
  ASSUME UNCHANGED <<chainVars, storeVars, latest, state, reorg, chunkStart, firstChunk>>,
         pc # "flush", pc' # "flush"
  PROVE  /\ KeptInv => KeptInv'
         /\ CopyAgrees => CopyAgrees'
<1>1. Height' = Height /\ (\A l : On(l)' <=> On(l)) /\ (\A h : HashAt(h)' = HashAt(h))
  BY DEF On, Height, HashAt, chainVars
<1>2. Retained' = Retained /\ Through' = Through /\ events' = events
  BY DEF Retained, Through, storeVars
<1> QED
  BY <1>1, <1>2 DEF KeptInv, CopyAgrees

(* LoadState, HashDiffers: the walk of detectReorg. *)
LEMMA LoadStateStep ==
  ASSUME TypeOK, IndexerInv, LoadState
  PROVE  RoundInv'
<1>0. /\ latest \in Nat /\ saved.cursor \in Int /\ DOMAIN saved.hashes \subseteq Nat
      /\ FromBlock \in Nat
  BY HeightType, IndexerAssumption DEF TypeOK, RoundTypeOK, StoreTypeOK, StateOK
<1>1. PICK d \in Nat : StoreKnows(d)
  BY DEF IndexerInv, StoreInv
<1>2. /\ saved' = saved /\ state' = saved /\ reorg' = None /\ pc' = "detect" /\ pc = "load"
      /\ unchecked' = HeightsToCheck(saved, latest)
      /\ latest' = latest /\ tip' = tip /\ chain' = chain
  BY DEF LoadState, Goto, storeVars, chainVars
<1>3. saved.cursor =< Larger(latest, FromBlock - 1) /\ tip = HashAt(latest)
  BY <1>2 DEF IndexerInv, RoundInv
<1>4. HeightsToCheck(saved, latest) = DOMAIN saved.hashes
  <2>1. ASSUME NEW h \in DOMAIN saved.hashes PROVE h =< latest /\ h =< saved.cursor
    BY <1>0, <1>1, <1>3 DEF StoreKnows, HashesKnow, Larger
  <2> QED
    BY <2>1 DEF HeightsToCheck
<1>5. DetectInv'
  BY <1>2, <1>4 DEF DetectInv
<1>6. tip' = HashAt(latest)'
  BY <1>2, <1>3 DEF HashAt
<1> QED
  BY <1>2, <1>3, <1>5, <1>6 DEF RoundInv, Scanning

LEMMA HashDiffersStep ==
  ASSUME Orderly, TypeOK, IndexerInv, HashDiffers
  PROVE  RoundInv'
<1>0. /\ DOMAIN saved.hashes \subseteq Nat /\ saved.cursor \in Int
  BY DEF TypeOK, StoreTypeOK, StateOK
<1>1. PICK d \in Nat : StoreKnows(d)
  BY DEF IndexerInv, StoreInv
<1>2. PICK h \in unchecked :
        /\ NextToCheck(h) /\ state.hashes[h] # HashAt(h)
        /\ reorg' = h /\ unchecked' = unchecked \ {h}
  BY DEF HashDiffers
<1>3. /\ saved' = saved /\ state' = state /\ pc' = "detect" /\ pc = "detect"
      /\ latest' = latest /\ tip' = tip /\ chain' = chain
  BY DEF HashDiffers, storeVars, chainVars
<1>4. DetectInv /\ saved.cursor =< Larger(latest, FromBlock - 1) /\ tip = HashAt(latest)
  BY <1>3 DEF IndexerInv, RoundInv
<1>5. h \in DOMAIN saved.hashes /\ saved.hashes[h] # HashAt(h)
  BY <1>2, <1>4 DEF DetectInv
<1>6. AtomicStore
  <2>1. h =< saved.cursor /\ ~(h < d)
    BY <1>1, <1>5 DEF StoreKnows, HashesKnow
  <2>2. ~(saved.cursor < d)
    BY <1>0, <1>5, <2>1
  <2> QED
    BY <1>1, <2>2, IndexerAssumption DEF StoreKnows, CursorKnows
<1>7. unchecked \ {h} = { i \in DOMAIN saved.hashes : i < h }
  <2>1. \A i \in unchecked : i \in DOMAIN saved.hashes /\ i =< h
    BY <1>2, <1>4 DEF DetectInv, NextToCheck
  <2>2. \A i \in DOMAIN saved.hashes : i < h => i \in unchecked
    BY <1>0, <1>2, <1>4, <1>5 DEF DetectInv
  <2> QED
    BY <1>0, <1>5, <2>1, <2>2
<1>8. h # None
  BY <1>0, <1>5 DEF None
<1>9. HashAt(h)' = HashAt(h) /\ HashAt(latest)' = HashAt(latest)
  BY <1>3 DEF HashAt
<1>10. DetectInv'
  BY <1>2, <1>3, <1>4, <1>5, <1>7, <1>8, <1>9 DEF DetectInv
<1> QED
  BY <1>3, <1>4, <1>6, <1>9, <1>10 DEF RoundInv, Scanning

(* StartScan: the rewound state agrees with the chain, the events the first *)
(* commit keeps are the chain's, and nothing is missing below the rescan.    *)
LEMMA DetectedFacts ==
  ASSUME TypeOK, IndexerInv, pc = "detect", Detected, NEW d \in Nat, StoreKnows(d)
  PROVE  /\ \A h \in unchecked : h < d
         /\ reorg = None => \A h \in DOMAIN saved.hashes : h < d
         /\ reorg # None => reorg \in DOMAIN saved.hashes /\ d =< reorg
         /\ reorg # None => \A h \in DOMAIN saved.hashes : h < reorg => h < d
<1>0. /\ DOMAIN saved.hashes \subseteq Nat /\ Height \in Nat
      /\ unchecked \subseteq 0..Height
  BY HeightType DEF TypeOK, StoreTypeOK, StateOK, RoundTypeOK
<1>1. DetectInv
  BY DEF IndexerInv, RoundInv
<1>2. \A h \in DOMAIN saved.hashes : saved.hashes[h] = HashAt(h) <=> h < d
  BY DEF StoreKnows, HashesKnow
<1>3. ASSUME NEW h \in unchecked PROVE h < d
  <2>1. PICK m \in unchecked : \A i \in unchecked : i =< m
    BY <1>0, <1>3, HighestOf
  <2>2. saved.hashes[m] = HashAt(m) /\ m \in DOMAIN saved.hashes
    BY <1>1, <2>1 DEF Detected, NextToCheck, DetectInv
  <2>3. m < d /\ h =< m
    BY <1>2, <2>1, <2>2
  <2> QED
    BY <1>0, <2>3
<1>4. CASE reorg = None
  BY <1>1, <1>3, <1>4 DEF DetectInv
<1>5. CASE reorg # None
  <2>1. reorg \in DOMAIN saved.hashes /\ ~(reorg < d)
    BY <1>1, <1>2, <1>5 DEF DetectInv
  <2>2. d =< reorg
    BY <1>0, <2>1
  <2>3. \A h \in DOMAIN saved.hashes : h < reorg => h \in unchecked
    BY <1>1, <1>5 DEF DetectInv
  <2> QED
    BY <1>3, <1>5, <2>1, <2>2, <2>3
<1> QED
  BY <1>3, <1>4, <1>5

LEMMA StartScanStep ==
  ASSUME Orderly, TypeOK, HashCover \/ ~AtomicStore, IndexerInv, StartScan
  PROVE  RoundInv'
<1>0. /\ DOMAIN saved.hashes \subseteq Nat /\ saved.cursor \in Int /\ Height \in Nat
      /\ latest \in Nat /\ latest =< Height /\ pruned \in Int /\ events \subseteq Log
      /\ FromBlock \in Nat /\ Lookback \in Nat /\ MissDepth \in Nat /\ ScanWindow \in Nat
      /\ AtomicStore \in BOOLEAN
  BY HeightType, IndexerAssumption DEF TypeOK, StoreTypeOK, StateOK, RoundTypeOK
<1>o. MissDepth =< Lookback /\ ScanWindow > Lookback
  BY DEF Orderly
<1>1. PICK d \in Nat : StoreKnows(d)
  BY DEF IndexerInv, StoreInv
<1>2. pc = "detect" /\ Detected
  BY DEF StartScan
<1>3. /\ \A h \in unchecked : h < d
      /\ reorg = None => \A h \in DOMAIN saved.hashes : h < d
      /\ reorg # None => reorg \in DOMAIN saved.hashes /\ d =< reorg
      /\ reorg # None => \A h \in DOMAIN saved.hashes : h < reorg => h < d
  BY <1>1, <1>2, DetectedFacts
<1>4. /\ DetectInv /\ saved.cursor =< Larger(latest, FromBlock - 1) /\ tip = HashAt(latest)
      /\ ~AtomicStore => reorg = None
  BY <1>2 DEF IndexerInv, RoundInv
<1>5. state = saved
  BY <1>4 DEF DetectInv
<1>6. /\ HashesKnow(d) /\ EventsKnow(d) /\ CursorKnows(d)
  BY <1>1 DEF StoreKnows
<1> DEFINE st == Rewind(saved, reorg)
           c  == st.cursor
<1>7. /\ state' = st /\ chunkStart' = ScanFrom(st) /\ ScanFrom(st) =< latest
      /\ firstChunk' = TRUE /\ pc' = "chunk"
      /\ reorg' = reorg /\ events' = events /\ saved' = saved /\ latest' = latest /\ tip' = tip
      /\ chain' = chain
  BY <1>5 DEF StartScan, Goto, storeVars, chainVars
<1>8. /\ c \in Int /\ FromBlock - 1 =< c /\ c =< saved.cursor
      /\ reorg # None => c = reorg - 1 \/ c = FromBlock - 1
      /\ reorg = None => c = saved.cursor
      /\ reorg # None => c >= reorg - 1
      /\ reorg # None => reorg \in Nat /\ FromBlock =< reorg /\ reorg =< saved.cursor
  <2>1. reorg # None => reorg \in Nat /\ FromBlock =< reorg /\ reorg =< saved.cursor
    BY <1>0, <1>3, <1>6 DEF HashesKnow
  <2>2. FromBlock - 1 =< saved.cursor
    BY <1>6 DEF CursorKnows
  <2>3. c = IF reorg = None THEN saved.cursor ELSE Larger(FromBlock - 1, reorg - 1)
    BY DEF Rewind
  <2> HIDE DEF c
  <2> QED
    BY <1>0, <2>1, <2>2, <2>3 DEF Larger
<1>9. /\ \A h \in DOMAIN st.hashes : h \in DOMAIN saved.hashes /\ st.hashes[h] = saved.hashes[h]
      /\ reorg # None => \A h \in DOMAIN st.hashes : h < reorg
  BY DEF Rewind, Restrict
<1>10. chunkStart' = Larger(FromBlock, c - Lookback)
  BY <1>7 DEF ScanFrom
<1> HIDE DEF st, c
<1>11. ASSUME NEW h \in DOMAIN st.hashes
       PROVE  FromBlock =< h /\ h =< c /\ st.hashes[h] = HashAt(h)
  <2>1. h \in Nat /\ FromBlock =< h /\ h =< saved.cursor /\ h < d
    BY <1>0, <1>3, <1>6, <1>9 DEF HashesKnow
  <2>2. h =< c
    BY <1>8, <1>9, <2>1
  <2> QED
    BY <1>6, <1>9, <2>1, <2>2 DEF HashesKnow
<1>12. c =< latest
  <2>1. CASE saved.cursor =< latest
    BY <1>0, <1>8, <2>1
  <2>2. CASE saved.cursor =< FromBlock - 1
    <3>1. ScanFrom(st) >= FromBlock /\ ScanFrom(st) \in Int
      BY <1>0, <1>8 DEF ScanFrom, Larger, c
    <3> QED
      BY <1>0, <1>7, <1>8, <2>2, <3>1
  <2> QED
    BY <1>0, <1>4, <2>1, <2>2 DEF Larger
(* A rescan reaches below the height where the chain changed. *)
<1>13. c - Lookback =< d \/ c < FromBlock
  <2>1. CASE reorg # None
    BY <1>0, <1>6, <1>8, <2>1 DEF CursorKnows
  <2>2. CASE reorg = None
    BY <1>0, <1>3, <1>6, <1>8, <2>2 DEF CursorKnows
  <2> QED
    BY <2>1, <2>2
<1>14. ASSUME NEW e \in events
       PROVE  e.block < d <=> (reorg # None => e.block < reorg)
  <2>0. e.block \in Nat /\ FromBlock =< e.block
    BY <1>0, <1>6 DEF Log, EventsKnow
  <2>1. CASE AtomicStore
    <3>1. ASSUME ~(e.block < d) PROVE e.block \in DOMAIN saved.hashes
      <4>1. pruned =< e.block
        BY <1>0, <1>6, <2>0, <3>1 DEF CursorKnows, Larger
      <4> QED
        BY <1>0, <2>0, <2>1, <4>1 DEF HashCover
    <3> QED
      BY <1>3, <1>8, <2>0, <3>1
  <2>2. CASE ~AtomicStore
    BY <1>4, <1>6, <2>2 DEF EventsKnow
  <2> QED
    BY <2>1, <2>2
<1>15. Retained' = { e \in events : e.block < d }
  <2>1. Retained' = IF reorg # None THEN { e \in events : e.block < reorg } ELSE events
    BY <1>7 DEF Retained
  <2> QED
    BY <1>14, <2>1
<1>16. Height' = Height /\ (\A l : On(l)' <=> On(l)) /\ (\A h : HashAt(h)' = HashAt(h))
  BY <1>7 DEF On, Height, HashAt
<1>17. KeptInv'
  <2>1. \A e \in events : On(e) <=> e.block < d
    BY <1>6 DEF EventsKnow
  <2>2. ASSUME NEW e \in Retained'
        PROVE  FromBlock =< e.block /\ (AtomicStore => e.block =< c)
    <3>1. e \in events /\ e.block < d /\ e.block \in Nat
      BY <1>0, <1>15, <2>2 DEF Log
    <3>2. AtomicStore => e.block =< saved.cursor
      BY <1>6, <3>1 DEF EventsKnow
    <3>3. reorg # None => e.block =< reorg - 1
      BY <1>3, <1>8, <3>1
    <3> QED
      BY <1>0, <1>6, <1>8, <3>1, <3>2, <3>3 DEF EventsKnow
  <2>3. ASSUME NEW l \in Log, On(l), FromBlock =< l.block, l.block =< chunkStart' - 1
        PROVE  l \in events /\ l.block < d
    <3>1. l.block \in Nat
      BY DEF Log
    <3>2. l.block =< c - Lookback - 1
      <4>1. chunkStart' = FromBlock \/ chunkStart' = c - Lookback
        BY <1>10 DEF Larger
      <4> QED
        BY <1>0, <1>8, <2>3, <3>1, <4>1
    <3>3. l.block < d /\ l.block =< saved.cursor - MissDepth
      BY <1>0, <1>o, <1>8, <1>13, <2>3, <3>1, <3>2
    <3> QED
      BY <1>6, <2>3, <3>3 DEF EventsKnow
  <2>4. Through' = chunkStart' - 1
    BY <1>7 DEF Through
  <2> QED
    BY <1>7, <1>15, <1>16, <2>1, <2>2, <2>3, <2>4 DEF KeptInv, c
<1>18. CopyAgrees'
  BY <1>7, <1>8, <1>11, <1>12, <1>16 DEF CopyAgrees, c
<1>19. ChunkInv'
  <2>1. PICK s \in Int : chunkStart' = s
    BY <1>0, <1>8, <1>10 DEF Larger
  <2>2. FromBlock =< s /\ c =< s + ScanWindow - 1 /\ s =< latest
    BY <1>0, <1>o, <1>7, <1>8, <1>10, <2>1 DEF Larger
  <2> QED
    BY <1>7, <2>1, <2>2 DEF ChunkInv, c
<1> QED
  BY <1>4, <1>7, <1>16, <1>17, <1>18, <1>19 DEF RoundInv, Scanning

(* StartChunk, GetLogs, SplitRange: no log of the chunk is lost on the way. *)
LEMMA StartChunkStep ==
  ASSUME TypeOK, IndexerInv, StartChunk
  PROVE  RoundInv'
<1>0. /\ chunkStart \in Nat /\ latest \in Nat /\ ScanWindow \in Nat \ {0}
  BY HeightType, IndexerAssumption DEF TypeOK, RoundTypeOK
<1>1. /\ pc = "chunk" /\ chunkStart =< latest /\ pc' = "logs"
      /\ ranges' = <<[from |-> chunkStart, to |-> ChunkEnd, depth |-> 0]>> /\ logs' = {}
      /\ UNCHANGED <<chainVars, storeVars, latest, tip, state, unchecked, reorg, chunkStart,
                     firstChunk>>
  BY DEF StartChunk, Goto
<1>2. /\ KeptInv /\ CopyAgrees /\ ChunkInv /\ tip = HashAt(latest)
      /\ saved.cursor =< Larger(latest, FromBlock - 1)
      /\ ~AtomicStore => reorg = None
  BY <1>1 DEF IndexerInv, RoundInv, Scanning
<1>3. KeptInv' /\ CopyAgrees'
  BY <1>1, <1>2, ScanStays
<1>4. ChunkInv'
  BY <1>1, <1>2 DEF ChunkInv
<1>5. FetchInv'
  <2>1. ChunkEnd' = ChunkEnd
    BY <1>1 DEF ChunkEnd
  <2>2. Len(ranges') = 1 /\ ranges'[1].from = chunkStart /\ ranges'[1].to = ChunkEnd
    BY <1>1
  <2>3. chunkStart' = chunkStart /\ ChunkEnd \in Int
    BY <1>0, <1>1 DEF ChunkEnd
  <2>4. 1 \in 1..Len(ranges') /\ \A i \in 1..Len(ranges') : i = 1
    BY <2>2
  <2>5. \A i \in 1..Len(ranges') : chunkStart' =< ranges'[i].from /\ ranges'[i].to =< ChunkEnd'
    BY <1>0, <2>1, <2>2, <2>3, <2>4
  <2>6. \A l \in Log : chunkStart =< l.block /\ l.block =< ChunkEnd =>
          ranges'[1].from =< l.block /\ l.block =< ranges'[1].to
    BY <2>2
  <2> QED
    BY <1>1, <2>1, <2>3, <2>4, <2>5, <2>6 DEF FetchInv
<1>6. tip' = HashAt(latest)' /\ saved' = saved
  BY <1>1, <1>2 DEF HashAt, chainVars, storeVars
<1> QED
  BY <1>1, <1>2, <1>3, <1>4, <1>5, <1>6 DEF RoundInv, Scanning

LEMMA GetLogsStep ==
  ASSUME TypeOK, IndexerInv, GetLogs
  PROVE  RoundInv'
<1>0. /\ chunkStart \in Nat /\ latest \in Nat /\ Height \in Nat /\ latest =< Height
      /\ MissDepth \in Nat /\ ScanWindow \in Nat \ {0}
      /\ ranges \in Seq(BlockRange)
  BY HeightType, IndexerAssumption DEF TypeOK, RoundTypeOK
<1>1. /\ pc = "logs" /\ ranges # <<>> /\ ranges' = Tail(ranges)
      /\ pc' = IF Tail(ranges) = <<>> THEN "commit" ELSE "logs"
      /\ UNCHANGED <<chainVars, storeVars, latest, tip, state, unchecked, reorg, chunkStart,
                     firstChunk>>
  BY DEF GetLogs, Goto
<1> DEFINE r == Head(ranges)
<1>2. PICK answer \in Answers(r) : logs' = logs \cup answer
  BY DEF GetLogs
<1>3. /\ KeptInv /\ CopyAgrees /\ ChunkInv /\ FetchInv /\ tip = HashAt(latest)
      /\ saved.cursor =< Larger(latest, FromBlock - 1)
      /\ ~AtomicStore => reorg = None
  BY <1>1 DEF IndexerInv, RoundInv, Scanning
<1>4. KeptInv' /\ CopyAgrees'
  BY <1>1, <1>3, ScanStays
<1>5. ChunkInv'
  BY <1>1, <1>3 DEF ChunkInv
<1>6. /\ r = ranges[1] /\ r \in BlockRange /\ r.from \in Nat /\ r.to \in Nat
      /\ Len(ranges') = Len(ranges) - 1 /\ 1 \in 1..Len(ranges)
      /\ \A i \in 1..Len(ranges') : i + 1 \in 1..Len(ranges) /\ ranges'[i] = ranges[i + 1]
      /\ \A i \in 1..Len(ranges) : i # 1 => i - 1 \in 1..Len(ranges') /\ ranges'[i - 1] = ranges[i]
  <2>1. Len(ranges) \in Nat /\ Len(ranges) # 0 /\ r = ranges[1]
    BY <1>0, <1>1
  <2>2. 1 \in 1..Len(ranges)
    BY <2>1
  <2>3. r \in BlockRange
    BY <1>0, <2>1, <2>2
  <2>4. r.from \in Nat /\ r.to \in Nat
    BY <2>3 DEF BlockRange
  <2>5. /\ Len(ranges') = Len(ranges) - 1
        /\ \A i \in 1..Len(ranges') : ranges'[i] = ranges[i + 1]
    BY <1>0, <1>1
  <2>6. \A i \in 1..Len(ranges') : i + 1 \in 1..Len(ranges)
    BY <2>1, <2>5
  <2>7. ASSUME NEW i \in 1..Len(ranges), i # 1
        PROVE  i - 1 \in 1..Len(ranges') /\ ranges'[i - 1] = ranges[i]
    <3>1. i - 1 \in 1..Len(ranges') /\ (i - 1) + 1 = i
      BY <2>1, <2>5, <2>7
    <3> QED
      BY <2>5, <3>1
  <2> QED
    BY <2>1, <2>2, <2>3, <2>4, <2>5, <2>6, <2>7
<1>7. chunkStart =< r.from /\ r.to =< ChunkEnd /\ ChunkEnd \in Int /\ ChunkEnd =< latest
  BY <1>0, <1>3, <1>6 DEF FetchInv, ChunkEnd
<1>8. /\ \A l \in answer : l \in LogsBetween(r.from, r.to)
      /\ \A l \in LogsBetween(r.from, r.to) : l.block =< Height - MissDepth => l \in answer
  BY <1>2 DEF Answers
<1> HIDE DEF r
<1>9. \A l \in answer : l \in Log /\ On(l) /\ chunkStart =< l.block /\ l.block =< ChunkEnd
  <2>1. \A l \in answer : l \in Log /\ On(l) /\ r.from =< l.block /\ l.block =< r.to
    BY <1>6, <1>8, LogsBetweenAre DEF TypeOK
  <2>2. \A l \in answer : l.block \in Nat
    BY <2>1 DEF Log
  <2> QED
    BY <1>0, <1>6, <1>7, <2>1, <2>2
<1>10. ASSUME NEW l \in Log, On(l), chunkStart =< l.block, l.block =< ChunkEnd,
              l.block =< latest - MissDepth
       PROVE  \/ l \in logs'
              \/ \E i \in 1..Len(ranges') : ranges'[i].from =< l.block /\ l.block =< ranges'[i].to
  <2>0. l.block \in Nat
    BY DEF Log
  <2>1. CASE l \in logs
    BY <1>2, <2>1
  <2>2. CASE l \notin logs
    <3>1. PICK i \in 1..Len(ranges) : ranges[i].from =< l.block /\ l.block =< ranges[i].to
      BY <1>3, <1>10, <2>2 DEF FetchInv
    <3>2. CASE i = 1
      <4>1. l \in LogsBetween(r.from, r.to)
        BY <1>6, <1>10, <3>1, <3>2, LogsBetweenAre DEF TypeOK
      <4>2. l.block =< Height - MissDepth
        BY <1>0, <1>10, <2>0
      <4> QED
        BY <1>2, <1>8, <4>1, <4>2
    <3>3. CASE i # 1
      BY <1>6, <3>1, <3>3
    <3> QED
      BY <3>2, <3>3
  <2> QED
    BY <2>1, <2>2
<1>11. /\ ChunkEnd' = ChunkEnd /\ chunkStart' = chunkStart /\ latest' = latest
       /\ Height' = Height /\ \A l : On(l)' <=> On(l)
  BY <1>1 DEF ChunkEnd, On, Height, chainVars
<1>12. FetchInv'
  <2>1. \A l \in logs' : On(l)' /\ chunkStart' =< l.block /\ l.block =< ChunkEnd'
    BY <1>2, <1>3, <1>9, <1>11 DEF FetchInv
  <2>2. \A i \in 1..Len(ranges') : chunkStart' =< ranges'[i].from /\ ranges'[i].to =< ChunkEnd'
    BY <1>3, <1>6, <1>11 DEF FetchInv
  <2>3. pc' = "commit" => ranges' = <<>>
    BY <1>1
  <2> QED
    BY <1>10, <1>11, <2>1, <2>2, <2>3 DEF FetchInv
<1>13. tip' = HashAt(latest)' /\ saved' = saved
  BY <1>1, <1>3 DEF HashAt, chainVars, storeVars
<1> QED
  BY <1>1, <1>3, <1>4, <1>5, <1>12, <1>13 DEF RoundInv, Scanning

LEMMA SplitRangeStep ==
  ASSUME TypeOK, IndexerInv, SplitRange
  PROVE  RoundInv'
<1> DEFINE r   == Head(ranges)
           mid == (r.from + r.to) \div 2
           lower == [from |-> r.from, to |-> mid, depth |-> r.depth + 1]
           upper == [from |-> mid + 1, to |-> r.to, depth |-> r.depth + 1]
<1>1. /\ pc = "logs" /\ pc' = "logs" /\ ranges # <<>> /\ ranges \in Seq(BlockRange)
      /\ ranges' = <<lower, upper>> \o Tail(ranges) /\ r.from < r.to
      /\ UNCHANGED <<chainVars, storeVars, latest, tip, state, unchecked, reorg, chunkStart,
                     firstChunk, logs>>
  BY DEF SplitRange, TypeOK, RoundTypeOK
<1>2. /\ KeptInv /\ CopyAgrees /\ ChunkInv /\ FetchInv /\ tip = HashAt(latest)
      /\ saved.cursor =< Larger(latest, FromBlock - 1)
      /\ ~AtomicStore => reorg = None
  BY <1>1 DEF IndexerInv, RoundInv, Scanning
<1>3. KeptInv' /\ CopyAgrees'
  BY <1>1, <1>2, ScanStays
<1>4. ChunkInv'
  BY <1>1, <1>2 DEF ChunkInv
<1>5. r = ranges[1] /\ r \in BlockRange /\ r.from \in Nat /\ r.to \in Nat /\ 1 \in 1..Len(ranges)
  <2>1. Len(ranges) \in Nat /\ Len(ranges) # 0 /\ r = ranges[1]
    BY <1>1
  <2>2. 1 \in 1..Len(ranges)
    BY <2>1
  <2>3. r \in BlockRange
    BY <1>1, <2>1, <2>2
  <2> QED
    BY <2>1, <2>2, <2>3 DEF BlockRange
<1>6. mid \in Nat /\ r.from =< mid /\ mid < r.to
  BY <1>1, <1>5
<1>7. lower.from = r.from /\ lower.to = mid /\ upper.from = mid + 1 /\ upper.to = r.to
  OBVIOUS
<1>8. chunkStart =< r.from /\ r.to =< ChunkEnd /\ chunkStart \in Nat /\ ChunkEnd \in Int
  BY <1>2, <1>5, IndexerAssumption, HeightType
     DEF FetchInv, ChunkEnd, TypeOK, RoundTypeOK
<1> HIDE DEF r, mid, lower, upper
<1>9. /\ Len(ranges') = Len(ranges) + 1 /\ 1 \in 1..Len(ranges') /\ 2 \in 1..Len(ranges')
      /\ ranges'[1] = lower /\ ranges'[2] = upper
      /\ \A i \in 3..Len(ranges') : i - 1 \in 2..Len(ranges) /\ ranges'[i] = ranges[i - 1]
      /\ \A i \in 2..Len(ranges) : i + 1 \in 1..Len(ranges') /\ ranges'[i + 1] = ranges[i]
  BY <1>1
<1>10. ASSUME NEW i \in 1..Len(ranges')
       PROVE  chunkStart =< ranges'[i].from /\ ranges'[i].to =< ChunkEnd
  <2>1. CASE i = 1
    BY <1>5, <1>6, <1>7, <1>8, <1>9, <2>1
  <2>2. CASE i = 2
    BY <1>5, <1>6, <1>7, <1>8, <1>9, <2>2
  <2>3. CASE i > 2
    BY <1>2, <1>9, <2>3 DEF FetchInv
  <2> QED
    BY <2>1, <2>2, <2>3
<1>11. ASSUME NEW l \in Log,
              NEW i \in 1..Len(ranges), ranges[i].from =< l.block, l.block =< ranges[i].to
       PROVE  \E j \in 1..Len(ranges') : ranges'[j].from =< l.block /\ l.block =< ranges'[j].to
  <2>0. l.block \in Nat
    BY DEF Log
  <2>1. CASE i = 1 /\ l.block =< mid
    BY <1>5, <1>7, <1>9, <1>11, <2>1
  <2>2. CASE i = 1 /\ ~(l.block =< mid)
    BY <1>5, <1>6, <1>7, <1>9, <1>11, <2>0, <2>2
  <2>3. CASE i # 1
    <3>1. i \in 2..Len(ranges)
      BY <2>3
    <3>2. i + 1 \in 1..Len(ranges') /\ ranges'[i + 1] = ranges[i]
      BY <1>9, <3>1
    <3> QED
      BY <1>11, <3>2
  <2> QED
    BY <2>1, <2>2, <2>3
<1>12. /\ ChunkEnd' = ChunkEnd /\ chunkStart' = chunkStart /\ latest' = latest /\ logs' = logs
       /\ Height' = Height /\ \A l : On(l)' <=> On(l)
  BY <1>1 DEF ChunkEnd, On, Height, chainVars
<1>13. FetchInv'
  BY <1>1, <1>2, <1>10, <1>11, <1>12 DEF FetchInv
<1>14. tip' = HashAt(latest)' /\ saved' = saved
  BY <1>1, <1>2 DEF HashAt, chainVars, storeVars
<1> QED
  BY <1>1, <1>2, <1>3, <1>4, <1>13, <1>14 DEF RoundInv, Scanning

(* CommitChunk, FlushEvents, FlushState: the chunk gets into the store. *)
LEMMA CommitChunkStep ==
  ASSUME Orderly, TypeOK, TypeOK', IndexerInv, CommitChunk
  PROVE  StoreInv' /\ RoundInv'
<1>0. /\ chunkStart \in Nat /\ latest \in Nat /\ Height \in Nat /\ latest =< Height
      /\ ScanWindow \in Nat \ {0} /\ FromBlock \in Nat /\ HashWindow \in Nat /\ pruned \in Int
  BY HeightType, HashWindowType, IndexerAssumption DEF TypeOK, RoundTypeOK, StoreTypeOK
<1>1. /\ pc = "commit" /\ pc' = "chunk" /\ AtomicStore
      /\ events' = EventsAfterChunk
      /\ state' = StateAfterChunk /\ saved' = StateAfterChunk
      /\ pruned' = Larger(pruned, Floor(ChunkEnd))
      /\ chunkStart' = ChunkEnd + 1
      /\ firstChunk' = FALSE
      /\ UNCHANGED <<chainVars, latest, tip, reorg>>
  BY DEF CommitChunk, Goto
<1>2. /\ KeptInv /\ CopyAgrees /\ ChunkInv /\ FetchInv /\ tip = HashAt(latest)
  BY <1>1 DEF IndexerInv, RoundInv, Scanning
<1>3. /\ chunkStart =< ChunkEnd /\ ChunkEnd =< latest
      /\ StateAfterChunk.cursor = ChunkEnd
      /\ \A h \in DOMAIN StateAfterChunk.hashes :
           /\ FromBlock =< h /\ h =< ChunkEnd
           /\ StateAfterChunk.hashes[h] = HashAt(h)
      /\ ChunkEnd \in DOMAIN StateAfterChunk.hashes \/ ChunkEnd < latest
      /\ \A e \in EventsAfterChunk :
           On(e) /\ FromBlock =< e.block /\ (AtomicStore => e.block =< ChunkEnd)
      /\ \A l \in Log :
           On(l) /\ FromBlock =< l.block /\ l.block =< ChunkEnd /\ l.block =< latest - MissDepth
             => l \in EventsAfterChunk
  BY <1>1, <1>2, ChunkLeaves DEF IndexerInv
<1>4. FromBlock =< ChunkEnd /\ ChunkEnd \in Nat
  BY <1>0, <1>2, <1>3 DEF ChunkInv, ChunkEnd
<1>5. /\ Height' = Height /\ (\A l : On(l)' <=> On(l)) /\ (\A h : HashAt(h)' = HashAt(h))
      /\ ChainInv'
  BY <1>1 DEF On, Height, HashAt, chainVars, IndexerInv, ChainInv
<1>6. KeptInv'
  <2>1. Retained' = EventsAfterChunk /\ events' = EventsAfterChunk /\ Through' = ChunkEnd
    BY <1>1, <1>4 DEF Retained, Through
  <2>2. state'.cursor = ChunkEnd /\ latest' = latest
    BY <1>1, <1>3
  <2>3. \A e \in events' : On(e)' <=> e \in Retained'
    BY <1>3, <1>5, <2>1
  <2>4. \A e \in Retained' : FromBlock =< e.block /\ (AtomicStore => e.block =< state'.cursor)
    BY <1>3, <2>1, <2>2
  <2>5. \A l \in Log :
          On(l)' /\ FromBlock =< l.block /\ l.block =< Through' /\ l.block =< latest' - MissDepth
            => l \in Retained'
    BY <1>3, <1>5, <2>1, <2>2
  <2> QED
    BY <2>3, <2>4, <2>5 DEF KeptInv
<1>7. CopyAgrees'
  <2>1. state'.cursor = ChunkEnd /\ state'.hashes = StateAfterChunk.hashes /\ latest' = latest
    BY <1>1, <1>3
  <2>2. \A h \in DOMAIN state'.hashes :
          FromBlock =< h /\ h =< state'.cursor /\ state'.hashes[h] = HashAt(h)'
    BY <1>3, <1>5, <2>1
  <2>3. FromBlock - 1 =< state'.cursor /\ state'.cursor =< latest'
    BY <1>0, <1>3, <1>4, <2>1
  <2> QED
    BY <2>2, <2>3 DEF CopyAgrees
<1>8. ChunkInv'
  BY <1>0, <1>1, <1>3, <1>4 DEF ChunkInv
<1>9. StoreInv'
  <2>1. PICK d \in Nat : StoreKnows(d)
    BY DEF IndexerInv, StoreInv
  <2>2. pruned' + HashWindow =< Height' \/ pruned' + HashWindow =< FromBlock - 1
    <3>1. pruned + HashWindow =< Height \/ pruned + HashWindow =< FromBlock - 1
      BY <1>0, <2>1 DEF StoreKnows, CursorKnows, Larger
    <3>2. pruned' = pruned \/ pruned' = ChunkEnd - HashWindow
      BY <1>1 DEF Larger, Floor
    <3>3. ChunkEnd - HashWindow + HashWindow =< Height
      BY <1>0, <1>3, <1>4
    <3> QED
      BY <1>5, <3>1, <3>2, <3>3
  <2>3. /\ saved' = state' /\ chunkStart' = state'.cursor + 1 /\ FromBlock =< state'.cursor
        /\ state'.cursor \in DOMAIN state'.hashes \/ state'.cursor < latest'
    BY <1>1, <1>3, <1>4
  <2> QED
    BY <1>1, <1>5, <1>6, <1>7, <2>2, <2>3, StoreCommit
<1>10. saved'.cursor =< Larger(latest', FromBlock - 1) /\ tip' = HashAt(latest)'
  BY <1>0, <1>1, <1>2, <1>3, <1>4, <1>5 DEF Larger
<1> QED
  BY <1>1, <1>6, <1>7, <1>8, <1>9, <1>10 DEF RoundInv, Scanning

LEMMA FlushEventsStep ==
  ASSUME TypeOK, IndexerInv, FlushEvents
  PROVE  StoreInv' /\ RoundInv'
<1>0. /\ chunkStart \in Nat /\ latest \in Nat /\ Height \in Nat /\ latest =< Height
      /\ ScanWindow \in Nat \ {0} /\ FromBlock \in Nat /\ HashWindow \in Nat /\ pruned \in Int
      /\ saved.cursor \in Int /\ MissDepth \in Nat /\ Lookback \in Nat
      /\ events \subseteq Log /\ logs \subseteq Log
  BY HeightType, HashWindowType, IndexerAssumption
     DEF TypeOK, RoundTypeOK, StoreTypeOK, StateOK
<1>1. /\ pc = "commit" /\ pc' = "flush" /\ ~AtomicStore
      /\ events' = EventsAfterChunk /\ state' = StateAfterChunk
      /\ UNCHANGED <<chainVars, saved, pruned, latest, tip, reorg, chunkStart, firstChunk>>
  BY DEF FlushEvents, Goto
<1>2. /\ KeptInv /\ CopyAgrees /\ ChunkInv /\ FetchInv /\ tip = HashAt(latest)
      /\ saved.cursor =< Larger(latest, FromBlock - 1) /\ reorg = None
  BY <1>1 DEF IndexerInv, RoundInv, Scanning
<1>3. /\ chunkStart =< ChunkEnd /\ ChunkEnd =< latest
      /\ StateAfterChunk.cursor = ChunkEnd
      /\ \A h \in DOMAIN StateAfterChunk.hashes :
           /\ FromBlock =< h /\ h =< ChunkEnd
           /\ StateAfterChunk.hashes[h] = HashAt(h)
      /\ ChunkEnd \in DOMAIN StateAfterChunk.hashes \/ ChunkEnd < latest
      /\ \A e \in EventsAfterChunk : On(e) /\ FromBlock =< e.block
      /\ \A l \in Log :
           On(l) /\ FromBlock =< l.block /\ l.block =< ChunkEnd /\ l.block =< latest - MissDepth
             => l \in EventsAfterChunk
  BY <1>1, <1>2, ChunkLeaves DEF IndexerInv
<1>4. FromBlock =< ChunkEnd /\ ChunkEnd \in Nat
  BY <1>0, <1>2, <1>3 DEF ChunkInv, ChunkEnd
<1>5. /\ Height' = Height /\ (\A l : On(l)' <=> On(l)) /\ (\A h : HashAt(h)' = HashAt(h))
      /\ ChunkEnd' = ChunkEnd /\ fork' = fork
  BY <1>1 DEF On, Height, HashAt, chainVars, ChunkEnd
<1>6. Retained = events /\ Retained' = events'
  BY <1>1, <1>2 DEF Retained
<1>7. KeptInv'
  <2>1. Retained' = EventsAfterChunk /\ events' = EventsAfterChunk /\ Through' = ChunkEnd
    BY <1>1, <1>5, <1>6 DEF Through
  <2>2. latest' = latest
    BY <1>1
  <2>3. \A e \in events' : On(e)' <=> e \in Retained'
    BY <1>3, <1>5, <2>1
  <2>4. \A e \in Retained' : FromBlock =< e.block /\ (AtomicStore => e.block =< state'.cursor)
    BY <1>1, <1>3, <2>1
  <2>5. \A l \in Log :
          On(l)' /\ FromBlock =< l.block /\ l.block =< Through' /\ l.block =< latest' - MissDepth
            => l \in Retained'
    BY <1>3, <1>5, <2>1, <2>2
  <2> QED
    BY <2>3, <2>4, <2>5 DEF KeptInv
<1>8. CopyAgrees'
  <2>1. state'.cursor = ChunkEnd /\ state'.hashes = StateAfterChunk.hashes /\ latest' = latest
    BY <1>1, <1>3
  <2>2. \A h \in DOMAIN state'.hashes :
          FromBlock =< h /\ h =< state'.cursor /\ state'.hashes[h] = HashAt(h)'
    BY <1>3, <1>5, <2>1
  <2>3. FromBlock - 1 =< state'.cursor /\ state'.cursor =< latest'
    BY <1>0, <1>3, <1>4, <2>1
  <2> QED
    BY <2>2, <2>3 DEF CopyAgrees
<1>9. ChunkInv'
  BY <1>0, <1>1, <1>2, <1>3, <1>5 DEF ChunkInv
<1>10. StoreInv'
  <2>1. PICK d \in Nat : StoreKnows(d)
    BY DEF IndexerInv, StoreInv
  <2>2. HashesKnow(d) /\ EventsKnow(d) /\ CursorKnows(d) /\ saved.cursor < d
    BY <1>1, <2>1 DEF StoreKnows, CursorKnows
  <2>H. PICK H \in Nat : Height = H
    BY <1>0
  <2>3. PICK k \in Nat : d =< k /\ H < k
    <3>1. CASE H < d
      BY <3>1
    <3>2. CASE ~(H < d)
      <4>1. H + 1 \in Nat /\ d =< H + 1 /\ H < H + 1
        BY <3>2
      <4> QED
        BY <4>1
    <3> QED
      BY <3>1, <3>2
  <2>0. saved' = saved /\ pruned' = pruned /\ Height' = H
    BY <1>1, <1>5, <2>H
  <2>4. HashesKnow(k)'
    <3>1. ASSUME NEW h \in DOMAIN saved.hashes
          PROVE  /\ FromBlock =< h /\ h =< saved'.cursor
                 /\ saved'.hashes[h] =< fork'
                 /\ saved'.hashes[h] = HashAt(h)' <=> h < k
      <4>1. h \in Nat /\ FromBlock =< h /\ h =< saved.cursor /\ saved.hashes[h] =< fork
            /\ (saved.hashes[h] = HashAt(h) <=> h < d)
        BY <2>2 DEF HashesKnow, TypeOK, StoreTypeOK, StateOK
      <4>2. h < d /\ h < k
        BY <1>0, <2>2, <2>3, <4>1
      <4> QED
        BY <1>5, <2>0, <4>1, <4>2
    <3> QED
      BY <2>0, <3>1 DEF HashesKnow
  <2>5. EventsKnow(k)'
    <3>1. ASSUME NEW e \in events'
          PROVE  /\ FromBlock =< e.block /\ e.block =< Height'
                 /\ e.hash =< fork'
                 /\ On(e)' <=> e.block < k
                 /\ IF AtomicStore THEN e.block =< saved'.cursor ELSE e.block < k
      <4>1. e \in EventsAfterChunk
        BY <1>1
      <4>2. e \in events \/ e \in logs
        BY <1>6, <4>1 DEF EventsAfterChunk, NewEvents
      <4>3. e \in Log /\ On(e) /\ FromBlock =< e.block
        BY <1>0, <1>3, <4>1, <4>2
      <4>4. e.block \in 1..Height /\ e.hash =< fork
        BY <4>3, OnBounds DEF TypeOK, IndexerInv
      <4>5. e.block =< H /\ e.block < k
        BY <2>H, <2>3, <4>4
      <4> QED
        BY <1>1, <1>5, <2>0, <4>3, <4>4, <4>5
    <3>2. ASSUME NEW l \in Log, On(l)', FromBlock =< l.block, l.block =< saved'.cursor - MissDepth
          PROVE  l \in events'
      <4>1. l.block \in Nat /\ On(l) /\ l.block =< saved.cursor - MissDepth
        BY <1>5, <2>0, <3>2 DEF Log
      <4>2. l.block < d
        BY <1>0, <2>2, <4>1
      <4>3. l \in events
        BY <2>2, <3>2, <4>1, <4>2 DEF EventsKnow
      <4> QED
        BY <1>1, <1>6, <4>3 DEF EventsAfterChunk
    <3> QED
      BY <3>1, <3>2 DEF EventsKnow
  <2>6. CursorKnows(k)'
    <3>1. saved.cursor < k /\ saved.cursor - Lookback - 1 =< k /\ saved.cursor - Lookback =< k
      BY <1>0, <2>2, <2>3
    <3>2. pruned =< Larger(k, FromBlock)
      <4>1. pruned =< d \/ pruned =< FromBlock
        BY <2>2 DEF CursorKnows, Larger
      <4>2. pruned =< k \/ pruned =< FromBlock
        BY <1>0, <2>3, <4>1
      <4> QED
        BY <1>0, <4>2 DEF Larger
    <3>3. saved.cursor >= FromBlock - 1
          /\ (saved.cursor >= FromBlock =>
                /\ saved.cursor =< H
                /\ saved.cursor \in DOMAIN saved.hashes \/ saved.cursor < H)
          /\ pruned =< Larger(H, FromBlock - 1) - HashWindow
      BY <2>2, <2>H DEF CursorKnows
    <3> QED
      BY <2>0, <3>1, <3>2, <3>3 DEF CursorKnows
  <2> QED
    BY <2>4, <2>5, <2>6 DEF StoreKnows, StoreInv
<1>11. tip' = HashAt(latest)' /\ saved' = saved /\ latest' = latest
  BY <1>1, <1>2, <1>5
<1> QED
  BY <1>1, <1>2, <1>7, <1>8, <1>9, <1>10, <1>11 DEF RoundInv, Scanning

LEMMA FlushStateStep ==
  ASSUME Orderly, TypeOK, TypeOK', IndexerInv, FlushState
  PROVE  StoreInv' /\ RoundInv'
<1>0. /\ chunkStart \in Nat /\ latest \in Nat /\ Height \in Nat /\ latest =< Height
      /\ ScanWindow \in Nat \ {0} /\ FromBlock \in Nat /\ HashWindow \in Nat /\ pruned \in Int
  BY HeightType, HashWindowType, IndexerAssumption DEF TypeOK, RoundTypeOK, StoreTypeOK
<1>1. /\ pc = "flush" /\ pc' = "chunk" /\ saved' = state /\ state' = state /\ events' = events
      /\ pruned' = Larger(pruned, Floor(ChunkEnd))
      /\ chunkStart' = ChunkEnd + 1
      /\ firstChunk' = FALSE
      /\ UNCHANGED <<chainVars, latest, tip, reorg>>
  BY DEF FlushState, Goto
<1>2. /\ KeptInv /\ CopyAgrees /\ ChunkInv /\ tip = HashAt(latest)
      /\ ~AtomicStore => reorg = None
  BY <1>1 DEF IndexerInv, RoundInv, Scanning
<1>3. /\ state.cursor = ChunkEnd /\ reorg = None /\ ~AtomicStore
      /\ ChunkEnd \in DOMAIN state.hashes \/ ChunkEnd < latest
      /\ chunkStart =< latest /\ FromBlock =< chunkStart
  BY <1>1, <1>2 DEF ChunkInv
<1>4. ChunkEnd \in Nat /\ chunkStart =< ChunkEnd /\ ChunkEnd =< latest /\ FromBlock =< ChunkEnd
  BY <1>0, <1>3 DEF ChunkEnd
<1>5. /\ Height' = Height /\ (\A l : On(l)' <=> On(l)) /\ (\A h : HashAt(h)' = HashAt(h))
      /\ ChainInv'
  BY <1>1 DEF On, Height, HashAt, chainVars, IndexerInv, ChainInv
<1>6. KeptInv'
  <2>1. Retained' = events' /\ Retained = events /\ Through' = ChunkEnd /\ Through = ChunkEnd
    BY <1>1, <1>3, <1>4 DEF Retained, Through
  <2> QED
    BY <1>1, <1>2, <1>5, <2>1 DEF KeptInv
<1>7. CopyAgrees'
  BY <1>1, <1>2, <1>5 DEF CopyAgrees
<1>8. ChunkInv'
  BY <1>0, <1>1, <1>3, <1>4 DEF ChunkInv
<1>9. StoreInv'
  <2>1. PICK d \in Nat : StoreKnows(d)
    BY DEF IndexerInv, StoreInv
  <2>2. pruned' + HashWindow =< Height' \/ pruned' + HashWindow =< FromBlock - 1
    <3>1. pruned + HashWindow =< Height \/ pruned + HashWindow =< FromBlock - 1
      BY <1>0, <2>1 DEF StoreKnows, CursorKnows, Larger
    <3>2. pruned' = pruned \/ pruned' = ChunkEnd - HashWindow
      BY <1>1 DEF Larger, Floor
    <3>3. ChunkEnd - HashWindow + HashWindow =< Height
      BY <1>0, <1>4
    <3> QED
      BY <1>5, <3>1, <3>2, <3>3
  <2>3. /\ saved' = state' /\ chunkStart' = state'.cursor + 1 /\ FromBlock =< state'.cursor
        /\ state'.cursor \in DOMAIN state'.hashes \/ state'.cursor < latest'
    BY <1>1, <1>3, <1>4
  <2> QED
    BY <1>1, <1>5, <1>6, <1>7, <2>2, <2>3, StoreCommit
<1>10. saved'.cursor =< Larger(latest', FromBlock - 1) /\ tip' = HashAt(latest)'
  BY <1>0, <1>1, <1>2, <1>3, <1>4, <1>5 DEF Larger
<1> QED
  BY <1>1, <1>3, <1>6, <1>7, <1>8, <1>9, <1>10 DEF RoundInv, Scanning

-----------------------------------------------------------------------------
(* The ends of a round, and its beginning. *)
LEMMA EndRoundStep ==
  ASSUME EndRound
  PROVE  RoundInv'
<1>1. pc' = "idle" /\ reorg' = None
  BY DEF EndRound, Goto
<1> QED
  BY <1>1 DEF RoundInv, Scanning

LEMMA BeginStep ==
  ASSUME Orderly, TypeOK, IndexerInv, BeginRound \/ FetchTip
  PROVE  RoundInv'
<1>0. Height \in Nat /\ FromBlock \in Nat /\ saved.cursor \in Int
  BY HeightType, IndexerAssumption DEF TypeOK, StoreTypeOK, StateOK
<1>1. saved' = saved /\ reorg' = reorg /\ chain' = chain /\ (~AtomicStore => reorg = None)
  BY DEF BeginRound, FetchTip, storeVars, chainVars, IndexerInv, RoundInv
<1>2. CASE BeginRound
  <2>1. pc' = "tip"
    BY <1>2 DEF BeginRound, Goto
  <2>2. latest' = Height
    BY <1>0, <1>2 DEF BeginRound, Orderly
  <2>3. PICK d \in Nat : StoreKnows(d)
    BY DEF IndexerInv, StoreInv
  <2>4. saved.cursor >= FromBlock => saved.cursor =< Height
    BY <2>3 DEF StoreKnows, CursorKnows
  <2>5. saved.cursor =< Larger(Height, FromBlock - 1)
    BY <1>0, <2>4 DEF Larger
  <2> QED
    BY <1>1, <2>1, <2>2, <2>5 DEF RoundInv, Scanning
<1>3. CASE FetchTip
  <2>1. pc' = "load" /\ pc = "tip" /\ tip' = HashAt(latest) /\ latest' = latest
    BY <1>3 DEF FetchTip, Goto
  <2>2. saved.cursor =< Larger(latest, FromBlock - 1)
    BY <2>1 DEF IndexerInv, RoundInv
  <2>3. HashAt(latest)' = HashAt(latest)
    BY <1>1, <2>1 DEF HashAt
  <2> QED
    BY <1>1, <2>1, <2>2, <2>3 DEF RoundInv, Scanning
<1> QED
  BY <1>2, <1>3

(* A step that leaves the chain, the store and the round alone. *)
LEMMA RoundStays ==
  ASSUME RoundInv, UNCHANGED <<chainVars, storeVars, roundVars, pc>>
  PROVE  RoundInv'
<1>1. /\ chain' = chain /\ fork' = fork /\ events' = events /\ saved' = saved
      /\ latest' = latest /\ tip' = tip /\ state' = state /\ unchecked' = unchecked
      /\ reorg' = reorg /\ chunkStart' = chunkStart /\ firstChunk' = firstChunk
      /\ ranges' = ranges /\ logs' = logs /\ pc' = pc
  BY DEF chainVars, storeVars, roundVars
<1>2. /\ (\A l : On(l)' <=> On(l)) /\ (\A h : HashAt(h)' = HashAt(h))
      /\ ChunkEnd' = ChunkEnd /\ Retained' = Retained
  BY <1>1 DEF On, Height, HashAt, ChunkEnd, Retained
<1>3. Through' = Through
  BY <1>1, <1>2 DEF Through
<1>4. DetectInv => DetectInv'
  BY <1>1, <1>2 DEF DetectInv
<1>5. KeptInv => KeptInv'
  BY <1>1, <1>2, <1>3 DEF KeptInv
<1>6. (CopyAgrees => CopyAgrees') /\ (ChunkInv => ChunkInv')
  BY <1>1, <1>2 DEF CopyAgrees, ChunkInv
<1>7. FetchInv => FetchInv'
  BY <1>1, <1>2 DEF FetchInv
<1>8. tip = HashAt(latest) => tip' = HashAt(latest)'
  BY <1>1 DEF HashAt
<1> QED
  BY <1>1, <1>4, <1>5, <1>6, <1>7, <1>8 DEF RoundInv, Scanning

(* A block that arrives during a round lies above everything it looks at. *)
LEMMA RoundMine ==
  ASSUME Orderly, TypeOK, IndexerInv, Mine, UNCHANGED <<storeVars, roundVars, pc>>
  PROVE  RoundInv'
<1>0. /\ Height \in Nat /\ latest \in Nat /\ latest =< Height
      /\ saved.cursor \in Int /\ DOMAIN saved.hashes \subseteq Nat
      /\ DOMAIN state.hashes \subseteq Nat /\ state.cursor \in Int
      /\ events \subseteq Log /\ logs \subseteq Log /\ chunkStart \in Nat
      /\ FromBlock \in Nat /\ MissDepth \in Nat /\ ScanWindow \in Nat \ {0}
  BY HeightType, IndexerAssumption DEF TypeOK, RoundTypeOK, StoreTypeOK, StateOK
<1>1. /\ events' = events /\ saved' = saved
      /\ latest' = latest /\ tip' = tip /\ state' = state /\ unchecked' = unchecked
      /\ reorg' = reorg /\ chunkStart' = chunkStart /\ firstChunk' = firstChunk
      /\ ranges' = ranges /\ logs' = logs /\ pc' = pc
  BY DEF storeVars, roundVars
<1>2. /\ \A h \in 0..Height : HashAt(h)' = HashAt(h)
      /\ \A l \in Log : l.block =< Height => (On(l)' <=> On(l))
  <2>1. Height =< Height' /\ Height' \in Nat /\ \A h \in 1..Height : chain'[h] = chain[h]
    BY <1>0, MineFacts DEF TypeOK, IndexerInv
  <2> QED
    BY <2>1, Unmoved DEF TypeOK
<1>3. ChunkEnd' = ChunkEnd /\ Retained' = Retained
  BY <1>1 DEF ChunkEnd, Retained
<1>4. Through' = Through
  BY <1>1, <1>3 DEF Through
<1>5. ChunkEnd \in Int /\ ChunkEnd =< latest
  BY <1>0 DEF ChunkEnd
<1>6. PICK d \in Nat : StoreKnows(d)
  BY DEF IndexerInv, StoreInv
<1>7. \A h \in DOMAIN saved.hashes : h \in 0..Height
  <2>1. saved.cursor =< Height \/ saved.cursor < FromBlock
    BY <1>0, <1>6 DEF StoreKnows, CursorKnows
  <2>2. \A h \in DOMAIN saved.hashes : FromBlock =< h /\ h =< saved.cursor
    BY <1>6 DEF StoreKnows, HashesKnow
  <2> QED
    BY <1>0, <2>1, <2>2
<1>8. \A e \in events : e \in Log /\ e.block =< Height
  BY <1>0, <1>6 DEF StoreKnows, EventsKnow
<1>9. DetectInv => DetectInv'
  BY <1>1, <1>2, <1>7 DEF DetectInv
<1>10. ASSUME KeptInv PROVE KeptInv'
  <2>1. \A e \in events : On(e)' <=> e \in Retained
    BY <1>2, <1>8, <1>10 DEF KeptInv
  <2>2. ASSUME NEW l \in Log, On(l)', FromBlock =< l.block, l.block =< Through,
               l.block =< latest - MissDepth
        PROVE  l \in Retained
    <3>1. l.block =< Height
      BY <1>0, <2>2 DEF Log
    <3>2. On(l)
      BY <1>2, <2>2, <3>1
    <3> QED
      BY <1>10, <2>2, <3>2 DEF KeptInv
  <2>3. \A e \in Retained : FromBlock =< e.block /\ (AtomicStore => e.block =< state.cursor)
    BY <1>10 DEF KeptInv
  <2> QED
    BY <1>1, <1>3, <1>4, <2>1, <2>2, <2>3 DEF KeptInv
<1>11. ASSUME CopyAgrees PROVE CopyAgrees'
  <2>1. ASSUME NEW h \in DOMAIN state.hashes
        PROVE  FromBlock =< h /\ h =< state.cursor /\ state.hashes[h] = HashAt(h)'
    <3>1. FromBlock =< h /\ h =< state.cursor /\ state.hashes[h] = HashAt(h)
          /\ state.cursor =< latest
      BY <1>11 DEF CopyAgrees
    <3>2. h \in 0..Height
      BY <1>0, <3>1
    <3> QED
      BY <1>2, <3>1, <3>2
  <2>2. FromBlock - 1 =< state.cursor /\ state.cursor =< latest
    BY <1>11 DEF CopyAgrees
  <2> QED
    BY <1>1, <2>1, <2>2 DEF CopyAgrees
<1>12. ChunkInv => ChunkInv'
  BY <1>1, <1>3 DEF ChunkInv
<1>13. ASSUME FetchInv PROVE FetchInv'
  <2>1. ASSUME NEW l \in logs PROVE On(l)' /\ chunkStart =< l.block /\ l.block =< ChunkEnd
    <3>1. l \in Log /\ On(l) /\ chunkStart =< l.block /\ l.block =< ChunkEnd
      BY <1>0, <1>13 DEF FetchInv
    <3>2. l.block =< Height
      BY <1>0, <1>5, <3>1 DEF Log
    <3> QED
      BY <1>2, <3>1, <3>2
  <2>2. ASSUME NEW l \in Log, On(l)', chunkStart =< l.block, l.block =< ChunkEnd,
               l.block =< latest - MissDepth
        PROVE  \/ l \in logs
               \/ \E i \in 1..Len(ranges) : ranges[i].from =< l.block /\ l.block =< ranges[i].to
    <3>1. l.block =< Height
      BY <1>0, <1>5, <2>2 DEF Log
    <3>2. On(l)
      BY <1>2, <2>2, <3>1
    <3> QED
      BY <1>13, <2>2, <3>2 DEF FetchInv
  <2>3. /\ \A i \in 1..Len(ranges) : chunkStart =< ranges[i].from /\ ranges[i].to =< ChunkEnd
        /\ pc = "commit" => ranges = <<>>
    BY <1>13 DEF FetchInv
  <2> QED
    BY <1>1, <1>3, <2>1, <2>2, <2>3 DEF FetchInv
<1>14. tip = HashAt(latest) => tip' = HashAt(latest)'
  <2>1. latest \in 0..Height
    BY <1>0
  <2>2. HashAt(latest)' = IF latest = 0 THEN 0 ELSE chain'[latest].fork
    BY <1>1 DEF HashAt
  <2>3. \A h \in 1..Height : chain'[h] = chain[h]
    BY MineFacts DEF TypeOK, IndexerInv
  <2>4. HashAt(latest)' = HashAt(latest)
    BY <2>1, <2>2, <2>3 DEF HashAt
  <2> QED
    BY <1>1, <2>4
<1> QED
  BY <1>1, <1>9, <1>10, <1>11, <1>12, <1>13, <1>14 DEF IndexerInv, RoundInv, Scanning

(* The chain moves. *)
LEMMA ChainMoves ==
  ASSUME Orderly, TypeOK, IndexerInv, ChainStep
  PROVE  IndexerInv'
<1>1. /\ UNCHANGED <<storeVars, roundVars, pc>>
      /\ Mine \/ (Reorg /\ pc = "idle")
  BY DEF ChainStep, Orderly
<1>2. PICK d \in Nat : StoreKnows(d)
  BY DEF IndexerInv, StoreInv
<1>3. CASE Mine
  <2>1. ChainInv'
    BY <1>3, MineFacts DEF TypeOK, IndexerInv
  <2>2. StoreKnows(d)'
    BY <1>1, <1>2, <1>3, StoreMine DEF IndexerInv
  <2>3. RoundInv'
    BY <1>1, <1>3, RoundMine
  <2> QED
    BY <2>1, <2>2, <2>3 DEF IndexerInv, StoreInv
<1>4. CASE Reorg /\ pc = "idle"
  <2>1. PICK h \in 1..Height : h > Height - MaxReorgDepth /\ ForkedAt(h)
    BY <1>4, ReorgFacts DEF TypeOK, IndexerInv
  <2>2. ChainInv' /\ fork < MaxFork
    BY <1>4, ReorgFacts DEF TypeOK, IndexerInv
  <2>3. (IF h < d THEN h ELSE d) \in Nat
    BY HeightType DEF TypeOK
  <2>4. StoreKnows(IF h < d THEN h ELSE d)'
    BY <1>1, <1>2, <2>1, <2>2, StoreReorg DEF IndexerInv
  <2>5. StoreInv'
    BY <2>3, <2>4 DEF StoreInv
  <2>6. RoundInv'
    <3>1. pc' = "idle" /\ reorg' = reorg
      BY <1>1, <1>4 DEF roundVars
    <3> QED
      BY <3>1 DEF IndexerInv, RoundInv, Scanning
  <2> QED
    BY <2>2, <2>5, <2>6 DEF IndexerInv
<1> QED
  BY <1>1, <1>3, <1>4

LEMMA IndexerInit == Init => IndexerInv
<1> SUFFICES ASSUME Init PROVE IndexerInv
  OBVIOUS
<1>0. FromBlock \in Nat /\ Lookback \in Nat /\ HashWindow \in Nat /\ AtomicStore \in BOOLEAN
  BY IndexerAssumption, HashWindowType
<1>1. /\ chain = <<>> /\ fork = 0 /\ events = {} /\ saved = NoState
      /\ pruned = Floor(FromBlock - 1) /\ pc = "idle" /\ reorg = None
  BY DEF Init, ChainInit
<1>2. Height = 0
  BY <1>1 DEF Height
<1>3. ChainInv
  BY <1>1, <1>2, ChainAssumption DEF ChainInv
<1>4. saved.cursor = FromBlock - 1 /\ DOMAIN saved.hashes = {}
  BY <1>1 DEF NoState
<1> DEFINE d == FromBlock
<1>5. HashesKnow(d)
  BY <1>4 DEF HashesKnow
<1>6. EventsKnow(d)
  <2>1. \A l \in Log : ~On(l)
    BY <1>2 DEF On
  <2> QED
    BY <1>1, <2>1 DEF EventsKnow
<1>7. CursorKnows(d)
  <2>1. pruned = FromBlock - 1 - HashWindow
    BY <1>1 DEF Floor
  <2> QED
    BY <1>0, <1>2, <1>4, <2>1 DEF CursorKnows, Larger
<1>8. RoundInv
  BY <1>1 DEF RoundInv, Scanning
<1> QED
  BY <1>0, <1>3, <1>5, <1>6, <1>7, <1>8 DEF IndexerInv, StoreInv, StoreKnows

LEMMA IndexerStep ==
  Orderly /\ TypeOK /\ TypeOK' /\ (HashCover \/ ~AtomicStore) /\ IndexerInv /\ [Next]_vars
    => IndexerInv'
<1> SUFFICES ASSUME Orderly, TypeOK, TypeOK', HashCover \/ ~AtomicStore, IndexerInv, [Next]_vars
             PROVE  IndexerInv'
  OBVIOUS
<1>1. ASSUME UNCHANGED chainVars PROVE ChainInv'
  BY <1>1 DEF chainVars, Height, IndexerInv, ChainInv
<1>2. ASSUME UNCHANGED <<chainVars, storeVars>>, RoundInv' PROVE IndexerInv'
  BY <1>1, <1>2, StoreStay DEF IndexerInv
<1>3. CASE BeginRound \/ FetchTip
  BY <1>2, <1>3, BeginStep DEF BeginRound, FetchTip
<1>4. CASE LoadState
  BY <1>2, <1>4, LoadStateStep DEF LoadState
<1>5. CASE HashDiffers
  BY <1>2, <1>5, HashDiffersStep DEF HashDiffers
<1>6. CASE StartScan
  BY <1>2, <1>6, StartScanStep DEF StartScan
<1>7. CASE StopBeforeSource \/ NothingToScan \/ StopBetweenChunks \/ FinishRound \/ Fault
  BY <1>2, <1>7, EndRoundStep
     DEF StopBeforeSource, NothingToScan, StopBetweenChunks, FinishRound, Fault
<1>8. CASE StartChunk
  BY <1>2, <1>8, StartChunkStep DEF StartChunk
<1>9. CASE GetLogs
  BY <1>2, <1>9, GetLogsStep DEF GetLogs
<1>10. CASE SplitRange
  BY <1>2, <1>10, SplitRangeStep DEF SplitRange
<1>11. CASE CommitChunk
  BY <1>1, <1>11, CommitChunkStep DEF IndexerInv, CommitChunk
<1>12. CASE FlushEvents
  BY <1>1, <1>12, FlushEventsStep DEF IndexerInv, FlushEvents
<1>13. CASE FlushState
  BY <1>1, <1>13, FlushStateStep DEF IndexerInv, FlushState
<1>14. CASE ChainStep
  BY <1>14, ChainMoves
<1>15. CASE Stop \/ Restart \/ UNCHANGED vars
  BY <1>2, <1>15, RoundStays DEF Stop, Restart, vars, IndexerInv
<1> QED
  BY <1>3, <1>4, <1>5, <1>6, <1>7, <1>8, <1>9, <1>10, <1>11, <1>12, <1>13, <1>14, <1>15
     DEF Next, RoundStep

THEOREM IndexerInvariant == ASSUME Orderly PROVE Spec => []IndexerInv
<1>0. AtomicStore \in BOOLEAN
  BY IndexerAssumption
<1>1. CASE AtomicStore
  <2>1. Spec => []HashCover
    BY <1>1, AlwaysCovered
  <2>2. TypeOK /\ TypeOK' /\ HashCover /\ IndexerInv /\ [Next]_vars => IndexerInv'
    BY IndexerStep
  <2> QED
    BY <2>1, <2>2, IndexerInit, TypeCorrect, PTL DEF Spec
<1>2. CASE ~AtomicStore
  <2>1. TypeOK /\ TypeOK' /\ IndexerInv /\ [Next]_vars => IndexerInv'
    BY <1>2, IndexerStep
  <2> QED
    BY <2>1, IndexerInit, TypeCorrect, PTL DEF Spec
<1> QED
  BY <1>0, <1>1, <1>2

-----------------------------------------------------------------------------
(* detectReorg may stop at the first height that matches: in the orderly     *)
(* environment every recorded height below it matches too.                   *)
THEOREM MatchIsProof == ASSUME Orderly PROVE Spec => []MatchProvesBelow
<1>1. ASSUME TypeOK, IndexerInv PROVE MatchProvesBelow
  <2> SUFFICES ASSUME pc = "detect", Detected, NEW h \in unchecked
               PROVE  state.hashes[h] = HashAt(h)
    BY DEF MatchProvesBelow
  <2>1. PICK d \in Nat : StoreKnows(d)
    BY <1>1 DEF IndexerInv, StoreInv
  <2>2. h < d
    BY <1>1, <2>1, DetectedFacts
  <2>3. state = saved /\ h \in DOMAIN saved.hashes
    BY <1>1 DEF IndexerInv, RoundInv, DetectInv
  <2> QED
    BY <2>1, <2>2, <2>3 DEF StoreKnows, HashesKnow
<1> QED
  BY <1>1, IndexerInvariant, TypeCorrect, PTL

(* A finished round holds every log of the chain up to its head that the     *)
(* node had indexed, and nothing else.                                       *)
LEMMA FinishedRound ==
  ASSUME TypeOK, IndexerInv, RoundDone
  PROVE  /\ \A e \in events : e \in Log /\ On(e) /\ FromBlock =< e.block
         /\ \A l \in Log : On(l) /\ FromBlock =< l.block /\ l.block =< latest - MissDepth
              => l \in events
<1>0. /\ chunkStart \in Nat /\ latest \in Nat /\ MissDepth \in Nat /\ events \subseteq Log
  BY HeightType, IndexerAssumption DEF TypeOK, RoundTypeOK, StoreTypeOK
<1>1. pc = "chunk" /\ latest < chunkStart
  BY <1>0 DEF RoundDone
<1>2. KeptInv /\ ChunkInv
  BY <1>1 DEF IndexerInv, RoundInv, Scanning
<1>3. Retained = events
  BY <1>0, <1>1, <1>2 DEF ChunkInv, Retained
<1>4. ASSUME NEW l \in Log, l.block =< latest - MissDepth PROVE l.block =< Through
  BY <1>0, <1>1, <1>4 DEF Through, Log
<1> QED
  BY <1>0, <1>2, <1>3, <1>4 DEF KeptInv

(* A round that worked through its chunks leaves the logs of the chain: no  *)
(* orphan, and nothing missed but what the node had not indexed yet.         *)
THEOREM RoundsConverge == ASSUME Orderly PROVE Spec => []RoundConverges
<1>1. ASSUME TypeOK, IndexerInv PROVE RoundConverges
  <2> SUFFICES ASSUME RoundDone
               PROVE  /\ \A e \in events :
                           e.block =< latest => e \in LogsUpTo(latest) /\ e.block >= FromBlock
                      /\ \A l \in LogsUpTo(latest - MissDepth) :
                           l.block >= FromBlock => l \in events
    BY DEF RoundConverges
  <2>0. latest \in Nat /\ MissDepth \in Nat /\ latest - MissDepth \in Int
    BY <1>1, HeightType, IndexerAssumption DEF TypeOK, RoundTypeOK
  <2>1. /\ \A e \in events : e \in Log /\ On(e) /\ FromBlock =< e.block
        /\ \A l \in Log : On(l) /\ FromBlock =< l.block /\ l.block =< latest - MissDepth
             => l \in events
    BY <1>1, FinishedRound
  <2>2. ASSUME NEW e \in events, e.block =< latest
        PROVE  e \in LogsUpTo(latest) /\ e.block >= FromBlock
    <3>1. e \in Log /\ On(e) /\ 1 =< e.block /\ e.block >= FromBlock
      BY <2>1, IndexerAssumption DEF On, Log
    <3> QED
      BY <1>1, <2>0, <2>2, <3>1, LogsBetweenAre DEF LogsUpTo, TypeOK
  <2>3. ASSUME NEW l \in LogsUpTo(latest - MissDepth), l.block >= FromBlock
        PROVE  l \in events
    <3>1. l \in Log /\ On(l) /\ l.block =< latest - MissDepth
      BY <1>1, <2>0, LogsBetweenAre DEF LogsUpTo, TypeOK
    <3> QED
      BY <2>1, <2>3, <3>1, IndexerAssumption DEF Log
  <2> QED
    BY <2>2, <2>3
<1> QED
  BY <1>1, IndexerInvariant, TypeCorrect, PTL

(* In particular no event of a dropped fork outlives a round.                *)
THEOREM NoOrphans == ASSUME Orderly PROVE Spec => []OrphansDropped
<1>1. ASSUME TypeOK, IndexerInv PROVE OrphansDropped
  BY <1>1, FinishedRound, OnBounds DEF OrphansDropped, IndexerInv, TypeOK
<1> QED
  BY <1>1, IndexerInvariant, TypeCorrect, PTL

(* Whatever a round, a fault or a restart does, only orphans are deleted.    *)
THEOREM NothingCanonicalLost == ASSUME Orderly PROVE Spec => NoCanonicalLoss
<1>1. ASSUME TypeOK, IndexerInv, [Next]_vars
      PROVE  \A e \in events : e \in LogsUpTo(Height) => e \in events'
  <2>1. CASE events' = events
    BY <2>1
  <2>2. CASE CommitChunk \/ FlushEvents
    <3>1. events' = EventsAfterChunk /\ pc = "commit"
      BY <2>2 DEF CommitChunk, FlushEvents
    <3>2. KeptInv
      BY <1>1, <3>1 DEF IndexerInv, RoundInv, Scanning
    <3>3. ASSUME NEW e \in events, e \in LogsUpTo(Height) PROVE e \in events'
      <4>1. On(e)
        BY <1>1, <3>3, HeightType, LogsBetweenAre DEF LogsUpTo, TypeOK
      <4> QED
        BY <3>1, <3>2, <3>3, <4>1 DEF KeptInv, EventsAfterChunk
    <3> QED
      BY <3>3
  <2> QED
    BY <1>1, <2>1, <2>2
       DEF Next, RoundStep, vars, storeVars, BeginRound, FetchTip, StopBeforeSource, LoadState,
           HashDiffers, StartScan, NothingToScan, StartChunk, StopBetweenChunks, FinishRound,
           GetLogs, SplitRange, FlushState, ChainStep, Fault, Stop, Restart
<1>2. ASSUME TypeOK, IndexerInv, [Next]_vars
      PROVE  [\A e \in events : e \in LogsUpTo(Height) => e \in events']_vars
  BY <1>1, <1>2
<1> QED
  BY <1>2, IndexerInvariant, TypeCorrect, PTL DEF Spec, NoCanonicalLoss
=============================================================================
