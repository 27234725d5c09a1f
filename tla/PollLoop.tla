------------------------------ MODULE PollLoop ------------------------------
(***************************************************************************)
(* The poll loop of the event indexer                                      *)
(* (aastar/src/indexer/indexer.service.ts): timer and forced polls, one    *)
(* round at a time over all active sources, error backoff, disabling a     *)
(* source whose store is corrupt, shutdown, and the metrics read from it.  *)
(*                                                                         *)
(* What pollSource does to one source is EventIndexer; here it is one step *)
(* that advances the source's saved cursor and ends in one of three ways.  *)
(*                                                                         *)
(* Time is counted in timer ticks (INDEXER_POLL_MS): backoffUntil is the   *)
(* number of ticks still to be skipped.                                    *)
(***************************************************************************)
EXTENDS Integers, Sequences, Filters

CONSTANTS
  Source,         \* the keys modules may register
  MaxBackoff,     \* MAX_BACKOFF_MS in ticks
  MaxErrors,      \* bound: consecutiveErrors counted, 2 ^ (MaxErrors - 1) >= MaxBackoff
  MaxHead,        \* bound: the head of the chain
  MaxRestarts     \* bound: shutdowns and crashes

VARIABLES
  head,           \* the head of the chain
  cursor,         \* the saved lastProcessedBlock of each source
  up,             \* the process runs
  timer,          \* the interval is set
  stopping,
  sources,        \* registered keys, in order
  disabled,       \* disabledSources
  polling,        \* a round is in flight
  queue,          \* the sources the round still has to poll; <<>> before the head is known
  latest,         \* latestBlock of the metrics, None before the first answer
  lastProcessed,  \* the metrics' lastProcessed of each source, None if missing
  needsReconnect,
  roundFailed,
  currentError,   \* whether the metrics show one
  errors,         \* consecutiveErrors
  skip,           \* ticks until backoffUntil
  restarts

chainVars   == <<head, cursor>>
serviceVars == <<up, timer, stopping, sources, disabled>>
roundVars   == <<polling, queue, roundFailed>>
metricVars  == <<latest, lastProcessed, needsReconnect, currentError, errors, skip>>
vars == <<chainVars, serviceVars, roundVars, metricVars, restarts>>

None == -1

(* Bug: a corrupt source stays active. *)
ActiveThoughDisabled == sources

Active == Filter(sources, Source \ disabled)

(* min(interval * 2^(errors - 1), MAX_BACKOFF_MS) in ticks. *)
Backoff(n) == IF 2 ^ (n - 1) < MaxBackoff THEN 2 ^ (n - 1) ELSE MaxBackoff

Init ==
  /\ head = 0 /\ cursor = [s \in Source |-> 0]
  /\ up = TRUE /\ restarts = 0
  /\ sources = <<>> /\ disabled = {}
  /\ timer = FALSE /\ stopping = FALSE
  /\ polling = FALSE /\ queue = <<>> /\ roundFailed = FALSE
  /\ latest = None /\ lastProcessed = [s \in Source |-> None]
  /\ needsReconnect = FALSE /\ currentError = FALSE /\ errors = 0 /\ skip = 0

NewBlock ==
  /\ head < MaxHead
  /\ head' = head + 1
  /\ UNCHANGED <<cursor, serviceVars, roundVars, metricVars, restarts>>

OnModuleInit ==
  /\ up /\ ~timer
  /\ ~stopping
  /\ timer' = TRUE
  /\ UNCHANGED <<chainVars, up, stopping, sources, disabled, roundVars, metricVars, restarts>>

(* registerSource: a second registration of a key throws. *)
RegisterSource(s) ==
  /\ up
  /\ \A i \in DOMAIN sources : sources[i] # s
  /\ sources' = Append(sources, s)
  /\ UNCHANGED <<chainVars, up, timer, stopping, disabled, roundVars, metricVars, restarts>>

-----------------------------------------------------------------------------
(* Bug: a stopping service still begins rounds. *)
PollOnceWhileStopping ==
  /\ up /\ ~polling
  /\ Active # <<>>
  /\ polling' = TRUE
  /\ queue' = <<>> /\ roundFailed' = FALSE
  /\ needsReconnect' = FALSE

(* pollOnce up to the first await of doPoll; a client that failed is made anew. *)
PollOnce ==
  /\ up /\ ~polling /\ ~stopping
  /\ Active # <<>>
  /\ polling' = TRUE
  /\ queue' = <<>> /\ roundFailed' = FALSE
  /\ needsReconnect' = FALSE

(* pollTick. *)
TimerPoll ==
  /\ timer /\ skip = 0
  /\ PollOnce
  /\ UNCHANGED <<chainVars, serviceVars, latest, lastProcessed, currentError, errors, skip,
                 restarts>>

(* A caller forces a round: the backoff does not hold it back. *)
ForcedPoll ==
  /\ PollOnce
  /\ UNCHANGED <<chainVars, serviceVars, latest, lastProcessed, currentError, errors, skip,
                 restarts>>

(* Without an active source a poll does nothing. *)
IdlePoll ==
  /\ up /\ timer /\ skip = 0 /\ Active = <<>>
  /\ UNCHANGED vars

SkippedTick ==
  /\ timer /\ skip > 0
  /\ skip' = skip - 1
  /\ UNCHANGED <<chainVars, serviceVars, roundVars, latest, lastProcessed, needsReconnect,
                 currentError, errors, restarts>>

-----------------------------------------------------------------------------
(* Bug: a success does not clear the error. *)
EndRoundKeepsError(failed, error) ==
  /\ polling' = FALSE /\ queue' = <<>> /\ roundFailed' = FALSE
  /\ IF failed
     THEN /\ errors' = IF errors < MaxErrors THEN errors + 1 ELSE errors
          /\ skip' = Backoff(IF errors < MaxErrors THEN errors + 1 ELSE errors)
     ELSE errors' = 0 /\ skip' = 0
  /\ currentError' = error

(* The accounting at the end of doPoll, and pollOnce's finally. *)
EndRound(failed, error) ==
  /\ polling' = FALSE /\ queue' = <<>> /\ roundFailed' = FALSE
  /\ IF failed
     THEN /\ errors' = IF errors < MaxErrors THEN errors + 1 ELSE errors
          /\ skip' = Backoff(IF errors < MaxErrors THEN errors + 1 ELSE errors)
          /\ currentError' = error
     ELSE errors' = 0 /\ skip' = 0 /\ currentError' = FALSE

(* getBlockNumber and getBlock are answered; a round that is to stop ends   *)
(* without accounting.                                                       *)
HeadKnown ==
  /\ polling /\ queue = <<>>
  /\ latest' = head
  /\ IF stopping
     THEN polling' = FALSE /\ UNCHANGED queue
     ELSE queue' = Active /\ UNCHANGED polling
  /\ UNCHANGED <<chainVars, serviceVars, roundFailed, lastProcessed, needsReconnect,
                 currentError, errors, skip, restarts>>

(* Either of the two fails. *)
HeadFails ==
  /\ polling /\ queue = <<>>
  /\ \/ UNCHANGED latest
     \/ latest' = head
  /\ needsReconnect' = TRUE
  /\ EndRound(TRUE, TRUE)
  /\ UNCHANGED <<chainVars, serviceVars, lastProcessed, restarts>>

(* pollSource commits chunk by chunk, and the metrics follow each commit. A  *)
(* rescan or a reorganisation may commit below the old cursor; block 0 is    *)
(* the one before the sources' first, at which there is nothing to scan.     *)
CommitUpTo(s, to) ==
  IF to = 0 THEN UNCHANGED <<cursor, lastProcessed>>
  ELSE /\ cursor' = [cursor EXCEPT ![s] = to]
       /\ lastProcessed' = [lastProcessed EXCEPT ![s] = to]

(* Some of the chunks, before a fault or a stop; maybe none. *)
SomeChunks(s) == \E to \in 0..latest : CommitUpTo(s, to)

(* Bug: a failed source ends the round. *)
NextSourceUnlessFailed(failed, error) ==
  IF failed \/ Tail(queue) = <<>> THEN EndRound(failed, error)
  ELSE /\ queue' = Tail(queue) /\ roundFailed' = failed
       /\ currentError' = error
       /\ UNCHANGED <<polling, errors, skip>>

(* What follows a source: the stop check, the next source, or the accounting. *)
NextSource(failed, error) ==
  IF Tail(queue) = <<>> THEN EndRound(failed, error)
  ELSE IF stopping
  THEN /\ polling' = FALSE /\ queue' = <<>> /\ roundFailed' = FALSE
       /\ currentError' = error
       /\ UNCHANGED <<errors, skip>>
  ELSE /\ queue' = Tail(queue) /\ roundFailed' = failed
       /\ currentError' = error
       /\ UNCHANGED <<polling, errors, skip>>

SourceSucceeds ==
  /\ polling /\ queue # <<>>
  /\ \/ CommitUpTo(Head(queue), latest)
     \/ stopping /\ SomeChunks(Head(queue))
  /\ NextSource(roundFailed, currentError)
  /\ UNCHANGED <<head, serviceVars, latest, needsReconnect, restarts>>

SourceFails ==
  /\ polling /\ queue # <<>>
  /\ SomeChunks(Head(queue))
  /\ needsReconnect' = TRUE
  /\ NextSource(TRUE, TRUE)
  /\ UNCHANGED <<head, serviceVars, latest, restarts>>

(* IndexerPersistenceError: the source is out until the process restarts.   *)
SourceCorrupt ==
  /\ polling /\ queue # <<>>
  /\ SomeChunks(Head(queue))
  /\ disabled' = disabled \cup {Head(queue)}
  /\ NextSource(TRUE, TRUE)
  /\ UNCHANGED <<head, up, timer, stopping, sources, latest, needsReconnect, restarts>>

-----------------------------------------------------------------------------
OnModuleDestroy ==
  /\ up /\ ~stopping /\ restarts < MaxRestarts
  /\ stopping' = TRUE /\ timer' = FALSE
  /\ restarts' = restarts + 1
  /\ UNCHANGED <<chainVars, up, sources, disabled, roundVars, metricVars>>

(* onModuleDestroy has awaited currentPoll; the process exits. *)
Exit ==
  /\ up /\ stopping /\ ~polling
  /\ up' = FALSE
  /\ UNCHANGED <<chainVars, timer, stopping, sources, disabled, roundVars, metricVars, restarts>>

Crash ==
  /\ up /\ restarts < MaxRestarts
  /\ up' = FALSE
  /\ polling' = FALSE /\ queue' = <<>> /\ roundFailed' = FALSE
  /\ timer' = FALSE
  /\ restarts' = restarts + 1
  /\ UNCHANGED <<chainVars, stopping, sources, disabled, metricVars>>

StartProcess ==
  /\ ~up
  /\ up' = TRUE
  /\ sources' = <<>> /\ disabled' = {}
  /\ timer' = FALSE /\ stopping' = FALSE
  /\ polling' = FALSE /\ queue' = <<>> /\ roundFailed' = FALSE
  /\ latest' = None /\ lastProcessed' = [s \in Source |-> None]
  /\ needsReconnect' = FALSE /\ currentError' = FALSE /\ errors' = 0 /\ skip' = 0
  /\ UNCHANGED <<chainVars, restarts>>

RoundStep == HeadKnown \/ HeadFails \/ SourceSucceeds \/ SourceFails \/ SourceCorrupt

Next ==
  \/ NewBlock
  \/ OnModuleInit \/ \E s \in Source : RegisterSource(s)
  \/ TimerPoll \/ ForcedPoll \/ IdlePoll \/ SkippedTick
  \/ RoundStep
  \/ OnModuleDestroy \/ Exit \/ Crash \/ StartProcess

Spec == Init /\ [][Next]_vars

-----------------------------------------------------------------------------
TypeOK ==
  /\ head \in 0..MaxHead /\ cursor \in [Source -> 0..MaxHead]
  /\ up \in BOOLEAN /\ timer \in BOOLEAN /\ stopping \in BOOLEAN
  /\ sources \in Seq(Source) /\ disabled \subseteq Source
  /\ polling \in BOOLEAN /\ queue \in Seq(Source) /\ roundFailed \in BOOLEAN
  /\ latest \in 0..MaxHead \cup {None}
  /\ lastProcessed \in [Source -> 0..MaxHead \cup {None}]
  /\ needsReconnect \in BOOLEAN /\ currentError \in BOOLEAN
  /\ errors \in 0..MaxErrors /\ skip \in 0..MaxBackoff
  /\ restarts \in 0..MaxRestarts

(* Between rounds the metrics show an error exactly while there are failed   *)
(* rounds to back off from, and a backoff only then: no error is left behind *)
(* by a success, none is hidden, and no service that is well waits.          *)
ErrorStateAgrees ==
  up /\ ~polling /\ ~stopping =>
    /\ currentError <=> errors > 0
    /\ skip > 0 => errors > 0

(* A source whose store is corrupt is not written again by this process, not *)
(* even by the round that was under way: its cursor stays and no round has   *)
(* it left to poll.                                                          *)
CorruptStoreUntouched ==
  /\ \A s \in disabled : \A i \in DOMAIN queue : queue[i] # s
  /\ polling /\ queue = <<>> => Active # <<>>

(* Every registered source is polled again and again, however often another *)
(* one fails, unless its own store is corrupt.                               *)
SourcesServed ==
  \A s \in Source :
    \/ []<>(polling /\ queue # <<>> /\ Head(queue) = s)
    \/ <>[](s \in disabled)

(* getMetrics *)
Registered == { sources[i] : i \in DOMAIN sources }

LagBlocks ==
  LET processed == { lastProcessed[s] : s \in { r \in Registered : lastProcessed[r] # None } }
  IN IF latest = None \/ processed = {} THEN 0
     ELSE LET min == CHOOSE p \in processed : \A q \in processed : p =< q
          IN IF latest > min THEN latest - min ELSE 0

(* lagBlocks is "0 when idle or fully caught up" (indexer.types.ts): once    *)
(* rounds have indexed something, 0 means that no source is behind the head. *)
NoLagMeansCaughtUp ==
  up /\ ~polling /\ (\E s \in Registered : lastProcessed[s] # None) /\ LagBlocks = 0 =>
    \A s \in Registered : cursor[s] >= latest

=============================================================================
