----------------------------- MODULE MyTaskIndex ----------------------------
(***************************************************************************)
(* Reading the event index page by page                                    *)
(* (aastar/src/mytask-index/mytask-index.service.ts over queryEvents of    *)
(* aastar/src/indexer/indexer.service.ts), while the indexer writes.       *)
(*                                                                         *)
(* The index is the list of the source's events, newest first, the order   *)
(* getEvents sorts by. Events are numbered in the order they were stored;  *)
(* those in Challenges are TaskChallenged, the others ChallengeResolved.   *)
(* What EventIndexer's CommitChunk can do to the list is here two actions. *)
(***************************************************************************)
EXTENDS Integers, Sequences, Filters

CONSTANTS
  PageSize,       \* INDEX_PAGE_SIZE
  MaxScan,        \* MAX_SCAN_EVENTS
  Depth,          \* bound: how far below the newest event the indexer changes the list
  Initial,        \* bound: events stored before; some may be gone again
  MaxEvents,      \* bound: events ever stored
  Challenges,     \* the events that are challenges
  Reorgs          \* bound: reorganisations

VARIABLES
  index,          \* the stored events, newest first
  stored,         \* how many were ever stored
  reorgs,
  reader,         \* the call: its program counter and what it has gathered
  start           \* history: the three above when the call began

vars == <<index, stored, reorgs, reader, start>>

Elements(s) == { s[i] : i \in DOMAIN s }
LesserOf(a, b) == IF a < b THEN a ELSE b

Idle == [pc |-> "idle", limit |-> 0, out |-> <<>>, scanned |-> 0, total |-> 0,
         page |-> <<>>, truncated |-> FALSE]

NoCall == [index |-> <<>>, stored |-> 0, reorgs |-> 0]

Init ==
  /\ \E kept \in 0..Initial : index = [i \in 1..kept |-> kept + 1 - i]
  /\ stored = Initial /\ reorgs = 0
  /\ reader = Idle /\ start = NoCall

-----------------------------------------------------------------------------
(* A log of a new block, or one that getLogs missed before, below events     *)
(* already stored.                                                           *)
StoreEvent ==
  /\ stored < MaxEvents
  /\ \E newer \in 0..LesserOf(Depth, Len(index)) :
       index' = SubSeq(index, 1, newer) \o <<stored + 1>> \o SubSeq(index, newer + 1, Len(index))
  /\ stored' = stored + 1
  /\ UNCHANGED <<reorgs, reader, start>>

(* The first chunk after a reorganisation: the orphans go.                   *)
DropOrphans ==
  /\ reorgs < Reorgs
  /\ \E orphans \in 1..LesserOf(Depth, Len(index)) :
       index' = SubSeq(index, orphans + 1, Len(index))
  /\ reorgs' = reorgs + 1
  /\ UNCHANGED <<stored, reader, start>>

-----------------------------------------------------------------------------
(* getChallengesByTaskId drains everything (limit 0); getRecentChallenges    *)
(* stops at `limit' challenges.                                              *)
Begin(limit) ==
  /\ reader.pc = "idle"
  /\ reader' = [Idle EXCEPT !.pc = "query", !.limit = limit]
  /\ start' = [index |-> index, stored |-> stored, reorgs |-> reorgs]
  /\ UNCHANGED <<index, stored, reorgs>>

(* Bug: the offset is taken to count from 1. *)
PageAfter(offset) == SubSeq(index, offset + 2, LesserOf(offset + 1 + PageSize, Len(index)))

Page(offset) == SubSeq(index, offset + 1, LesserOf(offset + PageSize, Len(index)))

(* queryEvents reads the page and the count at once; either may be first.    *)
ReadPage ==
  /\ reader.pc \in {"query", "page"}
  /\ reader' = [reader EXCEPT !.pc = IF reader.pc = "query" THEN "count" ELSE "gather",
                              !.page = Page(reader.scanned)]
  /\ UNCHANGED <<index, stored, reorgs, start>>

CountEvents ==
  /\ reader.pc \in {"query", "count"}
  /\ reader' = [reader EXCEPT !.pc = IF reader.pc = "query" THEN "page" ELSE "gather",
                              !.total = Len(index)]
  /\ UNCHANGED <<index, stored, reorgs, start>>

(* Bug: resolutions take up the slots of challenges. *)
WantedAnyKind == 1..MaxEvents

(* The events of a page that are returned: all when draining, challenges up  *)
(* to the limit otherwise.                                                   *)
Wanted == IF reader.limit = 0 THEN 1..MaxEvents ELSE Challenges

WantedOfPage(n) == Filter(SubSeq(reader.page, 1, n), Wanted)

EnoughAt(n) ==
  reader.limit > 0 /\ Len(reader.out) + Len(WantedOfPage(n)) >= reader.limit

(* Bug: the last page is taken to be the first short one. *)
NoMorePagesIfShort(scanned) ==
  Len(reader.page) < PageSize \/ scanned >= reader.total \/ scanned >= MaxScan

NoMorePages(scanned) ==
  Len(reader.page) = 0 \/ scanned >= reader.total \/ scanned >= MaxScan

(* Bug: nothing is ever reported as cut short. *)
TruncatedNever(scanned) == FALSE

Truncated(scanned) == scanned < reader.total

(* The loop's body once a page and a count are there. *)
Gather ==
  /\ reader.pc = "gather"
  /\ LET all == Len(reader.page)
         scanned == reader.scanned + all
     IN IF EnoughAt(all)
        THEN LET n == CHOOSE n \in 1..all : EnoughAt(n) /\ ~EnoughAt(n - 1)
             IN reader' = [reader EXCEPT !.pc = "done", !.out = @ \o WantedOfPage(n),
                                         !.scanned = @ + n, !.truncated = FALSE]
        ELSE reader' = [reader EXCEPT !.pc = IF NoMorePages(scanned) THEN "done" ELSE "query",
                                      !.out = @ \o WantedOfPage(all), !.scanned = scanned,
                                      !.truncated = NoMorePages(scanned) /\ Truncated(scanned)]
  /\ UNCHANGED <<index, stored, reorgs, start>>

Answered ==
  /\ reader.pc = "done"
  /\ reader' = Idle /\ start' = NoCall
  /\ UNCHANGED <<index, stored, reorgs>>

Read == ReadPage \/ CountEvents \/ Gather

Next ==
  \/ StoreEvent \/ DropOrphans
  \/ \E limit \in 0..2 : Begin(limit)
  \/ Read \/ Answered

Spec == Init /\ [][Next]_vars
-----------------------------------------------------------------------------
TypeOK ==
  /\ index \in Seq(1..MaxEvents) /\ stored \in 0..MaxEvents /\ reorgs \in 0..Reorgs
  /\ reader \in [pc : {"idle", "query", "page", "count", "gather", "done"}, limit : Nat,
                 out : Seq(1..MaxEvents), scanned : 0..(MaxScan + PageSize - 1), total : 0..MaxEvents,
                 page : Seq(1..MaxEvents), truncated : BOOLEAN]
  /\ start \in [index : Seq(1..MaxEvents), stored : 0..MaxEvents, reorgs : 0..Reorgs]

Undisturbed == stored = start.stored /\ reorgs = start.reorgs

Complete == Elements(start.index) \cap Elements(index) \subseteq Elements(reader.out)

(* What a drained answer says of `truncated': when it is FALSE, no event that *)
(* was indexed all the while is missing from it, so that an empty result      *)
(* means "definitely none" ...                                                *)
NotFoundIsAuthoritative ==
  reader.pc = "done" /\ reader.limit = 0 /\ ~reader.truncated => Complete

(* ... which holds of every call during which the indexer wrote nothing.      *)
AuthoritativeAtRest == Undisturbed => NotFoundIsAuthoritative

(* When `truncated' is TRUE the source was really not exhausted: MaxScan     *)
(* events have been read, as long as no event was removed meanwhile. An      *)
(* index that was empty is the exception: the first event may be stored      *)
(* between the two reads of the only page.                                   *)
TruncatedOnlyAtCap ==
  /\ reorgs = start.reorgs /\ start.index # <<>>
  /\ reader.pc = "done" /\ reader.truncated
  => reader.scanned >= MaxScan

(* "Most-recent challenges ..., newest first, capped at `limit`": of an index *)
(* at rest the first challenges are returned, each once, wherever the pages   *)
(* end; only the scan cap may make them fewer.                                *)
RecentAreNewest ==
  Undisturbed /\ reader.pc = "done" /\ reader.limit > 0 /\ ~reader.truncated =>
    LET current == Filter(start.index, Challenges)
    IN reader.out = SubSeq(current, 1, LesserOf(reader.limit, Len(current)))

(* While the indexer only adds events, a drain leaves no gap: if it returns  *)
(* an event that was there at the start, it returns all the newer ones.      *)
NoGap ==
  reader.limit = 0 /\ reorgs = start.reorgs =>
    \A j \in DOMAIN start.index : start.index[j] \in Elements(reader.out) =>
      \A i \in 1..j : start.index[i] \in Elements(reader.out)
=============================================================================
