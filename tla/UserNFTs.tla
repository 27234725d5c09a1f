------------------------------ MODULE UserNFTs ------------------------------
(* A user's NFTs (UserNFTService) and the page that lists them (nfts).  The  *)
(* file is read and written whole by each call; an addition waits between    *)
(* for the NFT's metadata, which it does without when it must, and goes on   *)
(* when the page that asked for it is gone.  A file that cannot be read is   *)
(* no NFTs.                                                                  *)
EXTENDS Naturals, FiniteSets

CONSTANTS
  NFT,      \* pairs of contract and token id
  None,
  MaxRows,  \* bound: rows that are ever created
  MaxReads, \* bound: loads of the list
  MaxUpsets \* bound: times the page is left and opened anew, and those the file
            \* cannot be read or is torn

VARIABLES
  ui,    \* the page; of: the load its list is of; excused, crossed: history
  calls, \* requests under way
  world  \* file: the rows; has: the NFTs that were added and not removed

vars == <<ui, calls, world>>

Opened(n) ==
  [nfts |-> {}, stats |-> None, loading |-> TRUE, modal |-> FALSE, adding |-> FALSE,
   of |-> 0, statsOf |-> 0, reads |-> n, crossed |-> FALSE, excused |-> FALSE]

List(n, then) == [kind |-> "list", n |-> n, then |-> then, rows |-> {}, read |-> FALSE, alive |-> TRUE]
Stats(n) == [kind |-> "stats", n |-> n, rows |-> {}, read |-> FALSE, alive |-> TRUE]

(* The page's effect: list and statistics at once.  The file holds an NFT  *)
(* that was removed before.                                                  *)
Opening(n) == {List(n, "none"), Stats(n)}

Init ==
  /\ ui = Opened(1)
  /\ calls = Opening(1)
  /\ world = [file |-> {[nft |-> CHOOSE x \in NFT : TRUE, n |-> 1, active |-> FALSE]}, n |-> 1,
              writes |-> 0, has |-> {},
              overlapped |-> FALSE, lost |-> FALSE, upsets |-> 0]

Listed == {r \in world.file : r.active}
Saved(rows, has) == [world EXCEPT !.file = rows, !.has = has, !.writes = @ + 1]
Upset(w) == world.upsets < MaxUpsets /\ world' = [w EXCEPT !.upsets = @ + 1]

-----------------------------------------------------------------------------
(* UserNFTService                                                            *)

(* Bug: a row that was removed is not found. *)
ExistingActive(nft) == {r \in Listed : r.nft = nft}

Existing(nft) == {r \in world.file : r.nft = nft}

Revives(c) ==
  /\ c.kind = "add" /\ Existing(c.nft) # {} /\ Existing(c.nft) \cap Listed = {}
  /\ world' = Saved((world.file \ Existing(c.nft)) \cup {[r EXCEPT !.active = TRUE] : r \in Existing(c.nft)},
                    world.has \cup {c.nft})

Refuses(c) == c.kind = "add" /\ Existing(c.nft) \cap Listed # {} /\ UNCHANGED world

(* The read of the file may fail, which is no rows.                          *)
Fetches(c) ==
  /\ c.kind = "add"
  /\ \E failed \in BOOLEAN :
       /\ IF failed THEN Upset(world) ELSE Existing(c.nft) = {} /\ UNCHANGED world
       /\ calls' = (calls \ {c}) \cup {[c EXCEPT !.kind = "fetch", !.rows = IF failed THEN {} ELSE world.file,
                                              !.at = world.writes, !.blind = failed]}
  /\ UNCHANGED ui

(* With the metadata or without. *)
Adds(c) ==
  /\ c.kind = "fetch" /\ world.n < MaxRows
  /\ world' = [Saved(c.rows \cup {[nft |-> c.nft, n |-> world.n + 1, active |-> TRUE]}, world.has \cup {c.nft})
                 EXCEPT !.n = @ + 1, !.overlapped = @ \/ c.at # world.writes, !.lost = @ \/ c.blind]

Removes(c) ==
  /\ c.kind = "remove" /\ c.row \in {r.n : r \in world.file}
  /\ LET rs == {r \in world.file : r.n = c.row}
     IN world' = Saved((world.file \ rs) \cup {[r EXCEPT !.active = FALSE] : r \in rs},
                       world.has \ {r.nft : r \in rs})

NotFound(c) == c.kind = "remove" /\ c.row \notin {r.n : r \in world.file} /\ UNCHANGED world

(* The read fails where there must be a row, or the write does.              *)
Fails(c) == c.kind \in {"add", "fetch", "remove"} /\ UNCHANGED world

(* The write fails or the process ends half way, and the file is torn: that  *)
(* is no rows.                                                               *)
Tears(c) ==
  /\ c.kind \in {"add", "fetch", "remove"}
  /\ Upset([Saved({}, world.has) EXCEPT !.lost = TRUE])

(* getUserNFTs and getNFTStats both read the list of active rows, or fail to *)
(* and answer none.                                                          *)
Reads(c) ==
  /\ c.kind \in {"list", "stats"} /\ ~c.read
  /\ \/ /\ calls' = (calls \ {c}) \cup {[c EXCEPT !.read = TRUE, !.rows = {r.n : r \in Listed}]}
        /\ UNCHANGED <<ui, world>>
     \/ /\ Upset(world)
        /\ calls' = (calls \ {c}) \cup {[c EXCEPT !.read = TRUE]}
        /\ ui' = [ui EXCEPT !.excused = TRUE]

-----------------------------------------------------------------------------
(* The page                                                                  *)
OpenAddModal ==
  /\ ~ui.modal
  /\ ui' = [ui EXCEPT !.modal = TRUE]
  /\ UNCHANGED <<calls, world>>

CloseAddModal ==
  /\ ui.modal /\ ~ui.adding
  /\ ui' = [ui EXCEPT !.modal = FALSE]
  /\ UNCHANGED <<calls, world>>

AddNFT(nft) ==
  /\ ui.modal /\ ~ui.adding
  /\ ui' = [ui EXCEPT !.adding = TRUE]
  /\ calls' = calls \cup {[kind |-> "add", nft |-> nft, rows |-> {}, at |-> 0, blind |-> FALSE, alive |-> TRUE]}
  /\ UNCHANGED world

Cards == ~ui.loading /\ ~ui.modal

RemoveNFT(n) ==
  /\ Cards /\ n \in ui.nfts
  /\ calls' = calls \cup {[kind |-> "remove", row |-> n, alive |-> TRUE]}
  /\ UNCHANGED <<ui, world>>

(* What a page that was left had begun changes the list here. *)
Forgotten(c) == calls' = calls \ {c} /\ ui' = [ui EXCEPT !.excused = @ \/ ~c.alive]

(* Bug: only the list is loaded again. *)
ReloadsList(c, u) ==
  /\ ui.reads < MaxReads
  /\ ui' = [u EXCEPT !.loading = TRUE, !.reads = @ + 1]
  /\ calls' = (calls \ {c}) \cup {List(ui.reads + 1, "none")}

Reloads(c, u) ==
  /\ ui.reads < MaxReads
  /\ ui' = [u EXCEPT !.loading = TRUE, !.reads = @ + 1]
  /\ calls' = (calls \ {c}) \cup {List(ui.reads + 1, "stats")}

(* The dialog is closed; the button is on again when list and statistics are *)
(* there.                                                                    *)
Added(c) == IF c.alive THEN Reloads(c, [ui EXCEPT !.modal = FALSE]) ELSE Forgotten(c)

NotAdded(c) ==
  IF c.alive THEN ui' = [ui EXCEPT !.adding = FALSE] /\ calls' = calls \ {c} ELSE Forgotten(c)

Unchanged(c) == IF c.kind = "remove" THEN Forgotten(c) ELSE NotAdded(c)

Torn(c) ==
  /\ ui' = [ui EXCEPT !.excused = TRUE, !.adding = IF c.kind = "remove" \/ ~c.alive THEN @ ELSE FALSE]
  /\ calls' = calls \ {c}

Removed(c) == IF c.alive THEN Reloads(c, ui) ELSE Forgotten(c)

Then(c) == IF c.then = "stats" THEN {Stats(c.n)} ELSE {}

(* A list that fails to load is followed by the statistics all the same. *)
ListEnds(c) ==
  /\ c.kind = "list" /\ c.alive /\ c.read
  /\ \/ ui' = [ui EXCEPT !.nfts = c.rows, !.of = c.n, !.crossed = @ \/ c.n < ui.of, !.loading = FALSE]
     \/ ui' = [ui EXCEPT !.excused = TRUE, !.loading = FALSE]
  /\ calls' = (calls \ {c}) \cup Then(c)
  /\ UNCHANGED world

StatsEnd(c) ==
  /\ c.kind = "stats" /\ c.alive /\ c.read
  /\ \/ ui' = [ui EXCEPT !.stats = Cardinality(c.rows), !.statsOf = c.n, !.adding = FALSE,
                         !.crossed = @ \/ c.n < ui.statsOf]
     \/ ui' = [ui EXCEPT !.excused = TRUE, !.adding = FALSE]
  /\ calls' = calls \ {c} /\ UNCHANGED world

(* The page is left and opened again: what it asked for goes on, its answers *)
(* go nowhere.                                                               *)
Leave ==
  /\ ui.reads < MaxReads
  /\ ui' = Opened(ui.reads + 1)
  /\ calls' = {[c EXCEPT !.alive = FALSE] : c \in {d \in calls : d.kind \in {"add", "fetch", "remove"}}}
                \cup Opening(ui.reads + 1)
  /\ Upset(world)

(* A behaviour is followed until answers crossed or an addition was written  *)
(* around.                                                                   *)
Next ==
  /\ ~ui.crossed /\ ~world.overlapped
  /\ \/ OpenAddModal \/ CloseAddModal \/ Leave
     \/ \E nft \in NFT : AddNFT(nft)
     \/ \E n \in ui.nfts : RemoveNFT(n)
     \/ \E c \in calls :
          \/ Reads(c) \/ ListEnds(c) \/ StatsEnd(c) \/ Fetches(c)
          \/ (Adds(c) \/ Revives(c)) /\ Added(c)
          \/ Removes(c) /\ Removed(c)
          \/ (Refuses(c) \/ NotFound(c) \/ Fails(c)) /\ Unchanged(c)
          \/ Tears(c) /\ Torn(c)

Spec == Init /\ [][Next]_vars

-----------------------------------------------------------------------------
(* But for an addition that others wrote around, and until one was written   *)
(* after a read that failed or the file was torn, what was added is in the   *)
(* collection and what was removed is not ...                                *)
CollectionIsOwn == world.overlapped \/ world.lost \/ world.has = {r.nft : r \in Listed}

(* ... and there is one row of an NFT, however often it was removed and      *)
(* added.                                                                    *)
OneRowEach == world.overlapped \/ \A r1, r2 \in world.file : r1.nft = r2.nft => r1 = r2

(* A page at rest whose loads came, in order, counts what it lists; unless   *)
(* since it was opened a load or a read of the file failed, or the file was  *)
(* torn, or a page that was left changed it.                                 *)
StatsAreOfList ==
  calls = {} /\ ~ui.crossed /\ ~ui.excused => ui.stats = Cardinality(ui.nfts)
=============================================================================
