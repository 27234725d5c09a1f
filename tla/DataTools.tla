----------------------------- MODULE DataTools ------------------------------
(* The data tools: a page on which an administrator downloads the data       *)
(* directory of the backend as an archive and puts an archive in its place,  *)
(* and the service that does it, file by file, next to a backup, while the   *)
(* backend goes on writing.  The service may stop between two steps.         *)
EXTENDS Naturals

CONSTANTS
  File, Version,
  None,       \* no directory, or no such file in it
  Data,       \* the directory at first
  Exported,   \* archives the administrator has of earlier days, as directories
  MaxImports, \* bound: imports that are begun
  MaxExports, \* bound: exports that are begun
  MaxWrites,  \* bound: writes of others
  MaxCrashes  \* bound: the backend stops

VARIABLES
  ui,    \* the page; downloads: archives the browser keeps
  calls, \* requests the service works on; page: whether the page waits for the answer still
  world  \* data: the directory; backups: of each import; base, expected: what the last
         \* one replaced and should have left, until somebody writes; dirty: history

vars == <<ui, calls, world>>

Empty == [f \in File |-> None]

(* Files of other kinds are chosen as well: an archive of other directories, *)
(* what is no archive and what is not compressed.                            *)
Other == {[is |-> k, files |-> Empty] : k \in {"tar", "none", "plain"}}

Init ==
  /\ ui = [exporting |-> FALSE, importing |-> FALSE, imports |-> 0, crashes |-> 0, writes |-> 0,
           exports |-> 0, downloads |-> {[is |-> "tar", files |-> d] : d \in Exported}]
  /\ calls = {}
  /\ world = [data |-> Data, backups |-> [n \in 1..MaxImports |-> None],
                                 base |-> None, expected |-> None, dirty |-> FALSE]

-----------------------------------------------------------------------------
(* The page. The exporting and the importing button go off by themselves.    *)
Chosen == ui.downloads \cup Other

HandleExport ==
  /\ ~ui.exporting /\ ui.exports < MaxExports
  /\ ui' = [ui EXCEPT !.exporting = TRUE, !.exports = @ + 1]
  /\ calls' = calls \cup {[kind |-> "export", phase |-> "reads", todo |-> File, got |-> Empty, page |-> TRUE]}
  /\ UNCHANGED world

HandleImport(a) ==
  /\ ~ui.importing /\ ui.imports < MaxImports
  /\ ui' = [ui EXCEPT !.importing = TRUE, !.imports = @ + 1]
  /\ calls' = calls \cup {[kind |-> "import", phase |-> "unzips", n |-> ui.imports + 1, archive |-> a,
                           todo |-> {f \in File : a.files[f] # None}, whole |-> TRUE, page |-> TRUE]}
  /\ UNCHANGED world

Then(c, d) == (calls \ {c}) \cup {d}
At(c, phase) == [c EXCEPT !.phase = phase]
Replacing == {c \in calls : c.kind = "import" /\ c.phase = "extracts"}

-----------------------------------------------------------------------------
(* exportData: the archive is made while others write.                       *)
Archives(c, f) ==
  /\ c.kind = "export" /\ c.phase = "reads" /\ f \in c.todo /\ world.data # None
  /\ calls' = Then(c, [c EXCEPT !.todo = @ \ {f}, !.got[f] = world.data[f]])
  /\ UNCHANGED <<ui, world>>

Archived(c) ==
  /\ c.kind = "export" /\ c.phase = "reads" /\ c.todo = {}
  /\ calls' = Then(c, At(c, "done")) /\ UNCHANGED <<ui, world>>

NothingToExport(c) ==
  /\ c.kind = "export" /\ c.phase = "reads" /\ world.data = None
  /\ calls' = Then(c, At(c, "failed")) /\ UNCHANGED <<ui, world>>

-----------------------------------------------------------------------------
(* importData                                                                *)
(* An error of the decompression has no listener: the process ends.          *)
Stops ==
  /\ ui' = [ui EXCEPT !.exporting = FALSE, !.importing = FALSE, !.crashes = @ + 1]
  /\ calls' = {} /\ UNCHANGED world

Unzips(c) ==
  /\ c.kind = "import" /\ c.phase = "unzips" /\ c.archive.is = "plain"
  /\ Stops

(* Bug: there is no backup. *)
NoBackup == None

CopyDir == world.data

(* Bug: the archive is extracted over the data. *)
KeepData == world.data

RemoveData == None

Replaces(c) ==
  /\ c.kind = "import" /\ c.phase = "unzips" /\ c.archive.is # "plain"
  /\ calls' = Then(c, At(c, "extracts"))
  /\ world' = [world EXCEPT !.backups[c.n] = CopyDir, !.data = RemoveData, !.base = world.data, !.expected = None,
                           !.dirty = @ \/ Replacing # {}]
  /\ UNCHANGED ui

BackupFails(c) ==
  /\ c.kind = "import" /\ c.phase = "unzips"
  /\ calls' = Then(c, At(c, "failed")) /\ UNCHANGED <<ui, world>>

Extracts(c, f) ==
  /\ c.kind = "import" /\ c.phase = "extracts" /\ f \in c.todo
  /\ world' = [world EXCEPT !.data = [IF world.data = None THEN Empty ELSE world.data EXCEPT ![f] = c.archive.files[f]]]
  /\ calls' = Then(c, [c EXCEPT !.todo = @ \ {f}]) /\ UNCHANGED ui

(* What an entry cannot be written for is a warning, and so is an archive    *)
(* that ends too early: they do not fail the import.                         *)
Skips(c, fs) ==
  /\ c.kind = "import" /\ c.phase = "extracts" /\ fs # {} /\ fs \subseteq c.todo
  /\ calls' = Then(c, [c EXCEPT !.todo = @ \ fs, !.whole = FALSE])
  /\ UNCHANGED <<ui, world>>

(* Without a backup what was extracted stays. *)
Restore(c) ==
  LET b == world.backups[c.n]
  IN IF b = None THEN world ELSE [world EXCEPT !.data = b, !.backups[c.n] = None]

(* The check of the extraction is that there is a directory.                 *)
Fails(c) == c.todo = {} /\ world.data = None

ExtractFails(c) ==
  /\ c.kind = "import" /\ c.phase = "extracts" /\ Fails(c)
  /\ world' = [Restore(c) EXCEPT !.expected = world.base]
  /\ calls' = Then(c, At(c, "failed")) /\ UNCHANGED ui

(* The disk is full: the backup is not removed then.                         *)
RestoreFails(c, f) ==
  /\ c.kind = "import" /\ c.phase = "extracts" /\ Fails(c) /\ world.backups[c.n] # None
  /\ world' = [world EXCEPT !.data = [Empty EXCEPT ![f] = world.backups[c.n][f]]]
  /\ calls' = Then(c, At(c, "stuck")) /\ UNCHANGED ui

Extracted(c) ==
  /\ c.kind = "import" /\ c.phase = "extracts" /\ ~Fails(c) /\ c.todo = {}
  /\ world' = [world EXCEPT !.backups[c.n] = None, !.base = None, !.expected = IF c.whole THEN c.archive.files ELSE None]
  /\ calls' = Then(c, At(c, "done")) /\ UNCHANGED ui

(* The removal of a backup that is in use: some of it is gone, and what is   *)
(* left takes the place of what was imported.                                *)
RemovalFails(c, f) ==
  /\ c.kind = "import" /\ c.phase = "extracts" /\ ~Fails(c) /\ c.todo = {} /\ world.backups[c.n] # None
  /\ world' = [world EXCEPT !.data = [world.backups[c.n] EXCEPT ![f] = None], !.backups[c.n] = None, !.dirty = TRUE]
  /\ calls' = Then(c, At(c, "failed")) /\ UNCHANGED ui

-----------------------------------------------------------------------------
(* The answer; the page may have given up waiting for it.                    *)
Answered(c) ==
  /\ c.phase \in {"done", "failed", "stuck"}
  /\ ui' = IF ~c.page THEN ui
           ELSE IF c.kind = "import" THEN [ui EXCEPT !.importing = FALSE]
           ELSE IF c.phase = "failed" THEN [ui EXCEPT !.exporting = FALSE]
           ELSE [ui EXCEPT !.exporting = FALSE, !.downloads = @ \cup {[is |-> "tar", files |-> c.got]}]
  /\ calls' = calls \ {c} /\ UNCHANGED world

AnswerLost(c) ==
  /\ c.page /\ c.kind = "import"
  /\ ui' = [ui EXCEPT !.importing = FALSE]
  /\ calls' = Then(c, [c EXCEPT !.page = FALSE]) /\ UNCHANGED world

(* Another service of the backend. *)
Writes(f, v) ==
  /\ world.data # None /\ world.data[f] # v /\ ui.writes < MaxWrites
  /\ ui' = [ui EXCEPT !.writes = @ + 1]
  /\ world' = [world EXCEPT !.data[f] = v, !.base = None, !.expected = None, !.dirty = @ \/ Replacing # {}]
  /\ UNCHANGED calls

Crash ==
  /\ calls # {} /\ ui.crashes < MaxCrashes
  /\ Stops

(* A behaviour is followed until imports or writes met an import.            *)
Next ==
  /\ ~world.dirty
  /\ \/ HandleExport \/ Crash
     \/ \E a \in Chosen : HandleImport(a)
     \/ \E f \in File, v \in Version : Writes(f, v)
     \/ \E c \in calls :
          \/ Archived(c) \/ NothingToExport(c) \/ Unzips(c) \/ Replaces(c) \/ BackupFails(c)
          \/ ExtractFails(c) \/ Extracted(c) \/ Answered(c) \/ AnswerLost(c)
          \/ \E fs \in SUBSET File : Skips(c, fs)
          \/ \E f \in File : Archives(c, f) \/ Extracts(c, f) \/ RestoreFails(c, f) \/ RemovalFails(c, f)

Spec == Init /\ [][Next]_vars

-----------------------------------------------------------------------------
(* What an import has begun to replace is in its place or in a backup until  *)
(* the import succeeds, even when the backend stopped half way.              *)
KeptSomewhere ==
  world.base # None /\ ~world.dirty =>
    world.data = world.base \/ \E n \in DOMAIN world.backups : world.backups[n] = world.base

(* An import that succeeded has left the archive and nothing else, if every  *)
(* entry could be read and written, and one that failed what was there,      *)
(* unless it could not restore; until somebody writes.                      *)
LeftAsPromised == world.expected # None /\ ~world.dirty => world.data = world.expected
=============================================================================
