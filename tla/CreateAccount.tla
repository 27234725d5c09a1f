--------------------------- MODULE CreateAccount ---------------------------
(* The dialog that creates an account (CreateAccountDialog) and the account  *)
(* service behind it: two guardian passkeys and a deployment at birth, or    *)
(* two guardians who sign an acceptance hash on their own devices.  The      *)
(* dialog stays mounted when it is closed: answers come to a dialog that was *)
(* reset meanwhile.                                                          *)
EXTENDS Naturals, FiniteSets

CONSTANTS
  Guardian,    \* who may be asked to sign
  Key,         \* the passkeys authenticators make
  Version,     \* entry point versions
  None,
  MaxPrepared, \* bound: acceptance hashes prepared
  MaxClosed    \* bound: closings and resets

VARIABLES
  ui,    \* the dialog
  calls, \* requests and ceremonies in flight
  world  \* hashes prepared, closings, whether a ceremony outlived its dialog

vars == <<ui, calls, world>>

Signer == 1..2
Unsigned == [who |-> None, hash |-> None]

(* handleReset: neither loading nor the version is reset. *)
Reset(d) ==
  [d EXCEPT !.step = "config", !.mode = "passkey", !.prep = None, !.limit = TRUE,
            !.sigs = [g \in Signer |-> Unsigned], !.slots = [g \in Signer |-> None], !.slot = 0]

Init ==
  /\ \E v \in Version :
       ui = Reset([open |-> TRUE, mode |-> "passkey", version |-> v, limit |-> TRUE, loading |-> FALSE,
                   step |-> "config", prep |-> None, sigs |-> <<>>, slots |-> <<>>, slot |-> 0])
  /\ calls = {}
  /\ world = [prepared |-> 0, closed |-> 0, stray |-> FALSE]

Show == ~ui.open /\ ui' = [ui EXCEPT !.open = TRUE] /\ UNCHANGED <<calls, world>>

(* Cancel, the cross, the backdrop: all but while an account is created. *)
Close ==
  /\ ui.open /\ ui.step # "creating" /\ world.closed < MaxClosed
  /\ ui' = [Reset(ui) EXCEPT !.open = FALSE]
  /\ world' = [world EXCEPT !.closed = @ + 1,
                            !.stray = @ \/ \E c \in calls : c.kind = "slot"]
  /\ UNCHANGED calls

Config == ui.open /\ ui.step = "config"

(* Choosing ECDSA guardians clears the limit, passkeys bring a default back. *)
SelectMode(mode) ==
  /\ Config /\ ~ui.loading
  /\ ui' = [ui EXCEPT !.mode = mode, !.limit = IF mode = "ecdsa" THEN FALSE ELSE TRUE]
  /\ UNCHANGED <<calls, world>>

EditConfig(v) ==
  /\ Config /\ ~ui.loading
  /\ \E set \in (IF ui.mode = "ecdsa" THEN BOOLEAN ELSE {ui.limit}) :
       ui' = [ui EXCEPT !.version = v, !.limit = set]
  /\ UNCHANGED <<calls, world>>

-----------------------------------------------------------------------------
(* The passkeys of the guardians. *)
HandleCreateGuardianSlot(g) ==
  /\ Config /\ ui.mode = "passkey" /\ ~ui.loading /\ ui.slot = 0
  /\ ui' = [ui EXCEPT !.slot = g]
  /\ calls' = calls \cup {[kind |-> "slot", slot |-> g, other |-> ui.slots[3 - g]]}
  /\ UNCHANGED world

(* Bug: the key is not compared with that of the other slot. *)
SlotMadeUnchecked(c, key) ==
  /\ c.kind = "slot"
  /\ ui' = [ui EXCEPT !.slot = 0, !.slots[c.slot] = key]
  /\ calls' = calls \ {c} /\ UNCHANGED world

(* The other slot is as it was when the ceremony began. *)
SlotMade(c, key) ==
  /\ c.kind = "slot"
  /\ ui' = [ui EXCEPT !.slot = 0, !.slots[c.slot] = IF key = c.other THEN @ ELSE key]
  /\ calls' = calls \ {c} /\ UNCHANGED world

SlotCancelled(c) ==
  /\ c.kind = "slot"
  /\ ui' = [ui EXCEPT !.slot = 0]
  /\ calls' = calls \ {c} /\ UNCHANGED world

(* handleCreatePasskeyAccount: the limit is that of the tier profile. *)
HandleCreatePasskeyAccount ==
  /\ Config /\ ui.mode = "passkey" /\ ~ui.loading /\ ui.slot = 0
  /\ \A g \in Signer : ui.slots[g] # None
  /\ ui' = [ui EXCEPT !.loading = TRUE, !.step = "creating"]
  /\ calls' = calls \cup {[kind |-> "birth", keys |-> {ui.slots[1], ui.slots[2]}]}
  /\ UNCHANGED world

(* prepareCreateWithPasskey has a challenge for the owner to sign... *)
BirthPrepared(c) ==
  /\ c.kind = "birth"
  /\ calls' = (calls \ {c}) \cup {[kind |-> "submit", fields |-> {"createId", "credential"}]}
  /\ UNCHANGED <<ui, world>>

(* ... which the dialog does not name again when it submits the signature:   *)
(* the validation of SubmitCreateWithPasskeyDto answers 400.  Every other    *)
(* way this flow ends is a failure as well.                                  *)
Required == {"createId", "challengeId", "credential"}

BirthFailed(c) ==
  /\ c.kind \in {"birth", "submit"}
  /\ ui' = [ui EXCEPT !.loading = FALSE, !.step = "config"]
  /\ calls' = calls \ {c} /\ UNCHANGED world

-----------------------------------------------------------------------------
(* Guardians who sign. *)
(* handlePrepare: the request names the version, and no limit. *)
HandlePrepare ==
  /\ Config /\ ui.mode = "ecdsa" /\ ~ui.loading /\ ui.slot = 0 /\ world.prepared < MaxPrepared
  /\ ui' = [ui EXCEPT !.loading = TRUE]
  /\ calls' = calls \cup {[kind |-> "prepare", version |-> ui.version]}
  /\ UNCHANGED world

(* prepareGuardianSetup binds owner, salt, factory and limit in the hash. *)
Prepared(c) ==
  /\ c.kind = "prepare"
  /\ ui' = [ui EXCEPT !.loading = FALSE, !.step = "guardian1",
                      !.prep = [salt |-> world.prepared + 1, version |-> c.version, limit |-> FALSE]]
  /\ world' = [world EXCEPT !.prepared = @ + 1]
  /\ calls' = calls \ {c}

PrepareFailed(c) ==
  /\ c.kind = "prepare"
  /\ ui' = [ui EXCEPT !.loading = FALSE]
  /\ calls' = calls \ {c} /\ UNCHANGED world

(* A guardian scans the code and the user pastes the signature. *)
Paste(g, who) ==
  /\ ui.open /\ ui.step = (IF g = 1 THEN "guardian1" ELSE "guardian2") /\ ~ui.loading
  /\ ui' = [ui EXCEPT !.sigs[g] = [who |-> who, hash |-> ui.prep]]
  /\ UNCHANGED <<calls, world>>

HandleGuardian1Next ==
  /\ ui.open /\ ui.step = "guardian1" /\ ui.sigs[1] # Unsigned
  /\ ui' = [ui EXCEPT !.step = "guardian2"]
  /\ UNCHANGED <<calls, world>>

(* Bug: what the first guardian signed is kept. *)
BackKeeping ==
  /\ ui.open /\ world.closed < MaxClosed
  /\ \/ ui.step = "guardian1" /\ ui' = [Reset(ui) EXCEPT !.sigs = ui.sigs]
     \/ ui.step = "guardian2" /\ ~ui.loading /\ ui' = [ui EXCEPT !.step = "guardian1"]
  /\ world' = [world EXCEPT !.closed = @ + 1]
  /\ UNCHANGED calls

(* Back: from the first guardian to a dialog that is reset. *)
Back ==
  /\ ui.open /\ world.closed < MaxClosed
  /\ \/ ui.step = "guardian1" /\ ui' = Reset(ui)
     \/ ui.step = "guardian2" /\ ~ui.loading /\ ui' = [ui EXCEPT !.step = "guardian1"]
  /\ world' = [world EXCEPT !.closed = @ + 1]
  /\ UNCHANGED calls

HandleCreate ==
  /\ ui.open /\ ui.step = "guardian2" /\ ~ui.loading /\ ui.sigs[2] # Unsigned
  /\ ui.sigs[1].who # ui.sigs[2].who
  /\ ui' = [ui EXCEPT !.step = "creating", !.loading = TRUE]
  /\ calls' = calls \cup {[kind |-> "create", sigs |-> ui.sigs,
                           hash |-> [salt |-> ui.prep.salt, version |-> ui.version, limit |-> ui.limit]]}
  /\ UNCHANGED world

(* createWithGuardians: the factory takes signatures over what is created. *)
Acceptable(c) == \A g \in Signer : c.sigs[g].hash = c.hash

Created(c) ==
  /\ c.kind = "create" /\ Acceptable(c)
  /\ ui' = [Reset(ui) EXCEPT !.loading = FALSE, !.open = FALSE]
  /\ calls' = calls \ {c} /\ UNCHANGED world

CreateFailed(c) ==
  /\ c.kind = "create"
  /\ ui' = [ui EXCEPT !.loading = FALSE, !.step = "guardian2"]
  /\ calls' = calls \ {c} /\ UNCHANGED world

Answer(c) ==
  \/ SlotCancelled(c) \/ \E key \in Key : SlotMade(c, key)
  \/ BirthPrepared(c) \/ BirthFailed(c)
  \/ Prepared(c) \/ PrepareFailed(c)
  \/ Created(c) \/ CreateFailed(c)

Next ==
  \/ Show \/ Close \/ Back
  \/ \E mode \in {"passkey", "ecdsa"} : SelectMode(mode)
  \/ \E v \in Version : EditConfig(v)
  \/ \E g \in Signer : HandleCreateGuardianSlot(g) \/ \E who \in Guardian : Paste(g, who)
  \/ HandleCreatePasskeyAccount \/ HandlePrepare \/ HandleGuardian1Next \/ HandleCreate
  \/ \E c \in calls : Answer(c)

-----------------------------------------------------------------------------
(* A step shows what it is about, also when a late answer opens it in a     *)
(* dialog that was closed and reset: the code of a hash on the steps of the *)
(* guardians, and for the second one what the first one signed of it.       *)
StepBacked ==
  /\ ui.step \in {"guardian1", "guardian2"} => ui.prep # None
  /\ ui.step = "guardian2" => ui.sigs[1].hash = ui.prep

(* What is created is of the salt and the version both guardians signed,    *)
(* whatever was closed, gone back to and answered late in between.  (Not of *)
(* the limit: see LimitAsSigned.)                                           *)
CreatedAsSigned ==
  \A c \in calls : c.kind = "create" =>
    \A g \in Signer :
      c.sigs[g].hash.salt = c.hash.salt /\ c.sigs[g].hash.version = c.hash.version

(* guardian-setup.dto.ts: the limit of the preparation MUST match the value *)
(* of the create step.  The dialog sends it in the second one only.         *)
LimitAsSigned ==
  \A c \in calls : c.kind = "create" => \A g \in Signer : c.sigs[g].hash.limit = c.hash.limit

(* The two passkeys of a birth differ, unless a ceremony outlived the dialog *)
(* it was begun in: it does not know the slots of the next one.              *)
KeysDiffer ==
  ~world.stray => \A c \in calls : c.kind = "birth" => Cardinality(c.keys) = 2

(* A submitted birth holds what its DTO requires. *)
SubmitIsWhole == \A c \in calls : c.kind = "submit" => Required \subseteq c.fields

Busy == ui.loading \/ ui.slot # 0
=============================================================================
