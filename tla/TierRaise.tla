----------------------------- MODULE TierRaise ------------------------------
(* The page that raises the tier limits of an account (tier-raise): two of   *)
(* its guardians sign a digest of the new limits in the wallet of the        *)
(* browser, one after the other, and the account sends the change to itself. *)
(* The digest binds a nonce of the account and a deadline.                   *)
EXTENDS Naturals, Sequences, FiniteSets

CONSTANTS
  Amount,    \* limits a user may type
  Signer,    \* accounts of the wallet
  Guardian,  \* those that are guardians of the account
  None,
  MaxStarts, \* bound: digests that are asked for
  MaxForeign \* bound: changes made from another device

VARIABLES
  ui,    \* the page; starts counts digests
  calls, \* what the page waits for
  world  \* limits and nonce of the account, operations, the wallet's account, past deadlines

vars == <<ui, calls, world>>

Quorum == 2

Init ==
  /\ ui = [t1 |-> None, t2 |-> None, busy |-> FALSE, pending |-> None, sigs |-> <<>>, current |-> None, starts |-> 0]
  /\ calls = {[kind |-> "load"]}
  /\ \E s \in Signer : world = [limits |-> <<0, 0>>, nonce |-> 0, foreign |-> 0, ops |-> {}, expired |-> {}, selected |-> s]

Digest(t1, t2, deadline) == [t1 |-> t1, t2 |-> t2, deadline |-> deadline, nonce |-> world.nonce]

(* modifyTierLimitsWithGuardians of the account: what it recomputes the      *)
(* digest of is the call's own limits and deadline and its present nonce.    *)
Takes(op) ==
  /\ op.deadline \notin world.expired
  /\ Cardinality({op.sigs[i].signer : i \in {j \in 1..Len(op.sigs) :
       op.sigs[j].signer \in Guardian /\ op.sigs[j].digest = Digest(op.t1, op.t2, op.deadline)}}) >= Quorum

-----------------------------------------------------------------------------
(* load; a read that fails is shown as limits of zero.                       *)
Loaded(c) ==
  /\ c.kind = "load"
  /\ \E limits \in {world.limits, <<0, 0>>} : ui' = [ui EXCEPT !.current = limits, !.busy = FALSE]
  /\ calls' = calls \ {c} /\ UNCHANGED world

Form == ui.current # None /\ ~ui.busy

(* Bug: the limits can be typed after the guardians have their digest. *)
EditableThroughout == Form

Editable == Form /\ ui.pending = None

EditTier1(a) == Editable /\ ui' = [ui EXCEPT !.t1 = a] /\ UNCHANGED <<calls, world>>

EditTier2(a) == Editable /\ ui' = [ui EXCEPT !.t2 = a] /\ UNCHANGED <<calls, world>>

Waits(c) == ui' = [ui EXCEPT !.busy = TRUE] /\ calls' = calls \cup {c} /\ UNCHANGED world

Failed(c) ==
  /\ c.kind \in {"start", "ask", "sign", "submit", "sent"}
  /\ ui' = [ui EXCEPT !.busy = FALSE]
  /\ calls' = calls \ {c} /\ UNCHANGED world

-----------------------------------------------------------------------------
Start ==
  /\ Form /\ ui.pending = None /\ None \notin {ui.t1, ui.t2} /\ ui.starts < MaxStarts
  /\ ~(ui.t2 > 0 /\ ui.t1 > ui.t2)
  /\ Waits([kind |-> "start"])

Started(c) ==
  /\ c.kind = "start"
  /\ ui' = [ui EXCEPT !.pending = Digest(ui.t1, ui.t2, ui.starts + 1), !.sigs = <<>>, !.busy = FALSE, !.starts = @ + 1]
  /\ calls' = calls \ {c} /\ UNCHANGED world

CollectSig ==
  /\ Form /\ ui.pending # None /\ Len(ui.sigs) < Quorum
  /\ Waits([kind |-> "ask"])

(* Bug: one guardian may sign twice. *)
AnySigner(signer) == TRUE

Distinct(signer) == \A i \in 1..Len(ui.sigs) : ui.sigs[i].signer # signer

(* eth_requestAccounts: the account that is selected now.                    *)
Asked(c) ==
  /\ c.kind = "ask"
  /\ IF Distinct(world.selected)
     THEN calls' = (calls \ {c}) \cup {[kind |-> "sign", signer |-> world.selected]} /\ UNCHANGED ui
     ELSE calls' = calls \ {c} /\ ui' = [ui EXCEPT !.busy = FALSE]
  /\ UNCHANGED world

Signed(c) ==
  /\ c.kind = "sign"
  /\ ui' = [ui EXCEPT !.sigs = Append(@, [signer |-> c.signer, digest |-> ui.pending]), !.busy = FALSE]
  /\ calls' = calls \ {c} /\ UNCHANGED world

Cancel ==
  /\ Form /\ ui.pending # None
  /\ ui' = [ui EXCEPT !.pending = None, !.sigs = <<>>]
  /\ UNCHANGED <<calls, world>>

-----------------------------------------------------------------------------
Submittable == Form /\ ui.pending # None /\ Len(ui.sigs) >= Quorum

(* The limits are read from the form once more.                              *)
Call == [t1 |-> ui.t1, t2 |-> ui.t2, deadline |-> ui.pending.deadline, sigs |-> ui.sigs]

Submit == Submittable /\ Waits([kind |-> "submit", op |-> Call])

(* prepare, the passkey and submit of the transfer service; the bundler      *)
(* refuses what the account would not take, which is answered as a failure.  *)
Sends(c) ==
  /\ c.kind = "submit" /\ Takes(c.op)
  /\ world' = [world EXCEPT !.ops = @ \cup {c.op}]
  /\ calls' = (calls \ {c}) \cup {[kind |-> "sent"]}
  /\ UNCHANGED ui

(* The operation need not be mined when the limits are read again.           *)
Submitted(c) ==
  /\ c.kind = "sent"
  /\ ui' = [ui EXCEPT !.pending = None, !.sigs = <<>>, !.t1 = None, !.t2 = None]
  /\ calls' = (calls \ {c}) \cup {[kind |-> "load"]}
  /\ UNCHANGED world

-----------------------------------------------------------------------------
(* The chain, the wallet, the clock and another device of the owner.         *)
Mined(op) ==
  /\ world' = IF Takes(op) THEN [world EXCEPT !.ops = @ \ {op}, !.limits = <<op.t1, op.t2>>, !.nonce = @ + 1]
              ELSE [world EXCEPT !.ops = @ \ {op}]
  /\ UNCHANGED <<ui, calls>>

SwitchAccount(s) == world' = [world EXCEPT !.selected = s] /\ UNCHANGED <<ui, calls>>

Expires ==
  /\ ui.pending # None /\ world' = [world EXCEPT !.expired = @ \cup {ui.pending.deadline}]
  /\ UNCHANGED <<ui, calls>>

ForeignRaise(a) ==
  /\ world.foreign < MaxForeign
  /\ world' = [world EXCEPT !.limits = <<a, a>>, !.nonce = @ + 1, !.foreign = @ + 1]
  /\ UNCHANGED <<ui, calls>>

Next ==
  \/ Start \/ CollectSig \/ Cancel \/ Submit \/ Expires
  \/ \E a \in Amount : EditTier1(a) \/ EditTier2(a) \/ ForeignRaise(a)
  \/ \E s \in Signer : SwitchAccount(s)
  \/ \E op \in world.ops : Mined(op)
  \/ \E c \in calls : Loaded(c) \/ Started(c) \/ Asked(c) \/ Signed(c) \/ Sends(c) \/ Submitted(c) \/ Failed(c)

Spec == Init /\ [][Next]_vars

-----------------------------------------------------------------------------
(* What the guardians signed is what is sent: while signatures are kept, the *)
(* form holds the limits of the digest each of them is over.                 *)
SignedIsSent ==
  ui.pending # None => /\ ui.t1 = ui.pending.t1 /\ ui.t2 = ui.pending.t2
                       /\ \A i \in 1..Len(ui.sigs) : ui.sigs[i].digest = ui.pending

(* A submission that is offered is taken by the account, if those who signed *)
(* are guardians, the hour has not passed and nobody else changed the        *)
(* limits since the digest was read.                                         *)
SubmitIsTaken ==
  /\ Submittable
  /\ \A i \in 1..Len(ui.sigs) : ui.sigs[i].signer \in Guardian
  /\ ui.pending.deadline \notin world.expired /\ ui.pending.nonce = world.nonce
  => Takes(Call)
=============================================================================
