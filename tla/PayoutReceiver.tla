--------------------------- MODULE PayoutReceiver ---------------------------
(***************************************************************************)
(* The per-intent receiver of a provider-funded EVM payout: the contract   *)
(* that turns delivered tokens into the client's lock                      *)
(* (contracts/IntentReceiver.sol) and the backend that reads it through a  *)
(* node whose chain may be replaced between any two answers                *)
(* (evm/receiverBackend.ts, evm/claimEvidence.ts).  A header's hash is the *)
(* height and the branch its block was made on.  The block number is the   *)
(* only clock.  Who calls the backend, and when, is the funding adapter's  *)
(* affair: any call may come at any time, one after the other.             *)
(***************************************************************************)
EXTENDS Integers, Sequences, FiniteSets

CONSTANTS
  Confirmations,  \* how deep a block must lie to be acted on
  Amount,         \* the quoted payout
  Cutoff,         \* activationCutoff
  Timelock,       \* the lock's refund height
  Scenes,         \* where the chain stands, what it holds, what is sent, who does what
  MaxDelivered,   \* bound on what the provider delivers
  MaxBlocks,      \* bound on the blocks followed
  MaxForks       \* bound on replaced branches

VARIABLES
  scene,    \* the scene followed
  blocks,   \* the canonical chain
  branch,   \* how often it was replaced
  settled,  \* the blocks that were Confirmations deep once
  deep,     \* such a block was replaced
  signed,   \* the journal's transactions
  aired,    \* those broadcast
  call,     \* the backend call in progress
  told      \* block behind the last answer of each kind, 0 without one

(* The height under the first block followed. *)
base == scene.base
receiverVars == <<scene, blocks, branch, settled, deep, signed, aired, call, told>>

Locks == {"none", "open", "claimed", "refunded"}
World == [bal : 0..MaxDelivered, active : BOOLEAN, lock : Locks]
Own == {"activate", "recover", "refund"}
(* A claim or a refund of this very lock, called directly or by another       *)
(* contract, one of a twin under the same hash, or nothing of interest.       *)
Events == {"claim", "nested", "twin", "refunded", "nestedRefund", "none"}
Block == [branch : 0..MaxForks, own : Own \cup {"none"}, ok : BOOLEAN, log : Events, world : World]
Header == [h : 0..MaxBlocks, branch : 0..MaxForks]
NoHeader == [h |-> 0, branch |-> 0]

Operations == {"activate", "prepare", "resolve", "recover", "refund", "claimEvidence", "refundEvidence"}
Inspecting == {"activate", "prepare", "resolve", "recover"}
CallSteps == {"idle", "view", "target", "read", "stable", "stableTip", "act",
              "logs", "receipt", "header", "depth", "again", "final"}
Unread == [bal |-> 0, active |-> FALSE, lock |-> "none"]
CallType == [op : Operations, pc : CallSteps, tip : Header, seen : Header, world : World, logs : SUBSET Header]
NoBackendCall == [op |-> "activate", pc |-> "idle", tip |-> NoHeader, seen |-> NoHeader, world |-> Unread, logs |-> {}]
Answers == {"claim", "refund", "alarm"}
Nothing == [k \in Answers |-> 0]

(* What readPolicy requires, and scenes the backend itself leads to: an activation it sent was funded or too late, *)
(* a refund was mature.                                                       *)
Deeds == {"deliver", "activate", "recover", "lock", "claim", "twin", "refund"}
SceneType == [base : Nat, world : World, sent : SUBSET Own, deeds : SUBSET Deeds, ops : SUBSET Operations]
ASSUME ReceiverAssumption ==
  /\ Confirmations \in Nat \ {0} /\ MaxBlocks \in Nat \ {0}
  /\ {Amount, Cutoff, Timelock, MaxDelivered, MaxForks} \subseteq Nat
  /\ Scenes \subseteq SceneType
  /\ \A s \in Scenes :
       /\ "activate" \in s.sent => s.world.active \/ s.world.bal >= Amount \/ s.base + 1 >= Cutoff
       /\ "refund" \in s.sent => s.base + 1 >= Timelock

Max2(a, b) == IF a > b THEN a ELSE b
Depth(n) == Max2(0, (n + 1) - Confirmations)

ReceiverInit ==
  /\ scene \in Scenes
  /\ blocks = <<[branch |-> 0, own |-> "none", ok |-> TRUE, log |-> "none", world |-> scene.world]>>
  /\ aired = scene.sent
  /\ signed = scene.sent
  /\ branch = 0
  /\ settled = Depth(1)
  /\ deep = FALSE
  /\ call = NoBackendCall
  /\ told = Nothing

-----------------------------------------------------------------------------
(* The contracts, in a block of the given height.                             *)
tipWorld == blocks[Len(blocks)].world

(* IntentReceiver.activate *)
MayActivate(w, n) == ~w.active /\ n < Cutoff /\ w.bal >= Amount /\ w.lock # "open"
activate(w) == [bal |-> w.bal - Amount, active |-> TRUE, lock |-> "open"]

(* IntentReceiver.recover: until the cutoff only what exceeds the amount of a *)
(* receiver not yet activated.                                                *)
Recoverable(w, n) ==
  IF ~w.active /\ n < Cutoff THEN Max2(w.bal, Amount) - Amount ELSE w.bal
recover(w, n) == [w EXCEPT !.bal = @ - Recoverable(w, n)]

(* ERC20Swap.refund *)
MayRefund(w, n) == w.lock = "open" /\ n >= Timelock

(* What the solver's own transaction does there; a reverted one spends its    *)
(* nonce and changes nothing.                                                 *)
Succeeds(t, w, n) ==
  CASE t = "activate" -> MayActivate(w, n)
    [] t = "recover" -> Recoverable(w, n) > 0
    [] t = "refund" -> MayRefund(w, n)
Effect(t, w, n) ==
  CASE t = "activate" -> activate(w)
    [] t = "recover" -> recover(w, n)
    [] t = "refund" -> [w EXCEPT !.lock = "refunded"]

-----------------------------------------------------------------------------
(* The chain *)
Grow(own, ok, log, w) ==
  /\ Len(blocks) < MaxBlocks
  /\ blocks' = Append(blocks, [branch |-> branch, own |-> own, ok |-> ok, log |-> log, world |-> w])
  /\ settled' = Max2(settled, Depth(Len(blocks) + 1))
  /\ UNCHANGED <<scene, branch, deep, signed, aired, call, told>>
Height == base + Len(blocks) + 1

OwnMined == {blocks[k].own : k \in DOMAIN blocks}
MineOwn(t) ==
  /\ t \in aired \ OwnMined
  /\ LET ok == Succeeds(t, tipWorld, Height)
     IN Grow(t, ok, IF t = "refund" /\ ok THEN "refunded" ELSE "none",
             IF ok THEN Effect(t, tipWorld, Height) ELSE tipWorld)

Empty == Grow("none", TRUE, "none", tipWorld)
(* Others' transactions, of the kinds the scene has. *)
Others(kind) == kind \in scene.deeds
Deliver ==
  /\ Others("deliver")
  /\ tipWorld.bal < MaxDelivered
  /\ Grow("none", TRUE, "none", [tipWorld EXCEPT !.bal = @ + 1])
(* activate and recover are anybody's to call, and so is the swap's lock.     *)
StrangerActivates ==
  /\ Others("activate")
  /\ MayActivate(tipWorld, Height)
  /\ Grow("none", TRUE, "none", activate(tipWorld))
StrangerRecovers ==
  /\ Others("recover")
  /\ Recoverable(tipWorld, Height) > 0
  /\ Grow("none", TRUE, "none", recover(tipWorld, Height))
StrangerLocks ==
  /\ Others("lock")
  /\ tipWorld.lock # "open"
  /\ Grow("none", TRUE, "none", [tipWorld EXCEPT !.lock = "open"])
ClientClaims(log) ==
  /\ Others("claim")
  /\ tipWorld.lock = "open"
  /\ Grow("none", TRUE, log, [tipWorld EXCEPT !.lock = "claimed"])
TwinClaimed ==
  /\ Others("twin")
  /\ \A k \in DOMAIN blocks : blocks[k].log # "twin"
  /\ Grow("none", TRUE, "twin", tipWorld)
StrangerRefunds(log) ==
  /\ Others("refund")
  /\ MayRefund(tipWorld, Height)
  /\ Grow("none", TRUE, log, [tipWorld EXCEPT !.lock = "refunded"])

(* The blocks above the n-th are replaced; an answer that rests on one of     *)
(* them counted only while the chain kept what was Confirmations deep.        *)
Fork(n) ==
  /\ branch < MaxForks
  /\ n \in 1..(Len(blocks) - 1)
  /\ blocks' = SubSeq(blocks, 1, n)
  /\ branch' = branch + 1
  /\ deep' = (deep \/ n < settled)
  /\ settled' = IF n < settled THEN n ELSE settled
  /\ told' = IF n < settled THEN [k \in Answers |-> IF told[k] > n THEN 0 ELSE told[k]] ELSE told
  /\ UNCHANGED <<scene, signed, aired, call>>

-----------------------------------------------------------------------------
(* The backend.  Every read of the node is a step; a check that fails throws  *)
(* and ends the call.                                                         *)
chainState == <<scene, blocks, branch, settled, deep>>
tellers == <<chainState, signed, aired, told>>
HeaderAt(n) == [h |-> n, branch |-> blocks[n].branch]
(* Mutant: the node is asked for the number and the hash is not compared. *)
CanonicalByNumber(hd) == hd.h <= Len(blocks)
Canonical(hd) == hd.h <= Len(blocks) /\ blocks[hd.h].branch = hd.branch
AtStep(pc) == call.pc = pc
Proceed(pc) == call' = [call EXCEPT !.pc = pc]
EndCall == call' = NoBackendCall

Start(op) ==
  /\ AtStep("idle")
  /\ call' = [NoBackendCall EXCEPT !.op = op, !.pc = "view"]
  /\ UNCHANGED tellers

(* view: the tip first, then the highest block the policy's depth admits; the *)
(* finalized tag and the age only take an earlier one.                        *)
View ==
  /\ AtStep("view")
  /\ IF Depth(Len(blocks)) = 0 THEN EndCall
     ELSE call' = [call EXCEPT !.pc = "target", !.tip = HeaderAt(Len(blocks))]
  /\ UNCHANGED tellers
Targets(tip) == {n \in 1..Depth(tip) : n + 1 >= Depth(tip)}
Target ==
  /\ AtStep("target")
  /\ \E n \in Targets(call.tip.h) :
       IF n > Len(blocks) THEN EndCall
       ELSE call' = [call EXCEPT !.seen = HeaderAt(n),
              !.pc = CASE call.op \in Inspecting -> "read"
                       [] call.op = "refund" -> "act"
                       [] OTHER -> "logs"]
  /\ UNCHANGED tellers

(* inspect: every read names the observed block by its hash. *)
ReadWorld ==
  /\ AtStep("read")
  /\ IF Canonical(call.seen)
     THEN call' = [call EXCEPT !.pc = "stable", !.world = blocks[call.seen.h].world]
     ELSE EndCall
  /\ UNCHANGED tellers
Stable ==
  /\ AtStep("stable")
  /\ IF Canonical(call.seen) THEN Proceed("stableTip") ELSE EndCall
  /\ UNCHANGED tellers
(* An allowlisted swap contract keeps its tokens, so a lock is always backed. *)
InvalidExactLock(w) == w.lock = "open" /\ ~w.active
StableTip ==
  /\ AtStep("stableTip")
  /\ LET raised == Canonical(call.tip) /\ InvalidExactLock(call.world)
     IN /\ IF Canonical(call.tip) /\ ~raised THEN Proceed("act") ELSE EndCall
        /\ told' = IF raised THEN [told EXCEPT !["alarm"] = call.seen.h] ELSE told
  /\ UNCHANGED <<chainState, signed, aired>>

(* currentClock is the tip's. *)
Activatable == call.world.bal >= Amount /\ base + call.tip.h < Cutoff
Sign(t) == signed' = signed \cup {t}
SignAndSend(t) == Sign(t) /\ aired' = aired \cup {t}

ActActivate ==
  /\ AtStep("act") /\ call.op = "activate"
  /\ IF call.world.active \/ Activatable THEN SignAndSend("activate") ELSE UNCHANGED <<signed, aired>>
  /\ EndCall
  /\ UNCHANGED <<chainState, told>>
PrepareActivation ==
  /\ AtStep("act") /\ call.op = "prepare"
  /\ IF ~call.world.active /\ Activatable THEN Sign("activate") ELSE UNCHANGED signed
  /\ EndCall
  /\ UNCHANGED <<chainState, aired, told>>
(* resolveExpiredActivation replays what was prepared and nothing else. *)
ResolveExpired ==
  /\ AtStep("act") /\ call.op = "resolve"
  /\ aired' = IF base + call.tip.h >= Cutoff THEN aired \cup (signed \cap {"activate"}) ELSE aired
  /\ EndCall
  /\ UNCHANGED <<chainState, signed, told>>
ActRecover ==
  /\ AtStep("act") /\ call.op = "recover"
  /\ SignAndSend("recover")
  /\ EndCall
  /\ UNCHANGED <<chainState, told>>
(* refund reads the clock at the observed height. *)
ActRefund ==
  /\ AtStep("act") /\ call.op = "refund"
  /\ IF base + call.seen.h >= Timelock THEN SignAndSend("refund") ELSE UNCHANGED <<signed, aired>>
  /\ EndCall
  /\ UNCHANGED <<chainState, told>>
BroadcastRaw ==
  /\ ~ signed \subseteq aired
  /\ aired' = signed
  /\ UNCHANGED <<chainState, signed, call, told>>

-----------------------------------------------------------------------------
(* Evidence: the logs up to the observed height, oldest first. *)
ClaimLogs == {"claim", "nested", "twin"}
RefundLogs == {"refunded", "nestedRefund"}
Wanted == IF call.op = "claimEvidence" THEN ClaimLogs ELSE RefundLogs
GetLogs ==
  /\ AtStep("logs")
  /\ LET found == {n \in 1..Len(blocks) : n <= call.seen.h /\ blocks[n].log \in Wanted}
     IN IF found = {} THEN EndCall
        ELSE call' = [call EXCEPT !.pc = "receipt", !.logs = {HeaderAt(n) : n \in found}]
  /\ UNCHANGED tellers

Candidate == CHOOSE hd \in call.logs : \A other \in call.logs : hd.h <= other.h
NextLog ==
  IF Cardinality(call.logs) = 1 THEN EndCall
  ELSE call' = [call EXCEPT !.pc = "receipt", !.logs = @ \ {Candidate}]

(* The receipt names the log's block and the transaction makes the exact call *)
(* for this lock; a call through another contract needs the node's trace,     *)
(* which it may not have.                                                     *)
ExactCall(log) == log \in {"claim", "nested", "refunded"}
ReadReceipt ==
  /\ AtStep("receipt")
  /\ \/ IF Canonical(Candidate) /\ ExactCall(blocks[Candidate.h].log)
        THEN Proceed("header") ELSE NextLog
     \/ /\ Canonical(Candidate) /\ blocks[Candidate.h].log = "nested"
        /\ EndCall
  /\ UNCHANGED tellers
ReadHeader ==
  /\ AtStep("header") /\ call.op = "claimEvidence"
  /\ IF Canonical(Candidate) THEN Proceed("depth") ELSE NextLog
  /\ UNCHANGED tellers
(* canonicalReceipt throws where the claim's verification moves on. *)
CanonicalReceipt ==
  /\ AtStep("header") /\ call.op = "refundEvidence"
  /\ IF Canonical(Candidate) THEN Proceed("final") ELSE EndCall
  /\ UNCHANGED tellers
ReadDepth ==
  /\ AtStep("depth")
  /\ IF Candidate.h <= Depth(Len(blocks)) THEN Proceed("again") ELSE NextLog
  /\ UNCHANGED tellers
ReadHeaderAgain ==
  /\ AtStep("again")
  /\ IF Canonical(Candidate) THEN Proceed("final") ELSE NextLog
  /\ UNCHANGED tellers
(* stable(observed), and the answer. *)
StillStable == Canonical(call.seen)
TellEvidence ==
  /\ AtStep("final")
  /\ told' = IF ~StillStable THEN told
             ELSE IF call.op = "claimEvidence" THEN [told EXCEPT !["claim"] = Candidate.h]
             ELSE [told EXCEPT !["refund"] = Candidate.h]
  /\ EndCall
  /\ UNCHANGED <<chainState, signed, aired>>

(* The node fails, or the process dies: the call ends. *)
Fault ==
  /\ ~AtStep("idle")
  /\ EndCall
  /\ UNCHANGED tellers

-----------------------------------------------------------------------------
Chain ==
  \/ \E t \in Own : MineOwn(t)
  \/ Empty
  \/ Deliver
  \/ StrangerActivates
  \/ StrangerRecovers
  \/ StrangerLocks
  \/ \E log \in {"claim", "nested"} : ClientClaims(log)
  \/ TwinClaimed
  \/ \E log \in RefundLogs : StrangerRefunds(log)
  \/ \E n \in 1..MaxBlocks : Fork(n)
Backend ==
  \/ \E op \in scene.ops : Start(op)
  \/ View
  \/ Target
  \/ ReadWorld
  \/ Stable
  \/ StableTip
  \/ ActActivate
  \/ PrepareActivation
  \/ ResolveExpired
  \/ ActRecover
  \/ ActRefund
  \/ BroadcastRaw
  \/ GetLogs
  \/ ReadReceipt
  \/ ReadHeader
  \/ CanonicalReceipt
  \/ ReadDepth
  \/ ReadHeaderAgain
  \/ TellEvidence
  \/ Fault
ReceiverNext == Chain \/ Backend
ReceiverSpec == ReceiverInit /\ [][ReceiverNext]_receiverVars

-----------------------------------------------------------------------------
ReceiverTypeOK ==
  /\ blocks \in Seq(Block)
  /\ branch \in 0..MaxForks
  /\ settled \in 0..MaxBlocks
  /\ deep \in BOOLEAN
  /\ aired \subseteq signed /\ signed \subseteq Own
  /\ call \in CallType
  /\ told \in [Answers -> 0..MaxBlocks]

(* claimEvidence, refundEvidence and the quarantine speak of a block that is  *)
(* on the chain and stays there unless a block once Confirmations deep is     *)
(* replaced: no answer mixes two branches, and none is about a twin.  Only    *)
(* refundEvidence does not ask again how deep its block lies, so that such a  *)
(* replacement during the call leaves it with one that is not.                *)
On(n, logs) == n > 0 => n <= Len(blocks) /\ blocks[n].log \in logs
EvidenceHolds ==
  /\ On(told["claim"], {"claim", "nested"})
  /\ deep \/ On(told["refund"], {"refunded"})
  /\ told["alarm"] > 0 => told["alarm"] <= Len(blocks) /\ InvalidExactLock(blocks[told["alarm"]].world)

(* The activation is the intent's one transaction with that identity: it      *)
(* reverts only when it came too late, when somebody else had activated the   *)
(* receiver or opened the very lock, or when a confirmed delivery was undone. *)
ActivationIsGood ==
  \A k \in 2..Len(blocks) :
    (blocks[k].own = "activate" /\ ~blocks[k].ok)
      => \/ deep
         \/ base + k >= Cutoff
         \/ blocks[k - 1].world.active
         \/ blocks[k - 1].world.lock = "open"
(* So for the refund: never sent before its time. *)
RefundIsMature ==
  \A k \in 2..Len(blocks) :
    (blocks[k].own = "refund" /\ ~blocks[k].ok) => deep \/ blocks[k - 1].world.lock # "open"
(* A receiver's lock is opened before the cutoff, which leaves the client the *)
(* window up to the timelock.                                                 *)
WindowIsKept ==
  \A k \in 2..Len(blocks) :
    blocks[k].world.active /\ ~blocks[k - 1].world.active => base + k < Cutoff

ReceiverIsSafe == EvidenceHolds /\ ActivationIsGood /\ RefundIsMature /\ WindowIsKept
=============================================================================
