----------------------------- MODULE LockupWatch -----------------------------
(***************************************************************************)
(* Funding detection: the contract stream as the fast path                  *)
(* (lockupWatcher.ts, lazyContractSource.ts) and the sweep of every corridor *)
(* as the failsafe, in the watch loop of cli.ts.  An event only ever makes  *)
(* a row tick, and a tick reads the lockup itself.                          *)
(*                                                                         *)
(* What a tick decides is the corridor modules'; here a tick reads how often *)
(* its script changed.  Each script is a swap of a corridor of its own.     *)
(***************************************************************************)
EXTENDS Integers, FiniteSets

CONSTANTS
  Script,
  Plans       \* the bounds followed: the scripts quoted, the changes of each, and how many calls fail,
              \* connections drop, restarts happen and rows are resumed

(* The one event that is about no script. *)
Reset == "reset"
ASSUME WatchAssumption == Reset \notin Script

VARIABLES
  plan,       \* the bounds of this behaviour
  swap,       \* each script's swap: none, live or over
  changed,    \* how often each script changed
  seen,       \* the change each script's latest reading saw
  ticking,    \* the tick under way of each row: no, begun or read
  resync,     \* resyncWatchedScripts: the corridors read and the scripts found
  watched,    \* swapByScript, and the watcher's own copy of its keys
  asked,      \* the scripts the source confirmed
  reconciling,       \* applyWatched
  source,     \* the SDK's stream: what it watches, whether it is connected, who listens
  events,     \* events not yet delivered
  blind,      \* scripts whose last change fell into a gap only the sweep closes
  watchUpsets

watchVars == <<plan, swap, changed, seen, ticking, resync, watched, asked, reconciling, source, events, blind, watchUpsets>>
world == <<plan, swap, changed>>
watcher == <<resync, watched, asked, reconciling>>

-----------------------------------------------------------------------------
NoSync == [at |-> "idle", left |-> {}, found |-> {}]
NoReconcile == [at |-> "idle", wanted |-> {}, left |-> {}]
(* start() is called before the loop and again never: the listener is attached when the manager is had. *)
Detached == [watches |-> {}, up |-> TRUE, listens |-> FALSE]
WatchInit ==
  /\ plan \in Plans
  /\ swap = [s \in Script |-> "none"] /\ changed = [s \in Script |-> 0] /\ seen = changed
  /\ ticking = [s \in Script |-> "no"]
  /\ resync = NoSync /\ watched = {} /\ asked = {} /\ reconciling = NoReconcile
  /\ source = Detached /\ events = {} /\ blind = {}
  /\ watchUpsets = plan.upsets
WatchFails == watchUpsets > 0 /\ watchUpsets' = watchUpsets - 1

(* onScripts: a script of no swap, and a row already under way, are not ticked. *)
Ticked(scripts) == [s \in Script |-> IF s \in scripts \cap watched /\ ticking[s] = "no" THEN "begun" ELSE ticking[s]]
(* A tick past its reading drops the nudge: the change waits for the sweep. *)
Deaf(scripts) == {s \in scripts \cap watched : ticking[s] = "read" /\ seen[s] # changed[s]}

-----------------------------------------------------------------------------
(* The source: subscribing, watching, events. *)

(* lazyContractSource tries until it has the manager. *)
attach ==
  /\ ~source.listens
  /\ source' = [source EXCEPT !.listens = TRUE]
  /\ UNCHANGED <<world, seen, ticking, watcher, events, blind, watchUpsets>>
Heard(s) == s \in source.watches /\ source.up /\ source.listens
handle(e) ==
  /\ e \in events
  /\ events' = events \ {e}
  /\ LET scripts == IF e = Reset THEN watched ELSE {e} \cap watched
     IN ticking' = Ticked(scripts) /\ blind' = blind \cup Deaf(scripts) \cup ((Script \cap {e}) \ watched)
  /\ UNCHANGED <<world, seen, watcher, source, watchUpsets>>
Disconnect ==
  /\ source.up /\ WatchFails
  /\ source' = [source EXCEPT !.up = FALSE]
  /\ UNCHANGED <<world, seen, ticking, watcher, events, blind>>
Reconnect ==
  /\ ~source.up
  /\ source' = [source EXCEPT !.up = TRUE]
  /\ events' = IF source.listens THEN events \cup {Reset} ELSE events
  /\ UNCHANGED <<world, seen, ticking, watcher, blind, watchUpsets>>

(* The watch loop: every so often the live scripts of every corridor are read, one store after another. *)
beginResync ==
  /\ resync.at = "idle"
  /\ resync' = [at |-> "read", left |-> Script, found |-> {}]
  /\ UNCHANGED <<world, seen, ticking, watched, asked, reconciling, source, events, blind, watchUpsets>>
findRecoverable(s) ==
  /\ resync.at = "read" /\ s \in resync.left
  /\ \/ resync' = [resync EXCEPT !.left = @ \ {s}, !.found = IF swap[s] = "live" THEN @ \cup {s} ELSE @] /\ UNCHANGED watchUpsets
     \/ WatchFails /\ resync' = NoSync
  /\ UNCHANGED <<world, seen, ticking, watched, asked, reconciling, source, events, blind>>
(* sync() assigns the set at once, and starts a reconciliation unless one runs. *)
Reconcile(wanted) == [at |-> "watch", wanted |-> wanted, left |-> wanted \ asked]
sync ==
  /\ resync.at = "read" /\ resync.left = {}
  /\ resync' = NoSync
  /\ watched' = resync.found
  /\ reconciling' = IF reconciling.at = "idle" THEN Reconcile(resync.found) ELSE reconciling
  /\ UNCHANGED <<world, seen, ticking, asked, source, events, blind, watchUpsets>>

(* A call that fails may have landed; it is not remembered, and asked again. *)
(* Mutant: it is remembered before the source has answered. *)
watchScriptAtOnce(s) ==
  /\ reconciling.at = "watch" /\ s \in reconciling.left
  /\ reconciling' = [reconciling EXCEPT !.left = @ \ {s}] /\ asked' = asked \cup {s}
  /\ \/ source' = [source EXCEPT !.watches = @ \cup {s}] /\ UNCHANGED watchUpsets
     \/ WatchFails /\ UNCHANGED source
  /\ UNCHANGED <<world, seen, ticking, resync, watched, events, blind>>
watchScript(s) ==
  /\ reconciling.at = "watch" /\ s \in reconciling.left
  /\ reconciling' = [reconciling EXCEPT !.left = @ \ {s}]
  /\ \/ /\ source' = [source EXCEPT !.watches = @ \cup {s}]
        /\ asked' = asked \cup {s}
        /\ ticking' = Ticked({s}) /\ blind' = (blind \ ({s} \cap watched)) \cup Deaf({s})
        /\ UNCHANGED watchUpsets
     \/ /\ WatchFails
        /\ \E w \in {source.watches, source.watches \cup {s}} : source' = [source EXCEPT !.watches = w]
        /\ UNCHANGED <<asked, ticking, blind>>
  /\ UNCHANGED <<world, seen, resync, watched, events>>
endWatching ==
  /\ reconciling.at = "watch" /\ reconciling.left = {}
  /\ reconciling' = [reconciling EXCEPT !.at = "unwatch", !.left = asked \ reconciling.wanted]
  /\ UNCHANGED <<world, seen, ticking, resync, watched, asked, source, events, blind, watchUpsets>>
unwatchScript(s) ==
  /\ reconciling.at = "unwatch" /\ s \in reconciling.left
  /\ reconciling' = [reconciling EXCEPT !.left = @ \ {s}]
  /\ \/ source' = [source EXCEPT !.watches = @ \ {s}] /\ asked' = asked \ {s} /\ UNCHANGED watchUpsets
     \/ WatchFails /\ UNCHANGED <<source, asked>>
  /\ UNCHANGED <<world, seen, ticking, resync, watched, events, blind>>
endReconcile ==
  /\ reconciling.at = "unwatch" /\ reconciling.left = {}
  /\ reconciling' = NoReconcile
  /\ UNCHANGED <<world, seen, ticking, resync, watched, asked, source, events, blind, watchUpsets>>

-----------------------------------------------------------------------------
(* Ticks, and the sweep of every corridor. *)
desk == <<watcher, source, events, watchUpsets>>
tickAll(s) ==
  /\ swap[s] = "live" /\ ticking[s] = "no"
  /\ ticking' = [ticking EXCEPT ![s] = "begun"]
  /\ UNCHANGED <<world, seen, blind, desk>>
(* A reading that fails leaves the row to the next tick. *)
tickReads(s) ==
  /\ ticking[s] = "begun"
  /\ seen' = [seen EXCEPT ![s] = changed[s]]
  /\ ticking' = [ticking EXCEPT ![s] = "read"]
  /\ blind' = blind \ {s}
  /\ UNCHANGED <<world, desk>>
tickFails(s) ==
  /\ ticking[s] = "begun" /\ WatchFails
  /\ ticking' = [ticking EXCEPT ![s] = "no"]
  /\ blind' = blind \cup {s}
  /\ UNCHANGED <<world, seen, watcher, source, events>>
tickEnds(s) ==
  /\ ticking[s] = "read"
  /\ ticking' = [ticking EXCEPT ![s] = "no"]
  /\ swap' \in {swap} \cup (IF swap[s] = "live" /\ seen[s] > 0 THEN {[swap EXCEPT ![s] = "over"]} ELSE {})
  /\ UNCHANGED <<plan, changed, seen, blind, desk>>

Quote(s) ==
  /\ swap[s] = "none" /\ s \in plan.scripts
  /\ swap' = [swap EXCEPT ![s] = "live"]
  /\ UNCHANGED <<plan, changed, seen, ticking, blind, desk>>
(* An operator takes up a row that was given up: stuck to claiming. *)
Resume(s) ==
  /\ swap[s] = "over" /\ WatchFails
  /\ swap' = [swap EXCEPT ![s] = "live"]
  /\ UNCHANGED <<plan, changed, seen, ticking, blind, watcher, source, events>>
(* Nobody is told of what happens at a script nobody watches, or before the listener is there, or while the stream is down. *)
Change(s) ==
  /\ swap[s] # "none" /\ changed[s] < plan.changes
  /\ changed' = [changed EXCEPT ![s] = @ + 1]
  /\ events' = IF Heard(s) THEN events \cup {s} ELSE events
  /\ blind' = IF Heard(s) /\ s \in watched THEN blind ELSE blind \cup {s}
  /\ UNCHANGED <<plan, swap, seen, ticking, watcher, source, watchUpsets>>
(* The watcher is memory; recovery ticks every live row before the loop. *)
Restart ==
  /\ WatchFails
  /\ resync' = NoSync /\ watched' = {} /\ asked' = {} /\ reconciling' = NoReconcile
  /\ source' = Detached /\ events' = {}
  /\ ticking' = [s \in Script |-> IF swap[s] = "live" THEN "begun" ELSE "no"]
  /\ blind' = {}
  /\ UNCHANGED <<world, seen>>

LoopStep == beginResync \/ (\E s \in Script : findRecoverable(s)) \/ sync
ReconcileStep == (\E s \in Script : watchScript(s) \/ unwatchScript(s)) \/ endWatching \/ endReconcile
TickStep(s) == tickReads(s) \/ tickEnds(s)
WatchNext ==
  \/ attach \/ (\E e \in Script \cup {Reset} : handle(e)) \/ Disconnect \/ Reconnect
  \/ LoopStep \/ ReconcileStep
  \/ \E s \in Script : tickAll(s) \/ TickStep(s) \/ tickFails(s) \/ Quote(s) \/ Resume(s) \/ Change(s)
  \/ Restart
WatchSpec == WatchInit /\ [][WatchNext]_watchVars
(* The loop and its cadences run while the process does, and calls answer. *)
WatchFairness ==
  /\ WF_watchVars(LoopStep) /\ WF_watchVars(ReconcileStep) /\ WF_watchVars(attach)
  /\ \A s \in Script : WF_watchVars(tickAll(s)) /\ WF_watchVars(TickStep(s))
FairWatchSpec == WatchSpec /\ WatchFairness

-----------------------------------------------------------------------------
(* The fast path is complete but for its gaps: at a script the source confirmed, with somebody listening, *)
(* what changed is read, being read, or told of. *)
ToldOf(s) == seen[s] = changed[s] \/ ticking[s] = "begun" \/ {s, Reset} \cap events # {}
FastPathIsComplete ==
  source.listens /\ source.up => \A s \in watched \cap asked : s \in blind \/ ToldOf(s)
(* The watcher's books are honest: what it takes for watched is watched, so nothing it skips is lost. *)
AskedIsWatched == asked \subseteq source.watches
WatchIsSound == FastPathIsComplete /\ AskedIsWatched
(* Sweep and reconciliation catch up: everything at a live lockup is read, and exactly the live scripts are watched. *)
CaughtUp ==
  /\ \A s \in Script : swap[s] = "live" => seen[s] = changed[s]
  /\ asked = {s \in Script : swap[s] = "live"}
=============================================================================
