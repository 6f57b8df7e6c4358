---------------------------- MODULE OfficeProofs ----------------------------
(***************************************************************************)
(* What holds of the parts the solver keeps up beside the swaps, for any    *)
(* requests, scripts, outputs, workers and faults: the relay it is asked    *)
(* through, the watch on lockups, the L1 spends of unrolled lockups, the    *)
(* float and the contracts of its lockups.                                  *)
(***************************************************************************)
EXTENDS RelayIngress, LockupWatch, UnrolledSpend, FloatKeeping, FiniteSetTheorems, WellFoundedInduction, TLAPS

-----------------------------------------------------------------------------
(* RelayIngress.                                                              *)
Rfqs == {r.rfq : r \in load.requests} \cup {0}
Hashes == {r.hash : r \in load.requests}
Clients == {r.client : r \in load.requests} \cup {"none"}
Kinds == {r.kind : r \in load.requests}
Event == [rfq : Rfqs, hash : Hashes, client : Clients, kind : Kinds, stamp : Int]
SwapRow == [rfq : Rfqs, client : Clients, state : {"none", "quoted", "funded"}]
Delivered == [event : Event, over : Nat, stampedAt : Int]
HandlerPcs == {"read", "quote", "again", "say"}
Verdicts == {"none", "invalid", "status", "unknown", "refused", "quote"}
Running == [event : Event, over : Nat, pc : HandlerPcs, answer : Verdicts]
Reply == [rfq : Rfqs, hash : Hashes, client : Clients, kind : Verdicts]

RelayTypes ==
  /\ load \in Loads /\ socket \in {"connecting", "open", "down"}
  /\ since \in Int /\ highWater \in Int /\ wireClock \in Int /\ drops \in Nat
  /\ stored \subseteq Event /\ rows \in [Hashes -> SwapRow]
  /\ active \subseteq Running /\ IsFiniteSet(active)
  /\ queue \in Seq(Delivered) /\ pending \in Seq(Reply) /\ answers \subseteq Reply

(* The cursor, and every event that may still move it, stays behind the clock. *)
CursorBehind == highWater <= wireClock /\ \A k \in DOMAIN queue : queue[k].stampedAt <= wireClock

(* A quote is made for a client once, and told to that client only. *)
MadeFor(hash, client) == rows[hash].state # "none" /\ rows[hash].client = client
QuotesAreTheirs ==
  /\ \A a \in answers : a.kind = "quote" => MadeFor(a.hash, a.client)
  /\ \A k \in DOMAIN pending : pending[k].kind = "quote" => MadeFor(pending[k].hash, pending[k].client)
  /\ \A h \in active : h.answer = "quote" => MadeFor(h.event.hash, h.event.client)

(* On a live socket the subscription reaches back far enough for whatever is asked from now on. *)
Accounted(e) == e \in heard \/ e \in unsure \/ e.stamp < FloorSince
SubscribedInTime ==
  socket = "open" =>
    /\ since <= FloorSince \/ since <= wireClock - Overlap \/ since <= wireClock - MaxReplay
    /\ shown \subseteq heard \cup unsure
    /\ \A e \in stored : Accounted(e) \/ Wanted(e)
(* Away from it, neither the cursor nor an event in the queue leaves a missed request behind the overlap. *)
MissedStaysInReach ==
  socket # "open" => \A e \in stored : Accounted(e) \/
    /\ e.stamp >= highWater - Overlap
    /\ \A k \in DOMAIN queue : e.stamp >= queue[k].stampedAt - Overlap

RelayInv ==
  /\ RelayTypes /\ CursorBehind /\ QuotesAreTheirs /\ SubscribedInTime /\ MissedStaysInReach /\ BoundedWork

(* The largest of three numbers, the smallest of two. *)
LEMMA MaxOfThree ==
  ASSUME NEW a \in Int, NEW b \in Int, NEW c \in Int
  PROVE  /\ Max({a, b, c}) \in {a, b, c}
         /\ Max({a, b, c}) >= a /\ Max({a, b, c}) >= b /\ Max({a, b, c}) >= c
<1>1. \E x \in {a, b, c} : \A y \in {a, b, c} : x >= y
  <2>1. CASE a >= b /\ a >= c
    BY <2>1
  <2>2. CASE b >= a /\ b >= c
    BY <2>2
  <2>3. CASE c >= a /\ c >= b
    BY <2>3
  <2> QED
    BY <2>1, <2>2, <2>3
<1> QED
  BY <1>1 DEF Max

LEMMA MaxOfTwo ==
  ASSUME NEW a \in Int, NEW b \in Int
  PROVE  Max({a, b}) \in {a, b} /\ Max({a, b}) >= a /\ Max({a, b}) >= b
<1>1. \E x \in {a, b} : \A y \in {a, b} : x >= y
  <2>1. CASE a >= b
    BY <2>1
  <2>2. CASE b >= a
    BY <2>2
  <2> QED
    BY <2>1, <2>2
<1> QED
  BY <1>1 DEF Max

LEMMA MinOfTwo ==
  ASSUME NEW a \in Int, NEW b \in Int
  PROVE  Min({a, b}) \in {a, b} /\ Min({a, b}) <= a /\ Min({a, b}) <= b
<1>1. \E x \in {a, b} : \A y \in {a, b} : x <= y
  <2>1. CASE a <= b
    BY <2>1
  <2>2. CASE b <= a
    BY <2>2
  <2> QED
    BY <2>1, <2>2
<1> QED
  BY <1>1 DEF Min

LEMMA AtMostOneMore ==
  ASSUME NEW S, NEW x, IsFiniteSet(S)
  PROVE  IsFiniteSet(S \cup {x}) /\ Cardinality(S \cup {x}) <= Cardinality(S) + 1
<1>1. Cardinality(S) \in Nat
  BY FS_CardinalityType
<1>2. IsFiniteSet(S \cup {x}) /\ Cardinality(S \cup {x}) = IF x \in S THEN Cardinality(S) ELSE Cardinality(S) + 1
  BY FS_AddElement
<1> QED
  BY <1>1, <1>2

(* The types are those of what this behaviour brings. *)
LEMMA SameLoad ==
  ASSUME load' = load
  PROVE  /\ Event' = Event /\ SwapRow' = SwapRow /\ Delivered' = Delivered /\ Running' = Running /\ Reply' = Reply
         /\ Hashes' = Hashes
BY DEF Event, SwapRow, Delivered, Running, Reply, Rfqs, Hashes, Clients, Kinds

(* Frames: what an action leaves alone keeps what only it is about. *)
LEMMA CursorStays ==
  ASSUME CursorBehind, UNCHANGED <<highWater, queue, wireClock>>
  PROVE  CursorBehind'
BY DEF CursorBehind

LEMMA QuotesStay ==
  ASSUME QuotesAreTheirs, UNCHANGED <<active, pending, answers, rows>>
  PROVE  QuotesAreTheirs'
BY DEF QuotesAreTheirs, MadeFor

LEMMA MissedStays ==
  ASSUME SubscribedInTime, MissedStaysInReach,
         UNCHANGED <<socket, since, highWater, stored, shown, heard, unsure, queue, wireClock>>
  PROVE  SubscribedInTime' /\ MissedStaysInReach'
BY DEF SubscribedInTime, MissedStaysInReach, Accounted, Wanted

(* A handler that goes on is the only one that changes. *)
LEMMA MoveKeeps ==
  ASSUME RelayTypes, BoundedWork, load' = load, NEW h \in active, NEW pc \in HandlerPcs, NEW verdict \in Verdicts,
         Move(h, pc, verdict)
  PROVE  /\ active' \subseteq Running' /\ IsFiniteSet(active') /\ Cardinality(active') <= MaxHandlers
         /\ \A g \in active' : g \in active \/ (g.event = h.event /\ g.answer = verdict)
<1> DEFINE gone == active \ {h}
           new == [h EXCEPT !.pc = pc, !.answer = verdict]
<1>1. h \in Running /\ active' = gone \cup {new}
  BY DEF Move, RelayTypes
<1>2. new \in Running /\ new.event = h.event /\ new.answer = verdict
  BY <1>1 DEF Running
<1> HIDE DEF new
<1>3. IsFiniteSet(gone) /\ Cardinality(gone) = Cardinality(active) - 1
  BY FS_RemoveElement DEF RelayTypes
<1>4. IsFiniteSet(gone \cup {new}) /\ Cardinality(gone \cup {new}) <= Cardinality(gone) + 1
  BY <1>3, AtMostOneMore
<1>5. Cardinality(active) \in Nat
  BY FS_CardinalityType DEF RelayTypes
<1>6. Cardinality(active') <= MaxHandlers
  BY <1>1, <1>3, <1>4, <1>5, RelayAssumption, FS_CardinalityType DEF BoundedWork
<1> QED
  BY <1>1, <1>2, <1>4, <1>6, SameLoad DEF RelayTypes

LEMMA OpenKeeps ==
  ASSUME RelayInv, Open
  PROVE  RelayInv'
<1> USE DEF Open, RelayInv
<1>1. armFilter \in {FloorSince, highWater - Overlap, wireClock - MaxReplay}
      /\ armFilter \in Int
  <2>1. FloorSince \in Int /\ highWater - Overlap \in Int /\ wireClock - MaxReplay \in Int
    BY RelayAssumption DEF RelayTypes, FloorSince
  <2> QED
    BY <2>1, MaxOfThree DEF armFilter
<1>2. RelayTypes'
  <2>1. answers \cup ToSet(pending) \subseteq Reply
    BY DEF RelayTypes, ToSet
  <2>2. <<>> \in Seq(Reply)
    OBVIOUS
  <2> QED
    BY <1>1, <2>1, <2>2, SameLoad DEF RelayTypes
<1>3. CursorBehind'
  BY CursorStays
<1>4. QuotesAreTheirs'
  BY DEF QuotesAreTheirs, MadeFor, ToSet
<1>5. SubscribedInTime' /\ MissedStaysInReach'
  <2>1. since' <= FloorSince \/ since' <= wireClock - Overlap \/ since' <= wireClock - MaxReplay
    BY <1>1, RelayAssumption DEF CursorBehind, RelayTypes, FloorSince
  <2>2. ASSUME NEW e \in stored PROVE Accounted(e)' \/ Wanted(e)'
    <3>1. e.stamp \in Int
      BY DEF RelayTypes, Event
    <3>2. CASE Accounted(e)
      BY <3>2 DEF Accounted
    <3>3. CASE e.stamp < wireClock - MaxReplay
      BY <3>3 DEF Accounted
    <3>4. CASE ~Accounted(e) /\ ~(e.stamp < wireClock - MaxReplay)
      <4>1. e.stamp >= highWater - Overlap
        BY <3>4 DEF MissedStaysInReach
      <4> QED
        BY <1>1, <3>1, <3>4, <4>1, RelayAssumption DEF Wanted, Accounted, RelayTypes, FloorSince
    <3> QED
      BY <3>2, <3>3, <3>4
  <2> QED
    BY <2>1, <2>2 DEF SubscribedInTime, MissedStaysInReach, Accounted
<1>6. BoundedWork'
  BY RelayAssumption DEF BoundedWork
<1> QED
  BY <1>2, <1>3, <1>4, <1>5, <1>6

LEMMA DownKeeps ==
  ASSUME RelayInv, Down
  PROVE  RelayInv'
<1> USE DEF Down, RelayInv
<1>1. RelayTypes'
  BY SameLoad DEF RelayTypes
<1>2. CursorBehind' /\ QuotesAreTheirs'
  BY CursorStays, QuotesStay
<1>3. SubscribedInTime' /\ MissedStaysInReach'
  <2>1. CASE socket = "open"
    <3>1. ASSUME NEW e \in stored PROVE Accounted(e)'
      BY <2>1 DEF SubscribedInTime, Accounted
    <3> QED
      BY <2>1, <3>1 DEF SubscribedInTime, MissedStaysInReach
  <2>2. CASE socket # "open"
    BY <2>2 DEF SubscribedInTime, MissedStaysInReach, Accounted
  <2> QED
    BY <2>1, <2>2
<1> QED
  BY <1>1, <1>2, <1>3 DEF BoundedWork

LEMMA ReconnectKeeps ==
  ASSUME RelayInv, scheduleReconnect
  PROVE  RelayInv'
<1> USE DEF scheduleReconnect, RelayInv
<1>1. RelayTypes'
  BY SameLoad DEF RelayTypes
<1>2. CursorBehind' /\ QuotesAreTheirs'
  BY CursorStays, QuotesStay
<1>3. SubscribedInTime' /\ MissedStaysInReach'
  BY DEF SubscribedInTime, MissedStaysInReach, Accounted
<1> QED
  BY <1>1, <1>2, <1>3 DEF BoundedWork

(* A handler begun is of the types, and moves the cursor no further than the clock. *)
LEMMA DispatchKeeps ==
  ASSUME RelayTypes, load' = load, NEW d \in Delivered, d.stampedAt <= wireClock, highWater <= wireClock,
         NEW others \in SUBSET active, Cardinality(others) < MaxHandlers, dispatch(d, others)
  PROVE  /\ active' \subseteq Running' /\ IsFiniteSet(active') /\ Cardinality(active') <= MaxHandlers
         /\ \A g \in active' : g \in others \/ g.answer = "none"
         /\ highWater' \in {highWater, d.stampedAt} /\ highWater' \in Int /\ highWater' <= wireClock
<1>1. Handler(d) \in Running /\ Handler(d).answer = "none"
  BY DEF Handler, Running, Delivered, HandlerPcs, Verdicts
<1>2. IsFiniteSet(others)
  BY FS_Subset DEF RelayTypes
<1>3. active' = others \cup {Handler(d)} /\ highWater' = Max({highWater, d.stampedAt})
  BY DEF dispatch
<1>4. IsFiniteSet(active') /\ Cardinality(active') <= Cardinality(others) + 1
  BY <1>2, <1>3, AtMostOneMore
<1>5. highWater' \in {highWater, d.stampedAt} /\ highWater \in Int /\ d.stampedAt \in Int
  BY <1>3, MaxOfTwo DEF RelayTypes, Delivered
<1>6. Cardinality(active') <= MaxHandlers
  BY <1>2, <1>4, FS_CardinalityType, RelayAssumption
<1> QED
  BY <1>1, <1>3, <1>4, <1>5, <1>6, SameLoad DEF RelayTypes

LEMMA ReceiveKeeps ==
  ASSUME RelayInv, NEW e \in stored, Receive(e)
  PROVE  RelayInv'
<1> USE DEF RelayInv
<1> DEFINE d == Delivery(e)
<1>1. /\ socket = "open" /\ shown' = shown \cup {e}
      /\ UNCHANGED <<load, socket, since, stored, pending, answers, rows, wireClock, drops>>
  BY DEF Receive
<1>2. d \in Delivered /\ d.stampedAt <= wireClock
  <2>1. e \in Event /\ e.stamp \in Int /\ wireClock \in Int /\ drops \in Nat
    BY DEF RelayTypes, Event
  <2>2. StampedAt(e) \in Int /\ StampedAt(e) <= wireClock
    BY <2>1, MinOfTwo DEF StampedAt
  <2> QED
    BY <2>1, <2>2 DEF Delivery, Delivered
<1> HIDE DEF d
<1>3. CASE Cardinality(active) < MaxHandlers
  <2>1. dispatch(d, active) /\ heard' = heard \cup {e} /\ UNCHANGED <<queue, unsure>>
    BY <1>3 DEF Receive, d
  <2>2. /\ active' \subseteq Running' /\ IsFiniteSet(active') /\ Cardinality(active') <= MaxHandlers
        /\ \A g \in active' : g \in active \/ g.answer = "none"
        /\ highWater' \in Int /\ highWater' <= wireClock
    BY <1>1, <1>2, <1>3, <2>1, DispatchKeeps DEF CursorBehind
  <2>3. RelayTypes' /\ CursorBehind' /\ BoundedWork'
    BY <1>1, <2>1, <2>2, SameLoad DEF RelayTypes, CursorBehind, BoundedWork
  <2>4. QuotesAreTheirs'
    BY <1>1, <2>2 DEF QuotesAreTheirs, MadeFor
  <2>5. SubscribedInTime' /\ MissedStaysInReach'
    BY <1>1, <2>1 DEF SubscribedInTime, MissedStaysInReach, Accounted, Wanted
  <2> QED
    BY <2>3, <2>4, <2>5
<1>4. CASE ~(Cardinality(active) < MaxHandlers) /\ Len(queue) < MaxQueued
  <2>1. queue' = Append(queue, d) /\ heard' = heard \cup {e} /\ UNCHANGED <<unsure, active, highWater>>
    BY <1>4 DEF Receive, d
  <2>2. /\ queue' \in Seq(Delivered) /\ Len(queue') = Len(queue) + 1
        /\ \A k \in DOMAIN queue' : queue'[k] = d \/ (k \in DOMAIN queue /\ queue'[k] = queue[k])
    BY <1>2, <2>1 DEF RelayTypes
  <2>3. RelayTypes' /\ CursorBehind'
    BY <1>1, <1>2, <2>1, <2>2, SameLoad DEF RelayTypes, CursorBehind
  <2>4. QuotesAreTheirs'
    BY <1>1, <2>1, QuotesStay
  <2>5. SubscribedInTime' /\ MissedStaysInReach'
    BY <1>1, <2>1 DEF SubscribedInTime, MissedStaysInReach, Accounted, Wanted
  <2>6. BoundedWork'
    BY <1>1, <1>4, <2>1, <2>2, RelayAssumption DEF BoundedWork, RelayTypes
  <2> QED
    BY <2>3, <2>4, <2>5, <2>6
<1>5. CASE ~(Cardinality(active) < MaxHandlers) /\ ~(Len(queue) < MaxQueued)
  <2>1. unsure' = unsure \cup {e} /\ UNCHANGED <<queue, heard, active, highWater>>
    BY <1>5 DEF Receive
  <2>2. RelayTypes' /\ BoundedWork'
    BY <1>1, <2>1, SameLoad DEF RelayTypes, BoundedWork
  <2>3. QuotesAreTheirs' /\ CursorBehind'
    BY <1>1, <2>1, QuotesStay, CursorStays
  <2>4. SubscribedInTime' /\ MissedStaysInReach'
    BY <1>1, <2>1 DEF SubscribedInTime, MissedStaysInReach, Accounted, Wanted
  <2> QED
    BY <2>2, <2>3, <2>4
<1> QED
  BY <1>3, <1>4, <1>5

(* A handler that reads, and one told what to say that is no quote, changes only itself. *)
LEMMA QuietMoveKeeps ==
  ASSUME RelayInv, NEW h \in active, NEW pc \in HandlerPcs, NEW verdict \in Verdicts, Move(h, pc, verdict),
         verdict = "quote" => MadeFor(h.event.hash, h.event.client),
         UNCHANGED <<load, socket, since, shown, heard, stored, unsure, highWater, queue, pending, answers, rows, wireClock>>,
         drops' \in Nat
  PROVE  RelayInv'
<1> USE DEF RelayInv
<1>1. /\ active' \subseteq Running' /\ IsFiniteSet(active') /\ Cardinality(active') <= MaxHandlers
      /\ \A g \in active' : g \in active \/ (g.event = h.event /\ g.answer = verdict)
  BY MoveKeeps
<1>2. RelayTypes' /\ BoundedWork'
  BY <1>1, SameLoad DEF RelayTypes, BoundedWork
<1>3. CursorBehind' /\ SubscribedInTime' /\ MissedStaysInReach'
  BY CursorStays, MissedStays
<1>4. QuotesAreTheirs'
  <2>1. ASSUME NEW g \in active', g.answer = "quote" PROVE MadeFor(g.event.hash, g.event.client)'
    BY <1>1, <2>1 DEF QuotesAreTheirs, MadeFor
  <2> QED
    BY <2>1 DEF QuotesAreTheirs, MadeFor
<1> QED
  BY <1>2, <1>3, <1>4

LEMMA RespondKeeps ==
  ASSUME RelayInv, NEW h \in active, respond(h)
  PROVE  RelayInv'
<1>1. UNCHANGED <<load, socket, since, shown, heard, stored, unsure, highWater, queue, pending, answers, rows, wireClock, drops>>
  BY DEF respond, wire
<1>2. drops' \in Nat
  BY <1>1 DEF RelayInv, RelayTypes
<1>3. \E pc \in HandlerPcs, verdict \in Verdicts \ {"quote"} : Move(h, pc, verdict)
  BY DEF respond, Say, HandlerPcs, Verdicts
<1> QED
  BY <1>1, <1>2, <1>3, QuietMoveKeeps

LEMMA QuoteThrowsKeeps ==
  ASSUME RelayInv, NEW h \in active, quoteThrows(h)
  PROVE  RelayInv'
<1>1. UNCHANGED <<load, socket, since, shown, heard, stored, unsure, highWater, queue, pending, answers, rows, wireClock>>
  BY DEF quoteThrows, wire
<1>2. drops' \in Nat
  BY DEF RelayInv, RelayTypes, quoteThrows
<1>3. Move(h, "say", "refused") /\ "say" \in HandlerPcs /\ "refused" \in Verdicts
  BY DEF quoteThrows, Say, HandlerPcs, Verdicts
<1> QED
  BY <1>1, <1>2, <1>3, QuietMoveKeeps

LEMMA TellAgainKeeps ==
  ASSUME RelayInv, NEW h \in active, tellAgain(h)
  PROVE  RelayInv'
<1>1. UNCHANGED <<load, socket, since, shown, heard, stored, unsure, highWater, queue, pending, answers, rows, wireClock, drops>>
  BY DEF tellAgain, wire
<1>2. drops' \in Nat
  BY <1>1 DEF RelayInv, RelayTypes
<1>3. PICK verdict \in {"quote", "refused"} :
        Move(h, "say", verdict) /\ (verdict = "quote" => MadeFor(h.event.hash, h.event.client))
  BY DEF tellAgain, Say, SameContent, MadeFor
<1>4. "say" \in HandlerPcs /\ verdict \in Verdicts
  BY DEF HandlerPcs, Verdicts
<1> QED
  BY <1>1, <1>2, <1>3, <1>4, QuietMoveKeeps

(* The first quote of a hash is its client's; a hash that has one is told again. *)
LEMMA QuoteKeeps ==
  ASSUME RelayInv, NEW h \in active, quote(h)
  PROVE  RelayInv'
<1> DEFINE hash == h.event.hash
           made == [rfq |-> h.event.rfq, client |-> h.event.client, state |-> "quoted"]
<1>1. /\ UNCHANGED <<load, socket, since, shown, heard, stored, unsure, highWater, queue, pending, answers, wireClock, drops>>
      /\ drops' \in Nat
  BY DEF quote, wire, RelayInv, RelayTypes
<1>2. h \in Running /\ hash \in Hashes /\ made \in SwapRow /\ rows \in [Hashes -> SwapRow]
  BY DEF RelayInv, RelayTypes, Running, Event, SwapRow
<1>3. CASE rows[hash] = NoRow
  <2>1. rows' = [rows EXCEPT ![hash] = made] /\ Move(h, "say", "quote")
    BY <1>3 DEF quote, Say
  <2>2. rows' \in [Hashes -> SwapRow] /\ rows'[hash] = made /\ \A x \in Hashes : x # hash => rows'[x] = rows[x]
    BY <1>2, <2>1
  <2>3. ASSUME NEW x \in Hashes, NEW who, MadeFor(x, who) PROVE MadeFor(x, who)'
    BY <1>3, <2>2, <2>3 DEF MadeFor, NoRow
  <2>4. /\ active' \subseteq Running' /\ IsFiniteSet(active') /\ Cardinality(active') <= MaxHandlers
        /\ \A g \in active' : g \in active \/ (g.event = h.event /\ g.answer = "quote")
    BY <1>1, <2>1, MoveKeeps DEF HandlerPcs, Verdicts, RelayInv
  <2>5. RelayTypes' /\ BoundedWork'
    BY <1>1, <2>2, <2>4, SameLoad DEF RelayTypes, BoundedWork, RelayInv
  <2>6. CursorBehind' /\ SubscribedInTime' /\ MissedStaysInReach'
    BY <1>1, CursorStays, MissedStays DEF RelayInv
  <2>7. QuotesAreTheirs'
    <3>1. ASSUME NEW g \in active', g.answer = "quote" PROVE MadeFor(g.event.hash, g.event.client)'
      <4>1. CASE g \in active
        <5>1. g.event.hash \in Hashes /\ MadeFor(g.event.hash, g.event.client)
          BY <3>1, <4>1 DEF RelayInv, RelayTypes, QuotesAreTheirs, Running, Event
        <5> QED
          BY <2>3, <5>1
      <4>2. CASE g.event = h.event
        BY <2>2, <4>2 DEF MadeFor
      <4> QED
        BY <2>4, <4>1, <4>2
    <3>2. ASSUME NEW a \in answers, a.kind = "quote" PROVE MadeFor(a.hash, a.client)'
      <4>1. a.hash \in Hashes /\ MadeFor(a.hash, a.client)
        BY <3>2 DEF RelayInv, RelayTypes, QuotesAreTheirs, Reply
      <4> QED
        BY <2>3, <4>1
    <3>3. ASSUME NEW k \in DOMAIN pending, pending[k].kind = "quote" PROVE MadeFor(pending[k].hash, pending[k].client)'
      <4>1. pending[k] \in Reply
        BY DEF RelayInv, RelayTypes
      <4>2. pending[k].hash \in Hashes /\ MadeFor(pending[k].hash, pending[k].client)
        BY <3>3, <4>1 DEF RelayInv, QuotesAreTheirs, Reply
      <4>3. MadeFor(pending[k].hash, pending[k].client) => rows'[pending[k].hash].state # "none" /\ rows'[pending[k].hash].client = pending[k].client
        BY <2>3, <4>2 DEF MadeFor
      <4> QED
        BY <1>1, <4>2, <4>3 DEF MadeFor
    <3> HIDE DEF made
    <3> QED
      BY <1>1, <3>1, <3>2, <3>3 DEF QuotesAreTheirs, MadeFor
  <2> QED
    BY <2>5, <2>6, <2>7 DEF RelayInv
<1>4. CASE rows[hash] # NoRow
  <2>1. rows' = rows /\ Move(h, "again", "none") /\ "again" \in HandlerPcs /\ "none" \in Verdicts
    BY <1>4 DEF quote, HandlerPcs, Verdicts
  <2> QED
    BY <1>1, <2>1, QuietMoveKeeps
<1> QED
  BY <1>3, <1>4

(* What leaves, or waits for a socket, is what its handler had to say. *)
LEMMA SendOrQueueKeeps ==
  ASSUME RelayInv, UNCHANGED <<load, rows>>, NEW reply \in Reply, sendOrQueue(reply),
         reply.kind = "quote" => MadeFor(reply.hash, reply.client)
  PROVE  /\ answers' \subseteq Reply' /\ pending' \in Seq(Reply') /\ Len(pending') <= MaxPending
         /\ \A a \in answers' : a.kind = "quote" => MadeFor(a.hash, a.client)'
         /\ \A k \in DOMAIN pending' : pending'[k].kind = "quote" => MadeFor(pending'[k].hash, pending'[k].client)
<1>1. Reply' = Reply /\ pending \in Seq(Reply) /\ Len(pending) <= MaxPending /\ answers \subseteq Reply
  BY SameLoad DEF RelayInv, RelayTypes, BoundedWork
<1>2. MaxPending \in Nat \ {0}
  BY RelayAssumption
<1>3. \A k \in DOMAIN pending : pending[k].kind = "quote" => MadeFor(pending[k].hash, pending[k].client)
  BY DEF RelayInv, QuotesAreTheirs
<1>4. \A a \in answers : a.kind = "quote" => MadeFor(a.hash, a.client)'
  BY DEF RelayInv, QuotesAreTheirs, MadeFor
<1>5. CASE socket = "open"
  BY <1>1, <1>3, <1>4, <1>5 DEF sendOrQueue, MadeFor
<1>6. CASE socket # "open" /\ Len(pending) < MaxPending
  <2>1. answers' = answers /\ pending' = Append(pending, reply)
    BY <1>6 DEF sendOrQueue
  <2>2. /\ pending' \in Seq(Reply) /\ Len(pending') = Len(pending) + 1
        /\ \A k \in DOMAIN pending' : pending'[k] = reply \/ (k \in DOMAIN pending /\ pending'[k] = pending[k])
    BY <1>1, <2>1
  <2>3. Len(pending') <= MaxPending
    BY <1>1, <1>2, <1>6, <2>2
  <2>4. ASSUME NEW k \in DOMAIN pending', pending'[k].kind = "quote" PROVE MadeFor(pending'[k].hash, pending'[k].client)
    BY <1>3, <2>2, <2>4
  <2> QED
    BY <1>1, <1>4, <2>1, <2>2, <2>3, <2>4
<1>7. CASE socket # "open" /\ ~(Len(pending) < MaxPending)
  <2>1. answers' = answers /\ pending' = Append(Tail(pending), reply)
    BY <1>7 DEF sendOrQueue
  <2>2. pending # <<>> /\ Len(pending) = MaxPending
    BY <1>1, <1>2, <1>7
  <2>3. /\ Tail(pending) \in Seq(Reply) /\ Len(Tail(pending)) = Len(pending) - 1
        /\ \A k \in DOMAIN Tail(pending) : k + 1 \in DOMAIN pending /\ Tail(pending)[k] = pending[k + 1]
    BY <1>1, <2>2
  <2>4. /\ pending' \in Seq(Reply) /\ Len(pending') = Len(pending)
        /\ \A k \in DOMAIN pending' : pending'[k] = reply \/ (k \in DOMAIN Tail(pending) /\ pending'[k] = Tail(pending)[k])
    BY <1>1, <2>1, <2>3
  <2>5. ASSUME NEW k \in DOMAIN pending', pending'[k].kind = "quote" PROVE MadeFor(pending'[k].hash, pending'[k].client)
    BY <1>3, <2>3, <2>4, <2>5
  <2> QED
    BY <1>1, <1>4, <2>1, <2>2, <2>4, <2>5
<1> QED
  BY <1>5, <1>6, <1>7

LEMMA PublishKeeps ==
  ASSUME RelayInv, NEW h \in active, publish(h)
  PROVE  RelayInv'
<1> DEFINE reply == Answer(h.event, h.answer)
<1>1. /\ UNCHANGED <<load, socket, since, shown, heard, stored, rows, wireClock, drops>>
      /\ unsure' = unsure \cup PushedOut /\ sendOrQueue(reply)
  BY DEF publish
<1>2. h \in Running /\ h.event \in Event
  BY DEF RelayInv, RelayTypes, Running
<1>3. reply \in Reply /\ reply.kind = h.answer /\ reply.hash = h.event.hash /\ reply.client = h.event.client
  BY <1>2 DEF Answer, Reply, Running, Event
<1>4. reply.kind = "quote" => MadeFor(reply.hash, reply.client)
  BY <1>3 DEF RelayInv, QuotesAreTheirs
<1> HIDE DEF reply
<1>5. /\ answers' \subseteq Reply' /\ pending' \in Seq(Reply') /\ Len(pending') <= MaxPending
      /\ \A a \in answers' : a.kind = "quote" => MadeFor(a.hash, a.client)'
      /\ \A k \in DOMAIN pending' : pending'[k].kind = "quote" => MadeFor(pending'[k].hash, pending'[k].client)
  BY <1>1, <1>3, <1>4, SendOrQueueKeeps
<1> DEFINE gone == active \ {h}
<1>6. IsFiniteSet(gone) /\ Cardinality(gone) < MaxHandlers /\ gone \in SUBSET active
  <2>1. IsFiniteSet(active) /\ Cardinality(active) \in Nat /\ Cardinality(active) <= MaxHandlers
    BY FS_CardinalityType DEF RelayInv, RelayTypes, BoundedWork
  <2>2. IsFiniteSet(gone) /\ Cardinality(gone) = Cardinality(active) - 1
    BY <2>1, FS_RemoveElement
  <2> QED
    BY <2>1, <2>2, RelayAssumption
<1>7. /\ active' \subseteq Running' /\ IsFiniteSet(active') /\ Cardinality(active') <= MaxHandlers
      /\ \A g \in active' : g \in gone \/ g.answer = "none"
      /\ highWater' \in Int /\ highWater' <= wireClock
      /\ queue' \in Seq(Delivered) /\ Len(queue') <= MaxQueued
      /\ \A k \in DOMAIN queue' : \E j \in DOMAIN queue : queue'[k] = queue[j]
      /\ highWater' = highWater \/ \E j \in DOMAIN queue : highWater' = queue[j].stampedAt
  <2>1. queue \in Seq(Delivered) /\ Len(queue) <= MaxQueued /\ highWater \in Int /\ highWater <= wireClock /\ wireClock \in Int
    BY DEF RelayInv, RelayTypes, BoundedWork, CursorBehind
  <2>2. CASE queue = <<>>
    <3>1. active' = gone /\ UNCHANGED <<highWater, queue>>
      BY <2>2 DEF publish
    <3>2. active' \subseteq Running'
      BY <1>1, <3>1, SameLoad DEF RelayInv, RelayTypes
    <3>3. Cardinality(gone) <= MaxHandlers
      BY <1>6, RelayAssumption, FS_CardinalityType
    <3> QED
      BY <1>6, <2>1, <2>2, <3>1, <3>2, <3>3
  <2>3. CASE queue # <<>>
    <3>1. dispatch(Head(queue), gone) /\ queue' = Tail(queue)
      BY <2>3 DEF publish
    <3>2. /\ Head(queue) \in Delivered /\ 1 \in DOMAIN queue /\ Head(queue) = queue[1]
          /\ Tail(queue) \in Seq(Delivered) /\ Len(Tail(queue)) = Len(queue) - 1
          /\ \A k \in DOMAIN Tail(queue) : k + 1 \in DOMAIN queue /\ Tail(queue)[k] = queue[k + 1]
      BY <2>1, <2>3
    <3>3. Head(queue).stampedAt <= wireClock
      BY <3>2 DEF RelayInv, CursorBehind
    <3>4. PICK head \in Delivered : head = Head(queue)
      BY <3>2
    <3>5. /\ active' \subseteq Running' /\ IsFiniteSet(active') /\ Cardinality(active') <= MaxHandlers
          /\ \A g \in active' : g \in gone \/ g.answer = "none"
          /\ highWater' \in {highWater, head.stampedAt} /\ highWater' \in Int /\ highWater' <= wireClock
      <4> HIDE DEF gone
      <4> QED
        BY <1>1, <1>6, <2>1, <3>1, <3>3, <3>4, DispatchKeeps DEF RelayInv
    <3>6. Len(Tail(queue)) <= MaxQueued
      BY <2>1, <3>2, RelayAssumption
    <3> QED
      BY <2>1, <3>1, <3>2, <3>4, <3>5, <3>6
  <2> QED
    BY <2>2, <2>3
<1>8. RelayTypes' /\ BoundedWork' /\ CursorBehind'
  BY <1>1, <1>5, <1>7, SameLoad DEF RelayTypes, BoundedWork, CursorBehind, RelayInv
<1>9. QuotesAreTheirs'
  <2>1. ASSUME NEW g \in active', g.answer = "quote" PROVE MadeFor(g.event.hash, g.event.client)'
    BY <1>1, <1>7, <2>1 DEF RelayInv, QuotesAreTheirs, MadeFor
  <2> QED
    BY <1>1, <1>5, <2>1 DEF QuotesAreTheirs, MadeFor
<1>10. SubscribedInTime'
  BY <1>1 DEF RelayInv, SubscribedInTime, Accounted, Wanted
<1>11. MissedStaysInReach'
  <2> SUFFICES ASSUME socket # "open", NEW e \in stored, ~Accounted(e)'
               PROVE  /\ e.stamp >= highWater' - Overlap
                      /\ \A k \in DOMAIN queue' : e.stamp >= queue'[k].stampedAt - Overlap
    BY <1>1 DEF MissedStaysInReach
  <2>1. ~Accounted(e)
    BY <1>1 DEF Accounted
  <2>2. e.stamp >= highWater - Overlap /\ \A k \in DOMAIN queue : e.stamp >= queue[k].stampedAt - Overlap
    BY <2>1 DEF RelayInv, MissedStaysInReach
  <2> QED
    BY <1>7, <2>2
<1> QED
  BY <1>8, <1>9, <1>10, <1>11 DEF RelayInv

(* Nothing of the socket, the requests or the swaps is touched. *)
LEMMA CardStepKeeps ==
  ASSUME RelayInv, publishIfDue \/ sendCard \/ NewCard
  PROVE  RelayInv'
<1>1. UNCHANGED <<wire, highWater, active, queue, pending, answers, rows, wireClock, drops>>
  BY DEF publishIfDue, sendCard, NewCard
<1> USE DEF RelayInv, wire
<1>2. RelayTypes' /\ BoundedWork'
  BY <1>1, SameLoad DEF RelayTypes, BoundedWork
<1>3. CursorBehind' /\ QuotesAreTheirs' /\ SubscribedInTime' /\ MissedStaysInReach'
  BY <1>1, CursorStays, QuotesStay, MissedStays
<1> QED
  BY <1>2, <1>3

(* Whatever is asked now is within the overlap of the clock. *)
LEMMA AskKeeps ==
  ASSUME RelayInv, NEW r \in load.requests, Ask(r)
  PROVE  RelayInv'
<1> DEFINE e == [rfq |-> r.rfq, hash |-> r.hash, client |-> r.client, kind |-> r.kind, stamp |-> wireClock + r.ahead]
<1>1. /\ stored' = stored \cup {e}
      /\ UNCHANGED <<load, socket, since, shown, heard, unsure, highWater, active, queue, pending, answers, rows, wireClock, drops>>
  BY DEF Ask
<1>2. r.ahead \in Int /\ r.ahead >= -Overlap /\ r.ahead >= -MaxReplay /\ wireClock \in Int /\ Overlap \in Nat /\ MaxReplay \in Nat
  BY RelayAssumption DEF RelayInv, RelayTypes
<1>3. e \in Event /\ e.stamp = wireClock + r.ahead /\ e.stamp \in Int
  BY <1>2 DEF Event, Rfqs, Hashes, Clients, Kinds
<1> HIDE DEF e
<1>4. RelayTypes' /\ BoundedWork'
  BY <1>1, <1>3, SameLoad DEF RelayTypes, BoundedWork, RelayInv
<1>5. CursorBehind' /\ QuotesAreTheirs'
  BY <1>1, CursorStays, QuotesStay DEF RelayInv
<1>6. SubscribedInTime'
  <2>1. socket = "open" => Accounted(e) \/ Wanted(e)
    BY <1>2, <1>3 DEF RelayInv, SubscribedInTime, Accounted, Wanted, FloorSince, RelayTypes
  <2> QED
    BY <1>1, <2>1 DEF RelayInv, SubscribedInTime, Accounted, Wanted
<1>7. MissedStaysInReach'
  <2>1. e.stamp >= highWater - Overlap
    BY <1>2, <1>3 DEF RelayInv, CursorBehind, RelayTypes
  <2>2. ASSUME NEW k \in DOMAIN queue PROVE e.stamp >= queue[k].stampedAt - Overlap
    <3>1. queue[k].stampedAt \in Int /\ queue[k].stampedAt <= wireClock
      <4>1. queue[k] \in Delivered
        BY DEF RelayInv, RelayTypes
      <4> QED
        BY <4>1 DEF RelayInv, CursorBehind, Delivered
    <3> QED
      BY <1>2, <1>3, <3>1
  <2> QED
    BY <1>1, <2>1, <2>2 DEF RelayInv, MissedStaysInReach, Accounted
<1> QED
  BY <1>4, <1>5, <1>6, <1>7 DEF RelayInv

LEMMA FundKeeps ==
  ASSUME RelayInv, NEW r \in load.requests, Fund(r.hash)
  PROVE  RelayInv'
<1> DEFINE hash == r.hash
<1>1. /\ UNCHANGED <<load, socket, since, shown, heard, stored, unsure, highWater, active, queue, pending, answers, wireClock, drops>>
      /\ rows[hash].state = "quoted" /\ rows' = [rows EXCEPT ![hash].state = "funded"]
  BY DEF Fund, wire
<1>2. hash \in Hashes /\ rows \in [Hashes -> SwapRow]
  BY DEF RelayInv, RelayTypes, Hashes
<1>3. rows' \in [Hashes -> SwapRow] /\ \A x \in Hashes : rows'[x].client = rows[x].client /\ (rows'[x].state = "none" <=> rows[x].state = "none")
  BY <1>1, <1>2 DEF SwapRow
<1>4. RelayTypes' /\ BoundedWork'
  BY <1>1, <1>3, SameLoad DEF RelayTypes, BoundedWork, RelayInv
<1>5. CursorBehind' /\ SubscribedInTime' /\ MissedStaysInReach'
  BY <1>1, CursorStays, MissedStays DEF RelayInv
<1>6. QuotesAreTheirs'
  <2>1. ASSUME NEW g \in active PROVE g.event.hash \in Hashes
    BY DEF RelayInv, RelayTypes, Running, Event
  <2>2. ASSUME NEW a \in answers PROVE a.hash \in Hashes
    BY DEF RelayInv, RelayTypes, Reply
  <2>3. ASSUME NEW k \in DOMAIN pending PROVE pending[k].hash \in Hashes
    <3>1. pending[k] \in Reply
      BY DEF RelayInv, RelayTypes
    <3> QED
      BY <3>1 DEF Reply
  <2> QED
    BY <1>1, <1>3, <2>1, <2>2, <2>3 DEF RelayInv, QuotesAreTheirs, MadeFor
<1> QED
  BY <1>4, <1>5, <1>6 DEF RelayInv

LEMMA SecondKeeps ==
  ASSUME RelayInv, Second
  PROVE  RelayInv'
<1>1. /\ UNCHANGED <<load, socket, since, shown, heard, stored, unsure, highWater, active, queue, pending, answers, rows, drops>>
      /\ wireClock' = wireClock + 1 /\ wireClock \in Int /\ wireClock' \in Int
  BY DEF Second, wire, RelayInv, RelayTypes
<1>2. RelayTypes' /\ BoundedWork'
  BY <1>1, SameLoad DEF RelayTypes, BoundedWork, RelayInv
<1>3. QuotesAreTheirs' /\ MissedStaysInReach'
  BY <1>1, QuotesStay DEF RelayInv, MissedStaysInReach, Accounted
<1>4. CursorBehind'
  <2>1. ASSUME NEW k \in DOMAIN queue PROVE queue[k].stampedAt \in Int
    <3>1. queue[k] \in Delivered
      BY DEF RelayInv, RelayTypes
    <3> QED
      BY <3>1 DEF Delivered
  <2> QED
    BY <1>1, <2>1 DEF RelayInv, RelayTypes, CursorBehind
<1>5. SubscribedInTime'
  BY <1>1, RelayAssumption DEF RelayInv, RelayTypes, SubscribedInTime, Accounted, Wanted, FloorSince
<1> QED
  BY <1>2, <1>3, <1>4, <1>5 DEF RelayInv

(* A relay connection keeps its books through reconnects, full queues and clients whose clocks differ: types, a   *)
(* cursor behind the clock, quotes made for one client each, and nothing missed out of reach                      *)
(* (relay/connection.ts:343-467, corridors/rfq.ts:184-261).                                                       *)
THEOREM RelayInvariant == RelaySpec => []RelayInv
<1>1. RelayInit => RelayInv
  <2> SUFFICES ASSUME RelayInit PROVE RelayInv
    OBVIOUS
  <2>1. load \in Loads /\ socket = "connecting" /\ since = FloorSince /\ highWater = 0 /\ stored = {} /\ active = {}
        /\ queue = <<>> /\ pending = <<>> /\ answers = {} /\ rows = [x \in Hashes |-> NoRow] /\ wireClock = FloorSince /\ drops = 0
    BY DEF RelayInit, Hashes
  <2>2. NoRow \in SwapRow
    BY DEF NoRow, SwapRow, Rfqs, Clients
  <2>3. IsFiniteSet(active) /\ Cardinality(active) = 0
    BY <2>1, FS_EmptySet
  <2>4. RelayTypes
    BY <2>1, <2>2, <2>3 DEF RelayTypes, FloorSince
  <2>5. BoundedWork
    BY <2>1, <2>3, RelayAssumption DEF BoundedWork
  <2> QED
    BY <2>1, <2>4, <2>5 DEF RelayInv, CursorBehind, QuotesAreTheirs, SubscribedInTime, MissedStaysInReach, FloorSince
<1>2. RelayInv /\ [RelayNext]_relayVars => RelayInv'
  <2> SUFFICES ASSUME RelayInv, [RelayNext]_relayVars PROVE RelayInv'
    OBVIOUS
  <2>1. CASE UNCHANGED relayVars
    <3>1. RelayTypes' /\ BoundedWork'
      BY <2>1, SameLoad DEF RelayInv, RelayTypes, BoundedWork, relayVars
    <3>2. CursorBehind' /\ QuotesAreTheirs' /\ SubscribedInTime' /\ MissedStaysInReach'
      BY <2>1, CursorStays, QuotesStay, MissedStays DEF RelayInv, relayVars
    <3> QED
      BY <3>1, <3>2 DEF RelayInv
  <2>2. CASE SocketStep \/ Down
    BY <2>2, OpenKeeps, ReconnectKeeps, DownKeeps DEF SocketStep
  <2>3. CASE IngressStep \/ \E h \in active : quoteThrows(h)
    BY <2>3, RespondKeeps, QuoteKeeps, TellAgainKeeps, PublishKeeps, QuoteThrowsKeeps DEF IngressStep
  <2>4. CASE CardStep \/ NewCard
    BY <2>4, CardStepKeeps DEF CardStep
  <2>5. CASE \E e \in stored : Receive(e)
    BY <2>5, ReceiveKeeps
  <2>6. CASE \E r \in load.requests : Ask(r) \/ Fund(r.hash)
    BY <2>6, AskKeeps, FundKeeps
  <2>7. CASE Second
    BY <2>7, SecondKeeps
  <2> QED
    BY <2>1, <2>2, <2>3, <2>4, <2>5, <2>6, <2>7 DEF RelayNext
<1> QED
  BY <1>1, <1>2, PTL DEF RelaySpec

(* For any requests, limits and number of lost connections: a quote is told only to the client its swap refunds,  *)
(* the cursor never runs past the clock, whatever was asked while the solver was away is asked for again, and     *)
(* handlers, queue and waiting answers stay within their limits (relay/connection.ts:294-365, 400-467).           *)
THEOREM IngressSound == RelaySpec => []IngressIsSound
<1>1. RelayInv => IngressIsSound
  <2> SUFFICES ASSUME RelayInv PROVE IngressIsSound
    OBVIOUS
  <2>1. QuotesReachTheirClient
    <3>1. ASSUME NEW hash, NEW who, MadeFor(hash, who) PROVE rows[hash] # NoRow /\ rows[hash].client = who
      BY <3>1 DEF MadeFor, NoRow
    <3> QED
      BY <3>1 DEF RelayInv, QuotesAreTheirs, QuotesReachTheirClient, ToSet
  <2>2. NeverDeaf /\ BoundedWork
    BY DEF RelayInv, CursorBehind, NeverDeaf
  <2>3. MissedIsAskedFor
    <3>1. \A e \in stored : e.stamp \in Int
      BY DEF RelayInv, RelayTypes, Event
    <3> QED
      BY <3>1 DEF RelayInv, SubscribedInTime, MissedIsAskedFor, Accounted, FloorSince
  <2> QED
    BY <2>1, <2>2, <2>3 DEF IngressIsSound
<1> QED
  BY <1>1, RelayInvariant, PTL

-----------------------------------------------------------------------------
(* LockupWatch.                                                               *)
WatchTypes ==
  /\ swap \in [Script -> {"none", "live", "over"}] /\ ticking \in [Script -> {"no", "begun", "read"}]
  /\ DOMAIN changed = Script /\ DOMAIN seen = Script
  /\ resync \in [at : {"idle", "read"}, left : SUBSET Script, found : SUBSET Script]
  /\ reconciling \in [at : {"idle", "watch", "unwatch"}, wanted : SUBSET Script, left : SUBSET Script]
  /\ source \in [watches : SUBSET Script, up : BOOLEAN, listens : BOOLEAN]
  /\ asked \subseteq Script /\ watched \subseteq Script /\ blind \subseteq Script

(* A change nothing will tell of: only a restart leaves one, at a swap that was over, and the row is not read again *)
(* before it is taken up.                                                                                          *)
Forgotten(s) == s \notin blind /\ seen[s] # changed[s] /\ ticking[s] # "begun" /\ s \notin events
(* So a script with one was never confirmed, is live if it is watched for, and stays so in the resync and the       *)
(* reconciliation under way.                                                                                       *)
ForgottenIsNew(s) ==
  /\ ticking[s] = "no" /\ s \notin asked
  /\ s \in watched \cup resync.found => swap[s] = "live"
  /\ reconciling.at = "watch" /\ s \in reconciling.left => s \in watched
  /\ s \in watched /\ resync.at = "read" /\ s \notin resync.left => s \in resync.found
WatchInv ==
  /\ WatchTypes /\ AskedIsWatched
  /\ \A s \in Script : Forgotten(s) => ForgottenIsNew(s)

(* An action that neither makes a change forgotten nor touches what is asked of one that is. *)
LEMMA ForgottenStays ==
  ASSUME WatchInv, UNCHANGED <<swap, watched, asked, resync, reconciling>>,
         \A s \in Script : Forgotten(s)' => Forgotten(s) /\ ticking'[s] = ticking[s]
  PROVE  \A s \in Script : Forgotten(s)' => ForgottenIsNew(s)'
BY DEF WatchInv, ForgottenIsNew

LEMMA StreamKeeps ==
  ASSUME WatchInv, attach \/ Disconnect \/ Reconnect
  PROVE  WatchInv'
<1>1. UNCHANGED <<world, seen, ticking, watcher, blind>> /\ events \subseteq events'
  BY DEF attach, Disconnect, Reconnect
<1>2. source' \in [watches : SUBSET Script, up : BOOLEAN, listens : BOOLEAN] /\ source'.watches = source.watches
  BY DEF attach, Disconnect, Reconnect, WatchInv, WatchTypes
<1>3. WatchTypes' /\ AskedIsWatched'
  BY <1>1, <1>2 DEF WatchInv, WatchTypes, AskedIsWatched, world, watcher
<1>4. \A s \in Script : Forgotten(s)' => Forgotten(s) /\ ticking'[s] = ticking[s]
  BY <1>1 DEF Forgotten, world
<1> QED
  BY <1>1, <1>3, <1>4, ForgottenStays DEF WatchInv, world, watcher

LEMMA HandleKeeps ==
  ASSUME WatchInv, NEW e \in Script \cup {Reset}, handle(e)
  PROVE  WatchInv'
<1>1. /\ UNCHANGED <<world, seen, watcher, source>> /\ events' = events \ {e}
      /\ ticking' = Ticked(IF e = Reset THEN watched ELSE {e} \cap watched)
      /\ blind' = blind \cup Deaf(IF e = Reset THEN watched ELSE {e} \cap watched) \cup ((Script \cap {e}) \ watched)
  BY DEF handle
<1>2. WatchTypes' /\ AskedIsWatched'
  <2>1. ticking' \in [Script -> {"no", "begun", "read"}]
    BY <1>1 DEF Ticked, WatchInv, WatchTypes
  <2>2. blind' \subseteq Script
    BY <1>1 DEF Deaf, WatchInv, WatchTypes
  <2> QED
    BY <1>1, <2>1, <2>2 DEF WatchInv, WatchTypes, AskedIsWatched, world, watcher
<1>3. ASSUME NEW s \in Script, Forgotten(s)' PROVE Forgotten(s) /\ ticking'[s] = ticking[s]
  <2>1. s \notin blind /\ seen[s] # changed[s] /\ ticking'[s] # "begun" /\ s \notin events'
    BY <1>1, <1>3 DEF Forgotten, world
  <2>2. ticking'[s] = ticking[s]
    BY <1>1, <2>1 DEF Ticked
  <2>3. s # e \/ s \notin events
    <3> SUFFICES ASSUME s = e, s \in events PROVE FALSE
      OBVIOUS
    <3>1. s # Reset /\ s \in watched
      BY <1>1, <1>3, WatchAssumption DEF Forgotten
    <3>2. ticking[s] \in {"no", "read"}
      BY <2>1, <2>2 DEF WatchInv, WatchTypes
    <3>3. ticking[s] # "no"
      BY <1>1, <2>1, <2>2, <3>1 DEF Ticked
    <3>4. s \in Deaf({e} \cap watched)
      BY <2>1, <3>1, <3>2, <3>3 DEF Deaf
    <3> QED
      BY <1>1, <1>3, <3>1, <3>4 DEF Forgotten
  <2> QED
    BY <1>1, <2>1, <2>2, <2>3 DEF Forgotten
<1> QED
  BY <1>1, <1>2, <1>3, ForgottenStays DEF WatchInv, world, watcher

(* The loop reads which swaps are live, and takes the scripts found for the ones to watch. *)
LEMMA LoopKeeps ==
  ASSUME WatchInv, LoopStep
  PROVE  WatchInv'
<1>1. UNCHANGED <<world, seen, ticking, asked, source, events, blind>>
  BY DEF LoopStep, beginResync, findRecoverable, sync
<1>2. \A s \in Script : Forgotten(s)' <=> Forgotten(s)
  BY <1>1 DEF Forgotten, world
<1>3. CASE beginResync
  <2>1. resync' = [at |-> "read", left |-> Script, found |-> {}] /\ UNCHANGED <<watched, reconciling>>
    BY <1>3 DEF beginResync
  <2> QED
    BY <1>1, <1>2, <2>1 DEF WatchInv, WatchTypes, AskedIsWatched, ForgottenIsNew, world
<1>4. ASSUME NEW r \in Script, findRecoverable(r) PROVE WatchInv'
  <2>1. UNCHANGED <<watched, reconciling>> /\ resync.at = "read" /\ r \in resync.left
    BY <1>4 DEF findRecoverable
  <2>2. CASE resync' = NoSync
    BY <1>1, <1>2, <2>1, <2>2 DEF NoSync, WatchInv, WatchTypes, AskedIsWatched, ForgottenIsNew, world
  <2>3. CASE resync' # NoSync
    <3>1. resync' = [at |-> "read", left |-> resync.left \ {r}, found |-> IF swap[r] = "live" THEN resync.found \cup {r} ELSE resync.found]
      BY <1>4, <2>1, <2>3 DEF findRecoverable, WatchInv, WatchTypes
    <3>2. WatchTypes' /\ AskedIsWatched'
      BY <1>1, <2>1, <3>1 DEF WatchInv, WatchTypes, AskedIsWatched, world
    <3> QED
      BY <1>1, <1>2, <2>1, <3>1, <3>2 DEF WatchInv, WatchTypes, ForgottenIsNew, world
  <2> QED
    BY <2>2, <2>3
<1>5. CASE sync
  <2>1. /\ resync.at = "read" /\ resync.left = {} /\ resync' = NoSync /\ watched' = resync.found
        /\ reconciling' = IF reconciling.at = "idle" THEN Reconcile(resync.found) ELSE reconciling
    BY <1>5 DEF sync
  <2>2. WatchTypes' /\ AskedIsWatched'
    BY <1>1, <2>1 DEF WatchInv, WatchTypes, AskedIsWatched, world, Reconcile, NoSync
  <2>3. ASSUME NEW s \in Script, Forgotten(s) PROVE ForgottenIsNew(s)'
    <3>1. ForgottenIsNew(s)
      BY <2>3 DEF WatchInv
    <3>2. s \in watched' => swap'[s] = "live"
      BY <1>1, <2>1, <3>1 DEF ForgottenIsNew, world
    <3>3. reconciling'.at = "watch" /\ s \in reconciling'.left => s \in watched'
      BY <2>1, <3>1 DEF ForgottenIsNew, Reconcile
    <3> QED
      BY <1>1, <2>1, <3>1, <3>2, <3>3 DEF ForgottenIsNew, NoSync, world
  <2> QED
    BY <1>2, <2>2, <2>3 DEF WatchInv
<1> QED
  BY <1>3, <1>4, <1>5 DEF LoopStep

(* A script the source confirms is ticked at once; one no longer watched for was read before it was let go. *)
LEMMA WatchScriptKeeps ==
  ASSUME WatchInv, NEW r \in Script, watchScript(r)
  PROVE  WatchInv'
<1>1. /\ UNCHANGED <<world, seen, resync, watched, events>>
      /\ reconciling.at = "watch" /\ r \in reconciling.left
      /\ reconciling' = [reconciling EXCEPT !.left = @ \ {r}]
  BY DEF watchScript
<1>2. /\ reconciling' \in [at : {"idle", "watch", "unwatch"}, wanted : SUBSET Script, left : SUBSET Script]
      /\ reconciling'.at = "watch" /\ reconciling'.left = reconciling.left \ {r}
  BY <1>1 DEF WatchInv, WatchTypes
<1>3. CASE /\ source' = [source EXCEPT !.watches = @ \cup {r}] /\ asked' = asked \cup {r}
           /\ ticking' = Ticked({r}) /\ blind' = (blind \ ({r} \cap watched)) \cup Deaf({r})
  <2>1. ticking' \in [Script -> {"no", "begun", "read"}] /\ blind' \subseteq Script
    BY <1>3 DEF Ticked, Deaf, WatchInv, WatchTypes
  <2>2. source' \in [watches : SUBSET Script, up : BOOLEAN, listens : BOOLEAN] /\ source'.watches = source.watches \cup {r}
    BY <1>3 DEF WatchInv, WatchTypes
  <2>3. WatchTypes' /\ AskedIsWatched'
    BY <1>1, <1>2, <1>3, <2>1, <2>2 DEF WatchInv, WatchTypes, AskedIsWatched, world
  <2>4. ~Forgotten(r)'
    <3>1. CASE r \in watched
      <4>1. ticking[r] \in {"no", "begun", "read"}
        BY DEF WatchInv, WatchTypes
      <4>2. CASE ticking[r] = "read" /\ seen[r] # changed[r]
        BY <1>3, <3>1, <4>2 DEF Deaf, Forgotten
      <4>3. CASE ticking[r] = "no" \/ ticking[r] = "begun"
        BY <1>3, <3>1, <4>3 DEF Ticked, Forgotten
      <4> QED
        BY <1>1, <4>1, <4>2, <4>3 DEF Forgotten, world
    <3>2. CASE r \notin watched
      <4>1. ~Forgotten(r)
        BY <1>1, <3>2 DEF WatchInv, ForgottenIsNew
      <4>2. ticking'[r] = ticking[r] /\ blind' = blind
        BY <1>3, <3>2 DEF Ticked, Deaf
      <4> QED
        BY <1>1, <4>1, <4>2 DEF Forgotten, world
    <3> QED
      BY <3>1, <3>2
  <2>5. ASSUME NEW s \in Script, Forgotten(s)' PROVE ForgottenIsNew(s)'
    <3>1. s # r
      BY <2>4, <2>5
    <3>2. ticking'[s] = ticking[s] /\ (s \in blind' <=> s \in blind)
      BY <1>3, <3>1 DEF Ticked, Deaf
    <3>3. Forgotten(s)
      BY <1>1, <2>5, <3>2 DEF Forgotten, world
    <3> QED
      BY <1>1, <1>2, <1>3, <3>1, <3>2, <3>3 DEF WatchInv, ForgottenIsNew, world
  <2> QED
    BY <2>3, <2>5 DEF WatchInv
<1>4. CASE /\ \E w \in {source.watches, source.watches \cup {r}} : source' = [source EXCEPT !.watches = w]
           /\ UNCHANGED <<asked, ticking, blind>>
  <2>1. source' \in [watches : SUBSET Script, up : BOOLEAN, listens : BOOLEAN] /\ source.watches \subseteq source'.watches
    BY <1>4 DEF WatchInv, WatchTypes
  <2>2. WatchTypes' /\ AskedIsWatched'
    BY <1>1, <1>2, <1>4, <2>1 DEF WatchInv, WatchTypes, AskedIsWatched, world
  <2>3. ASSUME NEW s \in Script, Forgotten(s)' PROVE ForgottenIsNew(s)'
    <3>1. Forgotten(s)
      BY <1>1, <1>4, <2>3 DEF Forgotten, world
    <3> QED
      BY <1>1, <1>2, <1>4, <3>1 DEF WatchInv, ForgottenIsNew, world
  <2> QED
    BY <2>2, <2>3 DEF WatchInv
<1> QED
  BY <1>3, <1>4 DEF watchScript

LEMMA ReconcileKeeps ==
  ASSUME WatchInv, (\E s \in Script : unwatchScript(s)) \/ endWatching \/ endReconcile
  PROVE  WatchInv'
<1>1. /\ UNCHANGED <<world, seen, ticking, resync, watched, events, blind>> /\ asked' \subseteq asked
      /\ reconciling' \in [at : {"idle", "watch", "unwatch"}, wanted : SUBSET Script, left : SUBSET Script]
      /\ reconciling'.at # "watch"
  <2>1. ASSUME NEW r \in Script, unwatchScript(r)
        PROVE  /\ UNCHANGED <<world, seen, ticking, resync, watched, events, blind>> /\ asked' \subseteq asked
               /\ reconciling' \in [at : {"idle", "watch", "unwatch"}, wanted : SUBSET Script, left : SUBSET Script]
               /\ reconciling'.at # "watch"
    BY <2>1 DEF unwatchScript, WatchInv, WatchTypes
  <2>2. CASE endWatching
    BY <2>2 DEF endWatching, WatchInv, WatchTypes
  <2>3. CASE endReconcile
    BY <2>3 DEF endReconcile, NoReconcile, WatchInv, WatchTypes
  <2> QED
    BY <2>1, <2>2, <2>3
<1>2. source' \in [watches : SUBSET Script, up : BOOLEAN, listens : BOOLEAN] /\ asked' \subseteq source'.watches
  BY DEF unwatchScript, endWatching, endReconcile, WatchInv, WatchTypes, AskedIsWatched
<1>3. WatchTypes' /\ AskedIsWatched'
  BY <1>1, <1>2 DEF WatchInv, WatchTypes, AskedIsWatched, world
<1>4. ASSUME NEW s \in Script, Forgotten(s)' PROVE ForgottenIsNew(s)'
  <2>1. Forgotten(s)
    BY <1>1, <1>4 DEF Forgotten, world
  <2> QED
    BY <1>1, <2>1 DEF WatchInv, ForgottenIsNew, world
<1> QED
  BY <1>3, <1>4 DEF WatchInv

(* A tick reads the script it is about; one that fails leaves it to the sweep. *)
LEMMA TickKeeps ==
  ASSUME WatchInv, NEW r \in Script, tickAll(r) \/ TickStep(r) \/ tickFails(r)
  PROVE  WatchInv'
<1>1. /\ UNCHANGED <<plan, changed, watcher, source, events>>
      /\ \A s \in Script \ {r} : ticking'[s] = ticking[s] /\ seen'[s] = seen[s] /\ swap'[s] = swap[s] /\ (s \in blind' <=> s \in blind)
      /\ ticking' \in [Script -> {"no", "begun", "read"}] /\ DOMAIN seen' = Script /\ blind' \subseteq Script
      /\ swap' \in [Script -> {"none", "live", "over"}]
  BY DEF tickAll, TickStep, tickReads, tickEnds, tickFails, world, desk, WatchInv, WatchTypes
<1>2. WatchTypes' /\ AskedIsWatched'
  BY <1>1 DEF WatchInv, WatchTypes, AskedIsWatched, watcher
<1>3. ~Forgotten(r)'
  <2>1. CASE tickAll(r)
    BY <2>1 DEF tickAll, Forgotten, WatchInv, WatchTypes
  <2>2. CASE tickReads(r)
    BY <2>2 DEF tickReads, Forgotten, world, WatchInv, WatchTypes
  <2>3. CASE tickFails(r)
    BY <2>3 DEF tickFails, Forgotten
  <2>4. CASE tickEnds(r)
    <3>1. ~Forgotten(r)
      BY <2>4 DEF tickEnds, WatchInv, ForgottenIsNew
    <3> QED
      BY <2>4, <3>1 DEF tickEnds, Forgotten, desk
  <2> QED
    BY <2>1, <2>2, <2>3, <2>4 DEF TickStep
<1>4. ASSUME NEW s \in Script, Forgotten(s)' PROVE ForgottenIsNew(s)'
  <2>1. s # r
    BY <1>3, <1>4
  <2>2. Forgotten(s)
    BY <1>1, <1>4, <2>1 DEF Forgotten
  <2> QED
    BY <1>1, <2>1, <2>2 DEF WatchInv, ForgottenIsNew, watcher
<1> QED
  BY <1>2, <1>4 DEF WatchInv

LEMMA WorldKeeps ==
  ASSUME WatchInv, NEW r \in Script, Quote(r) \/ Resume(r) \/ Change(r)
  PROVE  WatchInv'
<1>1. /\ UNCHANGED <<seen, ticking, watcher, source>> /\ swap' \in [Script -> {"none", "live", "over"}]
      /\ \A s \in Script : swap'[s] = swap[s] \/ swap'[s] = "live"
      /\ DOMAIN changed' = Script /\ \A s \in Script \ {r} : changed'[s] = changed[s]
      /\ blind \subseteq blind' /\ blind' \subseteq Script /\ events \subseteq events'
  BY DEF Quote, Resume, Change, desk, WatchInv, WatchTypes
<1>2. WatchTypes' /\ AskedIsWatched'
  BY <1>1 DEF WatchInv, WatchTypes, AskedIsWatched, watcher
<1>3. changed'[r] = changed[r] \/ r \in blind' \/ r \in events'
  BY DEF Quote, Resume, Change
<1>4. ASSUME NEW s \in Script, Forgotten(s)' PROVE ForgottenIsNew(s)'
  <2>1. Forgotten(s)
    BY <1>1, <1>3, <1>4 DEF Forgotten
  <2> QED
    BY <1>1, <2>1 DEF WatchInv, ForgottenIsNew, watcher
<1> QED
  BY <1>2, <1>4 DEF WatchInv

LEMMA RestartKeeps ==
  ASSUME WatchInv, Restart
  PROVE  WatchInv'
<1>1. WatchTypes' /\ AskedIsWatched'
  BY DEF Restart, world, NoSync, NoReconcile, Detached, WatchInv, WatchTypes, AskedIsWatched
<1>2. ASSUME NEW s \in Script, Forgotten(s)' PROVE ForgottenIsNew(s)'
  BY <1>2 DEF Restart, Forgotten, ForgottenIsNew, NoSync, NoReconcile
<1> QED
  BY <1>1, <1>2 DEF WatchInv

(* The watcher's books through lost calls, a stream that drops, restarts and rows taken up again: what it counts as *)
(* watched is, and a change only the sweep will find is never at a script the source confirmed                     *)
(* (lockupWatcher.ts:60-172, cli.ts:351-441).                                                                      *)
THEOREM WatchInvariant == WatchSpec => []WatchInv
<1>1. WatchInit => WatchInv
  BY DEF WatchInit, NoSync, NoReconcile, Detached, WatchInv, WatchTypes, AskedIsWatched, Forgotten
<1>2. WatchInv /\ [WatchNext]_watchVars => WatchInv'
  <2> SUFFICES ASSUME WatchInv, [WatchNext]_watchVars PROVE WatchInv'
    OBVIOUS
  <2>1. CASE UNCHANGED watchVars
    BY <2>1 DEF watchVars, WatchInv, WatchTypes, AskedIsWatched, Forgotten, ForgottenIsNew
  <2>2. CASE attach \/ (\E e \in Script \cup {Reset} : handle(e)) \/ Disconnect \/ Reconnect
    BY <2>2, StreamKeeps, HandleKeeps
  <2>3. CASE LoopStep \/ ReconcileStep
    BY <2>3, LoopKeeps, WatchScriptKeeps, ReconcileKeeps DEF ReconcileStep
  <2>4. CASE \E s \in Script : tickAll(s) \/ TickStep(s) \/ tickFails(s) \/ Quote(s) \/ Resume(s) \/ Change(s)
    BY <2>4, TickKeeps, WorldKeeps
  <2>5. CASE Restart
    BY <2>5, RestartKeeps
  <2> QED
    BY <2>1, <2>2, <2>3, <2>4, <2>5 DEF WatchNext
<1> QED
  BY <1>1, <1>2, PTL DEF WatchSpec

(* For any scripts and any changes, lost calls, dropped streams and restarts: what changes at a confirmed script is *)
(* read, being read or told of, but for the gaps that only the sweep closes, and the watcher's list is the source's *)
(* (lockupWatcher.ts:103-172).                                                                                     *)
THEOREM WatchSound == WatchSpec => []WatchIsSound
<1>1. WatchInv => WatchIsSound
  BY DEF WatchInv, WatchTypes, WatchIsSound, FastPathIsComplete, ToldOf, Forgotten, ForgottenIsNew
<1> QED
  BY <1>1, WatchInvariant, PTL

-----------------------------------------------------------------------------
(* UnrolledSpend.                                                             *)
StepKinds == {"none", "pending", "confirmed", "spent", "closed"}
StepRec == [kind : StepKinds, tx : Nat, raw : BOOLEAN, at : Int, cpfp : BOOLEAN]
Busy == [pc : {"find", "advance", "cosign", "refused", "bump", "left"}, steps : [AllOuts -> StepRec],
         outputs : SUBSET AllOuts, todo : SUBSET AllOuts, keys : SUBSET AllOuts, rec : StepRec]
OnBitcoin == [since : Int, signed : Nat, at : {"none", "mempool", "ours", "theirs", "dropped"}, child : {"none", "mempool", "dropped"}]
ChainTypes ==
  /\ where \in [AllOuts -> {"live", "claimed", "refunded", "unrolled"}] /\ l1 \in [AllOuts -> OnBitcoin]
  /\ lag \subseteq AllOuts
SpendTypes ==
  /\ setting \in Settings /\ state \in {"open", "done", "learnt", "stuck"} /\ steps \in [AllOuts -> StepRec]
  /\ ChainTypes /\ job \in [Worker -> Busy \cup {Idle}] /\ clock \in Int

(* Only a spend on record names a transaction, and one counts as confirmed only when it is. *)
Sent == {"pending", "confirmed"}
TruthfulStep(step, o) == (step.kind \notin Sent => step.tx = 0) /\ (step.kind = "confirmed" => l1[o].at = "ours")
Truthful(column) == \A o \in AllOuts : TruthfulStep(column[o], o)

(* What a worker is about to do is about an output of the row that is not confirmed yet. *)
CopyIsSound(w) ==
  /\ Truthful(job[w].steps) /\ job[w].todo \subseteq Outs /\ job[w].outputs \subseteq Outs
  /\ \A x \in job[w].todo : job[w].steps[x].kind # "confirmed"
ActIsSound(w) ==
  /\ job[w].pc \in {"cosign", "refused", "bump"} => job[w].todo # {} /\ job[w].rec.kind = "pending"
  /\ job[w].pc \in {"cosign", "refused"} => job[w].steps[Current(w)] = job[w].rec /\ ~job[w].rec.raw
  /\ job[w].pc = "cosign" => job[w].rec.at = clock /\ job[w].rec.tx # 0
  /\ job[w].pc = "bump" => l1[Current(w)].signed # 0 /\ Current(w) \notin lag
  /\ job[w].pc = "left" => leg = "claim" /\ \A x \in job[w].outputs : where[x] = "claimed"
JobIsSound(w) == job[w] # Idle => CopyIsSound(w) /\ ActIsSound(w)

(* A spend in sight was signed, and one signed was sent. *)
SignedIsSent ==
  \A o \in AllOuts : /\ l1[o].at \in {"mempool", "ours", "dropped"} => l1[o].signed # 0
                     /\ l1[o].signed # 0 => l1[o].at # "none"
                     /\ o \in lag => l1[o].signed # 0

(* One worker's copy of the column is the column; what it has signed is on record, and one nobody shows yet was *)
(* recorded at this very moment.                                                                               *)
RecordIsFresh(step, o) ==
  /\ l1[o].at \in {"mempool", "ours"} => step.kind \in Sent
  /\ o \in lag => l1[o].at = "theirs" \/ (step.kind = "pending" /\ step.at = clock /\ ~step.raw)
AloneIsCurrent ==
  \A w \in Worker : setting.crew = {w} =>
    /\ \A v \in Worker \ {w} : job[v] = Idle
    /\ job[w] # Idle => job[w].steps = steps
    /\ \A o \in Outs : RecordIsFresh(steps[o], o)

SpendInv ==
  /\ SpendTypes /\ Truthful(steps) /\ \A w \in Worker : JobIsSound(w)
  /\ SignedIsSent /\ AloneIsCurrent /\ DoneIsCollected /\ ParkedOnlyWhenWorthless

(* A set of natural numbers that has an element has a least one. *)
LEMMA LeastOutput ==
  ASSUME NEW T \in SUBSET Nat, T # {}
  PROVE  Min(T) \in T
<1>1. \E m \in T : \A k \in T : ~(<<k, m>> \in OpToRel(<, Nat))
  BY NatLessThanWellFounded, WFMin, Zenon
<1>2. PICK m \in T : \A k \in T : ~(<<k, m>> \in OpToRel(<, Nat))
  BY <1>1
<1>3. \A k \in T : ~(k < m)
  BY <1>2 DEF OpToRel
<1>4. \E n \in T : \A k \in T : n =< k
  BY <1>3
<1> QED
  BY <1>4 DEF Min

LEMMA OutputsAreTheirs ==
  ASSUME SpendInv
  PROVE  Outs \subseteq Nat /\ Outs \subseteq AllOuts
<1>1. setting \in Settings
  BY DEF SpendInv, SpendTypes
<1>2. setting.outs \subseteq Nat
  BY <1>1, SpendAssumption
<1>3. setting.outs \subseteq UNION {s.outs : s \in Settings}
  BY <1>1
<1> QED
  BY <1>2, <1>3 DEF Outs, AllOuts

(* The output a worker is at is one of those it has still to do, and one of the row's. *)
LEMMA CurrentIsOne ==
  ASSUME SpendInv, NEW w \in Worker, job[w] # Idle, job[w].todo # {}
  PROVE  Current(w) \in job[w].todo /\ Current(w) \in Outs /\ Current(w) \in AllOuts /\ Current(w) \in Nat
<1>1. job[w].todo \subseteq Outs
  BY DEF SpendInv, JobIsSound, CopyIsSound
<1>2. Outs \subseteq Nat /\ Outs \subseteq AllOuts
  BY OutputsAreTheirs
<1>3. Current(w) \in job[w].todo
  BY <1>1, <1>2, LeastOutput DEF Current
<1> QED
  BY <1>1, <1>2, <1>3

LEMMA BusyWorker ==
  ASSUME SpendInv, NEW w \in Worker, job[w].pc # "idle"
  PROVE  job[w] # Idle /\ job[w] \in Busy /\ CopyIsSound(w) /\ ActIsSound(w)
<1>1. job[w] # Idle
  BY DEF Idle
<1> QED
  BY <1>1 DEF SpendInv, SpendTypes, JobIsSound

(* What the chains may do to what the workers rely on. *)
ChainKeeps ==
  /\ ChainTypes' /\ SignedIsSent' /\ setting' = setting
  /\ \A o \in AllOuts : /\ l1[o].at = "ours" => l1'[o].at = "ours"
                        /\ l1[o].signed # 0 => l1'[o].signed # 0 /\ (o \in lag' => o \in lag)
                        /\ where[o] = "claimed" => where'[o] = "claimed"

LEMMA OtherJobKept ==
  ASSUME SpendInv, ChainKeeps, NEW v \in Worker, job'[v] = job[v], clock' = clock \/ job[v].pc # "cosign"
  PROVE  JobIsSound(v)'
<1> SUFFICES ASSUME job[v] # Idle PROVE CopyIsSound(v)' /\ ActIsSound(v)'
  BY DEF JobIsSound
<1>1. CopyIsSound(v) /\ ActIsSound(v) /\ job[v] \in Busy /\ setting' = setting
  BY DEF SpendInv, SpendTypes, JobIsSound, ChainKeeps
<1>2. CopyIsSound(v)'
  <2>1. ASSUME NEW o \in AllOuts PROVE TruthfulStep(job[v].steps[o], o)'
    BY <1>1, <2>1 DEF CopyIsSound, Truthful, TruthfulStep, ChainKeeps
  <2> QED
    BY <1>1, <2>1 DEF CopyIsSound, Truthful, TruthfulStep, Outs
<1>3. Current(v)' = Current(v) /\ leg' = leg
  BY <1>1 DEF Current, leg
<1>4. job[v].todo # {} => Current(v) \in AllOuts
  BY CurrentIsOne
<1>5. job[v].outputs \subseteq AllOuts
  BY <1>1 DEF Busy
<1>6. job[v].pc = "bump" => l1'[Current(v)].signed # 0 /\ Current(v) \notin lag'
  BY <1>1, <1>4 DEF ActIsSound, ChainKeeps
<1>7. \A x \in job[v].outputs : where[x] = "claimed" => where'[x] = "claimed"
  BY <1>5 DEF ChainKeeps
<1>8. ActIsSound(v)'
  BY <1>1, <1>3, <1>6, <1>7 DEF ActIsSound
<1> QED
  BY <1>2, <1>8

LEMMA ChainLeavesDone ==
  ASSUME SpendInv, ChainKeeps, state' = state
  PROVE  DoneIsCollected'
<1>1. Outs' = Outs /\ Outs \subseteq AllOuts
  BY OutputsAreTheirs DEF ChainKeeps, Outs
<1> QED
  BY <1>1 DEF SpendInv, DoneIsCollected, ChainKeeps

LEMMA ChainLeavesTruth ==
  ASSUME SpendInv, ChainKeeps, steps' = steps
  PROVE  Truthful(steps)'
BY DEF SpendInv, Truthful, TruthfulStep, ChainKeeps

(* A step of one worker: what is left to show once the others are seen to be undisturbed. *)
LEMMA WorkerStep ==
  ASSUME SpendInv, ChainKeeps, NEW w \in Worker, job[w] # Idle \/ w \in setting.crew, clock' = clock,
         NEW j \in Busy \cup {Idle}, job' = [job EXCEPT ![w] = j], JobIsSound(w)',
         steps' \in [AllOuts -> StepRec], Truthful(steps)', state' \in {"open", "done", "learnt", "stuck"},
         DoneIsCollected', ParkedOnlyWhenWorthless',
         setting.crew = {w} => (j # Idle => j.steps = steps') /\ \A o \in Outs : RecordIsFresh(steps[o], o)'
  PROVE  SpendInv'
<1>1. SpendTypes'
  BY DEF SpendInv, SpendTypes, ChainKeeps
<1>2. ASSUME NEW v \in Worker PROVE JobIsSound(v)'
  <2>1. CASE v = w
    BY <2>1
  <2>2. CASE v # w
    <3>1. job'[v] = job[v]
      BY <2>2 DEF SpendInv, SpendTypes
    <3> QED
      BY <3>1, OtherJobKept
  <2> QED
    BY <2>1, <2>2
<1>3. AloneIsCurrent'
  <2> SUFFICES ASSUME NEW v \in Worker, setting'.crew = {v}
               PROVE  /\ \A u \in Worker \ {v} : job'[u] = Idle
                      /\ job'[v] # Idle => job'[v].steps = steps'
                      /\ \A o \in Outs' : RecordIsFresh(steps[o], o)'
    BY DEF AloneIsCurrent
  <2>1. setting' = setting /\ Outs' = Outs
    BY DEF ChainKeeps, Outs
  <2>2. v = w
    BY <2>1 DEF SpendInv, AloneIsCurrent
  <2>3. job'[w] = j /\ \A u \in Worker \ {w} : job'[u] = job[u]
    BY DEF SpendInv, SpendTypes
  <2>4. \A u \in Worker \ {w} : job[u] = Idle
    BY <2>1, <2>2 DEF SpendInv, AloneIsCurrent
  <2> QED
    BY <2>1, <2>2, <2>3, <2>4
<1> QED
  BY <1>1, <1>2, <1>3 DEF SpendInv, ChainKeeps

LEMMA ChainSame ==
  ASSUME SpendInv, UNCHANGED <<setting, where, l1, lag>>
  PROVE  ChainKeeps
BY DEF ChainKeeps, SpendInv, SpendTypes, ChainTypes, SignedIsSent

(* The same, when only the worker, and perhaps the row's state, moves. *)
LEMMA JobMoves ==
  ASSUME SpendInv, UNCHANGED <<setting, steps, where, l1, lag, clock>>,
         NEW w \in Worker, job[w] # Idle \/ w \in setting.crew,
         NEW j \in Busy \cup {Idle}, job' = [job EXCEPT ![w] = j], JobIsSound(w)',
         state' \in {"open", "done", "learnt", "stuck"}, DoneIsCollected', ParkedOnlyWhenWorthless',
         j # Idle => j.steps = steps \/ (job[w] # Idle /\ j.steps = job[w].steps)
  PROVE  SpendInv'
<1>1. ChainKeeps
  BY ChainSame
<1>2. Truthful(steps)'
  BY <1>1, ChainLeavesTruth
<1>3. ASSUME setting.crew = {w}
      PROVE  (j # Idle => j.steps = steps') /\ \A o \in Outs : RecordIsFresh(steps[o], o)'
  <2>1. (job[w] # Idle => job[w].steps = steps) /\ \A o \in Outs : RecordIsFresh(steps[o], o)
    BY <1>3 DEF SpendInv, AloneIsCurrent
  <2> QED
    BY <2>1 DEF RecordIsFresh
<1>4. steps' \in [AllOuts -> StepRec] /\ clock' = clock
  BY DEF SpendInv, SpendTypes
<1> QED
  BY <1>1, <1>2, <1>3, <1>4, WorkerStep

(* A worker that lets go of the row. *)
LEMMA WorkerLeaves ==
  ASSUME SpendInv, UNCHANGED <<setting, steps, where, l1, lag, clock>>,
         NEW w \in Worker, job[w] # Idle, job' = [job EXCEPT ![w] = Idle],
         state' \in {"open", "done", "learnt", "stuck"}, DoneIsCollected', ParkedOnlyWhenWorthless'
  PROVE  SpendInv'
<1>1. JobIsSound(w)'
  BY DEF JobIsSound, SpendInv, SpendTypes
<1> QED
  BY <1>1, JobMoves

(* The same state of the row is as sound as before. *)
LEMMA StateSame ==
  ASSUME SpendInv, ChainKeeps, state' = state, clock' = clock
  PROVE  state' \in {"open", "done", "learnt", "stuck"} /\ DoneIsCollected' /\ ParkedOnlyWhenWorthless'
<1>1. DoneIsCollected'
  BY ChainLeavesDone
<1> QED
  BY <1>1 DEF SpendInv, SpendTypes, ParkedOnlyWhenWorthless, ChainKeeps, leg

(* A worker that is through with an output, its copy as it was. *)
LEMMA ThrowKeepsInv ==
  ASSUME SpendInv, NEW w \in Worker, job[w].pc # "idle", Throw(w), UNCHANGED <<setting, where, l1, lag, clock>>
  PROVE  SpendInv'
<1>1. job[w] # Idle /\ job[w] \in Busy /\ CopyIsSound(w)
  BY BusyWorker
<1>2. PICK j : j = Done(w)
  OBVIOUS
<1>3. j \in Busy /\ j.pc = "advance" /\ j.steps = job[w].steps /\ j.outputs = job[w].outputs /\ j.todo \subseteq job[w].todo
  BY <1>1, <1>2 DEF Done, Busy
<1>4. job' = [job EXCEPT ![w] = j] /\ job'[w] = j
  BY <1>2 DEF Throw, SpendInv, SpendTypes
<1>5. JobIsSound(w)'
  <2>1. ActIsSound(w)'
    BY <1>3, <1>4 DEF ActIsSound
  <2>2. CopyIsSound(w)'
    BY <1>1, <1>3, <1>4 DEF CopyIsSound, Truthful, TruthfulStep, Outs
  <2> QED
    BY <2>1, <2>2 DEF JobIsSound
<1>6. state' = state /\ UNCHANGED <<setting, steps, where, l1, lag, clock>>
  BY DEF Throw
<1>7. state' \in {"open", "done", "learnt", "stuck"} /\ DoneIsCollected' /\ ParkedOnlyWhenWorthless'
  BY <1>6, ChainSame, StateSame
<1> QED
  BY <1>1, <1>3, <1>4, <1>5, <1>6, <1>7, JobMoves

(* What a step that is kept must say of its output as the chains now are. *)
TruthfulNext(step, o) == (step.kind \notin Sent => step.tx = 0) /\ (step.kind = "confirmed" => l1'[o].at = "ours")
FreshNext(step, o) ==
  /\ l1'[o].at \in {"mempool", "ours"} => step.kind \in Sent
  /\ o \in lag' => l1'[o].at = "theirs" \/ (step.kind = "pending" /\ step.at = clock /\ ~step.raw)
OthersSame(o) == \A x \in AllOuts \ {o} : l1'[x] = l1[x] /\ (x \in lag' <=> x \in lag)

LEMMA TruthIsWritten ==
  ASSUME SpendInv, ChainKeeps, NEW column \in [AllOuts -> StepRec], Truthful(column), NEW o \in AllOuts,
         NEW step \in StepRec, TruthfulNext(step, o), NEW new, new = [column EXCEPT ![o] = step]
  PROVE  \A x \in AllOuts : TruthfulNext(new[x], x)
<1> TAKE x \in AllOuts
<1>1. CASE x = o
  BY <1>1
<1>2. CASE x # o
  BY <1>2 DEF Truthful, TruthfulStep, TruthfulNext, ChainKeeps
<1> QED
  BY <1>1, <1>2

LEMMA KeepKeepsInv ==
  ASSUME SpendInv, ChainKeeps, clock' = clock, NEW w \in Worker, job[w].pc # "idle", job[w].todo # {},
         NEW o, o = Current(w), NEW step \in StepRec, keep(w, step),
         TruthfulNext(step, o), OthersSame(o), setting.crew = {w} => FreshNext(step, o)
  PROVE  SpendInv'
<1>1. job[w] # Idle /\ job[w] \in Busy /\ CopyIsSound(w) /\ job[w].steps \in [AllOuts -> StepRec]
  BY BusyWorker DEF Busy
<1>2. o \in job[w].todo /\ o \in Outs /\ o \in AllOuts
  BY <1>1, CurrentIsOne
<1>3. PICK copy : copy = [job[w].steps EXCEPT ![o] = step]
  OBVIOUS
<1>4. copy \in [AllOuts -> StepRec] /\ \A x \in AllOuts : TruthfulNext(copy[x], x)
  BY <1>1, <1>2, <1>3, TruthIsWritten DEF CopyIsSound
<1>5. Outs' = Outs /\ leg' = leg /\ Outs \subseteq AllOuts /\ steps \in [AllOuts -> StepRec] /\ Truthful(steps)
  BY OutputsAreTheirs DEF ChainKeeps, Outs, leg, SpendInv, SpendTypes
<1>6. ASSUME setting.crew = {w}
      PROVE  job[w].steps = steps /\ \A x \in Outs : x # o /\ steps'[x] = steps[x] => RecordIsFresh(steps[x], x)'
  <2>1. job[w].steps = steps /\ \A x \in Outs : RecordIsFresh(steps[x], x)
    BY <1>1, <1>6 DEF SpendInv, AloneIsCurrent
  <2> QED
    BY <1>5, <2>1 DEF RecordIsFresh, OthersSame
<1>7. CASE leg = "claim"
  <2>1. PICK j : j = [Done(w) EXCEPT !.steps = copy]
    OBVIOUS
  <2>2. j \in Busy /\ j.pc = "advance" /\ j.steps = copy /\ j.outputs = job[w].outputs /\ j.todo = job[w].todo \ {o}
    BY <1>1, <1>4, <2>1 DEF Done, Busy
  <2>3. /\ job' = [job EXCEPT ![w] = j] /\ job'[w] = j /\ state' = state
        /\ steps' = IF step = job[w].steps[o] THEN steps ELSE copy
    BY <1>3, <1>7, <2>1 DEF keep, SpendInv, SpendTypes
  <2>4. JobIsSound(w)'
    <3>1. ActIsSound(w)'
      BY <2>2, <2>3 DEF ActIsSound
    <3>2. Truthful(job[w].steps)'
      BY <1>4, <2>2, <2>3 DEF Truthful, TruthfulStep, TruthfulNext
    <3>3. CopyIsSound(w)'
      BY <1>1, <1>2, <1>3, <1>5, <2>2, <2>3, <3>2 DEF CopyIsSound
    <3> QED
      BY <3>1, <3>3 DEF JobIsSound
  <2>5. steps' \in [AllOuts -> StepRec] /\ Truthful(steps)'
    <3>1. CASE steps' = steps
      BY <1>5, <3>1, ChainLeavesTruth
    <3>2. CASE steps' = copy
      BY <1>4, <3>2 DEF Truthful, TruthfulStep, TruthfulNext
    <3> QED
      BY <2>3, <3>1, <3>2
  <2>6. ASSUME setting.crew = {w}
        PROVE  (j # Idle => j.steps = steps') /\ \A x \in Outs : RecordIsFresh(steps[x], x)'
    <3>1. steps' = copy
      BY <1>1, <1>2, <1>3, <1>6, <2>3, <2>6
    <3>2. ASSUME NEW x \in Outs PROVE RecordIsFresh(steps[x], x)'
      <4>1. CASE x = o
        BY <1>1, <1>2, <1>3, <2>6, <3>1, <4>1 DEF FreshNext, RecordIsFresh
      <4>2. CASE x # o
        <5>1. steps'[x] = steps[x]
          BY <1>1, <1>3, <1>5, <1>6, <2>6, <3>1, <4>2
        <5> QED
          BY <1>6, <2>6, <4>2, <5>1
      <4> QED
        BY <4>1, <4>2
    <3> QED
      BY <2>2, <3>1, <3>2
  <2>7. state' \in {"open", "done", "learnt", "stuck"} /\ DoneIsCollected' /\ ParkedOnlyWhenWorthless'
    BY <2>3, StateSame
  <2> QED
    BY <1>1, <2>2, <2>3, <2>4, <2>5, <2>6, <2>7, WorkerStep
<1>8. CASE leg # "claim"
  <2>1. /\ job' = [job EXCEPT ![w] = Idle] /\ job'[w] = Idle
        /\ steps' = IF step.kind \in Sent /\ step # job[w].steps[o] THEN [steps EXCEPT ![o] = step] ELSE steps
        /\ state' = IF state # "open" THEN state ELSE IF step.kind = "confirmed" THEN "done"
                    ELSE IF step.kind \in {"spent", "closed"} /\ clock >= ExpiresAt THEN "stuck" ELSE state
    BY <1>8 DEF keep, Sent, SpendInv, SpendTypes
  <2>2. JobIsSound(w)'
    BY <2>1 DEF JobIsSound
  <2>3. steps' \in [AllOuts -> StepRec] /\ Truthful(steps)'
    <3>1. CASE steps' = steps
      BY <1>5, <3>1, ChainLeavesTruth
    <3>2. CASE steps' = [steps EXCEPT ![o] = step]
      <4>1. \A x \in AllOuts : TruthfulNext(steps'[x], x)
        BY <1>2, <1>5, <3>2, TruthIsWritten
      <4> QED
        BY <1>5, <3>2, <4>1 DEF Truthful, TruthfulStep, TruthfulNext
    <3> QED
      BY <2>1, <3>1, <3>2
  <2>4. state' \in {"open", "done", "learnt", "stuck"} /\ DoneIsCollected' /\ ParkedOnlyWhenWorthless'
    <3>1. CASE state' = state
      BY <3>1, StateSame
    <3>2. CASE state' = "done" /\ step.kind = "confirmed"
      <4>1. setting \in Settings /\ setting.leg = "refund"
        BY <1>8, SpendAssumption DEF SpendInv, SpendTypes, leg
      <4>2. \A x, y \in Outs : x = y
        BY <4>1, SpendAssumption DEF Outs
      <4>3. l1'[o].at = "ours"
        BY <3>2 DEF TruthfulNext
      <4> QED
        BY <1>2, <1>5, <3>2, <4>2, <4>3 DEF DoneIsCollected, ParkedOnlyWhenWorthless
    <3>3. CASE state' = "stuck" /\ clock >= ExpiresAt
      BY <3>3 DEF DoneIsCollected, ParkedOnlyWhenWorthless
    <3> QED
      BY <2>1, <3>1, <3>2, <3>3
  <2>5. ASSUME setting.crew = {w}
        PROVE  \A x \in Outs : RecordIsFresh(steps[x], x)'
    <3> TAKE x \in Outs
    <3>1. CASE x = o
      <4>1. CASE step.kind \in Sent
        <5>1. steps'[x] = step
          BY <1>2, <1>5, <1>6, <2>1, <2>5, <3>1, <4>1
        <5> QED
          BY <2>5, <3>1, <5>1 DEF FreshNext, RecordIsFresh
      <4>2. CASE step.kind \notin Sent
        BY <2>5, <3>1, <4>2 DEF FreshNext, RecordIsFresh, Sent
      <4> QED
        BY <4>1, <4>2
    <3>2. CASE x # o
      <4>1. steps'[x] = steps[x]
        BY <1>5, <2>1, <3>2
      <4> QED
        BY <1>6, <2>5, <3>2, <4>1
    <3> QED
      BY <3>1, <3>2
  <2> QED
    BY <1>1, <2>1, <2>2, <2>3, <2>4, <2>5, WorkerStep
<1> QED
  BY <1>7, <1>8

(* A worker alone with the row that sees no spend of an output, or sees it as another's, has none under way there; *)
(* one it has just recorded is not begun again.                                                                  *)
LEMMA NothingUnderWay ==
  ASSUME SpendInv, NEW w \in Worker, job[w].pc # "idle", job[w].todo # {}, setting.crew = {w},
         Shown(Current(w)) = "none", l1[Current(w)].at \in {"mempool", "ours"} \/ Current(w) \in lag
  PROVE  /\ Known(w) /\ ~job[w].steps[Current(w)].raw /\ job[w].steps[Current(w)].at = clock
         /\ ~Elapsed(job[w].steps[Current(w)].at, Retry) /\ ~StartOver(w)
<1>1. job[w] # Idle /\ Current(w) \in Outs /\ Current(w) \in AllOuts
  BY BusyWorker, CurrentIsOne
<1>2. Current(w) \in lag /\ l1[Current(w)].at # "theirs"
  BY <1>1 DEF Shown, SpendInv, SpendTypes, ChainTypes, OnBitcoin
<1>3. job[w].steps = steps /\ RecordIsFresh(steps[Current(w)], Current(w))
  BY <1>1 DEF SpendInv, AloneIsCurrent
<1>4. Known(w) /\ ~job[w].steps[Current(w)].raw /\ job[w].steps[Current(w)].at = clock
  BY <1>2, <1>3 DEF RecordIsFresh, Known
<1>5. ~Elapsed(job[w].steps[Current(w)].at, Retry)
  BY <1>2, <1>4, SpendAssumption DEF Elapsed, SpendInv, SpendTypes
<1> QED
  BY <1>4, <1>5 DEF StartOver

LEMMA MarkIsTruthful ==
  ASSUME NEW kind \in {"spent", "closed"}
  PROVE  /\ Mark(kind) \in StepRec /\ Mark(kind).kind = kind
         /\ \A o \in AllOuts : TruthfulNext(Mark(kind), o)
BY DEF Mark, Step, StepRec, StepKinds, TruthfulNext, Sent

(* With nothing of an output's spend to be seen, it may be given up. *)
LEMMA ClosingKeepsInv ==
  ASSUME SpendInv, NEW w \in Worker, job[w].pc # "idle", job[w].todo # {}, UNCHANGED <<setting, where, l1, lag, clock>>,
         NEW kind \in {"spent", "closed"}, keep(w, Mark(kind)),
         setting.crew = {w} => l1[Current(w)].at \notin {"mempool", "ours"} /\ (Current(w) \in lag => l1[Current(w)].at = "theirs")
  PROVE  SpendInv'
<1>1. PICK o : o = Current(w)
  OBVIOUS
<1>2. o \in AllOuts
  BY <1>1, BusyWorker, CurrentIsOne
<1>3. PICK step : step = Mark(kind)
  OBVIOUS
<1>4. step \in StepRec /\ TruthfulNext(step, o) /\ keep(w, step)
  BY <1>2, <1>3, MarkIsTruthful
<1>5. OthersSame(o) /\ (setting.crew = {w} => FreshNext(step, o))
  BY <1>1 DEF OthersSame, FreshNext
<1>6. ChainKeeps /\ clock' = clock
  BY ChainSame
<1> QED
  BY <1>1, <1>4, <1>5, <1>6, KeepKeepsInv

LEMMA ClosedIsNotUnderWay ==
  ASSUME SpendInv, NEW w \in Worker, job[w].pc # "idle", job[w].todo # {}, Shown(Current(w)) = "none",
         StartOver(w) \/ Elapsed(job[w].steps[Current(w)].at, Retry)
  PROVE  setting.crew = {w} => l1[Current(w)].at \notin {"mempool", "ours"} /\ (Current(w) \in lag => l1[Current(w)].at = "theirs")
BY NothingUnderWay

LEMMA TooSmallKeepsInv ==
  ASSUME SpendInv, NEW w \in Worker, TooSmall(w)
  PROVE  SpendInv'
<1>1. job[w].pc # "idle" /\ job[w].todo # {} /\ Shown(Current(w)) = "none" /\ StartOver(w)
  BY DEF TooSmall, Starts, Begin
<1>2. UNCHANGED <<setting, where, l1, lag, clock>> /\ keep(w, Mark("closed"))
  BY DEF TooSmall, chain
<1> QED
  BY <1>1, <1>2, ClosedIsNotUnderWay, ClosingKeepsInv

LEMMA PushFailsKeepsInv ==
  ASSUME SpendInv, NEW w \in Worker, PushFails(w)
  PROVE  SpendInv'
<1>1. job[w].pc # "idle" /\ job[w].todo # {} /\ Shown(Current(w)) = "none" /\ StartOver(w)
  BY DEF PushFails, Starts, Begin
<1>2. UNCHANGED <<setting, where, l1, lag, clock>> /\ (keep(w, Mark("closed")) \/ Throw(w))
  BY DEF PushFails, chain
<1> QED
  BY <1>1, <1>2, ClosedIsNotUnderWay, ClosingKeepsInv, ThrowKeepsInv

LEMMA WaitKeepsInv ==
  ASSUME SpendInv, NEW w \in Worker, Wait(w) \/ EarlyWait(w)
  PROVE  SpendInv'
BY ThrowKeepsInv DEF Wait, EarlyWait, Begin, chain

LEMMA AdoptedIsPending ==
  ASSUME SpendInv, NEW w \in Worker, job[w].pc # "idle", job[w].todo # {}, l1[Current(w)].signed # 0
  PROVE  /\ adopt(Current(w), job[w].steps[Current(w)]) \in StepRec
         /\ adopt(Current(w), job[w].steps[Current(w)]).kind = "pending"
<1>1. PICK o : o = Current(w)
  OBVIOUS
<1>2. o \in job[w].todo /\ o \in AllOuts /\ CopyIsSound(w) /\ job[w] \in Busy
  BY <1>1, BusyWorker, CurrentIsOne
<1>3. PICK rec : rec = job[w].steps[o]
  OBVIOUS
<1>4. rec \in StepRec /\ rec.kind # "confirmed" /\ (rec.kind \notin Sent => rec.tx = 0)
  BY <1>2, <1>3 DEF CopyIsSound, Truthful, TruthfulStep, Busy
<1>5. clock \in Int /\ l1[o].signed \in Nat
  BY <1>2 DEF SpendInv, SpendTypes, ChainTypes, OnBitcoin
<1>6. adopt(o, rec) \in StepRec /\ adopt(o, rec).kind = "pending"
  <2>1. CASE rec.tx = l1[o].signed
    <3>1. rec.kind = "pending"
      BY <1>1, <1>4, <2>1 DEF Sent
    <3> QED
      BY <1>4, <2>1, <3>1 DEF adopt, StepRec
  <2>2. CASE rec.tx # l1[o].signed
    BY <1>5, <2>2 DEF adopt, Record, Step, StepRec, StepKinds
  <2> QED
    BY <2>1, <2>2
<1> QED
  BY <1>1, <1>3, <1>6

LEMMA FollowKeepsInv ==
  ASSUME SpendInv, NEW w \in Worker, Follow(w)
  PROVE  SpendInv'
<1>1. /\ job[w].pc # "idle" /\ job[w].pc = "advance" /\ job[w].todo # {} /\ Shown(Current(w)) # "none"
      /\ UNCHANGED <<setting, where, l1, lag, clock>>
  BY DEF Follow, Begin, chain
<1>2. PICK o : o = Current(w)
  OBVIOUS
<1>3. o \in job[w].todo /\ o \in AllOuts /\ job[w] # Idle /\ job[w] \in Busy /\ CopyIsSound(w)
  BY <1>1, <1>2, BusyWorker, CurrentIsOne
<1>4. ChainKeeps /\ clock' = clock /\ OthersSame(o)
  BY <1>1, ChainSame DEF OthersSame
<1>5. CASE Shown(o) = "theirs"
  <2>1. l1[o].at = "theirs" /\ keep(w, Mark("spent"))
    BY <1>2, <1>5 DEF Shown, Follow
  <2> QED
    BY <1>1, <1>2, <2>1, ClosingKeepsInv
<1>6. CASE Shown(o) # "theirs"
  <2>1. l1[o].at \in {"mempool", "ours"} /\ o \notin lag /\ l1[o].signed # 0
    BY <1>1, <1>2, <1>3, <1>6 DEF Shown, SpendInv, SignedIsSent
  <2>2. PICK rec : rec = adopt(o, job[w].steps[o])
    OBVIOUS
  <2>3. rec \in StepRec /\ rec.kind = "pending"
    BY <1>1, <1>2, <2>1, <2>2, AdoptedIsPending
  <2>4. CASE l1[o].at = "ours"
    <3>1. PICK step : step = [rec EXCEPT !.kind = "confirmed"]
      OBVIOUS
    <3>2. step \in StepRec /\ step.kind = "confirmed"
      BY <2>3, <3>1 DEF StepRec, StepKinds
    <3>3. keep(w, step)
      BY <1>2, <1>6, <2>2, <2>4, <3>1 DEF Follow
    <3>4. TruthfulNext(step, o) /\ FreshNext(step, o)
      BY <1>1, <2>1, <2>4, <3>2 DEF TruthfulNext, FreshNext, Sent
    <3> QED
      BY <1>1, <1>2, <1>4, <3>2, <3>3, <3>4, KeepKeepsInv
  <2>5. CASE l1[o].at # "ours"
    <3>1. PICK j : j = [job[w] EXCEPT !.pc = "bump", !.rec = rec]
      OBVIOUS
    <3>2. job' = [job EXCEPT ![w] = j] /\ job'[w] = j /\ UNCHANGED <<state, steps>>
      BY <1>2, <1>3, <1>6, <2>2, <2>5, <3>1 DEF Follow, SpendInv, SpendTypes
    <3>3. /\ j \in Busy /\ j.pc = "bump" /\ j.rec = rec /\ j.steps = job[w].steps
          /\ j.todo = job[w].todo /\ j.outputs = job[w].outputs
      BY <1>3, <2>3, <3>1 DEF Busy
    <3>4. Current(w)' = o
      BY <1>2, <3>2, <3>3 DEF Current
    <3>5. JobIsSound(w)'
      <4>1. CopyIsSound(w)'
        BY <1>1, <1>3, <3>2, <3>3 DEF CopyIsSound, Truthful, TruthfulStep, Outs
      <4>2. ActIsSound(w)'
        BY <1>1, <2>1, <2>3, <3>2, <3>3, <3>4 DEF ActIsSound
      <4> QED
        BY <4>1, <4>2 DEF JobIsSound
    <3>6. state' \in {"open", "done", "learnt", "stuck"} /\ DoneIsCollected' /\ ParkedOnlyWhenWorthless'
      BY <1>4, <3>2, StateSame
    <3> QED
      BY <1>1, <1>3, <3>2, <3>3, <3>5, <3>6, JobMoves
  <2> QED
    BY <2>4, <2>5
<1> QED
  BY <1>5, <1>6

(* A spend sent again is as it was, or comes back from where it was dropped. *)
LEMMA ResendKeepsInv ==
  ASSUME SpendInv, NEW w \in Worker, Resend(w)
  PROVE  SpendInv'
<1>1. /\ job[w].pc # "idle" /\ job[w].todo # {} /\ Shown(Current(w)) = "none" /\ Known(w)
      /\ UNCHANGED <<setting, where, lag, clock>>
  BY DEF Resend, Begin
<1>2. PICK o : o = Current(w)
  OBVIOUS
<1>3. o \in job[w].todo /\ o \in AllOuts /\ job[w] # Idle /\ job[w] \in Busy /\ CopyIsSound(w)
  BY <1>1, <1>2, BusyWorker, CurrentIsOne
<1>4. PICK rec : rec = job[w].steps[o]
  OBVIOUS
<1>5. rec \in StepRec /\ rec.kind = "pending"
  BY <1>1, <1>2, <1>3, <1>4 DEF Busy, Known
<1>6. CASE rec.raw
  <2>1. PICK to : to = IF l1[o].at = "dropped" /\ l1[o].signed = rec.tx THEN "mempool" ELSE l1[o].at
    OBVIOUS
  <2>2. l1' = [l1 EXCEPT ![o].at = to] /\ keep(w, rec)
    BY <1>2, <1>4, <1>6, <2>1 DEF Resend
  <2>3. l1 \in [AllOuts -> OnBitcoin] /\ SignedIsSent
    BY DEF SpendInv, SpendTypes, ChainTypes
  <2>4. l1[o] \in OnBitcoin /\ l1'[o] = [l1[o] EXCEPT !.at = to] /\ \A x \in AllOuts \ {o} : l1'[x] = l1[x]
    BY <1>3, <2>2, <2>3
  <2>5. l1' \in [AllOuts -> OnBitcoin] /\ l1'[o].at = to /\ l1'[o].signed = l1[o].signed
    BY <1>3, <2>1, <2>2, <2>3, <2>4 DEF OnBitcoin
  <2>6. ChainKeeps
    <3>1. ChainTypes'
      BY <1>1, <2>5 DEF ChainTypes, SpendInv, SpendTypes
    <3>2. SignedIsSent'
      BY <1>1, <2>1, <2>3, <2>4, <2>5 DEF SignedIsSent
    <3> QED
      BY <1>1, <2>1, <2>4, <2>5, <3>1, <3>2 DEF ChainKeeps
  <2>7. OthersSame(o)
    BY <1>1, <2>4 DEF OthersSame
  <2>8. setting.crew = {w} => FreshNext(rec, o)
    <3>1. setting.crew = {w} => o \notin lag
      BY <1>1, <1>2, <1>4, <1>6, NothingUnderWay
    <3> QED
      BY <1>1, <1>5, <3>1 DEF FreshNext, Sent
  <2>9. TruthfulNext(rec, o)
    BY <1>5 DEF TruthfulNext, Sent
  <2> QED
    BY <1>1, <1>2, <1>5, <2>2, <2>6, <2>7, <2>8, <2>9, KeepKeepsInv
<1>7. CASE ~rec.raw
  <2>1. l1' = l1 /\ UNCHANGED <<setting, where, l1, lag, clock>>
    BY <1>1, <1>2, <1>4, <1>7 DEF Resend
  <2>2. CASE Elapsed(rec.at, Retry)
    <3>1. keep(w, Mark("closed"))
      BY <1>2, <1>4, <1>7, <2>2 DEF Resend
    <3> QED
      BY <1>1, <1>2, <1>4, <2>1, <2>2, <3>1, ClosedIsNotUnderWay, ClosingKeepsInv
  <2>3. CASE ~Elapsed(rec.at, Retry)
    <3>1. keep(w, rec)
      BY <1>2, <1>4, <1>7, <2>3 DEF Resend
    <3>2. TruthfulNext(rec, o) /\ OthersSame(o) /\ ChainKeeps
      BY <1>5, <2>1, ChainSame DEF TruthfulNext, Sent, OthersSame
    <3>3. setting.crew = {w} => FreshNext(rec, o)
      BY <1>1, <1>2, <1>4, <1>5, <1>7, <2>1, NothingUnderWay DEF FreshNext, Sent
    <3> QED
      BY <1>1, <1>2, <1>5, <3>1, <3>2, <3>3, KeepKeepsInv
  <2> QED
    BY <2>2, <2>3
<1> QED
  BY <1>6, <1>7

(* The worker's copy, with a spend recorded for the output it is at. *)
LEMMA PushKeepsInv ==
  ASSUME SpendInv, NEW w \in Worker, push(w)
  PROVE  SpendInv'
<1>1. /\ job[w].pc # "idle" /\ job[w].todo # {} /\ Shown(Current(w)) = "none" /\ StartOver(w)
      /\ UNCHANGED <<setting, state, where, l1, lag, clock>>
  BY DEF push, Starts, Begin, chain
<1>2. PICK o : o = Current(w)
  OBVIOUS
<1>3. o \in job[w].todo /\ o \in Outs /\ o \in AllOuts /\ job[w] # Idle /\ job[w] \in Busy /\ CopyIsSound(w)
  BY <1>1, <1>2, BusyWorker, CurrentIsOne
<1>4. PICK rate \in setting.rates :
        /\ steps' = IF leg = "claim" THEN [job[w].steps EXCEPT ![o] = Record(rate, clock)] ELSE [steps EXCEPT ![o] = Record(rate, clock)]
        /\ job' = [job EXCEPT ![w].pc = "cosign", ![w].rec = Record(rate, clock), ![w].steps = [job[w].steps EXCEPT ![o] = Record(rate, clock)]]
  BY <1>2 DEF push
<1>5. PICK rec : rec = Record(rate, clock)
  OBVIOUS
<1>6. rate \in Nat /\ rate # 0
  <2>1. setting \in Settings
    BY DEF SpendInv, SpendTypes
  <2>2. setting.rates \subseteq Nat \ {0}
    BY <2>1, SpendAssumption
  <2> QED
    BY <2>2
<1>7. rec \in StepRec /\ rec.kind = "pending" /\ rec.tx # 0 /\ ~rec.raw /\ rec.at = clock
  BY <1>5, <1>6 DEF Record, Step, StepRec, StepKinds, SpendInv, SpendTypes
<1>8. PICK copy : copy = [job[w].steps EXCEPT ![o] = rec]
  OBVIOUS
<1>9. ChainKeeps /\ clock' = clock /\ TruthfulNext(rec, o)
  BY <1>1, <1>7, ChainSame DEF TruthfulNext, Sent
<1>10. job[w].steps \in [AllOuts -> StepRec] /\ copy \in [AllOuts -> StepRec] /\ \A x \in AllOuts : TruthfulNext(copy[x], x)
  BY <1>3, <1>7, <1>8, <1>9, TruthIsWritten DEF CopyIsSound, Busy
<1>11. PICK j : j = [job[w] EXCEPT !.pc = "cosign", !.rec = rec, !.steps = copy]
  OBVIOUS
<1>12. job' = [job EXCEPT ![w] = j] /\ job'[w] = j
  BY <1>3, <1>4, <1>5, <1>8, <1>11 DEF SpendInv, SpendTypes
<1>13. /\ j \in Busy /\ j.pc = "cosign" /\ j.rec = rec /\ j.steps = copy
       /\ j.todo = job[w].todo /\ j.outputs = job[w].outputs
  BY <1>3, <1>7, <1>10, <1>11 DEF Busy
<1>14. Current(w)' = o /\ Outs' = Outs
  BY <1>1, <1>2, <1>12, <1>13 DEF Current, Outs
<1>15. JobIsSound(w)'
  <2>1. Truthful(job[w].steps)'
    BY <1>10, <1>12, <1>13 DEF Truthful, TruthfulStep, TruthfulNext
  <2>2. CopyIsSound(w)'
    BY <1>3, <1>7, <1>8, <1>10, <1>12, <1>13, <1>14, <2>1 DEF CopyIsSound, Busy
  <2>3. copy[o] = rec
    BY <1>3, <1>8, <1>10
  <2>4. ActIsSound(w)'
    BY <1>1, <1>3, <1>7, <1>12, <1>13, <1>14, <2>3 DEF ActIsSound
  <2> QED
    BY <2>2, <2>4 DEF JobIsSound
<1>16. steps \in [AllOuts -> StepRec] /\ Truthful(steps)
  BY DEF SpendInv, SpendTypes
<1>17. steps' = copy \/ steps' = [steps EXCEPT ![o] = rec]
  BY <1>4, <1>5, <1>8
<1>18. steps' \in [AllOuts -> StepRec] /\ Truthful(steps)'
  <2>1. CASE steps' = copy
    BY <1>10, <2>1 DEF Truthful, TruthfulStep, TruthfulNext
  <2>2. CASE steps' = [steps EXCEPT ![o] = rec]
    <3>1. \A x \in AllOuts : TruthfulNext(steps'[x], x)
      BY <1>3, <1>7, <1>9, <1>16, <2>2, TruthIsWritten
    <3> QED
      BY <1>7, <1>16, <2>2, <3>1 DEF Truthful, TruthfulStep, TruthfulNext
  <2> QED
    BY <1>17, <2>1, <2>2
<1>19. ASSUME setting.crew = {w}
       PROVE  j.steps = steps' /\ \A x \in Outs : RecordIsFresh(steps[x], x)'
  <2>1. job[w].steps = steps /\ \A x \in Outs : RecordIsFresh(steps[x], x)
    BY <1>3, <1>19 DEF SpendInv, AloneIsCurrent
  <2>2. steps' = copy /\ steps' = [steps EXCEPT ![o] = rec]
    BY <1>8, <1>17, <2>1
  <2>3. o \notin lag /\ l1[o].at \notin {"mempool", "ours"}
    BY <1>1, <1>2, <1>19, NothingUnderWay
  <2>4. ASSUME NEW x \in Outs PROVE RecordIsFresh(steps[x], x)'
    <3>1. CASE x = o
      BY <1>1, <2>3, <3>1 DEF RecordIsFresh
    <3>2. CASE x # o
      <4>1. steps'[x] = steps[x]
        BY <1>16, <2>2, <3>2, OutputsAreTheirs
      <4> QED
        BY <1>1, <2>1, <4>1 DEF RecordIsFresh
    <3> QED
      BY <3>1, <3>2
  <2> QED
    BY <1>13, <2>2, <2>4
<1>20. state' \in {"open", "done", "learnt", "stuck"} /\ DoneIsCollected' /\ ParkedOnlyWhenWorthless'
  BY <1>1, <1>9, StateSame
<1> QED
  BY <1>3, <1>9, <1>12, <1>13, <1>15, <1>18, <1>19, <1>20, WorkerStep

(* A spend arkd has just signed is in sight, or about to be. *)
LEMMA SigningKeepsChain ==
  ASSUME SpendInv, NEW w \in Worker, job[w].pc = "cosign", NEW o, o = Current(w), WillSign(o), Signed(o, job[w].rec.tx),
         UNCHANGED <<setting, where>>, lag' = lag \/ lag' = lag \cup {o}
  PROVE  ChainKeeps /\ OthersSame(o) /\ o \in AllOuts /\ o \notin lag /\ l1'[o].at = "mempool"
<1>1. /\ o \in AllOuts /\ l1[o].signed = 0 /\ l1[o].at = "none" /\ job[w] \in Busy /\ job[w].rec.tx # 0
      /\ o \in job[w].todo
  BY BusyWorker, CurrentIsOne DEF WillSign, ActIsSound
<1>2. l1 \in [AllOuts -> OnBitcoin] /\ SignedIsSent /\ lag \subseteq AllOuts
  BY DEF SpendInv, SpendTypes, ChainTypes
<1>3. o \notin lag
  BY <1>1, <1>2 DEF SignedIsSent
<1>4. PICK tx : tx = job[w].rec.tx
  OBVIOUS
<1>5. tx \in Nat /\ tx # 0
  BY <1>1, <1>4 DEF Busy, StepRec
<1>6. PICK moved : moved = [l1[o] EXCEPT !.signed = tx, !.at = "mempool"]
  OBVIOUS
<1>7. l1' = [l1 EXCEPT ![o] = moved]
  BY <1>1, <1>2, <1>4, <1>6 DEF Signed
<1>8. moved \in OnBitcoin /\ moved.signed = tx /\ moved.at = "mempool"
  BY <1>1, <1>2, <1>5, <1>6 DEF OnBitcoin
<1>9. l1' \in [AllOuts -> OnBitcoin] /\ l1'[o] = moved /\ \A x \in AllOuts \ {o} : l1'[x] = l1[x]
  BY <1>1, <1>2, <1>7, <1>8
<1>10. ChainTypes'
  BY <1>1, <1>2, <1>9 DEF ChainTypes, SpendInv, SpendTypes
<1>11. SignedIsSent'
  BY <1>1, <1>2, <1>5, <1>8, <1>9 DEF SignedIsSent
<1>12. ChainKeeps
  BY <1>1, <1>9, <1>10, <1>11 DEF ChainKeeps
<1> QED
  BY <1>1, <1>3, <1>8, <1>9, <1>12 DEF OthersSame

LEMMA CosignKeepsInv ==
  ASSUME SpendInv, NEW w \in Worker, Cosign(w)
  PROVE  SpendInv'
<1>1. PICK o : o = Current(w)
  OBVIOUS
<1>2. /\ job[w].pc = "cosign" /\ WillSign(o) /\ Signed(o, job[w].rec.tx) /\ UNCHANGED <<setting, where, clock>>
      /\ \/ keep(w, [job[w].rec EXCEPT !.raw = TRUE]) /\ lag' = lag
         \/ keep(w, job[w].rec) /\ lag' = lag \cup {o}
  BY <1>1 DEF Cosign
<1>3. ChainKeeps /\ OthersSame(o) /\ o \in AllOuts /\ o \notin lag /\ l1'[o].at = "mempool"
  BY <1>1, <1>2, SigningKeepsChain
<1>4. job[w] \in Busy /\ job[w].todo # {} /\ job[w].rec.kind = "pending" /\ job[w].rec.at = clock /\ ~job[w].rec.raw
  BY <1>2, BusyWorker DEF ActIsSound
<1>5. CASE keep(w, [job[w].rec EXCEPT !.raw = TRUE]) /\ lag' = lag
  <2>1. PICK step : step = [job[w].rec EXCEPT !.raw = TRUE]
    OBVIOUS
  <2>2. step \in StepRec /\ step.kind = "pending"
    BY <1>4, <2>1 DEF Busy, StepRec
  <2>3. TruthfulNext(step, o) /\ FreshNext(step, o)
    BY <1>3, <1>5, <2>2 DEF TruthfulNext, FreshNext, Sent
  <2> QED
    BY <1>1, <1>2, <1>3, <1>4, <1>5, <2>1, <2>2, <2>3, KeepKeepsInv
<1>6. CASE keep(w, job[w].rec)
  <2>1. PICK step : step = job[w].rec
    OBVIOUS
  <2>2. step \in StepRec /\ TruthfulNext(step, o) /\ FreshNext(step, o)
    BY <1>4, <2>1 DEF Busy, TruthfulNext, FreshNext, Sent
  <2> QED
    BY <1>1, <1>2, <1>3, <1>4, <1>6, <2>1, <2>2, KeepKeepsInv
<1> QED
  BY <1>2, <1>5, <1>6

LEMMA RefusalIsSound ==
  ASSUME SpendInv, ChainKeeps, clock' = clock, NEW w \in Worker, job[w].pc = "cosign",
         job' = [job EXCEPT ![w].pc = "refused"], UNCHANGED <<state, steps>>,
         setting.crew = {w} => \A x \in Outs : RecordIsFresh(steps[x], x)'
  PROVE  SpendInv'
<1>1. job[w] # Idle /\ job[w] \in Busy /\ CopyIsSound(w) /\ ActIsSound(w)
  BY BusyWorker
<1>2. PICK j : j = [job[w] EXCEPT !.pc = "refused"]
  OBVIOUS
<1>3. job' = [job EXCEPT ![w] = j] /\ job'[w] = j
  BY <1>1, <1>2 DEF SpendInv, SpendTypes
<1>4. /\ j \in Busy /\ j.pc = "refused" /\ j.steps = job[w].steps /\ j.todo = job[w].todo
      /\ j.outputs = job[w].outputs /\ j.rec = job[w].rec
  BY <1>1, <1>2 DEF Busy
<1>5. Current(w)' = Current(w) /\ Outs' = Outs
  BY <1>3, <1>4 DEF Current, ChainKeeps, Outs
<1>6. JobIsSound(w)'
  <2>1. Truthful(job[w].steps)'
    BY <1>1, <1>3, <1>4 DEF CopyIsSound, Truthful, TruthfulStep, ChainKeeps
  <2>2. CopyIsSound(w)'
    BY <1>1, <1>3, <1>4, <1>5, <2>1 DEF CopyIsSound
  <2>3. ActIsSound(w)'
    BY <1>1, <1>3, <1>4, <1>5 DEF ActIsSound
  <2> QED
    BY <2>2, <2>3 DEF JobIsSound
<1>7. steps' \in [AllOuts -> StepRec] /\ Truthful(steps)'
  BY ChainLeavesTruth DEF SpendInv, SpendTypes
<1>8. setting.crew = {w} => j.steps = steps'
  BY <1>1, <1>4 DEF SpendInv, AloneIsCurrent
<1>9. state' \in {"open", "done", "learnt", "stuck"} /\ DoneIsCollected' /\ ParkedOnlyWhenWorthless'
  BY StateSame
<1> QED
  BY <1>1, <1>3, <1>4, <1>6, <1>7, <1>8, <1>9, WorkerStep

LEMMA CosignRefusedKeepsInv ==
  ASSUME SpendInv, NEW w \in Worker, CosignRefused(w)
  PROVE  SpendInv'
<1>1. UNCHANGED <<setting, where, l1, lag, clock, state, steps>> /\ job[w].pc = "cosign" /\ job' = [job EXCEPT ![w].pc = "refused"]
  BY DEF CosignRefused, chain
<1>2. setting.crew = {w} => \A x \in Outs : RecordIsFresh(steps[x], x)'
  BY <1>1 DEF SpendInv, AloneIsCurrent, RecordIsFresh
<1> QED
  BY <1>1, <1>2, ChainSame, RefusalIsSound

LEMMA CosignLostKeepsInv ==
  ASSUME SpendInv, NEW w \in Worker, CosignLost(w)
  PROVE  SpendInv'
<1>1. PICK o : o = Current(w)
  OBVIOUS
<1>2. /\ job[w].pc = "cosign" /\ WillSign(o) /\ Signed(o, job[w].rec.tx) /\ UNCHANGED <<setting, state, steps, where, clock>>
      /\ lag' = lag \/ lag' = lag \cup {o}
      /\ job' = [job EXCEPT ![w].pc = "refused"]
  BY <1>1 DEF CosignLost
<1>3. ChainKeeps /\ OthersSame(o) /\ o \in AllOuts /\ o \notin lag /\ l1'[o].at = "mempool"
  BY <1>1, <1>2, SigningKeepsChain
<1>4. /\ job[w] # Idle /\ job[w] \in Busy /\ job[w].rec.kind = "pending" /\ job[w].rec.at = clock /\ ~job[w].rec.raw
      /\ job[w].steps[o] = job[w].rec
  BY <1>1, <1>2, BusyWorker DEF ActIsSound
<1>5. ASSUME setting.crew = {w}, NEW x \in Outs PROVE RecordIsFresh(steps[x], x)'
  <2>1. job[w].steps = steps /\ RecordIsFresh(steps[x], x)
    BY <1>4, <1>5 DEF SpendInv, AloneIsCurrent
  <2>2. CASE x = o
    BY <1>2, <1>4, <2>1, <2>2 DEF RecordIsFresh, Sent
  <2>3. CASE x # o
    BY <1>2, <1>3, <2>1, <2>3, OutputsAreTheirs DEF RecordIsFresh, OthersSame
  <2> QED
    BY <2>2, <2>3
<1> QED
  BY <1>2, <1>3, <1>5, RefusalIsSound

LEMMA RefusedKeepsInv ==
  ASSUME SpendInv, NEW w \in Worker, Refused(w)
  PROVE  SpendInv'
<1>1. job[w].pc = "refused" /\ UNCHANGED <<setting, where, l1, lag, clock>>
  BY DEF Refused, chain
<1>2. PICK o : o = Current(w)
  OBVIOUS
<1>3. /\ job[w] # Idle /\ job[w] \in Busy /\ job[w].todo # {} /\ job[w].rec.kind = "pending" /\ ~job[w].rec.raw
      /\ job[w].steps[o] = job[w].rec /\ o \in Outs /\ o \in AllOuts
  BY <1>1, <1>2, BusyWorker, CurrentIsOne DEF ActIsSound
<1>4. ChainKeeps /\ clock' = clock /\ OthersSame(o)
  BY <1>1, ChainSame DEF OthersSame
<1>5. CASE keep(w, Saved(w))
  <2>1. PICK step : step = job[w].rec
    OBVIOUS
  <2>2. step \in StepRec /\ TruthfulNext(step, o) /\ keep(w, step)
    BY <1>3, <1>5, <2>1 DEF Busy, TruthfulNext, Sent, Saved
  <2>3. setting.crew = {w} => FreshNext(step, o)
    <3>1. setting.crew = {w} => RecordIsFresh(step, o)
      BY <1>3, <2>1 DEF SpendInv, AloneIsCurrent
    <3> QED
      BY <1>1, <3>1 DEF RecordIsFresh, FreshNext
  <2> QED
    BY <1>1, <1>2, <1>3, <1>4, <2>2, <2>3, KeepKeepsInv
<1>6. CASE Throw(w)
  BY <1>1, <1>6, ThrowKeepsInv
<1>7. CASE job' = [job EXCEPT ![w] = Idle] /\ UNCHANGED <<state, steps>>
  BY <1>1, <1>3, <1>4, <1>7, StateSame, WorkerLeaves
<1> QED
  BY <1>5, <1>6, <1>7 DEF Refused

(* A child is signed, or sent again: the spend itself stays as it is. *)
LEMMA ChildKeepsChain ==
  ASSUME SpendInv, NEW o \in AllOuts, NEW to \in {"none", "mempool", "dropped"}, l1' = [l1 EXCEPT ![o].child = to],
         UNCHANGED <<setting, where, lag>>
  PROVE  ChainKeeps /\ OthersSame(o) /\ l1'[o].at = l1[o].at /\ l1'[o].signed = l1[o].signed
<1>1. l1 \in [AllOuts -> OnBitcoin] /\ SignedIsSent
  BY DEF SpendInv, SpendTypes, ChainTypes
<1>2. PICK moved : moved = [l1[o] EXCEPT !.child = to]
  OBVIOUS
<1>3. l1' = [l1 EXCEPT ![o] = moved]
  BY <1>1, <1>2
<1>4. moved \in OnBitcoin /\ moved.at = l1[o].at /\ moved.signed = l1[o].signed
  BY <1>1, <1>2 DEF OnBitcoin
<1>5. l1' \in [AllOuts -> OnBitcoin] /\ l1'[o] = moved /\ \A x \in AllOuts \ {o} : l1'[x] = l1[x]
  BY <1>1, <1>3, <1>4
<1>6. ChainTypes'
  BY <1>5 DEF ChainTypes, SpendInv, SpendTypes
<1>7. SignedIsSent'
  BY <1>1, <1>4, <1>5 DEF SignedIsSent
<1> QED
  BY <1>4, <1>5, <1>6, <1>7 DEF ChainKeeps, OthersSame

LEMMA BumpingIsSound ==
  ASSUME SpendInv, NEW w \in Worker, job[w].pc = "bump", NEW o, o = Current(w),
         NEW to \in {"none", "mempool", "dropped"}, l1' = [l1 EXCEPT ![o].child = to], UNCHANGED <<setting, where, lag, clock>>,
         NEW step \in StepRec, step.kind = "pending", keep(w, step)
  PROVE  SpendInv'
<1>1. job[w].todo # {} /\ o \in AllOuts /\ o \notin lag
  BY BusyWorker, CurrentIsOne DEF ActIsSound
<1>2. ChainKeeps /\ OthersSame(o)
  BY <1>1, ChildKeepsChain
<1>3. TruthfulNext(step, o) /\ FreshNext(step, o)
  BY <1>1 DEF TruthfulNext, FreshNext, Sent
<1> QED
  BY <1>1, <1>2, <1>3, KeepKeepsInv

LEMMA BumpKeepsInv ==
  ASSUME SpendInv, NEW w \in Worker, bump(w)
  PROVE  SpendInv'
<1>1. PICK o : o = Current(w)
  OBVIOUS
<1>2. PICK rec : rec = job[w].rec
  OBVIOUS
<1>3. job[w].pc = "bump" /\ UNCHANGED <<setting, where, lag, clock>>
  BY DEF bump
<1>4. rec \in StepRec /\ rec.kind = "pending" /\ o \in AllOuts
  BY <1>1, <1>2, <1>3, BusyWorker, CurrentIsOne DEF ActIsSound, Busy
<1>5. l1[o].child \in {"none", "mempool", "dropped"} /\ clock \in Int
  BY <1>4 DEF SpendInv, SpendTypes, ChainTypes, OnBitcoin
<1>6. CASE ~BumpDue(w)
  <2>1. PICK to : to = IF rec.cpfp /\ l1[o].child = "dropped" THEN "mempool" ELSE l1[o].child
    OBVIOUS
  <2>2. l1' = [l1 EXCEPT ![o].child = to] /\ keep(w, rec)
    BY <1>1, <1>2, <1>6, <2>1 DEF bump
  <2>3. to \in {"none", "mempool", "dropped"}
    BY <1>5, <2>1
  <2> QED
    BY <1>1, <1>3, <1>4, <2>2, <2>3, BumpingIsSound
<1>7. CASE BumpDue(w)
  <2>1. PICK at : at = IF l1[o].child = "none" THEN clock ELSE rec.at
    OBVIOUS
  <2>2. PICK step : step = [rec EXCEPT !.cpfp = TRUE, !.at = at]
    OBVIOUS
  <2>3. l1' = [l1 EXCEPT ![o].child = "mempool"] /\ keep(w, step)
    BY <1>1, <1>2, <1>7, <2>1, <2>2 DEF bump
  <2>4. step \in StepRec /\ step.kind = "pending"
    BY <1>4, <1>5, <2>1, <2>2 DEF StepRec
  <2> QED
    BY <1>1, <1>3, <2>3, <2>4, BumpingIsSound
<1> QED
  BY <1>6, <1>7

LEMMA BumpLostKeepsInv ==
  ASSUME SpendInv, NEW w \in Worker, BumpLost(w)
  PROVE  SpendInv'
<1>1. PICK o : o = Current(w)
  OBVIOUS
<1>2. PICK rec : rec = [job[w].rec EXCEPT !.at = clock]
  OBVIOUS
<1>3. job[w].pc = "bump" /\ UNCHANGED <<setting, where, lag, clock>>
  BY DEF BumpLost
<1>4. /\ rec \in StepRec /\ rec.kind = "pending" /\ o \in AllOuts /\ o \in Outs /\ o \notin lag
      /\ job[w] # Idle /\ job[w] \in Busy
  <2>1. job[w] # Idle /\ job[w] \in Busy /\ job[w].rec.kind = "pending" /\ o \in AllOuts /\ o \in Outs /\ o \notin lag
    BY <1>1, <1>3, BusyWorker, CurrentIsOne DEF ActIsSound
  <2>2. job[w].rec \in StepRec /\ clock \in Int
    BY <2>1 DEF Busy, SpendInv, SpendTypes
  <2> QED
    BY <1>2, <2>1, <2>2 DEF StepRec
<1>5. PICK to \in {"none", "mempool", "dropped"} : l1' = [l1 EXCEPT ![o].child = to]
  <2>1. l1[o] \in OnBitcoin /\ l1 \in [AllOuts -> OnBitcoin]
    BY <1>4 DEF SpendInv, SpendTypes, ChainTypes
  <2>2. CASE l1' = [l1 EXCEPT ![o].child = "mempool"]
    BY <2>2
  <2>3. CASE l1' = l1 /\ l1[o].child = "dropped"
    <3>1. [l1[o] EXCEPT !.child = "dropped"] = l1[o]
      BY <2>1, <2>3 DEF OnBitcoin
    <3>2. l1' = [l1 EXCEPT ![o].child = "dropped"]
      BY <2>1, <2>3, <3>1
    <3> QED
      BY <3>2
  <2> QED
    BY <1>1, <2>2, <2>3 DEF BumpLost
<1>6. CASE leg = "claim"
  <2>1. keep(w, rec)
    BY <1>2, <1>6 DEF BumpLost
  <2> QED
    BY <1>1, <1>3, <1>4, <1>5, <2>1, BumpingIsSound
<1>7. CASE leg # "claim"
  <2>1. steps' = [steps EXCEPT ![o] = rec] /\ job' = [job EXCEPT ![w] = Idle] /\ state' = state
    BY <1>1, <1>2, <1>7 DEF BumpLost
  <2>2. ChainKeeps /\ OthersSame(o) /\ l1'[o].at = l1[o].at
    BY <1>3, <1>4, <1>5, ChildKeepsChain
  <2>3. JobIsSound(w)'
    BY <2>1 DEF JobIsSound, SpendInv, SpendTypes
  <2>4. TruthfulNext(rec, o)
    BY <1>4 DEF TruthfulNext, Sent
  <2>5. steps \in [AllOuts -> StepRec] /\ Truthful(steps)
    BY DEF SpendInv, SpendTypes
  <2>6. \A x \in AllOuts : TruthfulNext(steps'[x], x)
    BY <1>4, <2>1, <2>2, <2>4, <2>5, TruthIsWritten
  <2>7. steps' \in [AllOuts -> StepRec] /\ Truthful(steps)'
    BY <1>4, <2>1, <2>5, <2>6 DEF Truthful, TruthfulStep, TruthfulNext
  <2>8. ASSUME setting.crew = {w}, NEW x \in Outs PROVE RecordIsFresh(steps[x], x)'
    <3>1. RecordIsFresh(steps[x], x) /\ x \in AllOuts
      BY <2>8, OutputsAreTheirs DEF SpendInv, AloneIsCurrent
    <3>2. CASE x = o
      BY <1>3, <1>4, <2>1, <2>5, <3>2 DEF RecordIsFresh, Sent
    <3>3. CASE x # o
      BY <1>3, <2>1, <2>2, <2>5, <3>1, <3>3 DEF RecordIsFresh, OthersSame
    <3> QED
      BY <3>2, <3>3
  <2>9. state' \in {"open", "done", "learnt", "stuck"} /\ DoneIsCollected' /\ ParkedOnlyWhenWorthless'
    BY <1>3, <2>1, <2>2, StateSame
  <2> QED
    BY <1>3, <1>4, <2>1, <2>2, <2>3, <2>7, <2>8, <2>9, WorkerStep
<1> QED
  BY <1>6, <1>7

LEMMA ReadKeepsInv ==
  ASSUME SpendInv, NEW w \in Worker, Read(w)
  PROVE  SpendInv'
<1>1. /\ w \in setting.crew /\ UNCHANGED <<setting, state, steps, where, l1, lag, clock>>
  BY DEF Read, chain
<1>2. PICK j : j = [pc |-> "find", steps |-> steps, outputs |-> Live, todo |-> {}, keys |-> {}, rec |-> NoStep]
  OBVIOUS
<1>3. job' = [job EXCEPT ![w] = j] /\ job'[w] = j
  BY <1>2 DEF Read, SpendInv, SpendTypes
<1>4. j \in Busy /\ j.pc = "find" /\ j.steps = steps /\ j.outputs = Live /\ j.todo = {}
  <2>1. Live \subseteq AllOuts /\ steps \in [AllOuts -> StepRec]
    BY OutputsAreTheirs DEF Live, SpendInv, SpendTypes
  <2>2. NoStep \in StepRec
    BY DEF NoStep, Mark, Step, StepRec, StepKinds
  <2> QED
    BY <1>2, <2>1, <2>2 DEF Busy
<1>5. JobIsSound(w)'
  <2>1. CopyIsSound(w)'
    BY <1>1, <1>3, <1>4 DEF CopyIsSound, SpendInv, Truthful, TruthfulStep, Live, Outs
  <2>2. ActIsSound(w)'
    BY <1>3, <1>4 DEF ActIsSound
  <2> QED
    BY <2>1, <2>2 DEF JobIsSound
<1>6. state' \in {"open", "done", "learnt", "stuck"} /\ DoneIsCollected' /\ ParkedOnlyWhenWorthless'
  BY <1>1, ChainSame, StateSame
<1> QED
  BY <1>1, <1>3, <1>4, <1>5, <1>6, JobMoves

LEMMA FindKeepsInv ==
  ASSUME SpendInv, NEW w \in Worker, Find(w)
  PROVE  SpendInv'
<1>1. job[w].pc = "find" /\ UNCHANGED <<setting, steps, where, l1, lag, clock>>
  BY DEF Find, chain
<1>2. job[w] # Idle /\ job[w] \in Busy /\ CopyIsSound(w)
  BY <1>1, BusyWorker
<1>3. CASE Revealed
  <2>1. state' = (IF state = "open" THEN "learnt" ELSE state) /\ job' = [job EXCEPT ![w] = Idle]
    BY <1>3 DEF Find
  <2>2. state' \in {"open", "done", "learnt", "stuck"} /\ DoneIsCollected' /\ ParkedOnlyWhenWorthless'
    BY <1>1, <2>1 DEF SpendInv, SpendTypes, DoneIsCollected, ParkedOnlyWhenWorthless, Outs, leg
  <2> QED
    BY <1>1, <1>2, <2>1, <2>2, WorkerLeaves
<1>4. CASE ~Revealed
  <2>1. PICK keys : keys = Found(w)
    OBVIOUS
  <2>2. keys \subseteq Outs
    BY <2>1 DEF Found, Unrolled
  <2>3. PICK todo : todo = {o \in keys : job[w].steps[o].kind # "confirmed"}
    OBVIOUS
  <2>4. PICK j : j = [job[w] EXCEPT !.pc = "advance", !.keys = keys, !.todo = todo]
    OBVIOUS
  <2>5. job' = [job EXCEPT ![w] = j] /\ job'[w] = j /\ state' = state
    BY <1>2, <1>4, <2>1, <2>3, <2>4 DEF Find, SpendInv, SpendTypes
  <2>6. todo \subseteq Outs /\ todo \subseteq AllOuts /\ keys \subseteq AllOuts
    BY <2>2, <2>3, OutputsAreTheirs
  <2>7. j \in Busy /\ j.pc = "advance" /\ j.steps = job[w].steps /\ j.outputs = job[w].outputs /\ j.todo = todo
    BY <1>2, <2>4, <2>6 DEF Busy
  <2>8. JobIsSound(w)'
    <3>1. CopyIsSound(w)'
      BY <1>1, <1>2, <2>3, <2>5, <2>6, <2>7 DEF CopyIsSound, Truthful, TruthfulStep, Outs
    <3>2. ActIsSound(w)'
      BY <2>5, <2>7 DEF ActIsSound
    <3> QED
      BY <3>1, <3>2 DEF JobIsSound
  <2>9. state' \in {"open", "done", "learnt", "stuck"} /\ DoneIsCollected' /\ ParkedOnlyWhenWorthless'
    BY <1>1, <2>5, ChainSame, StateSame
  <2> QED
    BY <1>1, <1>2, <2>5, <2>7, <2>8, <2>9, JobMoves
<1> QED
  BY <1>3, <1>4

(* A claim may end stuck at any time, and ends well with everything collected. *)
LEMMA EndIsSound ==
  ASSUME SpendInv, ChainKeeps, leg = "claim", clock' = clock, NEW w \in Worker, NEW to, End(w, to),
         to \in {state, "stuck"} \/ (to = "done" /\ \A o \in Outs : where'[o] = "claimed" \/ l1'[o].at = "ours")
  PROVE  /\ state' \in {"open", "done", "learnt", "stuck"} /\ DoneIsCollected' /\ ParkedOnlyWhenWorthless'
         /\ job' = [job EXCEPT ![w] = Idle]
<1>1. job' = [job EXCEPT ![w] = Idle] /\ (state' = state \/ state' = to)
  BY DEF End
<1>2. leg' = leg /\ Outs' = Outs
  BY DEF ChainKeeps, leg, Outs
<1>3. CASE state' = state
  BY <1>1, <1>3, StateSame
<1>4. CASE state' # state /\ state' = "stuck"
  BY <1>1, <1>2, <1>4 DEF DoneIsCollected, ParkedOnlyWhenWorthless
<1>5. CASE state' # state /\ to = "done"
  BY <1>1, <1>2, <1>5 DEF DoneIsCollected, ParkedOnlyWhenWorthless
<1> QED
  BY <1>1, <1>3, <1>4, <1>5

LEMMA ShortKeepsInv ==
  ASSUME SpendInv, NEW w \in Worker, Short(w)
  PROVE  SpendInv'
<1>1. job[w].pc = "advance" /\ leg = "claim" /\ UNCHANGED <<setting, steps, where, l1, lag, clock>>
  BY DEF Short, Ready, chain
<1>2. job[w] # Idle /\ ChainKeeps
  BY <1>1, BusyWorker, ChainSame
<1>3. \E to : /\ End(w, to)
              /\ to \in {state, "stuck"} \/ (to = "done" /\ \A o \in Outs : where'[o] = "claimed" \/ l1'[o].at = "ours")
  BY <1>1 DEF Short, LateOr
<1> QED
  BY <1>1, <1>2, <1>3, EndIsSound, WorkerLeaves

LEMMA SettleKeepsInv ==
  ASSUME SpendInv, NEW w \in Worker, settleClaims(w)
  PROVE  SpendInv'
<1>1. job[w].pc = "left" /\ UNCHANGED <<setting, steps, where, l1, lag, clock>>
  BY DEF settleClaims, chain
<1>2. job[w] # Idle /\ CopyIsSound(w) /\ leg = "claim" /\ \A x \in job[w].outputs : where[x] = "claimed"
  BY <1>1, BusyWorker DEF ActIsSound
<1>3. ASSUME Leftover(w) = {}, NEW o \in Outs PROVE where[o] = "claimed" \/ l1[o].at = "ours"
  BY <1>2, <1>3, OutputsAreTheirs DEF Leftover, uncollected, Kind, CopyIsSound, Truthful, TruthfulStep
<1>4. \E to : /\ End(w, to)
              /\ to \in {state, "stuck"} \/ (to = "done" /\ \A o \in Outs : where'[o] = "claimed" \/ l1'[o].at = "ours")
  BY <1>1, <1>3 DEF settleClaims, LateOr
<1> QED
  BY <1>1, <1>2, <1>4, ChainSame, EndIsSound, WorkerLeaves

LEMMA ClaimKeepsInv ==
  ASSUME SpendInv, NEW w \in Worker, ClaimOffchain(w)
  PROVE  SpendInv'
<1>1. job[w].pc = "advance" /\ leg = "claim" /\ UNCHANGED <<setting, steps, l1, lag, clock>>
  BY DEF ClaimOffchain, Ready
<1>2. job[w] # Idle /\ job[w] \in Busy /\ CopyIsSound(w)
  BY <1>1, BusyWorker
<1>3. CASE ~(job[w].outputs \subseteq Live)
  <2>1. where' = where /\ \E to \in {state, "stuck"} : End(w, to)
    BY <1>3 DEF ClaimOffchain, LateOr
  <2> QED
    BY <1>1, <1>2, <2>1, ChainSame, EndIsSound, WorkerLeaves
<1>4. CASE job[w].outputs \subseteq Live
  <2>1. where' = [o \in AllOuts |-> IF o \in job[w].outputs THEN "claimed" ELSE where[o]]
    BY <1>4 DEF ClaimOffchain
  <2>2. ChainKeeps
    BY <1>1, <2>1 DEF ChainKeeps, ChainTypes, SignedIsSent, SpendInv, SpendTypes
  <2>3. steps' \in [AllOuts -> StepRec] /\ Truthful(steps)'
    BY <1>1, <2>2, ChainLeavesTruth DEF SpendInv, SpendTypes
  <2>4. ASSUME setting.crew = {w} PROVE job[w].steps = steps' /\ \A o \in Outs : RecordIsFresh(steps[o], o)'
    <3>1. job[w].steps = steps /\ \A o \in Outs : RecordIsFresh(steps[o], o)
      BY <1>2, <2>4 DEF SpendInv, AloneIsCurrent
    <3> QED
      BY <1>1, <3>1 DEF RecordIsFresh
  <2>5. CASE state' = state /\ job' = [job EXCEPT ![w].pc = "left"]
    <3>1. PICK j : j = [job[w] EXCEPT !.pc = "left"]
      OBVIOUS
    <3>2. job' = [job EXCEPT ![w] = j] /\ job'[w] = j
      BY <1>2, <2>5, <3>1 DEF SpendInv, SpendTypes
    <3>3. j \in Busy /\ j.pc = "left" /\ j.steps = job[w].steps /\ j.todo = job[w].todo /\ j.outputs = job[w].outputs
      BY <1>2, <3>1 DEF Busy
    <3>4. JobIsSound(w)'
      <4>1. CopyIsSound(w)'
        BY <1>1, <1>2, <3>2, <3>3 DEF CopyIsSound, Truthful, TruthfulStep, Outs
      <4>2. job[w].outputs \subseteq AllOuts
        BY <1>2 DEF Busy
      <4>3. ActIsSound(w)'
        BY <1>1, <2>1, <3>2, <3>3, <4>2 DEF ActIsSound, leg
      <4> QED
        BY <4>1, <4>3 DEF JobIsSound
    <3>5. state' \in {"open", "done", "learnt", "stuck"} /\ DoneIsCollected' /\ ParkedOnlyWhenWorthless'
      BY <1>1, <2>2, <2>5, StateSame
    <3> QED
      BY <1>1, <1>2, <2>2, <2>3, <2>4, <3>2, <3>3, <3>4, <3>5, WorkerStep
  <2>6. CASE \E to \in {state, "stuck"} : End(w, to)
    <3>1. /\ state' \in {"open", "done", "learnt", "stuck"} /\ DoneIsCollected' /\ ParkedOnlyWhenWorthless'
          /\ job' = [job EXCEPT ![w] = Idle]
      BY <1>1, <2>2, <2>6, EndIsSound
    <3>2. JobIsSound(w)'
      BY <3>1 DEF JobIsSound, SpendInv, SpendTypes
    <3> QED
      BY <1>1, <1>2, <2>2, <2>3, <2>4, <3>1, <3>2, WorkerStep
  <2> QED
    BY <1>4, <2>5, <2>6 DEF ClaimOffchain, LateOr
<1> QED
  BY <1>3, <1>4

LEMMA LeavingKeepsInv ==
  ASSUME SpendInv, NEW w \in Worker, NothingUnrolled(w) \/ Crash(w)
  PROVE  SpendInv'
<1>1. /\ job[w] # Idle /\ job' = [job EXCEPT ![w] = Idle]
      /\ UNCHANGED <<setting, state, steps, where, l1, lag, clock>>
  BY DEF NothingUnrolled, Crash, Idle, chain
<1> QED
  BY <1>1, ChainSame, StateSame, WorkerLeaves

(* The client, Bitcoin and the explorers: they take outputs, confirm, drop and show spends, and send none of ours. *)
OutsideStep ==
  /\ UNCHANGED <<setting, state, steps, job, clock>>
  /\ \A o \in AllOuts : /\ l1'[o].at \in {"mempool", "ours"} => l1[o].at \in {"mempool", "ours"}
                        /\ o \in lag' => o \in lag
                        /\ l1[o].at = "theirs" => l1'[o].at = "theirs"

LEMMA OutsideKeepsInv ==
  ASSUME SpendInv, ChainKeeps, OutsideStep
  PROVE  SpendInv'
<1>1. SpendTypes'
  BY DEF SpendInv, SpendTypes, ChainKeeps, OutsideStep
<1>2. Truthful(steps)' /\ DoneIsCollected' /\ ParkedOnlyWhenWorthless'
  BY ChainLeavesTruth, StateSame DEF OutsideStep
<1>3. \A w \in Worker : JobIsSound(w)'
  BY OtherJobKept DEF OutsideStep
<1>4. AloneIsCurrent'
  <2>1. \A o \in Outs, step \in StepRec : RecordIsFresh(step, o) => (RecordIsFresh(step, o))'
    BY OutputsAreTheirs DEF OutsideStep, RecordIsFresh
  <2>2. \A o \in Outs : steps[o] \in StepRec
    BY OutputsAreTheirs DEF SpendInv, SpendTypes
  <2> QED
    BY <2>1, <2>2 DEF SpendInv, AloneIsCurrent, OutsideStep, Outs, RecordIsFresh
<1> QED
  BY <1>1, <1>2, <1>3, <1>4 DEF SpendInv, ChainKeeps

LEMMA UnrollKeepsInv ==
  ASSUME SpendInv, NEW o \in AllOuts, Unroll(o)
  PROVE  SpendInv'
<1>1. /\ where[o] = "live" /\ where' = [where EXCEPT ![o] = "unrolled"] /\ l1' = [l1 EXCEPT ![o].since = clock]
      /\ UNCHANGED <<setting, state, steps, job, lag, clock>>
  BY DEF Unroll, Live, rest
<1>2. l1 \in [AllOuts -> OnBitcoin] /\ SignedIsSent /\ clock \in Int /\ ChainTypes
  BY DEF SpendInv, SpendTypes, ChainTypes
<1>3. PICK moved : moved = [l1[o] EXCEPT !.since = clock]
  OBVIOUS
<1>4. moved \in OnBitcoin /\ moved.at = l1[o].at /\ moved.signed = l1[o].signed
  BY <1>2, <1>3 DEF OnBitcoin
<1>5. l1' \in [AllOuts -> OnBitcoin] /\ l1'[o] = moved /\ \A x \in AllOuts \ {o} : l1'[x] = l1[x]
  BY <1>1, <1>2, <1>3, <1>4
<1>6. \A x \in AllOuts : l1'[x].at = l1[x].at /\ l1'[x].signed = l1[x].signed
  BY <1>4, <1>5
<1>7. ChainKeeps
  <2>1. ChainTypes'
    BY <1>1, <1>2, <1>5 DEF ChainTypes
  <2>2. SignedIsSent'
    BY <1>1, <1>2, <1>6 DEF SignedIsSent
  <2>3. \A x \in AllOuts : where[x] = "claimed" => where'[x] = "claimed"
    BY <1>1, <1>2 DEF ChainTypes
  <2> QED
    BY <1>1, <1>6, <2>1, <2>2, <2>3 DEF ChainKeeps
<1>8. OutsideStep
  BY <1>1, <1>6 DEF OutsideStep
<1> QED
  BY <1>7, <1>8, OutsideKeepsInv

LEMMA SpendMovesKeepsInv ==
  ASSUME SpendInv, NEW o \in AllOuts, NEW at \in {"ours", "theirs", "dropped", "mempool"}, NEW child \in {"none", "mempool", "dropped"},
         l1' = [l1 EXCEPT ![o].at = at, ![o].child = child], l1[o].at # "ours",
         at = "theirs" \/ l1[o].at = "mempool",
         UNCHANGED <<setting, state, steps, job, where, lag, clock>>
  PROVE  SpendInv'
<1>1. l1 \in [AllOuts -> OnBitcoin] /\ SignedIsSent /\ ChainTypes
  BY DEF SpendInv, SpendTypes, ChainTypes
<1>2. PICK moved : moved = [l1[o] EXCEPT !.at = at, !.child = child]
  OBVIOUS
<1>3. moved \in OnBitcoin /\ moved.at = at /\ moved.signed = l1[o].signed
  BY <1>1, <1>2 DEF OnBitcoin
<1>4. l1' = [l1 EXCEPT ![o] = moved]
  BY <1>1, <1>2
<1>5. l1' \in [AllOuts -> OnBitcoin] /\ l1'[o] = moved /\ \A x \in AllOuts \ {o} : l1'[x] = l1[x]
  BY <1>1, <1>3, <1>4
<1>6. ChainKeeps
  <2>1. ChainTypes'
    BY <1>1, <1>5 DEF ChainTypes
  <2>2. SignedIsSent'
    BY <1>1, <1>3, <1>5 DEF SignedIsSent
  <2> QED
    BY <1>3, <1>5, <2>1, <2>2 DEF ChainKeeps
<1>7. OutsideStep
  BY <1>3, <1>5 DEF OutsideStep
<1> QED
  BY <1>6, <1>7, OutsideKeepsInv

LEMMA OutsideActionsKeepInv ==
  ASSUME SpendInv, NEW o \in AllOuts, ClientTakes(o) \/ Mine(o) \/ Drop(o) \/ Appear(o)
  PROVE  SpendInv'
<1>1. UNCHANGED <<setting, state, steps, job, clock>> /\ l1[o] \in OnBitcoin /\ l1 \in [AllOuts -> OnBitcoin]
  BY DEF ClientTakes, Mine, Drop, Appear, rest, SpendInv, SpendTypes, ChainTypes
<1>2. PICK child : child = l1[o].child
  OBVIOUS
<1>3. child \in {"none", "mempool", "dropped"}
  BY <1>1, <1>2 DEF OnBitcoin
<1>4. ASSUME NEW at, l1' = [l1 EXCEPT ![o].at = at] PROVE l1' = [l1 EXCEPT ![o].at = at, ![o].child = child]
  <2>1. [l1[o] EXCEPT !.at = at] = [l1[o] EXCEPT !.at = at, !.child = child]
    BY <1>1, <1>2 DEF OnBitcoin
  <2> QED
    BY <1>1, <1>4, <2>1
<1>5. CASE ClientTakes(o)
  <2>1. CASE o \in Live /\ where' = [where EXCEPT ![o] = "refunded"] /\ l1' = l1
    <3>1. lag' = lag /\ where[o] = "live" /\ ChainTypes /\ SignedIsSent
      BY <1>5, <2>1 DEF ClientTakes, Live, SpendInv, SpendTypes
    <3>2. ChainKeeps
      BY <1>1, <2>1, <3>1 DEF ChainKeeps, ChainTypes, SignedIsSent
    <3>3. OutsideStep
      BY <1>1, <2>1, <3>1 DEF OutsideStep
    <3> QED
      BY <3>2, <3>3, OutsideKeepsInv
  <2>2. CASE l1[o].at \in {"none", "mempool", "dropped"} /\ l1' = [l1 EXCEPT ![o].at = "theirs"] /\ where' = where
    <3>1. lag' = lag
      BY <1>5 DEF ClientTakes
    <3> QED
      BY <1>1, <1>3, <1>4, <2>2, <3>1, SpendMovesKeepsInv
  <2> QED
    BY <1>5, <2>1, <2>2 DEF ClientTakes
<1>6. CASE Mine(o)
  BY <1>1, <1>3, <1>4, <1>6, SpendMovesKeepsInv DEF Mine
<1>7. CASE Drop(o)
  <2>1. l1[o].at = "mempool" /\ UNCHANGED <<where, lag>>
    BY <1>7 DEF Drop
  <2>2. CASE l1' = [l1 EXCEPT ![o].at = "dropped", ![o].child = IF @ = "mempool" THEN "dropped" ELSE @]
    <3>1. PICK to : to = IF child = "mempool" THEN "dropped" ELSE child
      OBVIOUS
    <3>2. l1' = [l1 EXCEPT ![o].at = "dropped", ![o].child = to]
      BY <1>1, <1>2, <2>2, <3>1 DEF OnBitcoin
    <3>3. to \in {"none", "mempool", "dropped"}
      BY <1>3, <3>1
    <3> QED
      BY <1>1, <2>1, <3>2, <3>3, SpendMovesKeepsInv
  <2>3. CASE l1' = [l1 EXCEPT ![o].child = "dropped"]
    <3>1. [l1[o] EXCEPT !.child = "dropped"] = [l1[o] EXCEPT !.at = "mempool", !.child = "dropped"]
      BY <1>1, <2>1 DEF OnBitcoin
    <3>2. l1' = [l1 EXCEPT ![o].at = "mempool", ![o].child = "dropped"]
      BY <1>1, <2>3, <3>1
    <3> QED
      BY <1>1, <2>1, <3>2, SpendMovesKeepsInv
  <2> QED
    BY <1>7, <2>2, <2>3 DEF Drop
<1>8. CASE Appear(o)
  <2>1. UNCHANGED <<where, l1>> /\ lag' = lag \ {o} /\ ChainTypes /\ SignedIsSent
    BY <1>8 DEF Appear, SpendInv, SpendTypes
  <2>2. ChainKeeps
    BY <1>1, <2>1 DEF ChainKeeps, ChainTypes, SignedIsSent
  <2>3. OutsideStep
    BY <1>1, <2>1 DEF OutsideStep
  <2> QED
    BY <2>2, <2>3, OutsideKeepsInv
<1> QED
  BY <1>5, <1>6, <1>7, <1>8

LEMMA TickKeepsInv ==
  ASSUME SpendInv, Tick
  PROVE  SpendInv'
<1>1. UNCHANGED <<setting, state, steps, job, where, l1, lag>> /\ clock' = clock + 1 /\ lag = {} /\ \A w \in Worker : job[w].pc # "cosign"
  BY DEF Tick, rest, chain
<1>2. ChainKeeps
  BY <1>1, ChainSame
<1>3. SpendTypes'
  BY <1>1 DEF SpendInv, SpendTypes, ChainTypes
<1>4. \A w \in Worker : JobIsSound(w)'
  BY <1>1, <1>2, OtherJobKept
<1>5. Truthful(steps)' /\ DoneIsCollected'
  BY <1>1, <1>2, ChainLeavesTruth, ChainLeavesDone
<1>6. AloneIsCurrent'
  BY <1>1 DEF SpendInv, AloneIsCurrent, RecordIsFresh, Outs
<1>7. ParkedOnlyWhenWorthless'
  BY <1>1, SpendAssumption DEF SpendInv, SpendTypes, ParkedOnlyWhenWorthless, leg
<1> QED
  BY <1>2, <1>3, <1>4, <1>5, <1>6, <1>7 DEF SpendInv, ChainKeeps

LEMMA SpendInvInit ==
  ASSUME SpendInit
  PROVE  SpendInv
<1>1. NoStep \in StepRec /\ NoStep.tx = 0 /\ NoStep.kind = "none"
  BY DEF NoStep, Mark, Step, StepRec, StepKinds
<1>2. NotUnrolled \in OnBitcoin /\ NotUnrolled.signed = 0 /\ NotUnrolled.at = "none"
  BY DEF NotUnrolled, OnBitcoin
<1>3. SpendTypes
  BY <1>1, <1>2 DEF SpendInit, SpendTypes, ChainTypes
<1>4. Truthful(steps)
  BY <1>1 DEF SpendInit, Truthful, TruthfulStep, Sent
<1>5. (\A w \in Worker : JobIsSound(w)) /\ SignedIsSent /\ DoneIsCollected /\ ParkedOnlyWhenWorthless
  BY <1>2 DEF SpendInit, JobIsSound, SignedIsSent, DoneIsCollected, ParkedOnlyWhenWorthless
<1>6. Outs \subseteq AllOuts
  <2>1. setting.outs \subseteq UNION {s.outs : s \in Settings}
    BY DEF SpendInit
  <2> QED
    BY <2>1 DEF Outs, AllOuts
<1>7. AloneIsCurrent
  BY <1>2, <1>6 DEF SpendInit, AloneIsCurrent, RecordIsFresh
<1> QED
  BY <1>3, <1>4, <1>5, <1>7 DEF SpendInv

LEMMA SpendInvNext ==
  ASSUME SpendInv, [SpendNext]_spendVars
  PROVE  SpendInv'
<1>1. ASSUME NEW w \in Worker, SpenderStep(w) PROVE SpendInv'
  BY <1>1, ReadKeepsInv, FindKeepsInv, WaitKeepsInv, FollowKeepsInv, ResendKeepsInv, TooSmallKeepsInv, PushKeepsInv,
     CosignKeepsInv, CosignRefusedKeepsInv, RefusedKeepsInv, BumpKeepsInv, BumpLostKeepsInv, ShortKeepsInv, ClaimKeepsInv,
     SettleKeepsInv, LeavingKeepsInv
     DEF SpenderStep
<1>2. ASSUME NEW w \in Worker, PushFails(w) \/ CosignLost(w) \/ Crash(w) PROVE SpendInv'
  BY <1>2, PushFailsKeepsInv, CosignLostKeepsInv, LeavingKeepsInv
<1>3. ASSUME NEW o \in AllOuts, Unroll(o) \/ ClientTakes(o) \/ Mine(o) \/ Drop(o) \/ Appear(o) PROVE SpendInv'
  BY <1>3, UnrollKeepsInv, OutsideActionsKeepInv
<1>4. CASE UNCHANGED spendVars
  <2>1. UNCHANGED <<setting, state, steps, where, l1, lag, job, clock>>
    BY <1>4 DEF spendVars
  <2> QED
    BY <2>1, ChainSame, OutsideKeepsInv DEF OutsideStep
<1> QED
  BY <1>1, <1>2, <1>3, <1>4, TickKeepsInv DEF SpendNext

(* What a worker does to a lockup on Bitcoin always follows from what it has recorded and what is signed. *)
THEOREM SpendInvariant == SpendSpec => []SpendInv
<1>1. SpendInit => SpendInv
  BY SpendInvInit
<1>2. SpendInv /\ [SpendNext]_spendVars => SpendInv'
  BY SpendInvNext
<1> QED
  BY <1>1, <1>2, PTL DEF SpendSpec

(* A row ends well only with every lockup collected, a spend that can still confirm is never written off by a worker *)
(* alone with its row, and a refund is parked only once the preimage is worthless: for any outputs, workers, fee      *)
(* rates, delays and faults.                                                                                        *)
THEOREM SpendsKept == SpendSpec => []SpendsAreKept
<1>1. SpendInv => SpendsAreKept
  <2> SUFFICES ASSUME SpendInv PROVE SpendsAreKept
    OBVIOUS
  <2>1. ASSUME Cardinality(setting.crew) = 1, NEW o \in Outs, l1[o].at \in {"mempool", "ours"}
        PROVE  steps[o].kind \notin {"closed", "spent"}
    <3>1. setting \in Settings
      BY DEF SpendInv, SpendTypes
    <3>2. setting.crew \subseteq Worker /\ IsFiniteSet(setting.crew)
      BY <3>1, SpendAssumption
    <3>3. PICK w : setting.crew = {w}
      BY <2>1, <3>2, FS_Singleton
    <3>4. w \in Worker
      BY <3>2, <3>3
    <3> QED
      BY <2>1, <3>3, <3>4 DEF SpendInv, AloneIsCurrent, RecordIsFresh, Sent
  <2> QED
    BY <2>1 DEF SpendsAreKept, LiveSpendIsFollowed, SpendInv
<1> QED
  BY <1>1, SpendInvariant, PTL

-----------------------------------------------------------------------------
(* FloatKeeping.                                                              *)
FinalRow == {"none", "claimed", "refused", "ended"}
RowOpen == FinalRow \cup {"stuck", "claiming"}
FinalOut == {"claimed", "refunded", "reclaimed", "recovered"}
BookRec == [at : {"idle", "live", "snapshot", "apply"}, live : SUBSET Lockup, complete : BOOLEAN,
            register : SUBSET Lockup, disable : SUBSET Lockup, delete : SUBSET Lockup]
PassRec == [at : {"idle", "migrate", "board", "renew", "list", "rows", "guard", "recover", "find", "decide", "batch", "record", "close"},
            listed : SUBSET ((Lockup \cup {"coin"}) \X BOOLEAN), rows : SUBSET Lockup,
            read : SendState \cup {"none"}, reason : BOOLEAN]
FloatTypes ==
  /\ scene \in SceneType /\ row \in [Lockup -> SendState \cup {"none", "open", "ended"}]
  /\ row["send"] \in SendState \cup {"none"} /\ row["receive"] \in {"none", "open", "ended"}
  /\ out \in [Lockup -> {"none", "held", "lapsed", "swept"} \cup FinalOut]
  /\ late \subseteq Lockup /\ pay \in {"none", "pending", "settled", "returned"}
  /\ contract \in [Lockup -> [watch : {"none", "watched", "retained", "deleted"}, since : Int]]
  /\ book \in BookRec /\ pass \in PassRec /\ operator \in SendState \cup {"idle", "push"} /\ day \in Int

(* A payment under way has its row, and a refused row never had one that may land. *)
PaymentHasRow == pay \in {"pending", "settled"} => row["send"] \in {"paying", "paid", "stuck", "claiming", "claimed"}
(* Who gives the lockup back, or has, does it for a row that is refused or a payment that came back. *)
ForNothing == pay = "returned" \/ row["send"] = "refused"
GivenBackForNothing ==
  /\ out["send"] = "refunded" => ForNothing
  /\ pass.at \in {"batch", "record", "close"} => ForNothing
  /\ pass.at = "close" \/ (pass.at \in {"batch", "record"} /\ pass.reason) =>
       pay = "returned" /\ pass.read \in RECONCILABLE_SWEPT_STATES
  /\ pass.at = "decide" /\ pass.read = "refused" => row["send"] = "refused"
  /\ operator = "push" => row["send"] = "refused"
  /\ operator \in {"stuck", "refused"} => pay \in {"none", "returned"} /\ row["send"] \in RowOpen
  /\ operator \in SendState => operator \in {"quoted", "funded", "stuck", "refused"}

(* A lockup is paid before its row counts on it, and a receive row ends with its lockup. *)
PaidFirst ==
  /\ \A s \in Lockup : out[s] = "none" => row[s] \in {"none", "quoted", "refused"}
  /\ row["receive"] = "ended" => out["receive"] \in FinalOut
  /\ row["receive"] = "none" => out["receive"] = "none"

(* The contract pass retires what is over for good, and deletes what nothing was paid to in time. *)
Over(s) == row[s] \in FinalRow \/ out[s] \in FinalOut
RetiresWhatIsOver ==
  \A s \in Lockup :
    /\ contract[s].watch \in {"retained", "deleted"} \/ s \in book.disable \cup book.delete => Over(s)
    /\ contract[s].watch = "deleted" \/ s \in book.delete => (Unspent(s) => s \in late)
    /\ s \in book.delete => Kept(s) /\ s \notin book.live
    /\ s \in book.disable => contract[s].watch = "watched"
    /\ contract[s].watch = "deleted" /\ out[s] \notin FinalOut => s \notin book.live
    /\ s \in book.register => s \in book.live
    /\ s \in book.disable \cup book.delete \cup book.register => book.at = "apply"
    /\ book.at = "snapshot" /\ book.complete /\ s \notin book.live => row[s] \in RowOpen

(* What the float pass listed is still to be seen, or gone. *)
ListStands ==
  /\ pass.at \in {"rows", "guard", "recover"} =>
       \A x \in pass.listed : x[1] \in Lockup => contract[x[1]].watch # "none"
  /\ pass.at \in {"guard", "recover"} /\ "receive" \notin pass.rows => row["receive"] \in {"none", "ended"}
  /\ pass.at = "recover" => \A x \in pass.listed : x[2] =>
       /\ x[1] = "send" => out["send"] \in FinalOut \/ contract["send"].watch = "deleted"
       /\ x[1] = "receive" => "receive" \notin pass.rows \/ day >= OpensAt + MtpMargin

FloatInv ==
  /\ FloatTypes /\ PaymentHasRow /\ GivenBackForNothing /\ PaidFirst /\ RetiresWhatIsOver /\ ListStands

(* What rows, outputs and payments may do: what is over stays over. *)
LandTypes ==
  /\ scene \in SceneType /\ row \in [Lockup -> SendState \cup {"none", "open", "ended"}]
  /\ row["send"] \in SendState \cup {"none"} /\ row["receive"] \in {"none", "open", "ended"}
  /\ out \in [Lockup -> {"none", "held", "lapsed", "swept"} \cup FinalOut]
  /\ late \subseteq Lockup /\ pay \in {"none", "pending", "settled", "returned"}
RowMoves(s) ==
  /\ row[s] \in FinalRow => row'[s] = row[s]
  /\ row[s] \in RowOpen => row'[s] \in RowOpen
OutMoves(s) ==
  /\ out[s] \in FinalOut => out'[s] = out[s]
  /\ out[s] # "none" => out'[s] # "none"
  /\ Unspent(s)' /\ ~Unspent(s) => (Kept(s) \/ contract[s].watch = "deleted" => s \in late')
LandMoves ==
  /\ LandTypes' /\ PaymentHasRow' /\ PaidFirst' /\ late \subseteq late'
  /\ \A s \in Lockup : RowMoves(s) /\ OutMoves(s)
  /\ pay = "returned" => pay' = "returned"
  /\ row["send"] \in RowOpen /\ pay \in {"none", "returned"} => pay' \in {"none", "returned"}
  /\ out'["send"] = "refunded" => out["send"] = "refunded" \/ ForNothing'

LEMMA LandStill ==
  ASSUME FloatInv, UNCHANGED <<scene, row, out, late, pay>>
  PROVE  LandMoves
BY DEF LandMoves, LandTypes, RowMoves, OutMoves, FloatInv, FloatTypes, PaymentHasRow, PaidFirst, Unspent

LEMMA OverStays ==
  ASSUME FloatInv, LandMoves, NEW s \in Lockup, Over(s)
  PROVE  Over(s)'
BY DEF LandMoves, RowMoves, OutMoves, Over

(* The contract pass is undisturbed by what the corridors and clients do. *)
LEMMA LandLeavesBook ==
  ASSUME FloatInv, LandMoves, UNCHANGED <<contract, book>>, day' = day
  PROVE  RetiresWhatIsOver'
<1> SUFFICES ASSUME NEW s \in Lockup
             PROVE  /\ contract[s].watch \in {"retained", "deleted"} \/ s \in book.disable \cup book.delete => Over(s)'
                    /\ contract[s].watch = "deleted" \/ s \in book.delete => (Unspent(s)' => s \in late')
                    /\ s \in book.delete => Kept(s)' /\ s \notin book.live
                    /\ s \in book.disable => contract[s].watch = "watched"
                    /\ contract[s].watch = "deleted" /\ out'[s] \notin FinalOut => s \notin book.live
                    /\ s \in book.register => s \in book.live
                    /\ s \in book.disable \cup book.delete \cup book.register => book.at = "apply"
                    /\ book.at = "snapshot" /\ book.complete /\ s \notin book.live => row'[s] \in RowOpen
  BY DEF RetiresWhatIsOver
<1>1. RowMoves(s) /\ OutMoves(s) /\ late \subseteq late'
  BY DEF LandMoves
<1>2. Kept(s)' = Kept(s)
  BY DEF Kept
<1> QED
  BY <1>1, <1>2, OverStays DEF FloatInv, RetiresWhatIsOver, RowMoves, OutMoves

(* Nor is the giving back, nor the list of what to recover. *)
LEMMA LandLeavesRefund ==
  ASSUME FloatInv, LandMoves, UNCHANGED <<pass, operator>>
  PROVE  GivenBackForNothing'
<1>1. ForNothing => ForNothing'
  BY DEF LandMoves, RowMoves, ForNothing, FinalRow, Lockup
<1>2. row["send"] = "refused" => row'["send"] = "refused"
  BY DEF LandMoves, RowMoves, FinalRow, Lockup
<1>3. row["send"] \in RowOpen => row'["send"] \in RowOpen
  BY DEF LandMoves, RowMoves, Lockup
<1> QED
  BY <1>1, <1>2, <1>3 DEF FloatInv, GivenBackForNothing, LandMoves

LEMMA LandLeavesList ==
  ASSUME FloatInv, LandMoves, UNCHANGED <<pass, contract>>, day' = day
  PROVE  ListStands'
<1>1. out["send"] \in FinalOut => out'["send"] \in FinalOut
  BY DEF LandMoves, OutMoves, Lockup
<1>2. row["receive"] \in {"none", "ended"} => row'["receive"] \in {"none", "ended"}
  BY DEF LandMoves, RowMoves, FinalRow, Lockup
<1> QED
  BY <1>1, <1>2 DEF FloatInv, ListStands

(* A pass at one of these points has decided nothing. *)
Harmless == {"idle", "migrate", "board", "renew", "list", "find"}
LEMMA HarmlessPass ==
  ASSUME FloatInv, LandMoves, operator' = operator, pass'.at \in Harmless
  PROVE  GivenBackForNothing' /\ ListStands'
<1>1. ListStands'
  BY DEF ListStands, Harmless
<1>2. ForNothing => ForNothing'
  BY DEF LandMoves, RowMoves, ForNothing, FinalRow, Lockup
<1>3. (row["send"] = "refused" => row'["send"] = "refused") /\ (row["send"] \in RowOpen => row'["send"] \in RowOpen)
  BY DEF LandMoves, RowMoves, FinalRow, Lockup
<1>4. GivenBackForNothing'
  BY <1>2, <1>3 DEF FloatInv, GivenBackForNothing, LandMoves, Harmless
<1> QED
  BY <1>1, <1>4

ContractTypes == contract \in [Lockup -> [watch : {"none", "watched", "retained", "deleted"}, since : Int]]
DeskTypes == /\ ContractTypes /\ book \in BookRec /\ pass \in PassRec /\ day \in Int
             /\ operator \in SendState \cup {"idle", "push"}

LEMMA FloatParts ==
  ASSUME LandMoves, DeskTypes', GivenBackForNothing', RetiresWhatIsOver', ListStands'
  PROVE  FloatInv'
BY DEF LandMoves, LandTypes, DeskTypes, ContractTypes, FloatInv, FloatTypes

(* The corridors, clients and the network. *)
LEMMA LandKeepsInv ==
  ASSUME FloatInv, LandMoves, UNCHANGED <<contract, book, pass, operator, day>>
  PROVE  FloatInv'
<1>1. DeskTypes'
  BY DEF DeskTypes, ContractTypes, FloatInv, FloatTypes
<1> QED
  BY <1>1, LandLeavesBook, LandLeavesRefund, LandLeavesList, FloatParts

(* The contract pass, before it changes a contract. *)
LEMMA BookKeepsInv ==
  ASSUME FloatInv, UNCHANGED <<scene, row, out, late, pay, contract, pass, operator, day>>, book' \in BookRec, RetiresWhatIsOver'
  PROVE  FloatInv'
<1>1. DeskTypes'
  BY DEF DeskTypes, ContractTypes, FloatInv, FloatTypes
<1> QED
  BY <1>1, LandStill, LandLeavesRefund, LandLeavesList, FloatParts

LEMMA EmptyBook ==
  ASSUME FloatInv, UNCHANGED <<scene, row, out, late, pay, contract, pass, operator, day>>,
         book' = NoBook \/ book' = [NoBook EXCEPT !.at = "live"]
  PROVE  FloatInv'
<1>1. /\ book' \in BookRec /\ book'.at \in {"idle", "live"}
      /\ book'.live = {} /\ book'.register = {} /\ book'.disable = {} /\ book'.delete = {}
  <2>1. /\ NoBook \in BookRec /\ NoBook.at = "idle"
        /\ NoBook.live = {} /\ NoBook.register = {} /\ NoBook.disable = {} /\ NoBook.delete = {}
    BY DEF NoBook, BookRec
  <2>2. CASE book' = [NoBook EXCEPT !.at = "live"]
    BY <2>1, <2>2 DEF BookRec
  <2> QED
    BY <2>1, <2>2
<1>2. RetiresWhatIsOver'
  BY <1>1 DEF FloatInv, RetiresWhatIsOver, Over, Unspent
<1> QED
  BY <1>1, <1>2, BookKeepsInv

LEMMA ReadLiveKeepsInv ==
  ASSUME FloatInv, readLive
  PROVE  FloatInv'
<1>1. UNCHANGED <<scene, row, out, late, pay, contract, pass, operator, day>> /\ book.at = "live" /\ book \in BookRec
  BY DEF readLive, ground, counter, FloatInv, FloatTypes
<1>2. book.register = {} /\ book.disable = {} /\ book.delete = {}
  BY <1>1 DEF FloatInv, RetiresWhatIsOver, BookRec
<1>3. CASE book' = [book EXCEPT !.at = "snapshot", !.live = {s \in Lockup : LiveRow(s)}]
  <2>1. /\ book' \in BookRec /\ book'.at = "snapshot" /\ book'.live = {s \in Lockup : LiveRow(s)}
        /\ book'.register = {} /\ book'.disable = {} /\ book'.delete = {}
    BY <1>1, <1>2, <1>3 DEF BookRec
  <2>2. ASSUME NEW s \in Lockup, s \notin book'.live PROVE row[s] \in RowOpen
    BY <2>1, <2>2 DEF LiveRow, SendLive, RowOpen, FinalRow, FloatInv, FloatTypes, SendState
  <2>3. ASSUME NEW s \in Lockup, contract[s].watch = "deleted", out[s] \notin FinalOut PROVE s \notin book'.live
    <3>1. row[s] \in FinalRow
      BY <2>3 DEF FloatInv, RetiresWhatIsOver, Over
    <3> QED
      BY <2>1, <3>1 DEF LiveRow, SendLive, FinalRow
  <2>4. RetiresWhatIsOver'
    BY <1>1, <2>1, <2>2, <2>3 DEF FloatInv, RetiresWhatIsOver, Over, Unspent
  <2> QED
    BY <1>1, <2>1, <2>4, BookKeepsInv
<1>4. CASE book' = [book EXCEPT !.at = "snapshot", !.complete = FALSE]
  <2>1. /\ book' \in BookRec /\ book'.at = "snapshot" /\ ~book'.complete /\ book'.live = book.live
        /\ book'.register = {} /\ book'.disable = {} /\ book'.delete = {}
    BY <1>1, <1>2, <1>4 DEF BookRec
  <2>2. RetiresWhatIsOver'
    BY <1>1, <2>1 DEF FloatInv, RetiresWhatIsOver, Over, Unspent
  <2> QED
    BY <1>1, <2>1, <2>2, BookKeepsInv
<1> QED
  BY <1>3, <1>4 DEF readLive

(* What the plan retires is over: its row was not live, and its output is gone or was never paid. *)
LEMMA SnapshotKeepsInv ==
  ASSUME FloatInv, snapshotContracts
  PROVE  FloatInv'
<1>1. UNCHANGED <<scene, row, out, late, pay, contract, pass, operator, day>> /\ book.at = "snapshot" /\ book \in BookRec
  BY DEF snapshotContracts, ground, counter, FloatInv, FloatTypes
<1>2. book.register = {} /\ book.disable = {} /\ book.delete = {}
  BY <1>1 DEF FloatInv, RetiresWhatIsOver, BookRec
<1>3. CASE book.complete /\ book' = planContractLifecycle({s \in Lockup : Registered(s)})
  <2>1. PICK register : register = {s \in book.live : s \notin {t \in Lockup : Registered(t)}}
    OBVIOUS
  <2>2. PICK disable : disable = {s \in {t \in Lockup : Registered(t)} : Retirable(s) /\ contract[s].watch = "watched"}
    OBVIOUS
  <2>3. PICK delete : delete = {s \in {t \in Lockup : Registered(t)} : Retirable(s) /\ Kept(s)}
    OBVIOUS
  <2>4. book' = [book EXCEPT !.at = "apply", !.register = register, !.disable = disable, !.delete = delete]
    BY <1>3, <2>1, <2>2, <2>3 DEF planContractLifecycle
  <2>5. register \subseteq book.live /\ register \subseteq Lockup /\ disable \subseteq Lockup /\ delete \subseteq Lockup
    BY <1>1, <2>1, <2>2, <2>3 DEF BookRec
  <2>6. /\ book' \in BookRec /\ book'.at = "apply" /\ book'.live = book.live
        /\ book'.register = register /\ book'.disable = disable /\ book'.delete = delete
    BY <1>1, <2>4, <2>5 DEF BookRec
  <2>7. ASSUME NEW s \in Lockup, s \in disable \cup delete PROVE Over(s) /\ ~Unspent(s) /\ s \notin book.live
    <3>1. s \notin book.live /\ ~Unspent(s)
      BY <2>2, <2>3, <2>7 DEF Retirable
    <3>2. row[s] \in RowOpen
      BY <1>1, <1>3, <3>1 DEF FloatInv, RetiresWhatIsOver
    <3>3. out[s] \in FinalOut \/ out[s] = "none"
      BY <3>1 DEF Unspent, FloatInv, FloatTypes
    <3>4. out[s] = "none" => row[s] \in FinalRow
      BY <3>2 DEF FloatInv, PaidFirst, FinalRow, RowOpen
    <3> QED
      BY <3>1, <3>3, <3>4 DEF Over
  <2>8. ASSUME NEW s \in Lockup
        PROVE  (s \in delete => Kept(s)') /\ (s \in disable => contract'[s].watch = "watched")
    BY <1>1, <2>2, <2>3 DEF Kept
  <2>9. RetiresWhatIsOver'
    BY <1>1, <2>5, <2>6, <2>7, <2>8 DEF FloatInv, RetiresWhatIsOver, Over, Unspent
  <2> QED
    BY <1>1, <2>6, <2>9, BookKeepsInv
<1>4. CASE book'.disable = {} /\ book'.delete = {} /\ book'.at = "apply" /\ book'.register = book.live /\ book'.live = book.live /\ book' \in BookRec
  <2>1. RetiresWhatIsOver'
    BY <1>1, <1>4 DEF FloatInv, RetiresWhatIsOver, Over, Unspent
  <2> QED
    BY <1>1, <1>4, <2>1, BookKeepsInv
<1>5. CASE \/ book' = [book EXCEPT !.at = "apply", !.register = book.live]
           \/ book' = [book EXCEPT !.at = "apply", !.register = book.live, !.complete = FALSE]
  BY <1>1, <1>2, <1>4, <1>5 DEF BookRec
<1> QED
  BY <1>3, <1>5 DEF snapshotContracts

LEMMA ApplyKeepsInv ==
  ASSUME FloatInv, NEW s \in Lockup, applyPlan(s)
  PROVE  FloatInv'
<1>1. /\ UNCHANGED <<scene, row, out, late, pay, pass, operator, day>> /\ book.at = "apply" /\ book \in BookRec
      /\ s \in book.register \cup book.disable \cup book.delete
  BY DEF applyPlan, ground, counter, FloatInv, FloatTypes
<1>2. /\ book' \in BookRec /\ book'.at = "apply" /\ book'.live = book.live
      /\ book'.register = book.register \ {s} /\ book'.disable = book.disable \ {s} /\ book'.delete = book.delete \ {s}
  BY <1>1 DEF applyPlan, BookRec
<1>3. PICK kept : contract' = [contract EXCEPT ![s] = kept] /\ kept \in [watch : {"none", "watched", "retained", "deleted"}, since : Int]
                 /\ (\/ kept = contract[s]
                     \/ s \in book.delete /\ kept.watch = "deleted"
                     \/ s \in book.disable /\ kept.watch = "retained"
                     \/ s \notin book.delete /\ s \notin book.disable /\ ~Registered(s) /\ kept.watch = "watched")
  <2>1. contract \in [Lockup -> [watch : {"none", "watched", "retained", "deleted"}, since : Int]] /\ day \in Int
    BY DEF FloatInv, FloatTypes
  <2>2. CASE contract' = contract
    BY <2>1, <2>2
  <2>3. CASE contract' = [contract EXCEPT ![s] =
             IF s \in book.delete THEN [watch |-> "deleted", since |-> day]
             ELSE IF s \in book.disable THEN [watch |-> "retained", since |-> day]
             ELSE IF Registered(s) THEN contract[s] ELSE [watch |-> "watched", since |-> 0]]
    <3>1. PICK new : new = IF s \in book.delete THEN [watch |-> "deleted", since |-> day]
                           ELSE IF s \in book.disable THEN [watch |-> "retained", since |-> day]
                           ELSE IF Registered(s) THEN contract[s] ELSE [watch |-> "watched", since |-> 0]
      OBVIOUS
    <3>2. contract' = [contract EXCEPT ![s] = new]
      BY <2>3, <3>1
    <3>3. new \in [watch : {"none", "watched", "retained", "deleted"}, since : Int]
      BY <2>1, <3>1
    <3>4. \/ new = contract[s]
          \/ s \in book.delete /\ new.watch = "deleted"
          \/ s \in book.disable /\ new.watch = "retained"
          \/ s \notin book.delete /\ s \notin book.disable /\ ~Registered(s) /\ new.watch = "watched"
      BY <3>1
    <3> QED
      BY <3>2, <3>3, <3>4
  <2> QED
    BY <2>1, <2>2, <2>3 DEF applyPlan
<1>4. contract'[s] = kept /\ ContractTypes' /\ \A t \in Lockup \ {s} : contract'[t] = contract[t]
  BY <1>3 DEF FloatInv, FloatTypes, ContractTypes
<1>5. RetiresWhatIsOver'
  <2>1. ASSUME NEW t \in Lockup, t # s PROVE Kept(t)' = Kept(t)
    BY <1>1, <1>4, <2>1 DEF Kept
  <2>2. (contract'[s].watch \in {"retained", "deleted"} => Over(s)) /\ (contract'[s].watch = "deleted" => (Unspent(s) => s \in late))
    BY <1>1, <1>3, <1>4 DEF FloatInv, RetiresWhatIsOver
  <2>3. contract'[s].watch = "deleted" /\ out[s] \notin FinalOut => s \notin book.live
    BY <1>3, <1>4 DEF FloatInv, RetiresWhatIsOver
  <2> QED
    BY <1>1, <1>2, <1>4, <2>1, <2>2, <2>3 DEF FloatInv, RetiresWhatIsOver, Over, Unspent
<1>6. ListStands'
  <2>1. contract[s].watch # "none" => contract'[s].watch # "none"
    BY <1>3, <1>4
  <2>2. contract[s].watch = "deleted" /\ out[s] \notin FinalOut => contract'[s].watch = "deleted"
    BY <1>1, <1>3, <1>4 DEF FloatInv, RetiresWhatIsOver, Kept
  <2>3. \A t \in Lockup : /\ contract[t].watch # "none" => contract'[t].watch # "none"
                          /\ contract[t].watch = "deleted" /\ out[t] \notin FinalOut => contract'[t].watch = "deleted"
    BY <1>4, <2>1, <2>2
  <2> QED
    BY <1>1, <2>3 DEF FloatInv, ListStands, Lockup
<1>7. DeskTypes'
  BY <1>1, <1>2, <1>4 DEF DeskTypes, FloatInv, FloatTypes
<1> QED
  BY <1>1, <1>5, <1>6, <1>7, LandStill, LandLeavesRefund, FloatParts

(* The float pass, where it has decided nothing. *)
LEMMA PassKeepsInv ==
  ASSUME FloatInv, LandMoves, UNCHANGED <<contract, book, operator, day>>, pass' \in PassRec, pass'.at \in Harmless
  PROVE  FloatInv'
<1>1. DeskTypes'
  BY DEF DeskTypes, ContractTypes, FloatInv, FloatTypes
<1> QED
  BY <1>1, LandLeavesBook, HarmlessPass, FloatParts

LEMMA PassEnds ==
  ASSUME FloatInv, EndPass
  PROVE  pass' \in PassRec /\ pass'.at \in Harmless
BY DEF EndPass, NoPass, PassRec, Harmless

LEMMA PassGoes ==
  ASSUME FloatInv, NEW at \in {"migrate", "board", "renew", "list", "guard", "recover", "find", "record", "close"}, pass' = [pass EXCEPT !.at = at]
  PROVE  /\ pass' \in PassRec /\ pass'.at = at /\ pass'.listed = pass.listed
         /\ pass'.rows = pass.rows /\ pass'.read = pass.read /\ pass'.reason = pass.reason
BY DEF FloatInv, FloatTypes, PassRec

LEMMA PassMovesKeepInv ==
  ASSUME FloatInv, \/ \E c \in Caller : Start(c)
                   \/ Migrate \/ settleBoardedSats \/ renewExpiringVtxos \/ readFails
  PROVE  FloatInv'
<1>1. UNCHANGED <<scene, row, out, late, pay, contract, book, operator, day>>
  BY DEF Start, Migrate, settleBoardedSats, renewExpiringVtxos, readFails, ground, counter
<1>2. pass' \in PassRec /\ pass'.at \in Harmless
  <2>1. EndPass \/ \E at \in {"migrate", "board", "renew", "list"} : pass' = [pass EXCEPT !.at = at]
    BY DEF Start, Migrate, settleBoardedSats, renewExpiringVtxos, readFails, Going
  <2> QED
    BY <2>1, PassEnds, PassGoes DEF Harmless
<1> QED
  BY <1>1, <1>2, LandStill, PassKeepsInv

(* With nothing but the pass moved, its own conditions are what is left to show. *)
LEMMA PassDecides ==
  ASSUME FloatInv, UNCHANGED <<scene, row, out, late, pay, contract, book, operator, day>>, pass' \in PassRec,
         GivenBackForNothing', ListStands'
  PROVE  FloatInv'
<1>1. DeskTypes'
  BY DEF DeskTypes, ContractTypes, FloatInv, FloatTypes
<1> QED
  BY <1>1, LandStill, LandLeavesBook, FloatParts

LEMMA ListKeepsInv ==
  ASSUME FloatInv, recoverableVtxosFrom
  PROVE  FloatInv'
<1>1. UNCHANGED <<scene, row, out, late, pay, contract, book, operator, day>>
  BY DEF recoverableVtxosFrom, ground
<1>2. CASE EndPass
  BY <1>1, <1>2, LandStill, PassEnds, PassKeepsInv
<1>3. CASE pass' = [pass EXCEPT !.at = "rows", !.listed = {<<x, x = "coin" \/ out[x] = "swept">> : x \in Recoverable}]
  <2>1. PICK listed : listed = {<<x, x = "coin" \/ out[x] = "swept">> : x \in Recoverable}
    OBVIOUS
  <2>2. Recoverable \subseteq Lockup \cup {"coin"}
    BY DEF Recoverable
  <2>3. ASSUME NEW x \in Recoverable PROVE <<x, x = "coin" \/ out[x] = "swept">> \in (Lockup \cup {"coin"}) \X BOOLEAN
    BY <2>2
  <2>4. listed \in SUBSET ((Lockup \cup {"coin"}) \X BOOLEAN)
    BY <2>1, <2>3
  <2>5. pass' \in PassRec /\ pass'.at = "rows" /\ pass'.listed = listed
    BY <1>3, <2>1, <2>4 DEF FloatInv, FloatTypes, PassRec
  <2>6. ASSUME NEW x \in listed, x[1] \in Lockup PROVE contract[x[1]].watch # "none"
    <3>1. PICK y \in Recoverable : x = <<y, y = "coin" \/ out[y] = "swept">>
      BY <2>1
    <3>2. y \in Lockup /\ y # "coin" /\ x[1] = y
      BY <2>6, <3>1 DEF Lockup
    <3> QED
      BY <3>1, <3>2 DEF Recoverable, Registered
  <2>7. ListStands'
    BY <1>1, <2>5, <2>6 DEF ListStands
  <2>8. GivenBackForNothing'
    BY <1>1, <2>5 DEF FloatInv, GivenBackForNothing, ForNothing
  <2> QED
    BY <1>1, <2>5, <2>7, <2>8, PassDecides
<1> QED
  BY <1>2, <1>3 DEF recoverableVtxosFrom

LEMMA RowsKeepInv ==
  ASSUME FloatInv, liveLockupRows
  PROVE  FloatInv'
<1>1. UNCHANGED <<scene, row, out, late, pay, contract, book, operator, day>> /\ pass.at = "rows"
  BY DEF liveLockupRows, ground, counter
<1>2. PICK alive : alive = {s \in Lockup : LiveRow(s)}
  OBVIOUS
<1>3. pass' \in PassRec /\ pass'.at = "guard" /\ pass'.listed = pass.listed /\ pass'.rows = alive
  BY <1>2 DEF liveLockupRows, FloatInv, FloatTypes, PassRec
<1>4. "receive" \notin alive => row["receive"] \in {"none", "ended"}
  BY <1>2 DEF LiveRow, Lockup, FloatInv, FloatTypes
<1>5. ListStands'
  BY <1>1, <1>3, <1>4 DEF FloatInv, ListStands
<1>6. GivenBackForNothing'
  BY <1>1, <1>3 DEF FloatInv, GivenBackForNothing, ForNothing
<1> QED
  BY <1>1, <1>3, <1>5, <1>6, PassDecides

(* The guard: no lockup of the client's is in the way, nor one of the solver's whose leaf is not safely open. *)
LEMMA GuardKeepsInv ==
  ASSUME FloatInv, Guard
  PROVE  FloatInv'
<1>1. UNCHANGED <<scene, row, out, late, pay, contract, book, operator, day>> /\ pass.at = "guard" /\ pass \in PassRec
  BY DEF Guard, ground, FloatInv, FloatTypes
<1>2. CASE EndPass
  BY <1>1, <1>2, LandStill, PassEnds, PassKeepsInv
<1>3. CASE pass' = [pass EXCEPT !.at = "find"]
  <2>1. pass' \in PassRec /\ pass'.at \in Harmless
    BY <1>3, PassGoes DEF Harmless
  <2> QED
    BY <1>1, <2>1, LandStill, PassKeepsInv
<1>4. CASE Blocking = {} /\ pass' = [pass EXCEPT !.at = "recover"]
  <2>1. /\ pass' \in PassRec /\ pass'.at = "recover" /\ pass'.listed = pass.listed
        /\ pass'.rows = pass.rows /\ pass'.read = pass.read /\ pass'.reason = pass.reason
    BY <1>4, PassGoes
  <2>2. ASSUME NEW x \in pass.listed, x[2]
        PROVE  /\ x[1] = "send" => contract["send"].watch = "deleted"
               /\ x[1] = "receive" => "receive" \notin pass.rows \/ day >= OpensAt + MtpMargin
    <3>1. ~(x[1] \in NotOurs) /\ ~(x[1] \in Immature)
      BY <1>4, <2>2 DEF Blocking
    <3>2. x[1] = "send" => ~Registered("send") /\ contract["send"].watch # "none"
      BY <1>1, <2>2, <3>1 DEF NotOurs, FloatInv, ListStands, Lockup
    <3>3. x[1] = "receive" => "receive" \notin pass.rows \/ ~(day < OpensAt + MtpMargin)
      BY <3>1 DEF Immature
    <3>4. contract["send"].watch \in {"none", "watched", "retained", "deleted"} /\ day \in Int
      BY DEF FloatInv, FloatTypes, Lockup
    <3> QED
      BY <3>2, <3>3, <3>4, FloatAssumption DEF Registered
  <2>3. ListStands'
    BY <1>1, <2>1, <2>2 DEF FloatInv, ListStands
  <2>4. GivenBackForNothing'
    BY <1>1, <2>1 DEF FloatInv, GivenBackForNothing, ForNothing
  <2> QED
    BY <1>1, <2>1, <2>3, <2>4, PassDecides
<1> QED
  BY <1>2, <1>3, <1>4 DEF Guard, Going

LEMMA FindSweptKeepsInv ==
  ASSUME FloatInv, findSwept
  PROVE  FloatInv'
<1>1. UNCHANGED <<scene, row, out, late, pay, contract, book, operator, day>> /\ pass.at = "find" /\ pass \in PassRec
  BY DEF findSwept, ground, FloatInv, FloatTypes
<1>2. CASE EndPass
  BY <1>1, <1>2, LandStill, PassEnds, PassKeepsInv
<1>3. CASE pass' = [pass EXCEPT !.at = "decide", !.read = row["send"]]
  <2>1. pass' \in PassRec /\ pass'.at = "decide" /\ pass'.read = row["send"]
    BY <1>1, <1>3 DEF PassRec, FloatInv, FloatTypes
  <2>2. ListStands' /\ GivenBackForNothing'
    BY <1>1, <2>1 DEF FloatInv, GivenBackForNothing, ForNothing, ListStands
  <2> QED
    BY <1>1, <2>1, <2>2, PassDecides
<1> QED
  BY <1>2, <1>3 DEF findSwept

LEMMA DecideSweptKeepsInv ==
  ASSUME FloatInv, decideSwept
  PROVE  FloatInv'
<1>1. UNCHANGED <<scene, row, out, late, pay, contract, book, operator, day>> /\ pass.at = "decide" /\ pass \in PassRec
  BY DEF decideSwept, ground, FloatInv, FloatTypes
<1>2. CASE EndPass
  BY <1>1, <1>2, LandStill, PassEnds, PassKeepsInv
<1>3. CASE /\ pass.read = "refused" \/ sweptRefundDecision(pass.read)
           /\ pass' = [pass EXCEPT !.at = "batch", !.reason = pass.read # "refused"]
  <2>1. pass' \in PassRec /\ pass'.at = "batch" /\ pass'.read = pass.read /\ pass'.reason = (pass.read # "refused")
    BY <1>1, <1>3 DEF PassRec
  <2>2. sweptRefundDecision(pass.read) => pay = "returned" /\ pass.read \in RECONCILABLE_SWEPT_STATES
    BY DEF sweptRefundDecision, paymentVerdict, FloatInv, FloatTypes
  <2>3. pass.read = "refused" => row["send"] = "refused"
    BY <1>1 DEF FloatInv, GivenBackForNothing
  <2>4. ListStands'
    BY <2>1 DEF ListStands
  <2>5. GivenBackForNothing'
    BY <1>1, <1>3, <2>1, <2>2, <2>3 DEF FloatInv, GivenBackForNothing, ForNothing
  <2> QED
    BY <1>1, <2>1, <2>4, <2>5, PassDecides
<1> QED
  BY <1>2, <1>3 DEF decideSwept

(* The server spends what is swept, for the solver or back to the client: an output is spent once. *)
LEMMA OutputsSpent ==
  ASSUME FloatInv, UNCHANGED <<scene, row, late, pay>>, out' \in [Lockup -> {"none", "held", "lapsed", "swept"} \cup FinalOut],
         \A s \in Lockup : out'[s] = out[s] \/ (Unspent(s) /\ (out'[s] \in FinalOut \/ (out[s] # "none" /\ Unspent(s)'))),
         out'["send"] = "refunded" => out["send"] = "refunded" \/ ForNothing
  PROVE  LandMoves
<1>1. LandTypes' /\ PaymentHasRow'
  BY DEF LandTypes, FloatInv, FloatTypes, PaymentHasRow
<1>2. ASSUME NEW s \in Lockup PROVE RowMoves(s) /\ OutMoves(s)
  BY <1>2 DEF RowMoves, OutMoves, Unspent, FinalOut
<1>3. PaidFirst'
  <2>1. \A s \in Lockup : out'[s] = "none" => out[s] = "none"
    BY DEF Unspent, FinalOut
  <2>2. out["receive"] \in FinalOut \cup {"none"} => out'["receive"] = out["receive"]
    BY DEF Unspent, FinalOut, Lockup
  <2> QED
    BY <2>1, <2>2 DEF FloatInv, PaidFirst
<1> QED
  BY <1>1, <1>2, <1>3 DEF LandMoves, ForNothing

LEMMA RecoverKeepsInv ==
  ASSUME FloatInv, recoverVtxos
  PROVE  FloatInv'
<1>1. UNCHANGED <<scene, row, late, pay, contract, book, operator, day>> /\ EndPass
  BY DEF recoverVtxos
<1>2. out' = out \/ out' = [s \in Lockup |-> IF s \in Recoverable THEN "recovered" ELSE out[s]]
  BY DEF recoverVtxos
<1>3. \A s \in Lockup : s \in Recoverable => Unspent(s)
  BY DEF Recoverable, Unspent, Lockup
<1>4. LandMoves
  BY <1>1, <1>2, <1>3, OutputsSpent DEF FloatInv, FloatTypes, FinalOut, Unspent, Lockup
<1> QED
  BY <1>1, <1>4, PassEnds, PassKeepsInv

LEMMA RefundSweptKeepsInv ==
  ASSUME FloatInv, refundSwept
  PROVE  FloatInv'
<1>1. UNCHANGED <<scene, row, late, pay, contract, book, operator, day>> /\ pass.at = "batch"
  BY DEF refundSwept
<1>2. CASE EndPass /\ out' = out
  BY <1>1, <1>2, LandStill, PassEnds, PassKeepsInv
<1>3. CASE out["send"] = "swept" /\ out' = [out EXCEPT !["send"] = "refunded"] /\ pass' = [pass EXCEPT !.at = "record"]
  <2>1. /\ pass' \in PassRec /\ pass'.at = "record" /\ pass'.reason = pass.reason /\ pass'.read = pass.read
    BY <1>3, PassGoes
  <2>2. ForNothing
    BY <1>1 DEF FloatInv, GivenBackForNothing
  <2>3. LandMoves
    BY <1>1, <1>3, <2>2, OutputsSpent DEF FloatInv, FloatTypes, FinalOut, Unspent, Lockup
  <2>4. ListStands'
    BY <2>1 DEF ListStands
  <2>5. GivenBackForNothing'
    BY <1>1, <2>1, <2>2 DEF FloatInv, GivenBackForNothing, ForNothing
  <2>6. DeskTypes'
    BY <1>1, <2>1 DEF DeskTypes, ContractTypes, FloatInv, FloatTypes
  <2> QED
    BY <1>1, <2>3, <2>4, <2>5, <2>6, LandLeavesBook, FloatParts
<1> QED
  BY <1>2, <1>3 DEF refundSwept, Going

LEMMA RecordSweptKeepsInv ==
  ASSUME FloatInv, recordSwept
  PROVE  FloatInv'
<1>1. UNCHANGED <<scene, row, out, late, pay, contract, book, operator, day>> /\ pass.at = "record"
  BY DEF recordSwept
<1>2. CASE EndPass
  BY <1>1, <1>2, LandStill, PassEnds, PassKeepsInv
<1>3. CASE pass.reason /\ pass' = [pass EXCEPT !.at = "close"]
  <2>1. /\ pass' \in PassRec /\ pass'.at = "close" /\ pass'.read = pass.read
    BY <1>3, PassGoes
  <2>2. pay = "returned" /\ pass.read \in RECONCILABLE_SWEPT_STATES
    BY <1>1, <1>3 DEF FloatInv, GivenBackForNothing
  <2>3. ListStands' /\ GivenBackForNothing'
    BY <1>1, <2>1, <2>2 DEF FloatInv, GivenBackForNothing, ForNothing, ListStands
  <2> QED
    BY <1>1, <2>1, <2>3, PassDecides
<1> QED
  BY <1>2, <1>3 DEF recordSwept, Going

(* A row is refused when no payment of it may land. *)
LEMMA RowIsRefused ==
  ASSUME FloatInv, UNCHANGED <<scene, out, late, pay>>, row' = [row EXCEPT !["send"] = "refused"],
         row["send"] \in SendState \ {"claimed"}, pay \notin {"pending", "settled"}
  PROVE  LandMoves
<1>1. row'["send"] = "refused" /\ row'["receive"] = row["receive"] /\ row' \in [Lockup -> SendState \cup {"none", "open", "ended"}]
  BY DEF FloatInv, FloatTypes, Lockup, SendState
<1>2. LandTypes' /\ PaymentHasRow' /\ PaidFirst'
  BY <1>1 DEF LandTypes, FloatInv, FloatTypes, PaymentHasRow, PaidFirst, Lockup, SendState
<1>3. \A s \in Lockup : RowMoves(s) /\ OutMoves(s)
  BY <1>1 DEF RowMoves, OutMoves, Unspent, FinalRow, RowOpen, Lockup, SendState
<1> QED
  BY <1>1, <1>2, <1>3 DEF LandMoves, ForNothing

LEMMA CloseSweptKeepsInv ==
  ASSUME FloatInv, closeSwept
  PROVE  FloatInv'
<1>1. UNCHANGED <<scene, out, late, pay, contract, book, operator, day>> /\ EndPass /\ pay = "returned" /\ pass.read \in RECONCILABLE_SWEPT_STATES
  BY DEF closeSwept, FloatInv, GivenBackForNothing
<1>2. LandMoves
  <2>1. CASE row' = row
    BY <1>1, <2>1, LandStill
  <2>2. CASE row["send"] = pass.read /\ row' = [row EXCEPT !["send"] = "refused"]
    BY <1>1, <2>2, RowIsRefused DEF RECONCILABLE_SWEPT_STATES, SendState
  <2> QED
    BY <2>1, <2>2 DEF closeSwept
<1> QED
  BY <1>1, <1>2, PassEnds, PassKeepsInv

(* A send row moves on. *)
LEMMA SendRowMoves ==
  ASSUME FloatInv, UNCHANGED <<scene, out, late, pay>>, NEW to \in SendState, row' = [row EXCEPT !["send"] = to],
         row["send"] \in SendState \ FinalRow, row["send"] \in RowOpen => to \in RowOpen,
         out["send"] = "none" => to = "refused", pay \in {"pending", "settled"} => to \in {"paying", "paid", "stuck", "claiming", "claimed"}
  PROVE  LandMoves
<1>1. row'["send"] = to /\ row'["receive"] = row["receive"] /\ row' \in [Lockup -> SendState \cup {"none", "open", "ended"}]
  BY DEF FloatInv, FloatTypes, Lockup
<1>2. LandTypes' /\ PaymentHasRow' /\ PaidFirst'
  BY <1>1 DEF LandTypes, FloatInv, FloatTypes, PaymentHasRow, PaidFirst, Lockup
<1>3. \A s \in Lockup : RowMoves(s) /\ OutMoves(s)
  BY <1>1 DEF RowMoves, OutMoves, Unspent, FinalRow, Lockup
<1> QED
  BY <1>1, <1>2, <1>3 DEF LandMoves

LEMMA SendTickKeepsInv ==
  ASSUME FloatInv, SendTick
  PROVE  FloatInv'
<1>1. UNCHANGED <<scene, late, contract, book, pass, operator, day>>
  BY DEF SendTick, office
<1>2. row["send"] \in {"quoted", "funded"} => pay \notin {"pending", "settled"}
  BY DEF FloatInv, PaymentHasRow
<1>3. CASE \E to \in SendState :
             /\ SendMoves(to) /\ UNCHANGED <<out, pay>>
             /\ \/ row["send"] = "quoted" /\ out["send"] = "held" /\ to = "funded"
                \/ row["send"] \in {"quoted", "funded"} /\ to = "refused"
                \/ row["send"] = "funded" /\ out["send"] = "held" /\ to = "paying"
                \/ row["send"] = "paying" /\ pay = "settled" /\ to = "paid"
                \/ row["send"] \in {"paying", "paid"} /\ to = "stuck"
                \/ row["send"] \in {"paying", "paid"} /\ pay = "returned" /\ to = "refused"
                \/ row["send"] \in {"paid", "stuck"} /\ out["send"] = "held" /\ to = "claiming"
                \/ row["send"] = "claiming" /\ to = "stuck"
  <2>1. PICK to \in SendState :
             /\ SendMoves(to) /\ UNCHANGED <<out, pay>>
             /\ \/ row["send"] = "quoted" /\ out["send"] = "held" /\ to = "funded"
                \/ row["send"] \in {"quoted", "funded"} /\ to = "refused"
                \/ row["send"] = "funded" /\ out["send"] = "held" /\ to = "paying"
                \/ row["send"] = "paying" /\ pay = "settled" /\ to = "paid"
                \/ row["send"] \in {"paying", "paid"} /\ to = "stuck"
                \/ row["send"] \in {"paying", "paid"} /\ pay = "returned" /\ to = "refused"
                \/ row["send"] \in {"paid", "stuck"} /\ out["send"] = "held" /\ to = "claiming"
                \/ row["send"] = "claiming" /\ to = "stuck"
    BY <1>3
  <2>2. row["send"] \in SendState \ FinalRow /\ (row["send"] \in RowOpen => to \in RowOpen)
    BY <2>1 DEF SendState, FinalRow, RowOpen
  <2>3. out["send"] = "none" => to = "refused"
    BY <2>1 DEF FloatInv, PaidFirst, Lockup
  <2>4. pay \in {"pending", "settled"} => to \in {"paying", "paid", "stuck", "claiming", "claimed"}
    BY <1>2, <2>1
  <2>5. LandMoves
    BY <1>1, <2>1, <2>2, <2>3, <2>4, SendRowMoves DEF SendMoves
  <2> QED
    BY <1>1, <2>5, LandKeepsInv
<1>4. CASE row["send"] = "paying" /\ pay = "none" /\ pay' = "pending" /\ UNCHANGED <<row, out>>
  <2>1. LandTypes' /\ PaymentHasRow' /\ PaidFirst'
    BY <1>1, <1>4 DEF LandTypes, FloatInv, FloatTypes, PaymentHasRow, PaidFirst
  <2>2. \A s \in Lockup : RowMoves(s) /\ OutMoves(s)
    BY <1>1, <1>4 DEF RowMoves, OutMoves, Unspent
  <2>3. LandMoves
    BY <1>1, <1>4, <2>1, <2>2 DEF LandMoves, RowOpen, FinalRow
  <2> QED
    BY <1>1, <2>3, LandKeepsInv
<1>5. CASE row["send"] = "claiming" /\ out["send"] = "held" /\ SendMoves("claimed") /\ out' = [out EXCEPT !["send"] = "claimed"] /\ pay' = pay
  <2>1. row'["send"] = "claimed" /\ row'["receive"] = row["receive"] /\ row' \in [Lockup -> SendState \cup {"none", "open", "ended"}]
    BY <1>5 DEF FloatInv, FloatTypes, Lockup, SendState, SendMoves
  <2>2. out'["send"] = "claimed" /\ out'["receive"] = out["receive"] /\ out' \in [Lockup -> {"none", "held", "lapsed", "swept"} \cup FinalOut]
    BY <1>5 DEF FloatInv, FloatTypes, Lockup, FinalOut
  <2>3. LandTypes' /\ PaymentHasRow' /\ PaidFirst'
    BY <1>1, <1>5, <2>1, <2>2 DEF LandTypes, FloatInv, FloatTypes, PaymentHasRow, PaidFirst, Lockup, SendState
  <2>4. \A s \in Lockup : RowMoves(s) /\ OutMoves(s)
    BY <1>1, <1>5, <2>1, <2>2 DEF RowMoves, OutMoves, Unspent, FinalRow, RowOpen, FinalOut, Lockup
  <2>5. LandMoves
    BY <1>1, <1>5, <2>2, <2>3, <2>4 DEF LandMoves
  <2> QED
    BY <1>1, <2>5, LandKeepsInv
<1>6. CASE row["send"] = "refused" /\ out["send"] = "held" /\ out' = [out EXCEPT !["send"] = "refunded"] /\ UNCHANGED <<row, pay>>
  <2>1. LandMoves
    BY <1>1, <1>6, OutputsSpent DEF FloatInv, FloatTypes, FinalOut, Unspent, Lockup, ForNothing
  <2> QED
    BY <1>1, <2>1, LandKeepsInv
<1> QED
  BY <1>3, <1>4, <1>5, <1>6 DEF SendTick, SendState

LEMMA ReceiveEndsKeepsInv ==
  ASSUME FloatInv, ReceiveEnds
  PROVE  FloatInv'
<1>1. UNCHANGED <<scene, late, pay, contract, book, pass, operator, day>> /\ row["receive"] = "open"
  BY DEF ReceiveEnds, office
<1>2. row'["receive"] = "ended" /\ row'["send"] = row["send"] /\ row' \in [Lockup -> SendState \cup {"none", "open", "ended"}]
  BY DEF ReceiveEnds, FloatInv, FloatTypes, Lockup
<1>3. /\ out' \in [Lockup -> {"none", "held", "lapsed", "swept"} \cup FinalOut] /\ out'["send"] = out["send"]
      /\ out'["receive"] \in FinalOut /\ (out'["receive"] = out["receive"] \/ out["receive"] = "held")
  BY DEF ReceiveEnds, FloatInv, FloatTypes, Lockup, FinalOut
<1>4. LandTypes' /\ PaymentHasRow' /\ PaidFirst'
  BY <1>1, <1>2, <1>3 DEF LandTypes, FloatInv, FloatTypes, PaymentHasRow, PaidFirst, Lockup, FinalOut
<1>5. \A s \in Lockup : RowMoves(s) /\ OutMoves(s)
  BY <1>1, <1>2, <1>3 DEF RowMoves, OutMoves, Unspent, FinalRow, RowOpen, FinalOut, Lockup
<1>6. LandMoves
  BY <1>1, <1>2, <1>3, <1>4, <1>5 DEF LandMoves
<1> QED
  BY <1>1, <1>6, LandKeepsInv

(* An output paid after its contract could be deleted is late. *)
LEMMA ClientFundsKeepsInv ==
  ASSUME FloatInv, ClientFunds
  PROVE  FloatInv'
<1>1. UNCHANGED <<scene, row, pay, contract, book, pass, operator, day>> /\ out["send"] = "none"
  BY DEF ClientFunds, office
<1>2. out'["send"] = "held" /\ out'["receive"] = out["receive"] /\ out' \in [Lockup -> {"none", "held", "lapsed", "swept"} \cup FinalOut]
  BY DEF ClientFunds, FloatInv, FloatTypes, Lockup
<1>3. late \subseteq late' /\ late' \subseteq Lockup /\ (Kept("send") \/ contract["send"].watch = "deleted" => "send" \in late')
  BY DEF ClientFunds, FloatInv, FloatTypes, Lockup
<1>4. LandTypes' /\ PaymentHasRow' /\ PaidFirst'
  BY <1>1, <1>2, <1>3 DEF LandTypes, FloatInv, FloatTypes, PaymentHasRow, PaidFirst, Lockup, FinalOut
<1>5. \A s \in Lockup : RowMoves(s) /\ OutMoves(s)
  BY <1>1, <1>2, <1>3 DEF RowMoves, OutMoves, Unspent, FinalOut, Lockup
<1>6. LandMoves
  BY <1>1, <1>2, <1>3, <1>4, <1>5 DEF LandMoves
<1> QED
  BY <1>1, <1>6, LandKeepsInv

LEMMA OutsideSpendsKeepInv ==
  ASSUME FloatInv, ClientClaims \/ ClientReclaims \/ (\E s \in Lockup : Sweep(s))
  PROVE  FloatInv'
<1>1. UNCHANGED <<scene, row, late, pay, contract, book, pass, operator, day>>
  BY DEF ClientClaims, ClientReclaims, Sweep, office
<1>2. \E s \in Lockup, to \in {"lapsed", "swept", "claimed", "reclaimed"} :
        out[s] \in {"held", "lapsed", "swept"} /\ out' = [out EXCEPT ![s] = to]
  BY DEF ClientClaims, ClientReclaims, Sweep, Lockup
<1>3. LandMoves
  BY <1>1, <1>2, OutputsSpent DEF FloatInv, FloatTypes, FinalOut, Unspent, Lockup
<1> QED
  BY <1>1, <1>3, LandKeepsInv

LEMMA PayResolvesKeepsInv ==
  ASSUME FloatInv, PayResolves
  PROVE  FloatInv'
<1>1. UNCHANGED <<scene, row, out, late, contract, book, pass, operator, day>> /\ pay = "pending" /\ pay' \in {"settled", "returned"}
  BY DEF PayResolves, office
<1>2. LandTypes' /\ PaymentHasRow' /\ PaidFirst'
  BY <1>1 DEF LandTypes, FloatInv, FloatTypes, PaymentHasRow, PaidFirst
<1>3. \A s \in Lockup : RowMoves(s) /\ OutMoves(s)
  BY <1>1 DEF RowMoves, OutMoves, Unspent
<1>4. LandMoves
  BY <1>1, <1>2, <1>3 DEF LandMoves
<1> QED
  BY <1>1, <1>4, LandKeepsInv

LEMMA OperatorReadsKeepsInv ==
  ASSUME FloatInv, refundNowReads
  PROVE  FloatInv'
<1>1. /\ UNCHANGED <<scene, row, out, late, pay, contract, book, pass, day>> /\ operator' = row["send"]
      /\ row["send"] \in {"quoted", "funded", "stuck", "refused"}
  BY DEF refundNowReads, shop
<1>2. pay \in {"none", "returned"}
  BY DEF refundNowReads, paymentVerdict, FloatInv, FloatTypes
<1>3. DeskTypes'
  BY <1>1 DEF DeskTypes, ContractTypes, FloatInv, FloatTypes, SendState
<1>4. GivenBackForNothing'
  BY <1>1, <1>2 DEF FloatInv, GivenBackForNothing, ForNothing, RowOpen, FinalRow
<1> QED
  BY <1>1, <1>3, <1>4, LandStill, LandLeavesBook, LandLeavesList, FloatParts

(* The row is taken in the state the operator read, so nothing was paid in between. *)
LEMMA ClaimRefundKeepsInv ==
  ASSUME FloatInv, claimRefund
  PROVE  FloatInv'
<1>1. UNCHANGED <<scene, out, late, pay, contract, book, pass, day>> /\ operator \in {"quoted", "funded", "stuck", "refused"}
  BY DEF claimRefund, shop, FloatInv, GivenBackForNothing
<1>2. CASE operator' = "idle" /\ row' = row
  <2>1. DeskTypes'
    BY <1>1, <1>2 DEF DeskTypes, ContractTypes, FloatInv, FloatTypes
  <2>2. GivenBackForNothing'
    BY <1>1, <1>2 DEF FloatInv, GivenBackForNothing, ForNothing, SendState
  <2> QED
    BY <1>1, <1>2, <2>1, <2>2, LandStill, LandLeavesBook, LandLeavesList, FloatParts
<1>3. CASE row["send"] = operator /\ row' = [row EXCEPT !["send"] = "refused"] /\ operator' = "push"
  <2>1. pay \notin {"pending", "settled"}
    BY <1>1, <1>3 DEF FloatInv, PaymentHasRow, GivenBackForNothing
  <2>2. LandMoves
    BY <1>1, <1>3, <2>1, RowIsRefused DEF SendState
  <2>3. DeskTypes'
    BY <1>1, <1>3 DEF DeskTypes, ContractTypes, FloatInv, FloatTypes
  <2>4. row'["send"] = "refused"
    BY <1>3 DEF FloatInv, FloatTypes, Lockup
  <2>5. GivenBackForNothing'
    BY <1>1, <1>3, <2>4 DEF FloatInv, GivenBackForNothing, ForNothing, SendState
  <2> QED
    BY <1>1, <2>2, <2>3, <2>5, LandLeavesBook, LandLeavesList, FloatParts
<1> QED
  BY <1>2, <1>3 DEF claimRefund

LEMMA PushRefundKeepsInv ==
  ASSUME FloatInv, pushRefund
  PROVE  FloatInv'
<1>1. /\ UNCHANGED <<scene, row, late, pay, contract, book, pass, day>> /\ operator' = "idle" /\ row["send"] = "refused"
      /\ out' = out \/ (Unspent("send") /\ out' = [out EXCEPT !["send"] = "refunded"])
  BY DEF pushRefund, shop, FloatInv, GivenBackForNothing
<1>2. LandMoves
  BY <1>1, LandStill, OutputsSpent DEF FloatInv, FloatTypes, FinalOut, Unspent, Lockup, ForNothing
<1>3. DeskTypes'
  BY <1>1 DEF DeskTypes, ContractTypes, FloatInv, FloatTypes
<1>4. GivenBackForNothing'
  BY <1>1 DEF FloatInv, GivenBackForNothing, ForNothing, SendState
<1> QED
  BY <1>1, <1>2, <1>3, <1>4, LandLeavesBook, LandLeavesList, FloatParts

(* The rest moves coins, deposits, callers and the day. *)
LEMMA DayKeepsInv ==
  ASSUME FloatInv, UNCHANGED <<scene, row, out, late, pay, contract, book, pass, operator>>,
         day' = day \/ (day' = day + 1 /\ day < MaxDay)
  PROVE  FloatInv'
<1>1. day \in Int /\ MaxDay \in Int /\ Retention \in Int /\ OpensAt + MtpMargin \in Int
  BY FloatAssumption DEF FloatInv, FloatTypes
<1>2. ASSUME NEW s \in Lockup, Kept(s) PROVE Kept(s)'
  <2>1. contract[s].since \in Int
    BY DEF FloatInv, FloatTypes
  <2> QED
    BY <1>1, <1>2, <2>1 DEF Kept
<1>3. RetiresWhatIsOver'
  BY <1>2 DEF FloatInv, RetiresWhatIsOver, Over, Unspent
<1>4. ListStands'
  BY <1>1 DEF FloatInv, ListStands
<1>5. DeskTypes'
  BY <1>1 DEF DeskTypes, ContractTypes, FloatInv, FloatTypes
<1> QED
  BY <1>3, <1>4, <1>5, LandStill, LandLeavesRefund, FloatParts

LEMMA FloatCrashKeepsInv ==
  ASSUME FloatInv, FloatCrash
  PROVE  FloatInv'
<1>1. /\ UNCHANGED <<scene, row, out, late, pay, contract, day>> /\ book' = NoBook /\ pass' = NoPass /\ operator' = "idle"
  BY DEF FloatCrash
<1>2. /\ NoBook \in BookRec /\ NoBook.at = "idle"
      /\ NoBook.live = {} /\ NoBook.register = {} /\ NoBook.disable = {} /\ NoBook.delete = {}
  BY DEF NoBook, BookRec
<1>3. NoPass \in PassRec /\ NoPass.at = "idle"
  BY DEF NoPass, PassRec
<1>4. RetiresWhatIsOver'
  BY <1>1, <1>2 DEF FloatInv, RetiresWhatIsOver, Over, Unspent
<1>5. GivenBackForNothing' /\ ListStands'
  BY <1>1, <1>3 DEF FloatInv, GivenBackForNothing, ForNothing, ListStands, SendState
<1>6. DeskTypes'
  BY <1>1, <1>2, <1>3 DEF DeskTypes, ContractTypes, FloatInv, FloatTypes
<1> QED
  BY <1>1, <1>4, <1>5, <1>6, LandStill, FloatParts

LEMMA FloatInvInit ==
  ASSUME FloatInit
  PROVE  FloatInv
<1>1. scene \in SceneType /\ scene.start \in SendState
  BY ScenesAssumption DEF FloatInit, SceneType
<1>2. row["send"] \in SendState \cup {"none"} /\ row["receive"] \in {"none", "open"} /\ row \in [Lockup -> SendState \cup {"none", "open", "ended"}]
  BY <1>1 DEF FloatInit, Lockup
<1>3. /\ \A s \in Lockup : out[s] = IF row[s] \in {"none", "quoted", "refused"} THEN "none" ELSE "held"
      /\ out \in [Lockup -> {"none", "held", "lapsed", "swept"} \cup FinalOut]
  BY DEF FloatInit
<1>4. /\ NoBook \in BookRec /\ NoBook.at = "idle"
      /\ NoBook.live = {} /\ NoBook.register = {} /\ NoBook.disable = {} /\ NoBook.delete = {}
  BY DEF NoBook, BookRec
<1>5. NoPass \in PassRec /\ NoPass.at = "idle"
  BY DEF NoPass, PassRec
<1>6. \A s \in Lockup : contract[s] = Absent /\ Absent.watch = "none"
  BY DEF FloatInit, Absent
<1>7. contract \in [Lockup -> [watch : {"none", "watched", "retained", "deleted"}, since : Int]]
  BY DEF FloatInit, Absent
<1>8. FloatTypes
  BY <1>1, <1>2, <1>3, <1>4, <1>5, <1>7 DEF FloatInit, FloatTypes
<1>9. PaymentHasRow /\ PaidFirst
  BY <1>2, <1>3 DEF FloatInit, PaymentHasRow, PaidFirst, Lockup
<1>10. GivenBackForNothing /\ ListStands
  BY <1>3, <1>5 DEF FloatInit, GivenBackForNothing, ListStands, Lockup, SendState
<1>11. RetiresWhatIsOver
  BY <1>4, <1>6 DEF FloatInit, RetiresWhatIsOver
<1> QED
  BY <1>8, <1>9, <1>10, <1>11 DEF FloatInv

LEMMA FloatInvNext ==
  ASSUME FloatInv, [FloatNext]_floatVars
  PROVE  FloatInv'
<1>1. CASE Adopt \/ CadenceFires \/ endBook
  <2>1. CASE beginBook \/ endBook
    BY <2>1, EmptyBook DEF beginBook, endBook, ground
  <2>2. CASE UNCHANGED <<ground, contract, book, pass, operator, day>>
    BY <2>2, DayKeepsInv DEF ground
  <2> QED
    BY <1>1, <2>1, <2>2 DEF Adopt, CadenceFires
<1>2. CASE BookStep
  BY <1>1, <1>2, ReadLiveKeepsInv, SnapshotKeepsInv, ApplyKeepsInv DEF BookStep
<1>3. CASE PassStep
  BY <1>3, PassMovesKeepInv, ListKeepsInv, RowsKeepInv, GuardKeepsInv, RecoverKeepsInv, FindSweptKeepsInv,
     DecideSweptKeepsInv, RefundSweptKeepsInv, RecordSweptKeepsInv, CloseSweptKeepsInv DEF PassStep
<1>4. CASE refundNowReads \/ claimRefund \/ pushRefund \/ SendTick \/ ReceiveEnds
  BY <1>4, OperatorReadsKeepsInv, ClaimRefundKeepsInv, PushRefundKeepsInv, SendTickKeepsInv, ReceiveEndsKeepsInv
<1>5. CASE ClientFunds \/ ClientClaims \/ ClientReclaims \/ PayResolves \/ (\E s \in Lockup : Sweep(s))
  BY <1>5, ClientFundsKeepsInv, OutsideSpendsKeepInv, PayResolvesKeepsInv
<1>6. CASE AdminFires \/ CoinAges \/ FundingHolds \/ FundingEnds \/ DepositMoves \/ NextDay
  BY <1>6, DayKeepsInv DEF AdminFires, CoinAges, FundingHolds, FundingEnds, DepositMoves, NextDay, yard, ground
<1>7. CASE UNCHANGED floatVars
  BY <1>7, DayKeepsInv DEF floatVars
<1> QED
  BY <1>1, <1>2, <1>3, <1>4, <1>5, <1>6, <1>7, FloatCrashKeepsInv DEF FloatNext

(* Contracts are retired for what is over, and lockups given back for nothing paid. *)
THEOREM FloatInvariant == FloatSpec => []FloatInv
<1>1. FloatInit => FloatInv
  BY FloatInvInit
<1>2. FloatInv /\ [FloatNext]_floatVars => FloatInv'
  BY FloatInvNext
<1> QED
  BY <1>1, <1>2, PTL DEF FloatSpec

(* No lockup is given back over a payment that landed or may land, no contract is deleted under an output paid in time *)
(* nor retired under a live swap, and recovery is not begun with a swept lockup it cannot sign: for any situation, any *)
(* retention, margins and back-off, and any number of failed calls and crashes.                                       *)
THEOREM FloatSafe == FloatSpec => []FloatIsSafe
<1>1. FloatInv => FloatIsSafe
  <2> SUFFICES ASSUME FloatInv PROVE FloatIsSafe
    OBVIOUS
  <2>1. NeverBoth
    BY DEF NeverBoth, FloatInv, GivenBackForNothing, ForNothing, PaymentHasRow
  <2>2. ContractsAreKept
    BY DEF ContractsAreKept, FloatInv, RetiresWhatIsOver
  <2>3. LiveIsWatched
    <3>1. ASSUME NEW s \in Lockup, LiveRow(s), Unspent(s) PROVE ~Over(s)
      BY <3>1 DEF LiveRow, Unspent, Over, SendLive, FinalRow, FinalOut
    <3> QED
      BY <3>1 DEF LiveIsWatched, FloatInv, FloatTypes, RetiresWhatIsOver
  <2>4. GuardHolds
    <3>1. ASSUME pass.at = "recover", NEW x \in pass.listed, x[2], x[1] \in Recoverable PROVE Signable(x[1])
      <4>1. CASE x[1] = "send"
        <5>1. Registered("send") /\ out["send"] \in {"lapsed", "swept"}
          BY <3>1, <4>1 DEF Recoverable
        <5>2. out["send"] \in FinalOut \/ contract["send"].watch = "deleted"
          BY <3>1, <4>1 DEF FloatInv, ListStands
        <5> QED
          BY <5>1, <5>2 DEF Registered, FinalOut
      <4>2. CASE x[1] = "receive"
        <5>1. out["receive"] \in {"lapsed", "swept"}
          BY <3>1, <4>2 DEF Recoverable
        <5>2. row["receive"] \notin {"none", "ended"}
          BY <5>1 DEF FloatInv, PaidFirst, FinalOut
        <5> QED
          BY <3>1, <4>2, <5>2 DEF FloatInv, ListStands, Signable
      <4>3. CASE x[1] = "coin"
        BY <4>3 DEF Signable
      <4> QED
        BY <3>1, <4>1, <4>2, <4>3 DEF Recoverable, Lockup
    <3> QED
      BY <3>1 DEF GuardHolds
  <2> QED
    BY <2>1, <2>2, <2>3, <2>4 DEF FloatIsSafe
<1> QED
  BY <1>1, FloatInvariant, PTL
=============================================================================
