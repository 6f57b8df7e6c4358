---------------------------- MODULE RelayIngress ----------------------------
(***************************************************************************)
(* How requests reach the solver and answers leave it: one outbound socket  *)
(* to a relay (relay/connection.ts) that reconnects and asks for what it    *)
(* missed, the handlers (ingress/relay.ts, ingress/rfq.ts) that answer a    *)
(* request by quoting or by telling an earlier quote again                  *)
(* (corridors/rfq.ts), and the solver's card, kept current on the relay     *)
(* (relay/adPublisher.ts).  Quoting itself is one step here: QuoteAdmission *)
(* is about its inside.                                                     *)
(*                                                                          *)
(* The relay keeps what it is given and sends it in any order.  Time is in  *)
(* seconds, the resolution of the wire; the back-off between attempts is    *)
(* left out.                                                                *)
(***************************************************************************)
EXTENDS Integers, Sequences, FiniteSets, FiniteSetsExt, SequencesExt

CONSTANTS
  Loads,            \* what a behaviour brings: requests [rfq, hash, client, ahead, kind], dated so far ahead of now, and cards
  MaxHandlers,      \* maxConcurrentHandlers
  MaxQueued,        \* maxQueuedEvents
  MaxPending,       \* MAX_PENDING_EVENTS
  Overlap,          \* RESUME_OVERLAP_MS
  MaxReplay,        \* MAX_REPLAY_MS
  Heartbeat,        \* AD_HEARTBEAT_SECONDS
  LastSecond, MaxDrops \* bounds on the clock and on lost connections and failed calls

(* A request is dated no further back than the overlap and the replay reach: they are there to absorb the clocks of others. *)
ASSUME RelayAssumption ==
  /\ {MaxHandlers, MaxPending} \subseteq Nat \ {0} /\ {MaxQueued, Overlap, MaxReplay} \subseteq Nat
  /\ \A l \in Loads : \A r \in l.requests : r.ahead \in Int /\ r.ahead >= -Overlap /\ r.ahead >= -MaxReplay

VARIABLES
  load,             \* what this behaviour brings
  socket,           \* "connecting", "open", "down"
  since,            \* what the subscription asked for on this socket
  highWater,        \* highWaterMs
  stored,           \* the relay: requests it was given, with their stamps
  shown,            \* stored requests sent on this socket
  heard,            \* requests a handler took or the queue holds
  active,           \* handlers under way
  queue,            \* queuedHandlers
  pending,          \* answers waiting for a socket
  answers,          \* answers the relay has
  rows,             \* the swap table, by payment hash
  unsure,           \* requests nobody promises to hear: cut off while being sent, refused a place, or too old
  card, ad, adTask, \* the current card, the published one, publishing under way
  wireClock, drops

relayVars == <<load, socket, since, highWater, stored, shown, heard, active, queue, pending, answers, rows, unsure, card, ad, adTask, wireClock, drops>>
wire == <<load, socket, since, shown, heard, stored, unsure>>
ads == <<card, ad, adTask>>
NoCard == 0
NoRow == [rfq |-> 0, client |-> "none", state |-> "none"]
(* The subscription's own sinceMs: the moment it was made. *)
FloorSince == 1

RelayInit ==
  /\ load \in Loads /\ socket = "connecting" /\ since = FloorSince /\ highWater = 0 /\ stored = {} /\ shown = {} /\ heard = {} /\ active = {} /\ queue = <<>>
  /\ pending = <<>> /\ answers = {} /\ rows = [h \in {r.hash : r \in load.requests} |-> NoRow] /\ unsure = {}
  /\ card = NoCard /\ ad = [card |-> NoCard, at |-> 0] /\ adTask = NoCard /\ wireClock = FloorSince /\ drops = 0

-----------------------------------------------------------------------------
(* armFilter: resume from the newest event seen, less an overlap, never further back than the floor or the replay. *)
(* Mutant: resume right where the newest stamp left off. *)
armFilterExactly == Max({FloorSince, highWater, wireClock - MaxReplay})
armFilter == Max({FloorSince, highWater - Overlap, wireClock - MaxReplay})
(* On open: subscribe again, then everything that waited. *)
Open ==
  /\ socket = "connecting" /\ socket' = "open" /\ since' = armFilter /\ shown' = {}
  /\ answers' = answers \cup ToSet(pending) /\ pending' = <<>>
  /\ unsure' = unsure \cup {e \in stored : e.stamp < wireClock - MaxReplay}
  /\ UNCHANGED <<load, highWater, stored, heard, active, queue, rows, ads, wireClock, drops>>
Wanted(e) == e.stamp >= since
(* onDown: what the relay was still sending may be behind the cursor when it is asked again. *)
Down ==
  /\ socket # "down" /\ drops < MaxDrops /\ drops' = drops + 1 /\ socket' = "down"
  /\ unsure' = IF socket = "open" THEN unsure \cup {e \in stored \ shown : Wanted(e)} ELSE unsure
  /\ UNCHANGED <<load, since, highWater, stored, shown, heard, active, queue, pending, answers, rows, ads, wireClock>>
scheduleReconnect ==
  /\ socket = "down" /\ socket' = "connecting"
  /\ UNCHANGED <<load, since, highWater, stored, shown, heard, active, queue, pending, answers, rows, unsure, ads, wireClock, drops>>

(* The stamp is the sender's claim: it moves the cursor, but not past now. *)
StampedAt(e) == Min({e.stamp, wireClock})
(* A handler is told from the one of the same event sent again by the connection it came over. *)
Delivery(e) == [event |-> e, over |-> drops, stampedAt |-> StampedAt(e)]
Handler(d) == [event |-> d.event, over |-> d.over, pc |-> "read", answer |-> "none"]
dispatch(d, running) == active' = running \cup {Handler(d)} /\ highWater' = Max({highWater, d.stampedAt})
Receive(e) ==
  /\ socket = "open" /\ e \in stored \ shown /\ Wanted(e) /\ shown' = shown \cup {e}
  /\ IF Cardinality(active) < MaxHandlers THEN dispatch(Delivery(e), active) /\ heard' = heard \cup {e} /\ UNCHANGED <<queue, unsure>>
     ELSE /\ UNCHANGED <<active, highWater>>
          /\ IF Len(queue) < MaxQueued THEN queue' = Append(queue, Delivery(e)) /\ heard' = heard \cup {e} /\ unsure' = unsure
             ELSE unsure' = unsure \cup {e} /\ UNCHANGED <<queue, heard>>
  /\ UNCHANGED <<load, socket, since, stored, pending, answers, rows, ads, wireClock, drops>>

-----------------------------------------------------------------------------
(* respondToRfqRequest for one corridor: parse, look for the identifier, quote, or tell the quote again. *)
Answer(r, kind) == [rfq |-> r.rfq, hash |-> r.hash, client |-> r.client, kind |-> kind]
Move(h, pc, answer) == active' = (active \ {h}) \cup {[h EXCEPT !.pc = pc, !.answer = answer]}
Say(h, kind) == Move(h, "say", kind)
(* findByRfqId: an identifier used for other content. *)
Conflicts(r) == \E hash \in DOMAIN rows : hash # r.hash /\ rows[hash] # NoRow /\ rows[hash].rfq = r.rfq
respond(h) ==
  /\ h \in active /\ h.pc = "read"
  /\ IF h.event.kind = "malformed" THEN Say(h, "invalid")
     ELSE IF h.event.kind = "status" THEN Say(h, IF \E x \in DOMAIN rows : rows[x] # NoRow /\ rows[x].rfq = h.event.rfq THEN "status" ELSE "unknown")
     ELSE IF Conflicts(h.event) THEN Say(h, "refused") ELSE Move(h, "quote", "none")
  /\ UNCHANGED <<wire, highWater, queue, pending, answers, rows, ads, wireClock, drops>>
quote(h) ==
  /\ h \in active /\ h.pc = "quote"
  /\ IF rows[h.event.hash] = NoRow
       THEN /\ rows' = [rows EXCEPT ![h.event.hash] = [rfq |-> h.event.rfq, client |-> h.event.client, state |-> "quoted"]]
            /\ Say(h, "quote")
       ELSE rows' = rows /\ Move(h, "again", "none")
  /\ UNCHANGED <<wire, highWater, queue, pending, answers, ads, wireClock, drops>>
(* The quote of a swap nobody has paid into, told again to the client it was made for. *)
SameContent(r) == rows[r.hash].state = "quoted" /\ rows[r.hash].client = r.client
tellAgain(h) ==
  /\ h \in active /\ h.pc = "again" /\ Say(h, IF SameContent(h.event) THEN "quote" ELSE "refused")
  /\ UNCHANGED <<wire, highWater, queue, pending, answers, rows, ads, wireClock, drops>>
quoteThrows(h) ==
  /\ h \in active /\ h.pc \in {"read", "quote"} /\ drops < MaxDrops /\ drops' = drops + 1 /\ Say(h, "refused")
  /\ UNCHANGED <<wire, highWater, queue, pending, answers, rows, ads, wireClock>>

(* sendOrQueue: now, or when there is a socket; the oldest gives way. *)
sendOrQueue(answer) ==
  IF socket = "open" THEN answers' = answers \cup {answer} /\ pending' = pending
  ELSE /\ answers' = answers
       /\ pending' = IF Len(pending) < MaxPending THEN Append(pending, answer) ELSE Append(Tail(pending), answer)
(* An answer pushed out of the queue is as good as never given. *)
PushedOut == IF socket # "open" /\ Len(pending) >= MaxPending THEN {e \in stored : e.rfq = Head(pending).rfq} ELSE {}
(* finished: the next one in the queue takes the place. *)
publish(h) ==
  /\ h \in active /\ h.pc = "say" /\ sendOrQueue(Answer(h.event, h.answer)) /\ unsure' = unsure \cup PushedOut
  /\ IF queue = <<>> THEN active' = active \ {h} /\ UNCHANGED <<highWater, queue>>
     ELSE dispatch(Head(queue), active \ {h}) /\ queue' = Tail(queue)
  /\ UNCHANGED <<load, socket, since, shown, heard, stored, rows, ads, wireClock, drops>>

-----------------------------------------------------------------------------
(* publishIfDue, mode auto: build the card; send it when it differs from the last or the heartbeat is due. *)
Due == ad.card # NoCard /\ wireClock - ad.at >= Heartbeat
publishIfDue ==
  /\ socket = "open" /\ adTask = NoCard /\ (card # ad.card \/ Due) /\ adTask' = card
  /\ UNCHANGED <<wire, highWater, active, queue, pending, answers, rows, card, ad, wireClock, drops>>
(* send: only over a live socket, remembered when it went out. *)
sendCard ==
  /\ adTask # NoCard /\ adTask' = NoCard
  /\ ad' = IF socket = "open" THEN [card |-> adTask, at |-> wireClock] ELSE ad
  /\ UNCHANGED <<wire, highWater, active, queue, pending, answers, rows, card, wireClock, drops>>

-----------------------------------------------------------------------------
(* External: clients, the swaps, the market, the clock. *)
Ask(r) ==
  /\ \A e \in stored : e.rfq # r.rfq \/ e.hash # r.hash \/ e.client # r.client
  /\ stored' = stored \cup {[rfq |-> r.rfq, hash |-> r.hash, client |-> r.client, kind |-> r.kind, stamp |-> wireClock + r.ahead]}
  /\ UNCHANGED <<load, socket, since, shown, heard, unsure, highWater, active, queue, pending, answers, rows, ads, wireClock, drops>>
Fund(hash) ==
  /\ rows[hash].state = "quoted" /\ rows' = [rows EXCEPT ![hash].state = "funded"]
  /\ UNCHANGED <<wire, highWater, active, queue, pending, answers, ads, wireClock, drops>>
NewCard ==
  /\ card' \in {c \in load.cards : c > card}
  /\ UNCHANGED <<wire, highWater, active, queue, pending, answers, rows, ad, adTask, wireClock, drops>>
Second ==
  /\ wireClock < LastSecond /\ wireClock' = wireClock + 1
  /\ UNCHANGED <<wire, highWater, active, queue, pending, answers, rows, ads, drops>>

IngressStep == (\E h \in active : respond(h) \/ quote(h) \/ tellAgain(h) \/ publish(h))
SocketStep == Open \/ scheduleReconnect
CardStep == publishIfDue \/ sendCard
RelayNext ==
  \/ SocketStep \/ Down \/ IngressStep \/ CardStep
  \/ \E e \in stored : Receive(e)
  \/ \E h \in active : quoteThrows(h)
  \/ \E r \in load.requests : Ask(r) \/ Fund(r.hash)
  \/ NewCard \/ Second
RelaySpec == RelayInit /\ [][RelayNext]_relayVars

-----------------------------------------------------------------------------
(* A quote is only ever told to the client whose refund the swap pays, for the hash it is about. *)
QuotesReachTheirClient ==
  \A a \in answers \cup ToSet(pending) : a.kind = "quote" => rows[a.hash] # NoRow /\ rows[a.hash].client = a.client
(* The cursor never runs ahead of the clock, so that a reconnect asks for what is yet to come. *)
NeverDeaf == highWater <= wireClock
(* A request that reached the relay while the solver was away is asked for at the next connection. *)
MissedIsAskedFor ==
  socket = "open" => \A e \in stored \ (heard \cup unsure) : e.stamp >= FloorSince => Wanted(e)
BoundedWork == Cardinality(active) <= MaxHandlers /\ Len(queue) <= MaxQueued /\ Len(pending) <= MaxPending
IngressIsSound == QuotesReachTheirClient /\ NeverDeaf /\ MissedIsAskedFor /\ BoundedWork

(* Every request the relay holds is answered, and the card on the relay becomes the solver's. *)
Answered(e) == \E a \in answers : a.rfq = e.rfq /\ a.hash = e.hash /\ a.client = e.client
EveryRequestHeard == (\A e \in stored : e \in unsure \/ e.stamp < FloorSince \/ Answered(e)) /\ ad.card = card
=============================================================================
