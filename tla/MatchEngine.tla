---------------------------- MODULE MatchEngine ----------------------------
(***************************************************************************)
(* The matching engine of match/engine.c: an array of order structs that   *)
(* are allocated from a free list, one node per price with the queue of    *)
(* the orders at that price, a skip list of the nodes in use with pointers *)
(* to the best bid and ask, and a hash map of bins to find an order by id. *)
(* An order has one link, next_in_bin, for the free list and its bin.      *)
(*                                                                         *)
(* The static variables of the file are the record eng; its functions are  *)
(* operators on that record.  A call of limit is several steps, one for    *)
(* each pass of the loop in consume_node, because execution() is called    *)
(* back in between.                                                        *)
(***************************************************************************)
EXTENDS Integers, FiniteSets

CONSTANTS
  MaxPrice,    (* MAX_PRICE                                                *)
  MaxSize,     (* bound on the size of an order                            *)
  MaxId,       (* bound on the number of orders placed                     *)
  ListHeight,  (* LIST_HEIGHT: levels of the skip list                     *)
  MaxLive,     (* MAX_LIVE_ORDERS: structs in the array orders             *)
  MapSize,     (* MAP_SIZE: bins of id_map                                 *)
  Reserve,     (* bound: structs that stay free                            *)
  NULL,        (* the null pointer                                         *)
  NoOrder      (* no call of limit is in progress                          *)

ASSUME EngineBounds ==
  /\ MaxPrice \in Nat /\ MaxPrice >= 1 /\ MaxSize \in Nat /\ MaxId \in Nat
  /\ ListHeight \in Nat /\ ListHeight >= 1 /\ MaxLive \in Nat /\ MaxLive >= 1
  /\ MapSize \in Nat /\ MapSize >= 1 /\ Reserve \in Nat

VARIABLES
  eng,         (* the static variables of engine.c                         *)
  incoming,    (* the parameter data of the call of limit in progress      *)
  report       (* what the last step told execution(), or NoOrder          *)

vars == <<eng, incoming, report>>

Sides == {"bid", "ask"}
Order == [side : Sides, price : 1 .. MaxPrice, size : 0 .. MaxSize]
Slots == 0 .. MaxLive - 1
Levels == 0 .. ListHeight - 1
Bottom == 0
Top == MaxPrice + 1
Nodes == Bottom .. Top

(* No pointer is the null pointer, and no order the absence of a call.     *)
ASSUME NullAssumption == NULL \notin Slots \cup Nodes /\ NoOrder \notin Order

-----------------------------------------------------------------------------
(* The skip list.                                                          *)

(* Where the loop of a level stops that starts from a node: at the last    *)
(* before top_node whose price is at most the given one.                   *)
Walk(e, price, i) ==
  LET Goes(n) == /\ e.nexts[i][n] \notin {NULL, Top}
                 /\ e.nodes[e.nexts[i][n]].price <= price
      walk[n \in Nodes] == IF Goes(n) THEN walk[e.nexts[i][n]] ELSE n
  IN walk

(* The stop of every level; each starts from that of the level above.      *)
FindPlace(e, price) ==
  LET vector[i \in Levels] ==
        Walk(e, price, i)[IF i = ListHeight - 1 THEN Bottom ELSE vector[i + 1]]
  IN vector

(* Mutant: the links above the node's height are left as they are.         *)
AddToListStale(e, p, height) ==
  LET v == FindPlace(e, p)
      side == e.nodes[p].side
  IN [e EXCEPT
        !.nexts = [i \in Levels |->
           IF i < height THEN [e.nexts[i] EXCEPT ![p] = e.nexts[i][v[i]], ![v[i]] = p]
                         ELSE e.nexts[i]],
        !.prevs = [i \in Levels |->
           IF i < height THEN [e.prevs[i] EXCEPT ![p] = v[i], ![e.nexts[i][v[i]]] = p]
                         ELSE e.prevs[i]],
        !.bestAsk = IF side = "ask" /\ (@ = Top \/ p < e.nodes[@].price) THEN p ELSE @,
        !.bestBid = IF side = "bid" /\ (@ = Bottom \/ p > e.nodes[@].price) THEN p ELSE @]

(* Mutant: only the first node of a side becomes the best.                 *)
AddToListFirstBest(e, p, height) ==
  LET g == AddToListStale(e, p, height)
      empty(side) == {q \in 1 .. MaxPrice : e.nodes[q].price # 0 /\ e.nodes[q].side = side} = {p}
  IN [g EXCEPT !.bestBid = IF empty("bid") THEN @ ELSE e.bestBid,
               !.bestAsk = IF empty("ask") THEN @ ELSE e.bestAsk]

(* The height is random: the loop goes on with probability 1/4.            *)
AddToList(e, p, height) ==
  LET v == FindPlace(e, p)
      side == e.nodes[p].side
  IN [e EXCEPT
        !.nexts = [i \in Levels |->
           IF i < height THEN [e.nexts[i] EXCEPT ![p] = e.nexts[i][v[i]], ![v[i]] = p]
                         ELSE [e.nexts[i] EXCEPT ![p] = NULL]],
        !.prevs = [i \in Levels |->
           IF i < height THEN [e.prevs[i] EXCEPT ![p] = v[i], ![e.nexts[i][v[i]]] = p]
                         ELSE [e.prevs[i] EXCEPT ![p] = NULL]],
        !.bestAsk = IF side = "ask" /\ (@ = Top \/ p < e.nodes[@].price) THEN p ELSE @,
        !.bestBid = IF side = "bid" /\ (@ = Bottom \/ p > e.nodes[@].price) THEN p ELSE @]

(* Mutant: the links of the removed node are cleared before the best moves.*)
RemoveFromListClearing(e, p) ==
  [e EXCEPT
     !.nodes = [@ EXCEPT ![p].price = 0],
     !.nexts = [i \in Levels |->
        IF e.prevs[i][p] = NULL THEN e.nexts[i]
        ELSE [e.nexts[i] EXCEPT ![e.prevs[i][p]] = e.nexts[i][p], ![p] = NULL]],
     !.prevs = [i \in Levels |->
        IF e.nexts[i][p] = NULL THEN e.prevs[i]
        ELSE [e.prevs[i] EXCEPT ![e.nexts[i][p]] = e.prevs[i][p], ![p] = NULL]],
     !.bestBid = IF p = @ THEN NULL ELSE @,
     !.bestAsk = IF p = @ THEN NULL ELSE @]

(* The removed node keeps its own links, which lead to the next best.  The *)
(* assertions: a best that is not an end of the list has a price.          *)
RemoveFromList(e, p) ==
  LET bid == IF p = e.bestBid THEN e.prevs[0][p] ELSE e.bestBid
      ask == IF p = e.bestAsk THEN e.nexts[0][p] ELSE e.bestAsk
      nodes == [e.nodes EXCEPT ![p].price = 0]
  IN [e EXCEPT
        !.nodes = nodes,
        !.nexts = [i \in Levels |->
           IF e.prevs[i][p] = NULL THEN e.nexts[i]
           ELSE [e.nexts[i] EXCEPT ![e.prevs[i][p]] = e.nexts[i][p]]],
        !.prevs = [i \in Levels |->
           IF e.nexts[i][p] = NULL THEN e.prevs[i]
           ELSE [e.prevs[i] EXCEPT ![e.nexts[i][p]] = e.prevs[i][p]]],
        !.bestBid = bid, !.bestAsk = ask,
        !.fault = \/ @
                  \/ p = e.bestBid /\ (bid # Bottom) = (nodes[bid].price = 0)
                  \/ p = e.bestAsk /\ (ask # Top) = (nodes[ask].price = 0)]

-----------------------------------------------------------------------------
(* The order structs.                                                      *)

AllocateOrder(e) ==
  LET s == e.free.first
      rest == e.orders[s].nextInBin
      h == e.nextId % MapSize
      taken == [e.orders EXCEPT ![s].id = e.nextId, ![s].nextInBin = NULL]
      bin == e.idMap[h]
  IN IF s = NULL THEN [eng |-> [e EXCEPT !.fault = TRUE], slot |-> NULL]
     ELSE [slot |-> s,
           eng |-> [e EXCEPT
              !.free = [first |-> rest, last |-> IF rest = NULL THEN NULL ELSE @.last],
              !.orders = IF bin.first = NULL THEN taken
                         ELSE [taken EXCEPT ![bin.last].nextInBin = s],
              !.idMap = [@ EXCEPT ![h] =
                           [first |-> IF bin.first = NULL THEN s ELSE bin.first,
                            last |-> s]]]]

(* What following next_in_bin from a struct reaches in n steps.            *)
Chain(e, first) ==
  LET chain[n \in 0 .. MaxLive] ==
        IF n = 0 THEN first
        ELSE IF chain[n - 1] = NULL THEN NULL ELSE e.orders[chain[n - 1]].nextInBin
  IN [n \in 0 .. MaxLive |-> chain[n]]

Linked(e, first) == {Chain(e, first)[n] : n \in 0 .. MaxLive} \ {NULL}

(* Mutant: the end of the free list does not move to the struct put there. *)
FreeOrderLastStays(e, id) ==
  LET bin == Linked(e, e.idMap[id % MapSize].first)
      s == CHOOSE x \in bin : e.orders[x].id = id
  IN IF \A x \in bin : e.orders[x].id # id
     THEN [slot |-> NULL, eng |-> e]
     ELSE [slot |-> s,
           eng |-> [e EXCEPT !.orders = [@ EXCEPT ![e.free.last].nextInBin = s,
                                                  ![s].nextInBin = NULL],
                             !.idMap = [@ EXCEPT ![id % MapSize] = [first |-> NULL, last |-> NULL]]]]

(* Mutant: the struct is put in the free list but stays in its bin.        *)
FreeOrderMapped(e, id) ==
  LET g == FreeOrderLastStays(e, id)
  IN [g EXCEPT !.eng.idMap = e.idMap,
               !.eng.free.last = IF g.slot = NULL THEN @ ELSE g.slot]

(* Take the order with an id out of its bin and put its struct at the end  *)
(* of the free list.  The bin's last is not touched unless the bin becomes *)
(* empty, and the free list is taken to have a last element.               *)
FreeOrder(e, id) ==
  LET h == id % MapSize
      bin == e.idMap[h]
      chain == Chain(e, bin.first)
      Found == {n \in 0 .. MaxLive : chain[n] # NULL /\ e.orders[chain[n]].id = id}
      k == CHOOSE n \in Found : \A m \in Found : n <= m
      s == chain[k]
      rest == e.orders[s].nextInBin
      unlinked == IF k = 0 THEN e.orders
                  ELSE [e.orders EXCEPT ![chain[k - 1]].nextInBin = rest]
      freed == [unlinked EXCEPT ![s].nextInBin = NULL]
  IN IF Found = {} THEN [slot |-> NULL, eng |-> e]
     ELSE IF e.free.last = NULL
     THEN [slot |-> s, eng |-> [e EXCEPT !.fault = TRUE]]
     ELSE [slot |-> s,
           eng |-> [e EXCEPT
              !.idMap = [@ EXCEPT ![h] =
                           IF k > 0 THEN bin
                           ELSE [first |-> rest,
                                 last |-> IF rest = NULL THEN NULL ELSE bin.last]],
              !.orders = [freed EXCEPT ![e.free.last].nextInBin = s],
              !.free.last = s]]

(* Mutant: an order that leaves the head of its queue stays the head.      *)
UnqueueTailOnly(e, s) ==
  LET o == e.orders[s]
      p == o.data.price
      node == [e.nodes[p] EXCEPT !.last = IF o.next = NULL THEN o.prev ELSE @,
                                 !.first = IF o.next = NULL /\ o.prev = NULL THEN NULL ELSE @]
  IN [e EXCEPT !.nodes = [@ EXCEPT ![p] = node], !.orders = [@ EXCEPT ![s].id = 0]]

(* Take an order out of the queue of its price.                            *)
Unqueue(e, s) ==
  LET o == e.orders[s]
      p == o.data.price
      named == [e.orders EXCEPT ![s].id = 0]
      forward == IF o.next = NULL THEN named
                 ELSE [named EXCEPT ![o.next].prev = o.prev]
      both == IF o.prev = NULL THEN forward
              ELSE [forward EXCEPT ![o.prev].next = o.next]
      node == [e.nodes[p] EXCEPT !.last = IF o.next = NULL THEN o.prev ELSE @,
                                 !.first = IF o.prev = NULL THEN o.next ELSE @]
  IN [e EXCEPT !.orders = both, !.nodes = [@ EXCEPT ![p] = node],
               !.fault = @ \/ e.nodes[p].price # p]

(* Mutant: the node of an empty queue stays in the list.                   *)
RemoveOrderKeepsNode(e, s) == Unqueue(e, s)

RemoveOrder(e, s) ==
  LET p == e.orders[s].data.price
      g == Unqueue(e, s)
  IN IF g.nodes[p].first = NULL THEN RemoveFromList(g, p) ELSE g

(* Append an order to the queue of its price, whose node is entered in the *)
(* skip list if it is not there.                                           *)
Enqueue(e, data, height) ==
  LET p == data.price
      fresh == [side |-> data.side, price |-> p, first |-> NULL, last |-> NULL]
      g == IF e.nodes[p].price = 0
           THEN AddToList([e EXCEPT !.nodes = [@ EXCEPT ![p] = fresh]], p, height)
           ELSE [e EXCEPT !.fault = @ \/ e.nodes[p].side # data.side
                                      \/ e.nodes[p].price # p]
      a == AllocateOrder(g)
      s == a.slot
      node == g.nodes[p]
      last == node.last
      placed == [a.eng.orders EXCEPT ![s].data = data, ![s].prev = last, ![s].next = NULL]
  IN IF s = NULL THEN a.eng
     ELSE [a.eng EXCEPT
             !.orders = IF last = NULL THEN placed ELSE [placed EXCEPT ![last].next = s],
             !.nodes[p] = [node EXCEPT !.last = s,
                                       !.first = IF node.first = NULL THEN s ELSE node.first]]

-----------------------------------------------------------------------------
(* The interface.                                                          *)

NullLinks == [i \in Levels |-> [n \in Nodes |-> NULL]]
Bins == 0 .. MapSize - 1

(* init: memory that malloc returned and that is always written before it  *)
(* is read is null here.                                                   *)
Init ==
  /\ eng = [nodes  |-> [n \in Nodes |-> [side |-> "bid", price |-> 0,
                                         first |-> NULL, last |-> NULL]],
            nexts  |-> [i \in Levels |-> [n \in Nodes |->
                          CASE n = Bottom -> Top [] n = Top -> Bottom [] OTHER -> NULL]],
            prevs  |-> NullLinks,
            bestBid |-> Bottom, bestAsk |-> Top,
            orders |-> [s \in Slots |->
                          [id |-> 0, next |-> NULL, prev |-> NULL,
                           data |-> [side |-> "bid", price |-> 1, size |-> 0],
                           nextInBin |-> IF s = MaxLive - 1 THEN NULL ELSE s + 1]],
            free   |-> [first |-> 0, last |-> MaxLive - 1],
            idMap  |-> [h \in Bins |-> [first |-> NULL, last |-> NULL]],
            nextId |-> 1, fault |-> FALSE]
  /\ incoming = NoOrder /\ report = NoOrder

(* The node that an order would trade with, if it has an order it crosses. *)
Best(o) == IF o.side = "ask" THEN eng.bestBid ELSE eng.bestAsk

(* Mutant: an order does not trade at its own price.                       *)
CrossesBestStrict(o) ==
  IF o.side = "ask"
  THEN eng.bestBid # Bottom /\ eng.nodes[eng.bestBid].price > o.price
  ELSE eng.bestAsk # Top /\ eng.nodes[eng.bestAsk].price < o.price

CrossesBest(o) ==
  IF o.side = "ask"
  THEN eng.bestBid # Bottom /\ eng.nodes[eng.bestBid].price >= o.price
  ELSE eng.bestAsk # Top /\ eng.nodes[eng.bestAsk].price <= o.price

Idle == incoming = NoOrder /\ ~eng.fault

(* A client's call of limit; Reserve + 1 structs are free before it.       *)
Limit(o) ==
  /\ Idle /\ eng.nextId <= MaxId
  /\ Cardinality(Linked(eng, eng.free.first)) > Reserve
  /\ incoming' = o /\ report' = NoOrder
  /\ UNCHANGED eng

Busy == incoming # NoOrder /\ ~eng.fault

Least(m, n) == IF m <= n THEN m ELSE n

(* send_exec copies the incoming order and reduces its size: the price of  *)
(* both reports is the incoming order's.                                   *)
Report(o, id, q) ==
  [taker |-> eng.nextId, maker |-> id, size |-> q, side |-> o.side, price |-> o.price]

(* Mutant: the trade is with the newest order of the best price.           *)
ConsumeLast ==
  LET s == eng.nodes[Best(incoming)].last
      old == eng.orders[s].data
      q == Least(incoming.size, old.size)
  IN /\ Busy /\ incoming.size > 0 /\ CrossesBest(incoming) /\ s # NULL
     /\ report' = Report(incoming, eng.orders[s].id, q)
     /\ incoming' = [incoming EXCEPT !.size = @ - q]
     /\ eng' = IF incoming.size < old.size
               THEN [eng EXCEPT !.orders[s].data.size = @ - q]
               ELSE RemoveOrder(FreeOrder(eng, eng.orders[s].id).eng, s)

(* A pass of the loop of consume_node, called from cross: trade with the   *)
(* first order of the best node.                                           *)
ConsumeTurn ==
  LET s == eng.nodes[Best(incoming)].first
  IN /\ Busy /\ incoming.size > 0 /\ CrossesBest(incoming) /\ s # NULL
     /\ incoming' = [incoming EXCEPT !.size = @ - Least(@, eng.orders[s].data.size)]

Consume ==
  /\ ConsumeTurn
  /\ LET s == eng.nodes[Best(incoming)].first
         old == eng.orders[s].data
         q == Least(incoming.size, old.size)
     IN /\ report' = Report(incoming, eng.orders[s].id, q)
        /\ eng' = IF incoming.size < old.size
                  THEN [eng EXCEPT !.orders[s].data.size = @ - q]
                  ELSE RemoveOrder(FreeOrder(eng, eng.orders[s].id).eng, s)

(* cross has ended: limit queues what is left and returns the id.          *)
FinishTurn ==
  /\ Busy /\ (incoming.size = 0 \/ ~CrossesBest(incoming))
  /\ incoming' = NoOrder

Finish ==
  /\ FinishTurn
  /\ \E height \in 1 .. ListHeight :
       eng' = [IF incoming.size = 0 THEN eng ELSE Enqueue(eng, incoming, height)
               EXCEPT !.nextId = @ + 1]
  /\ report' = NoOrder

Cancel(id) ==
  LET r == FreeOrder(eng, id)
  IN /\ Idle
     /\ eng' = IF r.slot = NULL \/ r.eng.fault THEN r.eng ELSE RemoveOrder(r.eng, r.slot)
     /\ report' = NoOrder
     /\ UNCHANGED incoming

Next ==
  \/ Consume \/ Finish
  \/ \E o \in Order : Limit(o)
  \/ \E id \in 1 .. MaxId : Cancel(id)

(* A call that is running goes on until it returns: the loops are code of  *)
(* the call itself.  Each turn changes incoming; what it does to the book  *)
(* is no matter of fairness.                                               *)
Spec == Init /\ [][Next]_vars /\ WF_incoming(ConsumeTurn) /\ WF_incoming(FinishTurn)

-----------------------------------------------------------------------------
(* Properties.                                                             *)

Prices == 1 .. MaxPrice
InUse == {p \in Prices : eng.nodes[p].price # 0}
OfSide(side) == {p \in InUse : eng.nodes[p].side = side}
OnLevel(i) == {p \in InUse : eng.nexts[i][p] # NULL}

Resting == {s \in Slots : eng.orders[s].id # 0}
At(p) == {s \in Resting : eng.orders[s].data.price = p}
Older(r, s) == eng.orders[r].id < eng.orders[s].id

(* Every variable of the file keeps the type of its declaration, and ids   *)
(* are given in sequence.                                                  *)
TypeOK ==
  LET OrNull(S) == S \cup {NULL}
      Links == [Levels -> [Nodes -> OrNull(Nodes)]]
      Bin == [first : OrNull(Slots), last : OrNull(Slots)]
  IN /\ eng.nodes \in [Nodes -> [side : Sides, price : 0 .. MaxPrice,
                                 first : OrNull(Slots), last : OrNull(Slots)]]
     /\ eng.nexts \in Links /\ eng.prevs \in Links
     /\ eng.bestBid \in Nodes /\ eng.bestAsk \in Nodes
     /\ eng.orders \in [Slots -> [id : 0 .. MaxId, data : Order, nextInBin : OrNull(Slots),
                                  next : OrNull(Slots), prev : OrNull(Slots)]]
     /\ eng.free \in Bin /\ eng.idMap \in [Bins -> Bin]
     /\ eng.nextId \in 1 .. MaxId + 1 /\ eng.fault \in BOOLEAN
     /\ incoming \in Order \cup {NoOrder}

(* add_to_list and remove_from_list keep a skip list: level 0 links every  *)
(* node in use, each level a part of the one below, in order of price and  *)
(* in both directions, whatever heights rand() gave.                       *)
SkipListSound ==
  /\ OnLevel(0) = InUse
  /\ \A i \in Levels \ {0} : OnLevel(i) \subseteq OnLevel(i - 1)
  /\ \A i \in Levels : \A p \in OnLevel(i) \cup {Bottom} :
       LET q == eng.nexts[i][p]
       IN /\ q \in OnLevel(i) \cup {Top} /\ p < q
          /\ \A r \in OnLevel(i) : r <= p \/ q <= r
          /\ OnLevel(i) # {} => eng.prevs[i][q] = p

(* best_bid and best_ask, which move only in add_to_list and               *)
(* remove_from_list, are the highest bid and the lowest ask, also between  *)
(* two executions of a call, and the book is never crossed.                *)
BestPrices ==
  /\ eng.bestBid \in OfSide("bid") \cup {Bottom}
  /\ eng.bestAsk \in OfSide("ask") \cup {Top}
  /\ \A p \in OfSide("bid") : p <= eng.bestBid
  /\ \A p \in OfSide("ask") : p >= eng.bestAsk
  /\ eng.bestBid < eng.bestAsk

(* A node is in use exactly while orders rest at its price, and its queue  *)
(* links them, in both directions, from the oldest to the newest.          *)
QueuesInOrder ==
  \A p \in Prices :
    LET node == eng.nodes[p]
    IN /\ node.price = IF At(p) = {} THEN 0 ELSE p
       /\ At(p) # {} => node.first \in At(p) /\ node.last \in At(p)
       /\ \A s \in At(p) :
            LET o == eng.orders[s]
            IN /\ o.data.side = node.side /\ o.data.size > 0
               /\ o.next = NULL <=> s = node.last
               /\ o.prev = NULL <=> s = node.first
               /\ o.next # NULL =>
                    /\ o.next \in At(p) /\ eng.orders[o.next].prev = s
                    /\ Older(s, o.next)
                    /\ \A r \in At(p) : ~(Older(s, r) /\ Older(r, o.next))

(* No struct is lost or handed out twice: the free list links exactly the  *)
(* structs that hold no resting order, each once, and ends where           *)
(* free_order appends to it.                                               *)
PoolConserved ==
  LET chain == Chain(eng, eng.free.first)
      Ends == {n \in 0 .. MaxLive : chain[n] = NULL}
  IN /\ Linked(eng, eng.free.first) = Slots \ Resting
     /\ \A m, n \in 0 .. MaxLive : chain[m] = chain[n] => m = n \/ chain[m] = NULL
     /\ Ends # {}
     /\ eng.free.last = IF eng.free.first = NULL THEN NULL
                        ELSE chain[(CHOOSE n \in Ends : \A m \in Ends : n <= m) - 1]

(* cancel finds by its id each order that rests in the book, and no order  *)
(* that has left it.                                                       *)
Cancellable ==
  \A id \in 1 .. MaxId :
    LET bin == Linked(eng, eng.idMap[id % MapSize].first)
    IN {s \in bin : eng.orders[s].id = id} = {s \in Slots : eng.orders[s].id = id}

(* No assertion of the file fails and no null pointer is followed.         *)
NoFault == ~eng.fault

(* The engine implements the book: it trades with the best price first     *)
(* and, at one price, with the oldest order, for the least of the two      *)
(* sizes, rests what is left and forgets what is cancelled.                *)
SlotOf(id) == CHOOSE s \in Resting : eng.orders[s].id = id

Book == INSTANCE OrderBook WITH
  book <- [id \in {eng.orders[s].id : s \in Resting} |-> eng.orders[SlotOf(id)].data],
  nextId <- eng.nextId

BookSpec == Book!BookSpec

(* A call of limit returns: neither loop of cross and consume_node can run *)
(* for ever, on an emptied node, say, that is still the best.              *)
LimitReturns == incoming # NoOrder ~> incoming = NoOrder
=============================================================================
