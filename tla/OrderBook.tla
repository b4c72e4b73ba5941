----------------------------- MODULE OrderBook -----------------------------
(***************************************************************************)
(* What the matching engine of match/ promises its clients (engine.h): a   *)
(* book of resting orders, to which limit adds an order once it has traded *)
(* with every order it crosses, best price first and, at one price, the    *)
(* oldest first; and from which cancel takes an order out.  An execution   *)
(* is reported for each trade, so the trades of a call are steps.          *)
(***************************************************************************)
EXTENDS Naturals

CONSTANTS
  MaxPrice,  (* prices are 1 .. MaxPrice                                   *)
  MaxSize,   (* bound on the size of an order                              *)
  MaxId,     (* bound on the number of orders placed                       *)
  NoOrder    (* no call of limit is in progress                            *)

VARIABLES
  book,      (* the resting order of each live order id                    *)
  incoming,  (* the order that a call of limit still has to place          *)
  nextId,    (* the id of that order, or of the next one                   *)
  report     (* the execution the last step reported, or NoOrder           *)

bookVars == <<book, incoming, nextId, report>>

Sides == {"bid", "ask"}
Order == [side : Sides, price : 1 .. MaxPrice, size : 0 .. MaxSize]
Ids == 1 .. MaxId

Least(m, n) == IF m <= n THEN m ELSE n

(* A bid trades with asks at its price or below, an ask with bids at its   *)
(* price or above.                                                         *)
Crosses(o, r) ==
  /\ o.side # r.side
  /\ IF o.side = "bid" THEN r.price <= o.price ELSE r.price >= o.price

Crossed(o) == {i \in DOMAIN book : Crosses(o, book[i])}

(* Price, then time.                                                       *)
Before(i, j) ==
  \/ book[i].price = book[j].price /\ i < j
  \/ IF book[i].side = "ask" THEN book[i].price < book[j].price
                             ELSE book[i].price > book[j].price

BookInit ==
  /\ book = [i \in {} |-> NoOrder] /\ incoming = NoOrder
  /\ nextId = 1 /\ report = NoOrder

BookLimit(o) ==
  /\ incoming = NoOrder /\ nextId \in Ids
  /\ incoming' = o /\ report' = NoOrder
  /\ UNCHANGED <<book, nextId>>

(* The report names both orders; its price is the incoming order's.        *)
BookTrade ==
  /\ incoming # NoOrder /\ incoming.size > 0
  /\ \E i \in Crossed(incoming) :
       LET q == Least(incoming.size, book[i].size)
       IN /\ \A j \in Crossed(incoming) \ {i} : Before(i, j)
          /\ report' = [taker |-> nextId, maker |-> i, size |-> q,
                        side |-> incoming.side, price |-> incoming.price]
          /\ incoming' = [incoming EXCEPT !.size = @ - q]
          /\ book' = [j \in {k \in DOMAIN book : k # i \/ q < book[i].size} |->
                        IF j = i THEN [book[i] EXCEPT !.size = @ - q]
                                 ELSE book[j]]
  /\ UNCHANGED nextId

BookRest ==
  /\ incoming # NoOrder /\ (incoming.size = 0 \/ Crossed(incoming) = {})
  /\ book' = IF incoming.size = 0 THEN book
             ELSE [i \in DOMAIN book \cup {nextId} |->
                     IF i = nextId THEN incoming ELSE book[i]]
  /\ incoming' = NoOrder /\ nextId' = nextId + 1 /\ report' = NoOrder

(* The cancellation of an order that is not in the book is ignored.        *)
BookCancel(id) ==
  /\ incoming = NoOrder
  /\ book' = [i \in DOMAIN book \ {id} |-> book[i]]
  /\ report' = NoOrder
  /\ UNCHANGED <<incoming, nextId>>

BookNext ==
  \/ BookTrade \/ BookRest
  \/ \E o \in Order : BookLimit(o)
  \/ \E id \in Ids : BookCancel(id)

BookSpec == BookInit /\ [][BookNext]_bookVars
=============================================================================
