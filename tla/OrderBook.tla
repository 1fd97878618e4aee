------------------------------ MODULE OrderBook ------------------------------
(***************************************************************************)
(* The order book of one trading pair (trading/orderbook/orderbook.go):    *)
(* AddOrder and CancelOrder, called by any number of goroutines.  The      *)
(* engine calls both without a lock of its own (engine.go ProcessOrder and *)
(* CancelOrder), so their critical sections interleave; one step of the    *)
(* model is one critical section, or, while the locks of the scan are      *)
(* held, the look at one maker or the trade with it: the order pool wipes  *)
(* a cancelled order without those locks, so it may come in between.       *)
(*                                                                         *)
(* Price levels are objects: the tree of a side maps a price to a level,   *)
(* and a level that is dropped goes to the pool, from which it may come    *)
(* back for any price of either side.  An order that is returned to the    *)
(* order pool is wiped (ResetOrder), which every holder of the pointer     *)
(* sees.  Abstracted: an object of the order pool serves no second order.  *)
(***************************************************************************)
EXTENDS Naturals, Sequences, FiniteSets, Functions

CONSTANTS
  Procs,      \* goroutines
  Orders,
  Levels,     \* PriceLevel objects
  None,
  KeyOrder,   \* the prices in the order of their texts, the keys of the trees
  User, Side, Price, Quantity,  \* attributes of each order
  Rests,      \* orders whose remainder is placed: neither IOC nor FOK
  ChunkSize,  \* maxOrdersPerLevel
  MaxAdds     \* bound on the number of orders that are added

Prices == {KeyOrder[i] : i \in DOMAIN KeyOrder}

ASSUME NoneAssumption == None \notin Levels \cup Orders
ASSUME OrdersAssumption ==
  /\ Side \in [Orders -> {"buy", "sell"}]
  /\ Price \in [Orders -> Prices]
  /\ Quantity \in [Orders -> Nat \ {0}]
  /\ Rests \subseteq Orders
ASSUME KeysAssumption ==
  KeyOrder \in Seq(Nat) /\ \A i, j \in DOMAIN KeyOrder : KeyOrder[i] = KeyOrder[j] => i = j
ASSUME ChunkAssumption == ChunkSize \in Nat \ {0, 1}

VARIABLES
  book,        \* the trees bids and asks: the level at each price
  chunks,      \* the chunks linked in each level, by number
  spare,       \* how often each level lies in the pool of levels
  made,        \* levels that have been allocated
  filled,      \* what each order has executed
  ordersByID,  \* orders the index has, None for the nil id
  pooled,      \* orders returned to the order pool
  entered,     \* orders that were added, in order
  op,          \* the call each goroutine has in progress
  calm         \* history: calls never overlapped and no chunk was ever full

vars == <<book, chunks, spare, made, filled, ordersByID, pooled, entered, op, calm>>

Idle == [pc |-> "idle", order |-> None, at |-> 0, level |-> None, todo |-> <<>>, gone |-> {}]

Opposite(s) == IF s = "buy" THEN "sell" ELSE "buy"

IsLeast(S, i) == i \in S /\ \A j \in S : i <= j
LeastOf(S) == CHOOSE i \in S : IsLeast(S, i)

MinOf(m, n) == IF m <= n THEN m ELSE n

(***************************************************************************)
(* Price levels: a list of ring buffers, of which head never moves.  A     *)
(* buffer that is full has tail = head again and counts as empty: it is    *)
(* not seen by Orders and Len, and RemoveOrder does nothing with it.       *)
(***************************************************************************)
Visible(c) == {k \in DOMAIN c : Len(c[k]) < ChunkSize}

\* Orders(): what can be seen, buffer after buffer.
Seen(c) == Restrict(c, {k \in Visible(c) : c[k] # <<>>})

IsEmpty(c) == Seen(c) = <<>>

\* PriceLevel.AddOrder: the first buffer with room, or a new one at the end.
WithOrder_Newest(c, o) ==   \* mutant: the newest order comes first
  IF c = <<>> THEN [k \in {1} |-> <<o>>] ELSE [c EXCEPT ![1] = <<o>> \o @]
WithOrder(c, o) ==
  IF Visible(c) # {}
  THEN [c EXCEPT ![LeastOf(Visible(c))] = Append(@, o)]
  ELSE LET new == IF DOMAIN c = {} THEN 1 ELSE 1 + CHOOSE k \in DOMAIN c : \A j \in DOMAIN c : j <= k
       IN  [k \in DOMAIN c \cup {new} |-> IF k = new THEN <<o>> ELSE c[k]]

\* Compaction of one buffer.
Without(s, o) ==
  IF Len(s) < ChunkSize /\ \E i \in DOMAIN s : s[i] = o
  THEN LET i == CHOOSE i \in DOMAIN s : s[i] = o
       IN  SubSeq(s, 1, i - 1) \o SubSeq(s, i + 1, Len(s))
  ELSE s

\* PriceLevel.RemoveOrder: every buffer is compacted; one that is not the first
\* and looks empty is unlinked, unless the one before it was just unlinked.
WithoutOrder(c, o) ==
  LET rest == [k \in DOMAIN c |-> Without(c[k], o)]
      looksEmpty(k) == Len(rest[k]) \in {0, ChunkSize}
      before(k) == CHOOSE j \in DOMAIN c : j < k /\ \A i \in DOMAIN c : i < k => i <= j
      unlinked[k \in DOMAIN c] ==
        ~IsLeast(DOMAIN c, k) /\ looksEmpty(k) /\ ~unlinked[before(k)]
  IN  Restrict(rest, {k \in DOMAIN c : ~unlinked[k]})

(***************************************************************************)
(* Locks.  A goroutine keeps the mutex of a level between two steps while  *)
(* it visits makers and while it waits to delete the level it has emptied; *)
(* it keeps the read lock of a tree while it scans it.                     *)
(***************************************************************************)
Scanned(p) == Opposite(Side[op[p].order])
Scanning_ToTheEnd(p) ==   \* mutant: the tree is unlocked when the call returns
  op[p].pc \in {"scan", "visit", "trade", "sweep", "find", "create", "attach", "register"}
Scanning(p) == op[p].pc \in {"scan", "visit", "trade"}

LevelFree(l) == \A q \in Procs : op[q].pc \in {"visit", "trade", "drop"} => op[q].level # l
TreeFree(s)  == \A q \in Procs : Scanning(q) => Scanned(q) # s

(***************************************************************************)
(* AddOrder.                                                               *)
(***************************************************************************)
Left(o) == Quantity[o] - filled[o]

\* A resting order the scan skips: pooled ones have no quantity left.
Spent(m) == m \in pooled \/ Left(m) = 0

Crosses(t, price) ==
  IF Side[t] = "buy" THEN Price[t] >= price ELSE Price[t] <= price

AllIdle == \A p \in Procs : op[p] = Idle

Placed(o) == \E i \in DOMAIN entered : entered[i] = o

Init ==
  /\ book       = [s \in {"buy", "sell"} |-> [x \in Prices |-> None]]
  /\ chunks     = [l \in Levels |-> <<>>]
  /\ spare      = [l \in Levels |-> 0]
  /\ made       = {}
  /\ filled     = [o \in Orders |-> 0]
  /\ ordersByID = {}
  /\ pooled     = {}
  /\ entered    = <<>>
  /\ op         = [p \in Procs |-> Idle]
  /\ calm       = TRUE

\* The call begins its scan of the opposite tree, under the tree's read lock.
AddOrder(p, o) ==
  /\ op[p] = Idle /\ ~Placed(o) /\ Len(entered) < MaxAdds
  /\ entered' = Append(entered, o)
  /\ op'   = [op EXCEPT ![p] = [Idle EXCEPT !.pc = "scan", !.order = o]]
  /\ calm' = (calm /\ AllIdle)
  /\ UNCHANGED <<book, chunks, spare, made, filled, ordersByID, pooled>>

\* Positions of the keys that the ascending scan has still to visit.
Ahead_Last(p) ==   \* mutant: the scan begins with the last key
  {i \in DOMAIN KeyOrder :
     /\ i > op[p].at /\ book[Scanned(p)][KeyOrder[i]] # None
     /\ \A j \in DOMAIN KeyOrder : j > i => book[Scanned(p)][KeyOrder[j]] = None}
Ahead(p) ==
  {i \in DOMAIN KeyOrder : i > op[p].at /\ book[Scanned(p)][KeyOrder[i]] # None}

NextLevel(p) == book[Scanned(p)][KeyOrder[LeastOf(Ahead(p))]]

\* The callback takes the mutex of the next level and copies its orders.
OpenLevel(p) ==
  /\ op[p].pc = "scan" /\ Ahead(p) # {}
  /\ LevelFree(NextLevel(p))
  /\ op' = [op EXCEPT ![p].pc = "visit", ![p].at = LeastOf(Ahead(p)),
                      ![p].level = NextLevel(p), ![p].todo = Seen(chunks[NextLevel(p)])]
  /\ UNCHANGED <<book, chunks, spare, made, filled, ordersByID, pooled, entered, calm>>

\* The maker that comes next in the copy, and the copy without it.
NextMaker(p) == Head(op[p].todo[LeastOf(DOMAIN op[p].todo)])
Behind(todo) ==
  LET k == LeastOf(DOMAIN todo)
  IN  IF Len(todo[k]) = 1 THEN Restrict(todo, DOMAIN todo \ {k})
      ELSE [todo EXCEPT ![k] = Tail(@)]

Visiting(p) == op[p].pc = "visit" /\ op[p].todo # <<>> /\ Left(op[p].order) > 0

ScannedPrice(p) == KeyOrder[op[p].at]

\* What follows the scan and the removal of levels: the remainder is placed.
Afterwards(o, call) ==
  IF call.gone # {} THEN [Idle EXCEPT !.pc = "sweep", !.order = o, !.gone = call.gone]
  ELSE IF Left(o) > 0 /\ o \in Rests THEN [Idle EXCEPT !.pc = "find", !.order = o]
  ELSE Idle

\* The look at a maker: it has something left, and the level's price is within
\* the limit.
Admissible_Limitless(t, m, price) == ~Spent(m)   \* mutant: the limit is forgotten
Admissible(t, m, price) == ~Spent(m) /\ Crosses(t, price)

Admit(p) ==
  /\ Visiting(p)
  /\ Admissible(op[p].order, NextMaker(p), ScannedPrice(p))
  /\ op' = [op EXCEPT ![p].pc = "trade"]
  /\ UNCHANGED <<book, chunks, spare, made, filled, ordersByID, pooled, entered, calm>>

\* The level's price is beyond the limit: the scan is over.
StopScan(p) ==
  /\ Visiting(p)
  /\ ~Spent(NextMaker(p)) /\ ~Crosses(op[p].order, ScannedPrice(p))
  /\ op' = [op EXCEPT ![p] = Afterwards(@.order, @)]
  /\ UNCHANGED <<book, chunks, spare, made, filled, ordersByID, pooled, entered, calm>>

Partners_Self(t, m) == TRUE   \* mutant: orders of one user trade with each other
Partners(t, m) == User[m] # User[t]

\* The next maker is spent already, or belongs to the same user.
PassOver(p) ==
  LET m == NextMaker(p) IN
  /\ \/ Visiting(p) /\ Spent(m)
     \/ op[p].pc = "trade" /\ m \notin pooled /\ ~Partners(op[p].order, m)
  /\ op' = [op EXCEPT ![p].pc = "visit", ![p].todo = Behind(op[p].todo)]
  /\ UNCHANGED <<book, chunks, spare, made, filled, ordersByID, pooled, entered, calm>>

\* A trade; a maker that is full leaves its level, the index and the order.
Match(p) ==
  LET t == op[p].order
      m == NextMaker(p)
      n == MinOf(Left(t), Left(m))
      full == n = Left(m)
  IN
  /\ op[p].pc = "trade" /\ m \notin pooled
  /\ Partners(t, m)
  /\ filled' = [filled EXCEPT ![t] = @ + n, ![m] = @ + n]
  /\ chunks' = IF full THEN [chunks EXCEPT ![op[p].level] = WithoutOrder(@, m)] ELSE chunks
  /\ ordersByID' = IF full THEN ordersByID \ {m} ELSE ordersByID
  /\ pooled' = IF full THEN pooled \cup {m} ELSE pooled
  /\ op' = [op EXCEPT ![p].pc = "visit", ![p].todo = Behind(op[p].todo)]
  /\ UNCHANGED <<book, spare, made, entered, calm>>

\* The maker was wiped after the look at it, by a cancel, which has not the mutex
\* of this level: it has no owner any more, and its quantity and what it executed
\* are each read before or after.  The wiped order keeps no account, and if it
\* looks full its nil id leaves the level and the index.  Abstracted: other wiped
\* orders of the level, which leave with it; the quantity gone and the execution
\* not, a negative trade.
MatchWiped(p) ==
  LET t == op[p].order
      m == NextMaker(p)
  IN
  /\ op[p].pc = "trade" /\ m \in pooled
  /\ \E n \in {0, MinOf(Left(t), Left(m)), MinOf(Left(t), Quantity[m])} :
       filled' = [filled EXCEPT ![t] = @ + n]
  /\ \/ UNCHANGED <<chunks, ordersByID>>
     \/ /\ chunks' = [chunks EXCEPT ![op[p].level] = WithoutOrder(@, m)]
        /\ ordersByID' = ordersByID \ {None}
  /\ op' = [op EXCEPT ![p].pc = "visit", ![p].todo = Behind(op[p].todo)]
  /\ UNCHANGED <<book, spare, made, pooled, entered, calm>>

\* All makers are visited, or nothing is left: the key of a level that counts
\* as empty is noted for removal.
CloseLevel(p) ==
  LET t == op[p].order
      call == IF IsEmpty(chunks[op[p].level])
              THEN [op[p] EXCEPT !.gone = @ \cup {ScannedPrice(p)}] ELSE op[p]
  IN
  /\ op[p].pc = "visit"
  /\ op[p].todo = <<>> \/ Left(t) = 0
  /\ op' = [op EXCEPT ![p] = IF Left(t) = 0 THEN Afterwards(t, call)
                             ELSE [call EXCEPT !.pc = "scan", !.level = None, !.todo = <<>>]]
  /\ UNCHANGED <<book, chunks, spare, made, filled, ordersByID, pooled, entered, calm>>

EndScan(p) ==
  /\ op[p].pc = "scan" /\ Ahead(p) = {}
  /\ op' = [op EXCEPT ![p] = Afterwards(@.order, @)]
  /\ UNCHANGED <<book, chunks, spare, made, filled, ordersByID, pooled, entered, calm>>

\* PutPriceLevelToPool, n[l] times for each level.
ToPool(n) ==
  /\ spare'  = [l \in Levels |-> spare[l] + n[l]]
  /\ chunks' = [l \in Levels |-> IF n[l] > 0 THEN <<>> ELSE chunks[l]]

\* Under the lock of the opposite tree the noted keys are deleted, whatever
\* their levels hold by now.
Swept_Nothing(p) == {}   \* mutant: the keys stay in the tree
Swept(p) == {x \in op[p].gone : book[Scanned(p)][x] # None}
Sweep(p) ==
  /\ op[p].pc = "sweep"
  /\ TreeFree(Scanned(p))
  /\ ToPool([l \in Levels |-> Cardinality({x \in Swept(p) : book[Scanned(p)][x] = l})])
  /\ book' = [book EXCEPT ![Scanned(p)] = [x \in Prices |-> IF x \in Swept(p) THEN None ELSE @[x]]]
  /\ op' = [op EXCEPT ![p] = Afterwards(@.order, [@ EXCEPT !.gone = {}])]
  /\ UNCHANGED <<made, filled, ordersByID, pooled, entered, calm>>

\* The level of the order's own price is looked up under the read lock.
FindLevel_Found(p) ==   \* mutant: the level is taken without a look at ok
  /\ op[p].pc = "find"
  /\ op' = [op EXCEPT ![p].pc = "attach", ![p].level = book[Side[op[p].order]][Price[op[p].order]]]
  /\ UNCHANGED <<book, chunks, spare, made, filled, ordersByID, pooled, entered, calm>>
FindLevel(p) ==
  LET o == op[p].order
      l == book[Side[o]][Price[o]]
  IN
  /\ op[p].pc = "find"
  /\ op' = [op EXCEPT ![p].pc = IF l = None THEN "create" ELSE "attach", ![p].level = l]
  /\ UNCHANGED <<book, chunks, spare, made, filled, ordersByID, pooled, entered, calm>>

\* A level from the pool, or a new one, is put into the tree under its lock;
\* nobody looks whether there is one by now.
CreateLevel(p, l) ==
  LET o == op[p].order IN
  /\ op[p].pc = "create"
  /\ spare[l] > 0 \/ l \notin made
  /\ TreeFree(Side[o])
  /\ made'  = made \cup {l}
  /\ spare' = [spare EXCEPT ![l] = IF @ > 0 THEN @ - 1 ELSE 0]
  /\ book'  = [book EXCEPT ![Side[o]][Price[o]] = l]
  /\ op'    = [op EXCEPT ![p].pc = "attach", ![p].level = l]
  /\ UNCHANGED <<chunks, filled, ordersByID, pooled, entered, calm>>

\* The order joins the level, under the level's mutex.
Attach(p) ==
  LET l == op[p].level
      c == WithOrder(chunks[l], op[p].order)
  IN
  /\ op[p].pc = "attach"
  /\ LevelFree(l)
  /\ chunks' = [chunks EXCEPT ![l] = c]
  /\ calm' = (calm /\ Visible(c) = DOMAIN c)
  /\ op' = [op EXCEPT ![p].pc = "register", ![p].level = None]
  /\ UNCHANGED <<book, spare, made, filled, ordersByID, pooled, entered>>

\* ordersByID[order.ID] = order: by now the order may be a wiped one.
Register(p) ==
  LET o == op[p].order IN
  /\ op[p].pc = "register"
  /\ ordersByID' = ordersByID \cup {IF o \in pooled THEN None ELSE o}
  /\ op' = [op EXCEPT ![p] = Idle]
  /\ UNCHANGED <<book, chunks, spare, made, filled, pooled, entered, calm>>

(***************************************************************************)
(* CancelOrder.                                                            *)
(***************************************************************************)

\* The order is found in the index (otherwise the call returns an error).
CancelOrder(p, o) ==
  /\ op[p] = Idle /\ o \in ordersByID
  /\ op'   = [op EXCEPT ![p] = [Idle EXCEPT !.pc = "locate", !.order = o]]
  /\ calm' = (calm /\ AllIdle)
  /\ UNCHANGED <<book, chunks, spare, made, filled, ordersByID, pooled, entered>>

\* Its level is looked up by the side and price it has now: a wiped order has
\* neither.
LocateLevel(p) ==
  LET o == op[p].order
      l == IF o \in pooled THEN None ELSE book[Side[o]][Price[o]]
  IN
  /\ op[p].pc = "locate"
  /\ op' = [op EXCEPT ![p].pc = IF l = None THEN "forget" ELSE "remove", ![p].level = l]
  /\ UNCHANGED <<book, chunks, spare, made, filled, ordersByID, pooled, entered, calm>>

\* The order leaves the level, whose mutex is kept if nothing is left in it.
RemoveFromLevel(p) ==
  LET o == op[p].order
      l == op[p].level
      c == WithoutOrder(chunks[l], IF o \in pooled THEN None ELSE o)
  IN
  /\ op[p].pc = "remove"
  /\ LevelFree(l)
  /\ chunks' = [chunks EXCEPT ![l] = c]
  /\ op' = [op EXCEPT ![p].pc = IF IsEmpty(c) THEN "drop" ELSE "forget",
                      ![p].level = IF IsEmpty(c) THEN l ELSE None]
  /\ UNCHANGED <<book, spare, made, filled, ordersByID, pooled, entered, calm>>

\* Holding the mutex, the call waits for the lock of the tree, deletes the key
\* and returns the level to the pool.
DropLevel(p) ==
  LET o == op[p].order IN
  /\ op[p].pc = "drop"
  /\ TreeFree(Side[o])
  /\ book' = [book EXCEPT ![Side[o]][Price[o]] = None]
  /\ ToPool([l \in Levels |-> IF l = op[p].level THEN 1 ELSE 0])
  /\ op' = [op EXCEPT ![p].pc = "forget", ![p].level = None]
  /\ UNCHANGED <<made, filled, ordersByID, pooled, entered, calm>>

\* The order leaves the index and is wiped.
Forget(p) ==
  LET o == op[p].order IN
  /\ op[p].pc = "forget"
  /\ ordersByID' = ordersByID \ {o}
  /\ pooled' = pooled \cup {o}
  /\ op' = [op EXCEPT ![p] = Idle]
  /\ UNCHANGED <<book, chunks, spare, made, filled, entered, calm>>

Step(p) ==
  \/ OpenLevel(p) \/ Admit(p) \/ PassOver(p) \/ StopScan(p) \/ Match(p) \/ MatchWiped(p)
  \/ CloseLevel(p) \/ EndScan(p)
  \/ Sweep(p) \/ FindLevel(p) \/ Attach(p) \/ Register(p)
  \/ \E l \in Levels : CreateLevel(p, l)
  \/ LocateLevel(p) \/ RemoveFromLevel(p) \/ DropLevel(p) \/ Forget(p)

Next == \E p \in Procs : Step(p) \/ \E o \in Orders : AddOrder(p, o) \/ CancelOrder(p, o)

Spec == Init /\ [][Next]_vars

------------------------------------------------------------------------------
Pcs == {"idle", "scan", "visit", "trade", "sweep", "find", "create", "attach", "register",
        "locate", "remove", "drop", "forget"}

\* A chain of buffers.
ChainOK(c) == \A k \in DOMAIN c : k \in Nat /\ c[k] \in Seq(Orders)

CallOK(call) ==
  /\ call.pc \in Pcs
  /\ call.pc # "idle" => call.order \in Orders
  /\ call.pc \in {"visit", "trade"} => call.at \in DOMAIN KeyOrder
  /\ call.pc = "trade" => call.todo # <<>>
  /\ call.pc \in {"visit", "trade", "attach", "remove", "drop"} => call.level \in Levels
  /\ ChainOK(call.todo) /\ \A k \in DOMAIN call.todo : call.todo[k] # <<>>
  /\ call.gone \subseteq Prices

TypeOK ==
  /\ book \in [{"buy", "sell"} -> [Prices -> Levels \cup {None}]]
  /\ DOMAIN chunks = Levels /\ \A l \in Levels : ChainOK(chunks[l])
  /\ spare \in [Levels -> Nat] /\ made \subseteq Levels
  /\ filled \in [Orders -> Nat]
  /\ ordersByID \subseteq Orders \cup {None} /\ pooled \subseteq Orders
  /\ entered \in Seq(Orders) /\ calm \in BOOLEAN
  /\ DOMAIN op = Procs /\ \A p \in Procs : CallOK(op[p])

\* A call may have to wait for a lock that another call holds; for the read lock
\* of a tree (lines 871, 945) behind a call that waits to write it.  A call that
\* has yet to begin its scan (line 731), or that refreshes the cache of levels
\* when it is done (lines 889, 964: the read lock of one level after the other),
\* holds nothing and counts as idle.
WantsTree(p, s) ==
  \/ op[p].pc = "sweep" /\ Scanned(p) = s
  \/ op[p].pc \in {"create", "drop"} /\ Side[op[p].order] = s
ReadBarred(s) == ~TreeFree(s) /\ \E q \in Procs : WantsTree(q, s)
LocatesIn(o) == IF o \in pooled \/ Side[o] = "sell" THEN "sell" ELSE "buy"
Waits(p) ==
  \/ op[p].pc = "scan" /\ Ahead(p) # {} /\ ~LevelFree(NextLevel(p))
  \/ \E s \in {"buy", "sell"} : WantsTree(p, s) /\ ~TreeFree(s)
  \/ op[p].pc = "find" /\ ReadBarred(Side[op[p].order])
  \/ op[p].pc = "locate" /\ ReadBarred(LocatesIn(op[p].order))
  \/ op[p].pc \in {"attach", "remove"} /\ ~LevelFree(op[p].level)

\* line 359, "All locks acquired in B-tree -> PriceLevel order", is true of all calls
\* but one: if all calls in progress wait for each other, a CancelOrder among them
\* keeps the mutex of a level while it waits for a tree (line 952), and a scan,
\* which holds a tree, waits for that mutex.
OnlyCancelsStandOff ==
  (~AllIdle /\ \A p \in Procs : op[p] = Idle \/ Waits(p)) =>
    \E p, q \in Procs :
      /\ op[p].pc = "drop" /\ op[q].pc = "scan"
      /\ Ahead(q) # {} /\ NextLevel(q) = op[p].level

E == INSTANCE Exchange WITH closed <- pooled

\* A trade with an order that was wiped since the look at it.
TradesWiped(p) == op[p].pc = "trade" /\ NextMaker(p) \in pooled /\ op'[p] # op[p]

\* However the calls interleave, executions come in pairs of different users,
\* nobody executes more than asked for, and an order that was cancelled or was
\* filled while it rested trades no more (AddOrder's loop, CancelOrder).  Of this
\* the code keeps all but one thing: a cancel may wipe an order after AddOrder has
\* looked at it (line 962, between lines 737 and 755).  That step alone is
\* excepted, and nobody sets out to trade with an order that is closed already.
ImplementsExchange ==
  /\ E!Init /\ [][E!Next \/ \E p \in Procs : TradesWiped(p)]_(E!vars)
  /\ [][\A p \in Procs : op[p].pc # "trade" /\ op'[p].pc = "trade" =>
                              NextMaker(p) \notin pooled]_vars

\* Orders that should be in the book, and where an order is listed.
Resting == {o \in Rests : Placed(o) /\ ~Spent(o)}

InTree == {y \in {"buy", "sell"} \X Prices : book[y[1]][y[2]] # None}
LevelAt(y) == book[y[1]][y[2]]

\* How many times an order is listed at a price of a side.
Listed(y, o) ==
  LET c == chunks[LevelAt(y)]
  IN  Cardinality({ki \in (DOMAIN c) \X (1..ChunkSize) : ki[2] \in DOMAIN c[ki[1]] /\ c[ki[1]][ki[2]] = o})

\* As long as calls do not overlap, the index, the trees and the levels tell the
\* same story between calls: every order with a remainder is listed, at its own
\* price and side and once, nothing else is, no level is empty, and no level of
\* the trees lies in the pool or serves two prices.
SerialBook ==
  calm /\ AllIdle =>
    /\ ordersByID = Resting
    /\ \A y \in InTree :
         /\ ~IsEmpty(chunks[LevelAt(y)]) /\ spare[LevelAt(y)] = 0
         /\ \A z \in InTree : LevelAt(y) = LevelAt(z) => y = z
    /\ \A o \in Resting : <<Side[o], Price[o]>> \in InTree
    /\ \A y \in InTree : \A o \in Orders :
         Listed(y, o) = IF o \in Resting /\ y = <<Side[o], Price[o]>> THEN 1 ELSE 0

\* The two parties of a trade: the order added last came to take.
Parties == {o \in Orders : filled'[o] # filled[o]}
Taker   == entered[Len(entered)]
Before(o, m) == \E i, j \in DOMAIN entered : i < j /\ entered[i] = o /\ entered[j] = m

\* As long as calls do not overlap, trades are between opposite sides at a price
\* within both limits (line 745).
SerialTrades ==
  [][calm => \A t, m \in Parties :
       t # m => Side[t] # Side[m] /\ (Side[t] = "buy" => Price[t] >= Price[m])]_vars

\* As long as calls do not overlap, the orders of a price are executed in the
\* order of their arrival; only the taker's own orders are passed over.
TimePriority ==
  [][calm => \A m \in Parties : \A o \in Resting : m # Taker =>
       ~(/\ Side[o] = Side[m] /\ Price[o] = Price[m] /\ User[o] # User[Taker]
         /\ Before(o, m))]_vars

\* As long as calls do not overlap, prices are served in the order of their keys:
\* nobody is executed while an order of another user than the taker waits at a key
\* that comes before (the ascending scan of AddOrder, line 720).
KeyBefore(x, y) == \E i, j \in DOMAIN KeyOrder : i < j /\ KeyOrder[i] = x /\ KeyOrder[j] = y
FirstKeyFirst ==
  [][calm => \A m \in Parties : \A o \in Resting : m # Taker =>
       ~(Side[o] = Side[m] /\ User[o] # User[Taker] /\ KeyBefore(Price[o], Price[m]))]_vars

\* README.md:59 "Advanced matching engine with price-time priority": nobody is
\* executed while an order of another user waits at a better price.
Better(o, m) == IF Side[m] = "buy" THEN Price[o] > Price[m] ELSE Price[o] < Price[m]
BestPriceFirst ==
  [][calm => \A m \in Parties : \A o \in Resting : m # Taker =>
       ~(Side[o] = Side[m] /\ User[o] # User[Taker] /\ Better(o, m))]_vars

==============================================================================
