----------------------------- MODULE MCOrderBook -----------------------------
(***************************************************************************)
(* Instances of OrderBook for TLC.  The texts of the prices sort as        *)
(* "10" < "9": the keys of the trees are in the order <<10, 9>>.           *)
(***************************************************************************)
EXTENDS OrderBook, TLC

CONSTANTS p1, p2, s1, s2, s3, s4, b1, b2, l1, l2, l3, alice, bob, carol

OneProc     == {p1}
TwoProcs    == {p1, p2}
SixOrders   == {s1, s2, s3, s4, b1, b2}
ThreeLevels == {l1, l2, l3}
TextOrder   == <<10, 9>>

SideOf == [o \in SixOrders |-> IF o \in {b1, b2} THEN "buy" ELSE "sell"]
UserOf == [o \in SixOrders |-> CASE o \in {s1, s4} -> carol
                                 [] o \in {s2, b2} -> bob
                                 [] OTHER          -> alice]
QuantityOf == [o \in SixOrders |-> IF o = b1 THEN 2 ELSE 1]
RestOf     == SixOrders \ {b2}

\* Three sales at one price, which fill a buffer; a buyer of two of them, who
\* meets her own; a sale below the price, and a buyer of it, IOC.
PriceOf == [o \in SixOrders |-> IF o \in {s4, b2} THEN 9 ELSE 10]

\* Sales at two prices.
TwoPrices == [o \in SixOrders |-> IF o \in {s1, b2} THEN 9 ELSE 10]

Symmetry == Permutations(Procs) \cup Permutations(Levels)
==============================================================================
