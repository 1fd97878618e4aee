-------------------------- MODULE OrderBook_proofs --------------------------
(***************************************************************************)
(* The order book, proved for any number of goroutines, orders, levels,    *)
(* prices and for buffers of any size: its state has its types, and        *)
(* however AddOrder and CancelOrder interleave, the trades are those the   *)
(* module Exchange allows.                                                 *)
(*                                                                         *)
(* A trade must take from an order that is not closed. For the maker the   *)
(* loop of AddOrder looks (AdmitStep, SetsOut); a cancel may wipe it after *)
(* the look, and the step that then follows, MatchWiped, is the one that   *)
(* ImplementsExchange excepts. For the taker nobody looks: the argument is *)
(* that nothing has heard of an order before AddOrder puts it into a       *)
(* level, so that nobody can have cancelled or filled it (Newcomers), and  *)
(* that one call adds it (OneAdder). That needs in turn that levels,       *)
(* copies of levels and the index hold nothing that was not in one of them *)
(* before, which each step of a call is shown to respect (Steady).         *)
(*                                                                         *)
(* The second part is about calls that do not overlap.  Then one call at   *)
(* most is in progress, and everything else in the book is determined by   *)
(* how far it is (Story): which order is in no level, or not yet in the    *)
(* index, which levels it has emptied, which makers it has still to visit. *)
(* That the story goes on with each step (Quiet) gives the whole book      *)
(* between calls, trades within both limits and the order of arrival.      *)
(*                                                                         *)
(* The third part is the order of the prices: what a scan has passed holds *)
(* no order that the taker should have met (NobodyMissed).  The last is    *)
(* about the locks, and holds of every state: who can wait for whom.       *)
(***************************************************************************)
EXTENDS OrderBook, SequenceTheorems, FiniteSetTheorems, WellFoundedInduction, TLAPS

\* The chunks of a level: finitely many buffers, by number.
Chains == UNION {[D -> Seq(Orders)] : D \in SUBSET Nat}

Bounded(c) == \E n \in Nat : \A k \in DOMAIN c : k <= n

\* o is listed in the chain c.
Ins(o, c) == \E k \in DOMAIN c : \E i \in DOMAIN c[k] : c[k][i] = o

-----------------------------------------------------------------------------
\* A set of numbers that is not empty has a least element.
Less == {ss \in Nat \X Nat : ss[1] < ss[2]}

LEMMA LessWellFounded == IsWellFoundedOn(Less, Nat)
<1>1. OpToRel(<, Nat) = Less
  BY Zenon DEF OpToRel, Less
<1> QED
  BY <1>1, NatLessThanWellFounded, Zenon

LEMMA LeastIsThere ==
  ASSUME NEW S \in SUBSET Nat, S # {}
  PROVE  LeastOf(S) \in S /\ \A j \in S : LeastOf(S) <= j
<1>1. PICK i \in S : \A j \in S : ~ (<<j, i>> \in Less)
  BY LessWellFounded, WFMin, Zenon
<1>2. \A j \in S : i <= j
  <2> SUFFICES ASSUME NEW j \in S PROVE i <= j
    OBVIOUS
  <2>1. ~(<<j, i>> \in Less) /\ i \in Nat /\ j \in Nat
    BY <1>1
  <2>2. <<j, i>>[1] = j /\ <<j, i>>[2] = i
    OBVIOUS
  <2>3. ~(j < i)
    BY <2>1, <2>2, Zenon DEF Less
  <2> QED
    BY <2>1, <2>3
<1>3. IsLeast(S, i)
  BY <1>2 DEF IsLeast
<1> QED
  BY <1>3 DEF LeastOf, IsLeast

LEMMA LargestIsThere ==
  ASSUME NEW S \in SUBSET Nat, S # {}, NEW n \in Nat, \A k \in S : k <= n
  PROVE  LET top == CHOOSE k \in S : \A j \in S : j <= k
         IN  top \in S /\ \A j \in S : j <= top
<1> DEFINE U == {u \in Nat : \A k \in S : k <= u}
<1>1. LeastOf(U) \in U /\ \A u \in U : LeastOf(U) <= u
  <2>1. n \in U
    OBVIOUS
  <2> HIDE DEF U
  <2>2. U \in SUBSET Nat
    BY DEF U
  <2> QED
    BY <2>1, <2>2, LeastIsThere
<1> DEFINE m == LeastOf(U)
<1>2. m \in Nat /\ \A k \in S : k <= m
  BY <1>1
<1>3. m \in S
  <2> SUFFICES ASSUME m \notin S PROVE FALSE
    OBVIOUS
  <2>1. \A k \in S : k < m
    <3> HIDE DEF m
    <3> SUFFICES ASSUME NEW k \in S PROVE k < m
      OBVIOUS
    <3>1. k <= m /\ k # m /\ k \in Nat /\ m \in Nat
      BY <1>2
    <3> QED
      BY <3>1
  <2>2. m - 1 \in Nat /\ \A k \in S : k <= m - 1
    <3> HIDE DEF m
    <3>1. PICK k \in S : TRUE
      OBVIOUS
    <3>2. m - 1 \in Nat
      BY <1>2, <2>1, <3>1
    <3>3. ASSUME NEW j \in S PROVE j <= m - 1
      <4>1. j < m /\ j \in Nat /\ m \in Nat
        BY <1>2, <2>1
      <4> QED
        BY <4>1
    <3> QED
      BY <3>2, <3>3
  <2>3. m - 1 \in U
    BY <2>2
  <2> QED
    BY <1>1, <1>2, <2>3
<1> QED
  BY <1>2, <1>3

LEMMA ChainType == ASSUME NEW c \in Chains PROVE ChainOK(c) /\ DOMAIN c \in SUBSET Nat
BY DEF Chains, ChainOK

LEMMA ChainIntro ==
  ASSUME NEW D \in SUBSET Nat, NEW c \in [D -> Seq(Orders)] PROVE c \in Chains
BY DEF Chains

LEMMA EmptyChain == <<>> \in Chains /\ DOMAIN <<>> = {} /\ \A o : ~Ins(o, <<>>)
<1>1. <<>> \in [{} -> Seq(Orders)]
  OBVIOUS
<1>2. <<>> \in Chains
  BY <1>1, ChainIntro, Zenon
<1> QED
  BY <1>2 DEF Ins

LEMMA NonEmptyChain == ASSUME NEW c \in Chains, c # <<>> PROVE DOMAIN c # {}
<1> SUFFICES ASSUME DOMAIN c = {} PROVE FALSE
  OBVIOUS
<1>1. PICK D \in SUBSET Nat : c \in [D -> Seq(Orders)]
  BY DEF Chains
<1>2. c \in [{} -> Seq(Orders)]
  BY <1>1
<1> QED
  BY <1>2

-----------------------------------------------------------------------------
LEMMA RestrictedChain ==
  ASSUME NEW c \in Chains, NEW S \in SUBSET DOMAIN c
  PROVE  /\ Restrict(c, S) \in Chains /\ DOMAIN Restrict(c, S) = S
         /\ \A k \in S : Restrict(c, S)[k] = c[k]
         /\ \A o : Ins(o, Restrict(c, S)) => Ins(o, c)
         /\ Bounded(c) => Bounded(Restrict(c, S))
<1>1. DOMAIN Restrict(c, S) = S /\ \A k \in S : Restrict(c, S)[k] = c[k]
  BY DEF Restrict
<1>2. Restrict(c, S) \in [S -> Seq(Orders)] /\ S \in SUBSET Nat
  BY ChainType DEF Restrict, ChainOK
<1>3. Restrict(c, S) \in Chains
  BY <1>2, ChainIntro
<1> QED
  BY <1>1, <1>3 DEF Ins, Bounded

\* What is left of a copy of a level holds no empty buffer.
Todos == {c \in Chains : \A k \in DOMAIN c : c[k] # <<>>}

LEMMA SeenType ==
  ASSUME NEW c \in Chains
  PROVE  Seen(c) \in Todos /\ \A o : Ins(o, Seen(c)) => Ins(o, c)
<1> DEFINE S == {k \in Visible(c) : c[k] # <<>>}
<1>1. S \in SUBSET DOMAIN c
  BY DEF Visible
<1>2. Seen(c) = Restrict(c, S)
  BY DEF Seen
<1> HIDE DEF S
<1>3. /\ Seen(c) \in Chains /\ DOMAIN Seen(c) = S /\ \A k \in S : Seen(c)[k] = c[k]
      /\ \A o : Ins(o, Seen(c)) => Ins(o, c)
  BY <1>1, <1>2, RestrictedChain
<1> QED
  BY <1>3 DEF Todos, S

LEMMA NextInTodo ==
  ASSUME NEW c \in Todos, c # <<>>
  PROVE  LET k == LeastOf(DOMAIN c)
         IN  /\ k \in DOMAIN c /\ c[k] \in Seq(Orders) /\ c[k] # <<>>
             /\ Head(c[k]) \in Orders /\ Ins(Head(c[k]), c)
<1> DEFINE k == LeastOf(DOMAIN c)
<1>1. k \in DOMAIN c
  BY NonEmptyChain, ChainType, LeastIsThere DEF Todos
<1> HIDE DEF k
<1>2. c[k] \in Seq(Orders) /\ c[k] # <<>>
  BY <1>1, ChainType DEF Todos, ChainOK
<1>3. Head(c[k]) \in Orders /\ Head(c[k]) = c[k][1] /\ 1 \in DOMAIN c[k]
  BY <1>2, HeadTailProperties, LenProperties, EmptySeq
<1>4. Ins(Head(c[k]), c)
  BY <1>1, <1>3 DEF Ins
<1> QED
  BY <1>1, <1>2, <1>3, <1>4 DEF k

LEMMA TailInside ==
  ASSUME NEW s \in Seq(Orders), Len(s) # 1, s # <<>>
  PROVE  Tail(s) \in Seq(Orders) /\ Tail(s) # <<>> /\ \A i \in DOMAIN Tail(s) : \E j \in DOMAIN s : Tail(s)[i] = s[j]
<1>1. /\ Tail(s) \in Seq(Orders) /\ Len(Tail(s)) = Len(s) - 1
      /\ \A i \in 1 .. Len(Tail(s)) : Tail(s)[i] = s[i + 1]
  BY HeadTailProperties
<1>2. Len(s) \in Nat /\ Len(s) # 0
  BY LenProperties, EmptySeq
<1>3. Len(Tail(s)) # 0
  BY <1>1, <1>2
<1>4. DOMAIN Tail(s) = 1 .. Len(s) - 1 /\ DOMAIN s = 1 .. Len(s)
  BY <1>1, LenProperties
<1>5. ASSUME NEW i \in DOMAIN Tail(s) PROVE Tail(s)[i] = s[i + 1] /\ i + 1 \in DOMAIN s
  BY <1>1, <1>2, <1>4
<1> QED
  BY <1>1, <1>3, <1>5, EmptySeq

LEMMA BehindType ==
  ASSUME NEW c \in Todos, c # <<>>
  PROVE  Behind(c) \in Todos /\ \A o : Ins(o, Behind(c)) => Ins(o, c)
<1> DEFINE k == LeastOf(DOMAIN c)
<1>1. k \in DOMAIN c /\ c[k] \in Seq(Orders) /\ c[k] # <<>>
  BY NextInTodo
<1>0. c \in Chains
  BY DEF Todos
<1>2. CASE Len(c[k]) = 1
  <2>1. Behind(c) = Restrict(c, DOMAIN c \ {k})
    BY <1>2 DEF Behind
  <2> DEFINE S == DOMAIN c \ {k}
  <2>2. S \in SUBSET DOMAIN c
    OBVIOUS
  <2> HIDE DEF k, S
  <2>3. /\ Restrict(c, S) \in Chains /\ DOMAIN Restrict(c, S) = S
        /\ \A j \in S : Restrict(c, S)[j] = c[j]
        /\ \A o : Ins(o, Restrict(c, S)) => Ins(o, c)
    BY <1>0, <2>2, RestrictedChain
  <2>4. Restrict(c, S) \in Todos
    BY <2>2, <2>3 DEF Todos
  <2> QED
    BY <2>1, <2>3, <2>4 DEF S
<1>3. CASE Len(c[k]) # 1
  <2>1. Behind(c) = [c EXCEPT ![k] = Tail(@)]
    BY <1>3 DEF Behind
  <2> HIDE DEF k
  <2>2. Tail(c[k]) \in Seq(Orders) /\ Tail(c[k]) # <<>>
    BY <1>1, <1>3, TailInside
  <2>3. DOMAIN c \in SUBSET Nat /\ c \in [DOMAIN c -> Seq(Orders)]
    BY <1>0, ChainType DEF Chains
  <2>4. Behind(c) \in [DOMAIN c -> Seq(Orders)]
    BY <2>1, <2>2, <2>3
  <2>5. Behind(c) \in Chains
    BY <2>3, <2>4, ChainIntro
  <2>6. Behind(c) \in Todos
    BY <2>1, <2>2, <2>4, <2>5 DEF Todos
  <2>7. ASSUME NEW o, Ins(o, Behind(c)) PROVE Ins(o, c)
    <3>1. PICK j \in DOMAIN c : \E i \in DOMAIN Behind(c)[j] : Behind(c)[j][i] = o
      BY <2>4, <2>7 DEF Ins
    <3>2. CASE j = k
      <4>1. Behind(c)[j] = Tail(c[k])
        BY <2>1, <2>3, <3>2
      <4>2. PICK i \in DOMAIN c[k] : c[k][i] = o
        BY <1>1, <1>3, <3>1, <4>1, TailInside
      <4> QED
        BY <1>1, <4>2 DEF Ins
    <3>3. CASE j # k
      <4>1. Behind(c)[j] = c[j]
        BY <2>1, <2>3, <3>3
      <4> QED
        BY <3>1, <4>1 DEF Ins
    <3> QED
      BY <3>2, <3>3
  <2> QED
    BY <2>6, <2>7
<1> QED
  BY <1>2, <1>3

LEMMA AppendInside ==
  ASSUME NEW s \in Seq(Orders), NEW o \in Orders
  PROVE  Append(s, o) \in Seq(Orders) /\ \A i \in DOMAIN Append(s, o) : Append(s, o)[i] = o \/ \E j \in DOMAIN s : Append(s, o)[i] = s[j]
<1>1. /\ Append(s, o) \in Seq(Orders) /\ Len(Append(s, o)) = Len(s) + 1
      /\ \A i \in 1 .. Len(s) : Append(s, o)[i] = s[i]
      /\ Append(s, o)[Len(s) + 1] = o
  BY AppendProperties
<1>2. DOMAIN Append(s, o) = 1 .. Len(s) + 1 /\ DOMAIN s = 1 .. Len(s) /\ Len(s) \in Nat
  BY <1>1, LenProperties
<1>3. ASSUME NEW i \in DOMAIN Append(s, o), i # Len(s) + 1 PROVE i \in 1 .. Len(s)
  BY <1>2, <1>3
<1> QED
  BY <1>1, <1>2, <1>3

LEMMA WithOrderType ==
  ASSUME NEW c \in Chains, Bounded(c), NEW o \in Orders
  PROVE  /\ WithOrder(c, o) \in Chains /\ Bounded(WithOrder(c, o))
         /\ \A x : Ins(x, WithOrder(c, o)) => Ins(x, c) \/ x = o
<1>0. DOMAIN c \in SUBSET Nat /\ c \in [DOMAIN c -> Seq(Orders)]
  BY ChainType DEF Chains
<1>1. CASE Visible(c) # {}
  <2> DEFINE k == LeastOf(Visible(c))
  <2>1. k \in Visible(c)
    <3>1. Visible(c) \in SUBSET Nat
      BY <1>0 DEF Visible
    <3> QED
      BY <1>1, <3>1, LeastIsThere
  <2>2. k \in DOMAIN c /\ c[k] \in Seq(Orders)
    BY <1>0, <2>1 DEF Visible
  <2>3. WithOrder(c, o) = [c EXCEPT ![k] = Append(@, o)]
    BY <1>1 DEF WithOrder
  <2> HIDE DEF k
  <2>4. Append(c[k], o) \in Seq(Orders)
    BY <2>2, AppendInside
  <2>5. WithOrder(c, o) \in [DOMAIN c -> Seq(Orders)]
    BY <1>0, <2>3, <2>4
  <2>6. WithOrder(c, o) \in Chains
    BY <1>0, <2>5, ChainIntro
  <2>7. Bounded(WithOrder(c, o))
    BY <2>5 DEF Bounded
  <2>8. ASSUME NEW x, Ins(x, WithOrder(c, o)), x # o PROVE Ins(x, c)
    <3>1. PICK j \in DOMAIN c : \E i \in DOMAIN WithOrder(c, o)[j] : WithOrder(c, o)[j][i] = x
      BY <2>5, <2>8 DEF Ins
    <3>2. CASE j = k
      <4>1. WithOrder(c, o)[j] = Append(c[k], o)
        BY <1>0, <2>3, <3>2
      <4>2. PICK i \in DOMAIN c[k] : c[k][i] = x
        BY <2>2, <2>8, <3>1, <4>1, AppendInside
      <4> QED
        BY <2>2, <4>2 DEF Ins
    <3>3. CASE j # k
      <4>1. WithOrder(c, o)[j] = c[j]
        BY <1>0, <2>3, <3>3
      <4> QED
        BY <3>1, <4>1 DEF Ins
    <3> QED
      BY <3>2, <3>3
  <2> QED
    BY <2>6, <2>7, <2>8
<1>2. CASE Visible(c) = {}
  <2> DEFINE new == IF DOMAIN c = {} THEN 1 ELSE 1 + CHOOSE k \in DOMAIN c : \A j \in DOMAIN c : j <= k
             D   == DOMAIN c \cup {new}
  <2>1. new \in Nat /\ \A k \in DOMAIN c : k < new
    <3>1. CASE DOMAIN c = {}
      BY <3>1
    <3>2. CASE DOMAIN c # {}
      <4> DEFINE top == CHOOSE k \in DOMAIN c : \A j \in DOMAIN c : j <= k
      <4>1. top \in DOMAIN c /\ \A j \in DOMAIN c : j <= top
        <5>1. PICK n \in Nat : \A k \in DOMAIN c : k <= n
          BY DEF Bounded
        <5> QED
          BY <1>0, <3>2, <5>1, LargestIsThere
      <4>2. new = 1 + top
        BY <3>2
      <4> HIDE DEF top, new
      <4>3. ASSUME NEW k \in DOMAIN c PROVE k < new
        <5>1. k <= top /\ k \in Nat /\ top \in Nat
          BY <1>0, <4>1
        <5> QED
          BY <4>2, <5>1
      <4>4. top \in Nat
        BY <1>0, <4>1
      <4> QED
        BY <4>2, <4>3, <4>4
    <3> QED
      BY <3>1, <3>2
  <2>2. WithOrder(c, o) = [k \in D |-> IF k = new THEN <<o>> ELSE c[k]]
    BY <1>2 DEF WithOrder
  <2> HIDE DEF new
  <2>3. D \in SUBSET Nat
    BY <1>0, <2>1
  <2>4. WithOrder(c, o) \in [D -> Seq(Orders)]
    <3>1. <<o>> \in Seq(Orders)
      OBVIOUS
    <3> QED
      BY <1>0, <2>2, <3>1
  <2>5. WithOrder(c, o) \in Chains
    BY <2>3, <2>4, ChainIntro
  <2>6. Bounded(WithOrder(c, o))
    <3>1. \A k \in D : k <= new
      <4> SUFFICES ASSUME NEW k \in D PROVE k <= new
        OBVIOUS
      <4> QED
        BY <1>0, <2>1
    <3> QED
      BY <2>1, <2>4, <3>1 DEF Bounded
  <2>7. ASSUME NEW x, Ins(x, WithOrder(c, o)), x # o PROVE Ins(x, c)
    <3>1. PICK j \in D : \E i \in DOMAIN WithOrder(c, o)[j] : WithOrder(c, o)[j][i] = x
      BY <2>4, <2>7 DEF Ins
    <3>2. CASE j = new
      <4>1. WithOrder(c, o)[j] = <<o>>
        BY <2>2, <3>2
      <4>2. \A i \in DOMAIN <<o>> : <<o>>[i] = o
        OBVIOUS
      <4> QED
        BY <2>7, <3>1, <4>1, <4>2
    <3>3. CASE j # new
      <4>1. WithOrder(c, o)[j] = c[j] /\ j \in DOMAIN c
        BY <2>2, <3>3
      <4> QED
        BY <3>1, <4>1 DEF Ins
    <3> QED
      BY <3>2, <3>3
  <2> QED
    BY <2>5, <2>6, <2>7
<1> QED
  BY <1>1, <1>2

LEMMA CutInside ==
  ASSUME NEW s \in Seq(Orders), NEW i \in DOMAIN s
  PROVE  LET r == SubSeq(s, 1, i - 1) \o SubSeq(s, i + 1, Len(s))
         IN  r \in Seq(Orders) /\ \A k \in DOMAIN r : \E j \in DOMAIN s : r[k] = s[j]
<1> DEFINE a == SubSeq(s, 1, i - 1)
           b == SubSeq(s, i + 1, Len(s))
<1>1. DOMAIN s = 1 .. Len(s) /\ Len(s) \in Nat /\ i \in 1 .. Len(s)
  BY LenProperties
<1>2. a \in Seq(Orders) /\ \A k \in 1 .. Len(a) : \E j \in DOMAIN s : a[k] = s[j]
  <2>1. \A k \in 1 .. i - 1 : s[k] \in Orders
    BY <1>1, ElementOfSeq
  <2>2. /\ a \in Seq(Orders) /\ Len(a) = (IF 1 <= i - 1 THEN i - 1 - 1 + 1 ELSE 0)
        /\ \A k \in 1 .. i - 1 - 1 + 1 : a[k] = s[1 + k - 1]
    BY <1>1, <2>1, SubSeqProperties
  <2>3. ASSUME NEW k \in 1 .. Len(a) PROVE a[k] = s[k] /\ k \in DOMAIN s
    <3> HIDE DEF a
    <3>1. k \in 1 .. i - 1
      BY <1>1, <2>2
    <3> QED
      BY <1>1, <2>2, <3>1
  <2> QED
    BY <2>2, <2>3
<1>3. b \in Seq(Orders) /\ \A k \in 1 .. Len(b) : \E j \in DOMAIN s : b[k] = s[j]
  <2>1. \A k \in i + 1 .. Len(s) : s[k] \in Orders
    BY <1>1, ElementOfSeq
  <2>2. /\ b \in Seq(Orders) /\ Len(b) = (IF i + 1 <= Len(s) THEN Len(s) - (i + 1) + 1 ELSE 0)
        /\ \A k \in 1 .. Len(s) - (i + 1) + 1 : b[k] = s[i + 1 + k - 1]
    BY <1>1, <2>1, SubSeqProperties
  <2>3. ASSUME NEW k \in 1 .. Len(b) PROVE b[k] = s[i + k] /\ i + k \in DOMAIN s
    <3> HIDE DEF b
    <3> DEFINE n == Len(s)
    <3>0. n \in Nat /\ i \in 1 .. n
      BY <1>1
    <3>1. k \in Nat /\ 1 <= k /\ (IF i + 1 <= n THEN k <= n - (i + 1) + 1 ELSE k <= 0)
      BY <2>2
    <3>2. \A j \in 1 .. n - (i + 1) + 1 : b[j] = s[i + 1 + j - 1]
      BY <2>2
    <3> HIDE DEF n
    <3>3. k \in 1 .. n - (i + 1) + 1 /\ i + 1 + k - 1 = i + k /\ i + k \in 1 .. n
      BY <3>0, <3>1
    <3>4. b[k] = s[i + 1 + k - 1]
      BY <3>2, <3>3, Zenon
    <3> QED
      BY <1>1, <3>3, <3>4 DEF n
  <2> QED
    BY <2>2, <2>3
<1> HIDE DEF a, b
<1>4. /\ a \o b \in Seq(Orders) /\ Len(a \o b) = Len(a) + Len(b)
      /\ \A k \in 1 .. Len(a) + Len(b) : (a \o b)[k] = (IF k <= Len(a) THEN a[k] ELSE b[k - Len(a)])
  BY <1>2, <1>3, ConcatProperties
<1>5. ASSUME NEW k \in DOMAIN (a \o b) PROVE \E j \in DOMAIN s : (a \o b)[k] = s[j]
  <2>1. Len(a) \in Nat /\ Len(b) \in Nat /\ k \in 1 .. Len(a) + Len(b)
    BY <1>2, <1>3, <1>4, LenProperties
  <2>2. CASE k <= Len(a)
    BY <1>2, <1>4, <2>1, <2>2
  <2>3. CASE ~(k <= Len(a))
    <3>1. k - Len(a) \in 1 .. Len(b)
      BY <2>1, <2>3
    <3> QED
      BY <1>3, <1>4, <2>1, <2>3, <3>1
  <2> QED
    BY <2>2, <2>3
<1> QED
  BY <1>4, <1>5 DEF a, b

LEMMA WithoutType ==
  ASSUME NEW s \in Seq(Orders), NEW o
  PROVE  Without(s, o) \in Seq(Orders) /\ \A k \in DOMAIN Without(s, o) : \E j \in DOMAIN s : Without(s, o)[k] = s[j]
<1>1. CASE Len(s) < ChunkSize /\ \E i \in DOMAIN s : s[i] = o
  <2> DEFINE i == CHOOSE i \in DOMAIN s : s[i] = o
  <2>1. i \in DOMAIN s
    BY <1>1
  <2>2. Without(s, o) = SubSeq(s, 1, i - 1) \o SubSeq(s, i + 1, Len(s))
    BY <1>1 DEF Without
  <2> HIDE DEF i
  <2> DEFINE r == SubSeq(s, 1, i - 1) \o SubSeq(s, i + 1, Len(s))
  <2>3. r \in Seq(Orders) /\ \A k \in DOMAIN r : \E j \in DOMAIN s : r[k] = s[j]
    BY <2>1, CutInside
  <2> HIDE DEF r
  <2>4. Without(s, o) = r
    BY <2>2 DEF r
  <2> QED
    BY <2>3, <2>4
<1>2. CASE ~(Len(s) < ChunkSize /\ \E i \in DOMAIN s : s[i] = o)
  BY <1>2 DEF Without
<1> QED
  BY <1>1, <1>2

LEMMA WithoutOrderType ==
  ASSUME NEW c \in Chains, Bounded(c), NEW o
  PROVE  /\ WithoutOrder(c, o) \in Chains /\ Bounded(WithoutOrder(c, o))
         /\ \A x : Ins(x, WithoutOrder(c, o)) => Ins(x, c)
<1> DEFINE rest == [k \in DOMAIN c |-> Without(c[k], o)]
<1>0. DOMAIN c \in SUBSET Nat /\ c \in [DOMAIN c -> Seq(Orders)]
  BY ChainType DEF Chains
<1>1. PICK S \in SUBSET DOMAIN c : WithoutOrder(c, o) = Restrict(rest, S)
  BY Zenon DEF WithoutOrder
<1>2. rest \in [DOMAIN c -> Seq(Orders)] /\ \A x : Ins(x, rest) => Ins(x, c)
  <2>1. ASSUME NEW k \in DOMAIN c
        PROVE  rest[k] \in Seq(Orders) /\ \A i \in DOMAIN rest[k] : \E j \in DOMAIN c[k] : rest[k][i] = c[k][j]
    BY <1>0, WithoutType
  <2> DOMAIN rest = DOMAIN c
    OBVIOUS
  <2>2. rest \in [DOMAIN c -> Seq(Orders)]
    BY <2>1
  <2> HIDE DEF rest
  <2> QED
    BY <2>1, <2>2 DEF Ins
<1> HIDE DEF rest
<1>3. rest \in Chains
  BY <1>0, <1>2, ChainIntro
<1>4. Bounded(rest)
  BY <1>2 DEF Bounded
<1>5. S \in SUBSET DOMAIN rest
  BY <1>2
<1> QED
  BY <1>1, <1>2, <1>3, <1>4, <1>5, RestrictedChain

-----------------------------------------------------------------------------
Calls == [pc : Pcs, order : Orders \cup {None}, at : Nat, level : Levels \cup {None},
          todo : Todos, gone : SUBSET Prices]

CallInv(k) ==
  /\ k \in Calls
  /\ k.pc # "idle" => k.order \in Orders
  /\ k.pc = "idle" => k.order = None
  /\ k.pc \in {"visit", "trade"} => k.at \in DOMAIN KeyOrder
  /\ k.pc = "trade" => k.todo # <<>>
  /\ k.pc \in {"visit", "trade", "attach", "remove", "drop"} => k.level \in Levels

CallsInv == op \in [Procs -> Calls] /\ \A p \in Procs : CallInv(op[p])

TypeInv ==
  /\ book \in [{"buy", "sell"} -> [Prices -> Levels \cup {None}]]
  /\ chunks \in [Levels -> Chains] /\ \A l \in Levels : Bounded(chunks[l])
  /\ spare \in [Levels -> Nat] /\ made \subseteq Levels
  /\ filled \in [Orders -> Nat] /\ \A o \in Orders : filled[o] <= Quantity[o]
  /\ ordersByID \subseteq Orders \cup {None} /\ pooled \subseteq Orders
  /\ entered \in Seq(Orders) /\ calm \in BOOLEAN
  /\ CallsInv

Made(pc, o, i, l, c, g) ==
  [pc |-> pc, order |-> o, at |-> i, level |-> l, todo |-> c, gone |-> g]

LEMMA PricesFinite == IsFiniteSet(Prices) /\ Prices \subseteq Nat
<1>1. DOMAIN KeyOrder = 1 .. Len(KeyOrder) /\ Len(KeyOrder) \in Nat
  BY KeysAssumption, LenProperties
<1>2. IsFiniteSet(DOMAIN KeyOrder)
  BY <1>1, FS_Interval
<1>3. IsFiniteSet(Prices)
  <2>1. KeyOrder \in [DOMAIN KeyOrder -> Prices]
    BY KeysAssumption DEF Prices
  <2>2. \A x \in Prices : \E i \in DOMAIN KeyOrder : KeyOrder[i] = x
    BY DEF Prices
  <2>3. KeyOrder \in Surjection(DOMAIN KeyOrder, Prices)
    BY <2>1, <2>2 DEF Surjection
  <2> QED
    BY <1>2, <2>3, FS_Surjection
<1> QED
  BY <1>3, KeysAssumption DEF Prices

LEMMA OpMoves ==
  ASSUME CallsInv, NEW p \in Procs, NEW k, CallInv(k), op' = [op EXCEPT ![p] = k]
  PROVE  CallsInv' /\ op'[p] = k /\ \A q \in Procs \ {p} : op'[q] = op[q]
<1>1. k \in Calls
  BY DEF CallInv
<1>2. op' \in [Procs -> Calls] /\ op'[p] = k /\ \A q \in Procs \ {p} : op'[q] = op[q]
  BY <1>1 DEF CallsInv
<1>3. \A q \in Procs : CallInv(op'[q])
  BY <1>2 DEF CallsInv
<1> QED
  BY <1>2, <1>3 DEF CallsInv, CallInv

LEMMA IsMade ==
  ASSUME NEW k \in Calls
  PROVE  k = Made(k.pc, k.order, k.at, k.level, k.todo, k.gone)
BY DEF Calls, Made

LEMMA OneField ==
  ASSUME NEW k \in Calls, NEW x
  PROVE  /\ [k EXCEPT !.pc = x] = Made(x, k.order, k.at, k.level, k.todo, k.gone)
         /\ [k EXCEPT !.at = x] = Made(k.pc, k.order, x, k.level, k.todo, k.gone)
         /\ [k EXCEPT !.level = x] = Made(k.pc, k.order, k.at, x, k.todo, k.gone)
         /\ [k EXCEPT !.todo = x] = Made(k.pc, k.order, k.at, k.level, x, k.gone)
         /\ [k EXCEPT !.gone = x] = Made(k.pc, k.order, k.at, k.level, k.todo, x)
BY DEF Calls, Made

LEMMA PcLevel ==
  ASSUME NEW k \in Calls, NEW x, NEW y
  PROVE  [k EXCEPT !.pc = x, !.level = y] = Made(x, k.order, k.at, y, k.todo, k.gone)
<1> DEFINE m == Made(x, k.order, k.at, k.level, k.todo, k.gone)
<1>1. [k EXCEPT !.pc = x] = m
  BY OneField
<1>2. [m EXCEPT !.level = y] = Made(x, k.order, k.at, y, k.todo, k.gone)
  BY DEF Made
<1>3. [k EXCEPT !.pc = x, !.level = y] = [[k EXCEPT !.pc = x] EXCEPT !.level = y]
  OBVIOUS
<1> HIDE DEF m
<1> QED
  BY <1>1, <1>2, <1>3

LEMMA PcLevelTodo ==
  ASSUME NEW k \in Calls, NEW x, NEW y, NEW z
  PROVE  [k EXCEPT !.pc = x, !.level = y, !.todo = z] = Made(x, k.order, k.at, y, z, k.gone)
<1> DEFINE m == Made(x, k.order, k.at, y, k.todo, k.gone)
<1>1. [k EXCEPT !.pc = x, !.level = y] = m
  BY PcLevel
<1>2. [m EXCEPT !.todo = z] = Made(x, k.order, k.at, y, z, k.gone)
  BY DEF Made
<1>3. [k EXCEPT !.pc = x, !.level = y, !.todo = z] = [[k EXCEPT !.pc = x, !.level = y] EXCEPT !.todo = z]
  OBVIOUS
<1> HIDE DEF m
<1> QED
  BY <1>1, <1>2, <1>3

LEMMA PcAtLevelTodo ==
  ASSUME NEW k \in Calls, NEW x, NEW y, NEW z, NEW w
  PROVE  [k EXCEPT !.pc = x, !.at = y, !.level = z, !.todo = w] = Made(x, k.order, y, z, w, k.gone)
<1> DEFINE m == Made(x, k.order, k.at, k.level, k.todo, k.gone)
           n == Made(x, k.order, y, k.level, k.todo, k.gone)
           r == Made(x, k.order, y, z, k.todo, k.gone)
<1>1. [k EXCEPT !.pc = x] = m
  BY OneField
<1>2. [m EXCEPT !.at = y] = n
  BY DEF Made
<1>3. [n EXCEPT !.level = z] = r
  BY DEF Made
<1>4. [r EXCEPT !.todo = w] = Made(x, k.order, y, z, w, k.gone)
  BY DEF Made
<1>5. [k EXCEPT !.pc = x, !.at = y, !.level = z, !.todo = w]
        = [[[[k EXCEPT !.pc = x] EXCEPT !.at = y] EXCEPT !.level = z] EXCEPT !.todo = w]
  OBVIOUS
<1> HIDE DEF m, n, r
<1> QED
  BY <1>1, <1>2, <1>3, <1>4, <1>5

LEMMA OpPc ==
  ASSUME CallsInv, NEW p \in Procs, NEW x
  PROVE  [op EXCEPT ![p].pc = x] = [op EXCEPT ![p] = Made(x, op[p].order, op[p].at, op[p].level, op[p].todo, op[p].gone)]
<1>1. [op EXCEPT ![p].pc = x] = [op EXCEPT ![p] = [op[p] EXCEPT !.pc = x]]
  BY DEF CallsInv
<1>2. [op[p] EXCEPT !.pc = x] = Made(x, op[p].order, op[p].at, op[p].level, op[p].todo, op[p].gone)
  <2> SUFFICES ASSUME NEW k \in Calls PROVE [k EXCEPT !.pc = x] = Made(x, k.order, k.at, k.level, k.todo, k.gone)
    BY Zenon DEF CallsInv
  <2> QED
    BY OneField
<1> QED
  BY <1>1, <1>2, Zenon

LEMMA PcTodo ==
  ASSUME NEW k \in Calls, NEW x, NEW y
  PROVE  [k EXCEPT !.pc = x, !.todo = y] = Made(x, k.order, k.at, k.level, y, k.gone)
<1> DEFINE m == Made(x, k.order, k.at, k.level, k.todo, k.gone)
<1>1. [k EXCEPT !.pc = x] = m
  BY OneField
<1>2. [m EXCEPT !.todo = y] = Made(x, k.order, k.at, k.level, y, k.gone)
  BY DEF Made
<1>3. [k EXCEPT !.pc = x, !.todo = y] = [[k EXCEPT !.pc = x] EXCEPT !.todo = y]
  OBVIOUS
<1> HIDE DEF m
<1> QED
  BY <1>1, <1>2, <1>3

LEMMA OpPcTodo ==
  ASSUME CallsInv, NEW p \in Procs, NEW x, NEW y
  PROVE  [op EXCEPT ![p].pc = x, ![p].todo = y] = [op EXCEPT ![p] = Made(x, op[p].order, op[p].at, op[p].level, y, op[p].gone)]
<1>1. [op EXCEPT ![p].pc = x, ![p].todo = y] = [op EXCEPT ![p] = [op[p] EXCEPT !.pc = x, !.todo = y]]
  BY DEF CallsInv
<1>2. [op[p] EXCEPT !.pc = x, !.todo = y] = Made(x, op[p].order, op[p].at, op[p].level, y, op[p].gone)
  <2> SUFFICES ASSUME NEW k \in Calls PROVE [k EXCEPT !.pc = x, !.todo = y] = Made(x, k.order, k.at, k.level, y, k.gone)
    BY Zenon DEF CallsInv
  <2> QED
    BY PcTodo
<1> QED
  BY <1>1, <1>2, Zenon

LEMMA OpPcLevel ==
  ASSUME CallsInv, NEW p \in Procs, NEW x, NEW y
  PROVE  [op EXCEPT ![p].pc = x, ![p].level = y] = [op EXCEPT ![p] = Made(x, op[p].order, op[p].at, y, op[p].todo, op[p].gone)]
<1>1. [op EXCEPT ![p].pc = x, ![p].level = y] = [op EXCEPT ![p] = [op[p] EXCEPT !.pc = x, !.level = y]]
  BY DEF CallsInv
<1>2. [op[p] EXCEPT !.pc = x, !.level = y] = Made(x, op[p].order, op[p].at, y, op[p].todo, op[p].gone)
  <2> SUFFICES ASSUME NEW k \in Calls PROVE [k EXCEPT !.pc = x, !.level = y] = Made(x, k.order, k.at, y, k.todo, k.gone)
    BY Zenon DEF CallsInv
  <2> QED
    BY PcLevel
<1> QED
  BY <1>1, <1>2, Zenon

LEMMA MadeInv ==
  ASSUME NEW pc \in Pcs, NEW o \in Orders \cup {None}, NEW i \in Nat, NEW l \in Levels \cup {None},
         NEW c \in Todos, NEW g \in SUBSET Prices,
         pc # "idle" => o \in Orders,
         pc = "idle" => o = None,
         pc \in {"visit", "trade"} => i \in DOMAIN KeyOrder,
         pc = "trade" => c # <<>>,
         pc \in {"visit", "trade", "attach", "remove", "drop"} => l \in Levels
  PROVE  CallInv(Made(pc, o, i, l, c, g))
BY DEF CallInv, Calls, Made

LEMMA MadeFields ==
  ASSUME NEW pc, NEW o, NEW i, NEW l, NEW c, NEW g
  PROVE  LET k == Made(pc, o, i, l, c, g)
         IN  k.pc = pc /\ k.order = o /\ k.at = i /\ k.level = l /\ k.todo = c /\ k.gone = g
BY DEF Made

LEMMA NoTodo == <<>> \in Todos
BY EmptyChain DEF Todos

AddingPcs == {"scan", "visit", "trade", "sweep", "find", "create", "attach"}

LEMMA IdleMade == Idle = Made("idle", None, 0, None, <<>>, {}) /\ CallInv(Idle)
<1>1. Idle = Made("idle", None, 0, None, <<>>, {})
  BY DEF Idle, Made
<1>2. "idle" \in Pcs
  BY DEF Pcs
<1> QED
  BY <1>1, <1>2, NoTodo, MadeInv

\* What follows the scan is a call of the same order, or none.
After(o, g) ==
  IF g # {} THEN Made("sweep", o, 0, None, <<>>, g)
  ELSE IF Left(o) > 0 /\ o \in Rests THEN Made("find", o, 0, None, <<>>, {})
  ELSE Idle

LEMMA AfterwardsMade ==
  ASSUME NEW o \in Orders, NEW k, k.gone \in SUBSET Prices
  PROVE  LET a == Afterwards(o, k)
         IN  /\ CallInv(a) /\ a.todo = <<>> /\ a = After(o, k.gone)
             /\ (a.pc \in AddingPcs /\ a.order = o) \/ a = Idle
<1>1. CASE k.gone # {}
  <2>1. Afterwards(o, k) = [Idle EXCEPT !.pc = "sweep", !.order = o, !.gone = k.gone]
    BY <1>1 DEF Afterwards
  <2>2. Afterwards(o, k) = Made("sweep", o, 0, None, <<>>, k.gone)
    BY <2>1 DEF Idle, Made
  <2>3. CallInv(Afterwards(o, k))
    <3>1. "sweep" \in Pcs
      BY DEF Pcs
    <3> QED
      BY <2>2, <3>1, NoTodo, MadeInv
  <2> QED
    BY <1>1, <2>2, <2>3, MadeFields DEF AddingPcs, After
<1>2. CASE k.gone = {} /\ Left(o) > 0 /\ o \in Rests
  <2>1. Afterwards(o, k) = [Idle EXCEPT !.pc = "find", !.order = o]
    BY <1>2 DEF Afterwards
  <2>2. Afterwards(o, k) = Made("find", o, 0, None, <<>>, {})
    BY <2>1 DEF Idle, Made
  <2>3. CallInv(Afterwards(o, k))
    <3>1. "find" \in Pcs
      BY DEF Pcs
    <3> QED
      BY <2>2, <3>1, NoTodo, MadeInv
  <2> QED
    BY <1>2, <2>2, <2>3, MadeFields DEF AddingPcs, After
<1>3. CASE k.gone = {} /\ ~(Left(o) > 0 /\ o \in Rests)
  <2>1. Afterwards(o, k) = Idle
    BY <1>3 DEF Afterwards
  <2> QED
    BY <1>3, <2>1, IdleMade, MadeFields DEF After
<1> QED
  BY <1>1, <1>2, <1>3

-----------------------------------------------------------------------------
\* An order that the book has heard of.
Known(o) ==
  \/ o \in ordersByID \cup pooled
  \/ \E l \in Levels : Ins(o, chunks[l])
  \/ \E q \in Procs : Ins(o, op[q].todo)

Adding(p) == op[p].pc \in AddingPcs

Moved(p) ==
  /\ CallsInv'
  /\ \A q \in Procs \ {p} : op'[q] = op[q]
  /\ op'[p].order \in {op[p].order, None}
  /\ op'[p].pc \in AddingPcs => Adding(p) /\ op'[p].order = op[p].order

LEMMA Moves ==
  ASSUME CallsInv, NEW p \in Procs, NEW k, CallInv(k), op' = [op EXCEPT ![p] = k],
         k.order \in {op[p].order, None},
         k.pc \in AddingPcs => Adding(p) /\ k.order = op[p].order
  PROVE  Moved(p) /\ op'[p] = k
BY OpMoves DEF Moved

LEMMA AfterwardsMoves ==
  ASSUME CallsInv, NEW p \in Procs, Adding(p), NEW k, k.gone \in SUBSET Prices,
         op' = [op EXCEPT ![p] = Afterwards(op[p].order, k)]
  PROVE  Moved(p) /\ op'[p].todo = <<>> /\ op'[p] = After(op[p].order, k.gone)
<1>1. op[p].order \in Orders
  BY DEF CallsInv, CallInv, Adding, AddingPcs
<1> DEFINE a == Afterwards(op[p].order, k)
<1>2. CallInv(a) /\ a.todo = <<>> /\ a = After(op[p].order, k.gone) /\ ((a.pc \in AddingPcs /\ a.order = op[p].order) \/ a = Idle)
  BY <1>1, AfterwardsMade
<1>3. Idle.order = None /\ Idle.pc \notin AddingPcs
  BY IdleMade, MadeFields DEF AddingPcs
<1> HIDE DEF a
<1>4. op' = [op EXCEPT ![p] = a]
  BY DEF a
<1> QED
  BY <1>2, <1>3, <1>4, Moves

\* A call that goes on with some fields changed.
LEMMA MadeMoves ==
  ASSUME CallsInv, NEW p \in Procs, NEW pc \in Pcs \ {"idle"}, NEW i \in Nat, NEW l \in Levels \cup {None},
         NEW c \in Todos, NEW g \in SUBSET Prices, op[p].pc # "idle",
         pc \in {"visit", "trade"} => i \in DOMAIN KeyOrder,
         pc = "trade" => c # <<>>,
         pc \in {"visit", "trade", "attach", "remove", "drop"} => l \in Levels,
         pc \in AddingPcs => Adding(p),
         op' = [op EXCEPT ![p] = Made(pc, op[p].order, i, l, c, g)]
  PROVE  Moved(p) /\ op'[p] = Made(pc, op[p].order, i, l, c, g)
<1> DEFINE k == Made(pc, op[p].order, i, l, c, g)
<1>1. op[p].order \in Orders
  BY DEF CallsInv, CallInv
<1>2. CallInv(k)
  BY <1>1, MadeInv
<1>3. k.order = op[p].order /\ k.pc = pc
  BY MadeFields
<1> HIDE DEF k
<1>4. op' = [op EXCEPT ![p] = k]
  BY DEF k
<1>5. Moved(p) /\ op'[p] = k
  BY <1>2, <1>3, <1>4, Moves
<1> QED
  BY <1>5 DEF k

-----------------------------------------------------------------------------
\* What a step of p, other than its AddOrder, does: nothing comes from nowhere.
Steady(p) ==
  /\ Moved(p) /\ entered' = entered
  /\ \A o \in Orders : Known(o)' => Known(o) \/ (o = op[p].order /\ ~Adding(p)')

LEMMA Heard ==
  ASSUME NEW p \in Procs, Moved(p), entered' = entered,
         \A o \in Orders :
           (o \in ordersByID' \cup pooled' \/ (\E l \in Levels : Ins(o, chunks'[l])) \/ Ins(o, op'[p].todo))
             => Known(o) \/ (o = op[p].order /\ op'[p].pc \notin AddingPcs)
  PROVE  Steady(p)
<1> SUFFICES ASSUME NEW o \in Orders, Known(o)' PROVE Known(o) \/ (o = op[p].order /\ op'[p].pc \notin AddingPcs)
  BY DEF Steady, Adding
<1>1. CASE o \in ordersByID' \cup pooled' \/ (\E l \in Levels : Ins(o, chunks'[l])) \/ Ins(o, op'[p].todo)
  BY <1>1
<1>2. ASSUME NEW q \in Procs \ {p}, Ins(o, op'[q].todo) PROVE Known(o)
  <2>1. op'[q] = op[q]
    BY DEF Moved
  <2> QED
    BY <1>2, <2>1 DEF Known
<1> QED
  BY <1>1, <1>2 DEF Known, Ins

\* Steps that leave the levels, the index and the executions alone.
LEMMA QuietStep ==
  ASSUME TypeInv, NEW p \in Procs, Moved(p),
         UNCHANGED <<chunks, filled, ordersByID, pooled, entered, calm>>,
         \A o : Ins(o, op'[p].todo) => Known(o),
         book' \in [{"buy", "sell"} -> [Prices -> Levels \cup {None}]],
         spare' \in [Levels -> Nat], made' \subseteq Levels
  PROVE  TypeInv' /\ Steady(p)
<1>1. TypeInv'
  BY DEF TypeInv, Moved
<1>2. Steady(p)
  <2>1. \A o \in Orders : o \in ordersByID' \cup pooled' \/ (\E l \in Levels : Ins(o, chunks'[l])) => Known(o)
    BY DEF Known
  <2> QED
    BY <2>1, Heard
<1> QED
  BY <1>1, <1>2

LEMMA StayedTypes ==
  ASSUME TypeInv, UNCHANGED <<book, spare, made>>
  PROVE  /\ book' \in [{"buy", "sell"} -> [Prices -> Levels \cup {None}]]
         /\ spare' \in [Levels -> Nat] /\ made' \subseteq Levels
BY DEF TypeInv

LEMMA CallFacts ==
  ASSUME TypeInv, NEW p \in Procs
  PROVE  /\ CallsInv /\ op[p] \in Calls /\ p \in DOMAIN op /\ CallInv(op[p])
         /\ op[p].at \in Nat /\ op[p].level \in Levels \cup {None}
         /\ op[p].todo \in Todos /\ op[p].gone \in SUBSET Prices /\ op[p].pc \in Pcs
BY DEF TypeInv, CallsInv, Calls

LEMMA TodoKnown ==
  ASSUME NEW p \in Procs, NEW o, Ins(o, op[p].todo)
  PROVE  Known(o)
BY DEF Known

\* The tree that a call scans, and the level it comes to next.
LEMMA NextLevelType ==
  ASSUME TypeInv, NEW p \in Procs, op[p].pc = "scan", Ahead(p) # {}
  PROVE  /\ LeastOf(Ahead(p)) \in DOMAIN KeyOrder /\ LeastOf(Ahead(p)) \in Nat
         /\ NextLevel(p) \in Levels
<1>1. Ahead(p) \in SUBSET Nat /\ Ahead(p) \subseteq DOMAIN KeyOrder
  <2>1. DOMAIN KeyOrder = 1 .. Len(KeyOrder)
    BY KeysAssumption, LenProperties
  <2> QED
    BY <2>1 DEF Ahead
<1>2. LeastOf(Ahead(p)) \in Ahead(p)
  BY <1>1, LeastIsThere
<1>3. Scanned(p) \in {"buy", "sell"}
  BY DEF Scanned, Opposite
<1>4. KeyOrder[LeastOf(Ahead(p))] \in Prices
  BY <1>1, <1>2 DEF Prices
<1>5. NextLevel(p) # None
  BY <1>2 DEF Ahead, NextLevel
<1>6. NextLevel(p) \in Levels \cup {None}
  BY <1>3, <1>4 DEF TypeInv, NextLevel
<1> QED
  BY <1>1, <1>2, <1>5, <1>6

LEMMA OpenLevelStep ==
  ASSUME TypeInv, NEW p \in Procs, OpenLevel(p)
  PROVE  /\ TypeInv' /\ Steady(p)
         /\ op'[p] = Made("visit", op[p].order, LeastOf(Ahead(p)), NextLevel(p), Seen(chunks[NextLevel(p)]), op[p].gone)
<1> DEFINE l == NextLevel(p)
           i == LeastOf(Ahead(p))
           t == Seen(chunks[NextLevel(p)])
<1>1. op[p].pc = "scan" /\ Ahead(p) # {}
  BY DEF OpenLevel
<1>2. i \in DOMAIN KeyOrder /\ i \in Nat /\ l \in Levels
  BY <1>1, NextLevelType
<1>3. chunks[l] \in Chains
  BY <1>2 DEF TypeInv
<1>4. t \in Todos /\ \A o : Ins(o, t) => Ins(o, chunks[l])
  BY <1>3, SeenType
<1>5. op' = [op EXCEPT ![p].pc = "visit", ![p].at = i, ![p].level = l, ![p].todo = t]
  BY DEF OpenLevel
<1> HIDE DEF l, i, t
<1>6. CallsInv
  BY CallFacts
<1>7. op' = [op EXCEPT ![p] = Made("visit", op[p].order, i, l, t, op[p].gone)]
  <2> DEFINE v == "visit"
  <2>1. op' = [op EXCEPT ![p].pc = v, ![p].at = i, ![p].level = l, ![p].todo = t]
    BY <1>5
  <2> HIDE DEF v
  <2>2. op' = [op EXCEPT ![p] = Made(v, op[p].order, i, l, t, op[p].gone)]
    <3>1. op' = [op EXCEPT ![p] = [op[p] EXCEPT !.pc = v, !.at = i, !.level = l, !.todo = t]]
      BY <1>6, <2>1 DEF CallsInv
    <3>2. PICK k \in Calls : k = op[p]
      BY <1>6 DEF CallsInv
    <3>3. [k EXCEPT !.pc = v, !.at = i, !.level = l, !.todo = t] = Made(v, k.order, i, l, t, k.gone)
      BY PcAtLevelTodo
    <3>4. op' = [op EXCEPT ![p] = [k EXCEPT !.pc = v, !.at = i, !.level = l, !.todo = t]]
      BY <3>1, <3>2
    <3>5. op' = [op EXCEPT ![p] = Made(v, k.order, i, l, t, k.gone)]
      BY <3>3, <3>4, Zenon
    <3> QED
      BY <3>2, <3>5
  <2> QED
    BY <2>2 DEF v
<1>8. Moved(p) /\ op'[p] = Made("visit", op[p].order, i, l, t, op[p].gone)
  <2>1. "visit" \in Pcs \ {"idle"} /\ op[p].pc # "idle" /\ Adding(p)
    BY <1>1 DEF Pcs, Adding, AddingPcs
  <2> QED
    BY <1>2, <1>4, <1>7, <2>1, CallFacts, MadeMoves
<1>9. \A o : Ins(o, op'[p].todo) => Known(o)
  BY <1>2, <1>4, <1>8, MadeFields DEF Known
<1>10. UNCHANGED <<book, spare, made>> /\ UNCHANGED <<chunks, filled, ordersByID, pooled, entered, calm>>
  BY DEF OpenLevel
<1> QED
  BY <1>8, <1>9, <1>10, StayedTypes, QuietStep DEF l, i, t

\* A call that stays with the level it has opened.
LEMMA StaysAtLevel ==
  ASSUME TypeInv, NEW p \in Procs, op[p].pc \in {"visit", "trade"},
         NEW pc \in {"visit", "trade"}, NEW c \in Todos, pc = "trade" => c # <<>>,
         op' = [op EXCEPT ![p] = Made(pc, op[p].order, op[p].at, op[p].level, c, op[p].gone)]
  PROVE  Moved(p) /\ op'[p] = Made(pc, op[p].order, op[p].at, op[p].level, c, op[p].gone)
<1> DEFINE k == Made(pc, op[p].order, op[p].at, op[p].level, c, op[p].gone)
<1>1. CallsInv /\ op[p].order \in Orders /\ op[p].at \in DOMAIN KeyOrder /\ op[p].level \in Levels
  BY CallFacts DEF CallInv
<1>2. op[p].at \in Nat /\ op[p].gone \in SUBSET Prices /\ pc \in Pcs \ {"idle"}
  BY CallFacts DEF Pcs
<1>3. CallInv(k)
  BY <1>1, <1>2, MadeInv
<1>4. k.order = op[p].order /\ Adding(p)
  BY MadeFields DEF Adding, AddingPcs
<1> HIDE DEF k
<1>5. op' = [op EXCEPT ![p] = k]
  BY DEF k
<1>6. Moved(p) /\ op'[p] = k
  BY <1>1, <1>3, <1>4, <1>5, Moves
<1> QED
  BY <1>6 DEF k

\* The look at a maker, after which the call is about to trade with it.
LEMMA AdmitStep ==
  ASSUME TypeInv, NEW p \in Procs, Admit(p)
  PROVE  /\ TypeInv' /\ Steady(p)
         /\ op'[p] = Made("trade", op[p].order, op[p].at, op[p].level, op[p].todo, op[p].gone)
<1> DEFINE pc == "trade"
<1>1. op[p].pc = "visit" /\ op[p].todo # <<>>
  BY DEF Admit, Visiting
<1>2. op' = [op EXCEPT ![p].pc = pc]
  BY DEF Admit
<1>3. pc \in {"visit", "trade"} /\ op[p].pc \in {"visit", "trade"} /\ op[p].todo \in Todos
  BY <1>1, CallFacts
<1> HIDE DEF pc
<1>4. op' = [op EXCEPT ![p] = Made(pc, op[p].order, op[p].at, op[p].level, op[p].todo, op[p].gone)]
  BY <1>2, CallFacts, OpPc
<1>6. Moved(p) /\ op'[p] = Made(pc, op[p].order, op[p].at, op[p].level, op[p].todo, op[p].gone)
  BY <1>1, <1>3, <1>4, StaysAtLevel
<1>7. \A o : Ins(o, op'[p].todo) => Known(o)
  BY <1>6, MadeFields DEF Known
<1>8. UNCHANGED <<book, spare, made>> /\ UNCHANGED <<chunks, filled, ordersByID, pooled, entered, calm>>
  BY DEF Admit
<1> QED
  BY <1>6, <1>7, <1>8, StayedTypes, QuietStep DEF pc

\* A call that is done with a maker turns to the others.
LEMMA TurnsOn ==
  ASSUME TypeInv, NEW p \in Procs, op[p].pc \in {"visit", "trade"}, op[p].todo # <<>>,
         op' = [op EXCEPT ![p].pc = "visit", ![p].todo = Behind(op[p].todo)]
  PROVE  /\ Moved(p)
         /\ op'[p] = Made("visit", op[p].order, op[p].at, op[p].level, Behind(op[p].todo), op[p].gone)
         /\ \A o : Ins(o, op'[p].todo) => Ins(o, op[p].todo)
<1> DEFINE t  == Behind(op[p].todo)
           pc == "visit"
<1>1. t \in Todos /\ \A o : Ins(o, t) => Ins(o, op[p].todo)
  BY CallFacts, BehindType
<1>2. op' = [op EXCEPT ![p].pc = pc, ![p].todo = t]
  OBVIOUS
<1>3. pc \in {"visit", "trade"} /\ pc # "trade"
  OBVIOUS
<1> HIDE DEF t, pc
<1>5. op' = [op EXCEPT ![p] = Made(pc, op[p].order, op[p].at, op[p].level, t, op[p].gone)]
  BY <1>2, CallFacts, OpPcTodo
<1>6. Moved(p) /\ op'[p] = Made(pc, op[p].order, op[p].at, op[p].level, t, op[p].gone)
  BY <1>1, <1>3, <1>5, StaysAtLevel
<1>7. \A o : Ins(o, op'[p].todo) => Ins(o, op[p].todo)
  <2>1. Made(pc, op[p].order, op[p].at, op[p].level, t, op[p].gone).todo = t
    BY MadeFields
  <2>2. op'[p].todo = t
    BY <1>6, <2>1
  <2> QED
    BY <1>1, <2>2
<1> QED
  BY <1>6, <1>7 DEF t, pc

LEMMA TradingHas ==
  ASSUME TypeInv, NEW p \in Procs, op[p].pc = "trade" \/ Visiting(p)
  PROVE  op[p].pc \in {"visit", "trade"} /\ op[p].todo # <<>>
BY CallFacts DEF CallInv, Visiting

LEMMA PassOverStep ==
  ASSUME TypeInv, NEW p \in Procs, PassOver(p)
  PROVE  /\ TypeInv' /\ Steady(p)
         /\ op'[p] = Made("visit", op[p].order, op[p].at, op[p].level, Behind(op[p].todo), op[p].gone)
<1>1. op[p].pc \in {"visit", "trade"} /\ op[p].todo # <<>>
  BY TradingHas DEF PassOver
<1>2. op' = [op EXCEPT ![p].pc = "visit", ![p].todo = Behind(op[p].todo)]
  BY DEF PassOver
<1>3. /\ Moved(p) /\ \A o : Ins(o, op'[p].todo) => Ins(o, op[p].todo)
      /\ op'[p] = Made("visit", op[p].order, op[p].at, op[p].level, Behind(op[p].todo), op[p].gone)
  BY <1>1, <1>2, TurnsOn
<1>4. UNCHANGED <<book, spare, made>> /\ UNCHANGED <<chunks, filled, ordersByID, pooled, entered, calm>>
  BY DEF PassOver
<1> QED
  BY <1>3, <1>4, TodoKnown, StayedTypes, QuietStep

LEMMA StopScanStep ==
  ASSUME TypeInv, NEW p \in Procs, StopScan(p) \/ EndScan(p)
  PROVE  /\ TypeInv' /\ Steady(p)
         /\ op'[p] = After(op[p].order, op[p].gone)
<1>1. Adding(p)
  BY DEF StopScan, EndScan, Visiting, Adding, AddingPcs
<1>2. op' = [op EXCEPT ![p] = Afterwards(op[p].order, op[p])]
  BY CallFacts DEF StopScan, EndScan
<1>3. Moved(p) /\ op'[p].todo = <<>> /\ op'[p] = After(op[p].order, op[p].gone)
  BY <1>1, <1>2, CallFacts, AfterwardsMoves
<1>4. UNCHANGED <<book, spare, made>> /\ UNCHANGED <<chunks, filled, ordersByID, pooled, entered, calm>>
  BY DEF StopScan, EndScan
<1> QED
  BY <1>3, <1>4, EmptyChain, StayedTypes, QuietStep

LEMMA CloseLevelStep ==
  ASSUME TypeInv, NEW p \in Procs, CloseLevel(p)
  PROVE  /\ TypeInv' /\ Steady(p)
         /\ LET g == IF IsEmpty(chunks[op[p].level]) THEN op[p].gone \cup {ScannedPrice(p)} ELSE op[p].gone
            IN  op'[p] = IF Left(op[p].order) = 0 THEN After(op[p].order, g)
                         ELSE Made("scan", op[p].order, op[p].at, None, <<>>, g)
<1> DEFINE more == [op[p] EXCEPT !.gone = @ \cup {ScannedPrice(p)}]
           k    == IF IsEmpty(chunks[op[p].level]) THEN more ELSE op[p]
           on   == [k EXCEPT !.pc = "scan", !.level = None, !.todo = <<>>]
<1>1. op[p].pc = "visit" /\ Adding(p)
  BY DEF CloseLevel, Adding, AddingPcs
<1> DEFINE g == IF IsEmpty(chunks[op[p].level]) THEN op[p].gone \cup {ScannedPrice(p)} ELSE op[p].gone
<1>2. g \in SUBSET Prices /\ k = Made(op[p].pc, op[p].order, op[p].at, op[p].level, op[p].todo, g)
  <2>1. ScannedPrice(p) \in Prices
    BY <1>1, CallFacts DEF CallInv, ScannedPrice, Prices
  <2>2. more = Made(op[p].pc, op[p].order, op[p].at, op[p].level, op[p].todo, op[p].gone \cup {ScannedPrice(p)})
    BY CallFacts, OneField
  <2>3. op[p] = Made(op[p].pc, op[p].order, op[p].at, op[p].level, op[p].todo, op[p].gone)
    BY CallFacts, IsMade
  <2>4. op[p].gone \in SUBSET Prices /\ op[p].gone \cup {ScannedPrice(p)} \in SUBSET Prices
    BY <2>1, CallFacts
  <2> HIDE DEF more
  <2> QED
    BY <2>2, <2>3, <2>4
<1>3. /\ op' = [op EXCEPT ![p] = IF Left(op[p].order) = 0 THEN Afterwards(op[p].order, k) ELSE on]
      /\ UNCHANGED <<book, spare, made>> /\ UNCHANGED <<chunks, filled, ordersByID, pooled, entered, calm>>
  BY DEF CloseLevel
<1> HIDE DEF k, g
<1>4. k.gone = g /\ k \in Calls /\ k.order = op[p].order /\ k.at = op[p].at
  <2>1. CallInv(Made(op[p].pc, op[p].order, op[p].at, op[p].level, op[p].todo, g))
    BY <1>2, CallFacts, MadeInv DEF CallInv, Calls
  <2> QED
    BY <1>2, <2>1, MadeFields DEF CallInv
<1>5. on = Made("scan", op[p].order, op[p].at, None, <<>>, g)
  <2>1. on = Made("scan", k.order, k.at, None, <<>>, k.gone)
    BY <1>4, PcLevelTodo
  <2> HIDE DEF on
  <2> QED
    BY <1>4, <2>1
<1> HIDE DEF on
<1>6. /\ Moved(p) /\ op'[p].todo = <<>>
      /\ op'[p] = IF Left(op[p].order) = 0 THEN After(op[p].order, g)
                  ELSE Made("scan", op[p].order, op[p].at, None, <<>>, g)
  <2>1. CASE Left(op[p].order) = 0
    <3>1. op' = [op EXCEPT ![p] = Afterwards(op[p].order, k)]
      BY <1>3, <2>1
    <3>2. k.gone \in SUBSET Prices
      BY <1>2, <1>4
    <3> QED
      BY <1>1, <1>4, <2>1, <3>1, <3>2, CallFacts, AfterwardsMoves
  <2>2. CASE Left(op[p].order) # 0
    <3>1. op' = [op EXCEPT ![p] = Made("scan", op[p].order, op[p].at, None, <<>>, g)]
      BY <1>3, <1>5, <2>2
    <3>2. "scan" \in Pcs \ {"idle"} /\ op[p].pc # "idle"
      BY <1>1 DEF Pcs
    <3>3. Moved(p) /\ op'[p] = Made("scan", op[p].order, op[p].at, None, <<>>, g)
      BY <1>1, <1>2, <3>1, <3>2, CallFacts, NoTodo, MadeMoves
    <3> QED
      BY <2>2, <3>3, MadeFields
  <2> QED
    BY <2>1, <2>2
<1> QED
  BY <1>3, <1>6, EmptyChain, StayedTypes, QuietStep DEF g

LEMMA ScannedSide == ASSUME NEW p \in Procs PROVE Scanned(p) \in {"buy", "sell"}
BY DEF Scanned, Opposite

LEMMA EmptiedChains ==
  ASSUME TypeInv, NEW n \in [Levels -> Nat], ToPool(n)
  PROVE  /\ chunks' \in [Levels -> Chains] /\ \A l \in Levels : Bounded(chunks'[l])
         /\ \A l \in Levels : \A o : Ins(o, chunks'[l]) => Ins(o, chunks[l])
         /\ spare' \in [Levels -> Nat]
<1>1. Bounded(<<>>)
  BY EmptyChain DEF Bounded
<1>2. chunks' = [l \in Levels |-> IF n[l] > 0 THEN <<>> ELSE chunks[l]]
  BY DEF ToPool
<1>3. ASSUME NEW l \in Levels
      PROVE  /\ chunks'[l] \in Chains /\ Bounded(chunks'[l])
             /\ \A o : Ins(o, chunks'[l]) => Ins(o, chunks[l])
  <2>1. chunks'[l] = <<>> \/ chunks'[l] = chunks[l]
    BY <1>2
  <2> QED
    BY <1>1, <2>1, EmptyChain DEF TypeInv
<1>4. spare' \in [Levels -> Nat]
  BY DEF TypeInv, ToPool
<1> QED
  BY <1>2, <1>3, <1>4

LEMMA SweepStep ==
  ASSUME TypeInv, NEW p \in Procs, Sweep(p)
  PROVE  /\ TypeInv' /\ Steady(p)
         /\ op'[p] = After(op[p].order, {})
<1> DEFINE n == [l \in Levels |-> Cardinality({x \in Swept(p) : book[Scanned(p)][x] = l})]
           k == [op[p] EXCEPT !.gone = {}]
<1>1. Adding(p)
  BY DEF Sweep, Adding, AddingPcs
<1>2. n \in [Levels -> Nat]
  <2>1. Swept(p) \subseteq Prices
    BY CallFacts DEF Swept
  <2>2. ASSUME NEW l \in Levels PROVE Cardinality({x \in Swept(p) : book[Scanned(p)][x] = l}) \in Nat
    <3>1. {x \in Swept(p) : book[Scanned(p)][x] = l} \in SUBSET Prices
      BY <2>1
    <3>2. IsFiniteSet({x \in Swept(p) : book[Scanned(p)][x] = l})
      BY <3>1, PricesFinite, FS_Subset
    <3> QED
      BY <3>2, FS_CardinalityType
  <2> QED
    BY <2>2
<1>3. /\ ToPool(n) /\ op' = [op EXCEPT ![p] = Afterwards(op[p].order, k)]
      /\ UNCHANGED <<made, filled, ordersByID, pooled, entered, calm>>
      /\ book' = [book EXCEPT ![Scanned(p)] = [x \in Prices |-> IF x \in Swept(p) THEN None ELSE book[Scanned(p)][x]]]
  BY CallFacts, ScannedSide DEF Sweep, TypeInv
<1> HIDE DEF n
<1>4. Moved(p) /\ op'[p].todo = <<>> /\ op'[p] = After(op[p].order, {})
  <2>1. k.gone = {}
    <3>1. PICK r \in Calls : r = op[p]
      BY CallFacts
    <3>2. [r EXCEPT !.gone = {}] = Made(r.pc, r.order, r.at, r.level, r.todo, {})
      BY OneField
    <3>3. [r EXCEPT !.gone = {}].gone = {}
      BY <3>2, MadeFields
    <3> QED
      BY <3>1, <3>3
  <2> HIDE DEF k
  <2> QED
    BY <1>1, <1>3, <2>1, CallFacts, AfterwardsMoves
<1>5. /\ chunks' \in [Levels -> Chains] /\ \A l \in Levels : Bounded(chunks'[l])
      /\ \A l \in Levels : \A o : Ins(o, chunks'[l]) => Ins(o, chunks[l])
      /\ spare' \in [Levels -> Nat]
  BY <1>2, <1>3, EmptiedChains
<1>6. book' \in [{"buy", "sell"} -> [Prices -> Levels \cup {None}]]
  BY <1>3, ScannedSide DEF TypeInv
<1>7. TypeInv'
  BY <1>3, <1>4, <1>5, <1>6 DEF TypeInv, Moved
<1>8. Steady(p)
  <2>1. \A o \in Orders : o \in ordersByID' \cup pooled' \/ (\E l \in Levels : Ins(o, chunks'[l])) => Known(o)
    BY <1>3, <1>5 DEF Known
  <2> QED
    BY <1>3, <1>4, <2>1, EmptyChain, Heard
<1> QED
  BY <1>4, <1>7, <1>8

LEMMA OwnLevel ==
  ASSUME TypeInv, NEW o \in Orders
  PROVE  /\ Side[o] \in {"buy", "sell"} /\ Price[o] \in Prices
         /\ book[Side[o]][Price[o]] \in Levels \cup {None}
BY OrdersAssumption DEF TypeInv

\* A call goes on to another statement, with another level.
LEMMA GoesOn ==
  ASSUME TypeInv, NEW p \in Procs, op[p].pc # "idle",
         NEW pc \in Pcs \ {"idle", "visit", "trade"}, NEW l \in Levels \cup {None},
         pc \in {"attach", "remove", "drop"} => l \in Levels,
         pc \in AddingPcs => Adding(p),
         op' = [op EXCEPT ![p].pc = pc, ![p].level = l]
  PROVE  Moved(p) /\ op'[p] = Made(pc, op[p].order, op[p].at, l, op[p].todo, op[p].gone)
<1>1. op' = [op EXCEPT ![p] = Made(pc, op[p].order, op[p].at, l, op[p].todo, op[p].gone)]
  BY CallFacts, OpPcLevel
<1>2. pc \in Pcs \ {"idle"} /\ pc \notin {"visit", "trade"}
  OBVIOUS
<1>3. /\ pc \in {"visit", "trade"} => op[p].at \in DOMAIN KeyOrder
      /\ pc = "trade" => op[p].todo # <<>>
      /\ pc \in {"visit", "trade", "attach", "remove", "drop"} => l \in Levels
  BY <1>2
<1>4. /\ CallsInv /\ op[p].at \in Nat /\ op[p].todo \in Todos /\ op[p].gone \in SUBSET Prices
  BY CallFacts
<1> DEFINE k == Made(pc, op[p].order, op[p].at, l, op[p].todo, op[p].gone)
<1>5. op[p].order \in Orders
  BY CallFacts DEF CallInv
<1>6. CallInv(k)
  BY <1>2, <1>3, <1>4, <1>5, MadeInv
<1>7. k.order = op[p].order /\ k.pc = pc
  BY MadeFields
<1> HIDE DEF k
<1>8. op' = [op EXCEPT ![p] = k]
  BY <1>1 DEF k
<1>9. Moved(p) /\ op'[p] = k
  BY <1>4, <1>6, <1>7, <1>8, Moves
<1> QED
  BY <1>9 DEF k

LEMMA FindLevelStep ==
  ASSUME TypeInv, NEW p \in Procs, FindLevel(p)
  PROVE  /\ TypeInv' /\ Steady(p)
         /\ LET l == book[Side[op[p].order]][Price[op[p].order]]
            IN  op'[p] = Made(IF l = None THEN "create" ELSE "attach", op[p].order, op[p].at, l, op[p].todo, op[p].gone)
<1> DEFINE l  == book[Side[op[p].order]][Price[op[p].order]]
           pc == IF l = None THEN "create" ELSE "attach"
<1>1. op[p].pc = "find" /\ op[p].pc # "idle" /\ Adding(p)
  BY DEF FindLevel, Adding, AddingPcs
<1>2. op[p].order \in Orders
  BY <1>1, CallFacts DEF CallInv
<1>3. l \in Levels \cup {None}
  BY <1>2, OwnLevel
<1>4. op' = [op EXCEPT ![p].pc = pc, ![p].level = l]
  BY DEF FindLevel
<1> HIDE DEF l
<1>5. pc \in Pcs \ {"idle", "visit", "trade"} /\ (pc \in {"attach", "remove", "drop"} => l \in Levels)
  BY <1>3 DEF Pcs
<1> HIDE DEF pc
<1>6. Moved(p) /\ op'[p] = Made(pc, op[p].order, op[p].at, l, op[p].todo, op[p].gone)
  BY <1>1, <1>3, <1>4, <1>5, GoesOn
<1>7. \A o : Ins(o, op'[p].todo) => Known(o)
  BY <1>6, MadeFields DEF Known
<1>8. UNCHANGED <<book, spare, made>> /\ UNCHANGED <<chunks, filled, ordersByID, pooled, entered, calm>>
  BY DEF FindLevel
<1> QED
  BY <1>6, <1>7, <1>8, StayedTypes, QuietStep DEF l, pc

LEMMA CreateLevelStep ==
  ASSUME TypeInv, NEW p \in Procs, NEW l \in Levels, CreateLevel(p, l)
  PROVE  /\ TypeInv' /\ Steady(p)
         /\ op'[p] = Made("attach", op[p].order, op[p].at, l, op[p].todo, op[p].gone)
<1> DEFINE pc == "attach"
<1>1. op[p].pc = "create" /\ op[p].pc # "idle" /\ Adding(p)
  BY DEF CreateLevel, Adding, AddingPcs
<1>2. op[p].order \in Orders
  BY <1>1, CallFacts DEF CallInv
<1>3. op' = [op EXCEPT ![p].pc = pc, ![p].level = l]
  BY DEF CreateLevel
<1>4. pc \in Pcs \ {"idle", "visit", "trade"}
  BY DEF Pcs
<1> HIDE DEF pc
<1>5. Moved(p) /\ op'[p] = Made(pc, op[p].order, op[p].at, l, op[p].todo, op[p].gone)
  BY <1>1, <1>3, <1>4, GoesOn
<1>6. \A o : Ins(o, op'[p].todo) => Known(o)
  BY <1>5, MadeFields DEF Known
<1>7. /\ UNCHANGED <<chunks, filled, ordersByID, pooled, entered, calm>>
      /\ made' \subseteq Levels /\ spare' \in [Levels -> Nat]
      /\ book' \in [{"buy", "sell"} -> [Prices -> Levels \cup {None}]]
  <2>1. spare' \in [Levels -> Nat]
    <3>1. spare' = [spare EXCEPT ![l] = IF spare[l] > 0 THEN spare[l] - 1 ELSE 0] /\ spare \in [Levels -> Nat]
      BY DEF CreateLevel, TypeInv
    <3>2. spare[l] \in Nat
      BY <3>1
    <3>3. (IF spare[l] > 0 THEN spare[l] - 1 ELSE 0) \in Nat
      BY <3>2
    <3> QED
      BY <3>1, <3>3
  <2>2. book' \in [{"buy", "sell"} -> [Prices -> Levels \cup {None}]]
    <3>1. book' = [book EXCEPT ![Side[op[p].order]][Price[op[p].order]] = l]
      BY DEF CreateLevel
    <3> QED
      BY <1>2, <3>1, OwnLevel DEF TypeInv
  <2> QED
    BY <2>1, <2>2 DEF CreateLevel, TypeInv
<1> QED
  BY <1>5, <1>6, <1>7, QuietStep DEF pc

LEMMA AttachStep ==
  ASSUME TypeInv, NEW p \in Procs, Attach(p)
  PROVE  /\ TypeInv' /\ Steady(p)
         /\ op'[p] = Made("register", op[p].order, op[p].at, None, op[p].todo, op[p].gone)
<1> DEFINE l  == op[p].level
           o  == op[p].order
           c  == WithOrder(chunks[l], o)
           pc == "register"
<1>1. op[p].pc = "attach" /\ op[p].pc # "idle"
  BY DEF Attach
<1>2. o \in Orders /\ l \in Levels
  BY <1>1, CallFacts DEF CallInv
<1>3. op' = [op EXCEPT ![p].pc = pc, ![p].level = None]
  BY DEF Attach
<1>4. pc \in Pcs \ {"idle", "visit", "trade"} /\ pc \notin AddingPcs
  BY DEF Pcs, AddingPcs
<1> HIDE DEF pc
<1>5. pc \notin {"attach", "remove", "drop"}
  BY DEF pc
<1>6. Moved(p) /\ op'[p] = Made(pc, op[p].order, op[p].at, None, op[p].todo, op[p].gone)
  BY <1>1, <1>3, <1>4, <1>5, GoesOn
<1>7. /\ chunks' = [chunks EXCEPT ![l] = c] /\ calm' \in BOOLEAN
      /\ UNCHANGED <<book, spare, made, filled, ordersByID, pooled, entered>>
  BY DEF Attach, TypeInv
<1>8. c \in Chains /\ Bounded(c) /\ \A x : Ins(x, c) => Ins(x, chunks[l]) \/ x = o
  BY <1>2, WithOrderType DEF TypeInv
<1> HIDE DEF c, l, o
<1>9. TypeInv'
  <2>1. chunks' \in [Levels -> Chains] /\ \A k \in Levels : Bounded(chunks'[k])
    BY <1>2, <1>7, <1>8 DEF TypeInv
  <2> QED
    BY <1>6, <1>7, <2>1 DEF TypeInv, Moved
<1>10. Steady(p)
  <2>1. ASSUME NEW x \in Orders, NEW k \in Levels, Ins(x, chunks'[k])
        PROVE  Known(x) \/ x = op[p].order
    <3>1. chunks'[k] = chunks[k] \/ (k = l /\ chunks'[k] = c)
      BY <1>2, <1>7 DEF TypeInv
    <3>2. Ins(x, chunks[k]) \/ x = o
      BY <1>8, <2>1, <3>1
    <3> QED
      BY <3>2 DEF Known, o
  <2>2. op'[p].pc \notin AddingPcs /\ op'[p].todo = op[p].todo
    BY <1>4, <1>6, MadeFields
  <2>3. \A x \in Orders : x \in ordersByID' \cup pooled' \/ Ins(x, op'[p].todo) => Known(x)
    BY <1>7, <2>2 DEF Known
  <2> QED
    BY <1>6, <1>7, <2>1, <2>2, <2>3, Heard
<1> QED
  BY <1>6, <1>9, <1>10 DEF pc

LEMMA RegisterStep ==
  ASSUME TypeInv, NEW p \in Procs, Register(p)
  PROVE  /\ TypeInv' /\ Steady(p)
         /\ op'[p] = Idle
<1>1. op[p].pc = "register" /\ op[p].order \in Orders
  BY CallFacts DEF Register, CallInv
<1>2. /\ op' = [op EXCEPT ![p] = Idle]
      /\ ordersByID' = ordersByID \cup {IF op[p].order \in pooled THEN None ELSE op[p].order}
      /\ UNCHANGED <<book, chunks, spare, made, filled, pooled, entered, calm>>
  BY DEF Register
<1>3. Idle.order = None /\ Idle.pc \notin AddingPcs /\ Idle.todo = <<>> /\ CallInv(Idle)
  BY IdleMade, MadeFields DEF AddingPcs
<1>4. Moved(p) /\ op'[p] = Idle
  BY <1>2, <1>3, CallFacts, Moves
<1>5. TypeInv'
  BY <1>1, <1>2, <1>4 DEF TypeInv, Moved
<1>6. Steady(p)
  <2>1. ASSUME NEW o \in Orders, o \in ordersByID' \cup pooled' PROVE Known(o) \/ o = op[p].order
    BY <1>2, <2>1, NoneAssumption DEF Known
  <2>2. \A o \in Orders : (\E l \in Levels : Ins(o, chunks'[l])) => Known(o)
    BY <1>2 DEF Known
  <2> QED
    BY <1>2, <1>3, <1>4, <2>1, <2>2, EmptyChain, Heard
<1> QED
  BY <1>4, <1>5, <1>6

\* A trade takes from both orders what neither lacks.
LEMMA TradeSize ==
  ASSUME NEW a \in Nat, NEW b \in Nat, NEW fa \in Nat, NEW fb \in Nat, fa <= a, fb <= b
  PROVE  LET n == MinOf(a - fa, b - fb)
         IN  /\ n \in 0 .. a - fa /\ n <= b - fb
             /\ (a - fa > 0 /\ b - fb # 0) => n # 0
             /\ fa + n \in Nat /\ fa + n <= a /\ fb + n \in Nat /\ fb + n <= b
BY DEF MinOf

LEMMA TradingFacts ==
  ASSUME TypeInv, NEW p \in Procs, op[p].pc = "trade"
  PROVE  LET t == op[p].order
             m == NextMaker(p)
             n == MinOf(Left(t), Left(m))
         IN  /\ Adding(p) /\ op[p].todo # <<>>
             /\ op[p].at \in DOMAIN KeyOrder /\ op[p].level \in Levels
             /\ t \in Orders /\ m \in Orders /\ Ins(m, op[p].todo)
             /\ Left(t) \in Nat /\ n \in 0 .. Left(t) /\ n <= Left(m)
             /\ (Left(t) > 0 /\ Left(m) # 0) => n # 0
             /\ filled[t] + n \in Nat /\ filled[t] + n <= Quantity[t]
             /\ filled[m] + n \in Nat /\ filled[m] + n <= Quantity[m]
<1> DEFINE t == op[p].order
           m == NextMaker(p)
<1>1. op[p].todo # <<>> /\ op[p].at \in DOMAIN KeyOrder /\ op[p].level \in Levels
  BY CallFacts DEF CallInv
<1>2. Adding(p)
  BY DEF Adding, AddingPcs
<1>3. t \in Orders
  BY CallFacts DEF CallInv
<1>4. m \in Orders /\ Ins(m, op[p].todo)
  BY <1>1, CallFacts, NextInTodo DEF NextMaker
<1> HIDE DEF t, m
<1>6. /\ Quantity[t] \in Nat /\ Quantity[m] \in Nat /\ filled[t] \in Nat /\ filled[m] \in Nat
      /\ filled[t] <= Quantity[t] /\ filled[m] <= Quantity[m]
  BY <1>3, <1>4, OrdersAssumption DEF TypeInv
<1>7. Left(t) = Quantity[t] - filled[t] /\ Left(m) = Quantity[m] - filled[m]
  BY DEF Left
<1>8. LET n == MinOf(Quantity[t] - filled[t], Quantity[m] - filled[m])
      IN  /\ n \in 0 .. Quantity[t] - filled[t] /\ n <= Quantity[m] - filled[m]
          /\ (Quantity[t] - filled[t] > 0 /\ Quantity[m] - filled[m] # 0) => n # 0
          /\ filled[t] + n \in Nat /\ filled[t] + n <= Quantity[t]
          /\ filled[m] + n \in Nat /\ filled[m] + n <= Quantity[m]
  <2> DEFINE a == Quantity[t]
             b == Quantity[m]
             fa == filled[t]
             fb == filled[m]
  <2>1. a \in Nat /\ b \in Nat /\ fa \in Nat /\ fb \in Nat /\ fa <= a /\ fb <= b
    BY <1>6
  <2> HIDE DEF a, b, fa, fb
  <2>2. LET n == MinOf(a - fa, b - fb)
        IN  /\ n \in 0 .. a - fa /\ n <= b - fb
            /\ (a - fa > 0 /\ b - fb # 0) => n # 0
            /\ fa + n \in Nat /\ fa + n <= a /\ fb + n \in Nat /\ fb + n <= b
    BY <2>1, TradeSize
  <2> QED
    BY <2>2 DEF a, b, fa, fb
<1>9. Quantity[t] - filled[t] \in Nat
  BY <1>6
<1> QED
  BY <1>1, <1>2, <1>3, <1>4, <1>7, <1>8, <1>9 DEF t, m

\* What a trade, with whatever maker, may do to the levels, the index and the pool.
LEMMA TradingStep ==
  ASSUME TypeInv, NEW p \in Procs, op[p].pc = "trade",
         LET l == op[p].level
         IN  chunks' \in {chunks, [chunks EXCEPT ![l] = WithoutOrder(chunks[l], NextMaker(p))]},
         ordersByID' \subseteq ordersByID, pooled' \subseteq pooled \cup {NextMaker(p)},
         filled' \in [Orders -> Nat], \A o \in Orders : filled'[o] <= Quantity[o],
         op' = [op EXCEPT ![p].pc = "visit", ![p].todo = Behind(op[p].todo)],
         UNCHANGED <<book, spare, made, entered, calm>>
  PROVE  /\ TypeInv' /\ Steady(p)
         /\ op'[p] = Made("visit", op[p].order, op[p].at, op[p].level, Behind(op[p].todo), op[p].gone)
<1> DEFINE m == NextMaker(p)
           l == op[p].level
           c == WithoutOrder(chunks[l], m)
<1>1. op[p].todo # <<>> /\ l \in Levels /\ m \in Orders /\ Ins(m, op[p].todo)
  BY TradingFacts
<1>2. c \in Chains /\ Bounded(c) /\ \A x : Ins(x, c) => Ins(x, chunks[l])
  BY <1>1, WithoutOrderType DEF TypeInv
<1>3. chunks' = [chunks EXCEPT ![l] = c] \/ chunks' = chunks
  OBVIOUS
<1>4. /\ Moved(p) /\ \A o : Ins(o, op'[p].todo) => Ins(o, op[p].todo)
      /\ op'[p] = Made("visit", op[p].order, op[p].at, op[p].level, Behind(op[p].todo), op[p].gone)
  BY <1>1, TurnsOn
<1> HIDE DEF m, l, c
<1>5. chunks' \in [Levels -> Chains] /\ \A k \in Levels : Bounded(chunks'[k])
  BY <1>1, <1>2, <1>3 DEF TypeInv
<1>6. pooled' \subseteq Orders
  BY <1>1 DEF TypeInv, m
<1>7. TypeInv'
  BY <1>4, <1>5, <1>6 DEF TypeInv, Moved
<1>8. Steady(p)
  <2>1. ASSUME NEW x \in Orders, NEW k \in Levels, Ins(x, chunks'[k]) PROVE Known(x)
    <3>1. chunks'[k] = chunks[k] \/ (k = l /\ chunks'[k] = c)
      BY <1>1, <1>3 DEF TypeInv
    <3> QED
      BY <1>2, <2>1, <3>1 DEF Known
  <2>2. \A x \in Orders : x \in ordersByID' \cup pooled' => Known(x)
    BY <1>1 DEF Known, m
  <2>3. \A x \in Orders : Ins(x, op'[p].todo) => Known(x)
    BY <1>4 DEF Known
  <2> QED
    BY <1>4, <2>1, <2>2, <2>3, Heard
<1> QED
  BY <1>4, <1>7, <1>8

LEMMA MatchStep ==
  ASSUME TypeInv, NEW p \in Procs, Match(p)
  PROVE  /\ TypeInv' /\ Steady(p)
         /\ op'[p] = Made("visit", op[p].order, op[p].at, op[p].level, Behind(op[p].todo), op[p].gone)
<1> DEFINE t == op[p].order
           m == NextMaker(p)
           n == MinOf(Left(t), Left(m))
           l == op[p].level
<1>1. op[p].pc = "trade" /\ User[m] # User[t]
  BY DEF Match, Partners
<1>2. /\ t \in Orders /\ m \in Orders
      /\ filled[t] + n \in Nat /\ filled[t] + n <= Quantity[t]
      /\ filled[m] + n \in Nat /\ filled[m] + n <= Quantity[m]
  BY <1>1, TradingFacts
<1>3. /\ filled' = [filled EXCEPT ![t] = @ + n, ![m] = @ + n]
      /\ chunks' \in {chunks, [chunks EXCEPT ![l] = WithoutOrder(chunks[l], m)]}
      /\ ordersByID' \subseteq ordersByID
      /\ pooled' \subseteq pooled \cup {m}
      /\ op' = [op EXCEPT ![p].pc = "visit", ![p].todo = Behind(op[p].todo)]
      /\ UNCHANGED <<book, spare, made, entered, calm>>
  BY DEF Match
<1> HIDE DEF n, t, m
<1>4. t # m
  BY <1>1
<1>5. filled' = [filled EXCEPT ![t] = filled[t] + n, ![m] = filled[m] + n]
  BY <1>2, <1>3, <1>4 DEF TypeInv
<1>6. filled' \in [Orders -> Nat] /\ \A o \in Orders : filled'[o] <= Quantity[o]
  BY <1>2, <1>4, <1>5 DEF TypeInv
<1> QED
  BY <1>1, <1>3, <1>6, TradingStep DEF m

LEMMA MatchWipedStep ==
  ASSUME TypeInv, NEW p \in Procs, MatchWiped(p)
  PROVE  /\ TypeInv' /\ Steady(p)
         /\ op'[p] = Made("visit", op[p].order, op[p].at, op[p].level, Behind(op[p].todo), op[p].gone)
<1> DEFINE t == op[p].order
           m == NextMaker(p)
<1>1. op[p].pc = "trade"
  BY DEF MatchWiped
<1>2. t \in Orders /\ m \in Orders /\ Left(t) \in Nat
  BY <1>1, TradingFacts
<1>3. PICK n \in {0, MinOf(Left(t), Left(m)), MinOf(Left(t), Quantity[m])} :
        filled' = [filled EXCEPT ![t] = filled[t] + n]
  BY <1>2 DEF MatchWiped, TypeInv
<1>4. n \in 0 .. Left(t)
  <2>1. MinOf(Left(t), Left(m)) \in 0 .. Left(t)
    BY <1>1, TradingFacts
  <2>2. MinOf(Left(t), Quantity[m]) \in 0 .. Left(t)
    BY <1>2, OrdersAssumption DEF MinOf
  <2> QED
    BY <1>2, <1>3, <2>1, <2>2
<1> HIDE DEF t, m
<1>5. filled[t] + n \in Nat /\ filled[t] + n <= Quantity[t]
  BY <1>2, <1>4, OrdersAssumption DEF TypeInv, Left
<1>6. filled' \in [Orders -> Nat] /\ \A o \in Orders : filled'[o] <= Quantity[o]
  BY <1>2, <1>3, <1>5 DEF TypeInv
<1>7. LET l == op[p].level
      IN  chunks' \in {chunks, [chunks EXCEPT ![l] = WithoutOrder(chunks[l], NextMaker(p))]}
  BY DEF MatchWiped
<1>8. /\ ordersByID' \subseteq ordersByID /\ pooled' = pooled
      /\ op' = [op EXCEPT ![p].pc = "visit", ![p].todo = Behind(op[p].todo)]
      /\ UNCHANGED <<book, spare, made, entered, calm>>
  BY DEF MatchWiped
<1> QED
  BY <1>1, <1>6, <1>7, <1>8, TradingStep

LEMMA LocateLevelStep ==
  ASSUME TypeInv, NEW p \in Procs, LocateLevel(p)
  PROVE  /\ TypeInv' /\ Steady(p)
         /\ LET l == IF op[p].order \in pooled THEN None ELSE book[Side[op[p].order]][Price[op[p].order]]
            IN  op'[p] = Made(IF l = None THEN "forget" ELSE "remove", op[p].order, op[p].at, l, op[p].todo, op[p].gone)
<1> DEFINE l  == IF op[p].order \in pooled THEN None ELSE book[Side[op[p].order]][Price[op[p].order]]
           pc == IF l = None THEN "forget" ELSE "remove"
<1>1. op[p].pc = "locate" /\ op[p].pc # "idle"
  BY DEF LocateLevel
<1>2. op[p].order \in Orders
  BY <1>1, CallFacts DEF CallInv
<1>3. l \in Levels \cup {None}
  BY <1>2, OwnLevel
<1>4. op' = [op EXCEPT ![p].pc = pc, ![p].level = l]
  BY DEF LocateLevel
<1> HIDE DEF l
<1>5. pc \in Pcs \ {"idle", "visit", "trade"} /\ (pc \in {"attach", "remove", "drop"} => l \in Levels) /\ pc \notin AddingPcs
  BY <1>3 DEF Pcs, AddingPcs
<1> HIDE DEF pc
<1>6. Moved(p) /\ op'[p] = Made(pc, op[p].order, op[p].at, l, op[p].todo, op[p].gone)
  BY <1>1, <1>3, <1>4, <1>5, GoesOn
<1>7. \A o : Ins(o, op'[p].todo) => Known(o)
  BY <1>6, MadeFields DEF Known
<1>8. UNCHANGED <<book, spare, made>> /\ UNCHANGED <<chunks, filled, ordersByID, pooled, entered, calm>>
  BY DEF LocateLevel
<1> QED
  BY <1>6, <1>7, <1>8, StayedTypes, QuietStep DEF l, pc

LEMMA RemoveStep ==
  ASSUME TypeInv, NEW p \in Procs, RemoveFromLevel(p)
  PROVE  /\ TypeInv' /\ Steady(p)
         /\ LET c == WithoutOrder(chunks[op[p].level], IF op[p].order \in pooled THEN None ELSE op[p].order)
            IN  op'[p] = Made(IF IsEmpty(c) THEN "drop" ELSE "forget", op[p].order, op[p].at,
                              IF IsEmpty(c) THEN op[p].level ELSE None, op[p].todo, op[p].gone)
<1> DEFINE l  == op[p].level
           o  == IF op[p].order \in pooled THEN None ELSE op[p].order
           c  == WithoutOrder(chunks[l], o)
           pc == IF IsEmpty(c) THEN "drop" ELSE "forget"
           k  == IF IsEmpty(c) THEN l ELSE None
<1>1. op[p].pc = "remove" /\ op[p].pc # "idle"
  BY DEF RemoveFromLevel
<1>2. l \in Levels
  BY <1>1, CallFacts DEF CallInv
<1>3. op' = [op EXCEPT ![p].pc = pc, ![p].level = k]
  BY DEF RemoveFromLevel
<1>4. c \in Chains /\ Bounded(c) /\ \A x : Ins(x, c) => Ins(x, chunks[l])
  BY <1>2, WithoutOrderType DEF TypeInv
<1>5. /\ chunks' = [chunks EXCEPT ![l] = c]
      /\ UNCHANGED <<book, spare, made, filled, ordersByID, pooled, entered, calm>>
  BY DEF RemoveFromLevel
<1> HIDE DEF c, l
<1>6. /\ pc \in Pcs \ {"idle", "visit", "trade"} /\ pc \notin AddingPcs /\ k \in Levels \cup {None}
      /\ (pc \in {"attach", "remove", "drop"} => k \in Levels)
  BY <1>2 DEF Pcs, AddingPcs
<1> HIDE DEF pc, k
<1>7. Moved(p) /\ op'[p] = Made(pc, op[p].order, op[p].at, k, op[p].todo, op[p].gone)
  BY <1>1, <1>3, <1>6, GoesOn
<1>8. chunks' \in [Levels -> Chains] /\ \A i \in Levels : Bounded(chunks'[i])
  BY <1>2, <1>4, <1>5 DEF TypeInv
<1>9. TypeInv'
  BY <1>5, <1>7, <1>8 DEF TypeInv, Moved
<1>10. Steady(p)
  <2>1. ASSUME NEW x \in Orders, NEW i \in Levels, Ins(x, chunks'[i]) PROVE Known(x)
    <3>1. chunks'[i] = chunks[i] \/ (i = l /\ chunks'[i] = c)
      BY <1>2, <1>5 DEF TypeInv
    <3> QED
      BY <1>4, <2>1, <3>1 DEF Known
  <2>2. \A x \in Orders : x \in ordersByID' \cup pooled' => Known(x)
    BY <1>5 DEF Known
  <2>3. \A x \in Orders : Ins(x, op'[p].todo) => Known(x)
    BY <1>7, MadeFields DEF Known
  <2> QED
    BY <1>5, <1>7, <2>1, <2>2, <2>3, Heard
<1> QED
  BY <1>7, <1>9, <1>10 DEF pc, k, c, l, o

LEMMA DropLevelStep ==
  ASSUME TypeInv, NEW p \in Procs, DropLevel(p)
  PROVE  /\ TypeInv' /\ Steady(p)
         /\ op'[p] = Made("forget", op[p].order, op[p].at, None, op[p].todo, op[p].gone)
<1> DEFINE n  == [l \in Levels |-> IF l = op[p].level THEN 1 ELSE 0]
           pc == "forget"
<1>1. op[p].pc = "drop" /\ op[p].pc # "idle" /\ op[p].order \in Orders
  BY CallFacts DEF DropLevel, CallInv
<1>2. n \in [Levels -> Nat]
  OBVIOUS
<1>3. /\ ToPool(n) /\ op' = [op EXCEPT ![p].pc = pc, ![p].level = None]
      /\ UNCHANGED <<made, filled, ordersByID, pooled, entered, calm>>
      /\ book' = [book EXCEPT ![Side[op[p].order]][Price[op[p].order]] = None]
  BY DEF DropLevel
<1>4. pc \in Pcs \ {"idle", "visit", "trade"} /\ pc \notin AddingPcs /\ pc \notin {"attach", "remove", "drop"}
  BY DEF Pcs, AddingPcs
<1> HIDE DEF n, pc
<1>5. Moved(p) /\ op'[p] = Made(pc, op[p].order, op[p].at, None, op[p].todo, op[p].gone)
  BY <1>1, <1>3, <1>4, GoesOn
<1>6. /\ chunks' \in [Levels -> Chains] /\ \A l \in Levels : Bounded(chunks'[l])
      /\ \A l \in Levels : \A o : Ins(o, chunks'[l]) => Ins(o, chunks[l])
      /\ spare' \in [Levels -> Nat]
  BY <1>2, <1>3, EmptiedChains
<1>7. book' \in [{"buy", "sell"} -> [Prices -> Levels \cup {None}]]
  BY <1>1, <1>3, OwnLevel DEF TypeInv
<1>8. TypeInv'
  BY <1>3, <1>5, <1>6, <1>7 DEF TypeInv, Moved
<1>9. Steady(p)
  <2>1. \A o \in Orders : o \in ordersByID' \cup pooled' \/ (\E l \in Levels : Ins(o, chunks'[l])) => Known(o)
    BY <1>3, <1>6 DEF Known
  <2>2. \A o \in Orders : Ins(o, op'[p].todo) => Known(o)
    BY <1>5, MadeFields DEF Known
  <2> QED
    BY <1>3, <1>5, <2>1, <2>2, Heard
<1> QED
  BY <1>5, <1>8, <1>9 DEF pc

LEMMA ForgetStep ==
  ASSUME TypeInv, NEW p \in Procs, Forget(p)
  PROVE  /\ TypeInv' /\ Steady(p)
         /\ op'[p] = Idle
<1>1. op[p].pc = "forget" /\ op[p].order \in Orders
  BY CallFacts DEF Forget, CallInv
<1>2. /\ op' = [op EXCEPT ![p] = Idle]
      /\ ordersByID' = ordersByID \ {op[p].order} /\ pooled' = pooled \cup {op[p].order}
      /\ UNCHANGED <<book, chunks, spare, made, filled, entered, calm>>
  BY DEF Forget
<1>3. Idle.order = None /\ Idle.pc \notin AddingPcs /\ Idle.todo = <<>> /\ CallInv(Idle)
  BY IdleMade, MadeFields DEF AddingPcs
<1>4. Moved(p) /\ op'[p] = Idle
  BY <1>2, <1>3, CallFacts, Moves
<1>5. TypeInv'
  BY <1>1, <1>2, <1>4 DEF TypeInv, Moved
<1>6. Steady(p)
  <2>1. ASSUME NEW o \in Orders, o \in ordersByID' \cup pooled' PROVE Known(o) \/ o = op[p].order
    BY <1>2, <2>1 DEF Known
  <2>2. \A o \in Orders : (\E l \in Levels : Ins(o, chunks'[l])) => Known(o)
    BY <1>2 DEF Known
  <2> QED
    BY <1>2, <1>3, <1>4, <2>1, <2>2, EmptyChain, Heard
<1> QED
  BY <1>4, <1>5, <1>6

-----------------------------------------------------------------------------
\* Orders that are still to come, or whose AddOrder has not reached a level yet:
\* the book has not heard of them, and no other call is about them.
Coming(o) == ~Placed(o) \/ \E p \in Procs : Adding(p) /\ op[p].order = o

Newcomers ==
  \A o \in Orders : Coming(o) =>
    ~Known(o) /\ \A p \in Procs : op[p].order = o => Adding(p)

OneAdder ==
  /\ \A p \in Procs : Adding(p) => Placed(op[p].order)
  /\ \A p, q \in Procs : Adding(p) /\ Adding(q) /\ op[p].order = op[q].order => p = q

\* The inductive invariant.
IInv == TypeInv /\ Newcomers /\ OneAdder

LEMMA SteadyKeeps ==
  ASSUME Newcomers, OneAdder, NEW p \in Procs, Steady(p)
  PROVE  Newcomers' /\ OneAdder'
<1>1. /\ Moved(p) /\ entered' = entered
      /\ \A o \in Orders : Known(o)' => Known(o) \/ (o = op[p].order /\ ~Adding(p)')
  BY DEF Steady
<1>2. \A o : Placed(o)' <=> Placed(o)
  BY <1>1 DEF Placed
<1>3. /\ \A q \in Procs : Adding(q)' => Adding(q) /\ op'[q].order = op[q].order
      /\ \A q \in Procs \ {p} : op'[q] = op[q]
      /\ op'[p].order \in {op[p].order, None}
  BY <1>1 DEF Moved, Adding
<1>4. OneAdder'
  BY <1>2, <1>3 DEF OneAdder
<1>5. \A o : Coming(o)' => Coming(o)
  BY <1>2, <1>3 DEF Coming
<1>6. ASSUME NEW o \in Orders, Coming(o)'
      PROVE  ~Known(o)' /\ \A q \in Procs : op'[q].order = o => Adding(q)'
  <2>1. ~Known(o) /\ \A q \in Procs : op[q].order = o => Adding(q)
    BY <1>5, <1>6 DEF Newcomers
  <2>2. o = op[p].order => Adding(p)'
    <3>1. SUFFICES ASSUME o = op[p].order, ~Adding(p)' PROVE FALSE
      OBVIOUS
    <3>2. Adding(p) /\ Placed(o)
      BY <2>1, <3>1 DEF OneAdder
    <3>3. PICK q \in Procs : Adding(q)' /\ op'[q].order = o
      BY <1>2, <1>6, <3>2 DEF Coming
    <3>4. Adding(q) /\ op[q].order = o
      BY <1>3, <3>3
    <3>5. q = p
      BY <3>1, <3>2, <3>4 DEF OneAdder
    <3> QED
      BY <3>1, <3>3, <3>5
  <2>3. ~Known(o)'
    BY <1>1, <2>1, <2>2
  <2>4. ASSUME NEW q \in Procs, op'[q].order = o PROVE Adding(q)'
    <3>1. CASE q = p
      BY <1>3, <2>2, <2>4, <3>1, NoneAssumption
    <3>2. CASE q # p
      BY <1>3, <2>1, <2>4, <3>2 DEF Adding
    <3> QED
      BY <3>1, <3>2
  <2> QED
    BY <2>3, <2>4
<1> QED
  BY <1>4, <1>6 DEF Newcomers

LEMMA BegunMade ==
  ASSUME NEW pc, NEW o
  PROVE  [Idle EXCEPT !.pc = pc, !.order = o] = Made(pc, o, 0, None, <<>>, {})
<1> DEFINE m == Made(pc, None, 0, None, <<>>, {})
<1>1. [Idle EXCEPT !.pc = pc] = m
  <2>1. Idle \in Calls
    BY IdleMade DEF CallInv
  <2>2. Idle.order = None /\ Idle.at = 0 /\ Idle.level = None /\ Idle.todo = <<>> /\ Idle.gone = {}
    BY IdleMade, MadeFields
  <2>3. [Idle EXCEPT !.pc = pc] = Made(pc, Idle.order, Idle.at, Idle.level, Idle.todo, Idle.gone)
    <3> SUFFICES ASSUME NEW k \in Calls PROVE [k EXCEPT !.pc = pc] = Made(pc, k.order, k.at, k.level, k.todo, k.gone)
      BY <2>1, Zenon
    <3> QED
      BY OneField
  <2> QED
    BY <2>2, <2>3
<1>2. [m EXCEPT !.order = o] = Made(pc, o, 0, None, <<>>, {})
  BY DEF Made
<1>3. [Idle EXCEPT !.pc = pc, !.order = o] = [[Idle EXCEPT !.pc = pc] EXCEPT !.order = o]
  OBVIOUS
<1> HIDE DEF m
<1> QED
  BY <1>1, <1>2, <1>3

\* A call begins, about an order of its choice.
LEMMA BeginFacts ==
  ASSUME TypeInv, NEW p \in Procs, op[p] = Idle, NEW pc \in {"scan", "locate"}, NEW o \in Orders,
         op' = [op EXCEPT ![p] = [Idle EXCEPT !.pc = pc, !.order = o]]
  PROVE  /\ CallsInv' /\ op'[p].pc = pc /\ op'[p].order = o /\ op'[p].todo = <<>>
         /\ op[p].todo = <<>> /\ ~Adding(p)
         /\ \A q \in Procs \ {p} : op'[q] = op[q]
<1> DEFINE k == Made(pc, o, 0, None, <<>>, {})
<1>1. [Idle EXCEPT !.pc = pc, !.order = o] = k
  BY BegunMade
<1>2. CallInv(k)
  BY NoTodo, MadeInv DEF Pcs
<1>3. k.pc = pc /\ k.order = o /\ k.todo = <<>>
  BY MadeFields
<1> HIDE DEF k
<1>4. CallsInv' /\ op'[p] = k /\ \A q \in Procs \ {p} : op'[q] = op[q]
  BY <1>1, <1>2, CallFacts, OpMoves
<1>5. op[p].todo = <<>> /\ op[p].pc = "idle"
  BY DEF Idle
<1> QED
  BY <1>3, <1>4, <1>5 DEF Adding, AddingPcs

LEMMA AddOrderStep ==
  ASSUME IInv, NEW p \in Procs, NEW o \in Orders, AddOrder(p, o)
  PROVE  IInv'
<1>1. /\ op[p] = Idle /\ ~Placed(o) /\ entered' = Append(entered, o)
      /\ op' = [op EXCEPT ![p] = [Idle EXCEPT !.pc = "scan", !.order = o]]
      /\ calm' = (calm /\ AllIdle)
      /\ UNCHANGED <<book, chunks, spare, made, filled, ordersByID, pooled>>
  BY DEF AddOrder
<1>2. /\ CallsInv' /\ op'[p].pc = "scan" /\ op'[p].order = o /\ op'[p].todo = <<>>
      /\ op[p].todo = <<>> /\ ~Adding(p)
      /\ \A q \in Procs \ {p} : op'[q] = op[q]
  BY <1>1, BeginFacts DEF IInv
<1>3. Adding(p)' /\ \A q \in Procs \ {p} : Adding(q)' <=> Adding(q)
  BY <1>2 DEF Adding, AddingPcs
<1>4. entered \in Seq(Orders) /\ entered' \in Seq(Orders) /\ \A x : Placed(x)' <=> Placed(x) \/ x = o
  <2>1. entered \in Seq(Orders)
    BY DEF IInv, TypeInv
  <2>2. /\ entered' \in Seq(Orders) /\ Len(entered') = Len(entered) + 1
        /\ \A i \in 1 .. Len(entered) : entered'[i] = entered[i]
        /\ entered'[Len(entered) + 1] = o
    BY <1>1, <2>1, AppendProperties
  <2>3. DOMAIN entered' = 1 .. Len(entered) + 1 /\ DOMAIN entered = 1 .. Len(entered) /\ Len(entered) \in Nat
    BY <2>1, <2>2, LenProperties
  <2> DEFINE n == Len(entered)
             e == entered
             f == entered'
  <2> HIDE DEF n, e, f
  <2>4. /\ n \in Nat /\ DOMAIN e = 1 .. n /\ DOMAIN f = 1 .. n + 1
        /\ (\A i \in 1 .. n : f[i] = e[i]) /\ f[n + 1] = o
    BY <2>2, <2>3 DEF n, e, f
  <2>5. ASSUME NEW x PROVE (\E i \in DOMAIN f : f[i] = x) <=> (\E i \in DOMAIN e : e[i] = x) \/ x = o
    <3>1. DOMAIN f = DOMAIN e \cup {n + 1}
      BY <2>4
    <3> QED
      BY <2>4, <3>1
  <2> QED
    BY <2>1, <2>2, <2>5 DEF Placed, e, f
<1>5. TypeInv'
  BY <1>1, <1>2, <1>4 DEF IInv, TypeInv
<1>6. ~Known(o) /\ \A q \in Procs : op[q].order = o => Adding(q)
  BY <1>1 DEF IInv, Newcomers, Coming
<1>7. \A q \in Procs : ~(Adding(q) /\ op[q].order = o)
  BY <1>1 DEF IInv, OneAdder
<1>8. OneAdder'
  <2>1. \A q \in Procs : Adding(q)' => Placed(op[q].order)'
    BY <1>2, <1>3, <1>4 DEF IInv, OneAdder
  <2>2. ASSUME NEW q \in Procs, NEW r \in Procs, Adding(q)', Adding(r)', op'[q].order = op'[r].order
        PROVE  q = r
    BY <1>2, <1>3, <1>7, <2>2 DEF IInv, OneAdder
  <2> QED
    BY <2>1, <2>2 DEF OneAdder
<1>9. \A x \in Orders : Known(x)' => Known(x)
  BY <1>1, <1>2, EmptyChain DEF Known
<1>10. ASSUME NEW x \in Orders, Coming(x)'
       PROVE  ~Known(x)' /\ \A q \in Procs : op'[q].order = x => Adding(q)'
  <2>1. CASE x = o
    BY <1>2, <1>3, <1>6, <1>9, <2>1
  <2>2. CASE x # o
    <3>1. Coming(x)
      BY <1>2, <1>3, <1>4, <1>10, <2>2 DEF Coming
    <3>2. ~Known(x) /\ \A q \in Procs : op[q].order = x => Adding(q)
      BY <3>1 DEF IInv, Newcomers
    <3> QED
      BY <1>2, <1>3, <1>9, <2>2, <3>2
  <2> QED
    BY <2>1, <2>2
<1> QED
  BY <1>5, <1>8, <1>10 DEF IInv, Newcomers

LEMMA CancelOrderStep ==
  ASSUME IInv, NEW p \in Procs, NEW o \in Orders, CancelOrder(p, o)
  PROVE  IInv'
<1>1. /\ op[p] = Idle /\ o \in ordersByID
      /\ op' = [op EXCEPT ![p] = [Idle EXCEPT !.pc = "locate", !.order = o]]
      /\ calm' = (calm /\ AllIdle)
      /\ UNCHANGED <<book, chunks, spare, made, filled, ordersByID, pooled, entered>>
  BY DEF CancelOrder
<1>2. /\ CallsInv' /\ op'[p].pc = "locate" /\ op'[p].order = o /\ op'[p].todo = <<>>
      /\ op[p].todo = <<>> /\ ~Adding(p)
      /\ \A q \in Procs \ {p} : op'[q] = op[q]
  BY <1>1, BeginFacts DEF IInv
<1>3. ~Adding(p)' /\ \A q \in Procs \ {p} : Adding(q)' <=> Adding(q)
  BY <1>2 DEF Adding, AddingPcs
<1>4. \A x : Placed(x)' <=> Placed(x)
  BY <1>1 DEF Placed
<1>5. TypeInv'
  BY <1>1, <1>2 DEF IInv, TypeInv
<1>6. ~Coming(o)
  BY <1>1 DEF IInv, Newcomers, Known
<1>7. OneAdder'
  BY <1>2, <1>3, <1>4 DEF IInv, OneAdder
<1>8. \A x \in Orders : Known(x)' => Known(x)
  BY <1>1, <1>2, EmptyChain DEF Known
<1>9. ASSUME NEW x \in Orders, Coming(x)'
      PROVE  ~Known(x)' /\ \A q \in Procs : op'[q].order = x => Adding(q)'
  <2>1. Coming(x) /\ x # o
    BY <1>2, <1>3, <1>4, <1>6, <1>9 DEF Coming
  <2>2. ~Known(x) /\ \A q \in Procs : op[q].order = x => Adding(q)
    BY <2>1 DEF IInv, Newcomers
  <2> QED
    BY <1>2, <1>3, <1>8, <2>1, <2>2
<1> QED
  BY <1>5, <1>7, <1>9 DEF IInv, Newcomers

-----------------------------------------------------------------------------
LEMMA StepSteady ==
  ASSUME TypeInv, NEW p \in Procs, Step(p)
  PROVE  TypeInv' /\ Steady(p)
<1>1. CASE StopScan(p) \/ EndScan(p)
  BY <1>1, StopScanStep
<1>2. CASE \E l \in Levels : CreateLevel(p, l)
  BY <1>2, CreateLevelStep
<1> QED
  BY <1>1, <1>2, OpenLevelStep, AdmitStep, PassOverStep, CloseLevelStep, SweepStep, FindLevelStep,
     AttachStep, RegisterStep, MatchStep, MatchWipedStep, LocateLevelStep, RemoveStep, DropLevelStep,
     ForgetStep DEF Step

LEMMA Initially == Init => IInv
<1> SUFFICES ASSUME Init PROVE IInv
  OBVIOUS
<1>1. Idle.order = None /\ Idle.pc = "idle" /\ Idle.todo = <<>> /\ CallInv(Idle)
  BY IdleMade, MadeFields
<1>2. \A p \in Procs : op[p] = Idle
  BY DEF Init
<1>3. CallsInv
  <2>1. Idle \in Calls
    BY <1>1 DEF CallInv
  <2>2. op \in [Procs -> Calls]
    BY <2>1 DEF Init
  <2> QED
    BY <1>1, <1>2, <2>2 DEF CallsInv
<1>4. chunks \in [Levels -> Chains] /\ \A l \in Levels : Bounded(chunks[l])
  BY EmptyChain DEF Init, Bounded
<1>5. TypeInv
  <2>1. filled \in [Orders -> Nat] /\ \A o \in Orders : filled[o] <= Quantity[o]
    BY OrdersAssumption DEF Init
  <2>2. /\ book \in [{"buy", "sell"} -> [Prices -> Levels \cup {None}]]
        /\ spare \in [Levels -> Nat] /\ made \subseteq Levels
        /\ ordersByID \subseteq Orders \cup {None} /\ pooled \subseteq Orders
        /\ entered \in Seq(Orders) /\ calm \in BOOLEAN
    BY DEF Init
  <2> QED
    BY <1>3, <1>4, <2>1, <2>2 DEF TypeInv
<1>6. \A o \in Orders : ~Known(o)
  BY <1>1, <1>2, EmptyChain DEF Init, Known
<1>7. \A p \in Procs : ~Adding(p) /\ op[p].order = None
  BY <1>1, <1>2 DEF Adding, AddingPcs
<1> QED
  BY <1>5, <1>6, <1>7, NoneAssumption DEF IInv, Newcomers, OneAdder

LEMMA Inductive == IInv /\ [Next]_vars => IInv'
<1> SUFFICES ASSUME IInv, [Next]_vars PROVE IInv'
  OBVIOUS
<1>1. CASE UNCHANGED vars
  BY <1>1 DEF vars, IInv, TypeInv, CallsInv, CallInv, Newcomers, OneAdder, Coming, Placed,
              Known, Ins, Adding, Bounded
<1>2. ASSUME NEW p \in Procs, Step(p) PROVE IInv'
  BY <1>2, StepSteady, SteadyKeeps DEF IInv
<1>3. ASSUME NEW p \in Procs, NEW o \in Orders, AddOrder(p, o) PROVE IInv'
  BY <1>3, AddOrderStep
<1>4. ASSUME NEW p \in Procs, NEW o \in Orders, CancelOrder(p, o) PROVE IInv'
  BY <1>4, CancelOrderStep
<1> QED
  BY <1>1, <1>2, <1>3, <1>4 DEF Next

\* Every reachable state satisfies the inductive invariant.
THEOREM Invariance == Spec => []IInv
<1> QED
  BY Initially, Inductive, PTL DEF Spec

\* The book, its levels and the calls in progress keep their types: a scan is
\* always at a key of the tree, and a call that is about to lock a level has one
\* (AddOrder, CancelOrder).
THEOREM TypeCorrect == Spec => []TypeOK
<1>1. TypeInv => TypeOK
  <2> SUFFICES ASSUME TypeInv PROVE TypeOK
    OBVIOUS
  <2>1. DOMAIN chunks = Levels /\ \A l \in Levels : ChainOK(chunks[l])
    BY ChainType DEF TypeInv
  <2>2. ASSUME NEW p \in Procs PROVE CallOK(op[p])
    <3>1. CallInv(op[p]) /\ op[p].pc \in Pcs /\ op[p].gone \in SUBSET Prices /\ op[p].todo \in Todos
      BY CallFacts
    <3>2. ChainOK(op[p].todo) /\ \A k \in DOMAIN op[p].todo : op[p].todo[k] # <<>>
      BY <3>1, ChainType DEF Todos
    <3> QED
      BY <3>1, <3>2 DEF CallInv, CallOK
  <2> QED
    BY <2>1, <2>2 DEF TypeInv, CallsInv, TypeOK
<1>2. IInv => TypeOK
  BY <1>1 DEF IInv
<1> QED
  BY <1>2, Invariance, PTL

\* Match is a Trade, the taker being a newcomer; if nothing were left to exchange
\* it would be no more than the maker's leave.
LEMMA TradeMaps ==
  ASSUME IInv, NEW p \in Procs, Match(p)
  PROVE  E!Next \/ UNCHANGED E!vars
<1> DEFINE t == op[p].order
           m == NextMaker(p)
           n == MinOf(Left(t), Left(m))
<1>1. /\ Adding(p) /\ t \in Orders /\ m \in Orders
      /\ Left(t) \in Nat /\ n \in 0 .. Left(t) /\ n <= Left(m)
  BY TradingFacts DEF IInv, Match
<1>2. t \notin pooled
  BY <1>1 DEF IInv, Newcomers, Coming, Known
<1>3. User[t] # User[m] /\ m \notin pooled
  BY DEF Match, Partners
<1>4. /\ filled' = [filled EXCEPT ![t] = @ + n, ![m] = @ + n]
      /\ pooled' = IF n = Left(m) THEN pooled \cup {m} ELSE pooled
  BY DEF Match
<1>5. filled \in [Orders -> Nat]
  BY DEF IInv, TypeInv
<1> HIDE DEF t, m, n
<1>6. E!Left(t) = Left(t) /\ E!Left(m) = Left(m)
  BY DEF Left, E!Left
<1>7. CASE n = 0
  <2>1. filled' = filled
    <3>1. filled[t] + 0 = filled[t] /\ filled[m] + 0 = filled[m]
      BY <1>1, <1>5
    <3>2. filled' = [filled EXCEPT ![t] = filled[t] + 0, ![m] = filled[m] + 0]
      BY <1>1, <1>3, <1>4, <1>5, <1>7
    <3> QED
      BY <1>5, <3>1, <3>2
  <2>2. CASE pooled' = pooled \cup {m}
    BY <1>1, <2>1, <2>2 DEF E!Next, E!Withdraw
  <2>3. CASE pooled' = pooled
    BY <2>1, <2>3 DEF E!vars
  <2> QED
    BY <1>4, <2>2, <2>3
<1>8. CASE n # 0
  <2>1. n \in 1 .. Left(t)
    BY <1>1, <1>8
  <2>2. E!Trade(t, m, n)
    BY <1>1, <1>2, <1>3, <1>4, <1>6, <2>1 DEF E!Trade
  <2> QED
    BY <1>1, <1>6, <2>1, <2>2 DEF E!Next
<1> QED
  BY <1>7, <1>8

LEMMA Implements ==
  IInv /\ [Next]_vars => [E!Next \/ \E p \in Procs : TradesWiped(p)]_(E!vars)
<1> SUFFICES ASSUME IInv, [Next]_vars
             PROVE  E!Next \/ (\E p \in Procs : TradesWiped(p)) \/ UNCHANGED E!vars
  OBVIOUS
<1>1. CASE UNCHANGED vars
  BY <1>1 DEF vars, E!vars
<1>2. ASSUME NEW p \in Procs, Match(p) PROVE E!Next \/ UNCHANGED E!vars
  BY <1>2, TradeMaps
<1>3. ASSUME NEW p \in Procs, MatchWiped(p) PROVE TradesWiped(p)
  <2>1. op[p].pc = "trade" /\ NextMaker(p) \in pooled
    BY <1>3 DEF MatchWiped
  <2>2. op'[p].pc = "visit"
    BY <1>3, MatchWipedStep, MadeFields DEF IInv
  <2> QED
    BY <2>1, <2>2 DEF TradesWiped
<1>4. ASSUME NEW p \in Procs, Forget(p) PROVE E!Next
  <2>1. op[p].order \in Orders
    BY <1>4, CallFacts DEF Forget, CallInv, IInv
  <2>2. E!Withdraw(op[p].order)
    BY <1>4 DEF Forget, E!Withdraw
  <2> QED
    BY <2>1, <2>2 DEF E!Next
<1>5. ASSUME NEW p \in Procs, Step(p), ~Match(p), ~MatchWiped(p), ~Forget(p) PROVE UNCHANGED E!vars
  BY <1>5 DEF Step, E!vars, OpenLevel, Admit, PassOver, StopScan, CloseLevel, EndScan, Sweep, FindLevel,
              Attach, Register, CreateLevel, LocateLevel, RemoveFromLevel, DropLevel
<1>6. ASSUME NEW p \in Procs, NEW o \in Orders, AddOrder(p, o) \/ CancelOrder(p, o) PROVE UNCHANGED E!vars
  BY <1>6 DEF AddOrder, CancelOrder, E!vars
<1> QED
  BY <1>1, <1>2, <1>3, <1>4, <1>5, <1>6 DEF Next

\* Only the look at a maker brings a call to trade with it.
LEMMA SetsOut ==
  ASSUME TypeInv, [Next]_vars, NEW p \in Procs, op[p].pc # "trade", op'[p].pc = "trade"
  PROVE  NextMaker(p) \notin pooled
<1>1. \A o, g : After(o, g).pc # "trade"
  BY IdleMade, MadeFields DEF After
<1>2. ASSUME Step(p) PROVE Admit(p)
  <2>1. Idle.pc # "trade"
    BY IdleMade, MadeFields
  <2>2. ~OpenLevel(p)
    BY OpenLevelStep, MadeFields
  <2>3. ~PassOver(p) /\ ~Match(p) /\ ~MatchWiped(p)
    BY PassOverStep, MatchStep, MatchWipedStep, MadeFields
  <2>4. ~StopScan(p) /\ ~EndScan(p)
    BY <1>1, StopScanStep
  <2>5. ~CloseLevel(p)
    <3>1. ASSUME CloseLevel(p)
          PROVE  \E g : op'[p] = IF Left(op[p].order) = 0 THEN After(op[p].order, g)
                                ELSE Made("scan", op[p].order, op[p].at, None, <<>>, g)
      BY <3>1, CloseLevelStep
    <3>2. SUFFICES ASSUME CloseLevel(p) PROVE FALSE
      OBVIOUS
    <3>3. PICK g : op'[p] = IF Left(op[p].order) = 0 THEN After(op[p].order, g)
                            ELSE Made("scan", op[p].order, op[p].at, None, <<>>, g)
      BY <3>1, <3>2
    <3>4. Made("scan", op[p].order, op[p].at, None, <<>>, g).pc = "scan"
      BY MadeFields
    <3>5. CASE Left(op[p].order) = 0
      <4>1. op'[p] = After(op[p].order, g)
        BY <3>3, <3>5
      <4> QED
        BY <1>1, <4>1
    <3>6. CASE Left(op[p].order) # 0
      <4>1. op'[p] = Made("scan", op[p].order, op[p].at, None, <<>>, g)
        BY <3>3, <3>6
      <4> QED
        BY <3>4, <4>1
    <3> QED
      BY <3>5, <3>6
  <2>6. ~Sweep(p)
    BY <1>1, SweepStep
  <2>7. ~FindLevel(p) /\ ~LocateLevel(p)
    <3>1. \A o, i, l, c, g : /\ Made(IF l = None THEN "create" ELSE "attach", o, i, l, c, g).pc # "trade"
                            /\ Made(IF l = None THEN "forget" ELSE "remove", o, i, l, c, g).pc # "trade"
      BY MadeFields
    <3>2. ~FindLevel(p)
      <4>1. ASSUME FindLevel(p)
            PROVE  \E l : op'[p] = Made(IF l = None THEN "create" ELSE "attach", op[p].order, op[p].at, l,
                                        op[p].todo, op[p].gone)
        BY <4>1, FindLevelStep
      <4> QED
        BY <3>1, <4>1
    <3>3. ~LocateLevel(p)
      <4>1. ASSUME LocateLevel(p)
            PROVE  \E l : op'[p] = Made(IF l = None THEN "forget" ELSE "remove", op[p].order, op[p].at, l,
                                        op[p].todo, op[p].gone)
        BY <4>1, LocateLevelStep
      <4> QED
        BY <3>1, <4>1
    <3> QED
      BY <3>2, <3>3
  <2>8. \A l \in Levels : ~CreateLevel(p, l)
    BY CreateLevelStep, MadeFields
  <2>9. ~Attach(p) /\ ~Register(p) /\ ~DropLevel(p) /\ ~Forget(p)
    BY <2>1, AttachStep, RegisterStep, DropLevelStep, ForgetStep, MadeFields
  <2>10. ~RemoveFromLevel(p)
    <3>1. \A b, o, i, l, c, g : Made(IF b THEN "drop" ELSE "forget", o, i, l, c, g).pc # "trade"
      BY MadeFields
    <3> QED
      BY <3>1, RemoveStep
  <2> QED
    BY <1>2, <2>2, <2>3, <2>4, <2>5, <2>6, <2>7, <2>8, <2>9, <2>10 DEF Step
<1>3. ASSUME NEW q \in Procs, NEW o \in Orders, AddOrder(q, o) \/ CancelOrder(q, o) PROVE FALSE
  <2>1. PICK pc \in {"scan", "locate"} :
           op[q] = Idle /\ op' = [op EXCEPT ![q] = [Idle EXCEPT !.pc = pc, !.order = o]]
    BY <1>3 DEF AddOrder, CancelOrder
  <2>2. op'[q].pc = pc /\ \A r \in Procs \ {q} : op'[r] = op[r]
    BY <2>1, BeginFacts
  <2> QED
    BY <2>2
<1>4. ASSUME NEW q \in Procs \ {p}, Step(q) PROVE FALSE
  BY <1>4, StepSteady DEF Steady, Moved
<1>5. ~UNCHANGED vars
  BY DEF vars
<1>6. Admit(p)
  BY <1>2, <1>3, <1>4, <1>5 DEF Next
<1> QED
  BY <1>6 DEF Admit, Admissible, Spent

\* However the calls interleave, every step of the book is a trade of two
\* different users within both quantities in which neither order is closed, a
\* withdrawal, no step of the exchange at all, or a trade with an order that was
\* wiped since the look at it; and that look is at an order which is not closed
\* (AddOrder's loop, CancelOrder).
THEOREM BookImplementsExchange == Spec => ImplementsExchange
<1>1. Init => E!Init
  BY DEF Init, E!Init
<1>2. IInv /\ [Next]_vars =>
        [\A p \in Procs : op[p].pc # "trade" /\ op'[p].pc = "trade" => NextMaker(p) \notin pooled]_vars
  BY SetsOut DEF IInv
<1> QED
  BY <1>1, <1>2, Implements, Invariance, PTL DEF Spec, ImplementsExchange

-----------------------------------------------------------------------------
(***************************************************************************)
(* While calls do not overlap.                                             *)
(***************************************************************************)
\* o comes before m in the sequence e, in which nothing comes twice.
First(e, o, m) == \E i, j \in DOMAIN e : i < j /\ e[i] = o /\ e[j] = m
Once(e) == \A i, j \in DOMAIN e : e[i] = e[j] => i = j

\* One buffer that has room, or none; nothing in it; its orders in the order of e.
Slim(c) == DOMAIN c \in SUBSET {1} /\ \A k \in DOMAIN c : Len(c[k]) < ChunkSize
Vacated(c) == \A o \in Orders : ~Ins(o, c)
InOrder(e, c) == \A k \in DOMAIN c : \A i, j \in DOMAIN c[k] : i < j => First(e, c[k][i], c[k][j])

LEMMA FirstStrict ==
  ASSUME NEW e \in Seq(Orders), Once(e)
  PROVE  \A o, m : First(e, o, m) => o # m /\ ~First(e, m, o)
<1>1. DOMAIN e = 1 .. Len(e) /\ Len(e) \in Nat
  BY LenProperties
<1>2. DOMAIN e \in SUBSET Nat
  BY <1>1
<1> SUFFICES ASSUME NEW o, NEW m, First(e, o, m) PROVE o # m /\ ~First(e, m, o)
  OBVIOUS
<1>3. PICK i, j \in DOMAIN e : i < j /\ e[i] = o /\ e[j] = m
  BY DEF First
<1>4. i \in Nat /\ j \in Nat
  BY <1>2
<1>5. o # m
  BY <1>3, <1>4 DEF Once
<1>6. ASSUME First(e, m, o) PROVE FALSE
  <2>1. PICK a, b \in DOMAIN e : a < b /\ e[a] = m /\ e[b] = o
    BY <1>6 DEF First
  <2>2. a = j /\ b = i
    BY <1>3, <2>1, Zenon DEF Once
  <2> QED
    BY <1>3, <1>4, <2>1, <2>2
<1> QED
  BY <1>5, <1>6

\* The only buffer of a slim chain.
LEMMA SlimDomain ==
  ASSUME NEW c \in Chains, Slim(c)
  PROVE  /\ DOMAIN c = {} \/ DOMAIN c = {1}
         /\ \A k \in DOMAIN c : k = 1 /\ c[k] \in Seq(Orders)
         /\ Visible(c) = DOMAIN c
         /\ \A o : Ins(o, c) <=> 1 \in DOMAIN c /\ \E i \in DOMAIN c[1] : c[1][i] = o
<1>1. DOMAIN c = {} \/ DOMAIN c = {1}
  BY DEF Slim
<1>2. \A k \in DOMAIN c : k = 1 /\ c[k] \in Seq(Orders)
  BY <1>1, ChainType DEF ChainOK
<1>3. Visible(c) = DOMAIN c
  BY DEF Visible, Slim
<1> QED
  BY <1>1, <1>2, <1>3 DEF Ins

LEMMA InsType == ASSUME NEW c \in Chains, NEW o, Ins(o, c) PROVE o \in Orders
<1>1. PICK k \in DOMAIN c : \E i \in DOMAIN c[k] : c[k][i] = o
  BY DEF Ins
<1>2. c[k] \in Seq(Orders)
  BY ChainType DEF ChainOK
<1>3. PICK i \in DOMAIN c[k] : c[k][i] = o
  BY <1>1
<1>4. i \in 1 .. Len(c[k])
  BY <1>2, <1>3, LenProperties
<1> QED
  BY <1>2, <1>3, <1>4, ElementOfSeq

LEMMA NoDomain == ASSUME NEW c, NEW S, S = {} PROVE Restrict(c, S) = <<>>
BY DEF Restrict

LEMMA SlimSeen ==
  ASSUME NEW c \in Chains, Slim(c)
  PROVE  /\ Slim(Seen(c)) /\ Seen(c) \in Chains
         /\ \A o : Ins(o, Seen(c)) <=> Ins(o, c)
         /\ \A e : InOrder(e, c) => InOrder(e, Seen(c))
         /\ IsEmpty(c) <=> Vacated(c)
<1> DEFINE S == {k \in Visible(c) : c[k] # <<>>}
<1>1. S \in SUBSET DOMAIN c /\ Seen(c) = Restrict(c, S)
  BY DEF Visible, Seen
<1>2. \A k \in DOMAIN c : k \notin S => c[k] = <<>>
  BY SlimDomain
<1>3. \A k \in S : c[k] # <<>> /\ c[k] \in Seq(Orders)
  BY <1>1, SlimDomain
<1> HIDE DEF S
<1>4. /\ Seen(c) \in Chains /\ DOMAIN Seen(c) = S /\ \A k \in S : Seen(c)[k] = c[k]
      /\ \A o : Ins(o, Seen(c)) => Ins(o, c)
  BY <1>1, RestrictedChain
<1>5. Slim(Seen(c))
  BY <1>1, <1>4 DEF Slim
<1>6. ASSUME NEW o, Ins(o, c) PROVE Ins(o, Seen(c))
  <2>1. PICK k \in DOMAIN c : \E i \in DOMAIN c[k] : c[k][i] = o
    BY <1>6 DEF Ins
  <2>2. c[k] # <<>>
    BY <2>1
  <2>3. k \in S
    BY <1>2, <2>2
  <2> QED
    BY <1>4, <2>1, <2>3 DEF Ins
<1>7. ASSUME NEW e, InOrder(e, c) PROVE InOrder(e, Seen(c))
  BY <1>1, <1>4, <1>7 DEF InOrder
<1>8. ASSUME IsEmpty(c) PROVE Vacated(c)
  <2>1. Seen(c) = <<>>
    BY <1>8 DEF IsEmpty
  <2>2. \A o : ~Ins(o, Seen(c))
    BY <2>1, EmptyChain
  <2> QED
    BY <1>6, <2>2 DEF Vacated
<1>9. ASSUME ~IsEmpty(c) PROVE ~Vacated(c)
  <2>1. S # {}
    BY <1>1, <1>9, NoDomain DEF IsEmpty
  <2>2. PICK k \in S : TRUE
    BY <2>1
  <2>3. Head(c[k]) \in Orders /\ Head(c[k]) = c[k][1] /\ 1 \in DOMAIN c[k]
    BY <1>3, HeadTailProperties, LenProperties, EmptySeq
  <2>4. Ins(c[k][1], c)
    BY <1>1, <2>3 DEF Ins
  <2> QED
    BY <2>3, <2>4 DEF Vacated
<1> QED
  BY <1>4, <1>5, <1>6, <1>7, <1>8, <1>9

\* The copy without the maker that was next: all others come after it.
LEMMA SlimBehind ==
  ASSUME NEW c \in Todos, c # <<>>, Slim(c), NEW e \in Seq(Orders), Once(e), InOrder(e, c)
  PROVE  LET m == Head(c[LeastOf(DOMAIN c)])
         IN  /\ Slim(Behind(c)) /\ InOrder(e, Behind(c))
             /\ \A o : Ins(o, Behind(c)) <=> Ins(o, c) /\ o # m
             /\ Ins(m, c) /\ \A o : Ins(o, c) => o = m \/ First(e, m, o)
<1>0. c \in Chains
  BY DEF Todos
<1>1. DOMAIN c = {1}
  BY <1>0, NonEmptyChain, SlimDomain
<1>2. LeastOf(DOMAIN c) = 1
  <2>1. LeastOf(DOMAIN c) \in DOMAIN c
    <3>1. DOMAIN c \in SUBSET Nat
      BY <1>1
    <3> QED
      BY <1>1, <3>1, LeastIsThere
  <2> QED
    BY <1>1, <2>1
<1> DEFINE s == c[1]
           m == Head(s)
<1>3. s \in Seq(Orders) /\ s # <<>> /\ Len(s) < ChunkSize
  BY <1>0, <1>1, SlimDomain DEF Todos, Slim
<1>4. Len(s) \in Nat \ {0} /\ DOMAIN s = 1 .. Len(s) /\ m = s[1] /\ 1 \in DOMAIN s
  <2>1. Len(s) \in Nat /\ Len(s) # 0 /\ DOMAIN s = 1 .. Len(s)
    BY <1>3, LenProperties, EmptySeq
  <2>2. m = s[1]
    BY <1>3, HeadTailProperties
  <2> QED
    BY <2>1, <2>2
<1>5. \A o : Ins(o, c) <=> \E i \in DOMAIN s : s[i] = o
  BY <1>0, <1>1, SlimDomain
<1>6. \A i, j \in DOMAIN s : i < j => First(e, s[i], s[j])
  BY <1>1 DEF InOrder
<1>7. Behind(c) = IF Len(s) = 1 THEN Restrict(c, DOMAIN c \ {1}) ELSE [c EXCEPT ![1] = Tail(s)]
  BY <1>1, <1>2 DEF Behind
<1>8. m = Head(c[LeastOf(DOMAIN c)])
  BY <1>2
<1> HIDE DEF s, m
<1>9. ASSUME NEW o, Ins(o, c) PROVE o = m \/ First(e, m, o)
  <2>1. PICK i \in DOMAIN s : s[i] = o
    BY <1>5, <1>9
  <2>2. CASE i = 1
    BY <1>4, <2>1, <2>2
  <2>3. CASE i # 1
    <3>1. 1 < i
      BY <1>4, <2>1, <2>3
    <3> QED
      BY <1>4, <1>6, <2>1, <3>1
  <2> QED
    BY <2>2, <2>3
<1>10. CASE Len(s) = 1
  <2>1. Behind(c) = <<>>
    <3>1. Behind(c) = Restrict(c, DOMAIN c \ {1})
      BY <1>7, <1>10
    <3> QED
      BY <1>1, <3>1, NoDomain
  <2>2. Slim(<<>>) /\ InOrder(e, <<>>)
    BY EmptyChain DEF Slim, InOrder
  <2>3. \A o : Ins(o, c) <=> o = m
    BY <1>4, <1>5, <1>10
  <2> QED
    BY <1>8, <2>1, <2>2, <2>3, EmptyChain
<1>11. CASE Len(s) # 1
  <2> DEFINE t == Tail(s)
             n == Len(s)
             b == Behind(c)
  <2>1. n \in Nat /\ n > 1 /\ n < ChunkSize
    <3>1. n \in Nat \ {0} /\ n # 1 /\ n < ChunkSize
      BY <1>3, <1>4, <1>11
    <3> HIDE DEF n
    <3> QED
      BY <3>1
  <2>2. t \in Seq(Orders) /\ Len(t) = n - 1 /\ \A i \in 1 .. n - 1 : t[i] = s[i + 1]
    BY <1>3, HeadTailProperties
  <2>3. DOMAIN t = 1 .. n - 1 /\ DOMAIN s = 1 .. n
    BY <1>4, <2>2, LenProperties
  <2>4. b = [c EXCEPT ![1] = t]
    BY <1>7, <1>11
  <2> HIDE DEF t, n, b
  <2>5. DOMAIN b = {1} /\ b[1] = t
    BY <1>1, <2>4
  <2>6. Slim(b)
    BY <2>1, <2>2, <2>5, ChunkAssumption DEF Slim
  <2>7. InOrder(e, b)
    <3> SUFFICES ASSUME NEW i \in DOMAIN t, NEW j \in DOMAIN t, i < j PROVE First(e, t[i], t[j])
      BY <2>5 DEF InOrder
    <3>1. i + 1 \in DOMAIN s /\ j + 1 \in DOMAIN s /\ i + 1 < j + 1
      BY <2>1, <2>3
    <3>2. t[i] = s[i + 1] /\ t[j] = s[j + 1]
      BY <2>2, <2>3
    <3> QED
      BY <1>6, <3>1, <3>2
  <2>8. \A o : Ins(o, b) <=> \E i \in DOMAIN t : t[i] = o
    BY <2>5 DEF Ins
  <2>9. ASSUME NEW o, Ins(o, b) PROVE Ins(o, c) /\ o # m
    <3>1. PICK i \in DOMAIN t : t[i] = o
      BY <2>8, <2>9
    <3>2. i + 1 \in DOMAIN s /\ 1 < i + 1 /\ o = s[i + 1]
      BY <2>1, <2>2, <2>3, <3>1
    <3>3. First(e, m, o)
      BY <1>4, <1>6, <3>2
    <3> QED
      BY <1>5, <3>2, <3>3, FirstStrict
  <2>10. ASSUME NEW o, Ins(o, c), o # m PROVE Ins(o, b)
    <3>1. PICK i \in DOMAIN s : s[i] = o
      BY <1>5, <2>10
    <3>2. i # 1
      BY <1>4, <2>10, <3>1
    <3>3. i - 1 \in DOMAIN t /\ i - 1 + 1 = i
      BY <2>1, <2>3, <3>2
    <3>4. t[i - 1] = o
      <4>1. i - 1 \in 1 .. n - 1
        BY <2>3, <3>3
      <4>2. t[i - 1] = s[i - 1 + 1]
        BY <2>2, <4>1
      <4> QED
        BY <3>1, <3>3, <4>2
    <3> QED
      BY <2>8, <3>3, <3>4
  <2>11. Ins(m, c)
    BY <1>4, <1>5
  <2> QED
    BY <1>8, <1>9, <2>6, <2>7, <2>9, <2>10, <2>11 DEF b
<1> QED
  BY <1>8, <1>9, <1>10, <1>11

LEMMA CutAt ==
  ASSUME NEW s \in Seq(Orders), NEW i \in DOMAIN s
  PROVE  LET r == SubSeq(s, 1, i - 1) \o SubSeq(s, i + 1, Len(s))
         IN  /\ Len(r) = Len(s) - 1 /\ DOMAIN r = 1 .. Len(s) - 1
             /\ \A k \in 1 .. Len(s) - 1 : r[k] = IF k < i THEN s[k] ELSE s[k + 1]
<1> DEFINE a == SubSeq(s, 1, i - 1)
           b == SubSeq(s, i + 1, Len(s))
           n == Len(s)
<1>1. DOMAIN s = 1 .. n /\ n \in Nat /\ i \in 1 .. n
  BY LenProperties
<1>2. a \in Seq(Orders) /\ Len(a) = i - 1 /\ \A k \in 1 .. i - 1 : a[k] = s[k]
  <2>1. \A k \in 1 .. i - 1 : s[k] \in Orders
    BY <1>1, ElementOfSeq
  <2>2. /\ a \in Seq(Orders) /\ Len(a) = (IF 1 <= i - 1 THEN i - 1 - 1 + 1 ELSE 0)
        /\ \A k \in 1 .. i - 1 - 1 + 1 : a[k] = s[1 + k - 1]
    BY <1>1, <2>1, SubSeqProperties
  <2> HIDE DEF a, n
  <2>3. (IF 1 <= i - 1 THEN i - 1 - 1 + 1 ELSE 0) = i - 1 /\ i - 1 - 1 + 1 = i - 1
    BY <1>1
  <2>4. ASSUME NEW k \in 1 .. i - 1 PROVE a[k] = s[k]
    <3>1. 1 + k - 1 = k /\ k \in 1 .. i - 1 - 1 + 1
      BY <1>1
    <3> QED
      BY <2>2, <3>1
  <2> QED
    BY <2>2, <2>3, <2>4
<1>3. b \in Seq(Orders) /\ Len(b) = n - i /\ \A k \in 1 .. n - i : b[k] = s[i + k]
  <2>1. \A k \in i + 1 .. n : s[k] \in Orders
    BY <1>1, ElementOfSeq
  <2>2. /\ b \in Seq(Orders) /\ Len(b) = (IF i + 1 <= n THEN n - (i + 1) + 1 ELSE 0)
        /\ \A k \in 1 .. n - (i + 1) + 1 : b[k] = s[i + 1 + k - 1]
    BY <1>1, <2>1, SubSeqProperties
  <2> HIDE DEF b, n
  <2>3. (IF i + 1 <= n THEN n - (i + 1) + 1 ELSE 0) = n - i
    BY <1>1
  <2>4. ASSUME NEW k \in 1 .. n - i PROVE b[k] = s[i + k]
    <3>1. i + 1 + k - 1 = i + k /\ k \in 1 .. n - (i + 1) + 1
      BY <1>1
    <3>2. b[k] = s[i + 1 + k - 1]
      BY <2>2, <3>1, Zenon
    <3> QED
      BY <3>1, <3>2
  <2> QED
    BY <2>2, <2>3, <2>4
<1> HIDE DEF a, b, n
<1> DEFINE r == a \o b
<1>4. /\ r \in Seq(Orders) /\ Len(r) = Len(a) + Len(b)
      /\ \A k \in 1 .. Len(a) + Len(b) : r[k] = (IF k <= Len(a) THEN a[k] ELSE b[k - Len(a)])
  BY <1>2, <1>3, ConcatProperties
<1> HIDE DEF r
<1>5. Len(r) = n - 1 /\ DOMAIN r = 1 .. n - 1
  <2>1. Len(a) + Len(b) = n - 1
    BY <1>1, <1>2, <1>3
  <2> QED
    BY <1>4, <2>1, LenProperties
<1>6. ASSUME NEW k \in 1 .. n - 1 PROVE r[k] = IF k < i THEN s[k] ELSE s[k + 1]
  <2>1. k \in 1 .. Len(a) + Len(b) /\ Len(a) = i - 1
    BY <1>1, <1>2, <1>3
  <2>2. CASE k < i
    <3>1. k <= i - 1 /\ k \in 1 .. i - 1
      BY <1>1, <2>2
    <3> QED
      BY <1>2, <1>4, <2>1, <2>2, <3>1
  <2>3. CASE ~(k < i)
    <3>1. ~(k <= i - 1) /\ k - (i - 1) \in 1 .. n - i /\ i + (k - (i - 1)) = k + 1
      BY <1>1, <2>3
    <3>2. r[k] = b[k - (i - 1)]
      BY <1>4, <2>1, <3>1
    <3>3. b[k - (i - 1)] = s[i + (k - (i - 1))]
      BY <1>3, <3>1, Zenon
    <3> QED
      BY <2>3, <3>1, <3>2, <3>3
  <2> QED
    BY <2>2, <2>3
<1> QED
  BY <1>5, <1>6 DEF r, a, b, n

\* A buffer is compacted: the other orders stay, in their order.
LEMMA Compacted ==
  ASSUME NEW s \in Seq(Orders), Len(s) < ChunkSize, NEW e \in Seq(Orders), Once(e),
         \A i, j \in DOMAIN s : i < j => First(e, s[i], s[j]), NEW o
  PROVE  LET r == Without(s, o)
         IN  /\ r \in Seq(Orders) /\ Len(r) < ChunkSize
             /\ \A i, j \in DOMAIN r : i < j => First(e, r[i], r[j])
             /\ \A x : (\E i \in DOMAIN r : r[i] = x) <=> (\E i \in DOMAIN s : s[i] = x) /\ x # o
<1> DEFINE r == Without(s, o)
           n == Len(s)
<1>1. r \in Seq(Orders)
  BY WithoutType
<1>2. n \in Nat /\ DOMAIN s = 1 .. n
  BY LenProperties
<1>3. CASE ~\E i \in DOMAIN s : s[i] = o
  <2>1. r = s
    BY <1>3 DEF Without
  <2> QED
    BY <1>3, <2>1
<1>4. CASE \E i \in DOMAIN s : s[i] = o
  <2> DEFINE i == CHOOSE i \in DOMAIN s : s[i] = o
  <2>1. i \in DOMAIN s /\ s[i] = o
    BY <1>4
  <2>2. r = SubSeq(s, 1, i - 1) \o SubSeq(s, i + 1, Len(s))
    BY <1>4 DEF Without
  <2> HIDE DEF i
  <2>3. /\ Len(r) = n - 1 /\ DOMAIN r = 1 .. n - 1
        /\ \A k \in 1 .. n - 1 : r[k] = IF k < i THEN s[k] ELSE s[k + 1]
    BY <2>1, <2>2, CutAt
  <2> HIDE DEF r, n
  <2>4. Len(r) < ChunkSize
    <3>1. n < ChunkSize
      BY DEF n
    <3> QED
      BY <1>2, <2>3, <3>1, ChunkAssumption
  <2> DEFINE at(k) == IF k < i THEN k ELSE k + 1
  <2>5. i \in 1 .. n
    BY <1>2, <2>1
  <2>6. ASSUME NEW k \in DOMAIN r PROVE at(k) \in DOMAIN s /\ at(k) # i /\ r[k] = s[at(k)]
    <3>1. k \in 1 .. n - 1
      BY <2>3
    <3> QED
      BY <1>2, <2>3, <2>5, <3>1
  <2>7. ASSUME NEW j \in DOMAIN r, NEW k \in DOMAIN r, j < k PROVE at(j) < at(k)
    <3>1. j \in 1 .. n - 1 /\ k \in 1 .. n - 1
      BY <2>3
    <3> QED
      BY <1>2, <2>5, <2>7, <3>1
  <2>8. ASSUME NEW j \in DOMAIN s, j # i PROVE \E k \in DOMAIN r : at(k) = j
    <3>1. j \in 1 .. n
      BY <1>2
    <3>2. CASE j < i
      <4>1. j \in 1 .. n - 1 /\ at(j) = j
        BY <1>2, <2>5, <3>1, <3>2
      <4> QED
        BY <2>3, <4>1
    <3>3. CASE ~(j < i)
      <4>1. j - 1 \in 1 .. n - 1 /\ at(j - 1) = j
        BY <1>2, <2>5, <2>8, <3>1, <3>3
      <4> QED
        BY <2>3, <4>1
    <3> QED
      BY <3>2, <3>3
  <2> HIDE DEF at
  <2>9. \A j, k \in DOMAIN r : j < k => First(e, r[j], r[k])
    BY <2>6, <2>7
  <2>10. ASSUME NEW x, NEW k \in DOMAIN r, r[k] = x PROVE (\E j \in DOMAIN s : s[j] = x) /\ x # o
    <3>1. at(k) \in DOMAIN s /\ at(k) # i /\ s[at(k)] = x
      BY <2>6, <2>10
    <3>2. at(k) < i \/ i < at(k)
      BY <1>2, <2>5, <3>1
    <3>3. First(e, s[at(k)], s[i]) \/ First(e, s[i], s[at(k)])
      BY <2>1, <3>1, <3>2
    <3> QED
      BY <2>1, <3>1, <3>3, FirstStrict
  <2>11. ASSUME NEW x, x # o, NEW j \in DOMAIN s, s[j] = x PROVE \E k \in DOMAIN r : r[k] = x
    <3>1. j # i
      BY <2>1, <2>11
    <3>2. PICK k \in DOMAIN r : at(k) = j
      BY <2>8, <3>1
    <3> QED
      BY <2>6, <2>11, <3>2
  <2> QED
    BY <1>1, <2>4, <2>9, <2>10, <2>11 DEF r
<1> QED
  BY <1>3, <1>4

\* RemoveOrder on one buffer: the first one is never unlinked.
LEMMA SlimWithout ==
  ASSUME NEW c \in Chains, Slim(c), NEW e \in Seq(Orders), Once(e), InOrder(e, c), NEW o
  PROVE  /\ Slim(WithoutOrder(c, o)) /\ InOrder(e, WithoutOrder(c, o))
         /\ \A x : Ins(x, WithoutOrder(c, o)) <=> Ins(x, c) /\ x # o
<1> DEFINE rest == [k \in DOMAIN c |-> Without(c[k], o)]
           looksEmpty(k) == Len(rest[k]) \in {0, ChunkSize}
           before(k) == CHOOSE j \in DOMAIN c : j < k /\ \A i \in DOMAIN c : i < k => i <= j
           G(u) == u = [k \in DOMAIN c |-> ~IsLeast(DOMAIN c, k) /\ looksEmpty(k) /\ ~u[before(k)]]
           un == CHOOSE u : G(u)
<1>1. DOMAIN c = {} \/ DOMAIN c = {1}
  BY SlimDomain
<1>2. \A k \in DOMAIN c : IsLeast(DOMAIN c, k)
  BY <1>1 DEF IsLeast
<1>3. WithoutOrder(c, o) = Restrict(rest, {k \in DOMAIN c : ~un[k]})
  BY DEF WithoutOrder
<1>4. G(un)
  <2> DEFINE u == [k \in DOMAIN c |-> FALSE]
  <2>1. G(u)
    BY <1>2
  <2> HIDE DEF G
  <2> QED
    BY <2>1
<1>5. \A k \in DOMAIN c : ~un[k]
  <2>1. un = [k \in DOMAIN c |-> ~IsLeast(DOMAIN c, k) /\ looksEmpty(k) /\ ~un[before(k)]]
    BY <1>4
  <2> HIDE DEF un, looksEmpty, before
  <2> QED
    BY <1>2, <2>1
<1> HIDE DEF un, G
<1> DEFINE w == WithoutOrder(c, o)
<1>6. w = rest
  <2>1. {k \in DOMAIN c : ~un[k]} = DOMAIN c
    BY <1>5
  <2>2. w = Restrict(rest, DOMAIN c)
    BY <1>3, <2>1
  <2>3. Restrict(rest, DOMAIN c) = rest
    BY DEF Restrict
  <2> QED
    BY <2>2, <2>3
<1>7. DOMAIN w = DOMAIN c /\ \A k \in DOMAIN c : w[k] = Without(c[k], o)
  BY <1>6
<1> HIDE DEF w, rest
<1>8. ASSUME NEW k \in DOMAIN c
      PROVE  /\ w[k] \in Seq(Orders) /\ Len(w[k]) < ChunkSize
             /\ \A i, j \in DOMAIN w[k] : i < j => First(e, w[k][i], w[k][j])
             /\ \A x : (\E i \in DOMAIN w[k] : w[k][i] = x) <=> (\E i \in DOMAIN c[k] : c[k][i] = x) /\ x # o
  <2>1. c[k] \in Seq(Orders) /\ Len(c[k]) < ChunkSize
    BY SlimDomain DEF Slim
  <2>2. \A i, j \in DOMAIN c[k] : i < j => First(e, c[k][i], c[k][j])
    BY DEF InOrder
  <2>3. PICK s : s = c[k]
    OBVIOUS
  <2>4. /\ Without(s, o) \in Seq(Orders) /\ Len(Without(s, o)) < ChunkSize
        /\ \A i, j \in DOMAIN Without(s, o) : i < j => First(e, Without(s, o)[i], Without(s, o)[j])
        /\ \A x : (\E i \in DOMAIN Without(s, o) : Without(s, o)[i] = x) <=> (\E i \in DOMAIN s : s[i] = x) /\ x # o
    <3>1. s \in Seq(Orders) /\ Len(s) < ChunkSize /\ \A i, j \in DOMAIN s : i < j => First(e, s[i], s[j])
      BY <2>1, <2>2, <2>3
    <3> QED
      BY <3>1, Compacted
  <2>5. w[k] = Without(s, o)
    BY <1>7, <2>3
  <2> QED
    BY <2>3, <2>4, <2>5
<1>9. Slim(w) /\ InOrder(e, w)
  BY <1>7, <1>8 DEF Slim, InOrder
<1>10. \A x : Ins(x, w) <=> Ins(x, c) /\ x # o
  BY <1>7, <1>8 DEF Ins
<1> QED
  BY <1>9, <1>10 DEF w

\* AddOrder on one buffer: the order comes last.
LEMMA SlimWith ==
  ASSUME NEW c \in Chains, Slim(c), NEW e, InOrder(e, c), NEW o \in Orders,
         \A x : Ins(x, c) => First(e, x, o),
         Visible(WithOrder(c, o)) = DOMAIN WithOrder(c, o)
  PROVE  /\ Slim(WithOrder(c, o)) /\ InOrder(e, WithOrder(c, o))
         /\ \A x : Ins(x, WithOrder(c, o)) <=> Ins(x, c) \/ x = o
<1> DEFINE w == WithOrder(c, o)
           s == IF DOMAIN c = {} THEN <<>> ELSE c[1]
<1>1. DOMAIN c = {} \/ DOMAIN c = {1}
  BY SlimDomain
<1>2. s \in Seq(Orders) /\ \A x : Ins(x, c) <=> \E i \in DOMAIN s : s[i] = x
  <2>1. CASE DOMAIN c = {}
    BY <2>1 DEF Ins
  <2>2. CASE DOMAIN c = {1}
    BY <2>2, SlimDomain
  <2> QED
    BY <1>1, <2>1, <2>2
<1>3. \A i, j \in DOMAIN s : i < j => First(e, s[i], s[j])
  BY <1>1 DEF InOrder
<1>4. DOMAIN w = {1} /\ w[1] = Append(s, o)
  <2>1. CASE DOMAIN c = {}
    <3>1. Visible(c) = {}
      BY <2>1 DEF Visible
    <3>2. w = [k \in DOMAIN c \cup {1} |-> IF k = 1 THEN <<o>> ELSE c[k]]
      BY <2>1, <3>1 DEF WithOrder
    <3>3. Append(<<>>, o) = <<o>>
      OBVIOUS
    <3> HIDE DEF w
    <3> QED
      BY <2>1, <3>2, <3>3
  <2>2. CASE DOMAIN c = {1}
    <3>1. Visible(c) = {1}
      BY <2>2, SlimDomain
    <3>2. LeastOf({1}) = 1
      <4>1. LeastOf({1}) \in {1}
        <5>1. {1} \in SUBSET Nat
          OBVIOUS
        <5> QED
          BY <5>1, LeastIsThere
      <4> QED
        BY <4>1
    <3>3. w = [c EXCEPT ![1] = Append(@, o)]
      BY <3>1, <3>2 DEF WithOrder
    <3> HIDE DEF w
    <3> QED
      BY <2>2, <3>3
  <2> QED
    BY <1>1, <2>1, <2>2
<1> DEFINE t == w[1]
           n == Len(s)
<1>5. /\ t \in Seq(Orders) /\ Len(t) = n + 1 /\ n \in Nat /\ DOMAIN s = 1 .. n /\ DOMAIN t = 1 .. n + 1
      /\ (\A i \in 1 .. n : t[i] = s[i]) /\ t[n + 1] = o
  BY <1>2, <1>4, AppendProperties, LenProperties
<1>6. Slim(w)
  <2>1. \A k \in DOMAIN w : Len(w[k]) < ChunkSize
    BY DEF Visible
  <2> QED
    BY <1>4, <2>1 DEF Slim
<1> HIDE DEF w, s, n
<1>7. InOrder(e, w)
  <2> HIDE DEF t
  <2> SUFFICES ASSUME NEW i \in DOMAIN t, NEW j \in DOMAIN t, i < j PROVE First(e, t[i], t[j])
    BY <1>4 DEF InOrder, t
  <2>1. i \in 1 .. n /\ j \in 1 .. n + 1
    BY <1>5
  <2>2. CASE j = n + 1
    <3>1. t[j] = o /\ t[i] = s[i] /\ i \in DOMAIN s
      BY <1>5, <2>1, <2>2
    <3>2. Ins(s[i], c)
      BY <1>2, <3>1
    <3> QED
      BY <3>1, <3>2
  <2>3. CASE j # n + 1
    <3>1. j \in 1 .. n
      BY <1>5, <2>1, <2>3
    <3> QED
      BY <1>3, <1>5, <2>1, <3>1
  <2> QED
    BY <2>2, <2>3
<1>8. \A x : Ins(x, w) <=> Ins(x, c) \/ x = o
  <2>1. \A x : Ins(x, w) <=> \E i \in DOMAIN t : t[i] = x
    BY <1>4 DEF Ins
  <2> HIDE DEF t
  <2>2. DOMAIN t = DOMAIN s \cup {n + 1}
    BY <1>5
  <2>3. ASSUME NEW x PROVE (\E i \in DOMAIN t : t[i] = x) <=> (\E i \in DOMAIN s : s[i] = x) \/ x = o
    BY <1>5, <2>2
  <2> QED
    BY <1>2, <2>1, <2>3
<1> QED
  BY <1>6, <1>7, <1>8 DEF w

-----------------------------------------------------------------------------
\* The side and price of an order, and of the level that a scan is at.
Home(o)  == <<Side[o], Price[o]>>
Place(c) == <<Opposite(Side[c.order]), KeyOrder[c.at]>>

ScanPcs   == {"scan", "visit", "trade", "sweep"}
RestPcs   == {"find", "create", "attach", "register"}
CancelPcs == {"locate", "remove", "drop", "forget"}

\* The levels, whatever is in progress: no level of the trees serves two prices or
\* lies in the pool, one that is in no tree is empty, and a level has its orders in
\* the order of their arrival.
Tidy(l) == Slim(chunks[l]) /\ InOrder(entered, chunks[l]) /\ spare[l] \in {0, 1}

OneLevelEach ==
  \A y \in InTree :
    /\ LevelAt(y) \in made /\ spare[LevelAt(y)] = 0
    /\ \A z \in InTree : LevelAt(y) = LevelAt(z) => y = z

LooseAreEmpty == \A l \in Levels : (\A y \in InTree : LevelAt(y) # l) => Vacated(chunks[l])

Shelf == (\A l \in Levels : Tidy(l)) /\ OneLevelEach /\ LooseAreEmpty

\* What the call in progress makes of the rest: the order that is in no level yet
\* or no more, the one the index has not got yet, the prices whose levels the
\* call has emptied, or has not yet filled.
Absent(c)  == IF c.pc \in ScanPcs \cup {"find", "create", "attach", "drop", "forget"} THEN {c.order} ELSE {}
Unknown(c) == IF c.pc \in ScanPcs \cup RestPcs THEN {c.order} ELSE {}

Emptied(c, y) ==
  \/ c.pc \in ScanPcs /\ y[1] = Opposite(Side[c.order]) /\ y[2] \in c.gone
  \/ c.pc \in {"visit", "trade"} /\ y = Place(c)
  \/ c.pc \in {"attach", "drop"} /\ y = Home(c.order)

Listing(c) ==
  /\ \A o \in Resting \ Absent(c) : Home(o) \in InTree /\ Ins(o, chunks[LevelAt(Home(o))])
  /\ \A y \in InTree : \A o \in Orders :
       Ins(o, chunks[LevelAt(y)]) => o \in Resting \ Absent(c) /\ y = Home(o)
  /\ \A y \in InTree : Vacated(chunks[LevelAt(y)]) => Emptied(c, y)

Index(c) == ordersByID = Resting \ Unknown(c)

\* A visit of makers: who is no more to be visited but still there is of the
\* taker's user, unless nothing is left of the taker.
AtMakers(c) ==
  /\ Place(c) \in InTree /\ c.level = LevelAt(Place(c))
  /\ Slim(c.todo) /\ InOrder(entered, c.todo)
  /\ \A o \in Orders : Ins(o, c.todo) => Ins(o, chunks[c.level])
  /\ \A o \in Orders : Ins(o, chunks[c.level]) =>
       Ins(o, c.todo) \/ User[o] = User[c.order] \/ Left(c.order) = 0

SweptIsEmpty(c) ==
  \A x \in c.gone : LET y == <<Opposite(Side[c.order]), x>>
                    IN  y \in InTree => Vacated(chunks[LevelAt(y)])

Stage(c) ==
  /\ c.pc \in ScanPcs \cup RestPcs => entered # <<>> /\ c.order = Taker /\ c.order \notin pooled
  /\ c.pc \in RestPcs => c.order \in Rests /\ Left(c.order) > 0
  /\ c.pc \in CancelPcs => c.order \in Resting
  /\ c.pc \in {"visit", "trade"} => AtMakers(c)
  /\ c.pc = "trade" => c.todo # <<>> /\ Left(c.order) > 0 /\ Crosses(c.order, KeyOrder[c.at])
  /\ c.pc = "create" => Home(c.order) \notin InTree
  /\ c.pc \in {"attach", "remove", "drop"} => Home(c.order) \in InTree /\ c.level = LevelAt(Home(c.order))
  /\ c.pc = "drop" => Vacated(chunks[c.level])
  /\ c.pc \in ScanPcs => SweptIsEmpty(c)

Story(c) == Once(entered) /\ Shelf /\ Listing(c) /\ Index(c) /\ Stage(c)

Alone == \A p, q \in Procs : op[p] # Idle /\ op[q] # Idle => p = q

\* The call in progress, or none.
Current(c) == (AllIdle /\ c = Idle) \/ \E p \in Procs : op[p] = c /\ c # Idle

Quiet == calm => Alone /\ \A c \in Calls : Current(c) => Story(c)

-----------------------------------------------------------------------------
LEMMA Sides == ASSUME NEW s PROVE Opposite(s) \in {"buy", "sell"} /\ (s \in {"buy", "sell"} => Opposite(s) # s)
BY DEF Opposite

LEMMA TreeTypes ==
  ASSUME TypeInv, NEW y \in InTree
  PROVE  /\ y[1] \in {"buy", "sell"} /\ y[2] \in Prices /\ y = <<y[1], y[2]>>
         /\ LevelAt(y) \in Levels /\ LevelAt(y) = book[y[1]][y[2]]
         /\ chunks[LevelAt(y)] \in Chains
BY DEF TypeInv, InTree, LevelAt

LEMMA TreeIntro ==
  ASSUME NEW s \in {"buy", "sell"}, NEW x \in Prices
  PROVE  /\ <<s, x>> \in InTree <=> book[s][x] # None
         /\ LevelAt(<<s, x>>) = book[s][x]
BY DEF InTree, LevelAt

LEMMA HomeTypes ==
  ASSUME NEW o \in Orders
  PROVE  /\ Side[o] \in {"buy", "sell"} /\ Price[o] \in Prices
         /\ Home(o) \in InTree <=> book[Side[o]][Price[o]] # None
         /\ LevelAt(Home(o)) = book[Side[o]][Price[o]]
         /\ Home(o)[1] = Side[o] /\ Home(o)[2] = Price[o]
BY OrdersAssumption DEF InTree, LevelAt, Home

LEMMA RestingTypes == Resting \in SUBSET Orders
BY OrdersAssumption DEF Resting

\* The order that was added last comes after all others.
LEMMA LastComesLast ==
  ASSUME entered \in Seq(Orders), entered # <<>>, Once(entered)
  PROVE  /\ Placed(Taker) /\ Taker \in Orders
         /\ \A o : Placed(o) /\ o # Taker => First(entered, o, Taker)
         /\ \A o : ~First(entered, Taker, o)
<1> DEFINE e == entered
           n == Len(e)
<1>1. n \in Nat \ {0} /\ DOMAIN e = 1 .. n /\ Taker = e[n] /\ e[n] \in Orders
  <2>1. n \in Nat /\ n # 0 /\ DOMAIN e = 1 .. n
    BY LenProperties, EmptySeq
  <2>2. Taker = e[n]
    BY DEF Taker
  <2>3. e[n] \in Orders
    <3>1. n \in 1 .. n
      BY <2>1
    <3> QED
      BY <3>1, ElementOfSeq
  <2> QED
    BY <2>1, <2>2, <2>3
<1>2. Placed(Taker)
  <2>1. n \in DOMAIN e
    BY <1>1
  <2> QED
    BY <1>1, <2>1 DEF Placed
<1> HIDE DEF n
<1>3. ASSUME NEW o, Placed(o), o # Taker PROVE First(e, o, Taker)
  <2>1. PICK i \in DOMAIN e : e[i] = o
    BY <1>3 DEF Placed
  <2>2. i < n /\ n \in DOMAIN e
    BY <1>1, <1>3, <2>1
  <2> QED
    BY <1>1, <2>1, <2>2 DEF First
<1>4. ASSUME NEW o, First(e, Taker, o) PROVE FALSE
  <2>1. PICK i, j \in DOMAIN e : i < j /\ e[i] = Taker /\ e[j] = o
    BY <1>4 DEF First
  <2>2. i = n /\ j <= n
    BY <1>1, <2>1 DEF Once
  <2> QED
    BY <1>1, <2>1, <2>2
<1> QED
  BY <1>1, <1>2, <1>3, <1>4

\* A chain that some order is in is not vacated.
LEMMA NotVacated == ASSUME NEW c \in Chains, NEW o, Ins(o, c) PROVE ~Vacated(c)
BY InsType DEF Vacated

-----------------------------------------------------------------------------
\* Steps that change nothing but the call.
LEMMA StoryStays ==
  ASSUME UNCHANGED <<book, chunks, spare, made, filled, ordersByID, pooled, entered>>, NEW d, Story(d)
  PROVE  Story(d)'
<1>1. /\ InTree' = InTree /\ \A y : LevelAt(y)' = LevelAt(y)
      /\ Resting' = Resting /\ Taker' = Taker /\ \A o : Left(o)' = Left(o)
  BY DEF InTree, LevelAt, Resting, Placed, Spent, Left, Taker
<1>2. Shelf'
  BY <1>1 DEF Story, Shelf, Tidy, OneLevelEach, LooseAreEmpty
<1>3. Listing(d)'
  BY <1>1 DEF Story, Listing
<1>4. Index(d)' /\ Once(entered')
  BY <1>1 DEF Story, Index
<1>5. Stage(d)'
  BY <1>1 DEF Story, Stage, AtMakers, SweptIsEmpty
<1> QED
  BY <1>2, <1>3, <1>4, <1>5 DEF Story

\* The parts of a story that a call going on finds as they were.
LEMMA GoingOn ==
  ASSUME NEW c, NEW d, Story(c),
         Resting \ Absent(d) = Resting \ Absent(c), Resting \ Unknown(d) = Resting \ Unknown(c),
         \A y \in InTree : Vacated(chunks[LevelAt(y)]) /\ Emptied(c, y) => Emptied(d, y),
         Stage(d)
  PROVE  Story(d)
<1>1. Listing(d)
  BY DEF Story, Listing
<1>2. Index(d)
  BY DEF Story, Index
<1> QED
  BY <1>1, <1>2 DEF Story

-----------------------------------------------------------------------------
\* The scan comes to the next level and copies it.
LEMMA StoryOpen ==
  ASSUME TypeInv, NEW c \in Calls, c.pc = "scan", c.order \in Orders, Story(c),
         NEW i \in DOMAIN KeyOrder, NEW l \in Levels, l = book[Opposite(Side[c.order])][KeyOrder[i]],
         NEW d, d = Made("visit", c.order, i, l, Seen(chunks[l]), c.gone)
  PROVE  Story(d)
<1>1. /\ d.pc = "visit" /\ d.order = c.order /\ d.at = i /\ d.level = l
      /\ d.todo = Seen(chunks[l]) /\ d.gone = c.gone
  BY MadeFields
<1>2. Place(d) \in InTree /\ LevelAt(Place(d)) = l
  <2> DEFINE s == Opposite(Side[c.order])
             x == KeyOrder[i]
  <2>1. s \in {"buy", "sell"} /\ x \in Prices
    BY Sides DEF Prices
  <2>2. l = book[s][x] /\ l # None
    BY NoneAssumption
  <2>3. Place(d) = <<s, x>>
    BY <1>1 DEF Place
  <2> HIDE DEF s, x
  <2>4. (<<s, x>> \in InTree <=> book[s][x] # None) /\ LevelAt(<<s, x>>) = book[s][x]
    BY <2>1, TreeIntro
  <2> QED
    BY <2>1, <2>2, <2>3, <2>4
<1>3. chunks[l] \in Chains /\ Slim(chunks[l]) /\ InOrder(entered, chunks[l])
  BY DEF TypeInv, Story, Shelf, Tidy
<1>4. /\ Slim(d.todo) /\ InOrder(entered, d.todo)
      /\ \A o : Ins(o, d.todo) <=> Ins(o, chunks[l])
  BY <1>1, <1>3, SlimSeen
<1>5. AtMakers(d)
  BY <1>1, <1>2, <1>4 DEF AtMakers
<1>6. Stage(d)
  BY <1>1, <1>5 DEF Story, Stage, SweptIsEmpty, ScanPcs, RestPcs, CancelPcs
<1>7. Absent(d) = Absent(c) /\ Unknown(d) = Unknown(c) /\ \A y : Emptied(c, y) => Emptied(d, y)
  BY <1>1 DEF Absent, Unknown, Emptied, ScanPcs
<1> QED
  BY <1>6, <1>7, GoingOn

\* Whom the scan finds at the level that it visits.
LEMMA Maker ==
  ASSUME TypeInv, NEW c \in Calls, c.pc \in {"visit", "trade"}, c.order \in Orders, c.at \in DOMAIN KeyOrder, c.level \in Levels,
         c.todo # <<>>, Story(c), NEW m, m = Head(c.todo[LeastOf(DOMAIN c.todo)])
  PROVE  /\ m \in Resting /\ ~Spent(m) /\ m # c.order /\ Ins(m, c.todo) /\ Ins(m, chunks[c.level])
         /\ Side[m] = Opposite(Side[c.order]) /\ Price[m] = KeyOrder[c.at]
         /\ Slim(Behind(c.todo)) /\ InOrder(entered, Behind(c.todo))
         /\ \A o : Ins(o, Behind(c.todo)) <=> Ins(o, c.todo) /\ o # m
         /\ \A o : Ins(o, c.todo) => o = m \/ First(entered, m, o)
<1>1. AtMakers(c)
  BY DEF Story, Stage
<1>2. c.todo \in Todos /\ c.todo \in Chains /\ entered \in Seq(Orders) /\ Once(entered)
  BY DEF Calls, Todos, TypeInv, Story
<1>3. /\ Slim(Behind(c.todo)) /\ InOrder(entered, Behind(c.todo))
      /\ \A o : Ins(o, Behind(c.todo)) <=> Ins(o, c.todo) /\ o # m
      /\ Ins(m, c.todo) /\ \A o : Ins(o, c.todo) => o = m \/ First(entered, m, o)
  BY <1>1, <1>2, SlimBehind DEF AtMakers
<1>4. m \in Orders /\ Ins(m, chunks[c.level])
  BY <1>1, <1>2, <1>3, InsType DEF AtMakers
<1>5. m \in Resting \ Absent(c) /\ Place(c) = Home(m)
  BY <1>1, <1>4 DEF AtMakers, Story, Listing
<1>6. m # c.order /\ m \in Resting /\ ~Spent(m)
  BY <1>5 DEF Absent, ScanPcs, Resting
<1>7. Side[m] = Opposite(Side[c.order]) /\ Price[m] = KeyOrder[c.at]
  BY <1>5 DEF Place, Home
<1> QED
  BY <1>3, <1>4, <1>6, <1>7

\* The call sets out to trade with the next maker.
LEMMA StoryAdmit ==
  ASSUME TypeInv, NEW c \in Calls, c.pc = "visit", Story(c),
         c.todo # <<>>, Left(c.order) > 0, Crosses(c.order, KeyOrder[c.at]),
         NEW d, d = Made("trade", c.order, c.at, c.level, c.todo, c.gone)
  PROVE  Story(d)
<1>1. /\ d.pc = "trade" /\ d.order = c.order /\ d.at = c.at /\ d.level = c.level
      /\ d.todo = c.todo /\ d.gone = c.gone
  BY MadeFields
<1>2. AtMakers(c)
  BY DEF Story, Stage
<1>3. AtMakers(d)
  BY <1>1, <1>2 DEF AtMakers, Place
<1>4. Stage(d)
  BY <1>1, <1>3 DEF Story, Stage, SweptIsEmpty, ScanPcs, RestPcs, CancelPcs
<1>5. Absent(d) = Absent(c) /\ Unknown(d) = Unknown(c) /\ \A y : Emptied(c, y) => Emptied(d, y)
  BY <1>1 DEF Absent, Unknown, Emptied, ScanPcs, Place
<1> QED
  BY <1>4, <1>5, GoingOn

LEMMA StoryPass ==
  ASSUME TypeInv, NEW c \in Calls, c.pc \in {"visit", "trade"}, c.order \in Orders, c.at \in DOMAIN KeyOrder, c.level \in Levels,
         c.todo # <<>>, Story(c),
         NEW m, m = Head(c.todo[LeastOf(DOMAIN c.todo)]), Spent(m) \/ User[m] = User[c.order],
         NEW d, d = Made("visit", c.order, c.at, c.level, Behind(c.todo), c.gone)
  PROVE  Story(d)
<1>1. /\ d.pc = "visit" /\ d.order = c.order /\ d.at = c.at /\ d.level = c.level
      /\ d.todo = Behind(c.todo) /\ d.gone = c.gone
  BY MadeFields
<1>2. /\ ~Spent(m)
      /\ Slim(d.todo) /\ InOrder(entered, d.todo) /\ \A o : Ins(o, d.todo) <=> Ins(o, c.todo) /\ o # m
  BY <1>1, Maker
<1>3. AtMakers(c)
  BY DEF Story, Stage
<1>4. AtMakers(d)
  BY <1>1, <1>2, <1>3 DEF AtMakers, Place
<1>5. Stage(d)
  BY <1>1, <1>4 DEF Story, Stage, SweptIsEmpty, ScanPcs, RestPcs, CancelPcs
<1>6. Absent(d) = Absent(c) /\ Unknown(d) = Unknown(c) /\ \A y : Emptied(c, y) => Emptied(d, y)
  BY <1>1 DEF Absent, Unknown, Emptied, ScanPcs, Place
<1> QED
  BY <1>5, <1>6, GoingOn

\* The scan is over. What follows is said of any state, so that it can be said of
\* the next one.
Over(c, g) ==
  /\ c.pc \in ScanPcs /\ c.order \in Orders /\ g \in SUBSET Prices /\ Story(c)
  /\ \A y \in InTree : Vacated(chunks[LevelAt(y)]) => y[1] = Opposite(Side[c.order]) /\ y[2] \in g
  /\ \A x \in g : LET y == <<Opposite(Side[c.order]), x>> IN y \in InTree => Vacated(chunks[LevelAt(y)])

LEMMA StoryAfter ==
  \A k \in Calls : \A g \in SUBSET Prices : \A a :
    TypeInv /\ Over(k, g) /\ a = After(k.order, g) => Story(a)
<1> SUFFICES ASSUME TypeInv, NEW c \in Calls, NEW g \in SUBSET Prices, NEW d, Over(c, g), d = After(c.order, g)
             PROVE  Story(d)
  OBVIOUS
<1> DEFINE t == c.order
<1>1. c.pc \in ScanPcs /\ t \in Orders /\ Story(c)
  BY DEF Over
<1>2. entered # <<>> /\ t = Taker /\ t \notin pooled
  BY <1>1 DEF Story, Stage
<1>3. Absent(c) = {t} /\ Unknown(c) = {t}
  BY <1>1 DEF Absent, Unknown
<1>4. CASE g # {}
  <2>1. d = Made("sweep", t, 0, None, <<>>, g)
    BY <1>4 DEF After
  <2>2. d.pc = "sweep" /\ d.order = t /\ d.gone = g
    BY <2>1, MadeFields
  <2> HIDE DEF t
  <2>3. SweptIsEmpty(d)
    BY <2>2 DEF Over, SweptIsEmpty, t
  <2>4. Stage(d)
    BY <1>2, <2>2, <2>3 DEF Stage, ScanPcs, RestPcs, CancelPcs
  <2>5. Absent(d) = {t} /\ Unknown(d) = {t}
    BY <2>2 DEF Absent, Unknown, ScanPcs
  <2>6. \A y \in InTree : Vacated(chunks[LevelAt(y)]) => Emptied(d, y)
    BY <2>2 DEF Over, Emptied, ScanPcs, t
  <2> QED
    BY <1>1, <1>3, <2>4, <2>5, <2>6, GoingOn
<1>5. CASE g = {} /\ Left(t) > 0 /\ t \in Rests
  <2>1. d = Made("find", t, 0, None, <<>>, {})
    BY <1>5 DEF After
  <2>2. d.pc = "find" /\ d.order = t /\ d.gone = {}
    BY <2>1, MadeFields
  <2> HIDE DEF t
  <2>3. Stage(d)
    BY <1>2, <1>5, <2>2 DEF Stage, ScanPcs, RestPcs, CancelPcs
  <2>4. Absent(d) = {t} /\ Unknown(d) = {t}
    BY <2>2 DEF Absent, Unknown, ScanPcs, RestPcs
  <2>5. \A y \in InTree : ~Vacated(chunks[LevelAt(y)])
    BY <1>5 DEF Over
  <2> QED
    BY <1>1, <1>3, <2>3, <2>4, <2>5, GoingOn
<1>6. CASE g = {} /\ ~(Left(t) > 0 /\ t \in Rests)
  <2>1. d = Idle
    BY <1>6 DEF After
  <2>2. d.pc = "idle" /\ d.gone = {}
    BY <2>1, IdleMade, MadeFields
  <2> HIDE DEF t
  <2>3. Stage(d)
    BY <2>2 DEF Stage, ScanPcs, RestPcs, CancelPcs
  <2>4. Absent(d) = {} /\ Unknown(d) = {}
    BY <2>2 DEF Absent, Unknown, ScanPcs, RestPcs
  <2>5. t \notin Resting
    <3>1. Left(t) \in Nat
      BY <1>1, OrdersAssumption DEF TypeInv, Left
    <3>2. t \in Rests => Left(t) = 0
      BY <1>6, <3>1
    <3> QED
      BY <3>2 DEF Resting, Spent
  <2>6. \A y \in InTree : ~Vacated(chunks[LevelAt(y)])
    BY <1>6 DEF Over
  <2> QED
    BY <1>1, <1>3, <2>3, <2>4, <2>5, <2>6, GoingOn
<1> QED
  BY <1>4, <1>5, <1>6

LEMMA StoryStop ==
  ASSUME TypeInv, NEW c \in Calls, c.pc \in {"scan", "visit"}, c.order \in Orders, c.at \in DOMAIN KeyOrder \/ c.pc = "scan",
         c.level \in Levels \/ c.pc = "scan",
         c.todo # <<>> \/ c.pc = "scan", Story(c), NEW d, d = After(c.order, c.gone)
  PROVE  Story(d)
<1>1. c.gone \in SUBSET Prices /\ c.pc \in ScanPcs
  BY DEF Calls, ScanPcs
<1>2. \A x \in c.gone : LET y == <<Opposite(Side[c.order]), x>> IN y \in InTree => Vacated(chunks[LevelAt(y)])
  BY <1>1 DEF Story, Stage, SweptIsEmpty
<1>3. \A y \in InTree : Vacated(chunks[LevelAt(y)]) => Emptied(c, y)
  BY DEF Story, Listing
<1>4. CASE c.pc = "scan"
  <2>1. \A y \in InTree : Vacated(chunks[LevelAt(y)]) => y[1] = Opposite(Side[c.order]) /\ y[2] \in c.gone
    BY <1>3, <1>4 DEF Emptied
  <2>2. Over(c, c.gone)
    BY <1>1, <1>2, <2>1 DEF Over
  <2> QED
    BY <1>1, <2>2, StoryAfter
<1>5. CASE c.pc = "visit"
  <2>1. c.order \in Orders /\ c.at \in DOMAIN KeyOrder /\ c.level \in Levels /\ c.todo # <<>>
    BY <1>5
  <2>2. PICK m : m = Head(c.todo[LeastOf(DOMAIN c.todo)])
    OBVIOUS
  <2>3. Ins(m, chunks[c.level])
    BY <1>5, <2>1, <2>2, Maker
  <2>4. ~Vacated(chunks[c.level])
    BY <2>1, <2>3, NotVacated DEF TypeInv
  <2>5. c.level = LevelAt(Place(c))
    BY <1>5 DEF Story, Stage, AtMakers
  <2>6. \A y \in InTree : Vacated(chunks[LevelAt(y)]) => y[1] = Opposite(Side[c.order]) /\ y[2] \in c.gone
    BY <1>3, <1>5, <2>4, <2>5 DEF Emptied
  <2>7. Over(c, c.gone)
    BY <1>1, <1>2, <2>6 DEF Over
  <2> QED
    BY <1>1, <2>7, StoryAfter
<1> QED
  BY <1>4, <1>5

LEMMA StoryClose ==
  ASSUME TypeInv, NEW c \in Calls, c.pc = "visit", c.order \in Orders, c.at \in DOMAIN KeyOrder, c.level \in Levels, Story(c),
         NEW g, g = IF IsEmpty(chunks[c.level]) THEN c.gone \cup {KeyOrder[c.at]} ELSE c.gone,
         NEW d, d = IF Left(c.order) = 0 THEN After(c.order, g) ELSE Made("scan", c.order, c.at, None, <<>>, g)
  PROVE  Story(d)
<1>1. AtMakers(c) /\ SweptIsEmpty(c)
  BY DEF Story, Stage, ScanPcs
<1>2. g \in SUBSET Prices
  BY DEF Calls, Prices
<1>3. IsEmpty(chunks[c.level]) <=> Vacated(chunks[c.level])
  <2>1. chunks[c.level] \in Chains /\ Slim(chunks[c.level])
    BY DEF TypeInv, Story, Shelf, Tidy
  <2> QED
    BY <2>1, SlimSeen
<1>4. Place(c) = <<Opposite(Side[c.order]), KeyOrder[c.at]>> /\ c.level = LevelAt(Place(c))
  BY <1>1 DEF AtMakers, Place
<1>5. ASSUME NEW x \in g, <<Opposite(Side[c.order]), x>> \in InTree
      PROVE  Vacated(chunks[LevelAt(<<Opposite(Side[c.order]), x>>)])
  <2>1. CASE x \in c.gone
    BY <1>1, <1>5, <2>1 DEF SweptIsEmpty
  <2>2. CASE x \notin c.gone
    <3>1. x = KeyOrder[c.at] /\ IsEmpty(chunks[c.level])
      BY <2>2
    <3> QED
      BY <1>3, <1>4, <3>1
  <2> QED
    BY <2>1, <2>2
<1>6. ASSUME NEW y \in InTree, Vacated(chunks[LevelAt(y)])
      PROVE  y[1] = Opposite(Side[c.order]) /\ y[2] \in g
  <2>1. Emptied(c, y)
    BY <1>6 DEF Story, Listing
  <2>2. CASE y = Place(c)
    <3>1. KeyOrder[c.at] \in g
      BY <1>3, <1>4, <1>6, <2>2
    <3> QED
      BY <1>4, <2>2, <3>1
  <2>3. CASE y # Place(c)
    BY <2>1, <2>3 DEF Emptied
  <2> QED
    BY <2>2, <2>3
<1>7. CASE Left(c.order) = 0
  <2>1. Over(c, g)
    BY <1>2, <1>5, <1>6 DEF Over, ScanPcs
  <2> QED
    BY <1>2, <1>7, <2>1, StoryAfter
<1>8. CASE Left(c.order) # 0
  <2>1. d.pc = "scan" /\ d.order = c.order /\ d.gone = g
    BY <1>8, MadeFields
  <2>2. SweptIsEmpty(d)
    BY <1>5, <2>1 DEF SweptIsEmpty
  <2>3. Stage(d)
    BY <2>1, <2>2 DEF Story, Stage, ScanPcs, RestPcs, CancelPcs
  <2>4. Absent(d) = Absent(c) /\ Unknown(d) = Unknown(c)
    BY <2>1 DEF Absent, Unknown, ScanPcs
  <2>5. \A y \in InTree : Vacated(chunks[LevelAt(y)]) => Emptied(d, y)
    BY <1>6, <2>1 DEF Emptied, ScanPcs
  <2> QED
    BY <2>3, <2>4, <2>5, GoingOn
<1> QED
  BY <1>7, <1>8

LEMMA StoryFind ==
  ASSUME TypeInv, NEW c \in Calls, c.pc = "find", c.order \in Orders, Story(c),
         NEW l, l = book[Side[c.order]][Price[c.order]],
         NEW d, d = Made(IF l = None THEN "create" ELSE "attach", c.order, c.at, l, c.todo, c.gone)
  PROVE  Story(d)
<1>1. d.order = c.order /\ d.level = l /\ (IF l = None THEN d.pc = "create" ELSE d.pc = "attach")
  BY MadeFields
<1>2. (Home(c.order) \in InTree <=> l # None) /\ LevelAt(Home(c.order)) = l
  BY HomeTypes
<1>3. Stage(d)
  BY <1>1, <1>2 DEF Story, Stage, ScanPcs, RestPcs, CancelPcs
<1>4. Absent(d) = Absent(c) /\ Unknown(d) = Unknown(c) /\ \A y : ~Emptied(c, y)
  BY <1>1 DEF Absent, Unknown, Emptied, ScanPcs, RestPcs
<1> QED
  BY <1>3, <1>4, GoingOn

LEMMA StoryLocate ==
  ASSUME TypeInv, NEW c \in Calls, c.pc = "locate", c.order \in Orders, Story(c),
         NEW l, l = IF c.order \in pooled THEN None ELSE book[Side[c.order]][Price[c.order]],
         NEW d, d = Made(IF l = None THEN "forget" ELSE "remove", c.order, c.at, l, c.todo, c.gone)
  PROVE  Story(d)
<1>1. c.order \in Resting /\ c.order \notin pooled /\ Absent(c) = {}
  BY DEF Story, Stage, CancelPcs, Resting, Spent, Absent, ScanPcs
<1>2. Home(c.order) \in InTree
  BY <1>1 DEF Story, Listing
<1>3. l # None /\ LevelAt(Home(c.order)) = l
  BY <1>1, <1>2, HomeTypes
<1>4. d.order = c.order /\ d.level = l /\ d.pc = "remove"
  BY <1>3, MadeFields
<1>5. Stage(d)
  BY <1>1, <1>2, <1>3, <1>4 DEF Stage, ScanPcs, RestPcs, CancelPcs
<1>6. Absent(d) = Absent(c) /\ Unknown(d) = Unknown(c) /\ \A y : ~Emptied(c, y)
  BY <1>4 DEF Absent, Unknown, Emptied, ScanPcs, RestPcs
<1> QED
  BY <1>5, <1>6, GoingOn

LEMMA StoryCancel ==
  ASSUME TypeInv, Story(Idle), NEW o \in Orders, o \in ordersByID,
         NEW d, d = Made("locate", o, 0, None, <<>>, {})
  PROVE  Story(d)
<1>1. Idle.pc = "idle"
  BY IdleMade, MadeFields
<1>2. o \in Resting
  BY <1>1 DEF Story, Index, Unknown, ScanPcs, RestPcs
<1>3. d.order = o /\ d.pc = "locate"
  BY MadeFields
<1>4. Stage(d)
  BY <1>2, <1>3 DEF Stage, ScanPcs, RestPcs, CancelPcs
<1>5. Absent(d) = Absent(Idle) /\ Unknown(d) = Unknown(Idle) /\ \A y : ~Emptied(Idle, y)
  BY <1>1, <1>3 DEF Absent, Unknown, Emptied, ScanPcs, RestPcs
<1> QED
  BY <1>4, <1>5, GoingOn

-----------------------------------------------------------------------------
\* An order that is new to a sequence is appended to it.
LEMMA Entering ==
  ASSUME NEW e \in Seq(Orders), Once(e), NEW o \in Orders, \A i \in DOMAIN e : e[i] # o,
         NEW f, f = Append(e, o)
  PROVE  /\ Once(f) /\ f # <<>> /\ f[Len(f)] = o
         /\ \A x, y : First(e, x, y) => First(f, x, y)
         /\ \A x : (\E i \in DOMAIN f : f[i] = x) <=> (\E i \in DOMAIN e : e[i] = x) \/ x = o
<1> DEFINE n == Len(e)
<1>1. /\ n \in Nat /\ DOMAIN e = 1 .. n /\ DOMAIN f = 1 .. n + 1 /\ Len(f) = n + 1
      /\ (\A i \in 1 .. n : f[i] = e[i]) /\ f[n + 1] = o
  BY AppendProperties, LenProperties
<1>2. f # <<>>
  BY AppendProperties
<1> HIDE DEF n
<1>3. DOMAIN f = DOMAIN e \cup {n + 1} /\ n + 1 \notin DOMAIN e
  BY <1>1
<1>4. \A i \in DOMAIN e : f[i] = e[i] /\ i \in DOMAIN f
  BY <1>1, <1>3
<1>5. Once(f)
  BY <1>1, <1>3, <1>4 DEF Once
<1>6. \A x, y : First(e, x, y) => First(f, x, y)
  BY <1>4 DEF First
<1>7. \A x : (\E i \in DOMAIN f : f[i] = x) <=> (\E i \in DOMAIN e : e[i] = x) \/ x = o
  BY <1>1, <1>3, <1>4
<1> QED
  BY <1>1, <1>2, <1>5, <1>6, <1>7

LEMMA StoryAdd ==
  ASSUME TypeInv, Story(Idle), NEW o \in Orders, ~Placed(o), o \notin pooled, entered' = Append(entered, o),
         UNCHANGED <<book, chunks, spare, made, filled, ordersByID, pooled>>,
         NEW d, d = Made("scan", o, 0, None, <<>>, {})
  PROVE  Story(d)'
<1>1. d.pc = "scan" /\ d.order = o /\ d.gone = {} /\ Idle.pc = "idle"
  BY IdleMade, MadeFields
<1>2. /\ Once(entered') /\ entered' # <<>> /\ Taker' = o
      /\ \A x, y : First(entered, x, y) => First(entered', x, y)
      /\ \A x : Placed(x)' <=> Placed(x) \/ x = o
  <2>1. PICK e : e = entered
    OBVIOUS
  <2>2. PICK f : f = entered'
    OBVIOUS
  <2>3. e \in Seq(Orders) /\ Once(e) /\ (\A i \in DOMAIN e : e[i] # o) /\ f = Append(e, o)
    BY <2>1, <2>2 DEF TypeInv, Story, Placed
  <2>4. /\ Once(f) /\ f # <<>> /\ f[Len(f)] = o
        /\ \A x, y : First(e, x, y) => First(f, x, y)
        /\ \A x : (\E i \in DOMAIN f : f[i] = x) <=> (\E i \in DOMAIN e : e[i] = x) \/ x = o
    <3>1. Once(f) /\ f # <<>> /\ f[Len(f)] = o
      BY <2>3, Entering
    <3>2. \A x, y : First(e, x, y) => First(f, x, y)
      BY <2>3, Entering
    <3>3. \A x : (\E i \in DOMAIN f : f[i] = x) <=> (\E i \in DOMAIN e : e[i] = x) \/ x = o
      BY <2>3, Entering
    <3> QED
      BY <3>1, <3>2, <3>3
  <2> QED
    BY <2>1, <2>2, <2>4 DEF Placed, Taker
<1>3. InTree' = InTree /\ (\A y : LevelAt(y)' = LevelAt(y)) /\ \A x : Spent(x)' <=> Spent(x)
  BY DEF InTree, LevelAt, Spent, Left
<1>4. Resting' \ {o} = Resting
  BY <1>2, <1>3 DEF Resting
<1>5. Shelf'
  <2>1. \A l \in Levels : Tidy(l)'
    BY <1>2 DEF Story, Shelf, Tidy, InOrder
  <2> QED
    BY <1>3, <2>1 DEF Story, Shelf, OneLevelEach, LooseAreEmpty
<1>6. Absent(Idle) = {} /\ Unknown(Idle) = {} /\ Absent(d) = {o} /\ Unknown(d) = {o} /\ \A y : ~Emptied(Idle, y)
  BY <1>1 DEF Absent, Unknown, Emptied, ScanPcs, RestPcs
<1>7. Listing(d)'
  <2>1. Listing(Idle)
    BY DEF Story
  <2> QED
    BY <1>3, <1>4, <1>6, <2>1 DEF Listing
<1>8. Index(d)'
  BY <1>4, <1>6 DEF Story, Index
<1>9. Stage(d)'
  BY <1>1, <1>2 DEF Stage, SweptIsEmpty, ScanPcs, RestPcs, CancelPcs
<1> QED
  BY <1>2, <1>5, <1>7, <1>8, <1>9 DEF Story

LEMMA StoryRegister ==
  ASSUME TypeInv, NEW c \in Calls, c.pc = "register", c.order \in Orders, Story(c),
         ordersByID' = ordersByID \cup {IF c.order \in pooled THEN None ELSE c.order},
         UNCHANGED <<book, chunks, spare, made, filled, pooled, entered>>
  PROVE  Story(Idle)'
<1> DEFINE o == c.order
<1>1. Idle.pc = "idle"
  BY IdleMade, MadeFields
<1>2. /\ InTree' = InTree /\ \A y : LevelAt(y)' = LevelAt(y)
      /\ Resting' = Resting
  BY DEF InTree, LevelAt, Resting, Placed, Spent, Left
<1>3. Shelf'
  BY <1>2 DEF Story, Shelf, Tidy, OneLevelEach, LooseAreEmpty
<1>4. Absent(Idle) = {} /\ Unknown(Idle) = {} /\ Absent(c) = {} /\ Unknown(c) = {o} /\ \A y : ~Emptied(c, y)
  BY <1>1 DEF Absent, Unknown, Emptied, ScanPcs, RestPcs
<1>5. o \in Resting /\ o \notin pooled
  <2>1. entered # <<>> /\ o = Taker /\ o \notin pooled /\ o \in Rests /\ Left(o) > 0
    BY DEF Story, Stage, RestPcs
  <2>2. Placed(o)
    BY <2>1, LastComesLast DEF TypeInv, Story
  <2>3. Left(o) # 0
    BY <2>1
  <2> QED
    BY <2>1, <2>2, <2>3 DEF Resting, Spent
<1>6. Listing(Idle)'
  BY <1>2, <1>4 DEF Story, Listing
<1>7. Index(Idle)'
  BY <1>2, <1>4, <1>5 DEF Story, Index
<1>8. Stage(Idle)'
  BY <1>1 DEF Stage, ScanPcs, RestPcs, CancelPcs
<1> QED
  BY <1>3, <1>6, <1>7, <1>8 DEF Story

LEMMA StoryForget ==
  ASSUME TypeInv, NEW c \in Calls, c.pc = "forget", c.order \in Orders, Story(c),
         ordersByID' = ordersByID \ {c.order}, pooled' = pooled \cup {c.order},
         UNCHANGED <<book, chunks, spare, made, filled, entered>>
  PROVE  Story(Idle)'
<1> DEFINE o == c.order
<1>1. Idle.pc = "idle"
  BY IdleMade, MadeFields
<1>2. /\ InTree' = InTree /\ \A y : LevelAt(y)' = LevelAt(y)
      /\ Resting' = Resting \ {o}
  BY DEF InTree, LevelAt, Resting, Placed, Spent, Left
<1>3. Shelf'
  BY <1>2 DEF Story, Shelf, Tidy, OneLevelEach, LooseAreEmpty
<1>4. Absent(Idle) = {} /\ Unknown(Idle) = {} /\ Absent(c) = {o} /\ Unknown(c) = {} /\ \A y : ~Emptied(c, y)
  BY <1>1 DEF Absent, Unknown, Emptied, ScanPcs, RestPcs
<1>5. Listing(Idle)'
  BY <1>2, <1>4 DEF Story, Listing
<1>6. Index(Idle)'
  BY <1>2, <1>4 DEF Story, Index
<1>7. Stage(Idle)'
  BY <1>1 DEF Stage, ScanPcs, RestPcs, CancelPcs
<1> QED
  BY <1>3, <1>5, <1>6, <1>7 DEF Story

-----------------------------------------------------------------------------
\* One level of the trees is changed, and stays tidy.
LEMMA OneLevelChanges ==
  ASSUME TypeInv, Shelf, NEW y \in InTree, NEW l, l = LevelAt(y), NEW w,
         Slim(w), InOrder(entered, w),
         chunks' = [chunks EXCEPT ![l] = w], UNCHANGED <<book, spare, made, entered>>
  PROVE  /\ Shelf' /\ InTree' = InTree /\ \A z : LevelAt(z)' = LevelAt(z)
         /\ chunks'[l] = w /\ \A z \in InTree : z # y => chunks'[LevelAt(z)] = chunks[LevelAt(z)]
<1>1. InTree' = InTree /\ \A z : LevelAt(z)' = LevelAt(z)
  BY DEF InTree, LevelAt
<1>2. l \in Levels
  BY TreeTypes
<1>3. chunks'[l] = w /\ \A k \in Levels \ {l} : chunks'[k] = chunks[k]
  BY <1>2 DEF TypeInv
<1>4. \A z \in InTree : z # y => LevelAt(z) \in Levels \ {l}
  BY TreeTypes DEF Shelf, OneLevelEach
<1>5. \A k \in Levels : Tidy(k)'
  <2> SUFFICES ASSUME NEW k \in Levels PROVE Tidy(k)'
    OBVIOUS
  <2>1. CASE k = l
    BY <1>3, <2>1 DEF Tidy, Shelf
  <2>2. CASE k # l
    BY <1>3, <2>2 DEF Tidy, Shelf
  <2> QED
    BY <2>1, <2>2
<1>6. OneLevelEach'
  BY <1>1 DEF Shelf, OneLevelEach
<1>7. LooseAreEmpty'
  BY <1>1, <1>3 DEF Shelf, LooseAreEmpty
<1> QED
  BY <1>1, <1>3, <1>4, <1>5, <1>6, <1>7 DEF Shelf

\* The order joins its level, as the last.
LEMMA StoryAttach ==
  ASSUME TypeInv, NEW c \in Calls, c.pc = "attach", c.order \in Orders, c.level \in Levels, Story(c),
         NEW w, w = WithOrder(chunks[c.level], c.order), Visible(w) = DOMAIN w,
         chunks' = [chunks EXCEPT ![c.level] = w],
         UNCHANGED <<book, spare, made, filled, ordersByID, pooled, entered>>,
         NEW d, d = Made("register", c.order, c.at, None, c.todo, c.gone)
  PROVE  Story(d)'
<1> DEFINE o == c.order
           l == c.level
           b == chunks[l]
<1>1. d.pc = "register" /\ d.order = o
  BY MadeFields
<1>2. /\ Home(o) \in InTree /\ l = LevelAt(Home(o))
      /\ entered # <<>> /\ o = Taker /\ o \notin pooled /\ o \in Rests /\ Left(o) > 0
  BY DEF Story, Stage, RestPcs
<1>3. /\ Placed(o) /\ \A x : Placed(x) /\ x # o => First(entered, x, o)
  BY <1>2, LastComesLast DEF TypeInv, Story
<1>4. Absent(c) = {o} /\ Unknown(c) = {o} /\ Absent(d) = {} /\ Unknown(d) = {o}
  BY <1>1 DEF Absent, Unknown, ScanPcs, RestPcs
<1>5. \A y : Emptied(c, y) => y = Home(o)
  BY DEF Emptied, ScanPcs
<1>6. Listing(c) /\ Index(c) /\ Shelf /\ Once(entered)
  BY DEF Story
<1>7. b \in Chains /\ Slim(b) /\ InOrder(entered, b) /\ entered \in Seq(Orders)
  BY <1>6 DEF TypeInv, Shelf, Tidy
<1>8. \A x : Ins(x, b) => First(entered, x, o)
  <2> SUFFICES ASSUME NEW x, Ins(x, b) PROVE First(entered, x, o)
    OBVIOUS
  <2>1. x \in Orders
    BY <1>7, InsType
  <2>2. x \in Resting \ {o}
    BY <1>2, <1>4, <1>6, <2>1 DEF Listing
  <2> QED
    BY <1>3, <2>2 DEF Resting
<1>9. Slim(w) /\ InOrder(entered, w) /\ \A x : Ins(x, w) <=> Ins(x, b) \/ x = o
  <2>1. w = WithOrder(b, o)
    OBVIOUS
  <2> HIDE DEF b, o
  <2>2. o \in Orders
    BY DEF o
  <2>3. Visible(WithOrder(b, o)) = DOMAIN WithOrder(b, o)
    BY <2>1
  <2>4. PICK e : e = entered
    OBVIOUS
  <2>5. InOrder(e, b) /\ \A x : Ins(x, b) => First(e, x, o)
    BY <1>7, <1>8, <2>4
  <2>6. /\ Slim(WithOrder(b, o)) /\ InOrder(e, WithOrder(b, o))
        /\ \A x : Ins(x, WithOrder(b, o)) <=> Ins(x, b) \/ x = o
    BY <1>7, <2>2, <2>3, <2>5, SlimWith
  <2> QED
    BY <2>1, <2>4, <2>6
<1>10. /\ Shelf' /\ InTree' = InTree /\ \A z : LevelAt(z)' = LevelAt(z)
       /\ chunks'[l] = w /\ \A z \in InTree : z # Home(o) => chunks'[LevelAt(z)] = chunks[LevelAt(z)]
  <2>1. PICK y : y = Home(o)
    OBVIOUS
  <2>2. y \in InTree /\ l = LevelAt(y) /\ Slim(w) /\ InOrder(entered, w) /\ Shelf
    BY <1>2, <1>6, <1>9, <2>1
  <2>3. chunks' = [chunks EXCEPT ![l] = w] /\ UNCHANGED <<book, spare, made, entered>>
    OBVIOUS
  <2> HIDE DEF l, o, b
  <2>4. /\ Shelf' /\ InTree' = InTree /\ \A z : LevelAt(z)' = LevelAt(z)
        /\ chunks'[l] = w /\ \A z \in InTree : z # y => chunks'[LevelAt(z)] = chunks[LevelAt(z)]
    <3>1. Shelf' /\ InTree' = InTree
      BY <2>2, <2>3, OneLevelChanges
    <3>2. \A z : LevelAt(z)' = LevelAt(z)
      BY <2>2, <2>3, OneLevelChanges
    <3>3. chunks'[l] = w
      BY <2>2, <2>3, TreeTypes DEF TypeInv
    <3>4. \A z \in InTree : z # y => chunks'[LevelAt(z)] = chunks[LevelAt(z)]
      BY <2>2, <2>3, OneLevelChanges
    <3> QED
      BY <3>1, <3>2, <3>3, <3>4
  <2> QED
    BY <2>1, <2>4
<1>11. Resting' = Resting /\ Taker' = Taker /\ Left(o)' = Left(o)
  BY DEF Resting, Placed, Spent, Left, Taker
<1>12. o \in Resting
  BY <1>2, <1>3 DEF Resting, Spent
<1> HIDE DEF o, l, b
<1>13. b = chunks[LevelAt(Home(o))] /\ chunks'[LevelAt(Home(o))] = w
  BY <1>2, <1>10 DEF b, l
<1>14. Listing(d)'
  <2>1. ASSUME NEW x \in Resting PROVE Home(x) \in InTree /\ Ins(x, chunks'[LevelAt(Home(x))])
    <3>1. CASE x = o
      BY <1>2, <1>9, <1>13, <3>1
    <3>2. CASE x # o
      <4>1. Home(x) \in InTree /\ Ins(x, chunks[LevelAt(Home(x))])
        BY <1>4, <1>6, <3>2 DEF Listing
      <4> QED
        BY <1>9, <1>10, <1>13, <4>1
    <3> QED
      BY <3>1, <3>2
  <2>2. ASSUME NEW y \in InTree, NEW x \in Orders, Ins(x, chunks'[LevelAt(y)]) PROVE x \in Resting /\ y = Home(x)
    <3>1. Ins(x, chunks[LevelAt(y)]) \/ (x = o /\ y = Home(o))
      BY <1>9, <1>10, <1>13, <2>2
    <3> QED
      BY <1>6, <1>12, <3>1 DEF Listing
  <2>3. ASSUME NEW y \in InTree, Vacated(chunks'[LevelAt(y)]) PROVE FALSE
    <3>1. CASE y = Home(o)
      <4>1. ~Ins(o, w)
        BY <1>13, <2>3, <3>1 DEF Vacated, o
      <4> QED
        BY <1>9, <4>1
    <3>2. CASE y # Home(o)
      <4>1. Vacated(chunks[LevelAt(y)])
        BY <1>10, <2>3, <3>2
      <4> QED
        BY <1>5, <1>6, <3>2, <4>1 DEF Listing
    <3> QED
      BY <3>1, <3>2
  <2> QED
    BY <1>4, <1>10, <1>11, <2>1, <2>2, <2>3 DEF Listing
<1>15. Index(d)'
  BY <1>4, <1>6, <1>11 DEF Index
<1>16. Stage(d)'
  BY <1>1, <1>2, <1>11 DEF Stage, ScanPcs, RestPcs, CancelPcs
<1> QED
  BY <1>6, <1>10, <1>14, <1>15, <1>16 DEF Story

\* The order is taken out of its level.
LEMMA StoryRemove ==
  ASSUME TypeInv, NEW c \in Calls, c.pc = "remove", c.order \in Orders, c.level \in Levels, Story(c),
         NEW w, w = WithoutOrder(chunks[c.level], IF c.order \in pooled THEN None ELSE c.order),
         chunks' = [chunks EXCEPT ![c.level] = w],
         UNCHANGED <<book, spare, made, filled, ordersByID, pooled, entered>>,
         NEW d, d = Made(IF IsEmpty(w) THEN "drop" ELSE "forget", c.order, c.at,
                         IF IsEmpty(w) THEN c.level ELSE None, c.todo, c.gone)
  PROVE  Story(d)'
<1> DEFINE o == c.order
           l == c.level
           b == chunks[l]
<1>1. /\ o \in Resting /\ Home(o) \in InTree /\ l = LevelAt(Home(o))
      /\ Listing(c) /\ Index(c) /\ Shelf /\ Once(entered)
  BY DEF Story, Stage, CancelPcs
<1>2. Absent(c) = {} /\ Unknown(c) = {} /\ \A y : ~Emptied(c, y)
  BY DEF Absent, Unknown, Emptied, ScanPcs, RestPcs
<1>3. b \in Chains /\ Bounded(b) /\ Slim(b) /\ InOrder(entered, b) /\ entered \in Seq(Orders)
  BY <1>1 DEF TypeInv, Shelf, Tidy
<1>4. w = WithoutOrder(b, o)
  BY <1>1 DEF Resting, Spent
<1>5. Slim(w) /\ InOrder(entered, w) /\ w \in Chains /\ \A x : Ins(x, w) <=> Ins(x, b) /\ x # o
  <2> HIDE DEF b, o
  <2>1. PICK e : e = entered
    OBVIOUS
  <2>2. e \in Seq(Orders) /\ Once(e) /\ InOrder(e, b)
    BY <1>1, <1>3, <2>1
  <2>3. Slim(WithoutOrder(b, o)) /\ InOrder(e, WithoutOrder(b, o))
    BY <1>3, <2>2, SlimWithout
  <2>4. \A x : Ins(x, WithoutOrder(b, o)) <=> Ins(x, b) /\ x # o
    BY <1>3, <2>2, SlimWithout
  <2>5. WithoutOrder(b, o) \in Chains
    BY <1>3, WithoutOrderType
  <2> QED
    BY <1>4, <2>1, <2>3, <2>4, <2>5
<1>6. IsEmpty(w) <=> Vacated(w)
  BY <1>5, SlimSeen
<1>7. /\ Shelf' /\ InTree' = InTree /\ \A z : LevelAt(z)' = LevelAt(z)
      /\ chunks'[l] = w /\ \A z \in InTree : z # Home(o) => chunks'[LevelAt(z)] = chunks[LevelAt(z)]
  <2>1. PICK y : y = Home(o)
    OBVIOUS
  <2>2. y \in InTree /\ l = LevelAt(y) /\ Slim(w) /\ InOrder(entered, w) /\ Shelf
    BY <1>1, <1>5, <2>1
  <2>3. chunks' = [chunks EXCEPT ![l] = w] /\ UNCHANGED <<book, spare, made, entered>>
    OBVIOUS
  <2>4. chunks'[l] = w
    BY DEF TypeInv
  <2> HIDE DEF l, o, b
  <2>5. Shelf' /\ InTree' = InTree
    BY <2>2, <2>3, OneLevelChanges
  <2>6. \A z : LevelAt(z)' = LevelAt(z)
    BY <2>2, <2>3, OneLevelChanges
  <2>7. \A z \in InTree : z # y => chunks'[LevelAt(z)] = chunks[LevelAt(z)]
    BY <2>2, <2>3, OneLevelChanges
  <2> QED
    BY <2>1, <2>4, <2>5, <2>6, <2>7
<1>8. Resting' = Resting
  BY DEF Resting, Placed, Spent, Left
<1>9. d.order = o /\ IF IsEmpty(w) THEN d.pc = "drop" /\ d.level = l ELSE d.pc = "forget"
  BY MadeFields
<1>10. Absent(d) = {o} /\ Unknown(d) = {} /\ (Emptied(d, Home(o)) <=> IsEmpty(w))
  BY <1>9 DEF Absent, Unknown, Emptied, ScanPcs, RestPcs
<1> HIDE DEF o, l, b
<1>11. b = chunks[LevelAt(Home(o))] /\ chunks'[LevelAt(Home(o))] = w
  BY <1>1, <1>7 DEF b, l
<1>12. Listing(d)'
  <2>1. ASSUME NEW x \in Resting \ {o} PROVE Home(x) \in InTree /\ Ins(x, chunks'[LevelAt(Home(x))])
    <3>1. Home(x) \in InTree /\ Ins(x, chunks[LevelAt(Home(x))])
      BY <1>1, <1>2 DEF Listing
    <3> QED
      BY <1>5, <1>7, <1>11, <3>1
  <2>2. ASSUME NEW y \in InTree, NEW x \in Orders, Ins(x, chunks'[LevelAt(y)])
        PROVE  x \in Resting \ {o} /\ y = Home(x)
    <3>1. Ins(x, chunks[LevelAt(y)]) /\ (y = Home(o) => x # o)
      BY <1>5, <1>7, <1>11, <2>2
    <3> QED
      BY <1>1, <3>1 DEF Listing
  <2>3. ASSUME NEW y \in InTree, Vacated(chunks'[LevelAt(y)]) PROVE Emptied(d, y)
    <3>1. CASE y = Home(o)
      BY <1>6, <1>10, <1>11, <2>3, <3>1
    <3>2. CASE y # Home(o)
      BY <1>1, <1>2, <1>7, <2>3, <3>2 DEF Listing
    <3> QED
      BY <3>1, <3>2
  <2> QED
    BY <1>7, <1>8, <1>10, <2>1, <2>2, <2>3 DEF Listing
<1>13. Index(d)'
  BY <1>1, <1>2, <1>8, <1>10 DEF Index
<1>14. Stage(d)'
  BY <1>1, <1>6, <1>7, <1>8, <1>9 DEF Stage, ScanPcs, RestPcs, CancelPcs
<1> QED
  BY <1>1, <1>7, <1>12, <1>13, <1>14 DEF Story

\* What a trade does to the orders: the taker or the maker has nothing left.
LEMMA TradeEnds ==
  ASSUME TypeInv, NEW t \in Orders, NEW m \in Orders, t # m, NEW n \in Nat, n = MinOf(Left(t), Left(m)),
         Left(t) > 0, ~Spent(m), m \in Rests,
         filled' = [filled EXCEPT ![t] = @ + n, ![m] = @ + n], entered' = entered,
         pooled' = IF n = Left(m) THEN pooled \cup {m} ELSE pooled
  PROVE  /\ n # Left(m) => Left(t)' = 0
         /\ n = Left(m) => Resting' \ {t} = Resting \ {t, m}
         /\ n # Left(m) => Resting' \ {t} = Resting \ {t}
<1>1. /\ filled'[t] = filled[t] + n /\ filled'[m] = filled[m] + n
      /\ \A o \in Orders \ {t, m} : filled'[o] = filled[o]
  BY DEF TypeInv
<1>2. /\ Quantity[t] \in Nat /\ Quantity[m] \in Nat /\ filled[t] \in Nat /\ filled[m] \in Nat
      /\ filled[t] <= Quantity[t] /\ filled[m] <= Quantity[m]
  BY OrdersAssumption DEF TypeInv
<1>3. Left(m) # 0 /\ m \notin pooled
  BY DEF Spent
<1>4. (n # Left(m) => Left(t)' = 0) /\ (n # Left(m) => Left(m)' # 0)
  <2> DEFINE a == Quantity[t]
             b == Quantity[m]
             fa == filled[t]
             fb == filled[m]
  <2>1. Left(t) = a - fa /\ Left(m) = b - fb /\ Left(t)' = a - (fa + n) /\ Left(m)' = b - (fb + n)
    BY <1>1 DEF Left
  <2>2. a \in Nat /\ b \in Nat /\ fa \in Nat /\ fb \in Nat /\ fa <= a /\ fb <= b
    BY <1>2
  <2> HIDE DEF a, b, fa, fb
  <2>3. n = MinOf(a - fa, b - fb) /\ a - fa > 0 /\ b - fb # 0
    BY <1>3, <2>1
  <2>4. n # b - fb => a - (fa + n) = 0 /\ b - (fb + n) # 0
    BY <2>2, <2>3 DEF MinOf
  <2> QED
    BY <2>1, <2>4
<1>5. \A o \in Orders \ {t, m} : Spent(o)' <=> Spent(o)
  BY <1>1 DEF Spent, Left
<1>6. n = Left(m) => Spent(m)'
  BY DEF Spent
<1>7. n # Left(m) => ~Spent(m)'
  BY <1>3, <1>4 DEF Spent
<1>8. \A o : Placed(o)' <=> Placed(o)
  BY DEF Placed
<1>9. Rests \subseteq Orders
  BY OrdersAssumption
<1>10. CASE n = Left(m)
  BY <1>4, <1>5, <1>6, <1>8, <1>9, <1>10 DEF Resting
<1>11. CASE n # Left(m)
  BY <1>4, <1>5, <1>7, <1>8, <1>9, <1>11 DEF Resting
<1> QED
  BY <1>4, <1>10, <1>11

\* A trade: a maker that is full leaves the level, the index and the books.
LEMMA StoryMatch ==
  ASSUME TypeInv, NEW c \in Calls, c.pc = "trade", c.order \in Orders, c.at \in DOMAIN KeyOrder, c.level \in Levels,
         c.todo # <<>>, Left(c.order) > 0, Story(c),
         NEW m, m = Head(c.todo[LeastOf(DOMAIN c.todo)]),
         NEW n \in Nat, n = MinOf(Left(c.order), Left(m)),
         filled' = [filled EXCEPT ![c.order] = @ + n, ![m] = @ + n],
         chunks' = IF n = Left(m) THEN [chunks EXCEPT ![c.level] = WithoutOrder(@, m)] ELSE chunks,
         ordersByID' = IF n = Left(m) THEN ordersByID \ {m} ELSE ordersByID,
         pooled' = IF n = Left(m) THEN pooled \cup {m} ELSE pooled,
         UNCHANGED <<book, spare, made, entered>>,
         NEW d, d = Made("visit", c.order, c.at, c.level, Behind(c.todo), c.gone)
  PROVE  Story(d)'
<1> DEFINE t == c.order
           l == c.level
           b == chunks[l]
           left == IF n = Left(m) THEN {m} ELSE {}
<1>1. /\ d.pc = "visit" /\ d.order = t /\ d.at = c.at /\ d.level = l
      /\ d.todo = Behind(c.todo) /\ d.gone = c.gone
  BY MadeFields
<1>2. /\ m \in Resting /\ ~Spent(m) /\ m # t
      /\ Side[m] = Opposite(Side[t]) /\ Price[m] = KeyOrder[c.at]
      /\ Slim(d.todo) /\ InOrder(entered, d.todo) /\ \A o : Ins(o, d.todo) <=> Ins(o, c.todo) /\ o # m
  BY <1>1, Maker
<1>3. AtMakers(c) /\ SweptIsEmpty(c) /\ Listing(c) /\ Index(c) /\ Shelf /\ Once(entered)
  BY DEF Story, Stage, ScanPcs
<1>4. /\ entered # <<>> /\ t = Taker /\ t \notin pooled
      /\ Absent(c) = {t} /\ Unknown(c) = {t} /\ Absent(d) = {t} /\ Unknown(d) = {t}
  BY <1>1 DEF Story, Stage, Absent, Unknown, ScanPcs
<1>5. Place(c) = Home(m) /\ Place(d) = Home(m) /\ Home(m) \in InTree /\ l = LevelAt(Home(m))
  BY <1>1, <1>2, <1>3 DEF AtMakers, Place, Home
<1>6. (n # Left(m) => Left(t)' = 0) /\ Resting' \ {t} = (Resting \ {t}) \ left
  <2>1. m \in Orders /\ m \in Rests
    BY <1>2, OrdersAssumption DEF Resting
  <2>2. PICK tt \in Orders : tt = t
    OBVIOUS
  <2>3. /\ tt # m /\ Left(tt) > 0 /\ n = MinOf(Left(tt), Left(m)) /\ entered' = entered
        /\ filled' = [filled EXCEPT ![tt] = @ + n, ![m] = @ + n]
    BY <1>2, <2>2
  <2> HIDE DEF t
  <2>4. n # Left(m) => Left(tt)' = 0
    BY <1>2, <2>1, <2>3, TradeEnds
  <2>5. n = Left(m) => Resting' \ {tt} = Resting \ {tt, m}
    BY <1>2, <2>1, <2>3, TradeEnds
  <2>9. n # Left(m) => Resting' \ {tt} = Resting \ {tt}
    BY <1>2, <2>1, <2>3, TradeEnds
  <2>6. t = tt
    BY <2>2
  <2>7. Left(t)' = 0 <=> Left(tt)' = 0
    BY <2>6 DEF Left
  <2>8. Resting' \ {t} = (Resting \ {t}) \ left
    BY <2>5, <2>6, <2>9
  <2> QED
    BY <2>4, <2>7, <2>8
<1>7. b \in Chains /\ Bounded(b) /\ Slim(b) /\ InOrder(entered, b) /\ entered \in Seq(Orders)
  BY <1>3 DEF TypeInv, Shelf, Tidy
<1> DEFINE w == IF n = Left(m) THEN WithoutOrder(b, m) ELSE b
<1>8. Slim(w) /\ InOrder(entered, w) /\ \A x : Ins(x, w) <=> Ins(x, b) /\ x \notin left
  <2>1. CASE n = Left(m)
    <3> HIDE DEF b
    <3>1. PICK e : e = entered
      OBVIOUS
    <3>2. e \in Seq(Orders) /\ Once(e) /\ InOrder(e, b)
      BY <1>3, <1>7, <3>1
    <3>3. Slim(WithoutOrder(b, m)) /\ InOrder(e, WithoutOrder(b, m))
      BY <1>7, <3>2, SlimWithout
    <3>4. \A x : Ins(x, WithoutOrder(b, m)) <=> Ins(x, b) /\ x # m
      BY <1>7, <3>2, SlimWithout
    <3>5. w = WithoutOrder(b, m) /\ left = {m}
      BY <2>1
    <3> HIDE DEF w, left
    <3> QED
      BY <3>1, <3>3, <3>4, <3>5
  <2>2. CASE n # Left(m)
    <3>1. w = b /\ left = {}
      BY <2>2
    <3> QED
      BY <1>7, <3>1
  <2> QED
    BY <2>1, <2>2
<1>9. chunks' = [chunks EXCEPT ![l] = w]
  <2>1. CASE n = Left(m)
    BY <2>1
  <2>2. CASE n # Left(m)
    <3>1. chunks' = chunks /\ w = chunks[l]
      BY <2>2
    <3> QED
      BY <3>1 DEF TypeInv
  <2> QED
    BY <2>1, <2>2
<1>10. /\ Shelf' /\ InTree' = InTree /\ \A z : LevelAt(z)' = LevelAt(z)
       /\ chunks'[l] = w /\ \A z \in InTree : z # Home(m) => chunks'[LevelAt(z)] = chunks[LevelAt(z)]
  <2>1. PICK y : y = Home(m)
    OBVIOUS
  <2> HIDE DEF w
  <2>2. y \in InTree /\ l = LevelAt(y) /\ Slim(w) /\ InOrder(entered, w) /\ Shelf
    BY <1>3, <1>5, <1>8, <2>1
  <2>3. chunks' = [chunks EXCEPT ![l] = w] /\ UNCHANGED <<book, spare, made, entered>>
    BY <1>9
  <2>4. chunks'[l] = w
    BY <1>9 DEF TypeInv
  <2> HIDE DEF l, t, b
  <2>5. Shelf' /\ InTree' = InTree
    BY <2>2, <2>3, OneLevelChanges
  <2>6. \A z : LevelAt(z)' = LevelAt(z)
    BY <2>2, <2>3, OneLevelChanges
  <2>7. \A z \in InTree : z # y => chunks'[LevelAt(z)] = chunks[LevelAt(z)]
    BY <2>2, <2>3, OneLevelChanges
  <2> QED
    BY <2>1, <2>4, <2>5, <2>6, <2>7
<1>11. ordersByID' = ordersByID \ left
  OBVIOUS
<1>12. t \notin pooled'
  BY <1>2, <1>4
<1>13. left \subseteq {m} /\ (n # Left(m) <=> left = {})
  OBVIOUS
<1>14. /\ LevelAt(Home(m)) = l /\ b = chunks[LevelAt(Home(m))] /\ chunks'[LevelAt(Home(m))] = w
  BY <1>5, <1>10
<1>15. Place(d) = <<Opposite(Side[t]), KeyOrder[c.at]>>
  BY <1>1 DEF Place
<1> HIDE DEF t, l, b, w, left
<1>16. \A y \in InTree : \A x \in Orders : Ins(x, chunks'[LevelAt(y)]) <=> Ins(x, chunks[LevelAt(y)]) /\ x \notin left
  <2> SUFFICES ASSUME NEW y \in InTree, NEW x \in Orders
               PROVE  Ins(x, chunks'[LevelAt(y)]) <=> Ins(x, chunks[LevelAt(y)]) /\ x \notin left
    OBVIOUS
  <2>1. CASE y = Home(m)
    BY <1>8, <1>14, <2>1
  <2>2. CASE y # Home(m)
    <3>1. chunks'[LevelAt(y)] = chunks[LevelAt(y)]
      BY <1>10, <2>2
    <3>2. Ins(x, chunks[LevelAt(y)]) => y = Home(x)
      BY <1>3 DEF Listing
    <3> QED
      BY <1>13, <2>2, <3>1, <3>2
  <2> QED
    BY <2>1, <2>2
<1>17. Listing(d)'
  <2>1. ASSUME NEW x \in (Resting \ {t}) \ left PROVE Home(x) \in InTree /\ Ins(x, chunks'[LevelAt(Home(x))])
    <3>1. Home(x) \in InTree /\ Ins(x, chunks[LevelAt(Home(x))]) /\ x \in Orders
      BY <1>3, <1>4, RestingTypes DEF Listing
    <3> QED
      BY <1>16, <2>1, <3>1
  <2>2. ASSUME NEW y \in InTree, NEW x \in Orders, Ins(x, chunks'[LevelAt(y)])
        PROVE  x \in (Resting \ {t}) \ left /\ y = Home(x)
    BY <1>3, <1>4, <1>16, <2>2 DEF Listing
  <2>3. ASSUME NEW y \in InTree, Vacated(chunks'[LevelAt(y)]) PROVE Emptied(d, y)
    <3>1. CASE y = Home(m)
      BY <1>1, <1>5, <3>1 DEF Emptied
    <3>2. CASE y # Home(m)
      <4>1. Vacated(chunks[LevelAt(y)])
        BY <1>10, <2>3, <3>2
      <4>2. Emptied(c, y)
        BY <1>3, <4>1 DEF Listing
      <4> QED
        BY <1>1, <1>5, <3>2, <4>2 DEF Emptied, ScanPcs, t
    <3> QED
      BY <3>1, <3>2
  <2> QED
    BY <1>4, <1>6, <1>10, <2>1, <2>2, <2>3 DEF Listing
<1>18. Index(d)'
  BY <1>3, <1>4, <1>6, <1>11 DEF Index
<1>19. AtMakers(d)'
  <2>1. l = LevelAt(Place(d)) /\ Place(d) \in InTree
    BY <1>5, <1>14
  <2>2. ASSUME NEW o \in Orders, Ins(o, d.todo) PROVE Ins(o, chunks'[l])
    <3>1. Ins(o, chunks[l]) /\ o # m
      BY <1>2, <1>3, <2>2 DEF AtMakers, l
    <3> QED
      BY <1>5, <1>13, <1>14, <1>16, <3>1
  <2>3. ASSUME NEW o \in Orders, Ins(o, chunks'[l])
        PROVE  Ins(o, d.todo) \/ User[o] = User[t] \/ Left(t)' = 0
    <3>1. Ins(o, chunks[l]) /\ o \notin left
      BY <1>5, <1>14, <1>16, <2>3
    <3>2. Ins(o, c.todo) \/ User[o] = User[t]
      <4>1. Left(t) # 0
        BY DEF t
      <4> QED
        BY <1>3, <3>1, <4>1 DEF AtMakers, l, t
    <3>3. CASE o = m
      <4>1. left = {}
        BY <1>13, <3>1, <3>3
      <4> QED
        BY <1>6, <1>13, <4>1
    <3>4. CASE o # m
      BY <1>2, <3>2, <3>4
    <3> QED
      BY <3>3, <3>4
  <2> QED
    BY <1>1, <1>2, <1>10, <2>1, <2>2, <2>3 DEF AtMakers
<1>20. SweptIsEmpty(d)'
  <2> SUFFICES ASSUME NEW x \in c.gone, <<Opposite(Side[t]), x>> \in InTree
               PROVE  Vacated(chunks'[LevelAt(<<Opposite(Side[t]), x>>)])
    BY <1>1, <1>10 DEF SweptIsEmpty
  <2> DEFINE y == <<Opposite(Side[t]), x>>
  <2>1. Vacated(chunks[LevelAt(y)])
    BY <1>3 DEF SweptIsEmpty, t
  <2> HIDE DEF y
  <2>2. y \in InTree
    BY DEF y
  <2>3. Vacated(chunks'[LevelAt(y)])
    BY <1>16, <2>1, <2>2 DEF Vacated
  <2> QED
    BY <2>3 DEF y
<1>21. Taker' = Taker /\ entered' = entered
  BY DEF Taker
<1>22. Stage(d)'
  BY <1>1, <1>4, <1>12, <1>19, <1>20, <1>21 DEF Stage, ScanPcs, RestPcs, CancelPcs
<1> QED
  BY <1>3, <1>10, <1>17, <1>18, <1>21, <1>22 DEF Story

-----------------------------------------------------------------------------
\* The emptied level of a cancelled order leaves its tree for the pool.
LEMMA StoryDrop ==
  ASSUME TypeInv, NEW c \in Calls, c.pc = "drop", c.order \in Orders, c.level \in Levels, Story(c),
         book' = [book EXCEPT ![Side[c.order]][Price[c.order]] = None],
         ToPool([l \in Levels |-> IF l = c.level THEN 1 ELSE 0]),
         UNCHANGED <<made, filled, ordersByID, pooled, entered>>,
         NEW d, d = Made("forget", c.order, c.at, None, c.todo, c.gone)
  PROVE  Story(d)'
<1> DEFINE o == c.order
           l == c.level
           h == Home(o)
<1>1. d.pc = "forget" /\ d.order = o
  BY MadeFields
<1>2. /\ o \in Resting /\ h \in InTree /\ l = LevelAt(h) /\ Vacated(chunks[l])
      /\ Listing(c) /\ Index(c) /\ Shelf /\ Once(entered)
  BY DEF Story, Stage, CancelPcs
<1>3. Absent(c) = {o} /\ Unknown(c) = {} /\ Absent(d) = {o} /\ Unknown(d) = {} /\ \A y : Emptied(c, y) => y = h
  BY <1>1 DEF Absent, Unknown, Emptied, ScanPcs, RestPcs
<1>4. Side[o] \in {"buy", "sell"} /\ Price[o] \in Prices /\ h = <<Side[o], Price[o]>>
  BY HomeTypes DEF Home
<1>5. InTree' = InTree \ {h} /\ \A y \in InTree \ {h} : LevelAt(y)' = LevelAt(y)
  <2>1. ASSUME NEW y \in {"buy", "sell"} \X Prices
        PROVE  /\ y # h => book'[y[1]][y[2]] = book[y[1]][y[2]]
               /\ y = h => book'[y[1]][y[2]] = None
    BY <1>4 DEF TypeInv
  <2> HIDE DEF h
  <2> QED
    BY <2>1 DEF InTree, LevelAt
<1>6. /\ chunks'[l] = <<>> /\ \A k \in Levels \ {l} : chunks'[k] = chunks[k]
      /\ spare'[l] = spare[l] + 1 /\ \A k \in Levels \ {l} : spare'[k] = spare[k] + 0
  BY DEF ToPool
<1> HIDE DEF h, l, o
<1>7. l \in Levels /\ spare[l] = 0 /\ \A y \in InTree \ {h} : LevelAt(y) \in Levels \ {l}
  BY <1>2, TreeTypes DEF Shelf, OneLevelEach
<1>8. \A k \in Levels \ {l} : spare'[k] = spare[k]
  BY <1>6 DEF TypeInv
<1>9. spare'[l] = 1
  BY <1>6, <1>7
<1>10. \A y \in InTree' : LevelAt(y)' = LevelAt(y) /\ chunks'[LevelAt(y)] = chunks[LevelAt(y)]
  BY <1>5, <1>6, <1>7
<1>11. Resting' = Resting
  BY DEF Resting, Placed, Spent, Left
<1>12. \A k \in Levels : Tidy(k)'
  <2>1. Slim(<<>>) /\ InOrder(entered, <<>>)
    BY EmptyChain DEF Slim, InOrder
  <2>2. Tidy(l)'
    BY <1>6, <1>9, <2>1 DEF Tidy
  <2>3. ASSUME NEW k \in Levels \ {l} PROVE Tidy(k)'
    BY <1>2, <1>6, <1>8 DEF Shelf, Tidy
  <2>4. ASSUME NEW k \in Levels PROVE Tidy(k)'
    <3>1. CASE k = l
      BY <2>2, <3>1 DEF Tidy
    <3>2. CASE k # l
      BY <2>3, <3>2
    <3> QED
      BY <3>1, <3>2
  <2> QED
    BY <2>4
<1>13. OneLevelEach'
  BY <1>2, <1>5, <1>7, <1>8 DEF Shelf, OneLevelEach
<1>14. LooseAreEmpty'
  <2> SUFFICES ASSUME NEW k \in Levels, \A y \in InTree' : LevelAt(y)' # k PROVE Vacated(chunks'[k])
    BY DEF LooseAreEmpty
  <2>1. CASE k = l
    BY <1>6, <2>1, EmptyChain DEF Vacated
  <2>2. CASE k # l
    <3>1. \A y \in InTree : LevelAt(y) # k
      BY <1>2, <1>5, <2>2
    <3>2. Vacated(chunks[k])
      BY <1>2, <3>1 DEF Shelf, LooseAreEmpty
    <3> QED
      BY <1>6, <2>2, <3>2
  <2> QED
    BY <2>1, <2>2
<1>15. Listing(d)'
  <2>1. ASSUME NEW x \in Resting \ {o}
        PROVE  Home(x) \in InTree' /\ Ins(x, chunks'[LevelAt(Home(x))]) /\ LevelAt(Home(x))' = LevelAt(Home(x))
    <3>1. Home(x) \in InTree /\ Ins(x, chunks[LevelAt(Home(x))]) /\ x \in Orders
      BY <1>2, <1>3, RestingTypes DEF Listing
    <3>2. Home(x) # h
      BY <1>2, <3>1 DEF Vacated
    <3> QED
      BY <1>5, <1>10, <3>1, <3>2
  <2>2. ASSUME NEW y \in InTree', NEW x \in Orders, Ins(x, chunks'[LevelAt(y)])
        PROVE  x \in Resting \ {o} /\ y = Home(x)
    BY <1>2, <1>3, <1>5, <1>10, <2>2 DEF Listing
  <2>3. ASSUME NEW y \in InTree', Vacated(chunks'[LevelAt(y)]) PROVE FALSE
    BY <1>2, <1>3, <1>5, <1>10, <2>3 DEF Listing
  <2> QED
    BY <1>3, <1>10, <1>11, <2>1, <2>2, <2>3 DEF Listing
<1>16. Index(d)'
  BY <1>2, <1>3, <1>11 DEF Index
<1>17. Stage(d)'
  BY <1>1, <1>2, <1>11 DEF Stage, ScanPcs, RestPcs, CancelPcs
<1> QED
  BY <1>2, <1>12, <1>13, <1>14, <1>15, <1>16, <1>17 DEF Story, Shelf

\* A level from the pool or a new one: it is in no tree, and it is empty.
LEMMA StoryCreate ==
  ASSUME TypeInv, NEW c \in Calls, c.pc = "create", c.order \in Orders, Story(c),
         NEW l \in Levels, spare[l] > 0 \/ l \notin made,
         made' = made \cup {l}, spare' = [spare EXCEPT ![l] = IF @ > 0 THEN @ - 1 ELSE 0],
         book' = [book EXCEPT ![Side[c.order]][Price[c.order]] = l],
         UNCHANGED <<chunks, filled, ordersByID, pooled, entered>>,
         NEW d, d = Made("attach", c.order, c.at, l, c.todo, c.gone)
  PROVE  Story(d)'
<1> DEFINE o == c.order
           h == Home(o)
<1>1. d.pc = "attach" /\ d.order = o /\ d.level = l
  BY MadeFields
<1>2. /\ h \notin InTree /\ Listing(c) /\ Index(c) /\ Shelf /\ Once(entered)
      /\ entered # <<>> /\ o = Taker /\ o \notin pooled /\ o \in Rests /\ Left(o) > 0
  BY DEF Story, Stage, RestPcs
<1>3. /\ Absent(c) = {o} /\ Unknown(c) = {o} /\ Absent(d) = {o} /\ Unknown(d) = {o}
      /\ (\A y : ~Emptied(c, y)) /\ Emptied(d, h)
  BY <1>1 DEF Absent, Unknown, Emptied, ScanPcs, RestPcs
<1>4. Side[o] \in {"buy", "sell"} /\ Price[o] \in Prices /\ h = <<Side[o], Price[o]>>
  BY HomeTypes DEF Home
<1>5. InTree' = InTree \cup {h} /\ (\A y \in InTree : LevelAt(y)' = LevelAt(y)) /\ LevelAt(h)' = l
  <2>1. ASSUME NEW y \in {"buy", "sell"} \X Prices
        PROVE  /\ y # h => book'[y[1]][y[2]] = book[y[1]][y[2]]
               /\ y = h => book'[y[1]][y[2]] = l
    BY <1>4 DEF TypeInv
  <2>2. h \in {"buy", "sell"} \X Prices
    BY <1>4
  <2>3. l # None
    BY NoneAssumption
  <2> HIDE DEF h
  <2> QED
    BY <1>2, <2>1, <2>2, <2>3 DEF InTree, LevelAt
<1>6. \A y \in InTree : LevelAt(y) # l
  BY <1>2 DEF Shelf, OneLevelEach
<1>7. Vacated(chunks[l])
  BY <1>2, <1>6 DEF Shelf, LooseAreEmpty
<1>8. spare'[l] = 0 /\ \A k \in Levels \ {l} : spare'[k] = spare[k]
  <2>1. spare[l] \in {0, 1}
    BY <1>2 DEF Shelf, Tidy
  <2>2. (IF spare[l] > 0 THEN spare[l] - 1 ELSE 0) = 0
    BY <2>1
  <2> QED
    BY <2>2 DEF TypeInv
<1> HIDE DEF h, o
<1>9. Resting' = Resting /\ Taker' = Taker /\ Left(o)' = Left(o)
  BY DEF Resting, Placed, Spent, Left, Taker
<1>10. \A k \in Levels : Tidy(k)'
  <2> SUFFICES ASSUME NEW k \in Levels PROVE Tidy(k)'
    OBVIOUS
  <2>1. spare'[k] \in {0, 1}
    BY <1>2, <1>8 DEF Shelf, Tidy
  <2> QED
    BY <1>2, <2>1 DEF Shelf, Tidy
<1>11. OneLevelEach'
  <2>1. \A y \in InTree : LevelAt(y) \in Levels \ {l} /\ LevelAt(y) \in made /\ spare[LevelAt(y)] = 0
    BY <1>2, <1>6, TreeTypes DEF Shelf, OneLevelEach
  <2>2. \A y \in InTree' : LevelAt(y)' \in made' /\ spare'[LevelAt(y)'] = 0
    BY <1>5, <1>8, <2>1
  <2>3. \A y, z \in InTree' : LevelAt(y)' = LevelAt(z)' => y = z
    BY <1>2, <1>5, <1>6 DEF Shelf, OneLevelEach
  <2> QED
    BY <2>2, <2>3 DEF OneLevelEach
<1>12. LooseAreEmpty'
  BY <1>2, <1>5 DEF Shelf, LooseAreEmpty
<1>13. Listing(d)'
  <2>1. ASSUME NEW x \in Resting \ {o}
        PROVE  Home(x) \in InTree' /\ Ins(x, chunks[LevelAt(Home(x))']) 
    BY <1>2, <1>3, <1>5 DEF Listing
  <2>2. ASSUME NEW y \in InTree', NEW x \in Orders, Ins(x, chunks[LevelAt(y)'])
        PROVE  x \in Resting \ {o} /\ y = Home(x)
    <3>1. y # h
      BY <1>5, <1>7, <2>2 DEF Vacated
    <3> QED
      BY <1>2, <1>3, <1>5, <2>2, <3>1 DEF Listing
  <2>3. ASSUME NEW y \in InTree', Vacated(chunks[LevelAt(y)']) PROVE Emptied(d, y)
    BY <1>2, <1>3, <1>5, <2>3 DEF Listing
  <2> QED
    BY <1>3, <1>9, <2>1, <2>2, <2>3 DEF Listing
<1>14. Index(d)'
  BY <1>2, <1>3, <1>9 DEF Index
<1>15. Stage(d)'
  <2>1. Home(o) \in InTree' /\ LevelAt(Home(o))' = l
    BY <1>5 DEF h
  <2> QED
    BY <1>1, <1>2, <1>9, <2>1 DEF Stage, ScanPcs, RestPcs, CancelPcs
<1> QED
  BY <1>2, <1>10, <1>11, <1>12, <1>13, <1>14, <1>15 DEF Story, Shelf

-----------------------------------------------------------------------------
\* What follows a scan, said of the next state.
LEMMA StoryAfterNext ==
  (\A k \in Calls : \A g \in SUBSET Prices : \A a :
     TypeInv /\ Over(k, g) /\ a = After(k.order, g) => Story(a))'
BY StoryAfter, PTL

\* The noted keys are deleted: their levels are empty, and each goes to the pool once.
LEMMA StorySweep ==
  ASSUME TypeInv, TypeInv', NEW c \in Calls, c.pc = "sweep", c.order \in Orders, Story(c),
         NEW s, s = Opposite(Side[c.order]), NEW sw, sw = {x \in c.gone : book[s][x] # None},
         ToPool([l \in Levels |-> Cardinality({x \in sw : book[s][x] = l})]),
         book' = [book EXCEPT ![s] = [x \in Prices |-> IF x \in sw THEN None ELSE book[s][x]]],
         UNCHANGED <<made, filled, ordersByID, pooled, entered>>,
         NEW d, d = After(c.order, {})
  PROVE  Story(d)'
<1> DEFINE t == c.order
           W == {y \in InTree : y[1] = s /\ y[2] \in c.gone}
           n == [l \in Levels |-> Cardinality({x \in sw : book[s][x] = l})]
<1>1. /\ Listing(c) /\ Index(c) /\ Shelf /\ Once(entered) /\ SweptIsEmpty(c)
      /\ entered # <<>> /\ t = Taker /\ t \notin pooled
  BY DEF Story, Stage, ScanPcs
<1>2. s \in {"buy", "sell"} /\ c.gone \in SUBSET Prices /\ Absent(c) = {t} /\ Unknown(c) = {t}
  BY Sides DEF Calls, Absent, Unknown, ScanPcs
<1>3. \A x \in sw : <<s, x>> \in W /\ LevelAt(<<s, x>>) = book[s][x]
  BY <1>2, TreeIntro
<1>4. \A y \in W : y = <<s, y[2]>> /\ y[2] \in sw /\ book[s][y[2]] = LevelAt(y)
  <2> SUFFICES ASSUME NEW y \in W PROVE y = <<s, y[2]>> /\ y[2] \in sw /\ book[s][y[2]] = LevelAt(y)
    OBVIOUS
  <2>1. y \in InTree /\ y[1] = s /\ y[2] \in c.gone
    OBVIOUS
  <2>2. y = <<y[1], y[2]>> /\ LevelAt(y) = book[y[1]][y[2]] /\ LevelAt(y) \in Levels
    BY <2>1, TreeTypes
  <2> QED
    BY <2>1, <2>2, NoneAssumption
<1>5. \A y \in W : Vacated(chunks[LevelAt(y)])
  <2> SUFFICES ASSUME NEW y \in W PROVE Vacated(chunks[LevelAt(y)])
    OBVIOUS
  <2>1. y = <<s, y[2]>> /\ y \in InTree /\ y[2] \in c.gone
    BY <1>4
  <2> HIDE DEF W
  <2>2. <<s, y[2]>> \in InTree => Vacated(chunks[LevelAt(<<s, y[2]>>)])
    BY <1>1, <2>1 DEF SweptIsEmpty
  <2> QED
    BY <2>1, <2>2
<1>6. InTree' = InTree \ W /\ \A y \in InTree \ W : LevelAt(y)' = LevelAt(y)
  <2>1. ASSUME NEW y \in {"buy", "sell"} \X Prices
        PROVE  /\ y[1] = s /\ y[2] \in sw => book'[y[1]][y[2]] = None
               /\ ~(y[1] = s /\ y[2] \in sw) => book'[y[1]][y[2]] = book[y[1]][y[2]]
    BY <1>2 DEF TypeInv
  <2>2. \A y \in {"buy", "sell"} \X Prices : y \in W <=> y[1] = s /\ y[2] \in sw
    BY DEF InTree
  <2> HIDE DEF W
  <2> QED
    BY <2>1, <2>2 DEF InTree, LevelAt
<1>7. \A y \in W : n[LevelAt(y)] = 1
  <2> SUFFICES ASSUME NEW y \in W PROVE n[LevelAt(y)] = 1
    OBVIOUS
  <2>1. y \in InTree /\ LevelAt(y) \in Levels
    BY TreeTypes
  <2>2. PICK l \in Levels : l = LevelAt(y)
    BY <2>1
  <2>3. {x \in sw : book[s][x] = l} = {y[2]}
    <3>1. ASSUME NEW x \in sw, book[s][x] = l PROVE x = y[2]
      <4>1. <<s, x>> \in InTree /\ LevelAt(<<s, x>>) = LevelAt(y)
        BY <1>3, <2>2, <3>1
      <4>2. <<s, x>> = y
        BY <1>1, <2>1, <4>1 DEF Shelf, OneLevelEach
      <4> QED
        BY <4>2
    <3>2. y[2] \in sw /\ book[s][y[2]] = l
      BY <1>4, <2>2
    <3> QED
      BY <3>1, <3>2
  <2>4. Cardinality({x \in sw : book[s][x] = l}) = 1
    BY <2>3, FS_Singleton
  <2>5. n[l] = 1
    BY <2>4
  <2> QED
    BY <2>2, <2>5
<1>8. \A l \in Levels : (\A y \in W : LevelAt(y) # l) => n[l] = 0
  <2> SUFFICES ASSUME NEW l \in Levels, \A y \in W : LevelAt(y) # l PROVE n[l] = 0
    OBVIOUS
  <2>1. {x \in sw : book[s][x] = l} = {}
    BY <1>3
  <2>2. Cardinality({x \in sw : book[s][x] = l}) = 0
    BY <2>1, FS_EmptySet
  <2> QED
    BY <2>2
<1> HIDE DEF W, n, t
<1>9. W \in SUBSET InTree
  BY DEF W
<1>10. /\ \A y \in W : chunks'[LevelAt(y)] = <<>> /\ spare'[LevelAt(y)] = 1
       /\ \A l \in Levels : (\A y \in W : LevelAt(y) # l) => chunks'[l] = chunks[l] /\ spare'[l] = spare[l]
  <2>1. ASSUME NEW l \in Levels
        PROVE  /\ spare'[l] = spare[l] + n[l]
               /\ n[l] > 0 => chunks'[l] = <<>>
               /\ n[l] = 0 => chunks'[l] = chunks[l]
    BY DEF ToPool, n
  <2>2. ASSUME NEW y \in W PROVE chunks'[LevelAt(y)] = <<>> /\ spare'[LevelAt(y)] = 1
    <3>1. PICK l \in Levels : l = LevelAt(y)
      BY <1>9, TreeTypes
    <3>2. n[l] = 1 /\ spare[l] = 0
      BY <1>1, <1>7, <1>9, <3>1 DEF Shelf, OneLevelEach
    <3> QED
      BY <2>1, <3>1, <3>2
  <2>3. ASSUME NEW l \in Levels, \A y \in W : LevelAt(y) # l PROVE chunks'[l] = chunks[l] /\ spare'[l] = spare[l]
    <3>1. n[l] = 0 /\ spare[l] \in Nat
      BY <1>8, <2>3 DEF TypeInv
    <3> QED
      BY <2>1, <3>1
  <2> QED
    BY <2>2, <2>3
<1>11. \A y \in InTree' : /\ y \in InTree /\ LevelAt(y)' = LevelAt(y) /\ LevelAt(y) \in Levels
                          /\ chunks'[LevelAt(y)] = chunks[LevelAt(y)] /\ spare'[LevelAt(y)] = spare[LevelAt(y)]
  <2> SUFFICES ASSUME NEW y \in InTree \ W
               PROVE  /\ LevelAt(y) \in Levels
                      /\ chunks'[LevelAt(y)] = chunks[LevelAt(y)] /\ spare'[LevelAt(y)] = spare[LevelAt(y)]
    BY <1>6
  <2>1. PICK l \in Levels : l = LevelAt(y)
    BY TreeTypes
  <2>2. \A z \in W : LevelAt(z) # l
    BY <1>1, <1>9, <2>1 DEF Shelf, OneLevelEach
  <2> QED
    BY <1>10, <2>1, <2>2
<1>12. Resting' = Resting /\ Taker' = Taker /\ \A o : Left(o)' = Left(o)
  BY DEF Resting, Placed, Spent, Left, Taker
<1>13. Shelf'
  <2>1. Slim(<<>>) /\ InOrder(entered, <<>>) /\ Vacated(<<>>)
    BY EmptyChain DEF Slim, InOrder, Vacated
  <2>2. ASSUME NEW l \in Levels PROVE Tidy(l)'
    <3>1. CASE \E y \in W : LevelAt(y) = l
      BY <1>10, <2>1, <3>1 DEF Tidy
    <3>2. CASE \A y \in W : LevelAt(y) # l
      BY <1>1, <1>10, <3>2 DEF Shelf, Tidy
    <3> QED
      BY <3>1, <3>2
  <2>3. OneLevelEach'
    BY <1>1, <1>11 DEF Shelf, OneLevelEach
  <2>4. LooseAreEmpty'
    <3> SUFFICES ASSUME NEW l \in Levels, \A y \in InTree' : LevelAt(y)' # l PROVE Vacated(chunks'[l])
      BY DEF LooseAreEmpty
    <3>1. CASE \E y \in W : LevelAt(y) = l
      BY <1>10, <2>1, <3>1
    <3>2. CASE \A y \in W : LevelAt(y) # l
      <4>1. \A y \in InTree : LevelAt(y) # l
        BY <1>6, <3>2
      <4> QED
        BY <1>1, <1>10, <3>2, <4>1 DEF Shelf, LooseAreEmpty
    <3> QED
      BY <3>1, <3>2
  <2> QED
    BY <2>2, <2>3, <2>4 DEF Shelf
<1>14. \A y \in InTree' : ~Vacated(chunks'[LevelAt(y)])
  <2> SUFFICES ASSUME NEW y \in InTree', Vacated(chunks'[LevelAt(y)]) PROVE FALSE
    OBVIOUS
  <2>1. y \in InTree \ W /\ Vacated(chunks[LevelAt(y)])
    BY <1>6, <1>11
  <2>2. Emptied(c, y)
    BY <1>1, <2>1 DEF Listing
  <2>3. y[1] = s /\ y[2] \in c.gone
    BY <2>2 DEF Emptied
  <2> QED
    BY <2>1, <2>3 DEF W
<1>15. Listing(c)'
  <2>1. ASSUME NEW o \in Resting \ {t}
        PROVE  Home(o) \in InTree' /\ Ins(o, chunks'[LevelAt(Home(o))'])
    <3>1. Home(o) \in InTree /\ Ins(o, chunks[LevelAt(Home(o))]) /\ o \in Orders
      BY <1>1, <1>2, RestingTypes DEF Listing
    <3>2. Home(o) \notin W
      BY <1>5, <3>1 DEF Vacated
    <3> QED
      BY <1>6, <1>11, <3>1, <3>2
  <2>2. ASSUME NEW y \in InTree', NEW o \in Orders, Ins(o, chunks'[LevelAt(y)'])
        PROVE  o \in Resting \ {t} /\ y = Home(o)
    BY <1>1, <1>2, <1>11, <2>2 DEF Listing
  <2>3. \A y \in InTree' : ~Vacated(chunks'[LevelAt(y)'])
    BY <1>11, <1>14
  <2> QED
    BY <1>2, <1>12, <2>1, <2>2, <2>3 DEF Listing
<1>16. Index(c)' /\ Once(entered)'
  BY <1>1, <1>12 DEF Index
<1>17. Stage(c)'
  <2>1. SweptIsEmpty(c)'
    <3> SUFFICES ASSUME NEW x \in c.gone, <<s, x>> \in InTree' PROVE FALSE
      BY DEF SweptIsEmpty
    <3>1. <<s, x>> \in InTree /\ <<s, x>> \notin W
      BY <1>6
    <3> QED
      BY <3>1 DEF W
  <2> QED
    BY <1>1, <1>12, <2>1 DEF Stage, ScanPcs, RestPcs, CancelPcs, t
<1>18. Story(c)'
  BY <1>13, <1>15, <1>16, <1>17 DEF Story
<1>19. Over(c, {})'
  BY <1>11, <1>14, <1>18 DEF Over, ScanPcs
<1>20. d = After(c.order, {})'
  BY <1>12 DEF After
<1> QED
  BY <1>18, <1>19, <1>20, StoryAfterNext

-----------------------------------------------------------------------------
\* Step by step: a call of which the story is told goes on in the next state.
LEMMA CallTold ==
  ASSUME TypeInv, NEW p \in Procs, NEW c, c = op[p]
  PROVE  /\ c \in Calls /\ c.at \in Nat /\ c.gone \in SUBSET Prices
         /\ c.pc # "idle" => c.order \in Orders
         /\ c.pc \in {"visit", "trade"} => c.at \in DOMAIN KeyOrder
         /\ c.pc \in {"visit", "trade", "attach", "remove", "drop"} => c.level \in Levels
BY CallFacts DEF CallInv

LEMMA OpenLevelTells ==
  ASSUME TypeInv, NEW p \in Procs, OpenLevel(p), NEW c, c = op[p], Story(c), NEW d, d = op'[p]
  PROVE  Story(d)'
<1>1. /\ c.pc = "scan" /\ Ahead(p) # {}
      /\ UNCHANGED <<book, chunks, spare, made, filled, ordersByID, pooled, entered>>
  BY DEF OpenLevel
<1>2. c \in Calls /\ c.order \in Orders
  BY <1>1, CallTold
<1>3. PICK i, l : i = LeastOf(Ahead(p)) /\ l = NextLevel(p)
  OBVIOUS
<1>4. i \in DOMAIN KeyOrder /\ l \in Levels
  BY <1>1, <1>3, NextLevelType
<1>5. l = book[Opposite(Side[c.order])][KeyOrder[i]]
  BY <1>3 DEF NextLevel, Scanned
<1>6. d = Made("visit", c.order, i, l, Seen(chunks[l]), c.gone)
  BY <1>3, OpenLevelStep
<1>7. Story(d)
  BY <1>1, <1>2, <1>4, <1>5, <1>6, StoryOpen
<1> QED
  BY <1>1, <1>7, StoryStays

LEMMA AdmitTells ==
  ASSUME TypeInv, NEW p \in Procs, Admit(p), NEW c, c = op[p], Story(c), NEW d, d = op'[p]
  PROVE  Story(d)'
<1>1. /\ c.pc = "visit" /\ c.todo # <<>> /\ Left(c.order) > 0 /\ Crosses(c.order, KeyOrder[c.at])
      /\ UNCHANGED <<book, chunks, spare, made, filled, ordersByID, pooled, entered>>
  BY DEF Admit, Visiting, Admissible, ScannedPrice
<1>2. c \in Calls
  BY CallTold
<1>3. d = Made("trade", c.order, c.at, c.level, c.todo, c.gone)
  BY AdmitStep
<1>4. Story(d)
  BY <1>1, <1>2, <1>3, StoryAdmit
<1> QED
  BY <1>1, <1>4, StoryStays

LEMMA PassOverTells ==
  ASSUME TypeInv, NEW p \in Procs, PassOver(p), NEW c, c = op[p], Story(c), NEW d, d = op'[p]
  PROVE  Story(d)'
<1>1. PICK m : m = NextMaker(p)
  OBVIOUS
<1>2. /\ c.pc \in {"visit", "trade"} /\ c.todo # <<>> /\ (Spent(m) \/ User[m] = User[c.order])
      /\ UNCHANGED <<book, chunks, spare, made, filled, ordersByID, pooled, entered>>
  <2>1. c.pc \in {"visit", "trade"} /\ c.todo # <<>>
    BY TradingHas DEF PassOver
  <2> QED
    BY <1>1, <2>1 DEF PassOver, Partners
<1>3. c \in Calls /\ c.order \in Orders /\ c.at \in DOMAIN KeyOrder /\ c.level \in Levels
  BY <1>2, CallTold
<1>4. m = Head(c.todo[LeastOf(DOMAIN c.todo)])
  BY <1>1 DEF NextMaker
<1>5. d = Made("visit", c.order, c.at, c.level, Behind(c.todo), c.gone)
  BY PassOverStep
<1>6. Story(d)
  BY <1>2, <1>3, <1>4, <1>5, StoryPass
<1> QED
  BY <1>2, <1>6, StoryStays

LEMMA StopScanTells ==
  ASSUME TypeInv, NEW p \in Procs, StopScan(p) \/ EndScan(p), NEW c, c = op[p], Story(c), NEW d, d = op'[p]
  PROVE  Story(d)'
<1>1. /\ c.pc \in {"scan", "visit"} /\ (c.pc = "visit" => c.todo # <<>>)
      /\ UNCHANGED <<book, chunks, spare, made, filled, ordersByID, pooled, entered>>
  BY DEF StopScan, EndScan, Visiting
<1>2. /\ c \in Calls /\ c.order \in Orders
      /\ c.at \in DOMAIN KeyOrder \/ c.pc = "scan"
      /\ c.level \in Levels \/ c.pc = "scan"
      /\ c.todo # <<>> \/ c.pc = "scan"
  BY <1>1, CallTold
<1>3. d = After(c.order, c.gone)
  BY StopScanStep
<1>4. Story(d)
  BY <1>1, <1>2, <1>3, StoryStop
<1> QED
  BY <1>1, <1>4, StoryStays

LEMMA CloseLevelTells ==
  ASSUME TypeInv, NEW p \in Procs, CloseLevel(p), NEW c, c = op[p], Story(c), NEW d, d = op'[p]
  PROVE  Story(d)'
<1>1. /\ c.pc = "visit"
      /\ UNCHANGED <<book, chunks, spare, made, filled, ordersByID, pooled, entered>>
  BY DEF CloseLevel
<1>2. c \in Calls /\ c.order \in Orders /\ c.at \in DOMAIN KeyOrder /\ c.level \in Levels
  BY <1>1, CallTold
<1>3. PICK g : g = IF IsEmpty(chunks[c.level]) THEN c.gone \cup {KeyOrder[c.at]} ELSE c.gone
  OBVIOUS
<1>4. d = IF Left(c.order) = 0 THEN After(c.order, g) ELSE Made("scan", c.order, c.at, None, <<>>, g)
  BY <1>3, CloseLevelStep DEF ScannedPrice
<1>5. Story(d)
  BY <1>1, <1>2, <1>3, <1>4, StoryClose
<1> QED
  BY <1>1, <1>5, StoryStays

LEMMA FindLevelTells ==
  ASSUME TypeInv, NEW p \in Procs, FindLevel(p), NEW c, c = op[p], Story(c), NEW d, d = op'[p]
  PROVE  Story(d)'
<1>1. /\ c.pc = "find"
      /\ UNCHANGED <<book, chunks, spare, made, filled, ordersByID, pooled, entered>>
  BY DEF FindLevel
<1>2. c \in Calls /\ c.order \in Orders
  BY <1>1, CallTold
<1>3. PICK l : l = book[Side[c.order]][Price[c.order]]
  OBVIOUS
<1>4. d = Made(IF l = None THEN "create" ELSE "attach", c.order, c.at, l, c.todo, c.gone)
  BY <1>3, FindLevelStep
<1>5. Story(d)
  BY <1>1, <1>2, <1>3, <1>4, StoryFind
<1> QED
  BY <1>1, <1>5, StoryStays

LEMMA LocateLevelTells ==
  ASSUME TypeInv, NEW p \in Procs, LocateLevel(p), NEW c, c = op[p], Story(c), NEW d, d = op'[p]
  PROVE  Story(d)'
<1>1. /\ c.pc = "locate"
      /\ UNCHANGED <<book, chunks, spare, made, filled, ordersByID, pooled, entered>>
  BY DEF LocateLevel
<1>2. c \in Calls /\ c.order \in Orders
  BY <1>1, CallTold
<1>3. PICK l : l = IF c.order \in pooled THEN None ELSE book[Side[c.order]][Price[c.order]]
  OBVIOUS
<1>4. d = Made(IF l = None THEN "forget" ELSE "remove", c.order, c.at, l, c.todo, c.gone)
  BY <1>3, LocateLevelStep
<1>5. Story(d)
  BY <1>1, <1>2, <1>3, <1>4, StoryLocate
<1> QED
  BY <1>1, <1>5, StoryStays

LEMMA MatchTells ==
  ASSUME TypeInv, NEW p \in Procs, Match(p), NEW c, c = op[p], Story(c), NEW d, d = op'[p]
  PROVE  Story(d)'
<1>1. PICK m, n : m = NextMaker(p) /\ n = MinOf(Left(c.order), Left(m))
  OBVIOUS
<1>2. /\ c.pc = "trade"
      /\ filled' = [filled EXCEPT ![c.order] = @ + n, ![m] = @ + n]
      /\ chunks' = IF n = Left(m) THEN [chunks EXCEPT ![c.level] = WithoutOrder(@, m)] ELSE chunks
      /\ ordersByID' = IF n = Left(m) THEN ordersByID \ {m} ELSE ordersByID
      /\ pooled' = IF n = Left(m) THEN pooled \cup {m} ELSE pooled
      /\ UNCHANGED <<book, spare, made, entered>>
  BY <1>1 DEF Match
<1>3. c \in Calls /\ c.order \in Orders /\ c.at \in DOMAIN KeyOrder /\ c.level \in Levels
  BY <1>2, CallTold
<1>4. c.todo # <<>> /\ Left(c.order) > 0
  BY <1>2 DEF Story, Stage
<1>5. n \in Nat
  <2>1. n \in 0 .. Left(c.order)
    BY <1>1, <1>2, TradingFacts
  <2> QED
    BY <2>1
<1>6. m = Head(c.todo[LeastOf(DOMAIN c.todo)])
  BY <1>1 DEF NextMaker
<1>7. d = Made("visit", c.order, c.at, c.level, Behind(c.todo), c.gone)
  BY MatchStep
<1> QED
  BY <1>1, <1>2, <1>3, <1>4, <1>5, <1>6, <1>7, StoryMatch

\* Nobody wipes an order while it is looked at.
LEMMA NoneIsWiped ==
  ASSUME TypeInv, NEW p \in Procs, NEW c, c = op[p], Story(c)
  PROVE  ~MatchWiped(p)
<1> SUFFICES ASSUME MatchWiped(p) PROVE FALSE
  OBVIOUS
<1>1. PICK m : m = NextMaker(p)
  OBVIOUS
<1>2. c.pc = "trade" /\ m \in pooled
  BY <1>1 DEF MatchWiped
<1>3. c \in Calls /\ c.order \in Orders /\ c.at \in DOMAIN KeyOrder /\ c.level \in Levels
  BY <1>2, CallTold
<1>4. c.todo # <<>>
  BY <1>2 DEF Story, Stage
<1>5. ~Spent(m)
  BY <1>1, <1>2, <1>3, <1>4, Maker DEF NextMaker
<1> QED
  BY <1>2, <1>5 DEF Spent

LEMMA SweepTells ==
  ASSUME TypeInv, NEW p \in Procs, Sweep(p), NEW c, c = op[p], Story(c), NEW d, d = op'[p]
  PROVE  Story(d)'
<1>1. PICK s, sw : s = Opposite(Side[c.order]) /\ sw = {x \in c.gone : book[s][x] # None}
  OBVIOUS
<1>2. s = Scanned(p) /\ sw = Swept(p) /\ s \in {"buy", "sell"}
  BY <1>1, ScannedSide DEF Scanned, Swept
<1>3. /\ c.pc = "sweep" /\ UNCHANGED <<made, filled, ordersByID, pooled, entered>>
      /\ ToPool([l \in Levels |-> Cardinality({x \in sw : book[s][x] = l})])
      /\ book' = [book EXCEPT ![s] = [x \in Prices |-> IF x \in sw THEN None ELSE book[s][x]]]
  <2>1. book' = [book EXCEPT ![s] = [x \in Prices |-> IF x \in sw THEN None ELSE @[x]]]
    BY <1>2 DEF Sweep
  <2>2. book' = [book EXCEPT ![s] = [x \in Prices |-> IF x \in sw THEN None ELSE book[s][x]]]
    BY <1>2, <2>1 DEF TypeInv
  <2> QED
    BY <1>2, <2>2 DEF Sweep
<1>4. c \in Calls /\ c.order \in Orders
  BY <1>3, CallTold
<1>5. TypeInv' /\ d = After(c.order, {})
  BY SweepStep
<1> QED
  BY <1>1, <1>3, <1>4, <1>5, StorySweep

LEMMA CreateLevelTells ==
  ASSUME TypeInv, NEW p \in Procs, NEW l \in Levels, CreateLevel(p, l), NEW c, c = op[p], Story(c), NEW d, d = op'[p]
  PROVE  Story(d)'
<1>1. /\ c.pc = "create" /\ (spare[l] > 0 \/ l \notin made)
      /\ made' = made \cup {l} /\ spare' = [spare EXCEPT ![l] = IF @ > 0 THEN @ - 1 ELSE 0]
      /\ book' = [book EXCEPT ![Side[c.order]][Price[c.order]] = l]
      /\ UNCHANGED <<chunks, filled, ordersByID, pooled, entered>>
  BY DEF CreateLevel
<1>2. c \in Calls /\ c.order \in Orders
  BY <1>1, CallTold
<1>3. d = Made("attach", c.order, c.at, l, c.todo, c.gone)
  BY CreateLevelStep
<1> QED
  BY <1>1, <1>2, <1>3, StoryCreate

LEMMA AttachTells ==
  ASSUME TypeInv, NEW p \in Procs, Attach(p), calm', NEW c, c = op[p], Story(c), NEW d, d = op'[p]
  PROVE  Story(d)'
<1>1. PICK w : w = WithOrder(chunks[c.level], c.order)
  OBVIOUS
<1>2. /\ c.pc = "attach" /\ Visible(w) = DOMAIN w
      /\ chunks' = [chunks EXCEPT ![c.level] = w]
      /\ UNCHANGED <<book, spare, made, filled, ordersByID, pooled, entered>>
  BY <1>1 DEF Attach
<1>3. c \in Calls /\ c.order \in Orders /\ c.level \in Levels
  BY <1>2, CallTold
<1>4. d = Made("register", c.order, c.at, None, c.todo, c.gone)
  BY AttachStep
<1> QED
  BY <1>1, <1>2, <1>3, <1>4, StoryAttach

LEMMA RegisterTells ==
  ASSUME TypeInv, NEW p \in Procs, Register(p), NEW c, c = op[p], Story(c), NEW d, d = op'[p]
  PROVE  Story(d)'
<1>1. /\ c.pc = "register"
      /\ ordersByID' = ordersByID \cup {IF c.order \in pooled THEN None ELSE c.order}
      /\ UNCHANGED <<book, chunks, spare, made, filled, pooled, entered>>
  BY DEF Register
<1>2. c \in Calls /\ c.order \in Orders
  BY <1>1, CallTold
<1>3. d = Idle
  BY RegisterStep
<1> QED
  BY <1>1, <1>2, <1>3, StoryRegister

LEMMA RemoveTells ==
  ASSUME TypeInv, NEW p \in Procs, RemoveFromLevel(p), NEW c, c = op[p], Story(c), NEW d, d = op'[p]
  PROVE  Story(d)'
<1>1. PICK w : w = WithoutOrder(chunks[c.level], IF c.order \in pooled THEN None ELSE c.order)
  OBVIOUS
<1>2. /\ c.pc = "remove" /\ chunks' = [chunks EXCEPT ![c.level] = w]
      /\ UNCHANGED <<book, spare, made, filled, ordersByID, pooled, entered>>
  BY <1>1 DEF RemoveFromLevel
<1>3. c \in Calls /\ c.order \in Orders /\ c.level \in Levels
  BY <1>2, CallTold
<1>4. d = Made(IF IsEmpty(w) THEN "drop" ELSE "forget", c.order, c.at,
               IF IsEmpty(w) THEN c.level ELSE None, c.todo, c.gone)
  BY <1>1, RemoveStep
<1> QED
  BY <1>1, <1>2, <1>3, <1>4, StoryRemove

LEMMA DropLevelTells ==
  ASSUME TypeInv, NEW p \in Procs, DropLevel(p), NEW c, c = op[p], Story(c), NEW d, d = op'[p]
  PROVE  Story(d)'
<1>1. /\ c.pc = "drop" /\ book' = [book EXCEPT ![Side[c.order]][Price[c.order]] = None]
      /\ ToPool([l \in Levels |-> IF l = c.level THEN 1 ELSE 0])
      /\ UNCHANGED <<made, filled, ordersByID, pooled, entered>>
  BY DEF DropLevel
<1>2. c \in Calls /\ c.order \in Orders /\ c.level \in Levels
  BY <1>1, CallTold
<1>3. d = Made("forget", c.order, c.at, None, c.todo, c.gone)
  BY DropLevelStep
<1> QED
  BY <1>1, <1>2, <1>3, StoryDrop

LEMMA ForgetTells ==
  ASSUME TypeInv, NEW p \in Procs, Forget(p), NEW c, c = op[p], Story(c), NEW d, d = op'[p]
  PROVE  Story(d)'
<1>1. /\ c.pc = "forget" /\ ordersByID' = ordersByID \ {c.order} /\ pooled' = pooled \cup {c.order}
      /\ UNCHANGED <<book, chunks, spare, made, filled, entered>>
  BY DEF Forget
<1>2. c \in Calls /\ c.order \in Orders
  BY <1>1, CallTold
<1>3. d = Idle
  BY ForgetStep
<1> QED
  BY <1>1, <1>2, <1>3, StoryForget

LEMMA StepTells ==
  ASSUME TypeInv, NEW p \in Procs, Step(p), calm', NEW c, c = op[p], Story(c), NEW d, d = op'[p]
  PROVE  Story(d)'
<1>1. CASE OpenLevel(p)
  BY <1>1, OpenLevelTells
<1>2. CASE PassOver(p)
  BY <1>2, PassOverTells
<1>3. CASE StopScan(p) \/ EndScan(p)
  BY <1>3, StopScanTells
<1>4. CASE Match(p) \/ MatchWiped(p)
  BY <1>4, MatchTells, NoneIsWiped
<1>5. CASE CloseLevel(p)
  BY <1>5, CloseLevelTells
<1>6. CASE Sweep(p)
  BY <1>6, SweepTells
<1>7. CASE FindLevel(p)
  BY <1>7, FindLevelTells
<1>8. CASE \E l \in Levels : CreateLevel(p, l)
  BY <1>8, CreateLevelTells
<1>9. CASE Attach(p)
  BY <1>9, AttachTells
<1>10. CASE Register(p)
  BY <1>10, RegisterTells
<1>11. CASE LocateLevel(p)
  BY <1>11, LocateLevelTells
<1>12. CASE RemoveFromLevel(p)
  BY <1>12, RemoveTells
<1>13. CASE DropLevel(p)
  BY <1>13, DropLevelTells
<1>14. CASE Forget(p)
  BY <1>14, ForgetTells
<1>15. CASE Admit(p)
  BY <1>15, AdmitTells
<1> QED
  BY <1>1, <1>2, <1>3, <1>4, <1>5, <1>6, <1>7, <1>8, <1>9, <1>10, <1>11, <1>12, <1>13, <1>14, <1>15
     DEF Step

LEMMA AddOrderTells ==
  ASSUME IInv, NEW p \in Procs, NEW o \in Orders, AddOrder(p, o), Story(Idle), NEW d, d = op'[p]
  PROVE  Story(d)'
<1>1. /\ op[p] = Idle /\ ~Placed(o) /\ entered' = Append(entered, o)
      /\ op' = [op EXCEPT ![p] = [Idle EXCEPT !.pc = "scan", !.order = o]]
      /\ UNCHANGED <<book, chunks, spare, made, filled, ordersByID, pooled>>
  BY DEF AddOrder
<1>2. o \notin pooled
  BY <1>1 DEF IInv, Newcomers, Coming, Known
<1>3. d = Made("scan", o, 0, None, <<>>, {})
  BY <1>1, BegunMade, CallFacts DEF IInv
<1> QED
  BY <1>1, <1>2, <1>3, StoryAdd DEF IInv

LEMMA CancelOrderTells ==
  ASSUME IInv, NEW p \in Procs, NEW o \in Orders, CancelOrder(p, o), Story(Idle), NEW d, d = op'[p]
  PROVE  Story(d)'
<1>1. /\ op[p] = Idle /\ o \in ordersByID
      /\ op' = [op EXCEPT ![p] = [Idle EXCEPT !.pc = "locate", !.order = o]]
      /\ UNCHANGED <<book, chunks, spare, made, filled, ordersByID, pooled, entered>>
  BY DEF CancelOrder
<1>2. d = Made("locate", o, 0, None, <<>>, {})
  BY <1>1, BegunMade, CallFacts DEF IInv
<1>3. Story(d)
  BY <1>1, <1>2, StoryCancel DEF IInv
<1> QED
  BY <1>1, <1>3, StoryStays

-----------------------------------------------------------------------------
\* The only call that is in progress afterwards is the one that took the step.
LEMMA HandedOver ==
  ASSUME NEW p \in Procs, \A q \in Procs \ {p} : op'[q] = Idle, NEW d, d = op'[p], Story(d)'
  PROVE  Quiet'
<1>1. Alone'
  BY DEF Alone
<1>2. \A c \in Calls : Current(c)' => c = d
  BY DEF Current, AllIdle
<1>3. \A c \in Calls : Current(c)' => Story(c)'
  BY <1>2
<1> QED
  BY <1>1, <1>3 DEF Quiet

LEMMA StepStaysQuiet ==
  ASSUME TypeInv, Quiet, NEW p \in Procs, Step(p)
  PROVE  Quiet'
<1> SUFFICES ASSUME calm' PROVE Quiet'
  BY DEF Quiet
<1>1. calm
  BY DEF Step, OpenLevel, Admit, PassOver, StopScan, Match, MatchWiped, CloseLevel, EndScan, Sweep, FindLevel, Attach,
         Register, CreateLevel, LocateLevel, RemoveFromLevel, DropLevel, Forget
<1>2. op[p] # Idle
  <2>1. op[p].pc # "idle"
    BY DEF Step, OpenLevel, Admit, PassOver, StopScan, Match, MatchWiped, CloseLevel, EndScan, Sweep, FindLevel, Attach,
           Register, CreateLevel, LocateLevel, RemoveFromLevel, DropLevel, Forget, Visiting
  <2> QED
    BY <2>1, IdleMade, MadeFields
<1>3. PICK c, d : c = op[p] /\ d = op'[p]
  OBVIOUS
<1>4. c \in Calls /\ Current(c)
  BY <1>2, <1>3, CallTold DEF Current
<1>5. Story(c) /\ Alone
  BY <1>1, <1>4 DEF Quiet
<1>6. Story(d)'
  BY <1>3, <1>5, StepTells
<1>7. \A q \in Procs \ {p} : op'[q] = Idle
  <2>1. Moved(p)
    BY StepSteady DEF Steady
  <2> QED
    BY <1>2, <1>5, <2>1 DEF Moved, Alone
<1> QED
  BY <1>3, <1>6, <1>7, HandedOver

LEMMA BeginStaysQuiet ==
  ASSUME IInv, Quiet, NEW p \in Procs, NEW o \in Orders, AddOrder(p, o) \/ CancelOrder(p, o)
  PROVE  Quiet'
<1> SUFFICES ASSUME calm' PROVE Quiet'
  BY DEF Quiet
<1>1. calm /\ AllIdle
  BY DEF AddOrder, CancelOrder
<1>2. Story(Idle)
  <2>1. Idle \in Calls /\ Current(Idle)
    BY <1>1, IdleMade DEF CallInv, Current
  <2> QED
    BY <1>1, <2>1 DEF Quiet
<1>3. PICK d : d = op'[p]
  OBVIOUS
<1>4. Story(d)'
  BY <1>2, <1>3, AddOrderTells, CancelOrderTells
<1>5. \A q \in Procs \ {p} : op'[q] = Idle
  <2>1. PICK pc \in {"scan", "locate"} : op[p] = Idle /\ op' = [op EXCEPT ![p] = [Idle EXCEPT !.pc = pc, !.order = o]]
    BY DEF AddOrder, CancelOrder
  <2>2. \A q \in Procs \ {p} : op'[q] = op[q]
    BY <2>1, BeginFacts DEF IInv
  <2> QED
    BY <1>1, <2>2 DEF AllIdle
<1> QED
  BY <1>3, <1>4, <1>5, HandedOver

LEMMA QuietInductive == IInv /\ Quiet /\ [Next]_vars => Quiet'
<1> SUFFICES ASSUME IInv, Quiet, [Next]_vars PROVE Quiet'
  OBVIOUS
<1>1. CASE UNCHANGED vars
  <2>1. /\ UNCHANGED <<book, chunks, spare, made, filled, ordersByID, pooled, entered>>
        /\ UNCHANGED <<op, calm>>
    BY <1>1 DEF vars
  <2>2. ASSUME calm', NEW c \in Calls, Current(c)' PROVE Story(c)'
    <3>1. Current(c)
      BY <2>1, <2>2 DEF Current, AllIdle
    <3>2. Story(c)
      BY <2>1, <2>2, <3>1 DEF Quiet
    <3> QED
      BY <2>1, <3>2, StoryStays
  <2>3. calm' => Alone'
    BY <2>1 DEF Quiet, Alone
  <2> QED
    BY <2>2, <2>3 DEF Quiet
<1>2. ASSUME NEW p \in Procs, Step(p) PROVE Quiet'
  BY <1>2, StepStaysQuiet DEF IInv
<1>3. ASSUME NEW p \in Procs, NEW o \in Orders, AddOrder(p, o) \/ CancelOrder(p, o) PROVE Quiet'
  BY <1>3, BeginStaysQuiet
<1> QED
  BY <1>1, <1>2, <1>3 DEF Next

LEMMA QuietInitially == Init => Quiet
<1> SUFFICES ASSUME Init PROVE Quiet
  OBVIOUS
<1>1. AllIdle /\ \A p \in Procs : op[p] = Idle
  BY DEF Init, AllIdle
<1>2. InTree = {} /\ Resting = {}
  <2>1. InTree = {}
    BY DEF Init, InTree
  <2>2. \A o : ~Placed(o)
    BY DEF Init, Placed
  <2> QED
    BY <2>1, <2>2 DEF Resting
<1>3. Slim(<<>>) /\ InOrder(entered, <<>>) /\ Vacated(<<>>) /\ Once(entered)
  BY EmptyChain DEF Init, Slim, InOrder, Vacated, Once
<1>4. Shelf
  BY <1>2, <1>3 DEF Init, Shelf, Tidy, OneLevelEach, LooseAreEmpty
<1>5. Idle.pc = "idle"
  BY IdleMade, MadeFields
<1>6. Listing(Idle) /\ Index(Idle)
  BY <1>2 DEF Init, Listing, Index
<1>7. Stage(Idle)
  BY <1>5 DEF Stage, ScanPcs, RestPcs, CancelPcs
<1>8. Story(Idle)
  BY <1>3, <1>4, <1>6, <1>7 DEF Story
<1>9. \A c \in Calls : Current(c) => c = Idle
  BY <1>1 DEF Current
<1>10. \A c \in Calls : Current(c) => Story(c)
  BY <1>8, <1>9
<1> QED
  BY <1>1, <1>10 DEF Quiet, Alone

\* As long as calls do not overlap, one call at most is in progress, and the trees,
\* the levels, the pool and the index are what its place in AddOrder or CancelOrder
\* says they are.
THEOREM QuietInvariance == Spec => []Quiet
<1> QED
  BY QuietInitially, QuietInductive, Invariance, PTL DEF Spec

-----------------------------------------------------------------------------
\* An order is in a level once, if it is there.
LEMMA ListedOnce ==
  ASSUME NEW b \in Chains, Slim(b), NEW e \in Seq(Orders), Once(e), InOrder(e, b), NEW o,
         NEW S, S = {ki \in (DOMAIN b) \X (1..ChunkSize) : ki[2] \in DOMAIN b[ki[1]] /\ b[ki[1]][ki[2]] = o}
  PROVE  (Ins(o, b) => Cardinality(S) = 1) /\ (~Ins(o, b) => Cardinality(S) = 0)
<1>1. ASSUME ~Ins(o, b) PROVE Cardinality(S) = 0
  <2>1. S = {}
    BY <1>1 DEF Ins
  <2> QED
    BY <2>1, FS_EmptySet
<1>2. ASSUME Ins(o, b) PROVE Cardinality(S) = 1
  <2>1. 1 \in DOMAIN b /\ (\A k \in DOMAIN b : k = 1) /\ b[1] \in Seq(Orders)
    BY <1>2, SlimDomain
  <2>2. PICK i \in DOMAIN b[1] : b[1][i] = o
    BY <1>2, SlimDomain
  <2>3. Len(b[1]) \in Nat /\ DOMAIN b[1] = 1 .. Len(b[1]) /\ Len(b[1]) < ChunkSize /\ ChunkSize \in Nat
    BY <2>1, LenProperties, ChunkAssumption DEF Slim
  <2>4. \A j \in DOMAIN b[1] : j \in 1..ChunkSize
    BY <2>3
  <2>5. ASSUME NEW j \in DOMAIN b[1], b[1][j] = o, j # i PROVE FALSE
    <3>1. i \in Nat /\ j \in Nat
      BY <2>3
    <3>2. i < j \/ j < i
      BY <2>5, <3>1
    <3>3. First(e, o, o)
      BY <2>1, <2>2, <2>5, <3>2 DEF InOrder
    <3> QED
      BY <3>3, FirstStrict
  <2>6. S = {<<1, i>>}
    BY <2>1, <2>2, <2>4, <2>5
  <2> QED
    BY <2>6, FS_Singleton
<1> QED
  BY <1>1, <1>2

LEMMA BookBetweenCalls == IInv /\ Quiet => SerialBook
<1> SUFFICES ASSUME TypeInv, Quiet, calm, AllIdle
             PROVE  /\ ordersByID = Resting
                    /\ \A y \in InTree :
                         /\ ~IsEmpty(chunks[LevelAt(y)]) /\ spare[LevelAt(y)] = 0
                         /\ \A z \in InTree : LevelAt(y) = LevelAt(z) => y = z
                    /\ \A o \in Resting : <<Side[o], Price[o]>> \in InTree
                    /\ \A y \in InTree : \A o \in Orders :
                         Listed(y, o) = IF o \in Resting /\ y = <<Side[o], Price[o]>> THEN 1 ELSE 0
  BY DEF IInv, SerialBook
<1>1. Story(Idle)
  <2>1. Idle \in Calls /\ Current(Idle)
    BY IdleMade DEF CallInv, Current
  <2> QED
    BY <2>1 DEF Quiet
<1>2. Absent(Idle) = {} /\ Unknown(Idle) = {} /\ \A y : ~Emptied(Idle, y)
  <2>1. Idle.pc = "idle"
    BY IdleMade, MadeFields
  <2> QED
    BY <2>1 DEF Absent, Unknown, Emptied, ScanPcs, RestPcs
<1>3. Listing(Idle) /\ Index(Idle) /\ Shelf /\ Once(entered) /\ entered \in Seq(Orders)
  BY <1>1 DEF Story, TypeInv
<1>4. ordersByID = Resting
  BY <1>2, <1>3 DEF Index
<1>5. ASSUME NEW y \in InTree
      PROVE  /\ chunks[LevelAt(y)] \in Chains /\ Slim(chunks[LevelAt(y)]) /\ InOrder(entered, chunks[LevelAt(y)])
             /\ ~IsEmpty(chunks[LevelAt(y)]) /\ spare[LevelAt(y)] = 0
             /\ \A z \in InTree : LevelAt(y) = LevelAt(z) => y = z
  <2>1. chunks[LevelAt(y)] \in Chains /\ LevelAt(y) \in Levels
    BY TreeTypes
  <2>2. Slim(chunks[LevelAt(y)]) /\ InOrder(entered, chunks[LevelAt(y)])
    BY <1>3, <2>1 DEF Shelf, Tidy
  <2>3. ~IsEmpty(chunks[LevelAt(y)])
    <3>1. ~Vacated(chunks[LevelAt(y)])
      BY <1>2, <1>3 DEF Listing
    <3> QED
      BY <2>1, <2>2, <3>1, SlimSeen
  <2> QED
    BY <1>3, <2>1, <2>2, <2>3 DEF Shelf, OneLevelEach
<1>6. ASSUME NEW o \in Resting
      PROVE  <<Side[o], Price[o]>> \in InTree /\ Ins(o, chunks[LevelAt(<<Side[o], Price[o]>>)])
  BY <1>2, <1>3 DEF Listing, Home
<1>7. ASSUME NEW y \in InTree, NEW o \in Orders
      PROVE  Listed(y, o) = IF o \in Resting /\ y = <<Side[o], Price[o]>> THEN 1 ELSE 0
  <2>1. PICK b, e : b = chunks[LevelAt(y)] /\ e = entered
    OBVIOUS
  <2>2. b \in Chains /\ Slim(b) /\ e \in Seq(Orders) /\ Once(e) /\ InOrder(e, b)
    BY <1>3, <1>5, <2>1
  <2>3. PICK S : S = {ki \in (DOMAIN b) \X (1..ChunkSize) : ki[2] \in DOMAIN b[ki[1]] /\ b[ki[1]][ki[2]] = o}
    OBVIOUS
  <2>4. (Ins(o, b) => Cardinality(S) = 1) /\ (~Ins(o, b) => Cardinality(S) = 0)
    BY <2>2, <2>3, ListedOnce
  <2>5. Listed(y, o) = Cardinality(S)
    BY <2>1, <2>3 DEF Listed
  <2>6. Ins(o, b) <=> o \in Resting /\ y = <<Side[o], Price[o]>>
    <3>1. Ins(o, b) => o \in Resting /\ y = <<Side[o], Price[o]>>
      BY <1>2, <1>3, <2>1 DEF Listing, Home
    <3> QED
      BY <1>6, <2>1, <3>1
  <2> QED
    BY <2>4, <2>5, <2>6
<1> QED
  BY <1>4, <1>5, <1>6, <1>7

\* Between calls that do not overlap, the index, the trees and the levels agree:
\* every order with a remainder is listed once, at its own price and side, nothing
\* else is, no level of the trees is empty, lies in the pool or serves two prices
\* (AddOrder, CancelOrder, PriceLevel).
THEOREM BookIsWhole == Spec => []SerialBook
<1> QED
  BY BookBetweenCalls, Invariance, QuietInvariance, PTL

-----------------------------------------------------------------------------
\* While calls do not overlap, the story is that of the call in progress.
LEMMA Underway ==
  ASSUME Quiet, calm, NEW p \in Procs, NEW c \in Calls, c = op[p], c.pc = "trade"
  PROVE  Story(c)
<1>1. c # Idle
  BY IdleMade, MadeFields
<1>2. Current(c)
  BY <1>1 DEF Current
<1> QED
  BY <1>2 DEF Quiet

\* While calls do not overlap, a trade is between the order added last and the
\* maker that the scan has come to.
LEMMA TradeTold ==
  ASSUME IInv, Quiet, calm, NEW p \in Procs, Match(p)
  PROVE  \E c \in Calls : \E m \in Orders :
           /\ c = op[p] /\ c.pc = "trade" /\ Story(c) /\ c.order = Taker /\ c.order \in Orders /\ Left(c.order) > 0
           /\ c.at \in DOMAIN KeyOrder /\ c.level \in Levels /\ c.todo # <<>>
           /\ m = Head(c.todo[LeastOf(DOMAIN c.todo)]) /\ m \in Orders
           /\ Crosses(c.order, KeyOrder[c.at])
           /\ Parties \in SUBSET {c.order, m}
<1>1. PICK c, m : c = op[p] /\ m = NextMaker(p)
  OBVIOUS
<1>2. c.pc = "trade" /\ m = Head(c.todo[LeastOf(DOMAIN c.todo)])
  BY <1>1 DEF Match, NextMaker
<1>3. c \in Calls /\ c.order \in Orders /\ c.at \in DOMAIN KeyOrder /\ c.level \in Levels
  BY <1>1, <1>2, CallTold DEF IInv
<1>4. m \in Orders
  BY <1>1, <1>2, TradingFacts DEF IInv
<1>5. Story(c)
  BY <1>1, <1>2, <1>3, Underway
<1>6. c.order = Taker /\ c.todo # <<>> /\ Left(c.order) > 0 /\ Crosses(c.order, KeyOrder[c.at])
  BY <1>2, <1>5 DEF Story, Stage, ScanPcs
<1>7. Parties \in SUBSET {c.order, m}
  <2>1. PICK n : filled' = [filled EXCEPT ![c.order] = @ + n, ![m] = @ + n]
    BY <1>1 DEF Match
  <2>2. \A o \in Orders : o \notin {c.order, m} => filled'[o] = filled[o]
    BY <2>1 DEF IInv, TypeInv
  <2> QED
    BY <2>2 DEF Parties
<1> QED
  BY <1>1, <1>2, <1>3, <1>4, <1>5, <1>6, <1>7

\* Nothing is executed but by a trade with an order that nobody has wiped.
LEMMA OnlyTrades ==
  ASSUME IInv, Quiet, calm, [Next]_vars, Parties # {}
  PROVE  \E p \in Procs : Match(p)
<1>1. filled' # filled
  BY DEF Parties
<1>2. \E p \in Procs : Match(p) \/ MatchWiped(p)
  BY <1>1 DEF Next, vars, Step, OpenLevel, Admit, PassOver, StopScan, CloseLevel, EndScan, Sweep, FindLevel,
              Attach, Register, CreateLevel, LocateLevel, RemoveFromLevel, DropLevel, Forget,
              AddOrder, CancelOrder
<1>3. ASSUME NEW p \in Procs, MatchWiped(p) PROVE FALSE
  <2>1. PICK c : c = op[p]
    OBVIOUS
  <2>2. c.pc = "trade" /\ c \in Calls
    BY <1>3, <2>1, CallTold DEF MatchWiped, IInv
  <2>3. Story(c)
    BY <2>1, <2>2, Underway
  <2> QED
    BY <1>3, <2>1, <2>3, NoneIsWiped DEF IInv
<1> QED
  BY <1>2, <1>3

LEMMA TradesWithinLimits ==
  ASSUME IInv, Quiet, [Next]_vars, calm, NEW t \in Parties, NEW m \in Parties, t # m
  PROVE  Side[t] # Side[m] /\ (Side[t] = "buy" => Price[t] >= Price[m])
<1>1. PICK p \in Procs : Match(p)
  BY OnlyTrades
<1>2. PICK c \in Calls, w \in Orders :
           /\ c.pc = "trade" /\ Story(c) /\ c.order = Taker /\ c.order \in Orders /\ Left(c.order) > 0
           /\ c.at \in DOMAIN KeyOrder /\ c.level \in Levels /\ c.todo # <<>>
           /\ w = Head(c.todo[LeastOf(DOMAIN c.todo)]) /\ w \in Orders
           /\ Crosses(c.order, KeyOrder[c.at])
           /\ Parties \in SUBSET {c.order, w}
  BY <1>1, TradeTold
<1>3. Side[w] = Opposite(Side[c.order]) /\ Price[w] = KeyOrder[c.at]
  BY <1>2, Maker DEF IInv
<1>4. /\ Side[w] \in {"buy", "sell"} /\ Side[c.order] \in {"buy", "sell"} /\ Side[w] # Side[c.order]
      /\ Price[w] \in Nat /\ Price[c.order] \in Nat
  BY <1>2, <1>3, Sides, HomeTypes, PricesFinite
<1>5. /\ Side[c.order] = "buy" => Price[c.order] >= Price[w]
      /\ Side[w] = "buy" => Price[w] >= Price[c.order]
  BY <1>2, <1>3, <1>4 DEF Crosses
<1>6. (t = c.order /\ m = w) \/ (t = w /\ m = c.order)
  BY <1>2
<1> QED
  BY <1>4, <1>5, <1>6

\* As long as calls do not overlap, a trade is between a buyer and a seller at a
\* price within both limits (AddOrder's loop over the opposite tree, line 745).
THEOREM TradesAreFair == Spec => SerialTrades
<1>1. IInv /\ Quiet /\ [Next]_vars =>
        [calm => \A t, m \in Parties :
           t # m => Side[t] # Side[m] /\ (Side[t] = "buy" => Price[t] >= Price[m])]_vars
  BY TradesWithinLimits
<1> QED
  BY <1>1, Invariance, QuietInvariance, PTL DEF Spec, SerialTrades

LEMMA FirstIsServed ==
  ASSUME IInv, Quiet, [Next]_vars, calm, NEW m \in Parties, NEW o \in Resting, m # Taker,
         Side[o] = Side[m], Price[o] = Price[m], User[o] # User[Taker], Before(o, m)
  PROVE  FALSE
<1>1. PICK p \in Procs : Match(p)
  BY OnlyTrades
<1>2. PICK c \in Calls, w \in Orders :
           /\ c.pc = "trade" /\ Story(c) /\ c.order = Taker /\ c.order \in Orders /\ Left(c.order) > 0
           /\ c.at \in DOMAIN KeyOrder /\ c.level \in Levels /\ c.todo # <<>>
           /\ w = Head(c.todo[LeastOf(DOMAIN c.todo)]) /\ w \in Orders
           /\ Crosses(c.order, KeyOrder[c.at])
           /\ Parties \in SUBSET {c.order, w}
  BY <1>1, TradeTold
<1>3. w = m
  BY <1>2
<1>4. /\ Side[m] = Opposite(Side[c.order]) /\ Price[m] = KeyOrder[c.at]
      /\ \A x : Ins(x, c.todo) => x = m \/ First(entered, m, x)
  BY <1>2, <1>3, Maker DEF IInv
<1>5. AtMakers(c) /\ Listing(c) /\ Once(entered) /\ Absent(c) = {c.order} /\ entered \in Seq(Orders)
  BY <1>2 DEF Story, Stage, Absent, ScanPcs, IInv, TypeInv
<1>6. o \in Orders /\ o # c.order
  BY <1>2, RestingTypes
<1>7. Home(o) = Place(c)
  BY <1>4 DEF Home, Place
<1>8. Ins(o, chunks[c.level])
  BY <1>5, <1>6, <1>7 DEF Listing, AtMakers
<1>9. Ins(o, c.todo)
  BY <1>2, <1>5, <1>6, <1>8 DEF AtMakers
<1>10. First(entered, o, m)
  BY DEF Before, First
<1>11. o # m /\ ~First(entered, m, o)
  BY <1>5, <1>10, FirstStrict
<1> QED
  BY <1>4, <1>9, <1>11

\* As long as calls do not overlap, an order trades only after all orders of other
\* users than the taker that came before it to the same price (PriceLevel.AddOrder
\* appends, Orders() and the loop keep the order).
THEOREM FirstComesFirst == Spec => TimePriority
<1>1. IInv /\ Quiet /\ [Next]_vars =>
        [calm => \A m \in Parties : \A o \in Resting : m # Taker =>
           ~(/\ Side[o] = Side[m] /\ Price[o] = Price[m] /\ User[o] # User[Taker]
             /\ Before(o, m))]_vars
  BY FirstIsServed
<1> QED
  BY <1>1, Invariance, QuietInvariance, PTL DEF Spec, TimePriority

-----------------------------------------------------------------------------
(***************************************************************************)
(* The order in which a scan serves the prices.  What it has passed, the   *)
(* keys before the one it is at and, between two levels, that one too,     *)
(* holds no order with a remainder but the taker's own user's: it copies   *)
(* every level that is in the tree, in the order of the keys, and leaves   *)
(* one only when all in the copy are visited.                              *)
(***************************************************************************)
Passed(c) ==
  c.pc \in {"scan", "visit", "trade"} =>
    \A o \in Resting \ {c.order} : \A i \in DOMAIN KeyOrder :
      /\ Side[o] = Opposite(Side[c.order]) /\ Price[o] = KeyOrder[i]
      /\ i < c.at \/ (c.pc = "scan" /\ i = c.at)
      => User[o] = User[c.order]

NobodyMissed == calm => \A p \in Procs : Passed(op[p])

LEMMA KeyPositions == DOMAIN KeyOrder \in SUBSET (Nat \ {0})
BY KeysAssumption, LenProperties

\* An order with a remainder, on the side that is scanned, is in its level.
LEMMA IsListed ==
  ASSUME TypeInv, NEW c \in Calls, c.pc \in {"scan", "visit"}, c.order \in Orders, Story(c),
         NEW o \in Resting \ {c.order}
  PROVE  /\ o \in Orders /\ book[Side[o]][Price[o]] # None
         /\ Ins(o, chunks[book[Side[o]][Price[o]]])
<1>1. o \in Orders
  BY RestingTypes
<1>2. Absent(c) = {c.order} /\ Listing(c)
  BY DEF Absent, ScanPcs, Story
<1>3. Home(o) \in InTree /\ Ins(o, chunks[LevelAt(Home(o))])
  BY <1>2 DEF Listing
<1> QED
  BY <1>1, <1>3, HomeTypes

LEMMA OpenLevelMissesNobody ==
  ASSUME TypeInv, NEW p \in Procs, OpenLevel(p), NEW c, c = op[p], Story(c), Passed(c),
         NEW d, d = op'[p]
  PROVE  Passed(d)'
<1>1. PICK k : k = LeastOf(Ahead(p))
  OBVIOUS
<1>2. c.pc = "scan" /\ Ahead(p) # {} /\ UNCHANGED <<filled, pooled, entered>>
  BY DEF OpenLevel
<1>3. c \in Calls /\ c.at \in Nat /\ c.order \in Orders
  BY <1>2, CallTold
<1>4. d.pc = "visit" /\ d.order = c.order /\ d.at = k
  BY <1>1, OpenLevelStep, MadeFields
<1>5. Resting' = Resting
  BY <1>2 DEF Resting, Placed, Spent, Left
<1>6. Ahead(p) \in SUBSET Nat /\ k \in Nat /\ \A j \in Ahead(p) : k <= j
  <2>1. Ahead(p) \in SUBSET Nat
    BY KeyPositions DEF Ahead
  <2>2. k \in Ahead(p) /\ \A j \in Ahead(p) : k <= j
    BY <1>1, <1>2, <2>1, LeastIsThere
  <2> QED
    BY <2>1, <2>2
<1>7. ASSUME NEW o \in Resting \ {c.order}, NEW i \in DOMAIN KeyOrder,
             Side[o] = Opposite(Side[c.order]), Price[o] = KeyOrder[i], i < k
      PROVE  User[o] = User[c.order]
  <2>1. i \in Nat
    BY KeyPositions
  <2>2. i \notin Ahead(p)
    BY <1>6, <1>7, <2>1
  <2>3. book[Scanned(p)][KeyOrder[i]] # None
    BY <1>2, <1>3, <1>7, IsListed DEF Scanned
  <2>4. ~(i > c.at)
    BY <2>2, <2>3 DEF Ahead
  <2>5. i < c.at \/ i = c.at
    BY <1>3, <2>1, <2>4
  <2> QED
    BY <1>2, <1>7, <2>5 DEF Passed
<1> QED
  BY <1>4, <1>5, <1>7 DEF Passed

LEMMA LookMissesNobody ==
  ASSUME TypeInv, NEW p \in Procs, Admit(p) \/ PassOver(p), NEW c, c = op[p], Passed(c),
         NEW d, d = op'[p]
  PROVE  Passed(d)'
<1>1. c.pc \in {"visit", "trade"} /\ UNCHANGED <<filled, pooled, entered>>
  BY DEF Admit, PassOver, Visiting
<1>2. d.pc \in {"visit", "trade"} /\ d.order = c.order /\ d.at = c.at
  BY AdmitStep, PassOverStep, MadeFields
<1>3. Resting' = Resting
  BY <1>1 DEF Resting, Placed, Spent, Left
<1> QED
  BY <1>1, <1>2, <1>3 DEF Passed

LEMMA MatchMissesNobody ==
  ASSUME TypeInv, NEW p \in Procs, Match(p), NEW c, c = op[p], Story(c), Passed(c),
         NEW d, d = op'[p]
  PROVE  Passed(d)'
<1>1. PICK m, n : m = NextMaker(p) /\ n = MinOf(Left(c.order), Left(m))
  OBVIOUS
<1>2. /\ c.pc = "trade" /\ c.todo # <<>>
      /\ filled' = [filled EXCEPT ![c.order] = @ + n, ![m] = @ + n]
      /\ pooled \subseteq pooled' /\ entered' = entered
  BY <1>1 DEF Match, Story, Stage
<1>3. c \in Calls /\ c.order \in Orders /\ c.at \in DOMAIN KeyOrder /\ c.level \in Levels
  BY <1>2, CallTold
<1>4. d.pc = "visit" /\ d.order = c.order /\ d.at = c.at
  BY MatchStep, MadeFields
<1>5. m \in Resting
  BY <1>1, <1>2, <1>3, Maker DEF NextMaker
<1>6. \A o \in Orders \ {c.order, m} : filled'[o] = filled[o]
  BY <1>2 DEF TypeInv
<1>7. \A o \in Resting' \ {c.order} : o \in Resting
  <2> SUFFICES ASSUME NEW o \in Resting', o # c.order, o # m PROVE o \in Resting
    BY <1>5
  <2>1. o \in Rests /\ o \in Orders /\ Placed(o)' /\ ~Spent(o)'
    BY OrdersAssumption DEF Resting
  <2>2. Placed(o) /\ Left(o)' = Left(o)
    BY <1>2, <1>6, <2>1 DEF Placed, Left
  <2> QED
    BY <1>2, <2>1, <2>2 DEF Resting, Spent
<1> QED
  BY <1>2, <1>4, <1>7 DEF Passed

LEMMA CloseLevelMissesNobody ==
  ASSUME TypeInv, NEW p \in Procs, CloseLevel(p), NEW c, c = op[p], Story(c), Passed(c),
         NEW d, d = op'[p]
  PROVE  Passed(d)'
<1>1. c.pc = "visit" /\ (c.todo = <<>> \/ Left(c.order) = 0) /\ UNCHANGED <<filled, pooled, entered>>
  BY DEF CloseLevel
<1>2. c \in Calls /\ c.order \in Orders /\ c.at \in DOMAIN KeyOrder /\ c.level \in Levels
  BY <1>1, CallTold
<1>3. PICK g : g = IF IsEmpty(chunks[c.level]) THEN c.gone \cup {KeyOrder[c.at]} ELSE c.gone
  OBVIOUS
<1>4. d = IF Left(c.order) = 0 THEN After(c.order, g) ELSE Made("scan", c.order, c.at, None, <<>>, g)
  BY <1>3, CloseLevelStep DEF ScannedPrice
<1>5. CASE Left(c.order) = 0
  <2>1. d.pc \in {"sweep", "find", "idle"}
    BY <1>4, <1>5, IdleMade, MadeFields DEF After
  <2> QED
    BY <2>1 DEF Passed
<1>6. CASE Left(c.order) # 0
  <2>1. d.pc = "scan" /\ d.order = c.order /\ d.at = c.at
    BY <1>4, <1>6, MadeFields
  <2>2. Resting' = Resting
    BY <1>1 DEF Resting, Placed, Spent, Left
  <2>3. ASSUME NEW o \in Resting \ {c.order}, Side[o] = Opposite(Side[c.order]), Price[o] = KeyOrder[c.at]
        PROVE  User[o] = User[c.order]
    <3>1. AtMakers(c) /\ c.todo = <<>>
      BY <1>1, <1>6 DEF Story, Stage
    <3>2. c.level = book[Side[o]][Price[o]]
      BY <2>3, <3>1 DEF AtMakers, Place, LevelAt
    <3>3. o \in Orders /\ Ins(o, chunks[c.level])
      BY <1>1, <1>2, <2>3, <3>2, IsListed
    <3>4. ~Ins(o, c.todo)
      BY <3>1, EmptyChain
    <3> QED
      BY <1>6, <3>1, <3>3, <3>4 DEF AtMakers
  <2> QED
    BY <1>1, <2>1, <2>2, <2>3 DEF Passed
<1> QED
  BY <1>5, <1>6

\* Any other step leaves a call that does not scan.
LEMMA OthersDoNotScan ==
  ASSUME TypeInv, NEW p \in Procs, Step(p), ~OpenLevel(p), ~Admit(p), ~PassOver(p), ~Match(p), ~MatchWiped(p), ~CloseLevel(p),
         NEW d, d = op'[p]
  PROVE  Passed(d)'
<1>1. d.pc \notin {"scan", "visit", "trade"}
  <2>1. CASE StopScan(p) \/ EndScan(p)
    <3>1. op'[p] = After(op[p].order, op[p].gone)
      BY <2>1, StopScanStep
    <3> QED
      BY <3>1, IdleMade, MadeFields DEF After
  <2>2. CASE Sweep(p)
    BY <2>2, SweepStep, IdleMade, MadeFields DEF After
  <2>3. CASE FindLevel(p)
    BY <2>3, FindLevelStep, MadeFields
  <2>4. CASE \E l \in Levels : CreateLevel(p, l)
    BY <2>4, CreateLevelStep, MadeFields
  <2>5. CASE Attach(p)
    BY <2>5, AttachStep, MadeFields
  <2>6. CASE Register(p)
    BY <2>6, RegisterStep, IdleMade, MadeFields
  <2>7. CASE LocateLevel(p)
    BY <2>7, LocateLevelStep, MadeFields
  <2>8. CASE RemoveFromLevel(p)
    BY <2>8, RemoveStep, MadeFields
  <2>9. CASE DropLevel(p)
    BY <2>9, DropLevelStep, MadeFields
  <2>10. CASE Forget(p)
    BY <2>10, ForgetStep, IdleMade, MadeFields
  <2> QED
    BY <2>1, <2>2, <2>3, <2>4, <2>5, <2>6, <2>7, <2>8, <2>9, <2>10 DEF Step
<1> QED
  BY <1>1 DEF Passed

LEMMA StepMissesNobody ==
  ASSUME TypeInv, NEW p \in Procs, Step(p), NEW c, c = op[p], Story(c), Passed(c), NEW d, d = op'[p]
  PROVE  Passed(d)'
BY OpenLevelMissesNobody, LookMissesNobody, MatchMissesNobody, NoneIsWiped, CloseLevelMissesNobody,
   OthersDoNotScan

\* The only call that is in progress afterwards has passed over nobody.
LEMMA NobodyElse ==
  ASSUME NEW p \in Procs, \A q \in Procs \ {p} : op'[q] = Idle, NEW d, d = op'[p], Passed(d)'
  PROVE  NobodyMissed'
<1>1. Idle.pc = "idle"
  BY IdleMade, MadeFields
<1>2. Passed(Idle)'
  BY <1>1 DEF Passed
<1>3. ASSUME NEW q \in Procs PROVE (Passed(op[q]))'
  <2>1. CASE q = p
    BY <2>1
  <2>2. CASE q # p
    BY <1>2, <2>2
  <2> QED
    BY <2>1, <2>2
<1> QED
  BY <1>3 DEF NobodyMissed

LEMMA StepPassesNobody ==
  ASSUME TypeInv, Quiet, NobodyMissed, NEW p \in Procs, Step(p)
  PROVE  NobodyMissed'
<1> SUFFICES ASSUME calm' PROVE NobodyMissed'
  BY DEF NobodyMissed
<1>1. calm
  BY DEF Step, OpenLevel, Admit, PassOver, StopScan, Match, MatchWiped, CloseLevel, EndScan, Sweep, FindLevel, Attach,
         Register, CreateLevel, LocateLevel, RemoveFromLevel, DropLevel, Forget
<1>2. op[p] # Idle
  <2>1. op[p].pc # "idle"
    BY DEF Step, OpenLevel, Admit, PassOver, StopScan, Match, MatchWiped, CloseLevel, EndScan, Sweep, FindLevel, Attach,
           Register, CreateLevel, LocateLevel, RemoveFromLevel, DropLevel, Forget, Visiting
  <2> QED
    BY <2>1, IdleMade, MadeFields
<1>3. PICK c, d : c = op[p] /\ d = op'[p]
  OBVIOUS
<1>4. c \in Calls /\ Current(c)
  BY <1>2, <1>3, CallTold DEF Current
<1>5. Story(c) /\ Alone /\ Passed(c)
  BY <1>1, <1>3, <1>4 DEF Quiet, NobodyMissed
<1>6. Passed(d)'
  BY <1>3, <1>5, StepMissesNobody
<1>7. \A q \in Procs \ {p} : op'[q] = Idle
  <2>1. Moved(p)
    BY StepSteady DEF Steady
  <2> QED
    BY <1>2, <1>5, <2>1 DEF Moved, Alone
<1> QED
  BY <1>3, <1>6, <1>7, NobodyElse

LEMMA BeginPassesNobody ==
  ASSUME TypeInv, NEW p \in Procs, NEW o \in Orders, AddOrder(p, o) \/ CancelOrder(p, o)
  PROVE  NobodyMissed'
<1> SUFFICES ASSUME calm' PROVE NobodyMissed'
  BY DEF NobodyMissed
<1>1. AllIdle
  BY DEF AddOrder, CancelOrder
<1>2. PICK pc \in {"scan", "locate"} :
         op[p] = Idle /\ op' = [op EXCEPT ![p] = [Idle EXCEPT !.pc = pc, !.order = o]]
  BY DEF AddOrder, CancelOrder
<1>3. \A q \in Procs \ {p} : op'[q] = Idle
  BY <1>1, <1>2, BeginFacts DEF AllIdle
<1>4. PICK d : d = op'[p]
  OBVIOUS
<1>5. d = Made(pc, o, 0, None, <<>>, {})
  BY <1>2, <1>4, BegunMade, CallFacts
<1>6. d.at = 0
  BY <1>5, MadeFields
<1>7. \A i \in DOMAIN KeyOrder : ~(i < d.at) /\ i # d.at
  BY <1>6, KeyPositions
<1>8. Passed(d)'
  BY <1>7 DEF Passed
<1> QED
  BY <1>3, <1>4, <1>8, NobodyElse

LEMMA NobodyMissedInductive == IInv /\ Quiet /\ NobodyMissed /\ [Next]_vars => NobodyMissed'
<1> SUFFICES ASSUME IInv, Quiet, NobodyMissed, [Next]_vars PROVE NobodyMissed'
  OBVIOUS
<1>1. CASE UNCHANGED vars
  <2>1. Resting' = Resting /\ UNCHANGED <<op, calm>>
    BY <1>1 DEF vars, Resting, Placed, Spent, Left
  <2>2. \A c : Passed(c) => Passed(c)'
    BY <2>1 DEF Passed
  <2> QED
    BY <2>1, <2>2 DEF NobodyMissed
<1>2. ASSUME NEW p \in Procs, Step(p) PROVE NobodyMissed'
  BY <1>2, StepPassesNobody DEF IInv
<1>3. ASSUME NEW p \in Procs, NEW o \in Orders, AddOrder(p, o) \/ CancelOrder(p, o)
      PROVE  NobodyMissed'
  BY <1>3, BeginPassesNobody DEF IInv
<1> QED
  BY <1>1, <1>2, <1>3 DEF Next

LEMMA NobodyMissedInitially == Init => NobodyMissed
<1> SUFFICES ASSUME Init PROVE \A p \in Procs : Passed(op[p])
  BY DEF NobodyMissed
<1>1. Idle.pc = "idle" /\ \A p \in Procs : op[p] = Idle
  BY IdleMade, MadeFields DEF Init
<1> QED
  BY <1>1 DEF Passed

THEOREM NobodyMissedInvariance == Spec => []NobodyMissed
<1> QED
  BY NobodyMissedInitially, NobodyMissedInductive, Invariance, QuietInvariance, PTL DEF Spec

LEMMA PricesComeInOrder ==
  ASSUME IInv, Quiet, NobodyMissed, [Next]_vars, calm, NEW m \in Parties, NEW o \in Resting,
         m # Taker, Side[o] = Side[m], User[o] # User[Taker], KeyBefore(Price[o], Price[m])
  PROVE  FALSE
<1>1. PICK p \in Procs : Match(p)
  BY OnlyTrades
<1>2. PICK c : c = op[p]
  OBVIOUS
<1>3. PICK w \in Orders :
           /\ c.pc = "trade" /\ c \in Calls /\ Story(c) /\ c.order = Taker /\ c.order \in Orders
           /\ c.at \in DOMAIN KeyOrder /\ c.level \in Levels /\ c.todo # <<>>
           /\ w = Head(c.todo[LeastOf(DOMAIN c.todo)])
           /\ Parties \in SUBSET {c.order, w}
  BY <1>1, <1>2, TradeTold
<1>4. w = m
  BY <1>3
<1>5. Side[m] = Opposite(Side[c.order]) /\ Price[m] = KeyOrder[c.at]
  BY <1>3, <1>4, Maker DEF IInv
<1>6. PICK i, j \in DOMAIN KeyOrder : i < j /\ KeyOrder[i] = Price[o] /\ KeyOrder[j] = Price[m]
  BY DEF KeyBefore
<1>7. i < c.at
  BY <1>3, <1>5, <1>6, KeysAssumption
<1>8. o # c.order
  BY <1>3
<1>9. Passed(c)
  BY <1>2 DEF NobodyMissed
<1> QED
  BY <1>3, <1>5, <1>6, <1>7, <1>8, <1>9 DEF Passed

\* As long as calls do not overlap, an order trades only when no order of another
\* user than the taker waits at a key that comes before its own: the scan of
\* AddOrder (line 720) copies every level it comes to and leaves none before its
\* makers are visited.
THEOREM PricesInKeyOrder == Spec => FirstKeyFirst
<1>1. IInv /\ Quiet /\ NobodyMissed /\ [Next]_vars =>
        [calm => \A m \in Parties : \A o \in Resting : m # Taker =>
           ~(Side[o] = Side[m] /\ User[o] # User[Taker] /\ KeyBefore(Price[o], Price[m]))]_vars
  BY PricesComeInOrder
<1> QED
  BY <1>1, Invariance, QuietInvariance, NobodyMissedInvariance, PTL DEF Spec, FirstKeyFirst

\* If the texts of the prices are in the order of the numbers, as with prices of the
\* same width, a buyer is served the cheapest sale first.
Ascending == \A i, j \in DOMAIN KeyOrder : i < j => KeyOrder[i] < KeyOrder[j]

CheapestSaleFirst ==
  [][calm => \A m \in Parties : \A o \in Resting : m # Taker /\ Side[m] = "sell" =>
       ~(Side[o] = Side[m] /\ User[o] # User[Taker] /\ Better(o, m))]_vars

LEMMA CheaperKeyBefore ==
  ASSUME Ascending, NEW o \in Orders, NEW m \in Orders, Price[o] < Price[m]
  PROVE  KeyBefore(Price[o], Price[m])
<1>1. PICK i, j \in DOMAIN KeyOrder : KeyOrder[i] = Price[o] /\ KeyOrder[j] = Price[m]
  BY OrdersAssumption DEF Prices
<1>2. i \in Nat /\ j \in Nat /\ KeyOrder[i] \in Nat /\ KeyOrder[j] \in Nat
  BY KeyPositions, PricesFinite DEF Prices
<1>3. ~(j < i) /\ i # j
  BY <1>1, <1>2 DEF Ascending
<1>4. i < j
  BY <1>2, <1>3
<1> QED
  BY <1>1, <1>4 DEF KeyBefore

\* README.md:59 promises price-time priority: where the order of the texts is the
\* order of the numbers, a buyer has it. A seller then has the opposite: the scan of
\* the bids ascends as well (run OB_priority).
THEOREM BuyersGetTheBestPrice ==
  ASSUME Ascending
  PROVE  Spec => CheapestSaleFirst
<1>1. Parties \in SUBSET Orders /\ Resting \in SUBSET Orders
  BY RestingTypes DEF Parties
<1>2. IInv /\ Quiet /\ NobodyMissed /\ [Next]_vars =>
        [calm => \A m \in Parties : \A o \in Resting : m # Taker /\ Side[m] = "sell" =>
           ~(Side[o] = Side[m] /\ User[o] # User[Taker] /\ Better(o, m))]_vars
  BY <1>1, PricesComeInOrder, CheaperKeyBefore DEF Better
<1> QED
  BY <1>2, Invariance, QuietInvariance, NobodyMissedInvariance, PTL DEF Spec, CheapestSaleFirst

-----------------------------------------------------------------------------
(***************************************************************************)
(* Who can hold everyone up.  A call that visits makers waits for nothing, *)
(* so that a tree is held by a scan that waits for a level, and a level by *)
(* a CancelOrder that waits for a tree.                                    *)
(***************************************************************************)
StandOff == ~AllIdle /\ \A p \in Procs : op[p] = Idle \/ Waits(p)

CancelHoldsScan ==
  \E p, q \in Procs :
    /\ op[p].pc = "drop" /\ op[q].pc = "scan" /\ Ahead(q) # {} /\ NextLevel(q) = op[p].level

LEMMA NobodyVisits ==
  ASSUME StandOff, NEW p \in Procs, op[p].pc # "idle"
  PROVE  Waits(p) /\ op[p].pc \notin {"visit", "trade"}
<1>1. op[p] # Idle
  BY IdleMade, MadeFields
<1>2. Waits(p)
  BY <1>1 DEF StandOff
<1> QED
  BY <1>2 DEF Waits, WantsTree

LEMMA WaitingScan ==
  ASSUME StandOff, NEW q \in Procs, op[q].pc = "scan"
  PROVE  CancelHoldsScan
<1>1. Ahead(q) # {} /\ ~LevelFree(NextLevel(q))
  BY NobodyVisits DEF Waits, WantsTree
<1>2. PICK p \in Procs : op[p].pc \in {"visit", "trade", "drop"} /\ op[p].level = NextLevel(q)
  BY <1>1 DEF LevelFree
<1>3. op[p].pc = "drop"
  BY <1>2, NobodyVisits
<1> QED
  BY <1>1, <1>2, <1>3 DEF CancelHoldsScan

LEMMA HeldTree ==
  ASSUME StandOff, NEW s, ~TreeFree(s)
  PROVE  CancelHoldsScan
<1>1. PICK q \in Procs : Scanning(q)
  BY DEF TreeFree
<1>2. op[q].pc = "scan"
  BY <1>1, NobodyVisits DEF Scanning
<1> QED
  BY <1>2, WaitingScan

LEMMA HeldLevel ==
  ASSUME StandOff, NEW l, ~LevelFree(l)
  PROVE  CancelHoldsScan
<1>1. PICK p \in Procs : op[p].pc \in {"visit", "trade", "drop"}
  BY DEF LevelFree
<1>2. op[p].pc = "drop" /\ Waits(p)
  BY <1>1, NobodyVisits
<1>3. PICK s : ~TreeFree(s)
  BY <1>2 DEF Waits
<1> QED
  BY <1>3, HeldTree

LEMMA CancelsStandOff == OnlyCancelsStandOff
<1> SUFFICES ASSUME StandOff PROVE CancelHoldsScan
  BY DEF OnlyCancelsStandOff, StandOff, CancelHoldsScan
<1>1. PICK p \in Procs : op[p] # Idle /\ Waits(p)
  BY DEF StandOff, AllIdle
<1>2. CASE op[p].pc = "scan"
  BY <1>2, WaitingScan
<1>3. CASE \E s : ~TreeFree(s)
  BY <1>3, HeldTree
<1>4. CASE \E l : ~LevelFree(l)
  BY <1>4, HeldLevel
<1> QED
  BY <1>1, <1>2, <1>3, <1>4 DEF Waits, ReadBarred

\* line 359, "All locks acquired in B-tree -> PriceLevel order": only a CancelOrder
\* that has kept the mutex of a level for the lock of its tree (line 952) can close
\* a circle of waiting calls, and only with a scan that wants that level.
THEOREM StandOffNeedsACancel == Spec => []OnlyCancelsStandOff
<1>1. OnlyCancelsStandOff
  BY CancelsStandOff
<1> QED
  BY <1>1, PTL

=============================================================================
