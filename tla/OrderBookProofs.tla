--------------------------- MODULE OrderBookProofs --------------------------
(***************************************************************************)
(* Every column of every book stays in order, for any set of prices, sizes,*)
(* depths, symbols and ids.  The three ways an update can change a column  *)
(* are lemmas about one column; the state machine only carries them.       *)
(***************************************************************************)
EXTENDS OrderBook, SequenceTheorems, FiniteSetTheorems, TLAPS

(* Better on one side is the comparator of that side, a strict order.      *)
LEMMA BeforeIsBetter ==
    ASSUME NEW side, NEW p, NEW q
    PROVE  Before(side, p, q) <=> Better(<<side, p>>, <<side, q>>)
BY DEF Before, Better

LEMMA BeforeTransitive ==
    ASSUME NEW side, NEW p \in Prices, NEW q \in Prices, NEW r \in Prices,
           Before(side, p, q), Before(side, q, r)
    PROVE  Before(side, p, r)
BY PricesAssumption DEF Before

(* InOrder, said with the comparator.                                      *)
LEMMA InOrderBefore ==
    ASSUME NEW side, NEW c
    PROVE  InOrder(side, c) <=>
              /\ Len(c.sizes) = Len(c.prices)
              /\ \A i, j \in DOMAIN c.prices : i < j => Before(side, c.prices[i], c.prices[j])
              /\ \A i \in DOMAIN c.sizes : c.sizes[i] > 0
BY BeforeIsBetter DEF InOrder

LEMMA ColumnFields ==
    ASSUME NEW c \in Columns
    PROVE  /\ c.prices \in Seq(Prices) /\ c.sizes \in Seq(Sizes)
           /\ DOMAIN c.prices = 1 .. Len(c.prices) /\ Len(c.prices) \in Nat
           /\ DOMAIN c.sizes = 1 .. Len(c.sizes) /\ Len(c.sizes) \in Nat
BY DEF Columns

(* The elements of a sequence with one removed, or one inserted.           *)
LEMMA RemoveAtElements ==
    ASSUME NEW S, NEW q \in Seq(S), NEW i \in 1 .. Len(q)
    PROVE  /\ RemoveAt(q, i) \in Seq(S)
           /\ Len(RemoveAt(q, i)) = Len(q) - 1
           /\ \A j \in 1 .. Len(q) - 1 :
                 RemoveAt(q, i)[j] = IF j < i THEN q[j] ELSE q[j + 1]
<1> DEFINE u == SubSeq(q, 1, i - 1)
<1> DEFINE w == SubSeq(q, i + 1, Len(q))
<1>1. u \in Seq(S) /\ Len(u) = i - 1 /\ \A j \in 1 .. i - 1 : u[j] = q[j]
  OBVIOUS
<1>2. w \in Seq(S) /\ Len(w) = Len(q) - i /\ \A j \in 1 .. Len(q) - i : w[j] = q[i + j]
  OBVIOUS
<1>3. RemoveAt(q, i) = u \o w
  BY DEF RemoveAt
<1> HIDE DEF u, w
<1>4. u \o w \in Seq(S) /\ Len(u \o w) = Len(q) - 1
  BY <1>1, <1>2
<1>5. \A j \in 1 .. Len(q) - 1 : (u \o w)[j] = IF j < i THEN u[j] ELSE w[j - (i - 1)]
  BY <1>1, <1>2
<1>6. \A j \in 1 .. Len(q) - 1 : (u \o w)[j] = IF j < i THEN q[j] ELSE q[j + 1]
  <2> SUFFICES ASSUME NEW j \in 1 .. Len(q) - 1
               PROVE  (u \o w)[j] = IF j < i THEN q[j] ELSE q[j + 1]
    OBVIOUS
  <2>1. CASE j < i
    BY <2>1, <1>1, <1>5
  <2>2. CASE ~(j < i)
    <3>1. j - (i - 1) \in 1 .. Len(q) - i /\ i + (j - (i - 1)) = j + 1
      BY <2>2
    <3>2. QED
      BY <2>2, <3>1, <1>2, <1>5
  <2>3. QED
    BY <2>1, <2>2
<1>7. QED
  BY <1>3, <1>4, <1>6

(* r is q with e put in front of its i-th element.                         *)
IsInsertion(r, q, i, e) ==
    /\ Len(r) = Len(q) + 1
    /\ \A j \in 1 .. Len(q) + 1 :
          r[j] = IF j < i THEN q[j] ELSE IF j = i THEN e ELSE q[j - 1]

LEMMA InsertAtElements ==
    ASSUME NEW S, NEW q \in Seq(S), NEW i \in 1 .. Len(q) + 1, NEW e \in S
    PROVE  InsertAt(q, i, e) \in Seq(S) /\ IsInsertion(InsertAt(q, i, e), q, i, e)
<1> DEFINE u == SubSeq(q, 1, i - 1)
<1> DEFINE w == SubSeq(q, i, Len(q))
<1>0. Len(q) \in Nat /\ i \in Int
  OBVIOUS
<1>1. u \in Seq(S) /\ Len(u) = i - 1 /\ \A j \in 1 .. i - 1 : u[j] = q[j]
  OBVIOUS
<1>2. w \in Seq(S) /\ Len(w) = Len(q) - i + 1
      /\ \A j \in 1 .. Len(q) - i + 1 : w[j] = q[i + j - 1]
  OBVIOUS
<1>3. InsertAt(q, i, e) = (u \o <<e>>) \o w
  BY DEF InsertAt
<1> DEFINE x == u \o <<e>>
<1> HIDE DEF u, w
<1>4. /\ x \in Seq(S) /\ Len(x) = i
      /\ \A j \in 1 .. i - 1 : x[j] = q[j]
      /\ x[i] = e
  BY <1>1
<1> HIDE DEF x
<1>5. x \o w \in Seq(S) /\ Len(x \o w) = Len(q) + 1
  <2>1. x \o w \in Seq(S) /\ Len(x \o w) = Len(x) + Len(w)
    <3>1. x \in Seq(S) /\ w \in Seq(S)
      BY <1>2, <1>4
    <3>2. QED
      BY <3>1, ConcatProperties
  <2>2. QED
    BY <2>1, <1>0, <1>2, <1>4
<1>6. \A j \in 1 .. Len(q) + 1 : (x \o w)[j] = IF j <= i THEN x[j] ELSE w[j - i]
  BY <1>2, <1>4
<1>7. \A j \in 1 .. Len(q) + 1 :
         (x \o w)[j] = IF j < i THEN q[j] ELSE IF j = i THEN e ELSE q[j - 1]
  <2> SUFFICES ASSUME NEW j \in 1 .. Len(q) + 1
               PROVE  (x \o w)[j] = IF j < i THEN q[j] ELSE IF j = i THEN e ELSE q[j - 1]
    OBVIOUS
  <2>1. CASE j < i
    BY <2>1, <1>4, <1>6
  <2>2. CASE j = i
    BY <2>2, <1>4, <1>6
  <2>3. CASE j > i
    <3>1. j - i \in 1 .. Len(q) - i + 1 /\ i + (j - i) - 1 = j - 1
      BY <2>3
    <3>2. w[j - i] = q[j - 1]
      BY <3>1, <1>2
    <3>3. (x \o w)[j] = w[j - i]
      <4>1. ~(j <= i)
        BY <2>3, <1>0
      <4>2. QED
        BY <4>1, <1>6
    <3>4. QED
      BY <2>3, <3>2, <3>3
  <2>4. j < i \/ j = i \/ j > i
    BY <1>0
  <2>5. QED
    BY <2>1, <2>2, <2>3, <2>4
<1>8. QED
  BY <1>3, <1>5, <1>7 DEF x, IsInsertion

-----------------------------------------------------------------------------
(* The three ways to change a column, and the cut, keep it in order.       *)
LEMMA RemoveKeepsOrder ==
    ASSUME NEW side, NEW c \in Columns, InOrder(side, c), NEW i \in DOMAIN c.prices
    PROVE  RemoveLevel(c, i) \in Columns /\ InOrder(side, RemoveLevel(c, i))
<1> DEFINE P == RemoveAt(c.prices, i)
<1> DEFINE Q == RemoveAt(c.sizes, i)
<1>1. /\ Len(c.sizes) = Len(c.prices)
      /\ \A j, k \in DOMAIN c.prices : j < k => Before(side, c.prices[j], c.prices[k])
      /\ \A j \in DOMAIN c.sizes : c.sizes[j] > 0
  BY InOrderBefore
<1>2. /\ c.prices \in Seq(Prices) /\ c.sizes \in Seq(Sizes)
      /\ Len(c.prices) \in Nat
      /\ DOMAIN c.prices = 1 .. Len(c.prices) /\ DOMAIN c.sizes = 1 .. Len(c.prices)
  BY ColumnFields, <1>1
<1>3. i \in 1 .. Len(c.prices) /\ i \in 1 .. Len(c.sizes)
  BY <1>1, <1>2
<1>4. /\ P \in Seq(Prices) /\ Len(P) = Len(c.prices) - 1
      /\ \A j \in 1 .. Len(c.prices) - 1 :
            P[j] = IF j < i THEN c.prices[j] ELSE c.prices[j + 1]
  BY <1>2, <1>3, RemoveAtElements
<1>5. /\ Q \in Seq(Sizes) /\ Len(Q) = Len(c.prices) - 1
      /\ \A j \in 1 .. Len(c.prices) - 1 :
            Q[j] = IF j < i THEN c.sizes[j] ELSE c.sizes[j + 1]
  <2>1. /\ RemoveAt(c.sizes, i) \in Seq(Sizes)
        /\ Len(RemoveAt(c.sizes, i)) = Len(c.sizes) - 1
        /\ \A j \in 1 .. Len(c.sizes) - 1 :
              RemoveAt(c.sizes, i)[j] = IF j < i THEN c.sizes[j] ELSE c.sizes[j + 1]
    BY <1>2, <1>3, RemoveAtElements
  <2>2. QED
    BY <2>1, <1>1
<1>6. RemoveLevel(c, i) = [prices |-> P, sizes |-> Q]
  BY DEF RemoveLevel
<1> HIDE DEF P, Q
<1>7. DOMAIN P = 1 .. Len(c.prices) - 1 /\ DOMAIN Q = 1 .. Len(c.prices) - 1
  BY <1>2, <1>4, <1>5
<1>8. ASSUME NEW j \in DOMAIN P, NEW k \in DOMAIN P, j < k
      PROVE  Before(side, P[j], P[k])
  <2> DEFINE J == IF j < i THEN j ELSE j + 1
  <2> DEFINE K == IF k < i THEN k ELSE k + 1
  <2>1. P[j] = c.prices[J] /\ P[k] = c.prices[K]
    BY <1>4, <1>7
  <2>2. J \in DOMAIN c.prices /\ K \in DOMAIN c.prices /\ J < K
    BY <1>2, <1>3, <1>7, <1>8
  <2>3. QED
    BY <2>1, <2>2, <1>1
<1>9. ASSUME NEW j \in DOMAIN Q
      PROVE  Q[j] > 0
  <2> DEFINE J == IF j < i THEN j ELSE j + 1
  <2>1. Q[j] = c.sizes[J]
    BY <1>5, <1>7
  <2>2. J \in DOMAIN c.sizes
    BY <1>2, <1>3, <1>7
  <2>3. QED
    BY <2>1, <2>2, <1>1
<1>10. RemoveLevel(c, i) \in Columns
  BY <1>4, <1>5, <1>6 DEF Columns
<1>11. QED
  BY <1>4, <1>5, <1>6, <1>8, <1>9, <1>10, InOrderBefore

LEMMA InsertKeepsOrder ==
    ASSUME NEW side, NEW c \in Columns, InOrder(side, c),
           NEW p \in Prices, NEW s \in Sizes, s > 0,
           NEW i \in 1 .. Len(c.prices) + 1, FitsAt(c, side, p, i)
    PROVE  InsertLevel(c, i, p, s) \in Columns /\ InOrder(side, InsertLevel(c, i, p, s))
<1> DEFINE P == InsertAt(c.prices, i, p)
<1> DEFINE Q == InsertAt(c.sizes, i, s)
<1>1. /\ Len(c.sizes) = Len(c.prices)
      /\ \A j, k \in DOMAIN c.prices : j < k => Before(side, c.prices[j], c.prices[k])
      /\ \A j \in DOMAIN c.sizes : c.sizes[j] > 0
  BY InOrderBefore
<1>2. /\ c.prices \in Seq(Prices) /\ c.sizes \in Seq(Sizes)
      /\ Len(c.prices) \in Nat
      /\ DOMAIN c.prices = 1 .. Len(c.prices) /\ DOMAIN c.sizes = 1 .. Len(c.prices)
  BY ColumnFields, <1>1
<1>3. /\ P \in Seq(Prices) /\ Len(P) = Len(c.prices) + 1
      /\ \A j \in 1 .. Len(c.prices) + 1 :
            P[j] = IF j < i THEN c.prices[j] ELSE IF j = i THEN p ELSE c.prices[j - 1]
  <2>1. InsertAt(c.prices, i, p) \in Seq(Prices) /\ IsInsertion(InsertAt(c.prices, i, p), c.prices, i, p)
    BY <1>2, InsertAtElements
  <2>2. QED
    BY <2>1 DEF IsInsertion
<1>4. /\ Q \in Seq(Sizes) /\ Len(Q) = Len(c.prices) + 1
      /\ \A j \in 1 .. Len(c.prices) + 1 :
            Q[j] = IF j < i THEN c.sizes[j] ELSE IF j = i THEN s ELSE c.sizes[j - 1]
  <2>1. i \in 1 .. Len(c.sizes) + 1
    BY <1>1
  <2>2. InsertAt(c.sizes, i, s) \in Seq(Sizes) /\ IsInsertion(InsertAt(c.sizes, i, s), c.sizes, i, s)
    BY <1>2, <2>1, InsertAtElements
  <2>3. QED
    BY <2>2, <1>1 DEF IsInsertion
<1>5. InsertLevel(c, i, p, s) = [prices |-> P, sizes |-> Q]
  BY DEF InsertLevel
<1> HIDE DEF P, Q
<1>6. DOMAIN P = 1 .. Len(c.prices) + 1 /\ DOMAIN Q = 1 .. Len(c.prices) + 1
  BY <1>2, <1>3, <1>4
<1>7. /\ \A j \in DOMAIN c.prices : j < i => Before(side, c.prices[j], p)
      /\ \A j \in DOMAIN c.prices : ~(j < i) => Before(side, p, c.prices[j])
  BY DEF FitsAt
<1>8. ASSUME NEW j \in DOMAIN P, NEW k \in DOMAIN P, j < k
      PROVE  Before(side, P[j], P[k])
  <2>0. j \in 1 .. Len(c.prices) + 1 /\ k \in 1 .. Len(c.prices) + 1
    BY <1>6
  <2>1. CASE j # i /\ k # i
    <3> DEFINE J == IF j < i THEN j ELSE j - 1
    <3> DEFINE K == IF k < i THEN k ELSE k - 1
    <3>1. P[j] = c.prices[J] /\ P[k] = c.prices[K]
      BY <1>3, <2>0, <2>1
    <3>2. J \in DOMAIN c.prices /\ K \in DOMAIN c.prices /\ J < K
      BY <1>2, <2>0, <2>1, <1>8
    <3>3. QED
      BY <3>1, <3>2, <1>1
  <2>2. CASE j = i
    <3>1. P[j] = p /\ P[k] = c.prices[k - 1]
      BY <1>2, <1>3, <2>0, <2>2, <1>8
    <3>2. k - 1 \in DOMAIN c.prices /\ ~(k - 1 < i)
      BY <1>2, <2>0, <2>2, <1>8
    <3>3. QED
      BY <3>1, <3>2, <1>7
  <2>3. CASE k = i
    <3>1. P[j] = c.prices[j] /\ P[k] = p
      BY <1>2, <1>3, <2>0, <2>3, <1>8
    <3>2. j \in DOMAIN c.prices /\ j < i
      BY <1>2, <2>0, <2>3, <1>8
    <3>3. QED
      BY <3>1, <3>2, <1>7
  <2>4. QED
    BY <2>1, <2>2, <2>3
<1>9. ASSUME NEW j \in DOMAIN Q
      PROVE  Q[j] > 0
  <2>0. j \in 1 .. Len(c.prices) + 1
    BY <1>6
  <2>1. CASE j = i
    BY <2>0, <2>1, <1>4
  <2>2. CASE j # i
    <3> DEFINE J == IF j < i THEN j ELSE j - 1
    <3>1. Q[j] = c.sizes[J]
      BY <1>4, <2>0, <2>2
    <3>2. J \in DOMAIN c.sizes
      BY <1>2, <2>0, <2>2
    <3>3. QED
      BY <3>1, <3>2, <1>1
  <2>3. QED
    BY <2>1, <2>2
<1>10. InsertLevel(c, i, p, s) \in Columns
  BY <1>3, <1>4, <1>5 DEF Columns
<1>11. QED
  BY <1>3, <1>4, <1>5, <1>8, <1>9, <1>10, InOrderBefore

LEMMA ResizeKeepsOrder ==
    ASSUME NEW side, NEW c \in Columns, InOrder(side, c), NEW i \in DOMAIN c.prices,
           NEW s \in Sizes, s > 0
    PROVE  ResizeLevel(c, i, s) \in Columns /\ InOrder(side, ResizeLevel(c, i, s))
<1> DEFINE Q == [c.sizes EXCEPT ![i] = s]
<1>1. ResizeLevel(c, i, s) = [prices |-> c.prices, sizes |-> Q]
  <2>1. c = [prices |-> c.prices, sizes |-> c.sizes]
    BY DEF Columns
  <2>2. QED
    BY <2>1 DEF ResizeLevel
<1>2. /\ Q \in Seq(Sizes) /\ Len(Q) = Len(c.sizes)
      /\ \A j \in DOMAIN Q : Q[j] = IF j = i THEN s ELSE c.sizes[j]
      /\ DOMAIN Q = DOMAIN c.sizes
  <2>1. c.sizes \in Seq(Sizes) /\ i \in 1 .. Len(c.sizes) /\ DOMAIN c.sizes = 1 .. Len(c.sizes)
    BY ColumnFields DEF InOrder
  <2>2. Q \in Seq(Sizes) /\ Len(Q) = Len(c.sizes)
    BY <2>1, ExceptSeq
  <2>3. QED
    BY <2>1, <2>2
<1> HIDE DEF Q
<1>3. ResizeLevel(c, i, s) \in Columns
  BY <1>1, <1>2, ColumnFields DEF Columns
<1>4. /\ ResizeLevel(c, i, s).prices = c.prices
      /\ ResizeLevel(c, i, s).sizes = Q
  BY <1>1
<1>5. \A j \in DOMAIN Q : Q[j] > 0
  BY <1>2 DEF InOrder
<1>6. QED
  BY <1>2, <1>3, <1>4, <1>5 DEF InOrder

LEMMA CutKeepsOrder ==
    ASSUME NEW side, NEW c \in Columns, InOrder(side, c), NEW d \in Depths
    PROVE  Truncated(c, d) \in Columns /\ InOrder(side, Truncated(c, d))
<1> DEFINE n == IF Len(c.prices) <= d THEN Len(c.prices) ELSE d
<1> DEFINE P == SubSeq(c.prices, 1, n)
<1> DEFINE Q == SubSeq(c.sizes, 1, n)
<1>1. Len(c.sizes) = Len(c.prices)
  BY DEF InOrder
<1>2. n \in Nat /\ n <= Len(c.prices)
  BY ColumnFields, DepthAssumption
<1>3. Truncated(c, d) = [prices |-> P, sizes |-> Q]
  BY <1>1 DEF Truncated, CutTo
<1> HIDE DEF n
<1>4. P \in Seq(Prices) /\ Len(P) = n /\ DOMAIN P = 1 .. n
      /\ \A j \in 1 .. n : P[j] = c.prices[j]
  BY <1>2, ColumnFields
<1>5. Q \in Seq(Sizes) /\ Len(Q) = n /\ DOMAIN Q = 1 .. n
      /\ \A j \in 1 .. n : Q[j] = c.sizes[j]
  BY <1>1, <1>2, ColumnFields
<1> HIDE DEF P, Q
<1>6. 1 .. n \subseteq DOMAIN c.prices /\ 1 .. n \subseteq DOMAIN c.sizes
  BY <1>1, <1>2, ColumnFields
<1>7. Truncated(c, d) \in Columns
  BY <1>3, <1>4, <1>5 DEF Columns
<1>8. Truncated(c, d).prices = P /\ Truncated(c, d).sizes = Q
  BY <1>3
<1>9. /\ \A j, k \in DOMAIN P : j < k => Before(side, P[j], P[k])
      /\ \A j \in DOMAIN Q : Q[j] > 0
  BY <1>4, <1>5, <1>6, InOrderBefore
<1>10. QED
  BY <1>4, <1>5, <1>7, <1>8, <1>9, InOrderBefore

LEMMA EmptyInOrder ==
    ASSUME NEW side
    PROVE  EmptyColumn \in Columns /\ InOrder(side, EmptyColumn)
BY DEF EmptyColumn, Columns, InOrder

(* Whatever index binary search returns, an update keeps the order.        *)
LEMMA UpdatesKeepOrder ==
    ASSUME NEW side, NEW c \in Columns, InOrder(side, c),
           NEW p \in Prices, NEW s \in Sizes, NEW d \in Updates(c, side, p, s)
    PROVE  d \in Columns /\ InOrder(side, d)
<1>0. s \in Nat
  BY SizesAssumption
<1>1. CASE \E i \in DOMAIN c.prices : d = IF s = 0 THEN RemoveLevel(c, i) ELSE ResizeLevel(c, i, s)
  <2> PICK i \in DOMAIN c.prices : d = IF s = 0 THEN RemoveLevel(c, i) ELSE ResizeLevel(c, i, s)
    BY <1>1
  <2>1. CASE s = 0
    BY <2>1, RemoveKeepsOrder
  <2>2. CASE s > 0
    BY <2>2, ResizeKeepsOrder
  <2>3. QED
    BY <1>0, <2>1, <2>2
<1>2. CASE \E i \in 1 .. Len(c.prices) + 1 :
              FitsAt(c, side, p, i) /\ d = IF s > 0 THEN InsertLevel(c, i, p, s) ELSE c
  BY <1>2, InsertKeepsOrder
<1>3. QED
  BY <1>1, <1>2 DEF Updates

-----------------------------------------------------------------------------
IInv == OrderTypeOK /\ ColumnsInOrder

LEMMA InitInv == OrderInit => IInv
BY DEF OrderInit, IInv, OrderTypeOK, ColumnsInOrder

LEMMA NextInv == IInv /\ [OrderNext]_orderVars => IInv'
<1> SUFFICES ASSUME IInv, [OrderNext]_orderVars
             PROVE  IInv'
  OBVIOUS
<1> USE DEF IInv
<1>1. ASSUME NEW k \in Keys, NewBook(k)
      PROVE  IInv'
  <2> PICK id \in Ids \ DOMAIN bids :
          /\ id_resolver' = Extend(id_resolver, k, id)
          /\ bids' = Extend(bids, id, EmptyColumn)
          /\ asks' = Extend(asks, id, EmptyColumn)
    BY <1>1 DEF NewBook
  <2>1. OrderTypeOK'
    <3>1. k \notin DOMAIN id_resolver /\ \A j \in DOMAIN id_resolver : id_resolver[j] # id
      BY <1>1 DEF NewBook, OrderTypeOK
    <3>2. /\ DOMAIN id_resolver' = DOMAIN id_resolver \cup {k}
          /\ \A j \in DOMAIN id_resolver' :
                id_resolver'[j] = IF j = k THEN id ELSE id_resolver[j]
      BY DEF Extend
    <3>3. /\ DOMAIN bids' = DOMAIN bids \cup {id}
          /\ DOMAIN asks' = DOMAIN bids \cup {id}
      BY DEF Extend, OrderTypeOK
    <3>4. id_resolver' \in [DOMAIN id_resolver' -> Ids]
      BY <3>1 DEF Extend, OrderTypeOK
    <3>5. bids' \in [DOMAIN bids' -> Columns] /\ asks' \in [DOMAIN bids' -> Columns]
      BY <3>3, EmptyInOrder DEF Extend, OrderTypeOK
    <3>6. DOMAIN bids' = {id_resolver'[j] : j \in DOMAIN id_resolver'}
      BY <3>1, <3>2, <3>3 DEF OrderTypeOK
    <3>7. \A i, j \in DOMAIN id_resolver' : id_resolver'[i] = id_resolver'[j] => i = j
      BY <3>1, <3>2 DEF OrderTypeOK
    <3>8. DOMAIN id_resolver' \subseteq Keys
      BY <3>2 DEF OrderTypeOK
    <3>9. QED
      BY <3>4, <3>5, <3>6, <3>7, <3>8 DEF OrderTypeOK
  <2>2. ColumnsInOrder'
    BY EmptyInOrder DEF ColumnsInOrder, Extend, OrderTypeOK
  <2>3. QED
    BY <2>1, <2>2
<1>2. ASSUME NEW id \in DOMAIN bids, ClearBook(id)
      PROVE  IInv'
  BY <1>2, EmptyInOrder DEF ClearBook, OrderTypeOK, ColumnsInOrder
<1>3. ASSUME NEW id \in DOMAIN bids, NEW side \in Sides, NEW p \in Prices, NEW s \in Sizes,
             UpdateBook(id, side, p, s)
      PROVE  IInv'
  <2>1. CASE side = "bid"
    <3> PICK c \in Updates(bids[id], "bid", p, s) : bids' = [bids EXCEPT ![id] = c]
      BY <1>3, <2>1 DEF UpdateBook
    <3>1. c \in Columns /\ InOrder("bid", c)
      BY UpdatesKeepOrder DEF OrderTypeOK, ColumnsInOrder
    <3>2. UNCHANGED <<id_resolver, asks>>
      BY <1>3, <2>1 DEF UpdateBook
    <3>3. QED
      BY <3>1, <3>2 DEF OrderTypeOK, ColumnsInOrder
  <2>2. CASE side # "bid"
    <3>0. side = "ask"
      BY <2>2 DEF Sides
    <3> PICK c \in Updates(asks[id], "ask", p, s) : asks' = [asks EXCEPT ![id] = c]
      BY <1>3, <3>0 DEF UpdateBook
    <3>1. c \in Columns /\ InOrder("ask", c)
      BY UpdatesKeepOrder DEF OrderTypeOK, ColumnsInOrder
    <3>2. UNCHANGED <<id_resolver, bids>>
      BY <1>3, <3>0 DEF UpdateBook
    <3>3. QED
      BY <3>1, <3>2 DEF OrderTypeOK, ColumnsInOrder
  <2>3. QED
    BY <2>1, <2>2
<1>4. ASSUME NEW id \in DOMAIN bids, NEW d \in Depths, TruncateBookDepth(id, d)
      PROVE  IInv'
  <2>1. /\ Truncated(bids[id], d) \in Columns /\ InOrder("bid", Truncated(bids[id], d))
        /\ Truncated(asks[id], d) \in Columns /\ InOrder("ask", Truncated(asks[id], d))
    BY CutKeepsOrder DEF OrderTypeOK, ColumnsInOrder
  <2>2. QED
    BY <1>4, <2>1 DEF TruncateBookDepth, OrderTypeOK, ColumnsInOrder
<1>5. CASE UNCHANGED orderVars
  BY <1>5 DEF orderVars, OrderTypeOK, ColumnsInOrder
<1>6. QED
  BY <1>1, <1>2, <1>3, <1>4, <1>5 DEF OrderNext

LEMMA Invariant == OrderSpec => []IInv
BY InitInv, NextInv, PTL DEF OrderSpec

(* Ids and columns belong together in every reachable state: no key shares *)
(* an id with another, no id lacks a column.                               *)
THEOREM IdsAndColumnsMatch == OrderSpec => []OrderTypeOK
<1>1. IInv => OrderTypeOK
  BY DEF IInv
<1>2. QED
  BY Invariant, <1>1, PTL

(* Every column is in order in every reachable state, so that each binary  *)
(* search, best_bid, best_ask and `take(depth)` find what they look for.   *)
THEOREM ColumnsStayInOrder == OrderSpec => []ColumnsInOrder
<1>1. IInv => ColumnsInOrder
  BY DEF IInv
<1>2. QED
  BY Invariant, <1>1, PTL

-----------------------------------------------------------------------------
(* What a column stands for.  SizeIs says when SizeIn(c, q) = z, so that   *)
(* nothing below has to look at its CHOOSE.                                *)
SizeIs(c, q, z) ==
    \/ \E i \in DOMAIN c.prices : c.prices[i] = q /\ c.sizes[i] = z
    \/ z = 0 /\ \A i \in DOMAIN c.prices : c.prices[i] # q

LEMMA PriceAt ==
    ASSUME NEW c \in Columns, NEW i \in DOMAIN c.prices
    PROVE  c.prices[i] \in Prices /\ c.prices[i] \in Int
<1>1. c.prices \in Seq(Prices) /\ i \in 1 .. Len(c.prices)
  BY ColumnFields
<1>2. c.prices[i] \in Prices
  BY <1>1
<1>3. QED
  BY <1>2, PricesAssumption

LEMMA PricesDistinct ==
    ASSUME NEW side, NEW c \in Columns, InOrder(side, c),
           NEW i \in DOMAIN c.prices, NEW j \in DOMAIN c.prices, i # j
    PROVE  c.prices[i] # c.prices[j]
<1>1. c.prices \in Seq(Prices) /\ DOMAIN c.prices = 1 .. Len(c.prices) /\ Len(c.prices) \in Nat
  BY ColumnFields
<1>2. c.prices[i] \in Int /\ c.prices[j] \in Int /\ (i < j \/ j < i)
  BY <1>1, PriceAt
<1>3. Before(side, c.prices[i], c.prices[j]) \/ Before(side, c.prices[j], c.prices[i])
  BY <1>2, InOrderBefore
<1>4. QED
  BY <1>2, <1>3 DEF Before

LEMMA SizeInIs ==
    ASSUME NEW side, NEW c \in Columns, InOrder(side, c), NEW q, NEW z, SizeIs(c, q, z)
    PROVE  SizeIn(c, q) = z
<1>1. CASE \E i \in DOMAIN c.prices : c.prices[i] = q /\ c.sizes[i] = z
  <2> PICK i \in DOMAIN c.prices : c.prices[i] = q /\ c.sizes[i] = z
    BY <1>1
  <2> DEFINE j == CHOOSE j \in DOMAIN c.prices : c.prices[j] = q
  <2>1. j \in DOMAIN c.prices /\ c.prices[j] = q
    OBVIOUS
  <2>2. j = i
    <3> HIDE DEF j
    <3>1. QED
      BY <2>1, PricesDistinct
  <2>3. SizeIn(c, q) = c.sizes[j]
    BY DEF SizeIn
  <2>4. QED
    BY <2>2, <2>3
<1>2. CASE z = 0 /\ \A i \in DOMAIN c.prices : c.prices[i] # q
  BY <1>2 DEF SizeIn
<1>3. QED
  BY <1>1, <1>2 DEF SizeIs

LEMMA SizeIsIn ==
    ASSUME NEW side, NEW c \in Columns, InOrder(side, c), NEW q
    PROVE  SizeIs(c, q, SizeIn(c, q)) /\ SizeIn(c, q) \in Sizes
<1>1. CASE \E i \in DOMAIN c.prices : c.prices[i] = q
  <2> PICK i \in DOMAIN c.prices : c.prices[i] = q
    BY <1>1
  <2>1. SizeIs(c, q, c.sizes[i])
    BY DEF SizeIs
  <2>2. SizeIn(c, q) = c.sizes[i]
    BY <2>1, SizeInIs
  <2>3. c.sizes[i] \in Sizes
    BY ColumnFields DEF InOrder
  <2>4. QED
    BY <2>1, <2>2, <2>3
<1>2. CASE ~\E i \in DOMAIN c.prices : c.prices[i] = q
  BY <1>2, SizesAssumption DEF SizeIs, SizeIn
<1>3. QED
  BY <1>1, <1>2

(* What an update makes of the sizes: p has the size s, and no other price *)
(* has another size.                                                       *)
LEMMA RemoveSizes ==
    ASSUME NEW side, NEW c \in Columns, InOrder(side, c), NEW i \in DOMAIN c.prices,
           NEW q
    PROVE  SizeIn(RemoveLevel(c, i), q) = IF q = c.prices[i] THEN 0 ELSE SizeIn(c, q)
<1> DEFINE d == RemoveLevel(c, i)
           n == Len(c.prices)
<1>1. /\ Len(c.sizes) = n /\ n \in Nat /\ i \in 1 .. n
      /\ DOMAIN c.prices = 1 .. n
      /\ c.prices \in Seq(Prices) /\ c.sizes \in Seq(Sizes)
  BY ColumnFields DEF InOrder
<1>2. /\ Len(d.prices) = n - 1 /\ d.prices \in Seq(Prices)
      /\ \A j \in 1 .. n - 1 : d.prices[j] = IF j < i THEN c.prices[j] ELSE c.prices[j + 1]
  BY <1>1, RemoveAtElements DEF RemoveLevel
<1>3. \A j \in 1 .. n - 1 : d.sizes[j] = IF j < i THEN c.sizes[j] ELSE c.sizes[j + 1]
  <2>1. i \in 1 .. Len(c.sizes)
    BY <1>1
  <2>2. \A j \in 1 .. Len(c.sizes) - 1 :
           RemoveAt(c.sizes, i)[j] = IF j < i THEN c.sizes[j] ELSE c.sizes[j + 1]
    BY <1>1, <2>1, RemoveAtElements
  <2>3. d.sizes = RemoveAt(c.sizes, i)
    BY DEF RemoveLevel
  <2>4. QED
    BY <1>1, <2>2, <2>3
<1>4. d \in Columns /\ InOrder(side, d)
  BY RemoveKeepsOrder
<1>5. DOMAIN d.prices = 1 .. n - 1
  BY <1>1, <1>2
<1> HIDE DEF d, n
<1>6. CASE q = c.prices[i]
  <2>1. ASSUME NEW j \in DOMAIN d.prices PROVE d.prices[j] # q
    <3> DEFINE J == IF j < i THEN j ELSE j + 1
    <3>1. J \in DOMAIN c.prices /\ J # i /\ d.prices[j] = c.prices[J]
      BY <1>1, <1>2, <1>5
    <3> HIDE DEF J
    <3>2. QED
      BY <1>6, <3>1, PricesDistinct
  <2>2. SizeIs(d, q, 0)
    BY <2>1 DEF SizeIs
  <2>3. QED
    BY <1>4, <1>6, <2>2, SizeInIs DEF d
<1>7. CASE q # c.prices[i]
  <2> DEFINE z == SizeIn(c, q)
  <2>1. SizeIs(c, q, z)
    BY SizeIsIn
  <2> HIDE DEF z
  <2>2. ASSUME \E j \in DOMAIN c.prices : c.prices[j] = q /\ c.sizes[j] = z
        PROVE  SizeIs(d, q, z)
    <3> PICK j \in DOMAIN c.prices : c.prices[j] = q /\ c.sizes[j] = z
      BY <2>2
    <3> DEFINE J == IF j < i THEN j ELSE j - 1
    <3>1. j # i
      BY <1>7
    <3>2. J \in 1 .. n - 1 /\ d.prices[J] = c.prices[j] /\ d.sizes[J] = c.sizes[j]
      <4>1. CASE j < i
        BY <1>1, <1>2, <1>3, <4>1
      <4>2. CASE j > i
        <5>1. j - 1 \in 1 .. n - 1 /\ ~(j - 1 < i) /\ (j - 1) + 1 = j
          BY <1>1, <4>2
        <5>2. J = j - 1
          BY <1>1, <4>2
        <5> HIDE DEF J
        <5>3. QED
          BY <1>2, <1>3, <5>1, <5>2
      <4>3. QED
        BY <1>1, <3>1, <4>1, <4>2
    <3> HIDE DEF J
    <3>3. QED
      BY <1>5, <2>2, <3>2 DEF SizeIs
  <2>3. ASSUME z = 0 /\ \A j \in DOMAIN c.prices : c.prices[j] # q
        PROVE  SizeIs(d, q, z)
    <3>1. ASSUME NEW j \in DOMAIN d.prices PROVE d.prices[j] # q
      <4> DEFINE J == IF j < i THEN j ELSE j + 1
      <4>1. J \in DOMAIN c.prices /\ d.prices[j] = c.prices[J]
        BY <1>1, <1>2, <1>5
      <4> HIDE DEF J
      <4>2. QED
        BY <2>3, <4>1
    <3>2. QED
      BY <2>3, <3>1 DEF SizeIs
  <2>4. SizeIs(d, q, z)
    BY <2>1, <2>2, <2>3 DEF SizeIs
  <2>5. QED
    BY <1>4, <1>7, <2>4, SizeInIs DEF d, z
<1>8. QED
  BY <1>6, <1>7

LEMMA ResizeSizes ==
    ASSUME NEW side, NEW c \in Columns, InOrder(side, c), NEW i \in DOMAIN c.prices,
           NEW s \in Sizes, s > 0, NEW q
    PROVE  SizeIn(ResizeLevel(c, i, s), q) = IF q = c.prices[i] THEN s ELSE SizeIn(c, q)
<1> DEFINE d == ResizeLevel(c, i, s)
<1>1. d \in Columns /\ InOrder(side, d)
  BY ResizeKeepsOrder
<1>2. DOMAIN c.sizes = DOMAIN c.prices
  BY ColumnFields DEF InOrder
<1>3. /\ d.prices = c.prices
      /\ \A j \in DOMAIN c.prices : d.sizes[j] = IF j = i THEN s ELSE c.sizes[j]
  BY <1>2 DEF ResizeLevel, Columns
<1> HIDE DEF d
<1>4. \A j \in DOMAIN c.prices : c.prices[j] = c.prices[i] => j = i
  BY PricesDistinct
<1>5. SizeIs(c, q, SizeIn(c, q))
  BY SizeIsIn
<1>6. SizeIs(d, q, IF q = c.prices[i] THEN s ELSE SizeIn(c, q))
  BY <1>3, <1>4, <1>5 DEF SizeIs
<1>7. QED
  BY <1>1, <1>6, SizeInIs DEF d

LEMMA InsertSizes ==
    ASSUME NEW side, NEW c \in Columns, InOrder(side, c),
           NEW p \in Prices, NEW s \in Sizes, s > 0,
           NEW i \in 1 .. Len(c.prices) + 1, FitsAt(c, side, p, i), NEW q
    PROVE  SizeIn(InsertLevel(c, i, p, s), q) = IF q = p THEN s ELSE SizeIn(c, q)
<1> DEFINE d == InsertLevel(c, i, p, s)
           n == Len(c.prices)
<1>1. /\ Len(c.sizes) = n /\ n \in Nat /\ i \in 1 .. n + 1
      /\ DOMAIN c.prices = 1 .. n
      /\ c.prices \in Seq(Prices) /\ c.sizes \in Seq(Sizes)
  BY ColumnFields DEF InOrder
<1>2. /\ Len(d.prices) = n + 1 /\ d.prices \in Seq(Prices)
      /\ \A j \in 1 .. n + 1 :
            d.prices[j] = IF j < i THEN c.prices[j] ELSE IF j = i THEN p ELSE c.prices[j - 1]
  <2>1. InsertAt(c.prices, i, p) \in Seq(Prices) /\ IsInsertion(InsertAt(c.prices, i, p), c.prices, i, p)
    BY <1>1, InsertAtElements
  <2>2. QED
    BY <2>1 DEF IsInsertion, InsertLevel
<1>3. \A j \in 1 .. n + 1 :
         d.sizes[j] = IF j < i THEN c.sizes[j] ELSE IF j = i THEN s ELSE c.sizes[j - 1]
  <2>1. i \in 1 .. Len(c.sizes) + 1
    BY <1>1
  <2>2. IsInsertion(InsertAt(c.sizes, i, s), c.sizes, i, s)
    BY <1>1, <2>1, InsertAtElements
  <2>3. d.sizes = InsertAt(c.sizes, i, s)
    BY DEF InsertLevel
  <2>4. QED
    BY <1>1, <2>2, <2>3 DEF IsInsertion
<1>4. d \in Columns /\ InOrder(side, d)
  BY InsertKeepsOrder
<1>5. DOMAIN d.prices = 1 .. n + 1
  BY <1>1, <1>2
<1> HIDE DEF d, n
<1>6. CASE q = p
  <2>1. i \in DOMAIN d.prices /\ d.prices[i] = q /\ d.sizes[i] = s
    BY <1>1, <1>2, <1>3, <1>5, <1>6
  <2>2. SizeIs(d, q, s)
    BY <2>1 DEF SizeIs
  <2>3. QED
    BY <1>4, <1>6, <2>2, SizeInIs DEF d
<1>7. CASE q # p
  <2> DEFINE z == SizeIn(c, q)
  <2>1. SizeIs(c, q, z)
    BY SizeIsIn
  <2> HIDE DEF z
  <2>2. ASSUME \E j \in DOMAIN c.prices : c.prices[j] = q /\ c.sizes[j] = z
        PROVE  SizeIs(d, q, z)
    <3> PICK j \in DOMAIN c.prices : c.prices[j] = q /\ c.sizes[j] = z
      BY <2>2
    <3> DEFINE J == IF j < i THEN j ELSE j + 1
    <3>1. J \in 1 .. n + 1 /\ d.prices[J] = c.prices[j] /\ d.sizes[J] = c.sizes[j]
      BY <1>1, <1>2, <1>3
    <3> HIDE DEF J
    <3>2. QED
      BY <1>5, <2>2, <3>1 DEF SizeIs
  <2>3. ASSUME z = 0 /\ \A j \in DOMAIN c.prices : c.prices[j] # q
        PROVE  SizeIs(d, q, z)
    <3>1. ASSUME NEW j \in DOMAIN d.prices PROVE d.prices[j] # q
      <4>0. j \in 1 .. n + 1
        BY <1>5
      <4>1. CASE j = i
        BY <1>2, <1>7, <4>0, <4>1
      <4>2. CASE j # i
        <5> DEFINE J == IF j < i THEN j ELSE j - 1
        <5>1. J \in DOMAIN c.prices /\ d.prices[j] = c.prices[J]
          BY <1>1, <1>2, <4>0, <4>2
        <5> HIDE DEF J
        <5>2. QED
          BY <2>3, <5>1
      <4>3. QED
        BY <4>1, <4>2
    <3>2. QED
      BY <2>3, <3>1 DEF SizeIs
  <2>4. SizeIs(d, q, z)
    BY <2>1, <2>2, <2>3 DEF SizeIs
  <2>5. QED
    BY <1>4, <1>7, <2>4, SizeInIs DEF d, z
<1>8. QED
  BY <1>6, <1>7

LEMMA UpdateSizes ==
    ASSUME NEW side, NEW c \in Columns, InOrder(side, c),
           NEW p \in Prices, NEW s \in Sizes, NEW d \in Updates(c, side, p, s), NEW q
    PROVE  SizeIn(d, q) = IF q = p THEN s ELSE SizeIn(c, q)
<1>0. s \in Nat
  BY SizesAssumption
<1>1. CASE \E i \in DOMAIN c.prices :
              FoundAt(c, p, i) /\ d = IF s = 0 THEN RemoveLevel(c, i) ELSE ResizeLevel(c, i, s)
  <2> PICK i \in DOMAIN c.prices :
         FoundAt(c, p, i) /\ d = IF s = 0 THEN RemoveLevel(c, i) ELSE ResizeLevel(c, i, s)
    BY <1>1
  <2>1. c.prices[i] = p
    BY DEF FoundAt
  <2>2. CASE s = 0
    BY <2>1, <2>2, RemoveSizes
  <2>3. CASE s > 0
    BY <2>1, <2>3, ResizeSizes
  <2>4. QED
    BY <1>0, <2>2, <2>3
<1>2. CASE \E i \in 1 .. Len(c.prices) + 1 :
              FitsAt(c, side, p, i) /\ d = IF s > 0 THEN InsertLevel(c, i, p, s) ELSE c
  <2> PICK i \in 1 .. Len(c.prices) + 1 :
         FitsAt(c, side, p, i) /\ d = IF s > 0 THEN InsertLevel(c, i, p, s) ELSE c
    BY <1>2
  <2>1. CASE s > 0
    BY <2>1, InsertSizes
  <2>2. CASE s = 0
    <3>1. d = c
      BY <2>2
    <3>2. \A j \in DOMAIN c.prices : c.prices[j] \in Int /\ p \in Int
      BY PriceAt, PricesAssumption
    <3>3. \A j \in DOMAIN c.prices : c.prices[j] # p
      BY <3>2 DEF FitsAt, Before
    <3>4. SizeIn(c, p) = 0
      BY <3>3 DEF SizeIn
    <3>5. QED
      BY <2>2, <3>1, <3>4
  <2>3. QED
    BY <1>0, <2>1, <2>2
<1>3. QED
  BY <1>1, <1>2 DEF Updates

-----------------------------------------------------------------------------
(* Cutting the vectors keeps exactly the best levels: in a column that is  *)
(* in order, i - 1 levels are better than the one at index i.              *)
LEMMA CutSizes ==
    ASSUME NEW side, NEW c \in Columns, InOrder(side, c), NEW d \in Depths, NEW q
    PROVE  SizeIn(Truncated(c, d), q) =
              IF \E i \in DOMAIN c.prices : c.prices[i] = q /\ i <= d THEN SizeIn(c, q) ELSE 0
<1> DEFINE n == IF Len(c.prices) <= d THEN Len(c.prices) ELSE d
           e == Truncated(c, d)
           z == SizeIn(c, q)
<1>1. Len(c.sizes) = Len(c.prices) /\ d \in Nat /\ Len(c.prices) \in Nat
      /\ c.prices \in Seq(Prices) /\ c.sizes \in Seq(Sizes)
      /\ DOMAIN c.prices = 1 .. Len(c.prices)
  BY ColumnFields, DepthAssumption DEF InOrder
<1>2. n \in Nat /\ n <= Len(c.prices) /\ \A i \in DOMAIN c.prices : i <= n <=> i <= d
  BY <1>1
<1>3. e.prices = SubSeq(c.prices, 1, n) /\ e.sizes = SubSeq(c.sizes, 1, n)
  BY <1>1 DEF Truncated, CutTo
<1> HIDE DEF n, e
<1>4. /\ DOMAIN e.prices = 1 .. n
      /\ \A j \in 1 .. n : e.prices[j] = c.prices[j] /\ e.sizes[j] = c.sizes[j]
  BY <1>1, <1>2, <1>3
<1>5. e \in Columns /\ InOrder(side, e)
  BY CutKeepsOrder DEF e
<1>6. SizeIs(c, q, z)
  BY SizeIsIn
<1> HIDE DEF z
<1>7. CASE \E i \in DOMAIN c.prices : c.prices[i] = q /\ i <= d
  <2> PICK i \in DOMAIN c.prices : c.prices[i] = q /\ i <= d
    BY <1>7
  <2>1. \A j \in DOMAIN c.prices : c.prices[j] = q => j = i
    BY PricesDistinct
  <2>2. c.sizes[i] = z
    BY <1>6, <2>1 DEF SizeIs
  <2>3. i \in 1 .. n
    BY <1>1, <1>2
  <2>4. SizeIs(e, q, z)
    BY <1>4, <2>2, <2>3 DEF SizeIs
  <2>5. QED
    BY <1>5, <1>7, <2>4, SizeInIs DEF e, z
<1>8. CASE ~\E i \in DOMAIN c.prices : c.prices[i] = q /\ i <= d
  <2>1. ASSUME NEW j \in 1 .. n PROVE e.prices[j] # q
    <3>1. j \in DOMAIN c.prices /\ j <= d
      BY <1>1, <1>2
    <3>2. QED
      BY <1>4, <1>8, <3>1
  <2>2. SizeIs(e, q, 0)
    BY <1>4, <2>1 DEF SizeIs
  <2>3. QED
    BY <1>5, <1>8, <2>2, SizeInIs DEF e
<1>9. QED
  BY <1>7, <1>8 DEF z

(* b gives the levels of one side the sizes that column c stands for.      *)
Shows(b, side, c) == \A q \in Prices : b[<<side, q>>] = SizeIn(c, q)

LEMMA LevelsBefore ==
    ASSUME NEW side \in Sides, NEW c \in Columns, InOrder(side, c),
           NEW b, Shows(b, side, c), NEW i \in DOMAIN c.prices
    PROVE  Cardinality({m \in Levels : b[m] > 0 /\ Better(m, <<side, c.prices[i]>>)}) = i - 1
<1> DEFINE A == {m \in Levels : b[m] > 0 /\ Better(m, <<side, c.prices[i]>>)}
           f == [j \in 1 .. i - 1 |-> <<side, c.prices[j]>>]
<1>1. /\ DOMAIN c.prices = 1 .. Len(c.prices) /\ Len(c.prices) \in Nat
      /\ DOMAIN c.sizes = DOMAIN c.prices /\ i \in Nat \ {0} /\ i - 1 \in Nat
      /\ 1 .. i - 1 \subseteq DOMAIN c.prices
      /\ \A j \in 1 .. i - 1 : j < i
  BY ColumnFields DEF InOrder
<1>2. \A j \in DOMAIN c.prices : c.prices[j] \in Prices /\ c.prices[j] \in Int
  BY PriceAt
<1>3. \A j \in DOMAIN c.prices : c.sizes[j] > 0 /\ b[<<side, c.prices[j]>>] = c.sizes[j]
  <2> SUFFICES ASSUME NEW j \in DOMAIN c.prices
               PROVE  c.sizes[j] > 0 /\ b[<<side, c.prices[j]>>] = c.sizes[j]
    OBVIOUS
  <2>1. c.sizes[j] > 0
    BY <1>1 DEF InOrder
  <2>2. SizeIs(c, c.prices[j], c.sizes[j])
    BY DEF SizeIs
  <2>3. SizeIn(c, c.prices[j]) = c.sizes[j]
    BY <2>2, SizeInIs
  <2>4. QED
    BY <1>2, <2>1, <2>3 DEF Shows
<1>4. \A j \in 1 .. i - 1 : f[j] \in A
  <2> SUFFICES ASSUME NEW j \in 1 .. i - 1 PROVE <<side, c.prices[j]>> \in A
    OBVIOUS
  <2>1. j \in DOMAIN c.prices /\ j < i
    BY <1>1
  <2>2. Better(<<side, c.prices[j]>>, <<side, c.prices[i]>>)
    BY <2>1 DEF InOrder
  <2>3. <<side, c.prices[j]>> \in Levels
    BY <1>2, <2>1 DEF Levels
  <2>4. b[<<side, c.prices[j]>>] > 0
    BY <1>3, <2>1
  <2>5. QED
    BY <2>2, <2>3, <2>4
<1>5. \A m \in A : \E j \in 1 .. i - 1 : f[j] = m
  <2> SUFFICES ASSUME NEW m \in Levels, b[m] > 0, Better(m, <<side, c.prices[i]>>)
               PROVE  \E j \in 1 .. i - 1 : f[j] = m
    OBVIOUS
  <2>1. m[1] = side /\ m[2] \in Prices /\ m = <<side, m[2]>> /\ Before(side, m[2], c.prices[i])
    BY DEF Levels, Better, Before
  <2>2. SizeIn(c, m[2]) = b[m]
    BY <2>1 DEF Shows
  <2>3. PICK j \in DOMAIN c.prices : c.prices[j] = m[2]
    <3>1. SizeIs(c, m[2], b[m])
      BY <2>2, SizeIsIn
    <3>2. b[m] # 0
      OBVIOUS
    <3>3. QED
      BY <3>1, <3>2 DEF SizeIs
  <2>4. j < i
    <3>1. SUFFICES ASSUME ~(j < i) PROVE FALSE
      OBVIOUS
    <3>2. CASE j = i
      BY <1>2, <2>1, <2>3, <3>2 DEF Before
    <3>3. CASE i < j
      <4>1. Before(side, c.prices[i], c.prices[j])
        BY <3>3, InOrderBefore
      <4>2. QED
        BY <1>2, <2>1, <2>3, <4>1 DEF Before
    <3>4. QED
      BY <1>1, <3>1, <3>2, <3>3
  <2>5. j \in 1 .. i - 1
    BY <1>1, <2>4
  <2>6. QED
    BY <2>1, <2>3, <2>5
<1>6. \A j, k \in 1 .. i - 1 : f[j] = f[k] => j = k
  BY <1>1, PricesDistinct
<1>7. f \in Bijection(1 .. i - 1, A)
  <2>1. f \in [1 .. i - 1 -> A] /\ DOMAIN f = 1 .. i - 1
    BY <1>4
  <2> HIDE DEF f, A
  <2>2. QED
    BY <1>5, <1>6, <2>1 DEF Bijection, Injection, Surjection, IsInjective
<1> HIDE DEF f, A
<1>8. ExistsBijection(1 .. i - 1, A)
  BY <1>7 DEF ExistsBijection
<1>9. Cardinality(A) = i - 1
  BY <1>1, <1>8, FS_CountingElements
<1>10. QED
  BY <1>9 DEF A

LEMMA CutIsTop ==
    ASSUME NEW side \in Sides, NEW c \in Columns, InOrder(side, c),
           NEW b, Shows(b, side, c), NEW d \in Depths
    PROVE  Shows(TopOf(b, d), side, Truncated(c, d))
<1> SUFFICES ASSUME NEW q \in Prices
             PROVE  TopOf(b, d)[<<side, q>>] = SizeIn(Truncated(c, d), q)
  BY DEF Shows
<1> DEFINE n == Cardinality({m \in Levels : b[m] > 0 /\ Better(m, <<side, q>>)})
<1>1. <<side, q>> \in Levels /\ b[<<side, q>>] = SizeIn(c, q)
  BY DEF Levels, Shows
<1>2. TopOf(b, d)[<<side, q>>] = IF n < d THEN SizeIn(c, q) ELSE 0
  BY <1>1 DEF TopOf
<1>3. CASE \E i \in DOMAIN c.prices : c.prices[i] = q
  <2> PICK i \in DOMAIN c.prices : c.prices[i] = q
    BY <1>3
  <2>1. n = i - 1
    BY LevelsBefore
  <2> HIDE DEF n
  <2>2. i \in Nat /\ d \in Nat
    BY ColumnFields, DepthAssumption
  <2>3. n < d <=> i <= d
    BY <2>1, <2>2
  <2>4. \A j \in DOMAIN c.prices : c.prices[j] = q => j = i
    BY PricesDistinct
  <2>5. QED
    BY <1>2, <2>3, <2>4, CutSizes
<1>4. CASE ~\E i \in DOMAIN c.prices : c.prices[i] = q
  <2>1. SizeIn(c, q) = 0
    BY <1>4 DEF SizeIn
  <2>2. SizeIn(Truncated(c, d), q) = 0
    BY <1>4, CutSizes
  <2>3. QED
    BY <1>2, <2>1, <2>2
<1>5. QED
  BY <1>3, <1>4

-----------------------------------------------------------------------------
(* Each step of the columns is a step of PriceLevels, or changes no level. *)
levels == [k \in Keys |-> LevelsOf(k)]

(* The column of a side of a book.                                         *)
ColumnOf(side, id) == IF side = "bid" THEN bids[id] ELSE asks[id]

LEMMA SameOperators ==
    /\ Abstract!Levels = Levels /\ Abstract!EmptyBook = EmptyBook
    /\ \A b, d : Abstract!TopOf(b, d) = TopOf(b, d)
<1>1. Abstract!Levels = Levels
  BY DEF Abstract!Levels, Levels, Abstract!Sides, Sides
<1>2. Abstract!EmptyBook = EmptyBook
  BY <1>1 DEF Abstract!EmptyBook, EmptyBook
<1>3. \A l, m : Abstract!Better(l, m) <=> Better(l, m)
  BY DEF Abstract!Better, Better
<1>4. ASSUME NEW b, NEW d PROVE Abstract!TopOf(b, d) = TopOf(b, d)
  <2> DEFINE A(l) == {m \in Abstract!Levels : b[m] > 0 /\ Abstract!Better(m, l)}
             B(l) == {m \in Levels : b[m] > 0 /\ Better(m, l)}
  <2>1. ASSUME NEW l PROVE A(l) = B(l)
    BY <1>1, <1>3
  <2>0. \A S : Abstract!Cardinality(S) = Cardinality(S)
    BY DEF Abstract!Cardinality, Cardinality, Abstract!IsFiniteSet, IsFiniteSet
  <2>2. /\ Abstract!TopOf(b, d)
              = [l \in Abstract!Levels |-> IF Cardinality(A(l)) < d THEN b[l] ELSE 0]
        /\ TopOf(b, d) = [l \in Levels |-> IF Cardinality(B(l)) < d THEN b[l] ELSE 0]
    BY <2>0, Zenon DEF Abstract!TopOf, TopOf
  <2> HIDE DEF A, B
  <2>3. QED
    BY <1>1, <2>1, <2>2, Zenon
<1>5. QED
  BY <1>1, <1>2, <1>4

LEMMA LevelsOfKnown ==
    ASSUME IInv, NEW k \in DOMAIN id_resolver
    PROVE  LET id == id_resolver[k]
           IN  /\ k \in Keys /\ id \in DOMAIN bids
               /\ LevelsOf(k) = [l \in Levels |-> SizeIn(ColumnOf(l[1], id), l[2])]
               /\ \A side \in Sides : /\ ColumnOf(side, id) \in Columns
                                      /\ InOrder(side, ColumnOf(side, id))
                                      /\ Shows(LevelsOf(k), side, ColumnOf(side, id))
<1> DEFINE id == id_resolver[k]
<1>1. k \in Keys /\ id \in DOMAIN bids
  BY DEF IInv, OrderTypeOK
<1>2. LevelsOf(k) = [l \in Levels |-> SizeIn(ColumnOf(l[1], id), l[2])]
  BY DEF LevelsOf, ColumnOf
<1> HIDE DEF id
<1>3. ASSUME NEW side \in Sides
      PROVE  /\ ColumnOf(side, id) \in Columns
             /\ InOrder(side, ColumnOf(side, id))
             /\ Shows(LevelsOf(k), side, ColumnOf(side, id))
  <2>1. bids[id] \in Columns /\ asks[id] \in Columns
    BY <1>1 DEF IInv, OrderTypeOK
  <2>2. InOrder("bid", bids[id]) /\ InOrder("ask", asks[id])
    BY <1>1 DEF IInv, ColumnsInOrder
  <2>3. ColumnOf(side, id) \in Columns /\ InOrder(side, ColumnOf(side, id))
    BY <2>1, <2>2 DEF ColumnOf, Sides
  <2>4. \A q \in Prices : <<side, q>> \in Levels
    BY DEF Levels
  <2>5. QED
    BY <1>2, <2>3, <2>4 DEF Shows
<1>4. QED
  BY <1>1, <1>2, <1>3 DEF id

(* What a step of one book leaves of the others.                           *)
LEMMA OtherBooks ==
    ASSUME IInv, NEW k \in DOMAIN id_resolver, UNCHANGED id_resolver,
           \A id \in DOMAIN bids \ {id_resolver[k]} : bids'[id] = bids[id] /\ asks'[id] = asks[id]
    PROVE  \A j \in Keys \ {k} : LevelsOf(j)' = LevelsOf(j)
<1> SUFFICES ASSUME NEW j \in Keys, j # k PROVE LevelsOf(j)' = LevelsOf(j)
  OBVIOUS
<1>1. CASE j \in DOMAIN id_resolver
  <2>1. id_resolver[j] \in DOMAIN bids \ {id_resolver[k]}
    BY <1>1 DEF IInv, OrderTypeOK
  <2>2. QED
    BY <1>1, <2>1 DEF LevelsOf
<1>2. CASE j \notin DOMAIN id_resolver
  BY <1>2 DEF LevelsOf
<1>3. QED
  BY <1>1, <1>2

(* One book changes to b, as an update of the function of all books.       *)
LEMMA OneBook ==
    ASSUME NEW k \in Keys, NEW b,
           \A j \in Keys \ {k} : LevelsOf(j)' = LevelsOf(j), LevelsOf(k)' = b
    PROVE  levels' = [levels EXCEPT ![k] = b]
BY DEF levels

LEMMA EmptySizes == \A q : SizeIn(EmptyColumn, q) = 0
BY DEF SizeIn, EmptyColumn

LEMMA LevelsShown ==
    ASSUME NEW k \in DOMAIN id_resolver'
    PROVE  LevelsOf(k)' = [l \in Levels |-> SizeIn(ColumnOf(l[1], id_resolver[k])', l[2])]
BY DEF LevelsOf, ColumnOf

LEMMA NewBookStutters ==
    ASSUME IInv, NEW k \in Keys, NewBook(k)
    PROVE  levels' = levels
<1> PICK id \in Ids \ DOMAIN bids :
        /\ id_resolver' = Extend(id_resolver, k, id)
        /\ bids' = Extend(bids, id, EmptyColumn)
        /\ asks' = Extend(asks, id, EmptyColumn)
  BY DEF NewBook
<1>1. ASSUME NEW j \in Keys PROVE LevelsOf(j)' = LevelsOf(j)
  <2>1. CASE j = k
    <3>1. LevelsOf(j) = EmptyBook
      BY <2>1 DEF NewBook, LevelsOf
    <3>2. /\ k \in DOMAIN id_resolver' /\ id_resolver'[k] = id
          /\ bids'[id] = EmptyColumn /\ asks'[id] = EmptyColumn
      BY DEF Extend
    <3>3. LevelsOf(k)' = EmptyBook
      BY <3>2, EmptySizes DEF LevelsOf, EmptyBook
    <3>4. QED
      BY <2>1, <3>1, <3>3
  <2>2. CASE j # k /\ j \in DOMAIN id_resolver
    <3>1. id_resolver[j] \in DOMAIN bids /\ id_resolver[j] \in DOMAIN asks /\ id_resolver[j] # id
      BY <2>2 DEF IInv, OrderTypeOK
    <3>2. /\ j \in DOMAIN id_resolver' /\ id_resolver'[j] = id_resolver[j]
          /\ bids'[id_resolver[j]] = bids[id_resolver[j]]
          /\ asks'[id_resolver[j]] = asks[id_resolver[j]]
      BY <2>2, <3>1 DEF Extend
    <3>3. QED
      BY <2>2, <3>2 DEF LevelsOf
  <2>3. CASE j # k /\ j \notin DOMAIN id_resolver
    BY <2>3 DEF LevelsOf, Extend
  <2>4. QED
    BY <2>1, <2>2, <2>3
<1>2. QED
  BY <1>1 DEF levels

LEMMA ClearBookClears ==
    ASSUME IInv, NEW k \in DOMAIN id_resolver, ClearBook(id_resolver[k])
    PROVE  k \in Keys /\ Abstract!Clear(k)
<1> DEFINE id == id_resolver[k]
<1>1. k \in Keys /\ id \in DOMAIN bids /\ id \in DOMAIN asks
  BY DEF IInv, OrderTypeOK
<1>2. /\ UNCHANGED id_resolver
      /\ bids'[id] = EmptyColumn /\ asks'[id] = EmptyColumn
      /\ \A x \in DOMAIN bids \ {id} : bids'[x] = bids[x] /\ asks'[x] = asks[x]
  BY <1>1 DEF ClearBook, IInv, OrderTypeOK
<1>3. LevelsOf(k)' = EmptyBook
  BY <1>2, EmptySizes DEF LevelsOf, EmptyBook
<1>4. levels' = [levels EXCEPT ![k] = EmptyBook]
  BY <1>1, <1>2, <1>3, OtherBooks, OneBook
<1>5. QED
  BY <1>1, <1>4, SameOperators DEF levels, Abstract!Clear

LEMMA UpdateBookSets ==
    ASSUME IInv, NEW k \in DOMAIN id_resolver, NEW side \in Sides,
           NEW p \in Prices, NEW s \in Sizes, UpdateBook(id_resolver[k], side, p, s)
    PROVE  k \in Keys /\ <<side, p>> \in Abstract!Levels /\ Abstract!Set(k, <<side, p>>, s)
<1> PICK id : id = id_resolver[k]
  OBVIOUS
<1> DEFINE l0 == <<side, p>>
<1>1. /\ k \in Keys /\ id \in DOMAIN bids /\ id \in DOMAIN asks
      /\ DOMAIN bids = DOMAIN asks
      /\ ColumnOf(side, id) \in Columns /\ InOrder(side, ColumnOf(side, id))
      /\ LevelsOf(k) = [l \in Levels |-> SizeIn(ColumnOf(l[1], id), l[2])]
  BY LevelsOfKnown DEF IInv, OrderTypeOK
<1>2. PICK c \in Updates(ColumnOf(side, id), side, p, s) :
         IF side = "bid" THEN bids' = [bids EXCEPT ![id] = c] /\ asks' = asks
                         ELSE asks' = [asks EXCEPT ![id] = c] /\ bids' = bids
  BY DEF UpdateBook, ColumnOf
<1>3. UNCHANGED id_resolver
  BY DEF UpdateBook
<1>4. /\ \A x \in DOMAIN bids \ {id} : bids'[x] = bids[x] /\ asks'[x] = asks[x]
      /\ \A z \in Sides : ColumnOf(z, id)' = IF z = side THEN c ELSE ColumnOf(z, id)
  BY <1>1, <1>2 DEF ColumnOf, Sides
<1>5. \A q : SizeIn(c, q) = IF q = p THEN s ELSE SizeIn(ColumnOf(side, id), q)
  BY <1>1, UpdateSizes
<1>6. LevelsOf(k)' = [l \in Levels |-> SizeIn(ColumnOf(l[1], id)', l[2])]
  BY <1>3 DEF LevelsOf, ColumnOf
<1>7. ASSUME NEW l \in Levels
      PROVE  SizeIn(ColumnOf(l[1], id)', l[2]) = IF l = l0 THEN s ELSE LevelsOf(k)[l]
  <2>1. l[1] \in Sides /\ l[2] \in Prices /\ l = <<l[1], l[2]>>
    BY DEF Levels
  <2>2. LevelsOf(k)[l] = SizeIn(ColumnOf(l[1], id), l[2])
    BY <1>1
  <2>3. CASE l[1] = side
    BY <1>4, <1>5, <2>1, <2>2, <2>3
  <2>4. CASE l[1] # side
    BY <1>4, <2>1, <2>2, <2>4
  <2>5. QED
    BY <2>3, <2>4
<1>8. DOMAIN LevelsOf(k) = Levels /\ l0 \in Levels
  BY <1>1 DEF Levels
<1> DEFINE b == [LevelsOf(k) EXCEPT ![l0] = s]
<1>9. LevelsOf(k)' = b
  <2>1. b = [l \in Levels |-> IF l = l0 THEN s ELSE LevelsOf(k)[l]]
    BY <1>8
  <2> HIDE DEF b, l0
  <2>2. QED
    BY <1>6, <1>7, <2>1
<1>10. \A j \in Keys \ {k} : LevelsOf(j)' = LevelsOf(j)
  BY <1>3, <1>4, OtherBooks
<1>11. levels' = [levels EXCEPT ![k] = b]
  <2> HIDE DEF b
  <2>1. QED
    BY <1>1, <1>9, <1>10, OneBook
<1>12. levels' = [levels EXCEPT ![k][l0] = s]
  <2>1. levels[k] = LevelsOf(k)
    BY <1>1 DEF levels
  <2>2. QED
    BY <1>11, <2>1
<1>13. QED
  BY <1>1, <1>8, <1>12, SameOperators DEF levels, Abstract!Set

LEMMA TruncateBookDepthTruncates ==
    ASSUME IInv, NEW k \in DOMAIN id_resolver, NEW d \in Depths,
           TruncateBookDepth(id_resolver[k], d)
    PROVE  k \in Keys /\ Abstract!Truncate(k, d)
<1> PICK id : id = id_resolver[k]
  OBVIOUS
<1> DEFINE b == TopOf(LevelsOf(k), d)
<1>1. /\ k \in Keys /\ id \in DOMAIN bids /\ id \in DOMAIN asks
      /\ DOMAIN bids = DOMAIN asks
      /\ \A side \in Sides : /\ ColumnOf(side, id) \in Columns
                             /\ InOrder(side, ColumnOf(side, id))
                             /\ Shows(LevelsOf(k), side, ColumnOf(side, id))
  BY LevelsOfKnown DEF IInv, OrderTypeOK
<1>2. /\ UNCHANGED id_resolver
      /\ bids' = [bids EXCEPT ![id] = Truncated(@, d)]
      /\ asks' = [asks EXCEPT ![id] = Truncated(@, d)]
  BY DEF TruncateBookDepth
<1>3. /\ \A x \in DOMAIN bids \ {id} : bids'[x] = bids[x] /\ asks'[x] = asks[x]
      /\ \A side \in Sides : ColumnOf(side, id)' = Truncated(ColumnOf(side, id), d)
  BY <1>1, <1>2 DEF ColumnOf, Sides
<1>4. LevelsOf(k)' = [l \in Levels |-> SizeIn(ColumnOf(l[1], id)', l[2])]
  BY <1>2 DEF LevelsOf, ColumnOf
<1>5. ASSUME NEW l \in Levels
      PROVE  SizeIn(ColumnOf(l[1], id)', l[2]) = b[l]
  <2>1. l[1] \in Sides /\ l[2] \in Prices /\ l = <<l[1], l[2]>>
    BY DEF Levels
  <2>2. Shows(b, l[1], Truncated(ColumnOf(l[1], id), d))
    BY <1>1, <2>1, CutIsTop
  <2> HIDE DEF b
  <2>3. QED
    BY <1>3, <2>1, <2>2 DEF Shows
<1>6. LevelsOf(k)' = b
  <2>1. b = [l \in Levels |-> b[l]]
    BY DEF TopOf
  <2> HIDE DEF b
  <2>2. QED
    BY <1>4, <1>5, <2>1
<1>7. \A j \in Keys \ {k} : LevelsOf(j)' = LevelsOf(j)
  BY <1>2, <1>3, OtherBooks
<1>8. levels' = [levels EXCEPT ![k] = b]
  <2> HIDE DEF b
  <2>1. QED
    BY <1>1, <1>6, <1>7, OneBook
<1>9. levels[k] = LevelsOf(k)
  BY <1>1 DEF levels
<1>10. levels' = [levels EXCEPT ![k] = Abstract!TopOf(@, d)]
  BY <1>8, <1>9, SameOperators
<1>11. QED
  BY <1>1, <1>10 DEF levels, Abstract!Truncate

LEMMA InitLevels == OrderInit => Abstract!Init
BY SameOperators DEF OrderInit, LevelsOf, Abstract!Init

LEMMA NextLevels == IInv /\ [OrderNext]_orderVars => [Abstract!Next]_levels
<1> SUFFICES ASSUME IInv, [OrderNext]_orderVars PROVE [Abstract!Next]_levels
  OBVIOUS
<1>0. \A id \in DOMAIN bids : \E k \in DOMAIN id_resolver : id = id_resolver[k]
  BY DEF IInv, OrderTypeOK
<1>1. ASSUME NEW k \in Keys, NewBook(k) PROVE levels' = levels
  BY <1>1, NewBookStutters
<1>2. ASSUME NEW id \in DOMAIN bids, ClearBook(id) PROVE Abstract!Next
  BY <1>0, <1>2, ClearBookClears DEF Abstract!Next
<1>3. ASSUME NEW id \in DOMAIN bids, NEW side \in Sides, NEW p \in Prices, NEW s \in Sizes,
             UpdateBook(id, side, p, s)
      PROVE  Abstract!Next
  <2> PICK k \in DOMAIN id_resolver : id = id_resolver[k]
    BY <1>0
  <2>1. k \in Keys /\ <<side, p>> \in Abstract!Levels /\ Abstract!Set(k, <<side, p>>, s)
    BY <1>3, UpdateBookSets
  <2>2. QED
    BY <2>1 DEF Abstract!Next
<1>4. ASSUME NEW id \in DOMAIN bids, NEW d \in Depths, TruncateBookDepth(id, d)
      PROVE  Abstract!Next
  BY <1>0, <1>4, TruncateBookDepthTruncates DEF Abstract!Next
<1>5. CASE UNCHANGED orderVars
  BY <1>5 DEF orderVars, levels, LevelsOf
<1>6. QED
  BY <1>1, <1>2, <1>3, <1>4, <1>5 DEF OrderNext

(* The sorted columns implement the book per key that PriceLevels          *)
(* describes: an update by binary search sets exactly its own level of its *)
(* own symbol, clear_book empties one book, truncate_book_depth keeps      *)
(* exactly the best levels, and new_book loses or mixes up none.           *)
THEOREM ColumnsImplementPriceLevels == OrderSpec => ImplementsPriceLevels
<1>1. OrderInit => Abstract!Init
  BY InitLevels
<1>2. IInv /\ [OrderNext]_orderVars => [Abstract!Next]_([k \in Keys |-> LevelsOf(k)])
  BY NextLevels DEF levels
<1>3. QED
  BY <1>1, <1>2, Invariant, PTL DEF OrderSpec, ImplementsPriceLevels, Abstract!Spec
=============================================================================
