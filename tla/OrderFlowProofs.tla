-------------------------- MODULE OrderFlowProofs --------------------------
(***************************************************************************)
(* The exchange's book and the engine's, for every price band, pool size   *)
(* and number of messages.                                                 *)
(***************************************************************************)
EXTENDS OrderFlow, TLAPS

QueuedOrder == [id : Nat \ {0}, quantity : Nat \ {0}]
Books == [Sides -> [Prices -> Seq(QueuedOrder)]]

\* An id rests in one place of the book only.
Unique(qs) ==
    \A s1, s2 \in Sides, p1, p2 \in Prices :
        \A i \in DOMAIN qs[s1][p1], j \in DOMAIN qs[s2][p2] :
            qs[s1][p1][i].id = qs[s2][p2][j].id => s1 = s2 /\ p1 = p2 /\ i = j
WellFormed(qs) == qs \in Books /\ Unique(qs)

\* The order at the i-th place of a queue, with its place.
OrderAt(qs, s, p, i) ==
    [id |-> qs[s][p][i].id, side |-> s, price |-> p, quantity |-> qs[s][p][i].quantity]

-----------------------------------------------------------------------------
(* What Orders and Ahead say of a book. *)

LEMMA OrdersIff ==
    ASSUME NEW qs, NEW o
    PROVE  o \in Orders(qs) <=>
             \E s \in Sides, p \in Prices : \E i \in DOMAIN qs[s][p] : o = OrderAt(qs, s, p, i)
<1> DEFINE At(w) == {[id |-> qs[w[1]][w[2]][i].id, side |-> w[1], price |-> w[2],
                      quantity |-> qs[w[1]][w[2]][i].quantity] : i \in DOMAIN qs[w[1]][w[2]]}
<1>0. Orders(qs) = UNION {At(w) : w \in Sides \X Prices} BY Zenon DEF Orders
<1>1. ASSUME o \in Orders(qs)
      PROVE  \E s \in Sides, p \in Prices : \E i \in DOMAIN qs[s][p] : o = OrderAt(qs, s, p, i)
  <2>1. PICK w \in Sides \X Prices : o \in At(w)
    <3> HIDE DEF At
    <3>1. \E T \in {At(w) : w \in Sides \X Prices} : o \in T BY <1>0, <1>1, Zenon
    <3> QED BY <3>1, Zenon
  <2>2. w[1] \in Sides /\ w[2] \in Prices BY Zenon
  <2> QED BY <2>1, <2>2, Zenon DEF OrderAt
<1>2. ASSUME NEW s \in Sides, NEW p \in Prices, NEW i \in DOMAIN qs[s][p], o = OrderAt(qs, s, p, i)
      PROVE  o \in Orders(qs)
  <2>1. <<s, p>> \in Sides \X Prices /\ <<s, p>>[1] = s /\ <<s, p>>[2] = p BY Zenon
  <2> DEFINE w == <<s, p>>
  <2> HIDE DEF w
  <2>2. w \in Sides \X Prices /\ w[1] = s /\ w[2] = p BY <2>1, Zenon DEF w
  <2>3. o \in At(w) BY <1>2, <2>2, Zenon DEF OrderAt
  <2> HIDE DEF At
  <2> QED BY <1>0, <2>2, <2>3, Zenon
<1> QED BY <1>1, <1>2, Zenon

LEMMA AheadIff ==
    ASSUME NEW qs, NEW a
    PROVE  a \in Ahead(qs) <=>
             \E s \in Sides, p \in Prices : \E j \in DOMAIN qs[s][p] : \E i \in 1 .. j - 1 :
                 a = <<qs[s][p][i].id, qs[s][p][j].id>>
<1> DEFINE At(w) == UNION {{<<qs[w[1]][w[2]][i].id, qs[w[1]][w[2]][j].id>> : i \in 1 .. j - 1} :
                           j \in DOMAIN qs[w[1]][w[2]]}
<1>0. Ahead(qs) = UNION {At(w) : w \in Sides \X Prices} BY Zenon DEF Ahead
<1>1. ASSUME a \in Ahead(qs)
      PROVE  \E s \in Sides, p \in Prices : \E j \in DOMAIN qs[s][p] : \E i \in 1 .. j - 1 :
                 a = <<qs[s][p][i].id, qs[s][p][j].id>>
  <2>1. PICK w \in Sides \X Prices : a \in At(w)
    <3> HIDE DEF At
    <3>1. \E T \in {At(w) : w \in Sides \X Prices} : a \in T BY <1>0, <1>1, Zenon
    <3> QED BY <3>1, Zenon
  <2>3. \E j \in DOMAIN qs[w[1]][w[2]] : \E i \in 1 .. j - 1 :
           a = <<qs[w[1]][w[2]][i].id, qs[w[1]][w[2]][j].id>>
    BY <2>1, Zenon
  <2>2. w[1] \in Sides /\ w[2] \in Prices BY Zenon
  <2> QED BY <2>2, <2>3, Zenon
<1>2. ASSUME NEW s \in Sides, NEW p \in Prices, NEW j \in DOMAIN qs[s][p], NEW i \in 1 .. j - 1,
             a = <<qs[s][p][i].id, qs[s][p][j].id>>
      PROVE  a \in Ahead(qs)
  <2>1. <<s, p>> \in Sides \X Prices /\ <<s, p>>[1] = s /\ <<s, p>>[2] = p BY Zenon
  <2> DEFINE w == <<s, p>>
  <2> HIDE DEF w
  <2>2. w \in Sides \X Prices /\ w[1] = s /\ w[2] = p BY <2>1, Zenon DEF w
  <2>3. a \in {<<qs[s][p][k].id, qs[s][p][j].id>> : k \in 1 .. j - 1} BY <1>2, Zenon
  <2>4. a \in At(w) BY <2>2, <2>3
  <2> HIDE DEF At
  <2> QED BY <1>0, <2>2, <2>4, Zenon
<1> QED BY <1>1, <1>2, Zenon

\* The position of an order of the book, found by its id.
LEMMA Spot ==
    ASSUME NEW qs, WellFormed(qs), NEW o \in Orders(qs)
    PROVE  /\ o.side \in Sides /\ o.price \in Prices
           /\ o.id \in Nat \ {0} /\ o.quantity \in Nat \ {0}
           /\ qs[o.side][o.price] \in Seq(QueuedOrder)
           /\ PositionOf(qs[o.side][o.price], o.id) \in DOMAIN qs[o.side][o.price]
           /\ o = OrderAt(qs, o.side, o.price, PositionOf(qs[o.side][o.price], o.id))
<1>1. PICK s \in Sides, p \in Prices : \E i \in DOMAIN qs[s][p] : o = OrderAt(qs, s, p, i)
  BY OrdersIff, Zenon
<1>2. PICK i \in DOMAIN qs[s][p] : o = OrderAt(qs, s, p, i) BY <1>1, Zenon
<1>3. o.side = s /\ o.price = p /\ o.id = qs[s][p][i].id /\ o.quantity = qs[s][p][i].quantity
  BY <1>2, Zenon DEF OrderAt
<1>4. qs[s][p] \in Seq(QueuedOrder) BY Zenon DEF WellFormed, Books
<1>5. qs[s][p][i] \in QueuedOrder BY <1>2, <1>4
<1>6. o.id \in Nat \ {0} /\ o.quantity \in Nat \ {0} BY <1>3, <1>5, Zenon DEF QueuedOrder
<1>7. PositionOf(qs[s][p], o.id) \in DOMAIN qs[s][p] /\ qs[s][p][PositionOf(qs[s][p], o.id)].id = o.id
  BY <1>2, <1>3, Zenon DEF PositionOf
<1>8. PositionOf(qs[s][p], o.id) = i BY <1>3, <1>7 DEF WellFormed, Unique
<1> QED BY <1>2, <1>3, <1>4, <1>6, <1>7, <1>8, Zenon

\* An id names one order of the book, and OrderOf finds it.
LEMMA OneOrder ==
    ASSUME NEW qs, WellFormed(qs), NEW o \in Orders(qs)
    PROVE  /\ \A x \in Orders(qs) : x.id = o.id => x = o
           /\ Known(qs, o.id) /\ OrderOf(qs, o.id) = o
<1>1. ASSUME NEW x \in Orders(qs), x.id = o.id PROVE x = o
  <2>1. PICK s \in Sides, p \in Prices : \E i \in DOMAIN qs[s][p] : o = OrderAt(qs, s, p, i)
    BY OrdersIff, Zenon
  <2>2. PICK i \in DOMAIN qs[s][p] : o = OrderAt(qs, s, p, i) BY <2>1, Zenon
  <2>3. PICK s2 \in Sides, p2 \in Prices : \E i2 \in DOMAIN qs[s2][p2] : x = OrderAt(qs, s2, p2, i2)
    BY OrdersIff, Zenon
  <2>4. PICK i2 \in DOMAIN qs[s2][p2] : x = OrderAt(qs, s2, p2, i2) BY <2>3, Zenon
  <2>5. o.id = qs[s][p][i].id /\ x.id = qs[s2][p2][i2].id BY <2>2, <2>4, Zenon DEF OrderAt
  <2>6. s = s2 /\ p = p2 /\ i = i2 BY <1>1, <2>5 DEF WellFormed, Unique
  <2> QED BY <2>2, <2>4, <2>6, Zenon
<1>2. Known(qs, o.id) BY Zenon DEF Known
<1>3. OrderOf(qs, o.id) \in Orders(qs) /\ OrderOf(qs, o.id).id = o.id
  BY <1>2, Zenon DEF OrderOf, Known
<1> QED BY <1>1, <1>2, <1>3, Zenon

\* OrderOf of a known id.
LEMMA KnownOrder ==
    ASSUME NEW qs, WellFormed(qs), NEW id, Known(qs, id)
    PROVE  OrderOf(qs, id) \in Orders(qs) /\ OrderOf(qs, id).id = id
BY Zenon DEF OrderOf, Known

-----------------------------------------------------------------------------
(* What the three changes to a queue do to the orders and their priority. *)

\* A new order goes behind all that rest at its price.
LEMMA AppendEffect ==
    ASSUME NEW qs, WellFormed(qs), NEW id \in Nat \ {0}, ~Known(qs, id),
           NEW side \in Sides, NEW price \in Prices, NEW quantity \in Nat \ {0}
    PROVE  /\ WellFormed(Appended(qs, id, side, price, quantity))
           /\ \A o : o \in Orders(Appended(qs, id, side, price, quantity)) <=>
                 \/ o \in Orders(qs)
                 \/ o = [id |-> id, side |-> side, price |-> price, quantity |-> quantity]
           /\ \A a : a \in Ahead(Appended(qs, id, side, price, quantity)) <=>
                 \/ a \in Ahead(qs)
                 \/ \E o \in Orders(qs) : o.side = side /\ o.price = price /\ a = <<o.id, id>>
<1> DEFINE new == [id |-> id, side |-> side, price |-> price, quantity |-> quantity]
           qs2 == Appended(qs, id, side, price, quantity)
           q == qs[side][price]
           n == Len(q)
<1>1. q \in Seq(QueuedOrder) /\ n \in Nat /\ DOMAIN q = 1 .. n
  BY DEF WellFormed, Books
<1>2. [id |-> id, quantity |-> quantity] \in QueuedOrder BY Zenon DEF QueuedOrder
<1>3. qs2 \in Books
  <2>1. Append(q, [id |-> id, quantity |-> quantity]) \in Seq(QueuedOrder) BY <1>1, <1>2
  <2> QED BY <2>1, Zenon DEF WellFormed, Books, Appended
<1>4. ASSUME NEW s \in Sides, NEW p \in Prices, ~(s = side /\ p = price)
      PROVE  qs2[s][p] = qs[s][p]
  BY <1>4, Zenon DEF WellFormed, Books, Appended
<1>5. qs2[side][price] = Append(q, [id |-> id, quantity |-> quantity])
  BY Zenon DEF WellFormed, Books, Appended
<1>6. /\ DOMAIN qs2[side][price] = 1 .. n + 1
      /\ \A i \in 1 .. n : qs2[side][price][i] = q[i]
      /\ qs2[side][price][n + 1] = [id |-> id, quantity |-> quantity]
  BY <1>1, <1>2, <1>5
<1>7. ASSUME NEW s \in Sides, NEW p \in Prices, NEW i \in DOMAIN qs[s][p]
      PROVE  OrderAt(qs, s, p, i) \in Orders(qs) /\ qs[s][p][i].id # id
  <2>1. OrderAt(qs, s, p, i) \in Orders(qs) BY OrdersIff, Zenon
  <2>2. OrderAt(qs, s, p, i).id = qs[s][p][i].id BY Zenon DEF OrderAt
  <2> QED BY <2>1, <2>2, Zenon DEF Known
<1> HIDE DEF qs2, new, q, n
<1>8. ASSUME NEW s \in Sides, NEW p \in Prices, NEW k \in DOMAIN qs2[s][p]
      PROVE  \/ /\ k \in DOMAIN qs[s][p] /\ qs2[s][p][k] = qs[s][p][k] /\ qs2[s][p][k].id # id
                /\ ~(s = side /\ p = price /\ k = n + 1)
             \/ s = side /\ p = price /\ k = n + 1 /\ qs2[s][p][k].id = id
  <2>1. CASE s = side /\ p = price
    <3>1. CASE k \in 1 .. n BY <1>1, <1>6, <1>7, <2>1, <3>1 DEF q
    <3>2. CASE k = n + 1 BY <1>6, <2>1, <3>2
    <3> QED BY <1>1, <1>6, <2>1, <3>1, <3>2
  <2>2. CASE ~(s = side /\ p = price) BY <1>4, <1>7, <2>2
  <2> QED BY <2>1, <2>2, Zenon
<1>9. ASSUME NEW s \in Sides, NEW p \in Prices, NEW k \in DOMAIN qs[s][p]
      PROVE  k \in DOMAIN qs2[s][p] /\ qs2[s][p][k] = qs[s][p][k]
  <2>1. CASE s = side /\ p = price
    <3>1. k \in 1 .. n /\ qs[s][p] = q BY <1>1, <2>1, Zenon DEF q
    <3>2. k \in 1 .. n + 1 BY <1>1, <3>1
    <3>3. k \in DOMAIN qs2[s][p] BY <1>6, <2>1, <3>2, Zenon
    <3>4. qs2[s][p][k] = q[k] BY <1>6, <2>1, <3>1, Zenon
    <3> QED BY <3>1, <3>3, <3>4, Zenon
  <2>2. CASE ~(s = side /\ p = price) BY <1>4, <2>2, Zenon
  <2> QED BY <2>1, <2>2, Zenon
<1>10. Unique(qs2)
  <2> SUFFICES ASSUME NEW s1 \in Sides, NEW s2 \in Sides, NEW p1 \in Prices, NEW p2 \in Prices,
                      NEW i \in DOMAIN qs2[s1][p1], NEW j \in DOMAIN qs2[s2][p2],
                      qs2[s1][p1][i].id = qs2[s2][p2][j].id
               PROVE  s1 = s2 /\ p1 = p2 /\ i = j
    BY Zenon DEF Unique
  <2>2. \/ i \in DOMAIN qs[s1][p1] /\ qs2[s1][p1][i] = qs[s1][p1][i] /\ qs2[s1][p1][i].id # id
        \/ s1 = side /\ p1 = price /\ i = n + 1 /\ qs2[s1][p1][i].id = id
    BY <1>8, Zenon
  <2>3. \/ j \in DOMAIN qs[s2][p2] /\ qs2[s2][p2][j] = qs[s2][p2][j] /\ qs2[s2][p2][j].id # id
        \/ s2 = side /\ p2 = price /\ j = n + 1 /\ qs2[s2][p2][j].id = id
    BY <1>8, Zenon
  <2> QED BY <2>2, <2>3, SMTT(40) DEF WellFormed, Unique
<1>11. ASSUME NEW o PROVE o \in Orders(qs2) <=> o \in Orders(qs) \/ o = new
  <2>1. ASSUME o \in Orders(qs2) PROVE o \in Orders(qs) \/ o = new
    <3>1. PICK s \in Sides, p \in Prices : \E i \in DOMAIN qs2[s][p] : o = OrderAt(qs2, s, p, i)
      BY <2>1, OrdersIff, Zenon
    <3>2. PICK i \in DOMAIN qs2[s][p] : o = OrderAt(qs2, s, p, i) BY <3>1, Zenon
    <3>3. CASE s = side /\ p = price /\ i = n + 1
      BY <1>6, <3>2, <3>3 DEF OrderAt, new
    <3>4. CASE ~(s = side /\ p = price /\ i = n + 1)
      <4>1. i \in DOMAIN qs[s][p] /\ qs2[s][p][i] = qs[s][p][i] BY <1>8, <3>4, Zenon
      <4>2. o = OrderAt(qs, s, p, i) BY <3>2, <4>1, Zenon DEF OrderAt
      <4> QED BY <1>7, <4>1, <4>2, Zenon
    <3> QED BY <3>3, <3>4, Zenon
  <2>2. ASSUME o \in Orders(qs) PROVE o \in Orders(qs2)
    <3>1. PICK s \in Sides, p \in Prices : \E i \in DOMAIN qs[s][p] : o = OrderAt(qs, s, p, i)
      BY <2>2, OrdersIff, Zenon
    <3>2. PICK i \in DOMAIN qs[s][p] : o = OrderAt(qs, s, p, i) BY <3>1, Zenon
    <3>3. i \in DOMAIN qs2[s][p] /\ qs2[s][p][i] = qs[s][p][i] BY <1>9, Zenon
    <3>4. o = OrderAt(qs2, s, p, i) BY <3>2, <3>3, Zenon DEF OrderAt
    <3> QED BY <3>3, <3>4, OrdersIff, Zenon
  <2>3. ASSUME o = new PROVE o \in Orders(qs2)
    <3>1. n + 1 \in DOMAIN qs2[side][price] BY <1>1, <1>6
    <3>2. o = OrderAt(qs2, side, price, n + 1) BY <1>6, <2>3 DEF OrderAt, new
    <3> QED BY <3>1, <3>2, OrdersIff, Zenon
  <2> QED BY <2>1, <2>2, <2>3, Zenon
<1>12. ASSUME NEW s \in Sides, NEW p \in Prices
       PROVE  DOMAIN qs[s][p] = 1 .. Len(qs[s][p]) /\ Len(qs[s][p]) \in Nat
  BY DEF WellFormed, Books
<1>13. ASSUME NEW a
       PROVE  a \in Ahead(qs2) <=>
                 \/ a \in Ahead(qs)
                 \/ \E o \in Orders(qs) : o.side = side /\ o.price = price /\ a = <<o.id, id>>
  <2>1. ASSUME a \in Ahead(qs2)
        PROVE  \/ a \in Ahead(qs)
               \/ \E o \in Orders(qs) : o.side = side /\ o.price = price /\ a = <<o.id, id>>
    <3>1. PICK s \in Sides, p \in Prices : \E j \in DOMAIN qs2[s][p] : \E i \in 1 .. j - 1 :
             a = <<qs2[s][p][i].id, qs2[s][p][j].id>>
      BY <2>1, AheadIff
    <3>2. PICK j \in DOMAIN qs2[s][p] : \E i \in 1 .. j - 1 :
             a = <<qs2[s][p][i].id, qs2[s][p][j].id>>
      BY <3>1, Zenon
    <3>3. PICK i \in 1 .. j - 1 : a = <<qs2[s][p][i].id, qs2[s][p][j].id>> BY <3>2, Zenon
    <3>4. CASE s = side /\ p = price /\ j = n + 1
      <4>1. i \in 1 .. n /\ i \in DOMAIN qs[s][p] BY <1>1, <3>3, <3>4 DEF q
      <4>2. qs2[s][p][i] = qs[s][p][i] BY <1>9, <4>1, Zenon
      <4>3. a = <<qs[s][p][i].id, id>> BY <1>6, <3>3, <3>4, <4>2
      <4>4. OrderAt(qs, s, p, i) \in Orders(qs) BY <1>7, <4>1, Zenon
      <4>5. /\ OrderAt(qs, s, p, i).id = qs[s][p][i].id
            /\ OrderAt(qs, s, p, i).side = side /\ OrderAt(qs, s, p, i).price = price
        BY <3>4, Zenon DEF OrderAt
      <4> QED BY <4>3, <4>4, <4>5, Zenon
    <3>5. CASE ~(s = side /\ p = price /\ j = n + 1)
      <4>1. j \in DOMAIN qs[s][p] /\ qs2[s][p][j] = qs[s][p][j] BY <1>8, <3>5, Zenon
      <4>2. i \in DOMAIN qs[s][p] BY <1>12, <3>3, <4>1
      <4>3. qs2[s][p][i] = qs[s][p][i] BY <1>9, <4>2, Zenon
      <4>4. a = <<qs[s][p][i].id, qs[s][p][j].id>> BY <3>3, <4>1, <4>3, Zenon
      <4> QED BY <3>3, <4>1, <4>4, AheadIff, Zenon
    <3> QED BY <3>4, <3>5, Zenon
  <2>2. ASSUME a \in Ahead(qs) PROVE a \in Ahead(qs2)
    <3>1. PICK s \in Sides, p \in Prices : \E j \in DOMAIN qs[s][p] : \E i \in 1 .. j - 1 :
             a = <<qs[s][p][i].id, qs[s][p][j].id>>
      BY <2>2, AheadIff
    <3>2. PICK j \in DOMAIN qs[s][p] : \E i \in 1 .. j - 1 :
             a = <<qs[s][p][i].id, qs[s][p][j].id>>
      BY <3>1, Zenon
    <3>3. PICK i \in 1 .. j - 1 : a = <<qs[s][p][i].id, qs[s][p][j].id>> BY <3>2, Zenon
    <3>4. i \in DOMAIN qs[s][p] BY <1>12, <3>3
    <3>5. j \in DOMAIN qs2[s][p] /\ qs2[s][p][j] = qs[s][p][j] /\ qs2[s][p][i] = qs[s][p][i]
      BY <1>9, <3>4, Zenon
    <3>6. a = <<qs2[s][p][i].id, qs2[s][p][j].id>> BY <3>3, <3>5, Zenon
    <3> QED BY <3>5, <3>6, AheadIff, Zenon
  <2>3. ASSUME NEW o \in Orders(qs), o.side = side, o.price = price, a = <<o.id, id>>
        PROVE  a \in Ahead(qs2)
    <3>1. PICK s \in Sides, p \in Prices : \E i \in DOMAIN qs[s][p] : o = OrderAt(qs, s, p, i)
      BY OrdersIff, Zenon
    <3>2. PICK i \in DOMAIN qs[s][p] : o = OrderAt(qs, s, p, i) BY <3>1, Zenon
    <3>3. s = side /\ p = price /\ o.id = qs[s][p][i].id BY <2>3, <3>2, Zenon DEF OrderAt
    <3>4. i \in 1 .. (n + 1) - 1 /\ n + 1 \in DOMAIN qs2[side][price] BY <1>1, <1>6, <3>2, <3>3 DEF q
    <3>5. qs2[s][p][i] = qs[s][p][i] BY <1>9, Zenon
    <3>6. a = <<qs2[side][price][i].id, qs2[side][price][n + 1].id>>
      BY <1>6, <2>3, <3>3, <3>5
    <3> QED BY <3>4, <3>6, AheadIff, Zenon
  <2> QED BY <2>1, <2>2, <2>3, Zenon
<1> QED BY <1>3, <1>10, <1>11, <1>13, Zenon DEF qs2, new, WellFormed

\* An order that is taken off leaves the others where they are, in their order.
LEMMA RemoveEffect ==
    ASSUME NEW qs, WellFormed(qs), NEW o \in Orders(qs)
    PROVE  /\ WellFormed(Removed(qs, o))
           /\ \A x : x \in Orders(Removed(qs, o)) <=> x \in Orders(qs) /\ x.id # o.id
           /\ \A a : a \in Ahead(Removed(qs, o)) <=>
                        a \in Ahead(qs) /\ a[1] # o.id /\ a[2] # o.id
<1> DEFINE qs2 == Removed(qs, o)
           q == qs[o.side][o.price]
           n == Len(q)
           k == PositionOf(q, o.id)
           Old(s, p, i) == IF s = o.side /\ p = o.price THEN IF i < k THEN i ELSE i + 1 ELSE i
<1>1. /\ o.side \in Sides /\ o.price \in Prices /\ q \in Seq(QueuedOrder)
      /\ k \in DOMAIN q /\ q[k].id = o.id
  <2>1. o.id = OrderAt(qs, o.side, o.price, k).id BY Spot, Zenon
  <2>2. OrderAt(qs, o.side, o.price, k).id = q[k].id BY Zenon DEF OrderAt
  <2> QED BY <2>1, <2>2, Spot, Zenon
<1>2. n \in Nat /\ DOMAIN q = 1 .. n /\ k \in 1 .. n BY <1>1
<1>3. \A s \in Sides, p \in Prices : qs[s][p] \in Seq(QueuedOrder) BY Zenon DEF WellFormed, Books
<1>4. \A s \in Sides, p \in Prices :
        qs2[s][p] = IF s = o.side /\ p = o.price THEN Without(q, k) ELSE qs[s][p]
  BY <1>1, Zenon DEF WellFormed, Books, Removed
<1>5. /\ DOMAIN Without(q, k) = 1 .. n - 1 /\ Without(q, k) \in Seq(QueuedOrder)
      /\ \A i \in 1 .. n - 1 : Without(q, k)[i] = IF i < k THEN q[i] ELSE q[i + 1]
  <2>1. \A i \in 1 .. n - 1 : (IF i < k THEN q[i] ELSE q[i + 1]) \in QueuedOrder BY <1>1, <1>2, SMTT(40)
  <2>2. n - 1 \in Nat BY <1>2
  <2> QED BY <2>1, <2>2 DEF Without
<1>6. qs2 \in Books
  BY <1>1, <1>5, Zenon DEF WellFormed, Books, Removed
<1>7. ASSUME NEW s \in Sides, NEW p \in Prices
      PROVE  DOMAIN qs[s][p] = 1 .. Len(qs[s][p]) /\ Len(qs[s][p]) \in Nat
             /\ DOMAIN qs2[s][p] = 1 .. Len(qs2[s][p]) /\ Len(qs2[s][p]) \in Nat
  BY <1>6 DEF WellFormed, Books
<1> HIDE DEF qs2, q, n, k
<1>8. ASSUME NEW s \in Sides, NEW p \in Prices, NEW i \in DOMAIN qs2[s][p]
      PROVE  /\ Old(s, p, i) \in DOMAIN qs[s][p] /\ qs2[s][p][i] = qs[s][p][Old(s, p, i)]
             /\ qs2[s][p][i].id # o.id
  <2>1. /\ Old(s, p, i) \in DOMAIN qs[s][p] /\ qs2[s][p][i] = qs[s][p][Old(s, p, i)]
        /\ ~(s = o.side /\ p = o.price /\ Old(s, p, i) = k)
    <3>1. CASE s = o.side /\ p = o.price
      <4>1. qs2[s][p] = Without(q, k) /\ qs[s][p] = q BY <1>4, <3>1, Zenon DEF q
      <4>2. i \in 1 .. n - 1 /\ Old(s, p, i) = IF i < k THEN i ELSE i + 1 BY <1>5, <3>1, <4>1, Zenon
      <4>3. Old(s, p, i) \in 1 .. n /\ Old(s, p, i) # k BY <1>2, <4>2
      <4> QED BY <1>2, <1>5, <4>1, <4>2, <4>3, Zenon
    <3>2. CASE ~(s = o.side /\ p = o.price) BY <1>4, <3>2, Zenon
    <3> QED BY <3>1, <3>2, Zenon
  <2> HIDE DEF Old
  <2> QED BY <1>1, <2>1 DEF WellFormed, Unique, q
<1>9. ASSUME NEW s \in Sides, NEW p \in Prices, NEW i \in DOMAIN qs[s][p], qs[s][p][i].id # o.id
      PROVE  \E j \in DOMAIN qs2[s][p] : Old(s, p, j) = i
  <2>1. CASE s = o.side /\ p = o.price
    <3>1. i \in 1 .. n /\ i # k BY <1>1, <1>2, <1>9, <2>1, Zenon DEF q
    <3>2. DOMAIN qs2[s][p] = 1 .. n - 1 BY <1>4, <1>5, <2>1, Zenon
    <3>3. CASE i < k
      <4>1. i \in 1 .. n - 1 /\ Old(s, p, i) = i BY <1>2, <2>1, <3>1, <3>3
      <4> QED BY <3>2, <4>1, Zenon
    <3>4. CASE i > k
      <4>1. i - 1 \in 1 .. n - 1 /\ Old(s, p, i - 1) = i BY <1>2, <2>1, <3>1, <3>4
      <4> QED BY <3>2, <4>1, Zenon
    <3> QED BY <1>2, <3>1, <3>3, <3>4
  <2>2. CASE ~(s = o.side /\ p = o.price) BY <1>4, <2>2, Zenon
  <2> QED BY <2>1, <2>2, Zenon
<1>10. ASSUME NEW s, NEW p, NEW i \in Int, NEW j \in Int
       PROVE  Old(s, p, i) \in Int /\ (i < j <=> Old(s, p, i) < Old(s, p, j))
              /\ (Old(s, p, i) = Old(s, p, j) => i = j)
  BY <1>2
<1> HIDE DEF Old
<1>11. Unique(qs2)
  <2> SUFFICES ASSUME NEW s1 \in Sides, NEW s2 \in Sides, NEW p1 \in Prices, NEW p2 \in Prices,
                      NEW i \in DOMAIN qs2[s1][p1], NEW j \in DOMAIN qs2[s2][p2],
                      qs2[s1][p1][i].id = qs2[s2][p2][j].id
               PROVE  s1 = s2 /\ p1 = p2 /\ i = j
    BY Zenon DEF Unique
  <2>1. /\ Old(s1, p1, i) \in DOMAIN qs[s1][p1] /\ qs2[s1][p1][i] = qs[s1][p1][Old(s1, p1, i)]
        /\ Old(s2, p2, j) \in DOMAIN qs[s2][p2] /\ qs2[s2][p2][j] = qs[s2][p2][Old(s2, p2, j)]
    BY <1>8, Zenon
  <2>2. s1 = s2 /\ p1 = p2 /\ Old(s1, p1, i) = Old(s2, p2, j)
    BY <2>1 DEF WellFormed, Unique
  <2>3. i \in Int /\ j \in Int BY <1>7
  <2> QED BY <1>10, <2>2, <2>3, Zenon
<1>12. ASSUME NEW x PROVE x \in Orders(qs2) <=> x \in Orders(qs) /\ x.id # o.id
  <2>1. ASSUME x \in Orders(qs2) PROVE x \in Orders(qs) /\ x.id # o.id
    <3>1. PICK s \in Sides, p \in Prices : \E i \in DOMAIN qs2[s][p] : x = OrderAt(qs2, s, p, i)
      BY <2>1, OrdersIff, Zenon
    <3>2. PICK i \in DOMAIN qs2[s][p] : x = OrderAt(qs2, s, p, i) BY <3>1, Zenon
    <3>3. /\ Old(s, p, i) \in DOMAIN qs[s][p] /\ qs2[s][p][i] = qs[s][p][Old(s, p, i)]
          /\ qs2[s][p][i].id # o.id
      BY <1>8, Zenon
    <3>4. x = OrderAt(qs, s, p, Old(s, p, i)) /\ x.id # o.id BY <3>2, <3>3, Zenon DEF OrderAt
    <3> QED BY <3>3, <3>4, OrdersIff, Zenon
  <2>2. ASSUME x \in Orders(qs), x.id # o.id PROVE x \in Orders(qs2)
    <3>1. PICK s \in Sides, p \in Prices : \E i \in DOMAIN qs[s][p] : x = OrderAt(qs, s, p, i)
      BY <2>2, OrdersIff, Zenon
    <3>2. PICK i \in DOMAIN qs[s][p] : x = OrderAt(qs, s, p, i) BY <3>1, Zenon
    <3>3. qs[s][p][i].id # o.id BY <2>2, <3>2, Zenon DEF OrderAt
    <3>4. PICK j \in DOMAIN qs2[s][p] : Old(s, p, j) = i BY <1>9, <3>3, Zenon
    <3>5. qs2[s][p][j] = qs[s][p][i] BY <1>8, <3>4, Zenon
    <3>6. x = OrderAt(qs2, s, p, j) BY <3>2, <3>5, Zenon DEF OrderAt
    <3> QED BY <3>6, OrdersIff, Zenon
  <2> QED BY <2>1, <2>2, Zenon
<1>13. ASSUME NEW a
       PROVE  a \in Ahead(qs2) <=> a \in Ahead(qs) /\ a[1] # o.id /\ a[2] # o.id
  <2>1. ASSUME a \in Ahead(qs2) PROVE a \in Ahead(qs) /\ a[1] # o.id /\ a[2] # o.id
    <3>1. PICK s \in Sides, p \in Prices : \E j \in DOMAIN qs2[s][p] : \E i \in 1 .. j - 1 :
             a = <<qs2[s][p][i].id, qs2[s][p][j].id>>
      BY <2>1, AheadIff
    <3>2. PICK j \in DOMAIN qs2[s][p] : \E i \in 1 .. j - 1 :
             a = <<qs2[s][p][i].id, qs2[s][p][j].id>>
      BY <3>1, Zenon
    <3>3. PICK i \in 1 .. j - 1 : a = <<qs2[s][p][i].id, qs2[s][p][j].id>> BY <3>2, Zenon
    <3>4. i \in DOMAIN qs2[s][p] /\ i \in Int /\ j \in Int /\ i < j BY <1>7, <3>3
    <3>5. /\ Old(s, p, i) \in DOMAIN qs[s][p] /\ qs2[s][p][i] = qs[s][p][Old(s, p, i)]
          /\ Old(s, p, j) \in DOMAIN qs[s][p] /\ qs2[s][p][j] = qs[s][p][Old(s, p, j)]
          /\ qs2[s][p][i].id # o.id /\ qs2[s][p][j].id # o.id
      BY <1>8, <3>4, Zenon
    <3>6. Old(s, p, i) < Old(s, p, j) BY <1>10, <3>4, Zenon
    <3>7. Old(s, p, i) \in 1 .. Old(s, p, j) - 1 BY <1>7, <3>5, <3>6
    <3>8. a = <<qs[s][p][Old(s, p, i)].id, qs[s][p][Old(s, p, j)].id>> /\ a[1] # o.id /\ a[2] # o.id
      BY <3>3, <3>5, Zenon
    <3> QED BY <3>5, <3>7, <3>8, AheadIff, Zenon
  <2>2. ASSUME a \in Ahead(qs), a[1] # o.id, a[2] # o.id PROVE a \in Ahead(qs2)
    <3>1. PICK s \in Sides, p \in Prices : \E j \in DOMAIN qs[s][p] : \E i \in 1 .. j - 1 :
             a = <<qs[s][p][i].id, qs[s][p][j].id>>
      BY <2>2, AheadIff
    <3>2. PICK j \in DOMAIN qs[s][p] : \E i \in 1 .. j - 1 :
             a = <<qs[s][p][i].id, qs[s][p][j].id>>
      BY <3>1, Zenon
    <3>3. PICK i \in 1 .. j - 1 : a = <<qs[s][p][i].id, qs[s][p][j].id>> BY <3>2, Zenon
    <3>4. i \in DOMAIN qs[s][p] /\ i < j BY <1>7, <3>3
    <3>5. qs[s][p][i].id # o.id /\ qs[s][p][j].id # o.id BY <2>2, <3>3, Zenon
    <3>6. PICK i2 \in DOMAIN qs2[s][p] : Old(s, p, i2) = i BY <1>9, <3>4, <3>5, Zenon
    <3>7. PICK j2 \in DOMAIN qs2[s][p] : Old(s, p, j2) = j BY <1>9, <3>5, Zenon
    <3>8. i2 \in Int /\ j2 \in Int /\ i2 >= 1 BY <1>7
    <3>9. i2 < j2 BY <1>10, <3>4, <3>6, <3>7, <3>8, Zenon
    <3>10. i2 \in 1 .. j2 - 1 BY <3>8, <3>9
    <3>11. qs2[s][p][i2] = qs[s][p][i] /\ qs2[s][p][j2] = qs[s][p][j]
      BY <1>8, <3>6, <3>7, Zenon
    <3>12. a = <<qs2[s][p][i2].id, qs2[s][p][j2].id>> BY <3>3, <3>11, Zenon
    <3> QED BY <3>10, <3>12, AheadIff, Zenon
  <2> QED BY <2>1, <2>2, Zenon
<1> QED BY <1>6, <1>11, <1>12, <1>13, Zenon DEF qs2, WellFormed

\* A new quantity changes neither the place nor the priority of an order.
LEMMA ResizeEffect ==
    ASSUME NEW qs, WellFormed(qs), NEW o \in Orders(qs), NEW quantity \in Nat \ {0}
    PROVE  /\ WellFormed(Resized(qs, o, quantity))
           /\ \A x : x \in Orders(Resized(qs, o, quantity)) <=>
                 \/ x \in Orders(qs) /\ x.id # o.id
                 \/ x = [o EXCEPT !.quantity = quantity]
           /\ Ahead(Resized(qs, o, quantity)) = Ahead(qs)
<1> DEFINE qs2 == Resized(qs, o, quantity)
           q == qs[o.side][o.price]
           k == PositionOf(q, o.id)
           new == [id |-> o.id, quantity |-> quantity]
<1>1. /\ o.side \in Sides /\ o.price \in Prices /\ q \in Seq(QueuedOrder)
      /\ k \in DOMAIN q /\ o = OrderAt(qs, o.side, o.price, k)
  BY Spot, Zenon
<1>2. q[k].id = o.id BY <1>1 DEF OrderAt
<1>3. new \in QueuedOrder BY Spot, Zenon DEF QueuedOrder
<1>4. \A s \in Sides, p \in Prices :
        qs2[s][p] = IF s = o.side /\ p = o.price THEN [q EXCEPT ![k] = new] ELSE qs[s][p]
  BY <1>1, Zenon DEF WellFormed, Books, Resized
<1>5. [q EXCEPT ![k] = new] \in Seq(QueuedOrder) BY <1>1, <1>3
<1>6. qs2 \in Books BY <1>1, <1>5, Zenon DEF WellFormed, Books, Resized
<1> HIDE DEF qs2, q, k
<1>7. ASSUME NEW s \in Sides, NEW p \in Prices
      PROVE  /\ DOMAIN qs2[s][p] = DOMAIN qs[s][p]
             /\ \A i \in DOMAIN qs[s][p] : qs2[s][p][i].id = qs[s][p][i].id
             /\ \A i \in DOMAIN qs[s][p] : qs[s][p][i].id # o.id => qs2[s][p][i] = qs[s][p][i]
  <2>1. CASE s = o.side /\ p = o.price
    <3>1. qs2[s][p] = [q EXCEPT ![k] = new] /\ qs[s][p] = q BY <1>4, <2>1, Zenon DEF q
    <3> QED BY <1>1, <1>2, <3>1
  <2>2. CASE ~(s = o.side /\ p = o.price) BY <1>4, <2>2, Zenon
  <2> QED BY <2>1, <2>2, Zenon
<1>8. qs2[o.side][o.price][k] = new BY <1>1, <1>4, Zenon
<1>9. Unique(qs2)
  <2> SUFFICES ASSUME NEW s1 \in Sides, NEW s2 \in Sides, NEW p1 \in Prices, NEW p2 \in Prices,
                      NEW i \in DOMAIN qs2[s1][p1], NEW j \in DOMAIN qs2[s2][p2],
                      qs2[s1][p1][i].id = qs2[s2][p2][j].id
               PROVE  s1 = s2 /\ p1 = p2 /\ i = j
    BY Zenon DEF Unique
  <2>1. /\ i \in DOMAIN qs[s1][p1] /\ qs2[s1][p1][i].id = qs[s1][p1][i].id
        /\ j \in DOMAIN qs[s2][p2] /\ qs2[s2][p2][j].id = qs[s2][p2][j].id
    BY <1>7
  <2>2. qs[s1][p1][i].id = qs[s2][p2][j].id BY <2>1, Zenon
  <2> QED BY <2>1, <2>2 DEF WellFormed, Unique
<1>10. ASSUME NEW a PROVE a \in Ahead(qs2) <=> a \in Ahead(qs)
  <2>1. ASSUME NEW s \in Sides, NEW p \in Prices, NEW j \in DOMAIN qs[s][p], NEW i \in 1 .. j - 1
        PROVE  qs2[s][p][i].id = qs[s][p][i].id /\ qs2[s][p][j].id = qs[s][p][j].id
    <3>1. i \in DOMAIN qs[s][p] BY DEF WellFormed, Books
    <3> QED BY <1>7, <3>1, Zenon
  <2>2. ASSUME a \in Ahead(qs2) PROVE a \in Ahead(qs)
    <3>1. PICK s \in Sides, p \in Prices : \E j \in DOMAIN qs2[s][p] : \E i \in 1 .. j - 1 :
             a = <<qs2[s][p][i].id, qs2[s][p][j].id>>
      BY <2>2, AheadIff
    <3>2. PICK j \in DOMAIN qs[s][p] : \E i \in 1 .. j - 1 :
             a = <<qs2[s][p][i].id, qs2[s][p][j].id>>
      BY <1>7, <3>1, Zenon
    <3>3. PICK i \in 1 .. j - 1 : a = <<qs2[s][p][i].id, qs2[s][p][j].id>> BY <3>2, Zenon
    <3>4. a = <<qs[s][p][i].id, qs[s][p][j].id>> BY <2>1, <3>3, Zenon
    <3> QED BY <3>4, AheadIff, Zenon
  <2>3. ASSUME a \in Ahead(qs) PROVE a \in Ahead(qs2)
    <3>1. PICK s \in Sides, p \in Prices : \E j \in DOMAIN qs[s][p] : \E i \in 1 .. j - 1 :
             a = <<qs[s][p][i].id, qs[s][p][j].id>>
      BY <2>3, AheadIff
    <3>2. PICK j \in DOMAIN qs[s][p] : \E i \in 1 .. j - 1 :
             a = <<qs[s][p][i].id, qs[s][p][j].id>>
      BY <3>1, Zenon
    <3>3. PICK i \in 1 .. j - 1 : a = <<qs[s][p][i].id, qs[s][p][j].id>> BY <3>2, Zenon
    <3>4. a = <<qs2[s][p][i].id, qs2[s][p][j].id>> BY <2>1, <3>3, Zenon
    <3>5. j \in DOMAIN qs2[s][p] BY <1>7, Zenon
    <3> QED BY <3>4, <3>5, AheadIff, Zenon
  <2> QED BY <2>2, <2>3, Zenon
<1>11. ASSUME NEW x
       PROVE  x \in Orders(qs2) <=>
                 \/ x \in Orders(qs) /\ x.id # o.id
                 \/ x = [o EXCEPT !.quantity = quantity]
  <2>0. [o EXCEPT !.quantity = quantity] = OrderAt(qs2, o.side, o.price, k)
    BY <1>1, <1>2, <1>8 DEF OrderAt
  <2>1. ASSUME x \in Orders(qs2)
        PROVE  (x \in Orders(qs) /\ x.id # o.id) \/ x = [o EXCEPT !.quantity = quantity]
    <3>1. PICK s \in Sides, p \in Prices : \E i \in DOMAIN qs2[s][p] : x = OrderAt(qs2, s, p, i)
      BY <2>1, OrdersIff, Zenon
    <3>2. PICK i \in DOMAIN qs2[s][p] : x = OrderAt(qs2, s, p, i) BY <3>1, Zenon
    <3>3. i \in DOMAIN qs[s][p] BY <1>7, Zenon
    <3>4. CASE qs[s][p][i].id = o.id
      <4>1. s = o.side /\ p = o.price /\ i = k
        BY <1>1, <1>2, <3>3, <3>4 DEF WellFormed, Unique, q
      <4> QED BY <2>0, <3>2, <4>1, Zenon
    <3>5. CASE qs[s][p][i].id # o.id
      <4>1. qs2[s][p][i] = qs[s][p][i] BY <1>7, <3>3, <3>5, Zenon
      <4>2. x = OrderAt(qs, s, p, i) /\ x.id # o.id BY <3>2, <3>5, <4>1, Zenon DEF OrderAt
      <4> QED BY <3>3, <4>2, OrdersIff, Zenon
    <3> QED BY <3>4, <3>5, Zenon
  <2>2. ASSUME x \in Orders(qs), x.id # o.id PROVE x \in Orders(qs2)
    <3>1. PICK s \in Sides, p \in Prices : \E i \in DOMAIN qs[s][p] : x = OrderAt(qs, s, p, i)
      BY <2>2, OrdersIff, Zenon
    <3>2. PICK i \in DOMAIN qs[s][p] : x = OrderAt(qs, s, p, i) BY <3>1, Zenon
    <3>3. qs[s][p][i].id # o.id BY <2>2, <3>2, Zenon DEF OrderAt
    <3>4. i \in DOMAIN qs2[s][p] /\ qs2[s][p][i] = qs[s][p][i] BY <1>7, <3>3, Zenon
    <3>5. x = OrderAt(qs2, s, p, i) BY <3>2, <3>4, Zenon DEF OrderAt
    <3> QED BY <3>4, <3>5, OrdersIff, Zenon
  <2>3. ASSUME x = [o EXCEPT !.quantity = quantity] PROVE x \in Orders(qs2)
    <3>1. k \in DOMAIN qs2[o.side][o.price] BY <1>1, <1>7, Zenon DEF q
    <3> QED BY <1>1, <2>0, <2>3, <3>1, OrdersIff, Zenon
  <2> QED BY <2>1, <2>2, <2>3, Zenon
<1> QED BY <1>6, <1>9, <1>10, <1>11, Zenon DEF qs2, WellFormed

\* An amendment that loses priority.
LEMMA MoveEffect ==
    ASSUME NEW qs, WellFormed(qs), NEW o \in Orders(qs),
           NEW price \in Prices, NEW quantity \in Nat \ {0}
    PROVE  /\ WellFormed(Appended(Removed(qs, o), o.id, o.side, price, quantity))
           /\ \A x : x \in Orders(Appended(Removed(qs, o), o.id, o.side, price, quantity)) <=>
                 \/ x \in Orders(qs) /\ x.id # o.id
                 \/ x = [id |-> o.id, side |-> o.side, price |-> price, quantity |-> quantity]
           /\ \A a : a \in Ahead(Appended(Removed(qs, o), o.id, o.side, price, quantity)) <=>
                 \/ a \in Ahead(qs) /\ a[1] # o.id /\ a[2] # o.id
                 \/ \E x \in Orders(qs) : /\ x.id # o.id /\ x.side = o.side /\ x.price = price
                                          /\ a = <<x.id, o.id>>
<1> DEFINE mid == Removed(qs, o)
           new == [id |-> o.id, side |-> o.side, price |-> price, quantity |-> quantity]
           qs2 == Appended(mid, o.id, o.side, price, quantity)
<1>1. /\ WellFormed(mid)
      /\ \A x : x \in Orders(mid) <=> x \in Orders(qs) /\ x.id # o.id
      /\ \A a : a \in Ahead(mid) <=> a \in Ahead(qs) /\ a[1] # o.id /\ a[2] # o.id
  BY RemoveEffect, Zenon
<1> HIDE DEF mid
<1>2. ~Known(mid, o.id) BY <1>1, Zenon DEF Known
<1>3. o.id \in Nat \ {0} /\ o.side \in Sides BY Spot, Zenon
<1>4. /\ WellFormed(qs2)
      /\ \A x : x \in Orders(qs2) <=> x \in Orders(mid) \/ x = new
      /\ \A a : a \in Ahead(qs2) <=>
            \/ a \in Ahead(mid)
            \/ \E x \in Orders(mid) : x.side = o.side /\ x.price = price /\ a = <<x.id, o.id>>
  BY <1>1, <1>2, <1>3, AppendEffect
<1> HIDE DEF new, qs2
<1>5. ASSUME NEW a
      PROVE  a \in Ahead(qs2) <=>
               \/ a \in Ahead(qs) /\ a[1] # o.id /\ a[2] # o.id
               \/ \E x \in Orders(qs) : /\ x.id # o.id /\ x.side = o.side /\ x.price = price
                                        /\ a = <<x.id, o.id>>
  <2> DEFINE P(x) == x.side = o.side /\ x.price = price /\ a = <<x.id, o.id>>
  <2> HIDE DEF P
  <2>1. (\E x \in Orders(mid) : P(x)) <=> \E x \in Orders(qs) : x.id # o.id /\ P(x)
    BY <1>1, Zenon
  <2>2. a \in Ahead(qs2) <=> a \in Ahead(mid) \/ \E x \in Orders(mid) : P(x)
    BY <1>4, Zenon DEF P
  <2>3. a \in Ahead(qs2) <=> \/ a \in Ahead(qs) /\ a[1] # o.id /\ a[2] # o.id
                             \/ \E x \in Orders(qs) : x.id # o.id /\ P(x)
    BY <1>1, <2>1, <2>2, Zenon
  <2> QED BY <2>3, Zenon DEF P
<1>6. \A x : x \in Orders(qs2) <=> (x \in Orders(qs) /\ x.id # o.id) \/ x = new
  BY <1>1, <1>4, Zenon
<1> QED BY <1>4, <1>5, <1>6, Zenon DEF mid, new, qs2

-----------------------------------------------------------------------------
(* Books that agree on the orders outside a set. *)

SameRest(q1, q2, without) ==
    /\ \A x : x.id \notin without => (x \in Orders(q1) <=> x \in Orders(q2))
    /\ \A a : a[1] \notin without /\ a[2] \notin without => (a \in Ahead(q1) <=> a \in Ahead(q2))

LEMMA RestIff ==
    ASSUME NEW q1, NEW q2, NEW X
    PROVE  Rest(q1, X) = Rest(q2, X) <=> SameRest(q1, q2, X)
<1>1. ASSUME SameRest(q1, q2, X) PROVE Rest(q1, X) = Rest(q2, X)
  <2>1. {o \in Orders(q1) : o.id \notin X} = {o \in Orders(q2) : o.id \notin X}
    BY <1>1, Zenon DEF SameRest
  <2>2. {a \in Ahead(q1) : a[1] \notin X /\ a[2] \notin X}
           = {a \in Ahead(q2) : a[1] \notin X /\ a[2] \notin X}
    BY <1>1, Zenon DEF SameRest
  <2> QED BY <2>1, <2>2, Zenon DEF Rest
<1>2. ASSUME Rest(q1, X) = Rest(q2, X) PROVE SameRest(q1, q2, X)
  <2>1. {o \in Orders(q1) : o.id \notin X} = {o \in Orders(q2) : o.id \notin X}
    <3>1. Rest(q1, X).orders = Rest(q2, X).orders BY <1>2, Zenon
    <3> QED BY <3>1, Zenon DEF Rest
  <2>2. {a \in Ahead(q1) : a[1] \notin X /\ a[2] \notin X}
           = {a \in Ahead(q2) : a[1] \notin X /\ a[2] \notin X}
    <3>1. Rest(q1, X).ahead = Rest(q2, X).ahead BY <1>2, Zenon
    <3> QED BY <3>1, Zenon DEF Rest
  <2>3. ASSUME NEW x, x.id \notin X PROVE x \in Orders(q1) <=> x \in Orders(q2)
    <3>1. x \in {o \in Orders(q1) : o.id \notin X} <=> x \in {o \in Orders(q2) : o.id \notin X}
      BY <2>1, Zenon
    <3> QED BY <2>3, <3>1, Zenon
  <2>4. ASSUME NEW a, a[1] \notin X, a[2] \notin X PROVE a \in Ahead(q1) <=> a \in Ahead(q2)
    <3>1. a \in {b \in Ahead(q1) : b[1] \notin X /\ b[2] \notin X}
            <=> a \in {b \in Ahead(q2) : b[1] \notin X /\ b[2] \notin X}
      BY <2>2, Zenon
    <3> QED BY <2>4, <3>1, Zenon
  <2> QED BY <2>3, <2>4, Zenon DEF SameRest
<1> QED BY <1>1, <1>2, Zenon

LEMMA SameRestTrans ==
    ASSUME NEW q1, NEW q2, NEW q3, NEW X, SameRest(q1, q2, X), SameRest(q2, q3, X)
    PROVE  SameRest(q1, q3, X) /\ SameRest(q2, q1, X)
BY Zenon DEF SameRest

LEMMA SameRestMore ==
    ASSUME NEW q1, NEW q2, NEW X, NEW Y, X \subseteq Y, SameRest(q1, q2, X)
    PROVE  SameRest(q1, q2, Y)
BY Zenon DEF SameRest

LEMMA SameRestSelf ==
    ASSUME NEW qs, NEW X
    PROVE  SameRest(qs, qs, X)
BY Zenon DEF SameRest

\* An id outside the set is known to both books or to neither, as one order.
LEMMA SameOrder ==
    ASSUME NEW q1, NEW q2, WellFormed(q1), WellFormed(q2), NEW X, SameRest(q1, q2, X),
           NEW id, id \notin X
    PROVE  /\ Known(q1, id) <=> Known(q2, id)
           /\ Known(q1, id) => OrderOf(q1, id) = OrderOf(q2, id)
<1>1. Known(q1, id) <=> Known(q2, id) BY Zenon DEF SameRest, Known
<1>2. ASSUME Known(q1, id) PROVE OrderOf(q1, id) = OrderOf(q2, id)
  <2>1. OrderOf(q1, id) \in Orders(q1) /\ OrderOf(q1, id).id = id BY <1>2, KnownOrder, Zenon
  <2>2. OrderOf(q1, id) \in Orders(q2) BY <2>1, Zenon DEF SameRest
  <2> QED BY <2>1, <2>2, OneOrder, Zenon
<1> QED BY <1>1, <1>2, Zenon

-----------------------------------------------------------------------------
(* One message dispatched to a book. *)

Message == [type : {"Add", "Cancel", "Modify", "Trade"}, order_id : Nat \ {0}, side : Sides,
            price : Prices, quantity : Nat \ {0}]

LEMMA WhenAdd ==
    ASSUME NEW qs, NEW room, NEW m \in Message, m.type = "Add"
    PROVE  Dispatch(qs, room, m) =
             IF Known(qs, m.order_id) THEN Reject(qs, "DuplicateOrder")
             ELSE IF Cardinality(Orders(qs)) = room THEN Reject(qs, "PoolExhausted")
             ELSE Done(Appended(qs, m.order_id, m.side, m.price, m.quantity))
<1>1. Dispatch(qs, room, m) = Add(qs, room, m.order_id, m.side, m.price, m.quantity)
  BY Zenon DEF Dispatch
<1> QED BY <1>1, Zenon DEF Add, Message

LEMMA WhenCancel ==
    ASSUME NEW qs, NEW room, NEW m \in Message, m.type = "Cancel"
    PROVE  Dispatch(qs, room, m) =
             IF Known(qs, m.order_id) THEN Done(Removed(qs, OrderOf(qs, m.order_id)))
             ELSE Reject(qs, "UnknownOrder")
<1>1. Dispatch(qs, room, m) = Cancel(qs, m.order_id)
  BY Zenon DEF Dispatch
<1> QED BY <1>1, Zenon DEF Cancel

LEMMA WhenModify ==
    ASSUME NEW qs, NEW room, NEW m \in Message, m.type = "Modify"
    PROVE  LET o == OrderOf(qs, m.order_id)
           IN  Dispatch(qs, room, m) =
                 IF ~Known(qs, m.order_id) THEN Reject(qs, "UnknownOrder")
                 ELSE IF m.price = o.price /\ m.quantity < o.quantity
                      THEN Done(Resized(qs, o, m.quantity))
                 ELSE Done(Appended(Removed(qs, o), m.order_id, o.side, m.price, m.quantity))
<1>1. Dispatch(qs, room, m) = Modify(qs, m.order_id, m.price, m.quantity)
  BY Zenon DEF Dispatch
<1> QED BY <1>1, Zenon DEF Modify, Message

LEMMA WhenTrade ==
    ASSUME NEW qs, NEW room, NEW m \in Message, m.type = "Trade"
    PROVE  LET o == OrderOf(qs, m.order_id)
           IN  Dispatch(qs, room, m) =
                 IF ~Known(qs, m.order_id) THEN Reject(qs, "UnknownOrder")
                 ELSE IF m.quantity >= o.quantity THEN Done(Removed(qs, o))
                 ELSE Done(Resized(qs, o, o.quantity - m.quantity))
<1>1. Dispatch(qs, room, m) = Execute(qs, m.order_id, m.quantity)
  BY Zenon DEF Dispatch
<1> QED BY <1>1, Zenon DEF Execute, Message

LEMMA ResizedOrder ==
    ASSUME NEW qs, WellFormed(qs), NEW o \in Orders(qs), NEW quantity
    PROVE  [o EXCEPT !.quantity = quantity].id = o.id
<1>1. o = OrderAt(qs, o.side, o.price, PositionOf(qs[o.side][o.price], o.id)) BY Spot, Zenon
<1> QED BY <1>1, Zenon DEF OrderAt

\* The changes as seen by the other orders.
LEMMA AppendIsLocal ==
    ASSUME NEW qs, WellFormed(qs), NEW id \in Nat \ {0}, ~Known(qs, id),
           NEW side \in Sides, NEW price \in Prices, NEW quantity \in Nat \ {0}
    PROVE  SameRest(qs, Appended(qs, id, side, price, quantity), {id})
<1> DEFINE qs2 == Appended(qs, id, side, price, quantity)
<1>1. /\ \A o : o \in Orders(qs2) <=>
            \/ o \in Orders(qs)
            \/ o = [id |-> id, side |-> side, price |-> price, quantity |-> quantity]
      /\ \A a : a \in Ahead(qs2) <=>
            \/ a \in Ahead(qs)
            \/ \E o \in Orders(qs) : o.side = side /\ o.price = price /\ a = <<o.id, id>>
  BY AppendEffect
<1> HIDE DEF qs2
<1>2. \A o : o.id \notin {id} => (o \in Orders(qs) <=> o \in Orders(qs2)) BY <1>1
<1>3. \A a : a[1] \notin {id} /\ a[2] \notin {id} => (a \in Ahead(qs) <=> a \in Ahead(qs2)) BY <1>1
<1> QED BY <1>2, <1>3, Zenon DEF qs2, SameRest

LEMMA RemoveIsLocal ==
    ASSUME NEW qs, WellFormed(qs), NEW o \in Orders(qs)
    PROVE  SameRest(qs, Removed(qs, o), {o.id})
BY RemoveEffect, Zenon DEF SameRest

LEMMA ResizeIsLocal ==
    ASSUME NEW qs, WellFormed(qs), NEW o \in Orders(qs), NEW quantity \in Nat \ {0}
    PROVE  SameRest(qs, Resized(qs, o, quantity), {o.id})
<1> DEFINE new == [o EXCEPT !.quantity = quantity]
<1>1. /\ \A x : x \in Orders(Resized(qs, o, quantity)) <=>
               (x \in Orders(qs) /\ x.id # o.id) \/ x = new
      /\ Ahead(Resized(qs, o, quantity)) = Ahead(qs)
  BY ResizeEffect, Zenon
<1>2. new.id = o.id BY ResizedOrder, Zenon
<1> HIDE DEF new
<1> QED BY <1>1, <1>2, Zenon DEF SameRest

LEMMA MoveIsLocal ==
    ASSUME NEW qs, WellFormed(qs), NEW o \in Orders(qs),
           NEW price \in Prices, NEW quantity \in Nat \ {0}
    PROVE  SameRest(qs, Appended(Removed(qs, o), o.id, o.side, price, quantity), {o.id})
<1> DEFINE qs2 == Appended(Removed(qs, o), o.id, o.side, price, quantity)
           new == [id |-> o.id, side |-> o.side, price |-> price, quantity |-> quantity]
<1>1. /\ \A x : x \in Orders(qs2) <=> (x \in Orders(qs) /\ x.id # o.id) \/ x = new
      /\ \A a : a \in Ahead(qs2) <=>
            \/ a \in Ahead(qs) /\ a[1] # o.id /\ a[2] # o.id
            \/ \E x \in Orders(qs) : /\ x.id # o.id /\ x.side = o.side /\ x.price = price
                                     /\ a = <<x.id, o.id>>
  BY MoveEffect
<1>0. new.id = o.id BY Zenon
<1> HIDE DEF qs2, new
<1>2. \A x : x.id \notin {o.id} => (x \in Orders(qs) <=> x \in Orders(qs2)) BY <1>0, <1>1, Zenon
<1>3. \A a : a[1] \notin {o.id} /\ a[2] \notin {o.id} => (a \in Ahead(qs) <=> a \in Ahead(qs2))
  BY <1>1, SMTT(40)
<1> QED BY <1>2, <1>3, Zenon DEF qs2, SameRest

\* A message leaves a sound book, and touches no order but its own.
LEMMA DispatchKeeps ==
    ASSUME NEW qs, WellFormed(qs), NEW room, NEW m \in Message
    PROVE  /\ WellFormed(Dispatch(qs, room, m).queues)
           /\ SameRest(qs, Dispatch(qs, room, m).queues, {m.order_id})
<1> DEFINE out == Dispatch(qs, room, m)
           id == m.order_id
           o == OrderOf(qs, id)
<1>0. SameRest(qs, qs, {id}) BY SameRestSelf, Zenon
<1>1. id \in Nat \ {0} /\ m.side \in Sides /\ m.price \in Prices /\ m.quantity \in Nat \ {0}
  BY Zenon DEF Message
<1>2. Known(qs, id) => o \in Orders(qs) /\ o.id = id BY KnownOrder, Zenon
<1>3. o \in Orders(qs) => o.quantity \in Nat \ {0} BY Spot, ZenonT(40), Zenon
<1>4. \/ out.queues = qs
      \/ ~Known(qs, id) /\ out.queues = Appended(qs, id, m.side, m.price, m.quantity)
      \/ Known(qs, id) /\ out.queues = Removed(qs, o)
      \/ Known(qs, id) /\ \E quantity \in Nat \ {0} : out.queues = Resized(qs, o, quantity)
      \/ Known(qs, id) /\ out.queues = Appended(Removed(qs, o), id, o.side, m.price, m.quantity)
  <2>1. CASE m.type = "Add" BY <2>1, WhenAdd DEF Reject, Done
  <2>2. CASE m.type = "Cancel" BY <2>2, WhenCancel DEF Reject, Done
  <2>3. CASE m.type = "Modify"
    <3>1. out = IF ~Known(qs, id) THEN Reject(qs, "UnknownOrder")
                ELSE IF m.price = o.price /\ m.quantity < o.quantity
                     THEN Done(Resized(qs, o, m.quantity))
                ELSE Done(Appended(Removed(qs, o), id, o.side, m.price, m.quantity))
      BY <2>3, WhenModify, Zenon
    <3> HIDE DEF out, o, id
    <3> QED BY <1>1, <3>1, Zenon DEF Reject, Done
  <2>4. CASE m.type = "Trade"
    <3>1. out = IF ~Known(qs, id) THEN Reject(qs, "UnknownOrder")
                ELSE IF m.quantity >= o.quantity THEN Done(Removed(qs, o))
                ELSE Done(Resized(qs, o, o.quantity - m.quantity))
      BY <2>4, WhenTrade, Zenon
    <3> HIDE DEF out, o, id
    <3>2. Known(qs, id) /\ ~(m.quantity >= o.quantity) => o.quantity - m.quantity \in Nat \ {0}
      BY <1>1, <1>2, <1>3
    <3> QED BY <3>1, <3>2, Zenon DEF Reject, Done
  <2> QED BY <2>1, <2>2, <2>3, <2>4, Zenon DEF Message
<1> HIDE DEF out, o, id
<1>5. CASE out.queues = qs BY <1>0, <1>5, Zenon DEF out, id
<1>6. CASE ~Known(qs, id) /\ out.queues = Appended(qs, id, m.side, m.price, m.quantity)
  BY <1>1, <1>6, AppendEffect, AppendIsLocal DEF out, id
<1>7. CASE Known(qs, id) /\ out.queues = Removed(qs, o)
  BY <1>2, <1>7, RemoveEffect, RemoveIsLocal DEF out, id
<1>8. CASE Known(qs, id) /\ \E quantity \in Nat \ {0} : out.queues = Resized(qs, o, quantity)
  <2>1. PICK quantity \in Nat \ {0} : out.queues = Resized(qs, o, quantity) BY <1>8, Zenon
  <2>2. o \in Orders(qs) /\ o.id = id BY <1>2, <1>8, Zenon
  <2>3. WellFormed(Resized(qs, o, quantity)) BY <2>2, ResizeEffect, Zenon
  <2>4. SameRest(qs, Resized(qs, o, quantity), {id}) BY <2>2, ResizeIsLocal, Zenon
  <2> QED BY <2>1, <2>3, <2>4, Zenon DEF out, id
<1>9. CASE Known(qs, id) /\ out.queues = Appended(Removed(qs, o), id, o.side, m.price, m.quantity)
  <2>1. o \in Orders(qs) /\ o.id = id BY <1>2, <1>9, Zenon
  <2>2. WellFormed(Appended(Removed(qs, o), id, o.side, m.price, m.quantity))
    BY <1>1, <2>1, MoveEffect, Zenon
  <2>3. SameRest(qs, Appended(Removed(qs, o), id, o.side, m.price, m.quantity), {id})
    BY <1>1, <2>1, MoveIsLocal, Zenon
  <2> QED BY <1>9, <2>2, <2>3, Zenon DEF out, id
<1> QED BY <1>4, <1>5, <1>6, <1>7, <1>8, <1>9, Zenon DEF out, id

\* The same change made to two books that agree.
LEMMA AppendAgrees ==
    ASSUME NEW q1, NEW q2, WellFormed(q1), WellFormed(q2), NEW X, SameRest(q1, q2, X),
           NEW id \in Nat \ {0}, ~Known(q1, id), ~Known(q2, id),
           NEW side \in Sides, NEW price \in Prices, NEW quantity \in Nat \ {0}
    PROVE  SameRest(Appended(q1, id, side, price, quantity),
                    Appended(q2, id, side, price, quantity), X)
<1> DEFINE A(qs) == Appended(qs, id, side, price, quantity)
           new == [id |-> id, side |-> side, price |-> price, quantity |-> quantity]
           P(o, a) == o.side = side /\ o.price = price /\ a = <<o.id, id>>
<1>1. ASSUME NEW qs \in {q1, q2}
      PROVE  /\ \A o : o \in Orders(A(qs)) <=> o \in Orders(qs) \/ o = new
             /\ \A a : a \in Ahead(A(qs)) <=> a \in Ahead(qs) \/ \E o \in Orders(qs) : P(o, a)
  BY AppendEffect
<1>2. \A o, a : P(o, a) => o.id = a[1] OBVIOUS
<1> HIDE DEF A, new, P
<1>3. \A o : o.id \notin X => (o \in Orders(A(q1)) <=> o \in Orders(A(q2)))
  BY <1>1, Zenon DEF SameRest
<1>4. ASSUME NEW a, a[1] \notin X, a[2] \notin X PROVE a \in Ahead(A(q1)) <=> a \in Ahead(A(q2))
  <2>1. (\E o \in Orders(q1) : P(o, a)) <=> \E o \in Orders(q2) : P(o, a)
    BY <1>2, <1>4, Zenon DEF SameRest
  <2>2. a \in Ahead(q1) <=> a \in Ahead(q2) BY <1>4, Zenon DEF SameRest
  <2> QED BY <1>1, <2>1, <2>2, Zenon
<1>5. SameRest(A(q1), A(q2), X) BY <1>3, <1>4, Zenon DEF SameRest
<1> QED BY <1>5, Zenon DEF A

LEMMA RemoveAgrees ==
    ASSUME NEW q1, NEW q2, WellFormed(q1), WellFormed(q2), NEW X, SameRest(q1, q2, X),
           NEW o \in Orders(q1), o \in Orders(q2)
    PROVE  SameRest(Removed(q1, o), Removed(q2, o), X)
<1>1. ASSUME NEW qs \in {q1, q2}
      PROVE  /\ \A x : x \in Orders(Removed(qs, o)) <=> x \in Orders(qs) /\ x.id # o.id
             /\ \A a : a \in Ahead(Removed(qs, o)) <=> a \in Ahead(qs) /\ a[1] # o.id /\ a[2] # o.id
  BY RemoveEffect, Zenon
<1> QED BY <1>1, Zenon DEF SameRest

LEMMA ResizeAgrees ==
    ASSUME NEW q1, NEW q2, WellFormed(q1), WellFormed(q2), NEW X, SameRest(q1, q2, X),
           NEW o \in Orders(q1), o \in Orders(q2), NEW quantity \in Nat \ {0}
    PROVE  SameRest(Resized(q1, o, quantity), Resized(q2, o, quantity), X)
<1> DEFINE new == [o EXCEPT !.quantity = quantity]
<1>1. ASSUME NEW qs \in {q1, q2}
      PROVE  /\ \A x : x \in Orders(Resized(qs, o, quantity)) <=>
                          (x \in Orders(qs) /\ x.id # o.id) \/ x = new
             /\ Ahead(Resized(qs, o, quantity)) = Ahead(qs)
  BY ResizeEffect, Zenon
<1> HIDE DEF new
<1> QED BY <1>1, Zenon DEF SameRest

LEMMA MoveAgrees ==
    ASSUME NEW q1, NEW q2, WellFormed(q1), WellFormed(q2), NEW X, SameRest(q1, q2, X),
           NEW o \in Orders(q1), o \in Orders(q2),
           NEW price \in Prices, NEW quantity \in Nat \ {0}
    PROVE  SameRest(Appended(Removed(q1, o), o.id, o.side, price, quantity),
                    Appended(Removed(q2, o), o.id, o.side, price, quantity), X)
<1> DEFINE m1 == Removed(q1, o)
           m2 == Removed(q2, o)
<1>1. SameRest(m1, m2, X) BY RemoveAgrees, Zenon
<1>2. /\ WellFormed(m1) /\ \A x : x \in Orders(m1) <=> x \in Orders(q1) /\ x.id # o.id
      /\ WellFormed(m2) /\ \A x : x \in Orders(m2) <=> x \in Orders(q2) /\ x.id # o.id
  BY RemoveEffect, Zenon
<1>3. ~Known(m1, o.id) /\ ~Known(m2, o.id) BY <1>2, Zenon DEF Known
<1>4. o.id \in Nat \ {0} /\ o.side \in Sides BY Spot, Zenon
<1> HIDE DEF m1, m2
<1>5. SameRest(Appended(m1, o.id, o.side, price, quantity),
               Appended(m2, o.id, o.side, price, quantity), X)
  BY <1>1, <1>2, <1>3, <1>4, AppendAgrees, Zenon
<1> QED BY <1>5, Zenon DEF m1, m2

\* Two books that agree on the order of a message, and have room, treat it alike.
LEMMA DispatchAgrees ==
    ASSUME NEW q1, NEW q2, WellFormed(q1), WellFormed(q2), NEW X, SameRest(q1, q2, X),
           NEW m \in Message, m.order_id \notin X, NEW r1, NEW r2,
           Dispatch(q1, r1, m).result # "PoolExhausted",
           Dispatch(q2, r2, m).result # "PoolExhausted"
    PROVE  /\ SameRest(Dispatch(q1, r1, m).queues, Dispatch(q2, r2, m).queues, X)
           /\ Dispatch(q1, r1, m).result = Dispatch(q2, r2, m).result
<1> DEFINE id == m.order_id
           o == OrderOf(q1, id)
           out1 == Dispatch(q1, r1, m)
           out2 == Dispatch(q2, r2, m)
<1>1. id \in Nat \ {0} /\ m.side \in Sides /\ m.price \in Prices /\ m.quantity \in Nat \ {0}
  BY Zenon DEF Message
<1>2. Known(q1, id) <=> Known(q2, id) BY SameOrder, Zenon
<1>3. ASSUME Known(q1, id)
      PROVE  o \in Orders(q1) /\ o \in Orders(q2) /\ o.id = id /\ OrderOf(q2, id) = o
  <2>1. OrderOf(q2, id) = o BY <1>3, SameOrder, Zenon
  <2>2. OrderOf(q2, id) \in Orders(q2) BY <1>2, <1>3, KnownOrder, Zenon
  <2> QED BY <1>3, <2>1, <2>2, KnownOrder, Zenon
<1>4. o \in Orders(q1) => o.quantity \in Nat \ {0} BY Spot, Zenon
<1>5. CASE m.type = "Add"
  <2>1. /\ out1 = IF Known(q1, id) THEN Reject(q1, "DuplicateOrder")
                  ELSE Done(Appended(q1, id, m.side, m.price, m.quantity))
        /\ out2 = IF Known(q1, id) THEN Reject(q2, "DuplicateOrder")
                  ELSE Done(Appended(q2, id, m.side, m.price, m.quantity))
    BY <1>2, <1>5, WhenAdd DEF Reject
  <2> HIDE DEF out1, out2, id
  <2>2. ~Known(q1, id) => SameRest(Appended(q1, id, m.side, m.price, m.quantity),
                                   Appended(q2, id, m.side, m.price, m.quantity), X)
    BY <1>1, <1>2, AppendAgrees, Zenon
  <2>3. SameRest(out1.queues, out2.queues, X) /\ out1.result = out2.result
    BY <2>1, <2>2, Zenon DEF Reject, Done
  <2> QED BY <2>3, SMTT(40) DEF out1, out2
<1>6. CASE m.type = "Cancel"
  <2>1. /\ out1 = IF Known(q1, id) THEN Done(Removed(q1, o)) ELSE Reject(q1, "UnknownOrder")
        /\ out2 = IF Known(q1, id) THEN Done(Removed(q2, o)) ELSE Reject(q2, "UnknownOrder")
    BY <1>2, <1>3, <1>6, WhenCancel, Zenon
  <2> HIDE DEF out1, out2, id, o
  <2>2. Known(q1, id) => SameRest(Removed(q1, o), Removed(q2, o), X)
    BY <1>3, RemoveAgrees, SMTT(40)
  <2>3. SameRest(out1.queues, out2.queues, X) /\ out1.result = out2.result
    BY <2>1, <2>2, Zenon DEF Reject, Done
  <2> QED BY <2>3, Zenon DEF out1, out2
<1>7. CASE m.type = "Modify"
  <2> DEFINE keep == m.price = o.price /\ m.quantity < o.quantity
  <2>1. /\ out1 = IF ~Known(q1, id) THEN Reject(q1, "UnknownOrder")
                  ELSE IF keep THEN Done(Resized(q1, o, m.quantity))
                  ELSE Done(Appended(Removed(q1, o), id, o.side, m.price, m.quantity))
        /\ out2 = IF ~Known(q1, id) THEN Reject(q2, "UnknownOrder")
                  ELSE IF keep THEN Done(Resized(q2, o, m.quantity))
                  ELSE Done(Appended(Removed(q2, o), id, o.side, m.price, m.quantity))
    BY <1>2, <1>3, <1>7, WhenModify, Zenon
  <2> HIDE DEF out1, out2, id, o, keep
  <2>2. Known(q1, id) => SameRest(Resized(q1, o, m.quantity), Resized(q2, o, m.quantity), X)
    BY <1>1, <1>3, ResizeAgrees, SMTT(40)
  <2>3. Known(q1, id) => SameRest(Appended(Removed(q1, o), id, o.side, m.price, m.quantity),
                                  Appended(Removed(q2, o), id, o.side, m.price, m.quantity), X)
    BY <1>1, <1>3, MoveAgrees, SMTT(40)
  <2>4. SameRest(out1.queues, out2.queues, X) /\ out1.result = out2.result
    BY <2>1, <2>2, <2>3, Zenon DEF Reject, Done
  <2> QED BY <2>4, Zenon DEF out1, out2
<1>8. CASE m.type = "Trade"
  <2> DEFINE left == o.quantity - m.quantity
             all == m.quantity >= o.quantity
  <2>1. /\ out1 = IF ~Known(q1, id) THEN Reject(q1, "UnknownOrder")
                  ELSE IF all THEN Done(Removed(q1, o)) ELSE Done(Resized(q1, o, left))
        /\ out2 = IF ~Known(q1, id) THEN Reject(q2, "UnknownOrder")
                  ELSE IF all THEN Done(Removed(q2, o)) ELSE Done(Resized(q2, o, left))
    BY <1>2, <1>3, <1>8, WhenTrade, Zenon
  <2>2. Known(q1, id) /\ ~all => left \in Nat \ {0} BY <1>1, <1>3, <1>4, SMTT(40)
  <2> HIDE DEF out1, out2, id, o, left, all
  <2>3. Known(q1, id) /\ ~all => SameRest(Resized(q1, o, left), Resized(q2, o, left), X)
    BY <1>3, <2>2, ResizeAgrees, SMTT(40)
  <2>4. Known(q1, id) => SameRest(Removed(q1, o), Removed(q2, o), X)
    BY <1>3, RemoveAgrees, Zenon
  <2>5. SameRest(out1.queues, out2.queues, X) /\ out1.result = out2.result
    BY <2>1, <2>3, <2>4, Zenon DEF Reject, Done
  <2> QED BY <2>5, Zenon DEF out1, out2
<1> QED BY <1>5, <1>6, <1>7, <1>8, Zenon DEF Message

\* What the answers mean.
LEMMA DispatchAnswers ==
    ASSUME NEW qs, NEW room, NEW m \in Message
    PROVE  LET answered == Dispatch(qs, room, m).result
           IN  \/ answered = "Ok"
               \/ answered = "PoolExhausted" /\ m.type = "Add"
               \/ answered = "DuplicateOrder" /\ m.type = "Add" /\ Known(qs, m.order_id)
               \/ answered = "UnknownOrder" /\ m.type # "Add" /\ ~Known(qs, m.order_id)
<1>1. CASE m.type = "Add" BY <1>1, WhenAdd DEF Reject, Done
<1>2. CASE m.type = "Cancel" BY <1>2, WhenCancel, SMTT(40) DEF Reject, Done
<1>3. CASE m.type = "Modify" BY <1>3, WhenModify DEF Reject, Done
<1>4. CASE m.type = "Trade" BY <1>4, WhenTrade DEF Reject, Done
<1> QED BY <1>1, <1>2, <1>3, <1>4, SMTT(40) DEF Message

-----------------------------------------------------------------------------
(* The inductive invariant. *)

LiveOrder == [id : Nat \ {0}, side : Sides, price : Prices, quantity : Nat \ {0}]

FlowTypes ==
    /\ live \in Seq(LiveOrder) /\ next_order_id \in Nat \ {0} /\ stream \in Seq(Message)
    /\ WellFormed(venue) /\ WellFormed(book)

\* The vector of live orders names each order once.
LiveOnce == \A i, j \in DOMAIN live : live[i].id = live[j].id => i = j

\* An id is new until its Add is published, and its Add arrives first.
IdsFresh ==
    /\ \A o \in Orders(venue) : o.id < next_order_id
    /\ \A o \in Orders(book) : o.id < next_order_id
    /\ \A k \in DOMAIN stream : stream[k].order_id < next_order_id
    /\ \A k \in DOMAIN stream : stream[k].type = "Add" =>
          /\ ~Known(book, stream[k].order_id)
          /\ \A j \in DOMAIN stream : j < k => stream[j].order_id # stream[k].order_id

\* books[k] is the exchange's book when it had published k of the messages
\* under way; the engine's agrees with the first of them, and the last is the
\* exchange's book now.  Two of them differ only in the orders that the
\* messages between them name.
Replay(books) ==
    /\ \A k \in 0 .. Len(stream) : WellFormed(books[k])
    /\ books[Len(stream)] = venue
    /\ \A k \in 1 .. Len(stream) :
          LET out == Dispatch(books[k - 1], VenueOrders, stream[k])
          IN  /\ books[k] = out.queues
              /\ \/ out.result = "Ok"
                 \/ out.result = "PoolExhausted" /\ stream[k].order_id \in refused
    /\ \A j, k \in 0 .. Len(stream) : \A X :
          j <= k /\ (\A i \in j + 1 .. k : stream[i].order_id \in X) => SameRest(books[j], books[k], X)
    /\ SameRest(book, books[0], skipped \cup refused)
    /\ skipped = {} /\ VenueOrders = EngineOrders => book = books[0]

FlowInv == FlowTypes /\ LiveOnce /\ LiveMatchesBook /\ IdsFresh /\ \E books : Replay(books)

-----------------------------------------------------------------------------
(* The exchange's vector of live orders. *)

LEMMA DropEffect ==
    ASSUME NEW s \in Seq(LiveOrder), NEW i \in DOMAIN s,
           \A j, k \in DOMAIN s : s[j].id = s[k].id => j = k
    PROVE  /\ Drop(s, i) \in Seq(LiveOrder)
           /\ \A j, k \in DOMAIN Drop(s, i) : Drop(s, i)[j].id = Drop(s, i)[k].id => j = k
           /\ \A x : (\E j \in DOMAIN Drop(s, i) : x = Drop(s, i)[j])
                        <=> (\E j \in DOMAIN s : x = s[j]) /\ x.id # s[i].id
<1> DEFINE n == Len(s)
           r == [s EXCEPT ![i] = s[n]]
           t == Drop(s, i)
           From(j) == IF j = i THEN n ELSE j
<1>1. n \in Nat /\ DOMAIN s = 1 .. n /\ i \in 1 .. n OBVIOUS
<1>2. r \in Seq(LiveOrder) /\ Len(r) = n /\ \A j \in 1 .. n : r[j] = IF j = i THEN s[n] ELSE s[j]
  BY <1>1
<1> HIDE DEF n, r
<1>3. t = SubSeq(r, 1, n - 1) BY Zenon DEF Drop, n, r
<1>4. t \in Seq(LiveOrder) /\ DOMAIN t = 1 .. n - 1 /\ \A j \in 1 .. n - 1 : t[j] = r[j]
  BY <1>1, <1>2, <1>3
<1> HIDE DEF t
<1>5. \A j \in DOMAIN t : From(j) \in DOMAIN s /\ From(j) # i /\ t[j] = s[From(j)]
  BY <1>1, <1>2, <1>4
<1>6. \A j, k \in DOMAIN t : From(j) = From(k) => j = k BY <1>1, <1>4
<1>7. \A k \in DOMAIN s : k # i => \E j \in DOMAIN t : From(j) = k
  <2> SUFFICES ASSUME NEW k \in DOMAIN s, k # i PROVE \E j \in DOMAIN t : From(j) = k
    BY Zenon
  <2>1. CASE k = n
    <3>1. i \in DOMAIN t /\ From(i) = k BY <1>1, <1>4, <2>1
    <3> QED BY <3>1, Zenon
  <2>2. CASE k # n
    <3>1. k \in DOMAIN t /\ From(k) = k BY <1>1, <1>4, <2>2
    <3> QED BY <3>1, Zenon
  <2> QED BY <2>1, <2>2, Zenon
<1> HIDE DEF From
<1>8. \A j, k \in DOMAIN t : t[j].id = t[k].id => j = k BY <1>5, <1>6, ZenonT(40)
<1>9. ASSUME NEW x
      PROVE  (\E j \in DOMAIN t : x = t[j]) <=> (\E j \in DOMAIN s : x = s[j]) /\ x.id # s[i].id
  <2>1. ASSUME NEW j \in DOMAIN t, x = t[j]
        PROVE  (\E k \in DOMAIN s : x = s[k]) /\ x.id # s[i].id
    <3>1. From(j) \in DOMAIN s /\ From(j) # i /\ x = s[From(j)] BY <1>5, <2>1, Zenon
    <3> QED BY <3>1, Zenon
  <2>2. ASSUME NEW k \in DOMAIN s, x = s[k], x.id # s[i].id PROVE \E j \in DOMAIN t : x = t[j]
    <3>1. PICK j \in DOMAIN t : From(j) = k BY <1>7, <2>2, Zenon
    <3>2. x = t[j] BY <1>5, <2>2, <3>1, Zenon
    <3> QED BY <3>2, Zenon
  <2> QED BY <2>1, <2>2, Zenon
<1> QED BY <1>4, <1>8, <1>9, Zenon DEF t

LEMMA ReplaceEffect ==
    ASSUME NEW s \in Seq(LiveOrder), NEW i \in DOMAIN s, NEW new \in LiveOrder, new.id = s[i].id,
           \A j, k \in DOMAIN s : s[j].id = s[k].id => j = k
    PROVE  /\ [s EXCEPT ![i] = new] \in Seq(LiveOrder)
           /\ DOMAIN [s EXCEPT ![i] = new] = DOMAIN s
           /\ \A j, k \in DOMAIN s :
                 [s EXCEPT ![i] = new][j].id = [s EXCEPT ![i] = new][k].id => j = k
           /\ \A x : (\E j \in DOMAIN s : x = [s EXCEPT ![i] = new][j])
                        <=> \/ (\E j \in DOMAIN s : x = s[j]) /\ x.id # s[i].id
                            \/ x = new
<1> DEFINE t == [s EXCEPT ![i] = new]
<1>1. t \in Seq(LiveOrder) /\ DOMAIN t = DOMAIN s OBVIOUS
<1>2. t[i] = new /\ \A j \in DOMAIN s : j # i => t[j] = s[j] BY Zenon
<1> HIDE DEF t
<1>3. \A j \in DOMAIN s : t[j].id = s[j].id BY <1>2, Zenon
<1>4. \A j, k \in DOMAIN s : t[j].id = t[k].id => j = k BY <1>3, Zenon
<1>5. ASSUME NEW x
      PROVE  (\E j \in DOMAIN s : x = t[j])
               <=> ((\E j \in DOMAIN s : x = s[j]) /\ x.id # s[i].id) \/ x = new
  <2>1. ASSUME NEW j \in DOMAIN s, x = t[j]
        PROVE  ((\E k \in DOMAIN s : x = s[k]) /\ x.id # s[i].id) \/ x = new
    BY <1>2, <2>1, Zenon
  <2>2. ASSUME NEW j \in DOMAIN s, x = s[j], x.id # s[i].id PROVE \E k \in DOMAIN s : x = t[k]
    BY <1>2, <2>2, Zenon
  <2>3. x = new => \E k \in DOMAIN s : x = t[k] BY <1>2, Zenon
  <2> QED BY <2>1, <2>2, <2>3, Zenon
<1> QED BY <1>1, <1>4, <1>5, Zenon DEF t

-----------------------------------------------------------------------------
(* A step of the exchange: one more message, applied to its own book. *)

Publishes(m) ==
    /\ stream' = Append(stream, m) /\ VenueDoes(Dispatch(venue, VenueOrders, m))
    /\ UNCHANGED engine

LEMMA PublishTypes ==
    ASSUME FlowTypes, NEW m \in Message, Publishes(m)
    PROVE  /\ stream' \in Seq(Message) /\ WellFormed(venue') /\ WellFormed(book')
           /\ SameRest(venue, venue', {m.order_id})
<1>1. stream' \in Seq(Message) BY DEF FlowTypes, Publishes
<1>2. venue' = Dispatch(venue, VenueOrders, m).queues /\ book' = book
  BY Zenon DEF Publishes, VenueDoes, engine
<1>3. WellFormed(venue) /\ WellFormed(book) BY Zenon DEF FlowTypes
<1> QED BY <1>1, <1>2, <1>3, DispatchKeeps, Zenon

LEMMA PublishReplay ==
    ASSUME FlowTypes, NEW books, Replay(books), NEW m \in Message, Publishes(m),
           refused \subseteq refused',
           answer' = "Ok" \/ (answer' = "PoolExhausted" /\ m.order_id \in refused')
    PROVE  \E bs : Replay(bs)'
<1> DEFINE n == Len(stream)
<1>0. PICK bs : bs = [k \in 0 .. n + 1 |-> IF k = n + 1 THEN venue' ELSE books[k]] BY Zenon
<1>1. n \in Nat /\ Len(stream') = n + 1 /\ stream'[n + 1] = m
      /\ \A k \in 1 .. n : stream'[k] = stream[k]
  BY DEF FlowTypes, Publishes
<1> HIDE DEF n
<1>2. bs[n + 1] = venue' /\ \A k \in 0 .. n : bs[k] = books[k] BY <1>0, <1>1
<1>3. ASSUME NEW k \in 0 .. n + 1 PROVE WellFormed(bs[k])
  <2>1. CASE k = n + 1 BY <1>2, <2>1, PublishTypes, Zenon
  <2>2. CASE k # n + 1
    <3>1. k \in 0 .. n BY <1>1, <2>2
    <3> QED BY <1>2, <3>1, Zenon DEF Replay, n
  <2> QED BY <2>1, <2>2, Zenon
<1>4. ASSUME NEW k \in 1 .. n + 1
      PROVE  /\ bs[k] = Dispatch(bs[k - 1], VenueOrders, stream'[k]).queues
             /\ \/ Dispatch(bs[k - 1], VenueOrders, stream'[k]).result = "Ok"
                \/ /\ Dispatch(bs[k - 1], VenueOrders, stream'[k]).result = "PoolExhausted"
                   /\ stream'[k].order_id \in refused'
  <2>1. CASE k = n + 1
    <3>1. k - 1 \in 0 .. n /\ k - 1 = n BY <1>1, <2>1
    <3>2. bs[k - 1] = venue /\ stream'[k] = m BY <1>1, <1>2, <2>1, <3>1, Zenon DEF Replay, n
    <3>3. /\ bs[k] = Dispatch(venue, VenueOrders, m).queues
          /\ answer' = Dispatch(venue, VenueOrders, m).result
      BY <1>2, <2>1, Zenon DEF Publishes, VenueDoes
    <3> QED BY <3>2, <3>3, Zenon
  <2>2. CASE k # n + 1
    <3>1. k \in 1 .. n /\ k \in 0 .. n /\ k - 1 \in 0 .. n BY <1>1, <2>2
    <3>2. bs[k] = books[k] /\ bs[k - 1] = books[k - 1] /\ stream'[k] = stream[k]
      BY <1>1, <1>2, <3>1, Zenon
    <3>3. /\ books[k] = Dispatch(books[k - 1], VenueOrders, stream[k]).queues
          /\ \/ Dispatch(books[k - 1], VenueOrders, stream[k]).result = "Ok"
             \/ /\ Dispatch(books[k - 1], VenueOrders, stream[k]).result = "PoolExhausted"
                /\ stream[k].order_id \in refused
      BY <3>1, Zenon DEF Replay, n
    <3> QED BY <3>2, <3>3, Zenon
  <2> QED BY <2>1, <2>2, Zenon
<1>5. book' = book /\ skipped' = skipped BY Zenon DEF Publishes, engine
<1>6. bs[0] = books[0] BY <1>1, <1>2
<1>7. SameRest(book', bs[0], skipped' \cup refused')
  <2>1. SameRest(book, books[0], skipped \cup refused) BY Zenon DEF Replay
  <2>2. skipped \cup refused \subseteq skipped \cup refused' BY Zenon
  <2> QED BY <1>5, <1>6, <2>1, <2>2, SameRestMore, Zenon
<1>8. skipped' = {} /\ VenueOrders = EngineOrders => book' = bs[0]
  BY <1>5, <1>6, Zenon DEF Replay
<1>9. \A k \in 0 .. Len(stream') : WellFormed(bs[k]) BY <1>1, <1>3, Zenon
<1>10. bs[Len(stream')] = venue' BY <1>1, <1>2, Zenon
<1>11. ASSUME NEW k \in 1 .. Len(stream')
       PROVE  /\ bs[k] = Dispatch(bs[k - 1], VenueOrders, stream'[k]).queues
              /\ \/ Dispatch(bs[k - 1], VenueOrders, stream'[k]).result = "Ok"
                 \/ /\ Dispatch(bs[k - 1], VenueOrders, stream'[k]).result = "PoolExhausted"
                    /\ stream'[k].order_id \in refused'
  BY <1>1, <1>4, Zenon
<1>12. ASSUME NEW j \in 0 .. Len(stream'), NEW k \in 0 .. Len(stream'), NEW X, j <= k,
              \A i \in j + 1 .. k : stream'[i].order_id \in X
       PROVE  SameRest(bs[j], bs[k], X)
  <2>1. CASE j = n + 1
    <3>1. j = k BY <1>1, <1>12, <2>1
    <3> QED BY <3>1, SameRestSelf, Zenon
  <2>2. CASE j # n + 1 /\ k # n + 1
    <3>1. j \in 0 .. n /\ k \in 0 .. n BY <1>1, <2>2
    <3>2. \A i \in j + 1 .. k : i \in 1 .. n BY <1>1, <3>1
    <3>3. \A i \in j + 1 .. k : stream[i].order_id \in X BY <1>1, <1>12, <3>2, Zenon
    <3>4. SameRest(books[j], books[k], X) BY <1>12, <3>1, <3>3, Zenon DEF Replay, n
    <3> QED BY <1>2, <3>1, <3>4, Zenon
  <2>3. CASE j # n + 1 /\ k = n + 1
    <3>1. j \in 0 .. n /\ n \in 0 .. n /\ j <= n /\ n + 1 \in j + 1 .. k BY <1>1, <2>3
    <3>2. \A i \in j + 1 .. n : i \in 1 .. n /\ i \in j + 1 .. k BY <1>1, <2>3, <3>1
    <3>3. \A i \in j + 1 .. n : stream[i].order_id \in X BY <1>1, <1>12, <3>2, Zenon
    <3>4. SameRest(books[j], books[n], X) BY <3>1, <3>3, Zenon DEF Replay, n
    <3>5. m.order_id \in X BY <1>1, <1>12, <3>1, Zenon
    <3>6. SameRest(venue, venue', {m.order_id}) BY PublishTypes, Zenon
    <3>7. SameRest(venue, venue', X) BY <3>5, <3>6, Zenon DEF SameRest
    <3>8. bs[j] = books[j] /\ bs[k] = venue' /\ books[n] = venue BY <1>2, <2>3, <3>1, Zenon DEF Replay, n
    <3> QED BY <3>4, <3>7, <3>8, SameRestTrans, Zenon
  <2> QED BY <2>1, <2>2, <2>3, Zenon
<1>13. Replay(bs)' BY <1>7, <1>8, <1>9, <1>10, <1>11, <1>12, Zenon DEF Replay
<1> QED BY <1>13, Zenon

LEMMA PublishFresh ==
    ASSUME FlowTypes, IdsFresh, NEW m \in Message, Publishes(m), next_order_id' \in Nat \ {0},
           next_order_id <= next_order_id', m.order_id < next_order_id',
           m.type = "Add" => m.order_id = next_order_id
    PROVE  IdsFresh'
<1> DEFINE n == Len(stream)
<1>1. n \in Nat /\ DOMAIN stream = 1 .. n /\ DOMAIN stream' = 1 .. n + 1 /\ stream'[n + 1] = m
      /\ \A k \in 1 .. n : stream'[k] = stream[k] /\ stream[k] \in Message
  BY DEF FlowTypes, Publishes
<1> HIDE DEF n
<1>2. book' = book /\ next_order_id \in Nat BY Zenon DEF Publishes, engine, FlowTypes
<1>3. ASSUME NEW o \in Orders(venue') PROVE o.id < next_order_id'
  <2>1. CASE o.id = m.order_id BY <2>1, Zenon
  <2>2. CASE o.id # m.order_id
    <3>1. o \in Orders(venue) BY <2>2, PublishTypes, Zenon DEF SameRest
    <3>2. o.id \in Nat /\ o.id < next_order_id BY <3>1, Spot, Zenon DEF IdsFresh, FlowTypes
    <3> QED BY <1>2, <3>2
  <2> QED BY <2>1, <2>2, Zenon
<1>4. ASSUME NEW o \in Orders(book') PROVE o.id < next_order_id'
  <2>1. o.id \in Nat /\ o.id < next_order_id BY <1>2, Spot, Zenon DEF IdsFresh, FlowTypes
  <2> QED BY <1>2, <2>1, SMTT(40)
<1>5. ASSUME NEW k \in 1 .. n PROVE stream[k].order_id \in Nat /\ stream[k].order_id < next_order_id
  BY <1>1, Zenon DEF IdsFresh, Message
<1>6. ASSUME NEW k \in 1 .. n + 1 PROVE stream'[k].order_id < next_order_id'
  <2>1. CASE k \in 1 .. n BY <1>1, <1>2, <1>5, <2>1
  <2>2. CASE k = n + 1 BY <1>1, <2>2, Zenon
  <2> QED BY <1>1, <2>1, <2>2
<1>7. ASSUME NEW k \in 1 .. n + 1, stream'[k].type = "Add"
      PROVE  /\ ~Known(book', stream'[k].order_id)
             /\ \A j \in 1 .. n + 1 : j < k => stream'[j].order_id # stream'[k].order_id
  <2>1. CASE k \in 1 .. n
    <3>1. \A j \in 1 .. n + 1 : j < k => j \in 1 .. n BY <1>1, <2>1
    <3>2. /\ ~Known(book, stream[k].order_id)
          /\ \A j \in 1 .. n : j < k => stream[j].order_id # stream[k].order_id
      BY <1>1, <1>7, <2>1, Zenon DEF IdsFresh
    <3> QED BY <1>1, <1>2, <2>1, <3>1, <3>2, Zenon
  <2>2. CASE k = n + 1
    <3>1. stream'[k].order_id = next_order_id BY <1>1, <1>7, <2>2, Zenon
    <3>2. ~Known(book, next_order_id)
      <4>1. \A o \in Orders(book) : o.id < next_order_id /\ o.id \in Nat
        BY Spot, Zenon DEF IdsFresh, FlowTypes
      <4>2. \A o \in Orders(book) : o.id # next_order_id BY <1>2, <4>1
      <4> QED BY <4>2, Zenon DEF Known
    <3>3. \A j \in 1 .. n + 1 : j < k => stream'[j].order_id # next_order_id
      <4>1. \A j \in 1 .. n + 1 : j < k => j \in 1 .. n BY <1>1, <2>2
      <4>2. \A j \in 1 .. n : stream'[j].order_id # next_order_id BY <1>1, <1>2, <1>5
      <4> QED BY <4>1, <4>2, Zenon
    <3> QED BY <1>2, <3>1, <3>2, <3>3, Zenon
  <2> QED BY <1>1, <2>1, <2>2
<1> QED BY <1>1, <1>3, <1>4, <1>6, <1>7, Zenon DEF IdsFresh

LEMMA RangeIff ==
    ASSUME NEW s, NEW S
    PROVE  {s[i] : i \in DOMAIN s} = S <=> \A x : (\E i \in DOMAIN s : x = s[i]) <=> x \in S
BY Zenon

LEMMA PublishKeeps ==
    ASSUME FlowInv, NEW m \in Message, Publishes(m), next_order_id' \in Nat \ {0},
           next_order_id <= next_order_id', m.order_id < next_order_id',
           m.type = "Add" => m.order_id = next_order_id, refused \subseteq refused',
           answer' = "Ok" \/ (answer' = "PoolExhausted" /\ m.order_id \in refused'),
           live' \in Seq(LiveOrder),
           \A i, j \in DOMAIN live' : live'[i].id = live'[j].id => i = j,
           \A x : (\E i \in DOMAIN live' : x = live'[i]) <=> x \in Orders(venue')
    PROVE  FlowInv'
<1>1. FlowTypes /\ IdsFresh /\ \E books : Replay(books) BY Zenon DEF FlowInv
<1>2. FlowTypes' BY <1>1, PublishTypes, Zenon DEF FlowTypes
<1>3. IdsFresh' BY <1>1, PublishFresh, Zenon
<1>4. \E books : Replay(books)'
  <2>1. PICK books : Replay(books) BY <1>1, Zenon
  <2> QED BY <1>1, <2>1, PublishReplay, Zenon
<1>5. LiveMatchesBook'
  <2>1. {live'[i] : i \in DOMAIN live'} = Orders(venue') BY RangeIff, Zenon
  <2> QED BY <2>1, Zenon DEF LiveMatchesBook
<1>6. LiveOnce' BY Zenon DEF LiveOnce
<1> QED BY <1>2, <1>3, <1>4, <1>5, <1>6, Zenon DEF FlowInv

LEMMA LotsPositive ==
    ASSUME NEW quantity \in Lots
    PROVE  quantity \in Nat \ {0}
BY FlowAssumption

LEMMA QuotedPrices ==
    ASSUME NEW side \in Sides, NEW price \in price_for(side)
    PROVE  price \in Prices
BY FlowAssumption DEF price_for, Prices, Sides

LEMMA AddKeeps ==
    ASSUME FlowInv, NEW side \in Sides, NEW price \in price_for(side), NEW quantity \in Lots,
           AddOrder(side, price, quantity)
    PROVE  FlowInv'
<1> DEFINE id == next_order_id
           m == [type |-> "Add", order_id |-> id, side |-> side, price |-> price,
                 quantity |-> quantity]
           new == [id |-> id, side |-> side, price |-> price, quantity |-> quantity]
<1>1. id \in Nat \ {0} /\ price \in Prices /\ quantity \in Nat \ {0}
  BY LotsPositive, QuotedPrices, Zenon DEF FlowInv, FlowTypes
<1>2. m \in Message /\ m.type = "Add" /\ m.order_id = id BY <1>1, Zenon DEF Message
<1>3. Dispatch(venue, VenueOrders, m) = Add(venue, VenueOrders, id, side, price, quantity)
  BY Zenon DEF Dispatch
<1>4. Publishes(m) BY <1>3, Zenon DEF AddOrder, Emit, Publishes
<1>5. WellFormed(venue) /\ live \in Seq(LiveOrder) BY Zenon DEF FlowInv, FlowTypes
<1>6. \A o \in Orders(venue) : o.id # id
  <2>1. \A o \in Orders(venue) : o.id \in Nat /\ o.id < id
    BY <1>5, Spot, Zenon DEF FlowInv, IdsFresh
  <2> QED BY <1>1, <2>1, SMTT(40)
<1>7. ~Known(venue, id) BY <1>6, Zenon DEF Known
<1>8. \A x : (\E i \in DOMAIN live : x = live[i]) <=> x \in Orders(venue)
  BY RangeIff, Zenon DEF FlowInv, LiveMatchesBook
<1>9. \/ /\ answer' = "PoolExhausted" /\ venue' = venue /\ live' = live
         /\ refused' = refused \cup {id}
      \/ /\ answer' = "Ok" /\ venue' = Appended(venue, id, side, price, quantity)
         /\ live' = Append(live, new) /\ refused' = refused
  <2>1. Dispatch(venue, VenueOrders, m) =
          IF Cardinality(Orders(venue)) = VenueOrders THEN Reject(venue, "PoolExhausted")
          ELSE Done(Appended(venue, id, side, price, quantity))
    BY <1>2, <1>7, WhenAdd, Zenon
  <2> HIDE DEF m
  <2>2. /\ venue' = Dispatch(venue, VenueOrders, m).queues
        /\ answer' = Dispatch(venue, VenueOrders, m).result
    BY <1>4, Zenon DEF Publishes, VenueDoes
  <2> QED BY <2>1, <2>2 DEF AddOrder, Reject, Done
<1>10. next_order_id' = id + 1 BY Zenon DEF AddOrder
<1>11. /\ next_order_id' \in Nat \ {0} /\ next_order_id <= next_order_id'
       /\ m.order_id < next_order_id' /\ m.order_id = next_order_id
  BY <1>1, <1>10
<1> HIDE DEF m
<1>12. /\ live' \in Seq(LiveOrder)
       /\ \A i, j \in DOMAIN live' : live'[i].id = live'[j].id => i = j
       /\ \A x : (\E i \in DOMAIN live' : x = live'[i]) <=> x \in Orders(venue')
  <2>1. CASE venue' = venue /\ live' = live BY <1>5, <1>8, <2>1, Zenon DEF FlowInv, LiveOnce
  <2>2. CASE venue' = Appended(venue, id, side, price, quantity) /\ live' = Append(live, new)
    <3> DEFINE n == Len(live)
    <3>1. new \in LiveOrder /\ new.id = id BY <1>1, Zenon DEF LiveOrder
    <3>2. \A x : x \in Orders(venue') <=> x \in Orders(venue) \/ x = new
      BY <1>1, <1>5, <1>7, <2>2, AppendEffect, SMTT(40)
    <3> HIDE DEF new
    <3>3. /\ n \in Nat /\ live' \in Seq(LiveOrder) /\ DOMAIN live = 1 .. n
          /\ DOMAIN live' = 1 .. n + 1
          /\ live'[n + 1] = new /\ \A i \in 1 .. n : live'[i] = live[i]
      <4>1. live' = Append(live, new) /\ live \in Seq(LiveOrder) /\ new \in LiveOrder
        BY <1>5, <2>2, <3>1, Zenon
      <4>2. n \in Nat /\ DOMAIN live = 1 .. n BY <4>1
      <4>3. live' \in Seq(LiveOrder) BY <4>1
      <4>4. /\ DOMAIN live' = 1 .. n + 1 /\ live'[n + 1] = new
            /\ \A i \in 1 .. n : live'[i] = live[i]
        BY <4>1, <4>2
      <4> QED BY <4>2, <4>3, <4>4, Zenon
    <3> HIDE DEF n
    <3>4. \A i \in 1 .. n : live[i].id # id BY <1>6, <1>8, <3>3, Zenon
    <3>5. ASSUME NEW i \in DOMAIN live', NEW j \in DOMAIN live', live'[i].id = live'[j].id
          PROVE  i = j
      <4>1. CASE i = n + 1 /\ j = n + 1 BY <4>1, Zenon
      <4>2. CASE i \in 1 .. n /\ j \in 1 .. n
        BY <3>3, <3>5, <4>2, Zenon DEF FlowInv, LiveOnce
      <4>3. CASE i = n + 1 /\ j \in 1 .. n BY <3>1, <3>3, <3>4, <3>5, <4>3, Zenon
      <4>4. CASE i \in 1 .. n /\ j = n + 1 BY <3>1, <3>3, <3>4, <3>5, <4>4, Zenon
      <4> QED BY <3>3, <4>1, <4>2, <4>3, <4>4
    <3>6. ASSUME NEW x PROVE (\E i \in DOMAIN live' : x = live'[i]) <=> x \in Orders(venue')
      <4>1. (\E i \in DOMAIN live' : x = live'[i]) <=> (\E i \in 1 .. n : x = live[i]) \/ x = new
        BY <3>3
      <4> QED BY <1>8, <3>2, <3>3, <4>1, Zenon
    <3> QED BY <3>3, <3>5, <3>6, Zenon
  <2> QED BY <1>9, <2>1, <2>2, Zenon
<1>13. /\ refused \subseteq refused'
       /\ (answer' = "Ok" \/ (answer' = "PoolExhausted" /\ m.order_id \in refused'))
  BY <1>2, <1>9, Zenon
<1> QED BY <1>2, <1>4, <1>11, <1>12, <1>13, PublishKeeps, Zenon

\* The order an amendment picks is in the exchange's book as the vector has it.
LEMMA Target ==
    ASSUME FlowInv, NEW i \in DOMAIN live
    PROVE  /\ live \in Seq(LiveOrder) /\ WellFormed(venue) /\ live[i] \in LiveOrder
           /\ live[i] \in Orders(venue)
           /\ Known(venue, live[i].id) /\ OrderOf(venue, live[i].id) = live[i]
           /\ next_order_id \in Nat \ {0} /\ live[i].id < next_order_id
           /\ \A j, k \in DOMAIN live : live[j].id = live[k].id => j = k
           /\ \A x : (\E j \in DOMAIN live : x = live[j]) <=> x \in Orders(venue)
<1>1. /\ live \in Seq(LiveOrder) /\ WellFormed(venue) /\ next_order_id \in Nat \ {0}
      /\ \A j, k \in DOMAIN live : live[j].id = live[k].id => j = k
  BY Zenon DEF FlowInv, FlowTypes, LiveOnce
<1>2. \A x : (\E j \in DOMAIN live : x = live[j]) <=> x \in Orders(venue)
  BY RangeIff, Zenon DEF FlowInv, LiveMatchesBook
<1>3. live[i] \in Orders(venue) BY <1>2, Zenon
<1>4. live[i] \in LiveOrder BY <1>1
<1>5. Known(venue, live[i].id) /\ OrderOf(venue, live[i].id) = live[i]
  BY <1>1, <1>3, OneOrder, Zenon
<1>6. live[i].id < next_order_id BY <1>3, Zenon DEF FlowInv, IdsFresh
<1> QED BY <1>1, <1>2, <1>3, <1>4, <1>5, <1>6, Zenon

\* What is left to show when an exchange step amends the live order i.
LEMMA AmendKeeps ==
    ASSUME FlowInv, NEW i \in DOMAIN live, NEW m \in Message, m.type # "Add",
           m.order_id = live[i].id, Publishes(m), answer' = "Ok",
           next_order_id' = next_order_id, refused' = refused,
           \/ live' = Drop(live, i) /\ venue' = Removed(venue, live[i])
           \/ \E new \in LiveOrder :
                 /\ new.id = live[i].id /\ live' = [live EXCEPT ![i] = new]
                 /\ \A x : x \in Orders(venue') <=>
                              (x \in Orders(venue) /\ x.id # live[i].id) \/ x = new
    PROVE  FlowInv'
<1> DEFINE target == live[i]
<1>1. /\ live \in Seq(LiveOrder) /\ WellFormed(venue) /\ target \in Orders(venue)
      /\ next_order_id \in Nat \ {0} /\ target.id < next_order_id
      /\ \A j, k \in DOMAIN live : live[j].id = live[k].id => j = k
      /\ \A x : (\E j \in DOMAIN live : x = live[j]) <=> x \in Orders(venue)
  BY Target, Zenon
<1>2. /\ live' \in Seq(LiveOrder)
      /\ \A j, k \in DOMAIN live' : live'[j].id = live'[k].id => j = k
      /\ \A x : (\E j \in DOMAIN live' : x = live'[j]) <=> x \in Orders(venue')
  <2>1. CASE live' = Drop(live, i) /\ venue' = Removed(venue, target)
    <3>1. /\ live' \in Seq(LiveOrder)
          /\ \A j, k \in DOMAIN live' : live'[j].id = live'[k].id => j = k
          /\ \A x : (\E j \in DOMAIN live' : x = live'[j])
                       <=> (\E j \in DOMAIN live : x = live[j]) /\ x.id # target.id
      <4>1. /\ Drop(live, i) \in Seq(LiveOrder)
            /\ \A j, k \in DOMAIN Drop(live, i) :
                  Drop(live, i)[j].id = Drop(live, i)[k].id => j = k
            /\ \A x : (\E j \in DOMAIN Drop(live, i) : x = Drop(live, i)[j])
                         <=> (\E j \in DOMAIN live : x = live[j]) /\ x.id # target.id
        BY <1>1, DropEffect, Zenon
      <4> QED BY <2>1, <4>1
    <3> HIDE DEF target
    <3>2. \A x : x \in Orders(venue') <=> x \in Orders(venue) /\ x.id # target.id
      BY <1>1, <2>1, RemoveEffect, Zenon
    <3>3. ASSUME NEW x PROVE (\E j \in DOMAIN live' : x = live'[j]) <=> x \in Orders(venue')
      <4>1. (\E j \in DOMAIN live : x = live[j]) <=> x \in Orders(venue) BY <1>1, Zenon
      <4>2. (\E j \in DOMAIN live' : x = live'[j])
               <=> (\E j \in DOMAIN live : x = live[j]) /\ x.id # target.id
        BY <3>1, Zenon
      <4> QED BY <3>2, <4>1, <4>2, Zenon
    <3> QED BY <3>1, <3>3, Zenon
  <2>2. CASE \E new \in LiveOrder :
               /\ new.id = live[i].id /\ live' = [live EXCEPT ![i] = new]
               /\ \A x : x \in Orders(venue') <=> (x \in Orders(venue) /\ x.id # live[i].id) \/ x = new
    <3>1. PICK new \in LiveOrder :
               /\ new.id = live[i].id /\ live' = [live EXCEPT ![i] = new]
               /\ \A x : x \in Orders(venue') <=> (x \in Orders(venue) /\ x.id # live[i].id) \/ x = new
      BY <2>2, Zenon
    <3>2. /\ live' \in Seq(LiveOrder) /\ DOMAIN live' = DOMAIN live
          /\ \A j, k \in DOMAIN live : live'[j].id = live'[k].id => j = k
          /\ \A x : (\E j \in DOMAIN live : x = live'[j])
                       <=> \/ (\E j \in DOMAIN live : x = live[j]) /\ x.id # live[i].id
                           \/ x = new
      BY <1>1, <3>1, ReplaceEffect
    <3>3. ASSUME NEW x PROVE (\E j \in DOMAIN live' : x = live'[j]) <=> x \in Orders(venue')
      <4>1. (\E j \in DOMAIN live : x = live[j]) <=> x \in Orders(venue) BY <1>1, Zenon
      <4>2. (\E j \in DOMAIN live' : x = live'[j])
               <=> \/ (\E j \in DOMAIN live : x = live[j]) /\ x.id # live[i].id
                   \/ x = new
        BY <3>2, ZenonT(40)
      <4> QED BY <3>1, <4>1, <4>2, Zenon
    <3> QED BY <3>2, <3>3, Zenon
  <2> QED BY <2>1, <2>2, Zenon
<1>3. next_order_id' \in Nat \ {0} /\ next_order_id <= next_order_id' /\ m.order_id < next_order_id'
  BY <1>1
<1>4. refused \subseteq refused' BY Zenon
<1> QED BY <1>2, <1>3, <1>4, PublishKeeps, Zenon

LEMMA CancelKeeps ==
    ASSUME FlowInv, NEW i \in DOMAIN live, CancelOrder(i)
    PROVE  FlowInv'
<1> DEFINE target == live[i]
           m == [type |-> "Cancel", order_id |-> target.id, side |-> target.side,
                 price |-> target.price, quantity |-> target.quantity]
<1>1. target \in LiveOrder /\ Known(venue, target.id) /\ OrderOf(venue, target.id) = target
  BY Target, Zenon
<1>2. m \in Message /\ m.type = "Cancel" /\ m.order_id = target.id BY <1>1, Zenon DEF Message, LiveOrder
<1>3. Dispatch(venue, VenueOrders, m) = Cancel(venue, target.id) BY Zenon DEF Dispatch
<1>4. Publishes(m) BY <1>3, Zenon DEF CancelOrder, Emit, Publishes
<1>5. answer' = "Ok" /\ venue' = Removed(venue, target)
  BY <1>1, Zenon DEF CancelOrder, VenueDoes, Cancel, Done
<1>6. live' = Drop(live, i) /\ next_order_id' = next_order_id /\ refused' = refused
  BY Zenon DEF CancelOrder
<1> HIDE DEF m
<1>7. m.type # "Add" BY <1>2, Zenon
<1> QED BY <1>2, <1>4, <1>5, <1>6, <1>7, AmendKeeps, Zenon

LEMMA ModifyKeeps ==
    ASSUME FlowInv, NEW i \in DOMAIN live, NEW price \in Prices, NEW quantity \in Lots,
           ModifyOrder(i, price, quantity)
    PROVE  FlowInv'
<1> DEFINE target == live[i]
           m == [type |-> "Modify", order_id |-> target.id, side |-> target.side,
                 price |-> price, quantity |-> quantity]
           new == [id |-> target.id, side |-> target.side, price |-> price, quantity |-> quantity]
<1>1. /\ target \in LiveOrder /\ Known(venue, target.id) /\ OrderOf(venue, target.id) = target
      /\ target \in Orders(venue) /\ WellFormed(venue) /\ live \in Seq(LiveOrder)
  BY Target, Zenon
<1>2. quantity \in Nat \ {0} BY LotsPositive, SMTT(40)
<1>3. m \in Message /\ m.type = "Modify" /\ m.order_id = target.id
  BY <1>1, <1>2, Zenon DEF Message, LiveOrder
<1>4. Dispatch(venue, VenueOrders, m) = Modify(venue, target.id, price, quantity) BY Zenon DEF Dispatch
<1>5. Publishes(m) BY <1>4, Zenon DEF ModifyOrder, Emit, Publishes
<1>6. /\ answer' = "Ok"
      /\ \/ price = target.price /\ venue' = Resized(venue, target, quantity)
         \/ venue' = Appended(Removed(venue, target), target.id, target.side, price, quantity)
  <2>1. Modify(venue, target.id, price, quantity) =
          IF price = target.price /\ quantity < target.quantity
          THEN Done(Resized(venue, target, quantity))
          ELSE Done(Appended(Removed(venue, target), target.id, target.side, price, quantity))
    BY <1>1, <1>2, ZenonT(40), Zenon DEF Modify
  <2> HIDE DEF target, m, new
  <2>2. VenueDoes(Modify(venue, target.id, price, quantity)) BY Zenon DEF ModifyOrder, target
  <2> QED BY <2>1, <2>2, SMTT(40) DEF VenueDoes, Done
<1>7. live' = [live EXCEPT ![i] = new] /\ next_order_id' = next_order_id /\ refused' = refused
  <2>1. live' = [live EXCEPT ![i].price = price, ![i].quantity = quantity]
    BY <1>6, Zenon DEF ModifyOrder
  <2> QED BY <1>1, <2>1, Zenon DEF ModifyOrder, LiveOrder
<1>8. new \in LiveOrder /\ new.id = target.id BY <1>1, <1>2, Zenon DEF LiveOrder
<1>9. \A x : x \in Orders(venue') <=> (x \in Orders(venue) /\ x.id # target.id) \/ x = new
  <2>1. CASE price = target.price /\ venue' = Resized(venue, target, quantity)
    <3>1. new = [target EXCEPT !.quantity = quantity]
      <4>1. target = OrderAt(venue, target.side, target.price,
                             PositionOf(venue[target.side][target.price], target.id))
        BY <1>1, Spot, Zenon
      <4> HIDE DEF target
      <4> QED BY <2>1, <4>1 DEF OrderAt
    <3> HIDE DEF target, new
    <3> QED BY <1>1, <1>2, <2>1, <3>1, ResizeEffect, Zenon
  <2>2. CASE venue' = Appended(Removed(venue, target), target.id, target.side, price, quantity)
    <3> HIDE DEF target
    <3> QED BY <1>1, <1>2, <2>2, MoveEffect, SMTT(40)
  <2> QED BY <1>6, <2>1, <2>2, Zenon
<1> HIDE DEF m, new
<1>10. m.type # "Add" BY <1>3, Zenon
<1>11. \E n \in LiveOrder :
          /\ n.id = live[i].id /\ live' = [live EXCEPT ![i] = n]
          /\ \A x : x \in Orders(venue') <=> (x \in Orders(venue) /\ x.id # live[i].id) \/ x = n
  BY <1>7, <1>8, <1>9, Zenon
<1> QED BY <1>3, <1>5, <1>6, <1>7, <1>10, <1>11, AmendKeeps, Zenon

LEMMA TradeKeeps ==
    ASSUME FlowInv, NEW i \in DOMAIN live, TradeOrder(i)
    PROVE  FlowInv'
<1> DEFINE target == live[i]
           fill == IF target.quantity > 10 THEN target.quantity \div 2 ELSE target.quantity
           m == [type |-> "Trade", order_id |-> target.id, side |-> target.side,
                 price |-> target.price, quantity |-> fill]
           left == target.quantity - fill
           new == [target EXCEPT !.quantity = left]
<1>1. /\ target \in LiveOrder /\ Known(venue, target.id) /\ OrderOf(venue, target.id) = target
      /\ target \in Orders(venue) /\ WellFormed(venue) /\ live \in Seq(LiveOrder)
  BY Target, Zenon
<1>2. fill \in Nat \ {0} /\ (fill < target.quantity => left \in Nat \ {0})
      /\ (~(fill >= target.quantity) => fill < target.quantity)
  <2>1. target.quantity \in Nat \ {0} BY <1>1, Zenon DEF LiveOrder
  <2> HIDE DEF target
  <2> QED BY <2>1
<1>3. TradeOrder(i) <=>
        /\ Emit("Trade", target.id, target.side, target.price, fill)
        /\ VenueDoes(Execute(venue, target.id, fill))
        /\ live' = IF fill >= target.quantity THEN Drop(live, i)
                   ELSE [live EXCEPT ![i].quantity = @ - fill]
        /\ UNCHANGED <<next_order_id, refused>>
  BY SMTT(40) DEF TradeOrder
<1> HIDE DEF fill
<1>4. m \in Message /\ m.type = "Trade" /\ m.order_id = target.id
  BY <1>1, <1>2, Zenon DEF Message, LiveOrder
<1>5. Dispatch(venue, VenueOrders, m) = Execute(venue, target.id, fill) BY Zenon DEF Dispatch
<1>6. Publishes(m) BY <1>3, <1>5, SMTT(40) DEF Emit, Publishes
<1>7. Execute(venue, target.id, fill) =
        IF fill >= target.quantity THEN Done(Removed(venue, target))
        ELSE Done(Resized(venue, target, left))
  BY <1>1, <1>2, Zenon DEF Execute
<1>8. /\ answer' = "Ok" /\ next_order_id' = next_order_id /\ refused' = refused
      /\ venue' = IF fill >= target.quantity THEN Removed(venue, target)
                  ELSE Resized(venue, target, left)
  <2> HIDE DEF target, left
  <2> QED BY <1>3, <1>7 DEF VenueDoes, Done
<1>9. \/ live' = Drop(live, i) /\ venue' = Removed(venue, target)
      \/ \E n \in LiveOrder :
            /\ n.id = target.id /\ live' = [live EXCEPT ![i] = n]
            /\ \A x : x \in Orders(venue') <=> (x \in Orders(venue) /\ x.id # target.id) \/ x = n
  <2>1. CASE fill >= target.quantity BY <1>3, <1>8, <2>1, Zenon
  <2>2. CASE ~(fill >= target.quantity)
    <3>1. left \in Nat \ {0} BY <1>2, <2>2, Zenon
    <3>2. new \in LiveOrder /\ new.id = target.id
      <4> HIDE DEF target, left
      <4> QED BY <1>1, <3>1, Zenon DEF LiveOrder
    <3>3. live' = [live EXCEPT ![i] = new] BY <1>3, <2>2, Zenon
    <3> HIDE DEF target, left
    <3>4. \A x : x \in Orders(venue') <=> (x \in Orders(venue) /\ x.id # target.id) \/ x = new
      BY <1>1, <1>8, <2>2, <3>1, ResizeEffect, Zenon
    <3> HIDE DEF new
    <3> QED BY <3>2, <3>3, <3>4, Zenon
  <2> QED BY <2>1, <2>2, Zenon
<1> HIDE DEF m
<1>10. m.type # "Add" BY <1>4, Zenon
<1> QED BY <1>4, <1>6, <1>8, <1>9, <1>10, AmendKeeps, Zenon

-----------------------------------------------------------------------------
(* A step of the engine: the messages before the n-th are lost. *)

LEMMA ApplyOutcome ==
    ASSUME FlowInv, NEW n \in DOMAIN stream, Apply(n), NEW books, Replay(books)
    PROVE  /\ WellFormed(book') /\ SameRest(book, book', {stream[n].order_id})
           /\ SameRest(book', books[n], skipped' \cup refused')
           /\ skipped' = {} /\ VenueOrders = EngineOrders => book' = books[n]
           /\ \/ result' = "Ok"
              \/ result' = "PoolExhausted" /\ stream[n].type = "Add"
              \/ result' = "UnknownOrder" /\ stream[n].order_id \in skipped' \cup refused'
<1> DEFINE m == stream[n]
           out == Dispatch(book, EngineOrders, m)
           venueOut == Dispatch(books[n - 1], VenueOrders, m)
           X == skipped' \cup refused
           Y == skipped' \cup refused'
<1>1. FlowTypes /\ n \in 1 .. Len(stream) /\ Len(stream) \in Nat /\ n - 1 \in 0 .. Len(stream)
  BY DEF FlowInv, FlowTypes
<1>2. m \in Message /\ WellFormed(book) BY <1>1 DEF FlowTypes
<1>3. book' = out.queues /\ result' = out.result BY Zenon DEF Apply, EngineDoes
<1>4. /\ WellFormed(books[n - 1]) /\ books[n] = venueOut.queues
      /\ \/ venueOut.result = "Ok"
         \/ venueOut.result = "PoolExhausted" /\ m.order_id \in refused
  <2>1. WellFormed(books[n - 1]) BY <1>1, Zenon DEF Replay
  <2>2. /\ books[n] = Dispatch(books[n - 1], VenueOrders, stream[n]).queues
        /\ \/ Dispatch(books[n - 1], VenueOrders, stream[n]).result = "Ok"
           \/ /\ Dispatch(books[n - 1], VenueOrders, stream[n]).result = "PoolExhausted"
              /\ stream[n].order_id \in refused
    BY <1>1, Zenon DEF Replay
  <2> QED BY <2>1, <2>2, Zenon
<1>5. /\ skipped' = skipped \cup {stream[i].order_id : i \in 1 .. n - 1}
      /\ refused' = IF result' # "PoolExhausted" THEN refused ELSE refused \cup {m.order_id}
  BY Zenon DEF Apply
<1>6. /\ skipped \cup refused \subseteq X /\ X \subseteq Y
      /\ \A i \in 1 .. n - 1 : stream[i].order_id \in X
      /\ result' = "PoolExhausted" => m.order_id \in Y
      /\ refused \subseteq Y
  BY <1>5, Zenon
<1>7. m.type = "Add" => ~Known(book, m.order_id) BY Zenon DEF FlowInv, IdsFresh
<1> HIDE DEF m, X, Y
<1>8. SameRest(book, books[n - 1], X)
  <2>1. SameRest(book, books[0], skipped \cup refused) BY Zenon DEF Replay
  <2>2. SameRest(book, books[0], X) BY <1>6, <2>1, SameRestMore, ZenonT(40), Zenon
  <2>3. SameRest(books[0], books[n - 1], X)
    <3>1. 0 \in 0 .. Len(stream) /\ 0 <= n - 1 /\ 0 + 1 = 1 BY <1>1
    <3> QED BY <1>1, <1>6, <3>1, Zenon DEF Replay
  <2> QED BY <2>2, <2>3, SameRestTrans, ZenonT(40), Zenon
<1>9. WellFormed(book') /\ SameRest(book, book', {m.order_id})
  BY <1>2, <1>3, DispatchKeeps, Zenon
<1>10. SameRest(books[n - 1], books[n], {m.order_id}) BY <1>2, <1>4, DispatchKeeps, Zenon
<1>11. \/ out.result = "Ok"
       \/ out.result = "PoolExhausted" /\ m.type = "Add"
       \/ out.result = "UnknownOrder"
  BY <1>2, <1>7, DispatchAnswers, SMTT(40)
<1> HIDE DEF out, venueOut
<1>12. ASSUME skipped' = {}, VenueOrders = EngineOrders PROVE book' = books[n]
  <2>1. n = 1
    <3>1. 1 \notin 1 .. n - 1 BY <1>5, <1>12, Zenon
    <3> QED BY <1>1, <3>1, SMTT(40)
  <2>2. skipped = {} BY <1>5, <1>12, SMTT(40)
  <2>3. book = books[n - 1] BY <1>12, <2>1, <2>2 DEF Replay
  <2> QED BY <1>3, <1>4, <1>12, <2>3, Zenon DEF out, venueOut
<1>13. /\ SameRest(book', books[n], Y)
       /\ \/ result' = "Ok"
          \/ result' = "PoolExhausted" /\ m.type = "Add"
          \/ result' = "UnknownOrder" /\ m.order_id \in Y
  <2>1. CASE m.order_id \in Y
    <3>1. {m.order_id} \subseteq Y BY <2>1, Zenon
    <3>2. SameRest(book, book', Y) BY <1>9, <3>1, SameRestMore, Zenon
    <3>3. SameRest(book, books[n - 1], Y) BY <1>6, <1>8, SameRestMore, Zenon
    <3>4. SameRest(books[n - 1], books[n], Y) BY <1>10, <3>1, SameRestMore, Zenon
    <3>5. SameRest(book, books[n], Y) BY <3>3, <3>4, SameRestTrans, Zenon
    <3>6. SameRest(book', books[n], Y) BY <3>2, <3>5, Zenon DEF SameRest
    <3> QED BY <1>3, <1>11, <2>1, <3>6, Zenon
  <2>2. CASE m.order_id \notin Y
    <3>1. m.order_id \notin X BY <1>6, <2>2, Zenon
    <3>2. out.result # "PoolExhausted" /\ venueOut.result = "Ok" BY <1>3, <1>4, <1>6, <2>2, Zenon
    <3>3. venueOut.result # "PoolExhausted" BY <3>2, Zenon
    <3>4. SameRest(out.queues, venueOut.queues, X) /\ out.result = venueOut.result
      <4> DEFINE base == books[n - 1]
      <4>1. /\ WellFormed(base) /\ SameRest(book, base, X)
            /\ Dispatch(book, EngineOrders, m).result # "PoolExhausted"
            /\ Dispatch(base, VenueOrders, m).result # "PoolExhausted"
        <5>1. WellFormed(base) /\ SameRest(book, base, X) BY <1>4, <1>8, Zenon
        <5>2. Dispatch(book, EngineOrders, m).result # "PoolExhausted" BY <3>2, Zenon DEF out
        <5>3. Dispatch(base, VenueOrders, m).result # "PoolExhausted" BY <3>3, Zenon DEF venueOut
        <5> QED BY <5>1, <5>2, <5>3, Zenon
      <4> HIDE DEF base
      <4>2. /\ SameRest(Dispatch(book, EngineOrders, m).queues,
                        Dispatch(base, VenueOrders, m).queues, X)
            /\ Dispatch(book, EngineOrders, m).result = Dispatch(base, VenueOrders, m).result
        BY <1>2, <3>1, <4>1, DispatchAgrees, SMTT(90)
      <4> QED BY <4>2, Zenon DEF base, out, venueOut
    <3>5. SameRest(book', books[n], X) BY <1>3, <1>4, <3>4, Zenon
    <3>6. SameRest(book', books[n], Y) BY <1>6, <3>5, SameRestMore, Zenon
    <3> QED BY <1>3, <3>2, <3>4, <3>6, Zenon
  <2> QED BY <2>1, <2>2, Zenon
<1> QED BY <1>9, <1>12, <1>13, Zenon DEF m, Y

LEMMA ApplyKeeps ==
    ASSUME FlowInv, NEW n \in DOMAIN stream, Apply(n)
    PROVE  FlowInv'
<1> DEFINE len == Len(stream)
           m == stream[n]
<1>1. PICK books : Replay(books) BY Zenon DEF FlowInv
<1>2. /\ WellFormed(book') /\ SameRest(book, book', {m.order_id})
      /\ SameRest(book', books[n], skipped' \cup refused')
      /\ skipped' = {} /\ VenueOrders = EngineOrders => book' = books[n]
  BY <1>1, ApplyOutcome, Zenon
<1>3. /\ venue' = venue /\ live' = live /\ next_order_id' = next_order_id
      /\ stream' = SubSeq(stream, n + 1, Len(stream)) /\ refused \subseteq refused'
  BY SMTT(40) DEF Apply, exchange
<1>4. /\ stream \in Seq(Message) /\ len \in Nat /\ n \in 1 .. len /\ DOMAIN stream = 1 .. len
      /\ stream' \in Seq(Message) /\ Len(stream') = len - n /\ DOMAIN stream' = 1 .. len - n
      /\ \A k \in 1 .. len - n : k + n \in 1 .. len /\ stream'[k] = stream[k + n]
  <2>1. stream \in Seq(Message) /\ len \in Nat /\ n \in 1 .. len /\ DOMAIN stream = 1 .. len
    BY DEF FlowInv, FlowTypes
  <2>2. Len(stream') = len - n /\ DOMAIN stream' = 1 .. len - n BY <1>3, <2>1
  <2>3. \A k \in 1 .. len - n : k + n \in 1 .. len /\ stream'[k] = stream[k + n] BY <1>3, <2>1
  <2>4. stream' \in Seq(Message) BY <1>3, <2>1, SMTT(40)
  <2> QED BY <2>1, <2>2, <2>3, <2>4, Zenon
<1> HIDE DEF len, m
<1>5. FlowTypes' /\ LiveOnce' /\ LiveMatchesBook'
  <2>1. FlowTypes' BY <1>2, <1>3, <1>4, Zenon DEF FlowInv, FlowTypes
  <2>2. LiveOnce' BY <1>3, Zenon DEF FlowInv, LiveOnce
  <2>3. LiveMatchesBook' BY <1>3, Zenon DEF FlowInv, LiveMatchesBook
  <2> QED BY <2>1, <2>2, <2>3, Zenon
<1>6. IdsFresh'
  <2>1. \A o \in Orders(venue') : o.id < next_order_id' BY <1>3, Zenon DEF FlowInv, IdsFresh
  <2>2. ASSUME NEW o \in Orders(book') PROVE o.id < next_order_id'
    <3>1. CASE o.id = m.order_id BY <1>3, <3>1, ZenonT(40), Zenon DEF FlowInv, IdsFresh, m
    <3>2. CASE o.id # m.order_id
      <4>1. o \in Orders(book) BY <1>2, <3>2, ZenonT(40), Zenon DEF SameRest
      <4> QED BY <1>3, <4>1, Zenon DEF FlowInv, IdsFresh
    <3> QED BY <3>1, <3>2, SMTT(40)
  <2>3. \A k \in DOMAIN stream' : stream'[k].order_id < next_order_id'
    <3>1. \A k \in 1 .. len : stream[k].order_id < next_order_id
      BY <1>4, Zenon DEF FlowInv, IdsFresh
    <3>2. ASSUME NEW k \in 1 .. len - n PROVE stream'[k].order_id < next_order_id'
      BY <1>3, <1>4, <3>1, Zenon
    <3> QED BY <1>4, <3>2, Zenon
  <2>4. ASSUME NEW k \in DOMAIN stream', stream'[k].type = "Add"
        PROVE  /\ ~Known(book', stream'[k].order_id)
               /\ \A j \in DOMAIN stream' : j < k => stream'[j].order_id # stream'[k].order_id
    <3>1. k + n \in 1 .. len /\ stream'[k] = stream[k + n] /\ n < k + n BY <1>4
    <3>2. /\ ~Known(book, stream'[k].order_id)
          /\ \A j \in 1 .. len : j < k + n => stream[j].order_id # stream'[k].order_id
      BY <1>4, <2>4, <3>1, ZenonT(40), Zenon DEF FlowInv, IdsFresh
    <3>3. m.order_id # stream'[k].order_id BY <1>4, <3>1, <3>2, Zenon DEF m
    <3>4. ~Known(book', stream'[k].order_id) BY <1>2, <3>2, <3>3, Zenon DEF SameRest, Known
    <3>5. ASSUME NEW j \in DOMAIN stream', j < k
          PROVE  stream'[j].order_id # stream'[k].order_id
      <4>1. j + n \in 1 .. len /\ stream'[j] = stream[j + n] /\ j + n < k + n BY <1>4, <3>5
      <4> QED BY <3>2, <4>1, Zenon
    <3> QED BY <3>4, <3>5, Zenon
  <2> QED BY <2>1, <2>2, <2>3, <2>4, Zenon DEF IdsFresh
<1>7. \E bs : Replay(bs)'
  <2>0. PICK bs : bs = [k \in 0 .. len - n |-> books[k + n]] BY Zenon
  <2>1. \A k \in 0 .. len - n : bs[k] = books[k + n] /\ k + n \in 0 .. len BY <1>4, <2>0, SMTT(40)
  <2>2. \A k \in 0 .. Len(stream') : WellFormed(bs[k])
    <3>1. \A k \in 0 .. len : WellFormed(books[k]) BY <1>1, Zenon DEF Replay, len
    <3> QED BY <1>4, <2>1, <3>1, Zenon
  <2>3. bs[Len(stream')] = venue'
    <3>1. len - n \in 0 .. len - n /\ len - n + n = len BY <1>4
    <3> QED BY <1>1, <1>3, <1>4, <2>1, <3>1, Zenon DEF Replay, len
  <2>4. ASSUME NEW k \in 1 .. Len(stream')
        PROVE  /\ bs[k] = Dispatch(bs[k - 1], VenueOrders, stream'[k]).queues
               /\ \/ Dispatch(bs[k - 1], VenueOrders, stream'[k]).result = "Ok"
                  \/ /\ Dispatch(bs[k - 1], VenueOrders, stream'[k]).result = "PoolExhausted"
                     /\ stream'[k].order_id \in refused'
    <3>1. /\ k \in 0 .. len - n /\ k - 1 \in 0 .. len - n /\ k \in 1 .. len - n
          /\ k + n \in 1 .. len /\ (k - 1) + n = (k + n) - 1
      BY <1>4, SMTT(40)
    <3>2. bs[k] = books[k + n] /\ bs[k - 1] = books[(k + n) - 1] /\ stream'[k] = stream[k + n]
      BY <1>4, <2>1, <3>1, Zenon
    <3>3. /\ books[k + n] = Dispatch(books[(k + n) - 1], VenueOrders, stream[k + n]).queues
          /\ \/ Dispatch(books[(k + n) - 1], VenueOrders, stream[k + n]).result = "Ok"
             \/ /\ Dispatch(books[(k + n) - 1], VenueOrders, stream[k + n]).result = "PoolExhausted"
                /\ stream[k + n].order_id \in refused
      BY <1>1, <3>1, Zenon DEF Replay, len
    <3> QED BY <1>3, <3>2, <3>3, ZenonT(40), Zenon
  <2>5. bs[0] = books[n] BY <1>4, <2>1
  <2>6. ASSUME NEW j \in 0 .. Len(stream'), NEW k \in 0 .. Len(stream'), NEW X, j <= k,
               \A i \in j + 1 .. k : stream'[i].order_id \in X
        PROVE  SameRest(bs[j], bs[k], X)
    <3>1. /\ j \in 0 .. len - n /\ k \in 0 .. len - n /\ j + n \in 0 .. len /\ k + n \in 0 .. len
          /\ j + n <= k + n
      BY <1>4, <2>6
    <3>2. ASSUME NEW i \in (j + n) + 1 .. k + n PROVE stream[i].order_id \in X
      <4>1. i - n \in j + 1 .. k /\ i - n \in 1 .. len - n /\ (i - n) + n = i BY <1>4, <3>1, SMTT(40)
      <4>2. stream'[i - n] = stream[i] BY <1>4, <4>1, Zenon
      <4> QED BY <2>6, <4>1, <4>2, Zenon
    <3>3. SameRest(books[j + n], books[k + n], X) BY <1>1, <3>1, <3>2, Zenon DEF Replay, len
    <3> QED BY <2>1, <3>1, <3>3, Zenon
  <2>7. Replay(bs)' BY <1>2, <2>2, <2>3, <2>4, <2>5, <2>6, Zenon DEF Replay
  <2> QED BY <2>7, Zenon
<1> QED BY <1>5, <1>6, <1>7, Zenon DEF FlowInv

-----------------------------------------------------------------------------
(* The theorems. *)

LEMMA FlowInit ==
    ASSUME Init
    PROVE  FlowInv
<1>1. /\ venue = EmptyQueues /\ book = EmptyQueues /\ live = << >> /\ stream = << >>
      /\ next_order_id = 1 /\ skipped = {} /\ refused = {}
  BY Zenon DEF Init
<1>2. \A s \in Sides, p \in Prices : EmptyQueues[s][p] = << >> BY Zenon DEF EmptyQueues
<1>3. EmptyQueues \in Books BY DEF EmptyQueues, Books
<1>4. WellFormed(EmptyQueues) BY <1>2, <1>3 DEF WellFormed, Unique
<1>5. \A o : o \notin Orders(EmptyQueues)
  <2> SUFFICES ASSUME NEW o, o \in Orders(EmptyQueues) PROVE FALSE
    BY Zenon
  <2>1. PICK s \in Sides, p \in Prices :
           \E i \in DOMAIN EmptyQueues[s][p] : o = OrderAt(EmptyQueues, s, p, i)
    BY OrdersIff, Zenon
  <2> QED BY <1>2, <2>1
<1>6. FlowTypes /\ LiveOnce BY <1>1, <1>4, SMTT(40) DEF FlowTypes, LiveOnce
<1>7. LiveMatchesBook
  <2>1. {live[i] : i \in DOMAIN live} = {} BY <1>1
  <2>2. Orders(venue) = {} BY <1>1, <1>5, Zenon
  <2> QED BY <2>1, <2>2, Zenon DEF LiveMatchesBook
<1>8. IdsFresh BY <1>1, <1>5 DEF IdsFresh
<1>9. \E books : Replay(books)
  <2>1. PICK books : books = [k \in 0 .. 0 |-> EmptyQueues] BY Zenon
  <2>2. books[0] = EmptyQueues /\ Len(stream) = 0 BY <1>1, <2>1
  <2>3. SameRest(book, books[0], skipped \cup refused) BY <1>1, <2>2, SameRestSelf, Zenon
  <2>4. \A j, k \in 0 .. Len(stream) : \A X : SameRest(books[j], books[k], X)
    <3>1. \A j \in 0 .. Len(stream) : j = 0 BY <2>2, SMTT(40)
    <3> QED BY <3>1, SameRestSelf, Zenon
  <2>5. Replay(books) BY <1>1, <1>4, <2>2, <2>3, <2>4, SMTT(40) DEF Replay
  <2> QED BY <2>5, Zenon
<1> QED BY <1>6, <1>7, <1>8, <1>9, Zenon DEF FlowInv

LEMMA FlowStep ==
    ASSUME FlowInv, [Next]_vars
    PROVE  FlowInv'
<1>1. CASE \E side \in Sides, quantity \in Lots :
             \E price \in price_for(side) : AddOrder(side, price, quantity)
  BY <1>1, AddKeeps, Zenon
<1>2. CASE \E i \in DOMAIN live : CancelOrder(i) \/ TradeOrder(i)
  BY <1>2, CancelKeeps, TradeKeeps, Zenon
<1>3. CASE \E i \in DOMAIN live, price \in MinPrice .. MaxPrice, quantity \in Lots :
             ModifyOrder(i, price, quantity)
  BY <1>3, ModifyKeeps, Zenon DEF Prices
<1>4. CASE \E n \in DOMAIN stream : Apply(n)
  BY <1>4, ApplyKeeps, Zenon
<1>5. CASE UNCHANGED vars
  <2>1. /\ venue' = venue /\ live' = live /\ next_order_id' = next_order_id /\ stream' = stream
        /\ book' = book /\ skipped' = skipped /\ refused' = refused
    BY <1>5, Zenon DEF vars, exchange, engine
  <2>2. FlowTypes' /\ LiveOnce' BY <2>1, Zenon DEF FlowInv, FlowTypes, LiveOnce
  <2>3. LiveMatchesBook' BY <2>1, Zenon DEF FlowInv, LiveMatchesBook
  <2>4. IdsFresh' BY <2>1, Zenon DEF FlowInv, IdsFresh
  <2>5. PICK books : Replay(books) BY Zenon DEF FlowInv
  <2>6. Replay(books)' BY <2>1, <2>5, Zenon DEF Replay
  <2> QED BY <2>2, <2>3, <2>4, <2>6, Zenon DEF FlowInv
<1> QED BY <1>1, <1>2, <1>3, <1>4, <1>5, Zenon DEF Next

\* The invariant of the order flow: the books are sound, the exchange's two
\* records of its live orders agree, an order's Add is the first message about
\* it, and replaying the messages under way from a book the engine agrees with,
\* but for orders with a lost message or without room, gives the exchange's book.
THEOREM FlowInvariant == Spec => []FlowInv
<1>1. Init => FlowInv BY FlowInit, Zenon
<1>2. FlowInv /\ [Next]_vars => FlowInv' BY FlowStep, Zenon
<1> QED BY <1>1, <1>2, PTL DEF Spec

\* Whatever the exchange does, the vector it picks amendments from has exactly
\* the orders of its book, with their side, price and remaining quantity.
THEOREM LiveAlwaysMatchesBook == Spec => []LiveMatchesBook
<1>1. FlowInv => LiveMatchesBook BY SMTT(40) DEF FlowInv
<1> QED BY <1>1, FlowInvariant, PTL

\* Without losses and with equal pools, an engine that has caught up has the
\* exchange's book, queue for queue, for every number of orders and messages.
THEOREM BooksAlwaysAgree == Spec => []BooksAgree
<1>1. FlowInv => BooksAgree
  <2> SUFFICES ASSUME FlowInv, CaughtUp, skipped = {}, VenueOrders = EngineOrders
               PROVE  book = venue
    BY Zenon DEF BooksAgree
  <2>1. PICK books : Replay(books) BY Zenon DEF FlowInv
  <2>2. Len(stream) = 0 BY Zenon DEF CaughtUp
  <2> QED BY <2>1, <2>2, Zenon DEF Replay
<1> QED BY <1>1, FlowInvariant, PTL

\* However many messages are lost and wherever, they harm no order but their own.
THEOREM LossAlwaysIsolated == Spec => []LossIsIsolated
<1>1. FlowInv => LossIsIsolated
  <2> SUFFICES ASSUME FlowInv, CaughtUp
               PROVE  Rest(book, skipped \cup refused) = Rest(venue, skipped \cup refused)
    BY Zenon DEF LossIsIsolated
  <2>1. PICK books : Replay(books) BY Zenon DEF FlowInv
  <2>2. Len(stream) = 0 BY SMTT(40) DEF CaughtUp
  <2>3. SameRest(book, venue, skipped \cup refused) BY <2>1, <2>2, Zenon DEF Replay
  <2> QED BY <2>3, RestIff, Zenon
<1> QED BY <1>1, FlowInvariant, PTL

\* Every step of the engine counts its message as what happened to it.
THEOREM RejectionsAlwaysExplained == Spec => RejectionsExplained
<1> DEFINE Explained ==
             \A n \in DOMAIN stream : Len(stream') = Len(stream) - n =>
                \/ result' = "Ok"
                \/ result' = "PoolExhausted" /\ stream[n].type = "Add"
                \/ result' = "UnknownOrder" /\ stream[n].order_id \in skipped' \cup refused'
<1>1. ASSUME FlowInv, [Next]_vars PROVE [Explained]_vars
  <2> SUFFICES ASSUME Next, NEW n \in DOMAIN stream, Len(stream') = Len(stream) - n
               PROVE  \/ result' = "Ok"
                      \/ result' = "PoolExhausted" /\ stream[n].type = "Add"
                      \/ result' = "UnknownOrder" /\ stream[n].order_id \in skipped' \cup refused'
    BY <1>1, Zenon
  <2>1. stream \in Seq(Message) /\ n \in 1 .. Len(stream) /\ Len(stream) \in Nat
    BY <1>1 DEF FlowInv, FlowTypes
  <2>2. ASSUME NEW type, NEW id, NEW side, NEW price, NEW quantity,
               Emit(type, id, side, price, quantity)
        PROVE  FALSE
    <3>1. Len(stream') = Len(stream) + 1 BY <2>1, <2>2 DEF Emit
    <3> QED BY <2>1, <3>1
  <2>3. \A side, price, quantity : ~AddOrder(side, price, quantity) BY <2>2, Zenon DEF AddOrder
  <2>4. \A i : ~CancelOrder(i) /\ ~TradeOrder(i) BY <2>2, Zenon DEF CancelOrder, TradeOrder
  <2>5. \A i, price, quantity : ~ModifyOrder(i, price, quantity) BY <2>2, Zenon DEF ModifyOrder
  <2>6. PICK k \in DOMAIN stream : Apply(k) BY <2>3, <2>4, <2>5, Zenon DEF Next
  <2>7. k = n
    <3>1. k \in 1 .. Len(stream) BY <2>1
    <3>2. Len(stream') = Len(stream) - k BY <2>1, <2>6, <3>1 DEF Apply
    <3> QED BY <2>1, <3>1, <3>2
  <2>8. PICK books : Replay(books) BY <1>1, Zenon DEF FlowInv
  <2> QED BY <1>1, <2>6, <2>7, <2>8, ApplyOutcome, Zenon
<1> HIDE DEF Explained
<1>2. FlowInv /\ [Next]_vars => [Explained]_vars BY <1>1, Zenon
<1>3. Spec => [][Explained]_vars BY <1>2, FlowInvariant, PTL DEF Spec
<1> QED BY <1>3, Zenon DEF RejectionsExplained, Explained
=============================================================================
