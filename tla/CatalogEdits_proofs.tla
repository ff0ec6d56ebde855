------------------------ MODULE CatalogEdits_proofs ------------------------
(***************************************************************************)
(* The catalog form, for every catalog, every name and every number of     *)
(* edits.                                                                  *)
(***************************************************************************)
EXTENDS CatalogEdits, FiniteSetTheorems, SequenceTheorems, TLAPS

(* What comes of a sequence that gets an entry or loses some.              *)
Gets(new, seq, at, x) ==
  /\ DOMAIN new = 1 .. Len(seq) + 1
  /\ new[at] = x
  /\ \A i \in DOMAIN seq : i < at => new[i] = seq[i]
  /\ \A i \in DOMAIN seq : at <= i => new[i + 1] = seq[i]

Loses(new, seq, first, last) ==
  /\ DOMAIN new = 1 .. Len(seq) - (last - first + 1)
  /\ \A i \in DOMAIN new : i < first => new[i] = seq[i]
  /\ \A i \in DOMAIN new : first <= i => new[i] = seq[i + (last - first + 1)]

LEMMA InsertedAt ==
  ASSUME NEW S, NEW seq \in Seq(S), NEW at \in 1 .. Len(seq) + 1, NEW x \in S,
         NEW new, new = InsertAt(seq, at, x)
  PROVE  new \in Seq(S) /\ Len(new) = Len(seq) + 1 /\ Gets(new, seq, at, x)
  <1>1. Len(seq) \in Nat /\ DOMAIN seq = 1 .. Len(seq)
    BY LenProperties
  <1> DEFINE low == SubSeq(seq, 1, at - 1)
             high == SubSeq(seq, at, Len(seq))
  <1>2. /\ low \in Seq(S) /\ Len(low) = at - 1
        /\ \A i \in 1 .. at - 1 : low[i] = seq[i]
    <2>1. /\ low \in Seq(S)
          /\ Len(low) = IF 1 <= at - 1 THEN at - 1 - 1 + 1 ELSE 0
          /\ \A i \in 1 .. at - 1 - 1 + 1 : low[i] = seq[1 + i - 1]
      BY <1>1, SubSeqProperties
    <2>2. QED  BY <1>1, <2>1
  <1>3. /\ high \in Seq(S) /\ Len(high) = Len(seq) - at + 1
        /\ \A i \in 1 .. Len(seq) - at + 1 : high[i] = seq[at + i - 1]
    <2>1. /\ high \in Seq(S)
          /\ Len(high) = IF at <= Len(seq) THEN Len(seq) - at + 1 ELSE 0
          /\ \A i \in 1 .. Len(seq) - at + 1 : high[i] = seq[at + i - 1]
      BY <1>1, SubSeqProperties
    <2>2. QED  BY <1>1, <2>1
  <1>4. new = (low \o << x >>) \o high
    BY DEF InsertAt
  <1> HIDE DEF low, high
  <1>5. << x >> \in Seq(S) /\ Len(<< x >>) = 1 /\ << x >>[1] = x
    OBVIOUS
  <1>6. /\ low \o << x >> \in Seq(S)
        /\ Len(low \o << x >>) = at
        /\ \A i \in 1 .. at - 1 : (low \o << x >>)[i] = low[i]
        /\ (low \o << x >>)[at] = x
    <2>1. /\ low \o << x >> \in Seq(S)
          /\ Len(low \o << x >>) = Len(low) + Len(<< x >>)
          /\ \A i \in 1 .. Len(low) + Len(<< x >>) :
               (low \o << x >>)[i] = IF i <= Len(low) THEN low[i] ELSE << x >>[i - Len(low)]
      BY <1>2, <1>5, ConcatProperties
    <2>2. QED  BY <1>1, <1>2, <1>5, <2>1
  <1> DEFINE front == low \o << x >>
  <1> HIDE DEF front
  <1>7. front \in Seq(S) /\ Len(front) = at
        /\ (\A i \in 1 .. at - 1 : front[i] = low[i]) /\ front[at] = x
    BY <1>6 DEF front
  <1>8. /\ front \o high \in Seq(S)
        /\ Len(front \o high) = Len(front) + Len(high)
        /\ \A i \in 1 .. Len(front) + Len(high) :
             (front \o high)[i] = IF i <= Len(front) THEN front[i] ELSE high[i - Len(front)]
    BY <1>3, <1>7, ConcatProperties
  <1>9. new = front \o high
    BY <1>4 DEF front
  <1>10. /\ new \in Seq(S) /\ Len(new) = Len(seq) + 1
         /\ \A i \in 1 .. Len(seq) + 1 :
              new[i] = IF i <= at THEN front[i] ELSE high[i - at]
    BY <1>1, <1>3, <1>7, <1>8, <1>9
  <1>11. DOMAIN new = 1 .. Len(seq) + 1
    BY <1>10, LenProperties
  <1>12. new[at] = x
    BY <1>1, <1>7, <1>10
  <1>13. \A i \in DOMAIN seq : i < at => new[i] = seq[i]
    BY <1>1, <1>2, <1>7, <1>10
  <1>14. ASSUME NEW i \in DOMAIN seq, at <= i PROVE new[i + 1] = seq[i]
    <2>1. new[i + 1] = high[i + 1 - at]
      BY <1>1, <1>10, <1>14
    <2>2. i + 1 - at \in 1 .. Len(seq) - at + 1 /\ at + (i + 1 - at) - 1 = i
      BY <1>1, <1>14
    <2>3. QED  BY <1>3, <2>1, <2>2
  <1>15. QED  BY <1>10, <1>11, <1>12, <1>13, <1>14 DEF Gets

LEMMA WithoutIs ==
  ASSUME NEW S, NEW seq \in Seq(S), NEW first \in 1 .. Len(seq), NEW last \in first .. Len(seq),
         NEW new, new = Without(seq, first, last)
  PROVE  /\ new \in Seq(S) /\ Len(new) = Len(seq) - (last - first + 1)
         /\ Loses(new, seq, first, last)
  <1>1. Len(seq) \in Nat /\ DOMAIN seq = 1 .. Len(seq)
    BY LenProperties
  <1>0. /\ Len(seq) \in Nat /\ first \in Nat /\ last \in Nat
        /\ 1 <= first /\ first <= last /\ last <= Len(seq)
    BY <1>1
  <1> DEFINE low == SubSeq(seq, 1, first - 1)
             high == SubSeq(seq, last + 1, Len(seq))
  <1>2. /\ low \in Seq(S) /\ Len(low) = first - 1
        /\ \A i \in 1 .. first - 1 : low[i] = seq[i]
    <2>1. /\ low \in Seq(S)
          /\ Len(low) = IF 1 <= first - 1 THEN first - 1 - 1 + 1 ELSE 0
          /\ \A i \in 1 .. first - 1 - 1 + 1 : low[i] = seq[1 + i - 1]
      BY <1>0, <1>1, SubSeqProperties
    <2> HIDE DEF low
    <2>2. Len(low) = first - 1
      BY <1>0, <2>1
    <2>3. ASSUME NEW i \in 1 .. first - 1 PROVE low[i] = seq[i]
      <3>1. i \in 1 .. first - 1 - 1 + 1 /\ 1 + i - 1 = i
        BY <1>0
      <3>2. QED  BY <2>1, <3>1
    <2>4. QED  BY <2>1, <2>2, <2>3
  <1>3. /\ high \in Seq(S) /\ Len(high) = Len(seq) - last
        /\ \A i \in 1 .. Len(seq) - last : high[i] = seq[last + i]
    <2>1. /\ high \in Seq(S)
          /\ Len(high) = IF last + 1 <= Len(seq) THEN Len(seq) - (last + 1) + 1 ELSE 0
          /\ \A i \in 1 .. Len(seq) - (last + 1) + 1 : high[i] = seq[last + 1 + i - 1]
      BY <1>0, <1>1, SubSeqProperties
    <2> HIDE DEF high
    <2>2. ASSUME NEW i \in 1 .. Len(seq) - last PROVE high[i] = seq[last + i]
      <3>1. i \in 1 .. Len(seq) - (last + 1) + 1 /\ last + 1 + i - 1 = last + i
        BY <1>0
      <3>2. QED  BY <2>1, <3>1
    <2>3. Len(high) = Len(seq) - last
      <3>1. Len(high) = IF last + 1 <= Len(seq) THEN Len(seq) - (last + 1) + 1 ELSE 0
        BY <2>1
      <3>2. QED  BY <1>0, <3>1
    <2>4. QED  BY <2>1, <2>2, <2>3
  <1>4. new = low \o high
    BY DEF Without
  <1> HIDE DEF low, high
  <1>5. /\ low \o high \in Seq(S)
        /\ Len(low \o high) = Len(low) + Len(high)
        /\ \A i \in 1 .. Len(low) + Len(high) :
             (low \o high)[i] = IF i <= Len(low) THEN low[i] ELSE high[i - Len(low)]
    BY <1>2, <1>3, ConcatProperties
  <1> DEFINE n == last - first + 1
  <1>6. /\ new \in Seq(S) /\ Len(new) = Len(seq) - n
        /\ \A i \in 1 .. Len(seq) - n :
             new[i] = IF i <= first - 1 THEN low[i] ELSE high[i - (first - 1)]
    BY <1>0, <1>2, <1>3, <1>4, <1>5
  <1>7. DOMAIN new = 1 .. Len(seq) - n
    BY <1>6, LenProperties
  <1>8. ASSUME NEW i \in DOMAIN new, i < first PROVE new[i] = seq[i]
    <2>1. i \in 1 .. first - 1 /\ i <= first - 1
      BY <1>0, <1>7, <1>8
    <2>2. QED  BY <1>2, <1>6, <1>7, <2>1
  <1>9. ASSUME NEW i \in DOMAIN new, first <= i PROVE new[i] = seq[i + n]
    <2>1. new[i] = high[i - (first - 1)]
      BY <1>0, <1>6, <1>7, <1>9
    <2>2. i - (first - 1) \in 1 .. Len(seq) - last /\ last + (i - (first - 1)) = i + n
      BY <1>0, <1>7, <1>9
    <2>3. high[i - (first - 1)] = seq[last + (i - (first - 1))]
      BY <1>3, <2>2
    <2>4. QED  BY <2>1, <2>2, <2>3
  <1>10. QED  BY <1>6, <1>7, <1>8, <1>9 DEF Loses

LEMMA LeastNat ==
  ASSUME NEW T, T \subseteq Nat, T # {}
  PROVE  \E m \in T : \A k \in T : m <= k
  <1> DEFINE R == {ss \in Nat \X Nat : ss[1] < ss[2]}
  <1>1. IsWellFoundedOn(R, Nat)
    BY NatLessThanWellFounded DEF OpToRel
  <1>2. PICK m \in T : \A k \in T : <<k, m>> \notin R
    <2> HIDE DEF R
    <2> QED  BY <1>1, WFMin, Zenon
  <1>3. \A k \in T : k < m => <<k, m>> \in R
    <2> SUFFICES ASSUME NEW k \in T, k < m PROVE <<k, m>> \in R
      OBVIOUS
    <2>1. <<k, m>> \in Nat \X Nat
      OBVIOUS
    <2>2. <<k, m>>[1] < <<k, m>>[2]
      OBVIOUS
    <2> QED  BY <2>1, <2>2
  <1> HIDE DEF R
  <1>4. \A k \in T : ~ (k < m)
    BY <1>2, <1>3, Zenon
  <1>5. QED  BY <1>4

LEMMA GreatestNat ==
  ASSUME NEW n \in Nat, NEW T, T \subseteq 1 .. n, T # {}
  PROVE  \E m \in T : \A k \in T : k <= m
  <1> DEFINE U == {x \in Nat : \E k \in T : x = n - k}
  <1>1. \A k \in T : n - k \in Nat
    OBVIOUS
  <1>2. U \subseteq Nat /\ U # {}
    BY <1>1
  <1>3. PICK x \in U : \A y \in U : x <= y
    <2> HIDE DEF U
    <2> QED  BY <1>2, LeastNat
  <1>4. PICK m \in T : x = n - m
    OBVIOUS
  <1>5. ASSUME NEW k \in T PROVE k <= m
    <2>1. n - k \in U
      BY <1>1
    <2>2. n - m <= n - k
      BY <1>3, <1>4, <2>1
    <2>3. k \in Int /\ m \in Int
      OBVIOUS
    <2>4. QED  BY <2>2, <2>3
  <1>6. QED  BY <1>5

-----------------------------------------------------------------------------
(* The parts of a catalog.                                                 *)
LEMMA Entries ==
  ASSUME NEW c \in Catalog
  PROVE  /\ c.ops \in Seq(Operation) /\ Len(c.ops) \in Nat /\ DOMAIN c.ops = 1 .. Len(c.ops)
         /\ \A i \in DOMAIN c.ops : c.ops[i] \in Operation
         /\ c.schemas \in Seq(Component) /\ Len(c.schemas) \in Nat
         /\ DOMAIN c.schemas = 1 .. Len(c.schemas)
         /\ \A i \in DOMAIN c.schemas : c.schemas[i] \in Component
  <1>1. c.ops \in Seq(Operation) /\ c.schemas \in Seq(Component)
    BY DEF Catalog
  <1>2. QED  BY <1>1, LenProperties, ElementOfSeq

LEMMA MinIs ==
  ASSUME NEW T, T \subseteq Nat, T # {}
  PROVE  Min(T) \in T /\ \A k \in T : Min(T) <= k
  <1>1. \E m \in T : \A k \in T : m <= k
    BY LeastNat
  <1>2. QED  BY <1>1 DEF Min

LEMMA MaxIs ==
  ASSUME NEW n \in Nat, NEW T, T \subseteq 1 .. n, T # {}
  PROVE  Max(T) \in T /\ \A k \in T : k <= Max(T)
  <1>1. \E m \in T : \A k \in T : k <= m
    BY GreatestNat
  <1>2. Max(T) = CHOOSE m \in T : \A k \in T : m >= k
    BY DEF Max
  <1>3. \E m \in T : \A k \in T : m >= k
    BY <1>1
  <1>4. Max(T) \in T /\ \A k \in T : Max(T) >= k
    BY <1>2, <1>3
  <1>5. QED  BY <1>4

(* The first of the places where something is, 0 if there is none.         *)
FirstOf(I, at) ==
  /\ I = {} => at = 0
  /\ I # {} => at \in I /\ \A k \in I : at <= k

LEMMA FirstIs ==
  ASSUME NEW I, I \subseteq Nat, NEW at, at = IF I # {} THEN Min(I) ELSE 0
  PROVE  FirstOf(I, at)
  BY MinIs DEF FirstOf

(* The places of the entries whose key seems to be a path.                 *)
Seeming(c, path) ==
  {i \in 1 .. Len(c.ops) : Recognised(c, c.ops[i]) /\ ShownPath(c, c.ops[i]) = path}

(* The places of a method below one key.                                   *)
MethodAt(c, item, method) ==
  {i \in 1 .. Len(c.ops) : /\ SameItem(c, c.ops[i], c.ops[item])
                           /\ c.ops[i].method = method /\ OnLines(c, c.ops[i])}

LEMMA LocateItemIs ==
  ASSUME NEW c \in Catalog, ~ Unreadable(c), NEW path
  PROVE  FirstOf(Seeming(c, path), LocateItem(c, path))
  <1> DEFINE at == LocateItem(c, path)
  <1>1. at = IF Seeming(c, path) # {} THEN Min(Seeming(c, path)) ELSE 0
    BY DEF LocateItem, SelectInSeq, Seeming
  <1>2. Seeming(c, path) \subseteq Nat
    BY DEF Seeming
  <1> HIDE DEF at
  <1>3. FirstOf(Seeming(c, path), at)
    BY <1>1, <1>2, FirstIs
  <1>4. QED  BY <1>3 DEF at

(* Where an operation is found, below the key that was found first.        *)
LocatedAt(c, path, method, at) ==
  /\ at # 0 => ~ Unreadable(c)
  /\ ~ Unreadable(c) =>
       \E item :
         /\ FirstOf(Seeming(c, path), item)
         /\ item = 0 => at = 0
         /\ item # 0 => FirstOf(MethodAt(c, item, method), at)

LEMMA LocateOperationIs ==
  ASSUME NEW c \in Catalog, NEW path, NEW method
  PROVE  LocatedAt(c, path, method, LocateOperation(c, path, method))
  <1> DEFINE item == LocateItem(c, path)
             at == LocateOperation(c, path, method)
  <1>1. CASE Unreadable(c)
    <2>1. item = 0
      BY <1>1 DEF LocateItem
    <2>2. at = 0
      BY <2>1 DEF LocateOperation
    <2>3. QED  BY <1>1, <2>2 DEF LocatedAt
  <1>2. CASE ~ Unreadable(c)
    <2>1. FirstOf(Seeming(c, path), item)
      BY <1>2, LocateItemIs
    <2>2. item = 0 => at = 0
      BY DEF LocateOperation
    <2>3. item # 0 => at = IF MethodAt(c, item, method) # {} THEN Min(MethodAt(c, item, method)) ELSE 0
      BY DEF LocateOperation, SelectInSeq, MethodAt
    <2>4. MethodAt(c, item, method) \subseteq Nat
      BY DEF MethodAt
    <2> HIDE DEF item, at
    <2>5. item # 0 => FirstOf(MethodAt(c, item, method), at)
      BY <2>3, <2>4, FirstIs
    <2>6. QED  BY <1>2, <2>1, <2>2, <2>5 DEF LocatedAt, at
  <1>3. QED  BY <1>1, <1>2

(* What is found is shown under the path and method looked for.            *)
LEMMA LocatedShows ==
  ASSUME NEW c \in Catalog, NEW path, NEW method, method # Absent,
         NEW at, at = LocateOperation(c, path, method), at # 0
  PROVE  at \in CatalogOperations(c) /\ ShownKey(c, c.ops[at]) = << path, method >>
  <1>1. DOMAIN c.ops = 1 .. Len(c.ops)
    BY Entries
  <1>2. LocatedAt(c, path, method, at)
    BY LocateOperationIs
  <1>3. ~ Unreadable(c)
    BY <1>2 DEF LocatedAt
  <1>4. PICK item : /\ FirstOf(Seeming(c, path), item) /\ item # 0
                    /\ FirstOf(MethodAt(c, item, method), at)
    BY <1>2, <1>3 DEF LocatedAt
  <1>5. item \in Seeming(c, path)
    BY <1>4 DEF FirstOf
  <1>6. at \in MethodAt(c, item, method)
    BY <1>4 DEF FirstOf
  <1>7. /\ at \in DOMAIN c.ops /\ c.ops[at].method = method /\ OnLines(c, c.ops[at])
        /\ c.ops[at].path = c.ops[item].path /\ ShownPath(c, c.ops[item]) = path
    BY <1>1, <1>5, <1>6 DEF MethodAt, Seeming, SameItem
  <1>8. ShownPath(c, c.ops[at]) = path
    BY <1>7 DEF ShownPath
  <1>9. QED  BY <1>3, <1>7, <1>8 DEF CatalogOperations, ShownKey

(* Of the operations shown under one key the first is found.               *)
LEMMA LocatedFirst ==
  ASSUME NEW c \in Catalog, Contiguous(c), NEW path, NEW method,
         NEW at, at = LocateOperation(c, path, method), at # 0,
         NEW k \in CatalogOperations(c), ShownKey(c, c.ops[k]) = << path, method >>
  PROVE  at <= k
  <1>1. DOMAIN c.ops = 1 .. Len(c.ops) /\ Len(c.ops) \in Nat
    BY Entries
  <1>2. LocatedAt(c, path, method, at)
    BY LocateOperationIs
  <1>3. ~ Unreadable(c)
    BY <1>2 DEF LocatedAt
  <1>4. PICK item : /\ FirstOf(Seeming(c, path), item) /\ item # 0
                    /\ FirstOf(MethodAt(c, item, method), at)
    BY <1>2, <1>3 DEF LocatedAt
  <1>5. item \in Seeming(c, path) /\ at \in MethodAt(c, item, method)
    BY <1>4 DEF FirstOf
  <1>6. /\ item \in DOMAIN c.ops /\ at \in DOMAIN c.ops /\ k \in DOMAIN c.ops
        /\ SameItem(c, c.ops[at], c.ops[item]) /\ Recognised(c, c.ops[item])
    BY <1>1, <1>5 DEF MethodAt, Seeming, CatalogOperations
  <1>7. /\ ShownPath(c, c.ops[k]) = path /\ c.ops[k].method = method
        /\ OnLines(c, c.ops[k]) /\ Recognised(c, c.ops[k])
    BY DEF ShownKey, CatalogOperations, OnLines, Recognised
  <1>8. item <= k
    <2>1. k \in Seeming(c, path)
      BY <1>1, <1>6, <1>7 DEF Seeming
    <2>2. QED  BY <1>4, <2>1 DEF FirstOf
  <1>9. CASE SameItem(c, c.ops[k], c.ops[item])
    <2>1. k \in MethodAt(c, item, method)
      BY <1>1, <1>6, <1>7, <1>9 DEF MethodAt
    <2>2. QED  BY <1>4, <2>1 DEF FirstOf
  <1>10. CASE ~ SameItem(c, c.ops[k], c.ops[item])
    <2>1. item # k
      BY <1>10 DEF SameItem
    <2>2. item \in Nat /\ k \in Nat /\ at \in Nat
      BY <1>1, <1>6
    <2>3. CASE k < at
      <3>1. item < k
        BY <1>8, <2>1, <2>2
      <3>2. SameItem(c, c.ops[item], c.ops[at])
        BY <1>6 DEF SameItem
      <3>3. SameItem(c, c.ops[item], c.ops[k])
        BY <1>6, <2>3, <3>1, <3>2 DEF Contiguous
      <3>4. QED  BY <1>10, <3>3 DEF SameItem
    <2>4. QED  BY <2>2, <2>3
  <1>11. QED  BY <1>9, <1>10

(* A new operation comes below those of its item, or after all.            *)
PlacedAt(c, new, item, op, at) ==
  /\ at \in 1 .. Len(c.ops) + 1
  /\ new = InsertAt(c.ops, at, op)
  /\ item = 0 => at = Len(c.ops) + 1
  /\ item # 0 => /\ at - 1 \in DOMAIN c.ops
                 /\ SameItem(c, c.ops[at - 1], c.ops[item])
                 /\ \A i \in DOMAIN c.ops : SameItem(c, c.ops[i], c.ops[item]) => i < at

LEMMA PlacedIs ==
  ASSUME NEW c \in Catalog, NEW item, item = 0 \/ item \in DOMAIN c.ops, NEW op
  PROVE  \E at : PlacedAt(c, Placed(c, item, op), item, op, at)
  <1>1. Len(c.ops) \in Nat /\ DOMAIN c.ops = 1 .. Len(c.ops)
    BY Entries
  <1>2. CASE item = 0
    <2>1. Placed(c, item, op) = InsertAt(c.ops, Len(c.ops) + 1, op)
      BY <1>2 DEF Placed
    <2>2. Len(c.ops) + 1 \in 1 .. Len(c.ops) + 1
      BY <1>1
    <2>3. QED  BY <1>2, <2>1, <2>2 DEF PlacedAt
  <1>3. CASE item # 0
    <2> DEFINE T == ItemOf(c, c.ops[item])
               last == Max(T)
    <2>1. T \subseteq 1 .. Len(c.ops) /\ item \in T
      BY <1>1, <1>3 DEF ItemOf, SameItem
    <2>2. last \in T /\ \A k \in T : k <= last
      <3> HIDE DEF T
      <3>1. QED  BY <1>1, <2>1, MaxIs
    <2>3. Placed(c, item, op) = InsertAt(c.ops, last + 1, op)
      BY <1>3 DEF Placed
    <2>4. last \in DOMAIN c.ops /\ SameItem(c, c.ops[last], c.ops[item])
          /\ \A i \in DOMAIN c.ops : SameItem(c, c.ops[i], c.ops[item]) => i <= last
      BY <2>2 DEF ItemOf
    <2> HIDE DEF last, T
    <2>5. last \in Nat /\ last + 1 \in 1 .. Len(c.ops) + 1 /\ last + 1 - 1 = last
      BY <1>1, <2>4
    <2>6. ASSUME NEW i \in DOMAIN c.ops, SameItem(c, c.ops[i], c.ops[item]) PROVE i < last + 1
      <3>1. i <= last /\ i \in Nat
        BY <1>1, <2>4, <2>6
      <3>2. QED  BY <2>5, <3>1
    <2>7. QED  BY <1>3, <2>3, <2>4, <2>5, <2>6 DEF PlacedAt
  <1>4. QED  BY <1>2, <1>3

-----------------------------------------------------------------------------
(* Edits that keep the operations where they are: keys, order and what is  *)
(* shown stay, and the text does not become sound again.                   *)
Rewrites(d, c) ==
  /\ d \in Catalog
  /\ d.format = c.format
  /\ d.layout["paths"] = c.layout["paths"]
  /\ DOMAIN d.ops = DOMAIN c.ops
  /\ \A i \in DOMAIN c.ops : /\ d.ops[i].path = c.ops[i].path
                            /\ d.ops[i].method = c.ops[i].method
                            /\ d.ops[i].written = c.ops[i].written
  /\ d.sound => c.sound
  /\ ~ Yaml(c) => d.sound = c.sound

KeepsIds(d, c) == \A i \in DOMAIN c.ops : d.ops[i].operationId = c.ops[i].operationId

(* What an edit of a catalog the patterns can take apart leaves.           *)
Legible(d, c) ==
  Readable(c) /\ Regular(c) =>
    \/ Readable(d)
    \/ Yaml(c) /\ \/ \E i \in DOMAIN d.ops : ~ Fits(d.ops[i].responses)
                  \/ \E i \in DOMAIN d.schemas : ~ Fits(d.schemas[i].text)

Edits(d, c) == Rewrites(d, c) /\ KeepsIds(d, c) /\ Legible(d, c)

LEMMA NoEdit ==
  ASSUME NEW c \in Catalog
  PROVE  Edits(c, c)
  BY DEF Edits, Rewrites, KeepsIds, Legible

(* A catalog that differs in its soundness only.                           *)
SoundOf(e, d, fits) ==
  /\ e \in Catalog
  /\ e.format = d.format /\ e.layout = d.layout /\ e.info = d.info /\ e.servers = d.servers
  /\ e.ops = d.ops /\ e.schemas = d.schemas
  /\ e.sound => d.sound /\ (d.format = "json" \/ fits)
  /\ d.format = "json" => e.sound = d.sound
  /\ d.sound /\ fits => e.sound

LEMMA SoundIfIs ==
  ASSUME NEW d \in Catalog, NEW fits \in BOOLEAN, NEW e, e = SoundIf(d, fits)
  PROVE  SoundOf(e, d, fits)
  <1>1. d.sound \in BOOLEAN
    BY DEF Catalog
  <1> DEFINE s == (d.sound /\ (d.format = "json" \/ fits))
  <1>2. s \in BOOLEAN
    BY <1>1
  <1>3. e = [d EXCEPT !.sound = s]
    BY DEF SoundIf
  <1>4. (s => d.sound /\ (d.format = "json" \/ fits)) /\ (d.format = "json" => s = d.sound)
        /\ (d.sound /\ fits => s)
    BY <1>1
  <1> HIDE DEF s
  <1>5. e \in Catalog /\ e.sound = s
    BY <1>2, <1>3 DEF Catalog
  <1>6. /\ e.format = d.format /\ e.layout = d.layout /\ e.info = d.info /\ e.servers = d.servers
        /\ e.ops = d.ops /\ e.schemas = d.schemas
    BY <1>3 DEF Catalog
  <1>7. QED  BY <1>4, <1>5, <1>6 DEF SoundOf

LEMMA MetadataPatched ==
  ASSUME NEW c \in Catalog, NEW field \in InfoFields, NEW value \in Texts \cup {Absent},
         NEW d, d = PatchMetadata(c, field, value).source
  PROVE  Edits(d, c)
  <1>1. CASE Unreadable(c) \/ (Yaml(c) /\ c.layout["info"] = "absent")
    <2>1. d = c
      BY <1>1 DEF PatchMetadata, Refused
    <2>2. QED  BY <2>1, NoEdit
  <1>2. CASE ~ (Unreadable(c) \/ (Yaml(c) /\ c.layout["info"] = "absent"))
    <2> DEFINE e == [c EXCEPT !.info[field] = value]
               fits == (c.layout["info"] = "block" \/ value = Absent)
    <2>1. d = SoundIf(e, fits)
      BY <1>2 DEF PatchMetadata, Patched
    <2>2. c.info \in [InfoFields -> Texts \cup {Absent}] /\ c.layout \in [Parts -> Layouts]
      BY DEF Catalog
    <2>3. [c.info EXCEPT ![field] = value] \in [InfoFields -> Texts \cup {Absent}]
      BY <2>2
    <2>4. /\ e \in Catalog /\ e.format = c.format /\ e.layout = c.layout /\ e.sound = c.sound
          /\ e.ops = c.ops /\ e.schemas = c.schemas
      BY <2>3 DEF Catalog
    <2>5. fits \in BOOLEAN
      OBVIOUS
    <2>6. Yaml(c) /\ Regular(c) => fits
      BY <1>2 DEF Regular
    <2> HIDE DEF e, fits
    <2>7. SoundOf(d, e, fits)
      BY <2>1, <2>4, <2>5, SoundIfIs
    <2>8. c.format \in {"yaml", "json"}
      BY DEF Catalog, Formats
    <2>9. Rewrites(d, c) /\ KeepsIds(d, c)
      BY <2>4, <2>7, <2>8 DEF SoundOf, Rewrites, KeepsIds, Yaml
    <2>10. Readable(c) /\ Regular(c) => Readable(d)
      BY <2>4, <2>6, <2>7, <2>8 DEF SoundOf, Readable, Yaml
    <2>11. QED  BY <2>9, <2>10 DEF Edits, Legible
  <1>3. QED  BY <1>1, <1>2

LEMMA ServersPatched ==
  ASSUME NEW c \in Catalog, NEW text \in Fragments, NEW d, d = PatchServers(c, text).source
  PROVE  Edits(d, c)
  <1>1. CASE Unreadable(c) \/ text \notin {"empty", "flow"}
    <2>1. d = c
      BY <1>1 DEF PatchServers, Refused
    <2>2. QED  BY <2>1, NoEdit
  <1>2. CASE ~ (Unreadable(c) \/ text \notin {"empty", "flow"})
    <2>1. d = [c EXCEPT !.servers = text]
      BY <1>2 DEF PatchServers, Patched
    <2>2. /\ d \in Catalog /\ d.format = c.format /\ d.layout = c.layout /\ d.sound = c.sound
          /\ d.ops = c.ops /\ d.schemas = c.schemas
      BY <2>1 DEF Catalog
    <2>3. Rewrites(d, c) /\ KeepsIds(d, c)
      BY <2>2 DEF Rewrites, KeepsIds
    <2>4. Readable(c) => Readable(d)
      BY <2>2 DEF Readable
    <2>5. QED  BY <2>3, <2>4 DEF Edits, Legible
  <1>3. QED  BY <1>1, <1>2

(* One operation, or one component, is written anew.                       *)
OpRewritten(e, c, at, op) ==
  /\ e \in Catalog
  /\ e.format = c.format /\ e.layout = c.layout /\ e.sound = c.sound /\ e.schemas = c.schemas
  /\ DOMAIN e.ops = DOMAIN c.ops
  /\ e.ops[at] = op
  /\ \A i \in DOMAIN c.ops : i # at => e.ops[i] = c.ops[i]

LEMMA OpRewrittenIs ==
  ASSUME NEW c \in Catalog, NEW at \in DOMAIN c.ops, NEW op \in Operation,
         NEW e, e = [c EXCEPT !.ops = [c.ops EXCEPT ![at] = op]]
  PROVE  OpRewritten(e, c, at, op)
  <1>1. c.ops \in Seq(Operation)
    BY Entries
  <1> DEFINE new == [c.ops EXCEPT ![at] = op]
  <1>2. at \in 1 .. Len(c.ops)
    BY Entries
  <1>3. new \in Seq(Operation)
    BY <1>1, <1>2, ExceptSeq
  <1>4. DOMAIN new = DOMAIN c.ops /\ new[at] = op /\ \A i \in DOMAIN c.ops : i # at => new[i] = c.ops[i]
    OBVIOUS
  <1> HIDE DEF new
  <1>5. e = [c EXCEPT !.ops = new]
    BY DEF new
  <1>6. /\ e \in Catalog /\ e.format = c.format /\ e.layout = c.layout /\ e.sound = c.sound
        /\ e.schemas = c.schemas /\ e.ops = new
    BY <1>3, <1>5 DEF Catalog
  <1>7. QED  BY <1>4, <1>6 DEF OpRewritten

(* A field of the operation found is patched.                              *)
OpPatched(d, c, path, method, field, value) ==
  \/ d = c
  \/ /\ Rewrites(d, c)
     /\ field # "operationId" => KeepsIds(d, c)
     /\ Legible(d, c)
     /\ \E at \in CatalogOperations(c) :
          /\ ShownKey(c, c.ops[at]) = << path, method >>
          /\ d.ops[at].operationId = IF field = "operationId" THEN value ELSE c.ops[at].operationId
          /\ \A i \in DOMAIN c.ops : i # at => d.ops[i] = c.ops[i]

LEMMA OperationPatched ==
  ASSUME NEW c \in Catalog, NEW path, NEW method, method # Absent,
         NEW field \in {"operationId", "summary"},
         NEW value, value \in (IF field = "operationId" THEN Ids ELSE Texts) \cup {Absent},
         NEW d, d = PatchOperation(c, path, method, field, value).source
  PROVE  OpPatched(d, c, path, method, field, value)
  <1> DEFINE at == LocateOperation(c, path, method)
  <1>1. at # 0 => at \in CatalogOperations(c) /\ ShownKey(c, c.ops[at]) = << path, method >>
    BY LocatedShows
  <1> HIDE DEF at
  <1>2. CASE at = 0
    <2>1. d = c
      BY <1>2 DEF PatchOperation, Refused, at
    <2>2. QED  BY <2>1 DEF OpPatched
  <1>3. CASE at # 0
    <2>1. at \in CatalogOperations(c) /\ ShownKey(c, c.ops[at]) = << path, method >>
      BY <1>1, <1>3
    <2>2. at \in DOMAIN c.ops
      BY <2>1 DEF CatalogOperations
    <2>3. c.ops[at] \in Operation
      BY <2>2, Entries
    <2> DEFINE op == [c.ops[at] EXCEPT ![field] = value]
               e == [c EXCEPT !.ops = [c.ops EXCEPT ![at] = op]]
               fits == (c.ops[at].written # "line" \/ value = Absent)
    <2>4. /\ op \in Operation
          /\ op.path = c.ops[at].path /\ op.method = c.ops[at].method
          /\ op.written = c.ops[at].written
          /\ op.responses = c.ops[at].responses
          /\ op.operationId = IF field = "operationId" THEN value ELSE c.ops[at].operationId
      <3>1. CASE field = "operationId"
        <4>1. op = [c.ops[at] EXCEPT !.operationId = value]
          BY <3>1
        <4>2. QED  BY <2>3, <3>1, <4>1 DEF Operation
      <3>2. CASE field = "summary"
        <4>1. op = [c.ops[at] EXCEPT !.summary = value]
          BY <3>2
        <4>2. QED  BY <2>3, <3>2, <4>1 DEF Operation
      <3>3. QED  BY <3>1, <3>2
    <2>5. fits \in BOOLEAN
      OBVIOUS
    <2>6. d = SoundIf(e, fits)
      <3>1. d = SoundIf([c EXCEPT !.ops[at][field] = value], fits)
        BY <1>3 DEF PatchOperation, Patched, at
      <3>2. [c EXCEPT !.ops[at][field] = value] = e
        OBVIOUS
      <3>3. QED  BY <3>1, <3>2
    <2>7. Regular(c) => fits
      BY <2>2 DEF Regular
    <2> HIDE DEF op, fits
    <2>8. OpRewritten(e, c, at, op)
      BY <2>2, <2>4, OpRewrittenIs
    <2> HIDE DEF e
    <2>9. e \in Catalog
      BY <2>8 DEF OpRewritten
    <2>10. SoundOf(d, e, fits)
      BY <2>5, <2>6, <2>9, SoundIfIs
    <2>11. c.format \in {"yaml", "json"}
      BY DEF Catalog, Formats
    <2>12. d.format = c.format /\ d.layout = c.layout /\ DOMAIN d.ops = DOMAIN c.ops /\ d.ops[at] = op
           /\ d.schemas = c.schemas /\ \A i \in DOMAIN c.ops : i # at => d.ops[i] = c.ops[i]
      BY <2>8, <2>10 DEF OpRewritten, SoundOf
    <2>13. Rewrites(d, c)
      <3>1. d \in Catalog /\ (d.sound => c.sound) /\ (~ Yaml(c) => d.sound = c.sound)
        BY <2>8, <2>10, <2>11 DEF OpRewritten, SoundOf, Yaml
      <3>2. QED  BY <2>4, <2>12, <3>1 DEF Rewrites
    <2>14. field # "operationId" => KeepsIds(d, c)
      BY <2>4, <2>12 DEF KeepsIds
    <2>15. Readable(c) /\ Regular(c) => Readable(d)
      <3>1. Readable(c) /\ Regular(c) => d.sound
        BY <2>7, <2>8, <2>10 DEF OpRewritten, SoundOf, Readable
      <3>2. QED  BY <2>2, <2>4, <2>12, <3>1 DEF Readable
    <2>16. d.ops[at].operationId = IF field = "operationId" THEN value ELSE c.ops[at].operationId
      BY <2>4, <2>12
    <2>17. QED  BY <2>1, <2>12, <2>13, <2>14, <2>15, <2>16 DEF OpPatched, Legible
  <1>4. QED  BY <1>2, <1>3

LEMMA StructuredPatched ==
  ASSUME NEW c \in Catalog, NEW path, NEW method, method # Absent, NEW text \in Fragments,
         NEW d, d = PatchStructured(c, path, method, text).source
  PROVE  Edits(d, c)
  <1> DEFINE at == LocateOperation(c, path, method)
  <1>1. at # 0 => at \in CatalogOperations(c)
    BY LocatedShows
  <1> HIDE DEF at
  <1>2. CASE at = 0 \/ ~ TakesFragment(c, text)
    <2>1. d = c
      BY <1>2 DEF PatchStructured, Refused, at
    <2>2. QED  BY <2>1, NoEdit
  <1>3. CASE ~ (at = 0 \/ ~ TakesFragment(c, text))
    <2>1. at \in CatalogOperations(c)
      BY <1>1, <1>3
    <2>2. at \in DOMAIN c.ops
      BY <2>1 DEF CatalogOperations
    <2>3. c.ops[at] \in Operation
      BY <2>2, Entries
    <2> DEFINE op == [c.ops[at] EXCEPT !.responses = text]
               e == [c EXCEPT !.ops = [c.ops EXCEPT ![at] = op]]
               fits == (c.ops[at].written # "line" \/ text = "empty")
    <2>4. /\ op \in Operation
          /\ op.path = c.ops[at].path /\ op.method = c.ops[at].method
          /\ op.written = c.ops[at].written
          /\ op.responses = text /\ op.operationId = c.ops[at].operationId
      BY <2>3 DEF Operation
    <2>5. fits \in BOOLEAN
      OBVIOUS
    <2>6. d = SoundIf(e, fits)
      <3>1. d = SoundIf([c EXCEPT !.ops[at].responses = text], fits)
        BY <1>3 DEF PatchStructured, Patched, at
      <3>2. [c EXCEPT !.ops[at].responses = text] = e
        OBVIOUS
      <3>3. QED  BY <3>1, <3>2
    <2>7. Regular(c) => fits
      BY <2>2 DEF Regular
    <2> HIDE DEF op, fits
    <2>8. OpRewritten(e, c, at, op)
      BY <2>2, <2>4, OpRewrittenIs
    <2> HIDE DEF e
    <2>9. e \in Catalog
      BY <2>8 DEF OpRewritten
    <2>10. SoundOf(d, e, fits)
      BY <2>5, <2>6, <2>9, SoundIfIs
    <2>11. c.format \in {"yaml", "json"}
      BY DEF Catalog, Formats
    <2>12. d.format = c.format /\ d.layout = c.layout /\ DOMAIN d.ops = DOMAIN c.ops /\ d.ops[at] = op
           /\ d.schemas = c.schemas /\ \A i \in DOMAIN c.ops : i # at => d.ops[i] = c.ops[i]
      BY <2>8, <2>10 DEF OpRewritten, SoundOf
    <2>13. Rewrites(d, c)
      <3>1. d \in Catalog /\ (d.sound => c.sound) /\ (~ Yaml(c) => d.sound = c.sound)
        BY <2>8, <2>10, <2>11 DEF OpRewritten, SoundOf, Yaml
      <3>2. QED  BY <2>4, <2>12, <3>1 DEF Rewrites
    <2>14. KeepsIds(d, c)
      BY <2>4, <2>12 DEF KeepsIds
    <2>15. Readable(c) /\ Regular(c) /\ Fits(text) => Readable(d)
      <3>1. Readable(c) /\ Regular(c) => d.sound
        BY <2>7, <2>8, <2>10 DEF OpRewritten, SoundOf, Readable
      <3>2. QED  BY <2>2, <2>4, <2>12, <3>1 DEF Readable
    <2>16. ~ Fits(text) => Yaml(c) /\ \E i \in DOMAIN d.ops : ~ Fits(d.ops[i].responses)
      BY <1>3, <2>2, <2>4, <2>12 DEF TakesFragment, Fits
    <2>17. QED  BY <2>13, <2>14, <2>15, <2>16 DEF Edits, Legible
  <1>4. QED  BY <1>2, <1>3

(* Components.                                                             *)
LEMMA ComponentAdded ==
  ASSUME NEW c \in Catalog, NEW name \in ComponentNames \cup {Absent}, NEW schema \in Schemas,
         NEW text \in Fragments, NEW d, d = AddComponent(c, name, schema, text).source
  PROVE  Edits(d, c)
  <1> DEFINE none == c.layout["schemas"] = "absent"
             refused == \/ name = Absent \/ Unreadable(c) \/ ~ TakesFragment(c, text)
                        \/ LocateComponent(c, name) # 0
                        \/ Yaml(c) /\ none /\ c.layout["components"] = "absent"
  <1>1. CASE refused
    <2>1. d = c
      BY <1>1 DEF AddComponent, Refused
    <2>2. QED  BY <2>1, NoEdit
  <1>2. CASE ~ refused
    <2> DEFINE new == NewComponent(name, schema, text)
               kept == IF c.layout["schemas"] = "inline" THEN c.layout["schemas"] ELSE "block"
               layout == [c.layout EXCEPT !["schemas"] = kept]
               e == [c EXCEPT !.layout = layout, !.schemas = Append(c.schemas, new)]
               fits == (c.layout["schemas"] # "inline" /\ (none => c.layout["components"] = "block"))
    <2>1. d = SoundIf(e, fits)
      <3>1. d = SoundIf(WithComponent(c, new), fits)
        BY <1>2 DEF AddComponent, Patched
      <3>2. WithComponent(c, new) = e
        BY DEF WithComponent
      <3>3. QED  BY <3>1, <3>2
    <2>2. new \in Component /\ new.text = text
      BY <1>2 DEF NewComponent, Component
    <2>3. c.layout \in [Parts -> Layouts]
      BY DEF Catalog
    <2>4. layout \in [Parts -> Layouts] /\ layout["paths"] = c.layout["paths"]
      BY <2>3 DEF Parts, Layouts
    <2> HIDE DEF new, layout
    <2>5. c.schemas \in Seq(Component) /\ Len(c.schemas) \in Nat /\ DOMAIN c.schemas = 1 .. Len(c.schemas)
      BY Entries
    <2> DEFINE list == Append(c.schemas, new)
    <2>6. /\ list \in Seq(Component) /\ DOMAIN list = 1 .. Len(c.schemas) + 1
          /\ \A i \in 1 .. Len(c.schemas) : list[i] = c.schemas[i]
          /\ list[Len(c.schemas) + 1] = new
      BY <2>2, <2>5, AppendProperties
    <2> HIDE DEF list
    <2>7. /\ e \in Catalog /\ e.format = c.format /\ e.layout = layout /\ e.sound = c.sound
          /\ e.ops = c.ops /\ e.schemas = list
      <3>1. e = [c EXCEPT !.layout = layout, !.schemas = list]
        BY DEF list
      <3>2. QED  BY <2>4, <2>6, <3>1 DEF Catalog
    <2>8. fits \in BOOLEAN
      OBVIOUS
    <2>9. Yaml(c) /\ Regular(c) => fits
      BY <1>2 DEF Regular
    <2> HIDE DEF e, fits
    <2>10. SoundOf(d, e, fits)
      BY <2>1, <2>7, <2>8, SoundIfIs
    <2>11. c.format \in {"yaml", "json"}
      BY DEF Catalog, Formats
    <2>12. Rewrites(d, c) /\ KeepsIds(d, c)
      BY <2>4, <2>7, <2>10, <2>11 DEF SoundOf, Rewrites, KeepsIds, Yaml
    <2>13. Readable(c) /\ Regular(c) /\ Fits(text) => Readable(d)
      <3>1. Readable(c) /\ Regular(c) => d.sound
        BY <2>7, <2>9, <2>10, <2>11 DEF SoundOf, Readable, Yaml
      <3>2. ASSUME NEW i \in DOMAIN d.schemas
            PROVE  (i \in DOMAIN c.schemas /\ d.schemas[i] = c.schemas[i]) \/ d.schemas[i].text = text
        BY <2>2, <2>5, <2>6, <2>7, <2>10 DEF SoundOf
      <3>3. d.ops = c.ops
        BY <2>7, <2>10 DEF SoundOf
      <3>4. QED  BY <3>1, <3>2, <3>3 DEF Readable
    <2>14. ~ Fits(text) => Yaml(c) /\ \E i \in DOMAIN d.schemas : ~ Fits(d.schemas[i].text)
      <3>1. ~ Fits(text) => Yaml(c)
        BY <1>2 DEF TakesFragment, Fits
      <3>2. Len(c.schemas) + 1 \in DOMAIN d.schemas /\ d.schemas[Len(c.schemas) + 1].text = text
        BY <2>2, <2>5, <2>6, <2>7, <2>10 DEF SoundOf
      <3>3. QED  BY <3>1, <3>2
    <2>15. QED  BY <2>12, <2>13, <2>14 DEF Edits, Legible
  <1>3. QED  BY <1>1, <1>2

LEMMA ComponentPatched ==
  ASSUME NEW c \in Catalog, NEW name \in ComponentNames, NEW schema \in Schemas,
         NEW text \in Fragments, NEW d, d = PatchComponent(c, name, schema, text).source
  PROVE  Edits(d, c)
  <1> DEFINE at == LocateComponent(c, name)
             refused == Unreadable(c) \/ ~ TakesFragment(c, text) \/ (at = 0 /\ Yaml(c))
  <1>1. CASE refused
    <2>1. d = c
      BY <1>1 DEF PatchComponent, Refused
    <2>2. QED  BY <2>1, NoEdit
  <1>2. CASE ~ refused /\ at = 0
    <2>1. d = AddComponent(c, name, schema, text).source
      BY <1>2 DEF PatchComponent
    <2>2. QED  BY <2>1, ComponentAdded
  <1>3. CASE ~ refused /\ at # 0
    <2>1. at \in DOMAIN c.schemas
      <3> DEFINE I == {i \in 1 .. Len(c.schemas) : c.schemas[i].name = name
                                                   /\ (Yaml(c) => ~ c.schemas[i].inline)}
      <3>1. at = Min(I) /\ I # {} /\ I \subseteq Nat
        BY <1>3 DEF LocateComponent, SelectInSeq
      <3>2. at \in I
        <4> HIDE DEF I, at
        <4>1. QED  BY <3>1, MinIs
      <3>3. QED  BY <3>2, Entries
    <2> DEFINE new == NewComponent(name, schema, text)
               list == [c.schemas EXCEPT ![at] = new]
    <2>2. d = [c EXCEPT !.schemas = list]
      BY <1>3 DEF PatchComponent, Patched
    <2>3. new \in Component /\ new.text = text
      BY DEF NewComponent, Component
    <2> HIDE DEF new, at
    <2>4. c.schemas \in Seq(Component) /\ at \in 1 .. Len(c.schemas)
      BY <2>1, Entries
    <2>5. list \in Seq(Component)
      BY <2>3, <2>4, ExceptSeq
    <2>6. DOMAIN list = DOMAIN c.schemas /\ list[at] = new
          /\ \A i \in DOMAIN c.schemas : i # at => list[i] = c.schemas[i]
      BY <2>1
    <2> HIDE DEF list
    <2>7. /\ d \in Catalog /\ d.format = c.format /\ d.layout = c.layout /\ d.sound = c.sound
          /\ d.ops = c.ops /\ d.schemas = list
      BY <2>2, <2>5 DEF Catalog
    <2>8. Rewrites(d, c) /\ KeepsIds(d, c)
      BY <2>7 DEF Rewrites, KeepsIds
    <2>9. Readable(c) /\ Fits(text) => Readable(d)
      BY <2>3, <2>6, <2>7 DEF Readable
    <2>10. ~ Fits(text) => Yaml(c) /\ \E i \in DOMAIN d.schemas : ~ Fits(d.schemas[i].text)
      BY <1>3, <2>1, <2>3, <2>6, <2>7 DEF TakesFragment, Fits
    <2>11. QED  BY <2>8, <2>9, <2>10 DEF Edits, Legible
  <1>4. QED  BY <1>1, <1>2, <1>3

(* A new operation, below the key that seems to be its path if there is    *)
(* one.                                                                    *)
Adds(d, c, path, item, at, op) ==
  /\ d \in Catalog
  /\ d.format = c.format /\ d.layout["paths"] \notin {"absent", "empty"}
  /\ Gets(d.ops, c.ops, at, op)
  /\ PlacedAt(c, d.ops, item, op, at)
  /\ FirstOf(Seeming(c, path), item)
  /\ op.path = IF item = 0 THEN path ELSE c.ops[item].path
  /\ op.written = IF Yaml(c) /\ path \in ColonPaths THEN "hidden" ELSE "block"
  /\ item # 0 => MethodAt(c, item, op.method) = {}
  /\ d.sound /\ Yaml(c) => IF item = 0 THEN path \notin PathsOf(c)
                           ELSE \A i \in ItemOf(c, c.ops[item]) : c.ops[i].written # "item"
  /\ d.sound => c.sound
  /\ ~ Yaml(c) => d.sound = c.sound
  /\ ~ Unreadable(c)

IsNew(c, op) ==
  /\ op \in Operation
  /\ op.operationId # Absent
  /\ \A i \in CatalogOperations(c) : c.ops[i].operationId # op.operationId

LEMMA OperationAdded ==
  ASSUME NEW c \in Catalog, NEW path \in Paths, NEW method \in Methods, NEW id \in Ids \cup {Absent},
         NEW d, d = AddOperation(c, path, method, id).source
  PROVE  /\ Legible(d, c)
         /\ d = c \/ \E item, at, op : Adds(d, c, path, item, at, op) /\ IsNew(c, op)
  <1> DEFINE found == LocateOperation(c, path, method)
             item == LocateItem(c, path)
             refused == \/ id = Absent \/ IdTaken(c, id) \/ found # 0 \/ Unreadable(c)
                        \/ Yaml(c) /\ c.layout["paths"] = "absent"
  <1>1. CASE refused
    <2>1. d = c
      BY <1>1 DEF AddOperation, Refused
    <2>2. QED  BY <2>1 DEF Legible
  <1>2. CASE ~ refused
    <2>1. FirstOf(Seeming(c, path), item)
      BY <1>2, LocateItemIs
    <2>2. item # 0 => MethodAt(c, item, method) = {}
      <3>1. item # 0 => found = IF MethodAt(c, item, method) # {} THEN Min(MethodAt(c, item, method)) ELSE 0
        BY DEF LocateOperation, SelectInSeq, MethodAt
      <3>2. MethodAt(c, item, method) \subseteq 1 .. Len(c.ops)
        BY DEF MethodAt
      <3> HIDE DEF item
      <3>3. MethodAt(c, item, method) # {} => Min(MethodAt(c, item, method)) \in 1 .. Len(c.ops)
        <4>1. 1 .. Len(c.ops) \subseteq Nat
          BY Entries
        <4>2. QED  BY <3>2, <4>1, MinIs
      <3>4. found = 0
        BY <1>2
      <3> HIDE DEF found
      <3>5. 0 \notin 1 .. Len(c.ops)
        BY Entries
      <3>6. QED  BY <3>1, <3>3, <3>4, <3>5
    <2>3. item = 0 \/ item \in DOMAIN c.ops
      <3>1. Seeming(c, path) \subseteq DOMAIN c.ops
        BY Entries DEF Seeming
      <3> HIDE DEF item
      <3>2. QED  BY <2>1, <3>1 DEF FirstOf
    <2> DEFINE itsPath == IF item = 0 THEN path ELSE c.ops[item].path
               written == IF Yaml(c) /\ path \in ColonPaths THEN "hidden" ELSE "block"
               op == NewOperation(itsPath, method, id, written)
               kept == IF c.layout["paths"] = "inline" THEN c.layout["paths"] ELSE "block"
               layout == [c.layout EXCEPT !["paths"] = kept]
               new == Placed(c, item, op)
               e == [c EXCEPT !.layout = layout, !.ops = new]
               fits == IF item = 0 THEN path \notin PathsOf(c) /\ c.layout["paths"] # "inline"
                       ELSE \A i \in ItemOf(c, c.ops[item]) : c.ops[i].written # "item"
    <2>4. d = SoundIf(e, fits)
      <3>1. d = SoundIf(Added(c, item, path, method, id), fits)
        BY <1>2 DEF AddOperation, Patched
      <3>2. Added(c, item, path, method, id) = e
        BY DEF Added
      <3>3. QED  BY <3>1, <3>2
    <2>5. itsPath \in Paths
      <3>1. item \in DOMAIN c.ops => c.ops[item] \in Operation
        BY Entries
      <3> HIDE DEF item
      <3>2. QED  BY <2>3, <3>1 DEF Operation
    <2>6. fits \in BOOLEAN
      OBVIOUS
    <2>7. ~ Unreadable(c)
      BY <1>2
    <2>8. id # Absent /\ \A i \in CatalogOperations(c) : c.ops[i].operationId # id
      BY <1>2 DEF IdTaken, OperationIds
    <2> HIDE DEF item, itsPath, found
    <2>9. written \in Spellings
      BY DEF Spellings
    <2> HIDE DEF written
    <2>10. /\ op \in Operation /\ op.path = itsPath /\ op.method = method
           /\ op.operationId = id /\ op.responses = "flow" /\ op.written = written
      BY <2>5, <2>9 DEF NewOperation, Operation, Fragments
    <2>11. c.layout \in [Parts -> Layouts]
      BY DEF Catalog
    <2>12. layout \in [Parts -> Layouts] /\ layout["paths"] \notin {"absent", "empty"}
      BY <2>11 DEF Parts, Layouts
    <2>13. c.ops \in Seq(Operation) /\ Len(c.ops) \in Nat /\ DOMAIN c.ops = 1 .. Len(c.ops)
      BY Entries
    <2> HIDE DEF op, layout, new, fits
    <2>14. PICK to : PlacedAt(c, Placed(c, item, op), item, op, to)
      BY <2>3, PlacedIs
    <2>15. to \in 1 .. Len(c.ops) + 1 /\ new = InsertAt(c.ops, to, op)
      BY <2>14 DEF PlacedAt, new
    <2>16. new \in Seq(Operation) /\ Gets(new, c.ops, to, op)
      BY <2>10, <2>13, <2>15, InsertedAt
    <2>17. /\ e \in Catalog /\ e.format = c.format /\ e.layout = layout /\ e.sound = c.sound
           /\ e.ops = new /\ e.schemas = c.schemas
      BY <2>12, <2>16 DEF Catalog
    <2> HIDE DEF e
    <2>18. SoundOf(d, e, fits)
      BY <2>4, <2>6, <2>17, SoundIfIs
    <2>19. c.format \in {"yaml", "json"}
      BY DEF Catalog, Formats
    <2>20. d \in Catalog /\ d.format = c.format /\ d.layout = layout /\ d.ops = new /\ d.schemas = c.schemas
      BY <2>17, <2>18 DEF SoundOf
    <2>21. (d.sound /\ Yaml(c) => fits) /\ (d.sound => c.sound) /\ (~ Yaml(c) => d.sound = c.sound)
      BY <2>17, <2>18, <2>19 DEF SoundOf, Yaml
    <2>22. PlacedAt(c, d.ops, item, op, to)
      BY <2>14, <2>20 DEF new
    <2>23. op.path = IF item = 0 THEN path ELSE c.ops[item].path
      BY <2>10 DEF itsPath
    <2>24. op.written = IF Yaml(c) /\ path \in ColonPaths THEN "hidden" ELSE "block"
      BY <2>10 DEF written
    <2>25. d.sound /\ Yaml(c) => IF item = 0 THEN path \notin PathsOf(c)
                                ELSE \A i \in ItemOf(c, c.ops[item]) : c.ops[i].written # "item"
      BY <2>21 DEF fits
    <2>26. Adds(d, c, path, item, to, op)
      BY <2>1, <2>2, <2>7, <2>10, <2>12, <2>16, <2>20, <2>21, <2>22, <2>23, <2>24, <2>25 DEF Adds
    <2>27. IsNew(c, op)
      BY <2>8, <2>10 DEF IsNew
    <2>28. Readable(c) /\ Regular(c) => Readable(d)
      <3> SUFFICES ASSUME Readable(c), Regular(c) PROVE Readable(d)
        OBVIOUS
      <3>1. fits
        <4>1. CASE item = 0
          <5>1. Seeming(c, path) = {}
            <6>1. Seeming(c, path) \subseteq 1 .. Len(c.ops)
              BY DEF Seeming
            <6>2. QED  BY <2>1, <2>13, <4>1, <6>1 DEF FirstOf
          <5>2. ASSUME NEW i \in DOMAIN c.ops PROVE c.ops[i].path # path
            <6>1. c.ops[i].written = "block" /\ c.ops[i].path \notin ColonPaths
              BY DEF Regular
            <6>2. Recognised(c, c.ops[i]) /\ ShownPath(c, c.ops[i]) = c.ops[i].path
              BY <6>1 DEF Recognised, ShownPath
            <6>3. QED  BY <2>13, <5>1, <6>2 DEF Seeming
          <5>3. QED  BY <4>1, <5>2 DEF fits, PathsOf, Regular
        <4>2. CASE item # 0
          BY <4>2 DEF fits, ItemOf, Regular
        <4>3. QED  BY <4>1, <4>2
      <3>2. d.sound
        BY <2>17, <2>18, <3>1 DEF SoundOf, Readable
      <3>3. ASSUME NEW i \in DOMAIN d.ops PROVE Fits(d.ops[i].responses)
        <4>1. i \in 1 .. Len(c.ops) + 1
          BY <2>16, <2>20, <3>3 DEF Gets
        <4>2. CASE i = to
          BY <2>10, <2>16, <2>20, <4>2 DEF Gets, Fits
        <4>3. CASE i < to
          <5>1. i \in DOMAIN c.ops
            BY <2>13, <2>15, <4>1, <4>3
          <5>2. d.ops[i] = c.ops[i]
            BY <2>16, <2>20, <4>3, <5>1 DEF Gets
          <5>3. QED  BY <5>1, <5>2 DEF Readable
        <4>4. CASE i > to
          <5>1. i - 1 \in DOMAIN c.ops /\ to <= i - 1 /\ i - 1 + 1 = i
            BY <2>13, <2>15, <4>1, <4>4
          <5>2. d.ops[i] = c.ops[i - 1]
            BY <2>16, <2>20, <5>1 DEF Gets
          <5>3. QED  BY <5>1, <5>2 DEF Readable
        <4>5. QED  BY <2>15, <4>1, <4>2, <4>3, <4>4
      <3>4. QED  BY <2>20, <3>2, <3>3 DEF Readable
    <2>29. QED  BY <2>26, <2>27, <2>28 DEF Legible
  <1>3. QED  BY <1>1, <1>2

(* A deletion takes the entries between two places, the operation found    *)
(* among them.                                                             *)
Deletes(d, c, first, last) ==
  /\ d \in Catalog
  /\ d.format = c.format /\ d.layout["paths"] = c.layout["paths"] /\ d.sound = c.sound
  /\ first \in DOMAIN c.ops /\ last \in first .. Len(c.ops)
  /\ Loses(d.ops, c.ops, first, last)
  /\ Len(d.ops) = Len(c.ops) - (last - first + 1)

TakenFor(c, first, last, at) ==
  /\ at \in first .. last
  /\ \A i \in first .. last :
       i # at => Yaml(c) /\ ~ OnLines(c, c.ops[i]) /\ SameItem(c, c.ops[i], c.ops[at])

LEMMA GoneRange ==
  ASSUME NEW c \in Catalog, Contiguous(c), NEW at \in CatalogOperations(c)
  PROVE  \E first, last :
           /\ OthersOf(c, at) = Without(c.ops, first, last)
           /\ first \in DOMAIN c.ops /\ last \in first .. Len(c.ops)
           /\ TakenFor(c, first, last, at)
  <1>1. Len(c.ops) \in Nat /\ DOMAIN c.ops = 1 .. Len(c.ops)
    BY Entries
  <1>2. at \in DOMAIN c.ops /\ OnLines(c, c.ops[at])
    BY DEF CatalogOperations
  <1> DEFINE item == ItemOf(c, c.ops[at])
             alone == Yaml(c) /\ \A i \in item : i = at \/ ~ OnLines(c, c.ops[i])
             gone == IF alone THEN item ELSE {at}
             first == Min(gone)
             last == Max(gone)
  <1>3. OthersOf(c, at) = Without(c.ops, first, last)
    BY DEF OthersOf
  <1>4. item \subseteq 1 .. Len(c.ops) /\ at \in item
    BY <1>1, <1>2 DEF ItemOf, SameItem
  <1>5. \A i \in item : SameItem(c, c.ops[i], c.ops[at])
    BY DEF ItemOf
  <1>6. \A i \in DOMAIN c.ops : SameItem(c, c.ops[i], c.ops[at]) => i \in item
    BY DEF ItemOf
  <1> HIDE DEF item
  <1>7. gone \subseteq 1 .. Len(c.ops) /\ at \in gone /\ gone \subseteq item
    BY <1>4
  <1>8. \A i \in gone : i = at \/ (Yaml(c) /\ ~ OnLines(c, c.ops[i]))
    OBVIOUS
  <1>9. gone = item \/ gone = {at}
    OBVIOUS
  <1> HIDE DEF gone
  <1>10. first \in gone /\ \A k \in gone : first <= k
    <2>1. gone \subseteq Nat /\ gone # {}
      BY <1>1, <1>7
    <2>2. QED  BY <2>1, MinIs
  <1>11. last \in gone /\ \A k \in gone : k <= last
    BY <1>1, <1>7, MaxIs
  <1> HIDE DEF first, last
  <1>12. /\ first \in 1 .. Len(c.ops) /\ last \in 1 .. Len(c.ops) /\ at \in 1 .. Len(c.ops)
         /\ first <= at /\ at <= last
    BY <1>7, <1>10, <1>11
  <1>13. ASSUME NEW i \in first .. last PROVE i \in gone
    <2>1. i \in DOMAIN c.ops /\ i \in Nat /\ first <= i /\ i <= last
      BY <1>1, <1>12
    <2>2. CASE gone = {at}
      BY <1>10, <1>11, <1>12, <2>1, <2>2
    <2>3. CASE gone = item
      <3>1. SameItem(c, c.ops[first], c.ops[at]) /\ SameItem(c, c.ops[last], c.ops[at])
        BY <1>5, <1>7, <1>10, <1>11
      <3>2. SameItem(c, c.ops[first], c.ops[last]) /\ Recognised(c, c.ops[first])
        BY <1>2, <3>1 DEF SameItem, Recognised, OnLines
      <3>3. CASE i = first \/ i = last
        BY <1>10, <1>11, <3>3
      <3>4. CASE i # first /\ i # last
        <4>1. first < i /\ i < last
          BY <1>12, <2>1, <3>4
        <4>2. SameItem(c, c.ops[first], c.ops[i])
          BY <1>1, <1>12, <2>1, <3>2, <4>1 DEF Contiguous
        <4>3. SameItem(c, c.ops[i], c.ops[at])
          BY <3>1, <4>2 DEF SameItem
        <4>4. QED  BY <1>6, <2>1, <2>3, <4>3
      <3>5. QED  BY <3>3, <3>4
    <2>4. QED  BY <1>9, <2>2, <2>3
  <1>14. TakenFor(c, first, last, at)
    <2>1. at \in first .. last
      BY <1>12
    <2>2. ASSUME NEW i \in first .. last, i # at
          PROVE  Yaml(c) /\ ~ OnLines(c, c.ops[i]) /\ SameItem(c, c.ops[i], c.ops[at])
      BY <1>5, <1>7, <1>8, <1>13, <2>2
    <2>3. QED  BY <2>1, <2>2 DEF TakenFor
  <1>15. last \in first .. Len(c.ops)
    BY <1>12
  <1>16. QED  BY <1>1, <1>3, <1>12, <1>14, <1>15

LEMMA OperationRemoved ==
  ASSUME NEW c \in Catalog, Contiguous(c), NEW path, NEW method, method # Absent,
         NEW r, r = RemoveOperation(c, path, method)
  PROVE  \/ r.error /\ r.source = c
         \/ /\ ~ r.error
            /\ Legible(r.source, c)
            /\ \E first, last, at :
                 /\ Deletes(r.source, c, first, last)
                 /\ TakenFor(c, first, last, at)
                 /\ at = LocateOperation(c, path, method) /\ at # 0
  <1> DEFINE at == LocateOperation(c, path, method)
             d == r.source
  <1>1. CASE at = 0
    BY <1>1 DEF RemoveOperation, Refused
  <1>2. CASE at # 0
    <2>1. at \in CatalogOperations(c)
      BY <1>2, LocatedShows
    <2>2. ~ r.error /\ d = [c EXCEPT !.ops = OthersOf(c, at)]
      BY <1>2 DEF RemoveOperation, Patched
    <2> HIDE DEF at
    <2>3. PICK first, last :
            /\ OthersOf(c, at) = Without(c.ops, first, last)
            /\ first \in DOMAIN c.ops /\ last \in first .. Len(c.ops)
            /\ TakenFor(c, first, last, at)
      BY <2>1, GoneRange
    <2> DEFINE new == Without(c.ops, first, last)
               n == last - first + 1
    <2>4. c.ops \in Seq(Operation) /\ Len(c.ops) \in Nat /\ DOMAIN c.ops = 1 .. Len(c.ops)
      BY Entries
    <2>5. /\ new \in Seq(Operation) /\ Len(new) = Len(c.ops) - n
          /\ Loses(new, c.ops, first, last)
      BY <2>3, <2>4, WithoutIs
    <2>6. d = [c EXCEPT !.ops = new]
      BY <2>2, <2>3
    <2> HIDE DEF new, d
    <2>7. /\ d \in Catalog /\ d.format = c.format /\ d.layout = c.layout /\ d.sound = c.sound
          /\ d.ops = new /\ d.schemas = c.schemas
      BY <2>5, <2>6 DEF Catalog
    <2>8. Deletes(d, c, first, last)
      BY <2>3, <2>5, <2>7 DEF Deletes
    <2>9. Readable(c) => Readable(d)
      <3> SUFFICES ASSUME Readable(c) PROVE Readable(d)
        OBVIOUS
      <3>1. ASSUME NEW i \in DOMAIN d.ops PROVE Fits(d.ops[i].responses)
        <4>1. i \in 1 .. Len(c.ops) - n /\ first \in Nat /\ last \in Nat /\ first <= last
              /\ last <= Len(c.ops)
          BY <2>3, <2>4, <2>5, <2>7 DEF Loses
        <4>2. i \in DOMAIN c.ops /\ i + n \in DOMAIN c.ops
          BY <2>4, <4>1
        <4>3. d.ops[i] = c.ops[i] \/ d.ops[i] = c.ops[i + n]
          <5>1. i < first \/ first <= i
            BY <4>1
          <5>2. QED  BY <2>5, <2>7, <5>1 DEF Loses
        <4>4. QED  BY <4>2, <4>3 DEF Readable
      <3>2. QED  BY <2>7, <3>1 DEF Readable
    <2>10. QED  BY <1>2, <2>2, <2>3, <2>8, <2>9 DEF d, at, Legible
  <1>3. QED  BY <1>1, <1>2

-----------------------------------------------------------------------------
(* The place of the selected operation: the first of its key, or of all.   *)
Places(c, sel) ==
  LET chosen == {i \in CatalogOperations(c) : ShownKey(c, c.ops[i]) = sel}
      offered == IF chosen # {} THEN chosen ELSE CatalogOperations(c)
  IN {k \in offered : \A l \in offered : k <= l}

PlacesAre(c, sel) ==
  /\ Places(c, sel) \subseteq CatalogOperations(c)
  /\ \A i, j \in Places(c, sel) : i = j
  /\ CatalogOperations(c) # {} => Places(c, sel) # {}
  /\ \A i \in Places(c, sel), k \in CatalogOperations(c) :
       /\ ShownKey(c, c.ops[k]) = sel => ShownKey(c, c.ops[i]) = sel
       /\ ShownKey(c, c.ops[k]) = ShownKey(c, c.ops[i]) => i <= k

LEMMA ShownPlaces ==
  ASSUME NEW c \in Catalog
  PROVE  CatalogOperations(c) \subseteq DOMAIN c.ops /\ CatalogOperations(c) \subseteq Nat
  <1>1. DOMAIN c.ops = 1 .. Len(c.ops) /\ Len(c.ops) \in Nat
    BY Entries
  <1>2. QED  BY <1>1 DEF CatalogOperations

LEMMA PlacesHold ==
  ASSUME NEW c \in Catalog, NEW sel
  PROVE  PlacesAre(c, sel)
  <1> DEFINE chosen == {i \in CatalogOperations(c) : ShownKey(c, c.ops[i]) = sel}
             offered == IF chosen # {} THEN chosen ELSE CatalogOperations(c)
  <1>1. Places(c, sel) = {k \in offered : \A l \in offered : k <= l}
    BY DEF Places
  <1>2. CatalogOperations(c) \subseteq Nat
    BY ShownPlaces
  <1>3. offered \subseteq CatalogOperations(c) /\ (CatalogOperations(c) # {} => offered # {})
    OBVIOUS
  <1>4. \A k \in CatalogOperations(c) :
          ShownKey(c, c.ops[k]) = sel => \A i \in offered : ShownKey(c, c.ops[i]) = sel
    OBVIOUS
  <1>5. \A i \in offered, k \in CatalogOperations(c) :
          ShownKey(c, c.ops[k]) = ShownKey(c, c.ops[i]) => k \in offered
    OBVIOUS
  <1> HIDE DEF chosen, offered
  <1>6. Places(c, sel) \subseteq CatalogOperations(c)
    BY <1>1, <1>3
  <1>7. ASSUME NEW i \in Places(c, sel), NEW j \in Places(c, sel) PROVE i = j
    <2>1. i <= j /\ j <= i
      BY <1>1
    <2>2. i \in Nat /\ j \in Nat
      BY <1>2, <1>6
    <2>3. QED  BY <2>1, <2>2
  <1>8. ASSUME CatalogOperations(c) # {} PROVE Places(c, sel) # {}
    <2>1. offered \subseteq Nat /\ offered # {}
      BY <1>2, <1>3, <1>8
    <2>2. \E m \in offered : \A k \in offered : m <= k
      BY <2>1, LeastNat
    <2>3. QED  BY <1>1, <2>2
  <1>9. ASSUME NEW i \in Places(c, sel), NEW k \in CatalogOperations(c)
        PROVE  /\ ShownKey(c, c.ops[k]) = sel => ShownKey(c, c.ops[i]) = sel
               /\ ShownKey(c, c.ops[k]) = ShownKey(c, c.ops[i]) => i <= k
    BY <1>1, <1>4, <1>5
  <1>10. QED  BY <1>6, <1>7, <1>8, <1>9 DEF PlacesAre

LEMMA SelectionIs == Selection = {draft.ops[i] : i \in Places(draft, selected)}
  BY DEF Selection, Places, Shown

(* What is selected is shown, and so is what the dialog is about.          *)
Followed(c, sel) == sel # None => \E i \in CatalogOperations(c) : ShownKey(c, c.ops[i]) = sel

Listed(c, sel, imp, mov) ==
  imp # None /\ ~ mov => \E i \in Places(c, sel) : About(c, c.ops[i]) = imp

Kept(c, sel, imp, mov) == WellKept(c) /\ Followed(c, sel) /\ Listed(c, sel, imp, mov)

(* What an entry looks like depends on the format of the text only.        *)
LEMMA SameLooks ==
  ASSUME NEW c, NEW d, d.format = c.format
  PROVE  /\ Yaml(d) <=> Yaml(c)
         /\ \A o : /\ Recognised(d, o) <=> Recognised(c, o)
                   /\ OnLines(d, o) <=> OnLines(c, o)
                   /\ ShownKey(d, o) = ShownKey(c, o)
         /\ \A o, p : SameItem(d, o, p) <=> SameItem(c, o, p)
  BY DEF Yaml, Recognised, OnLines, ShownKey, ShownPath, SameItem

(* An edit that keeps the operations keeps all of it.                      *)
LEMMA RewriteShows ==
  ASSUME NEW c \in Catalog, NEW d, Rewrites(d, c)
  PROVE  /\ CatalogOperations(d) = CatalogOperations(c)
         /\ \A i \in DOMAIN c.ops : /\ Key(d.ops[i]) = Key(c.ops[i])
                                   /\ ShownKey(d, d.ops[i]) = ShownKey(c, c.ops[i])
         /\ \A sel : Places(d, sel) = Places(c, sel)
  <1>1. \A i \in DOMAIN c.ops : Key(d.ops[i]) = Key(c.ops[i])
    BY DEF Rewrites, Key
  <1>2. \A i \in DOMAIN c.ops : ShownKey(d, d.ops[i]) = ShownKey(c, c.ops[i])
    BY DEF Rewrites, ShownKey, ShownPath, Yaml
  <1>3. CatalogOperations(d) = CatalogOperations(c)
    <2>1. Unreadable(d) <=> Unreadable(c)
      BY DEF Unreadable, Rewrites, Yaml
    <2>2. ASSUME NEW i \in DOMAIN c.ops
          PROVE  /\ OnLines(d, d.ops[i]) <=> OnLines(c, c.ops[i])
                 /\ d.ops[i].method = c.ops[i].method
      BY DEF OnLines, Rewrites, Yaml
    <2>3. DOMAIN d.ops = DOMAIN c.ops
      BY DEF Rewrites
    <2>4. QED  BY <2>1, <2>2, <2>3 DEF CatalogOperations
  <1>4. ASSUME NEW sel PROVE Places(d, sel) = Places(c, sel)
    <2>1. \A i \in CatalogOperations(c) : ShownKey(d, d.ops[i]) = ShownKey(c, c.ops[i])
      BY <1>2, ShownPlaces
    <2>2. {i \in CatalogOperations(d) : ShownKey(d, d.ops[i]) = sel}
          = {i \in CatalogOperations(c) : ShownKey(c, c.ops[i]) = sel}
      BY <1>3, <2>1
    <2>3. QED  BY <1>3, <2>2 DEF Places
  <1>5. QED  BY <1>1, <1>2, <1>3, <1>4

LEMMA RewriteFollows ==
  ASSUME NEW c \in Catalog, NEW d, Rewrites(d, c), NEW sel, Followed(c, sel)
  PROVE  Followed(d, sel)
  <1>1. /\ CatalogOperations(d) = CatalogOperations(c)
        /\ \A i \in DOMAIN c.ops : ShownKey(d, d.ops[i]) = ShownKey(c, c.ops[i])
    BY RewriteShows
  <1>2. CatalogOperations(c) \subseteq DOMAIN c.ops
    BY ShownPlaces
  <1>3. QED  BY <1>1, <1>2 DEF Followed

LEMMA RewriteLists ==
  ASSUME NEW c \in Catalog, NEW d, Rewrites(d, c), KeepsIds(d, c), NEW sel, NEW imp, NEW mov,
         Listed(c, sel, imp, mov)
  PROVE  Listed(d, sel, imp, mov)
  <1>1. /\ Places(d, sel) = Places(c, sel)
        /\ \A i \in DOMAIN c.ops : ShownKey(d, d.ops[i]) = ShownKey(c, c.ops[i])
    BY RewriteShows
  <1>2. Places(c, sel) \subseteq DOMAIN c.ops
    BY PlacesHold, ShownPlaces DEF PlacesAre
  <1>3. \A i \in Places(c, sel) : About(d, d.ops[i]) = About(c, c.ops[i])
    BY <1>1, <1>2 DEF About, KeepsIds
  <1>4. QED  BY <1>1, <1>3 DEF Listed

LEMMA RewriteKept ==
  ASSUME NEW c \in Catalog, NEW d, Rewrites(d, c), WellKept(c), IdsApart(d)
  PROVE  WellKept(d)
  <1>1. DOMAIN d.ops = DOMAIN c.ops /\ d.format = c.format
    BY DEF Rewrites
  <1>2. \A i \in DOMAIN c.ops : /\ d.ops[i].path = c.ops[i].path /\ d.ops[i].method = c.ops[i].method
                               /\ d.ops[i].written = c.ops[i].written
    BY DEF Rewrites
  <1>3. \A i, j \in DOMAIN c.ops : SameItem(d, d.ops[i], d.ops[j]) <=> SameItem(c, c.ops[i], c.ops[j])
    BY <1>1, <1>2 DEF SameItem, Yaml
  <1>4. NoneWithout(d)
    <2> SUFFICES ASSUME d.layout["paths"] \in {"absent", "empty"} PROVE d.ops = << >>
      BY DEF NoneWithout
    <2>1. c.ops = << >>
      BY DEF WellKept, NoneWithout, Rewrites
    <2>2. DOMAIN d.ops = {}
      BY <1>1, <2>1
    <2>3. d.ops \in Seq(Operation) /\ DOMAIN d.ops = 1 .. Len(d.ops) /\ Len(d.ops) \in Nat
      BY Entries DEF Rewrites
    <2>4. Len(d.ops) = 0
      <3>1. 1 \notin 1 .. Len(d.ops)
        BY <2>2, <2>3
      <3>2. QED  BY <2>3, <3>1
    <2>5. QED  BY <2>3, <2>4, EmptySeq
  <1>5. KeysApart(d)
    <2>1. d.sound => c.sound
      BY DEF Rewrites
    <2>2. \A i \in DOMAIN c.ops : Key(d.ops[i]) = Key(c.ops[i])
      BY <1>2 DEF Key
    <2>3. Yaml(d) <=> Yaml(c)
      BY <1>1 DEF Yaml
    <2>4. KeysApart(c)
      BY DEF WellKept
    <2>5. QED  BY <1>1, <1>2, <1>3, <2>1, <2>2, <2>3, <2>4 DEF KeysApart
  <1>6. Contiguous(d)
    <2>1. \A i \in DOMAIN c.ops : Recognised(d, d.ops[i]) <=> Recognised(c, c.ops[i])
      BY <1>1, <1>2 DEF Recognised, Yaml
    <2>2. Contiguous(c)
      BY DEF WellKept
    <2>3. QED  BY <1>1, <1>3, <2>1, <2>2 DEF Contiguous
  <1>7. QED  BY <1>4, <1>5, <1>6 DEF WellKept

LEMMA SameIdsApart ==
  ASSUME NEW c \in Catalog, NEW d, Rewrites(d, c), KeepsIds(d, c), WellKept(c)
  PROVE  IdsApart(d)
  <1>1. /\ CatalogOperations(d) = CatalogOperations(c) /\ CatalogOperations(c) \subseteq DOMAIN c.ops
        /\ \A i \in DOMAIN c.ops : ShownKey(d, d.ops[i]) = ShownKey(c, c.ops[i])
    BY RewriteShows, ShownPlaces
  <1>2. IdsApart(c)
    BY DEF WellKept
  <1>3. QED  BY <1>1, <1>2 DEF KeepsIds, IdsApart

LEMMA EditKept ==
  ASSUME NEW c \in Catalog, NEW d, Edits(d, c), NEW sel, NEW imp, NEW mov, Kept(c, sel, imp, mov)
  PROVE  Kept(d, sel, imp, mov)
  <1>1. Rewrites(d, c) /\ KeepsIds(d, c) /\ WellKept(c) /\ Followed(c, sel) /\ Listed(c, sel, imp, mov)
    BY DEF Edits, Kept
  <1>2. WellKept(d)
    BY <1>1, SameIdsApart, RewriteKept
  <1>3. Followed(d, sel) /\ Listed(d, sel, imp, mov)
    BY <1>1, RewriteFollows, RewriteLists
  <1>4. QED  BY <1>2, <1>3 DEF Kept

(* A changed operationId is that of no operation shown under another key.  *)
LEMMA IdKept ==
  ASSUME NEW c \in Catalog, NEW sel, NEW imp, NEW mov, Kept(c, sel, imp, mov),
         NEW p \in Places(c, sel), NEW field, NEW value, NEW d,
         OpPatched(d, c, ShownPath(c, c.ops[p]), c.ops[p].method, field, value),
         field = "operationId" /\ value # Absent =>
           \A i \in CatalogOperations(c) : c.ops[i].operationId = value => ShownKey(c, c.ops[i]) = sel
  PROVE  /\ WellKept(d) /\ Followed(d, sel)
         /\ field # "operationId" => Listed(d, sel, imp, mov)
         /\ Legible(d, c) /\ (d = c \/ Rewrites(d, c))
  <1>1. WellKept(c) /\ Followed(c, sel) /\ Listed(c, sel, imp, mov)
    BY DEF Kept
  <1>2. CASE d = c
    BY <1>1, <1>2 DEF Legible
  <1>3. CASE d # c
    <2>1. /\ Rewrites(d, c)
          /\ field # "operationId" => KeepsIds(d, c)
          /\ Legible(d, c)
      BY <1>3 DEF OpPatched
    <2>2. PICK at \in CatalogOperations(c) :
            /\ ShownKey(c, c.ops[at]) = ShownKey(c, c.ops[p])
            /\ d.ops[at].operationId = IF field = "operationId" THEN value ELSE c.ops[at].operationId
            /\ \A i \in DOMAIN c.ops : i # at => d.ops[i] = c.ops[i]
      BY <1>3 DEF OpPatched, ShownKey
    <2>3. /\ CatalogOperations(d) = CatalogOperations(c) /\ CatalogOperations(c) \subseteq DOMAIN c.ops
          /\ \A i \in DOMAIN c.ops : ShownKey(d, d.ops[i]) = ShownKey(c, c.ops[i])
      BY <2>1, RewriteShows, ShownPlaces
    <2>4. IdsApart(d)
      <3>1. CASE field # "operationId"
        BY <1>1, <2>1, <3>1, SameIdsApart
      <3>2. CASE field = "operationId"
        <4>1. d.ops[at].operationId = value
              /\ \A i \in CatalogOperations(c) : i # at => d.ops[i].operationId = c.ops[i].operationId
          BY <2>2, <2>3, <3>2
        <4>2. ASSUME NEW i \in CatalogOperations(c), value # Absent, c.ops[i].operationId = value
              PROVE  ShownKey(c, c.ops[i]) = ShownKey(c, c.ops[at])
          <5>1. ShownKey(c, c.ops[i]) = sel
            BY <3>2, <4>2
          <5>2. ShownKey(c, c.ops[p]) = sel
            BY <5>1, PlacesHold DEF PlacesAre
          <5>3. QED  BY <2>2, <5>1, <5>2
        <4>3. IdsApart(c)
          BY <1>1 DEF WellKept
        <4>4. ASSUME NEW i \in CatalogOperations(c), NEW j \in CatalogOperations(c), i # j,
                     d.ops[i].operationId # Absent, d.ops[i].operationId = d.ops[j].operationId
              PROVE  ShownKey(c, c.ops[i]) = ShownKey(c, c.ops[j])
          <5>1. CASE i = at
            BY <4>1, <4>2, <4>4, <5>1
          <5>2. CASE j = at
            BY <4>1, <4>2, <4>4, <5>2
          <5>3. CASE i # at /\ j # at
            BY <4>1, <4>3, <4>4, <5>3 DEF IdsApart
          <5>4. QED  BY <5>1, <5>2, <5>3
        <4>5. QED  BY <2>3, <4>4 DEF IdsApart
      <3>3. QED  BY <3>1, <3>2
    <2>5. WellKept(d)
      BY <1>1, <2>1, <2>4, RewriteKept
    <2>6. Followed(d, sel)
      BY <1>1, <2>1, RewriteFollows
    <2>7. field # "operationId" => Listed(d, sel, imp, mov)
      BY <1>1, <2>1, RewriteLists
    <2>8. QED  BY <2>1, <2>5, <2>6, <2>7
  <1>4. QED  BY <1>2, <1>3

(* Where an operation is after another one was put at a place.             *)
Lift(at, i) == IF i < at THEN i ELSE i + 1

Lifts(d, c, at, op) ==
  /\ at \in DOMAIN d.ops /\ d.ops[at] = op
  /\ \A i \in DOMAIN c.ops : Lift(at, i) \in DOMAIN d.ops /\ Lift(at, i) # at /\ d.ops[Lift(at, i)] = c.ops[i]
  /\ \A j \in DOMAIN d.ops : j = at \/ \E i \in DOMAIN c.ops : j = Lift(at, i)
  /\ \A i, k \in DOMAIN c.ops : Lift(at, i) < Lift(at, k) => i < k
  /\ \A i \in DOMAIN c.ops : (Lift(at, i) < at => i < at) /\ (at < Lift(at, i) => at <= i)

LEMMA AddLifts ==
  ASSUME NEW c \in Catalog, NEW d, NEW path, NEW item, NEW at, NEW op, Adds(d, c, path, item, at, op)
  PROVE  Lifts(d, c, at, op)
  <1>1. Len(c.ops) \in Nat /\ DOMAIN c.ops = 1 .. Len(c.ops)
    BY Entries
  <1>2. Gets(d.ops, c.ops, at, op) /\ at \in 1 .. Len(c.ops) + 1
    BY DEF Adds, PlacedAt
  <1>3. DOMAIN d.ops = 1 .. Len(c.ops) + 1 /\ d.ops[at] = op
    BY <1>2 DEF Gets
  <1>4. ASSUME NEW i \in DOMAIN c.ops
        PROVE  Lift(at, i) \in DOMAIN d.ops /\ Lift(at, i) # at /\ d.ops[Lift(at, i)] = c.ops[i]
    <2>1. i \in 1 .. Len(c.ops) /\ i \in Nat /\ at \in Nat
      BY <1>1, <1>2
    <2>2. CASE i < at
      <3>1. Lift(at, i) = i
        BY <2>2 DEF Lift
      <3>2. i \in 1 .. Len(c.ops) + 1
        BY <1>1, <2>1
      <3>3. QED  BY <1>2, <1>3, <2>1, <2>2, <3>1, <3>2 DEF Gets
    <2>3. CASE at <= i
      <3>1. Lift(at, i) = i + 1
        BY <2>1, <2>3 DEF Lift
      <3>2. i + 1 \in 1 .. Len(c.ops) + 1 /\ i + 1 # at
        BY <1>1, <2>1, <2>3
      <3>3. QED  BY <1>2, <1>3, <2>3, <3>1, <3>2 DEF Gets
    <2>4. QED  BY <2>1, <2>2, <2>3
  <1>5. ASSUME NEW j \in DOMAIN d.ops, j # at PROVE \E i \in DOMAIN c.ops : j = Lift(at, i)
    <2>1. j \in 1 .. Len(c.ops) + 1 /\ j \in Nat /\ at \in Nat
      BY <1>1, <1>2, <1>3
    <2>2. CASE j < at
      <3>1. j \in 1 .. Len(c.ops)
        BY <1>1, <1>2, <2>1, <2>2
      <3>2. QED  BY <1>1, <2>2, <3>1 DEF Lift
    <2>3. CASE at < j
      <3>1. j - 1 \in 1 .. Len(c.ops) /\ ~ (j - 1 < at) /\ j - 1 + 1 = j
        BY <1>1, <1>2, <2>1, <2>3
      <3>2. Lift(at, j - 1) = j
        BY <3>1 DEF Lift
      <3>3. QED  BY <1>1, <3>1, <3>2
    <2>4. QED  BY <1>5, <2>1, <2>2, <2>3
  <1>6. ASSUME NEW i \in DOMAIN c.ops, NEW k \in DOMAIN c.ops
        PROVE  /\ Lift(at, i) < Lift(at, k) => i < k
               /\ (Lift(at, i) < at => i < at) /\ (at < Lift(at, i) => at <= i)
    <2>1. i \in Nat /\ k \in Nat /\ at \in Nat
      BY <1>1, <1>2
    <2>2. QED  BY <2>1 DEF Lift
  <1>7. QED  BY <1>2, <1>3, <1>4, <1>5, <1>6 DEF Lifts

LEMMA AddShows ==
  ASSUME NEW c \in Catalog, NEW d, NEW path, NEW item, NEW at, NEW op, Adds(d, c, path, item, at, op)
  PROVE  \A i \in DOMAIN c.ops : Lift(at, i) \in CatalogOperations(d) <=> i \in CatalogOperations(c)
  <1>1. Lifts(d, c, at, op)
    BY AddLifts
  <1>2. ~ Unreadable(d) /\ ~ Unreadable(c)
    BY DEF Adds, Unreadable, Yaml
  <1>3. \A o : OnLines(d, o) <=> OnLines(c, o)
    BY SameLooks DEF Adds
  <1>4. QED  BY <1>1, <1>2, <1>3 DEF Lifts, CatalogOperations

(* What a text that parses has below the path of the new operation.        *)
LEMMA NewIsApart ==
  ASSUME NEW c \in Catalog, KeysApart(c), NEW path, NEW item, NEW at, NEW op, NEW d,
         Adds(d, c, path, item, at, op), d.sound,
         NEW k \in DOMAIN c.ops, op.path = c.ops[k].path
  PROVE  /\ op.method # c.ops[k].method
         /\ SameItem(c, op, c.ops[k])
         /\ Yaml(c) => op.written # "item" /\ c.ops[k].written # "item"
  <1>1. DOMAIN c.ops = 1 .. Len(c.ops) /\ c.ops[k] \in Operation
    BY Entries
  <1>2. /\ FirstOf(Seeming(c, path), item)
        /\ op.path = IF item = 0 THEN path ELSE c.ops[item].path
        /\ op.written = IF Yaml(c) /\ path \in ColonPaths THEN "hidden" ELSE "block"
        /\ item # 0 => MethodAt(c, item, op.method) = {}
        /\ Yaml(c) => IF item = 0 THEN path \notin PathsOf(c)
                      ELSE \A i \in ItemOf(c, c.ops[item]) : c.ops[i].written # "item"
        /\ c.sound
    BY DEF Adds
  <1>3. CASE ~ Yaml(c)
    <2>1. \A o, p : SameItem(c, o, p) <=> o.path = p.path
      BY <1>3 DEF SameItem
    <2>2. \A o : OnLines(c, o) /\ Recognised(c, o) /\ ShownPath(c, o) = o.path
      BY <1>3 DEF OnLines, Recognised, ShownPath
    <2>3. CASE item = 0
      <3>1. k \in Seeming(c, path)
        BY <1>1, <1>2, <2>2, <2>3 DEF Seeming
      <3>2. item \in Seeming(c, path)
        BY <1>2, <3>1 DEF FirstOf
      <3>3. item \in 1 .. Len(c.ops)
        BY <3>2 DEF Seeming
      <3>4. 0 \notin 1 .. Len(c.ops)
        BY Entries
      <3>5. QED  BY <2>3, <3>3, <3>4
    <2>4. CASE item # 0
      <3>1. op.method = c.ops[k].method => k \in MethodAt(c, item, op.method)
        BY <1>1, <1>2, <2>1, <2>2, <2>4 DEF MethodAt
      <3>2. QED  BY <1>2, <1>3, <2>1, <2>4, <3>1
    <2>5. QED  BY <2>3, <2>4
  <1>4. CASE Yaml(c)
    <2>1. item # 0
      BY <1>2, <1>4 DEF PathsOf
    <2>2. item \in Seeming(c, path)
      <3>1. Seeming(c, path) # {}
        BY <1>2, <2>1 DEF FirstOf
      <3>2. QED  BY <1>2, <3>1 DEF FirstOf
    <2>3. item \in DOMAIN c.ops /\ Recognised(c, c.ops[item]) /\ ShownPath(c, c.ops[item]) = path
      BY <1>1, <2>2 DEF Seeming
    <2>4. path \notin ColonPaths
      BY <1>4, <2>3, ColonAssumption DEF ShownPath
    <2>5. op.written = "block" /\ op.path = c.ops[item].path
      BY <1>2, <2>1, <2>4
    <2>6. SameItem(c, c.ops[k], c.ops[item])
      BY <1>2, <2>3, <2>5 DEF KeysApart
    <2>7. c.ops[k].written # "item"
      BY <1>2, <1>4, <2>1, <2>6 DEF ItemOf
    <2>8. c.ops[k].written # "hidden"
      BY <1>4, <2>3, <2>6 DEF SameItem, Recognised
    <2>9. OnLines(c, c.ops[k])
      BY <1>1, <2>7, <2>8 DEF OnLines, Operation, Spellings
    <2>10. op.method # c.ops[k].method
      <3>1. op.method = c.ops[k].method => k \in MethodAt(c, item, op.method)
        BY <1>1, <2>6, <2>9 DEF MethodAt
      <3>2. QED  BY <1>2, <2>1, <3>1
    <2>11. SameItem(c, op, c.ops[k])
      BY <2>5, <2>8 DEF SameItem
    <2>12. QED  BY <2>5, <2>7, <2>10, <2>11
  <1>5. QED  BY <1>3, <1>4

(* An entry that is seen below the key of the new operation.               *)
LEMMA NewIsBelow ==
  ASSUME NEW c \in Catalog, NEW path, NEW item, NEW at, NEW op, NEW d,
         Adds(d, c, path, item, at, op),
         NEW k \in DOMAIN c.ops, SameItem(c, c.ops[k], op), Recognised(c, c.ops[k])
  PROVE  /\ item \in DOMAIN c.ops
         /\ SameItem(c, c.ops[k], c.ops[item])
         /\ at - 1 \in DOMAIN c.ops
         /\ SameItem(c, c.ops[k], c.ops[at - 1])
         /\ k < at
  <1>1. DOMAIN c.ops = 1 .. Len(c.ops) /\ 0 \notin DOMAIN c.ops
    BY Entries
  <1>2. /\ FirstOf(Seeming(c, path), item) /\ PlacedAt(c, d.ops, item, op, at)
        /\ op.path = IF item = 0 THEN path ELSE c.ops[item].path
        /\ op.written = IF Yaml(c) /\ path \in ColonPaths THEN "hidden" ELSE "block"
    BY DEF Adds
  <1>3. c.ops[k].path = op.path /\ (Yaml(c) => c.ops[k].written # "hidden" /\ path \notin ColonPaths)
    BY <1>2 DEF SameItem, Recognised
  <1>4. item # 0
    <2> SUFFICES ASSUME item = 0 PROVE FALSE
      OBVIOUS
    <2>1. ShownPath(c, c.ops[k]) = path
      BY <1>2, <1>3 DEF ShownPath
    <2>2. k \in Seeming(c, path)
      BY <1>1, <2>1 DEF Seeming
    <2>3. item \in Seeming(c, path)
      BY <1>2, <2>2 DEF FirstOf
    <2>4. QED  BY <1>1, <2>3 DEF Seeming
  <1>5. item \in DOMAIN c.ops /\ Recognised(c, c.ops[item])
    <2>1. Seeming(c, path) # {}
      BY <1>2, <1>4 DEF FirstOf
    <2>2. item \in Seeming(c, path)
      BY <1>2, <2>1 DEF FirstOf
    <2>3. QED  BY <1>1, <2>2 DEF Seeming
  <1>6. SameItem(c, c.ops[k], c.ops[item])
    BY <1>2, <1>3, <1>4, <1>5 DEF SameItem, Recognised
  <1>7. at - 1 \in DOMAIN c.ops /\ SameItem(c, c.ops[at - 1], c.ops[item]) /\ k < at
    BY <1>2, <1>4, <1>6 DEF PlacedAt
  <1>8. SameItem(c, c.ops[k], c.ops[at - 1])
    BY <1>6, <1>7 DEF SameItem
  <1>9. QED  BY <1>5, <1>6, <1>7, <1>8

LEMMA AddContiguous ==
  ASSUME NEW c \in Catalog, Contiguous(c), NEW path, NEW item, NEW at, NEW op, NEW d,
         Adds(d, c, path, item, at, op)
  PROVE  Contiguous(d)
  <1>1. Lifts(d, c, at, op)
    BY AddLifts
  <1>2. Len(c.ops) \in Nat /\ DOMAIN c.ops = 1 .. Len(c.ops) /\ DOMAIN d.ops = 1 .. Len(c.ops) + 1
        /\ at \in 1 .. Len(c.ops) + 1
    BY Entries DEF Adds, Gets, PlacedAt
  <1>3. /\ \A o : Recognised(d, o) <=> Recognised(c, o)
        /\ \A o, p : SameItem(d, o, p) <=> SameItem(c, o, p)
    BY SameLooks DEF Adds
  <1>4. PlacedAt(c, d.ops, item, op, at)
    BY DEF Adds
  <1>5. ASSUME NEW i \in DOMAIN d.ops, NEW j \in DOMAIN d.ops, NEW k \in DOMAIN d.ops,
               i < k, k < j, SameItem(c, d.ops[i], d.ops[j]), Recognised(c, d.ops[i])
        PROVE  SameItem(c, d.ops[i], d.ops[k])
    <2>1. i \in Nat /\ j \in Nat /\ k \in Nat /\ at \in Nat /\ at <= Len(c.ops) + 1 /\ j <= Len(c.ops) + 1
      BY <1>2
    <2>2. \A m \in DOMAIN d.ops :
            m # at => \E n \in DOMAIN c.ops : m = Lift(at, n) /\ d.ops[m] = c.ops[n]
      BY <1>1 DEF Lifts
    <2>3. CASE i = at
      <3>1. PICK j0 \in DOMAIN c.ops : j = Lift(at, j0) /\ d.ops[j] = c.ops[j0]
        BY <1>5, <2>1, <2>2, <2>3
      <3>2. SameItem(c, c.ops[j0], op) /\ Recognised(c, c.ops[j0])
        BY <1>1, <1>5, <2>3, <3>1 DEF Lifts, SameItem, Recognised
      <3>3. j0 < at
        BY <3>2, NewIsBelow
      <3>4. at <= j0
        BY <1>1, <1>5, <2>1, <2>3, <3>1 DEF Lifts
      <3>5. QED  BY <1>2, <2>1, <3>3, <3>4
    <2>4. CASE j = at
      <3>1. PICK i0 \in DOMAIN c.ops : i = Lift(at, i0) /\ d.ops[i] = c.ops[i0]
        BY <1>5, <2>1, <2>2, <2>4
      <3>2. PICK k0 \in DOMAIN c.ops : k = Lift(at, k0) /\ d.ops[k] = c.ops[k0]
        BY <1>5, <2>1, <2>2, <2>4
      <3>3. i0 < k0 /\ k0 < at
        BY <1>1, <1>5, <2>4, <3>1, <3>2 DEF Lifts
      <3>4. SameItem(c, c.ops[i0], op) /\ Recognised(c, c.ops[i0])
        BY <1>1, <1>5, <2>4, <3>1 DEF Lifts
      <3>5. at - 1 \in DOMAIN c.ops /\ SameItem(c, c.ops[i0], c.ops[at - 1])
        BY <3>4, NewIsBelow
      <3>6. i0 \in Nat /\ k0 \in Nat
        BY <1>2
      <3>7. CASE k0 = at - 1
        BY <3>1, <3>2, <3>5, <3>7
      <3>8. CASE k0 # at - 1
        <4>1. k0 < at - 1
          BY <2>1, <3>3, <3>6, <3>8
        <4>2. SameItem(c, c.ops[i0], c.ops[k0])
          BY <3>3, <3>4, <3>5, <4>1 DEF Contiguous
        <4>3. QED  BY <3>1, <3>2, <4>2
      <3>9. QED  BY <3>7, <3>8
    <2>5. CASE i # at /\ j # at
      <3>1. PICK i0 \in DOMAIN c.ops : i = Lift(at, i0) /\ d.ops[i] = c.ops[i0]
        BY <2>2, <2>5
      <3>2. PICK j0 \in DOMAIN c.ops : j = Lift(at, j0) /\ d.ops[j] = c.ops[j0]
        BY <2>2, <2>5
      <3>3. i < j /\ i0 \in Nat /\ j0 \in Nat
        BY <1>2, <1>5, <2>1
      <3>4. SameItem(c, c.ops[i0], c.ops[j0]) /\ Recognised(c, c.ops[i0])
        BY <1>5, <3>1, <3>2
      <3>5. CASE k # at
        <4>1. PICK k0 \in DOMAIN c.ops : k = Lift(at, k0) /\ d.ops[k] = c.ops[k0]
          BY <2>2, <3>5
        <4>2. i0 < k0 /\ k0 < j0
          BY <1>1, <1>5, <3>1, <3>2, <4>1 DEF Lifts
        <4>3. SameItem(c, c.ops[i0], c.ops[k0])
          BY <3>4, <4>2 DEF Contiguous
        <4>4. QED  BY <3>1, <4>1, <4>3
      <3>6. CASE k = at
        <4>1. i0 < at /\ at <= j0
          BY <1>1, <1>5, <3>1, <3>2, <3>6 DEF Lifts
        <4>2. item # 0
          BY <1>2, <1>4, <2>1, <3>3, <4>1 DEF PlacedAt
        <4>3. at - 1 \in DOMAIN c.ops /\ SameItem(c, c.ops[at - 1], c.ops[item])
              /\ ~ SameItem(c, c.ops[j0], c.ops[item])
          BY <1>4, <2>1, <3>3, <4>1, <4>2 DEF PlacedAt
        <4>4. ~ SameItem(c, c.ops[i0], c.ops[at - 1])
          BY <3>4, <4>3 DEF SameItem
        <4>5. i0 # at - 1
          BY <4>4 DEF SameItem
        <4>6. i0 < at - 1 /\ at - 1 < j0
          BY <2>1, <3>3, <4>1, <4>5
        <4>7. SameItem(c, c.ops[i0], c.ops[at - 1])
          BY <3>4, <4>3, <4>6 DEF Contiguous
        <4>8. QED  BY <4>4, <4>7
      <3>7. QED  BY <3>5, <3>6
    <2>6. QED  BY <2>3, <2>4, <2>5
  <1>6. QED  BY <1>3, <1>5 DEF Contiguous

LEMMA AddKept ==
  ASSUME NEW c \in Catalog, WellKept(c), NEW d, NEW path, NEW item, NEW at, NEW op,
         Adds(d, c, path, item, at, op), IsNew(c, op)
  PROVE  WellKept(d)
  <1>1. Lifts(d, c, at, op) /\ d \in Catalog
    BY AddLifts DEF Adds
  <1>2. \A i \in DOMAIN c.ops : Lift(at, i) \in CatalogOperations(d) <=> i \in CatalogOperations(c)
    BY AddShows
  <1>3. CatalogOperations(d) \subseteq DOMAIN d.ops
    BY <1>1, ShownPlaces
  <1>4. NoneWithout(d)
    BY DEF Adds, NoneWithout
  <1>5. /\ Yaml(d) <=> Yaml(c)
        /\ \A o : ShownKey(d, o) = ShownKey(c, o)
        /\ \A o, p : SameItem(d, o, p) <=> SameItem(c, o, p)
    BY SameLooks DEF Adds
  <1>6. IdsApart(d)
    <2>1. ASSUME NEW j \in CatalogOperations(d), j # at
          PROVE  \E i \in CatalogOperations(c) : j = Lift(at, i) /\ d.ops[j] = c.ops[i]
      BY <1>1, <1>2, <1>3, <2>1 DEF Lifts
    <2>2. IdsApart(c) /\ d.ops[at] = op
      BY <1>1 DEF WellKept, Lifts
    <2>3. ASSUME NEW i \in CatalogOperations(d), NEW j \in CatalogOperations(d), i # j,
                 d.ops[i].operationId # Absent, d.ops[i].operationId = d.ops[j].operationId
          PROVE  ShownKey(c, d.ops[i]) = ShownKey(c, d.ops[j])
      <3>1. CASE i = at
        <4>1. PICK k \in CatalogOperations(c) : d.ops[j] = c.ops[k]
          BY <2>1, <2>3, <3>1
        <4>2. QED  BY <2>2, <2>3, <3>1, <4>1 DEF IsNew
      <3>2. CASE j = at
        <4>1. PICK k \in CatalogOperations(c) : d.ops[i] = c.ops[k]
          BY <2>1, <2>3, <3>2
        <4>2. QED  BY <2>2, <2>3, <3>2, <4>1 DEF IsNew
      <3>3. CASE i # at /\ j # at
        <4>1. PICK k \in CatalogOperations(c) : i = Lift(at, k) /\ d.ops[i] = c.ops[k]
          BY <2>1, <3>3
        <4>2. PICK l \in CatalogOperations(c) : j = Lift(at, l) /\ d.ops[j] = c.ops[l]
          BY <2>1, <3>3
        <4>3. k # l
          BY <2>3, <4>1, <4>2
        <4>4. QED  BY <2>2, <2>3, <4>1, <4>2, <4>3 DEF IdsApart
      <3>4. QED  BY <3>1, <3>2, <3>3
    <2>4. QED  BY <1>5, <2>3 DEF IdsApart
  <1>7. KeysApart(d)
    <2> SUFFICES ASSUME d.sound, NEW i \in DOMAIN d.ops, NEW j \in DOMAIN d.ops
                 PROVE  /\ i # j => Key(d.ops[i]) # Key(d.ops[j])
                        /\ d.ops[i].path = d.ops[j].path =>
                             /\ SameItem(c, d.ops[i], d.ops[j])
                             /\ Yaml(c) => (d.ops[i].written = "item" <=> d.ops[j].written = "item")
      BY <1>5 DEF KeysApart
    <2>1. \A k \in DOMAIN d.ops : k # at => \E m \in DOMAIN c.ops : k = Lift(at, m) /\ d.ops[k] = c.ops[m]
      BY <1>1 DEF Lifts
    <2>2. c.sound /\ d.ops[at] = op /\ KeysApart(c)
      BY <1>1 DEF Adds, Lifts, WellKept
    <2>3. \A k \in DOMAIN c.ops :
            op.path = c.ops[k].path =>
              /\ op.method # c.ops[k].method
              /\ SameItem(c, op, c.ops[k])
              /\ Yaml(c) => op.written # "item" /\ c.ops[k].written # "item"
      BY <2>2, NewIsApart
    <2>4. CASE i = j
      BY <2>4 DEF SameItem
    <2>5. CASE i = at /\ j # at
      <3>1. PICK k \in DOMAIN c.ops : d.ops[j] = c.ops[k]
        BY <2>1, <2>5
      <3>2. QED  BY <2>2, <2>3, <2>5, <3>1 DEF Key
    <2>6. CASE j = at /\ i # at
      <3>1. PICK k \in DOMAIN c.ops : d.ops[i] = c.ops[k]
        BY <2>1, <2>6
      <3>2. QED  BY <2>2, <2>3, <2>6, <3>1 DEF Key, SameItem
    <2>7. CASE i # at /\ j # at /\ i # j
      <3>1. PICK k \in DOMAIN c.ops : i = Lift(at, k) /\ d.ops[i] = c.ops[k]
        BY <2>1, <2>7
      <3>2. PICK l \in DOMAIN c.ops : j = Lift(at, l) /\ d.ops[j] = c.ops[l]
        BY <2>1, <2>7
      <3>3. k # l
        BY <2>7, <3>1, <3>2
      <3>4. QED  BY <2>2, <3>1, <3>2, <3>3 DEF KeysApart
    <2>8. QED  BY <2>4, <2>5, <2>6, <2>7
  <1>8. Contiguous(d)
    BY AddContiguous DEF WellKept
  <1>9. QED  BY <1>4, <1>6, <1>7, <1>8 DEF WellKept

LEMMA AddFollows ==
  ASSUME NEW c \in Catalog, NEW d, NEW path, NEW item, NEW at, NEW op,
         Adds(d, c, path, item, at, op), NEW sel, Followed(c, sel)
  PROVE  Followed(d, sel)
  <1>1. Lifts(d, c, at, op)
    BY AddLifts
  <1>2. \A i \in DOMAIN c.ops : Lift(at, i) \in CatalogOperations(d) <=> i \in CatalogOperations(c)
    BY AddShows
  <1>3. CatalogOperations(c) \subseteq DOMAIN c.ops /\ \A o : ShownKey(d, o) = ShownKey(c, o)
    BY ShownPlaces, SameLooks DEF Adds
  <1>4. \A i \in CatalogOperations(c) :
          Lift(at, i) \in CatalogOperations(d) /\ ShownKey(d, d.ops[Lift(at, i)]) = ShownKey(c, c.ops[i])
    BY <1>1, <1>2, <1>3 DEF Lifts
  <1>5. QED  BY <1>4 DEF Followed

(* Where an operation was before those between two places were taken away. *)
Drop(first, last, i) == IF i < first THEN i ELSE i + (last - first + 1)

LEMMA DeleteDrops ==
  ASSUME NEW c \in Catalog, NEW d, NEW first, NEW last, Deletes(d, c, first, last)
  PROVE  /\ \A i \in DOMAIN d.ops : /\ Drop(first, last, i) \in DOMAIN c.ops
                                   /\ d.ops[i] = c.ops[Drop(first, last, i)]
         /\ \A i, j \in DOMAIN d.ops : i < j => Drop(first, last, i) < Drop(first, last, j)
         /\ \A i, j \in DOMAIN d.ops : i # j => Drop(first, last, i) # Drop(first, last, j)
         /\ \A i \in DOMAIN c.ops : i \notin first .. last => \E j \in DOMAIN d.ops : d.ops[j] = c.ops[i]
  <1> DEFINE n == last - first + 1
  <1>1. /\ Len(c.ops) \in Nat /\ DOMAIN c.ops = 1 .. Len(c.ops)
        /\ first \in Nat /\ last \in Nat /\ 1 <= first /\ first <= last /\ last <= Len(c.ops)
    <2>1. Len(c.ops) \in Nat /\ DOMAIN c.ops = 1 .. Len(c.ops)
      BY Entries
    <2>2. QED  BY <2>1 DEF Deletes
  <1>2. n \in Nat /\ 1 <= n
    BY <1>1
  <1>3. /\ DOMAIN d.ops = 1 .. Len(c.ops) - n
        /\ \A i \in DOMAIN d.ops : i < first => d.ops[i] = c.ops[i]
        /\ \A i \in DOMAIN d.ops : first <= i => d.ops[i] = c.ops[i + n]
    BY DEF Deletes, Loses
  <1>4. \A i : Drop(first, last, i) = IF i < first THEN i ELSE i + n
    BY DEF Drop
  <1>5. last + 1 = first + n
    BY <1>1
  <1> HIDE DEF n
  <1>6. ASSUME NEW i \in DOMAIN d.ops
        PROVE  Drop(first, last, i) \in DOMAIN c.ops /\ d.ops[i] = c.ops[Drop(first, last, i)]
    <2>1. i \in Nat /\ 1 <= i /\ i <= Len(c.ops) - n
      BY <1>1, <1>2, <1>3
    <2>2. CASE i < first
      <3>1. i \in DOMAIN c.ops /\ Drop(first, last, i) = i
        BY <1>1, <1>4, <2>1, <2>2
      <3>2. QED  BY <1>3, <2>2, <3>1
    <2>3. CASE first <= i
      <3>1. i + n \in DOMAIN c.ops /\ Drop(first, last, i) = i + n
        BY <1>1, <1>2, <1>4, <2>1, <2>3
      <3>2. QED  BY <1>3, <2>3, <3>1
    <2>4. QED  BY <1>1, <2>1, <2>2, <2>3
  <1>7. ASSUME NEW i \in DOMAIN d.ops, NEW j \in DOMAIN d.ops
        PROVE  /\ i < j => Drop(first, last, i) < Drop(first, last, j)
               /\ i # j => Drop(first, last, i) # Drop(first, last, j)
    <2>1. i \in Nat /\ j \in Nat
      BY <1>1, <1>2, <1>3
    <2>2. QED  BY <1>1, <1>2, <1>4, <2>1
  <1>8. ASSUME NEW i \in DOMAIN c.ops, i \notin first .. last PROVE \E j \in DOMAIN d.ops : d.ops[j] = c.ops[i]
    <2>1. i \in Nat /\ 1 <= i /\ i <= Len(c.ops) /\ (i < first \/ last < i)
      BY <1>1, <1>8
    <2>2. CASE i < first
      <3>1. i \in DOMAIN d.ops
        BY <1>1, <1>2, <1>3, <1>5, <2>1, <2>2
      <3>2. QED  BY <1>3, <2>2, <3>1
    <2>3. CASE last < i
      <3>1. i - n \in DOMAIN d.ops /\ first <= i - n /\ i - n + n = i
        BY <1>1, <1>2, <1>3, <1>5, <2>1, <2>3
      <3>2. d.ops[i - n] = c.ops[i]
        BY <1>3, <3>1
      <3>3. QED  BY <3>1, <3>2
    <2>4. QED  BY <2>1, <2>2, <2>3
  <1>9. QED  BY <1>6, <1>7, <1>8

LEMMA DeleteKept ==
  ASSUME NEW c \in Catalog, WellKept(c), NEW d, NEW first, NEW last, Deletes(d, c, first, last), NEW mov
  PROVE  Kept(d, None, None, mov)
  <1> DEFINE was(i) == Drop(first, last, i)
  <1>1. /\ \A i \in DOMAIN d.ops : was(i) \in DOMAIN c.ops /\ d.ops[i] = c.ops[was(i)]
        /\ \A i, j \in DOMAIN d.ops : (i < j => was(i) < was(j)) /\ (i # j => was(i) # was(j))
    BY DeleteDrops
  <1> HIDE DEF was
  <1>2. d.format = c.format /\ d.sound = c.sound /\ d.layout["paths"] = c.layout["paths"]
    BY DEF Deletes
  <1>3. /\ Yaml(d) <=> Yaml(c)
        /\ \A o : /\ Recognised(d, o) <=> Recognised(c, o)
                  /\ OnLines(d, o) <=> OnLines(c, o)
                  /\ ShownKey(d, o) = ShownKey(c, o)
        /\ \A o, p : SameItem(d, o, p) <=> SameItem(c, o, p)
    BY <1>2, SameLooks
  <1>4. NoneWithout(d)
    <2>1. c.ops # << >>
      BY DEF Deletes
    <2>2. QED  BY <1>2, <2>1 DEF WellKept, NoneWithout
  <1>5. IdsApart(d)
    <2>1. \A i \in CatalogOperations(d) : i \in DOMAIN d.ops /\ was(i) \in CatalogOperations(c)
      BY <1>1, <1>2, <1>3 DEF CatalogOperations, Unreadable
    <2>2. IdsApart(c)
      BY DEF WellKept
    <2>3. ASSUME NEW i \in CatalogOperations(d), NEW j \in CatalogOperations(d), i # j,
                 d.ops[i].operationId # Absent, d.ops[i].operationId = d.ops[j].operationId
          PROVE  ShownKey(c, d.ops[i]) = ShownKey(c, d.ops[j])
      <3>1. /\ was(i) \in CatalogOperations(c) /\ was(j) \in CatalogOperations(c) /\ was(i) # was(j)
            /\ d.ops[i] = c.ops[was(i)] /\ d.ops[j] = c.ops[was(j)]
        BY <1>1, <2>1, <2>3
      <3>2. QED  BY <2>2, <2>3, <3>1 DEF IdsApart
    <2>4. QED  BY <1>3, <2>3 DEF IdsApart
  <1>6. KeysApart(d)
    <2>1. KeysApart(c)
      BY DEF WellKept
    <2>2. QED  BY <1>1, <1>2, <1>3, <2>1 DEF KeysApart
  <1>7. Contiguous(d)
    <2>1. Contiguous(c)
      BY DEF WellKept
    <2>2. QED  BY <1>1, <1>3, <2>1 DEF Contiguous
  <1>8. WellKept(d)
    BY <1>4, <1>5, <1>6, <1>7 DEF WellKept
  <1>9. QED  BY <1>8 DEF Kept, Followed, Listed

-----------------------------------------------------------------------------
(* What a session keeps: the draft is well kept, the operation selected is *)
(* one it shows, and the dialog is about the operation the button deletes  *)
(* unless the selection may have become another one under it.              *)
CatalogInv == TypeOK /\ Kept(draft, selected, impact, moved)

LEMMA InitHolds == Init => CatalogInv
  <1> SUFFICES ASSUME Init PROVE CatalogInv
    OBVIOUS
  <1>1. draft \in Catalog /\ WellKept(draft) /\ MaxEdits \in Nat
    BY SeedsAssumption DEF Init
  <1>2. Kept(draft, selected, impact, moved)
    BY <1>1 DEF Init, Kept, Followed, Listed
  <1>3. TypeOK
    <2>1. edits \in 0 .. MaxEdits
      BY <1>1 DEF Init
    <2>2. draft.sound =>
            \A i, j \in DOMAIN draft.ops : i # j => Key(draft.ops[i]) # Key(draft.ops[j])
      BY <1>1 DEF WellKept, KeysApart
    <2>3. QED  BY <1>1, <2>1, <2>2 DEF Init, TypeOK
  <1>4. QED  BY <1>2, <1>3 DEF CatalogInv

(* The type of the variables but the draft.                                *)
FormOK ==
  /\ saved \in Catalog
  /\ selected \in (Paths \X Methods) \cup {None}
  /\ errors \subseteq ErrorFields
  /\ impact \in ((Paths \X Methods) \X (Ids \cup {Absent})) \cup {None}
  /\ moved \in BOOLEAN
  /\ edits \in 0 .. MaxEdits

LEMMA InvParts ==
  CatalogInv => draft \in Catalog /\ FormOK /\ Kept(draft, selected, impact, moved)
  BY DEF CatalogInv, TypeOK, FormOK

LEMMA PartsMake ==
  ASSUME draft' \in Catalog, FormOK', Kept(draft', selected', impact', moved')
  PROVE  CatalogInv'
  <1>1. KeysApart(draft')
    BY DEF Kept, WellKept
  <1>2. draft'.sound =>
          \A i, j \in DOMAIN draft'.ops : i # j => Key(draft'.ops[i]) # Key(draft'.ops[j])
    BY <1>1 DEF KeysApart
  <1>3. TypeOK'
    BY <1>2 DEF TypeOK, FormOK
  <1>4. QED  BY <1>3 DEF CatalogInv

(* The key an operation is shown under.                                    *)
LEMMA KeyType ==
  ASSUME NEW c, NEW op \in Operation, op.method # Absent
  PROVE  /\ ShownKey(c, op) \in Paths \X Methods
         /\ About(c, op) \in (Paths \X Methods) \X (Ids \cup {Absent})
  <1>1. ShownPath(c, op) \in Paths
    BY ColonAssumption DEF ShownPath, Operation
  <1>2. QED  BY <1>1 DEF ShownKey, About, Operation

(* The places an operation of the form comes from.                         *)
LEMMA SelectionPlaces ==
  ASSUME draft \in Catalog, NEW op \in Selection
  PROVE  \E p \in Places(draft, selected) :
           op = draft.ops[p] /\ p \in Shown /\ op \in Operation /\ op.method # Absent
  <1>1. PICK p \in Places(draft, selected) : op = draft.ops[p]
    BY SelectionIs
  <1>2. p \in CatalogOperations(draft)
    BY PlacesHold DEF PlacesAre
  <1>3. draft.ops[p] \in Operation
    BY <1>2, ShownPlaces, Entries
  <1>4. op.method # Absent
    BY <1>1, <1>2 DEF CatalogOperations
  <1>5. QED  BY <1>1, <1>2, <1>3, <1>4 DEF Shown

(* What an edit of the draft leaves of the other variables.                *)
LEMMA ApplyTypes ==
  ASSUME FormOK, MayEdit, NEW result, NEW field \in ErrorFields, NEW kept, kept \subseteq errors,
         Apply(result, field, kept)
  PROVE  errors' \subseteq ErrorFields /\ edits' \in 0 .. MaxEdits
  <1>1. MaxEdits \in Nat
    BY SeedsAssumption
  <1>2. edits' = edits \/ edits' = edits + 1
    BY DEF Apply
  <1>3. edits' \in 0 .. MaxEdits
    BY <1>1, <1>2 DEF FormOK, MayEdit
  <1>4. errors' \subseteq ErrorFields
    BY DEF Apply, FormOK, ErrorFields
  <1>5. QED  BY <1>3, <1>4

(* What a step makes of the draft.                                         *)
EditStep == Legible(draft', draft) /\ DeletionIsMeant

LEMMA RewriteStep ==
  ASSUME draft \in Catalog, draft' = draft \/ Rewrites(draft', draft), Legible(draft', draft)
  PROVE  EditStep
  <1>1. \A i \in DOMAIN draft.ops : i \in DOMAIN draft'.ops /\ Key(draft'.ops[i]) = Key(draft.ops[i])
    BY RewriteShows DEF Rewrites
  <1>2. QED  BY <1>1 DEF EditStep, DeletionIsMeant

LEMMA AddStep ==
  ASSUME draft \in Catalog, NEW path, NEW item, NEW at, NEW op,
         Adds(draft', draft, path, item, at, op), Legible(draft', draft)
  PROVE  EditStep
  <1>1. Lifts(draft', draft, at, op)
    BY AddLifts
  <1>2. \A i \in DOMAIN draft.ops :
          Lift(at, i) \in DOMAIN draft'.ops /\ Key(draft'.ops[Lift(at, i)]) = Key(draft.ops[i])
    BY <1>1 DEF Lifts
  <1>3. QED  BY <1>2 DEF EditStep, DeletionIsMeant

(* The edits of a form field.                                              *)
LEMMA FormEdit ==
  ASSUME CatalogInv, NEW result, NEW field \in ErrorFields, NEW kept, kept \subseteq errors,
         MayEdit, Apply(result, field, kept), UNCHANGED << saved, selected, impact >>,
         moved' \in BOOLEAN, moved => moved', Edits(result.source, draft)
  PROVE  CatalogInv' /\ EditStep
  <1>1. draft \in Catalog /\ FormOK /\ Kept(draft, selected, impact, moved)
    BY InvParts
  <1>2. draft' = result.source
    BY DEF Apply
  <1>3. Edits(draft', draft)
    BY <1>2
  <1>4. Kept(draft', selected', impact', moved')
    <2>1. Kept(draft', selected, impact, moved)
      BY <1>1, <1>3, EditKept
    <2>2. QED  BY <2>1 DEF Kept, Listed
  <1>5. draft' \in Catalog
    BY <1>3 DEF Edits, Rewrites
  <1>6. FormOK'
    <2>1. errors' \subseteq ErrorFields /\ edits' \in 0 .. MaxEdits
      BY <1>1, ApplyTypes
    <2>2. QED  BY <1>1, <2>1 DEF FormOK
  <1>7. CatalogInv'
    BY <1>4, <1>5, <1>6, PartsMake
  <1>8. EditStep
    BY <1>1, <1>3, RewriteStep DEF Edits
  <1>9. QED  BY <1>7, <1>8

LEMMA MetadataStep ==
  ASSUME CatalogInv, UpdateMetadata
  PROVE  CatalogInv' /\ EditStep
  <1>1. draft \in Catalog /\ FormOK /\ Kept(draft, selected, impact, moved)
    BY InvParts
  <1>2. PICK field \in InfoFields, value \in Texts \cup {Absent} :
          /\ MayEdit
          /\ draft' = PatchMetadata(draft, field, value).source
          /\ edits' = edits + 1
          /\ errors' = errors \ {"servers"}
          /\ UNCHANGED << saved, selected, impact, moved >>
    BY DEF UpdateMetadata
  <1>3. Edits(draft', draft)
    BY <1>1, <1>2, MetadataPatched
  <1>4. Kept(draft', selected', impact', moved')
    <2>1. Kept(draft', selected, impact, moved)
      BY <1>1, <1>3, EditKept
    <2>2. QED  BY <1>2, <2>1
  <1>5. draft' \in Catalog
    BY <1>3 DEF Edits, Rewrites
  <1>6. FormOK'
    <2>1. MaxEdits \in Nat
      BY SeedsAssumption
    <2>2. edits' \in 0 .. MaxEdits
      BY <1>1, <1>2, <2>1 DEF FormOK, MayEdit
    <2>3. errors' \subseteq ErrorFields
      BY <1>1, <1>2 DEF FormOK
    <2>4. QED  BY <1>1, <1>2, <2>2, <2>3 DEF FormOK
  <1>7. CatalogInv'
    BY <1>4, <1>5, <1>6, PartsMake
  <1>8. EditStep
    BY <1>1, <1>3, RewriteStep DEF Edits
  <1>9. QED  BY <1>7, <1>8

LEMMA ServersStep ==
  ASSUME CatalogInv, UpdateServers
  PROVE  CatalogInv' /\ EditStep
  <1>1. PICK text \in Fragments : Form(PatchServers(draft, text), "servers")
    BY DEF UpdateServers
  <1>2. draft \in Catalog
    BY InvParts
  <1>3. Edits(PatchServers(draft, text).source, draft)
    BY <1>2, ServersPatched
  <1>4. "servers" \in ErrorFields
    BY DEF ErrorFields
  <1>5. moved \in BOOLEAN
    BY InvParts DEF FormOK
  <1>6. QED  BY <1>1, <1>3, <1>4, <1>5, FormEdit DEF Form

LEMMA StructuredStep ==
  ASSUME CatalogInv, UpdateStructured
  PROVE  CatalogInv' /\ EditStep
  <1>1. PICK op \in Selection, text \in Fragments :
          Form(PatchStructured(draft, ShownPath(draft, op), op.method, text), "structured")
    BY DEF UpdateStructured
  <1>2. draft \in Catalog /\ moved \in BOOLEAN
    BY InvParts DEF FormOK
  <1>3. op.method # Absent
    BY <1>2, SelectionPlaces
  <1>4. Edits(PatchStructured(draft, ShownPath(draft, op), op.method, text).source, draft)
    BY <1>2, <1>3, StructuredPatched
  <1>5. "structured" \in ErrorFields
    BY DEF ErrorFields
  <1>6. QED  BY <1>1, <1>2, <1>4, <1>5, FormEdit DEF Form

LEMMA CreateComponentStep ==
  ASSUME CatalogInv, CreateComponent
  PROVE  CatalogInv' /\ EditStep
  <1>1. PICK name \in ComponentNames \cup {Absent}, t \in ComponentTexts :
          Form(AddComponent(draft, name, t[1], t[2]), "component")
    BY DEF CreateComponent
  <1>2. draft \in Catalog /\ moved \in BOOLEAN
    BY InvParts DEF FormOK
  <1>3. t[1] \in Schemas /\ t[2] \in Fragments
    BY TextsAssumption
  <1>4. Edits(AddComponent(draft, name, t[1], t[2]).source, draft)
    BY <1>2, <1>3, ComponentAdded
  <1>5. "component" \in ErrorFields
    BY DEF ErrorFields
  <1>6. QED  BY <1>1, <1>2, <1>4, <1>5, FormEdit DEF Form

LEMMA UpdateComponentStep ==
  ASSUME CatalogInv, UpdateComponent
  PROVE  CatalogInv' /\ EditStep
  <1>1. PICK name \in ShownComponents(draft), t \in ComponentTexts :
          Form(PatchComponent(draft, name, t[1], t[2]), "component")
    BY DEF UpdateComponent
  <1>2. draft \in Catalog /\ moved \in BOOLEAN
    BY InvParts DEF FormOK
  <1>3. t[1] \in Schemas /\ t[2] \in Fragments
    BY TextsAssumption
  <1>4. name \in ComponentNames
    BY DEF ShownComponents
  <1>5. Edits(PatchComponent(draft, name, t[1], t[2]).source, draft)
    BY <1>2, <1>3, <1>4, ComponentPatched
  <1>6. "component" \in ErrorFields
    BY DEF ErrorFields
  <1>7. QED  BY <1>1, <1>2, <1>5, <1>6, FormEdit DEF Form

LEMMA OperationStep ==
  ASSUME CatalogInv, UpdateOperation
  PROVE  CatalogInv' /\ EditStep
  <1>1. draft \in Catalog /\ FormOK /\ Kept(draft, selected, impact, moved)
    BY InvParts
  <1>2. PICK op \in Selection, field \in {"operationId", "summary"} :
        \E value \in (IF field = "operationId" THEN Ids ELSE Texts) \cup {Absent} :
          /\ MayEdit
          /\ Apply(IF field = "operationId" /\ value # Absent /\ TakenByAnother(value)
                   THEN Refused(draft)
                   ELSE PatchOperation(draft, ShownPath(draft, op), op.method, field, value),
                   "operation", errors \ {"structured"})
          /\ moved' = (moved \/ (impact # None /\ field = "operationId"))
          /\ UNCHANGED << saved, selected, impact >>
    BY DEF UpdateOperation
  <1>3. PICK value \in (IF field = "operationId" THEN Ids ELSE Texts) \cup {Absent} :
          /\ MayEdit
          /\ Apply(IF field = "operationId" /\ value # Absent /\ TakenByAnother(value)
                   THEN Refused(draft)
                   ELSE PatchOperation(draft, ShownPath(draft, op), op.method, field, value),
                   "operation", errors \ {"structured"})
          /\ moved' = (moved \/ (impact # None /\ field = "operationId"))
          /\ UNCHANGED << saved, selected, impact >>
    BY <1>2
  <1>4. PICK p \in Places(draft, selected) : op = draft.ops[p] /\ op.method # Absent
    BY <1>1, SelectionPlaces
  <1>5. /\ "operation" \in ErrorFields /\ errors \ {"structured"} \subseteq errors
        /\ moved' \in BOOLEAN /\ (moved => moved')
    BY <1>1, <1>3 DEF ErrorFields, FormOK
  <1>6. CASE field = "operationId" /\ value # Absent /\ TakenByAnother(value)
    <2>1. Apply(Refused(draft), "operation", errors \ {"structured"})
      BY <1>3, <1>6
    <2>2. Refused(draft).source = draft
      BY DEF Refused
    <2>3. Edits(Refused(draft).source, draft)
      BY <1>1, <2>2, NoEdit
    <2>4. QED  BY <1>3, <1>5, <2>1, <2>3, FormEdit
  <1>7. CASE ~ (field = "operationId" /\ value # Absent /\ TakenByAnother(value))
    <2> DEFINE result == PatchOperation(draft, ShownPath(draft, op), op.method, field, value)
    <2>1. Apply(result, "operation", errors \ {"structured"})
      BY <1>3, <1>7
    <2>2. draft' = result.source
      BY <2>1 DEF Apply
    <2>3. OpPatched(draft', draft, ShownPath(draft, draft.ops[p]), draft.ops[p].method, field, value)
      BY <1>1, <1>4, <2>2, OperationPatched
    <2>4. field = "operationId" /\ value # Absent =>
            \A i \in CatalogOperations(draft) :
              draft.ops[i].operationId = value => ShownKey(draft, draft.ops[i]) = selected
      BY <1>7 DEF TakenByAnother, Shown
    <2> HIDE DEF result
    <2>5. /\ WellKept(draft') /\ Followed(draft', selected)
          /\ field # "operationId" => Listed(draft', selected, impact, moved)
          /\ Legible(draft', draft)
          /\ draft' = draft \/ Rewrites(draft', draft)
      BY <1>1, <2>3, <2>4, IdKept
    <2>6. draft' \in Catalog
      BY <1>1, <2>5 DEF Rewrites
    <2>7. FormOK'
      <3>1. errors' \subseteq ErrorFields /\ edits' \in 0 .. MaxEdits
        BY <1>1, <1>3, <1>5, <2>1, ApplyTypes
      <3>2. QED  BY <1>1, <1>3, <1>5, <3>1 DEF FormOK
    <2>8. Kept(draft', selected', impact', moved')
      <3>1. Listed(draft', selected, impact, moved')
        BY <1>3, <2>5 DEF Listed
      <3>2. QED  BY <1>3, <2>5, <3>1 DEF Kept
    <2>9. CatalogInv'
      BY <2>6, <2>7, <2>8, PartsMake
    <2>10. EditStep
      BY <1>1, <2>5, RewriteStep
    <2>11. QED  BY <2>9, <2>10
  <1>8. QED  BY <1>6, <1>7

LEMMA CreateStep ==
  ASSUME CatalogInv, CreateOperation
  PROVE  CatalogInv' /\ EditStep
  <1>1. PICK path \in Paths, method \in Methods, id \in Ids \cup {Absent} :
          /\ MayEdit
          /\ Apply(AddOperation(draft, path, method, id), "operation", errors)
          /\ moved' = (moved \/ impact # None)
          /\ UNCHANGED << saved, selected, impact >>
    BY DEF CreateOperation
  <1>2. draft \in Catalog /\ FormOK /\ Kept(draft, selected, impact, moved)
    BY InvParts
  <1>3. "operation" \in ErrorFields /\ moved' \in BOOLEAN /\ (moved => moved')
    BY <1>1, <1>2 DEF ErrorFields, FormOK
  <1> DEFINE result == AddOperation(draft, path, method, id)
  <1>4. /\ Legible(result.source, draft)
        /\ \/ result.source = draft
           \/ \E item, at, op : Adds(result.source, draft, path, item, at, op) /\ IsNew(draft, op)
    BY <1>2, OperationAdded
  <1>5. Apply(result, "operation", errors)
    BY <1>1
  <1> HIDE DEF result
  <1>6. draft' = result.source
    BY <1>5 DEF Apply
  <1>7. CASE result.source = draft
    <2>1. Edits(result.source, draft)
      BY <1>2, <1>7, NoEdit
    <2>2. QED  BY <1>1, <1>3, <1>5, <2>1, FormEdit
  <1>8. CASE result.source # draft
    <2>1. PICK item, at, op : Adds(draft', draft, path, item, at, op) /\ IsNew(draft, op)
      BY <1>4, <1>6, <1>8
    <2>2. WellKept(draft) /\ Followed(draft, selected)
      BY <1>2 DEF Kept
    <2>3. WellKept(draft') /\ Followed(draft', selected)
      BY <1>2, <2>1, <2>2, AddKept, AddFollows
    <2>4. Kept(draft', selected', impact', moved')
      BY <1>1, <2>3 DEF Kept, Listed
    <2>5. draft' \in Catalog
      BY <2>1 DEF Adds
    <2>6. FormOK'
      <3>1. errors' \subseteq ErrorFields /\ edits' \in 0 .. MaxEdits
        BY <1>1, <1>2, <1>3, <1>5, ApplyTypes
      <3>2. QED  BY <1>1, <1>2, <1>3, <3>1 DEF FormOK
    <2>7. CatalogInv'
      BY <2>4, <2>5, <2>6, PartsMake
    <2>8. EditStep
      BY <1>2, <1>4, <1>6, <2>1, AddStep
    <2>9. QED  BY <2>7, <2>8
  <1>9. QED  BY <1>7, <1>8

(* What else goes with the operation the form shows is written on the line *)
(* of its path, in a text that does not parse.                             *)
LEMMA TakenIsMeant ==
  ASSUME NEW c \in Catalog, WellKept(c), NEW first, NEW last, NEW at \in CatalogOperations(c),
         TakenFor(c, first, last, at), first \in DOMAIN c.ops, last \in first .. Len(c.ops)
  PROVE  \A i \in first .. last :
           i # at => ~ c.sound /\ c.ops[i].written = "item" /\ c.ops[i].path = c.ops[at].path
  <1> SUFFICES ASSUME NEW i \in first .. last, i # at
               PROVE  ~ c.sound /\ c.ops[i].written = "item" /\ c.ops[i].path = c.ops[at].path
    OBVIOUS
  <1>1. Len(c.ops) \in Nat /\ DOMAIN c.ops = 1 .. Len(c.ops)
    BY Entries
  <1>2. i \in DOMAIN c.ops /\ at \in DOMAIN c.ops
    BY <1>1 DEF CatalogOperations
  <1>3. c.ops[i] \in Operation
    BY <1>2, Entries
  <1>4. Yaml(c) /\ ~ OnLines(c, c.ops[i]) /\ SameItem(c, c.ops[i], c.ops[at]) /\ OnLines(c, c.ops[at])
    BY DEF TakenFor, CatalogOperations
  <1>5. c.ops[at].written \in {"block", "line"} /\ c.ops[i].written \notin {"block", "line"}
        /\ c.ops[i].path = c.ops[at].path /\ c.ops[i].written # "hidden"
    BY <1>4 DEF OnLines, SameItem
  <1>6. c.ops[i].written = "item"
    BY <1>3, <1>5 DEF Operation, Spellings
  <1>7. ~ c.sound
    <2>1. KeysApart(c)
      BY DEF WellKept
    <2>2. QED  BY <1>2, <1>4, <1>5, <1>6, <2>1 DEF KeysApart
  <1>8. QED  BY <1>5, <1>6, <1>7

LEMMA RemoveStep ==
  ASSUME CatalogInv, NEW op \in Selection, RemoveSelected(op), HasReferences(op) => impact # None
  PROVE  CatalogInv' /\ EditStep
  <1>1. draft \in Catalog /\ FormOK /\ Kept(draft, selected, impact, moved)
    BY InvParts
  <1>2. PICK p \in Places(draft, selected) : op = draft.ops[p] /\ p \in Shown /\ op.method # Absent
    BY <1>1, SelectionPlaces
  <1>3. WellKept(draft) /\ Listed(draft, selected, impact, moved) /\ Contiguous(draft)
    BY <1>1 DEF Kept, WellKept
  <1> DEFINE path == ShownPath(draft, op)
             result == RemoveOperation(draft, path, op.method)
  <1>4. /\ MayEdit /\ Apply(result, "operation", errors)
        /\ IF result.error THEN UNCHANGED << selected, impact, moved >>
           ELSE selected' = None /\ impact' = None /\ moved' = FALSE
        /\ UNCHANGED saved
    BY DEF RemoveSelected
  <1>5. \/ result.error /\ result.source = draft
        \/ /\ ~ result.error
           /\ Legible(result.source, draft)
           /\ \E first, last, at :
                /\ Deletes(result.source, draft, first, last)
                /\ TakenFor(draft, first, last, at)
                /\ at = LocateOperation(draft, path, op.method) /\ at # 0
    BY <1>1, <1>2, <1>3, OperationRemoved
  <1>6. "operation" \in ErrorFields /\ moved \in BOOLEAN
    BY <1>1 DEF ErrorFields, FormOK
  <1>7. ShownKey(draft, op) = << path, op.method >>
    BY DEF ShownKey
  <1> HIDE DEF result, path
  <1>8. draft' = result.source
    BY <1>4 DEF Apply
  <1>9. CASE result.error /\ result.source = draft
    <2>1. Edits(result.source, draft)
      BY <1>1, <1>9, NoEdit
    <2>2. QED  BY <1>4, <1>6, <1>9, <2>1, FormEdit
  <1>10. CASE ~ result.error
    <2>1. PICK first, last, at :
            /\ Deletes(draft', draft, first, last)
            /\ TakenFor(draft, first, last, at)
            /\ at = LocateOperation(draft, path, op.method) /\ at # 0
      BY <1>5, <1>8, <1>10
    <2>2. Kept(draft', None, None, moved')
      BY <1>1, <1>3, <2>1, DeleteKept
    <2>3. selected' = None /\ impact' = None /\ moved' = FALSE /\ saved' = saved
      BY <1>4, <1>10
    <2>4. draft' \in Catalog
      BY <2>1 DEF Deletes
    <2>5. FormOK'
      <3>1. errors' \subseteq ErrorFields /\ edits' \in 0 .. MaxEdits
        BY <1>1, <1>4, <1>6, ApplyTypes
      <3>2. QED  BY <1>1, <2>3, <3>1 DEF FormOK
    <2>6. CatalogInv'
      BY <2>2, <2>3, <2>4, <2>5, PartsMake
    <2>7. at \in CatalogOperations(draft) /\ ShownKey(draft, draft.ops[at]) = << path, op.method >>
      BY <1>1, <1>2, <2>1, LocatedShows
    <2>8. at = p
      <3>1. p \in CatalogOperations(draft) /\ ShownKey(draft, draft.ops[p]) = << path, op.method >>
        BY <1>2, <1>7 DEF Shown
      <3>2. at <= p
        BY <1>1, <1>3, <2>1, <3>1, LocatedFirst
      <3>3. p <= at
        BY <1>1, <2>7, <3>1, PlacesHold DEF PlacesAre
      <3>4. at \in Nat /\ p \in Nat
        BY <1>1, <2>7, <3>1, ShownPlaces
      <3>5. QED  BY <3>2, <3>3, <3>4
    <2>9. draft.ops[at] = op
      BY <1>2, <2>8
    <2>10. first \in DOMAIN draft.ops /\ last \in first .. Len(draft.ops)
           /\ Len(draft'.ops) = Len(draft.ops) - (last - first + 1)
      BY <2>1 DEF Deletes
    <2>11. \A i \in first .. last :
             i # at => ~ draft.sound /\ draft.ops[i].written = "item" /\ draft.ops[i].path = op.path
      <3>1. draft \in Catalog /\ WellKept(draft) /\ TakenFor(draft, first, last, at)
            /\ at \in CatalogOperations(draft)
        BY <1>1, <1>3, <2>1, <2>7
      <3>2. first \in DOMAIN draft.ops /\ last \in first .. Len(draft.ops)
        BY <2>10
      <3>3. \A i \in first .. last :
              i # at => /\ ~ draft.sound /\ draft.ops[i].written = "item"
                        /\ draft.ops[i].path = draft.ops[at].path
        BY <3>1, <3>2, TakenIsMeant
      <3>4. QED  BY <2>9, <3>3
    <2>12. draft.sound => Len(draft'.ops) = Len(draft.ops) - 1
      <3> SUFFICES ASSUME draft.sound PROVE Len(draft'.ops) = Len(draft.ops) - 1
        OBVIOUS
      <3>1. Len(draft.ops) \in Nat /\ DOMAIN draft.ops = 1 .. Len(draft.ops)
        BY <1>1, Entries
      <3>2. first \in Nat /\ last \in Nat /\ first <= last
        BY <2>10, <3>1
      <3>3. first \in first .. last /\ last \in first .. last
        BY <3>2
      <3>4. first = at /\ last = at
        BY <2>11, <3>3
      <3>5. QED  BY <2>10, <3>1, <3>2, <3>4
    <2>13. HasReferences(op) => impact # None /\ (impact = About(draft, op) \/ moved)
      <3>1. ASSUME impact # None, ~ moved PROVE impact = About(draft, op)
        <4>1. PICK i \in Places(draft, selected) : About(draft, draft.ops[i]) = impact
          BY <1>3, <3>1 DEF Listed
        <4>2. i = p
          BY <1>1, PlacesHold DEF PlacesAre
        <4>3. QED  BY <1>2, <4>1, <4>2
      <3>2. QED  BY <1>6, <3>1
    <2>14. DeletionIsMeant
      <3>1. ASSUME NEW i \in DOMAIN draft.ops,
                   ~ \E j \in DOMAIN draft'.ops : Key(draft'.ops[j]) = Key(draft.ops[i])
            PROVE  TakenWith(draft.ops[i], op)
        <4>1. i \in first .. last
          <5>1. i \notin first .. last => \E j \in DOMAIN draft'.ops : draft'.ops[j] = draft.ops[i]
            BY <1>1, <2>1, DeleteDrops
          <5>2. QED  BY <3>1, <5>1
        <4>2. CASE i = at
          BY <2>9, <4>2 DEF TakenWith
        <4>3. CASE i # at
          BY <2>11, <4>1, <4>3 DEF TakenWith
        <4>4. QED  BY <4>2, <4>3
      <3>2. QED  BY <2>12, <2>13, <3>1 DEF DeletionIsMeant
    <2>15. EditStep
      BY <1>5, <1>8, <1>10, <2>14 DEF EditStep
    <2>16. QED  BY <2>6, <2>15
  <1>11. QED  BY <1>5, <1>9, <1>10

LEMMA DeleteStep ==
  ASSUME CatalogInv, DeleteOperation
  PROVE  CatalogInv' /\ EditStep
  BY RemoveStep DEF DeleteOperation

LEMMA AcceptStep ==
  ASSUME CatalogInv, AcceptImpact
  PROVE  CatalogInv' /\ EditStep
  BY RemoveStep DEF AcceptImpact

(* Steps that leave the draft alone.                                       *)
LEMMA SameDraft ==
  ASSUME CatalogInv, draft' = draft, FormOK', Followed(draft, selected'),
         Listed(draft, selected', impact', moved')
  PROVE  CatalogInv' /\ EditStep
  <1>1. draft \in Catalog /\ WellKept(draft)
    BY InvParts DEF Kept
  <1>2. CatalogInv'
    BY <1>1, PartsMake DEF Kept
  <1>3. Legible(draft', draft)
    BY DEF Legible
  <1>4. QED  BY <1>1, <1>2, <1>3, RewriteStep

LEMMA SelectStep ==
  ASSUME CatalogInv, SelectOperation
  PROVE  CatalogInv' /\ EditStep
  <1>1. draft \in Catalog /\ FormOK /\ Kept(draft, selected, impact, moved)
    BY InvParts
  <1>2. PICK i \in Shown :
          /\ selected' = ShownKey(draft, draft.ops[i])
          /\ errors' = errors \ {"operation", "structured"}
          /\ moved' = (moved \/ (impact # None /\ selected' # impact[1]))
          /\ UNCHANGED << draft, saved, impact, edits >>
    BY DEF SelectOperation
  <1>3. i \in CatalogOperations(draft) /\ draft.ops[i] \in Operation /\ draft.ops[i].method # Absent
    BY <1>1, ShownPlaces, Entries DEF Shown, CatalogOperations
  <1>4. selected' \in Paths \X Methods
    BY <1>2, <1>3, KeyType
  <1>5. FormOK'
    BY <1>1, <1>2, <1>4 DEF FormOK
  <1>6. Followed(draft, selected')
    BY <1>2, <1>3 DEF Followed
  <1>7. ASSUME impact' # None, ~ moved'
        PROVE  \E k \in Places(draft, selected') : About(draft, draft.ops[k]) = impact'
    <2>1. ~ moved /\ impact # None /\ selected' = impact[1]
      BY <1>2, <1>7
    <2>2. PICK p \in Places(draft, selected) : About(draft, draft.ops[p]) = impact
      BY <1>1, <2>1 DEF Kept, Listed
    <2>3. PlacesAre(draft, selected) /\ PlacesAre(draft, selected')
      BY <1>1, PlacesHold
    <2>4. p \in CatalogOperations(draft) /\ ShownKey(draft, draft.ops[p]) = selected'
      BY <2>1, <2>2, <2>3 DEF PlacesAre, About
    <2>5. PICK q \in Places(draft, selected') : TRUE
      BY <2>3, <2>4 DEF PlacesAre
    <2>6. q \in CatalogOperations(draft) /\ ShownKey(draft, draft.ops[q]) = selected'
      BY <2>3, <2>4, <2>5 DEF PlacesAre
    <2>7. q <= p /\ p <= q
      BY <2>2, <2>3, <2>4, <2>5, <2>6 DEF PlacesAre
    <2>8. q = p
      <3>1. q \in Nat /\ p \in Nat
        BY <1>1, <2>4, <2>6, ShownPlaces
      <3>2. QED  BY <2>7, <3>1
    <2>9. QED  BY <1>2, <2>2, <2>5, <2>8
  <1>8. Listed(draft, selected', impact', moved')
    BY <1>7 DEF Listed
  <1>9. QED  BY <1>2, <1>5, <1>6, <1>8, SameDraft

LEMMA ReviewStep ==
  ASSUME CatalogInv, ReviewImpact
  PROVE  CatalogInv' /\ EditStep
  <1>1. draft \in Catalog /\ FormOK /\ Kept(draft, selected, impact, moved)
    BY InvParts
  <1>2. PICK op \in Selection :
          /\ impact' = About(draft, op)
          /\ moved' = FALSE
          /\ UNCHANGED << draft, saved, selected, errors, edits >>
    BY DEF ReviewImpact
  <1>3. PICK p \in Places(draft, selected) : op = draft.ops[p] /\ op \in Operation /\ op.method # Absent
    BY <1>1, SelectionPlaces
  <1>4. FormOK'
    <2>1. impact' \in (Paths \X Methods) \X (Ids \cup {Absent})
      BY <1>2, <1>3, KeyType
    <2>2. QED  BY <1>1, <1>2, <2>1 DEF FormOK
  <1>5. Followed(draft, selected')
    BY <1>1, <1>2 DEF Kept
  <1>6. Listed(draft, selected', impact', moved')
    BY <1>2, <1>3 DEF Listed
  <1>7. QED  BY <1>2, <1>4, <1>5, <1>6, SameDraft

LEMMA OtherSteps ==
  ASSUME CatalogInv, SelectComponent \/ KeepOperation \/ Save \/ UNCHANGED vars
  PROVE  CatalogInv' /\ EditStep
  <1>1. draft \in Catalog /\ FormOK /\ Followed(draft, selected) /\ Listed(draft, selected, impact, moved)
    BY InvParts DEF Kept
  <1>2. CASE SelectComponent
    <2>1. FormOK'
      BY <1>1, <1>2 DEF SelectComponent, FormOK
    <2>2. draft' = draft /\ selected' = selected /\ impact' = impact /\ moved' = moved
      BY <1>2 DEF SelectComponent
    <2>3. QED  BY <1>1, <2>1, <2>2, SameDraft
  <1>3. CASE KeepOperation
    <2>1. FormOK'
      BY <1>1, <1>3 DEF KeepOperation, FormOK
    <2>2. draft' = draft /\ selected' = selected /\ impact' = None
      BY <1>3 DEF KeepOperation
    <2>3. Listed(draft, selected', impact', moved')
      BY <2>2 DEF Listed
    <2>4. QED  BY <1>1, <2>1, <2>2, <2>3, SameDraft
  <1>4. CASE Save
    <2>1. FormOK'
      BY <1>1, <1>4 DEF Save, FormOK
    <2>2. draft' = draft /\ selected' = selected /\ impact' = impact /\ moved' = moved
      BY <1>4 DEF Save
    <2>3. QED  BY <1>1, <2>1, <2>2, SameDraft
  <1>5. CASE UNCHANGED vars
    <2>1. FormOK'
      BY <1>1, <1>5 DEF vars, FormOK
    <2>2. draft' = draft /\ selected' = selected /\ impact' = impact /\ moved' = moved
      BY <1>5 DEF vars
    <2>3. QED  BY <1>1, <2>1, <2>2, SameDraft
  <1>6. QED  BY <1>2, <1>3, <1>4, <1>5

LEMMA StepHolds ==
  ASSUME CatalogInv, [Next]_vars
  PROVE  CatalogInv' /\ EditStep
  <1>1. CASE UpdateMetadata
    BY <1>1, MetadataStep
  <1>2. CASE UpdateServers
    BY <1>2, ServersStep
  <1>3. CASE UpdateOperation
    BY <1>3, OperationStep
  <1>4. CASE UpdateStructured
    BY <1>4, StructuredStep
  <1>5. CASE CreateOperation
    BY <1>5, CreateStep
  <1>6. CASE CreateComponent
    BY <1>6, CreateComponentStep
  <1>7. CASE UpdateComponent
    BY <1>7, UpdateComponentStep
  <1>8. CASE SelectOperation
    BY <1>8, SelectStep
  <1>9. CASE ReviewImpact
    BY <1>9, ReviewStep
  <1>10. CASE DeleteOperation
    BY <1>10, DeleteStep
  <1>11. CASE AcceptImpact
    BY <1>11, AcceptStep
  <1>12. CASE SelectComponent \/ KeepOperation \/ Save \/ UNCHANGED vars
    BY <1>12, OtherSteps
  <1>13. QED
    BY <1>1, <1>2, <1>3, <1>4, <1>5, <1>6, <1>7, <1>8, <1>9, <1>10, <1>11, <1>12 DEF Next

-----------------------------------------------------------------------------
(* The draft stays well kept, the selected operation is one it shows, and  *)
(* the dialog is about the operation its button deletes unless another one *)
(* was selected, given an operationId or created under it.                 *)
THEOREM CatalogInvariant == Spec => []CatalogInv
  <1>1. CatalogInv /\ [Next]_vars => CatalogInv'
    BY StepHolds
  <1>2. QED  BY <1>1, InitHolds, PTL DEF Spec

(* Every variable has a value of its type, and the operations of a sound   *)
(* text have distinct paths and methods.                                   *)
THEOREM TypeCorrect == Spec => []TypeOK
  <1>1. CatalogInv => TypeOK
    BY DEF CatalogInv
  <1>2. QED  BY <1>1, CatalogInvariant, PTL

(* No two operations the form shows under different keys share an          *)
(* operationId, however they were created, edited and deleted.             *)
THEOREM IdsStayUnique == Spec => []ShownIdsUnique
  <1>1. CatalogInv => ShownIdsUnique
    BY DEF CatalogInv, Kept, WellKept, IdsApart, ShownIdsUnique, Shown
  <1>2. QED  BY <1>1, CatalogInvariant, PTL

(* A button deletes the operation shown as the selected one, alone as long *)
(* as the text parses, and nothing else disappears; if workflows refer to  *)
(* it a dialog listed them, or the selection may have become another one   *)
(* while the dialog was open.                                              *)
THEOREM OnlyTheSelectedGoes == Spec => DeletionsAreMeant
  <1>1. CatalogInv /\ [Next]_vars => DeletionIsMeant
    BY StepHolds DEF EditStep
  <1>2. QED  BY <1>1, CatalogInvariant, PTL DEF Spec, DeletionsAreMeant

(* An edit the form takes leaves a catalog that can be read one that can   *)
(* be read, unless the fragment typed is one that a YAML text does not     *)
(* read where it is put.                                                   *)
THEOREM EditsAreReadable == Spec => EditsLeaveItReadable
  <1>1. CatalogInv /\ [Next]_vars => LeavesItReadable
    BY StepHolds DEF EditStep, Legible, LeavesItReadable
  <1>2. QED  BY <1>1, CatalogInvariant, PTL DEF Spec, EditsLeaveItReadable

=============================================================================
